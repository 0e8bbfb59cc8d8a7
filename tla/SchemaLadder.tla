---------------------------- MODULE SchemaLadder ----------------------------
(***************************************************************************)
(* What migration promises: a database is either left alone or climbs one  *)
(* version at a time, each rung complete, up to the latest version.        *)
(***************************************************************************)
EXTENDS Schema

VARIABLE db

Init == db \in Origins

Climb ==
  /\ Sound(db)
  /\ db.version < Latest
  /\ db' = [db EXCEPT !.version = @ + 1, !.canonical = Upto(db.version + 1)]

Spec == Init /\ [][Climb]_db

=============================================================================
