-------------------------- MODULE SchemaMigration --------------------------
(***************************************************************************)
(* Processes that open one database file and call init_schema.             *)
(*                                                                         *)
(* Each edge of the migration graph is a transaction of its own, opened by *)
(* BEGIN IMMEDIATE after an unlocked check of the version and checked      *)
(* again under the lock.  A process may fail or die between any two        *)
(* statements; the callers try again.  SQLite is external: BEGIN IMMEDIATE *)
(* admits one writer, a commit is atomic, and a transaction that does not  *)
(* commit, whatever the reason, leaves no trace.                           *)
(***************************************************************************)
EXTENDS Schema

CONSTANTS
  Openers,      \* the processes
  MaxFailures,  \* bound on the statements that fail and the processes that die
  None

ASSUME OpenerAssumption == MaxFailures \in Nat /\ None \notin Openers

VARIABLES
  db,        \* the committed database
  origin,    \* what it was at the start
  pc,        \* where each opener is
  known,     \* current_version of each init_schema call
  holder,    \* the opener inside BEGIN IMMEDIATE, or None
  work,      \* the database as its transaction sees it
  left,      \* the statements of its edge still to execute
  failures   \* failures so far

transaction == <<holder, work, left>>
vars == <<db, origin, pc, known, holder, work, left, failures>>

Init ==
  /\ db \in Origins
  /\ origin = db
  /\ pc = [p \in Openers |-> "closed"]
  /\ known = [p \in Openers |-> 0]
  /\ holder = None
  /\ work = db
  /\ left = {}
  /\ failures = 0

Goto(p, target) == pc' = [pc EXCEPT ![p] = target]

(* A rollback: without its transaction, a connection sees the committed    *)
(* database.                                                               *)
Rollback ==
  /\ holder' = None
  /\ work' = db
  /\ left' = {}

-----------------------------------------------------------------------------
(* Mistakes the code could have made; the specification uses none of them. *)

(* executescript commits what was open before it runs                      *)
ExecuteScript(p) ==
  /\ pc[p] = "migrate"
  /\ \E o \in left :
       /\ db' = [db EXCEPT !.canonical = @ \cup {o}]
       /\ work' = [work EXCEPT !.canonical = @ \cup {o}]
       /\ left' = left \ {o}
  /\ UNCHANGED <<origin, pc, known, holder, failures>>

(* the source schema is not validated under the lock                       *)
AcquireUnvalidated(p) ==
  /\ pc[p] = "begin" /\ holder = None
  /\ db.version = known[p]
  /\ holder' = p
  /\ work' = db
  /\ left' = Edge(known[p] + 1)
  /\ Goto(p, "migrate")
  /\ UNCHANGED <<db, origin, known, failures>>

(* a failed edge leaves its transaction open                               *)
EdgeFailsOpen(p) ==
  /\ pc[p] \in {"migrate", "commit"}
  /\ failures < MaxFailures
  /\ failures' = failures + 1
  /\ Goto(p, "failed")
  /\ UNCHANGED <<db, origin, known, transaction>>

-----------------------------------------------------------------------------

(* init_schema reads the version.                                          *)
InitSchema(p) ==
  /\ pc[p] = "closed"
  /\ Supported(db.version)
  /\ known' = [known EXCEPT ![p] = db.version]
  /\ Goto(p, "loop")
  /\ UNCHANGED <<db, origin, transaction, failures>>

(* A negative version, or one of a later release.                          *)
RejectVersion(p) ==
  /\ pc[p] = "closed"
  /\ ~Supported(db.version)
  /\ Goto(p, "rejected")
  /\ UNCHANGED <<db, origin, known, transaction, failures>>

(* _migrate_one_step reads the version again before it asks for the lock,  *)
(* and raises if another opener has migrated since.                        *)
Precheck(p) ==
  /\ pc[p] = "loop" /\ known[p] < Latest
  /\ db.version = known[p]
  /\ Goto(p, "begin")
  /\ UNCHANGED <<db, origin, known, transaction, failures>>

PrecheckRaises(p) ==
  /\ pc[p] = "loop" /\ known[p] < Latest
  /\ db.version # known[p]
  /\ Goto(p, "overtaken")
  /\ UNCHANGED <<db, origin, known, transaction, failures>>

(* BEGIN IMMEDIATE, the locked read and the validation of the source.      *)
Acquire(p) ==
  /\ pc[p] = "begin" /\ holder = None
  /\ db.version = known[p]
  /\ ValidFor(db, known[p])
  /\ holder' = p
  /\ work' = db
  /\ left' = Edge(known[p] + 1)
  /\ Goto(p, "migrate")
  /\ UNCHANGED <<db, origin, known, failures>>

(* Another opener won: roll back, return False.                            *)
AcquireLost(p) ==
  /\ pc[p] = "begin" /\ holder = None
  /\ db.version # known[p]
  /\ Goto(p, "reread")
  /\ UNCHANGED <<db, origin, known, transaction, failures>>

AcquireInvalid(p) ==
  /\ pc[p] = "begin" /\ holder = None
  /\ db.version = known[p]
  /\ ~ValidFor(db, known[p])
  /\ Goto(p, "rejected")
  /\ UNCHANGED <<db, origin, known, transaction, failures>>

(* The busy timeout of BEGIN IMMEDIATE expires.                            *)
AcquireBusy(p) ==
  /\ pc[p] = "begin" /\ holder # None
  /\ Goto(p, "failed")
  /\ UNCHANGED <<db, origin, known, transaction, failures>>

(* init_schema reads the version again and goes on from there.             *)
Reread(p) ==
  /\ pc[p] = "reread"
  /\ known' = [known EXCEPT ![p] = db.version]
  /\ Goto(p, "loop")
  /\ UNCHANGED <<db, origin, transaction, failures>>

(* One CREATE ... IF NOT EXISTS of the edge.                               *)
Execute(p) ==
  /\ pc[p] = "migrate"
  /\ \E o \in left :
       /\ work' = IF o \in work.foreign THEN work
                  ELSE [work EXCEPT !.canonical = @ \cup {o}]
       /\ left' = left \ {o}
  /\ UNCHANGED <<db, origin, pc, known, holder, failures>>

(* The target is validated, user_version advances, and it is validated     *)
(* again; over a valid source neither validation can fail.                 *)
AdvanceVersion(p) ==
  /\ pc[p] = "migrate" /\ left = {}
  /\ ValidFor(work, known[p] + 1)
  /\ work' = [work EXCEPT !.version = known[p] + 1]
  /\ Goto(p, "commit")
  /\ UNCHANGED <<db, origin, known, holder, left, failures>>

Commit(p) ==
  /\ pc[p] = "commit"
  /\ db' = work
  /\ holder' = None
  /\ UNCHANGED <<work, left>>
  /\ known' = [known EXCEPT ![p] = @ + 1]
  /\ Goto(p, "loop")
  /\ UNCHANGED <<origin, failures>>

(* Anything the edge raises, a COMMIT that gives up included, is rolled    *)
(* back and raised again.                                                  *)
EdgeFails(p) ==
  /\ pc[p] \in {"migrate", "commit"}
  /\ failures < MaxFailures
  /\ failures' = failures + 1
  /\ Rollback
  /\ Goto(p, "failed")
  /\ UNCHANGED <<db, origin, known>>

(* The database is at the latest version; it is validated as a whole.      *)
Finish(p) ==
  /\ pc[p] = "loop"
  /\ known[p] = Latest
  /\ Goto(p, IF ValidFor(db, known[p]) THEN "done" ELSE "rejected")
  /\ UNCHANGED <<db, origin, known, transaction, failures>>

Returned == {"failed", "overtaken", "rejected", "done"}

(* A caller whose call raised tries again; one whose call returned may, to *)
(* no effect.                                                              *)
Retry(p) ==
  /\ pc[p] \in Returned
  /\ Goto(p, "closed")
  /\ UNCHANGED <<db, origin, known, transaction, failures>>

(* The process dies; SQLite discards its transaction.                      *)
Crash(p) ==
  /\ pc[p] \notin {"closed"} \cup Returned
  /\ failures < MaxFailures
  /\ failures' = failures + 1
  /\ IF holder = p THEN Rollback ELSE UNCHANGED transaction
  /\ Goto(p, "closed")
  /\ UNCHANGED <<db, origin, known>>

-----------------------------------------------------------------------------

Step(p) ==
  \/ InitSchema(p) \/ RejectVersion(p)
  \/ Precheck(p) \/ PrecheckRaises(p)
  \/ Acquire(p) \/ AcquireLost(p) \/ AcquireInvalid(p) \/ AcquireBusy(p) \/ Reread(p)
  \/ Execute(p) \/ AdvanceVersion(p) \/ Commit(p)
  \/ Finish(p)
  \/ Retry(p)

Next == \E p \in Openers : Step(p) \/ EdgeFails(p) \/ Crash(p)

Spec == Init /\ [][Next]_vars

(* No statement hangs, and callers try again.                              *)
FairSpec == Spec /\ \A p \in Openers : WF_vars(Step(p))

-----------------------------------------------------------------------------

PCs == {"closed", "loop", "begin", "reread", "migrate", "commit", "failed",
        "overtaken", "rejected", "done"}

TypeOK ==
  /\ db \in Database /\ origin \in Database /\ work \in Database
  /\ pc \in [Openers -> PCs]
  /\ known \in [Openers -> 0 .. Latest]
  /\ holder \in Openers \cup {None}
  /\ left \subseteq Objects
  /\ failures \in 0 .. MaxFailures

(* Every committed database is complete for the version it declares, holds *)
(* everything it started with, and never loses an object of its owner: no  *)
(* interleaving of openers and no failure exposes half an edge.            *)
EveryRungComplete ==
  Sound(origin) =>
    /\ Sound(db)
    /\ db.version >= origin.version
    /\ origin.canonical \subseteq db.canonical
    /\ db.foreign = origin.foreign

(* A database that is not what its version says is never modified, even    *)
(* where CREATE ... IF NOT EXISTS would have repaired it.                  *)
FailsClosed == ~Sound(origin) => db = origin

(* The work of the transaction is exactly the statements executed so far,  *)
(* over the database it began with.                                        *)
WorkInProgress ==
  \A p \in Openers :
    /\ pc[p] \in {"migrate", "commit"} <=> holder = p
    /\ pc[p] \in {"migrate", "commit"} =>
         /\ Sound(db)
         /\ db.version = known[p] /\ known[p] < Latest
         /\ left \subseteq Edge(known[p] + 1)
         /\ db.canonical \subseteq work.canonical
         /\ work.canonical \ db.canonical \subseteq Edge(known[p] + 1)
         /\ Edge(known[p] + 1) \subseteq work.canonical \cup left
         /\ work.foreign = db.foreign /\ work.intact = db.intact
    /\ pc[p] = "commit" => left = {} /\ work.version = known[p] + 1
    /\ pc[p] = "migrate" => work.version = known[p]

(* What a call knows of the version is true or past, never ahead.          *)
KnownIsPast ==
  \A p \in Openers :
    /\ pc[p] \notin {"closed", "failed", "overtaken", "rejected"} =>
         Supported(db.version) /\ known[p] <= db.version
    /\ pc[p] = "begin" => known[p] < Latest

(* An init_schema that returned means the latest schema, complete: no       *)
(* opener is told that it may use a database another one is still climbing. *)
InitializedIsLatest ==
  \A p \in Openers : pc[p] = "done" => db.version = Latest /\ Sound(db)

MigrationInv ==
  /\ TypeOK
  /\ EveryRungComplete
  /\ FailsClosed
  /\ WorkInProgress
  /\ KnownIsPast
  /\ InitializedIsLatest

(* Openers that race for the edges together climb the ladder.              *)
Ladder == INSTANCE SchemaLadder
ClimbsTheLadder == Ladder!Spec

(* Every opener of a sound database ends up initialized, whoever migrated  *)
(* which edge and whatever failed on the way.                              *)
EveryOpenerInitialized ==
  Sound(origin) => \A p \in Openers : <>(pc[p] = "done")

=============================================================================
