--------------------------- MODULE ReasoningLedger ---------------------------
(***************************************************************************)
(* What the optimizer-effect store promises: an append-only history of     *)
(* experiments, no candidate twice, and one chain of beliefs that consumes *)
(* the evidence of each matched pair at most once, after both of its arms. *)
(***************************************************************************)
EXTENDS Integers, Sequences

CONSTANT N   \* comparison groups, in the stable order of their keys

Groups == 1 .. N
Candidates == [group : Groups, arm : {"sgd", "adam"}]

VARIABLES
  experiments,  \* the candidates completed so far, in order
  lineage       \* the groups whose evidence the current belief has consumed

Members(s) == {s[i] : i \in DOMAIN s}

(* valid_unapplied_pairs: a group with both arms completed.                *)
PairCompleted(g, done) == [group |-> g, arm |-> "sgd"] \in done /\ [group |-> g, arm |-> "adam"] \in done

Init == experiments = <<>> /\ lineage = <<>>

Complete(c) ==
  /\ c \notin Members(experiments)
  /\ experiments' = Append(experiments, c)
  /\ UNCHANGED lineage

Apply(g) ==
  /\ PairCompleted(g, Members(experiments))
  /\ g \notin Members(lineage)
  /\ lineage' = Append(lineage, g)
  /\ UNCHANGED experiments

Next == (\E c \in Candidates : Complete(c)) \/ (\E g \in Groups : Apply(g))

Spec == Init /\ [][Next]_<<experiments, lineage>>

=============================================================================
