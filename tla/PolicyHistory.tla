--------------------------- MODULE PolicyHistory ---------------------------
(***************************************************************************)
(* What the runners of one RunSpec promise together: a single history that *)
(* grows by one admissible record at a time, as if one runner had executed *)
(* the policy alone, and answers that are this very history, given only    *)
(* when a budget has stopped it.                                           *)
(***************************************************************************)
EXTENDS Sequences

CONSTANTS
  Runners, None,
  Record,            \* the records of experiments
  Admissible(_, _),  \* a record may follow a history
  StopReason(_),     \* why a history has ended, or Running
  Running

VARIABLES history, answers

Init ==
  /\ history = << >>
  /\ answers = [p \in Runners |-> None]

Extend ==
  /\ StopReason(history) = Running
  /\ \E rec \in Record :
       /\ Admissible(history, rec)
       /\ history' = Append(history, rec)
  /\ UNCHANGED answers

Answer(p) ==
  /\ StopReason(history) # Running
  /\ answers' = [answers EXCEPT ![p] = [steps |-> history, reason |-> StopReason(history)]]
  /\ UNCHANGED history

Next == Extend \/ \E p \in Runners : Answer(p)

Spec == Init /\ [][Next]_<<history, answers>>

=============================================================================
