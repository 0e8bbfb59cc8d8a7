--------------------------- MODULE PublicationLedger ---------------------------
(***************************************************************************)
(* What concurrent calls of export_run_bundle promise about one            *)
(* destination.  At most one bundle stands there.  A call that publishes   *)
(* finds the name free; it may withdraw its own bundle, and only until it  *)
(* has answered.  Once it has answered "published" its bundle stands until *)
(* somebody else takes it away; once it has answered "failed" its bundle   *)
(* does not stand there.  A call that is killed, or whose cleanup meets an *)
(* error, is abandoned and promises nothing more.  A call that withdraws   *)
(* looks before it removes, and may remove what was put there in between;  *)
(* and what it publishes may have been replaced under its hands.           *)
(***************************************************************************)
EXTENDS Naturals

CONSTANTS
    Exporters,
    None

VARIABLES
    standing,    \* whose bundle stands at the destination
    outcome,     \* how each call has ended
    meddled      \* how often the owner of the file system has meddled

vars == <<standing, outcome, meddled>>

Init ==
    /\ standing = None
    /\ outcome = [p \in Exporters |-> None]
    /\ meddled = 0

Publish(p) ==
    /\ outcome[p] = None /\ standing = None
    /\ \/ standing' = p
       \/ meddled > 0 /\ standing' = "other"
    /\ UNCHANGED <<outcome, meddled>>

\* Once somebody has meddled, what it removes may be anybody's.
Withdraw(p) ==
    /\ outcome[p] = None
    /\ \/ standing = p /\ standing' = None
       \/ meddled > 0 /\ standing # None /\ standing' \in {None, "other"}
    /\ UNCHANGED <<outcome, meddled>>

Answer(p) ==
    /\ outcome[p] = None
    /\ \/ outcome' = [outcome EXCEPT ![p] = "published"]
       \/ outcome' = [outcome EXCEPT ![p] = "abandoned"]
       \/ standing # p /\ outcome' = [outcome EXCEPT ![p] = "failed"]
    /\ UNCHANGED <<standing, meddled>>

\* The owner of the file system takes the name away or puts something there.
Meddle ==
    /\ meddled' = meddled + 1
    /\ standing' \in {None, "other", standing}
    /\ UNCHANGED outcome

Next == Meddle \/ \E p \in Exporters : Publish(p) \/ Withdraw(p) \/ Answer(p)

Spec == Init /\ [][Next]_vars
=============================================================================
