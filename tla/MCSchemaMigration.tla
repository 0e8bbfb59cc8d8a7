-------------------------- MODULE MCSchemaMigration --------------------------
(***************************************************************************)
(* Values of the constants for checking SchemaMigration with TLC: the six  *)
(* edges, with one or two objects each.                                    *)
(***************************************************************************)
EXTENDS SchemaMigration

CONSTANTS o1, o2

MCObjects == {"experiments", "hypotheses", "evidence", "decision_traces",
              "lookahead_plan_traces", "belief_models", "ledger_trigger",
              "workload_experiments"}

MCNames == MCObjects \cup {"notes"}

MCIntroduced ==
  [o \in MCObjects |->
     CASE o = "experiments" -> 1
       [] o \in {"hypotheses", "evidence"} -> 2
       [] o = "decision_traces" -> 3
       [] o = "lookahead_plan_traces" -> 4
       [] o \in {"belief_models", "ledger_trigger"} -> 5
       [] o = "workload_experiments" -> 6]

At(version, canonical, foreign) ==
  [version |-> version, canonical |-> canonical, foreign |-> foreign, intact |-> TRUE]

(* A new file, the unversioned legacy table, and a file of each version    *)
(* with an object of its owner.                                            *)
SoundOrigins ==
  {At(0, {}, {}), At(0, {"experiments"}, {})}
    \cup {At(v, {o \in MCObjects : MCIntroduced[o] <= v}, {"notes"}) : v \in 1 .. 6}

(* Versions out of range, an unversioned file that holds something, objects *)
(* of a later version, missing ones, noncanonical ones, and corruption.    *)
UnsoundOrigins ==
  {At(-1, {}, {}), At(7, MCObjects, {}),
   At(0, {}, {"notes"}), At(0, {}, {"experiments"}), At(0, {"experiments", "evidence"}, {}),
   At(2, {"experiments", "hypotheses"}, {}),
   At(2, {"experiments", "hypotheses", "evidence", "decision_traces"}, {}),
   At(5, MCObjects, {}),
   At(5, MCObjects \ {"workload_experiments"}, {"workload_experiments"}),
   At(6, MCObjects \ {"ledger_trigger"}, {"ledger_trigger"}),
   [At(3, {o \in MCObjects : MCIntroduced[o] <= 3}, {}) EXCEPT !.intact = FALSE]}

MCOrigins == SoundOrigins \cup UnsoundOrigins

=============================================================================
