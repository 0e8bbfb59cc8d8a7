------------------------- MODULE MCOptimizerReasoning -------------------------
(***************************************************************************)
(* Values of the constants for checking OptimizerReasoning with TLC.       *)
(***************************************************************************)
EXTENDS OptimizerReasoning, TLC

(* sgd is the cheaper arm; otherwise by group.                             *)
MCRank == [c \in Candidates |-> 2 * c.group + IF c.arm = "sgd" THEN 0 ELSE 1]

MCAll == {Candidates}
MCLimits == {Candidates, {c \in Candidates : c.group = 1}}
MCConclusive == {<<1>>}

Symmetry == Permutations(Processes)
=============================================================================
