-------------------------- MODULE BundleExport_proofs --------------------------
(***************************************************************************)
(* Whatever exporters, verifiers and faults there are: what holds of one   *)
(* destination that they share.                                            *)
(***************************************************************************)
EXTENDS BundleExport, SequenceTheorems, TLAPS

(* The stages of a call, by what it is about.                              *)
Preparing == {"exists", "mkdtemp"}
Making == {"create_bundle", "fill_bundle", "create_sidecar", "fill_sidecar",
           "verify_staged", "publish"}
Looking == {"open", "root", "inventory", "guards", "read_bundle", "read_sidecar"}
Finishing == {"inventory_again", "bundle_again", "sidecar_again", "members_again",
              "root_again", "ancestry_again", "guards_again", "done"}
Removing == {"discard", "look", "check_bundle", "unlink_bundle", "check_sidecar",
             "unlink_sidecar", "remaining", "check_root", "rmdir", "fail"}
Working == Preparing \cup Making \cup {"confirm"} \cup Looking \cup Finishing
Stages == Working \cup Removing

Stage(p) == IF todo[p] = <<>> THEN "over" ELSE Head(todo[p])

(* The stage that follows when a step is done.                             *)
After(p, s) ==
  CASE s = "exists" -> "mkdtemp"
    [] s = "mkdtemp" -> "create_bundle"
    [] s = "create_bundle" -> "fill_bundle"
    [] s = "fill_bundle" -> "create_sidecar"
    [] s = "create_sidecar" -> "fill_sidecar"
    [] s = "fill_sidecar" -> "verify_staged"
    [] s = "verify_staged" -> "publish"
    [] s = "publish" -> "confirm"
    [] s = "confirm" -> "open"
    [] s = "open" -> "root"
    [] s = "root" -> "inventory"
    [] s = "inventory" -> IF Version[p] = "v1" THEN "guards" ELSE "read_bundle"
    [] s = "guards" -> "read_bundle"
    [] s = "read_bundle" -> "read_sidecar"
    [] s = "read_sidecar" -> "inventory_again"
    [] s = "inventory_again" -> "bundle_again"
    [] s = "bundle_again" -> "sidecar_again"
    [] s = "sidecar_again" -> "members_again"
    [] s = "members_again" -> "root_again"
    [] s = "root_again" -> "ancestry_again"
    [] s = "ancestry_again" -> IF Version[p] = "v1" THEN "guards_again" ELSE "done"
    [] s = "guards_again" -> "done"
    [] s = "discard" -> "look"
    [] s = "look" -> "check_bundle"
    [] s = "check_bundle" -> "unlink_bundle"
    [] s = "unlink_bundle" -> "check_sidecar"
    [] s = "check_sidecar" -> "unlink_sidecar"
    [] s = "unlink_sidecar" -> "remaining"
    [] s = "remaining" -> "check_root"
    [] s = "check_root" -> "rmdir"
    [] s = "rmdir" -> "fail"
    [] OTHER -> "over"

(* What a call has left is the end of its program, or of its cleanup.      *)
Removal == <<"discard">> \o RemoveDestination \o <<"fail">>

IsSuffix(t, P) ==
  /\ t \in Seq(Stages) /\ Len(t) <= Len(P)
  /\ \A i \in 1 .. Len(t) : t[i] = P[Len(P) - Len(t) + i]

Controlled(p) ==
  IsSuffix(todo[p], Program(p)) \/ (p \in Exporters /\ IsSuffix(todo[p], Removal))

----------------------------------------------------------------------------
(* The programs.                                                           *)

IsLaidOut(p, P, S) ==
  /\ P \in Seq(S) /\ Len(P) \in Nat \ {0} /\ After(p, P[Len(P)]) = "over"
  /\ \A i \in 1 .. Len(P) - 1 : P[i + 1] = After(p, P[i])

LEMMA LayoutExportV1 ==
  ASSUME NEW p,
         Version[p] = "v1"
  PROVE  IsLaidOut(p, ExportV1, Working)
<1> DEFINE P == ExportV1
<1> SUFFICES IsLaidOut(p, P, Working) OBVIOUS
<1>1. P \in Seq(Working) /\ Len(P) = 23
  BY DEF ExportV1, VerifyV1, Write, Publication, FirstPass, GuardMembers, Reads, FinalPass, Working,
         Preparing, Making, Looking, Finishing, Removing
<1>2. /\ P[1] = "exists" /\ P[2] = "mkdtemp" /\ P[3] = "create_bundle"
      /\ P[4] = "fill_bundle" /\ P[5] = "create_sidecar" /\ P[6] = "fill_sidecar"
      /\ P[7] = "verify_staged" /\ P[8] = "publish" /\ P[9] = "confirm"
      /\ P[10] = "open" /\ P[11] = "root" /\ P[12] = "inventory" /\ P[13] = "guards"
      /\ P[14] = "read_bundle" /\ P[15] = "read_sidecar" /\ P[16] = "inventory_again"
      /\ P[17] = "bundle_again" /\ P[18] = "sidecar_again" /\ P[19] = "members_again"
      /\ P[20] = "root_again" /\ P[21] = "ancestry_again" /\ P[22] = "guards_again"
      /\ P[23] = "done"
  BY DEF ExportV1, VerifyV1, Write, Publication, FirstPass, GuardMembers, Reads, FinalPass
<1> HIDE DEF P
<1>3. ASSUME NEW i \in 1 .. 22 PROVE P[i + 1] = After(p, P[i])
  <2>1. i = 1 \/ i = 2 \/ i = 3 \/ i = 4 \/ i = 5 \/ i = 6 \/ i = 7 \/ i = 8 \/ i = 9
        \/ i = 10 \/ i = 11 \/ i = 12 \/ i = 13 \/ i = 14 \/ i = 15 \/ i = 16
        \/ i = 17 \/ i = 18 \/ i = 19 \/ i = 20 \/ i = 21 \/ i = 22
    OBVIOUS
  <2>2. QED BY <1>2, <2>1 DEF After
<1>4. After(p, P[23]) = "over" BY <1>2 DEF After
<1>5. QED BY <1>1, <1>3, <1>4 DEF IsLaidOut

LEMMA LayoutExportV2 ==
  ASSUME NEW p,
         Version[p] # "v1"
  PROVE  IsLaidOut(p, ExportV2, Working)
<1> DEFINE P == ExportV2
<1> SUFFICES IsLaidOut(p, P, Working) OBVIOUS
<1>1. P \in Seq(Working) /\ Len(P) = 21
  BY DEF ExportV2, VerifyV2, Write, Publication, FirstPass, GuardMembers, Reads, FinalPass, Working,
         Preparing, Making, Looking, Finishing, Removing
<1>2. /\ P[1] = "exists" /\ P[2] = "mkdtemp" /\ P[3] = "create_bundle"
      /\ P[4] = "fill_bundle" /\ P[5] = "create_sidecar" /\ P[6] = "fill_sidecar"
      /\ P[7] = "verify_staged" /\ P[8] = "publish" /\ P[9] = "confirm"
      /\ P[10] = "open" /\ P[11] = "root" /\ P[12] = "inventory"
      /\ P[13] = "read_bundle" /\ P[14] = "read_sidecar" /\ P[15] = "inventory_again"
      /\ P[16] = "bundle_again" /\ P[17] = "sidecar_again" /\ P[18] = "members_again"
      /\ P[19] = "root_again" /\ P[20] = "ancestry_again" /\ P[21] = "done"
  BY DEF ExportV2, VerifyV2, Write, Publication, FirstPass, GuardMembers, Reads, FinalPass
<1> HIDE DEF P
<1>3. ASSUME NEW i \in 1 .. 20 PROVE P[i + 1] = After(p, P[i])
  <2>1. i = 1 \/ i = 2 \/ i = 3 \/ i = 4 \/ i = 5 \/ i = 6 \/ i = 7 \/ i = 8 \/ i = 9
        \/ i = 10 \/ i = 11 \/ i = 12 \/ i = 13 \/ i = 14 \/ i = 15 \/ i = 16
        \/ i = 17 \/ i = 18 \/ i = 19 \/ i = 20
    OBVIOUS
  <2>2. QED BY <1>2, <2>1 DEF After
<1>4. After(p, P[21]) = "over" BY <1>2 DEF After
<1>5. QED BY <1>1, <1>3, <1>4 DEF IsLaidOut

LEMMA LayoutExportV3 ==
  ASSUME NEW p,
         Version[p] # "v1"
  PROVE  IsLaidOut(p, ExportV3, Working)
<1> DEFINE P == ExportV3
<1> SUFFICES IsLaidOut(p, P, Working) OBVIOUS
<1>1. P \in Seq(Working) /\ Len(P) = 21
  BY DEF ExportV3, VerifyV3, Write, Publication, FirstPass, GuardMembers, Reads, FinalPass, Working,
         Preparing, Making, Looking, Finishing, Removing
<1>2. /\ P[1] = "exists" /\ P[2] = "mkdtemp" /\ P[3] = "create_bundle"
      /\ P[4] = "fill_bundle" /\ P[5] = "create_sidecar" /\ P[6] = "fill_sidecar"
      /\ P[7] = "verify_staged" /\ P[8] = "publish" /\ P[9] = "confirm"
      /\ P[10] = "open" /\ P[11] = "root" /\ P[12] = "inventory"
      /\ P[13] = "read_bundle" /\ P[14] = "read_sidecar" /\ P[15] = "inventory_again"
      /\ P[16] = "bundle_again" /\ P[17] = "sidecar_again" /\ P[18] = "members_again"
      /\ P[19] = "root_again" /\ P[20] = "ancestry_again" /\ P[21] = "done"
  BY DEF ExportV3, VerifyV3, Write, Publication, FirstPass, GuardMembers, Reads, FinalPass
<1> HIDE DEF P
<1>3. ASSUME NEW i \in 1 .. 20 PROVE P[i + 1] = After(p, P[i])
  <2>1. i = 1 \/ i = 2 \/ i = 3 \/ i = 4 \/ i = 5 \/ i = 6 \/ i = 7 \/ i = 8 \/ i = 9
        \/ i = 10 \/ i = 11 \/ i = 12 \/ i = 13 \/ i = 14 \/ i = 15 \/ i = 16
        \/ i = 17 \/ i = 18 \/ i = 19 \/ i = 20
    OBVIOUS
  <2>2. QED BY <1>2, <2>1 DEF After
<1>4. After(p, P[21]) = "over" BY <1>2 DEF After
<1>5. QED BY <1>1, <1>3, <1>4 DEF IsLaidOut

LEMMA LayoutVerifyV1 ==
  ASSUME NEW p,
         Version[p] = "v1"
  PROVE  IsLaidOut(p, (VerifyV1 \o <<"done">>), (Looking \cup Finishing))
<1> DEFINE P == (VerifyV1 \o <<"done">>)
<1> SUFFICES IsLaidOut(p, P, (Looking \cup Finishing)) OBVIOUS
<1>1. P \in Seq((Looking \cup Finishing)) /\ Len(P) = 14
  BY DEF VerifyV1, Write, Publication, FirstPass, GuardMembers, Reads, FinalPass, Working,
         Preparing, Making, Looking, Finishing, Removing
<1>2. /\ P[1] = "open" /\ P[2] = "root" /\ P[3] = "inventory" /\ P[4] = "guards"
      /\ P[5] = "read_bundle" /\ P[6] = "read_sidecar" /\ P[7] = "inventory_again"
      /\ P[8] = "bundle_again" /\ P[9] = "sidecar_again" /\ P[10] = "members_again"
      /\ P[11] = "root_again" /\ P[12] = "ancestry_again" /\ P[13] = "guards_again"
      /\ P[14] = "done"
  BY DEF VerifyV1, Write, Publication, FirstPass, GuardMembers, Reads, FinalPass
<1> HIDE DEF P
<1>3. ASSUME NEW i \in 1 .. 13 PROVE P[i + 1] = After(p, P[i])
  <2>1. i = 1 \/ i = 2 \/ i = 3 \/ i = 4 \/ i = 5 \/ i = 6 \/ i = 7 \/ i = 8 \/ i = 9
        \/ i = 10 \/ i = 11 \/ i = 12 \/ i = 13
    OBVIOUS
  <2>2. QED BY <1>2, <2>1 DEF After
<1>4. After(p, P[14]) = "over" BY <1>2 DEF After
<1>5. QED BY <1>1, <1>3, <1>4 DEF IsLaidOut

LEMMA LayoutVerifyV2 ==
  ASSUME NEW p,
         Version[p] # "v1"
  PROVE  IsLaidOut(p, (VerifyV2 \o <<"done">>), (Looking \cup Finishing))
<1> DEFINE P == (VerifyV2 \o <<"done">>)
<1> SUFFICES IsLaidOut(p, P, (Looking \cup Finishing)) OBVIOUS
<1>1. P \in Seq((Looking \cup Finishing)) /\ Len(P) = 12
  BY DEF VerifyV2, Write, Publication, FirstPass, GuardMembers, Reads, FinalPass, Working,
         Preparing, Making, Looking, Finishing, Removing
<1>2. /\ P[1] = "open" /\ P[2] = "root" /\ P[3] = "inventory" /\ P[4] = "read_bundle"
      /\ P[5] = "read_sidecar" /\ P[6] = "inventory_again" /\ P[7] = "bundle_again"
      /\ P[8] = "sidecar_again" /\ P[9] = "members_again" /\ P[10] = "root_again"
      /\ P[11] = "ancestry_again" /\ P[12] = "done"
  BY DEF VerifyV2, Write, Publication, FirstPass, GuardMembers, Reads, FinalPass
<1> HIDE DEF P
<1>3. ASSUME NEW i \in 1 .. 11 PROVE P[i + 1] = After(p, P[i])
  <2>1. i = 1 \/ i = 2 \/ i = 3 \/ i = 4 \/ i = 5 \/ i = 6 \/ i = 7 \/ i = 8 \/ i = 9
        \/ i = 10 \/ i = 11
    OBVIOUS
  <2>2. QED BY <1>2, <2>1 DEF After
<1>4. After(p, P[12]) = "over" BY <1>2 DEF After
<1>5. QED BY <1>1, <1>3, <1>4 DEF IsLaidOut

LEMMA LayoutVerifyV3 ==
  ASSUME NEW p,
         Version[p] # "v1"
  PROVE  IsLaidOut(p, (VerifyV3 \o <<"done">>), (Looking \cup Finishing))
<1> DEFINE P == (VerifyV3 \o <<"done">>)
<1> SUFFICES IsLaidOut(p, P, (Looking \cup Finishing)) OBVIOUS
<1>1. P \in Seq((Looking \cup Finishing)) /\ Len(P) = 12
  BY DEF VerifyV3, Write, Publication, FirstPass, GuardMembers, Reads, FinalPass, Working,
         Preparing, Making, Looking, Finishing, Removing
<1>2. /\ P[1] = "open" /\ P[2] = "root" /\ P[3] = "inventory" /\ P[4] = "read_bundle"
      /\ P[5] = "read_sidecar" /\ P[6] = "inventory_again" /\ P[7] = "bundle_again"
      /\ P[8] = "sidecar_again" /\ P[9] = "members_again" /\ P[10] = "root_again"
      /\ P[11] = "ancestry_again" /\ P[12] = "done"
  BY DEF VerifyV3, Write, Publication, FirstPass, GuardMembers, Reads, FinalPass
<1> HIDE DEF P
<1>3. ASSUME NEW i \in 1 .. 11 PROVE P[i + 1] = After(p, P[i])
  <2>1. i = 1 \/ i = 2 \/ i = 3 \/ i = 4 \/ i = 5 \/ i = 6 \/ i = 7 \/ i = 8 \/ i = 9
        \/ i = 10 \/ i = 11
    OBVIOUS
  <2>2. QED BY <1>2, <2>1 DEF After
<1>4. After(p, P[12]) = "over" BY <1>2 DEF After
<1>5. QED BY <1>1, <1>3, <1>4 DEF IsLaidOut

LEMMA LayoutRemoval ==
  ASSUME NEW p
  PROVE  IsLaidOut(p, Removal, Removing)
<1> DEFINE P == Removal
<1> SUFFICES IsLaidOut(p, P, Removing) OBVIOUS
<1>1. P \in Seq(Removing) /\ Len(P) = 10
  BY DEF Removal, RemoveDestination, Working,
         Preparing, Making, Looking, Finishing, Removing
<1>2. /\ P[1] = "discard" /\ P[2] = "look" /\ P[3] = "check_bundle"
      /\ P[4] = "unlink_bundle" /\ P[5] = "check_sidecar" /\ P[6] = "unlink_sidecar"
      /\ P[7] = "remaining" /\ P[8] = "check_root" /\ P[9] = "rmdir" /\ P[10] = "fail"
  BY DEF Removal, RemoveDestination
<1> HIDE DEF P
<1>3. ASSUME NEW i \in 1 .. 9 PROVE P[i + 1] = After(p, P[i])
  <2>1. i = 1 \/ i = 2 \/ i = 3 \/ i = 4 \/ i = 5 \/ i = 6 \/ i = 7 \/ i = 8 \/ i = 9
    OBVIOUS
  <2>2. QED BY <1>2, <2>1 DEF After
<1>4. After(p, P[10]) = "over" BY <1>2 DEF After
<1>5. QED BY <1>1, <1>3, <1>4 DEF IsLaidOut

LEMMA Layout ==
  ASSUME NEW p \in Processes
  PROVE  /\ p \in Exporters => IsLaidOut(p, Program(p), Working)
         /\ p \in Verifiers => IsLaidOut(p, Program(p), Looking \cup Finishing)
         /\ IsLaidOut(p, Removal, Removing)
BY ExportAssumption, LayoutExportV1, LayoutExportV2, LayoutExportV3, LayoutVerifyV1,
   LayoutVerifyV2, LayoutVerifyV3, LayoutRemoval DEF Program, Processes
----------------------------------------------------------------------------
(* Control.                                                                *)

LEMMA TailOf ==
  ASSUME NEW S, NEW t \in Seq(S), t # <<>>
  PROVE  /\ Len(t) \in Nat \ {0} /\ Tail(t) \in Seq(S) /\ Len(Tail(t)) = Len(t) - 1
         /\ Head(t) = t[1]
         /\ \A i \in 1 .. Len(Tail(t)) : Tail(t)[i] = t[i + 1]
         /\ Tail(t) = <<>> <=> Len(t) = 1
<1>1. Len(t) \in Nat \ {0} BY EmptySeq
<1>2. Tail(t) \in Seq(S) /\ Len(Tail(t)) = Len(t) - 1 BY HeadTailProperties
<1>3. \A i \in 1 .. Len(Tail(t)) : Tail(t)[i] = t[i + 1] BY HeadTailProperties
<1>4. Tail(t) = <<>> => Len(Tail(t)) = 0 BY EmptySeq
<1>5. Len(Tail(t)) = 0 => Tail(t) = <<>> BY <1>2, EmptySeq
<1>6. QED BY <1>1, <1>2, <1>3, <1>4, <1>5

LEMMA EndOf ==
  ASSUME NEW S, NEW t \in Seq(S), NEW n \in Nat, n <= Len(t)
  PROVE  /\ SubSeq(t, n + 1, Len(t)) \in Seq(S) /\ Len(SubSeq(t, n + 1, Len(t))) = Len(t) - n
         /\ \A i \in 1 .. Len(t) - n : SubSeq(t, n + 1, Len(t))[i] = t[i + n]
<1>1. Len(t) \in Nat OBVIOUS
<1>2. \A i \in n + 1 .. Len(t) : t[i] \in S OBVIOUS
<1>3. QED BY <1>1, <1>2, SubSeqProperties

(* The tail of what is left of a program is left after its next stage.     *)
LEMMA SuffixAdvances ==
  ASSUME NEW p, NEW P, NEW S, S \subseteq Stages, IsLaidOut(p, P, S), NEW t, IsSuffix(t, P), t # <<>>
  PROVE  /\ IsSuffix(Tail(t), P) /\ Head(t) \in S
         /\ (IF Tail(t) = <<>> THEN "over" ELSE Head(Tail(t))) = After(p, Head(t))
<1>1. t \in Seq(Stages) /\ P \in Seq(S) /\ Len(t) <= Len(P) /\ Len(P) \in Nat \ {0}
  BY DEF IsSuffix, IsLaidOut
<1>2. /\ Len(t) \in Nat \ {0} /\ Tail(t) \in Seq(Stages) /\ Len(Tail(t)) = Len(t) - 1
      /\ Head(t) = t[1]
      /\ \A i \in 1 .. Len(Tail(t)) : Tail(t)[i] = t[i + 1]
      /\ Tail(t) = <<>> <=> Len(t) = 1
  BY <1>1, TailOf
<1>3. IsSuffix(Tail(t), P) BY <1>1, <1>2 DEF IsSuffix
<1>4. Head(t) = P[Len(P) - Len(t) + 1] BY <1>1, <1>2 DEF IsSuffix
<1>5. Head(t) \in S
  <2>1. Len(P) - Len(t) + 1 \in 1 .. Len(P) BY <1>1, <1>2
  <2>2. QED BY <1>1, <1>4, <2>1, ElementOfSeq
<1>6. Tail(t) = <<>> => After(p, Head(t)) = "over"
  BY <1>1, <1>2, <1>4 DEF IsLaidOut
<1>7. ASSUME Tail(t) # <<>> PROVE Head(Tail(t)) = After(p, Head(t))
  <2>1. Len(t) > 1 BY <1>2, <1>7
  <2>2. Head(Tail(t)) = t[2] BY <1>2, <1>7, <2>1, TailOf
  <2>3. t[2] = P[Len(P) - Len(t) + 2] BY <1>1, <1>2, <2>1 DEF IsSuffix
  <2>4. Len(P) - Len(t) + 1 \in 1 .. Len(P) - 1 BY <1>1, <1>2, <2>1
  <2>5. P[Len(P) - Len(t) + 1 + 1] = After(p, P[Len(P) - Len(t) + 1]) BY <2>4 DEF IsLaidOut
  <2>6. Len(P) - Len(t) + 1 + 1 = Len(P) - Len(t) + 2 BY <1>1, <1>2
  <2>7. QED BY <1>4, <2>2, <2>3, <2>5, <2>6
<1>8. QED BY <1>3, <1>5, <1>6, <1>7

LEMMA StagesOf ==
  ASSUME NEW p \in Processes, Controlled(p), todo[p] # <<>>
  PROVE  /\ Stage(p) \in Stages
         /\ p \in Verifiers => Stage(p) \in Looking \cup Finishing
         /\ IF Stage(p) \in Removing
            THEN p \in Exporters /\ IsSuffix(todo[p], Removal)
            ELSE IsSuffix(todo[p], Program(p))
<1>1. Working \cap Removing = {} /\ Looking \cup Finishing \subseteq Working
      /\ Working \subseteq Stages /\ Removing \subseteq Stages
  BY DEF Stages, Working, Preparing, Making, Looking, Finishing, Removing
<1>2. CASE IsSuffix(todo[p], Program(p))
  <2>1. Stage(p) \in Working /\ (p \in Verifiers => Stage(p) \in Looking \cup Finishing)
    BY <1>1, <1>2, Layout, SuffixAdvances DEF Stage, Processes
  <2>2. QED BY <1>1, <1>2, <2>1
<1>3. CASE p \in Exporters /\ IsSuffix(todo[p], Removal)
  <2>1. Stage(p) \in Removing BY <1>1, <1>3, Layout, SuffixAdvances DEF Stage
  <2>2. QED BY <1>1, <1>3, <2>1, ExportAssumption
<1>4. QED BY <1>2, <1>3 DEF Controlled

LEMMA Advancing ==
  ASSUME NEW p \in Processes, Controlled(p), todo[p] # <<>>, todo'[p] = Tail(todo[p])
  PROVE  Controlled(p)' /\ Stage(p)' = After(p, Stage(p))
<1>1. Looking \cup Finishing \subseteq Stages /\ Working \subseteq Stages /\ Removing \subseteq Stages
  BY DEF Stages, Working
<1>2. CASE IsSuffix(todo[p], Program(p))
  BY <1>1, <1>2, Layout, SuffixAdvances DEF Controlled, Stage, Processes
<1>3. CASE p \in Exporters /\ IsSuffix(todo[p], Removal)
  <2>1. IsLaidOut(p, Removal, Removing) BY Layout
  <2>2. /\ IsSuffix(Tail(todo[p]), Removal)
        /\ (IF Tail(todo[p]) = <<>> THEN "over" ELSE Head(Tail(todo[p]))) = After(p, Head(todo[p]))
    BY <1>1, <1>3, <2>1, SuffixAdvances
  <2>3. QED BY <1>3, <2>2 DEF Controlled, Stage
<1>4. QED BY <1>2, <1>3 DEF Controlled

LEMMA Raising ==
  ASSUME NEW p \in Exporters, todo'[p] = Cleanup(p)
  PROVE  /\ Controlled(p)'
         /\ Stage(p)' = IF root[p] = None THEN "fail" ELSE IF staged[p] THEN "discard" ELSE "look"
<1>1. /\ Removal \in Seq(Removing) /\ Len(Removal) = 10
      /\ \A i \in 1 .. 8 : Removal[i + 1] = RemoveDestination[i]
      /\ Removal[10] = "fail"
  BY DEF Removal, RemoveDestination, Removing
<1>2. CASE root[p] = None
  <2>1. Cleanup(p) = <<>> \o <<"fail">> BY <1>2 DEF Cleanup
  <2> DEFINE t == <<>> \o <<"fail">>
  <2>2. t \in Seq(Stages) /\ Len(t) = 1 /\ t[1] = "fail" /\ t # <<>> BY DEF Stages, Removing
  <2> HIDE DEF t
  <2>3. IsSuffix(t, Removal) BY <1>1, <2>2 DEF IsSuffix
  <2>4. Head(t) = "fail" BY <2>2, TailOf
  <2>5. QED BY <1>2, <2>1, <2>2, <2>3, <2>4 DEF t, Controlled, Stage
<1>3. CASE root[p] # None /\ staged[p]
  <2>1. Cleanup(p) = Removal BY <1>3 DEF Cleanup, Removal
  <2>2. Removal \in Seq(Stages) /\ Removal # <<>> /\ Removal[1] = "discard"
    BY DEF Removal, RemoveDestination, Stages, Removing
  <2>3. IsSuffix(Removal, Removal) BY <1>1, <2>2 DEF IsSuffix
  <2>4. Head(Removal) = "discard" BY <2>2, TailOf
  <2>5. QED BY <1>3, <2>1, <2>2, <2>3, <2>4 DEF Controlled, Stage
<1>4. CASE root[p] # None /\ ~staged[p]
  <2>1. Cleanup(p) = <<>> \o RemoveDestination \o <<"fail">> BY <1>4 DEF Cleanup
  <2> DEFINE t == <<>> \o RemoveDestination \o <<"fail">>
  <2>2. t \in Seq(Stages) /\ Len(t) = 9 /\ t[1] = "look" /\ t[9] = "fail" /\ t # <<>>
    BY DEF RemoveDestination, Stages, Removing
  <2>3. \A i \in 1 .. 8 : t[i] = RemoveDestination[i]
    BY DEF RemoveDestination
  <2> HIDE DEF t
  <2>4. IsSuffix(t, Removal) BY <1>1, <2>2, <2>3 DEF IsSuffix
  <2>5. Head(t) = "look" BY <2>2, TailOf
  <2>6. QED BY <1>4, <2>1, <2>2, <2>4, <2>5 DEF t, Controlled, Stage
<1>5. QED BY <1>2, <1>3, <1>4

(* A step of the cleanup whose condition fails.                            *)
Skips(s, n) ==
  \/ s = "look" /\ n = 8
  \/ s \in {"check_bundle", "check_sidecar", "check_root"} /\ n = 2
  \/ s = "remaining" /\ n = 3
Reached(s) == IF s = "check_bundle" THEN "check_sidecar"
              ELSE IF s = "check_sidecar" THEN "remaining" ELSE "fail"

LEMMA RemovalLayout ==
  /\ Len(Removal) = 10
  /\ Removal[1] = "discard" /\ Removal[2] = "look" /\ Removal[3] = "check_bundle"
  /\ Removal[4] = "unlink_bundle" /\ Removal[5] = "check_sidecar"
  /\ Removal[6] = "unlink_sidecar" /\ Removal[7] = "remaining"
  /\ Removal[8] = "check_root" /\ Removal[9] = "rmdir" /\ Removal[10] = "fail"
BY DEF Removal, RemoveDestination

LEMMA PlaceSkips ==
  ASSUME NEW k \in Nat \ {0}, k <= 10, NEW n \in Nat, Skips(Removal[10 - k + 1], n)
  PROVE  /\ n <= k - 1 /\ k - n \in Nat \ {0} /\ k - n <= 10
         /\ Removal[10 - (k - n) + 1] = Reached(Removal[10 - k + 1])
<1>1. k = 1 \/ k = 2 \/ k = 3 \/ k = 4 \/ k = 5 \/ k = 6 \/ k = 7 \/ k = 8 \/ k = 9 \/ k = 10
  OBVIOUS
<1>2. QED BY <1>1, RemovalLayout DEF Skips, Reached

LEMMA SuffixSkips ==
  ASSUME NEW t, IsSuffix(t, Removal), t # <<>>, NEW n \in Nat, Skips(Head(t), n)
  PROVE  LET u == SubSeq(t, n + 1, Len(t))
         IN  IsSuffix(u, Removal) /\ u # <<>> /\ Head(u) = Reached(Head(t))
<1> DEFINE u == SubSeq(t, n + 1, Len(t))
<1>1. t \in Seq(Stages) /\ Len(t) <= 10 BY RemovalLayout DEF IsSuffix
<1>2. Len(t) \in Nat \ {0} /\ Head(t) = t[1] BY <1>1, TailOf
<1>3. t[1] = Removal[10 - Len(t) + 1]
  <2>1. 1 \in 1 .. Len(t) BY <1>2
  <2>2. QED BY RemovalLayout, <2>1 DEF IsSuffix
<1>4. /\ n <= Len(t) - 1 /\ Len(t) - n \in Nat \ {0} /\ Len(t) - n <= 10
      /\ Removal[10 - (Len(t) - n) + 1] = Reached(Head(t))
  BY <1>1, <1>2, <1>3, PlaceSkips
<1>5. /\ u \in Seq(Stages) /\ Len(u) = Len(t) - n
      /\ \A i \in 1 .. Len(t) - n : u[i] = t[i + n]
  <2>1. n <= Len(t) BY <1>2, <1>4
  <2>2. QED BY <1>1, <2>1, EndOf
<1> HIDE DEF u
<1>6. u # <<>> /\ Head(u) = u[1]
  <2>1. u # <<>> BY <1>4, <1>5, EmptySeq
  <2>2. QED BY <1>5, <2>1, TailOf
<1>7. \A i \in 1 .. Len(u) : u[i] = Removal[10 - Len(u) + i]
  <2> SUFFICES ASSUME NEW i \in 1 .. Len(u) PROVE u[i] = Removal[10 - Len(u) + i] OBVIOUS
  <2>1. i \in 1 .. Len(t) - n /\ i + n \in 1 .. Len(t) BY <1>2, <1>4, <1>5
  <2>2. u[i] = t[i + n] BY <1>5, <2>1
  <2>3. t[i + n] = Removal[10 - Len(t) + (i + n)] BY RemovalLayout, <2>1 DEF IsSuffix
  <2>4. 10 - Len(t) + (i + n) = 10 - Len(u) + i BY <1>2, <1>4, <1>5
  <2>5. QED BY <2>2, <2>3, <2>4
<1>8. Len(u) <= Len(Removal) BY <1>4, <1>5, RemovalLayout
<1>9. IsSuffix(u, Removal) BY <1>5, <1>7, <1>8, RemovalLayout DEF IsSuffix
<1>10. u[1] = Removal[10 - Len(u) + 1]
  <2>1. 1 \in 1 .. Len(u) BY <1>4, <1>5
  <2>2. QED BY <1>7, <2>1
<1>11. QED BY <1>4, <1>5, <1>6, <1>9, <1>10 DEF u

LEMMA Skipping ==
  ASSUME NEW p \in Processes, Controlled(p), todo[p] # <<>>, NEW n \in Nat,
         Skips(Stage(p), n), todo'[p] = SubSeq(todo[p], n + 1, Len(todo[p]))
  PROVE  Controlled(p)' /\ Stage(p)' = Reached(Stage(p))
<1>1. Stage(p) \in Removing BY DEF Removing, Skips
<1>2. p \in Exporters /\ IsSuffix(todo[p], Removal) BY <1>1, StagesOf
<1>3. Stage(p) = Head(todo[p]) BY DEF Stage
<1>4. /\ IsSuffix(todo'[p], Removal) /\ todo'[p] # <<>>
      /\ Head(todo'[p]) = Reached(Stage(p))
  BY <1>2, <1>3, SuffixSkips
<1>5. QED BY <1>2, <1>4 DEF Controlled, Stage

----------------------------------------------------------------------------
(* The types.                                                              *)

Contents == [bundle : File \cup {None}, sidecar : File \cup {None}, foreign : {None, "present"}]
Sight == [guard : Roots \cup {None}, root : Roots \cup {None}, ids : [Members -> Files \cup {None}],
          bundle : File \cup {None}, sidecar : File \cup {None}]

(* Where a call stands.                                                    *)
Under ==
  /\ todo \in [Processes -> Seq(Stages)] /\ \A p \in Processes : Controlled(p)

(* What a verification has captured when it comes to a stage.              *)
Sighted(p) ==
  /\ Stage(p) \in (Looking \ {"open"}) \cup Finishing => seen[p].guard \in Roots
  /\ Stage(p) \in {"read_sidecar"} \cup Finishing => seen[p].bundle \in File
  /\ Stage(p) \in Finishing =>
       seen[p].sidecar \in File /\ Valid(p, seen[p].bundle, seen[p].sidecar)

Disks == entry \in [Names -> Roots \cup {None}] /\ inside \in [Roots -> Contents]
Locals ==
  /\ root \in [Exporters -> Roots \cup {None}] /\ guard \in [Exporters -> Roots \cup {None}]
  /\ owned \in [Exporters -> [Members -> Files \cup {None}]] /\ staged \in [Exporters -> BOOLEAN]
  /\ seen \in [Processes -> Sight]
  /\ answer \in [Processes -> Exporters \cup Answers \cup {None}]
Calls == \A p \in Processes : Sighted(p) /\ (answer[p] = None <=> Stage(p) # "over")
Bounded == faults \in 0 .. MaxTrouble /\ edits \in 0 .. MaxTrouble
Offers == offered \in [Processes -> [always : SUBSET Exporters, final : SUBSET Exporters]]

Typed == Under /\ Disks /\ Locals /\ Calls /\ Bounded /\ Offers

(* Where a call goes, and what happens to it when an exception leaves it.  *)
Moved(p, s) == Stage(p)' = s /\ \A q \in Processes : q # p => Stage(q)' = Stage(q)
Fallback(p) == IF root[p] = None THEN "fail" ELSE IF staged[p] THEN "discard" ELSE "look"
Raised(p) ==
  /\ seen' = [seen EXCEPT ![p] = Nothing]
  /\ IF p \in Exporters
     THEN Moved(p, Fallback(p)) /\ UNCHANGED answer
     ELSE Moved(p, "over") /\ answer' = [answer EXCEPT ![p] = "rejected"]

----------------------------------------------------------------------------
LEMMA StageValues ==
  /\ Working \cap Removing = {} /\ "over" \notin Stages
  /\ Stages = Working \cup Removing /\ "fail" \in Removing /\ "discard" \in Removing
  /\ Looking \cup Finishing \subseteq Working
BY DEF Stages, Working, Removing, Preparing, Making, Looking, Finishing

LEMMA OtherStays ==
  ASSUME NEW p \in Processes, Under, NEW t \in Seq(Stages), todo' = [todo EXCEPT ![p] = t]
  PROVE  /\ todo' \in [Processes -> Seq(Stages)] /\ todo'[p] = t
         /\ \A q \in Processes : q # p => Controlled(q)' /\ Stage(q)' = Stage(q)
<1>1. todo' \in [Processes -> Seq(Stages)] /\ todo'[p] = t
  BY DEF Under
<1>2. ASSUME NEW q \in Processes, q # p PROVE Controlled(q)' /\ Stage(q)' = Stage(q)
  <2>1. todo'[q] = todo[q] BY <1>2 DEF Under
  <2>2. Controlled(q) BY DEF Under
  <2>3. QED BY <2>1, <2>2 DEF Controlled, Stage
<1>3. QED BY <1>1, <1>2

LEMMA Emptied ==
  ASSUME NEW p \in Processes, todo'[p] = <<>>
  PROVE  Controlled(p)' /\ Stage(p)' = "over"
<1> DEFINE t == <<>>
<1>1. t \in Seq(Stages) /\ Len(t) = 0 OBVIOUS
<1>2. Len(Program(p)) \in Nat BY Layout DEF IsLaidOut, Processes
<1> HIDE DEF t
<1>3. IsSuffix(t, Program(p)) BY <1>1, <1>2 DEF IsSuffix
<1>4. QED BY <1>3 DEF t, Controlled, Stage

LEMMA Ended ==
  ASSUME NEW p \in Exporters, todo'[p] = <<"fail">>
  PROVE  Controlled(p)' /\ Stage(p)' = "fail"
<1> DEFINE t == <<"fail">>
<1>1. t \in Seq(Stages) /\ Len(t) = 1 /\ t[1] = "fail" /\ t # <<>> BY DEF Stages, Removing
<1> HIDE DEF t
<1>2. IsSuffix(t, Removal) BY <1>1, RemovalLayout DEF IsSuffix
<1>3. Head(t) = "fail" BY <1>1, TailOf
<1>4. QED BY <1>1, <1>2, <1>3 DEF t, Controlled, Stage

LEMMA CleanupTyped ==
  ASSUME NEW p \in Exporters
  PROVE  Cleanup(p) \in Seq(Stages)
<1>1. {"discard", "fail"} \subseteq Stages /\ RemoveDestination \in Seq(Stages)
  BY DEF Stages, Removing, RemoveDestination
<1>2. QED BY <1>1 DEF Cleanup

(* What the control operators of the actions do to the stages.             *)
LEMMA Moves ==
  ASSUME Under, NEW p \in Processes
  PROVE  /\ \A s : At(p, s) => Stage(p) = s /\ Stage(p) \in Stages
         /\ todo[p] # <<>> <=> Stage(p) # "over"
         /\ todo[p] # <<>> => Stage(p) = Head(todo[p]) /\ Stage(p) \in Stages
         /\ p \in Verifiers /\ todo[p] # <<>> => Stage(p) \in Looking \cup Finishing
         /\ todo[p] # <<>> /\ Advance(p) => Under' /\ Moved(p, After(p, Stage(p)))
         /\ Raise(p) => Under' /\ Raised(p)
         /\ todo' = [todo EXCEPT ![p] = <<>>] => Under' /\ Moved(p, "over")
         /\ p \in Exporters /\ todo' = [todo EXCEPT ![p] = <<"fail">>] => Under' /\ Moved(p, "fail")
         /\ \A n \in Nat : todo[p] # <<>> /\ Skips(Stage(p), n) /\ Skip(p, n) =>
              Under' /\ Moved(p, Reached(Stage(p)))
<1>1. todo[p] \in Seq(Stages) /\ Controlled(p) BY DEF Under
<1>2. todo[p] # <<>> => Stage(p) = Head(todo[p]) /\ Stage(p) \in Stages
  BY <1>1, StagesOf DEF Stage
<1>3. todo[p] # <<>> <=> Stage(p) # "over" BY <1>2, StageValues DEF Stage
<1>4. \A s : At(p, s) => Stage(p) = s /\ Stage(p) \in Stages BY <1>2 DEF At
<1>5. p \in Verifiers /\ todo[p] # <<>> => Stage(p) \in Looking \cup Finishing BY <1>1, StagesOf
<1>6. ASSUME todo[p] # <<>>, Advance(p) PROVE Under' /\ Moved(p, After(p, Stage(p)))
  <2>1. Tail(todo[p]) \in Seq(Stages) BY <1>1, <1>6, TailOf
  <2>2. /\ todo' \in [Processes -> Seq(Stages)] /\ todo'[p] = Tail(todo[p])
        /\ \A q \in Processes : q # p => Controlled(q)' /\ Stage(q)' = Stage(q)
    BY <1>6, <2>1, OtherStays DEF Advance
  <2>3. Controlled(p)' /\ Stage(p)' = After(p, Stage(p)) BY <1>1, <1>6, <2>2, Advancing
  <2>4. QED BY <2>2, <2>3 DEF Under, Moved
<1>7. ASSUME todo' = [todo EXCEPT ![p] = <<>>] PROVE Under' /\ Moved(p, "over")
  <2>1. <<>> \in Seq(Stages) OBVIOUS
  <2>2. /\ todo' \in [Processes -> Seq(Stages)] /\ todo'[p] = <<>>
        /\ \A q \in Processes : q # p => Controlled(q)' /\ Stage(q)' = Stage(q)
    BY <1>7, <2>1, OtherStays
  <2>3. Controlled(p)' /\ Stage(p)' = "over" BY <2>2, Emptied
  <2>4. QED BY <2>2, <2>3 DEF Under, Moved
<1>8. ASSUME p \in Exporters, todo' = [todo EXCEPT ![p] = Cleanup(p)]
      PROVE Under' /\ Moved(p, Fallback(p))
  <2>1. Cleanup(p) \in Seq(Stages) BY <1>8, CleanupTyped
  <2>2. /\ todo' \in [Processes -> Seq(Stages)] /\ todo'[p] = Cleanup(p)
        /\ \A q \in Processes : q # p => Controlled(q)' /\ Stage(q)' = Stage(q)
    BY <1>8, <2>1, OtherStays
  <2>3. Controlled(p)' /\ Stage(p)' = Fallback(p) BY <1>8, <2>2, Raising DEF Fallback
  <2>4. QED BY <2>2, <2>3 DEF Under, Moved
<1>9. ASSUME p \in Exporters, todo' = [todo EXCEPT ![p] = <<"fail">>] PROVE Under' /\ Moved(p, "fail")
  <2>1. <<"fail">> \in Seq(Stages) BY DEF Stages, Removing
  <2>2. /\ todo' \in [Processes -> Seq(Stages)] /\ todo'[p] = <<"fail">>
        /\ \A q \in Processes : q # p => Controlled(q)' /\ Stage(q)' = Stage(q)
    BY <1>9, <2>1, OtherStays
  <2>3. Controlled(p)' /\ Stage(p)' = "fail" BY <1>9, <2>2, Ended
  <2>4. QED BY <2>2, <2>3 DEF Under, Moved
<1>10. ASSUME NEW n \in Nat, todo[p] # <<>>, Skips(Stage(p), n), Skip(p, n)
       PROVE Under' /\ Moved(p, Reached(Stage(p)))
  <2> DEFINE t == SubSeq(todo[p], n + 1, Len(todo[p]))
  <2>1. p \in Exporters /\ IsSuffix(todo[p], Removal)
    BY <1>1, <1>10, StagesOf DEF Skips, Removing
  <2>2. t \in Seq(Stages) BY <1>2, <1>10, <2>1, SuffixSkips DEF IsSuffix
  <2>3. todo' = [todo EXCEPT ![p] = t] BY <1>10 DEF Skip
  <2> HIDE DEF t
  <2>4. /\ todo' \in [Processes -> Seq(Stages)] /\ todo'[p] = t
        /\ \A q \in Processes : q # p => Controlled(q)' /\ Stage(q)' = Stage(q)
    BY <2>2, <2>3, OtherStays
  <2>5. Controlled(p)' /\ Stage(p)' = Reached(Stage(p)) BY <1>1, <1>10, <2>4, Skipping DEF t
  <2>6. QED BY <2>4, <2>5 DEF Under, Moved
<1>11. Raise(p) => Under' /\ Raised(p)
  BY <1>7, <1>8 DEF Raise, Raised
<1>12. QED BY <1>2, <1>3, <1>4, <1>5, <1>6, <1>7, <1>9, <1>10, <1>11

LEMMA NobodyMoves ==
  ASSUME Under, UNCHANGED todo
  PROVE  Under' /\ \A q \in Processes : Stage(q)' = Stage(q)
BY DEF Under, Controlled, Stage
----------------------------------------------------------------------------
(* Directories and what a verification captures, as records.               *)

LEMMA MemberIsField ==
  ASSUME NEW c \in Contents, NEW m \in Members, NEW v \in File \cup {None}
  PROVE  /\ c[m] \in File \cup {None} /\ c.foreign \in {None, "present"}
         /\ [c EXCEPT ![m] = v] \in Contents /\ [c EXCEPT ![m] = v][m] = v
         /\ \A n \in Members \ {m} : [c EXCEPT ![m] = v][n] = c[n]
         /\ [c EXCEPT ![m] = v].foreign = c.foreign
BY DEF Contents, Members

LEMMA ForeignIsField ==
  ASSUME NEW c \in Contents
  PROVE  /\ [c EXCEPT !.foreign = "present"] \in Contents
         /\ \A m \in Members : [c EXCEPT !.foreign = "present"][m] = c[m]
         /\ [c EXCEPT !.foreign = "present"].foreign = "present"
BY DEF Contents, Members

LEMMA EmptyContents ==
  /\ Empty \in Contents /\ Empty.foreign = None /\ \A m \in Members : Empty[m] = None
  /\ \A c \in Contents : c = Empty <=> c.foreign = None /\ \A m \in Members : c[m] = None
<1>1. Empty \in Contents /\ Empty.foreign = None /\ \A m \in Members : Empty[m] = None
  BY DEF Contents, Members, Empty
<1>2. ASSUME NEW c \in Contents, c.foreign = None, \A m \in Members : c[m] = None
      PROVE c = Empty
  BY <1>2 DEF Contents, Members, Empty
<1>3. QED BY <1>1, <1>2

(* One member of one directory is written.                                 *)
Puts(d, m, v) ==
  /\ inside' \in [Roots -> Contents] /\ inside'[d][m] = v
  /\ \A e \in Roots \ {d} : inside'[e] = inside[e]
  /\ \A n \in Members \ {m} : inside'[d][n] = inside[d][n]
  /\ inside'[d].foreign = inside[d].foreign

LEMMA Put ==
  ASSUME inside \in [Roots -> Contents], NEW d \in Roots, NEW m \in Members,
         NEW v \in File \cup {None}, inside' = [inside EXCEPT ![d][m] = v]
  PROVE  Puts(d, m, v)
<1> DEFINE o == inside[d]
           c == [o EXCEPT ![m] = v]
<1>0. o \in Contents OBVIOUS
<1>1. /\ c \in Contents /\ c[m] = v
      /\ \A n \in Members \ {m} : c[n] = o[n]
      /\ c.foreign = o.foreign
  <2> HIDE DEF o
  <2>1. QED BY <1>0, MemberIsField
<1>2. inside' = [inside EXCEPT ![d] = c] BY DEF c
<1> HIDE DEF c
<1>3. inside' \in [Roots -> Contents] /\ inside'[d] = c /\ \A e \in Roots \ {d} : inside'[e] = inside[e]
  BY <1>1, <1>2
<1>4. QED BY <1>1, <1>3 DEF Puts

LEMMA FileFields ==
  /\ \A f \in File : f.id \in Files /\ f.by \in Exporters /\ f.whole \in BOOLEAN
  /\ \A f \in File :
       /\ [f EXCEPT !.whole = TRUE] \in File /\ [f EXCEPT !.whole = TRUE].id = f.id
       /\ [f EXCEPT !.whole = TRUE].by = f.by /\ [f EXCEPT !.whole = TRUE].whole
  /\ \A f, g \in File : f.id = g.id /\ f.by = g.by /\ f.whole = g.whole => f = g
  /\ \A i \in Files, e \in Exporters, w \in BOOLEAN :
       /\ [id |-> i, by |-> e, whole |-> w] \in File
       /\ [id |-> i, by |-> e, whole |-> w].id = i /\ [id |-> i, by |-> e, whole |-> w].by = e
       /\ [id |-> i, by |-> e, whole |-> w].whole = w
  /\ None \notin File
<1>1. None \notin File BY ExportAssumption
<1>2. \A f \in File : f.id \in Files /\ f.by \in Exporters /\ f.whole \in BOOLEAN BY DEF File
<1>3. ASSUME NEW f \in File
      PROVE  /\ [f EXCEPT !.whole = TRUE] \in File
             /\ [f EXCEPT !.whole = TRUE].id = f.id
             /\ [f EXCEPT !.whole = TRUE].by = f.by /\ [f EXCEPT !.whole = TRUE].whole
  BY DEF File
<1>5. ASSUME NEW f \in File, NEW g \in File, f.id = g.id, f.by = g.by, f.whole = g.whole
      PROVE  f = g
  BY <1>5 DEF File
<1>4. ASSUME NEW i \in Files, NEW e \in Exporters, NEW w \in BOOLEAN
      PROVE  [id |-> i, by |-> e, whole |-> w] \in File
  BY DEF File
<1>6. QED BY <1>1, <1>2, <1>3, <1>4, <1>5

LEMMA Identities ==
  /\ \A p \in Exporters : <<p, "root">> \in Roots /\ \A m \in Members : <<p, m>> \in Files
  /\ <<Owner, "root">> \in Roots
  /\ \A n \in 1 .. MaxTrouble : <<Owner, n>> \in Files
  /\ Exporters \subseteq Names /\ Dest \in Names /\ Dest \notin Exporters
  /\ Exporters \subseteq Processes /\ None \notin Roots
  /\ "bundle" \in Members /\ "sidecar" \in Members
  /\ \A p \in Exporters : <<p, "root">> # <<Owner, "root">>
  /\ \A p, q \in Exporters : <<p, "root">> = <<q, "root">> => p = q
BY ExportAssumption DEF Roots, Files, Names, Processes, Members

LEMMA MemberNames ==
  /\ Members = {"bundle", "sidecar"} /\ DOMAIN Empty = {"bundle", "sidecar", "foreign"}
  /\ "foreign" \notin Members
BY DEF Members, Empty

(* What happens to a captured sight.                                       *)
LEMMA SightFields ==
  ASSUME NEW s \in Sight
  PROVE  /\ s.guard \in Roots \cup {None} /\ s.root \in Roots \cup {None}
         /\ s.ids \in [Members -> Files \cup {None}]
         /\ \A m \in Members : s[m] \in File \cup {None}
         /\ \A g \in Roots : [s EXCEPT !.guard = g] \in Sight
         /\ \A g \in Roots : [s EXCEPT !.root = g] \in Sight
         /\ \A g \in [Members -> Files \cup {None}] : [s EXCEPT !.ids = g] \in Sight
         /\ \A m \in Members, f \in File : [s EXCEPT ![m] = f] \in Sight
BY DEF Sight, Members

LEMMA NothingSeen ==
  Nothing \in Sight
<1>1. NoMembers \in [Members -> Files \cup {None}] BY DEF NoMembers
<1>2. QED BY <1>1 DEF Sight, Nothing
----------------------------------------------------------------------------
(* Type correctness.                                                       *)

Shape == Under /\ Disks /\ Locals /\ Calls

LEMMA CallsMove ==
  ASSUME Typed, NEW p \in Processes, NEW s, Moved(p, s), Sighted(p)',
         answer'[p] = None <=> s # "over",
         \A q \in Processes : q # p => seen'[q] = seen[q] /\ answer'[q] = answer[q]
  PROVE  Calls'
<1>1. ASSUME NEW q \in Processes, q # p
      PROVE  Sighted(q)' /\ (answer'[q] = None <=> Stage(q)' # "over")
  <2>1. Stage(q)' = Stage(q) /\ seen'[q] = seen[q] /\ answer'[q] = answer[q] BY <1>1 DEF Moved
  <2>2. Sighted(q) /\ (answer[q] = None <=> Stage(q) # "over") BY DEF Typed, Calls
  <2>3. QED BY <2>1, <2>2 DEF Sighted, Valid
<1>2. Stage(p)' = s BY DEF Moved
<1>3. QED BY <1>1, <1>2 DEF Calls

LEMMA RaisedShape ==
  ASSUME Typed, NEW p \in Processes, Raised(p), todo[p] # <<>>, Under'
  PROVE  Calls' /\ seen' \in [Processes -> Sight]
         /\ answer' \in [Processes -> Exporters \cup Answers \cup {None}]
<1>1. seen' \in [Processes -> Sight] BY NothingSeen DEF Typed, Locals, Raised
<1>2. answer' \in [Processes -> Exporters \cup Answers \cup {None}]
  BY DEF Typed, Locals, Raised, Answers
<1>3. Sighted(p)' /\ \E s : Moved(p, s) /\ (answer'[p] = None <=> s # "over")
  <2>1. answer[p] = None BY Moves DEF Typed, Calls
  <2>2. CASE p \in Exporters
    <3>1. Moved(p, Fallback(p)) /\ answer'[p] = None BY <2>1, <2>2 DEF Raised
    <3>2. Fallback(p) \in {"fail", "discard", "look"} BY DEF Fallback
    <3>3. QED BY <3>1, <3>2 DEF Sighted, Moved, Looking, Finishing
  <2>3. CASE p \notin Exporters
    <3>1. Moved(p, "over") /\ answer'[p] = "rejected"
      BY <2>3 DEF Raised, Typed, Locals
    <3>2. None # "rejected" BY ExportAssumption DEF Answers
    <3>3. QED BY <3>1, <3>2 DEF Sighted, Moved, Looking, Finishing
  <2>4. QED BY <2>2, <2>3
<1>4. \A q \in Processes : q # p => seen'[q] = seen[q] /\ answer'[q] = answer[q]
  BY DEF Typed, Locals, Raised
<1>5. QED BY <1>1, <1>2, <1>3, <1>4, CallsMove

(* A step that advances past a stage where nothing has to be captured.     *)
LEMMA PassedShape ==
  ASSUME Typed, NEW p \in Processes, todo[p] # <<>>, Advance(p),
         UNCHANGED answer, After(p, Stage(p)) # "over",
         seen' \in [Processes -> Sight],
         \A q \in Processes : q # p => seen'[q] = seen[q],
         \/ UNCHANGED seen /\ Stage(p) \notin {"open", "read_bundle", "read_sidecar"}
         \/ Sighted(p)'
  PROVE  Under' /\ Calls'
<1>1. Under' /\ Moved(p, After(p, Stage(p))) BY Moves DEF Typed
<1>2. answer'[p] = None BY Moves DEF Typed, Calls
<1>3. Sighted(p)'
  <2>1. CASE UNCHANGED seen /\ Stage(p) \notin {"open", "read_bundle", "read_sidecar"}
    <3>1. seen'[p] = seen[p] /\ Sighted(p) BY <2>1 DEF Typed, Calls
    <3>2. QED BY <1>1, <2>1, <3>1 DEF Moved, After, Sighted, Valid, Looking, Finishing
  <2>2. QED BY <2>1
<1>4. QED BY <1>1, <1>2, <1>3, CallsMove

LEMMA RequireShape ==
  ASSUME Typed, NEW p \in Processes, NEW c \in BOOLEAN, todo[p] # <<>>, Require(p, c),
         After(p, Stage(p)) # "over", Stage(p) \notin {"open", "read_bundle", "read_sidecar"}
  PROVE  Shape'
<1>1. CASE Advance(p) /\ UNCHANGED <<seen, answer>>
  BY <1>1, PassedShape DEF Require, Shape, Typed, Disks, Locals, disk
<1>2. CASE Raise(p)
  <2>1. Under' /\ Raised(p) BY <1>2, Moves DEF Typed
  <2>2. QED BY <2>1, RaisedShape DEF Require, Shape, Typed, Disks, Locals, disk
<1>3. QED BY <1>1, <1>2 DEF Require

(* A step that captures something and goes on, or raises.                  *)
LEMMA CaptureShape ==
  ASSUME Typed, NEW p \in Processes, NEW c \in BOOLEAN, NEW sight, todo[p] # <<>>,
         After(p, Stage(p)) # "over",
         IF c THEN seen' = [seen EXCEPT ![p] = sight] /\ Advance(p) /\ UNCHANGED answer
              ELSE Raise(p),
         c => sight \in Sight,
         c /\ Moved(p, After(p, Stage(p))) /\ seen'[p] = sight => Sighted(p)',
         UNCHANGED <<disk, root, owned, staged, guard, bounds>>
  PROVE  Shape'
<1>1. CASE c
  <2>1. /\ seen' \in [Processes -> Sight] /\ seen'[p] = sight
        /\ \A q \in Processes : q # p => seen'[q] = seen[q]
    BY <1>1 DEF Typed, Locals
  <2>2. Sighted(p)' BY <1>1, <2>1, Moves DEF Typed
  <2>3. Under' /\ Calls' BY <1>1, <2>1, <2>2, PassedShape
  <2>4. QED BY <1>1, <2>1, <2>3 DEF Shape, Typed, Disks, Locals, disk
<1>2. CASE ~c
  <2>1. Under' /\ Raised(p) BY <1>2, Moves DEF Typed
  <2>2. QED BY <2>1, RaisedShape DEF Shape, Typed, Disks, Locals, disk
<1>3. QED BY <1>1, <1>2

LEMMA OpenShape ==
  ASSUME Typed, NEW p \in Processes, Open(p)
  PROVE  Shape'
<1> DEFINE s == [seen[p] EXCEPT !.guard = entry[Dest]]
<1>1. todo[p] # <<>> /\ Stage(p) = "open" BY Moves DEF Open, Typed, At
<1>2. seen[p] \in Sight BY DEF Typed, Locals
<1>3. There(Dest) => entry[Dest] \in Roots BY Identities DEF There, Typed, Disks
<1>4. There(Dest) => s \in Sight /\ s.guard \in Roots
  <2>1. There(Dest) => s \in Sight BY <1>2, <1>3, SightFields
  <2>2. s.guard = entry[Dest] BY <1>2 DEF Sight
  <2>3. QED BY <1>3, <2>1, <2>2
<1>5. IF There(Dest) THEN seen' = [seen EXCEPT ![p] = s] /\ Advance(p) /\ UNCHANGED answer
                     ELSE Raise(p)
  BY DEF Open
<1> HIDE DEF s
<1>6. There(Dest) /\ Moved(p, "root") /\ seen'[p] = s => Sighted(p)'
  BY <1>4 DEF Sighted, Moved, Looking, Finishing
<1>7. After(p, "open") = "root" BY DEF After
<1>8. There(Dest) \in BOOLEAN BY DEF There
<1>9. UNCHANGED <<disk, root, owned, staged, guard, bounds>> BY DEF Open
<1>10. QED BY <1>1, <1>4, <1>5, <1>6, <1>7, <1>8, <1>9, CaptureShape

LEMMA RootShape ==
  ASSUME Typed, NEW p \in Processes, Root(p)
  PROVE  Shape'
<1> DEFINE s == [seen[p] EXCEPT !.root = entry[Dest]]
<1>1. todo[p] # <<>> /\ Stage(p) = "root" BY Moves DEF Root, Typed, At
<1>2. seen[p] \in Sight BY DEF Typed, Locals
<1>3. There(Dest) => entry[Dest] \in Roots BY Identities DEF There, Typed, Disks
<1>4. There(Dest) => s \in Sight /\ s.guard \in Roots
  <2>1. There(Dest) => s \in Sight BY <1>2, <1>3, SightFields
  <2>2. s.guard = seen[p].guard BY <1>2 DEF Sight
  <2>3. seen[p].guard \in Roots BY <1>1 DEF Typed, Calls, Sighted, Looking
  <2>4. QED BY <2>1, <2>2, <2>3
<1>5. IF There(Dest) THEN seen' = [seen EXCEPT ![p] = s] /\ Advance(p) /\ UNCHANGED answer
                     ELSE Raise(p)
  BY DEF Root
<1> HIDE DEF s
<1>6. There(Dest) /\ Moved(p, "inventory") /\ seen'[p] = s => Sighted(p)'
  BY <1>4 DEF Sighted, Moved, Looking, Finishing
<1>7. After(p, "root") = "inventory" BY DEF After
<1>8. There(Dest) \in BOOLEAN BY DEF There
<1>9. UNCHANGED <<disk, root, owned, staged, guard, bounds>> BY DEF Root
<1>10. QED BY <1>1, <1>4, <1>5, <1>6, <1>7, <1>8, <1>9, CaptureShape

LEMMA MemberIdsTyped ==
  ASSUME Typed, NEW d \in Roots, \A m \in Members : inside[d][m] # None
  PROVE  MemberIds(d) \in [Members -> Files \cup {None}]
<1>1. ASSUME NEW m \in Members PROVE inside[d][m].id \in Files
  <2>1. inside[d] \in Contents BY DEF Typed, Disks
  <2>2. inside[d][m] \in File BY <2>1, MemberIsField
  <2>3. QED BY <2>2, FileFields
<1>2. QED BY <1>1 DEF MemberIds

LEMMA InventoryShape ==
  ASSUME Typed, NEW p \in Processes, Inventory(p)
  PROVE  Shape'
<1> DEFINE s == [seen[p] EXCEPT !.ids = IF Version[p] = "v1" THEN @ ELSE MemberIds(entry[Dest])]
           i == IF Version[p] = "v1" THEN seen[p].ids ELSE MemberIds(entry[Dest])
<1>1. todo[p] # <<>> /\ Stage(p) = "inventory" BY Moves DEF Inventory, Typed, At
<1>2. seen[p] \in Sight BY DEF Typed, Locals
<1>3. Strict => i \in [Members -> Files \cup {None}]
  <2>1. Strict => entry[Dest] \in Roots BY Identities DEF Strict, There, Typed, Disks
  <2>2. Strict => MemberIds(entry[Dest]) \in [Members -> Files \cup {None}]
    BY <2>1, MemberIdsTyped DEF Strict, Holds
  <2>3. QED BY <1>2, <2>2, SightFields
<1>4. Strict => s \in Sight /\ s.guard \in Roots
  <2>1. s = [seen[p] EXCEPT !.ids = i] BY DEF i
  <2> HIDE DEF i, s
  <2>2. Strict => s \in Sight BY <1>2, <1>3, <2>1, SightFields
  <2>3. s.guard = seen[p].guard BY <1>2, <2>1 DEF Sight
  <2>4. seen[p].guard \in Roots BY <1>1 DEF Typed, Calls, Sighted, Looking
  <2>5. QED BY <2>2, <2>3, <2>4
<1>5. IF Strict THEN seen' = [seen EXCEPT ![p] = s] /\ Advance(p) /\ UNCHANGED answer
                ELSE Raise(p)
  BY DEF Inventory
<1> HIDE DEF s
<1>6. After(p, "inventory") = IF Version[p] = "v1" THEN "guards" ELSE "read_bundle" BY DEF After
<1>7. Strict /\ Moved(p, After(p, "inventory")) /\ seen'[p] = s => Sighted(p)'
  BY <1>4, <1>6 DEF Sighted, Moved, Looking, Finishing
<1>8. Strict \in BOOLEAN BY DEF Strict
<1>9. UNCHANGED <<disk, root, owned, staged, guard, bounds>> BY DEF Inventory
<1>10. QED BY <1>1, <1>4, <1>5, <1>6, <1>7, <1>8, <1>9, CaptureShape

LEMMA MemberGuardsShape ==
  ASSUME Typed, NEW p \in Processes, OpenMemberGuards(p)
  PROVE  Shape'
<1> DEFINE i == MemberIds(seen[p].guard)
           s == [seen[p] EXCEPT !.ids = i]
           c == \A m \in Members : inside[seen[p].guard][m] # None
<1>1. todo[p] # <<>> /\ Stage(p) = "guards" BY Moves DEF OpenMemberGuards, Typed, At
<1>2. seen[p] \in Sight BY DEF Typed, Locals
<1>3. seen[p].guard \in Roots BY <1>1 DEF Typed, Calls, Sighted, Looking
<1>4. c => s \in Sight /\ s.guard \in Roots
  <2>1. c => i \in [Members -> Files \cup {None}] BY <1>3, MemberIdsTyped
  <2> HIDE DEF i
  <2>2. c => s \in Sight BY <1>2, <2>1, SightFields
  <2>3. s.guard = seen[p].guard BY <1>2 DEF Sight
  <2>4. QED BY <1>3, <2>2, <2>3
<1>5. IF c THEN seen' = [seen EXCEPT ![p] = s] /\ Advance(p) /\ UNCHANGED answer
           ELSE Raise(p)
  BY DEF OpenMemberGuards
<1>6. c \in BOOLEAN OBVIOUS
<1> HIDE DEF s, c
<1>7. c /\ Moved(p, "read_bundle") /\ seen'[p] = s => Sighted(p)'
  BY <1>4 DEF Sighted, Moved, Looking, Finishing
<1>8. After(p, "guards") = "read_bundle" BY DEF After
<1>9. UNCHANGED <<disk, root, owned, staged, guard, bounds>> BY DEF OpenMemberGuards
<1>10. QED BY <1>1, <1>4, <1>5, <1>6, <1>7, <1>8, <1>9, CaptureShape

LEMMA ReadShape ==
  ASSUME Typed, NEW p \in Processes,
         NEW m \in Members, NEW stage \in {"read_bundle", "read_sidecar"},
         stage = "read_bundle" <=> m = "bundle", Read(p, m, stage)
  PROVE  Shape'
<1> DEFINE f == inside[Directory(p)][m]
           s == [seen[p] EXCEPT ![m] = f]
           c == Stable(p, m) /\ (m = "sidecar" => Valid(p, seen[p].bundle, f))
<1>1. todo[p] # <<>> /\ Stage(p) = stage BY Moves DEF Read, Typed, At
<1>2. seen[p] \in Sight BY DEF Typed, Locals
<1>3. seen[p].guard \in Roots BY <1>1 DEF Typed, Calls, Sighted, Looking
<1>4. c => f \in File
  <2>1. c => Directory(p) \in Roots
    BY <1>3, Identities DEF Stable, Directory, Typed, Disks
  <2>2. c => inside[Directory(p)] \in Contents BY <2>1 DEF Typed, Disks
  <2>3. QED BY <2>2, MemberIsField DEF Stable
<1>5. IF c THEN seen' = [seen EXCEPT ![p] = s] /\ Advance(p) /\ UNCHANGED answer
           ELSE Raise(p)
  BY DEF Read
<1>6. c \in BOOLEAN BY DEF Stable, Valid
<1>7. c /\ m = "sidecar" => Valid(p, seen[p].bundle, f) OBVIOUS
<1>8. m = "sidecar" => seen[p].bundle \in File
  BY <1>1, MemberNames DEF Typed, Calls, Sighted
<1> HIDE DEF f, c
<1>9. c => /\ s \in Sight /\ s.guard \in Roots /\ s[m] = f
           /\ m = "sidecar" => s.bundle = seen[p].bundle
  <2>1. c => s \in Sight BY <1>2, <1>4, SightFields
  <2>2. /\ s.guard = seen[p].guard /\ s[m] = f
        /\ m = "sidecar" => s.bundle = seen[p].bundle
    BY <1>2, MemberNames DEF Sight
  <2>3. QED BY <1>3, <2>1, <2>2
<1> HIDE DEF s
<1>10. After(p, stage) = IF m = "bundle" THEN "read_sidecar" ELSE "inventory_again"
  BY MemberNames DEF After
<1>11. c /\ Moved(p, After(p, stage)) /\ seen'[p] = s => Sighted(p)'
  <2>1. CASE m = "bundle"
    BY <1>4, <1>9, <1>10, <2>1 DEF Sighted, Moved, Looking, Finishing
  <2>2. CASE m = "sidecar"
    BY <1>4, <1>7, <1>8, <1>9, <1>10, <2>2 DEF Sighted, Moved, Looking, Finishing, Valid
  <2>3. QED BY <2>1, <2>2, MemberNames
<1>12. UNCHANGED <<disk, root, owned, staged, guard, bounds>> BY DEF Read
<1>13. QED BY <1>1, <1>5, <1>6, <1>9, <1>10, <1>11, <1>12, CaptureShape

LEMMA VerificationShape ==
  ASSUME Typed, NEW p \in Processes, Verify(p)
  PROVE  Shape'
<1>1. ASSUME NEW s, NEW c \in BOOLEAN, At(p, s), Require(p, c), After(p, s) # "over",
             s \notin {"open", "read_bundle", "read_sidecar"}
      PROVE  Shape'
  <2>1. Stage(p) = s /\ todo[p] # <<>> BY <1>1, Moves DEF Typed, At
  <2>2. QED BY <1>1, <2>1, RequireShape
<1>2. /\ \A s \in {"inventory_again", "bundle_again", "sidecar_again", "members_again",
                   "root_again", "ancestry_again", "guards_again"} : After(p, s) # "over"
      /\ \A m \in Members : Stable(p, m) \in BOOLEAN /\ Unchanged(p, m) \in BOOLEAN
  BY DEF After, Stable, Unchanged
<1>3. CASE InventoryAgain(p)
  BY <1>1, <1>2, <1>3 DEF InventoryAgain, Strict
<1>4. CASE ReadAgain(p, "bundle", "bundle_again") \/ ReadAgain(p, "sidecar", "sidecar_again")
  BY <1>1, <1>2, <1>4, MemberNames DEF ReadAgain
<1>5. CASE MembersAgain(p)
  <2> DEFINE c == \A m \in Members : Holds(Dest, m) /\ inside[entry[Dest]][m].id = seen[p].ids[m]
  <2>1. c \in BOOLEAN OBVIOUS
  <2>2. At(p, "members_again") /\ Require(p, c) BY <1>5 DEF MembersAgain
  <2> HIDE DEF c
  <2>3. QED BY <1>1, <1>2, <2>1, <2>2
<1>6. CASE RootAgain(p) BY <1>1, <1>2, <1>6 DEF RootAgain
<1>7. CASE AncestryAgain(p) BY <1>1, <1>2, <1>7 DEF AncestryAgain
<1>8. CASE GuardsAgain(p)
  <2> DEFINE c == \A m \in Members : Stable(p, m)
  <2>1. c \in BOOLEAN OBVIOUS
  <2>2. At(p, "guards_again") /\ Require(p, c) BY <1>8 DEF GuardsAgain
  <2> HIDE DEF c
  <2>3. QED BY <1>1, <1>2, <2>1, <2>2
<1>9. CASE Read(p, "bundle", "read_bundle") \/ Read(p, "sidecar", "read_sidecar")
  <2>1. "bundle" \in Members /\ "sidecar" \in Members /\ "bundle" # "sidecar"
        /\ "read_bundle" # "read_sidecar"
    BY MemberNames
  <2>2. QED BY <1>9, <2>1, ReadShape
<1>10. QED
  BY <1>3, <1>4, <1>5, <1>6, <1>7, <1>8, <1>9, OpenShape, RootShape, InventoryShape, MemberGuardsShape
  DEF Verify

LEMMA DoneShape ==
  ASSUME Typed, NEW p \in Processes, Done(p)
  PROVE  Shape'
<1>1. todo[p] # <<>> /\ Stage(p) = "done" BY Moves DEF Done, Typed, At
<1>2. Under' /\ Moved(p, "over") BY <1>1, Moves DEF Done, Typed, After
<1>3. seen[p].bundle \in File /\ seen[p].bundle.by \in Exporters
  BY <1>1, FileFields DEF Typed, Calls, Sighted, Finishing
<1>4. /\ answer' = [answer EXCEPT ![p] = seen[p].bundle.by] /\ seen' = [seen EXCEPT ![p] = Nothing]
      /\ guard' = [q \in Exporters |-> IF q = p THEN None ELSE guard[q]]
      /\ UNCHANGED <<disk, root, owned, staged, bounds>>
  BY DEF Done
<1>5. seen' \in [Processes -> Sight] BY <1>4, NothingSeen DEF Typed, Locals
<1>6. Locals'
  BY <1>3, <1>4, <1>5 DEF Typed, Locals
<1>7. Sighted(p)' BY <1>2 DEF Sighted, Moved, Looking, Finishing
<1>8. answer'[p] # None BY <1>3, <1>4, ExportAssumption DEF Typed, Locals
<1>9. Calls' BY <1>2, <1>4, <1>7, <1>8, CallsMove DEF Typed, Locals
<1>10. QED BY <1>2, <1>4, <1>6, <1>9 DEF Shape, Typed, Disks, disk

LEMMA ExistsShape ==
  ASSUME Typed, NEW p \in Exporters, Exists(p)
  PROVE  Shape'
<1>1. p \in Processes BY DEF Processes
<1>2. todo[p] # <<>> /\ Stage(p) = "exists" BY <1>1, Moves DEF Exists, Typed, At
<1>3. CASE There(Dest)
  <2>1. todo' = [todo EXCEPT ![p] = <<>>] /\ answer' = [answer EXCEPT ![p] = "refused"]
        /\ UNCHANGED <<disk, root, owned, staged, guard, seen, bounds>>
    BY <1>3 DEF Exists
  <2>2. Under' /\ Moved(p, "over") BY <1>1, <2>1, Moves DEF Typed
  <2>3. Locals' BY <2>1 DEF Typed, Locals, Answers
  <2>4. Sighted(p)' BY <2>2 DEF Sighted, Moved, Looking, Finishing
  <2>5. answer'[p] # None BY <1>1, <2>1, ExportAssumption DEF Typed, Locals, Answers
  <2>6. Calls' BY <1>1, <2>1, <2>2, <2>4, <2>5, CallsMove DEF Typed, Locals
  <2>7. QED BY <2>1, <2>2, <2>3, <2>6 DEF Shape, Typed, Disks, disk
<1>4. CASE ~There(Dest)
  BY <1>1, <1>2, <1>4, PassedShape DEF Exists, Shape, Typed, Disks, Locals, disk, After
<1>5. QED BY <1>3, <1>4

----------------------------------------------------------------------------
(* Who made what.                                                          *)

Own(p) == <<p, "root">>
Made(p, m) == [id |-> <<p, m>>, by |-> p, whole |-> TRUE]
Public == {"confirm"} \cup Looking \cup Finishing

Unwritten(m) ==
  Preparing \cup (IF m = "bundle" THEN {"create_bundle"}
                  ELSE {"create_bundle", "fill_bundle", "create_sidecar"})
Filling(m) == IF m = "bundle" THEN "fill_bundle" ELSE "fill_sidecar"

(* Until it is published a bundle is in its exporter's hands: whatever an  *)
(* operator does, nobody else knows where it stands.                       *)
Owns(p) ==
  /\ entry[p] \in {None, Own(p)} /\ root[p] \in {None, Own(p)}
  /\ \A m \in Members : owned[p][m] \in {None, <<p, m>>}
  /\ Stage(p) \in Preparing => root[p] = None /\ entry[p] = None /\ ~staged[p]
  /\ Stage(p) \in Making => root[p] = Own(p) /\ entry[p] = Own(p) /\ staged[p]
  /\ Stage(p) \in Preparing \cup Making =>
       /\ inside[Own(p)].foreign = None
       /\ \A m \in Members :
            /\ inside[Own(p)][m] = IF Stage(p) \in Unwritten(m) THEN None
                                   ELSE IF Stage(p) = Filling(m) THEN NewFile(p, m) ELSE Made(p, m)
            /\ owned[p][m] = IF Stage(p) \in Unwritten(m) THEN None ELSE <<p, m>>
  /\ Stage(p) \in Public => root[p] = Own(p) /\ entry[p] = None /\ ~staged[p]
  /\ Stage(p) \in Removing \ {"fail"} => root[p] = Own(p)

(* The directory of an exporter at the destination has been published.     *)
Published(p) ==
  entry[Dest] = Own(p) =>
    /\ Stage(p) \notin Preparing \cup Making /\ root[p] = Own(p) /\ entry[p] = None
    /\ \A m \in Members : owned[p][m] = <<p, m>>

Owners == \A p \in Exporters : Owns(p) /\ Published(p)

----------------------------------------------------------------------------
LEMMA StageGroups ==
  /\ Preparing = {"exists", "mkdtemp"}
  /\ Making = {"create_bundle", "fill_bundle", "create_sidecar", "fill_sidecar",
               "verify_staged", "publish"}
  /\ Public = {"confirm", "open", "root", "inventory", "guards", "read_bundle", "read_sidecar",
               "inventory_again", "bundle_again", "sidecar_again", "members_again",
               "root_again", "ancestry_again", "guards_again", "done"}
  /\ Removing = {"discard", "look", "check_bundle", "unlink_bundle", "check_sidecar",
                 "unlink_sidecar", "remaining", "check_root", "rmdir", "fail"}
  /\ Unwritten("bundle") = {"exists", "mkdtemp", "create_bundle"}
  /\ Unwritten("sidecar") = {"exists", "mkdtemp", "create_bundle", "fill_bundle", "create_sidecar"}
  /\ Filling("bundle") = "fill_bundle" /\ Filling("sidecar") = "fill_sidecar"
  /\ Members = {"bundle", "sidecar"}
BY MemberNames DEF Preparing, Making, Public, Looking, Finishing, Removing, Unwritten, Filling

LEMMA FilesMade ==
  ASSUME NEW p \in Exporters, NEW m \in Members
  PROVE  /\ NewFile(p, m) \in File /\ NewFile(p, m).id = <<p, m>> /\ NewFile(p, m).by = p
         /\ Made(p, m) \in File /\ Made(p, m).id = <<p, m>> /\ Made(p, m).by = p
         /\ Made(p, m).whole /\ NewFile(p, m).whole = FALSE
         /\ [NewFile(p, m) EXCEPT !.whole = TRUE] = Made(p, m)
<1>1. <<p, m>> \in Files BY Identities
<1>2. /\ NewFile(p, m) \in File /\ NewFile(p, m).id = <<p, m>> /\ NewFile(p, m).by = p
      /\ NewFile(p, m).whole = FALSE
  BY <1>1, FileFields DEF NewFile
<1>3. /\ Made(p, m) \in File /\ Made(p, m).id = <<p, m>> /\ Made(p, m).by = p /\ Made(p, m).whole
      /\ Made(p, m).whole = TRUE
  BY <1>1, FileFields DEF Made
<1> DEFINE f == NewFile(p, m)
           g == [f EXCEPT !.whole = TRUE]
<1>4. g \in File /\ g.id = <<p, m>> /\ g.by = p /\ g.whole = TRUE
  <2> HIDE DEF f
  <2>1. f \in File /\ f.id = <<p, m>> /\ f.by = p BY <1>2 DEF f
  <2>2. QED BY <2>1 DEF File
<1> HIDE DEF f, g
<1>5. g = Made(p, m) BY <1>3, <1>4, FileFields
<1>6. QED BY <1>2, <1>3, <1>5 DEF f, g

(* What the exporter writes in its sibling.                                *)
LEMMA Creating ==
  ASSUME Typed, Owners, NEW p \in Exporters, NEW m \in Members, Create(p, m),
         Stage(p) = IF m = "bundle" THEN "create_bundle" ELSE "create_sidecar"
  PROVE  Puts(Own(p), m, NewFile(p, m))
<1>1. entry[p] = Own(p) BY StageGroups DEF Owners, Owns
<1>2. Own(p) \in Roots BY Identities DEF Own
<1>3. NewFile(p, m) \in File BY FilesMade
<1>4. inside' = [inside EXCEPT ![Own(p)][m] = NewFile(p, m)] BY <1>1 DEF Create
<1>5. QED BY <1>2, <1>3, <1>4, Put DEF Typed, Disks

LEMMA Completing ==
  ASSUME Typed, Owners, NEW p \in Exporters, NEW m \in Members, Fill(p, m), Stage(p) = Filling(m)
  PROVE  Puts(Own(p), m, Made(p, m))
<1>1. entry[p] = Own(p) /\ inside[Own(p)][m] = NewFile(p, m)
  BY StageGroups DEF Owners, Owns
<1>2. Own(p) \in Roots BY Identities DEF Own
<1>3. Made(p, m) \in File /\ [NewFile(p, m) EXCEPT !.whole = TRUE] = Made(p, m) BY FilesMade
<1>4. inside' = [inside EXCEPT ![Own(p)][m] = [inside[Own(p)][m] EXCEPT !.whole = TRUE]]
  BY <1>1 DEF Fill
<1>5. inside' = [inside EXCEPT ![Own(p)][m] = Made(p, m)] BY <1>1, <1>3, <1>4
<1>6. QED BY <1>2, <1>3, <1>5, Put DEF Typed, Disks

LEMMA StagingShape ==
  ASSUME Typed, NEW p \in Exporters, MakeStaging(p)
  PROVE  Shape'
<1>1. p \in Processes /\ p \in Names /\ <<p, "root">> \in Roots BY Identities
<1>2. todo[p] # <<>> /\ Stage(p) = "mkdtemp" BY <1>1, Moves DEF MakeStaging, Typed, At
<1>3. Under' /\ Calls'
  BY <1>1, <1>2, PassedShape DEF MakeStaging, Typed, Locals, After
<1>4. QED BY <1>1, <1>3 DEF MakeStaging, Shape, Typed, Disks, Locals

LEMMA WritingShape ==
  ASSUME Typed, Owners, NEW p \in Exporters, WriteMembers(p)
  PROVE  Shape'
<1>1. p \in Processes BY Identities
<1>2. ASSUME NEW m \in Members, Create(p, m),
             At(p, IF m = "bundle" THEN "create_bundle" ELSE "create_sidecar")
      PROVE  Shape'
  <2>1. todo[p] # <<>> /\ Stage(p) = IF m = "bundle" THEN "create_bundle" ELSE "create_sidecar"
    BY <1>1, <1>2, Moves DEF Typed, At
  <2>2. inside' \in [Roots -> Contents] BY <1>2, <2>1, Creating DEF Puts
  <2>3. owned' \in [Exporters -> [Members -> Files \cup {None}]]
    BY <1>2, Identities DEF Create, Typed, Locals
  <2>4. After(p, Stage(p)) # "over" /\ Stage(p) \notin {"open", "read_bundle", "read_sidecar"}
    BY <2>1 DEF After
  <2>5. Under' /\ Calls' BY <1>1, <1>2, <2>1, <2>4, PassedShape DEF Create, Typed, Locals
  <2>6. QED BY <1>2, <2>2, <2>3, <2>5 DEF Create, Shape, Typed, Disks, Locals
<1>3. ASSUME NEW m \in Members, Fill(p, m), At(p, Filling(m))
      PROVE  Shape'
  <2>1. todo[p] # <<>> /\ Stage(p) = Filling(m) BY <1>1, <1>3, Moves DEF Typed, At
  <2>2. inside' \in [Roots -> Contents] BY <1>3, <2>1, Completing DEF Puts
  <2>3. After(p, Stage(p)) # "over" /\ Stage(p) \notin {"open", "read_bundle", "read_sidecar"}
    BY <2>1 DEF After, Filling
  <2>4. Under' /\ Calls' BY <1>1, <1>3, <2>1, <2>3, PassedShape DEF Fill, Typed, Locals
  <2>5. QED BY <1>3, <2>2, <2>4 DEF Fill, Shape, Typed, Disks, Locals
<1>4. QED BY <1>2, <1>3, StageGroups DEF WriteMembers

LEMMA PublishShape ==
  ASSUME Typed, NEW p \in Exporters, Publish(p)
  PROVE  Shape'
<1>1. p \in Processes /\ p \in Names /\ Dest \in Names /\ p # Dest BY Identities
<1>2. todo[p] # <<>> /\ Stage(p) = "publish" BY <1>1, Moves DEF Publish, Typed, At
<1>3. CASE entry[p] = root[p] /\ RenameNoReplace(p)
  <2>1. Under' /\ Calls'
    BY <1>1, <1>2, <1>3, PassedShape DEF Publish, Typed, Locals, After
  <2>2. QED BY <1>1, <1>3, <2>1 DEF Publish, Shape, Typed, Disks, Locals
<1>4. CASE ~(entry[p] = root[p] /\ RenameNoReplace(p))
  <2>1. Under' /\ Raised(p) BY <1>1, <1>4, Moves DEF Typed, Publish
  <2>2. QED BY <1>1, <1>2, <1>4, <2>1, RaisedShape DEF Publish, Shape, Typed, Disks, Locals
<1>5. QED BY <1>3, <1>4

(* A step of the cleanup that changes no more than the disk.               *)
LEMMA CleanupCalls ==
  ASSUME Typed, NEW p \in Exporters, NEW s, s # "over", s \notin Looking \cup Finishing,
         Moved(p, s), Stage(p) # "over", UNCHANGED <<seen, answer>>
  PROVE  Calls'
<1>1. p \in Processes BY Identities
<1>2. Sighted(p)' BY DEF Moved, Sighted, Looking, Finishing
<1>3. answer'[p] = None BY <1>1 DEF Typed, Calls
<1>4. QED BY <1>1, <1>2, <1>3, CallsMove

LEMMA CheckShape ==
  ASSUME Typed, NEW p \in Exporters, NEW c \in BOOLEAN, NEW n \in Nat, Check(p, c, n),
         todo[p] # <<>>, Skips(Stage(p), n)
  PROVE  /\ Shape'
         /\ Moved(p, IF c THEN After(p, Stage(p)) ELSE Reached(Stage(p)))
<1>1. p \in Processes BY Identities
<1>2. Under' /\ Moved(p, IF c THEN After(p, Stage(p)) ELSE Reached(Stage(p)))
  BY <1>1, Moves DEF Check, Typed
<1>3. Stage(p) \in {"look", "check_bundle", "check_sidecar", "check_root", "remaining"}
  BY DEF Skips
<1> DEFINE s == IF c THEN After(p, Stage(p)) ELSE Reached(Stage(p))
<1>4. s \in Removing BY <1>3, StageGroups DEF After, Reached
<1>5. s # "over" /\ s \notin Looking \cup Finishing BY <1>4 DEF Removing, Looking, Finishing
<1> HIDE DEF s
<1>6. Moved(p, s) BY <1>2 DEF s
<1>7. Calls' BY <1>3, <1>5, <1>6, CleanupCalls DEF Check
<1>8. QED BY <1>2, <1>7 DEF Check, Shape, Typed, Disks, Locals, disk

(* What the removal of the sibling leaves in it.                           *)
Left(p) ==
  [m \in DOMAIN Empty |->
     IF m \in Members /\ Holds(p, m) /\ inside[root[p]][m].id = owned[p][m]
     THEN None ELSE inside[root[p]][m]]

LEMMA LeftIs ==
  ASSUME Typed, NEW p \in Exporters, root[p] = Own(p)
  PROVE  /\ Left(p) \in Contents /\ Left(p).foreign = inside[Own(p)].foreign
         /\ \A m \in Members :
              Left(p)[m] = IF Holds(p, m) /\ inside[Own(p)][m].id = owned[p][m]
                           THEN None ELSE inside[Own(p)][m]
<1> DEFINE c == inside[Own(p)]
<1>1. c \in Contents BY Identities DEF Typed, Disks, Own
<1>2. Left(p) = [m \in DOMAIN Empty |->
                   IF m \in Members /\ Holds(p, m) /\ c[m].id = owned[p][m] THEN None ELSE c[m]]
  BY DEF Left
<1> HIDE DEF c
<1> DEFINE o(m) == Holds(p, m) /\ c[m].id = owned[p][m]
<1>3. Left(p) = [m \in {"bundle", "sidecar", "foreign"} |->
                   IF m \in {"bundle", "sidecar"} /\ o(m) THEN None ELSE c[m]]
  BY <1>2, MemberNames
<1> HIDE DEF o
<1>4. /\ Left(p) \in Contents /\ Left(p).foreign = c.foreign
      /\ \A m \in Members : Left(p)[m] = IF o(m) THEN None ELSE c[m]
  BY <1>1, <1>3, MemberNames DEF Contents
<1>5. QED BY <1>4 DEF c, o

LEMMA Discarding ==
  ASSUME Typed, NEW p \in Exporters, root[p] = Own(p), Discard(p)
  PROVE  /\ inside' \in [Roots -> Contents] /\ entry' \in [Names -> Roots \cup {None}]
         /\ \A d \in Roots \ {Own(p)} : inside'[d] = inside[d]
         /\ \A n \in Names \ {p} : entry'[n] = entry[n]
         /\ IF entry[p] = Own(p)
            THEN inside'[Own(p)] = Left(p) /\ entry'[p] = IF Left(p) = Empty THEN None ELSE Own(p)
            ELSE UNCHANGED disk
<1>1. Own(p) \in Roots /\ p \in Names BY Identities DEF Own
<1>2. Left(p) \in Contents BY LeftIs
<1>3. CASE entry[p] = Own(p)
  <2>1. /\ inside' = [inside EXCEPT ![Own(p)] = Left(p)]
        /\ entry' = IF Left(p) = Empty THEN [entry EXCEPT ![p] = None] ELSE entry
    BY <1>3 DEF Discard, Left
  <2>2. QED BY <1>1, <1>2, <1>3, <2>1 DEF Typed, Disks
<1>4. CASE entry[p] # Own(p)
  BY <1>1, <1>4 DEF Discard, Typed, Disks, disk
<1>5. QED BY <1>3, <1>4

LEMMA Unlinking ==
  ASSUME Typed, NEW p \in Exporters, NEW m \in Members, NEW stage, UnlinkMember(p, m, stage)
  PROVE  IF Holds(Dest, m) THEN entry[Dest] \in Roots /\ Puts(entry[Dest], m, None)
         ELSE UNCHANGED inside
<1>1. CASE Holds(Dest, m)
  <2>1. entry[Dest] \in Roots BY <1>1, Identities DEF Holds, There, Typed, Disks
  <2>2. inside' = [inside EXCEPT ![entry[Dest]][m] = None] BY <1>1 DEF UnlinkMember
  <2>3. QED BY <1>1, <2>1, <2>2, Put DEF Typed, Disks
<1>2. CASE ~Holds(Dest, m) BY <1>2 DEF UnlinkMember
<1>3. QED BY <1>1, <1>2

LEMMA RemovalShape ==
  ASSUME Typed, Owners, NEW p \in Exporters, RemoveOwned(p)
  PROVE  Shape'
<1>1. p \in Processes /\ p \in Names /\ Dest \in Names BY Identities
<1>2. CASE Discard(p)
  <2>1. todo[p] # <<>> /\ Stage(p) = "discard" BY <1>1, <1>2, Moves DEF Discard, Typed, At
  <2>2. Under' /\ Moved(p, "look") BY <1>1, <1>2, <2>1, Moves DEF Discard, Typed, After
  <2>3. Calls' BY <1>2, <2>1, <2>2, CleanupCalls DEF Discard, Looking, Finishing
  <2>4. root[p] = Own(p) BY <2>1, StageGroups DEF Owners, Owns
  <2>5. Disks' BY <1>2, <2>4, Discarding DEF Disks
  <2>6. QED BY <1>2, <2>2, <2>3, <2>5 DEF Discard, Shape, Typed, Locals
<1>3. CASE Look(p)
  <2>1. todo[p] # <<>> /\ Stage(p) = "look" BY <1>1, <1>3, Moves DEF Look, Typed, At
  <2>2. Check(p, entry[Dest] = root[p], 8) BY <1>3 DEF Look, RemoveDestination
  <2>3. QED BY <2>1, <2>2, CheckShape DEF Skips
<1>4. ASSUME NEW m \in Members, NEW stage \in {"check_bundle", "check_sidecar"}, CheckMember(p, m, stage)
      PROVE  Shape'
  <2> DEFINE c == Holds(Dest, m) /\ inside[entry[Dest]][m].id = owned[p][m]
  <2>1. todo[p] # <<>> /\ Stage(p) = stage BY <1>1, <1>4, Moves DEF CheckMember, Typed, At
  <2>2. Check(p, c, 2) /\ c \in BOOLEAN BY <1>4 DEF CheckMember, Holds
  <2> HIDE DEF c
  <2>3. QED BY <2>1, <2>2, CheckShape DEF Skips
<1>5. ASSUME NEW m \in Members, NEW stage \in {"unlink_bundle", "unlink_sidecar"}, UnlinkMember(p, m, stage)
      PROVE  Shape'
  <2>1. todo[p] # <<>> /\ Stage(p) = stage BY <1>1, <1>5, Moves DEF UnlinkMember, Typed, At
  <2>2. After(p, Stage(p)) \in {"check_sidecar", "remaining"} BY <2>1 DEF After
  <2>3. Under' /\ Moved(p, After(p, Stage(p))) BY <1>1, <1>5, <2>1, Moves DEF UnlinkMember, Typed
  <2>4. Calls' BY <1>5, <2>1, <2>2, <2>3, CleanupCalls DEF UnlinkMember, Looking, Finishing
  <2>5. inside' \in [Roots -> Contents] BY <1>5, Unlinking DEF Puts, Typed, Disks
  <2>6. QED BY <1>5, <2>3, <2>4, <2>5 DEF UnlinkMember, Shape, Typed, Disks, Locals
<1>6. CASE Remaining(p)
  <2>1. todo[p] # <<>> /\ Stage(p) = "remaining" BY <1>1, <1>6, Moves DEF Remaining, Typed, At
  <2> DEFINE c == There(Dest) /\ inside[entry[Dest]] = Empty
  <2>2. Check(p, c, 3) /\ c \in BOOLEAN BY <1>6 DEF Remaining, There
  <2> HIDE DEF c
  <2>3. QED BY <2>1, <2>2, CheckShape DEF Skips
<1>7. CASE CheckRoot(p)
  <2>1. todo[p] # <<>> /\ Stage(p) = "check_root" BY <1>1, <1>7, Moves DEF CheckRoot, Typed, At
  <2>2. Check(p, entry[Dest] = root[p], 2) BY <1>7 DEF CheckRoot
  <2>3. QED BY <2>1, <2>2, CheckShape DEF Skips
<1>8. CASE RemoveRoot(p)
  <2>1. todo[p] # <<>> /\ Stage(p) = "rmdir" BY <1>1, <1>8, Moves DEF RemoveRoot, Typed, At
  <2>2. Under' /\ Moved(p, "fail") BY <1>1, <1>8, <2>1, Moves DEF RemoveRoot, Typed, After
  <2>3. Calls' BY <1>8, <2>1, <2>2, CleanupCalls DEF RemoveRoot, Looking, Finishing
  <2>4. QED BY <1>1, <1>8, <2>2, <2>3 DEF RemoveRoot, Shape, Typed, Disks, Locals
<1>9. CASE Fail(p)
  <2>1. todo[p] # <<>> /\ Stage(p) = "fail" BY <1>1, <1>9, Moves DEF Fail, Typed, At
  <2>2. Under' /\ Moved(p, "over") BY <1>1, <1>9, <2>1, Moves DEF Fail, Typed, After
  <2>3. answer' = [answer EXCEPT ![p] = "failed"] /\ "failed" # None /\ "failed" \in Answers
    BY <1>9, ExportAssumption DEF Fail, Answers
  <2>4. Locals' BY <1>9, <2>3 DEF Fail, Typed, Locals
  <2>5. Sighted(p)' BY <2>2 DEF Moved, Sighted, Looking, Finishing
  <2>6. Calls' BY <1>1, <1>9, <2>2, <2>3, <2>5, CallsMove DEF Fail, Typed, Locals
  <2>7. QED BY <1>9, <2>2, <2>4, <2>6 DEF Fail, Shape, Typed, Disks, disk
<1>10. QED BY <1>2, <1>3, <1>4, <1>5, <1>6, <1>7, <1>8, <1>9, StageGroups DEF RemoveOwned

----------------------------------------------------------------------------
(* Faults, and the operator.                                               *)

(* After a call has been ended from outside.                               *)
LEMMA OverShape ==
  ASSUME Typed, NEW p \in Processes, NEW a \in Answers, todo' = [todo EXCEPT ![p] = <<>>],
         answer' = [answer EXCEPT ![p] = a],
         seen' \in [Processes -> Sight], \A q \in Processes : q # p => seen'[q] = seen[q]
  PROVE  Under' /\ Calls' /\ answer' \in [Processes -> Exporters \cup Answers \cup {None}]
<1>1. Under' /\ Moved(p, "over") BY Moves DEF Typed
<1>2. Sighted(p)' BY <1>1 DEF Moved, Sighted, Looking, Finishing
<1>3. answer' \in [Processes -> Exporters \cup Answers \cup {None}]
  BY DEF Typed, Locals
<1>4. answer'[p] # None BY ExportAssumption DEF Typed, Locals
<1>5. \A q \in Processes : q # p => answer'[q] = answer[q] BY DEF Typed, Locals
<1>6. Calls' BY <1>1, <1>2, <1>4, <1>5, CallsMove
<1>7. QED BY <1>1, <1>3, <1>6

(* Something was made, and nobody knows.                                   *)
LEMMA Unidentified ==
  ASSUME Typed, Owners, NEW p \in Exporters, InterruptedUnknown(p)
  PROVE  \/ /\ Stage(p) = "mkdtemp" /\ entry' = [entry EXCEPT ![p] = Own(p)] /\ UNCHANGED inside
         \/ \E m \in Members :
              /\ Stage(p) = IF m = "bundle" THEN "create_bundle" ELSE "create_sidecar"
              /\ Puts(Own(p), m, NewFile(p, m)) /\ UNCHANGED entry
<1>1. p \in Processes /\ Own(p) \in Roots BY Identities DEF Own
<1>2. CASE At(p, "mkdtemp") /\ entry' = [entry EXCEPT ![p] = <<p, "root">>] /\ UNCHANGED inside
  BY <1>1, <1>2, Moves DEF Typed, Own
<1>3. ASSUME NEW m \in Members, At(p, IF m = "bundle" THEN "create_bundle" ELSE "create_sidecar"),
             UNCHANGED entry, inside' = [inside EXCEPT ![root[p]][m] = NewFile(p, m)]
      PROVE  /\ Stage(p) = IF m = "bundle" THEN "create_bundle" ELSE "create_sidecar"
             /\ Puts(Own(p), m, NewFile(p, m)) /\ UNCHANGED entry
  <2>1. Stage(p) = IF m = "bundle" THEN "create_bundle" ELSE "create_sidecar"
    BY <1>1, <1>3, Moves DEF Typed
  <2>2. root[p] = Own(p) BY <2>1, StageGroups DEF Owners, Owns
  <2>3. NewFile(p, m) \in File BY FilesMade
  <2>4. inside' = [inside EXCEPT ![Own(p)][m] = NewFile(p, m)] BY <1>3, <2>2
  <2>5. Puts(Own(p), m, NewFile(p, m)) BY <1>1, <2>3, <2>4, Put DEF Typed, Disks
  <2>6. QED BY <1>3, <2>1, <2>5
<1>4. QED BY <1>2, <1>3, StageGroups DEF InterruptedUnknown

LEMMA FaultShape ==
  ASSUME Typed, Owners, NEW p \in Processes, Fault(p)
  PROVE  Shape'
<1>1. todo[p] # <<>> BY DEF Fault, Interrupted, Crash, InterruptedUnknown, InterruptedRename,
                            CleanupFails, Strike
<1>2. CASE Interrupted(p)
  <2>1. Under' /\ Raised(p) BY <1>2, Moves DEF Typed, Interrupted
  <2>2. QED BY <1>1, <1>2, <2>1, RaisedShape DEF Interrupted, Shape, Typed, Disks, Locals, disk
<1>3. CASE Crash(p)
  <2>1. seen' \in [Processes -> Sight] /\ \A q \in Processes : q # p => seen'[q] = seen[q]
    BY <1>3, NothingSeen DEF Crash, Typed, Locals
  <2>2. "crashed" \in Answers BY DEF Answers
  <2>3. Under' /\ Calls' /\ answer' \in [Processes -> Exporters \cup Answers \cup {None}]
    BY <1>3, <2>1, <2>2, OverShape DEF Crash
  <2>4. guard' \in [Exporters -> Roots \cup {None}] BY <1>3 DEF Crash, Typed, Locals
  <2>5. QED BY <1>3, <2>1, <2>3, <2>4 DEF Crash, Shape, Typed, Disks, Locals, disk
<1>4. CASE p \in Exporters /\ InterruptedUnknown(p)
  <2>1. Under' /\ Raised(p) BY <1>4, Moves DEF Typed, InterruptedUnknown
  <2>2. Calls' /\ seen' \in [Processes -> Sight]
        /\ answer' \in [Processes -> Exporters \cup Answers \cup {None}]
    BY <1>1, <2>1, RaisedShape
  <2>3. Own(p) \in Roots /\ p \in Names BY <1>4, Identities DEF Own
  <2>4. Disks' BY <1>4, <2>3, Unidentified DEF Disks, Typed, Puts
  <2>5. QED BY <1>4, <2>1, <2>2, <2>4 DEF InterruptedUnknown, Shape, Typed, Locals
<1>5. CASE p \in Exporters /\ InterruptedRename(p)
  <2>1. Under' /\ Raised(p) BY <1>5, Moves DEF Typed, InterruptedRename
  <2>2. Calls' /\ seen' \in [Processes -> Sight]
        /\ answer' \in [Processes -> Exporters \cup Answers \cup {None}]
    BY <1>1, <2>1, RaisedShape
  <2>3. p \in Names /\ Dest \in Names BY <1>5, Identities
  <2>4. Disks' BY <1>5, <2>3 DEF InterruptedRename, Disks, Typed, Locals
  <2>5. QED BY <1>5, <2>1, <2>2, <2>4 DEF InterruptedRename, Shape, Typed, Locals
<1>6. CASE p \in Exporters /\ CleanupFails(p)
  <2>1. /\ Stage(p) \in Cleaning \ {"fail"} /\ UNCHANGED <<disk, root, owned, staged, guard, seen>>
        /\ \/ todo' = [todo EXCEPT ![p] = <<"fail">>] /\ UNCHANGED answer
           \/ Advance(p) /\ Stage(p) \in {"discard", "unlink_bundle", "unlink_sidecar"} /\ UNCHANGED answer
           \/ todo' = [todo EXCEPT ![p] = <<>>] /\ answer' = [answer EXCEPT ![p] = "aborted"]
    BY <1>1, <1>6, Moves DEF Typed, CleanupFails
  <2>2. CASE todo' = [todo EXCEPT ![p] = <<>>] /\ answer' = [answer EXCEPT ![p] = "aborted"]
    <3>1. "aborted" \in Answers BY DEF Answers
    <3>2. seen' \in [Processes -> Sight] /\ \A q \in Processes : q # p => seen'[q] = seen[q]
      BY <2>1 DEF Typed, Locals
    <3>3. Under' /\ Calls' /\ answer' \in [Processes -> Exporters \cup Answers \cup {None}]
      BY <2>2, <3>1, <3>2, OverShape
    <3>4. QED BY <2>1, <3>2, <3>3 DEF Shape, Typed, Disks, Locals, disk
  <2>3. CASE UNCHANGED answer /\ todo' = [todo EXCEPT ![p] = <<"fail">>]
    <3>1. Under' /\ Moved(p, "fail") BY <1>6, <2>3, Moves DEF Typed
    <3>2. Stage(p) # "over" BY <1>1, Moves DEF Typed
    <3>3. Calls' BY <1>6, <2>1, <2>3, <3>1, <3>2, CleanupCalls DEF Looking, Finishing
    <3>4. QED BY <2>1, <2>3, <3>1, <3>3 DEF Shape, Typed, Disks, Locals, disk
  <2>4. CASE Advance(p) /\ Stage(p) \in {"discard", "unlink_bundle", "unlink_sidecar"} /\ UNCHANGED answer
    <3>1. Under' /\ Moved(p, After(p, Stage(p))) BY <1>1, <2>4, Moves DEF Typed
    <3>2. After(p, Stage(p)) \in {"look", "check_sidecar", "remaining"} BY <2>4 DEF After
    <3>3. Calls' BY <1>6, <2>1, <2>4, <3>1, <3>2, CleanupCalls DEF Looking, Finishing
    <3>4. QED BY <2>1, <2>4, <3>1, <3>3 DEF Shape, Typed, Disks, Locals, disk
  <2>5. QED BY <2>1, <2>2, <2>3, <2>4
<1>7. QED BY <1>2, <1>3, <1>4, <1>5, <1>6 DEF Fault

(* What an operator can do: to the destination, and to what stands there.  *)
(* An operator makes no file of an exporter: what is found where a file was *)
(* is that file, rewritten perhaps, or one of the operator's.              *)
Rewritten(d, m) ==
  inside'[d][m] # None =>
    inside[d][m] # None /\ inside'[d][m].id \in {inside[d][m].id, <<Owner, edits'>>}

LEMMA Editing ==
  ASSUME Typed, Edit
  PROVE  /\ Disks' /\ edits' = edits + 1 /\ edits' \in 1 .. MaxTrouble
         /\ \A n \in Names \ {Dest} : entry'[n] = entry[n]
         /\ entry'[Dest] \in {None, <<Owner, "root">>, entry[Dest]}
         /\ \A d \in Roots : d # <<Owner, "root">> /\ d # entry[Dest] => inside'[d] = inside[d]
         /\ \A d \in Roots, m \in Members : Rewritten(d, m)
         /\ UNCHANGED <<local, faults, struck>>
<1>1. Dest \in Names /\ <<Owner, "root">> \in Roots BY Identities
<1>2. entry \in [Names -> Roots \cup {None}] /\ inside \in [Roots -> Contents] BY DEF Typed, Disks
<1>3. edits' = edits + 1 /\ UNCHANGED <<local, faults, struck>> BY DEF Edit
<1>4. edits' \in 1 .. MaxTrouble
  <2>1. faults + 2 * edits + 1 < MaxTrouble BY DEF Edit
  <2>2. faults \in Nat /\ edits \in Nat /\ MaxTrouble \in Nat BY ExportAssumption DEF Typed, Bounded
  <2>3. QED BY <1>3, <2>1, <2>2
<1> DEFINE Goal ==
      /\ Disks' /\ \A n \in Names \ {Dest} : entry'[n] = entry[n]
      /\ entry'[Dest] \in {None, <<Owner, "root">>, entry[Dest]}
      /\ \A d \in Roots : d # <<Owner, "root">> /\ d # entry[Dest] => inside'[d] = inside[d]
      /\ \A d \in Roots, m \in Members : Rewritten(d, m)
<1>5. ASSUME There(Dest), entry' = [entry EXCEPT ![Dest] = None],
             inside' = [inside EXCEPT ![entry[Dest]] = Empty]
      PROVE  Goal
  BY <1>1, <1>2, <1>5, EmptyContents DEF Disks, Rewritten
<1>6. ASSUME NEW d \in Roots, inside' = [inside EXCEPT ![d].foreign = "present"]
      PROVE  /\ inside' \in [Roots -> Contents]
             /\ \A e \in Roots : e # d => inside'[e] = inside[e]
             /\ \A e \in Roots, m \in Members : inside'[e][m] = inside[e][m]
  <2> DEFINE c == [inside[d] EXCEPT !.foreign = "present"]
  <2>1. c \in Contents /\ \A m \in Members : c[m] = inside[d][m] BY <1>2, ForeignIsField
  <2>2. inside' = [inside EXCEPT ![d] = c] BY <1>6 DEF c
  <2> HIDE DEF c
  <2>3. QED BY <1>2, <2>1, <2>2
<1>7. ASSUME entry' = [entry EXCEPT ![Dest] = <<Owner, "root">>],
             inside' = [inside EXCEPT ![<<Owner, "root">>].foreign = "present"]
      PROVE  Goal
  <2>1. /\ inside' \in [Roots -> Contents]
        /\ \A e \in Roots : e # <<Owner, "root">> => inside'[e] = inside[e]
        /\ \A e \in Roots, m \in Members : inside'[e][m] = inside[e][m]
    BY <1>1, <1>6, <1>7
  <2>2. QED BY <1>1, <1>2, <1>7, <2>1 DEF Disks, Rewritten
<1>8. ASSUME There(Dest), inside' = [inside EXCEPT ![entry[Dest]].foreign = "present"],
             UNCHANGED entry
      PROVE  Goal
  <2>1. entry[Dest] \in Roots BY <1>1, <1>2, <1>8 DEF There
  <2>2. /\ inside' \in [Roots -> Contents]
        /\ \A e \in Roots : e # entry[Dest] => inside'[e] = inside[e]
        /\ \A e \in Roots, m \in Members : inside'[e][m] = inside[e][m]
    BY <1>6, <1>8, <2>1
  <2>3. QED BY <1>1, <1>2, <1>8, <2>2 DEF Disks, Rewritten
<1>9. ASSUME NEW m \in Members, NEW e \in Exporters, NEW replaced \in BOOLEAN, Holds(Dest, m),
             inside' = [inside EXCEPT ![entry[Dest]][m] =
                          [id |-> IF replaced THEN <<Owner, edits'>> ELSE @.id,
                           by |-> e, whole |-> TRUE]],
             UNCHANGED entry
      PROVE  Goal
  <2> DEFINE f == [id |-> IF replaced THEN <<Owner, edits'>> ELSE inside[entry[Dest]][m].id,
                   by |-> e, whole |-> TRUE]
  <2>1. entry[Dest] \in Roots BY <1>1, <1>2, <1>9 DEF Holds, There
  <2>2. inside[entry[Dest]][m].id \in Files
    <3>1. inside[entry[Dest]] \in Contents BY <1>2, <2>1
    <3>2. inside[entry[Dest]][m] \in File BY <1>9, <3>1, MemberIsField DEF Holds
    <3>3. QED BY <3>2, FileFields
  <2>3. <<Owner, edits'>> \in Files BY <1>4, Identities
  <2>4. f \in File BY <2>2, <2>3, FileFields
  <2>5. inside' = [inside EXCEPT ![entry[Dest]][m] = f] BY <1>9
  <2>8. f.id \in {inside[entry[Dest]][m].id, <<Owner, edits'>>} /\ inside[entry[Dest]][m] # None
    BY <1>9 DEF Holds
  <2> HIDE DEF f
  <2>6. Puts(entry[Dest], m, f) BY <1>2, <2>1, <2>4, <2>5, Put
  <2>9. \A d \in Roots, n \in Members : Rewritten(d, n)
    BY <2>1, <2>6, <2>8 DEF Puts, Rewritten
  <2>7. QED BY <1>1, <1>2, <1>9, <2>1, <2>6, <2>9 DEF Disks, Puts
<1> HIDE DEF Goal
<1>10. Goal BY <1>5, <1>7, <1>8, <1>9 DEF Edit
<1>11. QED BY <1>3, <1>4, <1>10 DEF Goal

LEMMA EditShape ==
  ASSUME Typed, Edit
  PROVE  Shape'
<1>1. Disks' /\ UNCHANGED local BY Editing
<1>2. Under' /\ \A q \in Processes : Stage(q)' = Stage(q)
  BY <1>1, NobodyMoves DEF Typed, local
<1>3. Calls' BY <1>1, <1>2 DEF Typed, Calls, Sighted, Valid, local
<1>4. Locals' BY <1>1 DEF Typed, Locals, local
<1>5. QED BY <1>1, <1>2, <1>3, <1>4 DEF Shape

(* One call is concerned, or the operator.                                 *)
LEMMA StepShape ==
  ASSUME Typed, Owners, NEW p \in Processes, Step(p)
  PROVE  Shape'
<1>1. ASSUME NEW c \in BOOLEAN, NEW s \in {"verify_staged", "confirm"}, At(p, s), Require(p, c)
      PROVE  Shape'
  <2>1. Stage(p) = s /\ todo[p] # <<>> BY <1>1, Moves DEF Typed, At
  <2>2. After(p, s) # "over" BY DEF After
  <2>3. QED BY <1>1, <2>1, <2>2, RequireShape
<1>2. CASE p \in Exporters /\ VerifyStaging(p)
  <2>1. Complete(p, p) \in BOOLEAN BY DEF Complete
  <2>2. QED BY <1>1, <1>2, <2>1 DEF VerifyStaging
<1>3. CASE p \in Exporters /\ Confirm(p) BY <1>1, <1>3 DEF Confirm
<1>4. QED BY <1>2, <1>3, ExistsShape, StagingShape, WritingShape, PublishShape, RemovalShape,
             VerificationShape, DoneShape DEF Step, Export

(* The bounds of what can go wrong.                                        *)
LEMMA StepBounds ==
  ASSUME NEW p \in Processes, Step(p)
  PROVE  UNCHANGED bounds
BY DEF Step, Export, Exists, MakeStaging, WriteMembers, Create, Fill, VerifyStaging, Publish, Confirm,
       RemoveOwned, Discard, Look, CheckMember, UnlinkMember, Remaining, CheckRoot, RemoveRoot, Fail,
       Check, Verify, Open, Root, Inventory, OpenMemberGuards, Read, InventoryAgain, ReadAgain,
       MembersAgain, RootAgain, AncestryAgain, GuardsAgain, Done, Require

LEMMA FaultBounds ==
  ASSUME NEW p \in Processes, Fault(p)
  PROVE  /\ todo[p] # <<>> /\ faults' = faults + 1 /\ UNCHANGED edits
         /\ faults + 2 * edits < MaxTrouble
         /\ struck' = struck \cup {<<p, Head(todo[p])>>}
BY DEF Fault, Interrupted, Crash, InterruptedUnknown, InterruptedRename, CleanupFails, Strike

LEMMA TypedStep ==
  ASSUME Typed, Owners, Next
  PROVE  Typed'
<1>1. Shape'
  BY EditShape, StepShape, FaultShape DEF Next
<1>2. Bounded'
  <2>1. CASE Edit
    <3>1. edits' \in 1 .. MaxTrouble /\ UNCHANGED faults BY <2>1, Editing
    <3>2. MaxTrouble \in Nat BY ExportAssumption
    <3>3. QED BY <3>1, <3>2 DEF Typed, Bounded
  <2>2. ASSUME NEW p \in Processes, Step(p) PROVE Bounded'
    BY <2>2, StepBounds DEF Typed, Bounded, bounds
  <2>3. ASSUME NEW p \in Processes, Fault(p) PROVE Bounded'
    <3>1. faults' = faults + 1 /\ UNCHANGED edits /\ faults + 2 * edits < MaxTrouble
      BY <2>3, FaultBounds
    <3>2. faults \in 0 .. MaxTrouble /\ edits \in 0 .. MaxTrouble /\ MaxTrouble \in Nat
      BY ExportAssumption DEF Typed, Bounded
    <3>3. QED BY <3>1, <3>2 DEF Bounded
  <2>4. QED BY <2>1, <2>2, <2>3 DEF Next
<1>3. Offers'
  <2>1. Now' \subseteq Exporters BY DEF Now
  <2>2. Observe BY DEF Next
  <2> HIDE DEF Now
  <2>3. QED BY <2>1, <2>2 DEF Observe, Typed, Offers
<1>4. QED BY <1>1, <1>2, <1>3 DEF Typed, Shape
----------------------------------------------------------------------------
(* Steps that leave the disk, and what a call knows of its own, alone.     *)

Still == UNCHANGED <<entry, inside, root, owned, staged>>
Struck(p) == struck' = struck \cup {<<p, Stage(p)>>}
Ends(p, a) == Moved(p, "over") /\ answer' = [answer EXCEPT ![p] = a]

(* What a step of the cleanup that looks has to find, to go on.            *)
Found(p) ==
  CASE Stage(p) \in {"look", "check_root"} -> entry[Dest] = root[p]
    [] Stage(p) = "check_bundle" ->
         Holds(Dest, "bundle") /\ inside[entry[Dest]].bundle.id = owned[p].bundle
    [] Stage(p) = "check_sidecar" ->
         Holds(Dest, "sidecar") /\ inside[entry[Dest]].sidecar.id = owned[p].sidecar
    [] Stage(p) = "remaining" -> There(Dest) /\ inside[entry[Dest]] = Empty

Passes(p) ==
  /\ Stage(p) \in {"exists", "verify_staged", "confirm"} \cup Looking \cup (Finishing \ {"done"})
  /\ Moved(p, After(p, Stage(p))) /\ UNCHANGED <<answer, struck>>
  /\ Stage(p) = "exists" => ~There(Dest)
  /\ Stage(p) = "confirm" => entry[Dest] = root[p]
Fails(p) == Stage(p) \in Working /\ Raised(p) /\ (UNCHANGED struck \/ Struck(p))
Succeeds(p) == Stage(p) = "done" /\ Ends(p, seen[p].bundle.by) /\ UNCHANGED struck
Refused(p) == Stage(p) = "exists" /\ There(Dest) /\ Ends(p, "refused") /\ UNCHANGED struck
Seeks(p) ==
  /\ p \in Exporters /\ UNCHANGED <<answer, struck>>
  /\ Stage(p) \in {"look", "check_bundle", "check_sidecar", "remaining", "check_root"}
  /\ Moved(p, IF Found(p) THEN After(p, Stage(p)) ELSE Reached(Stage(p)))
Finishes(p) == p \in Exporters /\ Stage(p) = "fail" /\ Ends(p, "failed") /\ UNCHANGED struck
Killed(p) == Stage(p) # "over" /\ Ends(p, "crashed") /\ Struck(p)
Hindered(p) ==
  /\ p \in Exporters /\ Stage(p) \in Removing \ {"fail"} /\ Struck(p)
  /\ \/ Moved(p, "fail") /\ UNCHANGED answer
     \/ /\ Stage(p) \in {"discard", "unlink_bundle", "unlink_sidecar"}
        /\ Moved(p, After(p, Stage(p))) /\ UNCHANGED answer
     \/ Ends(p, "aborted")

Quiet(p) ==
  Still /\ (Passes(p) \/ Fails(p) \/ Succeeds(p) \/ Refused(p) \/ Seeks(p) \/ Finishes(p)
            \/ Killed(p) \/ Hindered(p))

LEMMA CleaningIsRemoving ==
  /\ Cleaning = Removing
  /\ Range(RemoveDestination) = Removing \ {"discard", "fail"}
<1>1. /\ RemoveDestination[1] = "look" /\ RemoveDestination[2] = "check_bundle"
      /\ RemoveDestination[3] = "unlink_bundle" /\ RemoveDestination[4] = "check_sidecar"
      /\ RemoveDestination[5] = "unlink_sidecar" /\ RemoveDestination[6] = "remaining"
      /\ RemoveDestination[7] = "check_root" /\ RemoveDestination[8] = "rmdir"
  BY DEF RemoveDestination
<1>2. DOMAIN RemoveDestination = {1, 2, 3, 4, 5, 6, 7, 8} BY DEF RemoveDestination
<1>3. Range(RemoveDestination) = {"look", "check_bundle", "unlink_bundle", "check_sidecar",
                                  "unlink_sidecar", "remaining", "check_root", "rmdir"}
  <2> DEFINE R == RemoveDestination
  <2> HIDE DEF R
  <2>1. \A x : x \in Range(R) <=> \E i \in DOMAIN R : x = R[i]
    BY DEF Range
  <2>2. QED BY <1>1, <1>2, <2>1 DEF R
<1>4. QED BY <1>3 DEF Cleaning, Removing

LEMMA VerificationIsQuiet ==
  ASSUME Typed, NEW p \in Processes, Verify(p) \/ Done(p)
  PROVE  Quiet(p)
<1>1. ASSUME NEW s \in Looking \cup (Finishing \ {"done"}), At(p, s),
             (Advance(p) /\ UNCHANGED answer) \/ Raise(p),
             UNCHANGED <<disk, root, owned, staged, bounds>>
      PROVE  Quiet(p)
  <2>1. Stage(p) = s /\ todo[p] # <<>> BY <1>1, Moves DEF Typed, At
  <2>2. s # "exists" /\ s # "confirm" /\ s \in Working BY DEF Looking, Finishing, Working
  <2>3. CASE Advance(p) /\ UNCHANGED answer
    <3>1. Moved(p, After(p, Stage(p))) BY <2>1, <2>3, Moves DEF Typed
    <3>2. QED BY <1>1, <2>1, <2>2, <2>3, <3>1 DEF Quiet, Still, Passes, disk, bounds
  <2>4. CASE Raise(p)
    <3>1. Raised(p) BY <2>4, Moves DEF Typed
    <3>2. QED BY <1>1, <2>1, <2>2, <3>1 DEF Quiet, Still, Fails, disk, bounds
  <2>5. QED BY <1>1, <2>3, <2>4
<1>2. CASE Done(p)
  <2>1. Stage(p) = "done" /\ todo[p] # <<>> BY <1>2, Moves DEF Typed, Done, At
  <2>2. Moved(p, "over") BY <1>2, <2>1, Moves DEF Typed, Done, After
  <2>3. QED BY <1>2, <2>1, <2>2 DEF Done, Quiet, Still, Succeeds, Ends, disk, bounds
<1>3. CASE Open(p) BY <1>1, <1>3 DEF Open, Looking
<1>4. CASE Root(p) BY <1>1, <1>4 DEF Root, Looking
<1>5. CASE Inventory(p) BY <1>1, <1>5 DEF Inventory, Looking
<1>6. CASE OpenMemberGuards(p) BY <1>1, <1>6 DEF OpenMemberGuards, Looking
<1>7. CASE Read(p, "bundle", "read_bundle") \/ Read(p, "sidecar", "read_sidecar")
  BY <1>1, <1>7 DEF Read, Looking
<1>8. CASE InventoryAgain(p) BY <1>1, <1>8 DEF InventoryAgain, Require, Finishing
<1>9. CASE ReadAgain(p, "bundle", "bundle_again") \/ ReadAgain(p, "sidecar", "sidecar_again")
  BY <1>1, <1>9 DEF ReadAgain, Require, Finishing
<1>10. CASE MembersAgain(p) BY <1>1, <1>10 DEF MembersAgain, Require, Finishing
<1>11. CASE RootAgain(p) BY <1>1, <1>11 DEF RootAgain, Require, Finishing
<1>12. CASE AncestryAgain(p) BY <1>1, <1>12 DEF AncestryAgain, Require, Finishing
<1>13. CASE GuardsAgain(p) BY <1>1, <1>13 DEF GuardsAgain, Require, Finishing
<1>14. QED
  BY <1>2, <1>3, <1>4, <1>5, <1>6, <1>7, <1>8, <1>9, <1>10, <1>11, <1>12, <1>13 DEF Verify

LEMMA ExportIsQuiet ==
  ASSUME Typed, NEW p \in Exporters,
         Exists(p) \/ VerifyStaging(p) \/ Confirm(p)
         \/ (Publish(p) /\ ~(entry[p] = root[p] /\ RenameNoReplace(p)))
  PROVE  Quiet(p)
<1>1. p \in Processes BY Identities
<1>2. CASE Exists(p)
  <2>1. Stage(p) = "exists" /\ todo[p] # <<>> BY <1>1, <1>2, Moves DEF Typed, Exists, At
  <2>2. CASE There(Dest)
    <3>1. Moved(p, "over") BY <1>1, <1>2, <2>2, Moves DEF Typed, Exists
    <3>2. QED BY <1>2, <2>1, <2>2, <3>1 DEF Exists, Quiet, Still, Refused, Ends, disk, bounds
  <2>3. CASE ~There(Dest)
    <3>1. Moved(p, After(p, Stage(p))) BY <1>1, <1>2, <2>1, <2>3, Moves DEF Typed, Exists
    <3>2. QED BY <1>2, <2>1, <2>3, <3>1 DEF Exists, Quiet, Still, Passes, disk, bounds
  <2>4. QED BY <2>2, <2>3
<1>3. ASSUME NEW s \in {"verify_staged", "confirm"}, NEW c \in BOOLEAN, At(p, s), Require(p, c),
             s = "confirm" => c = (entry[Dest] = root[p])
      PROVE  Quiet(p)
  <2>1. Stage(p) = s /\ todo[p] # <<>> BY <1>1, <1>3, Moves DEF Typed, At
  <2>2. s \in Working /\ s # "exists" BY DEF Working, Making
  <2>3. CASE c /\ Advance(p) /\ UNCHANGED <<seen, answer>>
    <3>1. Moved(p, After(p, Stage(p))) BY <1>1, <2>1, <2>3, Moves DEF Typed
    <3>2. QED BY <1>3, <2>1, <2>2, <2>3, <3>1 DEF Require, Quiet, Still, Passes, disk, bounds
  <2>4. CASE Raise(p)
    <3>1. Raised(p) BY <1>1, <2>4, Moves DEF Typed
    <3>2. QED BY <1>3, <2>1, <2>2, <3>1 DEF Require, Quiet, Still, Fails, disk, bounds
  <2>5. QED BY <1>3, <2>3, <2>4 DEF Require
<1>4. CASE VerifyStaging(p)
  <2>1. Complete(p, p) \in BOOLEAN BY DEF Complete
  <2>2. QED BY <1>3, <1>4, <2>1 DEF VerifyStaging
<1>5. CASE Confirm(p) BY <1>3, <1>5 DEF Confirm
<1>6. CASE Publish(p) /\ ~(entry[p] = root[p] /\ RenameNoReplace(p))
  <2>1. Stage(p) = "publish" BY <1>1, <1>6, Moves DEF Typed, Publish
  <2>2. Raised(p) BY <1>1, <1>6, Moves DEF Typed, Publish
  <2>3. QED BY <1>6, <2>1, <2>2 DEF Publish, Quiet, Still, Fails, disk, bounds, Working, Making
<1>7. QED BY <1>2, <1>4, <1>5, <1>6

LEMMA CheckIsQuiet ==
  ASSUME Typed, NEW p \in Exporters,
         \/ Look(p) \/ Remaining(p) \/ CheckRoot(p) \/ Fail(p)
         \/ CheckMember(p, "bundle", "check_bundle") \/ CheckMember(p, "sidecar", "check_sidecar")
  PROVE  Quiet(p)
<1>1. p \in Processes BY Identities
<1>2. ASSUME NEW s, At(p, s), NEW c \in BOOLEAN, NEW n \in Nat, Skips(s, n), Check(p, c, n),
             Stage(p) = s => c = Found(p)
      PROVE  Quiet(p)
  <2>1. Stage(p) = s /\ todo[p] # <<>> BY <1>1, <1>2, Moves DEF Typed, At
  <2>2. Moved(p, IF c THEN After(p, Stage(p)) ELSE Reached(Stage(p)))
    BY <1>2, <2>1, CheckShape
  <2>3. s \in {"look", "check_bundle", "check_sidecar", "remaining", "check_root"}
    BY <1>2 DEF Skips
  <2>4. Seeks(p) BY <1>2, <2>1, <2>2, <2>3 DEF Check, Seeks, bounds
  <2>5. QED BY <1>2, <2>4 DEF Check, Quiet, Still, disk
<1>3. CASE Look(p)
  <2>1. Check(p, entry[Dest] = root[p], 8) /\ At(p, "look") BY <1>3 DEF Look, RemoveDestination
  <2>2. Stage(p) = "look" => (entry[Dest] = root[p]) = Found(p) BY DEF Found
  <2>3. QED BY <1>2, <2>1, <2>2 DEF Skips
<1>4. CASE CheckRoot(p)
  <2>1. Stage(p) = "check_root" => (entry[Dest] = root[p]) = Found(p) BY DEF Found
  <2>2. QED BY <1>2, <1>4, <2>1 DEF CheckRoot, Skips
<1>5. CASE Remaining(p)
  <2> DEFINE c == There(Dest) /\ inside[entry[Dest]] = Empty
  <2>1. At(p, "remaining") /\ Check(p, c, 3) /\ c \in BOOLEAN BY <1>5 DEF Remaining, There
  <2>2. Stage(p) = "remaining" => c = Found(p) BY DEF Found
  <2> HIDE DEF c
  <2>3. QED BY <1>2, <2>1, <2>2 DEF Skips
<1>6. CASE CheckMember(p, "bundle", "check_bundle")
  <2> DEFINE c == Holds(Dest, "bundle") /\ inside[entry[Dest]]["bundle"].id = owned[p]["bundle"]
  <2>1. At(p, "check_bundle") /\ Check(p, c, 2) /\ c \in BOOLEAN BY <1>6 DEF CheckMember, Holds
  <2>2. Stage(p) = "check_bundle" => c = Found(p) BY DEF Found
  <2> HIDE DEF c
  <2>3. QED BY <1>2, <2>1, <2>2 DEF Skips
<1>7. CASE CheckMember(p, "sidecar", "check_sidecar")
  <2> DEFINE c == Holds(Dest, "sidecar") /\ inside[entry[Dest]]["sidecar"].id = owned[p]["sidecar"]
  <2>1. At(p, "check_sidecar") /\ Check(p, c, 2) /\ c \in BOOLEAN BY <1>7 DEF CheckMember, Holds
  <2>2. Stage(p) = "check_sidecar" => c = Found(p) BY DEF Found
  <2> HIDE DEF c
  <2>3. QED BY <1>2, <2>1, <2>2 DEF Skips
<1>8. CASE Fail(p)
  <2>1. Stage(p) = "fail" /\ todo[p] # <<>> BY <1>1, <1>8, Moves DEF Typed, Fail, At
  <2>2. Moved(p, "over") BY <1>1, <1>8, <2>1, Moves DEF Typed, Fail, After
  <2>3. QED BY <1>8, <2>1, <2>2 DEF Fail, Quiet, Still, Finishes, Ends, disk, bounds
<1>9. QED BY <1>3, <1>4, <1>5, <1>6, <1>7, <1>8

LEMMA FaultIsQuiet ==
  ASSUME Typed, NEW p \in Processes,
         Interrupted(p) \/ Crash(p) \/ (p \in Exporters /\ CleanupFails(p))
  PROVE  Quiet(p)
<1>1. todo[p] # <<>> /\ Stage(p) = Head(todo[p]) /\ Stage(p) \in Stages /\ Stage(p) # "over"
  <2>1. todo[p] # <<>> BY DEF Interrupted, Crash, CleanupFails, Strike
  <2>2. QED BY <2>1, Moves DEF Typed
<1>2. Struck(p) BY <1>1 DEF Interrupted, Crash, CleanupFails, Strike, Struck
<1>3. CASE Interrupted(p)
  <2>1. Stage(p) \in Working BY <1>1, <1>3, CleaningIsRemoving, StageValues DEF Interrupted
  <2>2. Raised(p) BY <1>3, Moves DEF Typed, Interrupted
  <2>3. QED BY <1>2, <1>3, <2>1, <2>2 DEF Interrupted, Quiet, Still, Fails, disk
<1>4. CASE Crash(p)
  <2>1. Moved(p, "over") BY <1>4, Moves DEF Typed, Crash
  <2>2. QED BY <1>1, <1>2, <1>4, <2>1 DEF Crash, Quiet, Still, Killed, Ends, disk
<1>5. CASE p \in Exporters /\ CleanupFails(p)
  <2>1. Stage(p) \in Removing \ {"fail"} BY <1>1, <1>5, CleaningIsRemoving DEF CleanupFails
  <2>2. /\ todo' = [todo EXCEPT ![p] = <<"fail">>] => Moved(p, "fail")
        /\ todo' = [todo EXCEPT ![p] = <<>>] => Moved(p, "over")
        /\ Advance(p) => Moved(p, After(p, Stage(p)))
    BY <1>1, <1>5, Moves DEF Typed
  <2>3. Hindered(p) BY <1>1, <1>2, <1>5, <2>1, <2>2 DEF CleanupFails, Hindered, Ends
  <2>4. QED BY <1>5, <2>3 DEF CleanupFails, Quiet, Still, disk
<1>6. QED BY <1>3, <1>4, <1>5
----------------------------------------------------------------------------
(* Steps that change the disk.                                             *)

Creation(m) == IF m = "bundle" THEN "create_bundle" ELSE "create_sidecar"
Unlink(m) == IF m = "bundle" THEN "unlink_bundle" ELSE "unlink_sidecar"

MakesSibling(p) ==
  /\ Stage(p) = "mkdtemp" /\ Moved(p, "create_bundle")
  /\ entry' = [entry EXCEPT ![p] = Own(p)] /\ staged' = [staged EXCEPT ![p] = TRUE]
  /\ root' = [root EXCEPT ![p] = Own(p)]
  /\ UNCHANGED <<inside, owned, answer, struck>>
Creates(p, m) ==
  /\ Stage(p) = Creation(m) /\ Moved(p, Filling(m))
  /\ Puts(Own(p), m, NewFile(p, m)) /\ owned' = [owned EXCEPT ![p][m] = <<p, m>>]
  /\ UNCHANGED <<entry, root, staged, answer, struck>>
Completes(p, m) ==
  /\ Stage(p) = Filling(m) /\ Moved(p, After(p, Stage(p)))
  /\ Puts(Own(p), m, Made(p, m))
  /\ UNCHANGED <<entry, root, owned, staged, answer, struck>>
Renames(p) ==
  /\ Stage(p) = "publish" /\ entry[p] = root[p] /\ ~There(Dest)
  /\ entry' = [entry EXCEPT ![p] = None, ![Dest] = root[p]]
  /\ \/ Moved(p, "confirm") /\ staged' = [staged EXCEPT ![p] = FALSE] /\ UNCHANGED <<answer, struck>>
     \/ Raised(p) /\ Struck(p) /\ UNCHANGED staged
  /\ UNCHANGED <<inside, root, owned>>
Discards(p) ==
  /\ Stage(p) = "discard" /\ Moved(p, "look")
  /\ \A d \in Roots \ {Own(p)} : inside'[d] = inside[d]
  /\ \A n \in Names \ {p} : entry'[n] = entry[n]
  /\ IF entry[p] = Own(p)
     THEN inside'[Own(p)] = Left(p) /\ entry'[p] = IF Left(p) = Empty THEN None ELSE Own(p)
     ELSE UNCHANGED disk
  /\ UNCHANGED <<root, owned, staged, answer, struck>>
Unlinks(p, m) ==
  /\ Stage(p) = Unlink(m) /\ Moved(p, After(p, Stage(p)))
  /\ IF Holds(Dest, m) THEN entry[Dest] \in Roots /\ Puts(entry[Dest], m, None)
     ELSE UNCHANGED inside
  /\ UNCHANGED <<entry, root, owned, staged, answer, struck>>
RemovesRoot(p) ==
  /\ Stage(p) = "rmdir" /\ Moved(p, "fail")
  /\ entry' = IF There(Dest) /\ inside[entry[Dest]] = Empty
              THEN [entry EXCEPT ![Dest] = None] ELSE entry
  /\ UNCHANGED <<inside, root, owned, staged, answer, struck>>
Loses(p) ==
  /\ Raised(p) /\ Struck(p) /\ UNCHANGED <<root, owned, staged>>
  /\ \/ Stage(p) = "mkdtemp" /\ entry' = [entry EXCEPT ![p] = Own(p)] /\ UNCHANGED inside
     \/ \E m \in Members :
          Stage(p) = Creation(m) /\ Puts(Own(p), m, NewFile(p, m)) /\ UNCHANGED entry

Loud(p) ==
  \/ MakesSibling(p) \/ Renames(p) \/ Discards(p) \/ RemovesRoot(p) \/ Loses(p)
  \/ \E m \in Members : Creates(p, m) \/ Completes(p, m) \/ Unlinks(p, m)

LEMMA ExportIsLoud ==
  ASSUME Typed, Owners, NEW p \in Exporters,
         \/ MakeStaging(p) \/ WriteMembers(p) \/ Discard(p) \/ RemoveRoot(p)
         \/ Publish(p) /\ entry[p] = root[p] /\ RenameNoReplace(p)
         \/ UnlinkMember(p, "bundle", "unlink_bundle") \/ UnlinkMember(p, "sidecar", "unlink_sidecar")
         \/ InterruptedUnknown(p) \/ InterruptedRename(p)
  PROVE  Loud(p)
<1>1. p \in Processes BY Identities
<1>2. CASE MakeStaging(p)
  <2>1. Stage(p) = "mkdtemp" /\ Moved(p, "create_bundle")
    BY <1>1, <1>2, Moves DEF Typed, MakeStaging, At, After
  <2>2. QED BY <1>2, <2>1 DEF MakeStaging, Loud, MakesSibling, Own, bounds
<1>3. ASSUME NEW m \in Members, Create(p, m), At(p, Creation(m)) PROVE Loud(p)
  <2>1. Stage(p) = Creation(m) BY <1>1, <1>3, Moves DEF Typed
  <2>2. Moved(p, After(p, Stage(p))) BY <1>1, <1>3, Moves DEF Typed, At, Create
  <2>3. Puts(Own(p), m, NewFile(p, m)) BY <1>3, <2>1, Creating DEF Creation
  <2>4. After(p, Creation(m)) = Filling(m) BY StageGroups DEF After, Creation
  <2>5. Creates(p, m) BY <1>3, <2>1, <2>2, <2>3, <2>4 DEF Create, Creates, bounds
  <2>6. QED BY <2>5 DEF Loud
<1>4. ASSUME NEW m \in Members, Fill(p, m), At(p, Filling(m)) PROVE Loud(p)
  <2>1. Stage(p) = Filling(m) BY <1>1, <1>4, Moves DEF Typed
  <2>2. Moved(p, After(p, Stage(p))) BY <1>1, <1>4, Moves DEF Typed, At, Fill
  <2>3. Puts(Own(p), m, Made(p, m)) BY <1>4, <2>1, Completing
  <2>4. Completes(p, m) BY <1>4, <2>1, <2>2, <2>3 DEF Fill, Completes, bounds
  <2>5. QED BY <2>4 DEF Loud
<1>5. CASE WriteMembers(p) BY <1>3, <1>4, <1>5, StageGroups DEF WriteMembers, Creation
<1>6. CASE Publish(p) /\ entry[p] = root[p] /\ RenameNoReplace(p)
  <2>1. Stage(p) = "publish" /\ Moved(p, "confirm")
    BY <1>1, <1>6, Moves DEF Typed, Publish, At, After
  <2>2. QED BY <1>6, <2>1 DEF Publish, Loud, Renames, bounds, RenameNoReplace
<1>7. CASE Discard(p)
  <2>1. Stage(p) = "discard" /\ Moved(p, "look")
    BY <1>1, <1>7, Moves DEF Typed, Discard, At, After
  <2>2. root[p] = Own(p) BY <2>1, StageGroups DEF Owners, Owns
  <2>3. QED BY <1>7, <2>1, <2>2, Discarding DEF Discard, Loud, Discards, bounds
<1>8. CASE RemoveRoot(p)
  <2>1. Stage(p) = "rmdir" /\ Moved(p, "fail")
    BY <1>1, <1>8, Moves DEF Typed, RemoveRoot, At, After
  <2>2. QED BY <1>8, <2>1 DEF RemoveRoot, Loud, RemovesRoot, bounds
<1>9. ASSUME NEW m \in Members, UnlinkMember(p, m, Unlink(m)) PROVE Loud(p)
  <2>1. Stage(p) = Unlink(m) /\ Moved(p, After(p, Stage(p)))
    BY <1>1, <1>9, Moves DEF Typed, UnlinkMember, At
  <2>2. Unlinks(p, m) BY <1>9, <2>1, Unlinking DEF UnlinkMember, Unlinks, bounds
  <2>3. QED BY <2>2 DEF Loud
<1>10. CASE UnlinkMember(p, "bundle", "unlink_bundle") \/ UnlinkMember(p, "sidecar", "unlink_sidecar")
  BY <1>9, <1>10, StageGroups DEF Unlink
<1>11. CASE InterruptedUnknown(p)
  <2>1. Raised(p) BY <1>1, <1>11, Moves DEF Typed, InterruptedUnknown
  <2>2. Struck(p) BY <1>1, <1>11, Moves DEF Typed, InterruptedUnknown, Strike, Struck
  <2>3. QED BY <1>11, <2>1, <2>2, Unidentified DEF InterruptedUnknown, Loud, Loses, Creation
<1>12. CASE InterruptedRename(p)
  <2>1. Raised(p) /\ Stage(p) = "publish" BY <1>1, <1>12, Moves DEF Typed, InterruptedRename
  <2>2. Struck(p) BY <1>1, <1>12, Moves DEF Typed, InterruptedRename, Strike, Struck
  <2>3. QED BY <1>12, <2>1, <2>2 DEF InterruptedRename, Loud, Renames
<1>13. QED BY <1>2, <1>5, <1>6, <1>7, <1>8, <1>10, <1>11, <1>12

(* Every step is one of these, or the operator's.                          *)
LEMMA Steps ==
  ASSUME Typed, Owners, Next
  PROVE  Edit \/ (UNCHANGED edits /\ \E p \in Processes : Quiet(p) \/ (p \in Exporters /\ Loud(p)))
<1>1. ASSUME NEW p \in Processes, Step(p)
      PROVE  UNCHANGED edits /\ (Quiet(p) \/ (p \in Exporters /\ Loud(p)))
  <2>1. UNCHANGED edits BY <1>1, StepBounds DEF bounds
  <2>2. CASE Verify(p) \/ Done(p) BY <2>1, <2>2, VerificationIsQuiet
  <2>3. CASE p \in Exporters /\ Export(p)
    BY <2>1, <2>3, ExportIsQuiet, CheckIsQuiet, ExportIsLoud DEF Export, RemoveOwned
  <2>4. QED BY <1>1, <2>2, <2>3 DEF Step
<1>2. ASSUME NEW p \in Processes, Fault(p)
      PROVE  UNCHANGED edits /\ (Quiet(p) \/ (p \in Exporters /\ Loud(p)))
  <2>1. UNCHANGED edits BY <1>2, FaultBounds
  <2>2. QED BY <1>2, <2>1, FaultIsQuiet, ExportIsLoud DEF Fault
<1>3. QED BY <1>1, <1>2 DEF Next
----------------------------------------------------------------------------
(* Ownership is kept.                                                      *)

Kept(q) ==
  /\ Stage(q)' = Stage(q) /\ root'[q] = root[q] /\ owned'[q] = owned[q] /\ staged'[q] = staged[q]
  /\ entry'[q] = entry[q]
  /\ Stage(q) \in Preparing \cup Making => inside'[Own(q)] = inside[Own(q)]
  /\ entry'[Dest] = Own(q) => entry[Dest] = Own(q)

LEMMA KeptOwns ==
  ASSUME NEW q \in Exporters, Owns(q), Published(q), Kept(q)
  PROVE  Owns(q)' /\ Published(q)'
<1>1. Owns(q)' BY DEF Owns, Kept, NewFile, Made
<1>2. Published(q)' BY DEF Published, Kept
<1>3. QED BY <1>1, <1>2

LEMMA QuietFlow ==
  ASSUME NEW p \in Exporters, Owns(p), Quiet(p)
  PROVE  \E s : /\ Moved(p, s)
                /\ s \in Preparing \cup Making =>
                     \/ Stage(p) = "exists" /\ s = "mkdtemp"
                     \/ Stage(p) = "verify_staged" /\ s = "publish"
                /\ s \in Public => Stage(p) \in Public
                /\ s \in Removing \ {"fail"} => root[p] = Own(p)
<1> DEFINE Good(s) ==
      /\ s \in Preparing \cup Making =>
           \/ Stage(p) = "exists" /\ s = "mkdtemp"
           \/ Stage(p) = "verify_staged" /\ s = "publish"
      /\ s \in Public => Stage(p) \in Public
      /\ s \in Removing \ {"fail"} => root[p] = Own(p)
<1>1. CASE Passes(p)
  <2>1. Moved(p, After(p, Stage(p))) BY <1>1 DEF Passes
  <2>2. Stage(p) \in {"exists", "verify_staged"} \cup Public
    BY <1>1 DEF Passes, Public
  <2>3. Good(After(p, Stage(p))) BY <2>2, StageGroups DEF After
  <2>4. QED BY <2>1, <2>3
<1>2. CASE Fails(p)
  <2>1. Moved(p, Fallback(p)) BY <1>2 DEF Fails, Raised
  <2>2. Good(Fallback(p)) BY StageGroups DEF Fallback, Owns
  <2>3. QED BY <2>1, <2>2
<1>3. CASE Succeeds(p) \/ Refused(p) \/ Finishes(p) \/ Killed(p)
  <2>1. Moved(p, "over") BY <1>3 DEF Succeeds, Refused, Finishes, Killed, Ends
  <2>2. Good("over") BY StageGroups
  <2>3. QED BY <2>1, <2>2
<1>4. CASE Seeks(p)
  <2>1. PICK s : Moved(p, s) /\ s \in {After(p, Stage(p)), Reached(Stage(p))} BY <1>4 DEF Seeks
  <2>2. Stage(p) \in {"look", "check_bundle", "check_sidecar", "remaining", "check_root"}
    BY <1>4 DEF Seeks
  <2>3. root[p] = Own(p) BY <2>2, StageGroups DEF Owns
  <2>4. s \in Removing BY <2>1, <2>2, StageGroups DEF After, Reached
  <2>5. s \notin Preparing \cup Making \cup Public BY <2>4, StageGroups
  <2>6. QED BY <2>1, <2>3, <2>5
<1>5. CASE Hindered(p)
  <2>1. PICK s : Moved(p, s) /\ s \in {"fail", "look", "check_sidecar", "remaining", "over"}
    BY <1>5, StageGroups DEF Hindered, Ends, After
  <2>2. Stage(p) \in Removing \ {"fail"} BY <1>5 DEF Hindered
  <2>3. root[p] = Own(p) BY <2>2 DEF Owns
  <2>4. s \notin Preparing \cup Making \cup Public BY <2>1, StageGroups
  <2>5. QED BY <2>1, <2>3, <2>4
<1>6. QED BY <1>1, <1>2, <1>3, <1>4, <1>5 DEF Quiet

LEMMA QuietOwners ==
  ASSUME Owners, NEW p \in Processes, Quiet(p)
  PROVE  Owners'
<1>1. ASSUME NEW q \in Exporters, q # p PROVE Kept(q)
  <2>1. q \in Processes BY Identities
  <2>2. Stage(q)' = Stage(q)
    BY <1>1, <2>1 DEF Quiet, Passes, Fails, Raised, Succeeds, Refused, Seeks, Finishes, Killed, Hindered,
                      Ends, Moved
  <2>3. QED BY <2>2 DEF Kept, Quiet, Still
<1>2. ASSUME p \in Exporters PROVE Owns(p)' /\ Published(p)'
  <2>1. Owns(p) /\ Published(p) BY <1>2 DEF Owners
  <2>2. PICK s : /\ Moved(p, s)
                 /\ s \in Preparing \cup Making =>
                      \/ Stage(p) = "exists" /\ s = "mkdtemp"
                      \/ Stage(p) = "verify_staged" /\ s = "publish"
                 /\ s \in Public => Stage(p) \in Public
                 /\ s \in Removing \ {"fail"} => root[p] = Own(p)
    BY <1>2, <2>1, QuietFlow
  <2>3. Stage(p)' = s /\ Still BY <2>2 DEF Moved, Quiet
  <2>4. Published(p)'
    BY <2>1, <2>2, <2>3, StageGroups DEF Published, Still
  <2>5. Owns(p)'
    <3>1. CASE s \notin Preparing \cup Making BY <2>1, <2>2, <2>3, <3>1 DEF Owns, Still
    <3>2. CASE s = "mkdtemp" /\ Stage(p) = "exists"
      BY <2>1, <2>3, <3>2, StageGroups DEF Owns, Still
    <3>3. CASE s = "publish" /\ Stage(p) = "verify_staged"
      BY <2>1, <2>3, <3>3, StageGroups DEF Owns, Still
    <3>4. QED BY <2>2, <3>1, <3>2, <3>3
  <2>6. QED BY <2>4, <2>5
<1>3. QED BY <1>1, <1>2, KeptOwns DEF Owners

LEMMA LoudOthers ==
  ASSUME Typed, Owners, NEW p \in Exporters, Loud(p), NEW q \in Exporters, q # p
  PROVE  Kept(q)
<1>1. /\ p \in Processes /\ q \in Processes /\ p \in Names /\ q \in Names /\ Dest \in Names
      /\ q # Dest /\ p # Dest /\ Own(p) # Own(q) /\ Own(p) \in Roots /\ Own(q) \in Roots
      /\ Own(q) # None
  BY Identities DEF Own
<1>2. Owns(p) /\ Published(p) /\ Owns(q) /\ Published(q) BY DEF Owners
<1>3. entry \in [Names -> Roots \cup {None}] BY DEF Typed, Disks
<1>4. /\ root \in [Exporters -> Roots \cup {None}] /\ staged \in [Exporters -> BOOLEAN]
      /\ owned \in [Exporters -> [Members -> Files \cup {None}]]
  BY DEF Typed, Locals
<1>5. Stage(q)' = Stage(q)
  BY <1>1 DEF Loud, MakesSibling, Renames, Discards, RemovesRoot, Loses, Creates, Completes, Unlinks,
              Raised, Moved
<1>6. CASE MakesSibling(p) BY <1>1, <1>3, <1>4, <1>5, <1>6 DEF MakesSibling, Kept
<1>7. CASE Renames(p) BY <1>1, <1>2, <1>3, <1>4, <1>5, <1>7 DEF Renames, Kept, Owns
<1>8. CASE Discards(p) BY <1>1, <1>3, <1>5, <1>8 DEF Discards, Kept, disk
<1>9. CASE RemovesRoot(p) BY <1>1, <1>3, <1>5, <1>9 DEF RemovesRoot, Kept
<1>10. CASE Loses(p) BY <1>1, <1>3, <1>5, <1>10 DEF Loses, Kept, Puts
<1>11. ASSUME NEW m \in Members, Creates(p, m) PROVE Kept(q)
  BY <1>1, <1>4, <1>5, <1>11 DEF Creates, Kept, Puts
<1>12. ASSUME NEW m \in Members, Completes(p, m) PROVE Kept(q)
  BY <1>1, <1>5, <1>12 DEF Completes, Kept, Puts
<1>13. ASSUME NEW m \in Members, Unlinks(p, m) PROVE Kept(q)
  BY <1>1, <1>2, <1>5, <1>13 DEF Unlinks, Kept, Puts, Published
<1>14. QED BY <1>6, <1>7, <1>8, <1>9, <1>10, <1>11, <1>12, <1>13 DEF Loud

LEMMA LoudOwn ==
  ASSUME Typed, Owners, NEW p \in Exporters, Loud(p)
  PROVE  Owns(p)' /\ Published(p)'
<1>1. /\ p \in Processes /\ p \in Names /\ Dest \in Names /\ p # Dest /\ Own(p) \in Roots
      /\ Own(p) # None
  BY Identities DEF Own
<1>2. Owns(p) /\ Published(p) BY DEF Owners
<1>3. entry \in [Names -> Roots \cup {None}] BY DEF Typed, Disks
<1>4. /\ root \in [Exporters -> Roots \cup {None}] /\ staged \in [Exporters -> BOOLEAN]
      /\ owned \in [Exporters -> [Members -> Files \cup {None}]]
  BY DEF Typed, Locals
<1>5. CASE MakesSibling(p)
  <2>1. Stage(p) = "mkdtemp" /\ Stage(p)' = "create_bundle" BY <1>5 DEF MakesSibling, Moved
  <2>2. /\ entry'[p] = Own(p) /\ root'[p] = Own(p) /\ staged'[p] /\ entry'[Dest] = entry[Dest]
        /\ owned'[p] = owned[p] /\ inside' = inside
    BY <1>1, <1>3, <1>4, <1>5 DEF MakesSibling
  <2>3. QED BY <1>2, <2>1, <2>2, StageGroups DEF Owns, Published
<1>6. ASSUME NEW m \in Members, Creates(p, m) PROVE Owns(p)' /\ Published(p)'
  <2>1. Stage(p) = Creation(m) /\ Stage(p)' = Filling(m) BY <1>6 DEF Creates, Moved
  <2>2. /\ entry' = entry /\ root' = root /\ staged' = staged
        /\ owned'[p][m] = <<p, m>> /\ \A n \in Members \ {m} : owned'[p][n] = owned[p][n]
    BY <1>4, <1>6 DEF Creates
  <2>3. /\ inside'[Own(p)][m] = NewFile(p, m)
        /\ \A n \in Members \ {m} : inside'[Own(p)][n] = inside[Own(p)][n]
        /\ inside'[Own(p)].foreign = inside[Own(p)].foreign
    BY <1>6 DEF Creates, Puts
  <2>4. CASE m = "bundle"
    BY <1>2, <2>1, <2>2, <2>3, <2>4, StageGroups DEF Owns, Published, Creation, NewFile, Made
  <2>5. CASE m = "sidecar"
    BY <1>2, <2>1, <2>2, <2>3, <2>5, StageGroups DEF Owns, Published, Creation, NewFile, Made
  <2>6. QED BY <2>4, <2>5, StageGroups
<1>7. ASSUME NEW m \in Members, Completes(p, m) PROVE Owns(p)' /\ Published(p)'
  <2>1. Stage(p) = Filling(m) /\ Stage(p)' = After(p, Stage(p)) BY <1>7 DEF Completes, Moved
  <2>2. entry' = entry /\ root' = root /\ staged' = staged /\ owned' = owned
    BY <1>7 DEF Completes
  <2>3. /\ inside'[Own(p)][m] = Made(p, m)
        /\ \A n \in Members \ {m} : inside'[Own(p)][n] = inside[Own(p)][n]
        /\ inside'[Own(p)].foreign = inside[Own(p)].foreign
    BY <1>7 DEF Completes, Puts
  <2>4. CASE m = "bundle"
    <3>1. Stage(p) = "fill_bundle" /\ Stage(p)' = "create_sidecar"
      BY <2>1, <2>4, StageGroups DEF After
    <3>2. QED BY <1>2, <2>2, <2>3, <2>4, <3>1, StageGroups DEF Owns, Published, NewFile, Made
  <2>5. CASE m = "sidecar"
    <3>1. Stage(p) = "fill_sidecar" /\ Stage(p)' = "verify_staged"
      BY <2>1, <2>5, StageGroups DEF After
    <3>2. QED BY <1>2, <2>2, <2>3, <2>5, <3>1, StageGroups DEF Owns, Published, NewFile, Made
  <2>6. QED BY <2>4, <2>5, StageGroups
<1>8. CASE Renames(p)
  <2>1. /\ Stage(p) = "publish" /\ root'[p] = Own(p) /\ owned' = owned
        /\ entry'[p] = None /\ entry'[Dest] = Own(p)
    BY <1>1, <1>2, <1>3, <1>8, StageGroups DEF Renames, Owns
  <2>2. \A m \in Members : owned[p][m] = <<p, m>>
    BY <1>2, <2>1, StageGroups DEF Owns
  <2>3. \/ Stage(p)' = "confirm" /\ ~staged'[p]
        \/ Stage(p)' \in {"discard", "look", "fail"}
    BY <1>1, <1>4, <1>8 DEF Renames, Moved, Raised, Fallback
  <2>4. QED BY <2>1, <2>2, <2>3, StageGroups DEF Owns, Published
<1>9. CASE Discards(p)
  <2>1. /\ Stage(p)' = "look" /\ root'[p] = Own(p) /\ owned' = owned
        /\ entry'[Dest] = entry[Dest] /\ entry'[p] \in {None, entry[p]}
    BY <1>1, <1>2, <1>9, StageGroups DEF Discards, Moved, Owns, disk
  <2>2. QED BY <1>2, <2>1, StageGroups DEF Owns, Published
<1>10. ASSUME NEW m \in Members, Unlinks(p, m) PROVE Owns(p)' /\ Published(p)'
  <2>1. /\ Stage(p) \in Removing \ {"fail"} /\ Stage(p)' \in {"check_sidecar", "remaining"}
        /\ UNCHANGED <<entry, root, owned, staged>>
    BY <1>10, StageGroups DEF Unlinks, Moved, Unlink, After
  <2>2. QED BY <1>2, <2>1, StageGroups DEF Owns, Published
<1>11. CASE RemovesRoot(p)
  <2>1. /\ Stage(p) = "rmdir" /\ Stage(p)' = "fail" /\ UNCHANGED <<root, owned, staged>>
        /\ entry'[p] = entry[p] /\ entry'[Dest] \in {None, entry[Dest]}
    BY <1>1, <1>3, <1>11 DEF RemovesRoot, Moved
  <2>2. QED BY <1>1, <1>2, <2>1, StageGroups DEF Owns, Published
<1>12. CASE Loses(p)
  <2>1. UNCHANGED <<root, owned, staged>> /\ Stage(p)' = Fallback(p)
    BY <1>12 DEF Loses, Raised, Moved
  <2>2. entry'[p] \in {None, Own(p)} /\ entry'[Dest] = entry[Dest]
    BY <1>1, <1>2, <1>3, <1>12 DEF Loses, Owns
  <2>3. entry[Dest] # Own(p)
    BY <1>2, <1>12, StageGroups DEF Loses, Published, Creation
  <2>4. Stage(p)' \in Removing /\ (Stage(p)' # "fail" => root[p] = Own(p))
    BY <1>2, <2>1, StageGroups DEF Fallback, Owns
  <2>5. QED BY <1>2, <2>1, <2>2, <2>3, <2>4, StageGroups DEF Owns, Published
<1>13. QED BY <1>5, <1>6, <1>7, <1>8, <1>9, <1>10, <1>11, <1>12 DEF Loud

LEMMA EditOwners ==
  ASSUME Typed, Owners, Edit
  PROVE  Owners'
<1>1. ASSUME NEW q \in Exporters PROVE Kept(q)
  <2>1. /\ q \in Processes /\ q \in Names /\ q # Dest /\ Own(q) \in Roots /\ Own(q) # None
        /\ Own(q) # <<Owner, "root">>
    BY <1>1, Identities DEF Own
  <2>2. Owns(q) /\ Published(q) BY DEF Owners
  <2>3. /\ \A n \in Names \ {Dest} : entry'[n] = entry[n]
        /\ entry'[Dest] \in {None, <<Owner, "root">>, entry[Dest]}
        /\ \A d \in Roots : d # <<Owner, "root">> /\ d # entry[Dest] => inside'[d] = inside[d]
        /\ UNCHANGED local
    BY Editing
  <2>4. Stage(q)' = Stage(q) BY <2>1, <2>3, NobodyMoves DEF Typed, local
  <2>5. Stage(q) \in Preparing \cup Making => inside'[Own(q)] = inside[Own(q)]
    BY <2>1, <2>2, <2>3 DEF Published
  <2>6. QED BY <2>1, <2>3, <2>4, <2>5 DEF Kept, local
<1>2. QED BY <1>1, KeptOwns DEF Owners

LEMMA OwnersStep ==
  ASSUME Typed, Owners, Next
  PROVE  Owners'
<1>1. ASSUME NEW p \in Exporters, Loud(p) PROVE Owners'
  BY <1>1, LoudOwn, LoudOthers, KeptOwns DEF Owners
<1>2. QED BY <1>1, Steps, EditOwners, QuietOwners

(* At first every call has its whole program before it.                    *)
LEMMA Starting ==
  ASSUME Init, NEW p \in Processes
  PROVE  /\ Controlled(p) /\ todo[p] # <<>>
         /\ p \in Exporters => Stage(p) = "exists"
         /\ p \in Verifiers => Stage(p) = "open"
<1>1. todo[p] = Program(p) BY DEF Init
<1>2. /\ p \in Exporters => IsLaidOut(p, Program(p), Working)
      /\ p \in Verifiers => IsLaidOut(p, Program(p), Looking \cup Finishing)
      /\ Working \subseteq Stages /\ Looking \cup Finishing \subseteq Stages
  BY Layout, StageValues
<1>3. Program(p) \in Seq(Stages) /\ Len(Program(p)) \in Nat \ {0}
  BY <1>2 DEF IsLaidOut, Processes
<1>4. IsSuffix(Program(p), Program(p)) BY <1>3 DEF IsSuffix
<1>5. Program(p) # <<>> /\ Head(Program(p)) = Program(p)[1] BY <1>3, EmptySeq, TailOf
<1>6. p \in Exporters => Program(p)[1] = "exists"
  <2>1. ExportV1[1] = "exists" /\ ExportV2[1] = "exists" /\ ExportV3[1] = "exists"
    BY DEF ExportV1, ExportV2, ExportV3, Write, Publication, VerifyV1, VerifyV2, VerifyV3, FirstPass,
           GuardMembers, Reads, FinalPass
  <2>2. QED BY <2>1, ExportAssumption DEF Program, Processes
<1>7. p \in Verifiers => Program(p)[1] = "open"
  <2>1. /\ (VerifyV1 \o <<"done">>)[1] = "open" /\ (VerifyV2 \o <<"done">>)[1] = "open"
        /\ (VerifyV3 \o <<"done">>)[1] = "open"
    BY DEF VerifyV1, VerifyV2, VerifyV3, FirstPass, GuardMembers, Reads, FinalPass
  <2>2. QED BY <2>1, ExportAssumption DEF Program, Processes
<1>8. QED BY <1>1, <1>4, <1>5, <1>6, <1>7 DEF Controlled, Stage

LEMMA InitTyped ==
  ASSUME Init
  PROVE  Typed /\ Owners
<1>1. Under
  <2>1. todo = [p \in Processes |-> Program(p)] BY DEF Init
  <2>2. \A p \in Processes : Program(p) \in Seq(Stages)
    BY Layout, StageValues DEF IsLaidOut, Processes
  <2>3. QED BY <2>1, <2>2, Starting DEF Under
<1>2. Disks BY EmptyContents DEF Init, Disks
<1>3. NoMembers \in [Members -> Files \cup {None}] BY DEF NoMembers
<1>4. Locals BY <1>3, NothingSeen DEF Init, Locals
<1>5. Calls
  <2>1. ASSUME NEW p \in Processes PROVE Sighted(p) /\ (answer[p] = None <=> Stage(p) # "over")
    <3>1. Stage(p) \in {"exists", "open"} BY Starting DEF Processes
    <3>2. answer[p] = None BY DEF Init
    <3>3. QED BY <3>1, <3>2 DEF Sighted, Looking, Finishing
  <2>2. QED BY <2>1 DEF Calls
<1>6. Bounded /\ Offers BY ExportAssumption DEF Init, Bounded, Offers
<1>7. ASSUME NEW p \in Exporters PROVE Owns(p) /\ Published(p)
  <2>1. p \in Processes /\ p \in Names /\ Dest \in Names /\ Own(p) \in Roots /\ Own(p) # None
    BY Identities DEF Own
  <2>2. Stage(p) = "exists" BY <2>1, Starting
  <2>3. /\ entry[p] = None /\ entry[Dest] = None /\ root[p] = None /\ owned[p] = NoMembers
        /\ ~staged[p] /\ inside[Own(p)] = Empty
    BY <2>1 DEF Init
  <2>4. \A m \in Members : owned[p][m] = None BY <2>3 DEF NoMembers
  <2>5. \A m \in Members : inside[Own(p)][m] = None BY <2>3, EmptyContents
  <2>6. inside[Own(p)].foreign = None BY <2>3, EmptyContents
  <2>7. QED BY <2>1, <2>2, <2>3, <2>4, <2>5, <2>6, StageGroups DEF Owns, Published
<1>8. QED BY <1>1, <1>2, <1>4, <1>5, <1>6, <1>7 DEF Typed, Owners

LEMMA Stuttering ==
  ASSUME Typed, Owners, UNCHANGED vars
  PROVE  Typed' /\ Owners'
<1>1. Under' /\ \A q \in Processes : Stage(q)' = Stage(q)
  BY NobodyMoves DEF Typed, vars, local
<1>2. Calls' BY <1>1 DEF Typed, Calls, Sighted, Valid, vars, local
<1>3. Disks' /\ Locals' /\ Bounded' /\ Offers'
  BY DEF Typed, Disks, Locals, Bounded, Offers, vars, disk, local, bounds
<1>4. ASSUME NEW q \in Exporters PROVE Kept(q)
  BY <1>1, Identities DEF Kept, vars, disk, local
<1>5. QED BY <1>1, <1>2, <1>3, <1>4, KeptOwns DEF Typed, Owners

(* The types, and who owns what, hold throughout.                          *)
THEOREM Foundation == Spec => [](Typed /\ Owners)
<1>1. Init => Typed /\ Owners BY InitTyped
<1>2. Typed /\ Owners /\ [Next]_vars => (Typed /\ Owners)'
  BY TypedStep, OwnersStep, Stuttering
<1>3. QED BY <1>1, <1>2, PTL DEF Spec
----------------------------------------------------------------------------
(* While nobody meddles.                                                   *)

Withdrawing == {"check_bundle", "unlink_bundle", "check_sidecar", "unlink_sidecar", "remaining",
                "check_root", "rmdir"}
Losing == {"mkdtemp", "create_bundle", "create_sidecar"}

Whole(p) == inside[Own(p)].foreign = None /\ \A m \in Members : inside[Own(p)][m] = Made(p, m)

(* The directory of an exporter holds nothing but its files; it stands at  *)
(* the destination whole, until its exporter takes it away.                *)
Stays(p) ==
  /\ inside[Own(p)].foreign = None
  /\ \A m \in Members : inside[Own(p)][m] \in {None, NewFile(p, m), Made(p, m)}
  /\ Stage(p) \in Public \/ Succeeded(p) => entry[Dest] = Own(p) /\ Whole(p)
  /\ Stage(p) \in Withdrawing => entry[Dest] = Own(p)
  /\ entry[Dest] = Own(p) => Whole(p) \/ Stage(p) \in Removing \/ StruckIn(p, Removing)

(* How far the removal has come, if no error was suppressed in it.         *)
Withdraws(p) ==
  ~StruckIn(p, Removing) =>
    /\ Stage(p) \in {"check_sidecar", "unlink_sidecar"} => inside[Own(p)].bundle = None
    /\ Stage(p) \in {"remaining", "check_root", "rmdir"} =>
         inside[Own(p)].bundle = None /\ inside[Own(p)].sidecar = None
    /\ Stage(p) = "fail" \/ answer[p] = "failed" => entry[Dest] # Own(p)

(* The sibling is gone, if everything in it had been identified.           *)
Discarded(p) ==
  ~StruckIn(p, Removing) /\ ~StruckIn(p, Losing) =>
    /\ Stage(p) \in Removing \ {"discard"} \/ answer[p] = "failed" => entry[p] = None
    /\ Stage(p) = "discard" /\ entry[p] = Own(p) =>
         \A m \in Members : inside[Own(p)][m] # None => inside[Own(p)][m].id = owned[p][m]

Fresh ==
  /\ entry[Dest] = None \/ \E p \in Exporters : entry[Dest] = Own(p)
  /\ \A p \in Exporters : Stays(p) /\ Withdraws(p) /\ Discarded(p)

Untouched(q) ==
  /\ Stage(q)' = Stage(q) /\ answer'[q] = answer[q] /\ owned'[q] = owned[q]
  /\ entry'[q] = entry[q] /\ inside'[Own(q)] = inside[Own(q)]
  /\ entry'[Dest] = Own(q) <=> entry[Dest] = Own(q)
  /\ \A S : StruckIn(q, S)' <=> StruckIn(q, S)

----------------------------------------------------------------------------
LEMMA StruckGrows ==
  ASSUME NEW p, UNCHANGED struck \/ Struck(p), NEW q, NEW S
  PROVE  /\ StruckIn(q, S) => StruckIn(q, S)'
         /\ q # p => (StruckIn(q, S)' <=> StruckIn(q, S))
         /\ Struck(p) /\ Stage(p) \in S => StruckIn(p, S)'
         /\ UNCHANGED struck => (StruckIn(q, S)' <=> StruckIn(q, S))
<1>1. UNCHANGED struck => (StruckIn(q, S)' <=> StruckIn(q, S)) BY DEF StruckIn
<1>2. ASSUME Struck(p)
      PROVE  /\ StruckIn(q, S) => StruckIn(q, S)'
             /\ q # p => (StruckIn(q, S)' <=> StruckIn(q, S))
             /\ Stage(p) \in S => StruckIn(p, S)'
  <2> DEFINE new == <<p, Stage(p)>>
  <2>1. new[1] = p /\ new[2] = Stage(p) OBVIOUS
  <2>2. struck' = struck \cup {new} BY <1>2 DEF Struck
  <2> HIDE DEF new
  <2>3. QED BY <2>1, <2>2 DEF StruckIn
<1>3. QED BY <1>1, <1>2

LEMMA OwnFiles ==
  ASSUME NEW p \in Exporters, NEW m \in Members
  PROVE  NewFile(p, m) # None /\ Made(p, m) # None /\ NewFile(p, m) # Made(p, m)
<1>1. NewFile(p, m).whole = FALSE /\ Made(p, m).whole BY FilesMade
<1>2. NewFile(p, m) \in File /\ Made(p, m) \in File BY FilesMade
<1>3. QED BY <1>1, <1>2, FileFields

LEMMA UntouchedFresh ==
  ASSUME NEW q \in Exporters, Stays(q), Withdraws(q), Discarded(q), Untouched(q)
  PROVE  Stays(q)' /\ Withdraws(q)' /\ Discarded(q)'
<1>1. Stays(q)' BY DEF Stays, Whole, Succeeded, Untouched, NewFile, Made
<1>2. Withdraws(q)' BY DEF Withdraws, Untouched
<1>3. Discarded(q)' BY DEF Discarded, Untouched
<1>4. QED BY <1>1, <1>2, <1>3

LEMMA AnswersDiffer ==
  /\ \A a \in Answers : a \notin Exporters /\ a # None
  /\ Answers = {"refused", "failed", "rejected", "aborted", "crashed"}
  /\ None \notin Exporters
BY ExportAssumption DEF Answers

LEMMA QuietFresh ==
  ASSUME Typed, Owners, Fresh, NEW p \in Exporters, Quiet(p)
  PROVE  Stays(p)' /\ Withdraws(p)' /\ Discarded(p)'
<1>1. p \in Processes BY Identities
<1>2. Owns(p) /\ Published(p) /\ Stays(p) /\ Withdraws(p) /\ Discarded(p) BY DEF Owners, Fresh
<1>3. UNCHANGED <<entry, inside, root, owned, staged>> BY DEF Quiet, Still
<1>4. UNCHANGED struck \/ Struck(p)
  BY DEF Quiet, Passes, Fails, Succeeds, Refused, Seeks, Finishes, Killed, Hindered
<1>5. \A S : /\ StruckIn(p, S) => StruckIn(p, S)'
             /\ Struck(p) /\ Stage(p) \in S => StruckIn(p, S)'
             /\ UNCHANGED struck => (StruckIn(p, S)' <=> StruckIn(p, S))
  BY <1>4, StruckGrows
<1>6. answer \in [Processes -> Exporters \cup Answers \cup {None}] /\ (answer[p] = None <=> Stage(p) # "over")
  BY <1>1 DEF Typed, Locals, Calls
<1>7. /\ Stays(p)' <=>
           /\ Stage(p)' \in Public \/ answer'[p] \in Exporters => entry[Dest] = Own(p) /\ Whole(p)
           /\ Stage(p)' \in Withdrawing => entry[Dest] = Own(p)
           /\ entry[Dest] = Own(p) => Whole(p) \/ Stage(p)' \in Removing \/ StruckIn(p, Removing)'
      /\ Withdraws(p)' <=>
           (~StruckIn(p, Removing)' =>
              /\ Stage(p)' \in {"check_sidecar", "unlink_sidecar"} => inside[Own(p)].bundle = None
              /\ Stage(p)' \in {"remaining", "check_root", "rmdir"} =>
                   inside[Own(p)].bundle = None /\ inside[Own(p)].sidecar = None
              /\ Stage(p)' = "fail" \/ answer'[p] = "failed" => entry[Dest] # Own(p))
      /\ Discarded(p)' <=>
           (~StruckIn(p, Removing)' /\ ~StruckIn(p, Losing)' =>
              /\ Stage(p)' \in Removing \ {"discard"} \/ answer'[p] = "failed" => entry[p] = None
              /\ Stage(p)' = "discard" /\ entry[p] = Own(p) =>
                   \A m \in Members : inside[Own(p)][m] # None => inside[Own(p)][m].id = owned[p][m])
  <2>1. Stays(p)' <=>
           /\ Stage(p)' \in Public \/ answer'[p] \in Exporters => entry[Dest] = Own(p) /\ Whole(p)
           /\ Stage(p)' \in Withdrawing => entry[Dest] = Own(p)
           /\ entry[Dest] = Own(p) => Whole(p) \/ Stage(p)' \in Removing \/ StruckIn(p, Removing)'
    BY <1>2, <1>3 DEF Stays, Whole, Succeeded, NewFile, Made
  <2>2. QED BY <1>3, <2>1 DEF Withdraws, Discarded
<1>8. Own(p) \in Roots /\ Own(p) # None BY Identities DEF Own
<1>9. CASE Passes(p)
  <2>1. Stage(p) \in {"exists", "verify_staged"} \cup (Public \ {"done"})
    <3>1. Stage(p) \in {"exists", "verify_staged", "confirm"} \cup Looking \cup (Finishing \ {"done"})
      BY <1>9 DEF Passes
    <3>2. QED BY <3>1 DEF Public, Looking, Finishing
  <2>2. Stage(p)' = After(p, Stage(p)) /\ answer'[p] = None /\ UNCHANGED struck
    <3>1. Stage(p) # "over" BY <2>1, StageGroups
    <3>2. QED BY <1>6, <1>9, <3>1 DEF Passes, Moved
  <2>3. Stage(p)' \in Public => Stage(p) \in Public BY <2>1, <2>2, StageGroups DEF After
  <2>4. Stage(p)' \notin Removing BY <2>1, <2>2, StageGroups DEF After
  <2>5. Stage(p) \notin Removing BY <2>1, StageGroups
  <2>6. /\ Stage(p)' \notin Withdrawing \cup {"check_sidecar", "unlink_sidecar", "remaining", "check_root", "rmdir"}
        /\ Stage(p)' # "fail" /\ Stage(p)' # "discard"
    BY <2>4, StageGroups DEF Withdrawing
  <2>7. answer'[p] \notin Exporters /\ answer'[p] # "failed" BY <2>2, AnswersDiffer
  <2>8. /\ Stage(p)' \in Public => entry[Dest] = Own(p) /\ Whole(p)
        /\ entry[Dest] = Own(p) => Whole(p) \/ StruckIn(p, Removing)'
    BY <1>2, <1>5, <2>3, <2>5 DEF Stays
  <2>9. QED BY <1>7, <2>4, <2>6, <2>7, <2>8
<1>10. CASE Fails(p)
  <2>1. Stage(p)' = Fallback(p) /\ answer'[p] = None /\ Stage(p) \in Working
    BY <1>6, <1>10, StageValues DEF Fails, Raised, Moved
  <2>2. Working = Preparing \cup Making \cup Public BY StageGroups DEF Working, Public
  <2>3. Stage(p)' \in {"fail", "discard", "look"} BY <2>1 DEF Fallback
  <2>4. Stage(p)' = "fail" => entry[Dest] # Own(p) /\ entry[p] = None
    BY <1>2, <1>8, <2>1, <2>2 DEF Fallback, Owns, Published
  <2>5. Stage(p)' = "look" => entry[p] = None BY <1>2, <1>8, <2>1, <2>2 DEF Fallback, Owns
  <2>6. Stage(p)' = "discard" /\ entry[p] = Own(p) =>
          \A m \in Members : inside[Own(p)][m] # None => inside[Own(p)][m].id = owned[p][m]
    <3> SUFFICES ASSUME Stage(p)' = "discard", entry[p] = Own(p), NEW m \in Members,
                        inside[Own(p)][m] # None
                 PROVE  inside[Own(p)][m].id = owned[p][m]
      OBVIOUS
    <3>1. Stage(p) \in Making BY <1>2, <1>8, <2>1, <2>2 DEF Fallback, Owns
    <3>2. /\ inside[Own(p)][m] = IF Stage(p) \in Unwritten(m) THEN None
                                 ELSE IF Stage(p) = Filling(m) THEN NewFile(p, m) ELSE Made(p, m)
          /\ owned[p][m] = IF Stage(p) \in Unwritten(m) THEN None ELSE <<p, m>>
      BY <1>2, <3>1 DEF Owns
    <3>3. NewFile(p, m).id = <<p, m>> /\ Made(p, m).id = <<p, m>> BY FilesMade
    <3>4. QED BY <3>2, <3>3
  <2>7. QED BY <1>7, <2>1, <2>3, <2>4, <2>5, <2>6, AnswersDiffer, StageGroups DEF Withdrawing
<1>11. CASE Succeeds(p)
  <2>1. Stage(p) \in Public BY <1>11, StageGroups DEF Succeeds
  <2>2. entry[Dest] = Own(p) /\ Whole(p) BY <1>2, <2>1 DEF Stays
  <2>3. Stage(p)' = "over" BY <1>11 DEF Succeeds, Ends, Moved
  <2>4. answer'[p] \in Exporters
    <3>1. answer'[p] = seen[p].bundle.by BY <1>1, <1>6, <1>11 DEF Succeeds, Ends
    <3>2. seen[p].bundle \in File
      BY <1>1, <1>11 DEF Succeeds, Typed, Calls, Sighted, Finishing
    <3>3. QED BY <3>1, <3>2, FileFields
  <2>5. QED BY <1>7, <2>2, <2>3, <2>4, AnswersDiffer, StageGroups DEF Withdrawing
<1>12. CASE Refused(p)
  <2>1. Stage(p)' = "over" /\ answer'[p] = "refused" /\ Stage(p) = "exists"
    BY <1>1, <1>6, <1>12 DEF Refused, Ends, Moved
  <2>2. entry[Dest] # Own(p) BY <1>2, <2>1, StageGroups DEF Published
  <2>3. QED BY <1>7, <2>1, <2>2, AnswersDiffer, StageGroups DEF Withdrawing
<1>13. CASE Finishes(p)
  <2>1. Stage(p)' = "over" /\ answer'[p] = "failed" /\ Stage(p) = "fail" /\ UNCHANGED struck
    BY <1>1, <1>6, <1>13 DEF Finishes, Ends, Moved
  <2>2. StruckIn(p, Removing)' \/ entry[Dest] # Own(p) BY <1>2, <1>5, <2>1 DEF Withdraws
  <2>3. StruckIn(p, Removing)' \/ StruckIn(p, Losing)' \/ entry[p] = None
    BY <1>2, <1>5, <2>1, StageGroups DEF Discarded
  <2>4. QED BY <1>7, <2>1, <2>2, <2>3, AnswersDiffer, StageGroups DEF Withdrawing
<1>14. CASE Killed(p)
  <2>1. Stage(p)' = "over" /\ answer'[p] = "crashed" /\ Struck(p) /\ Stage(p) # "over"
    BY <1>1, <1>6, <1>14 DEF Killed, Ends, Moved
  <2>2. entry[Dest] = Own(p) => Whole(p) \/ StruckIn(p, Removing)'
    BY <1>2, <1>5, <2>1 DEF Stays
  <2>3. QED BY <1>7, <2>1, <2>2, AnswersDiffer, StageGroups DEF Withdrawing
<1>15. CASE Hindered(p)
  <2>1. Struck(p) /\ Stage(p) \in Removing \ {"fail"} BY <1>15 DEF Hindered
  <2>2. StruckIn(p, Removing)' BY <1>5, <2>1
  <2>3. /\ Stage(p)' \in {"fail", "over", "look", "check_sidecar", "remaining"}
        /\ answer'[p] \in {None, "aborted"}
    BY <1>1, <1>6, <1>15, <2>1, StageValues DEF Hindered, Ends, Moved, After
  <2>4. Stage(p)' \in Withdrawing => Stage(p) \in Withdrawing
    BY <1>15, <2>3 DEF Hindered, Ends, Moved, After, Withdrawing
  <2>5. QED BY <1>2, <1>7, <2>2, <2>3, <2>4, AnswersDiffer, StageGroups DEF Stays, Withdrawing
<1>16. CASE Seeks(p)
  <2>1. /\ Stage(p)' = IF Found(p) THEN After(p, Stage(p)) ELSE Reached(Stage(p))
        /\ UNCHANGED struck
        /\ Stage(p) \in {"look", "check_bundle", "check_sidecar", "remaining", "check_root"}
    BY <1>16 DEF Seeks, Moved
  <2>2. answer'[p] = None BY <1>6, <1>16, <2>1 DEF Seeks
  <2>3. root[p] = Own(p) BY <1>2, <2>1, StageGroups DEF Owns
  <2>4. Stage(p)' \in Removing \ {"discard"} /\ Stage(p) \in Removing \ {"discard"}
    BY <2>1, StageGroups DEF After, Reached
  <2>5. StruckIn(p, Removing)' \/ StruckIn(p, Losing)' \/ entry[p] = None
    BY <1>2, <1>5, <2>1, <2>4 DEF Discarded
  <2>6. Stage(p)' \in Withdrawing => entry[Dest] = Own(p)
    BY <1>2, <2>1, <2>3 DEF Found, After, Reached, Withdrawing, Stays
  <2>7. ASSUME NEW m \in Members, entry[Dest] = Own(p),
               ~(Holds(Dest, m) /\ inside[entry[Dest]][m].id = owned[p][m])
        PROVE  inside[Own(p)][m] = None
    <3>1. owned[p][m] = <<p, m>> BY <1>2, <2>7 DEF Published
    <3>2. inside[Own(p)][m] \in {None, NewFile(p, m), Made(p, m)} BY <1>2 DEF Stays
    <3>3. NewFile(p, m).id = <<p, m>> /\ Made(p, m).id = <<p, m>> BY FilesMade
    <3>4. Holds(Dest, m) <=> inside[Own(p)][m] # None BY <1>8, <2>7 DEF Holds, There
    <3>5. QED BY <2>7, <3>1, <3>2, <3>3, <3>4
  <2>8. ASSUME ~StruckIn(p, Removing)
        PROVE  /\ Stage(p)' \in {"check_sidecar", "unlink_sidecar"} => inside[Own(p)].bundle = None
               /\ Stage(p)' \in {"remaining", "check_root", "rmdir"} =>
                    inside[Own(p)].bundle = None /\ inside[Own(p)].sidecar = None
               /\ Stage(p)' = "fail" => entry[Dest] # Own(p)
    <3>1. CASE Stage(p) = "look"
      BY <2>1, <2>3, <3>1 DEF Found, After, Reached
    <3>2. CASE Stage(p) = "check_bundle"
      <4>1. entry[Dest] = Own(p) BY <1>2, <3>2 DEF Stays, Withdrawing
      <4>2. CASE Found(p) BY <2>1, <3>2, <4>2 DEF After
      <4>3. CASE ~Found(p)
        <5>1. inside[Own(p)]["bundle"] = None BY <2>7, <3>2, <4>1, <4>3, MemberNames DEF Found
        <5>2. QED BY <2>1, <3>2, <4>3, <5>1 DEF Reached
      <4>4. QED BY <4>2, <4>3
    <3>3. CASE Stage(p) = "check_sidecar"
      <4>1. entry[Dest] = Own(p) /\ inside[Own(p)].bundle = None
        BY <1>2, <2>8, <3>3 DEF Stays, Withdrawing, Withdraws
      <4>2. CASE Found(p) BY <2>1, <3>3, <4>1, <4>2 DEF After
      <4>3. CASE ~Found(p)
        <5>1. inside[Own(p)]["sidecar"] = None BY <2>7, <3>3, <4>1, <4>3, MemberNames DEF Found
        <5>2. QED BY <2>1, <3>3, <4>1, <4>3, <5>1 DEF Reached
      <4>4. QED BY <4>2, <4>3
    <3>4. CASE Stage(p) = "remaining"
      <4>1. /\ entry[Dest] = Own(p) /\ inside[Own(p)].bundle = None /\ inside[Own(p)].sidecar = None
            /\ inside[Own(p)].foreign = None
        BY <1>2, <2>8, <3>4 DEF Stays, Withdrawing, Withdraws
      <4>2. inside[Own(p)] = Empty
        <5>1. inside[Own(p)] \in Contents BY <1>8 DEF Typed, Disks
        <5>2. QED BY <4>1, <5>1, EmptyContents, MemberNames
      <4>3. Found(p) BY <1>8, <3>4, <4>1, <4>2 DEF Found, There
      <4>4. QED BY <2>1, <3>4, <4>1, <4>3 DEF After
    <3>5. CASE Stage(p) = "check_root"
      <4>1. /\ entry[Dest] = Own(p) /\ inside[Own(p)].bundle = None /\ inside[Own(p)].sidecar = None
        BY <1>2, <2>8, <3>5 DEF Stays, Withdrawing, Withdraws
      <4>2. Found(p) BY <2>3, <3>5, <4>1 DEF Found
      <4>3. QED BY <2>1, <3>5, <4>1, <4>2 DEF After
    <3>6. QED BY <2>1, <3>1, <3>2, <3>3, <3>4, <3>5
  <2>9. QED BY <1>5, <1>7, <2>1, <2>2, <2>4, <2>5, <2>6, <2>8, AnswersDiffer, StageGroups
<1>17. QED BY <1>9, <1>10, <1>11, <1>12, <1>13, <1>14, <1>15, <1>16 DEF Quiet

LEMMA LoudFresh ==
  ASSUME Typed, Owners, Fresh, NEW p \in Exporters, Loud(p)
  PROVE  Stays(p)' /\ Withdraws(p)' /\ Discarded(p)'
<1>1. /\ p \in Processes /\ p \in Names /\ Dest \in Names /\ p # Dest
      /\ Own(p) \in Roots /\ Own(p) # None
  BY Identities DEF Own
<1>2. Owns(p) /\ Published(p) /\ Stays(p) /\ Withdraws(p) /\ Discarded(p) BY DEF Owners, Fresh
<1>3. UNCHANGED struck \/ Struck(p)
  BY DEF Loud, MakesSibling, Renames, Discards, RemovesRoot, Loses, Creates, Completes, Unlinks
<1>4. \A S : /\ StruckIn(p, S) => StruckIn(p, S)'
             /\ Struck(p) /\ Stage(p) \in S => StruckIn(p, S)'
             /\ UNCHANGED struck => (StruckIn(p, S)' <=> StruckIn(p, S))
  BY <1>3, StruckGrows
<1>5. /\ answer \in [Processes -> Exporters \cup Answers \cup {None}]
      /\ answer[p] = None <=> Stage(p) # "over"
      /\ entry \in [Names -> Roots \cup {None}] /\ staged \in [Exporters -> BOOLEAN]
      /\ owned \in [Exporters -> [Members -> Files \cup {None}]]
  BY <1>1 DEF Typed, Locals, Calls, Disks
<1>6. answer'[p] = None
  <2>1. Stage(p) # "over"
    BY StageGroups DEF Loud, MakesSibling, Renames, Discards, RemovesRoot, Loses, Creates, Completes,
                       Unlinks, Creation, Filling, Unlink
  <2>2. UNCHANGED answer
    BY DEF Loud, MakesSibling, Renames, Discards, RemovesRoot, Loses, Creates, Completes,
           Unlinks, Raised
  <2>3. QED BY <1>5, <2>1, <2>2
<1>7. answer'[p] \notin Exporters /\ answer'[p] # "failed" BY <1>6, AnswersDiffer
(* Before the publication.                                                 *)
<1>8. ASSUME Stage(p)' \in Making \cup {"create_bundle"}, entry'[Dest] # Own(p),
             inside'[Own(p)].foreign = None,
             \A m \in Members : inside'[Own(p)][m] \in {None, NewFile(p, m), Made(p, m)}
      PROVE  Stays(p)' /\ Withdraws(p)' /\ Discarded(p)'
  <2>1. Stage(p)' \notin Public \cup Withdrawing \cup Removing BY <1>8, StageGroups DEF Withdrawing
  <2>2. Stays(p)' BY <1>7, <1>8, <2>1 DEF Stays, Succeeded, NewFile, Made
  <2>3. Withdraws(p)' BY <1>7, <1>8, <2>1, StageGroups DEF Withdraws
  <2>4. Discarded(p)' BY <1>7, <1>8, <2>1, StageGroups DEF Discarded
  <2>5. QED BY <2>2, <2>3, <2>4
<1>9. CASE MakesSibling(p)
  <2>1. Stage(p) = "mkdtemp" /\ Stage(p)' = "create_bundle" /\ inside' = inside
        /\ entry'[Dest] = entry[Dest]
    BY <1>1, <1>5, <1>9 DEF MakesSibling, Moved
  <2>2. entry[Dest] # Own(p) BY <1>2, <2>1, StageGroups DEF Published
  <2>3. QED BY <1>2, <1>8, <2>1, <2>2 DEF Stays
<1>10. ASSUME NEW m \in Members, Creates(p, m) \/ Completes(p, m)
       PROVE  Stays(p)' /\ Withdraws(p)' /\ Discarded(p)'
  <2>1. Stage(p) \in Making /\ Stage(p)' \in Making /\ UNCHANGED entry
    BY <1>10, StageGroups DEF Creates, Completes, Moved, Creation, After
  <2>2. entry[Dest] # Own(p) BY <1>2, <2>1 DEF Published
  <2>3. /\ inside'[Own(p)][m] \in {NewFile(p, m), Made(p, m)}
        /\ \A n \in Members \ {m} : inside'[Own(p)][n] = inside[Own(p)][n]
        /\ inside'[Own(p)].foreign = inside[Own(p)].foreign
    BY <1>10 DEF Creates, Completes, Puts
  <2>4. QED BY <1>2, <1>8, <2>1, <2>2, <2>3 DEF Stays
<1>11. CASE Renames(p)
  <2>1. Stage(p) = "publish" /\ UNCHANGED inside /\ entry'[p] = None /\ entry'[Dest] = Own(p)
    BY <1>1, <1>2, <1>5, <1>11, StageGroups DEF Renames, Owns
  <2>2. Whole(p)
    <3>1. /\ inside[Own(p)].foreign = None
          /\ \A m \in Members :
               inside[Own(p)][m] = IF Stage(p) \in Unwritten(m) THEN None
                                   ELSE IF Stage(p) = Filling(m) THEN NewFile(p, m) ELSE Made(p, m)
      BY <1>2, <2>1, StageGroups DEF Owns
    <3>2. QED BY <2>1, <3>1, StageGroups DEF Whole
  <2>3. /\ Stage(p)' \in {"confirm", "fail", "discard", "look"}
        /\ Stage(p)' = "fail" => root[p] = None
    BY <1>11 DEF Renames, Moved, Raised, Fallback
  <2>4. Stage(p)' # "fail"
    BY <1>1, <1>2, <2>1, <2>3, StageGroups DEF Owns
  <2>5. Whole(p)' BY <2>1, <2>2 DEF Whole, Made
  <2>6. Stays(p)'
    BY <1>2, <1>7, <2>1, <2>3, <2>4, <2>5, StageGroups DEF Stays, Withdrawing, Succeeded, NewFile, Made
  <2>7. Withdraws(p)' BY <1>7, <2>3, <2>4 DEF Withdraws
  <2>8. Discarded(p)' BY <1>1, <1>7, <2>1 DEF Discarded
  <2>9. QED BY <2>6, <2>7, <2>8
<1>12. CASE Discards(p)
  <2>1. /\ Stage(p) = "discard" /\ Stage(p)' = "look" /\ entry'[Dest] = entry[Dest]
        /\ UNCHANGED struck
    BY <1>1, <1>12 DEF Discards, Moved
  <2>2. root[p] = Own(p) BY <1>2, <2>1, StageGroups DEF Owns
  <2>3. /\ Left(p) \in Contents /\ Left(p).foreign = inside[Own(p)].foreign
        /\ \A m \in Members : Left(p)[m] = IF Holds(p, m) /\ inside[Own(p)][m].id = owned[p][m]
                                           THEN None ELSE inside[Own(p)][m]
    BY <2>2, LeftIs
  <2>4. CASE entry[p] = Own(p)
    <3>1. /\ inside'[Own(p)] = Left(p) /\ entry'[p] = IF Left(p) = Empty THEN None ELSE Own(p)
          /\ entry[Dest] # Own(p)
      BY <1>1, <1>2, <1>12, <2>4 DEF Discards, Published
    <3>2. Stays(p)'
      BY <1>2, <1>7, <2>1, <2>3, <3>1, StageGroups DEF Stays, Withdrawing, Succeeded, NewFile, Made
    <3>3. Withdraws(p)' BY <1>7, <2>1, <3>1 DEF Withdraws
    <3>4. ASSUME ~StruckIn(p, Removing), ~StruckIn(p, Losing) PROVE entry'[p] = None
      <4>1. \A m \in Members : inside[Own(p)][m] # None => inside[Own(p)][m].id = owned[p][m]
        BY <1>2, <2>1, <2>4, <3>4 DEF Discarded
      <4>2. ASSUME NEW m \in Members PROVE Left(p)[m] = None
        <5>1. Holds(p, m) <=> inside[Own(p)][m] # None BY <1>1, <2>4 DEF Holds, There
        <5>2. QED BY <2>3, <4>1, <5>1
      <4>3. Left(p).foreign = None BY <1>2, <2>3 DEF Stays
      <4>4. Left(p) = Empty BY <2>3, <4>2, <4>3, EmptyContents
      <4>5. QED BY <3>1, <4>4
    <3>5. Discarded(p)' BY <1>4, <1>7, <2>1, <3>4 DEF Discarded
    <3>6. QED BY <3>2, <3>3, <3>5
  <2>5. CASE entry[p] # Own(p)
    <3>1. UNCHANGED <<entry, inside>> BY <1>12, <2>5 DEF Discards, disk
    <3>2. entry[p] = None BY <1>2, <2>5 DEF Owns
    <3>3. Stays(p)'
      BY <1>2, <1>7, <2>1, <3>1, StageGroups DEF Stays, Whole, Withdrawing, Succeeded, NewFile, Made
    <3>4. Withdraws(p)' BY <1>7, <2>1 DEF Withdraws
    <3>5. Discarded(p)' BY <1>7, <2>1, <3>1, <3>2 DEF Discarded
    <3>6. QED BY <3>3, <3>4, <3>5
  <2>6. QED BY <2>4, <2>5
<1>13. ASSUME NEW m \in Members, Unlinks(p, m)
       PROVE  Stays(p)' /\ Withdraws(p)' /\ Discarded(p)'
  <2>1. /\ Stage(p) = Unlink(m) /\ UNCHANGED <<entry, struck, owned>>
        /\ Stage(p)' = IF m = "bundle" THEN "check_sidecar" ELSE "remaining"
    BY <1>13, StageGroups DEF Unlinks, Moved, Unlink, After
  <2>2. entry[Dest] = Own(p) BY <1>2, <2>1 DEF Stays, Withdrawing, Unlink
  <2>3. /\ inside'[Own(p)][m] = None
        /\ \A n \in Members \ {m} : inside'[Own(p)][n] = inside[Own(p)][n]
        /\ inside'[Own(p)].foreign = inside[Own(p)].foreign
    <3>1. CASE Holds(Dest, m) BY <1>13, <2>2, <3>1 DEF Unlinks, Puts
    <3>2. CASE ~Holds(Dest, m) BY <1>1, <1>13, <2>2, <3>2 DEF Unlinks, Holds, There
    <3>3. QED BY <3>1, <3>2
  <2>4. Stays(p)'
    BY <1>2, <1>7, <2>1, <2>2, <2>3, StageGroups DEF Stays, Withdrawing, Succeeded, NewFile, Made
  <2>5. Withdraws(p)'
    <3>1. CASE m = "bundle" BY <1>2, <1>4, <1>7, <2>1, <2>3, <3>1 DEF Withdraws
    <3>2. CASE m = "sidecar"
      <4>1. Stage(p) = "unlink_sidecar" BY <2>1, <3>2 DEF Unlink
      <4>2. ~StruckIn(p, Removing)' => inside'[Own(p)].bundle = None
        BY <1>2, <1>4, <2>1, <2>3, <3>2, <4>1, MemberNames DEF Withdraws
      <4>3. QED BY <1>7, <2>1, <2>3, <3>2, <4>2 DEF Withdraws
    <3>3. QED BY <3>1, <3>2, MemberNames
  <2>6. Discarded(p)'
    <3>1. Stage(p) \in Removing \ {"discard"} /\ Stage(p)' # "discard"
      BY <2>1, StageGroups DEF Unlink
    <3>2. QED BY <1>2, <1>4, <1>7, <2>1, <3>1 DEF Discarded
  <2>7. QED BY <2>4, <2>5, <2>6
<1>14. CASE RemovesRoot(p)
  <2>1. /\ Stage(p) = "rmdir" /\ Stage(p)' = "fail" /\ UNCHANGED <<inside, struck, owned>>
        /\ entry'[p] = entry[p] /\ entry'[Dest] \in {None, entry[Dest]}
    BY <1>1, <1>5, <1>14 DEF RemovesRoot, Moved
  <2>2. ASSUME ~StruckIn(p, Removing) PROVE entry'[Dest] # Own(p)
    <3>1. /\ entry[Dest] = Own(p) /\ inside[Own(p)].bundle = None /\ inside[Own(p)].sidecar = None
          /\ inside[Own(p)].foreign = None
      BY <1>2, <2>1, <2>2 DEF Stays, Withdraws, Withdrawing
    <3>2. inside[Own(p)] = Empty
      <4>1. inside[Own(p)] \in Contents BY <1>1 DEF Typed, Disks
      <4>2. QED BY <3>1, <4>1, EmptyContents, MemberNames
    <3>3. QED BY <1>1, <1>5, <1>14, <3>1, <3>2 DEF RemovesRoot, There
  <2>3. Stays(p)'
    BY <1>1, <1>2, <1>7, <2>1, StageGroups DEF Stays, Whole, Withdrawing, Succeeded, NewFile, Made
  <2>4. Withdraws(p)' BY <1>4, <1>7, <2>1, <2>2 DEF Withdraws
  <2>5. Discarded(p)' BY <1>2, <1>4, <1>7, <2>1, StageGroups DEF Discarded
  <2>6. QED BY <2>3, <2>4, <2>5
<1>15. CASE Loses(p)
  <2>1. Stage(p)' = Fallback(p) /\ Struck(p) /\ Stage(p) \in Losing
    BY <1>15, StageGroups DEF Loses, Raised, Moved, Losing, Creation
  <2>2. StruckIn(p, Losing)' BY <1>4, <2>1
  <2>3. Stage(p) \in Preparing \cup Making BY <2>1, StageGroups DEF Losing
  <2>4. entry'[Dest] # Own(p) BY <1>1, <1>2, <1>5, <1>15, <2>3 DEF Loses, Published
  <2>5. /\ inside'[Own(p)].foreign = None
        /\ \A m \in Members : inside'[Own(p)][m] \in {None, NewFile(p, m), Made(p, m)}
    BY <1>2, <1>15 DEF Loses, Stays, Puts
  <2>6. Stage(p)' \in {"fail", "discard", "look"} BY <2>1 DEF Fallback
  <2>7. Stays(p)' BY <1>7, <2>4, <2>5, <2>6, StageGroups DEF Stays, Withdrawing, Succeeded, NewFile, Made
  <2>8. Withdraws(p)' BY <1>7, <2>4, <2>6 DEF Withdraws
  <2>9. Discarded(p)' BY <2>2 DEF Discarded
  <2>10. QED BY <2>7, <2>8, <2>9
<1>16. QED BY <1>9, <1>10, <1>11, <1>12, <1>13, <1>14, <1>15 DEF Loud

LEMMA FreshOthers ==
  ASSUME Typed, Owners, Fresh, NEW p \in Processes, Quiet(p) \/ (p \in Exporters /\ Loud(p)),
         NEW q \in Exporters, q # p
  PROVE  Untouched(q)
<1>1. /\ q \in Processes /\ q \in Names /\ Dest \in Names /\ q # Dest /\ Own(q) \in Roots
      /\ Own(q) # None
  BY Identities DEF Own
<1>2. answer \in [Processes -> Exporters \cup Answers \cup {None}]
      /\ entry \in [Names -> Roots \cup {None}]
  BY DEF Typed, Locals, Disks
<1>3. CASE Quiet(p)
  <2>1. Stage(q)' = Stage(q) /\ answer'[q] = answer[q] /\ (UNCHANGED struck \/ Struck(p))
    BY <1>1, <1>2, <1>3 DEF Quiet, Passes, Fails, Raised, Succeeds, Refused, Seeks, Finishes, Killed,
                            Hindered, Ends, Moved
  <2>2. \A S : StruckIn(q, S)' <=> StruckIn(q, S) BY <2>1, StruckGrows
  <2>3. QED BY <1>3, <2>1, <2>2 DEF Quiet, Still, Untouched
<1>4. CASE p \in Exporters /\ Loud(p)
  <2>1. Kept(q) BY <1>4, LoudOthers
  <2>2. answer'[q] = answer[q] /\ (UNCHANGED struck \/ Struck(p))
    BY <1>1, <1>2, <1>4
    DEF Loud, MakesSibling, Renames, Discards, RemovesRoot, Loses, Creates, Completes, Unlinks, Raised
  <2>3. \A S : StruckIn(q, S)' <=> StruckIn(q, S) BY <2>2, StruckGrows
  <2>4. /\ p \in Names /\ p # Dest /\ Own(p) \in Roots /\ Own(p) # Own(q) /\ Own(p) # None
        /\ Owns(p) /\ Stays(p)
    BY <1>4, Identities DEF Own, Owners, Fresh
  <2>5. inside'[Own(q)] = inside[Own(q)]
    <3>1. ASSUME NEW m \in Members, Unlinks(p, m) PROVE inside'[Own(q)] = inside[Own(q)]
      <4>1. entry[Dest] = Own(p) BY <2>4, <3>1 DEF Unlinks, Unlink, Stays, Withdrawing
      <4>2. QED BY <1>1, <2>4, <3>1, <4>1 DEF Unlinks, Puts
    <3>2. CASE Discards(p) BY <1>1, <2>4, <3>2 DEF Discards
    <3>3. CASE Loses(p) BY <1>1, <2>4, <3>3 DEF Loses, Puts
    <3>4. ASSUME NEW m \in Members, Creates(p, m) \/ Completes(p, m)
          PROVE  inside'[Own(q)] = inside[Own(q)]
      BY <1>1, <2>4, <3>4 DEF Creates, Completes, Puts
    <3>5. QED BY <1>4, <3>1, <3>2, <3>3, <3>4 DEF Loud, MakesSibling, Renames, RemovesRoot
  <2>6. entry[Dest] = Own(q) => entry'[Dest] = Own(q)
    <3>1. CASE RemovesRoot(p)
      <4>1. entry[Dest] = Own(p) BY <2>4, <3>1 DEF RemovesRoot, Stays, Withdrawing
      <4>2. QED BY <2>4, <4>1
    <3>2. CASE MakesSibling(p) BY <1>1, <1>2, <2>4, <3>2 DEF MakesSibling
    <3>3. CASE Renames(p) BY <1>1, <3>3 DEF Renames, There
    <3>4. CASE Discards(p) BY <1>1, <2>4, <3>4 DEF Discards, disk
    <3>5. CASE Loses(p) BY <1>1, <1>2, <2>4, <3>5 DEF Loses
    <3>6. QED BY <1>4, <3>1, <3>2, <3>3, <3>4, <3>5 DEF Loud, Creates, Completes, Unlinks
  <2>7. QED BY <2>1, <2>2, <2>3, <2>5, <2>6 DEF Kept, Untouched
<1>5. QED BY <1>3, <1>4

LEMMA FreshStep ==
  ASSUME Typed, Owners, Fresh, Next, ~Edit
  PROVE  Fresh'
<1>1. PICK p \in Processes : Quiet(p) \/ (p \in Exporters /\ Loud(p)) BY Steps
<1>2. ASSUME NEW q \in Exporters PROVE Stays(q)' /\ Withdraws(q)' /\ Discarded(q)'
  <2>1. CASE q = p BY <1>1, <1>2, <2>1, QuietFresh, LoudFresh
  <2>2. CASE q # p BY <1>1, <1>2, <2>2, FreshOthers, UntouchedFresh DEF Fresh
  <2>3. QED BY <2>1, <2>2
<1>3. entry'[Dest] = None \/ \E q \in Exporters : entry'[Dest] = Own(q)
  <2>1. CASE Quiet(p) BY <2>1 DEF Quiet, Still, Fresh
  <2>2. CASE p \in Exporters /\ Loud(p)
    <3>1. p \in Names /\ Dest \in Names /\ p # Dest BY <2>2, Identities
    <3>2. entry \in [Names -> Roots \cup {None}] BY DEF Typed, Disks
    <3>3. Owns(p) BY <2>2 DEF Owners
    <3>4. entry'[Dest] \in {None, entry[Dest], Own(p)}
      <4>1. CASE Renames(p)
        BY <3>1, <3>2, <3>3, <4>1, StageGroups DEF Renames, Owns
      <4>2. CASE ~Renames(p)
        BY <2>2, <3>1, <3>2, <4>2
        DEF Loud, MakesSibling, Discards, RemovesRoot, Loses, Creates, Completes, Unlinks, disk
      <4>3. QED BY <4>1, <4>2
    <3>5. QED BY <2>2, <3>4 DEF Fresh, Own
  <2>3. QED BY <1>1, <2>1, <2>2
<1>4. QED BY <1>2, <1>3 DEF Fresh, Own

LEMMA InitFresh ==
  ASSUME Init
  PROVE  Fresh
<1>1. entry[Dest] = None BY Identities DEF Init
<1>2. ASSUME NEW p \in Exporters PROVE Stays(p) /\ Withdraws(p) /\ Discarded(p)
  <2>1. p \in Processes /\ Own(p) \in Roots /\ Own(p) # None BY Identities DEF Own
  <2>2. Stage(p) = "exists" /\ answer[p] = None /\ inside[Own(p)] = Empty
    BY <2>1, Starting DEF Init
  <2>3. answer[p] \notin Exporters /\ answer[p] # "failed" BY <2>2, AnswersDiffer
  <2>4. Stays(p)
    BY <1>1, <2>1, <2>2, <2>3, EmptyContents, StageGroups DEF Stays, Withdrawing, Succeeded
  <2>5. QED BY <1>1, <2>1, <2>2, <2>3, <2>4, StageGroups DEF Withdraws, Discarded
<1>3. QED BY <1>1, <1>2 DEF Fresh

LEMMA EditsGrow ==
  ASSUME Typed, Owners, Next
  PROVE  edits' = 0 => edits = 0 /\ ~Edit
<1>1. edits \in Nat BY ExportAssumption DEF Typed, Bounded
<1>2. Edit => edits' = edits + 1 BY DEF Edit
<1>3. ~Edit => edits' = edits BY Steps
<1>4. QED BY <1>1, <1>2, <1>3

LEMMA StutteringFresh ==
  ASSUME Fresh, Typed, UNCHANGED vars
  PROVE  Fresh'
<1>1. \A q \in Processes : Stage(q)' = Stage(q) BY NobodyMoves DEF Typed, vars, local
<1>2. ASSUME NEW q \in Exporters PROVE Untouched(q)
  BY <1>1, Identities DEF Untouched, StruckIn, vars, disk, local, bounds
<1>3. QED BY <1>2, UntouchedFresh DEF Fresh, Own, vars, disk

Unmeddled == edits = 0 => Fresh

LEMMA Unspoiled == Spec => []Unmeddled
<1>1. Init => Unmeddled BY InitFresh DEF Unmeddled
<1>2. Typed /\ Owners /\ Unmeddled /\ [Next]_vars => Unmeddled'
  <2>1. ASSUME Typed, Owners, Unmeddled, Next PROVE Unmeddled'
    BY <2>1, EditsGrow, FreshStep DEF Unmeddled
  <2>2. ASSUME Typed, Unmeddled, UNCHANGED vars PROVE Unmeddled'
    BY <2>2, StutteringFresh DEF Unmeddled, vars, bounds
  <2>3. QED BY <2>1, <2>2
<1>3. QED BY <1>1, <1>2, Foundation, PTL DEF Spec

(* An export that failed has left nothing of its own at either name, if    *)
(* nobody meddled and its cleanup met no error: run_bundle.py,             *)
(* _remove_owned_bundle_directory.                                         *)
THEOREM NothingIsLeft == Spec => []FailedLeavesNothing
<1>1. ASSUME Typed, Owners, Unmeddled PROVE FailedLeavesNothing
  <2> SUFFICES ASSUME NEW p \in Exporters, answer[p] = "failed", edits = 0, ~StruckIn(p, Cleaning)
               PROVE  /\ root[p] # None => entry[Dest] # root[p]
                      /\ There(p) => StruckIn(p, {"mkdtemp", "create_bundle", "create_sidecar"})
    BY DEF FailedLeavesNothing
  <2>1. ~StruckIn(p, Removing) BY CleaningIsRemoving
  <2>2. Fresh BY <1>1 DEF Unmeddled
  <2>3. entry[Dest] # Own(p) /\ (~StruckIn(p, Losing) => entry[p] = None)
    BY <2>1, <2>2 DEF Fresh, Withdraws, Discarded
  <2>4. root[p] \in {None, Own(p)} BY <1>1 DEF Owners, Owns
  <2>5. QED BY <2>3, <2>4 DEF There, Losing
<1>2. QED BY <1>1, Foundation, Unspoiled, PTL

LEMMA WholeIsComplete ==
  ASSUME NEW p \in Exporters, entry[Dest] = Own(p), Whole(p)
  PROVE  Complete(Dest, p)
<1>1. There(Dest) BY Identities DEF There, Own
<1>2. ASSUME NEW m \in Members
      PROVE  Holds(Dest, m) /\ inside[entry[Dest]][m].by = p /\ inside[entry[Dest]][m].whole
  <2>1. inside[entry[Dest]][m] = Made(p, m) BY DEF Whole
  <2>2. Made(p, m) # None /\ Made(p, m).by = p /\ Made(p, m).whole BY FilesMade, OwnFiles
  <2>3. QED BY <1>1, <2>1, <2>2 DEF Holds
<1>3. QED BY <1>1, <1>2 DEF Complete, Whole

(* What a call has left to do is of its program or of the cleanup.         *)
LEMMA RangeOfSuffix ==
  ASSUME NEW P, NEW t, IsSuffix(t, P), P \in Seq(Stages)
  PROVE  Range(t) \subseteq Range(P)
<1>1. t \in Seq(Stages) /\ Len(t) <= Len(P) /\ Len(t) \in Nat /\ Len(P) \in Nat
  BY DEF IsSuffix
<1>2. DOMAIN t = 1 .. Len(t) /\ DOMAIN P = 1 .. Len(P) BY <1>1
<1>3. ASSUME NEW i \in DOMAIN t PROVE \E j \in DOMAIN P : t[i] = P[j]
  <2>1. Len(P) - Len(t) + i \in 1 .. Len(P) BY <1>1, <1>2
  <2>2. t[i] = P[Len(P) - Len(t) + i] BY <1>2 DEF IsSuffix
  <2>3. QED BY <1>2, <2>1, <2>2
<1>4. QED BY <1>3 DEF Range

LEMMA RemovalRange ==
  Range(Removal) = Removing
<1> DEFINE R == Removal
<1>1. DOMAIN R = {1, 2, 3, 4, 5, 6, 7, 8, 9, 10} BY DEF Removal, RemoveDestination
<1> HIDE DEF R
<1>2. Range(R) = {R[i] : i \in DOMAIN R} BY DEF Range
<1>3. R[1] = "discard" /\ R[2] = "look" /\ R[3] = "check_bundle" /\ R[4] = "unlink_bundle"
      /\ R[5] = "check_sidecar" /\ R[6] = "unlink_sidecar" /\ R[7] = "remaining"
      /\ R[8] = "check_root" /\ R[9] = "rmdir" /\ R[10] = "fail"
  BY RemovalLayout DEF R
<1>4. Range(R) = {"discard", "look", "check_bundle", "unlink_bundle", "check_sidecar",
                  "unlink_sidecar", "remaining", "check_root", "rmdir", "fail"}
  BY <1>1, <1>2, <1>3
<1>5. QED BY <1>4 DEF R, Removing

(* What stands at the destination throughout, whatever fails and whoever   *)
(* is killed, is whole or being taken away: run_bundle.py,                 *)
(* _publish_bundle_directory.                                              *)
THEOREM DestinationStaysWhole == Spec => []ExportInv
<1>1. ASSUME Typed PROVE TypeOK
  <2>1. ASSUME NEW p \in Processes PROVE Range(todo[p]) \subseteq Cleaning \cup Range(Program(p))
    <3>1. Controlled(p) BY <1>1 DEF Typed, Under
    <3>2. Program(p) \in Seq(Stages) /\ Removal \in Seq(Stages)
      BY Layout, StageValues DEF IsLaidOut, Processes
    <3>3. QED BY <3>1, <3>2, RangeOfSuffix, RemovalRange, CleaningIsRemoving DEF Controlled
  <2>2. \A d \in Roots, m \in Members : inside[d][m] \in File \cup {None}
    <3>1. ASSUME NEW d \in Roots, NEW m \in Members PROVE inside[d][m] \in File \cup {None}
      <4>1. inside[d] \in Contents BY <1>1 DEF Typed, Disks
      <4>2. QED BY <4>1, MemberIsField
    <3>2. QED BY <3>1
  <2>3. \A p \in Processes : \A m \in Members : seen[p][m] \in File \cup {None}
    BY <1>1, SightFields DEF Typed, Locals
  <2>4. QED BY <1>1, <2>1, <2>2, <2>3 DEF TypeOK, Typed, Disks, Locals, Bounded
<1>2. ASSUME Typed, Owners, Unmeddled PROVE DestinationIsWhole
  <2> SUFFICES ASSUME edits = 0, There(Dest)
               PROVE  \E p \in Exporters :
                        /\ entry[Dest] = root[p]
                        /\ Complete(Dest, p) \/ (todo[p] # <<>> /\ Head(todo[p]) \in Cleaning)
                           \/ StruckIn(p, Cleaning)
    BY DEF DestinationIsWhole
  <2>1. Fresh BY <1>2 DEF Unmeddled
  <2>2. PICK p \in Exporters : entry[Dest] = Own(p) BY <2>1 DEF Fresh, There
  <2>3. root[p] = Own(p) BY <1>2, <2>2 DEF Owners, Published
  <2>4. Whole(p) \/ Stage(p) \in Removing \/ StruckIn(p, Removing) BY <2>1, <2>2 DEF Fresh, Stays
  <2>5. Whole(p) => Complete(Dest, p) BY <2>2, WholeIsComplete
  <2>6. Stage(p) \in Removing => todo[p] # <<>> /\ Head(todo[p]) \in Cleaning
    BY CleaningIsRemoving, StageGroups DEF Stage
  <2>7. QED BY <2>2, <2>3, <2>4, <2>5, <2>6, CleaningIsRemoving
<1>3. QED BY <1>1, <1>2, Foundation, Unspoiled, PTL DEF ExportInv

----------------------------------------------------------------------------
(* A verification of a bundle that stands.                                 *)

(* What a call has captured is what stands at the destination.             *)
Agrees(p) ==
  /\ Stage(p) \in (Looking \ {"open"}) \cup Finishing => seen[p].guard = entry[Dest]
  /\ Stage(p) \in (Looking \ {"open", "root"}) \cup Finishing => seen[p].root = entry[Dest]
  /\ Stage(p) \in {"read_bundle", "read_sidecar"} \cup Finishing =>
       \A m \in Members : seen[p].ids[m] = inside[entry[Dest]][m].id
  /\ Stage(p) \in {"read_sidecar"} \cup Finishing => seen[p].bundle = inside[entry[Dest]].bundle
  /\ Stage(p) \in Finishing => seen[p].sidecar = inside[entry[Dest]].sidecar

(* A verification of a bundle of its own version goes on; of another it    *)
(* goes on until it has read both members.                                 *)
LEMMA GoesOn ==
  ASSUME Typed, NEW p \in Processes, NEW e \in Exporters, Complete(Dest, e), Agrees(p), Verify(p)
  PROVE  /\ Stage(p) \in Looking \cup (Finishing \ {"done"})
         /\ \/ Moved(p, After(p, Stage(p))) /\ UNCHANGED answer /\ Agrees(p)'
            \/ Version[e] # Version[p] /\ Raise(p)
<1> DEFINE D == entry[Dest]
<1>1. UNCHANGED <<entry, inside>>
  BY DEF Verify, Open, Root, Inventory, OpenMemberGuards, Read, InventoryAgain, ReadAgain, MembersAgain,
         RootAgain, AncestryAgain, GuardsAgain, Require, disk
<1>2. seen \in [Processes -> Sight] /\ seen[p] \in Sight BY DEF Typed, Locals
<1>5. /\ There(Dest) /\ D \in Roots /\ Strict
      /\ \A m \in Members : /\ Holds(Dest, m) /\ inside[D][m] # None /\ inside[D][m] \in File
                            /\ inside[D][m].by = e /\ inside[D][m].whole
                            /\ MemberIds(D)[m] = inside[D][m].id
      /\ MemberIds(D) \in [Members -> Files \cup {None}]
  <2>1. There(Dest) /\ D \in Roots BY Identities DEF Complete, There, Typed, Disks
  <2>2. Strict BY DEF Complete, Strict
  <2>3. inside[D] \in Contents BY <2>1 DEF Typed, Disks
  <2>4. ASSUME NEW m \in Members
        PROVE  /\ Holds(Dest, m) /\ inside[D][m] # None /\ inside[D][m] \in File
               /\ inside[D][m].by = e /\ inside[D][m].whole
               /\ MemberIds(D)[m] = inside[D][m].id
    <3>1. Holds(Dest, m) /\ inside[D][m].by = e /\ inside[D][m].whole BY DEF Complete
    <3>2. inside[D][m] # None BY <3>1 DEF Holds
    <3>3. inside[D][m] \in File BY <2>3, <3>2, MemberIsField
    <3>4. QED BY <3>1, <3>2, <3>3 DEF MemberIds
  <2>5. MemberIds(D) \in [Members -> Files \cup {None}] BY <2>4, FileFields DEF MemberIds
  <2>6. QED BY <2>1, <2>2, <2>4, <2>5
<1> HIDE DEF D
<1>3. ASSUME NEW s \in Looking \cup (Finishing \ {"done"}), At(p, s), Advance(p), UNCHANGED answer
      PROVE  /\ Stage(p) = s /\ Moved(p, After(p, s)) /\ Stage(p)' = After(p, s)
  <2>1. Stage(p) = s /\ todo[p] # <<>> BY <1>3, Moves DEF Typed, At
  <2>2. Moved(p, After(p, Stage(p))) BY <1>3, <2>1, Moves DEF Typed
  <2>3. QED BY <2>1, <2>2 DEF Moved
<1>4. Agrees(p) <=>
        /\ Stage(p) \in (Looking \ {"open"}) \cup Finishing => seen[p].guard = D
        /\ Stage(p) \in (Looking \ {"open", "root"}) \cup Finishing => seen[p].root = D
        /\ Stage(p) \in {"read_bundle", "read_sidecar"} \cup Finishing =>
             \A m \in Members : seen[p].ids[m] = inside[D][m].id
        /\ Stage(p) \in {"read_sidecar"} \cup Finishing => seen[p].bundle = inside[D].bundle
        /\ Stage(p) \in Finishing => seen[p].sidecar = inside[D].sidecar
  BY DEF Agrees, D
<1>22. Agrees(p)' <=>
        /\ Stage(p)' \in (Looking \ {"open"}) \cup Finishing => seen'[p].guard = D
        /\ Stage(p)' \in (Looking \ {"open", "root"}) \cup Finishing => seen'[p].root = D
        /\ Stage(p)' \in {"read_bundle", "read_sidecar"} \cup Finishing =>
             \A m \in Members : seen'[p].ids[m] = inside[D][m].id
        /\ Stage(p)' \in {"read_sidecar"} \cup Finishing => seen'[p].bundle = inside[D].bundle
        /\ Stage(p)' \in Finishing => seen'[p].sidecar = inside[D].sidecar
  BY <1>1 DEF Agrees, D
<1>6. ASSUME NEW s, At(p, s) PROVE Stage(p) = s BY <1>6, Moves DEF Typed
<1>7. ASSUME NEW m \in Members, Stage(p) \in {"read_bundle", "read_sidecar"} \cup Finishing
      PROVE  Directory(p) = D /\ Stable(p, m)
  <2>1. Stage(p) \in (Looking \ {"open"}) \cup Finishing BY <1>7 DEF Looking
  <2>2. seen[p].guard = D /\ seen[p].ids[m] = inside[D][m].id BY <1>4, <1>7, <2>1
  <2>3. Directory(p) = D BY <2>2 DEF Directory, D
  <2>4. D # None BY <1>5, Identities
  <2>5. QED BY <1>5, <2>2, <2>3, <2>4 DEF Stable
<1>8. ASSUME NEW s \in {"open", "root", "inventory", "guards", "read_bundle", "read_sidecar"}, At(p, s),
             Advance(p), UNCHANGED answer, NEW i, i = After(p, s),
             seen'[p].guard = D, s # "open" => seen'[p].root = D,
             i \in {"read_bundle", "read_sidecar", "inventory_again"} =>
               \A m \in Members : seen'[p].ids[m] = inside[D][m].id,
             i \in {"read_sidecar", "inventory_again"} => seen'[p].bundle = inside[D].bundle,
             i = "inventory_again" => seen'[p].sidecar = inside[D].sidecar
      PROVE  /\ Stage(p) \in Looking \cup (Finishing \ {"done"})
             /\ Moved(p, After(p, Stage(p))) /\ UNCHANGED answer /\ Agrees(p)'
  <2>1. s \in Looking BY DEF Looking
  <2>2. Stage(p) = s /\ Moved(p, After(p, s)) /\ Stage(p)' = i
    BY <1>3, <1>8, <2>1
  <2>3. /\ i \in {"root", "inventory", "guards", "read_bundle", "read_sidecar", "inventory_again"}
        /\ i = "root" => s = "open"
    BY <1>8 DEF After
  <2>4. /\ Stage(p)' \in (Looking \ {"open", "root"}) \cup Finishing => seen'[p].root = D
        /\ Stage(p)' \in (Looking \ {"open"}) \cup Finishing => seen'[p].guard = D
    <3>1. s = "open" => After(p, s) = "root" BY DEF After
    <3>2. QED BY <1>8, <2>2, <2>3, <3>1 DEF Looking, Finishing
  <2>5. Stage(p)' \in {"read_bundle", "read_sidecar"} \cup Finishing =>
          \A m \in Members : seen'[p].ids[m] = inside[D][m].id
    BY <1>8, <2>2, <2>3 DEF Finishing
  <2>6. Stage(p)' \in {"read_sidecar"} \cup Finishing => seen'[p].bundle = inside[D].bundle
    BY <1>8, <2>2, <2>3 DEF Finishing
  <2>7. Stage(p)' \in Finishing => seen'[p].sidecar = inside[D].sidecar
    BY <1>8, <2>2, <2>3 DEF Finishing
  <2>8. QED BY <1>8, <1>22, <2>1, <2>2, <2>4, <2>5, <2>6, <2>7
<1>9. ASSUME NEW s \in Finishing \ {"done"}, NEW c \in BOOLEAN, At(p, s), Require(p, c), Stage(p) = s => c
      PROVE  /\ Stage(p) \in Looking \cup (Finishing \ {"done"})
             /\ Moved(p, After(p, Stage(p))) /\ UNCHANGED answer /\ Agrees(p)'
  <2>1. Advance(p) /\ UNCHANGED <<seen, answer>> BY <1>6, <1>9 DEF Require
  <2>2. Stage(p) = s /\ Moved(p, After(p, s)) /\ Stage(p)' = After(p, s) BY <1>3, <1>9, <2>1
  <2>3. s \in Finishing /\ After(p, s) \in Finishing BY <1>9 DEF After, Finishing
  <2>4. Agrees(p)' BY <1>4, <1>22, <2>1, <2>2, <2>3
  <2>5. QED BY <1>9, <2>1, <2>2, <2>4
<1>10. CASE Open(p)
  <2>1. Stage(p) = "open" BY <1>6, <1>10 DEF Open
  <2>2. There(Dest) /\ D \in Roots BY <1>5, <2>1 DEF Looking
  <2>3. seen' = [seen EXCEPT ![p].guard = D] /\ Advance(p) /\ UNCHANGED answer /\ At(p, "open")
    BY <1>10, <2>2 DEF Open, D
  <2> DEFINE o == seen[p]
             n == [o EXCEPT !.guard = D]
  <2>4. n \in Sight /\ n.guard = D
    <3>1. o \in Sight BY <1>2
    <3> HIDE DEF o
    <3>2. QED BY <3>1, <2>2, SightFields DEF Sight
  <2>5. seen'[p] = n BY <1>2, <2>3
  <2>6. After(p, "open") = "root" BY DEF After
  <2> HIDE DEF n
  <2>7. QED BY <1>8, <2>3, <2>4, <2>5, <2>6
<1>11. CASE Root(p)
  <2>1. Stage(p) = "root" BY <1>6, <1>11 DEF Root
  <2>2. There(Dest) /\ seen[p].guard = D /\ D \in Roots
    BY <1>4, <1>5, <2>1 DEF Looking
  <2>3. seen' = [seen EXCEPT ![p].root = D] /\ Advance(p) /\ UNCHANGED answer /\ At(p, "root")
    BY <1>11, <2>2 DEF Root, D
  <2> DEFINE o == seen[p]
             n == [o EXCEPT !.root = D]
  <2>4. n \in Sight /\ n.guard = o.guard /\ n.root = D
    <3>1. o \in Sight BY <1>2
    <3> HIDE DEF o
    <3>2. QED BY <3>1, <2>2, SightFields DEF Sight
  <2>5. seen'[p] = n BY <1>2, <2>3
  <2>6. After(p, "root") = "inventory" BY DEF After
  <2> HIDE DEF n
  <2>7. QED BY <1>8, <2>2, <2>3, <2>4, <2>5, <2>6
<1>12. CASE Inventory(p)
  <2>1. Stage(p) = "inventory" BY <1>6, <1>12 DEF Inventory
  <2>2. Strict /\ seen[p].guard = D /\ seen[p].root = D
        /\ \A m \in Members : MemberIds(D)[m] = inside[D][m].id
    BY <1>4, <1>5, <2>1 DEF Looking
  <2> DEFINE i == IF Version[p] = "v1" THEN seen[p].ids ELSE MemberIds(D)
             o == seen[p]
             n == [o EXCEPT !.ids = i]
  <2>3. /\ seen' = [seen EXCEPT ![p].ids = i] /\ Advance(p) /\ UNCHANGED answer
        /\ At(p, "inventory")
    BY <1>2, <1>12, <2>2 DEF Inventory, D
  <2>4. Version[p] # "v1" => \A m \in Members : i[m] = inside[D][m].id BY <2>2
  <2>5. i \in [Members -> Files \cup {None}] BY <1>2, <1>5, <2>1, SightFields DEF Looking
  <2> HIDE DEF i
  <2>6. n \in Sight /\ n.guard = o.guard /\ n.root = o.root /\ n.ids = i
    <3>1. o \in Sight BY <1>2
    <3> HIDE DEF o
    <3>2. QED BY <3>1, <2>5, SightFields DEF Sight
  <2>7. seen'[p] = n BY <1>2, <2>3
  <2>8. After(p, "inventory") = IF Version[p] = "v1" THEN "guards" ELSE "read_bundle" BY DEF After
  <2> HIDE DEF n
  <2>9. QED BY <1>8, <2>2, <2>3, <2>4, <2>6, <2>7, <2>8
<1>13. CASE OpenMemberGuards(p)
  <2>1. Stage(p) = "guards" BY <1>6, <1>13 DEF OpenMemberGuards
  <2>2. seen[p].guard = D /\ seen[p].root = D BY <1>4, <2>1 DEF Looking
  <2> DEFINE i == MemberIds(D)
             o == seen[p]
             n == [o EXCEPT !.ids = i]
  <2>3. /\ \A m \in Members : inside[D][m] # None /\ i[m] = inside[D][m].id
        /\ i \in [Members -> Files \cup {None}]
    BY <1>5, <2>1 DEF Looking, Holds
  <2>4. /\ seen' = [seen EXCEPT ![p].ids = i] /\ Advance(p) /\ UNCHANGED answer
        /\ At(p, "guards")
    BY <1>13, <2>2, <2>3 DEF OpenMemberGuards
  <2> HIDE DEF i
  <2>5. n \in Sight /\ n.guard = o.guard /\ n.root = o.root /\ n.ids = i
    <3>1. o \in Sight BY <1>2
    <3> HIDE DEF o
    <3>2. QED BY <3>1, <2>3, SightFields DEF Sight
  <2>6. seen'[p] = n BY <1>2, <2>4
  <2>7. After(p, "guards") = "read_bundle" BY DEF After
  <2> HIDE DEF n
  <2>8. QED BY <1>8, <2>2, <2>3, <2>4, <2>5, <2>6, <2>7
<1>14. ASSUME NEW m \in Members, NEW s, s = IF m = "bundle" THEN "read_bundle" ELSE "read_sidecar",
              Read(p, m, s)
       PROVE  /\ Stage(p) \in Looking
              /\ \/ Moved(p, After(p, Stage(p))) /\ UNCHANGED answer /\ Agrees(p)'
                 \/ Version[e] # Version[p] /\ Raise(p)
  <2>1. Stage(p) = s /\ s \in Looking /\ s \in {"read_bundle", "read_sidecar"} /\ At(p, s)
    BY <1>6, <1>14 DEF Read, Looking
  <2>2. /\ seen[p].guard = D /\ seen[p].root = D
        /\ \A k \in Members : seen[p].ids[k] = inside[D][k].id
        /\ m = "sidecar" => seen[p].bundle = inside[D].bundle
    BY <1>4, <1>14, <2>1 DEF Looking
  <2> DEFINE f == inside[D][m]
             o == seen[p]
             n == [o EXCEPT ![m] = f]
  <2>3. Directory(p) = D /\ Stable(p, m) BY <1>7, <1>14, <2>1
  <2>4. m = "sidecar" => (Valid(p, seen[p].bundle, f) <=> Version[e] = Version[p])
    <3>1. inside[D].bundle.by = e /\ inside[D].bundle.whole /\ f.by = e /\ f.whole
      BY <1>5, MemberNames
    <3>2. QED BY <2>2, <3>1 DEF Valid
  <2>5. f \in File BY <1>5
  <2>6. CASE m = "sidecar" /\ Version[e] # Version[p]
    <3>1. Raise(p) BY <1>14, <2>3, <2>4, <2>6 DEF Read
    <3>2. QED BY <2>1, <2>6, <3>1
  <2>7. CASE ~(m = "sidecar" /\ Version[e] # Version[p])
    <3>1. seen' = [seen EXCEPT ![p][m] = f] /\ Advance(p) /\ UNCHANGED answer
      BY <1>14, <2>3, <2>4, <2>7 DEF Read
    <3>2. f = inside[D][m] OBVIOUS
    <3> HIDE DEF f
    <3>3. /\ n.guard = o.guard /\ n.root = o.root /\ n.ids = o.ids /\ n[m] = f
          /\ m = "sidecar" => n.bundle = o.bundle
      <4>1. o \in Sight BY <1>2
      <4> HIDE DEF o
      <4>2. QED BY <4>1, <2>5, SightFields, MemberNames DEF Sight
    <3>4. seen'[p] = n BY <1>2, <3>1
    <3> HIDE DEF n
    <3>5. After(p, s) = IF m = "bundle" THEN "read_sidecar" ELSE "inventory_again"
      BY <1>14, MemberNames DEF After
    <3>6. m = "bundle" => seen'[p].bundle = inside[D].bundle BY <3>2, <3>3, <3>4
    <3>7. m = "sidecar" => seen'[p].sidecar = inside[D].sidecar /\ seen'[p].bundle = inside[D].bundle
      BY <2>2, <3>2, <3>3, <3>4
    <3>8. m = "bundle" \/ m = "sidecar" BY MemberNames
    <3>9. QED BY <1>8, <2>1, <2>2, <3>1, <3>3, <3>4, <3>5, <3>6, <3>7, <3>8
  <2>8. QED BY <2>6, <2>7
<1>15. CASE InventoryAgain(p)
  <2> DEFINE c == Strict /\ MemberIds(D) = seen[p].ids
  <2>1. Stage(p) = "inventory_again" BY <1>6, <1>15 DEF InventoryAgain
  <2>2. seen[p].ids \in [Members -> Files \cup {None}] BY <1>2, SightFields
  <2>3. \A m \in Members : seen[p].ids[m] = inside[D][m].id BY <1>4, <2>1 DEF Finishing
  <2>4. MemberIds(D) \in [Members -> Files \cup {None}]
        /\ \A m \in Members : MemberIds(D)[m] = inside[D][m].id
    BY <1>5, <2>1 DEF Finishing
  <2>5. MemberIds(D) = seen[p].ids BY <2>2, <2>3, <2>4
  <2>6. c /\ c \in BOOLEAN BY <1>5, <2>1, <2>5 DEF Finishing, Strict
  <2>7. At(p, "inventory_again") /\ Require(p, c) BY <1>15 DEF InventoryAgain, D
  <2>8. "inventory_again" \in Finishing \ {"done"} BY DEF Finishing
  <2> HIDE DEF c
  <2>9. QED BY <1>9, <2>6, <2>7, <2>8
<1>16. ASSUME NEW m \in Members, NEW s \in {"bundle_again", "sidecar_again"}, ReadAgain(p, m, s)
       PROVE  /\ Stage(p) \in Looking \cup (Finishing \ {"done"})
              /\ Moved(p, After(p, Stage(p))) /\ UNCHANGED answer /\ Agrees(p)'
  <2>1. Stage(p) = s /\ s \in Finishing \ {"done"} BY <1>6, <1>16 DEF ReadAgain, Finishing
  <2>2. Directory(p) = D /\ Stable(p, m) BY <1>7, <1>16, <2>1
  <2>3. seen[p][m] = inside[D][m] BY <1>4, <1>16, <2>1, MemberNames
  <2>4. Unchanged(p, m) /\ Unchanged(p, m) \in BOOLEAN BY <2>2, <2>3 DEF Unchanged
  <2>5. At(p, s) /\ Require(p, Unchanged(p, m)) BY <1>16 DEF ReadAgain
  <2>6. QED BY <1>9, <2>1, <2>4, <2>5
<1>17. CASE MembersAgain(p)
  <2> DEFINE c == \A m \in Members : Holds(Dest, m) /\ inside[entry[Dest]][m].id = seen[p].ids[m]
  <2>1. Stage(p) = "members_again" BY <1>6, <1>17 DEF MembersAgain
  <2>2. \A m \in Members : seen[p].ids[m] = inside[D][m].id BY <1>4, <2>1 DEF Finishing
  <2>3. c /\ c \in BOOLEAN BY <1>5, <2>1, <2>2 DEF Finishing, D
  <2>4. At(p, "members_again") /\ Require(p, c) BY <1>17 DEF MembersAgain
  <2>5. "members_again" \in Finishing \ {"done"} BY DEF Finishing
  <2> HIDE DEF c
  <2>6. QED BY <1>9, <2>3, <2>4, <2>5
<1>18. CASE RootAgain(p)
  <2> DEFINE c == entry[Dest] = seen[p].root
  <2>1. Stage(p) = "root_again" BY <1>6, <1>18 DEF RootAgain
  <2>2. c /\ c \in BOOLEAN BY <1>4, <1>5, <2>1 DEF Finishing, Looking, D
  <2>3. At(p, "root_again") /\ Require(p, c) BY <1>18 DEF RootAgain
  <2>4. "root_again" \in Finishing \ {"done"} BY DEF Finishing
  <2> HIDE DEF c
  <2>5. QED BY <1>9, <2>2, <2>3, <2>4
<1>19. CASE AncestryAgain(p)
  <2> DEFINE c == entry[Dest] = seen[p].guard
  <2>1. Stage(p) = "ancestry_again" BY <1>6, <1>19 DEF AncestryAgain
  <2>2. c /\ c \in BOOLEAN BY <1>4, <1>5, <2>1 DEF Finishing, Looking, D
  <2>3. At(p, "ancestry_again") /\ Require(p, c) BY <1>19 DEF AncestryAgain
  <2>4. "ancestry_again" \in Finishing \ {"done"} BY DEF Finishing
  <2> HIDE DEF c
  <2>5. QED BY <1>9, <2>2, <2>3, <2>4
<1>20. CASE GuardsAgain(p)
  <2> DEFINE c == \A m \in Members : Stable(p, m)
  <2>1. Stage(p) = "guards_again" BY <1>6, <1>20 DEF GuardsAgain
  <2>2. c /\ c \in BOOLEAN BY <1>7, <2>1 DEF Finishing
  <2>3. At(p, "guards_again") /\ Require(p, c) BY <1>20 DEF GuardsAgain
  <2>4. "guards_again" \in Finishing \ {"done"} BY DEF Finishing
  <2> HIDE DEF c
  <2>5. QED BY <1>9, <2>2, <2>3, <2>4
<1>21. QED
  BY <1>10, <1>11, <1>12, <1>13, <1>14, <1>15, <1>16, <1>17, <1>18, <1>19, <1>20, MemberNames
  DEF Verify, Finishing

----------------------------------------------------------------------------
(* An export verifies what it has published.                               *)

Witness(p) ==
  /\ Stage(p) \in Looking \cup Finishing => Agrees(p)
  /\ Succeeded(p) => answer[p] = p

(* While nobody meddles an export never rejects its own bundle.            *)
LEMMA WitnessGoesOn ==
  ASSUME Typed, Owners, Fresh, NEW p \in Exporters, Witness(p), Verify(p)
  PROVE  Stage(p) \in Looking \cup (Finishing \ {"done"}) /\ Moved(p, After(p, Stage(p))) /\ Witness(p)'
<1>1. p \in Processes BY Identities
<1>2. Stage(p) \in Looking \cup Finishing
  <2>1. \A s : At(p, s) => Stage(p) = s BY <1>1, Moves DEF Typed
  <2>2. QED BY <2>1 DEF Verify, Open, Root, Inventory, OpenMemberGuards, Read, InventoryAgain, ReadAgain,
               MembersAgain, RootAgain, AncestryAgain, GuardsAgain, Looking, Finishing
<1>3. entry[Dest] = Own(p) /\ Whole(p) BY <1>2 DEF Fresh, Stays, Public
<1>4. Complete(Dest, p) BY <1>3, WholeIsComplete
<1>5. Agrees(p) BY <1>2 DEF Witness
<1>6. /\ Stage(p) \in Looking \cup (Finishing \ {"done"})
      /\ Moved(p, After(p, Stage(p))) /\ UNCHANGED answer /\ Agrees(p)'
  BY <1>1, <1>4, <1>5, GoesOn
<1>7. QED BY <1>6 DEF Witness, Succeeded

----------------------------------------------------------------------------
(* One of the exports publishes.                                           *)

Attested == \A p \in Exporters : Witness(p)

(* If nothing fails at all, the destination goes to an export that keeps   *)
(* it, and until then nobody has given up.                                 *)
Contest ==
  struck = {} =>
    /\ \A p \in Exporters : entry[Dest] = Own(p) => Stage(p) \in Public \/ Succeeded(p)
    /\ entry[Dest] = None => \A p \in Exporters : Stage(p) \in Preparing \cup Making

LEMMA SeesAlone ==
  ASSUME Typed, NEW p \in Processes, Step(p) \/ Fault(p), NEW q \in Processes, q # p
  PROVE  seen'[q] = seen[q]
<1>1. seen \in [Processes -> Sight] BY DEF Typed, Locals
<1>2. Raise(p) => seen'[q] = seen[q] BY <1>1 DEF Raise
<1>3. \A c : Require(p, c) => seen'[q] = seen[q] BY <1>1, <1>2 DEF Require
<1>4. CASE Verify(p)
  <2>1. CASE Open(p) \/ Root(p) \/ Inventory(p) \/ OpenMemberGuards(p)
    BY <1>1, <1>2, <2>1 DEF Open, Root, Inventory, OpenMemberGuards
  <2>2. CASE Read(p, "bundle", "read_bundle") \/ Read(p, "sidecar", "read_sidecar")
    BY <1>1, <1>2, <2>2 DEF Read
  <2>3. CASE InventoryAgain(p) \/ MembersAgain(p) \/ GuardsAgain(p)
    BY <1>3, <2>3 DEF InventoryAgain, MembersAgain, GuardsAgain
  <2>4. CASE \/ ReadAgain(p, "bundle", "bundle_again") \/ ReadAgain(p, "sidecar", "sidecar_again")
             \/ RootAgain(p) \/ AncestryAgain(p)
    BY <1>3, <2>4 DEF ReadAgain, RootAgain, AncestryAgain
  <2>5. QED BY <1>4, <2>1, <2>2, <2>3, <2>4 DEF Verify
<1>5. CASE Done(p) BY <1>1, <1>5 DEF Done
<1>6. CASE Export(p)
  <2>1. CASE Exists(p) \/ MakeStaging(p) \/ WriteMembers(p)
    BY <2>1 DEF Exists, MakeStaging, WriteMembers, Create, Fill
  <2>2. CASE VerifyStaging(p) \/ Confirm(p) BY <1>3, <2>2 DEF VerifyStaging, Confirm
  <2>3. CASE Publish(p) BY <1>2, <2>3 DEF Publish
  <2>4. CASE RemoveOwned(p)
    BY <2>4 DEF RemoveOwned, Discard, Look, CheckMember, UnlinkMember, Remaining, CheckRoot, RemoveRoot,
                Fail, Check
  <2>5. QED BY <1>6, <2>1, <2>2, <2>3, <2>4 DEF Export
<1>7. CASE Fault(p)
  BY <1>1, <1>2, <1>7 DEF Fault, Interrupted, Crash, InterruptedUnknown, InterruptedRename, CleanupFails
<1>8. QED BY <1>4, <1>5, <1>6, <1>7 DEF Step

(* A step that is not of the verification does not lead into it.           *)
LEMMA Departs ==
  ASSUME Typed, Owners, NEW p \in Exporters, Export(p) \/ Fault(p)
  PROVE  /\ Stage(p)' \notin (Looking \ {"open"}) \cup Finishing
         /\ answer'[p] = answer[p] \/ answer'[p] \in Answers
<1>1. p \in Processes BY Identities
<1>2. answer \in [Processes -> Exporters \cup Answers \cup {None}] BY DEF Typed, Locals
<1>3. {"refused", "failed", "aborted", "crashed"} \subseteq Answers BY AnswersDiffer
<1>4. Fallback(p) \notin Looking \cup Finishing BY DEF Fallback, Looking, Finishing
<1>5. "over" \notin Looking \cup Finishing BY DEF Looking, Finishing
<1>6. CASE Export(p)
  <2>1. Stage(p) \in Preparing \cup Making \cup {"confirm"} \cup Removing
    <3>1. \A s : At(p, s) => Stage(p) = s BY <1>1, Moves DEF Typed
    <3>2. CASE Exists(p) \/ MakeStaging(p) \/ WriteMembers(p) \/ VerifyStaging(p) \/ Publish(p) \/ Confirm(p)
      BY <3>1, <3>2, StageGroups DEF Exists, MakeStaging, WriteMembers, VerifyStaging, Publish, Confirm
    <3>3. CASE RemoveOwned(p)
      BY <3>1, <3>3, StageGroups DEF RemoveOwned, Discard, Look, CheckMember, UnlinkMember, Remaining,
         CheckRoot, RemoveRoot, Fail
    <3>4. QED BY <1>6, <3>2, <3>3 DEF Export
  <2>2. Quiet(p) \/ Loud(p) BY <1>6, ExportIsQuiet, CheckIsQuiet, ExportIsLoud DEF Export, RemoveOwned
  <2>3. CASE Passes(p)
    <3>1. Stage(p) \in {"exists", "verify_staged", "confirm"}
      BY <2>1, <2>3, StageGroups DEF Passes, Looking, Finishing
    <3>2. Stage(p)' \in {"mkdtemp", "publish", "open"} BY <2>3, <3>1 DEF Passes, Moved, After
    <3>3. QED BY <2>3, <3>2 DEF Passes, Looking, Finishing
  <2>4. CASE Fails(p) BY <1>4, <2>4 DEF Fails, Raised, Moved
  <2>5. CASE Succeeds(p) BY <2>1, <2>5, StageGroups DEF Succeeds
  <2>6. CASE Refused(p) \/ Finishes(p) \/ Killed(p)
    BY <1>1, <1>2, <1>3, <1>5, <2>6 DEF Refused, Finishes, Killed, Ends, Moved
  <2>7. CASE Seeks(p)
    <3>1. Stage(p)' \in Removing BY <2>7, StageGroups DEF Seeks, Moved, After, Reached
    <3>2. QED BY <2>7, <3>1, StageValues DEF Seeks
  <2>8. CASE Hindered(p)
    <3>1. Stage(p)' \in Removing \cup {"over"} BY <2>8, StageGroups DEF Hindered, Ends, Moved, After
    <3>2. answer'[p] = answer[p] \/ answer'[p] \in Answers
      BY <1>1, <1>2, <1>3, <2>8 DEF Hindered, Ends
    <3>3. QED BY <1>5, <3>1, <3>2, StageValues
  <2>9. CASE Loud(p)
    <3>1. answer' = answer BY <2>9 DEF Loud, MakesSibling, Renames, Discards, RemovesRoot, Loses, Creates,
                              Completes, Unlinks, Raised
    <3>2. Stage(p)' \in Removing \cup Making \cup {"confirm", Fallback(p)}
      <4>1. ASSUME NEW m \in Members, Creates(p, m) \/ Completes(p, m) \/ Unlinks(p, m)
            PROVE  Stage(p)' \in Removing \cup Making
        BY <4>1, StageGroups DEF Creates, Completes, Unlinks, Moved, Unlink, After
      <4>2. QED BY <2>9, <4>1, StageGroups
                DEF Loud, MakesSibling, Renames, Discards, RemovesRoot, Loses, Raised, Moved
    <3>3. QED BY <1>4, <3>1, <3>2, StageGroups DEF Looking, Finishing
  <2>10. QED BY <2>2, <2>3, <2>4, <2>5, <2>6, <2>7, <2>8, <2>9 DEF Quiet
<1>7. CASE Fault(p)
  <2>1. todo[p] # <<>> /\ Stage(p) = Head(todo[p])
    <3>1. todo[p] # <<>>
      BY <1>7 DEF Fault, Interrupted, Crash, InterruptedUnknown, InterruptedRename, CleanupFails, Strike
    <3>2. QED BY <1>1, <3>1, Moves DEF Typed
  <2>2. Raise(p) => Stage(p)' = Fallback(p) /\ UNCHANGED answer
    BY <1>1, Moves DEF Typed, Raised, Moved
  <2>3. CASE Raise(p) BY <1>4, <2>2, <2>3
  <2>4. CASE Crash(p)
    <3>1. Stage(p)' = "over" BY <1>1, <2>4, Moves DEF Typed, Crash, Moved
    <3>2. QED BY <1>1, <1>2, <1>3, <1>5, <2>4, <3>1 DEF Crash
  <2>5. CASE CleanupFails(p)
    <3>1. Stage(p)' \in {"fail", "over", After(p, Stage(p))} BY <1>1, <2>1, <2>5, Moves DEF Typed, CleanupFails, Moved
    <3>2. Stage(p) \in Removing BY <2>1, <2>5, CleaningIsRemoving DEF CleanupFails
    <3>3. After(p, Stage(p)) \in Removing \cup {"over"} BY <3>2, StageGroups DEF After
    <3>4. answer'[p] = answer[p] \/ answer'[p] \in Answers
      BY <1>1, <1>2, <1>3, <2>5 DEF CleanupFails
    <3>5. QED BY <1>5, <3>1, <3>3, <3>4, StageValues
  <2>6. QED BY <1>7, <2>3, <2>4, <2>5 DEF Fault, Interrupted, InterruptedUnknown, InterruptedRename
<1>8. QED BY <1>6, <1>7

(* An export that comes to its end has seen its own bundle.                *)
LEMMA Sees ==
  ASSUME Fresh, Attested, NEW p \in Exporters, Stage(p) = "done"
  PROVE  seen[p].bundle.by = p
<1>1. Witness(p) /\ Stays(p) BY DEF Attested, Fresh
<1>2. seen[p].bundle = inside[entry[Dest]].bundle BY <1>1 DEF Witness, Agrees, Finishing
<1>3. entry[Dest] = Own(p) /\ Whole(p) BY <1>1 DEF Stays, Public, Finishing
<1>4. inside[Own(p)].bundle = Made(p, "bundle") BY <1>3, MemberNames DEF Whole
<1>5. Made(p, "bundle").by = p BY FilesMade, MemberNames
<1>6. QED BY <1>2, <1>3, <1>4, <1>5

LEMMA AttestedStep ==
  ASSUME Typed, Owners, Fresh, Attested, Next, ~Edit
  PROVE  Attested'
<1>1. PICK p \in Processes : Step(p) \/ Fault(p) BY DEF Next
<1>2. answer \in [Processes -> Exporters \cup Answers \cup {None}] BY DEF Typed, Locals
<1>3. ASSUME NEW q \in Exporters, q # p PROVE Witness(q)'
  <2>1. q \in Processes BY Identities
  <2>2. Quiet(p) \/ (p \in Exporters /\ Loud(p))
    BY <1>1, VerificationIsQuiet, ExportIsQuiet, CheckIsQuiet, ExportIsLoud, FaultIsQuiet
    DEF Step, Export, RemoveOwned, Fault
  <2>3. Untouched(q) BY <1>3, <2>2, FreshOthers
  <2>4. seen'[q] = seen[q] BY <1>1, <1>3, <2>1, SeesAlone
  <2>5. Stage(q) \in Looking \cup Finishing => entry[Dest] = Own(q) BY DEF Fresh, Stays, Public
  <2>6. Witness(q) BY DEF Attested
  <2>7. Stage(q)' \in Looking \cup Finishing => Agrees(q)'
    <3> SUFFICES ASSUME Stage(q)' \in Looking \cup Finishing PROVE Agrees(q)' OBVIOUS
    <3>1. entry[Dest] = Own(q) /\ entry'[Dest] = Own(q) /\ inside'[Own(q)] = inside[Own(q)]
          /\ Agrees(q) /\ Stage(q)' = Stage(q)
      BY <2>3, <2>5, <2>6 DEF Untouched, Witness
    <3>2. QED BY <2>4, <3>1 DEF Agrees
  <2>8. QED BY <2>3, <2>6, <2>7 DEF Witness, Untouched, Succeeded
<1>4. ASSUME p \in Exporters PROVE Witness(p)'
  <2>1. Witness(p) BY <1>4 DEF Attested
  <2>2. CASE Verify(p) BY <1>4, <2>1, <2>2, WitnessGoesOn
  <2>3. CASE Done(p)
    <3>1. Stage(p) = "done" /\ todo[p] # <<>> BY <2>3, Moves DEF Typed, Done, At
    <3>2. Stage(p)' = "over" BY <2>3, <3>1, Moves DEF Typed, Done, After, Moved
    <3>3. seen[p].bundle.by = p BY <1>4, <3>1, Sees
    <3>5. answer'[p] = p BY <1>2, <2>3, <3>3 DEF Done
    <3>6. QED BY <3>2, <3>5 DEF Witness, Looking, Finishing
  <2>4. CASE Export(p) \/ Fault(p)
    <3>1. /\ Stage(p)' \notin (Looking \ {"open"}) \cup Finishing
          /\ answer'[p] = answer[p] \/ answer'[p] \in Answers
      BY <1>4, <2>4, Departs
    <3>2. Succeeded(p)' => answer'[p] = p BY <2>1, <3>1, AnswersDiffer DEF Witness, Succeeded
    <3>3. Stage(p)' \notin {"read_bundle", "read_sidecar"} \cup Finishing
      BY <3>1 DEF Looking
    <3>4. Agrees(p)'
      <4>1. /\ Stage(p)' \notin (Looking \ {"open", "root"}) \cup Finishing
            /\ Stage(p)' \notin {"read_sidecar"} \cup Finishing /\ Stage(p)' \notin Finishing
        BY <3>1, <3>3
      <4>2. QED BY <3>1, <3>3, <4>1 DEF Agrees
    <3>5. QED BY <3>2, <3>4 DEF Witness
  <2>5. QED BY <1>1, <2>2, <2>3, <2>4 DEF Step
<1>5. QED BY <1>3, <1>4 DEF Attested

(* What one exporter's step must leave for the contest to go on.           *)
LEMMA ContestGoesOn ==
  ASSUME Typed, Owners, Fresh, Contest, struck = {}, NEW p \in Exporters,
         Quiet(p) \/ Loud(p),
         entry'[Dest] \in {entry[Dest], Own(p)},
         entry'[Dest] = Own(p) => Stage(p)' \in Public \/ answer'[p] \in Exporters,
         entry'[Dest] = None => Stage(p)' \in Preparing \cup Making
  PROVE  Contest'
<1>1. p \in Processes /\ Own(p) # None BY Identities DEF Own
<1>2. ASSUME NEW q \in Exporters, q # p
      PROVE  /\ entry'[Dest] = Own(q) => Stage(q)' \in Public \/ Succeeded(q)'
             /\ entry'[Dest] = None => Stage(q)' \in Preparing \cup Making
  <2>1. Untouched(q) BY <1>1, <1>2, FreshOthers
  <2>2. Own(q) # Own(p) BY <1>2, Identities DEF Own
  <2>3. QED BY <1>1, <2>1, <2>2 DEF Contest, Untouched, Succeeded
<1>3. ASSUME NEW q \in Exporters
      PROVE  /\ entry'[Dest] = Own(q) => Stage(q)' \in Public \/ Succeeded(q)'
             /\ entry'[Dest] = None => Stage(q)' \in Preparing \cup Making
  BY <1>2 DEF Succeeded
<1>4. QED BY <1>3 DEF Contest, Own

LEMMA ContestStep ==
  ASSUME Typed, Owners, Fresh, Attested, Contest, Next, ~Edit
  PROVE  Contest'
<1> SUFFICES ASSUME struck' = {} PROVE Contest' BY DEF Contest
<1>1. PICK p \in Processes : Step(p) \/ Fault(p) BY DEF Next
<1>2. /\ answer \in [Processes -> Exporters \cup Answers \cup {None}]
      /\ entry \in [Names -> Roots \cup {None}]
      /\ \A q \in Processes : answer[q] = None <=> Stage(q) # "over"
  BY DEF Typed, Locals, Disks, Calls
<1>3. Step(p)
  <2>1. ASSUME Fault(p) PROVE FALSE
    <3> DEFINE new == <<p, Head(todo[p])>>
    <3>1. struck' = struck \cup {new}
      BY <2>1 DEF Fault, Interrupted, Crash, InterruptedUnknown, InterruptedRename, CleanupFails, Strike
    <3> HIDE DEF new
    <3>2. QED BY <3>1
  <2>2. QED BY <1>1, <2>1
<1>4. struck = {} /\ UNCHANGED struck BY <1>3, StepBounds DEF bounds
<1>5. CASE p \notin Exporters
  <2>1. Verify(p) \/ Done(p) BY <1>3, <1>5 DEF Step
  <2>2. Quiet(p) BY <2>1, VerificationIsQuiet
  <2>3. ASSUME NEW q \in Exporters PROVE Untouched(q) BY <1>5, <2>2, <2>3, FreshOthers
  <2>4. UNCHANGED entry BY <2>2 DEF Quiet, Still
  <2>5. QED BY <1>4, <2>3, <2>4 DEF Contest, Untouched, Succeeded, Own
<1>6. CASE p \in Exporters
  <2>1. Own(p) # None /\ p \in Names /\ Dest \in Names /\ p # Dest /\ Own(p) \in Roots
    BY <1>6, Identities DEF Own
  <2>2. Owns(p) /\ Published(p) /\ Stays(p) /\ Witness(p)
        /\ (entry[Dest] = Own(p) => Stage(p) \in Public \/ Succeeded(p))
        /\ (entry[Dest] = None => Stage(p) \in Preparing \cup Making)
    BY <1>4, <1>6 DEF Owners, Fresh, Attested, Contest
  <2>3. Quiet(p) \/ Loud(p)
    BY <1>3, <1>6, VerificationIsQuiet, ExportIsQuiet, CheckIsQuiet, ExportIsLoud
    DEF Step, Export, RemoveOwned
  <2>4. \A s : At(p, s) => Stage(p) = s /\ todo[p] # <<>> BY Moves DEF Typed, At
  <2>5. todo[p] # <<>> /\ Advance(p) => Stage(p)' = After(p, Stage(p))
    BY Moves DEF Typed, Moved
  <2>6. CASE Verify(p)
    <3>1. Stage(p) \in Looking \cup (Finishing \ {"done"}) /\ Stage(p)' = After(p, Stage(p))
      BY <1>6, <2>2, <2>6, WitnessGoesOn DEF Moved
    <3>2. entry[Dest] = Own(p) /\ UNCHANGED entry
      <4>1. Still BY <2>6, VerificationIsQuiet DEF Quiet
      <4>2. QED BY <2>2, <3>1, <4>1 DEF Stays, Public, Still
    <3>3. Stage(p)' \in Public BY <3>1, StageGroups DEF After, Looking, Finishing
    <3>4. QED BY <1>4, <1>6, <2>1, <2>3, <3>2, <3>3, ContestGoesOn
  <2>7. CASE Done(p)
    <3>1. Stage(p) = "done" BY <2>4, <2>7 DEF Done
    <3>2. seen[p].bundle.by = p BY <1>6, <3>1, Sees
    <3>4. answer'[p] \in Exporters BY <1>2, <1>6, <2>7, <3>2 DEF Done
    <3>5. entry[Dest] = Own(p) /\ UNCHANGED entry
      BY <2>2, <2>7, <3>1 DEF Stays, Public, Finishing, Done, disk
    <3>6. QED BY <1>4, <1>6, <2>1, <2>3, <3>4, <3>5, ContestGoesOn
  <2>8. CASE Exists(p)
    <3>1. Stage(p) = "exists" /\ UNCHANGED entry BY <2>4, <2>8 DEF Exists, disk
    <3>2. entry[Dest] # Own(p) BY <2>2, <3>1 DEF Published, Preparing
    <3>3. ~There(Dest) => Stage(p)' = "mkdtemp" BY <2>4, <2>5, <2>8, <3>1 DEF Exists, After
    <3>4. entry'[Dest] = None => Stage(p)' \in Preparing \cup Making
      BY <3>1, <3>3, StageGroups DEF There
    <3>5. QED BY <1>4, <1>6, <2>3, <3>1, <3>2, <3>4, ContestGoesOn
  <2>9. CASE MakeStaging(p) \/ WriteMembers(p)
    <3>1. Stage(p) \in {"mkdtemp", "create_bundle", "fill_bundle", "create_sidecar", "fill_sidecar"}
          /\ todo[p] # <<>> /\ Advance(p)
      BY <2>4, <2>9 DEF MakeStaging, WriteMembers, Create, Fill
    <3>2. Stage(p)' \in Making BY <2>5, <3>1, StageGroups DEF After
    <3>3. entry'[Dest] = entry[Dest] BY <1>2, <2>1, <2>9 DEF MakeStaging, WriteMembers, Create, Fill
    <3>4. entry[Dest] # Own(p) BY <2>2, <3>1, StageGroups DEF Published
    <3>5. QED BY <1>4, <1>6, <2>3, <3>2, <3>3, <3>4, ContestGoesOn
  <2>10. CASE VerifyStaging(p)
    <3>1. Stage(p) = "verify_staged" /\ todo[p] # <<>> BY <2>4, <2>10 DEF VerifyStaging
    <3>2. entry[p] = Own(p) /\ Whole(p) BY <2>2, <3>1, StageGroups DEF Owns, Whole
    <3>3. Complete(p, p)
      <4>1. ASSUME NEW m \in Members
            PROVE  Holds(p, m) /\ inside[entry[p]][m].by = p /\ inside[entry[p]][m].whole
        <5>1. inside[entry[p]][m] = Made(p, m) BY <3>2 DEF Whole
        <5>2. Made(p, m) # None /\ Made(p, m).by = p /\ Made(p, m).whole BY <1>6, FilesMade, OwnFiles
        <5>3. QED BY <2>1, <3>2, <5>1, <5>2 DEF Holds, There
      <4>2. QED BY <2>1, <3>2, <4>1 DEF Complete, Whole, There
    <3>4. Advance(p) /\ UNCHANGED entry BY <2>10, <3>3 DEF VerifyStaging, Require, disk
    <3>5. Stage(p)' \in Making BY <2>5, <3>1, <3>4, StageGroups DEF After
    <3>6. entry[Dest] # Own(p) BY <2>2, <3>1, StageGroups DEF Published
    <3>7. QED BY <1>4, <1>6, <2>3, <3>4, <3>5, <3>6, ContestGoesOn
  <2>11. CASE Publish(p)
    <3>1. Stage(p) = "publish" /\ todo[p] # <<>> BY <2>4, <2>11 DEF Publish
    <3>2. entry[p] = root[p] /\ root[p] = Own(p) BY <2>2, <3>1, StageGroups DEF Owns
    <3>3. CASE RenameNoReplace(p)
      <4>1. entry' = [entry EXCEPT ![p] = None, ![Dest] = root[p]] /\ Advance(p)
        BY <2>11, <3>2, <3>3 DEF Publish
      <4>2. entry'[Dest] = Own(p) BY <1>2, <2>1, <3>2, <4>1
      <4>3. Stage(p)' \in Public BY <2>5, <3>1, <4>1, StageGroups DEF After
      <4>4. QED BY <1>4, <1>6, <2>1, <2>3, <4>2, <4>3, ContestGoesOn
    <3>4. CASE ~RenameNoReplace(p)
      <4>1. entry[Dest] # None /\ UNCHANGED entry BY <2>11, <3>4 DEF Publish, RenameNoReplace, There
      <4>2. entry[Dest] # Own(p) BY <2>2, <3>1, StageGroups DEF Published
      <4>3. QED BY <1>4, <1>6, <2>3, <4>1, <4>2, ContestGoesOn
    <3>5. QED BY <3>3, <3>4
  <2>12. CASE Confirm(p)
    <3>1. Stage(p) = "confirm" /\ todo[p] # <<>> BY <2>4, <2>12 DEF Confirm
    <3>2. entry[Dest] = Own(p) /\ root[p] = Own(p) BY <2>2, <3>1, StageGroups DEF Owns, Stays
    <3>3. Advance(p) /\ UNCHANGED entry BY <2>12, <3>2 DEF Confirm, Require, disk
    <3>4. Stage(p)' \in Public BY <2>5, <3>1, <3>3, StageGroups DEF After
    <3>5. QED BY <1>4, <1>6, <2>1, <2>3, <3>2, <3>3, <3>4, ContestGoesOn
  <2>13. CASE RemoveOwned(p)
    <3>1. Stage(p) \in Removing
      BY <2>4, <2>13, StageGroups DEF RemoveOwned, Discard, Look, CheckMember, UnlinkMember, Remaining,
         CheckRoot, RemoveRoot, Fail
    <3>2. Stage(p) \notin Public /\ Stage(p) \notin Preparing \cup Making /\ Stage(p) # "over"
      BY <3>1, StageGroups
    <3>3. ~Succeeded(p) BY <1>2, <1>6, <3>2, Identities, AnswersDiffer DEF Succeeded
    <3>4. entry[Dest] # Own(p) /\ entry[Dest] # None BY <2>2, <3>2, <3>3
    <3>5. ~RemoveRoot(p)
      <4>1. RemoveRoot(p) => Stage(p) = "rmdir" BY <2>4 DEF RemoveRoot
      <4>2. QED BY <2>2, <3>4, <4>1 DEF Stays, Withdrawing
    <3>6. entry'[Dest] = entry[Dest]
      BY <1>2, <2>1, <2>13, <3>5 DEF RemoveOwned, Discard, Look, CheckMember, UnlinkMember, Remaining,
         CheckRoot, Fail, Check, disk
    <3>7. QED BY <1>4, <1>6, <2>3, <3>4, <3>6, ContestGoesOn
  <2>14. QED BY <1>3, <2>6, <2>7, <2>8, <2>9, <2>10, <2>11, <2>12, <2>13 DEF Step, Export
<1>7. QED BY <1>5, <1>6

LEMMA StutteringContest ==
  ASSUME Typed, Attested, Contest, UNCHANGED vars
  PROVE  Attested' /\ Contest'
<1>1. \A q \in Processes : Stage(q)' = Stage(q) BY NobodyMoves DEF Typed, vars, local
<1>2. \A q \in Exporters : Stage(q)' = Stage(q) BY <1>1, Identities
<1>3. Attested' BY <1>2 DEF Attested, Witness, Agrees, Succeeded, vars, local, disk
<1>4. Contest' BY <1>2 DEF Contest, Succeeded, Own, vars, local, disk, bounds
<1>5. QED BY <1>3, <1>4

Fair == edits = 0 => Attested /\ Contest

LEMMA FairThroughout == Spec => []Fair
<1>1. Init => Fair
  <2>1. ASSUME Init, NEW p \in Exporters
        PROVE  Witness(p) /\ Stage(p) \in Preparing \cup Making /\ entry[Dest] # Own(p)
    <3>1. p \in Processes /\ Own(p) # None /\ Dest \in Names BY Identities DEF Own
    <3>2. Stage(p) = "exists" /\ answer[p] = None /\ entry[Dest] = None BY <2>1, <3>1, Starting DEF Init
    <3>3. ~Succeeded(p) BY <3>2, AnswersDiffer DEF Succeeded
    <3>4. QED BY <3>1, <3>2, <3>3, StageGroups DEF Witness, Agrees, Looking, Finishing
  <2>2. QED BY <2>1 DEF Fair, Attested, Contest
<1>2. Typed /\ Owners /\ Unmeddled /\ Fair /\ [Next]_vars => Fair'
  <2>1. ASSUME Typed, Owners, Unmeddled, Fair, Next PROVE Fair'
    BY <2>1, EditsGrow, AttestedStep, ContestStep DEF Unmeddled, Fair
  <2>2. ASSUME Typed, Fair, UNCHANGED vars PROVE Fair'
    BY <2>2, StutteringContest DEF Fair, vars, bounds
  <2>3. QED BY <2>1, <2>2
<1>3. QED BY <1>1, <1>2, Foundation, Unspoiled, PTL DEF Spec

(* When all exports have ended and nothing went wrong, exactly one of them *)
(* has published, and each result is about the caller's own bundle:        *)
(* run_bundle.py, export_run_bundle.                                       *)
THEOREM OneIsPublished == Spec => []ExactlyOneExport
<1>1. ASSUME Typed, Owners, Unmeddled, Fair PROVE ExactlyOneExport
  <2>1. edits = 0 => \A p \in Exporters : Succeeded(p) => answer[p] = p
    BY <1>1 DEF Fair, Attested, Witness
  <2>2. ASSUME edits = 0, struck = {}, \A p \in Exporters : answer[p] # None
        PROVE  \E p \in Exporters : Succeeded(p) /\ \A q \in Exporters \ {p} : ~Succeeded(q)
    <3>1. Fresh /\ Contest BY <1>1, <2>2 DEF Unmeddled, Fair
    <3>2. \A q \in Exporters : Stage(q) = "over"
      BY <1>1, <2>2, Identities DEF Typed, Calls
    <3>3. entry[Dest] # None
      BY <2>2, <3>1, <3>2, ExportAssumption, StageGroups DEF Contest
    <3>4. PICK p \in Exporters : entry[Dest] = Own(p) BY <3>1, <3>3 DEF Fresh, Own
    <3>5. Succeeded(p) BY <2>2, <3>1, <3>2, <3>4, StageGroups DEF Contest
    <3>6. ASSUME NEW q \in Exporters \ {p}, Succeeded(q) PROVE FALSE
      <4>1. entry[Dest] = Own(q) BY <3>1, <3>6 DEF Fresh, Stays
      <4>2. QED BY <3>4, <3>6, <4>1, Identities DEF Own
    <3>7. QED BY <3>5, <3>6
  <2>3. QED BY <2>1, <2>2 DEF ExactlyOneExport
<1>2. QED BY <1>1, Foundation, Unspoiled, FairThroughout, PTL

----------------------------------------------------------------------------
(* The ledger, while nobody meddles.                                       *)

Standing ==
  IF ~There(Dest) \/ inside[entry[Dest]] = Empty THEN None
  ELSE IF \E p \in Exporters : Stands(p) THEN CHOOSE p \in Exporters : Stands(p)
  ELSE "other"

Outcome(p) ==
  IF answer[p] = None THEN None
  ELSE IF Succeeded(p) THEN "published"
  ELSE IF answer[p] \in {"crashed", "aborted"} \/ StruckIn(p, Cleaning) THEN "abandoned"
  ELSE "failed"

(* A bundle of this exporter, or what is left of one, is at the            *)
(* destination.                                                            *)
Present(p) == entry[Dest] = Own(p) /\ \E m \in Members : inside[Own(p)][m] # None

StandingIsPresent ==
  /\ Standing \in Exporters \cup {None}
  /\ \A p \in Exporters : Standing = p <=> Present(p)

LEMMA WhoStands == Typed /\ Owners /\ Fresh => StandingIsPresent
<1> SUFFICES ASSUME Typed, Owners, Fresh PROVE StandingIsPresent OBVIOUS
<1>1. None \notin Exporters /\ None \notin Roots BY AnswersDiffer, Identities
<1>2. CASE entry[Dest] = None
  <2>1. Standing = None BY <1>2 DEF Standing, There
  <2>2. \A p \in Exporters : ~Present(p) BY <1>1, <1>2, Identities DEF Present, Own
  <2>3. QED BY <1>1, <2>1, <2>2 DEF StandingIsPresent
<1>3. ASSUME NEW q \in Exporters, entry[Dest] = Own(q) PROVE StandingIsPresent
  <2>1. There(Dest) /\ Own(q) \in Roots BY <1>1, <1>3, Identities DEF There, Own
  <2>2. inside[Own(q)] \in Contents BY <2>1 DEF Typed, Disks
  <2>3. /\ inside[Own(q)].foreign = None
        /\ \A m \in Members : inside[Own(q)][m] \in {None, NewFile(q, m), Made(q, m)}
        /\ \A m \in Members : owned[q][m] = <<q, m>>
    BY <1>3 DEF Fresh, Stays, Owners, Published
  <2>20. \A m \in Members : NewFile(q, m).id = <<q, m>> /\ Made(q, m).id = <<q, m>> BY FilesMade
  <2>21. \A m \in Members : inside[Own(q)][m] # None => inside[Own(q)][m].id = <<q, m>>
    BY <2>20, <2>3
  <2>4. \A p \in Exporters \ {q} : ~Present(p) BY <1>3, Identities DEF Present, Own
  <2>5. CASE \A m \in Members : inside[Own(q)][m] = None
    <3>1. inside[Own(q)] = Empty BY <2>2, <2>3, <2>5, EmptyContents
    <3>2. Standing = None BY <1>3, <3>1 DEF Standing
    <3>3. ~Present(q) BY <2>5 DEF Present
    <3>4. QED BY <1>1, <2>4, <3>2, <3>3 DEF StandingIsPresent
  <2>6. ASSUME NEW m \in Members, inside[Own(q)][m] # None PROVE StandingIsPresent
    <3>1. inside[Own(q)] # Empty BY <2>6, EmptyContents
    <3>2. inside[Own(q)][m].id = <<q, m>> BY <2>21, <2>6
    <3>3. Stands(q) BY <1>3, <2>1, <2>3, <2>6, <3>2 DEF Stands, Holds
    <3>4. ASSUME NEW p \in Exporters, Stands(p) PROVE p = q
      <4>1. PICK n \in Members : Holds(Dest, n) /\ inside[Own(q)][n].id = owned[p][n]
        BY <1>3, <3>4 DEF Stands
      <4>2. inside[Own(q)][n] # None BY <1>3, <4>1 DEF Holds
      <4>3. inside[Own(q)][n].id = <<q, n>> BY <2>21, <4>2
      <4>4. owned[p][n] \in {None, <<p, n>>} BY DEF Owners, Owns
      <4>5. <<q, n>> \in Files BY Identities
      <4>6. <<q, n>> # None
        <5>1. None \notin Files BY ExportAssumption
        <5>2. QED BY <4>5, <5>1
      <4>7. <<q, n>> = <<p, n>> BY <4>1, <4>3, <4>4, <4>6
      <4>8. QED BY <4>7
    <3>5. Standing = q BY <1>3, <2>1, <3>1, <3>3, <3>4 DEF Standing
    <3>6. Present(q) BY <1>3, <2>6 DEF Present
    <3>7. QED BY <2>4, <3>5, <3>6 DEF StandingIsPresent
  <2>7. QED BY <2>5, <2>6
<1>4. QED BY <1>2, <1>3 DEF Fresh, Own

LEMMA WhoStandsNext == (Typed /\ Owners /\ Fresh)' => StandingIsPresent'
BY WhoStands, PTL

LEMMA SamePresence ==
  ASSUME StandingIsPresent, StandingIsPresent', \A p \in Exporters : Present(p)' <=> Present(p)
  PROVE  UNCHANGED Standing
<1>1. None \notin Exporters BY AnswersDiffer
<1>2. \A p \in Exporters : Standing' = p <=> Standing = p BY DEF StandingIsPresent
<1>3. Standing \in Exporters \cup {None} /\ Standing' \in Exporters \cup {None} BY DEF StandingIsPresent
<1>4. QED BY <1>1, <1>2, <1>3

LEMMA OutcomeOf ==
  ASSUME NEW p \in Exporters, answer[p] \in Exporters \cup Answers \cup {None}
  PROVE  /\ Outcome(p) = None <=> answer[p] = None
         /\ Succeeded(p) => Outcome(p) = "published"
         /\ answer[p] \in Answers =>
              Outcome(p) = IF answer[p] \in {"crashed", "aborted"} \/ StruckIn(p, Cleaning)
                           THEN "abandoned" ELSE "failed"
<1>1. None \notin {"published", "abandoned", "failed"} BY ExportAssumption, AnswersDiffer
<1>2. CASE answer[p] = None BY <1>2, AnswersDiffer DEF Outcome, Succeeded
<1>3. CASE Succeeded(p)
  <2>1. answer[p] # None /\ answer[p] \notin Answers BY <1>3, AnswersDiffer DEF Succeeded
  <2>2. Outcome(p) = "published" BY <1>3, <2>1, AnswersDiffer DEF Outcome
  <2>3. QED BY <1>1, <1>3, <2>1, <2>2
<1>4. CASE answer[p] \in Answers
  <2>1. answer[p] # None /\ ~Succeeded(p) BY <1>4, AnswersDiffer DEF Succeeded
  <2>2. Outcome(p) = IF answer[p] \in {"crashed", "aborted"} \/ StruckIn(p, Cleaning)
                     THEN "abandoned" ELSE "failed"
    BY <2>1 DEF Outcome
  <2>3. QED BY <1>1, <2>1, <2>2
<1>5. QED BY <1>2, <1>3, <1>4 DEF Succeeded

LEMMA LedgerStays ==
  ASSUME UNCHANGED Standing, UNCHANGED edits, \A p \in Exporters : Outcome(p)' = Outcome(p)
  PROVE  UNCHANGED Ledger!vars
<1> DEFINE o == [p \in Exporters |-> Outcome(p)]
<1>1. UNCHANGED o OBVIOUS
<1>2. UNCHANGED Ledger!vars <=> UNCHANGED <<Standing, o, edits>>
  BY DEF Ledger!vars, Standing, Outcome
<1> HIDE DEF o
<1>3. QED BY <1>1, <1>2

LEMMA QuietLedger ==
  ASSUME Typed, Owners, Fresh, Attested, NEW p \in Processes, Quiet(p), edits' = edits,
         StandingIsPresent, StandingIsPresent'
  PROVE  UNCHANGED Ledger!vars \/ \E q \in Exporters : Ledger!Answer(q)
<1>1. Still BY DEF Quiet
<1>2. UNCHANGED Standing BY <1>1 DEF Still, Standing, There, Stands, Holds
<1>3. ASSUME NEW q \in Exporters, q # p PROVE Outcome(q)' = Outcome(q)
  <2>1. Untouched(q) BY <1>3, FreshOthers
  <2>2. answer'[q] = answer[q] /\ (StruckIn(q, Cleaning)' <=> StruckIn(q, Cleaning))
    BY <2>1 DEF Untouched
  <2>3. QED BY <2>2 DEF Outcome, Succeeded
<1>4. CASE p \notin Exporters
  <2>1. \A q \in Exporters : Outcome(q)' = Outcome(q) BY <1>3, <1>4
  <2>2. QED BY <1>2, <2>1, LedgerStays
<1>5. CASE p \in Exporters
  <2>1. answer \in [Processes -> Exporters \cup Answers \cup {None}]
        /\ (answer[p] = None <=> Stage(p) # "over")
    BY DEF Typed, Locals, Calls
  <2>2. Owns(p) /\ Published(p) /\ Stays(p) /\ Withdraws(p) /\ Witness(p) BY <1>5 DEF Owners, Fresh, Attested
  <2>3. Stage(p) # "over"
    BY StageGroups, StageValues DEF Quiet, Passes, Fails, Succeeds, Refused, Seeks, Finishes, Killed, Hindered,
       Working, Looking, Finishing
  <2>4. Outcome(p) = None BY <2>1, <2>3 DEF Outcome
  <2>5. ASSUME answer'[p] = None PROVE UNCHANGED Ledger!vars
    <3>1. Outcome(p)' = None BY <2>5 DEF Outcome
    <3>2. \A q \in Exporters : Outcome(q)' = Outcome(q) BY <1>3, <2>4, <3>1
    <3>3. QED BY <1>2, <3>2, LedgerStays
  <2>6. ASSUME Outcome(p)' \in {"published", "abandoned"} \/ (Outcome(p)' = "failed" /\ Standing # p)
        PROVE  Ledger!Answer(p)
    <3> DEFINE o == [q \in Exporters |-> Outcome(q)]
               v == Outcome(p)'
    <3>1. o' = [o EXCEPT ![p] = v]
      <4>1. o' = [q \in Exporters |-> IF q = p THEN v ELSE o[q]] BY <1>3
      <4>2. QED BY <4>1
    <3>2. o[p] = None BY <1>5, <2>4
    <3>3. v \in {"published", "abandoned"} \/ (v = "failed" /\ Standing # p) BY <2>6
    <3>4. Ledger!Answer(p) <=>
            /\ o[p] = None
            /\ \/ o' = [o EXCEPT ![p] = "published"]
               \/ o' = [o EXCEPT ![p] = "abandoned"]
               \/ Standing # p /\ o' = [o EXCEPT ![p] = "failed"]
            /\ UNCHANGED <<Standing, edits>>
      BY DEF Ledger!Answer, Standing, Outcome
    <3> HIDE DEF o, v
    <3>5. QED BY <1>2, <3>1, <3>2, <3>3, <3>4
  <2>7. ASSUME answer'[p] \in Answers
        PROVE  Outcome(p)' = IF answer'[p] \in {"crashed", "aborted"} \/ StruckIn(p, Cleaning)'
                             THEN "abandoned" ELSE "failed"
    BY <2>7, AnswersDiffer DEF Outcome, Succeeded
  <2>8. Standing = p <=> Present(p) BY <1>5 DEF StandingIsPresent
  <2>9. CASE Passes(p) \/ Fails(p) \/ Seeks(p)
    <3>1. answer' = answer BY <1>5, <2>9 DEF Passes, Fails, Raised, Seeks
    <3>2. QED BY <2>1, <2>3, <2>5, <3>1
  <2>10. CASE Succeeds(p)
    <3>1. Stage(p) = "done" /\ answer'[p] = seen[p].bundle.by
      BY <2>1, <2>10 DEF Succeeds, Ends
    <3>2. seen[p].bundle.by = p BY <1>5, <3>1, Sees
    <3>3. answer'[p] \in Exporters BY <1>5, <3>1, <3>2
    <3>4. Outcome(p)' = "published" BY <3>3, AnswersDiffer DEF Outcome, Succeeded
    <3>5. QED BY <1>5, <2>6, <3>4
  <2>11. CASE Refused(p)
    <3>1. answer'[p] = "refused" /\ Stage(p) = "exists" BY <2>1, <2>11 DEF Refused, Ends
    <3>2. ~Present(p) BY <2>2, <3>1, StageGroups DEF Present, Published
    <3>3. QED BY <1>5, <2>6, <2>7, <2>8, <3>1, <3>2, AnswersDiffer
  <2>12. CASE Finishes(p)
    <3>1. answer'[p] = "failed" /\ Stage(p) = "fail" /\ UNCHANGED struck BY <2>1, <2>12 DEF Finishes, Ends
    <3>2. StruckIn(p, Cleaning)' <=> StruckIn(p, Cleaning) BY <3>1 DEF StruckIn
    <3>3. ~StruckIn(p, Cleaning) => ~Present(p)
      BY <2>2, <3>1, CleaningIsRemoving DEF Withdraws, Present
    <3>4. QED BY <1>5, <2>6, <2>7, <2>8, <3>1, <3>2, <3>3, AnswersDiffer
  <2>13. CASE Killed(p)
    <3>1. answer'[p] = "crashed" BY <2>1, <2>13 DEF Killed, Ends
    <3>2. QED BY <1>5, <2>6, <2>7, <3>1, AnswersDiffer
  <2>14. CASE Hindered(p)
    <3>1. answer'[p] = "aborted" \/ answer'[p] = answer[p] BY <2>1, <2>14 DEF Hindered, Ends
    <3>2. CASE answer'[p] = "aborted" BY <1>5, <2>6, <2>7, <3>2, AnswersDiffer
    <3>3. CASE answer'[p] = answer[p] BY <2>1, <2>3, <2>5, <3>3
    <3>4. QED BY <3>1, <3>2, <3>3
  <2>15. QED BY <1>5, <2>9, <2>10, <2>11, <2>12, <2>13, <2>14 DEF Quiet
<1>6. QED BY <1>4, <1>5

LEMMA LoudLedger ==
  ASSUME Typed, Owners, Fresh, NEW p \in Exporters, Loud(p), edits' = edits,
         StandingIsPresent, StandingIsPresent'
  PROVE  UNCHANGED Ledger!vars \/ Ledger!Publish(p) \/ Ledger!Withdraw(p)
<1>1. /\ p \in Processes /\ p \in Names /\ Dest \in Names /\ p # Dest /\ Own(p) \in Roots
      /\ Own(p) # None
  BY Identities DEF Own
<1>2. Owns(p) /\ Published(p) /\ Stays(p) BY DEF Owners, Fresh
<1>3. entry \in [Names -> Roots \cup {None}] BY DEF Typed, Disks
<1>4. answer[p] = None <=> Stage(p) # "over" BY <1>1 DEF Typed, Calls
<1>5. answer' = answer
  BY DEF Loud, MakesSibling, Renames, Discards, RemovesRoot, Loses, Creates, Completes, Unlinks, Raised
<1>6. Stage(p) # "over"
  <2>1. \A m \in Members : Creation(m) # "over" /\ Filling(m) # "over" /\ Unlink(m) # "over"
    BY DEF Creation, Filling, Unlink
  <2>2. QED BY <2>1 DEF Loud, MakesSibling, Renames, Discards, RemovesRoot, Loses, Creates, Completes, Unlinks
<1>7. ASSUME NEW q \in Exporters, q # p
      PROVE  Outcome(q)' = Outcome(q) /\ (Present(q)' <=> Present(q))
  <2>1. Untouched(q) BY <1>1, <1>7, FreshOthers
  <2>2. /\ answer'[q] = answer[q] /\ (StruckIn(q, Cleaning)' <=> StruckIn(q, Cleaning))
        /\ (entry'[Dest] = Own(q) <=> entry[Dest] = Own(q)) /\ inside'[Own(q)] = inside[Own(q)]
    BY <2>1 DEF Untouched
  <2>3. QED BY <2>2 DEF Outcome, Succeeded, Present
<1>8. Outcome(p) = None /\ Outcome(p)' = None BY <1>4, <1>5, <1>6 DEF Outcome
<1>9. \A q \in Exporters : Outcome(q)' = Outcome(q) BY <1>7, <1>8
<1> DEFINE o == [q \in Exporters |-> Outcome(q)]
<1>10. o' = o /\ o[p] = None BY <1>8, <1>9
<1>11. /\ Ledger!Publish(p) <=>
            /\ o[p] = None /\ Standing = None
            /\ Standing' = p \/ (edits > 0 /\ Standing' = "other")
            /\ UNCHANGED <<o, edits>>
       /\ Ledger!Withdraw(p) <=>
            /\ o[p] = None
            /\ \/ Standing = p /\ Standing' = None
               \/ edits > 0 /\ Standing # None /\ Standing' \in {None, "other"}
            /\ UNCHANGED <<o, edits>>
  BY DEF Ledger!Publish, Ledger!Withdraw, Standing, Outcome
<1> HIDE DEF o
<1>12. CASE Present(p)' <=> Present(p)
  <2>1. UNCHANGED Standing BY <1>7, <1>12, SamePresence
  <2>2. QED BY <1>9, <2>1, LedgerStays
<1>13. CASE Present(p) /\ ~Present(p)'
  <2>1. Standing = p /\ Standing' # p BY <1>13 DEF StandingIsPresent
  <2>2. \A q \in Exporters \ {p} : ~Present(q) BY <1>13, Identities DEF Present, Own
  <2>3. \A q \in Exporters : ~Present(q)' BY <1>7, <1>13, <2>2
  <2>4. Standing' = None BY <2>3 DEF StandingIsPresent
  <2>5. QED BY <1>10, <1>11, <2>1, <2>4
<1>14. CASE ~Present(p) /\ Present(p)'
  <2>1. entry[Dest] = None
    <3>1. CASE Renames(p) BY <3>1 DEF Renames, There
    <3>2. CASE MakesSibling(p) BY <1>1, <1>3, <1>14, <3>2 DEF MakesSibling, Present
    <3>3. CASE RemovesRoot(p) BY <1>1, <1>3, <1>14, <3>3 DEF RemovesRoot, Present
    <3>4. CASE Discards(p)
      <4>1. entry'[Dest] = entry[Dest] BY <1>1, <3>4 DEF Discards, disk
      <4>2. entry[Dest] = Own(p) BY <1>14, <4>1 DEF Present
      <4>3. entry[p] = None BY <1>2, <4>2 DEF Published
      <4>4. QED BY <1>1, <1>14, <3>4, <4>3 DEF Discards, disk, Present
    <3>5. ASSUME NEW m \in Members, Creates(p, m) \/ Completes(p, m) PROVE FALSE
      <4>1. entry[Dest] = Own(p) BY <1>14, <3>5 DEF Creates, Completes, Present
      <4>2. QED BY <1>2, <3>5, <4>1, StageGroups DEF Creates, Completes, Creation, Published
    <3>6. ASSUME NEW m \in Members, Unlinks(p, m) PROVE FALSE
      <4>1. UNCHANGED entry /\ entry[Dest] = Own(p) BY <1>14, <3>6 DEF Unlinks, Present
      <4>2. ASSUME NEW n \in Members PROVE inside'[Own(p)][n] \in {None, inside[Own(p)][n]}
        BY <1>1, <3>6, <4>1, <4>2 DEF Unlinks, Puts
      <4>3. QED BY <1>14, <4>1, <4>2 DEF Present
    <3>7. CASE Loses(p)
      <4>1. entry[Dest] = Own(p) BY <1>1, <1>3, <1>14, <3>7 DEF Loses, Present
      <4>2. QED BY <1>2, <3>7, <4>1, StageGroups DEF Loses, Creation, Published
    <3>8. QED BY <3>1, <3>2, <3>3, <3>4, <3>5, <3>6, <3>7 DEF Loud
  <2>2. \A q \in Exporters : ~Present(q) BY <2>1, Identities DEF Present, Own
  <2>3. Standing = None BY <2>2 DEF StandingIsPresent
  <2>4. Standing' = p BY <1>14 DEF StandingIsPresent
  <2>5. QED BY <1>10, <1>11, <2>3, <2>4
<1>15. QED BY <1>12, <1>13, <1>14 DEF Present

----------------------------------------------------------------------------
(* The ledger, whatever is edited.                                         *)

(* The files that an exporter made are in the directory that it made.      *)
Homes ==
  \A p \in Exporters, d \in Roots, m \in Members :
    inside[d][m] # None /\ inside[d][m].id = <<p, m>> => d = Own(p)

(* A file that this exporter made is at the destination.                   *)
Carries(p, m) == entry[Dest] = Own(p) /\ inside[Own(p)][m] # None /\ inside[Own(p)][m].id = <<p, m>>
Marked(p) == \E m \in Members : Carries(p, m)

Bare == entry[Dest] = None \/ inside[entry[Dest]] = Empty
StandingIsMarked ==
  /\ Standing \in Exporters \cup {None, "other"}
  /\ \A p \in Exporters : Standing = p <=> Marked(p)
  /\ Bare <=> Standing = None

LEMMA WhoIsMarked == Typed /\ Owners /\ Homes => StandingIsMarked
<1> SUFFICES ASSUME Typed, Owners, Homes PROVE StandingIsMarked OBVIOUS
<1>1. None \notin Exporters /\ "other" \notin Exporters /\ None \notin Files /\ None # "other"
  BY ExportAssumption
<1>2. entry \in [Names -> Roots \cup {None}] /\ inside \in [Roots -> Contents] BY DEF Typed, Disks
<1>3. ASSUME NEW p \in Exporters PROVE There(Dest) /\ Stands(p) <=> Marked(p)
  <2>1. Own(p) \in Roots /\ Own(p) # None BY Identities DEF Own
  <2>2. ASSUME There(Dest), Stands(p) PROVE Marked(p)
    <3>1. PICK m \in Members : Holds(Dest, m) /\ inside[entry[Dest]][m].id = owned[p][m]
      BY <2>2 DEF Stands
    <3>2. entry[Dest] \in Roots BY <1>2, <2>2, Identities DEF There
    <3>3. inside[entry[Dest]][m] # None BY <3>1 DEF Holds
    <3>4. inside[entry[Dest]][m] \in File BY <1>2, <3>2, <3>3, MemberIsField
    <3>5. owned[p][m] # None BY <1>1, <3>1, <3>4, FileFields
    <3>6. owned[p][m] = <<p, m>> BY <3>5 DEF Owners, Owns
    <3>7. entry[Dest] = Own(p) BY <3>1, <3>2, <3>3, <3>6 DEF Homes
    <3>8. QED BY <3>1, <3>3, <3>6, <3>7 DEF Marked, Carries
  <2>3. ASSUME Marked(p) PROVE There(Dest) /\ Stands(p)
    <3>1. PICK m \in Members : Carries(p, m) BY <2>3 DEF Marked
    <3>2. owned[p][m] = <<p, m>> BY <3>1 DEF Carries, Owners, Published
    <3>3. There(Dest) BY <2>1, <3>1 DEF Carries, There
    <3>4. QED BY <3>1, <3>2, <3>3 DEF Carries, Stands, Holds
  <2>4. QED BY <2>2, <2>3
<1>4. ASSUME NEW p \in Exporters, Marked(p) PROVE ~Bare
  <2>1. PICK m \in Members : Carries(p, m) BY <1>4 DEF Marked
  <2>2. QED BY <2>1, Identities, EmptyContents DEF Carries, Bare, Own
<1>5. ASSUME NEW p \in Exporters, NEW q \in Exporters, Marked(p), Marked(q) PROVE p = q
  BY <1>5, Identities DEF Marked, Carries, Own
<1>6. Bare => Standing = None BY DEF Bare, Standing, There
<1>7. ASSUME NEW p \in Exporters, Marked(p) PROVE Standing = p
  <2>1. ~Bare BY <1>4, <1>7
  <2>2. There(Dest) /\ Stands(p) BY <1>3, <1>7
  <2>3. \A q \in Exporters : Stands(q) => q = p BY <1>3, <1>5, <1>7, <2>2
  <2>4. QED BY <2>1, <2>2, <2>3 DEF Standing, Bare
<1>8. ASSUME \A p \in Exporters : ~Marked(p)
      PROVE  Standing \in {None, "other"} /\ (~Bare => Standing = "other")
  <2>1. There(Dest) => \A p \in Exporters : ~Stands(p) BY <1>3, <1>8
  <2>2. QED BY <2>1 DEF Standing, Bare, There
<1>9. QED BY <1>1, <1>4, <1>6, <1>7, <1>8 DEF StandingIsMarked

LEMMA WhoIsMarkedNext == (Typed /\ Owners /\ Homes)' => StandingIsMarked'
BY WhoIsMarked, PTL

(* A step of an exporter takes away from the destination, or adds to its   *)
(* sibling, unless it is the rename.                                       *)
Dwindles(p) ==
  /\ entry'[Dest] \in {None, entry[Dest]} /\ inside' \in [Roots -> Contents]
  /\ \A d \in Roots : d # Own(p) \/ entry[Dest] = Own(p) =>
       /\ inside'[d].foreign = inside[d].foreign
       /\ \A m \in Members : inside'[d][m] \in {None, inside[d][m]}
  /\ \A m \in Members : inside'[Own(p)][m] \in {None, inside[Own(p)][m], NewFile(p, m), Made(p, m)}

LEMMA LoudDwindles ==
  ASSUME Typed, Owners, Disks', NEW p \in Exporters, Loud(p), ~Renames(p)
  PROVE  Dwindles(p)
<1>1. /\ p \in Processes /\ p \in Names /\ Dest \in Names /\ p # Dest /\ Own(p) \in Roots
      /\ Own(p) # None
  BY Identities DEF Own
<1>2. Owns(p) /\ Published(p) BY DEF Owners
<1>3. entry \in [Names -> Roots \cup {None}] /\ inside \in [Roots -> Contents] BY DEF Typed, Disks
<1>4. inside' \in [Roots -> Contents] BY DEF Disks
<1>5. CASE MakesSibling(p) BY <1>1, <1>3, <1>4, <1>5 DEF MakesSibling, Dwindles
<1>6. CASE RemovesRoot(p) BY <1>1, <1>3, <1>4, <1>6 DEF RemovesRoot, Dwindles
<1>7. CASE Discards(p)
  <2>1. entry'[Dest] = entry[Dest] BY <1>1, <1>7 DEF Discards, disk
  <2>2. CASE entry[p] = Own(p)
    <3>1. entry[Dest] # Own(p) BY <1>1, <1>2, <2>2 DEF Published
    <3>2. root[p] = Own(p) BY <1>2, <1>7, StageGroups DEF Discards, Owns
    <3>3. \A m \in Members : Left(p)[m] \in {None, inside[Own(p)][m]} BY <3>2, LeftIs
    <3>4. inside'[Own(p)] = Left(p) /\ \A d \in Roots \ {Own(p)} : inside'[d] = inside[d]
      BY <1>7, <2>2 DEF Discards
    <3>5. QED BY <1>4, <2>1, <3>1, <3>3, <3>4 DEF Dwindles
  <2>3. CASE entry[p] # Own(p) BY <1>4, <1>7, <2>1, <2>3 DEF Discards, Dwindles, disk
  <2>4. QED BY <2>2, <2>3
<1>8. ASSUME NEW m \in Members, Puts(Own(p), m, NewFile(p, m)) \/ Puts(Own(p), m, Made(p, m)),
             Stage(p) \in Making, UNCHANGED entry
      PROVE  Dwindles(p)
  <2>1. entry[Dest] # Own(p) BY <1>2, <1>8 DEF Published
  <2>2. QED BY <1>1, <1>4, <1>8, <2>1 DEF Dwindles, Puts
<1>9. ASSUME NEW m \in Members, Creates(p, m) \/ Completes(p, m) PROVE Dwindles(p)
  <2>1. Stage(p) \in Making BY <1>9, StageGroups DEF Creates, Completes, Creation
  <2>2. QED BY <1>8, <1>9, <2>1 DEF Creates, Completes
<1>10. ASSUME NEW m \in Members, Unlinks(p, m) PROVE Dwindles(p)
  BY <1>1, <1>4, <1>10 DEF Unlinks, Dwindles, Puts
<1>11. CASE Loses(p)
  <2>1. CASE Stage(p) = "mkdtemp" /\ entry' = [entry EXCEPT ![p] = Own(p)] /\ UNCHANGED inside
    BY <1>1, <1>3, <1>4, <2>1 DEF Dwindles
  <2>2. ASSUME NEW m \in Members, Stage(p) = Creation(m), Puts(Own(p), m, NewFile(p, m)), UNCHANGED entry
        PROVE  Dwindles(p)
    BY <1>8, <2>2, StageGroups DEF Creation
  <2>3. QED BY <1>11, <2>1, <2>2 DEF Loses
<1>12. QED BY <1>5, <1>6, <1>7, <1>9, <1>10, <1>11 DEF Loud

(* What a step can do to what stands: an exporter's bundle appears only by *)
(* its own rename.                                                         *)
LEMMA DwindlingDestination ==
  ASSUME Typed, NEW p \in Exporters, Dwindles(p)
  PROVE  /\ \A q \in Exporters, m \in Members : Carries(q, m)' => Carries(q, m)
         /\ Bare => Bare'
<1>1. Dest \in Names /\ Own(p) \in Roots BY Identities DEF Own
<1>2. entry \in [Names -> Roots \cup {None}] /\ inside \in [Roots -> Contents] BY DEF Typed, Disks
<1>3. ASSUME NEW q \in Exporters, NEW m \in Members, Carries(q, m)' PROVE Carries(q, m)
  <2>1. entry'[Dest] = Own(q) /\ inside'[Own(q)][m] # None /\ inside'[Own(q)][m].id = <<q, m>>
    BY <1>3 DEF Carries, Own
  <2>2. Own(q) \in Roots /\ Own(q) # None BY Identities DEF Own
  <2>3. entry[Dest] = Own(q) BY <2>1, <2>2 DEF Dwindles
  <2>4. inside'[Own(q)][m] = inside[Own(q)][m] BY <2>1, <2>2, <2>3 DEF Dwindles
  <2>5. QED BY <2>1, <2>3, <2>4 DEF Carries
<1>4. ASSUME Bare, entry'[Dest] # None PROVE inside'[entry'[Dest]] = Empty
  <2>1. entry'[Dest] = entry[Dest] /\ inside[entry[Dest]] = Empty /\ entry[Dest] \in Roots
    BY <1>1, <1>2, <1>4 DEF Bare, Dwindles
  <2>2. inside'[entry[Dest]].foreign = None /\ \A m \in Members : inside'[entry[Dest]][m] = None
    BY <2>1, EmptyContents DEF Dwindles
  <2>3. inside'[entry[Dest]] \in Contents BY <2>1 DEF Dwindles
  <2>4. QED BY <2>1, <2>2, <2>3, EmptyContents
<1>5. Bare => Bare'
  <2>1. Bare' <=> entry'[Dest] = None \/ inside'[entry'[Dest]] = Empty BY DEF Bare
  <2>2. QED BY <1>4, <2>1
<1>6. QED BY <1>3, <1>5

LEMMA HomesStep ==
  ASSUME Typed, Owners, Homes, Next, Disks'
  PROVE  Homes'
<1> SUFFICES ASSUME NEW q \in Exporters, NEW d \in Roots, NEW m \in Members,
                    inside'[d][m] # None, inside'[d][m].id = <<q, m>>
             PROVE  d = Own(q)
  BY DEF Homes, Own
<1>1. inside[d][m] # None /\ inside[d][m].id = <<q, m>> => d = Own(q) BY DEF Homes
<1>2. CASE Edit
  <2>1. Rewritten(d, m) BY <1>2, Editing
  <2>2. <<Owner, edits'>> # <<q, m>> BY ExportAssumption
  <2>3. QED BY <1>1, <2>1, <2>2 DEF Rewritten
<1>3. CASE UNCHANGED inside BY <1>1, <1>3
<1>4. ASSUME NEW p \in Exporters, Dwindles(p) PROVE d = Own(q)
  <2>1. CASE d = Own(p)
    <3>1. inside'[d][m] \in {None, inside[d][m], NewFile(p, m), Made(p, m)}
      BY <1>4, <2>1 DEF Dwindles
    <3>2. CASE inside'[d][m] = inside[d][m] BY <1>1, <3>2
    <3>3. CASE inside'[d][m] \in {NewFile(p, m), Made(p, m)}
      <4>4. NewFile(p, m).id = <<p, m>> /\ Made(p, m).id = <<p, m>> BY FilesMade
      <4>5. inside'[d][m].id = <<p, m>> BY <3>3, <4>4
      <4>1. <<p, m>> = <<q, m>> BY <4>5
      <4>2. p = q BY <4>1
      <4>3. QED BY <2>1, <4>2
    <3>4. QED BY <3>1, <3>2, <3>3
  <2>2. CASE d # Own(p)
    <3>1. inside'[d][m] = inside[d][m] BY <1>4, <2>2 DEF Dwindles
    <3>2. QED BY <1>1, <3>1
  <2>3. QED BY <2>1, <2>2
<1>5. ASSUME NEW p \in Processes, Quiet(p) \/ (p \in Exporters /\ Loud(p)) PROVE d = Own(q)
  <2>1. CASE Quiet(p) BY <1>3, <2>1 DEF Quiet, Still
  <2>2. CASE p \in Exporters /\ Loud(p)
    <3>1. CASE Renames(p) BY <1>3, <3>1 DEF Renames
    <3>2. CASE ~Renames(p) BY <1>4, <2>2, <3>2, LoudDwindles
    <3>3. QED BY <3>1, <3>2
  <2>3. QED BY <1>5, <2>1, <2>2
<1>6. QED BY <1>2, <1>5, Steps

LEMMA HomesThroughout == Spec => []Homes
<1>1. Init => Homes
  <2> SUFFICES ASSUME Init PROVE Homes OBVIOUS
  <2>1. \A d \in Roots : inside[d] = Empty BY DEF Init
  <2>2. QED BY <2>1, EmptyContents DEF Homes
<1>2. ASSUME Typed, Owners, Homes, Next, Disks' PROVE Homes' BY <1>2, HomesStep
<1>3. UNCHANGED vars /\ Homes => Homes' BY DEF Homes, Own, vars, disk
<1>4. Typed' => Disks' BY DEF Typed
<1>5. QED BY <1>1, <1>2, <1>3, <1>4, Foundation, PTL DEF Spec

(* How far a cleanup has come with the files of its own at the destination,*)
(* if it met no error.                                                     *)
Frees(p) ==
  ~StruckIn(p, Removing) =>
    /\ Stage(p) \in {"check_sidecar", "unlink_sidecar"} => ~Carries(p, "bundle")
    /\ Stage(p) \in {"remaining", "check_root", "rmdir", "fail"} => ~Marked(p)

LEMMA FreesStays ==
  ASSUME NEW p \in Exporters, Frees(p), Stage(p)' = Stage(p), StruckIn(p, Removing)' <=> StruckIn(p, Removing),
         \A m \in Members : Carries(p, m)' => Carries(p, m)
  PROVE  Frees(p)'
<1>1. Marked(p)' => Marked(p) BY DEF Marked
<1>2. Carries(p, "bundle")' => Carries(p, "bundle") BY Identities
<1>3. QED BY <1>1, <1>2 DEF Frees

LEMMA FreesQuietly ==
  ASSUME Typed, Owners, Homes, NEW p \in Exporters, Frees(p), Quiet(p)
  PROVE  Frees(p)'
<1>1. p \in Processes BY Identities
<1>2. Owns(p) /\ Published(p) BY DEF Owners
<1>3. UNCHANGED <<entry, inside, root, owned, staged>> BY DEF Quiet, Still
<1>4. UNCHANGED struck \/ Struck(p)
  BY DEF Quiet, Passes, Fails, Succeeds, Refused, Seeks, Finishes, Killed, Hindered
<1>5. /\ StruckIn(p, Removing) => StruckIn(p, Removing)'
      /\ Struck(p) /\ Stage(p) \in Removing => StruckIn(p, Removing)'
  BY <1>4, StruckGrows
<1>6. (\A m \in Members : Carries(p, m)' <=> Carries(p, m)) /\ (Marked(p)' <=> Marked(p))
  BY <1>3 DEF Carries, Marked
<1>7. Members = {"bundle", "sidecar"} BY MemberNames
<1>8. Marked(p) <=> Carries(p, "bundle") \/ Carries(p, "sidecar") BY <1>7 DEF Marked
<1>9. root[p] = None => ~Marked(p) BY <1>2, Identities DEF Marked, Carries, Published, Own
<1>10. Frees(p)' <=>
         (~StruckIn(p, Removing)' =>
            /\ Stage(p)' \in {"check_sidecar", "unlink_sidecar"} => ~Carries(p, "bundle")
            /\ Stage(p)' \in {"remaining", "check_root", "rmdir", "fail"} => ~Marked(p))
  BY <1>6, <1>7 DEF Frees
<1>11. CASE Passes(p)
  <2>1. Stage(p)' = After(p, Stage(p)) /\ Stage(p) \in {"exists", "verify_staged"} \cup Public
    BY <1>11 DEF Passes, Moved, Public
  <2>2. Stage(p)' \notin Removing BY <2>1, StageGroups DEF After
  <2>3. QED BY <1>10, <2>2, StageGroups
<1>12. CASE Fails(p)
  <2>1. Stage(p)' = Fallback(p) BY <1>12 DEF Fails, Raised, Moved
  <2>2. QED BY <1>9, <1>10, <2>1 DEF Fallback
<1>13. CASE Succeeds(p) \/ Refused(p) \/ Finishes(p) \/ Killed(p)
  <2>1. Stage(p)' = "over" BY <1>13 DEF Succeeds, Refused, Finishes, Killed, Ends, Moved
  <2>2. QED BY <1>10, <2>1
<1>14. CASE Seeks(p)
  <2>1. /\ Stage(p) \in {"look", "check_bundle", "check_sidecar", "remaining", "check_root"}
        /\ Stage(p)' = IF Found(p) THEN After(p, Stage(p)) ELSE Reached(Stage(p))
    BY <1>14 DEF Seeks, Moved
  <2>2. root[p] = Own(p) BY <1>2, <2>1, StageGroups DEF Owns
  <2>3. CASE Stage(p) = "look"
    <3>1. ~Found(p) => ~Marked(p) BY <2>2, <2>3 DEF Found, Marked, Carries
    <3>2. Stage(p)' = IF Found(p) THEN "check_bundle" ELSE "fail" BY <2>1, <2>3 DEF After, Reached
    <3>3. QED BY <1>10, <3>1, <3>2
  <2>4. CASE Stage(p) = "check_bundle"
    <3>1. ~Found(p) => ~Carries(p, "bundle")
      BY <1>2, <1>7, <2>4, Identities DEF Found, Carries, Holds, There, Published, Own
    <3>2. Stage(p)' = IF Found(p) THEN "unlink_bundle" ELSE "check_sidecar"
      BY <2>1, <2>4 DEF After, Reached
    <3>3. QED BY <1>10, <3>1, <3>2
  <2>5. CASE Stage(p) = "check_sidecar"
    <3>1. ~Found(p) => ~Carries(p, "sidecar")
      BY <1>2, <1>7, <2>5, Identities DEF Found, Carries, Holds, There, Published, Own
    <3>2. Stage(p)' = IF Found(p) THEN "unlink_sidecar" ELSE "remaining"
      BY <2>1, <2>5 DEF After, Reached
    <3>3. QED BY <1>5, <1>8, <1>10, <2>5, <3>1, <3>2 DEF Frees
  <2>6. CASE Stage(p) \in {"remaining", "check_root"}
    <3>1. Stage(p)' \in {"check_root", "rmdir", "fail"} BY <2>1, <2>6 DEF After, Reached
    <3>2. QED BY <1>5, <1>10, <2>6, <3>1 DEF Frees
  <2>7. QED BY <2>1, <2>3, <2>4, <2>5, <2>6
<1>15. CASE Hindered(p) BY <1>5, <1>10, <1>15 DEF Hindered
<1>16. QED BY <1>11, <1>12, <1>13, <1>14, <1>15 DEF Quiet

LEMMA FreesLoudly ==
  ASSUME Typed, Owners, Disks', NEW p \in Exporters, Frees(p), Loud(p)
  PROVE  Frees(p)'
<1>1. p \in Processes /\ Own(p) \in Roots /\ Own(p) # None BY Identities DEF Own
<1>2. Owns(p) /\ Published(p) BY DEF Owners
<1>3. Members = {"bundle", "sidecar"} BY MemberNames
<1>4. Stage(p)' \notin Removing => Frees(p)' BY StageGroups DEF Frees
<1>5. CASE Renames(p)
  <2>1. root[p] = Own(p) BY <1>2, <1>5, StageGroups DEF Renames, Owns
  <2>2. Stage(p)' \in {"confirm", "discard", "look"}
    BY <1>1, <1>5, <2>1 DEF Renames, Moved, Raised, Fallback
  <2>3. QED BY <2>2 DEF Frees
<1>6. ASSUME ~Renames(p) PROVE \A m \in Members : Carries(p, m)' => Carries(p, m)
  BY <1>6, LoudDwindles, DwindlingDestination
<1>7. CASE MakesSibling(p)
  <2>1. Stage(p)' = "create_bundle" BY <1>7 DEF MakesSibling, Moved
  <2>2. QED BY <2>1 DEF Frees
<1>8. ASSUME NEW m \in Members, Creates(p, m) \/ Completes(p, m) PROVE Frees(p)'
  <2>1. Stage(p)' \in Making BY <1>3, <1>8, StageGroups DEF Creates, Completes, Moved, After
  <2>2. QED BY <1>4, <2>1, StageGroups
<1>9. CASE Discards(p)
  <2>1. Stage(p)' = "look" BY <1>9 DEF Discards, Moved
  <2>2. QED BY <2>1 DEF Frees
<1>10. CASE Loses(p)
  <2>1. Stage(p) \in {"mkdtemp"} \cup Making BY <1>3, <1>10, StageGroups DEF Loses, Creation
  <2>2. entry[Dest] # Own(p) BY <1>2, <2>1, StageGroups DEF Published
  <2>3. ~Renames(p) BY <1>3, <1>10 DEF Renames, Loses, Creation
  <2>4. \A m \in Members : ~Carries(p, m)' BY <1>6, <2>2, <2>3 DEF Carries
  <2>5. QED BY <1>3, <2>4 DEF Frees, Marked
<1>11. CASE RemovesRoot(p)
  <2>1. /\ Stage(p) = "rmdir" /\ Stage(p)' = "fail" /\ ~Renames(p)
        /\ (StruckIn(p, Removing)' <=> StruckIn(p, Removing))
    BY <1>11 DEF RemovesRoot, Moved, Renames, StruckIn
  <2>2. Marked(p)' => Marked(p) BY <1>6, <2>1 DEF Marked
  <2>3. QED BY <2>1, <2>2 DEF Frees
<1>12. ASSUME NEW m \in Members, Unlinks(p, m) PROVE Frees(p)'
  <2>1. /\ Stage(p) = Unlink(m) /\ Stage(p)' = After(p, Stage(p)) /\ UNCHANGED entry
        /\ (StruckIn(p, Removing)' <=> StruckIn(p, Removing))
    BY <1>12 DEF Unlinks, Moved, StruckIn
  <2>2. ~Carries(p, m)'
    <3>1. SUFFICES ASSUME entry[Dest] = Own(p) PROVE inside'[Own(p)][m] = None
      BY <2>1 DEF Carries, Own
    <3>2. QED BY <1>1, <1>12, <3>1 DEF Unlinks, Holds, There, Puts
  <2>3. ~Renames(p) BY <1>3, <2>1 DEF Renames, Unlink
  <2>4. CASE m = "bundle"
    <3>1. Stage(p)' = "check_sidecar" BY <2>1, <2>4 DEF Unlink, After
    <3>2. QED BY <2>2, <2>4, <3>1 DEF Frees
  <2>5. CASE m = "sidecar"
    <3>1. Stage(p) = "unlink_sidecar" /\ Stage(p)' = "remaining" BY <2>1, <2>5 DEF Unlink, After
    <3>2. Carries(p, "bundle")' => Carries(p, "bundle") BY <1>3, <1>6, <2>3
    <3>3. ~StruckIn(p, Removing) => ~Marked(p)'
      BY <1>3, <2>2, <2>5, <3>1, <3>2 DEF Frees, Marked
    <3>4. QED BY <2>1, <3>1, <3>3 DEF Frees
  <2>6. QED BY <1>3, <2>4, <2>5
<1>13. QED BY <1>5, <1>7, <1>8, <1>9, <1>10, <1>11, <1>12 DEF Loud

Freed == \A p \in Exporters : Frees(p)

LEMMA FreedStep ==
  ASSUME Typed, Owners, Homes, Freed, Next, Disks'
  PROVE  Freed'
<1> SUFFICES ASSUME NEW q \in Exporters PROVE Frees(q)' BY DEF Freed
<1>1. /\ q \in Processes /\ Own(q) \in Roots /\ Own(q) # None /\ Own(q) # <<Owner, "root">>
      /\ Frees(q)
  BY Identities DEF Own, Freed
<1>2. CASE Edit
  <2>1. UNCHANGED local /\ UNCHANGED struck /\ entry'[Dest] \in {None, <<Owner, "root">>, entry[Dest]}
        /\ \A d \in Roots, m \in Members : Rewritten(d, m)
    BY <1>2, Editing
  <2>2. Stage(q)' = Stage(q) BY <1>1, <2>1, NobodyMoves DEF Typed, local
  <2>3. ASSUME NEW m \in Members, Carries(q, m)' PROVE Carries(q, m)
    <3>1. entry'[Dest] = Own(q) /\ inside'[Own(q)][m] # None /\ inside'[Own(q)][m].id = <<q, m>>
      BY <2>3 DEF Carries, Own
    <3>2. Rewritten(Own(q), m) /\ <<Owner, edits'>> # <<q, m>> BY <1>1, <2>1, ExportAssumption
    <3>3. QED BY <1>1, <2>1, <3>1, <3>2 DEF Carries, Rewritten
  <2>4. StruckIn(q, Removing)' <=> StruckIn(q, Removing) BY <2>1 DEF StruckIn
  <2>5. QED BY <1>1, <2>2, <2>3, <2>4, FreesStays
<1>3. ASSUME NEW p \in Processes, Quiet(p) \/ (p \in Exporters /\ Loud(p)), p # q PROVE Frees(q)'
  <2>1. Stage(q)' = Stage(q)
    <3>1. CASE Quiet(p)
      BY <1>1, <1>3, <3>1 DEF Quiet, Passes, Fails, Raised, Succeeds, Refused, Seeks, Finishes, Killed,
                              Hindered, Ends, Moved
    <3>2. CASE p \in Exporters /\ Loud(p)
      BY <1>1, <1>3, <3>2 DEF Loud, MakesSibling, Renames, Discards, RemovesRoot, Loses, Creates,
                              Completes, Unlinks, Raised, Moved
    <3>3. QED BY <1>3, <3>1, <3>2
  <2>2. UNCHANGED struck \/ Struck(p)
    BY <1>3 DEF Quiet, Passes, Fails, Succeeds, Refused, Seeks, Finishes, Killed, Hindered,
                Loud, MakesSibling, Renames, Discards, RemovesRoot, Loses, Creates, Completes, Unlinks
  <2>3. StruckIn(q, Removing)' <=> StruckIn(q, Removing) BY <1>3, <2>2, StruckGrows
  <2>4. ASSUME NEW m \in Members, Carries(q, m)' PROVE Carries(q, m)
    <3>1. CASE Quiet(p) BY <2>4, <3>1 DEF Quiet, Still, Carries
    <3>2. CASE p \in Exporters /\ Renames(p)
      <4>1. entry'[Dest] = root[p] /\ root[p] \in {None, Own(p)}
        BY <3>2, Identities DEF Renames, Typed, Disks, Owners, Owns
      <4>2. Own(p) # Own(q) BY <1>3, <3>2, Identities DEF Own
      <4>3. entry'[Dest] = Own(q) BY <2>4 DEF Carries, Own
      <4>4. QED BY <1>1, <4>1, <4>2, <4>3
    <3>3. CASE p \in Exporters /\ Loud(p) /\ ~Renames(p)
      BY <2>4, <3>3, LoudDwindles, DwindlingDestination
    <3>4. QED BY <1>3, <3>1, <3>2, <3>3
  <2>5. QED BY <1>1, <2>1, <2>3, <2>4, FreesStays
<1>4. CASE Quiet(q) BY <1>1, <1>4, FreesQuietly
<1>5. CASE Loud(q) BY <1>1, <1>5, FreesLoudly
<1>6. QED BY <1>2, <1>3, <1>4, <1>5, Steps

LEMMA FreedThroughout == Spec => []Freed
<1>1. Init => Freed
  <2> SUFFICES ASSUME Init, NEW p \in Exporters PROVE Frees(p) BY DEF Freed
  <2>1. p \in Processes BY Identities
  <2>2. Stage(p) = "exists" BY <2>1, Starting
  <2>3. QED BY <2>2 DEF Frees
<1>2. ASSUME Typed, Owners, Homes, Freed, Next, Disks' PROVE Freed' BY <1>2, FreedStep
<1>3. ASSUME Typed, Freed, UNCHANGED vars PROVE Freed'
  <2> SUFFICES ASSUME NEW p \in Exporters PROVE Frees(p)' BY DEF Freed
  <2>1. p \in Processes /\ Stage(p)' = Stage(p)
    BY <1>3, Identities, NobodyMoves DEF Typed, vars, local
  <2>2. StruckIn(p, Removing)' <=> StruckIn(p, Removing) BY <1>3 DEF StruckIn, vars, bounds
  <2>3. \A m \in Members : Carries(p, m)' => Carries(p, m) BY <1>3 DEF Carries, Own, vars, disk
  <2>4. QED BY <1>3, <2>1, <2>2, <2>3, FreesStays DEF Freed
<1>4. Typed' => Disks' BY DEF Typed
<1>5. QED BY <1>1, <1>2, <1>3, <1>4, Foundation, HomesThroughout, PTL DEF Spec

(* What stands goes on standing, or is replaced by nobody's bundle, unless *)
(* a bundle has come.                                                      *)
LEMMA StandingFades ==
  ASSUME StandingIsMarked, StandingIsMarked', \A p \in Exporters : Marked(p)' => Marked(p)
  PROVE  Standing' \in {None, "other", Standing}
BY DEF StandingIsMarked

LEMMA Outcomes ==
  ASSUME NEW p \in Exporters, \A q \in Exporters \ {p} : Outcome(q)' = Outcome(q), UNCHANGED <<Standing, edits>>,
         Outcome(p) = None,
         Outcome(p)' \in {"published", "abandoned"} \/ (Outcome(p)' = "failed" /\ Standing # p)
  PROVE  Ledger!Answer(p)
<1> DEFINE o == [q \in Exporters |-> Outcome(q)]
           v == Outcome(p)'
<1>1. o' = [o EXCEPT ![p] = v]
  <2>1. o' = [q \in Exporters |-> IF q = p THEN v ELSE o[q]] OBVIOUS
  <2>2. QED BY <2>1
<1>2. o[p] = None OBVIOUS
<1>3. v \in {"published", "abandoned"} \/ (v = "failed" /\ Standing # p) OBVIOUS
<1>4. Ledger!Answer(p) <=>
        /\ o[p] = None
        /\ \/ o' = [o EXCEPT ![p] = "published"]
           \/ o' = [o EXCEPT ![p] = "abandoned"]
           \/ Standing # p /\ o' = [o EXCEPT ![p] = "failed"]
        /\ UNCHANGED <<Standing, edits>>
  BY DEF Ledger!Answer, Standing, Outcome
<1> HIDE DEF o, v
<1>5. QED BY <1>1, <1>2, <1>3, <1>4

LEMMA QuietAnswers ==
  ASSUME Typed, Owners, Freed, StandingIsMarked, NEW p \in Processes, Quiet(p), edits' = edits
  PROVE  UNCHANGED Ledger!vars \/ \E q \in Exporters : Ledger!Answer(q)
<1>1. Still BY DEF Quiet
<1>2. UNCHANGED Standing BY <1>1 DEF Still, Standing, There, Stands, Holds
<1>3. /\ answer \in [Processes -> Exporters \cup Answers \cup {None}]
      /\ (answer[p] = None <=> Stage(p) # "over")
  BY DEF Typed, Locals, Calls
<1>4. UNCHANGED struck \/ Struck(p)
  BY DEF Quiet, Passes, Fails, Succeeds, Refused, Seeks, Finishes, Killed, Hindered
<1>5. ASSUME NEW q \in Exporters, q # p PROVE Outcome(q)' = Outcome(q)
  <2>1. q \in Processes BY Identities
  <2>2. answer'[q] = answer[q]
    BY <1>3, <1>5, <2>1 DEF Quiet, Passes, Fails, Raised, Succeeds, Refused, Seeks, Finishes, Killed,
                            Hindered, Ends
  <2>3. StruckIn(q, Cleaning)' <=> StruckIn(q, Cleaning) BY <1>4, <1>5, StruckGrows
  <2>4. QED BY <2>2, <2>3 DEF Outcome, Succeeded
<1>6. CASE p \notin Exporters
  <2>1. \A q \in Exporters : Outcome(q)' = Outcome(q) BY <1>5, <1>6
  <2>2. QED BY <1>2, <2>1, LedgerStays
<1>7. CASE p \in Exporters
  <2>1. Owns(p) /\ Published(p) /\ Frees(p) BY <1>7 DEF Owners, Freed
  <2>2. Stage(p) # "over"
    BY StageGroups, StageValues DEF Quiet, Passes, Fails, Succeeds, Refused, Seeks, Finishes, Killed, Hindered,
       Working, Looking, Finishing
  <2>3. Outcome(p) = None BY <1>3, <2>2 DEF Outcome
  <2>4. ASSUME answer'[p] = None PROVE UNCHANGED Ledger!vars
    <3>1. Outcome(p)' = None BY <2>4 DEF Outcome
    <3>2. \A q \in Exporters : Outcome(q)' = Outcome(q) BY <1>5, <2>3, <3>1
    <3>3. QED BY <1>2, <3>2, LedgerStays
  <2>5. ASSUME Outcome(p)' \in {"published", "abandoned"} \/ (Outcome(p)' = "failed" /\ Standing # p)
        PROVE  Ledger!Answer(p)
    BY <1>2, <1>5, <1>7, <2>3, <2>5, Outcomes
  <2>6. ASSUME answer'[p] \in Answers
        PROVE  Outcome(p)' = IF answer'[p] \in {"crashed", "aborted"} \/ StruckIn(p, Cleaning)'
                             THEN "abandoned" ELSE "failed"
    BY <2>6, AnswersDiffer DEF Outcome, Succeeded
  <2>7. Standing = p <=> Marked(p) BY <1>7 DEF StandingIsMarked
  <2>8. CASE Passes(p) \/ Fails(p) \/ Seeks(p)
    <3>1. answer' = answer BY <1>7, <2>8 DEF Passes, Fails, Raised, Seeks
    <3>2. QED BY <1>3, <2>2, <2>4, <3>1
  <2>9. CASE Succeeds(p)
    <3>1. Stage(p) = "done" /\ answer'[p] = seen[p].bundle.by
      BY <1>3, <2>9 DEF Succeeds, Ends
    <3>2. seen[p].bundle.by \in Exporters BY <3>1, FileFields DEF Typed, Calls, Sighted, Finishing
    <3>3. Outcome(p)' = "published" BY <3>1, <3>2, AnswersDiffer DEF Outcome, Succeeded
    <3>4. QED BY <1>7, <2>5, <3>3
  <2>10. CASE Refused(p)
    <3>1. answer'[p] = "refused" /\ Stage(p) = "exists" BY <1>3, <2>10 DEF Refused, Ends
    <3>2. ~Marked(p) BY <2>1, <3>1, StageGroups DEF Marked, Carries, Published
    <3>3. QED BY <1>7, <2>5, <2>6, <2>7, <3>1, <3>2, AnswersDiffer
  <2>11. CASE Finishes(p)
    <3>1. answer'[p] = "failed" /\ Stage(p) = "fail" /\ UNCHANGED struck BY <1>3, <2>11 DEF Finishes, Ends
    <3>2. StruckIn(p, Cleaning)' <=> StruckIn(p, Cleaning) BY <3>1 DEF StruckIn
    <3>3. ~StruckIn(p, Cleaning) => ~Marked(p)
      BY <2>1, <3>1, CleaningIsRemoving DEF Frees
    <3>4. QED BY <1>7, <2>5, <2>6, <2>7, <3>1, <3>2, <3>3, AnswersDiffer
  <2>12. CASE Killed(p)
    <3>1. answer'[p] = "crashed" BY <1>3, <2>12 DEF Killed, Ends
    <3>2. QED BY <1>7, <2>5, <2>6, <3>1, AnswersDiffer
  <2>13. CASE Hindered(p)
    <3>1. answer'[p] = "aborted" \/ answer'[p] = answer[p] BY <1>3, <2>13 DEF Hindered, Ends
    <3>2. CASE answer'[p] = "aborted" BY <1>7, <2>5, <2>6, <3>2, AnswersDiffer
    <3>3. CASE answer'[p] = answer[p] BY <1>3, <2>2, <2>4, <3>3
    <3>4. QED BY <3>1, <3>2, <3>3
  <2>14. QED BY <1>7, <2>8, <2>9, <2>10, <2>11, <2>12, <2>13 DEF Quiet
<1>8. QED BY <1>6, <1>7

LEMMA LoudMoves ==
  ASSUME Typed, Owners, Disks', NEW p \in Exporters, Loud(p), edits > 0, edits' = edits,
         StandingIsMarked, StandingIsMarked'
  PROVE  UNCHANGED Ledger!vars \/ Ledger!Publish(p) \/ Ledger!Withdraw(p)
<1>1. /\ p \in Processes /\ p \in Names /\ Dest \in Names /\ Own(p) \in Roots /\ Own(p) # None
  BY Identities DEF Own
<1>2. answer[p] = None <=> Stage(p) # "over" BY <1>1 DEF Typed, Calls
<1>3. answer' = answer
  BY DEF Loud, MakesSibling, Renames, Discards, RemovesRoot, Loses, Creates, Completes, Unlinks, Raised
<1>4. Stage(p) # "over"
  <2>1. \A m \in Members : Creation(m) # "over" /\ Filling(m) # "over" /\ Unlink(m) # "over"
    BY DEF Creation, Filling, Unlink
  <2>2. QED BY <2>1 DEF Loud, MakesSibling, Renames, Discards, RemovesRoot, Loses, Creates, Completes, Unlinks
<1>5. UNCHANGED struck \/ Struck(p)
  BY DEF Loud, MakesSibling, Renames, Discards, RemovesRoot, Loses, Creates, Completes, Unlinks
<1>6. ASSUME NEW q \in Exporters PROVE Outcome(q)' = Outcome(q)
  <2>1. CASE q = p BY <1>2, <1>3, <1>4, <2>1 DEF Outcome
  <2>2. CASE q # p
    <3>1. StruckIn(q, Cleaning)' <=> StruckIn(q, Cleaning) BY <1>5, <2>2, StruckGrows
    <3>2. QED BY <1>3, <3>1 DEF Outcome, Succeeded
  <2>3. QED BY <2>1, <2>2
<1> DEFINE o == [q \in Exporters |-> Outcome(q)]
<1>7. o' = o /\ o[p] = None
  <2>1. Outcome(p) = None BY <1>2, <1>4 DEF Outcome
  <2>2. QED BY <1>6, <2>1
<1>8. /\ Ledger!Publish(p) <=>
           /\ o[p] = None /\ Standing = None
           /\ Standing' = p \/ (edits > 0 /\ Standing' = "other")
           /\ UNCHANGED <<o, edits>>
      /\ Ledger!Withdraw(p) <=>
           /\ o[p] = None
           /\ \/ Standing = p /\ Standing' = None
              \/ edits > 0 /\ Standing # None /\ Standing' \in {None, "other"}
           /\ UNCHANGED <<o, edits>>
  BY DEF Ledger!Publish, Ledger!Withdraw, Standing, Outcome
<1> HIDE DEF o
<1>9. Standing' = Standing => UNCHANGED Ledger!vars BY <1>6, LedgerStays
<1>10. CASE Renames(p)
  <2>1. entry[Dest] = None BY <1>10 DEF Renames, There
  <2>2. Standing = None BY <2>1 DEF StandingIsMarked, Bare
  <2>3. entry'[Dest] \in {None, Own(p)}
    BY <1>1, <1>10 DEF Renames, Typed, Disks, Owners, Owns
  <2>4. ASSUME NEW q \in Exporters, q # p PROVE ~Marked(q)'
    <3>1. Own(q) # Own(p) /\ Own(q) # None BY <2>4, Identities DEF Own
    <3>2. Marked(q)' => entry'[Dest] = Own(q) BY DEF Marked, Carries, Own
    <3>3. QED BY <2>3, <3>1, <3>2
  <2>5. Standing' \in {None, p, "other"} BY <2>4 DEF StandingIsMarked
  <2>6. QED BY <1>7, <1>8, <1>9, <2>2, <2>5
<1>11. CASE ~Renames(p)
  <2>1. /\ \A q \in Exporters, m \in Members : Carries(q, m)' => Carries(q, m)
        /\ Bare => Bare'
    BY <1>11, LoudDwindles, DwindlingDestination
  <2>2. \A q \in Exporters : Marked(q)' => Marked(q) BY <2>1 DEF Marked
  <2>3. Standing' \in {None, "other", Standing} BY <2>2, StandingFades
  <2>4. Standing = None => Bare BY DEF StandingIsMarked
  <2>5. Standing = None => Standing' = None BY <2>1, <2>4 DEF StandingIsMarked
  <2>6. QED BY <1>7, <1>8, <1>9, <2>3, <2>5
<1>12. QED BY <1>10, <1>11

LEMMA EditMeddles ==
  ASSUME Typed, Owners, Edit, StandingIsMarked, StandingIsMarked'
  PROVE  Ledger!Meddle
<1>1. /\ edits' = edits + 1 /\ UNCHANGED local /\ UNCHANGED struck
      /\ entry'[Dest] \in {None, <<Owner, "root">>, entry[Dest]}
      /\ \A d \in Roots, m \in Members : Rewritten(d, m)
  BY Editing
<1>2. ASSUME NEW q \in Exporters, Marked(q)' PROVE Marked(q)
  <2>1. PICK m \in Members : entry'[Dest] = Own(q) /\ inside'[Own(q)][m] # None /\ inside'[Own(q)][m].id = <<q, m>>
    BY <1>2 DEF Marked, Carries, Own
  <2>2. Own(q) \in Roots /\ Own(q) # None /\ Own(q) # <<Owner, "root">> BY Identities DEF Own
  <2>3. Rewritten(Own(q), m) /\ <<Owner, edits'>> # <<q, m>> BY <1>1, <2>2, ExportAssumption
  <2>4. Carries(q, m) BY <1>1, <2>1, <2>2, <2>3 DEF Carries, Rewritten
  <2>5. QED BY <2>4 DEF Marked
<1>3. Standing' \in {None, "other", Standing} BY <1>2, StandingFades
<1> DEFINE o == [q \in Exporters |-> Outcome(q)]
<1>4. \A q \in Exporters : Outcome(q)' = Outcome(q) BY <1>1 DEF Outcome, Succeeded, StruckIn, local
<1>5. o' = o BY <1>4
<1>6. Ledger!Meddle <=> edits' = edits + 1 /\ Standing' \in {None, "other", Standing} /\ UNCHANGED o
  BY DEF Ledger!Meddle, Standing, Outcome
<1>7. QED BY <1>1, <1>3, <1>5, <1>6

(* Exports keep to the ledger in every step, whatever fails and whatever   *)
(* is edited: publication where nothing stands, withdrawal of one's own    *)
(* (or, after an edit, of what stands there), answers that hold:           *)
(* run_bundle.py, export_run_bundle.                                       *)
THEOREM LedgerIsKept == Spec => ImplementsLedger
<1>1. Init => Ledger!Init
  <2> SUFFICES ASSUME Init PROVE Ledger!Init OBVIOUS
  <2>1. entry[Dest] = None /\ edits = 0 BY Identities DEF Init
  <2>2. Standing = None BY <2>1 DEF Standing, There
  <2>3. ASSUME NEW p \in Exporters PROVE Outcome(p) = None
    <3>1. answer[p] = None BY Identities DEF Init
    <3>2. QED BY <3>1 DEF Outcome
  <2>4. [p \in Exporters |-> Outcome(p)] = [p \in Exporters |-> None] BY <2>3
  <2>5. Ledger!Init <=> /\ Standing = None
                        /\ [p \in Exporters |-> Outcome(p)] = [p \in Exporters |-> None]
                        /\ edits = 0
    BY DEF Ledger!Init, Standing, Outcome
  <2>6. QED BY <2>1, <2>2, <2>4, <2>5
<1>2. ASSUME Typed, Owners, Unmeddled, Fair, Next, edits' = 0,
             Typed', Owners', Unmeddled', (Typed /\ Owners /\ Fresh)' => StandingIsPresent'
      PROVE  Ledger!Next \/ UNCHANGED Ledger!vars
  <2>1. edits = 0 /\ ~Edit BY <1>2, EditsGrow
  <2>2. Fresh /\ Attested /\ Fresh' BY <1>2, <2>1 DEF Unmeddled, Fair
  <2>3. StandingIsPresent /\ StandingIsPresent' BY <1>2, <2>2, WhoStands
  <2>4. PICK p \in Processes : Quiet(p) \/ (p \in Exporters /\ Loud(p)) BY <1>2, <2>1, Steps
  <2>5. QED BY <1>2, <2>1, <2>2, <2>3, <2>4, QuietLedger, LoudLedger
      DEF Ledger!Next
<1>3. ASSUME Typed, Owners, Homes, Freed, Next, edits' # 0,
             Typed', Owners', Homes', (Typed /\ Owners /\ Homes)' => StandingIsMarked'
      PROVE  Ledger!Next \/ UNCHANGED Ledger!vars
  <2>1. StandingIsMarked /\ StandingIsMarked' /\ Disks' BY <1>3, WhoIsMarked DEF Typed
  <2>2. CASE Edit BY <1>3, <2>1, <2>2, EditMeddles DEF Ledger!Next
  <2>3. CASE ~Edit
    <3>1. PICK p \in Processes : UNCHANGED edits /\ (Quiet(p) \/ (p \in Exporters /\ Loud(p)))
      BY <1>3, <2>3, Steps
    <3>2. edits \in Nat BY <1>3, ExportAssumption DEF Typed, Bounded
    <3>3. edits' = edits /\ edits > 0 BY <1>3, <3>1, <3>2
    <3>4. QED BY <1>3, <2>1, <3>1, <3>3, QuietAnswers, LoudMoves DEF Ledger!Next
  <2>4. QED BY <2>2, <2>3
<1>4. UNCHANGED vars => UNCHANGED Ledger!vars
  <2> SUFFICES ASSUME UNCHANGED vars PROVE UNCHANGED Ledger!vars OBVIOUS
  <2>1. \A q \in Exporters : Outcome(q)' = Outcome(q)
    BY DEF Outcome, Succeeded, StruckIn, vars, local, bounds
  <2>2. UNCHANGED Standing BY DEF Standing, There, Stands, Holds, vars, disk, local
  <2>3. QED BY <2>1, <2>2, LedgerStays DEF vars, bounds
<1>5. Typed /\ Owners /\ Unmeddled /\ Fair /\ Homes /\ Freed /\ [Next]_vars
      /\ (Typed /\ Owners /\ Unmeddled /\ Homes)'
      /\ ((Typed /\ Owners /\ Fresh)' => StandingIsPresent')
      /\ ((Typed /\ Owners /\ Homes)' => StandingIsMarked')
      => [Ledger!Next]_(Ledger!vars)
  BY <1>2, <1>3, <1>4
<1>6. QED
  BY <1>1, <1>5, WhoStandsNext, WhoIsMarkedNext, Foundation, Unspoiled, FairThroughout,
     HomesThroughout, FreedThroughout, PTL
  DEF Spec, ImplementsLedger, Ledger!Spec

----------------------------------------------------------------------------
(* A bundle that stands throughout a verification.                         *)

(* Nobody but the operator changes a bundle that goes on standing.         *)
LEMMA BundleStays ==
  ASSUME Typed, Owners, NEW p \in Processes, Quiet(p) \/ (p \in Exporters /\ Loud(p)),
         NEW e, Complete(Dest, e), Complete(Dest, e)'
  PROVE  entry'[Dest] = entry[Dest] /\ \A m \in Members : inside'[entry[Dest]][m] = inside[entry[Dest]][m]
<1>1. CASE Quiet(p) BY <1>1 DEF Quiet, Still
<1>2. CASE p \in Exporters /\ Loud(p)
  <2>1. /\ p \in Names /\ Dest \in Names /\ p # Dest /\ Own(p) \in Roots /\ Own(p) # None
    BY <1>2, Identities DEF Own
  <2>2. Owns(p) /\ Published(p) BY <1>2 DEF Owners
  <2>3. entry \in [Names -> Roots \cup {None}] BY DEF Typed, Disks
  <2>4. entry[Dest] # None /\ entry[Dest] \in Roots BY <2>1, <2>3 DEF Complete, There
  <2>5. \A m \in Members : inside[entry[Dest]][m] # None /\ (entry'[Dest] = entry[Dest] => inside'[entry[Dest]][m] # None)
    BY DEF Complete, Holds
  <2>6. CASE MakesSibling(p) BY <2>1, <2>3, <2>6 DEF MakesSibling
  <2>7. CASE Renames(p) BY <2>4, <2>7 DEF Renames, There
  <2>8. CASE Discards(p)
    <3>1. entry'[Dest] = entry[Dest] BY <2>1, <2>8 DEF Discards, disk
    <3>2. entry[p] = Own(p) => entry[Dest] # Own(p) BY <2>1, <2>2 DEF Published
    <3>3. QED BY <2>1, <2>4, <2>8, <3>1, <3>2 DEF Discards, disk
  <2>9. CASE RemovesRoot(p)
    <3>1. inside[entry[Dest]] # Empty BY <2>5, EmptyContents, MemberNames
    <3>2. QED BY <2>9, <3>1 DEF RemovesRoot
  <2>10. CASE Loses(p)
    <3>1. entry[Dest] # Own(p) BY <2>2, <2>10, StageGroups DEF Loses, Creation, Published
    <3>2. entry'[Dest] = entry[Dest] BY <2>1, <2>3, <2>10 DEF Loses
    <3>3. inside'[entry[Dest]] = inside[entry[Dest]] BY <2>1, <2>4, <2>10, <3>1 DEF Loses, Puts
    <3>4. QED BY <3>2, <3>3
  <2>11. ASSUME NEW m \in Members, Creates(p, m) \/ Completes(p, m)
         PROVE  entry'[Dest] = entry[Dest] /\ inside'[entry[Dest]] = inside[entry[Dest]]
    <3>1. entry[Dest] # Own(p) BY <2>2, <2>11, StageGroups DEF Creates, Completes, Creation, Published
    <3>2. QED BY <2>1, <2>4, <2>11, <3>1 DEF Creates, Completes, Puts
  <2>12. ASSUME NEW m \in Members PROVE ~Unlinks(p, m)
    <3> SUFFICES ASSUME Unlinks(p, m) PROVE FALSE OBVIOUS
    <3>1. Holds(Dest, m) BY DEF Complete
    <3>2. UNCHANGED entry /\ inside'[entry[Dest]][m] = None BY <3>1 DEF Unlinks, Puts
    <3>3. QED BY <2>5, <3>2
  <2>13. QED BY <1>2, <2>6, <2>7, <2>8, <2>9, <2>10, <2>11, <2>12 DEF Loud
<1>3. QED BY <1>1, <1>2

(* What the history records for one call.                                  *)
LEMMA Observed ==
  ASSUME Typed, Typed', Observe, NEW v \in Processes
  PROVE  /\ offered'[v].always =
              IF Stage(v) = "open" /\ Stage(v)' # "open" THEN Now'
              ELSE IF answer[v] # None THEN offered[v].always
              ELSE IF edits' # edits THEN {} ELSE offered[v].always \cap Now'
         /\ offered'[v].final =
              IF Stage(v) = "open" /\ Stage(v)' # "open" THEN {}
              ELSE offered[v].final \cup IF InFinalPass(v)' THEN Now' ELSE {}
<1>1. At(v, "open") <=> Stage(v) = "open" BY DEF At, Stage
<1>2. At(v, "open")' <=> Stage(v)' = "open" BY DEF At, Stage
<1>3. QED BY <1>1, <1>2 DEF Observe

(* What has stood throughout, with what the call has seen of it; a call    *)
(* rejects it only if it is of another version.                            *)
Matched(v, e) ==
  /\ answer[v] = None /\ Stage(v) # "open" => Complete(Dest, e) /\ Agrees(v)
  /\ answer[v] = "rejected" /\ ~StruckIn(v, Range(Program(v))) => Version[e] # Version[v]

Matches == \A v \in Verifiers : \A e \in offered[v].always : Matched(v, e)

LEMMA OthersMatch ==
  ASSUME Typed, Typed', Owners, Matches, Observe, UNCHANGED edits,
         NEW p \in Processes, Step(p) \/ Fault(p), NEW v \in Verifiers, v # p,
         NEW e \in offered'[v].always
  PROVE  Matched(v, e)'
<1>1. v \in Processes /\ v \notin Exporters BY ExportAssumption DEF Processes
<1>2. Quiet(p) \/ (p \in Exporters /\ Loud(p))
  BY VerificationIsQuiet, ExportIsQuiet, CheckIsQuiet, ExportIsLoud, FaultIsQuiet
  DEF Step, Export, RemoveOwned, Fault
<1>3. answer \in [Processes -> Exporters \cup Answers \cup {None}] BY DEF Typed, Locals
<1>4. Stage(v)' = Stage(v)
  BY <1>1, <1>2 DEF Quiet, Passes, Fails, Raised, Succeeds, Refused, Seeks, Finishes, Killed, Hindered, Ends,
     Loud, MakesSibling, Renames, Discards, RemovesRoot, Loses, Creates, Completes, Unlinks, Moved
<1>5. answer'[v] = answer[v]
  BY <1>1, <1>2, <1>3 DEF Quiet, Passes, Fails, Raised, Succeeds, Refused, Seeks, Finishes, Killed, Hindered, Ends,
     Loud, MakesSibling, Renames, Discards, RemovesRoot, Loses, Creates, Completes, Unlinks
<1>6. UNCHANGED struck \/ Struck(p)
  BY <1>2 DEF Quiet, Passes, Fails, Succeeds, Refused, Seeks, Finishes, Killed, Hindered,
     Loud, MakesSibling, Renames, Discards, RemovesRoot, Loses, Creates, Completes, Unlinks
<1>7. StruckIn(v, Range(Program(v)))' <=> StruckIn(v, Range(Program(v)))
  BY <1>6, StruckGrows
<1>8. seen'[v] = seen[v] BY <1>1, SeesAlone
<1>9. e \in offered[v].always /\ (answer[v] = None => e \in Now') BY <1>1, <1>4, Observed
<1>10. Matched(v, e) BY <1>9 DEF Matches
<1>11. ASSUME answer[v] = None, Stage(v) # "open" PROVE Complete(Dest, e)' /\ Agrees(v)'
  <2>1. Complete(Dest, e) /\ Agrees(v) BY <1>10, <1>11 DEF Matched
  <2>2. Complete(Dest, e)' BY <1>9, <1>11 DEF Now
  <2>3. entry'[Dest] = entry[Dest] /\ \A m \in Members : inside'[entry[Dest]][m] = inside[entry[Dest]][m]
    BY <1>2, <2>1, <2>2, BundleStays
  <2>4. Agrees(v)' BY <1>4, <1>8, <2>1, <2>3, MemberNames DEF Agrees
  <2>5. QED BY <2>2, <2>4
<1>12. QED BY <1>4, <1>5, <1>7, <1>10, <1>11 DEF Matched

LEMMA OwnMatch ==
  ASSUME Typed, Typed', Owners, Matches, Observe, UNCHANGED edits,
         NEW v \in Verifiers, Step(v) \/ Fault(v), NEW e \in offered'[v].always
  PROVE  Matched(v, e)'
<1>1. v \in Processes /\ v \notin Exporters BY ExportAssumption DEF Processes
<1>2. answer \in [Processes -> Exporters \cup Answers \cup {None}]
      /\ (answer[v] = None <=> Stage(v) # "over")
      /\ (answer'[v] = None <=> Stage(v)' # "over")
  BY <1>1 DEF Typed, Locals, Calls
<1>3. CASE Verify(v)
  <2>1. Quiet(v) BY <1>1, <1>3, VerificationIsQuiet
  <2>2. UNCHANGED <<entry, inside>> BY <2>1 DEF Quiet, Still
  <2>3. Stage(v) \in Looking \cup Finishing /\ Stage(v) # "over"
    <3>1. \A s : At(v, s) => Stage(v) = s BY <1>1, Moves DEF Typed
    <3>2. QED BY <1>3, <3>1 DEF Verify, Open, Root, Inventory, OpenMemberGuards, Read, InventoryAgain,
             ReadAgain, MembersAgain, RootAgain, AncestryAgain, GuardsAgain, Looking, Finishing
  <2>4. Complete(Dest, e) /\ Agrees(v)
    <3>1. CASE Stage(v) = "open"
      <4>1. Stage(v)' # "open"
        BY <1>3, <2>1, <3>1, StageGroups DEF Quiet, Passes, Fails, Raised, Succeeds, Refused, Seeks,
           Finishes, Killed, Hindered, Ends, Moved, After, Fallback
      <4>2. Complete(Dest, e)' BY <1>1, <3>1, <4>1, Observed DEF Now
      <4>3. Complete(Dest, e) BY <2>2, <4>2 DEF Complete, There, Holds
      <4>4. QED BY <3>1, <4>3 DEF Agrees, Looking, Finishing
    <3>2. CASE Stage(v) # "open"
      <4>1. e \in offered[v].always BY <1>1, <1>2, <2>3, <3>2, Observed
      <4>2. QED BY <1>2, <2>3, <3>2, <4>1 DEF Matches, Matched
    <3>3. QED BY <3>1, <3>2
  <2>5. \/ Moved(v, After(v, Stage(v))) /\ UNCHANGED answer /\ Agrees(v)'
        \/ Version[e] # Version[v] /\ Raise(v)
    <3>1. e \in Exporters BY <1>1 DEF Typed, Offers, Processes
    <3>2. QED BY <1>1, <1>3, <2>4, <3>1, GoesOn
  <2>6. CASE Moved(v, After(v, Stage(v))) /\ UNCHANGED answer /\ Agrees(v)'
    <3>1. answer'[v] = None BY <1>2, <2>3, <2>6
    <3>2. Complete(Dest, e)' BY <2>2, <2>4 DEF Complete, There, Holds
    <3>3. None # "rejected" BY AnswersDiffer
    <3>4. QED BY <2>6, <3>1, <3>2, <3>3 DEF Matched
  <2>7. CASE Version[e] # Version[v] /\ Raise(v)
    <3>1. answer'[v] = "rejected" BY <1>1, <1>2, <2>7 DEF Raise
    <3>2. QED BY <2>7, <3>1, AnswersDiffer DEF Matched
  <2>8. QED BY <2>5, <2>6, <2>7
<1>4. CASE Done(v)
  <2>1. Stage(v) = "done" BY <1>1, <1>4, Moves DEF Typed, Done
  <2>2. seen[v].bundle \in File BY <1>1, <2>1 DEF Typed, Calls, Sighted, Finishing
  <2>3. answer'[v] \in Exporters BY <1>1, <1>2, <1>4, <2>2, FileFields DEF Done
  <2>4. QED BY <2>3, AnswersDiffer DEF Matched
<1>5. CASE Fault(v)
  <2>1. todo[v] # <<>> /\ struck' = struck \cup {<<v, Head(todo[v])>>}
    BY <1>1, <1>5 DEF Fault, Interrupted, Crash, Strike
  <2>2. Head(todo[v]) \in Range(Program(v))
    <3>1. todo[v] \in Seq(Stages) /\ IsSuffix(todo[v], Program(v))
      BY <1>1 DEF Typed, Under, Controlled
    <3>2. Program(v) \in Seq(Stages) BY <1>1, Layout, StageValues DEF IsLaidOut, Processes
    <3>3. Range(todo[v]) \subseteq Range(Program(v)) BY <3>1, <3>2, RangeOfSuffix
    <3>4. Head(todo[v]) = todo[v][1] /\ 1 \in DOMAIN todo[v] BY <2>1, <3>1, TailOf
    <3>5. QED BY <3>3, <3>4 DEF Range
  <2>3. StruckIn(v, Range(Program(v)))'
    <3> DEFINE new == <<v, Head(todo[v])>>
    <3>1. new[1] = v /\ new[2] \in Range(Program(v)) /\ new \in struck' BY <2>1, <2>2
    <3> HIDE DEF new
    <3>2. QED BY <3>1 DEF StruckIn
  <2>4. answer'[v] # None
    <3>1. CASE Interrupted(v) BY <1>1, <1>2, <3>1, AnswersDiffer DEF Interrupted, Raise
    <3>2. CASE Crash(v) BY <1>1, <1>2, <3>2, AnswersDiffer DEF Crash
    <3>3. QED BY <1>1, <1>5, <3>1, <3>2 DEF Fault
  <2>5. QED BY <2>3, <2>4 DEF Matched
<1>6. QED BY <1>1, <1>3, <1>4, <1>5 DEF Step

LEMMA MatchesStep ==
  ASSUME Typed, Typed', Owners, Matches, Next
  PROVE  Matches'
<1>1. Observe BY DEF Next
<1>2. CASE Edit
  <2>1. edits' # edits /\ UNCHANGED <<local, struck>>
    BY <1>2 DEF Edit, Typed, Bounded
  <2>2. ASSUME NEW v \in Verifiers, NEW e \in offered'[v].always PROVE Matched(v, e)'
    <3>1. v \in Processes BY DEF Processes
    <3>2. Stage(v)' = Stage(v) BY <2>1, <3>1, NobodyMoves DEF Typed, local
    <3>3. answer[v] # None /\ e \in offered[v].always BY <1>1, <2>1, <2>2, <3>1, <3>2, Observed
    <3>4. Matched(v, e) BY <3>3 DEF Matches
    <3>5. QED BY <2>1, <3>3, <3>4 DEF Matched, StruckIn, local
  <2>3. QED BY <2>2 DEF Matches
<1>3. CASE ~Edit
  <2>1. PICK p \in Processes : Step(p) \/ Fault(p) BY <1>3 DEF Next
  <2>2. UNCHANGED edits BY <1>3, Steps
  <2>3. QED BY <1>1, <2>1, <2>2, OwnMatch, OthersMatch DEF Matches
<1>4. QED BY <1>2, <1>3

(* A bundle that stood whole and untouched from the beginning to the end   *)
(* of a verification by its own version is not rejected, unless a system   *)
(* call of that verification failed, whatever was done to it before and is *)
(* done to others: run_bundle.py, verify_run_bundle.                       *)
THEOREM StableIsAccepted == Spec => []StableBundleIsAccepted
<1>1. Init => Matches
  <2> SUFFICES ASSUME Init, NEW v \in Verifiers, NEW e \in offered[v].always PROVE Matched(v, e)
    BY DEF Matches
  <2>1. v \in Processes BY DEF Processes
  <2>2. Stage(v) = "open" /\ answer[v] = None BY <2>1, Starting DEF Init
  <2>3. QED BY <2>2, AnswersDiffer DEF Matched
<1>2. Typed /\ Typed' /\ Owners /\ Matches /\ [Next]_vars => Matches'
  <2>1. ASSUME Typed, Matches, UNCHANGED vars PROVE Matches'
    <3>1. \A v \in Verifiers : Stage(v)' = Stage(v)
      BY <2>1, NobodyMoves DEF Typed, vars, local, Processes
    <3>2. \A e : Complete(Dest, e)' <=> Complete(Dest, e)
      BY <2>1 DEF Complete, There, Holds, vars, disk
    <3>3. QED BY <2>1, <3>1, <3>2 DEF Matches, Matched, Agrees, StruckIn, vars, disk, local, bounds
  <2>2. QED BY <2>1, MatchesStep
<1>3. Matches => StableBundleIsAccepted BY AnswersDiffer DEF Matches, Matched, StableBundleIsAccepted
<1>4. QED BY <1>1, <1>2, <1>3, Foundation, PTL DEF Spec
----------------------------------------------------------------------------
(* What a verification says, as long as three edits do not mislead it.     *)

(* A file is in one place, and no file of the operator is newer than his   *)
(* last edit.                                                              *)
Unique ==
  \A d, e \in Roots, m \in Members :
    inside[d][m] # None /\ inside[e][m] # None /\ inside[d][m].id = inside[e][m].id => d = e
Old(i) == \A k \in 1 .. MaxTrouble : i = <<Owner, k>> => k <= edits
Aged == \A d \in Roots, m \in Members : inside[d][m] # None => Old(inside[d][m].id)
Located == Unique /\ Aged

Behind(q) == Stage(q) \notin Preparing \cup Making

(* Without the operator a file appears only in a sibling that is written.  *)
LEMMA Arrivals ==
  ASSUME Typed, Owners, Disks', NEW p \in Processes, Quiet(p) \/ (p \in Exporters /\ Loud(p)),
         NEW d \in Roots
  PROVE  /\ inside'[d].foreign = inside[d].foreign
         /\ \A m \in Members :
              \/ inside'[d][m] \in {None, inside[d][m]}
              \/ /\ p \in Exporters /\ d = Own(p) /\ ~Behind(p)
                 /\ inside'[d][m] \in {NewFile(p, m), Made(p, m)}
<1>1. CASE Quiet(p) BY <1>1 DEF Quiet, Still
<1>2. CASE p \in Exporters /\ Loud(p)
  <2>1. Owns(p) /\ Own(p) \in Roots BY <1>2, Identities DEF Owners, Own
  <2>2. CASE MakesSibling(p) \/ Renames(p) \/ RemovesRoot(p)
    BY <2>2 DEF MakesSibling, Renames, RemovesRoot
  <2>3. CASE Discards(p)
    <3>1. CASE entry[p] = Own(p)
      <4>1. root[p] = Own(p) BY <2>1, <2>3, StageGroups DEF Discards, Owns
      <4>2. Left(p).foreign = inside[Own(p)].foreign
            /\ \A m \in Members : Left(p)[m] \in {None, inside[Own(p)][m]}
        BY <1>2, <4>1, LeftIs
      <4>3. inside'[Own(p)] = Left(p) /\ (d # Own(p) => inside'[d] = inside[d])
        BY <2>3, <3>1 DEF Discards
      <4>4. QED BY <4>2, <4>3
    <3>2. CASE entry[p] # Own(p) BY <2>3, <3>2 DEF Discards, disk
    <3>3. QED BY <3>1, <3>2
  <2>4. ASSUME NEW n \in Members, Puts(Own(p), n, NewFile(p, n)) \/ Puts(Own(p), n, Made(p, n)),
               Stage(p) \in Making
        PROVE  /\ inside'[d].foreign = inside[d].foreign
               /\ \A m \in Members : \/ inside'[d][m] \in {None, inside[d][m]}
                                     \/ /\ d = Own(p) /\ ~Behind(p)
                                        /\ inside'[d][m] \in {NewFile(p, m), Made(p, m)}
    <3>1. ~Behind(p) BY <2>4 DEF Behind
    <3>2. CASE d = Own(p) BY <2>4, <3>1, <3>2 DEF Puts
    <3>3. CASE d # Own(p) BY <2>4, <3>3 DEF Puts
    <3>4. QED BY <3>2, <3>3
  <2>5. ASSUME NEW n \in Members, Creates(p, n) \/ Completes(p, n)
        PROVE  /\ Puts(Own(p), n, NewFile(p, n)) \/ Puts(Own(p), n, Made(p, n))
               /\ Stage(p) \in Making
    BY <2>5, StageGroups DEF Creates, Completes, Creation
  <2>6. CASE Loses(p)
    <3>1. \/ UNCHANGED inside
          \/ \E n \in Members : Puts(Own(p), n, NewFile(p, n)) /\ Stage(p) \in Making
      BY <2>6, StageGroups DEF Loses, Creation
    <3>2. QED BY <1>2, <2>4, <3>1
  <2>7. ASSUME NEW n \in Members, Unlinks(p, n)
        PROVE  /\ inside'[d].foreign = inside[d].foreign
               /\ \A m \in Members : inside'[d][m] \in {None, inside[d][m]}
    BY <2>7 DEF Unlinks, Puts
  <2>8. QED BY <1>2, <2>2, <2>3, <2>4, <2>5, <2>6, <2>7 DEF Loud
<1>3. QED BY <1>1, <1>2

(* What an edit writes, it writes into one file of the destination.        *)
LEMMA Rewriting ==
  ASSUME Typed, Edit, NEW d \in Roots, NEW m \in Members, inside'[d][m] \notin {None, inside[d][m]}
  PROVE  /\ d = entry[Dest] /\ UNCHANGED entry
         /\ inside'[d].foreign = inside[d].foreign
         /\ \A n \in Members \ {m} : inside'[d][n] = inside[d][n]
         /\ \A e \in Roots \ {d} : inside'[e] = inside[e]
<1>1. Dest \in Names /\ <<Owner, "root">> \in Roots BY Identities
<1>2. entry \in [Names -> Roots \cup {None}] /\ inside \in [Roots -> Contents] BY DEF Typed, Disks
<1>3. ASSUME inside' = [inside EXCEPT ![entry[Dest]] = Empty] PROVE FALSE
  <2>1. inside'[d] \in {inside[d], Empty} BY <1>2, <1>3
  <2>2. QED BY <2>1, EmptyContents
<1>4. ASSUME NEW e \in Roots, inside' = [inside EXCEPT ![e].foreign = "present"] PROVE FALSE
  <2> DEFINE c == [inside[e] EXCEPT !.foreign = "present"]
  <2>1. c[m] = inside[e][m] BY <1>2, ForeignIsField
  <2>2. inside' = [inside EXCEPT ![e] = c] BY <1>4 DEF c
  <2> HIDE DEF c
  <2>3. inside'[d][m] = inside[d][m] BY <1>2, <2>1, <2>2
  <2>4. QED BY <2>3
<1>5. There(Dest) => entry[Dest] \in Roots BY <1>1, <1>2 DEF There
<1>6. PICK n \in Members, e \in Exporters, replaced \in BOOLEAN :
        /\ Holds(Dest, n) /\ UNCHANGED entry
        /\ inside' = [inside EXCEPT ![entry[Dest]][n] =
                        [id |-> IF replaced THEN <<Owner, edits'>> ELSE @.id, by |-> e, whole |-> TRUE]]
  BY <1>1, <1>3, <1>4, <1>5 DEF Edit
<1> DEFINE f == [id |-> IF replaced THEN <<Owner, edits'>> ELSE inside[entry[Dest]][n].id,
                 by |-> e, whole |-> TRUE]
<1>7. entry[Dest] \in Roots BY <1>5, <1>6 DEF Holds
<1>8. f \in File
  <2>1. inside[entry[Dest]] \in Contents BY <1>2, <1>7
  <2>5. inside[entry[Dest]][n] # None BY <1>6 DEF Holds
  <2>2. inside[entry[Dest]][n] \in File BY <2>1, <2>5, MemberIsField
  <2>3. edits' \in 1 .. MaxTrouble BY Editing
  <2>4. f.id \in Files BY <2>2, <2>3, FileFields, Identities
  <2>6. QED BY <2>4, FileFields
<1>9. inside' = [inside EXCEPT ![entry[Dest]][n] = f] BY <1>6
<1> HIDE DEF f
<1>10. Puts(entry[Dest], n, f) BY <1>2, <1>7, <1>8, <1>9, Put
<1>11. d = entry[Dest] /\ m = n BY <1>7, <1>10 DEF Puts
<1>12. QED BY <1>6, <1>10, <1>11 DEF Puts

LEMMA BehindStays ==
  ASSUME Typed, Owners, NEW p \in Processes, Quiet(p) \/ (p \in Exporters /\ Loud(p)),
         NEW q \in Exporters, Behind(q)
  PROVE  Behind(q)'
<1>1. q \in Processes BY Identities
<1>2. CASE q # p
  <2>1. Stage(q)' = Stage(q)
    BY <1>1, <1>2 DEF Quiet, Passes, Fails, Raised, Succeeds, Refused, Seeks, Finishes, Killed, Hindered, Ends,
       Loud, MakesSibling, Renames, Discards, RemovesRoot, Loses, Creates, Completes, Unlinks, Moved
  <2>2. QED BY <2>1 DEF Behind
<1>3. CASE q = p /\ Quiet(p)
  <2>1. PICK s : /\ Moved(p, s)
                 /\ s \in Preparing \cup Making =>
                      \/ Stage(p) = "exists" /\ s = "mkdtemp"
                      \/ Stage(p) = "verify_staged" /\ s = "publish"
    BY <1>3, QuietFlow DEF Owners
  <2>2. QED BY <1>3, <2>1, StageGroups DEF Behind, Moved
<1>4. CASE q = p /\ Loud(p)
  <2>1. ~MakesSibling(p) /\ ~Renames(p) /\ ~Loses(p)
        /\ \A m \in Members : ~Creates(p, m) /\ ~Completes(p, m)
    BY <1>4, StageGroups DEF Behind, MakesSibling, Renames, Loses, Creates, Completes, Creation
  <2>2. CASE Discards(p) \/ RemovesRoot(p)
    BY <1>4, <2>2, StageGroups DEF Discards, RemovesRoot, Moved, Behind
  <2>3. ASSUME NEW m \in Members, Unlinks(p, m) PROVE Behind(q)'
    <3>1. Stage(p)' \in {"check_sidecar", "remaining"} BY <2>3, StageGroups DEF Unlinks, Unlink, Moved, After
    <3>2. QED BY <1>4, <3>1, StageGroups DEF Behind
  <2>4. QED BY <1>4, <2>1, <2>2, <2>3 DEF Loud
<1>5. QED BY <1>2, <1>3, <1>4

LEMMA LocatedStep ==
  ASSUME Typed, Owners, Homes, Homes', Located, Next, Disks'
  PROVE  Located'
<1>1. inside \in [Roots -> Contents] /\ inside' \in [Roots -> Contents] BY DEF Typed, Disks
<1>2. edits \in Nat BY ExportAssumption DEF Typed, Bounded
<1>3. CASE Edit
  <2>1. edits' = edits + 1 /\ \A d \in Roots, m \in Members : Rewritten(d, m) BY <1>3, Editing
  <2>2. \A d \in Roots, m \in Members : inside[d][m] # None => inside[d][m].id # <<Owner, edits'>>
    <3>1. edits' \in 1 .. MaxTrouble BY <1>3, Editing
    <3>2. QED BY <1>2, <2>1, <3>1 DEF Located, Aged, Old
  <2>3. Aged'
    <3> SUFFICES ASSUME NEW d \in Roots, NEW m \in Members, inside'[d][m] # None,
                        NEW k \in 1 .. MaxTrouble, inside'[d][m].id = <<Owner, k>>
                 PROVE  k <= edits'
      BY DEF Aged, Old
    <3>1. inside[d][m] # None /\ inside'[d][m].id \in {inside[d][m].id, <<Owner, edits'>>}
      BY <2>1 DEF Rewritten
    <3>2. CASE inside'[d][m].id = inside[d][m].id
      <4>1. k <= edits BY <3>1, <3>2 DEF Located, Aged, Old
      <4>2. QED BY <1>2, <2>1, <4>1
    <3>3. CASE inside'[d][m].id = <<Owner, edits'>>
      <4>1. k = edits' BY <3>3
      <4>2. QED BY <1>2, <2>1, <4>1
    <3>4. QED BY <3>1, <3>2, <3>3
  <2>4. Unique'
    <3> SUFFICES ASSUME NEW d \in Roots, NEW e \in Roots, NEW m \in Members, d # e,
                        inside'[d][m] # None, inside'[e][m] # None,
                        inside'[d][m].id = inside'[e][m].id
                 PROVE  FALSE
      BY DEF Unique
    <3>1. ASSUME NEW x \in Roots, NEW y \in Roots, x # y, inside'[x][m] # None, inside'[y][m] # None,
                 inside'[x][m].id = inside'[y][m].id, inside'[x][m] # inside[x][m]
          PROVE  FALSE
      <4>1. inside'[y] = inside[y] BY <1>3, <3>1, Rewriting
      <4>2. inside[x][m] # None /\ inside'[x][m].id \in {inside[x][m].id, <<Owner, edits'>>}
        BY <2>1, <3>1 DEF Rewritten
      <4>3. QED BY <2>2, <3>1, <4>1, <4>2 DEF Located, Unique
    <3>2. inside'[d][m] = inside[d][m] /\ inside'[e][m] = inside[e][m] BY <3>1
    <3>3. QED BY <3>2 DEF Located, Unique
  <2>5. QED BY <2>3, <2>4 DEF Located
<1>4. CASE ~Edit
  <2>1. PICK p \in Processes : UNCHANGED edits /\ (Quiet(p) \/ (p \in Exporters /\ Loud(p)))
    BY <1>4, Steps
  <2>2. ASSUME NEW d \in Roots, NEW m \in Members, inside'[d][m] # None, inside'[d][m] # inside[d][m]
        PROVE  \E q \in Exporters : inside'[d][m].id = <<q, m>> /\ d = Own(q)
    <3>1. p \in Exporters /\ inside'[d][m] \in {NewFile(p, m), Made(p, m)} /\ d = Own(p)
      BY <2>1, <2>2, Arrivals
    <3>2. NewFile(p, m).id = <<p, m>> /\ Made(p, m).id = <<p, m>> BY <3>1, FilesMade
    <3>3. inside'[d][m].id = <<p, m>> BY <3>1, <3>2
    <3>4. QED BY <3>1, <3>3
  <2>3. Unique'
    <3> SUFFICES ASSUME NEW d \in Roots, NEW e \in Roots, NEW m \in Members,
                        inside'[d][m] # None, inside'[e][m] # None,
                        inside'[d][m].id = inside'[e][m].id
                 PROVE  d = e
      BY DEF Unique
    <3>1. CASE \E q \in Exporters : inside'[d][m].id = <<q, m>>
      <4>1. PICK q \in Exporters : inside'[d][m].id = <<q, m>> BY <3>1
      <4>2. d = Own(q) /\ e = Own(q) BY <4>1 DEF Homes, Own
      <4>3. QED BY <4>2
    <3>2. CASE ~\E q \in Exporters : inside'[d][m].id = <<q, m>>
      <4>1. inside'[d][m] = inside[d][m] BY <2>2, <3>2
      <4>2. inside'[e][m] = inside[e][m] BY <2>2, <3>2
      <4>3. QED BY <4>1, <4>2 DEF Located, Unique
    <3>3. QED BY <3>1, <3>2
  <2>4. Aged'
    <3> SUFFICES ASSUME NEW d \in Roots, NEW m \in Members, inside'[d][m] # None,
                        NEW k \in 1 .. MaxTrouble, inside'[d][m].id = <<Owner, k>>
                 PROVE  k <= edits'
      BY DEF Aged, Old
    <3>1. inside'[d][m] = inside[d][m]
      <4>1. \A q \in Exporters : <<q, m>> # <<Owner, k>> BY ExportAssumption
      <4>2. QED BY <2>2, <4>1
    <3>2. QED BY <2>1, <3>1 DEF Located, Aged, Old
  <2>5. QED BY <2>3, <2>4 DEF Located
<1>5. QED BY <1>3, <1>4

(* What a step of a verification captures, or finds again.                 *)
Reading(m) == IF m = "bundle" THEN "read_bundle" ELSE "read_sidecar"
Finds(p) ==
  /\ Stage(p) = "inventory_again" => Strict /\ MemberIds(entry[Dest]) = seen[p].ids
  /\ Stage(p) = "bundle_again" => Unchanged(p, "bundle")
  /\ Stage(p) = "sidecar_again" => Unchanged(p, "sidecar")
  /\ Stage(p) = "members_again" =>
       \A m \in Members : Holds(Dest, m) /\ inside[entry[Dest]][m].id = seen[p].ids[m]
Captures(p) ==
  /\ Moved(p, After(p, Stage(p))) /\ UNCHANGED answer
  /\ Stage(p) \in Looking \cup (Finishing \ {"done"}) /\ Finds(p)
  /\ IF Stage(p) = "open" THEN There(Dest) /\ seen'[p].guard = entry[Dest]
     ELSE seen'[p].guard = seen[p].guard
  /\ \/ seen'[p].ids = seen[p].ids
     \/ /\ Stage(p) \in {"inventory", "guards"}
        /\ \E d \in Roots \cap {entry[Dest], seen[p].guard} :
             (\A m \in Members : inside[d][m] # None) /\ seen'[p].ids = MemberIds(d)
  /\ \A m \in Members :
       \/ Stage(p) # Reading(m) /\ seen'[p][m] = seen[p][m]
       \/ Stage(p) = Reading(m) /\ Stable(p, m) /\ seen'[p][m] = inside[Directory(p)][m]

(* A call ends with a result, or leaves its verification without one, or   *)
(* has not come to it; the others stay where they are.                     *)
Concludes(p) == Stage(p) = "done" /\ Ends(p, seen[p].bundle.by) /\ seen'[p] = Nothing
Leaves(p) ==
  /\ Stage(p)' \notin (Looking \ {"open"}) \cup Finishing
  /\ answer'[p] = answer[p] \/ answer'[p] \in Answers
  /\ seen'[p] \in {seen[p], Nothing}
Idles(q) == Stage(q)' = Stage(q) /\ seen'[q] = seen[q] /\ answer'[q] = answer[q]

LEMMA RequireCaptures ==
  ASSUME Typed, NEW p \in Processes, NEW c \in BOOLEAN, Require(p, c),
         Stage(p) \in Finishing \ {"done"}, c => Finds(p)
  PROVE  Captures(p) \/ Raise(p)
<1>1. Raise(p) \/ (c /\ Advance(p) /\ UNCHANGED <<seen, answer>>) BY DEF Require
<1>2. ASSUME c, Advance(p), UNCHANGED <<seen, answer>> PROVE Captures(p)
  <2>1. Stage(p) # "over" BY DEF Finishing
  <2>2. Moved(p, After(p, Stage(p))) BY <1>2, <2>1, Moves DEF Typed
  <2>3. Stage(p) # "open" /\ \A m \in Members : Stage(p) # Reading(m) BY DEF Reading, Finishing
  <2>4. QED BY <1>2, <2>2, <2>3 DEF Captures
<1>3. QED BY <1>1, <1>2

(* A step that captures one thing in its sight.                            *)
LEMMA LooksOn ==
  ASSUME Typed, NEW p \in Processes, Stage(p) \in Looking, NEW s,
         seen' = [seen EXCEPT ![p] = s], Advance(p), UNCHANGED answer
  PROVE  /\ seen'[p] = s /\ Moved(p, After(p, Stage(p))) /\ UNCHANGED answer
         /\ Stage(p) \in Looking \cup (Finishing \ {"done"}) /\ Finds(p)
<1>1. Stage(p) # "over" BY DEF Looking
<1>2. Moved(p, After(p, Stage(p))) BY <1>1, Moves DEF Typed
<1>3. Finds(p) BY DEF Finds, Looking
<1>4. QED BY <1>2, <1>3 DEF Typed, Locals

LEMMA VerificationCaptures ==
  ASSUME Typed, NEW p \in Processes, Verify(p)
  PROVE  UNCHANGED <<entry, inside>> /\ (Captures(p) \/ Raise(p))
<1>1. UNCHANGED <<entry, inside>>
  BY DEF Verify, Open, Root, Inventory, OpenMemberGuards, Read, InventoryAgain, ReadAgain, MembersAgain,
         RootAgain, AncestryAgain, GuardsAgain, Require, disk
<1>2. \A s : At(p, s) => Stage(p) = s BY Moves DEF Typed
<1>3. seen[p] \in Sight BY DEF Typed, Locals
<1>4. CASE Open(p)
  <2> DEFINE s == [seen[p] EXCEPT !.guard = entry[Dest]]
  <2>1. Stage(p) = "open" BY <1>2, <1>4 DEF Open
  <2>2. s.guard = entry[Dest] /\ s.ids = seen[p].ids /\ \A m \in Members : s[m] = seen[p][m]
    BY <1>3, MemberNames DEF Sight
  <2>3. Raise(p) \/ (There(Dest) /\ seen' = [seen EXCEPT ![p] = s] /\ Advance(p) /\ UNCHANGED answer)
    BY <1>4 DEF Open
  <2> HIDE DEF s
  <2>4. CASE There(Dest) /\ seen' = [seen EXCEPT ![p] = s] /\ Advance(p) /\ UNCHANGED answer
    <3>1. /\ seen'[p] = s /\ Moved(p, After(p, Stage(p))) /\ UNCHANGED answer
          /\ Stage(p) \in Looking \cup (Finishing \ {"done"}) /\ Finds(p)
      BY <2>1, <2>4, LooksOn DEF Looking
    <3>2. \A m \in Members : Stage(p) # Reading(m) BY <2>1 DEF Reading
    <3>3. QED BY <1>1, <2>1, <2>2, <2>4, <3>1, <3>2 DEF Captures
  <2>5. QED BY <1>1, <2>3, <2>4
<1>5. CASE Root(p)
  <2> DEFINE s == [seen[p] EXCEPT !.root = entry[Dest]]
  <2>1. Stage(p) = "root" BY <1>2, <1>5 DEF Root
  <2>2. s.guard = seen[p].guard /\ s.ids = seen[p].ids /\ \A m \in Members : s[m] = seen[p][m]
    BY <1>3, MemberNames DEF Sight
  <2>3. Raise(p) \/ (seen' = [seen EXCEPT ![p] = s] /\ Advance(p) /\ UNCHANGED answer)
    BY <1>5 DEF Root
  <2> HIDE DEF s
  <2>4. CASE seen' = [seen EXCEPT ![p] = s] /\ Advance(p) /\ UNCHANGED answer
    <3>1. /\ seen'[p] = s /\ Moved(p, After(p, Stage(p))) /\ UNCHANGED answer
          /\ Stage(p) \in Looking \cup (Finishing \ {"done"}) /\ Finds(p)
      BY <2>1, <2>4, LooksOn DEF Looking
    <3>2. \A m \in Members : Stage(p) # Reading(m) BY <2>1 DEF Reading
    <3>3. Stage(p) # "open" BY <2>1
    <3>4. QED BY <1>1, <2>2, <3>1, <3>2, <3>3 DEF Captures
  <2>5. QED BY <1>1, <2>3, <2>4
<1>6. ASSUME NEW i, NEW c \in BOOLEAN, Stage(p) \in {"inventory", "guards"},
             \/ Raise(p)
             \/ c /\ seen' = [seen EXCEPT ![p] = [seen[p] EXCEPT !.ids = i]] /\ Advance(p) /\ UNCHANGED answer,
             c => \/ i = seen[p].ids
                  \/ \E d \in Roots \cap {entry[Dest], seen[p].guard} :
                       (\A m \in Members : inside[d][m] # None) /\ i = MemberIds(d)
      PROVE  Captures(p) \/ Raise(p)
  <2> DEFINE s == [seen[p] EXCEPT !.ids = i]
  <2>1. s.guard = seen[p].guard /\ s.ids = i /\ \A m \in Members : s[m] = seen[p][m]
    BY <1>3, MemberNames DEF Sight
  <2>2. Raise(p) \/ (c /\ seen' = [seen EXCEPT ![p] = s] /\ Advance(p) /\ UNCHANGED answer)
    BY <1>6
  <2> HIDE DEF s
  <2>3. CASE c /\ seen' = [seen EXCEPT ![p] = s] /\ Advance(p) /\ UNCHANGED answer
    <3>1. /\ seen'[p] = s /\ Moved(p, After(p, Stage(p))) /\ UNCHANGED answer
          /\ Stage(p) \in Looking \cup (Finishing \ {"done"}) /\ Finds(p)
      BY <1>6, <2>3, LooksOn DEF Looking
    <3>2. \A m \in Members : Stage(p) # Reading(m) BY <1>6 DEF Reading
    <3>3. Stage(p) # "open" BY <1>6
    <3>4. QED BY <1>6, <2>1, <2>3, <3>1, <3>2, <3>3 DEF Captures
  <2>4. QED BY <2>2, <2>3
<1>7. CASE Inventory(p)
  <2> DEFINE i == IF Version[p] = "v1" THEN seen[p].ids ELSE MemberIds(entry[Dest])
  <2>1. Stage(p) = "inventory" BY <1>2, <1>7 DEF Inventory
  <2>2. Raise(p) \/ (Strict /\ seen' = [seen EXCEPT ![p] = [seen[p] EXCEPT !.ids = i]]
                     /\ Advance(p) /\ UNCHANGED answer)
    BY <1>7 DEF Inventory
  <2>3. Strict => /\ entry[Dest] \in Roots
                  /\ \A m \in Members : inside[entry[Dest]][m] # None
    BY Identities DEF Strict, There, Holds, Typed, Disks
  <2>4. Strict => \/ i = seen[p].ids
                  \/ \E d \in Roots \cap {entry[Dest], seen[p].guard} :
                       (\A m \in Members : inside[d][m] # None) /\ i = MemberIds(d)
    BY <2>3
  <2>5. Strict \in BOOLEAN BY DEF Strict
  <2> HIDE DEF i
  <2>6. QED BY <1>1, <1>6, <2>1, <2>2, <2>4, <2>5
<1>8. CASE OpenMemberGuards(p)
  <2> DEFINE c == \A m \in Members : inside[seen[p].guard][m] # None
             i == MemberIds(seen[p].guard)
  <2>1. Stage(p) = "guards" BY <1>2, <1>8 DEF OpenMemberGuards
  <2>2. Raise(p) \/ (c /\ seen' = [seen EXCEPT ![p] = [seen[p] EXCEPT !.ids = i]]
                     /\ Advance(p) /\ UNCHANGED answer)
    BY <1>8 DEF OpenMemberGuards
  <2>3. seen[p].guard \in Roots BY <2>1 DEF Typed, Calls, Sighted, Looking
  <2>4. c => \E d \in Roots \cap {entry[Dest], seen[p].guard} :
                       (\A m \in Members : inside[d][m] # None) /\ i = MemberIds(d)
    BY <2>3
  <2>5. c \in BOOLEAN OBVIOUS
  <2> HIDE DEF i, c
  <2>6. QED BY <1>1, <1>6, <2>1, <2>2, <2>4, <2>5
<1>9. ASSUME NEW m \in Members, Read(p, m, Reading(m)) PROVE Captures(p) \/ Raise(p)
  <2> DEFINE f == inside[Directory(p)][m]
             s == [seen[p] EXCEPT ![m] = f]
  <2>1. Stage(p) = Reading(m) BY <1>2, <1>9 DEF Read
  <2>2. /\ s.guard = seen[p].guard /\ s.ids = seen[p].ids /\ s[m] = f
        /\ \A n \in Members \ {m} : s[n] = seen[p][n]
    BY <1>3, MemberNames DEF Sight
  <2>3. Raise(p) \/ (Stable(p, m) /\ seen' = [seen EXCEPT ![p] = s] /\ Advance(p) /\ UNCHANGED answer)
    BY <1>9 DEF Read
  <2>4. Stage(p) \in Looking /\ Stage(p) # "open" /\ \A n \in Members \ {m} : Stage(p) # Reading(n)
    BY <2>1, MemberNames DEF Reading, Looking
  <2> HIDE DEF s
  <2>5. CASE Stable(p, m) /\ seen' = [seen EXCEPT ![p] = s] /\ Advance(p) /\ UNCHANGED answer
    <3>1. /\ seen'[p] = s /\ Moved(p, After(p, Stage(p))) /\ UNCHANGED answer
          /\ Stage(p) \in Looking \cup (Finishing \ {"done"}) /\ Finds(p)
      BY <2>4, <2>5, LooksOn
    <3>2. QED BY <2>1, <2>2, <2>4, <2>5, <3>1 DEF Captures
  <2>6. QED BY <2>3, <2>5
<1>10. CASE Read(p, "bundle", "read_bundle") \/ Read(p, "sidecar", "read_sidecar")
  BY <1>1, <1>9, <1>10, MemberNames DEF Reading
<1>11. CASE InventoryAgain(p)
  <2> DEFINE c == Strict /\ MemberIds(entry[Dest]) = seen[p].ids
  <2>1. Stage(p) = "inventory_again" /\ Require(p, c) BY <1>2, <1>11 DEF InventoryAgain
  <2>2. c => Finds(p) BY <2>1 DEF Finds
  <2>3. c \in BOOLEAN BY DEF Strict
  <2> HIDE DEF c
  <2>4. QED BY <1>1, <2>1, <2>2, <2>3, RequireCaptures DEF Finishing
<1>12. CASE ReadAgain(p, "bundle", "bundle_again")
  <2>1. Stage(p) = "bundle_again" /\ Require(p, Unchanged(p, "bundle")) BY <1>2, <1>12 DEF ReadAgain
  <2>2. Unchanged(p, "bundle") => Finds(p) BY <2>1 DEF Finds
  <2>3. Unchanged(p, "bundle") \in BOOLEAN BY DEF Unchanged
  <2>4. QED BY <1>1, <2>1, <2>2, <2>3, RequireCaptures DEF Finishing
<1>13. CASE ReadAgain(p, "sidecar", "sidecar_again")
  <2>1. Stage(p) = "sidecar_again" /\ Require(p, Unchanged(p, "sidecar")) BY <1>2, <1>13 DEF ReadAgain
  <2>2. Unchanged(p, "sidecar") => Finds(p) BY <2>1 DEF Finds
  <2>3. Unchanged(p, "sidecar") \in BOOLEAN BY DEF Unchanged
  <2>4. QED BY <1>1, <2>1, <2>2, <2>3, RequireCaptures DEF Finishing
<1>14. CASE MembersAgain(p)
  <2> DEFINE c == \A m \in Members : Holds(Dest, m) /\ inside[entry[Dest]][m].id = seen[p].ids[m]
  <2>1. Stage(p) = "members_again" /\ Require(p, c) BY <1>2, <1>14 DEF MembersAgain
  <2>2. c => Finds(p) BY <2>1 DEF Finds
  <2>3. c \in BOOLEAN OBVIOUS
  <2> HIDE DEF c
  <2>4. QED BY <1>1, <2>1, <2>2, <2>3, RequireCaptures DEF Finishing
<1>15. CASE RootAgain(p) \/ AncestryAgain(p) \/ GuardsAgain(p)
  <2> DEFINE c == \A m \in Members : Stable(p, m)
  <2>1. \/ At(p, "root_again") /\ Require(p, entry[Dest] = seen[p].root)
        \/ At(p, "ancestry_again") /\ Require(p, entry[Dest] = seen[p].guard)
        \/ At(p, "guards_again") /\ Require(p, c)
    BY <1>15 DEF RootAgain, AncestryAgain, GuardsAgain
  <2>2. Stage(p) \in {"root_again", "ancestry_again", "guards_again"} BY <1>2, <2>1
  <2>3. Finds(p) /\ Stage(p) \in Finishing \ {"done"} BY <2>2 DEF Finds, Finishing
  <2>4. c \in BOOLEAN OBVIOUS
  <2> HIDE DEF c
  <2>5. QED BY <1>1, <2>1, <2>3, <2>4, RequireCaptures
<1>16. QED
  BY <1>1, <1>4, <1>5, <1>7, <1>8, <1>10, <1>11, <1>12, <1>13, <1>14, <1>15 DEF Verify

(* Who verifies, in a step that is not the operator's.                     *)
LEMMA OneVerifies ==
  ASSUME Typed, Owners, Next, ~Edit
  PROVE  \E p \in Processes :
           /\ UNCHANGED edits /\ (Quiet(p) \/ (p \in Exporters /\ Loud(p)))
           /\ \A q \in Processes \ {p} : Idles(q)
           /\ Leaves(p) \/ (UNCHANGED <<entry, inside>> /\ (Captures(p) \/ Concludes(p)))
<1>1. PICK p \in Processes : Step(p) \/ Fault(p) BY DEF Next
<1>2. Quiet(p) \/ (p \in Exporters /\ Loud(p))
  BY <1>1, VerificationIsQuiet, ExportIsQuiet, CheckIsQuiet, ExportIsLoud, FaultIsQuiet
  DEF Step, Export, RemoveOwned, Fault
<1>3. UNCHANGED edits BY Steps
<1>4. /\ seen \in [Processes -> Sight]
      /\ answer \in [Processes -> Exporters \cup Answers \cup {None}]
      /\ (answer[p] = None <=> Stage(p) # "over")
  BY DEF Typed, Locals, Calls
<1>5. ASSUME NEW q \in Processes \ {p} PROVE Idles(q)
  <2>1. q \in Processes /\ q # p OBVIOUS
  <2>2. Stage(q)' = Stage(q)
    BY <1>2, <2>1 DEF Quiet, Passes, Fails, Raised, Succeeds, Refused, Seeks, Finishes, Killed, Hindered, Ends,
       Loud, MakesSibling, Renames, Discards, RemovesRoot, Loses, Creates, Completes, Unlinks, Moved
  <2>3. answer'[q] = answer[q]
    BY <1>2, <1>4, <2>1 DEF Quiet, Passes, Fails, Raised, Succeeds, Refused, Seeks, Finishes, Killed, Hindered, Ends,
       Loud, MakesSibling, Renames, Discards, RemovesRoot, Loses, Creates, Completes, Unlinks
  <2>4. seen'[q] = seen[q] BY <1>1, <2>1, SeesAlone
  <2>5. QED BY <2>2, <2>3, <2>4 DEF Idles
<1>6. "over" \notin Looking \cup Finishing /\ "rejected" \in Answers /\ "crashed" \in Answers
      /\ Fallback(p) \notin Looking \cup Finishing
  BY AnswersDiffer DEF Looking, Finishing, Fallback
<1>7. Raise(p) => Leaves(p)
  <2>1. Raise(p) => Raised(p) BY Moves DEF Typed
  <2>2. QED BY <1>4, <1>6, <2>1 DEF Raised, Leaves, Moved
<1>8. CASE Verify(p)
  <2>1. UNCHANGED <<entry, inside>> /\ (Captures(p) \/ Raise(p)) BY <1>8, VerificationCaptures
  <2>2. QED BY <1>2, <1>3, <1>5, <1>7, <2>1
<1>9. CASE Done(p)
  <2>1. Stage(p) = "done" /\ todo[p] # <<>> BY <1>9, Moves DEF Typed, Done, At
  <2>2. Moved(p, "over") BY <1>9, <2>1, Moves DEF Typed, Done, After
  <2>3. Concludes(p) BY <1>4, <1>9, <2>1, <2>2 DEF Concludes, Done, Ends
  <2>4. UNCHANGED <<entry, inside>> BY <1>9 DEF Done, disk
  <2>5. QED BY <1>2, <1>3, <1>5, <2>3, <2>4
<1>10. CASE p \in Exporters /\ (Export(p) \/ Fault(p))
  <2>1. /\ Stage(p)' \notin (Looking \ {"open"}) \cup Finishing
        /\ answer'[p] = answer[p] \/ answer'[p] \in Answers
    BY <1>10, Departs
  <2>2. Raise(p) => seen'[p] = Nothing BY <1>4 DEF Raise
  <2>3. \A c : Require(p, c) => seen'[p] \in {seen[p], Nothing} BY <2>2 DEF Require
  <2>4. seen'[p] \in {seen[p], Nothing}
    <3>1. CASE Exists(p) \/ MakeStaging(p) \/ WriteMembers(p)
      BY <3>1 DEF Exists, MakeStaging, WriteMembers, Create, Fill
    <3>2. CASE VerifyStaging(p) \/ Confirm(p) BY <2>3, <3>2 DEF VerifyStaging, Confirm
    <3>3. CASE Publish(p) BY <2>2, <3>3 DEF Publish
    <3>4. CASE RemoveOwned(p)
      BY <3>4 DEF RemoveOwned, Discard, Look, CheckMember, UnlinkMember, Remaining, CheckRoot, RemoveRoot,
                  Fail, Check
    <3>5. CASE Fault(p)
      BY <1>4, <2>2, <3>5 DEF Fault, Interrupted, Crash, InterruptedUnknown, InterruptedRename, CleanupFails
    <3>6. QED BY <1>10, <3>1, <3>2, <3>3, <3>4, <3>5 DEF Export
  <2>5. Leaves(p) BY <2>1, <2>4 DEF Leaves
  <2>6. QED BY <1>2, <1>3, <1>5, <2>5
<1>11. CASE p \notin Exporters /\ Fault(p)
  <2>1. CASE Interrupted(p) BY <1>2, <1>3, <1>5, <1>7, <2>1 DEF Interrupted
  <2>2. CASE Crash(p)
    <3>1. Stage(p)' = "over" BY <2>2, Moves DEF Typed, Crash, Moved
    <3>2. Leaves(p) BY <1>4, <1>6, <2>2, <3>1 DEF Crash, Leaves
    <3>3. QED BY <1>2, <1>3, <1>5, <3>2
  <2>3. QED BY <1>11, <2>1, <2>2 DEF Fault
<1>12. QED BY <1>1, <1>8, <1>9, <1>10, <1>11 DEF Step

(* What a call has read of a member is of the file that it has identified. *)
Holding(m) == Finishing \cup (IF m = "bundle" THEN {"read_sidecar"} ELSE {})
Recorded ==
  \A p \in Processes, m \in Members : Stage(p) \in Holding(m) => seen[p][m].id = seen[p].ids[m]

(* It has identified nothing that is still to be made.                     *)
Known ==
  \A p \in Processes :
    /\ \A q \in Exporters : seen[p].guard = Own(q) => Behind(q)
    /\ \A m \in Members : /\ Old(seen[p].ids[m])
                          /\ \A q \in Exporters : seen[p].ids[m] = <<q, m>> => Behind(q)

(* While nobody meddles the bytes of a file are its exporter's, and a file *)
(* at the destination is whole.                                            *)
Genuine ==
  edits = 0 =>
    /\ \A p \in Processes : seen[p].guard = None \/ \E q \in Exporters : seen[p].guard = Own(q)
    /\ \A p \in Processes, m \in Members : seen[p][m] # None => seen[p][m].id = <<seen[p][m].by, m>>
    /\ \A q \in Exporters, m \in Members : entry[Dest] = Own(q) => inside[Own(q)][m] \in {None, Made(q, m)}

LEMMA NothingIs ==
  /\ Nothing.guard = None /\ \A m \in Members : Nothing[m] = None /\ Nothing.ids[m] = None
  /\ \A q \in Exporters : None # Own(q) /\ \A m \in Members : None # <<q, m>>
  /\ Old(None)
<1>1. Nothing.guard = None /\ \A m \in Members : Nothing[m] = None /\ Nothing.ids[m] = None
  BY MemberNames DEF Nothing, NoMembers
<1>2. \A q \in Exporters : None # Own(q) /\ \A m \in Members : None # <<q, m>>
  <2>1. \A q \in Exporters : None # Own(q) BY Identities DEF Own
  <2>2. ASSUME NEW q \in Exporters, NEW m \in Members PROVE None # <<q, m>>
    <3>1. <<q, m>> \in Files BY Identities
    <3>2. QED BY <3>1, ExportAssumption
  <2>3. QED BY <2>1, <2>2
<1>3. Old(None) BY Identities, ExportAssumption DEF Old
<1>4. QED BY <1>1, <1>2, <1>3

LEMMA RecordedStep ==
  ASSUME Typed, Owners, Recorded, Next
  PROVE  Recorded'
<1>1. CASE Edit
  <2>1. UNCHANGED local BY <1>1, Editing
  <2>2. \A p \in Processes : Stage(p)' = Stage(p) BY <2>1, NobodyMoves DEF Typed, local
  <2>3. QED BY <2>1, <2>2 DEF Recorded, local, Holding
<1>2. CASE ~Edit
  <2>1. PICK p \in Processes :
          /\ UNCHANGED edits /\ (Quiet(p) \/ (p \in Exporters /\ Loud(p)))
          /\ \A q \in Processes \ {p} : Idles(q)
          /\ Leaves(p) \/ (UNCHANGED <<entry, inside>> /\ (Captures(p) \/ Concludes(p)))
    BY <1>2, OneVerifies
  <2> SUFFICES ASSUME NEW q \in Processes, NEW m \in Members, Stage(q)' \in Holding(m)
               PROVE  seen'[q][m].id = seen'[q].ids[m]
    BY DEF Recorded, Holding
  <2>2. Stage(q) \in Holding(m) => seen[q][m].id = seen[q].ids[m] BY DEF Recorded
  <2>3. CASE q # p BY <2>1, <2>2, <2>3 DEF Idles
  <2>4. CASE q = p
    <3>1. ~Leaves(p) BY <2>4 DEF Leaves, Holding, Looking
    <3>2. ~Concludes(p) BY <2>4 DEF Concludes, Ends, Moved, Holding, Finishing
    <3>3. Captures(p) BY <2>1, <3>1, <3>2
    <3>4. Stage(p)' = After(p, Stage(p)) BY <3>3 DEF Captures, Moved
    <3>5. Stage(p) \in Holding(m) \cup {Reading(m)}
      <4>1. Stage(p) \in Looking \cup (Finishing \ {"done"}) BY <3>3 DEF Captures
      <4>2. QED BY <2>4, <3>4, <4>1, MemberNames DEF After, Holding, Reading, Looking, Finishing
    <3>6. Stage(p) \notin {"inventory", "guards"} BY <3>5 DEF Holding, Reading, Finishing
    <3>7. seen'[p].ids = seen[p].ids BY <3>3, <3>6 DEF Captures
    <3>8. CASE Stage(p) = Reading(m)
      <4>1. Stable(p, m) /\ seen'[p][m] = inside[Directory(p)][m] BY <3>3, <3>8 DEF Captures
      <4>2. QED BY <2>4, <3>7, <4>1 DEF Stable
    <3>9. CASE Stage(p) # Reading(m)
      <4>1. seen'[p][m] = seen[p][m] BY <3>3, <3>9 DEF Captures
      <4>2. QED BY <2>2, <2>4, <3>5, <3>7, <3>9, <4>1
    <3>10. QED BY <3>8, <3>9
  <2>5. QED BY <2>3, <2>4
<1>3. QED BY <1>1, <1>2

LEMMA KnownStep ==
  ASSUME Typed, Owners, Homes, Located, Known, Next
  PROVE  Known'
<1>1. edits \in Nat BY ExportAssumption DEF Typed, Bounded
<1>2. CASE Edit
  <2>1. UNCHANGED local /\ edits' = edits + 1 BY <1>2, Editing
  <2>2. \A p \in Processes : Stage(p)' = Stage(p) BY <2>1, NobodyMoves DEF Typed, local
  <2>3. \A q \in Exporters : Behind(q) => Behind(q)' BY <2>2, Identities DEF Behind
  <2>4. \A i : Old(i) => Old(i)' BY <1>1, <2>1 DEF Old
  <2>5. QED BY <2>1, <2>3, <2>4 DEF Known, Own, local
<1>3. CASE ~Edit
  <2>1. PICK p \in Processes :
          /\ UNCHANGED edits /\ (Quiet(p) \/ (p \in Exporters /\ Loud(p)))
          /\ \A q \in Processes \ {p} : Idles(q)
          /\ Leaves(p) \/ (UNCHANGED <<entry, inside>> /\ (Captures(p) \/ Concludes(p)))
    BY <1>3, OneVerifies
  <2>2. \A q \in Exporters : Behind(q) => Behind(q)' BY <2>1, BehindStays
  <2>3. \A i : Old(i) <=> Old(i)' BY <2>1 DEF Old
  <2>4. \A q \in Exporters : entry[Dest] = Own(q) => Behind(q) BY DEF Owners, Published, Behind
  <2> SUFFICES ASSUME NEW r \in Processes
               PROVE  /\ \A q \in Exporters : seen'[r].guard = Own(q) => Behind(q)
                      /\ \A m \in Members : /\ Old(seen'[r].ids[m])
                                            /\ \A q \in Exporters : seen'[r].ids[m] = <<q, m>> => Behind(q)
    BY <2>2, <2>3 DEF Known, Own
  <2>5. /\ \A q \in Exporters : seen[r].guard = Own(q) => Behind(q)
        /\ \A m \in Members : /\ Old(seen[r].ids[m])
                              /\ \A q \in Exporters : seen[r].ids[m] = <<q, m>> => Behind(q)
    BY DEF Known
  <2>6. CASE seen'[r] = seen[r] BY <2>5, <2>6
  <2>7. CASE seen'[r] = Nothing BY <2>7, NothingIs
  <2>8. CASE r = p /\ Captures(p)
    <3>1. ASSUME NEW q \in Exporters, seen'[r].guard = Own(q) PROVE Behind(q)
      <4>1. seen'[r].guard \in {entry[Dest], seen[r].guard} BY <2>8 DEF Captures
      <4>2. QED BY <2>4, <2>5, <3>1, <4>1
    <3>2. CASE seen'[r].ids = seen[r].ids BY <2>5, <3>1, <3>2
    <3>3. ASSUME NEW d \in Roots \cap {entry[Dest], seen[r].guard},
                 \A m \in Members : inside[d][m] # None, seen'[r].ids = MemberIds(d),
                 NEW m \in Members
          PROVE  /\ Old(seen'[r].ids[m])
                 /\ \A q \in Exporters : seen'[r].ids[m] = <<q, m>> => Behind(q)
      <4>1. seen'[r].ids[m] = inside[d][m].id BY <3>3 DEF MemberIds
      <4>2. Old(inside[d][m].id) BY <3>3 DEF Located, Aged
      <4>3. ASSUME NEW q \in Exporters, inside[d][m].id = <<q, m>> PROVE Behind(q)
        <5>1. d = Own(q) BY <3>3, <4>3 DEF Homes
        <5>2. QED BY <2>4, <2>5, <3>3, <5>1
      <4>4. QED BY <4>1, <4>2, <4>3
    <3>4. QED BY <2>8, <3>1, <3>2, <3>3 DEF Captures
  <2>9. QED BY <2>1, <2>6, <2>7, <2>8 DEF Idles, Leaves, Concludes
<1>4. QED BY <1>2, <1>3

LEMMA GenuineStep ==
  ASSUME Typed, Owners, Unmeddled, Genuine, Next, Disks'
  PROVE  Genuine'
<1> SUFFICES ASSUME edits' = 0 PROVE Genuine' BY DEF Genuine
<1>1. edits = 0 /\ ~Edit BY EditsGrow
<1>2. Fresh BY <1>1 DEF Unmeddled
<1>3. PICK p \in Processes :
        /\ UNCHANGED edits /\ (Quiet(p) \/ (p \in Exporters /\ Loud(p)))
        /\ \A q \in Processes \ {p} : Idles(q)
        /\ Leaves(p) \/ (UNCHANGED <<entry, inside>> /\ (Captures(p) \/ Concludes(p)))
  BY <1>1, OneVerifies
<1>4. entry[Dest] = None \/ \E q \in Exporters : entry[Dest] = Own(q) BY <1>2 DEF Fresh
<1>5. ASSUME NEW r \in Processes
      PROVE  /\ seen'[r].guard = None \/ \E q \in Exporters : seen'[r].guard = Own(q)
             /\ \A m \in Members : seen'[r][m] # None => seen'[r][m].id = <<seen'[r][m].by, m>>
  <2>1. /\ seen[r].guard = None \/ \E q \in Exporters : seen[r].guard = Own(q)
        /\ \A m \in Members : seen[r][m] # None => seen[r][m].id = <<seen[r][m].by, m>>
    BY <1>1 DEF Genuine
  <2>2. CASE seen'[r] = seen[r] BY <2>1, <2>2
  <2>3. CASE seen'[r] = Nothing BY <2>3, NothingIs
  <2>4. CASE r = p /\ Captures(p)
    <3>1. seen'[r].guard = None \/ \E q \in Exporters : seen'[r].guard = Own(q)
      BY <1>4, <2>1, <2>4 DEF Captures
    <3>2. ASSUME NEW m \in Members, seen'[r][m] # None PROVE seen'[r][m].id = <<seen'[r][m].by, m>>
      <4>1. CASE seen'[r][m] = seen[r][m] BY <2>1, <3>2, <4>1
      <4>2. CASE Stable(r, m) /\ seen'[r][m] = inside[Directory(r)][m]
        <5>1. Directory(r) # None /\ Directory(r) \in {seen[r].guard, entry[Dest]}
          BY <4>2 DEF Stable, Directory
        <5>2. PICK q \in Exporters : Directory(r) = Own(q) BY <1>4, <2>1, <5>1
        <5>3. inside[Own(q)][m] \in {None, NewFile(q, m), Made(q, m)} BY <1>2 DEF Fresh, Stays
        <5>4. seen'[r][m] \in {NewFile(q, m), Made(q, m)} BY <3>2, <4>2, <5>2, <5>3
        <5>5. /\ NewFile(q, m).id = <<q, m>> /\ NewFile(q, m).by = q
              /\ Made(q, m).id = <<q, m>> /\ Made(q, m).by = q
          BY FilesMade
        <5>6. seen'[r][m].id = <<q, m>> /\ seen'[r][m].by = q BY <5>4, <5>5
        <5>7. QED BY <5>6
      <4>3. QED BY <2>4, <4>1, <4>2 DEF Captures
    <3>3. QED BY <3>1, <3>2
  <2>5. QED BY <1>3, <2>2, <2>3, <2>4 DEF Idles, Leaves, Concludes
<1>6. ASSUME NEW q \in Exporters, NEW m \in Members, entry'[Dest] = Own(q)
      PROVE  inside'[Own(q)][m] \in {None, Made(q, m)}
  <2>1. entry[Dest] = Own(q) => inside[Own(q)][m] \in {None, Made(q, m)} BY <1>1 DEF Genuine
  <2>2. Own(q) # None /\ Own(q) \in Roots BY Identities DEF Own
  <2>3. CASE UNCHANGED <<entry, inside>> BY <1>6, <2>1, <2>3
  <2>4. CASE p \in Exporters /\ Renames(p)
    <3>1. entry'[Dest] \in {entry[Dest], Own(p)} /\ UNCHANGED inside /\ Stage(p) = "publish"
      <4>1. root[p] = Own(p) /\ p # Dest /\ p \in Names /\ Dest \in Names
        BY <2>4, Identities, StageGroups DEF Renames, Owners, Owns
      <4>2. QED BY <2>4, <4>1 DEF Renames, Typed, Disks
    <3>2. inside[Own(p)][m] = Made(p, m)
      BY <2>4, <3>1, StageGroups DEF Owners, Owns
    <3>3. p = q \/ entry[Dest] = Own(q) BY <1>6, <2>4, <3>1, Identities DEF Own
    <3>4. QED BY <2>1, <3>1, <3>2, <3>3
  <2>5. CASE p \in Exporters /\ Loud(p) /\ ~Renames(p)
    <3>1. Dwindles(p) BY <2>5, LoudDwindles
    <3>2. entry[Dest] = Own(q) BY <1>6, <2>2, <3>1 DEF Dwindles
    <3>3. inside'[Own(q)][m] \in {None, inside[Own(q)][m]} BY <2>2, <3>1, <3>2 DEF Dwindles
    <3>4. QED BY <2>1, <3>2, <3>3
  <2>6. QED BY <1>3, <2>3, <2>4, <2>5 DEF Quiet, Still
<1>7. QED BY <1>5, <1>6 DEF Genuine, Own, Made

(* The last looks of a verification.  Which members are still to be read   *)
(* again; what no longer exists anywhere, and what exists only with other  *)
(* bytes.                                                                  *)
Confirming == Finishing \ {"inventory_again"}
Pending(s) == IF s = "bundle_again" THEN Members ELSE IF s = "sidecar_again" THEN {"sidecar"} ELSE {}
Gone(p, m) == \A d \in Roots : inside[d][m] # None => inside[d][m].id # seen[p].ids[m]
Vanished(p, m) == \A d \in Roots : inside[d][m] # seen[p][m]

(* The call will reject: a file that it has yet to find is gone, or one    *)
(* that it has yet to read again is not what it was, and there is no edit  *)
(* left to restore it.                                                     *)
Doomed(p) ==
  \E m \in Members :
    \/ Gone(p, m) /\ Stage(p) \in {"bundle_again", "sidecar_again", "members_again"}
    \/ edits = 2 /\ m \in Pending(Stage(p)) /\ Vanished(p, m)

(* Or only the second edit, of the one file that it has yet to read again, *)
(* can still have it accept; and that edit restores the whole bundle.      *)
Restorable(p, d, m) ==
  /\ m \in Pending(Stage(p)) /\ Vanished(p, m) /\ inside[d].foreign = None
  /\ \A e \in Roots, n \in Members :
       inside[e][n] # None /\ inside[e][n].id = seen[p].ids[n] => e = d
  /\ \A n \in Members \ {m} :
       inside[d][n] = seen[p][n] \/ Gone(p, n) \/ (n \in Pending(Stage(p)) /\ Vanished(p, n))
Poised(p) == edits = 1 /\ \E d \in Roots, m \in Members : Restorable(p, d, m)

Vouched(p) == seen[p].bundle.by \in offered[p].final \/ Doomed(p) \/ Poised(p)
Vouches ==
  edits <= 2 => \A p \in Processes :
    /\ Stage(p) \in Confirming => Vouched(p)
    /\ Succeeded(p) => answer[p] \in offered[p].final

----------------------------------------------------------------------------
LEMMA FinalStages ==
  /\ Range(Tail(FinalPass)) \cup {"guards_again", "done"} = Confirming
  /\ Confirming = {"bundle_again", "sidecar_again", "members_again", "root_again", "ancestry_again",
                   "guards_again", "done"}
<1> DEFINE F == FinalPass
           T == Tail(F)
<1>1. /\ F \in Seq(Stages) /\ Len(F) = 6 /\ F # <<>>
      /\ F[2] = "bundle_again" /\ F[3] = "sidecar_again" /\ F[4] = "members_again"
      /\ F[5] = "root_again" /\ F[6] = "ancestry_again"
  BY DEF FinalPass, Stages, Working, Finishing
<1> HIDE DEF F
<1>2. /\ T \in Seq(Stages) /\ Len(T) = 5 /\ \A i \in 1 .. Len(T) : T[i] = F[i + 1]
  BY <1>1, TailOf
<1> HIDE DEF T
<1>3. /\ DOMAIN T = {1, 2, 3, 4, 5} /\ T[1] = "bundle_again" /\ T[2] = "sidecar_again"
      /\ T[3] = "members_again" /\ T[4] = "root_again" /\ T[5] = "ancestry_again"
  <2>1. DOMAIN T = 1 .. 5 BY <1>2
  <2>2. 1 .. 5 = {1, 2, 3, 4, 5} OBVIOUS
  <2>3. QED BY <1>1, <1>2, <2>1, <2>2
<1>4. Range(T) = {T[i] : i \in DOMAIN T} BY DEF Range
<1>5. Range(T) = {"bundle_again", "sidecar_again", "members_again", "root_again", "ancestry_again"}
  BY <1>3, <1>4
<1>6. QED BY <1>5 DEF T, F, Confirming, Finishing

LEMMA FinalGrows ==
  ASSUME Typed, Typed', Observe, NEW p \in Processes, Stage(p) = "open" => Stage(p)' = "open"
  PROVE  offered'[p].final = offered[p].final \cup IF Stage(p)' \in Confirming THEN Now' ELSE {}
<1>1. "over" \notin Confirming BY FinalStages
<1>2. InFinalPass(p)' <=> Stage(p)' \in Confirming BY <1>1, FinalStages DEF InFinalPass, Stage
<1>3. QED BY <1>2, Observed

(* A file that a call has identified does not appear anywhere, and nobody  *)
(* but the operator rewrites it.                                           *)
LEMMA Reappearing ==
  ASSUME Typed, Owners, Known, Next, Disks', NEW p \in Processes, NEW d \in Roots, NEW m \in Members,
         inside'[d][m] # None, inside'[d][m].id = seen[p].ids[m]
  PROVE  /\ inside[d][m] # None /\ inside[d][m].id = seen[p].ids[m]
         /\ ~Edit => inside'[d][m] = inside[d][m]
<1>1. CASE Edit
  <2>1. edits' = edits + 1 /\ edits' \in 1 .. MaxTrouble /\ Rewritten(d, m) BY <1>1, Editing
  <2>2. edits \in Nat BY ExportAssumption DEF Typed, Bounded
  <2>3. seen[p].ids[m] # <<Owner, edits'>> BY <2>1, <2>2 DEF Known, Old
  <2>4. QED BY <1>1, <2>1, <2>3 DEF Rewritten
<1>2. CASE ~Edit
  <2>1. PICK r \in Processes : Quiet(r) \/ (r \in Exporters /\ Loud(r)) BY <1>2, Steps
  <2>2. \/ inside'[d][m] = inside[d][m]
        \/ r \in Exporters /\ ~Behind(r) /\ inside'[d][m] \in {NewFile(r, m), Made(r, m)}
    BY <2>1, Arrivals
  <2>3. ASSUME r \in Exporters, ~Behind(r), inside'[d][m] \in {NewFile(r, m), Made(r, m)} PROVE FALSE
    <3>1. NewFile(r, m).id = <<r, m>> /\ Made(r, m).id = <<r, m>> BY <2>3, FilesMade
    <3>2. seen[p].ids[m] = <<r, m>> BY <2>3, <3>1
    <3>3. QED BY <2>3, <3>2 DEF Known
  <2>4. QED BY <2>2, <2>3
<1>3. QED BY <1>1, <1>2

LEMMA StaysGone ==
  ASSUME Typed, Owners, Known, Next, Disks', NEW p \in Processes, NEW m \in Members,
         Gone(p, m), seen'[p] = seen[p]
  PROVE  Gone(p, m)'
BY Reappearing DEF Gone

LEMMA StaysVanished ==
  ASSUME Typed, Owners, Known, Next, ~Edit, Disks', NEW p \in Processes, NEW m \in Members,
         seen[p][m] \in File, seen[p][m].id = seen[p].ids[m], Vanished(p, m), seen'[p] = seen[p]
  PROVE  Vanished(p, m)'
<1>1. None \notin File BY FileFields
<1>2. ASSUME NEW d \in Roots, inside'[d][m] = seen[p][m] PROVE FALSE
  <2>1. inside'[d][m] = inside[d][m] BY <1>1, <1>2, Reappearing
  <2>2. QED BY <1>2, <2>1 DEF Vanished
<1>3. QED BY <1>2 DEF Vanished

(* What a call that is past reading has read.                              *)
LEMMA HasRead ==
  ASSUME Typed, Recorded, NEW p \in Processes, Stage(p) \in Finishing
  PROVE  /\ \A m \in Members : /\ seen[p][m] \in File /\ seen[p][m] # None
                               /\ seen[p][m].id = seen[p].ids[m] /\ seen[p][m].whole
                               /\ seen[p][m].by = seen[p].bundle.by
         /\ seen[p].bundle.by \in Exporters
<1>1. /\ seen[p].bundle \in File /\ seen[p].sidecar \in File
      /\ Valid(p, seen[p].bundle, seen[p].sidecar)
  BY DEF Typed, Calls, Sighted
<1>2. seen[p].bundle.by \in Exporters /\ None \notin File BY <1>1, FileFields
<1>3. \A m \in Members : seen[p][m].id = seen[p].ids[m] BY DEF Recorded, Holding
<1>4. QED BY <1>1, <1>2, <1>3, MemberNames DEF Valid

(* If that stands at the destination after a step it is a whole bundle.    *)
LEMMA StandsWhole ==
  ASSUME Typed, Recorded, NEW p \in Processes, Stage(p) \in Finishing, NEW d \in Roots, entry'[Dest] = d,
         inside'[d].foreign = None, \A m \in Members : inside'[d][m] = seen[p][m]
  PROVE  seen[p].bundle.by \in Now'
<1>1. There(Dest)' BY Identities DEF There
<1>2. PICK e \in Exporters : e = seen[p].bundle.by BY HasRead
<1>3. Complete(Dest, e)'
  <2>1. \A m \in Members : inside'[d][m] # None /\ inside'[d][m].by = e /\ inside'[d][m].whole
    BY <1>2, HasRead
  <2>2. QED BY <1>1, <2>1 DEF Complete, Holds
<1>4. QED BY <1>2, <1>3 DEF Now

(* The call keeps its hopes and its fate while others than the operator    *)
(* make steps.                                                             *)
LEMMA IdleVouched ==
  ASSUME Typed, Typed', Owners, Recorded, Known, Next, ~Edit,
         NEW p \in Processes, Idles(p), Stage(p) \in Confirming, Vouched(p)
  PROVE  Vouched(p)'
<1>1. Disks' /\ Observe BY DEF Typed, Next
<1>2. /\ Stage(p)' = Stage(p) /\ seen'[p] = seen[p] /\ edits' = edits
      /\ Stage(p) \in Finishing /\ Stage(p) # "open"
  BY Steps DEF Idles, Confirming, Finishing
<1>3. \A m \in Members : seen[p][m] \in File /\ seen[p][m].id = seen[p].ids[m] /\ seen[p][m] # None
  BY <1>2, HasRead
<1>4. \A m \in Members : (Gone(p, m) => Gone(p, m)') /\ (Vanished(p, m) => Vanished(p, m)')
  BY <1>1, <1>2, <1>3, StaysGone, StaysVanished
<1>5. CASE seen[p].bundle.by \in offered[p].final
  <2>1. offered'[p].final = offered[p].final \cup IF Stage(p)' \in Confirming THEN Now' ELSE {}
    BY <1>1, <1>2, FinalGrows
  <2>2. QED BY <1>2, <1>5, <2>1 DEF Vouched
<1>6. CASE Doomed(p)
  <2>1. Doomed(p)' BY <1>2, <1>4, <1>6 DEF Doomed, Pending
  <2>2. QED BY <2>1 DEF Vouched
<1>7. CASE Poised(p)
  <2>1. PICK d \in Roots, m \in Members : Restorable(p, d, m) BY <1>7 DEF Poised
  <2>2. \A e \in Roots, n \in Members :
          inside'[e][n] # None /\ inside'[e][n].id = seen[p].ids[n] =>
            e = d /\ inside'[e][n] = inside[e][n]
    BY <1>1, <2>1, Reappearing DEF Restorable
  <2>3. inside'[d].foreign = None
    <3>1. PICK r \in Processes : Quiet(r) \/ (r \in Exporters /\ Loud(r)) BY Steps
    <3>2. inside'[d].foreign = inside[d].foreign BY <1>1, <3>1, Arrivals
    <3>3. QED BY <2>1, <3>2 DEF Restorable
  <2>4. ASSUME NEW n \in Members, inside[d][n] = seen[p][n]
        PROVE  inside'[d][n] = seen[p][n] \/ Gone(p, n)'
    <3>1. CASE inside'[d][n] # None /\ inside'[d][n].id = seen[p].ids[n] BY <2>2, <2>4, <3>1
    <3>2. CASE ~(inside'[d][n] # None /\ inside'[d][n].id = seen[p].ids[n])
      <4>1. \A e \in Roots : ~(inside'[e][n] # None /\ inside'[e][n].id = seen[p].ids[n])
        BY <2>2, <3>2
      <4>2. QED BY <1>2, <4>1 DEF Gone
    <3>3. QED BY <3>1, <3>2
  <2>5. Restorable(p, d, m)'
    <3>1. m \in Pending(Stage(p)') /\ Vanished(p, m)' BY <1>2, <1>4, <2>1 DEF Restorable
    <3>2. \A n \in Members \ {m} :
            inside'[d][n] = seen'[p][n] \/ Gone(p, n)' \/ (n \in Pending(Stage(p)') /\ Vanished(p, n)')
      BY <1>2, <1>4, <2>1, <2>4 DEF Restorable
    <3>3. QED BY <1>2, <2>2, <2>3, <3>1, <3>2 DEF Restorable, Pending
  <2>6. Poised(p)' BY <1>2, <1>7, <2>5 DEF Poised
  <2>7. QED BY <2>6 DEF Vouched
<1>8. QED BY <1>5, <1>6, <1>7 DEF Vouched

(* An edit that restores the one file restores the bundle; any other dooms *)
(* the call.                                                               *)
LEMMA EditVouched ==
  ASSUME Typed, Typed', Owners, Recorded, Known, Next, Edit, edits' <= 2,
         NEW p \in Processes, Idles(p), Stage(p) \in Confirming, Vouched(p)
  PROVE  Vouched(p)'
<1>1. Disks' /\ Observe BY DEF Typed, Next
<1>2. /\ Stage(p)' = Stage(p) /\ seen'[p] = seen[p]
      /\ Stage(p) \in Finishing /\ Stage(p) # "open"
  BY DEF Idles, Confirming, Finishing
<1>3. edits' = edits + 1 /\ edits \in Nat
  BY Editing, ExportAssumption DEF Typed, Bounded
<1>4. offered'[p].final = offered[p].final \cup Now'
  BY <1>1, <1>2, FinalGrows
<1>5. CASE seen[p].bundle.by \in offered[p].final BY <1>2, <1>4, <1>5 DEF Vouched
<1>6. CASE Doomed(p)
  <2>1. PICK m \in Members : Gone(p, m) /\ Stage(p) \in {"bundle_again", "sidecar_again", "members_again"}
    BY <1>3, <1>6 DEF Doomed
  <2>2. Gone(p, m)' BY <1>1, <1>2, <2>1, StaysGone
  <2>3. Doomed(p)' BY <1>2, <2>1, <2>2 DEF Doomed
  <2>4. QED BY <2>3 DEF Vouched
<1>7. CASE Poised(p)
  <2>1. PICK d \in Roots, m \in Members : Restorable(p, d, m) /\ edits = 1 BY <1>7 DEF Poised
  <2>2. /\ edits' = 2 /\ m \in Pending(Stage(p)) /\ Vanished(p, m)
        /\ Stage(p) \in {"bundle_again", "sidecar_again", "members_again"}
    BY <1>3, <2>1 DEF Restorable, Pending
  <2>3. CASE Vanished(p, m)'
    <3>1. Doomed(p)' BY <1>2, <2>2, <2>3 DEF Doomed, Pending
    <3>2. QED BY <3>1 DEF Vouched
  <2>4. CASE ~Vanished(p, m)'
    <3>1. PICK e \in Roots : inside'[e][m] = seen[p][m] BY <1>2, <2>4 DEF Vanished
    <3>2. seen[p][m] # None /\ seen[p][m].id = seen[p].ids[m] BY <1>2, HasRead
    <3>3. inside[e][m] # None /\ inside[e][m].id = seen[p].ids[m]
      BY <1>1, <3>1, <3>2, Reappearing
    <3>4. e = d BY <2>1, <3>3 DEF Restorable
    <3>5. inside'[d][m] \notin {None, inside[d][m]} BY <2>2, <3>1, <3>2, <3>4 DEF Vanished
    <3>6. /\ d = entry[Dest] /\ UNCHANGED entry /\ inside'[d].foreign = inside[d].foreign
          /\ \A n \in Members \ {m} : inside'[d][n] = inside[d][n]
          /\ \A x \in Roots \ {d} : inside'[x] = inside[x]
      BY <3>5, Rewriting
    <3>7. ASSUME NEW n \in Members \ {m}, Gone(p, n) PROVE Doomed(p)'
      <4>1. Gone(p, n)' BY <1>1, <1>2, <3>7, StaysGone
      <4>2. QED BY <1>2, <2>2, <4>1 DEF Doomed
    <3>8. ASSUME NEW n \in Members \ {m}, n \in Pending(Stage(p)), Vanished(p, n) PROVE Doomed(p)'
      <4>1. Vanished(p, n)' BY <1>2, <3>6, <3>8 DEF Vanished
      <4>2. QED BY <1>2, <2>2, <3>8, <4>1 DEF Doomed, Pending
    <3>9. CASE \A n \in Members \ {m} : inside[d][n] = seen[p][n]
      <4>1. \A n \in Members : inside'[d][n] = seen[p][n] BY <3>1, <3>4, <3>6, <3>9
      <4>2. inside'[d].foreign = None BY <2>1, <3>6 DEF Restorable
      <4>3. seen[p].bundle.by \in Now' BY <1>2, <3>6, <4>1, <4>2, StandsWhole
      <4>4. QED BY <1>2, <1>4, <4>3 DEF Vouched
    <3>10. CASE \E n \in Members \ {m} : inside[d][n] # seen[p][n]
      <4>1. Doomed(p)' BY <2>1, <3>7, <3>8, <3>10 DEF Restorable
      <4>2. QED BY <4>1 DEF Vouched
    <3>11. QED BY <3>9, <3>10
  <2>5. QED BY <2>3, <2>4
<1>8. QED BY <1>5, <1>6, <1>7 DEF Vouched

(* Until an operator meddles, what has the identities that a call captured *)
(* is what it read.                                                        *)
LEMMA SameFiles ==
  ASSUME Typed, Fresh, Recorded, Genuine, edits = 0, NEW p \in Processes, Stage(p) \in Finishing, Strict,
         MemberIds(entry[Dest]) = seen[p].ids
  PROVE  \A m \in Members : inside[entry[Dest]][m] = seen[p][m]
<1>1. PICK q \in Exporters : entry[Dest] = Own(q) BY DEF Strict, There, Fresh
<1> SUFFICES ASSUME NEW m \in Members PROVE inside[entry[Dest]][m] = seen[p][m]
  OBVIOUS
<1>2. inside[Own(q)][m] = Made(q, m) BY <1>1 DEF Genuine, Strict, Holds
<1>3. /\ seen[p][m] \in File /\ seen[p][m] # None /\ seen[p][m].id = seen[p].ids[m] /\ seen[p][m].whole
  BY HasRead
<1>4. Made(q, m) \in File /\ Made(q, m).id = <<q, m>> /\ Made(q, m).by = q /\ Made(q, m).whole
  BY FilesMade
<1>5. MemberIds(entry[Dest])[m] = <<q, m>> BY <1>1, <1>2, <1>4 DEF MemberIds
<1>6. seen[p][m].id = <<q, m>> BY <1>3, <1>5
<1>7. seen[p][m].id = <<seen[p][m].by, m>> BY <1>3 DEF Genuine
<1>8. seen[p][m].by = q BY <1>6, <1>7
<1>9. seen[p][m].whole = TRUE /\ Made(q, m).whole = TRUE BY <1>3, <1>4, FileFields
<1>10. QED BY <1>1, <1>2, <1>3, <1>4, <1>6, <1>8, <1>9, FileFields

(* The call begins its final pass: the bundle stands as it was read, or a  *)
(* file of it has been rewritten since.                                    *)
LEMMA BeginsToConfirm ==
  ASSUME Typed, Typed', Unmeddled, Located, Recorded, Genuine, Next, NEW p \in Processes,
         Stage(p) = "inventory_again", Captures(p), UNCHANGED <<entry, inside, edits>>, edits <= 2
  PROVE  Vouched(p)'
<1>1. Strict /\ MemberIds(entry[Dest]) = seen[p].ids BY DEF Captures, Finds
<1>2. Stage(p)' = "bundle_again" BY DEF Captures, Moved, After
<1>3. Stage(p) \in Finishing BY DEF Finishing
<1>4. seen'[p].ids = seen[p].ids /\ \A m \in Members : seen'[p][m] = seen[p][m]
  BY DEF Captures, Reading
<1>5. PICK D \in Roots : entry[Dest] = D
  BY <1>1, Identities DEF Strict, There, Typed, Disks
<1>6. /\ inside[D].foreign = None
      /\ \A m \in Members : inside[D][m] # None /\ inside[D][m].id = seen[p].ids[m]
  <2>1. \A m \in Members : MemberIds(D)[m] = inside[D][m].id BY DEF MemberIds
  <2>2. QED BY <1>1, <1>5, <2>1 DEF Strict, Holds
<1>7. \A m \in Members : seen[p][m] # None /\ seen[p][m].id = seen[p].ids[m] BY <1>3, HasRead
<1>8. \A e \in Roots, n \in Members :
        inside[e][n] # None /\ inside[e][n].id = seen[p].ids[n] => e = D
  BY <1>6 DEF Located, Unique
<1>9. ASSUME NEW m \in Members, inside[D][m] # seen[p][m] PROVE Vanished(p, m)'
  BY <1>4, <1>7, <1>8, <1>9 DEF Vanished
<1>10. CASE \A m \in Members : inside[D][m] = seen[p][m]
  <2>1. Observe BY DEF Next
  <2>2. offered'[p].final = offered[p].final \cup Now'
    <3>1. Stage(p)' \in Confirming /\ Stage(p) # "open" BY <1>2, FinalStages
    <3>2. QED BY <2>1, <3>1, FinalGrows
  <2>3. seen[p].bundle.by \in Now' BY <1>3, <1>5, <1>6, <1>10, StandsWhole
  <2>4. seen'[p].bundle = seen[p].bundle BY <1>4, MemberNames
  <2>5. QED BY <2>2, <2>3, <2>4 DEF Vouched
<1>11. CASE \E m \in Members : inside[D][m] # seen[p][m]
  <2>1. PICK m \in Members : inside[D][m] # seen[p][m] BY <1>11
  <2>2. edits # 0
    <3>1. edits = 0 => Fresh BY DEF Unmeddled
    <3>2. QED BY <1>1, <1>3, <1>5, <2>1, <3>1, SameFiles
  <2>3. edits \in Nat BY ExportAssumption DEF Typed, Bounded
  <2>4. Vanished(p, m)' /\ Pending(Stage(p)') = Members BY <1>2, <1>9, <2>1 DEF Pending
  <2>5. CASE edits = 2
    <3>1. Doomed(p)' BY <2>4, <2>5 DEF Doomed, Pending
    <3>2. QED BY <3>1 DEF Vouched
  <2>6. CASE edits = 1
    <3>1. inside'[D].foreign = None BY <1>6
    <3>2. \A e \in Roots, n \in Members :
            inside'[e][n] # None /\ inside'[e][n].id = seen'[p].ids[n] => e = D
      BY <1>4, <1>8
    <3>3. \A n \in Members \ {m} : inside'[D][n] = seen'[p][n] \/ Vanished(p, n)'
      BY <1>4, <1>9
    <3>4. Restorable(p, D, m)' BY <2>4, <3>1, <3>2, <3>3 DEF Restorable, Pending
    <3>5. Poised(p)' BY <2>6, <3>4 DEF Poised
    <3>6. QED BY <3>5 DEF Vouched
  <2>7. QED BY <2>2, <2>3, <2>5, <2>6
<1>12. QED BY <1>10, <1>11

(* It goes on with it: a member that it finds again has not changed.       *)
LEMMA GoesOnConfirming ==
  ASSUME Typed, Typed', Recorded, Next, NEW p \in Processes, Stage(p) \in Confirming, Vouched(p),
         Captures(p), UNCHANGED <<entry, inside, edits>>
  PROVE  Vouched(p)'
<1>1. Stage(p) \in Finishing \ {"done", "inventory_again"} /\ Stage(p) # "open"
  BY FinalStages DEF Captures, Confirming, Looking, Finishing
<1>2. seen'[p].ids = seen[p].ids /\ \A m \in Members : seen'[p][m] = seen[p][m]
  BY <1>1, FinalStages DEF Captures, Reading
<1>3. Stage(p)' = After(p, Stage(p)) BY DEF Captures, Moved
<1>4. \A m \in Members : (Gone(p, m)' <=> Gone(p, m)) /\ (Vanished(p, m)' <=> Vanished(p, m))
  BY <1>2 DEF Gone, Vanished
<1>5. seen[p].guard \in Roots BY <1>1 DEF Typed, Calls, Sighted
<1>6. ASSUME NEW m \in Members, Unchanged(p, m) PROVE ~Gone(p, m) /\ ~Vanished(p, m)
  <2>1. Directory(p) \in Roots
    BY <1>5, <1>6, Identities DEF Unchanged, Stable, Directory, Typed, Disks
  <2>2. QED BY <1>6, <2>1 DEF Unchanged, Stable, Gone, Vanished
<1>7. CASE seen[p].bundle.by \in offered[p].final
  <2>1. Observe BY DEF Next
  <2>2. offered'[p].final = offered[p].final \cup IF Stage(p)' \in Confirming THEN Now' ELSE {}
    BY <1>1, <2>1, FinalGrows
  <2>3. seen'[p].bundle = seen[p].bundle BY <1>2, MemberNames
  <2>4. QED BY <1>7, <2>2, <2>3 DEF Vouched
<1>8. CASE Stage(p) = "bundle_again"
  <2>1. Stage(p)' = "sidecar_again" BY <1>3, <1>8 DEF After
  <2>2. ~Gone(p, "bundle") /\ ~Vanished(p, "bundle")
    BY <1>6, <1>8, MemberNames DEF Captures, Finds
  <2>3. Doomed(p) => Doomed(p)'
    BY <1>4, <2>1, <2>2, MemberNames DEF Doomed, Pending
  <2>4. ASSUME NEW d \in Roots, NEW m \in Members, Restorable(p, d, m) PROVE Restorable(p, d, m)'
    <3>1. m = "sidecar" BY <2>2, <2>4, MemberNames DEF Restorable
    <3>2. inside[d]["bundle"] = seen[p]["bundle"] BY <2>2, <2>4, <3>1, MemberNames DEF Restorable
    <3>3. m \in Pending(Stage(p)') /\ Vanished(p, m)' BY <1>4, <2>1, <2>4, <3>1 DEF Restorable, Pending
    <3>4. \A n \in Members \ {m} : inside'[d][n] = seen'[p][n] BY <1>2, <3>1, <3>2, MemberNames
    <3>5. inside'[d].foreign = None
          /\ \A e \in Roots, n \in Members : inside'[e][n] # None /\ inside'[e][n].id = seen'[p].ids[n] => e = d
      BY <1>2, <2>4 DEF Restorable
    <3>6. QED BY <3>3, <3>4, <3>5 DEF Restorable, Pending
  <2>5. Poised(p) => Poised(p)' BY <2>4 DEF Poised
  <2>6. QED BY <1>7, <2>3, <2>5 DEF Vouched
<1>9. CASE Stage(p) = "sidecar_again"
  <2>1. Stage(p)' = "members_again" /\ Pending(Stage(p)) = {"sidecar"} BY <1>3, <1>9 DEF After, Pending
  <2>2. ~Gone(p, "sidecar") /\ ~Vanished(p, "sidecar")
    BY <1>6, <1>9, MemberNames DEF Captures, Finds
  <2>3. ~Poised(p) BY <2>1, <2>2 DEF Poised, Restorable
  <2>4. Doomed(p) => Doomed(p)' BY <1>4, <2>1, <2>2 DEF Doomed
  <2>5. QED BY <1>7, <2>3, <2>4 DEF Vouched
<1>10. CASE Stage(p) \notin {"bundle_again", "sidecar_again"}
  <2>1. Pending(Stage(p)) = {} BY <1>10 DEF Pending
  <2>2. ~Poised(p) BY <2>1 DEF Poised, Restorable
  <2>3. ~Doomed(p)
    <3>1. CASE Stage(p) = "members_again"
      <4>1. \A m \in Members : Holds(Dest, m) /\ inside[entry[Dest]][m].id = seen[p].ids[m]
        BY <3>1 DEF Captures, Finds
      <4>2. entry[Dest] \in Roots BY <4>1, Identities DEF Holds, There, Typed, Disks
      <4>3. \A m \in Members : ~Gone(p, m) BY <4>1, <4>2 DEF Gone, Holds
      <4>4. QED BY <2>1, <4>3 DEF Doomed
    <3>2. CASE Stage(p) # "members_again" BY <1>10, <2>1, <3>2 DEF Doomed
    <3>3. QED BY <3>1, <3>2
  <2>4. QED BY <1>7, <2>2, <2>3 DEF Vouched
<1>11. QED BY <1>8, <1>9, <1>10

LEMMA VouchesStep ==
  ASSUME Typed, Typed', Owners, Unmeddled, Located, Recorded, Known, Genuine, Vouches, Next
  PROVE  Vouches'
<1>1. Observe /\ edits \in Nat /\ edits' \in Nat
  BY ExportAssumption DEF Next, Typed, Bounded
<1> SUFFICES ASSUME edits' <= 2, NEW p \in Processes
             PROVE  /\ Stage(p)' \in Confirming => Vouched(p)'
                    /\ Succeeded(p)' => answer'[p] \in offered'[p].final
  BY DEF Vouches, Succeeded
<1>2. edits <= 2
  <2>1. edits' = edits \/ edits' = edits + 1 BY Steps, Editing
  <2>2. QED BY <1>1, <2>1
<1>3. /\ Stage(p) \in Confirming => Vouched(p)
      /\ Succeeded(p) => answer[p] \in offered[p].final
  BY <1>2 DEF Vouches
<1>4. (answer[p] = None <=> Stage(p) # "over") /\ None \notin Exporters
  BY AnswersDiffer DEF Typed, Calls
<1>5. Stage(p) # "open" => offered[p].final \subseteq offered'[p].final
  BY <1>1, FinalGrows
<1>6. Succeeded(p) => Stage(p) # "open" BY <1>4 DEF Succeeded
<1>7. CASE Idles(p)
  <2>1. Succeeded(p)' => answer'[p] \in offered'[p].final
    BY <1>3, <1>5, <1>6, <1>7 DEF Idles, Succeeded
  <2>2. ASSUME Stage(p)' \in Confirming PROVE Vouched(p)'
    <3>1. Stage(p) \in Confirming BY <1>7, <2>2 DEF Idles
    <3>2. QED BY <1>3, <1>7, <3>1, IdleVouched, EditVouched
  <2>3. QED BY <2>1, <2>2
<1>8. CASE ~Idles(p)
  <2>1. ~Edit
    <3>1. ASSUME Edit PROVE Idles(p)
      <4>1. UNCHANGED local BY <3>1, Editing
      <4>2. Stage(p)' = Stage(p) BY <4>1, NobodyMoves DEF Typed, local
      <4>3. QED BY <4>1, <4>2 DEF Idles, local
    <3>2. QED BY <1>8, <3>1
  <2>2. /\ UNCHANGED edits
        /\ Leaves(p) \/ (UNCHANGED <<entry, inside>> /\ (Captures(p) \/ Concludes(p)))
    BY <1>8, <2>1, OneVerifies
  <2>3. CASE Leaves(p)
    <3>1. Stage(p)' \notin Confirming BY <2>3 DEF Leaves, Confirming
    <3>2. ASSUME Succeeded(p)' PROVE answer'[p] \in offered'[p].final
      <4>1. answer'[p] = answer[p] BY <2>3, <3>2, AnswersDiffer DEF Leaves, Succeeded
      <4>2. Succeeded(p) BY <3>2, <4>1 DEF Succeeded
      <4>3. QED BY <1>3, <1>5, <1>6, <4>1, <4>2
    <3>3. QED BY <3>1, <3>2
  <2>4. CASE UNCHANGED <<entry, inside>> /\ Captures(p)
    <3>1. answer' = answer /\ Stage(p) \in Looking \cup (Finishing \ {"done"}) /\ Stage(p)' = After(p, Stage(p))
      BY <2>4 DEF Captures, Moved
    <3>2. Succeeded(p)' => answer'[p] \in offered'[p].final
      BY <1>3, <1>5, <1>6, <3>1 DEF Succeeded
    <3>3. ASSUME Stage(p)' \in Confirming PROVE Vouched(p)'
      <4>1. Stage(p) = "inventory_again" \/ Stage(p) \in Confirming
        BY <3>1, <3>3, FinalStages DEF After, Looking, Confirming
      <4>2. QED BY <1>2, <1>3, <2>2, <2>4, <4>1, BeginsToConfirm, GoesOnConfirming
    <3>4. QED BY <3>2, <3>3
  <2>5. CASE Concludes(p)
    <3>1. Stage(p) = "done" /\ Stage(p)' = "over" /\ answer'[p] = seen[p].bundle.by
      BY <2>5 DEF Concludes, Ends, Moved, Typed, Locals
    <3>2. Vouched(p) BY <1>3, <3>1, FinalStages
    <3>3. ~Doomed(p) /\ ~Poised(p) BY <3>1 DEF Doomed, Poised, Restorable, Pending
    <3>4. seen[p].bundle.by \in offered[p].final BY <3>2, <3>3 DEF Vouched
    <3>5. QED BY <1>5, <3>1, <3>4, FinalStages
  <2>6. QED BY <2>2, <2>3, <2>4, <2>5
<1>9. QED BY <1>7, <1>8

----------------------------------------------------------------------------
Remembered == Located /\ Recorded /\ Known /\ Genuine /\ Vouches

LEMMA InitRemembered ==
  ASSUME Init
  PROVE  Remembered
<1>1. \A d \in Roots : \A m \in Members : inside[d][m] = None BY EmptyContents DEF Init
<1>2. \A p \in Processes : seen[p] = Nothing /\ answer[p] = None BY DEF Init
<1>3. \A p \in Processes : Stage(p) \in {"exists", "open"} BY Starting DEF Processes
<1>4. \A q \in Exporters : entry[Dest] # Own(q)
  <2>1. entry[Dest] = None BY Identities DEF Init
  <2>2. QED BY <2>1, NothingIs
<1>5. Located BY <1>1 DEF Located, Unique, Aged
<1>6. Recorded BY <1>3 DEF Recorded, Holding, Finishing
<1>7. Known BY <1>2, NothingIs DEF Known
<1>8. Genuine BY <1>2, <1>4, NothingIs DEF Genuine
<1>9. Vouches BY <1>2, <1>3, AnswersDiffer, FinalStages DEF Vouches, Succeeded
<1>10. QED BY <1>5, <1>6, <1>7, <1>8, <1>9 DEF Remembered

LEMMA StutteringRemembered ==
  ASSUME Typed, Remembered, UNCHANGED vars
  PROVE  Remembered'
<1>1. /\ UNCHANGED <<entry, inside, seen, answer, edits, offered>>
      /\ \A p \in Processes : Stage(p)' = Stage(p)
  BY NobodyMoves DEF Typed, vars, disk, local, bounds
<1>2. \A q \in Exporters : Behind(q)' <=> Behind(q) BY <1>1, Identities DEF Behind
<1>3. Located' BY <1>1 DEF Remembered, Located, Unique, Aged, Old
<1>4. Recorded' BY <1>1 DEF Remembered, Recorded, Holding
<1>5. Known'
  <2>1. \A i : Old(i)' <=> Old(i) BY <1>1 DEF Old
  <2>2. QED BY <1>1, <1>2, <2>1 DEF Remembered, Known, Own
<1>6. Genuine' BY <1>1 DEF Remembered, Genuine, Own, Made
<1>7. Vouches'
  <2> SUFFICES ASSUME edits <= 2, NEW p \in Processes
               PROVE  /\ Stage(p) \in Confirming => Vouched(p)'
                      /\ Succeeded(p) => answer[p] \in offered[p].final
    BY <1>1 DEF Vouches, Succeeded
  <2>1. Vouched(p) => Vouched(p)'
    <3>1. \A m \in Members : (Gone(p, m)' <=> Gone(p, m)) /\ (Vanished(p, m)' <=> Vanished(p, m))
      BY <1>1 DEF Gone, Vanished
    <3>2. Doomed(p) => Doomed(p)' BY <1>1, <3>1 DEF Doomed
    <3>3. Poised(p) => Poised(p)' BY <1>1, <3>1 DEF Poised, Restorable
    <3>4. QED BY <1>1, <3>2, <3>3 DEF Vouched
  <2>2. QED BY <2>1 DEF Remembered, Vouches
<1>8. QED BY <1>3, <1>4, <1>5, <1>6, <1>7 DEF Remembered

(* A successful verification, or export, names a bundle that stood whole   *)
(* and alone at the destination at one moment of its final pass, whatever  *)
(* fails and whoever is killed, while nobody edits more than twice (three  *)
(* edits can mislead it): run_bundle.py, verify_run_bundle.                *)
THEOREM TwoEditsDoNotMislead == Spec => [](edits <= 2 => VerificationIsHonest)
<1>1. Init => Remembered BY InitRemembered
<1>2. /\ Typed /\ Typed' /\ Owners /\ Homes /\ Homes' /\ Unmeddled /\ Remembered /\ [Next]_vars
      => Remembered'
  <2>1. ASSUME Typed, Typed', Owners, Homes, Homes', Unmeddled, Remembered, Next
        PROVE  Remembered'
    <3>1. Located /\ Recorded /\ Known /\ Genuine /\ Vouches BY <2>1 DEF Remembered
    <3>2. Disks' BY <2>1 DEF Typed
    <3>3. Located' BY <2>1, <3>1, <3>2, LocatedStep
    <3>4. Recorded' BY <2>1, <3>1, RecordedStep
    <3>5. Known' BY <2>1, <3>1, KnownStep
    <3>6. Genuine' BY <2>1, <3>1, <3>2, GenuineStep
    <3>7. Vouches' BY <2>1, <3>1, VouchesStep
    <3>8. QED BY <3>3, <3>4, <3>5, <3>6, <3>7 DEF Remembered
  <2>2. QED BY <2>1, StutteringRemembered
<1>3. Remembered => (edits <= 2 => VerificationIsHonest)
  BY DEF Remembered, Vouches, VerificationIsHonest
<1>4. QED BY <1>1, <1>2, <1>3, Foundation, Unspoiled, HomesThroughout, PTL DEF Spec
=============================================================================
