-------------------------- MODULE BundleReplay_proofs --------------------------
(***************************************************************************)
(* Whatever replayers, versions and faults there are: what holds of one    *)
(* destination that they share.                                            *)
(***************************************************************************)
EXTENDS BundleReplay, SequenceTheorems, FiniteSetTheorems, TLAPS

(* The stages that a program passes once, in this order.                   *)
Milestones == {"verify", "look", "identify", "mkstemp", "fill", "link", "same", "unlink", "done"}
Stages == Milestones \cup Cleaning
          \cup {"guard", "require", "owned", "owned_published", "reopen", "reread", "verify_again",
                "close", "vacant", "single", "alone"}

(* What a call has left is the end of its program, or of its cleanup.      *)
IsSuffix(t, P) ==
  /\ t \in Seq(Stages) /\ P \in Seq(Stages) /\ Len(t) <= Len(P)
  /\ \A i \in 1 .. Len(t) : t[i] = P[Len(P) - Len(t) + i]

RemoveAll == <<"remove_temporary", "check_published", "unlink_published", "check_directory",
               "rmdir", "fail">>
RemoveFiles == <<"remove_temporary", "check_published", "unlink_published", "fail">>

Controlled(p) ==
  \/ IsSuffix(todo[p], Program(p)) \/ IsSuffix(todo[p], RemoveAll)
  \/ IsSuffix(todo[p], RemoveFiles)

Rest(p) == Range(todo[p])

(* The order of the milestones.                                            *)
Ordered(R) ==
  /\ "verify" \in R => "look" \in R
  /\ "look" \in R => "identify" \in R
  /\ "identify" \in R => "mkstemp" \in R
  /\ "mkstemp" \in R => "fill" \in R
  /\ "fill" \in R => "link" \in R
  /\ "link" \in R => "same" \in R
  /\ "same" \in R => "unlink" \in R
  /\ "unlink" \in R => "done" \in R

(* Where the other stages stand among them.                                *)
Placed(s, R) ==
  /\ s = "guard" => "identify" \notin R /\ "mkstemp" \in R
  /\ s = "require" => "identify" \notin R /\ "unlink" \in R
  /\ s = "owned" => "mkstemp" \notin R /\ "unlink" \in R
  /\ s = "reopen" => "fill" \notin R /\ "link" \in R
  /\ s \in {"owned_published", "reread", "verify_again", "close"} =>
       "same" \notin R /\ "unlink" \in R
  /\ s \in {"vacant", "single", "alone"} => "unlink" \notin R
  /\ s \in Milestones => s \in R
  /\ s = "look" => "verify" \notin R
  /\ s = "identify" => "look" \notin R
  /\ s = "mkstemp" => "identify" \notin R
  /\ s = "fill" => "mkstemp" \notin R
  /\ s = "link" => "fill" \notin R
  /\ s = "same" => "link" \notin R
  /\ s = "unlink" => "same" \notin R
  /\ s = "done" => "unlink" \notin R

(* A call that works, at the head of what it has left.                     *)
Works(t) ==
  /\ "done" \in Range(t) /\ Range(t) \cap Cleaning = {} /\ Head(t) \notin Cleaning
  /\ \A s \in Milestones : s \in Range(Tail(t)) <=> s \in Range(t) /\ s # Head(t)
  /\ Ordered(Range(t)) /\ Placed(Head(t), Range(t))
  /\ Head(t) = "done" <=> Tail(t) = <<>>
  /\ Tail(t) # <<>> => Range(Tail(t)) \cap Cleaning = {}

(* A call that cleans up.                                                  *)
Tidy(s, R) ==
  /\ R \subseteq Cleaning /\ "fail" \in R /\ s \in R
  /\ s # "remove_temporary" => "remove_temporary" \notin R
  /\ s \in {"check_directory", "rmdir", "fail"} => "unlink_published" \notin R
  /\ s = "fail" => "rmdir" \notin R
  /\ "check_published" \in R => "unlink_published" \in R
  /\ "check_directory" \in R => "rmdir" \in R
  /\ s = "unlink_published" => "check_published" \notin R
  /\ s = "rmdir" => "check_directory" \notin R
Guarded(s) == IF s = "check_published" THEN "unlink_published" ELSE "rmdir"

Cleans(t) ==
  /\ Tidy(Head(t), Range(t))
  /\ Range(Tail(t)) = Range(t) \ {Head(t)}
  /\ Head(t) = "fail" <=> Tail(t) = <<>>
  /\ Head(t) \in {"check_published", "check_directory"} =>
       /\ Tail(t) # <<>> /\ Tail(Tail(t)) # <<>>
       /\ Range(Tail(Tail(t))) = Range(t) \ {Head(t), Guarded(Head(t))}

----------------------------------------------------------------------------
(* The ends of a sequence.                                                 *)

LEMMA TailOf ==
  ASSUME NEW S, NEW t \in Seq(S), t # <<>>
  PROVE  /\ Len(t) \in Nat \ {0} /\ Tail(t) \in Seq(S) /\ Len(Tail(t)) = Len(t) - 1
         /\ Head(t) = t[1] /\ Head(t) \in S
         /\ \A i \in 1 .. Len(Tail(t)) : Tail(t)[i] = t[i + 1]
         /\ Tail(t) = <<>> <=> Len(t) = 1
<1>1. Len(t) \in Nat \ {0} BY EmptySeq
<1>2. Tail(t) \in Seq(S) /\ Len(Tail(t)) = Len(t) - 1 BY HeadTailProperties
<1>3. \A i \in 1 .. Len(Tail(t)) : Tail(t)[i] = t[i + 1] BY HeadTailProperties
<1>4. Tail(t) = <<>> => Len(Tail(t)) = 0 BY EmptySeq
<1>5. Len(Tail(t)) = 0 => Tail(t) = <<>> BY <1>2, EmptySeq
<1>6. Head(t) \in S BY HeadTailProperties
<1>7. QED BY <1>1, <1>2, <1>3, <1>4, <1>5, <1>6

LEMMA RangeIs ==
  ASSUME NEW S, NEW t \in Seq(S)
  PROVE  /\ \A s : s \in Range(t) <=> \E i \in 1 .. Len(t) : t[i] = s
         /\ Range(t) \subseteq S
         /\ t = <<>> <=> Range(t) = {}
<1>1. DOMAIN t = 1 .. Len(t) /\ Len(t) \in Nat BY LenProperties
<1>2. \A s : s \in Range(t) <=> \E i \in 1 .. Len(t) : t[i] = s BY <1>1 DEF Range
<1>3. \A i \in 1 .. Len(t) : t[i] \in S BY ElementOfSeq
<1>4. t = <<>> => Range(t) = {} BY <1>1, <1>2, EmptySeq
<1>5. t # <<>> => t[1] \in Range(t)
  <2>1. t # <<>> => Len(t) # 0 BY EmptySeq
  <2>2. t # <<>> => 1 \in 1 .. Len(t) BY <1>1, <2>1
  <2>3. QED BY <1>2, <2>2
<1>6. QED BY <1>2, <1>3, <1>4, <1>5

LEMMA TailIsSuffix ==
  ASSUME NEW P, NEW t, IsSuffix(t, P), t # <<>>
  PROVE  IsSuffix(Tail(t), P)
<1>1. t \in Seq(Stages) /\ P \in Seq(Stages) /\ Len(t) <= Len(P) BY DEF IsSuffix
<1>2. /\ Len(t) \in Nat \ {0} /\ Tail(t) \in Seq(Stages) /\ Len(Tail(t)) = Len(t) - 1
      /\ \A i \in 1 .. Len(Tail(t)) : Tail(t)[i] = t[i + 1]
  BY <1>1, TailOf
<1>3. Len(P) \in Nat BY <1>1
<1>4. ASSUME NEW i \in 1 .. Len(Tail(t)) PROVE Tail(t)[i] = P[Len(P) - Len(Tail(t)) + i]
  <2>1. i + 1 \in 1 .. Len(t) BY <1>2
  <2>2. t[i + 1] = P[Len(P) - Len(t) + (i + 1)] BY <2>1 DEF IsSuffix
  <2>3. Len(P) - Len(t) + (i + 1) = Len(P) - Len(Tail(t)) + i BY <1>2, <1>3
  <2>4. QED BY <1>2, <2>2, <2>3
<1>5. QED BY <1>1, <1>2, <1>3, <1>4 DEF IsSuffix

(* The place of a suffix in its sequence.                                  *)
LEMMA Place ==
  ASSUME NEW P, NEW t, IsSuffix(t, P), t # <<>>
  PROVE  \E k \in 1 .. Len(P) :
           /\ Head(t) = P[k]
           /\ \A s : s \in Range(t) <=> (\E i \in k .. Len(P) : P[i] = s)
           /\ \A s : s \in Range(Tail(t)) <=> (\E i \in k + 1 .. Len(P) : P[i] = s)
           /\ Tail(t) = <<>> <=> k = Len(P)
<1> DEFINE k == Len(P) - Len(t) + 1
<1>1. t \in Seq(Stages) /\ P \in Seq(Stages) /\ Len(t) <= Len(P) BY DEF IsSuffix
<1>2. Len(P) \in Nat BY <1>1
<1>3. /\ Len(t) \in Nat \ {0} /\ Tail(t) \in Seq(Stages) /\ Len(Tail(t)) = Len(t) - 1
      /\ Head(t) = t[1]
      /\ \A i \in 1 .. Len(Tail(t)) : Tail(t)[i] = t[i + 1]
      /\ Tail(t) = <<>> <=> Len(t) = 1
  BY <1>1, TailOf
<1>4. k \in 1 .. Len(P) BY <1>1, <1>2, <1>3
<1>5. \A i \in 1 .. Len(t) : t[i] = P[Len(P) - Len(t) + i] BY DEF IsSuffix
<1>6. Head(t) = P[k]
  <2>1. 1 \in 1 .. Len(t) BY <1>3
  <2>2. QED BY <1>3, <1>5, <2>1
<1>7. \A i \in 1 .. Len(t) : t[i] = P[k - 1 + i]
  <2>1. \A i \in 1 .. Len(t) : Len(P) - Len(t) + i = k - 1 + i BY <1>2, <1>3
  <2>2. QED BY <1>5, <2>1
<1>8. Len(t) = Len(P) - k + 1 BY <1>2, <1>3
<1>9. \A i \in 1 .. Len(Tail(t)) : Tail(t)[i] = P[k + i]
  <2> SUFFICES ASSUME NEW i \in 1 .. Len(Tail(t)) PROVE Tail(t)[i] = P[k + i] OBVIOUS
  <2>1. i + 1 \in 1 .. Len(t) BY <1>3
  <2>2. k - 1 + (i + 1) = k + i BY <1>2, <1>3
  <2>3. QED BY <1>3, <1>7, <2>1, <2>2
<1>10. k \in Nat /\ Len(Tail(t)) = Len(P) - k BY <1>3, <1>4, <1>8
<1> HIDE DEF k
<1>12. \A s : s \in Range(t) <=> \E i \in k .. Len(P) : P[i] = s
  <2> SUFFICES ASSUME NEW s PROVE s \in Range(t) <=> \E i \in k .. Len(P) : P[i] = s OBVIOUS
  <2>1. s \in Range(t) <=> \E i \in 1 .. Len(t) : t[i] = s BY <1>1, RangeIs
  <2>2. ASSUME NEW i \in 1 .. Len(t), t[i] = s PROVE \E j \in k .. Len(P) : P[j] = s
    <3>1. k - 1 + i \in k .. Len(P) BY <1>2, <1>8, <1>10
    <3>2. QED BY <1>7, <2>2, <3>1
  <2>3. ASSUME NEW j \in k .. Len(P), P[j] = s PROVE \E i \in 1 .. Len(t) : t[i] = s
    <3>1. j - k + 1 \in 1 .. Len(t) /\ k - 1 + (j - k + 1) = j BY <1>2, <1>8, <1>10
    <3>2. t[j - k + 1] = P[k - 1 + (j - k + 1)] BY <1>7, <3>1
    <3>3. QED BY <2>3, <3>1, <3>2
  <2>4. QED BY <2>1, <2>2, <2>3
<1>13. \A s : s \in Range(Tail(t)) <=> \E i \in k + 1 .. Len(P) : P[i] = s
  <2> SUFFICES ASSUME NEW s PROVE s \in Range(Tail(t)) <=> \E i \in k + 1 .. Len(P) : P[i] = s
    OBVIOUS
  <2>1. s \in Range(Tail(t)) <=> \E i \in 1 .. Len(Tail(t)) : Tail(t)[i] = s BY <1>3, RangeIs
  <2>2. ASSUME NEW i \in 1 .. Len(Tail(t)), Tail(t)[i] = s PROVE \E j \in k + 1 .. Len(P) : P[j] = s
    <3>1. k + i \in k + 1 .. Len(P) BY <1>2, <1>10
    <3>2. QED BY <1>9, <2>2, <3>1
  <2>3. ASSUME NEW j \in k + 1 .. Len(P), P[j] = s PROVE \E i \in 1 .. Len(Tail(t)) : Tail(t)[i] = s
    <3>1. j - k \in 1 .. Len(Tail(t)) /\ k + (j - k) = j BY <1>2, <1>10
    <3>2. Tail(t)[j - k] = P[k + (j - k)] BY <1>9, <3>1
    <3>3. QED BY <2>3, <3>1, <3>2
  <2>4. QED BY <2>1, <2>2, <2>3
<1>14. Tail(t) = <<>> <=> k = Len(P)
  <2>1. Len(t) \in Nat BY <1>3
  <2>2. Len(t) = 1 <=> k = Len(P) BY <1>2, <1>8, <1>10, <2>1
  <2>3. Tail(t) = <<>> <=> Len(t) = 1 BY <1>3
  <2>4. QED BY <2>2, <2>3
<1>15. QED BY <1>4, <1>6, <1>12, <1>13, <1>14

(* What stands once in a sequence stands in its end if that reaches there. *)
LEMMA Once ==
  ASSUME NEW P, NEW s, NEW n \in Nat, NEW m \in 1 .. n, NEW j \in Nat \ {0},
         \A i \in 1 .. n : P[i] = s <=> i = m
  PROVE  (\E i \in j .. n : P[i] = s) <=> j <= m
<1>1. ASSUME NEW i \in j .. n, P[i] = s PROVE j <= m
  <2>1. i \in 1 .. n OBVIOUS
  <2>2. QED BY <1>1, <2>1
<1>2. ASSUME j <= m PROVE \E i \in j .. n : P[i] = s
  <2>1. m \in j .. n BY <1>2
  <2>2. P[m] = s OBVIOUS
  <2>3. QED BY <2>1, <2>2
<1>3. QED BY <1>1, <1>2

----------------------------------------------------------------------------
(* The programs.                                                           *)

(* Where a program has its milestones, and the other stages among them.    *)
PlacedAt(s, i, m) ==
  /\ s = "guard" => m["identify"] < i /\ i <= m["mkstemp"]
  /\ s = "require" => m["identify"] < i /\ i <= m["unlink"]
  /\ s = "owned" => m["mkstemp"] < i /\ i <= m["unlink"]
  /\ s = "reopen" => m["fill"] < i /\ i <= m["link"]
  /\ s \in {"owned_published", "reread", "verify_again", "close"} =>
       m["same"] < i /\ i <= m["unlink"]
  /\ s \in {"vacant", "single", "alone"} => m["unlink"] < i

Increasing(m) ==
  /\ m["verify"] < m["look"] /\ m["look"] < m["identify"] /\ m["identify"] < m["mkstemp"]
  /\ m["mkstemp"] < m["fill"] /\ m["fill"] < m["link"] /\ m["link"] < m["same"]
  /\ m["same"] < m["unlink"] /\ m["unlink"] < m["done"]

Laid(P, m) ==
  /\ P \in Seq(Stages) /\ m \in [Milestones -> 1 .. Len(P)]
  /\ Increasing(m) /\ m["done"] = Len(P)
  /\ \A i \in 1 .. Len(P) :
       /\ P[i] \notin Cleaning /\ PlacedAt(P[i], i, m)
       /\ \A s \in Milestones : P[i] = s <=> i = m[s]

LEMMA LayoutV1 == \E m : Laid(ReplayV1, m)
<1> DEFINE m == [s \in Milestones |->
        CASE s = "verify" -> 1
          [] s = "look" -> 2
          [] s = "identify" -> 3
          [] s = "mkstemp" -> 6
          [] s = "fill" -> 8
          [] s = "link" -> 13
          [] s = "same" -> 14
          [] s = "unlink" -> 27
          [] s = "done" -> 30]
<1>1. /\ m["verify"] = 1 /\ m["look"] = 2 /\ m["identify"] = 3
      /\ m["mkstemp"] = 6 /\ m["fill"] = 8 /\ m["link"] = 13
      /\ m["same"] = 14 /\ m["unlink"] = 27 /\ m["done"] = 30
  BY DEF Milestones
<1>2. m \in [Milestones -> 1 .. 30]
  BY DEF Milestones
<1> HIDE DEF m
<1>3. ReplayV1 \in Seq(Stages) /\ Len(ReplayV1) = 30
  BY DEF ReplayV1, Enter, Stage, Published1, Stages, Milestones, Cleaning
<1>4. /\ ReplayV1[1] = "verify" /\ ReplayV1[2] = "look" /\ ReplayV1[3] = "identify"
      /\ ReplayV1[4] = "guard" /\ ReplayV1[5] = "require" /\ ReplayV1[6] = "mkstemp"
      /\ ReplayV1[7] = "owned" /\ ReplayV1[8] = "fill" /\ ReplayV1[9] = "owned"
      /\ ReplayV1[10] = "reopen" /\ ReplayV1[11] = "owned" /\ ReplayV1[12] = "require"
      /\ ReplayV1[13] = "link" /\ ReplayV1[14] = "same" /\ ReplayV1[15] = "owned"
      /\ ReplayV1[16] = "owned_published" /\ ReplayV1[17] = "require" /\ ReplayV1[18] = "owned"
      /\ ReplayV1[19] = "owned_published" /\ ReplayV1[20] = "reread" /\ ReplayV1[21] = "owned"
      /\ ReplayV1[22] = "owned_published" /\ ReplayV1[23] = "verify_again" /\ ReplayV1[24] = "owned"
      /\ ReplayV1[25] = "owned_published" /\ ReplayV1[26] = "close" /\ ReplayV1[27] = "unlink"
      /\ ReplayV1[28] = "vacant" /\ ReplayV1[29] = "single" /\ ReplayV1[30] = "done"
  BY DEF ReplayV1, Enter, Stage, Published1
<1>5. ASSUME NEW i \in 1 .. 30
      PROVE  /\ ReplayV1[i] \notin Cleaning /\ PlacedAt(ReplayV1[i], i, m)
             /\ \A s \in Milestones : ReplayV1[i] = s <=> i = m[s]
  <2>1. \/ i = 1 \/ i = 2 \/ i = 3 \/ i = 4 \/ i = 5 \/ i = 6 \/ i = 7 \/ i = 8 \/ i = 9 \/ i = 10
        \/ i = 11 \/ i = 12 \/ i = 13 \/ i = 14 \/ i = 15 \/ i = 16 \/ i = 17 \/ i = 18 \/ i = 19 \/ i = 20
        \/ i = 21 \/ i = 22 \/ i = 23 \/ i = 24 \/ i = 25 \/ i = 26 \/ i = 27 \/ i = 28 \/ i = 29 \/ i = 30
    OBVIOUS
  <2>2. ReplayV1[i] \notin Cleaning BY <1>4, <2>1 DEF Cleaning
  <2>3. PlacedAt(ReplayV1[i], i, m) BY <1>1, <1>4, <2>1 DEF PlacedAt
  <2>4. ASSUME NEW s \in Milestones PROVE ReplayV1[i] = s <=> i = m[s]
    BY <1>1, <1>4, <2>1 DEF Milestones
  <2>5. QED BY <2>2, <2>3, <2>4
<1>6. Laid(ReplayV1, m) BY <1>1, <1>2, <1>3, <1>5 DEF Laid, Increasing
<1>7. QED BY <1>6

LEMMA LayoutV2 == \E m : Laid(ReplayV2, m)
<1> DEFINE m == [s \in Milestones |->
        CASE s = "verify" -> 1
          [] s = "look" -> 2
          [] s = "identify" -> 3
          [] s = "mkstemp" -> 5
          [] s = "fill" -> 7
          [] s = "link" -> 11
          [] s = "same" -> 12
          [] s = "unlink" -> 16
          [] s = "done" -> 18]
<1>1. /\ m["verify"] = 1 /\ m["look"] = 2 /\ m["identify"] = 3
      /\ m["mkstemp"] = 5 /\ m["fill"] = 7 /\ m["link"] = 11
      /\ m["same"] = 12 /\ m["unlink"] = 16 /\ m["done"] = 18
  BY DEF Milestones
<1>2. m \in [Milestones -> 1 .. 18]
  BY DEF Milestones
<1> HIDE DEF m
<1>3. ReplayV2 \in Seq(Stages) /\ Len(ReplayV2) = 18
  BY DEF ReplayV2, Enter, Stage, Published1, Stages, Milestones, Cleaning
<1>4. /\ ReplayV2[1] = "verify" /\ ReplayV2[2] = "look" /\ ReplayV2[3] = "identify"
      /\ ReplayV2[4] = "guard" /\ ReplayV2[5] = "mkstemp" /\ ReplayV2[6] = "owned"
      /\ ReplayV2[7] = "fill" /\ ReplayV2[8] = "reopen" /\ ReplayV2[9] = "owned"
      /\ ReplayV2[10] = "require" /\ ReplayV2[11] = "link" /\ ReplayV2[12] = "same"
      /\ ReplayV2[13] = "reread" /\ ReplayV2[14] = "verify_again" /\ ReplayV2[15] = "close"
      /\ ReplayV2[16] = "unlink" /\ ReplayV2[17] = "single" /\ ReplayV2[18] = "done"
  BY DEF ReplayV2, Enter, Stage, Published1
<1>5. ASSUME NEW i \in 1 .. 18
      PROVE  /\ ReplayV2[i] \notin Cleaning /\ PlacedAt(ReplayV2[i], i, m)
             /\ \A s \in Milestones : ReplayV2[i] = s <=> i = m[s]
  <2>1. \/ i = 1 \/ i = 2 \/ i = 3 \/ i = 4 \/ i = 5 \/ i = 6 \/ i = 7 \/ i = 8 \/ i = 9 \/ i = 10
        \/ i = 11 \/ i = 12 \/ i = 13 \/ i = 14 \/ i = 15 \/ i = 16 \/ i = 17 \/ i = 18
    OBVIOUS
  <2>2. ReplayV2[i] \notin Cleaning BY <1>4, <2>1 DEF Cleaning
  <2>3. PlacedAt(ReplayV2[i], i, m) BY <1>1, <1>4, <2>1 DEF PlacedAt
  <2>4. ASSUME NEW s \in Milestones PROVE ReplayV2[i] = s <=> i = m[s]
    BY <1>1, <1>4, <2>1 DEF Milestones
  <2>5. QED BY <2>2, <2>3, <2>4
<1>6. Laid(ReplayV2, m) BY <1>1, <1>2, <1>3, <1>5 DEF Laid, Increasing
<1>7. QED BY <1>6

LEMMA LayoutV3 == \E m : Laid(ReplayV3, m)
<1> DEFINE m == [s \in Milestones |->
        CASE s = "verify" -> 1
          [] s = "look" -> 2
          [] s = "identify" -> 3
          [] s = "mkstemp" -> 5
          [] s = "fill" -> 7
          [] s = "link" -> 11
          [] s = "same" -> 12
          [] s = "unlink" -> 16
          [] s = "done" -> 18]
<1>1. /\ m["verify"] = 1 /\ m["look"] = 2 /\ m["identify"] = 3
      /\ m["mkstemp"] = 5 /\ m["fill"] = 7 /\ m["link"] = 11
      /\ m["same"] = 12 /\ m["unlink"] = 16 /\ m["done"] = 18
  BY DEF Milestones
<1>2. m \in [Milestones -> 1 .. 18]
  BY DEF Milestones
<1> HIDE DEF m
<1>3. ReplayV3 \in Seq(Stages) /\ Len(ReplayV3) = 18
  BY DEF ReplayV3, Enter, Stage, Published1, Stages, Milestones, Cleaning
<1>4. /\ ReplayV3[1] = "verify" /\ ReplayV3[2] = "look" /\ ReplayV3[3] = "identify"
      /\ ReplayV3[4] = "guard" /\ ReplayV3[5] = "mkstemp" /\ ReplayV3[6] = "owned"
      /\ ReplayV3[7] = "fill" /\ ReplayV3[8] = "reopen" /\ ReplayV3[9] = "owned"
      /\ ReplayV3[10] = "require" /\ ReplayV3[11] = "link" /\ ReplayV3[12] = "same"
      /\ ReplayV3[13] = "reread" /\ ReplayV3[14] = "verify_again" /\ ReplayV3[15] = "close"
      /\ ReplayV3[16] = "unlink" /\ ReplayV3[17] = "alone" /\ ReplayV3[18] = "done"
  BY DEF ReplayV3, Enter, Stage, Published1
<1>5. ASSUME NEW i \in 1 .. 18
      PROVE  /\ ReplayV3[i] \notin Cleaning /\ PlacedAt(ReplayV3[i], i, m)
             /\ \A s \in Milestones : ReplayV3[i] = s <=> i = m[s]
  <2>1. \/ i = 1 \/ i = 2 \/ i = 3 \/ i = 4 \/ i = 5 \/ i = 6 \/ i = 7 \/ i = 8 \/ i = 9 \/ i = 10
        \/ i = 11 \/ i = 12 \/ i = 13 \/ i = 14 \/ i = 15 \/ i = 16 \/ i = 17 \/ i = 18
    OBVIOUS
  <2>2. ReplayV3[i] \notin Cleaning BY <1>4, <2>1 DEF Cleaning
  <2>3. PlacedAt(ReplayV3[i], i, m) BY <1>1, <1>4, <2>1 DEF PlacedAt
  <2>4. ASSUME NEW s \in Milestones PROVE ReplayV3[i] = s <=> i = m[s]
    BY <1>1, <1>4, <2>1 DEF Milestones
  <2>5. QED BY <2>2, <2>3, <2>4
<1>6. Laid(ReplayV3, m) BY <1>1, <1>2, <1>3, <1>5 DEF Laid, Increasing
<1>7. QED BY <1>6

(* What is left of a program.                                              *)
LEMMA WorksOn ==
  ASSUME NEW P, NEW m, Laid(P, m), NEW t, IsSuffix(t, P), t # <<>>
  PROVE  Works(t)
<1>1. PICK n \in Nat : n = Len(P)
  <2>1. P \in Seq(Stages) BY DEF Laid
  <2>2. QED BY <2>1
<1>2. PICK k \in 1 .. n :
        /\ Head(t) = P[k]
        /\ \A s : s \in Range(t) <=> (\E i \in k .. n : P[i] = s)
        /\ \A s : s \in Range(Tail(t)) <=> (\E i \in k + 1 .. n : P[i] = s)
        /\ Tail(t) = <<>> <=> k = n
  BY <1>1, Place
<1>3. /\ m \in [Milestones -> 1 .. n] /\ Increasing(m) /\ m["done"] = n
      /\ \A i \in 1 .. n : /\ P[i] \notin Cleaning /\ PlacedAt(P[i], i, m)
                          /\ \A s \in Milestones : P[i] = s <=> i = m[s]
  BY <1>1 DEF Laid
<1>4. ASSUME NEW s \in Milestones
      PROVE  /\ s \in Range(t) <=> k <= m[s]
             /\ s \in Range(Tail(t)) <=> k < m[s]
             /\ s = Head(t) <=> k = m[s]
  <2>1. m[s] \in 1 .. n BY <1>3
  <2>2. \A i \in 1 .. n : P[i] = s <=> i = m[s] BY <1>3
  <2>3. (\E i \in k .. n : P[i] = s) <=> k <= m[s] BY <2>1, <2>2, Once
  <2>4. (\E i \in k + 1 .. n : P[i] = s) <=> k + 1 <= m[s] BY <2>1, <2>2, Once
  <2>5. QED BY <1>2, <2>1, <2>2, <2>3, <2>4
<1>5. \A i \in k .. n : P[i] \notin Cleaning BY <1>3
<1>6. \A i \in k + 1 .. n : P[i] \notin Cleaning BY <1>3
<1>7. Range(t) \cap Cleaning = {} BY <1>2, <1>5
<1>8. Range(Tail(t)) \cap Cleaning = {} BY <1>2, <1>6
<1>9. Head(t) \notin Cleaning BY <1>2, <1>3
<1>10. \A s \in Milestones : m[s] \in Int BY <1>3
<1>11. \A s \in Milestones : s \in Range(Tail(t)) <=> s \in Range(t) /\ s # Head(t)
  BY <1>2, <1>4, <1>10
<1>12. /\ {"verify", "look", "identify", "mkstemp", "fill"} \subseteq Milestones
       /\ {"link", "same", "unlink", "done"} \subseteq Milestones
  BY DEF Milestones
<1>13. Ordered(Range(t)) BY <1>2, <1>3, <1>4, <1>10, <1>12 DEF Ordered, Increasing
<1>14. "done" \in Range(t) /\ (Head(t) = "done" <=> Tail(t) = <<>>) BY <1>2, <1>3, <1>4, <1>12
<1>15. PlacedAt(Head(t), k, m) BY <1>2, <1>3
<1>16. Placed(Head(t), Range(t))
  <2>1. \A s \in Milestones : Head(t) = s => s \in Range(t)
    BY <1>2, <1>4, <1>10
  <2>2. \A s, r \in Milestones : Head(t) = s /\ m[r] < m[s] => r \notin Range(t)
    BY <1>2, <1>4, <1>10
  <2>3. /\ Head(t) = "look" => "verify" \notin Range(t)
        /\ Head(t) = "identify" => "look" \notin Range(t)
        /\ Head(t) = "mkstemp" => "identify" \notin Range(t)
        /\ Head(t) = "fill" => "mkstemp" \notin Range(t)
        /\ Head(t) = "link" => "fill" \notin Range(t)
        /\ Head(t) = "same" => "link" \notin Range(t)
        /\ Head(t) = "unlink" => "same" \notin Range(t)
        /\ Head(t) = "done" => "unlink" \notin Range(t)
    BY <1>3, <1>12, <2>2 DEF Increasing
  <2>4. QED BY <1>2, <1>4, <1>10, <1>12, <1>15, <2>1, <2>3 DEF Placed, PlacedAt
<1>17. QED BY <1>7, <1>8, <1>9, <1>11, <1>13, <1>14, <1>16 DEF Works

LEMMA ProgramWorks ==
  ASSUME NEW p \in Replayers, version \in Assignments
  PROVE  \E m : Laid(Program(p), m)
<1>1. version[p] \in {"v1", "v2", "v3"} BY ReplayAssumption
<1>2. QED BY <1>1, LayoutV1, LayoutV2, LayoutV3 DEF Program

----------------------------------------------------------------------------
(* The cleanups.                                                           *)

IsOnce(P) ==
  /\ P \in Seq(Stages) /\ Range(P) \subseteq Cleaning
  /\ \A i, j \in 1 .. Len(P) : P[i] = P[j] => i = j

LEMMA PlaceOnce ==
  ASSUME NEW P, IsOnce(P), NEW t, IsSuffix(t, P), t # <<>>
  PROVE  \E k \in 1 .. Len(P) :
           /\ Head(t) = P[k] /\ (Tail(t) = <<>> <=> k = Len(P))
           /\ \A s : s \in Range(t) => \E i \in 1 .. Len(P) : P[i] = s
           /\ Range(Tail(t)) \subseteq Range(t)
           /\ \A i \in 1 .. Len(P) :
                /\ P[i] \in Range(t) <=> k <= i
                /\ P[i] \in Range(Tail(t)) <=> k < i
<1>1. PICK n \in Nat : n = Len(P)
  <2>1. P \in Seq(Stages) BY DEF IsOnce
  <2>2. QED BY <2>1
<1>2. PICK k \in 1 .. n :
        /\ Head(t) = P[k]
        /\ \A s : s \in Range(t) <=> (\E i \in k .. n : P[i] = s)
        /\ \A s : s \in Range(Tail(t)) <=> (\E i \in k + 1 .. n : P[i] = s)
        /\ Tail(t) = <<>> <=> k = n
  BY <1>1, Place
<1>3. ASSUME NEW i \in 1 .. n PROVE /\ P[i] \in Range(t) <=> k <= i
                                    /\ P[i] \in Range(Tail(t)) <=> k < i
  <2>1. \A j \in 1 .. n : P[j] = P[i] <=> j = i BY <1>1 DEF IsOnce
  <2>2. (\E j \in k .. n : P[j] = P[i]) <=> k <= i BY <2>1, Once
  <2>3. (\E j \in k + 1 .. n : P[j] = P[i]) <=> k + 1 <= i BY <2>1, Once
  <2>4. QED BY <1>2, <2>2, <2>3
<1>4. \A s : s \in Range(t) => \E i \in 1 .. n : P[i] = s
  <2> SUFFICES ASSUME NEW s, s \in Range(t) PROVE \E i \in 1 .. n : P[i] = s OBVIOUS
  <2>1. PICK i \in k .. n : P[i] = s BY <1>2
  <2>2. i \in 1 .. n OBVIOUS
  <2>3. QED BY <2>1, <2>2
<1>5. Range(Tail(t)) \subseteq Range(t)
  <2> SUFFICES ASSUME NEW s \in Range(Tail(t)) PROVE s \in Range(t) OBVIOUS
  <2>1. PICK i \in k + 1 .. n : P[i] = s BY <1>2
  <2>2. i \in k .. n OBVIOUS
  <2>3. QED BY <1>2, <2>1, <2>2
<1>6. QED BY <1>1, <1>2, <1>3, <1>4, <1>5

LEMMA PlaceTwice ==
  ASSUME NEW P, IsOnce(P), NEW t, IsSuffix(t, P), t # <<>>, Tail(t) # <<>>,
         NEW k \in 1 .. Len(P), Head(t) = P[k], Tail(t) = <<>> <=> k = Len(P),
         \A i \in 1 .. Len(P) : P[i] \in Range(Tail(t)) <=> k < i
  PROVE  /\ k < Len(P) /\ (Tail(Tail(t)) = <<>> <=> k + 1 = Len(P))
         /\ Range(Tail(Tail(t))) \subseteq Range(Tail(t))
         /\ \A i \in 1 .. Len(P) : P[i] \in Range(Tail(Tail(t))) <=> k + 1 < i
<1> DEFINE u == Tail(t)
<1>1. u # <<>> /\ IsSuffix(u, P) /\ (\A i \in 1 .. Len(P) : P[i] \in Range(u) <=> k < i)
  BY TailIsSuffix
<1> HIDE DEF u
<1>2. PICK j \in 1 .. Len(P) :
        /\ Head(u) = P[j] /\ (Tail(u) = <<>> <=> j = Len(P))
        /\ Range(Tail(u)) \subseteq Range(u)
        /\ \A i \in 1 .. Len(P) :
             /\ P[i] \in Range(u) <=> j <= i
             /\ P[i] \in Range(Tail(u)) <=> j < i
  BY <1>1, PlaceOnce
<1>3. Len(P) \in Nat
  <2>1. P \in Seq(Stages) BY DEF IsOnce
  <2>2. QED BY <2>1
<1>4. k < Len(P) BY <1>3
<1>5. j = k + 1
  <2>1. j <= j /\ k + 1 \in 1 .. Len(P) BY <1>3, <1>4
  <2>2. k < j BY <1>1, <1>2, <2>1
  <2>3. j <= k + 1 BY <1>1, <1>2, <2>1
  <2>4. QED BY <2>2, <2>3
<1>6. QED BY <1>2, <1>4, <1>5 DEF u

LEMMA RemoveAllCleans ==
  ASSUME NEW t, IsSuffix(t, RemoveAll), t # <<>>
  PROVE  Cleans(t)
<1> DEFINE P == RemoveAll
<1>1. /\ P \in Seq(Stages) /\ Len(P) = 6
      /\ P[1] = "remove_temporary" /\ P[2] = "check_published" /\ P[3] = "unlink_published"
      /\ P[4] = "check_directory" /\ P[5] = "rmdir" /\ P[6] = "fail"
  BY DEF RemoveAll, Stages, Cleaning
<1>2. IsSuffix(t, P) /\ t # <<>> OBVIOUS
<1> HIDE DEF P
<1>3. \A i \in 1 .. 6 : i = 1 \/ i = 2 \/ i = 3 \/ i = 4 \/ i = 5 \/ i = 6 OBVIOUS
<1>4. IsOnce(P)
  <2>1. \A i, j \in 1 .. 6 : P[i] = P[j] => i = j BY <1>1, <1>3
  <2>2. \A i \in 1 .. 6 : P[i] \in Cleaning BY <1>1, <1>3 DEF Cleaning
  <2>3. Range(P) \subseteq Cleaning BY <1>1, <2>2, RangeIs
  <2>4. QED BY <1>1, <2>1, <2>3 DEF IsOnce
<1>5. PICK k \in 1 .. 6 :
        /\ Head(t) = P[k] /\ (Tail(t) = <<>> <=> k = 6)
        /\ \A s : s \in Range(t) => \E i \in 1 .. 6 : P[i] = s
        /\ Range(Tail(t)) \subseteq Range(t)
        /\ \A i \in 1 .. 6 :
             /\ P[i] \in Range(t) <=> k <= i
             /\ P[i] \in Range(Tail(t)) <=> k < i
  <2>1. \E j \in 1 .. Len(P) :
           /\ Head(t) = P[j] /\ (Tail(t) = <<>> <=> j = Len(P))
           /\ \A s : s \in Range(t) => \E i \in 1 .. Len(P) : P[i] = s
           /\ Range(Tail(t)) \subseteq Range(t)
           /\ \A i \in 1 .. Len(P) :
                /\ P[i] \in Range(t) <=> j <= i
                /\ P[i] \in Range(Tail(t)) <=> j < i
    BY <1>2, <1>4, PlaceOnce
  <2>2. Len(P) = 6 BY <1>1
  <2>3. QED BY ONLY <2>1, <2>2
<1>6. ASSUME Tail(t) # <<>>
      PROVE  /\ k < 6 /\ (Tail(Tail(t)) = <<>> <=> k + 1 = 6)
             /\ Range(Tail(Tail(t))) \subseteq Range(Tail(t))
             /\ \A i \in 1 .. 6 : P[i] \in Range(Tail(Tail(t))) <=> k + 1 < i
  <2>1. Len(P) = 6 BY <1>1
  <2>2. /\ k \in 1 .. Len(P) /\ Head(t) = P[k] /\ (Tail(t) = <<>> <=> k = Len(P))
        /\ \A i \in 1 .. Len(P) : P[i] \in Range(Tail(t)) <=> k < i
    BY <1>5, <2>1
  <2>3. /\ k < Len(P) /\ (Tail(Tail(t)) = <<>> <=> k + 1 = Len(P))
        /\ Range(Tail(Tail(t))) \subseteq Range(Tail(t))
        /\ \A i \in 1 .. Len(P) : P[i] \in Range(Tail(Tail(t))) <=> k + 1 < i
    BY ONLY <1>2, <1>4, <1>6, <2>2, PlaceTwice
  <2>4. QED BY <2>1, <2>3
<1>7. \A s : s \in Range(t) => s = P[1] \/ s = P[2] \/ s = P[3] \/ s = P[4] \/ s = P[5] \/ s = P[6]
  BY <1>3, <1>5
<1>8. Range(t) \subseteq Cleaning BY <1>1, <1>7 DEF Cleaning
<1>9. Range(Tail(t)) = Range(t) \ {Head(t)}
  <2>1. \A i \in 1 .. 6 : P[i] \in Range(Tail(t)) <=> P[i] \in Range(t) /\ P[i] # P[k]
    BY <1>4, <1>1, <1>5 DEF IsOnce
  <2>2. \A s : s \in Range(Tail(t)) <=> s \in Range(t) /\ s # Head(t) BY <1>5, <2>1
  <2>3. QED BY <2>2
<1>10. ASSUME Head(t) \in {"check_published", "check_directory"}
       PROVE  /\ Tail(t) # <<>> /\ Tail(Tail(t)) # <<>>
              /\ Range(Tail(Tail(t))) =
                   Range(t) \ {Head(t), Guarded(Head(t))}
  <2>1. (k = 2 /\ Head(t) = P[2]) \/ (k = 4 /\ Head(t) = P[4]) BY <1>1, <1>3, <1>5, <1>10
  <2>2. Tail(t) # <<>> BY <1>5, <2>1
  <2>3. Tail(Tail(t)) # <<>> BY <1>6, <2>1, <2>2
  <2>4. ASSUME NEW s
        PROVE  s \in Range(Tail(Tail(t))) <=>
                 s \in Range(t) /\ s # Head(t) /\ s # Guarded(Head(t))
    <3>1. Range(Tail(Tail(t))) \subseteq Range(t) BY <1>5, <1>6, <2>2
    <3>2. CASE s \notin Range(t) BY <3>1, <3>2
    <3>3. CASE s \in Range(t)
      <4>1. PICK i \in 1 .. 6 : P[i] = s BY <1>5, <3>3
      <4>2. s \in Range(Tail(Tail(t))) <=> k + 1 < i BY <1>6, <2>2, <4>1
      <4>3. s \in Range(t) <=> k <= i BY <1>5, <4>1
      <4>4. s = P[k] <=> i = k BY <1>1, <1>4, <4>1 DEF IsOnce
      <4>5. s = P[k + 1] <=> i = k + 1 BY <1>1, <1>4, <2>1, <4>1 DEF IsOnce
      <4>6. P[k + 1] = Guarded(Head(t)) BY <1>1, <2>1 DEF Guarded
      <4>7. QED BY <1>5, <4>2, <4>3, <4>4, <4>5, <4>6
    <3>4. QED BY <3>2, <3>3
  <2>5. QED BY <2>2, <2>3, <2>4
<1>11. /\ "fail" \in Range(t) /\ Head(t) \in Range(t) /\ (Head(t) = "fail" <=> Tail(t) = <<>>)
       /\ Head(t) # "remove_temporary" => "remove_temporary" \notin Range(t)
       /\ Head(t) \in {"check_directory", "rmdir", "fail"} => "unlink_published" \notin Range(t)
       /\ Head(t) = "fail" => "rmdir" \notin Range(t)
       /\ "check_published" \in Range(t) => "unlink_published" \in Range(t)
       /\ "check_directory" \in Range(t) => "rmdir" \in Range(t)
       /\ Head(t) = "unlink_published" => "check_published" \notin Range(t)
       /\ Head(t) = "rmdir" => "check_directory" \notin Range(t)
  <2>1. /\ "remove_temporary" \in Range(t) <=> k <= 1
        /\ "check_published" \in Range(t) <=> k <= 2
        /\ "unlink_published" \in Range(t) <=> k <= 3
        /\ "check_directory" \in Range(t) <=> k <= 4
        /\ "rmdir" \in Range(t) <=> k <= 5
        /\ "fail" \in Range(t) <=> k <= 6
    BY <1>1, <1>5
  <2>2. k = 1 \/ k = 2 \/ k = 3 \/ k = 4 \/ k = 5 \/ k = 6 BY <1>3
  <2>3. QED BY <1>1, <1>5, <2>1, <2>2
<1>12. Tidy(Head(t), Range(t)) BY <1>8, <1>11 DEF Tidy
<1>13. QED BY <1>9, <1>10, <1>11, <1>12 DEF Cleans

LEMMA RemoveFilesCleans ==
  ASSUME NEW t, IsSuffix(t, RemoveFiles), t # <<>>
  PROVE  Cleans(t)
<1> DEFINE P == RemoveFiles
<1>1. /\ P \in Seq(Stages) /\ Len(P) = 4
      /\ P[1] = "remove_temporary" /\ P[2] = "check_published" /\ P[3] = "unlink_published"
      /\ P[4] = "fail"
  BY DEF RemoveFiles, Stages, Cleaning
<1>2. IsSuffix(t, P) /\ t # <<>> OBVIOUS
<1> HIDE DEF P
<1>3. \A i \in 1 .. 4 : i = 1 \/ i = 2 \/ i = 3 \/ i = 4 OBVIOUS
<1>4. IsOnce(P)
  <2>1. \A i, j \in 1 .. 4 : P[i] = P[j] => i = j BY <1>1, <1>3
  <2>2. \A i \in 1 .. 4 : P[i] \in Cleaning BY <1>1, <1>3 DEF Cleaning
  <2>3. Range(P) \subseteq Cleaning BY <1>1, <2>2, RangeIs
  <2>4. QED BY <1>1, <2>1, <2>3 DEF IsOnce
<1>5. PICK k \in 1 .. 4 :
        /\ Head(t) = P[k] /\ (Tail(t) = <<>> <=> k = 4)
        /\ \A s : s \in Range(t) => \E i \in 1 .. 4 : P[i] = s
        /\ Range(Tail(t)) \subseteq Range(t)
        /\ \A i \in 1 .. 4 :
             /\ P[i] \in Range(t) <=> k <= i
             /\ P[i] \in Range(Tail(t)) <=> k < i
  <2>1. \E j \in 1 .. Len(P) :
           /\ Head(t) = P[j] /\ (Tail(t) = <<>> <=> j = Len(P))
           /\ \A s : s \in Range(t) => \E i \in 1 .. Len(P) : P[i] = s
           /\ Range(Tail(t)) \subseteq Range(t)
           /\ \A i \in 1 .. Len(P) :
                /\ P[i] \in Range(t) <=> j <= i
                /\ P[i] \in Range(Tail(t)) <=> j < i
    BY <1>2, <1>4, PlaceOnce
  <2>2. Len(P) = 4 BY <1>1
  <2>3. QED BY ONLY <2>1, <2>2
<1>6. ASSUME Tail(t) # <<>>
      PROVE  /\ k < 4 /\ (Tail(Tail(t)) = <<>> <=> k + 1 = 4)
             /\ Range(Tail(Tail(t))) \subseteq Range(Tail(t))
             /\ \A i \in 1 .. 4 : P[i] \in Range(Tail(Tail(t))) <=> k + 1 < i
  <2>1. Len(P) = 4 BY <1>1
  <2>2. /\ k \in 1 .. Len(P) /\ Head(t) = P[k] /\ (Tail(t) = <<>> <=> k = Len(P))
        /\ \A i \in 1 .. Len(P) : P[i] \in Range(Tail(t)) <=> k < i
    BY <1>5, <2>1
  <2>3. /\ k < Len(P) /\ (Tail(Tail(t)) = <<>> <=> k + 1 = Len(P))
        /\ Range(Tail(Tail(t))) \subseteq Range(Tail(t))
        /\ \A i \in 1 .. Len(P) : P[i] \in Range(Tail(Tail(t))) <=> k + 1 < i
    BY ONLY <1>2, <1>4, <1>6, <2>2, PlaceTwice
  <2>4. QED BY <2>1, <2>3
<1>7. \A s : s \in Range(t) => s = P[1] \/ s = P[2] \/ s = P[3] \/ s = P[4]
  BY <1>3, <1>5
<1>8. Range(t) \subseteq Cleaning BY <1>1, <1>7 DEF Cleaning
<1>9. Range(Tail(t)) = Range(t) \ {Head(t)}
  <2>1. \A i \in 1 .. 4 : P[i] \in Range(Tail(t)) <=> P[i] \in Range(t) /\ P[i] # P[k]
    BY <1>4, <1>1, <1>5 DEF IsOnce
  <2>2. \A s : s \in Range(Tail(t)) <=> s \in Range(t) /\ s # Head(t) BY <1>5, <2>1
  <2>3. QED BY <2>2
<1>10. ASSUME Head(t) \in {"check_published", "check_directory"}
       PROVE  /\ Tail(t) # <<>> /\ Tail(Tail(t)) # <<>>
              /\ Range(Tail(Tail(t))) =
                   Range(t) \ {Head(t), Guarded(Head(t))}
  <2>1. k = 2 /\ Head(t) = P[2] BY <1>1, <1>3, <1>5, <1>10
  <2>2. Tail(t) # <<>> BY <1>5, <2>1
  <2>3. Tail(Tail(t)) # <<>> BY <1>6, <2>1, <2>2
  <2>4. ASSUME NEW s
        PROVE  s \in Range(Tail(Tail(t))) <=>
                 s \in Range(t) /\ s # Head(t) /\ s # Guarded(Head(t))
    <3>1. Range(Tail(Tail(t))) \subseteq Range(t) BY <1>5, <1>6, <2>2
    <3>2. CASE s \notin Range(t) BY <3>1, <3>2
    <3>3. CASE s \in Range(t)
      <4>1. PICK i \in 1 .. 4 : P[i] = s BY <1>5, <3>3
      <4>2. s \in Range(Tail(Tail(t))) <=> k + 1 < i BY <1>6, <2>2, <4>1
      <4>3. s \in Range(t) <=> k <= i BY <1>5, <4>1
      <4>4. s = P[k] <=> i = k BY <1>1, <1>4, <4>1 DEF IsOnce
      <4>5. s = P[k + 1] <=> i = k + 1 BY <1>1, <1>4, <2>1, <4>1 DEF IsOnce
      <4>6. P[k + 1] = Guarded(Head(t)) BY <1>1, <2>1 DEF Guarded
      <4>7. QED BY <1>5, <4>2, <4>3, <4>4, <4>5, <4>6
    <3>4. QED BY <3>2, <3>3
  <2>5. QED BY <2>2, <2>3, <2>4
<1>11. /\ "fail" \in Range(t) /\ Head(t) \in Range(t) /\ (Head(t) = "fail" <=> Tail(t) = <<>>)
       /\ Head(t) # "remove_temporary" => "remove_temporary" \notin Range(t)
       /\ Head(t) \in {"check_directory", "rmdir", "fail"} => "unlink_published" \notin Range(t)
       /\ Head(t) = "fail" => "rmdir" \notin Range(t)
       /\ "check_published" \in Range(t) => "unlink_published" \in Range(t)
       /\ "check_directory" \in Range(t) => "rmdir" \in Range(t)
       /\ Head(t) = "unlink_published" => "check_published" \notin Range(t)
       /\ Head(t) = "rmdir" => "check_directory" \notin Range(t)
  <2>1. /\ "remove_temporary" \in Range(t) <=> k <= 1
        /\ "check_published" \in Range(t) <=> k <= 2
        /\ "unlink_published" \in Range(t) <=> k <= 3
        /\ "fail" \in Range(t) <=> k <= 4
        /\ "check_directory" \notin Range(t) /\ "rmdir" \notin Range(t)
    BY <1>1, <1>5, <1>7
  <2>2. k = 1 \/ k = 2 \/ k = 3 \/ k = 4 BY <1>3
  <2>3. QED BY <1>1, <1>5, <2>1, <2>2
<1>12. Tidy(Head(t), Range(t)) BY <1>8, <1>11 DEF Tidy
<1>13. QED BY <1>9, <1>10, <1>11, <1>12 DEF Cleans


----------------------------------------------------------------------------
(* Where a call stands.                                                    *)

Working(p) == "done" \in Rest(p)
Past(p, s) == Working(p) /\ s \notin Rest(p)
Unwinding(p) == "fail" \in Rest(p) \/ answer[p] = "failed"

Under ==
  /\ version \in Assignments
  /\ todo \in [Replayers -> Seq(Stages)] /\ \A p \in Replayers : Controlled(p)

(* The types.                                                              *)
Disks ==
  /\ dir \in Dirs \cup {None} /\ inside \in [Dirs -> [Names -> Files \cup {None}]]
  /\ content \in [Files -> {"empty", "bundle", "other", "foreign"}]
  /\ source \in {"bundle", "other", "broken"}
Locals ==
  /\ answer \in [Replayers -> {None, "equivalent", "failed", "aborted", "crashed"}]
  /\ created \in [Replayers -> BOOLEAN] /\ descriptor \in [Replayers -> BOOLEAN]
  /\ identity \in [Replayers -> Dirs \cup {None}] /\ database \in [Replayers -> Files \cup {None}]
  /\ staged \in [Replayers -> BOOLEAN] /\ verified \in [Replayers -> {None, "bundle", "other"}]
Bounded == faults \in 0 .. MaxFaults /\ edits \in 0 .. MaxTrouble

(* What a call knows when it comes to a stage.                             *)
Knows(p) ==
  /\ answer[p] = None <=> Rest(p) # {}
  /\ "look" \in Rest(p) => ~created[p]
  /\ "identify" \in Rest(p) => identity[p] = None
  /\ Past(p, "identify") => identity[p] # None
  /\ "mkstemp" \in Rest(p) => database[p] = None
  /\ Past(p, "mkstemp") => database[p] = p
  /\ database[p] \in {None, p}
  /\ Past(p, "verify") => verified[p] # None
  /\ "remove_temporary" \in Rest(p) \/ "unlink_published" \in Rest(p) => database[p] = p
  /\ "rmdir" \in Rest(p) => created[p] /\ identity[p] # None

Typed == Under /\ Disks /\ Locals /\ Bounded /\ \A p \in Replayers : Knows(p)

(* Whatever is edited, a temporary name refers to what its call made, or   *)
(* to what was put there since; and the file that a call made holds what   *)
(* it filled in, once it fills or publishes what it made.                  *)
Unborn(p) == dir # p /\ inside[p] = Vacant /\ \A q \in Replayers : identity[q] # p
Unmade(p) == \A d \in Dirs : inside[d][p] = None /\ inside[d][Published] # p
Filled(p) == content[p] = verified[p]
Lost(p) == \A d \in {dir, Owner} \ {None} : inside[d][p] # p

Files1(p) ==
  /\ "look" \in Rest(p) => Unborn(p)
  /\ "mkstemp" \in Rest(p) => Unmade(p)
  /\ \A d \in Dirs : inside[d][p] \in {None, p, Owner}
  /\ Past(p, "fill") /\ "link" \in Rest(p) => Filled(p) \/ Lost(p)
  /\ (\E d \in Dirs : inside[d][Published] = p) => Filled(p) /\ "fill" \notin Rest(p)
  /\ Past(p, "same") \/ Succeeded(p) => Filled(p)

Loose ==
  /\ dir # Owner => inside[Owner] = Vacant
  /\ \A p \in Replayers : Files1(p)

(* While nobody edits: the only directory that holds anything is the       *)
(* destination, and it holds what its names say.                           *)
Holding ==
  /\ \A d \in Dirs : d # dir => inside[d] = Vacant
  /\ \A d \in Dirs, n \in Names : inside[d][n] # Owner
  /\ source = "bundle" /\ \A p \in Replayers : verified[p] \in {None, "bundle"}

Stands(p) ==
  /\ Past(p, "mkstemp") /\ "unlink" \in Rest(p) => Find(p) = p
  /\ Past(p, "unlink") => Find(p) = None
  /\ Past(p, "link") => Find(Published) = p
  /\ "link" \in Rest(p) => Find(Published) # p
  /\ Succeeded(p) => Find(Published) = p /\ Find(p) # p
  /\ database[p] = p /\ ~staged[p] => Find(p) # p
  /\ database[p] = None => Find(Published) # p /\ (Find(p) # p \/ StruckIn(p, {"mkstemp"}))

(* What a cleanup has still to remove.                                     *)
Removes(p) ==
  /\ Unwinding(p) /\ "remove_temporary" \notin Rest(p) =>
       Find(p) # p \/ StruckIn(p, Cleaning \cup {"mkstemp"})
  /\ Unwinding(p) /\ "unlink_published" \notin Rest(p) =>
       Find(Published) # p \/ StruckIn(p, Cleaning)
  /\ "unlink_published" \in Rest(p) /\ "check_published" \notin Rest(p) => Find(Published) = p

(* The directory that a call made, and those it has joined.                *)
Directory(p) ==
  /\ created[p] /\ "identify" \in Rest(p) => dir = p
  /\ created[p] /\ identity[p] # None => identity[p] = p
  /\ dir = p /\ ~created[p] => StruckIn(p, {"look"})
  /\ dir = p /\ identity[p] = None /\ "identify" \notin Rest(p) => StruckIn(p, {"look", "identify"})
  /\ Unwinding(p) /\ "rmdir" \notin Rest(p) /\ dir = p =>
       StruckIn(p, Cleaning \cup {"look", "identify", "mkstemp"}) \/ p \in joined
  /\ "rmdir" \in Rest(p) /\ "check_directory" \notin Rest(p) => dir = p
Joins(p) ==
  /\ Find(p) = p \/ Find(Published) = p => identity[p] = dir \/ dir \in joined
  /\ \A q \in Replayers : q # p /\ identity[p] = identity[q] /\ identity[p] # None =>
       identity[p] \in joined

Tight ==
  Holding /\ \A p \in Replayers : Stands(p) /\ Removes(p) /\ Directory(p) /\ Joins(p)

(* While nothing goes wrong: who has failed has met another that goes on.  *)
GoesOn(p) == Past(p, "mkstemp") \/ Succeeded(p)
Calm ==
  /\ \A p \in Replayers : identity[p] \in {None, dir} /\ (Past(p, "look") => There)
  /\ (\E p \in Replayers : ~Working(p) /\ ~Succeeded(p)) => \E q \in Replayers : GoesOn(q)
  /\ \A p \in Replayers : Find(Published) = p => Working(p) \/ Succeeded(p)
Crowded == joined # {} /\ \E p \in Replayers : version[p] = "v3"

Fair == struck = {} => Calm \/ Crowded

----------------------------------------------------------------------------
(* Control.                                                                *)

LEMMA Identities ==
  /\ \A p \in Replayers : /\ p \in Names /\ p \in Dirs /\ p \in Files
                          /\ p # Owner /\ p # Published /\ p # None /\ p # "given" /\ p # "other"
  /\ Owner \in Dirs /\ Owner \in Files /\ "given" \in Dirs /\ Published \in Names
  /\ None \notin Dirs /\ None \notin Files /\ Owner # None
  /\ \A n \in Names : n = Published \/ n \in Replayers
  /\ \A f \in Files : f = Owner \/ f \in Replayers
BY ReplayAssumption DEF Names, Dirs, Files, Owner, Published

LEMMA RestEmpty ==
  ASSUME Under, NEW p \in Replayers
  PROVE  todo[p] = <<>> <=> Rest(p) = {}
BY RangeIs DEF Under, Rest

LEMMA Here ==
  ASSUME Under, NEW p \in Replayers, todo[p] # <<>>
  PROVE  Works(todo[p]) \/ Cleans(todo[p])
<1>1. PICK m : Laid(Program(p), m) BY ProgramWorks DEF Under
<1>2. CASE IsSuffix(todo[p], Program(p)) BY <1>1, <1>2, WorksOn
<1>3. CASE IsSuffix(todo[p], RemoveAll) BY <1>3, RemoveAllCleans
<1>4. CASE IsSuffix(todo[p], RemoveFiles) BY <1>4, RemoveFilesCleans
<1>5. QED BY <1>2, <1>3, <1>4 DEF Under, Controlled

LEMMA HeadRemains ==
  ASSUME Under, NEW p \in Replayers, todo[p] # <<>>
  PROVE  Head(todo[p]) \in Rest(p)
<1>1. todo[p] \in Seq(Stages) BY DEF Under
<1>2. Head(todo[p]) = todo[p][1] /\ Len(todo[p]) \in Nat \ {0} BY <1>1, TailOf
<1>3. 1 \in 1 .. Len(todo[p]) BY <1>2
<1>4. QED BY <1>1, <1>2, <1>3, RangeIs DEF Rest

(* What a call has left changes in one of four ways.                       *)
Elsewhere(p) == \A q \in Replayers : q # p => Rest(q)' = Rest(q)

LEMMA ProgramStays ==
  ASSUME version' = version, NEW p
  PROVE  Program(p)' = Program(p)
BY DEF Program

LEMMA UnderAgain ==
  ASSUME Under, version' = version, NEW p \in Replayers, NEW t \in Seq(Stages),
         todo' = [todo EXCEPT ![p] = t],
         IsSuffix(t, Program(p)) \/ IsSuffix(t, RemoveAll) \/ IsSuffix(t, RemoveFiles)
  PROVE  Under' /\ Elsewhere(p) /\ Rest(p)' = Range(t)
<1>1. /\ todo \in [Replayers -> Seq(Stages)] /\ version \in Assignments
      /\ \A q \in Replayers : Controlled(q)
  BY DEF Under
<1>2. todo' \in [Replayers -> Seq(Stages)] /\ todo'[p] = t BY <1>1
<1>3. ASSUME NEW q \in Replayers PROVE Controlled(q)'
  <2>1. CASE q = p BY <1>2, <2>1, ProgramStays DEF Controlled
  <2>2. CASE q # p
    <3>1. todo'[q] = todo[q] BY <1>1, <2>2
    <3>2. QED BY <1>1, <3>1, ProgramStays DEF Controlled
  <2>3. QED BY <2>1, <2>2
<1>4. Elsewhere(p)
  <2> SUFFICES ASSUME NEW q \in Replayers, q # p PROVE Rest(q)' = Rest(q) BY DEF Elsewhere
  <2>1. todo'[q] = todo[q] BY <1>1
  <2>2. QED BY <2>1 DEF Rest
<1>5. QED BY <1>1, <1>2, <1>3, <1>4 DEF Under, Rest

LEMMA Advancing ==
  ASSUME Under, version' = version, NEW p \in Replayers, todo[p] # <<>>, Advance(p)
  PROVE  Under' /\ Elsewhere(p) /\ Rest(p)' = Range(Tail(todo[p]))
<1>1. todo[p] \in Seq(Stages) /\ todo \in [Replayers -> Seq(Stages)] /\ Controlled(p) BY DEF Under
<1>2. PICK t : t = Tail(todo[p]) OBVIOUS
<1>3. t \in Seq(Stages) BY <1>1, <1>2, TailOf
<1>4. todo' = [todo EXCEPT ![p] = t] BY <1>1, <1>2 DEF Advance
<1>5. IsSuffix(t, Program(p)) \/ IsSuffix(t, RemoveAll) \/ IsSuffix(t, RemoveFiles)
  BY <1>1, <1>2, TailIsSuffix DEF Controlled
<1>6. QED BY <1>2, <1>3, <1>4, <1>5, UnderAgain

LEMMA Skipping ==
  ASSUME Under, version' = version, NEW p \in Replayers, todo[p] # <<>>, Tail(todo[p]) # <<>>,
         todo' = [todo EXCEPT ![p] = Tail(Tail(@))]
  PROVE  Under' /\ Elsewhere(p) /\ Rest(p)' = Range(Tail(Tail(todo[p])))
<1>1. todo[p] \in Seq(Stages) /\ todo \in [Replayers -> Seq(Stages)] /\ Controlled(p) BY DEF Under
<1>2. PICK t : t = Tail(todo[p]) OBVIOUS
<1>3. PICK u : u = Tail(t) OBVIOUS
<1>4. t \in Seq(Stages) BY <1>1, <1>2, TailOf
<1>5. u \in Seq(Stages) BY <1>2, <1>3, <1>4, TailOf
<1>6. todo' = [todo EXCEPT ![p] = u] BY <1>1, <1>2, <1>3
<1>7. IsSuffix(t, Program(p)) \/ IsSuffix(t, RemoveAll) \/ IsSuffix(t, RemoveFiles)
  BY <1>1, <1>2, TailIsSuffix DEF Controlled
<1>8. IsSuffix(u, Program(p)) \/ IsSuffix(u, RemoveAll) \/ IsSuffix(u, RemoveFiles)
  BY <1>2, <1>3, <1>7, TailIsSuffix
<1>9. QED BY <1>2, <1>3, <1>5, <1>6, <1>8, UnderAgain

LEMMA Ending ==
  ASSUME Under, version' = version, NEW p \in Replayers, todo' = [todo EXCEPT ![p] = <<>>]
  PROVE  Under' /\ Elsewhere(p) /\ Rest(p)' = {}
<1>1. PICK t \in Seq(Stages) : t = <<>>
  <2>1. <<>> \in Seq(Stages) BY EmptySeq
  <2>2. QED BY <2>1
<1>2. RemoveAll \in Seq(Stages) /\ Len(RemoveAll) = 6 BY DEF RemoveAll, Stages, Cleaning
<1>3. Len(t) = 0 BY <1>1
<1>4. IsSuffix(t, RemoveAll) BY <1>2, <1>3 DEF IsSuffix
<1>5. Range(t) = {} BY <1>1, RangeIs
<1>6. QED BY <1>1, <1>4, <1>5, UnderAgain

Remaining(p) ==
  {"fail"} \cup (IF database[p] = None THEN {} ELSE {"check_published", "unlink_published"})
  \cup (IF database[p] # None /\ staged[p] THEN {"remove_temporary"} ELSE {})
  \cup (IF created[p] /\ identity[p] # None THEN {"check_directory", "rmdir"} ELSE {})

LEMMA CleanupIs ==
  ASSUME NEW p \in Replayers
  PROVE  /\ Cleanup(p) \in Seq(Stages) /\ Range(Cleanup(p)) = Remaining(p)
         /\ IsSuffix(Cleanup(p), RemoveAll) \/ IsSuffix(Cleanup(p), RemoveFiles)
<1>1. /\ RemoveAll \in Seq(Stages) /\ Len(RemoveAll) = 6
      /\ RemoveAll[1] = "remove_temporary" /\ RemoveAll[2] = "check_published"
      /\ RemoveAll[3] = "unlink_published" /\ RemoveAll[4] = "check_directory"
      /\ RemoveAll[5] = "rmdir" /\ RemoveAll[6] = "fail"
  BY DEF RemoveAll, Stages, Cleaning
<1>2. /\ RemoveFiles \in Seq(Stages) /\ Len(RemoveFiles) = 4
      /\ RemoveFiles[1] = "remove_temporary" /\ RemoveFiles[2] = "check_published"
      /\ RemoveFiles[3] = "unlink_published" /\ RemoveFiles[4] = "fail"
  BY DEF RemoveFiles, Stages, Cleaning
<1> DEFINE d == created[p] /\ identity[p] # None
           t == Cleanup(p)
<1>3. CASE database[p] = None /\ ~d
  <2>1. t = <<>> \o <<>> \o <<"fail">> BY <1>3 DEF Cleanup
  <2>2. t \in Seq(Stages) /\ Len(t) = 1 /\ t[1] = "fail" BY <2>1 DEF Stages, Cleaning
  <2> HIDE DEF t
  <2>3. IsSuffix(t, RemoveFiles) BY <1>2, <2>2 DEF IsSuffix
  <2>4. \A s : s \in Range(t) <=> s = "fail"
    <3>1. \A s : s \in Range(t) <=> \E i \in 1 .. 1 : t[i] = s BY <2>2, RangeIs
    <3>2. QED BY <2>2, <3>1
  <2>5. Range(t) = Remaining(p) BY <1>3, <2>4 DEF Remaining
  <2>6. QED BY <2>2, <2>3, <2>5 DEF t
<1>4. CASE database[p] = None /\ d
  <2>1. t = <<>> \o <<"check_directory", "rmdir">> \o <<"fail">> BY <1>4 DEF Cleanup
  <2>2. /\ t \in Seq(Stages) /\ Len(t) = 3
        /\ t[1] = "check_directory" /\ t[2] = "rmdir" /\ t[3] = "fail"
    BY <2>1 DEF Stages, Cleaning
  <2> HIDE DEF t
  <2>3. IsSuffix(t, RemoveAll) BY <1>1, <2>2 DEF IsSuffix
  <2>4. \A s : s \in Range(t) <=> s \in {"check_directory", "rmdir", "fail"}
    <3>1. \A s : s \in Range(t) <=> \E i \in 1 .. 3 : t[i] = s BY <2>2, RangeIs
    <3>2. QED BY <2>2, <3>1
  <2>5. Range(t) = Remaining(p) BY <1>4, <2>4 DEF Remaining
  <2>6. QED BY <2>2, <2>3, <2>5 DEF t
<1>5. CASE database[p] # None /\ ~staged[p] /\ ~d
  <2>1. t = <<>> \o <<"check_published", "unlink_published">> \o <<>> \o <<"fail">>
    BY <1>5 DEF Cleanup
  <2>2. /\ t \in Seq(Stages) /\ Len(t) = 3
        /\ t[1] = "check_published" /\ t[2] = "unlink_published" /\ t[3] = "fail"
    BY <2>1 DEF Stages, Cleaning
  <2> HIDE DEF t
  <2>3. IsSuffix(t, RemoveFiles) BY <1>2, <2>2 DEF IsSuffix
  <2>4. \A s : s \in Range(t) <=> s \in {"check_published", "unlink_published", "fail"}
    <3>1. \A s : s \in Range(t) <=> \E i \in 1 .. 3 : t[i] = s BY <2>2, RangeIs
    <3>2. QED BY <2>2, <3>1
  <2>5. Range(t) = Remaining(p) BY <1>5, <2>4 DEF Remaining
  <2>6. QED BY <2>2, <2>3, <2>5 DEF t
<1>6. CASE database[p] # None /\ staged[p] /\ ~d
  <2>1. t = <<"remove_temporary">> \o <<"check_published", "unlink_published">> \o <<>> \o <<"fail">>
    BY <1>6 DEF Cleanup
  <2>2. /\ t \in Seq(Stages) /\ Len(t) = 4 /\ t[1] = "remove_temporary"
        /\ t[2] = "check_published" /\ t[3] = "unlink_published" /\ t[4] = "fail"
    BY <2>1 DEF Stages, Cleaning
  <2> HIDE DEF t
  <2>3. IsSuffix(t, RemoveFiles) BY <1>2, <2>2 DEF IsSuffix
  <2>4. \A s : s \in Range(t) <=> s \in {"remove_temporary", "check_published", "unlink_published", "fail"}
    <3>1. \A s : s \in Range(t) <=> \E i \in 1 .. 4 : t[i] = s BY <2>2, RangeIs
    <3>2. QED BY <2>2, <3>1
  <2>5. Range(t) = Remaining(p) BY <1>6, <2>4 DEF Remaining
  <2>6. QED BY <2>2, <2>3, <2>5 DEF t
<1>7. CASE database[p] # None /\ ~staged[p] /\ d
  <2>1. t = <<>> \o <<"check_published", "unlink_published">> \o <<"check_directory", "rmdir">>
            \o <<"fail">>
    BY <1>7 DEF Cleanup
  <2>2. /\ t \in Seq(Stages) /\ Len(t) = 5
        /\ t[1] = "check_published" /\ t[2] = "unlink_published"
        /\ t[3] = "check_directory" /\ t[4] = "rmdir" /\ t[5] = "fail"
    BY <2>1 DEF Stages, Cleaning
  <2> HIDE DEF t
  <2>3. IsSuffix(t, RemoveAll) BY <1>1, <2>2 DEF IsSuffix
  <2>4. \A s : s \in Range(t) <=>
                 s \in {"check_published", "unlink_published", "check_directory", "rmdir", "fail"}
    <3>1. \A s : s \in Range(t) <=> \E i \in 1 .. 5 : t[i] = s BY <2>2, RangeIs
    <3>2. QED BY <2>2, <3>1
  <2>5. Range(t) = Remaining(p) BY <1>7, <2>4 DEF Remaining
  <2>6. QED BY <2>2, <2>3, <2>5 DEF t
<1>8. CASE database[p] # None /\ staged[p] /\ d
  <2>1. t = <<"remove_temporary">> \o <<"check_published", "unlink_published">>
            \o <<"check_directory", "rmdir">> \o <<"fail">>
    BY <1>8 DEF Cleanup
  <2>2. /\ t \in Seq(Stages) /\ Len(t) = 6 /\ t[1] = "remove_temporary"
        /\ t[2] = "check_published" /\ t[3] = "unlink_published"
        /\ t[4] = "check_directory" /\ t[5] = "rmdir" /\ t[6] = "fail"
    BY <2>1 DEF Stages, Cleaning
  <2> HIDE DEF t
  <2>3. IsSuffix(t, RemoveAll) BY <1>1, <2>2 DEF IsSuffix
  <2>4. \A s : s \in Range(t) <=> s \in {"remove_temporary", "check_published", "unlink_published",
                                         "check_directory", "rmdir", "fail"}
    <3>1. \A s : s \in Range(t) <=> \E i \in 1 .. 6 : t[i] = s BY <2>2, RangeIs
    <3>2. QED BY <2>2, <3>1
  <2>5. Range(t) = Remaining(p) BY <1>8, <2>4 DEF Remaining
  <2>6. QED BY <2>2, <2>3, <2>5 DEF t
<1>9. QED BY <1>3, <1>4, <1>5, <1>6, <1>7, <1>8

LEMMA Raising ==
  ASSUME Under, version' = version, NEW p \in Replayers, Raise(p)
  PROVE  Under' /\ Elsewhere(p) /\ Rest(p)' = Remaining(p)
<1>1. PICK t : t = Cleanup(p) OBVIOUS
<1>2. t \in Seq(Stages) /\ (IsSuffix(t, RemoveAll) \/ IsSuffix(t, RemoveFiles)) /\ Range(t) = Remaining(p)
  BY <1>1, CleanupIs
<1>3. todo' = [todo EXCEPT ![p] = t] BY <1>1 DEF Raise
<1>4. QED BY <1>2, <1>3, UnderAgain

----------------------------------------------------------------------------
(* The shapes of a step.                                                   *)

Still == UNCHANGED <<dir, inside, content>>
Unmarked == UNCHANGED <<created, identity, database, staged, verified>>
Strikes(p, s) == struck' = struck \cup {<<p, s>>}

(* At a stage of its program a call goes on, or it falls back to cleaning. *)
Works1(p, s) ==
  /\ At(p, s) /\ s \notin Cleaning /\ Working(p) /\ Rest(p) \cap Cleaning = {}
  /\ Ordered(Rest(p)) /\ Placed(s, Rest(p)) /\ Elsewhere(p)
Goes(p, s) ==
  /\ Works1(p, s) /\ UNCHANGED struck
  /\ \A m \in Milestones : m \in Rest(p)' <=> m \in Rest(p) /\ m # s
  /\ Rest(p)' \cap Cleaning = {} /\ (s = "done" <=> Rest(p)' = {})
Raised(p, s) == Works1(p, s) /\ Rest(p)' = Remaining(p)

Plain == {"look", "guard", "require", "owned", "owned_published", "reopen", "same", "reread",
          "verify_again", "close", "single", "alone"}

Passes(p, s) ==
  /\ Goes(p, s) /\ s \in Plain /\ Still /\ Unmarked /\ UNCHANGED <<answer, joined>>
  /\ s = "look" => There
  /\ s = "same" => Find(Published) = database[p]

(* Why a call falls back.                                                  *)
Reason(p, s) ==
  /\ s \notin {"close", "done"}
  /\ s = "verify" => source = "broken"
  /\ s = "look" => There /\ ~IsEmpty(dir)
  /\ s \in {"guard", "require"} => dir # identity[p]
  /\ s \in {"identify", "mkstemp", "fill"} => ~There
  /\ s = "owned" => Find(p) # database[p]
  /\ s \in {"owned_published", "same"} => Find(Published) # database[p]
  /\ s = "reopen" => ~Holds(p, p)
  /\ s = "reread" => ~Holds(Published, p)
  /\ s = "verify_again" => source # verified[p]
  /\ s = "link" => Find(p) = None \/ Find(Published) # None
  /\ s = "unlink" => Find(p) # database[p]
  /\ s = "vacant" => Find(p) # None
  /\ s = "single" => ~SingleLink(p)
  /\ s = "alone" => \/ dir # identity[p] \/ ~SingleLink(p)
                    \/ \E n \in Names \ {Published} : Find(n) # None
Falls(p, s) ==
  /\ Raised(p, s) /\ Still /\ Unmarked /\ UNCHANGED <<answer, joined>>
  /\ (UNCHANGED struck /\ Reason(p, s)) \/ Strikes(p, s)

Verifies(p) ==
  /\ Goes(p, "verify") /\ source # "broken" /\ verified' = [verified EXCEPT ![p] = source]
  /\ Still /\ UNCHANGED <<created, identity, database, staged, answer, joined>>
Enters(p) ==
  /\ Goes(p, "look") /\ dir = None /\ dir' = p /\ created' = [created EXCEPT ![p] = TRUE]
  /\ UNCHANGED <<inside, content, identity, database, staged, verified, answer, joined>>
Identifies(p) ==
  /\ Goes(p, "identify") /\ There /\ identity' = [identity EXCEPT ![p] = dir]
  /\ joined' = IF \E q \in Replayers \ {p} : identity[q] = dir THEN joined \cup {dir} ELSE joined
  /\ Still /\ UNCHANGED <<created, database, staged, verified, answer>>
Makes(p) ==
  /\ Goes(p, "mkstemp") /\ There /\ Put(p, p) /\ EnterByPath(p)
  /\ staged' = [staged EXCEPT ![p] = TRUE] /\ database' = [database EXCEPT ![p] = p]
  /\ UNCHANGED <<dir, content, created, identity, verified, answer>>
Fills(p) ==
  /\ Goes(p, "fill") /\ There
  /\ \E f \in {p, Owner} :
       /\ Find(p) = p => f = p
       /\ f = p => Find(p) = p
       /\ Put(p, f) /\ content' = [content EXCEPT ![f] = verified[p]]
       /\ Find(p) \in {None, f}
  /\ UNCHANGED dir /\ Unmarked /\ UNCHANGED <<answer, joined>>
Publishes(p) ==
  /\ Goes(p, "link") /\ There /\ Find(p) # None /\ Find(Published) = None /\ Put(Published, Find(p))
  /\ UNCHANGED <<dir, content>> /\ Unmarked /\ UNCHANGED <<answer, joined>>
Unlinks(p) ==
  /\ Goes(p, "unlink") /\ There /\ Find(p) = p /\ Put(p, None)
  /\ staged' \in [Replayers -> BOOLEAN] /\ \A q \in Replayers \ {p} : staged'[q] = staged[q]
  /\ UNCHANGED <<dir, content, created, identity, database, verified, answer, joined>>
Vacates(p) ==
  /\ Goes(p, "vacant") /\ Find(p) = None /\ staged' = [staged EXCEPT ![p] = FALSE]
  /\ Still /\ UNCHANGED <<created, identity, database, verified, answer, joined>>
Finishes(p) ==
  /\ Goes(p, "done") /\ answer' = [answer EXCEPT ![p] = "equivalent"]
  /\ Still /\ Unmarked /\ UNCHANGED joined

(* In its cleanup.                                                         *)
Tidies(p, s) ==
  /\ At(p, s) /\ Tidy(s, Rest(p)) /\ Rest(p)' = Rest(p) \ {s} /\ (s = "fail" <=> Rest(p)' = {})
  /\ Elsewhere(p)
Unneeded(p, s) ==
  /\ s = "remove_temporary" => Find(p) # database[p]
  /\ s = "check_published" => Find(Published) = database[p]
  /\ s = "unlink_published" => ~There
  /\ s = "check_directory" => dir = identity[p]
  /\ s = "rmdir" => ~There \/ ~IsEmpty(dir)
Clears(p, s) ==
  /\ Tidies(p, s) /\ s # "fail" /\ Still /\ Unmarked /\ UNCHANGED <<answer, joined>>
  /\ \/ UNCHANGED struck /\ Unneeded(p, s)
     \/ Strikes(p, s) /\ s \in {"remove_temporary", "unlink_published", "rmdir"}
Skips(p, s) ==
  /\ At(p, s) /\ Tidy(s, Rest(p)) /\ Rest(p)' = Rest(p) \ {s, Guarded(s)} /\ Rest(p)' # {}
  /\ Elsewhere(p)
  /\ \/ s = "check_published" /\ Find(Published) # database[p]
     \/ s = "check_directory" /\ dir # identity[p]
  /\ Still /\ Unmarked /\ UNCHANGED <<answer, joined, struck>>
TakesBack(p) ==
  /\ Tidies(p, "remove_temporary") /\ There /\ Find(p) = p /\ Put(p, None)
  /\ UNCHANGED <<dir, content>> /\ Unmarked /\ UNCHANGED <<answer, joined, struck>>
Withdraws(p) ==
  /\ Tidies(p, "unlink_published") /\ There /\ Put(Published, None)
  /\ UNCHANGED <<dir, content>> /\ Unmarked /\ UNCHANGED <<answer, joined, struck>>
Leaves(p) ==
  /\ Tidies(p, "rmdir") /\ There /\ IsEmpty(dir) /\ dir' = None
  /\ UNCHANGED <<inside, content>> /\ Unmarked /\ UNCHANGED <<answer, joined, struck>>
GivesUp(p) ==
  /\ Tidies(p, "fail") /\ answer' = [answer EXCEPT ![p] = "failed"]
  /\ Still /\ Unmarked /\ UNCHANGED <<joined, struck>>
Halts(p) ==
  /\ \E s \in Rest(p) : At(p, s) /\ Strikes(p, s)
  /\ Rest(p)' = {} /\ Elsewhere(p)
  /\ \E a \in {"aborted", "crashed"} : answer' = [answer EXCEPT ![p] = a]
  /\ Still /\ Unmarked /\ UNCHANGED joined

(* A fault after the effect.                                               *)
EntersUnknown(p) ==
  /\ Raised(p, "look") /\ Strikes(p, "look") /\ dir = None /\ dir' = p
  /\ UNCHANGED <<inside, content>> /\ Unmarked /\ UNCHANGED <<answer, joined>>
MakesUnknown(p) ==
  /\ Raised(p, "mkstemp") /\ Strikes(p, "mkstemp") /\ There /\ Put(p, p) /\ EnterByPath(p)
  /\ UNCHANGED <<dir, content>> /\ Unmarked /\ UNCHANGED answer
PublishesUnknown(p) ==
  /\ Raised(p, "link") /\ Strikes(p, "link") /\ There /\ Find(p) # None /\ Find(Published) = None
  /\ Put(Published, Find(p))
  /\ UNCHANGED <<dir, content>> /\ Unmarked /\ UNCHANGED <<answer, joined>>
UnlinksUnknown(p) ==
  /\ Raised(p, "unlink") /\ Strikes(p, "unlink") /\ There /\ Find(p) = p /\ Put(p, None)
  /\ UNCHANGED <<dir, content>> /\ Unmarked /\ UNCHANGED <<answer, joined>>

Acts(p) ==
  /\ \/ \E s \in Stages : Passes(p, s) \/ Falls(p, s) \/ Clears(p, s) \/ Skips(p, s)
     \/ Verifies(p) \/ Enters(p) \/ Identifies(p) \/ Makes(p) \/ Fills(p) \/ Publishes(p)
     \/ Unlinks(p) \/ Vacates(p) \/ Finishes(p)
     \/ TakesBack(p) \/ Withdraws(p) \/ Leaves(p) \/ GivesUp(p) \/ Halts(p)
     \/ EntersUnknown(p) \/ MakesUnknown(p) \/ PublishesUnknown(p) \/ UnlinksUnknown(p)
  /\ UNCHANGED <<source, edits>>

LEMMA GoingOn ==
  ASSUME Under, version' = version, NEW p \in Replayers, NEW s, s \notin Cleaning, At(p, s)
  PROVE  /\ s \in Stages
         /\ Advance(p) /\ UNCHANGED struck => Goes(p, s) /\ Under'
         /\ Raise(p) => Raised(p, s) /\ Under'
<1>1. todo[p] # <<>> /\ Head(todo[p]) = s BY DEF At
<1>2. todo[p] \in Seq(Stages) BY DEF Under
<1>3. s \in Stages BY <1>1, <1>2, TailOf
<1>4. Works(todo[p])
  <2>1. s \in Rest(p) BY <1>1, HeadRemains
  <2>2. Cleans(todo[p]) => s \in Cleaning BY <1>1, <2>1 DEF Cleans, Tidy, Rest
  <2>3. QED BY <1>1, <2>2, Here
<1>5. ASSUME Elsewhere(p) PROVE Works1(p, s)
  BY <1>1, <1>4, <1>5 DEF Works1, Works, Working, Rest
<1>6. ASSUME Advance(p), UNCHANGED struck PROVE Goes(p, s) /\ Under'
  <2>1. Under' /\ Elsewhere(p) /\ Rest(p)' = Range(Tail(todo[p])) BY <1>1, <1>6, Advancing
  <2>2. Tail(todo[p]) \in Seq(Stages) BY <1>1, <1>2, TailOf
  <2>3. Tail(todo[p]) = <<>> <=> Range(Tail(todo[p])) = {} BY <2>2, RangeIs
  <2>4. Rest(p)' \cap Cleaning = {} BY <1>4, <2>1, <2>3 DEF Works
  <2>5. s = "done" <=> Rest(p)' = {} BY <1>1, <1>4, <2>1, <2>3 DEF Works
  <2>6. \A m \in Milestones : m \in Rest(p)' <=> m \in Rest(p) /\ m # s
    BY <1>1, <1>4, <2>1 DEF Works, Rest
  <2>7. QED BY <1>5, <1>6, <2>1, <2>4, <2>5, <2>6 DEF Goes
<1>7. ASSUME Raise(p) PROVE Raised(p, s) /\ Under'
  <2>1. Under' /\ Elsewhere(p) /\ Rest(p)' = Remaining(p) BY <1>7, Raising
  <2>2. QED BY <1>5, <2>1 DEF Raised
<1>8. QED BY <1>3, <1>6, <1>7

LEMMA Tidying ==
  ASSUME Under, version' = version, NEW p \in Replayers, NEW s \in Cleaning, At(p, s)
  PROVE  /\ Advance(p) => Tidies(p, s) /\ Under'
         /\ Tidy(s, Rest(p))
         /\ s \in {"check_published", "check_directory"} =>
              (todo' = [todo EXCEPT ![p] = Tail(Tail(@))] =>
                 /\ Under' /\ Elsewhere(p) /\ Rest(p)' = Rest(p) \ {s, Guarded(s)} /\ Rest(p)' # {})
<1>1. todo[p] # <<>> /\ Head(todo[p]) = s BY DEF At
<1>2. todo[p] \in Seq(Stages) BY DEF Under
<1>3. Cleans(todo[p])
  <2>1. Works(todo[p]) => s \notin Cleaning BY <1>1 DEF Works
  <2>2. QED BY <1>1, <2>1, Here
<1>4. Tidy(s, Rest(p)) BY <1>1, <1>3 DEF Cleans, Rest
<1>5. PICK t : t = Tail(todo[p]) OBVIOUS
<1>6. t \in Seq(Stages) BY <1>1, <1>2, <1>5, TailOf
<1>7. ASSUME Advance(p) PROVE Tidies(p, s) /\ Under'
  <2>1. Under' /\ Elsewhere(p) /\ Rest(p)' = Range(t) BY <1>1, <1>5, <1>7, Advancing
  <2>2. Range(t) = Rest(p) \ {s} BY <1>1, <1>3, <1>5 DEF Cleans, Rest
  <2>3. s = "fail" <=> t = <<>> BY <1>1, <1>3, <1>5 DEF Cleans
  <2>4. t = <<>> <=> Range(t) = {} BY <1>6, RangeIs
  <2>5. QED BY <1>4, <2>1, <2>2, <2>3, <2>4 DEF Tidies
<1>8. ASSUME s \in {"check_published", "check_directory"}, todo' = [todo EXCEPT ![p] = Tail(Tail(@))]
      PROVE  Under' /\ Elsewhere(p) /\ Rest(p)' = Rest(p) \ {s, Guarded(s)} /\ Rest(p)' # {}
  <2>1. t # <<>> /\ Tail(t) # <<>> /\ Range(Tail(t)) = Rest(p) \ {s, Guarded(s)}
    BY <1>1, <1>3, <1>5, <1>8 DEF Cleans, Rest
  <2>2. Under' /\ Elsewhere(p) /\ Rest(p)' = Range(Tail(t)) BY <1>1, <1>5, <1>8, <2>1, Skipping
  <2>3. Tail(t) \in Seq(Stages) BY <1>6, <2>1, TailOf
  <2>4. Range(Tail(t)) # {} BY <2>1, <2>3, RangeIs
  <2>5. QED BY <2>1, <2>2, <2>4
<1>9. QED BY <1>4, <1>7, <1>8

----------------------------------------------------------------------------
(* Every step has one of these shapes.                                     *)

LEMMA Looking ==
  ASSUME Under, version' = version, NEW p \in Replayers, NEW s, s \notin Cleaning, At(p, s),
         NEW c \in BOOLEAN, Require(p, c)
  PROVE  /\ Under' /\ s \in Stages /\ Still /\ Unmarked /\ UNCHANGED <<answer, joined, struck, source, edits>>
         /\ (c /\ Goes(p, s)) \/ (~c /\ Raised(p, s))
<1>1. Still /\ Unmarked /\ UNCHANGED <<answer, joined, struck, source, edits>>
  BY DEF Require, Still, Unmarked, disk, bounds
<1>2. c => Advance(p) BY DEF Require
<1>3. ~c => Raise(p) BY DEF Require
<1>4. QED BY <1>1, <1>2, <1>3, GoingOn

LEMMA LookingStep ==
  ASSUME Typed, version' = version, NEW p \in Replayers,
         \/ Guard(p) \/ RequireDirectory(p) \/ OwnedTemporary(p) \/ OwnedPublished(p) \/ Reopen(p)
         \/ SameIdentity(p) \/ Reread(p) \/ VerifyAgain(p) \/ Single(p) \/ Alone(p)
  PROVE  Under' /\ Acts(p)
<1>1. Under BY DEF Typed
<1>2. ASSUME NEW s, NEW c \in BOOLEAN, At(p, s), Require(p, c), s \in Plain \ {"look"},
             s = "same" => (c => Find(Published) = database[p]), ~c => Reason(p, s)
      PROVE Under' /\ Acts(p)
  <2>1. s \notin Cleaning BY <1>2 DEF Plain, Cleaning
  <2>2. /\ Under' /\ s \in Stages /\ Still /\ Unmarked
        /\ UNCHANGED <<answer, joined, struck, source, edits>>
        /\ (c /\ Goes(p, s)) \/ (~c /\ Raised(p, s))
    BY <1>1, <1>2, <2>1, Looking
  <2>3. c /\ Goes(p, s) => Passes(p, s) BY <1>2, <2>2 DEF Passes
  <2>4. ~c /\ Raised(p, s) => Falls(p, s) BY <1>2, <2>2 DEF Falls
  <2>5. QED BY <2>2, <2>3, <2>4 DEF Acts
<1>3. CASE Guard(p) BY <1>2, <1>3 DEF Guard, Plain, Reason
<1>4. CASE RequireDirectory(p) BY <1>2, <1>4 DEF RequireDirectory, Plain, Reason
<1>5. CASE OwnedTemporary(p) BY <1>2, <1>5 DEF OwnedTemporary, Plain, Reason
<1>6. CASE OwnedPublished(p) BY <1>2, <1>6 DEF OwnedPublished, Plain, Reason
<1>7. CASE Reopen(p)
  <2>1. Holds(p, p) \in BOOLEAN BY DEF Holds
  <2>2. QED BY <1>2, <1>7, <2>1 DEF Reopen, Plain, Reason
<1>8. CASE SameIdentity(p) BY <1>2, <1>8 DEF SameIdentity, Plain, Reason
<1>9. CASE Reread(p)
  <2>1. Holds(Published, p) \in BOOLEAN BY DEF Holds
  <2>2. QED BY <1>2, <1>9, <2>1 DEF Reread, Plain, Reason
<1>10. CASE VerifyAgain(p) BY <1>2, <1>10 DEF VerifyAgain, Plain, Reason
<1>11. CASE Single(p)
  <2>1. SingleLink(p) \in BOOLEAN BY DEF SingleLink
  <2>2. QED BY <1>2, <1>11, <2>1 DEF Single, Plain, Reason
<1>12. CASE Alone(p)
  <2> DEFINE c == /\ dir = identity[p] /\ SingleLink(p)
                  /\ \A n \in Names \ {Published} : Find(n) = None
  <2>1. At(p, "alone") /\ Require(p, c) BY <1>12 DEF Alone
  <2>2. c \in BOOLEAN /\ (~c => Reason(p, "alone")) BY DEF SingleLink, Reason
  <2> HIDE DEF c
  <2>3. QED BY <1>2, <2>1, <2>2 DEF Plain
<1>13. QED BY <1>3, <1>4, <1>5, <1>6, <1>7, <1>8, <1>9, <1>10, <1>11, <1>12

(* A step that does something when its condition holds.                    *)
LEMMA FallingBack ==
  ASSUME Under, version' = version, NEW p \in Replayers, NEW s, s \notin Cleaning, At(p, s), Raise(p),
         Still, Unmarked, UNCHANGED <<answer, joined, source, edits>>,
         (UNCHANGED struck /\ Reason(p, s)) \/ Strikes(p, s)
  PROVE  Under' /\ Acts(p)
<1>1. s \in Stages /\ Raised(p, s) /\ Under' BY GoingOn
<1>2. Falls(p, s) BY <1>1 DEF Falls
<1>3. QED BY <1>1, <1>2 DEF Acts

LEMMA EnteringStep ==
  ASSUME Typed, version' = version, NEW p \in Replayers,
         Verify(p) \/ LookAndEnter(p) \/ Identify(p) \/ Close(p) \/ VacantAgain(p) \/ Done(p)
  PROVE  Under' /\ Acts(p)
<1>1. Under BY DEF Typed
<1>2. \A s \in Milestones \cup {"close", "vacant"} : s \notin Cleaning BY DEF Milestones, Cleaning
<1>3. CASE Verify(p)
  <2>1. At(p, "verify") /\ "verify" \notin Cleaning BY <1>2, <1>3 DEF Verify, Milestones
  <2>2. CASE source # "broken"
    <3>1. Advance(p) /\ UNCHANGED struck BY <1>3, <2>2 DEF Verify, bounds
    <3>2. Goes(p, "verify") /\ Under' BY <1>1, <2>1, <3>1, GoingOn
    <3>3. Verifies(p) /\ UNCHANGED <<source, edits>>
      BY <1>3, <2>2, <3>2 DEF Verify, Verifies, Still, disk, bounds
    <3>4. QED BY <3>2, <3>3 DEF Acts
  <2>3. CASE source = "broken"
    <3>1. Raise(p) /\ Still /\ Unmarked /\ UNCHANGED <<answer, joined, source, edits, struck>>
      BY <1>3, <2>3 DEF Verify, Still, Unmarked, disk, bounds
    <3>2. Reason(p, "verify") BY <2>3 DEF Reason
    <3>3. QED BY <1>1, <2>1, <3>1, <3>2, FallingBack
  <2>4. QED BY <2>2, <2>3
<1>4. CASE LookAndEnter(p)
  <2>1. At(p, "look") /\ "look" \notin Cleaning BY <1>2, <1>4 DEF LookAndEnter, Milestones
  <2>2. UNCHANGED <<inside, content, source, answer, identity, database, staged, verified, edits, struck, joined>>
    BY <1>4 DEF LookAndEnter, bounds
  <2>3. CASE There /\ Advance(p) /\ UNCHANGED <<dir, created>>
    <3>1. Goes(p, "look") /\ Under' BY <1>1, <2>1, <2>2, <2>3, GoingOn
    <3>2. Passes(p, "look") BY <2>2, <2>3, <3>1 DEF Passes, Plain, Still, Unmarked
    <3>3. "look" \in Stages BY DEF Stages, Milestones
    <3>4. QED BY <2>2, <3>1, <3>2, <3>3 DEF Acts
  <2>4. CASE There /\ ~IsEmpty(dir) /\ Raise(p) /\ UNCHANGED <<dir, created>>
    <3>1. Reason(p, "look") BY <2>4 DEF Reason
    <3>2. Still /\ Unmarked BY <2>2, <2>4 DEF Still, Unmarked
    <3>3. QED BY <1>1, <2>1, <2>2, <2>4, <3>1, <3>2, FallingBack
  <2>5. CASE ~There /\ dir' = p /\ created' = [created EXCEPT ![p] = TRUE] /\ Advance(p)
    <3>1. Goes(p, "look") /\ Under' BY <1>1, <2>1, <2>2, <2>5, GoingOn
    <3>2. Enters(p) BY <2>2, <2>5, <3>1 DEF Enters, There
    <3>3. QED BY <2>2, <3>1, <3>2 DEF Acts
  <2>6. QED BY <1>4, <2>3, <2>4, <2>5 DEF LookAndEnter
<1>5. CASE Identify(p)
  <2>1. At(p, "identify") /\ "identify" \notin Cleaning BY <1>2, <1>5 DEF Identify, Milestones
  <2>2. Still /\ UNCHANGED <<source, answer, created, database, staged, verified, edits, struck>>
    BY <1>5 DEF Identify, bounds, disk, Still
  <2>3. CASE There
    <3>1. Goes(p, "identify") /\ Under' BY <1>1, <1>5, <2>1, <2>2, <2>3, GoingOn DEF Identify
    <3>2. Identifies(p) BY <1>5, <2>2, <2>3, <3>1 DEF Identifies, Identify
    <3>3. QED BY <2>2, <3>1, <3>2 DEF Acts
  <2>4. CASE ~There
    <3>1. Raise(p) /\ Unmarked /\ UNCHANGED joined BY <1>5, <2>2, <2>4 DEF Identify, Unmarked
    <3>2. Reason(p, "identify") BY <2>4 DEF Reason
    <3>3. QED BY <1>1, <2>1, <2>2, <3>1, <3>2, FallingBack
  <2>5. QED BY <2>3, <2>4
<1>6. CASE Close(p)
  <2>1. At(p, "close") /\ "close" \notin Cleaning BY <1>2, <1>6 DEF Close
  <2>2. Still /\ Unmarked /\ UNCHANGED <<source, answer, edits, struck, joined>> /\ Advance(p)
    BY <1>6 DEF Close, bounds, disk, Still, Unmarked
  <2>3. Goes(p, "close") /\ Under' BY <1>1, <2>1, <2>2, GoingOn
  <2>4. Passes(p, "close") /\ "close" \in Stages BY <2>2, <2>3 DEF Passes, Plain, Stages
  <2>5. QED BY <2>2, <2>3, <2>4 DEF Acts
<1>7. CASE VacantAgain(p)
  <2>1. At(p, "vacant") /\ "vacant" \notin Cleaning BY <1>2, <1>7 DEF VacantAgain
  <2>2. Still /\ UNCHANGED <<source, answer, created, identity, database, verified, edits, struck, joined>>
    BY <1>7 DEF VacantAgain, bounds, disk, Still
  <2>3. CASE Find(p) = None
    <3>1. Goes(p, "vacant") /\ Under' BY <1>1, <1>7, <2>1, <2>2, <2>3, GoingOn DEF VacantAgain
    <3>2. Vacates(p) BY <1>7, <2>2, <2>3, <3>1 DEF Vacates, VacantAgain
    <3>3. QED BY <2>2, <3>1, <3>2 DEF Acts
  <2>4. CASE Find(p) # None
    <3>1. Raise(p) /\ Unmarked BY <1>7, <2>2, <2>4 DEF VacantAgain, Unmarked
    <3>2. Reason(p, "vacant") BY <2>4 DEF Reason
    <3>3. QED BY <1>1, <2>1, <2>2, <3>1, <3>2, FallingBack
  <2>5. QED BY <2>3, <2>4
<1>8. CASE Done(p)
  <2>1. At(p, "done") /\ "done" \notin Cleaning BY <1>2, <1>8 DEF Done, Milestones
  <2>2. Still /\ Unmarked /\ UNCHANGED <<source, edits, struck, joined>> /\ Advance(p)
        /\ answer' = [answer EXCEPT ![p] = "equivalent"]
    BY <1>8 DEF Done, bounds, disk, Still, Unmarked
  <2>3. Goes(p, "done") /\ Under' BY <1>1, <2>1, <2>2, GoingOn
  <2>4. Finishes(p) BY <2>2, <2>3 DEF Finishes
  <2>5. QED BY <2>2, <2>3, <2>4 DEF Acts
<1>9. QED BY <1>3, <1>4, <1>5, <1>6, <1>7, <1>8

LEMMA FillingStep ==
  ASSUME Typed, version' = version, NEW p \in Replayers, Files1(p),
         MakeTemporary(p) \/ Fill(p) \/ Link(p) \/ Unlink(p)
  PROVE  Under' /\ Acts(p)
<1>1. Under /\ Disks /\ Locals /\ Knows(p) BY DEF Typed
<1>2. \A s \in Milestones : s \notin Cleaning BY DEF Milestones, Cleaning
<1>3. Find(p) \in {None, p, Owner} BY <1>1 DEF Files1, Find, There, Disks
<1>4. CASE MakeTemporary(p)
  <2>1. At(p, "mkstemp") /\ "mkstemp" \notin Cleaning BY <1>2, <1>4 DEF MakeTemporary, Milestones
  <2>2. UNCHANGED <<dir, content, source, answer, created, identity, verified, edits, struck>>
    BY <1>4 DEF MakeTemporary, bounds
  <2>3. CASE There
    <3>1. Goes(p, "mkstemp") /\ Under' BY <1>1, <1>4, <2>1, <2>2, <2>3, GoingOn DEF MakeTemporary
    <3>2. Makes(p) BY <1>4, <2>2, <2>3, <3>1 DEF Makes, MakeTemporary
    <3>3. QED BY <2>2, <3>1, <3>2 DEF Acts
  <2>4. CASE ~There
    <3>1. Raise(p) /\ Still /\ Unmarked /\ UNCHANGED joined
      BY <1>4, <2>2, <2>4 DEF MakeTemporary, Unmarked, Still
    <3>2. Reason(p, "mkstemp") BY <2>4 DEF Reason
    <3>3. QED BY <1>1, <2>1, <2>2, <3>1, <3>2, FallingBack
  <2>5. QED BY <2>3, <2>4
<1>5. CASE Fill(p)
  <2>1. At(p, "fill") /\ "fill" \notin Cleaning BY <1>2, <1>5 DEF Fill, Milestones
  <2>2. UNCHANGED <<dir, source, answer, edits, struck, joined>> /\ Unmarked
    BY <1>5 DEF Fill, bounds, Unmarked
  <2>3. CASE There
    <3>1. Goes(p, "fill") /\ Under' BY <1>1, <1>5, <2>1, <2>2, <2>3, GoingOn DEF Fill
    <3>2. PICK f : /\ f = IF Find(p) = None THEN Owner ELSE Find(p)
                   /\ Put(p, f) /\ content' = [content EXCEPT ![f] = verified[p]]
      BY <1>5, <2>3 DEF Fill
    <3>3. f \in {p, Owner} /\ (Find(p) = p => f = p) /\ (f = p => Find(p) = p) /\ Find(p) \in {None, f}
      BY <1>3, <3>2, Identities
    <3>4. Fills(p) BY <2>2, <2>3, <3>1, <3>2, <3>3 DEF Fills
    <3>5. QED BY <2>2, <3>1, <3>4 DEF Acts
  <2>4. CASE ~There
    <3>1. Raise(p) /\ Still BY <1>5, <2>2, <2>4 DEF Fill, Still
    <3>2. Reason(p, "fill") BY <2>4 DEF Reason
    <3>3. QED BY <1>1, <2>1, <2>2, <3>1, <3>2, FallingBack
  <2>5. QED BY <2>3, <2>4
<1>6. CASE Link(p)
  <2>1. At(p, "link") /\ "link" \notin Cleaning BY <1>2, <1>6 DEF Link, Milestones
  <2>2. UNCHANGED <<dir, content, source, answer, edits, struck, joined>> /\ Unmarked
    BY <1>6 DEF Link, bounds, Unmarked
  <2>3. CASE Find(p) # None /\ Find(Published) = None
    <3>1. Goes(p, "link") /\ Under' BY <1>1, <1>6, <2>1, <2>2, <2>3, GoingOn DEF Link
    <3>2. There BY <2>3 DEF Find
    <3>3. Publishes(p) BY <1>6, <2>2, <2>3, <3>1, <3>2 DEF Publishes, Link
    <3>4. QED BY <2>2, <3>1, <3>3 DEF Acts
  <2>4. CASE ~(Find(p) # None /\ Find(Published) = None)
    <3>1. Raise(p) /\ Still BY <1>6, <2>2, <2>4 DEF Link, Still
    <3>2. Reason(p, "link") BY <2>4 DEF Reason
    <3>3. QED BY <1>1, <2>1, <2>2, <3>1, <3>2, FallingBack
  <2>5. QED BY <2>3, <2>4
<1>7. CASE Unlink(p)
  <2>1. At(p, "unlink") /\ "unlink" \notin Cleaning BY <1>2, <1>7 DEF Unlink, Milestones
  <2>2. UNCHANGED <<dir, content, source, answer, created, identity, database, verified, edits, struck, joined>>
    BY <1>7 DEF Unlink, bounds
  <2>3. CASE Find(p) = database[p]
    <3>1. Goes(p, "unlink") /\ Under' BY <1>1, <1>7, <2>1, <2>2, <2>3, GoingOn DEF Unlink
    <3>2. Past(p, "mkstemp") BY <3>1 DEF Goes, Works1, Placed, Ordered, Past, Milestones
    <3>3. database[p] = p BY <1>1, <3>2 DEF Knows
    <3>4. There /\ Find(p) = p BY <2>3, <3>3, Identities DEF Find
    <3>5. staged' = [staged EXCEPT ![p] = version[p] = "v1"] BY <1>7, <2>3 DEF Unlink
    <3>6. staged' \in [Replayers -> BOOLEAN] /\ \A q \in Replayers \ {p} : staged'[q] = staged[q]
      <4>1. PICK b \in BOOLEAN : b = (version[p] = "v1") OBVIOUS
      <4>2. staged' = [staged EXCEPT ![p] = b] BY <3>5, <4>1
      <4>3. QED BY <1>1, <4>2 DEF Locals
    <3>7. Unlinks(p) BY <1>7, <2>2, <2>3, <3>1, <3>4, <3>6 DEF Unlinks, Unlink
    <3>8. QED BY <2>2, <3>1, <3>7 DEF Acts
  <2>4. CASE Find(p) # database[p]
    <3>1. Raise(p) /\ Still /\ Unmarked BY <1>7, <2>2, <2>4 DEF Unlink, Still, Unmarked
    <3>2. Reason(p, "unlink") BY <2>4 DEF Reason
    <3>3. QED BY <1>1, <2>1, <2>2, <3>1, <3>2, FallingBack
  <2>5. QED BY <2>3, <2>4
<1>8. QED BY <1>4, <1>5, <1>6, <1>7

LEMMA CleaningStep ==
  ASSUME Typed, version' = version, NEW p \in Replayers, RemoveOwned(p)
  PROVE  Under' /\ Acts(p)
<1>1. Under /\ Knows(p) BY DEF Typed
<1>2. Cleaning \subseteq Stages BY DEF Stages
<1>3. ASSUME NEW s \in Cleaning \ {"fail"}, At(p, s), Advance(p), Still, Unneeded(p, s), Unmarked,
             UNCHANGED <<answer, joined, struck, source, edits>>
      PROVE  Under' /\ Acts(p)
  <2>1. Tidies(p, s) /\ Under' BY <1>1, <1>3, Tidying
  <2>2. Clears(p, s) BY <1>3, <2>1 DEF Clears
  <2>3. QED BY <1>2, <1>3, <2>1, <2>2 DEF Acts
<1>4. CASE RemoveTemporary(p)
  <2>1. At(p, "remove_temporary") /\ "remove_temporary" \in Cleaning \ {"fail"} /\ Advance(p)
    BY <1>4 DEF RemoveTemporary, Cleaning
  <2>2. /\ UNCHANGED <<dir, content, source, answer, edits, struck, joined>> /\ Unmarked
    BY <1>4 DEF RemoveTemporary, Unmarked, bounds
  <2>3. CASE Find(p) = database[p]
    <3>1. Tidies(p, "remove_temporary") /\ Under' BY <1>1, <2>1, Tidying
    <3>2. database[p] = p
      <4>1. "remove_temporary" \in Rest(p) BY <2>1, HeadRemains, <1>1 DEF At
      <4>2. QED BY <1>1, <4>1 DEF Knows
    <3>3. There /\ Find(p) = p BY <2>3, <3>2, Identities DEF Find
    <3>4. TakesBack(p) BY <1>4, <2>2, <2>3, <3>1, <3>3 DEF TakesBack, RemoveTemporary
    <3>5. QED BY <2>2, <3>1, <3>4 DEF Acts
  <2>4. CASE Find(p) # database[p]
    <3>1. Still BY <1>4, <2>2, <2>4 DEF RemoveTemporary, Still
    <3>2. Unneeded(p, "remove_temporary") BY <2>4 DEF Unneeded
    <3>3. QED BY <1>3, <2>1, <2>2, <3>1, <3>2
  <2>5. QED BY <2>3, <2>4
<1>5. ASSUME NEW s \in {"check_published", "check_directory"}, At(p, s), NEW c \in BOOLEAN, Check(p, c),
             c => Unneeded(p, s),
             ~c => \/ s = "check_published" /\ Find(Published) # database[p]
                   \/ s = "check_directory" /\ dir # identity[p]
      PROVE  Under' /\ Acts(p)
  <2>1. s \in Cleaning \ {"fail"} /\ Still /\ Unmarked /\ UNCHANGED <<answer, joined, struck, source, edits>>
    BY <1>5 DEF Cleaning, Check, Still, Unmarked, disk, bounds
  <2>2. CASE c
    <3>1. Advance(p) BY <1>5, <2>2 DEF Check, Advance
    <3>2. QED BY <1>3, <1>5, <2>1, <2>2, <3>1
  <2>3. CASE ~c
    <3>1. todo' = [todo EXCEPT ![p] = Tail(Tail(@))] BY <1>5, <2>3 DEF Check
    <3>2. /\ Tidy(s, Rest(p)) /\ Under' /\ Elsewhere(p)
          /\ Rest(p)' = Rest(p) \ {s, Guarded(s)} /\ Rest(p)' # {}
      BY <1>1, <1>5, <2>1, <3>1, Tidying
    <3>3. Skips(p, s) BY <1>5, <2>1, <2>3, <3>2 DEF Skips
    <3>4. QED BY <1>2, <2>1, <3>2, <3>3 DEF Acts
  <2>4. QED BY <2>2, <2>3
<1>6. CASE CheckPublished(p) BY <1>5, <1>6 DEF CheckPublished, Unneeded
<1>7. CASE CheckDirectory(p) BY <1>5, <1>7 DEF CheckDirectory, Unneeded
<1>8. CASE UnlinkPublished(p)
  <2>1. At(p, "unlink_published") /\ "unlink_published" \in Cleaning \ {"fail"} /\ Advance(p)
    BY <1>8 DEF UnlinkPublished, Cleaning
  <2>2. /\ UNCHANGED <<dir, content, source, answer, edits, struck, joined>> /\ Unmarked
    BY <1>8 DEF UnlinkPublished, Unmarked, bounds
  <2>3. CASE There
    <3>1. Tidies(p, "unlink_published") /\ Under' BY <1>1, <2>1, Tidying
    <3>2. Withdraws(p) BY <1>8, <2>2, <2>3, <3>1 DEF Withdraws, UnlinkPublished
    <3>3. QED BY <2>2, <3>1, <3>2 DEF Acts
  <2>4. CASE ~There
    <3>1. Still BY <1>8, <2>2, <2>4 DEF UnlinkPublished, Still
    <3>2. Unneeded(p, "unlink_published") BY <2>4 DEF Unneeded
    <3>3. QED BY <1>3, <2>1, <2>2, <3>1, <3>2
  <2>5. QED BY <2>3, <2>4
<1>9. CASE RemoveDirectory(p)
  <2>1. At(p, "rmdir") /\ "rmdir" \in Cleaning \ {"fail"} /\ Advance(p)
    BY <1>9 DEF RemoveDirectory, Cleaning
  <2>2. /\ UNCHANGED <<inside, content, source, answer, edits, struck, joined>> /\ Unmarked
    BY <1>9 DEF RemoveDirectory, Unmarked, bounds
  <2>3. CASE There /\ IsEmpty(dir)
    <3>1. Tidies(p, "rmdir") /\ Under' BY <1>1, <2>1, Tidying
    <3>2. Leaves(p) BY <1>9, <2>2, <2>3, <3>1 DEF Leaves, RemoveDirectory
    <3>3. QED BY <2>2, <3>1, <3>2 DEF Acts
  <2>4. CASE ~(There /\ IsEmpty(dir))
    <3>1. Still BY <1>9, <2>2, <2>4 DEF RemoveDirectory, Still
    <3>2. Unneeded(p, "rmdir") BY <2>4 DEF Unneeded
    <3>3. QED BY <1>3, <2>1, <2>2, <3>1, <3>2
  <2>5. QED BY <2>3, <2>4
<1>10. CASE Fail(p)
  <2>1. At(p, "fail") /\ "fail" \in Cleaning /\ Advance(p) BY <1>10 DEF Fail, Cleaning
  <2>2. Still /\ Unmarked /\ UNCHANGED <<source, edits, struck, joined>>
        /\ answer' = [answer EXCEPT ![p] = "failed"]
    BY <1>10 DEF Fail, bounds, disk, Still, Unmarked
  <2>3. Tidies(p, "fail") /\ Under' BY <1>1, <2>1, Tidying
  <2>4. GivesUp(p) BY <2>2, <2>3 DEF GivesUp
  <2>5. QED BY <2>2, <2>3, <2>4 DEF Acts
<1>11. QED BY <1>4, <1>6, <1>7, <1>8, <1>9, <1>10 DEF RemoveOwned

LEMMA FaultStep ==
  ASSUME Typed, version' = version, NEW p \in Replayers, Fault(p)
  PROVE  Under' /\ Acts(p)
<1>1. Under /\ Knows(p) BY DEF Typed
<1>2. Strike(p) BY DEF Fault, Interrupted, InterruptedUnknown, CleanupFails, Crash
<1>3. PICK s : s = Head(todo[p]) OBVIOUS
<1>4. todo[p] # <<>> /\ At(p, s) /\ Strikes(p, s) /\ edits' = edits
  BY <1>2, <1>3 DEF Strike, At, Strikes
<1>5. s \in Rest(p) BY <1>1, <1>3, <1>4, HeadRemains
<1>6. CASE Interrupted(p)
  <2>1. s \notin Cleaning /\ Raise(p) /\ Still /\ Unmarked /\ UNCHANGED <<answer, joined, source>>
    BY <1>3, <1>6 DEF Interrupted, disk, Still, Unmarked
  <2>2. QED BY <1>1, <1>4, <2>1, FallingBack
<1>7. CASE InterruptedUnknown(p)
  <2>1. Raise(p) /\ Unmarked /\ UNCHANGED <<content, source, answer>>
    BY <1>7 DEF InterruptedUnknown, Unmarked
  <2>2. \A e \in {"look", "mkstemp", "link", "unlink"} : At(p, e) => e \notin Cleaning /\ s = e
    BY <1>3 DEF Cleaning, At
  <2>3. CASE At(p, "look") /\ ~There /\ dir' = p /\ UNCHANGED <<inside, joined>>
    <3>1. Raised(p, "look") /\ Under' BY <1>1, <2>1, <2>2, <2>3, GoingOn
    <3>2. EntersUnknown(p) BY <1>4, <2>1, <2>2, <2>3, <3>1 DEF EntersUnknown, There
    <3>3. QED BY <1>4, <2>1, <3>1, <3>2 DEF Acts
  <2>4. CASE At(p, "mkstemp") /\ There /\ Put(p, p) /\ EnterByPath(p) /\ UNCHANGED dir
    <3>1. Raised(p, "mkstemp") /\ Under' BY <1>1, <2>1, <2>2, <2>4, GoingOn
    <3>2. MakesUnknown(p) BY <1>4, <2>1, <2>2, <2>4, <3>1 DEF MakesUnknown
    <3>3. QED BY <1>4, <2>1, <3>1, <3>2 DEF Acts
  <2>5. CASE At(p, "link") /\ Find(p) # None /\ Find(Published) = None
             /\ Put(Published, Find(p)) /\ UNCHANGED <<dir, joined>>
    <3>1. Raised(p, "link") /\ Under' BY <1>1, <2>1, <2>2, <2>5, GoingOn
    <3>2. There BY <2>5 DEF Find
    <3>3. PublishesUnknown(p) BY <1>4, <2>1, <2>2, <2>5, <3>1, <3>2 DEF PublishesUnknown
    <3>4. QED BY <1>4, <2>1, <3>1, <3>3 DEF Acts
  <2>6. CASE At(p, "unlink") /\ Find(p) = database[p] /\ Put(p, None) /\ UNCHANGED <<dir, joined>>
    <3>1. Raised(p, "unlink") /\ Under' BY <1>1, <2>1, <2>2, <2>6, GoingOn
    <3>2. Past(p, "mkstemp") BY <3>1 DEF Raised, Works1, Placed, Ordered, Past, Milestones
    <3>3. database[p] = p BY <1>1, <3>2 DEF Knows
    <3>4. There /\ Find(p) = p BY <2>6, <3>3, Identities DEF Find
    <3>5. UnlinksUnknown(p) BY <1>4, <2>1, <2>2, <2>6, <3>1, <3>4 DEF UnlinksUnknown
    <3>6. QED BY <1>4, <2>1, <3>1, <3>5 DEF Acts
  <2>7. QED BY <1>7, <2>3, <2>4, <2>5, <2>6 DEF InterruptedUnknown
<1>8. CASE CleanupFails(p)
  <2>1. Still /\ Unmarked /\ UNCHANGED <<source, joined>>
    BY <1>8 DEF CleanupFails, disk, Still, Unmarked
  <2>2. CASE s \in {"remove_temporary", "unlink_published", "rmdir"} /\ Advance(p) /\ UNCHANGED answer
    <3>1. s \in Cleaning /\ s # "fail" BY <2>2 DEF Cleaning
    <3>2. Tidies(p, s) /\ Under' BY <1>1, <1>4, <2>2, <3>1, Tidying
    <3>3. Clears(p, s) BY <1>4, <2>1, <2>2, <3>1, <3>2 DEF Clears
    <3>4. s \in Stages BY <3>1 DEF Stages
    <3>5. QED BY <1>4, <2>1, <3>2, <3>3, <3>4 DEF Acts
  <2>3. CASE todo' = [todo EXCEPT ![p] = <<>>] /\ answer' = [answer EXCEPT ![p] = "aborted"]
    <3>1. Under' /\ Elsewhere(p) /\ Rest(p)' = {} BY <1>1, <2>3, Ending
    <3>2. Halts(p) BY <1>4, <1>5, <2>1, <2>3, <3>1 DEF Halts
    <3>3. QED BY <1>4, <2>1, <3>1, <3>2 DEF Acts
  <2>4. QED BY <1>3, <1>8, <2>2, <2>3 DEF CleanupFails
<1>9. CASE Crash(p)
  <2>1. Still /\ Unmarked /\ UNCHANGED <<source, joined>>
    BY <1>9 DEF Crash, disk, Still, Unmarked
  <2>2. todo' = [todo EXCEPT ![p] = <<>>] /\ answer' = [answer EXCEPT ![p] = "crashed"]
    BY <1>9 DEF Crash
  <2>3. Under' /\ Elsewhere(p) /\ Rest(p)' = {} BY <1>1, <2>2, Ending
  <2>4. Halts(p) BY <1>4, <1>5, <2>1, <2>2, <2>3 DEF Halts
  <2>5. QED BY <1>4, <2>1, <2>3, <2>4 DEF Acts
<1>10. QED BY <1>6, <1>7, <1>8, <1>9 DEF Fault

Edits == Edit /\ UNCHANGED <<local, struck, joined, faults>> /\ edits' = edits + 1
         /\ \A p \in Replayers : Rest(p)' = Rest(p)

LEMMA Steps ==
  ASSUME Typed, Next, \A p \in Replayers : Files1(p)
  PROVE  Under' /\ version' = version /\ (Edits \/ \E p \in Replayers : Acts(p))
<1>1. version' = version BY DEF Next
<1>2. CASE Edit
  <2>1. UNCHANGED local /\ UNCHANGED <<struck, joined, faults>> /\ edits' = edits + 1
    BY <1>2 DEF Edit
  <2>2. todo' = todo BY <2>1 DEF local
  <2>3. Under' BY <1>1, <2>2, ProgramStays DEF Under, Typed, Controlled
  <2>4. \A p \in Replayers : Rest(p)' = Rest(p) BY <2>2 DEF Rest
  <2>5. Edits BY <1>2, <2>1, <2>4 DEF Edits
  <2>6. QED BY <1>1, <2>3, <2>5
<1>3. ASSUME NEW p \in Replayers, Replay(p) PROVE Under' /\ Acts(p)
  BY <1>1, <1>3, LookingStep, EnteringStep, FillingStep DEF Replay
<1>4. ASSUME NEW p \in Replayers, RemoveOwned(p) PROVE Under' /\ Acts(p)
  BY <1>1, <1>4, CleaningStep
<1>5. ASSUME NEW p \in Replayers, Fault(p) PROVE Under' /\ Acts(p)
  BY <1>1, <1>5, FaultStep
<1>6. QED BY <1>1, <1>2, <1>3, <1>4, <1>5 DEF Next

----------------------------------------------------------------------------
(* The types hold throughout.                                              *)

(* A step of a call leaves alone what the others know.                     *)
Same(q) ==
  /\ Rest(q)' = Rest(q) /\ answer'[q] = answer[q] /\ created'[q] = created[q]
  /\ identity'[q] = identity[q] /\ database'[q] = database[q] /\ staged'[q] = staged[q]
  /\ verified'[q] = verified[q]

LEMMA Frame ==
  ASSUME Typed, NEW p \in Replayers, Acts(p)
  PROVE  /\ Disks' /\ \A q \in Replayers : q # p => Same(q)
         /\ answer' \in [Replayers -> {None, "equivalent", "failed", "aborted", "crashed"}]
         /\ created' \in [Replayers -> BOOLEAN] /\ staged' \in [Replayers -> BOOLEAN]
         /\ identity' \in [Replayers -> Dirs \cup {None}]
         /\ database' \in [Replayers -> Files \cup {None}]
         /\ verified' \in [Replayers -> {None, "bundle", "other"}]
         /\ (struck' = struck \/ \E s \in Stages : Strikes(p, s)) /\ source' = source /\ edits' = edits
<1>1. Disks /\ Locals /\ Under /\ Knows(p) BY DEF Typed
<1>2. source' = source /\ edits' = edits BY DEF Acts
<1>3. /\ p \in Dirs /\ p \in Files /\ p \in Names /\ Published \in Names /\ Owner \in Files
  BY Identities
<1> USE DEF Same, Elsewhere, Still, Unmarked, Tidies, Goes, Raised, Works1
<1>4. ASSUME NEW s \in Stages, Passes(p, s) \/ Falls(p, s) \/ Clears(p, s) \/ Skips(p, s)
      PROVE  \/ struck' = struck \/ Strikes(p, s)
             \/ FALSE
  BY <1>4 DEF Passes, Falls, Clears, Skips
<1>5. ASSUME NEW s \in Stages, Passes(p, s) \/ Falls(p, s) \/ Clears(p, s) \/ Skips(p, s)
      PROVE  Still /\ Unmarked /\ UNCHANGED answer /\ Elsewhere(p)
  BY <1>5 DEF Passes, Falls, Clears, Skips
<1>6. CASE \E s \in Stages : Passes(p, s) \/ Falls(p, s) \/ Clears(p, s) \/ Skips(p, s)
  BY <1>1, <1>2, <1>4, <1>5, <1>6 DEF Disks, Locals
<1>7. CASE Verifies(p)
  <2>1. source \in {"bundle", "other"} BY <1>1, <1>7 DEF Disks, Verifies
  <2>2. verified' \in [Replayers -> {None, "bundle", "other"}]
    BY <1>1, <1>7, <2>1 DEF Verifies, Locals
  <2>3. QED BY <1>1, <1>2, <1>7, <2>2 DEF Disks, Locals, Verifies
<1>8. CASE Enters(p) BY <1>1, <1>2, <1>3, <1>8 DEF Disks, Locals, Enters
<1>9. CASE Identifies(p) BY <1>1, <1>2, <1>3, <1>9 DEF Disks, Locals, Identifies, There
<1>10. CASE Makes(p)
  <2>1. dir \in Dirs BY <1>1, <1>10 DEF Makes, There, Disks
  <2>2. Disks' BY <1>1, <1>2, <1>3, <1>10, <2>1 DEF Disks, Makes, Put
  <2>3. QED BY <1>1, <1>2, <1>3, <1>10, <2>2 DEF Locals, Makes
<1>11. CASE Fills(p)
  <2>1. dir \in Dirs BY <1>1, <1>11 DEF Fills, There, Disks
  <2>2. PICK f \in {p, Owner} : Put(p, f) /\ content' = [content EXCEPT ![f] = verified[p]]
    BY <1>11 DEF Fills
  <2>3. verified[p] \in {"bundle", "other"}
    <3>1. Past(p, "verify") BY <1>11 DEF Fills, Placed, Ordered, Past, Milestones
    <3>2. QED BY <1>1, <3>1 DEF Knows, Locals
  <2>4. Disks' BY <1>1, <1>2, <1>3, <1>11, <2>1, <2>2, <2>3 DEF Disks, Fills, Put
  <2>5. QED BY <1>1, <1>2, <1>11, <2>4 DEF Locals, Fills
<1>12. CASE Publishes(p) \/ PublishesUnknown(p)
  <2>1. dir \in Dirs BY <1>1, <1>12 DEF Publishes, PublishesUnknown, There, Disks
  <2>2. Find(p) \in Files BY <1>1, <1>3, <1>12, <2>1 DEF Publishes, PublishesUnknown, Find, Disks
  <2>3. Disks' BY <1>1, <1>2, <1>3, <1>12, <2>1, <2>2 DEF Disks, Publishes, PublishesUnknown, Put
  <2>4. struck' = struck \/ Strikes(p, "link") BY <1>12 DEF Publishes, PublishesUnknown
  <2>5. "link" \in Stages BY DEF Stages, Milestones
  <2>6. QED BY <1>1, <1>2, <1>12, <2>3, <2>4, <2>5 DEF Locals, Publishes, PublishesUnknown
<1>13. CASE Unlinks(p) \/ UnlinksUnknown(p)
  <2>1. dir \in Dirs BY <1>1, <1>13 DEF Unlinks, UnlinksUnknown, There, Disks
  <2>2. Disks' BY <1>1, <1>2, <1>3, <1>13, <2>1 DEF Disks, Unlinks, UnlinksUnknown, Put
  <2>3. struck' = struck \/ Strikes(p, "unlink") BY <1>13 DEF Unlinks, UnlinksUnknown
  <2>4. "unlink" \in Stages BY DEF Stages, Milestones
  <2>5. QED BY <1>1, <1>2, <1>13, <2>2, <2>3, <2>4 DEF Locals, Unlinks, UnlinksUnknown
<1>14. CASE Vacates(p) BY <1>1, <1>2, <1>14 DEF Disks, Locals, Vacates
<1>15. CASE Finishes(p) BY <1>1, <1>2, <1>15 DEF Disks, Locals, Finishes
<1>16. CASE TakesBack(p)
  <2>1. dir \in Dirs BY <1>1, <1>16 DEF TakesBack, There, Disks
  <2>2. Disks' BY <1>1, <1>2, <1>3, <1>16, <2>1 DEF Disks, TakesBack, Put
  <2>3. QED BY <1>1, <1>2, <1>16, <2>2 DEF Locals, TakesBack
<1>17. CASE Withdraws(p)
  <2>1. dir \in Dirs BY <1>1, <1>17 DEF Withdraws, There, Disks
  <2>2. Disks' BY <1>1, <1>2, <1>3, <1>17, <2>1 DEF Disks, Withdraws, Put
  <2>3. QED BY <1>1, <1>2, <1>17, <2>2 DEF Locals, Withdraws
<1>18. CASE Leaves(p) BY <1>1, <1>2, <1>18 DEF Disks, Locals, Leaves
<1>19. CASE GivesUp(p) BY <1>1, <1>2, <1>19 DEF Disks, Locals, GivesUp
<1>20. CASE Halts(p)
  <2>1. Rest(p) \subseteq Stages BY <1>1, RangeIs DEF Under, Rest
  <2>2. PICK s \in Stages : Strikes(p, s) BY <1>20, <2>1 DEF Halts
  <2>3. QED BY <1>1, <1>2, <1>20, <2>2 DEF Disks, Locals, Halts
<1>21. CASE EntersUnknown(p)
  <2>1. "look" \in Stages BY DEF Stages, Milestones
  <2>2. QED BY <1>1, <1>2, <1>3, <1>21, <2>1 DEF Disks, Locals, EntersUnknown
<1>22. CASE MakesUnknown(p)
  <2>1. dir \in Dirs BY <1>1, <1>22 DEF MakesUnknown, There, Disks
  <2>2. Disks' BY <1>1, <1>2, <1>3, <1>22, <2>1 DEF Disks, MakesUnknown, Put
  <2>3. "mkstemp" \in Stages BY DEF Stages, Milestones
  <2>4. QED BY <1>1, <1>2, <1>22, <2>2, <2>3 DEF Locals, MakesUnknown
<1>23. QED
  BY <1>6, <1>7, <1>8, <1>9, <1>10, <1>11, <1>12, <1>13, <1>14, <1>15, <1>16, <1>17, <1>18, <1>19,
     <1>20, <1>21, <1>22
  DEF Acts

LEMMA OthersKnow ==
  ASSUME NEW q \in Replayers, Same(q), Knows(q)
  PROVE  Knows(q)'
BY DEF Same, Knows, Past, Working

LEMMA GoingKnows ==
  ASSUME Typed, NEW p \in Replayers,
         \/ \E s \in Stages : Passes(p, s)
         \/ Verifies(p) \/ Enters(p) \/ Identifies(p) \/ Makes(p) \/ Fills(p) \/ Publishes(p)
         \/ Unlinks(p) \/ Vacates(p) \/ Finishes(p)
  PROVE  Knows(p)'
<1>1. Knows(p) /\ Locals /\ Disks BY DEF Typed
<1>2. ASSUME NEW s \in Stages, Goes(p, s),
             answer'[p] = IF s = "done" THEN "equivalent" ELSE answer[p],
             created'[p] = created[p] \/ s = "look",
             identity'[p] = identity[p] \/ s = "identify",
             database'[p] = database[p] \/ s = "mkstemp",
             verified'[p] = verified[p] \/ s = "verify",
             s = "mkstemp" => database'[p] = p, s = "identify" => identity'[p] # None,
             s = "verify" => verified'[p] # None
      PROVE Knows(p)'
  <2>1. /\ At(p, s) /\ s \notin Cleaning /\ "done" \in Rest(p) /\ Rest(p) \cap Cleaning = {}
        /\ Ordered(Rest(p)) /\ Placed(s, Rest(p))
        /\ \A m \in Milestones : m \in Rest(p)' <=> m \in Rest(p) /\ m # s
        /\ Rest(p)' \cap Cleaning = {} /\ (s = "done" <=> Rest(p)' = {})
    BY <1>2 DEF Goes, Works1, Working
  <2>2. answer'[p] = None <=> Rest(p)' # {}
    <3>1. answer[p] = None BY <1>1, <2>1 DEF Knows
    <3>2. None # "equivalent" BY ReplayAssumption
    <3>3. QED BY <1>2, <2>1, <3>1, <3>2
  <2>3. "look" \in Rest(p)' => ~created'[p]
    <3>1. "look" \in Rest(p)' => "look" \in Rest(p) /\ s # "look" BY <2>1 DEF Milestones
    <3>2. QED BY <1>1, <1>2, <3>1 DEF Knows
  <2>4. "identify" \in Rest(p)' => identity'[p] = None
    <3>1. "identify" \in Rest(p)' => "identify" \in Rest(p) /\ s # "identify" BY <2>1 DEF Milestones
    <3>2. QED BY <1>1, <1>2, <3>1 DEF Knows
  <2>5. "mkstemp" \in Rest(p)' => database'[p] = None
    <3>1. "mkstemp" \in Rest(p)' => "mkstemp" \in Rest(p) /\ s # "mkstemp" BY <2>1 DEF Milestones
    <3>2. QED BY <1>1, <1>2, <3>1 DEF Knows
  <2>6. \A m \in Milestones : Past(p, m)' => Past(p, m) \/ m = s BY <2>1 DEF Past, Working
  <2>7. /\ Past(p, "identify")' => identity'[p] # None
        /\ Past(p, "mkstemp")' => database'[p] = p
        /\ Past(p, "verify")' => verified'[p] # None
    <3>1. {"identify", "mkstemp", "verify"} \subseteq Milestones BY DEF Milestones
    <3>2. QED BY <1>1, <1>2, <2>6, <3>1 DEF Knows
  <2>8. database'[p] \in {None, p} BY <1>1, <1>2 DEF Knows
  <2>9. "remove_temporary" \notin Rest(p)' /\ "unlink_published" \notin Rest(p)' /\ "rmdir" \notin Rest(p)'
    BY <2>1 DEF Cleaning
  <2>10. QED BY <2>2, <2>3, <2>4, <2>5, <2>7, <2>8, <2>9 DEF Knows
<1>3. Milestones \subseteq Stages /\ "vacant" \in Stages BY DEF Stages
<1>4. ASSUME NEW s \in Stages, Passes(p, s) PROVE Knows(p)'
  <2>1. s \notin {"done", "mkstemp", "identify", "verify"} BY <1>4 DEF Passes, Plain
  <2>2. QED BY <1>2, <1>4, <2>1 DEF Passes, Unmarked
<1>5. CASE Verifies(p)
  <2>1. verified'[p] = source /\ source # None BY <1>1, <1>5, ReplayAssumption DEF Verifies, Locals, Disks
  <2>2. "verify" \in Stages BY <1>3 DEF Milestones
  <2>3. QED BY <1>2, <1>5, <2>1, <2>2 DEF Verifies
<1>6. CASE Enters(p)
  <2>1. "look" \in Stages BY <1>3 DEF Milestones
  <2>2. created'[p] = TRUE BY <1>1, <1>6 DEF Enters, Locals
  <2>3. QED BY <1>2, <1>6, <2>1, <2>2 DEF Enters
<1>7. CASE Identifies(p)
  <2>1. "identify" \in Stages BY <1>3 DEF Milestones
  <2>2. identity'[p] # None BY <1>1, <1>7 DEF Identifies, Locals, There
  <2>3. QED BY <1>2, <1>7, <2>1, <2>2 DEF Identifies, Still
<1>8. CASE Makes(p)
  <2>1. "mkstemp" \in Stages BY <1>3 DEF Milestones
  <2>2. database'[p] = p BY <1>1, <1>8 DEF Makes, Locals
  <2>3. QED BY <1>2, <1>8, <2>1, <2>2 DEF Makes
<1>9. CASE Fills(p)
  <2>1. "fill" \in Stages BY <1>3 DEF Milestones
  <2>2. QED BY <1>2, <1>9, <2>1 DEF Fills, Unmarked
<1>10. CASE Publishes(p)
  <2>1. "link" \in Stages BY <1>3 DEF Milestones
  <2>2. QED BY <1>2, <1>10, <2>1 DEF Publishes, Unmarked
<1>11. CASE Unlinks(p)
  <2>1. "unlink" \in Stages BY <1>3 DEF Milestones
  <2>2. QED BY <1>2, <1>11, <2>1 DEF Unlinks
<1>12. CASE Vacates(p) BY <1>2, <1>3, <1>12 DEF Vacates, Still
<1>13. CASE Finishes(p)
  <2>1. "done" \in Stages BY <1>3 DEF Milestones
  <2>2. answer'[p] = "equivalent" BY <1>1, <1>13 DEF Finishes, Locals
  <2>3. QED BY <1>2, <1>13, <2>1, <2>2 DEF Finishes, Unmarked
<1>14. QED BY <1>4, <1>5, <1>6, <1>7, <1>8, <1>9, <1>10, <1>11, <1>12, <1>13

LEMMA RaisedKnows ==
  ASSUME Typed, NEW p \in Replayers, NEW s, Raised(p, s), Unmarked, UNCHANGED answer
  PROVE  /\ Knows(p)' /\ ~Working(p)' /\ Unwinding(p)'
         /\ \A m \in Milestones : m \notin Rest(p)' /\ ~Past(p, m)'
<1>1. Knows(p) BY DEF Typed
<1>2. Rest(p)' = Remaining(p) /\ "done" \in Rest(p) BY DEF Raised, Works1, Working
<1>3. answer[p] = None BY <1>1, <1>2 DEF Knows
<1>4. "fail" \in Rest(p)' /\ \A m \in Milestones : m \notin Rest(p)'
  BY <1>2 DEF Remaining, Milestones
<1>5. ~Working(p)' BY <1>4 DEF Working, Milestones
<1>6. \A m : ~Past(p, m)' BY <1>5 DEF Past
<1>7. "remove_temporary" \in Rest(p)' \/ "unlink_published" \in Rest(p)' => database[p] = p
  BY <1>1, <1>2 DEF Remaining, Knows
<1>8. "rmdir" \in Rest(p)' => created[p] /\ identity[p] # None BY <1>2 DEF Remaining
<1>9. Knows(p)'
  <2>1. "look" \notin Rest(p)' /\ "identify" \notin Rest(p)' /\ "mkstemp" \notin Rest(p)'
    BY <1>4 DEF Milestones
  <2>2. answer'[p] = None /\ Rest(p)' # {} BY <1>3, <1>4
  <2>3. database[p] \in {None, p} BY <1>1 DEF Knows
  <2>4. QED BY <1>6, <1>7, <1>8, <2>1, <2>2, <2>3 DEF Knows, Unmarked
<1>10. QED BY <1>4, <1>5, <1>6, <1>9 DEF Unwinding

(* A cleanup only gets shorter.                                            *)
LEMMA TidyingKnows ==
  ASSUME Typed, NEW p \in Replayers, Unmarked,
         NEW s, Tidy(s, Rest(p)) \/ Rest(p)' = {}, Rest(p)' \subseteq Rest(p), Rest(p) # {},
         Rest(p)' # {} => answer'[p] = answer[p],
         Rest(p)' = {} => answer'[p] # None
  PROVE  Knows(p)' /\ ~Working(p)' /\ \A m \in Milestones : m \notin Rest(p)' /\ ~Past(p, m)'
<1>1. Knows(p) BY DEF Typed
<1>2. Rest(p)' \subseteq Cleaning BY DEF Tidy
<1>3. \A m \in Milestones : m \notin Rest(p)' BY <1>2 DEF Cleaning, Milestones
<1>4. ~Working(p)' BY <1>3 DEF Working, Milestones
<1>5. \A m : ~Past(p, m)' BY <1>4 DEF Past
<1>6. answer'[p] = None <=> Rest(p)' # {} BY <1>1 DEF Knows
<1>7. "look" \notin Rest(p)' /\ "identify" \notin Rest(p)' /\ "mkstemp" \notin Rest(p)'
  BY <1>3 DEF Milestones
<1>8. QED BY <1>1, <1>3, <1>4, <1>5, <1>6, <1>7 DEF Knows, Unmarked

LEMMA KnowsStep ==
  ASSUME Typed, NEW p \in Replayers, Acts(p)
  PROVE  Knows(p)'
<1>1. Knows(p) /\ Locals /\ Under BY DEF Typed
<1>2. ASSUME NEW s \in Stages, Falls(p, s) PROVE Knows(p)' BY <1>2, RaisedKnows DEF Falls
<1>3. ASSUME NEW s, Tidies(p, s), s # "fail", Unmarked, UNCHANGED answer PROVE Knows(p)'
  <2>1. Tidy(s, Rest(p)) /\ Rest(p)' \subseteq Rest(p) /\ Rest(p) # {} /\ Rest(p)' # {}
    BY <1>3 DEF Tidies, Tidy
  <2>2. QED BY <1>3, <2>1, TidyingKnows
<1>4. ASSUME NEW s \in Stages, Clears(p, s) PROVE Knows(p)' BY <1>3, <1>4 DEF Clears
<1>5. ASSUME NEW s \in Stages, Skips(p, s) PROVE Knows(p)'
  <2>1. Tidy(s, Rest(p)) /\ Rest(p)' \subseteq Rest(p) /\ Rest(p) # {} /\ Rest(p)' # {}
    BY <1>5 DEF Skips, Tidy
  <2>2. QED BY <1>5, <2>1, TidyingKnows DEF Skips
<1>6. CASE TakesBack(p)
  <2>1. Tidies(p, "remove_temporary") /\ Unmarked /\ UNCHANGED answer BY <1>6 DEF TakesBack
  <2>2. QED BY <1>3, <2>1
<1>7. CASE Withdraws(p)
  <2>1. Tidies(p, "unlink_published") /\ Unmarked /\ UNCHANGED answer BY <1>7 DEF Withdraws
  <2>2. QED BY <1>3, <2>1
<1>8. CASE Leaves(p)
  <2>1. Tidies(p, "rmdir") /\ Unmarked /\ UNCHANGED answer BY <1>8 DEF Leaves
  <2>2. QED BY <1>3, <2>1
<1>9. CASE GivesUp(p)
  <2>1. Tidy("fail", Rest(p)) /\ Rest(p)' = {} /\ Rest(p) # {} /\ Unmarked
    BY <1>9 DEF GivesUp, Tidies, Tidy
  <2>2. answer'[p] # None BY <1>1, <1>9, ReplayAssumption DEF GivesUp, Locals
  <2>3. QED BY <2>1, <2>2, TidyingKnows
<1>10. CASE Halts(p)
  <2>1. Rest(p)' = {} /\ Rest(p) # {} /\ Unmarked BY <1>10 DEF Halts
  <2>2. answer'[p] # None BY <1>1, <1>10, ReplayAssumption DEF Halts, Locals
  <2>3. QED BY <2>1, <2>2, TidyingKnows
<1>11. CASE EntersUnknown(p) BY <1>11, RaisedKnows DEF EntersUnknown
<1>12. CASE MakesUnknown(p) BY <1>12, RaisedKnows DEF MakesUnknown
<1>13. CASE PublishesUnknown(p) BY <1>13, RaisedKnows DEF PublishesUnknown
<1>14. CASE UnlinksUnknown(p) BY <1>14, RaisedKnows DEF UnlinksUnknown
<1>15. QED
  BY <1>2, <1>4, <1>5, <1>6, <1>7, <1>8, <1>9, <1>10, <1>11, <1>12, <1>13, <1>14, GoingKnows DEF Acts

----------------------------------------------------------------------------
(* What a step does to the destination.                                    *)

Stays == dir' = dir
Appears(p) ==
  /\ dir = None /\ dir' = p /\ inside' = inside
  /\ Works1(p, "look") /\ "look" \notin Rest(p)'
Goes1(p) == dir' = None /\ inside' = inside /\ There /\ IsEmpty(dir)

Writes(p) ==
  /\ Stays /\ dir \in Dirs
  /\ \/ Put(p, None)
     \/ Put(p, p) /\ Works1(p, "mkstemp") /\ "mkstemp" \notin Rest(p)'
     \/ Fills(p)
     \/ Put(Published, Find(p)) /\ Works1(p, "link") /\ Find(p) # None /\ Find(Published) = None
     \/ Put(Published, None)

Effects(p) ==
  /\ Stays \/ Appears(p) \/ Goes1(p)
  /\ inside' = inside \/ Writes(p)
  /\ content' = content \/ Fills(p)
  /\ \A q \in Replayers : verified'[q] = verified[q] \/ (q = p /\ Works1(p, "verify"))
  /\ \A q \in Replayers : identity'[q] = identity[q] \/ (q = p /\ identity'[q] = dir)
  /\ \A q \in Replayers : Succeeded(q)' => Succeeded(q) \/ (q = p /\ Works1(p, "done"))
  /\ \A q \in Replayers, m \in Milestones :
       /\ m \in Rest(q)' => m \in Rest(q)
       /\ Past(q, m)' => Past(q, m) \/ (q = p /\ Goes(p, m))
  /\ Goes(p, "same") => Find(Published) = database[p]
  /\ Goes(p, "fill") => Fills(p)

LEMMA Milestoning ==
  ASSUME Typed, NEW p \in Replayers, Acts(p), NEW q \in Replayers, NEW m \in Milestones
  PROVE  /\ m \in Rest(q)' => m \in Rest(q)
         /\ Past(q, m)' => Past(q, m) \/ (q = p /\ Goes(p, m))
<1>1. CASE q # p
  <2>1. Same(q) BY <1>1, Frame
  <2>2. QED BY <2>1 DEF Same, Past, Working
<1>2. ASSUME NEW s, Goes(p, s), q = p PROVE /\ m \in Rest(q)' => m \in Rest(q)
                                            /\ Past(q, m)' => Past(q, m) \/ (q = p /\ Goes(p, m))
  <2>1. m \in Rest(p)' <=> m \in Rest(p) /\ m # s BY <1>2 DEF Goes
  <2>2. "done" \in Rest(p) BY <1>2 DEF Goes, Works1, Working
  <2>3. QED BY <1>2, <2>1, <2>2 DEF Past, Working
<1>3. ASSUME NEW s, Raised(p, s), q = p PROVE m \notin Rest(q)' /\ ~Past(q, m)'
  <2>1. \A k \in Milestones : k \notin Remaining(p) BY DEF Remaining, Milestones
  <2>2. "done" \in Milestones BY DEF Milestones
  <2>3. QED BY <1>3, <2>1, <2>2 DEF Raised, Past, Working
<1>4. ASSUME Rest(p)' \subseteq Cleaning, q = p PROVE m \notin Rest(q)' /\ ~Past(q, m)'
  <2>1. \A k \in Milestones : k \notin Cleaning BY DEF Cleaning, Milestones
  <2>2. "done" \in Milestones BY DEF Milestones
  <2>3. QED BY <1>4, <2>1, <2>2 DEF Past, Working
<1>5. ASSUME NEW s, Tidies(p, s) PROVE Rest(p)' \subseteq Cleaning BY <1>5 DEF Tidies, Tidy
<1>6. ASSUME NEW s, Skips(p, s) PROVE Rest(p)' \subseteq Cleaning BY <1>6 DEF Skips, Tidy
<1>7. ASSUME Halts(p) PROVE Rest(p)' \subseteq Cleaning BY <1>7 DEF Halts
<1>8. ASSUME q = p, \/ \E s \in Stages : Passes(p, s)
                    \/ Verifies(p) \/ Enters(p) \/ Identifies(p) \/ Makes(p) \/ Fills(p)
                    \/ Publishes(p) \/ Unlinks(p) \/ Vacates(p) \/ Finishes(p)
      PROVE /\ m \in Rest(q)' => m \in Rest(q)
            /\ Past(q, m)' => Past(q, m) \/ (q = p /\ Goes(p, m))
  BY <1>2, <1>8
  DEF Passes, Verifies, Enters, Identifies, Makes, Fills, Publishes, Unlinks, Vacates, Finishes
<1>9. ASSUME q = p, \/ \E s \in Stages : Falls(p, s)
                    \/ EntersUnknown(p) \/ MakesUnknown(p) \/ PublishesUnknown(p) \/ UnlinksUnknown(p)
      PROVE m \notin Rest(q)' /\ ~Past(q, m)'
  BY <1>3, <1>9 DEF Falls, EntersUnknown, MakesUnknown, PublishesUnknown, UnlinksUnknown
<1>10. ASSUME q = p, \/ \E s \in Stages : Clears(p, s) \/ Skips(p, s)
                     \/ TakesBack(p) \/ Withdraws(p) \/ Leaves(p) \/ GivesUp(p) \/ Halts(p)
      PROVE m \notin Rest(q)' /\ ~Past(q, m)'
  BY <1>4, <1>5, <1>6, <1>7, <1>10 DEF Clears, TakesBack, Withdraws, Leaves, GivesUp
<1>11. QED BY <1>1, <1>8, <1>9, <1>10 DEF Acts

LEMMA Placing ==
  ASSUME Typed, NEW p \in Replayers, Acts(p)
  PROVE  /\ Stays \/ Appears(p) \/ Goes1(p)
         /\ inside' = inside \/ Writes(p)
         /\ content' = content \/ Fills(p)
<1>1. dir \in Dirs \cup {None} BY DEF Typed, Disks
<1>2. \A m \in Milestones : m \notin Remaining(p) BY DEF Remaining, Milestones
<1>3. \A s \in Stages : Passes(p, s) \/ Falls(p, s) \/ Clears(p, s) \/ Skips(p, s) => Still
  BY DEF Passes, Falls, Clears, Skips
<1>4. \/ Verifies(p) \/ Identifies(p) \/ Vacates(p) \/ Finishes(p) \/ GivesUp(p) \/ Halts(p) => Still
  BY DEF Verifies, Identifies, Vacates, Finishes, GivesUp, Halts
<1>5. Still => Stays /\ inside' = inside /\ content' = content BY DEF Still, Stays
<1>6. CASE Enters(p)
  <2>1. "look" \notin Rest(p)' BY <1>6 DEF Enters, Goes, Milestones
  <2>2. QED BY <1>6, <2>1 DEF Enters, Appears, Goes
<1>7. CASE EntersUnknown(p)
  <2>1. "look" \notin Rest(p)' BY <1>2, <1>7 DEF EntersUnknown, Raised, Milestones
  <2>2. QED BY <1>7, <2>1 DEF EntersUnknown, Appears, Raised
<1>8. CASE Makes(p)
  <2>1. "mkstemp" \notin Rest(p)' BY <1>8 DEF Makes, Goes, Milestones
  <2>2. QED BY <1>1, <1>8, <2>1 DEF Makes, Writes, Stays, There, Goes
<1>9. CASE MakesUnknown(p)
  <2>1. "mkstemp" \notin Rest(p)' BY <1>2, <1>9 DEF MakesUnknown, Raised, Milestones
  <2>2. QED BY <1>1, <1>9, <2>1 DEF MakesUnknown, Writes, Stays, There, Raised
<1>10. CASE Fills(p) BY <1>1, <1>10 DEF Fills, Writes, Stays, There
<1>11. CASE Publishes(p) \/ PublishesUnknown(p)
  BY <1>1, <1>11 DEF Publishes, PublishesUnknown, Writes, Stays, There, Goes, Raised
<1>12. CASE Unlinks(p) \/ UnlinksUnknown(p) \/ TakesBack(p)
  BY <1>1, <1>12 DEF Unlinks, UnlinksUnknown, TakesBack, Writes, Stays, There
<1>13. CASE Withdraws(p) BY <1>1, <1>13 DEF Withdraws, Writes, Stays, There
<1>14. CASE Leaves(p) BY <1>14 DEF Leaves, Goes1
<1>15. QED
  BY <1>3, <1>4, <1>5, <1>6, <1>7, <1>8, <1>9, <1>10, <1>11, <1>12, <1>13, <1>14 DEF Acts

LEMMA Noting ==
  ASSUME Typed, NEW p \in Replayers, Acts(p), NEW q \in Replayers
  PROVE  /\ verified'[q] = verified[q] \/ (q = p /\ Works1(p, "verify"))
         /\ identity'[q] = identity[q] \/ (q = p /\ identity'[q] = dir)
         /\ Succeeded(q)' => Succeeded(q) \/ (q = p /\ Works1(p, "done"))
<1>1. Locals BY DEF Typed
<1>2. CASE q # p
  <2>1. Same(q) BY <1>2, Frame
  <2>2. QED BY <2>1 DEF Same, Succeeded
<1>3. CASE q = p
  <2>1. CASE Verifies(p) BY <1>3, <2>1 DEF Verifies, Goes, Succeeded
  <2>2. CASE Identifies(p) BY <1>1, <1>3, <2>2 DEF Identifies, Locals, Still, Succeeded
  <2>3. CASE Finishes(p) BY <1>3, <2>3 DEF Finishes, Unmarked, Goes
  <2>4. CASE GivesUp(p) \/ Halts(p)
    <3>1. answer'[p] \in {"failed", "aborted", "crashed"} BY <1>1, <2>4 DEF GivesUp, Halts, Locals
    <3>2. QED BY <1>3, <2>4, <3>1 DEF GivesUp, Halts, Unmarked, Succeeded
  <2>5. CASE \E s \in Stages : Passes(p, s) \/ Falls(p, s) \/ Clears(p, s) \/ Skips(p, s)
    BY <2>5 DEF Passes, Falls, Clears, Skips, Unmarked, Succeeded
  <2>6. CASE \/ Enters(p) \/ Makes(p) \/ Fills(p) \/ Publishes(p) \/ Unlinks(p) \/ Vacates(p)
    BY <2>6 DEF Enters, Makes, Fills, Publishes, Unlinks, Vacates, Unmarked, Succeeded
  <2>7. CASE \/ TakesBack(p) \/ Withdraws(p) \/ Leaves(p)
             \/ EntersUnknown(p) \/ MakesUnknown(p) \/ PublishesUnknown(p) \/ UnlinksUnknown(p)
    BY <2>7 DEF TakesBack, Withdraws, Leaves, EntersUnknown, MakesUnknown, PublishesUnknown,
                UnlinksUnknown, Unmarked, Succeeded
  <2>8. QED BY <2>1, <2>2, <2>3, <2>4, <2>5, <2>6, <2>7 DEF Acts
<1>4. QED BY <1>2, <1>3

(* A call stands at one stage only, and goes one way from it.              *)
LEMMA AtOne ==
  ASSUME Typed, NEW p \in Replayers, Acts(p)
  PROVE  /\ Goes(p, "same") => Find(Published) = database[p]
         /\ Goes(p, "fill") => Fills(p)
         /\ Goes(p, "identify") => Identifies(p)
         /\ Goes(p, "mkstemp") => Makes(p)
         /\ Goes(p, "link") => Publishes(p)
         /\ Goes(p, "unlink") => Unlinks(p)
         /\ Goes(p, "look") => Enters(p) \/ Passes(p, "look")
<1>1. ASSUME NEW s, NEW e, At(p, s), At(p, e) PROVE s = e BY <1>1 DEF At
<1>2. ASSUME NEW e, Goes(p, e) PROVE At(p, e) /\ e \notin Cleaning /\ Rest(p)' \cap Cleaning = {}
                                     /\ (e = "done" <=> Rest(p)' = {}) /\ "done" \in Rest(p)
  BY <1>2 DEF Goes, Works1, Working
<1>3. ASSUME NEW s, Raised(p, s) PROVE "fail" \in Rest(p)' /\ "fail" \in Cleaning
  BY <1>3 DEF Raised, Remaining, Cleaning
<1>4. ASSUME NEW e, e # "done", Goes(p, e)
      PROVE  \/ \E s \in Stages : Passes(p, s)
             \/ Verifies(p) \/ Enters(p) \/ Identifies(p) \/ Makes(p) \/ Fills(p) \/ Publishes(p)
             \/ Unlinks(p) \/ Vacates(p) \/ Finishes(p)
  <2>1. ~\E s \in Stages : Falls(p, s) BY <1>2, <1>3, <1>4 DEF Falls
  <2>2. ~(EntersUnknown(p) \/ MakesUnknown(p) \/ PublishesUnknown(p) \/ UnlinksUnknown(p))
    BY <1>2, <1>3, <1>4 DEF EntersUnknown, MakesUnknown, PublishesUnknown, UnlinksUnknown
  <2>3. \A s : Tidies(p, s) \/ Skips(p, s) => s \in Cleaning BY DEF Tidies, Skips, Tidy
  <2>4. \A s : ~Tidies(p, s) /\ ~Skips(p, s)
    BY <1>1, <1>2, <1>4, <2>3 DEF Tidies, Skips
  <2>5. ~Halts(p) BY <1>2, <1>4 DEF Halts
  <2>6. QED BY <2>1, <2>2, <2>4, <2>5 DEF Acts, Clears, TakesBack, Withdraws, Leaves, GivesUp
<1>5. ASSUME NEW e \in Milestones \ {"done"}, Goes(p, e)
      PROVE  \/ Passes(p, e) \/ (e = "verify" /\ Verifies(p)) \/ (e = "look" /\ Enters(p))
             \/ (e = "identify" /\ Identifies(p)) \/ (e = "mkstemp" /\ Makes(p))
             \/ (e = "fill" /\ Fills(p)) \/ (e = "link" /\ Publishes(p))
             \/ (e = "unlink" /\ Unlinks(p))
  <2>1. At(p, e) BY <1>5, <1>2
  <2>2. ASSUME NEW s \in Stages, Passes(p, s) PROVE Passes(p, e)
    BY <1>1, <2>1, <2>2 DEF Passes, Goes, Works1
  <2>3. ASSUME NEW s, Goes(p, s) PROVE s = e BY <1>1, <1>2, <2>1, <2>3
  <2>4. ~Vacates(p) BY <1>5, <2>3 DEF Vacates, Milestones
  <2>5. ~Finishes(p) BY <1>5, <2>3 DEF Finishes
  <2>6. /\ Verifies(p) => e = "verify"
        /\ Enters(p) => e = "look"
        /\ Identifies(p) => e = "identify"
        /\ Makes(p) => e = "mkstemp"
        /\ Fills(p) => e = "fill"
        /\ Publishes(p) => e = "link"
        /\ Unlinks(p) => e = "unlink"
    BY <2>3 DEF Verifies, Enters, Identifies, Makes, Fills, Publishes, Unlinks
  <2>7. QED BY <1>4, <1>5, <2>2, <2>4, <2>5, <2>6
<1>6. \A e \in {"fill", "identify", "mkstemp", "link", "unlink"} : ~Passes(p, e)
  BY DEF Passes, Plain
<1>7. Passes(p, "same") => Find(Published) = database[p] BY DEF Passes
<1>8. QED BY <1>5, <1>6, <1>7 DEF Milestones

LEMMA Effecting ==
  ASSUME Typed, NEW p \in Replayers, Acts(p)
  PROVE  Effects(p)
BY Milestoning, Placing, Noting, AtOne DEF Effects

----------------------------------------------------------------------------
(* The files, whatever is edited.                                          *)

LEMMA Orders ==
  ASSUME NEW p \in Replayers, NEW s, Works1(p, s)
  PROVE  /\ s \in Milestones => s \in Rest(p)
         /\ s = "look" => "verify" \notin Rest(p) /\ "identify" \in Rest(p) /\ "mkstemp" \in Rest(p)
         /\ s = "identify" => "look" \notin Rest(p) /\ "mkstemp" \in Rest(p)
         /\ s = "mkstemp" => "identify" \notin Rest(p) /\ "fill" \in Rest(p) /\ "link" \in Rest(p)
         /\ s = "fill" => "mkstemp" \notin Rest(p) /\ "link" \in Rest(p) /\ "same" \in Rest(p)
         /\ s = "link" => "fill" \notin Rest(p) /\ "same" \in Rest(p) /\ "mkstemp" \notin Rest(p)
         /\ s = "same" => "link" \notin Rest(p) /\ "unlink" \in Rest(p) /\ "fill" \notin Rest(p)
         /\ s = "unlink" => "same" \notin Rest(p)
         /\ s = "done" => "unlink" \notin Rest(p) /\ "same" \notin Rest(p)
         /\ s = "verify" => \A m \in Milestones : m \in Rest(p)
         /\ "done" \in Rest(p)
<1>1. /\ Ordered(Rest(p)) /\ Placed(s, Rest(p)) /\ "done" \in Rest(p) BY DEF Works1, Working
<1>2. Milestones = {"verify", "look", "identify", "mkstemp", "fill", "link", "same", "unlink", "done"}
  BY DEF Milestones
<1>3. s = "verify" => "verify" \in Rest(p) BY <1>1, <1>2 DEF Placed
<1>4. QED BY <1>1, <1>2, <1>3 DEF Ordered, Placed

(* What a write leaves in a directory under a name.                        *)
LEMMA Written ==
  ASSUME Disks, NEW n \in Names, NEW f, Put(n, f), dir \in Dirs, NEW d \in Dirs, NEW k \in Names
  PROVE  inside'[d][k] = IF d = dir /\ k = n THEN f ELSE inside[d][k]
BY DEF Disks, Put

LEMMA WrittenBy ==
  ASSUME Disks, NEW p \in Replayers, Files1(p), inside' = inside \/ Writes(p)
  PROVE  \A d \in Dirs :
           /\ \A q \in Replayers : inside'[d][q] = inside[d][q]
                \/ (q = p /\ d = dir /\ dir' = dir /\ inside'[d][q] \in {None, p, Owner})
           /\ inside'[d][Published] = inside[d][Published]
              \/ (d = dir /\ dir' = dir /\ inside'[d][Published] = None)
              \/ (d = dir /\ dir' = dir /\ inside'[d][Published] = Find(p) /\ Works1(p, "link")
                  /\ Find(p) \in {p, Owner})
           /\ d # dir => inside'[d] = inside[d]
<1>1. CASE inside' = inside BY <1>1
<1>2. CASE Writes(p)
  <2>1. /\ dir' = dir /\ dir \in Dirs /\ p \in Names /\ Published \in Names /\ p # Published
        /\ \A q \in Replayers : q \in Names /\ q # Published
    BY <1>2, Identities DEF Writes, Stays
  <2>2. \E f : \E n \in {p, Published} : Put(n, f)
    BY <1>2 DEF Writes, Fills
  <2>3. ASSUME NEW d \in Dirs, d # dir PROVE inside'[d] = inside[d]
    BY <2>1, <2>2, <2>3 DEF Disks, Put
  <2>4. Find(p) \in {None, p, Owner} BY <2>1 DEF Files1, Find
  <2>5. ASSUME NEW f \in {None, p, Owner}, Put(p, f), NEW d \in Dirs
        PROVE  /\ \A q \in Replayers : inside'[d][q] = inside[d][q]
                    \/ (q = p /\ d = dir /\ inside'[d][q] \in {None, p, Owner})
               /\ inside'[d][Published] = inside[d][Published]
    <3>1. \A k \in Names : inside'[d][k] = IF d = dir /\ k = p THEN f ELSE inside[d][k]
      BY <2>1, <2>5, Written
    <3>2. QED BY <2>1, <3>1
  <2>6. ASSUME NEW f, Put(Published, f), NEW d \in Dirs
        PROVE  /\ \A q \in Replayers : inside'[d][q] = inside[d][q]
               /\ inside'[d][Published] = inside[d][Published] \/ (d = dir /\ inside'[d][Published] = f)
    <3>1. \A k \in Names : inside'[d][k] = IF d = dir /\ k = Published THEN f ELSE inside[d][k]
      BY <2>1, <2>6, Written
    <3>2. QED BY <2>1, <3>1
  <2>7. CASE \E f \in {None, p, Owner} : Put(p, f) BY <2>1, <2>3, <2>5, <2>7
  <2>8. CASE Put(Published, None) BY <2>1, <2>3, <2>6, <2>8
  <2>9. CASE Put(Published, Find(p)) /\ Works1(p, "link") /\ Find(p) # None
    BY <2>1, <2>3, <2>4, <2>6, <2>9
  <2>10. QED BY <1>2, <2>7, <2>8, <2>9 DEF Writes, Fills
<1>3. QED BY <1>1, <1>2

LEMMA LooseStep ==
  ASSUME Typed, Loose, NEW p \in Replayers, Acts(p)
  PROVE  Loose'
<1>1. Disks /\ Disks' /\ Locals BY Frame DEF Typed
<1>2. \A q \in Replayers : Files1(q) /\ Knows(q) BY DEF Loose, Typed
<1>3. Effects(p) BY Effecting
<1>4. inside' = inside \/ Writes(p) BY <1>3 DEF Effects
<1>5. \A d \in Dirs :
           /\ \A q \in Replayers : inside'[d][q] = inside[d][q]
                \/ (q = p /\ d = dir /\ dir' = dir /\ inside'[d][q] \in {None, p, Owner})
           /\ inside'[d][Published] = inside[d][Published]
              \/ (d = dir /\ dir' = dir /\ inside'[d][Published] = None)
              \/ (d = dir /\ dir' = dir /\ inside'[d][Published] = Find(p) /\ Works1(p, "link")
                  /\ Find(p) \in {p, Owner})
           /\ d # dir => inside'[d] = inside[d]
  BY <1>1, <1>2, <1>4, WrittenBy
<1>6. dir' # Owner => inside'[Owner] = Vacant
  <2>1. Owner \in Dirs BY Identities
  <2>2. CASE dir # Owner BY <1>2, <1>5, <2>1, <2>2 DEF Loose
  <2>3. CASE dir = Owner /\ dir' # Owner
    <3>1. inside' = inside /\ inside[Owner] = Vacant
      BY <1>3, <2>3, Identities DEF Effects, Stays, Appears, Goes1, IsEmpty
    <3>2. QED BY <3>1
  <2>4. QED BY <2>2, <2>3
<1>7. ASSUME NEW q \in Replayers PROVE Files1(q)'
  <2>1. /\ q \in Dirs /\ q # Owner /\ q # None /\ q # Published /\ q \in Names BY Identities
  <2>2. \A m \in Milestones : /\ m \in Rest(q)' => m \in Rest(q)
                              /\ Past(q, m)' => Past(q, m) \/ (q = p /\ Goes(p, m))
    BY <1>3 DEF Effects
  <2>3. Milestones = {"verify", "look", "identify", "mkstemp", "fill", "link", "same", "unlink", "done"}
    BY DEF Milestones
  <2>4. ASSUME "look" \in Rest(q)' PROVE Unborn(q)'
    <3>1. Unborn(q) BY <1>2, <2>2, <2>3, <2>4 DEF Files1
    <3>2. dir' # q BY <1>3, <2>1, <2>4, <3>1 DEF Effects, Stays, Appears, Goes1, Unborn
    <3>3. inside'[q] = Vacant BY <1>5, <2>1, <3>1 DEF Unborn
    <3>4. \A r \in Replayers : identity'[r] # q BY <1>3, <3>1 DEF Effects, Unborn
    <3>5. QED BY <3>2, <3>3, <3>4 DEF Unborn, Vacant
  <2>5. ASSUME "mkstemp" \in Rest(q)' PROVE Unmade(q)'
    <3>1. Unmade(q) /\ "mkstemp" \in Rest(q) BY <1>2, <2>2, <2>3, <2>5 DEF Files1
    <3>2. \A d \in Dirs : inside'[d][Published] # q
      <4>1. Works1(p, "link") => q # p BY <3>1, Orders
      <4>2. Works1(p, "link") /\ Find(p) \in {p, Owner} => Find(p) # q BY <2>1, <4>1
      <4>3. QED BY <1>5, <2>1, <3>1, <4>2 DEF Unmade
    <3>3. \A d \in Dirs : inside'[d][q] = None
      <4>1. CASE inside' = inside BY <3>1, <4>1 DEF Unmade
      <4>2. CASE Put(p, None) /\ dir \in Dirs BY <1>1, <2>1, <3>1, <4>2, Written, Identities DEF Unmade
      <4>3. CASE q # p BY <1>5, <3>1, <4>3 DEF Unmade
      <4>4. CASE \E f : Put(Published, f) /\ dir \in Dirs
        BY <1>1, <2>1, <3>1, <4>4, Written, Identities DEF Unmade
      <4>5. Fills(p) => "mkstemp" \notin Rest(p) BY Orders DEF Fills, Goes
      <4>6. QED BY <1>4, <2>5, <3>1, <4>1, <4>2, <4>3, <4>4, <4>5 DEF Writes
    <3>4. QED BY <3>2, <3>3 DEF Unmade
  <2>6. \A d \in Dirs : inside'[d][q] \in {None, q, Owner} BY <1>2, <1>5 DEF Files1
  <2>7. ASSUME Filled(q), "fill" \notin Rest(q) PROVE Filled(q)'
    <3>1. "verify" \notin Rest(q) \/ q # p \/ ~Works1(p, "verify") BY <2>3, <2>7, Orders
    <3>2. verified'[q] = verified[q]
      <4>1. Works1(p, "verify") => q # p BY <2>3, <2>7, Orders
      <4>2. QED BY <1>3, <4>1 DEF Effects
    <3>3. content'[q] = content[q]
      <4>1. CASE content' = content BY <4>1
      <4>2. CASE Fills(p)
        <5>1. q # p BY <2>3, <2>7, <4>2, Orders DEF Fills, Goes
        <5>2. PICK f \in {p, Owner} : content' = [content EXCEPT ![f] = verified[p]]
          BY <4>2 DEF Fills
        <5>3. QED BY <1>1, <2>1, <5>1, <5>2, Identities DEF Disks
      <4>3. QED BY <1>3, <4>1, <4>2 DEF Effects
    <3>4. QED BY <2>7, <3>2, <3>3 DEF Filled
  <2>8. ASSUME Past(q, "fill")', "link" \in Rest(q)' PROVE Filled(q)' \/ Lost(q)'
    <3>1. "link" \in Rest(q) BY <2>2, <2>3, <2>8
    <3>2. CASE Past(q, "fill")
      <4>1. Filled(q) \/ Lost(q) BY <1>2, <3>1, <3>2 DEF Files1
      <4>2. "fill" \notin Rest(q) BY <3>2 DEF Past
      <4>3. ASSUME Lost(q) PROVE Lost(q)'
        <5>1. "mkstemp" \notin Rest(q) \/ q # p \/ ~Works1(p, "mkstemp") BY <4>2, Orders
        <5>2. ~(q = p /\ Works1(p, "mkstemp")) /\ ~(q = p /\ Fills(p))
          BY <2>3, <4>2, Orders DEF Fills, Goes
        <5>3. \A d \in Dirs : inside[d][q] # q => inside'[d][q] # q
          <6>1. CASE q # p BY <1>5, <6>1
          <6>2. CASE inside' = inside BY <6>2
          <6>3. CASE Put(p, None) /\ dir \in Dirs BY <1>1, <2>1, <6>3, Written, Identities
          <6>4. CASE \E f : Put(Published, f) /\ dir \in Dirs
            BY <1>1, <2>1, <6>4, Written, Identities
          <6>5. QED BY <1>4, <5>2, <6>1, <6>2, <6>3, <6>4 DEF Writes
        <5>4. dir' \in {dir, None} \/ (dir' = p /\ inside'[p] = Vacant /\ p \in Dirs)
          <6>1. Appears(p) => inside[p] = Vacant /\ inside' = inside
            BY <1>2, <2>3, Orders DEF Appears, Files1, Unborn
          <6>2. QED BY <1>3, <6>1, Identities DEF Effects, Stays, Appears, Goes1
        <5>5. dir \in Dirs \cup {None} /\ Owner \in Dirs BY <1>1, Identities DEF Disks
        <5>6. Vacant[q] = None BY <2>1 DEF Vacant
        <5>7. ASSUME NEW d \in {dir', Owner} \ {None} PROVE inside'[d][q] # q
          <6>1. CASE d \in {dir, Owner} BY <4>3, <5>3, <5>5, <5>7, <6>1 DEF Lost
          <6>2. CASE d = p /\ inside'[p] = Vacant BY <2>1, <5>6, <6>2
          <6>3. QED BY <5>4, <5>7, <6>1, <6>2
        <5>8. QED BY <5>7 DEF Lost
      <4>4. QED BY <2>7, <4>1, <4>2, <4>3
    <3>3. CASE q = p /\ Goes(p, "fill")
      <4>1. Fills(p) /\ dir' = dir /\ dir \in Dirs
        BY <1>1, <1>3, <3>3 DEF Effects, Fills, There, Disks
      <4>2. PICK f \in {p, Owner} : Put(p, f) /\ content' = [content EXCEPT ![f] = verified[p]]
        BY <4>1 DEF Fills
      <4>3. CASE f = p
        <5>1. content'[p] = verified[p] BY <1>1, <4>2, <4>3, Identities DEF Disks
        <5>2. verified'[p] = verified[p] BY <4>1 DEF Fills, Unmarked
        <5>3. QED BY <3>3, <5>1, <5>2 DEF Filled
      <4>4. CASE f = Owner
        <5>1. inside'[dir][p] = Owner BY <1>1, <2>1, <3>3, <4>1, <4>2, <4>4, Written
        <5>2. dir # Owner => inside'[Owner] = Vacant BY <1>6, <4>1
        <5>3. dir # Owner => inside'[Owner][p] = None BY <2>1, <3>3, <5>2 DEF Vacant
        <5>4. QED BY <2>1, <3>3, <4>1, <5>1, <5>3 DEF Lost
      <4>5. QED BY <4>2, <4>3, <4>4
    <3>4. QED BY <2>2, <2>3, <2>8, <3>2, <3>3
  <2>9. ASSUME NEW d \in Dirs, inside'[d][Published] = q PROVE Filled(q)' /\ "fill" \notin Rest(q)'
    <3>1. Filled(q) /\ "fill" \notin Rest(q)
      <4>1. CASE inside[d][Published] = q BY <1>2, <4>1 DEF Files1
      <4>2. CASE d = dir /\ Find(p) = q /\ Works1(p, "link") /\ Find(p) \in {p, Owner}
        <5>1. q = p BY <2>1, <4>2
        <5>2. /\ "fill" \notin Rest(p) /\ "link" \in Rest(p) /\ Past(p, "fill")
          BY <2>3, <4>2, Orders DEF Past, Working
        <5>3. Filled(p) \/ Lost(p) BY <1>2, <5>2 DEF Files1
        <5>4. ~Lost(p) BY <2>1, <4>2, <5>1, Identities DEF Lost, Find, There
        <5>5. QED BY <5>1, <5>2, <5>3, <5>4
      <4>3. QED BY <1>5, <2>1, <2>9, <4>1, <4>2
    <3>2. QED BY <2>2, <2>3, <2>7, <3>1
  <2>10. ASSUME Past(q, "same")' \/ Succeeded(q)' PROVE Filled(q)'
    <3>1. Filled(q) /\ "fill" \notin Rest(q)
      <4>1. CASE Past(q, "same")
        <5>1. Filled(q) BY <1>2, <4>1 DEF Files1
        <5>2. Under BY DEF Typed
        <5>3. todo[q] # <<>> BY <4>1, <5>2, RestEmpty DEF Past, Working
        <5>4. Works(todo[q]) \/ Cleans(todo[q]) BY <5>2, <5>3, Here
        <5>5. Ordered(Rest(q)) BY <4>1, <5>4 DEF Works, Cleans, Tidy, Rest, Past, Working, Cleaning
        <5>6. QED BY <4>1, <5>1, <5>5 DEF Ordered, Past
      <4>2. CASE Succeeded(q)
        <5>1. answer[q] # None BY <4>2, ReplayAssumption DEF Succeeded
        <5>2. Rest(q) = {} BY <1>2, <5>1 DEF Knows
        <5>3. QED BY <1>2, <4>2, <5>2 DEF Files1
      <4>3. CASE q = p /\ Goes(p, "same")
        <5>1. Find(Published) = database[p] BY <1>3, <4>3 DEF Effects
        <5>2. "fill" \notin Rest(p) /\ "link" \notin Rest(p) /\ "done" \in Rest(p) /\ Ordered(Rest(p))
          BY <4>3, Orders DEF Goes, Works1
        <5>3. Past(p, "mkstemp") BY <5>2 DEF Past, Working, Ordered
        <5>4. database[p] = p BY <1>2, <5>3 DEF Knows
        <5>5. dir \in Dirs /\ inside[dir][Published] = p
          BY <1>1, <2>1, <4>3, <5>1, <5>4 DEF Find, There, Disks
        <5>6. QED BY <1>2, <4>3, <5>5 DEF Files1
      <4>4. CASE q = p /\ Works1(p, "done")
        <5>1. Past(p, "same") /\ Ordered(Rest(p)) BY <4>4, Orders DEF Past, Working, Works1
        <5>2. QED BY <1>2, <4>4, <5>1 DEF Files1, Past, Ordered
      <4>5. QED BY <1>3, <2>2, <2>3, <2>10, <4>1, <4>2, <4>3, <4>4 DEF Effects
    <3>2. QED BY <2>7, <3>1
  <2>11. QED BY <2>4, <2>5, <2>6, <2>8, <2>9, <2>10 DEF Files1
<1>8. QED BY <1>6, <1>7 DEF Loose, Vacant

LEMMA EditStep ==
  ASSUME Typed, Loose, Edits
  PROVE  Disks' /\ Locals' /\ Loose' /\ \A p \in Replayers : Knows(p)'
<1>1. Disks /\ Locals /\ (\A q \in Replayers : Files1(q) /\ Knows(q)) BY DEF Typed, Loose
<1>2. /\ UNCHANGED <<answer, created, identity, database, descriptor, staged, verified>>
      /\ \A q \in Replayers : Rest(q)' = Rest(q)
  BY DEF Edits, local
<1>3. Locals' BY <1>1, <1>2 DEF Locals
<1>4. ASSUME NEW q \in Replayers PROVE Knows(q)' BY <1>1, <1>2 DEF Knows, Past, Working
<1>5. /\ \A m, q : Past(q, m)' <=> Past(q, m)
      /\ \A q : Succeeded(q)' <=> Succeeded(q)
      /\ TRUE
  <2>1. \A q : Succeeded(q)' <=> Succeeded(q) BY <1>2 DEF Succeeded
  <2>2. \A q : Rest(q)' = Rest(q) BY DEF Edits, local, Rest
  <2>3. \A m, q : Past(q, m)' <=> Past(q, m) BY <2>2 DEF Past, Working
  <2>4. QED BY <2>1, <2>3
<1>6. /\ \A q \in Replayers : /\ q \in Dirs /\ q \in Files /\ q \in Names
                              /\ q # Owner /\ q # None /\ q # Published
      /\ Owner \in Dirs /\ Owner \in Files /\ Published \in Names /\ Owner # None
  BY Identities
<1>7. \/ source' \in {"other", "broken"} /\ UNCHANGED <<dir, inside, content>>
      \/ dir' = Owner /\ UNCHANGED <<inside, content, source>>
      \/ \E n \in Names : There /\ (n = Published \/ Find(n) # None)
                          /\ Put(n, Owner) /\ content' = [content EXCEPT ![Owner] = "foreign"]
                          /\ UNCHANGED <<dir, source>>
  BY DEF Edits, Edit
<1>8. ASSUME UNCHANGED <<inside, content>>, dir' \in {dir, Owner} PROVE Loose'
  <2>1. dir' # Owner => inside'[Owner] = Vacant BY <1>8 DEF Loose
  <2>2. ASSUME NEW q \in Replayers PROVE Files1(q)'
    <3>1. Files1(q) BY <1>1
    <3>2. Lost(q) => Lost(q)' BY <1>8 DEF Lost
    <3>3. Unborn(q) => Unborn(q)' BY <1>2, <1>6, <1>8 DEF Unborn, Vacant
    <3>4. Filled(q)' <=> Filled(q) BY <1>2, <1>8 DEF Filled
    <3>5. Unmade(q)' <=> Unmade(q) BY <1>8 DEF Unmade
    <3>6. QED BY <1>2, <1>5, <1>8, <3>1, <3>2, <3>3, <3>4, <3>5 DEF Files1
  <2>3. QED BY <2>1, <2>2 DEF Loose, Vacant
<1>9. CASE source' \in {"other", "broken"} /\ UNCHANGED <<dir, inside, content>>
  BY <1>1, <1>3, <1>4, <1>8, <1>9 DEF Disks
<1>10. CASE dir' = Owner /\ UNCHANGED <<inside, content, source>>
  BY <1>1, <1>3, <1>4, <1>6, <1>8, <1>10 DEF Disks
<1>11. CASE \E n \in Names : There /\ (n = Published \/ Find(n) # None)
                             /\ Put(n, Owner) /\ content' = [content EXCEPT ![Owner] = "foreign"]
                             /\ UNCHANGED <<dir, source>>
  <2>1. PICK n \in Names : There /\ (n = Published \/ Find(n) # None)
                           /\ Put(n, Owner) /\ content' = [content EXCEPT ![Owner] = "foreign"]
                           /\ UNCHANGED <<dir, source>>
    BY <1>11
  <2>2. dir \in Dirs BY <1>1, <2>1 DEF There, Disks
  <2>3. Disks' BY <1>1, <1>6, <2>1, <2>2 DEF Disks, Put
  <2>4. \A d \in Dirs, k \in Names : inside'[d][k] = IF d = dir /\ k = n THEN Owner ELSE inside[d][k]
    BY <1>1, <2>1, <2>2, Written
  <2>5. \A d \in Dirs : d # dir => inside'[d] = inside[d] BY <1>1, <2>1, <2>2 DEF Disks, Put
  <2>6. dir' # Owner => inside'[Owner] = Vacant BY <1>6, <2>1, <2>5 DEF Loose
  <2>7. ASSUME NEW q \in Replayers PROVE Files1(q)'
    <3>1. Files1(q) BY <1>1
    <3>2. content'[q] = content[q] BY <1>1, <1>6, <2>1 DEF Disks
    <3>3. Filled(q)' <=> Filled(q) BY <1>2, <3>2 DEF Filled
    <3>4. \A d \in Dirs, k \in Names : inside'[d][k] = inside[d][k] \/ inside'[d][k] = Owner BY <2>4
    <3>5. Lost(q) => Lost(q)'
      <4>1. {dir, Owner} \ {None} \subseteq Dirs BY <1>6, <2>2
      <4>2. QED BY <1>6, <2>1, <3>4, <4>1 DEF Lost
    <3>6. Unborn(q) => Unborn(q)'
      <4>1. dir # q => inside'[q] = inside[q] BY <1>6, <2>5
      <4>2. QED BY <1>2, <2>1, <4>1 DEF Unborn, Vacant
    <3>7. Unmade(q) => Unmade(q)'
      <4>1. ASSUME Unmade(q), n = q PROVE FALSE BY <1>6, <2>1, <2>2, <4>1 DEF Unmade, Find
      <4>2. ASSUME Unmade(q), NEW d \in Dirs PROVE inside'[d][q] = None /\ inside'[d][Published] # q
        BY <1>6, <2>4, <4>1, <4>2 DEF Unmade
      <4>3. QED BY <4>2 DEF Unmade
    <3>8. \A d \in Dirs : inside'[d][Published] = q => inside[d][Published] = q BY <1>6, <3>4
    <3>9. \A d \in Dirs : inside'[d][q] \in {None, q, Owner} BY <1>6, <3>1, <3>4 DEF Files1
    <3>10. QED BY <1>2, <1>5, <3>1, <3>3, <3>5, <3>6, <3>7, <3>8, <3>9 DEF Files1
  <2>8. QED BY <1>3, <1>4, <2>3, <2>6, <2>7 DEF Loose, Vacant
<1>12. QED BY <1>7, <1>9, <1>10, <1>11

LEMMA BoundedStep ==
  ASSUME Typed, Next
  PROVE  Bounded'
<1>1. Bounded /\ {MaxFaults, MaxTrouble} \subseteq Nat BY ReplayAssumption DEF Typed
<1>2. CASE Edit
  <2>1. faults + 2 * edits + 1 < MaxTrouble /\ edits' = edits + 1 /\ faults' = faults
    BY <1>2 DEF Edit
  <2>2. QED BY <1>1, <2>1 DEF Bounded
<1>3. ASSUME NEW p \in Replayers, Replay(p) PROVE UNCHANGED <<faults, edits>>
  BY <1>3
  DEF Replay, Verify, LookAndEnter, Identify, Guard, RequireDirectory, MakeTemporary, OwnedTemporary,
      OwnedPublished, Fill, Reopen, Link, SameIdentity, Reread, VerifyAgain, Close, Unlink, VacantAgain,
      Single, Alone, Done, Require, bounds
<1>4. ASSUME NEW p \in Replayers, RemoveOwned(p) PROVE UNCHANGED <<faults, edits>>
  BY <1>4
  DEF RemoveOwned, RemoveTemporary, CheckPublished, UnlinkPublished, CheckDirectory, RemoveDirectory,
      Fail, Check, bounds
<1>5. ASSUME NEW p \in Replayers, Fault(p) PROVE Bounded'
  <2>1. faults < MaxFaults /\ faults' = faults + 1 /\ edits' = edits
    BY <1>5 DEF Fault, Interrupted, InterruptedUnknown, CleanupFails, Crash, Strike
  <2>2. QED BY <1>1, <2>1 DEF Bounded
<1>6. QED BY <1>1, <1>2, <1>3, <1>4, <1>5 DEF Next, Bounded

LEMMA DescriptorStep ==
  ASSUME Typed, Next
  PROVE  descriptor' \in [Replayers -> BOOLEAN]
<1>1. descriptor \in [Replayers -> BOOLEAN] BY DEF Typed, Locals
<1>2. ASSUME NEW p, Raise(p) PROVE descriptor' \in [Replayers -> BOOLEAN] BY <1>1, <1>2 DEF Raise
<1>3. CASE Edit BY <1>1, <1>3 DEF Edit, local
<1>4. ASSUME NEW p \in Replayers, Replay(p)
      PROVE \/ descriptor' = descriptor \/ Raise(p)
            \/ \E b \in BOOLEAN : descriptor' = [descriptor EXCEPT ![p] = b]
  BY <1>4
  DEF Replay, Verify, LookAndEnter, Identify, Guard, RequireDirectory, MakeTemporary, OwnedTemporary,
      OwnedPublished, Fill, Reopen, Link, SameIdentity, Reread, VerifyAgain, Close, Unlink, VacantAgain,
      Single, Alone, Done, Require
<1>5. ASSUME NEW p \in Replayers, RemoveOwned(p) PROVE descriptor' = descriptor
  BY <1>5
  DEF RemoveOwned, RemoveTemporary, CheckPublished, UnlinkPublished, CheckDirectory, RemoveDirectory,
      Fail, Check
<1>6. ASSUME NEW p \in Replayers, Fault(p)
      PROVE \/ descriptor' = descriptor \/ Raise(p)
            \/ \E b \in BOOLEAN : descriptor' = [descriptor EXCEPT ![p] = b]
  BY <1>6 DEF Fault, Interrupted, InterruptedUnknown, CleanupFails, Crash
<1>7. QED BY <1>1, <1>2, <1>3, <1>4, <1>5, <1>6 DEF Next

LEMMA BeginsTyped ==
  ASSUME Init
  PROVE  Typed /\ Loose
<1>1. ASSUME NEW p \in Replayers
      PROVE  /\ todo[p] = Program(p) /\ Controlled(p) /\ todo[p] \in Seq(Stages)
             /\ \A m \in Milestones : m \in Rest(p)
             /\ Rest(p) \cap Cleaning = {} /\ Rest(p) # {}
  <2>1. todo[p] = Program(p) /\ version \in Assignments BY DEF Init
  <2>2. PICK m : Laid(Program(p), m) BY <2>1, ProgramWorks
  <2>3. PICK P : P = Program(p) OBVIOUS
  <2>4. P \in Seq(Stages) BY <2>2, <2>3 DEF Laid
  <2>5. Len(P) \in Nat BY <2>4
  <2>6. IsSuffix(P, P)
    <3>1. \A i \in 1 .. Len(P) : P[i] = P[Len(P) - Len(P) + i] BY <2>5
    <3>2. QED BY <2>4, <2>5, <3>1 DEF IsSuffix
  <2>7. \A s : s \in Range(P) <=> \E i \in 1 .. Len(P) : P[i] = s BY <2>4, RangeIs
  <2>8. \A s \in Milestones : s \in Range(P)
    <3>1. \A s \in Milestones : m[s] \in 1 .. Len(P) /\ P[m[s]] = s BY <2>2, <2>3 DEF Laid
    <3>2. QED BY <2>7, <3>1
  <2>9. Range(P) \cap Cleaning = {} BY <2>2, <2>3, <2>7 DEF Laid
  <2>10. Range(P) # {} BY <2>8 DEF Milestones
  <2>11. QED BY <2>1, <2>3, <2>4, <2>6, <2>8, <2>9, <2>10 DEF Rest, Controlled
<1>2. Under
  <2>1. todo \in [Replayers -> Seq(Stages)]
    <3>1. todo = [p \in Replayers |-> Program(p)] BY DEF Init
    <3>2. \A p \in Replayers : Program(p) \in Seq(Stages) BY <1>1
    <3>3. QED BY <3>1, <3>2
  <2>2. QED BY <1>1, <2>1 DEF Under, Init
<1>3. PICK given \in Given : dir = IF given THEN "given" ELSE None BY DEF Init
<1>4. dir \in {"given", None} BY <1>3
<1>5. /\ \A p \in Replayers : /\ p \in Names /\ p \in Dirs /\ p \in Files
                              /\ p # Owner /\ p # Published /\ p # None /\ p # "given"
      /\ Owner \in Dirs /\ Owner \in Files /\ "given" \in Dirs /\ Published \in Names
  BY Identities
<1>6. Vacant \in [Names -> Files \cup {None}] /\ \A n \in Names : Vacant[n] = None BY DEF Vacant
<1>7. Disks
  <2>1. inside = [d \in Dirs |-> Vacant] /\ content = [f \in Files |-> "empty"] /\ source = "bundle"
    BY DEF Init
  <2>2. inside \in [Dirs -> [Names -> Files \cup {None}]] BY <1>6, <2>1
  <2>3. QED BY <1>4, <1>5, <2>1, <2>2 DEF Disks
<1>8. Locals BY DEF Init, Locals
<1>9. Bounded BY ReplayAssumption DEF Init, Bounded
<1>10. ASSUME NEW p \in Replayers PROVE Knows(p)
  <2>1. /\ answer[p] = None /\ ~created[p] /\ identity[p] = None /\ database[p] = None
    BY DEF Init
  <2>2. \A m \in {"identify", "mkstemp", "verify"} : ~Past(p, m) BY <1>1 DEF Past, Milestones
  <2>3. "remove_temporary" \notin Rest(p) /\ "unlink_published" \notin Rest(p) /\ "rmdir" \notin Rest(p)
    BY <1>1 DEF Cleaning
  <2>4. QED BY <1>1, <2>1, <2>2, <2>3 DEF Knows
<1>11. ASSUME NEW p \in Replayers PROVE Files1(p)
  <2>1. \A d \in Dirs : inside[d] = Vacant BY DEF Init
  <2>2. \A d \in Dirs, n \in Names : inside[d][n] = None BY <1>6, <2>1
  <2>3. \A q \in Replayers : identity[q] # p BY <1>5 DEF Init
  <2>4. Unborn(p) BY <1>4, <1>5, <2>1, <2>3 DEF Unborn
  <2>5. Unmade(p) BY <1>5, <2>2 DEF Unmade
  <2>6. \A m \in {"fill", "same"} : ~Past(p, m) BY <1>1 DEF Past, Milestones
  <2>7. ~Succeeded(p) BY ReplayAssumption DEF Init, Succeeded
  <2>8. QED BY <1>5, <2>2, <2>4, <2>5, <2>6, <2>7 DEF Files1
<1>12. Loose BY <1>5, <1>11 DEF Loose, Init
<1>13. QED BY <1>2, <1>7, <1>8, <1>9, <1>10, <1>12 DEF Typed

LEMMA TypedStep ==
  ASSUME Typed, Loose, [Next]_vars
  PROVE  Typed' /\ Loose'
<1>1. CASE Next
  <2>1. Under' /\ (Edits \/ \E p \in Replayers : Acts(p)) BY <1>1, Steps DEF Loose
  <2>2. Bounded' /\ descriptor' \in [Replayers -> BOOLEAN] BY <1>1, BoundedStep, DescriptorStep
  <2>3. CASE Edits BY <2>1, <2>2, <2>3, EditStep DEF Typed
  <2>4. ASSUME NEW p \in Replayers, Acts(p) PROVE Typed' /\ Loose'
    <3>1. Disks' /\ Locals' BY <2>2, <2>4, Frame DEF Locals
    <3>2. Knows(p)' BY <2>4, KnowsStep
    <3>3. \A q \in Replayers : Knows(q)'
      <4>1. \A q \in Replayers : q # p => Same(q) BY <2>4, Frame
      <4>2. QED BY <3>2, <4>1, OthersKnow DEF Typed
    <3>4. Loose' BY <2>4, LooseStep
    <3>5. QED BY <2>1, <2>2, <3>1, <3>3, <3>4 DEF Typed
  <2>5. QED BY <2>1, <2>3, <2>4
<1>2. CASE UNCHANGED vars
  <2>1. UNCHANGED <<version, dir, inside, content, source, todo, answer, created, identity, database,
                    descriptor, staged, verified, faults, edits, struck, joined>>
    BY <1>2 DEF vars, disk, local, bounds
  <2>2. \A p : /\ Rest(p)' = Rest(p) /\ Program(p)' = Program(p)
               /\ \A m : Past(p, m)' <=> Past(p, m)
    BY <2>1 DEF Rest, Program, Past, Working
  <2>3. Under' BY <2>1, <2>2 DEF Typed, Under, Controlled
  <2>4. Disks' /\ Locals' /\ Bounded' BY <2>1 DEF Typed, Disks, Locals, Bounded
  <2>5. \A p \in Replayers : Knows(p)' BY <2>1, <2>2 DEF Typed, Knows
  <2>6. \A p \in Replayers : Files1(p)'
    BY <2>1, <2>2 DEF Loose, Files1, Unborn, Unmade, Filled, Lost, Succeeded, Vacant
  <2>7. QED BY <2>1, <2>3, <2>4, <2>5, <2>6 DEF Typed, Loose, Vacant
<1>3. QED BY <1>1, <1>2

(* In every behaviour.                                                     *)
THEOREM Foundation == Spec => [](Typed /\ Loose)
<1>1. Init => Typed /\ Loose BY BeginsTyped
<1>2. (Typed /\ Loose) /\ [Next]_vars => (Typed /\ Loose)' BY TypedStep
<1>3. QED BY <1>1, <1>2, PTL DEF Spec

----------------------------------------------------------------------------
(* While nobody edits.                                                     *)

LEMMA FindPut ==
  ASSUME Disks, NEW n \in Names, NEW f, Put(n, f), dir' = dir, dir \in Dirs
  PROVE  \A k \in Names : Find(k)' = IF k = n THEN f ELSE Find(k)
<1>1. dir # None BY Identities
<1>2. QED BY <1>1, Written DEF Find, There

LEMMA FindStill ==
  ASSUME Still
  PROVE  \A k : Find(k)' = Find(k)
BY DEF Still, Find, There

(* The destination appears and goes while it holds nothing.                *)
LEMMA FindNothing ==
  ASSUME Disks, Disks', Holding, inside' = inside, dir = None \/ (There /\ IsEmpty(dir))
  PROVE  \A k \in Names : Find(k)' = None /\ Find(k) = None
<1>1. ASSUME NEW d \in Dirs, NEW k \in Names PROVE inside[d][k] = None
  <2>1. inside[d] = Vacant BY Identities DEF Holding, IsEmpty
  <2>2. QED BY <2>1 DEF Vacant
<1>2. dir \in Dirs \cup {None} /\ dir' \in Dirs \cup {None} BY DEF Disks
<1>3. QED BY <1>1, <1>2 DEF Find, There

LEMMA Busy ==
  ASSUME Typed, NEW p \in Replayers, Acts(p)
  PROVE  Rest(p) # {} /\ answer[p] = None /\ ~Succeeded(p)
<1>1. Under /\ Knows(p) BY DEF Typed
<1>2. \E s : At(p, s)
  BY DEF Acts, Passes, Falls, Clears, Skips, Verifies, Enters, Identifies, Makes, Fills, Publishes,
         Unlinks, Vacates, Finishes, TakesBack, Withdraws, Leaves, GivesUp, Halts, EntersUnknown,
         MakesUnknown, PublishesUnknown, UnlinksUnknown, Goes, Raised, Works1, Tidies
<1>3. Rest(p) # {} BY <1>1, <1>2, RestEmpty DEF At
<1>4. QED BY <1>1, <1>3, ReplayAssumption DEF Knows, Succeeded

LEMMA StruckStays ==
  ASSUME Typed, NEW p \in Replayers, Acts(p)
  PROVE  /\ struck \subseteq struck'
         /\ \A q, S : StruckIn(q, S) => StruckIn(q, S)'
         /\ joined \subseteq joined'
<1>1. struck \subseteq struck' BY Frame DEF Strikes
<1>2. ASSUME NEW q, NEW S, StruckIn(q, S) PROVE StruckIn(q, S)'
  BY <1>1, <1>2 DEF StruckIn
<1>3. joined \subseteq joined'
  BY DEF Acts, Passes, Falls, Clears, Skips, Verifies, Enters, Identifies, Makes, Fills, Publishes,
         Unlinks, Vacates, Finishes, TakesBack, Withdraws, Leaves, GivesUp, Halts, EntersUnknown,
         MakesUnknown, PublishesUnknown, UnlinksUnknown, EnterByPath
<1>4. QED BY <1>1, <1>2, <1>3

LEMMA StrikesIn ==
  ASSUME NEW p, NEW s, Strikes(p, s), NEW S, s \in S
  PROVE  StruckIn(p, S)'
<1>1. <<p, s>> \in struck' BY DEF Strikes
<1>2. <<p, s>>[1] = p /\ <<p, s>>[2] = s OBVIOUS
<1>3. QED BY <1>1, <1>2 DEF StruckIn

(* The three ways of a call, by what it finds.                             *)
Treads(p, s) ==
  /\ Goes(p, s) /\ UNCHANGED struck
  /\ Find(p)' = IF s = "mkstemp" THEN p ELSE IF s = "unlink" THEN None ELSE Find(p)
  /\ Find(Published)' = IF s = "link" THEN p ELSE Find(Published)
  /\ s = "link" => Find(Published) = None /\ Find(p) = p
  /\ s # "mkstemp" => database'[p] = database[p] /\ joined' \in {joined, joined \cup {dir}}
  /\ s = "mkstemp" => database'[p] = p /\ staged'[p] /\ There /\ EnterByPath(p)
  /\ s \notin {"mkstemp", "unlink", "vacant"} => staged'[p] = staged[p]
  /\ s = "vacant" => Find(p) = None
  /\ answer'[p] = IF s = "done" THEN "equivalent" ELSE answer[p]
  /\ s # "identify" => identity'[p] = identity[p]
  /\ s = "identify" =>
       /\ identity'[p] = dir /\ There
       /\ joined' = IF \E q \in Replayers \ {p} : identity[q] = dir THEN joined \cup {dir} ELSE joined
  /\ s # "look" => created'[p] = created[p] /\ dir' = dir
  /\ s = "look" => \/ created'[p] = created[p] /\ dir' = dir /\ There
                   \/ created'[p] = TRUE /\ dir = None /\ dir' = p

Backs(p, s) ==
  /\ Raised(p, s) /\ Unmarked /\ UNCHANGED answer
  /\ \/ Find(p)' = Find(p)
     \/ Find(p)' = p /\ s = "mkstemp" /\ Strikes(p, s) /\ There /\ EnterByPath(p)
     \/ Find(p)' = None /\ Find(p) = p
  /\ s # "mkstemp" => UNCHANGED joined
  /\ \/ Find(Published)' = Find(Published)
     \/ Find(Published)' = p /\ Find(Published) = None /\ Find(p) = p /\ s = "link" /\ Strikes(p, s)
  /\ \/ dir' = dir
     \/ dir = None /\ dir' = p /\ s = "look" /\ Strikes(p, s)
  /\ (UNCHANGED struck /\ Reason(p, s)) \/ Strikes(p, s)

Gone(p, e) == e \in Rest(p) /\ e \notin Rest(p)'
Sweeps(p, s) ==
  /\ At(p, s) /\ Tidy(s, Rest(p)) /\ Elsewhere(p) /\ Unmarked /\ UNCHANGED joined
  /\ Rest(p)' \subseteq Rest(p) /\ (UNCHANGED struck \/ Strikes(p, s))
  /\ Rest(p)' = {} => answer'[p] = "failed" /\ s = "fail"
  /\ Rest(p)' # {} => answer'[p] = answer[p]
  /\ Find(p)' = Find(p) \/ Find(p)' = None
  /\ Find(Published)' = Find(Published) \/ (Find(Published)' = None /\ Find(Published) = p
                                            /\ Gone(p, "unlink_published"))
  /\ dir' = dir \/ (dir' = None /\ dir = p /\ Gone(p, "rmdir"))
  /\ Gone(p, "remove_temporary") => Find(p)' # p \/ Strikes(p, s)
  /\ Gone(p, "unlink_published") => Find(Published)' # p \/ Strikes(p, s)
  /\ Gone(p, "check_published") => Find(Published)' = p \/ Gone(p, "unlink_published")
  /\ Gone(p, "check_directory") => dir' = identity[p] \/ Gone(p, "rmdir")
  /\ Gone(p, "rmdir") => \/ dir' = None \/ dir # identity[p] \/ Strikes(p, s)
                         \/ s = "rmdir" /\ ~IsEmpty(dir) /\ dir' = dir /\ There

LEMMA WaysGo ==
  ASSUME Typed, Loose, Tight, NEW p \in Replayers, Acts(p),
         \/ \E s \in Stages : Passes(p, s)
         \/ Verifies(p) \/ Enters(p) \/ Identifies(p) \/ Makes(p) \/ Fills(p) \/ Publishes(p)
         \/ Unlinks(p) \/ Vacates(p) \/ Finishes(p)
  PROVE  (\E s \in Stages : Treads(p, s)) /\ Holding'
         /\ \A q \in Replayers : q # p => Find(q)' = Find(q)
<1>1. Disks /\ Disks' /\ Locals /\ Holding /\ Knows(p) /\ Stands(p) BY Frame DEF Typed, Tight
<1>2. answer[p] = None BY Busy
<1>3. /\ p \in Names /\ p \in Dirs /\ p \in Files /\ p # Published /\ p # Owner /\ p # None
      /\ Published \in Names /\ \A q \in Replayers : q \in Names /\ q # Published
  BY Identities
<1>4. dir \in Dirs \cup {None} /\ source' = source BY <1>1, Frame DEF Disks
<1>5. /\ {"verify", "look", "identify", "mkstemp", "fill", "link", "unlink", "vacant", "done"} \subseteq Stages
      /\ "unlink" \in Milestones
  BY DEF Stages, Milestones
<1>6. \A s : Goes(p, s) => UNCHANGED struck BY DEF Goes
<1>7. ASSUME NEW s, Goes(p, s), s \in {"fill", "link", "unlink"}
      PROVE  Find(p) = p /\ There
  <2>1. Past(p, "mkstemp") /\ "unlink" \in Rest(p) /\ Ordered(Rest(p))
    BY <1>7 DEF Goes, Works1, Placed, Ordered, Past, Milestones
  <2>2. QED BY <1>1, <1>3, <2>1 DEF Stands, Find
<1>8. ASSUME Still, verified' = verified \/ verified'[p] = source PROVE Holding'
  <2>1. \A q \in Replayers : verified'[q] = verified[q] \/ verified'[q] = source
    <3>1. \A q \in Replayers : q # p => verified'[q] = verified[q] BY Frame DEF Same
    <3>2. QED BY <1>8, <3>1
  <2>2. QED BY <1>1, <1>4, <1>8, <2>1 DEF Holding, Still, Vacant
<1>9. ASSUME NEW n \in Names, NEW f, Put(n, f), f # Owner, dir' = dir, dir \in Dirs, verified' = verified
      PROVE Holding'
  <2>1. \A d \in Dirs, k \in Names : inside'[d][k] = IF d = dir /\ k = n THEN f ELSE inside[d][k]
    BY <1>1, <1>9, Written
  <2>2. \A d \in Dirs : d # dir' => inside'[d] = Vacant BY <1>1, <1>9 DEF Holding, Put, Disks
  <2>3. \A d \in Dirs, k \in Names : inside'[d][k] # Owner BY <1>1, <1>9, <2>1 DEF Holding
  <2>4. QED BY <1>1, <1>4, <1>9, <2>2, <2>3 DEF Holding, Vacant
<1>10. ASSUME NEW s \in Stages, Passes(p, s) PROVE Treads(p, s) /\ Still /\ verified' = verified
  <2>1. s \notin {"mkstemp", "unlink", "link", "done", "vacant", "identify"} BY <1>10 DEF Passes, Plain
  <2>2. Find(p)' = Find(p) /\ Find(Published)' = Find(Published) BY <1>10, FindStill DEF Passes
  <2>3. Unmarked /\ UNCHANGED <<answer, joined>> /\ Still /\ Goes(p, s) /\ (s = "look" => There)
    BY <1>10 DEF Passes
  <2>4. QED BY <1>6, <2>1, <2>2, <2>3 DEF Treads, Unmarked, Still
<1>11. CASE \E s \in Stages : Passes(p, s) BY <1>8, <1>10, <1>11, FindStill
<1>12. CASE Verifies(p)
  <2>1. Treads(p, "verify") BY <1>6, <1>12, FindStill DEF Treads, Verifies, Still
  <2>2. verified'[p] = source BY <1>1, <1>12 DEF Verifies, Locals
  <2>3. QED BY <1>5, <1>8, <1>12, <2>1, <2>2, FindStill DEF Verifies
<1>13. CASE Enters(p)
  <2>1. \A k \in Names : Find(k)' = None /\ Find(k) = None BY <1>1, <1>13, FindNothing DEF Enters
  <2>2. created'[p] = TRUE BY <1>1, <1>13 DEF Enters, Locals
  <2>3. Treads(p, "look") BY <1>3, <1>6, <1>13, <2>1, <2>2 DEF Treads, Enters
  <2>4. \A d \in Dirs : inside'[d] = Vacant BY <1>1, <1>3, <1>13, Identities DEF Enters, Holding
  <2>5. Holding' BY <1>1, <1>4, <1>13, <2>4 DEF Enters, Holding, Vacant
  <2>6. QED BY <1>3, <1>5, <2>1, <2>3, <2>5
<1>14. CASE Identifies(p)
  <2>1. identity'[p] = dir BY <1>1, <1>14 DEF Identifies, Locals
  <2>2. Treads(p, "identify") BY <1>6, <1>14, <2>1, FindStill DEF Treads, Identifies, Still
  <2>3. QED BY <1>5, <1>8, <1>14, <2>2, FindStill DEF Identifies
<1>15. CASE Makes(p)
  <2>1. dir \in Dirs BY <1>4, <1>15 DEF Makes, There
  <2>2. \A k \in Names : Find(k)' = IF k = p THEN p ELSE Find(k)
    BY <1>1, <1>3, <1>15, <2>1, FindPut DEF Makes
  <2>3. database'[p] = p /\ staged'[p] = TRUE BY <1>1, <1>15 DEF Makes, Locals
  <2>4. Treads(p, "mkstemp") BY <1>3, <1>6, <1>15, <2>2, <2>3 DEF Treads, Makes
  <2>5. Holding' BY <1>3, <1>9, <1>15, <2>1 DEF Makes
  <2>6. QED BY <1>3, <1>5, <2>2, <2>4, <2>5
<1>16. CASE Fills(p)
  <2>1. dir \in Dirs /\ Goes(p, "fill") BY <1>4, <1>16 DEF Fills, There
  <2>2. Find(p) = p BY <1>7, <2>1
  <2>3. Put(p, p) BY <1>3, <1>16, <2>2 DEF Fills
  <2>4. \A k \in Names : Find(k)' = IF k = p THEN p ELSE Find(k)
    BY <1>1, <1>3, <1>16, <2>1, <2>3, FindPut DEF Fills
  <2>5. Treads(p, "fill") BY <1>3, <1>6, <1>16, <2>2, <2>4 DEF Treads, Fills, Unmarked
  <2>6. Holding' BY <1>3, <1>9, <1>16, <2>1, <2>3 DEF Fills, Unmarked
  <2>7. QED BY <1>3, <1>5, <2>4, <2>5, <2>6
<1>17. CASE Publishes(p)
  <2>1. dir \in Dirs /\ Goes(p, "link") BY <1>4, <1>17 DEF Publishes, There
  <2>2. Find(p) = p BY <1>7, <2>1
  <2>3. Put(Published, p) BY <1>17, <2>2 DEF Publishes
  <2>4. \A k \in Names : Find(k)' = IF k = Published THEN p ELSE Find(k)
    BY <1>1, <1>3, <1>17, <2>1, <2>3, FindPut DEF Publishes
  <2>5. Treads(p, "link") BY <1>3, <1>6, <1>17, <2>2, <2>4 DEF Treads, Publishes, Unmarked
  <2>6. Holding' BY <1>3, <1>9, <1>17, <2>1, <2>3 DEF Publishes, Unmarked
  <2>7. QED BY <1>3, <1>5, <2>4, <2>5, <2>6
<1>18. CASE Unlinks(p)
  <2>1. dir \in Dirs /\ Goes(p, "unlink") BY <1>4, <1>18 DEF Unlinks, There
  <2>2. \A k \in Names : Find(k)' = IF k = p THEN None ELSE Find(k)
    BY <1>1, <1>3, <1>18, <2>1, FindPut DEF Unlinks
  <2>3. Treads(p, "unlink") BY <1>3, <1>6, <1>18, <2>2 DEF Treads, Unlinks
  <2>4. Holding' BY <1>3, <1>9, <1>18, <2>1, Identities DEF Unlinks
  <2>5. QED BY <1>3, <1>5, <2>2, <2>3, <2>4
<1>19. CASE Vacates(p)
  <2>1. Treads(p, "vacant") BY <1>6, <1>19, FindStill DEF Treads, Vacates, Still
  <2>2. QED BY <1>5, <1>8, <1>19, <2>1, FindStill DEF Vacates
<1>20. CASE Finishes(p)
  <2>1. answer'[p] = "equivalent" BY <1>1, <1>20 DEF Finishes, Locals
  <2>2. Treads(p, "done") BY <1>6, <1>20, <2>1, FindStill DEF Treads, Finishes, Still, Unmarked
  <2>3. QED BY <1>5, <1>8, <1>20, <2>2, FindStill DEF Finishes, Unmarked
<1>21. QED BY <1>11, <1>12, <1>13, <1>14, <1>15, <1>16, <1>17, <1>18, <1>19, <1>20

LEMMA WaysBack ==
  ASSUME Typed, Loose, Tight, NEW p \in Replayers, Acts(p),
         \/ \E s \in Stages : Falls(p, s)
         \/ EntersUnknown(p) \/ MakesUnknown(p) \/ PublishesUnknown(p) \/ UnlinksUnknown(p)
  PROVE  (\E s \in Stages : Backs(p, s)) /\ Holding'
         /\ \A q \in Replayers : q # p => Find(q)' = Find(q)
<1>1. Disks /\ Disks' /\ Locals /\ Holding /\ Knows(p) /\ Stands(p) BY Frame DEF Typed, Tight
<1>2. /\ p \in Names /\ p \in Dirs /\ p \in Files /\ p # Published /\ p # Owner /\ p # None
      /\ Published \in Names /\ \A q \in Replayers : q \in Names /\ q # Published
  BY Identities
<1>3. dir \in Dirs \cup {None} /\ source' = source BY <1>1, Frame DEF Disks
<1>4. {"look", "mkstemp", "link", "unlink"} \subseteq Stages BY DEF Stages, Milestones
<1>5. ASSUME NEW n \in Names, NEW f, Put(n, f), f # Owner, dir' = dir, dir \in Dirs, verified' = verified
      PROVE Holding'
  <2>1. \A d \in Dirs, k \in Names : inside'[d][k] = IF d = dir /\ k = n THEN f ELSE inside[d][k]
    BY <1>1, <1>5, Written
  <2>2. \A d \in Dirs : d # dir' => inside'[d] = Vacant BY <1>1, <1>5 DEF Holding, Put, Disks
  <2>3. \A d \in Dirs, k \in Names : inside'[d][k] # Owner BY <1>1, <1>5, <2>1 DEF Holding
  <2>4. QED BY <1>1, <1>3, <1>5, <2>2, <2>3 DEF Holding, Vacant
<1>6. CASE \E s \in Stages : Falls(p, s)
  <2>1. PICK s \in Stages : Falls(p, s) BY <1>6
  <2>2. Holding' BY <1>1, <1>3, <2>1 DEF Holding, Falls, Still, Unmarked, Vacant
  <2>3. \A k : Find(k)' = Find(k) BY <2>1, FindStill DEF Falls
  <2>4. Backs(p, s) BY <2>1, <2>3 DEF Backs, Falls, Still
  <2>5. QED BY <2>2, <2>3, <2>4
<1>7. CASE EntersUnknown(p)
  <2>1. \A k \in Names : Find(k)' = None /\ Find(k) = None BY <1>1, <1>7, FindNothing DEF EntersUnknown
  <2>2. Backs(p, "look") BY <1>2, <1>7, <2>1 DEF Backs, EntersUnknown
  <2>3. \A d \in Dirs : inside'[d] = Vacant BY <1>1, <1>7, Identities DEF EntersUnknown, Holding
  <2>4. Holding' BY <1>1, <1>3, <1>7, <2>3 DEF EntersUnknown, Holding, Vacant, Unmarked
  <2>5. QED BY <1>2, <1>4, <2>1, <2>2, <2>4
<1>8. CASE MakesUnknown(p)
  <2>1. dir \in Dirs BY <1>3, <1>8 DEF MakesUnknown, There
  <2>2. \A k \in Names : Find(k)' = IF k = p THEN p ELSE Find(k)
    BY <1>1, <1>2, <1>8, <2>1, FindPut DEF MakesUnknown
  <2>3. Backs(p, "mkstemp") BY <1>2, <1>8, <2>2 DEF Backs, MakesUnknown
  <2>4. Holding' BY <1>2, <1>5, <1>8, <2>1 DEF MakesUnknown, Unmarked
  <2>5. QED BY <1>2, <1>4, <2>2, <2>3, <2>4
<1>9. ASSUME NEW s, Raised(p, s), s \in {"link", "unlink"}
      PROVE  Find(p) = p
  <2>1. Past(p, "mkstemp") /\ "unlink" \in Rest(p)
    BY <1>9 DEF Raised, Works1, Placed, Ordered, Past, Milestones
  <2>2. QED BY <1>1, <2>1 DEF Stands
<1>10. CASE PublishesUnknown(p)
  <2>1. dir \in Dirs /\ Raised(p, "link") BY <1>3, <1>10 DEF PublishesUnknown, There
  <2>2. Find(p) = p BY <1>9, <2>1
  <2>3. Put(Published, p) BY <1>10, <2>2 DEF PublishesUnknown
  <2>4. \A k \in Names : Find(k)' = IF k = Published THEN p ELSE Find(k)
    BY <1>1, <1>2, <1>10, <2>1, <2>3, FindPut DEF PublishesUnknown
  <2>5. Backs(p, "link") BY <1>2, <1>10, <2>2, <2>4 DEF Backs, PublishesUnknown
  <2>6. Holding' BY <1>2, <1>5, <1>10, <2>1, <2>3 DEF PublishesUnknown, Unmarked
  <2>7. QED BY <1>2, <1>4, <2>4, <2>5, <2>6
<1>11. CASE UnlinksUnknown(p)
  <2>1. dir \in Dirs /\ Raised(p, "unlink") BY <1>3, <1>11 DEF UnlinksUnknown, There
  <2>2. \A k \in Names : Find(k)' = IF k = p THEN None ELSE Find(k)
    BY <1>1, <1>2, <1>11, <2>1, FindPut DEF UnlinksUnknown
  <2>3. Find(p) = p BY <1>9, <2>1
  <2>4. Backs(p, "unlink") BY <1>2, <1>11, <2>2, <2>3 DEF Backs, UnlinksUnknown
  <2>5. Holding' BY <1>2, <1>5, <1>11, <2>1, Identities DEF UnlinksUnknown, Unmarked
  <2>6. QED BY <1>2, <1>4, <2>2, <2>4, <2>5
<1>12. QED BY <1>6, <1>7, <1>8, <1>10, <1>11

LEMMA WaysOut ==
  ASSUME Typed, Loose, Tight, NEW p \in Replayers, Acts(p),
         \/ \E s \in Stages : Clears(p, s) \/ Skips(p, s)
         \/ TakesBack(p) \/ Withdraws(p) \/ Leaves(p) \/ GivesUp(p)
  PROVE  (\E s \in Stages : Sweeps(p, s)) /\ Holding'
         /\ \A q \in Replayers : q # p => Find(q)' = Find(q)
<1>1. /\ Disks /\ Disks' /\ Locals /\ Holding /\ Knows(p) /\ Stands(p) /\ Removes(p) /\ Directory(p)
  BY Frame DEF Typed, Tight
<1>2. /\ p \in Names /\ p \in Dirs /\ p \in Files /\ p # Published /\ p # Owner /\ p # None
      /\ Published \in Names /\ \A q \in Replayers : q \in Names /\ q # Published
  BY Identities
<1>3. dir \in Dirs \cup {None} /\ source' = source BY <1>1, Frame DEF Disks
<1>4. Cleaning \subseteq Stages BY DEF Stages
<1>5. ASSUME NEW n \in Names, Put(n, None), dir' = dir, dir \in Dirs, Unmarked
      PROVE Holding'
  <2>1. \A d \in Dirs, k \in Names : inside'[d][k] = IF d = dir /\ k = n THEN None ELSE inside[d][k]
    BY <1>1, <1>5, Written
  <2>2. \A d \in Dirs : d # dir' => inside'[d] = Vacant BY <1>1, <1>5 DEF Holding, Put, Disks
  <2>3. \A d \in Dirs, k \in Names : inside'[d][k] # Owner BY <1>1, <1>5, <2>1, Identities DEF Holding
  <2>4. QED BY <1>1, <1>3, <1>5, <2>2, <2>3 DEF Holding, Vacant, Unmarked
<1>6. ASSUME Still, Unmarked PROVE Holding'
  BY <1>1, <1>3, <1>6 DEF Holding, Still, Unmarked, Vacant
<1>7. ASSUME NEW s, Tidies(p, s)
      PROVE  /\ At(p, s) /\ Tidy(s, Rest(p)) /\ Elsewhere(p) /\ Rest(p)' \subseteq Rest(p)
             /\ \A e : Gone(p, e) => e = s
             /\ (s = "fail" <=> Rest(p)' = {}) /\ s \in Cleaning
  BY <1>7 DEF Tidies, Gone, Tidy
<1>8. "remove_temporary" \in Rest(p) \/ "unlink_published" \in Rest(p) => database[p] = p
  BY <1>1 DEF Knows
<1>9. ASSUME NEW s \in Stages, Clears(p, s) PROVE Sweeps(p, s)
  <2>1. /\ Tidies(p, s) /\ s # "fail" /\ Still /\ Unmarked /\ UNCHANGED <<answer, joined>>
        /\ \/ UNCHANGED struck /\ Unneeded(p, s)
           \/ Strikes(p, s) /\ s \in {"remove_temporary", "unlink_published", "rmdir"}
    BY <1>9 DEF Clears
  <2>2. \A k : Find(k)' = Find(k) BY <2>1, FindStill
  <2>3. dir' = dir BY <2>1 DEF Still
  <2>4. /\ At(p, s) /\ Tidy(s, Rest(p)) /\ Elsewhere(p) /\ Rest(p)' \subseteq Rest(p)
        /\ \A e : Gone(p, e) => e = s
        /\ Rest(p)' # {} /\ s \in Rest(p)
    BY <1>7, <2>1 DEF Tidy
  <2>5. Gone(p, "remove_temporary") => Find(p)' # p \/ Strikes(p, s)
    BY <1>8, <2>1, <2>2, <2>4 DEF Unneeded
  <2>6. Gone(p, "unlink_published") => Find(Published)' # p \/ Strikes(p, s)
    <3>1. ~There => Find(Published) = None BY DEF Find
    <3>2. QED BY <1>2, <2>1, <2>2, <2>4, <3>1 DEF Unneeded
  <2>7. Gone(p, "check_published") => Find(Published)' = p
    <3>1. s = "check_published" => "unlink_published" \in Rest(p) BY <2>4 DEF Tidy
    <3>2. QED BY <1>8, <2>1, <2>2, <2>4, <3>1 DEF Unneeded
  <2>8. Gone(p, "check_directory") => dir' = identity[p] BY <2>1, <2>3, <2>4 DEF Unneeded
  <2>9. Gone(p, "rmdir") => \/ dir' = None \/ Strikes(p, s)
                            \/ s = "rmdir" /\ ~IsEmpty(dir) /\ dir' = dir /\ There
    BY <2>1, <2>3, <2>4 DEF Unneeded, There
  <2>10. UNCHANGED struck \/ Strikes(p, s) BY <2>1
  <2>11. QED BY <2>1, <2>2, <2>3, <2>4, <2>5, <2>6, <2>7, <2>8, <2>9, <2>10 DEF Sweeps
<1>10. ASSUME NEW s \in Stages, Skips(p, s) PROVE Sweeps(p, s)
  <2>1. /\ At(p, s) /\ Tidy(s, Rest(p)) /\ Rest(p)' = Rest(p) \ {s, Guarded(s)} /\ Rest(p)' # {}
        /\ Elsewhere(p) /\ Still /\ Unmarked /\ UNCHANGED <<answer, joined, struck>>
        /\ \/ s = "check_published" /\ Find(Published) # database[p]
           \/ s = "check_directory" /\ dir # identity[p]
    BY <1>10 DEF Skips
  <2>2. \A k : Find(k)' = Find(k) BY <2>1, FindStill
  <2>3. dir' = dir BY <2>1 DEF Still
  <2>4. \A e : Gone(p, e) => e = s \/ e = Guarded(s) BY <2>1 DEF Gone
  <2>5. CASE s = "check_published"
    <3>1. Guarded(s) = "unlink_published" /\ "unlink_published" \in Rest(p)
      BY <2>1, <2>5 DEF Guarded, Tidy
    <3>2. database[p] = p /\ Find(Published)' # p BY <1>8, <2>1, <2>2, <2>5, <3>1
    <3>3. Gone(p, "unlink_published") BY <2>1, <3>1 DEF Gone
    <3>4. QED BY <2>1, <2>2, <2>3, <2>4, <2>5, <3>1, <3>2, <3>3 DEF Sweeps
  <2>6. CASE s = "check_directory"
    <3>1. Guarded(s) = "rmdir" /\ "rmdir" \in Rest(p) BY <2>1, <2>6 DEF Guarded, Tidy
    <3>2. Gone(p, "rmdir") /\ dir # identity[p] BY <2>1, <2>6, <3>1 DEF Gone
    <3>3. QED BY <2>1, <2>2, <2>3, <2>4, <2>6, <3>1, <3>2 DEF Sweeps
  <2>7. QED BY <2>1, <2>5, <2>6
<1>11. CASE \E s \in Stages : Clears(p, s)
  <2>1. PICK s \in Stages : Clears(p, s) BY <1>11
  <2>2. Still /\ Unmarked BY <2>1 DEF Clears
  <2>3. QED BY <1>6, <1>9, <2>1, <2>2, FindStill
<1>12. CASE \E s \in Stages : Skips(p, s)
  <2>1. PICK s \in Stages : Skips(p, s) BY <1>12
  <2>2. Still /\ Unmarked BY <2>1 DEF Skips
  <2>3. QED BY <1>6, <1>10, <2>1, <2>2, FindStill
<1>13. CASE TakesBack(p)
  <2>1. dir \in Dirs /\ Tidies(p, "remove_temporary") BY <1>3, <1>13 DEF TakesBack, There
  <2>2. \A k \in Names : Find(k)' = IF k = p THEN None ELSE Find(k)
    BY <1>1, <1>2, <1>13, <2>1, FindPut DEF TakesBack
  <2>3. Sweeps(p, "remove_temporary") BY <1>2, <1>7, <1>13, <2>1, <2>2 DEF Sweeps, TakesBack
  <2>4. "remove_temporary" \in Stages BY <1>4 DEF Cleaning
  <2>5. Holding' BY <1>2, <1>5, <1>13, <2>1 DEF TakesBack
  <2>6. QED BY <1>2, <2>2, <2>3, <2>4, <2>5
<1>14. CASE Withdraws(p)
  <2>1. dir \in Dirs /\ Tidies(p, "unlink_published") BY <1>3, <1>14 DEF Withdraws, There
  <2>2. \A k \in Names : Find(k)' = IF k = Published THEN None ELSE Find(k)
    BY <1>1, <1>2, <1>14, <2>1, FindPut DEF Withdraws
  <2>3. "unlink_published" \in Rest(p) /\ "check_published" \notin Rest(p)
        /\ Gone(p, "unlink_published")
    BY <2>1 DEF Tidies, Tidy, Gone
  <2>4. Find(Published) = p BY <1>1, <2>3 DEF Removes
  <2>5. Sweeps(p, "unlink_published") BY <1>2, <1>7, <1>14, <2>1, <2>2, <2>3, <2>4 DEF Sweeps, Withdraws
  <2>6. "unlink_published" \in Stages BY <1>4 DEF Cleaning
  <2>7. Holding' BY <1>2, <1>5, <1>14, <2>1 DEF Withdraws
  <2>8. QED BY <1>2, <2>2, <2>5, <2>6, <2>7
<1>15. CASE Leaves(p)
  <2>1. Tidies(p, "rmdir") /\ dir' = None /\ inside' = inside /\ There /\ IsEmpty(dir) BY <1>15 DEF Leaves
  <2>2. \A k \in Names : Find(k)' = None /\ Find(k) = None BY <1>1, <2>1, FindNothing
  <2>3. "rmdir" \in Rest(p) /\ "check_directory" \notin Rest(p) BY <2>1 DEF Tidies, Tidy
  <2>4. dir = p BY <1>1, <2>3 DEF Directory
  <2>5. Gone(p, "rmdir") BY <2>1, <2>3 DEF Tidies, Gone
  <2>10. Sweeps(p, "rmdir") BY <1>2, <1>7, <1>15, <2>1, <2>2, <2>4, <2>5 DEF Sweeps, Leaves
  <2>6. "rmdir" \in Stages BY <1>4 DEF Cleaning
  <2>7. \A d \in Dirs : inside'[d] = Vacant BY <1>1, <2>1 DEF Holding, IsEmpty
  <2>8. Holding' BY <1>1, <1>3, <1>15, <2>1, <2>7 DEF Leaves, Holding, Vacant, Unmarked
  <2>11. QED BY <1>2, <2>2, <2>6, <2>8, <2>10
<1>16. CASE GivesUp(p)
  <2>1. Tidies(p, "fail") /\ Still /\ Unmarked /\ UNCHANGED <<joined, struck>> BY <1>16 DEF GivesUp
  <2>2. answer'[p] = "failed" BY <1>1, <1>16 DEF GivesUp, Locals
  <2>3. dir' = dir /\ \A k : Find(k)' = Find(k) BY <2>1, FindStill DEF Still
  <2>4. Sweeps(p, "fail") BY <1>7, <2>1, <2>2, <2>3 DEF Sweeps
  <2>5. "fail" \in Stages BY <1>4 DEF Cleaning
  <2>6. QED BY <1>6, <2>1, <2>3, <2>4, <2>5
<1>17. QED BY <1>11, <1>12, <1>13, <1>14, <1>15, <1>16

(* What each way leaves of the call that goes it.                          *)
LEMMA TreadsWell ==
  ASSUME Typed, Loose, Tight, NEW p \in Replayers, Acts(p), NEW s \in Stages, Treads(p, s)
  PROVE  Stands(p)' /\ Removes(p)' /\ Directory(p)'
<1>1. /\ Goes(p, s) /\ Works1(p, s) /\ Knows(p) /\ Stands(p) /\ Directory(p) /\ Files1(p)
  BY DEF Treads, Goes, Typed, Tight, Loose
<1>2. /\ p # Owner /\ p # None /\ p # Published BY Identities
<1>3. answer[p] = None /\ ~Succeeded(p) BY Busy
<1>4. /\ \A m \in Milestones : /\ m \in Rest(p)' <=> m \in Rest(p) /\ m # s
                               /\ Past(p, m)' => Past(p, m) \/ m = s
      /\ Rest(p)' \cap Cleaning = {}
  <2>1. \A m \in Milestones : m \in Rest(p)' <=> m \in Rest(p) /\ m # s BY <1>1 DEF Goes
  <2>2. Working(p) BY <1>1 DEF Works1
  <2>3. Rest(p)' \cap Cleaning = {} BY <1>1 DEF Goes
  <2>4. QED BY <2>1, <2>2, <2>3 DEF Past
<1>5. Milestones = {"verify", "look", "identify", "mkstemp", "fill", "link", "same", "unlink", "done"}
  BY DEF Milestones
<1>6. answer'[p] \in {None, "equivalent"} BY <1>3 DEF Treads
<1>7. ~Unwinding(p)' /\ "unlink_published" \notin Rest(p)' /\ "rmdir" \notin Rest(p)'
  <2>1. "fail" \notin Rest(p)' /\ "unlink_published" \notin Rest(p)' /\ "rmdir" \notin Rest(p)'
    BY <1>4 DEF Cleaning
  <2>2. answer'[p] # "failed" BY <1>6, ReplayAssumption
  <2>3. QED BY <2>1, <2>2 DEF Unwinding
<1>8. Removes(p)' BY <1>7 DEF Removes
<1>9. Stands(p)'
  <2>1. Past(p, "mkstemp")' /\ "unlink" \in Rest(p)' => Find(p)' = p
    BY <1>1, <1>4, <1>5 DEF Stands, Treads
  <2>2. Past(p, "unlink")' => Find(p)' = None
    <3>1. Past(p, "unlink") => s # "mkstemp" BY <1>1, <1>5, Orders DEF Past, Works1, Ordered
    <3>2. QED BY <1>1, <1>4, <1>5, <3>1 DEF Stands, Treads
  <2>3. Past(p, "link")' => Find(Published)' = p BY <1>1, <1>4, <1>5 DEF Stands, Treads
  <2>4. "link" \in Rest(p)' => Find(Published)' # p BY <1>1, <1>4, <1>5 DEF Stands, Treads
  <2>5. Succeeded(p)' => Find(Published)' = p /\ Find(p)' # p
    <3>1. Succeeded(p)' => s = "done" BY <1>3, ReplayAssumption DEF Succeeded, Treads
    <3>2. s = "done" => Past(p, "unlink") /\ Past(p, "link")
      BY <1>1, <1>5, Orders DEF Past, Working, Works1, Ordered
    <3>3. QED BY <1>1, <1>2, <3>1, <3>2 DEF Stands, Treads
  <2>6. database'[p] = p /\ ~staged'[p] => Find(p)' # p
    <3>1. s \in {"mkstemp", "vacant", "unlink"} \/ (staged'[p] = staged[p] /\ database'[p] = database[p])
      BY DEF Treads
    <3>2. QED BY <1>1, <1>2, <3>1 DEF Stands, Treads
  <2>7. database'[p] = None => Find(Published)' # p /\ (Find(p)' # p \/ StruckIn(p, {"mkstemp"})')
    <3>1. s = "link" => Past(p, "mkstemp") BY <1>1, <1>5, Orders DEF Past, Working
    <3>2. s = "link" => database'[p] = p BY <1>1, <3>1 DEF Knows, Treads
    <3>3. StruckIn(p, {"mkstemp"})' <=> StruckIn(p, {"mkstemp"}) BY DEF Treads, StruckIn
    <3>4. QED BY <1>1, <1>2, <3>2, <3>3 DEF Stands, Treads
  <2>8. QED BY <2>1, <2>2, <2>3, <2>4, <2>5, <2>6, <2>7 DEF Stands
<1>10. Directory(p)'
  <2>1. \A S : StruckIn(p, S)' <=> StruckIn(p, S) BY DEF Treads, StruckIn
  <2>2. s = "look" => "identify" \in Rest(p) /\ ~created[p] /\ identity[p] = None
    BY <1>1, Orders, <1>5 DEF Knows
  <2>3. created'[p] /\ "identify" \in Rest(p)' => dir' = p
    BY <1>1, <1>4, <1>5, <2>2 DEF Directory, Treads
  <2>4. created'[p] /\ identity'[p] # None => identity'[p] = p
    <3>1. s = "identify" => "identify" \in Rest(p) BY <1>1, <1>5, Orders
    <3>2. QED BY <1>1, <2>2, <3>1 DEF Directory, Treads
  <2>5. dir' = p /\ ~created'[p] => StruckIn(p, {"look"})' BY <1>1, <2>1 DEF Directory, Treads
  <2>6. dir' = p /\ identity'[p] = None /\ "identify" \notin Rest(p)' => StruckIn(p, {"look", "identify"})'
    <3>1. s = "identify" => identity'[p] # None BY DEF Treads, There
    <3>2. s = "look" => "identify" \in Rest(p)' BY <1>4, <1>5, <2>2
    <3>3. s \notin {"look", "identify"} => dir' = dir /\ identity'[p] = identity[p] BY DEF Treads
    <3>4. QED BY <1>1, <1>4, <1>5, <2>1, <3>1, <3>2, <3>3 DEF Directory
  <2>7. QED BY <1>7, <2>3, <2>4, <2>5, <2>6 DEF Directory
<1>11. QED BY <1>8, <1>9, <1>10

LEMMA BacksWell ==
  ASSUME Typed, Loose, Tight, NEW p \in Replayers, Acts(p), NEW s \in Stages, Backs(p, s)
  PROVE  Stands(p)' /\ Removes(p)' /\ Directory(p)'
<1>1. /\ Raised(p, s) /\ Works1(p, s) /\ Knows(p) /\ Stands(p) /\ Directory(p) /\ Files1(p)
      /\ Unmarked /\ UNCHANGED answer
  BY DEF Backs, Raised, Typed, Tight, Loose
<1>2. /\ p # Owner /\ p # None /\ p # Published BY Identities
<1>3. answer'[p] = None /\ ~Succeeded(p)' BY <1>1, Busy DEF Succeeded
<1>4. /\ ~Working(p)' /\ Unwinding(p)' /\ \A m \in Milestones : m \notin Rest(p)' /\ ~Past(p, m)'
  BY <1>1, RaisedKnows
<1>5. Milestones = {"verify", "look", "identify", "mkstemp", "fill", "link", "same", "unlink", "done"}
  BY DEF Milestones
<1>6. Rest(p)' = Remaining(p) /\ database' = database /\ staged' = staged /\ created' = created
      /\ identity' = identity
  BY <1>1 DEF Raised, Unmarked
<1>7. /\ "remove_temporary" \in Rest(p)' <=> database[p] # None /\ staged[p]
      /\ "unlink_published" \in Rest(p)' <=> database[p] # None
      /\ "check_published" \in Rest(p)' <=> database[p] # None
      /\ "rmdir" \in Rest(p)' <=> created[p] /\ identity[p] # None
      /\ "check_directory" \in Rest(p)' <=> created[p] /\ identity[p] # None
  BY <1>6 DEF Remaining
<1>8. \A S : StruckIn(p, S) => StruckIn(p, S)' BY StruckStays
<1>9. s = "mkstemp" => database[p] = None BY <1>1, <1>5, Orders DEF Knows
<1>10. s = "link" => database[p] = p
  <2>1. s = "link" => Past(p, "mkstemp") BY <1>1, <1>5, Orders DEF Past, Working
  <2>2. QED BY <1>1, <2>1 DEF Knows
<1>11. Strikes(p, s) => \A S : s \in S => StruckIn(p, S)' BY StrikesIn
<1>12. Stands(p)'
  <2>1. database[p] = p /\ ~staged[p] => Find(p)' # p BY <1>1, <1>2, <1>9 DEF Stands, Backs
  <2>2. database[p] = None => Find(Published)' # p BY <1>1, <1>2, <1>10 DEF Stands, Backs
  <2>3. database[p] = None => Find(p)' # p \/ StruckIn(p, {"mkstemp"})'
    <3>1. Strikes(p, s) /\ s = "mkstemp" => StruckIn(p, {"mkstemp"})' BY <1>11
    <3>2. StruckIn(p, {"mkstemp"}) => StruckIn(p, {"mkstemp"})' BY <1>8
    <3>3. QED BY <1>1, <1>2, <3>1, <3>2 DEF Stands, Backs
  <2>4. QED BY <1>3, <1>4, <1>5, <1>6, <2>1, <2>2, <2>3 DEF Stands
<1>13. Removes(p)'
  <2>1. "remove_temporary" \notin Rest(p)' =>
           Find(p)' # p \/ StruckIn(p, Cleaning \cup {"mkstemp"})'
    <3>1. StruckIn(p, {"mkstemp"})' => StruckIn(p, Cleaning \cup {"mkstemp"})' BY DEF StruckIn
    <3>2. database[p] \in {None, p} BY <1>1 DEF Knows
    <3>3. QED BY <1>6, <1>7, <1>12, <3>1, <3>2 DEF Stands
  <2>2. "unlink_published" \notin Rest(p)' => Find(Published)' # p BY <1>6, <1>7, <1>12 DEF Stands
  <2>3. QED BY <1>7, <2>1, <2>2 DEF Removes
<1>14. Directory(p)'
  <2>1. "identify" \notin Rest(p)' BY <1>4, <1>5
  <2>2. created[p] /\ identity[p] # None => identity[p] = p BY <1>1 DEF Directory
  <2>3. dir' = p /\ ~created[p] => StruckIn(p, {"look"})'
    <3>1. Strikes(p, s) /\ s = "look" => StruckIn(p, {"look"})' BY <1>11
    <3>2. StruckIn(p, {"look"}) => StruckIn(p, {"look"})' BY <1>8
    <3>3. QED BY <1>1, <3>1, <3>2 DEF Directory, Backs
  <2>4. dir' = p /\ identity[p] = None => StruckIn(p, {"look", "identify"})'
    <3>1. CASE dir' = dir
      <4>1. CASE "identify" \notin Rest(p) BY <1>1, <1>8, <3>1, <4>1 DEF Directory
      <4>2. CASE "identify" \in Rest(p) /\ "look" \in Rest(p)
        BY <1>1, <3>1, <4>2 DEF Files1, Unborn
      <4>3. CASE "identify" \in Rest(p) /\ "look" \notin Rest(p)
        <5>1. s = "identify"
          <6>1. Under /\ At(p, s) BY <1>1 DEF Typed, Works1
          <6>2. Placed(s, Rest(p)) /\ Ordered(Rest(p)) /\ s \in Stages /\ s \notin Cleaning
            BY <1>1 DEF Works1
          <6>3. QED BY <4>3, <6>2 DEF Placed, Ordered, Stages, Milestones
        <5>2. dir = p => There BY <1>2 DEF There
        <5>3. dir = p => ~Reason(p, s) BY <5>1, <5>2 DEF Reason
        <5>4. Strikes(p, s) => StruckIn(p, {"look", "identify"})' BY <1>11, <5>1
        <5>5. QED BY <3>1, <5>3, <5>4 DEF Backs
      <4>4. QED BY <4>1, <4>2, <4>3
    <3>2. CASE Strikes(p, s) /\ s = "look" BY <1>11, <3>2
    <3>3. QED BY <3>1, <3>2 DEF Backs
  <2>5. "rmdir" \notin Rest(p)' /\ dir' = p =>
           StruckIn(p, Cleaning \cup {"look", "identify", "mkstemp"})'
    <3>1. StruckIn(p, {"look"})' \/ StruckIn(p, {"look", "identify"})' =>
             StruckIn(p, Cleaning \cup {"look", "identify", "mkstemp"})'
      BY DEF StruckIn
    <3>2. QED BY <1>7, <2>3, <2>4, <3>1
  <2>6. QED BY <1>6, <1>7, <2>1, <2>2, <2>3, <2>4, <2>5 DEF Directory
<1>15. QED BY <1>12, <1>13, <1>14

LEMMA SweepsWell ==
  ASSUME Typed, Loose, Tight, NEW p \in Replayers, Acts(p), NEW s \in Stages, Sweeps(p, s)
  PROVE  Stands(p)' /\ Removes(p)' /\ Directory(p)'
<1>1. /\ Disks /\ Knows(p) /\ Stands(p) /\ Removes(p) /\ Directory(p) /\ Holding
      /\ \A q \in Replayers : Joins(q) /\ Files1(q)
  BY DEF Typed, Tight, Loose
<1>2. p # Owner /\ p # None /\ p # Published BY Identities
<1>3. Tidy(s, Rest(p)) /\ Rest(p)' \subseteq Rest(p) /\ Unmarked /\ s \in Rest(p)
  BY DEF Sweeps, Tidy
<1>4. Unwinding(p) /\ s \in Cleaning BY <1>3 DEF Tidy, Unwinding
<1>5. Rest(p)' \subseteq Cleaning BY <1>3 DEF Tidy
<1>6. /\ \A m \in Milestones : m \notin Rest(p)' /\ ~Past(p, m)'
  BY <1>5 DEF Past, Working, Milestones, Cleaning
<1>7. Milestones = {"verify", "look", "identify", "mkstemp", "fill", "link", "same", "unlink", "done"}
  BY DEF Milestones
<1>8. ~Succeeded(p)'
  <2>1. answer[p] = None BY Busy
  <2>2. answer'[p] \in {None, "failed"} BY <2>1 DEF Sweeps
  <2>3. QED BY <2>2, ReplayAssumption DEF Succeeded
<1>9. \A S : StruckIn(p, S) => StruckIn(p, S)' BY StruckStays
<1>10. Strikes(p, s) => \A S : s \in S => StruckIn(p, S)' BY StrikesIn
<1>11. database' = database /\ staged' = staged /\ created' = created /\ identity' = identity
  BY <1>3 DEF Unmarked
<1>12. Stands(p)'
  <2>1. database[p] = p /\ ~staged[p] => Find(p)' # p BY <1>1, <1>2 DEF Stands, Sweeps
  <2>2. database[p] = None => Find(Published)' # p BY <1>1, <1>2 DEF Stands, Sweeps
  <2>3. database[p] = None => Find(p)' # p \/ StruckIn(p, {"mkstemp"})'
    BY <1>1, <1>2, <1>9 DEF Stands, Sweeps
  <2>4. QED BY <1>6, <1>7, <1>8, <1>11, <2>1, <2>2, <2>3 DEF Stands
<1>13. Removes(p)'
  <2>1. "remove_temporary" \notin Rest(p)' =>
          Find(p)' # p \/ StruckIn(p, Cleaning \cup {"mkstemp"})'
    <3>1. CASE "remove_temporary" \in Rest(p)
      <4>1. "remove_temporary" \notin Rest(p)' => Find(p)' # p \/ Strikes(p, s)
        BY <3>1 DEF Sweeps, Gone
      <4>2. QED BY <1>4, <1>10, <4>1
    <3>2. CASE "remove_temporary" \notin Rest(p)
      <4>1. Find(p) # p \/ StruckIn(p, Cleaning \cup {"mkstemp"}) BY <1>1, <1>4, <3>2 DEF Removes
      <4>2. Find(p) # p => Find(p)' # p BY <1>2 DEF Sweeps
      <4>3. QED BY <1>9, <4>1, <4>2
    <3>3. QED BY <3>1, <3>2
  <2>2. "unlink_published" \notin Rest(p)' => Find(Published)' # p \/ StruckIn(p, Cleaning)'
    <3>1. CASE "unlink_published" \in Rest(p)
      <4>1. "unlink_published" \notin Rest(p)' => Find(Published)' # p \/ Strikes(p, s)
        BY <3>1 DEF Sweeps, Gone
      <4>2. QED BY <1>4, <1>10, <4>1
    <3>2. CASE "unlink_published" \notin Rest(p)
      <4>1. Find(Published) # p \/ StruckIn(p, Cleaning) BY <1>1, <1>4, <3>2 DEF Removes
      <4>2. Find(Published) # p => Find(Published)' # p BY <1>2 DEF Sweeps
      <4>3. QED BY <1>9, <4>1, <4>2
    <3>3. QED BY <3>1, <3>2
  <2>3. "unlink_published" \in Rest(p)' /\ "check_published" \notin Rest(p)' => Find(Published)' = p
    <3>1. "unlink_published" \in Rest(p)' => "unlink_published" \in Rest(p) BY <1>3
    <3>2. "unlink_published" \in Rest(p)' => Find(Published)' = Find(Published)
      BY DEF Sweeps, Gone
    <3>3. QED BY <1>1, <3>1, <3>2 DEF Sweeps, Gone, Removes
  <2>4. QED BY <2>1, <2>2, <2>3 DEF Removes
<1>14. Directory(p)'
  <2>1. dir' = p => dir = p BY <1>2 DEF Sweeps
  <2>2. "identify" \notin Rest(p)' /\ "identify" \notin Rest(p) BY <1>3, <1>6, <1>7 DEF Tidy, Cleaning
  <2>3. created[p] /\ identity[p] # None => identity[p] = p BY <1>1 DEF Directory
  <2>4. dir' = p /\ ~created[p] => StruckIn(p, {"look"})' BY <1>1, <1>9, <2>1 DEF Directory
  <2>5. dir' = p /\ identity[p] = None => StruckIn(p, {"look", "identify"})'
    BY <1>1, <1>9, <2>1, <2>2 DEF Directory
  <2>6. ASSUME "rmdir" \notin Rest(p)', dir' = p
        PROVE  StruckIn(p, Cleaning \cup {"look", "identify", "mkstemp"})' \/ p \in joined'
    <3>1. joined' = joined BY DEF Sweeps
    <3>2. CASE "rmdir" \notin Rest(p) BY <1>1, <1>4, <1>9, <2>1, <2>6, <3>1, <3>2 DEF Directory
    <3>3. CASE "rmdir" \in Rest(p)
      <4>1. identity[p] = p BY <1>1, <3>3 DEF Knows, Directory
      <4>2. Gone(p, "rmdir") BY <2>6, <3>3 DEF Gone
      <4>3. Strikes(p, s) \/ (s = "rmdir" /\ ~IsEmpty(dir) /\ There)
        BY <1>2, <2>1, <2>6, <4>1, <4>2 DEF Sweeps
      <4>4. CASE Strikes(p, s) BY <1>4, <1>10, <4>4
      <4>5. CASE s = "rmdir" /\ ~IsEmpty(dir) /\ There
        <5>1. PICK n \in Names : inside[dir][n] # None
          <6>1. inside[dir] \in [Names -> Files \cup {None}] BY <1>1, <4>5 DEF Disks, There
          <6>2. inside[dir] # Vacant BY <4>5 DEF IsEmpty
          <6>3. \E n \in Names : inside[dir][n] # Vacant[n] BY <6>1, <6>2 DEF Vacant
          <6>4. QED BY <6>3 DEF Vacant
        <5>2. Find(n) # None /\ dir \in Dirs /\ Find(n) = inside[dir][n] BY <1>1, <4>5, <5>1 DEF Find, There, Disks
        <5>3. Find(n) \in Files /\ Find(n) # Owner BY <1>1, <5>2 DEF Disks, Holding
        <5>4. PICK q \in Replayers : Find(q) = q \/ Find(Published) = q
          <6>1. CASE n = Published BY <5>3, <6>1, Identities
          <6>2. CASE n \in Replayers
            <7>1. Find(n) \in {None, n, Owner} BY <1>1, <5>2, <6>2 DEF Files1
            <7>2. QED BY <5>2, <5>3, <6>2, <7>1
          <6>3. QED BY <6>1, <6>2, Identities
        <5>5. CASE q = p
          <6>1. "remove_temporary" \notin Rest(p) /\ "unlink_published" \notin Rest(p)
            BY <1>3, <4>5 DEF Tidy
          <6>2. StruckIn(p, Cleaning \cup {"mkstemp"}) \/ StruckIn(p, Cleaning)
            BY <1>1, <1>4, <5>4, <5>5, <6>1 DEF Removes
          <6>3. StruckIn(p, Cleaning \cup {"look", "identify", "mkstemp"}) BY <6>2 DEF StruckIn
          <6>4. QED BY <1>9, <6>3
        <5>6. CASE q # p
          <6>1. identity[q] = dir \/ dir \in joined BY <1>1, <5>4 DEF Joins
          <6>2. identity[q] = p => p \in joined BY <1>1, <1>2, <4>1, <5>6 DEF Joins
          <6>3. QED BY <2>1, <2>6, <3>1, <6>1, <6>2
        <5>7. QED BY <5>5, <5>6
      <4>6. QED BY <4>3, <4>4, <4>5
    <3>4. QED BY <3>2, <3>3
  <2>7. "rmdir" \in Rest(p)' /\ "check_directory" \notin Rest(p)' => dir' = p
    <3>1. "rmdir" \in Rest(p)' => "rmdir" \in Rest(p) BY <1>3
    <3>2. "rmdir" \in Rest(p) => identity[p] = p BY <1>1 DEF Knows, Directory
    <3>3. "rmdir" \in Rest(p)' => dir' = dir
      BY DEF Sweeps, Gone
    <3>4. QED BY <1>1, <3>1, <3>2, <3>3 DEF Sweeps, Gone, Directory
  <2>8. QED BY <1>11, <2>2, <2>3, <2>4, <2>5, <2>6, <2>7 DEF Directory
<1>15. QED BY <1>12, <1>13, <1>14

LEMMA HaltsWell ==
  ASSUME Typed, Loose, Tight, NEW p \in Replayers, Acts(p), Halts(p)
  PROVE  Stands(p)' /\ Removes(p)' /\ Directory(p)' /\ Holding'
<1>1. /\ Disks /\ Locals /\ Knows(p) /\ Stands(p) /\ Directory(p) /\ Holding /\ Files1(p) /\ Under
  BY DEF Typed, Tight, Loose
<1>2. p # Owner /\ p # None /\ p # Published BY Identities
<1>3. Rest(p)' = {} /\ Still /\ Unmarked /\ UNCHANGED joined BY DEF Halts
<1>4. PICK s \in Rest(p) : At(p, s) /\ Strikes(p, s) BY DEF Halts
<1>5. answer'[p] \in {"aborted", "crashed"} BY <1>1 DEF Halts, Locals
<1>6. ~Succeeded(p)' /\ ~Unwinding(p)' BY <1>3, <1>5 DEF Succeeded, Unwinding
<1>7. \A m : ~Past(p, m)' BY <1>3 DEF Past, Working
<1>8. \A k : Find(k)' = Find(k) BY <1>3, FindStill
<1>9. \A S : StruckIn(p, S) => StruckIn(p, S)' BY StruckStays
<1>10. \A S : s \in S => StruckIn(p, S)' BY <1>4, StrikesIn
<1>11. dir' = dir /\ database' = database /\ staged' = staged /\ created' = created /\ identity' = identity
  BY <1>3 DEF Still, Unmarked
<1>12. Stands(p)' BY <1>1, <1>3, <1>6, <1>7, <1>8, <1>9, <1>11 DEF Stands
<1>13. Removes(p)' BY <1>3, <1>6 DEF Removes
<1>14. Directory(p)'
  <2>1. dir = p /\ identity[p] = None => StruckIn(p, {"look", "identify"})'
    <3>1. CASE "identify" \notin Rest(p) BY <1>1, <1>9, <3>1 DEF Directory
    <3>2. CASE "identify" \in Rest(p) /\ "look" \in Rest(p) BY <1>1, <3>2 DEF Files1, Unborn
    <3>3. CASE "identify" \in Rest(p) /\ "look" \notin Rest(p)
      <4>1. todo[p] # <<>> /\ Head(todo[p]) = s BY <1>4 DEF At
      <4>2. Works(todo[p]) \/ Cleans(todo[p]) BY <1>1, <4>1, Here
      <4>3. "identify" \notin Cleaning BY DEF Cleaning
      <4>4. Works(todo[p]) BY <3>3, <4>2, <4>3 DEF Cleans, Tidy, Rest
      <4>5. Placed(s, Rest(p)) /\ Ordered(Rest(p)) /\ s \notin Cleaning BY <4>1, <4>4 DEF Works, Rest
      <4>6. Rest(p) \subseteq Stages BY <1>1, RangeIs DEF Under, Rest
      <4>7. s = "identify" BY <3>3, <4>5, <4>6 DEF Placed, Ordered, Stages, Milestones
      <4>8. QED BY <1>10, <4>7
    <3>4. QED BY <3>1, <3>2, <3>3
  <2>2. QED BY <1>1, <1>3, <1>6, <1>9, <1>11, <2>1 DEF Directory
<1>15. source' = source BY Frame
<1>16. Holding' BY <1>1, <1>3, <1>15 DEF Holding, Still, Unmarked, Vacant
<1>17. QED BY <1>12, <1>13, <1>14, <1>16

(* The other calls see that nothing of theirs has changed.                 *)
Elsewhere1(p) ==
  /\ \A q \in Replayers : q # p => Find(q)' = Find(q)
  /\ \A q \in Replayers : q # p => (Find(Published)' = q <=> Find(Published) = q)
  /\ \A q \in Replayers : q # p => (dir' = q <=> dir = q)

LEMMA OthersWell ==
  ASSUME Typed, Tight, NEW p \in Replayers, Acts(p), Elsewhere1(p), NEW q \in Replayers, q # p
  PROVE  Stands(q)' /\ Removes(q)' /\ Directory(q)'
<1>1. Stands(q) /\ Removes(q) /\ Directory(q) BY DEF Tight
<1>2. Same(q) BY Frame
<1>3. /\ \A m : Past(q, m)' <=> Past(q, m)
      /\ Succeeded(q)' <=> Succeeded(q)
      /\ Unwinding(q)' <=> Unwinding(q)
  BY <1>2 DEF Same, Past, Working, Succeeded, Unwinding
<1>4. /\ \A S : StruckIn(q, S) => StruckIn(q, S)'
      /\ joined \subseteq joined'
  BY StruckStays
<1>5. /\ Find(q)' = Find(q)
      /\ Find(Published)' = q <=> Find(Published) = q
      /\ dir' = q <=> dir = q
  BY DEF Elsewhere1
<1>6. q # None BY Identities
<1>7. Stands(q)'
  <2>1. StruckIn(q, {"mkstemp"}) => StruckIn(q, {"mkstemp"})' BY <1>4
  <2>2. QED BY <1>1, <1>2, <1>3, <1>5, <2>1 DEF Stands, Same
<1>8. Removes(q)'
  <2>1. /\ StruckIn(q, Cleaning \cup {"mkstemp"}) => StruckIn(q, Cleaning \cup {"mkstemp"})'
        /\ StruckIn(q, Cleaning) => StruckIn(q, Cleaning)'
    BY <1>4
  <2>2. QED BY <1>1, <1>2, <1>3, <1>5, <2>1 DEF Removes, Same
<1>9. Directory(q)'
  <2>1. /\ StruckIn(q, {"look"}) => StruckIn(q, {"look"})'
        /\ StruckIn(q, {"look", "identify"}) => StruckIn(q, {"look", "identify"})'
        /\ StruckIn(q, Cleaning \cup {"look", "identify", "mkstemp"}) =>
             StruckIn(q, Cleaning \cup {"look", "identify", "mkstemp"})'
    BY <1>4
  <2>2. QED BY <1>1, <1>2, <1>3, <1>4, <1>5, <2>1 DEF Directory, Same
<1>10. QED BY <1>7, <1>8, <1>9

(* Who put a file there has entered that directory.                        *)
Joining(p) ==
  /\ joined \subseteq joined'
  /\ dir' = dir \/ \A k \in Names : Find(k)' = None
  /\ Find(p)' \in {Find(p), None} \/ (Find(p)' = p /\ There /\ identity'[p] = identity[p] /\ dir' = dir
                                       /\ (identity[p] = dir \/ dir \in joined'))
  /\ Find(Published)' \in {Find(Published), None} \/ (Find(Published)' = p /\ Find(p) = p /\ dir' = dir)
  /\ \/ identity'[p] = identity[p]
     \/ /\ identity'[p] = dir /\ dir' = dir
        /\ (\E q \in Replayers \ {p} : identity[q] = dir) => dir \in joined'

LEMMA JoinsStep ==
  ASSUME Typed, Tight, NEW p \in Replayers, Acts(p), Elsewhere1(p), Joining(p)
  PROVE  \A q \in Replayers : Joins(q)'
<1>1. \A q \in Replayers : Joins(q) /\ q # None /\ q \in Names BY Identities DEF Tight
<1>2. \A q \in Replayers : q # p => identity'[q] = identity[q] BY Frame DEF Same
<1>3. Published \in Names BY Identities
<1>4. ASSUME NEW q \in Replayers, Find(q)' = q \/ Find(Published)' = q
      PROVE  identity'[q] = dir' \/ dir' \in joined'
  <2>1. dir' = dir BY <1>1, <1>3, <1>4 DEF Joining
  <2>2. CASE Find(q) = q \/ Find(Published) = q
    <3>1. identity[q] = dir \/ dir \in joined BY <1>1, <2>2 DEF Joins
    <3>2. identity'[q] = identity[q] \/ identity'[q] = dir BY <1>2 DEF Joining
    <3>3. QED BY <2>1, <3>1, <3>2 DEF Joining
  <2>3. CASE q # p /\ Find(q) # q /\ Find(Published) # q BY <1>4, <2>3 DEF Elsewhere1
  <2>4. CASE q = p /\ Find(q) # q /\ Find(Published) # q
    BY <1>1, <1>4, <2>1, <2>4 DEF Joining
  <2>5. QED BY <2>2, <2>3, <2>4
<1>5. ASSUME NEW q \in Replayers, NEW r \in Replayers, r # q, identity'[q] = identity'[r],
             identity'[q] # None
      PROVE  identity'[q] \in joined'
  <2>1. CASE identity'[q] = identity[q] /\ identity'[r] = identity[r]
    <3>1. identity[q] \in joined BY <1>1, <1>5, <2>1 DEF Joins
    <3>2. QED BY <2>1, <3>1 DEF Joining
  <2>2. CASE identity'[p] # identity[p]
    <3>1. /\ identity'[p] = dir
          /\ (\E e \in Replayers \ {p} : identity[e] = dir) => dir \in joined'
      BY <2>2 DEF Joining
    <3>2. CASE q = p
      <4>1. identity[r] = dir BY <1>2, <1>5, <3>1, <3>2
      <4>2. QED BY <1>5, <3>1, <3>2, <4>1
    <3>3. CASE r = p
      <4>1. identity[q] = dir BY <1>2, <1>5, <3>1, <3>3
      <4>2. QED BY <1>5, <3>1, <3>3, <4>1
    <3>4. CASE q # p /\ r # p BY <1>2, <2>1, <3>4
    <3>5. QED BY <3>2, <3>3, <3>4
  <2>3. QED BY <1>2, <2>1, <2>2
<1>6. QED BY <1>4, <1>5 DEF Joins

LEMMA TreadsJoin ==
  ASSUME Typed, Loose, Tight, NEW p \in Replayers, Acts(p), NEW s \in Stages, Treads(p, s)
  PROVE  /\ \A q \in Replayers : q # p => (Find(Published)' = q <=> Find(Published) = q)
         /\ \A q \in Replayers : q # p => (dir' = q <=> dir = q)
         /\ Find(Published)' \in {Find(Published), p} /\ (dir' = dir \/ (dir = None /\ dir' = p))
         /\ Find(p)' \in {Find(p), None} \/ (Find(p)' = p /\ There /\ identity'[p] = identity[p] /\ dir' = dir
                                       /\ (identity[p] = dir \/ dir \in joined'))
         /\ Find(Published)' \in {Find(Published), None} \/ (Find(Published)' = p /\ Find(p) = p /\ dir' = dir)
         /\ \/ identity'[p] = identity[p]
            \/ /\ identity'[p] = dir /\ dir' = dir
               /\ (\E q \in Replayers \ {p} : identity[q] = dir) => dir \in joined'
<1>1. \A q \in Replayers : q # None BY Identities
<1>2. s = "mkstemp" => identity[p] = dir \/ dir \in joined' BY DEF Treads, EnterByPath
<1>3. QED BY <1>1, <1>2 DEF Treads

LEMMA BacksJoin ==
  ASSUME Typed, Loose, Tight, NEW p \in Replayers, Acts(p), NEW s \in Stages, Backs(p, s)
  PROVE  /\ \A q \in Replayers : q # p => (Find(Published)' = q <=> Find(Published) = q)
         /\ \A q \in Replayers : q # p => (dir' = q <=> dir = q)
         /\ Find(Published)' \in {Find(Published), p} /\ (dir' = dir \/ (dir = None /\ dir' = p))
         /\ Find(p)' \in {Find(p), None} \/ (Find(p)' = p /\ There /\ identity'[p] = identity[p] /\ dir' = dir
                                       /\ (identity[p] = dir \/ dir \in joined'))
         /\ Find(Published)' \in {Find(Published), None} \/ (Find(Published)' = p /\ Find(p) = p /\ dir' = dir)
         /\ identity'[p] = identity[p]
<1>1. \A q \in Replayers : q # None BY Identities
<1>2. s = "mkstemp" /\ EnterByPath(p) => identity[p] = dir \/ dir \in joined' BY DEF EnterByPath
<1>3. QED BY <1>1, <1>2 DEF Backs, Unmarked

LEMMA TightStep ==
  ASSUME Typed, Loose, Tight, NEW p \in Replayers, Acts(p)
  PROVE  Tight'
<1>1. joined \subseteq joined' BY StruckStays
<1>2. \A q \in Replayers : q # None /\ q # Published BY Identities
<1>3. Disks /\ Disks' /\ Holding BY Frame DEF Typed, Tight
<1>4. dir' = dir \/ \A k \in Names : Find(k)' = None
  <2>1. Effects(p) BY Effecting
  <2>2. Appears(p) => \A k \in Names : Find(k)' = None BY <1>3, FindNothing DEF Appears
  <2>3. Goes1(p) => \A k \in Names : Find(k)' = None BY <1>3, FindNothing DEF Goes1
  <2>4. QED BY <2>1, <2>2, <2>3 DEF Effects, Stays
<1>5. ASSUME Stands(p)', Removes(p)', Directory(p)', Holding', Elsewhere1(p), Joining(p)
      PROVE  Tight'
  <2>1. \A q \in Replayers : Joins(q)' BY <1>5, JoinsStep
  <2>2. \A q \in Replayers : Stands(q)' /\ Removes(q)' /\ Directory(q)' BY <1>5, OthersWell
  <2>3. QED BY <1>5, <2>1, <2>2 DEF Tight
<1>6. CASE \/ \E s \in Stages : Passes(p, s)
           \/ Verifies(p) \/ Enters(p) \/ Identifies(p) \/ Makes(p) \/ Fills(p) \/ Publishes(p)
           \/ Unlinks(p) \/ Vacates(p) \/ Finishes(p)
  <2>1. PICK s \in Stages : Treads(p, s) BY <1>6, WaysGo
  <2>2. Holding' /\ \A q \in Replayers : q # p => Find(q)' = Find(q) BY <1>6, WaysGo
  <2>3. Stands(p)' /\ Removes(p)' /\ Directory(p)' BY <2>1, TreadsWell
  <2>4. Elsewhere1(p) BY <2>1, <2>2, TreadsJoin DEF Elsewhere1
  <2>5. Joining(p) BY <1>1, <1>4, <2>1, TreadsJoin DEF Joining
  <2>6. QED BY <1>5, <2>2, <2>3, <2>4, <2>5
<1>7. CASE \/ \E s \in Stages : Falls(p, s)
           \/ EntersUnknown(p) \/ MakesUnknown(p) \/ PublishesUnknown(p) \/ UnlinksUnknown(p)
  <2>1. PICK s \in Stages : Backs(p, s) BY <1>7, WaysBack
  <2>2. Holding' /\ \A q \in Replayers : q # p => Find(q)' = Find(q) BY <1>7, WaysBack
  <2>3. Stands(p)' /\ Removes(p)' /\ Directory(p)' BY <2>1, BacksWell
  <2>4. Elsewhere1(p) BY <2>1, <2>2, BacksJoin DEF Elsewhere1
  <2>5. Joining(p) BY <1>1, <1>4, <2>1, BacksJoin DEF Joining
  <2>6. QED BY <1>5, <2>2, <2>3, <2>4, <2>5
<1>8. CASE \/ \E s \in Stages : Clears(p, s) \/ Skips(p, s)
           \/ TakesBack(p) \/ Withdraws(p) \/ Leaves(p) \/ GivesUp(p)
  <2>1. PICK s \in Stages : Sweeps(p, s) BY <1>8, WaysOut
  <2>2. Holding' /\ \A q \in Replayers : q # p => Find(q)' = Find(q) BY <1>8, WaysOut
  <2>3. Stands(p)' /\ Removes(p)' /\ Directory(p)' BY <2>1, SweepsWell
  <2>4. Elsewhere1(p) BY <1>2, <2>1, <2>2 DEF Elsewhere1, Sweeps
  <2>5. identity'[p] = identity[p] BY <2>1 DEF Sweeps, Unmarked
  <2>6. Joining(p) BY <1>1, <1>4, <2>1, <2>5 DEF Joining, Sweeps
  <2>7. QED BY <1>5, <2>2, <2>3, <2>4, <2>6
<1>9. CASE Halts(p)
  <2>1. Stands(p)' /\ Removes(p)' /\ Directory(p)' /\ Holding' BY <1>9, HaltsWell
  <2>2. dir' = dir /\ \A k : Find(k)' = Find(k) BY <1>9, FindStill DEF Halts, Still
  <2>3. identity'[p] = identity[p] BY <1>9 DEF Halts, Unmarked
  <2>4. Elsewhere1(p) BY <2>2 DEF Elsewhere1
  <2>5. Joining(p) BY <1>1, <2>2, <2>3 DEF Joining
  <2>6. QED BY <1>5, <2>1, <2>4, <2>5
<1>10. QED BY <1>6, <1>7, <1>8, <1>9 DEF Acts

LEMMA BeginsTight ==
  ASSUME Init, Typed
  PROVE  Tight
<1>1. /\ \A p \in Replayers : /\ p \in Names /\ p \in Dirs /\ p # Owner /\ p # None /\ p # "given"
      /\ Owner # None /\ Published \in Names
  BY Identities
<1>2. /\ dir \in {"given", None} /\ inside = [d \in Dirs |-> Vacant] /\ source = "bundle"
      /\ \A p \in Replayers : /\ answer[p] = None /\ ~created[p] /\ identity[p] = None
                              /\ database[p] = None /\ ~staged[p] /\ verified[p] = None
  BY DEF Init
<1>3. \A d \in Dirs : inside[d] = Vacant BY <1>2
<1>4. \A d \in Dirs, n \in Names : inside[d][n] = None BY <1>3 DEF Vacant
<1>5. Holding BY <1>1, <1>2, <1>3, <1>4 DEF Holding
<1>6. \A n \in Names : Find(n) = None
  <2>1. There => dir \in Dirs BY DEF Typed, Disks, There
  <2>2. QED BY <1>4, <2>1 DEF Find
<1>7. ASSUME NEW p \in Replayers PROVE Stands(p) /\ Removes(p) /\ Directory(p) /\ Joins(p)
  <2>1. Program(p) = todo[p] BY DEF Init
  <2>2. Knows(p) BY DEF Typed
  <2>3. /\ \A m \in Milestones : m \in Rest(p)
        /\ Rest(p) \cap Cleaning = {}
    <3>1. PICK m : Laid(Program(p), m) BY ProgramWorks DEF Init
    <3>2. PICK P : P = Program(p) OBVIOUS
    <3>3. P \in Seq(Stages) BY <3>1, <3>2 DEF Laid
    <3>4. \A s : s \in Range(P) <=> \E i \in 1 .. Len(P) : P[i] = s BY <3>3, RangeIs
    <3>5. \A s \in Milestones : s \in Range(P)
      <4>1. \A s \in Milestones : m[s] \in 1 .. Len(P) /\ P[m[s]] = s BY <3>1, <3>2 DEF Laid
      <4>2. QED BY <3>4, <4>1
    <3>6. Range(P) \cap Cleaning = {} BY <3>1, <3>2, <3>4 DEF Laid
    <3>7. QED BY <2>1, <3>2, <3>5, <3>6 DEF Rest
  <2>4. \A m \in Milestones : ~Past(p, m) BY <2>3 DEF Past
  <2>5. Milestones = {"verify", "look", "identify", "mkstemp", "fill", "link", "same", "unlink", "done"}
    BY DEF Milestones
  <2>6. ~Succeeded(p) /\ ~Unwinding(p) /\ "unlink_published" \notin Rest(p) /\ "rmdir" \notin Rest(p)
    BY <1>2, <2>3, ReplayAssumption DEF Succeeded, Unwinding, Cleaning
  <2>7. Find(p) = None /\ Find(Published) = None BY <1>1, <1>6
  <2>8. Stands(p) BY <1>1, <1>2, <2>4, <2>5, <2>6, <2>7 DEF Stands
  <2>9. Removes(p) BY <2>6 DEF Removes
  <2>10. dir # p BY <1>1, <1>2
  <2>11. Directory(p) BY <1>2, <2>6, <2>10 DEF Directory
  <2>12. Joins(p) BY <1>1, <1>2, <2>7 DEF Joins
  <2>13. QED BY <2>8, <2>9, <2>11, <2>12
<1>8. QED BY <1>5, <1>7 DEF Tight

LEMMA Unchanging ==
  ASSUME UNCHANGED vars
  PROVE  /\ UNCHANGED <<version, dir, inside, content, source, todo, answer, created, identity, database,
                    descriptor, staged, verified, faults, edits, struck, joined>>
         /\ \A p : Rest(p)' = Rest(p)
         /\ \A p, m : Past(p, m)' <=> Past(p, m)
         /\ \A p : (Working(p)' <=> Working(p)) /\ (Succeeded(p)' <=> Succeeded(p))
         /\ \A p : Unwinding(p)' <=> Unwinding(p)
         /\ \A n : Find(n)' = Find(n)
         /\ \A p, S : StruckIn(p, S)' <=> StruckIn(p, S)
<1>1. UNCHANGED <<version, dir, inside, content, source, todo, answer, created, identity, database,
                    descriptor, staged, verified, faults, edits, struck, joined>>
  BY DEF vars, disk, local, bounds
<1>2. \A p : Rest(p)' = Rest(p) BY <1>1 DEF Rest
<1>3. \A p : Working(p)' <=> Working(p) BY <1>2 DEF Working
<1>4. QED BY <1>1, <1>2, <1>3 DEF Past, Succeeded, Unwinding, Find, There, StruckIn

(* While nobody edits the destination, whatever fails: the names of a call  *)
(* refer to what it made until it removes them, and nobody else's call      *)
(* takes its file or its directory away (replay_run_bundle and its cleanup).*)
THEOREM Grip == Spec => [](edits = 0 => Tight)
<1> DEFINE I == edits = 0 => Tight
<1>1. Init => I
  <2> SUFFICES ASSUME Init, edits = 0 PROVE Tight OBVIOUS
  <2>1. QED BY BeginsTyped, BeginsTight
<1>2. (Typed /\ Loose) /\ I /\ [Next]_vars => I'
  <2> SUFFICES ASSUME Typed, Loose, I, [Next]_vars, edits' = 0 PROVE Tight' OBVIOUS
  <2>1. edits \in Nat BY DEF Typed, Bounded
  <2>2. CASE Next
    <3>1. Edits \/ \E p \in Replayers : Acts(p) BY <2>2, Steps DEF Loose
    <3>2. ~Edits BY <2>1 DEF Edits
    <3>3. PICK p \in Replayers : Acts(p) BY <3>1, <3>2
    <3>4. edits = 0 BY <3>3, Frame
    <3>5. QED BY <3>3, <3>4, TightStep
  <2>3. CASE UNCHANGED vars
    <3>1. Tight BY <2>3, Unchanging
    <3>2. /\ UNCHANGED <<dir, inside, source, answer, created, identity, database, staged, verified, joined>>
          /\ \A p : Rest(p)' = Rest(p)
          /\ \A p, m : Past(p, m)' <=> Past(p, m)
          /\ \A p : Succeeded(p)' <=> Succeeded(p)
          /\ \A p : Unwinding(p)' <=> Unwinding(p)
          /\ \A n : Find(n)' = Find(n)
          /\ \A p, S : StruckIn(p, S)' <=> StruckIn(p, S)
      BY <2>3, Unchanging
    <3>3. Holding' BY <3>1, <3>2 DEF Tight, Holding, Vacant
    <3>4. ASSUME NEW p \in Replayers PROVE Stands(p)' /\ Removes(p)' /\ Directory(p)' /\ Joins(p)'
      BY <3>1, <3>2 DEF Tight, Stands, Removes, Directory, Joins
    <3>5. QED BY <3>3, <3>4 DEF Tight
  <2>4. QED BY <2>2, <2>3
<1>3. QED BY <1>1, <1>2, Foundation, PTL DEF Spec

----------------------------------------------------------------------------
(* While nothing goes wrong.                                               *)

LEMMA NotAlone ==
  /\ \A i \in 1 .. Len(ReplayV1) : ReplayV1[i] # "alone"
  /\ \A i \in 1 .. Len(ReplayV2) : ReplayV2[i] # "alone"
<1>1. \A i \in 1 .. Len(ReplayV1) : ReplayV1[i] # "alone"
  <2>1. Len(ReplayV1) = 30 BY DEF ReplayV1, Enter, Stage, Published1
  <2>2. /\ ReplayV1[1] = "verify" /\ ReplayV1[2] = "look" /\ ReplayV1[3] = "identify"
        /\ ReplayV1[4] = "guard" /\ ReplayV1[5] = "require" /\ ReplayV1[6] = "mkstemp"
        /\ ReplayV1[7] = "owned" /\ ReplayV1[8] = "fill" /\ ReplayV1[9] = "owned"
        /\ ReplayV1[10] = "reopen" /\ ReplayV1[11] = "owned" /\ ReplayV1[12] = "require"
        /\ ReplayV1[13] = "link" /\ ReplayV1[14] = "same" /\ ReplayV1[15] = "owned"
        /\ ReplayV1[16] = "owned_published" /\ ReplayV1[17] = "require" /\ ReplayV1[18] = "owned"
        /\ ReplayV1[19] = "owned_published" /\ ReplayV1[20] = "reread" /\ ReplayV1[21] = "owned"
        /\ ReplayV1[22] = "owned_published" /\ ReplayV1[23] = "verify_again"
        /\ ReplayV1[24] = "owned" /\ ReplayV1[25] = "owned_published" /\ ReplayV1[26] = "close"
        /\ ReplayV1[27] = "unlink" /\ ReplayV1[28] = "vacant" /\ ReplayV1[29] = "single"
        /\ ReplayV1[30] = "done"
    BY DEF ReplayV1, Enter, Stage, Published1
  <2>3. ASSUME NEW i \in 1 .. 30 PROVE ReplayV1[i] # "alone"
    <3>1. \/ i = 1 \/ i = 2 \/ i = 3 \/ i = 4 \/ i = 5 \/ i = 6 \/ i = 7 \/ i = 8 \/ i = 9 \/ i = 10
          \/ i = 11 \/ i = 12 \/ i = 13 \/ i = 14 \/ i = 15 \/ i = 16 \/ i = 17 \/ i = 18 \/ i = 19 \/ i = 20
          \/ i = 21 \/ i = 22 \/ i = 23 \/ i = 24 \/ i = 25 \/ i = 26 \/ i = 27 \/ i = 28 \/ i = 29 \/ i = 30
      OBVIOUS
    <3>2. QED BY <2>2, <3>1
  <2>4. QED BY <2>1, <2>3
<1>2. \A i \in 1 .. Len(ReplayV2) : ReplayV2[i] # "alone"
  <2>1. Len(ReplayV2) = 18 BY DEF ReplayV2, Enter, Stage
  <2>2. /\ ReplayV2[1] = "verify" /\ ReplayV2[2] = "look" /\ ReplayV2[3] = "identify"
        /\ ReplayV2[4] = "guard" /\ ReplayV2[5] = "mkstemp" /\ ReplayV2[6] = "owned"
        /\ ReplayV2[7] = "fill" /\ ReplayV2[8] = "reopen" /\ ReplayV2[9] = "owned"
        /\ ReplayV2[10] = "require" /\ ReplayV2[11] = "link" /\ ReplayV2[12] = "same"
        /\ ReplayV2[13] = "reread" /\ ReplayV2[14] = "verify_again" /\ ReplayV2[15] = "close"
        /\ ReplayV2[16] = "unlink" /\ ReplayV2[17] = "single" /\ ReplayV2[18] = "done"
    BY DEF ReplayV2, Enter, Stage
  <2>3. ASSUME NEW i \in 1 .. 18 PROVE ReplayV2[i] # "alone"
    <3>1. \/ i = 1 \/ i = 2 \/ i = 3 \/ i = 4 \/ i = 5 \/ i = 6 \/ i = 7 \/ i = 8 \/ i = 9 \/ i = 10
          \/ i = 11 \/ i = 12 \/ i = 13 \/ i = 14 \/ i = 15 \/ i = 16 \/ i = 17 \/ i = 18
      OBVIOUS
    <3>2. QED BY <2>2, <3>1
  <2>4. QED BY <2>1, <2>3
<1>3. QED BY <1>1, <1>2

(* Only version 3 insists on being alone.                                  *)
LEMMA AloneIsV3 ==
  ASSUME Under, NEW p \in Replayers, At(p, "alone")
  PROVE  version[p] = "v3"
<1>1. todo[p] # <<>> /\ Head(todo[p]) = "alone" /\ Controlled(p) BY DEF At, Under
<1>2. "alone" \notin Cleaning BY DEF Cleaning
<1>3. ~IsSuffix(todo[p], RemoveAll)
  <2>1. IsSuffix(todo[p], RemoveAll) => Cleans(todo[p]) BY <1>1, RemoveAllCleans
  <2>2. QED BY <1>1, <1>2, <2>1 DEF Cleans, Tidy
<1>4. ~IsSuffix(todo[p], RemoveFiles)
  <2>1. IsSuffix(todo[p], RemoveFiles) => Cleans(todo[p]) BY <1>1, RemoveFilesCleans
  <2>2. QED BY <1>1, <1>2, <2>1 DEF Cleans, Tidy
<1>5. IsSuffix(todo[p], Program(p)) BY <1>1, <1>3, <1>4 DEF Controlled
<1>6. \E k \in 1 .. Len(Program(p)) : Program(p)[k] = "alone" BY <1>1, <1>5, Place
<1>7. version[p] \in {"v1", "v2", "v3"} BY ReplayAssumption DEF Under
<1>8. version[p] = "v1" => Program(p) = ReplayV1 BY DEF Program
<1>9. version[p] = "v2" => Program(p) = ReplayV2 BY DEF Program
<1>10. QED BY <1>6, <1>7, <1>8, <1>9, NotAlone

(* The names that a database has.                                          *)
LEMMA NamesOf ==
  ASSUME Typed, Loose, Tight, NEW p \in Replayers
  PROVE  /\ Find(Published) = p /\ Find(p) # p => Links(p) = 1
         /\ Find(Published) # p /\ Find(p) # p => Links(p) = 0
<1>1. /\ Disks /\ Holding /\ \A q \in Replayers : Files1(q) BY DEF Typed, Loose, Tight
<1>2. /\ p # None /\ p # Owner /\ Published \in Names
      /\ \A n \in Names : n = Published \/ n \in Replayers
  BY Identities
<1> DEFINE Places == {place \in Dirs \X Names : inside[place[1]][place[2]] = p}
<1>3. ASSUME Find(p) # p, NEW place \in Places PROVE place = <<dir, Published>> /\ Find(Published) = p
  <2>1. PICK d \in Dirs, n \in Names : place = <<d, n>> OBVIOUS
  <2>2. inside[d][n] = p BY <2>1
  <2>3. d = dir
    <3>1. d # dir => inside[d] = Vacant BY <1>1 DEF Holding
    <3>2. QED BY <1>2, <2>2, <3>1 DEF Vacant
  <2>4. There /\ Find(n) = p BY <2>2, <2>3, Identities DEF Find, There
  <2>5. n = Published
    <3>1. CASE n \in Replayers
      <4>1. inside[d][n] \in {None, n, Owner} BY <1>1, <3>1 DEF Files1
      <4>2. n = p BY <1>2, <2>2, <4>1
      <4>3. QED BY <1>3, <2>4, <4>2
    <3>2. QED BY <1>2, <3>1
  <2>6. QED BY <2>1, <2>3, <2>4, <2>5
<1>4. ASSUME Find(Published) = p PROVE <<dir, Published>> \in Places
  <2>1. There /\ dir \in Dirs BY <1>1, <1>2, <1>4 DEF Find, There, Disks
  <2>2. inside[dir][Published] = p BY <1>4, <2>1 DEF Find
  <2>3. <<dir, Published>>[1] = dir /\ <<dir, Published>>[2] = Published OBVIOUS
  <2>4. QED BY <1>2, <2>1, <2>2, <2>3
<1>5. Links(p) = Cardinality(Places) BY DEF Links
<1> HIDE DEF Places
<1>6. ASSUME Find(Published) = p, Find(p) # p PROVE Links(p) = 1
  <2>1. Places = {<<dir, Published>>} BY <1>3, <1>4, <1>6
  <2>2. QED BY <1>5, <2>1, FS_Singleton
<1>7. ASSUME Find(Published) # p, Find(p) # p PROVE Links(p) = 0
  <2>1. Places = {} BY <1>3, <1>7
  <2>2. QED BY <1>5, <2>1, FS_EmptySet
<1>8. QED BY <1>6, <1>7

(* Whose file stands there is a call that goes on, or one has failed.      *)
LEMMA OwnersGoOn ==
  ASSUME Typed, Loose, Tight, Calm, NEW r \in Replayers, Find(r) = r \/ Find(Published) = r
  PROVE  \E q \in Replayers : GoesOn(q)
<1>1. Files1(r) /\ Disks /\ r # None BY Identities DEF Typed, Loose
<1>2. There /\ dir \in Dirs /\ (inside[dir][r] = r \/ inside[dir][Published] = r)
  BY <1>1 DEF Find, There, Disks
<1>3. "mkstemp" \notin Rest(r) BY <1>1, <1>2 DEF Files1, Unmade
<1>4. CASE Working(r) BY <1>3, <1>4 DEF GoesOn, Past
<1>5. CASE Succeeded(r) BY <1>5 DEF GoesOn
<1>6. CASE ~Working(r) /\ ~Succeeded(r) BY <1>6 DEF Calm
<1>7. QED BY <1>4, <1>5, <1>6

(* A name that refers to something refers to what a call has made.         *)
LEMMA WhatStands ==
  ASSUME Typed, Loose, Tight, NEW n \in Names, Find(n) # None
  PROVE  Find(n) \in Replayers /\ (n \in Replayers => Find(n) = n)
<1>1. Disks /\ Holding /\ \A q \in Replayers : Files1(q) BY DEF Typed, Loose, Tight
<1>2. dir \in Dirs /\ Find(n) = inside[dir][n] BY <1>1 DEF Find, There, Disks
<1>3. Find(n) \in Files /\ Find(n) # Owner BY <1>1, <1>2 DEF Disks, Holding
<1>4. n \in Replayers => Find(n) \in {None, n, Owner} BY <1>1, <1>2 DEF Files1
<1>5. QED BY <1>3, <1>4, Identities

(* Where nothing goes wrong a call can only fail in three places.          *)
LEMMA CalmReason ==
  ASSUME Typed, Loose, Tight, Calm, NEW p \in Replayers, NEW s \in Stages, Raised(p, s), Reason(p, s)
  PROVE  s \in {"look", "link", "alone"}
<1>1. /\ Disks /\ Locals /\ Knows(p) /\ Stands(p) /\ Holding /\ Files1(p)
      /\ Works1(p, s) /\ Ordered(Rest(p)) /\ Placed(s, Rest(p)) /\ Working(p)
  BY DEF Typed, Loose, Tight, Raised, Works1
<1>2. p # None /\ p # Owner /\ p # Published /\ None \notin Dirs BY Identities
<1>3. Milestones = {"verify", "look", "identify", "mkstemp", "fill", "link", "same", "unlink", "done"}
  BY DEF Milestones
<1>4. identity[p] \in {None, dir} /\ (Past(p, "look") => There) BY DEF Calm
<1>5. Past(p, "identify") => dir = identity[p] BY <1>1, <1>4 DEF Knows
<1>6. Past(p, "mkstemp") => database[p] = p BY <1>1 DEF Knows
<1>7. Past(p, "verify") => verified[p] = "bundle"
  BY <1>1 DEF Knows, Holding
<1>8. s # "verify" BY <1>1 DEF Reason, Holding
<1>9. s \notin {"identify", "mkstemp", "fill"}
  <2>1. s \in {"identify", "mkstemp", "fill"} => Past(p, "look")
    BY <1>1, <1>3 DEF Past, Placed, Ordered
  <2>2. QED BY <1>4, <2>1 DEF Reason
<1>10. s \notin {"guard", "require"}
  <2>1. s \in {"guard", "require"} => Past(p, "identify") BY <1>1 DEF Past, Placed
  <2>2. QED BY <1>5, <2>1 DEF Reason
<1>11. s \notin {"owned", "unlink", "reopen"}
  <2>1. s \in {"owned", "unlink", "reopen"} => Past(p, "mkstemp") /\ "unlink" \in Rest(p)
    BY <1>1, <1>3 DEF Past, Placed, Ordered
  <2>2. s \in {"owned", "unlink", "reopen"} => Find(p) = p /\ database[p] = p
    BY <1>1, <1>6, <2>1 DEF Stands
  <2>3. s = "reopen" => Holds(p, p)
    <3>1. s = "reopen" => Past(p, "fill") /\ "link" \in Rest(p) BY <1>1 DEF Past, Placed
    <3>2. s = "reopen" => Filled(p) \/ Lost(p) BY <1>1, <3>1 DEF Files1
    <3>3. Find(p) = p => ~Lost(p) BY <1>2 DEF Lost, Find, There
    <3>4. QED BY <1>2, <2>2, <3>2, <3>3 DEF Holds, Filled
  <2>4. QED BY <2>2, <2>3 DEF Reason
<1>12. s \notin {"same", "owned_published", "reread"}
  <2>1. s \in {"same", "owned_published", "reread"} => Past(p, "link") /\ Past(p, "mkstemp")
    BY <1>1, <1>3 DEF Past, Placed, Ordered
  <2>2. s \in {"same", "owned_published", "reread"} => Find(Published) = p /\ database[p] = p
    BY <1>1, <1>6, <2>1 DEF Stands
  <2>3. s = "reread" => Holds(Published, p)
    <3>1. s = "reread" => Filled(p)
      <4>1. s = "reread" => Past(p, "same") BY <1>1 DEF Past, Placed
      <4>2. QED BY <1>1, <4>1 DEF Files1
    <3>2. QED BY <1>2, <2>2, <3>1 DEF Holds, Filled
  <2>4. QED BY <2>2, <2>3 DEF Reason
<1>13. s # "verify_again"
  <2>1. s = "verify_again" => Past(p, "verify") BY <1>1, <1>3 DEF Past, Placed, Ordered
  <2>2. QED BY <1>1, <1>7, <2>1 DEF Reason, Holding
<1>14. s \notin {"vacant", "single"}
  <2>1. s \in {"vacant", "single"} => Past(p, "unlink") /\ Past(p, "link") /\ Past(p, "mkstemp")
    BY <1>1, <1>3 DEF Past, Placed, Ordered
  <2>2. s \in {"vacant", "single"} => Find(p) = None /\ Find(Published) = p /\ database[p] = p
    BY <1>1, <1>6, <2>1 DEF Stands
  <2>3. s \in {"vacant", "single"} => SingleLink(p) BY <1>2, <2>2, NamesOf DEF SingleLink
  <2>4. QED BY <2>2, <2>3 DEF Reason
<1>15. s \notin {"close", "done"} BY DEF Reason
<1>16. s \notin Cleaning BY <1>1 DEF Works1
<1>17. QED BY <1>3, <1>8, <1>9, <1>10, <1>11, <1>12, <1>13, <1>14, <1>15, <1>16 DEF Stages

(* A call that still goes on does so after the step of another.            *)
LEMMA GoesOnStays ==
  ASSUME Typed, NEW p \in Replayers, Acts(p), NEW q \in Replayers, q # p
  PROVE  /\ GoesOn(q)' <=> GoesOn(q)
         /\ Working(q)' <=> Working(q)
         /\ Succeeded(q)' <=> Succeeded(q)
         /\ identity'[q] = identity[q]
         /\ \A m : Past(q, m)' <=> Past(q, m)
<1>1. Same(q) BY Frame
<1>2. QED BY <1>1 DEF Same, GoesOn, Past, Working, Succeeded

LEMMA CalmTreads ==
  ASSUME Typed, Loose, Tight, Calm, NEW p \in Replayers, Acts(p), NEW s \in Stages, Treads(p, s)
  PROVE  Calm'
<1>1. Goes(p, s) /\ Working(p) /\ Works1(p, s) /\ Locals BY DEF Treads, Goes, Works1, Typed
<1>2. \A q \in Replayers : q # p =>
        /\ GoesOn(q)' <=> GoesOn(q)
        /\ Working(q)' <=> Working(q)
        /\ Succeeded(q)' <=> Succeeded(q)
        /\ identity'[q] = identity[q]
        /\ \A m : Past(q, m)' <=> Past(q, m)
  BY GoesOnStays
<1>3. p # None BY Identities
<1>4. Working(p)' \/ Succeeded(p)'
  <2>1. s = "done" => answer'[p] = "equivalent" BY DEF Treads
  <2>2. s # "done" => "done" \in Rest(p)'
    <3>1. "done" \in Milestones BY DEF Milestones
    <3>2. QED BY <1>1, <3>1 DEF Goes, Working
  <2>3. QED BY <2>1, <2>2 DEF Working, Succeeded
<1>5. GoesOn(p) => GoesOn(p)'
  <2>1. ~Succeeded(p) BY Busy
  <2>2. "mkstemp" \in Milestones BY DEF Milestones
  <2>3. Past(p, "mkstemp") => "mkstemp" \notin Rest(p)' BY <1>1, <2>2 DEF Past, Goes
  <2>4. QED BY <1>4, <2>1, <2>3 DEF GoesOn, Past
<1>6. \A q \in Replayers : identity'[q] \in {None, dir'}
  <2>1. CASE dir' = dir
    <3>1. identity'[p] \in {None, dir} BY DEF Calm, Treads
    <3>2. QED BY <1>2, <2>1, <3>1 DEF Calm
  <2>2. CASE dir = None /\ s = "look"
    <3>1. \A q \in Replayers : identity[q] = None BY <2>2 DEF Calm
    <3>2. identity'[p] = identity[p] BY <2>2 DEF Treads
    <3>3. QED BY <1>2, <3>1, <3>2
  <2>3. QED BY <2>1, <2>2 DEF Treads
<1>7. \A q \in Replayers : Past(q, "look")' => There'
  <2>1. There => There' BY <1>3 DEF Treads, There
  <2>2. \A q \in Replayers : Past(q, "look") => There BY DEF Calm
  <2>3. Past(p, "look")' => Past(p, "look") \/ s = "look"
    <3>1. "look" \in Milestones BY DEF Milestones
    <3>2. QED BY <1>1, <3>1 DEF Past, Goes
  <2>4. s = "look" => There' BY <1>3 DEF Treads, There
  <2>5. QED BY <1>2, <2>1, <2>2, <2>3, <2>4
<1>8. (\E q \in Replayers : ~Working(q)' /\ ~Succeeded(q)') => \E q \in Replayers : GoesOn(q)'
  BY <1>2, <1>4, <1>5 DEF Calm
<1>9. \A q \in Replayers : Find(Published)' = q => Working(q)' \/ Succeeded(q)'
  BY <1>2, <1>4, TreadsJoin DEF Calm
<1>10. QED BY <1>6, <1>7, <1>8, <1>9 DEF Calm

LEMMA CalmSweeps ==
  ASSUME Typed, Loose, Tight, Calm, NEW p \in Replayers, Acts(p), NEW s \in Stages, Sweeps(p, s)
  PROVE  Calm'
<1>1. /\ Tidy(s, Rest(p)) /\ Unmarked /\ Rest(p)' \subseteq Rest(p)
  BY DEF Sweeps
<1>2. \A q \in Replayers : q # p =>
        /\ GoesOn(q)' <=> GoesOn(q)
        /\ Working(q)' <=> Working(q)
        /\ Succeeded(q)' <=> Succeeded(q)
        /\ identity'[q] = identity[q]
        /\ \A m : Past(q, m)' <=> Past(q, m)
  BY GoesOnStays
<1>3. ~Working(p) /\ ~Succeeded(p) /\ ~Working(p)'
  BY <1>1, Busy DEF Tidy, Working, Cleaning
<1>4. ~GoesOn(p) BY <1>3 DEF GoesOn, Past
<1>5. PICK q \in Replayers : GoesOn(q) BY <1>3 DEF Calm
<1>6. q # p /\ GoesOn(q)' BY <1>2, <1>4, <1>5
<1>7. dir' = dir
  <2>1. Effects(p) BY Effecting
  <2>2. CASE dir' # dir
    <3>1. dir' = None /\ There /\ IsEmpty(dir)
      BY <2>1, <2>2, Identities DEF Effects, Stays, Appears, Goes1, Sweeps
    <3>2. \A n \in Names : Find(n) = None BY <3>1 DEF Find, IsEmpty, Vacant
    <3>3. Find(q) = q \/ Find(Published) = q
      <4>1. Stands(q) BY DEF Tight
      <4>2. CASE Succeeded(q) BY <4>1, <4>2 DEF Stands
      <4>3. CASE Past(q, "mkstemp") /\ "unlink" \in Rest(q) BY <4>1, <4>3 DEF Stands
      <4>4. CASE Past(q, "mkstemp") /\ "unlink" \notin Rest(q)
        <5>1. Under BY DEF Typed
        <5>2. todo[q] # <<>> BY <4>4, <5>1, RestEmpty DEF Past, Working
        <5>3. Works(todo[q]) \/ Cleans(todo[q]) BY <5>1, <5>2, Here
        <5>4. Ordered(Rest(q)) BY <4>4, <5>3 DEF Works, Cleans, Tidy, Rest, Past, Working, Cleaning
        <5>5. Past(q, "link") BY <4>4, <5>4 DEF Past, Ordered
        <5>6. QED BY <4>1, <5>5 DEF Stands
      <4>5. QED BY <1>5, <4>2, <4>3, <4>4 DEF GoesOn
    <3>4. QED BY <3>2, <3>3, Identities
  <2>3. QED BY <2>2
<1>8. identity'[p] = identity[p] BY <1>1 DEF Unmarked
<1>9. ~Succeeded(p)'
  <2>1. answer[p] = None BY Busy
  <2>2. answer'[p] \in {None, "failed"} BY <2>1 DEF Sweeps
  <2>3. QED BY <2>2, ReplayAssumption DEF Succeeded
<1>10. \A r \in Replayers : identity'[r] \in {None, dir'} /\ (Past(r, "look")' => There')
  <2>1. ~Past(p, "look")' BY <1>3 DEF Past
  <2>2. QED BY <1>2, <1>7, <1>8, <2>1 DEF Calm, There
<1>11. \A r \in Replayers : Find(Published)' = r => Working(r)' \/ Succeeded(r)'
  <2>1. Find(Published) # p BY <1>3 DEF Calm
  <2>2. Find(Published)' \in {Find(Published), None} BY DEF Sweeps
  <2>3. QED BY <1>2, <2>1, <2>2, Identities DEF Calm
<1>12. QED BY <1>6, <1>10, <1>11 DEF Calm

LEMMA CalmBacks ==
  ASSUME Typed, Loose, Tight, Calm, NEW p \in Replayers, Acts(p), NEW s \in Stages, Backs(p, s),
         UNCHANGED struck, Reason(p, s), version' = version, Find(p)' = Find(p),
         Find(Published)' = Find(Published), dir' = dir
  PROVE  Calm' \/ Crowded'
<1>1. /\ Raised(p, s) /\ Unmarked /\ UNCHANGED answer /\ Works1(p, s) /\ Knows(p) /\ Under
      /\ Ordered(Rest(p)) /\ Placed(s, Rest(p)) /\ Working(p)
  BY DEF Backs, Raised, Works1, Typed
<1>2. /\ ~Working(p)' /\ \A m \in Milestones : ~Past(p, m)' BY <1>1, RaisedKnows
<1>3. \A q \in Replayers : q # p =>
        /\ GoesOn(q)' <=> GoesOn(q)
        /\ Working(q)' <=> Working(q)
        /\ Succeeded(q)' <=> Succeeded(q)
        /\ identity'[q] = identity[q]
        /\ \A m : Past(q, m)' <=> Past(q, m)
  BY GoesOnStays
<1>4. \A q \in Replayers : Stands(q) /\ Files1(q) /\ Joins(q) /\ q # None /\ q \in Names /\ q # Published
  BY Identities DEF Loose, Tight
<1>5. ASSUME Find(Published) # p, NEW q \in Replayers, q # p, GoesOn(q)
      PROVE  Calm'
  <2>1. \E e \in Replayers : GoesOn(e)' BY <1>3, <1>5
  <2>2. identity'[p] = identity[p] BY <1>1 DEF Unmarked
  <2>3. ~Past(p, "look")' BY <1>2 DEF Past
  <2>4. \A r \in Replayers : identity'[r] \in {None, dir'} /\ (Past(r, "look")' => There')
    BY <1>3, <2>2, <2>3 DEF Calm, There
  <2>5. \A r \in Replayers : Find(Published)' = r => Working(r)' \/ Succeeded(r)'
    BY <1>3, <1>5 DEF Calm
  <2>6. QED BY <2>1, <2>4, <2>5 DEF Calm
<1>6. CASE s = "look"
  <2>1. There /\ ~IsEmpty(dir) BY <1>6 DEF Reason
  <2>2. Disks BY DEF Typed
  <2>3. PICK n \in Names : Find(n) # None
    <3>1. dir \in Dirs /\ inside[dir] \in [Names -> Files \cup {None}] BY <2>1, <2>2 DEF Disks, There
    <3>2. \E n \in Names : inside[dir][n] # Vacant[n] BY <2>1, <3>1 DEF IsEmpty, Vacant
    <3>3. QED BY <2>1, <3>2 DEF Vacant, Find
  <2>4. \E r \in Replayers : Find(r) = r \/ Find(Published) = r
    <3>1. Find(n) \in Replayers /\ (n \in Replayers => Find(n) = n) BY <2>3, WhatStands
    <3>2. n = Published \/ n \in Replayers BY Identities
    <3>3. QED BY <3>1, <3>2
  <2>5. PICK q \in Replayers : GoesOn(q) BY <2>4, OwnersGoOn
  <2>6. "mkstemp" \in Rest(p) BY <1>1, <1>6, Orders
  <2>7. q # p BY <2>5, <2>6, Busy DEF GoesOn, Past
  <2>8. Find(Published) # p
    <3>1. Unmade(p) BY <1>4, <2>6 DEF Files1
    <3>2. QED BY <1>4, <2>1, <2>2, <3>1 DEF Unmade, Find, Disks, There
  <2>9. QED BY <1>5, <2>5, <2>7, <2>8
<1>7. CASE s = "link"
  <2>1. "link" \in Rest(p) /\ Past(p, "mkstemp")
    BY <1>1, <1>7, Orders DEF Past, Milestones
  <2>2. Find(Published) # p BY <1>4, <2>1 DEF Stands
  <2>3. Find(p) = p
    <3>1. "unlink" \in Rest(p) BY <1>1, <2>1 DEF Ordered
    <3>2. QED BY <1>4, <2>1, <3>1 DEF Stands
  <2>4. Find(Published) # None BY <1>4, <1>7, <2>3 DEF Reason
  <2>5. PICK r \in Replayers : Find(Published) = r BY <2>4, WhatStands DEF Names
  <2>6. GoesOn(r)
    <3>1. Working(r) \/ Succeeded(r) BY <2>5 DEF Calm
    <3>2. "mkstemp" \notin Rest(r)
      <4>1. dir \in Dirs /\ inside[dir][Published] = r
        BY <1>4, <2>4, <2>5 DEF Find, There, Typed, Disks
      <4>2. QED BY <1>4, <4>1 DEF Files1, Unmade
    <3>3. QED BY <3>1, <3>2 DEF GoesOn, Past
  <2>7. QED BY <1>5, <2>2, <2>5, <2>6
<1>8. CASE s = "alone"
  <2>1. Past(p, "unlink") /\ Past(p, "link") /\ Past(p, "mkstemp") /\ Past(p, "identify")
    BY <1>1, <1>8 DEF Past, Placed, Ordered
  <2>2. Find(p) = None /\ Find(Published) = p /\ database[p] = p
    BY <1>1, <1>4, <2>1 DEF Stands, Knows
  <2>3. SingleLink(p) BY <1>4, <2>2, NamesOf DEF SingleLink
  <2>4. identity[p] # None /\ identity[p] = dir BY <1>1, <2>1 DEF Knows, Calm
  <2>5. PICK n \in Names \ {Published} : Find(n) # None BY <1>8, <2>3, <2>4 DEF Reason
  <2>6. n \in Replayers /\ Find(n) = n BY <2>5, WhatStands, Identities
  <2>7. n # p BY <2>2, <2>5
  <2>8. dir \in joined
    <3>1. identity[n] = dir \/ dir \in joined BY <1>4, <2>6 DEF Joins
    <3>2. identity[n] = dir => identity[p] \in joined BY <1>4, <2>4, <2>6, <2>7 DEF Joins
    <3>3. QED BY <2>4, <3>1, <3>2
  <2>9. joined' # {} BY <2>8, StruckStays
  <2>10. At(p, "alone") BY <1>1, <1>8 DEF Works1
  <2>11. version'[p] = "v3" BY <1>1, <2>10, AloneIsV3
  <2>12. QED BY <2>9, <2>11 DEF Crowded
<1>9. QED BY <1>1, <1>6, <1>7, <1>8, CalmReason

LEMMA FairStep ==
  ASSUME Typed, Loose, Tight, Fair, NEW p \in Replayers, Acts(p), version' = version
  PROVE  Fair'
<1> SUFFICES ASSUME struck' = {} PROVE Calm' \/ Crowded' BY DEF Fair
<1>1. struck = {} BY StruckStays
<1>2. \A e, s : ~Strikes(e, s) BY DEF Strikes
<1>3. Calm \/ Crowded BY <1>1 DEF Fair
<1>4. Crowded => Crowded' BY StruckStays DEF Crowded
<1>5. CASE Calm
  <2>1. CASE \/ \E s \in Stages : Passes(p, s)
             \/ Verifies(p) \/ Enters(p) \/ Identifies(p) \/ Makes(p) \/ Fills(p) \/ Publishes(p)
             \/ Unlinks(p) \/ Vacates(p) \/ Finishes(p)
    BY <1>5, <2>1, WaysGo, CalmTreads
  <2>2. CASE \E s \in Stages : Falls(p, s)
    <3>1. PICK s \in Stages : Falls(p, s) BY <2>2
    <3>2. Still /\ Raised(p, s) /\ Unmarked /\ UNCHANGED <<answer, joined, struck>> /\ Reason(p, s)
      BY <1>2, <3>1 DEF Falls
    <3>3. dir' = dir /\ \A k : Find(k)' = Find(k) BY <3>2, FindStill DEF Still
    <3>4. Backs(p, s) BY <3>2, <3>3 DEF Backs
    <3>5. QED BY <1>5, <3>2, <3>3, <3>4, CalmBacks
  <2>3. CASE EntersUnknown(p) \/ MakesUnknown(p) \/ PublishesUnknown(p) \/ UnlinksUnknown(p) \/ Halts(p)
    BY <1>2, <2>3 DEF EntersUnknown, MakesUnknown, PublishesUnknown, UnlinksUnknown, Halts
  <2>4. CASE \/ \E s \in Stages : Clears(p, s) \/ Skips(p, s)
             \/ TakesBack(p) \/ Withdraws(p) \/ Leaves(p) \/ GivesUp(p)
    BY <1>5, <2>4, WaysOut, CalmSweeps
  <2>5. QED BY <2>1, <2>2, <2>3, <2>4 DEF Acts
<1>6. QED BY <1>3, <1>4, <1>5

LEMMA BeginsFair ==
  ASSUME Init, Typed
  PROVE  Fair
<1>1. ASSUME NEW p \in Replayers
      PROVE  Working(p) /\ ~Past(p, "look") /\ identity[p] = None
  <2>1. PICK m : Laid(Program(p), m) BY ProgramWorks DEF Init
  <2>2. PICK P : P = Program(p) OBVIOUS
  <2>3. P \in Seq(Stages) BY <2>1, <2>2 DEF Laid
  <2>4. \A s : s \in Range(P) <=> \E i \in 1 .. Len(P) : P[i] = s BY <2>3, RangeIs
  <2>5. \A s \in Milestones : s \in Range(P)
    <3>1. \A s \in Milestones : m[s] \in 1 .. Len(P) /\ P[m[s]] = s BY <2>1, <2>2 DEF Laid
    <3>2. QED BY <2>4, <3>1
  <2>6. todo[p] = P BY <2>2 DEF Init
  <2>7. "done" \in Rest(p) /\ "look" \in Rest(p) BY <2>5, <2>6 DEF Rest, Milestones
  <2>8. QED BY <2>7 DEF Init, Working, Past
<1>2. Calm BY <1>1 DEF Calm
<1>3. QED BY <1>2 DEF Fair

(* While nobody edits and nothing fails, a replay fails only against one    *)
(* that goes on to publish, unless version 3 has met others in the same     *)
(* directory (the inventory check of replay_run_bundle_v3).                 *)
THEOREM Fairness == Spec => [](edits = 0 => Fair)
<1> DEFINE I == edits = 0 => Fair
           T == edits = 0 => Tight
<1>1. Init => I
  <2> SUFFICES ASSUME Init, edits = 0 PROVE Fair OBVIOUS
  <2>1. QED BY BeginsTyped, BeginsFair
<1>2. (Typed /\ Loose) /\ T /\ I /\ [Next]_vars => I'
  <2> SUFFICES ASSUME Typed, Loose, T, I, [Next]_vars, edits' = 0 PROVE Fair' OBVIOUS
  <2>1. edits \in Nat BY DEF Typed, Bounded
  <2>2. CASE Next
    <3>1. (Edits \/ \E p \in Replayers : Acts(p)) /\ version' = version BY <2>2, Steps DEF Loose
    <3>2. ~Edits BY <2>1 DEF Edits
    <3>3. PICK p \in Replayers : Acts(p) BY <3>1, <3>2
    <3>4. edits = 0 BY <3>3, Frame
    <3>5. QED BY <3>1, <3>3, <3>4, FairStep
  <2>3. CASE UNCHANGED vars
    <3>1. Fair BY <2>3, Unchanging
    <3>2. /\ UNCHANGED <<version, dir, identity, struck, joined>>
          /\ \A p, m : Past(p, m)' <=> Past(p, m)
          /\ \A p : (Working(p)' <=> Working(p)) /\ (Succeeded(p)' <=> Succeeded(p))
          /\ \A n : Find(n)' = Find(n)
      BY <2>3, Unchanging
    <3>3. Calm => Calm' BY <3>2 DEF Calm, GoesOn, There
    <3>4. QED BY <3>1, <3>2, <3>3 DEF Fair, Crowded
  <2>4. QED BY <2>2, <2>3
<1>3. QED BY <1>1, <1>2, Foundation, Grip, PTL DEF Spec

----------------------------------------------------------------------------
(* What the invariants of the run say.                                     *)

LEMMA SuffixRange ==
  ASSUME NEW t, NEW P, IsSuffix(t, P)
  PROVE  Range(t) \subseteq Range(P)
<1>1. t \in Seq(Stages) /\ P \in Seq(Stages) /\ Len(t) <= Len(P) BY DEF IsSuffix
<1>2. Len(t) \in Nat /\ Len(P) \in Nat BY <1>1
<1> SUFFICES ASSUME NEW s \in Range(t) PROVE s \in Range(P) OBVIOUS
<1>3. PICK i \in 1 .. Len(t) : t[i] = s BY <1>1, RangeIs
<1>4. P[Len(P) - Len(t) + i] = s BY <1>3 DEF IsSuffix
<1>5. Len(P) - Len(t) + i \in 1 .. Len(P) BY <1>1, <1>2
<1>6. QED BY <1>1, <1>4, <1>5, RangeIs

LEMMA Stocked ==
  ASSUME Under, NEW p \in Replayers
  PROVE  Range(todo[p]) \subseteq Cleaning \cup Range(Program(p))
<1>1. RemoveAll \in Seq(Cleaning) /\ RemoveFiles \in Seq(Cleaning)
  BY DEF RemoveAll, RemoveFiles, Cleaning
<1>2. Range(RemoveAll) \subseteq Cleaning /\ Range(RemoveFiles) \subseteq Cleaning BY <1>1, RangeIs
<1>3. CASE IsSuffix(todo[p], Program(p)) BY <1>3, SuffixRange
<1>4. CASE IsSuffix(todo[p], RemoveAll) BY <1>2, <1>4, SuffixRange
<1>5. CASE IsSuffix(todo[p], RemoveFiles) BY <1>2, <1>5, SuffixRange
<1>6. QED BY <1>3, <1>4, <1>5 DEF Under, Controlled

LEMMA Sound ==
  ASSUME Typed, Loose, edits = 0 => Tight
  PROVE  ReplayInv
<1>1. Under /\ Disks /\ Locals /\ Bounded BY DEF Typed
<1>2. TypeOK BY <1>1, Stocked DEF TypeOK, Disks, Locals, Bounded
<1>3. ASSUME NEW p \in Replayers, Succeeded(p) PROVE content[p] = verified[p]
  BY <1>3 DEF Loose, Files1, Filled
<1>4. ASSUME NEW p \in Replayers, Succeeded(p), edits = 0 PROVE Find(Published) = p /\ Links(p) = 1
  <2>1. Tight BY <1>4
  <2>2. Find(Published) = p /\ Find(p) # p BY <1>4, <2>1 DEF Tight, Stands
  <2>3. QED BY <2>1, <2>2, NamesOf
<1>5. QED BY <1>2, <1>3, <1>4 DEF ReplayInv, EquivalenceIsPublished

(* The types hold, and a replay that reports equivalence has published its *)
(* own database, filled from the bundle that it verified and, while nobody *)
(* edits the destination, under the published name only; whatever fails at *)
(* whatever call (replay_run_bundle in its three versions).                *)
THEOREM ReplayIsSound == Spec => []ReplayInv
<1>1. (Typed /\ Loose) /\ (edits = 0 => Tight) => ReplayInv BY Sound
<1>2. QED BY <1>1, Foundation, Grip, PTL

LEMMA OneOfThem ==
  ASSUME Typed, Loose, edits = 0 => Tight, edits = 0 => Fair
  PROVE  OneReplaySucceeds
<1>1. ASSUME edits = 0, NEW p \in Replayers, NEW q \in Replayers, Succeeded(p), Succeeded(q) PROVE p = q
  BY <1>1 DEF Tight, Stands
<1>2. ASSUME edits = 0, struck = {}, \A p \in Replayers : answer[p] # None, ~Crowded
      PROVE  \E p \in Replayers : Succeeded(p)
  <2>1. Calm BY <1>2 DEF Fair
  <2>2. \A p \in Replayers : ~Working(p) BY <1>2 DEF Typed, Knows, Working
  <2>3. PICK p \in Replayers : TRUE BY ReplayAssumption
  <2>4. CASE Succeeded(p) BY <2>4
  <2>5. CASE ~Succeeded(p)
    <3>1. PICK q \in Replayers : GoesOn(q) BY <2>1, <2>2, <2>5 DEF Calm
    <3>2. Succeeded(q) BY <2>2, <3>1 DEF GoesOn, Past
    <3>3. QED BY <3>2
  <2>6. QED BY <2>4, <2>5
<1>3. QED BY <1>1, <1>2 DEF OneReplaySucceeds, Crowded

(* Of several replays into one destination that nobody edits at most one   *)
(* succeeds, whatever fails; and one does when nothing fails and all have  *)
(* answered, unless version 3 has met another (os.link replaces no name).  *)
THEOREM OneSucceeds == Spec => []OneReplaySucceeds
<1>1. (Typed /\ Loose) /\ (edits = 0 => Tight) /\ (edits = 0 => Fair) => OneReplaySucceeds
  BY OneOfThem
<1>2. QED BY <1>1, Foundation, Grip, Fairness, PTL

LEMMA GivenBack ==
  ASSUME Typed, Loose, edits = 0 => Tight
  PROVE  FailedReplayLeavesNothing
<1> SUFFICES ASSUME NEW p \in Replayers, answer[p] = "failed", edits = 0, ~StruckIn(p, Cleaning)
             PROVE  /\ Links(p) = 0 \/ StruckIn(p, {"mkstemp"})
                    /\ dir = p => \/ StruckIn(p, {"look", "identify", "mkstemp"})
                                  \/ p \in joined
  BY DEF FailedReplayLeavesNothing
<1>1. Tight /\ Removes(p) /\ Directory(p) BY DEF Tight
<1>2. Rest(p) = {}
  <2>1. None # "failed" BY ReplayAssumption
  <2>2. QED BY <2>1 DEF Typed, Knows
<1>3. Unwinding(p) BY DEF Unwinding
<1>4. \A X : StruckIn(p, Cleaning \cup X) => StruckIn(p, X) BY DEF StruckIn
<1>5. Find(p) # p \/ StruckIn(p, {"mkstemp"}) BY <1>1, <1>2, <1>3, <1>4 DEF Removes
<1>6. Find(Published) # p BY <1>1, <1>2, <1>3 DEF Removes
<1>7. Links(p) = 0 \/ StruckIn(p, {"mkstemp"}) BY <1>1, <1>5, <1>6, NamesOf
<1>8. ASSUME dir = p PROVE StruckIn(p, {"look", "identify", "mkstemp"}) \/ p \in joined
  <2>1. StruckIn(p, Cleaning \cup {"look", "identify", "mkstemp"}) \/ p \in joined
    BY <1>1, <1>2, <1>3, <1>8 DEF Directory
  <2>2. Cleaning \cup {"look", "identify", "mkstemp"} = Cleaning \cup ({"look", "identify", "mkstemp"})
    OBVIOUS
  <2>3. QED BY <1>4, <2>1
<1>9. QED BY <1>7, <1>8

(* A replay that failed has left neither its file nor, unless others are   *)
(* in it, the directory that it made, while nobody edits the destination   *)
(* and no fault came between making something and noting it or in the      *)
(* cleanup (replay_run_bundle, except BaseException).                      *)
THEOREM NothingIsLeft == Spec => []FailedReplayLeavesNothing
<1>1. (Typed /\ Loose) /\ (edits = 0 => Tight) => FailedReplayLeavesNothing BY GivenBack
<1>2. QED BY <1>1, Foundation, Grip, PTL

----------------------------------------------------------------------------
(* What others have put into the destination.                              *)

Undone(n) == n = Published /\ \E p \in Replayers : At(p, "unlink_published")

LEMMA ForeignStep ==
  ASSUME Typed, Loose, NEW p \in Replayers, Acts(p), NEW n \in Names, Find(n) = Owner
  PROVE  inside'[dir][n] = Owner \/ Undone(n)
<1>1. Disks /\ Files1(p) BY DEF Typed, Loose
<1>2. /\ p \in Names /\ p # Owner /\ Published \in Names /\ p # Published /\ Owner # None
  BY Identities
<1>3. dir \in Dirs /\ inside[dir][n] = Owner BY <1>1, <1>2 DEF Find, There, Disks
<1>4. CASE inside' = inside BY <1>3, <1>4
<1>5. ASSUME NEW k \in Names, NEW f, Put(k, f), n = k => f = Owner PROVE inside'[dir][n] = Owner
  BY <1>1, <1>3, <1>5, Written
<1>6. CASE Makes(p) \/ MakesUnknown(p)
  <2>1. Put(p, p) /\ Works1(p, "mkstemp") BY <1>6 DEF Makes, MakesUnknown, Goes, Raised
  <2>2. "mkstemp" \in Rest(p) BY <2>1, Orders DEF Milestones
  <2>3. n # p BY <1>1, <1>2, <1>3, <2>2 DEF Files1, Unmade
  <2>4. QED BY <1>2, <1>5, <2>1, <2>3
<1>7. CASE Fills(p)
  <2>1. PICK f \in {p, Owner} : Put(p, f) /\ Find(p) \in {None, f} BY <1>7 DEF Fills
  <2>2. n = p => f = Owner BY <1>2, <2>1
  <2>3. QED BY <1>2, <1>5, <2>1, <2>2
<1>8. CASE Publishes(p) \/ PublishesUnknown(p)
  <2>1. Put(Published, Find(p)) /\ Find(Published) = None BY <1>8 DEF Publishes, PublishesUnknown
  <2>2. n # Published BY <1>2, <2>1
  <2>3. QED BY <1>2, <1>5, <2>1, <2>2
<1>9. CASE Unlinks(p) \/ UnlinksUnknown(p) \/ TakesBack(p)
  <2>1. Put(p, None) /\ Find(p) = p BY <1>9 DEF Unlinks, UnlinksUnknown, TakesBack
  <2>2. n # p BY <1>2, <2>1
  <2>3. QED BY <1>2, <1>5, <2>1, <2>2
<1>10. CASE Withdraws(p)
  <2>1. Put(Published, None) /\ At(p, "unlink_published") BY <1>10 DEF Withdraws, Tidies
  <2>2. CASE n = Published BY <2>1, <2>2 DEF Undone
  <2>3. CASE n # Published BY <1>2, <1>5, <2>1, <2>3
  <2>4. QED BY <2>2, <2>3
<1>11. QED
  BY <1>4, <1>6, <1>7, <1>8, <1>9, <1>10
  DEF Acts, Passes, Falls, Clears, Skips, Verifies, Enters, Identifies, Vacates, Finishes, Leaves,
      GivesUp, Halts, EntersUnknown, Still

(* No call removes or replaces a file that somebody else has put under one *)
(* of the names, whatever it meets, unless that came between its look at   *)
(* the published name and the removal (_remove_owned_replay_database).     *)
THEOREM ForeignStays == Spec => ForeignFilesStay
<1> DEFINE A == \A n \in Names : Find(n) = Owner /\ content[Owner] = "foreign" /\ edits' = edits
                  => \/ inside'[dir][n] = Owner
                     \/ n = Published /\ \E p \in Replayers : At(p, "unlink_published")
<1>1. Typed /\ Loose /\ [Next]_vars => [A]_vars
  <2> SUFFICES ASSUME Typed, Loose, Next, NEW n \in Names, Find(n) = Owner, edits' = edits
               PROVE  \/ inside'[dir][n] = Owner
                      \/ n = Published /\ \E p \in Replayers : At(p, "unlink_published")
    OBVIOUS
  <2>1. Edits \/ \E p \in Replayers : Acts(p) BY Steps DEF Loose
  <2>2. ~Edits BY DEF Typed, Bounded, Edits
  <2>3. PICK p \in Replayers : Acts(p) BY <2>1, <2>2
  <2>4. inside'[dir][n] = Owner \/ Undone(n) BY <2>3, ForeignStep
  <2>5. QED BY <2>4 DEF Undone
<1>2. QED BY <1>1, Foundation, PTL DEF Spec, ForeignFilesStay

----------------------------------------------------------------------------
(* The published name, whatever is edited.                                 *)

LEMMA PublishedAfter ==
  ASSUME Typed, Loose, NEW p \in Replayers, Acts(p)
  PROVE  \/ Find(Published)' = Find(Published)
         \/ Withdraws(p) /\ Find(Published)' = None
         \/ /\ Publishes(p) \/ PublishesUnknown(p)
            /\ Find(Published) = None /\ Find(Published)' = Find(p) /\ Find(p) \in {p, Owner}
<1>1. Disks /\ Disks' /\ Files1(p) BY Frame DEF Typed, Loose
<1>2. p \in Names /\ Published \in Names /\ p # Published /\ p \in Dirs /\ p # None BY Identities
<1>3. There => dir \in Dirs BY <1>1 DEF There, Disks
<1>4. CASE UNCHANGED <<dir, inside>> BY <1>4 DEF Find, There
<1>5. CASE Enters(p) \/ EntersUnknown(p)
  <2>1. /\ Works1(p, "look") /\ dir = None /\ dir' = p /\ inside' = inside
    BY <1>5 DEF Enters, EntersUnknown, Goes, Raised
  <2>2. "look" \in Rest(p) BY <2>1, Orders DEF Milestones
  <2>3. inside[p] = Vacant BY <1>1, <2>2 DEF Files1, Unborn
  <2>4. inside'[p][Published] = None BY <1>2, <2>1, <2>3 DEF Vacant
  <2>5. QED BY <1>2, <2>1, <2>4 DEF Find, There
<1>6. CASE Leaves(p)
  <2>1. There /\ inside[dir] = Vacant /\ dir' = None BY <1>6 DEF Leaves, IsEmpty
  <2>2. Find(Published) = None BY <1>2, <2>1 DEF Find, Vacant
  <2>3. QED BY <2>1, <2>2 DEF Find, There
<1>7. CASE Makes(p) \/ MakesUnknown(p) \/ Fills(p) \/ Unlinks(p) \/ UnlinksUnknown(p) \/ TakesBack(p)
  <2>1. There /\ dir' = dir /\ \E f : Put(p, f)
    BY <1>7 DEF Makes, MakesUnknown, Fills, Unlinks, UnlinksUnknown, TakesBack
  <2>2. QED BY <1>1, <1>2, <1>3, <2>1, FindPut
<1>8. CASE Publishes(p) \/ PublishesUnknown(p)
  <2>1. There /\ dir' = dir /\ Put(Published, Find(p)) /\ Find(p) # None /\ Find(Published) = None
    BY <1>8 DEF Publishes, PublishesUnknown
  <2>2. Find(Published)' = Find(p) BY <1>1, <1>2, <1>3, <2>1, FindPut
  <2>3. Find(p) \in {p, Owner} BY <1>1, <1>3, <2>1 DEF Files1, Find
  <2>4. QED BY <1>8, <2>1, <2>2, <2>3
<1>9. CASE Withdraws(p)
  <2>1. There /\ dir' = dir /\ Put(Published, None) BY <1>9 DEF Withdraws
  <2>2. Find(Published)' = None BY <1>1, <1>2, <1>3, <2>1, FindPut
  <2>3. QED BY <1>9, <2>2
<1>10. QED
  BY <1>4, <1>5, <1>6, <1>7, <1>8, <1>9
  DEF Acts, Passes, Falls, Clears, Skips, Verifies, Identifies, Vacates, Finishes, GivesUp, Halts, Still

LEMMA PublishedEdited ==
  ASSUME Typed, Loose, Edits
  PROVE  Find(Published)' \in {Find(Published), None, Owner}
<1>1. Disks BY DEF Typed
<1>2. Owner \in Dirs /\ Published \in Names /\ Owner # None BY Identities
<1>3. CASE UNCHANGED <<dir, inside>> BY <1>3 DEF Find, There
<1>4. CASE dir' = Owner /\ UNCHANGED inside
  <2>1. CASE dir = Owner BY <1>4, <2>1 DEF Find, There
  <2>2. CASE dir # Owner
    <3>1. inside'[Owner] = Vacant BY <1>4, <2>2 DEF Loose
    <3>2. Find(Published)' = None BY <1>2, <1>4, <3>1 DEF Find, There, Vacant
    <3>3. QED BY <3>2
  <2>3. QED BY <2>1, <2>2
<1>5. CASE \E n \in Names : There /\ Put(n, Owner) /\ UNCHANGED dir
  <2>1. PICK n \in Names : There /\ Put(n, Owner) /\ dir' = dir BY <1>5
  <2>2. dir \in Dirs BY <1>1, <2>1 DEF There, Disks
  <2>3. QED BY <1>1, <1>2, <2>1, <2>2, FindPut
<1>6. QED BY <1>3, <1>4, <1>5 DEF Edits, Edit

(* A cleanup that has passed the published name, and met no error, does    *)
(* not leave its own database there, even if somebody edits.               *)
Freed(p) ==
  Unwinding(p) /\ "unlink_published" \notin Rest(p) /\ ~StruckIn(p, Cleaning) => Find(Published) # p

LEMMA FreedByItself ==
  ASSUME Typed, Loose, NEW p \in Replayers, Acts(p), Freed(p)
  PROVE  Freed(p)'
<1> SUFFICES ASSUME Unwinding(p)', "unlink_published" \notin Rest(p)', ~StruckIn(p, Cleaning)',
                    Find(Published)' = p
             PROVE FALSE
  BY DEF Freed
<1>1. Knows(p) /\ Files1(p) /\ Disks BY DEF Typed, Loose
<1>2. p # None /\ p # Owner BY Identities
<1>3. ~StruckIn(p, Cleaning) BY StruckStays
<1>4. answer[p] = None BY Busy
<1>5. answer[p] # "failed" BY <1>4, ReplayAssumption
<1>6. ASSUME NEW s, Goes(p, s), answer'[p] # "failed" PROVE FALSE
  <2>1. Rest(p)' \cap Cleaning = {} BY <1>6 DEF Goes
  <2>2. QED BY <1>6, <2>1 DEF Unwinding, Cleaning
<1>7. ASSUME NEW s, Raised(p, s), answer' = answer PROVE database[p] = None /\ "mkstemp" \in Rest(p)
  <2>1. Rest(p)' = Remaining(p) /\ Working(p) BY <1>7 DEF Raised, Works1
  <2>2. database[p] = None BY <2>1 DEF Remaining
  <2>3. ~Past(p, "mkstemp") BY <1>1, <1>2, <2>2 DEF Knows
  <2>4. QED BY <2>1, <2>2, <2>3 DEF Past
<1>8. "mkstemp" \in Rest(p) => Find(Published) # p
  <2>1. There => dir \in Dirs BY <1>1 DEF There, Disks
  <2>2. QED BY <1>1, <1>2, <2>1 DEF Files1, Unmade, Find
<1>9. ASSUME NEW s, Raised(p, s), answer' = answer, Find(Published)' = Find(Published) PROVE FALSE
  BY <1>7, <1>8, <1>9
<1>10. ASSUME NEW s, At(p, s), Tidy(s, Rest(p)), "unlink_published" \notin Rest(p), Find(Published)' = Find(Published)
       PROVE  FALSE
  <2>1. Unwinding(p) BY <1>10 DEF Tidy, Unwinding
  <2>2. QED BY <1>3, <1>10, <2>1 DEF Freed
<1>11. CASE \/ \E s \in Stages : Passes(p, s)
            \/ Verifies(p) \/ Enters(p) \/ Identifies(p) \/ Makes(p) \/ Fills(p) \/ Publishes(p)
            \/ Unlinks(p) \/ Vacates(p) \/ Finishes(p)
  <2>1. PICK s : Goes(p, s)
    BY <1>11 DEF Passes, Verifies, Enters, Identifies, Makes, Fills, Publishes, Unlinks, Vacates, Finishes
  <2>2. answer'[p] = answer[p] \/ answer'[p] = "equivalent"
    <3>1. answer \in [Replayers -> {None, "equivalent", "failed", "aborted", "crashed"}]
      BY DEF Typed, Locals
    <3>2. QED BY <1>11, <3>1
          DEF Passes, Verifies, Enters, Identifies, Makes, Fills, Publishes, Unlinks, Vacates, Finishes,
              Unmarked
  <2>3. QED BY <1>5, <1>6, <2>1, <2>2
<1>12. CASE \E s \in Stages : Falls(p, s)
  <2>1. PICK s \in Stages : Falls(p, s) BY <1>12
  <2>2. Find(Published)' = Find(Published) /\ answer' = answer /\ Raised(p, s)
    BY <2>1, FindStill DEF Falls
  <2>3. QED BY <1>9, <2>2
<1>13. CASE EntersUnknown(p) \/ MakesUnknown(p) \/ UnlinksUnknown(p)
  <2>1. PICK s : Raised(p, s) /\ answer' = answer BY <1>13 DEF EntersUnknown, MakesUnknown, UnlinksUnknown
  <2>2. "mkstemp" \in Rest(p) BY <1>7, <2>1
  <2>3. CASE Find(Published)' = Find(Published) BY <1>8, <2>2, <2>3
  <2>4. CASE Publishes(p) \/ PublishesUnknown(p)
    <3>1. Works1(p, "link") BY <2>4 DEF Publishes, PublishesUnknown, Goes, Raised
    <3>2. QED BY <2>2, <3>1, Orders
  <2>5. QED BY <1>2, <2>3, <2>4, PublishedAfter
<1>14. CASE PublishesUnknown(p)
  <2>1. Raised(p, "link") /\ Works1(p, "link") /\ answer' = answer BY <1>14 DEF PublishesUnknown, Raised
  <2>2. "mkstemp" \in Rest(p) BY <1>7, <2>1
  <2>3. QED BY <2>1, <2>2, Orders
<1>15. CASE \E s \in Stages : Clears(p, s)
  <2>1. PICK s \in Stages : Clears(p, s) BY <1>15
  <2>2. /\ Find(Published)' = Find(Published) /\ At(p, s) /\ Tidy(s, Rest(p)) /\ Rest(p)' = Rest(p) \ {s}
        /\ s \in Rest(p)
    BY <2>1, FindStill DEF Clears, Tidies, Tidy
  <2>3. s \in Cleaning BY <2>2 DEF Tidy
  <2>4. ~Strikes(p, s) BY <2>3, StrikesIn
  <2>5. CASE "unlink_published" \notin Rest(p) BY <1>10, <2>2, <2>5
  <2>6. CASE s = "unlink_published"
    <3>1. ~There BY <2>1, <2>4, <2>6 DEF Clears, Unneeded
    <3>2. Find(Published) = None BY <3>1 DEF Find
    <3>3. QED BY <1>2, <2>2, <3>2
  <2>7. QED BY <2>2, <2>5, <2>6
<1>16. CASE \E s \in Stages : Skips(p, s)
  <2>1. PICK s \in Stages : Skips(p, s) BY <1>16
  <2>2. /\ Find(Published)' = Find(Published) /\ At(p, s) /\ Tidy(s, Rest(p))
        /\ Rest(p)' = Rest(p) \ {s, Guarded(s)} /\ s \in Rest(p)
    BY <2>1, FindStill DEF Skips, Tidy
  <2>3. CASE "unlink_published" \notin Rest(p) BY <1>10, <2>2, <2>3
  <2>4. CASE "unlink_published" \in Rest(p)
    <3>1. s = "check_published" /\ Find(Published) # database[p]
      BY <2>1, <2>2, <2>4 DEF Skips, Guarded
    <3>2. database[p] = p BY <1>1, <2>4 DEF Knows
    <3>3. QED BY <2>2, <3>1, <3>2
  <2>5. QED BY <2>3, <2>4
<1>17. CASE Withdraws(p)
  <2>1. Find(Published)' # Find(Published) \/ "unlink_published" \in Rest(p) BY <1>17 DEF Withdraws, Tidies, Tidy
  <2>2. There /\ dir' = dir /\ Put(Published, None) BY <1>17 DEF Withdraws
  <2>3. dir \in Dirs BY <1>1, <2>2 DEF There, Disks
  <2>4. Find(Published)' = None BY <1>1, <2>2, <2>3, FindPut, Identities
  <2>5. QED BY <1>2, <2>4
<1>18. CASE TakesBack(p) \/ Leaves(p) \/ GivesUp(p)
  <2>1. PICK s \in {"remove_temporary", "rmdir", "fail"} : Tidies(p, s)
    BY <1>18 DEF TakesBack, Leaves, GivesUp
  <2>2. At(p, s) /\ Tidy(s, Rest(p)) /\ "unlink_published" \notin Rest(p) BY <2>1 DEF Tidies
  <2>3. CASE Find(Published)' = Find(Published) BY <1>10, <2>2, <2>3
  <2>4. CASE Publishes(p) \/ PublishesUnknown(p)
    <3>1. Rest(p) \cap Cleaning = {} BY <2>4 DEF Publishes, PublishesUnknown, Goes, Raised, Works1
    <3>2. QED BY <2>2, <3>1 DEF Tidy, Cleaning
  <2>5. QED BY <1>2, <2>3, <2>4, PublishedAfter
<1>19. CASE Halts(p)
  <2>1. Rest(p)' = {} /\ answer'[p] \in {"aborted", "crashed"}
    BY <1>19 DEF Halts, Typed, Locals
  <2>2. QED BY <2>1 DEF Unwinding
<1>20. QED
  BY <1>11, <1>12, <1>13, <1>14, <1>15, <1>16, <1>17, <1>18, <1>19 DEF Acts

LEMMA FreedByAnother ==
  ASSUME Typed, Loose, NEW p \in Replayers, Acts(p), NEW q \in Replayers, q # p, Freed(q)
  PROVE  Freed(q)'
<1>1. Same(q) BY Frame
<1>2. StruckIn(q, Cleaning) => StruckIn(q, Cleaning)' BY StruckStays
<1>3. Unwinding(q)' <=> Unwinding(q) BY <1>1 DEF Same, Unwinding
<1>4. Find(Published)' = q => Find(Published) = q BY PublishedAfter, Identities
<1>5. QED BY <1>1, <1>2, <1>3, <1>4 DEF Same, Freed

LEMMA FreedStep ==
  ASSUME Typed, Loose, [Next]_vars, \A p \in Replayers : Freed(p)
  PROVE  \A p \in Replayers : Freed(p)'
<1>1. CASE Next
  <2>1. Edits \/ \E p \in Replayers : Acts(p) BY <1>1, Steps DEF Loose
  <2>2. CASE Edits
    <3>1. UNCHANGED <<answer, struck>> /\ \A p \in Replayers : Rest(p)' = Rest(p)
      BY <2>2 DEF Edits, local
    <3>2. \A p \in Replayers : Find(Published)' = p => Find(Published) = p
      BY <2>2, PublishedEdited, Identities
    <3>3. QED BY <3>1, <3>2 DEF Freed, Unwinding, StruckIn
  <2>3. QED BY <2>1, <2>2, FreedByItself, FreedByAnother
<1>2. CASE UNCHANGED vars BY <1>2, Unchanging DEF Freed
<1>3. QED BY <1>1, <1>2

(* The cleanup of the published name, whatever is edited.                  *)
THEOREM Freeing == Spec => [](\A p \in Replayers : Freed(p))
<1> DEFINE F == \A p \in Replayers : Freed(p)
<1>1. Init => F
  <2> SUFFICES ASSUME Init, NEW p \in Replayers PROVE Find(Published) # p BY DEF Freed
  <2>1. p # None /\ Published \in Names BY Identities
  <2>2. dir \in Dirs \cup {None} /\ inside = [d \in Dirs |-> Vacant] BY DEF Init, Dirs
  <2>3. There => Find(Published) = None BY <2>1, <2>2 DEF Find, There, Vacant
  <2>4. QED BY <2>1, <2>3 DEF Find
<1>2. Typed /\ Loose /\ F /\ [Next]_vars => F' BY FreedStep
<1>3. QED BY <1>1, <1>2, Foundation, PTL DEF Spec

----------------------------------------------------------------------------
(* The ledger, whatever is edited.                                         *)

Standing ==
  IF Find(Published) \in Replayers THEN Find(Published)
  ELSE IF Find(Published) = Owner THEN "other" ELSE None

Outcome(p) ==
  IF answer[p] = None THEN None
  ELSE IF Succeeded(p) THEN "published"
  ELSE IF answer[p] \in {"crashed", "aborted"} \/ StruckIn(p, Cleaning) THEN "abandoned"
  ELSE "failed"

Outcomes == [p \in Replayers |-> Outcome(p)]

(* The actions of the ledger, by these names.                              *)
LEMMA LedgerActions ==
  /\ Ledger!Init <=> Standing = None /\ Outcomes = [p \in Replayers |-> None] /\ edits = 0
  /\ UNCHANGED <<Standing, Outcomes, edits>> => UNCHANGED Ledger!vars
  /\ Ledger!Next <=>
       \/ edits' = edits + 1 /\ Standing' \in {None, "other", Standing} /\ Outcomes' = Outcomes
       \/ \E p \in Replayers : Ledger!Publish(p) \/ Ledger!Withdraw(p) \/ Ledger!Answer(p)
BY DEF Ledger!Init, Ledger!vars, Ledger!Next, Ledger!Meddle, Standing, Outcome, Outcomes

LEMMA LedgerSteps ==
  ASSUME NEW p \in Replayers
  PROVE  /\ Ledger!Publish(p) <=>
              /\ Outcomes[p] = None /\ Standing = None
              /\ Standing' = p \/ (edits > 0 /\ Standing' = "other")
              /\ Outcomes' = Outcomes /\ edits' = edits
         /\ Ledger!Withdraw(p) <=>
              /\ Outcomes[p] = None
              /\ \/ Standing = p /\ Standing' = None
                 \/ edits > 0 /\ Standing # None /\ Standing' \in {None, "other"}
              /\ Outcomes' = Outcomes /\ edits' = edits
         /\ Ledger!Answer(p) <=>
              /\ Outcomes[p] = None
              /\ \/ Outcomes' = [Outcomes EXCEPT ![p] = "published"]
                 \/ Outcomes' = [Outcomes EXCEPT ![p] = "abandoned"]
                 \/ Standing # p /\ Outcomes' = [Outcomes EXCEPT ![p] = "failed"]
              /\ Standing' = Standing /\ edits' = edits
BY DEF Ledger!Publish, Ledger!Withdraw, Ledger!Answer, Standing, Outcome, Outcomes

LEMMA OutcomeOf ==
  ASSUME Typed, NEW p \in Replayers
  PROVE  /\ Outcome(p) = None <=> answer[p] = None
         /\ Succeeded(p) => Outcome(p) = "published"
         /\ answer[p] \in {"crashed", "aborted"} => Outcome(p) = "abandoned"
         /\ answer[p] = "failed" => Outcome(p) = IF StruckIn(p, Cleaning) THEN "abandoned" ELSE "failed"
<1>1. answer[p] \in {None, "equivalent", "failed", "aborted", "crashed"} BY DEF Typed, Locals
<1>2. None \notin {"equivalent", "failed", "aborted", "crashed", "published", "abandoned"}
  BY ReplayAssumption
<1>3. QED BY <1>1, <1>2 DEF Outcome, Succeeded

(* What stands there is told apart.                                        *)
LEMMA StandingOf ==
  ASSUME Disks
  PROVE  /\ Find(Published) \in Files \cup {None}
         /\ Find(Published) = None <=> Standing = None
         /\ Find(Published) = Owner => Standing = "other"
         /\ \A p \in Replayers : Find(Published) = p <=> Standing = p
<1>1. Find(Published) \in Files \cup {None}
  <2>1. There => dir \in Dirs /\ Published \in Names BY Identities DEF Disks, There
  <2>2. QED BY <2>1 DEF Disks, Find
<1>2. None # "other" /\ "other" \notin Replayers BY ReplayAssumption
<1>3. QED BY <1>1, <1>2, Identities DEF Standing

LEMMA StandingAfter ==
  ASSUME Disks'
  PROVE  /\ Find(Published)' \in Files \cup {None}
         /\ Find(Published)' = None <=> Standing' = None
         /\ Find(Published)' = Owner => Standing' = "other"
         /\ \A p \in Replayers : Find(Published)' = p <=> Standing' = p
<1>1. Find(Published)' \in Files \cup {None}
  <2>1. There' => dir' \in Dirs /\ Published \in Names BY Identities DEF Disks, There
  <2>2. QED BY <2>1 DEF Disks, Find
<1>2. None # "other" /\ "other" \notin Replayers BY ReplayAssumption
<1>3. QED BY <1>1, <1>2, Identities DEF Standing

(* A step that is no answer.                                               *)
LEMMA OutcomesStay ==
  ASSUME Typed, NEW p \in Replayers, Acts(p)
  PROVE  /\ Outcome(p) = None /\ \A q \in Replayers : q # p => Outcome(q)' = Outcome(q)
         /\ answer'[p] = None => Outcomes' = Outcomes
         /\ Outcomes' = [Outcomes EXCEPT ![p] = Outcome(p)']
<1>1. Outcome(p) = None BY Busy DEF Outcome
<1>2. ASSUME NEW q \in Replayers, q # p PROVE Outcome(q)' = Outcome(q)
  <2>1. answer'[q] = answer[q] BY <1>2, Frame DEF Same
  <2>2. StruckIn(q, Cleaning)' <=> StruckIn(q, Cleaning)
    <3>1. struck' = struck \/ \E s \in Stages : Strikes(p, s) BY Frame
    <3>2. CASE struck' = struck BY <3>2 DEF StruckIn
    <3>3. ASSUME NEW s, Strikes(p, s) PROVE StruckIn(q, Cleaning)' <=> StruckIn(q, Cleaning)
      <4>1. struck' = struck \cup {<<p, s>>} /\ <<p, s>>[1] = p BY <3>3 DEF Strikes
      <4>2. QED BY <1>2, <4>1 DEF StruckIn
    <3>4. QED BY <3>1, <3>2, <3>3
  <2>3. QED BY <2>1, <2>2 DEF Outcome, Succeeded
<1>3. answer'[p] = None => Outcome(p)' = None BY DEF Outcome
<1>4. answer'[p] = None => Outcomes' = Outcomes BY <1>1, <1>2, <1>3 DEF Outcomes
<1>5. Outcomes' = [Outcomes EXCEPT ![p] = Outcome(p)']
  <2> DEFINE v == Outcome(p)'
  <2>1. Outcomes' = [q \in Replayers |-> IF q = p THEN v ELSE Outcome(q)] BY <1>2 DEF Outcomes
  <2> HIDE DEF v
  <2>2. [Outcomes EXCEPT ![p] = v] = [q \in Replayers |-> IF q = p THEN v ELSE Outcome(q)]
    BY DEF Outcomes
  <2>3. QED BY <2>1, <2>2 DEF v
<1>6. QED BY <1>1, <1>2, <1>4, <1>5

LEMMA LedgerStep ==
  ASSUME Typed, Typed', Loose, edits = 0 => Tight, NEW p \in Replayers, Acts(p), Freed(p)
  PROVE  \/ UNCHANGED <<Standing, Outcomes, edits>>
         \/ Ledger!Publish(p) \/ Ledger!Withdraw(p) \/ Ledger!Answer(p)
<1>1. Disks /\ Disks' /\ Knows(p) /\ edits \in Nat BY DEF Typed, Bounded
<1>2. edits' = edits BY Frame
<1>3. Outcomes[p] = None BY OutcomesStay DEF Outcomes
<1>4. p # None /\ p # Owner /\ Owner # None BY Identities
<1>5. answer \in [Replayers -> {None, "equivalent", "failed", "aborted", "crashed"}] /\ answer[p] = None
  BY Busy DEF Typed, Locals
<1>6. CASE answer' = answer /\ Find(Published)' = Find(Published)
  BY <1>2, <1>5, <1>6, OutcomesStay DEF Standing
<1>7. CASE Publishes(p) \/ PublishesUnknown(p)
  <2>1. answer' = answer BY <1>7 DEF Publishes, PublishesUnknown
  <2>2. Outcomes' = Outcomes BY <1>5, <2>1, OutcomesStay
  <2>3. CASE Find(Published) = None /\ Find(Published)' = p
    <3>1. Standing = None /\ Standing' = p BY <1>1, <2>3, StandingOf, StandingAfter
    <3>2. QED BY <1>2, <1>3, <2>2, <3>1, LedgerSteps
  <2>4. CASE Find(Published) = None /\ Find(Published)' = Owner /\ Find(p) = Owner
    <3>1. Standing = None /\ Standing' = "other" BY <1>1, <2>4, StandingOf, StandingAfter
    <3>2. edits # 0
      <4>1. Find(p) = Owner => There /\ inside[dir][p] = Owner BY <1>4 DEF Find
      <4>2. There => dir \in Dirs BY <1>1 DEF There, Disks
      <4>3. QED BY <2>4, <4>1, <4>2, Identities DEF Tight, Holding
    <3>3. edits > 0 BY <1>1, <3>2
    <3>4. QED BY <1>2, <1>3, <2>2, <3>1, <3>3, LedgerSteps
  <2>5. CASE Find(Published)' = Find(Published) BY <1>6, <2>1, <2>5
  <2>6. CASE Withdraws(p)
    <3>1. Rest(p) \cap Cleaning = {} BY <1>7 DEF Publishes, PublishesUnknown, Goes, Raised, Works1
    <3>2. "unlink_published" \in Rest(p) BY <2>6 DEF Withdraws, Tidies, Tidy
    <3>3. QED BY <3>1, <3>2 DEF Cleaning
  <2>7. QED BY <2>3, <2>4, <2>5, <2>6, PublishedAfter
<1>8. CASE Withdraws(p)
  <2>1. answer' = answer BY <1>8 DEF Withdraws
  <2>2. Outcomes' = Outcomes BY <1>5, <2>1, OutcomesStay
  <2>3. There /\ dir' = dir /\ Put(Published, None) BY <1>8 DEF Withdraws
  <2>4. dir \in Dirs BY <1>1, <2>3 DEF There, Disks
  <2>5. Find(Published)' = None BY <1>1, <2>3, <2>4, FindPut, Identities
  <2>6. Standing' = None BY <1>1, <2>5, StandingAfter
  <2>7. CASE Find(Published) = None BY <1>6, <2>1, <2>5, <2>7
  <2>8. CASE Find(Published) # None /\ edits = 0
    <3>1. "unlink_published" \in Rest(p) /\ "check_published" \notin Rest(p)
      BY <1>8 DEF Withdraws, Tidies, Tidy
    <3>2. Find(Published) = p BY <2>8, <3>1 DEF Tight, Removes
    <3>3. Standing = p BY <1>1, <3>2, StandingOf
    <3>4. QED BY <1>2, <1>3, <2>2, <2>6, <3>3, LedgerSteps
  <2>9. CASE Find(Published) # None /\ edits # 0
    <3>1. Standing # None /\ edits > 0 BY <1>1, <2>9, StandingOf
    <3>2. QED BY <1>2, <1>3, <2>2, <2>6, <3>1, LedgerSteps
  <2>10. QED BY <2>7, <2>8, <2>9
<1>9. CASE Finishes(p) \/ GivesUp(p) \/ Halts(p)
  <2>1. Standing' = Standing
    <3>1. Still BY <1>9 DEF Finishes, GivesUp, Halts
    <3>2. Find(Published)' = Find(Published) BY <3>1, FindStill
    <3>3. QED BY <3>2 DEF Standing
  <2>2. Outcome(p)' \in {"published", "abandoned"} \/ (Outcome(p)' = "failed" /\ Standing # p)
    <3>1. CASE Finishes(p)
      <4>1. answer'[p] = "equivalent" BY <1>5, <3>1 DEF Finishes
      <4>2. QED BY <4>1, ReplayAssumption DEF Outcome, Succeeded
    <3>2. CASE Halts(p)
      <4>1. answer'[p] \in {"aborted", "crashed"} BY <1>5, <3>2 DEF Halts
      <4>2. QED BY <4>1, ReplayAssumption DEF Outcome, Succeeded
    <3>3. CASE GivesUp(p)
      <4>1. answer'[p] = "failed" /\ UNCHANGED struck BY <1>5, <3>3 DEF GivesUp
      <4>2. Tidy("fail", Rest(p)) BY <3>3 DEF GivesUp, Tidies
      <4>3. Unwinding(p) /\ "unlink_published" \notin Rest(p) BY <4>2 DEF Tidy, Unwinding
      <4>4. ~StruckIn(p, Cleaning) => Standing # p BY <1>1, <4>3, StandingOf DEF Freed
      <4>5. StruckIn(p, Cleaning)' <=> StruckIn(p, Cleaning) BY <4>1 DEF StruckIn
      <4>6. Outcome(p)' = IF StruckIn(p, Cleaning) THEN "abandoned" ELSE "failed"
        BY <4>1, <4>5, ReplayAssumption DEF Outcome, Succeeded
      <4>7. QED BY <4>4, <4>6
    <3>4. QED BY <1>9, <3>1, <3>2, <3>3
  <2>3. PICK v : v = Outcome(p)' OBVIOUS
  <2>4. Outcomes' = [Outcomes EXCEPT ![p] = v] BY <2>3, OutcomesStay
  <2>5. v = "published" \/ v = "abandoned" \/ (v = "failed" /\ Standing # p) BY <2>2, <2>3
  <2>6. QED BY <1>2, <1>3, <2>1, <2>4, <2>5, LedgerSteps
<1>10. answer' = answer \/ Finishes(p) \/ GivesUp(p) \/ Halts(p)
  BY DEF Acts, Passes, Falls, Clears, Skips, Verifies, Enters, Identifies, Makes, Fills, Publishes,
         Unlinks, Vacates, TakesBack, Withdraws, Leaves, EntersUnknown, MakesUnknown, PublishesUnknown,
         UnlinksUnknown
<1>11. QED BY <1>6, <1>7, <1>8, <1>9, <1>10, PublishedAfter

LEMMA LedgerEdited ==
  ASSUME Typed, Typed', Loose, Edits
  PROVE  Ledger!Next
<1>1. Disks /\ Disks' /\ edits' = edits + 1 BY DEF Typed, Edits
<1>2. Standing' \in {Standing, None, "other"}
  <2>1. CASE Find(Published)' = Find(Published) BY <2>1 DEF Standing
  <2>2. CASE Find(Published)' = None BY <1>1, <2>2, StandingAfter
  <2>3. CASE Find(Published)' = Owner BY <1>1, <2>3, StandingAfter
  <2>4. QED BY <2>1, <2>2, <2>3, PublishedEdited
<1>3. UNCHANGED <<answer, struck>> BY DEF Edits, local
<1>4. Outcomes' = Outcomes BY <1>3 DEF Outcomes, Outcome, Succeeded, StruckIn
<1>5. QED BY <1>1, <1>2, <1>4, LedgerActions

(* The published name of the destination follows the ledger in every step, *)
(* edits included: a replay publishes where nothing stands, withdraws what *)
(* is its own (or, once somebody has edited, what stands there), and what  *)
(* it has answered holds: an implementation of PublicationLedger.          *)
THEOREM LedgerIsKept == Spec => ImplementsLedger
<1> DEFINE F == \A p \in Replayers : Freed(p)
           T == edits = 0 => Tight
<1>1. Init => Ledger!Init
  <2> SUFFICES ASSUME Init PROVE Ledger!Init OBVIOUS
  <2>1. /\ dir \in Dirs \cup {None} /\ inside = [d \in Dirs |-> Vacant] /\ edits = 0
        /\ \A p \in Replayers : answer[p] = None
    BY DEF Init, Dirs
  <2>2. Find(Published) = None
    <3>1. Published \in Names BY Identities
    <3>2. There => inside[dir][Published] = None BY <2>1, <3>1 DEF There, Vacant
    <3>3. QED BY <3>2 DEF Find
  <2>3. Standing = None BY <2>2, Identities DEF Standing
  <2>4. Outcomes = [p \in Replayers |-> None] BY <2>1 DEF Outcomes, Outcome
  <2>5. QED BY <2>1, <2>3, <2>4, LedgerActions
<1>2. (Typed /\ Loose) /\ (Typed /\ Loose)' /\ T /\ F /\ [Next]_vars => [Ledger!Next]_(Ledger!vars)
  <2> SUFFICES ASSUME Typed, Loose, Typed', T, F, [Next]_vars
               PROVE  Ledger!Next \/ UNCHANGED Ledger!vars
    OBVIOUS
  <2>1. CASE Next
    <3>1. Edits \/ \E p \in Replayers : Acts(p) BY <2>1, Steps DEF Loose
    <3>2. CASE Edits BY <3>2, LedgerEdited
    <3>3. ASSUME NEW p \in Replayers, Acts(p) PROVE Ledger!Next \/ UNCHANGED Ledger!vars
      <4>1. \/ UNCHANGED <<Standing, Outcomes, edits>>
            \/ Ledger!Publish(p) \/ Ledger!Withdraw(p) \/ Ledger!Answer(p)
        BY <3>3, LedgerStep
      <4>2. QED BY <4>1, LedgerActions
    <3>4. QED BY <3>1, <3>2, <3>3
  <2>2. CASE UNCHANGED vars
    <3>1. UNCHANGED <<answer, struck, edits>> /\ Find(Published)' = Find(Published) BY <2>2, Unchanging
    <3>2. Outcomes' = Outcomes BY <3>1 DEF Outcomes, Outcome, Succeeded, StruckIn
    <3>3. Standing' = Standing BY <3>1 DEF Standing
    <3>4. QED BY <3>1, <3>2, <3>3, LedgerActions
  <2>3. QED BY <2>1, <2>2
<1>3. QED BY <1>1, <1>2, Foundation, Grip, Freeing, PTL DEF Spec, ImplementsLedger, Ledger!Spec
=============================================================================
