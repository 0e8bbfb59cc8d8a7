--------------------------- MODULE CostArithmetic ---------------------------
(***************************************************************************)
(* The binary floating-point additions with which the runner, the trace    *)
(* capture and the bundle check compute a cumulative cost.  A cost is a    *)
(* nonnegative integer count of some smallest unit; a float holds only the *)
(* integers with at most SignificandBits significant bits, and an addition *)
(* rounds the exact result to the nearest one, ties to even, as IEEE 754   *)
(* prescribes.  With every sum below 2^SignificandBits the arithmetic is   *)
(* exact.                                                                  *)
(*                                                                         *)
(* The code adds costs in two ways that differ when a sum is inexact:      *)
(* RunningCost is the plain `cumulative + cost` chain of the captured      *)
(* trace, SpentCost the built-in sum() of the interpreter the project      *)
(* requires (3.12), which carries a Neumaier compensation term.            *)
(***************************************************************************)
EXTENDS Integers, Sequences

CONSTANT SignificandBits

ASSUME SignificandAssumption == SignificandBits \in Nat \ {0}

AbsValue(n) == IF n < 0 THEN -n ELSE n

(* The gap between neighbouring floats at the magnitude n: the smallest    *)
(* power of two u with n < u * 2^SignificandBits.                          *)
Ulp(n) == LET ulp[k \in Nat] == IF n < 2^(k + SignificandBits) THEN 2^k ELSE ulp[k + 1]
          IN  ulp[0]

(* Round to nearest, ties to even.                                         *)
RoundMagnitude(n) ==
  LET u == Ulp(n)
      q == n \div u
      r == n % u
  IN  IF 2 * r < u \/ (2 * r = u /\ q % 2 = 0) THEN q * u ELSE (q + 1) * u

Float(n) == IF n < 0 THEN -RoundMagnitude(-n) ELSE RoundMagnitude(n)

FAdd(a, b) == Float(a + b)
FSub(a, b) == Float(a - b)

(* The cost of a captured trace: cumulative_cost + observation.cost, step  *)
(* after step, from 0.0.                                                   *)
RunningCost(records) ==
  LET cost[n \in 0 .. Len(records)] == IF n = 0 THEN 0 ELSE FAdd(cost[n - 1], records[n].cost)
  IN  cost[Len(records)]

(* One step of the compensated sum: the running total and the accumulated  *)
(* low-order error.                                                        *)
Neumaier(acc, x) ==
  LET t == FAdd(acc.total, x)
      lost == IF AbsValue(acc.total) >= AbsValue(x)
              THEN FAdd(FSub(acc.total, t), x)
              ELSE FAdd(FSub(x, t), acc.total)
  IN  [total |-> t, error |-> FAdd(acc.error, lost)]

(* sum(record.observation.cost for record in history).                     *)
SpentCost(history) ==
  LET sum[n \in 0 .. Len(history)] ==
        IF n = 0 THEN [total |-> 0, error |-> 0] ELSE Neumaier(sum[n - 1], history[n].cost)
      acc == sum[Len(history)]
  IN  FAdd(acc.total, acc.error)

=============================================================================
