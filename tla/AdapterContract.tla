--------------------------- MODULE AdapterContract ---------------------------
(***************************************************************************)
(* What CommandAdapter.evaluate promises about one direct child (see       *)
(* COMMAND_ADAPTER.md, "Direct-process and output contract").  Once the    *)
(* child has ended by itself its outcome is fixed: a return code and what  *)
(* stands on its two output streams.  The verdict is a function of that    *)
(* outcome and of the limits, in one order of precedence (stdout too big,  *)
(* stderr too big, return code, document), or it is one of the failures    *)
(* that return nothing of the child.  A timed-out child has no outcome.    *)
(***************************************************************************)
EXTENDS Naturals, Sequences

CONSTANTS
    Contents,    \* what may stand on a stream
    Decoded(_),  \* a verdict on what stands on stdout
    ReturnCodes, \* what a child may return; 0 is success
    None         \* nothing yet

VARIABLES
    outcome,     \* what the child has left, or None
    limits,      \* the limits the invocation set, or None before it is built
    verdict      \* what evaluate has answered, with its observation, or None

vars == <<outcome, limits, verdict>>

\* Failures that carry nothing of the child and may replace any verdict.
Failures == {"build_error", "adapter_error", "wait_failed",
             "output_io_failure", "cleanup_failed", "interrupted"}

\* The verdict on an outcome, in the order in which the adapter judges it.
Judge(o, l) ==
    IF Len(o.stdout) > l.stdout THEN <<"oversized_stdout", None>>
    ELSE IF Len(o.stderr) > l.stderr THEN <<"oversized_stderr", None>>
    ELSE IF o.code # 0 THEN <<"exit_error", None>>
    ELSE Decoded(o.stdout)

Init == outcome = None /\ limits = None /\ verdict = None

Built ==
    /\ verdict = None /\ limits = None
    /\ limits' \in [stdout : Nat, stderr : Nat]
    /\ UNCHANGED <<outcome, verdict>>

Ended ==
    /\ verdict = None /\ limits # None /\ outcome = None
    /\ outcome' \in [code : ReturnCodes, stdout : Contents, stderr : Contents]
    /\ UNCHANGED <<limits, verdict>>

Answered ==
    /\ verdict = None
    /\ \/ verdict' \in Failures \X {None}
       \/ outcome = None /\ limits # None /\ verdict' = <<"timeout", None>>
       \/ outcome # None /\ verdict' = Judge(outcome, limits)
    /\ UNCHANGED <<outcome, limits>>

Next == Built \/ Ended \/ Answered

Spec == Init /\ [][Next]_vars
==============================================================================
