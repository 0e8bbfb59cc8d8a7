---------------------------- MODULE CommandChild ----------------------------
(***************************************************************************)
(* One call of CommandAdapter.evaluate, step by step: the parent builds an *)
(* invocation, starts one direct child whose stdout and stderr are files   *)
(* in a temporary directory, waits for it until the timeout, measures and  *)
(* reads the files, removes the directory and decodes what it has read.    *)
(* Beside it run the child, which may end, hang, ignore terminate or       *)
(* refuse signals, a descendant of the child that inherited the two files  *)
(* and outlives it, and the user, who may interrupt the parent anywhere.   *)
(*                                                                         *)
(* A file is the sequence of the lines written to it.  Parent, child and   *)
(* descendant share one open file description, hence one offset: a write   *)
(* goes where the last read, write or seek of any of them ended.           *)
(***************************************************************************)
EXTENDS Integers, Sequences

CONSTANTS
  Lines,          \* what one write may add to a file
  Kind,           \* what each line is; see Kinds
  Invocations,    \* what the builder may return
  Places,         \* where module, working directory and temporary parent are,
                  \* and whether the temporary directory can be removed
  ChildWrites,    \* bound on the writes of the child
  LateWrites,     \* bound on the writes of a descendant, after the child
  MaxInterrupts,  \* bound on the interrupts of the user
  None

VARIABLES
  at,             \* what the parent does next
  place, invocation,
  child,          \* the direct child
  files, temp,    \* the two files, and the directory they are in
  size,           \* the measured sizes
  stdout,         \* the bytes read for the observation
  pending,        \* the error in flight
  reaped,         \* what _terminate_and_reap has returned
  answer,
  written, late, interrupts,
  sized, held,    \* history: the streams when measured, and stdout when read
  struck          \* history: where the parent was interrupted

system == <<at, place, invocation, child, files, temp, size, stdout, pending, reaped, answer>>
bounds == <<written, late, interrupts>>
history == <<sized, held, struck>>
vars == <<system, bounds, history>>

Streams == {"stdout", "stderr"}

(* A line is canonical text of an observation, or one of the ways in which *)
(* it is not.                                                              *)
Kinds == {"observation", "bom", "not_utf8", "malformed", "wrong_schema", "not_canonical"}
Codes == {0, 1, -15, -9}
Files == [lines : Seq(Lines), offset : Nat]

(* A path is the sequence of its names; Places names the directories that  *)
(* hold a .git.                                                            *)
IsPrefix(p, q) == Len(p) <= Len(q) /\ \A i \in 1 .. Len(p) : p[i] = q[i]

ContainingRepository(p, repositories) ==
  LET above == {r \in repositories : IsPrefix(r, p)}
  IN {r \in above : \A s \in above : Len(s) <= Len(r)}

ParentIsOutside(pl, cwd) ==
  LET near == {pl.module, pl.working} \cup (IF cwd = None THEN {} ELSE {cwd})
      roots == UNION {ContainingRepository(p, pl.repositories) : p \in near}
  IN \A r \in roots : ~IsPrefix(r, pl.parent)

(* What the constructor of CommandInvocation accepts.                      *)
ValidInvocation(i, directories) ==
  /\ i.argv # <<>> /\ i.argv[1] # ""
  /\ i.cwd = None \/ i.cwd \in directories
  /\ i.timeout > 0 /\ i.maxStdout > 0 /\ i.maxStderr > 0

Limit(stream) == IF stream = "stdout" THEN invocation.maxStdout ELSE invocation.maxStderr

ASSUME CommandAssumption ==
  /\ Kind \in [Lines -> Kinds]
  /\ ChildWrites \in Nat /\ LateWrites \in Nat /\ MaxInterrupts \in Nat
  /\ \A i \in Invocations : {i.timeout, i.maxStdout, i.maxStderr} \subseteq Int
  /\ None \notin Invocations \cup Seq(Lines) \cup [stdout : Nat, stderr : Nat]
                  \cup [code : Codes, stdout : Seq(Lines), stderr : Seq(Lines)]

NoChild == [state |-> "none", code |-> 0, signals |-> {}, refuses |-> FALSE]
NoAnswer == [kind |-> "none", line |-> None, reaped |-> FALSE]
EmptyFile == [lines |-> <<>>, offset |-> 0]

Init ==
  /\ at = "build" /\ place \in Places /\ invocation = None
  /\ child = NoChild
  /\ files = [s \in Streams |-> EmptyFile] /\ temp = "none"
  /\ size = [s \in Streams |-> 0] /\ stdout = <<>>
  /\ pending = "none" /\ reaped = FALSE /\ answer = NoAnswer
  /\ written = 0 /\ late = 0 /\ interrupts = 0
  /\ sized = [s \in Streams |-> None] /\ held = None /\ struck = {}

----------------------------------------------------------------------------
(* The end of a call: an error before the directory exists or after it is  *)
(* gone leaves at once; inside, the cleanup of the directory comes first.  *)

Answer(kind, line) ==
  /\ at' = "answered"
  /\ answer' = [kind |-> kind, line |-> line, reaped |-> kind = "timeout" /\ reaped]

Raise(kind) ==
  /\ at' = "cleanup" /\ pending' = kind

(* CommandAdapter.evaluate: the builder, its result revalidated.           *)
Build ==
  /\ at = "build"
  /\ \/ Answer("build_error", None) /\ UNCHANGED invocation
     \/ \E i \in Invocations :
          IF ValidInvocation(i, place.directories)
          THEN /\ at' = "prepare" /\ invocation' = i /\ UNCHANGED answer
          ELSE /\ Answer("build_error", None) /\ UNCHANGED invocation
  /\ UNCHANGED <<place, child, files, temp, size, stdout, pending, reaped, bounds, history>>

(* The directory outside every containing repository, and the two files.   *)
Prepare ==
  /\ at = "prepare"
  /\ \/ invocation.cwd # None /\ Answer("build_error", None) /\ UNCHANGED <<temp, pending>>
     \/ Answer("adapter_error", None) /\ UNCHANGED <<temp, pending>>
     \/ /\ ParentIsOutside(place, invocation.cwd)
        /\ temp' = "present" /\ UNCHANGED answer
        /\ \/ at' = "start" /\ UNCHANGED pending
           \/ Raise("adapter_error")
  /\ UNCHANGED <<place, invocation, child, files, size, stdout, reaped, bounds, history>>

(* subprocess.Popen; the try that guards the wait begins after it.         *)
Start ==
  /\ at = "start"
  /\ \/ \E refuses \in BOOLEAN :
          child' = [NoChild EXCEPT !.state = "running", !.refuses = refuses]
        /\ at' = "started" /\ UNCHANGED pending
     \/ Raise("adapter_error") /\ UNCHANGED child
  /\ UNCHANGED <<place, invocation, files, temp, size, stdout, reaped, answer, bounds, history>>

EnterWait ==
  /\ at = "started" /\ at' = "wait"
  /\ UNCHANGED <<place, invocation, child, files, temp, size, stdout, pending, reaped, answer,
                 bounds, history>>

(* process.wait(timeout=...): the child has ended, the deadline has passed *)
(* with the child still there at the last look, or the wait itself failed. *)
Wait ==
  /\ at = "wait"
  /\ \/ child.state = "exited" /\ child' = [child EXCEPT !.state = "reaped"]
        /\ at' = "size_stdout" /\ UNCHANGED pending
     \/ child.state = "running" /\ at' = "poll" /\ pending' = "timeout" /\ UNCHANGED child
     \/ at' = "poll" /\ pending' = "wait_failed" /\ UNCHANGED child
  /\ UNCHANGED <<place, invocation, files, temp, size, stdout, reaped, answer, bounds, history>>

----------------------------------------------------------------------------
(* _terminate_and_reap, with an error in flight: look, terminate, give a   *)
(* second, kill, give a second, look again.  Signals may be refused.       *)

Reap ==
  /\ child' = [child EXCEPT !.state = "reaped"]
  /\ reaped' = TRUE /\ at' = "cleanup"

Signal(signal) ==
  child' = IF child.refuses THEN child ELSE [child EXCEPT !.signals = @ \cup {signal}]

Poll ==
  /\ at = "poll"
  /\ \/ child.state = "exited" /\ Reap
     \/ child.state = "running" /\ at' = "terminate" /\ UNCHANGED <<child, reaped>>
  /\ UNCHANGED <<place, invocation, files, temp, size, stdout, pending, answer, bounds, history>>

Terminate ==
  /\ at = "terminate" /\ at' = "grace"
  /\ IF child.state = "running" THEN Signal("terminate") ELSE UNCHANGED child
  /\ UNCHANGED <<place, invocation, files, temp, size, stdout, pending, reaped, answer,
                 bounds, history>>

GraceWait ==
  /\ at = "grace"
  /\ \/ child.state = "exited" /\ Reap
     \/ child.state = "running" /\ at' = "kill" /\ UNCHANGED <<child, reaped>>
  /\ UNCHANGED <<place, invocation, files, temp, size, stdout, pending, answer, bounds, history>>

(* mistake: the second signal is the first one again                       *)
TerminateAgain ==
  /\ at = "kill" /\ at' = "kill_wait"
  /\ IF child.state = "running" THEN Signal("terminate") ELSE UNCHANGED child
  /\ UNCHANGED <<place, invocation, files, temp, size, stdout, pending, reaped, answer,
                 bounds, history>>

Kill ==
  /\ at = "kill" /\ at' = "kill_wait"
  /\ IF child.state = "running" THEN Signal("kill") ELSE UNCHANGED child
  /\ UNCHANGED <<place, invocation, files, temp, size, stdout, pending, reaped, answer,
                 bounds, history>>

(* mistake: the last wait has no timeout                                   *)
KillWaitForever ==
  /\ at = "kill_wait" /\ child.state = "exited" /\ Reap
  /\ UNCHANGED <<place, invocation, files, temp, size, stdout, pending, answer, bounds, history>>

KillWait ==
  /\ at = "kill_wait"
  /\ \/ child.state = "exited" /\ Reap
     \/ child.state = "running" /\ at' = "cleanup" /\ UNCHANGED <<child, reaped>>
  /\ UNCHANGED <<place, invocation, files, temp, size, stdout, pending, answer, bounds, history>>

----------------------------------------------------------------------------
(* The output: both sizes, both limits, then stdout and stderr.            *)

(* _regular_file_size of stdout.                                           *)
SizeStdout ==
  /\ at = "size_stdout"
  /\ \/ /\ size' = [size EXCEPT !["stdout"] = Len(files["stdout"].lines)]
        /\ sized' = [sized EXCEPT !["stdout"] = files["stdout"].lines]
        /\ at' = "size_stderr" /\ UNCHANGED pending
     \/ Raise("output_io_failure") /\ UNCHANGED <<size, sized>>
  /\ UNCHANGED <<place, invocation, child, files, temp, stdout, reaped, answer, bounds, held, struck>>

(* mistake: an output as long as the limit is too long                     *)
OversizedAtLimit(n) ==
  IF n["stdout"] >= Limit("stdout") THEN "oversized_stdout"
  ELSE IF n["stderr"] >= Limit("stderr") THEN "oversized_stderr"
  ELSE "none"

(* The limits come before the return code.                                 *)
Oversized(n) ==
  IF n["stdout"] > Limit("stdout") THEN "oversized_stdout"
  ELSE IF n["stderr"] > Limit("stderr") THEN "oversized_stderr"
  ELSE "none"

SizeStderr ==
  /\ at = "size_stderr"
  /\ \/ /\ size' = [size EXCEPT !["stderr"] = Len(files["stderr"].lines)]
        /\ sized' = [sized EXCEPT !["stderr"] = files["stderr"].lines]
        /\ IF Oversized(size') = "none"
           THEN at' = "seek_stdout" /\ UNCHANGED pending
           ELSE Raise(Oversized(size'))
     \/ Raise("output_io_failure") /\ UNCHANGED <<size, sized>>
  /\ UNCHANGED <<place, invocation, child, files, temp, stdout, reaped, answer, bounds, held, struck>>

(* _read_exact: seek, then read the measured size and one byte more.  The  *)
(* operating system is asked once, from the shared offset to the end.      *)
Seek(stream, next) ==
  /\ files' = [files EXCEPT ![stream].offset = 0] /\ at' = next
  /\ UNCHANGED <<place, invocation, child, temp, size, stdout, pending, reaped, answer,
                 bounds, history>>

Buffered(f) == SubSeq(f.lines, f.offset + 1, Len(f.lines))

(* mistake: the byte past the measured size is not looked for              *)
ReadUpTo(f, n) ==
  LET payload == SubSeq(Buffered(f), 1, n)
  IN IF Len(Buffered(f)) < n THEN None ELSE payload

ReadExact(f, n) ==
  LET buffer == Buffered(f)
      payload == SubSeq(buffer, 1, IF n < Len(buffer) THEN n ELSE Len(buffer))
      trailing == Len(buffer) > n
  IN IF Len(payload) # n \/ trailing THEN None ELSE payload

Read(stream, next) ==
  /\ files' = [files EXCEPT ![stream].offset = Len(files[stream].lines)]
  /\ \/ ReadExact(files[stream], size[stream]) # None /\ at' = next /\ UNCHANGED pending
     \/ Raise("output_io_failure")

SeekStdout == at = "seek_stdout" /\ Seek("stdout", "read_stdout")
SeekStderr == at = "seek_stderr" /\ Seek("stderr", "read_stderr")

ReadStdout ==
  /\ at = "read_stdout" /\ Read("stdout", "seek_stderr")
  /\ stdout' = ReadExact(files["stdout"], size["stdout"])
  /\ held' = files["stdout"].lines
  /\ UNCHANGED <<place, invocation, child, temp, size, reaped, answer, bounds, sized, struck>>

ReadStderr ==
  /\ at = "read_stderr" /\ Read("stderr", "finish")
  /\ UNCHANGED <<place, invocation, child, temp, size, stdout, reaped, answer, bounds, history>>

----------------------------------------------------------------------------

(* The directory is removed; what raises there is suppressed while another *)
(* error is in flight, and is an error of its own otherwise.               *)
CleanUp ==
  /\ at = "cleanup"
  /\ temp' = IF place.removable THEN "removed" ELSE "present"
  /\ Answer(pending, None)
  /\ UNCHANGED <<place, invocation, child, files, size, stdout, pending, reaped, bounds, history>>

Finish ==
  /\ at = "finish"
  /\ \/ place.removable /\ temp' = "removed" /\ at' = "decode" /\ UNCHANGED answer
     \/ ~place.removable /\ Answer("cleanup_failed", None) /\ UNCHANGED temp
  /\ UNCHANGED <<place, invocation, child, files, size, stdout, pending, reaped, bounds, history>>

(* _decode_observation: the verdict on the bytes of stdout.                *)
Decoded(content) ==
  LET kinds == {Kind[content[i]] : i \in 1 .. Len(content)}
      refused(reason) == <<reason, None>>
  IN IF "not_utf8" \in kinds \/ (content # <<>> /\ Kind[content[1]] = "bom")
     THEN refused("encoding_violation")
     ELSE IF Len(content) # 1 THEN refused("malformed_json")
     ELSE IF "wrong_schema" \in kinds THEN refused("invalid_normalized_observation")
     ELSE IF "observation" \in kinds THEN <<"observation", content[1]>>
     ELSE refused("malformed_json")

Decode ==
  /\ at = "decode"
  /\ IF child.code # 0 THEN Answer("exit_error", None)
     ELSE Answer(Decoded(stdout)[1], Decoded(stdout)[2])
  /\ UNCHANGED <<place, invocation, child, files, temp, size, stdout, pending, reaped,
                 bounds, history>>

----------------------------------------------------------------------------
(* The others.  An interrupt in the wait reaps first, anywhere else inside *)
(* the directory it only cleans up, and in the cleanup it ends it.         *)

Outside == {"build", "prepare", "decode"}
Inside == {"start", "started", "size_stdout", "size_stderr", "seek_stdout", "read_stdout",
           "seek_stderr", "read_stderr"}
Reaping == {"poll", "terminate", "grace", "kill", "kill_wait"}

(* mistake: an interrupted wait leaves the child to itself                 *)
InterruptUnreaped ==
  /\ interrupts < MaxInterrupts /\ interrupts' = interrupts + 1
  /\ struck' = struck \cup {at}
  /\ \/ at \in Outside \cup {"cleanup", "finish"} /\ Answer("interrupted", None) /\ UNCHANGED pending
     \/ at \in Inside \cup Reaping \cup {"wait"} /\ Raise("interrupted") /\ UNCHANGED answer
  /\ UNCHANGED <<place, invocation, child, files, temp, size, stdout, reaped, written, late, sized, held>>

Interrupt ==
  /\ interrupts < MaxInterrupts /\ interrupts' = interrupts + 1
  /\ struck' = struck \cup {at}
  /\ \/ at \in Outside \cup {"cleanup", "finish"} /\ Answer("interrupted", None) /\ UNCHANGED pending
     \/ at \in Inside \cup Reaping /\ Raise("interrupted") /\ UNCHANGED answer
     \/ at = "wait" /\ at' = "poll" /\ pending' = "interrupted" /\ UNCHANGED answer
  /\ UNCHANGED <<place, invocation, child, files, temp, size, stdout, reaped, written, late, sized, held>>

Written(f, line) ==
  LET n == f.offset + 1
  IN [lines |-> [i \in 1 .. (IF n > Len(f.lines) THEN n ELSE Len(f.lines)) |->
                   IF i = n THEN line ELSE f.lines[i]],
      offset |-> n]

Write(stream, line) == files' = [files EXCEPT ![stream] = Written(@, line)]

ChildWrite ==
  /\ child.state = "running" /\ written < ChildWrites /\ written' = written + 1
  /\ \E s \in Streams, l \in Lines : Write(s, l)
  /\ UNCHANGED <<at, place, invocation, child, temp, size, stdout, pending, reaped, answer,
                 late, interrupts, history>>

DescendantWrite ==
  /\ child.state \in {"exited", "reaped"} /\ at \in Inside
  /\ late < LateWrites /\ late' = late + 1
  /\ \E s \in Streams, l \in Lines : Write(s, l)
  /\ UNCHANGED <<at, place, invocation, child, temp, size, stdout, pending, reaped, answer,
                 written, interrupts, history>>

ChildEnds ==
  /\ child.state = "running"
  /\ \E code \in {0, 1} : child' = [child EXCEPT !.state = "exited", !.code = code]
  /\ UNCHANGED <<at, place, invocation, files, temp, size, stdout, pending, reaped, answer,
                 bounds, history>>

ChildIsTerminated ==
  /\ child.state = "running" /\ "terminate" \in child.signals
  /\ child' = [child EXCEPT !.state = "exited", !.code = -15]
  /\ UNCHANGED <<at, place, invocation, files, temp, size, stdout, pending, reaped, answer,
                 bounds, history>>

ChildIsKilled ==
  /\ child.state = "running" /\ "kill" \in child.signals
  /\ child' = [child EXCEPT !.state = "exited", !.code = -9]
  /\ UNCHANGED <<at, place, invocation, files, temp, size, stdout, pending, reaped, answer,
                 bounds, history>>

Evaluate ==
  \/ Build \/ Prepare \/ Start \/ EnterWait \/ Wait
  \/ Poll \/ Terminate \/ GraceWait \/ Kill \/ KillWait
  \/ SizeStdout \/ SizeStderr \/ SeekStdout \/ ReadStdout \/ SeekStderr \/ ReadStderr
  \/ CleanUp \/ Finish \/ Decode

Next ==
  \/ Evaluate \/ Interrupt
  \/ ChildWrite \/ DescendantWrite \/ ChildEnds \/ ChildIsTerminated \/ ChildIsKilled

(* Only the parent's own code runs by itself, every wait in it bounded,    *)
(* and the kernel, which delivers a kill in the end.  Nothing is assumed   *)
(* of the child.                                                           *)
Spec == Init /\ [][Next]_vars
FairSpec == Spec /\ WF_vars(Evaluate) /\ WF_vars(ChildIsKilled)

----------------------------------------------------------------------------
TypeOK ==
  /\ at \in Outside \cup Inside \cup Reaping \cup {"wait", "cleanup", "finish", "answered"}
  /\ place \in Places /\ invocation \in Invocations \cup {None}
  /\ child \in [state : {"none", "running", "exited", "reaped"}, code : Codes,
                signals : SUBSET {"terminate", "kill"}, refuses : BOOLEAN]
  /\ files \in [Streams -> Files] /\ temp \in {"none", "present", "removed"}
  /\ size \in [Streams -> Nat] /\ stdout \in Seq(Lines) \cup {None}
  /\ reaped \in BOOLEAN
  /\ written \in 0 .. ChildWrites /\ late \in 0 .. LateWrites /\ interrupts \in 0 .. MaxInterrupts
  /\ sized \in [Streams -> Seq(Lines) \cup {None}] /\ held \in Seq(Lines) \cup {None}

(* An observation is what a child that returned 0 left on stdout, and all  *)
(* of it, both when stdout was measured and when it was read, although a   *)
(* descendant may have written once in between.                            *)
ReturnedIsTheOutput ==
  answer.kind = "observation" /\ late <= 1 =>
    /\ child.state = "reaped" /\ child.code = 0
    /\ sized["stdout"] = <<answer.line>>
    /\ held = <<answer.line>>

(* A call that leaves its child behind says so or was interrupted, and it  *)
(* has tried everything: the child was killed or refused, unless the user  *)
(* struck between the start of the child and the wait for it, or during    *)
(* the reaping itself, which an interrupt ends.                            *)
AccountsForTheChild ==
  at = "answered" /\ child.state \in {"running", "exited"} =>
    /\ answer.kind \in {"timeout", "wait_failed", "interrupted"}
    /\ child.refuses \/ "kill" \in child.signals \/ struck \cap (Reaping \cup {"started"}) # {}

(* What a timeout reports of the child is true.                            *)
ReportedReapIsTrue ==
  answer.kind = "timeout" => (answer.reaped <=> child.state = "reaped")

(* No answer leaves the temporary directory behind, unless it could not be *)
(* removed or the user interrupted.                                        *)
LeavesNothingBehind ==
  at = "answered" /\ temp = "present" => ~place.removable \/ answer.kind = "interrupted"

(* What holds of the state throughout a call.                              *)
ChildInv == TypeOK /\ ReturnedIsTheOutput /\ ReportedReapIsTrue /\ LeavesNothingBehind

(* Every call ends, whatever the child and its descendants do.             *)
EvaluateAnswers == <>(at = "answered")

(* A child that timed out does not run on, unless it refuses signals or    *)
(* the user interrupted.                                                   *)
TimedOutChildGoes ==
  (at = "answered" /\ answer.kind = "timeout") ~> (child.refuses \/ child.state # "running")

Contract == INSTANCE AdapterContract
  WITH Contents <- Seq(Lines), ReturnCodes <- Codes,
       outcome <- IF None \in {sized[s] : s \in Streams} THEN None
                  ELSE [code |-> child.code, stdout |-> sized["stdout"], stderr |-> sized["stderr"]],
       limits <- IF invocation = None THEN None
                 ELSE [stdout |-> Limit("stdout"), stderr |-> Limit("stderr")],
       verdict <- IF at = "answered" THEN <<answer.kind, answer.line>> ELSE None

(* With at most one late write, the adapter keeps its contract: the answer *)
(* is the one verdict on what the child left, or it returns nothing of it. *)
ImplementsContract == Contract!Spec
=============================================================================
