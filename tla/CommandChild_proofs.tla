-------------------------- MODULE CommandChild_proofs --------------------------
(***************************************************************************)
(* Whatever a child, a descendant and a user do, for any number of writes  *)
(* and interrupts: an answer is the child's whole output, what is reported *)
(* of the child is true, and a child is left behind only after everything  *)
(* has been tried.                                                         *)
(***************************************************************************)
EXTENDS CommandChild, SequenceTheorems, TLAPS

(* The stages after the wait, where the child has been reaped, and those   *)
(* of them where stdout has been read.                                     *)
HasRead == {"seek_stderr", "read_stderr", "finish", "decode"}
Reaped == {"size_stdout", "size_stderr", "seek_stdout", "read_stdout"} \cup HasRead

(* What a call that gives up on its child has tried, and what it reports.  *)
GaveUp == {"timeout", "wait_failed", "interrupted"}
Accounted ==
  child.refuses \/ "kill" \in child.signals \/ struck \cap (Reaping \cup {"started"}) # {}

(* Where the child is while the parent is at each stage.                   *)
ChildKnown ==
  /\ at \in {"build", "prepare", "start"} => child.state = "none"
  /\ at \in {"started", "wait"} \cup Reaping => child.state \in {"running", "exited"}
  /\ at \in Reaped => child.state = "reaped"
  /\ at \in Reaping => pending \in GaveUp
  /\ at = "kill_wait" => child.state = "exited" \/ child.refuses \/ "kill" \in child.signals
  /\ at = "cleanup" /\ child.state \in {"running", "exited"} => pending \in GaveUp /\ Accounted
  /\ AccountsForTheChild

(* What the parent knows of the reaping.                                   *)
ReapKnown ==
  /\ reaped = TRUE => child.state = "reaped" /\ at \in {"cleanup", "answered"}
  /\ pending = "timeout" => at \in Reaping \cup {"cleanup", "answered"}
  /\ at = "cleanup" /\ pending = "timeout" /\ child.state = "reaped" => reaped = TRUE
  /\ at # "answered" => answer = NoAnswer
  /\ ReportedReapIsTrue

DirectoryKnown ==
  /\ at \in {"build", "prepare"} => temp = "none"
  /\ at = "decode" => temp = "removed"
  /\ LeavesNothingBehind

(* Nobody writes or reads past the end of a file.                          *)
WithinFiles == \A s \in Streams : files[s].offset <= Len(files[s].lines)

(* What stdout holds against what was measured, with one late write at     *)
(* most: everyone appends until the seek, and a write after it leaves less *)
(* or more than was measured to be read, or nothing at all.                *)
OutputKnown ==
  LET lines == files["stdout"].lines
      n == size["stdout"]
      measured == sized["stdout"]
  IN /\ at \notin {"read_stdout", "cleanup", "answered"} \cup HasRead =>
          files["stdout"].offset = Len(lines)
     /\ at \in {"size_stderr", "seek_stdout", "read_stdout"} \cup HasRead =>
          measured \in Seq(Lines) /\ n = Len(measured)
     /\ late <= 1 /\ at \in {"size_stderr", "seek_stdout"} =>
          lines = measured \/ (late = 1 /\ Len(lines) = n + 1)
     /\ late <= 1 /\ at = "read_stdout" =>
          \/ lines = measured /\ files["stdout"].offset = 0
          \/ late = 1 /\ Len(lines) = n + 1 /\ files["stdout"].offset = 0
          \/ late = 1 /\ files["stdout"].offset = 1 /\ Len(lines) = (IF n = 0 THEN 1 ELSE n)
     /\ late <= 1 /\ at \in HasRead =>
          stdout \in Seq(Lines) /\ stdout = measured /\ (stdout = <<>> \/ held = stdout)
     /\ pending # "observation"
     /\ ReturnedIsTheOutput

(* What has been measured at each stage, and what an error in flight means *)
(* for the contract.                                                       *)
Measured ==
  \A s \in Streams : sized[s] \in Seq(Lines) /\ size[s] = Len(sized[s])

Outcome == [code |-> child.code, stdout |-> sized["stdout"], stderr |-> sized["stderr"]]
Limits == [stdout |-> Limit("stdout"), stderr |-> Limit("stderr")]

VerdictKnown ==
  /\ at = "build" => invocation = None
  /\ at \notin {"build",
        "answered"} => invocation \in Invocations /\ Limits \in [stdout : Nat, stderr : Nat]
  /\ \A s \in Streams : sized[s] # None => child.state = "reaped" /\ invocation # None
  /\ at \notin Reaped \cup {"cleanup", "answered"} => \A s \in Streams : sized[s] = None
  /\ at \in {"size_stdout", "size_stderr"} => sized["stderr"] = None
  /\ at \in {"seek_stdout", "read_stdout"} \cup HasRead => Measured /\ Oversized(size) = "none"
  /\ at = "cleanup" =>
       \/ pending \in Contract!Failures
       \/ pending = "timeout" /\ \A s \in Streams : sized[s] = None
       \/ Measured /\ pending # "none" /\ pending = Oversized(size)
  /\ pending = "timeout" => \A s \in Streams : sized[s] = None

-----------------------------------------------------------------------------
(* Where the child is stays known.                                         *)
LEMMA ChildStep ==
  ASSUME TypeOK, ChildKnown, ReapKnown, [Next]_vars
  PROVE  ChildKnown'
<1> USE CommandAssumption DEF TypeOK, ChildKnown, ReapKnown, AccountsForTheChild, Accounted,
      GaveUp, NoAnswer, Outside, Inside, Reaping, Reaped, HasRead
<1>1. CASE Build
  BY <1>1 DEF Build, Answer, bounds, history
<1>2. CASE Prepare
  BY <1>2 DEF Prepare, Answer, Raise, bounds, history
<1>3. CASE Start
  BY <1>3 DEF Start, Raise, NoChild, bounds, history
<1>4. CASE EnterWait
  BY <1>4 DEF EnterWait, bounds, history
<1>5. CASE Wait
  BY <1>5 DEF Wait, bounds, history
<1>6. CASE Poll
  BY <1>6 DEF Poll, Reap, bounds, history
<1>7. CASE Terminate
  BY <1>7 DEF Terminate, Signal, bounds, history
<1>8. CASE GraceWait
  BY <1>8 DEF GraceWait, Reap, bounds, history
<1>9. CASE Kill
  BY <1>9 DEF Kill, Signal, bounds, history
<1>10. CASE KillWait
  BY <1>10 DEF KillWait, Reap, bounds, history
<1>11. CASE SizeStdout
  BY <1>11 DEF SizeStdout, Raise, bounds, history
<1>12. CASE SizeStderr
  BY <1>12 DEF SizeStderr, Raise, bounds, history
<1>13. CASE SeekStdout
  BY <1>13 DEF SeekStdout, Seek, bounds, history
<1>14. CASE ReadStdout
  BY <1>14 DEF ReadStdout, Read, Raise, bounds, history
<1>15. CASE SeekStderr
  BY <1>15 DEF SeekStderr, Seek, bounds, history
<1>16. CASE ReadStderr
  BY <1>16 DEF ReadStderr, Read, Raise, bounds, history
<1>17. CASE CleanUp
  BY <1>17 DEF CleanUp, Answer, bounds, history
<1>18. CASE Finish
  BY <1>18 DEF Finish, Answer, bounds, history
<1>19. CASE Decode
  BY <1>19 DEF Decode, Answer, bounds, history
<1>20. CASE Interrupt
  <2>1. struck' = struck \cup {at} /\ UNCHANGED <<child, reaped>>
    BY <1>20 DEF Interrupt
  <2>2. CASE at \in Outside \cup {"cleanup", "finish"}
    BY <1>20, <2>1, <2>2 DEF Interrupt, Answer, Raise
  <2>3. CASE at \in Inside \cup Reaping
    BY <1>20, <2>1, <2>3 DEF Interrupt, Answer, Raise
  <2>4. CASE at = "wait"
    BY <1>20, <2>1, <2>4 DEF Interrupt, Answer, Raise
  <2> QED  BY <1>20, <2>2, <2>3, <2>4 DEF Interrupt
<1>21. CASE ChildWrite
  BY <1>21 DEF ChildWrite, Write, bounds, history
<1>22. CASE DescendantWrite
  BY <1>22 DEF DescendantWrite, Write, bounds, history
<1>23. CASE ChildEnds
  BY <1>23 DEF ChildEnds, bounds, history
<1>24. CASE ChildIsTerminated
  BY <1>24 DEF ChildIsTerminated, bounds, history
<1>25. CASE ChildIsKilled
  BY <1>25 DEF ChildIsKilled, bounds, history
<1>26. CASE UNCHANGED vars
  BY <1>26 DEF vars, system, bounds, history
<1> QED
  BY <1>1, <1>2, <1>3, <1>4, <1>5, <1>6, <1>7, <1>8, <1>9, <1>10, <1>11, <1>12, <1>13, <1>14,
     <1>15, <1>16, <1>17, <1>18, <1>19, <1>20, <1>21, <1>22, <1>23, <1>24, <1>25,
           <1>26 DEF Next, Evaluate

(* A write appends, or replaces one line.                                  *)
LEMMA WrittenFile ==
  ASSUME NEW f \in Files, f.offset <= Len(f.lines), NEW line \in Lines
  PROVE  /\ Written(f, line) \in Files
         /\ Written(f, line).offset = f.offset + 1
         /\ Written(f, line).offset <= Len(Written(f, line).lines)
         /\ Len(Written(f, line).lines) =
              IF f.offset = Len(f.lines) THEN Len(f.lines) + 1 ELSE Len(f.lines)
<1> DEFINE n == f.offset + 1
           m == IF n > Len(f.lines) THEN n ELSE Len(f.lines)
           g == [i \in 1 .. m |-> IF i = n THEN line ELSE f.lines[i]]
<1>1. f.lines \in Seq(Lines) /\ Len(f.lines) \in Nat /\ f.offset \in Nat
  BY DEF Files
<1>2. /\ m \in Nat /\ n \in Nat
      /\ m = IF f.offset = Len(f.lines) THEN Len(f.lines) + 1 ELSE Len(f.lines)
  BY <1>1
<1>3. \A i \in 1 .. m : i # n => f.lines[i] \in Lines
  BY <1>1
<1>4. g \in [1 .. m -> Lines]
  BY <1>3
<1>5. g \in Seq(Lines) /\ Len(g) = m
  BY <1>2, <1>4
<1>6. Written(f, line) = [lines |-> g, offset |-> n]
  BY DEF Written
<1> QED  BY <1>1, <1>2, <1>5, <1>6 DEF Files

(* What a read returns: all there is, if that is as much as was measured.  *)
LEMMA ReadFile ==
  ASSUME NEW f \in Files, f.offset <= Len(f.lines), NEW n \in Nat, ReadExact(f, n) # None
  PROVE  /\ ReadExact(f, n) \in Seq(Lines) /\ Len(ReadExact(f, n)) = n
         /\ n = Len(f.lines) - f.offset
         /\ f.offset = 0 => ReadExact(f, n) = f.lines
<1> DEFINE b == SubSeq(f.lines, f.offset + 1, Len(f.lines))
<1>1. f.lines \in Seq(Lines) /\ Len(f.lines) \in Nat /\ f.offset \in Nat
  BY DEF Files
<1>2. b \in Seq(Lines) /\ Len(b) = Len(f.lines) - f.offset /\ Len(b) \in Nat
  BY <1>1
<1>3. n <= Len(b) /\ ReadExact(f, n) = SubSeq(b, 1, n)
  BY <1>2 DEF ReadExact, Buffered
<1>4. ~(Len(b) > n)
  BY <1>2, <1>3 DEF ReadExact, Buffered
<1>5. n = Len(b)
  BY <1>2, <1>3, <1>4
<1>7. SubSeq(b, 1, Len(b)) = b
  BY <1>2, SubSeqFull
<1>6. f.offset = 0 => b = f.lines
  BY <1>1
<1> QED  BY <1>1, <1>2, <1>3, <1>5, <1>6, <1>7

(* One of the files becomes another.                                       *)
LEMMA FileReplaced ==
  ASSUME files \in [Streams -> Files], WithinFiles, NEW s \in Streams,
         NEW f \in Files, f.offset <= Len(f.lines), files' = [files EXCEPT ![s] = f]
  PROVE  /\ files' \in [Streams -> Files] /\ WithinFiles'
         /\ files'[s] = f /\ \A r \in Streams \ {s} : files'[r] = files[r]
<1>1. files' \in [Streams -> Files]
  OBVIOUS
<1>2. files'[s] = f /\ \A r \in Streams \ {s} : files'[r] = files[r]
  OBVIOUS
<1> QED  BY <1>1, <1>2 DEF WithinFiles

(* The steps that move an offset or write a line.                          *)
LEMMA FileStep ==
  ASSUME files \in [Streams -> Files], WithinFiles, NEW s \in Streams
  PROVE  /\ files' = [files EXCEPT ![s].offset = 0] =>
              /\ files' \in [Streams -> Files] /\ WithinFiles'
              /\ files'[s].offset = 0 /\ files'[s].lines = files[s].lines
              /\ \A r \in Streams \ {s} : files'[r] = files[r]
         /\ files' = [files EXCEPT ![s].offset = Len(files[s].lines)] =>
              /\ files' \in [Streams -> Files] /\ WithinFiles'
              /\ files'[s].lines = files[s].lines
              /\ \A r \in Streams \ {s} : files'[r] = files[r]
         /\ \A l \in Lines : Write(s, l) =>
              /\ files' \in [Streams -> Files] /\ WithinFiles'
              /\ files'[s] = Written(files[s], l)
              /\ \A r \in Streams \ {s} : files'[r] = files[r]
<1>1. files[s] \in Files /\ files[s].offset <= Len(files[s].lines)
  BY DEF WithinFiles
<1>2. /\ files[s].lines \in Seq(Lines) /\ Len(files[s].lines) \in Nat
      /\ files[s] = [lines |-> files[s].lines, offset |-> files[s].offset]
  BY <1>1 DEF Files
<1>3. ASSUME NEW k \in 0 .. Len(files[s].lines), files' = [files EXCEPT ![s].offset = k]
      PROVE  /\ files' \in [Streams -> Files] /\ WithinFiles'
             /\ files'[s].offset = k /\ files'[s].lines = files[s].lines
             /\ \A r \in Streams \ {s} : files'[r] = files[r]
  <2> DEFINE f == [files[s] EXCEPT !.offset = k]
  <2>1. f \in Files /\ f.offset = k /\ f.lines = files[s].lines
    BY <1>1, <1>2 DEF Files
  <2>2. f.offset <= Len(f.lines)
    BY <1>2, <2>1
  <2>3. files' = [files EXCEPT ![s] = f]
    BY <1>3
  <2> HIDE DEF f
  <2> QED  BY <2>1, <2>2, <2>3, FileReplaced
<1>4. ASSUME NEW l \in Lines, Write(s, l)
      PROVE  /\ files' \in [Streams -> Files] /\ WithinFiles'
             /\ files'[s] = Written(files[s], l)
             /\ \A r \in Streams \ {s} : files'[r] = files[r]
  <2>1. Written(files[s], l) \in Files
        /\ Written(files[s], l).offset <= Len(Written(files[s], l).lines)
    BY <1>1, WrittenFile
  <2>2. files' = [files EXCEPT ![s] = Written(files[s], l)]
    BY <1>4 DEF Write
  <2> QED  BY <2>1, <2>2, FileReplaced
<1>5. 0 \in 0 .. Len(files[s].lines) /\ Len(files[s].lines) \in 0 .. Len(files[s].lines)
  BY <1>2
<1> QED  BY <1>3, <1>4, <1>5

(* A sequence of one line is that line.                                    *)
LEMMA Singleton ==
  ASSUME NEW s \in Seq(Lines), Len(s) = 1
  PROVE  s # <<>> /\ s = <<s[1]>>
<1>1. s[1] \in Lines
  OBVIOUS
<1>2. <<s[1]>> \in Seq(Lines) /\ Len(<<s[1]>>) = 1 /\ <<s[1]>>[1] = s[1]
  BY <1>1
<1>3. s # <<>>
  BY EmptySeq
<1> QED  BY <1>2, <1>3, SeqEqual

(* What a document may be judged to be.                                    *)
LEMMA DecodedVerdict ==
  ASSUME NEW content
  PROVE  /\ Decoded(content)[1] # "timeout"
         /\ Decoded(content)[1] = "observation" =>
              Len(content) = 1 /\ Decoded(content)[2] = content[1]
BY DEF Decoded

(* What the parent knows of the reaping stays true.                        *)
LEMMA ReapStep ==
  ASSUME TypeOK, ChildKnown, ReapKnown, [Next]_vars
  PROVE  ReapKnown'
<1> USE CommandAssumption DEF TypeOK, ChildKnown, ReapKnown, ReportedReapIsTrue, NoAnswer,
      Outside, Inside, Reaping, Reaped, HasRead
<1>1. CASE Build
  BY <1>1 DEF Build, Answer, bounds, history
<1>2. CASE Prepare
  BY <1>2 DEF Prepare, Answer, Raise, bounds, history
<1>3. CASE Start
  BY <1>3 DEF Start, Raise, NoChild, bounds, history
<1>4. CASE EnterWait
  BY <1>4 DEF EnterWait, bounds, history
<1>5. CASE Wait
  BY <1>5 DEF Wait, bounds, history
<1>6. CASE Poll
  BY <1>6 DEF Poll, Reap, bounds, history
<1>7. CASE Terminate
  BY <1>7 DEF Terminate, Signal, bounds, history
<1>8. CASE GraceWait
  BY <1>8 DEF GraceWait, Reap, bounds, history
<1>9. CASE Kill
  BY <1>9 DEF Kill, Signal, bounds, history
<1>10. CASE KillWait
  BY <1>10 DEF KillWait, Reap, bounds, history
<1>11. CASE SizeStdout
  BY <1>11 DEF SizeStdout, Raise, bounds, history
<1>12. CASE SizeStderr
  BY <1>12 DEF SizeStderr, Raise, Oversized, bounds, history
<1>13. CASE SeekStdout
  BY <1>13 DEF SeekStdout, Seek, bounds, history
<1>14. CASE ReadStdout
  BY <1>14 DEF ReadStdout, Read, Raise, bounds, history
<1>15. CASE SeekStderr
  BY <1>15 DEF SeekStderr, Seek, bounds, history
<1>16. CASE ReadStderr
  BY <1>16 DEF ReadStderr, Read, Raise, bounds, history
<1>17. CASE CleanUp
  BY <1>17 DEF CleanUp, Answer, bounds, history
<1>18. CASE Finish
  BY <1>18 DEF Finish, Answer, bounds, history
<1>19. CASE Decode
  BY <1>19, DecodedVerdict DEF Decode, Answer, bounds, history
<1>20. CASE Interrupt
  BY <1>20 DEF Interrupt, Answer, Raise, bounds, history
<1>21. CASE ChildWrite
  BY <1>21 DEF ChildWrite, Write, bounds, history
<1>22. CASE DescendantWrite
  BY <1>22 DEF DescendantWrite, Write, bounds, history
<1>23. CASE ChildEnds
  BY <1>23 DEF ChildEnds, bounds, history
<1>24. CASE ChildIsTerminated
  BY <1>24 DEF ChildIsTerminated, bounds, history
<1>25. CASE ChildIsKilled
  BY <1>25 DEF ChildIsKilled, bounds, history
<1>26. CASE UNCHANGED vars
  BY <1>26 DEF vars, system, bounds, history
<1> QED
  BY <1>1, <1>2, <1>3, <1>4, <1>5, <1>6, <1>7, <1>8, <1>9, <1>10, <1>11, <1>12, <1>13, <1>14,
     <1>15, <1>16, <1>17, <1>18, <1>19, <1>20, <1>21, <1>22, <1>23, <1>24, <1>25,
           <1>26 DEF Next, Evaluate

(* The directory exists from the preparation to the cleanup.               *)
LEMMA DirectoryStep ==
  ASSUME TypeOK, DirectoryKnown, [Next]_vars
  PROVE  DirectoryKnown'
<1> USE CommandAssumption DEF TypeOK, DirectoryKnown, LeavesNothingBehind, Outside, Inside,
      Reaping, Reaped, HasRead
<1>1. CASE Build
  BY <1>1 DEF Build, Answer, bounds, history
<1>2. CASE Prepare
  BY <1>2 DEF Prepare, Answer, Raise, bounds, history
<1>3. CASE Start
  BY <1>3 DEF Start, Raise, NoChild, bounds, history
<1>4. CASE EnterWait
  BY <1>4 DEF EnterWait, bounds, history
<1>5. CASE Wait
  BY <1>5 DEF Wait, bounds, history
<1>6. CASE Poll
  BY <1>6 DEF Poll, Reap, bounds, history
<1>7. CASE Terminate
  BY <1>7 DEF Terminate, Signal, bounds, history
<1>8. CASE GraceWait
  BY <1>8 DEF GraceWait, Reap, bounds, history
<1>9. CASE Kill
  BY <1>9 DEF Kill, Signal, bounds, history
<1>10. CASE KillWait
  BY <1>10 DEF KillWait, Reap, bounds, history
<1>11. CASE SizeStdout
  BY <1>11 DEF SizeStdout, Raise, bounds, history
<1>12. CASE SizeStderr
  BY <1>12 DEF SizeStderr, Raise, bounds, history
<1>13. CASE SeekStdout
  BY <1>13 DEF SeekStdout, Seek, bounds, history
<1>14. CASE ReadStdout
  BY <1>14 DEF ReadStdout, Read, Raise, bounds, history
<1>15. CASE SeekStderr
  BY <1>15 DEF SeekStderr, Seek, bounds, history
<1>16. CASE ReadStderr
  BY <1>16 DEF ReadStderr, Read, Raise, bounds, history
<1>17. CASE CleanUp
  BY <1>17 DEF CleanUp, Answer, bounds, history
<1>18. CASE Finish
  BY <1>18 DEF Finish, Answer, bounds, history
<1>19. CASE Decode
  BY <1>19 DEF Decode, Answer, bounds, history
<1>20. CASE Interrupt
  BY <1>20 DEF Interrupt, Answer, Raise, bounds, history
<1>21. CASE ChildWrite
  BY <1>21 DEF ChildWrite, Write, bounds, history
<1>22. CASE DescendantWrite
  BY <1>22 DEF DescendantWrite, Write, bounds, history
<1>23. CASE ChildEnds
  BY <1>23 DEF ChildEnds, bounds, history
<1>24. CASE ChildIsTerminated
  BY <1>24 DEF ChildIsTerminated, bounds, history
<1>25. CASE ChildIsKilled
  BY <1>25 DEF ChildIsKilled, bounds, history
<1>26. CASE UNCHANGED vars
  BY <1>26 DEF vars, system, bounds, history
<1> QED
  BY <1>1, <1>2, <1>3, <1>4, <1>5, <1>6, <1>7, <1>8, <1>9, <1>10, <1>11, <1>12, <1>13, <1>14,
     <1>15, <1>16, <1>17, <1>18, <1>19, <1>20, <1>21, <1>22, <1>23, <1>24, <1>25,
           <1>26 DEF Next, Evaluate

(* What a write of anybody does to stdout.                                 *)
LEMMA StdoutWritten ==
  ASSUME files \in [Streams -> Files], WithinFiles, NEW s \in Streams, NEW l \in Lines,
        Write(s, l)
  PROVE  \/ files'["stdout"] = files["stdout"]
         \/ /\ files'["stdout"].offset = files["stdout"].offset + 1
            /\ Len(files'["stdout"].lines) =
                 IF files["stdout"].offset = Len(files["stdout"].lines)
                 THEN Len(files["stdout"].lines) + 1 ELSE Len(files["stdout"].lines)
<1>1. "stdout" \in Streams /\ files["stdout"] \in Files
      /\ files["stdout"].offset <= Len(files["stdout"].lines)
  BY DEF Streams, WithinFiles
<1>2. files'[s] = Written(files[s], l) /\ \A r \in Streams \ {s} : files'[r] = files[r]
  BY FileStep
<1>3. CASE s = "stdout"
  BY <1>1, <1>2, <1>3, WrittenFile
<1>4. CASE s # "stdout"
  BY <1>1, <1>2, <1>4
<1> QED  BY <1>3, <1>4

(* The files stay files, and their offsets within them.                    *)
LEMMA FilesStep ==
  ASSUME files \in [Streams -> Files], WithinFiles, [Next]_vars
  PROVE  files' \in [Streams -> Files] /\ WithinFiles'
<1>0. UNCHANGED files => files' \in [Streams -> Files] /\ WithinFiles'
  BY DEF WithinFiles
<1>1. CASE SeekStdout \/ SeekStderr
  <2>1. \E s \in Streams : files' = [files EXCEPT ![s].offset = 0]
    BY <1>1 DEF SeekStdout, SeekStderr, Seek, Streams
  <2> QED  BY <2>1, FileStep
<1>2. CASE ReadStdout \/ ReadStderr
  <2>1. \E s \in Streams : files' = [files EXCEPT ![s].offset = Len(files[s].lines)]
    BY <1>2 DEF ReadStdout, ReadStderr, Read, Streams
  <2> QED  BY <2>1, FileStep
<1>3. CASE ChildWrite \/ DescendantWrite
  <2>1. \E s \in Streams, l \in Lines : Write(s, l)
    BY <1>3 DEF ChildWrite, DescendantWrite
  <2> QED  BY <2>1, FileStep
<1>4. CASE \/ Build \/ Prepare \/ Start \/ EnterWait \/ Wait
           \/ Poll \/ Terminate \/ GraceWait \/ Kill \/ KillWait
           \/ SizeStdout \/ SizeStderr \/ CleanUp \/ Finish \/ Decode
           \/ Interrupt \/ ChildEnds \/ ChildIsTerminated \/ ChildIsKilled
  BY <1>0, <1>4 DEF Build, Prepare, Start, EnterWait, Wait, Poll, Terminate, GraceWait, Kill,
    KillWait, SizeStdout, SizeStderr, CleanUp, Finish, Decode, Interrupt, ChildEnds,
    ChildIsTerminated, ChildIsKilled
<1>5. CASE UNCHANGED vars
  BY <1>0, <1>5 DEF vars, system
<1> QED  BY <1>1, <1>2, <1>3, <1>4, <1>5 DEF Next, Evaluate

(* Type correctness.                                                       *)
LEMMA TypeStep ==
  ASSUME TypeOK, WithinFiles, [Next]_vars
  PROVE  TypeOK'
<1>0. files' \in [Streams -> Files]
  BY FilesStep DEF TypeOK
<1>00. ChildWrites \in Nat /\ LateWrites \in Nat /\ MaxInterrupts \in Nat
  BY CommandAssumption
<1> USE <1>0, <1>00 DEF TypeOK, Codes, Outside, Inside, Reaping
<1>1. CASE Build
  BY <1>1 DEF Build, Answer, bounds, history
<1>2. CASE Prepare
  BY <1>2 DEF Prepare, Answer, Raise, bounds, history
<1>3. CASE Start
  BY <1>3 DEF Start, Raise, NoChild, bounds, history
<1>4. CASE EnterWait
  BY <1>4 DEF EnterWait, bounds, history
<1>5. CASE Wait
  BY <1>5 DEF Wait, bounds, history
<1>6. CASE Poll
  BY <1>6 DEF Poll, Reap, bounds, history
<1>7. CASE Terminate
  <2>1. child.signals \cup {"terminate"} \in SUBSET {"terminate", "kill"}
    OBVIOUS
  <2>2. [child EXCEPT !.signals = child.signals \cup {"terminate"}]
          \in [state : {"none", "running", "exited", "reaped"}, code : {0, 1, -15, -9},
               signals : SUBSET {"terminate", "kill"}, refuses : BOOLEAN]
    BY <2>1
  <2>3. child' \in [state : {"none", "running", "exited", "reaped"}, code : {0, 1, -15, -9},
                   signals : SUBSET {"terminate", "kill"}, refuses : BOOLEAN]
    BY <1>7, <2>2 DEF Terminate, Signal
  <2> QED  BY <1>7, <2>3 DEF Terminate, bounds, history
<1>8. CASE GraceWait
  BY <1>8 DEF GraceWait, Reap, bounds, history
<1>9. CASE Kill
  <2>1. child.signals \cup {"kill"} \in SUBSET {"terminate", "kill"}
    OBVIOUS
  <2>2. [child EXCEPT !.signals = child.signals \cup {"kill"}]
          \in [state : {"none", "running", "exited", "reaped"}, code : {0, 1, -15, -9},
               signals : SUBSET {"terminate", "kill"}, refuses : BOOLEAN]
    BY <2>1
  <2>3. child' \in [state : {"none", "running", "exited", "reaped"}, code : {0, 1, -15, -9},
                   signals : SUBSET {"terminate", "kill"}, refuses : BOOLEAN]
    BY <1>9, <2>2 DEF Kill, Signal
  <2> QED  BY <1>9, <2>3 DEF Kill, bounds, history
<1>10. CASE KillWait
  BY <1>10 DEF KillWait, Reap, bounds, history
<1>11. CASE SizeStdout
  <2>1. files["stdout"].lines \in Seq(Lines) /\ Len(files["stdout"].lines) \in Nat
    BY DEF Streams, Files
  <2>2. /\ [size EXCEPT !["stdout"] = Len(files["stdout"].lines)] \in [Streams -> Nat]
        /\ [sized EXCEPT !["stdout"] = files["stdout"].lines]
             \in [Streams -> Seq(Lines) \cup {None}]
    BY <2>1
  <2>3. size' \in [Streams -> Nat] /\ sized' \in [Streams -> Seq(Lines) \cup {None}]
    BY <1>11, <2>2 DEF SizeStdout
  <2> QED  BY <1>11, <2>3 DEF SizeStdout, Raise, bounds
<1>12. CASE SizeStderr
  <2>1. files["stderr"].lines \in Seq(Lines) /\ Len(files["stderr"].lines) \in Nat
    BY DEF Streams, Files
  <2>2. /\ [size EXCEPT !["stderr"] = Len(files["stderr"].lines)] \in [Streams -> Nat]
        /\ [sized EXCEPT !["stderr"] = files["stderr"].lines]
             \in [Streams -> Seq(Lines) \cup {None}]
    BY <2>1
  <2>3. size' \in [Streams -> Nat] /\ sized' \in [Streams -> Seq(Lines) \cup {None}]
    BY <1>12, <2>2 DEF SizeStderr
  <2> QED  BY <1>12, <2>3 DEF SizeStderr, Raise, bounds
<1>13. CASE SeekStdout
  BY <1>13 DEF SeekStdout, Seek, bounds, history
<1>14. CASE ReadStdout
  <2>1. files["stdout"] \in Files /\ files["stdout"].offset <= Len(files["stdout"].lines)
        /\ size["stdout"] \in Nat /\ files["stdout"].lines \in Seq(Lines)
    BY DEF WithinFiles, Streams, Files
  <2>2. ReadExact(files["stdout"], size["stdout"]) \in Seq(Lines) \cup {None}
    BY <2>1, ReadFile
  <2>3. stdout' \in Seq(Lines) \cup {None} /\ held' \in Seq(Lines)
    BY <1>14, <2>1, <2>2 DEF ReadStdout
  <2> QED  BY <1>14, <2>3 DEF ReadStdout, Read, Raise, bounds
<1>15. CASE SeekStderr
  BY <1>15 DEF SeekStderr, Seek, bounds, history
<1>16. CASE ReadStderr
  BY <1>16 DEF ReadStderr, Read, Raise, bounds, history
<1>17. CASE CleanUp
  BY <1>17 DEF CleanUp, Answer, bounds, history
<1>18. CASE Finish
  BY <1>18 DEF Finish, Answer, bounds, history
<1>19. CASE Decode
  BY <1>19 DEF Decode, Answer, bounds, history
<1>20. CASE Interrupt
  BY <1>20 DEF Interrupt, Answer, Raise, bounds, history
<1>21. CASE ChildWrite
  BY <1>21 DEF ChildWrite, bounds, history
<1>22. CASE DescendantWrite
  BY <1>22 DEF DescendantWrite, bounds, history
<1>23. CASE ChildEnds
  <2>1. child' \in [state : {"none", "running", "exited", "reaped"}, code : {0, 1, -15, -9},
                   signals : SUBSET {"terminate", "kill"}, refuses : BOOLEAN]
    BY <1>23 DEF ChildEnds
  <2> QED  BY <1>23, <2>1 DEF ChildEnds, bounds, history
<1>24. CASE ChildIsTerminated
  BY <1>24 DEF ChildIsTerminated, bounds, history
<1>25. CASE ChildIsKilled
  BY <1>25 DEF ChildIsKilled, bounds, history
<1>26. CASE UNCHANGED vars
  BY <1>26 DEF vars, system, bounds, history
<1> QED
  BY <1>1, <1>2, <1>3, <1>4, <1>5, <1>6, <1>7, <1>8, <1>9, <1>10, <1>11, <1>12, <1>13, <1>14,
     <1>15, <1>16, <1>17, <1>18, <1>19, <1>20, <1>21, <1>22, <1>23, <1>24, <1>25,
           <1>26 DEF Next, Evaluate

(* What has been read is what was measured.                                *)
LEMMA OutputStep ==
  ASSUME TypeOK, WithinFiles, ChildKnown, ReapKnown, OutputKnown, [Next]_vars
  PROVE  OutputKnown'
<1>0. /\ files \in [Streams -> Files] /\ size \in [Streams -> Nat] /\ late \in Nat
      /\ sized \in [Streams -> Seq(Lines) \cup {None}]
      /\ "stdout" \in Streams /\ "stderr" \in Streams
      /\ files["stdout"].lines \in Seq(Lines) /\ files["stdout"].offset \in Nat
      /\ files["stdout"] \in Files /\ files["stdout"].offset <= Len(files["stdout"].lines)
  BY CommandAssumption DEF TypeOK, Streams, Files, WithinFiles
<1>00. at # "answered" => answer.kind # "observation"
  BY DEF ReapKnown, NoAnswer
<1> USE <1>0, <1>00 DEF OutputKnown, ReturnedIsTheOutput, Outside, Inside, Reaping, HasRead
<1>1. CASE Build
  BY <1>1 DEF Build, Answer, bounds, history
<1>2. CASE Prepare
  BY <1>2 DEF Prepare, Answer, Raise, bounds, history
<1>3. CASE Start
  BY <1>3 DEF Start, Raise, NoChild, bounds, history
<1>4. CASE EnterWait
  BY <1>4 DEF EnterWait, bounds, history
<1>5. CASE Wait
  BY <1>5 DEF Wait, bounds, history
<1>6. CASE Poll
  BY <1>6 DEF Poll, Reap, bounds, history
<1>7. CASE Terminate
  BY <1>7 DEF Terminate, Signal, bounds, history
<1>8. CASE GraceWait
  BY <1>8 DEF GraceWait, Reap, bounds, history
<1>9. CASE Kill
  BY <1>9 DEF Kill, Signal, bounds, history
<1>10. CASE KillWait
  BY <1>10 DEF KillWait, Reap, bounds, history
<1>11. CASE SizeStdout
  BY <1>11 DEF SizeStdout, Raise, bounds, history
<1>12. CASE SizeStderr
  BY <1>12 DEF SizeStderr, Raise, Oversized, bounds, history
<1>13. CASE SeekStdout
  <2>1. files'["stdout"].offset = 0 /\ files'["stdout"].lines = files["stdout"].lines
    BY <1>13, FileStep DEF SeekStdout, Seek
  <2> QED  BY <1>13, <2>1 DEF SeekStdout, Seek, bounds, history
<1>14. CASE ReadStdout
  <2>1. CASE ReadExact(files["stdout"], size["stdout"]) = None
    <3> QED  BY <1>14, <2>1 DEF ReadStdout, Read, Raise, bounds
  <2>2. CASE ReadExact(files["stdout"], size["stdout"]) # None
    <3>1. files'["stdout"].lines = files["stdout"].lines
      BY <1>14, FileStep DEF ReadStdout, Read, TypeOK
    <3>2. /\ stdout' \in Seq(Lines) /\ Len(stdout') = size["stdout"]
          /\ size["stdout"] = Len(files["stdout"].lines) - files["stdout"].offset
          /\ files["stdout"].offset = 0 => stdout' = files["stdout"].lines
      BY <1>14, <2>2, ReadFile DEF ReadStdout
    <3>3. late <= 1 => \/ stdout' = <<>>
                       \/ sized["stdout"] = stdout' /\ files["stdout"].lines = stdout'
      BY <1>14, <3>2 DEF ReadStdout
    <3> QED  BY <1>14, <2>2, <3>1, <3>2, <3>3 DEF ReadStdout, Read, Raise, bounds
  <2> QED  BY <2>1, <2>2
<1>15. CASE SeekStderr
  <2>1. files'["stdout"] = files["stdout"]
    BY <1>15 DEF SeekStderr, Seek
  <2> QED  BY <1>15, <2>1 DEF SeekStderr, Seek, bounds, history
<1>16. CASE ReadStderr
  <2>1. files'["stdout"] = files["stdout"]
    BY <1>16 DEF ReadStderr, Read
  <2> QED  BY <1>16, <2>1 DEF ReadStderr, Read, Raise, bounds, history
<1>17. CASE CleanUp
  BY <1>17 DEF CleanUp, Answer, bounds, history
<1>18. CASE Finish
  BY <1>18 DEF Finish, Answer, bounds, history
<1>19. CASE Decode
  <2>1. ASSUME answer'.kind = "observation"
        PROVE  child.code = 0 /\ Len(stdout) = 1 /\ answer'.line = stdout[1]
    BY <1>19, <2>1, DecodedVerdict DEF Decode, Answer
  <2>2. child.state = "reaped"
    BY <1>19 DEF Decode, ChildKnown, Reaped
  <2>3. ASSUME answer'.kind = "observation", late <= 1
        PROVE  stdout = <<answer'.line>> /\ sized["stdout"] = stdout /\ held = stdout
    <3>1. /\ stdout \in Seq(Lines)
          /\ stdout = <<>> \/ (sized["stdout"] = stdout /\ held = stdout)
      BY <1>19, <2>3 DEF Decode
    <3>2. Len(stdout) = 1 /\ answer'.line = stdout[1]
      BY <2>1, <2>3
    <3>3. stdout # <<>> /\ stdout = <<answer'.line>>
      BY <3>1, <3>2, Singleton
    <3> QED  BY <3>1, <3>3
  <2> QED  BY <1>19, <2>1, <2>2, <2>3 DEF Decode, Answer, bounds, history
<1>20. CASE Interrupt
  BY <1>20 DEF Interrupt, Answer, Raise, bounds, history
<1>21. CASE ChildWrite
  <2>1. child.state = "running" /\ UNCHANGED <<at, size, stdout, pending, answer, late,
        sized, held, child>>
    BY <1>21 DEF ChildWrite, history
  <2>2. at \notin Reaped
    BY <2>1 DEF ChildKnown
  <2>3. files["stdout"].offset = Len(files["stdout"].lines)
          => files'["stdout"].offset = Len(files'["stdout"].lines)
    BY <1>21, StdoutWritten DEF ChildWrite
  <2> QED  BY <2>1, <2>2, <2>3 DEF Reaped
<1>22. CASE DescendantWrite
  <2>1. late' = late + 1 /\ at \in Inside
        /\ UNCHANGED <<at, size, stdout, pending, answer, sized, held, child>>
    BY <1>22 DEF DescendantWrite, history
  <2>2. \/ files'["stdout"] = files["stdout"]
        \/ /\ files'["stdout"].offset = files["stdout"].offset + 1
           /\ Len(files'["stdout"].lines) =
                IF files["stdout"].offset = Len(files["stdout"].lines)
                THEN Len(files["stdout"].lines) + 1 ELSE Len(files["stdout"].lines)
    BY <1>22, StdoutWritten DEF DescendantWrite
  <2>3. late' <= 1 => late = 0
    BY <2>1
  <2>4. Len(files["stdout"].lines) \in Nat
    OBVIOUS
  <2>5. CASE files'["stdout"] = files["stdout"]
    BY <2>1, <2>3, <2>5
  <2>6. CASE files'["stdout"] # files["stdout"]
    BY <2>1, <2>2, <2>3, <2>4, <2>6
  <2> QED  BY <2>5, <2>6
<1>23. CASE ChildEnds
  BY <1>23 DEF ChildEnds, bounds, history
<1>24. CASE ChildIsTerminated
  BY <1>24 DEF ChildIsTerminated, bounds, history
<1>25. CASE ChildIsKilled
  BY <1>25 DEF ChildIsKilled, bounds, history
<1>26. CASE UNCHANGED vars
  BY <1>26 DEF vars, system, bounds, history
<1> QED
  BY <1>1, <1>2, <1>3, <1>4, <1>5, <1>6, <1>7, <1>8, <1>9, <1>10, <1>11, <1>12, <1>13, <1>14,
     <1>15, <1>16, <1>17, <1>18, <1>19, <1>20, <1>21, <1>22, <1>23, <1>24, <1>25,
           <1>26 DEF Next, Evaluate

(* What was measured, and what an error in flight stands for.              *)
LEMMA VerdictStep ==
  ASSUME TypeOK, ChildKnown, ReapKnown, OutputKnown, VerdictKnown, [Next]_vars
  PROVE  VerdictKnown'
<1>0. /\ Streams = {"stdout", "stderr"} /\ None \notin Invocations \cup Seq(Lines)
      /\ size \in [Streams -> Nat] /\ sized \in [Streams -> Seq(Lines) \cup {None}]
      /\ \A s \in Streams : files[s].lines \in Seq(Lines)
  BY CommandAssumption DEF TypeOK, Streams, Files
<1> USE <1>0 DEF VerdictKnown, ChildKnown, Outside, Inside, Reaping, Reaped, HasRead, GaveUp,
                 Measured, Limits, Limit, Oversized, Contract!Failures
<1>1. CASE Build
  <2>1. /\ at = "build" /\ at' \in {"prepare", "answered"}
        /\ UNCHANGED <<sized, size, pending, child>>
    BY <1>1 DEF Build, Answer, history
  <2>2. at' = "prepare" =>
          /\ invocation' \in Invocations
          /\ invocation'.maxStdout > 0 /\ invocation'.maxStderr > 0
    BY <1>1 DEF Build, Answer, ValidInvocation
  <2>3. at' = "prepare" => Limits' \in [stdout : Nat, stderr : Nat]
    <3>1. \A i \in Invocations : i.maxStdout \in Int /\ i.maxStderr \in Int
      BY CommandAssumption
    <3>2. at' = "prepare" => invocation'.maxStdout \in Nat /\ invocation'.maxStderr \in Nat
      BY <2>2, <3>1
    <3> QED  BY <3>2 DEF Limits, Limit
  <2>4. \A s \in Streams : sized[s] = None
    BY <2>1
  <2> QED  BY <2>1, <2>2, <2>3, <2>4
<1>2. CASE Prepare
  BY <1>2 DEF Prepare, Answer, Raise, bounds, history
<1>3. CASE Start
  BY <1>3 DEF Start, Raise, NoChild, bounds, history
<1>4. CASE EnterWait
  BY <1>4 DEF EnterWait, bounds, history
<1>5. CASE Wait
  BY <1>5 DEF Wait, bounds, history
<1>6. CASE Poll
  BY <1>6 DEF Poll, Reap, bounds, history
<1>7. CASE Terminate
  BY <1>7 DEF Terminate, Signal, bounds, history
<1>8. CASE GraceWait
  BY <1>8 DEF GraceWait, Reap, bounds, history
<1>9. CASE Kill
  BY <1>9 DEF Kill, Signal, bounds, history
<1>10. CASE KillWait
  BY <1>10 DEF KillWait, Reap, bounds, history
<1>11. CASE SizeStdout
  <2>1. /\ at = "size_stdout" /\ at' \in {"size_stderr", "cleanup"}
        /\ UNCHANGED <<child, invocation>> /\ sized'["stderr"] = sized["stderr"]
        /\ at' = "cleanup" => pending' = "output_io_failure"
        /\ at' # "cleanup" => UNCHANGED pending
    BY <1>11 DEF SizeStdout, Raise
  <2>2. pending # "timeout"
    BY <2>1 DEF ReapKnown
  <2> QED  BY <2>1, <2>2
<1>12. CASE SizeStderr
  <2>1. /\ at = "size_stderr" /\ at' \in {"seek_stdout", "cleanup"}
        /\ UNCHANGED <<child, invocation>>
    BY <1>12 DEF SizeStderr, Raise
  <2>2. CASE at' = "cleanup" /\ pending' = "output_io_failure"
    BY <2>1, <2>2
  <2>3. CASE ~(at' = "cleanup" /\ pending' = "output_io_failure")
    <3>1. /\ size' = [size EXCEPT !["stderr"] = Len(files["stderr"].lines)]
          /\ sized' = [sized EXCEPT !["stderr"] = files["stderr"].lines]
          /\ IF Oversized(size') = "none" THEN at' = "seek_stdout" /\ UNCHANGED pending
             ELSE at' = "cleanup" /\ pending' = Oversized(size')
      BY <1>12, <2>3 DEF SizeStderr, Raise
    <3>2. sized["stdout"] \in Seq(Lines) /\ size["stdout"] = Len(sized["stdout"])
      BY <2>1 DEF OutputKnown
    <3>3. Measured'
      BY <3>1, <3>2
    <3>4. Oversized(size') = Oversized(size)'
      BY <2>1
    <3> QED  BY <2>1, <3>1, <3>3, <3>4
  <2> QED  BY <2>2, <2>3
<1>13. CASE SeekStdout
  BY <1>13 DEF SeekStdout, Seek, bounds, history
<1>14. CASE ReadStdout
  BY <1>14 DEF ReadStdout, Read, Raise, bounds, history
<1>15. CASE SeekStderr
  BY <1>15 DEF SeekStderr, Seek, bounds, history
<1>16. CASE ReadStderr
  BY <1>16 DEF ReadStderr, Read, Raise, bounds, history
<1>17. CASE CleanUp
  BY <1>17 DEF CleanUp, Answer, bounds, history
<1>18. CASE Finish
  BY <1>18 DEF Finish, Answer, bounds, history
<1>19. CASE Decode
  BY <1>19 DEF Decode, Answer, bounds, history
<1>20. CASE Interrupt
  BY <1>20 DEF Interrupt, Answer, Raise, bounds, history
<1>21. CASE ChildWrite
  BY <1>21 DEF ChildWrite, bounds, history
<1>22. CASE DescendantWrite
  BY <1>22 DEF DescendantWrite, bounds, history
<1>23. CASE ChildEnds
  BY <1>23 DEF ChildEnds, bounds, history
<1>24. CASE ChildIsTerminated
  BY <1>24 DEF ChildIsTerminated, bounds, history
<1>25. CASE ChildIsKilled
  BY <1>25 DEF ChildIsKilled, bounds, history
<1>26. CASE UNCHANGED vars
  BY <1>26 DEF vars, system, bounds, history
<1> QED
  BY <1>1, <1>2, <1>3, <1>4, <1>5, <1>6, <1>7, <1>8, <1>9, <1>10, <1>11, <1>12, <1>13, <1>14,
     <1>15, <1>16, <1>17, <1>18, <1>19, <1>20, <1>21, <1>22, <1>23, <1>24, <1>25,
           <1>26 DEF Next, Evaluate

(* The inductive invariant: at the start, and by every step.               *)
LEMMA InitEstablishes ==
  ASSUME Init
  PROVE  /\ TypeOK /\ WithinFiles /\ ChildKnown /\ ReapKnown
         /\ DirectoryKnown /\ OutputKnown /\ VerdictKnown
<1> USE CommandAssumption DEF Init, NoChild, NoAnswer, EmptyFile
<1>1. <<>> \in Seq(Lines) /\ Len(<<>>) = 0
  OBVIOUS
<1>2. EmptyFile \in Files
  BY <1>1 DEF Files
<1>3. TypeOK
  <2>1. child \in [state : {"none", "running", "exited", "reaped"}, code : Codes,
                  signals : SUBSET {"terminate", "kill"}, refuses : BOOLEAN]
    BY DEF Codes
  <2>2. /\ files \in [Streams -> Files] /\ size \in [Streams -> Nat]
        /\ sized \in [Streams -> Seq(Lines) \cup {None}]
    BY <1>2
  <2>3. at \in Outside /\ stdout \in Seq(Lines)
    BY <1>1 DEF Outside
  <2>4. /\ invocation \in Invocations \cup {None} /\ place \in Places
        /\ temp \in {"none", "present", "removed"} /\ reaped \in BOOLEAN
        /\ held \in Seq(Lines) \cup {None}
    OBVIOUS
  <2>5. /\ written \in 0 .. ChildWrites /\ late \in 0 .. LateWrites
        /\ interrupts \in 0 .. MaxInterrupts
    OBVIOUS
  <2> QED  BY <2>1, <2>2, <2>3, <2>4, <2>5 DEF TypeOK
<1>4. WithinFiles
  BY <1>1 DEF WithinFiles
<1>5. ChildKnown /\ ReapKnown
  BY DEF ChildKnown, ReapKnown, AccountsForTheChild, ReportedReapIsTrue, Reaping, Reaped,
        HasRead
<1>6. DirectoryKnown
  BY DEF DirectoryKnown, LeavesNothingBehind
<1>7. OutputKnown
  BY <1>1 DEF OutputKnown, ReturnedIsTheOutput, HasRead, Streams
<1>8. VerdictKnown
  BY DEF VerdictKnown, Outside, HasRead, Reaped
<1> QED  BY <1>3, <1>4, <1>5, <1>6, <1>7, <1>8

CallInv ==
  /\ TypeOK /\ WithinFiles /\ ChildKnown /\ ReapKnown
  /\ DirectoryKnown /\ OutputKnown /\ VerdictKnown

LEMMA CallInvStep ==
  ASSUME CallInv, [Next]_vars
  PROVE  CallInv'
<1>1. /\ TypeOK /\ WithinFiles /\ ChildKnown /\ ReapKnown
      /\ DirectoryKnown /\ OutputKnown /\ VerdictKnown
  BY DEF CallInv
<1>2. TypeOK' /\ WithinFiles'
  BY <1>1, TypeStep, FilesStep DEF TypeOK
<1>3. ChildKnown' /\ ReapKnown'
  BY <1>1, ChildStep, ReapStep
<1>4. DirectoryKnown' /\ OutputKnown' /\ VerdictKnown'
  BY <1>1, DirectoryStep, OutputStep, VerdictStep
<1> QED  BY <1>2, <1>3, <1>4 DEF CallInv

LEMMA CallInvariant == Spec => []CallInv
<1>1. Init => CallInv
  BY InitEstablishes DEF CallInv
<1>2. CallInv /\ [Next]_vars => CallInv'
  BY CallInvStep
<1> QED  BY <1>1, <1>2, PTL DEF Spec

(* For any numbers of writes, interrupts and lines: an observation is the  *)
(* whole output of a child that returned 0 (one late write at most), a     *)
(* timeout reports truly whether the child was reaped, and no directory is *)
(* left behind (CommandAdapter.evaluate).                                  *)
THEOREM EvaluateIsSafe == Spec => []ChildInv
<1>1. CallInv => ChildInv
  BY DEF CallInv, ChildInv, ReapKnown, DirectoryKnown, OutputKnown
<1> QED  BY <1>1, CallInvariant, PTL

(* A call leaves a child behind only after it has tried everything, unless *)
(* the user interrupts (_terminate_and_reap).                              *)
THEOREM ChildIsAccountedFor == Spec => []AccountsForTheChild
<1>1. CallInv => AccountsForTheChild
  BY DEF CallInv, ChildKnown
<1> QED  BY <1>1, CallInvariant, PTL

-----------------------------------------------------------------------------
(* The contract of the adapter, under the refinement mapping.              *)

TheOutcome == IF None \in {sized[s] : s \in Streams} THEN None ELSE Outcome
TheLimits == IF invocation = None THEN None ELSE Limits
TheVerdict == IF at = "answered" THEN <<answer.kind, answer.line>> ELSE None

(* The contract's next-state relation in the terms of the mapping.         *)
LEMMA Mapping ==
  /\ UNCHANGED <<TheOutcome, TheLimits, TheVerdict>> => UNCHANGED Contract!vars
  /\ Contract!Next <=>
       \/ /\ TheVerdict = None /\ TheLimits = None
          /\ TheLimits' \in [stdout : Nat, stderr : Nat]
          /\ TheOutcome' = TheOutcome /\ TheVerdict' = TheVerdict
       \/ /\ TheVerdict = None /\ TheLimits # None /\ TheOutcome = None
          /\ TheOutcome' \in [code : Codes, stdout : Seq(Lines), stderr : Seq(Lines)]
          /\ TheLimits' = TheLimits /\ TheVerdict' = TheVerdict
       \/ /\ TheVerdict = None
          /\ \/ TheVerdict' \in Contract!Failures \X {None}
             \/ TheOutcome = None /\ TheLimits # None /\ TheVerdict' = <<"timeout", None>>
             \/ TheOutcome # None /\ TheVerdict' = Contract!Judge(TheOutcome, TheLimits)
          /\ TheOutcome' = TheOutcome /\ TheLimits' = TheLimits
BY DEF Contract!vars, Contract!Next, Contract!Built, Contract!Ended, Contract!Answered,
       TheOutcome, TheLimits, TheVerdict, Outcome, Limits

(* What the contract does not see.                                         *)
LEMMA Unseen ==
  ASSUME VerdictKnown, UNCHANGED <<invocation, sized>>,
         at' # "answered", at # "answered",
         UNCHANGED child \/ child.state # "reaped"
  PROVE  UNCHANGED <<TheOutcome, TheLimits, TheVerdict>>
BY DEF TheOutcome, TheLimits, TheVerdict, Outcome, Limits, Limit, VerdictKnown, Streams

(* What the mapped variables are at each stage.                            *)
LEMMA Mapped ==
  ASSUME CallInv
  PROVE  /\ at \notin {"build", "answered"} => TheLimits = Limits /\ TheLimits # None
         /\ at = "build" => TheLimits = None
         /\ Measured => TheOutcome = Outcome /\ TheOutcome # None
                        /\ TheOutcome \in [code : Codes, stdout : Seq(Lines),
                              stderr : Seq(Lines)]
         /\ at # "answered" => TheVerdict = None
<1>1. None \notin Invocations \cup Seq(Lines) \cup [stdout : Nat, stderr : Nat]
                  \cup [code : Codes, stdout : Seq(Lines), stderr : Seq(Lines)]
  BY CommandAssumption
<1>2. ASSUME Measured
      PROVE  TheOutcome = Outcome
             /\ TheOutcome \in [code : Codes, stdout : Seq(Lines), stderr : Seq(Lines)]
  BY <1>1, <1>2 DEF TheOutcome, Outcome, Measured, Streams, CallInv, TypeOK
<1> QED  BY <1>1, <1>2 DEF CallInv, VerdictKnown, TheLimits, TheVerdict

(* With one late write at most, a call keeps the contract of the adapter:  *)
(* it answers with the one verdict on what the child has left, or with a   *)
(* failure that returns nothing of it (CommandAdapter.evaluate).           *)
THEOREM EvaluateKeepsContract ==
  ASSUME LateWrites <= 1
  PROVE  Spec => ImplementsContract
<1>1. Init => Contract!Init
  BY DEF Init, Contract!Init, Streams
<1>2. CallInv /\ [Next]_vars => [Contract!Next]_(Contract!vars)
  <2> SUFFICES ASSUME CallInv, [Next]_vars PROVE [Contract!Next]_(Contract!vars)
    OBVIOUS
  <2>1. /\ TypeOK /\ ChildKnown /\ ReapKnown /\ OutputKnown /\ VerdictKnown
    BY DEF CallInv
  <2> USE <2>1
  <2>2. CASE Build
    <3>1. UNCHANGED <<sized, child>> /\ at = "build" /\ invocation = None
      BY <2>2 DEF Build, history, VerdictKnown
    <3>2. TheOutcome' = TheOutcome /\ TheLimits = None /\ TheVerdict = None
      BY <3>1, Mapped DEF TheOutcome, Outcome
    <3>3. CASE at' = "prepare"
      <4>1. CallInv'
        BY CallInvStep
      <4>2. invocation' \in Invocations /\ TheLimits' = Limits' /\ Limits' \in [stdout : Nat,
            stderr : Nat]
        BY <3>3, <4>1, CommandAssumption DEF CallInv, VerdictKnown, TheLimits
      <4>3. TheVerdict' = TheVerdict
        BY <3>1, <3>3 DEF TheVerdict
      <4> QED  BY <3>2, <4>2, <4>3, Mapping
    <3>4. CASE at' # "prepare"
      <4>1. TheVerdict' = <<"build_error", None>> /\ UNCHANGED invocation
        BY <2>2, <3>4 DEF Build, Answer, TheVerdict
      <4>2. TheLimits' = TheLimits
        BY <4>1 DEF TheLimits, Limits, Limit
      <4> QED  BY <3>2, <4>1, <4>2, Mapping DEF Contract!Failures
    <3> QED  BY <3>3, <3>4
  <2>3. CASE SizeStderr
    <3>1. at = "size_stderr" /\ at' \in {"seek_stdout", "cleanup"} /\ UNCHANGED <<child,
          invocation>>
      BY <2>3 DEF SizeStderr, Raise
    <3>2. CASE UNCHANGED sized
      BY <3>1, <3>2, Unseen, Mapping
    <3>3. CASE sized' # sized
      <4>1. CallInv'
        BY CallInvStep
      <4>2. /\ size' = [size EXCEPT !["stderr"] = Len(files["stderr"].lines)]
            /\ sized' = [sized EXCEPT !["stderr"] = files["stderr"].lines]
        BY <2>3, <3>3 DEF SizeStderr, Raise
      <4>3. /\ sized["stdout"] \in Seq(Lines) /\ size["stdout"] = Len(sized["stdout"])
            /\ sized["stderr"] = None /\ files["stderr"].lines \in Seq(Lines)
        BY <3>1 DEF OutputKnown, VerdictKnown, TypeOK, Files, Streams
      <4>4. Measured'
        BY <4>2, <4>3 DEF Measured, Streams, TypeOK
      <4>5. TheOutcome' \in [code : Codes, stdout : Seq(Lines), stderr : Seq(Lines)]
        <5>1. child'.code \in Codes
          BY <3>1 DEF TypeOK
        <5> QED  BY <4>4, <5>1, CommandAssumption DEF TheOutcome, Outcome, Measured, Streams
      <4>6. TheOutcome = None /\ TheLimits # None /\ TheVerdict = None
        BY <3>1, <4>3, Mapped DEF TheOutcome, Streams
      <4>7. TheLimits' = TheLimits /\ TheVerdict' = TheVerdict
        BY <3>1 DEF TheLimits, Limits, Limit, TheVerdict
      <4> QED  BY <4>5, <4>6, <4>7, Mapping
    <3> QED  BY <3>2, <3>3
  <2>4. CASE SizeStdout
    <3>1. /\ at = "size_stdout" /\ at' \in {"size_stderr", "cleanup"}
          /\ UNCHANGED <<child, invocation>> /\ sized["stderr"] = None
          /\ sized'["stderr"] = sized["stderr"]
      BY <2>4 DEF SizeStdout, Raise, VerdictKnown, TypeOK, Streams
    <3>2. TheOutcome = None /\ TheOutcome' = None
      BY <3>1 DEF TheOutcome, Streams
    <3>3. TheLimits' = TheLimits /\ TheVerdict' = TheVerdict
      BY <3>1 DEF TheLimits, Limits, Limit, TheVerdict
    <3> QED  BY <3>2, <3>3, Mapping
  <2>5. CASE CleanUp
    <3>1. /\ at = "cleanup" /\ TheVerdict' = <<pending, None>>
          /\ UNCHANGED <<child, invocation, sized>>
      BY <2>5 DEF CleanUp, Answer, history, TheVerdict
    <3>2. TheOutcome' = TheOutcome /\ TheLimits' = TheLimits
      BY <3>1 DEF TheOutcome, Outcome, TheLimits, Limits, Limit
    <3>3. TheLimits = Limits /\ TheLimits # None /\ TheVerdict = None
      BY <3>1, Mapped
    <3>4. CASE pending \in Contract!Failures
      BY <3>1, <3>2, <3>3, <3>4, Mapping
    <3>5. CASE pending = "timeout" /\ \A s \in Streams : sized[s] = None
      <4>1. TheOutcome = None
        BY <3>5 DEF TheOutcome, Streams
      <4> QED  BY <3>1, <3>2, <3>3, <3>5, <4>1, Mapping
    <3>6. CASE Measured /\ pending # "none" /\ pending = Oversized(size)
      <4>1. TheOutcome = Outcome /\ TheOutcome # None
        BY <3>6, Mapped
      <4>2. <<pending, None>> = Contract!Judge(Outcome, Limits)
        BY <3>6 DEF Contract!Judge, Outcome, Limits, Measured, Oversized, Streams
      <4> QED  BY <3>1, <3>2, <3>3, <4>1, <4>2, Mapping
    <3> QED  BY <3>1, <3>4, <3>5, <3>6 DEF VerdictKnown
  <2>6. CASE Decode
    <3>1. /\ at = "decode" /\ UNCHANGED <<child, invocation, sized>>
          /\ TheVerdict' = IF child.code # 0 THEN <<"exit_error", None>>
                            ELSE <<Decoded(stdout)[1], Decoded(stdout)[2]>>
      BY <2>6 DEF Decode, Answer, history, TheVerdict
    <3>2. TheOutcome' = TheOutcome /\ TheLimits' = TheLimits
      BY <3>1 DEF TheOutcome, Outcome, TheLimits, Limits, Limit
    <3>3. TheLimits = Limits /\ TheLimits # None /\ TheVerdict = None
      BY <3>1, Mapped
    <3>4. Measured /\ Oversized(size) = "none"
      BY <3>1 DEF VerdictKnown, HasRead
    <3>5. TheOutcome = Outcome /\ TheOutcome # None
      BY <3>4, Mapped
    <3>6. stdout = sized["stdout"]
      <4>1. late <= 1
        BY CommandAssumption DEF TypeOK
      <4> QED  BY <3>1, <4>1 DEF OutputKnown, HasRead
    <3>7. <<Decoded(stdout)[1], Decoded(stdout)[2]>> = Decoded(stdout)
      BY DEF Decoded
    <3>8. TheVerdict' = Contract!Judge(Outcome, Limits)
      BY <3>1, <3>4, <3>6, <3>7 DEF Contract!Judge, Outcome, Limits, Measured, Oversized,
            Streams
    <3> QED  BY <3>2, <3>3, <3>5, <3>8, Mapping
  <2>7. CASE Prepare \/ Finish \/ Interrupt
    <3>1. at # "answered" /\ UNCHANGED <<child, invocation, sized>>
      BY <2>7 DEF Prepare, Finish, Interrupt, history, Outside, Inside, Reaping
    <3>2. CASE at' # "answered"
      BY <3>1, <3>2, Unseen, Mapping
    <3>3. CASE at' = "answered"
      <4>1. TheVerdict' \in Contract!Failures \X {None}
        BY <2>7, <3>3 DEF Prepare, Finish, Interrupt, Answer, Raise, TheVerdict,
              Contract!Failures
      <4>2. TheOutcome' = TheOutcome /\ TheLimits' = TheLimits /\ TheVerdict = None
        BY <3>1 DEF TheOutcome, Outcome, TheLimits, Limits, Limit, TheVerdict
      <4> QED  BY <4>1, <4>2, Mapping
    <3> QED  BY <3>2, <3>3
  <2>8. CASE \/ Start \/ EnterWait \/ Wait \/ Poll \/ Terminate \/ GraceWait \/ Kill \/ KillWait
             \/ SeekStdout \/ ReadStdout \/ SeekStderr \/ ReadStderr
    <3>1. at # "answered" /\ at' # "answered" /\ UNCHANGED <<invocation, sized>>
      BY <2>8 DEF Start, EnterWait, Wait, Poll, Terminate, GraceWait, Kill, KillWait, Reap,
        SeekStdout, ReadStdout, SeekStderr, ReadStderr, Seek, Read, Raise, history
    <3>2. UNCHANGED child \/ child.state # "reaped"
      BY <2>8 DEF Start, EnterWait, Wait, Poll, Terminate, GraceWait, Kill, KillWait, Reap,
            Signal,
        SeekStdout, ReadStdout, SeekStderr, ReadStderr, Seek, Read, ChildKnown, Reaping
    <3> QED  BY <3>1, <3>2, Unseen, Mapping
  <2>9. CASE ChildWrite \/ DescendantWrite \/ ChildEnds \/ ChildIsTerminated \/ ChildIsKilled
    <3>1. /\ UNCHANGED <<at, answer, invocation, sized>>
          /\ UNCHANGED child \/ child.state = "running"
      BY <2>9 DEF ChildWrite, DescendantWrite, ChildEnds, ChildIsTerminated, ChildIsKilled,
            history
    <3>2. TheOutcome' = TheOutcome
      BY <3>1 DEF TheOutcome, Outcome, VerdictKnown, Streams
    <3>3. TheLimits' = TheLimits /\ TheVerdict' = TheVerdict
      BY <3>1 DEF TheLimits, Limits, Limit, TheVerdict
    <3> QED  BY <3>2, <3>3, Mapping
  <2>10. CASE UNCHANGED vars
    <3>1. UNCHANGED <<TheOutcome, TheLimits, TheVerdict>>
      BY <2>10 DEF vars, system, history, TheOutcome, Outcome, TheLimits, Limits, Limit,
            TheVerdict
    <3> QED  BY <3>1, Mapping
  <2> QED
    BY <2>2, <2>3, <2>4, <2>5, <2>6, <2>7, <2>8, <2>9, <2>10 DEF Next, Evaluate
<1> QED  BY <1>1, <1>2, CallInvariant, PTL DEF Spec, ImplementsContract, Contract!Spec

=============================================================================
