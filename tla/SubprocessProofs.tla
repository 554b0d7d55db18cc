-------------------------- MODULE SubprocessProofs --------------------------
(***************************************************************************)
(* Theorems about Subprocess, for every capacity of a pipe and every       *)
(* amount of output.                                                       *)
(***************************************************************************)
EXTENDS Subprocess, TLAPS

-----------------------------------------------------------------------------
(* Outcomes                                                                *)

LEMMA RawIn ==
  ASSUME NEW status \in {"Passed", "Skipped", "Failed", "TimedOut", "Err"},
         NEW b \in BOOLEAN, NEW p \in BOOLEAN
  PROVE  Raw(status, b, p) \in RawOutcomes /\ Raw(status, b, p).status = status
BY DEF Raw, RawOutcomes

\* A decoded exit status is neither a time-out nor an error.
LEMMA DecodedIn ==
  ASSUME NEW c, NEW p \in BOOLEAN
  PROVE  /\ decode_outcome(c, p) \in RawOutcomes
         /\ decode_outcome(c, p).status \in {"Passed", "Skipped", "Failed"}
BY RawIn DEF decode_outcome

LEMMA JobParts ==
  ASSUME NEW j \in Jobs
  PROVE  /\ j.no_capture \in BOOLEAN /\ j.deadline \in BOOLEAN
         /\ j.panics \in BOOLEAN /\ j.daemon \in BOOLEAN
         /\ j.code \in Codes /\ j.out \in Counts
BY DEF Jobs, Counts

-----------------------------------------------------------------------------
(* Types                                                                   *)

LEMMA InitTypeOK == Init => STypeOK
<1> SUFFICES ASSUME Init PROVE STypeOK
  OBVIOUS
<1>1. outcome \in RawOutcomes
  BY RawIn DEF Init, NoOutcome
<1>2. written \in Counts /\ drained \in Counts
  BY SubprocessAssumption DEF Init, Counts
<1>3. job \in Jobs /\ code \in Codes
  BY DEF Init, Codes
<1> QED
  BY <1>1, <1>2, <1>3 DEF Init, STypeOK

LEMMA ExitTypeOK ==
  ASSUME STypeOK, NEW c \in Codes, Exit(c)
  PROVE  STypeOK'
BY DEF STypeOK, Exit

LEMMA NextTypeOK == STypeOK /\ [Next]_svars => STypeOK'
<1> SUFFICES ASSUME STypeOK, [Next]_svars PROVE STypeOK'
  OBVIOUS
<1>1. CASE ChildExit
  BY <1>1, JobParts, ExitTypeOK DEF ChildExit, STypeOK
<1>2. CASE ChildKilled \/ ChildTerminated
  BY <1>2, ExitTypeOK DEF ChildKilled, ChildTerminated, Codes
<1>3. ASSUME NEW s \in Streams, ChildWrite(s) PROVE STypeOK'
  <2>1. written[s] + 1 \in 0 .. MaxOut
    BY <1>3, JobParts, SubprocessAssumption DEF ChildWrite, STypeOK, Counts
  <2>2. written' \in Counts
    BY <1>3, <2>1 DEF ChildWrite, STypeOK, Counts
  <2> QED
    BY <1>3, <2>2 DEF ChildWrite, STypeOK
<1>4. CASE DescendantEnds
  BY <1>4 DEF DescendantEnds, STypeOK
<1>5. CASE Spawn
  BY <1>5, JobParts DEF Spawn, STypeOK
<1>6. CASE SpawnFails \/ WaitFails
  BY <1>6, RawIn DEF SpawnFails, WaitFails, Return, Fails, Calls, STypeOK
<1>7. CASE Exited \/ TimedOut
  BY <1>7 DEF Exited, TimedOut, Reap, STypeOK
<1>8. CASE graceful_kill
  BY <1>8, RawIn DEF graceful_kill, KillReturns, Return, Reap, STypeOK
<1>9. CASE GracefulKillErrs
  BY <1>9, RawIn DEF GracefulKillErrs, KillReturns, Return, Fails, Calls, STypeOK
<1>10. ASSUME NEW s \in Streams, ReadFails(s) PROVE STypeOK'
  BY <1>10 DEF ReadFails, Fails, Calls, STypeOK
<1>11. ASSUME NEW s \in Streams, drain_pipe(s) PROVE STypeOK'
  <2>1. drained[s] + 1 \in 0 .. MaxOut
    BY <1>11, SubprocessAssumption DEF drain_pipe, STypeOK, Counts
  <2>2. drained' \in Counts
    BY <1>11, <2>1 DEF drain_pipe, STypeOK, Counts
  <2> QED
    BY <1>11, <2>2 DEF drain_pipe, STypeOK
<1>12. CASE Decode
  <2>1. PanicText \in BOOLEAN
    BY JobParts DEF PanicText, STypeOK
  <2>2. outcome' \in RawOutcomes
    BY <1>12, <2>1, DecodedIn DEF Decode, Return, spawn_no_capture
  <2> QED
    BY <1>12, <2>2 DEF Decode, Return, STypeOK
<1>13. CASE UNCHANGED svars
  BY <1>13 DEF STypeOK, svars
<1> QED
  BY <1>1, <1>2, <1>3, <1>4, <1>5, <1>6, <1>7, <1>8, <1>9, <1>10, <1>11, <1>12, <1>13
  DEF Next, ChildStep, RunnerStep, CallFails

\* Every variable of an attempt keeps its type; no counter passes its bound.
THEOREM SubprocessTypeCorrect == Spec => []STypeOK
  BY InitTypeOK, NextTypeOK, PTL DEF Spec

-----------------------------------------------------------------------------
(* The inductive invariant                                                 *)
(*                                                                         *)
(* The properties speak of the end of run only.  What makes them inductive *)
(* is what the future knows of the child at each of its stages: SIGTERM    *)
(* has been sent exactly in the stages past the deadline, nothing is read  *)
(* before the child has been reaped, a child that exits before the         *)
(* deadline has written all it had to write, and only run's last step may  *)
(* leave a child that was not reaped behind.                               *)

StageInv ==
    /\ pc = "spawn" => child = "none" /\ ~term
    /\ pc = "waiting" => child \in {"running", "exited"} /\ ~term
    /\ pc \in {"grace", "killing"} => child \in {"running", "exited"} /\ term
    /\ pc = "draining" => child = "reaped" /\ ~term

UnreadInv ==
    pc \in {"spawn", "waiting"} => \A s \in Streams : drained[s] = 0

StatusInv ==
    ~term /\ child \in {"exited", "reaped"} => code = job.code /\ written = job.out

DoneInv == NoChildSurvives /\ DeadlineDecides /\ EvidenceComplete

SInv == STypeOK /\ StageInv /\ UnreadInv /\ StatusInv /\ DoneInv

LEMMA InitSInv == Init => SInv
BY InitTypeOK DEF Init, SInv, StageInv, UnreadInv, StatusInv, DoneInv,
   NoChildSurvives, DeadlineDecides, EvidenceComplete

\* A step that leaves the future where it was, before its end.
LEMMA EarlyDone ==
  ASSUME pc' # "done" PROVE DoneInv'
BY DEF DoneInv, NoChildSurvives, DeadlineDecides, EvidenceComplete

\* The child of an attempt that has returned, or a call that failed on it.
Accounted == child \in {"none", "reaped"} \/ failed \cap {"wait", "kill"} # {}

\* Only Decode reads a verdict, so it alone owes the evidence.
LEMMA ErrDone ==
  ASSUME Return(Raw("Err", FALSE, FALSE)), ~term', Accounted'
  PROVE  DoneInv'
<1>1. outcome'.status = "Err"
  BY RawIn DEF Return
<1> QED
  BY <1>1 DEF Return, Accounted, DoneInv, NoChildSurvives, DeadlineDecides,
              EvidenceComplete

LEMMA TimedOutDone ==
  ASSUME Return(Raw("TimedOut", FALSE, FALSE)), term', Accounted'
  PROVE  DoneInv'
<1>1. outcome'.status = "TimedOut"
  BY RawIn DEF Return
<1> QED
  BY <1>1 DEF Return, Accounted, DoneInv, NoChildSurvives, DeadlineDecides,
              EvidenceComplete

LEMMA DecodeDone ==
  ASSUME SInv, Decode
  PROVE  DoneInv'
<1>1. job \in Jobs /\ job.panics \in BOOLEAN /\ job.no_capture \in BOOLEAN
  BY JobParts DEF SInv, STypeOK
<1>2. ~term /\ child = "reaped" /\ code = job.code /\ written = job.out
  BY DEF SInv, StageInv, StatusInv, Decode
<1>3. \A s \in Piped \ failed : drained[s] = job.out[s]
  BY <1>2 DEF Decode, EndOfFile
<1>4. "stderr" \in Piped
  BY DEF Piped, Streams
<1>5. \/ PanicText = job.panics
      \/ "stderr" \in failed /\ PanicText = FALSE
  BY <1>1, <1>3, <1>4 DEF PanicText
<1>6. \/ outcome' = decode_outcome(job.code, job.panics /\ ~job.no_capture)
      \/ "stderr" \in failed /\ outcome' = decode_outcome(job.code, FALSE)
  <2>1. CASE job.no_capture
    <3>1. (job.panics /\ ~job.no_capture) = FALSE
      BY <2>1
    <3> QED
      BY <1>2, <2>1, <3>1 DEF Decode, Return, spawn_no_capture
  <2>2. CASE ~job.no_capture
    <3>1. (job.panics /\ ~job.no_capture) = job.panics
      BY <1>1, <2>2
    <3> QED
      BY <1>2, <1>5, <2>2, <3>1 DEF Decode, Return
  <2> QED
    BY <2>1, <2>2
<1>7. outcome'.status \in {"Passed", "Skipped", "Failed"}
  <2>1. (job.panics /\ ~job.no_capture) \in BOOLEAN
    OBVIOUS
  <2> QED
    BY <1>6, <2>1, DecodedIn, Zenon
<1>8. pc' = "done" /\ UNCHANGED <<job, child, drained, term, failed>>
  BY DEF Decode, Return
<1>9. Piped' = Piped
  BY <1>8 DEF Piped
<1> QED
  BY <1>2, <1>3, <1>6, <1>7, <1>8, <1>9
  DEF DoneInv, NoChildSurvives, DeadlineDecides, EvidenceComplete

LEMMA NextSInv == SInv /\ [Next]_svars => SInv'
<1> SUFFICES ASSUME SInv, [Next]_svars PROVE SInv'
  OBVIOUS
<1>t. STypeOK'
  BY NextTypeOK DEF SInv
<1> USE DEF SInv, StageInv, UnreadInv, StatusInv
<1>1. CASE ChildExit
  <2>1. DoneInv'
    BY <1>1, EarlyDone DEF ChildExit, Exit, Running
  <2> QED
    BY <1>1, <1>t, <2>1 DEF ChildExit, Exit, Running
<1>2. CASE ChildKilled \/ ChildTerminated
  <2>1. term
    BY <1>2 DEF ChildKilled, ChildTerminated
  <2>2. DoneInv'
    BY <1>2, EarlyDone DEF ChildKilled, ChildTerminated, Exit, Running
  <2> QED
    BY <1>2, <1>t, <2>1, <2>2 DEF ChildKilled, ChildTerminated, Exit, Running
<1>3. ASSUME NEW s \in Streams, ChildWrite(s) PROVE SInv'
  <2>1. DoneInv'
    BY <1>3, EarlyDone DEF ChildWrite, Running
  <2> QED
    BY <1>3, <1>t, <2>1 DEF ChildWrite, Running
<1>4. CASE DescendantEnds
  <2>1. DoneInv'
    BY <1>4 DEF DescendantEnds, DoneInv, NoChildSurvives, DeadlineDecides,
                EvidenceComplete, Piped
  <2> QED
    BY <1>4, <1>t, <2>1 DEF DescendantEnds
<1>5. CASE Spawn
  BY <1>5, <1>t, EarlyDone DEF Spawn
<1>6. CASE SpawnFails \/ WaitFails
  <2>0. Return(Raw("Err", FALSE, FALSE)) /\ UNCHANGED <<term, child>>
    BY <1>6 DEF SpawnFails, WaitFails
  <2>1. ~term' /\ Accounted'
    BY <1>6, <2>0 DEF SpawnFails, WaitFails, Fails, Accounted
  <2>2. DoneInv'
    BY <2>0, <2>1, ErrDone, Zenon
  <2> QED
    BY <1>6, <1>t, <2>2 DEF SpawnFails, WaitFails, Return
<1>7. CASE Exited \/ TimedOut
  <2>1. DoneInv'
    BY <1>7, EarlyDone DEF Exited, TimedOut
  <2> QED
    BY <1>7, <1>t, <2>1 DEF Exited, TimedOut, Reap
<1>8. CASE graceful_kill
  <2>1. CASE pc' = "killing"
    BY <1>8, <1>t, <2>1, EarlyDone DEF graceful_kill, KillReturns, Return
  <2>2. CASE pc' # "killing"
    <3>1. DoneInv'
      BY <1>8, <2>2, TimedOutDone DEF graceful_kill, KillReturns, Reap, Accounted
    <3> QED
      BY <1>8, <1>t, <2>2, <3>1 DEF graceful_kill, KillReturns, Return, Reap
  <2> QED
    BY <2>1, <2>2
<1>9. CASE GracefulKillErrs
  <2>1. Return(Raw("TimedOut", FALSE, FALSE)) /\ term'
    BY <1>9 DEF GracefulKillErrs, KillReturns
  <2>2. Accounted'
    BY <1>9 DEF GracefulKillErrs, Fails, Accounted
  <2>3. DoneInv'
    BY <2>1, <2>2, TimedOutDone, Zenon
  <2> QED
    BY <1>9, <1>t, <2>3 DEF GracefulKillErrs, KillReturns, Return
<1>10. ASSUME NEW s \in Streams, ReadFails(s) PROVE SInv'
  <2>1. DoneInv'
    BY <1>10, EarlyDone DEF ReadFails
  <2> QED
    BY <1>10, <1>t, <2>1 DEF ReadFails
<1>11. ASSUME NEW s \in Streams, drain_pipe(s) PROVE SInv'
  <2>1. DoneInv'
    BY <1>11, EarlyDone DEF drain_pipe
  <2> QED
    BY <1>11, <1>t, <2>1 DEF drain_pipe
<1>12. CASE Decode
  <2>1. DoneInv'
    BY <1>12, DecodeDone
  <2> QED
    BY <1>12, <1>t, <2>1 DEF Decode, Return
<1>13. CASE UNCHANGED svars
  <2>1. DoneInv'
    BY <1>13 DEF svars, DoneInv, NoChildSurvives, DeadlineDecides,
                 EvidenceComplete, Piped
  <2> QED
    BY <1>13, <1>t, <2>1 DEF svars
<1> QED
  BY <1>1, <1>2, <1>3, <1>4, <1>5, <1>6, <1>7, <1>8, <1>9, <1>10, <1>11, <1>12, <1>13
  DEF Next, ChildStep, RunnerStep, CallFails

LEMMA SubprocessInvariant == Spec => []SInv
  BY InitSInv, NextSInv, PTL DEF Spec

-----------------------------------------------------------------------------
(* The properties                                                          *)

\* When run returns, its child is gone, unless a wait or the kill failed, and a
\* child left behind that way never gave a verdict (subprocess.rs:74-89, 97-115).
THEOREM ChildGoneUnlessCallFailed == Spec => []NoChildSurvives
<1>1. SInv => NoChildSurvives
  BY DEF SInv, DoneInv
<1> QED
  BY <1>1, SubprocessInvariant, PTL

\* A time-out is exactly an attempt whose child was sent SIGTERM
\* (subprocess.rs:97-115).
THEOREM DeadlineAlone == Spec => []DeadlineDecides
<1>1. SInv => DeadlineDecides
  BY DEF SInv, DoneInv
<1> QED
  BY <1>1, SubprocessInvariant, PTL

\* Every other verdict rests on the child's own status and on all its output,
\* but for a read that failed (subprocess.rs:126, 149-166, 186-191).
THEOREM EvidenceIsComplete == Spec => []EvidenceComplete
<1>1. SInv => EvidenceComplete
  BY DEF SInv, DoneInv
<1> QED
  BY <1>1, SubprocessInvariant, PTL

\* A child that has filled a pipe before its exit, in an attempt without a
\* deadline, is never concluded, unless the wait fails (subprocess.rs:181-189).
THEOREM FullPipeBlocksForever == Spec => FullPipeIsForever
<1>1. "wait" \in failed /\ [Next]_svars => ("wait" \in failed)'
  BY DEF Next, svars, ChildStep, ChildExit, ChildKilled, ChildWrite, Exit,
         ChildTerminated, DescendantEnds, RunnerStep, Spawn, Exited, TimedOut,
         graceful_kill, Decode, drain_pipe, SpawnFails, CallFails, WaitFails,
         GracefulKillErrs, ReadFails, Fails
<1>2. SInv /\ Blocked /\ [Next]_svars => Blocked' \/ ("wait" \in failed)'
  <2> SUFFICES ASSUME SInv, Blocked, [Next]_svars
               PROVE  Blocked' \/ ("wait" \in failed)'
    OBVIOUS
  <2>1. pc = "waiting" /\ child = "running" /\ ~job.deadline /\ ~term
    BY DEF Blocked, SInv, StageInv
  <2>2. PICK s \in Piped : written[s] = PipeCap /\ written[s] < job.out[s]
    BY DEF Blocked
  <2>3. s \in Streams /\ drained[s] = 0 /\ ~Room(s)
    BY <2>1, <2>2, SubprocessAssumption DEF Piped, Streams, SInv, UnreadInv, Room
  <2>4. written # job.out
    BY <2>2, SubprocessAssumption
  <2>5. ASSUME NEW u \in Streams, ChildWrite(u) PROVE Blocked'
    <3>1. u # s
      BY <2>3, <2>5 DEF ChildWrite
    <3>2. written'[s] = written[s]
      BY <2>3, <2>5, <3>1 DEF ChildWrite, SInv, STypeOK, Counts
    <3> QED
      BY <2>1, <2>2, <2>5, <3>2 DEF Blocked, ChildWrite, Piped
  <2>6. CASE DescendantEnds \/ UNCHANGED svars
    BY <2>6 DEF DescendantEnds, svars, Blocked, Piped
  <2>7. ~ChildExit /\ ~ChildKilled /\ ~ChildTerminated
    BY <2>1, <2>4 DEF ChildExit, ChildKilled, ChildTerminated
  <2>8. ~Spawn /\ ~SpawnFails /\ ~Exited /\ ~TimedOut /\ ~GracefulKillErrs
    BY <2>1 DEF Spawn, SpawnFails, Exited, TimedOut, GracefulKillErrs, Reap
  <2>9. /\ ~graceful_kill /\ ~Decode
        /\ \A u \in Streams : ~drain_pipe(u) /\ ~ReadFails(u)
    BY <2>1 DEF graceful_kill, Decode, drain_pipe, ReadFails, Reap
  <2>10. CASE WaitFails
    BY <2>10 DEF WaitFails, Fails
  <2> QED
    BY <2>5, <2>6, <2>7, <2>8, <2>9, <2>10 DEF Next, ChildStep, RunnerStep, CallFails
<1> QED
  BY <1>1, <1>2, SubprocessInvariant, PTL DEF Spec, FullPipeIsForever
=============================================================================
