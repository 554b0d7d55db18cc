----------------------------- MODULE Subprocess -----------------------------
(***************************************************************************)
(* One call of SubprocessRunner::run (subprocess.rs): the coordinator's    *)
(* future, the child process, its pipes, and a process the child may leave *)
(* behind.  The future waits for the child and only then reads the pipes,  *)
(* so a child can block on a pipe nobody reads; past the deadline it sends *)
(* SIGTERM, waits for the grace period, and sends SIGKILL.                 *)
(*                                                                         *)
(* Every call on the child or on a pipe may fail.  Before the deadline a   *)
(* failing wait is the error run returns; past it, and in the drain, the   *)
(* code drops the error and goes on as if the call had done its work.      *)
(*                                                                         *)
(* Output is counted in chunks; the panic text, when there is one, is the  *)
(* last chunk of stderr.  Unix only: without SIGTERM graceful_kill goes    *)
(* straight to the hard kill.  The module ends with the call: what a child *)
(* does that the call has left behind is not followed.                     *)
(***************************************************************************)
EXTENDS Protocol

CONSTANTS
    PipeCap,    \* chunks a pipe holds before a writer blocks
    MaxOut      \* bound: chunks a child writes to one stream

ASSUME SubprocessAssumption ==
    /\ PipeCap \in Nat \ {0}     \* a pipe takes at least one write
    /\ MaxOut \in Nat

Streams == {"stdout", "stderr"}
Codes == {0, 1, SKIP_EXIT_CODE, FAIL_NOT_RETRYABLE_EXIT_CODE, NoExitCode}
NoOutcome == Raw("Err", FALSE, TRUE)     \* not a value run returns

\* What the caller asks for (no_capture, a deadline) and how the child is
\* going to behave.
Jobs == [no_capture : BOOLEAN,
         deadline   : BOOLEAN,
         out        : [Streams -> 0 .. MaxOut],
         hangs      : BOOLEAN,                  \* never exits by itself
         code       : Codes,                    \* how it exits otherwise
         panics     : BOOLEAN,                  \* its stderr has the panic text
         on_term    : {"dies", "exits_zero", "ignores"},
         daemon     : BOOLEAN]                  \* it leaves a process behind

VARIABLES
    job,        \* the call, fixed from the start
    pc,         \* the future: spawn, waiting, grace, killing, draining, done
    child,      \* none, running, exited (a zombie), reaped
    code,       \* the child's exit status once it has exited
    written,    \* stream -> chunks written by the child
    drained,    \* stream -> chunks read by drain_pipe
    term,       \* SIGTERM was sent
    descendant, \* a process the child left holds the write ends of the pipes
    failed,     \* the calls of the future that have failed
    outcome     \* what run returned

svars == <<job, pc, child, code, written, drained, term, descendant, failed, outcome>>

Calls == {"wait", "kill"} \cup Streams    \* the last ones by read_to_end

Piped == IF job.no_capture THEN {"stderr"} ELSE Streams

Init ==
    /\ job \in {j \in Jobs : j.panics => j.out["stderr"] > 0 /\ j.code \notin {0, 2}}
    /\ pc = "spawn"
    /\ child = "none"
    /\ code = 0
    /\ written = [s \in Streams |-> 0]
    /\ drained = [s \in Streams |-> 0]
    /\ term = FALSE
    /\ descendant = FALSE
    /\ failed = {}
    /\ outcome = NoOutcome

-----------------------------------------------------------------------------
(* The child                                                               *)

Running == child = "running" /\ pc # "done"

Room(s) == s \in Piped => written[s] - drained[s] < PipeCap

ChildWrite(s) ==
    /\ Running
    /\ written[s] < job.out[s]
    /\ Room(s)
    /\ written' = [written EXCEPT ![s] = @ + 1]
    /\ UNCHANGED <<job, pc, child, code, drained, term, descendant, failed, outcome>>

Exit(c) ==
    /\ Running
    /\ child' = "exited"
    /\ code' = c
    /\ UNCHANGED <<job, pc, written, drained, term, descendant, failed, outcome>>

ChildExit ==
    /\ ~job.hangs
    /\ written = job.out
    /\ Exit(job.code)

\* A child that does not ignore SIGTERM; a handler may still come too late.
ChildTerminated ==
    /\ term
    /\ \/ job.on_term = "dies" /\ Exit(NoExitCode)
       \/ job.on_term = "exits_zero" /\ Exit(0)

\* SIGKILL, which start_kill sent on entering "killing".
ChildKilled == pc = "killing" /\ Exit(NoExitCode)

DescendantEnds ==
    /\ descendant
    /\ descendant' = FALSE
    /\ UNCHANGED <<job, pc, child, code, written, drained, term, failed, outcome>>

-----------------------------------------------------------------------------
(* The coordinator's future                                                *)

Spawn ==
    /\ pc = "spawn"
    /\ child' = "running"
    /\ descendant' = job.daemon
    /\ pc' = "waiting"
    /\ UNCHANGED <<job, code, written, drained, term, failed, outcome>>

Return(o) == pc' = "done" /\ outcome' = o

SpawnFails ==
    /\ pc = "spawn"
    /\ Return(Raw("Err", FALSE, FALSE))
    /\ UNCHANGED <<job, child, code, written, drained, term, descendant, failed>>

Fails(call) == failed' = failed \cup {call}

Reap == child = "exited" /\ child' = "reaped"

\* wait_or_timeout, the branch of the select in which the child exits first
Exited ==
    /\ pc = "waiting"
    /\ Reap
    /\ pc' = "draining"
    /\ UNCHANGED <<job, code, written, drained, term, descendant, failed, outcome>>

\* ... and the one in which the deadline passes first, whatever the child has
\* done meanwhile.
TimedOut ==
    /\ pc = "waiting"
    /\ job.deadline
    /\ pc' = "grace"
    /\ term' = TRUE
    /\ UNCHANGED <<job, child, code, written, drained, descendant, failed, outcome>>

\* The wait itself fails, whatever the child is doing: nobody waits for it again.
WaitFails ==
    /\ pc = "waiting"
    /\ Fails("wait")
    /\ Return(Raw("Err", FALSE, FALSE))
    /\ UNCHANGED <<job, child, code, written, drained, term, descendant>>

KillReturns ==
    /\ Return(Raw("TimedOut", FALSE, FALSE))
    /\ UNCHANGED <<job, code, written, drained, term, descendant>>

\* A grace period nobody ends with a kill, for the mutation runs.
gracefulKillWithoutSigkill ==
    /\ pc = "grace"
    /\ \/ Reap
       \/ UNCHANGED child
    /\ KillReturns
    /\ UNCHANGED failed

\* A handler that trusts the exit status of a child it has told to stop.
killTrustingTheStatus ==
    /\ pc \in {"grace", "killing"}
    /\ Reap
    /\ Return(decode_outcome(code, FALSE))
    /\ UNCHANGED <<job, code, written, drained, term, descendant, failed>>

\* A handler that waits for SIGTERM to be obeyed.
killWithPatience == pc = "grace" /\ Reap /\ KillReturns /\ UNCHANGED failed

\* An exit in the grace period, the end of the period, and the reaping of the
\* child after SIGKILL.  The pipes are dropped unread.
graceful_kill ==
    \/ /\ pc \in {"grace", "killing"}
       /\ Reap
       /\ KillReturns
       /\ UNCHANGED failed
    \/ /\ pc = "grace"
       /\ pc' = "killing"
       /\ UNCHANGED <<job, child, code, written, drained, term, descendant, failed, outcome>>

\* The wait of the grace period counts as an exit when it fails, and SIGKILL is
\* not sent; the kill, or the wait that follows it, fails unnoticed.
GracefulKillErrs ==
    /\ \/ pc \in {"grace", "killing"} /\ Fails("wait")
       \/ pc = "grace" /\ Fails("kill")
    /\ KillReturns
    /\ UNCHANGED child

\* A reader that is also active while the child runs, for the mutation runs.
drainAnytime(s) ==
    /\ pc \in {"waiting", "draining"}
    /\ s \in Piped
    /\ drained[s] < written[s]
    /\ drained' = [drained EXCEPT ![s] = @ + 1]
    /\ UNCHANGED <<job, pc, child, code, written, term, descendant, failed, outcome>>

drain_pipe(s) ==
    /\ pc = "draining"
    /\ s \in Piped \ failed
    /\ drained[s] < written[s]
    /\ drained' = [drained EXCEPT ![s] = @ + 1]
    /\ UNCHANGED <<job, pc, child, code, written, term, descendant, failed, outcome>>

\* A failing read ends the reading of that pipe; what was read is kept.
ReadFails(s) ==
    /\ pc = "draining"
    /\ s \in Piped \ failed
    /\ Fails(s)
    /\ UNCHANGED <<job, pc, child, code, written, drained, term, descendant, outcome>>

\* A read that stops at the first empty pipe, for the mutation runs.
eofAtOnce(s) == pc = "draining"

\* read_to_end is over: it failed, or it has met the end of the file, when the
\* pipe is empty and nobody holds its write end any more.
EndOfFile(s) == s \in failed \/ (~descendant /\ drained[s] = written[s])

\* The panic text reaches the classification only with all of stderr.
PanicText == job.panics /\ drained["stderr"] = job.out["stderr"]

Decode ==
    /\ pc = "draining"
    /\ \A s \in Piped : EndOfFile(s)
    /\ Return(IF job.no_capture THEN spawn_no_capture(code, PanicText)
                                ELSE decode_outcome(code, PanicText))
    /\ UNCHANGED <<job, child, code, written, drained, term, descendant, failed>>

-----------------------------------------------------------------------------
ChildStep == ChildExit \/ ChildKilled \/ \E s \in Streams : ChildWrite(s)

RunnerStep ==
    \/ Spawn \/ Exited \/ TimedOut \/ graceful_kill \/ Decode
    \/ \E s \in Streams : drain_pipe(s)

CallFails == WaitFails \/ GracefulKillErrs \/ \E s \in Streams : ReadFails(s)

Next ==
    \/ ChildStep \/ ChildTerminated \/ DescendantEnds
    \/ RunnerStep \/ SpawnFails \/ CallFails

\* The operating system schedules the child, the timers fire, and the runtime
\* polls the future.  A descendant owes nobody its end, and no call its failure.
Spec == Init /\ [][Next]_svars /\ WF_svars(ChildStep) /\ WF_svars(RunnerStep)

-----------------------------------------------------------------------------
(* Properties                                                              *)

Counts == [Streams -> 0 .. MaxOut]

STypeOK ==
    /\ job \in Jobs
    /\ pc \in {"spawn", "waiting", "grace", "killing", "draining", "done"}
    /\ child \in {"none", "running", "exited", "reaped"}
    /\ code \in Codes
    /\ written \in Counts /\ drained \in Counts
    /\ term \in BOOLEAN /\ descendant \in BOOLEAN
    /\ failed \subseteq Calls
    /\ outcome \in RawOutcomes

\* When run returns, a child it started has been reaped, whatever the child
\* does with SIGTERM: an attempt leaves no test running beside the next one.
\* The exception is what the code makes of failing calls: a failing wait or kill
\* may leave the child behind, running or a zombie, but only with an error or a
\* time-out for an outcome, never with a verdict (subprocess.rs:74-89, 97-115).
NoChildSurvives ==
    pc = "done" /\ child \notin {"none", "reaped"} =>
        /\ failed \cap {"wait", "kill"} # {}
        /\ outcome.status \in {"Err", "TimedOut"}

\* The deadline decides alone: a child that was sent SIGTERM is a time-out,
\* also when it then exits with 0 in the grace period, and no other child is
\* (wait_or_timeout, subprocess.rs:97-115).
DeadlineDecides == pc = "done" => (term <=> outcome.status = "TimedOut")

\* A verdict that is not a time-out or an error was read off the child's own
\* exit status and everything it wrote to a pipe: a panic text in the last
\* chunk of stderr is never lost to the retry policy, except without capture,
\* where the policy is given no text at all, and where the read of stderr
\* failed and nobody was told (subprocess.rs:126, 149-166, 186-191).
EvidenceComplete ==
    pc = "done" /\ outcome.status \in {"Passed", "Skipped", "Failed"} =>
        /\ \A s \in Piped \ failed : drained[s] = job.out[s]
        /\ \/ outcome = decode_outcome(job.code, job.panics /\ ~job.no_capture)
           \/ "stderr" \in failed /\ outcome = decode_outcome(job.code, FALSE)

\* A child that has filled a pipe, and no deadline.
Blocked ==
    /\ pc = "waiting" /\ child = "running" /\ ~job.deadline
    /\ \E s \in Piped : written[s] = PipeCap /\ written[s] < job.out[s]

\* The pipes are read only after the child has exited, so a child that fills
\* one of them without a deadline is never concluded, and keeps its permit for
\* ever, unless the wait itself fails (subprocess.rs:181-189).
FullPipeIsForever == [](Blocked => [](Blocked \/ "wait" \in failed))

\* Every call returns if it has a deadline or a child that exits and whose
\* piped output fits the pipes, unless a process the child left behind holds a
\* pipe open: the drain has no deadline (subprocess.rs:126).
Fits == ~job.hangs /\ \A s \in Piped : job.out[s] <= PipeCap
Returns ==
    (job.deadline \/ Fits) => <>(pc = "done") \/ <>[]descendant
=============================================================================
