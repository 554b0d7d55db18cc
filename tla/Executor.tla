------------------------------ MODULE Executor ------------------------------
(***************************************************************************)
(* The execution of a Schedule by the coordinator (orchestrator.rs):       *)
(* execute, run_parallel_phase, run_test and tally.                        *)
(*                                                                         *)
(* A parallel case is a tokio task of its own, stepping through            *)
(*                                                                         *)
(*   "spawned"     waits for a permit of the global semaphore (the cap)    *)
(*   "permitted"   holds it, waits for the permit of its serial group      *)
(*   "running"     holds both, a child process runs its current attempt    *)
(*   "attempted"   the runner returned, the attempt is still to be judged  *)
(*   "returned"    run_test is over (or unwinds), both permits are held    *)
(*   "ungrouped"   the group permit is dropped, the global one is held     *)
(*   "finished"    the task has ended, its result waits in the JoinSet     *)
(*   "joined"      the coordinator has counted it                          *)
(*                                                                         *)
(* An exclusive case is run by the coordinator itself and takes only       *)
(* "spawned", "running", "attempted" and "joined".  The runtime is         *)
(* multi-threaded, so steps of different tasks interleave freely.  The     *)
(* spawning loop has no await and a task not yet spawned cannot be told    *)
(* from one not yet polled: all tasks start "spawned".  Semaphores grant   *)
(* in any order, which includes tokio's first-come-first-served order.     *)
(***************************************************************************)
EXTENDS Schedule, Protocol

CONSTANTS
    Matcher,       \* the cases that declare retry_on_error
    EndingsOf,     \* case -> the ways its children may end
    Noisy,         \* cases whose children may write "panicked at" unpanicked
    MayPanic       \* cases about which writing to stderr may panic (eprintln!)

ASSUME ExecutorAssumption ==
    /\ Matcher \subseteq Cases
    /\ \A t \in Cases : EndingsOf[t] \in SUBSET Endings /\ EndingsOf[t] # {}
    /\ Noisy \subseteq Cases
    /\ MayPanic \subseteq Cases

VARIABLES
    phase,         \* "parallel", "exclusive", "done", or "crashed"
    pc,            \* case -> where its task stands
    attempt,       \* case -> run_test's loop counter, 0 before the first one
    child,         \* case -> how its current child ends, "none" without one
    raw,           \* case -> what the runner returned for the last attempt
    reported,      \* case -> the last event its reporters were told
    result,        \* case -> what the task left in the JoinSet
    permits,       \* free permits of the global semaphore
    groupPermits,  \* group -> free permits of its semaphore
    passed,        \* the coordinator's tallies
    skipped

vars == <<phase, pc, attempt, child, raw, reported, result, permits,
          groupPermits, passed, skipped>>

PCs     == {"spawned", "permitted", "running", "attempted", "returned",
            "ungrouped", "finished", "joined"}
Events  == {"none", "started", "retrying", "Passed", "Skipped", "Failed"}
Results == {"none", "Passed", "Skipped", "Failed", "JoinError"}
NoRaw   == Raw("Failed", FALSE, FALSE)

TypeOK ==
    /\ phase \in {"parallel", "exclusive", "done", "crashed"}
    /\ pc \in [Cases -> PCs]
    /\ attempt \in [Cases -> Nat]
    /\ child \in [Cases -> Endings \cup {"none", "timeout"}]
    /\ raw \in [Cases -> RawOutcomes]
    /\ reported \in [Cases -> Events]
    /\ result \in [Cases -> Results]
    /\ permits \in Nat
    /\ groupPermits \in [Groups -> Nat]
    /\ passed \in Nat
    /\ skipped \in Nat

Init ==
    /\ phase = "parallel"
    /\ pc = [t \in Cases |-> "spawned"]
    /\ attempt = [t \in Cases |-> 0]
    /\ child = [t \in Cases |-> "none"]
    /\ raw = [t \in Cases |-> NoRaw]
    /\ reported = [t \in Cases |-> "none"]
    /\ result = [t \in Cases |-> "none"]
    /\ permits = Cap
    /\ groupPermits = [g \in Groups |-> 1]
    /\ passed = 0
    /\ skipped = 0

-----------------------------------------------------------------------------
(* Who holds what                                                          *)

InRunTest == {t \in Cases : pc[t] \in {"running", "attempted"}}

PermitHolders ==
    {t \in Parallel : pc[t] \in {"permitted", "running", "attempted",
                                 "returned", "ungrouped"}}

GroupHolders(g) ==
    {t \in Parallel : /\ GroupOf[t] = g
                      /\ pc[t] \in {"running", "attempted", "returned"}}

-----------------------------------------------------------------------------
(* A task on its way into run_test                                         *)

\* A grant without a free permit, for the mutation runs.
AcquirePermitUnchecked(t) ==
    /\ phase = "parallel"
    /\ t \in Parallel
    /\ pc[t] = "spawned"
    /\ permits' = permits - 1
    /\ pc' = [pc EXCEPT ![t] = "permitted"]
    /\ UNCHANGED <<phase, attempt, child, raw, reported, result,
                   groupPermits, passed, skipped>>

AcquirePermit(t) ==
    /\ phase = "parallel"
    /\ t \in Parallel
    /\ pc[t] = "spawned"
    /\ permits > 0
    /\ permits' = permits - 1
    /\ pc' = [pc EXCEPT ![t] = "permitted"]
    /\ UNCHANGED <<phase, attempt, child, raw, reported, result,
                   groupPermits, passed, skipped>>

\* runner.run for the next attempt of t: a fresh child, whatever its end.
SpawnAttempt(t, event) ==
    /\ pc' = [pc EXCEPT ![t] = "running"]
    /\ attempt' = [attempt EXCEPT ![t] = @ + 1]
    /\ \E e \in EndingsOf[t] : child' = [child EXCEPT ![t] = e]
    /\ reported' = [reported EXCEPT ![t] = event]

\* `let _ = lock.acquire()`: the group permit is gone as soon as it is granted.
AcquireGroupPermitUnbound(t) ==
    /\ phase = "parallel"
    /\ t \in Parallel
    /\ pc[t] = "permitted"
    /\ GroupOf[t] \in Groups => groupPermits[GroupOf[t]] > 0
    /\ SpawnAttempt(t, "started")
    /\ UNCHANGED <<phase, raw, result, permits, groupPermits, passed, skipped>>

AcquireGroupPermit(t) ==
    /\ phase = "parallel"
    /\ t \in Parallel
    /\ pc[t] = "permitted"
    /\ \/ /\ GroupOf[t] = NoGroup
          /\ UNCHANGED groupPermits
       \/ /\ GroupOf[t] \in Groups
          /\ groupPermits[GroupOf[t]] > 0
          /\ groupPermits' = [groupPermits EXCEPT ![GroupOf[t]] = @ - 1]
    /\ SpawnAttempt(t, "started")
    /\ UNCHANGED <<phase, raw, result, permits, passed, skipped>>

\* The coordinator takes the next exclusive case; their order is the shuffle's.
StartExclusive(t) ==
    /\ phase = "exclusive"
    /\ t \in Serial
    /\ pc[t] = "spawned"
    /\ \A u \in Serial : pc[u] \in {"spawned", "joined"}
    /\ SpawnAttempt(t, "started")
    /\ UNCHANGED <<phase, raw, result, permits, groupPermits, passed, skipped>>

-----------------------------------------------------------------------------
(* One attempt                                                             *)

ChildEnds(t) ==
    /\ phase \in {"parallel", "exclusive"}
    /\ pc[t] = "running"
    /\ child[t] # "hang"
    /\ \E noise \in BOOLEAN :
         /\ noise => t \in Noisy
         /\ raw' = [raw EXCEPT ![t] =
                      RunnerResult(child[t], t \in Matcher, NoCapture, noise)]
    /\ pc' = [pc EXCEPT ![t] = "attempted"]
    /\ UNCHANGED <<phase, attempt, child, reported, result, permits,
                   groupPermits, passed, skipped>>

\* wait_or_timeout: the deadline may win the race against any child that was
\* started, also against one that was about to end.
ChildTimesOut(t) ==
    /\ phase \in {"parallel", "exclusive"}
    /\ pc[t] = "running"
    /\ HasDeadline(t)
    /\ child[t] # "spawn_err"
    /\ raw' = [raw EXCEPT ![t] = Raw("TimedOut", FALSE, FALSE)]
    /\ child' = [child EXCEPT ![t] = "timeout"]
    /\ pc' = [pc EXCEPT ![t] = "attempted"]
    /\ UNCHANGED <<phase, attempt, reported, result, permits, groupPermits,
                   passed, skipped>>

-----------------------------------------------------------------------------
(* The judgement of the attempt, and the way out of run_test               *)

tally(outcome) ==
    /\ passed' = IF outcome = "Passed" THEN passed + 1 ELSE passed
    /\ skipped' = IF outcome = "Skipped" THEN skipped + 1 ELSE skipped

\* The exclusive arm of execute without its tally.
ReturnUntallied(t, outcome) ==
    /\ result' = [result EXCEPT ![t] = outcome]
    /\ pc' = [pc EXCEPT ![t] = IF t \in Serial THEN "joined" ELSE "returned"]
    /\ UNCHANGED <<phase, attempt, child, raw, permits, groupPermits, passed, skipped>>

\* run_test returns outcome: to the JoinSet task, which still holds its
\* permits, or to the coordinator, which tallies at once.
Return(t, outcome) ==
    /\ result' = [result EXCEPT ![t] = outcome]
    /\ IF t \in Serial
       THEN /\ pc' = [pc EXCEPT ![t] = "joined"]
            /\ tally(outcome)
       ELSE /\ pc' = [pc EXCEPT ![t] = "returned"]
            /\ UNCHANGED <<passed, skipped>>
    /\ UNCHANGED <<phase, attempt, child, raw, permits, groupPermits>>

Judged(t) == plan(raw[t], t \in Matcher)

\* An off-by-one in the loop's range: 0..=max_attempts.
IsLastTooLate(t) == attempt[t] > MaxAttempts(t)

IsLast(t) == attempt[t] = MaxAttempts(t)

\* test_passed, test_skipped: terminal whatever the attempt.
ReportSuccess(t) ==
    /\ phase \in {"parallel", "exclusive"}
    /\ pc[t] = "attempted"
    /\ Judged(t).plan \in {"Passed", "Skipped"}
    /\ reported' = [reported EXCEPT ![t] = Judged(t).plan]
    /\ Return(t, Judged(t).plan)

\* test_failed: no attempt is left, or the failure may not be retried.
ReportFailure(t) ==
    /\ phase \in {"parallel", "exclusive"}
    /\ pc[t] = "attempted"
    /\ Judged(t).plan = "Failed"
    /\ IsLast(t) \/ ~Judged(t).retryable
    /\ reported' = [reported EXCEPT ![t] = "Failed"]
    /\ Return(t, "Failed")

\* A loop that leaves the permit behind between two attempts.
RetryUnpermitted(t) ==
    /\ phase \in {"parallel", "exclusive"}
    /\ pc[t] = "attempted"
    /\ Judged(t).plan = "Failed"
    /\ ~IsLast(t)
    /\ Judged(t).retryable
    /\ SpawnAttempt(t, "retrying")
    /\ permits' = permits + 1
    /\ UNCHANGED <<phase, raw, result, groupPermits, passed, skipped>>

\* test_retrying, and round the loop; the permits are kept.
Retry(t) ==
    /\ phase \in {"parallel", "exclusive"}
    /\ pc[t] = "attempted"
    /\ Judged(t).plan = "Failed"
    /\ ~IsLast(t)
    /\ Judged(t).retryable
    /\ SpawnAttempt(t, "retrying")
    /\ UNCHANGED <<phase, raw, result, permits, groupPermits, passed, skipped>>

\* A panic that is not unwound through the permit guards.
ReporterPanicsLeaking(t) ==
    /\ phase \in {"parallel", "exclusive"}
    /\ pc[t] = "attempted"
    /\ t \in MayPanic
    /\ pc' = [pc EXCEPT ![t] = "finished"]
    /\ result' = [result EXCEPT ![t] = "JoinError"]
    /\ UNCHANGED <<phase, attempt, child, raw, reported, permits, groupPermits,
                   passed, skipped>>

\* A reporter callback panics.  In a task the panic unwinds through the permit
\* guards into the JoinSet; in the coordinator it takes the process down.
ReporterPanics(t) ==
    /\ phase \in {"parallel", "exclusive"}
    /\ pc[t] = "attempted"
    /\ t \in MayPanic
    /\ pc' = [pc EXCEPT ![t] = "returned"]
    /\ IF t \in Serial
       THEN /\ phase' = "crashed"
            /\ UNCHANGED result
       ELSE /\ result' = [result EXCEPT ![t] = "JoinError"]
            /\ UNCHANGED phase
    /\ UNCHANGED <<attempt, child, raw, reported, permits, groupPermits,
                   passed, skipped>>

-----------------------------------------------------------------------------
(* The permits are dropped in the reverse order of their acquisition       *)

DropGroupPermit(t) ==
    /\ phase = "parallel"
    /\ t \in Parallel
    /\ pc[t] = "returned"
    /\ pc' = [pc EXCEPT ![t] = "ungrouped"]
    /\ groupPermits' = IF GroupOf[t] = NoGroup THEN groupPermits
                       ELSE [groupPermits EXCEPT ![GroupOf[t]] = @ + 1]
    /\ UNCHANGED <<phase, attempt, child, raw, reported, result, permits,
                   passed, skipped>>

DropPermit(t) ==
    /\ phase = "parallel"
    /\ t \in Parallel
    /\ pc[t] = "ungrouped"
    /\ pc' = [pc EXCEPT ![t] = "finished"]
    /\ permits' = permits + 1
    /\ UNCHANGED <<phase, attempt, child, raw, reported, result,
                   groupPermits, passed, skipped>>

-----------------------------------------------------------------------------
(* The coordinator                                                         *)

\* join_next hands over any finished task; a join error is only printed.
JoinNext(t) ==
    /\ phase = "parallel"
    /\ t \in Parallel
    /\ pc[t] = "finished"
    /\ pc' = [pc EXCEPT ![t] = "joined"]
    /\ tally(result[t])
    /\ UNCHANGED <<phase, attempt, child, raw, reported, result, permits,
                   groupPermits>>

\* Printing the join error panics in the coordinator: block_on unwinds, the
\* JoinSet is dropped and aborts what is left, the process dies.
JoinErrorPanics(t) ==
    /\ phase = "parallel"
    /\ t \in Parallel \cap MayPanic
    /\ pc[t] = "finished"
    /\ result[t] = "JoinError"
    /\ phase' = "crashed"
    /\ UNCHANGED <<pc, attempt, child, raw, reported, result, permits,
                   groupPermits, passed, skipped>>

\* The exclusive phase begins while parallel cases are still being run.
EndParallelPhaseEarly ==
    /\ phase = "parallel"
    /\ \A t \in Parallel : pc[t] # "spawned"
    /\ phase' = "exclusive"
    /\ UNCHANGED <<pc, attempt, child, raw, reported, result, permits,
                   groupPermits, passed, skipped>>

EndParallelPhase ==
    /\ phase = "parallel"
    /\ \A t \in Parallel : pc[t] = "joined"
    /\ phase' = "exclusive"
    /\ UNCHANGED <<pc, attempt, child, raw, reported, result, permits,
                   groupPermits, passed, skipped>>

EndExclusivePhase ==
    /\ phase = "exclusive"
    /\ \A t \in Serial : pc[t] = "joined"
    /\ phase' = "done"
    /\ UNCHANGED <<pc, attempt, child, raw, reported, result, permits,
                   groupPermits, passed, skipped>>

\* execute has returned, or the process has died: nothing happens any more.
Over == phase \in {"done", "crashed"} /\ UNCHANGED vars

TaskStep(t) ==
    \/ AcquirePermit(t)
    \/ AcquireGroupPermit(t)
    \/ ChildEnds(t)
    \/ ChildTimesOut(t)
    \/ ReportSuccess(t)
    \/ ReportFailure(t)
    \/ Retry(t)
    \/ ReporterPanics(t)
    \/ DropGroupPermit(t)
    \/ DropPermit(t)

CoordinatorStep ==
    \/ \E t \in Cases : JoinNext(t) \/ JoinErrorPanics(t) \/ StartExclusive(t)
    \/ EndParallelPhase
    \/ EndExclusivePhase

Next == (\E t \in Cases : TaskStep(t)) \/ CoordinatorStep \/ Over

\* The runtime polls every woken task and fires every elapsed timer, and a
\* child that is to end does end.
Fairness ==
    /\ \A t \in Cases : WF_vars(TaskStep(t))
    /\ WF_vars(CoordinatorStep)

Spec == Init /\ [][Next]_vars /\ Fairness

-----------------------------------------------------------------------------
(* Safety                                                                  *)

\* No more parallel cases are inside run_test than the cap admits, whatever
\* retries, panics and skips have done to the permits (orchestrator.rs:392).
CapRespected == Cardinality(InRunTest \cap Parallel) <= Cap

\* Two cases of one serial group are never inside run_test together, and a
\* bare serial case shares it with no other case (orchestrator.rs:381-383,
\* schedule.rs:93-94, rigtest/README.md:113-114).
MutualExclusion ==
    \A t, u \in InRunTest :
        t # u => /\ t \notin Serial
                 /\ GroupOf[t] = GroupOf[u] => GroupOf[t] = NoGroup

\* Whichever way the tasks ended, unwinding included, every permit is back
\* when the parallel phase is over.
PermitsRestored ==
    phase \in {"exclusive", "done"} =>
        /\ permits = Cap
        /\ \A g \in Groups : groupPermits[g] = 1

\* The budget is neither exceeded nor cut short: a case only fails for good
\* before its last attempt when its matcher rules a retry out, or when the
\* text on its stderr passes for a panic (orchestrator.rs:296-334).
RetryBudget ==
    \A t \in Cases :
        /\ attempt[t] <= EffectiveRetries(t) + 1
        /\ reported[t] = "Failed" =>
             \/ attempt[t] = MaxAttempts(t)
             \/ /\ t \in Matcher
                /\ \/ child[t] \in {"err_other", "panic", "timeout", "spawn_err"}
                   \/ raw[t].panic_text

\* When the coordinator publishes them, its tallies count exactly the cases
\* whose reporters were told so, and total - passed - skipped, the number of
\* failures, is the number of all others: no case is lost or counted twice,
\* also not one whose task panicked (orchestrator.rs:373-379, 421-428, 555).
TalliesAgree ==
    phase = "done" =>
        /\ passed = Cardinality({t \in Cases : reported[t] = "Passed"})
        /\ skipped = Cardinality({t \in Cases : reported[t] = "Skipped"})

-----------------------------------------------------------------------------
(* Action properties and refinement                                        *)

\* Under a matcher nothing but a failure of the test's own making is retried:
\* not an error the pattern does not match, not a panic, a time-out or a child
\* that could not be run (retry.rs:33-42).  A child killed by a signal is not
\* in this list: see KillsNotRetried.
RetryPolicy ==
    [][\A t \in Matcher :
         attempt[t] > 0 /\ attempt'[t] > attempt[t] =>
           child[t] \notin {"ok", "skip", "err_other", "panic", "timeout", "spawn_err"}]_vars

Verdict(t) ==
    CASE result[t] = "none"      -> "Pending"
      [] result[t] = "JoinError" -> "Failed"
      [] OTHER                   -> result[t]

Contract == INSTANCE SuiteContract WITH
    running <- InRunTest,
    verdict <- [t \in Cases |-> Verdict(t)],
    summary <- IF phase = "done" THEN <<passed, skipped>> ELSE <<>>,
    alive   <- phase # "crashed"

\* The executor keeps the contract of SuiteContract.
KeepsContract == Contract!CSpec

-----------------------------------------------------------------------------
(* Liveness                                                                *)

\* The suite comes to its end although children may hang, provided that every
\* case one of whose children may hang has a deadline.
EventuallyOver == <>(phase \in {"done", "crashed"})

-----------------------------------------------------------------------------
(* Statements of the documentation that the code does not keep             *)

\* rigtest/README.md:126-127: "Panics, timeouts, and subprocess kills are
\* never retried when a matcher is in force."
KillsNotRetried ==
    [][\A t \in Matcher :
         attempt[t] > 0 /\ attempt'[t] > attempt[t] => child[t] # "signal"]_vars

PanicsNotRetried ==
    [][\A t \in Matcher :
         attempt[t] > 0 /\ attempt'[t] > attempt[t] => child[t] # "panic"]_vars

\* rigtest/README.md:113-114: "tests sharing a group name never overlap, while
\* different groups (and ungrouped tests) still run in parallel".  A case that
\* waits for the case of its own group that runs, and does not run itself, takes
\* no job from an ungrouped case or from one of another group that is idle.
WaitsForGroup(u) ==
    pc[u] = "permitted" /\ GroupOf[u] \in Groups /\ groupPermits[GroupOf[u]] = 0

OthersStayConcurrent ==
    \A u, t \in Parallel :
        /\ WaitsForGroup(u)
        /\ pc[t] = "spawned"
        /\ GroupOf[t] # GroupOf[u]
        /\ GroupOf[t] \in Groups => groupPermits[GroupOf[t]] = 1
        => permits > 0
=============================================================================
