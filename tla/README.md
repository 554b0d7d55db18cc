# cargo-rigtest in TLA+

A model of [cargo-rigtest](https://github.com/anthonyoteri/cargo-rigtest), an
acceptance-test runner for Rust: what it does with processes, permits, retries
and results, model-checked with TLC on small suites and, where it matters most,
proved with TLAPS for every suite. Paths below are relative to `src/`.

## The system

`cargo rigtest run` (crate `cargo-rigtest`) builds the test binaries and runs
one after the other. Each binary (crate `rigtest`) is a **coordinator**: it
probes the environment, runs the global setup, plans a schedule, and runs every
selected test case in a **child process** of its own: the same executable with
`--run-single`. The child's exit code and its standard error are all the
coordinator learns about it. Results go to reporters, a JUnit part file among
them, which the CLI aggregates at the end.

| Component | State | Operations | Interacts by |
|---|---|---|---|
| Executor (`rigtest/src/orchestrator.rs` 264-434) | tasks in a `JoinSet`, the global semaphore, one semaphore per serial group, two tallies | `execute`, `run_parallel_phase`, `run_test`, `tally` | semaphores between tasks; calls of the runner and the reporter; `join_next` |
| Schedule (`schedule.rs`) | none (a value) | `Schedule::plan`, `PlannedCase::resolve`, `effective_timeout` | consumed by the executor |
| Wire protocol, retry policy (`protocol.rs`, `retry.rs`, `runner.rs`) | none | `decode_outcome`, `plan`, `classify_failed`; `run_single` in the child | exit code and stderr |
| Subprocess runner (`subprocess.rs`) | the child, its pipes, its deadline | `run`, `wait_or_timeout`, `graceful_kill`, `drain_pipe` | signals, pipes, timers |
| Coordinator lifecycle (`orchestrator.rs` 43-93, 486-565; `lib.rs` 539-577) | the position in the run, the setup's data | `run`, the preflight gates, `run_main` | all of the above; exit code |
| Reporters (`reporter.rs`) | spinners, retry counts, flaky tally | the events of `TestEventReporter`, `finish`; fan-out | called by tasks of many threads under mutexes |
| JUnit reporter (`junit.rs`) | `in_flight`, `finalized`, `preflight_cases` | the same events, `build_report`, `write` | a file read by the CLI |
| Preflight (`preflight.rs`, `preflight_runner.rs`) | probes and their results | `run_preflight`, `disambiguate_names`, `run_probe` | concurrent futures; verdict to the coordinator |
| Test context (`context.rs`) | a client cell, a map of sessions | `client`, `ssh`, `setup`, `teardown` | within one child |
| State handoff (`state.rs`) | an environment variable | `capture`, `load` | coordinator to child |
| Registry, filters (`registry.rs`, `orchestrator.rs` 226-264) | link-time slices | `apply_filter`, `apply_tag_filter`, lookup by name | read only |
| Macros (`rigtest-macros`) | none at run time | the generated wrapper: fixtures and the `retry_on_error` match | inside the child |
| CLI (`cargo-rigtest/src/main.rs`) | the last non-zero exit code | `discover_targets`, `spawn_target`, `run` | child processes |
| JUnit aggregation (`cargo-rigtest/src/junit.rs`) | the parts directory, the final document | `prepare`, `finalize`, `aggregate`, `write_aggregate` | files |

What is hard here, and what makes each part correct:

* **Executor**: tasks interleave on many threads, nest two semaphores, and keep
  both across retries and time-outs, and a panic unwinds through both. Right
  means: the cap and the exclusions hold, every permit comes back, retries stay
  within budget and policy, every case is counted exactly once, and the suite
  ends.
* **Protocol and policy**: four ways to fail are squeezed through an exit code
  and a text search. Right means: what the documentation excludes from a retry
  is recognised behind the wire.
* **Subprocess runner**: deadline against exit, SIGTERM against grace period,
  pipes against waiting. Right means: each attempt gets one outcome, no child
  outlives its kill, and no wait is left without an end.
* **Lifecycle and CLI**: each step may fail and the later ones must still
  happen, or must not. Right means: setup and teardown are paired as
  documented, and the exit code and the JUnit document agree with what ran.
* **Reporters**: shared maps, updated from many threads, keyed by names. Right
  means: every case is reported once with its own attempts, and panics of one
  reporter lose nothing for another.
* **Preflight**: positions pair concurrent results with names. Right means:
  unique names, a verdict that matches the results.
* **Fixtures and lookup**: scopes that are left by `?`, names that may collide.
  Right means: what was set up is torn down, what is selected is what runs.

`PROJECT.json` lists the hazards line by line, with the properties that cover
each, or the reason why none does.

## Modules

| Module | What it is |
|---|---|
| `Protocol` | One attempt's way from the test function to the retry decision: what the macro's wrapper and `run_single` make of it, the exit code, `decode_outcome`, `plan`. Pure operators. |
| `Schedule` | `Schedule::plan` as pure operators over the suite's constants: the cap, the parallel cases, the groups, attempts and deadlines. |
| `Executor` | The state machine of the executor; EXTENDS the two above. |
| `SuiteContract` | The abstract specification the executor implements. |
| `MCExecutor` | The small suite TLC checks. |
| `Reporters` | The console and the JUnit reporter, told of an execution as it happens; EXTENDS `Executor`. |
| `Subprocess` | One call of `SubprocessRunner::run`: the future, the child, its pipes; EXTENDS `Protocol`. |
| `Preflight` | The builder, the display names, the concurrent probes and their report. |
| `Coordinator` | The life of a test binary from `run_main` to its exit code; EXTENDS `Preflight`. |
| `BinaryContract` | What a test binary is to the command: its exit code and its part file, as a relation on states. |
| `CargoRun` | `cargo rigtest run`, over and over, on binaries that keep the contract; EXTENDS `BinaryContract`. |
| `Testcase` | The expansion of `#[testcase]` and `#[fixture]`. Pure operators. |
| `Child` | From the annotated functions to the exit code of one child; EXTENDS `Testcase` and `Protocol`. |
| `MCReporters`, `MCPreflight`, `MCCoordinator`, `MCCargoRun`, `MCChild` | The small instances TLC checks. |
| `Subsequences` | What a filter leaves of a sequence, in a form that can be proved about; used by `CargoRun` and `Testcase`. |
| `ExecutorProofs`, `ReportersProofs`, `SubprocessProofs`, `PreflightProofs`, `CoordinatorProofs`, `CargoRunProofs`, `ChildProofs` | Theorems about the module of that name. |
| `DataLemmas` | What the proofs need of sequences: induction in terms of sets, `FlattenSeq`, `Subsequence`. |

The layers meet in three places. `Executor` lets a child end in any way
`EndingsOf` allows, or be timed out: `Subprocess` shows that this is what
`runner.run` returns (`DeadlineDecides`, `EvidenceComplete`), and `Child` that
the exit codes are what the wrapper and `run_single` make of a test
(`FirstFailureDecides`). `Coordinator` takes the execution as one step, by what
`SuiteContract` promises and `ContractIsKept` proves of `Executor`: a verdict
for every selected case, or the end of the process. `CargoRun` runs processes
that step as `BinaryContract` allows, and `CoordinatorKeepsContract` proves that
a test binary is one.

### Executor and the code

One program counter per case stands for the position of its task in
`run_parallel_phase` (406-421) and `run_test`, an exclusive case's position for
the coordinator's own. Between two awaits of the code a task takes one step, so
every interleaving of the multi-threaded runtime at the points where tasks can
affect each other is a behaviour of the model.

| Variable | Code |
|---|---|
| `phase` | the loop over `schedule.phases`; `"crashed"` when the coordinator's own stack unwinds |
| `pc`, `attempt` | the position in the task and in `1..=max_attempts` |
| `child`, `raw` | how the current child ends; the `Result` `runner.run` returned |
| `reported` | the last reporter event about the case |
| `result` | what `join_next` hands over for it, or what `run_test` returned |
| `permits`, `groupPermits` | the semaphores' free permits |
| `passed`, `skipped` | the tallies |

`AcquirePermit` and `AcquireGroupPermit` are the two acquisitions;
`AcquireGroupPermit`, `StartExclusive` and `Retry` begin an attempt;
`ChildEnds` and `ChildTimesOut` are the two ways `runner.run` comes back;
`ReportSuccess`, `ReportFailure` and `Retry` are the three arms of the loop;
`ReporterPanics` is a panic of any callback in them (`eprintln!` panics when
stderr cannot be written); `DropGroupPermit` and `DropPermit` are the guards'
drops, in that order, on return and on unwinding alike; `JoinNext` and
`JoinErrorPanics` are the two arms after `join_next`.

Abstractions. The reason, the outputs and the durations are left out: only
whether stderr contains "panicked at" is ever looked at. How a child ends is
chosen when it is started, from the ways `EndingsOf` allows for its case. A
child that may be killed from outside is the ending `"signal"`. `spawn_err` is a
child that could not be spawned or waited for; it carries no panic text, as a
failed read of stderr would leave it, see `Subprocess`. A child that fails without
panicking may print the panic text (`Noisy`). `MutualExclusion` is about the
bodies of `run_test`: the processes that failing calls leave behind are
`Subprocess`'s. A panic needs a case in
`MayPanic`, so that a run can leave panics out.

`SuiteContract` knows only who is running, each case's verdict, the published
summary and whether the coordinator is alive. A case begins when the declared
rules admit it, concludes once, and the summary counts the verdicts.
`KeepsContract` is `Contract!CSpec` under the refinement mapping in
`Executor`: running are the cases inside `run_test`, and a join error counts as
a failure.

### Reporters and the code

`Reporters` conjoins each step of `Executor` that calls a reporter with what the
call does: `Starts`, `Tells` and `ConsolePanics` (a panic of the console, which
is told first, keeps the event from JUnit). All other steps leave the reporters
alone. `Finish` is `MultiReporter::finish`, and `FinishPanics` its panic.

| Variable | Code |
|---|---|
| `retry_counts`, `flaky_passed`, `spinners` | the maps of `Reporter` (`reporter.rs` 132-147); a count of 0 is an absent key |
| `in_flight`, `finalized` | `State` of `JunitReporter` (`junit.rs` 36-75); `{}` is an absent key |
| `summary`, `document` | the printed summary line, the written file; `{}` is none |
| `finish_result` | whether `finish` returned, with what, or unwound |

A call locks each mutex for itself; the model makes it one step together with
the step of `run_test` that makes it. That hides nothing: the calls about one
case are sequential in its task, those about different cases touch different
keys, a counter, or append to a list whose order nobody reads, and `finish` is
called after every task was joined. Messages, outputs and times are left out; an
attempt is recorded by its kind. The JUnit reporter is always present, as
under `--reporter junit`.

### Subprocess and the code

| Variable | Code |
|---|---|
| `job` | the arguments of `run`, and how this child is going to behave |
| `pc` | the await the future is at: `waiting` (the select of `wait_or_timeout`), `grace`, `killing` (`graceful_kill`), `draining` (`drain_pipe`) |
| `child`, `code`, `term` | the process, its exit status, whether it was sent SIGTERM |
| `written`, `drained` | bytes of each stream, counted in chunks |
| `descendant` | a process the child left behind, which holds the pipes' write ends |
| `failed` | the calls of the future that failed: `wait`, `kill`, a read of a stream |
| `outcome` | what `run` returned |

`ChildWrite` blocks on a full pipe: the code waits for the child first and reads
the pipes afterwards (`subprocess.rs` 181-189), so nobody empties it meanwhile.
`TimedOut` may come first also when the child has exited: the select takes
either branch. `graceful_kill` is its three outcomes, `EndOfFile` the condition
under which `read_to_end` returns, `PanicText` that the classification sees what
was read and no more. Each call may fail. A failing `spawn` or `wait` is the
error `run` returns (`SpawnFails`, `WaitFails`). The others are dropped by the
code: a failing `wait` in the grace period ends it as an exit would, without
SIGKILL, and a failing `kill` ends it as well (`GracefulKillErrs`; lines 83, 88);
a failing read ends the reading of that pipe (`ReadFails`; line 126). The module
ends with the call: a child it leaves behind is left as it is.

### Preflight and the code

`Declare` and `CallModifier` are the methods a user's build function calls, in
any order; a modifier acts on the last probe and is a no-op on a probe of
another kind, as in the code. `Built` is `run_preflight` from the return of that
function to the join: nothing declared, disambiguation given up, or the probes
started. `ProbeAnswers`, `ProbeTimesOut`, `ProbePanics` and `ProbeBlocks` are
what one of the joined futures may do; `Met` lists what a probe of each kind can
meet, and `run_probe` what it makes of it, by the operator of its kind. The futures share one task: one that
blocks in its poll stops all others, their timers included. `finished` is the
order of the finished lines on the terminal, `report` what goes to the
coordinator. A name is a sequence of words, so that a name may be written like
a generated one.

### Coordinator and the code

`stage` is the position in `run_main`, `run_suite` and `run`; each action is one
step of these with its ways out: `Go` on, `Exits`, `Errs` (an error through `?`,
with exit code 2 for a preflight abort and 1 otherwise) or `Panics` (101). The
functions of the user return or panic, `current_exe` may fail (in
`build_reporter` and in `PlanSuite`), the document may be unwritable, half
written or written, and the process may be killed at any stage. `registry` is
what the attribute macros left in the slices, mistakes included: a second
setup, a teardown for another type than the setup's. `verdict` is all that is
known of the execution. That a verdict is reached is not promised for every case:
`Endless` are the cases an attempt of which may never return, as `Subprocess`
finds for a child that hangs or fills a pipe without a deadline, and for a
descendant that holds one open. `ExecutePanics` is the coordinator's death in
either phase: a reporter's panic about a serial case, or the one of printing a
join error; `FinishPanics` is that of printing the summary, which is before the
document.

### CargoRun and the code

| Variable | Code |
|---|---|
| `inv`, `run` | the arguments of this invocation, and how many there were |
| `targets`, `next`, `last_code` | of `run` in `main.rs` |
| `proc` | the test binaries started and, after a kill, those that outlived it |
| `part` | the parts directory; who wrote a file is remembered for the properties |
| `tmp`, `final` | `junit.xml.tmp`, `junit.xml` |

`discover_targets` is the build and the probing of its artifacts, `for_run` the
cleaning of the parts, one after the other, `spawn_target` and `TargetExits` a
turn of the loop, `LoopEnds`, `WriteAggregate` and `Rename` the aggregation; each
may fail and leave `run` with what it has done so far, `for_run` with some of the
parts removed. `StatusFails` is a `status()` that fails after the binary was
started. `Kill` ends the command anywhere, with the binaries or, if
`OrphansSurvive`, without; where binaries do not outlive the command, a wait only
fails when there is nobody left to wait for. `Again` starts the next one on the
files that are there. `Lands` is what a write does to a path that another
process has removed or opened since.

### Testcase, Child and the code

`Testcase` has no state: `Rejected` is every check of `expand`, `Plan` the list
of cases with their names and arguments, `generate` what is registered. `Child`
is the way of one case: `Expand` (the order of the functions is the linker's),
`Ask` (what the executor passes to `--run-single`), `Start` (`StateHandoff::load`,
the lookup by bare name), then the generated wrapper: `SetUp` for each fixture
in order, `Body`, `TearDown` for each in reverse, and `Exit`. `level` counts the
nested scopes that are open; `?` leaves all of them at once, and so does a
panic. `log` is what ran.

## Runs

The suite of `MCExecutor`: `a1` and `a2` share a serial group, `g` is alone in
another one, `f` has none, `s` is serial; two jobs, so that the cap is contended,
also by a group that holds all of it while a free case and one of the other group
wait; one retry for some, a saturating
budget (`U32Max = 2`), a matcher on a case whose children fail in every way a
matcher distinguishes, a hanging child with a deadline, cases about which
reporters may panic. No action of the model counts without a bound, so no state
constraint is needed: attempts are bounded by the retry budget.

The suite of `MCReporters`: `p` and `q` are parallel and have the same bare name
in two modules, `s` is serial; `p` has a matcher, `q` may skip, hang and be
timed out, `s` may not be spawned; `p` and `q` are retried up to twice, so that
two lists of attempts grow side by side. The console may panic about `q` and `s`
unless stderr is a terminal.

| Run | Expect | Shows |
|---|---|---|
| `executor` | pass | All of the properties below, over every interleaving of the five cases. |
| `executor_kill` | violation | `KillsNotRetried`: a child killed by a signal is retried under a matcher. |
| `executor_no_capture` | violation | `PanicsNotRetried`: so is a panic under `--no-capture`. |
| `executor_concurrency` | violation | `OthersStayConcurrent`: a case waiting for its group blocks a free one, or one of an idle group. |
| `reporters` | pass | The properties of the reports, with every interleaving, console panics, and a document that cannot be written. |
| `subprocess` | pass | One attempt with every child that writes up to two chunks to pipes that hold one, every call of which may fail. |
| `preflight` | pass | Every list of up to three probes of `MCDeclarable` with up to one modifier, ending in every order. |
| `coordinator` | pass | A binary with a parallel and a serial case, one of which may never end, and up to two probes, under every combination of flags; the refinement of `BinaryContract`. |
| `cargo_run` | pass | Two invocations on two binaries, with failures and kills, where a kill takes the binaries along. |
| `cargo_run_stale` | violation | `NoStaleSuites`: where it does not, an old binary's part gets into the next document. |
| `child` | pass | Five programs that compile and one for every reason not to, with every outcome of setups, body and teardowns. |
| `child_fixtures` | violation | `TornDownInReverse`: the error of one teardown costs the outer fixtures theirs. |

The bounds are enough in this sense: two jobs, two cases of one group, one of
another and a free one are the smallest suite in which the cap, and not the group alone,
limits who runs while a group is busy; one serial case is enough to be run too
early, and beside a parallel one; two attempts are enough to exceed a budget of
one, and a budget at `U32Max` to overflow. For the reports, two reruns are the
fewest that have an order and can be lost one by one, and two cases the fewest
that can be mixed up; a console panic can hit any event of `q` and `s`.

`Subprocess`: a pipe of one chunk and two chunks to write are the fewest with
which a child blocks in the middle, and one stream can be full while the other
is not. `Preflight`: three probes are the fewest for which finishing order,
declaration order and failure can all differ, and for which one name can be
shared in all three ways (`MaxProbes`, `MaxModifiers` bound the build function,
which in the code is free). `MCDeclarable` has each kind once, one name in two
types, twice in one type, and a name that imitates a generated one.
`Coordinator`: one case of each phase, so that a panic can hit the second with
the first judged; two probes that may fail separately; selections that leave
both cases, one, or none; with a cap of 0 and one of 1. `CargoRun`: two binaries
of one target name in two packages, so that a red one can come first or last;
two invocations (`MaxRuns`), since whatever is left behind is there for the
second. `Child`: three fixtures are the fewest of which a middle one can fail
with one torn down and one still up; two rows against lists of two and three
values tell every wrong product from the right one.

What the properties say:

* `CapRespected`, `MutualExclusion`, `PermitsRestored`: the concurrency rules,
  and that nothing is leaked by retries, skips, time-outs or panics.
* `RetryBudget`: attempts stay within `retries + 1`, saturated, and a case that
  failed for good earlier had a reason the policy names.
* `RetryPolicy`: under a matcher no success, mismatch, panic, time-out or spawn
  failure is followed by another attempt.
* `TalliesAgree`: the published tallies count the cases as the reporters heard
  of them; what is left over is the failures, join errors among them.
* `KeepsContract`: the refinement.
* `EventuallyOver`: the suite ends, if every case with a child that may hang
  has a deadline. That `runner.run` then returns is assumed here and is `Returns`
  of `Subprocess`, with its exception for a descendant that holds a pipe.
* `DocumentComplete`: the written document has every case once, finalized or as
  a crash, and its counts are those of the console's summary line.
* `RunsFaithful`: an entry lists the attempts before the last, no more and no
  fewer, and none that a matcher should have kept from being repeated.
* `FlakyAgrees`: both reporters count the same flaky passes. Its premise, that no
  console event panicked, is needed: the tally is raised before the line is
  printed (`reporter.rs` 251-257), so a panic over it leaves a flaky pass that
  is a failure everywhere else.
* `EntriesAreFinal`: entries stay as they are, and their cases never return to
  `in_flight`.
* `EventuallyPublished`: `finish` is reached and prints the summary, also where the
  document cannot be written, of which its result then tells; or it unwinds, or
  the process dies before.
* `NoChildSurvives`: no attempt returns with its child running beside the next,
  unless a `wait` or a `kill` failed; and then never with a verdict.
* `DeadlineDecides`: a time-out is exactly an attempt whose child was sent
  SIGTERM, also if the child then exits with 0.
* `EvidenceComplete`: every verdict rests on the child's own status and on all
  it wrote to the pipes that could be read. Nobody is told of a failed read: one
  of stderr hides a panic.
* `FullPipeIsForever`, `Returns`: which attempts never end, unless the wait
  itself fails, and that all others do.
* `NamesTellProbesApart`: names are distinct when the probes start, and only two
  probes nobody could tell apart prevent that. It assumes that no name imitates
  a generated one: a probe named `db(tcp)` beside two named `db` gets the name
  of another, which no document excludes.
* `ResultsPairWithProbes`, `AllProbesOrNone`: the report against what finished,
  in whatever order.
* `Settles`: the phase ends unless a probe without a deadline stays silent or
  one blocks the thread.
* `GatedByPreflight`: nothing of the suite without a pass or a waiver.
* `TeardownPaired`: who gets to the teardown, and when it is skipped: after a
  setup, only if `current_exe` fails before the first case
  (`orchestrator.rs` 535), or something panics or kills.
* `ExitTellsTests`: what each exit code says.
* `DocumentFaithful`: the binary's document against the run.
* `KeepsBinaryContract`: the refinement.
* `CoordinatorEnds`: the binary ends unless `--jobs 0` starves the execution, a
  selected case is one that may never end, or preflight does not settle.
* `GreenMeansGreen`, `RedIsNeverHidden`: the command's exit code against those
  of the binaries, and the document against the run. The last code that is not 0
  wins in the code, and `RedIsNeverHidden` takes that as it is: a 2 may hide the
  1 of an earlier binary, which the table of exit codes
  (`cargo-rigtest/README.md:179-185`) does not mention.
* `NoStaleSuites`: no suite of an earlier run.
* `ReplacedWhole`: `junit.xml` only ever changes to a complete aggregate of the
  current run.
* `CommandEnds`: every invocation comes to an end.
* `ExpansionSound`: the cases of a function are the product of rows and values,
  with every value at its parameter, and each once unless a row or a value is
  written twice: nothing rejects that, and such a value is tried twice.
* `AskedCaseRuns`: only a case of the same name in another module can run in
  place of the one asked for.
* `FixturesNested`, `TornDownAfterBody`: the nesting of the scopes, and what
  alone can cut it short.
* `FirstFailureDecides`: the exit code tells of the first failure.

### Fairness

`WF_vars(TaskStep(t))` for every case and `WF_vars(CoordinatorStep)`: tokio
polls every woken task, and fires every elapsed timer; a child that is going to
end does end. There is no fairness between the waiters of a semaphore beyond
that, although tokio's is first-come-first-served: every parallel case needs
its permit once, and permits are held for a bounded number of steps, so weak
fairness suffices. A hanging child's only way on is `ChildTimesOut`, which is
fair because the timer fires. No strong fairness is used. `RSpec` keeps these,
with the reports as part of the steps that make them, and adds `WF_rvars(Finish)`:
the coordinator goes on to call `finish`. Nothing is fair about panics.

* `Subprocess`: `WF` of `ChildStep` (a child that can write or exit does, and
  SIGKILL ends it) and of `RunnerStep` (the future is polled, the timers fire).
  A child need not obey SIGTERM, a descendant need not end, spawning and waiting
  need not fail.
* `Preflight`: `WF` of the function's own steps, of each probe's deadline, and of
  the reading of an environment variable. Nothing makes a probe answer. The
  conditions are per probe: `join_all` polls each future that is woken.
* `Coordinator`: `WF` of the coordinator's own steps, and `Preflight`'s as far as
  it is the coordinator that takes them. `Execute` is fair only while no selected
  case is `Endless`: that it then happens is `EventuallyOver`, with `Returns` for
  each attempt.
* `CargoRun`: `WF` of the command and of the binaries together. That a binary ends
  is `CoordinatorEnds`, and its exceptions are not the command's to end. No call
  is owed its failure, `status()` included.
* `Child` has no fairness: its properties are safety properties.

### Where the documentation and the code disagree

* *"Panics, timeouts, and subprocess kills are never retried when a matcher is
  in force"* (`rigtest/README.md:126-127`). A child killed by a signal has no
  exit code, and `decode_outcome` takes any code but 3 for an eligible failure
  (`protocol.rs:72`): it is retried.
* The same sentence, under `--no-capture`: `spawn_no_capture` hands on an empty
  stderr (`subprocess.rs:162`), so the panic is not recognised and is retried.
* *"tests sharing a group name never overlap, while different groups (and
  ungrouped tests) still run in parallel"* (`rigtest/README.md:113-114`). The
  global permit is acquired first and kept while the task waits for its group
  (`orchestrator.rs` 407-418), in the order the comment above it states, so one
  busy group can occupy the whole cap, with a single case running.
* *"Cleaning the parts directory happens here so a crashed previous run can't
  leak stale suites into the next aggregate"*
  (`cargo-rigtest/src/junit.rs:34-35`). It can when a test binary outlives the
  killed command and writes its part after the cleaning; a part does not say
  which run it belongs to (`cargo_run_stale`).
* Fixtures *"set up left-to-right before the body and tear down in reverse (LIFO)
  after it"* (`rigtest/README.md:495-496`). After a body that succeeded, an inner
  fixture whose teardown returns an error leaves the whole wrapper by `?`
  (`testcase.rs:921`): the outer ones stay up (`child_fixtures`).

Not held against the code, since no document says otherwise or no run is spent on
it, but stated where a property has to except it: the flaky tally after a console
panic (`FlakyAgrees`), the teardown after a failing `current_exe`
(`TeardownPaired`), the document missing after an abort or `--preflight-only`
(`ExitTellsTests`), the 2 that hides a 1 (`RedIsNeverHidden`), and a case of the
same name in another module that runs in place of the one asked for
(`AskedCaseRuns`). Under `hazards` of `PROJECT.json` these have a note and no
property.

## Proofs

Proved with TLAPS, for every finite set of cases, every assignment of groups,
cap, retry budget, matcher and ways children end (the assumptions are
`ScheduleAssumption` and `ExecutorAssumption`):

| Theorem | Statement |
|---|---|
| `TypeCorrect` | `Spec => []TypeOK` |
| `Inductive` | `Spec => []IInv` |
| `CapIsRespected` | `Spec => []CapRespected` |
| `CasesAreExclusive` | `Spec => []MutualExclusion` |
| `PermitsComeBack` | `Spec => []PermitsRestored` |
| `BudgetIsKept` | `Spec => []RetryBudget` |
| `PolicyIsKept` | with captured output, `Spec => RetryPolicy` |
| `TalliesAreExact` | `Spec => []TalliesAgree` |
| `ContractIsKept` | `Spec => KeepsContract` |

**The permits.** None of the first three safety properties is inductive: that a
permit is free says nothing unless free permits and holders are known to add
up. `IInv` says so: `permits + Cardinality(PermitHolders) = Cap` (PermitInv),
the same with 1 for each group (GroupInv), and PhaseInv: what each phase
implies about where the cases can stand, which is what keeps a serial case
alone. Each action moves one case, and the cardinality lemmas give the change
of the two sums; a panicking task stays a holder until its guards are dropped.
The cap bounds the holders, and the cases inside `run_test` are holders.

**The retries.** `LoopInv` bounds the attempts where an attempt is under way;
`RawInv` says that what the runner returned is what the child made of it;
`FinalInv` is `RetryBudget`'s second half and follows, at `ReportFailure`, from
lemma `NotRetryable`: what `plan` refuses to retry was excluded by a matcher.
`PolicyIsKept` adds lemma `Excluded`, the converse for the endings the policy
names. Its hypothesis `NoCapture = FALSE` is needed: `executor_no_capture`
refutes it otherwise.

**The tallies.** `TalliesAgree` speaks of what was reported, the coordinator of
what it joined. `ResultInv` ties them: a task past `run_test` left the result its
reporters were told, or a join error and no terminal event; a case that is not
past it left nothing. `TallyInv` says that the tallies count the joined cases
by result. When the phase is `"done"` every case is joined.

**The refinement.** With `IInv`, `ResultInv` and `TallyInv` each step of the
executor is a step of `SuiteContract` or a stutter under the mapping (lemmas
`Begins`, `Concludes`, `Stutters`): entering `run_test` is `Begin`, admitted
because of the permit sums (`ParallelAdmissible`) or of the phase
(`ExclusiveAdmissible`), leaving it is `Conclude`, the end of the exclusive
phase is `Publish`, and a panic on the coordinator's stack is `Die`.

**One attempt.** `SInv` of `SubprocessProofs` says for each `pc` what it implies
about the child and SIGTERM (StageInv), that pipes are
unread before the child was reaped (UnreadInv), and that a child that exited
without SIGTERM has written all it had and has the status it chose (StatusInv). The safety properties
follow where `pc` becomes `"done"`, whichever call has failed there. Proved for
every `PipeCap` and `MaxOut` (`SubprocessAssumption`):

| Theorem | Statement |
|---|---|
| `SubprocessTypeCorrect` | `Spec => []STypeOK` |
| `ChildGoneUnlessCallFailed`, `DeadlineAlone`, `EvidenceIsComplete` | `NoChildSurvives`, `DeadlineDecides`, `EvidenceComplete` |
| `FullPipeBlocksForever` | `Spec => FullPipeIsForever`: a step from a blocked state is to a blocked one, unless it is the wait that fails |

**Preflight.** `PInv`: the lines on the terminal are one to one with the probes
that answered (LinesInv), nothing has an outcome before the join (QuietInv), and
the report is that of the outcomes (ReportInv). The distinct names need
`NamedInv` (records with the fields of a probe) and lemma `DistinctNames`: the
length of a generated name tells which of the three tiers it comes from, the
word at its position 3 the kind, at 5 the target; equal names thus make the
probes indistinct, on which `disambiguate_names` gives up (lemma `GivesUp`). For
any number of probes and any declarations (`PreflightAssumption`):

| Theorem | Statement |
|---|---|
| `ResultsAreTheProbes` | `PSpec => []ResultsPairWithProbes` |
| `AllProbesRanOrNone` | `PSpec => []AllProbesOrNone` |
| `NamesAreDistinct` | `PSpec => []NamesTellProbesApart` |

**The binary.** `CInv` is `PInv` and, for each stage, what it implies: that the
gate was passed (GateInv), what has been judged, set up and torn down
(SuiteInv), and what is recorded and written (DocInv). The properties that speak
of the exit are conjuncts of it (EndInv), since at `"exited"` no stage is left to
infer anything from: each is established by the step that exits. For any finite
set of cases, any registry, flags, tags and cap (`CoordinatorAssumption`):

| Theorem | Statement |
|---|---|
| `PreflightGates` | `CSpec => []GatedByPreflight` |
| `TeardownIsPaired` | `CSpec => []TeardownPaired` |
| `ExitCodeTells` | `CSpec => []ExitTellsTests` |
| `DocumentIsFaithful` | `CSpec => []DocumentFaithful` |
| `CoordinatorKeepsContract` | `CSpec => KeepsBinaryContract` |

**The reporters.** A step of `RNext` is one of `Next` or leaves `vars` alone, so
the executor's invariants carry over (`ExecInv`). `RepInv` says where each case
is on its way through the reporters: one that is in `run_test` is in flight with
the runs of its earlier attempts, and the console counts the same (FlightInv);
`finalized` has one entry for exactly the cases with a terminal event, with the
status of that event (EntriesInv); where no task was lost, the flaky tally is
the number of passed entries with runs (FlakyInv); and what `finish` published
is what is held from then on (PublishedInv). For any set of cases, under the
assumptions of `Executor`:

| Theorem | Statement |
|---|---|
| `RTypeCorrect` | `RSpec => []RTypeOK` |
| `RunsAreFaithful` | `RSpec => []RunsFaithful` |
| `FlakyCountsAgree` | `RSpec => []FlakyAgrees` |
| `EntriesStayFinal` | `RSpec => EntriesAreFinal` |
| `DocumentIsComplete` | `RSpec => []DocumentComplete` |

**The command.** `KInv`: with `OrphansSurvive = FALSE` only the binary the command
waits for is alive (AliveInv), so every part in the directory after `for_run` is
this run's (PartInv), and so are the suites of the temporary document and of the
final one (TmpInv). `GInv` holds whatever survives: no executable occurs twice
among the targets (TargetsInv), this run's processes are those of targets that
were begun, unless a failing wait cut the run short (ProcsInv), `last_code` is that of the last binary that was not green
(CodesInv), a document on its way is this run's and about its targets (DocInv),
and there is an exit code only at the end (EndInv). `DInv` adds, again without
orphans, that the part file of each binary is what that binary wrote (DiskInv),
so that a document without a red binary has no synthetic suite (CompleteInv).
For any number of binaries, invocations, failures and kills
(`CargoRunAssumption`, which says that cargo puts each test target into an
executable of its own):

| Theorem | Statement |
|---|---|
| `NoRedIsHidden` | `Spec => []RedIsNeverHidden` |
| `TheDocumentIsReplacedWhole` | `Spec => ReplacedWhole` |
| `GreenIsGreen` | with `OrphansSurvive = FALSE`, `Spec => []GreenMeansGreen` |
| `NothingStaleWithoutOrphans` | with `OrphansSurvive = FALSE`, `Spec => []NoStaleSuites` |

The hypothesis is needed: without it AliveInv fails, and `cargo_run_stale` shows
how.

**The child.** The expansion is made of folds and of a recursive function.
`DataLemmas` makes them tractable: induction is stated over sets of numbers
(`SetInduction`, from the well-foundedness of `<`), a recursive function is then
an iteration (`Iteration`), and `FlattenSeq` and `Subsequence` are characterised
by the places their elements come from (`FlattenIsFlat`, `SubsequenceSelects`).
From these, lemma `ExpansionRegisters`: no two registered cases of one module
have a name in common, since a name is read back at its first `"::case_"`
(`NamesReadBack`), and the fixtures of a case are distinct (`FixturesOnce`).
For the arguments, a parameter is found again by its number among those of its
kind (`ParamsAreNumbered`), the index tuples enumerate one choice per list
(`TuplesAreSequences`), and the index of a case is a row and a tuple
(`NoPlaceTwice`, `NoPlaceEmpty`); so every combination is the arguments of a case
and the other way round (`EveryCombination`), and of one case only (`OnceEach`).
`CInv` says what the child has come to: the case it runs (StageInv), that the log
is a beginning of what the parameters ask for, fixtures up, body, fixtures down
(LogInv), and which step settled the result (ResultInv). For any functions,
any order of the linker, any number of fixtures and every way they may end
(`ProgramsAssumption`: sequences are sequences, a parameter has at most one list
of values, the functions of a module have different names, and no Rust name
contains `::`):

| Theorem | Statement |
|---|---|
| `LogFollowsThePlan` | `Spec => []CInv` |
| `ExpansionIsSound` | `Spec => []ExpansionSound` |
| `ChildRunsTheCaseAsked` | `Spec => []AskedCaseRuns` |
| `FixturesAreNested` | `Spec => []FixturesNested` |
| `TeardownsAreNotLost` | `Spec => []TornDownAfterBody` |
| `TheFirstFailureDecides` | `Spec => []FirstFailureDecides` |

Only model-checked: liveness under fairness, which is out of this prover's reach
(`EventuallyOver`, `EventuallyPublished`, `Returns`, `Settles`,
`CoordinatorEnds`, `CommandEnds`). Every other property of a passing run is a
theorem.

## Plan

All modules of the first plan exist, and all their safety and action properties
and both refinements are proved. What is left:

1. The session map of `context.rs`, if a document ever promises something about
   connections that are made at once.
2. A theorem that the results of `Child` are the endings `EndingsOf` allows the
   executor: that the two modules fit is so far read off `FirstFailureDecides`.

## Not modelled

* The test context (`context.rs`): clients are built by reqwest and openssh,
  within one child; the lock on the session map is a matter of waiting, which
  ends with the attempt's deadline.
* Parsing (`syn`, clap), code emission and diagnostics: a function with several
  mistakes is rejected for one of them. Of the macros other than `testcase` and
  `fixture`, what they register is a constant of `Coordinator`.
* Terminal output and layout; the XML and what an aggregate does to the text of
  a suite.
* What probes do on the network: `Met` lists what they can meet.
* Seeds and the shuffle's distribution: any order is allowed. The profile's
  name, which is only handed on.
* Durations, other than the race of a deadline and that of the grace period.
* Windows, where `graceful_kill` has no SIGTERM to send.

## Running

    tlc -workers 2 -config Executor.cfg MCExecutor
    tlc -workers 2 -config Reporters.cfg MCReporters
    tlc -workers 2 -config Subprocess.cfg Subprocess
    tlc -workers 2 -config Preflight.cfg MCPreflight
    tlc -workers 2 -config Coordinator.cfg MCCoordinator
    tlc -workers 2 -config CargoRun.cfg MCCargoRun
    tlc -workers 2 -config Child.cfg MCChild

and the same modules with `ExecutorKill.cfg`, `ExecutorNoCapture.cfg`,
`ExecutorConcurrency.cfg`, `CargoRunStale.cfg` and `ChildFixtures.cfg` for the
counterexamples. The proofs:

    tlapm ExecutorProofs.tla
    tlapm ReportersProofs.tla
    tlapm SubprocessProofs.tla
    tlapm PreflightProofs.tla
    tlapm CoordinatorProofs.tla
    tlapm CargoRunProofs.tla
    tlapm ChildProofs.tla
    tlapm DataLemmas.tla
