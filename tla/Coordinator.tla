----------------------------- MODULE Coordinator -----------------------------
(***************************************************************************)
(* The life of one test binary in coordinator mode: run_main (lib.rs),     *)
(* run_suite (scheduler.rs) and run (orchestrator.rs), with the preflight  *)
(* phase of module Preflight in it and the execution of the schedule as    *)
(* SuiteContract promises it: a verdict for every selected case, or the    *)
(* death of the process.  That it comes to one of the two is not promised  *)
(* for every case: an attempt may never return (module Subprocess).        *)
(*                                                                         *)
(* A panic on the coordinator's own path unwinds main: exit code 101, and  *)
(* nothing that was still to be done is done.  The functions of the user   *)
(* are external; they return, or panic.                                    *)
(***************************************************************************)
EXTENDS Preflight, BinaryContract

CONSTANTS
    Cases,         \* the registered test cases
    Serial,        \* those of the exclusive phase
    Endless,       \* those an attempt of which may never return
    Matching,      \* those whose name contains the filter given
    TagsOf,        \* case -> its tags
    Invocations,   \* the RuntimeArgs the binary may be started with
    Registries     \* what may be registered next to the test cases

ASSUME CoordinatorAssumption ==
    /\ IsFiniteSet(Cases)
    /\ Serial \subseteq Cases /\ Endless \subseteq Cases /\ Matching \subseteq Cases
    /\ \A a \in Invocations :
         /\ a.no_preflight \in BOOLEAN /\ a.preflight_only \in BOOLEAN
         /\ a.continue_on_preflight_failure \in BOOLEAN /\ a.no_capture \in BOOLEAN
         /\ a.reporter \in {"none", "junit", "unknown"} /\ a.jobs \in Nat
    /\ \A r \in Registries :
         /\ r.setup \in BOOLEAN /\ r.teardown \in BOOLEAN
         /\ r.duplicate \in BOOLEAN /\ r.teardown_fits \in BOOLEAN

VARIABLES
    args,          \* RuntimeArgs
    registry,      \* global setup and teardown, and wiring mistakes
    stage,         \* where run is
    set_up,        \* the global setup has returned
    torn_down,     \* how often the global teardown has returned
    selected,      \* the cases the filters left, once they were applied
    verdict,       \* case -> NotRun, Running, Passed, Skipped or Failed
    recorded,      \* the probe results handed to the JUnit reporter
    document,      \* the document at the output path: none, torn, or its content
    finish_result, \* what reporter.finish returned
    code           \* the process' exit code once it has one

cvars == <<args, registry, set_up, torn_down, selected, verdict, recorded,
           document, finish_result>>
allvars == <<pvars, cvars, stage, code>>

NoCode == -2
NoDocument == [state |-> "none", preflight |-> <<>>, cases |-> {}]

CInit ==
    /\ PInit
    /\ args \in Invocations
    /\ registry \in Registries
    /\ stage = "start"
    /\ set_up = FALSE
    /\ torn_down = 0
    /\ selected = {}
    /\ verdict = [t \in Cases |-> "NotRun"]
    /\ recorded = <<>>
    /\ document = NoDocument
    /\ finish_result = "pending"
    /\ code = NoCode

Go(from, to) == stage = from /\ stage' = to /\ code' = code

\* flush_and_exit, or the end of an unwound main.
Exits(from, c) == stage = from /\ stage' = "exited" /\ code' = c

Panics(from) == Exits(from, 101) /\ UNCHANGED <<pvars, cvars>>

\* run_main: a PreflightAbort is told from every other error.
Errs(from, preflightAbort) == Exits(from, IF preflightAbort THEN 2 ELSE 1)

-----------------------------------------------------------------------------
(* Before the suite                                                        *)

assert_singleton_registrations ==
    \/ registry.duplicate /\ Panics("start")
    \/ ~registry.duplicate /\ Go("start", "reporter") /\ UNCHANGED <<pvars, cvars>>

\* The JUnit reporter needs the path of the executable, which the system may
\* not tell.
build_reporter ==
    /\ \/ /\ args.reporter # "unknown"
          /\ Go("reporter", IF args.preflight_only THEN "only" ELSE "preflight")
       \/ args.reporter # "none" /\ Errs("reporter", FALSE)
    /\ UNCHANGED <<pvars, cvars>>

\* Preflight is run where it is registered and not waived.
preflight_step ==
    /\ stage \in {"only", "preflight"}
    /\ ~args.no_preflight
    /\ stage = "only" => registered
    /\ PNext
    /\ UNCHANGED <<stage, code, cvars>>

\* --preflight-only: nobody tells the reporter.  Printing that there is nothing
\* to check may panic.
handle_preflight_only ==
    /\ UNCHANGED <<pvars, cvars>>
    /\ \/ (args.no_preflight \/ ~registered) /\ \E c \in {0, 101} : Exits("only", c)
       \/ pphase = "reported" /\ report.passed /\ Exits("only", 0)
       \/ pphase = "invalid" /\ Errs("only", TRUE)
       \/ pphase = "reported" /\ ~report.passed /\ Errs("only", TRUE)
       \/ pphase = "panicked" /\ Exits("only", 101)

PreflightDone == args.no_preflight \/ pphase = "reported"

\* Structural errors abort whatever the flags say.
PreflightInvalid ==
    /\ pphase = "invalid"
    /\ Errs("preflight", TRUE)
    /\ UNCHANGED <<pvars, cvars>>

PreflightPanics == pphase = "panicked" /\ Panics("preflight")

\* A document that only hears of the probes that opened the gate.
recordPassed(r) == recorded' = IF r.declared /\ r.passed THEN r.results ELSE recorded

\* preflight_recorded of the JUnit reporter.
record(r) == recorded' = IF r.declared THEN r.results ELSE recorded

\* A gate that the operator's waiver opens for structural errors as well.
passPreflightAlways ==
    /\ \/ PreflightDone /\ (report.passed \/ args.continue_on_preflight_failure)
       \/ pphase = "invalid" /\ args.continue_on_preflight_failure
    /\ Go("preflight", "setup")
    /\ record(report)
    /\ UNCHANGED <<pvars, args, registry, set_up, torn_down, selected, verdict,
                   document, finish_result>>

handle_preflight_phase ==
    /\ PreflightDone
    /\ report.passed \/ args.continue_on_preflight_failure
    /\ Go("preflight", "setup")
    /\ record(report)
    /\ UNCHANGED <<pvars, args, registry, set_up, torn_down, selected, verdict,
                   document, finish_result>>

\* The abort still lets the reporters finish, and ignores what comes of it.
PreflightAborts ==
    /\ PreflightDone
    /\ ~report.passed /\ ~args.continue_on_preflight_failure
    /\ record(report)
    /\ Go("preflight", "abort")
    /\ UNCHANGED <<pvars, args, registry, set_up, torn_down, selected, verdict,
                   document, finish_result>>

Abort ==
    /\ Errs("aborted", TRUE)
    /\ UNCHANGED <<pvars, cvars>>

-----------------------------------------------------------------------------
(* Setup, selection, execution                                             *)

\* The setup may panic, and so may the serialization of its value.
GlobalSetup ==
    \/ /\ Go("setup", "handoff")
       /\ set_up' = registry.setup
       /\ UNCHANGED <<pvars, args, registry, torn_down, selected, verdict,
                      recorded, document, finish_result>>
    \/ registry.setup /\ Panics("setup")

StateHandoff_capture ==
    \/ Go("handoff", "plan") /\ UNCHANGED <<pvars, cvars>>
    \/ registry.setup /\ Panics("handoff")

tag_set(values) == values \ {""}

apply_filter(cases) == IF args.filter THEN cases \cap Matching ELSE cases

apply_tag_filter(cases, include, exclude) ==
    {t \in cases : /\ include = {} \/ TagsOf[t] \cap include # {}
                   /\ TagsOf[t] \cap exclude = {}}

\* current_exe may fail: run returns past the teardown.
PlanSuite ==
    /\ \/ Go("plan", "running")
       \/ Errs("plan", FALSE)
    /\ selected' = apply_tag_filter(apply_filter(Cases), tag_set(args.tag),
                                                       tag_set(args.not_tag))
    /\ UNCHANGED <<pvars, args, registry, set_up, torn_down, verdict,
                   recorded, document, finish_result>>

Cap == IF args.no_capture THEN 1 ELSE args.jobs

\* A semaphore without permits.
Starved == Cap = 0 /\ selected \ Serial # {}

\* Every selected case gets its verdict ...
Execute ==
    /\ ~Starved
    /\ Go("running", "finish")
    /\ \E v \in [selected -> {"Passed", "Skipped", "Failed"}] :
         verdict' = [t \in Cases |-> IF t \in selected THEN v[t] ELSE verdict[t]]
    /\ UNCHANGED <<pvars, args, registry, set_up, torn_down, selected,
                   recorded, document, finish_result>>

\* ... unless the coordinator dies of a panic: a reporter's in the exclusive
\* phase, or its own while it prints the join error of a parallel task.
ExecutePanics ==
    /\ selected # {}
    /\ ~Starved
    /\ Panics("running")

-----------------------------------------------------------------------------
(* Publishing                                                              *)

Document(state) ==
    [state |-> state, preflight |-> recorded,
     cases |-> {<<t, verdict[t]>> : t \in {u \in Cases : verdict[u] # "NotRun"}}]

\* The file is written in place.
WriteBegins ==
    /\ args.reporter = "junit"
    /\ stage \in {"abort", "finish"}
    /\ document.state = "none"
    /\ document' = Document("torn")
    /\ UNCHANGED <<pvars, args, registry, stage, code, set_up, torn_down, selected,
                   verdict, recorded, finish_result>>

\* The stage after finish, from the abort and from the normal path.
AfterFinish == IF stage = "abort" THEN "aborted" ELSE "teardown"

\* A finish whose error leaves run at once.
finishWithQuestionMark ==
    /\ stage \in {"abort", "finish"}
    /\ IF args.reporter # "junit" \/ document.state = "torn"
       THEN /\ Go(stage, AfterFinish)
            /\ finish_result' = "Ok"
            /\ document' = IF args.reporter = "junit" THEN Document("whole") ELSE document
       ELSE /\ Errs(stage, stage = "abort")
            /\ finish_result' = "Err"
            /\ UNCHANGED document
    /\ UNCHANGED <<pvars, args, registry, set_up, torn_down, selected, verdict, recorded>>

\* The console's part of finish succeeds; the document's may fail, before or
\* after it has begun to write.
Finish ==
    /\ stage \in {"abort", "finish"}
    /\ \/ /\ args.reporter # "junit"
          /\ finish_result' = "Ok"
          /\ UNCHANGED document
       \/ /\ args.reporter = "junit"
          /\ document.state = "torn"
          /\ document' = Document("whole")
          /\ finish_result' = "Ok"
       \/ /\ args.reporter = "junit"
          /\ UNCHANGED document
          /\ finish_result' = "Err"
    /\ Go(stage, AfterFinish)
    /\ UNCHANGED <<pvars, args, registry, set_up, torn_down, selected, verdict, recorded>>

\* The console is told first, and printing the summary may panic: the document
\* is not even begun.
FinishPanics ==
    /\ stage \in {"abort", "finish"}
    /\ document.state = "none"
    /\ Panics(stage)

\* The teardown unpacks a value of the type it was declared for.
GlobalTeardown ==
    \/ /\ Go("teardown", "verdict")
       /\ registry.teardown => registry.teardown_fits
       /\ torn_down' = IF registry.teardown THEN torn_down + 1 ELSE torn_down
       /\ UNCHANGED <<pvars, args, registry, set_up, selected, verdict, recorded,
                      document, finish_result>>
    \/ registry.teardown /\ Panics("teardown")

total == Cardinality(selected)
Tally(v) == Cardinality({t \in selected : verdict[t] = v})
failed == total - Tally("Passed") - Tally("Skipped")

\* A return value that forgets the reporters' error.
ReturnDroppingErrors ==
    /\ Exits("verdict", IF failed > 0 THEN 1 ELSE 0)
    /\ UNCHANGED <<pvars, cvars>>

\* Failures come before the reporters' error.
Return ==
    /\ \/ (failed > 0 \/ finish_result = "Err") /\ Errs("verdict", FALSE)
       \/ failed = 0 /\ finish_result = "Ok" /\ Exits("verdict", 0)
    /\ UNCHANGED <<pvars, cvars>>

-----------------------------------------------------------------------------
\* A signal nobody handles.
KilledFromOutside ==
    /\ stage # "exited"
    /\ Exits(stage, Killed)
    /\ UNCHANGED <<pvars, cvars>>

Beginning == assert_singleton_registrations \/ build_reporter

PreflightPhase ==
    \/ handle_preflight_only \/ handle_preflight_phase
    \/ PreflightInvalid \/ PreflightPanics \/ PreflightAborts \/ Abort

Preparation == GlobalSetup \/ StateHandoff_capture \/ PlanSuite

Execution == Execute \/ ExecutePanics

Publishing == WriteBegins \/ Finish \/ FinishPanics \/ GlobalTeardown \/ Return

CEnded == stage = "exited" /\ UNCHANGED allvars

CNext ==
    \/ Beginning \/ preflight_step \/ PreflightPhase
    \/ Preparation \/ Execution \/ Publishing
    \/ KilledFromOutside \/ CEnded

\* Every attempt of the selected cases returns.
Bounded == selected \cap Endless = {}

\* run is polled, timers fire, and the user's setup and teardown return.  The
\* execution is only owed an end where every attempt in it returns.
CFairness ==
    /\ WF_allvars(Beginning \/ PreflightPhase \/ Preparation \/ Publishing)
    /\ WF_allvars(Bounded /\ Execute)
    /\ WF_allvars(preflight_step /\ (Begin \/ Built \/ Joined))
    /\ \A i \in 1 .. MaxProbes :
         WF_allvars(i \in DOMAIN outcome /\ preflight_step /\ (ProbeTimesOut(i)
                      \/ (probes[i].kind = "env" /\ ProbeAnswers(i))))

CSpec == CInit /\ [][CNext]_allvars /\ CFairness

-----------------------------------------------------------------------------
(* Properties                                                              *)

Exited(c) == stage = "exited" /\ code = c
Judged(t) == verdict[t] # "NotRun"

\* Nothing of the suite, the global setup included, runs unless preflight
\* passed or the operator waived exactly that: a failure may be waived, a
\* structural error or an unfinished probe may not (orchestrator.rs:46-73,
\* preflight_runner.rs:94-102).
GatedByPreflight ==
    set_up \/ (\E t \in Cases : Judged(t)) =>
        /\ ~args.preflight_only
        /\ \/ args.no_preflight
           \/ /\ pphase = "reported"
              /\ report.passed \/ args.continue_on_preflight_failure

\* Once the suite was judged, an exit of the coordinator's own has been
\* through the teardown, whatever the verdicts and the reporters said, and the
\* teardown never runs before the document is out (orchestrator.rs:546-565).
\* An error between the setup and the first case skips it.
TeardownPaired ==
    /\ torn_down > 0 => finish_result # "pending" /\ \A t \in selected : Judged(t)
    /\ (Exited(0) \/ Exited(1)) /\ finish_result # "pending" =>
          torn_down = (IF registry.teardown THEN 1 ELSE 0)
    /\ Exited(1) /\ set_up /\ registry.teardown /\ torn_down = 0 =>
          \A t \in Cases : ~Judged(t)

\* Green: every selected case passed or was skipped, and the document asked
\* for is there.  1: a case failed, the document is missing, or no case ran.
\* 2: preflight, and nothing else was touched (lib.rs:563-576).
ExitTellsTests ==
    /\ Exited(0) /\ ~args.preflight_only =>
         /\ \A t \in selected : verdict[t] \in {"Passed", "Skipped"}
         /\ args.reporter = "junit" => document.state = "whole"
    /\ Exited(0) /\ args.preflight_only =>
         \/ args.no_preflight \/ ~registered
         \/ pphase = "reported" /\ report.failed = 0
    /\ Exited(1) => \/ \E t \in selected : verdict[t] = "Failed"
                    \/ finish_result = "Err"
                    \/ \A t \in Cases : ~Judged(t)
    /\ Exited(2) => /\ ~set_up /\ torn_down = 0
                    /\ \A t \in Cases : ~Judged(t)
                    /\ ~args.no_preflight
                    /\ pphase = "invalid" \/ report.failed > 0

\* The document on disk, when it is whole, agrees with the run: all probes,
\* passed or not, and the final verdict of each selected case
\* (junit.rs:101-140, 363-376).
DocumentFaithful ==
    document.state = "whole" =>
        /\ document.preflight = (IF args.no_preflight THEN <<>> ELSE report.results)
        /\ document.cases = {<<t, verdict[t]>> : t \in selected}
        /\ \A t \in selected : Judged(t)

\* The binary as cargo-rigtest sees it.
Process == [junit |-> args.reporter = "junit", only |-> args.preflight_only,
            alive |-> stage # "exited",
            code |-> IF stage = "exited" THEN code ELSE Killed,
            part |-> document.state]

\* A run of the coordinator is a run of the process of module BinaryContract.
KeepsBinaryContract ==
    /\ Process = Started(args.reporter = "junit", args.preflight_only)
    /\ [][Process' \in Successors(Process)]_Process

\* The binary ends, unless the execution does not: there is not one permit for
\* a parallel case (--jobs 0), or a selected case may keep an attempt for ever,
\* without a deadline over a child that hangs or fills a pipe, or with a
\* descendant of the child at the other end of one; or unless a probe keeps the
\* preflight from settling (orchestrator.rs:532, schedule.rs:143,
\* subprocess.rs:126, 181, preflight_runner.rs:392-412).
CoordinatorEnds ==
    \/ <>(stage = "exited")
    \/ <>[](stage = "running" /\ (Starved \/ ~Bounded))
    \/ <>[]blocked
    \/ <>[]Unbounded
=============================================================================
