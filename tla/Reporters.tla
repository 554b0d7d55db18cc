------------------------------ MODULE Reporters ------------------------------
(***************************************************************************)
(* The reporters behind MultiReporter, told of an execution as it happens: *)
(* the live console (reporter.rs) and then the JUnit document (junit.rs),  *)
(* up to the call of finish that publishes what they have gathered.        *)
(*                                                                         *)
(* A handler locks its reporter's mutexes one at a time, and no two        *)
(* handlers ever run about the same case at once.  Their maps are keyed by *)
(* module and name, which tells cases apart, so the handlers of an event   *)
(* commute with those of other cases' events and take one step together    *)
(* with the step of run_test that calls them.  Only the console's spinners *)
(* are keyed by the bare name, which does not tell cases apart.            *)
(*                                                                         *)
(* The console is told first.  It prints after it has updated its maps,    *)
(* and printing may panic: then JUnit never hears of the event.            *)
(***************************************************************************)
EXTENDS Executor, Sequences

CONSTANTS
    NameOf,        \* case -> its bare name
    Tty            \* is stderr a terminal?

\* On a terminal every line goes through indicatif, whose errors are dropped.
ASSUME ReportersAssumption == Tty \in BOOLEAN /\ (Tty => MayPanic = {})

VARIABLES
    retry_counts,  \* case -> the retries counted and not yet taken
    flaky_passed,  \* how many passes were counted as flaky
    spinners,      \* bare name -> the case whose spinner is kept under it
    in_flight,     \* case started, not finalized -> the kinds of its failures
    finalized,     \* the test cases of the document, as they were finalized
    summary,       \* the console's summary line, once printed
    document,      \* the JUnit document, once written
    finish_result  \* "pending", "Ok", "Err" or, if finish panicked, "panic"

console == <<retry_counts, flaky_passed, spinners, summary>>
junit   == <<in_flight, finalized, document>>
rvars   == <<vars, console, junit, finish_result>>

FailureKinds == {"Assertion", "Panic", "Timeout", "Crash"}
TestCases    == [case   : Cases,
                 status : {"success", "skipped", "Failure", "Error"},
                 runs   : Seq(FailureKinds)]
Names        == {NameOf[t] : t \in Cases}

RTypeOK ==
    /\ retry_counts \in [Cases -> Nat]
    /\ flaky_passed \in Nat
    /\ spinners \in [Names -> SUBSET Cases]
    /\ in_flight \in [Cases -> SUBSET Seq(FailureKinds)]
    /\ finalized \in Seq(TestCases)
    /\ summary \in SUBSET [passed : Nat, skipped : Nat, failed : Nat, flaky : Nat]
    /\ document \in SUBSET [finalized : Seq(TestCases), crashed : SUBSET Cases]
    /\ finish_result \in {"pending", "Ok", "Err", "panic"}

RInit ==
    /\ Init
    /\ retry_counts = [t \in Cases |-> 0]
    /\ flaky_passed = 0
    /\ spinners = [n \in Names |-> {}]
    /\ in_flight = [t \in Cases |-> {}]
    /\ finalized = <<>>
    /\ summary = {}
    /\ document = {}
    /\ finish_result = "pending"

-----------------------------------------------------------------------------
(* The console                                                             *)

\* What the loop of run_test does with a failure.
RunsAgain(t) == Judged(t).plan = "Failed" /\ ~IsLast(t) /\ Judged(t).retryable
GivesUp(t)   == Judged(t).plan = "Failed" /\ ~RunsAgain(t)

take_spinner(t) == spinners' = [spinners EXCEPT ![NameOf[t]] = {}]

take_retries(t) == retry_counts' = [retry_counts EXCEPT ![t] = 0]

ConsoleStarted(t) ==
    /\ spinners' = IF Tty THEN [spinners EXCEPT ![NameOf[t]] = {t}] ELSE spinners
    /\ UNCHANGED <<retry_counts, flaky_passed, summary>>

\* A comparison that takes the first retry for a first attempt.
ConsolePassedLate(t) ==
    /\ Judged(t).plan = "Passed"
    /\ take_retries(t)
    /\ flaky_passed' = flaky_passed + (IF retry_counts[t] > 1 THEN 1 ELSE 0)
    /\ take_spinner(t)
    /\ UNCHANGED summary

ConsolePassed(t) ==
    /\ Judged(t).plan = "Passed"
    /\ take_retries(t)
    /\ flaky_passed' = flaky_passed + (IF retry_counts[t] > 0 THEN 1 ELSE 0)
    /\ take_spinner(t)
    /\ UNCHANGED summary

\* The retries of a skipped case are not taken.
ConsoleSkipped(t) ==
    /\ Judged(t).plan = "Skipped"
    /\ take_spinner(t)
    /\ UNCHANGED <<retry_counts, flaky_passed, summary>>

ConsoleFailed(t) ==
    /\ GivesUp(t)
    /\ take_retries(t)
    /\ take_spinner(t)
    /\ UNCHANGED <<flaky_passed, summary>>

ConsoleRetrying(t) ==
    /\ RunsAgain(t)
    /\ retry_counts' = [retry_counts EXCEPT ![t] = @ + 1]
    /\ UNCHANGED <<flaky_passed, spinners, summary>>

ConsoleTold(t) ==
    \/ ConsolePassed(t)
    \/ ConsoleSkipped(t)
    \/ ConsoleFailed(t)
    \/ ConsoleRetrying(t)

-----------------------------------------------------------------------------
(* The JUnit reporter                                                      *)

non_success_kind(outcome) ==
    IF outcome \in {"Assertion", "Panic"} THEN "Failure" ELSE "Error"

JunitStarted(t) ==
    /\ in_flight' = [in_flight EXCEPT ![t] = {<<>>}]
    /\ UNCHANGED <<finalized, document>>

\* take_progress; a case that is not in flight has no runs to list.
Finalize(t, status) ==
    /\ \E runs \in IF in_flight[t] = {} THEN {<<>>} ELSE in_flight[t] :
         finalized' = Append(finalized, [case |-> t, status |-> status, runs |-> runs])
    /\ in_flight' = [in_flight EXCEPT ![t] = {}]
    /\ UNCHANGED document

JunitPassed(t) == Judged(t).plan = "Passed" /\ Finalize(t, "success")

\* test_skipped without take_progress.
JunitSkippedInFlight(t) ==
    /\ Judged(t).plan = "Skipped"
    /\ finalized' = Append(finalized, [case |-> t, status |-> "skipped", runs |-> <<>>])
    /\ UNCHANGED <<in_flight, document>>

\* Whatever failed before, a skipped case lists no runs.
JunitSkipped(t) ==
    /\ Judged(t).plan = "Skipped"
    /\ finalized' = Append(finalized, [case |-> t, status |-> "skipped", runs |-> <<>>])
    /\ in_flight' = [in_flight EXCEPT ![t] = {}]
    /\ UNCHANGED document

\* The outcome itself where the schema asks for its kind.
JunitFailedByOutcome(t) == GivesUp(t) /\ Finalize(t, Judged(t).kind)

JunitFailed(t) == GivesUp(t) /\ Finalize(t, non_success_kind(Judged(t).kind))

record_attempt(t, kind) ==
    in_flight' = [in_flight EXCEPT ![t] = {Append(runs, kind) : runs \in @}]

\* A record that replaces the ones before it.
JunitRetryingOnce(t) ==
    /\ RunsAgain(t)
    /\ in_flight' = [in_flight EXCEPT ![t] = {<<Judged(t).kind>>}]
    /\ UNCHANGED <<finalized, document>>

JunitRetrying(t) ==
    /\ RunsAgain(t)
    /\ record_attempt(t, Judged(t).kind)
    /\ UNCHANGED <<finalized, document>>

JunitTold(t) ==
    \/ JunitPassed(t)
    \/ JunitSkipped(t)
    \/ JunitFailed(t)
    \/ JunitRetrying(t)

-----------------------------------------------------------------------------
(* MultiReporter                                                           *)

Starts(t) ==
    /\ AcquireGroupPermit(t) \/ StartExclusive(t)
    /\ ConsoleStarted(t)
    /\ JunitStarted(t)
    /\ UNCHANGED finish_result

Tells(t) ==
    /\ ReportSuccess(t) \/ ReportFailure(t) \/ Retry(t)
    /\ ConsoleTold(t)
    /\ JunitTold(t)
    /\ UNCHANGED finish_result

\* The console panics over its line, and the fan-out ends there.
ConsolePanics(t) ==
    /\ ReporterPanics(t)
    /\ ConsoleTold(t)
    /\ UNCHANGED <<junit, finish_result>>

-----------------------------------------------------------------------------
(* finish                                                                  *)

\* A document of the finalized cases alone.
build_report_finalized == [finalized |-> finalized, crashed |-> {}]

\* Cases still in flight are added as errors of type "crash".
build_report == [finalized |-> finalized,
                 crashed   |-> {t \in Cases : in_flight[t] # {}}]

\* The line the console prints; the failures are what is left of the total.
SummaryLine == [passed  |-> passed,
                skipped |-> skipped,
                failed  |-> Cardinality(Cases) - passed - skipped,
                flaky   |-> flaky_passed]

\* A coordinator that only publishes a run that passed.
FinishIfPassed ==
    /\ phase = "done"
    /\ finish_result = "pending"
    /\ SummaryLine.failed = 0
    /\ summary' = {SummaryLine}
    /\ document' = {build_report}
    /\ finish_result' = "Ok"
    /\ UNCHANGED <<vars, retry_counts, flaky_passed, spinners, in_flight, finalized>>

\* Every reporter is driven; the document may not be written.
Finish ==
    /\ phase = "done"
    /\ finish_result = "pending"
    /\ summary' = {SummaryLine}
    /\ \/ document' = {build_report} /\ finish_result' = "Ok"
       \/ document' = {} /\ finish_result' = "Err"
    /\ UNCHANGED <<vars, retry_counts, flaky_passed, spinners, in_flight, finalized>>

\* Printing the summary panics: the document is lost with it.
FinishPanics ==
    /\ phase = "done"
    /\ finish_result = "pending"
    /\ MayPanic # {}
    /\ finish_result' = "panic"
    /\ UNCHANGED <<vars, console, junit>>

-----------------------------------------------------------------------------
(* The execution with its reporters                                        *)

\* The steps no reporter is told of.
Unreported(t) ==
    /\ \/ AcquirePermit(t)
       \/ ChildEnds(t)
       \/ ChildTimesOut(t)
       \/ DropGroupPermit(t)
       \/ DropPermit(t)
       \/ JoinNext(t)
       \/ JoinErrorPanics(t)
    /\ UNCHANGED <<console, junit, finish_result>>

PhaseEnds ==
    /\ EndParallelPhase \/ EndExclusivePhase
    /\ UNCHANGED <<console, junit, finish_result>>

CaseStep(t) == Unreported(t) \/ Starts(t) \/ Tells(t) \/ ConsolePanics(t)

\* The process is past finish, or has died before.
Ended ==
    /\ phase = "crashed" \/ finish_result # "pending"
    /\ UNCHANGED rvars

RNext ==
    \/ \E t \in Cases : CaseStep(t)
    \/ PhaseEnds
    \/ Finish
    \/ FinishPanics
    \/ Ended

\* As in Executor; the coordinator does not stop between its phases.
RFairness ==
    /\ \A t \in Cases : WF_rvars(CaseStep(t))
    /\ WF_rvars(PhaseEnds)
    /\ WF_rvars(Finish)

RSpec == RInit /\ [][RNext]_rvars /\ RFairness

-----------------------------------------------------------------------------
(* Properties                                                              *)

Entries(status) == {i \in DOMAIN finalized : finalized[i].status = status}

\* Every case is in the document once, as what became of it or as a crash,
\* and the document agrees with the summary line the console printed: also
\* when a console panic kept an event from JUnit (junit.rs:122-134).
DocumentComplete ==
    \A d \in document, line \in summary :
        /\ \A i, j \in DOMAIN d.finalized :
             d.finalized[i].case = d.finalized[j].case => i = j
        /\ {d.finalized[i].case : i \in DOMAIN d.finalized} = Cases \ d.crashed
        /\ line.passed  = Cardinality(Entries("success"))
        /\ line.skipped = Cardinality(Entries("skipped"))
        /\ line.failed  = Cardinality(Entries("Failure") \cup Entries("Error"))
                            + Cardinality(d.crashed)

\* A finalized case lists one run for every attempt before its last, whoever
\* else retried in the meantime, and the document never lists a run its
\* matcher should have kept from being repeated (junit.rs:265-283, 299-336).
RunsFaithful ==
    \A i \in DOMAIN finalized :
        LET f == finalized[i]
        IN  /\ f.status # "skipped" => Len(f.runs) = attempt[f.case] - 1
            /\ f.case \in Matcher =>
                 \A k \in DOMAIN f.runs : f.runs[k] = "Assertion"

\* The console and JUnit agree on which passes were flaky, unless a panic of
\* the console came between them (reporter.rs:251-256, junit.rs:272-279).
FlakyAgrees ==
    (\A t \in Cases : result[t] # "JoinError") =>
        \A line \in summary :
            line.flaky = Cardinality({i \in Entries("success") :
                                        finalized[i].runs # <<>>})

\* What was said about a case is final: its entry stays, and it is not in
\* flight again (junit.rs:163-172).
EntriesAreFinal ==
    [][/\ \A i \in DOMAIN finalized : i \in DOMAIN finalized' /\ finalized'[i] = finalized[i]
       /\ \A i \in DOMAIN finalized : in_flight'[finalized[i].case] = {}]_rvars

\* A run whose process survives is summed up, however it went: the summary is
\* printed also where the document cannot be written, and finish returns the
\* error exactly then; only a panic of the console spares the rest
\* (reporter.rs:474-483, orchestrator.rs:546-549).
EventuallyPublished ==
    <>( \/ phase = "crashed"
        \/ finish_result = "panic"
        \/ summary # {} /\ (finish_result = "Err" <=> document = {}) )
=============================================================================
