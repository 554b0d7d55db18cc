--------------------------- MODULE ReportersProofs ---------------------------
(***************************************************************************)
(* Theorems about Reporters: what the console and the JUnit document say   *)
(* of an execution, for every set of cases, every way their children end   *)
(* and every panic of a reporter.                                          *)
(*                                                                         *)
(* The reporters never hold the executor up, so its invariants carry over. *)
(***************************************************************************)
EXTENDS Reporters, ExecutorProofs, FunctionTheorems, SequenceTheorems

-----------------------------------------------------------------------------
(* The executor under its reporters                                        *)

\* Every step of the composition is one of the executor, or none.
LEMMA StepsOfExecutor == [RNext]_rvars => [Next]_vars
<1> SUFFICES ASSUME [RNext]_rvars PROVE [Next]_vars
  OBVIOUS
<1>1. ASSUME NEW t \in Cases, CaseStep(t) PROVE Next
  BY <1>1 DEF CaseStep, Unreported, Starts, Tells, ConsolePanics, Next, TaskStep,
              CoordinatorStep
<1>2. CASE PhaseEnds
  BY <1>2 DEF PhaseEnds, Next, CoordinatorStep
<1>3. CASE Finish \/ FinishPanics \/ Ended \/ UNCHANGED rvars
  BY <1>3 DEF Finish, FinishPanics, Ended, rvars
<1> QED
  BY <1>1, <1>2, <1>3 DEF RNext

-----------------------------------------------------------------------------
(* The inductive invariant                                                 *)

Terminal == {"Passed", "Skipped", "Failed"}
Before   == {"spawned", "permitted"}
After    == {"returned", "ungrouped", "finished", "joined"}

\* A list of runs a document may show of a case in its n-th attempt.
RunsOf(t, n, runs) ==
    /\ Len(runs) = n - 1
    /\ t \in Matcher => \A k \in DOMAIN runs : runs[k] = "Assertion"

\* What both reporters keep of a case, by where its task stands: nothing before
\* it starts, one record with a run for every attempt before the current one
\* while it runs, and a record afterwards for a case they were told no more of.
FlightInv ==
    \A t \in Cases :
        /\ pc[t] \in Before => in_flight[t] = {} /\ retry_counts[t] = 0
        /\ pc[t] \in InTest =>
             /\ retry_counts[t] = attempt[t] - 1
             /\ \E runs \in in_flight[t] :
                  in_flight[t] = {runs} /\ RunsOf(t, attempt[t], runs)
        /\ pc[t] \in After => (in_flight[t] = {} <=> result[t] \in Terminal)

\* The status a document gives the outcome of a case.
Became(outcome, status) ==
    \/ outcome = "Passed"  /\ status = "success"
    \/ outcome = "Skipped" /\ status = "skipped"
    \/ outcome = "Failed"  /\ status \in {"Failure", "Error"}

EntryOK(f) ==
    /\ Became(result[f.case], f.status)
    /\ f.status # "skipped" => RunsOf(f.case, attempt[f.case], f.runs)
    /\ f.case \in Matcher => \A k \in DOMAIN f.runs : f.runs[k] = "Assertion"

\* One entry for each case that came to a result its reporters were told.
EntriesInv ==
    /\ \A i, j \in DOMAIN finalized : finalized[i].case = finalized[j].case => i = j
    /\ {finalized[i].case : i \in DOMAIN finalized} = {t \in Cases : result[t] \in Terminal}
    /\ \A i \in DOMAIN finalized : EntryOK(finalized[i])

FlakyEntries == {i \in Entries("success") : finalized[i].runs # <<>>}

\* The passes the console counted as flaky are those JUnit has runs of.
FlakyInv ==
    phase # "crashed" /\ (\A t \in Cases : result[t] # "JoinError") =>
        flaky_passed = Cardinality(FlakyEntries)

\* What finish publishes is what the reporters hold from then on.
PublishedInv ==
    IF finish_result \in {"Ok", "Err"}
    THEN phase = "done" /\ summary = {SummaryLine} /\ document \subseteq {build_report}
    ELSE summary = {} /\ document = {}


\* What is known of the executor.
ExecInv == RInv /\ LoopInv

\* What the reporters hold until they publish it.
HeldType ==
    /\ retry_counts \in [Cases -> Nat]
    /\ flaky_passed \in Nat
    /\ spinners \in [Names -> SUBSET Cases]
    /\ in_flight \in [Cases -> SUBSET Seq(FailureKinds)]
    /\ finalized \in Seq(TestCases)
    /\ finish_result \in {"pending", "Ok", "Err", "panic"}

RepInv == HeldType /\ FlightInv /\ EntriesInv /\ FlakyInv /\ PublishedInv

LEMMA InitRepInv == RInit => RepInv
<1> SUFFICES ASSUME RInit PROVE RepInv
  OBVIOUS
<1>1. finalized = <<>> /\ DOMAIN finalized = {}
  BY DEF RInit
<1>2. HeldType
  BY <1>1, EmptySeq DEF RInit, HeldType, Names
<1>3. FlightInv
  BY DEF RInit, Init, FlightInv, Before, InTest, After
<1>4. EntriesInv
  BY <1>1 DEF RInit, Init, EntriesInv, Terminal
<1>5. FlakyInv
  <2>1. FlakyEntries = {}
    BY <1>1 DEF FlakyEntries, Entries
  <2> QED
    BY <2>1, FS_EmptySet DEF RInit, FlakyInv
<1>6. PublishedInv
  BY DEF RInit, PublishedInv
<1> QED
  BY <1>2, <1>3, <1>4, <1>5, <1>6 DEF RepInv

-----------------------------------------------------------------------------
(* Steps no reporter is told of                                            *)

SameStage(u) ==
    /\ pc'[u] \in Before <=> pc[u] \in Before
    /\ pc'[u] \in InTest <=> pc[u] \in InTest
    /\ pc'[u] \in After  <=> pc[u] \in After

\* Nothing is published before the last phase is over.
LEMMA NotYetPublished ==
  ASSUME PublishedInv, phase \in {"parallel", "exclusive"},
         UNCHANGED <<summary, document, finish_result>>
  PROVE  PublishedInv'
BY DEF PublishedInv

\* A step that moves no case from one stage to another changes nothing here.
LEMMA StillReported ==
  ASSUME RepInv, UNCHANGED <<console, junit, finish_result, attempt, result>>,
         phase \in {"parallel", "exclusive"}, \A u \in Cases : SameStage(u)
  PROVE  RepInv'
<1> USE DEF console, junit
<1>1. HeldType'
  BY DEF RepInv, HeldType
<1>2. FlightInv'
  BY DEF RepInv, FlightInv, SameStage, RunsOf
<1>3. EntriesInv'
  BY DEF RepInv, EntriesInv, EntryOK, RunsOf, Became
<1>4. FlakyInv'
  <2>1. FlakyEntries' = FlakyEntries
    BY DEF FlakyEntries, Entries
  <2> QED
    BY <2>1 DEF RepInv, FlakyInv
<1>5. PublishedInv'
  BY NotYetPublished DEF RepInv
<1> QED
  BY <1>1, <1>2, <1>3, <1>4, <1>5 DEF RepInv

LEMMA UnreportedKeeps ==
  ASSUME TypeOK, RepInv, NEW t \in Cases, Unreported(t)
  PROVE  RepInv'
<1>1. /\ phase \in {"parallel", "exclusive"}
      /\ UNCHANGED <<console, junit, finish_result, attempt, result>>
  BY DEF Unreported, AcquirePermit, ChildEnds, ChildTimesOut, DropGroupPermit,
         DropPermit, JoinNext, JoinErrorPanics
<1>2. \/ \E stage \in {Before, InTest, After} : 
            /\ pc[t] \in stage
            /\ \E next \in stage : pc' = [pc EXCEPT ![t] = next]
      \/ pc' = pc
  BY DEF Unreported, AcquirePermit, ChildEnds, ChildTimesOut, DropGroupPermit,
         DropPermit, JoinNext, JoinErrorPanics, Before, InTest, After
<1>3. \A u \in Cases : SameStage(u)
  BY <1>2 DEF SameStage, Before, InTest, After, TypeOK
<1> QED
  BY <1>1, <1>3, StillReported

LEMMA PhaseEndsKeeps ==
  ASSUME RepInv, PhaseEnds
  PROVE  RepInv'
<1>1. /\ phase \in {"parallel", "exclusive"}
      /\ UNCHANGED <<console, junit, finish_result, attempt, result, pc>>
  BY DEF PhaseEnds, EndParallelPhase, EndExclusivePhase
<1>2. \A u \in Cases : SameStage(u)
  BY <1>1 DEF SameStage
<1> QED
  BY <1>1, <1>2, StillReported

-----------------------------------------------------------------------------
(* A case starts                                                           *)

LEMMA StartsKeeps ==
  ASSUME ExecInv, RepInv, NEW t \in Cases, Starts(t)
  PROVE  RepInv'
<1>1. /\ phase \in {"parallel", "exclusive"}
      /\ pc[t] \in Before
      /\ pc' = [pc EXCEPT ![t] = "running"]
      /\ attempt' = [attempt EXCEPT ![t] = @ + 1]
      /\ UNCHANGED <<phase, result>>
  BY DEF Starts, AcquireGroupPermit, StartExclusive, SpawnAttempt, Before
<1>2. /\ in_flight' = [in_flight EXCEPT ![t] = {<<>>}]
      /\ spinners' = IF Tty THEN [spinners EXCEPT ![NameOf[t]] = {t}] ELSE spinners
      /\ UNCHANGED <<retry_counts, flaky_passed, summary, finalized, document, finish_result>>
  BY DEF Starts, ConsoleStarted, JunitStarted
<1>3. /\ attempt \in [Cases -> Nat] /\ pc \in [Cases -> PCs]
      /\ attempt[t] = 0 /\ result[t] = "none"
  BY <1>1 DEF ExecInv, LoopInv, RInv, IInv, TypeOK, ResultInv, Before
<1>4. HeldType'
  <2>1. <<>> \in Seq(FailureKinds)
    BY EmptySeq
  <2>2. in_flight' \in [Cases -> SUBSET Seq(FailureKinds)]
    BY <1>2, <2>1 DEF RepInv, HeldType
  <2>3. spinners' \in [Names -> SUBSET Cases]
    BY <1>2 DEF RepInv, HeldType, Names
  <2> QED
    BY <1>2, <2>2, <2>3 DEF RepInv, HeldType
<1>5. FlightInv'
  <2>1. /\ in_flight \in [Cases -> SUBSET Seq(FailureKinds)]
        /\ retry_counts[t] = 0 /\ retry_counts' = retry_counts
    BY <1>1, <1>2 DEF RepInv, HeldType, FlightInv
  <2>2. RunsOf(t, 1, <<>>)
    BY DEF RunsOf
  <2>3. in_flight'[t] = {<<>>} /\ attempt'[t] = 1 /\ pc'[t] = "running"
    BY <1>1, <1>2, <1>3, <2>1
  <2>4. ASSUME NEW u \in Cases, u # t
        PROVE  /\ in_flight'[u] = in_flight[u] /\ attempt'[u] = attempt[u]
               /\ pc'[u] = pc[u] /\ result'[u] = result[u]
    BY <1>1, <1>2, <1>3, <2>1, <2>4
  <2>5. ASSUME NEW u \in Cases
        PROVE  /\ pc'[u] \in Before => in_flight'[u] = {} /\ retry_counts'[u] = 0
               /\ pc'[u] \in InTest =>
                    /\ retry_counts'[u] = attempt'[u] - 1
                    /\ \E runs \in in_flight'[u] :
                         in_flight'[u] = {runs} /\ RunsOf(u, attempt'[u], runs)
               /\ pc'[u] \in After => (in_flight'[u] = {} <=> result'[u] \in Terminal)
    <3>1. CASE u = t
      BY <2>1, <2>2, <2>3, <3>1 DEF Before, InTest, After
    <3>2. CASE u # t
      BY <2>1, <2>4, <3>2 DEF RepInv, FlightInv
    <3> QED
      BY <3>1, <3>2
  <2> QED
    BY <2>5 DEF FlightInv, RunsOf
<1>6. EntriesInv'
  <2>1. \A i \in DOMAIN finalized : finalized[i].case # t
    BY <1>3 DEF RepInv, EntriesInv, Terminal
  <2>2. \A i \in DOMAIN finalized : finalized[i].case \in Cases
    BY DEF RepInv, EntriesInv
  <2>3. \A i \in DOMAIN finalized : attempt'[finalized[i].case] = attempt[finalized[i].case]
    BY <1>1, <1>3, <2>1, <2>2
  <2>4. \A i \in DOMAIN finalized : EntryOK(finalized[i])'
    BY <1>1, <1>2, <2>3 DEF RepInv, EntriesInv, EntryOK, RunsOf, Became
  <2> QED
    BY <1>1, <1>2, <2>4 DEF RepInv, EntriesInv
<1>7. FlakyInv'
  <2>1. FlakyEntries' = FlakyEntries
    BY <1>2 DEF FlakyEntries, Entries
  <2> QED
    BY <1>1, <1>2, <2>1 DEF RepInv, FlakyInv
<1>8. PublishedInv'
  BY <1>1, <1>2, NotYetPublished DEF RepInv
<1> QED
  BY <1>4, <1>5, <1>6, <1>7, <1>8 DEF RepInv

-----------------------------------------------------------------------------
(* The events of an attempt                                                *)

\* A failure has a kind JUnit can list; under a matcher only an assertion is
\* run again.
LEMMA JudgedFailure ==
  ASSUME TypeOK, NEW t \in Cases, Judged(t).plan = "Failed"
  PROVE  /\ Judged(t).kind \in FailureKinds
         /\ Judged(t).retryable /\ t \in Matcher => Judged(t).kind = "Assertion"
<1>1. raw[t].status \in {"Passed", "Skipped", "Failed", "TimedOut", "Err"}
  BY DEF TypeOK, RawOutcomes
<1>2. CASE raw[t].status \in {"Passed", "Skipped"}
  BY <1>2 DEF Judged, plan
<1>3. CASE raw[t].status = "Failed"
  BY <1>3 DEF Judged, plan, classify_failed, FailureKinds
<1>4. CASE raw[t].status = "TimedOut"
  BY <1>4 DEF Judged, plan, FailureKinds
<1>5. CASE raw[t].status = "Err"
  BY <1>5 DEF Judged, plan, FailureKinds
<1> QED
  BY <1>1, <1>2, <1>3, <1>4, <1>5

\* A case in its attempt has neither a result nor an entry.
LEMMA Undecided ==
  ASSUME ExecInv, RepInv, NEW t \in Cases, pc[t] = "attempted"
  PROVE  /\ result[t] = "none"
         /\ \A i \in DOMAIN finalized : finalized[i].case # t
<1>1. result[t] = "none"
  BY DEF ExecInv, RInv, ResultInv
<1> QED
  BY <1>1 DEF RepInv, EntriesInv, Terminal

\* A retry: one attempt, one retry and one run more on every side.
LEMMA RetryKeeps ==
  ASSUME ExecInv, RepInv, NEW t \in Cases, Retry(t), RunsAgain(t),
         ConsoleRetrying(t), JunitRetrying(t), UNCHANGED finish_result
  PROVE  RepInv'
<1>1. /\ phase \in {"parallel", "exclusive"}
      /\ pc[t] = "attempted"
      /\ pc' = [pc EXCEPT ![t] = "running"]
      /\ attempt' = [attempt EXCEPT ![t] = @ + 1]
      /\ UNCHANGED <<phase, result>>
  BY DEF Retry, SpawnAttempt
<1>2. /\ in_flight' = [in_flight EXCEPT ![t] = {Append(runs, Judged(t).kind) : runs \in @}]
      /\ retry_counts' = [retry_counts EXCEPT ![t] = @ + 1]
      /\ UNCHANGED <<flaky_passed, spinners, summary, finalized, document, finish_result>>
  BY DEF ConsoleRetrying, JunitRetrying, record_attempt
<1>3. /\ attempt \in [Cases -> Nat] /\ pc \in [Cases -> PCs]
      /\ in_flight \in [Cases -> SUBSET Seq(FailureKinds)]
      /\ retry_counts \in [Cases -> Nat]
  BY DEF ExecInv, RInv, IInv, TypeOK, RepInv, HeldType
<1>4. PICK runs \in Seq(FailureKinds) :
        in_flight[t] = {runs} /\ RunsOf(t, attempt[t], runs)
  BY <1>1, <1>3 DEF RepInv, FlightInv, InTest
<1>5. /\ Judged(t).kind \in FailureKinds
      /\ t \in Matcher => Judged(t).kind = "Assertion"
  BY JudgedFailure DEF RunsAgain, ExecInv, RInv, IInv
<1>6. PICK kind \in FailureKinds : kind = Judged(t).kind
  BY <1>5
<1> DEFINE more == Append(runs, kind)
<1>7. /\ more \in Seq(FailureKinds) /\ Len(more) = Len(runs) + 1 /\ Len(runs) \in Nat
      /\ DOMAIN runs = 1 .. Len(runs) /\ DOMAIN more = 1 .. Len(runs) + 1
      /\ \A k \in 1 .. Len(runs) : more[k] = runs[k]
      /\ more[Len(runs) + 1] = kind
  BY AppendProperties, LenProperties
<1>8. in_flight'[t] = {more} /\ retry_counts'[t] = attempt'[t] - 1
  BY <1>1, <1>2, <1>3, <1>4, <1>6 DEF RepInv, FlightInv, InTest
<1>9. RunsOf(t, attempt'[t], more)
  <2>1. Len(more) = attempt'[t] - 1
    BY <1>1, <1>3, <1>4, <1>7 DEF RunsOf
  <2>2. ASSUME t \in Matcher, NEW k \in DOMAIN more PROVE more[k] = "Assertion"
    BY <1>4, <1>5, <1>6, <1>7, <2>2 DEF RunsOf
  <2> QED
    BY <2>1, <2>2 DEF RunsOf
<1> HIDE DEF more
<1>10. HeldType'
  <2>1. in_flight' \in [Cases -> SUBSET Seq(FailureKinds)]
    <3>1. in_flight' = [in_flight EXCEPT ![t] = {more}]
      BY <1>2, <1>3, <1>8
    <3> QED
      BY <1>3, <1>7, <3>1
  <2> QED
    BY <1>2, <2>1 DEF RepInv, HeldType
<1>11. FlightInv'
  <2>1. ASSUME NEW u \in Cases, u # t
        PROVE  /\ in_flight'[u] = in_flight[u] /\ attempt'[u] = attempt[u]
               /\ retry_counts'[u] = retry_counts[u]
               /\ pc'[u] = pc[u] /\ result'[u] = result[u]
    BY <1>1, <1>2, <1>3, <2>1
  <2>2. ASSUME NEW u \in Cases
        PROVE  /\ pc'[u] \in Before => in_flight'[u] = {} /\ retry_counts'[u] = 0
               /\ pc'[u] \in InTest =>
                    /\ retry_counts'[u] = attempt'[u] - 1
                    /\ \E r \in in_flight'[u] :
                         in_flight'[u] = {r} /\ RunsOf(u, attempt'[u], r)
               /\ pc'[u] \in After => (in_flight'[u] = {} <=> result'[u] \in Terminal)
    <3>1. CASE u = t
      BY <1>1, <1>3, <1>8, <1>9, <3>1 DEF Before, InTest, After
    <3>2. CASE u # t
      BY <2>1, <3>2 DEF RepInv, FlightInv
    <3> QED
      BY <3>1, <3>2
  <2> QED
    BY <2>2 DEF FlightInv, RunsOf
<1>12. EntriesInv'
  <2>1. \A i \in DOMAIN finalized : finalized[i].case # t
    BY <1>1, Undecided
  <2>2. \A i \in DOMAIN finalized : finalized[i].case \in Cases
    BY DEF RepInv, EntriesInv
  <2>3. \A i \in DOMAIN finalized : attempt'[finalized[i].case] = attempt[finalized[i].case]
    BY <1>1, <1>3, <2>1, <2>2
  <2>4. \A i \in DOMAIN finalized : EntryOK(finalized[i])'
    BY <1>1, <1>2, <2>3 DEF RepInv, EntriesInv, EntryOK, RunsOf, Became
  <2> QED
    BY <1>1, <1>2, <2>4 DEF RepInv, EntriesInv
<1>13. FlakyInv'
  <2>1. FlakyEntries' = FlakyEntries
    BY <1>2 DEF FlakyEntries, Entries
  <2> QED
    BY <1>1, <1>2, <2>1 DEF RepInv, FlakyInv
<1>14. PublishedInv'
  BY <1>1, <1>2, NotYetPublished DEF RepInv
<1> QED
  BY <1>10, <1>11, <1>12, <1>13, <1>14 DEF RepInv

-----------------------------------------------------------------------------
(* The terminal event of a case                                            *)

\* What both reporters do with the result v of t, whichever it is.
Concluded(t, v, status, runs) ==
    /\ result' = [result EXCEPT ![t] = v]
    /\ \E next \in After : pc' = [pc EXCEPT ![t] = next]
    /\ UNCHANGED <<phase, attempt, summary, document, finish_result>>
    /\ finalized' = Append(finalized, [case |-> t, status |-> status, runs |-> runs])
    /\ in_flight' = [in_flight EXCEPT ![t] = {}]
    /\ retry_counts' \in {retry_counts, [retry_counts EXCEPT ![t] = 0]}
    /\ flaky_passed' = flaky_passed + (IF v = "Passed" /\ retry_counts[t] > 0 THEN 1 ELSE 0)
    /\ spinners' = [spinners EXCEPT ![NameOf[t]] = {}]

\* The entry and the result of a case come to be in one step.
LEMMA ConcludedKeeps ==
  ASSUME ExecInv, RepInv, NEW t \in Cases, NEW v \in Terminal, NEW status, NEW runs,
         phase \in {"parallel", "exclusive"}, pc[t] = "attempted",
         Became(v, status),
         IF v = "Skipped" THEN runs = <<>> ELSE in_flight[t] = {runs},
         Concluded(t, v, status, runs)
  PROVE  RepInv'
<1> DEFINE n == Len(finalized)
           entry == [case |-> t, status |-> status, runs |-> runs]
<1>1. /\ finalized \in Seq(TestCases) /\ n \in Nat /\ DOMAIN finalized = 1 .. n
      /\ in_flight \in [Cases -> SUBSET Seq(FailureKinds)]
      /\ retry_counts \in [Cases -> Nat] /\ flaky_passed \in Nat
      /\ pc \in [Cases -> PCs] /\ result \in [Cases -> Results]
  BY LenProperties DEF RepInv, HeldType, ExecInv, RInv, IInv, TypeOK
<1>2. /\ runs \in Seq(FailureKinds)
      /\ v # "Skipped" => RunsOf(t, attempt[t], runs)
      /\ v # "Skipped" => Len(runs) = retry_counts[t]
      /\ t \in Matcher => \A k \in DOMAIN runs : runs[k] = "Assertion"
  <2>1. CASE v = "Skipped"
    BY <2>1, EmptySeq
  <2>2. CASE v # "Skipped"
    BY <1>1, <2>2 DEF RepInv, FlightInv, InTest, RunsOf
  <2> QED
    BY <2>1, <2>2
<1>3. status \in {"success", "skipped", "Failure", "Error"}
  BY DEF Became, Terminal
<1>4. entry \in TestCases
  BY <1>2, <1>3 DEF TestCases
<1>5. /\ finalized' \in Seq(TestCases) /\ DOMAIN finalized' = 1 .. n + 1
      /\ \A i \in 1 .. n : finalized'[i] = finalized[i]
      /\ finalized'[n + 1] = entry
  <2>1. finalized' = Append(finalized, entry)
    BY DEF Concluded
  <2>2. /\ Append(finalized, entry) \in Seq(TestCases)
        /\ Len(Append(finalized, entry)) = n + 1
        /\ \A i \in 1 .. n : Append(finalized, entry)[i] = finalized[i]
        /\ Append(finalized, entry)[n + 1] = entry
    BY <1>1, <1>4, AppendProperties
  <2>3. DOMAIN finalized' = 1 .. Len(finalized')
    BY <2>1, <2>2, LenProperties
  <2> QED
    BY <2>1, <2>2, <2>3
<1>6. result[t] = "none" /\ \A i \in 1 .. n : finalized[i].case # t
  BY <1>1, Undecided
<1>7. /\ result'[t] = v /\ in_flight'[t] = {} /\ pc'[t] \in After
      /\ \A u \in Cases : u # t =>
           /\ result'[u] = result[u] /\ in_flight'[u] = in_flight[u]
           /\ retry_counts'[u] = retry_counts[u] /\ pc'[u] = pc[u]
  BY <1>1 DEF Concluded
<1>8. entry.case = t /\ entry.status = status /\ entry.runs = runs
  OBVIOUS
<1> HIDE DEF entry, n
<1>9. HeldType'
  <2>1. in_flight' \in [Cases -> SUBSET Seq(FailureKinds)]
    BY <1>1 DEF Concluded
  <2>2. retry_counts' \in [Cases -> Nat] /\ flaky_passed' \in Nat
    BY <1>1 DEF Concluded
  <2>3. spinners' \in [Names -> SUBSET Cases]
    BY DEF RepInv, HeldType, Concluded
  <2>4. finish_result' \in {"pending", "Ok", "Err", "panic"}
    BY DEF RepInv, HeldType, Concluded
  <2> QED
    BY <1>5, <2>1, <2>2, <2>3, <2>4 DEF HeldType
<1>10. FlightInv'
  <2>1. ASSUME NEW u \in Cases
        PROVE  /\ pc'[u] \in Before => in_flight'[u] = {} /\ retry_counts'[u] = 0
               /\ pc'[u] \in InTest =>
                    /\ retry_counts'[u] = attempt'[u] - 1
                    /\ \E r \in in_flight'[u] :
                         in_flight'[u] = {r} /\ RunsOf(u, attempt'[u], r)
               /\ pc'[u] \in After => (in_flight'[u] = {} <=> result'[u] \in Terminal)
    <3>1. CASE u = t
      BY <1>7, <3>1 DEF Before, InTest, After
    <3>2. CASE u # t
      BY <1>7, <3>2 DEF RepInv, FlightInv, Concluded
    <3> QED
      BY <3>1, <3>2
  <2> QED
    BY <2>1 DEF FlightInv, RunsOf
<1>11. EntriesInv'
  <2> DEFINE of(i) == finalized[i].case
             ofNext(i) == finalized'[i].case
  <2>1. /\ ofNext(n + 1) = t
        /\ \A i \in 1 .. n : ofNext(i) = of(i) /\ of(i) # t
    BY <1>5, <1>6, <1>8
  <2>2. \A i, j \in 1 .. n : of(i) = of(j) => i = j
    BY <1>1 DEF RepInv, EntriesInv
  <2>3. \A i \in 1 .. n + 1 : i \in 1 .. n \/ i = n + 1
    BY <1>1
  <2>4. \A i \in 1 .. n : i \in 1 .. n + 1
    BY <1>1
  <2>5. n + 1 \in 1 .. n + 1
    BY <1>1
  <2>6. DOMAIN finalized = 1 .. n /\ DOMAIN finalized' = 1 .. n + 1
    BY <1>1, <1>5
  <2>7. \A i, j \in DOMAIN finalized' : ofNext(i) = ofNext(j) => i = j
    <3> HIDE DEF of, ofNext
    <3> QED
      BY <2>1, <2>2, <2>3, <2>6, ZenonT(60)
  <2>8. {ofNext(i) : i \in DOMAIN finalized'} = {of(i) : i \in DOMAIN finalized} \cup {t}
    <3> HIDE DEF of, ofNext
    <3> QED
      BY <2>1, <2>3, <2>4, <2>5, <2>6, Zenon
  <2>9. {u \in Cases : result'[u] \in Terminal} = {u \in Cases : result[u] \in Terminal} \cup {t}
    BY <1>7
  <2>10. ASSUME NEW i \in DOMAIN finalized' PROVE EntryOK(finalized[i])'
    <3>1. CASE i \in 1 .. n
      <4>1. finalized'[i] = finalized[i] /\ finalized[i].case # t /\ finalized[i].case \in Cases
        BY <1>1, <1>5, <1>6, <3>1 DEF RepInv, EntriesInv
      <4>2. /\ result'[finalized[i].case] = result[finalized[i].case]
            /\ attempt' = attempt
        BY <1>7, <4>1 DEF Concluded
      <4>3. EntryOK(finalized[i])
        BY <1>1, <3>1 DEF RepInv, EntriesInv
      <4> QED
        BY <4>1, <4>2, <4>3 DEF EntryOK, RunsOf, Became
    <3>2. CASE i = n + 1
      <4>1. status # "skipped" => v # "Skipped"
        BY DEF Became, Terminal
      <4>2. finalized'[i] = entry /\ attempt' = attempt
        BY <1>5, <3>2 DEF Concluded
      <4>3. status # "skipped" => RunsOf(t, attempt[t], runs)
        BY <1>2, <4>1
      <4> QED
        BY <1>2, <1>7, <1>8, <4>2, <4>3 DEF EntryOK, RunsOf, Became
    <3> QED
      BY <1>1, <1>5, <3>1, <3>2
  <2> QED
    BY <2>7, <2>8, <2>9, <2>10 DEF RepInv, EntriesInv
<1>12. FlakyInv'
  <2> SUFFICES ASSUME phase' # "crashed", \A u \in Cases : result'[u] # "JoinError"
               PROVE  flaky_passed' = Cardinality(FlakyEntries')
    BY DEF FlakyInv
  <2>1. \A u \in Cases : result[u] # "JoinError"
    BY <1>6, <1>7
  <2>2. flaky_passed = Cardinality(FlakyEntries)
    BY <2>1 DEF RepInv, FlakyInv
  <2>3. FlakyEntries \in SUBSET (1 .. n)
    BY <1>1 DEF FlakyEntries, Entries
  <2>4. IsFiniteSet(FlakyEntries) /\ n + 1 \notin FlakyEntries
    <3>1. IsFiniteSet(1 .. n)
      BY <1>1, FS_Interval
    <3>2. n + 1 \notin 1 .. n
      BY <1>1
    <3> QED
      BY <2>3, <3>1, <3>2, FS_Subset
  <2>5. v = "Passed" <=> status = "success"
    BY DEF Became, Terminal
  <2>6. runs # <<>> <=> Len(runs) > 0
    BY <1>2, EmptySeq
  <2>7. CASE v = "Passed" /\ retry_counts[t] > 0
    <3>1. FlakyEntries' = FlakyEntries \cup {n + 1}
      BY <1>1, <1>2, <1>5, <1>8, <2>5, <2>6, <2>7 DEF FlakyEntries, Entries
    <3> QED
      BY <1>1, <2>2, <2>4, <2>7, <3>1, FS_AddElement DEF Concluded
  <2>8. CASE ~(v = "Passed" /\ retry_counts[t] > 0)
    <3>1. FlakyEntries' = FlakyEntries
      BY <1>1, <1>2, <1>5, <1>8, <2>5, <2>6, <2>8 DEF FlakyEntries, Entries
    <3> QED
      BY <1>1, <2>2, <2>8, <3>1 DEF Concluded
  <2> QED
    BY <2>7, <2>8
<1>13. PublishedInv'
  BY NotYetPublished DEF RepInv, Concluded
<1> QED
  BY <1>9, <1>10, <1>11, <1>12, <1>13 DEF RepInv

\* What the loop of run_test does decides which handler each reporter runs.
LEMMA TellsKeeps ==
  ASSUME ExecInv, RepInv, NEW t \in Cases, Tells(t)
  PROVE  RepInv'
<1>1. /\ phase \in {"parallel", "exclusive"} /\ pc[t] = "attempted"
      /\ ConsoleTold(t) /\ JunitTold(t) /\ UNCHANGED finish_result
  BY DEF Tells, ReportSuccess, ReportFailure, Retry
<1>2. CASE Retry(t)
  <2>1. RunsAgain(t)
    BY <1>2 DEF Retry, RunsAgain
  <2>2. ConsoleRetrying(t) /\ JunitRetrying(t)
    BY <1>1, <2>1 DEF ConsoleTold, JunitTold, RunsAgain, GivesUp, ConsolePassed,
                      ConsoleSkipped, ConsoleFailed, JunitPassed, JunitSkipped, JunitFailed
  <2> QED
    BY <1>1, <1>2, <2>1, <2>2, RetryKeeps
<1>3. PICK runs : in_flight[t] = {runs}
  BY <1>1 DEF RepInv, FlightInv, InTest
<1>4. ASSUME NEW v \in Terminal, Return(t, v)
      PROVE  /\ result' = [result EXCEPT ![t] = v]
             /\ \E next \in After : pc' = [pc EXCEPT ![t] = next]
             /\ UNCHANGED <<phase, attempt>>
  BY <1>4 DEF Return, After
<1>5. CASE ReportSuccess(t) /\ Judged(t).plan = "Passed"
  <2>1. ~GivesUp(t) /\ ~RunsAgain(t) /\ Return(t, "Passed")
    BY <1>5 DEF GivesUp, RunsAgain, ReportSuccess
  <2>2. ConsolePassed(t) /\ JunitPassed(t)
    BY <1>1, <1>5, <2>1 DEF ConsoleTold, JunitTold, ConsoleSkipped, ConsoleFailed,
                            ConsoleRetrying, JunitSkipped, JunitFailed, JunitRetrying
  <2>3. Concluded(t, "Passed", "success", runs)
    BY <1>1, <1>3, <1>4, <2>1, <2>2
       DEF Terminal, Concluded, ConsolePassed, take_retries, take_spinner, JunitPassed, Finalize
  <2> QED
    BY <1>1, <1>3, <2>3, ConcludedKeeps DEF Terminal, Became
<1>6. CASE ReportSuccess(t) /\ Judged(t).plan = "Skipped"
  <2>1. ~GivesUp(t) /\ ~RunsAgain(t) /\ Return(t, "Skipped")
    BY <1>6 DEF GivesUp, RunsAgain, ReportSuccess
  <2>2. ConsoleSkipped(t) /\ JunitSkipped(t)
    BY <1>1, <1>6, <2>1 DEF ConsoleTold, JunitTold, ConsolePassed, ConsoleFailed,
                            ConsoleRetrying, JunitPassed, JunitFailed, JunitRetrying
  <2>3. flaky_passed \in Nat
    BY DEF RepInv, HeldType
  <2>4. Concluded(t, "Skipped", "skipped", <<>>)
    BY <1>1, <1>4, <2>1, <2>2, <2>3
       DEF Terminal, Concluded, ConsoleSkipped, take_spinner, JunitSkipped
  <2> QED
    BY <1>1, <2>4, ConcludedKeeps DEF Terminal, Became
<1>7. CASE ReportFailure(t)
  <2>1. GivesUp(t) /\ ~RunsAgain(t) /\ Return(t, "Failed") /\ Judged(t).plan = "Failed"
    BY <1>7 DEF GivesUp, RunsAgain, ReportFailure
  <2>2. ConsoleFailed(t) /\ JunitFailed(t)
    BY <1>1, <2>1 DEF ConsoleTold, JunitTold, ConsolePassed, ConsoleSkipped,
                      ConsoleRetrying, JunitPassed, JunitSkipped, JunitRetrying
  <2>3. flaky_passed \in Nat
    BY DEF RepInv, HeldType
  <2>4. PICK status : status = non_success_kind(Judged(t).kind)
    OBVIOUS
  <2>5. Became("Failed", status)
    BY <2>4 DEF non_success_kind, Became
  <2>6. Concluded(t, "Failed", status, runs)
    BY <1>1, <1>3, <1>4, <2>1, <2>2, <2>3, <2>4
       DEF Terminal, Concluded, ConsoleFailed, take_retries, take_spinner, JunitFailed, Finalize
  <2> QED
    BY <1>1, <1>3, <2>5, <2>6, ConcludedKeeps DEF Terminal
<1> QED
  BY <1>2, <1>5, <1>6, <1>7 DEF Tells, ReportSuccess

\* The console dies over its line: JUnit keeps the case in flight.
LEMMA ConsolePanicsKeeps ==
  ASSUME ExecInv, RepInv, NEW t \in Cases, ConsolePanics(t)
  PROVE  RepInv'
<1>1. /\ phase \in {"parallel", "exclusive"} /\ pc[t] = "attempted"
      /\ pc' = [pc EXCEPT ![t] = "returned"]
      /\ \/ phase' = "crashed" /\ UNCHANGED result
         \/ result' = [result EXCEPT ![t] = "JoinError"] /\ UNCHANGED phase
      /\ UNCHANGED attempt
  BY DEF ConsolePanics, ReporterPanics
<1>2. UNCHANGED <<in_flight, finalized, document, finish_result, summary>>
  BY DEF ConsolePanics, junit, ConsoleTold, ConsolePassed, ConsoleSkipped, ConsoleFailed,
         ConsoleRetrying
<1>3. /\ attempt \in [Cases -> Nat] /\ pc \in [Cases -> PCs] /\ result \in [Cases -> Results]
      /\ in_flight \in [Cases -> SUBSET Seq(FailureKinds)]
      /\ retry_counts \in [Cases -> Nat] /\ flaky_passed \in Nat
  BY DEF ExecInv, RInv, IInv, TypeOK, RepInv, HeldType
<1>4. /\ retry_counts' \in {retry_counts, [retry_counts EXCEPT ![t] = 0],
                            [retry_counts EXCEPT ![t] = @ + 1]}
      /\ flaky_passed' \in {flaky_passed, flaky_passed + 1}
      /\ spinners' \in {spinners, [spinners EXCEPT ![NameOf[t]] = {}]}
  BY <1>3 DEF ConsolePanics, ConsoleTold, ConsolePassed, ConsoleSkipped, ConsoleFailed,
              ConsoleRetrying, take_retries, take_spinner
<1>5. /\ result[t] = "none" /\ \A i \in DOMAIN finalized : finalized[i].case # t
      /\ in_flight[t] # {}
  BY <1>1, Undecided DEF RepInv, FlightInv, InTest
<1>6. /\ pc'[t] = "returned" /\ result'[t] \in {"none", "JoinError"}
      /\ \A u \in Cases : u # t => /\ pc'[u] = pc[u] /\ result'[u] = result[u]
                                   /\ retry_counts'[u] = retry_counts[u]
  BY <1>1, <1>3, <1>4, <1>5
<1>7. HeldType'
  <2>1. retry_counts' \in [Cases -> Nat] /\ flaky_passed' \in Nat
    BY <1>3, <1>4
  <2>2. spinners' \in [Names -> SUBSET Cases]
    BY <1>4 DEF RepInv, HeldType
  <2> QED
    BY <1>2, <2>1, <2>2 DEF RepInv, HeldType
<1>8. FlightInv'
  <2>1. ASSUME NEW u \in Cases
        PROVE  /\ pc'[u] \in Before => in_flight'[u] = {} /\ retry_counts'[u] = 0
               /\ pc'[u] \in InTest =>
                    /\ retry_counts'[u] = attempt'[u] - 1
                    /\ \E r \in in_flight'[u] :
                         in_flight'[u] = {r} /\ RunsOf(u, attempt'[u], r)
               /\ pc'[u] \in After => (in_flight'[u] = {} <=> result'[u] \in Terminal)
    <3>1. CASE u = t
      BY <1>2, <1>5, <1>6, <3>1 DEF Before, InTest, After, Terminal
    <3>2. CASE u # t
      BY <1>1, <1>2, <1>6, <3>2 DEF RepInv, FlightInv
    <3> QED
      BY <3>1, <3>2
  <2> QED
    BY <2>1 DEF FlightInv, RunsOf
<1>9. EntriesInv'
  <2>1. \A i \in DOMAIN finalized :
          /\ finalized[i].case \in Cases
          /\ result'[finalized[i].case] = result[finalized[i].case]
    BY <1>5, <1>6 DEF RepInv, EntriesInv
  <2>2. \A i \in DOMAIN finalized : EntryOK(finalized[i])'
    BY <1>1, <1>2, <2>1 DEF RepInv, EntriesInv, EntryOK, RunsOf, Became
  <2>3. {u \in Cases : result'[u] \in Terminal} = {u \in Cases : result[u] \in Terminal}
    BY <1>5, <1>6 DEF Terminal
  <2> QED
    BY <1>2, <2>2, <2>3 DEF RepInv, EntriesInv
<1>10. FlakyInv'
  BY <1>1, <1>3 DEF FlakyInv
<1>11. PublishedInv'
  BY <1>1, <1>2 DEF RepInv, PublishedInv
<1> QED
  BY <1>7, <1>8, <1>9, <1>10, <1>11 DEF RepInv

-----------------------------------------------------------------------------
(* finish                                                                  *)

LEMMA FinishKeeps ==
  ASSUME RepInv, Finish \/ FinishPanics \/ UNCHANGED rvars
  PROVE  RepInv'
<1>1. UNCHANGED <<phase, pc, attempt, result, passed, skipped, retry_counts, flaky_passed,
                  spinners, in_flight, finalized>>
  BY DEF Finish, FinishPanics, rvars, console, junit, vars
<1>2. HeldType'
  BY <1>1 DEF RepInv, HeldType, Finish, FinishPanics, rvars
<1>3. FlightInv'
  BY <1>1 DEF RepInv, FlightInv, RunsOf
<1>4. EntriesInv'
  BY <1>1 DEF RepInv, EntriesInv, EntryOK, RunsOf, Became
<1>5. FlakyInv'
  <2>1. FlakyEntries' = FlakyEntries
    BY <1>1 DEF FlakyEntries, Entries
  <2> QED
    BY <1>1, <2>1 DEF RepInv, FlakyInv
<1>6. PublishedInv'
  <2>1. SummaryLine' = SummaryLine /\ build_report' = build_report
    BY <1>1 DEF SummaryLine, build_report
  <2>2. CASE Finish
    BY <2>1, <2>2 DEF PublishedInv, Finish, vars
  <2>3. CASE FinishPanics
    BY <2>3 DEF RepInv, PublishedInv, FinishPanics, console, junit
  <2>4. CASE UNCHANGED rvars
    BY <2>1, <2>4 DEF RepInv, PublishedInv, rvars, console, junit, vars
  <2> QED
    BY <2>2, <2>3, <2>4
<1> QED
  BY <1>2, <1>3, <1>4, <1>5, <1>6 DEF RepInv

LEMMA NextRepInv == ExecInv /\ RepInv /\ [RNext]_rvars => RepInv'
<1> SUFFICES ASSUME ExecInv, RepInv, [RNext]_rvars PROVE RepInv'
  OBVIOUS
<1>1. ASSUME NEW t \in Cases, CaseStep(t) PROVE RepInv'
  BY <1>1, UnreportedKeeps, StartsKeeps, TellsKeeps, ConsolePanicsKeeps
     DEF CaseStep, ExecInv, RInv, IInv
<1>2. CASE PhaseEnds
  BY <1>2, PhaseEndsKeeps
<1>3. CASE Finish \/ FinishPanics \/ Ended \/ UNCHANGED rvars
  BY <1>3, FinishKeeps DEF Ended
<1> QED
  BY <1>1, <1>2, <1>3 DEF RNext

LEMMA Reported == RSpec => [](ExecInv /\ RepInv)
<1>1. RInit => ExecInv
  <2> SUFFICES ASSUME Init PROVE ExecInv
    BY DEF RInit
  <2>1. LoopInv
    BY MaxAttemptsType DEF Init, LoopInv, InTest
  <2> QED
    BY <2>1, InitRInv DEF ExecInv
<1>2. ExecInv /\ [RNext]_rvars => ExecInv'
  BY StepsOfExecutor, NextRInv, NextLoopInv DEF ExecInv, RInv, IInv
<1> QED
  BY <1>1, <1>2, InitRepInv, NextRepInv, PTL DEF RSpec

-----------------------------------------------------------------------------
(* The properties                                                          *)

\* A finalized case lists one run for each attempt before its last, and a case
\* with a matcher only assertions, whatever other cases do meanwhile.
THEOREM RunsAreFaithful == RSpec => []RunsFaithful
<1>1. RepInv => RunsFaithful
  BY DEF RepInv, EntriesInv, EntryOK, RunsOf, RunsFaithful
<1> QED
  BY Reported, <1>1, PTL

\* The document only grows: no later event of any case takes back or changes
\* the entry of a case, or puts a finalized case in flight again.
THEOREM EntriesStayFinal == RSpec => EntriesAreFinal
<1> DEFINE Final ==
             /\ \A i \in DOMAIN finalized : i \in DOMAIN finalized' /\ finalized'[i] = finalized[i]
             /\ \A i \in DOMAIN finalized : in_flight'[finalized[i].case] = {}
<1>1. ASSUME ExecInv, RepInv, RepInv', [RNext]_rvars PROVE Final
  <2>1. \/ finalized' = finalized
        \/ \E e : finalized' = Append(finalized, e)
    <3>1. ASSUME NEW t \in Cases, CaseStep(t)
          PROVE  finalized' = finalized \/ \E e : finalized' = Append(finalized, e)
      BY <3>1 DEF CaseStep, Unreported, Starts, Tells, ConsolePanics, junit, JunitStarted,
                  JunitTold, JunitPassed, JunitSkipped, JunitFailed, JunitRetrying, Finalize
    <3> QED
      BY <1>1, <3>1 DEF RNext, PhaseEnds, Finish, FinishPanics, Ended, rvars, junit
  <2>2. finalized \in Seq(TestCases) /\ finalized' \in Seq(TestCases)
    BY <1>1 DEF RepInv, HeldType
  <2>3. \A i \in DOMAIN finalized : i \in DOMAIN finalized' /\ finalized'[i] = finalized[i]
    <3>1. CASE finalized' = finalized
      BY <3>1
    <3>2. CASE \E e : finalized' = Append(finalized, e)
      <4>1. PICK e : finalized' = Append(finalized, e)
        BY <3>2
      <4>2. /\ Len(finalized) \in Nat /\ DOMAIN finalized = 1 .. Len(finalized)
            /\ DOMAIN finalized' = 1 .. Len(finalized) + 1
            /\ \A i \in 1 .. Len(finalized) : finalized'[i] = finalized[i]
        BY <2>2, <4>1
      <4> QED
        BY <4>2
    <3> QED
      BY <2>1, <3>1, <3>2
  <2>4. ASSUME NEW i \in DOMAIN finalized PROVE in_flight'[finalized[i].case] = {}
    <3>1. finalized[i].case \in Cases /\ result'[finalized[i].case] \in Terminal
      BY <1>1, <2>3 DEF RepInv, EntriesInv
    <3>2. PICK t \in Cases : t = finalized[i].case
      BY <3>1
    <3>3. pc'[t] \in After
      <4>1. RInv'
        BY <1>1, StepsOfExecutor, NextRInv DEF ExecInv
      <4>2. pc'[t] \in PCs /\ result'[t] # "none"
        BY <3>1, <3>2, <4>1 DEF RInv, IInv, TypeOK, Terminal
      <4> QED
        BY <4>1, <4>2 DEF RInv, ResultInv, PCs, After
    <3> QED
      BY <1>1, <3>1, <3>2, <3>3 DEF RepInv, FlightInv
  <2> QED
    BY <2>3, <2>4
<1>2. ExecInv /\ RepInv /\ RepInv' /\ [RNext]_rvars => [Final]_rvars
  BY <1>1
<1> QED
  BY Reported, <1>2, PTL DEF RSpec, EntriesAreFinal

\* The passes the console counts as flaky are the ones JUnit shows runs of,
\* when no panic of the console came between the two.
THEOREM FlakyCountsAgree == RSpec => []FlakyAgrees
<1>1. RepInv => FlakyAgrees
  BY DEF RepInv, PublishedInv, FlakyInv, FlakyEntries, SummaryLine, FlakyAgrees
<1> QED
  BY Reported, <1>1, PTL

-----------------------------------------------------------------------------
(* The completeness of the document                                        *)

LEMMA DisjointUnion ==
  ASSUME NEW A, NEW B, IsFiniteSet(A), IsFiniteSet(B), A \cap B = {}
  PROVE  /\ IsFiniteSet(A \cup B)
         /\ Cardinality(A \cup B) = Cardinality(A) + Cardinality(B)
<1>1. Cardinality(A) \in Nat /\ Cardinality(B) \in Nat /\ Cardinality(A \cap B) = 0
  BY FS_CardinalityType, FS_EmptySet
<1>2. /\ IsFiniteSet(A \cup B)
      /\ Cardinality(A \cup B) = Cardinality(A) + Cardinality(B) - Cardinality(A \cap B)
  BY FS_Union
<1> QED
  BY <1>1, <1>2

Outcome(v) == {t \in Cases : result[t] = v}

\* At the end the tallies count the results, and the rest of the cases are
\* the failures.
LEMMA SummedUp ==
  ASSUME ExecInv, phase = "done"
  PROVE  /\ passed = Cardinality(Outcome("Passed"))
         /\ skipped = Cardinality(Outcome("Skipped"))
         /\ SummaryLine.failed =
              Cardinality(Outcome("Failed")) + Cardinality(Outcome("JoinError"))
         /\ \A t \in Cases : pc[t] = "joined"
         /\ \A v \in {"Passed", "Skipped", "Failed", "JoinError"} :
              IsFiniteSet(Outcome(v)) /\ Cardinality(Outcome(v)) \in Nat
<1>1. \A t \in Cases :
        /\ pc[t] = "joined"
        /\ result[t] \in {"Passed", "Skipped", "Failed", "JoinError"}
  BY DEF ExecInv, RInv, ResultInv
<1>2. Counted("Passed") = Outcome("Passed") /\ Counted("Skipped") = Outcome("Skipped")
  BY <1>1 DEF Counted, Outcome
<1>3. \A v : IsFiniteSet(Outcome(v)) /\ Cardinality(Outcome(v)) \in Nat
  BY ScheduleAssumption, FS_Subset, FS_CardinalityType DEF Outcome
<1> DEFINE P == Outcome("Passed")   S == Outcome("Skipped")
           F == Outcome("Failed")   J == Outcome("JoinError")
<1>4. /\ Cases = (P \cup S) \cup (F \cup J)
      /\ P \cap S = {} /\ F \cap J = {} /\ (P \cup S) \cap (F \cup J) = {}
  BY <1>1 DEF Outcome
<1>5. /\ IsFiniteSet(P) /\ IsFiniteSet(S) /\ IsFiniteSet(F) /\ IsFiniteSet(J)
      /\ Cardinality(P) \in Nat /\ Cardinality(S) \in Nat
      /\ Cardinality(F) \in Nat /\ Cardinality(J) \in Nat
  BY <1>3
<1> HIDE DEF P, S, F, J
<1>6. /\ IsFiniteSet(P \cup S) /\ IsFiniteSet(F \cup J)
      /\ Cardinality(P \cup S) = Cardinality(P) + Cardinality(S)
      /\ Cardinality(F \cup J) = Cardinality(F) + Cardinality(J)
  BY <1>4, <1>5, DisjointUnion
<1>7. Cardinality(Cases)
        = Cardinality(P) + Cardinality(S) + Cardinality(F) + Cardinality(J)
  <2>1. Cardinality(Cases) = Cardinality(P \cup S) + Cardinality(F \cup J)
    BY <1>4, <1>6, DisjointUnion
  <2> QED
    BY <1>5, <1>6, <2>1
<1>8. passed = Cardinality(P) /\ skipped = Cardinality(S)
  BY <1>2 DEF ExecInv, RInv, TallyInv, P, S
<1>9. SummaryLine.failed = Cardinality(F) + Cardinality(J)
  <2>1. SummaryLine.failed = Cardinality(Cases) - passed - skipped
    BY DEF SummaryLine
  <2> QED
    BY <1>5, <1>7, <1>8, <2>1
<1> QED
  BY <1>1, <1>3, <1>8, <1>9 DEF P, S, F, J

\* As many entries tell of an outcome as there are cases it became of.
LEMMA OneEntryEach ==
  ASSUME EntriesInv, NEW I \in SUBSET DOMAIN finalized, NEW v \in Terminal,
         \A i \in DOMAIN finalized : i \in I <=> result[finalized[i].case] = v
  PROVE  Cardinality(I) = Cardinality(Outcome(v))
<1> DEFINE caseOf == [i \in I |-> finalized[i].case]
<1>1. caseOf \in [I -> Outcome(v)]
  BY DEF EntriesInv, Outcome
<1>2. \A i, j \in I : caseOf[i] = caseOf[j] => i = j
  BY DEF EntriesInv
<1>3. \A t \in Outcome(v) : \E i \in I : caseOf[i] = t
  BY DEF EntriesInv, Outcome
<1>4. ExistsBijection(I, Outcome(v))
  BY <1>1, <1>2, <1>3, Fun_IsBij DEF ExistsBijection
<1>5. ExistsBijection(Outcome(v), I)
  BY <1>4, Fun_ExistsBijSymmetric
<1>6. IsFiniteSet(Outcome(v))
  BY ScheduleAssumption, FS_Subset DEF Outcome
<1> QED
  BY <1>5, <1>6, FS_Bijection

\* The document has an entry or a crash for every case, each case once, and its
\* counts are those of the summary line, also after a panic of the console.
THEOREM DocumentIsComplete == RSpec => []DocumentComplete
<1> SUFFICES ASSUME ExecInv, RepInv PROVE DocumentComplete
  BY Reported, PTL
<1> SUFFICES ASSUME NEW d \in document, NEW line \in summary
             PROVE  /\ \A i, j \in DOMAIN d.finalized :
                         d.finalized[i].case = d.finalized[j].case => i = j
                    /\ {d.finalized[i].case : i \in DOMAIN d.finalized} = Cases \ d.crashed
                    /\ line.passed  = Cardinality(Entries("success"))
                    /\ line.skipped = Cardinality(Entries("skipped"))
                    /\ line.failed  = Cardinality(Entries("Failure") \cup Entries("Error"))
                                        + Cardinality(d.crashed)
  BY DEF DocumentComplete
<1>1. phase = "done" /\ d = build_report /\ line = SummaryLine
  BY DEF RepInv, PublishedInv
<1>2. /\ d.finalized = finalized
      /\ d.crashed = {t \in Cases : in_flight[t] # {}}
      /\ line.passed = passed /\ line.skipped = skipped
  BY <1>1 DEF build_report, SummaryLine
<1>3. \A t \in Cases : /\ pc[t] \in After
                       /\ result[t] \in {"Passed", "Skipped", "Failed", "JoinError"}
  BY <1>1 DEF ExecInv, RInv, ResultInv, After
<1>4. d.crashed = Outcome("JoinError")
  BY <1>2, <1>3 DEF RepInv, FlightInv, Terminal, Outcome
<1>5. {finalized[i].case : i \in DOMAIN finalized} = Cases \ d.crashed
  BY <1>3, <1>4 DEF RepInv, EntriesInv, Terminal, Outcome
<1>6. \A i \in DOMAIN finalized :
        /\ i \in Entries("success") <=> result[finalized[i].case] = "Passed"
        /\ i \in Entries("skipped") <=> result[finalized[i].case] = "Skipped"
        /\ i \in Entries("Failure") \cup Entries("Error") <=>
             result[finalized[i].case] = "Failed"
  BY DEF RepInv, EntriesInv, EntryOK, Became, Entries
<1>7. /\ Cardinality(Entries("success")) = Cardinality(Outcome("Passed"))
      /\ Cardinality(Entries("skipped")) = Cardinality(Outcome("Skipped"))
      /\ Cardinality(Entries("Failure") \cup Entries("Error")) = Cardinality(Outcome("Failed"))
  <2>1. \A s : Entries(s) \in SUBSET DOMAIN finalized
    BY DEF Entries
  <2> QED
    BY <1>6, <2>1, OneEntryEach DEF RepInv, Terminal
<1>8. /\ line.passed  = Cardinality(Entries("success"))
      /\ line.skipped = Cardinality(Entries("skipped"))
      /\ line.failed  = Cardinality(Entries("Failure") \cup Entries("Error"))
                           + Cardinality(d.crashed)
  BY <1>1, <1>2, <1>4, <1>7, SummedUp
<1>9. \A i, j \in DOMAIN finalized : finalized[i].case = finalized[j].case => i = j
  BY DEF RepInv, EntriesInv
<1> QED
  BY <1>2, <1>5, <1>8, <1>9

\* The reporters and what they publish have their types: the failures of the
\* summary line, a difference of unsigned numbers, do not underflow.
THEOREM RTypeCorrect == RSpec => []RTypeOK
<1>1. ASSUME ExecInv, RepInv PROVE RTypeOK
  <2>1. HeldType
    BY <1>1 DEF RepInv
  <2>2. CASE finish_result \in {"Ok", "Err"}
    <3>1. phase = "done" /\ summary = {SummaryLine} /\ document \subseteq {build_report}
      BY <1>1, <2>2 DEF RepInv, PublishedInv
    <3>2. SummaryLine.failed \in Nat /\ passed \in Nat /\ skipped \in Nat
      BY <1>1, <3>1, SummedUp
    <3>3. SummaryLine \in [passed : Nat, skipped : Nat, failed : Nat, flaky : Nat]
      BY <2>1, <3>2 DEF SummaryLine, HeldType
    <3>4. build_report \in [finalized : Seq(TestCases), crashed : SUBSET Cases]
      BY <2>1 DEF build_report, HeldType
    <3> QED
      BY <2>1, <3>1, <3>3, <3>4 DEF RTypeOK, HeldType
  <2>3. CASE finish_result \notin {"Ok", "Err"}
    <3>1. summary = {} /\ document = {}
      BY <1>1, <2>3 DEF RepInv, PublishedInv
    <3> QED
      BY <2>1, <3>1 DEF RTypeOK, HeldType
  <2> QED
    BY <2>2, <2>3
<1> QED
  BY Reported, <1>1, PTL
=============================================================================
