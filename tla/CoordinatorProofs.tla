-------------------------- MODULE CoordinatorProofs --------------------------
(***************************************************************************)
(* Theorems about Coordinator, for every registry of cases, every command  *)
(* line and every set of probes.                                           *)
(***************************************************************************)
EXTENDS Coordinator, PreflightProofs

-----------------------------------------------------------------------------
(* What was given, and what the preflight reported                         *)

LEMMA ArgTypes ==
  ASSUME args \in Invocations, registry \in Registries
  PROVE  /\ args.no_preflight \in BOOLEAN /\ args.preflight_only \in BOOLEAN
         /\ args.continue_on_preflight_failure \in BOOLEAN
         /\ registry.setup \in BOOLEAN /\ registry.teardown \in BOOLEAN
BY CoordinatorAssumption

\* A report passes exactly if it counts no failure, and one without a
\* declaration has no results.
LEMMA ReportFacts ==
  ASSUME PInv
  PROVE  /\ report.declared \in BOOLEAN /\ report.passed \in BOOLEAN
         /\ report.failed \in Nat
         /\ report.passed <=> report.failed = 0
         /\ ~report.declared => report.results = <<>>
<1>1. CASE report \in EmptyReports
  <2>1. PICK b \in BOOLEAN :
          report = [declared |-> b, passed |-> TRUE, failed |-> 0, results |-> <<>>]
    BY <1>1 DEF EmptyReports, NoReport
  <2>2. report.declared = b /\ report.passed = TRUE
    BY <2>1
  <2>3. report.failed = 0 /\ report.results = <<>>
    BY <2>1
  <2>4. report.passed \in BOOLEAN /\ (report.passed <=> report.failed = 0)
    BY <2>2, <2>3
  <2> QED
    BY <2>2, <2>3, <2>4
<1>2. CASE report = JoinedReport /\ outcome \in [DOMAIN probes -> {"Passed", "Failed"}]
  <2>1. IsFiniteSet(DOMAIN outcome)
    BY <1>2, ListFinite DEF PInv
  <2>2. FailedProbes \in SUBSET DOMAIN outcome
    BY DEF FailedProbes
  <2>3. IsFiniteSet(FailedProbes)
    BY <2>1, <2>2, FS_Subset
  <2>4. Cardinality(FailedProbes) \in Nat
        /\ (Cardinality(FailedProbes) = 0 <=> FailedProbes = {})
    BY <2>3, FS_CardinalityType, FS_EmptySet
  <2> QED
    BY <1>2, <2>4 DEF JoinedReport
<1> QED
  BY <1>1, <1>2 DEF PInv, QuietInv, ReportInv, EmptyReports

-----------------------------------------------------------------------------
(* The inductive invariant                                                 *)
(*                                                                         *)
(* The properties speak of the end.  What makes them inductive is what has *)
(* been done, and what not yet, in each stage that leads to it.            *)

\* The two paths that part after the reporters were built.
AbortStages == {"abort", "aborted"}
LateStages == {"finish", "teardown", "verdict"}
SuiteStages == {"setup", "handoff", "plan", "running"} \cup LateStages
EarlyStages == {"start", "reporter", "only", "preflight"} \cup AbortStages

Outcomes == {"NotRun", "Passed", "Skipped", "Failed"}

CTypes ==
    /\ args \in Invocations /\ registry \in Registries
    /\ stage \in EarlyStages \cup SuiteStages \cup {"exited"}
    /\ set_up \in BOOLEAN /\ torn_down \in {0, 1}
    /\ selected \in SUBSET Cases
    /\ verdict \in [Cases -> Outcomes]
    /\ finish_result \in {"pending", "Ok", "Err"}
    /\ document.state \in {"none", "torn", "whole"}
    /\ stage = "exited" => code \in {Killed, 0, 1, 2, 101}

GateInv ==
    /\ args.no_preflight => pphase = "idle" /\ report = NoReport
    /\ stage = "only" => args.preflight_only
    /\ stage \in {"preflight"} \cup AbortStages \cup SuiteStages => ~args.preflight_only
    /\ stage \in AbortStages => pphase = "reported" /\ ~report.passed
    /\ stage \in SuiteStages =>
         \/ args.no_preflight
         \/ pphase = "reported" /\ (report.passed \/ args.continue_on_preflight_failure)

NothingJudged == \A t \in Cases : ~Judged(t)
AllJudged == \A t \in Cases : Judged(t) <=> t \in selected

SuiteInv ==
    /\ stage \in EarlyStages \cup {"setup"} => ~set_up
    /\ stage \in EarlyStages \cup {"setup", "handoff", "plan", "running"} => NothingJudged
    /\ stage \in LateStages => AllJudged
    /\ stage \notin {"verdict", "exited"} => torn_down = 0
    /\ stage = "verdict" => torn_down = (IF registry.teardown THEN 1 ELSE 0)
    /\ stage \notin {"aborted", "teardown", "verdict", "exited"} => finish_result = "pending"
    /\ stage \in {"teardown", "verdict"} => finish_result # "pending"
    /\ stage \in EarlyStages => selected = {}

DocInv ==
    /\ stage \in EarlyStages \ AbortStages => recorded = <<>>
    /\ stage \in AbortStages \cup SuiteStages =>
         recorded = (IF args.no_preflight THEN <<>> ELSE report.results)
    /\ args.reporter # "junit" => document.state = "none"
    /\ stage \in (EarlyStages \cup SuiteStages) \ (AbortStages \cup LateStages) =>
         document.state = "none"
    /\ stage \in {"abort", "finish"} => document.state # "whole"
    /\ stage \in {"teardown", "verdict"} /\ args.reporter = "junit" /\ finish_result = "Ok" =>
         document.state = "whole"

EndInv == GatedByPreflight /\ TeardownPaired /\ ExitTellsTests /\ DocumentFaithful

CInv == PInv /\ CTypes /\ GateInv /\ SuiteInv /\ DocInv /\ EndInv

-----------------------------------------------------------------------------
(* Steps                                                                   *)

LEMMA InitCInv == CInit => CInv
<1> SUFFICES ASSUME CInit PROVE CInv
  OBVIOUS
<1>1. PInv
  BY InitPInv DEF CInit
<1>2. /\ stage = "start" /\ document = NoDocument /\ document.state = "none"
      /\ pphase = "idle" /\ report = NoReport
  BY DEF CInit, PInit, NoDocument
<1>3. CTypes
  BY <1>2 DEF CInit, CTypes, EarlyStages, Outcomes
<1>4. GateInv
  BY <1>2 DEF GateInv, AbortStages, SuiteStages, LateStages
<1>5. SuiteInv
  BY <1>2 DEF CInit, SuiteInv, LateStages, NothingJudged, Judged
<1>6. DocInv
  BY <1>2 DEF CInit, DocInv, AbortStages, SuiteStages, LateStages
<1>7. EndInv
  BY <1>2 DEF CInit, EndInv, GatedByPreflight, TeardownPaired, ExitTellsTests,
              DocumentFaithful, Exited, Judged
<1> QED
  BY <1>1, <1>3, <1>4, <1>5, <1>6, <1>7 DEF CInv

\* What stays true of the preflight when it stands still.
LEMMA StillPInv ==
  ASSUME PInv, UNCHANGED pvars
  PROVE  PInv'
BY NextPInv

\* Before the suite has judged, there is nothing to claim.
LEMMA QuietEnd ==
  ASSUME stage' # "exited", NothingJudged', ~set_up', torn_down' = 0,
         document'.state # "whole"
  PROVE  EndInv'
BY DEF EndInv, GatedByPreflight, TeardownPaired, ExitTellsTests, DocumentFaithful,
       NothingJudged, Exited

\* An end that claims nothing: a signal, or a panic.
LEMMA HardEnd ==
  ASSUME CInv, stage # "exited", NEW c \in {Killed, 101}, Exits(stage, c),
         UNCHANGED <<pvars, cvars>>
  PROVE  CInv'
<1>1. stage' = "exited" /\ code' = c /\ c \notin {0, 1, 2}
  BY DEF Exits, Killed
<1>2. UNCHANGED <<args, registry, set_up, torn_down, selected, verdict, recorded,
                  document, finish_result, pphase, report, probes, registered>>
  BY DEF cvars, pvars
<1>3. PInv'
  BY StillPInv DEF CInv
<1>4. CTypes' /\ GateInv'
  BY <1>1, <1>2 DEF CInv, CTypes, GateInv, EarlyStages, AbortStages, SuiteStages, LateStages
<1>5. SuiteInv' /\ DocInv'
  BY <1>1, <1>2 DEF CInv, SuiteInv, DocInv, EarlyStages, AbortStages, SuiteStages, LateStages
<1>6. GatedByPreflight' /\ DocumentFaithful'
  BY <1>2 DEF CInv, EndInv, GatedByPreflight, DocumentFaithful, Judged
<1>7. TeardownPaired' /\ ExitTellsTests'
  BY <1>1, <1>2 DEF CInv, EndInv, TeardownPaired, ExitTellsTests, Exited, Judged
<1> QED
  BY <1>3, <1>4, <1>5, <1>6, <1>7 DEF CInv, EndInv

\* An end of the coordinator's own, from where it leaves the invariants of the
\* stages behind: it owes the two claims about exit codes.
LEMMA OwnEnd ==
  ASSUME CInv, NEW c \in {0, 1, 2}, stage' = "exited", code' = c,
         UNCHANGED <<pvars, cvars>>, TeardownPaired', ExitTellsTests'
  PROVE  CInv'
<1>1. UNCHANGED <<args, registry, set_up, torn_down, selected, verdict, recorded,
                  document, finish_result, pphase, report, probes, registered>>
  BY DEF cvars, pvars
<1>2. PInv'
  BY StillPInv DEF CInv
<1>3. CTypes' /\ GateInv'
  BY <1>1 DEF CInv, CTypes, GateInv, EarlyStages, AbortStages, SuiteStages, LateStages
<1>4. SuiteInv' /\ DocInv'
  BY <1>1 DEF CInv, SuiteInv, DocInv, EarlyStages, AbortStages, SuiteStages, LateStages
<1>5. GatedByPreflight' /\ DocumentFaithful'
  BY <1>1 DEF CInv, EndInv, GatedByPreflight, DocumentFaithful, Judged
<1> QED
  BY <1>2, <1>3, <1>4, <1>5 DEF CInv, EndInv

\* An end before anything was judged.
LEMMA EarlyEnd ==
  ASSUME CInv, NEW c \in {0, 1, 2}, Exits(stage, c), UNCHANGED <<pvars, cvars>>,
         NothingJudged, finish_result = "pending" \/ c = 2, torn_down = 0,
         c = 0 => args.preflight_only
                  /\ (args.no_preflight \/ ~registered
                        \/ (pphase = "reported" /\ report.failed = 0)),
         c = 2 => ~set_up /\ ~args.no_preflight
                  /\ (pphase = "invalid" \/ report.failed > 0)
  PROVE  CInv'
<1>1. stage' = "exited" /\ code' = c
  BY DEF Exits
<1>2. UNCHANGED <<args, registry, set_up, torn_down, selected, verdict, recorded,
                  document, finish_result, pphase, report, probes, registered>>
  BY DEF cvars, pvars
<1>3. TeardownPaired'
  BY <1>1, <1>2 DEF TeardownPaired, Exited, NothingJudged, Judged
<1>4. ExitTellsTests'
  BY <1>1, <1>2 DEF ExitTellsTests, Exited, NothingJudged, Judged
<1> QED
  BY <1>1, <1>3, <1>4, OwnEnd

\* A step of an early stage, on to another stage before the verdicts.
LEMMA NextEarly ==
  ASSUME CInv, stage \in EarlyStages, stage' \in EarlyStages \cup {"setup"},
         UNCHANGED <<args, registry, set_up, torn_down, selected, verdict>>,
         PInv', CTypes', GateInv', DocInv', document'.state # "whole",
         stage' # "aborted" => finish_result' = "pending"
  PROVE  CInv'
<1>1. /\ ~set_up' /\ torn_down' = 0 /\ NothingJudged' /\ selected' = {}
      /\ stage' # "exited" /\ stage' \notin LateStages
  BY DEF CInv, SuiteInv, EarlyStages, AbortStages, LateStages, NothingJudged, Judged
<1>2. SuiteInv'
  BY <1>1 DEF SuiteInv, EarlyStages, AbortStages, LateStages
<1>3. EndInv'
  BY <1>1, QuietEnd
<1> QED
  BY <1>2, <1>3 DEF CInv

LEMMA EarlyFacts ==
  ASSUME CInv, stage \in EarlyStages
  PROVE  /\ NothingJudged /\ ~set_up /\ torn_down = 0
         /\ stage # "aborted" => finish_result = "pending"
BY DEF CInv, SuiteInv, EarlyStages, AbortStages

LEMMA BeginningKeeps ==
  ASSUME CInv, Beginning
  PROVE  CInv'
<1>1. CASE assert_singleton_registrations /\ Panics("start")
  BY <1>1, HardEnd DEF Panics, Exits
<1>2. CASE build_reporter /\ Errs("reporter", FALSE)
  <2>1. stage = "reporter" /\ Exits(stage, 1) /\ UNCHANGED <<pvars, cvars>>
    BY <1>2 DEF build_reporter, Errs, Exits
  <2> QED
    BY <2>1, EarlyFacts, EarlyEnd DEF EarlyStages
<1>3. CASE \/ Go("start", "reporter")
           \/ Go("reporter", IF args.preflight_only THEN "only" ELSE "preflight")
  <2>1. /\ stage \in {"start", "reporter"} /\ stage' \in {"reporter", "only", "preflight"}
        /\ stage' = "only" => args.preflight_only
        /\ stage' = "preflight" => ~args.preflight_only
        /\ UNCHANGED <<pvars, cvars>>
    BY <1>3 DEF Go, Beginning, assert_singleton_registrations, build_reporter,
                Panics, Errs, Exits
  <2>2. UNCHANGED <<args, registry, set_up, torn_down, selected, verdict, recorded,
                    document, finish_result, pphase, report>>
    BY <2>1 DEF cvars, pvars
  <2>3. PInv'
    BY <2>1, StillPInv DEF CInv
  <2>4. CTypes' /\ GateInv'
    BY <2>1, <2>2 DEF CInv, CTypes, GateInv, EarlyStages, AbortStages, SuiteStages, LateStages
  <2>5. DocInv' /\ document'.state # "whole" /\ finish_result' = "pending"
    BY <2>1, <2>2 DEF CInv, SuiteInv, DocInv, EarlyStages, AbortStages, SuiteStages, LateStages
  <2> QED
    BY <2>1, <2>2, <2>3, <2>4, <2>5, NextEarly DEF EarlyStages
<1> QED
  BY <1>1, <1>2, <1>3 DEF Beginning, assert_singleton_registrations, build_reporter

LEMMA PreflightKeeps ==
  ASSUME CInv, preflight_step
  PROVE  CInv'
<1>1. /\ stage \in {"only", "preflight"} /\ ~args.no_preflight
      /\ PNext /\ UNCHANGED <<stage, code, cvars>>
  BY DEF preflight_step
<1>2. UNCHANGED <<args, registry, set_up, torn_down, selected, verdict, recorded,
                  document, finish_result>>
  BY <1>1 DEF cvars
<1>3. PInv'
  BY <1>1, NextPInv DEF CInv
<1>4. CTypes' /\ GateInv'
  BY <1>1, <1>2 DEF CInv, CTypes, GateInv, AbortStages, SuiteStages, LateStages
<1>5. DocInv' /\ document'.state # "whole" /\ finish_result' = "pending"
  BY <1>1, <1>2 DEF CInv, SuiteInv, DocInv, EarlyStages, AbortStages, SuiteStages, LateStages
<1> QED
  BY <1>1, <1>2, <1>3, <1>4, <1>5, NextEarly DEF EarlyStages

\* Where --preflight-only ends.
LEMMA OnlyKeeps ==
  ASSUME CInv, handle_preflight_only
  PROVE  CInv'
<1>1. stage = "only" /\ UNCHANGED <<pvars, cvars>>
  BY DEF handle_preflight_only, Exits, Errs
<1>2. /\ NothingJudged /\ ~set_up /\ torn_down = 0 /\ finish_result = "pending"
      /\ args.preflight_only
  BY <1>1, EarlyFacts DEF EarlyStages, CInv, GateInv
<1>3. report.passed <=> report.failed = 0
  BY ReportFacts DEF CInv
<1>4. CASE (args.no_preflight \/ ~registered) /\ Exits("only", 0)
  BY <1>1, <1>2, <1>4, EarlyEnd
<1>5. CASE pphase = "reported" /\ report.passed /\ Exits("only", 0)
  BY <1>1, <1>2, <1>3, <1>5, EarlyEnd
<1>6. CASE pphase = "invalid" /\ Errs("only", TRUE)
  BY <1>1, <1>2, <1>6, EarlyEnd DEF Errs, CInv, GateInv
<1>7. CASE pphase = "reported" /\ ~report.passed /\ Errs("only", TRUE)
  <2>1. report.failed > 0
    BY <1>7, ReportFacts DEF CInv
  <2> QED
    BY <1>1, <1>2, <1>7, <2>1, EarlyEnd DEF Errs, CInv, GateInv
<1>8. CASE Exits("only", 101)
  BY <1>1, <1>8, HardEnd
<1> QED
  BY <1>4, <1>5, <1>6, <1>7, <1>8 DEF handle_preflight_only

LEMMA PhaseKeeps ==
  ASSUME CInv, PreflightPhase
  PROVE  CInv'
<1>1. CASE handle_preflight_only
  BY <1>1, OnlyKeeps
<1>2. CASE PreflightInvalid
  <2>1. /\ stage = "preflight" /\ Exits(stage, 2) /\ UNCHANGED <<pvars, cvars>>
        /\ pphase = "invalid"
    BY <1>2 DEF PreflightInvalid, Errs, Exits
  <2>2. ~args.no_preflight
    BY <2>1 DEF CInv, GateInv
  <2> QED
    BY <2>1, <2>2, EarlyFacts, EarlyEnd DEF EarlyStages
<1>3. CASE PreflightPanics
  BY <1>3, HardEnd DEF PreflightPanics, Panics, Exits
<1>4. CASE Abort
  <2>1. stage = "aborted" /\ Exits(stage, 2) /\ UNCHANGED <<pvars, cvars>>
    BY <1>4 DEF Abort, Errs, Exits
  <2>2. pphase = "reported" /\ ~report.passed /\ report.failed > 0
    BY <2>1, ReportFacts DEF CInv, GateInv, AbortStages
  <2>3. ~args.no_preflight
    BY <2>2 DEF CInv, GateInv
  <2> QED
    BY <2>1, <2>2, <2>3, EarlyFacts, EarlyEnd DEF EarlyStages, AbortStages
<1>5. CASE PreflightAborts \/ handle_preflight_phase
  <2>1. /\ stage = "preflight" /\ PreflightDone /\ record(report)
        /\ UNCHANGED <<pvars, args, registry, set_up, torn_down, selected, verdict,
                       document, finish_result>>
        /\ \/ stage' \in AbortStages /\ ~report.passed
           \/ stage' = "setup" /\ (report.passed \/ args.continue_on_preflight_failure)
    BY <1>5 DEF PreflightAborts, handle_preflight_phase, Go, AbortStages
  <2>2. UNCHANGED <<pphase, report>>
    BY <2>1 DEF pvars
  <2>3. PInv'
    BY <2>1, StillPInv DEF CInv
  <2>4. args.no_preflight => report.passed /\ report.results = <<>> /\ ~report.declared
    BY DEF CInv, GateInv, NoReport
  <2>5. recorded' = (IF args.no_preflight THEN <<>> ELSE report.results)
    <3>1. recorded = <<>> /\ (~report.declared => report.results = <<>>)
      BY <2>1, ReportFacts DEF CInv, DocInv, EarlyStages, AbortStages
    <3> QED
      BY <2>1, <2>4, <3>1 DEF record
  <2>6. CTypes' /\ GateInv'
    BY <2>1, <2>2, <2>4 DEF CInv, CTypes, GateInv, PreflightDone, EarlyStages, AbortStages,
                            SuiteStages, LateStages
  <2>7. document.state = "none" /\ finish_result = "pending"
    BY <2>1 DEF CInv, SuiteInv, DocInv, EarlyStages, AbortStages, LateStages
  <2>8. DocInv'
    BY <2>1, <2>2, <2>5, <2>7 DEF DocInv, EarlyStages, AbortStages, SuiteStages, LateStages
  <2> QED
    BY <2>1, <2>3, <2>6, <2>7, <2>8, NextEarly DEF EarlyStages, AbortStages
<1> QED
  BY <1>1, <1>2, <1>3, <1>4, <1>5 DEF PreflightPhase

\* The setup, the handoff and the plan: nothing judged, nothing written.
LEMMA BeforeExecution ==
  ASSUME CInv, stage \in {"setup", "handoff", "plan"},
         stage' \in {"handoff", "plan", "running"}, set_up' \in BOOLEAN,
         selected' \in SUBSET Cases,
         UNCHANGED <<pvars, args, registry, torn_down, verdict, recorded,
                     document, finish_result>>
  PROVE  CInv'
<1>1. UNCHANGED <<pphase, report>>
  BY DEF pvars
<1>2. PInv'
  BY StillPInv DEF CInv
<1>3. CTypes' /\ GateInv'
  BY <1>1 DEF CInv, CTypes, GateInv, EarlyStages, AbortStages, SuiteStages, LateStages
<1>4. NothingJudged /\ torn_down = 0 /\ finish_result = "pending" /\ document.state = "none"
  BY DEF CInv, SuiteInv, DocInv, EarlyStages, AbortStages, SuiteStages, LateStages
<1>5. SuiteInv' /\ DocInv'
  BY <1>1, <1>4 DEF CInv, SuiteInv, DocInv, EarlyStages, AbortStages, SuiteStages,
                    LateStages, NothingJudged, Judged
<1>6. GatedByPreflight'
  BY <1>3 DEF CInv, GateInv, GatedByPreflight, SuiteStages
<1>7. TeardownPaired' /\ ExitTellsTests' /\ DocumentFaithful'
  BY <1>4 DEF TeardownPaired, ExitTellsTests, DocumentFaithful, Exited
<1> QED
  BY <1>2, <1>3, <1>5, <1>6, <1>7 DEF CInv, EndInv

LEMMA SuiteKeeps ==
  ASSUME CInv, Preparation \/ Execution
  PROVE  CInv'
<1>t. registry.setup \in BOOLEAN
  BY ArgTypes DEF CInv, CTypes
<1>1. CASE Panics("setup") \/ Panics("handoff") \/ ExecutePanics
  <2>1. Exits(stage, 101) /\ stage # "exited" /\ UNCHANGED <<pvars, cvars>>
    BY <1>1 DEF ExecutePanics, Panics, Exits
  <2> QED
    BY <2>1, HardEnd
<1>2. CASE GlobalSetup /\ ~Panics("setup")
  <2>1. /\ stage = "setup" /\ stage' = "handoff" /\ set_up' = registry.setup
        /\ UNCHANGED <<pvars, args, registry, torn_down, selected, verdict,
                       recorded, document, finish_result>>
    BY <1>2 DEF GlobalSetup, Go
  <2> QED
    BY <1>t, <2>1, BeforeExecution DEF CInv, CTypes
<1>3. CASE StateHandoff_capture /\ ~Panics("handoff")
  <2>1. stage = "handoff" /\ stage' = "plan" /\ UNCHANGED <<pvars, cvars>>
    BY <1>3 DEF StateHandoff_capture, Go
  <2> QED
    BY <2>1, BeforeExecution DEF cvars, CInv, CTypes
<1>4. CASE PlanSuite
  <2>1. selected' \in SUBSET Cases
    BY <1>4 DEF PlanSuite, apply_tag_filter, apply_filter
  <2>2. CASE Go("plan", "running")
    BY <1>4, <2>1, <2>2, BeforeExecution DEF PlanSuite, Go, CInv, CTypes
  <2>3. CASE Errs("plan", FALSE)
    <3>1. /\ stage = "plan" /\ stage' = "exited" /\ code' = 1
          /\ UNCHANGED <<pvars, args, registry, set_up, torn_down, verdict,
                         recorded, document, finish_result>>
      BY <1>4, <2>3 DEF PlanSuite, Errs, Exits
    <3>2. UNCHANGED <<pphase, report, probes, registered>>
      BY <3>1 DEF pvars
    <3>3. NothingJudged /\ torn_down = 0 /\ finish_result = "pending"
          /\ document.state = "none"
      BY <3>1 DEF CInv, SuiteInv, DocInv, EarlyStages, AbortStages, SuiteStages, LateStages
    <3>4. PInv'
      BY <3>1, StillPInv DEF CInv
    <3>5. CTypes' /\ GateInv'
      BY <2>1, <3>1, <3>2 DEF CInv, CTypes, GateInv, EarlyStages, AbortStages, SuiteStages,
                              LateStages
    <3>6. SuiteInv' /\ DocInv'
      BY <3>1, <3>3 DEF CInv, SuiteInv, DocInv, EarlyStages, AbortStages, SuiteStages,
                        LateStages
    <3>7. GatedByPreflight'
      BY <3>1, <3>2 DEF CInv, EndInv, GatedByPreflight, Judged
    <3>8. TeardownPaired' /\ ExitTellsTests' /\ DocumentFaithful'
      BY <3>1, <3>3 DEF TeardownPaired, ExitTellsTests, DocumentFaithful, Exited,
                        NothingJudged, Judged
    <3> QED
      BY <3>4, <3>5, <3>6, <3>7, <3>8 DEF CInv, EndInv
  <2> QED
    BY <1>4, <2>2, <2>3 DEF PlanSuite
<1>5. CASE Execute
  <2>1. PICK v \in [selected -> {"Passed", "Skipped", "Failed"}] :
          verdict' = [t \in Cases |-> IF t \in selected THEN v[t] ELSE verdict[t]]
    BY <1>5 DEF Execute
  <2>2. /\ stage = "running" /\ stage' = "finish"
        /\ UNCHANGED <<pvars, args, registry, set_up, torn_down, selected,
                       recorded, document, finish_result>>
    BY <1>5 DEF Execute, Go
  <2>3. UNCHANGED <<pphase, report>>
    BY <2>2 DEF pvars
  <2>4. NothingJudged /\ torn_down = 0 /\ finish_result = "pending" /\ document.state = "none"
    BY <2>2 DEF CInv, SuiteInv, DocInv, EarlyStages, AbortStages, SuiteStages, LateStages
  <2>5. verdict' \in [Cases -> Outcomes] /\ AllJudged'
    BY <2>1, <2>2, <2>4 DEF CInv, CTypes, Outcomes, NothingJudged, AllJudged, Judged
  <2>6. PInv'
    BY <2>2, StillPInv DEF CInv
  <2>7. CTypes' /\ GateInv'
    BY <2>2, <2>3, <2>5 DEF CInv, CTypes, GateInv, EarlyStages, AbortStages, SuiteStages,
                            LateStages
  <2>8. SuiteInv' /\ DocInv'
    BY <2>2, <2>3, <2>4, <2>5 DEF CInv, SuiteInv, DocInv, EarlyStages, AbortStages,
                                  SuiteStages, LateStages
  <2>9. GatedByPreflight'
    BY <2>2, <2>7 DEF GateInv, GatedByPreflight, SuiteStages, LateStages
  <2>10. TeardownPaired' /\ ExitTellsTests' /\ DocumentFaithful'
    BY <2>2, <2>4 DEF TeardownPaired, ExitTellsTests, DocumentFaithful, Exited
  <2> QED
    BY <2>6, <2>7, <2>8, <2>9, <2>10 DEF CInv, EndInv
<1> QED
  BY <1>1, <1>2, <1>3, <1>4, <1>5 DEF Preparation, Execution, GlobalSetup, StateHandoff_capture

-----------------------------------------------------------------------------
(* Publishing                                                              *)

\* total - passed - skipped counts the failed cases.
LEMMA FailedCounts ==
  ASSUME CTypes, \A t \in selected : Judged(t)
  PROVE  /\ failed \in Nat
         /\ failed > 0 <=> \E t \in selected : verdict[t] = "Failed"
<1> DEFINE P == {t \in selected : verdict[t] = "Passed"}
           S == {t \in selected : verdict[t] = "Skipped"}
           F == {t \in selected : verdict[t] = "Failed"}
<1>1. IsFiniteSet(selected)
  BY CoordinatorAssumption, FS_Subset DEF CTypes
<1>2. IsFiniteSet(P) /\ IsFiniteSet(S) /\ IsFiniteSet(F)
  <2>1. P \in SUBSET selected /\ S \in SUBSET selected /\ F \in SUBSET selected
    OBVIOUS
  <2> HIDE DEF P, S, F
  <2> QED
    BY <1>1, <2>1, FS_Subset
<1>3. /\ P \cap S = {} /\ (P \cup S) \cap F = {}
      /\ (P \cup S) \cup F = selected
  BY DEF CTypes, Outcomes, Judged
<1>4. failed = Cardinality(selected) - Cardinality(P) - Cardinality(S)
  BY DEF failed, total, Tally
<1>5. F # {} <=> \E t \in selected : verdict[t] = "Failed"
  OBVIOUS
<1> HIDE DEF P, S, F
<1>6. IsFiniteSet(P \cup S)
      /\ Cardinality(P \cup S) = Cardinality(P) + Cardinality(S) - Cardinality(P \cap S)
  BY <1>2, FS_Union
<1>7. Cardinality((P \cup S) \cup F)
        = Cardinality(P \cup S) + Cardinality(F) - Cardinality((P \cup S) \cap F)
  BY <1>2, <1>6, FS_Union
<1>8. Cardinality(P) \in Nat /\ Cardinality(S) \in Nat /\ Cardinality(F) \in Nat
      /\ (Cardinality(F) = 0 <=> F = {}) /\ Cardinality({}) = 0
  BY <1>2, FS_CardinalityType, FS_EmptySet
<1>9. failed = Cardinality(F)
  <2>1. Cardinality(P \cup S) = Cardinality(P) + Cardinality(S)
    <3>1. Cardinality(P \cap S) = 0
      BY <1>3, <1>8
    <3> QED
      BY <1>6, <1>8, <3>1
  <2>2. Cardinality(selected) = Cardinality(P \cup S) + Cardinality(F)
    <3>1. Cardinality((P \cup S) \cup F) = Cardinality(selected)
          /\ Cardinality((P \cup S) \cap F) = 0
      BY <1>3, <1>8
    <3> QED
      BY <1>7, <1>8, <2>1, <3>1
  <2> QED
    BY <1>4, <1>8, <2>1, <2>2
<1> QED
  BY <1>5, <1>8, <1>9

LEMMA WriteBeginsKeeps ==
  ASSUME CInv, WriteBegins
  PROVE  CInv'
<1>1. /\ stage \in {"abort", "finish"} /\ stage' = stage /\ args.reporter = "junit"
      /\ document'.state = "torn"
      /\ UNCHANGED <<pvars, args, registry, set_up, torn_down, selected, verdict,
                     recorded, finish_result>>
  BY DEF WriteBegins, Document
<1>2. UNCHANGED <<pphase, report>>
  BY <1>1 DEF pvars
<1>3. PInv'
  BY <1>1, StillPInv DEF CInv
<1>4. CTypes' /\ GateInv'
  BY <1>1, <1>2 DEF CInv, CTypes, GateInv, EarlyStages, AbortStages, SuiteStages, LateStages
<1>5. SuiteInv' /\ DocInv'
  BY <1>1, <1>2 DEF CInv, SuiteInv, DocInv, EarlyStages, AbortStages, SuiteStages,
                    LateStages, NothingJudged, AllJudged, Judged
<1>6. GatedByPreflight'
  BY <1>1, <1>2 DEF CInv, EndInv, GatedByPreflight, Judged
<1>7. TeardownPaired' /\ ExitTellsTests' /\ DocumentFaithful'
  BY <1>1 DEF CInv, SuiteInv, TeardownPaired, ExitTellsTests, DocumentFaithful, Exited
<1> QED
  BY <1>3, <1>4, <1>5, <1>6, <1>7 DEF CInv, EndInv

\* A whole document has the probes and the verdicts of its moment.
LEMMA WholeDocument ==
  ASSUME CInv, stage \in {"abort", "finish"}, document' = Document("whole"),
         UNCHANGED <<args, selected, verdict, report>>
  PROVE  DocumentFaithful'
<1>1. /\ document'.preflight = recorded
      /\ document'.cases =
           {<<t, verdict[t]>> : t \in {u \in Cases : verdict[u] # "NotRun"}}
  BY DEF Document
<1>2. recorded = (IF args.no_preflight THEN <<>> ELSE report.results)
  BY DEF CInv, DocInv, AbortStages, SuiteStages, LateStages
<1>3. {u \in Cases : verdict[u] # "NotRun"} = selected
  <2>1. CASE stage = "abort"
    BY <2>1 DEF CInv, SuiteInv, EarlyStages, AbortStages, NothingJudged, Judged
  <2>2. CASE stage = "finish"
    BY <2>2 DEF CInv, CTypes, SuiteInv, LateStages, AllJudged, Judged
  <2> QED
    BY <2>1, <2>2
<1>4. \A t \in selected : verdict[t] # "NotRun"
  BY <1>3
<1> QED
  BY <1>1, <1>2, <1>3, <1>4 DEF DocumentFaithful, Judged

LEMMA FinishKeeps ==
  ASSUME CInv, Finish
  PROVE  CInv'
<1>1. /\ stage \in {"abort", "finish"}
      /\ stage' = (IF stage = "abort" THEN "aborted" ELSE "teardown")
      /\ finish_result' \in {"Ok", "Err"}
      /\ \/ UNCHANGED document /\ (args.reporter = "junit" => finish_result' = "Err")
         \/ document' = Document("whole") /\ args.reporter = "junit"
      /\ UNCHANGED <<pvars, args, registry, set_up, torn_down, selected, verdict, recorded>>
  BY DEF Finish, Go, AfterFinish
<1>2. UNCHANGED <<pphase, report>>
  BY <1>1 DEF pvars
<1>3. document'.state \in {"none", "torn", "whole"}
      /\ (args.reporter # "junit" => document'.state = "none")
      /\ (args.reporter = "junit" /\ finish_result' = "Ok" => document'.state = "whole")
  BY <1>1 DEF Document, CInv, CTypes, DocInv
<1>4. PInv'
  BY <1>1, StillPInv DEF CInv
<1>5. CTypes' /\ GateInv'
  BY <1>1, <1>2, <1>3 DEF CInv, CTypes, GateInv, EarlyStages, AbortStages, SuiteStages,
                          LateStages
<1>6. SuiteInv'
  BY <1>1 DEF CInv, SuiteInv, EarlyStages, AbortStages, LateStages, NothingJudged,
              AllJudged, Judged
<1>7. DocInv'
  BY <1>1, <1>2, <1>3 DEF CInv, DocInv, EarlyStages, AbortStages, SuiteStages, LateStages
<1>8. GatedByPreflight'
  BY <1>1, <1>2 DEF CInv, EndInv, GatedByPreflight, Judged
<1>9. TeardownPaired' /\ ExitTellsTests'
  BY <1>1 DEF CInv, SuiteInv, TeardownPaired, ExitTellsTests, Exited
<1>10. DocumentFaithful'
  <2>1. CASE UNCHANGED document
    BY <1>1, <1>2, <2>1 DEF CInv, DocInv, DocumentFaithful
  <2>2. CASE document' = Document("whole")
    BY <1>1, <1>2, <2>2, WholeDocument
  <2> QED
    BY <1>1, <2>1, <2>2
<1> QED
  BY <1>4, <1>5, <1>6, <1>7, <1>8, <1>9, <1>10 DEF CInv, EndInv

LEMMA GlobalTeardownKeeps ==
  ASSUME CInv, GlobalTeardown
  PROVE  CInv'
<1>t. registry.teardown \in BOOLEAN
  BY ArgTypes DEF CInv, CTypes
<1>1. CASE Panics("teardown")
  BY <1>1, HardEnd DEF Panics, Exits
<1>2. CASE ~Panics("teardown")
  <2>1. /\ stage = "teardown" /\ stage' = "verdict"
        /\ torn_down' = (IF registry.teardown THEN torn_down + 1 ELSE torn_down)
        /\ UNCHANGED <<pvars, args, registry, set_up, selected, verdict, recorded,
                       document, finish_result>>
    BY <1>2 DEF GlobalTeardown, Go
  <2>2. UNCHANGED <<pphase, report>>
    BY <2>1 DEF pvars
  <2>3. torn_down' = (IF registry.teardown THEN 1 ELSE 0)
    BY <2>1 DEF CInv, SuiteInv
  <2>4. PInv'
    BY <2>1, StillPInv DEF CInv
  <2>5. CTypes' /\ GateInv'
    BY <2>1, <2>2, <2>3 DEF CInv, CTypes, GateInv, EarlyStages, AbortStages, SuiteStages,
                            LateStages
  <2>6. SuiteInv'
    BY <2>1, <2>3 DEF CInv, SuiteInv, EarlyStages, AbortStages, LateStages, AllJudged, Judged
  <2>7. DocInv'
    BY <2>1, <2>2 DEF CInv, DocInv, EarlyStages, AbortStages, SuiteStages, LateStages
  <2>8. GatedByPreflight' /\ DocumentFaithful'
    BY <2>1, <2>2 DEF CInv, EndInv, GatedByPreflight, DocumentFaithful, Judged
  <2>9. TeardownPaired' /\ ExitTellsTests'
    <3>1. finish_result # "pending" /\ \A t \in selected : Judged(t)
      BY <2>1 DEF CInv, CTypes, SuiteInv, LateStages, AllJudged
    <3> QED
      BY <2>1, <3>1 DEF TeardownPaired, ExitTellsTests, Exited, Judged
  <2> QED
    BY <2>4, <2>5, <2>6, <2>7, <2>8, <2>9 DEF CInv, EndInv
<1> QED
  BY <1>1, <1>2

\* The end of a run that has been through everything.
LEMMA ReturnKeeps ==
  ASSUME CInv, Return
  PROVE  CInv'
<1>1. /\ stage = "verdict" /\ stage' = "exited" /\ UNCHANGED <<pvars, cvars>>
      /\ \/ (failed > 0 \/ finish_result = "Err") /\ code' = 1
         \/ failed = 0 /\ finish_result = "Ok" /\ code' = 0
  BY DEF Return, Errs, Exits
<1>2. UNCHANGED <<args, registry, set_up, torn_down, selected, verdict, recorded,
                  document, finish_result, pphase, report, probes, registered>>
  BY <1>1 DEF cvars, pvars
<1>3. /\ \A t \in selected : Judged(t)
      /\ finish_result # "pending"
      /\ torn_down = (IF registry.teardown THEN 1 ELSE 0)
      /\ ~args.preflight_only
      /\ args.reporter = "junit" /\ finish_result = "Ok" => document.state = "whole"
  BY <1>1 DEF CInv, CTypes, SuiteInv, GateInv, DocInv, SuiteStages, LateStages, AllJudged
<1>4. /\ failed \in Nat
      /\ failed > 0 <=> \E t \in selected : verdict[t] = "Failed"
  BY <1>3, FailedCounts DEF CInv
<1>5. failed = 0 => \A t \in selected : verdict[t] \in {"Passed", "Skipped"}
  BY <1>3, <1>4 DEF CInv, CTypes, Outcomes, Judged
<1>6. TeardownPaired'
  BY <1>1, <1>2, <1>3 DEF TeardownPaired, Exited, Judged
<1>7. ExitTellsTests'
  BY <1>1, <1>2, <1>3, <1>4, <1>5 DEF ExitTellsTests, Exited, Judged
<1> QED
  BY <1>1, <1>6, <1>7, OwnEnd

-----------------------------------------------------------------------------
LEMMA NextCInv == CInv /\ [CNext]_allvars => CInv'
<1> SUFFICES ASSUME CInv, [CNext]_allvars PROVE CInv'
  OBVIOUS
<1>1. CASE KilledFromOutside
  BY <1>1, HardEnd DEF KilledFromOutside
<1>2. CASE Publishing
  <2>1. CASE FinishPanics
    BY <2>1, HardEnd DEF FinishPanics, Panics
  <2> QED
    BY <1>2, <2>1, WriteBeginsKeeps, FinishKeeps, GlobalTeardownKeeps, ReturnKeeps
    DEF Publishing
<1>3. CASE UNCHANGED allvars
  <2>1. UNCHANGED <<pvars, args, registry, stage, code, set_up, torn_down, selected,
                    verdict, recorded, document, finish_result>>
    BY <1>3 DEF allvars, cvars
  <2>2. UNCHANGED <<pphase, report, probes, registered>>
    BY <2>1 DEF pvars
  <2>3. PInv'
    BY <2>1, StillPInv DEF CInv
  <2>4. CTypes' /\ GateInv' /\ SuiteInv' /\ DocInv'
    BY <2>1, <2>2 DEF CInv, CTypes, GateInv, SuiteInv, DocInv, NothingJudged, AllJudged, Judged
  <2>5. EndInv'
    BY <2>1, <2>2 DEF CInv, EndInv, GatedByPreflight, TeardownPaired, ExitTellsTests,
                      DocumentFaithful, Exited, Judged
  <2> QED
    BY <2>3, <2>4, <2>5 DEF CInv
<1> QED
  BY <1>1, <1>2, <1>3, BeginningKeeps, PreflightKeeps, PhaseKeeps, SuiteKeeps DEF CNext, CEnded

LEMMA CoordinatorInvariant == CSpec => []CInv
  BY InitCInv, NextCInv, PTL DEF CSpec

\* Nothing of the suite runs unless preflight passed or the operator waived
\* exactly that (orchestrator.rs:46-73, preflight_runner.rs:94-102).
THEOREM PreflightGates == CSpec => []GatedByPreflight
<1>1. CInv => GatedByPreflight
  BY DEF CInv, EndInv
<1> QED
  BY <1>1, CoordinatorInvariant, PTL

\* Once the suite was judged, an exit of the coordinator's own has been through
\* the teardown, once, after the document (orchestrator.rs:546-565).
THEOREM TeardownIsPaired == CSpec => []TeardownPaired
<1>1. CInv => TeardownPaired
  BY DEF CInv, EndInv
<1> QED
  BY <1>1, CoordinatorInvariant, PTL

\* The exit code is the truth about the selected cases, the document and the
\* preflight (lib.rs:563-576).
THEOREM ExitCodeTells == CSpec => []ExitTellsTests
<1>1. CInv => ExitTellsTests
  BY DEF CInv, EndInv
<1> QED
  BY <1>1, CoordinatorInvariant, PTL

\* A whole document has every probe and every final verdict
\* (junit.rs:101-140, 363-376).
THEOREM DocumentIsFaithful == CSpec => []DocumentFaithful
<1>1. CInv => DocumentFaithful
  BY DEF CInv, EndInv
<1> QED
  BY <1>1, CoordinatorInvariant, PTL

-----------------------------------------------------------------------------
(* The refinement                                                          *)

\* A step that neither ends the process nor touches the document is none of
\* the contract's.
LEMMA Stutters ==
  ASSUME stage # "exited", stage' # "exited", UNCHANGED <<args, document>>
  PROVE  Process' = Process
BY DEF Process

\* An end, with the code it has.
LEMMA EndRefines ==
  ASSUME CTypes, stage # "exited", stage' = "exited", UNCHANGED <<args, document>>,
         code' \in {Killed, 0, 1, 2, 101},
         code' = 0 => \/ args.reporter # "junit" \/ args.preflight_only
                      \/ document.state = "whole"
  PROVE  Process' \in Successors(Process)
<1>1. Process = [junit |-> args.reporter = "junit", only |-> args.preflight_only,
                 alive |-> TRUE, code |-> Killed, part |-> document.state]
  BY DEF Process
<1>2. Process' = [junit |-> args.reporter = "junit", only |-> args.preflight_only,
                  alive |-> FALSE, code |-> code', part |-> document.state]
  BY DEF Process
<1>3. Process' = Turned(Process, FALSE, code', Process.part)
  BY <1>1, <1>2 DEF Turned
<1>4. code' \in {Killed, 1, 2, 101} \cup
        (IF Process.junit /\ ~Process.only /\ Process.part # "whole" THEN {} ELSE {0})
  BY <1>1
<1>5. Process' \in Ends(Process) /\ Process.alive
  BY <1>1, <1>3, <1>4 DEF Ends
<1> QED
  BY <1>5 DEF Successors

\* A step of the document.
LEMMA WriteRefines ==
  ASSUME stage # "exited", stage' # "exited", UNCHANGED args,
         args.reporter = "junit", ~args.preflight_only,
         \/ document.state = "none" /\ document'.state = "torn"
         \/ document.state = "torn" /\ document'.state = "whole"
  PROVE  Process' \in Successors(Process)
<1>1. Process = [junit |-> TRUE, only |-> args.preflight_only,
                 alive |-> TRUE, code |-> Killed, part |-> document.state]
  BY DEF Process
<1>2. Process' = [junit |-> TRUE, only |-> args.preflight_only,
                  alive |-> TRUE, code |-> Killed, part |-> document'.state]
  BY DEF Process
<1>3. Process' = Turned(Process, Process.alive, Process.code, document'.state)
  BY <1>1, <1>2 DEF Turned
<1>4. Process' \in Writes(Process)
  BY <1>1, <1>3 DEF Writes
<1> QED
  BY <1>1, <1>4 DEF Successors

LEMMA StepRefines ==
  ASSUME CInv, CInv', [CNext]_allvars
  PROVE  Process' \in Successors(Process) \/ Process' = Process
<1>t. CTypes
  BY DEF CInv
<1>1. CASE UNCHANGED allvars
  BY <1>1 DEF allvars, cvars, Process
<1>2. CASE WriteBegins
  <2>1. ~args.preflight_only
    BY <1>2 DEF WriteBegins, CInv, GateInv, AbortStages, SuiteStages, LateStages
  <2> QED
    BY <1>2, <2>1, WriteRefines DEF WriteBegins, Document
<1>3. CASE Finish
  <2>1. /\ ~args.preflight_only /\ stage \in {"abort", "finish"}
        /\ stage' \in {"aborted", "teardown"} /\ UNCHANGED args
    BY <1>3 DEF Finish, Go, AfterFinish, CInv, GateInv, AbortStages, SuiteStages, LateStages
  <2>2. CASE UNCHANGED document
    BY <2>1, <2>2, Stutters
  <2>3. CASE document' # document
    BY <1>3, <2>1, <2>3, WriteRefines DEF Finish, Document
  <2> QED
    BY <2>2, <2>3
<1>4. CASE ~Finish /\ ~WriteBegins /\ ~UNCHANGED allvars /\ stage' # "exited"
  <2>1. stage # "exited" /\ UNCHANGED <<args, document>>
    BY <1>4 DEF CNext, CEnded, Beginning, PreflightPhase, Preparation,
                Execution, Publishing,
                KilledFromOutside, assert_singleton_registrations, build_reporter,
                preflight_step, handle_preflight_only, PreflightInvalid, PreflightPanics,
                PreflightAborts, Abort, handle_preflight_phase, GlobalSetup,
                StateHandoff_capture, PlanSuite, Execute, ExecutePanics,
                FinishPanics, GlobalTeardown,
                Return, Panics, Errs, Exits, Go, cvars
  <2> QED
    BY <1>4, <2>1, Stutters
<1>5. CASE ~Finish /\ ~WriteBegins /\ ~UNCHANGED allvars /\ stage' = "exited"
  <2>1. stage # "exited" /\ UNCHANGED <<args, document>>
    BY <1>5 DEF CNext, CEnded, Beginning, PreflightPhase, Preparation,
                Execution, Publishing,
                KilledFromOutside, assert_singleton_registrations, build_reporter,
                preflight_step, handle_preflight_only, PreflightInvalid, PreflightPanics,
                PreflightAborts, Abort, handle_preflight_phase, GlobalSetup,
                StateHandoff_capture, PlanSuite, Execute, ExecutePanics,
                FinishPanics, GlobalTeardown,
                Return, Panics, Errs, Exits, Go, cvars
  <2>2. code' \in {Killed, 0, 1, 2, 101}
    BY <1>5 DEF CInv, CTypes
  <2>3. code' = 0 /\ ~args.preflight_only /\ args.reporter = "junit" =>
          document.state = "whole"
    BY <1>5, <2>1 DEF CInv, EndInv, ExitTellsTests, Exited
  <2> QED
    BY <1>t, <1>5, <2>1, <2>2, <2>3, EndRefines
<1> QED
  BY <1>1, <1>2, <1>3, <1>4, <1>5

\* A run of the coordinator is a run of the process cargo-rigtest counts on.
THEOREM CoordinatorKeepsContract == CSpec => KeepsBinaryContract
<1>1. CInit => Process = Started(args.reporter = "junit", args.preflight_only)
  <2> SUFFICES ASSUME CInit
      PROVE  Process = Started(args.reporter = "junit", args.preflight_only)
    OBVIOUS
  <2>1. (stage # "exited") = TRUE /\ stage # "exited" /\ document.state = "none"
    BY DEF CInit, NoDocument
  <2> QED
    BY <2>1, Zenon DEF Process, Started
<1>2. CInv /\ CInv' /\ [CNext]_allvars =>
        [Process' \in Successors(Process)]_Process
  BY StepRefines
<1> QED
  BY <1>1, <1>2, CoordinatorInvariant, PTL DEF CSpec, KeepsBinaryContract
=============================================================================
