--------------------------- MODULE PreflightProofs ---------------------------
(***************************************************************************)
(* Theorems about Preflight, for every number of probes and every function *)
(* that declares them.                                                     *)
(***************************************************************************)
EXTENDS Preflight, FiniteSetTheorems, SequenceTheorems, TLAPS

-----------------------------------------------------------------------------
(* The inductive invariant                                                 *)
(*                                                                         *)
(* A report is written once, from the outcomes of that moment; what makes  *)
(* it true of the probes is that the outcomes are those of the declared    *)
(* probes from the moment the first one is polled, and that each probe     *)
(* that is no longer pending has been printed exactly once.                *)

Verdicts == {"Pending", "Passed", "Failed"}
Answered == {i \in DOMAIN outcome : outcome[i] # "Pending"}

JoinedReport == [declared |-> TRUE, passed |-> FailedProbes = {},
                 failed |-> Cardinality(FailedProbes), results |-> Results]
EmptyReports == {NoReport, [NoReport EXCEPT !.declared = TRUE]}

\* The declared probes are a finite list, whatever they are.
ListInv == \E S : probes \in Seq(S)

\* Before the probes are polled, and when they never are, there is nothing.
QuietInv ==
    /\ pphase = "idle" => probes = <<>>
    /\ pphase \in {"idle", "building", "invalid"} => outcome = <<>> /\ finished = <<>>
    /\ pphase # "reported" => report = NoReport

OutcomeInv ==
    pphase = "probing" => outcome \in [DOMAIN probes -> Verdicts]

\* Lines and answers are one to one.
LinesInv ==
    /\ finished \in Seq(Nat)
    /\ {finished[k] : k \in DOMAIN finished} = Answered
    /\ IsFiniteSet(Answered)
    /\ Len(finished) = Cardinality(Answered)

ReportInv ==
    pphase = "reported" =>
        \/ probes = <<>> /\ outcome = <<>> /\ report \in EmptyReports
        \/ /\ outcome \in [DOMAIN probes -> {"Passed", "Failed"}]
           /\ report = JoinedReport

PInv == ListInv /\ QuietInv /\ OutcomeInv /\ LinesInv /\ ReportInv

\* A list of probes has finitely many positions.
LEMMA ListFinite ==
  ASSUME ListInv
  PROVE  /\ DOMAIN probes = 1 .. Len(probes) /\ Len(probes) \in Nat
         /\ IsFiniteSet(DOMAIN probes)
         /\ Cardinality(DOMAIN probes) = Len(probes)
<1>1. PICK S : probes \in Seq(S)
  BY DEF ListInv
<1>2. DOMAIN probes = 1 .. Len(probes) /\ Len(probes) \in Nat
  BY <1>1
<1>3. Cardinality(1 .. Len(probes)) = (IF 1 > Len(probes) THEN 0 ELSE Len(probes) - 1 + 1)
      /\ IsFiniteSet(1 .. Len(probes))
  BY <1>2, FS_Interval
<1> QED
  BY <1>2, <1>3

LEMMA InitPInv == PInit => PInv
<1> SUFFICES ASSUME PInit PROVE PInv
  OBVIOUS
<1>1. ListInv
  <2>1. probes \in Seq({})
    BY DEF PInit
  <2> QED
    BY <2>1 DEF ListInv
<1>2. Answered = {} /\ {finished[k] : k \in DOMAIN finished} = {}
  BY DEF PInit, Answered
<1>3. LinesInv
  BY <1>2, FS_EmptySet DEF PInit, LinesInv
<1> QED
  BY <1>1, <1>3 DEF PInit, PInv, QuietInv, OutcomeInv, ReportInv

\* The steps of the builder only touch the list.
LEMMA BuilderKeeps ==
  ASSUME PInv, pphase = "building", ListInv',
         pphase' \in {"building", "panicked"},
         UNCHANGED <<outcome, finished, report>>
  PROVE  PInv'
<1>1. LinesInv'
  BY DEF PInv, LinesInv, Answered
<1> QED
  BY <1>1 DEF PInv, QuietInv, OutcomeInv, ReportInv

\* A probe that becomes ready adds its line.
LEMMA ReadyKeeps ==
  ASSUME PInv, NEW i \in DOMAIN outcome, Polled(i),
         NEW v \in {"Passed", "Failed"}, Ready(i, v)
  PROVE  PInv'
<1>1. /\ pphase = "probing" /\ pphase' = pphase /\ probes' = probes
      /\ outcome[i] = "Pending" /\ report' = report
  BY DEF Polled, Pending, Ready
<1>2. /\ outcome \in [DOMAIN probes -> Verdicts]
      /\ outcome' = [outcome EXCEPT ![i] = v]
      /\ finished' = Append(finished, i)
  BY <1>1 DEF PInv, OutcomeInv, Ready, finalize_spinner
<1>3. outcome' \in [DOMAIN probes' -> Verdicts]
  BY <1>1, <1>2 DEF Verdicts
<1>4. Answered' = Answered \cup {i} /\ i \notin Answered
  BY <1>1, <1>2 DEF Answered, Verdicts
<1>5. i \in Nat
  BY <1>2, ListFinite DEF PInv
<1>6. finished \in Seq(Nat) /\ Len(finished) \in Nat
      /\ {finished[k] : k \in DOMAIN finished} = Answered
      /\ IsFiniteSet(Answered) /\ Len(finished) = Cardinality(Answered)
  BY DEF PInv, LinesInv
<1>7. finished' \in Seq(Nat) /\ Len(finished') = Len(finished) + 1
  BY <1>2, <1>5, <1>6
<1>8. {finished'[k] : k \in DOMAIN finished'} = Answered'
  <2>1. /\ DOMAIN finished = 1 .. Len(finished)
        /\ DOMAIN finished' = 1 .. (Len(finished) + 1)
        /\ \A k \in 1 .. Len(finished) : finished'[k] = finished[k]
        /\ finished'[Len(finished) + 1] = i
    BY <1>2, <1>5, <1>6, <1>7
  <2>2. ASSUME NEW k \in DOMAIN finished' PROVE finished'[k] \in Answered'
    <3>1. k \in 1 .. Len(finished) \/ k = Len(finished) + 1
      BY <1>6, <2>1, <2>2
    <3> QED
      BY <1>4, <1>6, <2>1, <3>1
  <2>3. ASSUME NEW x \in Answered'
        PROVE  \E k \in DOMAIN finished' : finished'[k] = x
    <3>1. CASE x = i
      BY <1>6, <2>1, <3>1
    <3>2. CASE x \in Answered
      <4>1. PICK k \in DOMAIN finished : finished[k] = x
        BY <1>6, <3>2
      <4> QED
        BY <1>6, <2>1, <4>1
    <3> QED
      BY <1>4, <3>1, <3>2
  <2> QED
    BY <2>2, <2>3
<1>9. IsFiniteSet(Answered') /\ Len(finished') = Cardinality(Answered')
  BY <1>4, <1>6, <1>7, FS_AddElement
<1>10. LinesInv'
  BY <1>7, <1>8, <1>9 DEF LinesInv
<1>11. ListInv'
  BY <1>1 DEF PInv, ListInv
<1> QED
  BY <1>1, <1>3, <1>10, <1>11 DEF PInv, QuietInv, OutcomeInv, ReportInv

\* A step that leaves the lists and the outcomes alone.
LEMMA FrozenKeeps ==
  ASSUME PInv, UNCHANGED <<probes, outcome, finished>>
  PROVE  ListInv' /\ LinesInv'
BY DEF PInv, ListInv, LinesInv, Answered

LEMMA NextPInv == PInv /\ [PNext \/ PEnded]_pvars => PInv'
<1> SUFFICES ASSUME PInv, [PNext \/ PEnded]_pvars PROVE PInv'
  OBVIOUS
<1>1. CASE Begin
  BY <1>1, FrozenKeeps DEF Begin, PInv, QuietInv, OutcomeInv, ReportInv, EmptyReports
<1>2. CASE Declare
  <2>1. PICK d \in Declarable : probes' = Append(probes, Probe(d.method, d.name, d.target))
    BY <1>2 DEF Declare
  <2>2. PICK S : probes \in Seq(S)
    BY DEF PInv, ListInv
  <2>3. probes' \in Seq(S \cup {Probe(d.method, d.name, d.target)})
    BY <2>1, <2>2
  <2>4. ListInv'
    BY <2>3 DEF ListInv
  <2> QED
    BY <1>2, <2>4, BuilderKeeps DEF Declare
<1>3. CASE CallModifier
  <2>1. PICK m \in Modifiers : ModifyLast(m)
    BY <1>3 DEF CallModifier
  <2>2. PICK S : probes \in Seq(S)
    BY DEF PInv, ListInv
  <2>3. ListInv'
    <3>1. CASE probes = <<>>
      BY <2>1, <2>2, <3>1 DEF ModifyLast, ListInv
    <3>2. CASE probes # <<>>
      <4>1. PICK q : probes' = [probes EXCEPT ![Len(probes)] = q]
        BY <2>1, <3>2 DEF ModifyLast
      <4> DEFINE n == Len(probes)
      <4>2. n \in Nat /\ probes \in [1 .. n -> S]
        BY <2>2
      <4>3. probes' \in Seq(S \cup {q})
        <5>1. probes' = [i \in 1 .. n |-> IF i = n THEN q ELSE probes[i]]
          BY <4>1, <4>2
        <5> HIDE DEF n
        <5>2. probes' \in [1 .. n -> S \cup {q}]
          BY <4>2, <5>1
        <5> QED
          BY <4>2, <5>2
      <4> QED
        BY <4>3 DEF ListInv
    <3> QED
      BY <3>1, <3>2
  <2> QED
    BY <1>3, <2>3, BuilderKeeps DEF CallModifier
<1>4. CASE BuildPanics
  <2>1. ListInv'
    BY <1>4, FrozenKeeps DEF BuildPanics
  <2> QED
    BY <1>4, <2>1, BuilderKeeps DEF BuildPanics
<1>5. CASE Built
  <2>1. CASE pphase' \in {"reported", "invalid"}
    <3>1. UNCHANGED <<probes, outcome, finished>>
      BY <1>5, <2>1 DEF Built
    <3> QED
      BY <1>5, <2>1, <3>1, FrozenKeeps
      DEF Built, PInv, QuietInv, OutcomeInv, ReportInv, EmptyReports
  <2>2. CASE pphase' = "probing"
    <3>1. /\ outcome' = [i \in DOMAIN probes |-> "Pending"]
          /\ UNCHANGED <<probes, finished, report>> /\ finished = <<>> /\ report = NoReport
      BY <1>5, <2>2 DEF Built, PInv, QuietInv
    <3>2. Answered' = {}
      BY <3>1 DEF Answered
    <3>3. LinesInv'
      BY <3>1, <3>2, FS_EmptySet DEF LinesInv
    <3>4. ListInv'
      BY <3>1 DEF PInv, ListInv
    <3> QED
      BY <2>2, <3>1, <3>3, <3>4 DEF PInv, QuietInv, OutcomeInv, ReportInv, Verdicts
  <2> QED
    BY <1>5, <2>1, <2>2 DEF Built
<1>6. ASSUME NEW i \in DOMAIN outcome, ProbeAnswers(i) PROVE PInv'
  <2>1. PICK met : Ready(i, IF run_probe(probes[i], met) THEN "Passed" ELSE "Failed")
    BY <1>6 DEF ProbeAnswers
  <2>2. PICK v \in {"Passed", "Failed"} : Ready(i, v)
    BY <2>1
  <2> QED
    BY <1>6, <2>2, ReadyKeeps DEF ProbeAnswers
<1>7. ASSUME NEW i \in DOMAIN outcome, ProbeTimesOut(i) PROVE PInv'
  BY <1>7, ReadyKeeps DEF ProbeTimesOut
<1>8. ASSUME NEW i \in DOMAIN outcome, ProbeBlocks(i) \/ ProbePanics(i) PROVE PInv'
  BY <1>8, FrozenKeeps DEF ProbeBlocks, ProbePanics, Polled, PInv, QuietInv,
                           OutcomeInv, ReportInv
<1>9. CASE Joined
  <2>1. UNCHANGED <<probes, outcome, finished>> /\ pphase' = "reported"
    BY <1>9 DEF Joined
  <2>2. outcome' \in [DOMAIN probes' -> {"Passed", "Failed"}]
    BY <1>9, <2>1 DEF Joined, Pending, PInv, OutcomeInv, Verdicts
  <2>3. report' = JoinedReport'
    BY <1>9, <2>1 DEF Joined, JoinedReport, FailedProbes, Results, Result
  <2> QED
    BY <2>1, <2>2, <2>3, FrozenKeeps DEF PInv, QuietInv, OutcomeInv, ReportInv
<1>10. CASE UNCHANGED pvars
  <2>1. UNCHANGED JoinedReport
    BY <1>10 DEF pvars, JoinedReport, FailedProbes, Results, Result
  <2> QED
    BY <1>10, <2>1, FrozenKeeps DEF pvars, PInv, QuietInv, OutcomeInv, ReportInv
<1> QED
  BY <1>1, <1>2, <1>3, <1>4, <1>5, <1>6, <1>7, <1>8, <1>9, <1>10
  DEF PNext, ProbeStep, PEnded

LEMMA PreflightInvariant == PSpec => []PInv
  BY InitPInv, NextPInv, PTL DEF PSpec

-----------------------------------------------------------------------------
(* The properties                                                          *)

LEMMA PInvPairs == PInv => ResultsPairWithProbes
<1> SUFFICES ASSUME PInv, pphase = "reported", probes # <<>>
    PROVE  /\ DOMAIN report.results = DOMAIN probes
           /\ \A i \in DOMAIN probes :
                /\ report.results[i].name = display_name(probes, i)
                /\ report.results[i].verdict = outcome[i]
           /\ report.passed <=> \A i \in DOMAIN probes : outcome[i] = "Passed"
           /\ report.failed = Cardinality({i \in DOMAIN probes : outcome[i] # "Passed"})
  BY DEF ResultsPairWithProbes
<1>1. /\ outcome \in [DOMAIN probes -> {"Passed", "Failed"}]
      /\ report = JoinedReport
  BY DEF PInv, ReportInv
<1>2. FailedProbes = {i \in DOMAIN probes : outcome[i] # "Passed"}
  BY <1>1 DEF FailedProbes
<1>3. /\ report.passed = (FailedProbes = {})
      /\ report.failed = Cardinality(FailedProbes)
      /\ report.results = Results
  BY <1>1 DEF JoinedReport
<1>4. DOMAIN Results = DOMAIN probes
  BY DEF Results
<1>5. ASSUME NEW i \in DOMAIN probes
      PROVE  Results[i].name = display_name(probes, i) /\ Results[i].verdict = outcome[i]
  BY DEF Results, Result
<1>6. report.passed <=> \A i \in DOMAIN probes : outcome[i] = "Passed"
  BY <1>2, <1>3
<1> QED
  BY <1>2, <1>3, <1>4, <1>5, <1>6

\* Whatever the order in which the probes finish, result i is the one of the
\* i-th probe, and the verdict counts them (preflight_runner.rs:181-220).
THEOREM ResultsAreTheProbes == PSpec => []ResultsPairWithProbes
  BY PreflightInvariant, PInvPairs, PTL

LEMMA PInvAllOrNone == PInv => AllProbesOrNone
<1> SUFFICES ASSUME PInv, pphase = "reported"
    PROVE  /\ {finished[k] : k \in DOMAIN finished} = DOMAIN probes
           /\ Len(finished) = Len(probes)
  BY DEF AllProbesOrNone, PInv, QuietInv
<1>1. Answered = DOMAIN probes
  <2>1. CASE probes = <<>> /\ outcome = <<>>
    <3>1. outcome = probes
      BY <2>1
    <3>2. DOMAIN outcome = {}
      BY <2>1
    <3> QED
      BY <3>1, <3>2 DEF Answered
  <2>2. CASE outcome \in [DOMAIN probes -> {"Passed", "Failed"}]
    BY <2>2 DEF Answered
  <2> QED
    BY <2>1, <2>2 DEF PInv, ReportInv
<1> QED
  BY <1>1, ListFinite DEF PInv, LinesInv

\* A report means that every probe ran to its own end, once; a structural
\* error that none was started (preflight_runner.rs:94-102, 146-150).
THEOREM AllProbesRanOrNone == PSpec => []AllProbesOrNone
  BY PreflightInvariant, PInvAllOrNone, PTL

-----------------------------------------------------------------------------
(* Names                                                                   *)

Fields == {"name", "kind", "target", "timeout", "expect", "headers"}

\* Every declared probe has a name, whatever modifiers were called on it.
NamedInv ==
    \A i \in DOMAIN probes :
        DOMAIN probes[i] = Fields /\ probes[i].name \in Seq(STRING)

\* The check of the names was made on the probes that run, or never will.
CheckedInv ==
    /\ pphase = "probing" => \A i \in DOMAIN probes : ~Ambiguous(probes, i)
    /\ pphase = "invalid" => \E i \in DOMAIN probes : Ambiguous(probes, i)

LEMMA ModifyKeeps ==
  ASSUME NEW p, DOMAIN p = Fields, p.name \in Seq(STRING), NEW m
  PROVE  DOMAIN Modify(p, m) = Fields /\ Modify(p, m).name \in Seq(STRING)
BY DEF Modify, Fields

LEMMA NextNames ==
  ASSUME ListInv, NamedInv, CheckedInv, [PNext \/ PEnded]_pvars
  PROVE  NamedInv' /\ CheckedInv'
<1>1. PICK S : probes \in Seq(S)
  BY DEF ListInv
<1>2. CASE Declare
  <2>1. PICK d \in Declarable : probes' = Append(probes, Probe(d.method, d.name, d.target))
    BY <1>2 DEF Declare
  <2> DEFINE q == Probe(d.method, d.name, d.target)
  <2>2. DOMAIN q = Fields /\ q.name \in Seq(STRING)
    BY PreflightAssumption DEF Probe, Fields
  <2> HIDE DEF q
  <2>3. NamedInv'
    <3>1. probes' = Append(probes, q)
      BY <2>1 DEF q
    <3>2. /\ DOMAIN probes' = 1 .. (Len(probes) + 1) /\ Len(probes) \in Nat
          /\ DOMAIN probes = 1 .. Len(probes)
          /\ \A k \in 1 .. Len(probes) : probes'[k] = probes[k]
          /\ probes'[Len(probes) + 1] = q
      <4>1. probes \in Seq(S \cup {q}) /\ q \in S \cup {q}
        BY <1>1
      <4> QED
        BY <3>1, <4>1, AppendProperties
    <3>3. ASSUME NEW k \in DOMAIN probes' PROVE k \in DOMAIN probes \/ k = Len(probes) + 1
      BY <3>2, <3>3
    <3> QED
      BY <2>2, <3>2, <3>3 DEF NamedInv
  <2>4. pphase' = "building"
    BY <1>2 DEF Declare
  <2> QED
    BY <2>3, <2>4 DEF CheckedInv
<1>3. CASE CallModifier
  <2>1. PICK m \in Modifiers : ModifyLast(m)
    BY <1>3 DEF CallModifier
  <2>2. ASSUME probes # <<>> PROVE NamedInv'
    <3> DEFINE n == Len(probes)
               q == Modify(probes[n], m)
    <3>1. n \in DOMAIN probes /\ DOMAIN probes = 1 .. n
      BY <1>1, <2>2
    <3>2. probes' = [probes EXCEPT ![n] = q]
      BY <2>1, <2>2 DEF ModifyLast
    <3>3. DOMAIN q = Fields /\ q.name \in Seq(STRING)
      BY <3>1, ModifyKeeps DEF NamedInv
    <3> HIDE DEF n, q
    <3> QED
      BY <3>1, <3>2, <3>3 DEF NamedInv
  <2>3. ASSUME probes = <<>> PROVE NamedInv'
    BY <2>1, <2>3 DEF ModifyLast, NamedInv
  <2>4. pphase' = "building"
    BY <1>3 DEF CallModifier
  <2> QED
    BY <2>2, <2>3, <2>4 DEF CheckedInv
<1>4. CASE ~Declare /\ ~CallModifier
  <2>1. probes' = probes
    BY <1>4 DEF PNext, PEnded, pvars, Begin, BuildPanics, Built, ProbeStep, ProbeAnswers,
                ProbeTimesOut, ProbeBlocks, ProbePanics, Ready, Joined
  <2>2. NamedInv'
    BY <2>1 DEF NamedInv
  <2>3. \/ Built
        \/ pphase' \in {"building", "reported", "panicked"}
        \/ pphase' = pphase
    BY <1>4 DEF PNext, PEnded, pvars, Begin, BuildPanics, ProbeStep, ProbeAnswers,
                ProbeTimesOut, ProbeBlocks, ProbePanics, Ready, Joined
  <2>4. CASE Built
    BY <2>1, <2>2, <2>4 DEF Built, CheckedInv
  <2>5. CASE pphase' \in {"building", "reported", "panicked"}
    BY <2>2, <2>5 DEF CheckedInv
  <2>6. CASE pphase' = pphase
    BY <2>1, <2>2, <2>6 DEF CheckedInv
  <2> QED
    BY <2>3, <2>4, <2>5, <2>6
<1> QED
  BY <1>2, <1>3, <1>4

\* A set of positions with i in it counts one exactly if i is alone.
LEMMA Alone ==
  ASSUME ListInv, NEW P \in SUBSET DOMAIN probes, NEW i \in P
  PROVE  /\ Cardinality(P) = 1 <=> \A j \in P : j = i
         /\ Cardinality(P) > 1 <=> \E j \in P : j # i
<1>1. IsFiniteSet(P)
  BY ListFinite, FS_Subset
<1>2. Cardinality(P) \in Nat /\ Cardinality(P) # 0
  BY <1>1, FS_CardinalityType, FS_EmptySet
<1>3. Cardinality(P) = 1 <=> \E x : P = {x}
  BY <1>1, FS_Singleton
<1>4. (\E x : P = {x}) <=> \A j \in P : j = i
  OBVIOUS
<1> QED
  BY <1>2, <1>3, <1>4

\* disambiguate_names gives up exactly where two probes are indistinct.
LEMMA GivesUp ==
  ASSUME ListInv
  PROVE  (\E i \in DOMAIN probes : Ambiguous(probes, i))
            <=> \E i, j \in DOMAIN probes : Indistinct(i, j)
<1>1. ASSUME NEW i \in DOMAIN probes
      PROVE  /\ i \in SameType(probes, i) /\ i \in SameTarget(probes, i)
             /\ SameType(probes, i) \in SUBSET DOMAIN probes
             /\ SameTarget(probes, i) \in SUBSET DOMAIN probes
  BY DEF SameType, SameTarget, SameName
<1>2. ASSUME NEW i \in DOMAIN probes, Ambiguous(probes, i)
      PROVE  \E j \in DOMAIN probes : Indistinct(i, j)
  <2>1. CASE natural_target(probes[i]) = {}
    <3>1. probes[i].kind = "custom"
      BY <2>1 DEF natural_target
    <3>2. PICK j \in SameType(probes, i) : j # i
      BY <1>1, <1>2, Alone DEF Ambiguous
    <3> QED
      BY <3>1, <3>2 DEF Indistinct, SameType, SameName
  <2>2. CASE Cardinality(SameTarget(probes, i)) > 1
    <3>1. PICK j \in SameTarget(probes, i) : j # i
      BY <1>1, <2>2, Alone
    <3>2. /\ j \in DOMAIN probes /\ probes[j].name = probes[i].name
          /\ probes[j].kind = probes[i].kind
          /\ natural_target(probes[j]) = natural_target(probes[i])
      BY <3>1 DEF SameTarget, SameType, SameName
    <3>3. probes[i].kind = "custom" \/ probes[i].target = probes[j].target
      BY <3>2 DEF natural_target
    <3> QED
      BY <3>1, <3>2, <3>3 DEF Indistinct
  <2> QED
    BY <1>2, <2>1, <2>2 DEF Ambiguous
<1>3. ASSUME NEW i \in DOMAIN probes, NEW j \in DOMAIN probes, Indistinct(i, j)
      PROVE  Ambiguous(probes, i)
  <2>1. j \in SameType(probes, i) /\ j # i
    BY <1>3 DEF Indistinct, SameType, SameName
  <2>2. Cardinality(SameType(probes, i)) > 1
    BY <1>1, <2>1, Alone
  <2>3. CASE probes[i].kind = "custom"
    BY <2>2, <2>3 DEF Ambiguous, natural_target
  <2>4. CASE probes[i].kind # "custom" /\ probes[i].target = probes[j].target
    <3>1. j \in SameTarget(probes, i)
      BY <1>3, <2>1, <2>4 DEF SameTarget, natural_target, Indistinct
    <3>2. Cardinality(SameTarget(probes, i)) > 1
      BY <1>1, <2>1, <3>1, Alone
    <3> QED
      BY <2>2, <3>2 DEF Ambiguous
  <2> QED
    BY <1>3, <2>3, <2>4 DEF Indistinct
<1> QED
  BY <1>2, <1>3

LEMMA WordAnd ==
  ASSUME NEW W, NEW a \in Seq(W), NEW b \in Seq(W), Len(a) = 1
  PROVE  /\ Len(a \o b) = 1 + Len(b) /\ (a \o b)[1] = a[1]
         /\ \A i \in 1 .. Len(b) : (a \o b)[i + 1] = b[i]
<1>0. Len(b) \in Nat
  OBVIOUS
<1>1. /\ Len(a \o b) = Len(a) + Len(b)
      /\ \A i \in 1 .. Len(a) + Len(b) :
           (a \o b)[i] = IF i <= Len(a) THEN a[i] ELSE b[i - Len(a)]
  BY ConcatProperties, Zenon
<1>2. \A i \in 1 .. 1 + Len(b) : (a \o b)[i] = IF i <= 1 THEN a[i] ELSE b[i - 1]
  BY <1>1
<1>3. (a \o b)[1] = a[1]
  BY <1>0, <1>2
<1>4. ASSUME NEW i \in 1 .. Len(b) PROVE (a \o b)[i + 1] = b[i]
  <2>1. i + 1 \in 1 .. 1 + Len(b) /\ ~(i + 1 <= 1) /\ (i + 1) - 1 = i
    BY <1>0
  <2>2. (a \o b)[i + 1] = b[(i + 1) - 1]
    BY <1>2, <2>1
  <2> QED
    BY <2>1, <2>2
<1> QED
  BY <1>1, <1>3, <1>4

LEMMA SamePlain ==
  ASSUME NEW a \in Seq(STRING), NEW b \in Seq(STRING), Plain(a), Plain(b), a[1] = b[1]
  PROVE  a = b
BY DEF Plain

\* Where disambiguate_names does not give up, plain names end up distinct.
LEMMA DistinctNames ==
  ASSUME ListInv, NamedInv, \A i \in DOMAIN probes : Plain(probes[i].name),
         \A i \in DOMAIN probes : ~Ambiguous(probes, i),
         NEW i \in DOMAIN probes, NEW j \in DOMAIN probes, i # j
  PROVE  display_name(probes, i) # display_name(probes, j)
<1> SUFFICES ASSUME display_name(probes, i) = display_name(probes, j) PROVE FALSE
  OBVIOUS
<1>1. ASSUME NEW k \in DOMAIN probes
      PROVE  /\ k \in SameName(probes, k) /\ SameName(probes, k) \in SUBSET DOMAIN probes
             /\ k \in SameType(probes, k) /\ SameType(probes, k) \in SUBSET DOMAIN probes
  BY DEF SameType, SameName
<1> DEFINE one(k) == Cardinality(SameName(probes, k)) = 1
           two(k) == ~one(k) /\ Cardinality(SameType(probes, k)) = 1
           three(k) == ~one(k) /\ ~two(k)
           N(k) == probes[k].name
           D(k) == display_name(probes, k)
<1>2. ASSUME NEW k \in DOMAIN probes
      PROVE  /\ one(k) => D(k) = N(k)
             /\ two(k) => D(k) = N(k) \o <<"(", probes[k].kind, ")">>
             /\ three(k) => D(k) = N(k) \o <<"(", probes[k].kind, "[", probes[k].target, "]", ")">>
  BY DEF display_name
<1>3. ASSUME NEW k \in DOMAIN probes
      PROVE  /\ one(k) => Len(D(k)) = 1
             /\ two(k) => Len(D(k)) = 4 /\ D(k)[3] = probes[k].kind
             /\ three(k) => /\ Len(D(k)) = 7 /\ D(k)[3] = probes[k].kind
                            /\ D(k)[5] = probes[k].target
             /\ D(k)[1] = N(k)[1] /\ N(k) \in Seq(STRING) /\ Plain(N(k))
  <2>1. N(k) \in Seq(STRING) /\ Plain(N(k))
    BY DEF NamedInv
  <2>2. CASE one(k)
    <3>1. D(k) = N(k) /\ Len(N(k)) = 1
      BY <1>2, <2>1, <2>2 DEF Plain
    <3> QED
      BY <2>1, <2>2, <3>1
  <2>3. CASE two(k)
    <3>1. PICK a, b, x : /\ a = N(k) /\ D(k) = a \o b /\ x = probes[k].kind
                         /\ b = <<"(", x, ")">>
      BY <1>2, <2>3
    <3> DEFINE W == STRING \cup {"(", ")", x}
    <3>2. a \in Seq(W) /\ Len(a) = 1
      BY <2>1, <3>1 DEF Plain
    <3>3. b \in Seq(W) /\ Len(b) = 3 /\ b[2] = x
      BY <3>1
    <3> HIDE DEF W
    <3>4. /\ Len(a \o b) = 1 + Len(b) /\ (a \o b)[1] = a[1]
          /\ \A m \in 1 .. Len(b) : (a \o b)[m + 1] = b[m]
      BY ONLY <3>2, <3>3, WordAnd, ZenonT(60)
    <3>5. Len(D(k)) = 1 + Len(b) /\ D(k)[1] = N(k)[1] /\ D(k)[2 + 1] = b[2]
      <4> HIDE DEF N, D
      <4> QED
        BY ONLY <3>1, <3>3, <3>4
    <3>6. Len(D(k)) = 4 /\ D(k)[1] = N(k)[1] /\ D(k)[3] = probes[k].kind
      <4> HIDE DEF N, D
      <4> QED
        BY ONLY <3>1, <3>3, <3>5
    <3> QED
      BY <2>1, <2>3, <3>6
  <2>4. CASE three(k)
    <3>1. PICK a, c, x, y : /\ a = N(k) /\ D(k) = a \o c /\ x = probes[k].kind
                            /\ y = probes[k].target /\ c = <<"(", x, "[", y, "]", ")">>
      BY <1>2, <2>4
    <3> DEFINE W == STRING \cup {"(", ")", "[", "]", x, y}
    <3>2. a \in Seq(W) /\ Len(a) = 1
      BY <2>1, <3>1 DEF Plain
    <3>3. /\ c \in Seq(W) /\ Len(c) = 6
          /\ c[2] = x /\ c[4] = y
      BY <3>1
    <3> HIDE DEF W
    <3>4. /\ Len(a \o c) = 1 + Len(c) /\ (a \o c)[1] = a[1]
          /\ \A m \in 1 .. Len(c) : (a \o c)[m + 1] = c[m]
      BY ONLY <3>2, <3>3, WordAnd, ZenonT(60)
    <3>5. /\ Len(D(k)) = 1 + Len(c) /\ D(k)[1] = N(k)[1]
          /\ D(k)[2 + 1] = c[2] /\ D(k)[4 + 1] = c[4]
      <4> HIDE DEF N, D
      <4> QED
        BY ONLY <3>1, <3>3, <3>4
    <3>6. /\ Len(D(k)) = 7 /\ D(k)[1] = N(k)[1] /\ D(k)[3] = probes[k].kind
          /\ D(k)[5] = probes[k].target
      <4> HIDE DEF N, D
      <4> QED
        BY ONLY <3>1, <3>3, <3>5
    <3> QED
      BY <2>1, <2>4, <3>6
  <2> QED
    BY <2>2, <2>3, <2>4
<1>4. (one(i) \/ two(i) \/ three(i)) /\ (one(j) \/ two(j) \/ three(j))
  OBVIOUS
<1>d. D(i) = D(j)
  OBVIOUS
<1>5. N(i) = N(j)
  <2>1. N(i)[1] = N(j)[1]
    BY <1>3, <1>d
  <2> HIDE DEF N
  <2> QED
    BY <1>3, <2>1, SamePlain
<1>6. CASE one(i)
  <2>1. j \in SameName(probes, i)
    BY <1>5 DEF SameName
  <2> QED
    BY <1>1, <1>6, <2>1, Alone
<1>7. CASE two(i)
  <2>1. two(j)
    <3> HIDE DEF one, two, three, D, N
    <3> QED
      BY <1>3, <1>4, <1>7, <1>d
  <2>2. probes[i].kind = probes[j].kind
    BY <1>3, <1>7, <2>1
  <2>3. j \in SameType(probes, i)
    BY <1>5, <2>2 DEF SameType, SameName
  <2> QED
    BY <1>1, <1>7, <2>3, Alone
<1>8. CASE three(i)
  <2>1. three(j)
    <3> HIDE DEF one, two, three, D, N
    <3> QED
      BY <1>3, <1>4, <1>8, <1>d
  <2>2. probes[i].kind = probes[j].kind /\ probes[i].target = probes[j].target
    BY <1>3, <1>8, <2>1
  <2>3. Indistinct(i, j)
    BY <1>5, <2>2 DEF Indistinct
  <2> QED
    BY <2>3, GivesUp
<1> QED
  BY <1>4, <1>6, <1>7, <1>8

\* Unless names imitate the generated ones, the probes that run have distinct
\* names, and only an indistinct pair stops them (preflight_runner.rs:314-383).
THEOREM NamesAreDistinct == PSpec => []NamesTellProbesApart
<1>1. PInit => NamedInv /\ CheckedInv
  BY DEF PInit, NamedInv, CheckedInv
<1>2. PInv /\ NamedInv /\ CheckedInv /\ [PNext \/ PEnded]_pvars => NamedInv' /\ CheckedInv'
  BY NextNames DEF PInv
<1>3. PInv /\ NamedInv /\ CheckedInv => NamesTellProbesApart
  <2> SUFFICES ASSUME PInv, NamedInv, CheckedInv,
                      \A i \in DOMAIN probes : Plain(probes[i].name)
               PROVE  /\ pphase = "probing" =>
                           \A i, j \in DOMAIN probes :
                              i # j => display_name(probes, i) # display_name(probes, j)
                      /\ pphase \in {"probing", "invalid"} =>
                           (pphase = "invalid" <=> \E i, j \in DOMAIN probes : Indistinct(i, j))
    BY DEF NamesTellProbesApart
  <2>1. ListInv
    BY DEF PInv
  <2>2. CASE pphase = "probing"
    BY <2>1, <2>2, DistinctNames, GivesUp DEF CheckedInv
  <2>3. CASE pphase = "invalid"
    BY <2>1, <2>3, GivesUp DEF CheckedInv
  <2> QED
    BY <2>2, <2>3
<1> QED
  BY <1>1, <1>2, <1>3, PreflightInvariant, PTL DEF PSpec
=============================================================================
