--------------------------- MODULE ExecutorProofs ---------------------------
(***************************************************************************)
(* Theorems about Executor, for every value of its constants that meets    *)
(* ScheduleAssumption and ExecutorAssumption: what its permits keep apart, *)
(* which cases run, how often they are retried, and that what it reports   *)
(* is what SuiteContract promises.                                         *)
(***************************************************************************)
EXTENDS Executor, FiniteSetTheorems, TLAPS

-----------------------------------------------------------------------------
(* The helpers of the protocol                                             *)

\* Every conversion of an attempt's end yields a well-formed raw outcome.
LEMMA RawType ==
  ASSUME NEW e, NEW m \in BOOLEAN, NEW nc \in BOOLEAN, NEW noise \in BOOLEAN
  PROVE  RunnerResult(e, m, nc, noise) \in RawOutcomes
<1>1. ASSUME NEW status \in {"Passed", "Skipped", "Failed", "TimedOut", "Err"},
             NEW b \in BOOLEAN, NEW p \in BOOLEAN
      PROVE  Raw(status, b, p) \in RawOutcomes
  BY DEF Raw, RawOutcomes
<1>2. ASSUME NEW code, NEW p \in BOOLEAN
      PROVE  decode_outcome(code, p) \in RawOutcomes
  BY <1>1 DEF decode_outcome
<1>3. (e = "panic" \/ noise) \in BOOLEAN
  OBVIOUS
<1> QED
  BY <1>1, <1>2, <1>3 DEF RunnerResult, spawn_no_capture

LEMMA CapType == Cap \in Nat
  BY ScheduleAssumption DEF Cap

-----------------------------------------------------------------------------
(* Types                                                                   *)

LEMMA InitTypeOK == Init => TypeOK
<1> SUFFICES ASSUME Init PROVE TypeOK
  OBVIOUS
<1>1. NoRaw \in RawOutcomes
  BY DEF NoRaw, Raw, RawOutcomes
<1> QED
  BY <1>1, CapType DEF Init, TypeOK, PCs, Events, Results

\* Starting an attempt keeps the types of the four variables it sets.
LEMMA SpawnAttemptType ==
  ASSUME TypeOK, NEW t \in Cases, NEW event \in Events, SpawnAttempt(t, event)
  PROVE  /\ pc' \in [Cases -> PCs]
         /\ attempt' \in [Cases -> Nat]
         /\ child' \in [Cases -> Endings \cup {"none", "timeout"}]
         /\ reported' \in [Cases -> Events]
  BY ExecutorAssumption DEF TypeOK, SpawnAttempt, PCs

\* So does returning from run_test with an outcome.
LEMMA ReturnType ==
  ASSUME TypeOK, NEW t \in Cases, NEW outcome \in {"Passed", "Skipped", "Failed"},
         Return(t, outcome), reported' \in [Cases -> Events]
  PROVE  TypeOK'
<1>1. result' \in [Cases -> Results] /\ pc' \in [Cases -> PCs]
  BY DEF TypeOK, Return, PCs, Results
<1>2. passed' \in Nat /\ skipped' \in Nat
  BY DEF TypeOK, Return, tally
<1>3. UNCHANGED <<phase, attempt, child, raw, permits, groupPermits>>
  BY DEF Return
<1> QED
  BY <1>1, <1>2, <1>3 DEF TypeOK

LEMMA NextTypeOK == TypeOK /\ [Next]_vars => TypeOK'
<1> SUFFICES ASSUME TypeOK, [Next]_vars PROVE TypeOK'
  OBVIOUS
<1>1. ASSUME NEW t \in Cases, AcquirePermit(t) PROVE TypeOK'
  BY <1>1 DEF TypeOK, AcquirePermit, PCs
<1>2. ASSUME NEW t \in Cases, AcquireGroupPermit(t) PROVE TypeOK'
  <2>1. groupPermits' \in [Groups -> Nat]
    BY <1>2 DEF TypeOK, AcquireGroupPermit
  <2> QED
    BY <1>2, <2>1, SpawnAttemptType DEF TypeOK, AcquireGroupPermit, Events
<1>3. ASSUME NEW t \in Cases, StartExclusive(t) PROVE TypeOK'
  BY <1>3, SpawnAttemptType DEF TypeOK, StartExclusive, Events
<1>4. ASSUME NEW t \in Cases, ChildEnds(t) PROVE TypeOK'
  <2>1. PICK noise \in BOOLEAN :
          raw' = [raw EXCEPT ![t] = RunnerResult(child[t], t \in Matcher, NoCapture, noise)]
    BY <1>4 DEF ChildEnds
  <2>2. raw' \in [Cases -> RawOutcomes]
    <3>1. (t \in Matcher) \in BOOLEAN /\ NoCapture \in BOOLEAN
      BY ScheduleAssumption
    <3>2. RunnerResult(child[t], t \in Matcher, NoCapture, noise) \in RawOutcomes
      BY <3>1, RawType, Zenon
    <3> QED
      BY <2>1, <3>2 DEF TypeOK
  <2> QED
    BY <1>4, <2>2 DEF TypeOK, ChildEnds, PCs
<1>5. ASSUME NEW t \in Cases, ChildTimesOut(t) PROVE TypeOK'
  <2>1. Raw("TimedOut", FALSE, FALSE) \in RawOutcomes
    BY DEF Raw, RawOutcomes
  <2> QED
    BY <1>5, <2>1 DEF TypeOK, ChildTimesOut, PCs
<1>6. ASSUME NEW t \in Cases, ReportSuccess(t) PROVE TypeOK'
  <2>1. reported' \in [Cases -> Events]
    BY <1>6 DEF TypeOK, ReportSuccess, Events
  <2> QED
    BY <1>6, <2>1, ReturnType DEF ReportSuccess
<1>7. ASSUME NEW t \in Cases, ReportFailure(t) PROVE TypeOK'
  <2>1. reported' \in [Cases -> Events]
    BY <1>7 DEF TypeOK, ReportFailure, Events
  <2> QED
    BY <1>7, <2>1, ReturnType DEF ReportFailure
<1>8. ASSUME NEW t \in Cases, Retry(t) PROVE TypeOK'
  BY <1>8, SpawnAttemptType DEF TypeOK, Retry, Events
<1>9. ASSUME NEW t \in Cases, ReporterPanics(t) PROVE TypeOK'
  BY <1>9 DEF TypeOK, ReporterPanics, PCs, Results
<1>10. ASSUME NEW t \in Cases, DropGroupPermit(t) PROVE TypeOK'
  BY <1>10 DEF TypeOK, DropGroupPermit, PCs, Groups
<1>11. ASSUME NEW t \in Cases, DropPermit(t) PROVE TypeOK'
  BY <1>11 DEF TypeOK, DropPermit, PCs
<1>12. ASSUME NEW t \in Cases, JoinNext(t) PROVE TypeOK'
  BY <1>12 DEF TypeOK, JoinNext, tally, PCs
<1>13. CASE EndParallelPhase \/ \E t \in Cases : JoinErrorPanics(t)
  BY <1>13 DEF TypeOK, EndParallelPhase, JoinErrorPanics
<1>14. CASE EndExclusivePhase
  BY <1>14 DEF TypeOK, EndExclusivePhase
<1>15. CASE UNCHANGED vars
  BY <1>15 DEF TypeOK, vars
<1> QED
  BY <1>1, <1>2, <1>3, <1>4, <1>5, <1>6, <1>7, <1>8, <1>9, <1>10, <1>11, <1>12,
     <1>13, <1>14, <1>15 DEF Next, TaskStep, CoordinatorStep, Over

\* The variables of the executor keep their types: in particular the permit
\* counters never go below zero.
THEOREM TypeCorrect == Spec => []TypeOK
  BY InitTypeOK, NextTypeOK, PTL DEF Spec

-----------------------------------------------------------------------------
(* The inductive invariant                                                 *)
(*                                                                         *)
(* The safety properties look at the tasks inside run_test only; what      *)
(* keeps them there is where the permits are, so the invariant relates     *)
(* both semaphores to the tasks that hold them, and the phase to the pcs.  *)

InTest == {"running", "attempted"}

PhaseInv ==
    /\ phase \in {"exclusive", "done"} => \A t \in Parallel : pc[t] = "joined"
    /\ \A t \in Serial : pc[t] # "spawned" => \A u \in Parallel : pc[u] = "joined"
    /\ phase = "parallel" => \A t \in Serial : pc[t] = "spawned"
    /\ \A t \in Serial : pc[t] \in {"spawned", "running", "attempted", "returned", "joined"}
    /\ \A t, u \in Serial : t # u /\ pc[t] \in InTest => pc[u] \in {"spawned", "joined"}

PermitInv == permits + Cardinality(PermitHolders) = Cap

GroupInv ==
    \A g \in Groups :
        /\ \A t, u \in GroupHolders(g) : t = u
        /\ groupPermits[g] = IF GroupHolders(g) = {} THEN 1 ELSE 0

IInv == TypeOK /\ PhaseInv /\ PermitInv /\ GroupInv

LEMMA InitIInv == Init => IInv
<1> SUFFICES ASSUME Init PROVE IInv
  OBVIOUS
<1>1. TypeOK
  BY InitTypeOK
<1>2. PhaseInv
  BY ScheduleAssumption DEF Init, PhaseInv, InTest, Parallel
<1>3. PermitInv
  <2>1. PermitHolders = {}
    BY DEF Init, PermitHolders, Parallel
  <2> QED
    BY <2>1, FS_EmptySet, CapType DEF Init, PermitInv
<1>4. GroupInv
  <2>1. \A g \in Groups : GroupHolders(g) = {}
    BY DEF Init, GroupHolders, Parallel
  <2> QED
    BY <2>1 DEF Init, GroupInv
<1> QED
  BY <1>1, <1>2, <1>3, <1>4 DEF IInv

\* A step of a case inside run_test that leaves it there, or an end of
\* run_test: the cases Return and ReporterPanics have in common.
LEMMA ReturnPc ==
  ASSUME NEW t \in Cases, NEW outcome, Return(t, outcome)
  PROVE  /\ pc' = [pc EXCEPT ![t] = IF t \in Serial THEN "joined" ELSE "returned"]
         /\ UNCHANGED <<phase, permits, groupPermits>>
  BY DEF Return

-----------------------------------------------------------------------------
(* The phases                                                              *)

LEMMA NextPhaseInv == TypeOK /\ PhaseInv /\ [Next]_vars => PhaseInv'
<1> SUFFICES ASSUME TypeOK, PhaseInv, [Next]_vars PROVE PhaseInv'
  OBVIOUS
<1> USE ScheduleAssumption DEF Parallel, InTest
<1>1. ASSUME NEW t \in Cases, AcquirePermit(t) PROVE PhaseInv'
  BY <1>1 DEF TypeOK, PhaseInv, AcquirePermit
<1>2. ASSUME NEW t \in Cases, AcquireGroupPermit(t) PROVE PhaseInv'
  BY <1>2 DEF TypeOK, PhaseInv, AcquireGroupPermit, SpawnAttempt
<1>3. ASSUME NEW t \in Cases, StartExclusive(t) PROVE PhaseInv'
  BY <1>3 DEF TypeOK, PhaseInv, StartExclusive, SpawnAttempt
<1>4. ASSUME NEW t \in Cases, ChildEnds(t) PROVE PhaseInv'
  BY <1>4 DEF TypeOK, PhaseInv, ChildEnds
<1>5. ASSUME NEW t \in Cases, ChildTimesOut(t) PROVE PhaseInv'
  BY <1>5 DEF TypeOK, PhaseInv, ChildTimesOut
<1>6. ASSUME NEW t \in Cases, ReportSuccess(t) PROVE PhaseInv'
  BY <1>6, ReturnPc DEF TypeOK, PhaseInv, ReportSuccess
<1>7. ASSUME NEW t \in Cases, ReportFailure(t) PROVE PhaseInv'
  BY <1>7, ReturnPc DEF TypeOK, PhaseInv, ReportFailure
<1>8. ASSUME NEW t \in Cases, Retry(t) PROVE PhaseInv'
  BY <1>8 DEF TypeOK, PhaseInv, Retry, SpawnAttempt
<1>9. ASSUME NEW t \in Cases, ReporterPanics(t) PROVE PhaseInv'
  BY <1>9 DEF TypeOK, PhaseInv, ReporterPanics
<1>10. ASSUME NEW t \in Cases, DropGroupPermit(t) PROVE PhaseInv'
  BY <1>10 DEF TypeOK, PhaseInv, DropGroupPermit
<1>11. ASSUME NEW t \in Cases, DropPermit(t) PROVE PhaseInv'
  BY <1>11 DEF TypeOK, PhaseInv, DropPermit
<1>12. ASSUME NEW t \in Cases, JoinNext(t) PROVE PhaseInv'
  BY <1>12 DEF TypeOK, PhaseInv, JoinNext
<1>13. CASE EndParallelPhase \/ \E t \in Cases : JoinErrorPanics(t)
  BY <1>13 DEF TypeOK, PhaseInv, EndParallelPhase, JoinErrorPanics
<1>14. CASE EndExclusivePhase
  BY <1>14 DEF TypeOK, PhaseInv, EndExclusivePhase
<1>15. CASE UNCHANGED vars
  BY <1>15 DEF TypeOK, PhaseInv, vars
<1> QED
  BY <1>1, <1>2, <1>3, <1>4, <1>5, <1>6, <1>7, <1>8, <1>9, 
     <1>10, <1>11, <1>12, <1>13, <1>14, <1>15 DEF Next, TaskStep, CoordinatorStep, Over

-----------------------------------------------------------------------------
(* The global semaphore                                                    *)

LEMMA HoldersFinite == IsFiniteSet(PermitHolders)
<1>1. PermitHolders \in SUBSET Cases
  BY DEF PermitHolders, Parallel
<1> QED
  BY <1>1, ScheduleAssumption, FS_Subset

\* A step that takes no permit and gives none back.
LEMMA PermitUntouched ==
  ASSUME PermitInv, PermitHolders' = PermitHolders, permits' = permits
  PROVE  PermitInv'
  BY DEF PermitInv

LEMMA NextPermitInv == TypeOK /\ PhaseInv /\ PermitInv /\ [Next]_vars => PermitInv'
<1> SUFFICES ASSUME TypeOK, PhaseInv, PermitInv, [Next]_vars PROVE PermitInv'
  OBVIOUS
<1>0. IsFiniteSet(PermitHolders) /\ Cardinality(PermitHolders) \in Nat
  BY HoldersFinite, FS_CardinalityType
<1> USE ScheduleAssumption DEF Parallel
<1>1. ASSUME NEW t \in Cases, AcquirePermit(t) PROVE PermitInv'
  <2>1. PermitHolders' = PermitHolders \cup {t} /\ t \notin PermitHolders
    BY <1>1 DEF TypeOK, AcquirePermit, PermitHolders
  <2>2. permits' = permits - 1
    BY <1>1 DEF AcquirePermit
  <2>3. Cardinality(PermitHolders') = Cardinality(PermitHolders) + 1
    BY <2>1, <1>0, FS_AddElement
  <2> QED
    BY <1>0, <2>2, <2>3, CapType DEF PermitInv, TypeOK
<1>2. ASSUME NEW t \in Cases, DropPermit(t) PROVE PermitInv'
  <2>1. PermitHolders' = PermitHolders \ {t} /\ t \in PermitHolders
    BY <1>2 DEF TypeOK, DropPermit, PermitHolders
  <2>2. permits' = permits + 1
    BY <1>2 DEF DropPermit
  <2>3. Cardinality(PermitHolders') = Cardinality(PermitHolders) - 1
    BY <2>1, <1>0, FS_RemoveElement
  <2> QED
    BY <1>0, <2>2, <2>3, CapType DEF PermitInv, TypeOK
<1>3. ASSUME NEW t \in Cases, AcquireGroupPermit(t) PROVE PermitInv'
  <2>1. PermitHolders' = PermitHolders /\ permits' = permits
    BY <1>3 DEF TypeOK, PermitHolders, AcquireGroupPermit, SpawnAttempt
  <2> QED
    BY <2>1, PermitUntouched
<1>4. ASSUME NEW t \in Cases, StartExclusive(t) PROVE PermitInv'
  <2>1. PermitHolders' = PermitHolders /\ permits' = permits
    BY <1>4 DEF TypeOK, PermitHolders, StartExclusive, SpawnAttempt
  <2> QED
    BY <2>1, PermitUntouched
<1>5. ASSUME NEW t \in Cases, ChildEnds(t) PROVE PermitInv'
  <2>1. PermitHolders' = PermitHolders /\ permits' = permits
    BY <1>5 DEF TypeOK, PermitHolders, ChildEnds
  <2> QED
    BY <2>1, PermitUntouched
<1>6. ASSUME NEW t \in Cases, ChildTimesOut(t) PROVE PermitInv'
  <2>1. PermitHolders' = PermitHolders /\ permits' = permits
    BY <1>6 DEF TypeOK, PermitHolders, ChildTimesOut
  <2> QED
    BY <2>1, PermitUntouched
<1>7. ASSUME NEW t \in Cases, ReportSuccess(t) PROVE PermitInv'
  <2>1. PermitHolders' = PermitHolders /\ permits' = permits
    BY <1>7, ReturnPc DEF TypeOK, PermitHolders, ReportSuccess
  <2> QED
    BY <2>1, PermitUntouched
<1>8. ASSUME NEW t \in Cases, ReportFailure(t) PROVE PermitInv'
  <2>1. PermitHolders' = PermitHolders /\ permits' = permits
    BY <1>8, ReturnPc DEF TypeOK, PermitHolders, ReportFailure
  <2> QED
    BY <2>1, PermitUntouched
<1>9. ASSUME NEW t \in Cases, Retry(t) PROVE PermitInv'
  <2>1. PermitHolders' = PermitHolders /\ permits' = permits
    BY <1>9 DEF TypeOK, PermitHolders, Retry, SpawnAttempt
  <2> QED
    BY <2>1, PermitUntouched
<1>10. ASSUME NEW t \in Cases, ReporterPanics(t) PROVE PermitInv'
  <2>1. PermitHolders' = PermitHolders /\ permits' = permits
    BY <1>10 DEF TypeOK, PermitHolders, ReporterPanics
  <2> QED
    BY <2>1, PermitUntouched
<1>11. ASSUME NEW t \in Cases, DropGroupPermit(t) PROVE PermitInv'
  <2>1. PermitHolders' = PermitHolders /\ permits' = permits
    BY <1>11 DEF TypeOK, PermitHolders, DropGroupPermit
  <2> QED
    BY <2>1, PermitUntouched
<1>12. ASSUME NEW t \in Cases, JoinNext(t) PROVE PermitInv'
  <2>1. PermitHolders' = PermitHolders /\ permits' = permits
    BY <1>12 DEF TypeOK, PermitHolders, JoinNext
  <2> QED
    BY <2>1, PermitUntouched
<1>13. CASE \/ EndParallelPhase \/ EndExclusivePhase \/ UNCHANGED vars
            \/ \E t \in Cases : JoinErrorPanics(t)
  <2>1. PermitHolders' = PermitHolders /\ permits' = permits
    BY <1>13 DEF PermitHolders, EndParallelPhase, EndExclusivePhase, JoinErrorPanics, vars
  <2> QED
    BY <2>1, PermitUntouched
<1> QED
  BY <1>1, <1>2, <1>3, <1>4, <1>5, <1>6, <1>7, <1>8, <1>9, 
     <1>10, <1>11, <1>12, <1>13 DEF Next, TaskStep, CoordinatorStep, Over

-----------------------------------------------------------------------------
(* The group semaphores                                                    *)

\* A step that takes no group permit and gives none back.
LEMMA GroupUntouched ==
  ASSUME GroupInv, groupPermits' = groupPermits,
         \A g \in Groups : GroupHolders(g)' = GroupHolders(g)
  PROVE  GroupInv'
  BY DEF GroupInv

LEMMA NextGroupInv == TypeOK /\ GroupInv /\ [Next]_vars => GroupInv'
<1> SUFFICES ASSUME TypeOK, GroupInv, [Next]_vars PROVE GroupInv'
  OBVIOUS
<1> USE ScheduleAssumption DEF Parallel
<1>1. ASSUME NEW t \in Cases, AcquireGroupPermit(t) PROVE GroupInv'
  <2>0. /\ t \in Parallel
        /\ pc[t] = "permitted"
        /\ pc' = [pc EXCEPT ![t] = "running"]
    BY <1>1 DEF AcquireGroupPermit, SpawnAttempt
  <2>1. ASSUME NEW g \in Groups, g # GroupOf[t]
        PROVE  GroupHolders(g)' = GroupHolders(g)
    BY <2>0, <2>1 DEF TypeOK, GroupHolders
  <2>2. CASE GroupOf[t] = NoGroup
    <3>1. groupPermits' = groupPermits
      BY <1>1, <2>2 DEF AcquireGroupPermit, Groups
    <3>2. \A g \in Groups : g # GroupOf[t]
      BY <2>2 DEF Groups
    <3> QED
      BY <2>1, <3>1, <3>2, GroupUntouched
  <2>3. CASE GroupOf[t] # NoGroup
    <3> DEFINE h == GroupOf[t]
    <3>1. /\ h \in Groups
          /\ groupPermits[h] > 0
          /\ groupPermits' = [groupPermits EXCEPT ![h] = @ - 1]
      BY <1>1, <2>3 DEF AcquireGroupPermit
    <3>2. GroupHolders(h) = {} /\ groupPermits[h] = 1
      BY <3>1 DEF GroupInv
    <3>3. GroupHolders(h)' = {t}
      BY <2>0, <3>2 DEF TypeOK, GroupHolders
    <3>4. groupPermits'[h] = 0
      BY <3>1, <3>2 DEF TypeOK
    <3>5. \A g \in Groups : g # h => groupPermits'[g] = groupPermits[g]
      BY <3>1 DEF TypeOK
    <3>6. ASSUME NEW g \in Groups
          PROVE  /\ \A u, v \in GroupHolders(g)' : u = v
                 /\ groupPermits'[g] = IF GroupHolders(g)' = {} THEN 1 ELSE 0
      <4>1. CASE g = h
        BY <3>3, <3>4, <4>1
      <4>2. CASE g # h
        BY <2>1, <3>5, <4>2 DEF GroupInv
      <4> QED
        BY <4>1, <4>2
    <3> QED
      BY <3>6 DEF GroupInv
  <2> QED
    BY <2>2, <2>3
<1>2. ASSUME NEW t \in Cases, DropGroupPermit(t) PROVE GroupInv'
  <2>0. /\ t \in Parallel
        /\ pc[t] = "returned"
        /\ pc' = [pc EXCEPT ![t] = "ungrouped"]
    BY <1>2 DEF DropGroupPermit
  <2>1. ASSUME NEW g \in Groups, g # GroupOf[t]
        PROVE  GroupHolders(g)' = GroupHolders(g)
    BY <2>0, <2>1 DEF TypeOK, GroupHolders
  <2>2. CASE GroupOf[t] = NoGroup
    <3>1. groupPermits' = groupPermits
      BY <1>2, <2>2 DEF DropGroupPermit
    <3>2. \A g \in Groups : g # GroupOf[t]
      BY <2>2 DEF Groups
    <3> QED
      BY <2>1, <3>1, <3>2, GroupUntouched
  <2>3. CASE GroupOf[t] # NoGroup
    <3> DEFINE h == GroupOf[t]
    <3>1. /\ h \in Groups
          /\ groupPermits' = [groupPermits EXCEPT ![h] = @ + 1]
      BY <1>2, <2>0, <2>3 DEF DropGroupPermit, Groups
    <3>2. t \in GroupHolders(h)
      BY <2>0 DEF GroupHolders
    <3>3. GroupHolders(h) = {t} /\ groupPermits[h] = 0
      BY <3>1, <3>2 DEF GroupInv
    <3>4. GroupHolders(h)' = {}
      BY <2>0, <3>3 DEF TypeOK, GroupHolders
    <3>5. groupPermits'[h] = 1
      BY <3>1, <3>3 DEF TypeOK
    <3>6. \A g \in Groups : g # h => groupPermits'[g] = groupPermits[g]
      BY <3>1 DEF TypeOK
    <3>7. ASSUME NEW g \in Groups
          PROVE  /\ \A u, v \in GroupHolders(g)' : u = v
                 /\ groupPermits'[g] = IF GroupHolders(g)' = {} THEN 1 ELSE 0
      <4>1. CASE g = h
        BY <3>4, <3>5, <4>1
      <4>2. CASE g # h
        BY <2>1, <3>6, <4>2 DEF GroupInv
      <4> QED
        BY <4>1, <4>2
    <3> QED
      BY <3>7 DEF GroupInv
  <2> QED
    BY <2>2, <2>3
<1>3. ASSUME NEW t \in Cases, AcquirePermit(t) PROVE GroupInv'
  <2>1. groupPermits' = groupPermits /\ \A g \in Groups : GroupHolders(g)' = GroupHolders(g)
    BY <1>3 DEF TypeOK, GroupHolders, AcquirePermit
  <2> QED
    BY <2>1, GroupUntouched
<1>4. ASSUME NEW t \in Cases, StartExclusive(t) PROVE GroupInv'
  <2>1. groupPermits' = groupPermits /\ \A g \in Groups : GroupHolders(g)' = GroupHolders(g)
    BY <1>4 DEF TypeOK, GroupHolders, StartExclusive, SpawnAttempt
  <2> QED
    BY <2>1, GroupUntouched
<1>5. ASSUME NEW t \in Cases, ChildEnds(t) PROVE GroupInv'
  <2>1. groupPermits' = groupPermits /\ \A g \in Groups : GroupHolders(g)' = GroupHolders(g)
    BY <1>5 DEF TypeOK, GroupHolders, ChildEnds
  <2> QED
    BY <2>1, GroupUntouched
<1>6. ASSUME NEW t \in Cases, ChildTimesOut(t) PROVE GroupInv'
  <2>1. groupPermits' = groupPermits /\ \A g \in Groups : GroupHolders(g)' = GroupHolders(g)
    BY <1>6 DEF TypeOK, GroupHolders, ChildTimesOut
  <2> QED
    BY <2>1, GroupUntouched
<1>7. ASSUME NEW t \in Cases, ReportSuccess(t) PROVE GroupInv'
  <2>1. groupPermits' = groupPermits /\ \A g \in Groups : GroupHolders(g)' = GroupHolders(g)
    BY <1>7, ReturnPc DEF TypeOK, GroupHolders, ReportSuccess
  <2> QED
    BY <2>1, GroupUntouched
<1>8. ASSUME NEW t \in Cases, ReportFailure(t) PROVE GroupInv'
  <2>1. groupPermits' = groupPermits /\ \A g \in Groups : GroupHolders(g)' = GroupHolders(g)
    BY <1>8, ReturnPc DEF TypeOK, GroupHolders, ReportFailure
  <2> QED
    BY <2>1, GroupUntouched
<1>9. ASSUME NEW t \in Cases, Retry(t) PROVE GroupInv'
  <2>1. groupPermits' = groupPermits /\ \A g \in Groups : GroupHolders(g)' = GroupHolders(g)
    BY <1>9 DEF TypeOK, GroupHolders, Retry, SpawnAttempt
  <2> QED
    BY <2>1, GroupUntouched
<1>10. ASSUME NEW t \in Cases, ReporterPanics(t) PROVE GroupInv'
  <2>1. groupPermits' = groupPermits /\ \A g \in Groups : GroupHolders(g)' = GroupHolders(g)
    BY <1>10 DEF TypeOK, GroupHolders, ReporterPanics
  <2> QED
    BY <2>1, GroupUntouched
<1>11. ASSUME NEW t \in Cases, DropPermit(t) PROVE GroupInv'
  <2>1. groupPermits' = groupPermits /\ \A g \in Groups : GroupHolders(g)' = GroupHolders(g)
    BY <1>11 DEF TypeOK, GroupHolders, DropPermit
  <2> QED
    BY <2>1, GroupUntouched
<1>12. ASSUME NEW t \in Cases, JoinNext(t) PROVE GroupInv'
  <2>1. groupPermits' = groupPermits /\ \A g \in Groups : GroupHolders(g)' = GroupHolders(g)
    BY <1>12 DEF TypeOK, GroupHolders, JoinNext
  <2> QED
    BY <2>1, GroupUntouched
<1>13. CASE \/ EndParallelPhase \/ EndExclusivePhase \/ UNCHANGED vars
            \/ \E t \in Cases : JoinErrorPanics(t)
  <2>1. groupPermits' = groupPermits /\ \A g \in Groups : GroupHolders(g)' = GroupHolders(g)
    BY <1>13 DEF GroupHolders, EndParallelPhase, EndExclusivePhase, JoinErrorPanics, vars
  <2> QED
    BY <2>1, GroupUntouched
<1> QED
  BY <1>1, <1>2, <1>3, <1>4, <1>5, <1>6, <1>7, <1>8, <1>9, 
     <1>10, <1>11, <1>12, <1>13 DEF Next, TaskStep, CoordinatorStep, Over

-----------------------------------------------------------------------------
(* The safety theorems                                                     *)

THEOREM Inductive == Spec => []IInv
<1>1. IInv /\ [Next]_vars => IInv'
  BY NextTypeOK, NextPhaseInv, NextPermitInv, NextGroupInv DEF IInv
<1> QED
  BY InitIInv, <1>1, PTL DEF Spec

\* Never more parallel cases inside run_test than --jobs admits.
THEOREM CapIsRespected == Spec => []CapRespected
<1>1. IInv => CapRespected
  <2> SUFFICES ASSUME IInv PROVE CapRespected
    OBVIOUS
  <2>1. InRunTest \cap Parallel \in SUBSET PermitHolders
    BY DEF InRunTest, PermitHolders
  <2>2. Cardinality(InRunTest \cap Parallel) <= Cardinality(PermitHolders)
    BY <2>1, HoldersFinite, FS_Subset
  <2>3. /\ Cardinality(PermitHolders) \in Nat
        /\ Cardinality(InRunTest \cap Parallel) \in Nat
    BY <2>1, HoldersFinite, FS_Subset, FS_CardinalityType
  <2> QED
    BY <2>2, <2>3, CapType DEF IInv, PermitInv, TypeOK, CapRespected
<1> QED
  BY Inductive, <1>1, PTL

\* Members of a serial group never overlap, a bare serial case overlaps nobody.
THEOREM CasesAreExclusive == Spec => []MutualExclusion
<1>1. IInv => MutualExclusion
  <2> SUFFICES ASSUME IInv, NEW t \in InRunTest, NEW u \in InRunTest, t # u
               PROVE  /\ t \notin Serial
                      /\ GroupOf[t] = GroupOf[u] => GroupOf[t] = NoGroup
    BY DEF MutualExclusion
  <2>1. t \in Cases /\ u \in Cases /\ pc[t] \in InTest /\ pc[u] \in InTest
    BY DEF InRunTest, InTest
  <2>2. t \notin Serial /\ u \notin Serial
    <3>1. ASSUME NEW x \in Serial, NEW y \in Cases, x # y,
                 pc[x] \in InTest, pc[y] \in InTest
          PROVE  FALSE
      <4>1. y \in Serial
        BY <3>1 DEF IInv, PhaseInv, InTest, Parallel
      <4> QED
        BY <3>1, <4>1 DEF IInv, PhaseInv, InTest
    <3> QED
      BY <2>1, <3>1
  <2>3. ASSUME GroupOf[t] = GroupOf[u], GroupOf[t] # NoGroup PROVE FALSE
    <3> DEFINE g == GroupOf[t]
    <3>1. t \in Parallel /\ u \in Parallel
      BY <2>1, <2>2 DEF Parallel
    <3>2. g \in Groups
      BY <2>3, <3>1 DEF Groups
    <3>3. t \in GroupHolders(g) /\ u \in GroupHolders(g)
      BY <2>1, <2>3, <3>1 DEF GroupHolders, InTest
    <3> QED
      BY <3>2, <3>3 DEF IInv, GroupInv
  <2> QED
    BY <2>2, <2>3
<1> QED
  BY Inductive, <1>1, PTL

\* No way out of the parallel phase leaves a permit behind.
THEOREM PermitsComeBack == Spec => []PermitsRestored
<1>1. IInv => PermitsRestored
  <2> SUFFICES ASSUME IInv, phase \in {"exclusive", "done"}
               PROVE  permits = Cap /\ \A g \in Groups : groupPermits[g] = 1
    BY DEF PermitsRestored
  <2>1. \A t \in Parallel : pc[t] = "joined"
    BY DEF IInv, PhaseInv
  <2>2. PermitHolders = {} /\ \A g \in Groups : GroupHolders(g) = {}
    BY <2>1 DEF PermitHolders, GroupHolders
  <2>3. permits = Cap
    BY <2>2, FS_EmptySet, CapType DEF IInv, PermitInv, TypeOK
  <2> QED
    BY <2>2, <2>3 DEF IInv, GroupInv
<1> QED
  BY Inductive, <1>1, PTL

-----------------------------------------------------------------------------
(* The retry budget                                                        *)

LEMMA MaxAttemptsType ==
  ASSUME NEW t \in Cases
  PROVE  /\ MaxAttempts(t) \in Nat
         /\ MaxAttempts(t) >= 1
         /\ EffectiveRetries(t) \in Nat
         /\ MaxAttempts(t) <= EffectiveRetries(t) + 1
<1>1. EffectiveRetries(t) \in Nat
  <2>1. CASE RetriesOverride = {}
    BY <2>1, ScheduleAssumption DEF EffectiveRetries
  <2>2. CASE RetriesOverride # {}
    <3>1. (CHOOSE n \in RetriesOverride : TRUE) \in Nat
      BY <2>2, ScheduleAssumption
    <3> QED
      BY <2>2, <3>1, ScheduleAssumption DEF EffectiveRetries
  <2> QED
    BY <2>1, <2>2
<1> QED
  BY <1>1, ScheduleAssumption DEF MaxAttempts

\* Only the exit code of a mismatch makes a failure ineligible on the wire.
LEMMA DecodedFailure ==
  ASSUME NEW code, NEW p \in BOOLEAN
  PROVE  LET r == decode_outcome(code, p)
         IN  /\ r.status \in {"Passed", "Skipped", "Failed"}
             /\ r.status = "Failed" =>
                  /\ r.panic_text = p
                  /\ ~r.retry_eligible => code = FAIL_NOT_RETRYABLE_EXIT_CODE
<1>1. CASE code = 0
  BY <1>1 DEF decode_outcome, Raw
<1>2. CASE code # 0 /\ code = SKIP_EXIT_CODE
  BY <1>2 DEF decode_outcome, Raw
<1>3. CASE code # 0 /\ code # SKIP_EXIT_CODE
  BY <1>3 DEF decode_outcome, Raw
<1> QED
  BY <1>1, <1>2, <1>3

\* Only a mismatch under a matcher ends with that exit code.
LEMMA MismatchCode ==
  ASSUME NEW e \in Endings, NEW m \in BOOLEAN,
         run_single(build_testcase_body(e, m)) = FAIL_NOT_RETRYABLE_EXIT_CODE
  PROVE  m /\ e = "err_other"
<1>1. build_testcase_body(e, m) = "NotRetryEligible"
  BY DEF run_single, SKIP_EXIT_CODE, FAIL_NOT_RETRYABLE_EXIT_CODE, NoExitCode
<1> QED
  BY <1>1 DEF build_testcase_body, Endings

\* How plan comes to rule a retry out.
LEMMA PlanNotRetryable ==
  ASSUME NEW r, NEW m \in BOOLEAN,
         r.status \in {"Passed", "Skipped", "Failed"},
         plan(r, m).plan = "Failed", ~plan(r, m).retryable
  PROVE  r.status = "Failed" /\ (~r.retry_eligible \/ (r.panic_text /\ m))
<1>1. r.status = "Failed"
  BY DEF plan
<1>2. plan(r, m).retryable = (r.retry_eligible /\ ~(classify_failed(r.panic_text) = "Panic" /\ m))
  BY <1>1 DEF plan
<1>3. classify_failed(r.panic_text) = "Panic" => r.panic_text
  BY DEF classify_failed
<1> QED
  BY <1>1, <1>2, <1>3

\* A time-out is retried exactly when there is no matcher.
LEMMA TimedOutRetry ==
  ASSUME NEW m \in BOOLEAN
  PROVE  plan(Raw("TimedOut", FALSE, FALSE), m).retryable = ~m
<1>1. Raw("TimedOut", FALSE, FALSE).status = "TimedOut"
  BY DEF Raw
<1> QED
  BY <1>1 DEF plan

\* A failure that may not be retried comes from a child of a case with a
\* matcher, and is of one of the kinds the policy names.
LEMMA NotRetryable ==
  ASSUME NEW e \in Endings, NEW m \in BOOLEAN, NEW nc \in BOOLEAN, NEW noise \in BOOLEAN,
         plan(RunnerResult(e, m, nc, noise), m).plan = "Failed",
         ~plan(RunnerResult(e, m, nc, noise), m).retryable
  PROVE  /\ m
         /\ \/ e \in {"err_other", "panic", "spawn_err"}
            \/ RunnerResult(e, m, nc, noise).panic_text
<1> DEFINE code == run_single(build_testcase_body(e, m))
           text == e = "panic" \/ noise
           r == RunnerResult(e, m, nc, noise)
<1>1. CASE e = "spawn_err"
  <2>1. r = Raw("Err", FALSE, FALSE)
    BY <1>1 DEF RunnerResult
  <2>2. plan(r, m).retryable = ~m
    BY <2>1 DEF plan, Raw
  <2> QED
    BY <1>1, <2>2
<1>2. CASE e # "spawn_err"
  <2>1. PICK p \in BOOLEAN : r = decode_outcome(code, p)
    <3>1. text \in BOOLEAN
      OBVIOUS
    <3> QED
      BY <1>2, <3>1 DEF RunnerResult, spawn_no_capture
  <2>2. /\ r.status = "Failed"
        /\ ~r.retry_eligible \/ (r.panic_text /\ m)
    BY <2>1, DecodedFailure, PlanNotRetryable
  <2>3. ~r.retry_eligible => code = FAIL_NOT_RETRYABLE_EXIT_CODE
    BY <2>1, <2>2, DecodedFailure
  <2> QED
    BY <2>2, <2>3, MismatchCode
<1> QED
  BY <1>1, <1>2

\* Where a case stands in its retry loop: an attempt is only under way within
\* the budget, and what the runner returned is what the child made of it.
LoopInv ==
    \A t \in Cases :
        /\ attempt[t] <= MaxAttempts(t)
        /\ pc[t] \in {"spawned", "permitted"} => attempt[t] = 0 /\ reported[t] = "none"
        /\ pc[t] = "running" => child[t] \in Endings
        /\ pc[t] \in InTest => reported[t] \in {"started", "retrying"}

\* What the runner returned for an attempt is what its child made of it.
RawInv ==
    \A t \in Cases :
        pc[t] = "attempted" =>
          \/ child[t] = "timeout" /\ raw[t] = Raw("TimedOut", FALSE, FALSE)
          \/ /\ child[t] \in Endings
             /\ \E noise \in BOOLEAN :
                  raw[t] = RunnerResult(child[t], t \in Matcher, NoCapture, noise)

\* A failure that was final before the last attempt was ruled out of a retry.
FinalInv ==
    \A t \in Cases :
        reported[t] = "Failed" =>
          \/ attempt[t] = MaxAttempts(t)
          \/ /\ t \in Matcher
             /\ \/ child[t] \in {"err_other", "panic", "timeout", "spawn_err"}
                \/ raw[t].panic_text

LEMMA NextLoopInv == TypeOK /\ LoopInv /\ [Next]_vars => LoopInv'
<1> SUFFICES ASSUME TypeOK, LoopInv, [Next]_vars PROVE LoopInv'
  OBVIOUS
<1> USE ScheduleAssumption, ExecutorAssumption, MaxAttemptsType DEF InTest, IsLast
<1>1. ASSUME NEW t \in Cases, AcquirePermit(t) PROVE LoopInv'
  BY <1>1 DEF TypeOK, LoopInv, AcquirePermit
<1>2. ASSUME NEW t \in Cases, AcquireGroupPermit(t) PROVE LoopInv'
  BY <1>2 DEF TypeOK, LoopInv, AcquireGroupPermit, SpawnAttempt
<1>3. ASSUME NEW t \in Cases, StartExclusive(t) PROVE LoopInv'
  BY <1>3 DEF TypeOK, LoopInv, StartExclusive, SpawnAttempt
<1>4. ASSUME NEW t \in Cases, ChildEnds(t) PROVE LoopInv'
  BY <1>4 DEF TypeOK, LoopInv, ChildEnds
<1>5. ASSUME NEW t \in Cases, ChildTimesOut(t) PROVE LoopInv'
  BY <1>5 DEF TypeOK, LoopInv, ChildTimesOut
<1>6. ASSUME NEW t \in Cases, ReportSuccess(t) PROVE LoopInv'
  BY <1>6 DEF TypeOK, LoopInv, ReportSuccess, Return, tally
<1>7. ASSUME NEW t \in Cases, ReportFailure(t) PROVE LoopInv'
  BY <1>7 DEF TypeOK, LoopInv, ReportFailure, Return, tally
<1>8. ASSUME NEW t \in Cases, Retry(t) PROVE LoopInv'
  BY <1>8 DEF TypeOK, LoopInv, Retry, SpawnAttempt
<1>9. ASSUME NEW t \in Cases, ReporterPanics(t) PROVE LoopInv'
  BY <1>9 DEF TypeOK, LoopInv, ReporterPanics
<1>10. ASSUME NEW t \in Cases, DropGroupPermit(t) PROVE LoopInv'
  BY <1>10 DEF TypeOK, LoopInv, DropGroupPermit
<1>11. ASSUME NEW t \in Cases, DropPermit(t) PROVE LoopInv'
  BY <1>11 DEF TypeOK, LoopInv, DropPermit
<1>12. ASSUME NEW t \in Cases, JoinNext(t) PROVE LoopInv'
  BY <1>12 DEF TypeOK, LoopInv, JoinNext, tally
<1>13. CASE EndParallelPhase \/ \E t \in Cases : JoinErrorPanics(t)
  BY <1>13 DEF TypeOK, LoopInv, EndParallelPhase, JoinErrorPanics
<1>14. CASE EndExclusivePhase \/ UNCHANGED vars
  BY <1>14 DEF TypeOK, LoopInv, EndExclusivePhase, vars
<1> QED
  BY <1>1, <1>2, <1>3, <1>4, <1>5, <1>6, <1>7, <1>8, <1>9, 
     <1>10, <1>11, <1>12, <1>13, <1>14 DEF Next, TaskStep, CoordinatorStep, Over

LEMMA NextRawInv == TypeOK /\ LoopInv /\ RawInv /\ [Next]_vars => RawInv'
<1> SUFFICES ASSUME TypeOK, LoopInv, RawInv, [Next]_vars PROVE RawInv'
  OBVIOUS
<1> USE ScheduleAssumption
<1>1. ASSUME NEW t \in Cases, AcquirePermit(t) PROVE RawInv'
  BY <1>1 DEF TypeOK, RawInv, AcquirePermit
<1>2. ASSUME NEW t \in Cases, AcquireGroupPermit(t) PROVE RawInv'
  BY <1>2 DEF TypeOK, RawInv, AcquireGroupPermit, SpawnAttempt
<1>3. ASSUME NEW t \in Cases, StartExclusive(t) PROVE RawInv'
  BY <1>3 DEF TypeOK, RawInv, StartExclusive, SpawnAttempt
<1>4. ASSUME NEW t \in Cases, ChildEnds(t) PROVE RawInv'
  BY <1>4 DEF TypeOK, LoopInv, RawInv, ChildEnds
<1>5. ASSUME NEW t \in Cases, ChildTimesOut(t) PROVE RawInv'
  BY <1>5 DEF TypeOK, RawInv, ChildTimesOut
<1>6. ASSUME NEW t \in Cases, ReportSuccess(t) PROVE RawInv'
  BY <1>6 DEF TypeOK, RawInv, ReportSuccess, Return, tally
<1>7. ASSUME NEW t \in Cases, ReportFailure(t) PROVE RawInv'
  BY <1>7 DEF TypeOK, RawInv, ReportFailure, Return, tally
<1>8. ASSUME NEW t \in Cases, Retry(t) PROVE RawInv'
  BY <1>8 DEF TypeOK, RawInv, Retry, SpawnAttempt
<1>9. ASSUME NEW t \in Cases, ReporterPanics(t) PROVE RawInv'
  BY <1>9 DEF TypeOK, RawInv, ReporterPanics
<1>10. ASSUME NEW t \in Cases, DropGroupPermit(t) PROVE RawInv'
  BY <1>10 DEF TypeOK, RawInv, DropGroupPermit
<1>11. ASSUME NEW t \in Cases, DropPermit(t) PROVE RawInv'
  BY <1>11 DEF TypeOK, RawInv, DropPermit
<1>12. ASSUME NEW t \in Cases, JoinNext(t) PROVE RawInv'
  BY <1>12 DEF TypeOK, RawInv, JoinNext, tally
<1>13. CASE EndParallelPhase \/ \E t \in Cases : JoinErrorPanics(t)
  BY <1>13 DEF TypeOK, RawInv, EndParallelPhase, JoinErrorPanics
<1>14. CASE EndExclusivePhase \/ UNCHANGED vars
  BY <1>14 DEF TypeOK, RawInv, EndExclusivePhase, vars
<1> QED
  BY <1>1, <1>2, <1>3, <1>4, <1>5, <1>6, <1>7, <1>8, <1>9, 
     <1>10, <1>11, <1>12, <1>13, <1>14 DEF Next, TaskStep, CoordinatorStep, Over

LEMMA NextFinalInv ==
  TypeOK /\ LoopInv /\ RawInv /\ FinalInv /\ [Next]_vars => FinalInv'
<1> SUFFICES ASSUME TypeOK, LoopInv, RawInv, FinalInv, [Next]_vars PROVE FinalInv'
  OBVIOUS
<1> USE ScheduleAssumption DEF InTest
<1>1. ASSUME NEW t \in Cases, AcquirePermit(t) PROVE FinalInv'
  BY <1>1 DEF TypeOK, LoopInv, FinalInv, AcquirePermit
<1>2. ASSUME NEW t \in Cases, AcquireGroupPermit(t) PROVE FinalInv'
  BY <1>2 DEF TypeOK, LoopInv, FinalInv, AcquireGroupPermit, SpawnAttempt
<1>3. ASSUME NEW t \in Cases, StartExclusive(t) PROVE FinalInv'
  BY <1>3 DEF TypeOK, LoopInv, FinalInv, StartExclusive, SpawnAttempt
<1>4. ASSUME NEW t \in Cases, ChildEnds(t) PROVE FinalInv'
  BY <1>4 DEF TypeOK, LoopInv, FinalInv, ChildEnds
<1>5. ASSUME NEW t \in Cases, ChildTimesOut(t) PROVE FinalInv'
  BY <1>5 DEF TypeOK, LoopInv, FinalInv, ChildTimesOut
<1>6. ASSUME NEW t \in Cases, ReportSuccess(t) PROVE FinalInv'
  BY <1>6 DEF TypeOK, LoopInv, FinalInv, ReportSuccess, Return, tally
<1>7. ASSUME NEW t \in Cases, ReportFailure(t) PROVE FinalInv'
  <2>1. CASE IsLast(t)
    BY <1>7, <2>1 DEF TypeOK, FinalInv, ReportFailure, Return, tally, IsLast
  <2>2. CASE ~IsLast(t)
    <3>1. /\ pc[t] = "attempted"
          /\ plan(raw[t], t \in Matcher).plan = "Failed"
          /\ ~plan(raw[t], t \in Matcher).retryable
      BY <1>7, <2>2 DEF ReportFailure, Judged
    <3>2. /\ t \in Matcher
          /\ \/ child[t] \in {"err_other", "panic", "timeout", "spawn_err"}
             \/ raw[t].panic_text
      <4> DEFINE m == t \in Matcher
      <4>1. m \in BOOLEAN
        OBVIOUS
      <4>2. plan(raw[t], m).plan = "Failed" /\ ~plan(raw[t], m).retryable
        BY <3>1
      <4>3. \/ child[t] = "timeout" /\ raw[t] = Raw("TimedOut", FALSE, FALSE)
            \/ /\ child[t] \in Endings
               /\ \E noise \in BOOLEAN :
                    raw[t] = RunnerResult(child[t], t \in Matcher, NoCapture, noise)
        BY <3>1 DEF RawInv
      <4>4. CASE child[t] = "timeout" /\ raw[t] = Raw("TimedOut", FALSE, FALSE)
        <5>1. plan(raw[t], m).retryable = ~m
          BY <4>1, <4>4, TimedOutRetry
        <5> QED
          BY <4>2, <4>4, <5>1
      <4>5. CASE /\ child[t] \in Endings
                 /\ \E noise \in BOOLEAN :
                      raw[t] = RunnerResult(child[t], t \in Matcher, NoCapture, noise)
        <5>1. PICK noise \in BOOLEAN :
                raw[t] = RunnerResult(child[t], t \in Matcher, NoCapture, noise)
          BY <4>5
        <5>2. raw[t] = RunnerResult(child[t], m, NoCapture, noise)
          BY <5>1
        <5>3. m /\ (child[t] \in {"err_other", "panic", "spawn_err"} \/ raw[t].panic_text)
          <6> HIDE DEF m
          <6> QED
            BY <4>1, <4>2, <4>5, <5>2, NotRetryable, ScheduleAssumption
        <5> QED
          BY <5>3
      <4> QED
        BY <4>3, <4>4, <4>5
    <3> QED
      BY <1>7, <3>2 DEF TypeOK, FinalInv, ReportFailure, Return, tally
  <2> QED
    BY <2>1, <2>2
<1>8. ASSUME NEW t \in Cases, Retry(t) PROVE FinalInv'
  BY <1>8 DEF TypeOK, LoopInv, FinalInv, Retry, SpawnAttempt
<1>9. ASSUME NEW t \in Cases, ReporterPanics(t) PROVE FinalInv'
  BY <1>9 DEF TypeOK, LoopInv, FinalInv, ReporterPanics
<1>10. ASSUME NEW t \in Cases, DropGroupPermit(t) PROVE FinalInv'
  BY <1>10 DEF TypeOK, LoopInv, FinalInv, DropGroupPermit
<1>11. ASSUME NEW t \in Cases, DropPermit(t) PROVE FinalInv'
  BY <1>11 DEF TypeOK, LoopInv, FinalInv, DropPermit
<1>12. ASSUME NEW t \in Cases, JoinNext(t) PROVE FinalInv'
  BY <1>12 DEF TypeOK, LoopInv, FinalInv, JoinNext, tally
<1>13. CASE EndParallelPhase \/ \E t \in Cases : JoinErrorPanics(t)
  BY <1>13 DEF TypeOK, LoopInv, FinalInv, EndParallelPhase, JoinErrorPanics
<1>14. CASE EndExclusivePhase \/ UNCHANGED vars
  BY <1>14 DEF TypeOK, LoopInv, FinalInv, EndExclusivePhase, vars
<1> QED
  BY <1>1, <1>2, <1>3, <1>4, <1>5, <1>6, <1>7, <1>8, <1>9, 
     <1>10, <1>11, <1>12, <1>13, <1>14 DEF Next, TaskStep, CoordinatorStep, Over

LEMMA Budgets == Spec => [](TypeOK /\ LoopInv /\ RawInv /\ FinalInv)
<1>1. Init => TypeOK /\ LoopInv /\ RawInv /\ FinalInv
  BY InitTypeOK, MaxAttemptsType DEF Init, LoopInv, RawInv, FinalInv, InTest
<1>2. TypeOK /\ LoopInv /\ RawInv /\ FinalInv /\ [Next]_vars
        => (TypeOK /\ LoopInv /\ RawInv /\ FinalInv)'
  BY NextTypeOK, NextLoopInv, NextRawInv, NextFinalInv
<1> QED
  BY <1>1, <1>2, PTL DEF Spec

\* Retries neither exceed their budget, however --retries and u32::MAX meet,
\* nor stop short of it unless the policy rules them out.
THEOREM BudgetIsKept == Spec => []RetryBudget
<1>1. TypeOK /\ LoopInv /\ FinalInv => RetryBudget
  BY MaxAttemptsType DEF TypeOK, LoopInv, FinalInv, RetryBudget
<1> QED
  BY Budgets, <1>1, PTL

-----------------------------------------------------------------------------
(* The retry policy                                                        *)

\* What the runner reports for the endings the policy excludes is not
\* retryable under a matcher, provided that the child's stderr is captured.
LEMMA Excluded ==
  ASSUME NEW e \in {"ok", "skip", "err_other", "panic", "spawn_err"},
         NEW noise \in BOOLEAN
  PROVE  ~plan(RunnerResult(e, TRUE, FALSE, noise), TRUE).retryable
<1> USE DEF RunnerResult, decode_outcome, Raw, plan, classify_failed, run_single,
            build_testcase_body, SKIP_EXIT_CODE, FAIL_NOT_RETRYABLE_EXIT_CODE,
            NoExitCode
<1>1. CASE e = "ok"
  BY <1>1
<1>2. CASE e = "skip"
  BY <1>2
<1>3. CASE e = "err_other"
  BY <1>3
<1>4. CASE e = "panic"
  BY <1>4
<1>5. CASE e = "spawn_err"
  BY <1>5
<1> QED
  BY <1>1, <1>2, <1>3, <1>4, <1>5

\* With captured output, a case with a matcher is never retried after a
\* success, a mismatch, a panic, a time-out or a child that could not be run.
THEOREM PolicyIsKept ==
  ASSUME NoCapture = FALSE
  PROVE  Spec => RetryPolicy
<1> DEFINE Bad == {"ok", "skip", "err_other", "panic", "timeout", "spawn_err"}
<1>1. ASSUME TypeOK, LoopInv, RawInv, [Next]_vars, NEW t \in Matcher,
             attempt[t] > 0, attempt'[t] > attempt[t]
      PROVE  child[t] \notin Bad
  <2>0. t \in Cases
    BY ExecutorAssumption
  <2>1. Retry(t)
    <3>1. ASSUME NEW u \in Cases, AcquireGroupPermit(u) PROVE FALSE
      BY <1>1, <2>0, <3>1 DEF TypeOK, LoopInv, AcquireGroupPermit, SpawnAttempt
    <3>2. ASSUME NEW u \in Cases, StartExclusive(u) PROVE FALSE
      BY <1>1, <2>0, <3>2 DEF TypeOK, LoopInv, StartExclusive, SpawnAttempt
    <3>3. ASSUME NEW u \in Cases, Retry(u) PROVE u = t
      BY <1>1, <2>0, <3>3 DEF TypeOK, Retry, SpawnAttempt
    <3>4. ASSUME UNCHANGED attempt PROVE FALSE
      BY <1>1, <2>0, <3>4 DEF TypeOK
    <3>5. ASSUME NEW u \in Cases, TaskStep(u), ~AcquireGroupPermit(u), ~Retry(u)
          PROVE  UNCHANGED attempt
      BY <3>5 DEF TaskStep, AcquirePermit, ChildEnds, ChildTimesOut, ReportSuccess,
                  ReportFailure, Return, ReporterPanics, DropGroupPermit, DropPermit
    <3>6. ASSUME CoordinatorStep, ~\E u \in Cases : StartExclusive(u)
          PROVE  UNCHANGED attempt
      BY <3>6 DEF CoordinatorStep, JoinNext, JoinErrorPanics, EndParallelPhase,
                  EndExclusivePhase
    <3>7. ASSUME Over \/ UNCHANGED vars PROVE UNCHANGED attempt
      BY <3>7 DEF Over, vars
    <3> QED
      BY <1>1, <3>1, <3>2, <3>3, <3>4, <3>5, <3>6, <3>7 DEF Next
  <2>2. /\ pc[t] = "attempted"
        /\ plan(raw[t], TRUE).retryable
    BY <2>1 DEF Retry, Judged
  <2>3. \/ child[t] = "timeout" /\ raw[t] = Raw("TimedOut", FALSE, FALSE)
        \/ /\ child[t] \in Endings
           /\ \E noise \in BOOLEAN : raw[t] = RunnerResult(child[t], TRUE, FALSE, noise)
    <3>1. (t \in Matcher) = TRUE
      OBVIOUS
    <3>2. \/ child[t] = "timeout" /\ raw[t] = Raw("TimedOut", FALSE, FALSE)
          \/ /\ child[t] \in Endings
             /\ \E noise \in BOOLEAN :
                  raw[t] = RunnerResult(child[t], t \in Matcher, NoCapture, noise)
      BY <1>1, <2>0, <2>2 DEF RawInv
    <3> QED
      BY <3>1, <3>2, NoCapture = FALSE
  <2>4. CASE child[t] = "timeout" /\ raw[t] = Raw("TimedOut", FALSE, FALSE)
    BY <2>2, <2>4, TimedOutRetry
  <2>5. CASE /\ child[t] \in Endings
             /\ \E noise \in BOOLEAN : raw[t] = RunnerResult(child[t], TRUE, FALSE, noise)
    <3>1. PICK noise \in BOOLEAN : raw[t] = RunnerResult(child[t], TRUE, FALSE, noise)
      BY <2>5
    <3>2. child[t] \notin {"ok", "skip", "err_other", "panic", "spawn_err"}
      BY <2>2, <3>1, Excluded
    <3>3. child[t] # "timeout"
      BY <2>5 DEF Endings
    <3>4. Bad = {"ok", "skip", "err_other", "panic", "spawn_err"} \cup {"timeout"}
      OBVIOUS
    <3> QED
      BY <3>2, <3>3, <3>4
  <2> QED
    BY <2>3, <2>4, <2>5
<1>2. TypeOK /\ LoopInv /\ RawInv /\ [Next]_vars
        => [\A t \in Matcher :
              attempt[t] > 0 /\ attempt'[t] > attempt[t] =>
                child[t] \notin Bad]_vars
  BY <1>1
<1> QED
  BY Budgets, <1>2, PTL DEF Spec, RetryPolicy

-----------------------------------------------------------------------------
(* The invariant of the results                                            *)

Counted(v) == {t \in Cases : pc[t] = "joined" /\ result[t] = v}

\* A case has a result once run_test is over, and the one its reporters were
\* told; only the panic of a serial case, which kills the coordinator, and of
\* a parallel one, which leaves a join error, come without a terminal event.
ResultInv ==
    \A t \in Cases :
        /\ pc[t] \in {"spawned", "permitted", "running", "attempted"} =>
             result[t] = "none" /\ reported[t] \in {"none", "started", "retrying"}
        /\ pc[t] \in {"returned", "ungrouped", "finished", "joined"} =>
             \/ result[t] \in {"Passed", "Skipped", "Failed"} /\ reported[t] = result[t]
             \/ result[t] = "JoinError" /\ reported[t] \in {"none", "started", "retrying"}
             \/ result[t] = "none" /\ pc[t] = "returned" /\ t \in Serial
        /\ phase = "done" => pc[t] = "joined"

TallyInv ==
    /\ passed = Cardinality(Counted("Passed"))
    /\ skipped = Cardinality(Counted("Skipped"))

RInv == IInv /\ ResultInv /\ TallyInv

LEMMA NextResultInv == TypeOK /\ PhaseInv /\ ResultInv /\ [Next]_vars => ResultInv'
<1> SUFFICES ASSUME TypeOK, PhaseInv, ResultInv, [Next]_vars PROVE ResultInv'
  OBVIOUS
<1> USE ScheduleAssumption DEF Parallel
<1>1. ASSUME NEW t \in Cases, AcquirePermit(t) PROVE ResultInv'
  BY <1>1 DEF TypeOK, ResultInv, AcquirePermit
<1>2. ASSUME NEW t \in Cases, AcquireGroupPermit(t) PROVE ResultInv'
  BY <1>2 DEF TypeOK, ResultInv, AcquireGroupPermit, SpawnAttempt
<1>3. ASSUME NEW t \in Cases, StartExclusive(t) PROVE ResultInv'
  BY <1>3 DEF TypeOK, ResultInv, StartExclusive, SpawnAttempt
<1>4. ASSUME NEW t \in Cases, ChildEnds(t) PROVE ResultInv'
  BY <1>4 DEF TypeOK, ResultInv, ChildEnds
<1>5. ASSUME NEW t \in Cases, ChildTimesOut(t) PROVE ResultInv'
  BY <1>5 DEF TypeOK, ResultInv, ChildTimesOut
<1>6. ASSUME NEW t \in Cases, ReportSuccess(t) PROVE ResultInv'
  BY <1>6 DEF TypeOK, ResultInv, ReportSuccess, Return
<1>7. ASSUME NEW t \in Cases, ReportFailure(t) PROVE ResultInv'
  BY <1>7 DEF TypeOK, ResultInv, ReportFailure, Return
<1>8. ASSUME NEW t \in Cases, Retry(t) PROVE ResultInv'
  BY <1>8 DEF TypeOK, ResultInv, Retry, SpawnAttempt
<1>9. ASSUME NEW t \in Cases, ReporterPanics(t) PROVE ResultInv'
  BY <1>9 DEF TypeOK, ResultInv, ReporterPanics
<1>10. ASSUME NEW t \in Cases, DropGroupPermit(t) PROVE ResultInv'
  BY <1>10 DEF TypeOK, ResultInv, DropGroupPermit
<1>11. ASSUME NEW t \in Cases, DropPermit(t) PROVE ResultInv'
  BY <1>11 DEF TypeOK, ResultInv, DropPermit
<1>12. ASSUME NEW t \in Cases, JoinNext(t) PROVE ResultInv'
  BY <1>12 DEF TypeOK, ResultInv, JoinNext
<1>13. CASE EndParallelPhase \/ \E t \in Cases : JoinErrorPanics(t)
  BY <1>13 DEF TypeOK, ResultInv, EndParallelPhase, JoinErrorPanics
<1>14. CASE EndExclusivePhase \/ UNCHANGED vars
  BY <1>14 DEF TypeOK, PhaseInv, ResultInv, EndExclusivePhase, vars
<1> QED
  BY <1>1, <1>2, <1>3, <1>4, <1>5, <1>6, <1>7, <1>8, <1>9, <1>10, <1>11, <1>12,
     <1>13, <1>14 DEF Next, TaskStep, CoordinatorStep, Over

LEMMA CountedFinite ==
  ASSUME NEW v
  PROVE  IsFiniteSet(Counted(v)) /\ Cardinality(Counted(v)) \in Nat
<1>1. Counted(v) \in SUBSET Cases
  BY DEF Counted
<1> QED
  BY <1>1, ScheduleAssumption, FS_Subset, FS_CardinalityType

\* A step after which the same cases are joined with the same results.
LEMMA TallyUntouched ==
  ASSUME TallyInv, UNCHANGED <<passed, skipped>>,
         \A v : Counted(v)' = Counted(v)
  PROVE  TallyInv'
  BY DEF TallyInv

\* Joining a case and tallying its result go together.
LEMMA TallyJoined ==
  ASSUME TypeOK, TallyInv, NEW t \in Cases, pc[t] # "joined",
         pc' = [pc EXCEPT ![t] = "joined"],
         \A u \in Cases : u # t => result'[u] = result[u],
         tally(result'[t])
  PROVE  TallyInv'
<1>1. ASSUME NEW v
      PROVE  Cardinality(Counted(v)') =
               IF result'[t] = v THEN Cardinality(Counted(v)) + 1
               ELSE Cardinality(Counted(v))
  <2>1. CASE result'[t] = v
    <3>1. Counted(v)' = Counted(v) \cup {t} /\ t \notin Counted(v)
      BY <2>1 DEF TypeOK, Counted
    <3> QED
      BY <2>1, <3>1, CountedFinite, FS_AddElement
  <2>2. CASE result'[t] # v
    <3>1. Counted(v)' = Counted(v)
      BY <2>2 DEF TypeOK, Counted
    <3> QED
      BY <2>2, <3>1
  <2> QED
    BY <2>1, <2>2
<1>2. /\ Cardinality(Counted("Passed")') = IF result'[t] = "Passed" THEN passed + 1 ELSE passed
      /\ Cardinality(Counted("Skipped")') = IF result'[t] = "Skipped" THEN skipped + 1 ELSE skipped
  BY <1>1 DEF TallyInv
<1> QED
  BY <1>2 DEF TallyInv, tally

\* The exclusive arm of Return joins the case, the parallel one does not.
LEMMA TallyReturn ==
  ASSUME TypeOK, TallyInv, NEW t \in Cases, NEW outcome, pc[t] = "attempted",
         Return(t, outcome)
  PROVE  TallyInv'
<1>1. result' = [result EXCEPT ![t] = outcome]
  BY DEF Return
<1>2. CASE t \in Serial
  <2>1. pc' = [pc EXCEPT ![t] = "joined"] /\ tally(result'[t])
    BY <1>1, <1>2 DEF Return, TypeOK
  <2>2. \A u \in Cases : u # t => result'[u] = result[u]
    BY <1>1 DEF TypeOK
  <2> QED
    BY <2>1, <2>2, TallyJoined
<1>3. CASE t \notin Serial
  <2>1. pc' = [pc EXCEPT ![t] = "returned"] /\ UNCHANGED <<passed, skipped>>
    BY <1>3 DEF Return
  <2>2. \A v : Counted(v)' = Counted(v)
    BY <1>1, <2>1 DEF TypeOK, Counted
  <2> QED
    BY <2>1, <2>2, TallyUntouched
<1> QED
  BY <1>2, <1>3

LEMMA NextTallyInv == TypeOK /\ TallyInv /\ [Next]_vars => TallyInv'
<1> SUFFICES ASSUME TypeOK, TallyInv, [Next]_vars PROVE TallyInv'
  OBVIOUS
<1>1. ASSUME NEW t \in Cases, AcquirePermit(t) PROVE TallyInv'
  <2>1. UNCHANGED <<passed, skipped>> /\ \A v : Counted(v)' = Counted(v)
    BY <1>1 DEF TypeOK, Counted, AcquirePermit
  <2> QED
    BY <2>1, TallyUntouched
<1>2. ASSUME NEW t \in Cases, AcquireGroupPermit(t) PROVE TallyInv'
  <2>1. UNCHANGED <<passed, skipped>> /\ \A v : Counted(v)' = Counted(v)
    BY <1>2 DEF TypeOK, Counted, AcquireGroupPermit, SpawnAttempt
  <2> QED
    BY <2>1, TallyUntouched
<1>3. ASSUME NEW t \in Cases, StartExclusive(t) PROVE TallyInv'
  <2>1. UNCHANGED <<passed, skipped>> /\ \A v : Counted(v)' = Counted(v)
    BY <1>3 DEF TypeOK, Counted, StartExclusive, SpawnAttempt
  <2> QED
    BY <2>1, TallyUntouched
<1>4. ASSUME NEW t \in Cases, ChildEnds(t) PROVE TallyInv'
  <2>1. UNCHANGED <<passed, skipped>> /\ \A v : Counted(v)' = Counted(v)
    BY <1>4 DEF TypeOK, Counted, ChildEnds
  <2> QED
    BY <2>1, TallyUntouched
<1>5. ASSUME NEW t \in Cases, ChildTimesOut(t) PROVE TallyInv'
  <2>1. UNCHANGED <<passed, skipped>> /\ \A v : Counted(v)' = Counted(v)
    BY <1>5 DEF TypeOK, Counted, ChildTimesOut
  <2> QED
    BY <2>1, TallyUntouched
<1>6. ASSUME NEW t \in Cases, ReportSuccess(t) PROVE TallyInv'
  BY <1>6, TallyReturn DEF ReportSuccess
<1>7. ASSUME NEW t \in Cases, ReportFailure(t) PROVE TallyInv'
  BY <1>7, TallyReturn DEF ReportFailure
<1>8. ASSUME NEW t \in Cases, Retry(t) PROVE TallyInv'
  <2>1. UNCHANGED <<passed, skipped>> /\ \A v : Counted(v)' = Counted(v)
    BY <1>8 DEF TypeOK, Counted, Retry, SpawnAttempt
  <2> QED
    BY <2>1, TallyUntouched
<1>9. ASSUME NEW t \in Cases, ReporterPanics(t) PROVE TallyInv'
  <2>1. UNCHANGED <<passed, skipped>> /\ \A v : Counted(v)' = Counted(v)
    BY <1>9 DEF TypeOK, Counted, ReporterPanics
  <2> QED
    BY <2>1, TallyUntouched
<1>10. ASSUME NEW t \in Cases, DropGroupPermit(t) PROVE TallyInv'
  <2>1. UNCHANGED <<passed, skipped>> /\ \A v : Counted(v)' = Counted(v)
    BY <1>10 DEF TypeOK, Counted, DropGroupPermit
  <2> QED
    BY <2>1, TallyUntouched
<1>11. ASSUME NEW t \in Cases, DropPermit(t) PROVE TallyInv'
  <2>1. UNCHANGED <<passed, skipped>> /\ \A v : Counted(v)' = Counted(v)
    BY <1>11 DEF TypeOK, Counted, DropPermit
  <2> QED
    BY <2>1, TallyUntouched
<1>12. ASSUME NEW t \in Cases, JoinNext(t) PROVE TallyInv'
  <2>1. /\ pc[t] # "joined"
        /\ pc' = [pc EXCEPT ![t] = "joined"]
        /\ result' = result
        /\ tally(result'[t])
    BY <1>12 DEF JoinNext
  <2> QED
    BY <2>1, TallyJoined
<1>13. CASE \/ EndParallelPhase \/ EndExclusivePhase \/ UNCHANGED vars
            \/ \E t \in Cases : JoinErrorPanics(t)
  <2>1. UNCHANGED <<passed, skipped>> /\ \A v : Counted(v)' = Counted(v)
    BY <1>13 DEF Counted, EndParallelPhase, EndExclusivePhase, JoinErrorPanics, vars
  <2> QED
    BY <2>1, TallyUntouched
<1> QED
  BY <1>1, <1>2, <1>3, <1>4, <1>5, <1>6, <1>7, <1>8, <1>9, <1>10, <1>11, <1>12,
     <1>13 DEF Next, TaskStep, CoordinatorStep, Over

\* The steps of the executor keep it.
LEMMA NextRInv == RInv /\ [Next]_vars => RInv'
<1>1. IInv /\ [Next]_vars => IInv'
  BY NextTypeOK, NextPhaseInv, NextPermitInv, NextGroupInv DEF IInv
<1> QED
  BY <1>1, NextResultInv, NextTallyInv DEF RInv, IInv

LEMMA InitRInv == Init => RInv
<1> SUFFICES ASSUME Init PROVE RInv
  OBVIOUS
<1>1. ResultInv
  BY DEF Init, ResultInv
<1>2. Counted("Passed") = {} /\ Counted("Skipped") = {}
  BY DEF Init, Counted
<1>3. TallyInv
  BY <1>2, FS_EmptySet DEF Init, TallyInv
<1> QED
  BY <1>1, <1>3, InitIInv DEF RInv

LEMMA ResultsInvariant == Spec => []RInv
BY InitRInv, NextRInv, PTL DEF Spec

\* Nothing is lost and nothing is counted twice on the way from the tasks to
\* the published tallies, whichever of them panic.
THEOREM TalliesAreExact == Spec => []TalliesAgree
<1>1. RInv => TalliesAgree
  <2> SUFFICES ASSUME RInv, phase = "done"
               PROVE  /\ passed = Cardinality({t \in Cases : reported[t] = "Passed"})
                      /\ skipped = Cardinality({t \in Cases : reported[t] = "Skipped"})
    BY DEF TalliesAgree
  <2>1. ASSUME NEW t \in Cases
        PROVE  /\ pc[t] = "joined"
               /\ reported[t] = "Passed" <=> result[t] = "Passed"
               /\ reported[t] = "Skipped" <=> result[t] = "Skipped"
    BY DEF RInv, ResultInv
  <2>2. /\ Counted("Passed") = {t \in Cases : reported[t] = "Passed"}
        /\ Counted("Skipped") = {t \in Cases : reported[t] = "Skipped"}
    BY <2>1 DEF Counted
  <2> QED
    BY <2>2 DEF RInv, TallyInv
<1> QED
  BY ResultsInvariant, <1>1, PTL

-----------------------------------------------------------------------------
(* The refinement of SuiteContract                                         *)

VerdictMap == [t \in Cases |-> Verdict(t)]
Summary  == IF phase = "done" THEN <<passed, skipped>> ELSE <<>>

\* The instance brings its own Cardinality along; it is the same.
LEMMA SameCardinality == \A S : Contract!Cardinality(S) = Cardinality(S)
  BY DEF Contract!Cardinality, Cardinality

\* A step that neither begins nor ends a case, nor the suite.
LEMMA Stutters ==
  ASSUME InRunTest' = InRunTest, result' = result, UNCHANGED phase,
         UNCHANGED <<passed, skipped>> \/ phase # "done"
  PROVE  UNCHANGED Contract!cvars
<1>1. VerdictMap' = VerdictMap
  BY DEF VerdictMap, Verdict
<1>2. Summary' = Summary
  BY DEF Summary
<1> QED
  BY <1>1, <1>2 DEF Contract!cvars, VerdictMap, Summary

\* A case that holds its permits is admitted by the contract.
LEMMA ParallelAdmissible ==
  ASSUME IInv, NEW t \in Cases, AcquireGroupPermit(t)
  PROVE  Contract!Admissible(t)
<1>1. /\ phase = "parallel"
      /\ t \in Parallel
      /\ pc[t] = "permitted"
  BY DEF AcquireGroupPermit
<1>2. InRunTest \cap Serial = {}
  BY <1>1 DEF IInv, PhaseInv, InRunTest
<1>3. Cardinality(InRunTest) < Cap
  <2>1. /\ InRunTest \subseteq PermitHolders \ {t}
        /\ t \in PermitHolders
    BY <1>1, <1>2 DEF InRunTest, PermitHolders, Parallel
  <2>2. /\ IsFiniteSet(PermitHolders \ {t})
        /\ Cardinality(PermitHolders \ {t}) = Cardinality(PermitHolders) - 1
    BY <2>1, HoldersFinite, FS_RemoveElement
  <2>3. /\ Cardinality(InRunTest) <= Cardinality(PermitHolders \ {t})
        /\ Cardinality(InRunTest) \in Nat
    BY <2>1, <2>2, FS_Subset, FS_CardinalityType
  <2>4. Cardinality(PermitHolders) \in Nat
    BY HoldersFinite, FS_CardinalityType
  <2> QED
    BY <2>2, <2>3, <2>4, CapType DEF IInv, PermitInv, TypeOK
<1>4. ASSUME NEW u \in InRunTest PROVE ~Contract!Overlap(t, u)
  <2>1. u \in Parallel /\ pc[u] \in {"running", "attempted"}
    BY <1>2 DEF InRunTest, Parallel
  <2>2. ASSUME GroupOf[t] = GroupOf[u], GroupOf[t] # NoGroup PROVE FALSE
    <3>1. GroupOf[t] \in Groups /\ groupPermits[GroupOf[t]] > 0
      BY <1>1, <2>2 DEF Groups, AcquireGroupPermit
    <3>2. u \in GroupHolders(GroupOf[t])
      BY <2>1, <2>2 DEF GroupHolders
    <3> QED
      BY <3>1, <3>2 DEF IInv, GroupInv
  <2> QED
    BY <2>2 DEF Contract!Overlap
<1> QED
  BY <1>1, <1>2, <1>3, <1>4, SameCardinality DEF Contract!Admissible, Parallel

\* An exclusive case begins when nothing runs and all others are decided.
LEMMA ExclusiveAdmissible ==
  ASSUME RInv, NEW t \in Cases, StartExclusive(t)
  PROVE  Contract!Admissible(t)
<1>1. /\ phase = "exclusive"
      /\ t \in Serial
      /\ \A u \in Serial : pc[u] \in {"spawned", "joined"}
      /\ \A u \in Parallel : pc[u] = "joined"
  BY DEF StartExclusive, RInv, IInv, PhaseInv
<1>2. InRunTest = {}
  BY <1>1 DEF InRunTest, Parallel
<1>3. ASSUME NEW u \in Cases, u \notin Serial PROVE Verdict(u) # "Pending"
  <2>1. u \in Parallel /\ result[u] # "none"
    BY <1>1, <1>3 DEF Parallel, RInv, ResultInv
  <2> QED
    BY <2>1 DEF Verdict, RInv, IInv, TypeOK, Results
<1>4. Contract!With("Pending") \subseteq Serial
  BY <1>3 DEF Contract!With
<1> QED
  BY <1>1, <1>2, <1>4 DEF Contract!Admissible

\* Both ways into run_test begin the case.
LEMMA Begins ==
  ASSUME RInv, NEW t \in Cases, pc[t] \in {"spawned", "permitted"},
         Contract!Admissible(t), pc' = [pc EXCEPT ![t] = "running"],
         phase \in {"parallel", "exclusive"},
         UNCHANGED <<phase, result, passed, skipped>>
  PROVE  Contract!Begin(t)
<1>1. InRunTest' = InRunTest \cup {t} /\ t \notin InRunTest
  BY DEF InRunTest, RInv, IInv, TypeOK
<1>2. result[t] = "none"
  BY DEF RInv, ResultInv
<1>3. Verdict(t) = "Pending" /\ VerdictMap' = VerdictMap
  BY <1>2 DEF Verdict, VerdictMap
<1>4. Summary' = Summary
  BY DEF Summary
<1> QED
  BY <1>1, <1>3, <1>4 DEF Contract!Begin, VerdictMap, Summary

\* Every way out of run_test that the coordinator survives concludes it.
LEMMA Concludes ==
  ASSUME RInv, NEW t \in Cases, pc[t] = "attempted",
         NEW v \in {"Passed", "Skipped", "Failed", "JoinError"},
         NEW next \in {"returned", "joined"}, pc' = [pc EXCEPT ![t] = next],
         result' = [result EXCEPT ![t] = v],
         phase \in {"parallel", "exclusive"}, UNCHANGED phase
  PROVE  Contract!Conclude(t)
<1>1. InRunTest' = InRunTest \ {t} /\ t \in InRunTest
  BY DEF InRunTest, RInv, IInv, TypeOK
<1>2. Verdict(t)' \in {"Passed", "Skipped", "Failed"}
  BY DEF Verdict, RInv, IInv, TypeOK
<1>3. VerdictMap' = [VerdictMap EXCEPT ![t] = Verdict(t)']
  BY DEF VerdictMap, Verdict, RInv, IInv, TypeOK
<1>4. Summary' = Summary
  BY DEF Summary
<1> QED
  BY <1>1, <1>2, <1>3, <1>4 DEF Contract!Conclude, Contract!Verdicts, VerdictMap, Summary

\* Under it the initial states and the steps of the executor are those of the
\* contract.
LEMMA InitImplements == Init => Contract!CInit
<1> SUFFICES ASSUME Init PROVE Contract!CInit
  OBVIOUS
<1>1. InRunTest = {}
  BY DEF Init, InRunTest
<1>2. VerdictMap = [t \in Cases |-> "Pending"]
  BY DEF Init, VerdictMap, Verdict
<1> QED
  BY <1>1, <1>2 DEF Init, Contract!CInit, VerdictMap

LEMMA NextImplements ==
  ASSUME RInv, RInv', [Next]_vars
  PROVE  [Contract!CNext]_Contract!cvars
<1> USE ScheduleAssumption
<1>1. ASSUME NEW t \in Cases, AcquirePermit(t) PROVE UNCHANGED Contract!cvars
  <2>1. InRunTest' = InRunTest
    BY <1>1 DEF AcquirePermit, InRunTest, RInv, IInv, TypeOK
  <2> QED
    BY <1>1, <2>1, Stutters DEF AcquirePermit
<1>2. ASSUME NEW t \in Cases, AcquireGroupPermit(t) PROVE Contract!Begin(t)
  BY <1>2, ParallelAdmissible, Begins DEF AcquireGroupPermit, SpawnAttempt, RInv
<1>3. ASSUME NEW t \in Cases, StartExclusive(t) PROVE Contract!Begin(t)
  BY <1>3, ExclusiveAdmissible, Begins DEF StartExclusive, SpawnAttempt, RInv
<1>4. ASSUME NEW t \in Cases, ChildEnds(t) \/ ChildTimesOut(t) \/ Retry(t)
      PROVE  UNCHANGED Contract!cvars
  <2>1. InRunTest' = InRunTest
    BY <1>4 DEF ChildEnds, ChildTimesOut, Retry, SpawnAttempt, InRunTest, RInv, IInv, TypeOK
  <2>2. UNCHANGED <<phase, result, passed, skipped>>
    BY <1>4 DEF ChildEnds, ChildTimesOut, Retry
  <2> QED
    BY <2>1, <2>2, Stutters
<1>5. ASSUME NEW t \in Cases, ReportSuccess(t) \/ ReportFailure(t)
      PROVE  Contract!Conclude(t)
  <2>1. PICK v \in {"Passed", "Skipped", "Failed"} : Return(t, v)
    BY <1>5 DEF ReportSuccess, ReportFailure
  <2>2. PICK next \in {"returned", "joined"} : pc' = [pc EXCEPT ![t] = next]
    BY <2>1, ReturnPc
  <2>3. /\ result' = [result EXCEPT ![t] = v]
        /\ UNCHANGED phase
    BY <2>1 DEF Return
  <2>4. pc[t] = "attempted" /\ phase \in {"parallel", "exclusive"}
    BY <1>5 DEF ReportSuccess, ReportFailure
  <2> QED
    BY <2>2, <2>3, <2>4, Concludes
<1>6. ASSUME NEW t \in Cases, ReporterPanics(t)
      PROVE  Contract!Conclude(t) \/ Contract!Die
  <2>0. /\ pc[t] = "attempted"
        /\ pc' = [pc EXCEPT ![t] = "returned"]
        /\ phase \in {"parallel", "exclusive"}
    BY <1>6 DEF ReporterPanics
  <2>1. CASE t \notin Serial
    <3>1. result' = [result EXCEPT ![t] = "JoinError"] /\ UNCHANGED phase
      BY <1>6, <2>1 DEF ReporterPanics
    <3> QED
      BY <2>0, <3>1, Concludes
  <2>2. CASE t \in Serial
    <3>1. phase' = "crashed" /\ UNCHANGED <<result, passed, skipped>>
      BY <1>6, <2>2 DEF ReporterPanics
    <3>2. InRunTest' = {}
      BY <2>0, <2>2 DEF InRunTest, Parallel, InTest, RInv, IInv, PhaseInv, TypeOK
    <3>3. VerdictMap' = VerdictMap /\ Summary = <<>> /\ Summary' = <<>>
      BY <2>0, <3>1 DEF VerdictMap, Verdict, Summary
    <3> QED
      BY <2>0, <3>1, <3>2, <3>3 DEF Contract!Die, VerdictMap, Summary
  <2> QED
    BY <2>1, <2>2
<1>7. ASSUME NEW t \in Cases, DropGroupPermit(t) \/ DropPermit(t) \/ JoinNext(t)
      PROVE  UNCHANGED Contract!cvars
  <2>1. InRunTest' = InRunTest
    BY <1>7 DEF DropGroupPermit, DropPermit, JoinNext, InRunTest, RInv, IInv, TypeOK
  <2>2. phase = "parallel" /\ UNCHANGED <<phase, result>>
    BY <1>7 DEF DropGroupPermit, DropPermit, JoinNext
  <2> QED
    BY <2>1, <2>2, Stutters
<1>8. ASSUME NEW t \in Cases, JoinErrorPanics(t) PROVE Contract!Die
  <2>1. /\ phase = "parallel" /\ phase' = "crashed"
        /\ UNCHANGED <<pc, result, passed, skipped>>
    BY <1>8 DEF JoinErrorPanics
  <2>2. InRunTest' = InRunTest /\ VerdictMap' = VerdictMap
    BY <2>1 DEF InRunTest, VerdictMap, Verdict
  <2>3. Summary = <<>> /\ Summary' = <<>>
    BY <2>1 DEF Summary
  <2> QED
    BY <2>1, <2>2, <2>3 DEF Contract!Die, VerdictMap, Summary
<1>9. CASE EndParallelPhase
  <2>1. InRunTest' = InRunTest /\ VerdictMap' = VerdictMap
    BY <1>9 DEF EndParallelPhase, InRunTest, VerdictMap, Verdict
  <2>2. Summary' = Summary
    BY <1>9 DEF EndParallelPhase, Summary
  <2> QED
    BY <1>9, <2>1, <2>2 DEF EndParallelPhase, Contract!cvars, VerdictMap, Summary
<1>10. CASE EndExclusivePhase
  <2>1. /\ phase = "exclusive" /\ phase' = "done"
        /\ \A t \in Cases : pc[t] = "joined"
        /\ UNCHANGED <<pc, result, passed, skipped>>
    BY <1>10 DEF EndExclusivePhase, RInv, IInv, PhaseInv, Parallel
  <2>2. InRunTest' = InRunTest /\ VerdictMap' = VerdictMap
    BY <2>1 DEF InRunTest, VerdictMap, Verdict
  <2>3. ASSUME NEW t \in Cases PROVE result[t] # "none"
    BY <2>1 DEF RInv, ResultInv
  <2>4. /\ Contract!With("Pending") = {}
        /\ Contract!With("Passed") = Counted("Passed")
        /\ Contract!With("Skipped") = Counted("Skipped")
    BY <2>1, <2>3 DEF Contract!With, Counted, Verdict, RInv, IInv, TypeOK, Results
  <2>5. Summary = <<>> /\ Summary' = <<passed, skipped>>
    BY <2>1 DEF Summary
  <2>6. Contract!Publish
    BY <2>1, <2>2, <2>4, <2>5, SameCardinality
       DEF Contract!Publish, VerdictMap, Summary, RInv, TallyInv
  <2> QED
    BY <2>6 DEF Contract!CNext
<1>11. CASE UNCHANGED vars
  <2>1. InRunTest' = InRunTest /\ UNCHANGED <<phase, result, passed, skipped>>
    BY <1>11 DEF vars, InRunTest
  <2> QED
    BY <2>1, Stutters
<1>12. ASSUME NEW t \in Cases, TaskStep(t) PROVE [Contract!CNext]_Contract!cvars
  BY <1>1, <1>2, <1>4, <1>5, <1>6, <1>7, <1>12 DEF TaskStep, Contract!CNext
<1>13. CASE CoordinatorStep
  BY <1>3, <1>7, <1>8, <1>9, <1>10, <1>13 DEF CoordinatorStep, Contract!CNext
<1> QED
  BY <1>11, <1>12, <1>13 DEF Next, Over

\* The executor, permits, retries and panics included, does nothing its
\* contract forbids.
THEOREM ContractIsKept == Spec => KeepsContract
<1>1. RInv /\ RInv' /\ [Next]_vars => [Contract!CNext]_Contract!cvars
  BY NextImplements
<1> QED
  BY ResultsInvariant, InitImplements, <1>1, PTL DEF Spec, KeepsContract, Contract!CSpec
=============================================================================
