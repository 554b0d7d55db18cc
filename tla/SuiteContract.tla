---------------------------- MODULE SuiteContract ----------------------------
(***************************************************************************)
(* What the executor of a schedule promises, without permits, tasks,       *)
(* attempts or reporters: cases begin only when the declared concurrency   *)
(* rules admit them, each gets one verdict that stays, and the summary is  *)
(* published once and counts the verdicts.                                 *)
(*                                                                         *)
(* Abstracted from schedule.rs ("the serial runs alone against everything  *)
(* invariant") and orchestrator.rs (execute, run_parallel_phase).          *)
(***************************************************************************)
EXTENDS Integers, FiniteSets

CONSTANTS Cases, Serial, NoGroup, GroupOf, Cap

VARIABLES
    running,    \* the cases being run
    verdict,    \* case -> "Pending", "Passed", "Skipped" or "Failed"
    summary,    \* <<>>, or <<passed, skipped>> once it is published
    alive       \* FALSE when the coordinator has died

cvars == <<running, verdict, summary, alive>>

Verdicts == {"Passed", "Skipped", "Failed"}

With(v) == {t \in Cases : verdict[t] = v}

CInit ==
    /\ running = {}
    /\ verdict = [t \in Cases |-> "Pending"]
    /\ summary = <<>>
    /\ alive = TRUE

Overlap(t, u) == GroupOf[t] = GroupOf[u] /\ GroupOf[t] # NoGroup

\* A serial case runs alone and after every other one; the others share the
\* cap, and cases of one group never overlap.
Admissible(t) ==
    IF t \in Serial
    THEN running = {} /\ With("Pending") \subseteq Serial
    ELSE /\ Cardinality(running) < Cap
         /\ running \cap Serial = {}
         /\ \A u \in running : ~Overlap(t, u)

Begin(t) ==
    /\ alive
    /\ verdict[t] = "Pending"
    /\ t \notin running
    /\ Admissible(t)
    /\ running' = running \cup {t}
    /\ UNCHANGED <<verdict, summary, alive>>

Conclude(t) ==
    /\ alive
    /\ t \in running
    /\ running' = running \ {t}
    /\ \E v \in Verdicts : verdict' = [verdict EXCEPT ![t] = v]
    /\ UNCHANGED <<summary, alive>>

\* The coordinator dies: with the serial case it is running, or without
\* concluding any of the cases that are being run.
Die ==
    /\ alive
    /\ summary = <<>>
    /\ running' \in {running, {}}
    /\ alive' = FALSE
    /\ UNCHANGED <<verdict, summary>>

Publish ==
    /\ alive
    /\ summary = <<>>
    /\ With("Pending") = {}
    /\ summary' = <<Cardinality(With("Passed")), Cardinality(With("Skipped"))>>
    /\ UNCHANGED <<running, verdict, alive>>

CNext == Publish \/ Die \/ \E t \in Cases : Begin(t) \/ Conclude(t)

CSpec == CInit /\ [][CNext]_cvars
=============================================================================
