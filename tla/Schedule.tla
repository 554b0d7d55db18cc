------------------------------ MODULE Schedule ------------------------------
(***************************************************************************)
(* The pure scheduling plan of schedule.rs: which cases run in the         *)
(* parallel phase and which in the exclusive one, under which cap and      *)
(* group locks, with how many attempts and with or without a deadline.     *)
(* Options are sets of at most one element: {} is None.                    *)
(***************************************************************************)
EXTENDS Integers, FiniteSets

CONSTANTS
    Cases,             \* the selected test cases (after --filter and --tag)
    Serial,            \* the cases declared bare `serial`
    NoGroup,           \* serial_group: None
    GroupOf,           \* case -> its serial group, or NoGroup
    Retries,           \* case -> its declared retries
    RetriesOverride,   \* --retries
    U32Max,            \* u32::MAX: retry budgets saturate there
    OwnTimeout,        \* the cases that declare a timeout
    NoTimeout,         \* the cases that declare no_timeout
    SuiteDefault,      \* is a suite-wide default_timeout declared?
    Jobs,              \* --jobs, or the number of CPUs
    NoCapture          \* --no-capture

ASSUME ScheduleAssumption ==
    /\ IsFiniteSet(Cases)
    /\ Serial \subseteq Cases
    /\ \A t \in Cases : Retries[t] \in Nat
    /\ U32Max \in Nat \ {0}
    /\ RetriesOverride \in SUBSET Nat
    /\ \A t \in Cases : Retries[t] <= U32Max
    /\ SuiteDefault \in BOOLEAN
    /\ Jobs \in Nat                \* the CLI accepts 0
    /\ NoCapture \in BOOLEAN

-----------------------------------------------------------------------------
\* orchestrator::run: --no-capture forces one job.
Cap == IF NoCapture THEN 1 ELSE Jobs

\* Schedule::plan partitions by `serial` alone; a group is only looked at for
\* the cases of the parallel phase.
Parallel == Cases \ Serial
Groups   == {GroupOf[t] : t \in Parallel} \ {NoGroup}

\* A --retries beyond u32 is clamped, and the first attempt is added without
\* wrapping round.
EffectiveRetries(t) ==
    IF RetriesOverride = {} THEN Retries[t]
    ELSE LET n == CHOOSE n \in RetriesOverride : TRUE
         IN  IF n > U32Max THEN U32Max ELSE n

MaxAttempts(t) ==
    IF EffectiveRetries(t) = U32Max THEN U32Max ELSE EffectiveRetries(t) + 1

\* A deadline that needs both sources, for the mutation runs.
HasDeadlineOfBoth(t) == t \notin NoTimeout /\ t \in OwnTimeout /\ SuiteDefault

\* effective_timeout: no_timeout wins over everything, a case's own timeout
\* over the suite's default.
HasDeadline(t) == t \notin NoTimeout /\ (t \in OwnTimeout \/ SuiteDefault)
=============================================================================
