-------------------------------- MODULE Child --------------------------------
(***************************************************************************)
(* One test in its child process: the annotated functions are expanded     *)
(* (Testcase), the coordinator asks for a registered case by its name, and *)
(* the child loads the global state, looks the name up, runs the wrapper   *)
(* #[testcase] generated and exits with the code of its result             *)
(* (state.rs, runner.rs, the wrapper of rigtest-macros/src/testcase.rs).   *)
(*                                                                         *)
(* A fixture's setup or teardown and the body end in any way they can; a   *)
(* panic unwinds past everything still to do, and the coordinator or the   *)
(* system may kill the child at any time.                                  *)
(***************************************************************************)
EXTENDS Testcase, Protocol

CONSTANTS
    Programs    \* [functions, fixtures, global_setup] of the test binaries

IsSequence(s) == s \in Seq(Range(s))

\* What the parser and rustc see to: a sequence wherever the source has a list,
\* no two functions of one name in a module, and no name with a `::` of its own.
ASSUME ProgramsAssumption ==
    \A p \in Programs :
        /\ IsSequence(p.functions)
        /\ \A k \in DOMAIN p.functions :
             LET f == p.functions[k]
             IN  /\ IsSequence(f.name) /\ "::case_" \notin Range(f.name)
                 /\ IsSequence(f.params) /\ IsSequence(f.rows)
                 /\ \A i \in DOMAIN f.params : \A v \in f.params[i].values :
                      /\ f.params[i].values = {v} /\ IsSequence(v)
                      /\ \A j \in DOMAIN v : IsSequence(v[j])
                 /\ \A i \in DOMAIN f.rows : IsSequence(f.rows[i].values) /\ IsFiniteSet(f.rows[i].label)
        /\ \A j, k \in DOMAIN p.functions :
             /\ p.functions[j].module = p.functions[k].module
             /\ p.functions[j].name = p.functions[k].name
             => j = k

Panic101 == 101              \* a panic on the main thread, outside any catch_unwind

VARIABLES
    program,
    pc,                      \* "source", "rejected", "expanded", "load", "setup",
                             \*   "teardown", "report" or "exited"
    registry,                \* RIG_TEST_CASES: the registered cases
    asked,                   \* the case whose name the coordinator passed
    found,                   \* the case the child runs
    level,                   \* fixtures set up and not yet torn down
    log,                     \* what ran, with its outcome
    result,                  \* of the registered wrapper
    code                     \* the child's exit code

vars == <<program, pc, registry, asked, found, level, log, result, code>>

Ran(step, fixture, outcome) == [step |-> step, fixture |-> fixture, outcome |-> outcome]

\* The fixtures of the case that runs, in the order of the parameters.
Fixtures == registry[found].fixtures

Init ==
    /\ program \in Programs
    /\ pc = "source" /\ registry = <<>> /\ asked = 0 /\ found = 0 /\ level = 0
    /\ log = <<>> /\ result = "none" /\ code = 0

-----------------------------------------------------------------------------
(* Compilation                                                             *)

\* rustc resolves the paths the wrappers name: each must be a fixture.
Compiles(p) ==
    \A k \in DOMAIN p.functions :
        /\ ~Rejected(p.functions[k])
        /\ \A x \in Range(fixture_idents(p.functions[k].params)) :
              x \in DOMAIN p.fixtures /\ expand_fixture(p.fixtures[x])

\* The linker decides the order of the functions in the registry.
Expand ==
    /\ pc = "source"
    /\ IF Compiles(program)
       THEN /\ pc' = "expanded"
            /\ \E order \in SetToSeqs(DOMAIN program.functions) :
                  registry' = FlattenSeq([k \in DOMAIN order |->
                                            generate(program.functions[order[k]])])
       ELSE pc' = "rejected" /\ UNCHANGED registry
    /\ UNCHANGED <<program, asked, found, level, log, result, code>>

\* The executor starts a child for one of the registered cases.
Ask ==
    /\ pc = "expanded"
    /\ pc' = "load"
    /\ asked' \in DOMAIN registry
    /\ UNCHANGED <<program, registry, found, level, log, result, code>>

-----------------------------------------------------------------------------
(* The child                                                               *)

\* StateHandoff::load: the state is only deserialized for a global setup.
load(ok) == ok \/ program.global_setup

\* The first registered case of that bare name.
Lookup(name) ==
    CHOOSE k \in DOMAIN registry :
        /\ registry[k].name = name
        /\ \A j \in 1 .. k - 1 : registry[j].name # name

Start ==
    /\ pc = "load"
    /\ \E ok \in BOOLEAN :
         /\ load(ok)
         /\ IF ok THEN /\ pc' = "setup" /\ found' = Lookup(registry[asked].name)
                       /\ UNCHANGED code
            ELSE pc' = "exited" /\ code' = Panic101 /\ UNCHANGED found
    /\ UNCHANGED <<program, registry, asked, level, log, result>>

\* The next fixture in order; `?` leaves the whole wrapper on an error.
SetUp ==
    /\ pc = "setup" /\ level < Len(Fixtures)
    /\ \E e \in {"ok", "fixture_err", "skip", "panic"} :
         /\ log' = Append(log, Ran("setup", Fixtures[level + 1], e))
         /\ IF e = "ok" THEN level' = level + 1 /\ UNCHANGED <<pc, result>>
            ELSE pc' = "report" /\ result' = build_testcase_body(e, FALSE) /\ UNCHANGED level
    /\ UNCHANGED <<program, registry, asked, found, code>>

Body ==
    /\ pc = "setup" /\ level = Len(Fixtures)
    /\ \E e \in {"ok", "err_match", "err_other", "skip", "panic"} :
         /\ log' = Append(log, Ran("body", <<>>, e))
         /\ result' = build_testcase_body(e, registry[found].matcher)
         /\ pc' = IF e = "panic" THEN "report" ELSE "teardown"
    /\ UNCHANGED <<program, registry, asked, found, level, code>>

\* A wrapper that gives up at a body that failed.
tearDownAfterSuccess ==
    /\ pc = "teardown" /\ level > 0
    /\ IF result # "ok" THEN pc' = "report" /\ UNCHANGED <<level, log>>
       ELSE pc' = pc /\ level' = level - 1
            /\ log' = Append(log, Ran("teardown", Fixtures[level], "ok"))
    /\ UNCHANGED <<program, registry, asked, found, result, code>>

\* A wrapper that reports a teardown's error whatever the body returned.
tearDownErrorWins ==
    /\ pc = "teardown" /\ level > 0
    /\ \E e \in {"ok", "fixture_err", "skip", "panic"} :
         /\ log' = Append(log, Ran("teardown", Fixtures[level], e))
         /\ IF e = "ok" THEN level' = level - 1 /\ UNCHANGED <<pc, result>>
            ELSE pc' = "report" /\ result' = build_testcase_body(e, FALSE) /\ UNCHANGED level
    /\ UNCHANGED <<program, registry, asked, found, code>>

\* The innermost fixture that is still set up.  Its error is dropped after a
\* body that failed; after one that succeeded, `?` leaves the whole wrapper,
\* the fixtures outside this one included.
TearDown ==
    /\ pc = "teardown" /\ level > 0
    /\ \E e \in {"ok", "fixture_err", "skip", "panic"} :
         /\ log' = Append(log, Ran("teardown", Fixtures[level], e))
         /\ IF e = "panic" \/ (e # "ok" /\ result = "ok")
            THEN pc' = "report" /\ result' = build_testcase_body(e, FALSE) /\ UNCHANGED level
            ELSE level' = level - 1 /\ UNCHANGED <<pc, result>>
    /\ UNCHANGED <<program, registry, asked, found, code>>

\* run_single's match on the result; an Err and a caught panic end run_main.
Exit ==
    /\ pc = "report" \/ (pc = "teardown" /\ level = 0)
    /\ pc' = "exited" /\ code' = run_single(result)
    /\ UNCHANGED <<program, registry, asked, found, level, log, result>>

\* A deadline, or somebody else's signal.
Killed ==
    /\ pc \in {"load", "setup", "teardown", "report"}
    /\ pc' = "exited" /\ code' = run_single("signal")
    /\ UNCHANGED <<program, registry, asked, found, level, log, result>>

Next == Expand \/ Ask \/ Start \/ SetUp \/ Body \/ TearDown \/ Exit \/ Killed

Spec == Init /\ [][Next]_vars

-----------------------------------------------------------------------------
(* Properties: the expansion                                               *)

\* What the argument of the k-th parameter may be in a case of one row.
Allowed(params, row, k) ==
    LET p == params[k]
    IN  CASE Is(p, "Ctx")     -> { <<"ctx">> }
          [] Is(p, "Fixture") -> {fixture_target(p.name)}
          [] Is(p, "Case")    -> {row.values[Cardinality({j \in 1 .. k : Is(params[j], "Case")})]}
          [] Is(p, "Values")  -> UNION {Range(v) : v \in p.values}

\* What the rows and the values of a function ask for: each row with each choice.
Combinations(f) ==
    LET rows == IF f.rows = <<>> THEN {NoRow} ELSE Range(f.rows)
        choices(row) ==
            {a \in [DOMAIN f.params -> UNION {Allowed(f.params, row, k) : k \in DOMAIN f.params}] :
                \A k \in DOMAIN f.params : a[k] \in Allowed(f.params, row, k)}
    IN  UNION {choices(row) : row \in rows}

\* The arguments of each case.
Tried(f) ==
    LET cases == generate(f)
    IN  [k \in DOMAIN cases |-> [p \in DOMAIN f.params |-> cases[k].args[p].value]]

NoValueTwice(params) ==
    \A k \in DOMAIN params : \A v \in params[k].values : IsInjective(v)

\* No row of the table and no value of a list is written twice.
WithoutRepetition(f) ==
    /\ \A i, j \in DOMAIN f.rows : f.rows[i].values = f.rows[j].values => i = j
    /\ NoValueTwice(f.params)

\* Of every function that compiles, each row is tried with each choice of one
\* value per #[values] list, every value reaches the parameter it was written
\* for, and nothing else is tried; where nothing is written twice, each
\* combination is one case (testcase.rs:585-696, 737-751).
ExpansionSound ==
    pc = "expanded" =>
        \A k \in DOMAIN program.functions :
            LET f == program.functions[k]
            IN  /\ Range(Tried(f)) = Combinations(f)
                /\ WithoutRepetition(f) => IsInjective(Tried(f))

\* The child runs the case the coordinator asked for; only a case of the same
\* name in another module can take its place (runner.rs:18-21, testcase.rs:
\* 643-660).
AskedCaseRuns ==
    found # 0 => \/ found = asked
                 \/ registry[found].module # registry[asked].module

-----------------------------------------------------------------------------
(* Properties: fixtures                                                    *)

\* Where the log tells of a step, and the outcome of the last time.
Took(step) == {k \in DOMAIN log : log[k].step = step}
Ended(step) == log[Max(Took(step))].outcome

\* Fixtures are set up in the order of the parameters, the body runs once with
\* all of them up, and they are torn down in reverse, none of them twice
\* (testcase.rs:453-471, 908-931).
FixturesNested ==
    found # 0 =>
        LET nested == [k \in DOMAIN Fixtures |-> <<"setup", Fixtures[k]>>]
                        \o << <<"body", <<>> >> >>
                        \o Reverse([k \in DOMAIN Fixtures |-> <<"teardown", Fixtures[k]>>])
        IN  /\ IsInjective(Fixtures)
            /\ IsPrefix([k \in DOMAIN log |-> <<log[k].step, log[k].fixture>>], nested)

\* The body returned and nobody killed the child.
Returned == /\ pc = "exited" /\ code # NoExitCode
            /\ Took("body") # {} /\ Ended("body") # "panic"

AllTornDown == Cardinality(Took("teardown")) = Len(Fixtures)

\* A body that failed or skipped costs no fixture its teardown: only a panic
\* of a teardown, or its error after a body that succeeded, cuts the rest
\* short (testcase.rs:915-927).
TornDownAfterBody ==
    Returned /\ ~AllTornDown =>
        /\ Took("teardown") # {}
        /\ \/ Ended("teardown") = "panic"
           \/ Ended("teardown") # "ok" /\ Ended("body") = "ok"

\* "When a test requests several fixtures they set up left-to-right before the
\* body and tear down in reverse (LIFO) after it" (rigtest/README.md:495-496),
\* whatever a teardown returns; a panic is a documented exception.
TornDownInReverse ==
    Returned /\ (\A k \in DOMAIN log : log[k].outcome # "panic") => AllTornDown

\* The exit code tells of the first thing that went wrong, a panic excepted,
\* which ends everything: only a skip exits with 2, only an error of the body
\* that the pattern does not match with 3 (runner.rs:30-48, testcase.rs:867-927).
FirstFailureDecides ==
    pc = "exited" /\ code \notin {NoExitCode, Panic101} =>
        LET failed == {k \in DOMAIN log : log[k].outcome # "ok"}
            first  == log[Min(failed)].outcome
            last   == log[Max(failed)].outcome
        IN  code = IF failed = {} THEN 0
                   ELSE IF last = "panic" THEN 1
                   ELSE IF first = "skip" THEN SKIP_EXIT_CODE
                   ELSE IF first = "err_other" /\ registry[found].matcher
                        THEN FAIL_NOT_RETRYABLE_EXIT_CODE
                   ELSE 1
=============================================================================
