------------------------------ MODULE Protocol ------------------------------
(***************************************************************************)
(* One attempt's way from the test function to the retry decision:         *)
(*                                                                         *)
(*   child side         macro wrapper (rigtest-macros/src/testcase.rs),    *)
(*                      run_single (runner.rs), run_main (lib.rs)          *)
(*   wire               exit code and captured stderr (protocol.rs)        *)
(*   coordinator side   decode_outcome (protocol.rs), plan (retry.rs)      *)
(*                                                                         *)
(* Text is abstracted to the one thing the coordinator tells apart: does   *)
(* the captured stderr contain "panicked at"?  The skip reason only ever   *)
(* reaches a report and is left out.                                       *)
(***************************************************************************)
EXTENDS Integers

SKIP_EXIT_CODE == 2
FAIL_NOT_RETRYABLE_EXIT_CODE == 3
NoExitCode == -1             \* ExitStatus::code() is None: killed by a signal

-----------------------------------------------------------------------------
(* The child                                                               *)

\* How the child of one attempt ends.  "err_match" and "err_other" are the
\* test's typed Err(_), which the retry_on_error pattern does or does not
\* match; "fixture_err" is an error of a fixture's setup or teardown, which
\* never meets the pattern; "signal" is a child killed from outside;
\* "spawn_err" is a child the coordinator could not start or wait for; and
\* "hang" is a child that never ends.
Endings == {"ok", "skip", "err_match", "err_other", "fixture_err", "panic",
            "signal", "spawn_err", "hang"}

\* The boxed result the registered wrapper hands to run_single: only an error
\* of the test function itself is held against the pattern.
build_testcase_body(e, matcher) ==
    IF e = "err_other" /\ matcher THEN "NotRetryEligible"
    ELSE IF e \in {"err_match", "err_other", "fixture_err"} THEN "Err"
    ELSE e

\* The exit code run_single and, for Err and a caught panic, run_main end with.
run_single(result) ==
    CASE result = "ok"               -> 0
      [] result = "skip"             -> SKIP_EXIT_CODE
      [] result = "NotRetryEligible" -> FAIL_NOT_RETRYABLE_EXIT_CODE
      [] result = "signal"           -> NoExitCode
      [] OTHER                       -> 1

-----------------------------------------------------------------------------
(* The coordinator                                                         *)

Raw(status, eligible, panicText) ==
    [status |-> status, retry_eligible |-> eligible, panic_text |-> panicText]

RawOutcomes == [status         : {"Passed", "Skipped", "Failed", "TimedOut", "Err"},
                retry_eligible : BOOLEAN,
                panic_text     : BOOLEAN]

decode_outcome(code, panicText) ==
    IF code = 0 THEN Raw("Passed", FALSE, FALSE)
    ELSE IF code = SKIP_EXIT_CODE THEN Raw("Skipped", FALSE, FALSE)
    ELSE Raw("Failed", code # FAIL_NOT_RETRYABLE_EXIT_CODE, panicText)

\* spawn_no_capture replays the child's stderr on the terminal and hands the
\* retry policy an empty string in its place.
spawn_no_capture(code, panicText) == decode_outcome(code, FALSE)

classify_failed(panicText) == IF panicText THEN "Panic" ELSE "Assertion"

Plans == [plan      : {"Passed", "Skipped", "Failed"},
          kind      : {"None", "Assertion", "Panic", "Timeout", "Crash"},
          retryable : BOOLEAN]

\* A plan that forgets the panic rule, for the mutation runs: every failure
\* the child did not mark as ineligible is retried.
planRetryingPanics(raw, matcher) ==
    [plan      |-> IF raw.status \in {"Passed", "Skipped"} THEN raw.status ELSE "Failed",
     kind      |-> "None",
     retryable |-> raw.retry_eligible]

plan(raw, matcher) ==
    CASE raw.status \in {"Passed", "Skipped"} ->
           [plan |-> raw.status, kind |-> "None", retryable |-> FALSE]
      [] raw.status = "Failed" ->
           LET kind == classify_failed(raw.panic_text)
           IN  [plan |-> "Failed", kind |-> kind,
                retryable |-> raw.retry_eligible /\ ~(kind = "Panic" /\ matcher)]
      [] raw.status = "TimedOut" ->
           [plan |-> "Failed", kind |-> "Timeout", retryable |-> ~matcher]
      [] raw.status = "Err" ->
           [plan |-> "Failed", kind |-> "Crash", retryable |-> ~matcher]

\* What SubprocessRunner::run returns for a child that ended by itself; noise
\* says whether a child that did not panic still left the panic text on stderr.
RunnerResult(e, matcher, noCapture, noise) ==
    LET code == run_single(build_testcase_body(e, matcher))
        text == e = "panic" \/ noise
    IN  IF e = "spawn_err" THEN Raw("Err", FALSE, FALSE)
        ELSE IF noCapture THEN spawn_no_capture(code, text)
        ELSE decode_outcome(code, text)
=============================================================================
