------------------------------ MODULE Preflight ------------------------------
(***************************************************************************)
(* The preflight phase of one test binary: the probes a #[preflight]       *)
(* function declares with the builder (preflight.rs), the names they are   *)
(* shown under, and their concurrent execution (preflight_runner.rs).      *)
(*                                                                         *)
(* All probes are polled by one task: a probe that waits leaves the others *)
(* running, one that blocks its thread stops them all, deadlines included, *)
(* and one that panics takes the coordinator with it.                      *)
(*                                                                         *)
(* A name is a sequence of words, so that "a(tcp)" can be told from "a" and *)
(* yet be written by hand.  What a probe meets on the network or in the    *)
(* environment is an external choice; lines on the terminal are kept as    *)
(* the order in which the probes finished.  All cargo features are on.     *)
(***************************************************************************)
EXTENDS Integers, Sequences, FiniteSets

CONSTANTS
    Declarable,    \* the calls [method, name, target] the function may make
    Modifiers,     \* the names of the other builder methods it may call
    MaxProbes,     \* bound on the probes declared
    MaxModifiers   \* bound on the calls of modifiers

Kinds == {"tcp", "env", "dns", "http", "ssh", "custom"}

ASSUME PreflightAssumption ==
    /\ \A d \in Declarable : d.method \in Kinds /\ d.name \in Seq(STRING)
    /\ Modifiers \subseteq {"timeout", "equals", "expect_status", "header", "command"}
    /\ MaxProbes \in Nat /\ MaxModifiers \in Nat

VARIABLES
    registered,    \* is there a #[preflight] function?
    pphase,        \* idle, building, probing, reported, invalid, panicked
    probes,        \* the declared probes, in order
    modified,      \* calls of modifiers so far
    outcome,       \* probe's position -> "Pending", "Passed" or "Failed"
    finished,      \* positions, in the order of the lines printed
    blocked,       \* a probe has blocked the thread all of them share
    report         \* what run_preflight returned, once it has

pvars == <<registered, pphase, probes, modified, outcome, finished, blocked, report>>

-----------------------------------------------------------------------------
(* The builder                                                             *)

DEFAULT_HTTP_OK_STATUS == <<200, 299>>
Exact(status) == <<status, status>>

\* What a probe expects when nothing else is said: the variable is not empty,
\* the status is a success.
DefaultExpect(kind) == CASE kind = "env"  -> "nonempty"
                         [] kind = "http" -> DEFAULT_HTTP_OK_STATUS
                         [] kind = "ssh"  -> "true"
                         [] OTHER         -> "none"

\* tcp, env, dns, http, ssh and custom: all push a probe; env and custom
\* without a deadline.
Probe(kind, name, target) ==
    [name |-> name, kind |-> kind, target |-> target,
     timeout |-> kind \notin {"env", "custom"},
     expect |-> DefaultExpect(kind), headers |-> 0]

natural_target(p) == IF p.kind = "custom" THEN {} ELSE {p.target}

\* The probe p after a modifier; a modifier of another kind's is a no-op.
Modify(p, m) ==
    CASE m = "timeout"                              -> [p EXCEPT !.timeout = TRUE]
      [] m = "equals" /\ p.kind = "env"             -> [p EXCEPT !.expect = "value"]
      [] m = "expect_status" /\ p.kind = "http"     -> [p EXCEPT !.expect = Exact(404)]
      [] m = "header" /\ p.kind = "http"            -> [p EXCEPT !.headers = @ + 1]
      [] m = "command" /\ p.kind = "ssh"            -> [p EXCEPT !.expect = "command"]
      [] OTHER                                      -> p

-----------------------------------------------------------------------------
(* Display names                                                           *)

SameName(ps, i)   == {j \in DOMAIN ps : ps[j].name = ps[i].name}
SameType(ps, i)   == {j \in SameName(ps, i) : ps[j].kind = ps[i].kind}
SameTarget(ps, i) ==
    {j \in SameType(ps, i) : natural_target(ps[j]) = natural_target(ps[i])}

\* A count of the names alone.
displayNameTwoTiers(ps, i) ==
    IF Cardinality(SameName(ps, i)) = 1 THEN ps[i].name
    ELSE ps[i].name \o <<"(", ps[i].kind, ")">>

display_name(ps, i) ==
    LET p == ps[i]
    IN  IF Cardinality(SameName(ps, i)) = 1 THEN p.name
        ELSE IF Cardinality(SameType(ps, i)) = 1 THEN p.name \o <<"(", p.kind, ")">>
        ELSE p.name \o <<"(", p.kind, "[", p.target, "]", ")">>

\* disambiguate_names gives up on probe i: two custom probes of one name, or
\* two probes with everything in common.
Ambiguous(ps, i) ==
    /\ Cardinality(SameType(ps, i)) > 1
    /\ natural_target(ps[i]) = {} \/ Cardinality(SameTarget(ps, i)) > 1

DisplayNames(ps) == [i \in DOMAIN ps |-> display_name(ps, i)]

-----------------------------------------------------------------------------
(* The probes.  What each one meets, and what it makes of it               *)

StatusOf == [s200 |-> 200, s299 |-> 299, s300 |-> 300, s404 |-> 404]

Met(kind) ==
    CASE kind = "tcp"    -> {"connected", "error", "silence"}
      [] kind = "dns"    -> {"addresses", "no_addresses", "error", "silence"}
      [] kind = "env"    -> {"value", "other", "empty", "unset", "not_utf8"}
      [] kind = "http"   -> {"configurator_error", "build_error", "send_error", "silence"}
                              \cup DOMAIN StatusOf
      [] kind = "ssh"    -> {"configurator_error", "connect_error", "exec_error",
                             "exit_0", "exit_1", "silence"}
      [] kind = "custom" -> {"ok", "err", "silence", "block", "panic"}

\* Expected values are never empty, or the same as other ones.
run_env(p, met) ==
    IF p.expect = "value" THEN met = "value" ELSE met \in {"value", "other"}

\* ExpectStatus, exact or a range.
ExpectMatches(expect, status) == expect[1] <= status /\ status <= expect[2]

run_http(p, met) ==
    met \in DOMAIN StatusOf /\ ExpectMatches(p.expect, StatusOf[met])

\* Everything before the remote command's own exit status is a failure.
run_ssh(met) == met = "exit_0"

run_custom(met) == met = "ok"

\* A probe that fails on the way to its check never gets there.
run_async_probe(p, met) ==
    CASE p.kind = "tcp"    -> met = "connected"
      [] p.kind = "dns"    -> met = "addresses"
      [] p.kind = "http"   -> run_http(p, met)
      [] p.kind = "ssh"    -> run_ssh(met)
      [] p.kind = "custom" -> run_custom(met)

run_probe(p, met) ==
    IF p.kind = "env" THEN run_env(p, met) ELSE run_async_probe(p, met)

\* A deadline applies to every probe that has one and awaits.
HasDeadline(p) == p.timeout /\ p.kind # "env"

-----------------------------------------------------------------------------
(* The phase                                                               *)

NoReport == [declared |-> FALSE, passed |-> TRUE, failed |-> 0, results |-> <<>>]

PInit ==
    /\ registered \in BOOLEAN
    /\ pphase = "idle"
    /\ probes = <<>>
    /\ modified = 0
    /\ outcome = <<>>
    /\ finished = <<>>
    /\ blocked = FALSE
    /\ report = NoReport

\* run_preflight with nothing registered, and otherwise the call of build_fn.
Begin ==
    /\ pphase = "idle"
    /\ pphase' = IF registered THEN "building" ELSE "reported"
    /\ UNCHANGED <<registered, probes, modified, outcome, finished, blocked, report>>

Declare ==
    /\ pphase = "building"
    /\ Len(probes) < MaxProbes
    /\ \E d \in Declarable : probes' = Append(probes, Probe(d.method, d.name, d.target))
    /\ UNCHANGED <<registered, pphase, modified, outcome, finished, blocked, report>>

ModifyLast(m) ==
    probes' = IF probes = <<>> THEN probes
              ELSE [probes EXCEPT ![Len(probes)] = Modify(@, m)]

CallModifier ==
    /\ pphase = "building"
    /\ modified < MaxModifiers
    /\ modified' = modified + 1
    /\ \E m \in Modifiers : ModifyLast(m)
    /\ UNCHANGED <<registered, pphase, outcome, finished, blocked, report>>

BuildPanics ==
    /\ pphase = "building"
    /\ pphase' = "panicked"
    /\ UNCHANGED <<registered, probes, modified, outcome, finished, blocked, report>>

\* No probe at all passes; an ambiguous pair stops the phase before any probe
\* has run.
Built ==
    /\ pphase = "building"
    /\ \/ /\ probes = <<>>
          /\ pphase' = "reported"
          /\ report' = [NoReport EXCEPT !.declared = TRUE]
          /\ UNCHANGED outcome
       \/ /\ probes # <<>>
          /\ \E i \in DOMAIN probes : Ambiguous(probes, i)
          /\ pphase' = "invalid"
          /\ UNCHANGED <<report, outcome>>
       \/ /\ probes # <<>>
          /\ \A i \in DOMAIN probes : ~Ambiguous(probes, i)
          /\ pphase' = "probing"
          /\ outcome' = [i \in DOMAIN probes |-> "Pending"]
          /\ UNCHANGED report
    /\ UNCHANGED <<registered, probes, modified, finished, blocked>>

Pending(i) == outcome[i] = "Pending"

finalize_spinner(i) == finished' = Append(finished, i)

\* Future i of the join is ready: its line is printed and its result kept.
Ready(i, verdict) ==
    /\ outcome' = [outcome EXCEPT ![i] = verdict]
    /\ finalize_spinner(i)
    /\ UNCHANGED <<registered, pphase, probes, modified, blocked, report>>

Polled(i) == pphase = "probing" /\ ~blocked /\ Pending(i)

ProbeAnswers(i) ==
    /\ Polled(i)
    /\ \E met \in Met(probes[i].kind) \ {"silence", "block", "panic"} :
         Ready(i, IF run_probe(probes[i], met) THEN "Passed" ELSE "Failed")

\* A deadline that only the HTTP client keeps.
probeTimesOutOverHttp(i) ==
    /\ Polled(i)
    /\ HasDeadline(probes[i]) /\ probes[i].kind = "http"
    /\ Ready(i, "Failed")

ProbeTimesOut(i) ==
    /\ Polled(i)
    /\ HasDeadline(probes[i])
    /\ Ready(i, "Failed")

\* A custom probe that blocks in its poll.
ProbeBlocks(i) ==
    /\ Polled(i)
    /\ "block" \in Met(probes[i].kind)
    /\ blocked' = TRUE
    /\ UNCHANGED <<registered, pphase, probes, modified, outcome, finished, report>>

ProbePanics(i) ==
    /\ Polled(i)
    /\ "panic" \in Met(probes[i].kind)
    /\ pphase' = "panicked"
    /\ UNCHANGED <<registered, probes, modified, outcome, finished, blocked, report>>

FailedProbes == {i \in DOMAIN outcome : outcome[i] = "Failed"}

Result(i) == [name |-> display_name(probes, i), verdict |-> outcome[i]]

\* Results in the order in which the probes finished.
resultsAsFinished == [k \in DOMAIN finished |->
    [name |-> display_name(probes, k), verdict |-> outcome[finished[k]]]]

\* join_all keeps the order of the declarations.
Results == [i \in DOMAIN probes |-> Result(i)]

\* A report that counts what the first failure was.
joinedEarly ==
    /\ pphase = "probing"
    /\ \/ FailedProbes # {}
       \/ \A i \in DOMAIN outcome : ~Pending(i)
    /\ pphase' = "reported"
    /\ report' = [declared |-> TRUE, passed |-> FailedProbes = {},
                  failed |-> Cardinality(FailedProbes), results |-> Results]
    /\ UNCHANGED <<registered, probes, modified, outcome, finished, blocked>>

Joined ==
    /\ pphase = "probing"
    /\ \A i \in DOMAIN outcome : ~Pending(i)
    /\ pphase' = "reported"
    /\ report' = [declared |-> TRUE, passed |-> FailedProbes = {},
                  failed |-> Cardinality(FailedProbes), results |-> Results]
    /\ UNCHANGED <<registered, probes, modified, outcome, finished, blocked>>

ProbeStep == \E i \in DOMAIN outcome :
                ProbeAnswers(i) \/ ProbeTimesOut(i) \/ ProbeBlocks(i) \/ ProbePanics(i)

PNext == Begin \/ Declare \/ CallModifier \/ BuildPanics \/ Built \/ ProbeStep \/ Joined

PSettled == pphase \in {"reported", "invalid", "panicked"}

\* The function returns, and timers fire.  Nothing makes a probe answer.
PFairness ==
    /\ WF_pvars(Begin \/ Built \/ Joined)
    /\ \A i \in 1 .. MaxProbes :
         WF_pvars(i \in DOMAIN outcome /\ (ProbeTimesOut(i)
                    \/ (probes[i].kind = "env" /\ ProbeAnswers(i))))

\* Over, or hanging for good.
PEnded == (PSettled \/ blocked) /\ UNCHANGED pvars

PSpec == PInit /\ [][PNext \/ PEnded]_pvars /\ PFairness

-----------------------------------------------------------------------------
(* Properties                                                              *)

\* Two probes nobody could tell apart: same name and type, and no target that
\* differs (preflight_runner.rs:314-326).
Indistinct(i, j) ==
    /\ i # j
    /\ probes[i].name = probes[j].name /\ probes[i].kind = probes[j].kind
    /\ probes[i].kind = "custom" \/ probes[i].target = probes[j].target

\* A name without the punctuation disambiguate_names adds.
Plain(name) == Len(name) = 1

\* Unless names imitate the generated ones, the probes that get as far as
\* running have distinct names, and only an indistinct pair stops them.
NamesTellProbesApart ==
    (\A i \in DOMAIN probes : Plain(probes[i].name)) =>
        /\ pphase = "probing" =>
             \A i, j \in DOMAIN probes :
                i # j => display_name(probes, i) # display_name(probes, j)
        /\ pphase \in {"probing", "invalid"} =>
             (pphase = "invalid" <=> \E i, j \in DOMAIN probes : Indistinct(i, j))

\* Whatever the order in which the probes finish, result i is the one of the
\* i-th probe, and the verdict counts them (preflight_runner.rs:181-220).
ResultsPairWithProbes ==
    pphase = "reported" /\ probes # <<>> =>
        /\ DOMAIN report.results = DOMAIN probes
        /\ \A i \in DOMAIN probes :
             /\ report.results[i].name = display_name(probes, i)
             /\ report.results[i].verdict = outcome[i]
        /\ report.passed <=> \A i \in DOMAIN probes : outcome[i] = "Passed"
        /\ report.failed = Cardinality({i \in DOMAIN probes : outcome[i] # "Passed"})

\* A report means that every probe ran to its own end, once, also when others
\* failed before it; a structural error means that none was started
\* (preflight_runner.rs:94-102, 146-150).
AllProbesOrNone ==
    /\ pphase = "reported" =>
         /\ {finished[k] : k \in DOMAIN finished} = DOMAIN probes
         /\ Len(finished) = Len(probes)
    /\ pphase = "invalid" => finished = <<>>

\* The phase settles unless a probe without a deadline stays silent or one
\* blocks the thread: then no deadline of another probe can fire either
\* (preflight_runner.rs:392-412).
Unbounded == \E i \in DOMAIN outcome : Pending(i) /\ ~HasDeadline(probes[i])
                                               /\ probes[i].kind # "env"
Settles == <>PSettled \/ <>[]blocked \/ <>[]Unbounded
=============================================================================
