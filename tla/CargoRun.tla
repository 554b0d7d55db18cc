------------------------------- MODULE CargoRun -------------------------------
(***************************************************************************)
(* cargo rigtest run (cargo-rigtest: main.rs, junit.rs): the test binaries *)
(* are discovered and run one after the other, their exit codes are folded *)
(* into one, and their part files are merged into one JUnit document.      *)
(*                                                                         *)
(* A binary does what module BinaryContract says.  The command may be      *)
(* killed at any time, or fail to wait for a binary, and run again on the  *)
(* directory it left behind; what it was running may then survive it.      *)
(* The build, the file system's failures and the executables are the       *)
(* environment's.                                                          *)
(***************************************************************************)
EXTENDS BinaryContract, Sequences, FiniteSets, Subsequences

CONSTANTS
    Exes,            \* paths of executables, and so of part files
    Builds,          \* what `cargo test --no-run` may print: lines of artifacts
    Invocations,     \* the RunArgs: [junit, only, test]
    MaxRuns,         \* bound on the invocations
    OrphansSurvive   \* may test binaries outlive the command?

NoExe == "no executable"

\* A line of a test target that was built.
Usable(l) == l.reason = "compiler-artifact" /\ "test" \in l.kind /\ l.exe # NoExe

\* cargo gives each test target an executable of its own.
ASSUME CargoRunAssumption ==
    /\ \A b \in Builds :
         /\ b \in Seq({b[k] : k \in DOMAIN b})
         /\ \A k \in DOMAIN b : b[k].exe \in Exes \cup {NoExe}
         /\ \A j, k \in DOMAIN b :
              Usable(b[j]) /\ Usable(b[k]) /\ b[j].exe = b[k].exe => j = k
    /\ \A i \in Invocations : i.junit \in BOOLEAN /\ i.only \in BOOLEAN
    /\ MaxRuns \in Nat \ {0}
    /\ OrphansSurvive \in BOOLEAN

VARIABLES
    inv,         \* RunArgs of the current invocation
    run,         \* its number
    pc,          \* where it is
    targets,     \* the targets it found, in order
    next,        \* the next one to run
    last_code,
    exit,        \* its exit code, once it has one
    proc,        \* <<run, exe>> -> the process started there
    part,        \* exe -> its part file, where there is one
    tmp,         \* junit.xml.tmp
    final        \* junit.xml

vars == <<inv, run, pc, targets, next, last_code, exit, proc, part, tmp, final>>

NoCode == -2
NoDocument == [state |-> "none", run |-> 0, suites |-> <<>>]
NoParts == <<>>

Starts(i, n) ==
    /\ inv' = i
    /\ run' = n
    /\ pc' = "discover"
    /\ targets' = <<>>
    /\ next' = 1
    /\ last_code' = 0
    /\ exit' = NoCode

Init ==
    /\ inv \in Invocations
    /\ run = 1
    /\ pc = "discover"
    /\ targets = <<>>
    /\ next = 1
    /\ last_code = 0
    /\ exit = NoCode
    /\ proc = <<>>
    /\ part = NoParts
    /\ tmp = NoDocument
    /\ final = NoDocument

Exits(code) == pc' = "exited" /\ exit' = code

\* An error that leaves run through `?`.
Fails == Exits(1) /\ UNCHANGED <<inv, run, targets, next, last_code, proc, final>>

-----------------------------------------------------------------------------
(* Discovery                                                               *)

find_all_test_executables(lines) ==
    Subsequence(lines, {k \in DOMAIN lines : Usable(lines[k])})

\* Those that answer --rig-probe.
Answering(lines, answering) ==
    Subsequence(lines, {k \in DOMAIN lines : lines[k].exe \in answering})

\* Every target that was asked for must exist; by default all of them run.
Wanted(rig, names) ==
    Subsequence(rig, {k \in DOMAIN rig : names = {} \/ rig[k].name \in names})

Names(lines) == {lines[k].name : k \in DOMAIN lines}

\* A lookup by name that takes what there is.
discoverLeniently ==
    /\ pc = "discover"
    /\ \E b \in Builds : \E rigs \in SUBSET Exes :
         targets' = Wanted(Answering(find_all_test_executables(b), rigs), inv.test)
    /\ pc' = "for_run"
    /\ UNCHANGED <<inv, run, next, last_code, exit, proc, part, tmp, final>>

\* The build may fail, and any executable may not answer --rig-probe.
discover_targets ==
    /\ pc = "discover"
    /\ UNCHANGED <<part, tmp>>
    /\ \/ \E b \in Builds : \E answering \in SUBSET Exes :
            LET rig_targets == Answering(find_all_test_executables(b), answering)
            IN  IF rig_targets # <<>> /\ inv.test \subseteq Names(rig_targets)
                THEN /\ targets' = Wanted(rig_targets, inv.test)
                     /\ pc' = "for_run"
                     /\ UNCHANGED <<inv, run, next, last_code, exit, proc, final>>
                ELSE Fails
       \/ Fails

-----------------------------------------------------------------------------
(* The loop over the binaries                                              *)

\* A coordinator that adds to the parts that are there.
forRunKeepingParts ==
    /\ pc = "for_run"
    /\ pc' = "loop"
    /\ UNCHANGED <<inv, run, targets, next, last_code, exit, proc, part, tmp, final>>

\* JunitCoordinator::for_run: the parts of an earlier run go, one by one; the
\* removal may fail half way, and so may what surrounds it.
for_run ==
    /\ pc = "for_run"
    /\ UNCHANGED tmp
    /\ \/ /\ inv.junit
          /\ \E e \in DOMAIN part : part' = [f \in DOMAIN part \ {e} |-> part[f]]
          /\ UNCHANGED <<inv, run, pc, targets, next, last_code, exit, proc, final>>
       \/ /\ inv.junit => part = NoParts
          /\ pc' = "loop"
          /\ UNCHANGED <<inv, run, targets, next, last_code, exit, proc, part, final>>
       \/ inv.junit /\ UNCHANGED part /\ Fails

Pid == <<run, targets[next].exe>>

\* The binary is started, or cannot be: then the others are not run.
spawn_target ==
    /\ pc = "loop"
    /\ next <= Len(targets)
    /\ UNCHANGED <<part, tmp>>
    /\ \/ /\ proc' = [q \in DOMAIN proc \cup {Pid} |->
                         IF q = Pid THEN Started(inv.junit, inv.only) ELSE proc[q]]
          /\ pc' = "waiting"
          /\ UNCHANGED <<inv, run, targets, next, last_code, exit, final>>
       \/ Fails

\* Waiting for a binary that was started may fail as well: the command gives up,
\* and the binary, if it still runs, is left to itself.
StatusFails ==
    /\ pc = "waiting"
    /\ proc[Pid].alive => OrphansSurvive
    /\ UNCHANGED <<part, tmp>>
    /\ Fails

\* What a write of process q does to the parts: the open takes the path, and
\* the write goes to whatever file was opened, which may have been removed or
\* truncated by another process since.
Lands(q, state) ==
    LET mine == [state |-> state, run |-> q[1]]
        Put  == [e \in DOMAIN part \cup {q[2]} |-> IF e = q[2] THEN mine ELSE part[e]]
    IN  IF state = "torn" THEN {Put}
        ELSE IF q[2] \notin DOMAIN part THEN {part}
        ELSE IF part[q[2]].run = q[1] THEN {Put}
        ELSE IF part[q[2]].state = "torn" THEN {part, Put}
        ELSE {part}

BinaryStep(q) ==
    /\ \E p \in Successors(proc[q]) :
         /\ proc' = [proc EXCEPT ![q] = p]
         /\ IF p.part = proc[q].part THEN UNCHANGED part
            ELSE part' \in Lands(q, p.part)
    /\ UNCHANGED <<inv, run, pc, targets, next, last_code, exit, tmp, final>>

\* A code that is simply the last one.
targetExitsLast ==
    /\ pc = "waiting"
    /\ ~proc[Pid].alive
    /\ last_code' = IF proc[Pid].code = Killed THEN 1 ELSE proc[Pid].code
    /\ next' = next + 1
    /\ pc' = "loop"
    /\ UNCHANGED <<inv, run, targets, exit, proc, part, tmp, final>>

\* A wait that only understands exit codes.
targetExitsByCode ==
    /\ pc = "waiting"
    /\ ~proc[Pid].alive
    /\ proc[Pid].code # Killed
    /\ last_code' = IF proc[Pid].code # 0 THEN proc[Pid].code ELSE last_code
    /\ next' = next + 1
    /\ pc' = "loop"
    /\ UNCHANGED <<inv, run, targets, exit, proc, part, tmp, final>>

\* A binary without an exit code counts as 1, and 0 changes nothing.
TargetExits ==
    /\ pc = "waiting"
    /\ ~proc[Pid].alive
    /\ LET code == IF proc[Pid].code = Killed THEN 1 ELSE proc[Pid].code
       IN  last_code' = IF code # 0 THEN code ELSE last_code
    /\ next' = next + 1
    /\ pc' = "loop"
    /\ UNCHANGED <<inv, run, targets, exit, proc, part, tmp, final>>

-----------------------------------------------------------------------------
(* The document                                                            *)

Missing == 0

\* A part that is absent, unreadable, or does not parse yields a synthetic
\* suite; every other one carries the parent's name for the target.
SuiteFrom(t) ==
    [name |-> t.name, exe |-> t.exe,
     from |-> IF t.exe \in DOMAIN part /\ part[t.exe].state = "whole"
              THEN part[t.exe].run ELSE Missing]

aggregate == [k \in DOMAIN targets |-> SuiteFrom(targets[k])]

Document(state) == [state |-> state, run |-> run, suites |-> aggregate]

LoopEnds ==
    /\ pc = "loop"
    /\ next > Len(targets)
    /\ \/ /\ inv.junit
          /\ pc' = "writing"
          /\ tmp' = Document("torn")
          /\ UNCHANGED exit
       \/ ~inv.junit /\ Exits(last_code) /\ UNCHANGED tmp
    /\ UNCHANGED <<inv, run, targets, next, last_code, proc, part, final>>

\* finalize fails before the temporary file is there.
FinalizeFails ==
    /\ pc = "loop"
    /\ next > Len(targets)
    /\ inv.junit
    /\ Fails
    /\ UNCHANGED <<part, tmp>>

\* A document that is written where it will be read.
writeInPlace ==
    /\ pc = "writing"
    /\ final' = tmp
    /\ tmp' = [tmp EXCEPT !.state = "whole"]
    /\ pc' = "written"
    /\ UNCHANGED <<inv, run, targets, next, last_code, exit, proc, part>>

WriteAggregate ==
    /\ pc = "writing"
    /\ UNCHANGED part
    /\ \/ /\ tmp' = [state |-> "whole", run |-> tmp.run, suites |-> tmp.suites]
          /\ pc' = "written"
          /\ UNCHANGED <<inv, run, targets, next, last_code, exit, proc, final>>
       \/ Fails /\ UNCHANGED tmp

Rename ==
    /\ pc = "written"
    /\ UNCHANGED part
    /\ \/ /\ final' = tmp
          /\ tmp' = NoDocument
          /\ Exits(last_code)
          /\ UNCHANGED <<inv, run, targets, next, last_code, proc>>
       \/ Fails /\ UNCHANGED tmp

-----------------------------------------------------------------------------
(* The environment                                                         *)

Over == pc \in {"exited", "killed"}

\* The command is killed, with the binaries or without them.
Kill ==
    /\ ~Over
    /\ pc' = "killed"
    /\ proc' = IF OrphansSurvive THEN proc
               ELSE [q \in DOMAIN proc |->
                         Turned(proc[q], FALSE, proc[q].code, proc[q].part)]
    /\ UNCHANGED <<inv, run, targets, next, last_code, exit, part, tmp, final>>

Again ==
    /\ Over
    /\ run < MaxRuns
    /\ \E i \in Invocations : Starts(i, run + 1)
    /\ proc' = [q \in {r \in DOMAIN proc : proc[r].alive} |-> proc[q]]
    /\ UNCHANGED <<part, tmp, final>>

Command ==
    \/ discover_targets \/ for_run \/ spawn_target \/ TargetExits
    \/ LoopEnds \/ FinalizeFails \/ WriteAggregate \/ Rename

Binaries == \E q \in DOMAIN proc : BinaryStep(q)

Next == Command \/ Binaries \/ Kill \/ StatusFails \/ Again

\* The command is scheduled, no call is owed its failure, and every binary comes to its end: see
\* CoordinatorEnds of module Coordinator for the ones that do not.
Spec == Init /\ [][Next]_vars /\ WF_vars(Command) /\ WF_vars(Binaries)

-----------------------------------------------------------------------------
(* Properties                                                              *)

Code(k) == proc[<<run, targets[k].exe>>].code

\* A green command found at least one target and one for every name it was
\* given, all of them ran and were green, and the document asked for is this
\* run's, without a synthetic suite unless the binaries were only asked for
\* their preflight (main.rs:127-144, 157-184).
GreenMeansGreen ==
    exit = 0 =>
        /\ targets # <<>>
        /\ inv.test \subseteq Names(targets)
        /\ \A k \in DOMAIN targets : <<run, targets[k].exe>> \in DOMAIN proc /\ Code(k) = 0
        /\ inv.junit => final.run = run
        /\ inv.junit /\ ~inv.only =>
             \A k \in DOMAIN final.suites : final.suites[k].from # Missing

\* Whatever comes after it, a binary that was not green keeps the command from
\* being green; and a code that is not the command's own is the one of the last
\* binary that was not green (main.rs:131-137).
RedIsNeverHidden ==
    pc = "exited" =>
        /\ (\E q \in DOMAIN proc : q[1] = run /\ ~proc[q].alive /\ proc[q].code # 0)
              => exit # 0
        /\ exit \in {2, 101} =>
             \E k \in DOMAIN targets :
                /\ Code(k) = exit
                /\ \A j \in k + 1 .. Len(targets) : Code(j) = 0

\* junit.xml is never anything but one run's complete aggregate: it changes to
\* a whole document, with a suite for every target of the run, after the last
\* of them has ended; a run that fails or is killed leaves the old one
\* (junit.rs:69-84, 125-131).
ReplacedWhole ==
    [][ final' # final =>
          /\ final'.state = "whole"
          /\ final'.run = run
          /\ Len(final'.suites) = Len(targets)
          /\ \A k \in DOMAIN targets :
               /\ final'.suites[k].exe = targets[k].exe
               /\ ~proc[<<run, targets[k].exe>>].alive ]_vars

\* junit.rs:34-35: "Cleaning the parts directory happens here so a crashed
\* previous run can't leak stale suites into the next aggregate".
NoStaleSuites ==
    \A k \in DOMAIN final.suites : final.suites[k].from \in {Missing, final.run}

\* Every invocation comes to an end.
CommandEnds == (pc = "discover") ~> Over
=============================================================================
