--------------------------- MODULE CargoRunProofs ---------------------------
(***************************************************************************)
(* Theorems about CargoRun, for any number of builds, binaries, runs,      *)
(* failures and kills: what an exit code and junit.xml stand for, and that *)
(* the document carries suites of its own run only where a kill takes the  *)
(* test binaries along.                                                    *)
(***************************************************************************)
EXTENDS CargoRun, DataLemmas

Loop == {"loop", "waiting", "writing", "written"}

\* Only the binary the command waits for runs.
AliveInv ==
    \A q \in DOMAIN proc : proc[q].alive => pc = "waiting" /\ q = Pid

\* Since for_run, every part in the directory is one of this run.
PartInv ==
    pc \in Loop /\ inv.junit => \A e \in DOMAIN part : part[e].run = run

OwnSuites(document) ==
    \A k \in DOMAIN document.suites : document.suites[k].from \in {Missing, document.run}

\* The temporary document is the current run's while one is being written.
TmpInv ==
    /\ pc \in {"writing", "written"} => tmp.run = run /\ OwnSuites(tmp)
    /\ OwnSuites(final)

KInv == AliveInv /\ PartInv /\ TmpInv

LEMMA InitKInv == Init => KInv
<1> SUFFICES ASSUME Init PROVE KInv
  OBVIOUS
<1>1. DOMAIN proc = {} /\ pc = "discover"
  BY DEF Init
<1>2. DOMAIN final.suites = {}
  BY DEF Init, NoDocument
<1> QED
  BY <1>1, <1>2 DEF KInv, AliveInv, PartInv, TmpInv, OwnSuites, Loop

\* A suite is the run's whose parts are in the directory, or synthetic.
LEMMA AggregateIsOwn ==
  ASSUME \A e \in DOMAIN part : part[e].run = run, NEW k \in DOMAIN aggregate
  PROVE  aggregate[k].from \in {Missing, run}
<1>1. aggregate[k] = SuiteFrom(targets[k])
  BY DEF aggregate
<1>2. SuiteFrom(targets[k]).from \in {Missing, run}
  BY DEF SuiteFrom
<1> QED
  BY <1>1, <1>2

\* A binary writes to its own run's files or leaves the others alone.
LEMMA WritesOwnPart ==
  ASSUME \A e \in DOMAIN part : part[e].run = run,
         NEW q, q[1] = run, NEW state, part' \in Lands(q, state), run' = run
  PROVE  \A e \in DOMAIN part' : part'[e].run = run'
<1> DEFINE mine == [state |-> state, run |-> q[1]]
           Put  == [e \in DOMAIN part \cup {q[2]} |-> IF e = q[2] THEN mine ELSE part[e]]
<1>1. part' = part \/ part' = Put
  BY DEF Lands
<1>2. \A e \in DOMAIN Put : Put[e].run = run
  OBVIOUS
<1> QED
  BY <1>1, <1>2

LEMMA StillKInv ==
  ASSUME KInv, UNCHANGED <<inv, run, pc, targets, next, proc, part, tmp, final>>
  PROVE  KInv'
BY DEF KInv, AliveInv, PartInv, TmpInv, OwnSuites, Pid

\* A step outside the loop over the binaries, after which none is alive.
LEMMA IdleKeeps ==
  ASSUME KInv, proc' = proc, pc # "waiting", pc' # "waiting"
  PROVE  AliveInv'
BY DEF KInv, AliveInv

\* The command gives up, with whatever it has written so far.
LEMMA FailsKeeps ==
  ASSUME KInv, Fails, pc # "waiting"
  PROVE  KInv'
<1>1. pc' = "exited" /\ proc' = proc /\ final' = final
  BY DEF Fails, Exits
<1>2. AliveInv'
  BY <1>1, IdleKeeps
<1> QED
  BY <1>1, <1>2 DEF KInv, PartInv, TmpInv, OwnSuites, Loop

\* What for_run does when it does not fail: a part of an earlier run goes, or
\* none is left, where a document is asked for, and the loop begins.
OnePartGoes ==
    /\ pc = "for_run"
    /\ UNCHANGED <<inv, run, pc, targets, next, last_code, exit, proc, tmp, final>>

LoopBegins ==
    /\ pc = "for_run" /\ pc' = "loop"
    /\ inv.junit => part' = NoParts
    /\ UNCHANGED <<inv, run, targets, next, last_code, exit, proc, tmp, final>>

LEMMA ForRunSteps ==
  ASSUME for_run
  PROVE  pc = "for_run" /\ (Fails \/ OnePartGoes \/ LoopBegins)
BY DEF for_run, OnePartGoes, LoopBegins

LEMMA CommandKeeps ==
  ASSUME KInv, Command
  PROVE  KInv'
<1>1. CASE discover_targets
  <2>1. CASE Fails
    BY <1>1, <2>1, FailsKeeps DEF discover_targets
  <2>2. CASE ~Fails
    <3>1. pc = "discover" /\ pc' = "for_run" /\ UNCHANGED <<proc, final>>
      BY <1>1, <2>2 DEF discover_targets
    <3>2. AliveInv'
      BY <3>1, IdleKeeps
    <3> QED
      BY <3>1, <3>2 DEF KInv, PartInv, TmpInv, OwnSuites, Loop
  <2> QED
    BY <2>1, <2>2
<1>2. CASE for_run
  <2>1. CASE Fails
    BY <1>2, <2>1, FailsKeeps DEF for_run
  <2>2. CASE OnePartGoes
    BY <2>2 DEF OnePartGoes, KInv, AliveInv, PartInv, TmpInv, OwnSuites, Loop, Pid
  <2>3. CASE LoopBegins
    <3>1. /\ pc = "for_run" /\ pc' = "loop" /\ UNCHANGED <<proc, final, inv, run>>
          /\ inv.junit => part' = NoParts
      BY <2>3 DEF LoopBegins
    <3>2. AliveInv'
      BY <3>1, IdleKeeps
    <3>3. inv'.junit => DOMAIN part' = {}
      BY <3>1 DEF NoParts
    <3> QED
      BY <3>1, <3>2, <3>3 DEF KInv, PartInv, TmpInv, OwnSuites
  <2> QED
    BY <1>2, <2>1, <2>2, <2>3, ForRunSteps
<1>3. CASE spawn_target
  <2>1. CASE Fails
    BY <1>3, <2>1, FailsKeeps DEF spawn_target
  <2>2. CASE ~Fails
    <3>1. /\ pc = "loop" /\ pc' = "waiting" /\ Pid' = Pid
          /\ UNCHANGED <<final, inv, run, part>>
          /\ proc' = [q \in DOMAIN proc \cup {Pid} |->
                         IF q = Pid THEN Started(inv.junit, inv.only) ELSE proc[q]]
      BY <1>3, <2>2 DEF spawn_target, Pid
    <3>2. AliveInv'
      BY <3>1 DEF KInv, AliveInv
    <3> QED
      BY <3>1, <3>2 DEF KInv, PartInv, TmpInv, OwnSuites, Loop
  <2> QED
    BY <2>1, <2>2
<1>4. CASE TargetExits
  <2>1. /\ pc = "waiting" /\ pc' = "loop" /\ ~proc[Pid].alive
        /\ UNCHANGED <<proc, final, inv, run, part>>
    BY <1>4 DEF TargetExits
  <2>2. AliveInv'
    BY <2>1 DEF KInv, AliveInv
  <2> QED
    BY <2>1, <2>2 DEF KInv, PartInv, TmpInv, OwnSuites, Loop
<1>5. CASE LoopEnds
  <2>1. pc = "loop" /\ UNCHANGED <<proc, final, inv, run, part>>
    BY <1>5 DEF LoopEnds
  <2>2. CASE inv.junit /\ pc' = "writing" /\ tmp' = Document("torn")
    <3>1. AliveInv'
      BY <2>1, <2>2, IdleKeeps
    <3>2. tmp'.run = run /\ tmp'.suites = aggregate
      BY <2>2 DEF Document
    <3>3. \A k \in DOMAIN aggregate : aggregate[k].from \in {Missing, run}
      BY <2>1, <2>2, AggregateIsOwn DEF KInv, PartInv, Loop
    <3>4. OwnSuites(tmp')
      BY <3>2, <3>3 DEF OwnSuites
    <3> QED
      BY <2>1, <2>2, <3>1, <3>2, <3>4 DEF KInv, PartInv, TmpInv, OwnSuites, Loop
  <2>3. CASE pc' = "exited"
    <3>1. AliveInv'
      BY <2>1, <2>3, IdleKeeps
    <3> QED
      BY <2>1, <2>3, <3>1 DEF KInv, PartInv, TmpInv, OwnSuites, Loop
  <2> QED
    BY <1>5, <2>2, <2>3 DEF LoopEnds, Exits
<1>6. CASE FinalizeFails
  BY <1>6, FailsKeeps DEF FinalizeFails
<1>7. CASE WriteAggregate
  <2>1. CASE Fails
    BY <1>7, <2>1, FailsKeeps DEF WriteAggregate
  <2>2. CASE ~Fails
    <3>1. /\ pc = "writing" /\ pc' = "written" /\ UNCHANGED <<proc, final, inv, run, part>>
          /\ tmp'.run = tmp.run /\ tmp'.suites = tmp.suites
      BY <1>7, <2>2 DEF WriteAggregate
    <3>2. AliveInv'
      BY <3>1, IdleKeeps
    <3> QED
      BY <3>1, <3>2 DEF KInv, PartInv, TmpInv, OwnSuites, Loop
  <2> QED
    BY <2>1, <2>2
<1>8. CASE Rename
  <2>1. CASE Fails
    BY <1>8, <2>1, FailsKeeps DEF Rename
  <2>2. CASE ~Fails
    <3>1. pc = "written" /\ pc' = "exited" /\ proc' = proc /\ final' = tmp
      BY <1>8, <2>2 DEF Rename, Exits
    <3>2. AliveInv'
      BY <3>1, IdleKeeps
    <3> QED
      BY <3>1, <3>2 DEF KInv, PartInv, TmpInv, OwnSuites, Loop
  <2> QED
    BY <2>1, <2>2
<1> QED
  BY <1>1, <1>2, <1>3, <1>4, <1>5, <1>6, <1>7, <1>8 DEF Command

LEMMA BinariesKeep ==
  ASSUME KInv, Binaries
  PROVE  KInv'
<1>1. PICK q \in DOMAIN proc : BinaryStep(q)
  BY DEF Binaries
<1>2. PICK p \in Successors(proc[q]) :
        /\ proc' = [proc EXCEPT ![q] = p]
        /\ part' = part \/ part' \in Lands(q, p.part)
  BY <1>1 DEF BinaryStep
<1>3. UNCHANGED <<inv, run, pc, targets, next, tmp, final>> /\ Pid' = Pid
  BY <1>1 DEF BinaryStep, Pid
<1>4. proc[q].alive
  BY <1>2 DEF Successors
<1>5. pc = "waiting" /\ q = Pid /\ q[1] = run
  BY <1>4 DEF KInv, AliveInv, Pid
<1>6. AliveInv'
  BY <1>2, <1>3, <1>5 DEF KInv, AliveInv
<1>7. PartInv'
  <2> SUFFICES ASSUME inv.junit PROVE \A e \in DOMAIN part' : part'[e].run = run'
    BY <1>3 DEF PartInv
  <2>1. \A e \in DOMAIN part : part[e].run = run
    BY <1>5 DEF KInv, PartInv, Loop
  <2>2. CASE part' = part
    BY <1>3, <2>1, <2>2
  <2>3. CASE part' \in Lands(q, p.part)
    BY <1>3, <1>5, <2>1, <2>3, WritesOwnPart
  <2> QED
    BY <1>2, <2>2, <2>3
<1>8. TmpInv'
  BY <1>3 DEF KInv, TmpInv, OwnSuites
<1> QED
  BY <1>6, <1>7, <1>8 DEF KInv

LEMMA EnvironmentKeeps ==
  ASSUME KInv, OrphansSurvive = FALSE, Kill \/ StatusFails \/ Again
  PROVE  KInv'
<1>1. CASE Kill
  <2>1. /\ pc' = "killed" /\ final' = final
        /\ proc' = [q \in DOMAIN proc |-> Turned(proc[q], FALSE, proc[q].code, proc[q].part)]
    BY <1>1 DEF Kill
  <2>2. \A q \in DOMAIN proc' : ~proc'[q].alive
    BY <2>1 DEF Turned
  <2> QED
    BY <2>1, <2>2 DEF KInv, AliveInv, PartInv, TmpInv, OwnSuites, Loop
<1>2. CASE Again
  <2>1. /\ pc \in {"exited", "killed"} /\ pc' = "discover" /\ final' = final
        /\ proc' = [q \in {r \in DOMAIN proc : proc[r].alive} |-> proc[q]]
    BY <1>2 DEF Again, Starts, Over
  <2>2. {r \in DOMAIN proc : proc[r].alive} = {}
    BY <2>1 DEF KInv, AliveInv
  <2>3. DOMAIN proc' = {}
    BY <2>1, <2>2
  <2> QED
    BY <2>1, <2>3 DEF KInv, AliveInv, PartInv, TmpInv, OwnSuites, Loop
<1>3. CASE StatusFails
  <2>1. /\ pc = "waiting" /\ pc' = "exited" /\ proc' = proc /\ final' = final
        /\ ~proc[Pid].alive
    BY <1>3 DEF StatusFails, Fails, Exits
  <2>2. \A q \in DOMAIN proc : ~proc[q].alive
    BY <2>1 DEF KInv, AliveInv
  <2> QED
    BY <2>1, <2>2 DEF KInv, AliveInv, PartInv, TmpInv, OwnSuites, Loop
<1> QED
  BY <1>1, <1>2, <1>3

\* Without orphans, cleaning the parts directory once is enough: no suite of
\* an earlier run is in junit.xml (cargo-rigtest/src/junit.rs:34-35).
THEOREM NothingStaleWithoutOrphans ==
  ASSUME OrphansSurvive = FALSE
  PROVE  Spec => []NoStaleSuites
<1>1. Init => KInv
  BY InitKInv
<1>2. KInv /\ [Next]_vars => KInv'
  <2> SUFFICES ASSUME KInv, [Next]_vars PROVE KInv'
    OBVIOUS
  <2>1. CASE UNCHANGED vars
    BY <2>1, StillKInv DEF vars
  <2>2. CASE Command
    BY <2>2, CommandKeeps
  <2>3. CASE Binaries
    BY <2>3, BinariesKeep
  <2>4. CASE Kill \/ StatusFails \/ Again
    BY <2>4, EnvironmentKeeps
  <2> QED
    BY <2>1, <2>2, <2>3, <2>4 DEF Next
<1>3. KInv => NoStaleSuites
  BY DEF KInv, TmpInv, OwnSuites, NoStaleSuites
<1> QED
  BY <1>1, <1>2, <1>3, PTL DEF Spec

-----------------------------------------------------------------------------
(* The targets, their processes and the code they are folded into          *)

\* No two targets share an executable; past the discovery there is one for
\* every name that was asked for; and the loop is at one of them or past all.
TargetsInv ==
    /\ Len(targets) \in Nat
    /\ DOMAIN targets = 1 .. Len(targets)
    /\ next \in 1 .. Len(targets) + 1
    /\ \A j, k \in DOMAIN targets : targets[j].exe = targets[k].exe => j = k
    /\ pc \in {"discover", "for_run"} => next = 1
    /\ pc \in Loop \cup {"for_run"} \/ exit = 0 =>
         targets # <<>> /\ inv.test \subseteq Names(targets)

\* A target the current invocation has started.
Begun(k) == k < next \/ (k = next /\ pc = "waiting")

\* The processes of the current invocation are those of the targets it has
\* begun, unless it was cut short while it waited for one, and only the last of
\* them may be running.  No process is one of an invocation still to come.
ProcsInv ==
    /\ run \in Nat \ {0}
    /\ \A q \in DOMAIN proc :
         /\ q = <<q[1], q[2]>>
         /\ q[1] \in 1 .. run
         /\ proc[q].code \in {Killed, 0, 1, 2, 101}
         /\ proc[q].part \in {"none", "torn", "whole"}
         /\ proc[q].alive => proc[q].code = Killed
         /\ q[1] = run /\ pc # "killed" /\ exit # 1 =>
              \E k \in DOMAIN targets : Begun(k) /\ q[2] = targets[k].exe
    /\ \A k \in DOMAIN targets : k < next =>
         /\ <<run, targets[k].exe>> \in DOMAIN proc
         /\ ~proc[<<run, targets[k].exe>>].alive
    /\ pc = "waiting" => next \in DOMAIN targets /\ Pid \in DOMAIN proc

\* What the command makes of the way a binary ended.
Coded(k) == IF Code(k) = Killed THEN 1 ELSE Code(k)

\* The command's code is that of the last binary that was not green.
CodesInv ==
    /\ last_code \in {0, 1, 2, 101}
    /\ last_code = 0 => \A k \in DOMAIN targets : k < next => Code(k) = 0
    /\ last_code # 0 =>
         \E k \in DOMAIN targets :
            /\ k < next
            /\ Coded(k) = last_code
            /\ \A j \in DOMAIN targets : k < j /\ j < next => Code(j) = 0

\* While a document is being written, it is this run's and about its targets.
DocInv ==
    /\ pc \in {"writing", "written"} =>
         /\ inv.junit
         /\ next > Len(targets)
         /\ tmp.run = run
         /\ DOMAIN tmp.suites = DOMAIN targets
         /\ Len(tmp.suites) = Len(targets)
         /\ \A k \in DOMAIN targets : tmp.suites[k].exe = targets[k].exe
    /\ pc = "written" => tmp.state = "whole"

\* Only a command that came to its end has a code: 1, or the one it folded
\* when all targets have run and the document is in place.
EndInv ==
    /\ exit # NoCode <=> pc = "exited"
    /\ pc = "exited" =>
         \/ exit = 1
         \/ /\ exit = last_code
            /\ next > Len(targets)
            /\ inv.junit => final.run = run

GInv == TargetsInv /\ ProcsInv /\ CodesInv /\ DocInv /\ EndInv

\* Where a kill takes the binaries along, the part file of a binary is what
\* that binary has written, and one that is still to run has none.
DiskInv ==
    pc \in Loop =>
      /\ \A k \in DOMAIN targets : Begun(k) =>
           LET p == proc[<<run, targets[k].exe>>]
               e == targets[k].exe
           IN  /\ p.junit = inv.junit /\ p.only = inv.only
               /\ inv.junit =>
                    IF p.part = "none" THEN e \notin DOMAIN part
                    ELSE e \in DOMAIN part /\ part[e] = [state |-> p.part, run |-> run]
               /\ p.code = 0 /\ inv.junit /\ ~inv.only => p.part = "whole"
      /\ \A k \in DOMAIN targets : inv.junit /\ ~Begun(k) => targets[k].exe \notin DOMAIN part

\* No suite of a document that follows green binaries is synthetic.
Complete(document) == \A k \in DOMAIN document.suites : document.suites[k].from # Missing

CompleteInv ==
    /\ pc \in {"writing", "written"} /\ last_code = 0 /\ ~inv.only => Complete(tmp)
    /\ exit = 0 /\ inv.junit /\ ~inv.only => Complete(final)

DInv == DiskInv /\ CompleteInv

-----------------------------------------------------------------------------
(* Discovery                                                               *)

\* A sequence of lines in which no executable occurs twice.
Distinct(s) ==
    /\ s \in Seq(Range(s))
    /\ Len(s) \in Nat
    /\ DOMAIN s = 1 .. Len(s)
    /\ \A j, k \in DOMAIN s : s[j].exe = s[k].exe => j = k

\* What is selected is distinct if it was, and holds what was selected.
LEMMA SelectionIsDistinct ==
  ASSUME NEW X, NEW s \in Seq(X), NEW ks \in SUBSET DOMAIN s,
         \A j, k \in ks : s[j].exe = s[k].exe => j = k
  PROVE  /\ Distinct(Subsequence(s, ks))
         /\ \A k \in ks : \E n \in DOMAIN Subsequence(s, ks) : Subsequence(s, ks)[n] = s[k]
<1>1. PICK t : t = Subsequence(s, ks)
  OBVIOUS
<1>2. PICK c \in Nat : c = Cardinality(ks)
  BY SubsequenceType
<1>3. t \in Seq(X) /\ Len(t) = c
  BY <1>1, <1>2, SubsequenceType
<1>4. DOMAIN t = 1 .. c
  BY <1>3, LenProperties
<1>5. PICK at \in [1 .. c -> ks] : Selects(at, s, ks)
  BY <1>2, SubsequenceType
<1>6. /\ \A n \in 1 .. c : t[n] = s[at[n]] /\ at[n] \in ks
      /\ \A m, n \in 1 .. c : m < n => at[m] < at[n]
      /\ \A k \in ks : \E n \in 1 .. c : at[n] = k
  BY <1>1, <1>2, <1>5 DEF Selects
<1>7. ks \in SUBSET Nat
  BY LenProperties
<1>8. ASSUME NEW j \in 1 .. c, NEW k \in 1 .. c, t[j].exe = t[k].exe
      PROVE  j = k
  <2>1. at[j] = at[k]
    BY <1>6, <1>8
  <2>2. at[j] \in Nat /\ at[k] \in Nat /\ ~(at[j] < at[k]) /\ ~(at[k] < at[j])
    BY <1>6, <1>7, <2>1
  <2> QED
    BY <1>6, <2>2
<1>9. t \in Seq(Range(t))
  <2>1. t \in [1 .. c -> X]
    BY <1>3, <1>4
  <2>2. t \in [1 .. c -> Range(t)]
    BY <2>1 DEF Range
  <2> QED
    BY <2>2, SeqDef
<1>10. Distinct(t)
  BY <1>3, <1>4, <1>8, <1>9 DEF Distinct
<1>11. \A k \in ks : \E n \in DOMAIN t : t[n] = s[k]
  BY <1>4, <1>6
<1> QED
  BY <1>1, <1>10, <1>11

\* What find_all_test_executables finds, and what of it answers.
LEMMA AnsweringIsDistinct ==
  ASSUME NEW b \in Builds, NEW answering
  PROVE  Distinct(Answering(find_all_test_executables(b), answering))
<1> DEFINE ks == {k \in DOMAIN b : Usable(b[k])}
<1>1. PICK X : b \in Seq(X)
  BY CargoRunAssumption
<1>2. \A j, k \in ks : b[j].exe = b[k].exe => j = k
  BY CargoRunAssumption
<1>3. PICK s : s = find_all_test_executables(b) /\ s = Subsequence(b, ks)
  BY DEF find_all_test_executables
<1>4. Distinct(s)
  BY <1>1, <1>2, <1>3, SelectionIsDistinct
<1> DEFINE js == {k \in DOMAIN s : s[k].exe \in answering}
<1>5. Answering(s, answering) = Subsequence(s, js)
  BY DEF Answering
<1>6. s \in Seq(Range(s)) /\ \A j, k \in js : s[j].exe = s[k].exe => j = k
  BY <1>4 DEF Distinct
<1>7. Distinct(Subsequence(s, js))
  BY <1>6, SelectionIsDistinct
<1> QED
  BY <1>3, <1>5, <1>7

\* What is wanted of a non-empty list that has every name.
LEMMA WantedIsThere ==
  ASSUME NEW rig, Distinct(rig), rig # <<>>, NEW names, names \subseteq Names(rig)
  PROVE  /\ Distinct(Wanted(rig, names))
         /\ Wanted(rig, names) # <<>>
         /\ names \subseteq Names(Wanted(rig, names))
<1> DEFINE ks == {k \in DOMAIN rig : names = {} \/ rig[k].name \in names}
<1>1. PICK w : w = Wanted(rig, names) /\ w = Subsequence(rig, ks)
  BY DEF Wanted
<1>2. rig \in Seq(Range(rig)) /\ \A j, k \in ks : rig[j].exe = rig[k].exe => j = k
  BY DEF Distinct
<1>3. Distinct(w) /\ \A k \in ks : \E n \in DOMAIN w : w[n] = rig[k]
  <2>1. ks \in SUBSET DOMAIN rig
    OBVIOUS
  <2> HIDE DEF ks
  <2>2. /\ Distinct(Subsequence(rig, ks))
        /\ \A k \in ks : \E n \in DOMAIN Subsequence(rig, ks) : Subsequence(rig, ks)[n] = rig[k]
    BY <1>2, <2>1, SelectionIsDistinct
  <2> QED
    BY <1>1, <2>2
<1>4. names \subseteq Names(w)
  <2> SUFFICES ASSUME NEW m \in names PROVE m \in Names(w)
    OBVIOUS
  <2>1. PICK k \in DOMAIN rig : rig[k].name = m
    BY DEF Names
  <2>2. PICK n \in DOMAIN w : w[n] = rig[k]
    BY <1>3, <2>1
  <2> QED
    BY <2>1, <2>2 DEF Names
<1>5. \E k \in DOMAIN rig : k \in ks
  <2>1. CASE names = {}
    <3>1. Len(rig) # 0
      BY EmptySeq DEF Distinct
    <3>2. 1 \in DOMAIN rig
      BY <3>1 DEF Distinct
    <3> QED
      BY <2>1, <3>2
  <2>2. CASE names # {}
    BY <2>2 DEF Names
  <2> QED
    BY <2>1, <2>2
<1>6. DOMAIN w # {}
  BY <1>3, <1>5
<1>7. w # <<>>
  BY <1>6
<1> QED
  BY <1>1, <1>3, <1>4, <1>7

-----------------------------------------------------------------------------
(* Every step keeps GInv                                                   *)

\* What a process may become.
LEMMA Turns ==
  ASSUME NEW p, NEW s \in Successors(p), p.part \in {"none", "torn", "whole"}
  PROVE  /\ p.alive
         /\ s.code \in {p.code, Killed, 0, 1, 2, 101}
         /\ s.alive => s.code = p.code
         /\ s.part \in {"none", "torn", "whole"}
         /\ s.junit = p.junit /\ s.only = p.only
         /\ s.part # p.part =>
              /\ p.junit /\ s.code = p.code
              /\ \/ p.part = "none" /\ s.part = "torn"
                 \/ p.part = "torn" /\ s.part = "whole"
         /\ s.code = 0 /\ s.code # p.code /\ p.junit /\ ~p.only => s.part = "whole"
<1>1. p.alive /\ (s \in Writes(p) \/ s \in Ends(p))
  BY DEF Successors
<1>2. CASE s \in Writes(p)
  <2>1. p.junit /\ ~p.only
    BY <1>2 DEF Writes
  <2>2. \/ p.part = "none" /\ s = Turned(p, p.alive, p.code, "torn")
        \/ p.part = "torn" /\ s = Turned(p, p.alive, p.code, "whole")
    BY <1>2, <2>1 DEF Writes
  <2>3. /\ s.code = p.code /\ s.junit = p.junit /\ s.only = p.only
        /\ \/ p.part = "none" /\ s.part = "torn"
           \/ p.part = "torn" /\ s.part = "whole"
    BY <2>2 DEF Turned
  <2> QED
    BY <1>1, <2>1, <2>3
<1>3. CASE s \in Ends(p)
  <2>1. PICK c \in {Killed, 1, 2, 101} \cup
                   (IF p.junit /\ ~p.only /\ p.part # "whole" THEN {} ELSE {0}) :
          s = Turned(p, FALSE, c, p.part)
    BY <1>3 DEF Ends
  <2>2. /\ s.code = c /\ s.junit = p.junit /\ s.only = p.only
        /\ s.alive = FALSE /\ s.part = p.part
    BY <2>1 DEF Turned
  <2>3. c = 0 => ~(p.junit /\ ~p.only /\ p.part # "whole")
    BY <2>1 DEF Killed
  <2> QED
    BY <1>1, <2>1, <2>2, <2>3
<1> QED
  BY <1>1, <1>2, <1>3

LEMMA InitGInv == Init => GInv
<1> SUFFICES ASSUME Init PROVE GInv
  OBVIOUS
<1>1. /\ run = 1 /\ pc = "discover" /\ targets = <<>> /\ next = 1
      /\ last_code = 0 /\ exit = NoCode /\ DOMAIN proc = {}
  BY DEF Init
<1>2. Len(targets) = 0 /\ DOMAIN targets = {}
  BY <1>1
<1>3. TargetsInv
  BY <1>1, <1>2 DEF TargetsInv, Loop, NoCode
<1>4. ProcsInv
  BY <1>1, <1>2 DEF ProcsInv
<1>5. CodesInv /\ DocInv /\ EndInv
  BY <1>1, <1>2 DEF CodesInv, DocInv, EndInv, NoCode
<1> QED
  BY <1>3, <1>4, <1>5 DEF GInv

\* A step that leaves the targets, their processes and the code alone, and
\* begins or ends nothing.
LEMMA SameCodes ==
  ASSUME CodesInv, UNCHANGED <<run, targets, next, last_code>>,
         \A k \in DOMAIN targets : k < next => Code(k)' = Code(k)
  PROVE  CodesInv'
<1>1. \A k \in DOMAIN targets : k < next => Coded(k)' = Coded(k)
  BY DEF Coded
<1> QED
  BY <1>1 DEF CodesInv

LEMMA SameProcesses ==
  ASSUME ProcsInv, CodesInv, UNCHANGED <<run, targets, next, last_code, proc>>,
         pc # "waiting", pc # "killed", pc' # "waiting",
         exit' # 1 => exit # 1
  PROVE  ProcsInv' /\ CodesInv'
<1>1. ProcsInv'
  BY DEF ProcsInv, Begun
<1>2. \A k \in DOMAIN targets : Code(k)' = Code(k)
  BY DEF Code
<1> QED
  BY <1>1, <1>2, SameCodes

LEMMA StillGInv ==
  ASSUME GInv,
         UNCHANGED <<inv, run, pc, targets, next, last_code, exit, proc, tmp, final>>
  PROVE  GInv'
<1>1. TargetsInv'
  BY DEF GInv, TargetsInv
<1>2. ProcsInv'
  BY DEF GInv, ProcsInv, Begun, Pid
<1>3. CodesInv'
  BY SameCodes DEF GInv, Code
<1>4. DocInv' /\ EndInv'
  BY DEF GInv, DocInv, EndInv
<1> QED
  BY <1>1, <1>2, <1>3, <1>4 DEF GInv

LEMMA FailsKeepsG ==
  ASSUME GInv, Fails, pc # "killed"
  PROVE  GInv'
<1>1. /\ pc' = "exited" /\ exit' = 1
      /\ UNCHANGED <<inv, run, targets, next, last_code, proc, final>>
  BY DEF Fails, Exits
<1>2. TargetsInv'
  BY <1>1 DEF GInv, TargetsInv, Loop
<1>3. ProcsInv'
  BY <1>1 DEF GInv, ProcsInv
<1>4. CodesInv'
  BY <1>1, SameCodes DEF GInv, Code
<1>5. DocInv' /\ EndInv'
  BY <1>1 DEF DocInv, EndInv, NoCode
<1> QED
  BY <1>2, <1>3, <1>4, <1>5 DEF GInv

LEMMA DiscoverKeepsG ==
  ASSUME GInv, discover_targets
  PROVE  GInv'
<1>1. CASE Fails
  BY <1>1, FailsKeepsG DEF discover_targets
<1>2. CASE ~Fails
  <2>1. PICK b \in Builds, answering \in SUBSET Exes :
          LET rig == Answering(find_all_test_executables(b), answering)
          IN  /\ rig # <<>> /\ inv.test \subseteq Names(rig)
              /\ targets' = Wanted(rig, inv.test)
    BY <1>2 DEF discover_targets
  <2>2. /\ pc = "discover" /\ pc' = "for_run"
        /\ UNCHANGED <<inv, run, next, last_code, exit, proc, final>>
    BY <1>2 DEF discover_targets
  <2>3. PICK rig : /\ rig = Answering(find_all_test_executables(b), answering)
                   /\ rig # <<>> /\ inv.test \subseteq Names(rig)
                   /\ targets' = Wanted(rig, inv.test)
    BY <2>1
  <2>4. Distinct(rig)
    BY <2>3, AnsweringIsDistinct
  <2>5. /\ Distinct(targets') /\ targets' # <<>>
        /\ inv.test \subseteq Names(targets')
    BY <2>3, <2>4, WantedIsThere
  <2>6. next = 1 /\ next' = 1
    BY <2>2 DEF GInv, TargetsInv
  <2>7. TargetsInv'
    BY <2>2, <2>5, <2>6 DEF Distinct, TargetsInv, Names
  <2>8. \A q \in DOMAIN proc : q[1] # run
    <3>1. exit # 1
      BY <2>2 DEF GInv, EndInv, NoCode
    <3> QED
      BY <2>2, <2>6, <3>1 DEF GInv, TargetsInv, ProcsInv, Begun
  <2>9. \A k \in DOMAIN targets' : ~(k < 1)
    BY <2>5 DEF Distinct
  <2>10. ProcsInv'
    BY <2>2, <2>6, <2>8, <2>9 DEF GInv, ProcsInv
  <2>11. CodesInv'
    <3>1. last_code' = 0
      <4>1. \A k \in DOMAIN targets : ~(k < 1)
        BY DEF GInv, TargetsInv
      <4> QED
        BY <2>2, <2>6, <4>1 DEF GInv, CodesInv
    <3> QED
      BY <2>6, <2>9, <3>1 DEF CodesInv
  <2>12. DocInv' /\ EndInv'
    BY <2>2 DEF GInv, DocInv, EndInv
  <2> QED
    BY <2>7, <2>10, <2>11, <2>12 DEF GInv
<1> QED
  BY <1>1, <1>2

LEMMA ForRunKeepsG ==
  ASSUME GInv, for_run
  PROVE  GInv'
<1>1. CASE Fails
  BY <1>1, FailsKeepsG DEF for_run
<1>2. CASE OnePartGoes
  BY <1>2, StillGInv DEF OnePartGoes
<1>3. CASE LoopBegins
  <2>1. /\ pc = "for_run" /\ pc' = "loop"
        /\ UNCHANGED <<inv, run, targets, next, last_code, exit, proc, final>>
    BY <1>3 DEF LoopBegins
  <2>2. TargetsInv'
    BY <2>1 DEF GInv, TargetsInv, Loop
  <2>3. ProcsInv' /\ CodesInv'
    BY <2>1, SameProcesses DEF GInv
  <2>4. DocInv' /\ EndInv'
    BY <2>1 DEF GInv, DocInv, EndInv
  <2> QED
    BY <2>2, <2>3, <2>4 DEF GInv
<1> QED
  BY <1>1, <1>2, <1>3, ForRunSteps

\* The next binary is started: its process is one the invocation has not had.
LEMMA SpawnKeepsG ==
  ASSUME GInv, spawn_target
  PROVE  GInv'
<1>1. CASE Fails
  BY <1>1, FailsKeepsG DEF spawn_target
<1>2. CASE ~Fails
  <2>1. /\ pc = "loop" /\ pc' = "waiting" /\ next <= Len(targets)
        /\ UNCHANGED <<inv, run, targets, next, last_code, exit, final>>
    BY <1>2 DEF spawn_target
  <2>2. proc' = [q \in DOMAIN proc \cup {Pid} |->
                    IF q = Pid THEN Started(inv.junit, inv.only) ELSE proc[q]]
    BY <1>2 DEF spawn_target
  <2>3. next \in DOMAIN targets
    BY <2>1 DEF GInv, TargetsInv
  <2>4. Pid' = Pid /\ Pid = <<run, targets[next].exe>> /\ Pid[1] = run
        /\ Pid[2] = targets[next].exe
    BY <2>1 DEF Pid
  <2>5. ASSUME NEW k \in DOMAIN targets, k < next
        PROVE  <<run, targets[k].exe>> \in DOMAIN proc /\ <<run, targets[k].exe>> # Pid
               /\ proc'[<<run, targets[k].exe>>] = proc[<<run, targets[k].exe>>]
    <3>1. targets[k].exe # targets[next].exe
      BY <2>3, <2>5 DEF GInv, TargetsInv
    <3>2. <<run, targets[k].exe>> # Pid
      BY <2>4, <3>1
    <3>3. <<run, targets[k].exe>> \in DOMAIN proc
      BY <2>5 DEF GInv, ProcsInv
    <3> QED
      BY <2>2, <3>2, <3>3
  <2>6. TargetsInv'
    BY <2>1 DEF GInv, TargetsInv, Loop
  <2>7. ProcsInv'
    <3>1. /\ run \in Nat \ {0} /\ run \in 1 .. run
          /\ exit # 1
      BY <2>1 DEF GInv, ProcsInv, EndInv, NoCode
    <3>2. ASSUME NEW q \in DOMAIN proc'
          PROVE  /\ q = <<q[1], q[2]>>
                 /\ q[1] \in 1 .. run
                 /\ proc'[q].code \in {Killed, 0, 1, 2, 101}
                 /\ proc'[q].part \in {"none", "torn", "whole"}
                 /\ proc'[q].alive => proc'[q].code = Killed
                 /\ q[1] = run =>
                      \E k \in DOMAIN targets : Begun(k)' /\ q[2] = targets[k].exe
      <4>1. CASE q = Pid
        <5>1. proc'[q] = Started(inv.junit, inv.only)
          BY <2>2, <4>1
        <5>2. \E k \in DOMAIN targets : Begun(k)' /\ targets[next].exe = targets[k].exe
          BY <2>1, <2>3 DEF Begun
        <5>3. q = <<q[1], q[2]>> /\ q[1] = run /\ q[2] = targets[next].exe
          BY <2>4, <4>1
        <5>4. proc'[q].code = Killed /\ proc'[q].part = "none"
          BY <5>1 DEF Started
        <5> QED
          BY <2>3, <3>1, <5>2, <5>3, <5>4
      <4>2. CASE q # Pid
        <5>1. q \in DOMAIN proc /\ proc'[q] = proc[q]
          BY <2>2, <4>2
        <5> QED
          BY <2>1, <3>1, <5>1 DEF GInv, ProcsInv, Begun
      <4> QED
        BY <4>1, <4>2
    <3>3. \A k \in DOMAIN targets : k < next =>
             /\ <<run, targets[k].exe>> \in DOMAIN proc'
             /\ ~proc'[<<run, targets[k].exe>>].alive
      BY <2>2, <2>5 DEF GInv, ProcsInv
    <3>4. Pid \in DOMAIN proc'
      BY <2>2
    <3> QED
      BY <2>1, <2>3, <2>4, <3>1, <3>2, <3>3, <3>4 DEF ProcsInv
  <2>8. CodesInv'
    <3>1. \A k \in DOMAIN targets : k < next => Code(k)' = Code(k)
      BY <2>1, <2>5 DEF Code
    <3> QED
      BY <2>1, <3>1, SameCodes DEF GInv
  <2>9. DocInv' /\ EndInv'
    BY <2>1 DEF GInv, DocInv, EndInv
  <2> QED
    BY <2>6, <2>7, <2>8, <2>9 DEF GInv
<1> QED
  BY <1>1, <1>2

\* The binary has ended: its code counts unless it is 0.
LEMMA TargetExitsKeepsG ==
  ASSUME GInv, TargetExits
  PROVE  GInv'
<1>1. /\ pc = "waiting" /\ pc' = "loop" /\ ~proc[Pid].alive /\ next' = next + 1
      /\ last_code' = IF Coded(next) # 0 THEN Coded(next) ELSE last_code
      /\ UNCHANGED <<inv, run, targets, exit, proc, final>>
  BY DEF TargetExits, Coded, Code, Pid
<1>2. /\ next \in DOMAIN targets /\ Pid \in DOMAIN proc
      /\ Pid = <<run, targets[next].exe>>
  BY <1>1 DEF GInv, ProcsInv, Pid
<1>3. DOMAIN targets = 1 .. Len(targets) /\ Len(targets) \in Nat /\ next \in Nat
  BY DEF GInv, TargetsInv
<1>4. \A k \in DOMAIN targets : k < next + 1 <=> k < next \/ k = next
  BY <1>3
<1>5. TargetsInv'
  BY <1>1, <1>2, <1>3 DEF GInv, TargetsInv, Loop
<1>6. ProcsInv'
  <2>1. \A k \in DOMAIN targets : Begun(k)' <=> Begun(k)
    BY <1>1, <1>4 DEF Begun
  <2> QED
    BY <1>1, <1>2, <1>4, <2>1 DEF GInv, ProcsInv
<1>7. CodesInv'
  <2>1. Code(next) \in {Killed, 0, 1, 2, 101}
    BY <1>2 DEF GInv, ProcsInv, Code
  <2>2. Coded(next) \in {0, 1, 2, 101} /\ (Coded(next) = 0 <=> Code(next) = 0)
    BY <2>1 DEF Coded, Killed
  <2>3. \A k \in DOMAIN targets : Code(k)' = Code(k) /\ Coded(k)' = Coded(k)
    BY <1>1 DEF Code, Coded
  <2>4. CASE Coded(next) = 0
    <3>1. last_code' = last_code
      BY <1>1, <2>4
    <3>2. last_code = 0 => \A k \in DOMAIN targets : k < next + 1 => Code(k) = 0
      BY <1>4, <2>2, <2>4 DEF GInv, CodesInv
    <3>3. last_code # 0 =>
            \E k \in DOMAIN targets :
               /\ k < next + 1
               /\ Coded(k) = last_code
               /\ \A j \in DOMAIN targets : k < j /\ j < next + 1 => Code(j) = 0
      BY <1>4, <2>2, <2>4 DEF GInv, CodesInv
    <3> QED
      BY <1>1, <2>3, <3>1, <3>2, <3>3 DEF GInv, CodesInv
  <2>5. CASE Coded(next) # 0
    <3>1. last_code' = Coded(next)
      BY <1>1, <2>5
    <3>2. /\ next < next + 1
          /\ \A j \in DOMAIN targets : ~(next < j /\ j < next + 1)
      BY <1>3
    <3> QED
      BY <1>1, <1>2, <2>2, <2>3, <2>5, <3>1, <3>2 DEF CodesInv
  <2> QED
    BY <2>4, <2>5
<1>8. DocInv' /\ EndInv'
  BY <1>1 DEF GInv, DocInv, EndInv
<1> QED
  BY <1>5, <1>6, <1>7, <1>8 DEF GInv

LEMMA DocumentKeepsG ==
  ASSUME GInv, LoopEnds \/ WriteAggregate \/ Rename, ~Fails
  PROVE  GInv'
<1>1. /\ pc \in Loop /\ pc # "waiting" /\ pc # "killed" /\ pc' # "waiting" /\ next > Len(targets)
      /\ UNCHANGED <<inv, run, targets, next, last_code, proc>>
  BY DEF GInv, DocInv, LoopEnds, WriteAggregate, Rename, Exits, Loop
<1>2. ProcsInv' /\ CodesInv'
  <2>1. exit # 1
    BY <1>1 DEF GInv, EndInv, NoCode, Loop
  <2> QED
    BY <1>1, <2>1, SameProcesses DEF GInv
<1>3. TargetsInv'
  <2>1. pc' \notin {"discover", "for_run"}
    BY DEF LoopEnds, WriteAggregate, Rename, Exits
  <2>2. targets # <<>> /\ inv.test \subseteq Names(targets)
    BY <1>1 DEF GInv, TargetsInv
  <2> QED
    BY <1>1, <2>1, <2>2 DEF GInv, TargetsInv, Names
<1>4. DocInv'
  <2>1. CASE LoopEnds
    <3>1. CASE inv.junit /\ pc' = "writing" /\ tmp' = Document("torn")
      <4>1. PICK doc : doc = aggregate
        OBVIOUS
      <4>2. tmp'.run = run /\ tmp'.suites = doc
        BY <3>1, <4>1 DEF Document
      <4>3. /\ DOMAIN doc = DOMAIN targets
            /\ \A k \in DOMAIN targets : doc[k].exe = targets[k].exe
        BY <4>1 DEF aggregate, SuiteFrom
      <4>4. Len(doc) = Len(targets)
        <5>1. PICK N \in Nat : N = Len(targets)
          BY DEF GInv, TargetsInv
        <5>2. DOMAIN targets = 1 .. N
          BY <5>1 DEF GInv, TargetsInv
        <5>3. doc = [k \in 1 .. N |-> SuiteFrom(targets[k])]
          BY <4>1, <5>2 DEF aggregate
        <5>4. PICK s \in [1 .. N -> Range(doc)] : s = doc
          BY <5>3 DEF Range
        <5>5. s \in Seq(Range(doc)) /\ Len(s) = N
          OBVIOUS
        <5> QED
          BY <5>1, <5>4, <5>5
      <4> QED
        BY <1>1, <3>1, <4>2, <4>3, <4>4 DEF DocInv
    <3>2. CASE pc' = "exited"
      BY <3>2 DEF DocInv
    <3> QED
      BY <2>1, <3>1, <3>2 DEF LoopEnds, Exits
  <2>2. CASE WriteAggregate
    <3>1. /\ pc = "writing" /\ pc' = "written"
          /\ tmp' = [state |-> "whole", run |-> tmp.run, suites |-> tmp.suites]
      BY <2>2 DEF WriteAggregate
    <3>2. tmp'.state = "whole" /\ tmp'.run = tmp.run /\ tmp'.suites = tmp.suites
      BY <3>1
    <3> QED
      BY <1>1, <3>1, <3>2 DEF GInv, DocInv
  <2>3. CASE Rename
    BY <2>3 DEF Rename, Exits, DocInv
  <2> QED
    BY <2>1, <2>2, <2>3
<1>5. EndInv'
  <2>1. exit = NoCode
    BY <1>1 DEF GInv, EndInv, Loop
  <2>2. CASE LoopEnds
    <3>1. CASE pc' = "writing" /\ exit' = exit
      BY <2>1, <3>1 DEF EndInv
    <3>2. CASE ~inv.junit /\ pc' = "exited" /\ exit' = last_code
      BY <1>1, <3>2 DEF GInv, CodesInv, EndInv, NoCode
    <3> QED
      BY <2>2, <3>1, <3>2 DEF LoopEnds, Exits
  <2>3. CASE WriteAggregate
    BY <2>1, <2>3 DEF WriteAggregate, EndInv
  <2>4. CASE Rename
    <3>1. pc = "written" /\ pc' = "exited" /\ exit' = last_code /\ final' = tmp
      BY <2>4 DEF Rename, Exits
    <3> QED
      BY <1>1, <3>1 DEF GInv, DocInv, CodesInv, EndInv, NoCode
  <2> QED
    BY <2>2, <2>3, <2>4
<1> QED
  BY <1>2, <1>3, <1>4, <1>5 DEF GInv

LEMMA BinariesKeepG ==
  ASSUME GInv, Binaries
  PROVE  GInv'
<1>1. PICK q \in DOMAIN proc : BinaryStep(q)
  BY DEF Binaries
<1>2. PICK p \in Successors(proc[q]) : proc' = [proc EXCEPT ![q] = p]
  BY <1>1 DEF BinaryStep
<1>3. UNCHANGED <<inv, run, pc, targets, next, last_code, exit, tmp, final>>
  BY <1>1 DEF BinaryStep
<1>4. /\ proc[q].alive /\ proc[q].code = Killed
      /\ p.code \in {Killed, 0, 1, 2, 101} /\ (p.alive => p.code = Killed)
      /\ p.part \in {"none", "torn", "whole"}
  <2>1. proc[q].part \in {"none", "torn", "whole"} /\ (proc[q].alive => proc[q].code = Killed)
    BY DEF GInv, ProcsInv
  <2>2. proc[q].alive
    BY DEF Successors
  <2> QED
    BY <2>1, <2>2, Turns
<1>5. ASSUME NEW k \in DOMAIN targets, k < next
      PROVE  /\ <<run, targets[k].exe>> \in DOMAIN proc'
             /\ proc'[<<run, targets[k].exe>>] = proc[<<run, targets[k].exe>>]
  <2>1. /\ <<run, targets[k].exe>> \in DOMAIN proc
        /\ ~proc[<<run, targets[k].exe>>].alive
    BY <1>5 DEF GInv, ProcsInv
  <2>2. <<run, targets[k].exe>> # q
    BY <1>4, <2>1
  <2> QED
    BY <1>2, <2>1, <2>2
<1>6. DOMAIN proc' = DOMAIN proc /\ \A r \in DOMAIN proc : r # q => proc'[r] = proc[r]
  BY <1>2
<1>7. proc'[q] = p
  BY <1>2
<1>8. ProcsInv'
  <2>1. Pid' = Pid /\ \A k \in DOMAIN targets : Begun(k)' <=> Begun(k)
    BY <1>3 DEF Pid, Begun
  <2>2. ASSUME NEW r \in DOMAIN proc
        PROVE  /\ proc'[r].code \in {Killed, 0, 1, 2, 101}
               /\ proc'[r].part \in {"none", "torn", "whole"}
               /\ proc'[r].alive => proc'[r].code = Killed
    BY <1>4, <1>6, <1>7 DEF GInv, ProcsInv
  <2>3. \A k \in DOMAIN targets : k < next => ~proc'[<<run, targets[k].exe>>].alive
    BY <1>5 DEF GInv, ProcsInv
  <2> QED
    BY <1>3, <1>5, <1>6, <2>1, <2>2, <2>3 DEF GInv, ProcsInv
<1>9. CodesInv'
  <2>1. \A k \in DOMAIN targets : k < next => Code(k)' = Code(k)
    BY <1>3, <1>5 DEF Code
  <2> QED
    BY <1>3, <2>1, SameCodes DEF GInv
<1>10. TargetsInv' /\ DocInv' /\ EndInv'
  BY <1>3 DEF GInv, TargetsInv, DocInv, EndInv
<1> QED
  BY <1>8, <1>9, <1>10 DEF GInv

LEMMA KillKeepsG ==
  ASSUME GInv, Kill
  PROVE  GInv'
<1>1. /\ pc \notin {"exited", "killed"} /\ pc' = "killed"
      /\ UNCHANGED <<inv, run, targets, next, last_code, exit, tmp, final>>
  BY DEF Kill, Over
<1>2. /\ DOMAIN proc' = DOMAIN proc
      /\ \A q \in DOMAIN proc :
           /\ proc'[q].code = proc[q].code /\ proc'[q].part = proc[q].part
           /\ proc'[q].alive => proc[q].alive
  BY DEF Kill, Turned
<1>3. exit = NoCode
  BY <1>1 DEF GInv, EndInv
<1>4. TargetsInv'
  BY <1>1, <1>3 DEF GInv, TargetsInv, Loop, NoCode
<1>5. \A k \in DOMAIN targets : k < next => <<run, targets[k].exe>> \in DOMAIN proc
  BY DEF GInv, ProcsInv
<1>6. ProcsInv'
  <2>1. \A k \in DOMAIN targets : k < next => ~proc'[<<run, targets[k].exe>>].alive
    BY <1>2, <1>5 DEF GInv, ProcsInv
  <2> QED
    BY <1>1, <1>2, <2>1 DEF GInv, ProcsInv
<1>7. CodesInv'
  <2>1. \A k \in DOMAIN targets : k < next => Code(k)' = Code(k)
    BY <1>1, <1>2, <1>5 DEF Code
  <2> QED
    BY <1>1, <2>1, SameCodes DEF GInv
<1>8. DocInv' /\ EndInv'
  BY <1>1, <1>3 DEF DocInv, EndInv
<1> QED
  BY <1>4, <1>6, <1>7, <1>8 DEF GInv

LEMMA AgainKeepsG ==
  ASSUME GInv, Again
  PROVE  GInv'
<1>1. /\ run' = run + 1 /\ pc' = "discover" /\ targets' = <<>> /\ next' = 1
      /\ last_code' = 0 /\ exit' = NoCode
      /\ proc' = [q \in {r \in DOMAIN proc : proc[r].alive} |-> proc[q]]
  BY DEF Again, Starts
<1>2. Len(targets') = 0 /\ DOMAIN targets' = {}
  BY <1>1
<1>3. TargetsInv'
  BY <1>1, <1>2 DEF TargetsInv, Loop, NoCode
<1>4. ProcsInv'
  <2>1. run \in Nat \ {0} /\ run' \in Nat \ {0} /\ 1 .. run \subseteq 1 .. run' /\ run' \notin 1 .. run
    BY <1>1 DEF GInv, ProcsInv
  <2>2. \A q \in DOMAIN proc' : q \in DOMAIN proc /\ proc'[q] = proc[q]
    BY <1>1
  <2>3. \A q \in DOMAIN proc' :
          /\ q = <<q[1], q[2]>>
          /\ q[1] \in 1 .. run
          /\ proc'[q].code \in {Killed, 0, 1, 2, 101}
          /\ proc'[q].part \in {"none", "torn", "whole"}
          /\ proc'[q].alive => proc'[q].code = Killed
    BY <2>2 DEF GInv, ProcsInv
  <2> QED
    BY <1>1, <1>2, <2>1, <2>3 DEF ProcsInv
<1>5. CodesInv' /\ DocInv' /\ EndInv'
  BY <1>1, <1>2 DEF CodesInv, DocInv, EndInv
<1> QED
  BY <1>3, <1>4, <1>5 DEF GInv

LEMMA StepKeepsG == GInv /\ [Next]_vars => GInv'
<1> SUFFICES ASSUME GInv, [Next]_vars PROVE GInv'
  OBVIOUS
<1>1. CASE UNCHANGED vars
  BY <1>1, StillGInv DEF vars
<1>2. CASE discover_targets
  BY <1>2, DiscoverKeepsG
<1>3. CASE for_run
  BY <1>3, ForRunKeepsG
<1>4. CASE spawn_target
  BY <1>4, SpawnKeepsG
<1>5. CASE TargetExits
  BY <1>5, TargetExitsKeepsG
<1>6. CASE (LoopEnds \/ WriteAggregate \/ Rename) /\ ~Fails
  BY <1>6, DocumentKeepsG
<1>7. CASE (LoopEnds \/ FinalizeFails \/ WriteAggregate \/ Rename) /\ Fails
  <2>1. pc \in {"loop", "writing", "written"}
    BY <1>7 DEF LoopEnds, FinalizeFails, WriteAggregate, Rename
  <2> QED
    BY <1>7, <2>1, FailsKeepsG
<1>8. CASE Binaries
  BY <1>8, BinariesKeepG
<1>9. CASE Kill
  BY <1>9, KillKeepsG
<1>10. CASE Again
  BY <1>10, AgainKeepsG
<1>11. CASE StatusFails
  BY <1>11, FailsKeepsG DEF StatusFails
<1> QED
  BY <1>1, <1>2, <1>3, <1>4, <1>5, <1>6, <1>7, <1>8, <1>9, <1>10, <1>11
  DEF Next, Command, FinalizeFails

\* The invariant of the command, whatever outlives it when it is killed.
LEMMA GInvHolds == Spec => []GInv
<1>1. Init => GInv
  BY InitGInv
<1>2. GInv /\ [Next]_vars => GInv'
  BY StepKeepsG
<1> QED
  BY <1>1, <1>2, PTL DEF Spec

\* A red binary of the invocation makes its exit code red, and a code that is
\* not the command's own is the last red binary's, even where binaries outlive
\* a killed command (main.rs:131-137).
THEOREM NoRedIsHidden == Spec => []RedIsNeverHidden
<1>1. GInv => RedIsNeverHidden
  <2> SUFFICES ASSUME GInv, pc = "exited" PROVE RedIsNeverHidden
    BY DEF RedIsNeverHidden
  <2>1. CASE exit = 1
    BY <2>1 DEF RedIsNeverHidden
  <2>2. CASE exit # 1
    <3>1. exit = last_code /\ next > Len(targets)
      BY <2>2 DEF GInv, EndInv
    <3>2. /\ DOMAIN targets = 1 .. Len(targets) /\ Len(targets) \in Nat
          /\ next \in 1 .. Len(targets) + 1
      BY DEF GInv, TargetsInv
    <3>3. \A k \in DOMAIN targets : k < next /\ k \in Nat
      BY <3>1, <3>2
    <3>4. ASSUME NEW q \in DOMAIN proc, q[1] = run, proc[q].code # 0
          PROVE  exit # 0
      <4>1. PICK k \in DOMAIN targets : q[2] = targets[k].exe
        BY <2>2, <3>4 DEF GInv, ProcsInv
      <4>2. q = <<run, targets[k].exe>>
        BY <3>4, <4>1 DEF GInv, ProcsInv
      <4>3. Code(k) # 0
        BY <3>4, <4>2 DEF Code
      <4> QED
        BY <3>1, <3>3, <4>3 DEF GInv, CodesInv
    <3>5. ASSUME exit \in {2, 101}
          PROVE  \E k \in DOMAIN targets :
                    Code(k) = exit /\ \A j \in k + 1 .. Len(targets) : Code(j) = 0
      <4>1. PICK k \in DOMAIN targets :
              /\ Coded(k) = last_code
              /\ \A j \in DOMAIN targets : k < j /\ j < next => Code(j) = 0
        BY <3>1, <3>5 DEF GInv, CodesInv
      <4>2. Code(k) = exit
        BY <3>1, <3>5, <4>1 DEF Coded
      <4>3. \A j \in k + 1 .. Len(targets) : j \in DOMAIN targets /\ k < j /\ j < next
        BY <3>2, <3>3
      <4> QED
        BY <4>1, <4>2, <4>3
    <3> QED
      BY <3>4, <3>5 DEF RedIsNeverHidden
  <2> QED
    BY <2>1, <2>2
<1> QED
  BY <1>1, GInvHolds, PTL

\* junit.xml changes only to a whole document of the current run, with a suite
\* for each of its targets, after all of them have ended (junit.rs:69-84).
THEOREM TheDocumentIsReplacedWhole == Spec => ReplacedWhole
<1> DEFINE Replaced ==
      final' # final =>
          /\ final'.state = "whole"
          /\ final'.run = run
          /\ Len(final'.suites) = Len(targets)
          /\ \A k \in DOMAIN targets :
               /\ final'.suites[k].exe = targets[k].exe
               /\ ~proc[<<run, targets[k].exe>>].alive
<1>1. GInv /\ [Next]_vars => [Replaced]_vars
  <2> SUFFICES ASSUME GInv, Next, final' # final PROVE Replaced
    OBVIOUS
  <2>1. Rename /\ ~Fails
    BY DEF Next, Command, Binaries, BinaryStep, Kill, StatusFails, Again, discover_targets, for_run,
           spawn_target, TargetExits, LoopEnds, FinalizeFails, WriteAggregate, Rename, Fails
  <2>2. pc = "written" /\ final' = tmp
    BY <2>1 DEF Rename
  <2>3. /\ tmp.state = "whole" /\ tmp.run = run /\ next > Len(targets)
        /\ Len(tmp.suites) = Len(targets)
        /\ \A k \in DOMAIN targets : tmp.suites[k].exe = targets[k].exe
    BY <2>2 DEF GInv, DocInv
  <2>4. \A k \in DOMAIN targets : k < next
    BY <2>3 DEF GInv, TargetsInv
  <2>5. \A k \in DOMAIN targets : ~proc[<<run, targets[k].exe>>].alive
    BY <2>4 DEF GInv, ProcsInv
  <2> QED
    BY <2>2, <2>3, <2>5
<1>2. Spec => [][Replaced]_vars
  BY <1>1, GInvHolds, PTL DEF Spec
<1> QED
  BY <1>2 DEF ReplacedWhole

-----------------------------------------------------------------------------
(* The parts on disk, where a kill takes the binaries along                *)

IInv == KInv /\ GInv /\ DInv

\* A step that does not touch what DiskInv speaks of.
LEMMA SameDisk ==
  ASSUME DInv, UNCHANGED <<inv, run, targets, proc, part>>, pc \in Loop,
         \A k \in DOMAIN targets : Begun(k)' <=> Begun(k)
  PROVE  DiskInv'
BY DEF DInv, DiskInv

LEMMA InitDInv == Init => DInv
BY DEF Init, DInv, DiskInv, CompleteInv, Loop, NoCode

LEMMA FailsKeepsD ==
  ASSUME Fails
  PROVE  DInv'
BY DEF Fails, Exits, DInv, DiskInv, CompleteInv, Loop

\* The directory is clean when the loop begins.
LEMMA ForRunKeepsD ==
  ASSUME IInv, LoopBegins
  PROVE  DInv'
<1>1. /\ pc = "for_run" /\ pc' = "loop"
      /\ inv.junit => part' = NoParts
      /\ UNCHANGED <<inv, run, targets, next, last_code, exit, proc, final>>
  BY DEF LoopBegins
<1>2. next = 1 /\ \A k \in DOMAIN targets : ~(k < 1)
  BY <1>1 DEF IInv, GInv, TargetsInv
<1>3. \A k \in DOMAIN targets : ~Begun(k)'
  BY <1>1, <1>2 DEF Begun
<1>4. inv.junit => DOMAIN part' = {}
  BY <1>1 DEF NoParts
<1>5. DiskInv'
  BY <1>1, <1>3, <1>4 DEF DiskInv
<1>6. exit # 0
  BY <1>1 DEF IInv, GInv, EndInv, NoCode
<1>7. CompleteInv'
  BY <1>1, <1>6 DEF CompleteInv
<1> QED
  BY <1>5, <1>7 DEF DInv

LEMMA SpawnKeepsD ==
  ASSUME IInv, spawn_target, ~Fails
  PROVE  DInv'
<1>1. /\ pc = "loop" /\ pc' = "waiting" /\ next <= Len(targets)
      /\ UNCHANGED <<inv, run, targets, next, last_code, exit, final, part>>
  BY DEF spawn_target
<1>2. proc' = [q \in DOMAIN proc \cup {Pid} |->
                  IF q = Pid THEN Started(inv.junit, inv.only) ELSE proc[q]]
  BY DEF spawn_target
<1>3. next \in DOMAIN targets /\ ~Begun(next) /\ Pid = <<run, targets[next].exe>>
  BY <1>1 DEF IInv, GInv, TargetsInv, Begun, Pid
<1>4. PICK n \in DOMAIN targets : n = next
  BY <1>3
<1>5. PICK p : p = Started(inv.junit, inv.only)
  OBVIOUS
<1>6. /\ p.junit = inv.junit /\ p.only = inv.only /\ p.part = "none" /\ p.code = Killed
  BY <1>5 DEF Started
<1>7. proc'[<<run, targets[n].exe>>] = p
  BY <1>2, <1>3, <1>4, <1>5
<1>8. ASSUME NEW k \in DOMAIN targets, k # n
      PROVE  /\ Begun(k)' <=> Begun(k)
             /\ Begun(k) => proc'[<<run, targets[k].exe>>] = proc[<<run, targets[k].exe>>]
  <2>1. Begun(k) <=> k < next
    BY <1>4, <1>8 DEF Begun
  <2>2. Begun(k)' <=> k < next
    BY <1>1, <1>4, <1>8 DEF Begun
  <2>3. k < next => <<run, targets[k].exe>> \in DOMAIN proc
    BY DEF IInv, GInv, ProcsInv
  <2>4. targets[k].exe # targets[n].exe
    BY <1>8 DEF IInv, GInv, TargetsInv
  <2>5. <<run, targets[k].exe>> # Pid
    BY <1>3, <1>4, <2>4
  <2> QED
    BY <1>2, <2>1, <2>2, <2>3, <2>5
<1>9. inv.junit => targets[n].exe \notin DOMAIN part
  BY <1>1, <1>3, <1>4 DEF IInv, DInv, DiskInv, Loop
<1>10. Begun(n)'
  BY <1>1, <1>4 DEF Begun
<1>11. DiskInv'
  <2>1. ASSUME NEW k \in DOMAIN targets, Begun(k)'
        PROVE  LET s == proc'[<<run, targets[k].exe>>]
                   e == targets[k].exe
               IN  /\ s.junit = inv.junit /\ s.only = inv.only
                   /\ inv.junit =>
                        IF s.part = "none" THEN e \notin DOMAIN part
                        ELSE e \in DOMAIN part /\ part[e] = [state |-> s.part, run |-> run]
                   /\ s.code = 0 /\ inv.junit /\ ~inv.only => s.part = "whole"
    <3>1. CASE k = n
      BY <1>6, <1>7, <1>9, <3>1 DEF Killed
    <3>2. CASE k # n
      BY <1>1, <1>8, <2>1, <3>2 DEF IInv, DInv, DiskInv, Loop
    <3> QED
      BY <3>1, <3>2
  <2>2. ASSUME NEW k \in DOMAIN targets, inv.junit, ~(Begun(k)')
        PROVE  targets[k].exe \notin DOMAIN part
    <3>1. k # n
      BY <1>10, <2>2
    <3> QED
      BY <1>1, <1>8, <2>2, <3>1 DEF IInv, DInv, DiskInv, Loop
  <2> QED
    BY <1>1, <2>1, <2>2 DEF DiskInv
<1>12. exit # 0
  BY <1>1 DEF IInv, GInv, EndInv, NoCode
<1>13. CompleteInv'
  BY <1>1, <1>12 DEF CompleteInv
<1> QED
  BY <1>11, <1>13 DEF DInv

LEMMA TargetExitsKeepsD ==
  ASSUME IInv, TargetExits
  PROVE  DInv'
<1>1. /\ pc = "waiting" /\ pc' = "loop" /\ next' = next + 1
      /\ UNCHANGED <<inv, run, targets, exit, proc, part, tmp, final>>
  BY DEF TargetExits
<1>2. \A k \in DOMAIN targets : k \in Nat /\ next \in Nat
  BY DEF IInv, GInv, TargetsInv
<1>3. \A k \in DOMAIN targets : Begun(k)' <=> Begun(k)
  BY <1>1, <1>2 DEF Begun
<1>4. DiskInv'
  BY <1>1, <1>3, SameDisk DEF IInv, Loop
<1>5. exit # 0
  BY <1>1 DEF IInv, GInv, EndInv, NoCode
<1>6. CompleteInv'
  BY <1>1, <1>5 DEF CompleteInv
<1> QED
  BY <1>4, <1>6 DEF DInv

\* Green binaries have left whole parts, which the aggregate is made of.
LEMMA GreenPartsAreThere ==
  ASSUME IInv, pc = "loop", next > Len(targets), inv.junit, ~inv.only, last_code = 0,
         NEW k \in DOMAIN targets
  PROVE  SuiteFrom(targets[k]).from # Missing
<1>1. k < next
  BY DEF IInv, GInv, TargetsInv
<1>2. Code(k) = 0 /\ Begun(k)
  BY <1>1 DEF IInv, GInv, CodesInv, Begun
<1>3. PICK e : e = targets[k].exe
  OBVIOUS
<1>4. PICK p : p = proc[<<run, e>>]
  OBVIOUS
<1>5. p.part = "whole" /\ e \in DOMAIN part /\ part[e] = [state |-> p.part, run |-> run]
  BY <1>2, <1>3, <1>4 DEF IInv, DInv, DiskInv, Loop, Code
<1>6. part[e].state = "whole" /\ part[e].run = run
  BY <1>5
<1>7. run # Missing
  BY DEF IInv, GInv, ProcsInv, Missing
<1> QED
  BY <1>3, <1>5, <1>6, <1>7 DEF SuiteFrom

LEMMA DocumentKeepsD ==
  ASSUME IInv, LoopEnds \/ WriteAggregate \/ Rename, ~Fails
  PROVE  DInv'
<1>1. /\ pc \in Loop /\ pc # "waiting" /\ pc' # "waiting" /\ next > Len(targets)
      /\ UNCHANGED <<inv, run, targets, next, last_code, proc, part>>
  BY DEF IInv, GInv, DocInv, LoopEnds, WriteAggregate, Rename, Exits, Loop
<1>2. DiskInv'
  <2>1. \A k \in DOMAIN targets : Begun(k)' <=> Begun(k)
    BY <1>1 DEF Begun
  <2> QED
    BY <1>1, <2>1, SameDisk DEF IInv
<1>3. exit = NoCode
  BY <1>1 DEF IInv, GInv, EndInv, Loop
<1>4. CompleteInv'
  <2>1. CASE LoopEnds
    <3>1. CASE inv.junit /\ pc' = "writing" /\ tmp' = Document("torn") /\ exit' = exit
      <4>1. tmp'.suites = aggregate
        BY <3>1 DEF Document
      <4>2. ASSUME last_code = 0, ~inv.only
            PROVE  \A k \in DOMAIN aggregate : aggregate[k].from # Missing
        BY <1>1, <2>1, <3>1, <4>2, GreenPartsAreThere DEF aggregate, LoopEnds
      <4>3. last_code = 0 /\ ~inv.only => Complete(tmp')
        BY <4>1, <4>2 DEF Complete
      <4> QED
        BY <1>1, <1>3, <3>1, <4>3 DEF CompleteInv, NoCode, Complete
    <3>2. CASE ~inv.junit /\ pc' = "exited"
      BY <1>1, <3>2 DEF CompleteInv
    <3> QED
      BY <2>1, <3>1, <3>2 DEF LoopEnds, Exits
  <2>2. CASE WriteAggregate
    <3>1. /\ pc = "writing" /\ exit' = exit
          /\ tmp' = [state |-> "whole", run |-> tmp.run, suites |-> tmp.suites]
      BY <2>2 DEF WriteAggregate
    <3>2. tmp'.suites = tmp.suites
      BY <3>1
    <3> QED
      BY <1>1, <1>3, <3>1, <3>2 DEF IInv, DInv, CompleteInv, Complete, NoCode
  <2>3. CASE Rename
    <3>1. pc = "written" /\ pc' = "exited" /\ exit' = last_code /\ final' = tmp
      BY <2>3 DEF Rename, Exits
    <3> QED
      BY <1>1, <3>1 DEF IInv, DInv, CompleteInv, Complete
  <2> QED
    BY <2>1, <2>2, <2>3
<1> QED
  BY <1>2, <1>4 DEF DInv

\* A binary writes its own part file and no other one.
LEMMA BinariesKeepD ==
  ASSUME IInv, Binaries
  PROVE  DInv'
<1>1. PICK q \in DOMAIN proc : BinaryStep(q)
  BY DEF Binaries
<1>2. PICK p \in Successors(proc[q]) :
        /\ proc' = [proc EXCEPT ![q] = p]
        /\ IF p.part = proc[q].part THEN UNCHANGED part ELSE part' \in Lands(q, p.part)
  BY <1>1 DEF BinaryStep
<1>3. UNCHANGED <<inv, run, pc, targets, next, last_code, exit, tmp, final>>
  BY <1>1 DEF BinaryStep
<1>4. proc[q].part \in {"none", "torn", "whole"} /\ (proc[q].alive => proc[q].code = Killed)
  BY DEF IInv, GInv, ProcsInv
<1>5. PICK old : old = proc[q]
  OBVIOUS
<1>6. /\ old.alive /\ old.code = Killed
      /\ p.junit = old.junit /\ p.only = old.only
      /\ p.part # old.part =>
           /\ old.junit /\ p.code = old.code
           /\ \/ old.part = "none" /\ p.part = "torn"
              \/ old.part = "torn" /\ p.part = "whole"
      /\ p.code = 0 /\ old.junit /\ ~old.only => p.part = "whole"
  <2>1. old.alive /\ old.code = Killed
    BY <1>2, <1>4, <1>5 DEF Successors
  <2>2. p \in Successors(old) /\ old.part \in {"none", "torn", "whole"}
    BY <1>2, <1>4, <1>5
  <2> QED
    BY <2>1, <2>2, Turns DEF Killed
<1>7. pc = "waiting" /\ q = Pid
  BY <1>5, <1>6 DEF IInv, KInv, AliveInv
<1>8. PICK n \in DOMAIN targets : n = next
  BY <1>7 DEF IInv, GInv, ProcsInv
<1>9. PICK e : e = targets[n].exe
  OBVIOUS
<1>10. q = <<run, e>> /\ q[1] = run /\ q[2] = e /\ Begun(n)
  BY <1>7, <1>8, <1>9 DEF Pid, Begun
<1>11. /\ old.junit = inv.junit /\ old.only = inv.only
       /\ inv.junit =>
            IF old.part = "none" THEN e \notin DOMAIN part
            ELSE e \in DOMAIN part /\ part[e] = [state |-> old.part, run |-> run]
       /\ old.code = 0 /\ inv.junit /\ ~inv.only => old.part = "whole"
  BY <1>5, <1>7, <1>9, <1>10 DEF IInv, DInv, DiskInv, Loop
<1>12. proc'[<<run, e>>] = p
  BY <1>2, <1>10
\* What became of the file the binary writes, and of every other one.
<1>13. /\ inv.junit =>
            IF p.part = "none" THEN e \notin DOMAIN part'
            ELSE e \in DOMAIN part' /\ part'[e] = [state |-> p.part, run |-> run]
       /\ \A f : f # e => (f \in DOMAIN part' <=> f \in DOMAIN part)
       /\ \A f \in DOMAIN part : f # e => part'[f] = part[f]
  <2>1. CASE p.part = old.part
    <3>1. part' = part
      BY <1>2, <1>5, <2>1
    <3> QED
      BY <1>11, <2>1, <3>1
  <2>2. CASE p.part # old.part
    <3> DEFINE mine == [state |-> p.part, run |-> q[1]]
               Put  == [f \in DOMAIN part \cup {q[2]} |-> IF f = q[2] THEN mine ELSE part[f]]
    <3>1. part' \in Lands(q, p.part)
      BY <1>2, <1>5, <2>2
    <3>2. inv.junit /\ p.part # "none"
      BY <1>6, <1>11, <2>2
    <3>3. part' = Put
      <4>1. CASE p.part = "torn"
        BY <3>1, <4>1 DEF Lands
      <4>2. CASE p.part = "whole"
        <5>1. old.part = "torn"
          BY <1>6, <2>2, <4>2
        <5>2. e \in DOMAIN part /\ part[e] = [state |-> "torn", run |-> run]
          BY <1>11, <3>2, <5>1
        <5>3. part[e].run = run
          BY <5>2
        <5> QED
          BY <1>10, <3>1, <4>2, <5>2, <5>3 DEF Lands
      <4> QED
        BY <1>6, <2>2, <4>1, <4>2
    <3>4. /\ e \in DOMAIN Put /\ Put[e] = [state |-> p.part, run |-> run]
          /\ \A f : f # e => (f \in DOMAIN Put <=> f \in DOMAIN part)
          /\ \A f \in DOMAIN part : f # e => Put[f] = part[f]
      BY <1>10
    <3> QED
      BY <3>2, <3>3, <3>4
  <2> QED
    BY <2>1, <2>2
<1>14. \A k \in DOMAIN targets : Begun(k)' <=> Begun(k)
  BY <1>3 DEF Begun
<1>15. ASSUME NEW k \in DOMAIN targets, k # n
       PROVE  /\ targets[k].exe # e
              /\ Begun(k) =>
                   /\ <<run, targets[k].exe>> \in DOMAIN proc
                   /\ proc'[<<run, targets[k].exe>>] = proc[<<run, targets[k].exe>>]
  <2>1. targets[k].exe # e
    BY <1>9, <1>15 DEF IInv, GInv, TargetsInv
  <2>2. <<run, targets[k].exe>> # q
    BY <1>10, <2>1
  <2>3. Begun(k) => <<run, targets[k].exe>> \in DOMAIN proc
    <3>1. Begun(k) => k < next
      BY <1>8, <1>15 DEF Begun
    <3> QED
      BY <3>1 DEF IInv, GInv, ProcsInv
  <2> QED
    BY <1>2, <2>1, <2>2, <2>3
<1>16. DiskInv'
  <2>1. ASSUME NEW k \in DOMAIN targets, Begun(k)
        PROVE  LET s == proc'[<<run, targets[k].exe>>]
                   f == targets[k].exe
               IN  /\ s.junit = inv.junit /\ s.only = inv.only
                   /\ inv.junit =>
                        IF s.part = "none" THEN f \notin DOMAIN part'
                        ELSE f \in DOMAIN part' /\ part'[f] = [state |-> s.part, run |-> run]
                   /\ s.code = 0 /\ inv.junit /\ ~inv.only => s.part = "whole"
    <3>1. CASE k = n
      BY <1>6, <1>9, <1>11, <1>12, <1>13, <3>1
    <3>2. CASE k # n
      BY <1>7, <1>13, <1>15, <2>1, <3>2 DEF IInv, DInv, DiskInv, Loop
    <3> QED
      BY <3>1, <3>2
  <2>2. ASSUME NEW k \in DOMAIN targets, inv.junit, ~Begun(k)
        PROVE  targets[k].exe \notin DOMAIN part'
    <3>1. k # n
      BY <1>10, <2>2
    <3> QED
      BY <1>7, <1>13, <1>15, <2>2, <3>1 DEF IInv, DInv, DiskInv, Loop
  <2> QED
    BY <1>3, <1>14, <2>1, <2>2 DEF DiskInv
<1>17. CompleteInv'
  BY <1>3 DEF IInv, DInv, CompleteInv, Complete
<1> QED
  BY <1>16, <1>17 DEF DInv

LEMMA StillDInv ==
  ASSUME DInv, UNCHANGED vars
  PROVE  DInv'
<1>1. DiskInv'
  BY DEF DInv, DiskInv, Begun, vars
<1>2. CompleteInv'
  BY DEF DInv, CompleteInv, Complete, vars
<1> QED
  BY <1>1, <1>2 DEF DInv

\* Outside the loop nothing is said of the parts.
LEMMA OtherKeepsD ==
  ASSUME IInv, (discover_targets /\ ~Fails) \/ OnePartGoes \/ Kill \/ Again
  PROVE  DInv'
<1>1. pc' \notin Loop /\ pc' # "writing" /\ pc' # "written"
  BY DEF discover_targets, OnePartGoes, Kill, Again, Starts, Loop
<1>2. exit' # 0
  <2>1. CASE Again
    BY <2>1 DEF Again, Starts, NoCode
  <2>2. CASE (discover_targets /\ ~Fails) \/ OnePartGoes \/ Kill
    <3>1. exit' = exit /\ pc # "exited"
      BY <2>2 DEF discover_targets, OnePartGoes, Kill, Over
    <3> QED
      BY <3>1 DEF IInv, GInv, EndInv, NoCode
  <2> QED
    BY <2>1, <2>2
<1> QED
  BY <1>1, <1>2 DEF DInv, DiskInv, CompleteInv

LEMMA StepKeepsI ==
  ASSUME OrphansSurvive = FALSE
  PROVE  IInv /\ [Next]_vars => IInv'
<1> SUFFICES ASSUME IInv, [Next]_vars PROVE IInv'
  OBVIOUS
<1>1. KInv'
  <2>1. CASE UNCHANGED vars
    BY <2>1, StillKInv DEF IInv, vars
  <2>2. CASE Command
    BY <2>2, CommandKeeps DEF IInv
  <2>3. CASE Binaries
    BY <2>3, BinariesKeep DEF IInv
  <2>4. CASE Kill \/ StatusFails \/ Again
    BY <2>4, EnvironmentKeeps DEF IInv
  <2> QED
    BY <2>1, <2>2, <2>3, <2>4 DEF Next
<1>2. GInv'
  BY StepKeepsG DEF IInv
<1>3. DInv'
  <2>1. CASE UNCHANGED vars
    BY <2>1, StillDInv DEF IInv
  <2>2. CASE Fails
    BY <2>2, FailsKeepsD
  <2>3. CASE Kill \/ Again \/ OnePartGoes \/ (discover_targets /\ ~Fails)
    BY <2>3, OtherKeepsD
  <2>4. CASE LoopBegins
    BY <2>4, ForRunKeepsD
  <2>5. CASE spawn_target /\ ~Fails
    BY <2>5, SpawnKeepsD
  <2>6. CASE TargetExits
    BY <2>6, TargetExitsKeepsD
  <2>7. CASE (LoopEnds \/ WriteAggregate \/ Rename) /\ ~Fails
    BY <2>7, DocumentKeepsD
  <2>8. CASE Binaries
    BY <2>8, BinariesKeepD
  <2> QED
    BY <2>1, <2>2, <2>3, <2>4, <2>5, <2>6, <2>7, <2>8, ForRunSteps
    DEF Next, Command, FinalizeFails, StatusFails
<1> QED
  BY <1>1, <1>2, <1>3 DEF IInv

\* What a green command stands for, where a kill takes the binaries along: it
\* had targets, one for every name, all of them ran and were green, and the
\* document asked for is this run's and complete (main.rs:127-144, 157-184).
THEOREM GreenIsGreen ==
  ASSUME OrphansSurvive = FALSE
  PROVE  Spec => []GreenMeansGreen
<1>1. Init => IInv
  BY InitKInv, InitGInv, InitDInv DEF IInv
<1>2. IInv /\ [Next]_vars => IInv'
  BY StepKeepsI
<1>3. IInv => GreenMeansGreen
  <2> SUFFICES ASSUME IInv, exit = 0 PROVE GreenMeansGreen
    BY DEF GreenMeansGreen
  <2>1. /\ last_code = 0 /\ next > Len(targets) /\ (inv.junit => final.run = run)
    BY DEF IInv, GInv, EndInv, NoCode
  <2>2. targets # <<>> /\ inv.test \subseteq Names(targets)
    BY DEF IInv, GInv, TargetsInv
  <2>3. \A k \in DOMAIN targets : k < next
    BY <2>1 DEF IInv, GInv, TargetsInv
  <2>4. \A k \in DOMAIN targets : <<run, targets[k].exe>> \in DOMAIN proc /\ Code(k) = 0
    BY <2>1, <2>3 DEF IInv, GInv, ProcsInv, CodesInv
  <2>5. inv.junit /\ ~inv.only => \A k \in DOMAIN final.suites : final.suites[k].from # Missing
    BY DEF IInv, DInv, CompleteInv, Complete
  <2> QED
    BY <2>1, <2>2, <2>4, <2>5 DEF GreenMeansGreen
<1> QED
  BY <1>1, <1>2, <1>3, PTL DEF Spec
=============================================================================
