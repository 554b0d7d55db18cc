--------------------------- MODULE BinaryContract ---------------------------
(***************************************************************************)
(* What cargo-rigtest may count on from one test binary it has started:    *)
(* the part file the binary leaves behind, which is torn while it is being *)
(* written, and how the process ends.                                      *)
(*                                                                         *)
(* Abstracted from orchestrator.rs (run), junit.rs (write) and lib.rs      *)
(* (run_main).  The relation is between two states of the process as a     *)
(* whole, so that one module can use it for several processes.             *)
(***************************************************************************)
EXTENDS Integers

Killed == -1              \* the process has no exit code

\* A process: whether it was asked for a document and for no more than the
\* preflight, whether it runs, its exit code, and its part file.
Processes == [junit : BOOLEAN, only : BOOLEAN, alive : BOOLEAN,
              code : {Killed, 0, 1, 2, 101}, part : {"none", "torn", "whole"}]

Started(junit, only) ==
    [junit |-> junit, only |-> only, alive |-> TRUE, code |-> Killed, part |-> "none"]

\* The process p, with the parts that may change.
Turned(p, alive, code, part) ==
    [junit |-> p.junit, only |-> p.only, alive |-> alive, code |-> code, part |-> part]

\* A document is written over, never taken away, and only if it was asked for.
Writes(p) ==
    IF ~p.junit \/ p.only THEN {}
    ELSE CASE p.part = "none"  -> {Turned(p, p.alive, p.code, "torn")}
           [] p.part = "torn"  -> {Turned(p, p.alive, p.code, "whole")}
           [] p.part = "whole" -> {}

\* A green exit promises the document; any other one promises nothing.
Ends(p) ==
    {Turned(p, FALSE, c, p.part) : c \in {Killed, 1, 2, 101} \cup
              (IF p.junit /\ ~p.only /\ p.part # "whole" THEN {} ELSE {0})}

Successors(p) == IF p.alive THEN Writes(p) \cup Ends(p) ELSE {}
=============================================================================
