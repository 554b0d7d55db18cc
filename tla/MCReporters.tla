----------------------------- MODULE MCReporters ----------------------------
(***************************************************************************)
(* Instances of Reporters for model checking.                              *)
(***************************************************************************)
EXTENDS Reporters

CONSTANTS p, q, s, bare, own

\* p and q have one bare name in two modules; s runs alone.
RCases     == {p, q, s}
RSerial    == {s}
RGroupOf   == [t \in RCases |-> NoGroup]
RNameOf    == [t \in RCases |-> IF t = s THEN own ELSE bare]
RRetries   == [t \in RCases |-> IF t = s THEN 1 ELSE 2]
ROwnTimeout == {q}
RMatcher   == {p}
REndingsOf ==
    [t \in RCases |->
       CASE t = p -> {"ok", "err_match", "panic"}
         [] t = q -> {"ok", "skip", "hang", "err_match"}
         [] t = s -> {"ok", "spawn_err"}]
RMayPanic  == IF Tty THEN {} ELSE {q, s}
=============================================================================
