----------------------------- MODULE MCExecutor -----------------------------
(***************************************************************************)
(* Instances of Executor for model checking.                               *)
(***************************************************************************)
EXTENDS Executor

CONSTANTS a1, a2, f, g, s, group, other

\* a1 and a2 share a group, g is alone in another one, f has none, s is
\* exclusive: three of them could run at once, one more than the two jobs admit.
MCCases  == {a1, a2, f, g, s}
MCSerial == {s}
MCGroupOf == [t \in MCCases |-> CASE t \in {a1, a2} -> group
                                  [] t = g -> other
                                  [] OTHER -> NoGroup]
MCRetries == [t \in MCCases |-> CASE t \in {a2, g} -> 0 [] t = f -> 2 [] OTHER -> 1]
MCOwnTimeout == {a2}
MCMatcher == {a1}
MCEndingsOf ==
    [t \in MCCases |->
       CASE t = a1 -> {"err_match", "err_other", "panic", "signal"}
         [] t = a2 -> {"ok", "hang"}
         [] t = f  -> {"ok", "skip", "panic"}
         [] t = g  -> {"ok"}
         [] t = s  -> {"ok", "spawn_err"}]
MCNoisy == {a1}
MCMayPanic == {f, s}
=============================================================================
