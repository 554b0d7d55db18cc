---------------------------- MODULE MCPreflight ----------------------------
(***************************************************************************)
(* Instances of Preflight for model checking.                              *)
(***************************************************************************)
EXTENDS Preflight

Call(m, n, t) == [method |-> m, name |-> n, target |-> t]

\* One name in two types, twice in one type with two targets (or the same),
\* two custom probes, one probe of every other type, and a name written like a
\* generated one.
MCDeclarable ==
    {Call("tcp", <<"db">>, "x"), Call("tcp", <<"db">>, "y"),
     Call("http", <<"db">>, "u"), Call("custom", <<"db">>, "none"),
     Call("env", <<"v">>, "V"), Call("ssh", <<"v">>, "h"),
     Call("dns", <<"h">>, "h"), Call("custom", <<"db", "(", "tcp", ")">>, "none")}
MCModifiers == {"timeout", "equals", "expect_status", "header", "command"}
=============================================================================
