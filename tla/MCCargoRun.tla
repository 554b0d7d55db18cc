----------------------------- MODULE MCCargoRun -----------------------------
(***************************************************************************)
(* Instances of CargoRun for model checking: two packages with a test      *)
(* target of the same name, in the midst of other lines of the build.      *)
(***************************************************************************)
EXTENDS CargoRun

Line(reason, kind, name, exe) ==
    [reason |-> reason, kind |-> kind, name |-> name, exe |-> exe]

MCBuilds ==
    {<<Line("build-script-executed", {}, "b", NoExe),
       Line("compiler-artifact", {"test"}, "suite", "a"),
       Line("compiler-artifact", {"lib"}, "suite", "a"),
       Line("compiler-artifact", {"test"}, "suite", "b")>>,
     <<Line("compiler-artifact", {"test"}, "none", NoExe)>>}

MCInvocations == {[junit |-> TRUE,  only |-> FALSE, test |-> {"suite"}],
                  [junit |-> TRUE,  only |-> TRUE,  test |-> {}],
                  [junit |-> FALSE, only |-> FALSE, test |-> {"other"}],
                  [junit |-> FALSE, only |-> FALSE, test |-> {}]}
=============================================================================
