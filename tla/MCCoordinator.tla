--------------------------- MODULE MCCoordinator ---------------------------
(***************************************************************************)
(* An instance of Coordinator for model checking.                          *)
(***************************************************************************)
EXTENDS Coordinator, TLC

CONSTANTS smoke, lone      \* a parallel case with a tag, a serial case without one

MCTagsOf == (smoke :> {"smoke"}) @@ (lone :> {})

MCDeclarable ==
    {[method |-> "tcp", name |-> <<"db">>, target |-> "x"],
     [method |-> "custom", name |-> <<"db">>, target |-> "none"]}

\* What the command line selects, and how many permits there are.
Selections ==
    {[filter |-> FALSE, tag |-> {},            not_tag |-> {},        no_capture |-> FALSE, jobs |-> 1],
     [filter |-> FALSE, tag |-> {"", "smoke"}, not_tag |-> {},        no_capture |-> TRUE,  jobs |-> 0],
     [filter |-> TRUE,  tag |-> {""},          not_tag |-> {"smoke"}, no_capture |-> FALSE, jobs |-> 1],
     [filter |-> FALSE, tag |-> {""},          not_tag |-> {},        no_capture |-> FALSE, jobs |-> 0]}

Gates == [no_preflight : BOOLEAN, preflight_only : BOOLEAN,
          continue_on_preflight_failure : BOOLEAN,
          reporter : {"none", "junit", "unknown"}]

MCInvocations == {g @@ q : g \in Gates, q \in Selections}

Registered(setup, teardown, duplicate, fits) ==
    [setup |-> setup, teardown |-> teardown, duplicate |-> duplicate,
     teardown_fits |-> fits]

MCRegistries ==
    {Registered(FALSE, FALSE, FALSE, TRUE), Registered(TRUE, TRUE, FALSE, TRUE),
     Registered(FALSE, TRUE, FALSE, FALSE), Registered(TRUE, FALSE, TRUE, TRUE)}
=============================================================================
