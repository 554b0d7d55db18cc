------------------------------- MODULE MCChild -------------------------------
(***************************************************************************)
(* Instances of Child for model checking.                                  *)
(***************************************************************************)
EXTENDS Child

Param(name) == [self |-> FALSE, case |-> FALSE, values |-> {}, type |-> "T",
                ident |-> TRUE, name |-> name]
Ctx          == [Param(<<"ctx">>) EXCEPT !.type = "ctx"]
CaseParam    == [Param(<<"c">>) EXCEPT !.case = TRUE]
ValuesOf(vs) == [Param(<<"v">>) EXCEPT !.values = {vs}]

Flags(fs) == [parses |-> TRUE, metas |-> fs]
Flag(f, v) == [flag |-> f, value |-> v]
Row(label, vs) == [label |-> label, values |-> vs]

Function(name, module, params) ==
    [name |-> <<name>>, module |-> module, attr |-> Flags(<<>>),
     ret |-> [shape |-> "Result", err |-> "Named"], params |-> params, rows |-> <<>>]

Declaration == [async |-> TRUE, ret |-> [shape |-> "Result"], params |-> <<"ctx">>,
                attr |-> {"teardown"}]
Program(fs) == [functions |-> fs, global_setup |-> TRUE,
                fixtures |-> [x \in {<<"a">>, <<"b">>, <<"_", "c">>} |->
                                 IF x = <<"a">> THEN [Declaration EXCEPT !.params = <<>>]
                                 ELSE Declaration]]

\* Three fixtures with and without a pattern, one named with its underscore
\* doubled; rows with and without a label against two lists of values; a list
\* that repeats a value; the same name in two modules; and a function for every
\* reason to be rejected.
ThreeFixtures == <<Param(<<"a">>), Ctx, Param(<<"_", "b">>), Param(<<"_", "_", "c">>)>>
Matcher       == Flags(<<Flag("retries", 1), Flag("retry_on_error", "pattern")>>)
Table ==
    [Function("t", "m", <<CaseParam, ValuesOf(<< <<"1">>, <<"-", "1">> >>), CaseParam,
                          ValuesOf(<< <<"M", "::", "x">>, <<"-">>, <<"1">> >>)>>)
       EXCEPT !.rows = <<Row({}, << <<"1">>, <<"2">> >>), Row({"l"}, << <<"2">>, <<"1">> >>)>>]
Plain == Function("t", "m", <<>>)
Twice == Function("t", "m", <<ValuesOf(<< <<"1">>, <<"2">>, <<"1">> >>)>>)

Accepted == {
    <<Function("t", "m", ThreeFixtures)>>,
    <<[Function("t", "m", ThreeFixtures) EXCEPT !.attr = Matcher]>>,
    <<Table>>, <<Twice>>,
    <<Plain, Function("t", "n", <<Param(<<"b">>)>>), Function("u", "m", <<Ctx>>)>>,
    <<[Plain EXCEPT !.attr = [Flags(<<Flag("serial", "exclusive")>>) EXCEPT !.parses = FALSE]]>>}

RejectedFlags == {
    <<Flag("serial", "not_a_string")>>,
    <<Flag("retries", 1), Flag("retry_on_error", "not_a_pattern")>>,
    <<Flag("tags", {"smoke"}), Flag("tags", {"a b"})>>,
    <<Flag("no_timeout", "none"), Flag("timeout", "10")>>}
RejectedParams == {
    <<[Ctx EXCEPT !.self = TRUE]>>, <<ValuesOf(<<>>)>>, <<[Ctx EXCEPT !.case = TRUE, !.values = {<<>>}]>>,
    <<[Param(<<"a">>) EXCEPT !.ident = FALSE]>>, <<Ctx, Ctx>>,
    <<Param(<<"a">>), Param(<<"_", "a">>)>>, <<Param(<<"d">>)>>, <<CaseParam>>}
Refused ==
    {[Plain EXCEPT !.attr = Flags(fs)] : fs \in RejectedFlags}
      \cup {[Plain EXCEPT !.params = ps] : ps \in RejectedParams}
      \cup {[Plain EXCEPT !.attr = Matcher, !.ret.err = "BoxError"],
            [Table EXCEPT !.rows = Append(@, Row({}, << <<"3">> >>))],
            [Plain EXCEPT !.rows = <<Row({}, << <<"1">> >>)>>]}

MCPrograms == {Program(fs) : fs \in Accepted} \cup {Program(<<f>>) : f \in Refused}
=============================================================================
