------------------------------- MODULE Testcase -------------------------------
(***************************************************************************)
(* The expansion of #[testcase] and #[fixture] (rigtest-macros): from an   *)
(* annotated function, as parsed, to the test cases it registers or to a   *)
(* compile error.                                                          *)
(*                                                                         *)
(* An optional part is a set of at most one element.  A name is a sequence *)
(* of words: an underscore in front is a word of its own, and so are the   *)
(* parts of a generated suffix.  Diagnostics are left out: a function with *)
(* several mistakes is rejected for one of them.                           *)
(***************************************************************************)
EXTENDS Integers, Sequences, FiniteSets, SequencesExt, Subsequences

-----------------------------------------------------------------------------
(* Flags                                                                   *)

Given(metas, flag) == {k \in DOMAIN metas : metas[k].flag = flag}

\* The value of the last occurrence.
Value(metas, flag) ==
    {metas[k].value : k \in {j \in Given(metas, flag) :
                                \A i \in Given(metas, flag) : i <= j}}

parse_tags(value) == value \in SUBSET {"smoke", "slow"}

\* A value no occurrence of the flag may have.
BadFlags(metas) ==
    \/ \E k \in Given(metas, "serial")         : metas[k].value = "not_a_string"
    \/ \E k \in Given(metas, "retry_on_error") : metas[k].value = "not_a_pattern"
    \/ \E k \in Given(metas, "tags")           : ~parse_tags(metas[k].value)
    \/ Given(metas, "no_timeout") # {} /\ Given(metas, "timeout") # {}

\* A list that does not parse counts as empty, an unknown flag as nothing.
Metas(attr) == IF attr.parses THEN attr.metas ELSE <<>>

parse_spec(attr) ==
    LET metas == Metas(attr)
    IN  [serial     |-> Value(metas, "serial"),
         timeout    |-> Given(metas, "timeout") # {},
         no_timeout |-> Given(metas, "no_timeout") # {},
         retries    |-> Value(metas, "retries"),
         matcher    |-> Given(metas, "retry_on_error") # {},
         tags       |-> UNION Value(metas, "tags")]

\* Result<_, E> with a named E, none of the spellings of a boxed error.
Matchable(ret) == ret.shape = "Result" /\ ret.err \notin {"Box<dyn Error>", "Error", "BoxError"}

-----------------------------------------------------------------------------
(* Parameters                                                              *)

\* One leading underscore is not part of the fixture's name.
fixture_target(name) ==
    IF Len(name) > 1 /\ Head(name) = "_" /\ Tail(name) # <<"_">> THEN Tail(name) ELSE name

Is(p, kind) ==
    CASE kind = "Case"    -> p.case
      [] kind = "Values"  -> p.values # {}
      [] kind = "Ctx"     -> ~p.case /\ p.values = {} /\ p.type = "ctx"
      [] kind = "Fixture" -> ~p.case /\ p.values = {} /\ p.type # "ctx"

Of(params, kind) == Subsequence(params, {k \in DOMAIN params : Is(params[k], kind)})

\* A check for aliases that forgets the underscore.
fixturesTwiceVerbatim(params) ==
    \E i, j \in DOMAIN Of(params, "Fixture") :
        i < j /\ Of(params, "Fixture")[i].name = Of(params, "Fixture")[j].name

FixturesTwice(params) ==
    \E i, j \in DOMAIN Of(params, "Fixture") :
        /\ i < j
        /\ fixture_target(Of(params, "Fixture")[i].name)
             = fixture_target(Of(params, "Fixture")[j].name)

BadParams(params) ==
    \/ \E k \in DOMAIN params :
         LET p == params[k]
         IN  \/ p.self
             \/ p.values = {<<>>}
             \/ p.case /\ p.values # {}
             \/ Is(p, "Fixture") /\ ~p.ident
    \/ Len(Of(params, "Ctx")) > 1
    \/ FixturesTwice(params)

\* Rows and #[case] parameters come together, one value for each parameter.
BadCaseShape(rows, params) ==
    LET want == Len(Of(params, "Case"))
    IN  IF rows = <<>> THEN want # 0
        ELSE want = 0 \/ \E k \in DOMAIN rows : Len(rows[k].values) # want

Rejected(f) ==
    \/ BadFlags(Metas(f.attr))
    \/ parse_spec(f.attr).matcher /\ ~Matchable(f.ret)
    \/ BadParams(f.params)
    \/ BadCaseShape(f.rows, f.params)

-----------------------------------------------------------------------------
(* The plan                                                                *)

fixture_idents(params) ==
    [k \in DOMAIN Of(params, "Fixture") |-> fixture_target(Of(params, "Fixture")[k].name)]

ValueLists(params) ==
    [k \in DOMAIN Of(params, "Values") |-> CHOOSE v \in Of(params, "Values")[k].values : TRUE]

\* A product that pairs the dimensions up instead.
zippedTuples(lists) ==
    IF lists = <<>> THEN << <<>> >>
    ELSE [i \in DOMAIN lists[1] |-> [d \in DOMAIN lists |-> 1 + ((i - 1) % Len(lists[d]))]]

\* Every choice of one index per list, the last one varying fastest.
value_index_tuples(lists) ==
    LET tuples[n \in 0 .. Len(lists)] ==
          IF n = 0 THEN << <<>> >>
          ELSE FlattenSeq([t \in DOMAIN tuples[n - 1] |->
                             [i \in DOMAIN lists[n] |-> Append(tuples[n - 1][t], i)]])
    IN  tuples[Len(lists)]

Punctuation == {"-", "::", "&"}

\* A value is a sequence of tokens, and only some can be part of a name.
sanitize_value(v) == Subsequence(v, {k \in DOMAIN v : v[k] \notin Punctuation})

\* The arguments, in the order of the parameters: `nth(kind, k)` is how many
\* parameters of that kind there are up to the k-th.
Args(params, row, tuple) ==
    LET nth(kind, k) == Len(Of(SubSeq(params, 1, k), kind))
        lists == ValueLists(params)
    IN  [k \in DOMAIN params |->
           LET p == params[k]
           IN  CASE Is(p, "Ctx")     -> [source |-> "ctx", value |-> <<"ctx">>]
                 [] Is(p, "Fixture") -> [source |-> "fixture", value |-> fixture_target(p.name)]
                 [] Is(p, "Case")    -> [source |-> "case", value |-> row.values[nth("Case", k)]]
                 [] Is(p, "Values")  ->
                      LET d == nth("Values", k)
                      IN  [source |-> "values", value |-> lists[d][tuple[d]]]]

NoRow == [label |-> {}, values |-> <<>>]

\* A suffix that leaves the number to the cases without a label.
suffixWithoutNumber(index, label) == IF label = <<>> THEN <<"::case_", index>> ELSE <<"::">> \o label

suffix(index, label) == <<"::case_", index>> \o label

\* The rows outermost, and one test of the function's own name when there are
\* neither rows nor values.
Plan(f) ==
    LET lists   == ValueLists(f.params)
        entries == IF f.rows = <<>> THEN <<NoRow>> ELSE f.rows
        tuples  == value_index_tuples(lists)
        label(row, tuple) ==
            SetToSeq(row.label)
              \o FlattenSeq([d \in DOMAIN lists |-> sanitize_value(lists[d][tuple[d]])])
        case(index) ==
            LET row   == entries[1 + ((index - 1) \div Len(tuples))]
                tuple == tuples[1 + ((index - 1) % Len(tuples))]
            IN  [name |-> IF f.rows = <<>> /\ lists = <<>> THEN f.name
                          ELSE f.name \o suffix(index, label(row, tuple)),
                 args |-> Args(f.params, row, tuple)]
    IN  [index \in 1 .. Len(entries) * Len(tuples) |-> case(index)]

-----------------------------------------------------------------------------
(* What the expansion registers                                            *)

\* A registered case: TestCase::new with the flags of the whole function.
TestCase(f, case) ==
    LET spec == parse_spec(f.attr)
    IN  [name |-> case.name, module |-> f.module, args |-> case.args,
         serial     |-> spec.serial = {"exclusive"},
         group      |-> spec.serial \ {"exclusive"},
         timeout    |-> spec.timeout, no_timeout |-> spec.no_timeout,
         retries    |-> IF spec.retries = {} THEN 0 ELSE CHOOSE r \in spec.retries : TRUE,
         matcher    |-> spec.matcher,
         tags       |-> spec.tags,
         fixtures   |-> fixture_idents(f.params)]

generate(f) == [k \in DOMAIN Plan(f) |-> TestCase(f, Plan(f)[k])]

\* #[fixture]: async, Result<T, E>, no parameter or the context, and no other
\* argument than the teardown.
expand_fixture(x) ==
    /\ x.async
    /\ x.ret.shape = "Result"
    /\ x.params \in {<<>>, <<"ctx">>}
    /\ x.attr \subseteq {"teardown"}
=============================================================================
