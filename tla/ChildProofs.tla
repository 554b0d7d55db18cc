----------------------------- MODULE ChildProofs -----------------------------
(***************************************************************************)
(* Theorems about Child: what the expansion registers, which case a child  *)
(* runs, and how its fixtures are set up and torn down around the body,    *)
(* for all programs, any number of fixtures and every way they may end.    *)
(***************************************************************************)
EXTENDS Child, DataLemmas

-----------------------------------------------------------------------------
(* What a function expands to                                              *)

LEMMA SequenceFacts ==
  ASSUME NEW s, IsSequence(s)
  PROVE  s \in Seq(Range(s)) /\ Len(s) \in Nat /\ DOMAIN s = 1 .. Len(s)
BY LenProperties DEF IsSequence

\* Anything counted from 1 is a sequence.
LEMMA Counted ==
  ASSUME NEW n \in Nat, NEW s, s = [k \in 1 .. n |-> s[k]]
  PROVE  Len(s) = n /\ DOMAIN s = 1 .. n /\ s \in Seq(Range(s)) /\ IsSequence(s)
<1>1. DOMAIN s = 1 .. n
  BY Zenon
<1>2. s \in [1 .. n -> Range(s)]
  BY <1>1 DEF Range
<1>3. s \in Seq(Range(s))
  BY <1>2, SeqDef
<1>4. Len(s) \in Nat /\ DOMAIN s = 1 .. Len(s)
  BY <1>3, LenProperties
<1>5. Len(s) = n
  BY <1>1, <1>4
<1> QED
  BY <1>1, <1>3, <1>5 DEF IsSequence

\* Values the selection of a kind of parameters consists of.
LEMMA OfParams ==
  ASSUME NEW params, IsSequence(params), NEW kind
  PROVE  /\ Of(params, kind) \in Seq(Range(params))
         /\ \A k \in DOMAIN Of(params, kind) :
              \E i \in DOMAIN params : Of(params, kind)[k] = params[i] /\ Is(params[i], kind)
<1> DEFINE ks == {k \in DOMAIN params : Is(params[k], kind)}
<1>1. ks \in SUBSET DOMAIN params /\ params \in Seq(Range(params))
  BY SequenceFacts
<1>2. Of(params, kind) = Subsequence(params, ks)
  BY DEF Of
<1>3. \A k \in ks : Is(params[k], kind)
  OBVIOUS
<1> HIDE DEF ks
<1>4. PICK at \in [1 .. Cardinality(ks) -> ks] : Selects(at, params, ks)
  BY <1>1, SubsequenceType
<1>5. ASSUME NEW k \in DOMAIN Subsequence(params, ks)
      PROVE  at[k] \in ks /\ Subsequence(params, ks)[k] = params[at[k]]
  BY <1>4 DEF Selects
<1> QED
  BY <1>1, <1>2, <1>3, <1>5, SubsequenceType

\* A sequence of values is one for each parameter with a list of them.
LEMMA ValueListsAreSequences ==
  ASSUME NEW params, IsSequence(params),
         \A i \in DOMAIN params : \A v \in params[i].values :
            IsSequence(v) /\ \A j \in DOMAIN v : IsSequence(v[j])
  PROVE  /\ Len(ValueLists(params)) \in Nat
         /\ DOMAIN ValueLists(params) = 1 .. Len(ValueLists(params))
         /\ \A d \in DOMAIN ValueLists(params) :
              /\ IsSequence(ValueLists(params)[d])
              /\ \A j \in DOMAIN ValueLists(params)[d] : IsSequence(ValueLists(params)[d][j])
<1> DEFINE of == Of(params, "Values")
<1>1. of \in Seq(Range(params))
  BY OfParams
<1>2. PICK n \in Nat : n = Len(of) /\ DOMAIN of = 1 .. n
  BY <1>1, LenProperties
<1>3. ValueLists(params) = [k \in 1 .. n |-> CHOOSE v \in of[k].values : TRUE]
  BY <1>2 DEF ValueLists
<1>4. ASSUME NEW d \in 1 .. n
      PROVE  /\ IsSequence(ValueLists(params)[d])
             /\ \A j \in DOMAIN ValueLists(params)[d] : IsSequence(ValueLists(params)[d][j])
  <2>1. PICK i \in DOMAIN params : of[d] = params[i] /\ Is(params[i], "Values")
    BY <1>2, OfParams
  <2>2. params[i].values # {}
    BY <2>1 DEF Is
  <2>3. PICK v \in params[i].values : v = CHOOSE w \in of[d].values : TRUE
    BY <2>1, <2>2
  <2>4. ValueLists(params)[d] = v
    BY <1>3, <2>3
  <2> QED
    BY <2>4
<1>5. PICK lists : lists = ValueLists(params) /\ lists = [k \in 1 .. n |-> lists[k]]
  BY <1>3
<1>6. Len(lists) = n /\ DOMAIN lists = 1 .. n
  BY <1>5, Counted
<1> QED
  BY <1>3, <1>4, <1>5, <1>6

\* One index for each of the first k lists.
IndexTuples(lists, k) == {t \in Seq(Nat) : Len(t) = k /\ \A d \in 1 .. k : t[d] \in DOMAIN lists[d]}

\* A list of all elements of S, each once.
Enumerates(ts, S) ==
    /\ ts \in Seq(S)
    /\ \A t \in S : \E i \in DOMAIN ts : ts[i] = t
    /\ \A i, j \in DOMAIN ts : ts[i] = ts[j] => i = j

\* One choice more.
LEMMA OneChoiceMore ==
  ASSUME NEW lists, NEW d \in Nat, NEW k \in Nat, d = k + 1, IsSequence(lists[d]),
         NEW ts, Enumerates(ts, IndexTuples(lists, k))
  PROVE  Enumerates(FlattenSeq([t \in DOMAIN ts |-> [i \in DOMAIN lists[d] |-> Append(ts[t], i)]]),
                    IndexTuples(lists, d))
<1> DEFINE C == IndexTuples(lists, d)
<1>0. ts \in Seq(IndexTuples(lists, k))
  BY DEF Enumerates
<1>1. PICK l \in Nat : DOMAIN lists[d] = 1 .. l
  BY SequenceFacts
<1>2. PICK m \in Nat : DOMAIN ts = 1 .. m
  BY <1>0, LenProperties
<1>3. ASSUME NEW t \in 1 .. m
      PROVE  ts[t] \in Seq(Nat) /\ Len(ts[t]) = k /\ \A b \in 1 .. k : ts[t][b] \in DOMAIN lists[b]
  <2>1. PICK u : u = ts[t] /\ u \in IndexTuples(lists, k)
    BY <1>0, <1>2, ElementOfSeq
  <2>2. u \in Seq(Nat) /\ Len(u) = k /\ \A b \in 1 .. k : u[b] \in DOMAIN lists[b]
    BY <2>1, Zenon DEF IndexTuples
  <2> QED
    BY <2>1, <2>2
<1>4. ASSUME NEW t \in 1 .. m, NEW i \in 1 .. l
      PROVE  /\ Append(ts[t], i) \in C
             /\ Append(ts[t], i)[d] = i
             /\ \A b \in 1 .. k : Append(ts[t], i)[b] = ts[t][b]
  <2>1. PICK u \in Seq(Nat) : u = ts[t] /\ Len(u) = k /\ \A b \in 1 .. k : u[b] \in DOMAIN lists[b]
    BY <1>3
  <2>2. PICK v \in Seq(Nat) : /\ v = Append(u, i) /\ Len(v) = d /\ v[d] = i
                              /\ \A b \in 1 .. k : v[b] = u[b]
    <3>1. i \in Nat /\ \A b \in 1 .. k : b \in 1 .. Len(u)
      BY <2>1
    <3>2. /\ Append(u, i) \in Seq(Nat) /\ Len(Append(u, i)) = k + 1 /\ Append(u, i)[k + 1] = i
          /\ \A b \in 1 .. k : Append(u, i)[b] = u[b]
      BY <2>1, <3>1, AppendProperties
    <3> QED
      BY <3>2
  <2>3. ASSUME NEW b \in 1 .. d PROVE v[b] \in DOMAIN lists[b]
    <3>1. b \in 1 .. k \/ b = d
      OBVIOUS
    <3> QED
      BY <1>1, <2>1, <2>2, <3>1
  <2> QED
    BY <2>1, <2>2, <2>3 DEF IndexTuples
<1> DEFINE seqs == [t \in 1 .. m |-> [i \in 1 .. l |-> Append(ts[t], i)]]
<1>5. seqs \in Seq(Seq(C)) /\ Len(seqs) = m
  <2> HIDE DEF C
  <2>1. \A t \in 1 .. m : [i \in 1 .. l |-> Append(ts[t], i)] \in Seq(C)
    BY <1>4
  <2>2. seqs \in [1 .. m -> Seq(C)]
    BY <2>1
  <2> HIDE DEF seqs
  <2> QED
    BY <2>2
<1>6. PICK whole : whole = FlattenSeq(seqs)
  OBVIOUS
<1>7. whole \in Seq(C) /\ FlatUpto(m, whole, seqs)
  <2> HIDE DEF seqs, C
  <2> QED
    BY <1>5, <1>6, FlattenIsFlat
<1>8. PICK from \in [DOMAIN whole -> Places(seqs)] :
        /\ \A x \in DOMAIN whole : whole[x] = seqs[from[x][1]][from[x][2]]
        /\ \A x, y \in DOMAIN whole : from[x] = from[y] => x = y
        /\ \A p \in Places(seqs) : p[1] <= m => \E x \in DOMAIN whole : from[x] = p
  BY <1>7 DEF FlatUpto
<1>9. ASSUME NEW t \in 1 .. m
      PROVE  /\ t \in DOMAIN seqs /\ DOMAIN seqs[t] = 1 .. l
             /\ \A i \in 1 .. l : seqs[t][i] = Append(ts[t], i)
  OBVIOUS
<1>10. \A p \in Places(seqs) :
         /\ p = <<p[1], p[2]>> /\ p[1] \in 1 .. m /\ p[2] \in 1 .. l
         /\ seqs[p[1]][p[2]] = Append(ts[p[1]], p[2])
  BY <1>9 DEF Places
<1>11. \A t \in 1 .. m, i \in 1 .. l : <<t, i>> \in Places(seqs)
  BY <1>9 DEF Places
<1> HIDE DEF seqs
\* Every tuple is one of the shorter ones with a last choice.
<1>12. ASSUME NEW u \in C PROVE \E x \in DOMAIN whole : whole[x] = u
  <2>1. u \in Seq(Nat) /\ Len(u) = d /\ \A b \in 1 .. d : u[b] \in DOMAIN lists[b]
    BY DEF IndexTuples
  <2>2. DOMAIN u = 1 .. d /\ d \in 1 .. d /\ \A b \in 1 .. k : b \in 1 .. d
    BY <2>1, LenProperties
  <2>3. PICK v \in [1 .. k -> Nat] : v = [b \in 1 .. k |-> u[b]]
    <3>1. \A b \in 1 .. k : u[b] \in Nat
      BY <2>1, <2>2, ElementOfSeq
    <3>2. [b \in 1 .. k |-> u[b]] \in [1 .. k -> Nat]
      BY <3>1
    <3> QED
      BY <3>2
  <2>4. v \in Seq(Nat) /\ Len(v) = k
    OBVIOUS
  <2>5. v \in IndexTuples(lists, k)
    BY <2>1, <2>2, <2>3, <2>4 DEF IndexTuples
  <2>6. PICK t \in 1 .. m : ts[t] = v
    BY <1>2, <2>5 DEF Enumerates
  <2>7. PICK i \in 1 .. l : i = u[d]
    BY <1>1, <2>1, <2>2
  <2>8. Append(v, i) = u
    <3>1. PICK w : w = Append(v, i)
      OBVIOUS
    <3>2. w \in C /\ w[d] = i /\ \A b \in 1 .. k : w[b] = v[b]
      BY <1>4, <2>6, <3>1
    <3>3. w \in Seq(Nat) /\ Len(w) = d
      BY <3>2 DEF IndexTuples
    <3>4. \A b \in 1 .. d : w[b] = u[b]
      <4>1. \A b \in 1 .. d : b \in 1 .. k \/ b = d
        OBVIOUS
      <4> QED
        BY <2>3, <2>7, <3>2, <4>1
    <3>5. w = u
      BY <2>1, <3>3, <3>4, SeqEqual
    <3> QED
      BY <3>1, <3>5
  <2>9. <<t, i>> \in Places(seqs) /\ <<t, i>>[1] <= m
    BY <1>11
  <2>10. PICK x \in DOMAIN whole : from[x] = <<t, i>>
    BY <1>8, <2>9
  <2>11. whole[x] = seqs[t][i]
    BY <1>8, <2>10
  <2>12. seqs[t][i] = Append(v, i)
    BY <1>9, <2>6
  <2> QED
    BY <2>8, <2>11, <2>12
<1>13. ASSUME NEW x \in DOMAIN whole, NEW y \in DOMAIN whole, whole[x] = whole[y]
       PROVE  x = y
  <2>1. PICK p : p = from[x] /\ p \in Places(seqs) /\ whole[x] = seqs[p[1]][p[2]]
    BY <1>8
  <2>2. PICK q : q = from[y] /\ q \in Places(seqs) /\ whole[y] = seqs[q[1]][q[2]]
    BY <1>8
  <2>3. PICK t \in 1 .. m, i \in 1 .. l : p = <<t, i>> /\ whole[x] = Append(ts[t], i)
    BY <1>10, <2>1
  <2>4. PICK s \in 1 .. m, j \in 1 .. l : q = <<s, j>> /\ whole[y] = Append(ts[s], j)
    <3>1. /\ q = <<q[1], q[2]>> /\ q[1] \in 1 .. m /\ q[2] \in 1 .. l
          /\ seqs[q[1]][q[2]] = Append(ts[q[1]], q[2])
      BY <1>10, <2>2, Zenon
    <3> QED
      BY <2>2, <3>1
  <2>5. PICK u \in Seq(Nat) : u = ts[t]
    BY <1>3
  <2>6. PICK v \in Seq(Nat) : v = ts[s]
    BY <1>3
  <2>7. i \in Nat /\ j \in Nat /\ Append(u, i) = Append(v, j)
    <3>1. whole[x] = Append(u, i) /\ whole[y] = Append(v, j)
      BY <2>3, <2>4, <2>5, <2>6, Zenon
    <3>2. whole[x] = whole[y]
      BY <1>13, Zenon
    <3> QED
      BY <3>1, <3>2
  <2>8. u = v /\ i = j
    BY <2>7, AppendInjective
  <2>9. t = s
    BY <1>2, <2>5, <2>6, <2>8 DEF Enumerates
  <2>10. from[x] = from[y]
    BY <2>1, <2>2, <2>3, <2>4, <2>8, <2>9
  <2> QED
    BY <1>8, <2>10
<1>14. FlattenSeq([t \in DOMAIN ts |-> [i \in DOMAIN lists[d] |-> Append(ts[t], i)]]) = whole
  BY <1>1, <1>2, <1>6 DEF seqs
<1>15. Enumerates(whole, C)
  BY <1>7, <1>12, <1>13 DEF Enumerates
<1> QED
  BY <1>14, <1>15

\* What the recursion computes, dimension by dimension.
LEMMA TuplesAreSequences ==
  ASSUME NEW lists, NEW n \in Nat, n = Len(lists),
         \A d \in 1 .. n : IsSequence(lists[d])
  PROVE  /\ Enumerates(value_index_tuples(lists), IndexTuples(lists, n))
         /\ n = 0 => Len(value_index_tuples(lists)) = 1
<1> DEFINE T == Seq(Seq(Nat))
           more(d, ts) == FlattenSeq([t \in DOMAIN ts |->
                                        [i \in DOMAIN lists[d] |-> Append(ts[t], i)]])
           next == [p \in (1 .. n) \X T |-> more(p[1], p[2])]
           start == << <<>> >>
<1>1. start \in T /\ Len(start) = 1
  <2>1. <<>> \in Seq(Nat)
    BY EmptySeq
  <2> QED
    BY <2>1
<1>2. ASSUME NEW d \in 1 .. n, NEW ts \in T PROVE more(d, ts) \in T
  <2>1. PICK l \in Nat : DOMAIN lists[d] = 1 .. l
    BY SequenceFacts
  <2>2. PICK m \in Nat : DOMAIN ts = 1 .. m
    BY LenProperties
  <2>3. ASSUME NEW t \in 1 .. m
        PROVE  [i \in 1 .. l |-> Append(ts[t], i)] \in Seq(Seq(Nat))
    <3>1. \A i \in 1 .. l : Append(ts[t], i) \in Seq(Nat)
      BY <2>2, AppendProperties
    <3> QED
      BY <3>1
  <2>4. [t \in 1 .. m |-> [i \in 1 .. l |-> Append(ts[t], i)]] \in Seq(Seq(Seq(Nat)))
    BY <2>3
  <2> QED
    BY <2>1, <2>2, <2>4, FlattenIsFlat
<1>3. next \in [(1 .. n) \X T -> T]
  BY <1>2
<1>4. PICK f \in [0 .. n -> T] : Iterates(f, start, n, next)
  <2> HIDE DEF next, T, start
  <2> QED
    BY <1>1, <1>3, Iteration
<1>5. \A d \in 1 .. n : \A ts \in T : next[<<d, ts>>] = more(d, ts)
  OBVIOUS
<1> DEFINE Goes(g) == g = [k \in 0 .. Len(lists) |->
                              IF k = 0 THEN << <<>> >>
                              ELSE FlattenSeq([t \in DOMAIN g[k - 1] |->
                                     [i \in DOMAIN lists[k] |-> Append(g[k - 1][t], i)]])]
           tuples == CHOOSE g : Goes(g)
<1>6. Goes(f)
  <2>1. f = [k \in 0 .. n |-> f[k]]
    OBVIOUS
  <2>2. f[0] = start
    BY <1>4 DEF Iterates
  <2>3. ASSUME NEW k \in 1 .. n PROVE f[k] = more(k, f[k - 1])
    <3>1. k - 1 \in 0 .. n
      OBVIOUS
    <3>2. f[k - 1] \in T /\ f[k] = next[<<k, f[k - 1]>>]
      BY <1>4, <3>1 DEF Iterates
    <3> HIDE DEF next, T, more
    <3> QED
      BY <1>5, <3>2
  <2>4. ASSUME NEW k \in 0 .. n
        PROVE  f[k] = IF k = 0 THEN start ELSE more(k, f[k - 1])
    <3>1. k # 0 => k \in 1 .. n
      OBVIOUS
    <3> HIDE DEF more, start
    <3> QED
      BY <2>2, <2>3, <3>1
  <2>5. f = [k \in 0 .. n |-> IF k = 0 THEN start ELSE more(k, f[k - 1])]
    <3> HIDE DEF more, start
    <3> QED
      BY <2>1, <2>4
  <2> QED
    BY <2>5
<1>7. Goes(tuples)
  <2> HIDE DEF Goes
  <2> QED
    BY <1>6
<1>8. value_index_tuples(lists) = tuples[n]
  BY DEF value_index_tuples
<1>9. /\ tuples[0] = start
      /\ \A k \in 0 .. n : k # 0 => tuples[k] = more(k, tuples[k - 1])
  <2>1. 0 \in 0 .. n /\ n = Len(lists)
    OBVIOUS
  <2> HIDE DEF tuples
  <2>2. tuples = [k \in 0 .. n |-> IF k = 0 THEN start ELSE more(k, tuples[k - 1])]
    BY <1>7, <2>1
  <2> HIDE DEF more, start
  <2>3. \A k \in 0 .. n : tuples[k] = IF k = 0 THEN start ELSE more(k, tuples[k - 1])
    BY <2>2
  <2> QED
    BY <2>1, <2>3
<1> DEFINE S == {k \in Nat : k <= n => Enumerates(tuples[k], IndexTuples(lists, k))}
<1> HIDE DEF tuples, start, T
<1>10. 0 \in S
  <2>1. IndexTuples(lists, 0) = {<<>>}
    <3>1. <<>> \in Seq(Nat) /\ \A t \in Seq(Nat) : Len(t) = 0 <=> t = <<>>
      BY EmptySeq
    <3> QED
      BY <3>1 DEF IndexTuples
  <2>2. Enumerates(start, IndexTuples(lists, 0))
    <3>1. start \in Seq({<<>>}) /\ DOMAIN start = {1} /\ start[1] = <<>>
      BY DEF start
    <3> QED
      BY <2>1, <3>1 DEF Enumerates
  <2> QED
    BY <1>9, <2>2
<1>11. ASSUME NEW k \in S PROVE k + 1 \in S
  <2> SUFFICES ASSUME k + 1 <= n PROVE Enumerates(tuples[k + 1], IndexTuples(lists, k + 1))
    OBVIOUS
  <2>1. /\ k + 1 \in 0 .. n /\ k + 1 # 0 /\ k + 1 \in 1 .. n /\ k <= n
        /\ k + 1 - 1 = k /\ k \in Nat
    OBVIOUS
  <2>2. Enumerates(tuples[k], IndexTuples(lists, k))
    BY <2>1
  <2>3. PICK d \in 1 .. n : d = k + 1
    BY <2>1
  <2>4. tuples[d] = more(d, tuples[d - 1])
    BY <1>9, <2>1, <2>3
  <2>5. d - 1 = k
    BY <2>1, <2>3
  <2> HIDE DEF S
  <2>6. Enumerates(more(d, tuples[k]), IndexTuples(lists, d))
    <3>1. IsSequence(lists[d]) /\ d \in Nat /\ k \in Nat /\ d = k + 1
      BY <2>1, <2>3
    <3>2. PICK ts : ts = tuples[k] /\ Enumerates(ts, IndexTuples(lists, k))
      BY <2>2
    <3>3. Enumerates(more(d, ts), IndexTuples(lists, d))
      BY <3>1, <3>2, OneChoiceMore
    <3> QED
      BY <3>2, <3>3
  <2> QED
    BY <2>3, <2>4, <2>5, <2>6
<1>12. S = Nat
  <2>1. S \in SUBSET Nat
    OBVIOUS
  <2> HIDE DEF S
  <2> QED
    BY <1>10, <1>11, <2>1, SetInduction
<1>13. Enumerates(tuples[n], IndexTuples(lists, n))
  <2>1. n \in S
    BY <1>12
  <2> QED
    BY <2>1
<1> QED
  BY <1>1, <1>8, <1>9, <1>13


\* Where the a-th of a * b things is, when they come in rows of b.
LEMMA InRows ==
  ASSUME NEW a \in Nat, NEW b \in Nat, NEW i \in 1 .. a * b
  PROVE  b # 0 /\ 1 + ((i - 1) \div b) \in 1 .. a /\ 1 + ((i - 1) % b) \in 1 .. b
<1>1. b # 0
  <2>1. a * 0 = 0
    OBVIOUS
  <2> QED
    BY <2>1
<1>2. PICK q \in Int, r \in Int : /\ q = (i - 1) \div b /\ r = (i - 1) % b
                                  /\ i - 1 = b * q + r /\ 0 <= r /\ r < b
  BY <1>1
<1>3. q < a
  <2> SUFFICES ASSUME a <= q PROVE FALSE
    BY <1>2
  <2>1. b * a <= b * q
    BY <1>1, <1>2
  <2>2. a * b = b * a /\ i <= a * b
    OBVIOUS
  <2> QED
    BY <1>2, <2>1, <2>2
<1>4. 0 <= q
  <2> SUFFICES ASSUME q <= -1 PROVE FALSE
    BY <1>2
  <2>1. b * q <= b * (-1)
    BY <1>1, <1>2
  <2> QED
    BY <1>2, <2>1
<1> QED
  BY <1>1, <1>2, <1>3, <1>4

\* What ASSUME ProgramsAssumption says of one function.
Parsed(f) ==
    /\ IsSequence(f.name) /\ "::case_" \notin Range(f.name)
    /\ IsSequence(f.params) /\ IsSequence(f.rows)
    /\ \A i \in DOMAIN f.params : \A v \in f.params[i].values :
         /\ f.params[i].values = {v} /\ IsSequence(v)
         /\ \A j \in DOMAIN v : IsSequence(v[j])
    /\ \A i \in DOMAIN f.rows : IsSequence(f.rows[i].values) /\ IsFiniteSet(f.rows[i].label)

\* What a name says after the function's own.
Numbered(f, index, name) ==
    \E label : IsSequence(label) /\ name = f.name \o (<<"::case_", index>> \o label)

LEMMA ConcatIsSequence ==
  ASSUME NEW s, NEW t, IsSequence(s), IsSequence(t)
  PROVE  IsSequence(s \o t)
<1>1. s \in Seq(Range(s) \cup Range(t)) /\ t \in Seq(Range(s) \cup Range(t))
  BY SequenceFacts, SeqMonotonic
<1>2. PICK u : u = s \o t /\ u \in Seq(Range(s) \cup Range(t))
  BY <1>1, ConcatProperties
<1>3. u = [k \in 1 .. Len(u) |-> u[k]] /\ Len(u) \in Nat
  BY <1>2, LenProperties
<1> QED
  BY <1>2, <1>3, Counted

LEMMA SetToSeqIsSequence ==
  ASSUME NEW S, IsFiniteSet(S)
  PROVE  IsSequence(SetToSeq(S))
<1>1. PICK n \in Nat : n = Cardinality(S) /\ ExistsBijection(1 .. n, S)
  BY FS_CardinalityType
<1>2. \E f \in [1 .. n -> S] : IsInjective(f)
  BY <1>1 DEF ExistsBijection, Bijection, Injection
<1>3. SetToSeq(S) \in [1 .. n -> S]
  BY <1>1, <1>2 DEF SetToSeq
<1>4. PICK s : s = SetToSeq(S) /\ s = [k \in 1 .. n |-> s[k]]
  BY <1>3
<1> QED
  BY <1>4, Counted

\* The label of a case is a sequence of words.
LEMMA LabelsAreSequences ==
  ASSUME NEW S, IsFiniteSet(S), NEW lists, NEW n \in Nat, DOMAIN lists = 1 .. n,
         \A d \in 1 .. n : \A j \in DOMAIN lists[d] : IsSequence(lists[d][j]),
         NEW tuple \in IndexTuples(lists, n)
  PROVE  IsSequence(SetToSeq(S)
                      \o FlattenSeq([d \in DOMAIN lists |-> sanitize_value(lists[d][tuple[d]])]))
<1> DEFINE word(d) == lists[d][tuple[d]]
           X == UNION {Range(word(d)) : d \in 1 .. n}
<1>1. ASSUME NEW d \in 1 .. n PROVE sanitize_value(word(d)) \in Seq(X)
  <2>1. IsSequence(word(d))
    BY DEF IndexTuples
  <2>2. Range(word(d)) \subseteq X
    OBVIOUS
  <2> HIDE DEF word, X
  <2>3. word(d) \in Seq(X)
    BY <2>1, <2>2, SequenceFacts, SeqMonotonic
  <2> QED
    BY <2>3, SubsequenceType DEF sanitize_value
<1> HIDE DEF X
<1>2. [d \in 1 .. n |-> sanitize_value(word(d))] \in Seq(Seq(X))
  BY <1>1
<1>3. PICK s : /\ s = FlattenSeq([d \in 1 .. n |-> sanitize_value(word(d))])
               /\ s \in Seq(X)
  BY <1>2, FlattenIsFlat
<1>4. s = [k \in 1 .. Len(s) |-> s[k]] /\ Len(s) \in Nat
  BY <1>3, LenProperties
<1>5. IsSequence(s)
  BY <1>4, Counted
<1> QED
  BY <1>3, <1>5, SetToSeqIsSequence, ConcatIsSequence

\* The cases of a function: all in its module and with its fixtures, and either
\* one of its own name, or as many as there are, each with its number.
Cases(f, m) ==
    /\ generate(f) = [k \in 1 .. m |-> TestCase(f, Plan(f)[k])]
    /\ \/ m = 1 /\ Plan(f)[1].name = f.name
       \/ \A k \in 1 .. m : Numbered(f, k, Plan(f)[k].name)

LEMMA GeneratedCases ==
  ASSUME NEW f, Parsed(f)
  PROVE  \E m \in Nat : Cases(f, m)
<1> DEFINE lists   == ValueLists(f.params)
           entries == IF f.rows = <<>> THEN <<NoRow>> ELSE f.rows
           tuples  == value_index_tuples(lists)
           row(index)   == entries[1 + ((index - 1) \div Len(tuples))]
           tuple(index) == tuples[1 + ((index - 1) % Len(tuples))]
           label(r, t) == SetToSeq(r.label)
                            \o FlattenSeq([d \in DOMAIN lists |-> sanitize_value(lists[d][t[d]])])
           name(index) == IF f.rows = <<>> /\ lists = <<>> THEN f.name
                          ELSE f.name \o suffix(index, label(row(index), tuple(index)))
<1>1. PICK n \in Nat : /\ n = Len(lists) /\ DOMAIN lists = 1 .. n
                       /\ \A d \in 1 .. n : /\ IsSequence(lists[d])
                                            /\ \A j \in DOMAIN lists[d] : IsSequence(lists[d][j])
  BY ValueListsAreSequences DEF Parsed
<1>2. tuples \in Seq(IndexTuples(lists, n)) /\ (n = 0 => Len(tuples) = 1)
  <2> HIDE DEF lists
  <2> QED
    BY <1>1, TuplesAreSequences DEF Enumerates
<1>3. PICK b \in Nat : b = Len(tuples) /\ \A i \in 1 .. b : tuples[i] \in IndexTuples(lists, n)
  BY <1>2, LenProperties
<1>4. PICK a \in Nat : /\ a = Len(entries) /\ (f.rows = <<>> => a = 1)
                       /\ \A i \in 1 .. a : IsFiniteSet(entries[i].label)
  <2>1. CASE f.rows = <<>>
    <3>1. entries = <<NoRow>> /\ IsFiniteSet(NoRow.label)
      BY <2>1, FS_EmptySet DEF NoRow
    <3>2. Len(entries) = 1 /\ entries[1] = NoRow
      BY <3>1
    <3> HIDE DEF entries
    <3>3. \A i \in 1 .. 1 : i = 1
      OBVIOUS
    <3> QED
      BY <3>1, <3>2, <3>3
  <2>2. CASE f.rows # <<>>
    <3>1. entries = f.rows /\ Len(f.rows) \in Nat /\ DOMAIN f.rows = 1 .. Len(f.rows)
      BY <2>2, SequenceFacts DEF Parsed
    <3> QED
      BY <2>2, <3>1 DEF Parsed
  <2> QED
    BY <2>1, <2>2
<1>5. a * b \in Nat
  OBVIOUS
<1>6. DOMAIN Plan(f) = 1 .. a * b /\ \A k \in 1 .. a * b : Plan(f)[k].name = name(k)
  BY <1>3, <1>4 DEF Plan
<1>7. generate(f) = [k \in 1 .. a * b |-> TestCase(f, Plan(f)[k])]
  BY <1>6 DEF generate
<1>8. CASE f.rows = <<>> /\ lists = <<>>
  <2>1. n = 0 /\ b = 1
    BY <1>1, <1>2, <1>3, <1>8, EmptySeq
  <2>2. a * b = 1
    BY <1>4, <1>8, <2>1
  <2>3. name(1) = f.name
    BY <1>8
  <2> HIDE DEF name
  <2> QED
    BY <1>5, <1>6, <1>7, <2>2, <2>3 DEF Cases
<1>9. CASE ~(f.rows = <<>> /\ lists = <<>>)
  <2>1. ASSUME NEW k \in 1 .. a * b PROVE Numbered(f, k, Plan(f)[k].name)
    <3>1. b # 0 /\ 1 + ((k - 1) \div b) \in 1 .. a /\ 1 + ((k - 1) % b) \in 1 .. b
      BY InRows
    <3>2. IsFiniteSet(row(k).label) /\ tuple(k) \in IndexTuples(lists, n)
      <4> HIDE DEF lists, entries, tuples
      <4> QED
        BY <1>3, <1>4, <3>1
    <3> HIDE DEF lists, row, tuple
    <3>3. IsSequence(label(row(k), tuple(k)))
      BY <1>1, <3>2, LabelsAreSequences
    <3> HIDE DEF label
    <3>4. name(k) = f.name \o (<<"::case_", k>> \o label(row(k), tuple(k)))
      BY <1>9 DEF suffix
    <3> QED
      BY <1>6, <3>3, <3>4 DEF Numbered
  <2> QED
    BY <1>5, <1>7, <2>1 DEF Cases
<1> QED
  BY <1>8, <1>9

\* A name is read back: up to the first number it is the function's, and the
\* number is the case's.
LEMMA NamesReadBack ==
  ASSUME NEW f, NEW g, Parsed(f), Parsed(g), NEW j, NEW k, NEW name
  PROVE  /\ Numbered(f, j, name) /\ Numbered(g, k, name) => f.name = g.name /\ j = k
         /\ ~(Numbered(f, j, name) /\ name = g.name)
<1> DEFINE mark == "::case_"
<1>1. ASSUME NEW h, Parsed(h), NEW i, Numbered(h, i, name)
      PROVE  /\ Len(h.name) \in Nat /\ Len(name) \in Nat
             /\ h.name = [n \in 1 .. Len(h.name) |-> name[n]]
             /\ Len(h.name) + 2 <= Len(name) /\ DOMAIN name = 1 .. Len(name)
             /\ name[Len(h.name) + 1] = mark /\ name[Len(h.name) + 2] = i
  <2>1. PICK label : IsSequence(label) /\ name = h.name \o (<<mark, i>> \o label)
    BY <1>1 DEF Numbered
  <2> DEFINE X == Range(h.name) \cup Range(label) \cup {mark, i}
  <2>2. /\ h.name \in Seq(X) /\ label \in Seq(X)
    <3>1. Range(h.name) \subseteq X /\ Range(label) \subseteq X
      OBVIOUS
    <3> HIDE DEF X
    <3> QED
      BY <1>1, <2>1, <3>1, SequenceFacts, SeqMonotonic DEF Parsed
  <2>3. <<mark, i>> \in Seq(X) /\ Len(<<mark, i>>) = 2
    OBVIOUS
  <2> HIDE DEF X, mark
  <2>4. PICK rest \in Seq(X) : /\ rest = <<mark, i>> \o label /\ Len(rest) = 2 + Len(label)
                               /\ rest[1] = mark /\ rest[2] = i
    <3>1. 1 \in 1 .. 2 + Len(label) /\ 2 \in 1 .. 2 + Len(label) /\ Len(label) \in Nat
      BY <2>2, LenProperties
    <3>2. /\ <<mark, i>> \o label \in Seq(X) /\ Len(<<mark, i>> \o label) = 2 + Len(label)
          /\ \A n \in 1 .. 2 + Len(label) :
               (<<mark, i>> \o label)[n] = IF n <= 2 THEN <<mark, i>>[n] ELSE label[n - 2]
      BY <2>2, <2>3, ConcatProperties
    <3>3. <<mark, i>>[1] = mark /\ <<mark, i>>[2] = i /\ 1 <= 2 /\ 2 <= 2
      OBVIOUS
    <3>4. PICK rest \in Seq(X) : rest = <<mark, i>> \o label
      BY <3>2
    <3>5. rest[1] = mark /\ rest[2] = i
      BY <3>1, <3>2, <3>3, <3>4, Zenon
    <3> QED
      BY <3>2, <3>4, <3>5
  <2>5. PICK a \in Nat, c \in Nat : a = Len(h.name) /\ c = Len(rest) /\ 2 <= c
    BY <2>2, <2>4, LenProperties
  <2>6. /\ name \in Seq(X) /\ Len(name) = a + c
        /\ \A n \in 1 .. a + c : name[n] = IF n <= a THEN h.name[n] ELSE rest[n - a]
    <3>1. name = h.name \o rest
      BY <2>1, <2>4
    <3> QED
      BY <2>2, <2>5, <3>1, ConcatProperties
  <2>7. name[a + 1] = mark /\ name[a + 2] = i
    <3>1. a + 1 \in 1 .. a + c /\ a + 2 \in 1 .. a + c /\ a + 1 - a = 1 /\ a + 2 - a = 2
          /\ ~(a + 1 <= a) /\ ~(a + 2 <= a)
      BY <2>5
    <3> QED
      BY <2>4, <2>6, <3>1
  <2>8. \A n \in 1 .. a : h.name[n] = name[n]
    BY <2>5, <2>6
  <2>9. h.name = [n \in 1 .. a |-> name[n]]
    <3>1. h.name = [n \in 1 .. a |-> h.name[n]]
      BY <2>2, <2>5, LenProperties
    <3> QED
      BY <2>8, <3>1
  <2>10. DOMAIN name = 1 .. Len(name)
    BY <2>6, LenProperties
  <2> QED
    BY <2>5, <2>6, <2>7, <2>9, <2>10
<1>2. ASSUME NEW h, Parsed(h), NEW n \in 1 .. Len(h.name) PROVE h.name[n] # mark
  BY <1>2, SequenceFacts DEF Parsed, Range
<1> HIDE DEF mark
<1>3. ASSUME Numbered(f, j, name), Numbered(g, k, name) PROVE f.name = g.name /\ j = k
  <2>1. PICK a \in Nat, b \in Nat : a = Len(f.name) /\ b = Len(g.name)
    BY <1>1, <1>3
  <2>2. /\ f.name = [n \in 1 .. a |-> name[n]] /\ g.name = [n \in 1 .. b |-> name[n]]
        /\ name[a + 1] = mark /\ name[a + 2] = j /\ name[b + 1] = mark /\ name[b + 2] = k
    BY <1>1, <1>3, <2>1
  <2>3. \A n \in 1 .. a : name[n] # mark
    <3>1. \A n \in 1 .. a : f.name[n] # mark
      BY <1>2, <2>1
    <3>2. \A n \in 1 .. a : f.name[n] = name[n]
      BY <2>2
    <3> QED
      BY <3>1, <3>2
  <2>4. \A n \in 1 .. b : name[n] # mark
    <3>1. \A n \in 1 .. b : g.name[n] # mark
      BY <1>2, <2>1
    <3>2. \A n \in 1 .. b : g.name[n] = name[n]
      BY <2>2
    <3> QED
      BY <3>1, <3>2
  <2>5. ~(a < b) /\ ~(b < a)
    <3>1. a < b => a + 1 \in 1 .. b
      OBVIOUS
    <3>2. b < a => b + 1 \in 1 .. a
      OBVIOUS
    <3> QED
      BY <2>2, <2>3, <2>4, <3>1, <3>2
  <2>6. a = b
    BY <2>5
  <2> QED
    BY <2>2, <2>6
<1>4. ASSUME Numbered(f, j, name), name = g.name PROVE FALSE
  <2>1. PICK a \in Nat : a = Len(f.name)
    BY <1>1, <1>4
  <2>2. Len(name) \in Nat /\ a + 2 <= Len(name) /\ name[a + 1] = mark
    BY <1>1, <1>4, <2>1
  <2>3. a + 1 \in 1 .. Len(g.name)
    BY <1>4, <2>2
  <2> QED
    BY <1>2, <1>4, <2>2, <2>3
<1> QED
  BY <1>3, <1>4

\* The fixtures of a function that compiles: a sequence, none of them twice.
LEMMA FixturesOnce ==
  ASSUME NEW params, IsSequence(params)
  PROVE  /\ IsSequence(fixture_idents(params))
         /\ ~FixturesTwice(params) => IsInjective(fixture_idents(params))
<1> DEFINE of == Of(params, "Fixture")
           idents == fixture_idents(params)
<1>1. PICK n \in Nat : DOMAIN of = 1 .. n
  BY OfParams, LenProperties
<1>2. idents = [k \in 1 .. n |-> fixture_target(of[k].name)]
  BY <1>1 DEF fixture_idents
<1>3. IsSequence(idents)
  <2>1. PICK s : s = idents /\ s = [k \in 1 .. n |-> s[k]]
    BY <1>2
  <2> QED
    BY <2>1, Counted
<1>4. ASSUME ~FixturesTwice(params), NEW i \in 1 .. n, NEW j \in 1 .. n, idents[i] = idents[j]
      PROVE  i = j
  <2>1. ~(i < j) /\ ~(j < i)
    BY <1>1, <1>2, <1>4 DEF FixturesTwice
  <2> QED
    BY <2>1
<1>5. DOMAIN idents = 1 .. n
  BY <1>2
<1> HIDE DEF idents
<1> QED
  BY <1>3, <1>4, <1>5 DEF idents, IsInjective

-----------------------------------------------------------------------------
(* What the macros register                                                *)

\* No fixture twice in a case, and no two cases of one name in a module.
WellRegistered(cases) ==
    /\ IsSequence(cases)
    /\ \A k \in DOMAIN cases :
         IsSequence(cases[k].fixtures) /\ IsInjective(cases[k].fixtures)
    /\ \A j, k \in DOMAIN cases :
         /\ cases[j].module = cases[k].module
         /\ cases[j].name = cases[k].name
         => j = k

LEMMA ExpansionRegisters ==
  ASSUME NEW p \in Programs, Compiles(p), NEW order \in SetToSeqs(DOMAIN p.functions)
  PROVE  WellRegistered(FlattenSeq([k \in DOMAIN order |-> generate(p.functions[order[k]])]))
<1> DEFINE fs == p.functions
           F(k) == fs[order[k]]
           seqs == [k \in DOMAIN order |-> generate(F(k))]
           cases == FlattenSeq(seqs)
<1>1. /\ IsSequence(fs)
      /\ \A k \in DOMAIN fs : Parsed(fs[k]) /\ ~FixturesTwice(fs[k].params)
      /\ \A j, k \in DOMAIN fs :
           fs[j].module = fs[k].module /\ fs[j].name = fs[k].name => j = k
  <2>1. /\ IsSequence(fs)
        /\ \A k \in DOMAIN fs : Parsed(fs[k])
        /\ \A j, k \in DOMAIN fs :
             fs[j].module = fs[k].module /\ fs[j].name = fs[k].name => j = k
    BY ProgramsAssumption DEF Parsed
  <2>2. \A k \in DOMAIN fs : ~FixturesTwice(fs[k].params)
    BY DEF Compiles, Rejected, BadParams
  <2> QED
    BY <2>1, <2>2
<1>2. PICK n \in Nat : /\ DOMAIN order = 1 .. n
                       /\ \A k \in 1 .. n : order[k] \in DOMAIN fs
                       /\ \A j, k \in 1 .. n : order[j] = order[k] => j = k
  <2>1. PICK l \in Nat : DOMAIN fs = 1 .. l
    BY <1>1, SequenceFacts
  <2>2. PICK n \in Nat : n = Cardinality(DOMAIN fs)
    BY <2>1, FS_Interval, FS_CardinalityType
  <2>3. /\ order \in [1 .. n -> DOMAIN fs]
        /\ \A j, k \in 1 .. n : j # k => order[j] # order[k]
    BY <2>2 DEF SetToSeqs
  <2> QED
    BY <2>3
<1>3. \A k \in 1 .. n : Parsed(F(k)) /\ ~FixturesTwice(F(k).params)
  BY <1>1, <1>2
<1>4. ASSUME NEW k \in 1 .. n
      PROVE  \E m \in Nat : Cases(F(k), m)
  <2> HIDE DEF F
  <2> QED
    BY <1>3, GeneratedCases
<1> DEFINE X == UNION {Range(generate(F(k))) : k \in 1 .. n}
<1>5. ASSUME NEW k \in 1 .. n PROVE generate(F(k)) \in Seq(X)
  <2>1. PICK m \in Nat : Cases(F(k), m)
    BY <1>4
  <2>2. PICK s : s = generate(F(k)) /\ s = [i \in 1 .. m |-> s[i]]
    BY <2>1 DEF Cases
  <2>3. s \in Seq(Range(s)) /\ Range(s) \subseteq X
    BY <2>2, Counted
  <2> HIDE DEF X
  <2> QED
    BY <2>2, <2>3, SeqMonotonic
<1> HIDE DEF X, F
<1>6. seqs \in Seq(Seq(X)) /\ DOMAIN seqs = 1 .. n /\ \A k \in 1 .. n : seqs[k] = generate(F(k))
  BY <1>2, <1>5
<1> HIDE DEF seqs
<1>7. cases \in Seq(X) /\ FlatUpto(Len(seqs), cases, seqs)
  BY <1>6, FlattenIsFlat
<1> HIDE DEF cases
<1>8. PICK from \in [DOMAIN cases -> Places(seqs)] :
        /\ \A i \in DOMAIN cases : cases[i] = seqs[from[i][1]][from[i][2]]
        /\ \A i, j \in DOMAIN cases : from[i] = from[j] => i = j
  BY <1>7 DEF FlatUpto
<1>9. ASSUME NEW i \in DOMAIN cases
      PROVE  \E k \in 1 .. n, l \in Nat, m \in Nat :
               /\ from[i] = <<k, l>> /\ Cases(F(k), m) /\ l \in 1 .. m
               /\ cases[i] = TestCase(F(k), Plan(F(k))[l])
  <2>1. PICK k \in 1 .. n, l \in Nat : from[i] = <<k, l>> /\ l \in DOMAIN generate(F(k))
    <3>1. from[i] \in Places(seqs)
      BY <1>8
    <3> QED
      BY <1>6, <3>1 DEF Places
  <2>2. PICK m \in Nat : Cases(F(k), m)
    BY <1>4
  <2>3. cases[i] = generate(F(k))[l]
    <3>1. from[i][1] = k /\ from[i][2] = l
      BY <2>1
    <3>2. cases[i] = seqs[k][l]
      BY <1>8, <3>1
    <3> QED
      BY <1>6, <3>2
  <2>4. DOMAIN generate(F(k)) = 1 .. m /\ \A h \in 1 .. m : generate(F(k))[h] = TestCase(F(k), Plan(F(k))[h])
    BY <2>2 DEF Cases
  <2> QED
    BY <2>1, <2>2, <2>3, <2>4
<1>10. IsSequence(cases)
  <2>1. cases = [k \in 1 .. Len(cases) |-> cases[k]] /\ Len(cases) \in Nat
    BY <1>7, LenProperties
  <2> QED
    BY <2>1, Counted
<1>11. ASSUME NEW i \in DOMAIN cases
       PROVE  IsSequence(cases[i].fixtures) /\ IsInjective(cases[i].fixtures)
  <2>1. PICK k \in 1 .. n : cases[i].fixtures = fixture_idents(F(k).params)
    BY <1>9 DEF TestCase
  <2> QED
    BY <1>3, <2>1, FixturesOnce DEF Parsed
<1>12. ASSUME NEW i \in DOMAIN cases, NEW j \in DOMAIN cases,
              cases[i].module = cases[j].module, cases[i].name = cases[j].name
       PROVE  i = j
  <2>1. PICK k1 \in 1 .. n, l1 \in Nat, m1 \in Nat :
               /\ from[i] = <<k1, l1>> /\ Cases(F(k1), m1) /\ l1 \in 1 .. m1
               /\ cases[i] = TestCase(F(k1), Plan(F(k1))[l1])
    BY <1>9
  <2>2. PICK k2 \in 1 .. n, l2 \in Nat, m2 \in Nat :
               /\ from[j] = <<k2, l2>> /\ Cases(F(k2), m2) /\ l2 \in 1 .. m2
               /\ cases[j] = TestCase(F(k2), Plan(F(k2))[l2])
    BY <1>9
  <2>3. /\ cases[i].module = F(k1).module /\ cases[i].name = Plan(F(k1))[l1].name
        /\ cases[j].module = F(k2).module /\ cases[j].name = Plan(F(k2))[l2].name
    BY <2>1, <2>2 DEF TestCase
  <2>4. PICK name : name = cases[i].name
    OBVIOUS
  <2>5. /\ \/ m1 = 1 /\ l1 = 1 /\ name = F(k1).name
           \/ Numbered(F(k1), l1, name)
        /\ \/ m2 = 1 /\ l2 = 1 /\ name = F(k2).name
           \/ Numbered(F(k2), l2, name)
    <3>1. l1 \in 1 .. 1 => l1 = 1
      OBVIOUS
    <3>2. l2 \in 1 .. 1 => l2 = 1
      OBVIOUS
    <3> QED
      BY <1>12, <2>1, <2>2, <2>3, <2>4, <3>1, <3>2 DEF Cases
  <2>6. F(k1).name = F(k2).name /\ (k1 = k2 => l1 = l2)
    <3>1. Parsed(F(k1)) /\ Parsed(F(k2))
      BY <1>3
    <3> QED
      BY <2>5, <3>1, NamesReadBack
  <2>7. k1 = k2
    <3>1. order[k1] = order[k2]
      BY <1>1, <1>2, <1>12, <2>3, <2>6 DEF F
    <3> QED
      BY <1>2, <3>1
  <2> QED
    BY <1>8, <2>1, <2>2, <2>6, <2>7
<1>13. WellRegistered(cases)
  BY <1>10, <1>11, <1>12 DEF WellRegistered
<1> QED
  BY <1>13 DEF cases, seqs, F

-----------------------------------------------------------------------------
(* The invariant: the log is a beginning of the plan, and what is in it    *)
(* says where the wrapper is and what it returns                           *)

\* How many fixtures the case that runs asks for.
N == Len(Fixtures)

\* The k-th thing to do for it.
Planned(k) ==
    IF k <= N THEN <<"setup", Fixtures[k]>>
    ELSE IF k = N + 1 THEN <<"body", <<>> >>
    ELSE <<"teardown", Fixtures[2 * N + 2 - k]>>

\* What a step of the wrapper may leave in the log.
Outcomes == {"ok", "fixture_err", "skip", "panic", "err_match", "err_other"}
Steps == [step : {"setup", "body", "teardown"}, fixture : Range(Fixtures) \cup {<<>>},
          outcome : Outcomes]

\* How far the child is: which case it was asked for, and which it found.
StageInv ==
    /\ program \in Programs
    /\ pc \in {"source", "rejected", "expanded", "load", "setup", "teardown", "report", "exited"}
    /\ pc \notin {"source", "rejected"} => WellRegistered(registry)
    /\ pc \in {"load", "setup", "teardown", "report", "exited"} => asked \in DOMAIN registry
    /\ pc \in {"setup", "teardown", "report"} => found # 0
    /\ IF found = 0 THEN log = <<>> /\ level = 0 /\ code \in {0, NoExitCode, Panic101}
                         /\ (pc = "exited" => code # 0)
       ELSE /\ pc \in {"setup", "teardown", "report", "exited"}
            /\ found \in DOMAIN registry
            /\ registry[found].name = registry[asked].name

\* The log is the beginning of the plan.
LogInv ==
    found # 0 =>
        /\ log \in Seq(Steps)
        /\ Len(log) <= 2 * N + 1
        /\ level \in 0 .. N
        /\ \A k \in DOMAIN log : <<log[k].step, log[k].fixture>> = Planned(k)

Ok(k) == log[k].outcome = "ok"
BodyEnded == log[N + 1].outcome

\* Every step before the l-th let the wrapper go on.
WentOn(l) ==
    /\ \A k \in DOMAIN log : k <= N /\ k < l => Ok(k)
    /\ \A k \in DOMAIN log : N < k /\ k < l =>
         log[k].outcome # "panic" /\ (BodyEnded = "ok" => Ok(k))

\* The last step ended the wrapper before its time.
Cut ==
    LET l == Len(log)
        e == log[l].outcome
    IN  /\ l > 0 /\ WentOn(l)
        /\ \/ l <= N /\ e # "ok"
           \/ l = N + 1 /\ e = "panic"
           \/ l > N + 1 /\ (e = "panic" \/ (BodyEnded = "ok" /\ e # "ok"))
        /\ e \in {"fixture_err", "skip", "panic"}
        /\ result = build_testcase_body(e, FALSE)

\* The body has returned, and what was torn down did not end the wrapper.
Tearing ==
    /\ Len(log) = 2 * N + 1 - level
    /\ WentOn(Len(log) + 1)
    /\ result = build_testcase_body(BodyEnded, registry[found].matcher)

ResultInv ==
    found # 0 =>
        /\ pc = "setup" => Len(log) = level /\ (\A k \in DOMAIN log : Ok(k))
        /\ pc = "teardown" => Tearing
        /\ pc = "report" => Cut
        /\ pc = "exited" => \/ code = NoExitCode
                            \/ code = run_single(result) /\ (Cut \/ (Tearing /\ level = 0))

CInv == StageInv /\ LogInv /\ ResultInv

-----------------------------------------------------------------------------
(* Every step keeps it                                                     *)

LEMMA FixturesNumbered ==
  ASSUME StageInv, found # 0
  PROVE  /\ N \in Nat /\ DOMAIN Fixtures = 1 .. N
         /\ Fixtures \in Seq(Range(Fixtures)) /\ IsInjective(Fixtures)
         /\ WellRegistered(registry)
<1>1. WellRegistered(registry) /\ found \in DOMAIN registry
  BY DEF StageInv
<1>2. IsSequence(Fixtures) /\ IsInjective(Fixtures)
  BY <1>1 DEF WellRegistered, Fixtures
<1> QED
  BY <1>1, <1>2, SequenceFacts DEF N

\* One step more in the log, the next one of the plan.
LEMMA LogGrows ==
  ASSUME StageInv, LogInv, found # 0, UNCHANGED <<registry, found>>,
         NEW l \in Nat, l = Len(log), l + 1 <= 2 * N + 1,
         NEW step \in {"setup", "body", "teardown"}, NEW fixture \in Range(Fixtures) \cup {<<>>},
         NEW e \in Outcomes,
         log' = Append(log, Ran(step, fixture, e)), <<step, fixture>> = Planned(l + 1),
         level' \in 0 .. N
  PROVE  /\ LogInv' /\ DOMAIN log = 1 .. l /\ DOMAIN log' = 1 .. l + 1
         /\ Len(log') = l + 1 /\ log'[l + 1].outcome = e
         /\ \A k \in 1 .. l : log'[k] = log[k]
<1> DEFINE entry == Ran(step, fixture, e)
<1>1. log \in Seq(Steps)
  BY DEF LogInv
<1>2. entry \in Steps /\ entry.outcome = e /\ <<entry.step, entry.fixture>> = Planned(l + 1)
  BY DEF Ran, Steps
<1> HIDE DEF entry
<1>3. /\ log' \in Seq(Steps) /\ Len(log') = l + 1 /\ log'[l + 1] = entry
      /\ \A k \in 1 .. l : log'[k] = log[k]
  BY <1>1, <1>2, AppendProperties DEF entry
<1>4. DOMAIN log = 1 .. l /\ DOMAIN log' = 1 .. l + 1
  BY <1>1, <1>3, LenProperties
<1>5. Fixtures' = Fixtures
  BY DEF Fixtures
<1>6. N' = N /\ Steps' = Steps /\ \A k : Planned(k)' = Planned(k)
  BY <1>5 DEF N, Steps, Planned
<1>7. ASSUME NEW k \in 1 .. l + 1 PROVE <<log'[k].step, log'[k].fixture>> = Planned(k)
  <2>1. CASE k = l + 1
    BY <1>2, <1>3, <2>1
  <2>2. CASE k \in 1 .. l
    BY <1>3, <1>4, <2>2 DEF LogInv
  <2> QED
    BY <2>1, <2>2
<1>8. LogInv'
  <2>1. log' \in Seq(Steps') /\ Len(log') <= 2 * N' + 1 /\ level' \in 0 .. N'
    BY <1>3, <1>6
  <2>2. \A k \in DOMAIN log' : <<log'[k].step, log'[k].fixture>> = Planned(k)'
    BY <1>4, <1>6, <1>7
  <2> QED
    BY <2>1, <2>2 DEF LogInv
<1> QED
  BY <1>2, <1>3, <1>4, <1>8

LEMMA SetUpKeeps ==
  ASSUME CInv, SetUp
  PROVE  CInv'
<1>1. found # 0 /\ pc = "setup" /\ level < N /\ UNCHANGED <<program, registry, asked, found, code>>
  BY DEF CInv, StageInv, SetUp, N
<1>2. /\ N \in Nat /\ DOMAIN Fixtures = 1 .. N /\ level \in 0 .. N /\ Len(log) = level
      /\ \A k \in DOMAIN log : Ok(k)
  BY <1>1, FixturesNumbered DEF CInv, LogInv, ResultInv
<1>3. PICK e \in {"ok", "fixture_err", "skip", "panic"} :
        /\ log' = Append(log, Ran("setup", Fixtures[level + 1], e))
        /\ IF e = "ok" THEN level' = level + 1 /\ UNCHANGED <<pc, result>>
           ELSE pc' = "report" /\ result' = build_testcase_body(e, FALSE) /\ UNCHANGED level
  BY DEF SetUp
<1>4. PICK l \in Nat : l = level /\ l + 1 \in 1 .. N /\ l + 1 <= 2 * N + 1 /\ l = Len(log)
  BY <1>1, <1>2
<1>5. <<"setup", Fixtures[l + 1]>> = Planned(l + 1) /\ Fixtures[l + 1] \in Range(Fixtures)
  BY <1>2, <1>4 DEF Planned, Range
<1>6. level' \in 0 .. N /\ e \in Outcomes
  <2>1. level' = l \/ level' = l + 1
    BY <1>3, <1>4
  <2>2. l \in 0 .. N /\ l + 1 \in 0 .. N
    BY <1>2, <1>4
  <2> QED
    BY <2>1, <2>2 DEF Outcomes
<1>7. /\ LogInv' /\ DOMAIN log = 1 .. l /\ DOMAIN log' = 1 .. l + 1
      /\ Len(log') = l + 1 /\ log'[l + 1].outcome = e
      /\ \A k \in 1 .. l : log'[k] = log[k]
  BY <1>1, <1>3, <1>4, <1>5, <1>6, LogGrows DEF CInv
<1>8. StageInv'
  <2>1. pc' \in {"setup", "report"}
    BY <1>1, <1>3
  <2> QED
    BY <1>1, <2>1 DEF CInv, StageInv
<1>9. \A k \in 1 .. l : log'[k].outcome = "ok"
  BY <1>2, <1>7 DEF Ok
<1>10. PICK n \in Nat : n = N /\ N' = n /\ l + 1 <= n
  <2>1. N' = N
    BY <1>1 DEF N, Fixtures
  <2> QED
    BY <1>2, <1>4, <2>1
<1>11. CASE e = "ok"
  <2>1. pc' = "setup" /\ level' = l + 1
    BY <1>1, <1>3, <1>4, <1>11
  <2>2. \A k \in DOMAIN log' : log'[k].outcome = "ok"
    BY <1>7, <1>9, <1>11
  <2>3. ResultInv'
    BY <1>7, <2>1, <2>2 DEF ResultInv, Ok
  <2> QED
    BY <1>7, <1>8, <2>3 DEF CInv
<1>12. CASE e # "ok"
  <2>1. pc' = "report" /\ result' = build_testcase_body(e, FALSE)
    BY <1>3, <1>12
  <2>2. WentOn(l + 1)'
    <3>1. \A k \in DOMAIN log' : k < l + 1 => k \in 1 .. l
      BY <1>7
    <3>2. \A k \in DOMAIN log' : ~(n < k /\ k < l + 1)
      BY <1>7, <1>10
    <3> QED
      BY <1>9, <1>10, <3>1, <3>2 DEF WentOn, Ok
  <2>3. Cut'
    BY <1>7, <1>12, <1>10, <2>1, <2>2 DEF Cut
  <2>4. ResultInv'
    BY <2>1, <2>3 DEF ResultInv
  <2> QED
    BY <1>7, <1>8, <2>4 DEF CInv
<1> QED
  BY <1>11, <1>12

\* What the result tells of the body's outcome.
LEMMA BodyResults ==
  /\ \A e, matcher : build_testcase_body(e, matcher) = "ok" <=> e = "ok"
  /\ \A matcher : build_testcase_body("panic", matcher) = build_testcase_body("panic", FALSE)
BY DEF build_testcase_body

LEMMA BodyKeeps ==
  ASSUME CInv, Body
  PROVE  CInv'
<1>1. found # 0 /\ pc = "setup" /\ level = N /\ UNCHANGED <<program, registry, asked, found, level, code>>
  BY DEF CInv, StageInv, Body, N
<1>2. /\ N \in Nat /\ Len(log) = N /\ \A k \in DOMAIN log : Ok(k)
  BY <1>1, FixturesNumbered DEF CInv, ResultInv
<1>3. PICK e \in {"ok", "err_match", "err_other", "skip", "panic"} :
        /\ log' = Append(log, Ran("body", <<>>, e))
        /\ result' = build_testcase_body(e, registry[found].matcher)
        /\ pc' = IF e = "panic" THEN "report" ELSE "teardown"
  BY DEF Body
<1>4. PICK n \in Nat : n = N /\ N' = n /\ n = level /\ n = Len(log) /\ n + 1 <= 2 * N + 1
  <2>1. N' = N
    BY <1>1 DEF N, Fixtures
  <2> QED
    BY <1>1, <1>2, <2>1
<1>5. <<"body", <<>> >> = Planned(n + 1)
  BY <1>4 DEF Planned
<1>6. level' \in 0 .. N /\ e \in Outcomes
  BY <1>1, <1>2, <1>4 DEF Outcomes
<1>7. /\ LogInv' /\ DOMAIN log = 1 .. n /\ DOMAIN log' = 1 .. n + 1
      /\ Len(log') = n + 1 /\ log'[n + 1].outcome = e
      /\ \A k \in 1 .. n : log'[k] = log[k]
  BY <1>1, <1>3, <1>4, <1>5, <1>6, LogGrows DEF CInv
<1>8. StageInv'
  <2>1. pc' \in {"teardown", "report"}
    BY <1>3
  <2> QED
    BY <1>1, <2>1 DEF CInv, StageInv
<1>9. \A k \in 1 .. n : log'[k].outcome = "ok"
  BY <1>2, <1>7 DEF Ok
<1>10. CASE e = "panic"
  <2>1. pc' = "report" /\ result' = build_testcase_body(e, FALSE)
    BY <1>3, <1>10, BodyResults
  <2>2. WentOn(n + 1)'
    <3>1. \A k \in DOMAIN log' : ~(n < k /\ k < n + 1)
      BY <1>7
    <3>2. \A k \in DOMAIN log' : k <= n => k \in 1 .. n
      BY <1>7
    <3> QED
      BY <1>4, <1>9, <3>1, <3>2 DEF WentOn, Ok
  <2>3. Cut'
    BY <1>4, <1>7, <1>10, <2>1, <2>2 DEF Cut
  <2>4. ResultInv'
    BY <2>1, <2>3 DEF ResultInv
  <2> QED
    BY <1>7, <1>8, <2>4 DEF CInv
<1>11. CASE e # "panic"
  <2>1. pc' = "teardown" /\ result' = build_testcase_body(e, registry'[found'].matcher)
    BY <1>1, <1>3, <1>11
  <2>2. WentOn(n + 2)'
    <3>1. \A k \in DOMAIN log' : n < k => k = n + 1
      BY <1>7
    <3>2. \A k \in DOMAIN log' : k <= n => k \in 1 .. n
      BY <1>7
    <3>3. log'[n + 1].outcome # "panic" /\ BodyEnded' = log'[n + 1].outcome
      BY <1>4, <1>7, <1>11 DEF BodyEnded
    <3> QED
      BY <1>4, <1>9, <3>1, <3>2, <3>3 DEF WentOn, Ok
  <2>3. Tearing'
    <3>1. Len(log') = 2 * n + 1 - level' /\ Len(log') + 1 = n + 2
      BY <1>1, <1>4, <1>7
    <3>2. BodyEnded' = e
      BY <1>4, <1>7 DEF BodyEnded
    <3> QED
      BY <1>4, <2>1, <2>2, <3>1, <3>2 DEF Tearing
  <2>4. ResultInv'
    BY <2>1, <2>3 DEF ResultInv
  <2> QED
    BY <1>7, <1>8, <2>4 DEF CInv
<1> QED
  BY <1>10, <1>11

LEMMA TearDownKeeps ==
  ASSUME CInv, TearDown
  PROVE  CInv'
<1>1. /\ found # 0 /\ pc = "teardown" /\ level > 0 /\ Tearing
      /\ UNCHANGED <<program, registry, asked, found, code>>
  BY DEF CInv, StageInv, ResultInv, TearDown
<1>2. N \in Nat /\ DOMAIN Fixtures = 1 .. N /\ level \in 0 .. N
  BY <1>1, FixturesNumbered DEF CInv, LogInv
<1>3. PICK e \in {"ok", "fixture_err", "skip", "panic"} :
        /\ log' = Append(log, Ran("teardown", Fixtures[level], e))
        /\ IF e = "panic" \/ (e # "ok" /\ result = "ok")
           THEN pc' = "report" /\ result' = build_testcase_body(e, FALSE) /\ UNCHANGED level
           ELSE level' = level - 1 /\ UNCHANGED <<pc, result>>
  BY DEF TearDown
<1>4. PICK n \in Nat : n = N /\ N' = n
  <2>1. N' = N
    BY <1>1 DEF N, Fixtures
  <2> QED
    BY <1>2, <2>1
<1>5. PICK l \in Nat : /\ l = Len(log) /\ l = 2 * n + 1 - level /\ n + 1 <= l /\ l + 1 <= 2 * n + 1
  BY <1>1, <1>2, <1>4 DEF Tearing
<1>6. <<"teardown", Fixtures[level]>> = Planned(l + 1) /\ Fixtures[level] \in Range(Fixtures)
  <2>1. 2 * n + 2 - (l + 1) = level /\ ~(l + 1 <= n) /\ l + 1 # n + 1 /\ level \in 1 .. n
    BY <1>1, <1>2, <1>4, <1>5
  <2> QED
    BY <1>2, <1>4, <2>1 DEF Planned, Range
<1>7. level' \in 0 .. N /\ e \in Outcomes
  <2>1. level' = level \/ level' = level - 1
    BY <1>3
  <2> QED
    BY <1>1, <1>2, <2>1 DEF Outcomes
<1>8. /\ LogInv' /\ DOMAIN log = 1 .. l /\ DOMAIN log' = 1 .. l + 1
      /\ Len(log') = l + 1 /\ log'[l + 1].outcome = e
      /\ \A k \in 1 .. l : log'[k] = log[k]
  BY <1>1, <1>3, <1>4, <1>5, <1>6, <1>7, LogGrows DEF CInv
<1>9. StageInv'
  <2>1. pc' \in {"teardown", "report"}
    BY <1>1, <1>3
  <2> QED
    BY <1>1, <2>1 DEF CInv, StageInv
<1>10. /\ BodyEnded' = BodyEnded /\ BodyEnded = log[n + 1].outcome
       /\ result = "ok" <=> BodyEnded = "ok"
  <2>1. n + 1 \in 1 .. l
    BY <1>5
  <2> QED
    BY <1>1, <1>4, <1>8, <2>1, BodyResults DEF BodyEnded, Tearing
<1>11. WentOn(l + 1)'
  <2>1. \A k \in DOMAIN log' : k < l + 1 => k \in 1 .. l /\ log'[k] = log[k]
    BY <1>8
  <2>2. \A k \in DOMAIN log : k < l + 1
    BY <1>8
  <2>3. WentOn(l + 1)
    BY <1>1, <1>5 DEF Tearing
  <2> QED
    BY <1>4, <1>8, <1>10, <2>1, <2>2, <2>3 DEF WentOn, Ok
<1>12. CASE e = "panic" \/ (e # "ok" /\ result = "ok")
  <2>1. pc' = "report" /\ result' = build_testcase_body(e, FALSE)
    BY <1>3, <1>12
  <2>2. l + 1 > 0 /\ l + 1 > n + 1 /\ (e = "panic" \/ (BodyEnded' = "ok" /\ e # "ok"))
    BY <1>5, <1>10, <1>12
  <2>3. e \in {"fixture_err", "skip", "panic"}
    BY <1>12
  <2>4. Cut'
    BY <1>4, <1>8, <1>11, <2>1, <2>2, <2>3 DEF Cut
  <2>5. ResultInv'
    BY <2>1, <2>4 DEF ResultInv
  <2> QED
    BY <1>8, <1>9, <2>5 DEF CInv
<1>13. CASE ~(e = "panic" \/ (e # "ok" /\ result = "ok"))
  <2>1. pc' = "teardown" /\ level' = level - 1 /\ result' = result
    BY <1>1, <1>3, <1>13
  <2>2. WentOn(l + 2)'
    <3>1. \A k \in DOMAIN log' : k = l + 1 \/ k < l + 1
      BY <1>8
    <3>2. e # "panic" /\ (BodyEnded' = "ok" => e = "ok") /\ ~(l + 1 <= n)
      BY <1>5, <1>10, <1>13
    <3> QED
      BY <1>4, <1>8, <1>11, <3>1, <3>2 DEF WentOn, Ok
  <2>3. Tearing'
    <3>1. Len(log') = 2 * n + 1 - level' /\ Len(log') + 1 = l + 2
      BY <1>1, <1>2, <1>5, <1>8, <2>1
    <3>2. result' = build_testcase_body(BodyEnded', registry'[found'].matcher)
      BY <1>1, <1>10, <2>1 DEF Tearing
    <3> QED
      BY <1>4, <2>2, <3>1, <3>2 DEF Tearing
  <2>4. ResultInv'
    BY <2>1, <2>3 DEF ResultInv
  <2> QED
    BY <1>8, <1>9, <2>4 DEF CInv
<1> QED
  BY <1>12, <1>13

\* The exit codes of the results.
LEMMA ExitCodes ==
  /\ \A e \in Outcomes : /\ build_testcase_body(e, FALSE) # "signal"
                         /\ build_testcase_body(e, TRUE) # "signal"
  /\ run_single("signal") = NoExitCode /\ run_single("ok") = 0 /\ run_single("skip") = SKIP_EXIT_CODE
  /\ run_single("NotRetryEligible") = FAIL_NOT_RETRYABLE_EXIT_CODE
  /\ run_single("Err") = 1 /\ run_single("panic") = 1
BY DEF Outcomes, build_testcase_body, run_single

\* The child finds a case of the name it is asked for.
LEMMA LookupFinds ==
  ASSUME WellRegistered(registry), asked \in DOMAIN registry
  PROVE  /\ Lookup(registry[asked].name) \in DOMAIN registry
         /\ registry[Lookup(registry[asked].name)].name = registry[asked].name
<1> DEFINE name == registry[asked].name
           T == {k \in DOMAIN registry : registry[k].name = name}
<1>1. PICK n \in Nat : DOMAIN registry = 1 .. n
  BY SequenceFacts DEF WellRegistered
<1>2. PICK k \in T : \A j \in T : k <= j
  <2>1. T \in SUBSET Nat /\ asked \in T
    BY <1>1
  <2> HIDE DEF T
  <2> QED
    BY <2>1, LeastNumber
<1>3. \A j \in 1 .. k - 1 : j \in 1 .. n /\ ~(k <= j)
  BY <1>1, <1>2
<1>4. /\ k \in DOMAIN registry /\ registry[k].name = name
      /\ \A j \in 1 .. k - 1 : registry[j].name # name
  BY <1>1, <1>2, <1>3
<1> HIDE DEF name
<1>5. /\ Lookup(name) \in DOMAIN registry /\ registry[Lookup(name)].name = name
  BY <1>4 DEF Lookup
<1> QED
  BY <1>5 DEF name

LEMMA StartKeeps ==
  ASSUME CInv, Start
  PROVE  CInv'
<1>1. /\ found = 0 /\ log = <<>> /\ level = 0 /\ asked \in DOMAIN registry /\ WellRegistered(registry)
      /\ UNCHANGED <<program, registry, asked, level, log, result>>
  BY DEF CInv, StageInv, Start
<1>2. CASE pc' = "exited" /\ code' = Panic101 /\ UNCHANGED found
  <2>1. found' = 0 /\ code' # 0
    BY <1>1, <1>2 DEF Panic101
  <2> QED
    BY <1>1, <1>2, <2>1 DEF CInv, StageInv, LogInv, ResultInv
<1>3. CASE pc' = "setup" /\ found' = Lookup(registry[asked].name) /\ UNCHANGED code
  <2>1. found' \in DOMAIN registry /\ registry[found'].name = registry[asked].name
    BY <1>1, <1>3, LookupFinds
  <2>2. found' # 0
    <3>1. PICK n \in Nat : DOMAIN registry = 1 .. n
      BY <1>1, SequenceFacts DEF WellRegistered
    <3> QED
      BY <2>1, <3>1
  <2>3. StageInv'
    BY <1>1, <1>3, <2>1, <2>2 DEF CInv, StageInv
  <2>4. IsSequence(registry[found'].fixtures)
    BY <1>1, <2>1 DEF WellRegistered
  <2>5. N' \in Nat
    BY <1>1, <2>4, SequenceFacts DEF N, Fixtures
  <2>6. log' = <<>> /\ Len(log') = 0 /\ DOMAIN log' = {} /\ level' = 0 /\ log' \in Seq(Steps')
    <3>1. \A X : <<>> \in Seq(X)
      BY EmptySeq
    <3>2. PICK X : X = Steps'
      OBVIOUS
    <3> QED
      BY <1>1, <3>1, <3>2
  <2>7. LogInv'
    <3>1. PICK n \in Nat : n = N' /\ 0 <= 2 * n + 1 /\ 0 \in 0 .. n
      BY <2>5
    <3> QED
      BY <2>6, <3>1 DEF LogInv
  <2>8. ResultInv'
    BY <1>3, <2>6 DEF ResultInv
  <2> QED
    BY <2>3, <2>7, <2>8 DEF CInv
<1> QED
  BY <1>2, <1>3 DEF Start

LEMMA ExpandKeeps ==
  ASSUME CInv, Expand
  PROVE  CInv'
<1>1. found = 0 /\ pc = "source" /\ UNCHANGED <<program, asked, found, level, log, result, code>>
  BY DEF CInv, StageInv, Expand
<1>2. CASE Compiles(program)
  <2>1. PICK order \in SetToSeqs(DOMAIN program.functions) :
          registry' = FlattenSeq([k \in DOMAIN order |-> generate(program.functions[order[k]])])
    BY <1>2 DEF Expand
  <2>2. WellRegistered(registry')
    BY <1>2, <2>1, ExpansionRegisters DEF CInv, StageInv
  <2>3. pc' = "expanded"
    BY <1>2 DEF Expand
  <2> QED
    BY <1>1, <2>2, <2>3 DEF CInv, StageInv, LogInv, ResultInv
<1>3. CASE ~Compiles(program)
  BY <1>1, <1>3 DEF CInv, StageInv, LogInv, ResultInv, Expand
<1> QED
  BY <1>2, <1>3

LEMMA ExitKeeps ==
  ASSUME CInv, Exit
  PROVE  CInv'
<1>1. /\ found # 0 /\ pc' = "exited" /\ code' = run_single(result)
      /\ UNCHANGED <<program, registry, asked, found, level, log, result>>
  BY DEF CInv, StageInv, Exit
<1>2. Cut \/ (Tearing /\ level = 0)
  BY <1>1 DEF CInv, ResultInv, Exit
<1>3. StageInv'
  BY <1>1 DEF CInv, StageInv
<1>4. LogInv'
  BY <1>1 DEF CInv, LogInv, N, Planned, Fixtures, Steps
<1>5. N' = N
  BY <1>1 DEF N, Fixtures
<1>6. \A l : WentOn(l) => WentOn(l)'
  BY <1>1, <1>5 DEF WentOn, Ok, BodyEnded
<1>7. (Cut => Cut') /\ (Tearing => Tearing')
  BY <1>1, <1>5, <1>6 DEF Cut, Tearing, BodyEnded
<1>8. ResultInv'
  BY <1>1, <1>2, <1>7 DEF ResultInv
<1> QED
  BY <1>3, <1>4, <1>8 DEF CInv

LEMMA KilledKeeps ==
  ASSUME CInv, Killed
  PROVE  CInv'
<1>1. /\ pc' = "exited" /\ code' = NoExitCode /\ NoExitCode # 0
      /\ UNCHANGED <<program, registry, asked, found, level, log, result>>
  BY ExitCodes DEF Killed, NoExitCode
<1>2. StageInv'
  BY <1>1 DEF CInv, StageInv, Killed
<1>3. LogInv'
  BY <1>1 DEF CInv, LogInv, N, Planned, Fixtures, Steps
<1>4. ResultInv'
  BY <1>1 DEF ResultInv
<1> QED
  BY <1>2, <1>3, <1>4 DEF CInv

\* In every reachable state the log is a beginning of what the parameters ask
\* for, and the result is that of the step that ended it (runner.rs:16-49,
\* testcase.rs:867-931).
THEOREM LogFollowsThePlan == Spec => []CInv
<1>1. Init => CInv
  BY DEF Init, CInv, StageInv, LogInv, ResultInv
<1>2. CInv /\ [Next]_vars => CInv'
  <2> SUFFICES ASSUME CInv, [Next]_vars PROVE CInv'
    OBVIOUS
  <2>1. CASE Expand
    BY <2>1, ExpandKeeps
  <2>2. CASE Ask
    <3>1. /\ found = 0 /\ pc' = "load" /\ asked' \in DOMAIN registry /\ WellRegistered(registry)
          /\ UNCHANGED <<program, registry, found, level, log, result, code>>
      BY <2>2 DEF CInv, StageInv, Ask
    <3> QED
      BY <3>1 DEF CInv, StageInv, LogInv, ResultInv
  <2>3. CASE Start
    BY <2>3, StartKeeps
  <2>4. CASE SetUp
    BY <2>4, SetUpKeeps
  <2>5. CASE Body
    BY <2>5, BodyKeeps
  <2>6. CASE TearDown
    BY <2>6, TearDownKeeps
  <2>7. CASE Exit
    BY <2>7, ExitKeeps
  <2>8. CASE Killed
    BY <2>8, KilledKeeps
  <2>9. CASE UNCHANGED vars
    <3>1. UNCHANGED <<program, pc, registry, asked, found, level, log, result, code>>
      BY <2>9 DEF vars
    <3>2. N' = N /\ StageInv'
      BY <3>1 DEF N, Fixtures, CInv, StageInv
    <3>3. LogInv'
      BY <3>1 DEF CInv, LogInv, N, Planned, Fixtures, Steps
    <3>4. \A l : WentOn(l) => WentOn(l)'
      BY <3>1, <3>2 DEF WentOn, Ok, BodyEnded
    <3>5. (Cut => Cut') /\ (Tearing => Tearing')
      BY <3>1, <3>2, <3>4 DEF Cut, Tearing, BodyEnded
    <3>6. ResultInv'
      BY <3>1, <3>5 DEF CInv, ResultInv, Ok
    <3> QED
      BY <3>2, <3>3, <3>6 DEF CInv
  <2> QED
    BY <2>1, <2>2, <2>3, <2>4, <2>5, <2>6, <2>7, <2>8, <2>9 DEF Next
<1> QED
  BY <1>1, <1>2, PTL DEF Spec

-----------------------------------------------------------------------------
(* What the cases of a function are tried with                             *)

\* How many of the first k parameters are of a kind.
Upto(params, kind, k) == Cardinality({j \in 1 .. k : Is(params[j], kind)})

\* Where in the list of parameters those of a kind are.
Numbers(params, kind, at) ==
    /\ DOMAIN at = DOMAIN Of(params, kind)
    /\ \A r \in DOMAIN at :
         /\ at[r] \in DOMAIN params /\ Is(params[at[r]], kind)
         /\ Of(params, kind)[r] = params[at[r]]
         /\ Upto(params, kind, at[r]) = r
    /\ \A k \in DOMAIN params : Is(params[k], kind) =>
         Upto(params, kind, k) \in DOMAIN at /\ at[Upto(params, kind, k)] = k

\* A parameter is found again by its number among those of its kind, and that
\* number is what the expansion counts for it.
LEMMA ParamsAreNumbered ==
  ASSUME NEW params, IsSequence(params), NEW kind
  PROVE  /\ \E at : Numbers(params, kind, at)
         /\ Len(Of(params, kind)) \in Nat /\ DOMAIN Of(params, kind) = 1 .. Len(Of(params, kind))
         /\ \A k \in DOMAIN params : Len(Of(SubSeq(params, 1, k), kind)) = Upto(params, kind, k)
<1>1. PICK n \in Nat : n = Len(params) /\ DOMAIN params = 1 .. n /\ params \in Seq(Range(params))
  BY SequenceFacts
<1> DEFINE ks == {k \in DOMAIN params : Is(params[k], kind)}
<1>0. ks \in SUBSET DOMAIN params
  OBVIOUS
<1>10. PICK c \in Nat : c = Cardinality(ks)
  <2> HIDE DEF ks
  <2> QED
    BY <1>0, <1>1, SubsequenceType
<1>2. PICK at \in [1 .. c -> ks] : c = Cardinality(ks) /\ Selects(at, params, ks)
  <2> HIDE DEF ks
  <2> QED
    BY <1>0, <1>1, <1>10, SubsequenceType
<1>3. Of(params, kind) = Subsequence(params, ks)
  BY DEF Of
<1>4. ASSUME NEW r \in 1 .. c
      PROVE  /\ at[r] \in ks /\ at[r] \in DOMAIN params /\ Is(params[at[r]], kind)
             /\ Of(params, kind)[r] = params[at[r]]
             /\ Upto(params, kind, at[r]) = r
  <2>1. PICK k \in ks : k = at[r]
    BY <1>2
  <2>2. {j \in 1 .. k : Is(params[j], kind)} = {j \in ks : j <= k}
    BY <1>1
  <2>3. /\ Cardinality({j \in ks : j <= at[r]}) = r
        /\ Subsequence(params, ks)[r] = params[at[r]]
    <3> HIDE DEF ks
    <3> QED
      BY <1>2 DEF Selects
  <2>4. Upto(params, kind, k) = r
    <3> HIDE DEF ks
    <3> QED
      BY <2>1, <2>2, <2>3 DEF Upto
  <2> QED
    BY <1>3, <2>1, <2>3, <2>4
<1>5. DOMAIN Of(params, kind) = 1 .. c /\ DOMAIN at = 1 .. c
  BY <1>2, <1>3 DEF Selects
<1>6. ASSUME NEW k \in DOMAIN params, Is(params[k], kind)
      PROVE  Upto(params, kind, k) \in 1 .. c /\ at[Upto(params, kind, k)] = k
  <2>1. k \in ks
    BY <1>6
  <2>2. PICK r \in 1 .. c : at[r] = k
    <3> HIDE DEF ks
    <3> QED
      BY <1>2, <2>1 DEF Selects
  <2>3. Upto(params, kind, k) = r
    BY <1>4, <2>2
  <2> QED
    BY <2>2, <2>3
<1>7. Numbers(params, kind, at)
  <2> HIDE DEF ks
  <2> QED
    BY <1>4, <1>5, <1>6 DEF Numbers
<1>8. Len(Of(params, kind)) = c
  <2>1. Of(params, kind) \in Seq(Range(params))
    BY OfParams
  <2>2. Len(Of(params, kind)) \in Nat /\ DOMAIN Of(params, kind) = 1 .. Len(Of(params, kind))
    BY <2>1, LenProperties
  <2> QED
    BY <1>5, <2>2
<1>9. ASSUME NEW k \in DOMAIN params
      PROVE  Len(Of(SubSeq(params, 1, k), kind)) = Upto(params, kind, k)
  <2>1. PICK s : /\ s = SubSeq(params, 1, k) /\ s \in Seq(Range(params)) /\ Len(s) = k
                 /\ \A j \in 1 .. k : s[j] = params[j]
    <3>1. 1 \in 1 .. n + 1 /\ k \in 0 .. n /\ k \in Nat /\ 1 <= k /\ k - 1 + 1 = k
      BY <1>1
    <3>2. /\ SubSeq(params, 1, k) \in Seq(Range(params)) /\ Len(SubSeq(params, 1, k)) = k - 1 + 1
          /\ \A j \in 1 .. k - 1 + 1 : SubSeq(params, 1, k)[j] = params[1 + j - 1]
      BY <1>1, <3>1, SubSeqProperties
    <3>3. \A j \in 1 .. k : 1 + j - 1 = j
      BY <3>1
    <3> QED
      BY <3>1, <3>2, <3>3
  <2>2. DOMAIN s = 1 .. k
    BY <2>1, LenProperties
  <2> DEFINE js == {j \in DOMAIN s : Is(s[j], kind)}
  <2>3. js = {j \in 1 .. k : Is(params[j], kind)} /\ js \in SUBSET DOMAIN s
    BY <2>1, <2>2
  <2>4. Of(s, kind) = Subsequence(s, js)
    BY DEF Of
  <2>5. Len(Subsequence(s, js)) = Cardinality(js)
    <3> HIDE DEF js
    <3> QED
      BY <2>1, <2>3, SubsequenceType
  <2> HIDE DEF js
  <2> QED
    BY <2>1, <2>3, <2>4, <2>5 DEF Upto
<1> QED
  BY <1>5, <1>7, <1>8, <1>9

\* What the kinds of parameters are, and that they exclude each other.
LEMMA Kinds ==
  ASSUME NEW p, ~(p.case /\ p.values # {})
  PROVE  /\ Is(p, "Ctx") \/ Is(p, "Fixture") \/ Is(p, "Case") \/ Is(p, "Values")
         /\ Is(p, "Fixture") => ~Is(p, "Ctx")
         /\ Is(p, "Case") => ~Is(p, "Ctx") /\ ~Is(p, "Fixture")
         /\ Is(p, "Values") => ~Is(p, "Ctx") /\ ~Is(p, "Fixture") /\ ~Is(p, "Case")
         /\ Is(p, "Values") => p.values # {}
<1>1. Is(p, "Case") <=> p.case
  BY DEF Is
<1>2. Is(p, "Values") <=> p.values # {}
  BY DEF Is
<1>3. Is(p, "Ctx") <=> ~p.case /\ p.values = {} /\ p.type = "ctx"
  BY DEF Is
<1>4. Is(p, "Fixture") <=> ~p.case /\ p.values = {} /\ p.type # "ctx"
  BY DEF Is
<1> QED
  BY <1>1, <1>2, <1>3, <1>4, Zenon

\* What ASSUME ProgramsAssumption and the checks say of a list of parameters.
Usual(params) ==
    /\ IsSequence(params)
    /\ \A k \in DOMAIN params :
         /\ ~(params[k].case /\ params[k].values # {})
         /\ \A v \in params[k].values : params[k].values = {v}

\* The d-th list is that of the d-th parameter that has one.
LEMMA ListsOfParams ==
  ASSUME NEW params, Usual(params)
  PROVE  /\ DOMAIN ValueLists(params) = DOMAIN Of(params, "Values")
         /\ \A k \in DOMAIN params : Is(params[k], "Values") =>
              /\ Upto(params, "Values", k) \in DOMAIN ValueLists(params)
              /\ params[k].values = {ValueLists(params)[Upto(params, "Values", k)]}
<1>1. PICK at : Numbers(params, "Values", at)
  BY ParamsAreNumbered DEF Usual
<1>2. DOMAIN ValueLists(params) = DOMAIN Of(params, "Values")
  BY DEF ValueLists
<1>3. ASSUME NEW k \in DOMAIN params, Is(params[k], "Values")
      PROVE  /\ Upto(params, "Values", k) \in DOMAIN ValueLists(params)
             /\ params[k].values = {ValueLists(params)[Upto(params, "Values", k)]}
  <2>1. PICK d : d = Upto(params, "Values", k) /\ d \in DOMAIN Of(params, "Values")
                 /\ Of(params, "Values")[d] = params[k]
    BY <1>1, <1>3 DEF Numbers
  <2>2. ValueLists(params)[d] = CHOOSE v \in params[k].values : TRUE
    BY <2>1 DEF ValueLists
  <2>3. params[k].values # {}
    BY <1>3, Kinds DEF Usual
  <2>4. PICK v \in params[k].values : v = ValueLists(params)[d]
    BY <2>2, <2>3
  <2> QED
    BY <1>2, <2>1, <2>4 DEF Usual
<1> QED
  BY <1>2, <1>3

\* The arguments of a case.
Arguments(params, row, tuple) == [k \in DOMAIN params |-> Args(params, row, tuple)[k].value]

\* The argument of each kind of parameter, and what it may be.
ArgsAre(params, row, tuple, args) ==
    /\ DOMAIN args = DOMAIN params
    /\ \A k \in DOMAIN params :
         /\ Is(params[k], "Ctx") => args[k] = <<"ctx">>
         /\ Is(params[k], "Fixture") => args[k] = fixture_target(params[k].name)
         /\ Is(params[k], "Case") => args[k] = row.values[Upto(params, "Case", k)]
         /\ Is(params[k], "Values") =>
              args[k] = ValueLists(params)[Upto(params, "Values", k)][tuple[Upto(params, "Values", k)]]

MayBe(params, row, k, allowed) ==
    /\ Is(params[k], "Ctx") => allowed = { <<"ctx">> }
    /\ Is(params[k], "Fixture") => allowed = {fixture_target(params[k].name)}
    /\ Is(params[k], "Case") => allowed = {row.values[Upto(params, "Case", k)]}
    /\ Is(params[k], "Values") =>
         allowed = Range(ValueLists(params)[Upto(params, "Values", k)])

LEMMA ArgumentsPlaced ==
  ASSUME NEW params, Usual(params), NEW row, NEW tuple
  PROVE  \E a : /\ a = Arguments(params, row, tuple) /\ ArgsAre(params, row, tuple, a)
                /\ a = [k \in DOMAIN params |-> a[k]]
<1> DEFINE A == Args(params, row, tuple)
           lists == ValueLists(params)
<1>1. ASSUME NEW k \in DOMAIN params
      PROVE  /\ Is(params[k], "Ctx") => A[k].value = <<"ctx">>
             /\ Is(params[k], "Fixture") => A[k].value = fixture_target(params[k].name)
             /\ Is(params[k], "Case") => A[k].value = row.values[Upto(params, "Case", k)]
             /\ Is(params[k], "Values") =>
                  A[k].value = lists[Upto(params, "Values", k)][tuple[Upto(params, "Values", k)]]
  <2>1. PICK c, d : /\ c = Upto(params, "Case", k) /\ c = Len(Of(SubSeq(params, 1, k), "Case"))
                    /\ d = Upto(params, "Values", k) /\ d = Len(Of(SubSeq(params, 1, k), "Values"))
    BY ParamsAreNumbered DEF Usual
  <2>2. A[k] = CASE Is(params[k], "Ctx")     -> [source |-> "ctx", value |-> <<"ctx">>]
                 [] Is(params[k], "Fixture") -> [source |-> "fixture",
                                                 value |-> fixture_target(params[k].name)]
                 [] Is(params[k], "Case")    -> [source |-> "case", value |-> row.values[c]]
                 [] Is(params[k], "Values")  -> [source |-> "values", value |-> lists[d][tuple[d]]]
    BY <2>1 DEF Args
  <2>3. /\ Is(params[k], "Fixture") => ~Is(params[k], "Ctx")
        /\ Is(params[k], "Case") => ~Is(params[k], "Ctx") /\ ~Is(params[k], "Fixture")
        /\ Is(params[k], "Values") =>
             ~Is(params[k], "Ctx") /\ ~Is(params[k], "Fixture") /\ ~Is(params[k], "Case")
    BY Kinds DEF Usual
  <2> HIDE DEF A, lists
  <2> QED
    BY <2>1, <2>2, <2>3
<1>2. PICK a : a = [k \in DOMAIN params |-> A[k].value]
  OBVIOUS
<1>3. ArgsAre(params, row, tuple, a)
  <2> HIDE DEF A
  <2> QED
    BY <1>1, <1>2 DEF ArgsAre
<1>4. a = Arguments(params, row, tuple)
  BY <1>2 DEF Arguments
<1>5. a = [k \in DOMAIN params |-> a[k]]
  <2> HIDE DEF A
  <2> QED
    BY <1>2
<1> QED
  BY <1>3, <1>4, <1>5

LEMMA AllowedValues ==
  ASSUME NEW params, Usual(params), NEW row, NEW k \in DOMAIN params
  PROVE  MayBe(params, row, k, Allowed(params, row, k))
<1>1. PICK c, d : c = Upto(params, "Case", k) /\ d = Upto(params, "Values", k)
  OBVIOUS
<1>2. Allowed(params, row, k) =
        CASE Is(params[k], "Ctx")     -> { <<"ctx">> }
          [] Is(params[k], "Fixture") -> {fixture_target(params[k].name)}
          [] Is(params[k], "Case")    -> {row.values[c]}
          [] Is(params[k], "Values")  -> UNION {Range(v) : v \in params[k].values}
  BY <1>1 DEF Allowed, Upto
<1>3. /\ Is(params[k], "Fixture") => ~Is(params[k], "Ctx")
      /\ Is(params[k], "Case") => ~Is(params[k], "Ctx") /\ ~Is(params[k], "Fixture")
      /\ Is(params[k], "Values") =>
           ~Is(params[k], "Ctx") /\ ~Is(params[k], "Fixture") /\ ~Is(params[k], "Case")
  BY Kinds DEF Usual
<1>4. Is(params[k], "Values") =>
        UNION {Range(v) : v \in params[k].values} = Range(ValueLists(params)[d])
  BY <1>1, ListsOfParams
<1> QED
  BY <1>1, <1>2, <1>3, <1>4 DEF MayBe

\* What may be chosen for a row.
ChoicesOf(params, row) ==
    {a \in [DOMAIN params -> UNION {Allowed(params, row, k) : k \in DOMAIN params}] :
        \A k \in DOMAIN params : a[k] \in Allowed(params, row, k)}

LEMMA TuplesAreChoices ==
  ASSUME NEW params, Usual(params), NEW row, NEW n, DOMAIN ValueLists(params) = 1 .. n,
         NEW t \in IndexTuples(ValueLists(params), n)
  PROVE  Arguments(params, row, t) \in ChoicesOf(params, row)
<1>1. PICK a : a = Arguments(params, row, t) /\ ArgsAre(params, row, t, a)
               /\ a = [k \in DOMAIN params |-> a[k]]
  BY ArgumentsPlaced
<1>2. ASSUME NEW k \in DOMAIN params PROVE a[k] \in Allowed(params, row, k)
  <2>1. MayBe(params, row, k, Allowed(params, row, k))
    BY AllowedValues
  <2>2. CASE Is(params[k], "Values")
    <3>1. PICK d : d = Upto(params, "Values", k) /\ d \in DOMAIN ValueLists(params)
      BY <2>2, ListsOfParams
    <3>2. t[d] \in DOMAIN ValueLists(params)[d]
      BY <3>1 DEF IndexTuples
    <3>3. ValueLists(params)[d][t[d]] \in Range(ValueLists(params)[d])
      BY <3>2 DEF Range
    <3> QED
      BY <1>1, <2>1, <2>2, <3>1, <3>3 DEF ArgsAre, MayBe
  <2>3. Is(params[k], "Ctx") \/ Is(params[k], "Fixture") \/ Is(params[k], "Case") \/ Is(params[k], "Values")
    BY Kinds DEF Usual
  <2> QED
    BY <1>1, <2>1, <2>2, <2>3 DEF ArgsAre, MayBe
<1> QED
  BY <1>1, <1>2 DEF ChoicesOf

LEMMA ChoicesAreTuples ==
  ASSUME NEW params, Usual(params), NEW row, NEW n \in Nat, DOMAIN ValueLists(params) = 1 .. n,
         \A d \in 1 .. n : IsSequence(ValueLists(params)[d]),
         NEW a \in ChoicesOf(params, row)
  PROVE  \E t \in IndexTuples(ValueLists(params), n) : Arguments(params, row, t) = a
<1>1. PICK lists : lists = ValueLists(params)
  OBVIOUS
<1>2. PICK at : Numbers(params, "Values", at)
  BY ParamsAreNumbered DEF Usual
<1>3. DOMAIN at = 1 .. n
  BY <1>2, ListsOfParams DEF Numbers
<1>4. \A d \in 1 .. n : /\ at[d] \in DOMAIN params /\ Is(params[at[d]], "Values")
                        /\ Upto(params, "Values", at[d]) = d
  BY <1>2, <1>3 DEF Numbers
<1>5. a = [k \in DOMAIN params |-> a[k]] /\ \A k \in DOMAIN params : a[k] \in Allowed(params, row, k)
  BY DEF ChoicesOf
<1>6. ASSUME NEW d \in 1 .. n PROVE \E i \in DOMAIN lists[d] : lists[d][i] = a[at[d]]
  <2>1. PICK k \in DOMAIN params : k = at[d] /\ Is(params[k], "Values") /\ Upto(params, "Values", k) = d
    BY <1>4
  <2>2. Allowed(params, row, k) = Range(lists[d])
    BY <1>1, <2>1, AllowedValues DEF MayBe
  <2>3. a[k] \in Range(lists[d])
    BY <1>5, <2>2
  <2> QED
    BY <2>1, <2>3 DEF Range
<1> DEFINE t == [d \in 1 .. n |-> CHOOSE i \in DOMAIN lists[d] : lists[d][i] = a[at[d]]]
<1>7. ASSUME NEW d \in 1 .. n
      PROVE  t[d] \in DOMAIN lists[d] /\ lists[d][t[d]] = a[at[d]] /\ t[d] \in Nat
  <2>1. t[d] \in DOMAIN lists[d] /\ lists[d][t[d]] = a[at[d]]
    BY <1>6
  <2>2. DOMAIN lists[d] = 1 .. Len(lists[d]) /\ Len(lists[d]) \in Nat
    BY <1>1, SequenceFacts
  <2> QED
    BY <2>1, <2>2
<1>8. t \in [1 .. n -> Nat]
  BY <1>7
<1> HIDE DEF t
<1>9. t \in Seq(Nat) /\ Len(t) = n
  BY <1>8
<1>10. t \in IndexTuples(lists, n)
  BY <1>7, <1>9 DEF IndexTuples
<1>11. PICK b : b = Arguments(params, row, t) /\ ArgsAre(params, row, t, b)
                /\ b = [k \in DOMAIN params |-> b[k]]
  BY ArgumentsPlaced
<1>12. ASSUME NEW k \in DOMAIN params PROVE b[k] = a[k]
  <2>1. MayBe(params, row, k, Allowed(params, row, k)) /\ a[k] \in Allowed(params, row, k)
    BY <1>5, AllowedValues
  <2>2. CASE Is(params[k], "Values")
    <3>1. PICK d \in 1 .. n : d = Upto(params, "Values", k) /\ at[d] = k
      BY <1>2, <1>3, <2>2 DEF Numbers
    <3>2. b[k] = lists[d][t[d]]
      BY <1>1, <1>11, <2>2, <3>1 DEF ArgsAre
    <3> QED
      BY <1>7, <3>1, <3>2
  <2>3. Is(params[k], "Ctx") \/ Is(params[k], "Fixture") \/ Is(params[k], "Case") \/ Is(params[k], "Values")
    BY Kinds DEF Usual
  <2> QED
    BY <1>11, <2>1, <2>2, <2>3 DEF ArgsAre, MayBe
<1> QED
  BY <1>1, <1>5, <1>10, <1>11, <1>12

SameRow(params, row1, row2) ==
    \A r \in DOMAIN Of(params, "Case") : row1.values[r] = row2.values[r]

\* Where no list repeats a value, the arguments tell the tuples apart, and they
\* tell all values of a row.
LEMMA ArgumentsTell ==
  ASSUME NEW params, Usual(params), NEW n \in Nat, DOMAIN ValueLists(params) = 1 .. n,
         NEW row1, NEW row2,
         NEW t \in IndexTuples(ValueLists(params), n), NEW u \in IndexTuples(ValueLists(params), n),
         Arguments(params, row1, t) = Arguments(params, row2, u)
  PROVE  /\ SameRow(params, row1, row2)
         /\ NoValueTwice(params) => t = u
<1>1. PICK lists : lists = ValueLists(params)
  OBVIOUS
<1>2. PICK a : /\ a = Arguments(params, row1, t) /\ a = Arguments(params, row2, u)
               /\ ArgsAre(params, row1, t, a) /\ ArgsAre(params, row2, u, a)
  BY ArgumentsPlaced
<1>3. ASSUME NEW r \in DOMAIN Of(params, "Case") PROVE row1.values[r] = row2.values[r]
  <2>1. PICK at : Numbers(params, "Case", at)
    BY ParamsAreNumbered DEF Usual
  <2>2. PICK k \in DOMAIN params : k = at[r] /\ Is(params[k], "Case") /\ Upto(params, "Case", k) = r
    BY <2>1 DEF Numbers
  <2> QED
    BY <1>2, <2>2 DEF ArgsAre
<1>4. ASSUME NoValueTwice(params)
      PROVE  t = u
  <2>1. PICK at : Numbers(params, "Values", at)
    BY ParamsAreNumbered DEF Usual
  <2>2. /\ t \in Seq(Nat) /\ Len(t) = n /\ \A d \in 1 .. n : t[d] \in DOMAIN lists[d]
        /\ u \in Seq(Nat) /\ Len(u) = n /\ \A d \in 1 .. n : u[d] \in DOMAIN lists[d]
    BY <1>1 DEF IndexTuples
  <2>3. ASSUME NEW d \in 1 .. n PROVE t[d] = u[d]
    <3>1. PICK k \in DOMAIN params : k = at[d] /\ Is(params[k], "Values") /\ Upto(params, "Values", k) = d
      BY <2>1, ListsOfParams DEF Numbers
    <3>2. lists[d] \in params[k].values
      BY <1>1, <3>1, ListsOfParams
    <3>3. IsInjective(lists[d])
      BY <1>4, <3>2 DEF NoValueTwice
    <3>4. lists[d][t[d]] = lists[d][u[d]]
      BY <1>1, <1>2, <3>1 DEF ArgsAre
    <3> QED
      BY <2>2, <3>3, <3>4 DEF IsInjective
  <2> QED
    BY <2>2, <2>3, SeqEqual
<1> QED
  BY <1>3, <1>4 DEF SameRow

\* Rows of b, one after the other: each row and column is that of one number.
LEMMA NoPlaceTwice ==
  ASSUME NEW a \in Nat, NEW b \in Nat, NEW i \in 1 .. a * b, NEW j \in 1 .. a * b,
         (i - 1) \div b = (j - 1) \div b, (i - 1) % b = (j - 1) % b
  PROVE  i = j
<1>1. b # 0
  BY InRows
<1>2. i - 1 = b * ((i - 1) \div b) + ((i - 1) % b)
  BY <1>1
<1>3. j - 1 = b * ((j - 1) \div b) + ((j - 1) % b)
  BY <1>1
<1> QED
  BY <1>2, <1>3

Placed(b, i, r, c) == 1 + ((i - 1) \div b) = r /\ 1 + ((i - 1) % b) = c

LEMMA NoPlaceEmpty ==
  ASSUME NEW a \in Nat, NEW b \in Nat, NEW r \in 1 .. a, NEW c \in 1 .. b
  PROVE  \E i \in 1 .. a * b : Placed(b, i, r, c)
<1>1. PICK p \in Nat, q \in Nat : p = r - 1 /\ q = c - 1 /\ p <= a - 1 /\ q < b
  OBVIOUS
<1>2. PICK m \in Nat : m = b * p
  BY <1>1
<1>3. m <= b * (a - 1) /\ b * (a - 1) = a * b - b
  BY <1>1, <1>2
<1>4. (m + q) \div b = p /\ (m + q) % b = q
  BY <1>1, <1>2
<1>5. m + q + 1 \in 1 .. a * b /\ m + q + 1 - 1 = m + q
  BY <1>1, <1>3
<1> QED
  BY <1>1, <1>4, <1>5 DEF Placed

\* The rows and the tuples a function expands to, and the case of each number.
Expanded(f, n, entries, a, tuples, b) ==
    /\ DOMAIN ValueLists(f.params) = 1 .. n
    /\ \A d \in 1 .. n : IsSequence(ValueLists(f.params)[d])
    /\ DOMAIN entries = 1 .. a
    /\ entries = IF f.rows = <<>> THEN <<NoRow>> ELSE f.rows
    /\ DOMAIN tuples = 1 .. b
    /\ Enumerates(tuples, IndexTuples(ValueLists(f.params), n))
    /\ Tried(f) = [i \in 1 .. a * b |->
                     Arguments(f.params, entries[1 + ((i - 1) \div b)], tuples[1 + ((i - 1) % b)])]

LEMMA Expansion ==
  ASSUME NEW f, Parsed(f)
  PROVE  \E n \in Nat, a \in Nat, b \in Nat : \E entries, tuples : Expanded(f, n, entries, a, tuples, b)
<1>1. PICK lists : lists = ValueLists(f.params)
  OBVIOUS
<1>2. PICK n \in Nat : n = Len(lists) /\ DOMAIN lists = 1 .. n /\ \A d \in 1 .. n : IsSequence(lists[d])
  BY <1>1, ValueListsAreSequences DEF Parsed
<1>3. PICK tuples : tuples = value_index_tuples(lists) /\ Enumerates(tuples, IndexTuples(lists, n))
  BY <1>2, TuplesAreSequences
<1>4. PICK b \in Nat : b = Len(tuples) /\ DOMAIN tuples = 1 .. b
  <2>1. tuples \in Seq(IndexTuples(lists, n))
    BY <1>3 DEF Enumerates
  <2> QED
    BY <2>1, LenProperties
<1>5. PICK entries : entries = IF f.rows = <<>> THEN <<NoRow>> ELSE f.rows
  OBVIOUS
<1>6. PICK a \in Nat : a = Len(entries) /\ DOMAIN entries = 1 .. a
  <2>1. CASE f.rows = <<>>
    <3>1. entries = <<NoRow>>
      BY <1>5, <2>1
    <3>2. Len(entries) = 1 /\ DOMAIN entries = 1 .. 1
      BY <3>1
    <3> QED
      BY <3>2
  <2>2. CASE f.rows # <<>>
    BY <1>5, <2>2, SequenceFacts DEF Parsed
  <2> QED
    BY <2>1, <2>2
<1> DEFINE row(i) == entries[1 + ((i - 1) \div b)]
           tuple(i) == tuples[1 + ((i - 1) % b)]
<1>7. /\ DOMAIN Plan(f) = 1 .. a * b
      /\ \A i \in 1 .. a * b : Plan(f)[i].args = Args(f.params, row(i), tuple(i))
  BY <1>1, <1>3, <1>4, <1>5, <1>6 DEF Plan
<1> HIDE DEF row, tuple
<1>8. /\ DOMAIN generate(f) = 1 .. a * b
      /\ \A i \in 1 .. a * b : generate(f)[i].args = Args(f.params, row(i), tuple(i))
  BY <1>7 DEF generate, TestCase
<1>9. Tried(f) = [i \in 1 .. a * b |-> Arguments(f.params, row(i), tuple(i))]
  BY <1>8 DEF Tried, Arguments
<1>10. Expanded(f, n, entries, a, tuples, b)
  BY <1>1, <1>2, <1>3, <1>4, <1>5, <1>6, <1>9 DEF Expanded, row, tuple
<1> QED
  BY <1>10

LEMMA ParsedIsUsual ==
  ASSUME NEW f, Parsed(f), ~Rejected(f)
  PROVE  Usual(f.params)
BY DEF Parsed, Rejected, BadParams, Usual

\* Every row meets every choice of values, and no case has other arguments.
LEMMA EveryCombination ==
  ASSUME NEW f, Parsed(f), ~Rejected(f)
  PROVE  Range(Tried(f)) = Combinations(f)
<1>0. PICK n \in Nat, a \in Nat, b \in Nat : \E entries, tuples : Expanded(f, n, entries, a, tuples, b)
  BY Expansion
<1>1. PICK entries, tuples : Expanded(f, n, entries, a, tuples, b)
  BY <1>0
<1>2. PICK params, lists : params = f.params /\ lists = ValueLists(params) /\ Usual(params)
  BY ParsedIsUsual
<1>3. /\ DOMAIN lists = 1 .. n /\ \A d \in 1 .. n : IsSequence(lists[d])
      /\ DOMAIN entries = 1 .. a /\ DOMAIN tuples = 1 .. b
      /\ Enumerates(tuples, IndexTuples(lists, n))
      /\ Tried(f) = [i \in 1 .. a * b |->
           Arguments(params, entries[1 + ((i - 1) \div b)], tuples[1 + ((i - 1) % b)])]
  BY <1>1, <1>2 DEF Expanded
<1>4. Combinations(f) = UNION {ChoicesOf(params, row) : row \in Range(entries)}
  <2>1. Range(entries) = IF f.rows = <<>> THEN {NoRow} ELSE Range(f.rows)
    <3>1. CASE f.rows = <<>>
      <4>1. entries = <<NoRow>>
        BY <1>1, <3>1 DEF Expanded
      <4>2. DOMAIN entries = {1} /\ entries[1] = NoRow
        BY <4>1
      <4> QED
        BY <3>1, <4>2 DEF Range
    <3>2. CASE f.rows # <<>>
      BY <1>1, <3>2 DEF Expanded
    <3> QED
      BY <3>1, <3>2
  <2>2. Combinations(f) =
          UNION {ChoicesOf(params, row) : row \in IF f.rows = <<>> THEN {NoRow} ELSE Range(f.rows)}
    BY <1>2 DEF Combinations, ChoicesOf
  <2> QED
    BY <2>1, <2>2
<1>5. ASSUME NEW i \in 1 .. a * b PROVE Tried(f)[i] \in Combinations(f)
  <2>1. PICK r \in 1 .. a, c \in 1 .. b : r = 1 + ((i - 1) \div b) /\ c = 1 + ((i - 1) % b)
    BY InRows
  <2>2. Tried(f)[i] = Arguments(params, entries[r], tuples[c])
    BY <1>3, <2>1
  <2>3. tuples[c] \in IndexTuples(lists, n)
    <3>1. tuples \in Seq(IndexTuples(lists, n))
      BY <1>3 DEF Enumerates
    <3> QED
      BY <1>3, <2>1, <3>1, ElementOfSeq
  <2>4. Arguments(params, entries[r], tuples[c]) \in ChoicesOf(params, entries[r])
    BY <1>2, <1>3, <2>3, TuplesAreChoices
  <2>5. entries[r] \in Range(entries)
    BY <1>3 DEF Range
  <2> QED
    BY <1>4, <2>2, <2>4, <2>5
<1>6. ASSUME NEW x \in Combinations(f) PROVE \E i \in 1 .. a * b : Tried(f)[i] = x
  <2>1. PICK row \in Range(entries) : x \in ChoicesOf(params, row)
    BY <1>4
  <2>2. PICK r \in 1 .. a : entries[r] = row
    BY <1>3 DEF Range
  <2>3. PICK t \in IndexTuples(lists, n) : Arguments(params, row, t) = x
    BY <1>2, <1>3, <2>1, ChoicesAreTuples
  <2>4. PICK c \in 1 .. b : tuples[c] = t
    BY <1>3 DEF Enumerates
  <2>5. PICK i \in 1 .. a * b : Placed(b, i, r, c)
    BY NoPlaceEmpty, Zenon
  <2>6. Tried(f)[i] = Arguments(params, entries[r], tuples[c])
    BY <1>3, <2>5 DEF Placed
  <2> QED
    BY <2>2, <2>3, <2>4, <2>6
<1>7. DOMAIN Tried(f) = 1 .. a * b
  BY <1>3
<1> QED
  BY <1>5, <1>6, <1>7 DEF Range

\* Where nothing is written twice, no two cases have the same arguments.
LEMMA OnceEach ==
  ASSUME NEW f, Parsed(f), ~Rejected(f), WithoutRepetition(f)
  PROVE  IsInjective(Tried(f))
<1>0. PICK n \in Nat, a \in Nat, b \in Nat : \E entries, tuples : Expanded(f, n, entries, a, tuples, b)
  BY Expansion
<1>1. PICK entries, tuples : Expanded(f, n, entries, a, tuples, b)
  BY <1>0
<1>2. PICK params, lists : params = f.params /\ lists = ValueLists(params) /\ Usual(params)
  BY ParsedIsUsual
<1>3. /\ DOMAIN lists = 1 .. n
      /\ DOMAIN entries = 1 .. a /\ DOMAIN tuples = 1 .. b
      /\ Enumerates(tuples, IndexTuples(lists, n))
      /\ Tried(f) = [i \in 1 .. a * b |->
           Arguments(params, entries[1 + ((i - 1) \div b)], tuples[1 + ((i - 1) % b)])]
  BY <1>1, <1>2 DEF Expanded
<1>4. ASSUME NEW r \in 1 .. a, NEW s \in 1 .. a, SameRow(params, entries[r], entries[s])
      PROVE  r = s
  <2>1. CASE f.rows = <<>>
    <3>1. DOMAIN entries = 1 .. 1
      BY <1>1, <2>1 DEF Expanded
    <3>2. r \in 1 .. 1 /\ s \in 1 .. 1
      BY <1>3, <3>1, Zenon
    <3> QED
      BY <3>2
  <2>2. CASE f.rows # <<>>
    <3>1. entries = f.rows
      BY <1>1, <2>2 DEF Expanded
    <3>2. PICK want \in Nat : want = Len(Of(params, "Case")) /\ DOMAIN Of(params, "Case") = 1 .. want
      BY <1>2, ParamsAreNumbered DEF Usual
    <3>3. \A k \in 1 .. a : IsSequence(f.rows[k].values) /\ Len(f.rows[k].values) = want
      <4>1. ~BadCaseShape(f.rows, params)
        BY <1>2 DEF Rejected
      <4> QED
        BY <1>3, <2>2, <3>1, <3>2, <4>1 DEF BadCaseShape, Parsed
    <3>4. PICK u, v : u = f.rows[r].values /\ v = f.rows[s].values
      OBVIOUS
    <3>5. /\ u \in Seq(Range(u)) /\ Len(u) = want
          /\ v \in Seq(Range(v)) /\ Len(v) = want
          /\ \A k \in 1 .. want : u[k] = v[k]
      BY <1>4, <3>1, <3>2, <3>3, <3>4 DEF IsSequence, SameRow
    <3>6. u = v
      BY <3>5, SeqEqual
    <3> QED
      BY <1>3, <3>1, <3>4, <3>6 DEF WithoutRepetition
  <2> QED
    BY <2>1, <2>2
<1>5. ASSUME NEW i \in 1 .. a * b, NEW j \in 1 .. a * b, Tried(f)[i] = Tried(f)[j]
      PROVE  i = j
  <2>1. PICK r \in 1 .. a, c \in 1 .. b : r = 1 + ((i - 1) \div b) /\ c = 1 + ((i - 1) % b)
    BY InRows
  <2>2. PICK s \in 1 .. a, d \in 1 .. b : s = 1 + ((j - 1) \div b) /\ d = 1 + ((j - 1) % b)
    BY InRows
  <2>3. Arguments(params, entries[r], tuples[c]) = Arguments(params, entries[s], tuples[d])
    BY <1>3, <1>5, <2>1, <2>2
  <2>4. tuples[c] \in IndexTuples(lists, n) /\ tuples[d] \in IndexTuples(lists, n)
    <3>1. tuples \in Seq(IndexTuples(lists, n))
      BY <1>3 DEF Enumerates
    <3> QED
      BY <1>3, <2>1, <3>1, ElementOfSeq
  <2>5. PICK row1, row2, t, u :
          /\ row1 = entries[r] /\ row2 = entries[s] /\ t = tuples[c] /\ u = tuples[d]
          /\ t \in IndexTuples(lists, n) /\ u \in IndexTuples(lists, n)
    BY <2>4
  <2>6. SameRow(params, row1, row2) /\ (NoValueTwice(params) => t = u)
    <3>1. DOMAIN ValueLists(params) = 1 .. n /\ Usual(params)
      BY <1>2, <1>3
    <3>2. \A v, w \in IndexTuples(ValueLists(params), n) :
            Arguments(params, row1, v) = Arguments(params, row2, w) =>
              SameRow(params, row1, row2) /\ (NoValueTwice(params) => v = w)
      BY <3>1, ArgumentsTell
    <3>3. Arguments(params, row1, t) = Arguments(params, row2, u)
      BY <2>3, <2>5
    <3>4. t \in IndexTuples(ValueLists(params), n) /\ u \in IndexTuples(ValueLists(params), n)
      BY <1>2, <2>5
    <3> QED
      BY <3>2, <3>3, <3>4, Zenon
  <2>7. r = s /\ c = d
    <3>1. r = s
      BY <1>4, <2>5, <2>6
    <3>2. tuples[c] = tuples[d]
      BY <1>2, <2>5, <2>6 DEF WithoutRepetition
    <3>3. \A x, y \in 1 .. b : tuples[x] = tuples[y] => x = y
      BY <1>3 DEF Enumerates
    <3> QED
      BY <3>1, <3>2, <3>3
  <2>8. (i - 1) \div b = (j - 1) \div b /\ (i - 1) % b = (j - 1) % b
    <3>1. b # 0
      BY InRows
    <3>2. /\ (i - 1) \div b \in Int /\ (j - 1) \div b \in Int
          /\ (i - 1) % b \in Int /\ (j - 1) % b \in Int
      BY <3>1
    <3> QED
      BY <2>1, <2>2, <2>7, <3>2
  <2> QED
    BY <2>8, NoPlaceTwice
<1>6. DOMAIN Tried(f) = 1 .. a * b
  BY <1>3
<1> QED
  BY <1>5, <1>6 DEF IsInjective

-----------------------------------------------------------------------------
(* The properties                                                          *)

\* Only what compiles is expanded.
LEMMA ExpandedCompiles == Spec => [](pc = "expanded" => program \in Programs /\ Compiles(program))
<1> DEFINE XInv == program \in Programs /\ (pc = "expanded" => Compiles(program))
<1>1. Init => XInv
  BY DEF Init
<1>2. XInv /\ [Next]_vars => XInv'
  <2> SUFFICES ASSUME XInv, [Next]_vars PROVE XInv'
    OBVIOUS
  <2>1. CASE Expand
    <3>1. program' = program
      BY <2>1 DEF Expand
    <3>2. pc' = "expanded" => Compiles(program)
      BY <2>1 DEF Expand
    <3> QED
      BY <3>1, <3>2
  <2>2. CASE Ask \/ Start \/ SetUp \/ Body \/ TearDown \/ Exit \/ Killed
    <3>1. program' = program /\ (pc' # "expanded" \/ pc' = pc)
      BY <2>2 DEF Ask, Start, SetUp, Body, TearDown, Exit, Killed
    <3> QED
      BY <3>1
  <2>3. CASE UNCHANGED vars
    BY <2>3 DEF vars
  <2> QED
    BY <2>1, <2>2, <2>3 DEF Next
<1>3. XInv => (pc = "expanded" => program \in Programs /\ Compiles(program))
  OBVIOUS
<1> QED
  BY <1>1, <1>2, <1>3, PTL DEF Spec

LEMMA CompiledFunctions ==
  ASSUME NEW p \in Programs, Compiles(p), NEW k \in DOMAIN p.functions
  PROVE  Parsed(p.functions[k]) /\ ~Rejected(p.functions[k])
BY ProgramsAssumption DEF Parsed, Compiles

\* Whatever the rows and the lists of values, the cases of a function are all
\* their combinations and no others, and where nothing is written twice, each
\* combination is one case (testcase.rs:585-696, 737-751).
THEOREM ExpansionIsSound == Spec => []ExpansionSound
<1>1. (pc = "expanded" => program \in Programs /\ Compiles(program)) => ExpansionSound
  <2> SUFFICES ASSUME pc = "expanded", program \in Programs, Compiles(program),
                      NEW k \in DOMAIN program.functions, NEW f, f = program.functions[k]
               PROVE  /\ Range(Tried(f)) = Combinations(f)
                      /\ WithoutRepetition(f) => IsInjective(Tried(f))
    BY DEF ExpansionSound
  <2>1. Parsed(f) /\ ~Rejected(f)
    BY CompiledFunctions
  <2> QED
    BY <2>1, EveryCombination, OnceEach
<1> QED
  BY <1>1, ExpandedCompiles, PTL

\* The child runs the case the coordinator asked for; only a case of the same
\* name in another module can take its place: the names the macros make up
\* never collide within a module (runner.rs:18-21, testcase.rs:643-660).
THEOREM ChildRunsTheCaseAsked == Spec => []AskedCaseRuns
<1>1. CInv => AskedCaseRuns
  <2> SUFFICES ASSUME CInv, found # 0 PROVE found = asked \/ registry[found].module # registry[asked].module
    BY DEF AskedCaseRuns
  <2>1. /\ asked \in DOMAIN registry /\ found \in DOMAIN registry
        /\ registry[found].name = registry[asked].name /\ WellRegistered(registry)
    BY DEF CInv, StageInv
  <2> QED
    BY <2>1 DEF WellRegistered
<1> QED
  BY <1>1, LogFollowsThePlan, PTL

\* What is where in a concatenation.
IsJoined(u, s, t, a, b) ==
    /\ Len(u) = a + b
    /\ \A k \in 1 .. a : u[k] = s[k]
    /\ \A k \in 1 .. b : u[a + k] = t[k]

LEMMA Joined ==
  ASSUME NEW X, NEW s \in Seq(X), NEW t \in Seq(X), NEW a \in Nat, NEW b \in Nat,
         a = Len(s), b = Len(t)
  PROVE  s \o t \in Seq(X) /\ IsJoined(s \o t, s, t, a, b)
<1>1. PICK u \in Seq(X) : /\ u = s \o t /\ Len(u) = a + b
                          /\ \A k \in 1 .. a + b : u[k] = IF k <= a THEN s[k] ELSE t[k - a]
  <2>1. /\ s \o t \in Seq(X) /\ Len(s \o t) = Len(s) + Len(t)
        /\ \A k \in 1 .. Len(s) + Len(t) :
             (s \o t)[k] = IF k <= Len(s) THEN s[k] ELSE t[k - Len(s)]
    BY ConcatProperties
  <2>2. PICK u \in Seq(X) : u = s \o t
    BY <2>1
  <2> QED
    BY <2>1, <2>2
<1>2. \A k \in 1 .. a : u[k] = s[k]
  BY <1>1
<1>3. ASSUME NEW k \in 1 .. b PROVE u[a + k] = t[k]
  <2>1. PICK i \in 1 .. a + b : i = a + k /\ ~(i <= a) /\ i - a = k
    OBVIOUS
  <2>2. u[i] = t[i - a]
    BY <1>1, <2>1
  <2> QED
    BY <2>1, <2>2
<1> QED
  BY <1>1, <1>2, <1>3 DEF IsJoined

\* The setups, the body and the teardowns, one after the other.
Nested(fs) == [k \in DOMAIN fs |-> <<"setup", fs[k]>>]
                \o << <<"body", <<>> >> >>
                \o Reverse([k \in DOMAIN fs |-> <<"teardown", fs[k]>>])

IsNested(nested, fs, n) ==
    /\ Len(nested) = 2 * n + 1
    /\ \A k \in 1 .. 2 * n + 1 :
         nested[k] = IF k <= n THEN <<"setup", fs[k]>>
                     ELSE IF k = n + 1 THEN <<"body", <<>> >>
                     ELSE <<"teardown", fs[2 * n + 2 - k]>>

LEMMA PlanIsNested ==
  ASSUME NEW fs, NEW n \in Nat, n = Len(fs), DOMAIN fs = 1 .. n
  PROVE  IsNested(Nested(fs), fs, n)
<1> DEFINE X == {"setup", "body", "teardown"} \X (Range(fs) \cup {<<>>})
           ups == [k \in 1 .. n |-> <<"setup", fs[k]>>]
           body == << <<"body", <<>> >> >>
           downs == [k \in 1 .. n |-> <<"teardown", fs[k]>>]
           back == Reverse(downs)
<1>0. \A k \in 1 .. n : fs[k] \in Range(fs)
  BY DEF Range
<1>1. ups \in Seq(X) /\ Len(ups) = n /\ \A k \in 1 .. n : ups[k] = <<"setup", fs[k]>>
  BY <1>0
<1>2. body \in Seq(X) /\ Len(body) = 1 /\ body[1] = <<"body", <<>> >>
  OBVIOUS
<1>3. downs \in Seq(X) /\ Len(downs) = n /\ \A k \in 1 .. n : downs[k] = <<"teardown", fs[k]>>
  BY <1>0
<1> HIDE DEF X, ups, body, downs
<1>4. /\ back \in Seq(X) /\ Len(back) = n
      /\ \A k \in 1 .. n : back[k] = <<"teardown", fs[n - k + 1]>>
  <2>1. back = [k \in 1 .. n |-> downs[n - k + 1]]
    BY <1>3 DEF Reverse
  <2>2. \A k \in 1 .. n : n - k + 1 \in 1 .. n
    OBVIOUS
  <2>3. \A k \in 1 .. n : back[k] = <<"teardown", fs[n - k + 1]>> /\ back[k] \in X
    BY <1>3, <2>1, <2>2
  <2> HIDE DEF back
  <2>4. back \in [1 .. n -> X]
    BY <2>1, <2>3
  <2> QED
    BY <2>3, <2>4
<1> HIDE DEF back
<1>5. PICK u \in Seq(X) : /\ u = ups \o body /\ Len(u) = n + 1
                          /\ \A k \in 1 .. n : u[k] = ups[k]
                          /\ \A k \in 1 .. 1 : u[n + k] = body[k]
  <2>1. n = Len(ups) /\ 1 = Len(body) /\ 1 \in Nat
    BY <1>1, <1>2
  <2>2. PICK b \in Nat, t \in Seq(X) : b = 1 /\ t = body /\ b = Len(t) /\ n = Len(ups) /\ ups \in Seq(X)
    BY <1>1, <1>2, <2>1
  <2>3. ups \o t \in Seq(X) /\ IsJoined(ups \o t, ups, t, n, b)
    BY <2>2, Joined
  <2> QED
    BY <2>2, <2>3 DEF IsJoined
<1>6. Nested(fs) = u \o back
  BY <1>5 DEF ups, body, back, downs, Nested
<1>7. n + 1 \in Nat
  OBVIOUS
<1>8. PICK w \in Seq(X) : /\ w = u \o back /\ Len(w) = n + 1 + n
                          /\ \A k \in 1 .. n + 1 : w[k] = u[k]
                          /\ \A k \in 1 .. n : w[n + 1 + k] = back[k]
  <2>1. PICK a \in Nat : a = n + 1 /\ a = Len(u)
    BY <1>5, <1>7
  <2>2. n = Len(back) /\ back \in Seq(X) /\ u \in Seq(X)
    BY <1>4, <1>5
  <2>3. u \o back \in Seq(X) /\ IsJoined(u \o back, u, back, a, n)
    BY <2>1, <2>2, Joined
  <2> QED
    BY <2>1, <2>3 DEF IsJoined
<1>9. ASSUME NEW k \in 1 .. 2 * n + 1
      PROVE  w[k] = IF k <= n THEN <<"setup", fs[k]>>
                    ELSE IF k = n + 1 THEN <<"body", <<>> >>
                    ELSE <<"teardown", fs[2 * n + 2 - k]>>
  <2>1. CASE k <= n
    <3>1. k \in 1 .. n /\ k \in 1 .. n + 1
      BY <2>1
    <3>2. w[k] = <<"setup", fs[k]>>
      BY <1>1, <1>5, <1>8, <3>1
    <3> QED
      BY <2>1, <3>2
  <2>2. CASE k = n + 1
    <3>1. 1 \in 1 .. 1 /\ n + 1 \in 1 .. n + 1 /\ ~(n + 1 <= n)
      OBVIOUS
    <3>2. w[n + 1] = <<"body", <<>> >>
      BY <1>2, <1>5, <1>8, <3>1
    <3> QED
      BY <2>2, <3>1, <3>2
  <2>3. CASE k > n + 1
    <3>1. PICK i \in 1 .. n : /\ n + 1 + i = k /\ n - i + 1 = 2 * n + 2 - k
                              /\ ~(k <= n) /\ k # n + 1
      <4>1. k - (n + 1) \in 1 .. n /\ n + 1 + (k - (n + 1)) = k /\ ~(k <= n) /\ k # n + 1
            /\ n - (k - (n + 1)) + 1 = 2 * n + 2 - k
        BY <2>3
      <4> QED
        BY <4>1
    <3>2. w[n + 1 + i] = <<"teardown", fs[n - i + 1]>>
      BY <1>4, <1>8
    <3> QED
      BY <3>1, <3>2
  <2> QED
    BY <2>1, <2>2, <2>3
<1>10. Nested(fs) = w /\ Len(w) = 2 * n + 1
  <2>1. Len(w) = n + 1 + n /\ w = u \o back
    BY <1>8
  <2>2. n + 1 + n = 2 * n + 1
    OBVIOUS
  <2> QED
    BY <1>6, <2>1, <2>2
<1> HIDE DEF X
<1> QED
  BY <1>9, <1>10, Zenon DEF IsNested

\* Fixtures are set up in the order of the parameters, the body runs once with
\* all of them up, and they are torn down in reverse, none of them twice
\* (testcase.rs:453-471, 908-931).
THEOREM FixturesAreNested == Spec => []FixturesNested
<1>1. CInv => FixturesNested
  <2> SUFFICES ASSUME CInv, found # 0
               PROVE  /\ IsInjective(Fixtures)
                      /\ IsPrefix([k \in DOMAIN log |-> <<log[k].step, log[k].fixture>>],
                                  [k \in DOMAIN Fixtures |-> <<"setup", Fixtures[k]>>]
                                    \o << <<"body", <<>> >> >>
                                    \o Reverse([k \in DOMAIN Fixtures |-> <<"teardown", Fixtures[k]>>]))
    BY DEF FixturesNested
  <2>1. PICK n \in Nat : n = Len(Fixtures) /\ n = N /\ DOMAIN Fixtures = 1 .. n /\ IsInjective(Fixtures)
    BY FixturesNumbered DEF CInv, N
  <2>2. PICK nested : nested = Nested(Fixtures)
    OBVIOUS
  <2>3. /\ Len(nested) = 2 * n + 1
        /\ \A k \in 1 .. 2 * n + 1 :
             nested[k] = IF k <= n THEN <<"setup", Fixtures[k]>>
                         ELSE IF k = n + 1 THEN <<"body", <<>> >>
                         ELSE <<"teardown", Fixtures[2 * n + 2 - k]>>
    <3>1. IsNested(Nested(Fixtures), Fixtures, n)
      BY <2>1, PlanIsNested
    <3> QED
      BY <2>2, <3>1 DEF IsNested
  <2>4. \A k \in 1 .. 2 * n + 1 : nested[k] = Planned(k)
    BY <2>1, <2>3 DEF Planned
  <2>5. PICK l \in Nat : l = Len(log) /\ DOMAIN log = 1 .. l /\ l <= 2 * n + 1
    BY <2>1, LenProperties DEF CInv, LogInv
  <2>6. PICK told : told = [k \in 1 .. l |-> <<log[k].step, log[k].fixture>>]
    OBVIOUS
  <2>7. Len(told) = l
    <3>1. told = [k \in 1 .. l |-> told[k]]
      BY <2>6
    <3> QED
      BY <3>1, Counted
  <2>8. \A k \in 1 .. l : told[k] = nested[k]
    BY <2>4, <2>5, <2>6 DEF CInv, LogInv
  <2>9. SubSeq(told, 1, l) = SubSeq(nested, 1, l)
    <3>1. \A s : SubSeq(s, 1, l) = [k \in 1 .. l |-> s[k]]
      <4>1. \A s : SubSeq(s, 1, l) = [k \in 1 .. l |-> s[1 + k - 1]]
        OBVIOUS
      <4> QED
        BY <4>1
    <3> QED
      BY <2>8, <3>1
  <2>10. IsPrefix(told, nested)
    BY <2>3, <2>5, <2>7, <2>9 DEF IsPrefix
  <2> QED
    BY <2>1, <2>2, <2>5, <2>6, <2>10 DEF Nested
<1> QED
  BY <1>1, LogFollowsThePlan, PTL

\* The last and the first of some numbers.
LEMMA Extremes ==
  ASSUME NEW l \in Nat, NEW T \in SUBSET (1 .. l), T # {}
  PROVE  /\ Max(T) \in T /\ \A k \in T : k <= Max(T)
         /\ Min(T) \in T /\ \A k \in T : Min(T) <= k
<1>1. \E m \in T : \A k \in T : k <= m
  <2> DEFINE S == {d \in Nat : l - d \in T}
  <2>1. ASSUME NEW k \in T PROVE l - k \in S
    BY <2>1
  <2>2. S # {} /\ S \in SUBSET Nat
    BY <2>1
  <2> HIDE DEF S
  <2>3. PICK d \in S : \A c \in S : d <= c
    BY <2>2, LeastNumber
  <2>4. d \in Nat /\ l - d \in T
    BY <2>3 DEF S
  <2>5. \A k \in T : k <= l - d
    BY <2>1, <2>3, <2>4
  <2> QED
    BY <2>4, <2>5
<1>2. PICK m \in T : \A k \in T : m >= k
  BY <1>1
<1>3. Max(T) \in T /\ \A k \in T : Max(T) >= k
  BY <1>2 DEF Max
<1>4. PICK x \in T : \A k \in T : x <= k
  BY LeastNumber
<1>5. Min(T) \in T /\ \A k \in T : Min(T) <= k
  BY <1>4 DEF Min
<1>6. \A k \in T : k <= Max(T)
  BY <1>3
<1> QED
  BY <1>3, <1>5, <1>6

\* Where in the log a kind of step is, after the whole run of the wrapper.
LEMMA WhatRan ==
  ASSUME CInv, found # 0, pc = "exited", code # NoExitCode
  PROVE  \E n \in Nat, l \in Nat :
           /\ n = N /\ l = Len(log) /\ DOMAIN log = 1 .. l /\ l <= 2 * n + 1
           /\ Took("body") = {n + 1} \cap (1 .. l) /\ Took("teardown") = n + 2 .. l
           /\ \A k \in DOMAIN log : log[k].outcome \in Outcomes
           /\ code = run_single(result) /\ (Cut \/ (Tearing /\ level = 0))
<1>1. PICK n \in Nat : n = N
  BY FixturesNumbered DEF CInv
<1>2. PICK l \in Nat : l = Len(log) /\ DOMAIN log = 1 .. l /\ l <= 2 * n + 1
  BY <1>1, LenProperties DEF CInv, LogInv
<1>3. ASSUME NEW k \in 1 .. l
      PROVE  log[k].step = IF k <= n THEN "setup" ELSE IF k = n + 1 THEN "body" ELSE "teardown"
  <2>1. <<log[k].step, log[k].fixture>> = Planned(k)
    BY <1>2 DEF CInv, LogInv
  <2>2. CASE k <= n
    BY <1>1, <2>1, <2>2 DEF Planned
  <2>3. CASE k = n + 1
    BY <1>1, <2>1, <2>3 DEF Planned
  <2>4. CASE k > n + 1
    BY <1>1, <2>1, <2>4 DEF Planned
  <2> QED
    BY <2>2, <2>3, <2>4
<1>4. Took("body") = {n + 1} \cap (1 .. l) /\ Took("teardown") = n + 2 .. l
  <2>1. \A k \in 1 .. l : log[k].step = "body" <=> k = n + 1
    BY <1>3
  <2>2. \A k \in 1 .. l : log[k].step = "teardown" <=> k >= n + 2
    BY <1>3
  <2>3. \A k \in n + 2 .. l : k \in 1 .. l
    OBVIOUS
  <2> QED
    BY <1>2, <2>1, <2>2, <2>3 DEF Took
<1>5. \A k \in DOMAIN log : log[k].outcome \in Outcomes
  <2>1. \A k \in DOMAIN log : log[k] \in Steps
    BY <1>2 DEF CInv, LogInv
  <2> QED
    BY <2>1 DEF Steps
<1> QED
  BY <1>1, <1>2, <1>4, <1>5 DEF CInv, ResultInv

\* A body that failed or skipped costs no fixture its teardown: only a panic
\* of a teardown, or its error after a body that succeeded, cuts the rest
\* short (testcase.rs:915-927).
THEOREM TeardownsAreNotLost == Spec => []TornDownAfterBody
<1>1. CInv => TornDownAfterBody
  <2> SUFFICES ASSUME CInv, Returned, ~AllTornDown
               PROVE  /\ Took("teardown") # {}
                      /\ \/ Ended("teardown") = "panic"
                         \/ Ended("teardown") # "ok" /\ Ended("body") = "ok"
    BY DEF TornDownAfterBody
  <2>1. pc = "exited" /\ code # NoExitCode /\ Took("body") # {} /\ Ended("body") # "panic"
    BY DEF Returned
  <2>2. found # 0
    <3>1. found = 0 => DOMAIN log = {}
      BY DEF CInv, StageInv
    <3> QED
      BY <2>1, <3>1 DEF Took
  <2>3. PICK n \in Nat, l \in Nat :
           /\ n = N /\ l = Len(log) /\ DOMAIN log = 1 .. l /\ l <= 2 * n + 1
           /\ Took("body") = {n + 1} \cap (1 .. l) /\ Took("teardown") = n + 2 .. l
           /\ Cut \/ (Tearing /\ level = 0)
    BY <2>1, <2>2, WhatRan
  <2>4. n + 1 <= l /\ Took("body") = {n + 1}
    BY <2>1, <2>3
  <2>5. Ended("body") = BodyEnded
    <3>1. {n + 1} \in SUBSET (1 .. l) /\ {n + 1} # {}
      BY <2>4
    <3>2. Max({n + 1}) = n + 1
      BY <3>1, Extremes
    <3> QED
      BY <2>3, <2>4, <3>2 DEF Ended, BodyEnded
  <2>6. CASE Tearing /\ level = 0
    <3>1. l = 2 * n + 1
      BY <2>3, <2>6 DEF Tearing
    <3>2. PICK c \in Nat : c = 2 * n + 1 /\ Cardinality(n + 2 .. c) = IF n + 2 > c THEN 0 ELSE c - (n + 2) + 1
      BY FS_Interval
    <3>3. Cardinality(n + 2 .. l) = n
      BY <3>1, <3>2
    <3> QED
      BY <2>3, <3>3 DEF AllTornDown, N
  <2>7. CASE Cut
    <3>1. PICK e : e = log[l].outcome
      OBVIOUS
    <3>2. /\ \/ l <= n /\ e # "ok"
             \/ l = n + 1 /\ e = "panic"
             \/ l > n + 1 /\ (e = "panic" \/ (BodyEnded = "ok" /\ e # "ok"))
      BY <2>3, <2>7, <3>1 DEF Cut
    <3>3. ~(l = n + 1 /\ e = "panic")
      BY <2>1, <2>3, <2>5, <3>1 DEF BodyEnded
    <3>4. l > n + 1 /\ (e = "panic" \/ (BodyEnded = "ok" /\ e # "ok"))
      BY <2>4, <3>2, <3>3
    <3>5. Took("teardown") \in SUBSET (1 .. l) /\ l \in Took("teardown")
      BY <2>3, <3>4
    <3>6. Max(Took("teardown")) = l
      <4>1. /\ Max(Took("teardown")) \in Took("teardown")
            /\ \A k \in Took("teardown") : k <= Max(Took("teardown"))
        BY <3>5, Extremes
      <4>2. PICK m \in 1 .. l : m = Max(Took("teardown")) /\ l <= m
        BY <3>5, <4>1
      <4> QED
        BY <4>2
    <3>7. Ended("teardown") = e
      BY <3>1, <3>6 DEF Ended
    <3> QED
      BY <2>5, <3>4, <3>5, <3>7
  <2> QED
    BY <2>3, <2>6, <2>7
<1> QED
  BY <1>1, LogFollowsThePlan, PTL

\* The exit code tells of the first thing that went wrong, a panic excepted,
\* which ends everything: only a skip exits with 2, only an error of the body
\* that the pattern does not match with 3 (runner.rs:30-48, testcase.rs:867-927).
THEOREM TheFirstFailureDecides == Spec => []FirstFailureDecides
<1>1. CInv => FirstFailureDecides
  <2> DEFINE failed == {k \in DOMAIN log : log[k].outcome # "ok"}
             first  == log[Min(failed)].outcome
             last   == log[Max(failed)].outcome
             matcher == registry[found].matcher
  <2> SUFFICES ASSUME CInv, pc = "exited", code \notin {NoExitCode, Panic101}
               PROVE  code = IF failed = {} THEN 0
                             ELSE IF last = "panic" THEN 1
                             ELSE IF first = "skip" THEN SKIP_EXIT_CODE
                             ELSE IF first = "err_other" /\ matcher
                                  THEN FAIL_NOT_RETRYABLE_EXIT_CODE
                             ELSE 1
    BY DEF FirstFailureDecides
  <2>1. found # 0
    BY DEF CInv, StageInv
  <2>2. PICK n \in Nat, l \in Nat :
           /\ n = N /\ l = Len(log) /\ DOMAIN log = 1 .. l /\ l <= 2 * n + 1
           /\ \A k \in DOMAIN log : log[k].outcome \in Outcomes
           /\ code = run_single(result) /\ (Cut \/ (Tearing /\ level = 0))
    BY <2>1, WhatRan
  <2>3. failed # {} => /\ Max(failed) \in failed /\ \A k \in failed : k <= Max(failed)
                       /\ Min(failed) \in failed /\ \A k \in failed : Min(failed) <= k
    <3>1. failed \in SUBSET (1 .. l)
      BY <2>2
    <3> HIDE DEF failed
    <3> QED
      BY <3>1, Extremes
  <2>4. CASE Cut
    <3>1. PICK e : e = log[l].outcome
      OBVIOUS
    <3>2. /\ l > 0 /\ WentOn(l) /\ e \in {"fixture_err", "skip", "panic"}
          /\ result = build_testcase_body(e, FALSE)
          /\ \/ l <= n /\ e # "ok"
             \/ l = n + 1 /\ e = "panic"
             \/ l > n + 1 /\ (e = "panic" \/ (BodyEnded = "ok" /\ e # "ok"))
      BY <2>2, <2>4, <3>1 DEF Cut
    <3>3. l \in failed
      BY <2>2, <3>1, <3>2
    <3>4. Max(failed) = l
      <4>1. Max(failed) \in 1 .. l /\ l <= Max(failed)
        BY <2>2, <2>3, <3>3
      <4> HIDE DEF failed
      <4> QED
        BY <4>1
    <3>5. last = e
      BY <3>1, <3>4
    <3>6. CASE e = "panic"
      <4>1. code = 1
        BY <2>2, <3>2, <3>6, ExitCodes DEF build_testcase_body
      <4> HIDE DEF failed, last
      <4> QED
        BY <3>3, <3>5, <3>6, <4>1
    <3>7. CASE e # "panic"
      <4>1. ASSUME NEW k \in failed PROVE ~(k < l)
        <5>1. k \in DOMAIN log /\ k \in 1 .. l /\ ~Ok(k)
          BY <2>2 DEF Ok
        <5>2. (k < l /\ k <= n) => Ok(k)
          BY <2>2, <3>2, <5>1 DEF WentOn
        <5>3. (k < l /\ n < k /\ BodyEnded = "ok") => Ok(k)
          BY <2>2, <3>2, <5>1 DEF WentOn
        <5>4. l <= n \/ (l > n + 1 /\ BodyEnded = "ok")
          BY <3>2, <3>7
        <5> QED
          BY <5>1, <5>2, <5>3, <5>4
      <4>2. Min(failed) = l
        <5>1. Min(failed) \in 1 .. l /\ ~(Min(failed) < l)
          BY <2>2, <2>3, <3>3, <4>1
        <5> HIDE DEF failed
        <5> QED
          BY <5>1
      <4>3. first = e
        BY <3>1, <4>2
      <4>4. code = IF e = "skip" THEN SKIP_EXIT_CODE ELSE 1
        BY <2>2, <3>2, <3>7, ExitCodes DEF build_testcase_body
      <4> HIDE DEF failed, first, last
      <4> QED
        BY <3>2, <3>3, <3>5, <3>7, <4>3, <4>4
    <3> QED
      BY <3>6, <3>7
  <2>5. CASE Tearing /\ level = 0
    <3>1. PICK e : e = log[n + 1].outcome
      OBVIOUS
    <3>2. l = 2 * n + 1 /\ WentOn(l + 1) /\ result = build_testcase_body(e, matcher) /\ BodyEnded = e
      BY <2>2, <2>5, <3>1 DEF Tearing, BodyEnded
    <3>3. n + 1 \in 1 .. l /\ e \in Outcomes /\ e # "panic"
      <4>1. n + 1 \in 1 .. l /\ n + 1 < l + 1
        BY <3>2
      <4> QED
        BY <2>2, <3>1, <3>2, <4>1 DEF WentOn
    <3>4. ASSUME NEW k \in failed PROVE n < k /\ log[k].outcome # "panic" /\ e # "ok"
      <4>1. k \in 1 .. l /\ k \in DOMAIN log /\ k < l + 1 /\ ~Ok(k)
        BY <2>2 DEF Ok
      <4>2. ~(k <= n)
        BY <2>2, <3>2, <4>1 DEF WentOn
      <4>3. n < k
        BY <4>1, <4>2
      <4> QED
        BY <2>2, <3>2, <4>1, <4>3 DEF WentOn
    <3>5. CASE e = "ok"
      <4>1. failed = {}
        BY <3>4, <3>5
      <4>2. code = 0
        BY <2>2, <3>2, <3>5, ExitCodes, BodyResults
      <4> HIDE DEF failed, first, last
      <4> QED
        BY <4>1, <4>2
    <3>6. CASE e # "ok"
      <4>1. n + 1 \in failed
        BY <2>2, <3>1, <3>3, <3>6
      <4>2. last # "panic"
        BY <2>3, <3>4, <4>1
      <4>3. Min(failed) = n + 1
        <5>1. Min(failed) \in 1 .. l /\ n < Min(failed) /\ Min(failed) <= n + 1
          BY <2>2, <2>3, <3>4, <4>1
        <5> HIDE DEF failed
        <5> QED
          BY <5>1
      <4>4. first = e
        BY <3>1, <4>3
      <4>5. code = IF e = "skip" THEN SKIP_EXIT_CODE
                   ELSE IF e = "err_other" /\ matcher THEN FAIL_NOT_RETRYABLE_EXIT_CODE
                   ELSE 1
        BY <2>2, <3>2, <3>3, <3>6, ExitCodes DEF build_testcase_body, Outcomes
      <4> HIDE DEF failed, first, last, matcher
      <4> QED
        BY <4>1, <4>2, <4>4, <4>5
    <3> QED
      BY <3>5, <3>6
  <2> QED
    BY <2>2, <2>4, <2>5
<1> QED
  BY <1>1, LogFollowsThePlan, PTL

=============================================================================
