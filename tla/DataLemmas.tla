----------------------------- MODULE DataLemmas -----------------------------
(***************************************************************************)
(* Lemmas about numbers, sequences and selections from them that the       *)
(* proofs of several components need.                                      *)
(*                                                                         *)
(* Induction is stated over sets instead of predicates: a set of numbers   *)
(* that holds 0 and, with every number, the next one holds all of them.    *)
(* What a definition computes step by step is then a set of the numbers    *)
(* for which it computes what it should.                                   *)
(***************************************************************************)
EXTENDS Subsequences, SequencesExt,
        FiniteSetTheorems, FunctionTheorems, SequenceTheorems, WellFoundedInduction, TLAPS

-----------------------------------------------------------------------------
(* Induction                                                               *)

\* Every set of natural numbers has a least one.
LEMMA LeastNumber ==
  ASSUME NEW T \in SUBSET Nat, T # {}
  PROVE  \E m \in T : \A k \in T : m <= k
<1>1. IsWellFoundedOn(OpToRel(<, Nat), Nat)
  BY NatLessThanWellFounded
<1>2. PICK m \in T : \A k \in T : ~(<<k, m>> \in OpToRel(<, Nat))
  BY <1>1, WFMin
<1>3. \A k \in T : ~(k < m)
  BY <1>2 DEF OpToRel
<1> QED
  BY <1>3

LEMMA SetInduction ==
  ASSUME NEW S \in SUBSET Nat, 0 \in S, \A n \in S : n + 1 \in S
  PROVE  S = Nat
<1> SUFFICES ASSUME S # Nat PROVE FALSE
  OBVIOUS
<1>1. PICK m \in Nat \ S : \A k \in Nat \ S : m <= k
  BY LeastNumber
<1>2. m - 1 \in Nat /\ m - 1 \notin Nat \ S
  BY <1>1
<1>3. m - 1 + 1 \in S
  BY <1>2
<1> QED
  BY <1>1, <1>3

\* A value, and a function from each value to the next one, make a sequence of
\* values: this is what a recursive definition stands on.
Iterates(f, b, n, next) ==
    /\ f[0] = b
    /\ \A i \in 1 .. n : f[i] = next[<<i, f[i - 1]>>]

LEMMA Iteration ==
  ASSUME NEW X, NEW b \in X, NEW n \in Nat, NEW next \in [(1 .. n) \X X -> X]
  PROVE  \E f \in [0 .. n -> X] : Iterates(f, b, n, next)
<1> USE DEF Iterates
<1> DEFINE Upto(m, f) == f[0] = b /\ \A i \in 1 .. m : f[i] = next[<<i, f[i - 1]>>]
           S == {m \in Nat : m <= n => \E f \in [0 .. m -> X] : Upto(m, f)}
<1>1. 0 \in S
  <2>1. [i \in 0 .. 0 |-> b] \in [0 .. 0 -> X] /\ Upto(0, [i \in 0 .. 0 |-> b])
    OBVIOUS
  <2> QED
    BY <2>1
<1>2. ASSUME NEW m \in S PROVE m + 1 \in S
  <2> SUFFICES ASSUME m + 1 <= n PROVE \E f \in [0 .. m + 1 -> X] : Upto(m + 1, f)
    OBVIOUS
  <2>1. m \in Nat /\ m + 1 \in 1 .. n
    OBVIOUS
  <2>2. PICK f \in [0 .. m -> X] : Upto(m, f)
    BY <2>1
  <2>3. f[m] \in X /\ <<m + 1, f[m]>> \in (1 .. n) \X X
    BY <2>1, <2>2
  <2> DEFINE v == next[<<m + 1, f[m]>>]
             g == [i \in 0 .. m + 1 |-> IF i <= m THEN f[i] ELSE v]
  <2>4. v \in X
    BY <2>3
  <2> HIDE DEF v
  <2>5. g \in [0 .. m + 1 -> X]
    BY <2>1, <2>2, <2>4
  <2>6. /\ g[0] = f[0] /\ g[m + 1] = v
        /\ \A i \in 0 .. m : g[i] = f[i]
    BY <2>1
  <2> HIDE DEF g
  <2>7. ASSUME NEW i \in 1 .. m + 1 PROVE g[i] = next[<<i, g[i - 1]>>]
    <3>1. CASE i \in 1 .. m
      <4>1. i \in 0 .. m /\ i - 1 \in 0 .. m
        BY <2>1, <3>1
      <4> QED
        BY <2>2, <2>6, <3>1, <4>1
    <3>2. CASE i = m + 1
      <4>1. i - 1 = m /\ m \in 0 .. m
        BY <2>1, <3>2
      <4> QED
        BY <2>6, <3>2, <4>1 DEF v
    <3> QED
      BY <2>1, <3>1, <3>2
  <2> QED
    BY <2>2, <2>5, <2>6, <2>7
<1>3. S = Nat
  <2> HIDE DEF S
  <2>1. S \in SUBSET Nat
    BY DEF S
  <2> QED
    BY <1>1, <1>2, <2>1, SetInduction
<1> QED
  BY <1>3

-----------------------------------------------------------------------------
(* FlattenSeq                                                              *)

\* Where an element of a sequence of sequences stands: in which of them, and
\* where in it.
Places(seqs) == {p \in (DOMAIN seqs) \X Nat : p[2] \in DOMAIN seqs[p[1]]}

\* A whole whose elements are those of the first m parts, each once.
FlatUpto(m, whole, seqs) ==
    \E from \in [DOMAIN whole -> Places(seqs)] :
        /\ \A i \in DOMAIN whole : from[i][1] <= m
        /\ \A i \in DOMAIN whole : whole[i] = seqs[from[i][1]][from[i][2]]
        /\ \A i, j \in DOMAIN whole : from[i] = from[j] => i = j
        /\ \A p \in Places(seqs) : p[1] <= m => \E i \in DOMAIN whole : from[i] = p

\* One part more.
LEMMA FlatStep ==
  ASSUME NEW X, NEW seqs \in Seq(Seq(X)), NEW m \in Nat, m + 1 \in DOMAIN seqs,
         NEW whole \in Seq(X), FlatUpto(m, whole, seqs)
  PROVE  /\ whole \o seqs[m + 1] \in Seq(X)
         /\ FlatUpto(m + 1, whole \o seqs[m + 1], seqs)
<1> DEFINE k == m + 1
<1>0. PICK from \in [DOMAIN whole -> Places(seqs)] :
        /\ \A i \in DOMAIN whole : from[i][1] <= m
        /\ \A i \in DOMAIN whole : whole[i] = seqs[from[i][1]][from[i][2]]
        /\ \A i, j \in DOMAIN whole : from[i] = from[j] => i = j
        /\ \A p \in Places(seqs) : p[1] <= m => \E i \in DOMAIN whole : from[i] = p
  BY DEF FlatUpto
<1>5. k \in Nat /\ k \in DOMAIN seqs /\ k = m + 1
  OBVIOUS
<1> HIDE DEF k
<1>1. PICK part \in Seq(X) : part = seqs[k]
  BY <1>5
<1>2. PICK a \in Nat, c \in Nat :
        /\ a = Len(whole) /\ DOMAIN whole = 1 .. a
        /\ c = Len(part) /\ DOMAIN part = 1 .. c
  BY LenProperties
<1>3. PICK both \in Seq(X) : both = whole \o part
  BY ConcatProperties
<1>4. /\ DOMAIN both = 1 .. a + c
      /\ \A n \in 1 .. a : both[n] = whole[n]
      /\ \A n \in a + 1 .. a + c : both[n] = part[n - a]
  <2>1. Len(both) = a + c /\ DOMAIN both = 1 .. Len(both)
    BY <1>2, <1>3, ConcatProperties, LenProperties
  <2>2. \A n \in 1 .. a + c : both[n] = IF n <= a THEN whole[n] ELSE part[n - a]
    BY <1>2, <1>3, ConcatProperties
  <2>3. \A n \in a + 1 .. a + c : n \in 1 .. a + c /\ ~(n <= a)
    BY <1>2
  <2>4. \A n \in 1 .. a : n \in 1 .. a + c /\ n <= a
    BY <1>2
  <2> QED
    BY <2>1, <2>2, <2>3, <2>4
<1> DEFINE next == [n \in 1 .. a + c |-> IF n <= a THEN from[n] ELSE <<k, n - a>>]
<1>6. ASSUME NEW n \in 1 .. a + c
      PROVE  /\ next[n] \in Places(seqs) /\ next[n][1] <= k
             /\ both[n] = seqs[next[n][1]][next[n][2]]
  <2>1. CASE n <= a
    <3>1. n \in 1 .. a /\ next[n] = from[n]
      BY <1>2, <2>1
    <3>2. from[n] \in Places(seqs) /\ from[n][1] <= m /\ from[n][1] \in DOMAIN seqs
      BY <1>0, <1>2, <3>1 DEF Places
    <3>3. from[n][1] \in Nat
      BY <3>2, LenProperties
    <3>4. from[n][1] <= k
      BY <1>5, <3>2, <3>3
    <3> QED
      BY <1>0, <1>2, <1>4, <3>1, <3>2, <3>4
  <2>2. CASE ~(n <= a)
    <3>1. n \in a + 1 .. a + c /\ n - a \in 1 .. c /\ n - a \in Nat
      BY <1>2, <2>2
    <3>2. next[n] = <<k, n - a>>
      BY <2>2
    <3> HIDE DEF next
    <3>3. next[n][1] = k /\ next[n][2] = n - a
      BY <3>2
    <3>4. next[n] \in Places(seqs)
      BY <1>1, <1>2, <1>5, <3>1, <3>2 DEF Places
    <3> QED
      BY <1>1, <1>4, <1>5, <3>1, <3>3, <3>4
  <2> QED
    BY <2>1, <2>2
<1>7. ASSUME NEW i \in 1 .. a + c, NEW j \in 1 .. a + c, next[i] = next[j]
      PROVE  i = j
  <2>1. ASSUME NEW h \in 1 .. a + c, h <= a
        PROVE  next[h] = from[h] /\ h \in DOMAIN whole /\ from[h][1] <= m
    <3>1. next[h] = from[h] /\ h \in 1 .. a
      BY <2>1
    <3> HIDE DEF next
    <3> QED
      BY <1>0, <1>2, <3>1
  <2>2. \A h \in 1 .. a + c : ~(h <= a) => next[h] = <<k, h - a>>
    OBVIOUS
  <2> HIDE DEF next
  <2>3. CASE i <= a /\ j <= a
    BY <1>0, <1>7, <2>1, <2>3
  <2>4. CASE ~(i <= a) /\ ~(j <= a)
    <3>1. <<k, i - a>> = <<k, j - a>>
      BY <1>7, <2>2, <2>4
    <3>2. i - a = j - a
      BY <3>1
    <3> QED
      BY <1>2, <3>2
  <2>5. CASE (i <= a /\ ~(j <= a)) \/ (~(i <= a) /\ j <= a)
    <3>1. PICK h \in 1 .. a + c, l \in 1 .. a + c : h <= a /\ ~(l <= a) /\ next[h] = next[l]
      BY <1>7, <2>5
    <3>2. next[l][1] = k /\ next[h][1] <= m
      BY <2>1, <2>2, <3>1
    <3> QED
      BY <1>5, <3>1, <3>2
  <2> QED
    BY <2>3, <2>4, <2>5
<1>8. next \in [DOMAIN both -> Places(seqs)]
  BY <1>4, <1>6
<1>9. ASSUME NEW p \in Places(seqs), p[1] <= k
       PROVE  \E i \in 1 .. a + c : next[i] = p
  <2>1. p = <<p[1], p[2]>> /\ p[1] \in DOMAIN seqs /\ p[2] \in DOMAIN seqs[p[1]] /\ p[2] \in Nat
    BY DEF Places
  <2>2. p[1] \in Nat
    BY <2>1, LenProperties
  <2>3. CASE p[1] <= m
    <3>1. PICK i \in DOMAIN whole : from[i] = p
      BY <1>0, <2>3
    <3>2. i \in 1 .. a + c /\ i <= a
      BY <1>2, <3>1
    <3> QED
      BY <3>1, <3>2
  <2>4. CASE p[1] = k
    <3>1. PICK e \in 1 .. c : p = <<k, e>>
      BY <1>1, <1>2, <2>1, <2>4
    <3>2. PICK i : i = a + e
      OBVIOUS
    <3>3. e \in Nat /\ 1 <= e /\ e <= c
      OBVIOUS
    <3>4. i \in 1 .. a + c /\ ~(i <= a) /\ i - a = e
      BY <1>2, <3>2, <3>3
    <3>5. next[i] = <<k, e>>
      BY <3>4
    <3> QED
      BY <3>1, <3>4, <3>5
  <2> QED
    BY <1>5, <1>9, <2>2, <2>3, <2>4
<1> HIDE DEF next
<1>10. FlatUpto(k, both, seqs)
  <2>1. \A i \in DOMAIN both : next[i][1] <= k
    BY <1>4, <1>6
  <2>2. \A i \in DOMAIN both : both[i] = seqs[next[i][1]][next[i][2]]
    BY <1>4, <1>6
  <2>3. \A i, j \in DOMAIN both : next[i] = next[j] => i = j
    BY <1>4, <1>7
  <2>4. \A p \in Places(seqs) : p[1] <= k => \E i \in DOMAIN both : next[i] = p
    BY <1>4, <1>9
  <2> QED
    BY <1>8, <2>1, <2>2, <2>3, <2>4 DEF FlatUpto
<1> QED
  BY <1>1, <1>3, <1>5, <1>10

\* What the recursion of FlattenSeq computes.
Flattens(flatten, n, seqs) ==
    /\ FlattenSeq(seqs) = flatten[n]
    /\ flatten[1] = seqs[1]
    /\ \A i \in 1 .. n : i # 1 => flatten[i] = flatten[i - 1] \o seqs[i]

LEMMA FlattenRuns ==
  ASSUME NEW X, NEW seqs \in Seq(Seq(X)), NEW n \in Nat, n = Len(seqs), n # 0
  PROVE  \E flatten \in [1 .. n -> Seq(X)] : Flattens(flatten, n, seqs)
<1>1. \A i \in 1 .. n : seqs[i] \in Seq(X)
  OBVIOUS
<1>2. PICK f \in [0 .. n -> Seq(X)] :
        f[0] = <<>> /\ \A i \in 1 .. n : f[i] = f[i - 1] \o seqs[i]
  <2> DEFINE next == [p \in (1 .. n) \X Seq(X) |-> p[2] \o seqs[p[1]]]
  <2>1. next \in [(1 .. n) \X Seq(X) -> Seq(X)]
    BY <1>1, ConcatProperties
  <2>2. \A i \in 1 .. n : \A s \in Seq(X) : next[<<i, s>>] = s \o seqs[i]
    OBVIOUS
  <2> HIDE DEF next
  <2>3. <<>> \in Seq(X)
    BY EmptySeq
  <2>4. PICK f \in [0 .. n -> Seq(X)] : Iterates(f, <<>>, n, next)
    BY <2>1, <2>3, Iteration
  <2>5. ASSUME NEW i \in 1 .. n PROVE f[i] = f[i - 1] \o seqs[i]
    <3>1. i - 1 \in 0 .. n
      OBVIOUS
    <3>2. f[i] = next[<<i, f[i - 1]>>] /\ f[i - 1] \in Seq(X)
      BY <2>4, <3>1 DEF Iterates
    <3> QED
      BY <2>2, <3>2
  <2> QED
    BY <2>4, <2>5 DEF Iterates
<1>3. 1 \in 1 .. n /\ n \in 1 .. n
  OBVIOUS
<1>4. f[1] = seqs[1]
  <2>1. f[1] = f[1 - 1] \o seqs[1]
    BY <1>2, <1>3, Zenon
  <2>2. <<>> \o seqs[1] = seqs[1]
    BY <1>1, <1>3, ConcatEmptySeq
  <2> QED
    BY <1>2, <2>1, <2>2
<1> DEFINE Goes(g) == g = [i \in 1 .. Len(seqs) |->
                              IF i = 1 THEN seqs[i] ELSE g[i - 1] \o seqs[i]]
           flatten == CHOOSE g : Goes(g)
<1>5. \E g : Goes(g)
  <2> DEFINE g == [i \in 1 .. n |-> f[i]]
  <2>1. ASSUME NEW i \in 1 .. n
        PROVE  f[i] = IF i = 1 THEN seqs[i] ELSE g[i - 1] \o seqs[i]
    <3>1. CASE i = 1
      BY <1>4, <3>1
    <3>2. CASE i # 1
      <4>1. i - 1 \in 1 .. n
        BY <3>2
      <4> QED
        BY <1>2, <3>2, <4>1
    <3> QED
      BY <3>1, <3>2
  <2>2. g = [i \in 1 .. n |-> IF i = 1 THEN seqs[i] ELSE g[i - 1] \o seqs[i]]
    BY <2>1
  <2> QED
    BY <2>2
<1>6. Goes(flatten)
  BY <1>5
<1>7. FlattenSeq(seqs) = flatten[n]
  BY DEF FlattenSeq
<1> HIDE DEF flatten
<1>8. /\ DOMAIN flatten = 1 .. n /\ flatten[1] = seqs[1]
      /\ \A i \in 1 .. n : i # 1 => flatten[i] = flatten[i - 1] \o seqs[i]
      /\ flatten = [i \in 1 .. n |-> flatten[i]]
  BY <1>3, <1>6
<1> DEFINE S == {m \in Nat : m + 1 <= n => flatten[m + 1] \in Seq(X)}
<1>9. S = Nat
  <2>1. 0 \in S
    BY <1>1, <1>3, <1>8
  <2>2. ASSUME NEW m \in S PROVE m + 1 \in S
    <3> SUFFICES ASSUME m + 1 + 1 <= n PROVE flatten[m + 1 + 1] \in Seq(X)
      OBVIOUS
    <3>1. m + 2 \in 1 .. n /\ m + 2 # 1 /\ m + 2 - 1 = m + 1 /\ m + 1 + 1 = m + 2
      OBVIOUS
    <3>2. flatten[m + 1] \in Seq(X)
      <4>1. m + 1 <= n
        OBVIOUS
      <4> QED
        BY <4>1
    <3>3. flatten[m + 2] = flatten[m + 1] \o seqs[m + 2]
      <4>1. PICK i \in 1 .. n : i = m + 2
        BY <3>1
      <4>2. flatten[i] = flatten[i - 1] \o seqs[i]
        BY <1>8, <3>1, <4>1
      <4>3. i - 1 = m + 1
        BY <3>1, <4>1
      <4> QED
        BY <4>1, <4>2, <4>3
    <3>4. seqs[m + 2] \in Seq(X)
      BY <1>1, <3>1
    <3>5. flatten[m + 1] \o seqs[m + 2] \in Seq(X)
      BY <3>2, <3>4, ConcatProperties
    <3> QED
      BY <3>1, <3>3, <3>5
  <2>3. S \in SUBSET Nat
    OBVIOUS
  <2> HIDE DEF S
  <2> QED
    BY <2>1, <2>2, <2>3, SetInduction
<1>10. ASSUME NEW i \in 1 .. n PROVE flatten[i] \in Seq(X)
  <2>1. i - 1 \in Nat /\ i - 1 + 1 = i /\ i <= n
    OBVIOUS
  <2>2. i - 1 \in S
    <3> HIDE DEF S
    <3> QED
      BY <1>9, <2>1
  <2> QED
    BY <2>1, <2>2
<1>11. flatten \in [1 .. n -> Seq(X)]
  BY <1>8, <1>10
<1> QED
  BY <1>7, <1>8, <1>11 DEF Flattens

LEMMA FlattenIsFlat ==
  ASSUME NEW X, NEW seqs \in Seq(Seq(X))
  PROVE  /\ FlattenSeq(seqs) \in Seq(X)
         /\ FlatUpto(Len(seqs), FlattenSeq(seqs), seqs)
<1>1. PICK n \in Nat : n = Len(seqs) /\ DOMAIN seqs = 1 .. n
  BY LenProperties
<1>2. <<>> \in Seq(X) /\ FlatUpto(0, <<>>, seqs)
  <2>1. DOMAIN <<>> = {} /\ [x \in {} |-> x] \in [{} -> Places(seqs)]
    OBVIOUS
  <2>2. \A p \in Places(seqs) : ~(p[1] <= 0)
    BY <1>1 DEF Places
  <2> QED
    BY <2>1, <2>2, EmptySeq DEF FlatUpto
<1>3. CASE n = 0
  <2>1. FlattenSeq(seqs) = <<>>
    BY <1>1, <1>3, EmptySeq DEF FlattenSeq
  <2> QED
    BY <1>1, <1>2, <1>3, <2>1
<1>4. CASE n # 0
  <2>0. PICK flatten \in [1 .. n -> Seq(X)] : Flattens(flatten, n, seqs)
    BY <1>1, <1>4, FlattenRuns
  <2>1. /\ FlattenSeq(seqs) = flatten[n]
        /\ flatten[1] = seqs[1]
        /\ \A i \in 1 .. n : i # 1 => flatten[i] = flatten[i - 1] \o seqs[i]
    BY <2>0 DEF Flattens
  <2> DEFINE S == {m \in Nat : m + 1 <= n => FlatUpto(m + 1, flatten[m + 1], seqs)}
  <2>2. 0 \in S
    <3>1. 0 + 1 \in DOMAIN seqs /\ 0 + 1 = 1 /\ seqs[1] \in Seq(X)
      BY <1>1, <1>4
    <3>2. FlatUpto(0 + 1, <<>> \o seqs[0 + 1], seqs)
      BY <1>2, <3>1, FlatStep
    <3>3. <<>> \o seqs[1] = seqs[1]
      BY <3>1, ConcatEmptySeq
    <3> QED
      BY <2>1, <3>1, <3>2, <3>3
  <2>3. ASSUME NEW m \in S PROVE m + 1 \in S
    <3> SUFFICES ASSUME m + 1 + 1 <= n PROVE FlatUpto(m + 1 + 1, flatten[m + 1 + 1], seqs)
      OBVIOUS
    <3>1. /\ m + 1 \in Nat /\ m + 1 \in 1 .. n /\ m + 1 + 1 \in 1 .. n
          /\ m + 1 + 1 # 1 /\ m + 1 + 1 - 1 = m + 1
      OBVIOUS
    <3>2. m + 1 <= n => FlatUpto(m + 1, flatten[m + 1], seqs)
      OBVIOUS
    <3>3. flatten[m + 1] \in Seq(X) /\ m + 1 <= n
      BY <2>1, <3>1
    <3>4. flatten[m + 1 + 1] = flatten[m + 1] \o seqs[m + 1 + 1]
      <4>1. PICK i \in 1 .. n : i = m + 1 + 1
        BY <3>1
      <4>2. flatten[i] = flatten[i - 1] \o seqs[i]
        BY <2>1, <3>1, <4>1
      <4>3. i - 1 = m + 1
        BY <3>1, <4>1
      <4> QED
        BY <4>1, <4>2, <4>3
    <3>5. m + 1 + 1 \in DOMAIN seqs
      BY <1>1, <3>1
    <3>6. FlatUpto(m + 1 + 1, flatten[m + 1] \o seqs[m + 1 + 1], seqs)
      BY <3>1, <3>2, <3>3, <3>5, FlatStep
    <3> QED
      BY <3>1, <3>4, <3>6
  <2>4. S = Nat
    <3>1. S \in SUBSET Nat
      OBVIOUS
    <3> HIDE DEF S
    <3> QED
      BY <2>2, <2>3, <3>1, SetInduction
  <2>5. FlatUpto(n, flatten[n], seqs)
    <3>1. n - 1 \in Nat /\ n - 1 + 1 = n /\ n <= n
      BY <1>4
    <3> QED
      BY <2>4, <3>1
  <2>6. n \in 1 .. n
    BY <1>4
  <2> QED
    BY <1>1, <2>1, <2>5, <2>6
<1> QED
  BY <1>3, <1>4

-----------------------------------------------------------------------------
(* Subsequence                                                             *)

\* Which position of s each element of the subsequence comes from.
Selects(at, s, ks) ==
    /\ DOMAIN Subsequence(s, ks) = 1 .. Cardinality(ks)
    /\ \A n \in 1 .. Cardinality(ks) : Subsequence(s, ks)[n] = s[at[n]]
    /\ \A m, n \in 1 .. Cardinality(ks) : m < n => at[m] < at[n]
    /\ \A k \in ks : \E n \in 1 .. Cardinality(ks) : at[n] = k
    /\ \A n \in 1 .. Cardinality(ks) : Cardinality({j \in ks : j <= at[n]}) = n

\* All positions of ks and no other are selected, in ascending order.
LEMMA SubsequenceSelects ==
  ASSUME NEW s, NEW ks \in SUBSET Nat, IsFiniteSet(ks)
  PROVE  /\ Cardinality(ks) \in Nat
         /\ \E at \in [1 .. Cardinality(ks) -> ks] : Selects(at, s, ks)
<1>1. PICK c \in Nat : c = Cardinality(ks)
  BY FS_CardinalityType
<1> DEFINE upto(k) == {j \in ks : j <= k}
           rank == [k \in ks |-> Cardinality(upto(k))]
<1>2. ASSUME NEW k \in ks
      PROVE  IsFiniteSet(upto(k)) /\ rank[k] \in 1 .. c
  <2>1. upto(k) \in SUBSET ks /\ k \in upto(k)
    OBVIOUS
  <2> HIDE DEF upto
  <2>2. IsFiniteSet(upto(k)) /\ Cardinality(upto(k)) <= c
    BY <1>1, <2>1, FS_Subset
  <2>3. Cardinality(upto(k)) \in Nat /\ Cardinality(upto(k)) # 0
    BY <2>1, <2>2, FS_CardinalityType, FS_EmptySet
  <2> QED
    BY <1>1, <2>2, <2>3
<1>3. ASSUME NEW k \in ks, NEW l \in ks, k < l PROVE rank[k] < rank[l]
  <2>0. k \in Nat /\ l \in Nat /\ \A j \in ks : j \in Nat
    OBVIOUS
  <2>1. upto(k) \in SUBSET upto(l) /\ l \in upto(l) /\ l \notin upto(k)
    <3>1. \A j \in ks : j <= k => j <= l
      BY <1>3, <2>0
    <3>2. l <= l /\ ~(l <= k)
      BY <1>3, <2>0
    <3> QED
      BY <3>1, <3>2
  <2>2. IsFiniteSet(upto(l))
    BY <1>2
  <2>3. rank[k] = Cardinality(upto(k)) /\ rank[l] = Cardinality(upto(l))
    OBVIOUS
  <2>4. rank[k] \in Nat /\ rank[l] \in Nat
    BY <1>2
  <2> HIDE DEF upto, rank
  <2>5. /\ Cardinality(upto(k)) <= Cardinality(upto(l))
        /\ Cardinality(upto(k)) # Cardinality(upto(l))
    BY <2>1, <2>2, FS_Subset
  <2> QED
    BY <2>3, <2>4, <2>5
<1>4. \A k, l \in ks : rank[k] = rank[l] => k = l
  <2> SUFFICES ASSUME NEW k \in ks, NEW l \in ks, rank[k] = rank[l] PROVE k = l
    OBVIOUS
  <2>1. rank[k] \in Nat
    BY <1>2
  <2>2. k < l \/ l < k \/ k = l
    OBVIOUS
  <2> HIDE DEF rank
  <2> QED
    BY <1>3, <2>1, <2>2
<1>5. rank \in [ks -> 1 .. c]
  BY <1>2
<1>6. \A n \in 1 .. c : \E k \in ks : rank[k] = n
  <2> HIDE DEF rank
  <2>1. rank \in Injection(ks, 1 .. c)
    BY <1>4, <1>5 DEF Injection, IsInjective
  <2>2. IsFiniteSet(1 .. c) /\ Cardinality(1 .. c) = c
    BY FS_Interval
  <2>3. rank \in Surjection(ks, 1 .. c)
    BY <1>1, <2>1, <2>2, FS_Injection
  <2> QED
    BY <2>3 DEF Surjection
<1> DEFINE at == [n \in 1 .. c |-> CHOOSE k \in ks : Cardinality({j \in ks : j <= k}) = n]
<1>7. ASSUME NEW n \in 1 .. c
      PROVE  /\ at[n] \in ks /\ rank[at[n]] = n
             /\ Cardinality({j \in ks : j <= at[n]}) = n
  <2>1. \E k \in ks : Cardinality({j \in ks : j <= k}) = n
    BY <1>6
  <2>2. at[n] \in ks /\ Cardinality({j \in ks : j <= at[n]}) = n
    BY <2>1
  <2> QED
    BY <2>2
<1>8. at \in [1 .. c -> ks]
  BY <1>7
<1>9. /\ DOMAIN Subsequence(s, ks) = 1 .. c
      /\ \A n \in 1 .. c : Subsequence(s, ks)[n] = s[at[n]]
  BY <1>1 DEF Subsequence
<1> HIDE DEF at, rank
<1>10. ASSUME NEW m \in 1 .. c, NEW n \in 1 .. c, m < n PROVE at[m] < at[n]
  <2>1. at[m] \in ks /\ at[n] \in ks /\ rank[at[m]] = m /\ rank[at[n]] = n
    BY <1>7
  <2>2. at[m] < at[n] \/ at[m] = at[n] \/ at[n] < at[m]
    <3>1. \A i, j \in Nat : i < j \/ i = j \/ j < i
      OBVIOUS
    <3>2. at[m] \in Nat /\ at[n] \in Nat
      BY <2>1
    <3> QED
      BY <3>1, <3>2
  <2>3. ~(n < m) /\ m # n
    BY <1>10
  <2> QED
    BY <1>3, <2>1, <2>2, <2>3
<1>11. ASSUME NEW k \in ks PROVE \E n \in 1 .. c : at[n] = k
  <2>1. rank[k] \in 1 .. c
    BY <1>5
  <2>2. at[rank[k]] \in ks /\ rank[at[rank[k]]] = rank[k]
    BY <1>7, <2>1
  <2>3. at[rank[k]] = k
    BY <1>4, <2>2
  <2> QED
    BY <2>1, <2>3
<1>12. \A n \in 1 .. c : Cardinality({j \in ks : j <= at[n]}) = n
  BY <1>7
<1>13. Selects(at, s, ks)
  BY <1>1, <1>9, <1>10, <1>11, <1>12 DEF Selects
<1> QED
  BY <1>1, <1>8, <1>13

\* A selection from a sequence is a sequence of the same elements.
LEMMA SubsequenceType ==
  ASSUME NEW X, NEW s \in Seq(X), NEW ks \in SUBSET DOMAIN s
  PROVE  /\ Subsequence(s, ks) \in Seq(X)
         /\ Len(Subsequence(s, ks)) = Cardinality(ks)
         /\ Cardinality(ks) \in Nat
         /\ \E at \in [1 .. Cardinality(ks) -> ks] : Selects(at, s, ks)
<1>1. PICK N \in Nat : DOMAIN s = 1 .. N
  BY LenProperties
<1>2. IsFiniteSet(1 .. N)
  BY FS_Interval
<1>3. IsFiniteSet(ks) /\ ks \in SUBSET Nat
  BY <1>1, <1>2, FS_Subset
<1>4. PICK c \in Nat : c = Cardinality(ks)
  BY <1>3, FS_CardinalityType
<1>5. PICK at \in [1 .. c -> ks] : Selects(at, s, ks)
  BY <1>3, <1>4, SubsequenceSelects
<1>6. \A n \in 1 .. c : Subsequence(s, ks)[n] \in X
  BY <1>4, <1>5 DEF Selects
<1>7. Subsequence(s, ks) \in [1 .. c -> X]
  BY <1>4, <1>6 DEF Subsequence
<1>8. Subsequence(s, ks) \in Seq(X) /\ Len(Subsequence(s, ks)) = c
  <2>1. PICK q \in [1 .. c -> X] : q = Subsequence(s, ks)
    BY <1>7
  <2>2. q \in Seq(X) /\ Len(q) = c
    OBVIOUS
  <2> QED
    BY <2>1, <2>2
<1> QED
  BY <1>4, <1>5, <1>8

=============================================================================
