----------------------------- MODULE WireProofs -----------------------------
(***************************************************************************)
(* The codec, for every number of values a byte may have: a request that   *)
(* is read whole is heard as it was sent, but for strings whose length is  *)
(* no char; and the replies of a stream are read off it as written.        *)
(*                                                                         *)
(* Reports and RepliesOn read one item after the other, FlattenSeq puts    *)
(* one behind the other: what these recursions yield is proved once for    *)
(* all, by the least place at which it could go wrong.                     *)
(***************************************************************************)
EXTENDS Wire, SequenceTheorems, WellFoundedInduction, TLAPS

----------------------------------------------------------------------------
(* Induction: a set of numbers that is not empty has a least element. *)

\* A set of numbers that is not empty has a least element.
LEMMA LeastNatural ==
    ASSUME NEW S \in SUBSET Nat, S # {}
    PROVE  \E n \in S : \A m \in S : n <= m
<1> DEFINE R == OpToRel(<, Nat)
<1>1. IsWellFoundedOn(R, Nat)
  BY NatLessThanWellFounded
<1>2. \A m, n \in Nat : m < n => <<m, n>> \in R
  BY DEF OpToRel
<1> HIDE DEF R
<1>3. PICK n \in S : \A m \in S : ~(<<m, n>> \in R)
  BY <1>1, WFMin
<1>4. \A m \in S : ~(m < n) /\ m \in Nat /\ n \in Nat
  BY <1>2, <1>3
<1>5. QED
  BY <1>4

\* A set that holds 0, and n + 1 with every n below m, holds all up to m.
LEMMA UpTo ==
    ASSUME NEW m \in Nat, NEW S, 0 \in S,
           \A n \in 0..(m - 1) : n \in S => n + 1 \in S
    PROVE  \A n \in 0..m : n \in S
<1> DEFINE Bad == {n \in 0..m : n \notin S}
<1>1. SUFFICES ASSUME Bad # {} PROVE FALSE
  OBVIOUS
<1>2. Bad \in SUBSET Nat
  OBVIOUS
<1> HIDE DEF Bad
<1>3. PICK n \in Bad : \A k \in Bad : n <= k
  BY <1>1, <1>2, LeastNatural
<1>4. n \in 0..m /\ n \notin S /\ n # 0
  BY <1>3 DEF Bad
<1>5. n - 1 \in 0..(m - 1) /\ n - 1 \notin Bad
  BY <1>3, <1>4
<1>6. n - 1 \in S /\ (n - 1) + 1 = n
  BY <1>4, <1>5 DEF Bad
<1>7. QED
  BY <1>4, <1>5, <1>6

----------------------------------------------------------------------------
(* Walks over a stretch of bytes: from a place i that is no end of the walk *)
(* one item is taken, and the walk goes on at next[i].                      *)

\* What a walk takes from the place i on, up to an end of it.
Walk(f, lo, hi, ends, item, next) ==
    [i \in lo..hi |-> IF i \in ends THEN <<>> ELSE <<item[i]>> \o f[next[i]]]

\* A walk goes forward, and the items are of T.
Forward(lo, hi, ends, item, next, T) ==
    \A i \in lo..hi : i \notin ends => next[i] \in (i + 1)..hi /\ item[i] \in T

\* The recursion has a solution, for every step goes forward.
LEMMA WalkExists ==
    ASSUME NEW lo \in Int, NEW hi \in Int, NEW ends, NEW item, NEW next,
           NEW T, Forward(lo, hi, ends, item, next, T)
    PROVE  \E f : f = Walk(f, lo, hi, ends, item, next)
<1> DEFINE At(f, i) == IF i \in ends THEN <<>> ELSE <<item[i]>> \o f[next[i]]
           Done(f, n) == \A i \in lo..hi : hi - i < n => f[i] = At(f, i)
           m == IF lo <= hi THEN hi - lo + 1 ELSE 0
           S == {n \in 0..m : \E f : Done(f, n)}
<1>1. m \in Nat
  OBVIOUS
<1>2. 0 \in S
  BY <1>1
<1>3. ASSUME NEW n \in 0..(m - 1), n \in S PROVE n + 1 \in S
  <2>1. PICK f : Done(f, n)
    BY <1>3
  <2> DEFINE p == hi - n
             g == [i \in lo..hi |-> IF i = p THEN At(f, p) ELSE f[i]]
  <2>2. n + 1 \in 0..m /\ p \in lo..hi
    BY <1>1
  <2>3. ASSUME NEW i \in lo..hi, hi - i < n + 1 PROVE g[i] = At(g, i)
    <3>1. i >= p
      BY <2>3
    <3>2. i \notin ends => g[next[i]] = f[next[i]]
      BY <3>1, <2>2 DEF Forward
    <3>3. At(g, i) = At(f, i)
      <4> HIDE DEF g
      <4>1. QED
        BY <3>2
    <3>4. g[i] = At(f, i)
      <4> HIDE DEF At
      <4>1. CASE i = p
        BY <4>1
      <4>2. CASE i # p
        BY <2>1, <3>1, <4>2
      <4>3. QED
        BY <4>1, <4>2
    <3>5. QED
      BY <3>3, <3>4
  <2> HIDE DEF g
  <2>4. Done(g, n + 1)
    BY <2>3
  <2>5. QED
    BY <2>2, <2>4
<1>4. m \in S
  <2> HIDE DEF S, m
  <2>1. QED
    BY <1>1, <1>2, <1>3, UpTo
<1>5. PICK f : Done(f, m)
  BY <1>4
<1> DEFINE g == [i \in lo..hi |-> f[i]]
<1>6. \A i \in lo..hi : f[i] = At(f, i)
  BY <1>5
<1>7. \A i \in lo..hi : At(g, i) = At(f, i)
  BY DEF Forward
<1>8. g = [i \in lo..hi |-> At(g, i)]
  <2> HIDE DEF At
  <2>1. QED
    BY <1>6, <1>7
<1>9. QED
  <2>1. g = Walk(g, lo, hi, ends, item, next)
    BY <1>8 DEF Walk
  <2>2. QED
    BY <2>1

\* f tells what a walk takes from every place.
IsWalk(f, lo, hi, ends, item, next) == f = Walk(f, lo, hi, ends, item, next)

\* What a walk takes from some place on is a sequence of items.
LEMMA WalkType ==
    ASSUME NEW lo \in Int, NEW hi \in Int, NEW ends, NEW item, NEW next, NEW T,
           Forward(lo, hi, ends, item, next, T),
           NEW f, f = Walk(f, lo, hi, ends, item, next)
    PROVE  \A i \in lo..hi : f[i] \in Seq(T)
<1> DEFINE m == IF lo <= hi THEN hi - lo + 1 ELSE 0
           S == {n \in 0..m : \A i \in lo..hi : hi - i < n => f[i] \in Seq(T)}
<1>1. m \in Nat
  OBVIOUS
<1>2. 0 \in S
  BY <1>1
<1>3. ASSUME NEW n \in 0..(m - 1), n \in S PROVE n + 1 \in S
  <2>1. ASSUME NEW i \in lo..hi, hi - i < n + 1 PROVE f[i] \in Seq(T)
    <3>1. f[i] = IF i \in ends THEN <<>> ELSE <<item[i]>> \o f[next[i]]
      BY DEF Walk
    <3>2. CASE i \in ends
      BY <3>1, <3>2
    <3>3. CASE i \notin ends
      <4>1. next[i] \in (i + 1)..hi /\ item[i] \in T
        BY <3>3 DEF Forward
      <4>2. f[next[i]] \in Seq(T)
        BY <1>3, <2>1, <4>1
      <4>3. <<item[i]>> \in Seq(T)
        BY <4>1
      <4>4. QED
        BY <3>1, <3>3, <4>2, <4>3, ConcatProperties
    <3>4. QED
      BY <3>2, <3>3
  <2>2. n + 1 \in 0..m
    BY <1>1
  <2>3. QED
    BY <2>1, <2>2
<1>4. m \in S
  <2> HIDE DEF S, m
  <2>1. QED
    BY <1>1, <1>2, <1>3, UpTo
<1>5. QED
  BY <1>4

\* The walk goes by the places q[0], q[1], ... and takes the items s[1], s[2], ...
Along(q, s, lo, hi, ends, item, next) ==
    /\ q \in [0..Len(s) -> lo..hi]
    /\ \A k \in 1..Len(s) : /\ q[k - 1] \notin ends
                            /\ item[q[k - 1]] = s[k]
                            /\ next[q[k - 1]] = q[k]

\* Three sequences, one behind the other.
LEMMA Regroup ==
    ASSUME NEW T, NEW a \in Seq(T), NEW b \in Seq(T), NEW c \in Seq(T)
    PROVE  a \o (b \o c) = (a \o b) \o c
BY ConcatAssociative, SMTT(60)

\* A walk by the places q[0] to q[n] takes the items between them, then what a
\* walk from the last place takes.
LEMMA WalkAlong ==
    ASSUME NEW lo \in Int, NEW hi \in Int, NEW ends, NEW item, NEW next, NEW T,
           Forward(lo, hi, ends, item, next, T),
           NEW f, IsWalk(f, lo, hi, ends, item, next),
           NEW s \in Seq(T), NEW q, Along(q, s, lo, hi, ends, item, next)
    PROVE  f[q[0]] = s \o f[q[Len(s)]]
<1> USE DEF Along
<1> DEFINE m == Len(s)
           S == {n \in 0..m : f[q[0]] = SubSeq(s, 1, n) \o f[q[n]]}
<1>a. m \in Nat
  OBVIOUS
<1>1. \A n \in 0..m : q[n] \in lo..hi /\ f[q[n]] \in Seq(T)
  <2>1. \A i \in lo..hi : f[i] \in Seq(T)
    <3> HIDE DEF S, m
    <3>1. QED
      BY WalkType DEF IsWalk
  <2>2. \A n \in 0..m : q[n] \in lo..hi
    OBVIOUS
  <2>3. QED
    BY <2>1, <2>2
<1>2. 0 \in S
  <2>1. SubSeq(s, 1, 0) = <<>>
    BY SubSeqEmpty
  <2>2. <<>> \o f[q[0]] = f[q[0]]
    BY <1>1, ConcatEmptySeq
  <2>3. QED
    BY <1>a, <1>1, <2>1, <2>2
<1>3. ASSUME NEW n \in 0..(m - 1), n \in S PROVE n + 1 \in S
  <2> DEFINE t == SubSeq(s, 1, n)
             x == s[n + 1]
             r == f[q[n + 1]]
  <2>1. n + 1 \in 1..m /\ n + 1 \in 0..m /\ n \in 0..m /\ (n + 1) - 1 = n
    BY <1>a
  <2>2. f[q[n]] = <<x>> \o r
    <3>1. q[n] \in lo..hi /\ q[n] \notin ends /\ item[q[n]] = x /\ next[q[n]] = q[n + 1]
      BY <1>1, <2>1
    <3>2. f[q[n]] = <<item[q[n]]>> \o f[next[q[n]]]
      BY <3>1 DEF Walk, IsWalk
    <3>3. QED
      BY <3>1, <3>2
  <2>3. x \in T /\ <<x>> \in Seq(T) /\ r \in Seq(T)
    BY <1>1, <2>1
  <2>4. t \in Seq(T)
    <3>1. \A i \in 1..n : s[i] \in T
      BY <1>a, <2>1
    <3>2. QED
      BY <3>1, SubSeqProperties
  <2>5. SubSeq(s, 1, n + 1) = t \o <<x>>
    <3>1. 1 \in 1..m /\ n + 1 \in 1..m
      BY <1>a, <2>1
    <3>2. SubSeq(s, 1, n + 1) = SubSeq(s, 1, (n + 1) - 1) \o <<s[n + 1]>>
      BY <1>1, <3>1, SubSeqRecursiveSecond
    <3>3. QED
      BY <2>1, <3>2
  <2>6. f[q[0]] = t \o (<<x>> \o r)
    BY <1>3, <2>2
  <2> HIDE DEF t, x, r
  <2>7. t \o (<<x>> \o r) = (t \o <<x>>) \o r
    <3> DEFINE y == <<x>>
    <3>1. y \in Seq(T)
      BY <2>3
    <3> HIDE DEF S, m, y, Along
    <3>2. t \o (y \o r) = (t \o y) \o r
      BY <2>3, <2>4, <3>1, Regroup, SMTT(60)
    <3>3. QED
      BY <3>2 DEF y
  <2>8. QED
    BY <2>1, <2>5, <2>6, <2>7 DEF r
<1>4. m \in S
  <2> HIDE DEF S, m
  <2>1. \A n \in 0..m : n \in S
    BY <1>a, <1>2, <1>3, UpTo, Zenon
  <2>2. QED
    BY <1>a, <2>1
<1>5. SubSeq(s, 1, m) = s
  BY SubSeqFull
<1>6. QED
  BY <1>4, <1>5

----------------------------------------------------------------------------
(* FlattenSeq *)

\* The recursion of FlattenSeq: the first i parts of s, one behind the other.
Flat(f, s) == [i \in 1..Len(s) |-> IF i = 1 THEN s[i] ELSE f[i - 1] \o s[i]]

\* The recursion has a solution.
LEMMA FlatExists ==
    ASSUME NEW X, NEW s \in Seq(X)
    PROVE  \E f : f = Flat(f, s)
<1> DEFINE At(f, i) == IF i = 1 THEN s[i] ELSE f[i - 1] \o s[i]
           Done(f, n) == \A i \in 1..n : f[i] = At(f, i)
           m == Len(s)
           S == {n \in 0..m : \E f : Done(f, n)}
<1>1. m \in Nat
  OBVIOUS
<1> HIDE DEF m
<1>2. 0 \in S
  BY <1>1
<1>3. ASSUME NEW n \in 0..(m - 1), n \in S PROVE n + 1 \in S
  <2>1. PICK f : Done(f, n)
    BY <1>3
  <2> DEFINE g == [i \in 1..m |-> IF i = n + 1 THEN At(f, i) ELSE f[i]]
  <2>2. n + 1 \in 1..m /\ n + 1 \in 0..m
    BY <1>1
  <2>3. ASSUME NEW i \in 1..(n + 1) PROVE g[i] = At(g, i)
    <3>1. i \in 1..m /\ (i # 1 => i - 1 \in 1..m /\ i - 1 # n + 1)
      BY <1>1, <2>2
    <3>2. i # 1 => g[i - 1] = f[i - 1]
      BY <3>1
    <3>3. At(g, i) = At(f, i)
      <4> HIDE DEF g
      <4>1. QED
        BY <3>2
    <3>4. g[i] = At(f, i)
      <4> HIDE DEF At
      <4>1. CASE i = n + 1
        BY <3>1, <4>1
      <4>2. CASE i # n + 1
        <5>1. i \in 1..n
          BY <1>1, <4>2
        <5>2. QED
          BY <2>1, <3>1, <4>2, <5>1
      <4>3. QED
        BY <4>1, <4>2
    <3>5. QED
      BY <3>3, <3>4
  <2> HIDE DEF g
  <2>4. Done(g, n + 1)
    BY <2>3
  <2>5. QED
    BY <2>2, <2>4
<1>4. m \in S
  <2> HIDE DEF S
  <2>1. \A n \in 0..m : n \in S
    BY <1>1, <1>2, <1>3, UpTo, Zenon
  <2>2. QED
    BY <1>1, <2>1
<1>5. PICK f : Done(f, m)
  BY <1>4
<1> DEFINE g == [i \in 1..m |-> f[i]]
<1>6. \A i \in 1..m : f[i] = At(f, i)
  BY <1>5
<1>7. ASSUME NEW i \in 1..m PROVE At(g, i) = At(f, i)
  <2>1. i # 1 => i - 1 \in 1..m
    BY <1>1
  <2>2. i # 1 => g[i - 1] = f[i - 1]
    BY <2>1
  <2> HIDE DEF g
  <2>3. QED
    BY <2>2
<1>8. g = [i \in 1..m |-> At(g, i)]
  <2> HIDE DEF At
  <2>1. QED
    BY <1>6, <1>7
<1>9. g = Flat(g, s)
  BY <1>8 DEF Flat, m
<1>10. QED
  BY <1>9

\* Its values are sequences, each with the part that is added.
LEMMA FlatStep ==
    ASSUME NEW T, NEW s \in Seq(Seq(T)), NEW f, f = Flat(f, s)
    PROVE  \A i \in 1..Len(s) :
              /\ f[i] = IF i = 1 THEN s[i] ELSE f[i - 1] \o s[i]
              /\ f[i] \in Seq(T)
<1> DEFINE m == Len(s)
           S == {n \in 0..m : n # 0 => f[n] \in Seq(T)}
<1>1. m \in Nat /\ \A i \in 1..m : s[i] \in Seq(T)
  BY ElementOfSeq
<1>2. \A i \in 1..m : f[i] = IF i = 1 THEN s[i] ELSE f[i - 1] \o s[i]
  BY DEF Flat
<1> HIDE DEF m
<1>3. 0 \in S
  BY <1>1
<1>4. ASSUME NEW n \in 0..(m - 1), n \in S PROVE n + 1 \in S
  <2>1. n + 1 \in 1..m /\ n + 1 \in 0..m /\ (n + 1) - 1 = n
    BY <1>1
  <2>2. CASE n = 0
    BY <1>1, <1>2, <2>1, <2>2
  <2>3. CASE n # 0
    <3>a. n + 1 # 1
      BY <1>1, <2>3
    <3>b. f[n + 1] = f[(n + 1) - 1] \o s[n + 1]
      BY <1>2, <2>1, <3>a
    <3>c. f[n] \in Seq(T)
      BY <1>4, <2>3
    <3>d. s[n + 1] \in Seq(T)
      BY <1>1, <2>1
    <3>1. f[n + 1] = f[n] \o s[n + 1] /\ f[n] \in Seq(T) /\ s[n + 1] \in Seq(T)
      BY <2>1, <3>b, <3>c, <3>d
    <3>2. f[n + 1] \in Seq(T)
      BY <3>1, ConcatProperties
    <3>3. QED
      BY <2>1, <3>2
  <2>4. QED
    BY <2>2, <2>3
<1>5. \A n \in 0..m : n \in S
  <2> HIDE DEF S
  <2>1. QED
    BY <1>1, <1>3, <1>4, UpTo, Zenon
<1>6. QED
  BY <1>1, <1>2, <1>5 DEF m

\* s and t agree on their first k parts.
Agree(s, t, k) ==
    k <= Len(s) /\ k <= Len(t) /\ \A i \in 1..k : s[i] = t[i]

\* Parts that agree are flattened alike.
LEMMA FlatUnique ==
    ASSUME NEW T, NEW s \in Seq(Seq(T)), NEW t \in Seq(Seq(T)),
           NEW f, f = Flat(f, s), NEW g, g = Flat(g, t),
           NEW k \in Nat \ {0}, Agree(s, t, k)
    PROVE  f[k] = g[k]
<1> DEFINE S == {n \in 0..k : n # 0 => f[n] = g[n]}
<1>1. k \in Nat /\ k # 0
  OBVIOUS
<1>2. \A i \in 1..k : /\ f[i] = IF i = 1 THEN s[i] ELSE f[i - 1] \o s[i]
                      /\ g[i] = IF i = 1 THEN t[i] ELSE g[i - 1] \o t[i]
                      /\ s[i] = t[i]
  <2>1. \A i \in 1..Len(s) : f[i] = IF i = 1 THEN s[i] ELSE f[i - 1] \o s[i]
    BY DEF Flat
  <2>2. \A i \in 1..Len(t) : g[i] = IF i = 1 THEN t[i] ELSE g[i - 1] \o t[i]
    BY DEF Flat
  <2>3. \A i \in 1..k : i \in 1..Len(s) /\ i \in 1..Len(t) /\ s[i] = t[i]
    BY DEF Agree
  <2>4. QED
    BY <2>1, <2>2, <2>3
<1>3. 0 \in S
  BY <1>1
<1>4. ASSUME NEW n \in 0..(k - 1), n \in S PROVE n + 1 \in S
  <2>1. n + 1 \in 1..k /\ n + 1 \in 0..k /\ (n + 1) - 1 = n
    BY <1>1
  <2>2. f[n + 1] = g[n + 1]
    BY <1>2, <1>4, <2>1
  <2>3. QED
    BY <2>1, <2>2
<1>5. \A n \in 0..k : n \in S
  <2> HIDE DEF S
  <2>1. QED
    BY <1>1, <1>3, <1>4, UpTo, Zenon
<1>6. QED
  BY <1>1, <1>5

\* Nothing is flattened to nothing.
LEMMA FlattenEmpty == FlattenSeq(<<>>) = <<>>
BY DEF FlattenSeq

\* FlattenSeq is what the recursion tells of the last part.
LEMMA FlattenIs ==
    ASSUME NEW T, NEW s \in Seq(Seq(T)), s # <<>>, NEW f, f = Flat(f, s)
    PROVE  FlattenSeq(s) = f[Len(s)]
<1> DEFINE c == CHOOSE g : g = Flat(g, s)
<1>1. Len(s) \in Nat \ {0}
  BY EmptySeq
<1>2. c = Flat(c, s)
  <2>1. \E g : g = Flat(g, s)
    BY FlatExists
  <2>2. QED
    BY <2>1
<1>3. FlattenSeq(s) = c[Len(s)]
  BY <1>1 DEF FlattenSeq, Flat
<1> HIDE DEF c
<1>4. c[Len(s)] = f[Len(s)]
  <2>1. Agree(s, s, Len(s))
    BY <1>1 DEF Agree
  <2>2. QED
    BY <1>1, <1>2, <2>1, FlatUnique
<1>5. QED
  BY <1>3, <1>4

\* Sequences are flattened to a sequence.
LEMMA FlattenType ==
    ASSUME NEW T, NEW s \in Seq(Seq(T))
    PROVE  FlattenSeq(s) \in Seq(T)
<1>1. CASE s = <<>>
  <2>1. FlattenSeq(s) = <<>>
    BY <1>1, FlattenEmpty
  <2>2. QED
    BY <2>1, EmptySeq
<1>2. CASE s # <<>>
  <2>1. PICK f : f = Flat(f, s)
    BY FlatExists
  <2>2. Len(s) \in 1..Len(s)
    BY <1>2, EmptySeq
  <2>3. f[Len(s)] \in Seq(T)
    BY <2>1, <2>2, FlatStep
  <2>4. QED
    BY <1>2, <2>1, <2>3, FlattenIs
<1>3. QED
  BY <1>1, <1>2

\* One more part is put behind the others.
LEMMA FlattenAppend ==
    ASSUME NEW T, NEW s \in Seq(Seq(T)), NEW e \in Seq(T)
    PROVE  FlattenSeq(Append(s, e)) = FlattenSeq(s) \o e
<1> DEFINE t == Append(s, e)
           n == Len(s)
<1>1. /\ t \in Seq(Seq(T)) /\ t # <<>> /\ Len(t) = n + 1 /\ t[n + 1] = e
      /\ n \in Nat /\ \A i \in 1..n : t[i] = s[i]
  BY AppendProperties
<1> HIDE DEF t
<1>2. PICK g : g = Flat(g, t)
  BY <1>1, FlatExists
<1>3. FlattenSeq(t) = g[n + 1]
  BY <1>1, <1>2, FlattenIs
<1>4. \A i \in 1..(n + 1) : g[i] = IF i = 1 THEN t[i] ELSE g[i - 1] \o t[i]
  <2>1. \A i \in 1..Len(t) : g[i] = IF i = 1 THEN t[i] ELSE g[i - 1] \o t[i]
    BY <1>2 DEF Flat
  <2>2. QED
    BY <1>1, <2>1
<1>5. CASE s = <<>>
  <2>1. n = 0
    BY <1>5
  <2>2. g[n + 1] = e
    BY <1>1, <1>4, <2>1
  <2>3. FlattenSeq(s) \o e = e
    BY <1>5, FlattenEmpty, ConcatEmptySeq
  <2>4. QED
    BY <1>3, <2>2, <2>3 DEF t
<1>6. CASE s # <<>>
  <2>1. n # 0
    BY <1>6, EmptySeq
  <2>2. PICK f : f = Flat(f, s)
    BY FlatExists
  <2>3. n + 1 \in 1..(n + 1) /\ n + 1 # 1 /\ (n + 1) - 1 = n /\ n \in 1..n
    BY <1>1, <2>1
  <2>4. g[n + 1] = g[n] \o e
    BY <1>1, <1>4, <2>3
  <2>5. f[n] = g[n]
    <3>1. n \in Nat \ {0} /\ Agree(s, t, n)
      BY <1>1, <2>3 DEF Agree
    <3> HIDE DEF n
    <3>2. QED
      BY <1>1, <1>2, <2>2, <3>1, FlatUnique
  <2>6. FlattenSeq(s) = f[n]
    BY <1>6, <2>2, FlattenIs
  <2>7. QED
    BY <1>3, <2>4, <2>5, <2>6 DEF t
<1>7. QED
  BY <1>5, <1>6

\* Flattening goes from part to part.
LEMMA FlattenParts ==
    ASSUME NEW T, NEW s \in Seq(Seq(T))
    PROVE  /\ FlattenSeq(SubSeq(s, 1, 0)) = <<>>
           /\ FlattenSeq(SubSeq(s, 1, Len(s))) = FlattenSeq(s)
           /\ \A k \in 1..Len(s) :
                 /\ FlattenSeq(SubSeq(s, 1, k - 1)) \in Seq(T)
                 /\ s[k] \in Seq(T)
                 /\ FlattenSeq(SubSeq(s, 1, k)) = FlattenSeq(SubSeq(s, 1, k - 1)) \o s[k]
<1>1. SubSeq(s, 1, 0) = <<>> /\ SubSeq(s, 1, Len(s)) = s
  BY SubSeqEmpty, SubSeqFull
<1>2. ASSUME NEW k \in 1..Len(s)
      PROVE  /\ FlattenSeq(SubSeq(s, 1, k - 1)) \in Seq(T)
             /\ s[k] \in Seq(T)
             /\ FlattenSeq(SubSeq(s, 1, k)) = FlattenSeq(SubSeq(s, 1, k - 1)) \o s[k]
  <2> DEFINE t == SubSeq(s, 1, k - 1)
  <2>1. s[k] \in Seq(T)
    BY ElementOfSeq
  <2>2. t \in Seq(Seq(T))
    <3>1. \A i \in 1..(k - 1) : s[i] \in Seq(T)
      BY ElementOfSeq
    <3>2. QED
      BY <3>1, SubSeqProperties
  <2>3. SubSeq(s, 1, k) = t \o <<s[k]>>
    <3>1. 1 \in 1..Len(s) /\ k \in 1..Len(s)
      OBVIOUS
    <3>2. QED
      BY <3>1, SubSeqRecursiveSecond
  <2> HIDE DEF t
  <2>4. t \o <<s[k]>> = Append(t, s[k])
    BY <2>1, <2>2, AppendIsConcat
  <2>5. FlattenSeq(t) \in Seq(T) /\ FlattenSeq(Append(t, s[k])) = FlattenSeq(t) \o s[k]
    BY <2>1, <2>2, FlattenType, FlattenAppend
  <2>6. QED
    BY <2>1, <2>3, <2>4, <2>5 DEF t
<1>3. QED
  BY <1>1, <1>2, FlattenEmpty

\* Where the parts lie: part k of s is behind the first off[k - 1] elements.
Chunks(s, off, all) ==
    /\ off \in [0..Len(s) -> Nat]
    /\ off[0] = 0 /\ off[Len(s)] = Len(all)
    /\ \A k \in 1..Len(s) :
          /\ off[k] = off[k - 1] + Len(s[k])
          /\ off[k] <= Len(all)
          /\ \A j \in 1..Len(s[k]) : all[off[k - 1] + j] = s[k][j]

\* The parts lie where the lengths of those before them add up to.
LEMMA FlattenChunks ==
    ASSUME NEW T, NEW s \in Seq(Seq(T)),
           NEW off, off = [k \in 0..Len(s) |-> Len(FlattenSeq(SubSeq(s, 1, k)))]
    PROVE  Chunks(s, off, FlattenSeq(s))
<1> DEFINE P(k) == FlattenSeq(SubSeq(s, 1, k))
           m == Len(s)
<1>1. m \in Nat /\ P(0) = <<>> /\ P(m) = FlattenSeq(s)
  BY FlattenParts
<1>2. \A k \in 1..m : P(k - 1) \in Seq(T) /\ s[k] \in Seq(T) /\ P(k) = P(k - 1) \o s[k]
  BY FlattenParts
<1>3. off = [k \in 0..m |-> Len(P(k))]
  OBVIOUS
<1> HIDE DEF P, m
<1>4. \A k \in 0..m : P(k) \in Seq(T)
  <2>1. P(0) \in Seq(T)
    BY <1>1, EmptySeq
  <2>2. ASSUME NEW k \in 1..m PROVE P(k) \in Seq(T)
    BY <1>2, ConcatProperties
  <2>3. QED
    BY <1>1, <2>1, <2>2
<1>5. off \in [0..m -> Nat] /\ off[0] = 0 /\ off[m] = Len(FlattenSeq(s))
  <2>1. \A k \in 0..m : Len(P(k)) \in Nat
    BY <1>4, LenProperties
  <2>2. QED
    BY <1>1, <1>3, <2>1
<1>6. \A k \in 1..m : /\ k \in 0..m /\ k - 1 \in 0..m
                      /\ off[k] = off[k - 1] + Len(s[k]) /\ Len(s[k]) \in Nat
                      /\ \A i \in 1..off[k - 1] : P(k)[i] = P(k - 1)[i]
                      /\ \A j \in 1..Len(s[k]) : P(k)[off[k - 1] + j] = s[k][j]
  <2> TAKE k \in 1..m
  <2>1. k \in 0..m /\ k - 1 \in 0..m
    BY <1>1
  <2>2. P(k - 1) \in Seq(T) /\ s[k] \in Seq(T) /\ P(k) = P(k - 1) \o s[k]
    BY <1>2
  <2>3. off[k] = Len(P(k)) /\ off[k - 1] = Len(P(k - 1))
    BY <1>3, <2>1
  <2> DEFINE a == P(k - 1)
             b == s[k]
  <2>4. /\ Len(a \o b) = Len(a) + Len(b)
        /\ \A i \in 1..(Len(a) + Len(b)) :
              (a \o b)[i] = IF i <= Len(a) THEN a[i] ELSE b[i - Len(a)]
    BY <2>2, ConcatProperties
  <2>5. Len(a) \in Nat /\ Len(b) \in Nat
    BY <2>2, LenProperties
  <2> HIDE DEF a, b
  <2>6. \A i \in 1..Len(a) : (a \o b)[i] = a[i]
    BY <2>4, <2>5
  <2>7. \A j \in 1..Len(b) : (a \o b)[Len(a) + j] = b[j]
    <3> TAKE j \in 1..Len(b)
    <3>1. Len(a) + j \in 1..(Len(a) + Len(b)) /\ ~(Len(a) + j <= Len(a)) /\ (Len(a) + j) - Len(a) = j
      BY <2>5
    <3>2. QED
      BY <2>4, <3>1
  <2>8. QED
    BY <2>1, <2>2, <2>3, <2>4, <2>5, <2>6, <2>7 DEF a, b
<1> DEFINE Lies(n, k) ==
              /\ off[k] <= off[n]
              /\ \A j \in 1..Len(s[k]) : P(n)[off[k - 1] + j] = s[k][j]
           S == {n \in 0..m : \A k \in 1..n : Lies(n, k)}
<1>7. 0 \in S
  BY <1>1
<1>8. ASSUME NEW n \in 0..(m - 1), n \in S PROVE n + 1 \in S
  <2> DEFINE h == n + 1
  <2>1. /\ h \in 1..m /\ h \in 0..m /\ n \in 0..m /\ h - 1 = n /\ n \in Nat
        /\ \A k \in 1..h : k = h \/ k \in 1..n
    BY <1>1
  <2>a. \A k \in 1..n : Lies(n, k)
    BY <1>8
  <2> HIDE DEF h, S
  <2>2. /\ off[h] = off[n] + Len(s[h]) /\ Len(s[h]) \in Nat
        /\ \A i \in 1..off[n] : P(h)[i] = P(n)[i]
        /\ \A j \in 1..Len(s[h]) : P(h)[off[n] + j] = s[h][j]
    <3>1. /\ off[h] = off[h - 1] + Len(s[h]) /\ Len(s[h]) \in Nat
          /\ \A i \in 1..off[h - 1] : P(h)[i] = P(h - 1)[i]
          /\ \A j \in 1..Len(s[h]) : P(h)[off[h - 1] + j] = s[h][j]
      BY <1>6, <2>1
    <3>2. QED
      BY <2>1, <3>1
  <2>3. off[n] \in Nat /\ off[h] \in Nat
    BY <1>5, <2>1
  <2>4. off[n] <= off[h]
    BY <2>2, <2>3
  <2>5. Lies(h, h)
    <3>1. off[h] <= off[h]
      BY <2>3
    <3>2. \A j \in 1..Len(s[h]) : P(h)[off[h - 1] + j] = s[h][j]
      BY <2>1, <2>2
    <3>3. QED
      BY <3>1, <3>2
  <2>6. ASSUME NEW k \in 1..n PROVE Lies(h, k)
    <3>1. k \in 1..m /\ k \in 0..m /\ k - 1 \in 0..m
      BY <1>1, <2>1
    <3>2. off[k] <= off[n]
      BY <2>a
    <3>3. \A j \in 1..Len(s[k]) : P(n)[off[k - 1] + j] = s[k][j]
      BY <2>a
    <3>4. off[k] \in Nat /\ off[k - 1] \in Nat
      BY <1>5, <3>1
    <3>5. off[k] = off[k - 1] + Len(s[k]) /\ Len(s[k]) \in Nat
      BY <1>6, <3>1
    <3>6. ASSUME NEW j \in 1..Len(s[k]) PROVE P(h)[off[k - 1] + j] = s[k][j]
      <4>1. off[k - 1] + j \in 1..off[n]
        <5> DEFINE u == off[k - 1]
                   v == off[n]
                   l == Len(s[k])
        <5>1. u \in Nat /\ v \in Nat /\ l \in Nat /\ u + l <= v /\ j \in 1..l
          BY <2>3, <3>2, <3>4, <3>5
        <5> HIDE DEF u, v, l
        <5>2. u + j \in 1..v
          BY <5>1
        <5>3. QED
          BY <5>2 DEF u, v
      <4>2. P(h)[off[k - 1] + j] = P(n)[off[k - 1] + j]
        BY <2>2, <4>1
      <4>3. QED
        BY <3>3, <4>2
    <3>7. off[k] <= off[h]
      BY <2>3, <2>4, <3>2, <3>4
    <3>8. QED
      BY <3>6, <3>7
  <2>7. \A k \in 1..h : Lies(h, k)
    <3> HIDE DEF Lies
    <3>1. QED
      BY <2>1, <2>5, <2>6
  <2>8. QED
    <3> HIDE DEF Lies
    <3>1. h \in S
      BY <2>1, <2>7 DEF S
    <3>2. QED
      BY <3>1 DEF h
<1>9. \A n \in 0..m : n \in S
  <2> HIDE DEF S
  <2>1. QED
    BY <1>1, <1>7, <1>8, UpTo, Zenon
<1>10. \A k \in 1..m : Lies(m, k)
  <2> HIDE DEF Lies
  <2>1. m \in S
    <3> HIDE DEF S
    <3>1. m \in 0..m
      BY <1>1
    <3>2. QED
      BY <1>9, <3>1
  <2>2. QED
    BY <2>1
<1> HIDE DEF S
<1>11. \A k \in 1..m : /\ off[k] <= Len(FlattenSeq(s))
                       /\ \A j \in 1..Len(s[k]) : FlattenSeq(s)[off[k - 1] + j] = s[k][j]
  BY <1>1, <1>5, <1>10
<1>12. QED
  BY <1>5, <1>6, <1>11 DEF Chunks, m

----------------------------------------------------------------------------
(* Bytes, and the values of variables *)

\* Bytes are numbers below Base.
LEMMA ByteFacts ==
    /\ Half \in Nat \ {0} /\ Base \in Nat \ {0} /\ Base = Half + Half
    /\ \A b \in Byte : b \in Nat /\ b < Base
BY WireAssumption DEF Base, Byte

\* Four elements are a sequence of length 4.
LEMMA OfFour ==
    ASSUME NEW T, NEW x \in [1..4 -> T]
    PROVE  x \in Seq(T) /\ Len(x) = 4
<1>1. x \in Seq(T)
  BY SeqDef
<1>2. DOMAIN x = 1..4
  OBVIOUS
<1>3. Len(x) \in Nat /\ DOMAIN x = 1..Len(x)
  BY <1>1, LenProperties
<1>4. QED
  BY <1>1, <1>2, <1>3

\* A tuple of four is a function on 1..4.
LEMMA FourIs ==
    ASSUME NEW T, NEW a \in T, NEW b \in T, NEW c \in T, NEW d \in T
    PROVE  <<a, b, c, d>> \in [1..4 -> T]
<1> DEFINE x == <<a, b, c, d>>
<1>1. x \in Seq(T) /\ Len(x) = 4
  OBVIOUS
<1> HIDE DEF x
<1>2. x \in [1..4 -> T]
  BY <1>1, LenProperties
<1>3. QED
  BY <1>2 DEF x

\* A tuple of one is a sequence of length 1.
LEMMA OneIs ==
    ASSUME NEW T, NEW a \in T
    PROVE  <<a>> \in [1..1 -> T] /\ <<a>> \in Seq(T) /\ Len(<<a>>) = 1
<1> DEFINE x == <<a>>
<1>1. x \in Seq(T) /\ Len(x) = 1
  OBVIOUS
<1> HIDE DEF x
<1>2. x \in [1..1 -> T]
  BY <1>1
<1>3. QED
  BY <1>1, <1>2 DEF x

\* A value of a type of variables takes so many bytes.
Size(type) ==
    IF type \in FloatVar THEN 4
    ELSE IF type \in IntVar \/ type \in BoolVar THEN 1 ELSE 0

\* There are at least two values of a byte.
LEMMA BitIsByte == 0 \in Byte /\ 1 \in Byte
BY ByteFacts DEF Byte

\* A value is as many bytes as its type says.
LEMMA ValuesType ==
    ASSUME NEW type, NEW x \in Values(type)
    PROVE  x \in Seq(Byte) /\ Len(x) = Size(type)
<1>1. CASE type \in FloatVar
  <2>1. x \in [1..4 -> Byte]
    BY <1>1 DEF Values
  <2>2. QED
    BY <1>1, <2>1, OfFour DEF Size
<1>2. CASE type \notin FloatVar /\ type \in IntVar
  <2>1. x \in [1..1 -> Byte]
    BY <1>2 DEF Values
  <2>2. x \in Seq(Byte) /\ Len(x) = 1
    BY <2>1
  <2>3. QED
    BY <1>2, <2>2 DEF Size
<1>3. CASE type \notin FloatVar /\ type \notin IntVar /\ type \in BoolVar
  <2>1. x \in {<<0>>, <<1>>}
    BY <1>3 DEF Values
  <2>2. x \in Seq(Byte) /\ Len(x) = 1
    BY <2>1, OneIs, BitIsByte
  <2>3. QED
    BY <1>3, <2>2 DEF Size
<1>4. CASE type \notin FloatVar /\ type \notin IntVar /\ type \notin BoolVar
  <2>1. x = <<>>
    BY <1>4 DEF Values
  <2>2. QED
    BY <1>4, <2>1 DEF Size
<1>5. QED
  BY <1>1, <1>2, <1>3, <1>4

\* What is read for a value is one of its type.
LEMMA ValueAtType ==
    ASSUME NEW buf \in Seq(Byte), NEW i \in Nat \ {0}, i + 3 <= Len(buf), NEW type
    PROVE  ValueAt(buf, i, type) \in Values(type)
<1>1. buf[i] \in Byte /\ buf[i + 1] \in Byte /\ buf[i + 2] \in Byte /\ buf[i + 3] \in Byte
  OBVIOUS
<1>2. CASE type \in FloatVar
  <2>1. FloatAt(buf, i) \in [1..4 -> Byte]
    BY <1>1, FourIs DEF FloatAt
  <2>2. QED
    BY <1>2, <2>1 DEF ValueAt, Values
<1>3. CASE type \notin FloatVar /\ type \in IntVar
  <2>1. <<buf[i]>> \in [1..1 -> Byte]
    BY <1>1, OneIs
  <2>2. QED
    BY <1>3, <2>1 DEF ValueAt, Values
<1>4. CASE type \notin FloatVar /\ type \notin IntVar /\ type \in BoolVar
  BY <1>4 DEF ValueAt, Values
<1>5. CASE type \notin FloatVar /\ type \notin IntVar /\ type \notin BoolVar
  BY <1>5 DEF ValueAt, Values
<1>6. QED
  BY <1>2, <1>3, <1>4, <1>5

\* A variable with a value of its type.
Sound(v) == v \in Variable /\ v.value \in Values(v.type)

\* A variable is laid out as its type, then its value, a float turned round.
LEMMA PutVariableType ==
    ASSUME NEW v, Sound(v)
    PROVE  /\ PutVariable(v) \in Seq(Byte)
           /\ Len(PutVariable(v)) = 1 + Size(v.type)
           /\ PutVariable(v)[1] = v.type
           /\ v.type \in Byte
           /\ \A j \in 1..Size(v.type) :
                 PutVariable(v)[j + 1] = IF v.type \in FloatVar THEN v.value[5 - j]
                                                                ELSE v.value[j]
<1> DEFINE x == IF v.type \in FloatVar THEN Reverse(v.value) ELSE v.value
           n == Size(v.type)
<1>1. v.type \in Byte /\ v.value \in Seq(Byte) /\ Len(v.value) = n
  BY ValuesType DEF Sound, Variable
<1>2. n \in Nat
  BY DEF Size
<1>3. /\ x \in Seq(Byte) /\ Len(x) = n
      /\ \A j \in 1..n : x[j] = IF v.type \in FloatVar THEN v.value[5 - j] ELSE v.value[j]
  <2>1. CASE v.type \in FloatVar
    <3>1. n = 4 /\ Len(v.value) = 4
      BY <1>1, <2>1 DEF Size
    <3>2. x = [j \in 1..4 |-> v.value[(4 - j) + 1]]
      BY <2>1, <3>1 DEF Reverse
    <3>3. \A j \in 1..4 : (4 - j) + 1 = 5 - j /\ 5 - j \in 1..4 /\ v.value[5 - j] \in Byte
      BY <1>1, <3>1
    <3> HIDE DEF x, n
    <3>4. x \in [1..4 -> Byte] /\ \A j \in 1..4 : x[j] = v.value[5 - j]
      BY <3>2, <3>3
    <3>5. x \in Seq(Byte) /\ Len(x) = 4
      BY <3>4, OfFour
    <3>6. QED
      BY <2>1, <3>1, <3>4, <3>5
  <2>2. CASE v.type \notin FloatVar
    BY <1>1, <2>2
  <2>3. QED
    BY <2>1, <2>2
<1>4. PutVariable(v) = <<v.type>> \o x
  BY DEF PutVariable
<1> HIDE DEF x, n
<1>5. <<v.type>> \in Seq(Byte) /\ Len(<<v.type>>) = 1 /\ <<v.type>>[1] = v.type
  BY <1>1, OneIs
<1>6. /\ PutVariable(v) \in Seq(Byte)
      /\ Len(PutVariable(v)) = 1 + n
      /\ \A i \in 1..(1 + n) :
            PutVariable(v)[i] = IF i <= 1 THEN <<v.type>>[i] ELSE x[i - 1]
  BY <1>3, <1>4, <1>5, ConcatProperties
<1>7. PutVariable(v)[1] = v.type
  <2>1. 1 \in 1..(1 + n) /\ 1 <= 1
    BY <1>2
  <2>2. PutVariable(v)[1] = <<v.type>>[1]
    BY <1>6, <2>1
  <2>3. QED
    BY <1>5, <2>2
<1>8. \A j \in 1..n : PutVariable(v)[j + 1] = x[j]
  <2> TAKE j \in 1..n
  <2>1. j + 1 \in 1..(1 + n) /\ ~(j + 1 <= 1) /\ (j + 1) - 1 = j
    BY <1>2
  <2>2. QED
    BY <1>6, <2>1
<1>9. QED
  BY <1>1, <1>3, <1>6, <1>7, <1>8 DEF n

\* A variable is read as the game reported it.
LEMMA VariableIsRead ==
    ASSUME NEW v, Sound(v), NEW buf \in Seq(Byte),
           NEW i \in Nat \ {0}, i + 4 <= Len(buf),
           \A j \in 1..Len(PutVariable(v)) : buf[(i - 1) + j] = PutVariable(v)[j]
    PROVE  buf[i] = v.type /\ ValueAt(buf, i + 1, v.type) = v.value
<1> DEFINE n == Size(v.type)
<1>1. /\ Len(PutVariable(v)) = 1 + n /\ PutVariable(v)[1] = v.type
      /\ \A j \in 1..n :
            PutVariable(v)[j + 1] = IF v.type \in FloatVar THEN v.value[5 - j]
                                                           ELSE v.value[j]
  BY PutVariableType
<1>2. n \in Nat /\ v.value \in Values(v.type) /\ v.value \in Seq(Byte) /\ Len(v.value) = n
  <2>1. n \in Nat
    BY DEF Size
  <2>2. v.value \in Values(v.type)
    BY DEF Sound
  <2>3. QED
    BY <2>1, <2>2, ValuesType
<1>3. buf[i] = v.type
  <2> HIDE DEF n
  <2>1. 1 \in 1..Len(PutVariable(v)) /\ (i - 1) + 1 = i
    BY <1>1, <1>2
  <2>2. QED
    BY <1>1, <2>1
<1>4. \A j \in 1..n : buf[i + j] = IF v.type \in FloatVar THEN v.value[5 - j]
                                                          ELSE v.value[j]
  <2> HIDE DEF n
  <2> TAKE j \in 1..n
  <2>1. j + 1 \in 1..Len(PutVariable(v)) /\ (i - 1) + (j + 1) = i + j
    BY <1>1, <1>2
  <2>2. buf[i + j] = PutVariable(v)[j + 1]
    BY <2>1
  <2>3. QED
    BY <1>1, <2>2
<1>5. CASE v.type \in FloatVar
  <2>1. n = 4 /\ v.value \in [1..4 -> Byte]
    BY <1>2, <1>5 DEF Size, Values
  <2>2. /\ buf[i + 1] = v.value[4] /\ buf[i + 2] = v.value[3]
        /\ buf[i + 3] = v.value[2] /\ buf[i + 4] = v.value[1]
    <3> HIDE DEF n
    <3>1. \A j \in 1..4 : buf[i + j] = v.value[5 - j]
      BY <1>4, <1>5, <2>1
    <3>2. 1 \in 1..4 /\ 2 \in 1..4 /\ 3 \in 1..4 /\ 4 \in 1..4
      OBVIOUS
    <3>3. buf[i + 1] = v.value[5 - 1] /\ buf[i + 2] = v.value[5 - 2]
          /\ buf[i + 3] = v.value[5 - 3] /\ buf[i + 4] = v.value[5 - 4]
      BY <3>1, <3>2
    <3>4. QED
      BY <3>3
  <2>3. ValueAt(buf, i + 1, v.type) = <<v.value[1], v.value[2], v.value[3], v.value[4]>>
    <3>1. (i + 1) + 1 = i + 2 /\ (i + 1) + 2 = i + 3 /\ (i + 1) + 3 = i + 4
      OBVIOUS
    <3>2. ValueAt(buf, i + 1, v.type) =
             <<buf[(i + 1) + 3], buf[(i + 1) + 2], buf[(i + 1) + 1], buf[i + 1]>>
      BY <1>5 DEF ValueAt, FloatAt
    <3>3. QED
      BY <2>2, <3>1, <3>2
  <2>4. v.value = <<v.value[1], v.value[2], v.value[3], v.value[4]>>
    BY <2>1
  <2>5. QED
    BY <1>3, <2>3, <2>4
<1>6. CASE v.type \notin FloatVar /\ v.type \in IntVar
  <2>1. n = 1 /\ v.value \in [1..1 -> Byte]
    BY <1>2, <1>6 DEF Size, Values
  <2>2. buf[i + 1] = v.value[1]
    <3> HIDE DEF n
    <3>1. 1 \in 1..n
      BY <2>1
    <3>2. QED
      BY <1>4, <1>6, <3>1
  <2>3. v.value = <<v.value[1]>>
    BY <2>1
  <2>4. QED
    BY <1>3, <1>6, <2>2, <2>3 DEF ValueAt
<1>7. CASE v.type \notin FloatVar /\ v.type \notin IntVar /\ v.type \in BoolVar
  <2>1. n = 1 /\ (v.value = <<0>> \/ v.value = <<1>>)
    BY <1>2, <1>7 DEF Size, Values
  <2>2. buf[i + 1] = v.value[1]
    <3> HIDE DEF n
    <3>1. 1 \in 1..n
      BY <2>1
    <3>2. QED
      BY <1>4, <1>7, <3>1
  <2>3. ValueAt(buf, i + 1, v.type) = <<IF buf[i + 1] = 1 THEN 1 ELSE 0>>
    BY <1>7 DEF ValueAt
  <2>4. CASE v.value = <<0>>
    BY <1>3, <2>2, <2>3, <2>4
  <2>5. CASE v.value = <<1>>
    BY <1>3, <2>2, <2>3, <2>5
  <2>6. QED
    BY <2>1, <2>4, <2>5
<1>8. CASE v.type \notin FloatVar /\ v.type \notin IntVar /\ v.type \notin BoolVar
  <2>1. v.value = <<>>
    BY <1>2, <1>8 DEF Values
  <2>2. QED
    BY <1>3, <1>8, <2>1 DEF ValueAt
<1>9. QED
  BY <1>5, <1>6, <1>7, <1>8

----------------------------------------------------------------------------
(* HandleUpdate: the variables of an update *)

\* The variables with a value of their type.
SoundVariable == {v \in Variable : v.value \in Values(v.type)}

\* Reports as a walk over the bytes of a read: where it ends, what is taken at
\* a place, and where it goes on.
Ends(size) == (size + 1)..(size + 5)

Items(buf, size) ==
    [i \in 2..size |-> [type |-> buf[i], value |-> ValueAt(buf, i + 1, buf[i])]]

Nexts(buf, size) ==
    [i \in 2..size |-> i + 1 + Len(ValueAt(buf, i + 1, buf[i]))]

\* It goes forward, behind the last variable at most to the end of the buffer.
LEMMA ReportsForward ==
    ASSUME NEW buf \in Seq(Byte), NEW size \in Nat, size + 4 <= Len(buf)
    PROVE  Forward(2, size + 5, Ends(size), Items(buf, size), Nexts(buf, size),
                   SoundVariable)
<1> SUFFICES ASSUME NEW i \in 2..(size + 5), i \notin Ends(size)
             PROVE  /\ Nexts(buf, size)[i] \in (i + 1)..(size + 5)
                    /\ Items(buf, size)[i] \in SoundVariable
  BY DEF Forward
<1>1. i \in 2..size /\ i + 1 \in Nat \ {0} /\ (i + 1) + 3 <= Len(buf)
  BY DEF Ends
<1> DEFINE x == ValueAt(buf, i + 1, buf[i])
<1>2. x \in Values(buf[i])
  BY <1>1, ValueAtType
<1>3. x \in Seq(Byte) /\ Len(x) \in 0..4 /\ buf[i] \in Byte
  <2>1. x \in Seq(Byte) /\ Len(x) = Size(buf[i])
    BY <1>2, ValuesType
  <2>2. Size(buf[i]) \in 0..4
    BY DEF Size
  <2>3. buf[i] \in Byte
    BY <1>1
  <2>4. QED
    BY <2>1, <2>2, <2>3
<1>4. Items(buf, size)[i] = [type |-> buf[i], value |-> x]
  BY <1>1 DEF Items
<1>5. Nexts(buf, size)[i] = i + 1 + Len(x)
  BY <1>1 DEF Nexts
<1> HIDE DEF x
<1>6. Nexts(buf, size)[i] \in (i + 1)..(size + 5)
  <2> DEFINE l == Len(x)
  <2>a. i \in 2..size /\ l \in 0..4
    BY <1>1, <1>3
  <2> HIDE DEF l
  <2>1. i + 1 + l \in (i + 1)..(size + 5)
    BY <2>a
  <2>2. QED
    BY <1>5, <2>1 DEF l
<1>7. Items(buf, size)[i] \in SoundVariable
  BY <1>2, <1>3, <1>4 DEF SoundVariable, Variable
<1>8. QED
  BY <1>6, <1>7

\* Reports is what that walk takes from the second byte on.
LEMMA ReportsIsWalk ==
    ASSUME NEW buf \in Seq(Byte), NEW size \in Nat, size + 4 <= Len(buf)
    PROVE  \E f : /\ f = Walk(f, 2, size + 5, Ends(size), Items(buf, size), Nexts(buf, size))
                  /\ Reports(buf, size) = f[2]
<1> DEFINE F(f) == [i \in 2..(size + 5) |->
                      IF i > size THEN <<>>
                      ELSE <<[type |-> buf[i], value |-> ValueAt(buf, i + 1, buf[i])]>>
                             \o f[i + 1 + Len(ValueAt(buf, i + 1, buf[i]))]]
           W(f) == Walk(f, 2, size + 5, Ends(size), Items(buf, size), Nexts(buf, size))
           c == CHOOSE f : f = F(f)
<1>1. ASSUME NEW f PROVE F(f) = W(f)
  <2>1. ASSUME NEW i \in 2..(size + 5)
        PROVE  /\ i > size <=> i \in Ends(size)
               /\ i \notin Ends(size) =>
                    /\ Items(buf, size)[i] =
                         [type |-> buf[i], value |-> ValueAt(buf, i + 1, buf[i])]
                    /\ Nexts(buf, size)[i] = i + 1 + Len(ValueAt(buf, i + 1, buf[i]))
    BY DEF Ends, Items, Nexts
  <2>2. QED
    BY <2>1 DEF Walk
<1>2. \E f : f = W(f)
  <2>1. Forward(2, size + 5, Ends(size), Items(buf, size), Nexts(buf, size), SoundVariable)
    BY ReportsForward
  <2>2. 2 \in Int /\ size + 5 \in Int
    OBVIOUS
  <2>3. QED
    BY <2>1, <2>2, WalkExists
<1>3. c = F(c)
  <2> HIDE DEF F, W
  <2>1. \E f : f = F(f)
    BY <1>1, <1>2
  <2>2. QED
    BY <2>1
<1>4. Reports(buf, size) = c[2]
  BY DEF Reports
<1> HIDE DEF F, W, c
<1>5. c = W(c)
  BY <1>1, <1>3
<1>6. QED
  BY <1>4, <1>5 DEF W

\* Whatever is read as an update are variables with values of their types.
LEMMA ReportsType ==
    ASSUME NEW buf \in Seq(Byte), NEW size \in Nat, size + 4 <= Len(buf)
    PROVE  Reports(buf, size) \in Seq(SoundVariable)
<1> DEFINE lo == 2
           hi == size + 5
           e == Ends(size)
           x == Items(buf, size)
           n == Nexts(buf, size)
<1>1. Forward(lo, hi, e, x, n, SoundVariable)
  BY ReportsForward
<1>2. PICK f : f = Walk(f, lo, hi, e, x, n) /\ Reports(buf, size) = f[2]
  BY ReportsIsWalk
<1>3. lo \in Int /\ hi \in Int /\ 2 \in lo..hi
  OBVIOUS
<1> HIDE DEF lo, hi, e, x, n
<1>4. \A i \in lo..hi : f[i] \in Seq(SoundVariable)
  BY <1>1, <1>2, <1>3, WalkType
<1>5. QED
  BY <1>2, <1>3, <1>4

\* The variables of an update, each as it is laid out.
PutVariables(vs) == [i \in DOMAIN vs |-> PutVariable(vs[i])]

\* They are sequences of bytes, each as long as its type and value.
LEMMA PutVariablesType ==
    ASSUME NEW vs \in Seq(SoundVariable)
    PROVE  /\ PutVariables(vs) \in Seq(Seq(Byte)) /\ Len(PutVariables(vs)) = Len(vs)
           /\ \A k \in 1..Len(vs) : /\ Sound(vs[k]) /\ PutVariables(vs)[k] = PutVariable(vs[k])
                                    /\ Len(PutVariable(vs[k])) = 1 + Len(vs[k].value)
                                    /\ Len(vs[k].value) \in Nat
<1> DEFINE m == Len(vs)
           p == PutVariables(vs)
<1>1. m \in Nat /\ DOMAIN vs = 1..m
  BY LenProperties
<1>2. p = [k \in 1..m |-> PutVariable(vs[k])]
  BY <1>1 DEF PutVariables
<1>3. \A k \in 1..m : Sound(vs[k])
  BY DEF Sound, SoundVariable
<1>4. \A k \in 1..m : PutVariable(vs[k]) \in Seq(Byte)
  BY <1>3, PutVariableType
<1>5. \A k \in 1..m : Len(PutVariable(vs[k])) = 1 + Len(vs[k].value) /\ Len(vs[k].value) \in Nat
  <2> TAKE k \in 1..m
  <2>1. Len(PutVariable(vs[k])) = 1 + Size(vs[k].type)
    BY <1>3, PutVariableType
  <2>2. vs[k].value \in Values(vs[k].type)
    BY <1>3 DEF Sound
  <2>3. Len(vs[k].value) = Size(vs[k].type)
    BY <2>2, ValuesType
  <2>4. Size(vs[k].type) \in Nat
    BY DEF Size
  <2>5. QED
    BY <2>1, <2>3, <2>4
<1> HIDE DEF m, p
<1>6. p \in [1..m -> Seq(Byte)]
  BY <1>2, <1>4
<1>7. p \in Seq(Seq(Byte)) /\ Len(p) = m
  <2>1. p \in Seq(Seq(Byte))
    BY <1>1, <1>6, SeqDef
  <2>2. Len(p) \in Nat /\ DOMAIN p = 1..Len(p)
    BY <2>1, LenProperties
  <2>3. DOMAIN p = 1..m
    BY <1>2
  <2> DEFINE l == Len(p)
  <2>a. l \in Nat /\ 1..l = 1..m
    BY <2>2, <2>3
  <2> HIDE DEF l
  <2>b. l = m
    BY <1>1, <2>a
  <2>4. Len(p) = m
    BY <2>b DEF l
  <2>5. QED
    BY <2>1, <2>4
<1>8. QED
  BY <1>2, <1>3, <1>5, <1>7 DEF m, p

\* s follows the type of the message.
Follows(buf, s) == \A j \in 1..Len(s) : buf[1 + j] = s[j]

\* The variables of an update are read as they were reported, one behind the
\* other; what is read besides is behind them.
LEMMA ReportsOfEncode ==
    ASSUME NEW vs \in Seq(SoundVariable), NEW all, all = FlattenSeq(PutVariables(vs)),
           NEW buf \in Seq(Byte), NEW size \in Nat, size + 4 <= Len(buf),
           1 + Len(all) <= size, Follows(buf, all)
    PROVE  \E rest \in Seq(SoundVariable) :
              /\ Reports(buf, size) = vs \o rest
              /\ size = 1 + Len(all) => rest = <<>>
<1> DEFINE p == PutVariables(vs)
           off == [k \in 0..Len(p) |-> Len(FlattenSeq(SubSeq(p, 1, k)))]
           m == Len(vs)
           lo == 2
           hi == size + 5
           e == Ends(size)
           x == Items(buf, size)
           n == Nexts(buf, size)
           q == [k \in 0..m |-> 2 + off[k]]
<1>1. /\ p \in Seq(Seq(Byte)) /\ Len(p) = m /\ m \in Nat
      /\ \A k \in 1..m : /\ Sound(vs[k]) /\ p[k] = PutVariable(vs[k])
                         /\ Len(p[k]) = 1 + Len(vs[k].value)
                         /\ Len(vs[k].value) \in Nat
  BY PutVariablesType
<1>2. Forward(lo, hi, e, x, n, SoundVariable)
  BY ReportsForward
<1>3. PICK f : f = Walk(f, lo, hi, e, x, n) /\ Reports(buf, size) = f[2]
  BY ReportsIsWalk
<1>4. lo \in Int /\ hi \in Int /\ 2 \in lo..hi /\ lo = 2 /\ hi = size + 5
      /\ Len(all) \in Nat
  <2>1. all \in Seq(Byte)
    BY <1>1, FlattenType
  <2>2. QED
    BY <2>1, LenProperties
<1>5. Chunks(p, off, all)
  <2> HIDE DEF p
  <2>1. off = [k \in 0..Len(p) |-> Len(FlattenSeq(SubSeq(p, 1, k)))]
    OBVIOUS
  <2>2. all = FlattenSeq(p)
    BY DEF p
  <2> HIDE DEF off
  <2>3. QED
    BY <1>1, <2>1, <2>2, FlattenChunks
<1>6. \A i \in 2..size : /\ i \notin e /\ i \in lo..hi
                         /\ x[i] = [type |-> buf[i], value |-> ValueAt(buf, i + 1, buf[i])]
                         /\ n[i] = i + 1 + Len(ValueAt(buf, i + 1, buf[i]))
  BY DEF Ends, Items, Nexts
<1>7. size + 1 \in e
  BY DEF Ends
<1> HIDE DEF p, off, m, lo, hi, e, x, n
<1>8. /\ off \in [0..m -> Nat] /\ off[0] = 0 /\ off[m] = Len(all)
      /\ \A k \in 1..m : /\ off[k] = off[k - 1] + Len(p[k]) /\ off[k] <= Len(all)
                         /\ \A j \in 1..Len(p[k]) : all[off[k - 1] + j] = p[k][j]
  BY <1>1, <1>5 DEF Chunks
<1>9. ASSUME NEW k \in 1..m
      PROVE  /\ q[k - 1] \notin e /\ x[q[k - 1]] = vs[k] /\ n[q[k - 1]] = q[k]
  <2>1. k \in 0..m /\ k - 1 \in 0..m
    BY <1>1
  <2> DEFINE a == off[k - 1]
             i == 2 + a
             l == Len(vs[k].value)
             z == Len(all)
  <2>2. a \in Nat /\ off[k] = a + 1 + l /\ l \in Nat /\ off[k] <= z /\ z \in Nat
        /\ 1 + z <= size
    <3>1. off[k - 1] \in Nat
      BY <1>8, <2>1
    <3>2. off[k] = off[k - 1] + (1 + l) /\ l \in Nat /\ off[k] <= z
      BY <1>1, <1>8
    <3>3. z \in Nat /\ 1 + z <= size
      BY <1>4
    <3> HIDE DEF l, z, a
    <3>4. off[k] = a + (1 + l) /\ a \in Nat
      BY <3>1, <3>2 DEF a
    <3>5. QED
      BY <3>2, <3>3, <3>4
  <2>a. /\ Len(p[k]) = 1 + l /\ p[k] = PutVariable(vs[k]) /\ Sound(vs[k])
        /\ \A j \in 1..Len(p[k]) : all[a + j] = p[k][j]
    BY <1>1, <1>8
  <2>3. q[k - 1] = i /\ q[k] = i + 1 + l
    <3>1. q[k - 1] = 2 + off[k - 1] /\ q[k] = 2 + off[k]
      BY <2>1
    <3> HIDE DEF q, a, l
    <3>2. q[k - 1] = 2 + a
      BY <3>1 DEF a
    <3>3. QED
      BY <2>2, <3>1, <3>2
  <2> HIDE DEF a, q, l, z
  <2>4. i \in 2..size
    BY <2>2
  <2>5. i \in Nat \ {0} /\ i + 4 <= Len(buf)
    BY <2>2, <2>4
  <2>6. \A j \in 1..Len(p[k]) : buf[(i - 1) + j] = p[k][j]
    <3> TAKE j \in 1..Len(p[k])
    <3>a. j \in 1..(1 + l)
      BY <2>a
    <3>1. a + j \in 1..z /\ 1 + (a + j) = (i - 1) + j
      BY <2>2, <3>a
    <3>2. buf[1 + (a + j)] = all[a + j]
      BY <3>1 DEF z, Follows
    <3>3. all[a + j] = p[k][j]
      BY <2>a
    <3>4. QED
      BY <3>1, <3>2, <3>3
  <2> HIDE DEF i
  <2>7. buf[i] = vs[k].type /\ ValueAt(buf, i + 1, vs[k].type) = vs[k].value
    <3>1. \A j \in 1..Len(PutVariable(vs[k])) : buf[(i - 1) + j] = PutVariable(vs[k])[j]
      BY <2>a, <2>6
    <3>2. QED
      BY <2>a, <2>5, <3>1, VariableIsRead
  <2>8. vs[k] = [type |-> vs[k].type, value |-> vs[k].value]
    BY <2>a DEF Sound, Variable
  <2>9. i \notin e /\ x[i] = vs[k] /\ n[i] = i + 1 + l
    BY <1>6, <2>4, <2>7, <2>8 DEF l
  <2>10. QED
    BY <2>3, <2>9
<1>10. q \in [0..m -> lo..hi]
  <2>1. ASSUME NEW k \in 0..m PROVE 2 + off[k] \in lo..hi
    <3>1. off[k] \in Nat /\ off[k] <= Len(all)
      <4>1. off[k] \in Nat
        BY <1>8
      <4>2. CASE k = 0
        BY <1>4, <1>8, <4>2
      <4>3. CASE k # 0
        <5>1. k \in 1..m
          BY <1>1, <4>3
        <5>2. QED
          BY <1>8, <4>1, <5>1
      <4>4. QED
        BY <4>2, <4>3
    <3>2. QED
      BY <1>4, <3>1
  <2>2. QED
    BY <2>1
<1>11. q[0] = 2 /\ q[m] = 2 + Len(all)
  BY <1>1, <1>8
<1> HIDE DEF q
<1>12. f[q[0]] = vs \o f[q[m]]
  <2>1. Along(q, vs, lo, hi, e, x, n)
    BY <1>9, <1>10 DEF Along, m
  <2>2. IsWalk(f, lo, hi, e, x, n) /\ lo \in Int /\ hi \in Int
    BY <1>3, <1>4 DEF IsWalk
  <2>3. f[q[0]] = vs \o f[q[Len(vs)]]
    BY <1>2, <2>1, <2>2, WalkAlong
  <2>4. QED
    BY <2>3 DEF m
<1>13. q[m] \in lo..hi /\ f[q[m]] \in Seq(SoundVariable)
  <2>1. \A i \in lo..hi : f[i] \in Seq(SoundVariable)
    BY <1>2, <1>3, <1>4, WalkType
  <2>2. q[m] \in lo..hi
    BY <1>1, <1>10
  <2>3. QED
    BY <2>1, <2>2
<1>14. size = 1 + Len(all) => f[q[m]] = <<>>
  <2>1. SUFFICES ASSUME size = 1 + Len(all) PROVE f[q[m]] = <<>>
    OBVIOUS
  <2>2. q[m] = size + 1
    BY <1>4, <1>11, <2>1
  <2>3. q[m] \in e
    BY <1>7, <2>2
  <2>4. f[q[m]] = IF q[m] \in e THEN <<>> ELSE <<x[q[m]]>> \o f[n[q[m]]]
    BY <1>3, <1>13 DEF Walk
  <2>5. QED
    BY <2>3, <2>4
<1>15. Reports(buf, size) = vs \o f[q[m]]
  BY <1>3, <1>11, <1>12
<1>16. QED
  BY <1>13, <1>14, <1>15

----------------------------------------------------------------------------
(* GetString: strings, and the chat message *)

\* A byte of the upper half is a negative char (GetString).
LEMMA CharFacts ==
    ASSUME NEW b \in Byte
    PROVE  /\ b < Half => Signed(b) = b
           /\ b >= Half => Signed(b) \in Int /\ Signed(b) < 0
BY ByteFacts DEF Signed

\* A string whose length is a char is read as it was written, and the next
\* value right behind it (GetString).
THEOREM ShortStringIsRead ==
    ASSUME NEW buf \in Seq(Byte), NEW s \in Seq(Byte), Len(s) < Half,
           NEW i \in Nat \ {0}, i + Len(s) <= Len(buf),
           buf[i] = Len(s), \A j \in 1..Len(s) : buf[i + j] = s[j]
    PROVE  StringAt(buf, i) = s /\ AfterString(buf, i) = i + 1 + Len(s)
<1>1. Len(s) \in Nat /\ Len(s) \in Byte /\ Signed(Len(s)) = Len(s)
  BY ByteFacts, CharFacts DEF Byte
<1>2. AfterString(buf, i) = i + 1 + Len(s)
  BY <1>1 DEF AfterString
<1>3. StringAt(buf, i) = SubSeq(buf, i + 1, i + Len(s))
  BY <1>1 DEF StringAt
<1> DEFINE t == SubSeq(buf, i + 1, i + Len(s))
<1>4. /\ t \in Seq(Byte) /\ Len(t) = Len(s)
      /\ \A j \in 1..Len(s) : t[j] = buf[i + j]
  <2>1. \A j \in (i + 1)..(i + Len(s)) : buf[j] \in Byte
    BY <1>1
  <2>2. /\ t \in Seq(Byte)
        /\ Len(t) = IF i + 1 <= i + Len(s) THEN (i + Len(s)) - (i + 1) + 1 ELSE 0
        /\ \A j \in 1..((i + Len(s)) - (i + 1) + 1) : t[j] = buf[(i + 1) + j - 1]
    BY <1>1, <2>1, SubSeqProperties
  <2> DEFINE l == Len(s)
  <2>3. l \in Nat
    BY <1>1
  <2> HIDE DEF t, l
  <2>4. (i + l) - (i + 1) + 1 = l /\ (l > 0 <=> i + 1 <= i + l)
    BY <2>3
  <2>5. Len(t) = l
    BY <2>2, <2>3, <2>4 DEF l
  <2>6. ASSUME NEW j \in 1..l PROVE t[j] = buf[i + j]
    <3>1. j \in 1..((i + l) - (i + 1) + 1) /\ (i + 1) + j - 1 = i + j
      BY <2>3
    <3>2. t[j] = buf[(i + 1) + j - 1]
      BY <2>2, <3>1 DEF l
    <3>3. QED
      BY <3>1, <3>2
  <2>7. QED
    BY <2>2, <2>5, <2>6 DEF l
<1> HIDE DEF t
<1>5. t = s
  BY <1>4, SeqEqual
<1>6. QED
  BY <1>2, <1>3, <1>5 DEF t

\* A length that is no char is read as negative, and the string as empty: what
\* was written of it is read for the values behind it (GetString).
THEOREM LongStringIsEmpty ==
    ASSUME NEW buf \in Seq(Byte), NEW i \in 1..Len(buf), buf[i] >= Half
    PROVE  StringAt(buf, i) = <<>> /\ AfterString(buf, i) = i + 1
<1>1. buf[i] \in Byte /\ Signed(buf[i]) \in Int /\ Signed(buf[i]) < 0
  BY CharFacts
<1>2. AfterString(buf, i) = i + 1
  BY <1>1 DEF AfterString
<1>3. SubSeq(buf, i + 1, i + Signed(buf[i])) = <<>>
  BY <1>1, SubSeqEmpty
<1>4. QED
  BY <1>2, <1>3 DEF StringAt

\* A number below n is its own remainder.
LEMMA SmallRemainder ==
    ASSUME NEW m \in Nat \ {0}, NEW x \in 0..(m - 1)
    PROVE  x % m = x
OBVIOUS

\* The remainder of a division by m is below m.
LEMMA Remainder ==
    ASSUME NEW m \in Nat \ {0}, NEW x \in Nat
    PROVE  x % m \in 0..(m - 1)
OBVIOUS

\* A byte in front of bytes.
LEMMA BytePrefixed ==
    ASSUME NEW a \in Byte, NEW s \in Seq(Byte)
    PROVE  /\ <<a>> \o s \in Seq(Byte) /\ Len(<<a>> \o s) = Len(s) + 1
           /\ (<<a>> \o s)[1] = a
           /\ \A j \in 1..Len(s) : (<<a>> \o s)[1 + j] = s[j]
<1>1. <<a>> \in Seq(Byte) /\ Len(<<a>>) = 1 /\ <<a>>[1] = a /\ Len(s) \in Nat
  BY OneIs
<1>2. /\ <<a>> \o s \in Seq(Byte) /\ Len(<<a>> \o s) = 1 + Len(s)
      /\ \A i \in 1..(1 + Len(s)) :
            (<<a>> \o s)[i] = IF i <= 1 THEN <<a>>[i] ELSE s[i - 1]
  BY <1>1, ConcatProperties
<1>3. 1 \in 1..(1 + Len(s))
      /\ \A j \in 1..Len(s) : 1 + j \in 1..(1 + Len(s)) /\ ~(1 + j <= 1)
                               /\ (1 + j) - 1 = j
  BY <1>1
<1>4. QED
  BY <1>1, <1>2, <1>3

\* A string as a game writes it: its length, and its bytes (GetString).
LEMMA PutStringIs ==
    ASSUME NEW s \in Seq(Byte), Len(s) < Base
    PROVE  /\ PutString(s) \in Seq(Byte) /\ Len(PutString(s)) = Len(s) + 1
           /\ PutString(s)[1] = Len(s)
           /\ \A j \in 1..Len(s) : PutString(s)[1 + j] = s[j]
<1> DEFINE n == Len(s)
<1>1. n \in Nat /\ n \in 0..(Base - 1) /\ n \in Byte
  BY LenProperties, ByteFacts DEF Byte
<1>2. n % Base = n
  <2> HIDE DEF n
  <2>1. QED
    BY <1>1, ByteFacts, SmallRemainder
<1>3. PutString(s) = <<n>> \o s
  BY <1>2 DEF PutString, Truncated
<1> HIDE DEF n
<1>4. /\ <<n>> \o s \in Seq(Byte) /\ Len(<<n>> \o s) = Len(s) + 1
      /\ (<<n>> \o s)[1] = n
      /\ \A j \in 1..Len(s) : (<<n>> \o s)[1 + j] = s[j]
  BY <1>1, BytePrefixed
<1>5. QED
  BY <1>3, <1>4 DEF n

\* Two strings one behind the other, read where the first begins: the second is
\* where AfterString says, unless the length of the first is no char (GetString).
LEMMA SecondString ==
    ASSUME NEW buf \in Seq(Byte), NEW s \in Seq(Byte), NEW u \in Seq(Byte),
           Len(s) < Base, Len(u) < Base,
           NEW i \in Nat \ {0}, i + Len(s) + 1 + Len(u) <= Len(buf),
           buf[i] = Len(s), \A j \in 1..Len(s) : buf[i + j] = s[j],
           buf[i + Len(s) + 1] = Len(u),
           \A j \in 1..Len(u) : buf[i + Len(s) + 1 + j] = u[j]
    PROVE  /\ StringAt(buf, i) = IF Len(s) < Half THEN s ELSE <<>>
           /\ StringAt(buf, AfterString(buf, i))
                = IF Len(s) >= Half THEN StringAt(s, 1)
                  ELSE IF Len(u) < Half THEN u ELSE <<>>
<1> DEFINE m == Len(s)
           n == Len(u)
<1>1. m \in Nat /\ n \in Nat /\ Len(buf) \in Nat /\ Half \in Nat \ {0}
  BY LenProperties, ByteFacts
<1>2. CASE m < Half
  <2>1. i + m <= Len(buf)
    BY <1>1
  <2>2. StringAt(buf, i) = s /\ AfterString(buf, i) = i + 1 + m
    BY <1>2, <2>1, ShortStringIsRead
  <2> DEFINE k == i + m + 1
  <2>3. /\ k \in Nat \ {0} /\ k + n <= Len(buf) /\ AfterString(buf, i) = k
        /\ buf[k] = n /\ \A j \in 1..n : buf[k + j] = u[j]
    BY <1>1, <2>2
  <2> HIDE DEF k
  <2>4. CASE n < Half
    <3>1. StringAt(buf, k) = u
      BY <2>3, <2>4, ShortStringIsRead
    <3>2. QED
      BY <1>1, <1>2, <2>2, <2>3, <2>4, <3>1
  <2>5. CASE ~(n < Half)
    <3>1. k \in 1..Len(buf) /\ buf[k] >= Half
      <4> HIDE DEF n
      <4>1. QED
        BY <1>1, <2>3, <2>5
    <3>2. StringAt(buf, k) = <<>>
      BY <3>1, LongStringIsEmpty
    <3>3. QED
      BY <1>1, <1>2, <2>2, <2>3, <2>5, <3>2
  <2>6. QED
    BY <2>4, <2>5
<1>3. CASE ~(m < Half)
  <2>1. i \in 1..Len(buf) /\ buf[i] >= Half /\ m >= Half
    <3>1. buf[i] = m
      OBVIOUS
    <3> HIDE DEF m, n
    <3>2. i + m + 1 + n <= Len(buf)
      BY DEF m, n
    <3>3. QED
      BY <1>1, <1>3, <3>1, <3>2
  <2>2. StringAt(buf, i) = <<>> /\ AfterString(buf, i) = i + 1
    BY <2>1, LongStringIsEmpty
  <2> DEFINE c == s[1]
             v == [j \in 1..c |-> s[1 + j]]
  <2>3. 1 \in 1..m /\ c \in Byte /\ c \in Nat
    <3>1. 1 \in 1..m
      BY <1>1, <1>3
    <3>2. c \in Byte
      BY <3>1
    <3>3. QED
      BY <3>1, <3>2, ByteFacts
  <2>4. buf[i + 1] = c /\ i + 1 \in 1..Len(buf) /\ i + 1 \in Nat \ {0}
    BY <1>1, <2>3
  <2>5. StringAt(buf, i + 1) = StringAt(s, 1)
    <3>1. CASE c < Half
      <4> HIDE DEF c, n
      <4>1. \A j \in 1..c : 1 + j \in 1..m /\ (i + 1) + j = i + (1 + j)
        BY <1>1, <1>3, <2>3, <3>1
      <4>2. v \in [1..c -> Byte]
        BY <4>1
      <4>3. v \in Seq(Byte) /\ Len(v) = c
        BY <2>3, <4>2, SeqDef, LenProperties
      <4>4. \A j \in 1..c : s[1 + j] = v[j] /\ buf[(i + 1) + j] = v[j]
        BY <4>1
      <4> HIDE DEF v
      <4>5. 1 + c <= m /\ (i + 1) + c <= Len(buf) /\ c < Half
        <5> HIDE DEF m
        <5>1. i + m + 1 + n <= Len(buf)
          BY DEF m, n
        <5>2. QED
          BY <1>1, <1>3, <2>3, <3>1, <5>1
      <4>6. StringAt(s, 1) = v
        <5>1. /\ s[1] = Len(v) /\ Len(v) < Half /\ 1 + Len(v) <= Len(s)
              /\ \A j \in 1..Len(v) : s[1 + j] = v[j]
          BY <4>3, <4>4, <4>5 DEF c, m
        <5>2. 1 \in Nat \ {0} /\ v \in Seq(Byte)
          BY <4>3
        <5>3. QED
          BY <5>1, <5>2, ShortStringIsRead
      <4>7. StringAt(buf, i + 1) = v
        <5>1. /\ buf[i + 1] = Len(v) /\ Len(v) < Half /\ (i + 1) + Len(v) <= Len(buf)
              /\ \A j \in 1..Len(v) : buf[(i + 1) + j] = v[j]
          BY <2>4, <4>3, <4>4, <4>5
        <5>2. i + 1 \in Nat \ {0} /\ v \in Seq(Byte)
          BY <2>4, <4>3
        <5>3. QED
          BY <5>1, <5>2, ShortStringIsRead
      <4>8. QED
        BY <4>6, <4>7
    <3>2. CASE ~(c < Half)
      <4>1. c >= Half
        BY <1>1, <2>3, <3>2
      <4>2. StringAt(s, 1) = <<>>
        BY <2>3, <4>1, LongStringIsEmpty
      <4>3. StringAt(buf, i + 1) = <<>>
        BY <2>4, <4>1, LongStringIsEmpty
      <4>4. QED
        BY <4>2, <4>3
    <3>3. QED
      BY <3>1, <3>2
  <2>6. QED
    BY <1>3, <2>1, <2>2, <2>5
<1>4. QED
  BY <1>2, <1>3

\* The bytes of a chat message: its type, the source and the text.
LEMMA ChatIs ==
    ASSUME NEW r \in Request, r.type = Message,
           Len(r.source) < Base, Len(r.text) < Base
    PROVE  LET m == Len(r.source)
               n == Len(r.text)
           IN  /\ Encode(r) \in Seq(Byte) /\ Len(Encode(r)) = m + n + 3
               /\ Encode(r)[1] = Message /\ Encode(r)[2] = m
               /\ \A j \in 1..m : Encode(r)[2 + j] = r.source[j]
               /\ Encode(r)[2 + m + 1] = n
               /\ \A j \in 1..n : Encode(r)[2 + m + 1 + j] = r.text[j]
<1> DEFINE m == Len(r.source)
           n == Len(r.text)
           x == PutString(r.source)
           y == PutString(r.text)
           b == x \o y
<1>1. r.source \in Seq(Byte) /\ r.text \in Seq(Byte) /\ m \in Nat /\ n \in Nat
      /\ Message \in Byte
  <2>1. r.source \in Seq(Byte) /\ r.text \in Seq(Byte) /\ r.type \in Byte
    BY DEF Request
  <2>2. QED
    BY <2>1, LenProperties
<1>2. /\ x \in Seq(Byte) /\ Len(x) = m + 1 /\ x[1] = m
      /\ \A j \in 1..m : x[1 + j] = r.source[j]
  BY <1>1, PutStringIs
<1>3. /\ y \in Seq(Byte) /\ Len(y) = n + 1 /\ y[1] = n
      /\ \A j \in 1..n : y[1 + j] = r.text[j]
  BY <1>1, PutStringIs
<1> HIDE DEF m, n, x, y
<1>4. /\ b \in Seq(Byte) /\ Len(b) = Len(x) + Len(y)
      /\ \A i \in 1..(Len(x) + Len(y)) :
            b[i] = IF i <= Len(x) THEN x[i] ELSE y[i - Len(x)]
  BY <1>2, <1>3, ConcatProperties
<1> HIDE DEF b
<1>5. Encode(r) = <<Message>> \o b
  BY DEF Encode, b, x, y
<1>6. /\ Encode(r) \in Seq(Byte) /\ Len(Encode(r)) = Len(b) + 1
      /\ Encode(r)[1] = Message
      /\ \A j \in 1..Len(b) : Encode(r)[1 + j] = b[j]
  BY <1>1, <1>4, <1>5, BytePrefixed
<1>7. Len(b) = m + n + 2
  BY <1>1, <1>2, <1>3, <1>4
<1>8. ASSUME NEW j \in 1..(m + 1) PROVE Encode(r)[1 + j] = x[j]
  <2>1. j \in 1..Len(b) /\ j \in 1..(Len(x) + Len(y)) /\ j <= Len(x)
    BY <1>1, <1>2, <1>3, <1>7
  <2>2. QED
    BY <1>4, <1>6, <2>1
<1>9. ASSUME NEW j \in 1..(n + 1) PROVE Encode(r)[1 + (m + 1 + j)] = y[j]
  <2> DEFINE k == m + 1 + j
  <2>1. k \in 1..Len(b) /\ k \in 1..(Len(x) + Len(y)) /\ ~(k <= Len(x))
        /\ k - Len(x) = j
    BY <1>1, <1>2, <1>3, <1>7
  <2> HIDE DEF k
  <2>2. Encode(r)[1 + k] = y[j]
    BY <1>4, <1>6, <2>1
  <2>3. QED
    BY <2>2 DEF k
<1>10. Encode(r)[2] = m
  <2>1. 1 \in 1..(m + 1) /\ 1 + 1 = 2
    BY <1>1
  <2>2. Encode(r)[1 + 1] = x[1]
    BY <1>8, <2>1
  <2>3. QED
    BY <1>2, <2>1, <2>2
<1>11. ASSUME NEW j \in 1..m PROVE Encode(r)[2 + j] = r.source[j]
  <2>1. 1 + j \in 1..(m + 1) /\ 1 + (1 + j) = 2 + j
    BY <1>1
  <2>2. Encode(r)[1 + (1 + j)] = x[1 + j]
    BY <1>8, <2>1
  <2>3. QED
    BY <1>2, <2>1, <2>2
<1>12. Encode(r)[2 + m + 1] = n
  <2>1. 1 \in 1..(n + 1) /\ 1 + (m + 1 + 1) = 2 + m + 1
    BY <1>1
  <2>2. Encode(r)[1 + (m + 1 + 1)] = y[1]
    BY <1>9, <2>1
  <2>3. QED
    BY <1>3, <2>1, <2>2
<1>13. ASSUME NEW j \in 1..n PROVE Encode(r)[2 + m + 1 + j] = r.text[j]
  <2>1. 1 + j \in 1..(n + 1) /\ 1 + (m + 1 + (1 + j)) = 2 + m + 1 + j
    BY <1>1
  <2>2. Encode(r)[1 + (m + 1 + (1 + j))] = y[1 + j]
    BY <1>9, <2>1
  <2>3. QED
    BY <1>3, <2>1, <2>2
<1>14. Len(Encode(r)) = m + n + 3
  BY <1>1, <1>6, <1>7
<1>15. QED
  BY <1>6, <1>10, <1>11, <1>12, <1>13, <1>14 DEF m, n

\* A chat message that starts a read, with whatever source and text, is heard as
\* it was sent, whatever follows it in the buffer, unless a length is no char.
\* Then that string is heard as empty, and behind such a source, what is heard
\* for the text is a piece of the source (HandleChatMessage, GetString).
THEOREM ChatIsHeard ==
    ASSUME NEW r \in Request, r.type = Message,
           Len(r.source) < Base, Len(r.text) < Base,
           NEW buf \in Seq(Byte), NEW size \in Nat,
           Len(Encode(r)) <= Len(buf),
           \A i \in 1..Len(Encode(r)) : buf[i] = Encode(r)[i]
    PROVE  /\ Taken(buf, size).type = Message
           /\ Taken(buf, size).source = Expected(r).source
           /\ Taken(buf, size).text = Expected(r).text
<1> DEFINE m == Len(r.source)
           n == Len(r.text)
           e == Encode(r)
<1>1. r.source \in Seq(Byte) /\ r.text \in Seq(Byte) /\ m \in Nat /\ n \in Nat
  <2>1. r.source \in Seq(Byte) /\ r.text \in Seq(Byte)
    BY DEF Request
  <2>2. QED
    BY <2>1, LenProperties
<1>2. /\ Len(e) = m + n + 3 /\ e[1] = Message /\ e[2] = m
      /\ \A j \in 1..m : e[2 + j] = r.source[j]
      /\ e[2 + m + 1] = n
      /\ \A j \in 1..n : e[2 + m + 1 + j] = r.text[j]
  BY ChatIs
<1> HIDE DEF e
<1>3. Len(e) <= Len(buf) /\ Len(buf) \in Nat /\ \A i \in 1..Len(e) : buf[i] = e[i]
  BY LenProperties DEF e
<1> HIDE DEF m, n
<1>4. /\ buf[1] = Message /\ buf[2] = m /\ buf[2 + m + 1] = n
      /\ 2 + m + 1 + n <= Len(buf)
  <2>1. 1 \in 1..Len(e) /\ 2 \in 1..Len(e) /\ 2 + m + 1 \in 1..Len(e)
    BY <1>1, <1>2
  <2>2. QED
    BY <1>1, <1>2, <1>3, <2>1
<1>5. ASSUME NEW j \in 1..m PROVE buf[2 + j] = r.source[j]
  <2>1. 2 + j \in 1..Len(e)
    BY <1>1, <1>2
  <2>2. QED
    BY <1>2, <1>3, <2>1
<1>6. ASSUME NEW j \in 1..n PROVE buf[2 + m + 1 + j] = r.text[j]
  <2>1. 2 + m + 1 + j \in 1..Len(e)
    BY <1>1, <1>2
  <2>2. QED
    BY <1>2, <1>3, <2>1
<1>7. /\ StringAt(buf, 2) = IF Len(r.source) < Half THEN r.source ELSE <<>>
      /\ StringAt(buf, AfterString(buf, 2))
           = IF Len(r.source) >= Half THEN StringAt(r.source, 1)
             ELSE IF Len(r.text) < Half THEN r.text ELSE <<>>
  <2>1. /\ buf[2] = Len(r.source) /\ buf[2 + Len(r.source) + 1] = Len(r.text)
        /\ 2 + Len(r.source) + 1 + Len(r.text) <= Len(buf)
    BY <1>4 DEF m, n
  <2>2. \A j \in 1..Len(r.source) : buf[2 + j] = r.source[j]
    BY <1>5 DEF m
  <2>3. \A j \in 1..Len(r.text) : buf[2 + Len(r.source) + 1 + j] = r.text[j]
    BY <1>6 DEF m, n
  <2>4. 2 \in Nat \ {0}
    OBVIOUS
  <2>5. QED
    BY <1>1, <2>1, <2>2, <2>3, <2>4, SecondString
<1>8. /\ Expected(r).source = IF Len(r.source) < Half THEN r.source ELSE <<>>
      /\ Expected(r).text = IF Len(r.source) >= Half THEN StringAt(r.source, 1)
                            ELSE IF Len(r.text) < Half THEN r.text ELSE <<>>
  BY DEF Expected, Request
<1>9. QED
  BY <1>4, <1>7, <1>8 DEF Taken

----------------------------------------------------------------------------
(* Requests *)

\* The variables of a request have values of their types.
LEMMA WellFormedVars ==
    ASSUME NEW r, WellFormed(r)
    PROVE  r.vars \in Seq(SoundVariable)
<1>1. r.vars \in Seq(Variable) /\ \A i \in DOMAIN r.vars : r.vars[i].value \in Values(r.vars[i].type)
  BY DEF WellFormed, Request
<1> DEFINE s == r.vars
<1>2. /\ Len(s) \in Nat /\ s \in [1..Len(s) -> Variable]
      /\ \A i \in 1..Len(s) : s[i].value \in Values(s[i].type)
  BY <1>1, LenProperties
<1> HIDE DEF s
<1>3. \A i \in 1..Len(s) : s[i] \in SoundVariable
  BY <1>2 DEF SoundVariable
<1>4. s \in [1..Len(s) -> SoundVariable]
  BY <1>2, <1>3
<1>5. s \in Seq(SoundVariable)
  BY <1>2, <1>4, SeqDef
<1>6. QED
  BY <1>5 DEF s

\* A request is bytes, and begins with its type.
LEMMA EncodeType ==
    ASSUME NEW r, WellFormed(r)
    PROVE  /\ Encode(r) \in Seq(Byte) /\ Len(Encode(r)) \in Nat \ {0}
           /\ Encode(r)[1] = r.type
           /\ r.type # Message =>
                 LET all == FlattenSeq(PutVariables(r.vars))
                 IN  /\ Len(Encode(r)) = 1 + Len(all)
                     /\ \A j \in 1..Len(all) : Encode(r)[1 + j] = all[j]
<1>1. r.type \in Byte
  BY DEF WellFormed, Request
<1> DEFINE all == FlattenSeq(PutVariables(r.vars))
<1>2. CASE r.type = Message
  <2>1. r \in Request /\ Len(r.source) < Base /\ Len(r.text) < Base
    BY DEF WellFormed
  <2>2. /\ Encode(r) \in Seq(Byte) /\ Encode(r)[1] = Message
        /\ Len(Encode(r)) = Len(r.source) + Len(r.text) + 3
    BY <1>2, <2>1, ChatIs
  <2>3. Len(r.source) \in Nat /\ Len(r.text) \in Nat
    <3>1. r.source \in Seq(Byte) /\ r.text \in Seq(Byte)
      BY <2>1 DEF Request
    <3>2. QED
      BY <3>1, LenProperties
  <2>4. Len(Encode(r)) \in Nat \ {0}
    <3> DEFINE a == Len(r.source)
               b == Len(r.text)
               c == Len(Encode(r))
    <3>1. a \in Nat /\ b \in Nat /\ c = a + b + 3
      BY <2>2, <2>3
    <3> HIDE DEF a, b, c
    <3>2. c \in Nat \ {0}
      BY <3>1
    <3>3. QED
      BY <3>2 DEF c
  <2> HIDE DEF all
  <2>5. QED
    BY <1>2, <2>2, <2>4
<1>3. CASE r.type # Message
  <2>1. all \in Seq(Byte)
    BY WellFormedVars, PutVariablesType, FlattenType
  <2>2. Encode(r) = <<r.type>> \o all
    BY <1>3 DEF Encode, PutVariables
  <2> HIDE DEF all
  <2>3. /\ Encode(r) \in Seq(Byte) /\ Len(Encode(r)) = Len(all) + 1
        /\ Encode(r)[1] = r.type
        /\ \A j \in 1..Len(all) : Encode(r)[1 + j] = all[j]
    BY <1>1, <2>1, <2>2, BytePrefixed
  <2>4. Len(all) \in Nat
    BY <2>1, LenProperties
  <2>5. QED
    BY <2>3, <2>4 DEF all
<1>4. QED
  BY <1>2, <1>3

\* The buffer begins with s.
Begins(buf, s) == Len(s) <= Len(buf) /\ \A i \in 1..Len(s) : buf[i] = s[i]

\* What is taken for a text is shorter than half the values of a byte.
LEMMA StringAtType ==
    ASSUME NEW buf \in Seq(Byte), NEW i \in Nat \ {0}, i + Half - 1 <= Len(buf), i <= Len(buf)
    PROVE  /\ StringAt(buf, i) \in Seq(Byte) /\ Len(StringAt(buf, i)) < Half
           /\ AfterString(buf, i) \in (i + 1)..(i + Half)
<1>1. buf[i] \in Byte
  OBVIOUS
<1> DEFINE n == buf[i]
<1>2. n \in Nat /\ Half \in Nat \ {0} /\ (n < Half => Signed(n) = n)
  BY <1>1, ByteFacts, CharFacts
<1>3. CASE n < Half
  <2>1. Signed(n) = n
    BY <1>2, <1>3
  <2> HIDE DEF n
  <2>2. \A j \in (i + 1)..(i + n) : buf[j] \in Byte
    <3>1. Len(buf) \in Nat
      OBVIOUS
    <3>2. \A j \in (i + 1)..(i + n) : j \in 1..Len(buf)
      BY <1>2, <1>3, <3>1
    <3>3. QED
      BY <3>2
  <2>3. i + 1 \in Int /\ i + n \in Int
    BY <1>2
  <2> DEFINE t == SubSeq(buf, i + 1, i + n)
  <2>4. t \in Seq(Byte) /\ Len(t) = IF i + 1 <= i + n THEN (i + n) - (i + 1) + 1 ELSE 0
    BY <2>2, <2>3, SubSeqProperties
  <2>5. StringAt(buf, i) = t
    BY <2>1 DEF StringAt, n
  <2> HIDE DEF t
  <2>6. Len(t) < Half
    BY <1>2, <1>3, <2>4
  <2>7. AfterString(buf, i) = i + 1 + (IF n > 0 THEN n ELSE 0)
    BY <2>1 DEF AfterString, n
  <2>8. AfterString(buf, i) \in (i + 1)..(i + Half)
    BY <1>2, <1>3, <2>7
  <2>9. QED
    BY <2>4, <2>5, <2>6, <2>8
<1>4. CASE ~(n < Half)
  <2>1. i \in 1..Len(buf) /\ buf[i] >= Half
    BY <1>2, <1>4
  <2>2. StringAt(buf, i) = <<>> /\ AfterString(buf, i) = i + 1
    BY <2>1, LongStringIsEmpty
  <2>3. QED
    BY <1>2, <2>2
<1>5. QED
  BY <1>3, <1>4

\* Whatever a read brings, the server takes it for a request.
LEMMA TakenType ==
    ASSUME NEW buf \in Seq(Byte), NEW size \in Nat, size + 4 <= Len(buf),
           Base + 1 <= Len(buf)
    PROVE  /\ Taken(buf, size) \in Request /\ Len(Taken(buf, size).text) < Half
           /\ Taken(buf, size).vars \in Seq(SoundVariable)
           /\ Taken(buf, size).type = buf[1]
<1> DEFINE t == Taken(buf, size)
<1>1. buf[1] \in Byte /\ t.type = buf[1]
  BY DEF Taken
<1>2. t.source \in Seq(Byte) /\ t.text \in Seq(Byte) /\ Len(t.text) < Half
  <2>1. CASE buf[1] = Message
    <3>1. /\ 2 \in Nat \ {0} /\ 2 + Half - 1 <= Len(buf) /\ 2 <= Len(buf)
          /\ Half \in Nat \ {0} /\ Base = Half + Half /\ Len(buf) \in Nat
      BY ByteFacts
    <3> DEFINE i == AfterString(buf, 2)
    <3>2. i \in 3..(2 + Half) /\ StringAt(buf, 2) \in Seq(Byte)
      BY <3>1, StringAtType
    <3> HIDE DEF i
    <3>3. i \in Nat \ {0} /\ i + Half - 1 <= Len(buf) /\ i <= Len(buf)
      BY <3>1, <3>2
    <3>4. StringAt(buf, i) \in Seq(Byte) /\ Len(StringAt(buf, i)) < Half
      BY <3>3, StringAtType
    <3>5. t.text = StringAt(buf, i) /\ t.source = StringAt(buf, 2)
      BY <2>1 DEF Taken, i
    <3>6. QED
      BY <3>2, <3>4, <3>5
  <2>2. CASE buf[1] # Message
    <3>1. t.text = <<>> /\ t.source = <<>>
      BY <2>2 DEF Taken
    <3>2. QED
      BY <3>1, ByteFacts
  <2>3. QED
    BY <2>1, <2>2
<1>3. t.vars \in Seq(SoundVariable)
  <2>1. t.vars = IF buf[1] = UpdateGame THEN Reports(buf, size) ELSE <<>>
    BY DEF Taken
  <2>2. Reports(buf, size) \in Seq(SoundVariable)
    BY ReportsType
  <2> HIDE DEF t
  <2>3. QED
    BY <2>1, <2>2, EmptySeq
<1>4. t.vars \in Seq(Variable)
  <2>1. SoundVariable \subseteq Variable
    BY DEF SoundVariable
  <2> HIDE DEF t
  <2>2. QED
    BY <1>3, <2>1, SeqMonotonic
<1>5. t \in Request
  <2>1. t = [type |-> t.type, source |-> t.source, text |-> t.text, vars |-> t.vars]
    BY DEF Taken
  <2> HIDE DEF t
  <2>2. QED
    BY <1>1, <1>2, <1>4, <2>1 DEF Request
<1>6. QED
  BY <1>1, <1>2, <1>3, <1>5

\* A read that begins with a whole request is heard as that request, but for
\* strings whose length is no char; of what follows it, only an update takes more
\* variables; and a request by itself is heard as it is (HandleUpdate,
\* HandleChatMessage, GetString, GetFloat).
THEOREM RequestIsHeard ==
    ASSUME NEW r, WellFormed(r), NEW buf \in Seq(Byte), NEW size \in Nat,
           size + 4 <= Len(buf), Len(Encode(r)) <= size, Begins(buf, Encode(r))
    PROVE  LET t == Taken(buf, size)
           IN  /\ t.type = r.type
               /\ t.source = Expected(r).source /\ t.text = Expected(r).text
               /\ \E rest \in Seq(SoundVariable) :
                     /\ t.vars = r.vars \o rest
                     /\ size = Len(Encode(r)) => rest = <<>>
<1> DEFINE t == Taken(buf, size)
<1>1. /\ r \in Request /\ Len(r.source) < Base /\ Len(r.text) < Base
      /\ (r.type # Message => r.source = <<>> /\ r.text = <<>>)
      /\ (r.type # UpdateGame => r.vars = <<>>)
  BY DEF WellFormed
<1>2. buf[1] = r.type
  <2>1. 1 \in 1..Len(Encode(r)) /\ Encode(r)[1] = r.type
    BY EncodeType
  <2>2. QED
    BY <2>1 DEF Begins
<1>3. t.type = r.type
  BY <1>2 DEF Taken
<1>4. t.source = Expected(r).source /\ t.text = Expected(r).text
  <2>1. CASE r.type = Message
    <3>1. /\ Len(Encode(r)) <= Len(buf)
          /\ \A i \in 1..Len(Encode(r)) : buf[i] = Encode(r)[i]
      BY DEF Begins
    <3>2. QED
      BY <1>1, <2>1, <3>1, ChatIsHeard
  <2>2. CASE r.type # Message
    <3>1. Len(<<>>) < Half /\ ~(Len(<<>>) >= Half)
      BY ByteFacts
    <3>2. Expected(r).source = <<>> /\ Expected(r).text = <<>>
      BY <1>1, <2>2, <3>1 DEF Expected, Request
    <3>3. QED
      BY <1>2, <2>2, <3>2 DEF Taken
  <2>3. QED
    BY <2>1, <2>2
<1>5. \E rest \in Seq(SoundVariable) :
         /\ t.vars = r.vars \o rest
         /\ size = Len(Encode(r)) => rest = <<>>
  <2>1. CASE r.type = UpdateGame
    <3> DEFINE all == FlattenSeq(PutVariables(r.vars))
    <3>1. t.vars = Reports(buf, size)
      BY <1>2, <2>1 DEF Taken
    <3>2. r.type # Message
      BY <2>1 DEF UpdateGame, Message
    <3>3. /\ Len(Encode(r)) = 1 + Len(all)
          /\ \A j \in 1..Len(all) : Encode(r)[1 + j] = all[j]
      BY <3>2, EncodeType
    <3>4. r.vars \in Seq(SoundVariable) /\ all \in Seq(Byte)
      BY WellFormedVars, PutVariablesType, FlattenType
    <3> HIDE DEF all, t
    <3>5. Len(all) \in Nat
      BY <3>4, LenProperties
    <3>6. Follows(buf, all)
      <4> SUFFICES ASSUME NEW j \in 1..Len(all) PROVE buf[1 + j] = all[j]
        BY DEF Follows
      <4>1. 1 + j \in 1..Len(Encode(r))
        BY <3>3, <3>5
      <4>2. buf[1 + j] = Encode(r)[1 + j]
        BY <4>1 DEF Begins
      <4>3. QED
        BY <3>3, <4>2
    <3>7. 1 + Len(all) <= size /\ all = FlattenSeq(PutVariables(r.vars))
      BY <3>3 DEF all
    <3>8. \E rest \in Seq(SoundVariable) :
             /\ Reports(buf, size) = r.vars \o rest
             /\ size = 1 + Len(all) => rest = <<>>
      <4>1. r.vars \in Seq(SoundVariable)
        BY <3>4
      <4>2. all = FlattenSeq(PutVariables(r.vars))
        BY <3>7
      <4>3. 1 + Len(all) <= size /\ size + 4 <= Len(buf) /\ size \in Nat
        BY <3>7
      <4>4. QED
        BY ONLY <3>6, <4>1, <4>2, <4>3, buf \in Seq(Byte), ReportsOfEncode
    <3>9. QED
      BY <3>1, <3>3, <3>8
  <2>2. CASE r.type # UpdateGame
    <3>1. t.vars = <<>> /\ r.vars = <<>>
      BY <1>1, <1>2, <2>2 DEF Taken
    <3> HIDE DEF t
    <3>2. <<>> \o <<>> = <<>> /\ <<>> \in Seq(SoundVariable)
      BY ConcatEmptySeq, EmptySeq
    <3>3. QED
      BY <3>1, <3>2
  <2>3. QED
    BY <2>1, <2>2
<1>6. QED
  BY <1>3, <1>4, <1>5

----------------------------------------------------------------------------
(* The size in front of a reply *)

\* A division with remainder, and the bound of the quotient.
LEMMA Quotient ==
    ASSUME NEW m \in Nat \ {0}, NEW x \in Nat, NEW c \in Nat, x < c * m
    PROVE  x \div m \in Nat /\ x = (x \div m) * m + (x % m) /\ x \div m < c
<1>1. x \div m \in Nat /\ x = m * (x \div m) + (x % m) /\ x % m \in 0..(m - 1)
  OBVIOUS
<1> DEFINE q == x \div m
           r == x % m
<1>2. q \in Nat /\ x = m * q + r /\ r \in 0..(m - 1)
  BY <1>1
<1> HIDE DEF q, r
<1>3. m * q = q * m /\ q * m \in Nat
  BY <1>2
<1>4. q < c
  <2>1. SUFFICES ASSUME q >= c PROVE FALSE
    BY <1>2
  <2>2. PICK d \in Nat : q = c + d
    <3>1. q - c \in Nat /\ q = c + (q - c)
      BY <1>2, <2>1
    <3>2. QED
      BY <3>1
  <2>3. (c + d) * m = c * m + d * m /\ d * m \in Nat /\ c * m \in Nat
    OBVIOUS
  <2>4. q * m = c * m + d * m
    BY <2>2, <2>3
  <2>5. x = q * m + r
    BY <1>2, <1>3
  <2> DEFINE a == c * m
             b == d * m
             e == q * m
  <2>6. x < a /\ x = e + r /\ e = a + b /\ a \in Nat /\ b \in Nat
    BY <2>3, <2>4, <2>5
  <2> HIDE DEF a, b, e
  <2>7. QED
    BY <1>2, <2>6
<1>5. QED
  BY <1>2, <1>3, <1>4 DEF q, r

\* The sizes that four bytes hold are below Limit.
Limit == Base * Base * Base * Base

\* A size of four bytes is read as it was written (intToByteArray).
THEOREM SizeIsRead ==
    ASSUME NEW n \in Nat, n < Limit, NEW s, NEW i \in Nat,
           \A j \in 1..4 : s[i + j] = IntToByteArray(n)[j]
    PROVE  SizeAt(s, i + 1) = n
<1> DEFINE n1 == n \div Base
           n2 == n1 \div Base
           n3 == n2 \div Base
<1>1. Base \in Nat \ {0}
  BY ByteFacts
<1>2. Base * Base \in Nat /\ Base * Base * Base \in Nat
  BY <1>1
<1>3. n1 \in Nat /\ n = n1 * Base + (n % Base) /\ n1 < Base * Base * Base
  BY <1>1, <1>2, Quotient DEF Limit
<1>4. n2 \in Nat /\ n1 = n2 * Base + (n1 % Base) /\ n2 < Base * Base
  <2> HIDE DEF n1
  <2>1. QED
    BY <1>1, <1>2, <1>3, Quotient
<1>5. n3 \in Nat /\ n2 = n3 * Base + (n2 % Base) /\ n3 < Base
  <2> HIDE DEF n1, n2
  <2>1. QED
    BY <1>1, <1>2, <1>4, Quotient
<1>6. n3 % Base = n3
  <2> HIDE DEF n3
  <2>1. n3 \in 0..(Base - 1)
    BY <1>1, <1>5
  <2>2. QED
    BY <1>1, <2>1, SmallRemainder
<1>7. IntToByteArray(n) = <<n3, n2 % Base, n1 % Base, n % Base>>
  BY <1>6 DEF IntToByteArray
<1> HIDE DEF n1, n2, n3
<1>8. /\ s[i + 1] = n3 /\ s[i + 2] = n2 % Base
      /\ s[i + 3] = n1 % Base /\ s[i + 4] = n % Base
  <2>1. 1 \in 1..4 /\ 2 \in 1..4 /\ 3 \in 1..4 /\ 4 \in 1..4
    OBVIOUS
  <2>2. /\ s[i + 1] = IntToByteArray(n)[1] /\ s[i + 2] = IntToByteArray(n)[2]
        /\ s[i + 3] = IntToByteArray(n)[3] /\ s[i + 4] = IntToByteArray(n)[4]
    BY <2>1
  <2>3. QED
    BY <1>7, <2>2
<1>9. SizeAt(s, i + 1) =
         ((s[i + 1] * Base + s[i + 2]) * Base + s[i + 3]) * Base + s[i + 4]
  <2>1. (i + 1) + 1 = i + 2 /\ (i + 1) + 2 = i + 3 /\ (i + 1) + 3 = i + 4
    OBVIOUS
  <2>2. QED
    BY <2>1 DEF SizeAt
<1>10. s[i + 1] * Base + s[i + 2] = n2
  BY <1>5, <1>8
<1>11. n2 * Base + s[i + 3] = n1
  BY <1>4, <1>8
<1>12. n1 * Base + s[i + 4] = n
  BY <1>3, <1>8
<1>13. QED
  BY <1>9, <1>10, <1>11, <1>12

\* Whatever the size, it is four bytes.
LEMMA SizeBytes ==
    ASSUME NEW n \in Nat
    PROVE  IntToByteArray(n) \in Seq(Byte) /\ Len(IntToByteArray(n)) = 4
<1> DEFINE n1 == n \div Base
           n2 == n1 \div Base
           n3 == n2 \div Base
<1>1. Base \in Nat \ {0}
  BY ByteFacts
<1>2. n1 \in Nat
  BY <1>1
<1>3. n2 \in Nat
  <2> HIDE DEF n1
  <2>1. QED
    BY <1>1, <1>2
<1>4. n3 \in Nat
  <2> HIDE DEF n1, n2
  <2>1. QED
    BY <1>1, <1>3
<1>5. IntToByteArray(n) = <<n3 % Base, n2 % Base, n1 % Base, n % Base>>
  BY DEF IntToByteArray
<1> HIDE DEF n1, n2, n3
<1>6. n3 % Base \in Byte /\ n2 % Base \in Byte /\ n1 % Base \in Byte /\ n % Base \in Byte
  BY <1>1, <1>2, <1>3, <1>4, Remainder DEF Byte
<1>7. IntToByteArray(n) \in [1..4 -> Byte]
  BY <1>5, <1>6, FourIs
<1>8. QED
  BY <1>7, OfFour

\* A reply with its size in front: four bytes, and its own.
LEMMA Sized ==
    ASSUME NEW a \in Seq(Byte), Len(a) < Limit
    PROVE  /\ AddSizeByte(a) \in Seq(Byte) /\ Len(AddSizeByte(a)) = 4 + Len(a)
           /\ \A j \in 1..4 : AddSizeByte(a)[j] = IntToByteArray(Len(a))[j]
           /\ \A j \in 1..Len(a) : AddSizeByte(a)[4 + j] = a[j]
<1> DEFINE b == IntToByteArray(Len(a))
           n == Len(a)
<1>1. n \in Nat /\ b \in Seq(Byte) /\ Len(b) = 4
  BY SizeBytes
<1>2. AddSizeByte(a) = b \o a
  BY DEF AddSizeByte
<1> HIDE DEF b
<1>3. /\ AddSizeByte(a) \in Seq(Byte) /\ Len(AddSizeByte(a)) = 4 + n
      /\ \A i \in 1..(4 + n) : AddSizeByte(a)[i] = IF i <= 4 THEN b[i] ELSE a[i - 4]
  <2>1. /\ b \o a \in Seq(Byte) /\ Len(b \o a) = Len(b) + Len(a)
        /\ \A i \in 1..(Len(b) + Len(a)) :
              (b \o a)[i] = IF i <= Len(b) THEN b[i] ELSE a[i - Len(b)]
    BY <1>1, ConcatProperties
  <2>2. QED
    BY <1>1, <1>2, <2>1
<1> HIDE DEF n
<1>4. \A j \in 1..4 : j \in 1..(4 + n) /\ j <= 4
  BY <1>1
<1>5. \A j \in 1..n : 4 + j \in 1..(4 + n) /\ ~(4 + j <= 4) /\ (4 + j) - 4 = j
  BY <1>1
<1>6. QED
  BY <1>3, <1>4, <1>5 DEF b, n

----------------------------------------------------------------------------
(* The replies of a stream *)

\* RepliesOn as a walk over the bytes of a stream: the last byte of the reply
\* at i, where the walk ends, what it takes, and where it goes on.
EndAt(s, i) == i + 3 + SizeAt(s, i)

ReplyEnds(s) == {i \in 1..(Len(s) + 1) : i + 3 > Len(s) \/ EndAt(s, i) > Len(s)}

ReplyItems(s) == [i \in 1..(Len(s) + 1) |-> SubSeq(s, i + 4, EndAt(s, i))]

ReplyNexts(s) == [i \in 1..(Len(s) + 1) |-> EndAt(s, i) + 1]

\* A size that is read is a number.
LEMMA SizeAtType ==
    ASSUME NEW s \in Seq(Byte), NEW i \in Nat \ {0}, i + 3 <= Len(s)
    PROVE  SizeAt(s, i) \in Nat
<1>1. s[i] \in Byte /\ s[i + 1] \in Byte /\ s[i + 2] \in Byte /\ s[i + 3] \in Byte
  OBVIOUS
<1> DEFINE a == s[i]
           b == s[i + 1]
           c == s[i + 2]
           d == s[i + 3]
<1>2. a \in Nat /\ b \in Nat /\ c \in Nat /\ d \in Nat /\ Base \in Nat
  BY <1>1, ByteFacts
<1>3. SizeAt(s, i) = ((a * Base + b) * Base + c) * Base + d
  BY DEF SizeAt
<1> HIDE DEF a, b, c, d
<1>4. a * Base + b \in Nat
  BY <1>2
<1>5. (a * Base + b) * Base + c \in Nat
  BY <1>2, <1>4
<1>6. ((a * Base + b) * Base + c) * Base + d \in Nat
  BY <1>2, <1>5
<1>7. QED
  BY <1>3, <1>6

\* It goes forward, at most to the end of the stream.
LEMMA RepliesForward ==
    ASSUME NEW s \in Seq(Byte)
    PROVE  Forward(1, Len(s) + 1, ReplyEnds(s), ReplyItems(s), ReplyNexts(s), Seq(Byte))
<1> SUFFICES ASSUME NEW i \in 1..(Len(s) + 1), i \notin ReplyEnds(s)
             PROVE  /\ ReplyNexts(s)[i] \in (i + 1)..(Len(s) + 1)
                    /\ ReplyItems(s)[i] \in Seq(Byte)
  BY DEF Forward
<1> DEFINE l == Len(s)
           n == SizeAt(s, i)
<1>1. l \in Nat /\ i \in 1..(l + 1)
  BY LenProperties
<1>2. ~(i + 3 > l) /\ ~(EndAt(s, i) > l)
  BY DEF ReplyEnds
<1>3. n \in Nat
  <2>1. i \in Nat \ {0} /\ i + 3 <= Len(s)
    BY <1>1, <1>2
  <2>2. QED
    BY <2>1, SizeAtType
<1>4. EndAt(s, i) = i + 3 + n
  BY DEF EndAt
<1>5. ReplyNexts(s)[i] = EndAt(s, i) + 1 /\ ReplyItems(s)[i] = SubSeq(s, i + 4, EndAt(s, i))
  BY DEF ReplyNexts, ReplyItems
<1> HIDE DEF n
<1>6. EndAt(s, i) + 1 \in (i + 1)..(l + 1) /\ i + 4 \in Int /\ EndAt(s, i) \in Int
  BY <1>1, <1>2, <1>3, <1>4
<1>7. SubSeq(s, i + 4, EndAt(s, i)) \in Seq(Byte)
  <2>1. \A j \in (i + 4)..EndAt(s, i) : j \in 1..l
    BY <1>1, <1>2, <1>6
  <2>2. \A j \in (i + 4)..EndAt(s, i) : s[j] \in Byte
    BY <2>1
  <2>3. QED
    BY <1>6, <2>2, SubSeqProperties
<1>8. QED
  BY <1>5, <1>6, <1>7

\* RepliesOn is what that walk takes from the first byte on.
LEMMA RepliesIsWalk ==
    ASSUME NEW s \in Seq(Byte)
    PROVE  \E f : /\ f = Walk(f, 1, Len(s) + 1, ReplyEnds(s), ReplyItems(s), ReplyNexts(s))
                  /\ RepliesOn(s) = f[1]
<1> DEFINE F(f) == [i \in 1..(Len(s) + 1) |->
                      IF i + 3 > Len(s) THEN <<>>
                      ELSE IF i + 3 + SizeAt(s, i) > Len(s) THEN <<>>
                           ELSE <<SubSeq(s, i + 4, i + 3 + SizeAt(s, i))>>
                                  \o f[i + 3 + SizeAt(s, i) + 1]]
           W(f) == Walk(f, 1, Len(s) + 1, ReplyEnds(s), ReplyItems(s), ReplyNexts(s))
           c == CHOOSE f : f = F(f)
<1>1. ASSUME NEW f PROVE F(f) = W(f)
  <2>1. ASSUME NEW i \in 1..(Len(s) + 1)
        PROVE  /\ i \in ReplyEnds(s) <=> i + 3 > Len(s) \/ i + 3 + SizeAt(s, i) > Len(s)
               /\ ReplyItems(s)[i] = SubSeq(s, i + 4, i + 3 + SizeAt(s, i))
               /\ ReplyNexts(s)[i] = i + 3 + SizeAt(s, i) + 1
    BY DEF ReplyEnds, ReplyItems, ReplyNexts, EndAt
  <2>2. QED
    BY <2>1 DEF Walk
<1>2. \E f : f = W(f)
  <2>1. Forward(1, Len(s) + 1, ReplyEnds(s), ReplyItems(s), ReplyNexts(s), Seq(Byte))
    BY RepliesForward
  <2>2. 1 \in Int /\ Len(s) + 1 \in Int
    BY LenProperties
  <2>3. QED
    BY <2>1, <2>2, WalkExists
<1>3. c = F(c)
  <2> HIDE DEF F, W
  <2>1. \E f : f = F(f)
    BY <1>1, <1>2
  <2>2. QED
    BY <2>1
<1>4. RepliesOn(s) = c[1]
  BY DEF RepliesOn
<1> HIDE DEF F, W, c
<1>5. c = W(c)
  BY <1>1, <1>3
<1>6. QED
  BY <1>4, <1>5 DEF W

\* The replies, each behind its size.
SizedReplies(as) == [i \in DOMAIN as |-> AddSizeByte(as[i])]

\* They are sequences of bytes.
LEMMA SizedRepliesType ==
    ASSUME NEW as \in Seq(Seq(Byte)), \A k \in 1..Len(as) : Len(as[k]) < Limit
    PROVE  /\ SizedReplies(as) \in Seq(Seq(Byte))
           /\ Len(SizedReplies(as)) = Len(as)
           /\ \A k \in 1..Len(as) : SizedReplies(as)[k] = AddSizeByte(as[k])
<1> DEFINE m == Len(as)
           p == SizedReplies(as)
<1>1. m \in Nat /\ DOMAIN as = 1..m
  BY LenProperties
<1>2. \A k \in 1..m : AddSizeByte(as[k]) \in Seq(Byte)
  <2> TAKE k \in 1..m
  <2>1. as[k] \in Seq(Byte) /\ Len(as[k]) < Limit
    BY ElementOfSeq
  <2>2. QED
    BY <2>1, Sized
<1>3. p = [k \in 1..m |-> AddSizeByte(as[k])]
  BY <1>1 DEF SizedReplies
<1> HIDE DEF m, p
<1>4. p \in [1..m -> Seq(Byte)]
  BY <1>2, <1>3
<1>5. p \in Seq(Seq(Byte))
  BY <1>1, <1>4, SeqDef
<1> DEFINE l == Len(p)
<1>6. l \in Nat /\ 1..l = 1..m
  <2>1. l \in Nat /\ DOMAIN p = 1..l
    BY <1>5, LenProperties
  <2>2. DOMAIN p = 1..m
    BY <1>3
  <2>3. QED
    BY <2>1, <2>2
<1> HIDE DEF l
<1>7. l = m
  BY <1>1, <1>6
<1>8. QED
  BY <1>3, <1>5, <1>7 DEF m, p, l

\* The replies of a stream are read off it as they were written, each after its
\* size (add_size_byte, do_write).
THEOREM RepliesAreRead ==
    ASSUME NEW as \in Seq(Seq(Byte)), \A k \in 1..Len(as) : Len(as[k]) < Limit
    PROVE  RepliesOn(FlattenSeq(SizedReplies(as))) = as
<1> DEFINE p == SizedReplies(as)
           all == FlattenSeq(p)
           m == Len(as)
           off == [k \in 0..Len(p) |-> Len(FlattenSeq(SubSeq(p, 1, k)))]
           lo == 1
           hi == Len(all) + 1
           e == ReplyEnds(all)
           x == ReplyItems(all)
           n == ReplyNexts(all)
           q == [k \in 0..m |-> 1 + off[k]]
<1>1. p \in Seq(Seq(Byte)) /\ Len(p) = m /\ m \in Nat
      /\ \A k \in 1..m : p[k] = AddSizeByte(as[k])
  <2>1. p \in Seq(Seq(Byte)) /\ Len(p) = m /\ \A k \in 1..m : p[k] = AddSizeByte(as[k])
    BY SizedRepliesType
  <2>2. m \in Nat
    BY LenProperties
  <2>3. QED
    BY <2>1, <2>2
<1>2. all \in Seq(Byte)
  <2> HIDE DEF p
  <2>1. QED
    BY <1>1, FlattenType
<1>3. Chunks(p, off, all)
  <2> HIDE DEF p
  <2>1. off = [k \in 0..Len(p) |-> Len(FlattenSeq(SubSeq(p, 1, k)))] /\ all = FlattenSeq(p)
    OBVIOUS
  <2> HIDE DEF off, all
  <2>2. QED
    BY <1>1, <2>1, FlattenChunks
<1> HIDE DEF p, off, all
<1>4. Forward(lo, hi, e, x, n, Seq(Byte))
  BY <1>2, RepliesForward
<1>5. PICK f : f = Walk(f, lo, hi, e, x, n) /\ RepliesOn(all) = f[1]
  BY <1>2, RepliesIsWalk
<1>6. lo \in Int /\ hi \in Int /\ lo = 1 /\ hi = Len(all) + 1 /\ Len(all) \in Nat
  BY <1>2, LenProperties
<1>7. \A i \in 1..(Len(all) + 1) :
         /\ i \in e <=> i + 3 > Len(all) \/ i + 3 + SizeAt(all, i) > Len(all)
         /\ x[i] = SubSeq(all, i + 4, i + 3 + SizeAt(all, i))
         /\ n[i] = i + 3 + SizeAt(all, i) + 1
  BY DEF ReplyEnds, ReplyItems, ReplyNexts, EndAt
<1> HIDE DEF m, lo, hi, e, x, n
<1>8. /\ off \in [0..m -> Nat] /\ off[0] = 0 /\ off[m] = Len(all)
      /\ \A k \in 1..m : /\ off[k] = off[k - 1] + Len(p[k]) /\ off[k] <= Len(all)
                         /\ \A j \in 1..Len(p[k]) : all[off[k - 1] + j] = p[k][j]
  BY <1>1, <1>3 DEF Chunks
<1>9. ASSUME NEW k \in 1..m
      PROVE  q[k - 1] \notin e /\ x[q[k - 1]] = as[k] /\ n[q[k - 1]] = q[k]
  <2> DEFINE a == off[k - 1]
             i == 1 + a
             l == Len(as[k])
             z == Len(all)
  <2>1. k \in 0..m /\ k - 1 \in 0..m
    BY <1>1
  <2>2. as[k] \in Seq(Byte) /\ l < Limit /\ l \in Nat
    <3>1. as[k] \in Seq(Byte)
      BY ElementOfSeq DEF m
    <3>2. l < Limit
      BY DEF m
    <3>3. QED
      BY <3>1, <3>2, LenProperties
  <2>3. /\ Len(p[k]) = 4 + l
        /\ \A j \in 1..4 : p[k][j] = IntToByteArray(l)[j]
        /\ \A j \in 1..l : p[k][4 + j] = as[k][j]
    <3>1. as[k] \in Seq(Byte) /\ Len(as[k]) < Limit /\ p[k] = AddSizeByte(as[k])
      BY <1>1, <2>2
    <3> HIDE DEF l
    <3>2. /\ Len(AddSizeByte(as[k])) = 4 + Len(as[k])
          /\ \A j \in 1..4 : AddSizeByte(as[k])[j] = IntToByteArray(Len(as[k]))[j]
          /\ \A j \in 1..Len(as[k]) : AddSizeByte(as[k])[4 + j] = as[k][j]
      BY <3>1, Sized
    <3>3. QED
      BY <3>1, <3>2 DEF l
  <2>4. a \in Nat /\ off[k] = a + Len(p[k]) /\ off[k] <= z /\ z \in Nat
        /\ \A j \in 1..Len(p[k]) : all[a + j] = p[k][j]
    <3>1. off[k - 1] \in Nat
      BY <1>8, <2>1
    <3>2. z \in Nat
      BY <1>6
    <3>3. QED
      BY <1>8, <3>1, <3>2
  <2>5. q[k - 1] = 1 + off[k - 1] /\ q[k] = 1 + off[k]
    BY <2>1
  <2> HIDE DEF q, a, l, z
  <2>6. a \in Nat /\ off[k] = a + (4 + l) /\ a + (4 + l) <= z /\ z \in Nat /\ l \in Nat
    <3>1. off[k] = a + Len(p[k]) /\ Len(p[k]) = 4 + l
      BY <2>3, <2>4
    <3>2. off[k] = a + (4 + l)
      BY <3>1
    <3>3. QED
      BY <2>2, <2>4, <3>2
  <2>7. SizeAt(all, i) = l
    <3>1. ASSUME NEW j \in 1..4 PROVE all[a + j] = IntToByteArray(l)[j]
      <4>1. j \in 1..Len(p[k])
        <5>1. j \in 1..(4 + l)
          BY <2>6
        <5>2. QED
          BY <2>3, <5>1
      <4>2. QED
        BY <2>3, <2>4, <4>1
    <3>2. SizeAt(all, a + 1) = l
      BY <2>2, <2>6, <3>1, SizeIsRead
    <3>3. a + 1 = i
      BY <2>6
    <3>4. QED
      BY <3>2, <3>3
  <2>8. i \in 1..(z + 1) /\ ~(i + 3 > z) /\ ~(i + 3 + l > z) /\ i + 3 + l + 1 = 1 + (a + (4 + l))
    BY <2>6
  <2>9. SubSeq(all, i + 4, i + 3 + l) = as[k]
    <3> DEFINE t == SubSeq(all, i + 4, i + 3 + l)
    <3>1. i + 4 \in Int /\ i + 3 + l \in Int /\ (i + 3 + l) - (i + 4) + 1 = l
          /\ (i + 4 <= i + 3 + l \/ l = 0)
      BY <2>6
    <3>2. \A j \in (i + 4)..(i + 3 + l) : j \in 1..z
      BY <2>6, <2>8
    <3>3. \A j \in (i + 4)..(i + 3 + l) : all[j] \in Byte
      BY <1>2, <3>2, ElementOfSeq DEF z
    <3>4. /\ t \in Seq(Byte)
          /\ Len(t) = IF i + 4 <= i + 3 + l THEN (i + 3 + l) - (i + 4) + 1 ELSE 0
          /\ \A j \in 1..((i + 3 + l) - (i + 4) + 1) : t[j] = all[(i + 4) + j - 1]
      BY <3>1, <3>3, SubSeqProperties
    <3> HIDE DEF t
    <3>5. Len(t) = l
      BY <2>6, <3>1, <3>4
    <3>6. ASSUME NEW j \in 1..l PROVE t[j] = as[k][j]
      <4>1. (i + 4) + j - 1 = a + (4 + j) /\ 4 + j \in 1..(4 + l)
        BY <2>6
      <4>2. t[j] = all[a + (4 + j)]
        BY <3>1, <3>4, <4>1
      <4>3. all[a + (4 + j)] = p[k][4 + j]
        BY <2>3, <2>4, <4>1
      <4>4. QED
        BY <2>3, <4>2, <4>3
    <3>7. t = as[k]
      <4>1. Len(t) = Len(as[k]) /\ \A j \in 1..Len(t) : t[j] = as[k][j]
        BY <3>5, <3>6 DEF l
      <4>2. QED
        BY <2>2, <3>4, <4>1, SeqEqual
    <3>8. QED
      BY <3>7 DEF t
  <2>10. q[k - 1] = i /\ q[k] = 1 + (a + (4 + l))
    BY <2>5, <2>6 DEF a
  <2> HIDE DEF i
  <2>11. /\ i \in e <=> i + 3 > z \/ i + 3 + l > z
         /\ x[i] = SubSeq(all, i + 4, i + 3 + l)
         /\ n[i] = i + 3 + l + 1
    BY <1>7, <2>7, <2>8 DEF z
  <2>12. QED
    BY <2>8, <2>9, <2>10, <2>11
<1>10. q \in [0..m -> lo..hi]
  <2>1. ASSUME NEW k \in 0..m PROVE 1 + off[k] \in lo..hi
    <3>1. off[k] \in Nat
      BY <1>8
    <3>2. off[k] <= Len(all)
      <4>1. CASE k = 0
        BY <1>6, <1>8, <4>1
      <4>2. CASE k # 0
        <5>1. k \in 1..m
          BY <1>1, <4>2
        <5>2. QED
          BY <1>8, <5>1
      <4>3. QED
        BY <4>1, <4>2
    <3>3. QED
      BY <1>6, <3>1, <3>2
  <2>2. QED
    BY <2>1
<1>11. q[0] = 1 /\ q[m] = 1 + Len(all)
  BY <1>1, <1>8
<1> HIDE DEF q
<1>12. f[q[0]] = as \o f[q[m]]
  <2>1. Along(q, as, lo, hi, e, x, n)
    BY <1>9, <1>10 DEF Along, m
  <2>2. IsWalk(f, lo, hi, e, x, n) /\ lo \in Int /\ hi \in Int
    BY <1>5, <1>6 DEF IsWalk
  <2> DEFINE T == Seq(Byte)
  <2>a. Forward(lo, hi, e, x, n, T) /\ as \in Seq(T)
    BY <1>4
  <2> HIDE DEF T
  <2>b. Forward(lo, hi, e, x, n, T) /\ lo \in Int /\ hi \in Int
    BY <2>a, <2>2
  <2>c. IsWalk(f, lo, hi, e, x, n)
    BY <2>2
  <2>d. ASSUME NEW s \in Seq(T), NEW g, Along(g, s, lo, hi, e, x, n)
        PROVE  f[g[0]] = s \o f[g[Len(s)]]
    BY <2>b, <2>c, <2>d, WalkAlong
  <2>3. f[q[0]] = as \o f[q[Len(as)]]
    BY <2>a, <2>1, <2>d
  <2>4. QED
    BY <2>3 DEF m
<1>13. f[q[m]] = <<>>
  <2>1. q[m] = Len(all) + 1 /\ q[m] \in lo..hi
    BY <1>6, <1>11
  <2>2. q[m] \in e
    <3> DEFINE i == Len(all) + 1
    <3>1. i \in 1..(Len(all) + 1) /\ i + 3 > Len(all)
      BY <1>6
    <3> HIDE DEF i
    <3>2. i \in e
      BY <1>7, <3>1
    <3>3. QED
      BY <2>1, <3>2 DEF i
  <2>3. f[q[m]] = IF q[m] \in e THEN <<>> ELSE <<x[q[m]]>> \o f[n[q[m]]]
    BY <1>5, <2>1 DEF Walk
  <2>4. QED
    BY <2>2, <2>3
<1>14. as \o <<>> = as
  BY ConcatEmptySeq
<1>15. RepliesOn(all) = as
  BY <1>5, <1>11, <1>12, <1>13, <1>14
<1>16. QED
  BY <1>15 DEF all, p
=============================================================================
