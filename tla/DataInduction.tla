--------------------------- MODULE DataInduction ---------------------------
(***************************************************************************)
(* Induction over the natural numbers, stated for sets, and what the       *)
(* recursive operators of SequencesExt that the modules use compute.       *)
(***************************************************************************)
EXTENDS Integers, SequencesExt, SequenceTheorems, WellFoundedInduction, TLAPS

\* Induction: a set of numbers that has 0 and is closed under successor.
LEMMA NatSet ==
  ASSUME NEW S \in SUBSET Nat, 0 \in S, \A n \in S : n + 1 \in S
  PROVE  S = Nat
<1> DEFINE R == OpToRel(<, Nat)
           T == Nat \ S
<1>1. IsWellFoundedOn(R, Nat)
  BY NatLessThanWellFounded, Zenon
<1>2. \A x, y \in Nat : <<y, x>> \in R <=> y < x
  BY DEF OpToRel
<1> SUFFICES ASSUME T # {} PROVE FALSE
  OBVIOUS
<1>3. T \subseteq Nat
  OBVIOUS
<1> HIDE DEF R, T
<1>4. PICK x \in T : \A y \in T : ~ (<<y, x>> \in R)
  <2>1. \E x \in T : \A y \in T : ~ (<<y, x>> \in R)
    BY <1>1, <1>3, WFMin
  <2> QED
    BY <2>1
<1>5. x \in Nat /\ x \notin S
  BY DEF T
<1>6. x # 0 /\ x - 1 \in Nat /\ x - 1 < x
  BY <1>5
<1>7. x - 1 \in T
  BY <1>5, <1>6 DEF T
<1> QED
  BY <1>2, <1>4, <1>5, <1>6, <1>7

\* A set of numbers has a least one.
LEMMA LeastOf ==
  ASSUME NEW n \in Nat, NEW S \in SUBSET (1 .. n), S # {}
  PROVE  \E j \in S : \A k \in S : j <= k
<1> DEFINE T == {m \in Nat : \A k \in S : m <= k}
<1>1. 0 \in T
  OBVIOUS
<1>2. PICK m \in T : m + 1 \notin T
  <2> SUFFICES ASSUME \A m \in T : m + 1 \in T PROVE FALSE
    OBVIOUS
  <2>1. T \in SUBSET Nat
    OBVIOUS
  <2>2. T = Nat
    <3> HIDE DEF T
    <3> QED
      BY <1>1, <2>1, NatSet
  <2>3. n + 1 \in T
    BY <2>2
  <2>4. PICK k \in S : n + 1 <= k
    BY <2>3
  <2> QED
    BY <2>4
<1> QED
  BY <1>2

\* f does n steps of a function in turn, from a.
Iterates(f, a, step, n) ==
  DOMAIN f = 0 .. n /\ f[0] = a /\ \A i \in 1 .. n : f[i] = step[<<i, f[i - 1]>>]

\* It can be done.
LEMMA Iteration ==
  ASSUME NEW D, NEW a \in D, NEW step \in [Nat \X D -> D], NEW n \in Nat
  PROVE  \E f \in [0 .. n -> D] : Iterates(f, a, step, n)
<1> DEFINE S == {m \in Nat : \E f \in [0 .. m -> D] : Iterates(f, a, step, m)}
<1>1. 0 \in S
  <2>1. [i \in 0 .. 0 |-> a] \in [0 .. 0 -> D] /\ Iterates([i \in 0 .. 0 |-> a], a, step, 0)
    BY DEF Iterates
  <2> QED
    BY <2>1
<1>2. ASSUME NEW m \in S PROVE m + 1 \in S
  <2>1. m \in Nat
    OBVIOUS
  <2>2. PICK f \in [0 .. m -> D] : Iterates(f, a, step, m)
    OBVIOUS
  <2> DEFINE x == step[<<m + 1, f[m]>>]
             g == [i \in 0 .. m + 1 |-> IF i = m + 1 THEN x ELSE f[i]]
  <2>3. x \in D
    <3>1. f[m] \in D /\ m + 1 \in Nat
      BY <2>1
    <3> QED
      BY <3>1
  <2>4. /\ DOMAIN g = 0 .. m + 1 /\ g[m + 1] = x /\ \A i \in 0 .. m : g[i] = f[i]
        /\ g \in [0 .. m + 1 -> D]
    <3>1. \A i \in 0 .. m : i # m + 1 /\ i \in 0 .. m + 1
      BY <2>1
    <3>2. \A i \in 0 .. m + 1 : i # m + 1 => i \in 0 .. m
      BY <2>1
    <3>3. m + 1 \in 0 .. m + 1
      BY <2>1
    <3> HIDE DEF x
    <3> QED
      BY <2>3, <3>1, <3>2, <3>3
  <2>5. ASSUME NEW i \in 1 .. m + 1 PROVE g[i] = step[<<i, g[i - 1]>>]
    <3>1. CASE i = m + 1
      <4>1. i - 1 = m /\ m \in 0 .. m
        BY <2>1, <3>1
      <4>2. g[i] = x /\ g[i - 1] = f[m]
        BY <2>4, <3>1, <4>1
      <4> HIDE DEF g
      <4> QED
        BY <3>1, <4>2
    <3>2. CASE i # m + 1
      <4>1. i \in 1 .. m /\ i \in 0 .. m /\ i - 1 \in 0 .. m
        BY <2>1, <3>2
      <4>2. g[i] = f[i] /\ g[i - 1] = f[i - 1]
        BY <2>4, <4>1
      <4>3. f[i] = step[<<i, f[i - 1]>>]
        BY <2>2, <4>1 DEF Iterates
      <4> HIDE DEF g
      <4> QED
        BY <4>2, <4>3
    <3> QED
      BY <3>1, <3>2
  <2>6. g[0] = a
    <3>1. 0 \in 0 .. m
      BY <2>1
    <3> QED
      BY <2>2, <2>4, <3>1 DEF Iterates
  <2> HIDE DEF g, x
  <2>7. Iterates(g, a, step, m + 1)
    BY <2>4, <2>5, <2>6 DEF Iterates
  <2> QED
    BY <2>1, <2>4, <2>7
<1>3. S = Nat
  <2> HIDE DEF S
  <2>1. S \in SUBSET Nat
    BY DEF S
  <2> QED
    BY <1>1, <1>2, <2>1, NatSet
<1> QED
  BY <1>3

-----------------------------------------------------------------------------
(* Concatenation.                                                           *)

Associative(D) == \A a, b, c \in Seq(D) : (a \o b) \o c = a \o (b \o c)

\* Concatenation of lists over any set is associative.
LEMMA Associate == ASSUME NEW D PROVE Associative(D)
  BY ConcatAssociative, SMTT(60) DEF Associative

\* A list of one element.
LEMMA Single ==
  ASSUME NEW D, NEW x \in D
  PROVE  <<x>> \in Seq(D) /\ DOMAIN <<x>> = {1} /\ <<x>>[1] = x
  OBVIOUS

\* What is where in two lists, of l and m elements, put together.
Joined(a, b, l, m) ==
  /\ DOMAIN (a \o b) = 1 .. l + m
  /\ \A i \in 1 .. l + m : (a \o b)[i] = IF i <= l THEN a[i] ELSE b[i - l]

LEMMA Join ==
  ASSUME NEW D, NEW a \in Seq(D), NEW b \in Seq(D), NEW l \in Nat, NEW m \in Nat, Len(a) = l, Len(b) = m
  PROVE  Joined(a, b, l, m)
  BY DEF Joined

\* t is the list s, of n elements, without the one at k.
LeftOut(t, s, k, n) ==
  DOMAIN t = 1 .. n - 1 /\ \A i \in 1 .. n - 1 : t[i] = IF i < k THEN s[i] ELSE s[i + 1]

\* RemoveAt takes one element away.
LEMMA Removed ==
  ASSUME NEW D, NEW s \in Seq(D), NEW n \in Nat, n = Len(s), NEW k \in 1 .. n
  PROVE  RemoveAt(s, k) \in Seq(D) /\ LeftOut(RemoveAt(s, k), s, k, n)
<1> DEFINE a == SubSeq(s, 1, k - 1)
           b == SubSeq(s, k + 1, n)
<1>1. a \in Seq(D) /\ Len(a) = k - 1 /\ \A i \in 1 .. k - 1 : a[i] = s[i]
  OBVIOUS
<1>2. b \in Seq(D) /\ Len(b) = n - k /\ \A i \in 1 .. n - k : b[i] = s[k + i]
  OBVIOUS
<1>3. RemoveAt(s, k) = a \o b
  BY DEF RemoveAt
<1> HIDE DEF a, b
<1>4. k - 1 \in Nat /\ n - k \in Nat /\ (k - 1) + (n - k) = n - 1
  OBVIOUS
<1>5. Joined(a, b, k - 1, n - k)
  BY <1>1, <1>2, <1>4, Join
<1>6. /\ DOMAIN (a \o b) = 1 .. n - 1
      /\ \A i \in 1 .. n - 1 : (a \o b)[i] = IF i <= k - 1 THEN a[i] ELSE b[i - (k - 1)]
  BY <1>4, <1>5 DEF Joined
<1>7. a \o b \in Seq(D)
  BY <1>1, <1>2
<1>8. \A i \in 1 .. n - 1 : IF i < k THEN a[i] = s[i] /\ i <= k - 1 ELSE b[i - (k - 1)] = s[i + 1] /\ ~ (i <= k - 1)
  BY <1>1, <1>2
<1>9. LeftOut(a \o b, s, k, n)
  BY <1>6, <1>8 DEF LeftOut
<1> QED
  BY <1>3, <1>7, <1>9

-----------------------------------------------------------------------------
(* FlattenSeq.                                                              *)

\* The function by which FlattenSeq is defined, up to n.
Unfolds(f, seqs, n) == f = [i \in 1 .. n |-> IF i = 1 THEN seqs[i] ELSE f[i-1] \o seqs[i]]

\* There is one ...
LEMMA Unfolding ==
  ASSUME NEW seqs, NEW n \in Nat
  PROVE  \E f : Unfolds(f, seqs, n)
<1> DEFINE S == {m \in Nat : \E f : Unfolds(f, seqs, m)}
<1>1. 0 \in S
  <2>1. Unfolds([i \in 1 .. 0 |-> 0], seqs, 0)
    BY DEF Unfolds
  <2> QED
    BY <2>1
<1>2. ASSUME NEW m \in S PROVE m + 1 \in S
  <2>1. PICK f : Unfolds(f, seqs, m)
    OBVIOUS
  <2>2. \A i \in 1 .. m : f[i] = IF i = 1 THEN seqs[i] ELSE f[i-1] \o seqs[i]
    BY <2>1 DEF Unfolds
  <2> DEFINE g == [i \in 1 .. m + 1 |-> IF i <= m THEN f[i] ELSE IF i = 1 THEN seqs[i] ELSE f[i-1] \o seqs[i]]
  <2>3. \A i \in 1 .. m + 1 : g[i] = IF i = 1 THEN seqs[i] ELSE g[i-1] \o seqs[i]
    BY <2>2
  <2>4. g = [i \in 1 .. m + 1 |-> g[i]]
    OBVIOUS
  <2> HIDE DEF g
  <2>5. Unfolds(g, seqs, m + 1)
    BY <2>3, <2>4 DEF Unfolds
  <2> QED
    BY <2>5
<1>3. S = Nat
  <2> HIDE DEF S
  <2>1. S \in SUBSET Nat
    BY DEF S
  <2> QED
    BY <1>1, <1>2, <2>1, NatSet
<1> QED
  BY <1>3

\* ... and it is what FlattenSeq takes the last value of.
LEMMA Flattened ==
  ASSUME NEW seqs, Len(seqs) \in Nat, Len(seqs) # 0
  PROVE  \E f : Unfolds(f, seqs, Len(seqs)) /\ FlattenSeq(seqs) = f[Len(seqs)]
<1>1. \E f : f = [i \in 1 .. Len(seqs) |-> IF i = 1 THEN seqs[i] ELSE f[i-1] \o seqs[i]]
  BY Unfolding DEF Unfolds
<1>2. FlattenSeq(seqs)
        = (CHOOSE f : f = [i \in 1 .. Len(seqs) |-> IF i = 1 THEN seqs[i] ELSE f[i-1] \o seqs[i]])[Len(seqs)]
  BY Zenon DEF FlattenSeq
<1> QED
  BY <1>1, <1>2, Zenon DEF Unfolds

\* The parts of two lists that agree flatten alike.
LEMMA UnfoldAlike ==
  ASSUME NEW s, NEW t, NEW f, NEW g, NEW m \in Nat, NEW n \in Nat, n <= m,
         Unfolds(f, s, m), Unfolds(g, t, n), \A i \in 1 .. n : s[i] = t[i]
  PROVE  \A i \in 1 .. n : f[i] = g[i]
<1> DEFINE S == {j \in Nat : j \in 1 .. n => f[j] = g[j]}
<1>1. 0 \in S
  OBVIOUS
<1>2. ASSUME NEW j \in S PROVE j + 1 \in S
  <2>1. \A i \in 1 .. m : f[i] = IF i = 1 THEN s[i] ELSE f[i-1] \o s[i]
    BY DEF Unfolds
  <2>2. \A i \in 1 .. n : g[i] = IF i = 1 THEN t[i] ELSE g[i-1] \o t[i]
    BY DEF Unfolds
  <2>3. CASE j + 1 \in 1 .. n
    <3>1. j + 1 \in 1 .. m /\ j + 1 \in 1 .. n /\ (j + 1) - 1 = j
      BY <2>3
    <3>2. s[j + 1] = t[j + 1] /\ (j # 0 => f[j] = g[j])
      BY <2>3
    <3>3. f[j + 1] = IF j = 0 THEN s[j + 1] ELSE f[j] \o s[j + 1]
      BY <2>1, <3>1
    <3>4. g[j + 1] = IF j = 0 THEN t[j + 1] ELSE g[j] \o t[j + 1]
      BY <2>2, <3>1
    <3> QED
      BY <3>2, <3>3, <3>4
  <2> QED
    BY <2>3
<1>3. S = Nat
  <2> HIDE DEF S
  <2>1. S \in SUBSET Nat
    BY DEF S
  <2> QED
    BY <1>1, <1>2, <2>1, NatSet
<1> QED
  BY <1>3

\* Every value of the function is a sequence.
LEMMA UnfoldType ==
  ASSUME NEW D, NEW seqs \in Seq(Seq(D)), NEW f, Unfolds(f, seqs, Len(seqs))
  PROVE  \A i \in 1 .. Len(seqs) : f[i] \in Seq(D)
<1> DEFINE S == {j \in Nat : j \in 1 .. Len(seqs) => f[j] \in Seq(D)}
<1>1. 0 \in S
  OBVIOUS
<1>2. ASSUME NEW j \in S PROVE j + 1 \in S
  <2>1. \A i \in 1 .. Len(seqs) : f[i] = IF i = 1 THEN seqs[i] ELSE f[i-1] \o seqs[i]
    BY DEF Unfolds
  <2>2. CASE j + 1 \in 1 .. Len(seqs)
    <3>1. f[j + 1] = IF j = 0 THEN seqs[j + 1] ELSE f[j] \o seqs[j + 1]
      BY <2>1, <2>2
    <3>2. seqs[j + 1] \in Seq(D) /\ (j # 0 => f[j] \in Seq(D))
      BY <2>2
    <3>3. j # 0 => f[j] \o seqs[j + 1] \in Seq(D)
      BY <3>2, ConcatProperties
    <3>4. f[j + 1] \in Seq(D)
      BY <3>1, <3>2, <3>3
    <3> QED
      BY <3>4
  <2> QED
    BY <2>2
<1>3. S = Nat
  <2> HIDE DEF S
  <2>1. S \in SUBSET Nat
    BY DEF S
  <2> QED
    BY <1>1, <1>2, <2>1, NatSet
<1> QED
  BY <1>3

\* A list of sequences flattens to a sequence, ...
LEMMA FlattenType ==
  ASSUME NEW D, NEW seqs \in Seq(Seq(D))
  PROVE  FlattenSeq(seqs) \in Seq(D)
<1>1. CASE Len(seqs) = 0
  BY <1>1 DEF FlattenSeq
<1>2. CASE Len(seqs) # 0
  <2>1. PICK f : Unfolds(f, seqs, Len(seqs)) /\ FlattenSeq(seqs) = f[Len(seqs)]
    BY <1>2, Flattened
  <2> QED
    BY <1>2, <2>1, UnfoldType
<1> QED
  BY <1>1, <1>2

\* ... the empty list to the empty one.
LEMMA FlattenEmpty == FlattenSeq(<<>>) = <<>>
  BY DEF FlattenSeq

\* A list with one more at its end.
LEMMA FlattenAppend ==
  ASSUME NEW D, NEW seqs \in Seq(Seq(D)), NEW e \in Seq(D)
  PROVE  FlattenSeq(Append(seqs, e)) = FlattenSeq(seqs) \o e
<1> DEFINE n == Len(seqs)
           t == Append(seqs, e)
<1>1. n \in Nat /\ Len(t) = n + 1 /\ t[n + 1] = e /\ \A i \in 1 .. n : t[i] = seqs[i]
  OBVIOUS
<1> HIDE DEF n, t
<1>2. PICK g : Unfolds(g, t, n + 1) /\ FlattenSeq(t) = g[n + 1]
  <2>1. Len(t) \in Nat /\ Len(t) # 0
    BY <1>1
  <2>2. \E g : Unfolds(g, t, Len(t)) /\ FlattenSeq(t) = g[Len(t)]
    BY <2>1, Flattened
  <2> QED
    BY <1>1, <2>2
<1>3. g[n + 1] = IF n = 0 THEN t[n + 1] ELSE g[n] \o t[n + 1]
  <2>1. \A i \in 1 .. n + 1 : g[i] = IF i = 1 THEN t[i] ELSE g[i-1] \o t[i]
    BY <1>2 DEF Unfolds
  <2>2. n + 1 \in 1 .. n + 1 /\ (n + 1) - 1 = n /\ (n + 1 = 1 <=> n = 0)
    BY <1>1
  <2> QED
    BY <2>1, <2>2
<1>4. CASE n = 0
  <2>1. seqs = <<>>
    BY <1>4 DEF n
  <2>2. FlattenSeq(seqs) \o e = e
    BY <2>1, FlattenEmpty
  <2> QED
    BY <1>1, <1>2, <1>3, <1>4, <2>2 DEF t
<1>5. CASE n # 0
  <2>1. PICK f : Unfolds(f, seqs, n) /\ FlattenSeq(seqs) = f[n]
    BY <1>1, <1>5, Flattened DEF n
  <2>2. g[n] = f[n]
    <3>1. n + 1 \in Nat /\ n <= n + 1 /\ n <= n /\ n \in 1 .. n
      BY <1>1, <1>5
    <3>2. PICK k \in Nat : k = n
      BY <1>1
    <3>3. PICK m \in Nat : m = n + 1 /\ k <= m
      BY <1>1, <3>2
    <3>4. Unfolds(g, t, m) /\ Unfolds(f, seqs, k) /\ \A i \in 1 .. k : t[i] = seqs[i]
      BY <1>1, <1>2, <2>1, <3>2, <3>3
    <3>5. \A i \in 1 .. k : g[i] = f[i]
      <4> HIDE <1>1
      <4> QED
        BY <3>3, <3>4, UnfoldAlike
    <3> QED
      BY <3>1, <3>2, <3>5
  <2> QED
    BY <1>1, <1>2, <1>3, <1>5, <2>1, <2>2 DEF t
<1> QED
  BY <1>4, <1>5

\* A list and its first element.
LEMMA FlattenHead ==
  ASSUME NEW D, NEW seqs \in Seq(Seq(D)), seqs # <<>>
  PROVE  FlattenSeq(seqs) = Head(seqs) \o FlattenSeq(Tail(seqs))
<1> DEFINE n == Len(seqs)
           t == Tail(seqs)
<1>0. Associative(D)
  BY Associate
<1>1. /\ n \in Nat \ {0} /\ t \in Seq(Seq(D)) /\ Len(t) = n - 1 /\ \A i \in 1 .. n - 1 : t[i] = seqs[i + 1]
      /\ seqs[1] = Head(seqs) /\ Head(seqs) \in Seq(D)
  OBVIOUS
<1>2. \A i \in 1 .. n : seqs[i] \in Seq(D)
  OBVIOUS
<1> HIDE DEF n, t
<1>3. PICK f : Unfolds(f, seqs, n) /\ FlattenSeq(seqs) = f[n]
  BY <1>1, Flattened DEF n
<1>4. \A i \in 1 .. n : f[i] = IF i = 1 THEN seqs[i] ELSE f[i-1] \o seqs[i]
  BY <1>3 DEF Unfolds
<1>5. CASE n = 1
  <2>1. t = <<>>
    BY <1>1, <1>5, EmptySeq
  <2>2. Head(seqs) \o FlattenSeq(t) = Head(seqs)
    BY <1>1, <2>1, FlattenEmpty, ConcatEmptySeq
  <2> QED
    BY <1>1, <1>3, <1>4, <1>5, <2>2 DEF t
<1>6. CASE n # 1
  <2>1. PICK m \in Nat : n = m + 1 /\ m # 0
    BY <1>1, <1>6
  <2>2. m = n - 1 /\ Len(t) = m
    BY <1>1, <2>1
  <2>3. PICK g : Unfolds(g, t, m) /\ FlattenSeq(t) = g[m]
    BY <1>1, <2>1, <2>2, Flattened
  <2>4. \A i \in 1 .. m : g[i] = IF i = 1 THEN t[i] ELSE g[i-1] \o t[i]
    BY <2>3 DEF Unfolds
  <2>5. \A i \in 1 .. m : g[i] \in Seq(D)
    BY <1>1, <2>2, <2>3, UnfoldType
  <2>6. \A i \in 1 .. m : i + 1 \in 1 .. n /\ t[i] = seqs[i + 1] /\ seqs[i + 1] \in Seq(D)
    BY <1>1, <1>2, <2>1, <2>2
  <2>7. \A i \in 1 .. m : f[i + 1] = f[i] \o seqs[i + 1]
    <3> TAKE i \in 1 .. m
    <3>1. i + 1 \in 1 .. n
      BY <2>6
    <3>2. i + 1 # 1 /\ (i + 1) - 1 = i
      OBVIOUS
    <3> QED
      BY <1>4, <3>1, <3>2
  <2>8. 1 \in 1 .. n /\ f[1] = Head(seqs)
    BY <1>1, <1>4
  <2> DEFINE S == {j \in Nat : j \in 1 .. m => f[j + 1] = Head(seqs) \o g[j]}
  <2>9. 0 \in S
    OBVIOUS
  <2>10. ASSUME NEW j \in S PROVE j + 1 \in S
    <3>0. j \in Nat /\ (j \in 1 .. m => f[j + 1] = Head(seqs) \o g[j])
      BY Zenon
    <3> SUFFICES ASSUME j + 1 \in 1 .. m PROVE f[(j + 1) + 1] = Head(seqs) \o g[j + 1]
      <4>1. j + 1 \in Nat
        BY <3>0
      <4> QED
        BY <4>1, Zenon
    <3>1. PICK k \in 1 .. m : k = j + 1
      BY Zenon
    <3>2. f[k + 1] = f[k] \o seqs[k + 1]
      BY <2>7
    <3>3. CASE j = 0
      <4>1. k = 1
        BY <3>1, <3>3
      <4>2. g[k] = t[k] /\ t[k] = seqs[k + 1] /\ f[k] = Head(seqs)
        BY <2>4, <2>6, <2>8, <4>1
      <4> QED
        BY <3>1, <3>2, <4>2
    <3>4. CASE j # 0
      <4>1. j \in 1 .. m /\ k # 1 /\ k - 1 = j
        BY <3>0, <3>1, <3>4
      <4>2. f[k] = Head(seqs) \o g[j] /\ g[j] \in Seq(D)
        BY <2>5, <3>0, <3>1, <4>1, Zenon
      <4>3. g[k] = g[j] \o t[k] /\ t[k] = seqs[k + 1] /\ seqs[k + 1] \in Seq(D)
        BY <2>4, <2>6, <4>1
      <4>4. (Head(seqs) \o g[j]) \o seqs[k + 1] = Head(seqs) \o (g[j] \o seqs[k + 1])
        BY <1>1, <1>0, <4>2, <4>3 DEF Associative
      <4> QED
        BY <3>1, <3>2, <4>2, <4>3, <4>4
    <3> QED
      BY <3>3, <3>4
  <2>11. S = Nat
    <3> HIDE DEF S
    <3>1. S \in SUBSET Nat
      BY DEF S
    <3> QED
      BY <2>9, <2>10, <3>1, NatSet
  <2>12. f[m + 1] = Head(seqs) \o g[m]
    <3>1. m \in 1 .. m
      BY <2>1
    <3> QED
      BY <2>11, <3>1
  <2> QED
    BY <1>3, <2>1, <2>3, <2>12 DEF t
<1> QED
  BY <1>5, <1>6

\* A sequence that is not empty ends in an element.
LEMMA Parted ==
  ASSUME NEW D, NEW u \in Seq(D), NEW j \in Nat, Len(u) = j + 1
  PROVE  \E v \in Seq(D), x \in D : u = Append(v, x) /\ Len(v) = j
<1> DEFINE v == [i \in 1 .. j |-> u[i]]
<1>1. u \in [1 .. j + 1 -> D] /\ j + 1 \in 1 .. j + 1
  OBVIOUS
<1>2. \A i \in 1 .. j : u[i] \in D
  BY <1>1
<1>3. v \in [1 .. j -> D]
  BY <1>2
<1>4. v \in Seq(D) /\ Len(v) = j
  BY <1>3
<1>5. u[j + 1] \in D
  BY <1>1
<1>6. u = Append(v, u[j + 1])
  <2>1. Append(v, u[j + 1]) \in Seq(D) /\ Len(Append(v, u[j + 1])) = j + 1
    BY <1>4, <1>5
  <2>2. \A i \in 1 .. j + 1 : Append(v, u[j + 1])[i] = u[i]
    BY <1>4, <1>5
  <2> HIDE DEF v
  <2> QED
    BY <2>1, <2>2, SeqEqual
<1> QED
  BY <1>4, <1>5, <1>6

\* One list after another.
LEMMA FlattenConcat ==
  ASSUME NEW D, NEW s \in Seq(Seq(D)), NEW t \in Seq(Seq(D))
  PROVE  FlattenSeq(s \o t) = FlattenSeq(s) \o FlattenSeq(t)
<1>a. Associative(D)
  BY Associate
<1> DEFINE S == {j \in Nat : \A u \in Seq(Seq(D)) : Len(u) = j => FlattenSeq(s \o u) = FlattenSeq(s) \o FlattenSeq(u)}
<1>0. FlattenSeq(s) \in Seq(D)
  BY FlattenType
<1>1. 0 \in S
  <2> SUFFICES ASSUME NEW u \in Seq(Seq(D)), Len(u) = 0
               PROVE  FlattenSeq(s \o u) = FlattenSeq(s) \o FlattenSeq(u)
    OBVIOUS
  <2>1. u = <<>>
    OBVIOUS
  <2>2. s \o u = s /\ FlattenSeq(u) = <<>> /\ FlattenSeq(s) \o <<>> = FlattenSeq(s)
    BY <1>0, <2>1, ConcatEmptySeq, FlattenEmpty
  <2> QED
    BY <2>2
<1>2. ASSUME NEW j \in S PROVE j + 1 \in S
  <2>0. j \in Nat /\ \A u \in Seq(Seq(D)) : Len(u) = j => FlattenSeq(s \o u) = FlattenSeq(s) \o FlattenSeq(u)
    OBVIOUS
  <2> SUFFICES ASSUME NEW u \in Seq(Seq(D)), Len(u) = j + 1
               PROVE  FlattenSeq(s \o u) = FlattenSeq(s) \o FlattenSeq(u)
    BY <2>0
  <2> HIDE DEF S
  <2>1. PICK v \in Seq(Seq(D)), x \in Seq(D) : u = Append(v, x) /\ Len(v) = j
    <3>1. j \in Nat /\ Len(u) = j + 1
      BY <2>0
    <3> QED
      BY <3>1, Parted
  <2>2. s \o u = Append(s \o v, x) /\ s \o v \in Seq(Seq(D))
    <3>1. s \o v \in Seq(Seq(D))
      BY ConcatProperties
    <3>2. s \o Append(v, x) = Append(s \o v, x)
      OBVIOUS
    <3> QED
      BY <2>1, <3>1, <3>2
  <2>3. PICK p \in Seq(D), q \in Seq(D) : p = FlattenSeq(s) /\ q = FlattenSeq(v)
    BY <1>0, FlattenType
  <2>4. FlattenSeq(s \o u) = FlattenSeq(s \o v) \o x
    BY <2>2, FlattenAppend
  <2>5. FlattenSeq(u) = q \o x
    BY <2>1, <2>3, FlattenAppend
  <2>6. FlattenSeq(s \o v) = p \o q
    BY <2>0, <2>1, <2>3
  <2>7. (p \o q) \o x = p \o (q \o x)
    BY <1>a DEF Associative
  <2> QED
    BY <2>3, <2>4, <2>5, <2>6, <2>7
<1>3. S = Nat
  <2> HIDE DEF S
  <2>1. S \in SUBSET Nat
    BY DEF S
  <2> QED
    BY <1>1, <1>2, <2>1, NatSet
<1>4. Len(t) \in S
  <2> HIDE DEF S
  <2> QED
    BY <1>3
<1> QED
  BY <1>4

\* A list of one-element lists.
LEMMA FlattenOnes ==
  ASSUME NEW D, NEW s \in Seq(D)
  PROVE  FlattenSeq([i \in DOMAIN s |-> <<s[i]>>]) = s
<1> DEFINE Ones(u) == [i \in DOMAIN u |-> <<u[i]>>]
           S == {j \in Nat : \A u \in Seq(D) : Len(u) = j => FlattenSeq(Ones(u)) = u}
<1>1. 0 \in S
  <2> SUFFICES ASSUME NEW u \in Seq(D), Len(u) = 0 PROVE FlattenSeq(Ones(u)) = u
    OBVIOUS
  <2>1. u = <<>> /\ Ones(u) = <<>>
    OBVIOUS
  <2> QED
    BY <2>1, FlattenEmpty
<1>2. ASSUME NEW j \in S PROVE j + 1 \in S
  <2>0. j \in Nat /\ \A u \in Seq(D) : Len(u) = j => FlattenSeq(Ones(u)) = u
    OBVIOUS
  <2> SUFFICES ASSUME NEW u \in Seq(D), Len(u) = j + 1 PROVE FlattenSeq(Ones(u)) = u
    BY <2>0
  <2> HIDE DEF S
  <2>1. PICK v \in Seq(D), x \in D : u = Append(v, x) /\ Len(v) = j
    <3>1. j \in Nat /\ Len(u) = j + 1
      BY <2>0
    <3> QED
      BY <3>1, Parted
  <2>2. Ones(v) \in Seq(Seq(D)) /\ <<x>> \in Seq(D)
    <3>1. \A i \in DOMAIN v : <<v[i]>> \in Seq(D)
      OBVIOUS
    <3>2. DOMAIN v = 1 .. j
      BY <2>1
    <3>3. Ones(v) \in [1 .. j -> Seq(D)]
      BY <3>1, <3>2
    <3> QED
      BY <2>0, <3>3
  <2>3. Ones(u) = Append(Ones(v), <<x>>)
    BY <2>1
  <2>4. FlattenSeq(Ones(u)) = FlattenSeq(Ones(v)) \o <<x>>
    <3> HIDE DEF Ones
    <3> QED
      BY <2>2, <2>3, FlattenAppend
  <2>5. FlattenSeq(Ones(v)) = v
    BY <2>0, <2>1
  <2>6. v \o <<x>> = u
    BY <2>1
  <2> QED
    BY <2>4, <2>5, <2>6
<1>3. S = Nat
  <2> HIDE DEF S
  <2>1. S \in SUBSET Nat
    BY DEF S
  <2> QED
    BY <1>1, <1>2, <2>1, NatSet
<1>4. Len(s) \in S
  <2> HIDE DEF S
  <2> QED
    BY <1>3
<1> QED
  BY <1>4

\* A list of empty lists.
LEMMA FlattenNothing ==
  ASSUME NEW n \in Nat
  PROVE  FlattenSeq([i \in 1 .. n |-> <<>>]) = <<>>
<1> DEFINE Z(m) == [i \in 1 .. m |-> <<>>]
           S == {j \in Nat : FlattenSeq(Z(j)) = <<>>}
<1>1. 0 \in S
  <2>1. Z(0) = <<>>
    OBVIOUS
  <2> QED
    BY <2>1, FlattenEmpty
<1>2. ASSUME NEW j \in S PROVE j + 1 \in S
  <2>0. j \in Nat /\ FlattenSeq(Z(j)) = <<>>
    OBVIOUS
  <2>1. Z(j) \in Seq(Seq({})) /\ <<>> \in Seq({})
    BY <2>0
  <2>2. Z(j + 1) = Append(Z(j), <<>>)
    BY <2>0
  <2>3. FlattenSeq(Z(j + 1)) = FlattenSeq(Z(j)) \o <<>>
    <3> HIDE DEF Z
    <3> QED
      BY <2>1, <2>2, FlattenAppend
  <2>4. <<>> \o <<>> = <<>>
    BY ConcatEmptySeq, <2>1
  <2> QED
    BY <2>0, <2>3, <2>4
<1>3. S = Nat
  <2> HIDE DEF S
  <2>1. S \in SUBSET Nat
    BY DEF S
  <2> QED
    BY <1>1, <1>2, <2>1, NatSet
<1>4. n \in S
  <2> HIDE DEF S
  <2> QED
    BY <1>3
<1> QED
  BY <1>4

-----------------------------------------------------------------------------
(* What is where in a flattened list.                                       *)

\* Position i of u is position col[i] of the list s[row[i]], and every position of a
\* list is one of u.
Lists(u, s, row, col) ==
  /\ \A i \in DOMAIN u : row[i] \in DOMAIN s /\ col[i] \in DOMAIN s[row[i]] /\ u[i] = s[row[i]][col[i]]
  /\ \A i, j \in DOMAIN u : row[i] = row[j] /\ col[i] = col[j] => i = j
  /\ \A k \in DOMAIN s : \A j \in DOMAIN s[k] : \E i \in DOMAIN u : row[i] = k /\ col[i] = j

\* One more list.
LEMMA ListsAppend ==
  ASSUME NEW D, NEW u \in Seq(D), NEW s \in Seq(Seq(D)), NEW e \in Seq(D), NEW row, NEW col, Lists(u, s, row, col)
  PROVE  \E r, c : Lists(u \o e, Append(s, e), r, c)
<1>1. PICK n \in Nat, m \in Nat, l \in Nat : n = Len(s) /\ m = Len(u) /\ l = Len(e)
  OBVIOUS
<1> DEFINE v == u \o e
           t == Append(s, e)
           r == [i \in 1 .. m + l |-> IF i <= m THEN row[i] ELSE n + 1]
           c == [i \in 1 .. m + l |-> IF i <= m THEN col[i] ELSE i - m]
<1>2. DOMAIN s = 1 .. n /\ DOMAIN u = 1 .. m /\ DOMAIN e = 1 .. l
  BY <1>1
<1>3. /\ DOMAIN v = 1 .. m + l
      /\ \A i \in 1 .. m + l : v[i] = IF i <= m THEN u[i] ELSE e[i - m]
  BY <1>1
<1>4. /\ DOMAIN t = 1 .. n + 1 /\ t[n + 1] = e
      /\ \A k \in 1 .. n : t[k] = s[k]
  BY <1>1
<1>5. \A i \in 1 .. m : row[i] \in 1 .. n /\ col[i] \in DOMAIN s[row[i]] /\ u[i] = s[row[i]][col[i]]
  BY <1>2 DEF Lists
<1> HIDE DEF v, t
<1>6. ASSUME NEW i \in DOMAIN v PROVE r[i] \in DOMAIN t /\ c[i] \in DOMAIN t[r[i]] /\ v[i] = t[r[i]][c[i]]
  <2>1. i \in 1 .. m + l
    BY <1>3
  <2>2. CASE i <= m
    <3>1. i \in 1 .. m /\ r[i] = row[i] /\ c[i] = col[i] /\ v[i] = u[i]
      BY <1>3, <2>1, <2>2
    <3>2. row[i] \in 1 .. n /\ t[row[i]] = s[row[i]] /\ row[i] \in 1 .. n + 1
      BY <1>4, <1>5, <3>1
    <3> QED
      BY <1>4, <1>5, <3>1, <3>2
  <2>3. CASE i > m
    <3>1. i - m \in 1 .. l /\ r[i] = n + 1 /\ c[i] = i - m /\ v[i] = e[i - m]
      BY <1>3, <2>1, <2>3
    <3>2. n + 1 \in 1 .. n + 1
      OBVIOUS
    <3> QED
      BY <1>2, <1>4, <3>1, <3>2
  <2> QED
    BY <2>1, <2>2, <2>3
<1>7. ASSUME NEW i \in DOMAIN v, NEW j \in DOMAIN v, r[i] = r[j], c[i] = c[j] PROVE i = j
  <2>1. i \in 1 .. m + l /\ j \in 1 .. m + l
    BY <1>3
  <2>2. CASE i <= m /\ j <= m
    <3>1. i \in 1 .. m /\ j \in 1 .. m /\ row[i] = row[j] /\ col[i] = col[j]
      BY <1>7, <2>1, <2>2
    <3> QED
      BY <1>2, <3>1 DEF Lists
  <2>3. CASE i > m /\ j > m
    <3>1. i - m = j - m
      BY <1>7, <2>1, <2>3
    <3> QED
      BY <2>1, <3>1
  <2>4. CASE i <= m /\ j > m
    <3>1. i \in 1 .. m /\ r[i] = row[i] /\ r[j] = n + 1
      BY <2>1, <2>4
    <3>2. row[i] # n + 1
      BY <1>5, <3>1
    <3> QED
      BY <1>7, <3>1, <3>2
  <2>5. CASE i > m /\ j <= m
    <3>1. j \in 1 .. m /\ r[j] = row[j] /\ r[i] = n + 1
      BY <2>1, <2>5
    <3>2. row[j] # n + 1
      BY <1>5, <3>1
    <3> QED
      BY <1>7, <3>1, <3>2
  <2> QED
    BY <2>1, <2>2, <2>3, <2>4, <2>5
<1>8. ASSUME NEW k \in DOMAIN t, NEW j \in DOMAIN t[k] PROVE \E i \in DOMAIN v : r[i] = k /\ c[i] = j
  <2>1. k \in 1 .. n + 1
    BY <1>4
  <2>2. CASE k <= n
    <3>1. k \in DOMAIN s /\ j \in DOMAIN s[k]
      BY <1>2, <1>4, <2>1, <2>2
    <3>2. PICK i \in DOMAIN u : row[i] = k /\ col[i] = j
      BY <3>1, Zenon DEF Lists
    <3>3. i \in DOMAIN v /\ r[i] = row[i] /\ c[i] = col[i]
      BY <1>2, <1>3
    <3> QED
      BY <3>2, <3>3
  <2>3. CASE k = n + 1
    <3>1. j \in 1 .. l
      BY <1>2, <1>4, <2>3
    <3>2. m + j \in DOMAIN v /\ ~ (m + j <= m) /\ m + j \in 1 .. m + l /\ (m + j) - m = j
      BY <1>3, <3>1
    <3>3. r[m + j] = n + 1 /\ c[m + j] = j
      BY <3>2
    <3> QED
      BY <2>3, <3>2, <3>3
  <2>4. k <= n \/ k = n + 1
    BY <2>1
  <2> QED
    BY <2>2, <2>3, <2>4, Zenon
<1>9. Lists(v, t, r, c)
  <2> HIDE DEF r, c
  <2> QED
    BY <1>6, <1>7, <1>8 DEF Lists
<1> HIDE DEF r, c
<1> QED
  BY <1>9 DEF v, t

\* Flattening keeps every element and adds none.
LEMMA FlattenLists ==
  ASSUME NEW D, NEW s \in Seq(Seq(D))
  PROVE  \E row, col : Lists(FlattenSeq(s), s, row, col)
<1> DEFINE S == {n \in Nat : \A u \in Seq(Seq(D)) : Len(u) = n => \E row, col : Lists(FlattenSeq(u), u, row, col)}
<1>1. 0 \in S
  <2> SUFFICES ASSUME NEW u \in Seq(Seq(D)), Len(u) = 0
               PROVE  \E row, col : Lists(FlattenSeq(u), u, row, col)
    OBVIOUS
  <2>1. u = <<>> /\ FlattenSeq(u) = <<>>
    <3>1. u = <<>>
      OBVIOUS
    <3> QED
      BY <3>1, FlattenEmpty
  <2>2. Lists(<<>>, <<>>, <<>>, <<>>)
    BY DEF Lists
  <2> QED
    BY <2>1, <2>2
<1>2. ASSUME NEW n \in S PROVE n + 1 \in S
  <2>0. n \in Nat /\ \A u \in Seq(Seq(D)) : Len(u) = n => \E row, col : Lists(FlattenSeq(u), u, row, col)
    OBVIOUS
  <2> SUFFICES ASSUME NEW u \in Seq(Seq(D)), Len(u) = n + 1
               PROVE  \E row, col : Lists(FlattenSeq(u), u, row, col)
    BY <2>0
  <2> HIDE DEF S
  <2>1. PICK v \in Seq(Seq(D)), x \in Seq(D) : u = Append(v, x) /\ Len(v) = n
    <3>1. n \in Nat /\ Len(u) = n + 1
      BY <2>0
    <3> QED
      BY <3>1, Parted
  <2>2. PICK row, col : Lists(FlattenSeq(v), v, row, col)
    BY <2>0, <2>1
  <2>3. FlattenSeq(v) \in Seq(D)
    BY FlattenType
  <2>4. \E r, c : Lists(FlattenSeq(v) \o x, Append(v, x), r, c)
    BY <2>2, <2>3, ListsAppend
  <2>5. FlattenSeq(u) = FlattenSeq(v) \o x
    BY <2>1, FlattenAppend
  <2> QED
    BY <2>1, <2>4, <2>5
<1>3. S = Nat
  <2> HIDE DEF S
  <2>1. S \in SUBSET Nat
    BY DEF S
  <2> QED
    BY <1>1, <1>2, <2>1, NatSet
<1>4. Len(s) \in S
  <2> HIDE DEF S
  <2> QED
    BY <1>3
<1> QED
  BY <1>4

\* What is in a flattened list is in one of its lists.
LEMMA FlattenHas ==
  ASSUME NEW D, NEW s \in Seq(Seq(D)), NEW x
  PROVE  x \in ToSet(FlattenSeq(s)) <=> \E k \in DOMAIN s : x \in ToSet(s[k])
<1>1. PICK row, col : Lists(FlattenSeq(s), s, row, col)
  BY FlattenLists
<1>2. ASSUME NEW i \in DOMAIN FlattenSeq(s), x = FlattenSeq(s)[i] PROVE \E k \in DOMAIN s : x \in ToSet(s[k])
  <2>1. row[i] \in DOMAIN s /\ col[i] \in DOMAIN s[row[i]] /\ FlattenSeq(s)[i] = s[row[i]][col[i]]
    BY <1>1 DEF Lists
  <2> QED
    BY <1>2, <2>1 DEF ToSet
<1>3. ASSUME NEW k \in DOMAIN s, NEW j \in DOMAIN s[k], x = s[k][j] PROVE x \in ToSet(FlattenSeq(s))
  <2>1. PICK i \in DOMAIN FlattenSeq(s) : row[i] = k /\ col[i] = j
    BY <1>1, Zenon DEF Lists
  <2>2. FlattenSeq(s)[i] = s[row[i]][col[i]]
    BY <1>1 DEF Lists
  <2> QED
    BY <1>3, <2>1, <2>2 DEF ToSet
<1> QED
  BY <1>2, <1>3 DEF ToSet

\* No two positions of a list of lists have the same element ...
OnceEach(s) == \A k, l \in DOMAIN s : \A i \in DOMAIN s[k], j \in DOMAIN s[l] : s[k][i] = s[l][j] => k = l /\ i = j

\* ... nor, then, of the flattened list.
LEMMA FlattenInjective ==
  ASSUME NEW D, NEW s \in Seq(Seq(D)), OnceEach(s)
  PROVE  IsInjective(FlattenSeq(s))
<1>1. PICK row, col : Lists(FlattenSeq(s), s, row, col)
  BY FlattenLists
<1>2. ASSUME NEW i \in DOMAIN FlattenSeq(s), NEW j \in DOMAIN FlattenSeq(s), FlattenSeq(s)[i] = FlattenSeq(s)[j]
      PROVE  i = j
  <2>1. /\ row[i] \in DOMAIN s /\ col[i] \in DOMAIN s[row[i]] /\ FlattenSeq(s)[i] = s[row[i]][col[i]]
        /\ row[j] \in DOMAIN s /\ col[j] \in DOMAIN s[row[j]] /\ FlattenSeq(s)[j] = s[row[j]][col[j]]
    BY <1>1 DEF Lists
  <2>2. s[row[i]][col[i]] = s[row[j]][col[j]]
    BY <1>2, <2>1
  <2>3. PICK k \in DOMAIN s : k = row[i]
    BY <2>1
  <2>4. PICK l \in DOMAIN s : l = row[j]
    BY <2>1
  <2>5. PICK a \in DOMAIN s[k] : a = col[i]
    BY <2>1, <2>3
  <2>6. PICK b \in DOMAIN s[l] : b = col[j]
    BY <2>1, <2>4
  <2>7. s[k][a] = s[l][b]
    BY <2>2, <2>3, <2>4, <2>5, <2>6
  <2>8. k = l /\ a = b
    BY <2>7, Zenon DEF OnceEach
  <2> QED
    BY <1>1, <2>3, <2>4, <2>5, <2>6, <2>8 DEF Lists
<1> QED
  BY <1>2 DEF IsInjective
=============================================================================
