------------------------- MODULE TableVerifyProofs -------------------------
(***************************************************************************)
(* Lemmas about the operators VerifyRun is built from: what the loops of   *)
(* FilterResult and compare leave in their lists, and how the shards of a  *)
(* table share out its keys.                                               *)
(*                                                                         *)
(* The loops are recursive functions of the rounds done.  A set of natural *)
(* numbers that has 0 and the successors of its members has them all       *)
(* (SetInduction): that such functions exist, and what is true after every *)
(* round, follows from there.                                              *)
(***************************************************************************)
EXTENDS TableVerify, ShardTable, TLAPS, FiniteSetTheorems, WellFoundedInduction

----------------------------------------------------------------------------
(* Induction, and loops.                                                   *)

\* A set of natural numbers that is not empty has a least member.
LEMMA LeastNatural ==
    ASSUME NEW T \in SUBSET Nat, T # {}
    PROVE  \E x \in T : \A y \in T : x <= y
<1> DEFINE R == OpToRel(<, Nat)
<1>1. \A x, y \in Nat : x < y => <<x, y>> \in R
  BY DEF OpToRel
<1>2. IsWellFoundedOn(R, Nat)
  BY NatLessThanWellFounded
<1> HIDE DEF R
<1>3. PICK x \in T : \A y \in T : <<y, x>> \notin R
  BY <1>2, WFMin
<1>4. \A y \in T : x <= y
  <2> TAKE y \in T
  <2>1. x \in Nat /\ y \in Nat /\ ~(y < x)
    BY <1>1, <1>3
  <2> QED
    BY <2>1
<1> QED
  BY <1>4

\* Induction over the natural numbers, for sets.
LEMMA SetInduction ==
    ASSUME NEW S \in SUBSET Nat, 0 \in S, \A n \in S : n + 1 \in S
    PROVE  S = Nat
<1> SUFFICES ASSUME Nat \ S # {}
             PROVE  FALSE
  OBVIOUS
<1>1. PICK x \in Nat \ S : \A y \in Nat \ S : x <= y
  BY LeastNatural
<1>2. x - 1 \in Nat /\ ~(x <= x - 1) /\ (x - 1) + 1 = x
  BY <1>1
<1>3. x - 1 \in S
  BY <1>1, <1>2
<1> QED
  BY <1>1, <1>2, <1>3

\* f is what a loop of n rounds leaves after every round, from a by g.
Rounds(f, n, a, g) ==
    /\ f[0] = a
    /\ \A k \in 1..n : f[k] = g[<<k, f[k - 1]>>]

\* There is such a function, whatever a round does.
LEMMA RoundsExist ==
    ASSUME NEW n \in Nat, NEW S, NEW a \in S, NEW g \in [(1..n) \X S -> S]
    PROVE  \E f \in [0..n -> S] : Rounds(f, n, a, g)
<1> DEFINE P == {m \in Nat : m <= n => \E f \in [0..m -> S] : Rounds(f, m, a, g)}
<1>1. 0 \in P
  <2>1. [k \in 0..0 |-> a] \in [0..0 -> S] /\ Rounds([k \in 0..0 |-> a], 0, a, g)
    BY DEF Rounds
  <2> QED
    BY <2>1
<1>2. ASSUME NEW m \in P
      PROVE  m + 1 \in P
  <2> SUFFICES ASSUME m + 1 <= n
               PROVE  \E f \in [0..(m + 1) -> S] : Rounds(f, m + 1, a, g)
    OBVIOUS
  <2>1. PICK f \in [0..m -> S] : Rounds(f, m, a, g)
    OBVIOUS
  <2> DEFINE h == [k \in 0..(m + 1) |-> IF k = m + 1 THEN g[<<k, f[m]>>] ELSE f[k]]
  <2>2. m \in Nat /\ m + 1 \in 1..n /\ f[m] \in S
    OBVIOUS
  <2>3. g[<<m + 1, f[m]>>] \in S
    BY <2>2
  <2>4. h \in [0..(m + 1) -> S]
    BY <2>2, <2>3
  <2>5. h[0] = a
    BY <2>1, <2>2 DEF Rounds
  <2>6. ASSUME NEW k \in 1..(m + 1)
        PROVE  h[k] = g[<<k, h[k - 1]>>]
    <3>1. CASE k = m + 1
      BY <3>1, <2>2
    <3>2. CASE k # m + 1
      BY <3>2, <2>2, <2>1 DEF Rounds
    <3> QED
      BY <3>1, <3>2
  <2> QED
    BY <2>4, <2>5, <2>6 DEF Rounds
<1>3. P = Nat
  <2> HIDE DEF P
  <2>1. P \in SUBSET Nat
    BY DEF P
  <2> QED
    BY <1>1, <1>2, <2>1, SetInduction
<1> QED
  BY <1>3

----------------------------------------------------------------------------
(* FilterResult's loop.                                                    *)

\* What Kept has after i elements of the list.
LEMMA KeptRounds ==
    ASSUME NEW T, NEW l \in Seq(T), NEW S
    PROVE  \E f : /\ f[0] = << >>
                  /\ \A i \in 1..Len(l) :
                        f[i] = IF l[i] \in S THEN Append(f[i - 1], l[i]) ELSE f[i - 1]
                  /\ Kept(l, S) = f[Len(l)]
<1> DEFINE n == Len(l)
           g == [x \in (1..n) \X Seq(T) |->
                    IF l[x[1]] \in S THEN Append(x[2], l[x[1]]) ELSE x[2]]
           kept == CHOOSE f : f = [i \in 0..Len(l) |->
                        IF i = 0 THEN << >>
                        ELSE IF l[i] \in S THEN Append(f[i - 1], l[i]) ELSE f[i - 1]]
<1>1. n \in Nat /\ g \in [(1..n) \X Seq(T) -> Seq(T)]
  OBVIOUS
<1>2. PICK f \in [0..n -> Seq(T)] : Rounds(f, n, << >>, g)
  <2> HIDE DEF g, n
  <2>1. << >> \in Seq(T)
    OBVIOUS
  <2> QED
   BY <1>1, <2>1, RoundsExist
<1>3. ASSUME NEW i \in 1..n
      PROVE  f[i] = IF l[i] \in S THEN Append(f[i - 1], l[i]) ELSE f[i - 1]
  <2>1. i - 1 \in 0..n /\ f[i - 1] \in Seq(T)
    <3> HIDE DEF g, n, kept
    <3> QED
      BY <1>1
  <2>2. <<i, f[i - 1]>> \in (1..n) \X Seq(T)
    BY <2>1
  <2>3. g[<<i, f[i - 1]>>] = IF l[i] \in S THEN Append(f[i - 1], l[i]) ELSE f[i - 1]
    BY <2>2
  <2>4. f[i] = g[<<i, f[i - 1]>>]
    BY <1>2 DEF Rounds
  <2> QED
    BY <2>3, <2>4
<1>4. f = [i \in 0..n |-> IF i = 0 THEN << >>
            ELSE IF l[i] \in S THEN Append(f[i - 1], l[i]) ELSE f[i - 1]]
  <2>1. f[0] = << >>
    BY <1>2 DEF Rounds
  <2>2. \A i \in 0..n : i = 0 \/ i \in 1..n
    BY <1>1
  <2>3. \A i \in 0..n : f[i] = IF i = 0 THEN << >>
            ELSE IF l[i] \in S THEN Append(f[i - 1], l[i]) ELSE f[i - 1]
    BY <1>3, <2>1, <2>2
  <2>4. f = [i \in 0..n |-> f[i]]
    OBVIOUS
  <2> HIDE DEF n
  <2> QED
    BY <2>3, <2>4
<1>5. kept = [i \in 0..n |-> IF i = 0 THEN << >>
            ELSE IF l[i] \in S THEN Append(kept[i - 1], l[i]) ELSE kept[i - 1]]
  BY <1>4
<1>6. Kept(l, S) = kept[n]
  BY DEF Kept
<1> HIDE DEF kept
<1>7. kept[0] = << >>
  BY <1>1, <1>5
<1>8. \A i \in 1..n : kept[i] = IF l[i] \in S THEN Append(kept[i - 1], l[i]) ELSE kept[i - 1]
  <2> TAKE i \in 1..n
  <2>1. i \in 0..n /\ i # 0
    BY <1>1
  <2> QED
    BY <1>5, <2>1
<1> QED
  BY <1>6, <1>7, <1>8

\* k has some elements of l, in the order of l.
Sublist(k, l) ==
    \E h \in [DOMAIN k -> DOMAIN l] :
        /\ \A i \in DOMAIN k : k[i] = l[h[i]]
        /\ \A i, j \in DOMAIN k : i < j => h[i] < h[j]

\* Kept keeps the order of the list, the elements of S and no others.
LEMMA KeptList ==
    ASSUME NEW T, NEW l \in Seq(T), NEW S
    PROVE  /\ Kept(l, S) \in Seq(T)
           /\ Sublist(Kept(l, S), l)
           /\ Elements(Kept(l, S)) = Elements(l) \cap S
<1> DEFINE n == Len(l)
<1>1. PICK f : /\ f[0] = << >>
               /\ \A i \in 1..n : f[i] = IF l[i] \in S THEN Append(f[i - 1], l[i]) ELSE f[i - 1]
               /\ Kept(l, S) = f[n]
  BY KeptRounds
<1> DEFINE Good(m) ==
              /\ f[m] \in Seq(T)
              /\ \E h \in [1..Len(f[m]) -> 1..m] :
                    /\ \A i \in 1..Len(f[m]) : f[m][i] = l[h[i]]
                    /\ \A i, j \in 1..Len(f[m]) : i < j => h[i] < h[j]
              /\ \A i \in 1..Len(f[m]) : f[m][i] \in S
              /\ \A i \in 1..m : l[i] \in S => \E j \in 1..Len(f[m]) : f[m][j] = l[i]
           P == {m \in Nat : m <= n => Good(m)}
<1>2. n \in Nat /\ DOMAIN l = 1..n
  OBVIOUS
<1>3. 0 \in P
  <2>1. f[0] \in Seq(T) /\ Len(f[0]) = 0
    BY <1>1
  <2>2. [x \in 1..0 |-> x] \in [1..Len(f[0]) -> 1..0]
    BY <2>1
  <2>3. \A i \in 1..Len(f[0]) : FALSE
    BY <2>1
  <2>4. Good(0)
    <3> HIDE <1>1
    <3> QED
      BY <2>1, <2>2, <2>3
  <2> QED
    BY <2>4
<1>4. ASSUME NEW m \in P
      PROVE  m + 1 \in P
  <2> SUFFICES ASSUME m + 1 <= n
               PROVE  Good(m + 1)
    <3> HIDE DEF Good
    <3> QED
      OBVIOUS
  <2> DEFINE e == l[m + 1]
  <2>1. m \in Nat /\ m <= n /\ m + 1 \in 1..n /\ e \in T
    BY <1>2
  <2>2. Good(m)
    BY <2>1
  <2>3. f[m + 1] = IF e \in S THEN Append(f[m], e) ELSE f[m]
    BY <1>1, <2>1
  <2> HIDE DEF e
  <2>4. PICK h \in [1..Len(f[m]) -> 1..m] :
            /\ \A i \in 1..Len(f[m]) : f[m][i] = l[h[i]]
            /\ \A i, j \in 1..Len(f[m]) : i < j => h[i] < h[j]
    BY <2>2
  <2>5. CASE e \notin S
    <3>1. f[m + 1] = f[m] /\ h \in [1..Len(f[m]) -> 1..(m + 1)]
      BY <2>1, <2>3, <2>4, <2>5
    <3>2. \A i \in 1..(m + 1) : i \in 1..m \/ (i = m + 1 /\ l[i] \notin S)
      BY <2>1, <2>5 DEF e
    <3> QED
      BY <2>2, <2>4, <3>1, <3>2
  <2>6. CASE e \in S
    <3> DEFINE k == Len(f[m])
               b == f[m + 1]
               g == [i \in 1..(k + 1) |-> IF i = k + 1 THEN m + 1 ELSE h[i]]
    <3>1. b = Append(f[m], e) /\ f[m] \in Seq(T)
      BY <2>2, <2>3, <2>6
    <3>2. b \in Seq(T) /\ Len(b) = k + 1 /\ k \in Nat
      BY <2>1, <3>1
    <3>3. b[k + 1] = e /\ \A i \in 1..k : b[i] = f[m][i]
      BY <2>1, <3>1
    <3> HIDE DEF b
    <3>4. g \in [1..Len(b) -> 1..(m + 1)]
      BY <2>1, <2>4, <3>2
    <3>5. ASSUME NEW i \in 1..Len(b)
          PROVE  b[i] = l[g[i]] /\ b[i] \in S
      <4>1. CASE i = k + 1
        BY <3>3, <2>6, <4>1, <3>2 DEF e
      <4>2. CASE i # k + 1
        <5>1. i \in 1..k
          BY <3>2, <4>2
        <5> QED
          BY <5>1, <4>2, <3>2, <3>3, <2>2, <2>4
      <4> QED
        BY <4>1, <4>2
    <3>6. ASSUME NEW i \in 1..Len(b), NEW j \in 1..Len(b), i < j
          PROVE  g[i] < g[j]
      <4>1. i \in 1..k /\ i # k + 1
        <5> HIDE DEF k, g, n
        <5> QED
          BY <3>2, <3>6
      <4>4. h[i] \in 1..m
        BY <4>1
      <4>2. CASE j = k + 1
        <5>1. g[i] = h[i]
          BY <4>1, <3>2
        <5>2. g[j] = m + 1
          BY <4>2, <3>2
        <5> HIDE DEF g, k
        <5> QED
          BY <5>1, <5>2, <4>4, <2>1
      <4>3. CASE j # k + 1
        <5>1. j \in 1..k
          <6> HIDE DEF g, k
          <6> QED
            BY <4>3, <3>2
        <5>2. g[i] = h[i] /\ g[j] = h[j]
          BY <4>1, <4>3, <5>1, <3>2
        <5>3. h[i] < h[j]
          BY <4>1, <5>1, <2>4, <3>6
        <5> HIDE DEF g, k
        <5> QED
          BY <5>2, <5>3
      <4> QED
        BY <4>2, <4>3
    <3>7. ASSUME NEW i \in 1..(m + 1), l[i] \in S
          PROVE  \E j \in 1..Len(b) : b[j] = l[i]
      <4>1. CASE i = m + 1
        BY <4>1, <3>2, <3>3 DEF e
      <4>2. CASE i # m + 1
        <5>1. i \in 1..m
          BY <4>2, <2>1
        <5>2. PICK j \in 1..k : f[m][j] = l[i]
          BY <5>1, <3>7, <2>2
        <5> QED
          BY <5>2, <3>2, <3>3
      <4> QED
        BY <4>1, <4>2
    <3> HIDE DEF g
    <3>8. Good(m + 1)
      BY <3>2, <3>4, <3>5, <3>6, <3>7 DEF b
    <3> QED
      BY <3>8
  <2> HIDE DEF Good
  <2> QED
    BY <2>5, <2>6
<1>5. P = Nat
  <2> HIDE DEF P
  <2>1. P \in SUBSET Nat
    BY DEF P
  <2> QED
    BY <1>3, <1>4, <2>1, SetInduction
<1>6. Good(n)
  <2> HIDE DEF Good
  <2> QED
    BY <1>2, <1>5
<1> DEFINE c == Kept(l, S)
<1>7. /\ c \in Seq(T)
      /\ \E h \in [1..Len(c) -> 1..n] :
            /\ \A i \in 1..Len(c) : c[i] = l[h[i]]
            /\ \A i, j \in 1..Len(c) : i < j => h[i] < h[j]
      /\ \A i \in 1..Len(c) : c[i] \in S
      /\ \A i \in 1..n : l[i] \in S => \E j \in 1..Len(c) : c[j] = l[i]
  BY <1>1, <1>6
<1> HIDE DEF c
<1>8. DOMAIN c = 1..Len(c)
  BY <1>7
<1>9. Sublist(c, l)
  BY <1>2, <1>7, <1>8 DEF Sublist
<1>10. Elements(c) \subseteq Elements(l) \cap S
  <2> SUFFICES ASSUME NEW i \in 1..Len(c)
               PROVE  c[i] \in Elements(l) \cap S
    BY <1>8 DEF Elements
  <2>1. c[i] \in S /\ \E j \in 1..n : c[i] = l[j]
    BY <1>7
  <2> QED
    BY <2>1, <1>2 DEF Elements
<1>11. Elements(l) \cap S \subseteq Elements(c)
  <2> SUFFICES ASSUME NEW i \in 1..n, l[i] \in S
               PROVE  l[i] \in Elements(c)
    BY <1>2 DEF Elements
  <2>1. \E j \in 1..Len(c) : c[j] = l[i]
    BY <1>7
  <2> QED
    BY <2>1, <1>8 DEF Elements
<1> QED
  BY <1>7, <1>9, <1>10, <1>11 DEF c

----------------------------------------------------------------------------
(* compare.                                                                *)

\* Names are ordered by CompareNames, up to their spelling.
LEMMA NameOrder ==
    ASSUME NEW x \in Name, NEW y \in Name
    PROVE  /\ CompareNames(x, y) \in {-1, 0, 1}
           /\ CompareNames(x, x) = 0
           /\ CompareNames(x, y) = -CompareNames(y, x)
           /\ \A z \in Name :
                /\ CompareNames(x, y) = -1 /\ CompareNames(y, z) # 1 => CompareNames(x, z) = -1
                /\ CompareNames(x, y) # 1 /\ CompareNames(y, z) = -1 => CompareNames(x, z) = -1
                /\ CompareNames(x, y) = 0 /\ CompareNames(y, z) = 0 => CompareNames(x, z) = 0
<1>1. /\ x.schema \in Nat /\ x.table \in Nat
      /\ y.schema \in Nat /\ y.table \in Nat
  BY DEF Name
<1>2. /\ CompareNames(x, y) \in {-1, 0, 1}
      /\ CompareNames(x, x) = 0
      /\ CompareNames(x, y) = -CompareNames(y, x)
  BY <1>1 DEF CompareNames
<1>3. ASSUME NEW z \in Name
      PROVE  /\ CompareNames(x, y) = -1 /\ CompareNames(y, z) # 1 => CompareNames(x, z) = -1
             /\ CompareNames(x, y) # 1 /\ CompareNames(y, z) = -1 => CompareNames(x, z) = -1
             /\ CompareNames(x, y) = 0 /\ CompareNames(y, z) = 0 => CompareNames(x, z) = 0
  <2>1. z.schema \in Nat /\ z.table \in Nat
    BY DEF Name
  <2> QED
    BY <1>1, <2>1 DEF CompareNames
<1> QED
  BY <1>2, <1>3

\* sort.Slice lists every table once, in the order of the names.
LEMMA SortedList ==
    ASSUME NEW A \in SUBSET Name, IsFiniteSet(A), NEW l \in SortedLists(A)
    PROVE  /\ l \in Seq(A)
           /\ Elements(l) = A
           /\ \A i, j \in 1..Len(l) : l[i] = l[j] => i = j
           /\ \A i, j \in 1..Len(l) : i < j => CompareNames(l[i], l[j]) # 1
<1> DEFINE n == Cardinality(A)
<1>1. n \in Nat /\ IsFiniteSet(1..n) /\ Cardinality(1..n) = n
  BY FS_CardinalityType, FS_Interval
<1>2. /\ l \in [1..n -> A]
      /\ {l[i] : i \in DOMAIN l} = A
      /\ \A i, j \in DOMAIN l : i < j => CompareNames(l[i], l[j]) <= 0
  BY DEF SortedLists
<1> HIDE DEF n
<1>3. l \in Seq(A) /\ DOMAIN l = 1..n /\ Len(l) = n
  BY <1>1, <1>2
<1>4. l \in Surjection(1..n, A)
  BY <1>2, <1>3 DEF Surjection
<1>5. l \in Injection(1..n, A)
  BY <1>1, <1>4, FS_SurjSameCardinalityImpliesInj DEF n
<1>6. \A i, j \in 1..n : l[i] = l[j] => i = j
  BY <1>5 DEF Injection, IsInjective
<1>7. \A i, j \in 1..n : i < j => CompareNames(l[i], l[j]) # 1
  BY <1>2, <1>3
<1> QED
  BY <1>2, <1>3, <1>6, <1>7 DEF Elements

\* The elements of a list that something is appended to.
LEMMA AppendElements ==
    ASSUME NEW T, NEW l \in Seq(T), NEW e \in T
    PROVE  /\ Append(l, e) \in Seq(T)
           /\ Elements(Append(l, e)) = Elements(l) \cup {e}
           /\ Len(Append(l, e)) = Len(l) + 1
           /\ Append(l, e)[Len(l) + 1] = e
           /\ \A i \in 1..Len(l) : Append(l, e)[i] = l[i]
<1> DEFINE b == Append(l, e)
<1>1. b \in Seq(T) /\ Len(b) = Len(l) + 1 /\ Len(l) \in Nat
  OBVIOUS
<1>2. b[Len(l) + 1] = e /\ \A i \in 1..Len(l) : b[i] = l[i]
  OBVIOUS
<1>3. DOMAIN b = 1..(Len(l) + 1) /\ DOMAIN l = 1..Len(l)
  BY <1>1
<1> HIDE DEF b
<1>4. \A i \in 1..(Len(l) + 1) : i \in 1..Len(l) \/ i = Len(l) + 1
  BY <1>1
<1>5. Len(l) + 1 \in 1..(Len(l) + 1) /\ \A i \in 1..Len(l) : i \in 1..(Len(l) + 1)
  BY <1>1
<1>6. Elements(b) = Elements(l) \cup {e}
  BY <1>2, <1>3, <1>4, <1>5 DEF Elements
<1> QED
  BY <1>1, <1>2, <1>6 DEF b

MergeOf(a, b) ==
    [verified : Seq(NamePair), missing : Seq(Name), extraneous : Seq(Name),
     i : 1..(Len(a) + 1), j : 1..(Len(b) + 1)]
MergeStart == [verified |-> << >>, missing |-> << >>, extraneous |-> << >>, i |-> 1, j |-> 1]
MergeDone(a, b, r) == r.i = Len(a) + 1 /\ r.j = Len(b) + 1

\* The four things a round of compare may do.
LEMMA RoundCases ==
    ASSUME NEW a \in Seq(Name), NEW b \in Seq(Name), NEW r \in MergeOf(a, b)
    PROVE  LET s == CompareRound(a, b, r)
               c == CompareNames(b[r.j], a[r.i])
           IN  \/ MergeDone(a, b, r) /\ s = r
               \/ /\ r.j <= Len(b) /\ (r.i <= Len(a) => c = -1)
                  /\ s = [verified |-> r.verified, missing |-> r.missing,
                          extraneous |-> Append(r.extraneous, b[r.j]), i |-> r.i, j |-> r.j + 1]
               \/ /\ r.i <= Len(a) /\ r.j <= Len(b) /\ c = 0
                  /\ s = [verified |-> Append(r.verified, [truth |-> a[r.i], target |-> b[r.j]]),
                          missing |-> r.missing, extraneous |-> r.extraneous,
                          i |-> r.i + 1, j |-> r.j + 1]
               \/ /\ r.i <= Len(a) /\ (r.j <= Len(b) => c = 1)
                  /\ s = [verified |-> r.verified, missing |-> Append(r.missing, a[r.i]),
                          extraneous |-> r.extraneous, i |-> r.i + 1, j |-> r.j]
<1> DEFINE s == CompareRound(a, b, r)
           c == CompareNames(b[r.j], a[r.i])
<1>1. Len(a) \in Nat /\ Len(b) \in Nat /\ r.i \in 1..(Len(a) + 1) /\ r.j \in 1..(Len(b) + 1)
  BY DEF MergeOf
<1>2. r = [verified |-> r.verified, missing |-> r.missing, extraneous |-> r.extraneous,
           i |-> r.i, j |-> r.j]
  BY DEF MergeOf
<1>3. CASE r.i > Len(a) /\ r.j > Len(b)
  <2>1. MergeDone(a, b, r)
    BY <1>1, <1>3 DEF MergeDone
  <2> QED
    BY <2>1, <1>3 DEF CompareRound
<1>4. CASE r.i > Len(a) /\ ~(r.j > Len(b))
  <2>1. s = [r EXCEPT !.extraneous = Append(@, b[r.j]), !.j = @ + 1]
    BY <1>4 DEF CompareRound
  <2>2. r.j <= Len(b) /\ ~(r.i <= Len(a))
    BY <1>1, <1>4
  <2> QED
    BY <1>2, <2>1, <2>2
<1>5. CASE ~(r.i > Len(a)) /\ r.j > Len(b)
  <2>1. s = [r EXCEPT !.missing = Append(@, a[r.i]), !.i = @ + 1]
    BY <1>5 DEF CompareRound
  <2>2. r.i <= Len(a) /\ ~(r.j <= Len(b))
    BY <1>1, <1>5
  <2> QED
    BY <1>2, <2>1, <2>2
<1>6. CASE ~(r.i > Len(a)) /\ ~(r.j > Len(b))
  <2>1. r.i \in 1..Len(a) /\ r.j \in 1..Len(b) /\ r.i <= Len(a) /\ r.j <= Len(b)
    BY <1>1, <1>6
  <2>2. c \in {-1, 0, 1}
    BY <2>1, NameOrder
  <2>3. CASE c = -1
    <3>1. s = [r EXCEPT !.extraneous = Append(@, b[r.j]), !.j = @ + 1]
      BY <1>6, <2>3 DEF CompareRound
    <3> QED
      BY <1>2, <2>1, <2>3, <3>1
  <2>4. CASE c = 0
    <3>1. s = [r EXCEPT !.verified = Append(@, [truth |-> a[r.i], target |-> b[r.j]]),
                        !.i = @ + 1, !.j = @ + 1]
      BY <1>6, <2>4 DEF CompareRound
    <3> QED
      BY <1>2, <2>1, <2>4, <3>1
  <2>5. CASE c = 1
    <3>1. s = [r EXCEPT !.missing = Append(@, a[r.i]), !.i = @ + 1]
      BY <1>6, <2>5 DEF CompareRound
    <3> QED
      BY <1>2, <2>1, <2>5, <3>1
  <2> QED
    BY <2>2, <2>3, <2>4, <2>5
<1> QED
  BY <1>3, <1>4, <1>5, <1>6

\* A round leaves the lists lists of names, and moves on unless both lists are over.
LEMMA RoundType ==
    ASSUME NEW a \in Seq(Name), NEW b \in Seq(Name), NEW r \in MergeOf(a, b)
    PROVE  LET s == CompareRound(a, b, r)
           IN  /\ s \in MergeOf(a, b)
               /\ \/ MergeDone(a, b, s)
                  \/ s.i + s.j >= r.i + r.j + 1
<1> DEFINE s == CompareRound(a, b, r)
<1>1. /\ Len(a) \in Nat /\ Len(b) \in Nat /\ r.i \in 1..(Len(a) + 1) /\ r.j \in 1..(Len(b) + 1)
      /\ r.verified \in Seq(NamePair) /\ r.missing \in Seq(Name) /\ r.extraneous \in Seq(Name)
  BY DEF MergeOf
<1>2. CASE MergeDone(a, b, r) /\ s = r
  BY <1>2
<1>3. CASE /\ r.j <= Len(b)
           /\ s = [verified |-> r.verified, missing |-> r.missing,
                   extraneous |-> Append(r.extraneous, b[r.j]), i |-> r.i, j |-> r.j + 1]
  <2>1. b[r.j] \in Name /\ r.j + 1 \in 1..(Len(b) + 1)
    BY <1>1, <1>3
  <2>2. s.i = r.i /\ s.j = r.j + 1
    BY <1>3
  <2>3. s \in MergeOf(a, b)
    BY <1>1, <1>3, <2>1, AppendElements DEF MergeOf
  <2>4. s.i + s.j >= r.i + r.j + 1
    BY <1>1, <2>2
  <2> QED
    BY <2>3, <2>4
<1>4. CASE /\ r.i <= Len(a) /\ r.j <= Len(b)
           /\ s = [verified |-> Append(r.verified, [truth |-> a[r.i], target |-> b[r.j]]),
                   missing |-> r.missing, extraneous |-> r.extraneous,
                   i |-> r.i + 1, j |-> r.j + 1]
  <2>0. a[r.i] \in Name /\ r.i + 1 \in 1..(Len(a) + 1)
    BY <1>1, <1>4
  <2>1. b[r.j] \in Name /\ r.j + 1 \in 1..(Len(b) + 1)
    <3>1. r.j \in 1..Len(b) /\ r.j + 1 \in 1..(Len(b) + 1)
      BY <1>1, <1>4
    <3> QED
      BY <3>1
  <2>2. s.i = r.i + 1 /\ s.j = r.j + 1
    BY <1>4
  <2>3. [truth |-> a[r.i], target |-> b[r.j]] \in NamePair
    BY <2>0, <2>1 DEF NamePair
  <2>4. Append(r.verified, [truth |-> a[r.i], target |-> b[r.j]]) \in Seq(NamePair)
    BY <1>1, <2>3, AppendElements
  <2>5. s \in MergeOf(a, b)
    BY <1>1, <1>4, <2>0, <2>1, <2>4 DEF MergeOf
  <2>6. s.i + s.j >= r.i + r.j + 1
    BY <1>1, <2>2
  <2> QED
    BY <2>5, <2>6
<1>5. CASE /\ r.i <= Len(a)
           /\ s = [verified |-> r.verified, missing |-> Append(r.missing, a[r.i]),
                   extraneous |-> r.extraneous, i |-> r.i + 1, j |-> r.j]
  <2>1. a[r.i] \in Name /\ r.i + 1 \in 1..(Len(a) + 1)
    BY <1>1, <1>5
  <2>2. s.i = r.i + 1 /\ s.j = r.j
    BY <1>5
  <2>3. s \in MergeOf(a, b)
    BY <1>1, <1>5, <2>1, AppendElements DEF MergeOf
  <2>4. s.i + s.j >= r.i + r.j + 1
    BY <1>1, <2>2
  <2> QED
    BY <2>3, <2>4
<1> QED
  BY <1>2, <1>3, <1>4, <1>5, RoundCases

\* What the iterators and the result of compare are after k rounds.
LEMMA CompareRounds ==
    ASSUME NEW a \in Seq(Name), NEW b \in Seq(Name)
    PROVE  \E f : LET n == Len(a) + Len(b)
                  IN  /\ f[0] = MergeStart
                      /\ \A k \in 1..n : f[k] = CompareRound(a, b, f[k - 1])
                      /\ Compare(a, b) = [verified |-> f[n].verified, missing |-> f[n].missing,
                                          extraneous |-> f[n].extraneous]
<1> DEFINE n == Len(a) + Len(b)
           M == MergeOf(a, b)
           g == [x \in (1..n) \X M |-> CompareRound(a, b, x[2])]
           round == CHOOSE f : f = [k \in 0..n |->
                        IF k = 0 THEN MergeStart ELSE CompareRound(a, b, f[k - 1])]
<1>1. n \in Nat
  OBVIOUS
<1>2. MergeStart \in M
  <2>1. Len(a) \in Nat /\ Len(b) \in Nat
    OBVIOUS
  <2>2. 1 \in 1..(Len(a) + 1) /\ 1 \in 1..(Len(b) + 1)
    BY <2>1
  <2> QED
    BY <2>2 DEF MergeStart, MergeOf
<1>3. g \in [(1..n) \X M -> M]
  <2> HIDE DEF M, n
  <2> SUFFICES ASSUME NEW x \in (1..n) \X M
               PROVE  CompareRound(a, b, x[2]) \in M
    OBVIOUS
  <2>1. x[2] \in M
    OBVIOUS
  <2> QED
    BY <2>1, RoundType DEF M
<1>4. PICK f \in [0..n -> M] : Rounds(f, n, MergeStart, g)
  <2> HIDE DEF g, n, M
  <2> QED
    BY <1>1, <1>2, <1>3, RoundsExist
<1>5. ASSUME NEW k \in 1..n
      PROVE  f[k] = CompareRound(a, b, f[k - 1])
  <2>1. k - 1 \in 0..n /\ f[k - 1] \in M
    <3> HIDE DEF g, n, M, round
    <3> QED
      BY <1>1
  <2>2. <<k, f[k - 1]>> \in (1..n) \X M
    BY <2>1
  <2>3. f[k] = g[<<k, f[k - 1]>>]
    BY <1>4 DEF Rounds
  <2> HIDE DEF M, n
  <2> QED
    BY <2>2, <2>3
<1>6. f = [k \in 0..n |-> IF k = 0 THEN MergeStart ELSE CompareRound(a, b, f[k - 1])]
  <2>1. f[0] = MergeStart
    BY <1>4 DEF Rounds
  <2> HIDE DEF n, M, g, round
  <2>2. \A k \in 0..n : k = 0 \/ k \in 1..n
    BY <1>1
  <2>3. \A k \in 0..n : f[k] = IF k = 0 THEN MergeStart ELSE CompareRound(a, b, f[k - 1])
    BY <1>5, <2>1, <2>2
  <2>4. f = [k \in 0..n |-> f[k]]
    OBVIOUS
  <2> QED
    BY <2>3, <2>4
<1>7. round = [k \in 0..n |-> IF k = 0 THEN MergeStart ELSE CompareRound(a, b, round[k - 1])]
  BY <1>6
<1>8. Compare(a, b) = [verified |-> round[n].verified, missing |-> round[n].missing,
                       extraneous |-> round[n].extraneous]
  BY DEF Compare, MergeStart
<1> HIDE DEF round
<1>9. round[0] = MergeStart
  BY <1>1, <1>7
<1>10. \A k \in 1..n : round[k] = CompareRound(a, b, round[k - 1])
  <2> TAKE k \in 1..n
  <2> HIDE DEF n
  <2>1. k \in 0..n /\ k # 0
    BY <1>1
  <2> QED
    BY <1>7, <2>1
<1> QED
  BY <1>8, <1>9, <1>10

\* What is known of the result before truth[r.i] and target[r.j]: every table
\* passed is in one of the lists, pairs have the same name and no table of the
\* truth is in two of them.
MergeFacts(a, b, r) ==
    /\ r \in MergeOf(a, b)
    /\ \A v \in Elements(r.verified) :
          \E p \in 1..(r.i - 1), q \in 1..(r.j - 1) :
             v = [truth |-> a[p], target |-> b[q]] /\ CompareNames(a[p], b[q]) = 0
    /\ \A x, y \in 1..Len(r.verified) : r.verified[x].truth = r.verified[y].truth => x = y
    /\ \A n \in Elements(r.missing) : \E p \in 1..(r.i - 1) : n = a[p]
    /\ \A n \in Elements(r.extraneous) : \E q \in 1..(r.j - 1) : n = b[q]
    /\ \A p \in 1..(r.i - 1) :
          a[p] \in Elements(r.missing) \/ \E v \in Elements(r.verified) : v.truth = a[p]
    /\ \A q \in 1..(r.j - 1) :
          b[q] \in Elements(r.extraneous) \/ \E v \in Elements(r.verified) : v.target = b[q]

\* A list without two tables of one name.
Distinct(l) == \A i, j \in 1..Len(l) : l[i] = l[j] => i = j

\* One round of the merge keeps what holds of the two cursors and the three lists.
LEMMA RoundFacts ==
    ASSUME NEW a \in Seq(Name), NEW b \in Seq(Name), NEW r, MergeFacts(a, b, r), Distinct(a)
    PROVE  MergeFacts(a, b, CompareRound(a, b, r))
<1> DEFINE s == CompareRound(a, b, r)
<1>1. /\ Len(a) \in Nat /\ Len(b) \in Nat /\ r.i \in 1..(Len(a) + 1) /\ r.j \in 1..(Len(b) + 1)
      /\ r.verified \in Seq(NamePair) /\ r.missing \in Seq(Name) /\ r.extraneous \in Seq(Name)
      /\ r \in MergeOf(a, b)
  BY DEF MergeOf, MergeFacts
<1>0. s \in MergeOf(a, b)
  BY <1>1, RoundType
<1>2. CASE MergeDone(a, b, r) /\ s = r
  BY <1>2
<1>3. CASE /\ r.j <= Len(b)
           /\ s = [verified |-> r.verified, missing |-> r.missing,
                   extraneous |-> Append(r.extraneous, b[r.j]), i |-> r.i, j |-> r.j + 1]
  <2>1. b[r.j] \in Name
    BY <1>1, <1>3
  <2>2. /\ s.verified = r.verified /\ s.missing = r.missing /\ s.i = r.i /\ s.j = r.j + 1
        /\ s.extraneous = Append(r.extraneous, b[r.j])
    BY <1>3
  <2>3. Elements(s.extraneous) = Elements(r.extraneous) \cup {b[r.j]}
    BY <1>1, <2>1, <2>2, AppendElements
  <2> HIDE DEF s
  <2>4. \A q \in 1..(s.j - 1) : q \in 1..(r.j - 1) \/ q = r.j
    BY <1>1, <2>2
  <2>5. r.j \in 1..(s.j - 1) /\ \A q \in 1..(r.j - 1) : q \in 1..(s.j - 1)
    BY <1>1, <2>2
  <2>6. \A v \in Elements(s.verified) :
          \E p \in 1..(s.i - 1), q \in 1..(s.j - 1) :
             v = [truth |-> a[p], target |-> b[q]] /\ CompareNames(a[p], b[q]) = 0
    BY <2>2, <2>5 DEF MergeFacts
  <2>7. \A n \in Elements(s.extraneous) : \E q \in 1..(s.j - 1) : n = b[q]
    BY <2>3, <2>5 DEF MergeFacts
  <2>8. \A q \in 1..(s.j - 1) :
          b[q] \in Elements(s.extraneous) \/ \E v \in Elements(s.verified) : v.target = b[q]
    BY <2>2, <2>3, <2>4 DEF MergeFacts
  <2> QED
    BY <1>0, <2>2, <2>6, <2>7, <2>8 DEF MergeFacts, s
<1>4. CASE /\ r.i <= Len(a) /\ r.j <= Len(b) /\ CompareNames(b[r.j], a[r.i]) = 0
           /\ s = [verified |-> Append(r.verified, [truth |-> a[r.i], target |-> b[r.j]]),
                   missing |-> r.missing, extraneous |-> r.extraneous,
                   i |-> r.i + 1, j |-> r.j + 1]
  <2> DEFINE e == [truth |-> a[r.i], target |-> b[r.j]]
  <2>1. a[r.i] \in Name /\ r.i \in 1..Len(a)
    BY <1>1, <1>4
  <2>2. b[r.j] \in Name
    BY <1>1, <1>4
  <2>3. e \in NamePair /\ e.truth = a[r.i] /\ e.target = b[r.j]
    BY <2>1, <2>2 DEF NamePair
  <2>4. /\ s.verified = Append(r.verified, e) /\ s.missing = r.missing
        /\ s.extraneous = r.extraneous /\ s.i = r.i + 1 /\ s.j = r.j + 1
    BY <1>4
  <2>5. CompareNames(a[r.i], b[r.j]) = 0
    BY <1>4, <2>1, <2>2, NameOrder
  <2> HIDE DEF s
  <2>6. /\ Elements(s.verified) = Elements(r.verified) \cup {e}
        /\ Len(s.verified) = Len(r.verified) + 1 /\ Len(r.verified) \in Nat
        /\ s.verified[Len(r.verified) + 1] = e
        /\ \A i \in 1..Len(r.verified) : s.verified[i] = r.verified[i]
    <3> HIDE DEF e
    <3> QED
      BY <1>1, <2>3, <2>4, AppendElements
  <2>7. \A q \in 1..(s.j - 1) : q \in 1..(r.j - 1) \/ q = r.j
    BY <1>1, <2>4
  <2>8. r.j \in 1..(s.j - 1) /\ \A q \in 1..(r.j - 1) : q \in 1..(s.j - 1)
    BY <1>1, <2>4
  <2>9. \A p \in 1..(s.i - 1) : p \in 1..(r.i - 1) \/ p = r.i
    BY <1>1, <2>4
  <2>10. r.i \in 1..(s.i - 1) /\ \A p \in 1..(r.i - 1) : p \in 1..(s.i - 1)
    BY <1>1, <2>4
  <2>11. \A v \in Elements(s.verified) :
          \E p \in 1..(s.i - 1), q \in 1..(s.j - 1) :
             v = [truth |-> a[p], target |-> b[q]] /\ CompareNames(a[p], b[q]) = 0
    <3> TAKE v \in Elements(s.verified)
    <3>1. CASE v = e
      BY <3>1, <2>5, <2>8, <2>10
    <3>2. CASE v \in Elements(r.verified)
      BY <3>2, <2>8, <2>10 DEF MergeFacts
    <3> QED
      BY <3>1, <3>2, <2>6
  <2>12. ASSUME NEW x \in 1..Len(r.verified)
         PROVE  r.verified[x].truth # a[r.i]
    <3>1. r.verified[x] \in Elements(r.verified)
      BY <1>1 DEF Elements
    <3>2. PICK p \in 1..(r.i - 1) : r.verified[x].truth = a[p]
      BY <3>1 DEF MergeFacts
    <3>3. p \in 1..Len(a) /\ p # r.i
      BY <1>1
    <3> QED
      BY <3>2, <3>3, <2>1 DEF Distinct
  <2>13. \A x, y \in 1..Len(s.verified) : s.verified[x].truth = s.verified[y].truth => x = y
    <3> TAKE x, y \in 1..Len(s.verified)
    <3> DEFINE k == Len(r.verified)
    <3>1. /\ x \in 1..k \/ x = k + 1
          /\ y \in 1..k \/ y = k + 1
      BY <2>6
    <3>2. \A u \in 1..k : s.verified[u].truth = r.verified[u].truth
      BY <2>6
    <3>3. s.verified[k + 1].truth = a[r.i]
      BY <2>6, <2>3
    <3> HIDE DEF k
    <3>4. \A u, v \in 1..k : r.verified[u].truth = r.verified[v].truth => u = v
      BY DEF MergeFacts, k
    <3>5. \A u \in 1..k : r.verified[u].truth # a[r.i]
      BY <2>12 DEF k
    <3> QED
      BY <3>1, <3>2, <3>3, <3>4, <3>5
  <2>14. \A n \in Elements(s.missing) : \E p \in 1..(s.i - 1) : n = a[p]
    BY <2>4, <2>10 DEF MergeFacts
  <2>17. \A n \in Elements(s.extraneous) : \E q \in 1..(s.j - 1) : n = b[q]
    BY <2>4, <2>8 DEF MergeFacts
  <2>15. \A p \in 1..(s.i - 1) :
          a[p] \in Elements(s.missing) \/ \E v \in Elements(s.verified) : v.truth = a[p]
    BY <2>3, <2>4, <2>6, <2>9 DEF MergeFacts
  <2>16. \A q \in 1..(s.j - 1) :
          b[q] \in Elements(s.extraneous) \/ \E v \in Elements(s.verified) : v.target = b[q]
    BY <2>3, <2>4, <2>6, <2>7 DEF MergeFacts
  <2> QED
    BY <1>0, <2>11, <2>13, <2>14, <2>15, <2>16, <2>17 DEF MergeFacts, s
<1>5. CASE /\ r.i <= Len(a)
           /\ s = [verified |-> r.verified, missing |-> Append(r.missing, a[r.i]),
                   extraneous |-> r.extraneous, i |-> r.i + 1, j |-> r.j]
  <2>1. a[r.i] \in Name
    BY <1>1, <1>5
  <2>2. /\ s.verified = r.verified /\ s.extraneous = r.extraneous /\ s.j = r.j /\ s.i = r.i + 1
        /\ s.missing = Append(r.missing, a[r.i])
    BY <1>5
  <2>3. Elements(s.missing) = Elements(r.missing) \cup {a[r.i]}
    BY <1>1, <2>1, <2>2, AppendElements
  <2> HIDE DEF s
  <2>4. \A p \in 1..(s.i - 1) : p \in 1..(r.i - 1) \/ p = r.i
    BY <1>1, <2>2
  <2>5. r.i \in 1..(s.i - 1) /\ \A p \in 1..(r.i - 1) : p \in 1..(s.i - 1)
    BY <1>1, <2>2
  <2>6. \A v \in Elements(s.verified) :
          \E p \in 1..(s.i - 1), q \in 1..(s.j - 1) :
             v = [truth |-> a[p], target |-> b[q]] /\ CompareNames(a[p], b[q]) = 0
    BY <2>2, <2>5 DEF MergeFacts
  <2>7. \A n \in Elements(s.missing) : \E p \in 1..(s.i - 1) : n = a[p]
    BY <2>3, <2>5 DEF MergeFacts
  <2>8. \A p \in 1..(s.i - 1) :
          a[p] \in Elements(s.missing) \/ \E v \in Elements(s.verified) : v.truth = a[p]
    BY <2>2, <2>3, <2>4 DEF MergeFacts
  <2> QED
    BY <1>0, <2>2, <2>6, <2>7, <2>8 DEF MergeFacts, s
<1> QED
  BY <1>1, <1>2, <1>3, <1>4, <1>5, RoundCases

\* A list in the order of the names, and one in which no two have the same name.
InOrder(l) == \A i, j \in 1..Len(l) : i < j => CompareNames(l[i], l[j]) # 1
Strict(l) == \A i, j \in 1..Len(l) : i < j => CompareNames(l[i], l[j]) = -1

\* What is known besides if no two tables of a side have the same name: tables
\* passed are before the tables to come, and unmatched ones have no partner.
MergeOrder(a, b, r) ==
    /\ \A q \in 1..(r.j - 1), p \in r.i..Len(a) : CompareNames(b[q], a[p]) = -1
    /\ \A p \in 1..(r.i - 1), q \in r.j..Len(b) : CompareNames(a[p], b[q]) = -1
    /\ \A n \in Elements(r.missing) : \A q \in 1..Len(b) : CompareNames(n, b[q]) # 0
    /\ \A n \in Elements(r.extraneous) : \A p \in 1..Len(a) : CompareNames(a[p], n) # 0

\* One round over sorted lists keeps what the cursors passed apart from what is ahead.
LEMMA RoundOrder ==
    ASSUME NEW a \in Seq(Name), NEW b \in Seq(Name), NEW r \in MergeOf(a, b),
           MergeOrder(a, b, r), Strict(a), Strict(b)
    PROVE  MergeOrder(a, b, CompareRound(a, b, r))
<1> DEFINE s == CompareRound(a, b, r)
<1>1. /\ Len(a) \in Nat /\ Len(b) \in Nat /\ r.i \in 1..(Len(a) + 1) /\ r.j \in 1..(Len(b) + 1)
      /\ r.verified \in Seq(NamePair) /\ r.missing \in Seq(Name) /\ r.extraneous \in Seq(Name)
  BY DEF MergeOf
<1>2. \A p \in 1..Len(a) : a[p] \in Name
  OBVIOUS
<1>3. \A q \in 1..Len(b) : b[q] \in Name
  OBVIOUS
<1>4. CASE MergeDone(a, b, r) /\ s = r
  BY <1>4
<1>5. CASE /\ r.j <= Len(b) /\ (r.i <= Len(a) => CompareNames(b[r.j], a[r.i]) = -1)
           /\ s = [verified |-> r.verified, missing |-> r.missing,
                   extraneous |-> Append(r.extraneous, b[r.j]), i |-> r.i, j |-> r.j + 1]
  <2>1. r.j \in 1..Len(b) /\ b[r.j] \in Name
    BY <1>1, <1>3, <1>5
  <2>2. /\ s.missing = r.missing /\ s.i = r.i /\ s.j = r.j + 1
        /\ s.extraneous = Append(r.extraneous, b[r.j])
    BY <1>5
  <2>3. Elements(s.extraneous) = Elements(r.extraneous) \cup {b[r.j]}
    BY <1>1, <2>1, <2>2, AppendElements
  <2> HIDE DEF s
  <2>4. ASSUME NEW p \in r.i..Len(a)
        PROVE  CompareNames(b[r.j], a[p]) = -1
    <3>1. r.i \in 1..Len(a) /\ p \in 1..Len(a) /\ r.i <= Len(a)
      BY <1>1
    <3>2. CompareNames(b[r.j], a[r.i]) = -1
      BY <1>5, <3>1
    <3>3. p = r.i \/ CompareNames(a[r.i], a[p]) = -1
      <4>1. p = r.i \/ r.i < p
        BY <1>1
      <4> QED
        BY <4>1, <3>1 DEF Strict
    <3>4. a[r.i] \in Name /\ a[p] \in Name
      BY <1>2, <3>1
    <3> QED
      BY <2>1, <3>2, <3>3, <3>4, NameOrder
  <2>5. ASSUME NEW q \in 1..(s.j - 1), NEW p \in s.i..Len(a)
        PROVE  CompareNames(b[q], a[p]) = -1
    <3>1. q \in 1..(r.j - 1) \/ q = r.j
      BY <1>1, <2>2
    <3> QED
      BY <2>2, <2>4, <3>1 DEF MergeOrder
  <2>6. ASSUME NEW p \in 1..(s.i - 1), NEW q \in s.j..Len(b)
        PROVE  CompareNames(a[p], b[q]) = -1
    <3>1. q \in r.j..Len(b)
      BY <1>1, <2>2
    <3> QED
      BY <2>2, <3>1 DEF MergeOrder
  <2>7. ASSUME NEW p \in 1..Len(a)
        PROVE  CompareNames(a[p], b[r.j]) # 0
    <3>1. CASE p \in r.i..Len(a)
      <4>1. CompareNames(b[r.j], a[p]) = -1
        BY <3>1, <2>4
      <4> QED
        BY <4>1, <1>2, <2>1, NameOrder
    <3>2. CASE p \notin r.i..Len(a)
      <4>1. p \in 1..(r.i - 1) /\ r.j \in r.j..Len(b)
        BY <1>1, <2>1, <3>2
      <4>2. CompareNames(a[p], b[r.j]) = -1
        BY <4>1 DEF MergeOrder
      <4> QED
        BY <4>2
    <3> QED
      BY <3>1, <3>2
  <2>8. \A n \in Elements(s.extraneous) : \A p \in 1..Len(a) : CompareNames(a[p], n) # 0
    BY <2>3, <2>7 DEF MergeOrder
  <2> QED
    BY <2>2, <2>5, <2>6, <2>8 DEF MergeOrder, s
<1>6. CASE /\ r.i <= Len(a) /\ r.j <= Len(b) /\ CompareNames(b[r.j], a[r.i]) = 0
           /\ s = [verified |-> Append(r.verified, [truth |-> a[r.i], target |-> b[r.j]]),
                   missing |-> r.missing, extraneous |-> r.extraneous,
                   i |-> r.i + 1, j |-> r.j + 1]
  <2>1. r.j \in 1..Len(b) /\ b[r.j] \in Name
    BY <1>1, <1>3, <1>6
  <2>2. r.i \in 1..Len(a) /\ a[r.i] \in Name
    BY <1>1, <1>2, <1>6
  <2>3. /\ s.missing = r.missing /\ s.extraneous = r.extraneous /\ s.i = r.i + 1 /\ s.j = r.j + 1
    BY <1>6
  <2> HIDE DEF s
  <2>4. ASSUME NEW q \in 1..(s.j - 1), NEW p \in s.i..Len(a)
        PROVE  CompareNames(b[q], a[p]) = -1
    <3>1. q \in 1..(r.j - 1) \/ q = r.j
      BY <1>1, <2>3
    <3>2. p \in r.i..Len(a) /\ p \in 1..Len(a) /\ r.i < p
      BY <1>1, <2>3
    <3>3. CASE q = r.j
      <4>1. CompareNames(a[r.i], a[p]) = -1 /\ a[p] \in Name
        BY <1>2, <2>2, <3>2 DEF Strict
      <4>2. CompareNames(b[r.j], a[r.i]) = 0
        BY <1>6
      <4> QED
        BY <2>1, <2>2, <3>3, <4>1, <4>2, NameOrder
    <3> QED
      BY <3>1, <3>2, <3>3 DEF MergeOrder
  <2>5. ASSUME NEW p \in 1..(s.i - 1), NEW q \in s.j..Len(b)
        PROVE  CompareNames(a[p], b[q]) = -1
    <3>1. p \in 1..(r.i - 1) \/ p = r.i
      BY <1>1, <2>3
    <3>2. q \in r.j..Len(b) /\ q \in 1..Len(b) /\ r.j < q
      BY <1>1, <2>3
    <3>3. CASE p = r.i
      <4>1. CompareNames(b[r.j], b[q]) = -1 /\ b[q] \in Name
        BY <1>3, <2>1, <3>2 DEF Strict
      <4>2. CompareNames(a[r.i], b[r.j]) = 0
        BY <1>6, <2>1, <2>2, NameOrder
      <4> QED
        BY <2>1, <2>2, <3>3, <4>1, <4>2, NameOrder
    <3> QED
      BY <3>1, <3>2, <3>3 DEF MergeOrder
  <2> QED
    BY <2>3, <2>4, <2>5 DEF MergeOrder, s
<1>7. CASE /\ r.i <= Len(a) /\ (r.j <= Len(b) => CompareNames(b[r.j], a[r.i]) = 1)
           /\ s = [verified |-> r.verified, missing |-> Append(r.missing, a[r.i]),
                   extraneous |-> r.extraneous, i |-> r.i + 1, j |-> r.j]
  <2>1. r.i \in 1..Len(a) /\ a[r.i] \in Name
    BY <1>1, <1>2, <1>7
  <2>2. /\ s.extraneous = r.extraneous /\ s.j = r.j /\ s.i = r.i + 1
        /\ s.missing = Append(r.missing, a[r.i])
    BY <1>7
  <2>3. Elements(s.missing) = Elements(r.missing) \cup {a[r.i]}
    BY <1>1, <2>1, <2>2, AppendElements
  <2> HIDE DEF s
  <2>4. ASSUME NEW q \in r.j..Len(b)
        PROVE  CompareNames(a[r.i], b[q]) = -1
    <3>1. r.j \in 1..Len(b) /\ q \in 1..Len(b) /\ r.j <= Len(b)
      BY <1>1
    <3>2. b[r.j] \in Name /\ b[q] \in Name
      BY <1>3, <3>1
    <3>3. CompareNames(b[r.j], a[r.i]) = 1
      BY <1>7, <3>1
    <3>4. CompareNames(a[r.i], b[r.j]) = -1
      BY <2>1, <3>2, <3>3, NameOrder
    <3>5. q = r.j \/ CompareNames(b[r.j], b[q]) = -1
      <4>1. q = r.j \/ r.j < q
        BY <1>1
      <4> QED
        BY <4>1, <3>1 DEF Strict
    <3> QED
      BY <2>1, <3>2, <3>4, <3>5, NameOrder
  <2>5. ASSUME NEW p \in 1..(s.i - 1), NEW q \in s.j..Len(b)
        PROVE  CompareNames(a[p], b[q]) = -1
    <3>1. p \in 1..(r.i - 1) \/ p = r.i
      BY <1>1, <2>2
    <3> QED
      BY <2>2, <2>4, <3>1 DEF MergeOrder
  <2>6. ASSUME NEW q \in 1..(s.j - 1), NEW p \in s.i..Len(a)
        PROVE  CompareNames(b[q], a[p]) = -1
    <3>1. p \in r.i..Len(a)
      BY <1>1, <2>2
    <3> QED
      BY <2>2, <3>1 DEF MergeOrder
  <2>7. ASSUME NEW q \in 1..Len(b)
        PROVE  CompareNames(a[r.i], b[q]) # 0
    <3>1. CASE q \in r.j..Len(b)
      BY <3>1, <2>4
    <3>2. CASE q \notin r.j..Len(b)
      <4>1. q \in 1..(r.j - 1) /\ r.i \in r.i..Len(a)
        BY <1>1, <2>1, <3>2
      <4>2. CompareNames(b[q], a[r.i]) = -1
        BY <4>1 DEF MergeOrder
      <4> QED
        BY <4>2, <1>3, <2>1, NameOrder
    <3> QED
      BY <3>1, <3>2
  <2>8. \A n \in Elements(s.missing) : \A q \in 1..Len(b) : CompareNames(n, b[q]) # 0
    BY <2>3, <2>7 DEF MergeOrder
  <2> QED
    BY <2>2, <2>5, <2>6, <2>8 DEF MergeOrder, s
<1> QED
  BY <1>4, <1>5, <1>6, <1>7, RoundCases

\* A name that no table of S has.
Alone(x, S) == \A m \in S : CompareNames(x, m) # 0

\* No two tables of a set have names that differ in their spelling only.
Unambiguous(A) == \A n, m \in A : CompareNames(n, m) = 0 => n = m

\* compare, of two finite catalogs listed in order: pairs have one name and no
\* table of the truth is in two; without ambiguous names the pairs are exactly
\* the tables both sides have, and every other table is missing or extraneous.
LEMMA ComparedTables ==
    ASSUME NEW A \in SUBSET Name, IsFiniteSet(A), NEW a \in SortedLists(A),
           NEW B \in SUBSET Name, IsFiniteSet(B), NEW b \in SortedLists(B)
    PROVE  LET r == Compare(a, b)
           IN  /\ r \in [verified : Seq(NamePair), missing : Seq(Name), extraneous : Seq(Name)]
               /\ \A v \in Elements(r.verified) :
                     v.truth \in A /\ v.target \in B /\ CompareNames(v.truth, v.target) = 0
               /\ \A x, y \in 1..Len(r.verified) :
                     r.verified[x].truth = r.verified[y].truth => x = y
               /\ Unambiguous(A) /\ Unambiguous(B) =>
                     /\ \A v : v \in Elements(r.verified) <=>
                           \E x \in A, y \in B :
                              v = [truth |-> x, target |-> y] /\ CompareNames(x, y) = 0
                     /\ \A x : x \in Elements(r.missing) <=> x \in A /\ Alone(x, B)
                     /\ \A x : x \in Elements(r.extraneous) <=> x \in B /\ Alone(x, A)
<1> DEFINE n == Len(a) + Len(b)
           r == Compare(a, b)
<1>1. /\ a \in Seq(Name) /\ Elements(a) = A /\ Distinct(a) /\ InOrder(a)
      /\ b \in Seq(Name) /\ Elements(b) = B /\ Distinct(b) /\ InOrder(b)
  <2>1. /\ a \in Seq(A) /\ Elements(a) = A /\ Distinct(a) /\ InOrder(a)
        /\ b \in Seq(B) /\ Elements(b) = B /\ Distinct(b) /\ InOrder(b)
    BY SortedList DEF Distinct, InOrder
  <2> QED
    BY <2>1
<1>2. /\ Len(a) \in Nat /\ DOMAIN a = 1..Len(a)
      /\ Len(b) \in Nat /\ DOMAIN b = 1..Len(b)
      /\ n \in Nat
  BY <1>1
<1>3. PICK f : /\ f[0] = MergeStart
               /\ \A k \in 1..n : f[k] = CompareRound(a, b, f[k - 1])
               /\ r = [verified |-> f[n].verified, missing |-> f[n].missing,
                       extraneous |-> f[n].extraneous]
  BY <1>1, CompareRounds
<1> DEFINE strict == Strict(a) /\ Strict(b)
           Good(k) == /\ MergeFacts(a, b, f[k])
                      /\ strict => MergeOrder(a, b, f[k])
                      /\ MergeDone(a, b, f[k]) \/ f[k].i + f[k].j >= k + 2
           P == {k \in Nat : k <= n => Good(k)}
<1>4. 0 \in P
  <2>1. 1 \in 1..(Len(a) + 1) /\ 1 \in 1..(Len(b) + 1)
    BY <1>2
  <2>2. MergeStart \in MergeOf(a, b)
    BY <2>1 DEF MergeStart, MergeOf
  <2>3. /\ MergeStart.verified = << >> /\ MergeStart.missing = << >>
        /\ MergeStart.extraneous = << >> /\ MergeStart.i = 1 /\ MergeStart.j = 1
    BY DEF MergeStart
  <2>4. Elements(<< >>) = {} /\ \A x \in 1..Len(<< >>) : FALSE
    BY DEF Elements
  <2>5. \A x \in 1..(1 - 1) : FALSE
    OBVIOUS
  <2>6. MergeFacts(a, b, MergeStart)
    BY <2>2, <2>3, <2>4, <2>5 DEF MergeFacts
  <2>7. MergeOrder(a, b, MergeStart)
    BY <2>3, <2>4, <2>5 DEF MergeOrder
  <2>8. f[0].i + f[0].j >= 0 + 2
    BY <1>3, <2>3
  <2>9. Good(0)
    BY <1>3, <2>6, <2>7, <2>8
  <2> HIDE DEF Good
  <2> QED
    BY <2>9
<1>5. ASSUME NEW k \in P
      PROVE  k + 1 \in P
  <2> SUFFICES ASSUME k + 1 <= n
               PROVE  Good(k + 1)
    <3> HIDE DEF Good
    <3> QED
      OBVIOUS
  <2>1. k \in Nat /\ k <= n /\ k + 1 \in 1..n /\ (k + 1) - 1 = k
    <3> HIDE DEF Good, n
    <3> QED
      BY <1>2
  <2>2. Good(k)
    <3> HIDE DEF Good
    <3> QED
      BY <2>1
  <2>3. f[k + 1] = CompareRound(a, b, f[k])
    <3> HIDE DEF n
    <3> QED
      BY <1>3, <2>1
  <2>4. f[k] \in MergeOf(a, b)
    BY <2>2 DEF MergeFacts
  <2>5. MergeFacts(a, b, f[k + 1])
    BY <1>1, <2>2, <2>3, RoundFacts
  <2>6. strict => MergeOrder(a, b, f[k + 1])
    BY <1>1, <2>2, <2>3, <2>4, RoundOrder
  <2>7. MergeDone(a, b, f[k]) => MergeDone(a, b, f[k + 1])
    <3> SUFFICES ASSUME MergeDone(a, b, f[k])
                 PROVE  MergeDone(a, b, f[k + 1])
      OBVIOUS
    <3>1. f[k].i > Len(a) /\ f[k].j > Len(b)
      BY <1>2 DEF MergeDone
    <3>2. CompareRound(a, b, f[k]) = f[k]
      BY <3>1 DEF CompareRound
    <3> QED
      BY <2>3, <3>2
  <2>8. MergeDone(a, b, f[k + 1]) \/ f[k + 1].i + f[k + 1].j >= (k + 1) + 2
    <3>1. CASE MergeDone(a, b, f[k])
      BY <2>7, <3>1
    <3>2. CASE f[k].i + f[k].j >= k + 2
      <4>1. f[k].i \in Nat /\ f[k].j \in Nat
        BY <1>2, <2>4 DEF MergeOf
      <4>2. MergeDone(a, b, f[k + 1]) \/ f[k + 1].i + f[k + 1].j >= f[k].i + f[k].j + 1
        BY <1>1, <2>3, <2>4, RoundType
      <4>3. f[k + 1] \in MergeOf(a, b)
        BY <1>1, <2>3, <2>4, RoundType
      <4>4. f[k + 1].i \in Nat /\ f[k + 1].j \in Nat
        BY <1>2, <4>3 DEF MergeOf
      <4> HIDE DEF P, Good, n, strict
      <4> QED
        BY <2>1, <3>2, <4>1, <4>2, <4>4
    <3> QED
      BY <2>2, <3>1, <3>2
  <2> QED
    BY <2>5, <2>6, <2>8
<1>6. P = Nat
  <2> HIDE DEF P
  <2>1. P \in SUBSET Nat
    BY DEF P
  <2> QED
    BY <1>4, <1>5, <2>1, SetInduction
<1>7. Good(n)
  <2> HIDE DEF Good, n
  <2> QED
    BY <1>2, <1>6
<1> DEFINE e == f[n]
<1>8. MergeFacts(a, b, e) /\ (strict => MergeOrder(a, b, e)) /\ e \in MergeOf(a, b)
  BY <1>7 DEF MergeFacts
<1>9. e.i = Len(a) + 1 /\ e.j = Len(b) + 1
  <2>1. e.i \in 1..(Len(a) + 1) /\ e.j \in 1..(Len(b) + 1)
    BY <1>8 DEF MergeOf
  <2>2. MergeDone(a, b, e) \/ e.i + e.j >= n + 2
    BY <1>7
  <2> HIDE DEF e
  <2> QED
    BY <1>2, <2>1, <2>2 DEF MergeDone
<1>10. r.verified = e.verified /\ r.missing = e.missing /\ r.extraneous = e.extraneous
  BY <1>3
<1>11. r \in [verified : Seq(NamePair), missing : Seq(Name), extraneous : Seq(Name)]
  BY <1>3, <1>8 DEF MergeOf
<1> HIDE DEF r, e, Good, P
<1>12. e.i - 1 = Len(a) /\ e.j - 1 = Len(b)
  BY <1>2, <1>9
<1>13. A = {a[p] : p \in 1..Len(a)} /\ B = {b[q] : q \in 1..Len(b)}
  BY <1>1, <1>2 DEF Elements
<1>14. /\ \A v \in Elements(r.verified) :
             \E p \in 1..Len(a), q \in 1..Len(b) :
                v = [truth |-> a[p], target |-> b[q]] /\ CompareNames(a[p], b[q]) = 0
       /\ \A x, y \in 1..Len(r.verified) : r.verified[x].truth = r.verified[y].truth => x = y
  <2>1. 1..(e.i - 1) = 1..Len(a) /\ 1..(e.j - 1) = 1..Len(b)
    BY <1>12
  <2>2. \A v \in Elements(e.verified) :
           \E p \in 1..(e.i - 1), q \in 1..(e.j - 1) :
              v = [truth |-> a[p], target |-> b[q]] /\ CompareNames(a[p], b[q]) = 0
    BY <1>8 DEF MergeFacts
  <2>3. \A x, y \in 1..Len(e.verified) : e.verified[x].truth = e.verified[y].truth => x = y
    BY <1>8 DEF MergeFacts
  <2> QED
    BY <1>10, <2>1, <2>2, <2>3
<1>15. \A v \in Elements(r.verified) :
          /\ v = [truth |-> v.truth, target |-> v.target]
          /\ v.truth \in A /\ v.target \in B /\ CompareNames(v.truth, v.target) = 0
  BY <1>13, <1>14
<1>16. /\ \A x \in Elements(r.missing) : x \in A
       /\ \A x \in Elements(r.extraneous) : x \in B
       /\ \A x \in A : x \in Elements(r.missing) \/ \E v \in Elements(r.verified) : v.truth = x
       /\ \A x \in B : x \in Elements(r.extraneous) \/ \E v \in Elements(r.verified) : v.target = x
  BY <1>8, <1>10, <1>12, <1>13 DEF MergeFacts
<1>17. ASSUME Unambiguous(A), Unambiguous(B)
       PROVE  /\ Elements(r.verified) =
                    {v \in [truth : A, target : B] : CompareNames(v.truth, v.target) = 0}
              /\ Elements(r.missing) = {x \in A : \A m \in B : CompareNames(x, m) # 0}
              /\ Elements(r.extraneous) = {m \in B : \A x \in A : CompareNames(x, m) # 0}
  <2>1. ASSUME NEW i \in 1..Len(a), NEW j \in 1..Len(a), i < j
        PROVE  CompareNames(a[i], a[j]) = -1
    <3>1. a[i] \in A /\ a[j] \in A /\ a[i] \in Name /\ a[j] \in Name
      BY <1>13
    <3>2. i # j
      BY <2>1
    <3>3. CompareNames(a[i], a[j]) # 1 /\ CompareNames(a[i], a[j]) # 0
      BY <1>1, <1>17, <2>1, <3>1, <3>2 DEF InOrder, Unambiguous, Distinct
    <3> QED
      BY <3>1, <3>3, NameOrder
  <2>2. ASSUME NEW i \in 1..Len(b), NEW j \in 1..Len(b), i < j
        PROVE  CompareNames(b[i], b[j]) = -1
    <3>1. b[i] \in B /\ b[j] \in B /\ b[i] \in Name /\ b[j] \in Name
      BY <1>13
    <3>2. i # j
      BY <2>2
    <3>3. CompareNames(b[i], b[j]) # 1 /\ CompareNames(b[i], b[j]) # 0
      BY <1>1, <1>17, <2>2, <3>1, <3>2 DEF InOrder, Unambiguous, Distinct
    <3> QED
      BY <3>1, <3>3, NameOrder
  <2>3. MergeOrder(a, b, e)
    BY <1>8, <2>1, <2>2 DEF Strict
  <2>4. /\ \A x \in Elements(r.missing) : \A m \in B : CompareNames(x, m) # 0
        /\ \A m \in Elements(r.extraneous) : \A x \in A : CompareNames(x, m) # 0
    BY <1>10, <1>13, <2>3 DEF MergeOrder
  <2>5. Elements(r.missing) = {x \in A : \A m \in B : CompareNames(x, m) # 0}
    BY <1>15, <1>16, <2>4
  <2>6. Elements(r.extraneous) = {m \in B : \A x \in A : CompareNames(x, m) # 0}
    BY <1>15, <1>16, <2>4
  <2>7. ASSUME NEW v \in [truth : A, target : B], CompareNames(v.truth, v.target) = 0
        PROVE  v \in Elements(r.verified)
    <3>1. v.truth \in A /\ v.target \in B /\ v = [truth |-> v.truth, target |-> v.target]
      OBVIOUS
    <3>2. v.truth \notin Elements(r.missing)
      BY <2>4, <2>7, <3>1
    <3>3. PICK w \in Elements(r.verified) : w.truth = v.truth
      BY <1>16, <3>1, <3>2
    <3>4. CompareNames(v.truth, w.target) = 0 /\ w.target \in B
      BY <1>15, <3>3
    <3>5. v.truth \in Name /\ v.target \in Name /\ w.target \in Name
      BY <3>1, <3>4
    <3>6. CompareNames(w.target, v.truth) = 0
      BY <3>4, <3>5, NameOrder
    <3>7. CompareNames(w.target, v.target) = 0
      BY <3>5, <3>6, <2>7, NameOrder
    <3>8. w.target = v.target
      BY <1>17, <3>1, <3>4, <3>7 DEF Unambiguous
    <3> QED
      BY <1>15, <3>1, <3>3, <3>8
  <2>8. ASSUME NEW v \in Elements(r.verified)
        PROVE  v \in [truth : A, target : B] /\ CompareNames(v.truth, v.target) = 0
    <3>1. /\ v = [truth |-> v.truth, target |-> v.target]
          /\ v.truth \in A /\ v.target \in B /\ CompareNames(v.truth, v.target) = 0
      BY <1>15
    <3> QED
      BY <3>1
  <2>9. Elements(r.verified) =
            {v \in [truth : A, target : B] : CompareNames(v.truth, v.target) = 0}
    BY <2>7, <2>8
  <2> QED
    BY <2>5, <2>6, <2>9
<1>18. ASSUME Unambiguous(A), Unambiguous(B)
       PROVE  /\ \A v : v \in Elements(r.verified) <=>
                    \E x \in A, y \in B : v = [truth |-> x, target |-> y] /\ CompareNames(x, y) = 0
              /\ \A x : x \in Elements(r.missing) <=> x \in A /\ Alone(x, B)
              /\ \A x : x \in Elements(r.extraneous) <=> x \in B /\ Alone(x, A)
  <2>1. \A v : v \in Elements(r.verified) <=>
           \E x \in A, y \in B : v = [truth |-> x, target |-> y] /\ CompareNames(x, y) = 0
    BY <1>17, <1>18
  <2>2. \A x : x \in Elements(r.missing) <=> x \in A /\ Alone(x, B)
    BY <1>17, <1>18 DEF Alone
  <2>3. \A x \in A, m \in B : CompareNames(x, m) # 0 <=> CompareNames(m, x) # 0
    <3> TAKE x \in A, m \in B
    <3>1. x \in Name /\ m \in Name
      OBVIOUS
    <3>2. CompareNames(x, m) = -CompareNames(m, x) /\ CompareNames(m, x) \in {-1, 0, 1}
      BY <3>1, NameOrder
    <3> QED
      BY <3>2
  <2>4. \A x : x \in Elements(r.extraneous) <=> x \in B /\ \A m \in A : CompareNames(m, x) # 0
    BY <1>17, <1>18
  <2>5. \A x : x \in Elements(r.extraneous) <=> x \in B /\ Alone(x, A)
    BY <2>3, <2>4 DEF Alone
  <2> QED
    BY <2>1, <2>2, <2>5
<1> QED
  BY <1>11, <1>14, <1>15, <1>18 DEF r

----------------------------------------------------------------------------
(* The shards of a table.                                                  *)

Kinds == {"int", "uuid", "float", "other"}

\* Extremes that are split are integers, and the boundaries are too.
LEMMA SplitValues ==
    ASSUME NEW kind \in Kinds, NEW e \in Extremes(kind), e # << >>,
           Splittable(kind, e[1], e[2]), NEW n \in Nat \ {0}
    PROVE  /\ kind # "other" /\ e[1] \in Int /\ e[2] \in Int
           /\ \A k \in Nat : SplitVal(kind, e[1], e[2], n, k) \in Int
<1> USE ShardAssumption
<1>1. e[1] \in KeyRange(kind) /\ e[2] \in KeyRange(kind)
  BY DEF Extremes
<1>2. ValRange(kind, e[1], e[2]) > 0
  BY DEF Splittable
<1>3. kind # "other"
  BY <1>2 DEF ValRange
<1>4. e[1] \in Int /\ e[2] \in Int
  <2>1. CASE kind = "int"
    BY <1>1, <2>1 DEF KeyRange
  <2>2. CASE kind = "uuid"
    BY <1>1, <2>2 DEF KeyRange
  <2>3. CASE kind = "float"
    <3>1. NaN \notin {e[1], e[2]}
      BY <1>2, <2>3 DEF ValRange
    <3> QED
      BY <1>1, <2>3, <3>1 DEF KeyRange
  <2> QED
    BY <1>3, <2>1, <2>2, <2>3 DEF Kinds
<1>5. \A x \in Int : WrapInt(x) \in Int /\ WrapHi(x) \in Int
  BY DEF WrapInt, WrapHi
<1>6. ValRange(kind, e[1], e[2]) \in Int
  <2>1. e[2] - e[1] \in Int
    BY <1>4
  <2> QED
    BY <1>3, <1>5, <2>1 DEF ValRange, Kinds
<1> DEFINE step == Larger(ValRange(kind, e[1], e[2]) \div n, 1)
<1>7. step \in Int
  <2>1. ValRange(kind, e[1], e[2]) \div n \in Int
    BY <1>6
  <2> QED
    BY <2>1 DEF Larger
<1>8. ASSUME NEW k \in Nat
      PROVE  SplitVal(kind, e[1], e[2], n, k) \in Int
  <2>1. SplitVal(kind, e[1], e[2], n, k) =
            CASE kind = "int" -> WrapInt(e[1] + WrapInt(step * k))
              [] kind = "uuid" -> WrapHi(e[1] + WrapHi(step * k))
              [] OTHER -> e[1] + step * k
    BY DEF SplitVal
  <2> HIDE DEF step
  <2>2. step * k \in Int
    BY <1>7
  <2>3. /\ e[1] + WrapInt(step * k) \in Int
        /\ e[1] + WrapHi(step * k) \in Int
        /\ e[1] + step * k \in Int
    <3>1. WrapInt(step * k) \in Int /\ WrapHi(step * k) \in Int
      BY <1>5, <2>2
    <3> HIDE DEF step
    <3>2. \A x \in Int : e[1] + x \in Int
      BY <1>4
    <3> QED
      BY <2>2, <3>1, <3>2
  <2> QED
    BY <2>1, <2>3, <1>5
<1> QED
  BY <1>3, <1>4, <1>8

ShardRange == [start : Int \cup {Unbounded}, end : Int \cup {Unbounded}]

\* Either the table is scanned as a whole or n shards follow each other, each
\* starting where the one before ends.
LEMMA ShardsForm ==
    ASSUME NEW kind \in Kinds, NEW e \in Extremes(kind), NEW n \in Nat \ {0}
    PROVE  LET S == Shards(kind, e, n)
           IN  \/ S = FullScan
               \/ /\ n > 1 /\ e # << >> /\ Splittable(kind, e[1], e[2])
                  /\ S = [k \in 1..n |->
                            [start |-> IF k = 1 THEN Unbounded
                                       ELSE SplitVal(kind, e[1], e[2], n, k - 1),
                             end   |-> IF k = n THEN Unbounded
                                       ELSE SplitVal(kind, e[1], e[2], n, k)]]
BY DEF Shards

\* The ranges of a table are well formed, and there is at least one.
LEMMA ShardsType ==
    ASSUME NEW kind \in Kinds, NEW e \in Extremes(kind), NEW n \in Nat \ {0}
    PROVE  /\ Shards(kind, e, n) \in Seq(ShardRange)
           /\ Len(Shards(kind, e, n)) > 0
<1> DEFINE S == Shards(kind, e, n)
           split(k) == SplitVal(kind, e[1], e[2], n, k)
<1>1. CASE S = FullScan
  <2>1. FullScan \in Seq(ShardRange) /\ Len(FullScan) = 1
    BY DEF FullScan, ShardRange
  <2> QED
    BY <1>1, <2>1
<1>2. CASE /\ n > 1 /\ e # << >> /\ Splittable(kind, e[1], e[2])
           /\ S = [k \in 1..n |-> [start |-> IF k = 1 THEN Unbounded ELSE split(k - 1),
                                   end   |-> IF k = n THEN Unbounded ELSE split(k)]]
  <2>1. \A k \in Nat : split(k) \in Int
    BY <1>2, SplitValues
  <2> HIDE DEF split
  <2>2. \A k \in 1..n : [start |-> IF k = 1 THEN Unbounded ELSE split(k - 1),
                         end   |-> IF k = n THEN Unbounded ELSE split(k)] \in ShardRange
    BY <2>1 DEF ShardRange
  <2>3. S \in [1..n -> ShardRange]
    BY <1>2, <2>2
  <2> HIDE DEF S
  <2>4. S \in Seq(ShardRange) /\ Len(S) = n
    BY <2>3
  <2> QED
    BY <1>2, <2>4 DEF S
<1> HIDE DEF S
<1> QED
  BY <1>1, <1>2, ShardsForm DEF S

\* Every key is in a shard, whatever the boundaries are.
LEMMA ShardsCover ==
    ASSUME NEW kind \in Kinds, NEW e \in Extremes(kind), NEW n \in Nat \ {0}, NEW key \in Int
    PROVE  \E k \in 1..Len(Shards(kind, e, n)) : Holds(Shards(kind, e, n)[k], key)
<1> DEFINE S == Shards(kind, e, n)
           split(k) == SplitVal(kind, e[1], e[2], n, k)
<1>1. CASE S = FullScan
  <2>1. Len(FullScan) = 1 /\ FullScan[1].start = Unbounded /\ FullScan[1].end = Unbounded
    BY DEF FullScan
  <2> QED
    BY <1>1, <2>1 DEF Holds
<1>2. CASE /\ n > 1 /\ e # << >> /\ Splittable(kind, e[1], e[2])
           /\ S = [k \in 1..n |-> [start |-> IF k = 1 THEN Unbounded ELSE split(k - 1),
                                   end   |-> IF k = n THEN Unbounded ELSE split(k)]]
  <2>1. \A k \in Nat : split(k) \in Int
    BY <1>2, SplitValues
  <2>2. S \in Seq(ShardRange) /\ DOMAIN S = 1..n
    BY <1>2, ShardsType
  <2>3. Len(S) = n
    BY <2>2
  <2> HIDE DEF split
  <2> DEFINE T == {k \in 1..n : k = n \/ key < split(k)}
  <2>4. T \in SUBSET Nat /\ n \in T
    OBVIOUS
  <2>5. PICK k \in T : \A j \in T : k <= j
    <3> HIDE DEF T
    <3> QED
      BY <2>4, LeastNatural
  <2>6. k \in 1..n /\ (k = n \/ key < split(k))
    BY <2>5
  <2>7. k = 1 \/ key >= split(k - 1)
    <3> SUFFICES ASSUME k # 1
                 PROVE  key >= split(k - 1)
      OBVIOUS
    <3>1. k - 1 \in 1..n /\ k - 1 \in Nat /\ k - 1 # n /\ ~(k <= k - 1)
      BY <2>6
    <3>2. k - 1 \notin T
      <4> HIDE DEF T
      <4> QED
        BY <2>5, <3>1
    <3>3. ~(key < split(k - 1))
      BY <3>1, <3>2
    <3>4. split(k - 1) \in Int
      BY <2>1, <3>1
    <3> QED
      BY <3>3, <3>4
  <2>8. /\ S[k].start = IF k = 1 THEN Unbounded ELSE split(k - 1)
        /\ S[k].end = IF k = n THEN Unbounded ELSE split(k)
    BY <1>2, <2>6
  <2>9. Holds(S[k], key)
    <3> HIDE DEF S, T
    <3> QED
      BY <2>6, <2>7, <2>8 DEF Holds
  <2> QED
    BY <2>3, <2>6, <2>9
<1> HIDE DEF S
<1> QED
  BY <1>1, <1>2, ShardsForm DEF S

\* Remainders of what is at most one divisor out of range.
LEMMA Remainder ==
    ASSUME NEW b \in Nat \ {0}, NEW x \in Int
    PROVE  /\ 0 <= x /\ x < b => x % b = x
           /\ b <= x /\ x < 2 * b => x % b = x - b
           /\ -b <= x /\ x < 0 => x % b = x + b
<1> DEFINE q == x \div b
           r == x % b
<1>1. q \in Int /\ r \in 0..(b - 1) /\ x = b * q + r
  OBVIOUS
<1> HIDE DEF q, r
<1>2. CASE 0 <= x /\ x < b
  <2>1. q < 1
    BY <1>1, <1>2
  <2>2. q > -1
    BY <1>1, <1>2
  <2>3. q = 0
    BY <1>1, <2>1, <2>2
  <2> QED
   BY <1>1, <1>2, <2>3 DEF r
<1>3. CASE b <= x /\ x < 2 * b
  <2>1. q < 2
    BY <1>1, <1>3
  <2>2. q > 0
    BY <1>1, <1>3
  <2>3. q = 1
    BY <1>1, <2>1, <2>2
  <2> QED
   BY <1>1, <1>3, <2>3 DEF r
<1>4. CASE -b <= x /\ x < 0
  <2>1. q < 0
    BY <1>1, <1>4
  <2>2. q > -2
    BY <1>1, <1>4
  <2>3. q = -1
    BY <1>1, <2>1, <2>2
  <2> QED
   BY <1>1, <1>4, <2>3 DEF r
<1> QED BY <1>2, <1>3, <1>4 DEF r

\* The quotient, times less than the divisor.
LEMMA Quotient ==
    ASSUME NEW d \in Nat, NEW n \in Nat \ {0}, NEW k \in 0..n
    PROVE  d \div n \in Nat /\ (d \div n) * k \in Nat /\ (d \div n) * k <= d
<1> DEFINE q == d \div n
           r == d % n
<1>1. q \in Int /\ r \in 0..(n - 1) /\ d = n * q + r
  OBVIOUS
<1> HIDE DEF q, r
<1>2. q >= 0
  BY <1>1
<1>3. q * k <= q * n
  BY <1>1, <1>2
<1>4. q * k >= 0 /\ q * k \in Int
  BY <1>1, <1>2
<1>5. q * n = n * q /\ q * n <= d
  BY <1>1
<1> QED BY <1>1, <1>2, <1>3, <1>4, <1>5 DEF q

\* Boundaries that do not wrap are a fixed distance of at least 1 apart.
LEMMA SplitExact ==
    ASSUME NEW kind \in Kinds, NEW e \in Extremes(kind), e # << >>,
           Splittable(kind, e[1], e[2]), NEW n \in Nat \ {0}, NoWrap(kind, e, n)
    PROVE  \E step \in Nat \ {0} :
              \A k \in 1..(n - 1) : SplitVal(kind, e[1], e[2], n, k) = e[1] + step * k
<1> DEFINE lo == e[1]
           hi == e[2]
           d == ValRange(kind, lo, hi)
           step == Larger(d \div n, 1)
<1> USE ShardAssumption
<1>1. kind # "other" /\ lo \in Int /\ hi \in Int
  BY SplitValues
<1>2. lo \in KeyRange(kind) /\ hi \in KeyRange(kind)
  BY DEF Extremes
<1>4. d \in Int /\ d > 0
  <2>1. hi - lo \in Int
    BY <1>1
  <2>2. \A x \in Int : WrapInt(x) \in Int /\ WrapHi(x) \in Int
    BY DEF WrapInt, WrapHi
  <2>3. d > 0
    BY DEF Splittable
  <2>4. d \in Int
    <3>1. CASE kind = "float"
      <4>1. NaN \notin {lo, hi}
        BY <1>1
      <4> QED
        BY <2>1, <3>1, <4>1 DEF ValRange
    <3> QED
      BY <1>1, <2>1, <2>2, <3>1 DEF ValRange, Kinds
  <2> QED
    BY <2>3, <2>4
<1>5. \A k \in Nat : SplitVal(kind, lo, hi, n, k) =
            CASE kind = "int" -> WrapInt(lo + WrapInt(step * k))
              [] kind = "uuid" -> WrapHi(lo + WrapHi(step * k))
              [] OTHER -> lo + step * k
  BY DEF SplitVal
<1>6. ValRange(kind, lo, hi) = d
  OBVIOUS
<1>7. step = Larger(d \div n, 1)
  OBVIOUS
<1>8. NoWrap(kind, e, n) /\ e # << >>
  OBVIOUS
<1> HIDE DEF d, step
<1>9. d \div n \in Nat
  BY <1>4, Quotient
<1>10. step \in Nat \ {0}
  BY <1>7, <1>9 DEF Larger
<1> DEFINE W == MaxInt - MinInt + 1
<1>11. ASSUME NEW k \in 1..(n - 1)
       PROVE  /\ step * k \in Nat
              /\ step * k <= d \/ step * k <= n - 1
  <2>1. CASE d \div n >= 1
    <3>1. step = d \div n
      BY <1>7, <2>1 DEF Larger
    <3>2. (d \div n) * k \in Nat /\ (d \div n) * k <= d
      BY <1>4, Quotient
    <3> QED
      BY <3>1, <3>2
  <2>2. CASE ~(d \div n >= 1)
    <3>1. step = 1
      BY <1>7, <2>2 DEF Larger
    <3> QED
      BY <3>1
  <2> QED
    BY <2>1, <2>2
<1>12. CASE kind = "int"
  <2>1. lo \in MinInt..MaxInt /\ hi \in MinInt..MaxInt
    BY <1>2, <1>12 DEF KeyRange
  <2>2. lo <= hi /\ hi - lo <= MaxInt /\ lo + n - 1 <= MaxInt
    BY <1>8, <1>12 DEF NoWrap
  <2>3. W \in Nat \ {0}
    OBVIOUS
  <2>4. \A x \in Int : WrapInt(x) = ((x - MinInt) % W) + MinInt
    BY DEF WrapInt
  <2>5. ASSUME NEW x \in Int
        PROVE  /\ x \in MinInt..MaxInt => WrapInt(x) = x
               /\ x > MaxInt /\ x <= MaxInt + W => WrapInt(x) = x - W
               /\ x < MinInt /\ x >= MinInt - W => WrapInt(x) = x + W
    <3> DEFINE y == x - MinInt
    <3>1. y \in Int /\ WrapInt(x) = (y % W) + MinInt
      BY <2>4
    <3>2. /\ 0 <= y /\ y < W => y % W = y
          /\ W <= y /\ y < 2 * W => y % W = y - W
          /\ -W <= y /\ y < 0 => y % W = y + W
      <4> HIDE DEF W, y
      <4> QED
        BY <2>3, <3>1, Remainder
    <3>3. y = x - MinInt
      OBVIOUS
    <3> HIDE DEF y
    <3> QED
      BY <3>1, <3>2, <3>3
  <2>6. d = hi - lo
    <3>1. hi - lo \in Int /\ hi - lo \in MinInt..MaxInt
      BY <2>1, <2>2
    <3>2. d = WrapInt(hi - lo)
      BY <1>6, <1>12 DEF ValRange
    <3> QED
      BY <2>5, <3>1, <3>2
  <2>7. ASSUME NEW k \in 1..(n - 1)
        PROVE  SplitVal(kind, lo, hi, n, k) = lo + step * k
    <3> DEFINE x == step * k
    <3>1. x \in Nat /\ (x <= d \/ x <= n - 1)
      BY <1>11
    <3>2. SplitVal(kind, lo, hi, n, k) = WrapInt(lo + WrapInt(x))
      BY <1>5, <1>12
    <3> HIDE DEF x
    <3>3. lo + x \in MinInt..MaxInt
      BY <2>1, <2>2, <2>6, <3>1
    <3>4. x <= MaxInt + W
      BY <2>1, <3>1, <3>3
    <3>5. CASE x <= MaxInt
      <4>1. x \in Int /\ x \in MinInt..MaxInt
        BY <3>1, <3>5
      <4>2. WrapInt(x) = x
        BY <2>5, <4>1
      <4>3. lo + x \in Int
        BY <3>1, <2>1
      <4>4. WrapInt(lo + x) = lo + x
        BY <2>5, <3>3, <4>3
      <4> QED
        BY <3>2, <4>2, <4>4 DEF x
    <3>6. CASE x > MaxInt
      <4>1. WrapInt(x) = x - W
        <5> HIDE DEF W
        <5> QED
          BY <2>5, <3>1, <3>4, <3>6
      <4>2. /\ lo + (x - W) \in Int
            /\ lo + (x - W) < MinInt /\ lo + (x - W) >= MinInt - W
        BY <2>1, <3>1, <3>3, <3>6
      <4>3. WrapInt(lo + (x - W)) = lo + (x - W) + W
        BY <2>5, <4>2
      <4>4. lo + (x - W) + W = lo + x
        BY <2>1, <2>3, <3>1
      <4> QED
        BY <3>2, <4>1, <4>3, <4>4 DEF x
    <3> QED
      BY <3>1, <3>5, <3>6
  <2> QED
    BY <1>10, <2>7
<1>13. CASE kind = "uuid"
  <2>1. lo \in 0..(MaxInt - MinInt) /\ hi \in 0..(MaxInt - MinInt)
    BY <1>2, <1>13 DEF KeyRange
  <2>2. lo <= hi /\ lo + n - 1 <= MaxInt - MinInt
    BY <1>8, <1>13 DEF NoWrap
  <2>3. W \in Nat \ {0}
    OBVIOUS
  <2>4. \A x \in Int : x \in 0..(MaxInt - MinInt) => WrapHi(x) = x
    <3> TAKE x \in Int
    <3> HAVE x \in 0..(MaxInt - MinInt)
    <3>1. WrapHi(x) = x % W
      BY DEF WrapHi
    <3>2. 0 <= x /\ x < W
      OBVIOUS
    <3> HIDE DEF W
    <3> QED
      BY <2>3, <3>1, <3>2, Remainder
  <2>5. d = hi - lo
    <3>1. hi - lo \in Int /\ hi - lo \in 0..(MaxInt - MinInt)
      BY <2>1, <2>2
    <3>2. d = WrapHi(hi - lo)
      BY <1>6, <1>13 DEF ValRange
    <3> QED
      BY <2>4, <3>1, <3>2
  <2>6. ASSUME NEW k \in 1..(n - 1)
        PROVE  SplitVal(kind, lo, hi, n, k) = lo + step * k
    <3> DEFINE x == step * k
    <3>1. x \in Nat /\ (x <= d \/ x <= n - 1)
      BY <1>11
    <3>2. SplitVal(kind, lo, hi, n, k) = WrapHi(lo + WrapHi(x))
      BY <1>5, <1>13
    <3> HIDE DEF x
    <3>3. lo + x \in 0..(MaxInt - MinInt) /\ x \in 0..(MaxInt - MinInt)
      BY <2>1, <2>2, <2>5, <3>1
    <3>4. lo + x \in Int /\ x \in Int
      BY <3>3
    <3> QED
      BY <2>4, <3>2, <3>3, <3>4 DEF x
  <2> QED
    BY <1>10, <2>6
<1>14. CASE kind = "float"
  BY <1>5, <1>10, <1>14
<1> QED
  BY <1>1, <1>12, <1>13, <1>14 DEF Kinds

\* No key is in two shards when the boundaries do not wrap.
LEMMA ShardsDisjoint ==
    ASSUME NEW kind \in Kinds, NEW e \in Extremes(kind), NEW n \in Nat \ {0},
           NoWrap(kind, e, n), NEW key \in Int,
           NEW i \in 1..Len(Shards(kind, e, n)), NEW j \in 1..Len(Shards(kind, e, n)),
           Holds(Shards(kind, e, n)[i], key), Holds(Shards(kind, e, n)[j], key)
    PROVE  i = j
<1> USE ShardAssumption
<1> DEFINE S == Shards(kind, e, n)
           split(k) == SplitVal(kind, e[1], e[2], n, k)
<1>1. CASE S = FullScan
  BY <1>1 DEF FullScan
<1>2. CASE /\ n > 1 /\ e # << >> /\ Splittable(kind, e[1], e[2])
           /\ S = [k \in 1..n |-> [start |-> IF k = 1 THEN Unbounded ELSE split(k - 1),
                                   end   |-> IF k = n THEN Unbounded ELSE split(k)]]
  <2>1. PICK step \in Nat \ {0} : \A k \in 1..(n - 1) : split(k) = e[1] + step * k
    BY <1>2, SplitExact
  <2>2. e[1] \in Int
    BY <1>2, SplitValues
  <2>3. S \in Seq(ShardRange) /\ DOMAIN S = 1..n
    BY <1>2, ShardsType
  <2>4. Len(S) = n
    BY <2>3
  <2> HIDE DEF split
  <2>5. ASSUME NEW p \in 1..n, NEW q \in 1..n, p < q, Holds(S[p], key), Holds(S[q], key)
        PROVE  FALSE
    <3>1. S[p].end = split(p) /\ S[q].start = split(q - 1)
      BY <1>2, <2>5
    <3>2. p \in 1..(n - 1) /\ q - 1 \in 1..(n - 1)
      BY <2>5
    <3>3. split(p) = e[1] + step * p /\ split(q - 1) = e[1] + step * (q - 1)
      BY <2>1, <3>2
    <3>4. step * p <= step * (q - 1) /\ step * p \in Int /\ step * (q - 1) \in Int
      BY <2>5
    <3>5. split(p) \in Int /\ split(q - 1) \in Int /\ split(p) <= split(q - 1)
      BY <2>2, <3>3, <3>4
    <3>6. key < split(p) /\ key >= split(q - 1)
      <4>1. Holds(S[p], key) /\ Holds(S[q], key)
        BY <2>5
      <4> HIDE DEF S
      <4> QED
        BY <3>1, <3>5, <4>1 DEF Holds
    <3> QED
      BY <3>5, <3>6
  <2>6. i \in 1..n /\ j \in 1..n /\ Holds(S[i], key) /\ Holds(S[j], key)
    BY <2>4
  <2> HIDE DEF S
  <2> QED
    BY <2>5, <2>6
<1> HIDE DEF S
<1> QED
  BY <1>1, <1>2, ShardsForm DEF S

============================================================================
