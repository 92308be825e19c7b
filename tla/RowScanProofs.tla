--------------------------- MODULE RowScanProofs ---------------------------
(***************************************************************************)
(* What the scan iterators of RowVerify deliver, for every table, shard    *)
(* and page size: a page is the ordered beginning of what lies after the   *)
(* cursor, and pages and cursor never lose or repeat a key.                *)
(***************************************************************************)
EXTENDS RowVerify, TLAPS, FiniteSetTheorems

----------------------------------------------------------------------------
(* Ordered pages.                                                          *)

\* Every set of keys is finite.
LEMMA KeySets ==
    ASSUME NEW S \in SUBSET Keys
    PROVE  IsFiniteSet(S) /\ Cardinality(S) \in Nat
<1>1. IsFiniteSet(S)
  BY RowVerifyAssumption, FS_Subset
<1> QED
  BY <1>1, FS_CardinalityType

\* The rank of a key grows with the key, and ranges over 1..Cardinality(S).
LEMMA RankGrows ==
    ASSUME NEW S \in SUBSET Keys
    PROVE  /\ \A k \in S : Rank(k, S) \in 1..Cardinality(S)
           /\ \A j, k \in S : j < k => Rank(j, S) < Rank(k, S)
           /\ \A j, k \in S : Rank(j, S) = Rank(k, S) => j = k
<1> DEFINE upTo(k) == {j \in S : j <= k}
<1>1. \A k \in S : upTo(k) \in SUBSET S /\ upTo(k) \in SUBSET Keys /\ k \in Int
  BY RowVerifyAssumption
<1>2. \A k \in S : IsFiniteSet(upTo(k)) /\ Cardinality(upTo(k)) \in Nat
  BY <1>1, KeySets
<1>3. IsFiniteSet(S) /\ Cardinality(S) \in Nat
  BY KeySets
<1>4. \A k \in S : Rank(k, S) \in 1..Cardinality(S)
  <2> TAKE k \in S
  <2>1. Cardinality(upTo(k)) <= Cardinality(S)
    BY <1>1, <1>3, FS_Subset
  <2>2. k \in upTo(k)
    BY <1>1
  <2>3. Cardinality(upTo(k)) # 0
    BY <2>2, <1>2, FS_EmptySet
  <2> QED
    BY <2>1, <2>3, <1>2, <1>3 DEF Rank
<1>5. \A j, k \in S : j < k => Rank(j, S) < Rank(k, S)
  <2> SUFFICES ASSUME NEW j \in S, NEW k \in S, j < k
               PROVE  Cardinality(upTo(j)) < Cardinality(upTo(k))
    BY DEF Rank
  <2>1. upTo(j) \in SUBSET upTo(k)
    <3>1. \A i \in S : i <= j => i <= k
      BY <1>1
    <3> QED
      BY <3>1
  <2>2. upTo(k) # upTo(j)
    <3>1. k \in upTo(k) /\ k \notin upTo(j)
      BY <1>1
    <3> QED
      BY <3>1
  <2> HIDE DEF upTo
  <2>3. Cardinality(upTo(j)) <= Cardinality(upTo(k))
        /\ Cardinality(upTo(j)) # Cardinality(upTo(k))
    BY <2>1, <2>2, <1>2, FS_Subset
  <2> QED
    BY <2>3, <1>2
<1>6. \A j, k \in S : Rank(j, S) = Rank(k, S) => j = k
  <2> TAKE j \in S, k \in S
  <2>1. j < k \/ k < j \/ j = k
    BY <1>1
  <2>2. Rank(j, S) \in Int /\ Rank(k, S) \in Int
    BY <1>4, <1>3
  <2> QED
    BY <2>1, <2>2, <1>5
<1> QED
  BY <1>4, <1>5, <1>6

\* Every rank is some key's.
LEMMA RankOnto ==
    ASSUME NEW S \in SUBSET Keys, NEW i \in 1..Cardinality(S)
    PROVE  \E k \in S : Rank(k, S) = i
<1> DEFINE n == Cardinality(S)
           f == [k \in S |-> Rank(k, S)]
<1>1. IsFiniteSet(S) /\ n \in Nat
  BY KeySets
<1>2. IsFiniteSet(1..n) /\ Cardinality(1..n) = n
  BY <1>1, FS_Interval
<1>3. f \in Injection(S, 1..n)
  BY RankGrows DEF Injection, IsInjective
<1>4. f \in Surjection(S, 1..n)
  BY <1>2, <1>3, FS_Injection
<1> QED
  BY <1>4 DEF Surjection

\* Ordered lists the keys of a set in increasing order, each once.
LEMMA OrderedLists ==
    ASSUME NEW S \in SUBSET Keys
    PROVE  /\ Ordered(S) \in Seq(S)
           /\ Len(Ordered(S)) = Cardinality(S)
           /\ DOMAIN Ordered(S) = 1..Cardinality(S)
           /\ \A i \in 1..Cardinality(S) : Ordered(S)[i] \in S
           /\ \A i, j \in 1..Cardinality(S) : i < j => Ordered(S)[i] < Ordered(S)[j]
           /\ \A k \in S : \E i \in 1..Cardinality(S) : Ordered(S)[i] = k
<1> DEFINE n == Cardinality(S)
           o == Ordered(S)
<1>1. n \in Nat
  BY KeySets
<1>2. \A i \in 1..n : o[i] \in S /\ Rank(o[i], S) = i
  <2> TAKE i \in 1..n
  <2>1. o[i] = CHOOSE k \in S : Rank(k, S) = i
    BY DEF Ordered
  <2> QED
    BY <2>1, RankOnto
<1>3. o \in Seq(S) /\ Len(o) = n /\ DOMAIN o = 1..n
  <2>1. o = [i \in 1..n |-> o[i]] /\ DOMAIN o = 1..n
    BY DEF Ordered
  <2> QED
    BY <2>1, <1>1, <1>2
<1> HIDE DEF o
<1>4. \A i, j \in 1..n : i < j => o[i] < o[j]
  <2> SUFFICES ASSUME NEW i \in 1..n, NEW j \in 1..n, i < j, ~(o[i] < o[j])
               PROVE  FALSE
    OBVIOUS
  <2>1. o[i] \in S /\ o[j] \in S /\ o[i] \in Int /\ o[j] \in Int
    BY <1>2, RowVerifyAssumption
  <2>2. o[i] = o[j] \/ o[j] < o[i]
    BY <2>1
  <2>3. Rank(o[j], S) <= Rank(o[i], S)
    BY <2>1, <2>2, <1>2, RankGrows
  <2> QED
    BY <2>3, <1>2
<1>5. \A k \in S : \E i \in 1..n : o[i] = k
  <2> TAKE k \in S
  <2>1. Rank(k, S) \in 1..n
    BY RankGrows
  <2>2. o[Rank(k, S)] = k
    BY <2>1, <1>2, RankGrows
  <2> QED
    BY <2>1, <2>2
<1> QED
  BY <1>2, <1>3, <1>4, <1>5 DEF o

\* LIMIT: a page is a beginning of the keys, as long as it may be.
LEMMA FirstPageLimits ==
    ASSUME NEW S \in SUBSET Keys
    PROVE  /\ FirstPage(S) \in SUBSET S
           /\ Cardinality(FirstPage(S)) \in 0..RowBatchSize
           /\ Cardinality(FirstPage(S)) < RowBatchSize => FirstPage(S) = S
           /\ \A j \in FirstPage(S), k \in S \ FirstPage(S) : j < k
<1> DEFINE F == FirstPage(S)
           m == Cardinality(F)
<1>1. F \in SUBSET S /\ F \in SUBSET Keys
  BY DEF FirstPage
<1>2. m \in Nat /\ Cardinality(S) \in Nat /\ RowBatchSize \in Nat
  BY <1>1, KeySets, RowVerifyAssumption
<1>3. \A k \in S : k \in Int /\ Rank(k, S) \in Nat
  BY <1>2, RankGrows, RowVerifyAssumption
<1>4. \A k \in S : k \in F <=> Rank(k, S) <= RowBatchSize
  BY DEF FirstPage
<1> HIDE DEF F
<1>5. \A j \in F, k \in S \ F : j < k
  <2> SUFFICES ASSUME NEW j \in F, NEW k \in S \ F, ~(j < k)
               PROVE  FALSE
    OBVIOUS
  <2>1. j \in S /\ k \in S /\ j \in Int /\ k \in Int
    BY <1>1, <1>3
  <2>2. Rank(j, S) <= RowBatchSize /\ ~(Rank(k, S) <= RowBatchSize)
    BY <2>1, <1>4
  <2>3. k < j \/ k = j
    BY <2>1
  <2>4. Rank(k, S) <= Rank(j, S)
    BY <2>1, <2>3, <1>3, RankGrows
  <2> QED
    BY <2>1, <2>2, <2>4, <1>2, <1>3
<1>6. \A k \in F : Rank(k, F) = Rank(k, S)
  <2> TAKE k \in F
  <2>1. {j \in F : j <= k} = {j \in S : j <= k}
    <3>1. \A j \in S : j <= k => j \in F
      BY <1>1, <1>3, <1>5
    <3> QED
      BY <3>1, <1>1
  <2> QED
    BY <2>1 DEF Rank
<1>7. m <= RowBatchSize
  <2>1. CASE m = 0
    BY <2>1, <1>2
  <2>2. CASE m # 0
    <3>1. m \in 1..m
      BY <2>2, <1>2
    <3>2. PICK k \in F : Rank(k, F) = m
      BY <3>1, <1>1, RankOnto
    <3> QED
      BY <3>2, <1>1, <1>4, <1>6
  <2> QED
    BY <2>1, <2>2
<1>8. m < RowBatchSize => F = S
  <2> SUFFICES ASSUME m < RowBatchSize, NEW k \in S, k \notin F
               PROVE  FALSE
    BY <1>1
  <2>1. Rank(k, S) > RowBatchSize /\ Rank(k, S) <= Cardinality(S)
    BY <1>2, <1>3, <1>4, RankGrows
  <2>2. m + 1 \in 1..Cardinality(S)
    BY <2>1, <1>2, <1>3
  <2>3. PICK j \in S : Rank(j, S) = m + 1
    BY <2>2, RankOnto
  <2>4. j \in F
    BY <2>3, <1>2, <1>4
  <2>5. Rank(j, F) \in 1..m
    BY <2>4, <1>1, RankGrows
  <2> QED
    BY <2>3, <2>4, <2>5, <1>2, <1>6
<1> QED
  BY <1>1, <1>2, <1>5, <1>7, <1>8 DEF F

----------------------------------------------------------------------------
(* An iterator, as the record of its state.                                *)

Has(q, k) == \E i \in DOMAIN q : q[i].key = k

\* The last page is known to be the last: it was not full.
Short(c) == c.size < RowBatchSize \/ (c.fetch = "page" /\ Len(c.page) < RowBatchSize)
Beyond(c, k) == c.cursor = Absent \/ k > c.cursor

\* The keys the iterator may still deliver: what it holds, and what lies after
\* the cursor unless the last page was read.
Coming(c) == {k \in Keys : Has(c.cache, k) \/ Has(c.page, k) \/ (Beyond(c, k) /\ ~Short(c))}

Increasing(q) == \A i, j \in DOMAIN q : i < j => q[i].key < q[j].key
Within(q, c) == \A i \in DOMAIN q : /\ InShard(q[i].key)
                                    /\ c.cursor # Absent
                                    /\ q[i].key <= c.cursor

\* What the two goroutines of an iterator keep true.
IteratorOK(c) ==
    /\ Increasing(c.cache) /\ Increasing(c.page)
    /\ \A i \in DOMAIN c.cache, j \in DOMAIN c.page : c.cache[i].key < c.page[j].key
    /\ Within(c.cache, c) /\ Within(c.page, c)
    /\ c.cursor # Absent => InShard(c.cursor)
    /\ c.size < RowBatchSize => c.fetch = "none"
    /\ c.fetch # "page" => c.page = << >>
    /\ Len(c.page) <= RowBatchSize
    /\ c.err => c.fetch = "error"

\* Buffered rows of keys outside W are the rows of table t.
FreshIn(q, t, W) == \A i \in DOMAIN q : q[i].key \notin W => q[i].row = t[q[i].key]
Fresh(c, t, W) == FreshIn(c.cache, t, W) /\ FreshIn(c.page, t, W)

\* A new iterator may deliver every key.
LEMMA NewIterator ==
    ASSUME NEW s \in Sides
    PROVE  /\ NewScan \in Iterator(s)
           /\ IteratorOK(NewScan)
           /\ Coming(NewScan) = Keys
           /\ \A t, W : Fresh(NewScan, t, W)
<1>1. NewScan \in Iterator(s)
  BY RowVerifyAssumption DEF NewScan, Iterator
<1>2. IteratorOK(NewScan)
  BY RowVerifyAssumption DEF NewScan, IteratorOK, Increasing, Within
<1>3. Coming(NewScan) = Keys
  BY RowVerifyAssumption DEF NewScan, Coming, Beyond, Short
<1>4. \A t, W : Fresh(NewScan, t, W)
  BY DEF NewScan, Fresh, FreshIn
<1> QED
  BY <1>1, <1>2, <1>3, <1>4

\* The merge takes the smallest key that is coming, and nothing else.
LEMMA TakeHead ==
    ASSUME NEW s \in Sides, NEW c \in Iterator(s), IteratorOK(c), c.cache # << >>
    PROVE  LET d == [c EXCEPT !.cache = Tail(@)]
               h == Head(c.cache)
           IN  /\ d \in Iterator(s)
               /\ IteratorOK(d)
               /\ h \in Entry(s) /\ h = c.cache[1] /\ 1 \in DOMAIN c.cache
               /\ InShard(h.key)
               /\ h.key \in Coming(c)
               /\ Coming(d) = Coming(c) \ {h.key}
               /\ \A k \in Coming(c) : h.key <= k
               /\ \A t, W : Fresh(c, t, W) => Fresh(d, t, W)
<1> DEFINE d == [c EXCEPT !.cache = Tail(@)]
           h == Head(c.cache)
           q == c.cache
<1>1. q \in Seq(Entry(s)) /\ c.page \in Seq(Entry(s))
  BY DEF Iterator
<1>2. /\ Len(q) \in Nat /\ Len(q) > 0 /\ DOMAIN q = 1..Len(q)
      /\ Tail(q) \in Seq(Entry(s))
      /\ DOMAIN Tail(q) = 1..(Len(q) - 1)
      /\ \A i \in 1..(Len(q) - 1) : Tail(q)[i] = q[i + 1]
  BY <1>1
<1>3. /\ h = q[1] /\ h \in Entry(s) /\ 1 \in DOMAIN q
      /\ \A i \in DOMAIN q : q[i] \in Entry(s) /\ q[i].key \in Int /\ q[i].key \in Keys
      /\ \A i \in DOMAIN c.page : c.page[i].key \in Int
  <2>1. h = q[1] /\ 1 \in DOMAIN q
    BY <1>1, <1>2
  <2>2. \A e \in Entry(s) : e.key \in Keys /\ e.key \in Int
    BY RowVerifyAssumption DEF Entry
  <2>3. \A i \in DOMAIN q : q[i] \in Entry(s)
    BY <1>1
  <2>4. \A i \in DOMAIN c.page : c.page[i] \in Entry(s)
    BY <1>1
  <2> QED
    BY <2>1, <2>2, <2>3, <2>4
<1>4. /\ d.cache = Tail(q) /\ d.page = c.page /\ d.cursor = c.cursor /\ d.size = c.size
      /\ d.fetch = c.fetch /\ d.err = c.err
      /\ d \in Iterator(s)
  BY <1>2 DEF Iterator
<1>5. \A i \in DOMAIN d.cache : i + 1 \in DOMAIN q /\ d.cache[i] = q[i + 1] /\ i \in Int
  BY <1>2, <1>4
<1> HIDE DEF d, h, q
<1>6. IteratorOK(d)
  <2>1. Increasing(d.cache)
    BY <1>5 DEF Increasing, IteratorOK, q
  <2>2. Within(d.cache, d) /\ Within(d.page, d)
    BY <1>4, <1>5 DEF Within, IteratorOK, q
  <2>3. \A i \in DOMAIN d.cache, j \in DOMAIN d.page : d.cache[i].key < d.page[j].key
    BY <1>4, <1>5 DEF IteratorOK, q
  <2> QED
    BY <2>1, <2>2, <2>3, <1>4 DEF IteratorOK
<1>7. InShard(h.key)
  BY <1>3 DEF IteratorOK, Within, q
<1>8. h.key \in Coming(c)
  BY <1>3 DEF Coming, Has, q
<1>9. \A i \in DOMAIN q : i # 1 => h.key < q[i].key
  BY <1>2, <1>3 DEF IteratorOK, Increasing, q
<1>10. \A i \in DOMAIN c.page : h.key < c.page[i].key
  BY <1>3 DEF IteratorOK, q
<1>11. \A k \in Keys : Beyond(c, k) => h.key < k
  <2> SUFFICES ASSUME NEW k \in Keys, Beyond(c, k)
               PROVE  h.key < k
    OBVIOUS
  <2>1. c.cursor # Absent /\ h.key <= c.cursor
    BY <1>3 DEF IteratorOK, Within, q
  <2>2. c.cursor \in Int /\ k \in Int /\ h.key \in Int
    BY <2>1, <1>3, RowVerifyAssumption DEF Iterator
  <2> QED
    BY <2>1, <2>2 DEF Beyond
<1>12. \A k \in Coming(c) : k = h.key \/ h.key < k
  BY <1>3, <1>9, <1>10, <1>11 DEF Coming, Has, q
<1>13. \A k \in Coming(c) : h.key <= k
  BY <1>3, <1>12, RowVerifyAssumption DEF Coming
<1>14. \A k \in Keys : Has(d.cache, k) <=> (Has(q, k) /\ k # h.key)
  <2> TAKE k \in Keys
  <2>1. ASSUME Has(d.cache, k) PROVE Has(q, k) /\ k # h.key
    <3>1. PICK i \in DOMAIN d.cache : d.cache[i].key = k
      BY <2>1 DEF Has
    <3>2. i + 1 \in DOMAIN q /\ q[i + 1].key = k /\ i + 1 # 1
      BY <3>1, <1>2, <1>4, <1>5
    <3>3. h.key < k /\ h.key \in Int
      BY <3>2, <1>3, <1>9
    <3> QED
      BY <3>2, <3>3 DEF Has
  <2>2. ASSUME Has(q, k), k # h.key PROVE Has(d.cache, k)
    <3>1. PICK i \in DOMAIN q : q[i].key = k
      BY <2>2 DEF Has
    <3>2. i # 1
      BY <3>1, <2>2, <1>3
    <3>3. i - 1 \in DOMAIN d.cache /\ d.cache[i - 1] = q[i]
      BY <3>2, <1>2, <1>4
    <3> QED
      BY <3>1, <3>3 DEF Has
  <2> QED
    BY <2>1, <2>2
<1>15. \A k \in Keys : Has(c.page, k) \/ Beyond(c, k) => k # h.key
  BY <1>3, <1>10, <1>11 DEF Has
<1>16. (Short(d) <=> Short(c)) /\ \A k \in Keys : Beyond(d, k) <=> Beyond(c, k)
  BY <1>4 DEF Short, Beyond
<1>17. Coming(d) = Coming(c) \ {h.key}
  BY <1>4, <1>14, <1>15, <1>16 DEF Coming, q
<1>18. \A t, W : Fresh(c, t, W) => Fresh(d, t, W)
  BY <1>4, <1>5 DEF Fresh, FreshIn, q
<1> QED
  BY <1>3, <1>4, <1>6, <1>7, <1>8, <1>13, <1>17, <1>18 DEF d, h, q

\* An iterator with nothing in its cache and its last page read delivers no
\* more keys.
LEMMA ExhaustedEmpty ==
    ASSUME NEW s \in Sides, NEW c \in Iterator(s), IteratorOK(c),
           c.cache = << >>, c.size < RowBatchSize
    PROVE  Coming(c) = {} /\ c.fetch = "none"
<1>1. c.fetch = "none" /\ c.page = << >> /\ Short(c)
  BY DEF IteratorOK, Short
<1>2. \A k \in Keys : ~Has(c.cache, k) /\ ~Has(c.page, k)
  BY <1>1 DEF Has
<1> QED
  BY <1>1, <1>2 DEF Coming

\* Receiving a page neither loses nor adds a key.
LEMMA ReceivePage ==
    ASSUME NEW s \in Sides, NEW c \in Iterator(s), IteratorOK(c),
           c.cache = << >>, ~(c.size < RowBatchSize), ~c.err, c.fetch = "page"
    PROVE  LET d == [c EXCEPT !.cache = c.page, !.page = << >>, !.size = Len(c.page),
                        !.fetch = IF Len(c.page) = RowBatchSize THEN "asked" ELSE "none"]
           IN  /\ d \in Iterator(s)
               /\ IteratorOK(d)
               /\ Coming(d) = Coming(c)
               /\ d.err = c.err
               /\ \A t, W : Fresh(c, t, W) => Fresh(d, t, W)
<1> DEFINE d == [c EXCEPT !.cache = c.page, !.page = << >>, !.size = Len(c.page),
                    !.fetch = IF Len(c.page) = RowBatchSize THEN "asked" ELSE "none"]
<1>1. /\ c.page \in Seq(Entry(s)) /\ Len(c.page) \in 0..RowBatchSize
      /\ RowBatchSize \in Nat
  BY RowVerifyAssumption DEF Iterator, IteratorOK
<1>2. /\ d.cache = c.page /\ d.page = << >> /\ d.size = Len(c.page) /\ d.err = c.err
      /\ d.cursor = c.cursor
      /\ d.fetch = IF Len(c.page) = RowBatchSize THEN "asked" ELSE "none"
      /\ d \in Iterator(s)
  BY <1>1 DEF Iterator
<1> HIDE DEF d
<1>3. IteratorOK(d)
  <2>1. Increasing(d.cache) /\ Increasing(d.page) /\ Within(d.cache, d) /\ Within(d.page, d)
    BY <1>2 DEF IteratorOK, Increasing, Within
  <2> QED
    BY <2>1, <1>1, <1>2 DEF IteratorOK
<1>4. Short(d) <=> Short(c)
  BY <1>1, <1>2 DEF Short
<1>5. \A k : (Has(d.cache, k) \/ Has(d.page, k)) <=> (Has(c.cache, k) \/ Has(c.page, k))
  BY <1>2 DEF Has
<1>6. \A k : Beyond(d, k) <=> Beyond(c, k)
  BY <1>2 DEF Beyond
<1>7. Coming(d) = Coming(c)
  BY <1>4, <1>5, <1>6 DEF Coming
<1>8. \A t, W : Fresh(c, t, W) => Fresh(d, t, W)
  BY <1>2 DEF Fresh, FreshIn
<1> QED
  BY <1>2, <1>3, <1>7, <1>8 DEF d

\* Changing only whether a page is on its way, or failed, changes no key.
LEMMA FetchError ==
    ASSUME NEW s \in Sides, NEW c \in Iterator(s), IteratorOK(c), c.fetch = "asked"
    PROVE  LET d == [c EXCEPT !.fetch = "error"]
           IN  /\ d \in Iterator(s)
               /\ IteratorOK(d)
               /\ Coming(d) = Coming(c)
               /\ d.err = c.err
               /\ \A t, W : Fresh(c, t, W) => Fresh(d, t, W)
<1> DEFINE d == [c EXCEPT !.fetch = "error"]
<1>1. /\ d.cache = c.cache /\ d.page = c.page /\ d.size = c.size /\ d.err = c.err
      /\ d.cursor = c.cursor /\ d.fetch = "error"
      /\ d \in Iterator(s)
  BY DEF Iterator
<1> HIDE DEF d
<1>2. IteratorOK(d)
  BY <1>1 DEF IteratorOK, Increasing, Within
<1>3. Coming(d) = Coming(c)
  BY <1>1 DEF Coming, Has, Beyond, Short
<1>4. \A t, W : Fresh(c, t, W) => Fresh(d, t, W)
  BY <1>1 DEF Fresh, FreshIn
<1> QED
  BY <1>1, <1>2, <1>3, <1>4 DEF d

\* The error of a page ends the iterator with the rows it has.
LEMMA ReceiveError ==
    ASSUME NEW s \in Sides, NEW c \in Iterator(s), IteratorOK(c), c.fetch = "error"
    PROVE  LET d == [c EXCEPT !.err = TRUE]
           IN  /\ d \in Iterator(s)
               /\ IteratorOK(d)
               /\ Coming(d) = Coming(c)
               /\ d.err
               /\ \A t, W : Fresh(c, t, W) => Fresh(d, t, W)
<1> DEFINE d == [c EXCEPT !.err = TRUE]
<1>1. /\ d.cache = c.cache /\ d.page = c.page /\ d.size = c.size /\ d.fetch = c.fetch
      /\ d.cursor = c.cursor /\ d.err = TRUE
      /\ d \in Iterator(s)
  BY DEF Iterator
<1> HIDE DEF d
<1>2. IteratorOK(d)
  BY <1>1 DEF IteratorOK, Increasing, Within
<1>3. Coming(d) = Coming(c)
  BY <1>1 DEF Coming, Has, Beyond, Short
<1>4. \A t, W : Fresh(c, t, W) => Fresh(d, t, W)
  BY <1>1 DEF Fresh, FreshIn
<1> QED
  BY <1>1, <1>2, <1>3, <1>4 DEF d

\* What one query returns: the first keys after the cursor in order, with the
\* rows the table holds at that moment; a page that is not full is the last.
LEMMA PageReads ==
    ASSUME TypeOK, NEW s \in Sides
    PROVE  /\ Page(s) \in Seq(Entry(s))
           /\ Len(Page(s)) <= RowBatchSize
           /\ Increasing(Page(s))
           /\ \A i \in DOMAIN Page(s) : /\ Page(s)[i].key \in After(s)
                                        /\ Page(s)[i].row = db[s][Page(s)[i].key]
           /\ Len(Page(s)) < RowBatchSize => \A k \in After(s) : Has(Page(s), k)
           /\ \A k \in After(s) : ~Has(Page(s), k) =>
                 \A i \in DOMAIN Page(s) : Page(s)[i].key < k
<1> DEFINE S == After(s)
           F == FirstPage(S)
           o == Ordered(F)
           p == Page(s)
           n == Cardinality(F)
<1>1. S \in SUBSET Keys /\ \A k \in S : db[s][k] # Absent
  BY DEF After
<1>2. /\ F \in SUBSET S /\ n \in 0..RowBatchSize
      /\ n < RowBatchSize => F = S
      /\ \A j \in F, k \in S \ F : j < k
  BY <1>1, FirstPageLimits
<1>3. F \in SUBSET Keys /\ n \in Nat /\ RowBatchSize \in Nat
  BY <1>1, <1>2, RowVerifyAssumption
<1>4. /\ DOMAIN o = 1..n
      /\ \A i \in 1..n : o[i] \in F
      /\ \A i, j \in 1..n : i < j => o[i] < o[j]
      /\ \A k \in F : \E i \in 1..n : o[i] = k
  BY <1>3, OrderedLists
<1>5. p = [i \in 1..n |-> [key |-> o[i], row |-> db[s][o[i]]]]
  BY <1>4 DEF Page
<1>6. \A k \in S : db[s][k] \in Rows[s]
  BY <1>1 DEF TypeOK, Database, Row, Sides
<1> HIDE DEF o, n, F, S, p
<1>8. \A i \in 1..n : /\ p[i].key = o[i] /\ p[i].key \in F /\ p[i].key \in S
                      /\ p[i].row = db[s][p[i].key] /\ p[i] \in Entry(s)
  <2> TAKE i \in 1..n
  <2>1. p[i] = [key |-> o[i], row |-> db[s][o[i]]]
    BY <1>5
  <2>2. o[i] \in F /\ o[i] \in S /\ o[i] \in Keys /\ db[s][o[i]] \in Rows[s]
    BY <1>1, <1>2, <1>4, <1>6
  <2> QED
    BY <2>1, <2>2 DEF Entry
<1>9. p \in Seq(Entry(s)) /\ Len(p) = n /\ DOMAIN p = 1..n
  <2>1. p = [i \in 1..n |-> p[i]] /\ DOMAIN p = 1..n
    BY <1>5
  <2> QED
    BY <2>1, <1>3, <1>8
<1>10. Increasing(p)
  BY <1>4, <1>8, <1>9 DEF Increasing
<1>11. \A k \in F : Has(p, k)
  <2> TAKE k \in F
  <2>1. PICK i \in 1..n : o[i] = k
    BY <1>4
  <2> QED
    BY <2>1, <1>8, <1>9 DEF Has
<1>12. \A k \in S : ~Has(p, k) => \A i \in DOMAIN p : p[i].key < k
  BY <1>2, <1>8, <1>9, <1>11
<1> QED
  BY <1>2, <1>3, <1>8, <1>9, <1>10, <1>11, <1>12 DEF S, p

\* Reading a page loses no key of the shard that has a row.
LEMMA FetchesPage ==
    ASSUME TypeOK, NEW s \in Sides, IteratorOK(scan[s]), scan[s].fetch = "asked",
           NEW W, Fresh(scan[s], db[s], W)
    PROVE  LET c == scan[s]
               p == Page(s)
               d == [c EXCEPT !.fetch = "page", !.page = p,
                        !.cursor = IF p = << >> THEN @ ELSE p[Len(p)].key]
           IN  /\ d \in Iterator(s)
               /\ IteratorOK(d)
               /\ Coming(d) \subseteq Coming(c)
               /\ \A k \in Coming(c) : InShard(k) /\ db[s][k] # Absent => k \in Coming(d)
               /\ d.err = c.err
               /\ Fresh(d, db[s], W)
<1> DEFINE c == scan[s]
           p == Page(s)
           d == [c EXCEPT !.fetch = "page", !.page = p,
                    !.cursor = IF p = << >> THEN @ ELSE p[Len(p)].key]
<1>1. c \in Iterator(s)
  BY DEF TypeOK
<1>2. /\ p \in Seq(Entry(s))
      /\ Len(p) <= RowBatchSize
      /\ Increasing(p)
      /\ \A i \in DOMAIN p : p[i].key \in After(s) /\ p[i].row = db[s][p[i].key]
      /\ Len(p) < RowBatchSize => \A k \in After(s) : Has(p, k)
      /\ \A k \in After(s) : ~Has(p, k) => \A i \in DOMAIN p : p[i].key < k
  BY PageReads
<1>3. \A k \in After(s) : /\ k \in Keys /\ k \in Int /\ InShard(k) /\ Beyond(c, k)
                          /\ db[s][k] # Absent
  <2> TAKE k \in After(s)
  <2>1. k \in Int /\ Start \in Int /\ End \in Int /\ k \in Keys
    BY RowVerifyAssumption DEF After
  <2>2. c.cursor # Absent => c.cursor \in Int /\ Start <= c.cursor
    BY <1>1, RowVerifyAssumption DEF IteratorOK, InShard, Iterator
  <2> QED
    BY <2>1, <2>2 DEF After, InShard, Beyond
<1>4. \A k \in Keys : InShard(k) /\ Beyond(c, k) /\ db[s][k] # Absent => k \in After(s)
  BY DEF After, InShard, Beyond
<1> HIDE DEF p, c
<1>5. /\ Len(p) \in Nat /\ DOMAIN p = 1..Len(p) /\ RowBatchSize \in Nat
      /\ RowBatchSize > 0
      /\ p # << >> => Len(p) \in DOMAIN p
      /\ p = << >> => Len(p) = 0
      /\ \A i \in DOMAIN p : p[i] \in Entry(s)
  BY <1>2, RowVerifyAssumption
<1>6. p # << >> => p[Len(p)].key \in Keys /\ p[Len(p)].key \in After(s)
  BY <1>2, <1>3, <1>5
<1>7. /\ d.cache = c.cache /\ d.page = p /\ d.size = c.size /\ d.err = c.err
      /\ d.fetch = "page"
      /\ d.cursor = IF p = << >> THEN c.cursor ELSE p[Len(p)].key
      /\ d \in Iterator(s)
  BY <1>1, <1>2, <1>6 DEF Iterator
<1> HIDE DEF d
<1>8. /\ c.cache \in Seq(Entry(s))
      /\ c.page = << >> /\ ~(c.size < RowBatchSize) /\ ~c.err
  BY <1>1 DEF Iterator, IteratorOK, c
<1>9. /\ \A i \in DOMAIN c.cache : c.cache[i].key \in Int
      /\ \A i \in DOMAIN p : p[i].key \in Int
  <2>1. \A e \in Entry(s) : e.key \in Int
    BY RowVerifyAssumption DEF Entry
  <2>2. \A i \in DOMAIN c.cache : c.cache[i] \in Entry(s)
    BY <1>8
  <2> QED
    BY <2>1, <2>2, <1>5
<1>10. \A i \in DOMAIN p : p[i].key <= p[Len(p)].key
  <2> TAKE i \in DOMAIN p
  <2>1. i = Len(p) \/ (i < Len(p) /\ Len(p) \in DOMAIN p)
    BY <1>5
  <2> QED
    BY <2>1, <1>2, <1>9 DEF Increasing
<1>11. \A i \in DOMAIN c.cache : c.cursor # Absent /\ c.cursor \in Int
                                 /\ c.cache[i].key <= c.cursor /\ InShard(c.cache[i].key)
  BY <1>1, RowVerifyAssumption DEF IteratorOK, Within, Iterator, c
<1>12. \A i \in DOMAIN c.cache, j \in DOMAIN p : c.cache[i].key < p[j].key
  <2> TAKE i \in DOMAIN c.cache, j \in DOMAIN p
  <2>1. p[j].key > c.cursor /\ c.cursor \in Int /\ c.cache[i].key <= c.cursor
    BY <1>2, <1>3, <1>11 DEF Beyond
  <2> QED
    BY <2>1, <1>9
<1>13. p # << >> => d.cursor # Absent /\ d.cursor \in Keys /\ d.cursor = p[Len(p)].key
                    /\ InShard(d.cursor)
  BY <1>3, <1>6, <1>7, RowVerifyAssumption
<1>14. IteratorOK(d)
  <2>1. Increasing(d.cache) /\ Increasing(d.page)
    BY <1>2, <1>7 DEF IteratorOK, c
  <2>2. Within(d.page, d)
    <3> SUFFICES ASSUME NEW i \in DOMAIN p
                 PROVE  InShard(p[i].key) /\ d.cursor # Absent /\ p[i].key <= d.cursor
      BY <1>7 DEF Within
    <3>1. p # << >>
      BY <1>5
    <3> QED
      BY <3>1, <1>2, <1>3, <1>10, <1>13
  <2>3. Within(d.cache, d)
    <3> SUFFICES ASSUME NEW i \in DOMAIN c.cache
                 PROVE  /\ InShard(c.cache[i].key) /\ d.cursor # Absent
                        /\ c.cache[i].key <= d.cursor
      BY <1>7 DEF Within
    <3>1. CASE p = << >>
      BY <3>1, <1>7, <1>11
    <3>2. CASE p # << >>
      BY <3>2, <1>5, <1>9, <1>11, <1>12, <1>13
    <3> QED
      BY <3>1, <3>2
  <2>4. d.cursor # Absent => InShard(d.cursor)
    BY <1>7, <1>13 DEF IteratorOK, c
  <2> QED
    BY <2>1, <2>2, <2>3, <2>4, <1>2, <1>7, <1>8, <1>12 DEF IteratorOK
<1>15. \A k \in Keys : Has(d.page, k) \/ Beyond(d, k) => Beyond(c, k)
  <2> SUFFICES ASSUME NEW k \in Keys, Has(p, k) \/ Beyond(d, k)
               PROVE  Beyond(c, k)
    BY <1>7
  <2>1. CASE Has(p, k)
    BY <2>1, <1>2, <1>3 DEF Has
  <2>2. CASE p = << >> /\ Beyond(d, k)
    BY <2>2, <1>7 DEF Beyond
  <2>3. CASE p # << >> /\ Beyond(d, k)
    <3>1. k \in Int /\ d.cursor \in Int /\ k > d.cursor /\ Beyond(c, d.cursor)
      BY <2>3, <1>3, <1>6, <1>13, RowVerifyAssumption DEF Beyond
    <3>2. c.cursor = Absent \/ c.cursor \in Int
      BY <1>1, RowVerifyAssumption DEF Iterator
    <3> QED
      BY <3>1, <3>2 DEF Beyond
  <2>4. Has(p, k) \/ (p = << >> /\ Beyond(d, k)) \/ (p # << >> /\ Beyond(d, k))
    OBVIOUS
  <2> QED
    BY <2>1, <2>2, <2>3, <2>4
<1>16. ~Short(c)
  BY <1>8 DEF Short, c
<1>17. Coming(d) \subseteq Coming(c)
  BY <1>7, <1>15, <1>16 DEF Coming
<1>18. \A k \in Coming(c) : InShard(k) /\ db[s][k] # Absent => k \in Coming(d)
  <2> SUFFICES ASSUME NEW k \in Coming(c), InShard(k), db[s][k] # Absent
               PROVE  k \in Coming(d)
    OBVIOUS
  <2>1. k \in Keys /\ k \in Int /\ (Has(c.cache, k) \/ Beyond(c, k))
    BY <1>8, RowVerifyAssumption DEF Coming, Has
  <2>2. CASE Has(c.cache, k)
    BY <2>1, <2>2, <1>7 DEF Coming
  <2>3. CASE Beyond(c, k)
    <3>1. k \in After(s)
      BY <2>1, <2>3, <1>4
    <3>2. CASE Has(p, k)
      BY <2>1, <3>2, <1>7 DEF Coming
    <3>3. CASE ~Has(p, k)
      <4>1. ~(Len(p) < RowBatchSize) /\ p # << >>
        BY <3>1, <3>3, <1>2, <1>5
      <4>2. ~Short(d)
        BY <4>1, <1>7, <1>8 DEF Short
      <4>3. d.cursor < k
        BY <4>1, <3>1, <3>3, <1>2, <1>5, <1>13
      <4>4. Beyond(d, k)
        BY <4>3 DEF Beyond
      <4> QED
        BY <4>2, <4>4, <2>1 DEF Coming
    <3> QED
      BY <3>2, <3>3
  <2> QED
    BY <2>1, <2>2, <2>3
<1>19. Fresh(d, db[s], W)
  BY <1>2, <1>7 DEF Fresh, FreshIn, c
<1> QED
  BY <1>7, <1>14, <1>17, <1>18, <1>19 DEF c, d, p
============================================================================
