-------------------------- MODULE RowVerifyProofs --------------------------
(***************************************************************************)
(* Proofs about RowVerify for every shard, every pair of tables, every     *)
(* page size, batch size and number of retries, and any number of writes   *)
(* and faults meanwhile.                                                   *)
(***************************************************************************)
EXTENDS RowScanProofs

----------------------------------------------------------------------------
(* The inductive invariant.                                                *)

\* The keys each scan may still deliver.
T == Coming(scan["truth"])
G == Coming(scan["target"])
GErr == scan["target"].err

\* A row of the truth was taken, and the merge is past key k: the row of k, if
\* the truth had one, was taken and is not the one being compared.
Taken == main.row.row # Absent
Passed(k) == Taken /\ k <= main.row.key /\ ~(main.pc = "target" /\ k = main.row.key)
Late == main.pc \in {"drain", "flush", "complete", "wait", "finished"}

DecidedKeys == {k \in Keys : verdicts[k] # << >>}
Queued == UNION {it.keys : it \in queue}

\* The keys the listener was told of: decided, or waiting to be looked up again.
Handled == DecidedKeys \cup pending \cup Queued \cup Looking

\* The iterators are in order, and hold the rows the tables still have.
ScanInv == \A s \in Sides : IteratorOK(scan[s]) /\ Fresh(scan[s], db[s], touched)

\* The current row precedes what the truth still delivers.
RowInv ==
    /\ main.pc = "target" => Taken
    /\ Taken => /\ main.row.key \in Keys /\ InShard(main.row.key)
                /\ \A k \in T : main.row.key < k
                /\ main.row.key \notin touched => main.row.row = db["truth"][main.row.key]

\* What each phase of the merge and of the reverifier has behind it.
PhaseInv ==
    /\ Late => Exhausted("truth")
    /\ main.pc \in {"flush", "complete", "wait", "finished"} => Over("target")
    /\ main.pc \in {"complete", "wait", "finished"} => pending = {}
    /\ main.pc = "finished" => queue = {} /\ rv.pc \in {"select", "done"}
    /\ rv.scanDone => main.pc \in {"wait", "finished"}
    /\ rv.pc = "done" => queue = {} /\ rv.scanDone
    /\ ~live => /\ pending = {} /\ queue = {} /\ rv.pc = "select" /\ ~rv.scanDone
                /\ main.pc \notin {"flush", "complete", "wait"}

\* A row nobody wrote is still coming, or the merge took it.
TruthCover ==
    \A k \in Keys \ touched : InShard(k) /\ db["truth"][k] # Absent =>
        k \in T \/ (Taken /\ k <= main.row.key)
TargetCover ==
    \A k \in Keys \ touched : InShard(k) /\ db["target"][k] # Absent =>
        k \in G \/ Passed(k) \/ Late

\* A key is in one place: decided, pending, in one item, or looked up.
PlaceInv ==
    /\ \A k \in Keys : Len(verdicts[k]) <= 1
    /\ \A k \in pending : k \notin DecidedKeys /\ k \notin Looking
    /\ \A k \in Looking : k \notin DecidedKeys
    /\ \A it \in queue : \A k \in it.keys :
          k \notin DecidedKeys /\ k \notin pending /\ k \notin Looking
    /\ \A it, jt \in queue : it # jt => it.keys \cap jt.keys = {}
    /\ rv.pc \in {"truth", "target"} => rv.item \in Item

\* A key the listener was told of is behind the merge, and is not told again.
HandledInv ==
    \A k \in Handled :
        /\ InShard(k)
        /\ main.pc = "target" => k < main.row.key
        /\ main.pc = "truth" => Taken /\ k <= main.row.key
        /\ ~GErr => \A g \in G : k < g

\* The merge told the listener of every row of the truth it passed, and of
\* every row only the target has that is no longer coming.
TruthTold ==
    \A k \in Keys \ touched :
        InShard(k) /\ db["truth"][k] # Absent /\ Passed(k) /\ ~GErr =>
            /\ \A g \in G : k < g
            /\ k \notin unsure => k \in Handled
TargetTold ==
    \A k \in Keys \ (touched \cup unsure) :
        /\ InShard(k) /\ db["target"][k] # Absent /\ db["truth"][k] = Absent
        /\ k \notin G /\ ~GErr
        => k \in Handled

\* The rows of a lookup are the rows the truth still has.
LookupFresh ==
    rv.pc = "target" =>
        \A k \in rv.item.keys \ (touched \cup unsure) : rv.rows[k] = db["truth"][k]

\* An item in its i-th round was looked up i - 1 times.
RetryInv ==
    /\ \A it \in queue : \A k \in it.keys : lookups[k] >= it.iter - 1
    /\ \A k \in Looking : lookups[k] >= rv.item.iter - 1
    /\ FindingsAreRetried

\* The rows of the truth that were taken, as long as nobody writes.
Scanned == {k \in Keys : InShard(k) /\ db["truth"][k] # Absent /\ k \notin T}
CountInv ==
    /\ main.pc # "finished" => (main.verified <= ProgressEvery => main.checked = 0)
    /\ main.pc = "finished" =>
          /\ main.verified <= ProgressEvery => main.checked = main.verified
          /\ main.checked >= main.verified
    /\ touched = {} => main.verified = Cardinality(Scanned)

\* A column is seen only after the shard was reported.
Reported == \E k \in Keys : \E i \in DOMAIN verdicts[k] :
                verdicts[k][i] \in {"column", "mismatch"}
SeenInv == (~live /\ main.seen # {} => Reported) /\ QuietIsNotClean

IInv ==
    /\ TypeOK /\ ScanInv /\ RowInv /\ PhaseInv /\ TruthCover /\ TargetCover /\ PlaceInv
    /\ HandledInv /\ TruthTold /\ TargetTold /\ NoFalseVerdict /\ LookupFresh
    /\ RetryInv /\ CountInv /\ SeenInv

----------------------------------------------------------------------------
(* Lemmas about the operators.                                             *)

\* A verdict on two rows of which one is there is a verdict, and the columns
\* met before change at most whether it is reported.
LEMMA Classified ==
    ASSUME NEW r, NEW q, NEW seen
    PROVE  /\ Classify(r, q, seen) = "none" <=> (r = Absent /\ q = Absent)
           /\ Classify(r, q, seen) \in Verdicts \cup {"none"}
           /\ SameClass(Classify(r, q, seen), Classify(r, q, {}))
           /\ Classify(r, q, seen) = "column_quiet" => seen # {}
BY DEF Classify, CompareRows, Verdicts, Findings, SameClass

\* Columns that cannot be compared are reported, unless one was met before.
LEMMA SeenReported ==
    ASSUME NEW r, NEW q, NEW seen, SeenAfter(r, q, seen) # seen
    PROVE  /\ r # Absent /\ q # Absent
           /\ Classify(r, q, seen) \in {"column", "mismatch"} \/ seen # {}
<1>1. r # Absent /\ q # Absent /\ ErrColumns(r, q) # {}
  BY DEF SeenAfter
<1> QED
  BY <1>1 DEF Classify, CompareRows

\* The columns already reported stay columns of the table.
LEMMA SeenType ==
    ASSUME NEW r \in Row("truth"), NEW q, NEW seen \in SUBSET Columns
    PROVE  SeenAfter(r, q, seen) \in SUBSET Columns
<1>1. CASE Absent \in {r, q}
  BY <1>1 DEF SeenAfter
<1>2. CASE Absent \notin {r, q}
  <2>1. r \in Rows["truth"]
    BY <1>2 DEF Row
  <2>2. ErrColumns(r, q) \subseteq DOMAIN r
    BY DEF ErrColumns
  <2> QED
    BY <2>1, <2>2, <1>2 DEF SeenAfter, Columns
<1> QED
  BY <1>1, <1>2

\* The rows counted until a progress summary is due.
LEMMA FirstSummary ==
    ASSUME NEW v \in Nat, v < ProgressEvery
    PROVE  v % ProgressEvery = v
<1>1. ProgressEvery \in Nat \ {0}
  BY RowVerifyAssumption
<1> QED
  BY <1>1

\* The fields of main, and what its updates keep.
LEMMA MainFields ==
    ASSUME TypeOK
    PROVE  /\ main.pc \in {"truth", "target", "drain", "flush", "complete", "wait",
                           "finished", "failed"}
           /\ main.row.key \in Int /\ main.row.row \in Row("truth")
           /\ main.seen \in SUBSET Columns
           /\ main.verified \in Nat /\ main.checked \in Nat
BY RowVerifyAssumption DEF TypeOK, MergeState

\* The fields of main after a row was scanned.
LEMMA RowScanned ==
    ASSUME TypeOK, NEW h \in Entry("truth"),
           main' = [OnRowScan(main) EXCEPT !.pc = "target", !.row = h]
    PROVE  /\ main'.pc = "target" /\ main'.row = h /\ main'.seen = main.seen
           /\ main'.verified = main.verified + 1
           /\ main.verified + 1 <= ProgressEvery => main'.checked = main.checked
           /\ main' \in MergeState
<1>1. main \in MergeState /\ ProgressEvery \in Nat \ {0}
  BY RowVerifyAssumption DEF TypeOK
<1>2. main.verified \in Nat /\ main.checked \in Nat
  BY <1>1 DEF MergeState
<1> DEFINE c == IF main.verified % ProgressEvery = 0 THEN main.checked + main.verified
                ELSE main.checked
<1>3. h \in [key : Keys \cup {Start}, row : Row("truth")]
  BY DEF Entry, Row
<1>4. main' = [pc |-> "target", row |-> h, seen |-> main.seen,
               verified |-> main.verified + 1, checked |-> c]
  BY <1>1 DEF OnRowScan, MergeState
<1>5. c \in Nat
  BY <1>2
<1>6. main.verified + 1 <= ProgressEvery => c = main.checked
  <2> SUFFICES ASSUME main.verified < ProgressEvery
               PROVE  c = main.checked
    BY <1>1, <1>2
  <2>1. main.verified % ProgressEvery = main.verified
    BY <1>2, FirstSummary
  <2> QED
    BY <2>1, <1>2
<1>7. main.seen \in SUBSET Columns /\ main.verified + 1 \in Nat
  BY <1>1, <1>2 DEF MergeState
<1> HIDE DEF c
<1>8. main' \in MergeState
  <2>1. "target" \in {"truth", "target", "drain", "flush", "complete", "wait", "finished",
                      "failed"}
    OBVIOUS
  <2> QED
    BY <2>1, <1>3, <1>4, <1>5, <1>7 DEF MergeState
<1>9. /\ main'.pc = "target" /\ main'.row = h /\ main'.seen = main.seen
      /\ main'.verified = main.verified + 1 /\ main'.checked = c
  BY ONLY <1>4
<1> QED
  BY <1>6, <1>8, <1>9

\* Moving on changes nothing else of main.
LEMMA MovedOn ==
    ASSUME TypeOK,
           NEW p \in {"truth", "target", "drain", "flush", "complete", "wait", "failed"},
           Goto(p)
    PROVE  /\ main'.pc = p /\ main'.row = main.row /\ main'.seen = main.seen
           /\ main'.verified = main.verified /\ main'.checked = main.checked
           /\ main' \in MergeState
BY DEF TypeOK, Goto, MergeState

\* What the last summary of the merge leaves behind.
LEMMA HasFinished ==
    ASSUME TypeOK, Finish
    PROVE  /\ main'.pc = "finished" /\ main'.row = main.row /\ main'.seen = main.seen
           /\ main'.verified = main.verified
           /\ main'.checked = main.checked + main.verified
           /\ main' \in MergeState
<1>1. main \in MergeState
  BY DEF TypeOK
<1>2. main' = [pc |-> "finished", row |-> main.row, seen |-> main.seen,
               verified |-> main.verified, checked |-> main.checked + main.verified]
  BY <1>1 DEF Finish, MergeState
<1>3. main.checked + main.verified \in Nat
  BY <1>1 DEF MergeState
<1>4. main' \in MergeState
  BY <1>1, <1>2, <1>3 DEF MergeState
<1> QED
  BY <1>2, <1>4

\* A row of side s is taken: the smallest key that was coming from it.
LEMMA RowTaken ==
    ASSUME TypeOK, ScanInv, NEW s \in Sides, NEW o \in Sides, s # o,
           Ready(s), scan' = Took(s), UNCHANGED <<db, touched>>
    PROVE  /\ scan' \in [Sides -> Iterator("truth") \cup Iterator("target")]
           /\ \A x \in Sides : scan'[x] \in Iterator(x)
           /\ ScanInv'
           /\ scan'[o] = scan[o] /\ scan'[s].err = scan[s].err
           /\ Peek(s) \in Entry(s) /\ Peek(s).key \in Keys /\ Peek(s).row # Absent
           /\ InShard(Peek(s).key)
           /\ Peek(s).key \in Coming(scan[s])
           /\ Coming(scan'[s]) = Coming(scan[s]) \ {Peek(s).key}
           /\ \A k \in Coming(scan[s]) : Peek(s).key <= k
           /\ Peek(s).key \notin touched => Peek(s).row = db[s][Peek(s).key]
<1> DEFINE c == scan[s]
           d == [c EXCEPT !.cache = Tail(@)]
           h == Head(c.cache)
<1>1. c \in Iterator(s) /\ IteratorOK(c) /\ c.cache # << >> /\ Fresh(c, db[s], touched)
  BY DEF TypeOK, ScanInv, Ready
<1>2. /\ d \in Iterator(s)
      /\ IteratorOK(d)
      /\ h \in Entry(s) /\ h = c.cache[1] /\ 1 \in DOMAIN c.cache
      /\ InShard(h.key)
      /\ h.key \in Coming(c)
      /\ Coming(d) = Coming(c) \ {h.key}
      /\ \A k \in Coming(c) : h.key <= k
      /\ Fresh(d, db[s], touched)
  BY <1>1, TakeHead
<1>3. scan' = [scan EXCEPT ![s] = d]
  BY DEF Took
<1>4. d.err = c.err
  BY <1>1 DEF Iterator
<1>5. h.key \notin touched => h.row = db[s][h.key]
  BY <1>1, <1>2 DEF Fresh, FreshIn
<1>6. h = Peek(s)
  BY DEF Peek
<1> HIDE DEF d, c, h
<1>7. scan'[s] = d /\ scan'[o] = scan[o] /\ \A x \in Sides : x = s \/ x = o
  BY <1>3 DEF TypeOK, Sides
<1>8. /\ scan' \in [Sides -> Iterator("truth") \cup Iterator("target")]
      /\ \A x \in Sides : scan'[x] \in Iterator(x)
  BY <1>2, <1>3, <1>7 DEF TypeOK, Sides
<1>9. ScanInv'
  BY <1>2, <1>7 DEF ScanInv
<1>10. h.key \in Keys /\ h.row # Absent
  BY <1>2, RowVerifyAssumption DEF Entry
<1> QED
  BY <1>2, <1>4, <1>5, <1>6, <1>7, <1>8, <1>9, <1>10 DEF c

\* Reading and receiving pages loses no row of the shard.
LEMMA PagesMove ==
    ASSUME TypeOK, ScanInv, NEW s \in Sides, FetchPage(s) \/ FetchFails(s) \/ Receive(s)
    PROVE  /\ scan' \in [Sides -> Iterator("truth") \cup Iterator("target")]
           /\ \A x \in Sides : scan'[x] \in Iterator(x)
           /\ ScanInv'
           /\ \A x \in Sides :
                 /\ Coming(scan'[x]) \subseteq Coming(scan[x])
                 /\ \A k \in Coming(scan[x]) :
                       InShard(k) /\ db[x][k] # Absent => k \in Coming(scan'[x])
                 /\ scan[x].err => scan'[x].err
                 /\ Exhausted(x) => scan'[x] = scan[x]
                 /\ Over(x) => Over(x)'
           /\ faults' \in 0..MaxFaults
           /\ UNCHANGED <<db, touched, Rest>>
<1> DEFINE c == scan[s]
           d == scan'[s]
<1>1. c \in Iterator(s) /\ IteratorOK(c) /\ Fresh(c, db[s], touched)
  BY DEF TypeOK, ScanInv
<1>2. UNCHANGED <<db, touched, Rest>> /\ faults' \in 0..MaxFaults
  BY RowVerifyAssumption DEF FetchPage, FetchFails, Receive, TypeOK
<1> DEFINE Moved == /\ d \in Iterator(s) /\ IteratorOK(d) /\ Fresh(d, db[s], touched)
                    /\ Coming(d) \subseteq Coming(c)
                    /\ \A k \in Coming(c) : InShard(k) /\ db[s][k] # Absent => k \in Coming(d)
                    /\ ~c.err /\ ~(c.cache = << >> /\ c.size < RowBatchSize)
                    /\ scan' = [scan EXCEPT ![s] = d]
<1>3. ASSUME FetchPage(s) PROVE Moved
  <2> DEFINE p == Page(s)
             e == [c EXCEPT !.fetch = "page", !.page = p,
                      !.cursor = IF p = << >> THEN @ ELSE p[Len(p)].key]
  <2>1. scan' = [scan EXCEPT ![s] = e] /\ c.fetch = "asked"
    BY <1>3 DEF FetchPage
  <2>2. /\ e \in Iterator(s)
        /\ IteratorOK(e)
        /\ Coming(e) \subseteq Coming(c)
        /\ \A k \in Coming(c) : InShard(k) /\ db[s][k] # Absent => k \in Coming(e)
        /\ Fresh(e, db[s], touched)
    BY <1>1, <2>1, FetchesPage
  <2>3. ~c.err /\ ~(c.size < RowBatchSize)
    BY <1>1, <2>1 DEF IteratorOK
  <2> HIDE DEF e, p
  <2>4. d = e
    BY <2>1 DEF TypeOK
  <2> QED
    BY <2>1, <2>2, <2>3, <2>4
<1>4. ASSUME FetchFails(s) PROVE Moved
  <2> DEFINE e == [c EXCEPT !.fetch = "error"]
  <2>1. scan' = [scan EXCEPT ![s] = e] /\ c.fetch = "asked"
    BY <1>4 DEF FetchFails
  <2>2. e \in Iterator(s) /\ IteratorOK(e) /\ Coming(e) = Coming(c) /\ Fresh(e, db[s], touched)
    BY <1>1, <2>1, FetchError
  <2>3. ~c.err /\ ~(c.size < RowBatchSize)
    BY <1>1, <2>1 DEF IteratorOK
  <2> HIDE DEF e
  <2>4. d = e
    BY <2>1 DEF TypeOK
  <2> QED
    BY <2>1, <2>2, <2>3, <2>4
<1>5. ASSUME Receive(s) PROVE Moved
  <2>1. ~c.err /\ c.cache = << >> /\ ~(c.size < RowBatchSize)
    BY <1>5 DEF Receive, Over, Ready, Exhausted
  <2>2. CASE c.fetch = "page"
    <3> DEFINE e == [c EXCEPT !.cache = c.page, !.page = << >>, !.size = Len(c.page),
                        !.fetch = IF Len(c.page) = RowBatchSize THEN "asked" ELSE "none"]
    <3>1. scan' = [scan EXCEPT ![s] = e]
      BY <1>5, <2>2 DEF Receive
    <3>2. e \in Iterator(s) /\ IteratorOK(e) /\ Coming(e) = Coming(c) /\ Fresh(e, db[s], touched)
      BY <1>1, <2>1, <2>2, ReceivePage
    <3> HIDE DEF e
    <3>3. d = e
      BY <3>1 DEF TypeOK
    <3> QED
      BY <2>1, <3>1, <3>2, <3>3
  <2>3. CASE c.fetch = "error"
    <3> DEFINE e == [c EXCEPT !.err = TRUE]
    <3>1. scan' = [scan EXCEPT ![s] = e]
      BY <1>5, <2>3 DEF Receive
    <3>2. e \in Iterator(s) /\ IteratorOK(e) /\ Coming(e) = Coming(c) /\ Fresh(e, db[s], touched)
      BY <1>1, <2>3, ReceiveError
    <3> HIDE DEF e
    <3>3. d = e
      BY <3>1 DEF TypeOK
    <3> QED
      BY <2>1, <3>1, <3>2, <3>3
  <2> QED
    BY <1>5, <2>2, <2>3 DEF Receive
<1>6. Moved
  BY <1>3, <1>4, <1>5
<1>7. \A x \in Sides : x # s => scan'[x] = scan[x]
  BY <1>6 DEF TypeOK
<1>8. ~Over(s)
  BY <1>6 DEF Over, Exhausted
<1> HIDE DEF c, d
<1>9. /\ scan' \in [Sides -> Iterator("truth") \cup Iterator("target")]
      /\ \A x \in Sides : scan'[x] \in Iterator(x)
  BY <1>6, <1>7 DEF TypeOK, Sides, d
<1>10. ScanInv'
  BY <1>2, <1>6, <1>7 DEF ScanInv, d
<1>11. \A x \in Sides :
          /\ Coming(scan'[x]) \subseteq Coming(scan[x])
          /\ \A k \in Coming(scan[x]) :
                InShard(k) /\ db[x][k] # Absent => k \in Coming(scan'[x])
          /\ scan[x].err => scan'[x].err
          /\ Exhausted(x) => scan'[x] = scan[x]
          /\ Over(x) => Over(x)'
  <2> TAKE x \in Sides
  <2>1. CASE x = s
    BY <2>1, <1>6, <1>8 DEF Over, c, d
  <2>2. CASE x # s
    BY <2>2, <1>7 DEF Over, Exhausted
  <2> QED
    BY <2>1, <2>2
<1> QED
  BY <1>2, <1>9, <1>10, <1>11

\* The listener is told of a key it was not told of: the key gets its verdict,
\* or is pending, and nothing else changes hands.
LEMMA Told ==
    ASSUME TypeOK, PlaceInv, NEW k \in Keys, k \notin Handled, NEW r, NEW q,
           ~(r = Absent /\ q = Absent), Tell(k, r, q), UNCHANGED <<queue, rv, live>>
    PROVE  LET v == Classify(r, q, main.seen)
           IN  /\ pending' \subseteq Keys /\ verdicts' \in [Keys -> Seq(Verdicts)]
               /\ PlaceInv'
               /\ Handled' = Handled \cup {k}
               /\ \A j \in Keys : j # k => verdicts'[j] = verdicts[j]
               /\ verdicts[k] = << >>
               /\ \/ verdicts'[k] = <<v>> /\ pending' = pending /\ ~(live /\ v \in Findings)
                  \/ verdicts'[k] = << >> /\ pending' = pending \cup {k} /\ live
<1> DEFINE v == Classify(r, q, main.seen)
<1>1. v \in Verdicts
  BY Classified
<1> HIDE DEF v
<1>2. /\ verdicts \in [Keys -> Seq(Verdicts)] /\ pending \subseteq Keys
      /\ k \notin DecidedKeys /\ k \notin pending /\ k \notin Looking
      /\ \A it \in queue : k \notin it.keys
  BY DEF TypeOK, Handled, Queued
<1>3. verdicts[k] = << >>
  BY <1>2 DEF DecidedKeys
<1>4. Looking' = Looking /\ Queued' = Queued
  BY DEF Looking, Queued
<1>5. CASE live /\ v \in Findings
  <2>1. pending' = pending \cup {k} /\ verdicts' = verdicts
    BY <1>5 DEF Tell, v
  <2>2. DecidedKeys' = DecidedKeys
    BY <2>1 DEF DecidedKeys
  <2>3. PlaceInv'
    BY <1>2, <1>4, <2>1, <2>2 DEF PlaceInv
  <2>4. Handled' = Handled \cup {k}
    BY <1>4, <2>1, <2>2 DEF Handled
  <2> QED
    BY <1>2, <1>3, <1>5, <2>1, <2>3, <2>4 DEF v
<1>6. CASE ~(live /\ v \in Findings)
  <2>1. pending' = pending /\ verdicts' = [verdicts EXCEPT ![k] = Append(verdicts[k], v)]
    BY <1>6 DEF Tell, v
  <2>2. verdicts'[k] = <<v>> /\ \A j \in Keys : j # k => verdicts'[j] = verdicts[j]
    BY <1>2, <1>3, <2>1
  <2>3. verdicts' \in [Keys -> Seq(Verdicts)]
    BY <1>1, <1>2, <2>1
  <2>4. DecidedKeys' = DecidedKeys \cup {k}
    BY <2>2 DEF DecidedKeys
  <2>5. \A j \in Keys : Len(verdicts'[j]) <= 1
    <3>1. Len(<<v>>) = 1
      OBVIOUS
    <3>2. \A j \in Keys : Len(verdicts[j]) <= 1
      BY DEF PlaceInv
    <3> TAKE j \in Keys
    <3>3. CASE j = k
      BY <3>1, <3>3, <2>2
    <3>4. CASE j # k
      BY <3>2, <3>4, <2>2
    <3> QED
      BY <3>3, <3>4
  <2>6. PlaceInv'
    BY <1>2, <1>4, <2>1, <2>4, <2>5 DEF PlaceInv
  <2>7. Handled' = Handled \cup {k}
    BY <1>4, <2>1, <2>4 DEF Handled
  <2> QED
    BY <1>2, <1>3, <1>6, <2>1, <2>2, <2>3, <2>6, <2>7 DEF v
<1> QED
  BY <1>5, <1>6

\* A right verdict on the rows that were read is a right verdict on the key.
LEMMA ToldRightly ==
    ASSUME TypeOK, PlaceInv, NoFalseVerdict, NEW k \in Keys, NEW v, NEW seen,
           \A j \in Keys : j # k => verdicts'[j] = verdicts[j],
           verdicts'[k] = << >> \/ verdicts'[k] = <<v>>,
           k \notin touched \cup unsure =>
               v = Classify(db["truth"][k], db["target"][k], seen),
           UNCHANGED <<db, touched, unsure>>
    PROVE  NoFalseVerdict'
<1> SUFFICES ASSUME NEW j \in Keys \ (touched \cup unsure), verdicts'[j] # << >>
             PROVE  SameClass(verdicts'[j][1], Truth(j))
  BY DEF NoFalseVerdict, Truth
<1>1. CASE j # k
  BY <1>1 DEF NoFalseVerdict
<1>2. CASE j = k
  <2>1. verdicts'[k] = <<v>> /\ v = Classify(db["truth"][k], db["target"][k], seen)
    BY <1>2
  <2>2. SameClass(v, Truth(k))
    BY <2>1, Classified DEF Truth
  <2> QED
    BY <1>2, <2>1, <2>2
<1> QED
  BY <1>1, <1>2

\* In live mode the merge itself reports no finding.
LEMMA ToldNoFinding ==
    ASSUME TypeOK, RetryInv, NEW k \in Keys, NEW v,
           \A j \in Keys : j # k => verdicts'[j] = verdicts[j],
           verdicts'[k] = << >> \/ (verdicts'[k] = <<v>> /\ ~(live /\ v \in Findings)),
           UNCHANGED <<queue, rv, live, lookups>>
    PROVE  RetryInv'
<1>1. Looking' = Looking
  BY DEF Looking
<1>2. FindingsAreRetried'
  <2> SUFFICES ASSUME live, NEW j \in Keys, NEW i \in DOMAIN verdicts'[j],
                      verdicts'[j][i] \in Findings
               PROVE  lookups[j] >= MaxRetries
    BY DEF FindingsAreRetried
  <2>1. j # k
    <3>1. ASSUME j = k, verdicts'[k] = <<v>>, v \notin Findings PROVE FALSE
      BY <3>1
    <3>2. ASSUME j = k, verdicts'[k] = << >> PROVE FALSE
      BY <3>2
    <3> QED
      BY <3>1, <3>2
  <2> QED
    BY <2>1 DEF RetryInv, FindingsAreRetried
<1> QED
  BY <1>1, <1>2 DEF RetryInv

\* Outside live mode a quiet verdict follows a report, and reports stay.
LEMMA ToldLoudly ==
    ASSUME TypeOK, SeenInv, NEW k \in Keys, NEW r, NEW q,
           verdicts[k] = << >>,
           \A j \in Keys : j # k => verdicts'[j] = verdicts[j],
           \/ verdicts'[k] = << >> /\ live
           \/ verdicts'[k] = <<Classify(r, q, main.seen)>>,
           UNCHANGED live,
           main'.seen = main.seen \/ main'.seen = SeenAfter(r, q, main.seen)
    PROVE  SeenInv'
<1> DEFINE v == Classify(r, q, main.seen)
<1> HIDE DEF v
<1>1. Reported => Reported'
  BY DEF Reported
<1>2. CASE live
  BY <1>2 DEF SeenInv, QuietIsNotClean
<1>3. CASE ~live
  <2>1. verdicts'[k] = <<v>> /\ 1 \in DOMAIN verdicts'[k] /\ verdicts'[k][1] = v
    BY <1>3 DEF v
  <2>2. v \in {"column", "mismatch"} => Reported'
    BY <2>1 DEF Reported
  <2>3. main.seen # {} => Reported'
    BY <1>1, <1>3 DEF SeenInv
  <2>4. main'.seen # {} => Reported'
    <3>1. CASE main'.seen = main.seen
      BY <3>1, <2>3
    <3>2. CASE main'.seen # main.seen
      <4>1. v \in {"column", "mismatch"} \/ main.seen # {}
        BY <3>2, SeenReported DEF v
      <4> QED
        BY <4>1, <2>2, <2>3
    <3> QED
      BY <3>1, <3>2
  <2>5. QuietIsNotClean'
    <3> SUFFICES ASSUME NEW j \in Keys, NEW i \in DOMAIN verdicts'[j],
                        verdicts'[j][i] = "column_quiet"
                 PROVE  Reported'
      BY DEF QuietIsNotClean, Reported
    <3>1. CASE j # k
      <4>1. Reported
        BY <1>3, <3>1 DEF SeenInv, QuietIsNotClean, Reported
      <4> QED
        BY <4>1, <1>1
    <3>2. CASE j = k
      <4>1. v = "column_quiet"
        BY <2>1, <3>2
      <4>2. main.seen # {}
        BY <4>1, Classified DEF v
      <4> QED
        BY <4>2, <2>3
    <3> QED
      BY <3>1, <3>2
  <2> QED
    BY <2>4, <2>5, <1>3 DEF SeenInv
<1> QED
  BY <1>2, <1>3

\* Pushing the pending keys keeps them handled.
LEMMA Pushed ==
    ASSUME TypeOK, PlaceInv, RetryInv, pending # {}, Push,
           UNCHANGED <<rv, verdicts, live, lookups>>
    PROVE  /\ pending' = {} /\ queue' \subseteq Item
           /\ PlaceInv' /\ RetryInv'
           /\ Handled' = Handled
<1> DEFINE new == [keys |-> pending, iter |-> 1]
<1>1. queue' = queue \cup {new} /\ pending' = {}
  BY DEF Push
<1>2. new \in Item /\ new.keys = pending /\ new.iter = 1
  <2>1. pending \in (SUBSET Keys) \ {{}}
    BY DEF TypeOK
  <2>2. 1 \in 1..MaxRetries
    BY RowVerifyAssumption
  <2> QED
    BY ONLY <2>1, <2>2 DEF Item, new
<1> HIDE DEF new
<1>3. Looking' = Looking /\ DecidedKeys' = DecidedKeys
  BY DEF Looking, DecidedKeys
<1>4. queue \subseteq Item /\ queue' \subseteq Item
  BY <1>1, <1>2 DEF TypeOK
<1>5. Queued' = Queued \cup pending
  BY <1>1, <1>2 DEF Queued
<1>6. PlaceInv'
  <2>1. \A it \in queue' : \A k \in it.keys :
           k \notin DecidedKeys' /\ k \notin pending' /\ k \notin Looking'
    BY <1>1, <1>2, <1>3 DEF PlaceInv
  <2>2. \A it, jt \in queue' : it # jt => it.keys \cap jt.keys = {}
    <3>1. \A it \in queue : it.keys \cap new.keys = {}
      BY <1>2 DEF PlaceInv
    <3> QED
      BY <3>1, <1>1 DEF PlaceInv
  <2> QED
    BY <2>1, <2>2, <1>1, <1>3 DEF PlaceInv
<1>7. RetryInv'
  <2>1. \A k \in Keys : lookups[k] \in Nat
    BY DEF TypeOK
  <2>2. \A it \in queue' : \A k \in it.keys : lookups[k] >= it.iter - 1
    <3>1. \A k \in new.keys : lookups[k] >= new.iter - 1
      BY <1>2, <2>1 DEF TypeOK
    <3> QED
      BY <3>1, <1>1 DEF RetryInv
  <2> QED
    BY <2>2, <1>3 DEF RetryInv, FindingsAreRetried
<1>8. Handled' = Handled
  BY <1>1, <1>3, <1>5 DEF Handled
<1> QED
  BY <1>1, <1>4, <1>6, <1>7, <1>8

----------------------------------------------------------------------------
(* The reverifier.                                                         *)

\* The fields of the reverifier.
LEMMA RvFields ==
    ASSUME TypeOK
    PROVE  /\ rv.pc \in {"select", "truth", "target", "done"}
           /\ rv.item.keys \subseteq Keys /\ rv.item.iter \in Nat
           /\ rv.scanDone \in BOOLEAN
           /\ Looking \subseteq Keys
           /\ rv.pc \in {"truth", "target"} => Looking = rv.item.keys
           /\ rv.pc \notin {"truth", "target"} => Looking = {}
           /\ \A it \in queue : it.keys \subseteq Keys /\ it.iter \in 1..MaxRetries
           /\ DecidedKeys \subseteq Keys /\ Handled \subseteq Keys
<1>1. rv.pc \in {"select", "truth", "target", "done"} /\ rv.scanDone \in BOOLEAN
  BY DEF TypeOK, ReverifierState
<1>2. rv.item \in Item \/ rv.item = [keys |-> {}, iter |-> 0]
  BY DEF TypeOK, ReverifierState
<1>3. rv.item.keys \subseteq Keys /\ rv.item.iter \in Nat
  <2>1. \A it \in Item : it.keys \subseteq Keys /\ it.iter \in Nat
    BY RowVerifyAssumption DEF Item
  <2>2. [keys |-> {}, iter |-> 0].keys = {} /\ [keys |-> {}, iter |-> 0].iter = 0
    OBVIOUS
  <2> QED
    BY <1>2, <2>1, <2>2
<1>4. \A it \in queue : it.keys \subseteq Keys /\ it.iter \in 1..MaxRetries
  BY DEF TypeOK, Item
<1> QED
  BY <1>1, <1>3, <1>4 DEF Looking, DecidedKeys, Handled, Queued, TypeOK

\* A step of the reverifier leaves the scans and the merge alone.
LEMMA ScanStill ==
    ASSUME ScanInv, RowInv, TruthCover, TargetCover, CountInv,
           UNCHANGED <<db, scan, main, touched>>
    PROVE  ScanInv' /\ RowInv' /\ TruthCover' /\ TargetCover' /\ CountInv'
<1>1. T' = T /\ G' = G /\ (Taken <=> Taken') /\ (Late <=> Late')
      /\ \A k : Passed(k) <=> Passed(k)'
  BY DEF T, G, Taken, Late, Passed
<1>2. ScanInv'
  BY DEF ScanInv
<1>3. RowInv'
  BY <1>1 DEF RowInv
<1>4. TruthCover' /\ TargetCover'
  BY <1>1 DEF TruthCover, TargetCover
<1>5. Scanned' = Scanned
  BY <1>1 DEF Scanned
<1>6. CountInv'
  BY <1>5 DEF CountInv
<1> QED
  BY <1>2, <1>3, <1>4, <1>6

\* A key that is no longer handled was written, is unsure, or is gone from both
\* sides.
LEMMA HandedOn ==
    ASSUME HandledInv, TruthTold, TargetTold, UNCHANGED <<db, scan, main, touched>>,
           unsure \subseteq unsure', Handled' \subseteq Handled,
           \A k \in Handled : \/ k \in Handled' \/ k \in touched \/ k \in unsure'
                              \/ db["truth"][k] = Absent /\ db["target"][k] = Absent
    PROVE  HandledInv' /\ TruthTold' /\ TargetTold'
<1>1. G' = G /\ GErr' = GErr /\ (Taken <=> Taken') /\ \A k : Passed(k) <=> Passed(k)'
  BY DEF G, GErr, Taken, Passed
<1>2. HandledInv'
  BY <1>1 DEF HandledInv
<1>3. TruthTold'
  BY <1>1 DEF TruthTold
<1>4. TargetTold'
  BY <1>1 DEF TargetTold
<1> QED
  BY <1>2, <1>3, <1>4

\* A verdict appended to no verdict.
LEMMA OneVerdict ==
    ASSUME NEW x
    PROVE  /\ Append(<< >>, x) = <<x>> /\ Len(<<x>>) = 1
           /\ DOMAIN <<x>> = 1..1 /\ <<x>>[1] = x
           /\ x \in Verdicts => <<x>> \in Seq(Verdicts)
OBVIOUS

\* The end of an item's round: each key is decided, queued again, or gone.
LEMMA RoundEnds ==
    ASSUME TypeOK, PlaceInv, RetryInv, rv.pc = "target", NEW q, Decide(q),
           UNCHANGED <<pending, live>>
    PROVE  /\ verdicts' \in [Keys -> Seq(Verdicts)] /\ queue' \subseteq Item
           /\ lookups' \in [Keys -> Nat] /\ rv' \in ReverifierState
           /\ rv'.pc = "select" /\ rv'.scanDone = rv.scanDone
           /\ PlaceInv' /\ RetryInv'
           /\ Handled' \subseteq Handled
           /\ \A k \in Handled : \/ k \in Handled'
                                 \/ k \in rv.item.keys /\ rv.rows[k] = Absent /\ q[k] = Absent
           /\ \A k \in Keys : \/ verdicts'[k] = verdicts[k]
                              \/ /\ k \in rv.item.keys /\ verdicts[k] = << >>
                                 /\ verdicts'[k] = <<Classify(rv.rows[k], q[k], SeenBefore(k, q))>>
<1> DEFINE v(k) == Classify(rv.rows[k], q[k], SeenBefore(k, q))
           keys == rv.item.keys
           iter == rv.item.iter
           again == {k \in keys : v(k) \in Findings /\ ShouldContinue(iter)}
           told == {k \in keys : v(k) # "none"} \ again
           new == [keys |-> again, iter |-> iter + 1]
<1>1. /\ verdicts' = [k \in Keys |-> IF k \in told THEN Append(verdicts[k], v(k))
                                     ELSE verdicts[k]]
      /\ queue' = IF again = {} THEN queue ELSE queue \cup {new}
      /\ lookups' = [k \in Keys |-> IF k \in keys THEN lookups[k] + 1 ELSE lookups[k]]
      /\ rv' = [rv EXCEPT !.pc = "select"]
  BY DEF Decide
<1>2. /\ \A k \in keys : v(k) \in Verdicts \cup {"none"}
      /\ \A k \in keys : v(k) = "none" => rv.rows[k] = Absent /\ q[k] = Absent
  BY Classified
<1>3. /\ again \subseteq keys /\ told \subseteq keys /\ again \cap told = {}
      /\ \A k \in keys : k \in again \/ k \in told \/ v(k) = "none"
      /\ \A k \in told : v(k) \in Verdicts /\ (v(k) \in Findings => ~ShouldContinue(iter))
      /\ again # {} => ShouldContinue(iter)
  BY <1>2
<1> HIDE DEF v, again, told
<1>4. Looking = keys /\ keys \subseteq Keys /\ rv.item \in Item /\ iter \in 1..MaxRetries
  BY RvFields DEF PlaceInv, Item
<1>5. verdicts \in [Keys -> Seq(Verdicts)] /\ lookups \in [Keys -> Nat] /\ queue \subseteq Item
      /\ rv \in ReverifierState /\ MaxRetries \in Nat
  BY RowVerifyAssumption DEF TypeOK
<1>6. rv'.pc = "select" /\ rv'.scanDone = rv.scanDone /\ rv' \in ReverifierState
  BY <1>1, <1>5 DEF ReverifierState
<1>7. Looking' = {}
  BY <1>6 DEF Looking
<1>8. again # {} => new \in Item /\ new.keys = again /\ new.iter = iter + 1
  <2> SUFFICES ASSUME again # {}
               PROVE  new \in Item
    OBVIOUS
  <2>1. iter + 1 \in 1..MaxRetries
    BY <1>3, <1>4, <1>5 DEF ShouldContinue
  <2>2. again \in (SUBSET Keys) \ {{}}
    BY <1>3, <1>4
  <2> QED
    BY ONLY <2>1, <2>2 DEF Item, new
<1>9. lookups' \in [Keys -> Nat]
      /\ \A k \in Keys : lookups'[k] = IF k \in keys THEN lookups[k] + 1 ELSE lookups[k]
  BY <1>1, <1>5
<1>10. \A k \in keys : verdicts[k] = << >>
  BY <1>4 DEF PlaceInv, DecidedKeys
<1>11. \A k \in Keys : /\ k \in told => verdicts'[k] = <<v(k)>>
                       /\ k \notin told => verdicts'[k] = verdicts[k]
  <2> TAKE k \in Keys
  <2>1. verdicts'[k] = IF k \in told THEN Append(verdicts[k], v(k)) ELSE verdicts[k]
    BY <1>1
  <2>2. k \in told => verdicts[k] = << >>
    BY <1>3, <1>10
  <2>3. Append(<< >>, v(k)) = <<v(k)>>
    BY OneVerdict
  <2> QED
    BY ONLY <2>1, <2>2, <2>3
<1>12. verdicts' \in [Keys -> Seq(Verdicts)]
  <2>1. \A k \in Keys : verdicts'[k] \in Seq(Verdicts)
    <3> TAKE k \in Keys
    <3>1. k \in told => <<v(k)>> \in Seq(Verdicts)
      BY <1>3, OneVerdict
    <3>2. verdicts[k] \in Seq(Verdicts)
      BY <1>5
    <3> QED
      BY <3>1, <3>2, <1>11
  <2> QED
    BY <2>1, <1>1
<1>13. queue' \subseteq Item
  BY <1>1, <1>5, <1>8
<1>14. DecidedKeys' = DecidedKeys \cup told
  BY <1>3, <1>4, <1>11 DEF DecidedKeys
<1>15. Queued' = Queued \cup again
  BY <1>1, <1>8 DEF Queued
<1> HIDE DEF new, keys, iter
<1>16. Handled' \subseteq Handled
  BY <1>3, <1>4, <1>7, <1>14, <1>15 DEF Handled
<1>17. \A k \in Handled : k \in Handled' \/ (k \in keys /\ v(k) = "none")
  BY <1>3, <1>4, <1>7, <1>14, <1>15 DEF Handled
<1>18. PlaceInv'
  <2>1. \A k \in Keys : Len(verdicts'[k]) <= 1
    <3> TAKE k \in Keys
    <3>1. Len(<<v(k)>>) = 1
      BY OneVerdict
    <3>2. CASE k \in told
      <4>1. verdicts'[k] = <<v(k)>>
        BY <3>2, <1>11
      <4>2. Len(verdicts'[k]) = 1
        BY ONLY <3>1, <4>1
      <4> QED
        BY ONLY <4>2
    <3>3. CASE k \notin told
      BY <3>3, <1>11 DEF PlaceInv
    <3> QED
      BY <3>2, <3>3
  <2>2. \A k \in pending' : k \notin DecidedKeys' /\ k \notin Looking'
    BY <1>3, <1>4, <1>7, <1>14 DEF PlaceInv
  <2>3. \A it \in queue : \A k \in it.keys : k \notin keys /\ k \notin pending /\ k \notin DecidedKeys
    BY <1>4 DEF PlaceInv
  <2>4. again # {} => \A k \in again : k \notin pending /\ k \notin DecidedKeys /\ k \notin told
    BY <1>3, <1>4 DEF PlaceInv
  <2>5. \A it \in queue' : \A k \in it.keys :
           k \notin DecidedKeys' /\ k \notin pending' /\ k \notin Looking'
    <3> TAKE it \in queue'
    <3>1. CASE it \in queue
      BY <3>1, <2>3, <1>3, <1>7, <1>14
    <3>2. CASE it \notin queue
      <4>1. again # {} /\ it.keys = again
        BY <3>2, <1>1, <1>8
      <4> QED
        BY <4>1, <2>4, <1>7, <1>14
    <3> QED
      BY <3>1, <3>2
  <2>6. \A it, jt \in queue' : it # jt => it.keys \cap jt.keys = {}
    <3>1. \A it, jt \in queue : it # jt => it.keys \cap jt.keys = {}
      BY DEF PlaceInv
    <3>2. again # {} => \A it \in queue : it.keys \cap new.keys = {}
      BY <2>3, <1>3, <1>8
    <3> QED
      BY <3>1, <3>2, <1>1
  <2> QED
    BY <2>1, <2>2, <2>5, <2>6, <1>6, <1>7 DEF PlaceInv
<1>19. RetryInv'
  <2>1. \A k \in keys : lookups[k] >= iter - 1 /\ lookups[k] \in Nat /\ lookups'[k] = lookups[k] + 1
    BY <1>4, <1>5, <1>9 DEF RetryInv, iter
  <2>2. \A k \in Keys : lookups[k] \in Nat /\ lookups'[k] \in Nat /\ lookups'[k] >= lookups[k]
    BY <1>5, <1>9
  <2>3. \A it \in queue' : \A k \in it.keys : lookups'[k] >= it.iter - 1
    <3> TAKE it \in queue'
    <3>1. CASE it \in queue
      <4>1. it.keys \subseteq Keys /\ it.iter \in 1..MaxRetries
        BY <3>1, RvFields
      <4>2. \A k \in it.keys : lookups[k] >= it.iter - 1
        BY <3>1 DEF RetryInv
      <4> QED
        BY <4>1, <4>2, <2>2, <1>5
    <3>2. CASE it \notin queue
      <4>1. again # {} /\ it.keys = again /\ it.iter = iter + 1
        BY <3>2, <1>1, <1>8
      <4> QED
        BY <4>1, <2>1, <1>3, <1>4, <1>5
    <3> QED
      BY <3>1, <3>2
  <2>4. FindingsAreRetried'
    <3> SUFFICES ASSUME live, NEW k \in Keys, NEW i \in DOMAIN verdicts'[k],
                        verdicts'[k][i] \in Findings
                 PROVE  lookups'[k] >= MaxRetries
      BY DEF FindingsAreRetried
    <3>1. CASE k \in told
      <4>1. DOMAIN <<v(k)>> = 1..1 /\ <<v(k)>>[1] = v(k)
        BY OneVerdict
      <4>2. v(k) \in Findings
        BY <3>1, <4>1, <1>11
      <4>3. ~(iter < MaxRetries) /\ k \in keys
        BY <3>1, <4>2, <1>3 DEF ShouldContinue
      <4> QED
        BY <4>3, <2>1, <1>4, <1>5
    <3>2. CASE k \notin told
      <4>1. lookups[k] >= MaxRetries
        BY <3>2, <1>11 DEF RetryInv, FindingsAreRetried
      <4> QED
        BY <4>1, <2>2, <1>5
    <3> QED
      BY <3>1, <3>2
  <2> QED
    BY <2>3, <2>4, <1>7 DEF RetryInv
<1>20. \A k \in Keys : verdicts'[k] = verdicts[k]
                       \/ (k \in keys /\ verdicts[k] = << >> /\ verdicts'[k] = <<v(k)>>)
  BY <1>3, <1>10, <1>11
<1> QED
  BY <1>2, <1>6, <1>9, <1>12, <1>13, <1>16, <1>17, <1>18, <1>19, <1>20 DEF v, keys

\* What is left to show of a step of the reverifier.
LEMMA ReverifierKeeps ==
    ASSUME IInv, UNCHANGED Scanning, live, TypeOK', PlaceInv', LookupFresh', RetryInv',
           NoFalseVerdict',
           rv'.scanDone = rv.scanDone,
           main.pc # "finished" \/ (queue' = {} /\ rv'.pc = "done"),
           rv'.pc = "done" => queue' = {} /\ rv.scanDone,
           unsure \subseteq unsure', Handled' \subseteq Handled,
           \A k \in Handled : \/ k \in Handled' \/ k \in touched \/ k \in unsure'
                              \/ db["truth"][k] = Absent /\ db["target"][k] = Absent
    PROVE  IInv'
<1>1. UNCHANGED <<db, scan, main, pending, live, touched>>
  BY DEF Scanning
<1>2. ScanInv' /\ RowInv' /\ TruthCover' /\ TargetCover' /\ CountInv'
  BY <1>1, ScanStill DEF IInv
<1>3. HandledInv' /\ TruthTold' /\ TargetTold'
  BY <1>1, HandedOn DEF IInv
<1>4. PhaseInv'
  BY <1>1 DEF IInv, PhaseInv, Late, Exhausted, Over
<1>5. SeenInv'
  BY <1>1 DEF SeenInv, QuietIsNotClean
<1> QED
  BY <1>2, <1>3, <1>4, <1>5 DEF IInv

\* The reverifier works in live mode only, and never after the shard finished.
LEMMA ReverifierLives ==
    ASSUME IInv
    PROVE  /\ rv.pc # "select" \/ queue # {} \/ rv.scanDone => live
           /\ rv.pc \in {"truth", "target"} \/ queue # {} => main.pc # "finished"
BY DEF IInv, PhaseInv, TypeOK

\* The reverifier takes an item of its queue: its keys only change places.
LEMMA PopItemKeeps ==
    ASSUME IInv, PopItem
    PROVE  IInv'
<1>1. PICK it \in queue : queue' = queue \ {it} /\ rv' = [rv EXCEPT !.pc = "truth", !.item = it]
  BY DEF PopItem
<1>2. UNCHANGED <<Scanning, verdicts, unsure, lookups, faults>> /\ rv.pc = "select"
  BY DEF PopItem
<1>3. TypeOK /\ PlaceInv /\ RetryInv /\ NoFalseVerdict
  BY DEF IInv
<1>4. it \in Item /\ rv \in ReverifierState
  BY <1>3 DEF TypeOK
<1>5. rv'.pc = "truth" /\ rv'.item = it /\ rv'.scanDone = rv.scanDone /\ rv' \in ReverifierState
  BY <1>1, <1>4 DEF ReverifierState
<1>6. TypeOK'
  BY <1>1, <1>2, <1>3, <1>5 DEF TypeOK, Scanning
<1>7. Looking = {} /\ Looking' = it.keys /\ DecidedKeys' = DecidedKeys /\ pending' = pending
  BY <1>2, <1>5 DEF Looking, DecidedKeys, Scanning
<1>8. \A jt \in queue \ {it} : jt.keys \cap it.keys = {}
  BY <1>3 DEF PlaceInv
<1>9. PlaceInv'
  BY <1>1, <1>2, <1>3, <1>4, <1>5, <1>7, <1>8 DEF PlaceInv
<1>10. Queued = Queued' \cup it.keys
  BY <1>1 DEF Queued
<1>11. Handled' = Handled
  BY <1>7, <1>10 DEF Handled
<1>12. RetryInv'
  BY <1>1, <1>2, <1>3, <1>5, <1>7 DEF RetryInv, FindingsAreRetried, Scanning
<1>13. NoFalseVerdict' /\ LookupFresh'
  BY <1>2, <1>3, <1>5 DEF NoFalseVerdict, LookupFresh, Truth, Scanning
<1>14. live /\ main.pc # "finished"
  BY <1>1, ReverifierLives
<1> QED
  BY <1>2, <1>5, <1>6, <1>9, <1>11, <1>12, <1>13, <1>14, ReverifierKeeps

\* The lookups on the truth, whole or cut short, and a lookup that fails.
LEMMA LookupKeeps ==
    ASSUME IInv, LookupTruth \/ LookupTruthCut \/ LookupFails
    PROVE  IInv'
<1>1. /\ UNCHANGED <<Scanning, queue, verdicts, lookups>>
      /\ rv.pc \in {"truth", "target"}
      /\ unsure \subseteq unsure'
      /\ unsure' = unsure \/ unsure' = unsure \cup rv.item.keys
  BY DEF LookupTruth, LookupTruthCut, LookupFails
<1>2. TypeOK /\ PlaceInv /\ RetryInv /\ NoFalseVerdict
  BY DEF IInv
<1>3. rv \in ReverifierState /\ db \in Database
  BY <1>2 DEF TypeOK
<1>4. Looking = rv.item.keys /\ rv.item.keys \subseteq Keys
  BY <1>1, <1>2, RvFields
<1>5. /\ rv' \in ReverifierState /\ rv'.scanDone = rv.scanDone /\ rv'.item = rv.item
      /\ \/ /\ rv'.pc = "target"
            /\ rv'.rows = db["truth"] \/ rv.item.keys \subseteq unsure'
         \/ rv'.pc = "select" /\ rv.item.keys \subseteq unsure'
  <2>1. db["truth"] \in [Keys -> Row("truth")]
    BY <1>3 DEF Database
  <2>2. CASE LookupTruth
    BY <2>1, <2>2, <1>3 DEF LookupTruth, ReverifierState
  <2>3. CASE LookupTruthCut
    <3>1. PICK n \in rv.item.keys :
             rv' = [rv EXCEPT !.pc = "target",
                       !.rows = [k \in Keys |-> IF k < n THEN db["truth"][k] ELSE Absent]]
      BY <2>3 DEF LookupTruthCut
    <3>2. [k \in Keys |-> IF k < n THEN db["truth"][k] ELSE Absent] \in [Keys -> Row("truth")]
      BY <2>1 DEF Row
    <3>3. rv.item.keys \subseteq unsure'
      BY <2>3 DEF LookupTruthCut
    <3> HIDE <2>3
    <3> QED
      BY <3>1, <3>2, <3>3, <1>3 DEF ReverifierState
  <2>4. CASE LookupFails
    BY <2>4, <1>3 DEF LookupFails, ReverifierState
  <2> QED
    BY <2>2, <2>3, <2>4
<1>6. faults' \in 0..MaxFaults /\ unsure' \subseteq Keys
  <2>1. faults' = faults \/ (faults < MaxFaults /\ faults' = faults + 1)
    BY DEF LookupTruth, LookupTruthCut, LookupFails
  <2>2. faults \in 0..MaxFaults /\ unsure \subseteq Keys
    BY <1>2 DEF TypeOK
  <2> QED
    BY <2>1, <2>2, <1>1, <1>4, RowVerifyAssumption
<1>7. TypeOK'
  BY <1>1, <1>2, <1>5, <1>6 DEF TypeOK, Scanning
<1>8. /\ DecidedKeys' = DecidedKeys /\ pending' = pending /\ Queued' = Queued
      /\ Looking' \subseteq Looking
      /\ \A k \in Looking : k \in Looking' \/ k \in unsure'
  BY <1>1, <1>4, <1>5 DEF Looking, DecidedKeys, Queued, Scanning
<1>9. PlaceInv'
  BY <1>1, <1>2, <1>5, <1>8 DEF PlaceInv
<1>10. Handled' \subseteq Handled /\ \A k \in Handled : k \in Handled' \/ k \in unsure'
  BY <1>8 DEF Handled
<1>11. RetryInv'
  BY <1>1, <1>2, <1>5, <1>8 DEF RetryInv, FindingsAreRetried, Scanning
<1>12. NoFalseVerdict' /\ LookupFresh'
  BY <1>1, <1>2, <1>5 DEF NoFalseVerdict, LookupFresh, Truth, Scanning
<1>13. live /\ main.pc # "finished"
  BY <1>1, ReverifierLives
<1>14. rv'.pc # "done"
  BY <1>5
<1> QED
  BY <1>1, <1>5, <1>7, <1>9, <1>10, <1>11, <1>12, <1>13, <1>14, ReverifierKeeps

\* The target's answer, whole or cut short, ends the round.
LEMMA RoundKeeps ==
    ASSUME IInv, LookupTarget \/ LookupTargetCut
    PROVE  IInv'
<1>1. UNCHANGED Scanning /\ rv.pc = "target"
  BY DEF LookupTarget, LookupTargetCut
<1>2. TypeOK /\ PlaceInv /\ RetryInv /\ NoFalseVerdict /\ LookupFresh
  BY DEF IInv
<1>3. PICK q : /\ Decide(q)
               /\ \/ q = db["target"] /\ unsure' = unsure
                  \/ unsure' = unsure \cup rv.item.keys
  BY DEF LookupTarget, LookupTargetCut
<1>4. UNCHANGED <<pending, live, db, touched>>
  BY <1>1 DEF Scanning
<1>5. /\ verdicts' \in [Keys -> Seq(Verdicts)] /\ queue' \subseteq Item
      /\ lookups' \in [Keys -> Nat] /\ rv' \in ReverifierState
      /\ rv'.pc = "select" /\ rv'.scanDone = rv.scanDone
      /\ PlaceInv' /\ RetryInv'
      /\ Handled' \subseteq Handled
      /\ \A k \in Handled : \/ k \in Handled'
                            \/ k \in rv.item.keys /\ rv.rows[k] = Absent /\ q[k] = Absent
      /\ \A k \in Keys : \/ verdicts'[k] = verdicts[k]
                         \/ /\ k \in rv.item.keys /\ verdicts[k] = << >>
                            /\ verdicts'[k] = <<Classify(rv.rows[k], q[k], SeenBefore(k, q))>>
  BY <1>1, <1>2, <1>3, <1>4, RoundEnds
<1>6. faults' \in 0..MaxFaults /\ unsure' \subseteq Keys /\ unsure \subseteq unsure'
  <2>1. faults' = faults \/ (faults < MaxFaults /\ faults' = faults + 1)
    BY DEF LookupTarget, LookupTargetCut
  <2>2. faults \in 0..MaxFaults /\ unsure \subseteq Keys /\ rv.item.keys \subseteq Keys
    BY <1>2, RvFields DEF TypeOK
  <2>3. unsure' \subseteq Keys /\ unsure \subseteq unsure'
    BY <2>2, <1>3
  <2>4. faults' \in 0..MaxFaults
    BY <2>1, <2>2, RowVerifyAssumption
  <2> QED
    BY <2>3, <2>4
<1>7. TypeOK'
  BY <1>1, <1>2, <1>5, <1>6 DEF TypeOK, Scanning
<1>8. \A k \in rv.item.keys : k \notin touched /\ k \notin unsure' =>
         rv.rows[k] = db["truth"][k] /\ q[k] = db["target"][k]
  BY <1>1, <1>2, <1>3 DEF LookupFresh
<1>9. NoFalseVerdict'
  <2> SUFFICES ASSUME NEW k \in Keys, k \notin touched, k \notin unsure', verdicts'[k] # << >>
               PROVE  SameClass(verdicts'[k][1], Truth(k))
    BY <1>4 DEF NoFalseVerdict, Truth
  <2>1. CASE verdicts'[k] = verdicts[k]
    BY <2>1, <1>2, <1>6 DEF NoFalseVerdict
  <2>2. CASE verdicts'[k] # verdicts[k]
    <3> DEFINE v == Classify(rv.rows[k], q[k], SeenBefore(k, q))
    <3>1. k \in rv.item.keys /\ verdicts'[k] = <<v>>
      BY <2>2, <1>5
    <3>2. SameClass(v, Classify(rv.rows[k], q[k], {}))
      BY Classified
    <3>3. SameClass(v, Truth(k))
      BY <3>1, <3>2, <1>8 DEF Truth
    <3> HIDE DEF v
    <3>4. verdicts'[k][1] = v
      BY <3>1
    <3> QED
      BY <3>3, <3>4
  <2> QED
    BY <2>1, <2>2
<1>10. LookupFresh'
  BY <1>5 DEF LookupFresh
<1>11. \A k \in Handled : \/ k \in Handled' \/ k \in touched \/ k \in unsure'
                          \/ db["truth"][k] = Absent /\ db["target"][k] = Absent
  BY <1>5, <1>8
<1>12. live /\ main.pc # "finished"
  BY <1>1, ReverifierLives
<1>13. rv'.pc # "done"
  BY <1>5
<1> QED
  BY <1>1, <1>5, <1>6, <1>7, <1>9, <1>10, <1>11, <1>12, <1>13, ReverifierKeeps

\* The reverifier ends with an empty queue, so no key is left with it.
LEMMA ReverifierEndsKeeps ==
    ASSUME IInv, ReverifierEnds
    PROVE  IInv'
<1>1. /\ UNCHANGED <<Scanning, queue, verdicts, unsure, lookups, faults>>
      /\ rv.pc = "select" /\ rv.scanDone /\ queue = {} /\ rv' = [rv EXCEPT !.pc = "done"]
  BY DEF ReverifierEnds
<1>2. TypeOK /\ PlaceInv /\ RetryInv /\ NoFalseVerdict
  BY DEF IInv
<1>3. rv'.pc = "done" /\ rv'.scanDone = rv.scanDone /\ rv' \in ReverifierState
  BY <1>1, <1>2 DEF ReverifierState, TypeOK
<1>4. TypeOK'
  BY <1>1, <1>2, <1>3 DEF TypeOK, Scanning
<1>5. Looking = {} /\ Looking' = {} /\ DecidedKeys' = DecidedKeys /\ pending' = pending
      /\ Queued' = Queued
  BY <1>1, <1>3 DEF Looking, DecidedKeys, Scanning, Queued
<1>6. PlaceInv'
  BY <1>1, <1>2, <1>3, <1>5 DEF PlaceInv
<1>7. Handled' = Handled
  BY <1>5 DEF Handled
<1>8. RetryInv' /\ NoFalseVerdict' /\ LookupFresh'
  BY <1>1, <1>2, <1>3, <1>5
     DEF RetryInv, FindingsAreRetried, NoFalseVerdict, LookupFresh, Truth, Scanning
<1>9. live
  BY <1>1, ReverifierLives
<1> QED
  BY <1>1, <1>3, <1>4, <1>6, <1>7, <1>8, <1>9, ReverifierKeeps

----------------------------------------------------------------------------
(* Pages, and writes of others.                                            *)

\* A page is asked for, fails or arrives: the rows to come stay the same.
LEMMA PagesKeep ==
    ASSUME IInv, NEW s \in Sides, FetchPage(s) \/ FetchFails(s) \/ Receive(s)
    PROVE  IInv'
<1>1. TypeOK /\ ScanInv
  BY DEF IInv
<1>2. /\ scan' \in [Sides -> Iterator("truth") \cup Iterator("target")]
      /\ \A x \in Sides : scan'[x] \in Iterator(x)
      /\ ScanInv'
      /\ \A x \in Sides :
            /\ Coming(scan'[x]) \subseteq Coming(scan[x])
            /\ \A k \in Coming(scan[x]) :
                  InShard(k) /\ db[x][k] # Absent => k \in Coming(scan'[x])
            /\ scan[x].err => scan'[x].err
            /\ Exhausted(x) => scan'[x] = scan[x]
            /\ Over(x) => Over(x)'
      /\ faults' \in 0..MaxFaults
      /\ UNCHANGED <<db, touched, Rest>>
  BY <1>1, PagesMove
<1>3. UNCHANGED <<db, main, pending, queue, rv, verdicts, live, touched, unsure, lookups, writes>>
  BY <1>2 DEF Rest
<1>4. /\ T' \subseteq T /\ G' \subseteq G
      /\ \A k \in T : InShard(k) /\ db["truth"][k] # Absent => k \in T'
      /\ \A k \in G : InShard(k) /\ db["target"][k] # Absent => k \in G'
      /\ GErr => GErr'
      /\ Exhausted("truth") => Exhausted("truth")'
      /\ Over("target") => Over("target")'
  BY <1>2 DEF T, G, GErr, Sides, Exhausted
<1>5. TypeOK'
  BY <1>1, <1>2, <1>3 DEF TypeOK
<1>6. /\ Handled' = Handled /\ DecidedKeys' = DecidedKeys /\ Looking' = Looking
      /\ (Taken <=> Taken') /\ (Late <=> Late') /\ \A k : Passed(k) <=> Passed(k)'
  BY <1>3 DEF Handled, DecidedKeys, Queued, Looking, Taken, Late, Passed
<1>7. RowInv'
  BY <1>3, <1>4, <1>6 DEF IInv, RowInv
<1>8. PhaseInv'
  BY <1>3, <1>4, <1>6 DEF IInv, PhaseInv
<1>9. TruthCover' /\ TargetCover'
  BY <1>3, <1>4, <1>6 DEF IInv, TruthCover, TargetCover
<1>10. PlaceInv' /\ RetryInv' /\ SeenInv' /\ NoFalseVerdict' /\ LookupFresh'
  BY <1>3, <1>6 DEF IInv, PlaceInv, RetryInv, FindingsAreRetried, SeenInv, Reported,
                    QuietIsNotClean, NoFalseVerdict, Truth, LookupFresh
<1>11. HandledInv'
  BY <1>3, <1>4, <1>6 DEF IInv, HandledInv
<1>12. TruthTold'
  BY <1>3, <1>4, <1>6 DEF IInv, TruthTold
<1>13. TargetTold'
  BY <1>3, <1>4, <1>6 DEF IInv, TargetTold
<1>14. CountInv'
  <2>1. Scanned' = Scanned
    BY <1>3, <1>4 DEF Scanned
  <2> QED
    BY <2>1, <1>3 DEF IInv, CountInv
<1> QED
  BY <1>2, <1>5, <1>7, <1>8, <1>9, <1>10, <1>11, <1>12, <1>13, <1>14 DEF IInv

\* Others write a row of either side: its key is touched from then on.
LEMMA WriteKeeps ==
    ASSUME IInv, NEW s \in Sides, NEW k \in Keys, Write(s, k)
    PROVE  IInv'
<1>1. /\ UNCHANGED <<scan, main, pending, queue, rv, verdicts, live, unsure, lookups, faults>>
      /\ touched' = touched \cup {k}
      /\ writes < MaxWrites /\ writes' = writes + 1
  BY DEF Write
<1>2. PICK r \in Row(s) : db' = [db EXCEPT ![s][k] = r]
  BY DEF Write
<1>3. TypeOK
  BY DEF IInv
<1>4. /\ db' \in Database
      /\ \A x \in Sides, j \in Keys : j # k => db'[x][j] = db[x][j]
  <2>1. CASE s = "truth"
    BY <2>1, <1>2, <1>3 DEF TypeOK, Database, Sides
  <2>2. CASE s = "target"
    BY <2>2, <1>2, <1>3 DEF TypeOK, Database, Sides
  <2> QED
    BY <2>1, <2>2 DEF Sides
<1>5. \A j \in Keys \ touched' : /\ j \in Keys \ touched
                                 /\ db'["truth"][j] = db["truth"][j]
                                 /\ db'["target"][j] = db["target"][j]
  BY <1>1, <1>4 DEF Sides
<1>6. TypeOK'
  <2>1. writes' \in 0..MaxWrites
    BY <1>1, <1>3, RowVerifyAssumption DEF TypeOK
  <2> QED
    BY <2>1, <1>1, <1>3, <1>4 DEF TypeOK
<1>7. ScanInv'
  <2> SUFFICES ASSUME NEW x \in Sides
               PROVE  Fresh(scan[x], db'[x], touched')
    BY <1>1 DEF IInv, ScanInv
  <2>1. Fresh(scan[x], db[x], touched)
    BY DEF IInv, ScanInv
  <2>2. scan[x].cache \in Seq(Entry(x)) /\ scan[x].page \in Seq(Entry(x))
    BY <1>3 DEF TypeOK, Iterator
  <2>3. ASSUME NEW q \in Seq(Entry(x)), FreshIn(q, db[x], touched)
        PROVE  FreshIn(q, db'[x], touched')
    <3> SUFFICES ASSUME NEW i \in DOMAIN q, q[i].key \notin touched'
                 PROVE  q[i].row = db'[x][q[i].key]
      BY DEF FreshIn
    <3>1. q[i].key \in Keys
      <4>1. q[i] \in Entry(x)
        OBVIOUS
      <4> QED
        BY <4>1 DEF Entry
    <3> QED
      BY <3>1, <2>3, <1>1, <1>4 DEF FreshIn
  <2> QED
    BY <2>1, <2>2, <2>3 DEF Fresh
<1>8. /\ T' = T /\ G' = G /\ GErr' = GErr
      /\ Handled' = Handled /\ DecidedKeys' = DecidedKeys /\ Looking' = Looking
      /\ (Taken <=> Taken') /\ (Late <=> Late') /\ \A j : Passed(j) <=> Passed(j)'
  BY <1>1 DEF T, G, GErr, Handled, DecidedKeys, Queued, Looking, Taken, Late, Passed
<1>9. RowInv'
  BY <1>1, <1>5, <1>8 DEF IInv, RowInv
<1>10. PhaseInv'
  BY <1>1, <1>8 DEF IInv, PhaseInv, Exhausted, Over
<1>11. TruthCover' /\ TargetCover'
  BY <1>1, <1>5, <1>8 DEF IInv, TruthCover, TargetCover
<1>12. PlaceInv' /\ RetryInv' /\ SeenInv'
  BY <1>1, <1>8 DEF IInv, PlaceInv, RetryInv, FindingsAreRetried, SeenInv, Reported,
                    QuietIsNotClean
<1>13. HandledInv'
  BY <1>1, <1>8 DEF IInv, HandledInv
<1>14. TruthTold'
  BY <1>1, <1>5, <1>8 DEF IInv, TruthTold
<1>15. TargetTold'
  BY <1>1, <1>5, <1>8 DEF IInv, TargetTold
<1>16. NoFalseVerdict'
  <2>1. \A j \in Keys \ touched' : Truth(j)' = Truth(j)
    BY <1>5 DEF Truth
  <2> QED
    BY <2>1, <1>1, <1>5 DEF IInv, NoFalseVerdict
<1>17. LookupFresh'
  <2>1. rv.item.keys \subseteq Keys
    BY <1>3, RvFields
  <2> QED
    BY <2>1, <1>1, <1>5 DEF IInv, LookupFresh
<1>18. CountInv'
  BY <1>1 DEF IInv, CountInv
<1> QED
  BY <1>6, <1>7, <1>9, <1>10, <1>11, <1>12, <1>13, <1>14, <1>15, <1>16, <1>17, <1>18 DEF IInv

----------------------------------------------------------------------------
(* The merge moves on without taking a row.                                *)

\* What is left to show when the merge moves on between two rows.
LEMMA MoveKeeps ==
    ASSUME IInv, main.pc \notin {"target", "finished"}, main'.pc \notin {"target", "truth"},
           main'.row = main.row, main'.seen = main.seen, main'.verified = main.verified,
           \/ main'.pc # "finished" /\ main'.checked = main.checked
           \/ main'.pc = "finished" /\ main'.checked = main.checked + main.verified,
           Late => Late',
           UNCHANGED <<db, scan, verdicts, live, touched, unsure, lookups>>,
           TypeOK', PhaseInv', PlaceInv', RetryInv', LookupFresh', Handled' = Handled
    PROVE  IInv'
<1>1. T' = T /\ G' = G /\ GErr' = GErr /\ (Taken <=> Taken') /\ \A k : Passed(k) <=> Passed(k)'
  BY DEF T, G, GErr, Taken, Passed
<1>2. ScanInv' /\ NoFalseVerdict'
  BY DEF IInv, ScanInv, NoFalseVerdict, Truth
<1>3. RowInv'
  BY <1>1 DEF IInv, RowInv
<1>4. TruthCover' /\ TargetCover'
  BY <1>1 DEF IInv, TruthCover, TargetCover
<1>5. HandledInv'
  BY <1>1 DEF IInv, HandledInv
<1>6. TruthTold' /\ TargetTold'
  BY <1>1 DEF IInv, TruthTold, TargetTold
<1>7. SeenInv'
  BY DEF IInv, SeenInv, Reported, QuietIsNotClean
<1>8. CountInv'
  <2>1. Scanned' = Scanned
    BY <1>1 DEF Scanned
  <2>2. main.verified \in Nat /\ main.checked \in Nat /\ ProgressEvery \in Nat
    BY MainFields, RowVerifyAssumption DEF IInv
  <2>3. main.verified <= ProgressEvery => main.checked = 0
    BY DEF IInv, CountInv
  <2>4. touched = {} => main.verified = Cardinality(Scanned)
    BY DEF IInv, CountInv
  <2> QED
    BY <2>1, <2>2, <2>3, <2>4 DEF CountInv
<1> QED
  BY <1>2, <1>3, <1>4, <1>5, <1>6, <1>7, <1>8 DEF IInv

\* Nothing but the state of the merge changes.
LEMMA OnlyMain ==
    ASSUME IInv, main' \in MergeState, UNCHANGED <<scan, pending, verdicts, Quiet>>
    PROVE  /\ TypeOK' /\ PlaceInv' /\ RetryInv' /\ LookupFresh' /\ Handled' = Handled
           /\ UNCHANGED <<db, scan, pending, queue, rv, verdicts, live, touched, unsure, lookups>>
<1>1. UNCHANGED <<db, queue, rv, live, touched, unsure, lookups, writes, faults>>
  BY DEF Quiet
<1>2. TypeOK'
  BY <1>1 DEF IInv, TypeOK
<1>3. Handled' = Handled /\ DecidedKeys' = DecidedKeys /\ Looking' = Looking
  BY <1>1 DEF Handled, DecidedKeys, Queued, Looking
<1>4. PlaceInv' /\ RetryInv' /\ LookupFresh'
  BY <1>1, <1>3 DEF IInv, PlaceInv, RetryInv, FindingsAreRetried, LookupFresh
<1> QED
  BY <1>1, <1>2, <1>3, <1>4

\* The truth has no more rows: every key of it was taken.
LEMMA TruthOverKeeps ==
    ASSUME IInv, TruthOver
    PROVE  IInv'
<1>1. TypeOK /\ PhaseInv
  BY DEF IInv
<1>2. PICK p \in {"failed", "drain"} :
         /\ Goto(p)
         /\ p = "drain" => ~scan["truth"].err
  BY DEF TruthOver, Sides
<1>3. /\ main'.pc = p /\ main'.row = main.row /\ main'.seen = main.seen
      /\ main'.verified = main.verified /\ main'.checked = main.checked
      /\ main' \in MergeState
  BY <1>1, <1>2, MovedOn
<1>4. main.pc = "truth" /\ Over("truth") /\ UNCHANGED <<scan, pending, verdicts, Quiet>>
  BY DEF TruthOver
<1>5. /\ TypeOK' /\ PlaceInv' /\ RetryInv' /\ LookupFresh' /\ Handled' = Handled
      /\ UNCHANGED <<db, scan, pending, queue, rv, verdicts, live, touched, unsure, lookups>>
  BY <1>3, <1>4, OnlyMain
<1>6. PhaseInv'
  BY <1>1, <1>2, <1>3, <1>4, <1>5 DEF PhaseInv, Late, Exhausted, Over
<1>7. ~Late
  BY <1>4 DEF Late
<1> QED
  BY <1>2, <1>3, <1>4, <1>5, <1>6, <1>7, MoveKeeps

\* The target has no more rows either: every key of it was told.
LEMMA DrainOverKeeps ==
    ASSUME IInv, DrainOver
    PROVE  IInv'
<1>1. TypeOK /\ PhaseInv
  BY DEF IInv
<1>2. main.pc = "drain" /\ Over("target") /\ UNCHANGED <<scan, pending, verdicts, Quiet>>
  BY DEF DrainOver
<1>3. /\ main'.row = main.row /\ main'.seen = main.seen /\ main'.verified = main.verified
      /\ main' \in MergeState
      /\ \/ live /\ main'.pc = "flush" /\ main'.checked = main.checked
         \/ ~live /\ main'.pc = "finished" /\ main'.checked = main.checked + main.verified
  <2>1. CASE live
    BY <2>1, <1>1, MovedOn DEF DrainOver
  <2>2. CASE ~live
    BY <2>2, <1>1, HasFinished DEF DrainOver
  <2> QED
    BY <2>1, <2>2
<1>4. /\ TypeOK' /\ PlaceInv' /\ RetryInv' /\ LookupFresh' /\ Handled' = Handled
      /\ UNCHANGED <<db, scan, pending, queue, rv, verdicts, live, touched, unsure, lookups>>
  BY <1>2, <1>3, OnlyMain
<1>5. PhaseInv'
  BY <1>1, <1>2, <1>3, <1>4 DEF PhaseInv, Late, Exhausted, Over
<1>6. Late'
  BY <1>3 DEF Late
<1>7. main'.pc \notin {"target", "truth"}
  BY <1>3
<1> QED
  BY <1>2, <1>3, <1>4, <1>5, <1>6, <1>7, MoveKeeps

\* The last suspicious keys move to the reverifier.
LEMMA FinalFlushKeeps ==
    ASSUME IInv, FinalFlush
    PROVE  IInv'
<1>1. TypeOK /\ PhaseInv /\ PlaceInv /\ RetryInv
  BY DEF IInv
<1>2. /\ main.pc = "flush"
      /\ UNCHANGED <<db, scan, rv, verdicts, live, touched, unsure, lookups, writes, faults>>
  BY DEF FinalFlush
<1>3. /\ main'.pc = "complete" /\ main'.row = main.row /\ main'.seen = main.seen
      /\ main'.verified = main.verified /\ main'.checked = main.checked
      /\ main' \in MergeState
  BY <1>1, MovedOn DEF FinalFlush
<1>4. /\ pending' = {} /\ queue' \subseteq Item /\ PlaceInv' /\ RetryInv' /\ Handled' = Handled
      /\ rv.pc = "select" \/ queue' = queue
  <2>1. CASE pending = {}
    <3>1. UNCHANGED <<queue, pending>>
      BY <2>1 DEF FinalFlush
    <3>2. Handled' = Handled /\ DecidedKeys' = DecidedKeys /\ Looking' = Looking
      BY <3>1, <1>2 DEF Handled, DecidedKeys, Queued, Looking
    <3>3. PlaceInv' /\ RetryInv'
      BY <3>1, <3>2, <1>1, <1>2 DEF PlaceInv, RetryInv, FindingsAreRetried
    <3> QED
      BY <2>1, <3>1, <3>2, <3>3, <1>1 DEF TypeOK
  <2>2. CASE pending # {}
    <3>1. Push /\ rv.pc = "select"
      BY <2>2 DEF FinalFlush, Push
    <3> QED
      BY <2>2, <3>1, <1>1, <1>2, Pushed
  <2> QED
    BY <2>1, <2>2
<1>5. live
  BY <1>1, <1>2 DEF PhaseInv, TypeOK
<1>6. TypeOK'
  BY <1>1, <1>2, <1>3, <1>4 DEF TypeOK
<1>7. PhaseInv'
  BY <1>1, <1>2, <1>3, <1>4, <1>5 DEF PhaseInv, Late, Exhausted, Over
<1>8. LookupFresh' /\ Late'
  BY <1>2, <1>3 DEF IInv, LookupFresh, Late
<1> QED
  BY <1>2, <1>3, <1>4, <1>6, <1>7, <1>8, MoveKeeps

\* The reverifier is told that no more keys will come.
LEMMA ScanCompleteKeeps ==
    ASSUME IInv, ScanComplete
    PROVE  IInv'
<1>1. TypeOK /\ PhaseInv /\ PlaceInv /\ RetryInv
  BY DEF IInv
<1>2. /\ main.pc = "complete" /\ rv.pc = "select" /\ rv' = [rv EXCEPT !.scanDone = TRUE]
      /\ UNCHANGED <<db, scan, pending, queue, verdicts, live, touched, unsure, lookups,
                     writes, faults>>
  BY DEF ScanComplete
<1>3. /\ main'.pc = "wait" /\ main'.row = main.row /\ main'.seen = main.seen
      /\ main'.verified = main.verified /\ main'.checked = main.checked
      /\ main' \in MergeState
  BY <1>1, MovedOn DEF ScanComplete
<1>4. rv' \in ReverifierState /\ rv'.pc = "select" /\ rv'.scanDone = TRUE
  BY <1>1, <1>2 DEF TypeOK, ReverifierState
<1>5. live
  BY <1>1, <1>2 DEF PhaseInv, TypeOK
<1>6. TypeOK'
  BY <1>1, <1>2, <1>3, <1>4 DEF TypeOK
<1>7. PhaseInv'
  BY <1>1, <1>2, <1>3, <1>4, <1>5 DEF PhaseInv, Late, Exhausted, Over
<1>8. Looking = {} /\ Looking' = {} /\ DecidedKeys' = DecidedKeys /\ Queued' = Queued
  BY <1>2, <1>4 DEF Looking, DecidedKeys, Queued
<1>9. Handled' = Handled
  BY <1>2, <1>8 DEF Handled
<1>10. PlaceInv' /\ RetryInv'
  BY <1>1, <1>2, <1>4, <1>8 DEF PlaceInv, RetryInv, FindingsAreRetried
<1>11. LookupFresh' /\ Late'
  BY <1>3, <1>4 DEF LookupFresh, Late
<1> QED
  BY <1>2, <1>3, <1>6, <1>7, <1>9, <1>10, <1>11, MoveKeeps

\* The merge ends after the reverifier did.
LEMMA WaitForDoneKeeps ==
    ASSUME IInv, WaitForDone
    PROVE  IInv'
<1>1. TypeOK /\ PhaseInv
  BY DEF IInv
<1>2. main.pc = "wait" /\ rv.pc = "done" /\ UNCHANGED <<scan, pending, verdicts, Quiet>>
  BY DEF WaitForDone
<1>3. /\ main'.pc = "finished" /\ main'.row = main.row /\ main'.seen = main.seen
      /\ main'.verified = main.verified /\ main'.checked = main.checked + main.verified
      /\ main' \in MergeState
  BY <1>1, HasFinished DEF WaitForDone
<1>4. /\ TypeOK' /\ PlaceInv' /\ RetryInv' /\ LookupFresh' /\ Handled' = Handled
      /\ UNCHANGED <<db, scan, pending, queue, rv, verdicts, live, touched, unsure, lookups>>
  BY <1>2, <1>3, OnlyMain
<1>5. PhaseInv'
  BY <1>1, <1>2, <1>3, <1>4 DEF PhaseInv, Late, Exhausted, Over
<1>6. Late'
  BY <1>3 DEF Late
<1> QED
  BY <1>2, <1>3, <1>4, <1>5, <1>6, MoveKeeps

----------------------------------------------------------------------------
(* The merge takes a row of the truth.                                     *)

\* The merge takes the next row of the truth, with or without a flush before it.
LEMMA ScanRowKeeps ==
    ASSUME IInv, ScanRow \/ FlushAndScanRow
    PROVE  IInv'
<1> DEFINE h == Peek("truth")
<1>1. TypeOK /\ ScanInv /\ RowInv /\ PhaseInv /\ PlaceInv /\ RetryInv
  BY DEF IInv
<1>2. /\ main.pc = "truth" /\ Ready("truth") /\ scan' = Took("truth")
      /\ main' = [OnRowScan(main) EXCEPT !.pc = "target", !.row = h]
      /\ UNCHANGED <<db, rv, verdicts, live, touched, unsure, lookups, writes, faults>>
  BY DEF ScanRow, FlushAndScanRow, Quiet
<1>3. /\ scan' \in [Sides -> Iterator("truth") \cup Iterator("target")]
      /\ \A x \in Sides : scan'[x] \in Iterator(x)
      /\ ScanInv'
      /\ scan'["target"] = scan["target"]
      /\ h \in Entry("truth") /\ h.key \in Keys /\ h.row # Absent
      /\ InShard(h.key)
      /\ h.key \in T
      /\ T' = T \ {h.key}
      /\ \A k \in T : h.key <= k
      /\ h.key \notin touched => h.row = db["truth"][h.key]
  <2>1. "truth" \in Sides /\ "target" \in Sides /\ "truth" # "target"
    BY DEF Sides
  <2> QED
    BY <2>1, <1>1, <1>2, RowTaken DEF T
<1>4. /\ main'.pc = "target" /\ main'.row = h /\ main'.seen = main.seen
      /\ main'.verified = main.verified + 1
      /\ main.verified + 1 <= ProgressEvery => main'.checked = main.checked
      /\ main' \in MergeState
  BY <1>1, <1>2, <1>3, RowScanned
<1>5. /\ pending' \subseteq Keys /\ queue' \subseteq Item /\ PlaceInv' /\ RetryInv'
      /\ Handled' = Handled
      /\ live \/ (pending' = pending /\ queue' = queue)
      /\ rv.pc = "select" \/ queue' = queue
  <2>1. CASE ScanRow
    <3>1. UNCHANGED <<queue, pending>>
      BY <2>1 DEF ScanRow, Quiet
    <3>2. Handled' = Handled /\ DecidedKeys' = DecidedKeys /\ Looking' = Looking
      BY <3>1, <1>2 DEF Handled, DecidedKeys, Queued, Looking
    <3>3. PlaceInv' /\ RetryInv'
      BY <3>1, <3>2, <1>1, <1>2 DEF PlaceInv, RetryInv, FindingsAreRetried
    <3> QED
      BY <3>1, <3>2, <3>3, <1>1 DEF TypeOK
  <2>2. CASE FlushAndScanRow
    <3>1. Push /\ rv.pc = "select" /\ pending # {} /\ live
      BY <2>2 DEF FlushAndScanRow, Push
    <3> QED
      BY <3>1, <1>1, <1>2, Pushed
  <2> QED
    BY <2>1, <2>2
<1> HIDE DEF h
<1>6. TypeOK'
  BY <1>1, <1>2, <1>3, <1>4, <1>5 DEF TypeOK
<1>7. G' = G /\ GErr' = GErr /\ ~Late /\ ~Late' /\ Taken' /\ T \subseteq Int /\ G \subseteq Int
      /\ h.key \in Int /\ main.row.key \in Int /\ Keys \subseteq Int
  BY <1>1, <1>2, <1>3, <1>4, MainFields, RowVerifyAssumption
     DEF G, GErr, Late, Taken, T, Coming
<1>8. Taken => main.row.key < h.key
  BY <1>1, <1>3 DEF RowInv
<1>9. \A k \in Keys : Passed(k) => Passed(k)' /\ k # h.key
  BY <1>4, <1>7, <1>8 DEF Passed
<1>10. RowInv'
  BY <1>2, <1>3, <1>4, <1>7 DEF RowInv
<1>11. PhaseInv'
  BY <1>1, <1>2, <1>4, <1>5, <1>7 DEF PhaseInv
<1>12. TruthCover'
  BY <1>2, <1>3, <1>4, <1>7, <1>8 DEF IInv, TruthCover
<1>13. TargetCover'
  BY <1>2, <1>7, <1>9 DEF IInv, TargetCover
<1>14. HandledInv'
  <2> SUFFICES ASSUME NEW k \in Handled
               PROVE  InShard(k) /\ k < h.key /\ (~GErr => \A g \in G : k < g)
    BY <1>4, <1>5, <1>7 DEF HandledInv
  <2>1. k \in Int
    BY <1>1, <1>7, RvFields
  <2>2. InShard(k) /\ Taken /\ k <= main.row.key /\ (~GErr => \A g \in G : k < g)
    BY <1>2 DEF IInv, HandledInv
  <2> QED
    BY <2>1, <2>2, <1>7, <1>8
<1>15. TruthTold'
  <2> SUFFICES ASSUME NEW k \in Keys \ touched, InShard(k), db["truth"][k] # Absent,
                      Passed(k)', ~GErr
               PROVE  (\A g \in G : k < g) /\ (k \notin unsure => k \in Handled)
    BY <1>2, <1>5, <1>7 DEF TruthTold
  <2>1. k < h.key /\ k \in Int
    BY <1>4, <1>7 DEF Passed
  <2>2. k \notin T
    BY <2>1, <1>3, <1>7
  <2>3. Passed(k)
    BY <2>2, <1>2 DEF IInv, TruthCover, Passed
  <2> QED
    BY <2>3 DEF IInv, TruthTold
<1>16. TargetTold'
  BY <1>2, <1>5, <1>7 DEF IInv, TargetTold
<1>17. NoFalseVerdict' /\ LookupFresh'
  BY <1>2 DEF IInv, NoFalseVerdict, Truth, LookupFresh
<1>18. SeenInv'
  BY <1>2, <1>4 DEF IInv, SeenInv, Reported, QuietIsNotClean
<1>19. CountInv'
  <2>1. main.verified \in Nat /\ main.checked \in Nat /\ ProgressEvery \in Nat
    BY <1>1, MainFields, RowVerifyAssumption
  <2>2. main'.verified <= ProgressEvery => main'.checked = 0
    BY <2>1, <1>2, <1>4 DEF IInv, CountInv
  <2>3. ASSUME touched = {} PROVE main'.verified = Cardinality(Scanned')
    <3>1. db["truth"][h.key] # Absent
      BY <2>3, <1>3
    <3>2. Scanned' = Scanned \cup {h.key} /\ h.key \notin Scanned
      BY <3>1, <1>2, <1>3 DEF Scanned
    <3>3. IsFiniteSet(Scanned) /\ Cardinality(Scanned) \in Nat
      BY KeySets DEF Scanned
    <3>4. Cardinality(Scanned') = Cardinality(Scanned) + 1
      BY <3>2, <3>3, FS_AddElement
    <3>5. main.verified = Cardinality(Scanned)
      BY <2>3 DEF IInv, CountInv
    <3> QED
      BY <3>4, <3>5, <1>4
  <2> QED
    BY <2>2, <2>3, <1>2, <1>4 DEF CountInv
<1> QED
  BY <1>3, <1>5, <1>6, <1>10, <1>11, <1>12, <1>13, <1>14, <1>15, <1>16, <1>17, <1>18, <1>19
     DEF IInv

----------------------------------------------------------------------------
(* The merge tells the listener of a key.                                  *)

\* The part of the invariant that is about the listener.
LEMMA TellKeeps ==
    ASSUME IInv, NEW k \in Keys, k \notin Handled, NEW r, NEW q,
           ~(r = Absent /\ q = Absent), Tell(k, r, q), UNCHANGED Quiet,
           k \notin touched => r = db["truth"][k] /\ q = db["target"][k],
           main'.seen = main.seen \/ main'.seen = SeenAfter(r, q, main.seen)
    PROVE  /\ pending' \subseteq Keys /\ verdicts' \in [Keys -> Seq(Verdicts)]
           /\ Handled' = Handled \cup {k}
           /\ live \/ pending' = pending
           /\ PlaceInv' /\ NoFalseVerdict' /\ LookupFresh' /\ RetryInv' /\ SeenInv'
           /\ UNCHANGED <<db, queue, rv, live, touched, unsure, lookups, writes, faults>>
<1> DEFINE v == Classify(r, q, main.seen)
<1>1. UNCHANGED <<db, queue, rv, live, touched, unsure, lookups, writes, faults>>
  BY DEF Quiet
<1>2. TypeOK /\ PlaceInv /\ NoFalseVerdict /\ LookupFresh /\ RetryInv /\ SeenInv
  BY DEF IInv
<1>3. /\ pending' \subseteq Keys /\ verdicts' \in [Keys -> Seq(Verdicts)]
      /\ PlaceInv'
      /\ Handled' = Handled \cup {k}
      /\ \A j \in Keys : j # k => verdicts'[j] = verdicts[j]
      /\ verdicts[k] = << >>
      /\ \/ verdicts'[k] = <<v>> /\ pending' = pending /\ ~(live /\ v \in Findings)
         \/ verdicts'[k] = << >> /\ pending' = pending \cup {k} /\ live
  BY <1>1, <1>2, Told
<1>4. k \notin touched \cup unsure => v = Classify(db["truth"][k], db["target"][k], main.seen)
  OBVIOUS
<1>5. SeenInv'
  BY <1>1, <1>2, <1>3, ToldLoudly
<1> HIDE DEF v
<1>6. NoFalseVerdict'
  BY <1>1, <1>2, <1>3, <1>4, ToldRightly
<1>7. RetryInv'
  BY <1>1, <1>2, <1>3, ToldNoFinding
<1>8. LookupFresh'
  BY <1>1, <1>2 DEF LookupFresh
<1> QED
  BY <1>1, <1>3, <1>5, <1>6, <1>7, <1>8

\* The listener is told of the current row, and the next row is asked for.
LEMMA CurrentTold ==
    ASSUME IInv, main.pc = "target", NEW q, Tell(main.row.key, main.row.row, q),
           UNCHANGED Quiet,
           main.row.key \notin touched => q = db["target"][main.row.key],
           main' \in MergeState, main'.pc = "truth", main'.row = main.row,
           main'.verified = main.verified, main'.checked = main.checked,
           main'.seen = main.seen \/ main'.seen = SeenAfter(main.row.row, q, main.seen),
           scan' \in [Sides -> Iterator("truth") \cup Iterator("target")],
           \A x \in Sides : scan'[x] \in Iterator(x),
           ScanInv', scan'["truth"] = scan["truth"], GErr' = GErr,
           \A g \in G' : g \in G /\ main.row.key < g,
           \A g \in G : g \in G' \/ g = main.row.key
    PROVE  IInv'
<1> DEFINE k == main.row.key
<1>1. TypeOK /\ RowInv /\ PhaseInv /\ HandledInv
  BY DEF IInv
<1>2. /\ Taken /\ k \in Keys /\ InShard(k) /\ k \in Int /\ Keys \subseteq Int
      /\ k \notin touched => main.row.row = db["truth"][k]
  BY <1>1, RowVerifyAssumption DEF RowInv
<1>3. \A j \in Handled : j \in Int /\ j < k /\ InShard(j)
  BY <1>1, <1>2, RvFields DEF HandledInv
<1>4. k \notin Handled
  BY <1>2, <1>3
<1>5. /\ pending' \subseteq Keys /\ verdicts' \in [Keys -> Seq(Verdicts)]
      /\ Handled' = Handled \cup {k}
      /\ live \/ pending' = pending
      /\ PlaceInv' /\ NoFalseVerdict' /\ LookupFresh' /\ RetryInv' /\ SeenInv'
      /\ UNCHANGED <<db, queue, rv, live, touched, unsure, lookups, writes, faults>>
  BY <1>2, <1>4, TellKeeps DEF Taken
<1>6. TypeOK'
  BY <1>1, <1>5 DEF TypeOK
<1>7. T' = T /\ Taken' /\ ~Late /\ ~Late' /\ \A j \in Keys : Passed(j)' <=> j <= k
  BY <1>2 DEF T, Taken, Late, Passed
<1>8. RowInv'
  BY <1>1, <1>5, <1>7 DEF RowInv
<1>9. PhaseInv'
  BY <1>1, <1>5, <1>7 DEF PhaseInv
<1>10. TruthCover'
  BY <1>5, <1>7 DEF IInv, TruthCover
<1>11. TargetCover'
  <2>1. \A j \in Keys : Passed(j) => Passed(j)'
    BY <1>7 DEF Passed
  <2>2. Passed(k)'
    BY <1>2, <1>7
  <2> QED
    BY <2>1, <2>2, <1>5, <1>7 DEF IInv, TargetCover
<1>12. G' \subseteq Int
  BY <1>2 DEF G, Coming
<1>13. HandledInv'
  <2> SUFFICES ASSUME NEW j \in Handled \cup {k}
               PROVE  InShard(j) /\ j <= k /\ \A g \in G' : j < g
    BY <1>5, <1>7 DEF HandledInv
  <2>1. j \in Int /\ j <= k /\ InShard(j)
    BY <1>2, <1>3
  <2> QED
    BY <2>1, <1>2, <1>12
<1>14. TruthTold'
  <2> SUFFICES ASSUME NEW j \in Keys \ touched, InShard(j), db["truth"][j] # Absent,
                      j <= k, ~GErr
               PROVE  (\A g \in G' : j < g) /\ (j \notin unsure => j \in Handled \cup {k})
    BY <1>5, <1>7 DEF TruthTold
  <2>1. \A g \in G' : j < g
    BY <1>2, <1>12
  <2>2. j # k => Passed(j)
    BY <1>2 DEF Passed
  <2> QED
    BY <2>1, <2>2 DEF IInv, TruthTold
<1>15. TargetTold'
  BY <1>5 DEF IInv, TargetTold
<1>16. CountInv'
  <2>1. Scanned' = Scanned
    BY <1>5, <1>7 DEF Scanned
  <2> QED
    BY <2>1, <1>5 DEF IInv, CountInv
<1> QED
  BY <1>5, <1>6, <1>8, <1>9, <1>10, <1>11, <1>13, <1>14, <1>15, <1>16 DEF IInv

\* The listener is told of a key only the target delivered.
LEMMA TargetRowTold ==
    ASSUME IInv, Ready("target"), scan' = Took("target"),
           Tell(Peek("target").key, Absent, Peek("target").row),
           UNCHANGED <<main, Quiet>>,
           \/ main.pc = "target" /\ Peek("target").key < main.row.key
           \/ main.pc = "drain"
    PROVE  IInv'
<1> DEFINE k == Peek("target").key
           q == Peek("target").row
<1>1. TypeOK /\ ScanInv /\ RowInv /\ PhaseInv /\ HandledInv /\ TruthCover /\ TruthTold
  BY DEF IInv
<1>2. UNCHANGED <<db, touched, main>>
  BY DEF Quiet
<1>3. /\ scan' \in [Sides -> Iterator("truth") \cup Iterator("target")]
      /\ \A x \in Sides : scan'[x] \in Iterator(x)
      /\ ScanInv'
      /\ scan'["truth"] = scan["truth"] /\ GErr' = GErr
      /\ k \in Keys /\ q # Absent /\ InShard(k) /\ k \in G
      /\ G' = G \ {k}
      /\ \A g \in G : k <= g
      /\ k \notin touched => q = db["target"][k]
  <2>1. "truth" \in Sides /\ "target" \in Sides /\ "truth" # "target"
    BY DEF Sides
  <2> QED
    BY <2>1, <1>1, <1>2, RowTaken DEF G, GErr
<1>4. ~GErr
  BY DEF Ready, GErr
<1> HIDE DEF k, q
<1>5. Keys \subseteq Int /\ k \in Int /\ G \subseteq Int /\ main.row.key \in Int
  BY <1>1, <1>3, MainFields, RowVerifyAssumption DEF G, Coming
<1>6. k \notin Handled
  BY <1>1, <1>3, <1>4, <1>5 DEF HandledInv
<1>7. k \notin touched => db["truth"][k] = Absent
  <2> SUFFICES ASSUME k \notin touched, db["truth"][k] # Absent
               PROVE  FALSE
    OBVIOUS
  <2>1. k \in T \/ (Taken /\ k <= main.row.key)
    BY <1>1, <1>3 DEF TruthCover
  <2>2. Passed(k)
    <3>1. CASE main.pc = "target" /\ k < main.row.key
      <4>1. Taken /\ \A j \in T : main.row.key < j
        BY <3>1, <1>1 DEF RowInv
      <4> QED
        BY <4>1, <3>1, <1>5 DEF Passed
    <3>2. CASE main.pc = "drain"
      <4>1. Exhausted("truth")
        BY <3>2, <1>1 DEF PhaseInv, Late
      <4>2. T = {}
        BY <4>1, <1>1, ExhaustedEmpty DEF Exhausted, T, TypeOK, ScanInv, Sides
      <4> QED
        BY <4>2, <3>2, <2>1 DEF Passed
    <3> QED
      BY <3>1, <3>2 DEF k
  <2>3. k < k
    BY <2>2, <1>1, <1>3, <1>4 DEF TruthTold
  <2> QED
    BY <2>3, <1>5
<1>8. /\ pending' \subseteq Keys /\ verdicts' \in [Keys -> Seq(Verdicts)]
      /\ Handled' = Handled \cup {k}
      /\ live \/ pending' = pending
      /\ PlaceInv' /\ NoFalseVerdict' /\ LookupFresh' /\ RetryInv' /\ SeenInv'
      /\ UNCHANGED <<db, queue, rv, live, touched, unsure, lookups, writes, faults>>
  <2>1. Tell(k, Absent, q) /\ main'.seen = main.seen
    BY <1>2 DEF k, q
  <2> QED
    BY <2>1, <1>3, <1>6, <1>7, TellKeeps
<1>9. TypeOK'
  BY <1>1, <1>2, <1>3, <1>8 DEF TypeOK
<1>10. T' = T /\ (Taken <=> Taken') /\ (Late <=> Late') /\ \A j : Passed(j) <=> Passed(j)'
  BY <1>2, <1>3 DEF T, Taken, Late, Passed
<1>11. RowInv'
  BY <1>1, <1>2, <1>10 DEF RowInv
<1>12. PhaseInv'
  <2>1. Late => Exhausted("truth")'
    BY <1>1, <1>3 DEF PhaseInv, Exhausted
  <2>2. main.pc \notin {"flush", "complete", "wait", "finished"}
    OBVIOUS
  <2> QED
    BY <2>1, <2>2, <1>1, <1>2, <1>8, <1>10 DEF PhaseInv
<1>13. TruthCover'
  BY <1>1, <1>2, <1>10 DEF TruthCover
<1>14. TargetCover'
  <2>1. Passed(k) \/ Late
    <3>1. CASE main.pc = "target" /\ k < main.row.key
      BY <3>1, <1>1, <1>5 DEF Passed, RowInv
    <3>2. CASE main.pc = "drain"
      BY <3>2 DEF Late
    <3> QED
      BY <3>1, <3>2 DEF k
  <2> QED
    BY <2>1, <1>2, <1>3, <1>10 DEF IInv, TargetCover
<1>15. HandledInv'
  <2>1. \A g \in G' : k < g
    <3> TAKE g \in G'
    <3>1. g \in G /\ g # k /\ k <= g
      BY <1>3
    <3> QED
      BY <3>1, <1>5
  <2>2. main.pc # "truth" /\ (main.pc = "target" => k < main.row.key)
    BY DEF k
  <2> QED
    BY <2>1, <2>2, <1>1, <1>2, <1>3, <1>8, <1>10 DEF HandledInv
<1>16. TruthTold'
  BY <1>1, <1>2, <1>3, <1>8, <1>10 DEF TruthTold
<1>17. TargetTold'
  BY <1>2, <1>3, <1>8 DEF IInv, TargetTold
<1>18. CountInv'
  <2>1. Scanned' = Scanned
    BY <1>8, <1>10 DEF Scanned
  <2> QED
    BY <2>1, <1>2 DEF IInv, CountInv
<1> QED
  BY <1>3, <1>8, <1>9, <1>11, <1>12, <1>13, <1>14, <1>15, <1>16, <1>17, <1>18 DEF IInv

\* The target has no row left for the current one: it is missing.
LEMMA TargetOverKeeps ==
    ASSUME IInv, TargetOver
    PROVE  IInv'
<1>1. TypeOK /\ ScanInv /\ RowInv /\ PhaseInv /\ HandledInv /\ TargetCover /\ TruthTold
  BY DEF IInv
<1>2. main.pc = "target" /\ Over("target") /\ Goto("truth") /\ UNCHANGED <<scan, Quiet>>
  BY DEF TargetOver
<1>3. /\ main'.pc = "truth" /\ main'.row = main.row /\ main'.seen = main.seen
      /\ main'.verified = main.verified /\ main'.checked = main.checked
      /\ main' \in MergeState
  BY <1>1, <1>2, MovedOn
<1>4. UNCHANGED <<db, queue, rv, live, touched, unsure, lookups, writes, faults>>
  BY <1>2 DEF Quiet
<1>5. /\ T' = T /\ G' = G /\ GErr' = GErr /\ Taken /\ Taken' /\ ~Late /\ ~Late'
      /\ main.row.key \in Keys
  BY <1>1, <1>2, <1>3 DEF T, G, GErr, Taken, Late, RowInv
<1>6. CASE GErr
  <2>1. UNCHANGED <<pending, verdicts>>
    BY <1>6 DEF TargetOver, GErr
  <2>2. TypeOK' /\ PlaceInv' /\ RetryInv' /\ LookupFresh' /\ Handled' = Handled
    BY <2>1, <1>2, <1>3, OnlyMain
  <2>3. ScanInv' /\ NoFalseVerdict'
    BY <2>1, <1>2, <1>4 DEF IInv, ScanInv, NoFalseVerdict, Truth
  <2>4. RowInv'
    BY <1>1, <1>3, <1>4, <1>5 DEF RowInv
  <2>5. PhaseInv'
    BY <2>1, <1>1, <1>2, <1>3, <1>4, <1>5 DEF PhaseInv
  <2>6. TruthCover'
    BY <1>3, <1>4, <1>5 DEF IInv, TruthCover
  <2>7. \A k \in Keys : Passed(k) => Passed(k)'
    BY <1>3, <1>5 DEF Passed
  <2>8. TargetCover'
    BY <2>7, <1>1, <1>4, <1>5 DEF TargetCover
  <2>9. HandledInv'
    <3>1. \A k \in Handled : InShard(k) /\ k < main.row.key /\ k \in Int
      BY <1>1, <1>2, RvFields, RowVerifyAssumption DEF HandledInv
    <3>2. main.row.key \in Int
      BY <1>1, MainFields
    <3> QED
      BY <3>1, <3>2, <2>2, <1>3, <1>5, <1>6 DEF HandledInv
  <2>10. TruthTold' /\ TargetTold'
    BY <1>5, <1>6 DEF TruthTold, TargetTold
  <2>11. SeenInv'
    BY <2>1, <1>3, <1>4 DEF IInv, SeenInv, Reported, QuietIsNotClean
  <2>12. CountInv'
    <3>1. Scanned' = Scanned
      BY <1>4, <1>5 DEF Scanned
    <3> QED
      BY <3>1, <1>2, <1>3, <1>4 DEF IInv, CountInv
  <2> QED
    BY <2>2, <2>3, <2>4, <2>5, <2>6, <2>8, <2>9, <2>10, <2>11, <2>12 DEF IInv
<1>7. CASE ~GErr
  <2>1. Tell(main.row.key, main.row.row, Absent)
    BY <1>7 DEF TargetOver, GErr
  <2>2. Exhausted("target")
    BY <1>2, <1>7 DEF Over, GErr
  <2>3. G = {}
    BY <2>2, <1>1, ExhaustedEmpty DEF Exhausted, G, TypeOK, ScanInv, Sides
  <2>4. main.row.key \notin touched => db["target"][main.row.key] = Absent
    BY <2>3, <1>1, <1>2, <1>5 DEF TargetCover, RowInv, Passed
  <2>5. /\ scan' \in [Sides -> Iterator("truth") \cup Iterator("target")]
        /\ \A x \in Sides : scan'[x] \in Iterator(x)
        /\ ScanInv' /\ scan'["truth"] = scan["truth"]
    BY <1>1, <1>2, <1>4 DEF TypeOK, ScanInv
  <2> QED
    BY <2>1, <2>3, <2>4, <2>5, <1>2, <1>3, <1>5, CurrentTold
<1> QED
  BY <1>6, <1>7

\* The target has a row of the same key: the two are compared.
LEMMA TargetEqualKeeps ==
    ASSUME IInv, TargetEqual
    PROVE  IInv'
<1> DEFINE q == Peek("target").row
<1>1. TypeOK /\ ScanInv /\ RowInv
  BY DEF IInv
<1>2. /\ main.pc = "target" /\ Ready("target") /\ scan' = Took("target")
      /\ Peek("target").key = main.row.key
      /\ Tell(main.row.key, main.row.row, q)
      /\ main' = [main EXCEPT !.pc = "truth", !.seen = SeenAfter(main.row.row, q, @)]
      /\ UNCHANGED Quiet
  BY DEF TargetEqual
<1>3. UNCHANGED <<db, touched>>
  BY <1>2 DEF Quiet
<1>4. /\ scan' \in [Sides -> Iterator("truth") \cup Iterator("target")]
      /\ \A x \in Sides : scan'[x] \in Iterator(x)
      /\ ScanInv'
      /\ scan'["truth"] = scan["truth"] /\ GErr' = GErr
      /\ G' = G \ {main.row.key}
      /\ \A g \in G : main.row.key <= g
      /\ main.row.key \notin touched => q = db["target"][main.row.key]
  <2>1. "truth" \in Sides /\ "target" \in Sides /\ "truth" # "target"
    BY DEF Sides
  <2> QED
    BY <2>1, <1>1, <1>2, <1>3, RowTaken DEF G, GErr
<1>5. G \subseteq Int /\ main.row.key \in Int
  BY <1>1, MainFields, RowVerifyAssumption DEF G, Coming
<1> HIDE DEF q
<1>6. \A g \in G' : g \in G /\ main.row.key < g
  <2> TAKE g \in G'
  <2>1. g \in G /\ g # main.row.key
    BY <1>4
  <2> QED
    BY <2>1, <1>4, <1>5
<1>7. \A g \in G : g \in G' \/ g = main.row.key
  BY <1>4
<1>8. /\ main'.pc = "truth" /\ main'.row = main.row
      /\ main'.verified = main.verified /\ main'.checked = main.checked
      /\ main'.seen = SeenAfter(main.row.row, q, main.seen)
      /\ main' \in MergeState
  <2>1. main \in MergeState
    BY <1>1 DEF TypeOK
  <2>2. SeenAfter(main.row.row, q, main.seen) \in SUBSET Columns
    BY <1>1, MainFields, SeenType
  <2> QED
    BY <2>1, <2>2, <1>2 DEF MergeState
<1> QED
  BY <1>2, <1>4, <1>6, <1>7, <1>8, CurrentTold

\* The target is beyond the current row, which is missing.
LEMMA TargetAheadKeeps ==
    ASSUME IInv, TargetAhead
    PROVE  IInv'
<1>1. TypeOK /\ ScanInv /\ RowInv /\ TargetCover
  BY DEF IInv
<1>2. /\ main.pc = "target" /\ Ready("target") /\ Goto("truth")
      /\ Peek("target").key > main.row.key
      /\ Tell(main.row.key, main.row.row, Absent)
      /\ UNCHANGED <<scan, Quiet>>
  BY DEF TargetAhead
<1>3. /\ main'.pc = "truth" /\ main'.row = main.row /\ main'.seen = main.seen
      /\ main'.verified = main.verified /\ main'.checked = main.checked
      /\ main' \in MergeState
  BY <1>1, <1>2, MovedOn
<1>4. Peek("target").key \in Keys /\ \A g \in G : Peek("target").key <= g
  <2>1. /\ scan["target"] \in Iterator("target") /\ IteratorOK(scan["target"])
        /\ scan["target"].cache # << >> /\ "target" \in Sides
    BY <1>1, <1>2 DEF TypeOK, ScanInv, Sides, Ready
  <2>2. /\ Head(scan["target"].cache) \in Entry("target")
        /\ \A g \in Coming(scan["target"]) : Head(scan["target"].cache).key <= g
    BY <2>1, TakeHead
  <2> QED
    BY <2>2 DEF Peek, G, Entry
<1>5. /\ main.row.key \in Int /\ Peek("target").key \in Int /\ G \subseteq Int
  BY <1>1, <1>4, MainFields, RowVerifyAssumption DEF G, Coming
<1>6. \A g \in G : main.row.key < g
  <2> TAKE g \in G
  <2>1. g \in Int /\ Peek("target").key <= g /\ Peek("target").key > main.row.key
    BY <1>2, <1>4, <1>5
  <2> QED
    BY <2>1, <1>5
<1>7. main.row.key \notin touched => db["target"][main.row.key] = Absent
  <2>1. main.row.key \notin G /\ ~Late /\ ~Passed(main.row.key)
    BY <1>2, <1>5, <1>6 DEF Late, Passed
  <2> QED
    BY <2>1, <1>1, <1>2 DEF TargetCover, RowInv
<1>8. /\ scan' \in [Sides -> Iterator("truth") \cup Iterator("target")]
      /\ \A x \in Sides : scan'[x] \in Iterator(x)
      /\ ScanInv' /\ scan'["truth"] = scan["truth"] /\ GErr' = GErr /\ G' = G
  BY <1>1, <1>2 DEF TypeOK, ScanInv, GErr, G, Quiet
<1> QED
  BY <1>2, <1>3, <1>6, <1>7, <1>8, CurrentTold

----------------------------------------------------------------------------
(* The inductive invariant.                                                *)

\* The inductive invariant holds at the start.
LEMMA InitIInv == Init => IInv
<1> SUFFICES ASSUME Init
             PROVE  IInv
  OBVIOUS
<1>1. /\ db \in Contents /\ db \in Database
      /\ scan = [s \in Sides |-> NewScan]
      /\ pending = {} /\ queue = {} /\ touched = {} /\ unsure = {}
      /\ verdicts = [k \in Keys |-> << >>] /\ lookups = [k \in Keys |-> 0]
      /\ live \in BOOLEAN /\ writes = 0 /\ faults = 0
  BY RowVerifyAssumption DEF Init
<1>2. /\ main.pc = "truth" /\ main.row = [key |-> Start, row |-> Absent] /\ main.seen = {}
      /\ main.verified = 0 /\ main.checked = 0
      /\ main \in MergeState
  BY DEF Init, MergeState, Row
<1>3. /\ rv.pc = "select" /\ rv.scanDone = FALSE
      /\ rv \in ReverifierState
  BY DEF Init, ReverifierState, Row
<1>4. /\ \A s \in Sides : scan[s] = NewScan /\ NewScan \in Iterator(s) /\ IteratorOK(NewScan)
      /\ Coming(NewScan) = Keys
      /\ \A t, W : Fresh(NewScan, t, W)
  BY <1>1, NewIterator DEF Sides
<1>5. TypeOK
  <2>1. scan \in [Sides -> Iterator("truth") \cup Iterator("target")]
    BY <1>1, <1>4 DEF Sides
  <2>2. \A s \in Sides : scan[s] \in Iterator(s)
    BY <1>4
  <2>3. verdicts \in [Keys -> Seq(Verdicts)] /\ lookups \in [Keys -> Nat]
    BY <1>1
  <2>4. writes \in 0..MaxWrites /\ faults \in 0..MaxFaults
    BY <1>1, RowVerifyAssumption
  <2> QED
    BY <2>1, <2>2, <2>3, <2>4, <1>1, <1>2, <1>3 DEF TypeOK
<1>6. T = Keys /\ G = Keys /\ ~Taken /\ ~Late /\ \A k : ~Passed(k)
  BY <1>2, <1>4 DEF T, G, Taken, Late, Passed, Sides
<1>7. DecidedKeys = {} /\ Looking = {} /\ Queued = {} /\ Handled = {}
  BY <1>1, <1>3 DEF DecidedKeys, Looking, Queued, Handled
<1>8. ScanInv
  BY <1>4 DEF ScanInv
<1>9. RowInv /\ PhaseInv /\ TruthCover /\ TargetCover
  BY <1>1, <1>2, <1>3, <1>6 DEF RowInv, PhaseInv, TruthCover, TargetCover
<1>10. \A k \in Keys : verdicts[k] = << >> /\ Len(verdicts[k]) = 0 /\ DOMAIN verdicts[k] = {}
  BY <1>1
<1>11. PlaceInv
  BY <1>1, <1>3, <1>7, <1>10 DEF PlaceInv
<1>12. HandledInv /\ TruthTold /\ TargetTold
  BY <1>6, <1>7 DEF HandledInv, TruthTold, TargetTold
<1>13. NoFalseVerdict /\ LookupFresh
  BY <1>3, <1>10 DEF NoFalseVerdict, LookupFresh
<1>14. RetryInv /\ SeenInv
  BY <1>1, <1>2, <1>7, <1>10 DEF RetryInv, FindingsAreRetried, SeenInv, QuietIsNotClean
<1>15. CountInv
  <2>1. Scanned = {}
    BY <1>6 DEF Scanned
  <2>2. Cardinality(Scanned) = 0
    BY <2>1, FS_EmptySet
  <2> QED
    BY <2>2, <1>2 DEF CountInv
<1> QED
  BY <1>5, <1>8, <1>9, <1>11, <1>12, <1>13, <1>14, <1>15 DEF IInv

\* A stuttering step keeps the inductive invariant.
LEMMA StutterIInv ==
    ASSUME IInv, UNCHANGED vars
    PROVE  IInv'
<1>1. UNCHANGED <<db, scan, main, pending, queue, rv, verdicts, live, touched, unsure, lookups,
                  writes, faults>>
  BY DEF vars
<1>2. TypeOK'
  BY <1>1 DEF IInv, TypeOK
<1>3. ScanInv' /\ RowInv' /\ TruthCover' /\ TargetCover' /\ CountInv'
  BY <1>1, ScanStill DEF IInv
<1>4. Handled' = Handled /\ DecidedKeys' = DecidedKeys /\ Looking' = Looking
  BY <1>1 DEF Handled, DecidedKeys, Queued, Looking
<1>5. HandledInv' /\ TruthTold' /\ TargetTold'
  BY <1>1, <1>4, HandedOn DEF IInv
<1>6. PhaseInv'
  BY <1>1 DEF IInv, PhaseInv, Late, Exhausted, Over
<1>7. PlaceInv' /\ RetryInv' /\ SeenInv' /\ NoFalseVerdict' /\ LookupFresh'
  BY <1>1, <1>4 DEF IInv, PlaceInv, RetryInv, FindingsAreRetried, SeenInv, Reported,
                    QuietIsNotClean, NoFalseVerdict, Truth, LookupFresh
<1> QED
  BY <1>2, <1>3, <1>5, <1>6, <1>7 DEF IInv

\* Every step keeps the inductive invariant, one lemma per action.
LEMMA StepIInv == IInv /\ [Next]_vars => IInv'
<1> SUFFICES ASSUME IInv, [Next]_vars
             PROVE  IInv'
  OBVIOUS
<1>1. CASE UNCHANGED vars
  BY <1>1, StutterIInv
<1>2. CASE Merge
  <2>1. CASE ScanRow \/ FlushAndScanRow
    BY <2>1, ScanRowKeeps
  <2>2. CASE TargetOver
    BY <2>2, TargetOverKeeps
  <2>3. CASE TargetBehind
    BY <2>3, TargetRowTold DEF TargetBehind
  <2>4. CASE TargetEqual
    BY <2>4, TargetEqualKeeps
  <2>5. CASE TargetAhead
    BY <2>5, TargetAheadKeeps
  <2>6. CASE TruthOver
    BY <2>6, TruthOverKeeps
  <2>7. CASE DrainRow
    BY <2>7, TargetRowTold DEF DrainRow
  <2>8. CASE DrainOver
    BY <2>8, DrainOverKeeps
  <2>9. CASE FinalFlush
    BY <2>9, FinalFlushKeeps
  <2>10. CASE ScanComplete
    BY <2>10, ScanCompleteKeeps
  <2>11. CASE WaitForDone
    BY <2>11, WaitForDoneKeeps
  <2> QED
    BY <1>2, <2>1, <2>2, <2>3, <2>4, <2>5, <2>6, <2>7, <2>8, <2>9, <2>10, <2>11 DEF Merge
<1>3. CASE Reverify
  BY <1>3, PopItemKeeps, LookupKeeps, RoundKeeps, ReverifierEndsKeeps DEF Reverify
<1>4. CASE \E s \in Sides : FetchPage(s) \/ FetchFails(s) \/ Receive(s)
  BY <1>4, PagesKeep
<1>5. CASE LookupTruthCut \/ LookupTargetCut \/ LookupFails
  BY <1>5, LookupKeeps, RoundKeeps
<1>6. CASE \E s \in Sides, k \in Keys : Write(s, k)
  BY <1>6, WriteKeeps
<1> QED
  BY <1>1, <1>2, <1>3, <1>4, <1>5, <1>6 DEF Next

\* The inductive invariant holds in every state.
LEMMA Invariance == Spec => []IInv
BY InitIInv, StepIInv, PTL DEF Spec

----------------------------------------------------------------------------
(* The theorems.                                                           *)

\* The iterators, the merge, the listener and the reverifier keep their shape
\* through every interleaving, fault and write.
THEOREM TypeCorrect == Spec => []TypeOK
<1>1. IInv => TypeOK
  BY DEF IInv
<1> QED
  BY <1>1, Invariance, PTL

\* verifyRows and the live reverifier decide a key at most once, and a key that
\* waits to be looked up again is in one place and not decided.
THEOREM KeysAreHandledOnce == Spec => []HandledOnce
<1>1. IInv => HandledOnce
  <2> SUFFICES ASSUME IInv
               PROVE  HandledOnce
    OBVIOUS
  <2>1. TypeOK /\ PlaceInv /\ HandledInv
    BY DEF IInv
  <2>2. \A S, R \in ItemKeys \cup {pending, Looking} : S # R => S \cap R = {}
    <3>1. \A it, jt \in queue : it.keys # jt.keys => it.keys \cap jt.keys = {}
      BY <2>1 DEF PlaceInv
    <3>2. \A it \in queue : it.keys \cap pending = {} /\ it.keys \cap Looking = {}
      BY <2>1 DEF PlaceInv
    <3>3. pending \cap Looking = {}
      BY <2>1 DEF PlaceInv
    <3> QED
      BY <3>1, <3>2, <3>3 DEF ItemKeys
  <2>3. \A k \in UNION (ItemKeys \cup {pending, Looking}) : verdicts[k] = << >>
    <3> TAKE k \in UNION (ItemKeys \cup {pending, Looking})
    <3>1. k \in Handled /\ k \notin DecidedKeys
      BY <2>1 DEF PlaceInv, ItemKeys, Handled, Queued
    <3>2. k \in Keys
      BY <3>1, <2>1, RvFields
    <3> QED
      BY <3>1, <3>2 DEF DecidedKeys
  <2>4. \A k \in Keys : verdicts[k] # << >> => InShard(k)
    BY <2>1 DEF HandledInv, Handled, DecidedKeys
  <2>5. \A k \in Keys : Len(verdicts[k]) <= 1
    BY <2>1 DEF PlaceInv
  <2> QED
    BY <2>2, <2>3, <2>4, <2>5 DEF HandledOnce
<1> QED
  BY <1>1, Invariance, PTL

\* A row nobody wrote is never called something it is not: neither pages read at
\* different times nor a failing target produce a false finding or match.
THEOREM VerdictsAreTrue == Spec => []NoFalseVerdict
<1>1. IInv => NoFalseVerdict
  BY DEF IInv
<1> QED
  BY <1>1, Invariance, PTL

\* A shard that ends without an error has decided every row of its range that
\* nobody wrote, rightly and once.
THEOREM FinishedShardsAreExact == Spec => []FinishedIsExact
<1>1. IInv => FinishedIsExact
  <2> SUFFICES ASSUME IInv, main.pc = "finished", ~GErr,
                      NEW k \in Keys \ (touched \cup unsure), InShard(k)
               PROVE  Decided(k)
    BY DEF FinishedIsExact, GErr
  <2>1. TypeOK /\ ScanInv /\ PhaseInv /\ TruthCover /\ TruthTold /\ TargetTold /\ PlaceInv
        /\ NoFalseVerdict
    BY DEF IInv
  <2>2. Exhausted("truth") /\ Exhausted("target")
    BY <2>1 DEF PhaseInv, Late, Over, GErr
  <2>3. T = {} /\ G = {}
    BY <2>1, <2>2, ExhaustedEmpty DEF Exhausted, T, G, TypeOK, ScanInv, Sides
  <2>4. pending = {} /\ queue = {} /\ Looking = {}
    BY <2>1 DEF PhaseInv, Looking
  <2>5. Handled = DecidedKeys
    BY <2>4 DEF Handled, Queued
  <2>6. db["truth"][k] # Absent \/ db["target"][k] # Absent => verdicts[k] # << >>
    <3>1. CASE db["truth"][k] # Absent
      <4>1. Passed(k)
        BY <3>1, <2>1, <2>3 DEF TruthCover, Passed
      <4> QED
        BY <3>1, <4>1, <2>1, <2>5 DEF TruthTold, DecidedKeys
    <3>2. CASE db["truth"][k] = Absent /\ db["target"][k] # Absent
      BY <3>2, <2>1, <2>3, <2>5 DEF TargetTold, DecidedKeys
    <3> QED
      BY <3>1, <3>2
  <2>7. Truth(k) = "none" <=> (db["truth"][k] = Absent /\ db["target"][k] = Absent)
    BY Classified DEF Truth
  <2>8. verdicts[k] \in Seq(Verdicts) /\ Len(verdicts[k]) <= 1
    BY <2>1 DEF TypeOK, PlaceInv
  <2>9. verdicts[k] # << >> => /\ Len(verdicts[k]) = 1 /\ verdicts[k][1] \in Verdicts
                               /\ SameClass(verdicts[k][1], Truth(k))
    <3> SUFFICES ASSUME verdicts[k] # << >>
                 PROVE  Len(verdicts[k]) = 1 /\ verdicts[k][1] \in Verdicts
      BY <2>1 DEF NoFalseVerdict
    <3> DEFINE w == verdicts[k]
    <3>1. w \in Seq(Verdicts) /\ Len(w) <= 1 /\ w # << >>
      BY <2>8
    <3> HIDE DEF w
    <3>2. Len(w) \in Nat /\ Len(w) > 0 /\ DOMAIN w = 1..Len(w)
      BY <3>1
    <3>3. Len(w) = 1 /\ 1 \in DOMAIN w
      BY <3>1, <3>2
    <3>4. w[1] \in Verdicts
      BY <3>1, <3>3
    <3> QED
      BY <3>3, <3>4 DEF w
  <2>10. \A v \in Verdicts : ~SameClass(v, "none")
    BY DEF SameClass, Verdicts, Findings
  <2> QED
    BY <2>6, <2>7, <2>9, <2>10 DEF Decided
<1> QED
  BY <1>1, Invariance, PTL

\* Outside live mode a row that passes without a report follows a report.
THEOREM QuietShardsWereReported == Spec => []QuietIsNotClean
<1>1. IInv => QuietIsNotClean
  BY DEF IInv, SeenInv
<1> QED
  BY <1>1, Invariance, PTL

\* In live mode a row is reported as inconsistent only after MaxRetries lookups.
THEOREM FindingsWereRetried == Spec => []FindingsAreRetried
<1>1. IInv => FindingsAreRetried
  BY DEF IInv, RetryInv
<1> QED
  BY <1>1, Invariance, PTL

\* A finished shard adds the rows of the truth to rows_checked as long as no
\* progress summary was due, and never too few.
THEOREM RowsAreCounted == Spec => []RowsCheckedExact
<1>1. IInv => RowsCheckedExact
  <2> SUFFICES ASSUME IInv, main.pc = "finished"
               PROVE  RowsCheckedExact
    BY DEF RowsCheckedExact
  <2>1. TypeOK /\ ScanInv /\ PhaseInv /\ CountInv
    BY DEF IInv
  <2>2. Exhausted("truth")
    BY <2>1 DEF PhaseInv, Late
  <2>3. T = {}
    BY <2>1, <2>2, ExhaustedEmpty DEF Exhausted, T, TypeOK, ScanInv, Sides
  <2>4. Scanned = {k \in Keys : InShard(k) /\ db["truth"][k] # Absent}
    BY <2>3 DEF Scanned
  <2> QED
    BY <2>1, <2>4 DEF RowsCheckedExact, CountInv
<1> QED
  BY <1>1, Invariance, PTL
============================================================================
