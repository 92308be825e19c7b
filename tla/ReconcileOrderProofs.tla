------------------------ MODULE ReconcileOrderProofs ------------------------
(***************************************************************************)
(* Proofs about ReconcileOrder for every selection of tables and every     *)
(* foreign-key graph.                                                      *)
(***************************************************************************)
EXTENDS ReconcileOrder, TLAPS, WellFoundedInduction, FiniteSetTheorems

----------------------------------------------------------------------------
(* Lemmas about positions.                                                 *)

\* A non-empty set of naturals has a smallest element.
LEMMA MinOfNaturals ==
    ASSUME NEW S \in SUBSET Nat, S # {}
    PROVE  Min(S) \in S /\ \A y \in S : Min(S) <= y
<1>1. PICK x \in S : \A y \in S : <<y, x>> \notin OpToRel(<, Nat)
  BY WFMin, NatLessThanWellFounded, Zenon
<1>2. \A y \in S : ~(y < x)
  BY <1>1, Zenon DEF OpToRel
<1>3. \A y \in S : x <= y
  BY <1>2
<1> QED
  BY <1>3 DEF Min

\* The indexes are a finite interval, and so every set of them is finite.
LEMMA IndexFinite ==
    ASSUME TypeOK
    PROVE  /\ Index = 1..Len(selected)
           /\ Len(selected) \in Nat
           /\ IsFiniteSet(Index)
           /\ Cardinality(Index) = Len(selected)
           /\ \A S \in SUBSET Index : IsFiniteSet(S) /\ Cardinality(S) \in Nat
<1>1. Index = 1..Len(selected) /\ Len(selected) \in Nat
  BY DEF TypeOK, Index
<1>2. IsFiniteSet(1..Len(selected)) /\ Cardinality(1..Len(selected)) = Len(selected)
  BY <1>1, FS_Interval
<1>3. \A S \in SUBSET Index : IsFiniteSet(S)
  BY <1>1, <1>2, FS_Subset
<1>4. \A S \in SUBSET Index : Cardinality(S) \in Nat
  BY <1>3, FS_CardinalityType
<1> QED
  BY <1>1, <1>2, <1>3, <1>4

\* The table placed next is ready, and no ready table precedes it.
LEMMA NextIsReady ==
    ASSUME TypeOK, ready # {}
    PROVE  NextIndex \in ready /\ \A c \in ready : NextIndex <= c
<1>1. ready \subseteq Nat
  BY IndexFinite DEF TypeOK
<1> QED
  BY <1>1, MinOfNaturals DEF NextIndex

\* Appending a table adds it to the placed ones and keeps the positions.
LEMMA PlacedAppend ==
    ASSUME TypeOK, NEW i \in Index, upsertOrder' = Append(upsertOrder, i)
    PROVE  /\ Placed' = Placed \cup {i}
           /\ Len(upsertOrder') = Len(upsertOrder) + 1
           /\ \A k \in DOMAIN upsertOrder :
                 /\ upsertOrder'[k] = upsertOrder[k]
                 /\ {upsertOrder'[m] : m \in 1..(k - 1)}
                       = {upsertOrder[m] : m \in 1..(k - 1)}
           /\ upsertOrder'[Len(upsertOrder) + 1] = i
           /\ {upsertOrder'[m] : m \in 1..Len(upsertOrder)} = Placed
<1>1. upsertOrder \in Seq(Index)
  BY DEF TypeOK
<1>2. /\ Len(upsertOrder) \in Nat
      /\ DOMAIN upsertOrder = 1..Len(upsertOrder)
      /\ DOMAIN upsertOrder' = 1..(Len(upsertOrder) + 1)
      /\ Len(upsertOrder') = Len(upsertOrder) + 1
  BY <1>1
<1>3. \A k \in 1..Len(upsertOrder) : upsertOrder'[k] = upsertOrder[k]
  BY <1>1, <1>2
<1>4. upsertOrder'[Len(upsertOrder) + 1] = i
  BY <1>1, <1>2
<1>5. Placed' = Placed \cup {i}
  <2>1. \A k \in 1..(Len(upsertOrder) + 1) :
           k \in 1..Len(upsertOrder) \/ k = Len(upsertOrder) + 1
    BY <1>2
  <2>2. Len(upsertOrder) + 1 \in 1..(Len(upsertOrder) + 1)
    BY <1>2
  <2>3. \A k \in 1..Len(upsertOrder) : k \in 1..(Len(upsertOrder) + 1)
    BY <1>2
  <2> QED
    BY <1>2, <1>3, <1>4, <2>1, <2>2, <2>3, Zenon DEF Placed
<1>6. \A k \in 1..Len(upsertOrder) :
         {upsertOrder'[m] : m \in 1..(k - 1)} = {upsertOrder[m] : m \in 1..(k - 1)}
  <2>1. \A k \in 1..Len(upsertOrder) : \A m \in 1..(k - 1) : m \in 1..Len(upsertOrder)
    BY <1>2
  <2> QED
    BY <1>3, <2>1, Zenon
<1>7. {upsertOrder'[m] : m \in 1..Len(upsertOrder)} = Placed
  BY <1>2, <1>3, Zenon DEF Placed
<1> QED
  BY <1>2, <1>3, <1>4, <1>5, <1>6, <1>7

\* Placed tables are selected tables.
LEMMA PlacedIndexes ==
    ASSUME TypeOK
    PROVE  Placed \subseteq Index
BY DEF TypeOK, Placed

----------------------------------------------------------------------------
(* The invariant of the loop.                                              *)

\* Placing a ready table removes it from what its children wait for.
LEMMA ReleasedCounts ==
    ASSUME TypeOK, LoopInv, pc = "loop", NEW i \in ready, NEW c \in Index
    PROVE  /\ Released(i)[c] = Cardinality(ParentsOf(c) \ (Placed \cup {i}))
           /\ Released(i)[c] \in Nat
<1>1. i \in Index /\ i \notin Placed
  BY DEF LoopInv, TypeOK
<1> DEFINE W == ParentsOf(c) \ Placed
<1>2. W \in SUBSET Index /\ IsFiniteSet(W) /\ Cardinality(W) \in Nat
  <2>1. W \in SUBSET Index
    BY DEF ParentsOf
  <2> QED
    BY <2>1, IndexFinite
<1>3. indegree[c] = Cardinality(W)
  BY DEF LoopInv
<1>4. ParentsOf(c) \ (Placed \cup {i}) = W \ {i}
  OBVIOUS
<1>5. IsFiniteSet(W \ {i}) /\ Cardinality(W \ {i}) \in Nat
  BY <1>2, IndexFinite
<1>6. i \in W <=> c \in ChildrenOf(i)
  BY <1>1 DEF ParentsOf, ChildrenOf
<1>7. Cardinality(W \ {i}) = IF i \in W THEN Cardinality(W) - 1 ELSE Cardinality(W)
  BY <1>2, FS_RemoveElement
<1>8. Released(i)[c] = IF c \in ChildrenOf(i) THEN indegree[c] - 1 ELSE indegree[c]
  BY DEF Released
<1> HIDE DEF W
<1> QED
  BY <1>3, <1>4, <1>5, <1>6, <1>7, <1>8

\* The initial state satisfies the types and the loop's invariant.
LEMMA InitInv == Init => TypeOK /\ LoopInv
<1> SUFFICES ASSUME Init
             PROVE  TypeOK /\ LoopInv
  OBVIOUS
<1>1. PICK in \in Inputs : selected = in.selected /\ schema = in.schema
  BY DEF Init
<1>2. selected \in Seq(Table) /\ schema \in [DOMAIN schema -> SUBSET Table]
  BY <1>1, InputAssumption
<1>3. TypeOK
  BY <1>2 DEF Init, TypeOK, Index
<1>4. LoopInv
  BY DEF Init, LoopInv
<1> QED
  BY <1>3, <1>4

\* The first loop establishes the invariant.
LEMMA CollectInv ==
    ASSUME TypeOK, LoopInv, CollectEdges
    PROVE  TypeOK' /\ LoopInv'
<1>1. selected' = selected /\ schema' = schema /\ Index' = Index
  BY DEF CollectEdges, Index
<1>2. edges' = ForeignKeyEdges /\ edges' \subseteq Index \X Index
  BY DEF CollectEdges, ForeignKeyEdges
<1>3. upsertOrder = << >> /\ upsertOrder' = << >> /\ Placed' = {}
  BY DEF CollectEdges, LoopInv, Placed
<1>4. indegree' = [c \in Index |-> Cardinality({p \in Index : <<p, c>> \in edges'})]
  BY DEF CollectEdges
<1>5. \A c \in Index : {p \in Index : <<p, c>> \in edges'} \in SUBSET Index
  OBVIOUS
<1>6. indegree' \in [Index -> Nat]
  BY <1>4, <1>5, IndexFinite
<1>7. ready' = {c \in Index : indegree'[c] = 0} /\ pc' = "loop" /\ reported' = reported
  BY DEF CollectEdges
<1>8. TypeOK'
  BY <1>1, <1>2, <1>3, <1>6, <1>7 DEF TypeOK
<1>9. \A c \in Index : ParentsOf(c)' = {p \in Index : <<p, c>> \in edges'}
  BY <1>1 DEF ParentsOf
<1>10. \A c \in Index : indegree'[c] = Cardinality(ParentsOf(c)' \ Placed')
  <2> SUFFICES ASSUME NEW c \in Index
               PROVE  indegree'[c] = Cardinality(ParentsOf(c)' \ Placed')
    OBVIOUS
  <2>1. ParentsOf(c)' \ Placed' = {p \in Index : <<p, c>> \in edges'}
    BY <1>3, <1>9
  <2> QED
    BY <1>4, <2>1
<1>11. Cardinality(Placed') = Len(upsertOrder')
  BY <1>3, FS_EmptySet
<1>12. ForeignKeyEdges' = ForeignKeyEdges
  BY <1>1 DEF ForeignKeyEdges
<1> QED
  BY <1>1, <1>2, <1>3, <1>7, <1>8, <1>10, <1>11, <1>12 DEF LoopInv

\* An iteration keeps it.
LEMMA PlaceInv ==
    ASSUME TypeOK, LoopInv, PlaceNext
    PROVE  TypeOK' /\ LoopInv'
<1> DEFINE i == NextIndex
<1>1. /\ pc = "loop" /\ pc' = "loop" /\ ready # {}
      /\ selected' = selected /\ schema' = schema /\ edges' = edges
      /\ reported' = reported
      /\ upsertOrder' = Append(upsertOrder, i)
      /\ indegree' = Released(i)
      /\ ready' = ReadyAfter(i)
  BY DEF PlaceNext
<1>2. i \in ready
  BY <1>1, NextIsReady
<1> HIDE DEF i
<1>3. Index' = Index /\ ForeignKeyEdges' = ForeignKeyEdges
  BY <1>1 DEF Index, ForeignKeyEdges
<1>4. \A c : ParentsOf(c)' = ParentsOf(c)
  BY <1>1, <1>3 DEF ParentsOf
<1>5. i \in Index /\ i \notin Placed /\ indegree[i] = 0
  BY <1>1, <1>2 DEF LoopInv, TypeOK
<1>6. Placed' = Placed \cup {i}
  BY <1>1, <1>5, PlacedAppend
<1>7. \A c \in Index : /\ indegree'[c] = Cardinality(ParentsOf(c) \ Placed')
                       /\ indegree'[c] \in Nat
  BY <1>1, <1>2, <1>6, ReleasedCounts
<1>8. indegree' \in [Index -> Nat]
  BY <1>1, <1>7 DEF Released
<1>9. upsertOrder' \in Seq(Index) /\ Len(upsertOrder) \in Nat
  BY <1>1, <1>5 DEF TypeOK
<1>10. ready' \subseteq Index
  BY <1>1 DEF ReadyAfter, ChildrenOf, TypeOK
<1>11. TypeOK'
  BY <1>1, <1>3, <1>8, <1>9, <1>10 DEF TypeOK
<1>12. ParentsOf(i) \subseteq Placed
  <2>1. ParentsOf(i) \ Placed \in SUBSET Index
    BY DEF ParentsOf
  <2>2. IsFiniteSet(ParentsOf(i) \ Placed)
    BY <2>1, IndexFinite
  <2>3. Cardinality(ParentsOf(i) \ Placed) = 0
    BY <1>1, <1>5 DEF LoopInv
  <2> QED
    BY <2>2, <2>3, FS_EmptySet
<1>13. ready' = {c \in Index : indegree'[c] = 0} \ Placed'
  <2>1. \A c \in Index : c \notin ChildrenOf(i) => indegree'[c] = indegree[c]
    BY <1>1 DEF Released
  <2>2. \A c \in ChildrenOf(i) : i \in ParentsOf(c) /\ c \in Index
    BY <1>5 DEF ChildrenOf, ParentsOf
  <2>3. \A c \in Placed : ParentsOf(c) \subseteq Placed
    <3> SUFFICES ASSUME NEW c \in Placed
                 PROVE  ParentsOf(c) \subseteq Placed
      OBVIOUS
    <3>1. PICK k \in DOMAIN upsertOrder : upsertOrder[k] = c
      BY DEF Placed
    <3>2. ParentsOf(c) \subseteq {upsertOrder[m] : m \in 1..(k - 1)}
      BY <1>1, <3>1 DEF LoopInv
    <3>3. \A m \in 1..(k - 1) : m \in DOMAIN upsertOrder
      BY <3>1 DEF TypeOK
    <3> QED
      BY <3>2, <3>3, Zenon DEF Placed
  <2>4. \A c \in ChildrenOf(i) : c \notin Placed /\ c # i
    BY <1>5, <1>12, <2>2, <2>3
  <2>5. \A c \in ChildrenOf(i) : c \notin ready
    <3> SUFFICES ASSUME NEW c \in ChildrenOf(i), c \in ready
                 PROVE  FALSE
      OBVIOUS
    <3>1. c \in Index /\ i \in ParentsOf(c) \ Placed
      BY <1>5, <2>2
    <3>2. Cardinality(ParentsOf(c) \ Placed) = 0
      BY <1>1, <3>1 DEF LoopInv
    <3>3. ParentsOf(c) \ Placed \in SUBSET Index
      BY DEF ParentsOf
    <3>4. IsFiniteSet(ParentsOf(c) \ Placed)
      BY <3>3, IndexFinite
    <3> QED
      BY <3>1, <3>2, <3>4, FS_EmptySet
  <2>6. ready = {c \in Index : indegree[c] = 0} \ Placed
    BY <1>1 DEF LoopInv
  <2>7. ready' = (ready \ {i}) \cup {c \in ChildrenOf(i) : indegree'[c] = 0}
    BY <1>1 DEF ReadyAfter
  <2> QED
    BY <1>6, <2>1, <2>2, <2>4, <2>5, <2>6, <2>7
<1>14. Cardinality(Placed') = Len(upsertOrder')
  <2>1. IsFiniteSet(Placed)
    BY PlacedIndexes, IndexFinite
  <2>2. Cardinality(Placed) = Len(upsertOrder)
    BY <1>1 DEF LoopInv
  <2>3. Cardinality(Placed \cup {i}) = Cardinality(Placed) + 1
    BY <1>5, <2>1, FS_AddElement
  <2>4. Len(upsertOrder') = Len(upsertOrder) + 1
    BY <1>1, <1>5, PlacedAppend
  <2> QED
    BY <1>6, <2>2, <2>3, <2>4
<1>15. \A k \in DOMAIN upsertOrder' :
          ParentsOf(upsertOrder'[k]) \subseteq {upsertOrder'[m] : m \in 1..(k - 1)}
  <2> SUFFICES ASSUME NEW k \in DOMAIN upsertOrder'
               PROVE  ParentsOf(upsertOrder'[k])
                         \subseteq {upsertOrder'[m] : m \in 1..(k - 1)}
    OBVIOUS
  <2>1. k \in DOMAIN upsertOrder \/ k = Len(upsertOrder) + 1
    BY <1>1 DEF TypeOK
  <2>2. CASE k \in DOMAIN upsertOrder
    <3>1. /\ upsertOrder'[k] = upsertOrder[k]
          /\ {upsertOrder'[m] : m \in 1..(k - 1)} = {upsertOrder[m] : m \in 1..(k - 1)}
      BY <1>1, <1>5, <2>2, PlacedAppend
    <3>2. ParentsOf(upsertOrder[k]) \subseteq {upsertOrder[m] : m \in 1..(k - 1)}
      BY <1>1, <2>2 DEF LoopInv
    <3> QED
      BY <3>1, <3>2, Zenon
  <2>3. CASE k = Len(upsertOrder) + 1
    <3>1. upsertOrder'[k] = i
      BY <1>1, <1>5, <2>3, PlacedAppend
    <3>2. k - 1 = Len(upsertOrder)
      BY <1>9, <2>3
    <3>3. {upsertOrder'[m] : m \in 1..(k - 1)} = Placed
      BY <1>1, <1>5, <3>2, PlacedAppend
    <3> QED
      BY <1>12, <3>1, <3>3
  <2> QED
    BY <2>1, <2>2, <2>3
<1>16. edges' = ForeignKeyEdges'
  BY <1>1, <1>3 DEF LoopInv
<1> QED
  BY <1>1, <1>3, <1>4, <1>7, <1>11, <1>13, <1>14, <1>15, <1>16 DEF LoopInv

\* Every step keeps the types and the loop's invariant.
LEMMA NextInv == TypeOK /\ LoopInv /\ [Next]_vars => TypeOK' /\ LoopInv'
<1> SUFFICES ASSUME TypeOK, LoopInv, [Next]_vars
             PROVE  TypeOK' /\ LoopInv'
  OBVIOUS
<1>1. CASE TableMissing
  BY <1>1 DEF TableMissing, TypeOK, LoopInv, Index
<1>2. CASE CollectEdges
  BY <1>2, CollectInv
<1>3. CASE PlaceNext
  BY <1>3, PlaceInv
<1>4. CASE Finish
  <2>1. /\ UNCHANGED <<selected, schema, edges, indegree, ready, upsertOrder>>
        /\ pc = "loop" /\ ready = {}
        /\ pc' = IF Len(upsertOrder) = Len(selected) THEN "ok" ELSE "cycle"
        /\ reported' = IF Len(upsertOrder) = Len(selected) THEN {}
                       ELSE {c \in Index : indegree[c] > 0}
    BY <1>4 DEF Finish
  <2>2. Index' = Index /\ Placed' = Placed /\ ForeignKeyEdges' = ForeignKeyEdges
    BY <2>1 DEF Index, Placed, ForeignKeyEdges
  <2>3. \A c : ParentsOf(c)' = ParentsOf(c)
    BY <2>1, <2>2 DEF ParentsOf
  <2>4. TypeOK'
    BY <2>1, <2>2 DEF TypeOK
  <2>5. LoopInv'
    BY <2>1, <2>2, <2>3 DEF LoopInv
  <2> QED
    BY <2>4, <2>5
<1>5. CASE UNCHANGED vars
  <2>1. Index' = Index /\ Placed' = Placed /\ ForeignKeyEdges' = ForeignKeyEdges
    BY <1>5 DEF vars, Index, Placed, ForeignKeyEdges
  <2>2. \A c : ParentsOf(c)' = ParentsOf(c)
    BY <1>5, <2>1 DEF vars, ParentsOf
  <2>3. TypeOK'
    BY <1>5, <2>1 DEF vars, TypeOK
  <2>4. /\ pc' = pc /\ edges' = edges /\ indegree' = indegree /\ ready' = ready
        /\ upsertOrder' = upsertOrder /\ selected' = selected /\ reported' = reported
    BY <1>5 DEF vars
  <2>5. LoopInv'
    BY <2>1, <2>2, <2>4 DEF LoopInv
  <2> QED
    BY <2>3, <2>5
<1> QED
  BY <1>1, <1>2, <1>3, <1>4, <1>5 DEF Next

\* The types hold, in particular no indegree underflows, and the bookkeeping
\* of from_schema's loop is right for every foreign-key graph.
THEOREM LoopCorrect == Spec => [](TypeOK /\ LoopInv)
<1> QED
  BY InitInv, NextInv, PTL DEF Spec

----------------------------------------------------------------------------
(* What the result means.                                                  *)

\* A complete order has placed every table, each after its parents.
LEMMA OkIsTopological == TypeOK /\ LoopInv => OrderIsTopological
<1> SUFFICES ASSUME TypeOK, LoopInv, pc = "ok"
             PROVE  /\ Placed = Index
                    /\ Len(upsertOrder) = Len(selected)
                    /\ \A e \in ForeignKeyEdges : \E k, l \in DOMAIN upsertOrder :
                          upsertOrder[k] = e[1] /\ upsertOrder[l] = e[2] /\ k < l
  BY DEF OrderIsTopological
<1>1. Len(upsertOrder) = Len(selected) /\ Cardinality(Placed) = Len(upsertOrder)
  BY DEF LoopInv
<1>2. Placed = Index
  BY <1>1, PlacedIndexes, IndexFinite, FS_Subset
<1>3. ASSUME NEW e \in ForeignKeyEdges
      PROVE  \E k, l \in DOMAIN upsertOrder :
                upsertOrder[k] = e[1] /\ upsertOrder[l] = e[2] /\ k < l
  <2>1. e[1] \in Index /\ e[2] \in Index /\ e = <<e[1], e[2]>>
    BY <1>3 DEF ForeignKeyEdges
  <2>2. e[1] \in ParentsOf(e[2])
    BY <1>3, <2>1 DEF LoopInv, ParentsOf
  <2>3. PICK l \in DOMAIN upsertOrder : upsertOrder[l] = e[2]
    BY <1>2, <2>1 DEF Placed
  <2>4. e[1] \in {upsertOrder[m] : m \in 1..(l - 1)}
    BY <2>2, <2>3 DEF LoopInv
  <2>5. PICK k \in 1..(l - 1) : upsertOrder[k] = e[1]
    BY <2>4
  <2>6. k \in DOMAIN upsertOrder /\ k < l
    BY <2>3, <2>5 DEF TypeOK
  <2> QED
    BY <2>3, <2>5, <2>6
<1> QED
  BY <1>1, <1>2, <1>3

\* A successful plan is a topological order of all selected tables, for every
\* schema: what the reconcile pass relies on.
THEOREM OrdersAreTopological == Spec => []OrderIsTopological
<1> QED
  BY LoopCorrect, OkIsTopological, PTL

\* What remains when nothing is ready waits for what remains.
LEMMA StuckIsCycle == TypeOK /\ LoopInv => CycleIsReal
<1> SUFFICES ASSUME TypeOK, LoopInv, pc = "cycle"
             PROVE  /\ ~Acyclic(ForeignKeyEdges)
                    /\ reported # {}
                    /\ \A c \in reported : \E p \in reported :
                          <<p, c>> \in ForeignKeyEdges
  BY DEF CycleIsReal
<1>1. /\ ready = {} /\ Len(upsertOrder) # Len(selected)
      /\ reported = {c \in Index : indegree[c] > 0}
      /\ edges = ForeignKeyEdges
      /\ ready = {c \in Index : indegree[c] = 0} \ Placed
      /\ Cardinality(Placed) = Len(upsertOrder)
  BY DEF LoopInv
<1>2. Placed # Index
  BY <1>1, IndexFinite
<1>3. Index \ Placed \subseteq reported
  <2>1. \A c \in Index \ Placed : indegree[c] # 0 /\ indegree[c] \in Nat
    BY <1>1 DEF TypeOK
  <2> QED
    BY <1>1, <2>1
<1>4. reported # {}
  BY <1>2, <1>3, PlacedIndexes
<1>5. ASSUME NEW c \in reported
      PROVE  \E p \in reported : <<p, c>> \in ForeignKeyEdges
  <2>1. c \in Index /\ indegree[c] = Cardinality(ParentsOf(c) \ Placed) /\ indegree[c] > 0
    BY <1>1, <1>5 DEF LoopInv
  <2>2. ParentsOf(c) \ Placed # {}
    BY <2>1, FS_EmptySet
  <2>3. PICK p \in ParentsOf(c) : p \notin Placed
    BY <2>2
  <2>4. p \in Index /\ <<p, c>> \in edges
    BY <2>3 DEF ParentsOf
  <2> QED
    BY <1>1, <1>3, <2>3, <2>4
<1>6. ~Acyclic(ForeignKeyEdges)
  <2> SUFFICES ASSUME NEW rank \in [Index -> Index],
                      \A e \in ForeignKeyEdges : rank[e[1]] < rank[e[2]]
               PROVE  FALSE
    BY DEF Acyclic
  <2> DEFINE S == {rank[c] : c \in reported}
  <2>1. reported \subseteq Index
    BY <1>1
  <2>2. S \subseteq Nat /\ S # {}
    BY <1>4, <2>1, IndexFinite
  <2>3. Min(S) \in S /\ \A y \in S : Min(S) <= y
    BY <2>2, MinOfNaturals
  <2>4. PICK c \in reported : rank[c] = Min(S)
    BY <2>3
  <2>5. PICK p \in reported : <<p, c>> \in ForeignKeyEdges
    BY <1>5
  <2>6. rank[p] < rank[c]
    BY <2>5
  <2>7. rank[p] \in S /\ rank[p] \in Nat /\ rank[c] \in Nat
    BY <2>1, <2>2
  <2> HIDE DEF S
  <2>8. rank[c] <= rank[p]
    BY <2>3, <2>4, <2>7
  <2> QED
    BY <2>6, <2>7, <2>8
<1> QED
  BY <1>4, <1>5, <1>6

\* from_schema reports a dependency cycle only when no order exists, and every
\* table it names waits for another one it names.
THEOREM CyclesAreReal == Spec => []CycleIsReal
<1> QED
  BY LoopCorrect, StuckIsCycle, PTL

----------------------------------------------------------------------------
(* The order is determined.                                                *)

\* Only the loop places tables, and the first one of the ready ones.
LEMMA NextEarliest ==
    TypeOK /\ LoopInv /\ EarliestFirst /\ [Next]_vars => EarliestFirst'
<1> SUFFICES ASSUME TypeOK, LoopInv, EarliestFirst, [Next]_vars
             PROVE  EarliestFirst'
  OBVIOUS
<1>1. CASE CollectEdges
  <2>1. upsertOrder' = << >>
    BY <1>1 DEF CollectEdges, LoopInv
  <2> QED
    BY <2>1 DEF EarliestFirst
<1>2. CASE PlaceNext
  <2> DEFINE i == NextIndex
  <2>1. /\ pc = "loop" /\ ready # {}
        /\ upsertOrder' = Append(upsertOrder, i)
        /\ selected' = selected /\ edges' = edges
    BY <1>2 DEF PlaceNext
  <2>2. i \in ready /\ \A c \in ready : i <= c
    BY <2>1, NextIsReady
  <2> HIDE DEF i
  <2>3. i \in Index /\ Index' = Index /\ \A c : ParentsOf(c)' = ParentsOf(c)
    BY <2>1, <2>2 DEF TypeOK, Index, ParentsOf
  <2>4. SUFFICES ASSUME NEW k \in DOMAIN upsertOrder',
                        NEW c \in Index \ {upsertOrder'[m] : m \in 1..(k - 1)},
                        ParentsOf(c) \subseteq {upsertOrder'[m] : m \in 1..(k - 1)}
                 PROVE  upsertOrder'[k] <= c
    BY <2>3 DEF EarliestFirst
  <2>5. k \in DOMAIN upsertOrder \/ k = Len(upsertOrder) + 1
    BY <2>1 DEF TypeOK
  <2>6. CASE k \in DOMAIN upsertOrder
    <3>1. /\ upsertOrder'[k] = upsertOrder[k]
          /\ {upsertOrder'[m] : m \in 1..(k - 1)} = {upsertOrder[m] : m \in 1..(k - 1)}
      BY <2>1, <2>3, <2>6, PlacedAppend
    <3> QED
      BY <2>4, <2>6, <3>1 DEF EarliestFirst
  <2>7. CASE k = Len(upsertOrder) + 1
    <3>1. k - 1 = Len(upsertOrder)
      BY <2>7 DEF TypeOK
    <3>2. /\ upsertOrder'[k] = i
          /\ {upsertOrder'[m] : m \in 1..(k - 1)} = Placed
      BY <2>1, <2>3, <2>7, <3>1, PlacedAppend
    <3>3. c \in Index \ Placed /\ ParentsOf(c) \ Placed = {}
      BY <2>4, <3>2
    <3>4. indegree[c] = 0
      BY <2>1, <3>3, FS_EmptySet DEF LoopInv
    <3>5. c \in ready
      BY <2>1, <3>3, <3>4 DEF LoopInv
    <3> QED
      BY <2>2, <3>2, <3>5
  <2> QED
    BY <2>5, <2>6, <2>7
<1>3. ASSUME UNCHANGED <<selected, edges, upsertOrder>>
      PROVE  EarliestFirst'
  <2>1. Index' = Index /\ \A c : ParentsOf(c)' = ParentsOf(c)
    BY <1>3 DEF Index, ParentsOf
  <2> QED
    BY <1>3, <2>1 DEF EarliestFirst
<1> QED
  BY <1>1, <1>2, <1>3 DEF Next, TableMissing, Finish, vars

\* The order depends on nothing but the selection and its foreign keys: every
\* position holds the first selected table whose parents all stand before it.
THEOREM OrderIsDetermined == Spec => []EarliestFirst
<1>1. Init => EarliestFirst
  BY DEF Init, EarliestFirst
<1> QED
  BY <1>1, NextEarliest, LoopCorrect, PTL DEF Spec
============================================================================
