----------------------------- MODULE ShardTable -----------------------------
(***************************************************************************)
(* How the key range of a table is split into shards: the range between    *)
(* the smallest and the largest key of the source of truth is divided into *)
(* numSplits parts on the first column of the primary key.  Integers have  *)
(* the width of the machine: int64 and the high half of a uuid wrap.       *)
(***************************************************************************)
EXTENDS Integers, Sequences

CONSTANTS
    MinInt, MaxInt,  \* the range of int64
    Unbounded,       \* an absent StartPKVals or EndPKVals
    NaN              \* a float extreme that is not a number, or infinite

ASSUME ShardAssumption ==
    /\ MinInt \in Int /\ MaxInt \in Int
    /\ MinInt <= -1 /\ MaxInt = -MinInt - 1
    /\ Unbounded \notin Int /\ NaN \notin Int

\* The smallest and the largest key of a table, none if it is empty.
KeyRange(kind) ==
    CASE kind = "int" -> MinInt..MaxInt
      [] kind = "uuid" -> 0..(MaxInt - MinInt)
      [] OTHER -> Int \cup {NaN}
Extremes(kind) == {<< >>} \cup (KeyRange(kind) \X KeyRange(kind))

\* Two's complement, and unsigned integers of the same width.
WrapInt(x) == ((x - MinInt) % (MaxInt - MinInt + 1)) + MinInt
WrapHi(x) == x % (MaxInt - MinInt + 1)

Larger(a, b) == IF a >= b THEN a ELSE b

\* valRange; a value that is not positive cannot be split.  Unsigned ranges
\* are never negative, a float range may not be a number.
ValRange(kind, lo, hi) ==
    CASE kind = "int" -> WrapInt(hi - lo)
      [] kind = "uuid" -> WrapHi(hi - lo)
      [] kind = "float" /\ NaN \notin {lo, hi} -> hi - lo
      [] OTHER -> 0

Splittable(kind, lo, hi) == ValRange(kind, lo, hi) > 0

\* splitVal, the boundary after shard k: at least 1 apart.  Floats are rounded
\* down to the unit of the model.
SplitVal(kind, lo, hi, n, k) ==
    LET step == Larger(ValRange(kind, lo, hi) \div n, 1)
    IN  CASE kind = "int" -> WrapInt(lo + WrapInt(step * k))
          [] kind = "uuid" -> WrapHi(lo + WrapHi(step * k))
          [] OTHER -> lo + step * k

FullScan == <<[start |-> Unbounded, end |-> Unbounded]>>

\* The last shard ends at the largest key, which the shard excludes.
ShardsToMax(kind, extremes, n) ==
    IF n = 1 \/ extremes = << >> \/ ~Splittable(kind, extremes[1], extremes[2])
    THEN FullScan
    ELSE LET split(k) == SplitVal(kind, extremes[1], extremes[2], n, k)
         IN  [k \in 1..n |->
                [start |-> IF k = 1 THEN Unbounded ELSE split(k - 1),
                 end   |-> IF k = n THEN extremes[2] ELSE split(k)]]

\* ShardTable: one shard per split, or a full scan.  The first shard has no
\* start and the last one no end.  extremes is empty for an empty table.
Shards(kind, extremes, n) ==
    IF n = 1 \/ extremes = << >> \/ ~Splittable(kind, extremes[1], extremes[2])
    THEN FullScan
    ELSE LET split(k) == SplitVal(kind, extremes[1], extremes[2], n, k)
         IN  [k \in 1..n |->
                [start |-> IF k = 1 THEN Unbounded ELSE split(k - 1),
                 end   |-> IF k = n THEN Unbounded ELSE split(k)]]

\* The rows of a shard: what its scans select.
Holds(shard, key) ==
    /\ shard.start = Unbounded \/ key >= shard.start
    /\ shard.end = Unbounded \/ key < shard.end

\* Whether the arithmetic of the splits stays within the width.
NoWrap(kind, extremes, n) ==
    \/ kind \notin {"int", "uuid"}
    \/ extremes = << >>
    \/ /\ extremes[1] <= extremes[2]
       /\ kind = "int" => extremes[2] - extremes[1] <= MaxInt
       /\ extremes[1] + n - 1 <= IF kind = "int" THEN MaxInt ELSE MaxInt - MinInt

============================================================================
