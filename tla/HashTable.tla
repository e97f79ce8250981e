----------------------------- MODULE HashTable -----------------------------
(* A hash table of the engine (HashTable.php wraps it): buckets in the     *)
(* order of insertion, where a deleted bucket leaves a hole until the      *)
(* table is compacted.  The chains that lead from a key to its bucket are  *)
(* not modelled, only what they amount to: of two buckets with the same    *)
(* key the later one is found.                                             *)
EXTENDS Naturals, Sequences, FiniteSets, FiniteSetsExt

CONSTANTS Keys,     \* of the buckets
          Vals,     \* what a bucket leads to
          Undef     \* a hole (IS_UNDEF), and what find() answers for no bucket

Bucket == [key : Keys, val : Vals]

ASSUME UndefAssumption == Undef \notin Vals \cup Bucket

Tables == [arData : Seq(Bucket \cup {Undef}), nTableSize : Nat \ {0}]

EmptyTable(size) == [arData |-> << >>, nTableSize |-> size]

Live(b) == b # Undef

\* The items of s at the positions in I, in their order.
Rank(I, i) == Cardinality({j \in I : j <= i})
Chosen(s, I) == [k \in 1..Cardinality(I) |-> s[CHOOSE i \in I : Rank(I, i) = k]]

\* What becomes of x when f is applied to it with each item of s in turn.
Fold(f, x, s) ==
    LET after[i \in 0..Len(s)] == IF i = 0 THEN x ELSE f[<<after[i - 1], s[i]>>]
    IN  after[Len(s)]

\* The indexes of the live buckets, of those with a key, and the counters.
Elements(t) == {i \in DOMAIN t.arData : Live(t.arData[i])}
Holding(t, k) == {i \in Elements(t) : t.arData[i].key = k}
nNumOfElements(t) == Cardinality(Elements(t))
nNumUsed(t) == Len(t.arData)

find(t, k) ==
    IF Holding(t, k) = {} THEN Undef ELSE t.arData[Max(Holding(t, k))].val

\* zend_hash_add_or_update() with HASH_ADD_NEW, which does not look for the
\* key first.  A full table is compacted, or doubled if it has no holes.
add(t, k, x) ==
    LET full == nNumUsed(t) >= t.nTableSize
        kept == IF full THEN Chosen(t.arData, Elements(t)) ELSE t.arData
        size == IF full /\ Len(kept) = nNumUsed(t) THEN 2 * t.nTableSize ELSE t.nTableSize
    IN  [arData |-> Append(kept, [key |-> k, val |-> x]), nTableSize |-> size]

\* Mutant of delete: the key is left in the hole.
deleteValue(t, k) == [t EXCEPT !.arData[Max(Holding(t, k))].val = Undef]

\* zend_hash_del() of a key that is there: the bucket becomes a hole, and
\* holes at the end are not used any more.
delete(t, k) ==
    LET marked == [t.arData EXCEPT ![Max(Holding(t, k))] = Undef]
        last == Max({0} \cup {i \in DOMAIN marked : Live(marked[i])})
    IN  [t EXCEPT !.arData = SubSeq(marked, 1, last)]

\* Mutant of getIterator: it stops one bucket early.
getIteratorShort(t) == Chosen(t.arData, {i \in Elements(t) : i < nNumOfElements(t)})

\* What foreach sees of a table that does not change meanwhile: the live ones
\* of the first nNumOfElements (not nNumUsed) buckets.
getIterator(t) == Chosen(t.arData, {i \in Elements(t) : i <= nNumOfElements(t)})

\* No holes: there foreach sees every bucket.
Dense(t) == nNumOfElements(t) = nNumUsed(t)
=============================================================================
