-------------------------- MODULE ReferencesProofs --------------------------
(* Theorems about References, for any variables, sorts of structures and   *)
(* bounds: that objects are counted right, live as long as they are held,  *)
(* and that C memory is freed once, by its allocator, and not forgotten.   *)
EXTENDS References, FiniteSetTheorems, TLAPS

-----------------------------------------------------------------------------
(* Cardinalities.                                                          *)

\* Two sets that differ in z at most.
LEMMA DifferInOne ==
    ASSUME NEW S, NEW T, NEW z, IsFiniteSet(S), IsFiniteSet(T), S \ {z} = T \ {z}
    PROVE  /\ Cardinality(S) \in Nat /\ Cardinality(T) \in Nat
           /\ (z \in S /\ z \notin T) => Cardinality(S) = Cardinality(T) + 1
           /\ (z \notin S /\ z \in T) => Cardinality(T) = Cardinality(S) + 1
           /\ (z \in S <=> z \in T) => S = T
  <1>1. /\ Cardinality(S \ {z}) = IF z \in S THEN Cardinality(S) - 1 ELSE Cardinality(S)
        /\ Cardinality(T \ {z}) = IF z \in T THEN Cardinality(T) - 1 ELSE Cardinality(T)
    BY FS_RemoveElement
  <1>2. Cardinality(S) \in Nat /\ Cardinality(T) \in Nat
    BY FS_CardinalityType
  <1>3. (z \in S <=> z \in T) => S = T
    OBVIOUS
  <1> QED BY <1>1, <1>2, <1>3

LEMMA FiniteBlocks == IsFiniteSet(Blocks)
  BY FS_Interval, ReferencesAssumption DEF Blocks

LEMMA Constants ==
    /\ Null \notin Nat /\ Null \notin Handles /\ Null \notin Blocks
    /\ NULL \notin Blocks /\ Null # NULL
    /\ Handles \subseteq Nat /\ Blocks \subseteq Nat
  BY ReferencesAssumption DEF Handles, Blocks, NULL

-----------------------------------------------------------------------------
(* What freeing does to a heap.                                            *)

Heaps == [memory : [Blocks -> Memory], extra : [Handles -> Int], corrupt : BOOLEAN]

\* Of what the C structures of a heap hold, and of what is lost.
Held(h, o) == {b \in Blocks : h.memory[b].data = o}
Kept(h, o) == Cardinality(Held(h, o)) + h.extra[o]

\* r is h without the blocks of B: the references in them are lost, not gone.
Frees(h, r, B) ==
    /\ r \in Heaps
    /\ r.memory = [b \in Blocks |-> IF b \in B THEN NoMemory ELSE h.memory[b]]
    /\ \A o \in Handles : Kept(r, o) = Kept(h, o) /\ r.extra[o] >= h.extra[o]

LEMMA MemoryTypes == NoMemory \in Memory /\ NoMemory.data = Null /\ ~NoMemory.live
  BY DEF Memory, NoMemory, Types

LEMMA HeldFinite ==
    ASSUME NEW h, NEW o
    PROVE  IsFiniteSet(Held(h, o)) /\ Cardinality(Held(h, o)) \in Nat
  <1>1. Held(h, o) \in SUBSET Blocks
    BY DEF Held
  <1>2. IsFiniteSet(Held(h, o))
    BY <1>1, FiniteBlocks, FS_Subset
  <1> QED BY <1>2, FS_CardinalityType

LEMMA NothingFreed ==
    ASSUME NEW h \in Heaps
    PROVE  Frees(h, h, {})
  BY DEF Frees, Heaps

LEMMA FreesMore ==
    ASSUME NEW h, NEW r, NEW s, NEW B \in SUBSET Blocks, NEW C \in SUBSET Blocks,
           h \in Heaps, Frees(h, r, B), Frees(r, s, C)
    PROVE  Frees(h, s, B \cup C)
  <1>1. s.memory = [b \in Blocks |-> IF b \in B \cup C THEN NoMemory ELSE h.memory[b]]
    BY DEF Frees
  <1>2. \A o \in Handles : s.extra[o] >= r.extra[o] /\ r.extra[o] >= h.extra[o]
                           /\ s.extra[o] \in Int /\ r.extra[o] \in Int /\ h.extra[o] \in Int
    BY DEF Frees, Heaps
  <1> QED BY <1>1, <1>2 DEF Frees

LEMMA FreedFrees ==
    ASSUME NEW h \in Heaps, NEW b \in Blocks, NEW persistent \in BOOLEAN
    PROVE  /\ Frees(h, Freed(h, b, persistent), {b})
           /\ Freed(h, b, persistent).corrupt =
                 (h.corrupt \/ ~h.memory[b].live \/ h.memory[b].persistent # persistent)
  <1> DEFINE r == Freed(h, b, persistent)
             held == h.memory[b].data
  <1>1. /\ r.memory = [h.memory EXCEPT ![b] = NoMemory]
        /\ r.extra = Lost(h.extra, held)
        /\ r.corrupt = (h.corrupt \/ ~h.memory[b].live \/ h.memory[b].persistent # persistent)
        /\ r = [memory |-> r.memory, extra |-> r.extra, corrupt |-> r.corrupt]
    BY DEF Freed
  <1> HIDE DEF r
  <1>2. /\ h.memory \in [Blocks -> Memory] /\ h.extra \in [Handles -> Int] /\ h.corrupt \in BOOLEAN
        /\ h.memory[b] \in Memory /\ held \in Handles \cup {Null}
    BY DEF Heaps, Memory
  <1>3. r.memory \in [Blocks -> Memory]
    BY <1>1, <1>2, MemoryTypes
  <1>4. r.extra \in [Handles -> Int]
    BY <1>1, <1>2 DEF Lost
  <1>5. r.corrupt \in BOOLEAN
    BY <1>1
  <1>6. r \in Heaps
    BY <1>1, <1>3, <1>4, <1>5 DEF Heaps
  <1>7. ASSUME NEW o \in Handles PROVE Kept(r, o) = Kept(h, o) /\ r.extra[o] >= h.extra[o]
    <2>1. IsFiniteSet(Held(r, o)) /\ IsFiniteSet(Held(h, o))
      BY HeldFinite
    <2>2. /\ Held(r, o) \ {b} = Held(h, o) \ {b} /\ b \notin Held(r, o)
          /\ b \in Held(h, o) <=> held = o
      BY <1>1, <1>2, MemoryTypes, Constants DEF Held
    <2>3. /\ Cardinality(Held(r, o)) \in Nat /\ Cardinality(Held(h, o)) \in Nat
          /\ held = o => Cardinality(Held(h, o)) = Cardinality(Held(r, o)) + 1
          /\ held # o => Held(h, o) = Held(r, o)
      BY <2>1, <2>2, DifferInOne
    <2>4. /\ h.extra[o] \in Int
          /\ held = o => r.extra[o] = h.extra[o] + 1
          /\ held # o => r.extra[o] = h.extra[o]
      BY <1>1, <1>2, Constants DEF Lost
    <2> QED BY <2>3, <2>4 DEF Kept
  <1>8. r.memory = [c \in Blocks |-> IF c \in {b} THEN NoMemory ELSE h.memory[c]]
    BY <1>1, <1>2
  <1>9. Frees(h, r, {b})
    BY <1>6, <1>7, <1>8 DEF Frees
  <1> QED BY <1>1, <1>9 DEF r

\* What free() frees of an object without ownership.
Pointed(o) == IF is_free_active THEN {o.struct_ptr} \cap Blocks ELSE {}

\* What happens to h when o is freed or destructed.  Of objects that own nothing
\* only ffi_free_if() frees, by the pointer; where it does nothing, only owners do.
Effect(h, r, o) ==
    \E B \in SUBSET Blocks :
        /\ Frees(h, r, B)
        /\ ~o.owner =>
              /\ B = Pointed(o)
              /\ r.corrupt => \/ h.corrupt \/ o.pointee
                               \/ \E b \in B : ~h.memory[b].live \/ h.memory[b].persistent
        /\ ~is_free_active =>
              /\ B \subseteq IF o.owner THEN {o.struct} ELSE {}
              /\ r.corrupt => h.corrupt \/ \E b \in B : ~h.memory[b].live

LEMMA NoEffect ==
    ASSUME NEW h \in Heaps, NEW o, ~o.owner => Pointed(o) = {}
    PROVE  Effect(h, h, o)
  <1>1. Frees(h, h, {})
    BY NothingFreed
  <1> QED BY <1>1 DEF Effect

LEMMA FfiFreeIfEffect ==
    ASSUME NEW h \in Heaps, NEW o \in CStruct
    PROVE  /\ Frees(h, ffi_free_if(h, o.struct_ptr), Pointed(o))
           /\ ffi_free_if(h, o.struct_ptr).corrupt =>
                 h.corrupt \/ \E b \in Pointed(o) : ~h.memory[b].live \/ h.memory[b].persistent
           /\ ~is_free_active => ffi_free_if(h, o.struct_ptr) = h
  <1>1. CASE is_free_active /\ o.struct_ptr \in Blocks
    <2>1. Pointed(o) = {o.struct_ptr} /\ ffi_free_if(h, o.struct_ptr) = Freed(h, o.struct_ptr, FALSE)
      BY <1>1 DEF Pointed, ffi_free_if
    <2>2. h.memory[o.struct_ptr] \in Memory
      BY <1>1 DEF Heaps
    <2>3. h.memory[o.struct_ptr].persistent \in BOOLEAN
      BY <2>2 DEF Memory
    <2> DEFINE r == Freed(h, o.struct_ptr, FALSE)
    <2>4. /\ Frees(h, r, {o.struct_ptr})
          /\ r.corrupt = (h.corrupt \/ ~h.memory[o.struct_ptr].live
                                    \/ h.memory[o.struct_ptr].persistent # FALSE)
      BY <1>1, FreedFrees
    <2> HIDE DEF r
    <2>5. r.corrupt => h.corrupt \/ ~h.memory[o.struct_ptr].live \/ h.memory[o.struct_ptr].persistent
      BY <2>3, <2>4
    <2> QED BY <1>1, <2>1, <2>4, <2>5 DEF r
  <1>2. CASE ~(is_free_active /\ o.struct_ptr \in Blocks)
    <2>1. Pointed(o) = {} /\ ffi_free_if(h, o.struct_ptr) = h
      BY <1>2 DEF Pointed, ffi_free_if
    <2> QED BY <2>1, NothingFreed
  <1> QED BY <1>1, <1>2

LEMMA DroppedEffect ==
    ASSUME NEW h \in Heaps, NEW o \in CStruct
    PROVE  /\ ~o.owner => Dropped(h, o) = h
           /\ \E B \in SUBSET Blocks :
                 /\ Frees(h, Dropped(h, o), B)
                 /\ B \subseteq IF o.owner THEN {o.struct} ELSE {}
                 /\ Dropped(h, o).corrupt => h.corrupt \/ \E b \in B : ~h.memory[b].live
  <1>1. CASE o.struct # Null /\ o.owner
    <2>1. o.struct \in Blocks /\ Dropped(h, o) = Freed(h, o.struct, h.memory[o.struct].persistent)
      BY <1>1 DEF CStruct, Dropped
    <2>2. h.memory[o.struct] \in Memory
      BY <2>1 DEF Heaps
    <2>3. h.memory[o.struct].persistent \in BOOLEAN
      BY <2>2 DEF Memory
    <2> DEFINE r == Freed(h, o.struct, h.memory[o.struct].persistent)
    <2>4. /\ Frees(h, r, {o.struct})
          /\ r.corrupt => h.corrupt \/ ~h.memory[o.struct].live
      BY <2>1, <2>3, FreedFrees
    <2> HIDE DEF r
    <2>5. Dropped(h, o) = r
      BY <2>1 DEF r
    <2> QED BY <1>1, <2>1, <2>4, <2>5
  <1>2. CASE ~(o.struct # Null /\ o.owner)
    <2>1. Dropped(h, o) = h
      BY <1>2 DEF Dropped
    <2> QED BY <2>1, NothingFreed
  <1> QED BY <1>1, <1>2

LEMMA FreeEffect ==
    ASSUME NEW h \in Heaps, NEW o \in CStruct
    PROVE  /\ Effect(h, free(h, o).heap, o)
           /\ IF o.struct_ptr = Null THEN free(h, o).object = o
              ELSE free(h, o).object = [NoObject EXCEPT !.alive = TRUE]
  <1>1. CASE o.struct_ptr = Null
    <2>1. free(h, o).heap = h /\ free(h, o).object = o
      BY <1>1 DEF free
    <2>2. Pointed(o) = {}
      BY <1>1, Constants DEF Pointed
    <2> QED BY <1>1, <2>1, <2>2, NoEffect
  <1>2. CASE o.struct_ptr # Null
    <2> DEFINE f == ffi_free_if(h, o.struct_ptr)
               g == FreedAgain(f, o)
               r == Dropped(g, o)
    <2>1. free(h, o).heap = r /\ free(h, o).object = [NoObject EXCEPT !.alive = TRUE]
      BY <1>2 DEF free
    <2>2. /\ Frees(h, g, Pointed(o)) /\ Pointed(o) \in SUBSET Blocks /\ g \in Heaps
          /\ g.corrupt => \/ h.corrupt \/ o.pointee
                          \/ \E b \in Pointed(o) : ~h.memory[b].live \/ h.memory[b].persistent
          /\ ~is_free_active => g = h
      <3>1. /\ Frees(h, f, Pointed(o)) /\ Pointed(o) \in SUBSET Blocks /\ f \in Heaps
            /\ f.corrupt => h.corrupt \/ \E b \in Pointed(o) : ~h.memory[b].live \/ h.memory[b].persistent
            /\ ~is_free_active => f = h
        BY FfiFreeIfEffect DEF Pointed, Frees
      <3> HIDE DEF f
      <3>2. /\ g = [f EXCEPT !.corrupt = f.corrupt \/ (is_free_active /\ o.pointee)]
            /\ g.memory = f.memory /\ g.extra = f.extra
            /\ g.corrupt = (f.corrupt \/ (is_free_active /\ o.pointee))
        BY <3>1 DEF FreedAgain, Heaps
      <3>3. g \in Heaps /\ (~is_free_active => g = f)
        <4>1. o.pointee \in BOOLEAN
          BY DEF CStruct
        <4>2. g.corrupt \in BOOLEAN /\ (~is_free_active => g.corrupt = f.corrupt)
          BY <3>1, <3>2, <4>1 DEF Heaps
        <4> QED BY <3>1, <3>2, <4>2 DEF Heaps
      <3>4. Frees(h, g, Pointed(o))
        <4>1. \A p : Held(g, p) = Held(f, p)
          BY <3>2 DEF Held
        <4>2. \A p : Kept(g, p) = Kept(f, p)
          BY <3>2, <4>1 DEF Kept
        <4> QED BY <3>1, <3>2, <3>3, <4>2 DEF Frees
      <3> QED BY <3>1, <3>2, <3>3, <3>4
    <2> HIDE DEF g
    <2>3. /\ ~o.owner => r = g
          /\ \E B \in SUBSET Blocks :
                /\ Frees(g, r, B)
                /\ B \subseteq IF o.owner THEN {o.struct} ELSE {}
                /\ r.corrupt => g.corrupt \/ \E b \in B : ~g.memory[b].live
      BY <2>2, DroppedEffect
    <2> HIDE DEF r
    <2>4. CASE ~o.owner
      <3>1. r = g
        BY <2>3, <2>4
      <3>2. ~is_free_active => Pointed(o) = {}
        BY DEF Pointed
      <3> QED BY <1>2, <2>1, <2>2, <2>4, <3>1, <3>2 DEF Effect
    <2>5. CASE o.owner
      <3>1. PICK B \in SUBSET Blocks :
                /\ Frees(g, r, B)
                /\ B \subseteq IF o.owner THEN {o.struct} ELSE {}
                /\ r.corrupt => g.corrupt \/ \E b \in B : ~g.memory[b].live
        BY <2>3
      <3>2. Frees(h, r, Pointed(o) \cup B)
        BY <2>2, <3>1, FreesMore
      <3>3. ~is_free_active => Pointed(o) = {}
        BY DEF Pointed
      <3>4. Pointed(o) \cup B \in SUBSET Blocks
        BY <2>2
      <3>5. ~is_free_active =>
               /\ Pointed(o) \cup B \subseteq IF o.owner THEN {o.struct} ELSE {}
               /\ r.corrupt => h.corrupt \/ \E b \in Pointed(o) \cup B : ~h.memory[b].live
        BY <2>2, <3>1, <3>3
      <3>6. Effect(h, r, o)
        BY <2>5, <3>2, <3>4, <3>5 DEF Effect
      <3> QED BY <1>2, <2>1, <3>6
    <2> QED BY <2>4, <2>5
  <1> QED BY <1>1, <1>2

LEMMA DestroyedEffect ==
    ASSUME NEW h \in Heaps, NEW o \in CStruct
    PROVE  Effect(h, Destroyed(h, o), o)
  <1>1. CASE o.struct_ptr = Null
    <2>1. Destroyed(h, o) = Dropped(h, o)
      BY <1>1 DEF Destroyed, free
    <2>2. Pointed(o) = {}
      BY <1>1, Constants DEF Pointed
    <2>3. CASE ~o.owner
      BY <2>1, <2>2, <2>3, NoEffect, DroppedEffect
    <2>4. CASE o.owner
      BY <2>1, <2>4, DroppedEffect DEF Effect
    <2> QED BY <2>3, <2>4
  <1>2. CASE o.struct_ptr # Null
    <2>1. free(h, o).object = [NoObject EXCEPT !.alive = TRUE]
      BY <1>2, FreeEffect
    <2>2. free(h, o).object.struct = Null
      BY <2>1 DEF NoObject
    <2>3. Destroyed(h, o) = free(h, o).heap
      BY <2>2 DEF Destroyed, Dropped
    <2> QED BY <2>3, FreeEffect
  <1> QED BY <1>1, <1>2

-----------------------------------------------------------------------------
(* The types, and which steps there are.                                   *)

\* An object in the store is counted once at least, and nothing is left of
\* objects and memory that are gone.
Shape ==
    /\ \A o \in Handles : IF objects[o].alive THEN refcount[o] >= 1 ELSE objects[o] = NoObject
    /\ \A b \in Blocks : ~memory[b].live => memory[b].data = Null

LEMMA HeapTyped ==
    ASSUME TypeOK
    PROVE  /\ heap \in Heaps /\ heap.memory = memory /\ heap.extra = extra /\ heap.corrupt = corrupt
           /\ \A o \in Handles : objects[o] \in CStruct
           /\ \A b \in Blocks : memory[b] \in Memory
  BY DEF TypeOK, heap, Heaps

LEMMA ObjectTypes ==
    /\ NoObject \in CStruct /\ [NoObject EXCEPT !.alive = TRUE] \in CStruct
    /\ ~NoObject.alive /\ NoObject.struct = Null /\ NoObject.struct_ptr = Null
    /\ ~NoObject.owner /\ ~NoObject.pointee
  BY DEF NoObject, CStruct

\* Memory is freed for object o, beginning with heap h, and o becomes q: it is
\* gone, was freed, or has lost what it pointed to.
Spends(h, o, q) ==
    /\ h \in Heaps /\ h.memory = memory /\ h.corrupt = corrupt
    /\ Effect(h, [memory |-> memory', extra |-> extra', corrupt |-> corrupt'], objects[o])
    /\ objects' = [objects EXCEPT ![o] = q]
    /\ \/ q \in {NoObject, [NoObject EXCEPT !.alive = TRUE]}
       \/ is_free_active /\ q = [objects[o] EXCEPT !.struct_ptr = NULL]
    /\ UNCHANGED is_free_active

LEMMA SetsHeap ==
    ASSUME NEW h, NEW r, NEW o, Effect(h, r, o), Sets(r)
    PROVE  [memory |-> memory', extra |-> extra', corrupt |-> corrupt'] = r
  <1>1. r \in Heaps
    BY DEF Effect, Frees
  <1> QED BY <1>1 DEF Heaps, Sets

LEMMA SpendsType ==
    ASSUME TypeOK, NEW h, NEW o \in Handles, NEW q, Spends(h, o, q)
    PROVE  /\ memory' \in [Blocks -> Memory] /\ extra' \in [Handles -> Int] /\ corrupt' \in BOOLEAN
           /\ objects' \in [Handles -> CStruct] /\ q \in CStruct
  <1>1. [memory |-> memory', extra |-> extra', corrupt |-> corrupt'] \in Heaps
    BY DEF Spends, Effect, Frees
  <1>2. memory' \in [Blocks -> Memory] /\ extra' \in [Handles -> Int] /\ corrupt' \in BOOLEAN
    BY <1>1 DEF Heaps
  <1>3. q \in CStruct
    BY HeapTyped, ObjectTypes DEF Spends, CStruct
  <1>4. objects' \in [Handles -> CStruct]
    BY <1>3 DEF Spends, TypeOK
  <1> QED BY <1>2, <1>3, <1>4

\* $x->free() does nothing or frees.
LEMMA FreeSpends ==
    ASSUME TypeOK, NEW x \in Vars, Free(x)
    PROVE  /\ value[x] \in Handles
           /\ \/ UNCHANGED <<memory, extra, corrupt, objects>>
              \/ Spends(heap, value[x], [NoObject EXCEPT !.alive = TRUE])
  <1> DEFINE o == value[x]
  <1>1. o \in Handles /\ objects[o] \in CStruct /\ heap \in Heaps
    BY HeapTyped DEF Free, Has, TypeOK
  <1> DEFINE r == free(heap, objects[o])
  <1>2. Sets(r.heap) /\ objects' = [objects EXCEPT ![o] = r.object] /\ is_free_active' = is_free_active
    BY DEF Free
  <1>3. /\ Effect(heap, r.heap, objects[o])
        /\ IF objects[o].struct_ptr = Null THEN r.object = objects[o]
           ELSE r.object = [NoObject EXCEPT !.alive = TRUE]
    BY <1>1, FreeEffect
  <1>4. CASE objects[o].struct_ptr = Null
    <2>1. r.heap = heap /\ r.object = objects[o]
      BY <1>4 DEF free
    <2> HIDE DEF r
    <2>2. UNCHANGED <<memory, extra, corrupt>>
      BY <1>2, <2>1 DEF Sets, heap
    <2>3. objects' = objects
      BY <1>1, <1>2, <2>1 DEF TypeOK
    <2> QED BY <1>1, <2>2, <2>3
  <1>5. CASE objects[o].struct_ptr # Null
    <2> HIDE DEF r
    <2>1. [memory |-> memory', extra |-> extra', corrupt |-> corrupt'] = r.heap
      BY <1>2, <1>3, SetsHeap
    <2>2. Spends(heap, o, [NoObject EXCEPT !.alive = TRUE])
      BY <1>1, <1>2, <1>3, <1>5, <2>1, HeapTyped DEF Spends
    <2> QED BY <1>1, <2>2
  <1> QED BY <1>4, <1>5

LEMMA FfiFreeIfSpends ==
    ASSUME TypeOK, NEW x \in Vars, FfiFreeIf(x)
    PROVE  /\ value[x] \in Handles
           /\ Spends(heap, value[x], [objects[value[x]] EXCEPT !.struct_ptr = NULL])
  <1> DEFINE o == value[x]
             r == ffi_free_if(heap, objects[o].struct_ptr)
  <1>1. o \in Handles /\ objects[o] \in CStruct /\ heap \in Heaps
    BY HeapTyped DEF FfiFreeIf, Has, TypeOK
  <1>2. Sets(r) /\ is_free_active
    BY DEF FfiFreeIf
  <1>3. /\ objects' = [objects EXCEPT ![o].struct_ptr = NULL]
        /\ is_free_active' = is_free_active
    BY DEF FfiFreeIf
  <1>4. objects' = [objects EXCEPT ![o] = [objects[o] EXCEPT !.struct_ptr = NULL]]
    BY <1>3
  <1>5. Pointed(objects[o]) \in SUBSET Blocks
    BY DEF Pointed
  <1>6. Effect(heap, r, objects[o])
    BY <1>1, <1>2, <1>5, FfiFreeIfEffect DEF Effect
  <1>7. [memory |-> memory', extra |-> extra', corrupt |-> corrupt'] = r
    BY <1>2, <1>6, SetsHeap
  <1> HIDE DEF r
  <1> QED BY <1>1, <1>2, <1>3, <1>4, <1>6, <1>7, HeapTyped DEF Spends

LEMMA DestroyedSpends ==
    ASSUME TypeOK, NEW o \in Handles, NEW h \in Heaps, h.memory = memory, h.corrupt = corrupt,
           Sets(Destroyed(h, objects[o])), objects' = [objects EXCEPT ![o] = NoObject],
           UNCHANGED is_free_active
    PROVE  Spends(h, o, NoObject)
  <1>1. Effect(h, Destroyed(h, objects[o]), objects[o])
    BY HeapTyped, DestroyedEffect
  <1>2. [memory |-> memory', extra |-> extra', corrupt |-> corrupt'] = Destroyed(h, objects[o])
    BY <1>1, SetsHeap
  <1> QED BY <1>1, <1>2 DEF Spends

\* The engine takes a reference from o.
LEMMA ReleasedCases ==
    ASSUME TypeOK, Shape, NEW o \in Handles, objects[o].alive,
           NEW h \in Heaps, h.memory = memory, h.corrupt = corrupt,
           Released(h, o), UNCHANGED is_free_active
    PROVE  \/ /\ refcount[o] = 1 /\ refcount' = [refcount EXCEPT ![o] = 0]
              /\ Spends(h, o, NoObject)
           \/ /\ refcount[o] >= 2 /\ refcount' = [refcount EXCEPT ![o] = @ - 1]
              /\ memory' = memory /\ extra' = h.extra /\ corrupt' = corrupt /\ objects' = objects
  <1>1. refcount[o] \in Nat /\ refcount[o] >= 1
    BY DEF TypeOK, Shape
  <1>2. CASE refcount[o] = 1
    BY <1>2, DestroyedSpends DEF Released
  <1>3. CASE refcount[o] >= 2
    BY <1>3 DEF Released, Sets
  <1> QED BY <1>1, <1>2, <1>3

\* The heap that zval_del_ref() starts from.
LEMMA TakenHeap ==
    ASSUME TypeOK, NEW o \in Handles
    PROVE  LET h == [heap EXCEPT !.extra[o] = @ - 1] IN
           /\ h \in Heaps /\ h.memory = memory /\ h.corrupt = corrupt
           /\ h.extra = [extra EXCEPT ![o] = @ - 1]
  <1> DEFINE h == [heap EXCEPT !.extra[o] = @ - 1]
  <1>1. h = [memory |-> memory, extra |-> [extra EXCEPT ![o] = @ - 1], corrupt |-> corrupt]
    BY DEF heap
  <1>2. [extra EXCEPT ![o] = @ - 1] \in [Handles -> Int]
    BY DEF TypeOK
  <1> QED BY <1>1, <1>2 DEF Heaps, TypeOK

LEMMA HasTyped ==
    ASSUME TypeOK, NEW x \in Vars, Has(x)
    PROVE  value[x] \in Handles /\ objects[value[x]].alive /\ ~over /\ Defined /\ ~corrupt
  BY DEF TypeOK, Has, Runs, Defined

\* The steps of the program that free nothing and make nothing.
Counts ==
    \E x \in Vars :
        \/ zval_add_ref(x)
        \/ \E y \in Vars : Assign(x, y) \/ change_value(x, y)
        \/ \E b \in Blocks : zval_set_data(b, x) \/ zval_get_data(b, x)

LEMMA NextCases ==
    ASSUME [Next]_vars
    PROVE  \/ \E x \in Vars, s \in Sorts : Construct(x, s[1], s[2], s[3], s[4])
           \/ \E x \in Vars : Invoke(x) \/ Free(x) \/ FfiFreeIf(x) \/ Unset(x) \/ zval_del_ref(x)
           \/ Counts
           \/ \E o \in Handles : StoreFree(o)
           \/ (\E status \in BOOLEAN : ffi_set_free(status)) \/ EndRequest \/ UNCHANGED vars
  BY DEF Next, Counts, Terminated

LEMMA ConstructType ==
    ASSUME TypeOK, NEW x \in Vars, NEW s \in Sorts, Construct(x, s[1], s[2], s[3], s[4])
    PROVE  TypeOK' /\ (Shape => Shape')
  <1> DEFINE kind == s[1]  owned == s[2]  persistent == s[3]  pointer == s[4]
  <1>1. kind \in {"struct", "array", "new"} /\ owned \in BOOLEAN /\ persistent \in BOOLEAN
    BY ReferencesAssumption
  <1> HIDE DEF kind, owned, persistent, pointer
  <1>2. PICK o \in First({h \in Handles : ~objects[h].alive}),
             b \in First({m \in Blocks : ~memory[m].live}) :
          /\ value' = [value EXCEPT ![x] = o]
          /\ objects' = [objects EXCEPT ![o] =
                [alive |-> TRUE, struct |-> b, struct_ptr |-> IF kind = "struct" THEN b ELSE Null,
                 owner |-> owned \/ kind = "new",
                 pointee |-> ~owned /\ Type(kind, pointer) = "pointer"]]
          /\ refcount' = [refcount EXCEPT ![o] = 1]
          /\ memory' = [memory EXCEPT ![b] =
                [live |-> TRUE, persistent |-> persistent /\ kind # "new",
                 type |-> Type(kind, pointer), data |-> Null]]
          /\ extra' = [extra EXCEPT ![o] = 0]
    BY DEF Construct, kind, owned, persistent, pointer
  <1>3. o \in Handles /\ b \in Blocks
    BY DEF First
  <1>4. /\ conduct' \subseteq Deeds
        /\ is_free_active' = is_free_active /\ corrupt' = corrupt /\ over' = over
    BY DEF Construct, TypeOK, Deeds
  <1>5. [alive |-> TRUE, struct |-> b, struct_ptr |-> IF kind = "struct" THEN b ELSE Null,
         owner |-> owned \/ kind = "new",
         pointee |-> ~owned /\ Type(kind, pointer) = "pointer"] \in CStruct
    BY <1>1, <1>3 DEF CStruct
  <1>6. [live |-> TRUE, persistent |-> persistent /\ kind # "new",
         type |-> Type(kind, pointer), data |-> Null] \in Memory
    BY <1>1 DEF Memory, Types, Type
  <1>7. TypeOK'
    BY <1>2, <1>3, <1>4, <1>5, <1>6 DEF TypeOK
  <1>8. Shape => Shape'
    BY <1>2, <1>3 DEF TypeOK, Shape
  <1> QED BY <1>7, <1>8

\* Freeing keeps what is known of memory and of other objects.
LEMMA SpendsShape ==
    ASSUME TypeOK, Shape, NEW h, NEW o \in Handles, NEW q, Spends(h, o, q),
           IF q.alive THEN objects[o].alive ELSE q = NoObject,
           refcount' = refcount \/ (~q.alive /\ refcount' = [refcount EXCEPT ![o] = 0])
    PROVE  Shape'
  <1>1. objects' = [objects EXCEPT ![o] = q]
    BY DEF Spends
  <1>2. PICK B \in SUBSET Blocks :
           memory' = [b \in Blocks |-> IF b \in B THEN NoMemory ELSE memory[b]]
    BY DEF Spends, Effect, Frees
  <1>3. \A b \in Blocks : ~memory'[b].live => memory'[b].data = Null
    BY <1>2, MemoryTypes DEF Shape
  <1>4. \A p \in Handles : IF objects'[p].alive THEN refcount'[p] >= 1 ELSE objects'[p] = NoObject
    BY <1>1 DEF TypeOK, Shape
  <1> QED BY <1>3, <1>4 DEF Shape

LEMMA ReleasedType ==
    ASSUME TypeOK, Shape, NEW o \in Handles, objects[o].alive,
           NEW h \in Heaps, h.memory = memory, h.corrupt = corrupt,
           Released(h, o), UNCHANGED is_free_active
    PROVE  /\ memory' \in [Blocks -> Memory] /\ extra' \in [Handles -> Int] /\ corrupt' \in BOOLEAN
           /\ objects' \in [Handles -> CStruct] /\ refcount' \in [Handles -> Nat]
           /\ Shape'
  <1>1. CASE /\ refcount[o] = 1 /\ refcount' = [refcount EXCEPT ![o] = 0]
             /\ Spends(h, o, NoObject)
    BY <1>1, SpendsType, SpendsShape, ObjectTypes DEF TypeOK
  <1>2. CASE /\ refcount[o] >= 2 /\ refcount' = [refcount EXCEPT ![o] = @ - 1]
             /\ memory' = memory /\ extra' = h.extra /\ corrupt' = corrupt /\ objects' = objects
    <2>1. refcount' \in [Handles -> Nat]
      BY <1>2 DEF TypeOK
    <2>2. Shape'
      BY <1>2 DEF TypeOK, Shape
    <2> QED BY <1>2, <2>1, <2>2 DEF TypeOK, Heaps
  <1> QED BY <1>1, <1>2, ReleasedCases

LEMMA CountsType ==
    ASSUME TypeOK, Shape, Counts
    PROVE  TypeOK' /\ Shape'
  <1>1. ASSUME NEW x \in Vars, zval_add_ref(x) PROVE TypeOK' /\ Shape'
    <2>1. value[x] \in Handles
      BY <1>1, HasTyped DEF zval_add_ref
    <2> QED BY <1>1, <2>1 DEF zval_add_ref, Shared, Lost, TypeOK, Shape
  <1>2. ASSUME NEW x \in Vars, NEW y \in Vars, Assign(x, y) PROVE TypeOK' /\ Shape'
    <2>1. value[y] \in Handles
      BY <1>2, HasTyped DEF Assign
    <2> QED BY <1>2, <2>1 DEF Assign, Shared, TypeOK, Shape
  <1>3. ASSUME NEW x \in Vars, NEW y \in Vars, change_value(x, y) PROVE TypeOK' /\ Shape'
    <2>1. value[y] \in Handles
      BY <1>3, HasTyped DEF change_value
    <2> QED BY <1>3, <2>1 DEF change_value, Shared, Lost, TypeOK, Shape
  <1>4. ASSUME NEW x \in Vars, NEW b \in Blocks, zval_set_data(b, x) PROVE TypeOK' /\ Shape'
    <2>1. value[x] \in Handles
      BY <1>4, HasTyped DEF zval_set_data
    <2>2. memory[b] \in Memory
      BY HeapTyped
    <2>3. [memory[b] EXCEPT !.data = value[x]] \in Memory
      BY <2>1, <2>2 DEF Memory
    <2>4. memory' = [memory EXCEPT ![b] = [memory[b] EXCEPT !.data = value[x]]]
      BY <1>4 DEF zval_set_data
    <2>5. memory' \in [Blocks -> Memory]
      BY <2>3, <2>4 DEF TypeOK
    <2>6. refcount' \in [Handles -> Nat] /\ \A o \in Handles : refcount'[o] >= refcount[o]
      BY <1>4, <2>1 DEF zval_set_data, Shared, TypeOK
    <2>7. extra' \in [Handles -> Int]
      BY <1>4, <2>1, <2>2 DEF zval_set_data, Lost, TypeOK, Memory
    <2>8. TypeOK'
      BY <1>4, <2>5, <2>6, <2>7 DEF zval_set_data, TypeOK
    <2>9. \A c \in Blocks : ~memory'[c].live => memory'[c].data = Null
      BY <1>4, <2>2, <2>4 DEF zval_set_data, TypeOK, Shape, Memory
    <2>10. \A o \in Handles : refcount'[o] \in Nat /\ refcount[o] \in Nat
      BY <2>6 DEF TypeOK
    <2>11. \A o \in Handles : IF objects'[o].alive THEN refcount'[o] >= 1 ELSE objects'[o] = NoObject
      BY <1>4, <2>6, <2>10 DEF zval_set_data, Shape
    <2> QED BY <2>8, <2>9, <2>11 DEF Shape
  <1>5. ASSUME NEW x \in Vars, NEW b \in Blocks, zval_get_data(b, x) PROVE TypeOK' /\ Shape'
    <2>1. memory[b].data \in Handles
      BY <1>5, HeapTyped DEF zval_get_data, Memory
    <2> QED BY <1>5, <2>1 DEF zval_get_data, Shared, TypeOK, Shape
  <1> QED BY <1>1, <1>2, <1>3, <1>4, <1>5 DEF Counts

LEMMA TypeStep ==
    ASSUME TypeOK, Shape, [Next]_vars PROVE TypeOK' /\ Shape'
  <1>1. ASSUME NEW x \in Vars, NEW s \in Sorts, Construct(x, s[1], s[2], s[3], s[4])
        PROVE  TypeOK' /\ Shape'
    BY <1>1, ConstructType
  <1>2. ASSUME NEW x \in Vars, Invoke(x) PROVE TypeOK' /\ Shape'
    <2> DEFINE o == value[x]
    <2>1. o \in Handles /\ objects[o].alive /\ objects[o] \in CStruct
      BY <1>2, HasTyped, HeapTyped DEF Invoke
    <2> DEFINE q == [objects[o] EXCEPT !.struct_ptr = objects[o].struct]
    <2>2. objects' = [objects EXCEPT ![o] = q] /\ q \in CStruct /\ q.alive
      BY <1>2, <2>1 DEF Invoke, CStruct
    <2> HIDE DEF q
    <2> QED BY <1>2, <2>1, <2>2 DEF Invoke, TypeOK, Shape
  <1>3. ASSUME NEW x \in Vars, Free(x) PROVE TypeOK' /\ Shape'
    <2> DEFINE q == [NoObject EXCEPT !.alive = TRUE]
    <2>0. q.alive
      BY DEF NoObject
    <2>1. /\ value[x] \in Handles /\ objects[value[x]].alive
          /\ UNCHANGED <<value, refcount, is_free_active, conduct, over>>
      BY <1>3, HasTyped DEF Free
    <2>2. CASE UNCHANGED <<memory, extra, corrupt, objects>>
      BY <2>1, <2>2 DEF TypeOK, Shape
    <2>3. CASE Spends(heap, value[x], q)
      <3>1. Shape'
        BY <2>0, <2>1, <2>3, SpendsShape
      <3>2. TypeOK'
        BY <2>1, <2>3, SpendsType DEF TypeOK
      <3> QED BY <3>1, <3>2
    <2> QED BY <1>3, <2>2, <2>3, FreeSpends
  <1>4. ASSUME NEW x \in Vars, FfiFreeIf(x) PROVE TypeOK' /\ Shape'
    <2> DEFINE q == [objects[value[x]] EXCEPT !.struct_ptr = NULL]
    <2>1. /\ value[x] \in Handles /\ objects[value[x]].alive /\ objects[value[x]] \in CStruct
          /\ UNCHANGED <<value, refcount, is_free_active, conduct, over>>
      BY <1>4, HasTyped, HeapTyped DEF FfiFreeIf
    <2>2. q.alive
      BY <2>1 DEF CStruct
    <2>3. Spends(heap, value[x], q)
      BY <1>4, FfiFreeIfSpends
    <2> HIDE DEF q
    <2>4. Shape'
      BY <2>1, <2>2, <2>3, SpendsShape
    <2>5. TypeOK'
      BY <2>1, <2>3, SpendsType DEF TypeOK
    <2> QED BY <2>4, <2>5
  <1>5. ASSUME NEW x \in Vars, Unset(x) PROVE TypeOK' /\ Shape'
    <2>1. value[x] \in Handles /\ objects[value[x]].alive
      BY <1>5, HasTyped DEF Unset
    <2>2. Released(heap, value[x]) /\ UNCHANGED is_free_active
      BY <1>5 DEF Unset
    <2>3. /\ memory' \in [Blocks -> Memory] /\ extra' \in [Handles -> Int] /\ corrupt' \in BOOLEAN
          /\ objects' \in [Handles -> CStruct] /\ refcount' \in [Handles -> Nat]
          /\ Shape'
      BY <2>1, <2>2, HeapTyped, ReleasedType
    <2> QED BY <1>5, <2>3 DEF Unset, TypeOK
  <1>6. ASSUME NEW x \in Vars, zval_del_ref(x) PROVE TypeOK' /\ Shape'
    <2> DEFINE h == [heap EXCEPT !.extra[value[x]] = @ - 1]
    <2>1. value[x] \in Handles /\ objects[value[x]].alive
      BY <1>6, HasTyped DEF zval_del_ref
    <2>2. Released(h, value[x]) /\ UNCHANGED is_free_active
      BY <1>6 DEF zval_del_ref
    <2>3. h \in Heaps /\ h.memory = memory /\ h.corrupt = corrupt
      BY <2>1, TakenHeap
    <2> HIDE DEF h
    <2>4. /\ memory' \in [Blocks -> Memory] /\ extra' \in [Handles -> Int] /\ corrupt' \in BOOLEAN
          /\ objects' \in [Handles -> CStruct] /\ refcount' \in [Handles -> Nat]
          /\ Shape'
      BY <2>1, <2>2, <2>3, ReleasedType
    <2>5. /\ value' = value /\ is_free_active' = is_free_active /\ over' = over
          /\ conduct' \subseteq Deeds
      BY <1>6 DEF zval_del_ref, TypeOK, Deeds
    <2> QED BY <2>4, <2>5 DEF TypeOK
  <1>7. CASE Counts
    BY <1>7, CountsType
  <1>8. ASSUME NEW o \in Handles, StoreFree(o) PROVE TypeOK' /\ Shape'
    <2>1. Spends(heap, o, NoObject)
      BY <1>8, DestroyedSpends, HeapTyped DEF StoreFree
    <2>2. refcount' = [refcount EXCEPT ![o] = 0]
      BY <1>8 DEF StoreFree
    <2>3. Shape'
      BY <2>1, <2>2, SpendsShape, ObjectTypes
    <2>4. /\ memory' \in [Blocks -> Memory] /\ extra' \in [Handles -> Int] /\ corrupt' \in BOOLEAN
          /\ objects' \in [Handles -> CStruct]
      BY <2>1, SpendsType
    <2>5. refcount' \in [Handles -> Nat]
      BY <2>2 DEF TypeOK
    <2>6. TypeOK'
      BY <1>8, <2>4, <2>5 DEF StoreFree, TypeOK
    <2> QED BY <2>3, <2>6
  <1>9. CASE (\E status \in BOOLEAN : ffi_set_free(status)) \/ EndRequest \/ UNCHANGED vars
    BY <1>9 DEF ffi_set_free, EndRequest, vars, TypeOK, Shape, Deeds
  <1> QED BY <1>1, <1>2, <1>3, <1>4, <1>5, <1>6, <1>7, <1>8, <1>9, NextCases

LEMMA TypeInit == ASSUME Init PROVE TypeOK /\ Shape
  <1>1. /\ objects \in [Handles -> CStruct] /\ memory \in [Blocks -> Memory]
        /\ value \in [Vars -> Handles \cup {Null}]
    BY ObjectTypes, MemoryTypes DEF Init
  <1>4. refcount \in [Handles -> Nat]
    BY DEF Init
  <1>5. extra \in [Handles -> Int]
    <2>1. extra = [o \in Handles |-> 0]
      BY DEF Init
    <2> QED BY <2>1
  <1>2. is_free_active \in BOOLEAN /\ conduct \subseteq Deeds /\ ~corrupt /\ ~over
        /\ corrupt \in BOOLEAN /\ over \in BOOLEAN
    BY DEF Init, Deeds
  <1>3. Shape
    BY ObjectTypes, MemoryTypes DEF Init, Shape
  <1> QED BY <1>1, <1>2, <1>3, <1>4, <1>5 DEF TypeOK

\* Objects, memory and counts are well typed; no count drops below zero.
THEOREM TypeCorrect == Spec => []TypeOK
  <1>1. Init => TypeOK /\ Shape
    BY TypeInit
  <1>2. TypeOK /\ Shape /\ [Next]_vars => TypeOK' /\ Shape'
    BY TypeStep
  <1> QED BY <1>1, <1>2, PTL DEF Spec

-----------------------------------------------------------------------------
(* The counts.                                                             *)

Owed(o) == Cardinality(Holders(o)) + Cardinality(Fields(o)) + extra[o]

\* The count of an object is what it is owed, in a program that only takes away
\* what it has added.
CountInv == "take" \notin conduct =>
    /\ \A o \in Handles : objects[o].alive => refcount[o] = Owed(o)
    /\ \A o \in Handles : extra[o] >= 0

LEMMA OwnersFinite ==
    ASSUME NEW o
    PROVE  /\ IsFiniteSet(Holders(o)) /\ Cardinality(Holders(o)) \in Nat
           /\ IsFiniteSet(Fields(o)) /\ Cardinality(Fields(o)) \in Nat
           /\ IsFiniteSet(Holders(o)') /\ Cardinality(Holders(o)') \in Nat
           /\ IsFiniteSet(Fields(o)') /\ Cardinality(Fields(o)') \in Nat
  <1>1. Holders(o) \in SUBSET Vars /\ Fields(o) \in SUBSET Blocks
    BY DEF Holders, Fields
  <1>2. Holders(o)' \in SUBSET Vars /\ Fields(o)' \in SUBSET Blocks
    BY DEF Holders, Fields
  <1>3. IsFiniteSet(Vars) /\ IsFiniteSet(Blocks)
    BY ReferencesAssumption, FiniteBlocks
  <1>4. \A S \in SUBSET Vars : IsFiniteSet(S) /\ Cardinality(S) \in Nat
    BY <1>3, FS_Subset, FS_CardinalityType
  <1>5. \A S \in SUBSET Blocks : IsFiniteSet(S) /\ Cardinality(S) \in Nat
    BY <1>3, FS_Subset, FS_CardinalityType
  <1> QED BY <1>1, <1>2, <1>4, <1>5

\* A variable gets another value.
LEMMA HoldersStep ==
    ASSUME TypeOK, NEW x \in Vars, NEW v, value' = [value EXCEPT ![x] = v], NEW o
    PROVE  /\ (value[x] = o /\ v # o) => Cardinality(Holders(o)) = Cardinality(Holders(o)') + 1
           /\ (value[x] # o /\ v = o) => Cardinality(Holders(o)') = Cardinality(Holders(o)) + 1
           /\ (value[x] = o <=> v = o) => Holders(o)' = Holders(o)
  <1>1. IsFiniteSet(Holders(o)) /\ IsFiniteSet(Holders(o)')
    BY OwnersFinite
  <1>2. \A y \in Vars : value'[y] = IF y = x THEN v ELSE value[y]
    BY DEF TypeOK
  <1>3. /\ Holders(o) \ {x} = Holders(o)' \ {x}
        /\ x \in Holders(o) <=> value[x] = o
        /\ x \in Holders(o)' <=> v = o
    BY <1>2 DEF Holders
  <1>4. /\ (x \in Holders(o) /\ x \notin Holders(o)') => Cardinality(Holders(o)) = Cardinality(Holders(o)') + 1
        /\ (x \notin Holders(o) /\ x \in Holders(o)') => Cardinality(Holders(o)') = Cardinality(Holders(o)) + 1
        /\ (x \in Holders(o) <=> x \in Holders(o)') => Holders(o) = Holders(o)'
    BY <1>1, <1>3, DifferInOne
  <1> QED BY <1>3, <1>4

\* The field of a C structure gets another value.
LEMMA FieldsStep ==
    ASSUME TypeOK, NEW b \in Blocks, NEW v,
           \A c \in Blocks : memory'[c].data = IF c = b THEN v ELSE memory[c].data,
           NEW o
    PROVE  /\ (memory[b].data = o /\ v # o) => Cardinality(Fields(o)) = Cardinality(Fields(o)') + 1
           /\ (memory[b].data # o /\ v = o) => Cardinality(Fields(o)') = Cardinality(Fields(o)) + 1
           /\ (memory[b].data = o <=> v = o) => Fields(o)' = Fields(o)
  <1>1. IsFiniteSet(Fields(o)) /\ IsFiniteSet(Fields(o)')
    BY OwnersFinite
  <1>2. /\ Fields(o) \ {b} = Fields(o)' \ {b}
        /\ b \in Fields(o) <=> memory[b].data = o
        /\ b \in Fields(o)' <=> v = o
    BY DEF Fields
  <1>3. /\ (b \in Fields(o) /\ b \notin Fields(o)') => Cardinality(Fields(o)) = Cardinality(Fields(o)') + 1
        /\ (b \notin Fields(o) /\ b \in Fields(o)') => Cardinality(Fields(o)') = Cardinality(Fields(o)) + 1
        /\ (b \in Fields(o) <=> b \in Fields(o)') => Fields(o) = Fields(o)'
    BY <1>1, <1>2, DifferInOne
  <1> QED BY <1>2, <1>3

\* What is freed loses its references.
LEMMA SpendsCount ==
    ASSUME TypeOK, NEW h, NEW o \in Handles, NEW q, Spends(h, o, q), NEW p \in Handles
    PROVE  /\ Cardinality(Fields(p)') + extra'[p] = Cardinality(Fields(p)) + h.extra[p]
           /\ extra'[p] >= h.extra[p] /\ h.extra[p] \in Int /\ extra'[p] \in Int
           /\ Fields(p)' \subseteq Fields(p)
  <1> DEFINE r == [memory |-> memory', extra |-> extra', corrupt |-> corrupt']
  <1>1. h \in Heaps /\ h.memory = memory /\ Effect(h, r, objects[o])
    BY DEF Spends
  <1>2. PICK B \in SUBSET Blocks : Frees(h, r, B)
    BY <1>1 DEF Effect
  <1>3. r.memory = memory' /\ r.extra = extra'
    OBVIOUS
  <1> HIDE DEF r
  <1>4. Held(r, p) = Fields(p)' /\ Held(h, p) = Fields(p)
    BY <1>1, <1>3 DEF Held, Fields
  <1>5. Kept(r, p) = Kept(h, p) /\ r.extra[p] >= h.extra[p] /\ r \in Heaps
    BY <1>2 DEF Frees
  <1>6. \A b \in Blocks : memory'[b] = IF b \in B THEN NoMemory ELSE memory[b]
    BY <1>1, <1>2, <1>3 DEF Frees
  <1>7. Fields(p)' \subseteq Fields(p)
    BY <1>6, MemoryTypes, Constants DEF Fields
  <1>8. h.extra[p] \in Int /\ extra'[p] \in Int
    BY <1>1, <1>3, <1>5 DEF Heaps
  <1> QED BY <1>3, <1>4, <1>5, <1>7, <1>8 DEF Kept

LEMMA OwedType ==
    ASSUME TypeOK, NEW o \in Handles
    PROVE  /\ Owed(o) \in Int /\ extra[o] \in Int /\ refcount[o] \in Nat
           /\ Cardinality(Holders(o)) \in Nat /\ Cardinality(Fields(o)) \in Nat
           /\ value' = value => Holders(o)' = Holders(o)
           /\ memory' = memory => Fields(o)' = Fields(o)
  <1>1. extra[o] \in Int /\ refcount[o] \in Nat
    BY DEF TypeOK
  <1>2. Cardinality(Holders(o)) \in Nat /\ Cardinality(Fields(o)) \in Nat
    BY OwnersFinite
  <1> QED BY <1>1, <1>2 DEF Owed, Holders, Fields

LEMMA ConstructCount ==
    ASSUME TypeOK, Shape, CountInv, NEW x \in Vars, NEW kind, NEW owned, NEW persistent, NEW pointer,
           Construct(x, kind, owned, persistent, pointer)
    PROVE  CountInv'
  <1> SUFFICES ASSUME "take" \notin conduct', NEW p \in Handles
               PROVE  (objects'[p].alive => refcount'[p] = Owed(p)') /\ extra'[p] >= 0
    BY DEF CountInv
  <1>1. PICK o \in First({h \in Handles : ~objects[h].alive}),
             b \in First({m \in Blocks : ~memory[m].live}) :
          /\ value' = [value EXCEPT ![x] = o]
          /\ objects' = [objects EXCEPT ![o] =
                [alive |-> TRUE, struct |-> b, struct_ptr |-> IF kind = "struct" THEN b ELSE Null,
                 owner |-> owned \/ kind = "new",
                 pointee |-> ~owned /\ Type(kind, pointer) = "pointer"]]
          /\ refcount' = [refcount EXCEPT ![o] = 1]
          /\ memory' = [memory EXCEPT ![b] =
                [live |-> TRUE, persistent |-> persistent /\ kind # "new",
                 type |-> Type(kind, pointer), data |-> Null]]
          /\ extra' = [extra EXCEPT ![o] = 0]
    BY DEF Construct
  <1>2. o \in Handles /\ ~objects[o].alive /\ b \in Blocks /\ ~memory[b].live
    BY DEF First
  <1>3. /\ Defined /\ value[x] = Null /\ "take" \notin conduct
    BY DEF Construct, Runs
  <1>4. memory[b].data = Null
    BY <1>2 DEF Shape
  <1>5. \A c \in Blocks : memory'[c].data = IF c = b THEN Null ELSE memory[c].data
    BY <1>1, <1>2 DEF TypeOK
  <1>6. Fields(p)' = Fields(p)
    BY <1>2, <1>4, <1>5, FieldsStep
  <1>7. Cardinality(Fields(p)) \in Nat /\ Cardinality(Holders(p)) \in Nat
    BY OwnersFinite
  <1>8. CASE p = o
    <2>1. Holders(o) = {} /\ Fields(o) = {}
      BY <1>2, <1>3, Constants DEF Holders, Fields, Defined
    <2>2. Cardinality({}) = 0
      BY FS_EmptySet
    <2>3. Cardinality(Holders(o)') = Cardinality(Holders(o)) + 1
      BY <1>1, <1>2, <1>3, Constants, HoldersStep
    <2>4. refcount'[o] = 1 /\ extra'[o] = 0
      BY <1>1, <1>2 DEF TypeOK
    <2> QED BY <1>6, <1>8, <2>1, <2>2, <2>3, <2>4 DEF Owed
  <1>9. CASE p # o
    <2>1. Holders(p)' = Holders(p)
      BY <1>1, <1>3, <1>9, Constants, HoldersStep
    <2>2. objects'[p] = objects[p] /\ refcount'[p] = refcount[p] /\ extra'[p] = extra[p]
      BY <1>1, <1>9 DEF TypeOK
    <2> QED BY <1>3, <1>6, <2>1, <2>2 DEF Owed, CountInv
  <1> QED BY <1>8, <1>9

\* More references to o.
LEMMA SharedType ==
    ASSUME TypeOK, NEW o \in Handles, NEW n \in Nat, Shared(o, n)
    PROVE  /\ refcount'[o] = refcount[o] + n
           /\ \A p \in Handles : p # o => refcount'[p] = refcount[p]
  BY DEF Shared, TypeOK

LEMMA CountsCount ==
    ASSUME TypeOK, Shape, CountInv, Counts
    PROVE  CountInv'
  <1> SUFFICES ASSUME "take" \notin conduct', NEW p \in Handles
               PROVE  (objects'[p].alive => refcount'[p] = Owed(p)') /\ extra'[p] >= 0
    BY DEF CountInv
  <1>1. "take" \notin conduct /\ objects' = objects
    BY DEF Counts, zval_add_ref, Assign, change_value, zval_set_data, zval_get_data
  <1>2. /\ objects[p].alive => refcount[p] = Owed(p)
        /\ extra[p] >= 0
    BY <1>1 DEF CountInv
  <1>3. /\ extra[p] \in Int /\ refcount[p] \in Nat
        /\ Cardinality(Holders(p)) \in Nat /\ Cardinality(Fields(p)) \in Nat
        /\ value' = value => Holders(p)' = Holders(p)
        /\ memory' = memory => Fields(p)' = Fields(p)
    BY OwedType
  <1>4. Cardinality(Holders(p)') \in Nat /\ Cardinality(Fields(p)') \in Nat
    BY OwnersFinite
  <1> DEFINE Goal == (objects'[p].alive => refcount'[p] = Owed(p)') /\ extra'[p] >= 0
  <1>5. ASSUME NEW x \in Vars, zval_add_ref(x) PROVE Goal
    <2>1. value[x] \in Handles
      BY <1>5, HasTyped DEF zval_add_ref
    <2>2. /\ refcount'[value[x]] = refcount[value[x]] + 1
          /\ \A o \in Handles : o # value[x] => refcount'[o] = refcount[o]
      BY <1>5, <2>1, SharedType DEF zval_add_ref
    <2>3. extra'[p] = IF p = value[x] THEN extra[p] + 1 ELSE extra[p]
      BY <1>5, <2>1, Constants DEF zval_add_ref, Lost, TypeOK
    <2>4. Holders(p)' = Holders(p) /\ Fields(p)' = Fields(p)
      BY <1>3, <1>5 DEF zval_add_ref
    <2> QED BY <1>1, <1>2, <1>3, <2>2, <2>3, <2>4 DEF Owed
  <1>6. ASSUME NEW x \in Vars, NEW y \in Vars, Assign(x, y) PROVE Goal
    <2>1. value[y] \in Handles /\ value[x] = Null /\ value' = [value EXCEPT ![x] = value[y]]
      BY <1>6, HasTyped DEF Assign
    <2>2. /\ refcount'[value[y]] = refcount[value[y]] + 1
          /\ \A o \in Handles : o # value[y] => refcount'[o] = refcount[o]
      BY <1>6, <2>1, SharedType DEF Assign
    <2>3. extra' = extra /\ Fields(p)' = Fields(p)
      BY <1>3, <1>6 DEF Assign
    <2>4. /\ p = value[y] => Cardinality(Holders(p)') = Cardinality(Holders(p)) + 1
          /\ p # value[y] => Holders(p)' = Holders(p)
      BY <2>1, HoldersStep, Constants
    <2> QED BY <1>1, <1>2, <1>3, <2>2, <2>3, <2>4 DEF Owed
  <1>7. ASSUME NEW x \in Vars, NEW y \in Vars, change_value(x, y) PROVE Goal
    <2>1. /\ value[y] \in Handles /\ value[x] \in Handles \cup {Null}
          /\ value' = [value EXCEPT ![x] = value[y]]
      BY <1>7, HasTyped DEF change_value, TypeOK
    <2>2. /\ refcount'[value[y]] = refcount[value[y]] + 1
          /\ \A o \in Handles : o # value[y] => refcount'[o] = refcount[o]
      BY <1>7, <2>1, SharedType DEF change_value
    <2>3. extra'[p] = IF p = value[x] THEN extra[p] + 1 ELSE extra[p]
      BY <1>7, <2>1, Constants DEF change_value, Lost, TypeOK
    <2>4. Fields(p)' = Fields(p)
      BY <1>3, <1>7 DEF change_value
    <2>5. /\ (value[x] = p /\ value[y] # p) => Cardinality(Holders(p)) = Cardinality(Holders(p)') + 1
          /\ (value[x] # p /\ value[y] = p) => Cardinality(Holders(p)') = Cardinality(Holders(p)) + 1
          /\ (value[x] = p <=> value[y] = p) => Holders(p)' = Holders(p)
      BY <2>1, HoldersStep
    <2>6. refcount'[p] = IF p = value[y] THEN refcount[p] + 1 ELSE refcount[p]
      BY <2>2
    <2> QED BY <1>1, <1>2, <1>3, <1>4, <2>3, <2>4, <2>5, <2>6 DEF Owed
  <1>8. ASSUME NEW x \in Vars, NEW b \in Blocks, zval_set_data(b, x) PROVE Goal
    <2>1. /\ value[x] \in Handles /\ memory[b].data \in Handles \cup {Null}
          /\ memory' = [memory EXCEPT ![b].data = value[x]]
      BY <1>8, HasTyped, HeapTyped DEF zval_set_data, Memory
    <2>2. /\ refcount'[value[x]] = refcount[value[x]] + 2
          /\ \A o \in Handles : o # value[x] => refcount'[o] = refcount[o]
      BY <1>8, <2>1, SharedType DEF zval_set_data
    <2>3. extra'[p] = extra[p] + (IF p = value[x] THEN 1 ELSE 0)
                               + (IF p = memory[b].data THEN 1 ELSE 0)
      <3>1. extra' = Lost(Lost(extra, value[x]), memory[b].data)
        BY <1>8 DEF zval_set_data
      <3>2. Lost(extra, value[x]) = [extra EXCEPT ![value[x]] = @ + 1]
        BY <2>1, Constants DEF Lost
      <3> QED BY <2>1, <3>1, <3>2, Constants DEF Lost, TypeOK
    <2>4. Holders(p)' = Holders(p)
      BY <1>3, <1>8 DEF zval_set_data
    <2>5. \A c \in Blocks : memory'[c].data = IF c = b THEN value[x] ELSE memory[c].data
      BY <2>1, HeapTyped DEF TypeOK, Memory
    <2>6. /\ (memory[b].data = p /\ value[x] # p) => Cardinality(Fields(p)) = Cardinality(Fields(p)') + 1
          /\ (memory[b].data # p /\ value[x] = p) => Cardinality(Fields(p)') = Cardinality(Fields(p)) + 1
          /\ (memory[b].data = p <=> value[x] = p) => Fields(p)' = Fields(p)
      BY <2>5, FieldsStep
    <2>7. refcount'[p] = IF p = value[x] THEN refcount[p] + 2 ELSE refcount[p]
      BY <2>2
    <2> QED BY <1>1, <1>2, <1>3, <1>4, <2>3, <2>4, <2>6, <2>7 DEF Owed
  <1>9. ASSUME NEW x \in Vars, NEW b \in Blocks, zval_get_data(b, x) PROVE Goal
    <2> DEFINE v == memory[b].data
    <2>1. v \in Handles /\ value[x] = Null /\ value' = [value EXCEPT ![x] = v]
      BY <1>9, HeapTyped DEF zval_get_data, Memory
    <2>2. /\ refcount'[v] = refcount[v] + 1
          /\ \A o \in Handles : o # v => refcount'[o] = refcount[o]
      BY <1>9, <2>1, SharedType DEF zval_get_data
    <2>3. extra' = extra /\ Fields(p)' = Fields(p)
      BY <1>3, <1>9 DEF zval_get_data
    <2> HIDE DEF v
    <2>4. /\ p = v => Cardinality(Holders(p)') = Cardinality(Holders(p)) + 1
          /\ p # v => Holders(p)' = Holders(p)
      BY <2>1, HoldersStep, Constants
    <2> QED BY <1>1, <1>2, <1>3, <2>2, <2>3, <2>4 DEF Owed
  <1> QED BY <1>5, <1>6, <1>7, <1>8, <1>9 DEF Counts

\* Freeing changes no count but that of what is gone.
LEMMA SpendsCounted ==
    ASSUME TypeOK, CountInv, "take" \notin conduct, NEW h, NEW o \in Handles, NEW q,
           Spends(h, o, q), q.alive => objects[o].alive,
           \A p \in Handles : /\ h.extra[p] >= 0
                              /\ p # o \/ q.alive =>
                                    h.extra[p] = extra[p] /\ refcount'[p] = refcount[p]
                                    /\ Holders(p)' = Holders(p)
    PROVE  /\ \A p \in Handles : objects'[p].alive => refcount'[p] = Owed(p)'
           /\ \A p \in Handles : extra'[p] >= 0
  <1> SUFFICES ASSUME NEW p \in Handles
               PROVE  (objects'[p].alive => refcount'[p] = Owed(p)') /\ extra'[p] >= 0
    OBVIOUS
  <1>1. /\ Cardinality(Fields(p)') + extra'[p] = Cardinality(Fields(p)) + h.extra[p]
        /\ extra'[p] >= h.extra[p] /\ h.extra[p] \in Int /\ extra'[p] \in Int
    BY SpendsCount
  <1>2. objects'[p] = IF p = o THEN q ELSE objects[p]
    BY DEF Spends, TypeOK
  <1>3. /\ Cardinality(Holders(p)) \in Nat /\ Cardinality(Fields(p)) \in Nat
        /\ Cardinality(Fields(p)') \in Nat
    BY OwnersFinite
  <1>4. objects[p].alive => refcount[p] = Owed(p)
    BY DEF CountInv
  <1>5. ASSUME objects'[p].alive PROVE refcount'[p] = Owed(p)'
    <2>1. p # o \/ q.alive
      BY <1>2, <1>5
    <2>2. /\ objects[p].alive /\ refcount'[p] = refcount[p] /\ Holders(p)' = Holders(p)
          /\ h.extra[p] = extra[p]
      BY <1>2, <1>5, <2>1
    <2> QED BY <1>1, <1>3, <1>4, <2>2 DEF Owed
  <1> QED BY <1>1, <1>5

\* The engine takes the reference of a variable, or one that was added by hand.
LEMMA ReleasedCount ==
    ASSUME TypeOK, Shape, CountInv, "take" \notin conduct, NEW o \in Handles, objects[o].alive,
           NEW h \in Heaps, h.memory = memory, h.corrupt = corrupt,
           Released(h, o), UNCHANGED is_free_active,
           \A p \in Handles : /\ h.extra[p] >= 0
                              /\ p # o => h.extra[p] = extra[p] /\ Holders(p)' = Holders(p),
           Cardinality(Holders(o)) + extra[o] = Cardinality(Holders(o)') + h.extra[o] + 1
    PROVE  /\ \A p \in Handles : objects'[p].alive => refcount'[p] = Owed(p)'
           /\ \A p \in Handles : extra'[p] >= 0
  <1>1. CASE /\ refcount[o] = 1 /\ refcount' = [refcount EXCEPT ![o] = 0]
             /\ Spends(h, o, NoObject)
    <2>1. \A p \in Handles : p # o => refcount'[p] = refcount[p]
      BY <1>1 DEF TypeOK
    <2>2. ~NoObject.alive
      BY ObjectTypes
    <2>3. \A p \in Handles : /\ h.extra[p] >= 0
                             /\ p # o \/ NoObject.alive =>
                                   h.extra[p] = extra[p] /\ refcount'[p] = refcount[p]
                                   /\ Holders(p)' = Holders(p)
      BY <2>1, <2>2
    <2> QED BY <1>1, <2>2, <2>3, SpendsCounted
  <1>2. CASE /\ refcount[o] >= 2 /\ refcount' = [refcount EXCEPT ![o] = @ - 1]
             /\ memory' = memory /\ extra' = h.extra /\ corrupt' = corrupt /\ objects' = objects
    <2> SUFFICES ASSUME NEW p \in Handles
                 PROVE  (objects'[p].alive => refcount'[p] = Owed(p)') /\ extra'[p] >= 0
      OBVIOUS
    <2>1. /\ extra[p] \in Int /\ refcount[p] \in Nat /\ h.extra[p] \in Int
          /\ Fields(p)' = Fields(p) /\ Cardinality(Fields(p)) \in Nat
          /\ Cardinality(Holders(p)) \in Nat /\ Cardinality(Holders(p)') \in Nat
      BY <1>2, OwedType, OwnersFinite DEF Heaps
    <2>2. refcount'[p] = IF p = o THEN refcount[p] - 1 ELSE refcount[p]
      BY <1>2 DEF TypeOK
    <2>3. objects[p].alive => refcount[p] = Owed(p)
      BY DEF CountInv
    <2>4. objects'[p].alive => objects[p].alive
      BY <1>2
    <2>5. CASE p = o
      BY <1>2, <2>1, <2>2, <2>3, <2>4, <2>5 DEF Owed
    <2>6. CASE p # o
      BY <1>2, <2>1, <2>2, <2>3, <2>4, <2>6 DEF Owed
    <2> QED BY <2>5, <2>6
  <1> QED BY <1>1, <1>2, ReleasedCases

LEMMA CountStep ==
    ASSUME TypeOK, Shape, CountInv, [Next]_vars PROVE CountInv'
  <1> DEFINE Goal == /\ \A p \in Handles : objects'[p].alive => refcount'[p] = Owed(p)'
                     /\ \A p \in Handles : extra'[p] >= 0
  <1>1. ASSUME NEW x \in Vars, NEW s \in Sorts, Construct(x, s[1], s[2], s[3], s[4]) PROVE CountInv'
    BY <1>1, ConstructCount
  <1>2. ASSUME NEW x \in Vars, Invoke(x) PROVE CountInv'
    <2>1. value[x] \in Handles
      BY <1>2, HasTyped DEF Invoke
    <2>2. \A p \in Handles : objects'[p].alive => objects[p].alive
      BY <1>2, <2>1, HeapTyped DEF Invoke, TypeOK, CStruct
    <2>3. UNCHANGED <<value, refcount, memory, extra, conduct>>
      BY <1>2 DEF Invoke
    <2> QED BY <2>2, <2>3 DEF CountInv, Owed, Holders, Fields
  <1>3. ASSUME NEW x \in Vars, Free(x) PROVE CountInv'
    <2> SUFFICES ASSUME "take" \notin conduct' PROVE Goal
      BY DEF CountInv
    <2>1. /\ value[x] \in Handles /\ objects[value[x]].alive
          /\ UNCHANGED <<value, refcount, conduct>> /\ "take" \notin conduct
      BY <1>3, HasTyped DEF Free
    <2>2. CASE UNCHANGED <<memory, extra, corrupt, objects>>
      BY <2>1, <2>2 DEF CountInv, Owed, Holders, Fields
    <2>3. CASE Spends(heap, value[x], [NoObject EXCEPT !.alive = TRUE])
      BY <2>1, <2>3, HeapTyped, OwedType, SpendsCounted DEF CountInv
    <2> QED BY <1>3, <2>2, <2>3, FreeSpends
  <1>4. ASSUME NEW x \in Vars, FfiFreeIf(x) PROVE CountInv'
    <2> SUFFICES ASSUME "take" \notin conduct' PROVE Goal
      BY DEF CountInv
    <2>1. /\ value[x] \in Handles /\ objects[value[x]].alive
          /\ UNCHANGED <<value, refcount, conduct>> /\ "take" \notin conduct
      BY <1>4, HasTyped DEF FfiFreeIf
    <2>2. Spends(heap, value[x], [objects[value[x]] EXCEPT !.struct_ptr = NULL])
      BY <1>4, FfiFreeIfSpends
    <2> QED BY <2>1, <2>2, HeapTyped, OwedType, SpendsCounted DEF CountInv
  <1>5. ASSUME NEW x \in Vars, Unset(x) PROVE CountInv'
    <2> SUFFICES ASSUME "take" \notin conduct' PROVE Goal
      BY DEF CountInv
    <2>0. PICK o \in Handles : o = value[x]
      BY <1>5, HasTyped DEF Unset
    <2>1. /\ o \in Handles /\ objects[o].alive /\ "take" \notin conduct /\ o # Null
          /\ value' = [value EXCEPT ![x] = Null] /\ value[x] = o
          /\ Released(heap, o) /\ is_free_active' = is_free_active
      BY <1>5, <2>0, HasTyped, Constants DEF Unset
    <2>2. /\ \A p \in Handles : p # o => Holders(p)' = Holders(p)
          /\ Cardinality(Holders(o)) = Cardinality(Holders(o)') + 1
      BY <2>1, HoldersStep, Constants
    <2>3. \A p \in Handles : heap.extra[p] = extra[p] /\ extra[p] >= 0
      BY <2>1, HeapTyped DEF CountInv
    <2>4. extra[o] \in Int /\ Cardinality(Holders(o)') \in Nat
      BY OwedType, OwnersFinite
    <2>5. Cardinality(Holders(o)) + extra[o] = Cardinality(Holders(o)') + heap.extra[o] + 1
      BY <2>2, <2>3, <2>4
    <2>6. \A p \in Handles : /\ heap.extra[p] >= 0
                             /\ p # o => heap.extra[p] = extra[p] /\ Holders(p)' = Holders(p)
      BY <2>2, <2>3
    <2>7. heap \in Heaps /\ heap.memory = memory /\ heap.corrupt = corrupt
      BY HeapTyped
    <2> QED BY <2>1, <2>5, <2>6, <2>7, ReleasedCount
  <1>6. ASSUME NEW x \in Vars, zval_del_ref(x) PROVE CountInv'
    <2> SUFFICES ASSUME "take" \notin conduct' PROVE Goal
      BY DEF CountInv
    <2>0. PICK o \in Handles : o = value[x]
      BY <1>6, HasTyped DEF zval_del_ref
    <2> DEFINE h == [heap EXCEPT !.extra[o] = @ - 1]
    <2>1. /\ objects[o].alive /\ "take" \notin conduct
          /\ Released(h, o) /\ is_free_active' = is_free_active /\ value' = value
          /\ extra[o] > 0
      BY <1>6, <2>0, HasTyped DEF zval_del_ref
    <2>2. /\ h \in Heaps /\ h.memory = memory /\ h.corrupt = corrupt
          /\ h.extra = [extra EXCEPT ![o] = @ - 1]
      BY TakenHeap
    <2> HIDE DEF h
    <2>3. \A p \in Handles : h.extra[p] = IF p = o THEN extra[p] - 1 ELSE extra[p]
      BY <2>2 DEF TypeOK
    <2>4. \A p \in Handles : Holders(p)' = Holders(p) /\ extra[p] >= 0 /\ extra[p] \in Int
      BY <2>1, OwedType DEF CountInv
    <2>5. Cardinality(Holders(o)) \in Nat
      BY OwedType
    <2>6. Cardinality(Holders(o)) + extra[o] = Cardinality(Holders(o)') + h.extra[o] + 1
      BY <2>3, <2>4, <2>5
    <2>7. \A p \in Handles : /\ h.extra[p] >= 0
                             /\ p # o => h.extra[p] = extra[p] /\ Holders(p)' = Holders(p)
      BY <2>1, <2>3, <2>4
    <2> QED BY <2>1, <2>2, <2>6, <2>7, ReleasedCount
  <1>7. CASE Counts
    BY <1>7, CountsCount
  <1>8. ASSUME NEW o \in Handles, StoreFree(o) PROVE CountInv'
    <2> SUFFICES ASSUME "take" \notin conduct' PROVE Goal
      BY DEF CountInv
    <2>1. Spends(heap, o, NoObject)
      BY <1>8, DestroyedSpends, HeapTyped DEF StoreFree
    <2>2. /\ UNCHANGED <<value, conduct>> /\ "take" \notin conduct
          /\ \A p \in Handles : p # o => refcount'[p] = refcount[p]
      BY <1>8 DEF StoreFree, TypeOK
    <2> QED BY <2>1, <2>2, HeapTyped, ObjectTypes, OwedType, SpendsCounted DEF CountInv
  <1>9. CASE (\E status \in BOOLEAN : ffi_set_free(status)) \/ EndRequest \/ UNCHANGED vars
    BY <1>9 DEF ffi_set_free, EndRequest, vars, CountInv, Owed, Holders, Fields
  <1> QED BY <1>1, <1>2, <1>3, <1>4, <1>5, <1>6, <1>7, <1>8, <1>9, NextCases

LEMMA CountInit == ASSUME Init PROVE CountInv
  <1>1. \A o \in Handles : ~objects[o].alive
    BY ObjectTypes DEF Init
  <1>2. extra = [o \in Handles |-> 0]
    BY DEF Init
  <1>3. \A o \in Handles : extra[o] >= 0
    BY <1>2
  <1> QED BY <1>1, <1>3 DEF CountInv

\* A program that takes no reference away that it did not add never makes the
\* engine's count of an object differ from what holds it.
THEOREM CountsRight == Spec => []Counted
  <1>1. Init => TypeOK /\ Shape /\ CountInv
    BY TypeInit, CountInit
  <1>2. TypeOK /\ Shape /\ CountInv /\ [Next]_vars => TypeOK' /\ Shape' /\ CountInv'
    BY TypeStep, CountStep
  <1>3. CountInv => Counted
    BY DEF CountInv, Counted, Owed
  <1> QED BY <1>1, <1>2, <1>3, PTL DEF Spec

-----------------------------------------------------------------------------
(* What is held is there.                                                  *)

NoneGone ==
    /\ \A x \in Vars : value[x] # Null => objects[value[x]].alive
    /\ \A b \in Blocks : memory[b].data # Null => objects[memory[b].data].alive

AliveInv == ("take" \notin conduct /\ ~over) => NoneGone

LEMMA NoneHolds ==
    ASSUME NEW o
    PROVE  /\ Cardinality(Holders(o)) = 0 <=> Holders(o) = {}
           /\ Cardinality(Fields(o)) = 0 <=> Fields(o) = {}
           /\ Cardinality(Holders(o)') = 0 <=> Holders(o)' = {}
  BY OwnersFinite, FS_EmptySet

\* An object goes, or is freed by hand: whoever holds one of the others does so.
LEMMA SpendsAlive ==
    ASSUME TypeOK, NoneGone, NEW h, NEW o \in Handles, NEW q, Spends(h, o, q),
           q.alive \/ (Holders(o)' = {} /\ Fields(o) = {}),
           \A y \in Vars : value'[y] = value[y] \/ value'[y] = Null
    PROVE  NoneGone'
  <1>1. \A p \in Handles : objects'[p] = IF p = o THEN q ELSE objects[p]
    BY DEF Spends, TypeOK
  <1>2. PICK B \in SUBSET Blocks :
           memory' = [b \in Blocks |-> IF b \in B THEN NoMemory ELSE memory[b]]
    BY DEF Spends, Effect, Frees
  <1>3. ASSUME NEW y \in Vars, value'[y] # Null PROVE objects'[value'[y]].alive
    <2>1. value'[y] = value[y] /\ value[y] \in Handles /\ objects[value[y]].alive
      BY <1>3 DEF NoneGone, TypeOK
    <2>2. value'[y] = o => q.alive
      BY DEF Holders
    <2> QED BY <1>1, <2>1, <2>2
  <1>4. ASSUME NEW b \in Blocks, memory'[b].data # Null PROVE objects'[memory'[b].data].alive
    <2>1. memory'[b] = memory[b]
      BY <1>2, <1>4, MemoryTypes
    <2>2. memory[b].data \in Handles /\ objects[memory[b].data].alive
      BY <1>4, <2>1, HeapTyped DEF NoneGone, Memory
    <2>3. memory[b].data = o => q.alive
      BY DEF Fields
    <2> QED BY <1>1, <2>1, <2>2, <2>3
  <1> QED BY <1>3, <1>4 DEF NoneGone

LEMMA AliveStep ==
    ASSUME TypeOK, Shape, CountInv, AliveInv, [Next]_vars PROVE AliveInv'
  <1> SUFFICES ASSUME "take" \notin conduct', ~over' PROVE NoneGone'
    BY DEF AliveInv
  <1>1. ASSUME NEW x \in Vars, NEW s \in Sorts, Construct(x, s[1], s[2], s[3], s[4]) PROVE NoneGone'
    <2>1. PICK o \in First({h \in Handles : ~objects[h].alive}),
               b \in First({m \in Blocks : ~memory[m].live}) :
            /\ value' = [value EXCEPT ![x] = o]
            /\ objects' = [objects EXCEPT ![o] =
                  [alive |-> TRUE, struct |-> b, struct_ptr |-> IF s[1] = "struct" THEN b ELSE Null,
                   owner |-> s[2] \/ s[1] = "new",
                   pointee |-> ~s[2] /\ Type(s[1], s[4]) = "pointer"]]
            /\ memory' = [memory EXCEPT ![b] =
                  [live |-> TRUE, persistent |-> s[3] /\ s[1] # "new",
                   type |-> Type(s[1], s[4]), data |-> Null]]
      BY <1>1 DEF Construct
    <2>2. o \in Handles /\ b \in Blocks
      BY DEF First
    <2>3. Defined
      BY <1>1 DEF Construct, Runs
    <2>4. \A p \in Handles : objects[p].alive => objects'[p].alive
      BY <2>1, <2>2 DEF TypeOK
    <2>5. objects'[o].alive
      BY <2>1, <2>2 DEF TypeOK
    <2>6. \A y \in Vars : value'[y] = IF y = x THEN o ELSE value[y]
      BY <2>1 DEF TypeOK
    <2>7. \A c \in Blocks : memory'[c].data = IF c = b THEN Null ELSE memory[c].data
      BY <2>1, <2>2 DEF TypeOK
    <2>8. /\ \A y \in Vars : value[y] \in Handles \cup {Null}
          /\ \A c \in Blocks : memory[c].data \in Handles \cup {Null}
      BY HeapTyped DEF TypeOK, Memory
    <2> QED BY <2>3, <2>4, <2>5, <2>6, <2>7, <2>8 DEF NoneGone, Defined
  <1>2. ASSUME NEW x \in Vars, Invoke(x) PROVE NoneGone'
    <2>1. value[x] \in Handles /\ Defined
      BY <1>2, HasTyped DEF Invoke
    <2>2. \A p \in Handles : objects[p].alive => objects'[p].alive
      BY <1>2, <2>1, HeapTyped DEF Invoke, TypeOK, CStruct
    <2>3. UNCHANGED <<value, memory>>
      BY <1>2 DEF Invoke
    <2>4. /\ \A y \in Vars : value[y] \in Handles \cup {Null}
          /\ \A c \in Blocks : memory[c].data \in Handles \cup {Null}
      BY HeapTyped DEF TypeOK, Memory
    <2> QED BY <2>1, <2>2, <2>3, <2>4 DEF NoneGone, Defined
  <1>3. ASSUME NEW x \in Vars, Free(x) PROVE NoneGone'
    <2> DEFINE q == [NoObject EXCEPT !.alive = TRUE]
    <2>0. q.alive
      BY DEF NoObject
    <2>1. value[x] \in Handles /\ NoneGone /\ value' = value
      BY <1>3, HasTyped DEF Free, Defined, NoneGone
    <2>2. CASE UNCHANGED <<memory, extra, corrupt, objects>>
      BY <2>1, <2>2 DEF NoneGone
    <2>3. CASE Spends(heap, value[x], q)
      BY <2>0, <2>1, <2>3, SpendsAlive
    <2> QED BY <1>3, <2>2, <2>3, FreeSpends
  <1>4. ASSUME NEW x \in Vars, FfiFreeIf(x) PROVE NoneGone'
    <2> DEFINE q == [objects[value[x]] EXCEPT !.struct_ptr = NULL]
    <2>1. /\ value[x] \in Handles /\ NoneGone /\ value' = value
          /\ objects[value[x]].alive /\ objects[value[x]] \in CStruct
      BY <1>4, HasTyped, HeapTyped DEF FfiFreeIf, Defined, NoneGone
    <2>2. q.alive
      BY <2>1 DEF CStruct
    <2>3. Spends(heap, value[x], q)
      BY <1>4, FfiFreeIfSpends
    <2> HIDE DEF q
    <2> QED BY <2>1, <2>2, <2>3, SpendsAlive
  <1>5. ASSUME NEW x \in Vars, Unset(x) PROVE NoneGone'
    <2>0. PICK o \in Handles : o = value[x]
      BY <1>5, HasTyped DEF Unset
    <2>1. /\ objects[o].alive /\ "take" \notin conduct /\ o # Null /\ NoneGone
          /\ value' = [value EXCEPT ![x] = Null] /\ value[x] = o
          /\ Released(heap, o) /\ is_free_active' = is_free_active
      BY <1>5, <2>0, HasTyped, Constants DEF Unset, Defined, NoneGone
    <2>2. Cardinality(Holders(o)) = Cardinality(Holders(o)') + 1
      BY <2>1, HoldersStep, Constants
    <2>3. \A y \in Vars : value'[y] = value[y] \/ value'[y] = Null
      BY <2>1 DEF TypeOK
    <2>4. CASE refcount[o] = 1 /\ Spends(heap, o, NoObject)
      <3>1. Owed(o) = 1 /\ extra[o] >= 0
        BY <2>1, <2>4 DEF CountInv
      <3>2. Cardinality(Holders(o)') = 0 /\ Cardinality(Fields(o)) = 0
        BY <2>2, <3>1, OwedType, OwnersFinite DEF Owed
      <3>3. Holders(o)' = {} /\ Fields(o) = {}
        BY <3>2, NoneHolds
      <3> QED BY <2>1, <2>3, <2>4, <3>3, SpendsAlive
    <2>5. CASE memory' = memory /\ objects' = objects
      BY <2>1, <2>3, <2>5 DEF NoneGone
    <2> QED BY <2>1, <2>4, <2>5, HeapTyped, ReleasedCases
  <1>6. ASSUME NEW x \in Vars, zval_del_ref(x) PROVE NoneGone'
    <2>0. PICK o \in Handles : o = value[x]
      BY <1>6, HasTyped DEF zval_del_ref
    <2> DEFINE h == [heap EXCEPT !.extra[o] = @ - 1]
    <2>1. /\ objects[o].alive /\ "take" \notin conduct /\ NoneGone
          /\ Released(h, o) /\ is_free_active' = is_free_active /\ value' = value
          /\ extra[o] > 0 /\ x \in Holders(o)
      BY <1>6, <2>0, HasTyped DEF zval_del_ref, Holders, Defined, NoneGone
    <2>2. h \in Heaps /\ h.memory = memory /\ h.corrupt = corrupt
      BY TakenHeap
    <2> HIDE DEF h
    <2>3. refcount[o] # 1
      <3>1. refcount[o] = Owed(o)
        BY <2>1 DEF CountInv
      <3>2. Cardinality(Holders(o)) # 0
        BY <2>1, NoneHolds
      <3> QED BY <2>1, <3>1, <3>2, OwedType DEF Owed
    <2>4. memory' = memory /\ objects' = objects
      BY <2>1, <2>2, <2>3, ReleasedCases
    <2> QED BY <2>1, <2>4 DEF NoneGone
  <1>7. ASSUME Counts PROVE NoneGone'
    <2>1. objects' = objects
      BY <1>7 DEF Counts, zval_add_ref, Assign, change_value, zval_set_data, zval_get_data
    <2>2. ASSUME NEW x \in Vars, zval_add_ref(x) PROVE NoneGone'
      BY <2>1, <2>2 DEF zval_add_ref, Has, Runs, Defined, NoneGone
    <2>3. ASSUME NEW x \in Vars, NEW y \in Vars, Assign(x, y) \/ change_value(x, y) PROVE NoneGone'
      <3>1. /\ Defined /\ memory' = memory /\ value' = [value EXCEPT ![x] = value[y]]
        BY <2>3 DEF Assign, change_value, Has, Runs
      <3>2. \A z \in Vars : value'[z] = IF z = x THEN value[y] ELSE value[z]
        BY <3>1 DEF TypeOK
      <3> QED BY <2>1, <3>1, <3>2 DEF Defined, NoneGone
    <2>4. ASSUME NEW x \in Vars, NEW b \in Blocks, zval_set_data(b, x) PROVE NoneGone'
      <3>1. /\ Defined /\ value' = value /\ memory' = [memory EXCEPT ![b].data = value[x]]
        BY <2>4 DEF zval_set_data, Has, Runs
      <3>2. \A c \in Blocks : memory'[c].data = IF c = b THEN value[x] ELSE memory[c].data
        BY <3>1, HeapTyped DEF TypeOK, Memory
      <3> QED BY <2>1, <3>1, <3>2 DEF Defined, NoneGone
    <2>5. ASSUME NEW x \in Vars, NEW b \in Blocks, zval_get_data(b, x) PROVE NoneGone'
      <3>1. /\ Defined /\ memory' = memory /\ value' = [value EXCEPT ![x] = memory[b].data]
        BY <2>5 DEF zval_get_data, Runs
      <3>2. \A z \in Vars : value'[z] = IF z = x THEN memory[b].data ELSE value[z]
        BY <3>1 DEF TypeOK
      <3> QED BY <2>1, <3>1, <3>2 DEF Defined, NoneGone
    <2> QED BY <1>7, <2>2, <2>3, <2>4, <2>5 DEF Counts
  <1>8. ASSUME NEW o \in Handles, StoreFree(o) PROVE FALSE
    BY <1>8 DEF StoreFree
  <1>9. ASSUME (\E status \in BOOLEAN : ffi_set_free(status)) \/ EndRequest \/ UNCHANGED vars
        PROVE  NoneGone'
    <2>0. over' # TRUE
      OBVIOUS
    <2>1. UNCHANGED <<value, objects, memory, over>>
      BY <1>9, <2>0 DEF ffi_set_free, EndRequest, vars
    <2>2. conduct \subseteq conduct'
      BY <1>9 DEF ffi_set_free, EndRequest, vars
    <2> QED BY <2>1, <2>2 DEF AliveInv, NoneGone
  <1> QED BY <1>1, <1>2, <1>3, <1>4, <1>5, <1>6, <1>7, <1>8, <1>9, NextCases

LEMMA AliveInit == ASSUME Init PROVE AliveInv
  <1>1. /\ \A x \in Vars : value[x] = Null
        /\ \A b \in Blocks : memory[b].data = Null
    BY MemoryTypes DEF Init
  <1> QED BY <1>1 DEF AliveInv, NoneGone

\* As long as the request lasts no variable and no C structure holds an object
\* that is gone, in a program that takes no reference away that it did not add.
THEOREM HeldLives == Spec => []Alive
  <1>1. Init => TypeOK /\ Shape /\ CountInv /\ AliveInv
    BY TypeInit, CountInit, AliveInit
  <1>2. TypeOK /\ Shape /\ CountInv /\ AliveInv /\ [Next]_vars
           => TypeOK' /\ Shape' /\ CountInv' /\ AliveInv'
    BY TypeStep, CountStep, AliveStep
  <1>3. AliveInv => Alive
    BY Constants DEF AliveInv, NoneGone, Alive, Holders, Fields
  <1> QED BY <1>1, <1>2, <1>3, PTL DEF Spec

-----------------------------------------------------------------------------
(* Memory is freed once, and not forgotten.                                *)

\* What the program has done about ffi_free_if().
HandInv == IF is_free_active THEN "free" \in conduct ELSE "no free" \in conduct

\* No CData owns memory and no structure is a pointer.  The pointer of an object is to its structure, which is
\* live and nobody else's; where it is yet to be made the structure is an array.
PlainInv == "kept" \notin conduct =>
    /\ ~corrupt
    /\ \A o \in Handles : ~objects[o].owner /\ ~objects[o].pointee
    /\ \A b \in Blocks : ~memory[b].persistent
    /\ \A o \in Handles : objects[o].struct_ptr \in Blocks =>
          /\ objects[o].struct = objects[o].struct_ptr
          /\ memory[objects[o].struct_ptr].live /\ memory[objects[o].struct_ptr].type # "array"
    /\ \A o, p \in Handles :
          objects[o].struct_ptr \in Blocks /\ objects[o].struct_ptr = objects[p].struct_ptr => o = p
    /\ \A o \in Handles : objects[o].struct \in Blocks /\ objects[o].struct_ptr = Null =>
          memory[objects[o].struct].live /\ memory[objects[o].struct].type = "array"

\* What a CData owns is live and nobody else's.
OwnedInv == "free" \notin conduct =>
    /\ ~corrupt
    /\ \A o \in Handles : objects[o].owner =>
          objects[o].struct \in Blocks /\ memory[objects[o].struct].live
    /\ \A o, p \in Handles :
          objects[o].owner /\ objects[p].owner /\ objects[o].struct = objects[p].struct => o = p

\* Memory that is only freed by hand has a pointer to it.
ReachInv == (conduct \subseteq {"free"} /\ ~over) =>
    \A b \in Blocks : memory[b].live /\ memory[b].type # "array" =>
        \E o \in Handles : objects[o].struct_ptr = b

\* A step that frees and makes nothing, and writes at most the fields.
Still ==
    /\ UNCHANGED <<objects, corrupt>>
    /\ \A b \in Blocks : /\ memory'[b].live = memory[b].live
                         /\ memory'[b].persistent = memory[b].persistent
                         /\ memory'[b].type = memory[b].type

LEMMA CountsStill ==
    ASSUME TypeOK, Counts
    PROVE  Still /\ UNCHANGED <<is_free_active, conduct, over>>
  <1>1. CASE memory' = memory
    BY <1>1 DEF Counts, Still, zval_add_ref, Assign, change_value, zval_set_data, zval_get_data
  <1>2. ASSUME NEW x \in Vars, NEW b \in Blocks, zval_set_data(b, x)
        PROVE  Still /\ UNCHANGED <<is_free_active, conduct, over>>
    <2>1. memory' = [memory EXCEPT ![b].data = value[x]]
      BY <1>2 DEF zval_set_data
    <2>2. \A c \in Blocks : /\ memory'[c].live = memory[c].live
                            /\ memory'[c].persistent = memory[c].persistent
                            /\ memory'[c].type = memory[c].type
      BY <2>1, HeapTyped DEF TypeOK, Memory
    <2> QED BY <1>2, <2>2 DEF Still, zval_set_data
  <1>3. memory' = memory \/ \E x \in Vars, b \in Blocks : zval_set_data(b, x)
    BY DEF Counts, zval_add_ref, Assign, change_value, zval_get_data
  <1> QED BY <1>1, <1>2, <1>3

LEMMA StepKinds ==
    ASSUME TypeOK, Shape, [Next]_vars
    PROVE  \/ \E x \in Vars, s \in Sorts : Construct(x, s[1], s[2], s[3], s[4])
           \/ \E x \in Vars : Invoke(x)
           \/ /\ \E h \in Heaps, o \in Handles, q \in CStruct : Spends(h, o, q)
              /\ conduct \subseteq conduct' /\ over' = over
           \/ Still /\ conduct \subseteq conduct' /\ (over => over')
  <1> DEFINE Spending == /\ \E h \in Heaps, o \in Handles, q \in CStruct : Spends(h, o, q)
                         /\ conduct \subseteq conduct' /\ over' = over
             Resting == Still /\ conduct \subseteq conduct' /\ (over => over')
  <1>0. ASSUME NEW h, NEW o \in Handles, NEW q, Spends(h, o, q),
               conduct \subseteq conduct', over' = over
        PROVE  Spending
    <2>1. h \in Heaps /\ q \in CStruct
      BY <1>0, SpendsType DEF Spends
    <2> QED BY <1>0, <2>1
  <1>1. ASSUME NEW x \in Vars, Free(x) PROVE Spending \/ Resting
    <2>1. value[x] \in Handles /\ UNCHANGED <<conduct, over>>
      BY <1>1, HasTyped DEF Free
    <2>2. CASE UNCHANGED <<memory, extra, corrupt, objects>>
      BY <2>1, <2>2 DEF Still
    <2>3. CASE Spends(heap, value[x], [NoObject EXCEPT !.alive = TRUE])
      BY <1>0, <2>1, <2>3
    <2> QED BY <1>1, <2>2, <2>3, FreeSpends
  <1>2. ASSUME NEW x \in Vars, FfiFreeIf(x) PROVE Spending
    <2>1. UNCHANGED <<conduct, over>>
      BY <1>2 DEF FfiFreeIf
    <2> HIDE DEF Spending
    <2> QED BY <1>0, <1>2, <2>1, FfiFreeIfSpends
  <1>3. ASSUME NEW x \in Vars, NEW h \in Heaps, Has(x), Released(h, value[x]),
               h.memory = memory, h.corrupt = corrupt, UNCHANGED <<is_free_active, over>>,
               conduct \subseteq conduct'
        PROVE  Spending \/ Resting
    <2>1. value[x] \in Handles /\ objects[value[x]].alive
      BY <1>3, HasTyped
    <2>2. CASE Spends(h, value[x], NoObject)
      BY <1>0, <1>3, <2>1, <2>2
    <2>3. CASE memory' = memory /\ corrupt' = corrupt /\ objects' = objects
      BY <1>3, <2>3 DEF Still
    <2> QED BY <1>3, <2>1, <2>2, <2>3, ReleasedCases
  <1>4. ASSUME NEW x \in Vars, Unset(x) PROVE Spending \/ Resting
    <2>1. /\ Has(x) /\ Released(heap, value[x]) /\ UNCHANGED <<is_free_active, over>>
          /\ conduct \subseteq conduct'
      BY <1>4 DEF Unset
    <2> HIDE DEF Spending, Resting
    <2> QED BY <1>3, <2>1, HeapTyped
  <1>5. ASSUME NEW x \in Vars, zval_del_ref(x) PROVE Spending \/ Resting
    <2> DEFINE h == [heap EXCEPT !.extra[value[x]] = @ - 1]
    <2>1. /\ Has(x) /\ Released(h, value[x]) /\ UNCHANGED <<is_free_active, over>>
          /\ conduct \subseteq conduct'
      BY <1>5 DEF zval_del_ref
    <2>2. h \in Heaps /\ h.memory = memory /\ h.corrupt = corrupt
      BY <2>1, HasTyped, TakenHeap
    <2> HIDE DEF h, Spending, Resting
    <2> QED BY <1>3, <2>1, <2>2
  <1>6. ASSUME NEW o \in Handles, StoreFree(o) PROVE Spending
    <2>1. UNCHANGED <<conduct, over>>
      BY <1>6 DEF StoreFree
    <2>2. Spends(heap, o, NoObject)
      BY <1>6, DestroyedSpends, HeapTyped DEF StoreFree
    <2> HIDE DEF Spending
    <2> QED BY <1>0, <2>1, <2>2
  <1>7. ASSUME (\E status \in BOOLEAN : ffi_set_free(status)) \/ EndRequest \/ UNCHANGED vars
        PROVE  Resting
    <2>1. UNCHANGED <<objects, memory, corrupt>> /\ (over' = over \/ over' = TRUE)
      BY <1>7 DEF ffi_set_free, EndRequest, vars
    <2>2. conduct \subseteq conduct'
      BY <1>7 DEF ffi_set_free, EndRequest, vars
    <2>3. over => over'
      BY <2>1
    <2> QED BY <2>1, <2>2, <2>3 DEF Still
  <1>8. CASE Counts
    BY <1>8, CountsStill
  <1> QED BY <1>1, <1>2, <1>4, <1>5, <1>6, <1>7, <1>8, NextCases

LEMMA HandStep ==
    ASSUME TypeOK, HandInv, [Next]_vars PROVE HandInv'
  <1>1. ASSUME NEW status \in BOOLEAN, ffi_set_free(status) PROVE HandInv'
    BY <1>1 DEF ffi_set_free, HandInv
  <1>2. CASE is_free_active' = is_free_active /\ conduct \subseteq conduct'
    BY <1>2 DEF HandInv
  <1>3. CASE Counts
    BY <1>2, <1>3, CountsStill
  <1>4. ASSUME NEW x \in Vars, NEW s \in Sorts, Construct(x, s[1], s[2], s[3], s[4]) PROVE HandInv'
    BY <1>2, <1>4 DEF Construct
  <1>5. ASSUME NEW x \in Vars, Invoke(x) \/ Free(x) \/ FfiFreeIf(x) \/ Unset(x) \/ zval_del_ref(x)
        PROVE  HandInv'
    BY <1>2, <1>5 DEF Invoke, Free, FfiFreeIf, Unset, zval_del_ref
  <1>6. ASSUME NEW o \in Handles, StoreFree(o) PROVE HandInv'
    BY <1>2, <1>6 DEF StoreFree
  <1>7. CASE EndRequest \/ UNCHANGED vars
    BY <1>2, <1>7 DEF EndRequest, vars
  <1> QED BY <1>1, <1>3, <1>4, <1>5, <1>6, <1>7, NextCases

\* What the three kinds of steps do to objects and to memory.
LEMMA SpendsMemory ==
    ASSUME TypeOK, NEW h, NEW o \in Handles, NEW q, Spends(h, o, q)
    PROVE  /\ \A p \in Handles : objects'[p] = IF p = o THEN q ELSE objects[p]
           /\ ~q.owner \/ is_free_active
           /\ q.struct_ptr \in {Null, NULL}
           /\ q.struct_ptr = Null => q.struct = Null
           /\ q.owner => objects[o].owner
           /\ q.pointee => objects[o].pointee
           /\ \E B \in SUBSET Blocks :
                 /\ memory' = [b \in Blocks |-> IF b \in B THEN NoMemory ELSE memory[b]]
                 /\ ~objects[o].owner =>
                       /\ B = Pointed(objects[o])
                       /\ corrupt' => \/ corrupt \/ objects[o].pointee
                                      \/ \E b \in B : ~memory[b].live \/ memory[b].persistent
                 /\ ~is_free_active =>
                       /\ B \subseteq IF objects[o].owner THEN {objects[o].struct} ELSE {}
                       /\ corrupt' => corrupt \/ \E b \in B : ~memory[b].live
  <1> DEFINE r == [memory |-> memory', extra |-> extra', corrupt |-> corrupt']
  <1>1. /\ h.memory = memory /\ h.corrupt = corrupt /\ Effect(h, r, objects[o])
        /\ r.memory = memory' /\ r.corrupt = corrupt'
    BY DEF Spends
  <1> HIDE DEF r
  <1>2. \E B \in SUBSET Blocks :
                 /\ memory' = [b \in Blocks |-> IF b \in B THEN NoMemory ELSE memory[b]]
                 /\ ~objects[o].owner =>
                       /\ B = Pointed(objects[o])
                       /\ corrupt' => \/ corrupt \/ objects[o].pointee
                                      \/ \E b \in B : ~memory[b].live \/ memory[b].persistent
                 /\ ~is_free_active =>
                       /\ B \subseteq IF objects[o].owner THEN {objects[o].struct} ELSE {}
                       /\ corrupt' => corrupt \/ \E b \in B : ~memory[b].live
    BY <1>1 DEF Effect, Frees
  <1>3. \A p \in Handles : objects'[p] = IF p = o THEN q ELSE objects[p]
    BY DEF Spends, TypeOK
  <1>4. objects[o] \in CStruct
    BY HeapTyped
  <1>5. CASE q \in {NoObject, [NoObject EXCEPT !.alive = TRUE]}
    BY <1>2, <1>3, <1>5 DEF NoObject
  <1>6. CASE is_free_active /\ q = [objects[o] EXCEPT !.struct_ptr = NULL]
    <2>1. q.struct_ptr = NULL /\ q.owner = objects[o].owner /\ q.pointee = objects[o].pointee
      BY <1>4, <1>6 DEF CStruct
    <2> QED BY <1>2, <1>3, <1>6, <2>1, Constants
  <1> QED BY <1>5, <1>6 DEF Spends

LEMMA ConstructMakes ==
    ASSUME TypeOK, Shape, NEW x \in Vars, NEW s \in Sorts, Construct(x, s[1], s[2], s[3], s[4])
    PROVE  /\ corrupt' = corrupt /\ over' = over /\ conduct \subseteq conduct'
           /\ "kept" \notin conduct' => s[1] # "new" /\ ~s[2] /\ ~s[3] /\ Type(s[1], s[4]) # "pointer"
           /\ \E o \in Handles, b \in Blocks :
                 /\ objects[o] = NoObject /\ ~memory[b].live
                 /\ \A p \in Handles : objects'[p] =
                       IF p = o
                       THEN [alive |-> TRUE, struct |-> b,
                             struct_ptr |-> IF s[1] = "struct" THEN b ELSE Null,
                             owner |-> s[2] \/ s[1] = "new",
                             pointee |-> ~s[2] /\ Type(s[1], s[4]) = "pointer"]
                       ELSE objects[p]
                 /\ \A c \in Blocks : memory'[c] =
                       IF c = b
                       THEN [live |-> TRUE, persistent |-> s[3] /\ s[1] # "new",
                             type |-> Type(s[1], s[4]), data |-> Null]
                       ELSE memory[c]
  <1>1. PICK o \in First({h \in Handles : ~objects[h].alive}),
             b \in First({m \in Blocks : ~memory[m].live}) :
          /\ objects' = [objects EXCEPT ![o] =
                [alive |-> TRUE, struct |-> b, struct_ptr |-> IF s[1] = "struct" THEN b ELSE Null,
                 owner |-> s[2] \/ s[1] = "new",
                 pointee |-> ~s[2] /\ Type(s[1], s[4]) = "pointer"]]
          /\ memory' = [memory EXCEPT ![b] =
                [live |-> TRUE, persistent |-> s[3] /\ s[1] # "new",
                 type |-> Type(s[1], s[4]), data |-> Null]]
    BY DEF Construct
  <1>2. o \in Handles /\ ~objects[o].alive /\ b \in Blocks /\ ~memory[b].live
    BY DEF First
  <1>3. objects[o] = NoObject
    BY <1>2 DEF Shape
  <1>4. \A p \in Handles : objects'[p] =
           IF p = o
           THEN [alive |-> TRUE, struct |-> b, struct_ptr |-> IF s[1] = "struct" THEN b ELSE Null,
                 owner |-> s[2] \/ s[1] = "new",
                 pointee |-> ~s[2] /\ Type(s[1], s[4]) = "pointer"]
           ELSE objects[p]
    BY <1>1, <1>2 DEF TypeOK
  <1>5. \A c \in Blocks : memory'[c] =
           IF c = b
           THEN [live |-> TRUE, persistent |-> s[3] /\ s[1] # "new",
                 type |-> Type(s[1], s[4]), data |-> Null]
           ELSE memory[c]
    BY <1>1, <1>2 DEF TypeOK
  <1>6. /\ corrupt' = corrupt /\ over' = over /\ conduct \subseteq conduct'
        /\ "kept" \notin conduct' => s[1] # "new" /\ ~s[2] /\ ~s[3] /\ Type(s[1], s[4]) # "pointer"
    BY DEF Construct
  <1> QED BY <1>2, <1>3, <1>4, <1>5, <1>6

LEMMA InvokePoints ==
    ASSUME TypeOK, NEW x \in Vars, Invoke(x)
    PROVE  /\ UNCHANGED <<memory, corrupt, conduct, over>>
           /\ \E o \in Handles :
                 /\ objects[o].struct \in Blocks /\ memory[objects[o].struct].type # "array"
                 /\ objects[o].struct_ptr = Null
                 /\ \A p \in Handles : /\ objects'[p].owner = objects[p].owner
                                       /\ objects'[p].pointee = objects[p].pointee
                                       /\ objects'[p].struct = objects[p].struct
  <1> DEFINE o == value[x]
  <1>1. o \in Handles /\ objects[o] \in CStruct
    BY HasTyped, HeapTyped DEF Invoke
  <1>2. /\ objects[o].struct \in Blocks /\ memory[objects[o].struct].type # "array"
        /\ objects[o].struct_ptr = Null
        /\ objects' = [objects EXCEPT ![o].struct_ptr = objects[o].struct]
    BY <1>1 DEF Invoke, CStruct
  <1>3. \A p \in Handles : /\ objects'[p].owner = objects[p].owner
                                       /\ objects'[p].pointee = objects[p].pointee
                           /\ objects'[p].struct = objects[p].struct
    BY <1>1, <1>2, HeapTyped DEF TypeOK, CStruct
  <1>4. UNCHANGED <<memory, corrupt, conduct, over>>
    BY DEF Invoke
  <1> QED BY <1>1, <1>2, <1>3, <1>4

LEMMA PlainStep ==
    ASSUME TypeOK, Shape, PlainInv, [Next]_vars PROVE PlainInv'
  <1> SUFFICES ASSUME "kept" \notin conduct'
               PROVE  /\ ~corrupt'
                      /\ \A o \in Handles : ~objects'[o].owner /\ ~objects'[o].pointee
                      /\ \A b \in Blocks : ~memory'[b].persistent
                      /\ \A o \in Handles : objects'[o].struct_ptr \in Blocks =>
                            /\ objects'[o].struct = objects'[o].struct_ptr
                            /\ memory'[objects'[o].struct_ptr].live
                            /\ memory'[objects'[o].struct_ptr].type # "array"
                      /\ \A o, p \in Handles :
                            objects'[o].struct_ptr \in Blocks
                               /\ objects'[o].struct_ptr = objects'[p].struct_ptr => o = p
                      /\ \A o \in Handles :
                            objects'[o].struct \in Blocks /\ objects'[o].struct_ptr = Null =>
                               memory'[objects'[o].struct].live /\ memory'[objects'[o].struct].type = "array"
    BY DEF PlainInv
  <1>1. ASSUME conduct \subseteq conduct'
        PROVE  /\ ~corrupt
               /\ \A o \in Handles : ~objects[o].owner /\ ~objects[o].pointee
               /\ \A b \in Blocks : ~memory[b].persistent
               /\ \A o \in Handles : objects[o].struct_ptr \in Blocks =>
                     /\ objects[o].struct = objects[o].struct_ptr
                     /\ memory[objects[o].struct_ptr].live
                     /\ memory[objects[o].struct_ptr].type # "array"
               /\ \A o, p \in Handles :
                     objects[o].struct_ptr \in Blocks
                        /\ objects[o].struct_ptr = objects[p].struct_ptr => o = p
               /\ \A o \in Handles : objects[o].struct \in Blocks /\ objects[o].struct_ptr = Null =>
                     memory[objects[o].struct].live /\ memory[objects[o].struct].type = "array"
    BY <1>1 DEF PlainInv
  <1>2. CASE \E x \in Vars, s \in Sorts : Construct(x, s[1], s[2], s[3], s[4])
    <2>1. PICK x \in Vars, s \in Sorts : Construct(x, s[1], s[2], s[3], s[4])
      BY <1>2
    <2>2. /\ corrupt' = corrupt /\ conduct \subseteq conduct'
          /\ s[1] # "new" /\ ~s[2] /\ ~s[3] /\ Type(s[1], s[4]) # "pointer"
      BY <2>1, ConstructMakes
    <2>3. PICK o \in Handles, b \in Blocks :
                 /\ objects[o] = NoObject /\ ~memory[b].live
                 /\ \A p \in Handles : objects'[p] =
                       IF p = o
                       THEN [alive |-> TRUE, struct |-> b,
                             struct_ptr |-> IF s[1] = "struct" THEN b ELSE Null,
                             owner |-> s[2] \/ s[1] = "new",
                             pointee |-> ~s[2] /\ Type(s[1], s[4]) = "pointer"]
                       ELSE objects[p]
                 /\ \A c \in Blocks : memory'[c] =
                       IF c = b
                       THEN [live |-> TRUE, persistent |-> s[3] /\ s[1] # "new",
                             type |-> Type(s[1], s[4]), data |-> Null]
                       ELSE memory[c]
      BY <2>1, ConstructMakes
    <2>4. s[1] \in {"struct", "array"}
      BY <2>2, ReferencesAssumption
    <2>5. /\ ~objects'[o].owner /\ ~objects'[o].pointee /\ objects'[o].struct = b
          /\ objects'[o].struct_ptr = IF s[1] = "struct" THEN b ELSE Null
          /\ \A p \in Handles : p # o => objects'[p] = objects[p]
      <3>1. objects'[o] = [alive |-> TRUE, struct |-> b,
                           struct_ptr |-> IF s[1] = "struct" THEN b ELSE Null,
                           owner |-> s[2] \/ s[1] = "new",
                           pointee |-> ~s[2] /\ Type(s[1], s[4]) = "pointer"]
        BY <2>3
      <3>2. /\ objects'[o].owner = (s[2] \/ s[1] = "new")
            /\ objects'[o].pointee = (~s[2] /\ Type(s[1], s[4]) = "pointer")
        BY <3>1
      <3>3. ~objects'[o].owner /\ ~objects'[o].pointee
        BY <2>2, <3>2
      <3> QED BY <2>3, <3>1, <3>3
    <2>6. /\ memory'[b].live /\ ~memory'[b].persistent /\ (memory'[b].type = "array" <=> s[1] = "array")
          /\ \A c \in Blocks : c # b => memory'[c] = memory[c]
      <3>1. memory'[b] = [live |-> TRUE, persistent |-> s[3] /\ s[1] # "new",
                          type |-> Type(s[1], s[4]), data |-> Null]
        BY <2>3
      <3>2. memory'[b].persistent = (s[3] /\ s[1] # "new")
        BY <3>1
      <3>3. ~memory'[b].persistent
        BY <2>2, <3>2
      <3>4. memory'[b].type = "array" <=> s[1] = "array"
        BY <3>1 DEF Type
      <3>5. memory'[b].live
        BY <3>1
      <3>6. \A c \in Blocks : c # b => memory'[c] = memory[c]
        BY <2>3
      <3> QED BY <3>3, <3>4, <3>5, <3>6
    <2>7. ~memory[b].live
      BY <2>3
    <2>8. ~corrupt'
      BY <1>1, <2>2
    <2>9. \A p \in Handles : ~objects'[p].owner /\ ~objects'[p].pointee
      BY <1>1, <2>2, <2>5
    <2>10. \A c \in Blocks : ~memory'[c].persistent
      BY <1>1, <2>2, <2>6
    <2>11. ASSUME NEW p \in Handles, p # o
           PROVE  /\ objects'[p] = objects[p]
                  /\ objects[p].struct_ptr # b
                  /\ objects[p].struct \in Blocks /\ objects[p].struct_ptr = Null =>
                        objects[p].struct # b
      BY <1>1, <2>2, <2>5, <2>7, <2>11
    <2>12. ASSUME NEW p \in Handles, objects'[p].struct_ptr \in Blocks
           PROVE  /\ objects'[p].struct = objects'[p].struct_ptr
                  /\ memory'[objects'[p].struct_ptr].live
                  /\ memory'[objects'[p].struct_ptr].type # "array"
      <3>1. CASE p = o
        BY <2>4, <2>5, <2>6, <2>12, <3>1, Constants
      <3>2. CASE p # o
        BY <1>1, <2>2, <2>6, <2>11, <2>12, <3>2
      <3> QED BY <3>1, <3>2
    <2>13. \A p, r \in Handles : objects'[p].struct_ptr \in Blocks
              /\ objects'[p].struct_ptr = objects'[r].struct_ptr => p = r
      BY <1>1, <2>2, <2>5, <2>11, Constants
    <2>14. ASSUME NEW p \in Handles, objects'[p].struct \in Blocks, objects'[p].struct_ptr = Null
           PROVE  memory'[objects'[p].struct].live /\ memory'[objects'[p].struct].type = "array"
      <3>1. CASE p = o
        BY <2>4, <2>5, <2>6, <2>14, <3>1, Constants
      <3>2. CASE p # o
        BY <1>1, <2>2, <2>6, <2>11, <2>14, <3>2
      <3> QED BY <3>1, <3>2
    <2> QED BY <2>8, <2>9, <2>10, <2>12, <2>13, <2>14
  <1>3. CASE \E x \in Vars : Invoke(x)
    <2>1. PICK x \in Vars : Invoke(x)
      BY <1>3
    <2>2. conduct' = conduct
      BY <2>1, InvokePoints
    <2> QED BY <1>1, <2>1, <2>2, InvokePoints
  <1>4. CASE /\ \E h \in Heaps, o \in Handles, q \in CStruct : Spends(h, o, q)
             /\ conduct \subseteq conduct'
    <2>1. PICK h \in Heaps, o \in Handles, q \in CStruct : Spends(h, o, q)
      BY <1>4
    <2>2. /\ \A p \in Handles : objects'[p] = IF p = o THEN q ELSE objects[p]
          /\ q.struct_ptr \in {Null, NULL} /\ (q.struct_ptr = Null => q.struct = Null)
          /\ q.owner => objects[o].owner
      BY <2>1, SpendsMemory
    <2>2a. q.pointee => objects[o].pointee
      BY <2>1, SpendsMemory
    <2>3. /\ memory' = [b \in Blocks |-> IF b \in Pointed(objects[o]) THEN NoMemory ELSE memory[b]]
          /\ corrupt' => corrupt \/ \E b \in Pointed(objects[o]) : ~memory[b].live \/ memory[b].persistent
      BY <1>1, <1>4, <2>1, SpendsMemory
    <2>4. \A b \in Pointed(objects[o]) : b \in Blocks /\ b = objects[o].struct_ptr
      BY DEF Pointed
    <2>5. ~corrupt'
      BY <1>1, <1>4, <2>3, <2>4
    <2>6. \A p \in Handles : ~objects'[p].owner /\ ~objects'[p].pointee
      BY <1>1, <1>4, <2>2, <2>2a
    <2>7. \A b \in Blocks : ~memory'[b].persistent
      BY <1>1, <1>4, <2>3 DEF NoMemory
    <2>8. ASSUME NEW p \in Handles, p # o
          PROVE  objects'[p] = objects[p] /\ objects[p].struct_ptr \notin Pointed(objects[o])
      BY <1>1, <1>4, <2>2, <2>4, <2>8
    <2>9. ASSUME NEW p \in Handles, objects'[p].struct_ptr \in Blocks
          PROVE  /\ p # o /\ objects'[p].struct = objects'[p].struct_ptr
                 /\ memory'[objects'[p].struct_ptr] = memory[objects[p].struct_ptr]
                 /\ memory'[objects'[p].struct_ptr].live
                 /\ memory'[objects'[p].struct_ptr].type # "array"
      <3>1. p # o
        BY <2>2, <2>9, Constants
      <3> QED BY <1>1, <1>4, <2>3, <2>8, <2>9, <3>1
    <2>10. \A p, r \in Handles : objects'[p].struct_ptr \in Blocks
              /\ objects'[p].struct_ptr = objects'[r].struct_ptr => p = r
      BY <1>1, <1>4, <2>8, <2>9
    <2>11. ASSUME NEW p \in Handles, objects'[p].struct \in Blocks, objects'[p].struct_ptr = Null
           PROVE  memory'[objects'[p].struct].live /\ memory'[objects'[p].struct].type = "array"
      <3>1. p # o
        BY <2>2, <2>11, Constants
      <3>2. memory[objects[p].struct].live /\ memory[objects[p].struct].type = "array"
        BY <1>1, <1>4, <2>8, <2>11, <3>1
      <3>3. objects[p].struct \notin Pointed(objects[o])
        BY <1>1, <1>4, <2>4, <3>2
      <3> QED BY <2>3, <2>8, <2>11, <3>1, <3>2, <3>3
    <2> QED BY <2>5, <2>6, <2>7, <2>9, <2>10, <2>11
  <1>5. CASE Still /\ conduct \subseteq conduct'
    BY <1>1, <1>5 DEF Still
  <1> QED BY <1>2, <1>3, <1>4, <1>5, StepKinds

LEMMA OwnedStep ==
    ASSUME TypeOK, Shape, HandInv, OwnedInv, [Next]_vars PROVE OwnedInv'
  <1> SUFFICES ASSUME "free" \notin conduct'
               PROVE  /\ ~corrupt'
                      /\ \A o \in Handles : objects'[o].owner =>
                            objects'[o].struct \in Blocks /\ memory'[objects'[o].struct].live
                      /\ \A o, p \in Handles :
                            objects'[o].owner /\ objects'[p].owner
                               /\ objects'[o].struct = objects'[p].struct => o = p
    BY DEF OwnedInv
  <1>1. ASSUME conduct \subseteq conduct'
        PROVE  /\ ~corrupt /\ ~is_free_active
               /\ \A o \in Handles : objects[o].owner =>
                     objects[o].struct \in Blocks /\ memory[objects[o].struct].live
               /\ \A o, p \in Handles :
                     objects[o].owner /\ objects[p].owner
                        /\ objects[o].struct = objects[p].struct => o = p
    BY <1>1 DEF OwnedInv, HandInv
  <1>2. CASE \E x \in Vars, s \in Sorts : Construct(x, s[1], s[2], s[3], s[4])
    <2>1. PICK x \in Vars, s \in Sorts : Construct(x, s[1], s[2], s[3], s[4])
      BY <1>2
    <2>2. corrupt' = corrupt /\ conduct \subseteq conduct'
      BY <2>1, ConstructMakes
    <2>3. PICK o \in Handles, b \in Blocks :
                 /\ objects[o] = NoObject /\ ~memory[b].live
                 /\ \A p \in Handles : objects'[p] =
                       IF p = o
                       THEN [alive |-> TRUE, struct |-> b,
                             struct_ptr |-> IF s[1] = "struct" THEN b ELSE Null,
                             owner |-> s[2] \/ s[1] = "new",
                             pointee |-> ~s[2] /\ Type(s[1], s[4]) = "pointer"]
                       ELSE objects[p]
                 /\ \A c \in Blocks : memory'[c] =
                       IF c = b
                       THEN [live |-> TRUE, persistent |-> s[3] /\ s[1] # "new",
                             type |-> Type(s[1], s[4]), data |-> Null]
                       ELSE memory[c]
      BY <2>1, ConstructMakes
    <2>4. /\ objects'[o].struct = b /\ memory'[b].live
          /\ \A p \in Handles : p # o => objects'[p] = objects[p]
          /\ \A c \in Blocks : c # b => memory'[c] = memory[c]
      BY <2>3
    <2>5. \A p \in Handles : p # o /\ objects'[p].owner =>
             /\ objects[p].owner /\ objects'[p].struct = objects[p].struct
             /\ objects[p].struct # b
      BY <1>1, <2>2, <2>3, <2>4
    <2> QED BY <1>1, <2>2, <2>4, <2>5
  <1>3. CASE \E x \in Vars : Invoke(x)
    <2>1. PICK x \in Vars : Invoke(x)
      BY <1>3
    <2>2. conduct' = conduct /\ corrupt' = corrupt /\ memory' = memory
      BY <2>1, InvokePoints
    <2>3. \A p \in Handles : /\ objects'[p].owner = objects[p].owner
                                       /\ objects'[p].pointee = objects[p].pointee
                             /\ objects'[p].struct = objects[p].struct
      BY <2>1, InvokePoints
    <2> QED BY <1>1, <2>2, <2>3
  <1>4. CASE /\ \E h \in Heaps, o \in Handles, q \in CStruct : Spends(h, o, q)
             /\ conduct \subseteq conduct'
    <2>1. PICK h \in Heaps, o \in Handles, q \in CStruct : Spends(h, o, q)
      BY <1>4
    <2>2. /\ \A p \in Handles : objects'[p] = IF p = o THEN q ELSE objects[p]
          /\ ~q.owner
      BY <1>1, <1>4, <2>1, SpendsMemory
    <2>3. ~is_free_active
      BY <1>1, <1>4
    <2>4. PICK B \in SUBSET Blocks :
             /\ memory' = [b \in Blocks |-> IF b \in B THEN NoMemory ELSE memory[b]]
             /\ ~is_free_active =>
                   /\ B \subseteq IF objects[o].owner THEN {objects[o].struct} ELSE {}
                   /\ corrupt' => corrupt \/ \E b \in B : ~memory[b].live
      <3>1. \E B \in SUBSET Blocks :
                 /\ memory' = [b \in Blocks |-> IF b \in B THEN NoMemory ELSE memory[b]]
                 /\ ~objects[o].owner =>
                       /\ B = Pointed(objects[o])
                       /\ corrupt' => \/ corrupt \/ objects[o].pointee
                                      \/ \E b \in B : ~memory[b].live \/ memory[b].persistent
                 /\ ~is_free_active =>
                       /\ B \subseteq IF objects[o].owner THEN {objects[o].struct} ELSE {}
                       /\ corrupt' => corrupt \/ \E b \in B : ~memory[b].live
        BY <2>1, SpendsMemory
      <3> QED BY <3>1
    <2>5. ~corrupt'
      BY <1>1, <1>4, <2>4, <2>3
    <2>6. \A p \in Handles : objects'[p].owner =>
             p # o /\ objects'[p] = objects[p] /\ objects[p].struct \notin B
      BY <1>1, <1>4, <2>2, <2>4, <2>3
    <2> QED BY <1>1, <1>4, <2>4, <2>5, <2>6
  <1>5. CASE Still /\ conduct \subseteq conduct'
    BY <1>1, <1>5 DEF Still
  <1> QED BY <1>2, <1>3, <1>4, <1>5, StepKinds

LEMMA ReachStep ==
    ASSUME TypeOK, Shape, HandInv, PlainInv, ReachInv, [Next]_vars PROVE ReachInv'
  <1> SUFFICES ASSUME conduct' \subseteq {"free"}, ~over', NEW b \in Blocks,
                      memory'[b].live, memory'[b].type # "array"
               PROVE  \E o \in Handles : objects'[o].struct_ptr = b
    BY DEF ReachInv
  <1>1. ASSUME conduct \subseteq conduct', over => over'
        PROVE  /\ is_free_active
               /\ \A o \in Handles : ~objects[o].owner
               /\ \A o \in Handles : objects[o].struct \in Blocks /\ objects[o].struct_ptr = Null =>
                     memory[objects[o].struct].type = "array"
               /\ memory[b].live /\ memory[b].type # "array" => \E o \in Handles : objects[o].struct_ptr = b
    BY <1>1 DEF PlainInv, ReachInv, HandInv
  <1>2. CASE \E x \in Vars, s \in Sorts : Construct(x, s[1], s[2], s[3], s[4])
    <2>1. PICK x \in Vars, s \in Sorts : Construct(x, s[1], s[2], s[3], s[4])
      BY <1>2
    <2>2. /\ over' = over /\ conduct \subseteq conduct' /\ s[1] # "new"
      BY <2>1, ConstructMakes
    <2>3. PICK o \in Handles, c \in Blocks :
                 /\ objects[o] = NoObject /\ ~memory[c].live
                 /\ \A p \in Handles : objects'[p] =
                       IF p = o
                       THEN [alive |-> TRUE, struct |-> c,
                             struct_ptr |-> IF s[1] = "struct" THEN c ELSE Null,
                             owner |-> s[2] \/ s[1] = "new",
                             pointee |-> ~s[2] /\ Type(s[1], s[4]) = "pointer"]
                       ELSE objects[p]
                 /\ \A d \in Blocks : memory'[d] =
                       IF d = c
                       THEN [live |-> TRUE, persistent |-> s[3] /\ s[1] # "new",
                             type |-> Type(s[1], s[4]), data |-> Null]
                       ELSE memory[d]
      BY <2>1, ConstructMakes
    <2>4. CASE b = c
      <3>1. memory'[b].type = "array" <=> s[1] = "array"
        BY <2>3, <2>4 DEF Type
      <3>2. s[1] = "struct"
        BY <2>2, <3>1, ReferencesAssumption
      <3>3. objects'[o].struct_ptr = b
        BY <2>3, <2>4, <3>2
      <3> QED BY <3>3
    <2>5. CASE b # c
      <3>1. memory'[b] = memory[b]
        BY <2>3, <2>5
      <3>2. PICK p \in Handles : objects[p].struct_ptr = b
        BY <1>1, <2>2, <3>1
      <3>3. p # o
        BY <2>3, <3>2, ObjectTypes, Constants
      <3> QED BY <2>3, <3>2, <3>3
    <2> QED BY <2>4, <2>5
  <1>3. CASE \E x \in Vars : Invoke(x)
    <2>1. PICK x \in Vars : Invoke(x)
      BY <1>3
    <2>2. conduct' = conduct /\ over' = over
      BY <2>1, InvokePoints
    <2> QED BY <1>1, <2>1, <2>2, InvokePoints
  <1>4. CASE /\ \E h \in Heaps, o \in Handles, q \in CStruct : Spends(h, o, q)
             /\ conduct \subseteq conduct' /\ over' = over
    <2>1. PICK h \in Heaps, o \in Handles, q \in CStruct : Spends(h, o, q)
      BY <1>4
    <2>2. /\ \A p \in Handles : objects'[p] = IF p = o THEN q ELSE objects[p]
          /\ memory' = [c \in Blocks |-> IF c \in Pointed(objects[o]) THEN NoMemory ELSE memory[c]]
      BY <1>1, <1>4, <2>1, SpendsMemory
    <2>3. b \notin Pointed(objects[o]) /\ memory'[b] = memory[b]
      BY <2>2, MemoryTypes
    <2>4. PICK p \in Handles : objects[p].struct_ptr = b
      BY <1>1, <1>4, <2>3
    <2>5. p # o
      BY <1>1, <1>4, <2>3, <2>4 DEF Pointed
    <2> QED BY <2>2, <2>4, <2>5
  <1>5. CASE Still /\ conduct \subseteq conduct' /\ (over => over')
    BY <1>1, <1>5 DEF Still
  <1> QED BY <1>2, <1>3, <1>4, <1>5, StepKinds

SafeInv == TypeOK /\ Shape /\ HandInv /\ PlainInv /\ OwnedInv /\ ReachInv

LEMMA SafeInit == ASSUME Init PROVE SafeInv
  <1>1. /\ \A o \in Handles : objects[o] = NoObject
        /\ \A b \in Blocks : memory[b] = NoMemory
        /\ ~corrupt
    BY DEF Init
  <1>2. \A o \in Handles : /\ ~objects[o].owner /\ ~objects[o].pointee
                           /\ objects[o].struct = Null /\ objects[o].struct_ptr = Null
    BY <1>1, ObjectTypes
  <1>3. \A b \in Blocks : ~memory[b].persistent /\ ~memory[b].live
    BY <1>1 DEF NoMemory
  <1>4. HandInv
    BY DEF Init, HandInv
  <1>5. PlainInv
    BY <1>1, <1>2, <1>3, Constants DEF PlainInv
  <1>6. OwnedInv
    BY <1>1, <1>2 DEF OwnedInv
  <1>7. ReachInv
    BY <1>3 DEF ReachInv
  <1> QED BY <1>4, <1>5, <1>6, <1>7, TypeInit DEF SafeInv

LEMMA SafeStep == ASSUME SafeInv, [Next]_vars PROVE SafeInv'
  <1>1. TypeOK /\ Shape /\ HandInv /\ PlainInv /\ OwnedInv /\ ReachInv
    BY DEF SafeInv
  <1>2. TypeOK' /\ Shape' /\ HandInv' /\ PlainInv' /\ OwnedInv' /\ ReachInv'
    BY <1>1, TypeStep, HandStep, PlainStep, OwnedStep, ReachStep
  <1> QED BY <1>2 DEF SafeInv

\* Memory is freed once and by the allocator it is from in every program that
\* makes no owned and no persistent structure, and in every program that keeps
\* ffi_free_if() from working.
THEOREM FreesOnce == Spec => []FreedOnce
  <1>1. SafeInv => FreedOnce
    BY DEF SafeInv, PlainInv, OwnedInv, FreedOnce
  <1>2. SafeInv /\ [Next]_vars => SafeInv'
    BY SafeStep
  <1> QED BY <1>1, <1>2, SafeInit, PTL DEF Spec

\* Where ffi_free_if() always works and nothing is owned or persistent, each
\* structure that is no array belongs to an object in the store: it goes with it.
THEOREM LeaksNothing == Spec => []NoLeaks
  <1>1. ASSUME SafeInv PROVE NoLeaks
    <2> SUFFICES ASSUME conduct \subseteq {"free"}, ~over, NEW b \in Blocks,
                        memory[b].live, memory[b].type # "array"
                 PROVE  \E o \in Handles : objects[o].alive /\ objects[o].struct = b
      BY DEF NoLeaks
    <2>1. PICK o \in Handles : objects[o].struct_ptr = b
      BY <1>1 DEF SafeInv, ReachInv
    <2>2. objects[o].struct = b
      BY <1>1, <2>1 DEF SafeInv, PlainInv
    <2>3. objects[o].alive
      BY <1>1, <2>1, ObjectTypes, Constants DEF SafeInv, Shape
    <2> QED BY <2>2, <2>3
  <1>2. SafeInv /\ [Next]_vars => SafeInv'
    BY SafeStep
  <1> QED BY <1>1, <1>2, SafeInit, PTL DEF Spec
=============================================================================
