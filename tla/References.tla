----------------------------- MODULE References -----------------------------
(* Who owns what: PHP objects by reference counts that the library also     *)
(* changes by hand, and the C memory behind a CStruct by the CData that     *)
(* allocated it, by free(), or by nobody.  The objects here are CStructs.   *)
(* A C structure has a field for a PHP object (zval_set_data()), of which   *)
(* the engine knows nothing.                                                *)
EXTENDS Naturals, Integers, FiniteSets

CONSTANTS Vars,         \* variables of the program
          Null,         \* null in PHP
          Sorts,        \* of structures: kind, owned, persistent, of pointer type
          MaxObjects,   \* handles in the store
          MaxBlocks,    \* C structures
          MaxRefs       \* to an object

Handles == 1..MaxObjects
Blocks == 1..MaxBlocks
NULL == 0               \* the pointer in a CData after FFI::free()

ASSUME ReferencesAssumption ==
    /\ MaxObjects \in Nat /\ MaxBlocks \in Nat /\ MaxRefs \in Nat
    /\ Sorts \subseteq {"struct", "array", "new"} \X BOOLEAN \X BOOLEAN \X BOOLEAN
    /\ IsFiniteSet(Vars) /\ Null \notin Nat

VARIABLES
    value,            \* of each variable: an object or null
    objects,          \* the objects in the store
    refcount,         \* of each
    memory,           \* the C structures
    is_free_active,   \* CStruct::$is_free_active
    extra,            \* references added by hand or lost without a release
    conduct,          \* which of Deeds the program has done
    corrupt,          \* the allocator was misled, or freed memory was read
    over              \* the request has ended

vars == <<value, objects, refcount, memory, is_free_active, extra, conduct, corrupt, over>>

\* Having ffi_free_if() at work, or not; making a structure that the CData owns,
\* that is persistent or a pointer; taking a reference away that was not added.
Deeds == {"free", "no free", "kept", "take"}

\* $struct and the pointer to it; whether the CData in $struct owns the memory;
\* whether it is a pointer that the CStruct does not take for owned ($isOwned).
CStruct == [alive : BOOLEAN, struct : Blocks \cup {Null}, struct_ptr : Blocks \cup {Null, NULL},
            owner : BOOLEAN, pointee : BOOLEAN]

NoObject == [alive |-> FALSE, struct |-> Null, struct_ptr |-> Null, owner |-> FALSE,
             pointee |-> FALSE]

Types == {"struct", "array", "pointer"}
Memory == [live : BOOLEAN, persistent : BOOLEAN, type : Types, data : Handles \cup {Null}]
NoMemory == [live |-> FALSE, persistent |-> FALSE, type |-> "struct", data |-> Null]

-----------------------------------------------------------------------------
(* What is freed when.  A heap is the memory, the references lost with it, *)
(* and whether the allocator was misled.                                   *)

heap == [memory |-> memory, extra |-> extra, corrupt |-> corrupt]
Sets(h) == memory' = h.memory /\ extra' = h.extra /\ corrupt' = h.corrupt

\* The reference to o stays, and nobody has it.
Lost(e, o) == IF o = Null THEN e ELSE [e EXCEPT ![o] = @ + 1]

\* Memory that is free already, or from the other allocator, misleads it.  What
\* the field held keeps its reference.
Freed(h, b, persistent) ==
    [memory |-> [h.memory EXCEPT ![b] = NoMemory],
     extra |-> Lost(h.extra, h.memory[b].data),
     corrupt |-> h.corrupt \/ ~h.memory[b].live \/ h.memory[b].persistent # persistent]

\* ffi_free_if() of a pointer made by FFI::addr(), which is not marked persistent.
ffi_free_if(h, ptr) == IF is_free_active /\ ptr \in Blocks THEN Freed(h, ptr, FALSE) ELSE h

\* The CData goes: what it owns, it frees as it was allocated.
Dropped(h, o) ==
    IF o.struct # Null /\ o.owner THEN Freed(h, o.struct, h.memory[o.struct].persistent) ELSE h

\* Mutant of free: it only forgets the pointers.
freeNothing(h, o) ==
    IF o.struct_ptr = Null THEN [heap |-> h, object |-> o]
    ELSE [heap |-> Dropped(h, o), object |-> [NoObject EXCEPT !.alive = TRUE]]

\* ffi_free_if($this->struct), which comes next: FFI::isNull() throws for what is
\* no pointer, and reads one where it was, in the memory that was just freed.
FreedAgain(h, o) == [h EXCEPT !.corrupt = @ \/ (is_free_active /\ o.pointee)]

\* free() is for structures with a pointer to them, which arrays have not and
\* others only once they were used.
free(h, o) ==
    IF o.struct_ptr = Null THEN [heap |-> h, object |-> o]
    ELSE [heap |-> Dropped(FreedAgain(ffi_free_if(h, o.struct_ptr), o), o),
          object |-> [NoObject EXCEPT !.alive = TRUE]]

\* The engine frees an object: __destruct(), which is free(), and its fields.
Destroyed(h, o) ==
    LET r == free(h, o) IN Dropped(r.heap, r.object)

\* Mutant of Released: it does not look whether the reference was the last.
ReleasedOnly(h, o) ==
    /\ refcount' = [refcount EXCEPT ![o] = @ - 1]
    /\ Sets(h) /\ UNCHANGED objects

\* The engine takes a reference from o.
Released(h, o) ==
    IF refcount[o] = 1
    THEN /\ Sets(Destroyed(h, objects[o]))
         /\ objects' = [objects EXCEPT ![o] = NoObject]
         /\ refcount' = [refcount EXCEPT ![o] = 0]
    ELSE /\ refcount' = [refcount EXCEPT ![o] = @ - 1]
         /\ Sets(h) /\ UNCHANGED objects

\* The count of o goes up by n.
Shared(o, n) ==
    refcount[o] + n <= MaxRefs /\ refcount' = [refcount EXCEPT ![o] = @ + n]

\* What a program does once the allocator was misled, or once it holds what is
\* gone, is not defined.
Defined ==
    /\ ~corrupt
    /\ \A x \in Vars : value[x] # Null => objects[value[x]].alive
    /\ \A b \in Blocks : memory[b].data # Null => objects[memory[b].data].alive

Runs == ~over /\ Defined

-----------------------------------------------------------------------------
(* Structures.                                                             *)

\* The allocators are taken to give out what was freed, the first of it.
First(S) == {s \in S : \A t \in S : s <= t}

Type(kind, pointer) ==
    IF kind = "array" THEN "array" ELSE IF pointer THEN "pointer" ELSE "struct"

\* A structure, an array, or another of the type of one (new()), whose memory is
\* owned whatever is asked for, and whose pointer is made by its first use.
Construct(x, kind, owned, persistent, pointer) ==
    /\ Runs /\ value[x] = Null
    /\ \E o \in First({h \in Handles : ~objects[h].alive}), b \in First({m \in Blocks : ~memory[m].live}) :
          /\ value' = [value EXCEPT ![x] = o]
          /\ objects' = [objects EXCEPT ![o] =
                [alive |-> TRUE, struct |-> b, struct_ptr |-> IF kind = "struct" THEN b ELSE Null,
                 owner |-> owned \/ kind = "new",
                 pointee |-> ~owned /\ Type(kind, pointer) = "pointer"]]
          /\ refcount' = [refcount EXCEPT ![o] = 1]
          /\ memory' = [memory EXCEPT ![b] =
                [live |-> TRUE, persistent |-> persistent /\ kind # "new",
                 type |-> Type(kind, pointer), data |-> Null]]
          /\ extra' = [extra EXCEPT ![o] = 0]
    /\ conduct' = conduct \cup
          IF owned \/ persistent \/ kind = "new" \/ Type(kind, pointer) = "pointer"
          THEN {"kept"} ELSE {}
    /\ UNCHANGED <<is_free_active, corrupt, over>>

Has(x) == Runs /\ value[x] # Null

\* $x() of a structure.
Invoke(x) ==
    LET o == objects[value[x]] IN
    /\ Has(x) /\ o.struct # Null /\ memory[o.struct].type # "array" /\ o.struct_ptr = Null
    /\ objects' = [objects EXCEPT ![value[x]].struct_ptr = o.struct]
    /\ UNCHANGED <<value, refcount, memory, is_free_active, extra,
                   conduct, corrupt, over>>

\* $x->free().
Free(x) ==
    LET r == free(heap, objects[value[x]]) IN
    /\ Has(x)
    /\ Sets(r.heap)
    /\ objects' = [objects EXCEPT ![value[x]] = r.object]
    /\ UNCHANGED <<value, refcount, is_free_active, conduct, over>>

\* Mutant of FfiFreeIf: FFI::free() leaves the pointer as it was.
FfiFreeIfKept(x) ==
    LET o == objects[value[x]] IN
    /\ Has(x) /\ o.struct_ptr \in Blocks /\ is_free_active
    /\ Sets(ffi_free_if(heap, o.struct_ptr))
    /\ UNCHANGED <<value, objects, refcount, is_free_active, conduct, over>>

\* ffi_free_if($x): the pointer is what $x() answers.
FfiFreeIf(x) ==
    LET o == objects[value[x]] IN
    /\ Has(x) /\ o.struct_ptr \in Blocks /\ is_free_active
    /\ Sets(ffi_free_if(heap, o.struct_ptr))
    /\ objects' = [objects EXCEPT ![value[x]].struct_ptr = NULL]
    /\ UNCHANGED <<value, refcount, is_free_active, conduct, over>>

ffi_set_free(status) ==
    /\ Runs /\ is_free_active # status
    /\ is_free_active' = status
    /\ conduct' = conduct \cup {IF status THEN "free" ELSE "no free"}
    /\ UNCHANGED <<value, objects, refcount, memory, extra, corrupt, over>>

-----------------------------------------------------------------------------
(* References.                                                             *)

Assign(x, y) ==
    /\ Has(y) /\ value[x] = Null
    /\ value' = [value EXCEPT ![x] = value[y]]
    /\ Shared(value[y], 1)
    /\ UNCHANGED <<objects, memory, is_free_active, extra, conduct,
                   corrupt, over>>

Unset(x) ==
    /\ Has(x)
    /\ value' = [value EXCEPT ![x] = Null]
    /\ Released(heap, value[x])
    /\ UNCHANGED <<is_free_active, conduct, over>>

\* Mutant of change_value: Zval::copy() does not count, as ZVAL_COPY_VALUE().
change_valueOnly(x, y) ==
    /\ Has(y) /\ x # y
    /\ value' = [value EXCEPT ![x] = value[y]]
    /\ extra' = Lost(extra, value[x])
    /\ UNCHANGED <<objects, refcount, memory, is_free_active, conduct, corrupt, over>>

\* Zval::copy() into a variable's own zval, by change_value() and native_value(),
\* counts the new value and does not release the old one.
change_value(x, y) ==
    /\ Has(y) /\ x # y
    /\ value' = [value EXCEPT ![x] = value[y]]
    /\ Shared(value[y], 1)
    /\ extra' = Lost(extra, value[x])
    /\ UNCHANGED <<objects, memory, is_free_active, conduct, corrupt, over>>

zval_add_ref(x) ==
    /\ Has(x)
    /\ Shared(value[x], 1)
    /\ extra' = Lost(extra, value[x])
    /\ UNCHANGED <<value, objects, memory, is_free_active, conduct,
                   corrupt, over>>

\* The count is only written; an object that no one else holds goes when the
\* call returns and its argument is released.
zval_del_ref(x) ==
    /\ Has(x)
    /\ Released([heap EXCEPT !.extra[value[x]] = @ - 1], value[x])
    /\ conduct' = conduct \cup (IF extra[value[x]] > 0 THEN {} ELSE {"take"})
    /\ UNCHANGED <<value, is_free_active, over>>

\* The field of a structure in use gets the object of x and a reference, by
\* gc_addRef().  Another stays with the Zval::constructor() copy, whose zval
\* nobody destroys, and what the field held before keeps its own.
zval_set_data(b, x) ==
    /\ Has(x) /\ memory[b].live /\ memory[b].type = "struct"
    /\ memory' = [memory EXCEPT ![b].data = value[x]]
    /\ Shared(value[x], 2)
    /\ extra' = Lost(Lost(extra, value[x]), memory[b].data)
    /\ UNCHANGED <<value, objects, is_free_active, conduct, corrupt, over>>

\* Mutant of zval_get_data: the variable takes the reference of the field.
zval_get_dataOnly(b, x) ==
    /\ Runs /\ value[x] = Null /\ memory[b].live /\ memory[b].data # Null
    /\ value' = [value EXCEPT ![x] = memory[b].data]
    /\ UNCHANGED <<objects, refcount, memory, is_free_active, extra, conduct, corrupt, over>>

\* C code calls back with the structure: its object, as another value.
zval_get_data(b, x) ==
    /\ Runs /\ value[x] = Null /\ memory[b].live /\ memory[b].data # Null
    /\ value' = [value EXCEPT ![x] = memory[b].data]
    /\ Shared(memory[b].data, 1)
    /\ UNCHANGED <<objects, memory, is_free_active, extra, conduct,
                   corrupt, over>>

-----------------------------------------------------------------------------
Init ==
    /\ value = [x \in Vars |-> Null]
    /\ objects = [o \in Handles |-> NoObject]
    /\ refcount = [o \in Handles |-> 0]
    /\ memory = [b \in Blocks |-> NoMemory]
    /\ is_free_active \in BOOLEAN      \* on Windows it is
    /\ extra = [o \in Handles |-> 0]
    /\ conduct = {IF is_free_active THEN "free" ELSE "no free"}
    /\ corrupt = FALSE /\ over = FALSE

\* At the end the engine unsets the variables, then destructs and frees the
\* objects that are left in the store.
EndRequest ==
    /\ Runs /\ \A x \in Vars : value[x] = Null
    /\ over' = TRUE
    /\ UNCHANGED <<value, objects, refcount, memory, is_free_active, extra,
                   conduct, corrupt>>

StoreFree(o) ==
    /\ over /\ ~corrupt /\ objects[o].alive
    /\ Sets(Destroyed(heap, objects[o]))
    /\ objects' = [objects EXCEPT ![o] = NoObject]
    /\ refcount' = [refcount EXCEPT ![o] = 0]
    /\ UNCHANGED <<value, is_free_active, conduct, over>>

Terminated ==
    /\ IF over THEN corrupt \/ \A o \in Handles : ~objects[o].alive ELSE ~Defined
    /\ UNCHANGED vars

Next ==
    \/ \E x \in Vars :
          \/ \E s \in Sorts : Construct(x, s[1], s[2], s[3], s[4])
          \/ Invoke(x) \/ Free(x) \/ FfiFreeIf(x)
          \/ Unset(x) \/ zval_add_ref(x) \/ zval_del_ref(x)
          \/ \E y \in Vars : Assign(x, y) \/ change_value(x, y)
          \/ \E b \in Blocks : zval_set_data(b, x) \/ zval_get_data(b, x)
    \/ \E status \in BOOLEAN : ffi_set_free(status)
    \/ \E o \in Handles : StoreFree(o)
    \/ EndRequest \/ Terminated

Spec == Init /\ [][Next]_vars

-----------------------------------------------------------------------------
(* Properties.                                                             *)

TypeOK ==
    /\ value \in [Vars -> Handles \cup {Null}]
    /\ objects \in [Handles -> CStruct]
    /\ refcount \in [Handles -> Nat]
    /\ memory \in [Blocks -> Memory]
    /\ is_free_active \in BOOLEAN
    /\ extra \in [Handles -> Int]
    /\ conduct \subseteq Deeds /\ corrupt \in BOOLEAN /\ over \in BOOLEAN

Holders(o) == {x \in Vars : value[x] = o}
Fields(o) == {b \in Blocks : memory[b].data = o}

\* In a program that takes no reference away that it did not add, the engine's
\* count of an object is that of its owners, which are variables, fields of C
\* structures and references added by hand, and of those lost because the library
\* overwrote, freed or never destroys what holds them: it never counts one too few.
Counted == "take" \notin conduct =>
    \A o \in Handles : objects[o].alive =>
        refcount[o] = Cardinality(Holders(o)) + Cardinality(Fields(o)) + extra[o]

\* In such a program what a variable or the field of a C structure holds exists
\* until the end of the request: zval_get_data() never answers with an object
\* that is gone, or with another one that got its handle.
Alive == "take" \notin conduct /\ ~over =>
    \A o \in Handles : Holders(o) \cup Fields(o) # {} => objects[o].alive

\* "Manually removes current not-owned data structure": with ffi_free_if() at
\* work, memory is freed once and by the allocator it is from as long as no owned,
\* persistent or pointer structure is made; without it, in every program.  (Of an
\* owned one free() frees the memory, which the CData that owns it then frees.)
FreedOnce == ~({"free", "kept"} \subseteq conduct) => ~corrupt

\* With ffi_free_if() always at work and only structures that are neither owned
\* nor persistent, a structure is freed with the last reference to its object;
\* arrays stay behind.
NoLeaks == (conduct \subseteq {"free"} /\ ~over) =>
    \A b \in Blocks : memory[b].live /\ memory[b].type # "array" =>
        \E o \in Handles : objects[o].alive /\ objects[o].struct = b
=============================================================================
