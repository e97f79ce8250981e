---------------------------- MODULE ClassSurgery ----------------------------
(* ZendClassEntry.php takes one class of the engine apart while the program *)
(* runs: it reallocates the arrays of interfaces and traits by hand, with   *)
(* their counts beside them, and edits the table of functions.              *)
EXTENDS HashTable, Functions

CONSTANTS Class,          \* the class itself
          Null,
          Interfaces,     \* those that interface_exists()
          Unknown,        \* a name that is no interface and no class
          Traits,
          Parents,        \* classes that it may extend
          Ancestors,      \* the ancestors of each
          InterfacesOf,   \* the interfaces of each, in order
          MethodsOf,      \* the functions of each, as buckets
          TableSize,      \* of a new function table
          MaxItems,       \* in an array
          MaxUsed,        \* buckets
          MaxBlocks       \* of memory in use

Names == Interfaces \cup Traits \cup {Unknown}
Blocks == 1..MaxBlocks

Repeats(s) == \E i, j \in DOMAIN s : i # j /\ s[i] = s[j]

\* Linking drops interfaces that come twice, and a parent's table has unique keys.
ASSUME SurgeryAssumption ==
    /\ Class \notin Parents /\ Null \notin Parents \cup Blocks
    /\ Unknown \notin Interfaces \cup Traits \cup Parents
    /\ TableSize \in Nat \ {0} /\ MaxItems \in Nat /\ MaxUsed \in Nat /\ MaxBlocks \in Nat \ {0, 1}
    /\ Vals = {Class} \cup Parents \cup UNION {Ancestors[p] : p \in Parents}
    /\ InterfacesOf \in [Parents -> Seq(Interfaces)]
    /\ MethodsOf \in [Parents -> Seq(Bucket)]
    /\ \A p \in Parents :
          ~Repeats(InterfacesOf[p]) /\ ~Repeats([i \in DOMAIN MethodsOf[p] |-> MethodsOf[p][i].key])

VARIABLES
    internal,   \* isInternal(): a class of the engine or an extension
    cli,        \* PHP_SAPI is "cli"
    ce,         \* the fields of the zend_class_entry
    heap,       \* the blocks of memory, and whether the allocator was misled
    phase,      \* "running", "fatal" after E_ERROR, "ended" when the class is destroyed
    tidy,       \* the program kept to what the operations expect
    kept        \* while it did, each operation did what ClassParts promises

class_vars == <<internal, cli, ce, heap, phase, tidy, kept>>

ClassEntries ==
    [interfaces : Blocks \cup {Null}, num_interfaces : Nat,
     trait_names : Blocks \cup {Null}, num_traits : Nat,
     resolved : BOOLEAN,     \* ZEND_ACC_RESOLVED_INTERFACES
     parent : Parents \cup {Null}, function_table : Tables]

Block == [live : BOOLEAN, persistent : BOOLEAN, items : Seq(Names)]
Heaps == [blocks : [Blocks -> Block], corrupt : BOOLEAN]

-----------------------------------------------------------------------------
(* Memory.                                                                 *)

Free == [live |-> FALSE, persistent |-> FALSE, items |-> << >>]
Unused(h) == {b \in Blocks : ~h.blocks[b].live}
FreshBlock(h) == CHOOSE b \in Unused(h) : \A c \in Unused(h) : b <= c

\* FFI::new() without ownership, filled.
Allocated(h, isPersistent, items) ==
    [h EXCEPT !.blocks[FreshBlock(h)] = [live |-> TRUE, persistent |-> isPersistent, items |-> items]]

\* The allocator is misled by a block that is not in use or that belongs to the
\* other allocator: PHP has one for requests and one for persistent memory.
Freed(h, b, isPersistent) ==
    [blocks |-> [h.blocks EXCEPT ![b] = Free],
     corrupt |-> h.corrupt \/ ~h.blocks[b].live \/ h.blocks[b].persistent # isPersistent]

IsPersistent == internal \/ ~cli

\* Mutants of Released: the kind of memory is not asked for; nothing is freed.
ReleasedAnyway(h, b, total) == IF total = 0 THEN h ELSE Freed(h, b, FALSE)
ReleasedNever(h, b, total) == h

\* Nobody will free the block, and the model forgets it.
Abandoned(h, b) == [h EXCEPT !.blocks[b] = Free]

\* The old array is freed if there was one and it is not persistent.
Released(h, b, total) ==
    IF total = 0 THEN h
    ELSE IF IsPersistent THEN Abandoned(h, b)
    ELSE Freed(h, b, FALSE)

Items(h, b, total) == IF total = 0 THEN << >> ELSE SubSeq(h.blocks[b].items, 1, total)

Room(h) == Unused(h) # {}

-----------------------------------------------------------------------------
(* Arrays.                                                                 *)

getInterfaceNames(c, h) == Items(h, c.interfaces, c.num_interfaces)
getTraitNames(c, h) == Items(h, c.trait_names, c.num_traits)

ToAdd(names, available) == Chosen(names, {i \in DOMAIN names : names[i] \notin Range(available)})

\* The items without those whose positions array_search() finds for S.
Without(items, S) ==
    LET found == {Min({i \in DOMAIN items : items[i] = n}) : n \in S}
    IN  Chosen(items, DOMAIN items \ found)

\* Mutant of WithTraits: the pointer stays when the last one goes.
WithTraitsStale(c, h, items) ==
    [ce |-> [c EXCEPT !.trait_names = IF items = << >> THEN @ ELSE FreshBlock(h),
                      !.num_traits = Len(items)],
     heap |-> Released(IF items = << >> THEN h ELSE Allocated(h, IsPersistent, items),
                       c.trait_names, c.num_traits)]

WithTraits(c, h, items) ==
    [ce |-> [c EXCEPT !.trait_names = IF items = << >> THEN Null ELSE FreshBlock(h),
                      !.num_traits = Len(items)],
     heap |-> Released(IF items = << >> THEN h ELSE Allocated(h, IsPersistent, items),
                       c.trait_names, c.num_traits)]

WithInterfaces(c, h, items) ==
    [ce |-> [c EXCEPT !.interfaces = IF items = << >> THEN Null ELSE FreshBlock(h),
                      !.num_interfaces = Len(items),
                      !.resolved = IF items = << >> THEN FALSE
                                   ELSE IF c.num_interfaces = 0 THEN TRUE ELSE @],
     heap |-> Released(IF items = << >> THEN h ELSE Allocated(h, IsPersistent, items),
                       c.interfaces, c.num_interfaces)]

-----------------------------------------------------------------------------
(* The operations, each beside what it promises.                           *)

Lookup(t) == [m \in {k \in Keys : find(t, k) # Undef} |-> find(t, m)]

Promise == INSTANCE ClassParts WITH
    parent <- ce.parent,
    interfaces <- Range(getInterfaceNames(ce, heap)),
    traits <- Range(getTraitNames(ce, heap)),
    methods <- Lookup(ce.function_table),
    InterfacesOf <- [p \in Parents |-> Range(InterfacesOf[p])],
    MethodsOf <- [p \in Parents |->
        Lookup([arData |-> MethodsOf[p], nTableSize |-> TableSize])]

\* What an operation does to sets and methods is the step A of ClassParts.
Promised(A) == kept' = (kept /\ (tidy' => A))

Becomes(r) == ce' = r.ce /\ heap' = r.heap

\* zend_error() with E_ERROR does not return.
Fatal == phase' = "fatal"

Running == phase = "running" /\ Room(heap) /\ UNCHANGED <<internal, cli>>

addTraits(names) ==
    LET available == getTraitNames(ce, heap)
        traitsToAdd == ToAdd(names, available)
    IN  /\ Running
        /\ Len(available) + Len(traitsToAdd) \in 1..MaxItems
        /\ Becomes(WithTraits(ce, heap, available \o traitsToAdd))
        /\ tidy' = (tidy /\ ~Repeats(traitsToAdd))
        /\ Promised(Promise!addTraits(Range(names)))
        /\ UNCHANGED phase

removeTraits(S) ==
    LET available == getTraitNames(ce, heap) IN
    /\ Running
    /\ IF S \subseteq Range(available)
       THEN Becomes(WithTraits(ce, heap, Without(available, S))) /\ UNCHANGED phase
       ELSE Fatal /\ UNCHANGED <<ce, heap>>
    /\ UNCHANGED tidy
    /\ Promised(Promise!removeTraits(S))

\* An interface that does not exist is found out when the new array is filled,
\* which is then abandoned.
addInterfaces(names) ==
    LET available == getInterfaceNames(ce, heap)
        interfacesToAdd == ToAdd(names, available)
    IN  /\ Running
        /\ Len(available) + Len(interfacesToAdd) \in 1..MaxItems
        /\ IF Range(interfacesToAdd) \subseteq Interfaces
           THEN Becomes(WithInterfaces(ce, heap, available \o interfacesToAdd)) /\ UNCHANGED phase
           ELSE Fatal /\ UNCHANGED <<ce, heap>>
        /\ tidy' = (tidy /\ ~Repeats(interfacesToAdd))
        /\ Promised(Promise!addInterfaces(Range(names)))

removeInterfaces(S) ==
    LET available == getInterfaceNames(ce, heap) IN
    /\ Running
    /\ IF S \subseteq Range(available)
       THEN Becomes(WithInterfaces(ce, heap, Without(available, S))) /\ UNCHANGED phase
       ELSE Fatal /\ UNCHANGED <<ce, heap>>
    /\ UNCHANGED tidy
    /\ Promised(Promise!removeInterfaces(S))

-----------------------------------------------------------------------------
(* Methods and the parent.                                                 *)

addMethod(m) ==
    /\ Running
    /\ nNumUsed(ce.function_table) < MaxUsed
    /\ ce' = [ce EXCEPT !.function_table = add(@, m, Class)]
    /\ UNCHANGED <<heap, phase>>
    /\ tidy' = (tidy /\ find(ce.function_table, m) = Undef)
    /\ Promised(Promise!addMethod(m))

\* delete() of a key that is not there warns and returns null for self, which
\* is a TypeError: the names after it are not tried any more.
Attempt(a, m) ==
    IF a.failed \/ find(a.table, m) = Undef THEN [a EXCEPT !.failed = TRUE]
    ELSE [a EXCEPT !.table = delete(@, m)]

Attempts == [table : Tables, failed : BOOLEAN]
Deleting == [a \in Attempts \X Keys |-> Attempt(a[1], a[2])]

removeMethods(names) ==
    /\ Running
    /\ ce' = [ce EXCEPT !.function_table =
                  Fold(Deleting, [table |-> @, failed |-> FALSE], names).table]
    /\ UNCHANGED <<heap, phase, tidy>>
    /\ Promised(Promise!removeMethods(Range(names)))

\* getMethods() lists what foreach sees of the table.
getMethods(c) == getIterator(c.function_table)

hasParent(c) == c.parent # Null

\* removeInterfaces() of the parent's interfaces must not fail.
Removable(c, h) == Range(InterfacesOf[c.parent]) \subseteq Range(getInterfaceNames(c, h))

Removing == [a \in Tables \X Bucket |-> delete(a[1], a[2].key)]

WithoutParent(c, h) ==
    LET left == Without(getInterfaceNames(c, h), Range(InterfacesOf[c.parent]))
        r == IF InterfacesOf[c.parent] = << >> THEN [ce |-> c, heap |-> h]
             ELSE WithInterfaces(c, h, left)
        methodsToRemove == Chosen(getMethods(c), {i \in DOMAIN getMethods(c) :
            getMethods(c)[i].val \in {c.parent} \cup Ancestors[c.parent]})
    IN  [ce |-> [r.ce EXCEPT !.parent = Null,
                             !.function_table = Fold(Removing, @, methodsToRemove)],
         heap |-> r.heap]

removeParent ==
    /\ Running
    /\ IF hasParent(ce) /\ Removable(ce, heap)
       THEN Becomes(WithoutParent(ce, heap)) /\ UNCHANGED phase
       ELSE Fatal /\ UNCHANGED <<ce, heap>>
    /\ tidy' = (tidy /\ (hasParent(ce) => Dense(ce.function_table)))
    /\ Promised(Promise!removeParent)

\* zend_do_inheritance_ex(): the engine extends the array with its own
\* allocator and appends the functions the class does not have.
Inheriting == [a \in Tables \X Bucket |->
    IF find(a[1], a[2].key) = Undef THEN add(a[1], a[2].key, a[2].val) ELSE a[1]]

Inherit(c, h, p) ==
    LET items == getInterfaceNames(c, h)
        all == items \o ToAdd(InterfacesOf[p], items)
        grown == Allocated(IF items = << >> THEN h ELSE Freed(h, c.interfaces, internal), internal, all)
        into == FreshBlock(IF items = << >> THEN h ELSE Freed(h, c.interfaces, internal))
        methods == Fold(Inheriting, c.function_table, MethodsOf[p])
        derived == [c EXCEPT !.parent = p, !.function_table = methods]
    IN  IF InterfacesOf[p] = << >> THEN [ce |-> derived, heap |-> h]
        ELSE [ce |-> [derived EXCEPT !.interfaces = into, !.num_interfaces = Len(all), !.resolved = TRUE],
              heap |-> grown]

newParent(p) ==
    LET alone == IF hasParent(ce) THEN WithoutParent(ce, heap) ELSE [ce |-> ce, heap |-> heap] IN
    /\ Running
    /\ IF hasParent(ce) /\ ~Removable(ce, heap) THEN Fatal /\ UNCHANGED <<ce, heap>>
       ELSE IF p \in Parents
       THEN Becomes(Inherit(alone.ce, alone.heap, p)) /\ UNCHANGED phase
       ELSE Becomes(alone) /\ Fatal
    /\ tidy' = (tidy /\ (hasParent(ce) => Dense(ce.function_table)))
    /\ Promised(Promise!SetParent(p))

-----------------------------------------------------------------------------
(* The life of the class.                                                  *)

\* A class of the engine outlives the request that a fatal error has ended.
NextRequest ==
    /\ phase = "fatal" /\ internal
    /\ phase' = "running"
    /\ UNCHANGED <<internal, cli, ce, heap, tidy, kept>>

\* destroy_zend_class() frees the arrays with the allocator of the class.
\* Without ZEND_ACC_RESOLVED_INTERFACES it takes interfaces for their names.
DestroyClass ==
    LET h == IF ce.num_traits > 0 THEN Freed(heap, ce.trait_names, internal) ELSE heap
        i == IF ce.num_interfaces > 0 THEN Freed(h, ce.interfaces, internal) ELSE h
    IN  /\ phase \in {"running", "fatal"}
        /\ phase' = "ended"
        /\ heap' = [i EXCEPT !.corrupt = @ \/ (ce.num_interfaces > 0 /\ ~ce.resolved)]
        /\ UNCHANGED <<internal, cli, ce, tidy, kept>>

ClassTerminated == phase = "ended" /\ UNCHANGED class_vars

\* A class as the engine links it: own interfaces come after the parent's, own
\* methods before.
Linked(own, uses, methods, p) ==
    LET items == IF p = Null THEN own ELSE InterfacesOf[p] \o ToAdd(own, InterfacesOf[p])
        inherited == IF p = Null THEN << >> ELSE MethodsOf[p]
        declared == [i \in DOMAIN methods |-> [key |-> methods[i], val |-> Class]]
    IN  /\ ce = [interfaces |-> IF items = << >> THEN Null ELSE 1,
                 num_interfaces |-> Len(items),
                 trait_names |-> IF uses = << >> THEN Null ELSE 2,
                 num_traits |-> Len(uses),
                 resolved |-> items # << >>,
                 parent |-> p,
                 function_table |-> Fold(Inheriting, EmptyTable(TableSize), declared \o inherited)]
        /\ heap = [corrupt |-> FALSE, blocks |-> [b \in Blocks |->
                      IF b = 1 /\ items # << >>
                      THEN [live |-> TRUE, persistent |-> internal, items |-> items]
                      ELSE IF b = 2 /\ uses # << >>
                      THEN [live |-> TRUE, persistent |-> internal, items |-> uses]
                      ELSE Free]]

UpTo1(S) == {<< >>} \cup {<<x>> : x \in S}
From1To2(S) == {<<x>> : x \in S} \cup (S \X S)

ClassInit ==
    /\ internal \in BOOLEAN /\ cli \in BOOLEAN
    /\ internal => cli      \* it makes no difference there
    /\ \E own \in UpTo1(Interfaces), uses \in UpTo1(Traits), m \in UpTo1(Keys), p \in Parents \cup {Null} :
          (internal => uses = << >>) /\ Linked(own, uses, m, p)
    /\ phase = "running" /\ tidy = TRUE /\ kept = TRUE

ClassNext ==
    \/ \E names \in From1To2(Traits) : addTraits(names) \/ removeTraits(Range(names))
    \/ \E names \in From1To2(Interfaces \cup {Unknown}) :
          addInterfaces(names) \/ removeInterfaces(Range(names))
    \/ \E m \in Keys : addMethod(m)
    \/ \E names \in From1To2(Keys) : removeMethods(names)
    \/ removeParent
    \/ \E p \in Parents \cup {Unknown} : newParent(p)
    \/ NextRequest \/ DestroyClass \/ ClassTerminated

ClassSpec == ClassInit /\ [][ClassNext]_class_vars

-----------------------------------------------------------------------------
(* Properties.                                                             *)

ClassTypeOK ==
    /\ internal \in BOOLEAN /\ cli \in BOOLEAN /\ tidy \in BOOLEAN /\ kept \in BOOLEAN
    /\ ce \in ClassEntries /\ heap \in Heaps
    /\ phase \in {"running", "fatal", "ended"}

\* A pointer and the count beside it agree: none and 0, or a block in use of
\* that many items.
Holds(pointer, total) ==
    IF total = 0 THEN pointer = Null
    ELSE /\ pointer # Null
         /\ heap.blocks[pointer].live
         /\ Len(heap.blocks[pointer].items) = total

\* Whatever is added and removed in whatever order, and also after a fatal
\* error, both arrays are in memory of their own that fits their counts.
ArraysMatch == phase # "ended" =>
    /\ Holds(ce.interfaces, ce.num_interfaces)
    /\ Holds(ce.trait_names, ce.num_traits)
    /\ ce.interfaces # Null => ce.interfaces # ce.trait_names

\* "If this class is internal then we should use persistent memory": each block is
\* freed once and by the allocator that it is from, by the library and at last
\* by the engine, which also expects ZEND_ACC_RESOLVED_INTERFACES to be right.
\* Not so for a class of the program outside the CLI: its arrays become
\* persistent, which the engine does not know.
FreedAsAllocated == (internal \/ cli) => ~heap.corrupt

\* "As we don't have realloc methods in PHP, we can free non-persistent memory
\* to prevent leaks": of the arrays of a class of the program only those in use
\* are left, unless a fatal error came before the new one was used.
NoLeaks ==
    (~IsPersistent /\ phase = "running")
        => \A b \in Blocks : heap.blocks[b].live => b \in {ce.interfaces, ce.trait_names}

\* A program is tidy as long as it adds no name twice in one call, no method
\* that the class has, and takes no parent away from a class whose table has
\* holes, which hide inherited methods from foreach.  In such a program each
\* operation does what it says to the sets of names and to the methods, and one that
\* fails changes nothing, or exactly what it had done until then.
KeepsPromise == kept
=============================================================================
