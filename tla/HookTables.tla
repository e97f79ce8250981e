----------------------------- MODULE HookTables -----------------------------
(***************************************************************************)
(* Where hooks are installed, and what is left of them: the constructor,   *)
(* install() and the destructor of zend/Types/ObjectHandler.php, the       *)
(* methods of ZendClassEntry that install handlers, and zend_ast_process().*)
(*                                                                         *)
(* A hook saves what its field holds when it is constructed and writes it  *)
(* back when it is destructed.  Hooks of one field form a chain; PHP calls *)
(* the destructors at the end of the request, in the order of the object   *)
(* handles, and frees the closures afterwards.  The handlers of a class    *)
(* live in a table that createObject() allocates and that the objects      *)
(* created from then on point to.                                          *)
(***************************************************************************)
EXTENDS Integers, Sequences, FiniteSets

CONSTANTS
    Classes,        \* user-defined classes
    Objects,        \* their objects
    ClassOf,        \* the class of an object
    Fields,         \* hooked fields of zend_object_handlers
    Std,            \* what std_object_handlers holds in them
    Null, Native,   \* a null pointer, a function of the engine
    MaxTables,      \* bound: tables allocated
    MaxHooks        \* bound: hook objects

ASSUME ObjectAssumption == ClassOf \in [Objects -> Classes]
ASSUME NullAssumption   == Null # Native /\ Null \notin Nat /\ Native \notin Nat
ASSUME FieldAssumption  ==
    Fields \cap {"create_object", "interface_gets_implemented", "zend_ast_process"} = {}
ASSUME StdAssumption    == Std \in [Fields -> {Null, Native}]
ASSUME BoundAssumption  == MaxTables \in Nat /\ MaxHooks \in Nat

\* The places a hook can be in: create_object and, for an interface,
\* interface_gets_implemented of a class entry, the fields of table number
\* `of', and zend_ast_process.
Create(c) == [field |-> "create_object", of |-> c]
Gets(c)   == [field |-> "interface_gets_implemented", of |-> c]
In(f, t)  == [field |-> f, of |-> t]
Ast       == [field |-> "zend_ast_process", of |-> "engine"]

Entries == {Create(c) : c \in Classes} \cup {Gets(c) : c \in Classes} \cup {Ast}
Places  == Entries \cup {In(f, t) : f \in Fields, t \in 1 .. MaxTables}

VARIABLES
    slot,           \* what each place holds: a function or the number of a hook
    first,          \* what it held when the request started (fixed)
    hooks,          \* the hook objects in the order of their construction
    tables,         \* tables allocated so far
    object_handlers,\* the class's table in ZendClassEntry::$objectHandlers, or 0
    objects,        \* the table of each object, 0: the engine's, -1: not created
    phase,          \* "script", "destructors" or "released"
    gone,           \* hooks that were destructed
    disorder,       \* one was destructed before a newer one of the same place
    fatal           \* the script ended with a fatal error: no destructors

vars == <<slot, first, hooks, tables, object_handlers, objects, phase, gone, disorder, fatal>>

Ids      == 1 .. MaxHooks
Function == {Null, Native} \cup Ids
\* class: the one whose method installed the hook; none for zend_ast_process.
Hook     == [place : Places, class : Classes \cup {Null}, original : Function]

TypeOK ==
    /\ slot \in [Places -> Function]
    /\ first \in [Places -> {Null, Native}]
    /\ hooks \in Seq(Hook) /\ Len(hooks) <= MaxHooks
    /\ tables \in 0 .. MaxTables
    /\ object_handlers \in [Classes -> 0 .. MaxTables]
    /\ objects \in [Objects -> -1 .. MaxTables]
    /\ phase \in {"script", "destructors", "released"}
    /\ gone \subseteq Ids
    /\ disorder \in BOOLEAN /\ fatal \in BOOLEAN

\* create_object is inherited from an internal parent, if there is one;
\* interface_gets_implemented and zend_ast_process belong to the engine.
Init ==
    /\ first \in [Places -> {Null, Native}]
    /\ \A f \in Fields, t \in 1 .. MaxTables : first[In(f, t)] = Std[f]
    /\ slot = first
    /\ hooks = << >> /\ tables = 0
    /\ object_handlers = [c \in Classes |-> 0]
    /\ objects = [o \in Objects |-> -1]
    /\ phase = "script" /\ gone = {} /\ disorder = FALSE /\ fatal = FALSE

-----------------------------------------------------------------------------
(* Hook objects.                                                           *)

Newest == Len(hooks) + 1

\* Mutant of Captured: it is read after install().
CapturedLate(place) == Newest

\* The constructor saves what the field holds.
Captured(place) == slot[place]

\* new XHook($handler, $struct), install().
Install(place, class) ==
    /\ Len(hooks) < MaxHooks
    /\ hooks' = Append(hooks, [place |-> place, class |-> class,
                               original |-> Captured(place)])
    /\ slot' = [slot EXCEPT ![place] = Newest]

\* allocate_object_handlers(): a new copy of std_object_handlers.
Allocated(c) ==
    /\ tables < MaxTables
    /\ tables' = tables + 1
    /\ object_handlers' = [object_handlers EXCEPT ![c] = tables + 1]

CreateObject(c) ==
    /\ phase = "script"
    /\ Allocated(c)
    /\ Install(Create(c), c)
    /\ UNCHANGED <<first, objects, phase, gone, disorder, fatal>>

\* Mutant of ObjectHandlers: every call allocates.
ObjectHandlersNew(c) == Allocated(c)

\* object_handlers(): the class's table, allocated when there is none.
ObjectHandlers(c) ==
    IF object_handlers[c] = 0 THEN Allocated(c)
    ELSE UNCHANGED <<tables, object_handlers>>

\* castObject() and the others.
InstallHandler(c, f) ==
    /\ phase = "script"
    /\ ObjectHandlers(c)
    /\ Install(In(f, object_handlers'[c]), c)
    /\ UNCHANGED <<first, objects, phase, gone, disorder, fatal>>

\* install_handlers() of a class with the interfaces for the fields F:
\* createObject() and one handler after the other, in the table that
\* createObject() has just allocated.
InstallHandlers(c, F) ==
    LET place(k) == IF k = Newest THEN Create(c) ELSE In(F[k - Newest], tables + 1) IN
    /\ phase = "script" /\ Len(hooks) + 1 + Len(F) <= MaxHooks
    /\ Allocated(c)
    /\ hooks' = hooks \o [k \in 1 .. Len(F) + 1 |->
                    [place |-> place(Len(hooks) + k), class |-> c,
                     original |-> Captured(place(Len(hooks) + k))]]
    /\ slot' = [p \in Places |->
                    IF \E k \in Newest .. Newest + Len(F) : p = place(k)
                    THEN CHOOSE k \in Newest .. Newest + Len(F) : p = place(k)
                    ELSE slot[p]]
    /\ UNCHANGED <<first, objects, phase, gone, disorder, fatal>>

InterfaceGetsImplemented(c) ==
    /\ phase = "script"
    /\ Install(Gets(c), c)
    /\ UNCHANGED <<first, tables, object_handlers, objects, phase, gone, disorder, fatal>>

ZendAstProcess ==
    /\ phase = "script"
    /\ Install(Ast, Null)
    /\ UNCHANGED <<first, tables, object_handlers, objects, phase, gone, disorder, fatal>>

-----------------------------------------------------------------------------
(* Objects.                                                                *)

IsHook(fn) == fn \in DOMAIN hooks

\* The hooks that are called, one from the other's continue(), when a field
\* that holds fn is used: fn, its original, and so on as long as it is a hook.
Continued(S) == \A h \in S : IsHook(hooks[h].original) => hooks[h].original \in S

Called(fn) ==
    {h \in DOMAIN hooks :
        IsHook(fn) /\ \A S \in SUBSET DOMAIN hooks : (fn \in S /\ Continued(S)) => h \in S}

\* What the last of them finds as its original.
Last(fn) ==
    IF ~IsHook(fn) THEN fn
    ELSE hooks[CHOOSE h \in Called(fn) : ~IsHook(hooks[h].original)].original

\* new C() where every create_object handler proceeds: without an original
\* handler the last one calls newInstance(), which gives the object the
\* class's table.
New(o) ==
    LET c == ClassOf[o] IN
    /\ phase = "script" /\ objects[o] = -1
    /\ IF IsHook(slot[Create(c)]) /\ Last(slot[Create(c)]) = Null
       THEN /\ ObjectHandlers(c)
            /\ objects' = [objects EXCEPT ![o] = object_handlers'[c]]
       ELSE /\ objects' = [objects EXCEPT ![o] = 0]
            /\ UNCHANGED <<tables, object_handlers>>
    /\ UNCHANGED <<slot, first, hooks, phase, gone, disorder, fatal>>

-----------------------------------------------------------------------------
(* The end of the request.                                                 *)

EndScript ==
    /\ phase = "script"
    /\ phase' = "destructors"
    /\ UNCHANGED <<slot, first, hooks, tables, object_handlers, objects, gone, disorder, fatal>>

\* After a fatal error PHP calls no destructors.
FatalError ==
    /\ phase = "script"
    /\ phase' = "released" /\ fatal' = TRUE
    /\ UNCHANGED <<slot, first, hooks, tables, object_handlers, objects, gone, disorder>>

Newer(h) == {k \in DOMAIN hooks \ gone : k > h /\ hooks[k].place = hooks[h].place}

\* Mutant of PutBack: the destructor empties the field.
PutBackNull(h) == [slot EXCEPT ![hooks[h].place] = Null]

\* The destructor writes the original handler back, if there was one.
PutBack(h) ==
    IF hooks[h].original = Null THEN slot
    ELSE [slot EXCEPT ![hooks[h].place] = hooks[h].original]

\* Destructors run in the order of the handles, which are reused: any order.
Destruct(h) ==
    /\ phase = "destructors" /\ h \in DOMAIN hooks \ gone
    /\ slot' = PutBack(h)
    /\ gone' = gone \cup {h}
    /\ disorder' = (disorder \/ Newer(h) # {})
    /\ UNCHANGED <<first, hooks, tables, object_handlers, objects, phase, fatal>>

\* ext/ffi frees the closures.
Release ==
    /\ phase = "destructors" /\ DOMAIN hooks \subseteq gone
    /\ phase' = "released"
    /\ UNCHANGED <<slot, first, hooks, tables, object_handlers, objects, gone, disorder, fatal>>

Terminated == phase = "released" /\ UNCHANGED vars

\* The fields a class may have interfaces for, in the order of install_handlers().
Choices == {F \in UNION {[1 .. n -> Fields] : n \in 0 .. Cardinality(Fields)} :
               \A k, l \in DOMAIN F : F[k] = F[l] => k = l}

Next ==
    \/ \E c \in Classes : \/ CreateObject(c)
                          \/ \E f \in Fields : InstallHandler(c, f)
                          \/ \E F \in Choices : InstallHandlers(c, F)
                          \/ InterfaceGetsImplemented(c)
    \/ ZendAstProcess
    \/ \E o \in Objects : New(o)
    \/ \E h \in Ids : Destruct(h)
    \/ EndScript \/ FatalError \/ Release \/ Terminated

Spec == Init /\ [][Next]_vars

-----------------------------------------------------------------------------
(* Properties.                                                             *)

\* "Automatic hook restore, this destructor ensures that there won't be any
\* dead C pointers to PHP structures": that is so in requests that end without
\* a fatal error, where every hooked field had a handler of the engine, and of
\* the hooks of one field the newest is destructed first.
Restorable ==
    ~fatal /\ ~disorder /\ \A k \in DOMAIN hooks : first[hooks[k].place] # Null

\* Then every field is what it was before the first hook.
AllRestored == (phase = "released" /\ Restorable) => slot = first

\* A hook's original is an older hook of the same field or none: calls that
\* proceed from hook to hook end, even while fields are being put back.
ChainsEnd ==
    \A h \in DOMAIN hooks :
        LET o == hooks[h].original IN
        IsHook(o) => o < h /\ hooks[o].place = hooks[h].place

\* A class was hooked in the order of install_handlers(): createObject() once
\* and before any other handler.
CreatedFirst(c) ==
    \A h, k \in DOMAIN hooks :
        (hooks[h].class = c /\ hooks[k].class = c /\ hooks[k].place = Create(c)) => k <= h

\* The objects of such a class that came out of its create_object hook have
\* all handlers installed on the class, those installed later included.
HandlersApply ==
    phase = "script" =>
        \A o \in Objects : (objects[o] > 0 /\ CreatedFirst(ClassOf[o])) =>
            \A h \in DOMAIN hooks :
                LET f == hooks[h].place.field IN
                (hooks[h].class = ClassOf[o] /\ f \in Fields)
                    => h \in Called(slot[In(f, objects[o])])

-----------------------------------------------------------------------------
(* What makes AllRestored and ChainsEnd invariant.                         *)

Live(p) == {k \in DOMAIN hooks \ gone : hooks[k].place = p}

\* A number in a field is that of a hook of the field.
SlotHooks ==
    \A p \in Places : slot[p] \in Ids => slot[p] \in DOMAIN hooks /\ hooks[slot[p]].place = p

\* A hook's original is the next older hook of its field, or what the field
\* held at first if there is none.
Linked ==
    \A h \in DOMAIN hooks :
        LET o == hooks[h].original
            p == hooks[h].place
        IN
        /\ \A k \in DOMAIN hooks : (k < h /\ hooks[k].place = p) => o \in Ids /\ k <= o
        /\ IF o \in Ids THEN o < h /\ hooks[o].place = p ELSE o = first[p]

\* As long as destructors keep the order, a field with a handler of its own
\* (in the script: any field) holds its newest live hook, or else that handler.
NewestInSlot ==
    ~disorder =>
        \A p \in Places :
            (phase = "script" \/ first[p] # Null \/ \A k \in DOMAIN hooks : hooks[k].place # p) =>
                IF Live(p) = {} THEN slot[p] = first[p]
                ELSE slot[p] \in Live(p) /\ \A k \in Live(p) : k <= slot[p]

\* Newer hooks of a field are gone before older ones.
GoneInOrder ==
    /\ ~disorder => \A h \in gone : Newer(h) = {}
    /\ phase = "script" => gone = {} /\ ~disorder
    /\ gone \subseteq DOMAIN hooks
    /\ (phase = "released" /\ ~fatal) => DOMAIN hooks \subseteq gone
=============================================================================
