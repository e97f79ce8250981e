----------------------------- MODULE HookCalls -----------------------------
(***************************************************************************)
(* Calls of the object-handler hooks: handle() and continue() of the       *)
(* classes in zend/Types/Handlers and of AstProcess.                       *)
(*                                                                         *)
(* The engine calls a hook's handle() with the operands of one operation;  *)
(* handle() stores them in the hook OBJECT and calls the user's handler,   *)
(* which may look at them, operate on other hooked objects and proceed     *)
(* with continue().  continue() reads the operands back from the object,   *)
(* and the property hooks run the original handler under another           *)
(* EG(fake_scope).  One hook object serves a whole class, so calls nest:   *)
(* handlers use hooked objects, and so do the magic methods the original   *)
(* handlers call.                                                          *)
(***************************************************************************)
EXTENDS Integers, Sequences

CONSTANTS
    Hooks,          \* installed hook objects
    Classes,        \* of the objects they are used on
    Targets,        \* operands of an operation: an object and a member
    Values,         \* values of properties
    NoScope,        \* EG(fake_scope) is null
    HookClass,      \* the class of the hook objects
    KindChoices,    \* the hook classes that are considered
    ClassOf,        \* the class of the object of an operand
    CallsSaveScope, \* zend_call_function() saves and clears EG(fake_scope)
    MaxDepth        \* bound: nested operations

\* What tells the hook classes apart:
\*   scope     in which continue() runs the original handler: that of its
\*             caller, the class of the operand or the class of the hook
\*   original  the engine has a handler of its own in the hooked field
\*   fallback  continue() does without one
\*   writes    handle() stores the handler's answer and proceeds by itself
\*   retargets the handler may have continue() act on another operand
Kind == [scope : {"caller", "operand", "hook"}, original : BOOLEAN, fallback : BOOLEAN,
         writes : BOOLEAN, retargets : BOOLEAN]

Property == [scope |-> "operand", original |-> TRUE, fallback |-> FALSE,
             writes |-> FALSE, retargets |-> FALSE]

ReadProperty       == Property
WriteProperty      == [Property EXCEPT !.writes = TRUE]
HasProperty        == Property
GetPropertyPointer == Property
GetPropertiesFor   == [Property EXCEPT !.original = FALSE]
CastObject         == [Property EXCEPT !.scope = "caller"]
DoOperation        == [CastObject EXCEPT !.original = FALSE]
InterfaceGetsImplemented == [CastObject EXCEPT !.original = FALSE]
AstProcess         == [CastObject EXCEPT !.original = FALSE]
CreateObject       == [CastObject EXCEPT !.original = FALSE, !.fallback = TRUE,
                                         !.retargets = TRUE]

\* The engine's handlers have no compare in PHP 7.4.
CompareValues(php74) == [CastObject EXCEPT !.original = ~php74]

\* The scope is the class of This() in the frame of continue(), which is the
\* hook.  In PHP 8 ce() refuses an object, so that continue() throws as one
\* without an original handler.
UnsetProperty(php74) == IF php74 THEN [Property EXCEPT !.scope = "hook"]
                        ELSE [Property EXCEPT !.original = FALSE]

ASSUME KindAssumption  == KindChoices \subseteq Kind
ASSUME ClassAssumption == ClassOf \in [Targets -> Classes] /\ NoScope \notin Classes \cup {HookClass}
ASSUME FlagAssumption  == CallsSaveScope \in BOOLEAN
ASSUME DepthAssumption == MaxDepth \in Nat
ASSUME ValueAssumption == Values # {} /\ Targets # {}

VARIABLES
    kind,           \* the class of each hook (fixed)
    this,           \* the operands in the fields of each hook object
    stack,          \* the operations in progress, the innermost last
    fake_scope,     \* EG(fake_scope)
    store,          \* what has been written to each member
    threw,          \* an original handler has thrown
    replaced,       \* the operations, by depth, whose operands another has replaced
    over            \* the script ended with a fatal error

vars == <<kind, this, stack, fake_scope, store, threw, replaced, over>>

Scope    == Classes \cup {HookClass, NoScope}
Operands == [target : Targets, value : Values]

\* An operation in progress.  pc: "user" the user's handler runs, "native" the
\* original handler does, called by the user's handler, "last" it does,
\* called by handle() itself.  operands is what the engine asked for, or what
\* this operation's own handler put in its place; entry the scope in which the
\* user's handler was entered, saved that of the caller, previous and args the
\* locals of continue().
Frame == [hook : Hooks, operands : Operands, pc : {"user", "native", "last"},
          entry : Scope, saved : Scope, previous : Scope, args : Operands]

TypeOK ==
    /\ kind \in [Hooks -> KindChoices]
    /\ this \in [Hooks -> Operands]
    /\ stack \in Seq(Frame)
    /\ fake_scope \in Scope
    /\ store \in [Targets -> Values]
    /\ threw \in BOOLEAN /\ replaced \subseteq DOMAIN stack /\ over \in BOOLEAN

Init ==
    /\ kind \in [Hooks -> KindChoices]
    /\ this \in [Hooks -> Operands]
    /\ stack = << >>
    /\ fake_scope = NoScope
    /\ store \in [Targets -> Values]
    /\ threw = FALSE /\ replaced = {} /\ over = FALSE

-----------------------------------------------------------------------------
Top == stack[Len(stack)]
At(pc) == ~over /\ stack # << >> /\ Top.pc = pc

Push(f) == Append(stack, f)
Pop     == SubSeq(stack, 1, Len(stack) - 1)
SetTop(f) == [stack EXCEPT ![Len(stack)] = f]

\* Mutant of Enters: handle() does not store the object and the member.
EntersValue(h, t, v) == [this EXCEPT ![h].value = v]

\* handle() stores its arguments in the hook object.
Enters(h, t, v) == [this EXCEPT ![h] = [target |-> t, value |-> v]]

\* The operation has not read its operands for the last time.
InNeed(f) == f.pc # "last"

Entry == IF CallsSaveScope THEN NoScope ELSE fake_scope

Entered(h, t, v) ==
    LET a == [target |-> t, value |-> v] IN
    [hook |-> h, operands |-> a, pc |-> "user", entry |-> Entry, saved |-> fake_scope,
     previous |-> NoScope, args |-> a]

\* The program, a user's handler, or a magic method that an original handler
\* has called, performs an operation of hook h on t, with v if it writes;
\* the other hooks have no use for a value.  The engine calls handle(), which
\* calls the user's handler.
Handle(h, t, v) ==
    /\ ~over /\ Len(stack) < MaxDepth
    /\ kind[h].writes \/ v = this[h].value
    /\ replaced' = replaced \cup {k \in DOMAIN stack : stack[k].hook = h /\ InNeed(stack[k])}
    /\ stack' = Push(Entered(h, t, v))
    /\ fake_scope' = Entry
    /\ this' = Enters(h, t, v)
    /\ UNCHANGED <<kind, store, threw, over>>

\* WriteProperty::value($newValue).
SetValue(v) ==
    /\ At("user") /\ kind[Top.hook].writes
    /\ this' = [this EXCEPT ![Top.hook].value = v]
    /\ stack' = SetTop([Top EXCEPT !.operands.value = v])
    /\ UNCHANGED <<kind, fake_scope, store, threw, replaced, over>>

\* CreateObject::class_type($classType).
SetTarget(t) ==
    /\ At("user") /\ kind[Top.hook].retargets
    /\ this' = [this EXCEPT ![Top.hook].target = t]
    /\ stack' = SetTop([Top EXCEPT !.operands.target = t])
    /\ UNCHANGED <<kind, fake_scope, store, threw, replaced, over>>

\* The scope in which continue() of the operation f runs the original handler.
ScopeIn(f) == CASE kind[f.hook].scope = "operand" -> ClassOf[f.args.target]
                [] kind[f.hook].scope = "hook"    -> HookClass
                [] OTHER                          -> fake_scope

\* continue() of the operation f with operands a, called at pc: the original
\* handler starts.
Proceed(f, a, pc) ==
    LET g == [f EXCEPT !.pc = pc, !.args = a, !.previous = fake_scope] IN
    stack' = SetTop(g) /\ fake_scope' = ScopeIn(g)

\* Without an original handler continue() throws a LogicException, which
\* changes nothing unless the handler lets it pass (Uncaught).
Continue ==
    /\ At("user")
    /\ kind[Top.hook].original \/ kind[Top.hook].fallback
    /\ Proceed(Top, this[Top.hook], "native")
    /\ UNCHANGED <<kind, this, store, threw, replaced, over>>

\* Mutant of Restored: the scope is cleared.
RestoredToNone(f) == IF kind[f.hook].scope = "caller" THEN fake_scope ELSE NoScope

\* fake_scope() is set back after the original handler.
Restored(f) == IF kind[f.hook].scope = "caller" THEN fake_scope ELSE f.previous

\* The write_property of the engine writes.
Stored(f) == IF kind[f.hook].writes
             THEN [store EXCEPT ![f.args.target] = f.args.value]
             ELSE store

\* The user's handler goes on, and the locals of continue() are no more.
Resumed(f) == [f EXCEPT !.pc = "user", !.args = f.operands, !.previous = NoScope]

NativeReturns ==
    /\ At("native")
    /\ store' = Stored(Top)
    /\ fake_scope' = Restored(Top)
    /\ stack' = SetTop(Resumed(Top))
    /\ UNCHANGED <<kind, this, threw, replaced, over>>

\* An exception leaves continue() before the scope is set back; the user's
\* handler catches it.
NativeThrows ==
    /\ At("native")
    /\ stack' = SetTop(Resumed(Top))
    /\ threw' = TRUE
    /\ UNCHANGED <<kind, this, fake_scope, store, replaced, over>>

\* handle() is left: so is the zend_call_function() that called it.
Left(f, scope) == IF CallsSaveScope THEN f.saved ELSE scope
Leaves == stack' = Pop /\ replaced' = replaced \ {Len(stack)}

\* The handler returns; the result is handle()'s.
HandlerReturns ==
    /\ At("user") /\ ~kind[Top.hook].writes
    /\ Leaves
    /\ fake_scope' = Left(Top, fake_scope)
    /\ UNCHANGED <<kind, this, store, threw, over>>

\* Mutant of WriterReturns: handle() proceeds without a look at what the
\* handler returned.
WriterReturnsUnseen(v) ==
    /\ At("user") /\ kind[Top.hook].writes
    /\ Proceed([Top EXCEPT !.operands.value = v], this[Top.hook], "last")
    /\ UNCHANGED <<kind, this, store, threw, replaced, over>>

\* The handler of a write returns v: handle() makes it the value to write
\* and proceeds with what is then in the hook object.
WriterReturns(v) ==
    /\ At("user") /\ kind[Top.hook].writes
    /\ this' = [this EXCEPT ![Top.hook].value = v]
    /\ Proceed([Top EXCEPT !.operands.value = v], this'[Top.hook], "last")
    /\ UNCHANGED <<kind, store, threw, replaced, over>>

WriteEnds ==
    /\ At("last")
    /\ store' = Stored(Top)
    /\ fake_scope' = Left(Top, Restored(Top))
    /\ Leaves
    /\ UNCHANGED <<kind, this, threw, over>>

\* ext/ffi ends the script when an exception leaves a callback.
Uncaught ==
    /\ At("user") \/ At("last")
    /\ over' = TRUE
    /\ UNCHANGED <<kind, this, stack, fake_scope, store, threw, replaced>>

Terminated == over /\ UNCHANGED vars

Next ==
    \/ \E h \in Hooks, t \in Targets, v \in Values : Handle(h, t, v)
    \/ \E v \in Values : SetValue(v) \/ WriterReturns(v)
    \/ \E t \in Targets : SetTarget(t)
    \/ Continue \/ NativeReturns \/ NativeThrows \/ HandlerReturns \/ WriteEnds
    \/ Uncaught \/ Terminated

Spec == Init /\ [][Next]_vars

-----------------------------------------------------------------------------
\* The fields of a hook object are the operands of the operation it serves, as
\* the engine or that operation's own handler put them there, whatever runs on
\* other hooks in between: from handle() to the last continue(), and to the
\* return value that handle() stores, unless a handler or a magic method has
\* used the same hook for an operation of its own meanwhile.
OwnOperands ==
    \A k \in DOMAIN stack \ replaced :
        InNeed(stack[k]) => this[stack[k].hook] = stack[k].operands

\* WritePropertyInterface: the writer returns "New value to write".  What it
\* returned is in the member that was assigned when the assignment is done,
\* even if the same hook is used between its return and the end, but not if it
\* was used before it returned.
WrittenAsReturned ==
    [][WriteEnds /\ Len(stack) \notin replaced =>
           store'[Top.operands.target] = Top.operands.value]_vars

\* ZendExecutor::fake_scope() returns the previous value "to restore it
\* later": the user's handlers always run in the scope they were entered in,
\* and between operations there is none.
ScopeRestored ==
    /\ At("user") => fake_scope = Top.entry
    /\ stack = << >> => fake_scope = NoScope

\* So it is as long as no original handler throws.
ScopeKept == ~threw => ScopeRestored
=============================================================================
