-------------------------- MODULE ModuleLifecycle --------------------------
(***************************************************************************)
(* The life of PHP extensions written in PHP: zend/StandardModule.php and  *)
(* the functions of zend/Functions.php that drive it.                      *)
(*                                                                         *)
(* A StandardModule object registers a zend_module_entry with the engine,  *)
(* puts closures into the activate/deactivate slots of the running SAPI so *)
(* that its request callbacks are called, and asks for module_destructor   *)
(* to run at the end of the script.  The slots form a chain: a closure     *)
(* calls its module's callback and then whatever the slot held before.     *)
(* Everything runs in the one thread of the script; what can go wrong is   *)
(* the order of the steps, in particular at shutdown, where PHP frees the  *)
(* closures before it uses the SAPI slots and the module registry a last   *)
(* time.                                                                   *)
(***************************************************************************)
EXTENDS Integers, Sequences

CONSTANTS
    Classes,        \* subclasses of StandardModule, each with its module_name
    Instances,      \* objects of those classes
    ClassOf,        \* the class of an object
    ZTS,            \* PHP_ZTS: thread-safe build
    Null,           \* a null function pointer
    Native,         \* a function of the SAPI itself
    NoOne,          \* null where an object or an entry is expected
    Decls,          \* the declarations of the classes that are considered
    Scopes,         \* the values of Core::is_scoped() that are considered
    MaxSapiCalls,   \* bound: calls of standard_activate/standard_deactivate
    MaxUserFns,     \* bound: shutdown functions of the program itself
    MaxByHand       \* bound: its own calls of clear_module/module_destructor

\* What a class declares, and what its callbacks answer:
\*   rs, rd  $r_startup, $r_shutdown     sapi   $restart_sapi
\*   linked  destructor_set() was called
\*   ends    the entry has a module_shutdown_func or a globals_dtor
\*   boots   module_startup() returns SUCCESS
DeclType == [rs : BOOLEAN, rd : BOOLEAN, sapi : BOOLEAN, linked : BOOLEAN,
             ends : BOOLEAN, boots : BOOLEAN]

ASSUME ClassAssumption == ClassOf \in [Instances -> Classes]
ASSUME BuildAssumption == ZTS \in BOOLEAN
ASSUME NullAssumption == Null \notin Instances /\ Native \notin Instances
                         /\ NoOne \notin Instances /\ Null # Native
ASSUME DeclAssumption == Decls \subseteq [Classes -> DeclType] /\ Scopes \subseteq BOOLEAN
ASSUME BoundAssumption == MaxSapiCalls \in Nat /\ MaxUserFns \in Nat /\ MaxByHand \in Nat

VARIABLES
    decl,           \* the declarations (fixed)
    target_persistent,  \* Core::is_scoped() (fixed)
    host,           \* the SAPI's own activate/deactivate routines (fixed)
    phase,          \* where the request is: script, shutdown functions, ...
    shutq,          \* registered shutdown functions, in order
    activate,       \* sapi_module->activate
    deactivate,     \* sapi_module->deactivate
    original_sapi_activate, original_sapi_deactivate,
    global_module,  \* the static slots holding the registered objects
    registry,       \* objects whose entry is in the engine's module_registry
    ze_other_ptr,   \* the object whose entry an object points to
    ended,          \* objects whose shutdown callbacks were called
    balance,        \* request_startup calls less request_shutdown calls
    since,          \* SAPI activations less deactivations while registered
    skipped,        \* the SAPI's own routine was not reached by some call
    dead,           \* a freed closure or a freed entry was used
    byHand,         \* times the program cleared or destructed a module itself
    sapiCalls, userFns  \* calls made, for the bounds

env   == <<decl, target_persistent, host>>
hooks == <<activate, deactivate, original_sapi_activate, original_sapi_deactivate>>
slots == <<global_module, registry, ze_other_ptr, ended>>
calls == <<balance, since, skipped>>
vars  == <<env, phase, shutq, hooks, slots, calls, dead, byHand, sapiCalls, userFns>>

Hook  == Instances \cup {Null, Native}
Phase == {"script", "shutdown", "rshutdown", "mshutdown", "done"}
\* A shutdown function: one of startup()'s two for an object, or the program's.
Fn    == [kind : {"outer", "inner"}, who : Instances]
         \cup [kind : {"user", "late"}, who : {NoOne}]

\* set_module() files an object under its thread (ZTS) or its class (NTS).
\* All the code modelled here runs in the main thread.
Key(c) == IF ZTS THEN "main thread" ELSE c
Keys   == {Key(c) : c \in Classes}

Rs(i)   == decl[ClassOf[i]].rs
Rd(i)   == decl[ClassOf[i]].rd
Sapi(i) == decl[ClassOf[i]].sapi

TypeOK ==
    /\ decl \in Decls
    /\ target_persistent \in BOOLEAN
    /\ host \in [activate : {Null, Native}, deactivate : {Null, Native}]
    /\ phase \in Phase
    /\ shutq \in Seq(Fn)
    /\ activate \in Hook /\ deactivate \in Hook
    /\ original_sapi_activate \in [Instances -> Hook]
    /\ original_sapi_deactivate \in [Instances -> Hook]
    /\ global_module \in [Keys -> Instances \cup {NoOne}]
    /\ registry \subseteq Instances /\ ended \subseteq Instances
    /\ ze_other_ptr \in [Instances -> Instances \cup {NoOne}]
    /\ balance \in [Instances -> Int] /\ since \in [Instances -> Int]
    /\ skipped \in BOOLEAN /\ dead \in BOOLEAN
    /\ byHand \in Nat /\ sapiCalls \in Nat /\ userFns \in Nat

Init ==
    /\ decl \in Decls
    /\ target_persistent \in Scopes
    /\ host \in [activate : {Null, Native}, deactivate : {Null, Native}]
    /\ phase = "script" /\ shutq = << >>
    /\ activate = host.activate /\ deactivate = host.deactivate
    /\ original_sapi_activate = [i \in Instances |-> Null]
    /\ original_sapi_deactivate = [i \in Instances |-> Null]
    /\ global_module = [k \in Keys |-> NoOne]
    /\ registry = {} /\ ended = {}
    /\ ze_other_ptr = [i \in Instances |-> NoOne]
    /\ balance = [i \in Instances |-> 0] /\ since = [i \in Instances |-> 0]
    /\ skipped = FALSE /\ dead = FALSE /\ byHand = 0
    /\ sapiCalls = 0 /\ userFns = 0

-----------------------------------------------------------------------------
(* The chain of closures behind a SAPI slot.                               *)

\* The objects whose closures run when slot value h is called, where
\* next[i] is what the closure of i calls after its own callback.
Chain(h, next) ==
    {i \in Instances :
        \A S \in SUBSET Instances :
            ( /\ h \in Instances => h \in S
              /\ \A j \in S : next[j] \in Instances => next[j] \in S )
            => i \in S}

\* The SAPI's own routine is called, directly or at the end of the chain.
ReachesHost(h, next) ==
    h = Native \/ \E i \in Chain(h, next) : next[i] = Native

\* ext/ffi frees every closure at its request shutdown.
ClosuresLive == phase \in {"script", "shutdown"}

\* Calling a chain is an error once the closures are freed, and when a
\* closure of it uses the entry of a module that is no longer registered.
Unsafe(chain, reg) == chain # {} /\ (~ClosuresLive \/ ~(chain \subseteq reg))

Bump(f, S, d) == [i \in Instances |-> IF i \in S THEN f[i] + d ELSE f[i]]

\* sapi_activate() / sapi_deactivate(): call what the slot holds.
SapiActivate ==
    LET run == Chain(activate, original_sapi_activate) IN
    /\ balance' = Bump(balance, run, 1)
    /\ since' = Bump(since, registry, 1)
    /\ skipped' = (skipped \/ (host.activate = Native
                      /\ ~ReachesHost(activate, original_sapi_activate)))
    /\ dead' = (dead \/ Unsafe(run, registry))

SapiDeactivate ==
    LET run == Chain(deactivate, original_sapi_deactivate) IN
    /\ balance' = Bump(balance, run, -1)
    /\ since' = Bump(since, registry, -1)
    /\ skipped' = (skipped \/ (host.deactivate = Native
                      /\ ~ReachesHost(deactivate, original_sapi_deactivate)))
    /\ dead' = (dead \/ Unsafe(run, registry))

-----------------------------------------------------------------------------
(* What the program calls, in the script or in a shutdown function.        *)

InProgram ==
    \/ phase = "script"
    \/ phase = "shutdown" /\ shutq # << >> /\ Head(shutq).kind \in {"user", "late"}

IsRegistered(c) == \E j \in registry : ClassOf[j] = c

\* The constructor of i ran; clear_module() takes the entry away again.
Constructed(i) == ze_other_ptr[i] # NoOne \/ i \in ended

\* new M() when the name is registered: the object refers to that entry.
Attach(i) ==
    /\ InProgram /\ ~Constructed(i) /\ IsRegistered(ClassOf[i])
    /\ \E j \in registry :
          /\ ClassOf[j] = ClassOf[i]
          /\ ze_other_ptr' = [ze_other_ptr EXCEPT ![i] = j]
    /\ UNCHANGED <<env, phase, shutq, hooks, global_module, registry, ended,
                   calls, dead, byHand, sapiCalls, userFns>>

\* register() and startup() touch a SAPI slot only for a declared callback.
HooksActivate(i)   == Sapi(i) /\ Rs(i)
HooksDeactivate(i) == Sapi(i) /\ Rd(i)

\* Mutant of DeactivateAtRestart: the hook is replaced first.
DeactivateAfterHooking(i) == IF HooksDeactivate(i) THEN i ELSE deactivate

\* startup() calls sapi_deactivate() before it replaces the hooks.
DeactivateAtRestart(i) == deactivate

\* Mutant of QueueDestructor: module_destructor is registered directly.
QueueDestructorFlat(i) ==
    IF Rd(i) THEN Append(shutq, [kind |-> "inner", who |-> i]) ELSE shutq

\* Mutant of QueueDestructor: the wrong flag is tested.
QueueDestructorWrongFlag(i) ==
    IF Rs(i) THEN Append(shutq, [kind |-> "outer", who |-> i]) ELSE shutq

\* startup() registers a function that registers module_destructor, which
\* therefore runs after every function the script registered.
QueueDestructor(i) ==
    IF Rd(i) THEN Append(shutq, [kind |-> "outer", who |-> i]) ELSE shutq

\* new M() when it is not: register() and startup().  With restart_sapi the
\* SAPI is deactivated with the old hook, which is then replaced, and
\* activated again by php_module_startup() with the new one.  A MINIT that
\* fails is fatal: the script, or the run of the shutdown functions, ends.
Construct(i) ==
    LET saveA == IF HooksActivate(i)
                 THEN [original_sapi_activate EXCEPT ![i] = activate]
                 ELSE original_sapi_activate
        saveD == IF HooksDeactivate(i)
                 THEN [original_sapi_deactivate EXCEPT ![i] = deactivate]
                 ELSE original_sapi_deactivate
        old   == DeactivateAtRestart(i)
        new   == IF HooksActivate(i) THEN i ELSE activate
        reg   == registry \cup {i}
        boots == decl[ClassOf[i]].boots
        down  == IF Sapi(i) THEN Chain(old, saveD) ELSE {}
        up    == IF Sapi(i) /\ boots THEN Chain(new, saveA) ELSE {}
    IN
    /\ InProgram /\ ~Constructed(i) /\ ~IsRegistered(ClassOf[i])
    /\ original_sapi_activate' = saveA /\ original_sapi_deactivate' = saveD
    /\ activate' = new
    /\ deactivate' = IF HooksDeactivate(i) THEN i ELSE deactivate
    /\ registry' = reg
    /\ ze_other_ptr' = [ze_other_ptr EXCEPT ![i] = i]
    /\ global_module' = [global_module EXCEPT ![Key(ClassOf[i])] = i]
    /\ balance' = Bump(Bump(balance, down, -1), up, 1)
    /\ since' = IF Sapi(i) /\ ~boots THEN Bump(since, registry, -1) ELSE since
    /\ skipped' = \/ skipped
                  \/ /\ Sapi(i) /\ host.deactivate = Native
                     /\ ~ReachesHost(old, saveD)
                  \/ /\ Sapi(i) /\ boots /\ host.activate = Native
                     /\ ~ReachesHost(new, saveA)
    /\ dead' = (dead \/ Unsafe(down, reg) \/ Unsafe(up, reg))
    /\ IF boots
       THEN shutq' = QueueDestructor(i) /\ phase' = phase
       ELSE /\ shutq' = IF phase = "script" THEN shutq ELSE << >>
            /\ phase' = "shutdown"
    /\ UNCHANGED <<env, ended, byHand, sapiCalls, userFns>>

\* standard_activate($module), standard_deactivate($module).
StandardActivate(i) ==
    /\ InProgram /\ Constructed(i) /\ Sapi(i) /\ sapiCalls < MaxSapiCalls
    /\ SapiActivate
    /\ sapiCalls' = sapiCalls + 1
    /\ UNCHANGED <<env, phase, shutq, hooks, slots, byHand, userFns>>

StandardDeactivate(i) ==
    /\ InProgram /\ Constructed(i) /\ Sapi(i) /\ sapiCalls < MaxSapiCalls
    /\ SapiDeactivate
    /\ sapiCalls' = sapiCalls + 1
    /\ UNCHANGED <<env, phase, shutq, hooks, slots, byHand, userFns>>

\* get_module(): what the program finds in the slot.
GetModule(c) == global_module[Key(c)]

\* Mutant of Clear: the slot keeps the object.
ClearKeepsSlot(c) ==
    LET o == GetModule(c) IN
    IF o = NoOne THEN UNCHANGED slots
    ELSE /\ global_module' = global_module
         /\ registry' = registry \ {o}
         /\ ended' = ended \cup {o}
         /\ ze_other_ptr' = [ze_other_ptr EXCEPT ![o] = NoOne]

\* clear_module(): the object in the slot leaves the registry, which runs
\* its module_shutdown and global_shutdown.
Clear(c) ==
    LET o == GetModule(c) IN
    IF o = NoOne THEN UNCHANGED slots
    ELSE /\ global_module' = [global_module EXCEPT ![Key(c)] = NoOne]
         /\ registry' = registry \ {o}
         /\ ended' = ended \cup {o}
         /\ ze_other_ptr' = [ze_other_ptr EXCEPT ![o] = NoOne]

\* Mutant of RestoreActivate: the slot is emptied, not restored.
RestoreActivateNull(i) ==
    IF HooksActivate(i)
    THEN /\ activate' = Null
         /\ original_sapi_activate' = [original_sapi_activate EXCEPT ![i] = Null]
    ELSE UNCHANGED <<activate, original_sapi_activate>>

\* Mutant of RestoreDeactivate: only the other hook is restored.
RestoreDeactivateNot(i) ==
    UNCHANGED <<deactivate, original_sapi_deactivate>>

\* Mutant of RestoreDeactivate: it takes what was saved for the other hook.
RestoreDeactivateSwapped(i) ==
    IF HooksDeactivate(i)
    THEN /\ deactivate' = original_sapi_activate[i]
         /\ original_sapi_deactivate' = [original_sapi_deactivate EXCEPT ![i] = Null]
    ELSE UNCHANGED <<deactivate, original_sapi_deactivate>>

\* module_destructor() puts the saved hooks back and forgets them.
RestoreActivate(i) ==
    IF HooksActivate(i)
    THEN /\ activate' = original_sapi_activate[i]
         /\ original_sapi_activate' = [original_sapi_activate EXCEPT ![i] = Null]
    ELSE UNCHANGED <<activate, original_sapi_activate>>

RestoreDeactivate(i) ==
    IF HooksDeactivate(i)
    THEN /\ deactivate' = original_sapi_deactivate[i]
         /\ original_sapi_deactivate' = [original_sapi_deactivate EXCEPT ![i] = Null]
    ELSE UNCHANGED <<deactivate, original_sapi_deactivate>>

\* Only register() sets the object's own $target_persistent.
Persistent(i) == target_persistent /\ (ze_other_ptr[i] = i \/ i \in ended)

\* module_destructor(): the last request_shutdown; unless the module
\* persists, the hooks are restored and the module is cleared.
Destruct(i) ==
    LET ptr   == ze_other_ptr[i]
        final == Rd(i) /\ ptr # NoOne
    IN
    /\ balance' = IF final THEN [balance EXCEPT ![i] = @ - 1] ELSE balance
    /\ dead' = (dead \/ (final /\ ptr \notin registry))
    /\ UNCHANGED <<since, skipped>>
    /\ IF Persistent(i) /\ Sapi(i)
       THEN UNCHANGED <<hooks, slots>>
       ELSE /\ RestoreActivate(i) /\ RestoreDeactivate(i)
            /\ IF decl[ClassOf[i]].linked THEN UNCHANGED slots
                                          ELSE Clear(ClassOf[i])

\* Both are public, so the program may call them itself.
ClearModule(c) ==
    /\ InProgram /\ GetModule(c) # NoOne
    /\ Clear(c)
    /\ byHand < MaxByHand /\ byHand' = byHand + 1
    /\ UNCHANGED <<env, phase, shutq, hooks, calls, dead, sapiCalls, userFns>>

ModuleDestructor(i) ==
    /\ InProgram /\ Constructed(i)
    /\ Destruct(i)
    /\ byHand < MaxByHand /\ byHand' = byHand + 1
    /\ UNCHANGED <<env, phase, shutq, sapiCalls, userFns>>

\* register_shutdown_function() of the program: "user" when the script
\* registers it, "late" when a shutdown function does.
RegisterShutdownFunction ==
    /\ InProgram /\ userFns < MaxUserFns
    /\ shutq' = Append(shutq, [kind |-> IF phase = "script" THEN "user" ELSE "late",
                               who  |-> NoOne])
    /\ userFns' = userFns + 1
    /\ UNCHANGED <<env, phase, hooks, slots, calls, dead, byHand, sapiCalls>>

-----------------------------------------------------------------------------
(* What the engine does when the script is over.                           *)

EndScript ==
    /\ phase = "script"
    /\ phase' = "shutdown"
    /\ UNCHANGED <<env, shutq, hooks, slots, calls, dead, byHand, sapiCalls, userFns>>

AtHead(kind) == phase = "shutdown" /\ shutq # << >> /\ Head(shutq).kind = kind

RunOuter ==
    /\ AtHead("outer")
    /\ shutq' = Append(Tail(shutq), [kind |-> "inner", who |-> Head(shutq).who])
    /\ UNCHANGED <<env, phase, hooks, slots, calls, dead, byHand, sapiCalls, userFns>>

RunInner ==
    /\ AtHead("inner")
    /\ Destruct(Head(shutq).who)
    /\ shutq' = Tail(shutq)
    /\ UNCHANGED <<env, phase, byHand, sapiCalls, userFns>>

EndUserFn ==
    /\ AtHead("user") \/ AtHead("late")
    /\ shutq' = Tail(shutq)
    /\ UNCHANGED <<env, phase, hooks, slots, calls, dead, byHand, sapiCalls, userFns>>

\* zend_deactivate_modules(): ext/ffi frees the closures.
FreeClosures ==
    /\ phase = "shutdown" /\ shutq = << >>
    /\ phase' = "rshutdown"
    /\ UNCHANGED <<env, shutq, hooks, slots, calls, dead, byHand, sapiCalls, userFns>>

\* php_request_shutdown() ends with sapi_deactivate().
LastDeactivate ==
    /\ phase = "rshutdown"
    /\ SapiDeactivate
    /\ phase' = "mshutdown"
    /\ UNCHANGED <<env, shutq, hooks, slots, byHand, sapiCalls, userFns>>

\* php_module_shutdown() destroys what is left in the registry, calling the
\* shutdown callbacks of the entries that have any.
PhpModuleShutdown ==
    /\ phase = "mshutdown"
    /\ dead' = (dead \/ \E i \in registry : decl[ClassOf[i]].ends)
    /\ registry' = {}
    /\ phase' = "done"
    /\ UNCHANGED <<env, shutq, hooks, global_module, ze_other_ptr, ended, calls,
                   byHand, sapiCalls, userFns>>

Terminated == phase = "done" /\ UNCHANGED vars

Engine == RunOuter \/ RunInner \/ EndUserFn \/ FreeClosures
          \/ LastDeactivate \/ PhpModuleShutdown

Next ==
    \/ \E i \in Instances : \/ Attach(i) \/ Construct(i)
                            \/ StandardActivate(i) \/ StandardDeactivate(i)
                            \/ ModuleDestructor(i)
    \/ \E c \in Classes : ClearModule(c)
    \/ RegisterShutdownFunction
    \/ EndScript
    \/ Engine
    \/ Terminated

\* Once the script is over the engine runs to the end by itself; the script
\* is owed nothing.
Spec == Init /\ [][Next]_vars /\ WF_vars(Engine)

-----------------------------------------------------------------------------
(* What the component promises, and to which programs.                     *)

\* A class that leaves something for module_destructor to undo.
Hooks(c) == decl[c].sapi /\ (decl[c].rs \/ decl[c].rd)

DistinctSlots == \A c, d \in Classes : Key(c) = Key(d) => c = d

\* The programs for which the hooks are safe: every object has a slot of
\* its own, at most one class hooks into the SAPI, a class that hooks or has
\* shutdown callbacks declares request_shutdown (without it nothing calls
\* module_destructor), no MINIT fails, no module persists, and the program
\* leaves clear_module() and module_destructor() to the shutdown.
SafeUse ==
    /\ DistinctSlots
    /\ \A c, d \in Classes : Hooks(c) /\ Hooks(d) => c = d
    /\ \A c \in Classes : /\ (Hooks(c) \/ decl[c].ends) => decl[c].rd
                          /\ decl[c].boots /\ ~decl[c].linked
    /\ ~target_persistent
    /\ byHand = 0

\* No SAPI slot and no registry entry leads PHP to a closure that ext/ffi
\* has freed or to the entry of a module that is gone (module_destructor's
\* restoring and clearing, in time).
NoDeadCall == SafeUse => ~dead

\* Once the shutdown functions have run, the SAPI slots hold the SAPI's own
\* routines again and no module with anything left to call is registered.
HooksRestored ==
    (SafeUse /\ ~ClosuresLive) =>
        /\ activate = host.activate /\ deactivate = host.deactivate
        /\ \A i \in registry : ~Rd(i) /\ ~decl[ClassOf[i]].ends

\* A hooked module sees every (de)activation of the SAPI exactly once, also
\* those of other modules' restarts: while it is registered it is one
\* request_startup ahead of the SAPI (the one of its own startup()), and
\* module_destructor's request_shutdown evens that out.
RequestCallsMatch ==
    SafeUse =>
        \A i \in Instances :
            (HooksActivate(i) /\ HooksDeactivate(i)) =>
                balance[i] = since[i] + (IF i \in registry THEN 1 ELSE 0)

\* Hooking never costs the SAPI a call of its own activate or deactivate.
HostNeverSkipped == SafeUse => ~skipped

\* The static slots and the engine's registry agree: an object is in its
\* slot exactly while its entry is registered.
SlotsMatchRegistry ==
    DistinctSlots =>
        \A i \in Instances :
            phase # "done" => (i \in registry <=> global_module[Key(ClassOf[i])] = i)

\* The nested register_shutdown_function of startup(): every function the
\* script registered still finds the modules alive, because no
\* module_destructor is queued in front of it.
DestructorsRunLast ==
    \A k, l \in DOMAIN shutq :
        (shutq[k].kind = "inner" /\ shutq[l].kind = "user") => l < k

\* Every module of a safe program that declares request_shutdown and is
\* registered when the script ends gets its module_shutdown and global_shutdown, however many shutdown
\* functions the program adds.
ModulesEnd ==
    \A i \in Instances :
        (SafeUse /\ phase = "shutdown" /\ i \in registry /\ Rd(i)) ~> (i \in ended)

-----------------------------------------------------------------------------
(* The invariant behind them.                                              *)

\* While a hooking module is registered its closure is in the slot and has
\* saved the SAPI's own routine; at other times that routine is in the slot.
ActivateSlot ==
    /\ \A i \in registry : HooksActivate(i) =>
          activate = i /\ original_sapi_activate[i] = host.activate
    /\ activate \in Instances => activate \in registry /\ HooksActivate(activate)
    /\ activate \notin Instances => activate = host.activate

DeactivateSlot ==
    /\ \A i \in registry : HooksDeactivate(i) =>
          deactivate = i /\ original_sapi_deactivate[i] = host.deactivate
    /\ deactivate \in Instances => deactivate \in registry /\ HooksDeactivate(deactivate)
    /\ deactivate \notin Instances => deactivate = host.deactivate

\* The destructor of k-th shutdown function is that of object i.
Destructs(k, i) == shutq[k].kind \in {"outer", "inner"} /\ shutq[k].who = i

\* Every registered module that declares request_shutdown has exactly one
\* destructor pending, and no other object has one.
PendingDestructors ==
    /\ \A i \in registry : Rd(i) /\ ClosuresLive =>
          \E k \in DOMAIN shutq : Destructs(k, i)
    /\ \A i \in Instances : \A k, l \in DOMAIN shutq :
          Destructs(k, i) /\ Destructs(l, i) => k = l
    /\ \A i \in Instances : \A k \in DOMAIN shutq :
          Destructs(k, i) => i \in registry /\ Rd(i)
    /\ ~ClosuresLive => \A i \in registry : ~Rd(i)

SafeCore ==
    /\ ActivateSlot /\ DeactivateSlot /\ PendingDestructors
    /\ \A i \in registry : ze_other_ptr[i] = i
    /\ ~dead /\ ~skipped

SafeInv == SafeUse => SafeCore
=============================================================================
