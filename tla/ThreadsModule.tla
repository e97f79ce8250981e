---------------------------- MODULE ThreadsModule ----------------------------
(* ThreadsModule.php puts a closure before the SAPI's output, so that the    *)
(* threads of a program write one at a time, under the mutex of Core, which  *)
(* zend_set_global() takes, too, and which the first to need it allocates.   *)
(* global_shutdown() puts the SAPI's output back; the engine calls it for    *)
(* each thread that has memory for the module's globals.                     *)
EXTENDS Naturals, FiniteSets

CONSTANTS Threads,       \* Main and the workers
          Main,
          Null, Native,  \* a null pointer, and the SAPI's own output
          MaxModules,    \* objects of ThreadsModule, one after another
          MaxMutexes

Workers == Threads \ {Main}
Modules == 1..MaxModules
Mutexes == 1..MaxMutexes

ASSUME ThreadsAssumption ==
    /\ Main \in Threads /\ IsFiniteSet(Threads) /\ Null \notin Threads
    /\ MaxModules \in Nat /\ MaxMutexes \in Nat
    /\ Null \notin Nat /\ Native \notin Nat /\ Null # Native

VARIABLES
    target_persistent,    \* Core::is_scoped() when the module is registered
    shared,               \* threads see the class Core of the main thread
    module,               \* the registered object, or Null
    created,              \* objects so far
    ub_write,             \* sapi_module->ub_write: the closure of an object, or not
    original_sapi_output, \* of each object
    globals,              \* threads with memory for the globals of the module
    global_mutex,         \* Core::$global_mutex, of each thread
    allocated,            \* mutexes so far
    owner,                \* of each mutex
    pc,                   \* of each thread: where it is
    task,                 \* whose closure it is in, Native in the SAPI's output, Null in zend_set_global()
    mutex,                \* its $mutex
    conduct,              \* which of Deeds the program has done
    fault,                \* a null pointer was called
    over                  \* the request has ended

module_vars == <<module, created, original_sapi_output>>
mutex_vars == <<global_mutex, allocated, owner>>
thread_vars == <<pc, task, mutex>>
fixed == <<target_persistent, shared>>
vars == <<fixed, module_vars, ub_write, globals, mutex_vars, thread_vars,
          conduct, fault, over>>

\* Starting a thread before Core has a mutex; having global_shutdown() called
\* while a worker has globals; a failure between lock and unlock; a fatal error.
Deeds == {"late", "many", "raised", "fatal"}

Pc == {"none", "idle", "get", "alloc", "return", "lock", "locked", "inside", "gone"}
Hook == Modules \cup {Null, Native}

\* A thread includes preload.php: it has a class Core of its own, if the engine
\* does not share the one of the main thread with it.
Core(t) == IF shared THEN Main ELSE t

Does(A) == conduct' = conduct \cup A
When(b, deed) == IF b THEN {deed} ELSE {}

At(t, where) == ~over /\ ~fault /\ pc[t] = where
Goto(t, where) == pc' = [pc EXCEPT ![t] = where]

-----------------------------------------------------------------------------
(* The module, in the main thread.                                         *)

Saved(o) == ub_write

\* register(), startup(): ub_write is replaced before the module is started,
\* which calls global_startup() for each thread.  A MINIT that fails is fatal.
Construct(boots) ==
    LET o == created + 1 IN
    /\ At(Main, "idle") /\ module = Null /\ created < MaxModules
    /\ created' = o /\ module' = o
    /\ original_sapi_output' = [original_sapi_output EXCEPT ![o] = Saved(o)]
    /\ ub_write' = o
    /\ globals' = {t \in Threads : pc[t] \notin {"none", "gone"}}
    /\ over' = ~boots
    /\ Does(When(~boots, "fatal"))
    /\ UNCHANGED <<fixed, mutex_vars, thread_vars, fault>>

\* Mutant of global_shutdown: it forgets what was saved before it is put back.
global_shutdownNull(n) ==
    IF target_persistent \/ n = 0 THEN UNCHANGED <<ub_write, original_sapi_output>>
    ELSE /\ ub_write' = Null
         /\ original_sapi_output' = [original_sapi_output EXCEPT ![module] = Null]

\* global_shutdown() of the registered object, n times.  The second time what
\* was saved is null already.
global_shutdown(n) ==
    IF target_persistent \/ n = 0 THEN UNCHANGED <<ub_write, original_sapi_output>>
    ELSE /\ ub_write' = IF n = 1 THEN original_sapi_output[module] ELSE Null
         /\ original_sapi_output' = [original_sapi_output EXCEPT ![module] = Null]

\* module_destructor() by hand or by the shutdown function: unless the module
\* persists the engine frees the globals of each thread and forgets the module.
module_destructor ==
    /\ At(Main, "idle") /\ module # Null /\ ~target_persistent
    /\ global_shutdown(Cardinality(globals))
    /\ module' = Null /\ globals' = {}
    /\ Does(When(globals # {Main}, "many"))
    /\ UNCHANGED <<fixed, created, mutex_vars, thread_vars, fault, over>>

\* The request ends when the shutdown function has run; ext/ffi frees the closures.
EndRequest ==
    /\ At(Main, "idle") /\ (module = Null \/ target_persistent)
    /\ over' = TRUE
    /\ UNCHANGED <<fixed, module_vars, ub_write, globals, mutex_vars, thread_vars,
                   conduct, fault>>

-----------------------------------------------------------------------------
(* Threads.                                                                *)

\* thread_startup(): ts_resource_ex() gives the thread its globals.
thread_startup(t) ==
    /\ At(Main, "idle") /\ module # Null /\ pc[t] = "none"
    /\ Goto(t, "idle")
    /\ globals' = globals \cup {t}
    /\ Does(When(global_mutex[Core(t)] = Null, "late"))
    /\ UNCHANGED <<fixed, module_vars, ub_write, mutex_vars, task, mutex, fault, over>>

\* thread_shutdown(), for a Thread whose wait() has an end: ts_free_thread()
\* frees the globals of the thread, if the module is there still.
thread_shutdown(t) ==
    /\ t \in Workers /\ At(t, "idle")
    /\ Goto(t, "gone")
    /\ IF t \in globals
       THEN global_shutdown(1) /\ Does({"many"})
       ELSE UNCHANGED <<ub_write, original_sapi_output, conduct>>
    /\ globals' = globals \ {t}
    /\ UNCHANGED <<fixed, module, created, mutex_vars, task, mutex, fault, over>>

\* The SAPI's output is called without a mutex where it was not replaced.
Write(t) ==
    /\ At(t, "idle")
    /\ task' = [task EXCEPT ![t] = ub_write]
    /\ Goto(t, IF ub_write \in Modules THEN "get" ELSE "inside")
    /\ fault' = (ub_write = Null)
    /\ UNCHANGED <<fixed, module_vars, ub_write, globals, mutex_vars, mutex, conduct, over>>

zend_set_global(t) ==
    /\ At(t, "idle")
    /\ task' = [task EXCEPT ![t] = Null]
    /\ Goto(t, "get")
    /\ UNCHANGED <<fixed, module_vars, ub_write, globals, mutex_vars, mutex, conduct, fault, over>>

\* The steps below change nothing but the thread and the mutexes.
Mutexed == UNCHANGED <<fixed, module_vars, ub_write, globals, conduct, over>>

\* get_mutex(), and reset_mutex() if there is none, which allocates one, stores
\* it and returns what is there by then.  (That it looks once more before it
\* allocates makes no difference.)
get_mutex(t) ==
    LET m == global_mutex[Core(t)] IN
    /\ At(t, "get")
    /\ Goto(t, IF m = Null THEN "alloc" ELSE "lock")
    /\ mutex' = [mutex EXCEPT ![t] = m]
    /\ UNCHANGED <<mutex_vars, task, fault>> /\ Mutexed

tsrm_mutex_alloc(t) ==
    /\ At(t, "alloc") /\ allocated < MaxMutexes
    /\ allocated' = allocated + 1
    /\ global_mutex' = [global_mutex EXCEPT ![Core(t)] = allocated']
    /\ Goto(t, "return")
    /\ UNCHANGED <<owner, task, mutex, fault>> /\ Mutexed

reset_mutex_return(t) ==
    /\ At(t, "return")
    /\ mutex' = [mutex EXCEPT ![t] = global_mutex[Core(t)]]
    /\ Goto(t, "lock")
    /\ UNCHANGED <<mutex_vars, task, fault>> /\ Mutexed

\* Mutant of tsrm_mutex_lock: only zend_set_global() waits.
tsrm_mutex_lockNot(t) ==
    /\ At(t, "lock") /\ (task[t] = Null => owner[mutex[t]] = Null)
    /\ owner' = [owner EXCEPT ![mutex[t]] = t]
    /\ Goto(t, "locked")
    /\ UNCHANGED <<global_mutex, allocated, task, mutex, fault>> /\ Mutexed

tsrm_mutex_lock(t) ==
    /\ At(t, "lock") /\ owner[mutex[t]] = Null
    /\ owner' = [owner EXCEPT ![mutex[t]] = t]
    /\ Goto(t, "locked")
    /\ UNCHANGED <<global_mutex, allocated, task, mutex, fault>> /\ Mutexed

\* The closure calls what it has saved.
Call(t) ==
    /\ At(t, "locked")
    /\ fault' = (task[t] \in Modules /\ original_sapi_output[task[t]] = Null)
    /\ Goto(t, "inside")
    /\ UNCHANGED <<mutex_vars, task, mutex>> /\ Mutexed

Leave(t) ==
    /\ Goto(t, "idle")
    /\ task' = [task EXCEPT ![t] = Null] /\ mutex' = [mutex EXCEPT ![t] = Null]

\* Mutant of tsrm_mutex_unlock: the closure does not unlock.
tsrm_mutex_unlockNot(t) ==
    /\ At(t, "inside")
    /\ owner' = IF task[t] = Null THEN [owner EXCEPT ![mutex[t]] = Null] ELSE owner
    /\ Leave(t)
    /\ UNCHANGED <<global_mutex, allocated, fault>> /\ Mutexed

tsrm_mutex_unlock(t) ==
    /\ At(t, "inside")
    /\ owner' = IF task[t] = Native THEN owner ELSE [owner EXCEPT ![mutex[t]] = Null]
    /\ Leave(t)
    /\ UNCHANGED <<global_mutex, allocated, fault>> /\ Mutexed

\* A field that is not there is an exception, which keeps the mutex locked.  The
\* program may catch it, but not where C code has called the thread.
SetRaises(t) ==
    /\ At(t, "inside") /\ task[t] = Null
    /\ Leave(t)
    /\ Does({"raised"} \cup When(t # Main, "fatal"))
    /\ over' = (t # Main)
    /\ UNCHANGED <<fixed, module_vars, ub_write, globals, mutex_vars, fault>>

-----------------------------------------------------------------------------
Init ==
    /\ target_persistent \in BOOLEAN /\ shared \in BOOLEAN
    /\ module = Null /\ created = 0
    /\ ub_write = Native
    /\ original_sapi_output = [o \in Modules |-> Null]
    /\ globals = {}
    /\ global_mutex = [t \in Threads |-> Null]
    /\ allocated = 0
    /\ owner = [m \in Mutexes |-> Null]
    /\ pc = [t \in Threads |-> IF t = Main THEN "idle" ELSE "none"]
    /\ task = [t \in Threads |-> Null]
    /\ mutex = [t \in Threads |-> Null]
    /\ conduct = {} /\ fault = FALSE /\ over = FALSE

\* What a thread does until it is idle again.
Advance(t) ==
    \/ get_mutex(t) \/ tsrm_mutex_alloc(t) \/ reset_mutex_return(t)
    \/ tsrm_mutex_lock(t) \/ Call(t) \/ tsrm_mutex_unlock(t) \/ SetRaises(t)

Next ==
    \/ \E boots \in BOOLEAN : Construct(boots)
    \/ module_destructor \/ EndRequest
    \/ \E t \in Threads : thread_startup(t) \/ thread_shutdown(t) \/ Write(t) \/ zend_set_global(t)
                         \/ Advance(t)

\* Threads are scheduled, and a mutex that is unlocked again and again is had at
\* last (only tsrm_mutex_lock() can be disabled by others).
Fairness == \A t \in Threads : SF_vars(Advance(t))

Spec == Init /\ [][Next]_vars /\ Fairness

-----------------------------------------------------------------------------
(* Properties.                                                             *)

TypeOK ==
    /\ target_persistent \in BOOLEAN /\ shared \in BOOLEAN
    /\ module \in Modules \cup {Null} /\ created \in 0..MaxModules
    /\ ub_write \in Hook /\ original_sapi_output \in [Modules -> {Null, Native}]
    /\ globals \subseteq Threads
    /\ global_mutex \in [Threads -> Mutexes \cup {Null}] /\ allocated \in 0..MaxMutexes
    /\ owner \in [Mutexes -> Threads \cup {Null}]
    /\ pc \in [Threads -> Pc] /\ task \in [Threads -> Hook]
    /\ mutex \in [Threads -> Mutexes \cup {Null}]
    /\ conduct \subseteq Deeds /\ fault \in BOOLEAN /\ over \in BOOLEAN

\* Output of two threads never mixes, and no global is set meanwhile, if threads
\* share Core, it had its mutex before there were threads, and the module
\* outlived them.
OneAtATime ==
    shared /\ conduct \cap {"late", "many"} = {} =>
        \A t, u \in Threads : pc[t] = "inside" /\ pc[u] = "inside" => t = u

\* While there is a module the output is its closure's, which has the SAPI's to
\* call; without one it is the SAPI's again; and no thread calls a null pointer,
\* whenever it looked at ub_write last.  Not so after global_shutdown() was
\* called for a worker's globals.
Restored ==
    "many" \notin conduct =>
        /\ ~fault
        /\ IF module = Null THEN ub_write = Native
           ELSE ub_write = module /\ original_sapi_output[module] = Native

\* A mutex is locked only by a thread that will unlock it, whichever thread
\* allocated it and however many were, unless setting a global failed.
LockedInside ==
    "raised" \notin conduct =>
        \A m \in Mutexes : owner[m] # Null =>
            pc[owner[m]] \in {"locked", "inside"} /\ mutex[owner[m]] = m

\* Every output and every setting comes to its end, unless the request does.
Advances ==
    \A t \in Threads : pc[t] = "get" ~>
        pc[t] = "idle" \/ over \/ fault \/ "raised" \in conduct
=============================================================================
