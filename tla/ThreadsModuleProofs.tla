------------------------ MODULE ThreadsModuleProofs ------------------------
(* ThreadsModule: types, who has the SAPI's output and who has the mutex.  *)
EXTENDS ThreadsModule, FiniteSetTheorems, TLAPS

Alive(t) == pc[t] \notin {"none", "gone"}

-----------------------------------------------------------------------------
(* Types.  What is saved is never a closure, because no module is registered *)
(* while another one's closure is the SAPI's output: its destructor puts     *)
(* back what was saved, as the main thread has globals that are freed.       *)

GlobalsInv ==
    /\ Alive(Main)
    /\ module = Null => globals = {} /\ ub_write \notin Modules
    /\ module # Null => \A t \in Threads : Alive(t) => t \in globals

Typed == TypeOK /\ GlobalsInv

LEMMA HasGlobals ==
    ASSUME Typed, module # Null
    PROVE  Cardinality(globals) # 0
  <1>1. Main \in globals /\ globals \subseteq Threads
    BY ThreadsAssumption DEF Typed, TypeOK, GlobalsInv
  <1>2. IsFiniteSet(globals)
    BY <1>1, FS_Subset, ThreadsAssumption
  <1> QED BY <1>1, <1>2, FS_EmptySet

LEMMA ShutdownTypes ==
    ASSUME Typed, module # Null, NEW n, global_shutdown(n)
    PROVE  /\ ub_write' \in Hook /\ original_sapi_output' \in [Modules -> {Null, Native}]
           /\ n # 0 /\ ~target_persistent => ub_write' \notin Modules
  <1> USE ThreadsAssumption DEF Typed, TypeOK, Hook, Modules
  <1>1. CASE target_persistent \/ n = 0
    BY <1>1 DEF global_shutdown
  <1>2. CASE ~(target_persistent \/ n = 0)
    <2>1. ub_write' = (IF n = 1 THEN original_sapi_output[module] ELSE Null)
          /\ original_sapi_output' = [original_sapi_output EXCEPT ![module] = Null]
      BY <1>2 DEF global_shutdown
    <2>2. original_sapi_output[module] \in {Null, Native}
      OBVIOUS
    <2>3. Null \notin Modules /\ Native \notin Modules
      OBVIOUS
    <2> QED BY <2>1, <2>2, <2>3
  <1> QED BY <1>1, <1>2

\* The steps of a thread, but for those that start and end it.
Steps(t) ==
    \/ Write(t) \/ zend_set_global(t) \/ get_mutex(t) \/ tsrm_mutex_alloc(t)
    \/ reset_mutex_return(t) \/ tsrm_mutex_lock(t) \/ Call(t) \/ tsrm_mutex_unlock(t)
    \/ SetRaises(t)

LEMMA StepFrame ==
    ASSUME Typed, NEW t \in Threads, Steps(t)
    PROVE  /\ UNCHANGED <<fixed, module_vars, ub_write, globals>>
           /\ pc[t] \in Pc \ {"none", "gone"} /\ pc'[t] \in Pc \ {"none", "gone"}
           /\ pc' = [pc EXCEPT ![t] = pc'[t]]
           /\ conduct \subseteq conduct' /\ ~over /\ ~fault
  <1> USE DEF Typed, TypeOK, Pc, At, Goto, Mutexed, Does, When, Leave
  <1>1. CASE Write(t) \/ zend_set_global(t)
    BY <1>1 DEF Write, zend_set_global
  <1>2. CASE get_mutex(t) \/ tsrm_mutex_alloc(t) \/ reset_mutex_return(t)
    BY <1>2 DEF get_mutex, tsrm_mutex_alloc, reset_mutex_return
  <1>3. CASE tsrm_mutex_lock(t) \/ Call(t)
    BY <1>3 DEF tsrm_mutex_lock, Call
  <1>4. CASE tsrm_mutex_unlock(t) \/ SetRaises(t)
    BY <1>4 DEF tsrm_mutex_unlock, SetRaises
  <1> QED BY <1>1, <1>2, <1>3, <1>4 DEF Steps

LEMMA StepTypes ==
    ASSUME Typed, NEW t \in Threads, Steps(t)
    PROVE  TypeOK'
  <1> USE ThreadsAssumption DEF TypeOK, At, Goto, Mutexed, Does, When, Leave
  <1>0. /\ TypeOK /\ UNCHANGED <<fixed, module_vars, ub_write, globals>>
        /\ pc' \in [Threads -> Pc] /\ Core(t) \in Threads
        /\ Null \in Hook /\ Null \notin Mutexes
    BY StepFrame DEF Typed, Core, Hook, Mutexes
  <1> HIDE DEF Hook, Mutexes, Modules
  <1> USE DEF fixed, module_vars, mutex_vars
  <1>1. CASE Write(t) \/ zend_set_global(t)
    <2>1. fault' \in BOOLEAN
      BY <1>0, <1>1, Zenon DEF Write, zend_set_global
    <2>2. CASE Write(t)
      BY <1>0, <2>1, <2>2 DEF Write
    <2>3. CASE zend_set_global(t)
      BY <1>0, <2>1, <2>3 DEF zend_set_global
    <2> QED BY <1>1, <2>2, <2>3
  <1>2. CASE get_mutex(t) \/ reset_mutex_return(t)
    BY <1>0, <1>2 DEF get_mutex, reset_mutex_return
  <1>3. CASE tsrm_mutex_alloc(t)
    <2>1. allocated' \in 0..MaxMutexes /\ allocated' \in Mutexes
      BY <1>0, <1>3 DEF tsrm_mutex_alloc, Mutexes
    <2> QED BY <1>0, <1>3, <2>1 DEF tsrm_mutex_alloc
  <1>4. CASE tsrm_mutex_lock(t) \/ Call(t)
    <2>1. fault' \in BOOLEAN
      BY <1>0, <1>4, Zenon DEF tsrm_mutex_lock, Call
    <2>2. CASE tsrm_mutex_lock(t)
      BY <1>0, <2>1, <2>2 DEF tsrm_mutex_lock
    <2>3. CASE Call(t)
      BY <1>0, <2>1, <2>3 DEF Call
    <2> QED BY <1>4, <2>2, <2>3
  <1>5. CASE tsrm_mutex_unlock(t)
    BY <1>0, <1>5 DEF tsrm_mutex_unlock
  <1>6. CASE SetRaises(t)
    BY <1>0, <1>6 DEF SetRaises, Deeds
  <1> QED BY <1>1, <1>2, <1>3, <1>4, <1>5, <1>6 DEF Steps

\* The steps of the module, and of threads that start and end.
LEMMA TypedStep == Typed /\ [Next]_vars => Typed'
  <1> SUFFICES ASSUME Typed, [Next]_vars PROVE Typed'
    OBVIOUS
  <1> USE ThreadsAssumption
  <1>1. ASSUME NEW boots \in BOOLEAN, Construct(boots) PROVE Typed'
    <2> DEFINE o == created + 1
    <2>1. o \in Modules /\ created' = o /\ created' \in 0..MaxModules /\ module' = o /\ ub_write' = o
          /\ ub_write \in {Null, Native}
      BY <1>1 DEF Construct, Typed, TypeOK, GlobalsInv, Modules, Hook
    <2>2. original_sapi_output' = [original_sapi_output EXCEPT ![o] = ub_write]
      BY <1>1 DEF Construct, Saved
    <2>3. Null \notin Modules
      BY DEF Modules
    <2> HIDE DEF o
    <2>4. original_sapi_output' \in [Modules -> {Null, Native}]
      BY <2>1, <2>2 DEF Typed, TypeOK
    <2>5. conduct' \subseteq Deeds /\ over' \in BOOLEAN
      BY <1>1 DEF Construct, Does, When, Deeds, Typed, TypeOK
    <2>6. /\ globals' = {t \in Threads : pc[t] \notin {"none", "gone"}} /\ pc' = pc
          /\ UNCHANGED <<fixed, mutex_vars, thread_vars, fault>>
      BY <1>1 DEF Construct, thread_vars
    <2>7. TypeOK'
      BY <2>1, <2>4, <2>5, <2>6 DEF Typed, TypeOK, Hook, fixed, mutex_vars, thread_vars
    <2>8. GlobalsInv'
      BY <2>1, <2>3, <2>6 DEF Typed, GlobalsInv, Alive
    <2> QED BY <2>7, <2>8 DEF Typed
  <1>2. ASSUME module_destructor PROVE Typed'
    <2>1. /\ ub_write' \in Hook /\ original_sapi_output' \in [Modules -> {Null, Native}]
          /\ ub_write' \notin Modules
      BY <1>2, HasGlobals, ShutdownTypes DEF module_destructor
    <2>2. /\ module' = Null /\ globals' = {} /\ conduct' \subseteq Deeds
          /\ UNCHANGED <<fixed, created, mutex_vars, thread_vars, fault, over>>
      BY <1>2 DEF module_destructor, Does, When, Deeds, Typed, TypeOK
    <2> QED BY <2>1, <2>2 DEF Typed, TypeOK, GlobalsInv, Alive, fixed, mutex_vars, thread_vars
  <1>3. ASSUME EndRequest PROVE Typed'
    BY <1>3 DEF EndRequest, Typed, TypeOK, GlobalsInv, Alive, fixed, module_vars, mutex_vars,
                thread_vars
  <1>4. ASSUME NEW t \in Threads, thread_startup(t) PROVE Typed'
    <2>1. conduct' \subseteq Deeds
      BY <1>4 DEF thread_startup, Does, When, Deeds, Typed, TypeOK
    <2> QED BY <1>4, <2>1 DEF thread_startup, At, Goto, Typed, TypeOK, GlobalsInv, Alive, Pc,
                              fixed, module_vars, mutex_vars
  <1>5. ASSUME NEW t \in Threads, thread_shutdown(t) PROVE Typed'
    <2>1. t # Main /\ pc[t] = "idle" /\ pc' = [pc EXCEPT ![t] = "gone"]
          /\ globals' = globals \ {t}
          /\ UNCHANGED <<fixed, module, created, mutex_vars, task, mutex, fault, over>>
      BY <1>5 DEF thread_shutdown, Workers, At, Goto
    <2>2. CASE t \in globals
      <3>1. module # Null /\ global_shutdown(1) /\ conduct' = conduct \cup {"many"}
        BY <1>5, <2>2 DEF thread_shutdown, Does, Typed, GlobalsInv
      <3>2. ub_write' \in Hook /\ original_sapi_output' \in [Modules -> {Null, Native}]
        BY <3>1, ShutdownTypes
      <3> QED BY <2>1, <3>1, <3>2
              DEF Typed, TypeOK, GlobalsInv, Alive, Pc, Deeds, fixed, mutex_vars
    <2>3. CASE t \notin globals
      BY <1>5, <2>1, <2>3 DEF thread_shutdown, Typed, TypeOK, GlobalsInv, Alive, Pc, fixed, mutex_vars
    <2> QED BY <2>2, <2>3
  <1>6. ASSUME NEW t \in Threads, Steps(t) PROVE Typed'
    <2>1. GlobalsInv'
      BY <1>6, StepFrame DEF Typed, TypeOK, GlobalsInv, Alive, module_vars
    <2> QED BY <1>6, <2>1, StepTypes DEF Typed
  <1>7. CASE UNCHANGED vars
    BY <1>7 DEF vars, Typed, TypeOK, GlobalsInv, Alive, fixed, module_vars, mutex_vars, thread_vars
  <1> QED BY <1>1, <1>2, <1>3, <1>4, <1>5, <1>6, <1>7 DEF Next, Advance, Steps

LEMMA TypedInvariant == Spec => []Typed
  <1>1. Init => Typed
    <2> SUFFICES ASSUME Init PROVE Typed
      OBVIOUS
    <2>1. /\ module = Null /\ created \in 0..MaxModules /\ allocated \in 0..MaxMutexes
          /\ ub_write \in Hook /\ ub_write \notin Modules /\ Null \in Hook
      BY ThreadsAssumption DEF Init, Hook, Modules
    <2>2. /\ pc \in [Threads -> Pc] /\ pc[Main] = "idle"
      BY ThreadsAssumption DEF Init, Pc
    <2>3. TypeOK
      BY <2>1, <2>2 DEF Init, TypeOK, Deeds
    <2> QED BY <2>1, <2>2, <2>3 DEF Init, Typed, GlobalsInv, Alive
  <1> QED BY <1>1, TypedStep, PTL DEF Spec

\* Every variable of ThreadsModule keeps its type, for any number of threads,
\* modules and mutexes.
THEOREM TypeCorrect == Spec => []TypeOK
  BY TypedInvariant, PTL DEF Typed

-----------------------------------------------------------------------------
(* The output.                                                             *)

\* A thread that is not busy holds nothing, nor does one in the SAPI's output.
ThreadInv ==
    \A t \in Threads :
        /\ pc[t] \in {"none", "idle", "gone"} => task[t] = Null /\ mutex[t] = Null
        /\ task[t] = Native => pc[t] = "inside" /\ mutex[t] = Null

\* The steps that leave what threads hold alone: those of the module.
ModuleSteps ==
    \/ \E boots \in BOOLEAN : Construct(boots)
    \/ module_destructor \/ EndRequest \/ UNCHANGED vars

LEMMA ModuleFrame ==
    ASSUME ModuleSteps
    PROVE  UNCHANGED <<fixed, thread_vars, mutex_vars>> /\ fault' = fault
  BY DEF ModuleSteps, Construct, module_destructor, EndRequest, vars, fixed, thread_vars, mutex_vars

LEMMA EndsFrame ==
    ASSUME Typed, NEW t \in Threads, thread_startup(t) \/ thread_shutdown(t)
    PROVE  /\ UNCHANGED <<fixed, task, mutex, mutex_vars, fault>>
           /\ module' = module
           /\ pc[t] \in {"none", "idle"} /\ pc' = [pc EXCEPT ![t] = pc'[t]]
           /\ pc'[t] \in {"idle", "gone"} /\ ~fault /\ conduct \subseteq conduct'
  BY DEF thread_startup, thread_shutdown, At, Goto, Typed, TypeOK, Does, When, module_vars

LEMMA ThreadStep == Typed /\ ThreadInv /\ [Next]_vars => ThreadInv'
  <1> SUFFICES ASSUME Typed, ThreadInv, [Next]_vars PROVE ThreadInv'
    OBVIOUS
  <1> USE DEF ThreadInv
  <1>1. CASE ModuleSteps
    BY <1>1, ModuleFrame DEF thread_vars
  <1>2. ASSUME NEW t \in Threads, thread_startup(t) \/ thread_shutdown(t) PROVE ThreadInv'
    BY <1>2, EndsFrame DEF Typed, TypeOK
  <1>3. ASSUME NEW t \in Threads, Steps(t) PROVE ThreadInv'
    <2> USE ThreadsAssumption DEF Typed, TypeOK, At, Goto, Leave
    <2>1. CASE Write(t)
      BY <2>1 DEF Write, Modules
    <2>2. CASE zend_set_global(t)
      BY <2>2 DEF zend_set_global
    <2>3. CASE get_mutex(t) \/ tsrm_mutex_alloc(t) \/ reset_mutex_return(t)
      BY <2>3 DEF get_mutex, tsrm_mutex_alloc, reset_mutex_return
    <2>4. CASE tsrm_mutex_lock(t) \/ Call(t)
      BY <2>4 DEF tsrm_mutex_lock, Call
    <2>5. CASE tsrm_mutex_unlock(t) \/ SetRaises(t)
      BY <2>5 DEF tsrm_mutex_unlock, SetRaises
    <2> QED BY <1>3, <2>1, <2>2, <2>3, <2>4, <2>5 DEF Steps
  <1> QED BY <1>1, <1>2, <1>3 DEF Next, Advance, Steps, ModuleSteps

\* Unless a worker's globals are freed, there are no workers without a module,
\* and the closures that threads are in are its.
OutputInv ==
    "many" \notin conduct =>
        /\ ~fault
        /\ IF module = Null THEN ub_write = Native
           ELSE ub_write = module /\ original_sapi_output[module] = Native
        /\ module = Null => \A t \in Workers : ~Alive(t)
        /\ \A t \in Threads : /\ task[t] \in Modules => task[t] = module
                              /\ task[t] = Native => module = Null

LEMMA OutputStep == Typed /\ ThreadInv /\ OutputInv /\ [Next]_vars => OutputInv'
  <1> SUFFICES ASSUME Typed, ThreadInv, OutputInv, [Next]_vars, "many" \notin conduct'
               PROVE  OutputInv'
    BY DEF OutputInv
  <1> USE ThreadsAssumption
  <1>0. Null \notin Modules /\ Native \notin Modules /\ module \in Modules \cup {Null}
    BY DEF Modules, Typed, TypeOK
  <1>1. ASSUME NEW boots \in BOOLEAN, Construct(boots) PROVE OutputInv'
    <2> DEFINE o == created + 1
    <2>1. /\ o \in Modules /\ module' = o /\ ub_write' = o /\ module = Null
          /\ original_sapi_output' = [original_sapi_output EXCEPT ![o] = ub_write]
          /\ "many" \notin conduct /\ UNCHANGED <<thread_vars, fault>> /\ pc[Main] = "idle"
      BY <1>1 DEF Construct, Saved, Modules, Typed, TypeOK, Does, At
    <2> HIDE DEF o
    <2>2. ub_write' = o /\ original_sapi_output'[o] = Native
      BY <2>1 DEF OutputInv, Typed, TypeOK
    <2>3. \A t \in Threads : task[t] \notin Modules /\ task[t] # Native
      <3>1. task[Main] = Null
        BY <2>1 DEF ThreadInv
      <3>2. \A t \in Workers : task[t] = Null
        BY <2>1 DEF OutputInv, ThreadInv, Alive, Workers
      <3> QED BY <1>0, <3>1, <3>2 DEF Workers
    <2> QED BY <1>0, <2>1, <2>2, <2>3 DEF OutputInv, thread_vars
  <1>2. ASSUME module_destructor PROVE OutputInv'
    <2>1. /\ "many" \notin conduct /\ globals = {Main} /\ module # Null /\ module' = Null
          /\ ~target_persistent /\ pc[Main] = "idle" /\ global_shutdown(Cardinality(globals))
          /\ UNCHANGED <<thread_vars, fault>>
      BY <1>2 DEF module_destructor, Does, When, At
    <2>2. Cardinality(globals) = 1
      BY <2>1, FS_Singleton
    <2>3. ub_write' = Native
      BY <2>1, <2>2 DEF global_shutdown, OutputInv
    <2>4. \A t \in Workers : ~Alive(t)
      BY <2>1 DEF Typed, GlobalsInv, Workers
    <2>5. \A t \in Threads : task[t] = Null
      BY <2>1, <2>4 DEF ThreadInv, Alive, Workers
    <2> QED BY <1>0, <2>1, <2>3, <2>4, <2>5 DEF OutputInv, thread_vars, Alive
  <1>3. CASE EndRequest \/ UNCHANGED vars
    BY <1>3 DEF EndRequest, vars, OutputInv, module_vars, thread_vars, Alive
  <1>4. ASSUME NEW t \in Threads, thread_startup(t) PROVE OutputInv'
    <2>1. /\ "many" \notin conduct /\ module # Null
          /\ UNCHANGED <<module_vars, ub_write, task, fault>>
      BY <1>4, EndsFrame DEF thread_startup
    <2> QED BY <2>1 DEF OutputInv, module_vars
  <1>5. ASSUME NEW t \in Threads, thread_shutdown(t) PROVE OutputInv'
    <2>1. "many" \notin conduct /\ t \in Workers /\ pc[t] = "idle" /\ t \notin globals
      BY <1>5, EndsFrame DEF thread_shutdown, At, Does
    <2>2. FALSE
      BY <2>1 DEF OutputInv, Typed, GlobalsInv, Alive
    <2> QED BY <2>2
  <1>6. ASSUME NEW t \in Threads, Steps(t) PROVE OutputInv'
    <2>1. /\ UNCHANGED <<module, original_sapi_output, ub_write>>
          /\ "many" \notin conduct
          /\ \A u \in Threads : Alive(u)' <=> Alive(u)
      BY <1>6, StepFrame DEF module_vars, Alive, Typed, TypeOK
    <2>2. ~fault' /\ \A u \in Threads : /\ task'[u] \in Modules => task'[u] = module
                                        /\ task'[u] = Native => module = Null
      <3> USE <1>0, <2>1 DEF OutputInv, Typed, TypeOK, At, Goto, Leave
      <3>1. CASE Write(t)
        BY <3>1 DEF Write
      <3>2. CASE zend_set_global(t)
        BY <3>2 DEF zend_set_global
      <3>3. CASE get_mutex(t) \/ tsrm_mutex_alloc(t) \/ reset_mutex_return(t)
        BY <3>3 DEF get_mutex, tsrm_mutex_alloc, reset_mutex_return
      <3>4. CASE tsrm_mutex_lock(t)
        BY <3>4 DEF tsrm_mutex_lock
      <3>5. CASE Call(t)
        BY <3>5 DEF Call
      <3>6. CASE tsrm_mutex_unlock(t) \/ SetRaises(t)
        BY <3>6 DEF tsrm_mutex_unlock, SetRaises
      <3> QED BY <1>6, <3>1, <3>2, <3>3, <3>4, <3>5, <3>6 DEF Steps
    <2>3. module' = Null => \A u \in Workers : pc'[u] \in {"none", "gone"}
      BY <2>1 DEF OutputInv, Workers, Alive
    <2>4. ~fault' /\ IF module' = Null THEN ub_write' = Native
                     ELSE ub_write' = module' /\ original_sapi_output'[module'] = Native
      BY <2>1, <2>2 DEF OutputInv
    <2>5. \A u \in Threads : /\ task'[u] \in Modules => task'[u] = module'
                             /\ task'[u] = Native => module' = Null
      <3>1. module' = module
        BY <2>1
      <3> QED BY <2>2, <3>1
    <2> QED BY <2>3, <2>4, <2>5 DEF OutputInv, Alive
  <1> QED BY <1>1, <1>2, <1>3, <1>4, <1>5, <1>6 DEF Next, Advance, Steps

LEMMA ThreadInvariant == Spec => []ThreadInv
  <1>1. Init => ThreadInv
    BY ThreadsAssumption DEF Init, ThreadInv
  <1> QED BY <1>1, ThreadStep, TypedInvariant, PTL DEF Spec

LEMMA OutputInvariant == Spec => []OutputInv
  <1>1. Init => OutputInv
    BY ThreadsAssumption DEF Init, OutputInv, Workers, Alive, Modules
  <1> QED BY <1>1, OutputStep, ThreadInvariant, TypedInvariant, PTL DEF Spec

\* The SAPI's output is its closure's while there is a module, and its own again
\* afterwards, and no thread calls a null pointer, unless global_shutdown() was
\* called for a worker's globals; for any number of threads.
THEOREM OutputRestored == Spec => []Restored
  <1>1. OutputInv => Restored
    BY DEF OutputInv, Restored
  <1> QED BY <1>1, OutputInvariant, PTL

-----------------------------------------------------------------------------
(* The mutex.                                                              *)

LEMMA LockStep == Typed /\ ThreadInv /\ LockedInside /\ [Next]_vars => LockedInside'
  <1> SUFFICES ASSUME Typed, ThreadInv, LockedInside, [Next]_vars, "raised" \notin conduct'
               PROVE  LockedInside'
    BY DEF LockedInside
  <1> USE ThreadsAssumption
  <1>1. CASE ModuleSteps
    <2>1. "raised" \notin conduct
      BY <1>1 DEF ModuleSteps, Construct, module_destructor, EndRequest, vars, Does
    <2> QED BY <1>1, <2>1, ModuleFrame DEF LockedInside, thread_vars, mutex_vars
  <1>2. ASSUME NEW t \in Threads, thread_startup(t) \/ thread_shutdown(t) PROVE LockedInside'
    <2>1. /\ UNCHANGED <<owner, mutex>> /\ pc[t] \in {"none", "idle"}
          /\ \A u \in Threads : u # t => pc'[u] = pc[u]
          /\ "raised" \notin conduct
      BY <1>2, EndsFrame DEF mutex_vars, Typed, TypeOK
    <2>2. \A m \in Mutexes : owner[m] # Null => owner[m] \in Threads /\ owner[m] # t
      BY <2>1 DEF LockedInside, Typed, TypeOK
    <2> QED BY <2>1, <2>2 DEF LockedInside
  <1>3. ASSUME NEW t \in Threads, Steps(t) PROVE LockedInside'
    <2>1. /\ "raised" \notin conduct /\ \A u \in Threads : u # t => pc'[u] = pc[u]
          /\ \A m \in Mutexes : owner[m] # Null => owner[m] \in Threads
      BY <1>3, StepFrame DEF Typed, TypeOK
    <2> USE <2>1 DEF At, Goto, Leave
    <2>2. CASE Write(t) \/ zend_set_global(t) \/ get_mutex(t) \/ tsrm_mutex_alloc(t) \/ reset_mutex_return(t)
      <3>1. /\ pc[t] \notin {"locked", "inside"} /\ owner' = owner
            /\ \A u \in Threads : u # t => mutex'[u] = mutex[u]
        BY <2>2 DEF Write, zend_set_global, get_mutex, tsrm_mutex_alloc, reset_mutex_return,
                    mutex_vars, Typed, TypeOK
      <3>2. \A m \in Mutexes : owner[m] # Null => owner[m] # t
        BY <3>1 DEF LockedInside
      <3> QED BY <3>1, <3>2 DEF LockedInside
    <2>3. CASE tsrm_mutex_lock(t)
      <3>1. /\ owner' = [owner EXCEPT ![mutex[t]] = t] /\ mutex' = mutex /\ pc'[t] = "locked"
            /\ pc[t] = "lock"
        BY <2>3 DEF tsrm_mutex_lock, Typed, TypeOK
      <3>2. \A m \in Mutexes : owner[m] # Null => owner[m] # t
        BY <3>1 DEF LockedInside
      <3> QED BY <3>1, <3>2 DEF LockedInside, Typed, TypeOK
    <2>4. CASE Call(t)
      <3>1. pc'[t] = "inside" /\ UNCHANGED <<owner, mutex>>
        BY <2>4 DEF Call, mutex_vars, Typed, TypeOK
      <3> QED BY <3>1 DEF LockedInside
    <2>5. CASE tsrm_mutex_unlock(t)
      <3>1. /\ owner' = IF task[t] = Native THEN owner ELSE [owner EXCEPT ![mutex[t]] = Null]
            /\ \A u \in Threads : u # t => mutex'[u] = mutex[u]
        BY <2>5 DEF tsrm_mutex_unlock, Typed, TypeOK
      <3>2. \A m \in Mutexes : owner[m] = t => m = mutex[t] /\ task[t] # Native
        BY DEF LockedInside, ThreadInv, Mutexes
      <3>3. \A m \in Mutexes : owner'[m] # Null => owner[m] = owner'[m] /\ owner'[m] # t
        BY <3>1, <3>2 DEF Typed, TypeOK
      <3> QED BY <3>1, <3>3 DEF LockedInside
    <2>6. CASE SetRaises(t)
      BY <2>6 DEF SetRaises, Does
    <2> QED BY <1>3, <2>2, <2>3, <2>4, <2>5, <2>6 DEF Steps
  <1> QED BY <1>1, <1>2, <1>3 DEF Next, Advance, Steps, ModuleSteps

\* A mutex is locked only by a thread that will unlock it, unless setting a
\* global failed; for any number of threads and of mutexes.
THEOREM MutexHeld == Spec => []LockedInside
  <1>1. Init => LockedInside
    BY DEF Init, LockedInside
  <1> QED BY <1>1, LockStep, ThreadInvariant, TypedInvariant, PTL DEF Spec

\* The thread that has locked its mutex owns it.
OwnerInv == ~fault =>
    \A t \in Threads : pc[t] \in {"locked", "inside"} /\ task[t] # Native =>
        mutex[t] \in Mutexes /\ owner[mutex[t]] = t

\* Where threads share the class Core, it has no mutex only while the main
\* thread is the only one, and has one for good when others have started.
SharedInv ==
    shared = TRUE /\ "late" \notin conduct /\ "many" \notin conduct =>
        /\ global_mutex[Main] = Null => \A t \in Workers : pc[t] = "none"
        /\ \A t \in Threads : pc[t] \in {"alloc", "return"} =>
               t = Main /\ \A u \in Workers : pc[u] = "none"
        /\ \A t \in Threads : /\ pc[t] = "return" => global_mutex[Main] # Null
                              /\ pc[t] \in {"lock", "locked", "inside"} /\ task[t] # Native =>
                                    mutex[t] = global_mutex[Main] /\ mutex[t] # Null

\* A thread takes the mutex it was given, which is there.
GivenInv ==
    \A t \in Threads : /\ pc[t] = "return" => global_mutex[Core(t)] # Null
                       /\ pc[t] = "lock" => mutex[t] \in Mutexes

LEMMA GivenStep == Typed /\ GivenInv /\ OwnerInv /\ ThreadInv /\ [Next]_vars => GivenInv' /\ OwnerInv'
  <1> SUFFICES ASSUME Typed, GivenInv, OwnerInv, ThreadInv, [Next]_vars PROVE GivenInv' /\ OwnerInv'
    OBVIOUS
  <1> USE ThreadsAssumption
  <1>0. Null \notin Mutexes /\ \A t \in Threads : Core(t) \in Threads
    BY DEF Mutexes, Core
  <1>1. CASE ModuleSteps
    BY <1>1, ModuleFrame DEF GivenInv, OwnerInv, Core, fixed, thread_vars, mutex_vars
  <1>2. ASSUME NEW t \in Threads, thread_startup(t) \/ thread_shutdown(t) PROVE GivenInv' /\ OwnerInv'
    <2>1. /\ UNCHANGED <<owner, mutex, global_mutex, shared, task, fault>> /\ pc'[t] \in {"idle", "gone"}
          /\ \A u \in Threads : u # t => pc'[u] = pc[u]
      BY <1>2, EndsFrame DEF mutex_vars, fixed, Typed, TypeOK
    <2> QED BY <2>1 DEF GivenInv, OwnerInv, Core
  <1>3. ASSUME NEW t \in Threads, Steps(t) PROVE GivenInv' /\ OwnerInv'
    <2>1. shared' = shared /\ \A u \in Threads : u # t => pc'[u] = pc[u]
      BY <1>3, StepFrame DEF Typed, TypeOK, fixed
    <2> USE <1>0, <2>1 DEF At, Goto, Leave, Typed, TypeOK, Pc, mutex_vars
    <2>2. CASE Write(t) \/ zend_set_global(t)
      <3>1. /\ UNCHANGED <<owner, mutex, global_mutex>>
            /\ \A u \in Threads : u # t => task'[u] = task[u]
            /\ pc'[t] \notin {"return", "lock", "locked"} /\ ~fault
            /\ ~fault' /\ pc'[t] = "inside" => task'[t] = Native
        <4>1. CASE Write(t)
          BY <4>1 DEF Write, Hook
        <4>2. CASE zend_set_global(t)
          BY <4>2 DEF zend_set_global
        <4> QED BY <2>2, <4>1, <4>2
      <3> QED BY <3>1 DEF GivenInv, OwnerInv, Core
    <2>3. CASE get_mutex(t)
      BY <2>3 DEF get_mutex, GivenInv, OwnerInv, Core
    <2>4. CASE tsrm_mutex_alloc(t)
      <3>1. /\ allocated' \in Mutexes /\ pc'[t] = "return" /\ UNCHANGED <<owner, mutex, task, fault>>
            /\ global_mutex' = [global_mutex EXCEPT ![Core(t)] = allocated']
        BY <2>4 DEF tsrm_mutex_alloc, Mutexes
      <3> QED BY <3>1 DEF GivenInv, OwnerInv, Core
    <2>5. CASE reset_mutex_return(t)
      <3>1. /\ pc'[t] = "lock" /\ UNCHANGED <<owner, task, fault, global_mutex>>
            /\ mutex' = [mutex EXCEPT ![t] = global_mutex[Core(t)]] /\ pc[t] = "return"
        BY <2>5 DEF reset_mutex_return
      <3>2. global_mutex[Core(t)] \in Mutexes
        <4>1. global_mutex[Core(t)] \in Mutexes \cup {Null}
          OBVIOUS
        <4>2. global_mutex[Core(t)] # Null
          BY <3>1 DEF GivenInv
        <4> QED BY <4>1, <4>2
      <3>3. mutex'[t] \in Mutexes /\ \A u \in Threads : u # t => mutex'[u] = mutex[u]
        BY <3>1, <3>2
      <3> QED BY <3>1, <3>3 DEF GivenInv, OwnerInv, Core
    <2>6. CASE tsrm_mutex_lock(t)
      BY <2>6 DEF tsrm_mutex_lock, GivenInv, OwnerInv, Core
    <2>7. CASE Call(t)
      BY <2>7 DEF Call, GivenInv, OwnerInv, Core
    <2>8. CASE tsrm_mutex_unlock(t)
      BY <2>8 DEF tsrm_mutex_unlock, GivenInv, OwnerInv, Core
    <2>9. CASE SetRaises(t)
      BY <2>9 DEF SetRaises, GivenInv, OwnerInv, Core
    <2> QED BY <1>3, <2>2, <2>3, <2>4, <2>5, <2>6, <2>7, <2>8, <2>9 DEF Steps
  <1> QED BY <1>1, <1>2, <1>3 DEF Next, Advance, Steps, ModuleSteps

LEMMA GivenInvariant == Spec => [](GivenInv /\ OwnerInv)
  <1>1. Init => GivenInv /\ OwnerInv
    BY DEF Init, GivenInv, OwnerInv
  <1> QED BY <1>1, GivenStep, ThreadInvariant, TypedInvariant, PTL DEF Spec

LEMMA SharedStep == Typed /\ ThreadInv /\ OutputInv /\ SharedInv /\ [Next]_vars => SharedInv'
  <1> SUFFICES ASSUME Typed, ThreadInv, OutputInv, SharedInv, [Next]_vars,
                      shared' = TRUE, "late" \notin conduct', "many" \notin conduct'
               PROVE  SharedInv'
    BY DEF SharedInv
  <1> USE ThreadsAssumption
  <1>1. CASE ModuleSteps
    <2>1. conduct \subseteq conduct'
      BY <1>1 DEF ModuleSteps, Construct, module_destructor, EndRequest, vars, Does
    <2> QED BY <1>1, <2>1, ModuleFrame DEF SharedInv, fixed, thread_vars, mutex_vars
  <1>2. ASSUME NEW t \in Threads, thread_startup(t) PROVE SharedInv'
    <2>1. /\ shared = TRUE /\ "late" \notin conduct /\ "many" \notin conduct /\ pc[Main] = "idle" /\ t # Main
          /\ global_mutex[Main] # Null /\ UNCHANGED <<mutex, task, global_mutex>>
          /\ pc'[t] = "idle" /\ \A u \in Threads : u # t => pc'[u] = pc[u]
      BY <1>2, EndsFrame
      DEF thread_startup, Does, When, Core, At, Goto, fixed, mutex_vars, Typed, TypeOK
    <2> QED BY <2>1 DEF SharedInv
  <1>3. ASSUME NEW t \in Threads, thread_shutdown(t) PROVE SharedInv'
    <2>1. /\ shared = TRUE /\ "late" \notin conduct /\ "many" \notin conduct /\ t \in Workers /\ pc[t] = "idle"
          /\ UNCHANGED <<mutex, task, global_mutex>>
          /\ pc'[t] = "gone" /\ \A u \in Threads : u # t => pc'[u] = pc[u]
      BY <1>3, EndsFrame DEF thread_shutdown, At, Goto, fixed, mutex_vars, Typed, TypeOK
    <2> QED BY <2>1 DEF SharedInv
  <1>4. ASSUME NEW t \in Threads, Steps(t) PROVE SharedInv'
    <2>0. /\ shared = TRUE /\ "late" \notin conduct /\ "many" \notin conduct
          /\ pc[t] \notin {"none", "gone"} /\ pc' = [pc EXCEPT ![t] = pc'[t]] /\ ~fault
      BY <1>4, StepFrame DEF fixed
    <2>1. /\ pc \in [Threads -> Pc] /\ task \in [Threads -> Hook]
          /\ mutex \in [Threads -> Mutexes \cup {Null}]
          /\ global_mutex \in [Threads -> Mutexes \cup {Null}]
      BY DEF Typed, TypeOK
    <2>2. /\ \A u \in Threads : u # t => pc'[u] = pc[u]
          /\ Core(t) = Main /\ (t # Main => t \in Workers)
      BY <2>0, <2>1 DEF Core, Workers
    <2>a. /\ pc[t] \notin {"none", "gone"}
          /\ shared = TRUE /\ "late" \notin conduct /\ "many" \notin conduct
      BY <2>0
    <2> USE <2>1, <2>2, <2>a DEF At, Goto, Leave, mutex_vars, Workers
    <2>3. CASE Write(t) \/ zend_set_global(t)
      <3>1. /\ UNCHANGED <<mutex, global_mutex>> /\ \A u \in Threads : u # t => task'[u] = task[u]
            /\ pc'[t] = "get" \/ (pc'[t] = "inside" /\ task'[t] = Native)
        <4>1. CASE Write(t)
          <5>1. ub_write \in Modules \cup {Native}
            BY DEF OutputInv, Typed, TypeOK
          <5> QED BY <4>1, <5>1 DEF Write
        <4>2. CASE zend_set_global(t)
          BY <4>2 DEF zend_set_global
        <4> QED BY <2>3, <4>1, <4>2
      <3> QED BY <3>1 DEF SharedInv
    <2>4. CASE get_mutex(t)
      BY <2>4 DEF get_mutex, SharedInv
    <2>5. CASE tsrm_mutex_alloc(t)
      <3>1. /\ allocated' # Null /\ pc'[t] = "return" /\ pc[t] = "alloc" /\ UNCHANGED <<mutex, task>>
            /\ global_mutex'[Main] = allocated'
        BY <2>5 DEF tsrm_mutex_alloc, Typed, TypeOK
      <3> QED BY <3>1 DEF SharedInv
    <2>6. CASE reset_mutex_return(t)
      BY <2>6 DEF reset_mutex_return, SharedInv
    <2>7. CASE tsrm_mutex_lock(t)
      BY <2>7 DEF tsrm_mutex_lock, SharedInv
    <2>8. CASE Call(t)
      <3>1. pc[t] = "locked" /\ pc'[t] = "inside" /\ UNCHANGED <<mutex, task, global_mutex>>
        BY <2>8 DEF Call
      <3> QED BY <3>1 DEF SharedInv
    <2>9. CASE tsrm_mutex_unlock(t) \/ SetRaises(t)
      <3>1. /\ pc'[t] = "idle" /\ global_mutex' = global_mutex
            /\ \A u \in Threads : u # t => task'[u] = task[u] /\ mutex'[u] = mutex[u]
        BY <2>9 DEF tsrm_mutex_unlock, SetRaises
      <3> QED BY <3>1 DEF SharedInv
    <2> QED BY <1>4, <2>3, <2>4, <2>5, <2>6, <2>7, <2>8, <2>9 DEF Steps
  <1> QED BY <1>1, <1>2, <1>3, <1>4 DEF Next, Advance, Steps, ModuleSteps

\* Output of two threads never mixes, where they share Core, it had its mutex
\* before there were threads, and the module outlived them; for any number.
THEOREM OutputExclusive == Spec => []OneAtATime
  <1>1. Init => SharedInv
    BY ThreadsAssumption DEF Init, SharedInv, Workers
  <1>2. Typed /\ ThreadInv /\ OutputInv /\ OwnerInv /\ SharedInv => OneAtATime
    <2> SUFFICES ASSUME Typed, OutputInv, OwnerInv, SharedInv, ThreadInv,
                        shared = TRUE, "late" \notin conduct, "many" \notin conduct,
                        NEW t \in Threads, NEW u \in Threads, pc[t] = "inside", pc[u] = "inside"
                 PROVE  t = u
      BY DEF OneAtATime
    <2>1. ~fault
      BY DEF OutputInv
    <2>2. CASE task[t] # Native /\ task[u] # Native
      BY <2>1, <2>2 DEF OwnerInv, SharedInv
    <2>3. CASE task[t] = Native \/ task[u] = Native
      <3>1. module = Null
        BY <2>3 DEF OutputInv
      <3>2. \A v \in Workers : pc[v] \in {"none", "gone"}
        BY <3>1 DEF OutputInv, Alive
      <3> QED BY <3>2 DEF Workers
    <2> QED BY <2>2, <2>3
  <1> QED
    BY <1>1, <1>2, SharedStep, GivenInvariant, OutputInvariant, ThreadInvariant, TypedInvariant, PTL
    DEF Spec
=============================================================================
