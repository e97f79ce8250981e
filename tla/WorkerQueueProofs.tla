------------------------- MODULE WorkerQueueProofs -------------------------
(***************************************************************************)
(* Proofs about WorkerQueue, for any number of threads and tasks.  The     *)
(* inductive invariant says that the mutex protects what a push or a pop   *)
(* has read.  The order of the tasks follows; with one consumer, that the  *)
(* queue a worker found is the one it takes from; and for any number of    *)
(* consumers, that a task has one stage after the other (TaskQueue).       *)
(*                                                                         *)
(* The steps are grouped alike in all proofs: taking the mutex, adding,    *)
(* reading and writing the queue, setting a result, giving the mutex back, *)
(* the end of a routine or of a pop() that throws, workers starting and    *)
(* looking, the program, and what ends the process or does nothing.        *)
(***************************************************************************)
EXTENDS WorkerQueue, SequenceTheorems, TLAPS

\* Every step keeps the types; a push has a task to add and a pop finds one.
LEMMA TypeStep ==
    ASSUME TypeOK, SeenInv, TaskInv, [Next]_vars PROVE TypeOK'
  <1>1. ASSUME NEW t \in Threads, Lock(t) PROVE TypeOK'
    BY <1>1 DEF TypeOK, Pc, Critical, Locking, Lock, Acquired, Go, work, history
  <1>2. ASSUME NEW t \in Threads, Add(t) PROVE TypeOK'
    <2>1. added' \in Tasks
      BY <1>2, BoundAssumption DEF TypeOK, Add, Tasks
    <2>2. added' \in 0 .. MaxTasks /\ adding' \in [Threads -> Tasks \cup {NoOne}]
      BY <1>2, <2>1 DEF TypeOK, Add, Tasks
    <2> QED BY <1>2, <2>2 DEF TypeOK, Pc, Locking, Add, Go, history
  <1>3. ASSUME NEW t \in Threads, Push(t) \/ Pop(t) PROVE TypeOK'
    BY <1>3 DEF TypeOK, Pc, Critical, Push, Pop, Go, history
  <1>4. ASSUME NEW t \in Threads, PushWrite(t) PROVE TypeOK'
    BY <1>4 DEF TypeOK, SeenInv, Adding, Pc, Critical, PushWrite, At, Go
  <1>5. ASSUME NEW t \in Threads, PopWrite(t) PROVE TypeOK'
    <2>1. seen[t] \in Seq(Tasks) /\ seen[t] # << >>
      BY <1>5 DEF TypeOK, SeenInv, PopWrite, At
    <2>2. Head(seen[t]) \in Tasks /\ Tail(seen[t]) \in Seq(Tasks)
      BY <2>1, HeadTailProperties
    <2>3. queue' \in Seq(Tasks) /\ taken' \in Seq(Tasks)
      BY <1>5, <2>2 DEF TypeOK, PopWrite
    <2>4. task' \in [Threads -> Tasks \cup {NoOne}] /\ pc' \in [Threads -> Pc]
      BY <1>5, <2>2 DEF TypeOK, PopWrite, Taken, Go, Pc, Critical
    <2> QED BY <1>5, <2>3, <2>4 DEF TypeOK, PopWrite
  <1>6. ASSUME NEW t \in Threads, Set(t) PROVE TypeOK'
    BY <1>6 DEF TypeOK, TaskInv, Pc, Critical, Set, At, Go, history
  <1>7. ASSUME NEW t \in Threads, PushUnlock(t) \/ PopUnlock(t) \/ SetUnlock(t) PROVE TypeOK'
    BY <1>7 DEF TypeOK, Pc, PushUnlock, PopUnlock, SetUnlock, Released, Go, Caller, Home,
                work, history
  <1>8. ASSUME NEW t \in Threads,
               RoutineReturns(t) \/ RoutineFails(t) \/ RoutineThrows(t) \/ PopThrows(t)
        PROVE  TypeOK'
    BY <1>8 DEF TypeOK, Pc, Locking, RoutineReturns, RoutineFails, RoutineThrows, PopThrows,
                Throws, At, Go, Home, work, history
  <1>9. ASSUME NEW w \in Workers,
               CreateEx(w) \/ Start(w) \/ Create(w) \/ Wait(w) \/ Check(w)
        PROVE  TypeOK'
    BY <1>9 DEF TypeOK, Threads, Pc, Locking, CreateEx, Start, Create, Wait, Check, Go,
                work, history
  <1>10. CASE Execute \/ EndProgram \/ Drain \/ Free
    BY <1>10 DEF TypeOK, Threads, Pc, Locking, Execute, EndProgram, Drain, Free, Go,
                 work, history
  <1>11. CASE (\E w \in Workers : StartupThrows(w) \/ Fault(w)) \/ Exit \/ UNCHANGED vars
    BY <1>11 DEF TypeOK, StartupThrows, Fault, Exit, vars, work, history
  <1> QED BY <1>1, <1>2, <1>3, <1>4, <1>5, <1>6, <1>7, <1>8, <1>9, <1>10, <1>11
          DEF Next, Library, Loop, Destructor, Terminated

\* A thread inside push(), pop() or set() holds the mutex.
LEMMA MutexStep ==
    ASSUME TypeOK, MutexInv, [Next]_vars PROVE MutexInv'
  <1>1. ASSUME NEW t \in Threads, Lock(t) PROVE MutexInv'
    BY <1>1, ThreadAssumption DEF TypeOK, MutexInv, Lock, Acquired, Go
  <1>2. ASSUME NEW t \in Threads,
               Push(t) \/ PushWrite(t) \/ Pop(t) \/ PopWrite(t) \/ PopThrows(t) \/ Set(t)
        PROVE  MutexInv'
    <2>1. pc[t] \in Critical /\ mutex' = mutex
      BY <1>2 DEF Push, PushWrite, Pop, PopWrite, PopThrows, Set, At, Critical
    <2>2. \A s \in Threads : s = t \/ pc'[s] = pc[s]
      BY <1>2 DEF TypeOK, Push, PushWrite, Pop, PopWrite, PopThrows, Throws, Set, Go
    <2> QED BY <2>1, <2>2 DEF MutexInv
  <1>3. ASSUME NEW t \in Threads, PushUnlock(t) \/ PopUnlock(t) \/ SetUnlock(t) PROVE MutexInv'
    <2>1. pc[t] \in Critical /\ pc'[t] \notin Critical
      BY <1>3 DEF TypeOK, PushUnlock, PopUnlock, SetUnlock, At, Go, Caller, Home, Critical
    <2>2. \A s \in Threads : s = t \/ pc'[s] = pc[s]
      BY <1>3 DEF TypeOK, PushUnlock, PopUnlock, SetUnlock, Go
    <2> QED BY <2>1, <2>2, ThreadAssumption DEF MutexInv
  <1>4. CASE /\ mutex' = mutex
             /\ \A s \in Threads : pc'[s] \in Critical => pc[s] \in Critical
    BY <1>4 DEF MutexInv
  <1>5. ASSUME NEW t \in Threads,
               Add(t) \/ RoutineReturns(t) \/ RoutineFails(t) \/ RoutineThrows(t)
        PROVE  MutexInv'
    BY <1>4, <1>5 DEF TypeOK, Critical, Add, RoutineReturns, RoutineFails, RoutineThrows,
                      Throws, Home, Go
  <1>6. ASSUME NEW w \in Workers,
               CreateEx(w) \/ Start(w) \/ Create(w) \/ Wait(w) \/ Check(w)
        PROVE  MutexInv'
    BY <1>4, <1>6 DEF TypeOK, Threads, Critical, CreateEx, Start, Create, Wait, Check, Go
  <1>7. CASE Execute \/ EndProgram \/ Drain \/ Free
    BY <1>4, <1>7 DEF TypeOK, Threads, Critical, Execute, EndProgram, Drain, Free, Go
  <1>8. CASE (\E w \in Workers : StartupThrows(w) \/ Fault(w)) \/ Exit \/ UNCHANGED vars
    BY <1>4, <1>8 DEF StartupThrows, Fault, Exit, vars
  <1> QED BY <1>1, <1>2, <1>3, <1>5, <1>6, <1>7, <1>8
          DEF Next, Library, Loop, Destructor, Terminated

\* What a push or a pop has read is still the queue when it writes.
LEMMA SeenStep ==
    ASSUME TypeOK, MutexInv, SeenInv, [Next]_vars PROVE SeenInv'
  <1>1. ASSUME NEW t \in Threads, Push(t) \/ Pop(t) PROVE SeenInv'
    BY <1>1 DEF TypeOK, SeenInv, Adding, Push, Pop, At, Go
  <1>2. ASSUME NEW t \in Threads, PushWrite(t) \/ PopWrite(t) PROVE SeenInv'
    <2>1. \A s \in Threads \ {t} : pc[s] \notin Critical
      BY <1>2 DEF MutexInv, PushWrite, PopWrite, At, Critical
    <2>2. \A s \in Threads \ {t} : pc'[s] \notin {"push_write", "pop_write"}
      BY <1>2, <2>1 DEF TypeOK, PushWrite, PopWrite, Go, Critical
    <2>3. pc'[t] \in {"push_unlock", "pop_unlock"}
      BY <1>2 DEF TypeOK, PushWrite, PopWrite, Go
    <2> QED BY <1>2, <2>2, <2>3 DEF TypeOK, SeenInv, Adding, PushWrite, PopWrite, Go
  <1>3. ASSUME NEW t \in Threads, Add(t) PROVE SeenInv'
    <2>1. adding'[t] \in Tasks
      BY <1>3, BoundAssumption DEF TypeOK, Add, Tasks
    <2> QED BY <1>3, <2>1 DEF TypeOK, SeenInv, Adding, Add, Go
  <1>4. ASSUME NEW t \in Threads, Lock(t) PROVE SeenInv'
    BY <1>4 DEF TypeOK, SeenInv, Adding, Lock, Locking, Go, work
  <1>5. ASSUME NEW t \in Threads, PushUnlock(t) \/ PopUnlock(t) \/ SetUnlock(t) PROVE SeenInv'
    BY <1>5 DEF TypeOK, SeenInv, Adding, PushUnlock, PopUnlock, SetUnlock, Go, Caller, Home, work
  <1>6. CASE /\ UNCHANGED <<queue, seen, adding>>
             /\ \A s \in Threads : \/ pc'[s] = pc[s]
                                   \/ pc'[s] \notin {"push_lock", "push", "push_write", "pop_write"}
    BY <1>6 DEF SeenInv, Adding
  <1>7. ASSUME NEW t \in Threads,
               \/ RoutineReturns(t) \/ RoutineFails(t) \/ RoutineThrows(t)
               \/ PopThrows(t) \/ Set(t)
        PROVE  SeenInv'
    BY <1>6, <1>7 DEF TypeOK, RoutineReturns, RoutineFails, RoutineThrows, PopThrows, Set,
                      Throws, Home, Go, work
  <1>8. ASSUME NEW w \in Workers,
               CreateEx(w) \/ Start(w) \/ Create(w) \/ Wait(w) \/ Check(w)
        PROVE  SeenInv'
    BY <1>6, <1>8 DEF TypeOK, Threads, CreateEx, Start, Create, Wait, Check, Go, work
  <1>9. CASE Execute \/ EndProgram \/ Drain \/ Free
    BY <1>6, <1>9 DEF TypeOK, Threads, Execute, EndProgram, Drain, Free, Go, work
  <1>10. CASE (\E w \in Workers : StartupThrows(w) \/ Fault(w)) \/ Exit \/ UNCHANGED vars
    BY <1>6, <1>10 DEF StartupThrows, Fault, Exit, vars, work
  <1> QED BY <1>1, <1>2, <1>3, <1>4, <1>5, <1>7, <1>8, <1>9, <1>10
          DEF Next, Library, Loop, Destructor, Terminated

\* execute() has a task in hand from pop() to set().
LEMMA TaskStep ==
    ASSUME TypeOK, SeenInv, TaskInv, [Next]_vars PROVE TaskInv'
  <1>1. ASSUME NEW t \in Threads, PopWrite(t) PROVE TaskInv'
    <2>1. seen[t] \in Seq(Tasks) /\ seen[t] # << >>
      BY <1>1 DEF TypeOK, SeenInv, PopWrite, At
    <2>2. Head(seen[t]) \in Tasks
      BY <2>1, HeadTailProperties
    <2> QED BY <1>1, <2>2 DEF TypeOK, TaskInv, PopWrite, Taken, Go
  <1>2. ASSUME NEW t \in Threads, PushUnlock(t) \/ PopUnlock(t) \/ SetUnlock(t) PROVE TaskInv'
    BY <1>2 DEF TypeOK, TaskInv, PushUnlock, PopUnlock, SetUnlock, At, Go, Caller, Home, work
  <1>3. ASSUME NEW t \in Threads,
               \/ Lock(t) \/ Add(t) \/ Push(t) \/ Pop(t) \/ PushWrite(t) \/ Set(t)
               \/ RoutineReturns(t)
        PROVE  TaskInv'
    BY <1>3 DEF TypeOK, TaskInv, Lock, Locking, Add, Push, Pop, PushWrite, Set, RoutineReturns,
                At, Go, work
  <1>4. ASSUME NEW t \in Threads, RoutineFails(t) \/ RoutineThrows(t) \/ PopThrows(t)
        PROVE  TaskInv'
    BY <1>4 DEF TypeOK, TaskInv, RoutineFails, RoutineThrows, PopThrows, Throws, At, Go, Home, work
  <1>5. ASSUME NEW w \in Workers,
               CreateEx(w) \/ Start(w) \/ Create(w) \/ Wait(w) \/ Check(w)
        PROVE  TaskInv'
    BY <1>5 DEF TypeOK, TaskInv, Threads, CreateEx, Start, Create, Wait, Check, At, Go, work
  <1>6. CASE Execute \/ EndProgram \/ Drain \/ Free
    BY <1>6 DEF TypeOK, TaskInv, Threads, Execute, EndProgram, Drain, Free, At, Go, work
  <1>7. CASE (\E w \in Workers : StartupThrows(w) \/ Fault(w)) \/ Exit \/ UNCHANGED vars
    BY <1>7 DEF TaskInv, StartupThrows, Fault, Exit, vars, work
  <1> QED BY <1>1, <1>2, <1>3, <1>4, <1>5, <1>6, <1>7
          DEF Next, Library, Loop, Destructor, Terminated

\* Only a consumer is on the way to the head of the queue.
LEMMA ConsumerStep ==
    ASSUME TypeOK, TaskInv, ConsumerInv, [Next]_vars PROVE ConsumerInv'
  <1>1. ASSUME NEW t \in Threads, Lock(t) \/ Pop(t) PROVE ConsumerInv'
    BY <1>1 DEF TypeOK, ConsumerInv, Lock, Locking, Pop, At, Go, work, history
  <1>2. ASSUME NEW t \in Threads, PopWrite(t) PROVE ConsumerInv'
    BY <1>2 DEF TypeOK, ConsumerInv, PopWrite, Taken, At, Go
  <1>3. ASSUME NEW t \in Threads, PushUnlock(t) \/ PopUnlock(t) \/ SetUnlock(t)
        PROVE  ConsumerInv'
    <2>1. ~over /\ (pc[t] = "set_unlock" => task[t] # NoOne)
      BY <1>3, ThreadAssumption DEF TaskInv, PushUnlock, PopUnlock, SetUnlock, At
    <2> QED BY <1>3, <2>1 DEF TypeOK, ConsumerInv, PushUnlock, PopUnlock, SetUnlock, At, Go,
                              Caller, Home, work, history
  <1>4. ASSUME NEW t \in Threads, Add(t) \/ Push(t) \/ PushWrite(t) \/ Set(t) \/ RoutineReturns(t)
        PROVE  ConsumerInv'
    BY <1>4 DEF TypeOK, ConsumerInv, Add, Push, PushWrite, Set, RoutineReturns, Go, work, history
  <1>5. ASSUME NEW t \in Threads, RoutineFails(t) \/ RoutineThrows(t) \/ PopThrows(t)
        PROVE  ConsumerInv'
    <2>1. pc[t] = "routine" => task[t] # NoOne
      BY <1>5, ThreadAssumption DEF TaskInv, RoutineFails, RoutineThrows, PopThrows, At
    <2> QED BY <1>5, <2>1 DEF TypeOK, ConsumerInv, RoutineFails, RoutineThrows, PopThrows, Throws,
                              At, Go, Home, work, history
  <1>6. ASSUME NEW w \in Workers,
               CreateEx(w) \/ Start(w) \/ Create(w) \/ Wait(w) \/ Check(w)
        PROVE  ConsumerInv'
    BY <1>6 DEF TypeOK, ConsumerInv, Threads, CreateEx, Start, Create, Wait, Check, At, Go,
                work, history
  <1>7. CASE Execute \/ EndProgram \/ Drain \/ Free
    BY <1>7 DEF TypeOK, ConsumerInv, Threads, Execute, EndProgram, Drain, Free, Go, work, history
  <1>8. CASE (\E w \in Workers : StartupThrows(w) \/ Fault(w)) \/ Exit \/ UNCHANGED vars
    BY <1>8 DEF ConsumerInv, StartupThrows, Fault, Exit, vars, work, history
  <1> QED BY <1>1, <1>2, <1>3, <1>4, <1>5, <1>6, <1>7, <1>8
          DEF Next, Library, Loop, Destructor, Terminated

-----------------------------------------------------------------------------
\* A push appends to what was enqueued, a pop takes its first element: the
\* tasks taken and the queue together change as the enqueued tasks do.
LEMMA OrderStep ==
    ASSUME TypeOK, SeenInv, TasksInOrder, [Next]_vars PROVE TasksInOrder'
  <1>1. ASSUME NEW t \in Threads, PushWrite(t) PROVE TasksInOrder'
    <2>1. seen[t] = queue /\ adding[t] \in Tasks
      BY <1>1 DEF SeenInv, Adding, PushWrite, At
    <2>2. taken \o Append(queue, adding[t]) = Append(taken \o queue, adding[t])
      BY <2>1 DEF TypeOK
    <2> QED BY <1>1, <2>1, <2>2 DEF TasksInOrder, PushWrite
  <1>2. ASSUME NEW t \in Threads, PopWrite(t) PROVE TasksInOrder'
    <2>1. seen[t] = queue /\ queue # << >>
      BY <1>2 DEF SeenInv, PopWrite, At
    <2>2. Append(taken, Head(queue)) \o Tail(queue) = taken \o queue
      BY <2>1 DEF TypeOK
    <2> QED BY <1>2, <2>1, <2>2 DEF TasksInOrder, PopWrite
  <1>3. UNCHANGED <<queue, taken, enqueued>> => TasksInOrder'
    BY DEF TasksInOrder
  <1> QED BY <1>1, <1>2, <1>3
      DEF Next, Library, Loop, Destructor, Terminated, vars, work, history,
          Lock, Push, PushUnlock, Pop, PopThrows, PopUnlock, Set, SetUnlock, Add,
          RoutineReturns, RoutineFails, RoutineThrows, CreateEx, Start, Create, Wait,
          Check, StartupThrows, Fault, Execute, EndProgram, Drain, Free, Exit

Inv == TypeOK /\ MutexInv /\ SeenInv /\ TaskInv /\ ConsumerInv /\ TasksInOrder

LEMMA Initially == Init => Inv
  <1> SUFFICES ASSUME Init PROVE Inv
    OBVIOUS
  <1>1. TypeOK
    <2>1. << >> \in Seq(Tasks)
      OBVIOUS
    <2>2. pc \in [Threads -> Pc]
      BY DEF Init, Pc
    <2>3. seen \in [Threads -> Seq(Tasks)]
      BY <2>1 DEF Init
    <2>4. added \in 0 .. MaxTasks
      BY BoundAssumption DEF Init
    <2>5. mutex \in Threads \cup {NoOne} /\ done \subseteq Tasks /\ consumers \subseteq Threads
      BY DEF Init
    <2>6. /\ adding \in [Threads -> Tasks \cup {NoOne}]
          /\ task \in [Threads -> Tasks \cup {NoOne}]
      BY DEF Init
    <2> QED BY <2>1, <2>2, <2>3, <2>4, <2>5, <2>6 DEF Init, TypeOK
  <1>2. MutexInv /\ SeenInv /\ TaskInv /\ ConsumerInv
    BY ThreadAssumption
       DEF Init, MutexInv, SeenInv, Adding, TaskInv, ConsumerInv, Threads, Critical
  <1>3. TasksInOrder
    BY DEF Init, TasksInOrder
  <1> QED BY <1>1, <1>2, <1>3 DEF Inv

LEMMA Invariant == Spec => []Inv
  <1>1. Inv /\ [Next]_vars => Inv'
    BY TypeStep, MutexStep, SeenStep, TaskStep, ConsumerStep, OrderStep DEF Inv
  <1> QED BY Initially, <1>1, PTL DEF Spec

\* The queue, its mutex and the threads are well typed (Thread, PThread).
THEOREM TypeCorrect == Spec => []TypeOK
  BY Invariant, PTL DEF Inv

\* push() and pop(), under the mutex, lose no task, take none twice and keep
\* the order, for any number of threads that add and take.
THEOREM InOrder == Spec => []TasksInOrder
  BY Invariant, PTL DEF Inv

-----------------------------------------------------------------------------
\* With one consumer nobody empties the queue between its empty() and its pop().
LEMMA UnderflowStep ==
    ASSUME TypeOK, SeenInv, ConsumerInv, NoUnderflow, [Next]_vars PROVE NoUnderflow'
  <1>1. ASSUME NEW t \in Threads, PushWrite(t) PROVE NoUnderflow'
    <2>1. queue \in Seq(Tasks) /\ adding[t] \in Tasks /\ queue' = Append(queue, adding[t])
      BY <1>1 DEF TypeOK, SeenInv, Adding, PushWrite, At
    <2>2. queue' # << >>
      BY <2>1, AppendProperties
    <2> QED BY <2>2 DEF NoUnderflow
  <1>2. ASSUME NEW t \in Threads, PopWrite(t) PROVE NoUnderflow'
    <2>1. ASSUME SafeUse', NEW u \in Threads, pc'[u] \in {"pop_lock", "pop"} PROVE FALSE
      <3>1. u # t /\ pc[u] \in {"pop_lock", "pop"}
        BY <1>2, <2>1 DEF TypeOK, PopWrite, At, Go
      <3>2. u \in consumers /\ t \in consumers
        BY <1>2, <3>1 DEF ConsumerInv, PopWrite, At
      <3> QED BY <1>2, <2>1, <3>1, <3>2 DEF SafeUse, PopWrite
    <2> QED BY <2>1 DEF NoUnderflow
  <1>3. ASSUME NEW w \in Workers, Check(w) PROVE NoUnderflow'
    BY <1>3 DEF TypeOK, NoUnderflow, SafeUse, Threads, Check, Found, Go, work, history
  <1>4. CASE Drain
    BY <1>4 DEF TypeOK, NoUnderflow, Threads, Drain, Found, Go, work
  <1>5. CASE Execute
    BY <1>5 DEF NoUnderflow, SafeUse, Execute
  <1>6. CASE /\ queue' = queue /\ byHand' = byHand /\ consumers \subseteq consumers'
             /\ \A s \in Threads :
                   pc'[s] \in {"pop_lock", "pop"} => pc[s] \in {"pop_lock", "pop"}
    BY <1>6 DEF NoUnderflow, SafeUse
  <1>7. ASSUME NEW t \in Threads,
               \/ Lock(t) \/ Add(t) \/ Push(t) \/ Pop(t) \/ Set(t)
               \/ PushUnlock(t) \/ PopUnlock(t) \/ SetUnlock(t)
        PROVE  NoUnderflow'
    BY <1>6, <1>7 DEF TypeOK, Lock, Locking, Add, Push, Pop, Set, PushUnlock, PopUnlock, SetUnlock,
                      Go, Caller, Home, work, history
  <1>8. ASSUME NEW t \in Threads,
               RoutineReturns(t) \/ RoutineFails(t) \/ RoutineThrows(t) \/ PopThrows(t)
        PROVE  NoUnderflow'
    BY <1>6, <1>8 DEF TypeOK, RoutineReturns, RoutineFails, RoutineThrows, PopThrows, Throws,
                      Go, Home, work, history
  <1>9. ASSUME NEW w \in Workers, CreateEx(w) \/ Start(w) \/ Create(w) \/ Wait(w)
        PROVE  NoUnderflow'
    BY <1>6, <1>9 DEF TypeOK, Threads, CreateEx, Start, Create, Wait, Go, work, history
  <1>10. CASE EndProgram \/ Free
    BY <1>6, <1>10 DEF TypeOK, Threads, EndProgram, Free, Go, work, history
  <1>11. CASE (\E w \in Workers : StartupThrows(w) \/ Fault(w)) \/ Exit \/ UNCHANGED vars
    BY <1>6, <1>11 DEF StartupThrows, Fault, Exit, vars, work, history
  <1> QED BY <1>1, <1>2, <1>3, <1>4, <1>5, <1>7, <1>8, <1>9, <1>10, <1>11
          DEF Next, Library, Loop, Destructor, Terminated

\* With one consumer no exception leaves pop() with the mutex locked.
LEMMA ReleaseStep ==
    ASSUME TypeOK, NoUnderflow, MutexReleased, [Next]_vars PROVE MutexReleased'
  <1>1. ASSUME NEW t \in Threads, Lock(t) PROVE MutexReleased'
    <2>1. mutex' = t /\ pc'[t] \in Critical
      BY <1>1 DEF TypeOK, Critical, Locking, Lock, Acquired, Go
    <2> QED BY <2>1 DEF MutexReleased
  <1>2. ASSUME NEW t \in Threads, PushUnlock(t) \/ PopUnlock(t) \/ SetUnlock(t)
        PROVE  MutexReleased'
    BY <1>2 DEF MutexReleased, PushUnlock, PopUnlock, SetUnlock, Released
  <1>3. ASSUME NEW t \in Threads, PopThrows(t) PROVE MutexReleased'
    BY <1>3 DEF NoUnderflow, MutexReleased, SafeUse, PopThrows, At, work, history
  <1>4. CASE /\ mutex' = mutex /\ (SafeUse' => SafeUse)
             /\ \A s \in Threads : pc[s] \in Critical => pc'[s] \in Critical
    BY <1>4 DEF TypeOK, MutexReleased
  <1>5. ASSUME NEW t \in Threads,
               Add(t) \/ Push(t) \/ PushWrite(t) \/ Pop(t) \/ PopWrite(t) \/ Set(t)
        PROVE  MutexReleased'
    BY <1>4, <1>5 DEF TypeOK, SafeUse, Critical, Add, Push, PushWrite, Pop, PopWrite, Set, At, Go,
                      history
  <1>6. ASSUME NEW t \in Threads, RoutineReturns(t) \/ RoutineFails(t) \/ RoutineThrows(t)
        PROVE  MutexReleased'
    BY <1>4, <1>6 DEF TypeOK, SafeUse, Critical, RoutineReturns, RoutineFails, RoutineThrows, Throws,
                      At, Go, history
  <1>7. ASSUME NEW w \in Workers,
               CreateEx(w) \/ Start(w) \/ Create(w) \/ Wait(w) \/ Check(w)
        PROVE  MutexReleased'
    BY <1>4, <1>7 DEF TypeOK, SafeUse, Threads, Critical, CreateEx, Start, Create, Wait, Check,
                      At, Go, history
  <1>8. CASE Execute \/ EndProgram \/ Drain \/ Free
    BY <1>4, <1>8 DEF TypeOK, SafeUse, Threads, Critical, Execute, EndProgram, Drain, Free, At, Go,
                      history
  <1>9. CASE (\E w \in Workers : StartupThrows(w) \/ Fault(w)) \/ Exit \/ UNCHANGED vars
    BY <1>4, <1>9 DEF SafeUse, StartupThrows, Fault, Exit, vars, history
  <1> QED BY <1>1, <1>2, <1>3, <1>5, <1>6, <1>7, <1>8, <1>9
          DEF Next, Library, Loop, Destructor, Terminated

LEMMA SafeInvariant == Spec => [](Inv /\ NoUnderflow /\ MutexReleased)
  <1>1. Init => NoUnderflow /\ MutexReleased
    BY ThreadAssumption DEF Init, NoUnderflow, MutexReleased, Threads
  <1>2. Inv /\ NoUnderflow /\ MutexReleased /\ [Next]_vars
            => Inv' /\ NoUnderflow' /\ MutexReleased'
    BY TypeStep, MutexStep, SeenStep, TaskStep, ConsumerStep, OrderStep,
       UnderflowStep, ReleaseStep DEF Inv
  <1> QED BY Initially, <1>1, <1>2, PTL DEF Spec

\* With one consumer the unlocked test of empty() is good enough: pop()
\* never finds the queue empty, so dequeue() never throws.
THEOREM NeverUnderflows == Spec => []NoUnderflow
  BY SafeInvariant, PTL

\* And so the mutex is never left locked.
THEOREM AlwaysReleased == Spec => []MutexReleased
  BY SafeInvariant, PTL

-----------------------------------------------------------------------------
(* TaskQueue.                                                              *)

LEMMA RangeAppend ==
    ASSUME NEW s \in Seq(Tasks), NEW k \in Tasks
    PROVE  Range(Append(s, k)) = Range(s) \cup {k}
  <1>1. DOMAIN Append(s, k) = DOMAIN s \cup {Len(s) + 1}
    OBVIOUS
  <1>2. /\ Append(s, k)[Len(s) + 1] = k
        /\ \A n \in DOMAIN s : Append(s, k)[n] = s[n]
    OBVIOUS
  <1> QED BY <1>1, <1>2 DEF Range

LEMMA RangeHeadTail ==
    ASSUME NEW s \in Seq(Tasks), s # << >>
    PROVE  Range(s) = {Head(s)} \cup Range(Tail(s))
  <1>1. Len(s) \in Nat /\ Len(s) >= 1 /\ DOMAIN s = 1 .. Len(s)
    BY EmptySeq
  <1>2. DOMAIN Tail(s) = 1 .. Len(s) - 1 /\ Head(s) = s[1]
    BY <1>1
  <1>3. \A n \in 1 .. Len(s) - 1 : Tail(s)[n] = s[n + 1]
    BY <1>1
  <1>4. \A m \in 1 .. Len(s) : m = 1 \/ (m - 1 \in 1 .. Len(s) - 1 /\ m = (m - 1) + 1)
    BY <1>1
  <1>5. ASSUME NEW m \in 1 .. Len(s) PROVE s[m] \in {Head(s)} \cup Range(Tail(s))
    <2>1. CASE m = 1
      BY <1>2, <2>1
    <2>2. CASE m - 1 \in 1 .. Len(s) - 1 /\ m = (m - 1) + 1
      <3>1. Tail(s)[m - 1] = s[m]
        BY <1>3, <2>2
      <3> QED BY <1>2, <2>2, <3>1 DEF Range
    <2> QED BY <1>4, <2>1, <2>2
  <1>6. {Head(s)} \cup Range(Tail(s)) \subseteq Range(s)
    BY <1>1, <1>2, <1>3 DEF Range
  <1> QED BY <1>1, <1>5, <1>6 DEF Range

\* No task is among the tasks taken and in the queue, or twice in the queue.
LEMMA Apart ==
    ASSUME TypeOK, NumberInv, TasksInOrder
    PROVE  /\ Range(enqueued) = Range(taken) \cup Range(queue)
           /\ Range(taken) \cap Range(queue) = {}
           /\ queue # << >> => Head(queue) \notin Range(Tail(queue))
  <1>1. taken \in Seq(Tasks) /\ queue \in Seq(Tasks) /\ enqueued = taken \o queue
    BY DEF TypeOK, TasksInOrder
  <1>2. Range(enqueued) = Range(taken) \cup Range(queue)
    BY <1>1, RangeConcatenation
  <1>3. /\ DOMAIN enqueued = 1 .. Len(taken) + Len(queue)
        /\ \A n \in DOMAIN taken : n \in DOMAIN enqueued /\ enqueued[n] = taken[n]
        /\ \A n \in DOMAIN queue : /\ Len(taken) + n \in DOMAIN enqueued
                                   /\ enqueued[Len(taken) + n] = queue[n]
    BY <1>1
  <1>4. ASSUME NEW m \in DOMAIN taken, NEW n \in DOMAIN queue PROVE taken[m] # queue[n]
    <2>1. m # Len(taken) + n
      BY <1>1
    <2> QED BY <1>3, <2>1 DEF NumberInv
  <1>5. ASSUME NEW m \in DOMAIN queue, NEW n \in DOMAIN queue, queue[m] = queue[n] PROVE m = n
    <2>1. Len(taken) + m = Len(taken) + n
      BY <1>3, <1>5 DEF NumberInv
    <2> QED BY <1>1, <2>1
  <1>6. ASSUME queue # << >> PROVE Head(queue) \notin Range(Tail(queue))
    <2>1. \A n \in DOMAIN Tail(queue) : n + 1 \in DOMAIN queue /\ Tail(queue)[n] = queue[n + 1]
      BY <1>1, <1>6
    <2>2. 1 \in DOMAIN queue /\ Head(queue) = queue[1]
      BY <1>1, <1>6
    <2>3. \A n \in DOMAIN Tail(queue) : n + 1 # 1
      BY <1>1, <1>6
    <2> QED BY <1>5, <2>1, <2>2, <2>3 DEF Range
  <1> QED BY <1>2, <1>4, <1>6 DEF Range

\* Every task is enqueued by the thread that added it, once.
LEMMA NumberStep ==
    ASSUME TypeOK, SeenInv, NumberInv, [Next]_vars PROVE NumberInv'
  <1>1. ASSUME NEW t \in Threads, Add(t) PROVE NumberInv'
    <2>1. added \in Nat /\ Range(enqueued) \subseteq Tasks
      BY BoundAssumption, RangeOfSeq DEF TypeOK
    <2>2. adding'[t] = added + 1 /\ added' = added + 1 /\ enqueued' = enqueued
      BY <1>1 DEF TypeOK, Add, history
    <2>3. \A s \in Threads \ {t} :
              (Adding(s)' <=> Adding(s)) /\ adding'[s] = adding[s]
      BY <1>1 DEF TypeOK, Adding, Add, Go
    <2>4. \A s \in Threads : Adding(s) => adding[s] \in Tasks /\ adding[s] <= added
      BY DEF SeenInv, NumberInv
    <2>5. \A k \in Tasks : k <= added => k <= added + 1 /\ k # added + 1
      BY <2>1 DEF Tasks
    <2>6. \A k \in Range(enqueued)' : k <= added' /\ k # added'
      BY <2>1, <2>2, <2>5 DEF NumberInv
    <2>7. \A s \in Threads : Adding(s)' =>
              /\ adding'[s] <= added' /\ adding'[s] \notin Range(enqueued)'
              /\ adding'[s] = added' => s = t
      BY <2>1, <2>2, <2>3, <2>4, <2>5, <2>6 DEF NumberInv
    <2>8. \A r, s \in Threads : Adding(r)' /\ Adding(s)' /\ adding'[r] = adding'[s] => r = s
      BY <2>2, <2>3, <2>7 DEF NumberInv
    <2> QED BY <2>2, <2>6, <2>7, <2>8 DEF NumberInv
  <1>2. ASSUME NEW t \in Threads, PushWrite(t) PROVE NumberInv'
    <2>1. /\ enqueued \in Seq(Tasks) /\ Adding(t) /\ adding[t] \in Tasks
          /\ enqueued' = Append(enqueued, adding[t])
          /\ adding' = adding /\ added' = added
      BY <1>2 DEF TypeOK, SeenInv, Adding, PushWrite, At
    <2>2. Range(enqueued)' = Range(enqueued) \cup {adding[t]}
      BY <2>1, RangeAppend
    <2>3. \A s \in Threads : Adding(s)' => s # t /\ Adding(s)
      BY <1>2 DEF TypeOK, Adding, PushWrite, Go
    <2>4. \A m, n \in DOMAIN enqueued' : enqueued'[m] = enqueued'[n] => m = n
      <3>1. \A n \in DOMAIN enqueued : enqueued[n] # adding[t]
        BY <2>1 DEF NumberInv, Range
      <3>2. DOMAIN enqueued' = DOMAIN enqueued \cup {Len(enqueued) + 1}
        BY <2>1
      <3>3. /\ enqueued'[Len(enqueued) + 1] = adding[t]
            /\ \A n \in DOMAIN enqueued : enqueued'[n] = enqueued[n]
        BY <2>1
      <3> QED BY <3>1, <3>2, <3>3 DEF NumberInv
    <2> QED BY <2>1, <2>2, <2>3, <2>4 DEF NumberInv
  <1>3. CASE /\ UNCHANGED <<enqueued, added>>
             /\ \A s \in Threads : Adding(s)' => Adding(s) /\ adding'[s] = adding[s]
    BY <1>3 DEF NumberInv
  <1>4. ASSUME NEW t \in Threads, Lock(t) \/ Push(t) \/ Pop(t) \/ PopWrite(t) \/ Set(t)
        PROVE  NumberInv'
    BY <1>3, <1>4 DEF TypeOK, Adding, Lock, Locking, Push, Pop, PopWrite, Set, At, Go, work, history
  <1>5. ASSUME NEW t \in Threads, PushUnlock(t) \/ PopUnlock(t) \/ SetUnlock(t) PROVE NumberInv'
    BY <1>3, <1>5 DEF TypeOK, Adding, PushUnlock, PopUnlock, SetUnlock, Caller, Home, Go,
                      work, history
  <1>6. ASSUME NEW t \in Threads,
               RoutineReturns(t) \/ RoutineFails(t) \/ RoutineThrows(t) \/ PopThrows(t)
        PROVE  NumberInv'
    BY <1>3, <1>6 DEF TypeOK, Adding, RoutineReturns, RoutineFails, RoutineThrows, PopThrows, Throws,
                      Home, Go, work, history
  <1>7. ASSUME NEW w \in Workers,
               CreateEx(w) \/ Start(w) \/ Create(w) \/ Wait(w) \/ Check(w)
        PROVE  NumberInv'
    BY <1>3, <1>7 DEF TypeOK, Threads, Adding, CreateEx, Start, Create, Wait, Check, Go, work, history
  <1>8. CASE Execute \/ EndProgram \/ Drain \/ Free
    BY <1>3, <1>8 DEF TypeOK, Threads, Adding, Execute, EndProgram, Drain, Free, Go, work, history
  <1>9. CASE (\E w \in Workers : StartupThrows(w) \/ Fault(w)) \/ Exit \/ UNCHANGED vars
    BY <1>3, <1>9 DEF Adding, StartupThrows, Fault, Exit, vars, work, history
  <1> QED BY <1>1, <1>2, <1>4, <1>5, <1>6, <1>7, <1>8, <1>9
          DEF Next, Library, Loop, Destructor, Terminated

\* What pop() returns is new to the tasks taken, so it is in one hand only.
LEMMA HandStep ==
    ASSUME TypeOK, SeenInv, TaskInv, TasksInOrder, NumberInv, HandInv, [Next]_vars
    PROVE  HandInv'
  <1>1. ASSUME NEW t \in Threads, PopWrite(t) PROVE HandInv'
    <2>1. /\ queue \in Seq(Tasks) /\ queue # << >> /\ taken \in Seq(Tasks)
          /\ task' = [task EXCEPT ![t] = Head(queue)] /\ taken' = Append(taken, Head(queue))
          /\ pc' = [pc EXCEPT ![t] = "pop_unlock"] /\ done' = done
      BY <1>1 DEF TypeOK, SeenInv, PopWrite, Taken, At, Go
    <2>2. Head(queue) \in Tasks /\ Head(queue) \in Range(queue)
      BY <2>1, HeadTailProperties, RangeHeadTail
    <2>3. Head(queue) \notin Range(taken)
      BY <2>2, Apart
    <2>4. Range(taken)' = Range(taken) \cup {Head(queue)}
      BY <2>1, <2>2, RangeAppend
    <2> QED BY <1>1, <2>1, <2>3, <2>4 DEF TypeOK, HandInv, Executing, PopWrite, At
  <1>2. ASSUME NEW t \in Threads, Set(t) PROVE HandInv'
    <2>1. task[t] \in Tasks /\ task[t] # NoOne
      BY <1>2, ThreadAssumption DEF TaskInv, Set, At
    <2> QED BY <1>2, <2>1 DEF TypeOK, HandInv, Executing, Set, Go, history
  <1>3. ASSUME NEW t \in Threads, SetUnlock(t) \/ RoutineFails(t) \/ RoutineThrows(t) PROVE HandInv'
    <2>1. /\ task' = [task EXCEPT ![t] = NoOne] /\ taken' = taken /\ done' = done
          /\ \A s \in Threads \ {t} : pc'[s] = pc[s]
      BY <1>3 DEF TypeOK, SetUnlock, RoutineFails, RoutineThrows, Throws, Go, history
    <2>2. NoOne \notin done
      BY ThreadAssumption DEF TypeOK
    <2> QED BY <2>1, <2>2 DEF TypeOK, HandInv
  <1>4. CASE /\ UNCHANGED <<task, taken, done>>
             /\ \A s \in Threads : pc'[s] = pc[s] \/ (pc[s] # "set_unlock" /\ pc'[s] \in Executing)
                                   \/ task[s] = NoOne
    <2>1. NoOne \notin done
      BY ThreadAssumption DEF TypeOK
    <2> QED BY <1>4, <2>1 DEF HandInv
  <1>5. ASSUME NEW t \in Threads, Lock(t) \/ Add(t) \/ Push(t) \/ PushWrite(t) \/ Pop(t)
        PROVE  HandInv'
    BY <1>4, <1>5 DEF TypeOK, HandInv, Executing, Lock, Locking, Add, Push, PushWrite, Pop, At, Go,
                      work, history
  <1>6. ASSUME NEW t \in Threads,
               PushUnlock(t) \/ PopUnlock(t) \/ RoutineReturns(t) \/ PopThrows(t)
        PROVE  HandInv'
    BY <1>4, <1>6 DEF TypeOK, HandInv, Executing, PushUnlock, PopUnlock, RoutineReturns, PopThrows,
                      Throws, Caller, At, Go, work, history
  <1>7. ASSUME NEW w \in Workers,
               CreateEx(w) \/ Start(w) \/ Create(w) \/ Wait(w) \/ Check(w)
        PROVE  HandInv'
    BY <1>4, <1>7 DEF TypeOK, HandInv, Executing, Threads, CreateEx, Start, Create, Wait, Check,
                      At, Go, work, history
  <1>8. CASE Execute \/ EndProgram \/ Drain \/ Free
    BY <1>4, <1>8 DEF TypeOK, HandInv, Executing, Threads, Execute, EndProgram, Drain, Free,
                      At, Go, work, history
  <1>9. CASE (\E w \in Workers : StartupThrows(w) \/ Fault(w)) \/ Exit \/ UNCHANGED vars
    BY <1>4, <1>9 DEF StartupThrows, Fault, Exit, vars, work, history
  <1> QED BY <1>1, <1>2, <1>3, <1>5, <1>6, <1>7, <1>8, <1>9
          DEF Next, Library, Loop, Destructor, Terminated

\* A step that changes the stage of one task and no other.
LEMMA OneMoves ==
    ASSUME NEW k \in Tasks, NEW from, NEW to, StageOf(k) = from, StageOf(k)' = to,
           \A j \in Tasks \ {k} : StageOf(j)' = StageOf(j)
    PROVE  Promise!Moves(k, from, to)
  BY DEF Promise!Moves

\* A step that leaves tasks, queue and results alone is none of TaskQueue.
LEMMA NoneMoves ==
    ASSUME UNCHANGED <<added, queue, task, done>>,
           \A t \in Threads : Adding(t)' <=> Adding(t),
           \A t \in Threads : Adding(t) => adding'[t] = adding[t]
    PROVE  UNCHANGED Promise!vars
  <1>1. \A k \in Tasks : StageOf(k)' = StageOf(k)
    BY DEF StageOf
  <1> QED BY <1>1 DEF Promise!vars

\* The stage of a task in hand.
LEMMA InHandRuns ==
    ASSUME TypeOK, TasksInOrder, NumberInv, HandInv, NEW t \in Threads, task[t] \in Tasks
    PROVE  StageOf(task[t]) = "running"
  <1>1. task[t] \in Range(taken) /\ task[t] \notin Range(queue)
    BY Apart, ThreadAssumption DEF HandInv
  <1>2. task[t] \in Range(enqueued)
    BY <1>1, Apart
  <1>3. task[t] <= added /\ task[t] \in Nat /\ added \in Nat
    BY <1>2, BoundAssumption DEF TypeOK, Tasks, NumberInv
  <1>4. ~(task[t] > added) /\ ~(\E s \in Threads : Adding(s) /\ adding[s] = task[t])
    BY <1>2, <1>3 DEF NumberInv
  <1> QED BY <1>1, <1>4 DEF StageOf

\* add() up to push().
LEMMA AddMaps ==
    ASSUME TypeOK, SeenInv, NumberInv, NEW t \in Threads, Add(t)
    PROVE  \E k \in Tasks : Promise!Add(k)
  <1>1. added \in Nat /\ added + 1 \in Tasks
    BY BoundAssumption DEF TypeOK, Add, Tasks
  <1>2. /\ added' = added + 1 /\ adding' = [adding EXCEPT ![t] = added + 1]
        /\ queue' = queue /\ task' = task /\ done' = done
        /\ Adding(t)' /\ ~Adding(t)
        /\ \A s \in Threads \ {t} : Adding(s)' <=> Adding(s)
    BY <1>1 DEF TypeOK, Adding, Add, Go
  <1>3. adding'[t] = added + 1 /\ \A s \in Threads \ {t} : adding'[s] = adding[s]
    BY <1>2 DEF TypeOK
  <1>4. PICK k \in Tasks : k = added + 1
    BY <1>1
  <1>5. StageOf(k) = "none" /\ StageOf(k)' = "new"
    BY <1>1, <1>2, <1>3, <1>4 DEF StageOf
  <1>6. ASSUME NEW j \in Tasks \ {k} PROVE StageOf(j)' = StageOf(j)
    <2>1. j > added' <=> j > added
      BY <1>1, <1>2, <1>4 DEF Tasks
    <2>2. (\E s \in Threads : Adding(s)' /\ adding'[s] = j)
              <=> (\E s \in Threads : Adding(s) /\ adding[s] = j)
      BY <1>2, <1>3, <1>4
    <2> QED BY <1>2, <2>1, <2>2 DEF StageOf
  <1>7. Promise!Moves(k, "none", "new")
    BY <1>5, <1>6, OneMoves
  <1> QED BY <1>2, <1>7 DEF Promise!Add

\* The write of enqueue().
LEMMA PushMaps ==
    ASSUME TypeOK, SeenInv, NumberInv, NEW t \in Threads, PushWrite(t)
    PROVE  \E k \in Tasks : Promise!Enqueue(k)
  <1> DEFINE k == adding[t]
  <1>1. /\ queue \in Seq(Tasks) /\ k \in Tasks /\ Adding(t)
        /\ queue' = Append(queue, k)
        /\ adding' = adding /\ added' = added /\ task' = task /\ done' = done
    BY DEF TypeOK, SeenInv, Adding, PushWrite, At
  <1>2. ~Adding(t)' /\ \A s \in Threads \ {t} : Adding(s)' <=> Adding(s)
    BY DEF TypeOK, Adding, PushWrite, Go
  <1>3. Range(queue)' = Range(queue) \cup {k}
    BY <1>1, RangeAppend
  <1>4. k <= added /\ ~(k > added)
    BY <1>1, BoundAssumption DEF NumberInv, TypeOK, Tasks
  <1>5. StageOf(k) = "new"
    BY <1>1, <1>4 DEF StageOf
  <1>6. \A s \in Threads : ~(Adding(s)' /\ adding'[s] = k)
    BY <1>1, <1>2 DEF NumberInv
  <1>7. \A j \in Tasks \ {k} : StageOf(j)' = StageOf(j)
    <2> SUFFICES ASSUME NEW j \in Tasks \ {k} PROVE StageOf(j)' = StageOf(j)
      OBVIOUS
    <2>1. (\E s \in Threads : Adding(s)' /\ adding'[s] = j)
              <=> (\E s \in Threads : Adding(s) /\ adding[s] = j)
      BY <1>1, <1>2
    <2>2. j \in Range(queue)' <=> j \in Range(queue)
      BY <1>3
    <2> QED BY <1>1, <2>1, <2>2 DEF StageOf
  <1>8. PICK i \in Tasks : i = k
    BY <1>1
  <1>9. StageOf(i)' = "waiting"
    BY <1>1, <1>3, <1>4, <1>6, <1>8 DEF StageOf
  <1>10. Promise!Moves(i, "new", "waiting")
    BY <1>5, <1>7, <1>8, <1>9, OneMoves
  <1> QED BY <1>1, <1>8, <1>10 DEF Promise!Enqueue

\* The write of dequeue().
LEMMA PopMaps ==
    ASSUME TypeOK, SeenInv, TasksInOrder, NumberInv, HandInv, NEW t \in Threads, PopWrite(t)
    PROVE  Promise!Take
  <1>1. /\ queue \in Seq(Tasks) /\ queue # << >>
        /\ queue' = Tail(queue) /\ task' = [task EXCEPT ![t] = Head(queue)]
        /\ pc[t] = "pop_write" /\ pc' = [pc EXCEPT ![t] = "pop_unlock"]
        /\ adding' = adding /\ added' = added /\ done' = done
    BY DEF TypeOK, SeenInv, PopWrite, Taken, At, Go
  <1>2. PICK k \in Tasks : k = Head(queue)
    BY <1>1, HeadTailProperties
  <1>3. /\ Range(queue) = {k} \cup Range(queue') /\ k \notin Range(queue')
        /\ k \in Range(enqueued)
    BY <1>1, <1>2, RangeHeadTail, Apart
  <1>4. task[t] = NoOne /\ task'[t] = k /\ \A s \in Threads \ {t} : task'[s] = task[s]
    BY <1>1, <1>2 DEF TypeOK, HandInv, Executing
  <1>5. \A s \in Threads : Adding(s)' <=> Adding(s)
    BY <1>1 DEF TypeOK, Adding
  <1>6. ~(k > added) /\ ~(\E s \in Threads : Adding(s) /\ adding[s] = k)
    BY <1>3, BoundAssumption DEF NumberInv, TypeOK, Tasks
  <1>7. StageOf(k) = "waiting"
    BY <1>3, <1>6 DEF StageOf
  <1>8. StageOf(k)' = "running"
    BY <1>1, <1>3, <1>4, <1>5, <1>6 DEF StageOf
  <1>9. ASSUME NEW j \in Tasks \ {k} PROVE StageOf(j)' = StageOf(j)
    <2>1. j \in Range(queue)' <=> j \in Range(queue)
      BY <1>3
    <2>2. (\E s \in Threads : task'[s] = j) <=> (\E s \in Threads : task[s] = j)
      BY <1>4, ThreadAssumption
    <2> QED BY <1>1, <1>5, <2>1, <2>2 DEF StageOf
  <1>10. Promise!Moves(k, "waiting", "running")
    BY <1>7, <1>8, <1>9, OneMoves
  <1> QED BY <1>1, <1>2, <1>10 DEF Promise!Take

\* TValue::set().
LEMMA SetMaps ==
    ASSUME TypeOK, TaskInv, TasksInOrder, NumberInv, HandInv, NEW t \in Threads, Set(t)
    PROVE  \E k \in Tasks : Promise!SetResult(k)
  <1>1. /\ task[t] \in Tasks /\ pc[t] = "set" /\ pc' = [pc EXCEPT ![t] = "set_unlock"]
        /\ done' = done \cup {task[t]}
        /\ queue' = queue /\ adding' = adding /\ task' = task /\ added' = added
    BY DEF TaskInv, Set, At, Go
  <1>2. StageOf(task[t]) = "running" /\ task[t] \notin done
    BY <1>1, InHandRuns DEF HandInv
  <1>3. \A s \in Threads : Adding(s)' <=> Adding(s)
    BY <1>1 DEF TypeOK, Adding
  <1>4. \A j \in Tasks : StageOf(j)' = StageOf(j)
    BY <1>1, <1>3 DEF StageOf
  <1>5. PICK k \in Tasks : k = task[t]
    BY <1>1
  <1>6. Promise!SetResult(k)
    BY <1>1, <1>2, <1>4, <1>5 DEF Promise!SetResult
  <1> QED BY <1>6

\* The end of execute().
LEMMA EndMaps ==
    ASSUME TypeOK, TaskInv, TasksInOrder, NumberInv, HandInv,
           NEW t \in Threads, SetUnlock(t) \/ RoutineFails(t) \/ RoutineThrows(t)
    PROVE  \E k \in Tasks : Promise!Finish(k)
  <1>1. /\ task[t] \in Tasks /\ task' = [task EXCEPT ![t] = NoOne]
        /\ queue' = queue /\ adding' = adding /\ added' = added /\ done' = done
    BY DEF TaskInv, SetUnlock, RoutineFails, RoutineThrows, At
  <1>2. PICK k \in Tasks : k = task[t]
    BY <1>1
  <1>3. /\ task'[t] = NoOne /\ \A s \in Threads \ {t} : task'[s] = task[s] /\ task[s] # k
    BY <1>1, <1>2, ThreadAssumption DEF TypeOK, HandInv
  <1>4. \A s \in Threads : Adding(s)' <=> Adding(s)
    BY DEF TypeOK, Adding, SetUnlock, RoutineFails, RoutineThrows, Throws, Home, At, Go
  <1>5. StageOf(k) = "running"
    BY <1>1, <1>2, InHandRuns
  <1>6. StageOf(k)' = "finished"
    <2>1. ~(\E s \in Threads : task'[s] = k)
      BY <1>3, ThreadAssumption
    <2>2. ~(k > added) /\ ~(\E s \in Threads : Adding(s) /\ adding[s] = k) /\ k \notin Range(queue)
      BY <1>5 DEF StageOf
    <2> QED BY <1>1, <1>4, <2>1, <2>2 DEF StageOf
  <1>7. ASSUME NEW j \in Tasks \ {k} PROVE StageOf(j)' = StageOf(j)
    <2>1. (\E s \in Threads : task'[s] = j) <=> (\E s \in Threads : task[s] = j)
      BY <1>2, <1>3, ThreadAssumption
    <2> QED BY <1>1, <1>4, <2>1 DEF StageOf
  <1>8. Promise!Moves(k, "running", "finished")
    BY <1>5, <1>6, <1>7, OneMoves
  <1> QED BY <1>1, <1>8 DEF Promise!Finish

HandsInv == Inv /\ NumberInv /\ HandInv

\* Every step is one of TaskQueue or none.
LEMMA StepMaps ==
    ASSUME HandsInv, [Next]_vars PROVE [Promise!Next]_(Promise!vars)
  <1> USE DEF HandsInv, Inv
  <1>1. ASSUME NEW t \in Threads, Add(t) PROVE Promise!Next
    BY <1>1, AddMaps DEF Promise!Next
  <1>2. ASSUME NEW t \in Threads, PushWrite(t) PROVE Promise!Next
    BY <1>2, PushMaps DEF Promise!Next
  <1>3. ASSUME NEW t \in Threads, PopWrite(t) PROVE Promise!Next
    BY <1>3, PopMaps DEF Promise!Next
  <1>4. ASSUME NEW t \in Threads, Set(t) PROVE Promise!Next
    BY <1>4, SetMaps DEF Promise!Next
  <1>5. ASSUME NEW t \in Threads, SetUnlock(t) \/ RoutineFails(t) \/ RoutineThrows(t)
        PROVE  Promise!Next
    BY <1>5, EndMaps DEF Promise!Next
  <1>6. ASSUME NEW t \in Threads,
               \/ Lock(t) \/ Push(t) \/ PushUnlock(t) \/ Pop(t) \/ PopThrows(t) \/ PopUnlock(t)
               \/ RoutineReturns(t)
        PROVE  UNCHANGED Promise!vars
    <2>1. /\ UNCHANGED <<added, queue, task, done>>
          /\ \A s \in Threads : Adding(s)' <=> Adding(s)
          /\ \A s \in Threads : Adding(s) => adding'[s] = adding[s]
      BY <1>6 DEF TypeOK, Adding, Lock, Locking, Push, PushUnlock, Pop, PopThrows, PopUnlock,
                  RoutineReturns, Throws, Caller, At, Go, work
    <2> QED BY <2>1, NoneMoves
  <1>7. ASSUME NEW w \in Workers,
               CreateEx(w) \/ Start(w) \/ Create(w) \/ Wait(w) \/ Check(w)
        PROVE  UNCHANGED Promise!vars
    <2>1. /\ UNCHANGED <<added, queue, task, done, adding>>
          /\ \A s \in Threads : Adding(s)' <=> Adding(s)
      BY <1>7 DEF TypeOK, Threads, Adding, CreateEx, Start, Create, Wait, Check, At, Go, work
    <2> QED BY <2>1, NoneMoves
  <1>8. CASE Execute \/ EndProgram \/ Drain \/ Free
    <2>1. /\ UNCHANGED <<added, queue, task, done, adding>>
          /\ \A s \in Threads : Adding(s)' <=> Adding(s)
      BY <1>8 DEF TypeOK, Threads, Adding, Execute, EndProgram, Drain, Free, At, Go, work
    <2>2. UNCHANGED Promise!vars
      BY <2>1, NoneMoves
    <2> QED BY <2>2
  <1>9. CASE (\E w \in Workers : StartupThrows(w) \/ Fault(w)) \/ Exit \/ UNCHANGED vars
    <2>1. UNCHANGED <<added, queue, task, done, adding, pc>>
      BY <1>9 DEF StartupThrows, Fault, Exit, vars, work
    <2>2. UNCHANGED Promise!vars
      BY <2>1, NoneMoves DEF Adding
    <2> QED BY <2>2
  <1> QED BY <1>1, <1>2, <1>3, <1>4, <1>5, <1>6, <1>7, <1>8, <1>9
          DEF Next, Library, Loop, Destructor, Terminated

LEMMA InitMaps == Init => HandsInv /\ Promise!Init
  <1> SUFFICES ASSUME Init PROVE HandsInv /\ Promise!Init
    OBVIOUS
  <1>1. Range(<< >>) = {}
    BY DEF Range
  <1>2. NumberInv /\ HandInv
    BY <1>1, ThreadAssumption DEF Init, NumberInv, HandInv, Adding
  <1>3. \A k \in Tasks : k > added
    BY BoundAssumption DEF Init, Tasks
  <1>4. Promise!Init
    BY <1>3 DEF Init, Promise!Init, StageOf
  <1> QED BY <1>2, <1>4, Initially DEF HandsInv

\* add(), execute() and set() implement TaskQueue, with any number of threads
\* that add and take, in whatever order their steps come.
THEOREM QueueImplements == Spec => Implements
  <1>1. HandsInv /\ [Next]_vars => HandsInv'
    BY TypeStep, MutexStep, SeenStep, TaskStep, ConsumerStep, OrderStep, NumberStep, HandStep
       DEF HandsInv, Inv
  <1>2. HandsInv /\ [Next]_vars => [Promise!Next]_(Promise!vars)
    BY StepMaps
  <1> QED BY <1>1, <1>2, InitMaps, PTL DEF Spec, Implements, Promise!Spec
=============================================================================
