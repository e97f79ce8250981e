---------------------------- MODULE WorkerQueue ----------------------------
(***************************************************************************)
(* Threads in PHP: the task queue of zend/Types/Thread.php, the threads    *)
(* that zend/Types/PThread.php starts on it and the results of             *)
(* zend/TValue.php.                                                        *)
(*                                                                         *)
(* A Thread object has a queue under a mutex.  The program adds routines;  *)
(* native threads run the loop of PThread's closure: while the queue is    *)
(* not empty, take a task, run it, set its result.  At the end of the      *)
(* program the destructor runs what is left.  Every call is split where    *)
(* another thread can see or change what it uses; empty() does not lock.   *)
(***************************************************************************)
EXTENDS Integers, Sequences, Functions

CONSTANTS
    Workers,        \* PThread objects
    Main,           \* the thread of the program
    NoOne,          \* no thread holds the mutex, no task is in hand
    MaxTasks        \* bound: routines added

Threads == Workers \cup {Main}
Tasks   == 1 .. MaxTasks

ASSUME ThreadAssumption == Main \notin Workers /\ NoOne \notin Threads /\ NoOne \notin Tasks
ASSUME BoundAssumption  == MaxTasks \in Nat

VARIABLES
    queue,          \* Thread::$worker, an SplQueue
    mutex,          \* the holder of Thread::$worker_mutex
    pc,             \* where each thread is
    seen,           \* the list an enqueue or dequeue in progress has read
    adding,         \* the task a thread is adding
    task,           \* the task a thread executes
    added,          \* number of tasks added
    done,           \* tasks whose TValue is set
    phase,          \* of the Thread object: "used", "drained" or "freed"
    over,           \* the process has ended
    enqueued, taken,\* the tasks in the order they were enqueued and dequeued
    consumers,      \* threads that have been taking tasks
    byHand          \* the program called execute() itself

work    == <<queue, seen, adding, task, added, done>>
history == <<enqueued, taken, consumers, byHand>>
vars    == <<mutex, pc, work, phase, over, history>>

\* The parts of push(), pop() and TValue::set() under the mutex.
Critical == {"push", "push_write", "push_unlock", "pop", "pop_write", "pop_unlock",
             "set", "set_unlock"}
Locking  == {"push_lock", "pop_lock", "set_lock"}
Pc == Critical \cup Locking
      \cup {"program", "join", "drain", "end", "new", "startup", "wait", "check", "routine"}

TypeOK ==
    /\ queue \in Seq(Tasks) /\ enqueued \in Seq(Tasks) /\ taken \in Seq(Tasks)
    /\ mutex \in Threads \cup {NoOne}
    /\ pc \in [Threads -> Pc]
    /\ seen \in [Threads -> Seq(Tasks)]
    /\ adding \in [Threads -> Tasks \cup {NoOne}]
    /\ task \in [Threads -> Tasks \cup {NoOne}]
    /\ added \in 0 .. MaxTasks /\ done \subseteq Tasks
    /\ phase \in {"used", "drained", "freed"}
    /\ over \in BOOLEAN /\ byHand \in BOOLEAN
    /\ consumers \subseteq Threads

Init ==
    /\ queue = << >> /\ enqueued = << >> /\ taken = << >>
    /\ mutex = NoOne
    /\ pc = [t \in Threads |-> IF t = Main THEN "program" ELSE "new"]
    /\ seen = [t \in Threads |-> << >>]
    /\ adding = [t \in Threads |-> NoOne] /\ task = [t \in Threads |-> NoOne]
    /\ added = 0 /\ done = {}
    /\ phase = "used" /\ over = FALSE
    /\ consumers = {} /\ byHand = FALSE

-----------------------------------------------------------------------------
At(t, place)  == ~over /\ pc[t] = place
Go(t, place)  == pc' = [pc EXCEPT ![t] = place]
\* The mutex and the queue exist until the destructor has ended.
Exists        == phase # "freed"

\* Where a thread goes on when execute() returns.
Home(t) == IF t # Main THEN "check" ELSE IF phase = "used" THEN "program" ELSE "drain"

\* Where it goes on when add() returns.
Caller(t) == IF task[t] = NoOne THEN "program" ELSE "routine"

\* Mutant of Acquired: push() takes no lock.
AcquiredByPopOnly(t) ==
    IF pc[t] = "push_lock" THEN mutex' = mutex ELSE mutex = NoOne /\ mutex' = t

\* Mutant of Acquired: pop() takes no lock.
AcquiredByPushOnly(t) ==
    IF pc[t] = "pop_lock" THEN mutex' = mutex ELSE mutex = NoOne /\ mutex' = t

\* tsrm_mutex_lock().  The mutex is not recursive.
Acquired(t) == mutex = NoOne /\ mutex' = t

\* Mutant of Released: TValue::set() does not unlock.
ReleasedNotBySet(t) == mutex' = IF pc[t] = "set_unlock" THEN mutex ELSE NoOne

\* tsrm_mutex_unlock().
Released(t) == mutex' = NoOne

Lock(t) ==
    /\ Exists /\ ~over /\ pc[t] \in Locking
    /\ Acquired(t)
    /\ Go(t, CASE pc[t] = "push_lock" -> "push"
               [] pc[t] = "pop_lock"  -> "pop"
               [] pc[t] = "set_lock"  -> "set")
    /\ UNCHANGED <<work, phase, over, history>>

-----------------------------------------------------------------------------
(* add() and push(), by the program or by a routine.                       *)

Add(t) ==
    /\ Exists /\ ~over /\ pc[t] \in {"program", "routine"}
    /\ added < MaxTasks
    /\ added' = added + 1
    /\ adding' = [adding EXCEPT ![t] = added + 1]
    /\ Go(t, "push_lock")
    /\ UNCHANGED <<mutex, queue, seen, task, done, phase, over, history>>

Push(t) ==
    /\ Exists /\ At(t, "push")
    /\ seen' = [seen EXCEPT ![t] = queue]
    /\ Go(t, "push_write")
    /\ UNCHANGED <<mutex, queue, adding, task, added, done, phase, over, history>>

PushWrite(t) ==
    /\ Exists /\ At(t, "push_write")
    /\ queue' = Append(seen[t], adding[t])
    /\ enqueued' = Append(enqueued, adding[t])
    /\ Go(t, "push_unlock")
    /\ UNCHANGED <<mutex, seen, adding, task, added, done, phase, over,
                   taken, consumers, byHand>>

PushUnlock(t) ==
    /\ Exists /\ At(t, "push_unlock")
    /\ Released(t)
    /\ adding' = [adding EXCEPT ![t] = NoOne]
    /\ Go(t, Caller(t))
    /\ UNCHANGED <<queue, seen, task, added, done, phase, over, history>>

-----------------------------------------------------------------------------
(* execute() and pop().                                                    *)

\* The program calls execute() itself.
Execute ==
    /\ Exists /\ At(Main, "program")
    /\ byHand' = TRUE /\ consumers' = consumers \cup {Main}
    /\ Go(Main, "pop_lock")
    /\ UNCHANGED <<mutex, work, phase, over, enqueued, taken>>

Pop(t) ==
    /\ Exists /\ At(t, "pop") /\ queue # << >>
    /\ seen' = [seen EXCEPT ![t] = queue]
    /\ Go(t, "pop_write")
    /\ UNCHANGED <<mutex, queue, adding, task, added, done, phase, over, history>>

\* An exception leaves execute(): the program's own call may catch it; that
\* of the worker loop leaves the FFI callback, which ends the process, and
\* so does that of the destructor.
Throws(t) ==
    IF t = Main /\ phase = "used"
    THEN Go(t, "program") /\ over' = over
    ELSE pc' = pc /\ over' = TRUE

\* dequeue() throws when there is nothing, between lock and unlock.
PopThrows(t) ==
    /\ Exists /\ At(t, "pop") /\ queue = << >>
    /\ Throws(t)
    /\ UNCHANGED <<mutex, work, phase, history>>

\* execute() holds what pop() returns.
Taken(t) == [task EXCEPT ![t] = Head(seen[t])]

PopWrite(t) ==
    /\ Exists /\ At(t, "pop_write")
    /\ queue' = Tail(seen[t])
    /\ task' = Taken(t)
    /\ taken' = Append(taken, Head(seen[t]))
    /\ Go(t, "pop_unlock")
    /\ UNCHANGED <<mutex, seen, adding, added, done, phase, over,
                   enqueued, consumers, byHand>>

PopUnlock(t) ==
    /\ Exists /\ At(t, "pop_unlock")
    /\ Released(t)
    /\ Go(t, "routine")
    /\ UNCHANGED <<work, phase, over, history>>

RoutineReturns(t) ==
    /\ At(t, "routine")
    /\ Go(t, "set_lock")
    /\ UNCHANGED <<mutex, work, phase, over, history>>

\* The call fails: there is no result.
RoutineFails(t) ==
    /\ At(t, "routine")
    /\ task' = [task EXCEPT ![t] = NoOne]
    /\ Go(t, Home(t))
    /\ UNCHANGED <<mutex, queue, seen, adding, added, done, phase, over, history>>

RoutineThrows(t) ==
    /\ At(t, "routine")
    /\ Throws(t)
    /\ task' = [task EXCEPT ![t] = NoOne]
    /\ UNCHANGED <<mutex, queue, seen, adding, added, done, phase, history>>

\* TValue::set().
Set(t) ==
    /\ Exists /\ At(t, "set")
    /\ done' = done \cup {task[t]}
    /\ Go(t, "set_unlock")
    /\ UNCHANGED <<mutex, queue, seen, adding, task, added, phase, over, history>>

SetUnlock(t) ==
    /\ Exists /\ At(t, "set_unlock")
    /\ Released(t)
    /\ task' = [task EXCEPT ![t] = NoOne]
    /\ Go(t, Home(t))
    /\ UNCHANGED <<queue, seen, adding, added, done, phase, over, history>>

-----------------------------------------------------------------------------
(* Threads.                                                                *)

\* create_ex(): the thread w starts on the queue.
CreateEx(w) ==
    /\ Exists /\ At(Main, "program") /\ pc[w] = "new"
    /\ consumers' = consumers \cup {w}
    /\ Go(w, "wait")
    /\ UNCHANGED <<mutex, work, phase, over, enqueued, taken, byHand>>

\* start() joins the thread, which never ends.
Start(w) ==
    /\ Exists /\ At(Main, "program") /\ pc[w] = "new"
    /\ consumers' = consumers \cup {w}
    /\ pc' = [pc EXCEPT ![w] = "wait", ![Main] = "join"]
    /\ UNCHANGED <<mutex, work, phase, over, enqueued, taken, byHand>>

\* PThread::create(): the thread gets the PThread itself and one routine.
Create(w) ==
    /\ At(Main, "program") /\ pc[w] = "new"
    /\ Go(w, "startup")
    /\ UNCHANGED <<mutex, work, phase, over, history>>

\* thread_startup() takes a Thread only; the TypeError leaves the callback.
StartupThrows(w) ==
    /\ At(w, "startup")
    /\ over' = TRUE
    /\ UNCHANGED <<mutex, pc, work, phase, history>>

\* wait() returns SUCCESS at once.
Wait(w) ==
    /\ At(w, "wait")
    /\ Go(w, "check")
    /\ UNCHANGED <<mutex, work, phase, over, history>>

\* Mutant of Found: the loop executes first and asks later.
FoundAlways == TRUE

\* Mutant of Found: the test is the wrong way round.
FoundNone == queue = << >>

\* ! empty(), which does not lock.
Found == queue # << >>

\* while (!$thread->empty()).
Check(w) ==
    /\ Exists /\ At(w, "check")
    /\ Go(w, IF Found THEN "pop_lock" ELSE "wait")
    /\ UNCHANGED <<mutex, work, phase, over, history>>

-----------------------------------------------------------------------------
(* The end: the destructor of the Thread object.                           *)

EndProgram ==
    /\ At(Main, "program")
    /\ phase' = "drained"
    /\ Go(Main, "drain")
    /\ UNCHANGED <<mutex, work, over, history>>

Drain ==
    /\ At(Main, "drain") /\ Found
    /\ consumers' = consumers \cup {Main}
    /\ Go(Main, "pop_lock")
    /\ UNCHANGED <<mutex, work, phase, over, enqueued, taken, byHand>>

Free ==
    /\ At(Main, "drain") /\ ~Found
    /\ phase' = "freed"
    /\ Go(Main, "end")
    /\ UNCHANGED <<mutex, work, over, history>>

Exit ==
    /\ At(Main, "end")
    /\ over' = TRUE
    /\ UNCHANGED <<mutex, pc, work, phase, history>>

\* A worker that goes on with the queue or the mutex then finds neither.
Fault(w) ==
    /\ ~over /\ phase = "freed" /\ pc[w] \in Critical \cup Locking \cup {"check"}
    /\ over' = TRUE
    /\ UNCHANGED <<mutex, pc, work, phase, history>>

Terminated == over /\ UNCHANGED vars

-----------------------------------------------------------------------------
\* The steps of a thread inside a call or a loop of the library.
Library(t) ==
    \/ Lock(t) \/ Push(t) \/ PushWrite(t) \/ PushUnlock(t)
    \/ Pop(t) \/ PopThrows(t) \/ PopWrite(t) \/ PopUnlock(t) \/ Set(t) \/ SetUnlock(t)

Loop(w) == Wait(w) \/ Check(w) \/ StartupThrows(w) \/ Fault(w)

Destructor == Drain \/ Free \/ Exit

Next ==
    \/ \E t \in Threads : \/ Library(t) \/ Add(t)
                          \/ RoutineReturns(t) \/ RoutineFails(t) \/ RoutineThrows(t)
    \/ \E w \in Workers : CreateEx(w) \/ Start(w) \/ Create(w) \/ Loop(w)
    \/ Execute \/ EndProgram \/ Destructor
    \/ Terminated

\* The scheduler runs every thread again and again, and routines end.
Fairness ==
    /\ \A t \in Threads : WF_vars(Library(t)) /\ WF_vars(RoutineReturns(t))
    /\ \A w \in Workers : WF_vars(Loop(w))
    /\ WF_vars(Destructor)

Spec == Init /\ [][Next]_vars /\ Fairness

-----------------------------------------------------------------------------
(* Properties.                                                             *)

\* No task is lost, duplicated or overtaken, whoever adds and takes: the
\* tasks taken and those in the queue are the tasks enqueued, in that order.
TasksInOrder == taken \o queue = enqueued

\* Programs in which one thread takes the tasks (the one worker, or the
\* destructor): two that find the queue not empty may take the same last
\* task, and a call of execute() by hand need not ask at all.
SafeUse == ~byHand /\ \A s, t \in consumers : s = t

\* There the test of empty(), made without the lock, still holds when pop()
\* has the lock: dequeue() does not throw.
NoUnderflow == SafeUse => \A t \in Threads : pc[t] \in {"pop_lock", "pop"} => queue # << >>

\* And the mutex is held only by a thread that is about to release it: no
\* exception leaves it locked.
MutexReleased == SafeUse => (mutex # NoOne => pc[mutex] \in Critical)

\* A worker on the queue takes every task that is added, in a program of
\* that kind that goes on.
TasksRun ==
    \A k \in Tasks :
        (k <= added /\ consumers \cap Workers # {})
            ~> (\E n \in DOMAIN taken : taken[n] = k) \/ ~SafeUse \/ over

\* add() returns: no thread waits for the mutex for ever.
AddReturns ==
    \A t \in Threads : (pc[t] = "push_lock") ~> (pc[t] # "push_lock" \/ ~SafeUse \/ over)

-----------------------------------------------------------------------------
(* What the queue implements.                                              *)

\* The thread t has not put its task into the queue yet.
Adding(t) == pc[t] \in {"push_lock", "push", "push_write"}

\* How far a task has come.
StageOf(k) ==
    IF k > added THEN "none"
    ELSE IF \E t \in Threads : Adding(t) /\ adding[t] = k THEN "new"
    ELSE IF k \in Range(queue) THEN "waiting"
    ELSE IF \E t \in Threads : task[t] = k THEN "running"
    ELSE "finished"

Promise == INSTANCE TaskQueue WITH stage <- [k \in Tasks |-> StageOf(k)], results <- done

\* Thread's add(), execute() and TValue's set() implement TaskQueue, in any
\* program and with any interleaving: no task is run by two threads, and the
\* result that is set is that of a task that is running and has none.
Implements == Promise!Spec

-----------------------------------------------------------------------------
(* What makes them invariant.                                              *)

MutexInv == \A t \in Threads : pc[t] \in Critical => mutex = t

SeenInv == \A t \in Threads :
    /\ pc[t] \in {"push_write", "pop_write"} => seen[t] = queue
    /\ pc[t] = "pop_write" => queue # << >>
    /\ Adding(t) => adding[t] \in Tasks

\* A thread on the way through execute() has a task in hand.
TaskInv == ~over => \A t \in Threads :
    pc[t] \in {"pop_unlock", "routine", "set_lock", "set", "set_unlock"} => task[t] \in Tasks

\* Only consumers are on the way to the queue's head or execute a task.
ConsumerInv == \A t \in Threads :
    (pc[t] \in {"pop_lock", "pop", "pop_write", "wait", "check"} \/ task[t] # NoOne)
        => t \in consumers

\* A task is enqueued once, after it was added and by the thread that added it.
NumberInv ==
    /\ \A k \in Range(enqueued) : k <= added
    /\ \A m, n \in DOMAIN enqueued : enqueued[m] = enqueued[n] => m = n
    /\ \A t \in Threads : Adding(t) => adding[t] <= added /\ adding[t] \notin Range(enqueued)
    /\ \A s, t \in Threads : Adding(s) /\ Adding(t) /\ adding[s] = adding[t] => s = t

\* Where a thread is while it executes a task; the routine may add others.
Executing == {"pop_unlock", "routine", "set_lock", "set", "set_unlock",
              "push_lock", "push", "push_write", "push_unlock"}

\* A task in hand was taken, is in no other hand and has no result before set().
HandInv ==
    /\ \A t \in Threads : task[t] # NoOne => task[t] \in Range(taken) /\ pc[t] \in Executing
    /\ \A s, t \in Threads : task[s] = task[t] /\ task[s] # NoOne => s = t
    /\ \A t \in Threads : task[t] \in done => pc[t] = "set_unlock"
    /\ done \subseteq Range(taken)

-----------------------------------------------------------------------------
\* "@var Thread|PThread": the closure of PThread is prepared for a thread
\* that create() has started with the PThread itself.
PThreadStarts == [][\A w \in Workers : ~StartupThrows(w)]_vars
=============================================================================
