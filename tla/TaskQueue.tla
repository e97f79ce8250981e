----------------------------- MODULE TaskQueue -----------------------------
(***************************************************************************)
(* What a Thread object promises, without threads, mutex or queue          *)
(* operations: a routine that is added is put at the end of a queue, is    *)
(* taken from its head by somebody, once, runs, and gets at most one       *)
(* result, which is set while it runs.                                     *)
(***************************************************************************)
EXTENDS Sequences

CONSTANT Tasks

VARIABLES
    stage,          \* of each task
    queue,          \* the tasks that wait
    results         \* the tasks that have a result

vars == <<stage, queue, results>>

Init ==
    /\ stage = [k \in Tasks |-> "none"]
    /\ queue = << >>
    /\ results = {}

Moves(k, from, to) ==
    /\ stage[k] = from
    /\ stage' = [stage EXCEPT ![k] = to]

Add(k) == Moves(k, "none", "new") /\ UNCHANGED <<queue, results>>

Enqueue(k) ==
    /\ Moves(k, "new", "waiting")
    /\ queue' = Append(queue, k)
    /\ results' = results

Take ==
    /\ queue # << >>
    /\ Moves(Head(queue), "waiting", "running")
    /\ queue' = Tail(queue)
    /\ results' = results

SetResult(k) ==
    /\ stage[k] = "running" /\ k \notin results
    /\ results' = results \cup {k}
    /\ UNCHANGED <<stage, queue>>

Finish(k) == Moves(k, "running", "finished") /\ UNCHANGED <<queue, results>>

Next ==
    \/ \E k \in Tasks : Add(k) \/ Enqueue(k) \/ SetResult(k) \/ Finish(k)
    \/ Take

Spec == Init /\ [][Next]_vars
=============================================================================
