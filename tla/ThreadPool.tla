----------------------------- MODULE ThreadPool -----------------------------
(***************************************************************************)
(* ThreadPool and SynchronizedQueue (nvidia/thread_pool.cpp,               *)
(* nvidia/synchronized_queue.h): workers that take tasks from a queue      *)
(* guarded by a mutex and a condition variable.  What a task does is left  *)
(* to the modules that extend this one: a worker with pc "run" runs        *)
(* task[w] and goes on with "loop".                                        *)
(***************************************************************************)
EXTENDS Integers, Sequences, FiniteSets

CONSTANTS Workers,   \* the threads of the pool
          Tasks,     \* the tasks pushed to it
          doNothing  \* the task the destructor pushes

ASSUME PoolAssumption == IsFiniteSet(Workers) /\ doNothing \notin Tasks

VARIABLES queue, \* work_queue
          pc,    \* where each worker is
          task,  \* the last task it took
          done,  \* set by the destructor
          pills  \* how many doNothing the destructor has pushed

poolVars == <<queue, pc, task, done, pills>>

PoolInit ==
    /\ queue = <<>>
    /\ pc = [w \in Workers |-> "loop"]
    /\ task = [w \in Workers |-> doNothing]
    /\ done = FALSE
    /\ pills = 0

\* put: append and notify_one.  The thread notified is any of those that wait.
Waiting == {w \in Workers : pc[w] = "wait"}

\* A faulty variant: notify only when the queue was empty.
PutNotifiesFirst(t) ==
    /\ queue' = Append(queue, t)
    /\ \/ Waiting = {} /\ UNCHANGED pc
       \/ Waiting # {} /\ queue # <<>> /\ UNCHANGED pc
       \/ queue = <<>> /\ \E w \in Waiting : pc' = [pc EXCEPT ![w] = "woken"]

Put(t) ==
    /\ queue' = Append(queue, t)
    /\ \/ Waiting = {} /\ UNCHANGED pc
       \/ \E w \in Waiting : pc' = [pc EXCEPT ![w] = "woken"]

-----------------------------------------------------------------------------
\* worker_thread: while (!done).
Test(w) ==
    /\ pc[w] = "loop"
    /\ pc' = [pc EXCEPT ![w] = IF done THEN "exit" ELSE "get"]
    /\ UNCHANGED <<queue, task, done, pills>>

\* A faulty variant: a woken worker does not look at the queue again ("if" for
\* "while"), and takes what it finds in an empty one.
TakeUnchecked(w) ==
    /\ \/ pc[w] = "get" /\ queue # <<>>
       \/ pc[w] = "woken"
    /\ task' = [task EXCEPT ![w] = IF queue = <<>> THEN "garbage" ELSE Head(queue)]
    /\ queue' = IF queue = <<>> THEN <<>> ELSE Tail(queue)
    /\ pc' = [pc EXCEPT ![w] = "run"]
    /\ UNCHANGED <<done, pills>>

\* get, with the mutex: the queue has a task ...
Take(w) ==
    /\ pc[w] \in {"get", "woken"}
    /\ queue # <<>>
    /\ task' = [task EXCEPT ![w] = Head(queue)]
    /\ queue' = Tail(queue)
    /\ pc' = [pc EXCEPT ![w] = "run"]
    /\ UNCHANGED <<done, pills>>

\* ... or it is empty, and the worker waits.
Sleep(w) ==
    /\ pc[w] \in {"get", "woken"}
    /\ queue = <<>>
    /\ pc' = [pc EXCEPT ![w] = "wait"]
    /\ UNCHANGED <<queue, task, done, pills>>

\* A condition variable may wake a thread that was not notified.
WakeSpuriously(w) ==
    /\ pc[w] = "wait"
    /\ pc' = [pc EXCEPT ![w] = "woken"]
    /\ UNCHANGED <<queue, task, done, pills>>

RunNothing(w) ==
    /\ pc[w] = "run" /\ task[w] = doNothing
    /\ pc' = [pc EXCEPT ![w] = "loop"]
    /\ UNCHANGED <<queue, task, done, pills>>

-----------------------------------------------------------------------------
\* ~ThreadPool: done, one doNothing for each thread; then it joins them.
SetDone ==
    /\ ~done
    /\ done' = TRUE
    /\ UNCHANGED <<queue, pc, task, pills>>

PushNothing ==
    /\ done /\ pills < Cardinality(Workers)
    /\ Put(doNothing)
    /\ pills' = pills + 1
    /\ UNCHANGED <<task, done>>

Joined == \A w \in Workers : pc[w] = "exit"

PoolTypeOK ==
    /\ queue \in Seq(Tasks \cup {doNothing})
    /\ pc \in [Workers -> {"loop", "get", "wait", "woken", "run", "exit"}]
    /\ task \in [Workers -> Tasks \cup {doNothing}]
    /\ done \in BOOLEAN
    /\ pills \in 0 .. Cardinality(Workers)
=============================================================================
