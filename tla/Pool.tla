-------------------------------- MODULE Pool --------------------------------
(***************************************************************************)
(* The thread pool of the sample (sample/pool.hpp, sample/pool.cpp): a     *)
(* queue of coroutines under a condition variable, and worker threads that *)
(* resume them.  A worker is its native stack, as in module Task.  The     *)
(* coroutines, and the thread that owns the pool, are module App.          *)
(***************************************************************************)
EXTENDS Naturals, FiniteSets, SequencesExt

CONSTANT Workers

(* a pool of no threads runs nothing *)
ASSUME WorkersAssumption == Workers # {}

VARIABLES
  tasks,     \* pool::tasks_, the coroutines scheduled so far
  waiters,   \* run_queue::waiters_, the coroutines to be resumed
  stopped,   \* run_queue::stopped_
  worker,    \* where each worker is: at the check of its loop, entering
             \* run_next (or woken in it), asleep, running, in an
             \* await_suspend whose coroutine is in the queue already, or left
  stack      \* the coroutines resumed on it, the one that runs last

poolVars == <<tasks, waiters, stopped, worker, stack>>

(* where a worker can be *)
Points == {"check", "enter", "asleep", "running", "suspending", "left"}

Asleep == {w \in Workers : worker[w] = "asleep"}

(* all the workers, with w at a point *)
Moved(w, point) == [worker EXCEPT ![w] = point]
Goto(w, point) == worker' = Moved(w, point)

(* the coroutine that runs on w resumes another one, or is suspended *)
Push(w, c) == stack' = [stack EXCEPT ![w] = Append(@, c)]
Pop(w) == stack' = [stack EXCEPT ![w] = Front(@)]

(* one of those asleep, if any, is woken; the rest go where at says *)
NotifyOne(at) == IF Asleep = {} THEN worker' = at
                 ELSE \E w \in Asleep : worker' = [at EXCEPT ![w] = "enter"]

(* faulty variant: the size is looked at before the push *)
EnqueueLate(c, at) ==
  /\ waiters' = Append(waiters, c)
  /\ IF Len(waiters) = 1 THEN NotifyOne(at) ELSE worker' = at

(* run_queue::enqueue, under lock_ *)
Enqueue(c, at) ==
  /\ waiters' = Append(waiters, c)
  /\ IF Len(waiters') = 1 THEN NotifyOne(at) ELSE worker' = at

-----------------------------------------------------------------------------
(* the loop of a worker, and run_next *)

CheckStopped(w) ==
  /\ worker[w] = "check"
  /\ Goto(w, IF stopped THEN "left" ELSE "enter")
  /\ UNCHANGED <<tasks, waiters, stopped, stack>>

(* the predicate is false: lock_ is let go of and the worker waits *)
Sleep(w) ==
  /\ worker[w] = "enter" /\ waiters = <<>> /\ ~stopped
  /\ Goto(w, "asleep")
  /\ UNCHANGED <<tasks, waiters, stopped, stack>>

(* wait may return without a notification *)
SpuriousWakeup(w) ==
  /\ worker[w] = "asleep"
  /\ Goto(w, "enter")
  /\ UNCHANGED <<tasks, waiters, stopped, stack>>

SeeStopped(w) ==
  /\ worker[w] = "enter" /\ stopped
  /\ Goto(w, "check")
  /\ UNCHANGED <<tasks, waiters, stopped, stack>>

(* faulty variant: the coroutine stays in the queue *)
TakeNextKept(w) ==
  /\ worker[w] = "enter" /\ waiters # <<>> /\ ~stopped
  /\ Push(w, Head(waiters))
  /\ Goto(w, "running")
  /\ UNCHANGED <<tasks, waiters, stopped>>

TakeNext(w) ==
  /\ worker[w] = "enter" /\ waiters # <<>> /\ ~stopped
  /\ waiters' = Tail(waiters)
  /\ Push(w, Head(waiters))
  /\ Goto(w, "running")
  /\ UNCHANGED <<tasks, stopped>>

(* w is back from the await_suspend that has put a coroutine in the queue; *)
(* by now any worker may run it                                            *)
SuspendReturns(w) ==
  /\ worker[w] = "suspending"
  /\ Goto(w, "running")
  /\ UNCHANGED <<tasks, waiters, stopped, stack>>

(* resume() has returned *)
Resumed(w) ==
  /\ worker[w] = "running" /\ stack[w] = <<>>
  /\ Goto(w, "check")
  /\ UNCHANGED <<tasks, waiters, stopped, stack>>

WorkerLoop(w) ==
  \/ CheckStopped(w) \/ Sleep(w) \/ SeeStopped(w) \/ TakeNext(w)
  \/ SuspendReturns(w) \/ Resumed(w)

-----------------------------------------------------------------------------
(* what the owner of the pool calls *)

Schedule(c) ==
  /\ tasks' = Append(tasks, c)
  /\ Enqueue(c, worker)
  /\ UNCHANGED <<stopped, stack>>

(* the two halves of run_queue::stop *)
SetStopped ==
  /\ stopped' = TRUE
  /\ UNCHANGED <<tasks, waiters, worker, stack>>

(* faulty variant: only one worker is woken *)
NotifyAny == NotifyOne(worker) /\ UNCHANGED <<tasks, waiters, stopped, stack>>

NotifyAll ==
  /\ worker' = [w \in Workers |-> IF w \in Asleep THEN "enter" ELSE worker[w]]
  /\ UNCHANGED <<tasks, waiters, stopped, stack>>

(* faulty variant: main waits until no coroutine runs, not for the workers  *)
JoinedIdle == \A w \in Workers : stack[w] = <<>>

Joined == \A w \in Workers : worker[w] = "left"

PoolInit ==
  /\ tasks = <<>>
  /\ waiters = <<>>
  /\ stopped = FALSE
  /\ worker = [w \in Workers |-> "check"]
  /\ stack = [w \in Workers |-> <<>>]

-----------------------------------------------------------------------------
(* A coroutine is never left in the queue with all the workers asleep,     *)
(* although enqueue wakes one only when the queue was empty: a worker that *)
(* is awake comes back to the queue before it sleeps (pool.cpp:12, 19-21). *)
NoSleeper ==
  waiters # <<>> /\ ~stopped => \E w \in Workers : worker[w] # "asleep"
=============================================================================
