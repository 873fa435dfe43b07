-------------------------------- MODULE App ---------------------------------
(***************************************************************************)
(* The sample application (sample/app.cpp): producers and consumers of one *)
(* forque as coroutines on the pool, and the main thread, which schedules  *)
(* them, waits for them and stops the pool.                                *)
(*                                                                         *)
(* The forque is what RelatedQueue promises; one mutex, first come first   *)
(* served as in FairLock, stands for those of its tree.  A coroutine that  *)
(* unlocks resumes the next holder, and a put or an interrupt the getters, *)
(* on the worker's stack and on top of the coroutine that does it.         *)
(***************************************************************************)
EXTENDS Pool

CONSTANTS
  NConsumers, NProducers,   \* 4 and 4 in the code
  NItems,                   \* the items of each producer, 100 in the code
  Tags                      \* what generate_tag may return

(* with no consumer nothing would be finalized, and with no producer there *)
(* would be no interrupt                                                   *)
ASSUME AppAssumption ==
  NConsumers \in Nat \ {0} /\ NProducers \in Nat \ {0} /\ NItems \in Nat

(* numbered as in main; each is a task and the sync_waited around it *)
Consumers == 0..NConsumers - 1
Producers == NConsumers..NConsumers + NProducers - 1
Coroutines == Consumers \cup Producers
Items == Producers \X (1..NItems)
Nobody == NConsumers + NProducers

VARIABLES
  main,       \* where main is
  producers,  \* the counter of producers that have not ended
  op,         \* what each coroutine does next
  item,       \* the item it has reserved, or got
  getters,    \* suspended in get, the last one first
  holder,     \* of the forque's mutex
  parked,     \* waiting for it
  status, tag, before, filled, interrupted, over   \* the forque

Lock == INSTANCE FairLock WITH
          Coros <- Coroutines, NoCoro <- Nobody, queue <- parked
Queue == INSTANCE RelatedQueue WITH stopped <- over

coVars == <<producers, op, item, getters>>
lockVars == <<holder, parked>>
queueVars == <<status, tag, before, filled, interrupted, over>>
vars == <<poolVars, main, coVars, lockVars, queueVars>>

LockingOps == {"reserve", "release", "finalize", "interrupt"}

(* c runs on worker w *)
OnTop(w, c) ==
  worker[w] = "running" /\ stack[w] # <<>> /\ Last(stack[w]) = c

(* ... and o is what it does next *)
Runs(w, c, o) == OnTop(w, c) /\ op[c] = o

(* ... outside of the forque, or with its mutex *)
RunsFree(w, c, o) == Runs(w, c, o) /\ holder # c
RunsInside(w, c, o) == Runs(w, c, o) /\ holder = c

Then(c, o) == op' = [op EXCEPT ![c] = o]

Ended == {c \in Coroutines : op[c] \in {"ended", "gone"}}

Pending == {i \in Items : Queue!Pending(i)}

-----------------------------------------------------------------------------
(* the operations of the forque *)

Call(w, c) ==
  /\ \E o \in LockingOps : RunsFree(w, c, o)
  /\ \/ Lock!Acquire(c) /\ UNCHANGED stack
     \/ Lock!Enqueue(c) /\ Pop(w)
  /\ UNCHANGED <<tasks, waiters, stopped, worker, main, coVars, queueVars>>

Reserve(w, c) ==
  /\ RunsInside(w, c, "reserve")
  /\ \E t \in Tags : Queue!Reserve(item[c], t) /\ filled' = filled
  /\ Then(c, "yield")
  /\ UNCHANGED <<poolVars, main, producers, item, getters, lockVars>>

Release(w, c) ==
  /\ RunsInside(w, c, "release")
  /\ Queue!Populate(item[c])
  /\ Then(c, "loop")
  /\ UNCHANGED <<poolVars, main, producers, item, getters, lockVars>>

Finalize(w, c) ==
  /\ RunsInside(w, c, "finalize")
  /\ Queue!Finalize(item[c])
  /\ over' = (over \/ (interrupted /\ Pending = {item[c]}))
  /\ Then(c, "get")
  /\ UNCHANGED <<poolVars, main, producers, item, getters, lockVars>>

Interrupt(w, c) ==
  /\ RunsInside(w, c, "interrupt")
  /\ Queue!Interrupt
  /\ over' = (Pending = {})
  /\ Then(c, "end")
  /\ UNCHANGED <<poolVars, main, producers, item, getters, lockVars>>

(* a put hands an item to the getter that came last, or the interrupt      *)
(* throws in it; either resumes it                                         *)
Deliver(w, c) ==
  /\ OnTop(w, c) /\ holder = c
  /\ op[c] \notin LockingOps /\ getters # <<>>
  /\ LET g == Head(getters)
     IN  /\ \/ \E i \in Items : /\ Queue!Serve(i)
                                /\ item' = [item EXCEPT ![g] = i]
                                /\ Then(g, "yield")
            \/ over /\ Then(g, "end") /\ UNCHANGED <<item, queueVars>>
         /\ Push(w, g)
  /\ getters' = Tail(getters)
  /\ UNCHANGED <<tasks, waiters, stopped, worker, main, producers, lockVars>>

Offered ==
  {i \in filled : /\ status[i] = "reserved"
                  /\ \A j \in before[i] : status[j] = "finalized"}

(* the mutex is unlocked *)
Leave(w, c) ==
  /\ OnTop(w, c)
  /\ op[c] \notin LockingOps
  /\ getters = <<>> \/ (Offered = {} /\ ~over)
  /\ \/ Lock!Free(c) /\ UNCHANGED stack
     \/ Lock!HandOver(c) /\ Push(w, holder')
  /\ UNCHANGED <<tasks, waiters, stopped, worker, main, coVars, queueVars>>

-----------------------------------------------------------------------------
(* produce and consume *)

(* pool::yield: c is in the queue before w is back from await_suspend, and *)
(* another worker can run it, or be through with it, in the meantime       *)
Yield(w, c) ==
  /\ RunsFree(w, c, "yield")
  /\ Then(c, IF c \in Producers THEN "release" ELSE "finalize")
  /\ Enqueue(c, Moved(w, "suspending")) /\ Pop(w)
  /\ UNCHANGED <<tasks, stopped, main, producers, item, getters, lockVars, queueVars>>

NextItem(w, c) ==
  /\ RunsFree(w, c, "loop") /\ item[c][2] < NItems
  /\ item' = [item EXCEPT ![c][2] = @ + 1]
  /\ Then(c, "reserve")
  /\ UNCHANGED <<poolVars, main, producers, getters, lockVars, queueVars>>

(* the last producer interrupts *)
LastItem(w, c) ==
  /\ RunsFree(w, c, "loop") /\ item[c][2] = NItems
  /\ producers' = producers - 1
  /\ Then(c, IF producers' = 0 THEN "interrupt" ELSE "end")
  /\ UNCHANGED <<poolVars, main, item, getters, lockVars, queueVars>>

(* get, in one critical section of the run queue: throws (and the consumer *)
(* leaves its loop), returns an item or suspends                           *)
Get(w, c) ==
  /\ RunsFree(w, c, "get")
  /\ \/ /\ over /\ Then(c, "end")
        /\ UNCHANGED <<stack, item, getters, queueVars>>
     \/ /\ ~over
        /\ \E i \in Items : Queue!Serve(i) /\ item' = [item EXCEPT ![c] = i]
        /\ Then(c, "yield")
        /\ UNCHANGED <<stack, getters>>
     \/ /\ ~over /\ Offered = {}
        /\ getters' = <<c>> \o getters /\ Pop(w)
        /\ UNCHANGED <<op, item, queueVars>>
  /\ UNCHANGED <<tasks, waiters, stopped, worker, main, producers, lockVars>>

(* the coroutine sets the promise that main waits for; then the calls on   *)
(* the worker's stack return                                               *)
End(w, c) ==
  /\ \/ RunsFree(w, c, "end") /\ Then(c, "ended") /\ UNCHANGED stack
     \/ RunsFree(w, c, "ended") /\ Then(c, "gone") /\ Pop(w)
  /\ UNCHANGED <<tasks, waiters, stopped, worker, main, producers, item, getters,
                 lockVars, queueVars>>

-----------------------------------------------------------------------------
(* main *)

MainGoto(from, to) == main = from /\ main' = to

AddConsumer ==
  /\ main = "schedule" /\ Len(tasks) \in Consumers
  /\ Schedule(Len(tasks))
  /\ UNCHANGED <<main, coVars, lockVars, queueVars>>

(* faulty variant: the counter is set when the first of them may have run  *)
AddProducerLate ==
  /\ main = "schedule" /\ Len(tasks) \in Producers
  /\ producers' = IF Len(tasks) = NConsumers THEN producers ELSE NProducers
  /\ Schedule(Len(tasks))
  /\ UNCHANGED <<main, op, item, getters, lockVars, queueVars>>

(* faulty variant: each producer is counted when it is scheduled           *)
AddProducerCounting ==
  /\ main = "schedule" /\ Len(tasks) \in Producers
  /\ producers' = producers + 1
  /\ Schedule(Len(tasks))
  /\ UNCHANGED <<main, op, item, getters, lockVars, queueVars>>

(* add_producers: the counter is set before the first of them can run      *)
AddProducer ==
  /\ main = "schedule" /\ Len(tasks) \in Producers
  /\ producers' = IF Len(tasks) = NConsumers THEN NProducers ELSE producers
  /\ Schedule(Len(tasks))
  /\ UNCHANGED <<main, op, item, getters, lockVars, queueVars>>

(* faulty variant: main waits for one of them only *)
WaitLast ==
  /\ Len(tasks) = NConsumers + NProducers /\ Last(tasks) \in Ended
  /\ MainGoto("schedule", "stop")
  /\ UNCHANGED <<poolVars, coVars, lockVars, queueVars>>

(* pool::wait, for one task after the other *)
Wait ==
  /\ Len(tasks) = NConsumers + NProducers /\ ToSet(tasks) \subseteq Ended
  /\ MainGoto("schedule", "stop")
  /\ UNCHANGED <<poolVars, coVars, lockVars, queueVars>>

(* pool::stop *)
StopPool ==
  /\ \/ MainGoto("stop", "notify") /\ SetStopped
     \/ MainGoto("notify", "join") /\ NotifyAll
     \/ MainGoto("join", "returned") /\ Joined /\ UNCHANGED poolVars
  /\ UNCHANGED <<coVars, lockVars, queueVars>>

MainStep == AddConsumer \/ AddProducer \/ Wait \/ StopPool

-----------------------------------------------------------------------------
Init ==
  /\ PoolInit /\ Lock!Init /\ Queue!Init
  /\ main = "schedule"
  /\ producers = 0
  /\ op = [c \in Coroutines |-> IF c \in Producers THEN "loop" ELSE "get"]
  /\ item = [c \in Coroutines |-> <<c, 0>>]
  /\ getters = <<>>

Loop(w) == WorkerLoop(w) /\ UNCHANGED <<main, coVars, lockVars, queueVars>>

Run(w, c) ==
  \/ Call(w, c) \/ Reserve(w, c) \/ Release(w, c) \/ Finalize(w, c)
  \/ Interrupt(w, c) \/ Deliver(w, c) \/ Leave(w, c)
  \/ Yield(w, c) \/ NextItem(w, c) \/ LastItem(w, c) \/ Get(w, c) \/ End(w, c)

WorkerStep(w) == Loop(w) \/ \E c \in Coroutines : Run(w, c)

Spurious(w) ==
  SpuriousWakeup(w) /\ UNCHANGED <<main, coVars, lockVars, queueVars>>

Done == main = "returned" /\ UNCHANGED vars

Next == (\E w \in Workers : WorkerStep(w) \/ Spurious(w)) \/ MainStep \/ Done

Spec == Init /\ [][Next]_vars

(* The threads run; nobody has to be woken without a notification.         *)
Fairness == WF_vars(MainStep) /\ \A w \in Workers : WF_vars(WorkerStep(w))

FairSpec == Spec /\ Fairness

-----------------------------------------------------------------------------
(* The variables have their types.                                         *)
TypeOK ==
  /\ main \in {"schedule", "stop", "notify", "join", "returned"}
  /\ producers \in 0..NProducers
  /\ op \in [Coroutines -> LockingOps
                          \cup {"loop", "yield", "get", "end", "ended", "gone"}]
  /\ item \in [Coroutines -> Producers \X (0..NItems) \cup Consumers \X {0}]
  /\ getters \in Seq(Consumers)
  /\ tasks \in Seq(Coroutines) /\ waiters \in Seq(Coroutines)
  /\ stopped \in BOOLEAN
  /\ worker \in [Workers -> Points]
  /\ stack \in [Workers -> Seq(Coroutines)]
  /\ holder \in Coroutines \cup {Nobody} /\ parked \in Seq(Coroutines)

Count(s, c) == Cardinality({k \in DOMAIN s : s[k] = c})
OnStacks(c) == Cardinality(UNION {{w} \X {k \in DOMAIN stack[w] : stack[w][k] = c} :
                                  w \in Workers})

(* A scheduled coroutine is in one place until it is through: on one       *)
(* worker's stack, or waiting once for the pool, the mutex or an item.     *)
(* Nobody resumes it a second time and nobody forgets it, and with the     *)
(* mutex it is on a stack: whoever waits for the mutex waits for a worker  *)
(* (pool.cpp:9-26, 41-44; a consumer resumed inside of a put, forque.hpp:  *)
(* 335, runs up to its yield).                                             *)
OnePlace ==
  \A c \in Coroutines :
    /\ Count(waiters, c) + Count(parked, c) + Count(getters, c) + OnStacks(c)
         = IF c \in ToSet(tasks) /\ op[c] # "gone" THEN 1 ELSE 0
    /\ c = holder => OnStacks(c) = 1

(* The producer that brings the counter to zero is the last to release: an *)
(* interrupt refuses nobody's reservation (app.cpp:52, 106-108, 148-152).  *)
NobodyRefused ==
  interrupted => \A i \in Items : status[i] # "new" /\ i \in filled

(* Once the pool is stopped nothing is left for it, and nothing was        *)
(* skipped: all the coroutines have ended and every item is finalized.     *)
(* When main returns, which destroys their frames, the awaitables and the  *)
(* promises in them, no worker is inside of one any more: not in its code, *)
(* not in the set_value that main has waited for, and not in a yield from  *)
(* which another worker has taken the coroutine on to its end              *)
(* (pool.cpp:23, 41-44, 63-75, sync_wait.hpp:50, app.cpp:163-165).         *)
CleanExit ==
  /\ stopped => /\ waiters = <<>> /\ Ended = Coroutines
                /\ \A i \in Items : status[i] = "finalized"
  /\ main = "returned" =>
       \A w \in Workers : stack[w] = <<>> /\ worker[w] # "suspending"

(* main returns.                                                           *)
Returns == <>(main = "returned")
=============================================================================
