------------------------------- MODULE Runque -------------------------------
(***************************************************************************)
(* runque<Queue, coro_thread_model> (src/inc/runque.hpp:308-435) with the  *)
(* three queues of its items.  get, put and interrupt each do their work   *)
(* in one critical section of mutex_ (a get that suspends unlocks it in    *)
(* await_suspend, once it can be resumed); put and interrupt then resume   *)
(* the getters they have unlinked, outside of it, one after the other.     *)
(* runque<Queue, single_thread_model> (176-236) is the same without        *)
(* suspended getters: its get, put and interrupt are plain calls.          *)
(***************************************************************************)
EXTENDS Integers, FiniteSets, SequencesExt

CONSTANTS
  Getters,   \* coroutines that call get again and again
  Items,     \* what is put, each once; the greater one has priority
  NoGetter   \* nobody

ASSUME ItemsAssumption == Items \subseteq Nat
ASSUME NoGetterAssumption == NoGetter \notin Getters

VARIABLES
  kind,         \* of the run queue: its order and its thread model
  items,        \* items_, in the order they were pushed
  waiters,      \* waiters_, the one suspended last first
  interrupted,  \* interrupted_
  getter,       \* where each getter is
  put,          \* where the put of each item is
  awaken,       \* the getter a put has unlinked
  rest,         \* the getters interrupt has unlinked and not yet resumed
  taken         \* the items returned by get

vars == <<kind, items, waiters, interrupted, getter, put, awaken, rest, taken>>

Kinds == [order : {"fifo", "lifo", "priority"}, model : {"coro", "single"}]

Without(s, k) == SubSeq(s, 1, k - 1) \o SubSeq(s, k + 1, Len(s))

(* pop(): where the queue finds its next item *)
NextPosition ==
  CHOOSE k \in DOMAIN items :
    CASE kind.order = "fifo" -> k = 1
      [] kind.order = "lifo" -> k = Len(items)
      [] kind.order = "priority" -> \A j \in DOMAIN items : items[j] <= items[k]

-----------------------------------------------------------------------------
(* get: throws, pops an item, or links the awaitable and suspends *)

GetThrows(g) ==
  /\ getter[g] = "idle" /\ interrupted
  /\ getter' = [getter EXCEPT ![g] = "thrown"]
  /\ UNCHANGED <<kind, items, waiters, interrupted, put, awaken, rest, taken>>

GetItem(g) ==
  /\ getter[g] = "idle" /\ ~interrupted /\ items # <<>>
  /\ items' = Without(items, NextPosition)
  /\ taken' = taken \cup {items[NextPosition]}
  /\ UNCHANGED <<kind, waiters, interrupted, getter, put, awaken, rest>>

(* the single-thread model has nobody to suspend: get returns nothing *)
GetNothing(g) ==
  /\ kind.model = "single"
  /\ getter[g] = "idle" /\ ~interrupted /\ items = <<>>
  /\ UNCHANGED vars

GetSuspends(g) ==
  /\ kind.model = "coro"
  /\ getter[g] = "idle" /\ ~interrupted /\ items = <<>>
  /\ waiters' = <<g>> \o waiters
  /\ getter' = [getter EXCEPT ![g] = "waiting"]
  /\ UNCHANGED <<kind, items, interrupted, put, awaken, rest, taken>>

-----------------------------------------------------------------------------
(* put *)

PutThrows(i) ==
  /\ put[i] = "new" /\ interrupted
  /\ put' = [put EXCEPT ![i] = "refused"]
  /\ UNCHANGED <<kind, items, waiters, interrupted, getter, awaken, rest,
                 taken>>

(* faulty variant: waiters are not looked at *)
PutQueuesAnyway(i) ==
  /\ put[i] = "new" /\ ~interrupted
  /\ items' = Append(items, i)
  /\ put' = [put EXCEPT ![i] = "done"]
  /\ UNCHANGED <<kind, waiters, interrupted, getter, awaken, rest, taken>>

(* faulty variant: the interrupt is not looked at *)
PutQueuesLate(i) ==
  /\ put[i] = "new" /\ waiters = <<>>
  /\ items' = Append(items, i)
  /\ put' = [put EXCEPT ![i] = "done"]
  /\ UNCHANGED <<kind, waiters, interrupted, getter, awaken, rest, taken>>

PutQueues(i) ==
  /\ put[i] = "new" /\ ~interrupted /\ waiters = <<>>
  /\ items' = Append(items, i)
  /\ put' = [put EXCEPT ![i] = "done"]
  /\ UNCHANGED <<kind, waiters, interrupted, getter, awaken, rest, taken>>

(* faulty variant: pop_waiter leaves the waiter linked *)
PutAwakensLinked(i) ==
  /\ put[i] = "new" /\ ~interrupted /\ waiters # <<>>
  /\ awaken' = [awaken EXCEPT ![i] = Head(waiters)]
  /\ put' = [put EXCEPT ![i] = "deliver"]
  /\ UNCHANGED <<kind, items, waiters, interrupted, getter, rest, taken>>

(* faulty variant: pop_waiter returns the new head, which may be null *)
PutAwakensNext(i) ==
  /\ put[i] = "new" /\ ~interrupted /\ waiters # <<>>
  /\ waiters' = Tail(waiters)
  /\ awaken' = [awaken EXCEPT ![i] = IF Tail(waiters) = <<>> THEN NoGetter
                                     ELSE Head(Tail(waiters))]
  /\ put' = [put EXCEPT ![i] = "deliver"]
  /\ UNCHANGED <<kind, items, interrupted, getter, rest, taken>>

(* pop_waiter *)
PutAwakens(i) ==
  /\ put[i] = "new" /\ ~interrupted /\ waiters # <<>>
  /\ awaken' = [awaken EXCEPT ![i] = Head(waiters)]
  /\ waiters' = Tail(waiters)
  /\ put' = [put EXCEPT ![i] = "deliver"]
  /\ UNCHANGED <<kind, items, interrupted, getter, rest, taken>>

(* resume_result: the suspended get returns the item *)
ResumeResult(i) ==
  /\ put[i] = "deliver"
  /\ getter' = [getter EXCEPT ![awaken[i]] = "idle"]
  /\ taken' = taken \cup {i}
  /\ put' = [put EXCEPT ![i] = "done"]
  /\ awaken' = [awaken EXCEPT ![i] = NoGetter]
  /\ UNCHANGED <<kind, items, waiters, interrupted, rest>>

-----------------------------------------------------------------------------
(* interrupt *)

Interrupt ==
  /\ ~interrupted
  /\ interrupted' = TRUE
  /\ rest' = waiters
  /\ waiters' = <<>>
  /\ UNCHANGED <<kind, items, getter, put, awaken, taken>>

(* faulty variant: next_ is read after the resume, of an awaitable that has  *)
(* gone with the get that returned                                         *)
ResumeExceptionLate ==
  /\ rest # <<>>
  /\ rest' = <<>>
  /\ getter' = [getter EXCEPT ![Head(rest)] = "thrown"]
  /\ UNCHANGED <<kind, items, waiters, interrupted, put, awaken, taken>>

(* resume_exception: the suspended get throws, and its awaitable with its   *)
(* next_ is gone.  next_ is read before: the rest of the list is known when *)
(* the getter runs on.                                                     *)
ResumeException ==
  /\ rest # <<>>
  /\ rest' = Tail(rest)
  /\ getter' = [getter EXCEPT ![Head(rest)] = "thrown"]
  /\ UNCHANGED <<kind, items, waiters, interrupted, put, awaken, taken>>

Init ==
  /\ kind \in Kinds
  /\ items = <<>>
  /\ waiters = <<>>
  /\ interrupted = FALSE
  /\ getter = [g \in Getters |-> "idle"]
  /\ put = [i \in Items |-> "new"]
  /\ awaken = [i \in Items |-> NoGetter]
  /\ rest = <<>>
  /\ taken = {}

(* nobody is left to call anything *)
Done ==
  /\ interrupted
  /\ \A g \in Getters : getter[g] = "thrown"
  /\ \A i \in Items : put[i] \in {"done", "refused"}
  /\ UNCHANGED vars

Next ==
  \/ \E g \in Getters : GetThrows(g) \/ GetItem(g) \/ GetNothing(g)
                        \/ GetSuspends(g)
  \/ \E i \in Items : PutThrows(i) \/ PutQueues(i) \/ PutAwakens(i)
                      \/ ResumeResult(i)
  \/ Interrupt \/ ResumeException
  \/ Done

Spec == Init /\ [][Next]_vars

(* A put or an interrupt that has begun runs on; nobody has to call them.  *)
Fairness == WF_vars(ResumeException) /\ \A i \in Items : WF_vars(ResumeResult(i))

FairSpec == Spec /\ Fairness

-----------------------------------------------------------------------------
Delivering == {i \in Items : put[i] = "deliver"}

(* The variables have their types; a put that delivers has a getter to     *)
(* deliver to.                                                             *)
TypeOK ==
  /\ kind \in Kinds
  /\ items \in Seq(Items)
  /\ waiters \in Seq(Getters)
  /\ interrupted \in BOOLEAN
  /\ getter \in [Getters -> {"idle", "waiting", "thrown"}]
  /\ put \in [Items -> {"new", "deliver", "done", "refused"}]
  /\ awaken \in [Items -> Getters \cup {NoGetter}]
  /\ \A i \in Delivering : awaken[i] # NoGetter
  /\ rest \in Seq(Getters)
  /\ taken \subseteq Items

(* A getter is suspended only while there is nothing for it: no item lies  *)
(* in the queue beside it, and it has not missed the interrupt             *)
(* (runque.hpp:338-346, 362, 409).                                         *)
NoIdleGetter == waiters # <<>> => items = <<>> /\ ~interrupted

(* A suspended getter will be resumed by exactly one put or interrupt:     *)
(* it is linked once, in waiters_, by a put that has unlinked it, or in    *)
(* the list interrupt runs through (assert of runque.hpp:275, 290).        *)
ResumedOnce ==
  LET linked == waiters \o rest
  IN  /\ IsInjective(linked)
      /\ \A i \in Delivering : awaken[i] \notin ToSet(linked)
      /\ \A i, j \in Delivering : awaken[i] = awaken[j] => i = j
      /\ {g \in Getters : getter[g] = "waiting"}
           = ToSet(linked) \cup {awaken[i] : i \in Delivering}

(* A getter that has been unlinked is resumed (runque.hpp:371, 413-417).   *)
UnlinkedResumed ==
  \A g \in Getters :
    getter[g] = "waiting" /\ ~Contains(waiters, g) ~> getter[g] # "waiting"

(* The queue with its getters is a set of items each taken once: none is   *)
(* lost between a put and the getter it resumes, none accepted after the   *)
(* interrupt.                                                              *)
Offers == INSTANCE OfferQueue WITH
  ready <- ToSet(items) \cup Delivering,
  stopped <- interrupted

ImplementsOfferQueue == Offers!Spec
=============================================================================
