------------------------------- MODULE Mutex --------------------------------
(***************************************************************************)
(* frq::mutex: detail::mximpl::lock, try_lock and release (src/mutex.cpp)  *)
(* with the awaitable and the state word of mutex.hpp, one step per access *)
(* to the atomic state_.                                                   *)
(*                                                                         *)
(* state_ is the free word, the taken word, or a pointer to the mxwait     *)
(* entry pushed last; the entries pushed while the mutex is held form a    *)
(* LIFO stack through next_.  The holder keeps the entries it has already  *)
(* taken over in waiters_, oldest first, again linked through next_; a     *)
(* release that finds waiters_ empty and state_ no longer taken takes the  *)
(* whole stack over with an exchange and reverses it.                      *)
(*                                                                         *)
(* A coroutine has one mxwait entry at a time (it lives in the awaitable   *)
(* the coroutine is suspended on), so an entry is named by its coroutine.  *)
(* A compare-and-swap compares pointers, not stacks: an entry may be       *)
(* popped, resumed, and pushed again between a load and the swap (ABA).    *)
(* The x86-64 builds of CMakeSettings.json give locked instructions full   *)
(* ordering, so the atomic steps are sequentially consistent here.         *)
(***************************************************************************)
EXTENDS Naturals, FiniteSets, SequencesExt

CONSTANTS
  Coros,    \* the coroutines that use the mutex
  Null      \* the null pointer

ASSUME CorosAssumption == IsFiniteSet(Coros)

ASSUME NullAssumption == Null \notin Coros

FreeState  == "free"     \* mximpl::free_state
TakenState == "taken"    \* mximpl::taken_state

ASSUME WordAssumption ==
  FreeState \notin Coros /\ TakenState \notin Coros

VARIABLES
  state,     \* state_: free, taken, or the entry on top of the stack
  waiters,   \* waiters_: the holder's list of suspended coroutines
  next,      \* next_ of every coroutine's entry
  expected,  \* lock()'s local copy of state_
  head,      \* release()'s local `head'
  cur,       \* release()'s local `cur', the part not yet reversed
  pc         \* where each coroutine is

vars == <<state, waiters, next, expected, head, cur, pc>>

Pointer == Coros \cup {Null}
Word    == Coros \cup {FreeState, TakenState}
Label   == {"idle", "lock", "waiting", "owner",
            "release", "exchange", "reverse", "resume"}

(* mxstate::is_free and mxstate::get_waiter *)
IsFree(word)    == word = FreeState
GetWaiter(word) == IF word \in Coros THEN word ELSE Null

(* the value lock() tries to install, given what it last saw in state_ *)
Desired(c) == IF IsFree(expected[c]) THEN TakenState ELSE c

(***************************************************************************)
(* lock: awaitable_base::await_suspend calls mximpl::lock                  *)
(***************************************************************************)
Lock(c) ==
  /\ pc[c] = "idle"
  /\ pc' = [pc EXCEPT ![c] = "lock"]
  /\ UNCHANGED <<state, waiters, next, expected, head, cur>>

(* the swap succeeds: the coroutine owns the mutex, or stays suspended on  *)
(* the entry it has just published                                         *)
CasSucceeds(c) ==
  /\ pc[c] = "lock"
  /\ state = expected[c]
  /\ state' = Desired(c)
  /\ pc' = [pc EXCEPT ![c] = IF IsFree(expected[c]) THEN "owner"
                                                    ELSE "waiting"]
  /\ expected' = [expected EXCEPT ![c] = FreeState]     \* dead from here on
  /\ UNCHANGED <<waiters, next, head, cur>>

(* faulty variant: the entry keeps its old next_ when the swap is retried  *)
CasFailsUnlinked(c) ==
  /\ pc[c] = "lock"
  /\ state # expected[c]
  /\ expected' = [expected EXCEPT ![c] = state]
  /\ UNCHANGED <<state, waiters, next, head, cur, pc>>

(* faulty variant: the word is linked as it is, a pointer or not           *)
CasFailsRaw(c) ==
  /\ pc[c] = "lock"
  /\ state # expected[c]
  /\ expected' = [expected EXCEPT ![c] = state]
  /\ next' = IF IsFree(state) THEN next ELSE [next EXCEPT ![c] = state]
  /\ UNCHANGED <<state, waiters, head, cur, pc>>

(* the swap fails, loads state_ and prepares the entry for another try     *)
CasFails(c) ==
  /\ pc[c] = "lock"
  /\ state # expected[c]
  /\ expected' = [expected EXCEPT ![c] = state]
  /\ next' = IF IsFree(state) THEN next
                              ELSE [next EXCEPT ![c] = GetWaiter(state)]
  /\ UNCHANGED <<state, waiters, head, cur, pc>>

(* try_lock changes something only when the mutex is free *)
TryLock(c) ==
  /\ pc[c] = "idle"
  /\ IsFree(state)
  /\ state' = TakenState
  /\ pc' = [pc EXCEPT ![c] = "owner"]
  /\ UNCHANGED <<waiters, next, expected, head, cur>>

(***************************************************************************)
(* release: called by the holder, through unlock or ~mutex_guard           *)
(***************************************************************************)
Release(c) ==
  /\ pc[c] = "owner"
  /\ head' = [head EXCEPT ![c] = waiters]
  /\ pc' = [pc EXCEPT ![c] = IF waiters = Null THEN "release" ELSE "resume"]
  /\ UNCHANGED <<state, waiters, next, expected, cur>>

(* faulty variant: a plain store of the free word *)
ReleaseStore(c) ==
  /\ pc[c] = "release"
  /\ state' = FreeState
  /\ pc' = [pc EXCEPT ![c] = "idle"]
  /\ UNCHANGED <<waiters, next, expected, head, cur>>

(* compare_exchange_strong(taken, free): nobody has been pushed, or not    *)
ReleaseCas(c) ==
  /\ pc[c] = "release"
  /\ state' = IF state = TakenState THEN FreeState ELSE state
  /\ pc' = [pc EXCEPT ![c] = IF state = TakenState THEN "idle"
                                                   ELSE "exchange"]
  /\ UNCHANGED <<waiters, next, expected, head, cur>>

(* faulty variant: the stack is served without being reversed *)
ExchangeUnreversed(c) ==
  /\ pc[c] = "exchange"
  /\ head' = [head EXCEPT ![c] = GetWaiter(state)]
  /\ state' = TakenState
  /\ pc' = [pc EXCEPT ![c] = "resume"]
  /\ UNCHANGED <<waiters, next, expected, cur>>

(* faulty variant: state_ is freed although the mutex is being handed over *)
ExchangeFree(c) ==
  /\ pc[c] = "exchange"
  /\ cur' = [cur EXCEPT ![c] = GetWaiter(state)]
  /\ state' = FreeState
  /\ pc' = [pc EXCEPT ![c] = "reverse"]
  /\ UNCHANGED <<waiters, next, expected, head>>

(* exchange(taken): take the whole stack over *)
Exchange(c) ==
  /\ pc[c] = "exchange"
  /\ cur' = [cur EXCEPT ![c] = GetWaiter(state)]
  /\ state' = TakenState
  /\ pc' = [pc EXCEPT ![c] = "reverse"]
  /\ UNCHANGED <<waiters, next, expected, head>>

(* one round of the do loop that reverses the stack *)
ReverseOne(c) ==
  /\ pc[c] = "reverse"
  /\ next' = [next EXCEPT ![cur[c]] = head[c]]
  /\ head' = [head EXCEPT ![c] = cur[c]]
  /\ cur'  = [cur EXCEPT ![c] = next[cur[c]]]
  /\ pc' = [pc EXCEPT ![c] = IF next[cur[c]] = Null THEN "resume"
                                                    ELSE "reverse"]
  /\ UNCHANGED <<state, waiters, expected>>

(* waiters_ = head->next_; head->waiter_.resume(): the mutex changes hands *)
Resume(c) ==
  /\ pc[c] = "resume"
  /\ waiters' = next[head[c]]
  /\ pc' = [pc EXCEPT ![c] = "idle", ![head[c]] = "owner"]
  /\ next' = [next EXCEPT ![head[c]] = Null]   \* the entry's lifetime ends
  /\ head' = [head EXCEPT ![c] = Null]
  /\ UNCHANGED <<state, expected, cur>>

Init ==
  /\ state = FreeState
  /\ waiters = Null
  /\ next = [c \in Coros |-> Null]
  /\ expected = [c \in Coros |-> FreeState]
  /\ head = [c \in Coros |-> Null]
  /\ cur = [c \in Coros |-> Null]
  /\ pc = [c \in Coros |-> "idle"]

(* the steps a coroutine takes once it has called lock or release *)
Step(c) ==
  \/ CasSucceeds(c) \/ CasFails(c)
  \/ ReleaseCas(c) \/ Exchange(c) \/ ReverseOne(c) \/ Resume(c)

Next == \E c \in Coros : Lock(c) \/ TryLock(c) \/ Release(c) \/ Step(c)

Spec == Init /\ [][Next]_vars

(* A coroutine inside lock or release is a thread running straight-line    *)
(* code, and every lock of the library is paired with a mutex_guard or an  *)
(* unlock, so it is released again.  Nobody is obliged to call lock.       *)
Fairness == \A c \in Coros : WF_vars(Release(c)) /\ WF_vars(Step(c))

FairSpec == Spec /\ Fairness

-----------------------------------------------------------------------------
(* next_, waiters_ and what release() keeps are pointers to entries or     *)
(* null, never one of the two words that state_ holds beside pointers.     *)
TypeOK ==
  /\ state \in Word
  /\ waiters \in Pointer
  /\ next \in [Coros -> Pointer]
  /\ expected \in [Coros -> Word]
  /\ head \in [Coros -> Pointer]
  /\ cur \in [Coros -> Pointer]
  /\ pc \in [Coros -> Label]

(* inside the critical section, or handing it over *)
Holds(c) == pc[c] \in {"owner", "release", "exchange", "reverse", "resume"}

Holders == {c \in Coros : Holds(c)}

(* the pointers met from p through links, one per hop; null stays null     *)
Hops(links, p) ==
  LET hop[n \in 0..Cardinality(Coros)] ==
        IF n = 0 THEN p
        ELSE IF hop[n - 1] = Null THEN Null ELSE links[hop[n - 1]]
  IN  hop

(* the entries linked from pointer p, in order; a list that does not end   *)
(* within as many hops as there are coroutines is cut there                *)
ListIn(links, p) ==
  LET entries == {n \in 0..Cardinality(Coros) : Hops(links, p)[n] # Null}
  IN  [k \in 1..Cardinality(entries) |-> Hops(links, p)[k - 1]]

ListFrom(p) == ListIn(next, p)

(* the waiters of the holder: those already in waiters_, or those whose    *)
(* stack a release is reversing                                            *)
TakenOver ==
  IF waiters # Null \/ Holders = {}
  THEN ListFrom(waiters)
  ELSE LET c == CHOOSE h \in Coros : Holds(h)
       IN  Reverse(ListFrom(cur[c])) \o ListFrom(head[c])

(* all the suspended coroutines, the one pushed first at the front *)
Queue == TakenOver \o Reverse(ListFrom(GetWaiter(state)))

(* Two coroutines are never between lock and unlock at once, and state_    *)
(* is the free word exactly when none is: what lock() relies on when its   *)
(* swap from the free word succeeds, and what release() asserts            *)
(* (mutex.cpp:39).                                                         *)
MutualExclusion ==
  /\ \A c, d \in Coros : Holds(c) /\ Holds(d) => c = d
  /\ IsFree(state) <=> Holders = {}

(* Every suspended coroutine is linked from state_, waiters_ or the list   *)
(* being reversed exactly once, and nothing else is: a push that races a   *)
(* release neither loses a waiter nor leaves a pointer to an entry whose   *)
(* coroutine has been resumed (mutex.cpp:8-20, 52-64).                     *)
WaitersLinked ==
  /\ ToSet(Queue) = {c \in Coros : pc[c] = "waiting"}
  /\ IsInjective(Queue)

(* The lock-free code hands the mutex over in the order in which the       *)
(* coroutines were suspended (mutex.cpp:55-64): it implements FairLock.    *)
Abstract == INSTANCE FairLock WITH
  NoCoro <- Null,
  holder <- IF Holders = {} THEN Null ELSE CHOOSE h \in Coros : Holds(h),
  queue  <- Queue

ImplementsFairLock == Abstract!Spec

(* A suspended coroutine is resumed as the holder: the hand-over never     *)
(* forgets it, however often others lock and unlock (mutex.cpp:63-64).     *)
WaiterServed ==
  \A c \in Coros : pc[c] = "waiting" ~> pc[c] = "owner"
=============================================================================
