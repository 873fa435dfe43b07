------------------------------ MODULE FairLock ------------------------------
(***************************************************************************)
(* What frq::mutex promises to the coroutines that co_await its lock: one  *)
(* holder at a time, and first-come first-served hand-over.  A coroutine   *)
(* that finds the mutex taken joins the queue; an unlock passes the mutex  *)
(* straight to the head of the queue, without freeing it in between.       *)
(* Module Mutex, the lock-free code, implements this specification.        *)
(***************************************************************************)
EXTENDS Sequences, Naturals

CONSTANTS
  Coros,    \* the coroutines that use the mutex
  NoCoro    \* "nobody", not one of Coros

VARIABLES
  holder,   \* the coroutine that holds the mutex, or NoCoro
  queue     \* the suspended coroutines, the longest-waiting one first

vars == <<holder, queue>>

Waiting(c) == \E k \in DOMAIN queue : queue[k] = c

Init == holder = NoCoro /\ queue = <<>>

(* lock() or try_lock() finds the mutex free *)
Acquire(c) ==
  /\ holder = NoCoro
  /\ holder' = c
  /\ UNCHANGED queue

(* lock() finds the mutex taken: the coroutine is suspended *)
Enqueue(c) ==
  /\ holder \notin {NoCoro, c}
  /\ ~Waiting(c)
  /\ queue' = Append(queue, c)
  /\ UNCHANGED holder

(* unlock() with nobody waiting *)
Free(c) ==
  /\ holder = c
  /\ queue = <<>>
  /\ holder' = NoCoro
  /\ UNCHANGED queue

(* unlock() resumes the longest-waiting coroutine as the new holder *)
HandOver(c) ==
  /\ holder = c
  /\ queue # <<>>
  /\ holder' = Head(queue)
  /\ queue' = Tail(queue)

Next == \E c \in Coros : Acquire(c) \/ Enqueue(c) \/ Free(c) \/ HandOver(c)

Spec == Init /\ [][Next]_vars
=============================================================================
