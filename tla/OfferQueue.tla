----------------------------- MODULE OfferQueue -----------------------------
(***************************************************************************)
(* What a run queue is to the chains that put items into it and to the     *)
(* consumers: a set of available items, each taken once, that refuses      *)
(* items after an interrupt.  Runque, the queue with its suspended         *)
(* getters, implements it; Forque uses it (its variables ready and         *)
(* stopped).                                                               *)
(***************************************************************************)
CONSTANT Items

VARIABLES
  ready,     \* the items put and not yet returned by a get
  taken,     \* the items a get has returned
  stopped    \* interrupt has been called

vars == <<ready, taken, stopped>>

Init == ready = {} /\ taken = {} /\ stopped = FALSE

Put(i) ==
  /\ ~stopped /\ i \notin ready \cup taken
  /\ ready' = ready \cup {i}
  /\ UNCHANGED <<taken, stopped>>

Take(i) ==
  /\ i \in ready
  /\ ready' = ready \ {i} /\ taken' = taken \cup {i}
  /\ UNCHANGED stopped

Interrupt == stopped' = TRUE /\ UNCHANGED <<ready, taken>>

Next == (\E i \in Items : Put(i) \/ Take(i)) \/ Interrupt

Spec == Init /\ [][Next]_vars
=============================================================================
