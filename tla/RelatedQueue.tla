---------------------------- MODULE RelatedQueue ----------------------------
(***************************************************************************)
(* What a forque promises its clients: an item is served once, after it    *)
(* has been populated and after every related item reserved before it has  *)
(* been finalized; an interrupt refuses new reservations, and stops the    *)
(* consumers only when the last item is finalized.                         *)
(* Module Forque, the tree of chains, implements this specification.       *)
(***************************************************************************)
EXTENDS Naturals, SequencesExt

CONSTANTS
  Items,    \* what the producers reserve, each once
  Tags      \* the tags, as sequences of keys

VARIABLES
  status,       \* how far each item has come
  tag,          \* the tag of each reserved item
  before,       \* the related items each item has to wait for
  filled,       \* the populated items
  interrupted,  \* the client has called interrupt
  stopped       \* consumers are told that there is nothing to come

vars == <<status, tag, before, filled, interrupted, stopped>>

Related(s, t) == IsPrefix(s, t) \/ IsPrefix(t, s)

Pending(i) == status[i] \in {"reserved", "served"}

Move(i, from, to) ==
  status[i] = from /\ status' = [status EXCEPT ![i] = to]

(* the consumers may be stopped with the last item gone, not earlier *)
MayStop ==
  stopped' \in BOOLEAN /\ (stopped => stopped')
  /\ (stopped' => interrupted' /\ \A i \in Items : ~Pending(i)')

Init ==
  /\ status = [i \in Items |-> "new"]
  /\ tag = [i \in Items |-> <<>>]
  /\ before = [i \in Items |-> {}]
  /\ filled = {}
  /\ interrupted = FALSE /\ stopped = FALSE

Reserve(i, t) ==
  /\ ~interrupted
  /\ Move(i, "new", "reserved")
  /\ tag' = [tag EXCEPT ![i] = t]
  /\ before' = [before EXCEPT ![i] =
                  {j \in Items : Pending(j) /\ Related(tag[j], t)}]
  /\ filled' \in {filled, filled \cup {i}}
  /\ UNCHANGED <<interrupted, stopped>>

Refuse(i) ==
  /\ interrupted
  /\ Move(i, "new", "rejected")
  /\ UNCHANGED <<tag, before, filled, interrupted, stopped>>

Populate(i) ==
  /\ status[i] = "reserved"
  /\ filled' = filled \cup {i}
  /\ UNCHANGED <<status, tag, before, interrupted, stopped>>

(* faulty variant: an item waits for those served, not for all ahead of it *)
ServeEager(i) ==
  /\ i \in filled
  /\ \A j \in before[i] : status[j] # "served"
  /\ Move(i, "reserved", "served")
  /\ UNCHANGED <<tag, before, filled, interrupted, stopped>>

Serve(i) ==
  /\ i \in filled
  /\ \A j \in before[i] : status[j] = "finalized"
  /\ Move(i, "reserved", "served")
  /\ UNCHANGED <<tag, before, filled, interrupted, stopped>>

Finalize(i) ==
  /\ Move(i, "served", "finalized")
  /\ UNCHANGED <<tag, before, filled, interrupted>>
  /\ MayStop

Interrupt ==
  /\ interrupted' = TRUE
  /\ UNCHANGED <<status, tag, before, filled>>
  /\ MayStop

Stop ==
  /\ UNCHANGED <<status, tag, before, filled, interrupted>>
  /\ MayStop

Next ==
  \/ \E i \in Items :
       \/ \E t \in Tags : Reserve(i, t)
       \/ Refuse(i) \/ Populate(i) \/ Serve(i) \/ Finalize(i)
  \/ Interrupt \/ Stop

Spec == Init /\ [][Next]_vars

-----------------------------------------------------------------------------
TypeOK ==
  /\ status \in [Items -> {"new", "rejected", "reserved", "served", "finalized"}]
  /\ tag \in [Items -> Tags \cup {<<>>}]
  /\ before \in [Items -> SUBSET Items]
  /\ filled \subseteq Items
  /\ interrupted \in BOOLEAN /\ stopped \in BOOLEAN

(* README.md:3: at most one item is processed at a time for all tags       *)
(* related to the item's own tag.                                          *)
Serial ==
  \A i, j \in Items :
    status[i] = "served" /\ status[j] = "served" /\ i # j
      => ~Related(tag[i], tag[j])

(* README.md:30: related items wait for the one ahead of them to be        *)
(* populated, served and consumed: whenever one of two related items is    *)
(* served, the other is finalized or comes later.                          *)
InOrder ==
  \A i, j \in Items :
    status[i] = "served" /\ j \in before[i] => status[j] = "finalized"

(* The consumers are stopped by an interrupt only, with nothing left       *)
(* behind (forque.hpp:218, 443).                                           *)
NothingLeft == stopped => interrupted /\ \A i \in Items : ~Pending(i)
=============================================================================
