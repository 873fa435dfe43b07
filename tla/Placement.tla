----------------------------- MODULE Placement ------------------------------
(***************************************************************************)
(* How a reservation finds its chain: the views of src/inc/tag.hpp and the *)
(* compile-time choices of chain::reserve (forque.hpp:224-250), followed   *)
(* from the root for several reservations of tags of one kind.  A chain is *)
(* named by the keys under which children_ finds it on the way down, which *)
(* is all that Forque's Tags say of a tag.  A key is a value with its      *)
(* type: two of them are equal if both are (tag.hpp:134-138).              *)
(***************************************************************************)
EXTENDS Integers, SequencesExt

CONSTANTS
  Reservations,
  Keys,        \* the values a tag can have at a level
  MaxSize,     \* the bound on the number of values of a tag
  Word         \* how many numbers a dtag's size_type has, 2^32 in the code

ASSUME MaxSizeAssumption == MaxSize \in Nat
ASSUME WordAssumption == Word \in Nat \ {0}

VARIABLES
  kind,     \* stag or dtag, the same for all reservations of a forque
  values,   \* the values of each reservation's tag
  level,    \* the level of its view
  path,     \* the keys looked up so far: the chain it has come to
  progress, \* how far it is; astray has read a value the tag does not have
  chainTag  \* tag_ of each chain there is

vars == <<kind, values, level, path, progress, chainTag>>

(* A static tag has at least one value, as the view of an stag of size 0   *)
(* does not compile.                                                       *)
TagValues(k) ==
  UNION {[1..n -> Keys] : n \in (IF k = "static" THEN 1 ELSE 0)..MaxSize}

(* tag_traits::is_root of the chain: known of a static tag only *)
IsRoot(r) == kind = "static" /\ path[r] = <<>>

(* faulty variant: one too far *)
IsLastLate(r) == level[r] = Len(values[r]) % Word

(* size() - 1: computed on ints for an stag, whose size is a uint8_t, and  *)
(* in size_type for a dtag, where it wraps around                          *)
LastLevel(r) == IF kind = "static" THEN Len(values[r]) - 1
                                   ELSE (Len(values[r]) - 1) % Word

(* stag_view::last, dtag_view::last *)
IsLast(r) == level[r] = LastLevel(r)

NextLevel(r) == IF IsLast(r) THEN level[r] ELSE level[r] + 1

(* faulty variant: the values above the level *)
SubAbove(r, l) == SubSeq(values[r], 1, l)

(* stag_view::sub, dtag_view::sub *)
Sub(r, l) == SubSeq(values[r], 1, l + 1)

(* faulty variant: the keys are taken from the other end *)
KeyReversed(r, l) == values[r][Len(values[r]) - l]

(* stag_view::key, dtag_view::key *)
Key(r, l) == values[r][l + 1]

(* ensure_child for the view at level l finds the child, or creates it     *)
(* with sub() for its tag                                                  *)
EnsureChild(r, l) ==
  /\ l < Len(values[r])
  /\ LET child == Append(path[r], Key(r, l))
     IN  /\ path' = [path EXCEPT ![r] = child]
         /\ \/ child \in DOMAIN chainTag /\ UNCHANGED chainTag
            \/ /\ child \notin DOMAIN chainTag
               /\ chainTag' = [p \in DOMAIN chainTag \cup {child} |->
                                 IF p = child THEN Sub(r, l) ELSE chainTag[p]]
  /\ level' = [level EXCEPT ![r] = l]
  /\ UNCHANGED <<kind, values, progress>>

(* key() reads past the end: whatever follows *)
ReadPastEnd(r, l) ==
  /\ l >= Len(values[r])
  /\ progress' = [progress EXCEPT ![r] = "astray"]
  /\ UNCHANGED <<kind, values, level, path, chainTag>>

AddSibling(r) ==
  /\ progress' = [progress EXCEPT ![r] = "placed"]
  /\ UNCHANGED <<kind, values, level, path, chainTag>>

ReserveChild(r, l) == EnsureChild(r, l) \/ ReadPastEnd(r, l)

(* chain::reserve *)
Reserve(r) ==
  /\ progress[r] = "descending"
  /\ \/ IsRoot(r) /\ ReserveChild(r, level[r])
     \/ ~IsRoot(r) /\ IsLast(r) /\ AddSibling(r)
     \/ ~IsRoot(r) /\ ~IsLast(r) /\ ReserveChild(r, NextLevel(r))

Init ==
  /\ kind \in {"static", "dynamic"}
  /\ values \in [Reservations -> TagValues(kind)]
  /\ level = [r \in Reservations |-> 0]
  /\ path = [r \in Reservations |-> <<>>]
  /\ progress = [r \in Reservations |-> "descending"]
  /\ chainTag = [p \in {<<>>} |-> <<>>]

Done == (\A r \in Reservations : progress[r] # "descending") /\ UNCHANGED vars

Next == (\E r \in Reservations : Reserve(r)) \/ Done

Spec == Init /\ [][Next]_vars

-----------------------------------------------------------------------------
Placed(r) == progress[r] = "placed"

(* README.md:3: `Tags are said to be related if one of them are descendant *)
(* of the other'                                                           *)
Related(s, t) == IsPrefix(s, t) \/ IsPrefix(t, s)

(* A view stays within its tag, whose last level it recognises; only of an *)
(* empty dtag, whose size() - 1 is no level, is a key read that is not     *)
(* there (tag.hpp:513-532).                                                *)
KeysWithin ==
  \A r \in Reservations :
    values[r] # <<>> => level[r] < Len(values[r]) /\ progress[r] # "astray"

(* remove_child finds a chain in its parent under the key of the tag that  *)
(* the chain was created with, whichever reservation created it, and only  *)
(* the root has none (forque.hpp:301-307, 407, 448, 466, tag.hpp:310).     *)
FoundAgain ==
  \A p \in DOMAIN chainTag :
    IF p = <<>> THEN chainTag[p] = <<>>
    ELSE chainTag[p] # <<>> /\ Last(chainTag[p]) = Last(p)

(* Reservations of related tags come to chains one of which is above the   *)
(* other, so that the segments order them, whatever the kind of the tags.  *)
RelatedMeet ==
  \A r, s \in Reservations :
    Placed(r) /\ Placed(s) /\ Related(values[r], values[s])
      => Related(path[r], path[s])

(* Static tags share a chain only when they are the same, and an order     *)
(* only when they are related: unrelated items never wait for each other.  *)
StaticExact ==
  \A r, s \in Reservations :
    kind = "static" /\ Placed(r) /\ Placed(s) =>
      /\ Related(path[r], path[s]) => Related(values[r], values[s])
      /\ path[r] = path[s] => values[r] = values[s]

(* README.md:3, of dynamic tags: 1/2/1 and 1/2/3 are not related, and      *)
(* neither are 1/2 and 3/2: their chains are not in order either.          *)
DynamicExact ==
  \A r, s \in Reservations :
    kind = "dynamic" /\ Placed(r) /\ Placed(s) =>
      (Related(path[r], path[s]) => Related(values[r], values[s]))
=============================================================================
