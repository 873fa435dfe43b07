-------------------------- MODULE PlacementProofs ---------------------------
(***************************************************************************)
(* Of tags of any number of values: a view stays within its tag, a chain   *)
(* is found again under its own tag's key, related tags come to chains in  *)
(* one order, and static tags to chains of their own.                      *)
(***************************************************************************)
EXTENDS Placement, SequenceLemmas, TLAPS

Types ==
  /\ values \in [Reservations -> Seq(Keys)]
  /\ level \in [Reservations -> Nat]
  /\ path \in [Reservations -> Seq(Keys)]
  /\ progress \in [Reservations -> {"descending", "placed", "astray"}]

(* A view never gets past what it takes for the last level of its tag,     *)
(* which is one of the tag's even where the subtraction wraps around.      *)
WithinLast ==
  \A r \in Reservations :
    values[r] # <<>> => level[r] <= LastLevel(r) /\ progress[r] # "astray"

PlacementInv == Types /\ WithinLast /\ FoundAgain

LEMMA ModBounds ==
  ASSUME NEW a \in Nat, NEW b \in Nat \ {0}
  PROVE  a % b \in 0..a
OBVIOUS

LEMMA LastAppended ==
  ASSUME NEW S, NEW s \in Seq(S), NEW x \in S
  PROVE  /\ Append(s, x) \in Seq(S) \ {<<>>}
         /\ Last(Append(s, x)) = x
BY DEF Last

LEMMA LastOfPrefix ==
  ASSUME NEW S, NEW s \in Seq(S), NEW l \in Nat, l < Len(s)
  PROVE  /\ SubSeq(s, 1, l + 1) \in Seq(S) \ {<<>>}
         /\ Last(SubSeq(s, 1, l + 1)) = s[l + 1]
BY DEF Last

(* What a view takes for the last level is one of the tag's.               *)
LEMMA LastLevelIs ==
  ASSUME Types, NEW r \in Reservations, values[r] # <<>>
  PROVE  LastLevel(r) \in 0..Len(values[r]) - 1
<1>1. Len(values[r]) - 1 \in Nat
  BY DEF Types
<1>2. (Len(values[r]) - 1) % Word \in 0..Len(values[r]) - 1
  BY <1>1, ModBounds, WordAssumption
<1> QED  BY <1>1, <1>2 DEF LastLevel

LEMMA WithinTag ==
  ASSUME PlacementInv, NEW r \in Reservations, values[r] # <<>>
  PROVE  /\ Len(values[r]) \in Nat \ {0}
         /\ LastLevel(r) \in 0..Len(values[r]) - 1
         /\ level[r] < Len(values[r])
<1>1. values[r] \in Seq(Keys) /\ level[r] \in Nat
  BY DEF PlacementInv, Types
<1>2. Len(values[r]) \in Nat \ {0} /\ Len(values[r]) - 1 \in Nat
  BY <1>1
<1>3. LastLevel(r) \in 0..Len(values[r]) - 1
  BY LastLevelIs DEF PlacementInv
<1>4. level[r] <= LastLevel(r)
  BY DEF PlacementInv, WithinLast
<1> QED  BY <1>1, <1>2, <1>3, <1>4

(* A step down to a level up to the last one: the chain that is created    *)
(* gets a tag whose last value is the key it is found under.               *)
LEMMA ChildKept ==
  ASSUME PlacementInv, NEW r \in Reservations, NEW l \in Nat,
         values[r] # <<>> => l <= LastLevel(r),
         ReserveChild(r, l)
  PROVE  PlacementInv'
<1>1. CASE EnsureChild(r, l)
  <2> DEFINE child == Append(path[r], Key(r, l))
  <2>1. l < Len(values[r]) /\ values[r] \in Seq(Keys) /\ path[r] \in Seq(Keys)
    BY <1>1 DEF EnsureChild, PlacementInv, Types
  <2>2. Key(r, l) \in Keys
    BY <2>1 DEF Key
  <2>3. child \in Seq(Keys) \ {<<>>} /\ Last(child) = Key(r, l)
    BY <2>1, <2>2, LastAppended
  <2>4. Sub(r, l) # <<>> /\ Last(Sub(r, l)) = Key(r, l)
    BY <2>1, LastOfPrefix DEF Sub, Key
  <2>5. Types'
    BY <1>1, <2>3 DEF EnsureChild, PlacementInv, Types
  <2>6. WithinLast'
    BY <1>1 DEF EnsureChild, PlacementInv, Types, WithinLast, LastLevel
  <2>7. FoundAgain'
    <3>1. CASE UNCHANGED chainTag
      BY <3>1 DEF PlacementInv, FoundAgain
    <3>2. CASE chainTag' = [p \in DOMAIN chainTag \cup {child} |->
                              IF p = child THEN Sub(r, l) ELSE chainTag[p]]
      BY <3>2, <2>3, <2>4 DEF PlacementInv, FoundAgain
    <3> QED  BY <1>1, <3>1, <3>2 DEF EnsureChild
  <2> QED  BY <2>5, <2>6, <2>7 DEF PlacementInv
<1>2. CASE ReadPastEnd(r, l)
  <2>1. values[r] = <<>>
    BY <1>2, WithinTag DEF ReadPastEnd
  <2> QED
    BY <1>2, <2>1 DEF ReadPastEnd, PlacementInv, Types, WithinLast, FoundAgain,
                         LastLevel
<1> QED  BY <1>1, <1>2 DEF ReserveChild

LEMMA ReserveKept ==
  ASSUME PlacementInv, NEW r \in Reservations, Reserve(r)
  PROVE  PlacementInv'
<1>1. level[r] \in Nat
  BY DEF PlacementInv, Types
<1>2. CASE ReserveChild(r, level[r])
  BY <1>1, <1>2, ChildKept DEF PlacementInv, WithinLast
<1>3. CASE AddSibling(r)
  BY <1>3 DEF AddSibling, PlacementInv, Types, WithinLast, FoundAgain, LastLevel
<1>4. CASE ~IsLast(r) /\ ReserveChild(r, NextLevel(r))
  <2>1. NextLevel(r) = level[r] + 1
    BY <1>4 DEF NextLevel
  <2>2. values[r] # <<>> => level[r] + 1 <= LastLevel(r)
    <3> SUFFICES ASSUME values[r] # <<>>
                 PROVE  level[r] + 1 <= LastLevel(r)
      OBVIOUS
    <3>1. level[r] # LastLevel(r)
      BY <1>4 DEF IsLast
    <3>2. level[r] <= LastLevel(r)
      BY DEF PlacementInv, WithinLast
    <3> QED  BY <1>1, <3>1, <3>2, WithinTag
  <2> QED  BY <1>1, <1>4, <2>1, <2>2, ChildKept
<1> QED  BY <1>2, <1>3, <1>4 DEF Reserve

LEMMA Invariant == Spec => []PlacementInv
<1>1. Init => PlacementInv
  <2> SUFFICES ASSUME Init
               PROVE  PlacementInv
    OBVIOUS
  <2>1. TagValues(kind) \subseteq Seq(Keys)
    BY MaxSizeAssumption DEF TagValues
  <2>2. Types
    BY <2>1 DEF Init, Types
  <2>3. WithinLast
    <3> SUFFICES ASSUME NEW r \in Reservations, values[r] # <<>>
                 PROVE  /\ level[r] <= LastLevel(r)
                        /\ progress[r] # "astray"
      BY DEF WithinLast
    <3>1. LastLevel(r) \in 0..Len(values[r]) - 1
      BY <2>2, LastLevelIs
    <3> QED  BY <3>1 DEF Init
  <2>4. FoundAgain
    BY DEF Init, FoundAgain
  <2> QED  BY <2>2, <2>3, <2>4 DEF PlacementInv
<1>2. PlacementInv /\ [Next]_vars => PlacementInv'
  <2>1. PlacementInv /\ UNCHANGED vars => PlacementInv'
    BY DEF vars, PlacementInv, Types, WithinLast, FoundAgain, LastLevel
  <2> QED  BY <2>1, ReserveKept DEF Next, Done
<1> QED  BY <1>1, <1>2, PTL DEF Spec

(* The view of a tag with values never reads beyond them, whatever the     *)
(* size of the tag and of size_type (tag.hpp:513-532).                     *)
THEOREM ViewsStayWithin == Spec => []KeysWithin
<1>1. PlacementInv => KeysWithin
  BY WithinTag DEF PlacementInv, WithinLast, KeysWithin
<1> QED  BY <1>1, Invariant, PTL

(* Every chain but the root is found in its parent under the key of the    *)
(* tag it was created with (forque.hpp:407, 466).                          *)
THEOREM ChainsFoundAgain == Spec => []FoundAgain
<1>1. PlacementInv => FoundAgain
  BY DEF PlacementInv
<1> QED  BY <1>1, Invariant, PTL

-----------------------------------------------------------------------------
(* How many values a view of the kind leaves out at the front: a dynamic   *)
(* tag's first one, as its view starts below it.                           *)
Skipped == IF kind = "static" THEN 0 ELSE 1

(* The chain a reservation has come to is named by the values of its tag   *)
(* up to its level; a static tag's first one too, once it is off the root. *)
Descent ==
  /\ kind \in {"static", "dynamic"}
  /\ \A r \in Reservations :
       /\ kind = "static" => values[r] # <<>>
       /\ \/ kind = "static" /\ path[r] = <<>> /\ level[r] = 0 /\ ~Placed(r)
          \/ /\ Len(path[r]) = level[r] + 1 - Skipped
             /\ level[r] # 0 => level[r] < Len(values[r])
             /\ \A k \in 1..Len(path[r]) : path[r][k] = values[r][k + Skipped]
       /\ Placed(r) => IsLast(r)

DescentInv == PlacementInv /\ Descent

(* Going down to the child for the next value of the tag.                  *)
LEMMA DescentChild ==
  ASSUME DescentInv, NEW r \in Reservations, NEW l \in Nat,
         EnsureChild(r, l), progress[r] = "descending",
         l = Len(path[r]) + Skipped
  PROVE  Descent'
<1> USE DEF DescentInv, PlacementInv, Types
<1>1. /\ l < Len(values[r]) /\ level' = [level EXCEPT ![r] = l]
      /\ path' = [path EXCEPT ![r] = Append(path[r], values[r][l + 1])]
      /\ kind' = kind /\ values' = values /\ progress' = progress
  BY DEF EnsureChild, Key
<1>2. /\ path[r] \in Seq(Keys) /\ values[r] \in Seq(Keys) /\ Skipped \in Nat
      /\ Skipped' = Skipped
  BY <1>1 DEF Skipped
<1>3. values[r][l + 1] \in Keys
  BY <1>1, <1>2
<1>4. /\ path'[r] = Append(path[r], values[r][l + 1])
      /\ Len(path'[r]) = Len(path[r]) + 1
      /\ path'[r][Len(path[r]) + 1] = values[r][l + 1]
      /\ \A k \in 1..Len(path[r]) : path'[r][k] = path[r][k]
  BY <1>1, <1>2, <1>3
<1>5. \A k \in 1..Len(path[r]) : path[r][k] = values[r][k + Skipped]
  BY <1>2 DEF Descent
<1>6. \A k \in 1..Len(path'[r]) : path'[r][k] = values[r][k + Skipped]
  <2> SUFFICES ASSUME NEW k \in 1..Len(path'[r])
               PROVE  path'[r][k] = values[r][k + Skipped]
    OBVIOUS
  <2>1. k = Len(path[r]) + 1 \/ k \in 1..Len(path[r])
    BY <1>2, <1>4
  <2>2. CASE k = Len(path[r]) + 1
    BY <2>2, <1>2, <1>4
  <2> QED  BY <2>1, <2>2, <1>4, <1>5
<1>7. Len(path'[r]) = level'[r] + 1 - Skipped
  BY <1>1, <1>2, <1>4
<1>8. ASSUME NEW s \in Reservations, s # r
      PROVE  path'[s] = path[s] /\ level'[s] = level[s]
  BY <1>1, <1>8
<1>9. level'[r] = l /\ ~Placed(r)' /\ ~Placed(r)
  BY <1>1 DEF Placed
<1>10. \A s \in Reservations : Placed(s)' => IsLast(s)'
  BY <1>1, <1>8, <1>9 DEF Descent, Placed, IsLast, LastLevel
<1>11. ASSUME NEW s \in Reservations
       PROVE  \/ /\ kind' = "static" /\ path'[s] = <<>> /\ level'[s] = 0
                 /\ ~Placed(s)'
              \/ /\ Len(path'[s]) = level'[s] + 1 - Skipped'
                 /\ level'[s] # 0 => level'[s] < Len(values'[s])
                 /\ \A k \in 1..Len(path'[s]) :
                      path'[s][k] = values'[s][k + Skipped']
  <2>1. CASE s = r
    BY <2>1, <1>1, <1>2, <1>6, <1>7, <1>9
  <2>2. CASE s # r
    BY <2>2, <1>1, <1>2, <1>8 DEF Descent, Placed
  <2> QED  BY <2>1, <2>2
<1> QED  BY <1>1, <1>10, <1>11 DEF Descent

(* A step of a reservation keeps what its way down has been.               *)
LEMMA DescentStep ==
  ASSUME DescentInv, NEW r \in Reservations, Reserve(r)
  PROVE  Descent'
<1> USE DEF DescentInv, PlacementInv, Types
<1>1. progress[r] = "descending"
  BY DEF Reserve
<1>2. ASSUME NEW l \in Nat, ReadPastEnd(r, l) PROVE Descent'
  BY <1>1, <1>2 DEF ReadPastEnd, Descent, Placed, IsLast, LastLevel, Skipped
<1>3. CASE IsRoot(r) /\ ReserveChild(r, level[r])
  <2>1. kind = "static" /\ path[r] = <<>> /\ Skipped = 0
    BY <1>3 DEF IsRoot, Skipped
  <2>2. level[r] = Len(path[r]) + Skipped
    BY <2>1 DEF Descent
  <2>3. level[r] \in Nat
    OBVIOUS
  <2> QED  BY <1>1, <1>2, <1>3, <2>2, <2>3, DescentChild DEF ReserveChild
<1>4. CASE ~IsRoot(r) /\ IsLast(r) /\ AddSibling(r)
  BY <1>4 DEF AddSibling, IsRoot, Descent, Placed, IsLast, LastLevel, Skipped
<1>5. CASE ~IsRoot(r) /\ ~IsLast(r) /\ ReserveChild(r, NextLevel(r))
  <2>1. NextLevel(r) = level[r] + 1 /\ level[r] + 1 \in Nat
    BY <1>5 DEF NextLevel
  <2>2. Len(path[r]) = level[r] + 1 - Skipped
    BY <1>5 DEF IsRoot, Descent
  <2>3. level[r] + 1 = Len(path[r]) + Skipped
    BY <2>2 DEF Skipped
  <2> QED  BY <1>1, <1>2, <1>5, <2>1, <2>3, DescentChild DEF ReserveChild
<1> QED  BY <1>3, <1>4, <1>5 DEF Reserve

(* The descent and the views together are an inductive invariant.          *)
LEMMA DescentInvariant == Spec => []DescentInv
<1>1. Init => Descent
  <2> SUFFICES ASSUME Init PROVE Descent
    OBVIOUS
  <2>1. \A r \in Reservations :
          path[r] = <<>> /\ level[r] = 0 /\ progress[r] = "descending"
    BY DEF Init
  <2>2. kind = "static" => \A r \in Reservations : values[r] # <<>>
    BY MaxSizeAssumption DEF Init, TagValues
  <2>3. kind \in {"static", "dynamic"}
    BY DEF Init
  <2> QED  BY <2>1, <2>2, <2>3 DEF Descent, Placed, Skipped
<1>2. DescentInv /\ [Next]_vars => Descent'
  <2>1. DescentInv /\ UNCHANGED vars => Descent'
    BY DEF vars, DescentInv, Descent, Placed, IsLast, LastLevel, Skipped
  <2> QED  BY <2>1, DescentStep DEF Next, Done
<1>3. PlacementInv /\ Descent => DescentInv
  BY DEF DescentInv
<1> QED  BY <1>1, <1>2, <1>3, Invariant, PTL DEF Spec

(* A placed reservation's chain is named by the values of its tag up to    *)
(* the last level.                                                         *)
LEMMA PlacedPath ==
  ASSUME DescentInv, NEW r \in Reservations, Placed(r)
  PROVE  /\ path[r] \in Seq(Keys) /\ values[r] \in Seq(Keys)
         /\ values[r] # <<>> => Len(path[r]) + Skipped <= Len(values[r])
         /\ values[r] = <<>> => path[r] = <<>>
         /\ kind = "static" => Len(path[r]) = Len(values[r])
         /\ \A k \in 1..Len(path[r]) : path[r][k] = values[r][k + Skipped]
<1>1. path[r] \in Seq(Keys) /\ values[r] \in Seq(Keys) /\ level[r] \in Nat
  BY DEF DescentInv, PlacementInv, Types
<1>2. /\ Len(path[r]) = level[r] + 1 - Skipped
      /\ level[r] # 0 => level[r] < Len(values[r])
      /\ \A k \in 1..Len(path[r]) : path[r][k] = values[r][k + Skipped]
      /\ IsLast(r) /\ (kind = "static" => values[r] # <<>>)
  BY DEF DescentInv, Descent
<1>3. ASSUME values[r] # <<>> PROVE Len(path[r]) + Skipped <= Len(values[r])
  BY <1>1, <1>2, <1>3 DEF Skipped
<1>4. ASSUME values[r] = <<>> PROVE path[r] = <<>>
  <2>1. level[r] = 0 /\ Skipped = 1
    BY <1>1, <1>2, <1>4 DEF DescentInv, Descent, Skipped
  <2>2. Len(path[r]) = 0
    BY <1>2, <2>1
  <2> QED  BY <1>1, <2>2
<1>5. ASSUME kind = "static" PROVE Len(path[r]) = Len(values[r])
  <2>1. level[r] = Len(values[r]) - 1 /\ Skipped = 0
    BY <1>2, <1>5 DEF IsLast, LastLevel, Skipped
  <2> QED  BY <1>1, <1>2, <2>1
<1> QED  BY <1>1, <1>2, <1>3, <1>4, <1>5

(* A tag and one that it is a prefix of come to chains in one order.       *)
LEMMA PrefixMeets ==
  ASSUME DescentInv, NEW r \in Reservations, NEW s \in Reservations,
         Placed(r), Placed(s), IsPrefix(values[r], values[s])
  PROVE  Related(path[r], path[s])
<1> DEFINE p == path[r]
           q == path[s]
           v == values[r]
           w == values[s]
<1>1. /\ p \in Seq(Keys) /\ q \in Seq(Keys)
      /\ v \in Seq(Keys) /\ w \in Seq(Keys)
      /\ v # <<>> => Len(p) + Skipped <= Len(v)
      /\ v = <<>> => p = <<>>
      /\ \A k \in 1..Len(p) : p[k] = v[k + Skipped]
      /\ \A k \in 1..Len(q) : q[k] = w[k + Skipped]
  BY PlacedPath
<1>2. \A k \in 1..Len(v) : v[k] = w[k]
  BY <1>1, PrefixIs
<1>3. Skipped \in Nat /\ Len(p) \in Nat /\ Len(q) \in Nat /\ Len(v) \in Nat
  BY <1>1 DEF Skipped
<1> HIDE DEF p, q, v, w
<1>4. \A k \in 1..Len(p) : p[k] = w[k + Skipped]
  <2>1. CASE v = <<>>
    BY <1>1, <2>1
  <2>2. CASE v # <<>>
    <3>1. \A k \in 1..Len(p) : k + Skipped \in 1..Len(v)
      BY <1>1, <1>3, <2>2
    <3> QED  BY <1>1, <1>2, <3>1
  <2> QED  BY <2>1, <2>2
<1>5. CASE Len(p) <= Len(q)
  <2>1. \A k \in 1..Len(p) : k \in 1..Len(q)
    BY <1>3, <1>5
  <2>2. \A k \in 1..Len(p) : p[k] = q[k]
    BY <1>1, <1>4, <2>1
  <2>3. IsPrefix(p, q)
    BY <1>1, <1>5, <2>2, PrefixIs
  <2> QED  BY <2>3 DEF Related, p, q
<1>6. CASE ~(Len(p) <= Len(q))
  <2>1. Len(q) <= Len(p) /\ \A k \in 1..Len(q) : k \in 1..Len(p)
    BY <1>3, <1>6
  <2>2. \A k \in 1..Len(q) : q[k] = p[k]
    BY <1>1, <1>4, <2>1
  <2>3. IsPrefix(q, p)
    BY <1>1, <2>1, <2>2, PrefixIs
  <2> QED  BY <2>3 DEF Related, p, q
<1> QED  BY <1>5, <1>6

(* For any number of reservations of tags of any size and either kind,     *)
(* related tags come to chains one of which is above the other.            *)
THEOREM RelatedTagsMeet == Spec => []RelatedMeet
<1>1. DescentInv => RelatedMeet
  <2> SUFFICES ASSUME DescentInv, NEW r \in Reservations, NEW s \in Reservations,
                      Placed(r), Placed(s), Related(values[r], values[s])
               PROVE  Related(path[r], path[s])
    BY DEF RelatedMeet
  <2>1. CASE IsPrefix(values[r], values[s])
    BY <2>1, PrefixMeets
  <2>2. CASE IsPrefix(values[s], values[r])
    BY <2>2, PrefixMeets DEF Related
  <2> QED  BY <2>1, <2>2 DEF Related
<1> QED  BY <1>1, DescentInvariant, PTL

(* A static tag's chain is its own: static tags share a chain only when    *)
(* they are the same, and an order only when they are related.             *)
THEOREM StaticTagsExact == Spec => []StaticExact
<1>1. ASSUME DescentInv, kind = "static", NEW r \in Reservations, Placed(r)
      PROVE  path[r] = values[r]
  <2>1. /\ path[r] \in Seq(Keys) /\ values[r] \in Seq(Keys)
        /\ Len(path[r]) = Len(values[r])
        /\ \A k \in 1..Len(path[r]) : path[r][k] = values[r][k + 0]
    BY <1>1, PlacedPath DEF Skipped
  <2>2. \A k \in 1..Len(path[r]) : path[r][k] = values[r][k]
    BY <2>1
  <2> QED  BY <2>1, <2>2, SeqEqual
<1>2. DescentInv => StaticExact
  BY <1>1 DEF StaticExact
<1> QED  BY <1>2, DescentInvariant, PTL
=============================================================================
