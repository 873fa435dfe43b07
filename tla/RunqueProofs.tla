---------------------------- MODULE RunqueProofs ----------------------------
(***************************************************************************)
(* The suspended getters of runque, for any number of getters and items.   *)
(***************************************************************************)
EXTENDS Runque, SequenceLemmas, TLAPS

-----------------------------------------------------------------------------
(* ResumedOnce with what it needs to be inductive: the shape of the lists, *)
(* and that one of the two is empty, as interrupt takes all the waiters.   *)
GetterTypes ==
  /\ waiters \in Seq(Getters) /\ rest \in Seq(Getters)
  /\ interrupted \in BOOLEAN
  /\ getter \in [Getters -> {"idle", "waiting", "thrown"}]
  /\ put \in [Items -> {"new", "deliver", "done", "refused"}]
  /\ awaken \in [Items -> Getters \cup {NoGetter}]

RestAfterInterrupt == rest # <<>> => interrupted

(* the list that is not empty *)
Linked == IF waiters = <<>> THEN rest ELSE waiters

LinkedOnce ==
  /\ IsInjective(Linked)
  /\ \A i \in Delivering : awaken[i] \in Getters \ ToSet(Linked)
  /\ \A i, j \in Delivering : awaken[i] = awaken[j] => i = j
  /\ {g \in Getters : getter[g] = "waiting"}
       = ToSet(Linked) \cup {awaken[i] : i \in Delivering}

GetterInv == GetterTypes /\ NoIdleGetter /\ RestAfterInterrupt /\ LinkedOnce

(* The one list that is not empty is all that is linked.                   *)
LEMMA LinkedIsAll ==
  ASSUME GetterTypes, NoIdleGetter, RestAfterInterrupt
  PROVE  waiters \o rest = Linked /\ Linked \in Seq(Getters)
<1>1. waiters = <<>> \/ rest = <<>>
  BY DEF NoIdleGetter, RestAfterInterrupt
<1> QED
  BY <1>1, EmptyFacts DEF Linked, GetterTypes

LEMMA InitGetterInv == Init => GetterInv
<1> SUFFICES ASSUME Init PROVE GetterInv
  OBVIOUS
<1>1. GetterTypes
  <2>1. waiters \in Seq(Getters) /\ rest \in Seq(Getters)
    BY DEF Init
  <2>2. interrupted \in BOOLEAN
    BY DEF Init
  <2>3. /\ getter \in [Getters -> {"idle", "waiting", "thrown"}]
        /\ put \in [Items -> {"new", "deliver", "done", "refused"}]
        /\ awaken \in [Items -> Getters \cup {NoGetter}]
    BY DEF Init
  <2> QED
    BY <2>1, <2>2, <2>3 DEF GetterTypes
<1>5. NoIdleGetter /\ RestAfterInterrupt
  BY DEF Init, NoIdleGetter, RestAfterInterrupt
<1>2. Linked = <<>> /\ Delivering = {}
  BY DEF Init, Linked, Delivering
<1>3. ToSet(<<>>) = {} /\ IsInjective(<<>>)
  BY DEF ToSet, IsInjective
<1>4. {g \in Getters : getter[g] = "waiting"} = {}
  BY DEF Init
<1> QED
  BY <1>1, <1>2, <1>3, <1>4, <1>5 DEF GetterInv, LinkedOnce

(* A getter stays suspended only where there is nothing for it.            *)
LEMMA QueueStep ==
  ASSUME GetterInv, [Next]_vars
  PROVE  GetterTypes' /\ NoIdleGetter' /\ RestAfterInterrupt'
<1> USE DEF GetterInv, GetterTypes, NoIdleGetter, RestAfterInterrupt
<1>1. ASSUME NEW g \in Getters, GetThrows(g)
      PROVE  GetterTypes' /\ NoIdleGetter' /\ RestAfterInterrupt'
  BY <1>1 DEF GetThrows
<1>2. ASSUME NEW g \in Getters, GetItem(g)
      PROVE  GetterTypes' /\ NoIdleGetter' /\ RestAfterInterrupt'
  BY <1>2 DEF GetItem
<1>3. ASSUME NEW g \in Getters, GetSuspends(g)
      PROVE  GetterTypes' /\ NoIdleGetter' /\ RestAfterInterrupt'
  BY <1>3, ConsFacts DEF GetSuspends
<1>4. ASSUME NEW i \in Items, PutThrows(i)
      PROVE  GetterTypes' /\ NoIdleGetter' /\ RestAfterInterrupt'
  BY <1>4 DEF PutThrows
<1>5. ASSUME NEW i \in Items, PutQueues(i)
      PROVE  GetterTypes' /\ NoIdleGetter' /\ RestAfterInterrupt'
  BY <1>5 DEF PutQueues
<1>6. ASSUME NEW i \in Items, PutAwakens(i)
      PROVE  GetterTypes' /\ NoIdleGetter' /\ RestAfterInterrupt'
  BY <1>6, TailFacts DEF PutAwakens
<1>7. ASSUME NEW i \in Items, ResumeResult(i), awaken[i] \in Getters
      PROVE  GetterTypes' /\ NoIdleGetter' /\ RestAfterInterrupt'
  BY <1>7 DEF ResumeResult
<1>8. CASE Interrupt
  BY <1>8 DEF Interrupt
<1>9. CASE ResumeException
  BY <1>9, TailFacts DEF ResumeException
<1>10. CASE UNCHANGED vars
  BY <1>10 DEF vars
<1>11. ASSUME NEW i \in Items, ResumeResult(i) PROVE awaken[i] \in Getters
  BY <1>11 DEF ResumeResult, LinkedOnce, Delivering
<1> QED
  BY <1>1, <1>2, <1>3, <1>4, <1>5, <1>6, <1>7, <1>8, <1>9, <1>10, <1>11
     DEF Next, GetNothing, Done

(* A getter leaves its list when it is unlinked, and for one resumer.      *)
LEMMA LinkedStep ==
  ASSUME GetterInv, [Next]_vars PROVE LinkedOnce'
<1> USE DEF GetterInv, GetterTypes
<1>1. ASSUME NEW g \in Getters, GetThrows(g) PROVE LinkedOnce'
  BY <1>1 DEF GetThrows, LinkedOnce, Linked, Delivering
<1>2. ASSUME NEW g \in Getters, GetItem(g) PROVE LinkedOnce'
  BY <1>2 DEF GetItem, LinkedOnce, Linked, Delivering
<1>3. ASSUME NEW g \in Getters, GetSuspends(g) PROVE LinkedOnce'
  <2>1. g \notin ToSet(Linked) /\ \A i \in Delivering : awaken[i] # g
    BY <1>3 DEF GetSuspends, LinkedOnce
  <2>2. rest = <<>> /\ Linked = waiters
    BY <1>3 DEF GetSuspends, RestAfterInterrupt, Linked
  <2>3. waiters' # <<>> /\ Linked' = <<g>> \o Linked
    BY <1>3, <2>2 DEF GetSuspends, Linked
  <2>4. IsInjective(Linked') /\ ToSet(Linked') = {g} \cup ToSet(Linked)
    BY <2>1, <2>2, <2>3, ConsFacts DEF LinkedOnce
  <2>5. Delivering' = Delivering /\ awaken' = awaken
    BY <1>3 DEF GetSuspends, Delivering
  <2>6. {h \in Getters : getter'[h] = "waiting"}
          = {h \in Getters : getter[h] = "waiting"} \cup {g}
    BY <1>3 DEF GetSuspends
  <2> QED
    BY <2>1, <2>4, <2>5, <2>6 DEF LinkedOnce
<1>4. ASSUME NEW i \in Items, PutThrows(i) PROVE LinkedOnce'
  BY <1>4 DEF PutThrows, LinkedOnce, Linked, Delivering
<1>5. ASSUME NEW i \in Items, PutQueues(i) PROVE LinkedOnce'
  BY <1>5 DEF PutQueues, LinkedOnce, Linked, Delivering
<1>6. ASSUME NEW i \in Items, PutAwakens(i) PROVE LinkedOnce'
  <2>1. rest = <<>> /\ Linked = waiters /\ waiters # <<>>
    BY <1>6 DEF PutAwakens, RestAfterInterrupt, Linked
  <2>2. Linked' = Tail(Linked)
    BY <1>6, <2>1 DEF PutAwakens, Linked
  <2>3. /\ IsInjective(Linked') /\ Head(Linked) \notin ToSet(Linked')
        /\ ToSet(Linked) = {Head(Linked)} \cup ToSet(Linked')
        /\ Head(Linked) \in Getters
    BY <2>1, <2>2, TailFacts DEF LinkedOnce
  <2>4. Delivering' = Delivering \cup {i} /\ i \notin Delivering
    BY <1>6 DEF PutAwakens, Delivering
  <2>5. /\ awaken'[i] = Head(Linked)
        /\ \A j \in Delivering : awaken'[j] = awaken[j]
    BY <1>6, <2>1, <2>4 DEF PutAwakens, Delivering
  <2>6. getter' = getter
    BY <1>6 DEF PutAwakens
  <2>7. {awaken'[j] : j \in Delivering'}
          = {awaken[j] : j \in Delivering} \cup {Head(Linked)}
    BY <2>4, <2>5
  <2> QED
    BY <2>3, <2>4, <2>5, <2>6, <2>7 DEF LinkedOnce
<1>7. ASSUME NEW i \in Items, ResumeResult(i) PROVE LinkedOnce'
  <2>1. i \in Delivering /\ Delivering' = Delivering \ {i}
    BY <1>7 DEF ResumeResult, Delivering
  <2>2. Linked' = Linked /\ \A j \in Delivering' : awaken'[j] = awaken[j]
    BY <1>7, <2>1 DEF ResumeResult, Linked, Delivering
  <2>3. {g \in Getters : getter'[g] = "waiting"}
          = {g \in Getters : getter[g] = "waiting"} \ {awaken[i]}
    BY <1>7 DEF ResumeResult
  <2>4. {awaken'[j] : j \in Delivering'}
          = {awaken[j] : j \in Delivering} \ {awaken[i]}
    BY <2>1, <2>2 DEF LinkedOnce
  <2>5. awaken[i] \notin ToSet(Linked)
    BY <2>1 DEF LinkedOnce
  <2>6. {g \in Getters : getter'[g] = "waiting"}
          = ToSet(Linked') \cup {awaken'[j] : j \in Delivering'}
    <3>1. {g \in Getters : getter[g] = "waiting"}
            = ToSet(Linked) \cup {awaken[j] : j \in Delivering}
      BY DEF LinkedOnce
    <3>2. ToSet(Linked') = ToSet(Linked)
      BY <2>2
    <3>3. awaken[i] \notin ToSet(Linked')
      BY <2>5, <3>2
    <3> HIDE DEF GetterInv, GetterTypes
    <3> QED
      BY <3>1, <3>2, <3>3, <2>3, <2>4
  <2>7. \A j \in Delivering' : awaken'[j] \in Getters \ ToSet(Linked')
    BY <2>1, <2>2 DEF LinkedOnce
  <2>8. \A j, k \in Delivering' : awaken'[j] = awaken'[k] => j = k
    BY <2>1, <2>2 DEF LinkedOnce
  <2>9. IsInjective(Linked')
    BY <2>2 DEF LinkedOnce
  <2> QED
    BY <2>6, <2>7, <2>8, <2>9 DEF LinkedOnce
<1>8. CASE Interrupt
  <2>1. Linked' = Linked
    BY <1>8 DEF Interrupt, RestAfterInterrupt, Linked
  <2> QED
    BY <1>8, <2>1 DEF Interrupt, LinkedOnce, Delivering
<1>9. CASE ResumeException
  <2>1. waiters = <<>> /\ Linked = rest /\ rest # <<>>
    BY <1>9 DEF ResumeException, RestAfterInterrupt, NoIdleGetter, Linked
  <2>2. Linked' = Tail(Linked)
    BY <1>9, <2>1 DEF ResumeException, Linked
  <2>3. /\ IsInjective(Linked') /\ Head(Linked) \notin ToSet(Linked')
        /\ ToSet(Linked) = {Head(Linked)} \cup ToSet(Linked')
        /\ Head(Linked) \in Getters
    BY <2>1, <2>2, TailFacts DEF LinkedOnce
  <2>4. Delivering' = Delivering /\ awaken' = awaken
    BY <1>9 DEF ResumeException, Delivering
  <2>5. {g \in Getters : getter'[g] = "waiting"}
          = {g \in Getters : getter[g] = "waiting"} \ {Head(Linked)}
    BY <1>9, <2>1, <2>3 DEF ResumeException
  <2> QED
    BY <2>3, <2>4, <2>5 DEF LinkedOnce
<1>10. CASE UNCHANGED vars
  BY <1>10 DEF vars, LinkedOnce, Linked, Delivering
<1> QED
  BY <1>1, <1>2, <1>3, <1>4, <1>5, <1>6, <1>7, <1>8, <1>9, <1>10 DEF Next, GetNothing, Done

(* The inductive invariant of the suspended getters.                       *)
THEOREM GetterInvariant == Spec => []GetterInv
<1>1. GetterInv /\ [Next]_vars => GetterInv'
  BY QueueStep, LinkedStep DEF GetterInv
<1> QED
  BY InitGetterInv, <1>1, PTL DEF Spec

(* No getter is left suspended beside an item, or past an interrupt.       *)
THEOREM NobodyIdle == Spec => []NoIdleGetter
BY GetterInvariant, PTL DEF GetterInv

(* Every suspended getter has exactly one resumer, so no awaitable gets    *)
(* two results and none is forgotten (runque.hpp:275, 290).                *)
THEOREM EachResumedOnce == Spec => []ResumedOnce
<1>1. GetterInv => ResumedOnce
  BY LinkedIsAll DEF GetterInv, LinkedOnce, ResumedOnce
<1> QED
  BY GetterInvariant, <1>1, PTL

-----------------------------------------------------------------------------
(* Taking the k-th element out of a sequence without repetitions.          *)
LEMMA WithoutFacts ==
  ASSUME NEW S, NEW s \in Seq(S), NEW k \in DOMAIN s, IsInjective(s)
  PROVE  /\ Without(s, k) \in Seq(S) /\ IsInjective(Without(s, k))
         /\ ToSet(Without(s, k)) = ToSet(s) \ {s[k]}
<1> DEFINE a == SubSeq(s, 1, k - 1)
           b == SubSeq(s, k + 1, Len(s))
<1>1. k \in 1..Len(s) /\ Len(s) \in Nat /\ DOMAIN s = 1..Len(s)
  OBVIOUS
<1>2. /\ a \in Seq(S) /\ DOMAIN a = 1..k - 1
      /\ \A j \in 1..k - 1 : a[j] = s[j]
  BY <1>1
<1>3. /\ b \in Seq(S) /\ DOMAIN b = 1..Len(s) - k
      /\ \A j \in 1..Len(s) - k : b[j] = s[j + k]
  BY <1>1
<1> HIDE DEF a, b
<1>4. IsInjective(a) /\ IsInjective(b)
  <2>1. \A i, j \in 1..Len(s) : s[i] = s[j] => i = j
    BY <1>1 DEF IsInjective
  <2>2. \A j \in 1..k - 1 : j \in 1..Len(s)
    BY <1>1
  <2>3. \A i, j \in 1..Len(s) - k :
          i + k \in 1..Len(s) /\ (i + k = j + k => i = j)
    BY <1>1
  <2>4. IsInjective(a)
    BY <1>2, <2>1, <2>2 DEF IsInjective
  <2>5. IsInjective(b)
    BY <1>3, <2>1, <2>3 DEF IsInjective
  <2> QED
    BY <2>4, <2>5
<1>5. \A x \in 1..k - 1, y \in 1..Len(s) - k : a[x] # b[y]
  <2>1. \A x \in 1..k - 1, y \in 1..Len(s) - k :
          x \in 1..Len(s) /\ y + k \in 1..Len(s) /\ x # y + k
    BY <1>1
  <2>2. \A i, j \in 1..Len(s) : s[i] = s[j] => i = j
    BY <1>1 DEF IsInjective
  <2> QED
    BY <1>2, <1>3, <2>1, <2>2
<1>6. ToSet(a) \cap ToSet(b) = {}
  BY <1>2, <1>3, <1>5 DEF ToSet
<1>7. ToSet(a) \cup ToSet(b) = ToSet(s) \ {s[k]}
  <2>1. ToSet(a) \subseteq ToSet(s) \ {s[k]}
    BY <1>1, <1>2 DEF ToSet, IsInjective
  <2>2. ToSet(b) \subseteq ToSet(s) \ {s[k]}
    BY <1>1, <1>3 DEF ToSet, IsInjective
  <2>3. ASSUME NEW j \in DOMAIN s, s[j] # s[k]
        PROVE  s[j] \in ToSet(a) \cup ToSet(b)
    <3>1. CASE j < k
      BY <3>1, <1>1, <1>2 DEF ToSet
    <3>2. CASE j > k
      <4>1. j - k \in 1..Len(s) - k /\ b[j - k] = s[j]
        BY <3>2, <1>1, <1>3
      <4> QED
        BY <4>1, <1>3 DEF ToSet
    <3> QED
      BY <2>3, <3>1, <3>2, <1>1
  <2> QED
    BY <2>1, <2>2, <2>3 DEF ToSet
<1>8. Without(s, k) = a \o b
  BY DEF Without, a, b
<1> QED
  BY <1>2, <1>3, <1>4, <1>6, <1>7, <1>8, ConcatFacts

(* In each of the three orders, a queue with items has a next one.         *)
LEMMA NextPositionIs ==
  ASSUME kind \in Kinds, items \in Seq(Items), items # <<>>
  PROVE  NextPosition \in DOMAIN items
<1>1. Len(items) \in Nat /\ Len(items) > 0 /\ DOMAIN items = 1..Len(items)
  OBVIOUS
<1>2. kind.order \in {"fifo", "lifo", "priority"}
  BY DEF Kinds
<1>3. CASE kind.order = "fifo"
  BY <1>1, <1>3 DEF NextPosition
<1>4. CASE kind.order = "lifo"
  BY <1>1, <1>4 DEF NextPosition
<1>5. CASE kind.order = "priority"
  <2>1. items \in Seq(Nat)
    BY ItemsAssumption, SeqMonotonic
  <2>2. \E k \in DOMAIN items : \A j \in DOMAIN items : items[j] <= items[k]
    BY <2>1, GreatestElement
  <2> QED
    BY <1>5, <2>2 DEF NextPosition
<1> QED
  BY <1>2, <1>3, <1>4, <1>5

-----------------------------------------------------------------------------
(* An item is in the queue once, and neither in it nor taken before its    *)
(* put has got that far.                                                   *)
ItemInv ==
  /\ kind \in Kinds
  /\ items \in Seq(Items) /\ IsInjective(items)
  /\ taken \subseteq Items
  /\ ToSet(items) \cap taken = {}
  /\ \A i \in ToSet(items) \cup taken : put[i] = "done"

QueueInv == GetterInv /\ ItemInv

(* The items are elements of the queue. *)
LEMMA QueuedItems == ItemInv => ToSet(items) \subseteq Items
BY DEF ItemInv, ToSet

(* What a get takes is in the queue, and is no longer in it afterwards.    *)
LEMMA PopFacts ==
  ASSUME ItemInv, NEW g \in Getters, GetItem(g)
  PROVE  \E i \in Items :
           /\ i \in ToSet(items) /\ taken' = taken \cup {i}
           /\ ToSet(items') = ToSet(items) \ {i}
           /\ items' \in Seq(Items) /\ IsInjective(items')
<1> DEFINE k == NextPosition
<1>1. items # <<>> /\ items' = Without(items, k) /\ taken' = taken \cup {items[k]}
  BY DEF GetItem
<1>2. k \in DOMAIN items
  BY <1>1, NextPositionIs DEF ItemInv
<1> HIDE DEF k
<1>3. items[k] \in ToSet(items)
  BY <1>2 DEF ToSet
<1>4. items[k] \in Items
  BY <1>3, QueuedItems
<1>5. /\ items' \in Seq(Items) /\ IsInjective(items')
      /\ ToSet(items') = ToSet(items) \ {items[k]}
  BY <1>1, <1>2, WithoutFacts DEF ItemInv
<1> QED
  BY <1>1, <1>3, <1>4, <1>5

(* Every step keeps what is known of the items.                            *)
LEMMA ItemStep == ASSUME QueueInv, [Next]_vars PROVE ItemInv'
<1> USE DEF QueueInv, GetterInv, GetterTypes, ItemInv
<1>1. ASSUME NEW g \in Getters, GetThrows(g) PROVE ItemInv'
  BY <1>1 DEF GetThrows
<1>2. ASSUME NEW g \in Getters, GetItem(g) PROVE ItemInv'
  <2>1. kind' = kind /\ put' = put
    BY <1>2 DEF GetItem
  <2>2. PICK i \in Items :
           /\ i \in ToSet(items) /\ taken' = taken \cup {i}
           /\ ToSet(items') = ToSet(items) \ {i}
           /\ items' \in Seq(Items) /\ IsInjective(items')
    BY <1>2, PopFacts
  <2> QED
    BY <2>1, <2>2
<1>3. ASSUME NEW g \in Getters, GetSuspends(g) PROVE ItemInv'
  BY <1>3 DEF GetSuspends
<1>4. ASSUME NEW i \in Items, PutThrows(i) PROVE ItemInv'
  BY <1>4, QueuedItems DEF PutThrows
<1>5. ASSUME NEW i \in Items, PutQueues(i) PROVE ItemInv'
  <2>1. i \notin ToSet(items) \cup taken
    BY <1>5 DEF PutQueues
  <2>2. /\ items' \in Seq(Items) /\ IsInjective(items')
        /\ ToSet(items') = ToSet(items) \cup {i}
    BY <1>5, <2>1, AppendFacts DEF PutQueues
  <2>3. kind' = kind /\ taken' = taken /\ put' = [put EXCEPT ![i] = "done"]
    BY <1>5 DEF PutQueues
  <2> QED
    BY <2>1, <2>2, <2>3, QueuedItems
<1>6. ASSUME NEW i \in Items, PutAwakens(i) PROVE ItemInv'
  BY <1>6, QueuedItems DEF PutAwakens
<1>7. ASSUME NEW i \in Items, ResumeResult(i) PROVE ItemInv'
  BY <1>7, QueuedItems DEF ResumeResult
<1>8. CASE Interrupt
  BY <1>8 DEF Interrupt
<1>9. CASE ResumeException
  BY <1>9 DEF ResumeException
<1>10. CASE UNCHANGED vars
  BY <1>10 DEF vars
<1> QED
  BY <1>1, <1>2, <1>3, <1>4, <1>5, <1>6, <1>7, <1>8, <1>9, <1>10
     DEF Next, GetNothing, Done

(* The getters and the items together are an inductive invariant.          *)
LEMMA QueueInvariant == Spec => []QueueInv
<1>1. Init => QueueInv
  <2> SUFFICES ASSUME Init PROVE ItemInv
    BY InitGetterInv DEF QueueInv
  <2>1. items = <<>> /\ taken = {} /\ kind \in Kinds
    BY DEF Init
  <2>2. <<>> \in Seq(Items) /\ IsInjective(<<>>) /\ ToSet(<<>>) = {}
    BY DEF IsInjective, ToSet
  <2> QED
    BY <2>1, <2>2 DEF ItemInv
<1>2. QueueInv /\ [Next]_vars => QueueInv'
  BY QueueStep, LinkedStep, ItemStep DEF QueueInv, GetterInv
<1> QED
  BY <1>1, <1>2, PTL DEF Spec

(* The types, and that a put that delivers has a getter to deliver to.     *)
THEOREM RunqueTypes == Spec => []TypeOK
<1>1. QueueInv => TypeOK
  BY NoGetterAssumption
     DEF QueueInv, GetterInv, GetterTypes, LinkedOnce, ItemInv, TypeOK
<1> QED
  BY QueueInvariant, <1>1, PTL

-----------------------------------------------------------------------------
(* Every step of the run queue is a step of OfferQueue or a stutter: a put *)
(* offers its item when it is queued or given a getter, and an item is     *)
(* taken when a get pops it or the getter is resumed with it.              *)
LEMMA OfferStep ==
  ASSUME QueueInv, [Next]_vars
  PROVE  [Offers!Next]_(Offers!vars)
<1> DEFINE ready == ToSet(items) \cup Delivering
<1>a. ASSUME ready' = ready, taken' = taken, interrupted' = interrupted
      PROVE  [Offers!Next]_(Offers!vars)
  BY <1>a DEF Offers!vars
<1>b. ASSUME NEW i \in Items, ~interrupted, i \notin ready \cup taken,
             ready' = ready \cup {i}, taken' = taken, interrupted' = interrupted
      PROVE  Offers!Next
  BY <1>b DEF Offers!Next, Offers!Put
<1>c. ASSUME NEW i \in Items, i \in ready, ready' = ready \ {i},
             taken' = taken \cup {i}, interrupted' = interrupted
      PROVE  Offers!Next
  BY <1>c DEF Offers!Next, Offers!Take
<1>d. ASSUME ready' = ready, taken' = taken, interrupted' = TRUE
      PROVE  Offers!Next
  BY <1>d DEF Offers!Next, Offers!Interrupt
<1> USE DEF QueueInv, GetterInv, GetterTypes, ItemInv
<1>1. ASSUME NEW g \in Getters, GetThrows(g) \/ GetSuspends(g)
      PROVE  [Offers!Next]_(Offers!vars)
  BY <1>1, <1>a DEF GetThrows, GetSuspends, Delivering
<1>2. ASSUME NEW g \in Getters, GetItem(g) PROVE Offers!Next
  <2>1. PICK i \in Items :
           /\ i \in ToSet(items) /\ taken' = taken \cup {i}
           /\ ToSet(items') = ToSet(items) \ {i}
    BY <1>2, PopFacts
  <2>2. Delivering' = Delivering /\ interrupted' = interrupted
    BY <1>2 DEF GetItem, Delivering
  <2>3. i \notin Delivering
    BY <2>1 DEF Delivering
  <2> QED
    BY <2>1, <2>2, <2>3, <1>c
<1>4. ASSUME NEW i \in Items, PutThrows(i)
      PROVE  [Offers!Next]_(Offers!vars)
  <2>1. Delivering' = Delivering
    BY <1>4 DEF PutThrows, Delivering
  <2> QED
    BY <1>4, <2>1, <1>a DEF PutThrows
<1>5. ASSUME NEW i \in Items, PutQueues(i) PROVE Offers!Next
  <2>1. i \notin ToSet(items) \cup taken \cup Delivering
    BY <1>5 DEF PutQueues, Delivering
  <2>2. ToSet(items') = ToSet(items) \cup {i} /\ Delivering' = Delivering
    BY <1>5, AppendFacts DEF PutQueues, Delivering
  <2>3. ~interrupted /\ taken' = taken /\ interrupted' = interrupted
    BY <1>5 DEF PutQueues
  <2> QED
    BY <2>1, <2>2, <2>3, <1>b
<1>6. ASSUME NEW i \in Items, PutAwakens(i) PROVE Offers!Next
  <2>1. i \notin ToSet(items) \cup taken \cup Delivering
    BY <1>6 DEF PutAwakens, Delivering
  <2>2. Delivering' = Delivering \cup {i} /\ items' = items
    BY <1>6 DEF PutAwakens, Delivering
  <2>3. ~interrupted /\ taken' = taken /\ interrupted' = interrupted
    BY <1>6 DEF PutAwakens
  <2> QED
    BY <2>1, <2>2, <2>3, <1>b
<1>7. ASSUME NEW i \in Items, ResumeResult(i) PROVE Offers!Next
  <2>1. i \in Delivering /\ i \notin ToSet(items)
    BY <1>7 DEF ResumeResult, Delivering
  <2>2. Delivering' = Delivering \ {i} /\ items' = items
    BY <1>7 DEF ResumeResult, Delivering
  <2>3. taken' = taken \cup {i} /\ interrupted' = interrupted
    BY <1>7 DEF ResumeResult
  <2> QED
    BY <2>1, <2>2, <2>3, <1>c
<1>8. CASE Interrupt
  BY <1>8, <1>d DEF Interrupt, Delivering
<1>9. CASE ResumeException
  BY <1>9, <1>a DEF ResumeException, Delivering
<1>10. CASE UNCHANGED vars
  BY <1>10, <1>a DEF vars, Delivering
<1> QED
  BY <1>1, <1>2, <1>4, <1>5, <1>6, <1>7, <1>8, <1>9, <1>10
     DEF Next, GetNothing, Done

(* The run queue, in each of its orders and thread models, takes every     *)
(* item once, loses none on its way to the getter it resumes and accepts   *)
(* none after the interrupt: it implements OfferQueue.                     *)
THEOREM RunqueIsOfferQueue == Spec => ImplementsOfferQueue
<1>1. Init => Offers!Init
  <2> SUFFICES ASSUME Init PROVE Offers!Init
    OBVIOUS
  <2>1. items = <<>> /\ taken = {} /\ interrupted = FALSE /\ Delivering = {}
    BY DEF Init, Delivering
  <2> QED
    BY <2>1 DEF Offers!Init, ToSet
<1>2. QueueInv /\ [Next]_vars => [Offers!Next]_(Offers!vars)
  BY OfferStep
<1> QED
  BY <1>1, <1>2, QueueInvariant, PTL DEF Spec, ImplementsOfferQueue, Offers!Spec
=============================================================================
