---------------------------- MODULE MutexProofs -----------------------------
(***************************************************************************)
(* frq::mutex for any finite set of coroutines: mutual exclusion, what is  *)
(* linked through next_, and that the lock-free code implements FairLock.  *)
(*                                                                         *)
(* MutualExclusion alone is not inductive: a release hands the mutex to    *)
(* whatever head_ points to.  LoopPointers says that the pointers release  *)
(* dereferences in its loop and in the hand-over are never null; it rests  *)
(* on state_ pointing to an entry once the first swap of release failed.   *)
(*                                                                         *)
(* For the lists, Linked relates a pointer to the sequence of the entries  *)
(* linked from it, ListLinked shows that ListIn reads that sequence off,   *)
(* and ListInv says which lists there are at each point of lock and        *)
(* release.  From it follows what every step does to Queue, and from that  *)
(* both WaitersLinked and the refinement.                                  *)
(***************************************************************************)
EXTENDS Mutex, SequenceLemmas, TLAPS

LoopPointers ==
  \A c \in Coros :
    /\ pc[c] = "exchange" => state \in Coros
    /\ pc[c] = "reverse" => cur[c] \in Coros
    /\ pc[c] = "resume" => head[c] \in Coros

MutexInv == TypeOK /\ MutualExclusion /\ LoopPointers

(* With a holder, state_ is not the free word, and only the holder holds.  *)
LEMMA HolderTaken ==
  ASSUME MutexInv, NEW c \in Coros, Holds(c)
  PROVE  /\ state # FreeState
         /\ \A d \in Coros : Holds(d) => d = c
BY DEF MutexInv, MutualExclusion, Holders, IsFree

(* The mutex is free and nobody holds it at the start. *)
LEMMA InitInv == Init => MutexInv
BY DEF Init, MutexInv, TypeOK, MutualExclusion, LoopPointers, Holders, Holds,
       IsFree, Word, Pointer, Label

(* The types are kept by every step: what release dereferences is an entry *)
(* and not the null pointer.                                               *)
LEMMA TypeStep == MutexInv /\ [Next]_vars => TypeOK'
<1> SUFFICES ASSUME MutexInv, [Next]_vars PROVE TypeOK'
  OBVIOUS
<1> USE NullAssumption DEF MutexInv, TypeOK, LoopPointers, Word, Pointer, Label,
      IsFree, GetWaiter
<1>1. ASSUME NEW c \in Coros, Lock(c) PROVE TypeOK'
  BY <1>1 DEF Lock
<1>2. ASSUME NEW c \in Coros, TryLock(c) PROVE TypeOK'
  BY <1>2 DEF TryLock
<1>3. ASSUME NEW c \in Coros, Release(c) PROVE TypeOK'
  BY <1>3 DEF Release
<1>4. ASSUME NEW c \in Coros, CasSucceeds(c) PROVE TypeOK'
  BY <1>4 DEF CasSucceeds, Desired
<1>5. ASSUME NEW c \in Coros, CasFails(c) PROVE TypeOK'
  BY <1>5 DEF CasFails
<1>6. ASSUME NEW c \in Coros, ReleaseCas(c) PROVE TypeOK'
  BY <1>6 DEF ReleaseCas
<1>7. ASSUME NEW c \in Coros, Exchange(c) PROVE TypeOK'
  BY <1>7 DEF Exchange
<1>8. ASSUME NEW c \in Coros, ReverseOne(c) PROVE TypeOK'
  BY <1>8 DEF ReverseOne
<1>9. ASSUME NEW c \in Coros, Resume(c) PROVE TypeOK'
  BY <1>9 DEF Resume
<1>10. CASE UNCHANGED vars
  BY <1>10 DEF vars
<1> QED
  BY <1>1, <1>2, <1>3, <1>4, <1>5, <1>6, <1>7, <1>8, <1>9, <1>10 DEF Next, Step

(* What release relies on is kept: while its holder is in the exchange,    *)
(* others only push entries on the stack.                                  *)
LEMMA PointersStep == MutexInv /\ [Next]_vars => LoopPointers'
<1> SUFFICES ASSUME MutexInv, [Next]_vars PROVE LoopPointers'
  OBVIOUS
<1> USE NullAssumption, WordAssumption, HolderTaken
      DEF MutexInv, TypeOK, LoopPointers, Word, Pointer, Holds
<1>1. ASSUME NEW c \in Coros, Lock(c) PROVE LoopPointers'
  BY <1>1 DEF Lock
<1>2. ASSUME NEW c \in Coros, TryLock(c) PROVE LoopPointers'
  BY <1>2 DEF TryLock, IsFree
<1>3. ASSUME NEW c \in Coros, Release(c) PROVE LoopPointers'
  BY <1>3 DEF Release
<1>4. ASSUME NEW c \in Coros, CasSucceeds(c) PROVE LoopPointers'
  BY <1>4 DEF CasSucceeds, Desired, IsFree
<1>5. ASSUME NEW c \in Coros, CasFails(c) PROVE LoopPointers'
  BY <1>5 DEF CasFails
<1>6. ASSUME NEW c \in Coros, ReleaseCas(c) PROVE LoopPointers'
  BY <1>6 DEF ReleaseCas
<1>7. ASSUME NEW c \in Coros, Exchange(c) PROVE LoopPointers'
  BY <1>7 DEF Exchange, GetWaiter
<1>8. ASSUME NEW c \in Coros, ReverseOne(c) PROVE LoopPointers'
  BY <1>8 DEF ReverseOne
<1>9. ASSUME NEW c \in Coros, Resume(c) PROVE LoopPointers'
  BY <1>9 DEF Resume
<1>10. CASE UNCHANGED vars
  BY <1>10 DEF vars
<1> QED
  BY <1>1, <1>2, <1>3, <1>4, <1>5, <1>6, <1>7, <1>8, <1>9, <1>10 DEF Next, Step

(* Exclusion is kept: a swap from the free word finds no holder, and the   *)
(* hand-over passes the mutex on without freeing it.                       *)
LEMMA ExclusionStep == MutexInv /\ [Next]_vars => MutualExclusion'
<1> SUFFICES ASSUME MutexInv, [Next]_vars PROVE MutualExclusion'
  OBVIOUS
<1> USE NullAssumption, WordAssumption, HolderTaken
      DEF MutexInv, TypeOK, LoopPointers, MutualExclusion, Holders, Holds,
          IsFree, Word, Label, FreeState, TakenState
<1>1. ASSUME NEW c \in Coros, Lock(c) PROVE MutualExclusion'
  BY <1>1 DEF Lock
<1>2. ASSUME NEW c \in Coros, TryLock(c) PROVE MutualExclusion'
  BY <1>2 DEF TryLock
<1>3. ASSUME NEW c \in Coros, Release(c) PROVE MutualExclusion'
  BY <1>3 DEF Release
<1>4. ASSUME NEW c \in Coros, CasSucceeds(c) PROVE MutualExclusion'
  BY <1>4 DEF CasSucceeds, Desired
<1>5. ASSUME NEW c \in Coros, CasFails(c) PROVE MutualExclusion'
  BY <1>5 DEF CasFails
<1>6. ASSUME NEW c \in Coros, ReleaseCas(c) PROVE MutualExclusion'
  BY <1>6 DEF ReleaseCas
<1>7. ASSUME NEW c \in Coros, Exchange(c) PROVE MutualExclusion'
  BY <1>7 DEF Exchange
<1>8. ASSUME NEW c \in Coros, ReverseOne(c) PROVE MutualExclusion'
  BY <1>8 DEF ReverseOne
<1>9. ASSUME NEW c \in Coros, Resume(c) PROVE MutualExclusion'
  BY <1>9 DEF Resume
<1>10. CASE UNCHANGED vars
  BY <1>10 DEF vars
<1> QED
  BY <1>1, <1>2, <1>3, <1>4, <1>5, <1>6, <1>7, <1>8, <1>9, <1>10 DEF Next, Step

(* The inductive invariant of the lock-free code. *)
THEOREM MutexInvariant == Spec => []MutexInv
<1>1. MutexInv /\ [Next]_vars => MutexInv'
  BY TypeStep, PointersStep, ExclusionStep DEF MutexInv
<1> QED
  BY InitInv, <1>1, PTL DEF Spec

(* The pointers the code dereferences are entries, for any coroutines.     *)
THEOREM MutexTypes == Spec => []TypeOK
BY MutexInvariant, PTL DEF MutexInv

(* For any set of coroutines, at most one is between lock and unlock, and  *)
(* state_ is the free word exactly when none is (mutex.cpp:4-65).          *)
THEOREM MutexExclusion == Spec => []MutualExclusion
BY MutexInvariant, PTL DEF MutexInv

-----------------------------------------------------------------------------
(* The k-th element of a list, or null behind its end.                     *)
At(s, k) == IF k \in DOMAIN s THEN s[k] ELSE Null

(* The entries of s, each once, are linked from pointer p and end in null. *)
Linked(links, p, s) ==
  /\ s \in Seq(Coros) /\ IsInjective(s)
  /\ p = At(s, 1)
  /\ \A k \in DOMAIN s : links[s[k]] = At(s, k + 1)

(* The list that is linked from a pointer is the one ListIn reads off.     *)
LEMMA ListLinked ==
  ASSUME NEW links, NEW p, NEW s, Linked(links, p, s)
  PROVE  ListIn(links, p) = s
<1> DEFINE size == Cardinality(Coros)
           Follow(h) == [n \in 0..size |->
                          IF n = 0 THEN p
                          ELSE IF h[n - 1] = Null THEN Null ELSE links[h[n - 1]]]
           hops == Hops(links, p)
           g == [n \in 0..size |-> At(s, n + 1)]
<1>1. /\ s \in Seq(Coros) /\ Len(s) \in Nat /\ DOMAIN s = 1..Len(s)
      /\ \A k \in 1..Len(s) : s[k] \in Coros /\ s[k] # Null
  BY NullAssumption DEF Linked
<1>2. size \in Nat /\ Len(s) <= size
  BY CorosAssumption, InjectiveIsShort DEF Linked
<1>3. g = Follow(g)
  <2> SUFFICES ASSUME NEW n \in 0..size
               PROVE  At(s, n + 1) = IF n = 0 THEN p
                        ELSE IF At(s, n) = Null THEN Null ELSE links[At(s, n)]
    <3>1. \A n \in 0..size : n # 0 => n - 1 \in 0..size /\ (n - 1) + 1 = n
      BY <1>2
    <3> QED
      BY <3>1
  <2>1. CASE n = 0
    BY <2>1 DEF Linked
  <2>2. CASE n \in 1..Len(s)
    BY <2>2, <1>1 DEF Linked, At
  <2>3. CASE n > Len(s)
    <3>1. n \notin DOMAIN s /\ n + 1 \notin DOMAIN s /\ n # 0
      BY <2>3, <1>1
    <3> QED
      BY <3>1 DEF At
  <2> QED
    BY <2>1, <2>2, <2>3, <1>1, <1>2
<1>4. hops = Follow(hops)
  <2>1. hops = CHOOSE h : h = Follow(h)
    BY DEF Hops
  <2> HIDE DEF hops, Follow, g
  <2> QED
    BY <2>1, <1>3
<1>5. \A n \in 0..size : hops[n] = g[n]
  <2> DEFINE D == {n \in 0..size : hops[n] # g[n]}
  <2> HIDE DEF hops, g
  <2> SUFFICES ASSUME D # {} PROVE FALSE
    OBVIOUS
  <2>1. PICK m \in D : \A n \in D : m <= n
    <3>1. D \in SUBSET Nat
      BY <1>2
    <3> HIDE DEF D
    <3> QED
      BY <3>1, LeastNatural
  <2>2. m # 0 => m - 1 \in 0..size /\ hops[m - 1] = g[m - 1]
    BY <2>1, <1>2
  <2>3. hops[m] = Follow(hops)[m] /\ g[m] = Follow(g)[m]
    BY <1>3, <1>4
  <2>4. Follow(hops)[m] = Follow(g)[m]
    BY <2>1, <2>2
  <2> QED
    BY <2>1, <2>3, <2>4
<1>6. {n \in 0..size : hops[n] # Null} = 0..Len(s) - 1
  <2>1. \A n \in 0..size : hops[n] = At(s, n + 1)
    BY <1>5
  <2>2. \A n \in 0..size : At(s, n + 1) # Null <=> n \in 0..Len(s) - 1
    BY <1>1, <1>2 DEF At
  <2>3. 0..Len(s) - 1 \subseteq 0..size
    BY <1>1, <1>2
  <2> HIDE DEF hops
  <2> QED
    BY <2>1, <2>2, <2>3
<1>7. Cardinality(0..Len(s) - 1) = Len(s)
  <2>1. Cardinality(0..Len(s) - 1) =
          IF 0 > Len(s) - 1 THEN 0 ELSE (Len(s) - 1) - 0 + 1
    BY <1>1, FS_Interval
  <2> QED
    BY <2>1, <1>1
<1>8. ListIn(links, p) = [k \in 1..Len(s) |-> hops[k - 1]]
  BY <1>6, <1>7 DEF ListIn
<1>9. \A k \in 1..Len(s) : hops[k - 1] = s[k]
  <2>1. \A k \in 1..Len(s) : k - 1 \in 0..size /\ (k - 1) + 1 = k
    BY <1>1, <1>2
  <2> HIDE DEF hops
  <2> QED
    BY <2>1, <1>5, <1>1 DEF At
<1> HIDE DEF hops
<1>10. s = [k \in 1..Len(s) |-> s[k]]
  BY <1>1
<1> QED
  BY <1>8, <1>9, <1>10

(* Nothing is linked from the null pointer.                                *)
LEMMA NullEndsList ==
  ASSUME NEW links
  PROVE  Linked(links, Null, <<>>) /\ ListIn(links, Null) = <<>>
<1>1. Linked(links, Null, <<>>)
  BY DEF Linked, At, IsInjective
<1> QED
  BY <1>1, ListLinked

(* A list is linked alike by links that agree on its entries.              *)
LEMMA ListFrame ==
  ASSUME NEW links, NEW other, NEW p, NEW s, Linked(links, p, s),
         \A c \in ToSet(s) : other[c] = links[c]
  PROVE  Linked(other, p, s)
<1>1. \A k \in DOMAIN s : s[k] \in ToSet(s)
  BY DEF ToSet
<1> QED
  BY <1>1 DEF Linked

(* Linking an entry in front of a list.                                    *)
LEMMA PushLinked ==
  ASSUME NEW links, NEW p, NEW s, Linked(links, p, s),
         NEW c \in Coros, c \notin ToSet(s), links[c] = p
  PROVE  Linked(links, c, <<c>> \o s)
<1> DEFINE t == <<c>> \o s
<1>1. s \in Seq(Coros) /\ IsInjective(s)
  BY DEF Linked
<1>2. /\ DOMAIN t = 1..Len(s) + 1 /\ t[1] = c
      /\ \A k \in 1..Len(s) : t[k + 1] = s[k]
      /\ DOMAIN s = 1..Len(s) /\ Len(s) \in Nat
  BY <1>1
<1>3. t \in Seq(Coros) /\ IsInjective(t)
  BY <1>1, ConsFacts
<1> HIDE DEF t
<1>4. c = At(t, 1)
  BY <1>2 DEF At
<1>5. ASSUME NEW k \in DOMAIN t PROVE links[t[k]] = At(t, k + 1)
  <2>1. CASE k = 1
    <3>1. p = At(t, 2)
      BY <1>2 DEF Linked, At
    <3> QED
      BY <2>1, <1>2, <3>1
  <2>2. CASE k # 1
    <3>1. k - 1 \in DOMAIN s /\ t[k] = s[k - 1]
      BY <2>2, <1>2
    <3>2. At(t, k + 1) = At(s, k)
      BY <2>2, <1>2 DEF At
    <3>3. links[s[k - 1]] = At(s, (k - 1) + 1)
      BY <3>1 DEF Linked
    <3> QED
      BY <3>1, <3>2, <3>3, <1>2
  <2> QED
    BY <2>1, <2>2
<1> QED
  BY <1>3, <1>4, <1>5 DEF Linked, t

(* What is linked from an entry is the entry and the list after it.        *)
LEMMA PopLinked ==
  ASSUME NEW links, NEW c \in Coros, NEW s, Linked(links, c, s)
  PROVE  /\ s # <<>> /\ Head(s) = c /\ Tail(s) \in Seq(Coros)
         /\ s = <<c>> \o Tail(s)
         /\ Linked(links, links[c], Tail(s))
         /\ ToSet(s) = {c} \cup ToSet(Tail(s)) /\ c \notin ToSet(Tail(s))
<1>1. s \in Seq(Coros) /\ IsInjective(s)
  BY DEF Linked
<1>2. s # <<>> /\ s[1] = c
  BY NullAssumption DEF Linked, At
<1> DEFINE t == Tail(s)
<1>3. /\ DOMAIN t = 1..Len(s) - 1 /\ DOMAIN s = 1..Len(s)
      /\ \A k \in 1..Len(s) - 1 : t[k] = s[k + 1]
      /\ Head(s) = s[1] /\ Len(s) \in Nat /\ Len(s) > 0
  BY <1>1, <1>2
<1>4. /\ t \in Seq(Coros) /\ IsInjective(t)
      /\ ToSet(s) = {c} \cup ToSet(t) /\ c \notin ToSet(t)
  BY <1>1, <1>2, <1>3, TailFacts
<1>5. s = <<c>> \o t
  BY <1>1, <1>2, <1>3
<1> HIDE DEF t
<1>6. \A k \in 1..Len(s) : At(t, k) = At(s, k + 1)
  BY <1>3 DEF At
<1>7. links[c] = At(t, 1)
  BY <1>2, <1>3, <1>6 DEF Linked
<1>8. ASSUME NEW k \in DOMAIN t PROVE links[t[k]] = At(t, k + 1)
  <2>1. k + 1 \in 1..Len(s) /\ t[k] = s[k + 1]
    BY <1>3
  <2>2. links[s[k + 1]] = At(s, (k + 1) + 1)
    BY <2>1, <1>3 DEF Linked
  <2> QED
    BY <2>1, <2>2, <1>6
<1> QED
  BY <1>2, <1>3, <1>4, <1>5, <1>7, <1>8 DEF Linked, t

(* The entry a pointer points to is in the list.                           *)
LEMMA FirstEntry ==
  ASSUME NEW links, NEW c \in Coros, NEW s, Linked(links, c, s)
  PROVE  c \in ToSet(s)
<1>1. 1 \in DOMAIN s /\ s[1] = c
  BY NullAssumption DEF Linked, At
<1> QED
  BY <1>1 DEF ToSet

-----------------------------------------------------------------------------
(* The lists are well linked: those of state_ and waiters_, and the two    *)
(* halves of the one that a release reverses.                              *)
Proper(p) == Linked(next, p, ListFrom(p))

ListsLinked ==
  /\ Proper(waiters) /\ Proper(GetWaiter(state))
  /\ \A c \in Coros : Proper(cur[c]) /\ Proper(head[c])

(* The locals of lock and release are clear outside of them, and an entry  *)
(* about to be pushed is already linked to what its swap expects.          *)
LocalsClear ==
  \A c \in Coros :
    /\ pc[c] # "reverse" => cur[c] = Null
    /\ pc[c] \notin {"reverse", "resume"} => head[c] = Null
    /\ pc[c] # "lock" => expected[c] = FreeState
    /\ pc[c] = "lock" /\ ~IsFree(expected[c]) => next[c] = GetWaiter(expected[c])

(* There is one taken-over list at a time: release touches state_ only     *)
(* with waiters_ empty, and hands over the first of waiters_ otherwise.    *)
OneList ==
  /\ Holders = {} => waiters = Null
  /\ \A c \in Coros :
       /\ pc[c] \in {"release", "exchange", "reverse"} => waiters = Null
       /\ pc[c] = "resume" => waiters \in {head[c], Null}

ListInv == ListsLinked /\ LocalsClear /\ OneList

QueueInv == MutexInv /\ ListInv /\ WaitersLinked

Stack == ListFrom(GetWaiter(state))

(* The lists are sequences of coroutines without repetitions.              *)
LEMMA ListTypes ==
  ListsLinked =>
    /\ ListFrom(waiters) \in Seq(Coros) /\ Stack \in Seq(Coros)
    /\ \A c \in Coros : /\ ListFrom(cur[c]) \in Seq(Coros)
                        /\ ListFrom(head[c]) \in Seq(Coros)
BY DEF ListsLinked, Proper, Linked, Stack

(* The list taken over, by where the holder is.                            *)
LEMMA TakenOverIs ==
  MutexInv /\ ListInv =>
    /\ Holders = {} => TakenOver = <<>>
    /\ \A c \in Coros :
         /\ pc[c] = "owner" => TakenOver = ListFrom(waiters)
         /\ pc[c] \in {"release", "exchange"} => TakenOver = <<>>
         /\ pc[c] = "reverse" =>
              TakenOver = Reverse(ListFrom(cur[c])) \o ListFrom(head[c])
         /\ pc[c] = "resume" => TakenOver = ListFrom(head[c])
<1> SUFFICES ASSUME MutexInv, ListInv
    PROVE /\ Holders = {} => TakenOver = <<>>
          /\ \A c \in Coros :
               /\ pc[c] = "owner" => TakenOver = ListFrom(waiters)
               /\ pc[c] \in {"release", "exchange"} => TakenOver = <<>>
               /\ pc[c] = "reverse" =>
                    TakenOver = Reverse(ListFrom(cur[c])) \o ListFrom(head[c])
               /\ pc[c] = "resume" => TakenOver = ListFrom(head[c])
  OBVIOUS
<1>1. ListFrom(Null) = <<>>
  BY NullEndsList DEF ListFrom
<1>2. Reverse(<<>>) = <<>> /\ <<>> \o <<>> = <<>>
  BY DEF Reverse
<1>3. Holders = {} => TakenOver = <<>>
  BY <1>1 DEF ListInv, OneList, TakenOver
<1>4. ASSUME NEW c \in Coros, Holds(c)
      PROVE  TakenOver = IF waiters # Null THEN ListFrom(waiters)
                         ELSE Reverse(ListFrom(cur[c])) \o ListFrom(head[c])
  <2> DEFINE d == CHOOSE h \in Coros : Holds(h)
  <2>1. Holders # {} /\ d = c
    BY <1>4, HolderTaken DEF Holders
  <2>2. TakenOver = IF waiters # Null THEN ListFrom(waiters)
                    ELSE Reverse(ListFrom(cur[d])) \o ListFrom(head[d])
    BY <2>1 DEF TakenOver
  <2> HIDE DEF d
  <2> QED
    BY <2>1, <2>2
<1>5. ASSUME NEW c \in Coros
      PROVE  /\ pc[c] = "owner" => TakenOver = ListFrom(waiters)
             /\ pc[c] \in {"release", "exchange"} => TakenOver = <<>>
             /\ pc[c] = "reverse" =>
                  TakenOver = Reverse(ListFrom(cur[c])) \o ListFrom(head[c])
             /\ pc[c] = "resume" => TakenOver = ListFrom(head[c])
  <2>1. <<>> \o ListFrom(head[c]) = ListFrom(head[c])
    BY ListTypes, EmptyFacts DEF ListInv
  <2>2. /\ pc[c] # "reverse" => cur[c] = Null
        /\ pc[c] \notin {"reverse", "resume"} => head[c] = Null
        /\ pc[c] \in {"release", "exchange", "reverse"} => waiters = Null
        /\ pc[c] = "resume" => waiters \in {head[c], Null}
    BY DEF ListInv, LocalsClear, OneList
  <2>3. CASE pc[c] = "owner"
    BY <2>3, <2>2, <1>1, <1>2, <1>4 DEF Holds
  <2>4. CASE pc[c] \in {"release", "exchange"}
    BY <2>4, <2>2, <1>1, <1>2, <1>4 DEF Holds
  <2>5. CASE pc[c] = "reverse"
    BY <2>5, <2>2, <1>4 DEF Holds
  <2>6. CASE pc[c] = "resume"
    BY <2>6, <2>1, <2>2, <1>1, <1>2, <1>4 DEF Holds
  <2> QED
    BY <2>3, <2>4, <2>5, <2>6
<1> QED
  BY <1>3, <1>5

(* Its value after a step, likewise.                                       *)
LEMMA TakenOverNext ==
  MutexInv' /\ ListInv' =>
    /\ (Holders = {})' => TakenOver' = <<>>
    /\ \A c \in Coros :
         /\ pc'[c] = "owner" => TakenOver' = ListIn(next', waiters')
         /\ pc'[c] \in {"release", "exchange"} => TakenOver' = <<>>
         /\ pc'[c] = "reverse" => TakenOver' =
              Reverse(ListIn(next', cur'[c])) \o ListIn(next', head'[c])
         /\ pc'[c] = "resume" => TakenOver' = ListIn(next', head'[c])
<1> DEFINE P ==
    /\ Holders = {} => TakenOver = <<>>
    /\ \A c \in Coros :
         /\ pc[c] = "owner" => TakenOver = ListFrom(waiters)
         /\ pc[c] \in {"release", "exchange"} => TakenOver = <<>>
         /\ pc[c] = "reverse" =>
              TakenOver = Reverse(ListFrom(cur[c])) \o ListFrom(head[c])
         /\ pc[c] = "resume" => TakenOver = ListFrom(head[c])
<1>1. MutexInv /\ ListInv => P
  BY TakenOverIs
<1>2. MutexInv' /\ ListInv' => P'
  BY <1>1, PTL
<1> QED
  BY <1>2 DEF ListFrom

(* The queue is its two halves: an entry is in one of them, once.          *)
LEMMA QueueIs ==
  TakenOver \in Seq(Coros) /\ Stack \in Seq(Coros) =>
    /\ Queue \in Seq(Coros)
    /\ ToSet(Queue) = ToSet(TakenOver) \cup ToSet(Stack)
    /\ IsInjective(Queue) <=> /\ IsInjective(TakenOver) /\ IsInjective(Stack)
                              /\ ToSet(TakenOver) \cap ToSet(Stack) = {}
<1> SUFFICES ASSUME TakenOver \in Seq(Coros), Stack \in Seq(Coros)
    PROVE /\ Queue \in Seq(Coros)
          /\ ToSet(Queue) = ToSet(TakenOver) \cup ToSet(Stack)
          /\ IsInjective(Queue) <=>
               /\ IsInjective(TakenOver) /\ IsInjective(Stack)
               /\ ToSet(TakenOver) \cap ToSet(Stack) = {}
  OBVIOUS
<1>1. Queue = TakenOver \o Reverse(Stack)
  BY DEF Queue, Stack
<1>2. /\ Reverse(Stack) \in Seq(Coros) /\ ToSet(Reverse(Stack)) = ToSet(Stack)
      /\ IsInjective(Reverse(Stack)) <=> IsInjective(Stack)
  BY ReverseFacts
<1> QED
  BY <1>1, <1>2, ConcatFacts

(* What has been taken over is a sequence of coroutines.                   *)
LEMMA TakenOverType == MutexInv /\ ListInv => TakenOver \in Seq(Coros)
<1> SUFFICES ASSUME MutexInv, ListInv PROVE TakenOver \in Seq(Coros)
  OBVIOUS
<1>1. <<>> \in Seq(Coros)
  OBVIOUS
<1>2. CASE Holders = {}
  BY <1>1, <1>2, TakenOverIs
<1>3. ASSUME NEW c \in Coros, Holds(c) PROVE TakenOver \in Seq(Coros)
  <2>1. /\ ListFrom(waiters) \in Seq(Coros) /\ ListFrom(head[c]) \in Seq(Coros)
        /\ ListFrom(cur[c]) \in Seq(Coros)
    BY ListTypes DEF ListInv
  <2>2. Reverse(ListFrom(cur[c])) \o ListFrom(head[c]) \in Seq(Coros)
    BY <2>1, ReverseFacts, ConcatFacts
  <2> QED
    BY <1>1, <1>3, <2>1, <2>2, TakenOverIs DEF Holds
<1> QED
  BY <1>2, <1>3 DEF Holders

(* Whatever is linked is the entry of a suspended coroutine.               *)
LEMMA EntriesWait ==
  ASSUME QueueInv
  PROVE  /\ \A e \in ToSet(ListFrom(waiters)) : e \in Coros /\ pc[e] = "waiting"
         /\ \A e \in ToSet(Stack) : e \in Coros /\ pc[e] = "waiting"
         /\ \A c \in Coros :
              /\ \A e \in ToSet(ListFrom(cur[c])) :
                   e \in Coros /\ pc[e] = "waiting"
              /\ \A e \in ToSet(ListFrom(head[c])) :
                   e \in Coros /\ pc[e] = "waiting"
<1> DEFINE Waiting == {c \in Coros : pc[c] = "waiting"}
<1> USE DEF QueueInv
<1>1. ToSet(TakenOver) \cup ToSet(Stack) = Waiting
  BY QueueIs, TakenOverType, ListTypes DEF WaitersLinked, ListInv
<1>2. ListFrom(Null) = <<>> /\ ToSet(<<>>) = {}
  BY NullEndsList DEF ListFrom, ToSet
<1>3. ASSUME NEW c \in Coros
      PROVE  /\ ToSet(ListFrom(cur[c])) \subseteq Waiting
             /\ ToSet(ListFrom(head[c])) \subseteq Waiting
  <2>1. CASE pc[c] = "reverse"
    <3>1. /\ ListFrom(head[c]) \in Seq(Coros) /\ ListFrom(cur[c]) \in Seq(Coros)
      BY ListTypes DEF ListInv
    <3>2. TakenOver = Reverse(ListFrom(cur[c])) \o ListFrom(head[c])
      BY <2>1, TakenOverIs
    <3>3. /\ Reverse(ListFrom(cur[c])) \in Seq(Coros)
          /\ ToSet(Reverse(ListFrom(cur[c]))) = ToSet(ListFrom(cur[c]))
      BY <3>1, ReverseFacts
    <3>4. ToSet(TakenOver) = ToSet(ListFrom(cur[c])) \cup ToSet(ListFrom(head[c]))
      BY <3>1, <3>2, <3>3, ConcatFacts
    <3> QED
      BY <3>4, <1>1
  <2>2. CASE pc[c] = "resume"
    BY <2>2, <1>1, <1>2, TakenOverIs DEF ListInv, LocalsClear
  <2>3. CASE pc[c] \notin {"reverse", "resume"}
    BY <2>3, <1>2 DEF ListInv, LocalsClear
  <2> QED
    BY <2>1, <2>2, <2>3
<1>4. ToSet(ListFrom(waiters)) \subseteq Waiting
  <2>1. CASE waiters = Null
    BY <2>1, <1>2
  <2>2. CASE waiters # Null
    <3>1. PICK c \in Coros : Holds(c)
      BY <2>2 DEF ListInv, OneList, Holders
    <3>2. pc[c] = "owner" \/ (pc[c] = "resume" /\ waiters = head[c])
      BY <2>2, <3>1 DEF Holds, ListInv, OneList
    <3> QED
      BY <3>2, <1>1, <1>3, TakenOverIs
  <2> QED
    BY <2>1, <2>2
<1> QED
  BY <1>1, <1>3, <1>4

(* The mutex is handed over to a suspended coroutine.                      *)
LEMMA HeadWaits ==
  ASSUME QueueInv, NEW c \in Coros, pc[c] = "resume"
  PROVE  head[c] \in Coros /\ pc[head[c]] = "waiting"
<1>1. head[c] \in Coros
  BY DEF QueueInv, MutexInv, LoopPointers
<1>2. Linked(next, head[c], ListFrom(head[c]))
  BY DEF QueueInv, ListInv, ListsLinked, Proper
<1>3. head[c] \in ToSet(ListFrom(head[c]))
  BY <1>1, <1>2, FirstEntry
<1> QED
  BY <1>1, <1>3, EntriesWait

(* The locals of lock and release are kept in order.                       *)
LEMMA LocalsStep ==
  ASSUME QueueInv, [Next]_vars PROVE LocalsClear'
<1> USE NullAssumption, WordAssumption
      DEF QueueInv, MutexInv, ListInv, LocalsClear, TypeOK, Word, Pointer
<1>1. ASSUME NEW c \in Coros, Lock(c) PROVE LocalsClear'
  BY <1>1 DEF Lock, IsFree
<1>2. ASSUME NEW c \in Coros, TryLock(c) PROVE LocalsClear'
  BY <1>2 DEF TryLock
<1>3. ASSUME NEW c \in Coros, Release(c) PROVE LocalsClear'
  BY <1>3 DEF Release
<1>4. ASSUME NEW c \in Coros, CasSucceeds(c) PROVE LocalsClear'
  BY <1>4 DEF CasSucceeds
<1>5. ASSUME NEW c \in Coros, CasFails(c) PROVE LocalsClear'
  BY <1>5 DEF CasFails
<1>6. ASSUME NEW c \in Coros, ReleaseCas(c) PROVE LocalsClear'
  BY <1>6 DEF ReleaseCas
<1>7. ASSUME NEW c \in Coros, Exchange(c) PROVE LocalsClear'
  BY <1>7 DEF Exchange
<1>8. ASSUME NEW c \in Coros, ReverseOne(c) PROVE LocalsClear'
  <2>1. cur[c] \in Coros /\ pc[cur[c]] # "lock"
    <3>1. cur[c] \in Coros /\ Linked(next, cur[c], ListFrom(cur[c]))
      BY <1>8 DEF ReverseOne, LoopPointers, ListsLinked, Proper
    <3>2. cur[c] \in ToSet(ListFrom(cur[c]))
      BY <3>1, FirstEntry
    <3> QED
      BY <3>1, <3>2, EntriesWait
  <2> QED
    BY <1>8, <2>1 DEF ReverseOne
<1>9. ASSUME NEW c \in Coros, Resume(c) PROVE LocalsClear'
  <2>1. head[c] \in Coros /\ pc[head[c]] = "waiting"
    BY <1>9, HeadWaits DEF Resume
  <2> QED
    BY <1>9, <2>1 DEF Resume
<1>10. CASE UNCHANGED vars
  BY <1>10 DEF vars
<1> QED
  BY <1>1, <1>2, <1>3, <1>4, <1>5, <1>6, <1>7, <1>8, <1>9, <1>10 DEF Next, Step

(* There stays one taken-over list.                                        *)
LEMMA OneListStep ==
  ASSUME QueueInv, [Next]_vars PROVE OneList'
<1> USE NullAssumption, WordAssumption
      DEF QueueInv, MutexInv, ListInv, OneList, TypeOK, Word, Pointer,
          Holders, Holds
<1>1. ASSUME NEW c \in Coros, Lock(c) PROVE OneList'
  BY <1>1 DEF Lock
<1>2. ASSUME NEW c \in Coros, TryLock(c) PROVE OneList'
  BY <1>2 DEF TryLock, MutualExclusion
<1>3. ASSUME NEW c \in Coros, Release(c) PROVE OneList'
  BY <1>3 DEF Release
<1>4. ASSUME NEW c \in Coros, CasSucceeds(c) PROVE OneList'
  BY <1>4 DEF CasSucceeds
<1>5. ASSUME NEW c \in Coros, CasFails(c) PROVE OneList'
  BY <1>5 DEF CasFails
<1>6. ASSUME NEW c \in Coros, ReleaseCas(c) PROVE OneList'
  BY <1>6 DEF ReleaseCas
<1>7. ASSUME NEW c \in Coros, Exchange(c) PROVE OneList'
  BY <1>7 DEF Exchange
<1>8. ASSUME NEW c \in Coros, ReverseOne(c) PROVE OneList'
  BY <1>8 DEF ReverseOne
<1>9. ASSUME NEW c \in Coros, Resume(c) PROVE OneList'
  <2>1. head[c] \in Coros /\ pc[head[c]] = "waiting"
    BY <1>9, HeadWaits DEF Resume
  <2>2. \A d \in Coros : Holds(d) => d = c
    BY <1>9, HolderTaken DEF Resume
  <2> QED
    BY <1>9, <2>1, <2>2 DEF Resume
<1>10. CASE UNCHANGED vars
  BY <1>10 DEF vars
<1> QED
  BY <1>1, <1>2, <1>3, <1>4, <1>5, <1>6, <1>7, <1>8, <1>9, <1>10 DEF Next, Step

-----------------------------------------------------------------------------
(* The pointers a step finds in a list's place.                            *)
ListPointers ==
  {waiters, GetWaiter(state), Null}
    \cup {cur[c] : c \in Coros} \cup {head[c] : c \in Coros}

(* A step that leaves the next_ of the suspended alone leaves every list.  *)
LEMMA LinksKept ==
  ASSUME QueueInv,
         \A e \in Coros : pc[e] = "waiting" => next'[e] = next[e],
         NEW p, p \in ListPointers
  PROVE  Linked(next', p, ListFrom(p)) /\ ListIn(next', p) = ListFrom(p)
<1>1. Linked(next, p, ListFrom(p))
  BY NullEndsList DEF QueueInv, ListInv, ListsLinked, Proper, ListPointers, ListFrom
<1>2. \A e \in ToSet(ListFrom(p)) : e \in Coros /\ pc[e] = "waiting"
  <2>1. CASE p = Null
    <3>1. ListFrom(p) = <<>>
      BY <2>1, NullEndsList DEF ListFrom
    <3> QED
      BY <3>1 DEF ToSet
  <2>2. CASE p # Null
    BY <2>2, EntriesWait DEF ListPointers, Stack
  <2> QED
    BY <2>1, <2>2
<1>3. Linked(next', p, ListFrom(p))
  BY <1>1, <1>2, ListFrame
<1> QED
  BY <1>3, ListLinked

(* ... and keeps them linked, wherever it moves the pointers to them.      *)
LEMMA ListsKept ==
  ASSUME QueueInv,
         \A e \in Coros : pc[e] = "waiting" => next'[e] = next[e],
         waiters' \in ListPointers, GetWaiter(state') \in ListPointers,
         \A c \in Coros : cur'[c] \in ListPointers /\ head'[c] \in ListPointers
  PROVE  ListsLinked'
<1>1. \A p \in ListPointers : Linked(next', p, ListIn(next', p))
  BY LinksKept
<1>2. Linked(next', waiters', ListIn(next', waiters'))
  BY <1>1
<1>3. Linked(next', GetWaiter(state'), ListIn(next', GetWaiter(state')))
  BY <1>1
<1>4. \A c \in Coros : /\ Linked(next', cur'[c], ListIn(next', cur'[c]))
                      /\ Linked(next', head'[c], ListIn(next', head'[c]))
  BY <1>1
<1> QED
  BY <1>2, <1>3, <1>4 DEF ListsLinked, Proper, ListFrom, GetWaiter

(* What a step that starts or ends with no holder, or that is not the      *)
(* holder's, leaves alone.                                                 *)
LEMMA TakenOverKept ==
  ASSUME QueueInv, MutexInv', ListInv',
         \A e \in Coros : pc[e] = "waiting" => next'[e] = next[e],
         UNCHANGED <<waiters, head, cur>>,
         \A c \in Coros : Holds(c)' <=> Holds(c),
         \A c \in Coros : Holds(c) => pc'[c] = pc[c]
  PROVE  TakenOver' = TakenOver
<1>1. \A p \in ListPointers : ListIn(next', p) = ListFrom(p)
  BY LinksKept
<1>2. CASE Holders = {}
  <2>1. (Holders = {})'
    BY <1>2 DEF Holders
  <2> QED
    BY <1>2, <2>1, TakenOverIs, TakenOverNext DEF QueueInv
<1>3. ASSUME NEW c \in Coros, Holds(c) PROVE TakenOver' = TakenOver
  <2>1. /\ ListIn(next', waiters') = ListFrom(waiters)
        /\ ListIn(next', cur'[c]) = ListFrom(cur[c])
        /\ ListIn(next', head'[c]) = ListFrom(head[c])
    BY <1>1 DEF ListPointers
  <2>2. pc'[c] = pc[c]
    BY <1>3
  <2>3. CASE pc[c] = "owner"
    BY <2>1, <2>2, <2>3, TakenOverIs, TakenOverNext DEF QueueInv
  <2>4. CASE pc[c] \in {"release", "exchange"}
    BY <2>2, <2>4, TakenOverIs, TakenOverNext DEF QueueInv
  <2>5. CASE pc[c] = "reverse"
    <3>1. TakenOver = Reverse(ListFrom(cur[c])) \o ListFrom(head[c])
      BY <2>5, TakenOverIs DEF QueueInv
    <3>2. TakenOver' = Reverse(ListIn(next', cur'[c])) \o ListIn(next', head'[c])
      BY <2>2, <2>5, TakenOverNext DEF QueueInv
    <3> QED
      BY <2>1, <3>1, <3>2
  <2>6. CASE pc[c] = "resume"
    BY <2>1, <2>2, <2>6, TakenOverIs, TakenOverNext DEF QueueInv
  <2> QED
    BY <1>3, <2>3, <2>4, <2>5, <2>6 DEF Holds
<1> QED
  BY <1>2, <1>3 DEF Holders

(* A coroutine that is not suspended is in no list, so that its entry can  *)
(* be pushed.                                                              *)
LEMMA PushedIsNew ==
  ASSUME QueueInv, NEW c \in Coros, pc[c] # "waiting"
  PROVE  c \notin ToSet(Stack)
BY EntriesWait

(* The first entry of the list being reversed, and what is left of it.     *)
LEMMA ReverseParts ==
  ASSUME QueueInv, NEW c \in Coros, ReverseOne(c)
  PROVE  \E r \in Seq(Coros) :
           /\ ListFrom(cur[c]) = <<cur[c]>> \o r
           /\ cur[c] \in Coros
           /\ Linked(next', cur'[c], r)
           /\ Linked(next', head'[c], <<cur[c]>> \o ListFrom(head[c]))
           /\ Linked(next', GetWaiter(state'), Stack)
<1> DEFINE x == cur[c]
           h == ListFrom(head[c])
           s == ListFrom(cur[c])
           r == Tail(s)
<1>1. /\ pc[c] = "reverse" /\ next' = [next EXCEPT ![x] = head[c]]
      /\ head'[c] = x /\ cur'[c] = next[x] /\ state' = state
  BY DEF ReverseOne, QueueInv, MutexInv, TypeOK
<1>2. x \in Coros
  BY <1>1 DEF QueueInv, MutexInv, LoopPointers
<1>3. /\ Linked(next, x, s) /\ Linked(next, head[c], h)
      /\ Linked(next, GetWaiter(state), Stack)
  BY DEF QueueInv, ListInv, ListsLinked, Proper, Stack
<1>4. /\ s = <<x>> \o r /\ r \in Seq(Coros) /\ Linked(next, next[x], r)
      /\ ToSet(s) = {x} \cup ToSet(r) /\ x \notin ToSet(r)
  <2> HIDE DEF s
  <2> QED
    BY <1>2, <1>3, PopLinked
<1>5. /\ s \in Seq(Coros) /\ h \in Seq(Coros) /\ Stack \in Seq(Coros)
  BY <1>3 DEF Linked
<1>6. TakenOver = Reverse(s) \o h /\ TakenOver \in Seq(Coros)
  BY <1>1, TakenOverIs, TakenOverType DEF QueueInv
<1>7. /\ Reverse(s) \in Seq(Coros) /\ ToSet(Reverse(s)) = ToSet(s)
  BY <1>5, ReverseFacts
<1>8. /\ IsInjective(TakenOver) /\ ToSet(TakenOver) \cap ToSet(Stack) = {}
  BY <1>5, <1>6, QueueIs DEF QueueInv, WaitersLinked
<1>9. ToSet(s) \cap ToSet(h) = {} /\ ToSet(s) \cap ToSet(Stack) = {}
  <2> HIDE DEF s, h
  <2> QED
    BY <1>5, <1>6, <1>7, <1>8, ConcatFacts
<1>10. \A e \in Coros : e # x => next'[e] = next[e]
  BY <1>1 DEF QueueInv, MutexInv, TypeOK
<1>11. next'[x] = head[c]
  BY <1>1, <1>2 DEF QueueInv, MutexInv, TypeOK
<1>12. /\ ToSet(r) \subseteq Coros /\ ToSet(h) \subseteq Coros
       /\ ToSet(Stack) \subseteq Coros
  <2> HIDE DEF r, h
  <2> QED
    BY <1>4, <1>5 DEF ToSet
<1> HIDE DEF x, h, s, r
<1>13. Linked(next', next[x], r)
  BY <1>4, <1>10, <1>12, ListFrame
<1>14. Linked(next', head[c], h)
  BY <1>3, <1>4, <1>9, <1>10, <1>12, ListFrame
<1>15. Linked(next', GetWaiter(state), Stack)
  BY <1>3, <1>4, <1>9, <1>10, <1>12, ListFrame
<1>16. Linked(next', x, <<x>> \o h)
  BY <1>2, <1>4, <1>9, <1>11, <1>14, PushLinked
<1> QED
  BY <1>1, <1>2, <1>4, <1>13, <1>15, <1>16 DEF x, h, s, r

(* The entry handed over to, and what stays behind it.                     *)
LEMMA ResumeParts ==
  ASSUME QueueInv, NEW c \in Coros, Resume(c)
  PROVE  \E r \in Seq(Coros) :
           /\ TakenOver = <<head[c]>> \o r /\ head[c] \in Coros
           /\ Linked(next', waiters', r)
           /\ Linked(next', GetWaiter(state'), Stack)
<1> DEFINE x == head[c]
           s == ListFrom(head[c])
           r == Tail(s)
<1>1. /\ pc[c] = "resume" /\ next' = [next EXCEPT ![x] = Null]
      /\ waiters' = next[x] /\ state' = state
  BY DEF Resume
<1>2. x \in Coros
  BY <1>1 DEF QueueInv, MutexInv, LoopPointers
<1>3. Linked(next, x, s) /\ Linked(next, GetWaiter(state), Stack)
  BY DEF QueueInv, ListInv, ListsLinked, Proper, Stack
<1>4. /\ s = <<x>> \o r /\ r \in Seq(Coros) /\ Linked(next, next[x], r)
      /\ ToSet(s) = {x} \cup ToSet(r) /\ x \notin ToSet(r)
  <2> HIDE DEF s
  <2> QED
    BY <1>2, <1>3, PopLinked
<1>5. TakenOver = s /\ s \in Seq(Coros) /\ Stack \in Seq(Coros)
  BY <1>1, <1>3, TakenOverIs DEF QueueInv, Linked
<1>6. ToSet(s) \cap ToSet(Stack) = {}
  BY <1>5, QueueIs DEF QueueInv, WaitersLinked
<1>7. \A e \in Coros : e # x => next'[e] = next[e]
  BY <1>1 DEF QueueInv, MutexInv, TypeOK
<1>8. ToSet(r) \subseteq Coros /\ ToSet(Stack) \subseteq Coros
  <2> HIDE DEF r
  <2> QED
    BY <1>4, <1>5 DEF ToSet
<1> HIDE DEF x, s, r
<1>9. Linked(next', next[x], r)
  BY <1>4, <1>7, <1>8, ListFrame
<1>10. Linked(next', GetWaiter(state), Stack)
  BY <1>3, <1>4, <1>6, <1>7, <1>8, ListFrame
<1> QED
  BY <1>1, <1>2, <1>4, <1>5, <1>9, <1>10 DEF x, s, r

(* The entry pushed is linked in front of the stack.                       *)
LEMMA PushParts ==
  ASSUME QueueInv, NEW c \in Coros, CasSucceeds(c), ~IsFree(expected[c])
  PROVE  /\ pc[c] = "lock" /\ c \notin ToSet(Stack) /\ state' = c
         /\ Linked(next', GetWaiter(state'), <<c>> \o Stack)
<1>1. /\ pc[c] = "lock" /\ state' = c /\ next' = next
      /\ expected[c] = state
  BY DEF CasSucceeds, Desired
<1>2. next[c] = GetWaiter(state)
  BY <1>1 DEF QueueInv, ListInv, LocalsClear
<1>3. c \notin ToSet(Stack)
  BY <1>1, PushedIsNew
<1>4. Linked(next, GetWaiter(state), Stack)
  BY DEF QueueInv, ListInv, ListsLinked, Proper, Stack
<1>5. Linked(next, c, <<c>> \o Stack)
  BY <1>2, <1>3, <1>4, PushLinked
<1> QED
  BY <1>1, <1>3, <1>5 DEF GetWaiter

(* Every step leaves the lists well linked.                                *)
LEMMA ListsStep ==
  ASSUME QueueInv, [Next]_vars, LocalsClear' PROVE ListsLinked'
<1> DEFINE Kept == \A e \in Coros : pc[e] = "waiting" => next'[e] = next[e]
           Moved == /\ waiters' \in ListPointers
                    /\ GetWaiter(state') \in ListPointers
                    /\ \A c \in Coros : /\ cur'[c] \in ListPointers
                                        /\ head'[c] \in ListPointers
<1>0. Kept /\ Moved => ListsLinked'
  BY ListsKept
<1> USE NullAssumption, WordAssumption
      DEF QueueInv, MutexInv, TypeOK, Word, Pointer, ListPointers, IsFree
<1>1. ASSUME NEW c \in Coros, Lock(c) PROVE ListsLinked'
  BY <1>0, <1>1 DEF Lock
<1>2. ASSUME NEW c \in Coros, TryLock(c) PROVE ListsLinked'
  BY <1>0, <1>2 DEF TryLock, GetWaiter
<1>3. ASSUME NEW c \in Coros, Release(c) PROVE ListsLinked'
  BY <1>0, <1>3 DEF Release
<1>4. ASSUME NEW c \in Coros, CasSucceeds(c) PROVE ListsLinked'
  <2>1. CASE IsFree(expected[c])
    BY <1>0, <1>4, <2>1 DEF CasSucceeds, Desired, GetWaiter
  <2>2. CASE ~IsFree(expected[c])
    <3>1. Linked(next', GetWaiter(state'), ListIn(next', GetWaiter(state')))
      BY <1>4, <2>2, PushParts, ListLinked
    <3>2. next' = next /\ waiters' = waiters /\ cur' = cur /\ head' = head
      BY <1>4 DEF CasSucceeds
    <3>3. /\ Proper(waiters)
          /\ \A d \in Coros : Proper(cur[d]) /\ Proper(head[d])
      BY DEF ListInv, ListsLinked
    <3> QED
      BY <3>1, <3>2, <3>3 DEF ListsLinked, Proper, ListFrom, GetWaiter
  <2> QED
    BY <2>1, <2>2
<1>5. ASSUME NEW c \in Coros, CasFails(c) PROVE ListsLinked'
  BY <1>0, <1>5 DEF CasFails
<1>6. ASSUME NEW c \in Coros, ReleaseCas(c) PROVE ListsLinked'
  BY <1>0, <1>6 DEF ReleaseCas, GetWaiter
<1>7. ASSUME NEW c \in Coros, Exchange(c) PROVE ListsLinked'
  BY <1>0, <1>7 DEF Exchange, GetWaiter
<1>8. ASSUME NEW c \in Coros, ReverseOne(c) PROVE ListsLinked'
  <2>1. /\ Linked(next', cur'[c], ListIn(next', cur'[c]))
        /\ Linked(next', head'[c], ListIn(next', head'[c]))
        /\ Linked(next', GetWaiter(state'), ListIn(next', GetWaiter(state')))
    <3>1. PICK r \in Seq(Coros) :
            /\ Linked(next', cur'[c], r)
            /\ Linked(next', head'[c], <<cur[c]>> \o ListFrom(head[c]))
            /\ Linked(next', GetWaiter(state'), Stack)
      BY <1>8, ReverseParts
    <3>2. ListIn(next', head'[c]) = <<cur[c]>> \o ListFrom(head[c])
      BY <3>1, ListLinked
    <3>3. /\ ListIn(next', cur'[c]) = r
          /\ ListIn(next', GetWaiter(state')) = Stack
      BY <3>1, ListLinked
    <3> QED
      BY <3>1, <3>2, <3>3
  <2>2. Linked(next', Null, ListIn(next', Null))
    BY NullEndsList
  <2>3. waiters' = Null
    BY <1>8 DEF ReverseOne, ListInv, OneList
  <2>4. ASSUME NEW d \in Coros, d # c PROVE cur'[d] = Null /\ head'[d] = Null
    <3>1. pc[d] \notin {"reverse", "resume"}
      BY <1>8, <2>4, HolderTaken DEF ReverseOne, Holds
    <3> QED
      BY <1>8, <2>4, <3>1 DEF ReverseOne, ListInv, LocalsClear
  <2> QED
    BY <2>1, <2>2, <2>3, <2>4 DEF ListsLinked, Proper, ListFrom, GetWaiter
<1>9. ASSUME NEW c \in Coros, Resume(c) PROVE ListsLinked'
  <2>1. /\ Linked(next', waiters', ListIn(next', waiters'))
        /\ Linked(next', GetWaiter(state'), ListIn(next', GetWaiter(state')))
    BY <1>9, ResumeParts, ListLinked
  <2>2. Linked(next', Null, ListIn(next', Null))
    BY NullEndsList
  <2>3. ASSUME NEW d \in Coros PROVE pc'[d] \notin {"reverse", "resume"}
    <3>1. d # c => pc[d] \notin {"reverse", "resume"}
      BY <1>9, HolderTaken DEF Resume, Holds
    <3> QED
      BY <1>9, <3>1 DEF Resume
  <2>4. \A d \in Coros : cur'[d] = Null /\ head'[d] = Null
    BY <2>3 DEF LocalsClear
  <2> QED
    BY <2>1, <2>2, <2>4 DEF ListsLinked, Proper, ListFrom, GetWaiter
<1>10. CASE UNCHANGED vars
  BY <1>0, <1>10 DEF vars
<1> QED
  BY <1>1, <1>2, <1>3, <1>4, <1>5, <1>6, <1>7, <1>8, <1>9, <1>10 DEF Next, Step

(* The invariant of the lists is kept.                                     *)
LEMMA ListInvStep ==
  ASSUME QueueInv, [Next]_vars PROVE MutexInv' /\ ListInv'
BY LocalsStep, OneListStep, ListsStep, TypeStep, PointersStep, ExclusionStep
   DEF QueueInv, ListInv, MutexInv

-----------------------------------------------------------------------------
(* What each step does to the queue.  Locking, releasing and reversing     *)
(* leave it alone.                                                         *)
LEMMA StackKept ==
  ASSUME QueueInv,
         \A e \in Coros : pc[e] = "waiting" => next'[e] = next[e],
         GetWaiter(state') = GetWaiter(state)
  PROVE  Stack' = Stack
<1>1. ListIn(next', GetWaiter(state)) = ListFrom(GetWaiter(state))
  BY LinksKept DEF ListPointers
<1> QED
  BY <1>1 DEF Stack, ListFrom, GetWaiter

(* The queue is made of what was taken over and of the stack.              *)
LEMMA SameQueue ==
  ASSUME TakenOver' = TakenOver, Stack' = Stack PROVE Queue' = Queue
BY DEF Queue, Stack

(* A coroutine that has not pushed itself yet leaves the queue alone.      *)
LEMMA LockQueue ==
  ASSUME QueueInv, MutexInv', ListInv', NEW c \in Coros, Lock(c) \/ CasFails(c)
  PROVE  Queue' = Queue
<1> USE DEF QueueInv, MutexInv, TypeOK
<1>1. \A e \in Coros : pc[e] = "waiting" => next'[e] = next[e]
  BY DEF Lock, CasFails
<1>2. TakenOver' = TakenOver
  <2>1. /\ \A d \in Coros : Holds(d)' <=> Holds(d)
        /\ \A d \in Coros : Holds(d) => pc'[d] = pc[d]
    BY DEF Lock, CasFails, Holds
  <2> QED
    BY <1>1, <2>1, TakenOverKept DEF Lock, CasFails
<1>3. Stack' = Stack
  BY <1>1, StackKept DEF Lock, CasFails
<1> QED
  BY <1>2, <1>3, SameQueue

(* Taking the free mutex: there is no queue before or after.               *)
LEMMA AcquireQueue ==
  ASSUME QueueInv, MutexInv', ListInv', NEW c \in Coros,
         TryLock(c) \/ (CasSucceeds(c) /\ IsFree(expected[c]))
  PROVE  Queue' = Queue /\ Holders = {}
<1> USE WordAssumption DEF QueueInv, MutexInv, TypeOK
<1>1. /\ next' = next /\ waiters' = waiters /\ IsFree(state)
      /\ state' = TakenState /\ pc'[c] = "owner"
  BY DEF TryLock, CasSucceeds, Desired, IsFree
<1>2. Holders = {} /\ waiters = Null
  BY <1>1 DEF MutualExclusion, ListInv, OneList
<1>3. TakenOver = <<>>
  BY <1>2, TakenOverIs
<1>4. TakenOver' = <<>>
  BY <1>1, <1>2, TakenOverNext, NullEndsList
<1>5. Stack' = Stack
  BY <1>1, StackKept DEF GetWaiter, IsFree
<1> QED
  BY <1>2, <1>3, <1>4, <1>5, SameQueue

(* The waiters taken over earlier are served first.                        *)
LEMMA ReleaseQueue ==
  ASSUME QueueInv, MutexInv', ListInv', NEW c \in Coros, Release(c)
  PROVE  Queue' = Queue
<1> USE DEF QueueInv, MutexInv, TypeOK
<1>1. /\ next' = next /\ state' = state /\ waiters' = waiters
      /\ head'[c] = waiters /\ pc[c] = "owner"
      /\ pc'[c] = IF waiters = Null THEN "release" ELSE "resume"
  BY DEF Release
<1>2. TakenOver = ListFrom(waiters)
  BY <1>1, TakenOverIs
<1>3. TakenOver' = TakenOver
  <2>1. CASE waiters = Null
    <3>1. TakenOver' = <<>>
      BY <1>1, <2>1, TakenOverNext
    <3>2. ListFrom(Null) = <<>>
      BY NullEndsList DEF ListFrom
    <3> QED
      BY <1>2, <2>1, <3>1, <3>2
  <2>2. CASE waiters # Null
    BY <1>1, <1>2, <2>2, TakenOverNext DEF ListFrom
  <2> QED
    BY <2>1, <2>2
<1>4. Stack' = Stack
  BY <1>1, StackKept
<1> QED
  BY <1>3, <1>4, SameQueue

(* The swap of release succeeds only with nothing pushed.                  *)
LEMMA ReleaseCasQueue ==
  ASSUME QueueInv, MutexInv', ListInv', NEW c \in Coros, ReleaseCas(c)
  PROVE  Queue' = Queue /\ (state = TakenState => Queue = <<>>)
<1> USE WordAssumption DEF QueueInv, MutexInv, TypeOK
<1>1. TakenOver = <<>>
  BY TakenOverIs DEF ReleaseCas
<1>2. TakenOver' = <<>>
  <2>1. CASE state = TakenState
    <3>1. (Holders = {})'
      BY <2>1 DEF ReleaseCas, MutualExclusion, IsFree
    <3> QED
      BY <3>1, TakenOverNext
  <2>2. CASE state # TakenState
    BY <2>2, TakenOverNext DEF ReleaseCas
  <2> QED
    BY <2>1, <2>2
<1>3. Stack' = Stack
  BY StackKept DEF ReleaseCas, GetWaiter
<1>4. ASSUME state = TakenState PROVE Queue = <<>>
  <2>1. Stack = <<>>
    BY <1>4, NullEndsList DEF Stack, ListFrom, GetWaiter
  <2> QED
    BY <1>1, <2>1 DEF Queue, Stack, Reverse
<1> QED
  BY <1>1, <1>2, <1>3, <1>4, SameQueue

(* The stack becomes the list to reverse.                                  *)
LEMMA ExchangeQueue ==
  ASSUME QueueInv, MutexInv', ListInv', NEW c \in Coros, Exchange(c)
  PROVE  Queue' = Queue
<1> USE WordAssumption DEF QueueInv, MutexInv, TypeOK
<1>1. /\ next' = next /\ state' = TakenState /\ pc[c] = "exchange"
      /\ pc'[c] = "reverse" /\ cur'[c] = GetWaiter(state) /\ head'[c] = head[c]
  BY DEF Exchange
<1>2. head'[c] = Null
  BY <1>1 DEF ListInv, LocalsClear
<1>3. TakenOver = <<>>
  BY <1>1, TakenOverIs
<1>4. TakenOver' = Reverse(Stack) \o <<>>
  BY <1>1, <1>2, TakenOverNext, NullEndsList DEF Stack, ListFrom
<1>5. Stack' = <<>>
  BY <1>1, NullEndsList DEF Stack, ListFrom, GetWaiter
<1>6. Reverse(Stack) \in Seq(Coros) /\ Reverse(<<>>) = <<>>
  BY ListTypes, ReverseFacts DEF ListInv, Reverse
<1>7. Queue = Reverse(Stack)
  BY <1>3, <1>6 DEF Queue, Stack
<1>8. Queue' = (Reverse(Stack) \o <<>>) \o Reverse(<<>>)
  BY <1>4, <1>5 DEF Queue, Stack
<1> QED
  BY <1>6, <1>7, <1>8

(* One round of the loop moves an entry from one half to the other.        *)
LEMMA ReverseQueue ==
  ASSUME QueueInv, MutexInv', ListInv', NEW c \in Coros, ReverseOne(c)
  PROVE  Queue' = Queue
<1> USE DEF QueueInv, MutexInv
<1> DEFINE x == cur[c]
           h == ListFrom(head[c])
<1>1. PICK r \in Seq(Coros) :
        /\ ListFrom(x) = <<x>> \o r /\ x \in Coros
        /\ Linked(next', cur'[c], r)
        /\ Linked(next', head'[c], <<x>> \o h)
        /\ Linked(next', GetWaiter(state'), Stack)
  BY ReverseParts
<1>2. /\ ListIn(next', cur'[c]) = r
      /\ ListIn(next', head'[c]) = <<x>> \o h
      /\ ListIn(next', GetWaiter(state')) = Stack
  <2> HIDE DEF h
  <2>1. ListIn(next', head'[c]) = <<x>> \o h
    BY <1>1, ListLinked
  <2>2. ListIn(next', cur'[c]) = r /\ ListIn(next', GetWaiter(state')) = Stack
    BY <1>1, ListLinked
  <2> QED
    BY <2>1, <2>2
<1>3. Stack' = Stack
  BY <1>2 DEF Stack, ListFrom, GetWaiter
<1>4. TakenOver = Reverse(<<x>> \o r) \o h
  <2>1. TakenOver = Reverse(ListFrom(x)) \o h
    BY TakenOverIs DEF ReverseOne
  <2> QED
    BY <2>1, <1>1
<1>5. TakenOver' = Reverse(r) \o (<<x>> \o h)
  <2>1. /\ pc[c] = "reverse" /\ cur'[c] = next[x]
        /\ pc'[c] = IF cur'[c] = Null THEN "resume" ELSE "reverse"
    BY DEF ReverseOne, TypeOK
  <2>2. CASE cur'[c] = Null
    <3>1. r = <<>>
      BY <2>2, <1>2, NullEndsList
    <3>2. TakenOver' = <<x>> \o h
      BY <2>1, <2>2, <1>2, TakenOverNext
    <3>3. <<x>> \o h \in Seq(Coros) /\ Reverse(<<>>) = <<>>
      BY <1>1 DEF Linked, Reverse
    <3>4. <<>> \o (<<x>> \o h) = <<x>> \o h
      BY <3>3, EmptyFacts
    <3> QED
      BY <3>1, <3>2, <3>3, <3>4
  <2>3. CASE cur'[c] # Null
    <3>1. TakenOver' = Reverse(ListIn(next', cur'[c])) \o ListIn(next', head'[c])
      BY <2>1, <2>3, TakenOverNext
    <3> QED
      BY <3>1, <1>2
  <2> QED
    BY <2>2, <2>3
<1>6. h \in Seq(Coros) /\ Reverse(r) \in Seq(Coros)
  BY <1>1, ListTypes, ReverseFacts DEF ListInv
<1>7. Reverse(<<x>> \o r) = Append(Reverse(r), x)
  BY <1>1, ReverseCons
<1>8. Append(Reverse(r), x) \o h = Reverse(r) \o (<<x>> \o h)
  <2> HIDE DEF h, x
  <2> QED
    BY <1>1, <1>6
<1> QED
  BY <1>3, <1>4, <1>5, <1>7, <1>8, SameQueue

(* A push joins the queue at its end.                                      *)
LEMMA PushQueue ==
  ASSUME QueueInv, MutexInv', ListInv', NEW c \in Coros,
         CasSucceeds(c), ~IsFree(expected[c])
  PROVE  /\ Queue' = Append(Queue, c) /\ c \notin ToSet(Queue)
         /\ Queue \in Seq(Coros) /\ Holders # {} /\ ~Holds(c)
         /\ \A d \in Coros : Holds(d)' <=> Holds(d)
<1> USE DEF QueueInv, MutexInv
<1>1. /\ pc[c] = "lock" /\ next' = next /\ pc' = [pc EXCEPT ![c] = "waiting"]
      /\ state = expected[c] /\ UNCHANGED <<waiters, head, cur>>
  BY DEF CasSucceeds
<1>2. /\ \A d \in Coros : Holds(d)' <=> Holds(d)
      /\ \A d \in Coros : Holds(d) => pc'[d] = pc[d]
  BY <1>1 DEF Holds, TypeOK
<1>3. TakenOver' = TakenOver
  BY <1>1, <1>2, TakenOverKept
<1>4. Stack' = <<c>> \o Stack
  <2>1. ListIn(next', GetWaiter(state')) = <<c>> \o Stack
    <3>1. Linked(next', GetWaiter(state'), <<c>> \o Stack)
      BY PushParts
    <3> QED
      BY <3>1, ListLinked
  <2> QED
    BY <2>1 DEF Stack, ListFrom, GetWaiter
<1>5. /\ TakenOver \in Seq(Coros) /\ Stack \in Seq(Coros)
      /\ Reverse(Stack) \in Seq(Coros)
  BY TakenOverType, ListTypes, ReverseFacts DEF ListInv
<1>6. Reverse(<<c>> \o Stack) = Append(Reverse(Stack), c)
  BY <1>5, ReverseCons
<1>7. Queue' = TakenOver \o Append(Reverse(Stack), c)
  BY <1>3, <1>4, <1>6 DEF Queue, Stack
<1>8. TakenOver \o Append(Reverse(Stack), c)
        = Append(TakenOver \o Reverse(Stack), c)
  BY <1>5
<1>9. Queue = TakenOver \o Reverse(Stack)
  BY DEF Queue, Stack
<1>10. c \notin ToSet(Queue) /\ Queue \in Seq(Coros)
  BY <1>1, <1>5, QueueIs DEF WaitersLinked
<1>11. Holders # {} /\ ~Holds(c)
  BY <1>1 DEF MutualExclusion, Holds
<1> QED
  BY <1>2, <1>7, <1>8, <1>9, <1>10, <1>11

(* The hand-over takes the first of the queue off.                         *)
LEMMA ResumeQueue ==
  ASSUME QueueInv, MutexInv', ListInv', NEW c \in Coros, Resume(c)
  PROVE  /\ Queue' \in Seq(Coros) /\ head[c] \in Coros
         /\ Queue = <<head[c]>> \o Queue'
<1> USE DEF QueueInv, MutexInv
<1> DEFINE x == head[c]
<1>1. PICK r \in Seq(Coros) :
        /\ TakenOver = <<x>> \o r /\ x \in Coros
        /\ Linked(next', waiters', r)
        /\ Linked(next', GetWaiter(state'), Stack)
  BY ResumeParts
<1>2. /\ ListIn(next', waiters') = r
      /\ ListIn(next', GetWaiter(state')) = Stack
  BY <1>1, ListLinked
<1>3. Stack' = Stack
  BY <1>2 DEF Stack, ListFrom, GetWaiter
<1>4. pc'[x] = "owner"
  BY <1>1 DEF Resume, TypeOK
<1>5. TakenOver' = r
  BY <1>1, <1>2, <1>4, TakenOverNext
<1>6. Reverse(Stack) \in Seq(Coros)
  BY ListTypes, ReverseFacts DEF ListInv
<1>7. Queue' = r \o Reverse(Stack) /\ Queue = (<<x>> \o r) \o Reverse(Stack)
  BY <1>1, <1>3, <1>5 DEF Queue, Stack
<1> HIDE DEF x
<1>8. r \o Reverse(Stack) \in Seq(Coros)
  BY <1>1, <1>6
<1>9. (<<x>> \o r) \o Reverse(Stack) = <<x>> \o (r \o Reverse(Stack))
  BY <1>1, <1>6
<1> QED
  BY <1>1, <1>7, <1>8, <1>9 DEF x

(* So does a step that changes nothing.                                    *)
LEMMA StutterQueue ==
  ASSUME UNCHANGED vars PROVE Queue' = Queue
BY DEF vars, Queue, TakenOver, ListFrom, GetWaiter, Holders, Holds

(* The queue stays the suspended coroutines, each once.                    *)
LEMMA WaitersStep == ASSUME QueueInv, [Next]_vars PROVE WaitersLinked'
<1> DEFINE Waiting == {c \in Coros : pc[c] = "waiting"}
<1>0. MutexInv' /\ ListInv'
  BY ListInvStep
<1>a. ASSUME Queue' = Queue, Waiting' = Waiting PROVE WaitersLinked'
  BY <1>a DEF QueueInv, WaitersLinked
<1> USE DEF QueueInv, MutexInv, TypeOK
<1>1. ASSUME NEW c \in Coros, Lock(c) \/ CasFails(c) PROVE WaitersLinked'
  BY <1>0, <1>1, <1>a, LockQueue DEF Lock, CasFails
<1>2. ASSUME NEW c \in Coros, TryLock(c) PROVE WaitersLinked'
  BY <1>0, <1>2, <1>a, AcquireQueue DEF TryLock
<1>3. ASSUME NEW c \in Coros, Release(c) PROVE WaitersLinked'
  BY <1>0, <1>3, <1>a, ReleaseQueue DEF Release
<1>4. ASSUME NEW c \in Coros, CasSucceeds(c) PROVE WaitersLinked'
  <2>1. CASE IsFree(expected[c])
    BY <1>0, <1>4, <2>1, <1>a, AcquireQueue DEF CasSucceeds
  <2>2. CASE ~IsFree(expected[c])
    <3>1. /\ Queue' = Append(Queue, c) /\ c \notin ToSet(Queue)
          /\ Queue \in Seq(Coros)
      BY <1>0, <1>4, <2>2, PushQueue
    <3>2. Waiting' = Waiting \cup {c}
      BY <1>4, <2>2 DEF CasSucceeds
    <3>3. /\ ToSet(Queue') = ToSet(Queue) \cup {c}
          /\ IsInjective(Queue) => IsInjective(Queue')
      BY <3>1, AppendFacts
    <3> QED
      BY <3>2, <3>3 DEF WaitersLinked
  <2> QED
    BY <2>1, <2>2
<1>6. ASSUME NEW c \in Coros, ReleaseCas(c) PROVE WaitersLinked'
  BY <1>0, <1>6, <1>a, ReleaseCasQueue DEF ReleaseCas
<1>7. ASSUME NEW c \in Coros, Exchange(c) PROVE WaitersLinked'
  BY <1>0, <1>7, <1>a, ExchangeQueue DEF Exchange
<1>8. ASSUME NEW c \in Coros, ReverseOne(c) PROVE WaitersLinked'
  BY <1>0, <1>8, <1>a, ReverseQueue DEF ReverseOne
<1>9. ASSUME NEW c \in Coros, Resume(c) PROVE WaitersLinked'
  <2>1. /\ Queue' \in Seq(Coros) /\ head[c] \in Coros
        /\ Queue = <<head[c]>> \o Queue'
    BY <1>0, <1>9, ResumeQueue
  <2>2. <<head[c]>> \in Seq(Coros) /\ ToSet(<<head[c]>>) = {head[c]}
    BY <2>1 DEF ToSet
  <2>3. /\ ToSet(Queue) = {head[c]} \cup ToSet(Queue')
        /\ IsInjective(Queue) =>
             IsInjective(Queue') /\ head[c] \notin ToSet(Queue')
    BY <2>1, <2>2, ConcatFacts
  <2>4. Waiting' = Waiting \ {head[c]}
    BY <1>9, <2>1 DEF Resume
  <2> QED
    BY <2>3, <2>4 DEF WaitersLinked
<1>10. CASE UNCHANGED vars
  BY <1>10, <1>a, StutterQueue DEF vars
<1> QED
  BY <1>1, <1>2, <1>3, <1>4, <1>6, <1>7, <1>8, <1>9, <1>10 DEF Next, Step

(* Nobody waits at first.                                                  *)
LEMMA InitQueue == Init => ListInv /\ WaitersLinked /\ Queue = <<>>
<1> SUFFICES ASSUME Init PROVE ListInv /\ WaitersLinked /\ Queue = <<>>
  OBVIOUS
<1>1. LocalsClear /\ OneList
  BY DEF Init, LocalsClear, OneList, IsFree
<1>2. Linked(next, Null, <<>>) /\ ListFrom(Null) = <<>>
  BY NullEndsList DEF ListFrom
<1>3. GetWaiter(state) = Null
  BY WordAssumption DEF Init, GetWaiter
<1>4. ListsLinked
  BY <1>2, <1>3 DEF ListsLinked, Proper, Init
<1>5. Holders = {}
  BY DEF Init, Holders, Holds
<1>6. Queue = <<>>
  BY <1>2, <1>3, <1>5 DEF Queue, TakenOver, Init, Reverse
<1>7. WaitersLinked
  BY <1>6 DEF WaitersLinked, Init, ToSet, IsInjective
<1> QED
  BY <1>1, <1>4, <1>6, <1>7 DEF ListInv

(* The lists and the mutex together are an inductive invariant.            *)
LEMMA QueueInvariant == Spec => []QueueInv
<1>1. Init => QueueInv
  BY InitInv, InitQueue DEF QueueInv
<1>2. QueueInv /\ [Next]_vars => QueueInv'
  BY ListInvStep, WaitersStep DEF QueueInv
<1> QED
  BY <1>1, <1>2, PTL DEF Spec

(* Every suspended coroutine is linked exactly once and nothing else is,   *)
(* whatever pushes race with a release (mutex.cpp:8-20, 52-64).            *)
THEOREM MutexWaiters == Spec => []WaitersLinked
BY QueueInvariant, PTL DEF QueueInv

-----------------------------------------------------------------------------
(* The holder of FairLock is the coroutine between lock and unlock.        *)
AbstractHolder ==
  IF Holders = {} THEN Null ELSE CHOOSE h \in Coros : Holds(h)

(* The holder of the abstract lock is the coroutine that holds the mutex.  *)
LEMMA AbstractHolderIs ==
  MutexInv => /\ Holders = {} => AbstractHolder = Null
              /\ \A c \in Coros : Holds(c) => AbstractHolder = c
BY HolderTaken DEF AbstractHolder, Holders

(* ... also after a step.                                                  *)
LEMMA AbstractHolderNext ==
  MutexInv' => /\ (Holders = {})' => AbstractHolder' = Null
               /\ \A c \in Coros : Holds(c)' => AbstractHolder' = c
<1> DEFINE P == /\ Holders = {} => AbstractHolder = Null
                /\ \A c \in Coros : Holds(c) => AbstractHolder = c
<1>1. MutexInv => P
  BY AbstractHolderIs
<1>2. MutexInv' => P'
  BY <1>1, PTL
<1> QED
  BY <1>2

(* A step that changes neither the holder nor the queue is a stutter.      *)
LEMMA HolderKept ==
  ASSUME MutexInv, MutexInv', \A c \in Coros : Holds(c)' <=> Holds(c)
  PROVE  AbstractHolder' = AbstractHolder
<1>1. CASE Holders = {}
  BY <1>1, AbstractHolderIs, AbstractHolderNext DEF Holders
<1>2. ASSUME NEW c \in Coros, Holds(c) PROVE AbstractHolder' = AbstractHolder
  BY <1>2, AbstractHolderIs, AbstractHolderNext
<1> QED
  BY <1>1, <1>2 DEF Holders

(* Every step of the lock-free code is a step of FairLock or a stutter.    *)
LEMMA FairLockStep ==
  ASSUME QueueInv, [Next]_vars
  PROVE  [Abstract!Next]_(Abstract!vars)
<1>0. MutexInv' /\ ListInv'
  BY ListInvStep
<1>a. ASSUME AbstractHolder' = AbstractHolder, Queue' = Queue
      PROVE  [Abstract!Next]_(Abstract!vars)
  BY <1>a DEF Abstract!vars, AbstractHolder
<1>b. ASSUME NEW c \in Coros, Holders = {}, Holds(c)', Queue' = Queue
      PROVE  Abstract!Next
  <2>1. AbstractHolder = Null /\ AbstractHolder' = c
    BY <1>0, <1>b, AbstractHolderIs, AbstractHolderNext DEF QueueInv
  <2>2. Abstract!Acquire(c)
    BY <1>b, <2>1 DEF Abstract!Acquire, AbstractHolder
  <2> QED
    BY <2>2 DEF Abstract!Next
<1> USE DEF QueueInv, MutexInv, TypeOK
<1>1. ASSUME NEW c \in Coros, Lock(c) \/ CasFails(c)
      PROVE  [Abstract!Next]_(Abstract!vars)
  <2>1. \A d \in Coros : Holds(d)' <=> Holds(d)
    BY <1>1 DEF Lock, CasFails, Holds
  <2> QED
    BY <1>0, <1>1, <2>1, <1>a, LockQueue, HolderKept
<1>2. ASSUME NEW c \in Coros, TryLock(c) PROVE Abstract!Next
  BY <1>0, <1>2, <1>b, AcquireQueue DEF TryLock, Holds
<1>3. ASSUME NEW c \in Coros, Release(c)
      PROVE  [Abstract!Next]_(Abstract!vars)
  <2>1. \A d \in Coros : Holds(d)' <=> Holds(d)
    BY <1>3 DEF Release, Holds
  <2> QED
    BY <1>0, <1>3, <2>1, <1>a, ReleaseQueue, HolderKept
<1>4. ASSUME NEW c \in Coros, CasSucceeds(c) PROVE Abstract!Next
  <2>1. CASE IsFree(expected[c])
    BY <1>0, <1>4, <2>1, <1>b, AcquireQueue DEF CasSucceeds, Holds
  <2>2. CASE ~IsFree(expected[c])
    <3>1. /\ Queue' = Append(Queue, c) /\ c \notin ToSet(Queue)
          /\ Holders # {} /\ ~Holds(c)
          /\ \A d \in Coros : Holds(d)' <=> Holds(d)
      BY <1>0, <1>4, <2>2, PushQueue
    <3>2. AbstractHolder' = AbstractHolder
      BY <1>0, <3>1, HolderKept
    <3>3. AbstractHolder \notin {Null, c}
      <4>1. PICK d \in Coros : Holds(d)
        BY <3>1 DEF Holders
      <4> QED
        BY <3>1, <4>1, AbstractHolderIs, NullAssumption
    <3>4. ~ \E k \in DOMAIN Queue : Queue[k] = c
      BY <3>1 DEF ToSet
    <3>5. Abstract!Enqueue(c)
      BY <3>1, <3>2, <3>3, <3>4
         DEF Abstract!Enqueue, Abstract!Waiting, AbstractHolder
    <3> QED
      BY <3>5 DEF Abstract!Next
  <2> QED
    BY <2>1, <2>2
<1>6. ASSUME NEW c \in Coros, ReleaseCas(c)
      PROVE  [Abstract!Next]_(Abstract!vars)
  <2>1. Queue' = Queue /\ (state = TakenState => Queue = <<>>)
    BY <1>0, <1>6, ReleaseCasQueue
  <2>2. CASE state = TakenState
    <3>1. Holds(c) /\ (Holders = {})'
      BY <1>0, <1>6, <2>2 DEF ReleaseCas, Holds, MutualExclusion, IsFree
    <3>2. AbstractHolder = c /\ AbstractHolder' = Null
      BY <1>0, <3>1, AbstractHolderIs, AbstractHolderNext
    <3>3. Abstract!Free(c)
      BY <2>1, <2>2, <3>2 DEF Abstract!Free, AbstractHolder
    <3> QED
      BY <3>3 DEF Abstract!Next
  <2>3. CASE state # TakenState
    <3>1. \A d \in Coros : Holds(d)' <=> Holds(d)
      BY <1>6, <2>3 DEF ReleaseCas, Holds
    <3> QED
      BY <1>0, <2>1, <3>1, <1>a, HolderKept
  <2> QED
    BY <2>2, <2>3
<1>7. ASSUME NEW c \in Coros, Exchange(c)
      PROVE  [Abstract!Next]_(Abstract!vars)
  <2>1. \A d \in Coros : Holds(d)' <=> Holds(d)
    BY <1>7 DEF Exchange, Holds
  <2> QED
    BY <1>0, <1>7, <2>1, <1>a, ExchangeQueue, HolderKept
<1>8. ASSUME NEW c \in Coros, ReverseOne(c)
      PROVE  [Abstract!Next]_(Abstract!vars)
  <2>1. \A d \in Coros : Holds(d)' <=> Holds(d)
    BY <1>8 DEF ReverseOne, Holds
  <2> QED
    BY <1>0, <1>8, <2>1, <1>a, ReverseQueue, HolderKept
<1>9. ASSUME NEW c \in Coros, Resume(c) PROVE Abstract!Next
  <2>1. /\ Queue' \in Seq(Coros) /\ head[c] \in Coros
        /\ Queue = <<head[c]>> \o Queue'
    BY <1>0, <1>9, ResumeQueue
  <2>2. PICK d \in Coros : d = head[c]
    BY <2>1
  <2>3. AbstractHolder = c /\ AbstractHolder' = d
    <3>1. Holds(c) /\ Holds(d)'
      BY <1>9, <2>2 DEF Resume, Holds
    <3> QED
      BY <1>0, <3>1, AbstractHolderIs, AbstractHolderNext
  <2>4. Queue # <<>> /\ Head(Queue) = head[c] /\ Tail(Queue) = Queue'
    BY <2>1
  <2>5. Abstract!HandOver(c)
    BY <2>2, <2>3, <2>4 DEF Abstract!HandOver, AbstractHolder
  <2> QED
    BY <2>5 DEF Abstract!Next
<1>10. CASE UNCHANGED vars
  <2>1. \A d \in Coros : Holds(d)' <=> Holds(d)
    BY <1>10 DEF vars, Holds
  <2> QED
    BY <1>0, <1>10, <2>1, <1>a, StutterQueue, HolderKept
<1> QED
  BY <1>1, <1>2, <1>3, <1>4, <1>6, <1>7, <1>8, <1>9, <1>10 DEF Next, Step

(* For any set of coroutines, the lock-free code hands the mutex over in   *)
(* the order in which the coroutines were suspended (mutex.cpp:55-64).     *)
THEOREM MutexIsFairLock == Spec => ImplementsFairLock
<1>1. Init => Abstract!Init
  <2> SUFFICES ASSUME Init PROVE Abstract!Init
    OBVIOUS
  <2>1. Holders = {} /\ Queue = <<>>
    BY InitQueue DEF Init, Holders, Holds
  <2> QED
    BY <2>1 DEF Abstract!Init
<1>2. QueueInv /\ [Next]_vars => [Abstract!Next]_(Abstract!vars)
  BY FairLockStep
<1> QED
  BY <1>1, <1>2, QueueInvariant, PTL DEF Spec, ImplementsFairLock, Abstract!Spec
=============================================================================
