--------------------------- MODULE PromiseProofs ----------------------------
(***************************************************************************)
(* That the tree of chains of module Forque keeps the promise of           *)
(* RelatedQueue, up to the first destruction of a chain in use, and what   *)
(* that promise is worth.  ForqueProofs has the inductive invariant Inv.   *)
(* Here what a step does to the tree and to the run queue is told in full  *)
(* (PopsFrom, GoesDown, GoesUp, Removes), and then what follows from it:   *)
(*   Whole    what Intact says, by the relations.  A step of one coroutine *)
(*            is Gentle: it destroys no more than it is told to            *)
(*   Watched  a chain left empty has somebody to remove it, or on the way  *)
(*            into it                                                      *)
(*   Upheld   what has segments is alive, up to the first destruction of   *)
(*            a chain in use                                               *)
(*   Silent   the run queue is stopped when interrupted with nothing left, *)
(*            not earlier                                                  *)
(* Then that a forque is a RelatedQueue, and what lets no item be          *)
(* forgotten:                                                              *)
(*   Called   the first item of an active segment has been offered, once   *)
(*            it is populated                                              *)
(*   Reached  under an active segment without items the children are       *)
(*            active, or somebody has them left to activate (Todo)         *)
(*   Lined    of two related items one waits for the other                 *)
(* Then that the run queue is used as an OfferQueue, and last what every   *)
(* RelatedQueue gives its clients.                                         *)
(***************************************************************************)
EXTENDS ForqueProofs

(* nothing is in the root, nor below it *)
Vacant(t) == /\ \A k, m, x : ~At(t, Root, k, m, x)
             /\ \A k, d : ~Kid(t, Root, k, d)

(* A root without items and children in its front segment is vacant. *)
LEMMA VacantFacts ==
  ASSUME NEW t, IsTree(t)
  PROVE  /\ Vacant(t) <=> Sib(t, Root, 1) = <<>> /\ Chi(t, Root, 1) = {}
         /\ Head(t[Root].segments) = t[Root].segments[1]
<1>1. Rooted(t) /\ Forked(t) /\ Headed(t) /\ Root \in DOMAIN t
  BY RootedFacts DEF IsTree
<1>2. /\ Count(t, Root) \in Nat /\ Count(t, Root) > 0 /\ 1 \in 1..Count(t, Root)
      /\ t[Root].segments \in Seq(SegmentType) /\ t[Root].segments # <<>>
      /\ Sib(t, Root, 1) \in Seq(Items)
  <2>1. Count(t, Root) \in Nat /\ Count(t, Root) > 0
    BY <1>1, RootedFacts DEF Headed
  <2>2. 1 \in 1..Count(t, Root)
    BY <2>1
  <2> QED
    BY <1>1, <2>1, <2>2, RootedFacts
<1>3. ASSUME Vacant(t) PROVE Sib(t, Root, 1) = <<>> /\ Chi(t, Root, 1) = {}
  <2>1. Sib(t, Root, 1) = <<>>
    <3> SUFFICES ASSUME Sib(t, Root, 1) # <<>> PROVE FALSE
      OBVIOUS
    <3>1. 1 \in 1..Len(Sib(t, Root, 1))
      BY <1>2
    <3>2. At(t, Root, 1, 1, Sib(t, Root, 1)[1])
      BY <1>1, <1>2, <3>1 DEF At
    <3> QED
      BY <1>3, <3>2 DEF Vacant
  <2>2. \A d : d \notin Chi(t, Root, 1)
    BY <1>1, <1>2, <1>3 DEF Vacant, Kid
  <2> QED
    BY <2>1, <2>2
<1>4. ASSUME Sib(t, Root, 1) = <<>>, Chi(t, Root, 1) = {} PROVE Vacant(t)
  <2>1. \A m, x : ~At(t, Root, 1, m, x)
    <3>1. 1..Len(Sib(t, Root, 1)) = {}
      BY <1>4
    <3> QED
      BY <3>1 DEF At
  <2>2. \A d : ~Kid(t, Root, 1, d)
    BY <1>4 DEF Kid
  <2>3. ~(1 < Count(t, Root))
    <3>1. \A k \in Nat : 1 <= k /\ k <= Count(t, Root) /\ k < Count(t, Root) =>
            \E d : Kid(t, Root, k, d)
      BY <1>1 DEF Forked
    <3> QED
      BY <1>2, <2>2, <3>1
  <2>4. \A k \in 1..Count(t, Root) : k = 1
    BY <1>2, <2>3
  <2> QED
    BY <2>1, <2>2, <2>4 DEF Vacant, At, Kid
<1> QED
  BY <1>2, <1>3, <1>4

(* where the step of a consumer's coroutine leaves it *)
Ends(c)      == frames'[c] = <<>> /\ call'[c] = NoCall /\ pc'[c] = "finalized"
Wakes(c, fs) == frames'[c] = fs /\ call'[c] = NoCall /\ pc'[c] = "activate"
Cleans(c, p) ==
  /\ frames'[c] = <<>> /\ pc'[c] = "remove"
  /\ call'[c] = [on |-> Par(chain', p), tag |-> chain'[p].tag,
                 version |-> Ver(chain', p, 1), child |-> p]

(* The coroutine is done. *)
LEMMA EndsFacts ==
  ASSUME Inv, NEW c \in Coros, Finish(c)
  PROVE  Others(c) /\ Ends(c)
BY FinishFacts DEF Ends

(* The coroutine goes on with the frames fs. *)
LEMMA WakesFacts ==
  ASSUME Inv, NEW c \in Coros, NEW fs \in Seq(FrameType),
         \/ /\ frames' = [frames EXCEPT ![c] = fs]
            /\ call' = [call EXCEPT ![c] = NoCall]
            /\ pc' = [pc EXCEPT ![c] = "activate"]
         \/ /\ frames' = [frames EXCEPT ![c] = fs]
            /\ call[c] = NoCall /\ pc[c] = "activate" /\ UNCHANGED <<call, pc>>
  PROVE  Others(c) /\ Wakes(c, fs)
<1>1. /\ frames' \in [Coros -> Seq(FrameType)] /\ frames'[c] = fs
      /\ \A d \in Coros : d # c => frames'[d] = frames[d]
  BY FramesPut
<1>2. CASE /\ call' = [call EXCEPT ![c] = NoCall]
           /\ pc' = [pc EXCEPT ![c] = "activate"]
  <2>1. /\ DOMAIN pc' = Coros /\ pc'[c] = "activate"
        /\ \A d \in Coros : d # c => pc'[d] = pc[d]
    BY <1>2, PcPut
  <2>2. /\ call' \in [Coros -> CallType] /\ call'[c] = NoCall
        /\ \A d \in Coros : d # c => call'[d] = call[d]
    BY <1>2, NoCallType, CallPut
  <2> QED
    BY <1>1, <2>1, <2>2 DEF Others, Wakes
<1>3. CASE call[c] = NoCall /\ pc[c] = "activate" /\ UNCHANGED <<call, pc>>
  <2>1. call' \in [Coros -> CallType] /\ \A e \in Coros : call'[e] = call[e]
    BY <1>3, CallKept
  <2>2. DOMAIN pc' = Coros /\ pc' = pc
    BY <1>3 DEF Inv, Types
  <2> QED
    BY <1>1, <1>3, <2>1, <2>2 DEF Others, Wakes
<1> QED
  BY <1>2, <1>3

(* The coroutine goes on to remove its chain from the parent. *)
LEMMA CleansFacts ==
  ASSUME Inv, NEW c \in Coros, NEW p, NEW tree, CleanParent(c, p, tree),
         Rooted(tree), p \in DOMAIN tree, p # Root, Count(tree, p) > 0
  PROVE  /\ chain' = tree /\ UNCHANGED <<ready, stopped>>
         /\ Others(c) /\ Cleans(c, p)
<1> DEFINE ca == [on |-> tree[p].parent, tag |-> tree[p].tag,
                  version |-> Head(tree[p].segments).version, child |-> p]
<1>1. /\ chain' = tree /\ call' = [call EXCEPT ![c] = ca]
      /\ frames' = [frames EXCEPT ![c] = <<>>]
      /\ pc' = [pc EXCEPT ![c] = "remove"]
      /\ UNCHANGED <<ready, stopped>>
  BY DEF CleanParent, PutNothing
<1>2. /\ Par(tree, p) \in Nat /\ Par(tree, p) = tree[p].parent
      /\ p \in Nat /\ tree[p].tag \in Seq(Keys)
      /\ tree[p].segments \in Seq(SegmentType) /\ tree[p].segments # <<>>
      /\ Ver(tree, p, 1) \in Nat
  BY RootedFacts
<1>3. Head(tree[p].segments).version = Ver(tree, p, 1)
  BY <1>2 DEF Ver
<1>4. ca = [on |-> Par(tree, p), tag |-> tree[p].tag, version |-> Ver(tree, p, 1), child |-> p]
  BY <1>2, <1>3
<1>5. ca \in CallType
  BY <1>2, <1>4 DEF CallType
<1> HIDE DEF ca
<1>6. <<>> \in Seq(FrameType)
  OBVIOUS
<1>7. /\ frames' \in [Coros -> Seq(FrameType)] /\ frames'[c] = <<>>
      /\ \A d \in Coros : d # c => frames'[d] = frames[d]
  BY <1>1, <1>6, FramesPut
<1>8. /\ DOMAIN pc' = Coros /\ pc'[c] = "remove"
      /\ \A d \in Coros : d # c => pc'[d] = pc[d]
  BY <1>1, PcPut
<1>9. /\ call' \in [Coros -> CallType] /\ call'[c] = ca
      /\ \A d \in Coros : d # c => call'[d] = call[d]
  BY <1>1, <1>5, CallPut
<1>10. Cleans(c, p)
  BY <1>1, <1>4, <1>7, <1>8, <1>9 DEF Cleans
<1> QED
  BY <1>1, <1>7, <1>8, <1>9, <1>10 DEF Others

-----------------------------------------------------------------------------
(* What the pop of the item i, the first in p, comes to: the next item, or  *)
(* the children, or nothing, is left of the segment.                        *)
PopsFrom(i, p) ==
  /\ pc[Consumer(i)] = "finalize" /\ Sound(Consumer(i)) /\ At(chain, p, 1, 1, i)
  /\ p \in Chains /\ Alive(chain, p) /\ On(chain, p, 1) /\ OnlyBy(Consumer(i), p)
  /\ Popped(chain, chain', p) /\ Others(Consumer(i))
  /\ UNCHANGED <<tag, before, filled, interrupted>>
  /\ \/ /\ \E j : At(chain', p, 1, 1, j) /\ Put({j} \cap filled)
        /\ Ends(Consumer(i)) /\ UNCHANGED stopped
     \/ /\ Bare(chain', p) /\ \E d : Kid(chain', p, 1, d)
        /\ Wakes(Consumer(i), <<Frame(p, Chi(chain', p, 1))>>)
        /\ UNCHANGED <<ready, stopped>>
     \/ /\ Bare(chain', p) /\ Count(chain', p) = 1 /\ \A d : ~Kid(chain', p, 1, d)
        /\ p # Root /\ Cleans(Consumer(i), p)
        /\ UNCHANGED <<ready, stopped>>
     \/ /\ p = Root /\ Vacant(chain')
        /\ stopped' = (stopped \/ interrupted)
        /\ Ends(Consumer(i)) /\ UNCHANGED ready

(* The pop of the item (forque.hpp:347). *)
LEMMA PopItemFate ==
  ASSUME Inv, NEW i \in Items, PopItem(i)
  PROVE  \E p : PopsFrom(i, p)
<1> DEFINE c == Consumer(i)
           p == Owner(i)
           tree == [chain EXCEPT ![p].segments[1].siblings = Tail(@)]
<1>1. /\ pc[c] = "finalize" /\ Sound(c) /\ pc[c] # "get"
  <2>1. pc[c] = "finalize" /\ Sound(c)
    BY Zenon DEF PopItem
  <2> QED
    BY <2>1
<1>2. /\ At(chain, p, 1, 1, i) /\ SegmentOf(i) = 1 /\ p \in Chains
      /\ Alive(chain, p) /\ On(chain, p, 1)
  <2>1. Sound(Consumer(i)) /\ pc[Consumer(i)] \in {"retained", "finalize"}
    BY <1>1
  <2> QED
    BY <2>1, TakenFacts, Zenon
<1>3. /\ UNCHANGED <<tag, before, filled, interrupted>>
      /\ Free(p)
      /\ \/ /\ tree[p].segments[1].siblings # <<>>
            /\ chain' = tree
            /\ ActivateSibling(c, <<>>, Head(tree[p].segments[1].siblings))
            /\ UNCHANGED stopped
         \/ /\ tree[p].segments[1].siblings = <<>> /\ tree[p].segments[1].children # {}
            /\ chain' = tree
            /\ ActivateChildren(c, <<>>, p, tree[p].segments[1].children)
            /\ UNCHANGED stopped
         \/ /\ tree[p].segments[1].siblings = <<>> /\ tree[p].segments[1].children = {}
            /\ NextSegment(c, p, 1, tree)
  BY <1>2, Zenon DEF PopItem
<1>4. Rooted(chain) /\ IsTree(chain) /\ p \in DOMAIN chain /\ Forked(chain)
  BY <1>2 DEF Inv, IsTree, Chains
<1>5. Popped(chain, tree, p)
  <2>1. Count(chain, p) > 0
    BY <1>2, <1>4, AliveFacts, RootedFacts
  <2>2. Sib(chain, p, 1) # <<>>
    BY <1>2 DEF At
  <2> QED
    BY <1>4, <2>1, <2>2, PoppedFacts
<1> HIDE DEF p, tree
<1>6. /\ IsTree(tree) /\ Eased(chain, tree, p, Meta) /\ Slid(chain, tree) /\ \A x : Stays(chain, tree, x)
      /\ \A q, k, m : ~At(tree, q, k, m, i)
      /\ p \in DOMAIN tree /\ Count(tree, p) = Count(chain, p) /\ Count(tree, p) > 0 /\ On(tree, p, 1)
      /\ \A j : At(tree, p, 1, 1, j) => ~Ever(j)
      /\ Bare(tree, p) => Awakening(tree, Frame(p, Chi(tree, p, 1)))
  BY <1>1, <1>2, <1>5, PopFacts
<1>7. /\ Rooted(tree) /\ 1 \in 1..Count(tree, p) /\ Count(tree, p) \in Nat
      /\ Sib(tree, p, 1) \in Seq(Items) /\ Chi(tree, p, 1) \in SUBSET Nat /\ p \in Nat
  <2>1. Rooted(tree) /\ p \in DOMAIN tree
    BY <1>6 DEF IsTree
  <2>2. Count(tree, p) \in Nat /\ p \in Nat
    BY <2>1, RootedFacts
  <2>3. 1 \in 1..Count(tree, p)
    BY <1>6, <2>2
  <2> QED
    BY <2>1, <2>2, <2>3, RootedFacts
<1>8. OnlyBy(c, p)
  BY <1>3, FreeFacts DEF OnlyBy
<1>9. tree[p].segments[1].siblings = Sib(tree, p, 1) /\ tree[p].segments[1].children = Chi(tree, p, 1)
  BY DEF Sib, Chi
<1>10. c \in Coros /\ Headed(tree) /\ Forked(tree) /\ (Bare(tree, p) <=> Sib(tree, p, 1) = <<>>)
  <2>1. CASE Sib(tree, p, 1) = <<>>
    <3>1. 1..Len(Sib(tree, p, 1)) = {}
      BY <2>1
    <3> QED
      BY <1>6, <2>1, <3>1, CoroFacts DEF Bare, At, IsTree
  <2>2. CASE Sib(tree, p, 1) # <<>>
    <3>1. 1 \in 1..Len(Sib(tree, p, 1))
      BY <1>7, <2>2
    <3>2. At(tree, p, 1, 1, Sib(tree, p, 1)[1])
      BY <1>6, <1>7, <3>1 DEF At
    <3> QED
      BY <1>6, <2>2, <3>2, CoroFacts DEF Bare, IsTree
  <2> QED
    BY <2>1, <2>2
<1>11. \A d : Kid(tree, p, 1, d) <=> d \in Chi(tree, p, 1)
  BY <1>6, <1>7 DEF Kid
<1> DEFINE Result ==
     \/ /\ \E j : At(chain', p, 1, 1, j) /\ Put({j} \cap filled)
        /\ Ends(c) /\ UNCHANGED stopped
     \/ /\ Bare(chain', p) /\ \E d : Kid(chain', p, 1, d)
        /\ Wakes(c, <<Frame(p, Chi(chain', p, 1))>>)
        /\ UNCHANGED <<ready, stopped>>
     \/ /\ Bare(chain', p) /\ Count(chain', p) = 1 /\ \A d : ~Kid(chain', p, 1, d)
        /\ p # Root /\ Cleans(c, p)
        /\ UNCHANGED <<ready, stopped>>
     \/ /\ p = Root /\ Vacant(chain')
        /\ stopped' = (stopped \/ interrupted)
        /\ Ends(c) /\ UNCHANGED ready
<1> DEFINE Goal == chain' = tree /\ Others(c) /\ Result
<1>12. ASSUME Sib(tree, p, 1) # <<>>, chain' = tree,
              ActivateSibling(c, <<>>, Head(Sib(tree, p, 1))), UNCHANGED stopped
       PROVE  Goal
  <2> DEFINE j == Head(Sib(tree, p, 1))
  <2>1. At(tree, p, 1, 1, j)
    <3>1. 1 \in 1..Len(Sib(tree, p, 1)) /\ j = Sib(tree, p, 1)[1]
      BY <1>7, <1>12
    <3> QED
      BY <1>6, <1>7, <3>1 DEF At
  <2>2. Put({j} \cap filled) /\ Finish(c)
    BY <1>12 DEF ActivateSibling
  <2>3. Others(c) /\ Ends(c)
    BY <1>10, <2>2, EndsFacts
  <2> HIDE DEF j
  <2> QED
    BY <1>12, <2>1, <2>2, <2>3, Zenon
<1>13. ASSUME Sib(tree, p, 1) = <<>>, Chi(tree, p, 1) # {}, chain' = tree,
              ActivateChildren(c, <<>>, p, Chi(tree, p, 1)), UNCHANGED stopped
       PROVE  Goal
  <2> DEFINE fs == <<Frame(p, Chi(tree, p, 1))>>
  <2>1. fs \in Seq(FrameType) /\ fs = Append(<<>>, Frame(p, Chi(tree, p, 1)))
    <3>1. fs \in Seq(FrameType)
      BY <1>7, FrameTyped
    <3> QED
      BY <3>1
  <2>2. /\ frames' = [frames EXCEPT ![c] = Append(<<>>, Frame(p, Chi(tree, p, 1)))]
        /\ call' = [call EXCEPT ![c] = NoCall]
        /\ pc' = [pc EXCEPT ![c] = "activate"]
        /\ UNCHANGED ready
    BY <1>13 DEF ActivateChildren, PutNothing
  <2>3. frames' = [frames EXCEPT ![c] = fs]
    BY <2>1, <2>2
  <2> HIDE DEF fs
  <2>4. Others(c) /\ Wakes(c, fs)
    BY <1>10, <2>1, <2>2, <2>3, WakesFacts
  <2>5. Bare(tree, p) /\ \E d : Kid(tree, p, 1, d)
    BY <1>10, <1>11, <1>13
  <2>6. Wakes(c, <<Frame(p, Chi(tree, p, 1))>>)
    BY <2>4 DEF fs
  <2>7. UNCHANGED <<ready, stopped>>
    BY <1>13, <2>2
  <2> QED
    BY <1>13, <2>4, <2>5, <2>6, <2>7, Zenon
<1>14. ASSUME Sib(tree, p, 1) = <<>>, Chi(tree, p, 1) = {}, NextSegment(c, p, 1, tree)
       PROVE  Goal
  <2>0. Bare(tree, p) /\ \A d : ~Kid(tree, p, 1, d)
    BY <1>10, <1>11, <1>14
  <2>1. ~(Count(tree, p) > 1)
    <3>1. \A k \in Nat : 1 <= k /\ k <= Count(tree, p) /\ k < Count(tree, p) =>
            \E d : Kid(tree, p, k, d)
      BY <1>6, <1>10 DEF Forked
    <3> QED
      BY <1>6, <1>7, <2>0, <3>1
  <2>2. Count(tree, p) = 1
    BY <1>6, <1>7, <2>1
  <2>3. \/ p # Root /\ CleanParent(c, p, tree)
        \/ /\ p = Root
           /\ chain' = tree /\ stopped' = (stopped \/ interrupted) /\ Finish(c) /\ UNCHANGED ready
    BY <1>14, <2>2 DEF NextSegment, PutNothing, Count
  <2>4. CASE p # Root /\ CleanParent(c, p, tree)
    <3>1. /\ chain' = tree /\ UNCHANGED <<ready, stopped>>
          /\ Others(c) /\ Cleans(c, p)
      BY <1>6, <1>7, <1>10, <2>4, CleansFacts
    <3> QED
      BY <2>0, <2>2, <2>4, <3>1, Zenon
  <2>5. CASE /\ p = Root
             /\ chain' = tree /\ stopped' = (stopped \/ interrupted) /\ Finish(c) /\ UNCHANGED ready
    <3>1. Others(c) /\ Ends(c)
      BY <1>10, <2>5, EndsFacts
    <3>2. Vacant(tree)
      BY <1>6, <1>14, <2>5, VacantFacts
    <3> QED
      BY <2>5, <3>1, <3>2, Zenon
  <2> QED
    BY <2>3, <2>4, <2>5
<1>15. \/ /\ Sib(tree, p, 1) # <<>>
          /\ chain' = tree
          /\ ActivateSibling(c, <<>>, Head(Sib(tree, p, 1)))
          /\ UNCHANGED stopped
       \/ /\ Sib(tree, p, 1) = <<>> /\ Chi(tree, p, 1) # {}
          /\ chain' = tree
          /\ ActivateChildren(c, <<>>, p, Chi(tree, p, 1))
          /\ UNCHANGED stopped
       \/ /\ Sib(tree, p, 1) = <<>> /\ Chi(tree, p, 1) = {}
          /\ NextSegment(c, p, 1, tree)
  BY <1>3, Zenon DEF Sib, Chi
<1>16. Goal
  BY <1>12, <1>13, <1>14, <1>15, Zenon
<1> HIDE DEF Result
<1>17. pc[c] = "finalize" /\ Sound(c) /\ UNCHANGED <<tag, before, filled, interrupted>> /\ Popped(chain, chain', p)
  BY <1>1, <1>3, <1>5, <1>16
<1> QED
  BY <1>2, <1>8, <1>16, <1>17, Zenon DEF PopsFrom, Result

-----------------------------------------------------------------------------
(* What the activation of the next child d comes to: its first item is     *)
(* offered, or its own children are next.                                  *)
GoesDown(i, d) ==
  /\ pc[Consumer(i)] = "activate" /\ Sound(Consumer(i))
  /\ d \in Last(frames[Consumer(i)]).todo
  /\ d \in Chains /\ d # Root /\ Alive(chain, d) /\ ~On(chain, d, 1) /\ OnlyBy(Consumer(i), d)
  /\ Marked(chain, chain', d) /\ Others(Consumer(i))
  /\ UNCHANGED <<tag, before, filled, interrupted, stopped>>
  /\ \/ /\ \E j : At(chain', d, 1, 1, j) /\ Put({j} \cap filled)
        /\ Wakes(Consumer(i), Relieved(frames[Consumer(i)], d))
     \/ /\ Bare(chain', d) /\ UNCHANGED ready
        /\ Wakes(Consumer(i), Append(Relieved(frames[Consumer(i)], d), Frame(d, Chi(chain', d, 1))))

(* The children of the top frame are all through. *)
GoesUp(i) ==
  /\ pc[Consumer(i)] = "activate" /\ Sound(Consumer(i))
  /\ Last(frames[Consumer(i)]).todo = {} /\ Others(Consumer(i))
  /\ UNCHANGED <<chain, ready, tag, before, filled, interrupted, stopped>>
  /\ \/ Front(frames[Consumer(i)]) = <<>> /\ Ends(Consumer(i))
     \/ Front(frames[Consumer(i)]) # <<>> /\ Wakes(Consumer(i), Front(frames[Consumer(i)]))

(* The next child is activated. *)
LEMMA GoesDownFate ==
  ASSUME Inv, NEW i \in Items, pc[Consumer(i)] = "activate", Sound(Consumer(i)),
         NEW d \in Last(frames[Consumer(i)]).todo, Free(d),
         ActivateSegment(Consumer(i), Relieved(frames[Consumer(i)], d), d, 1, chain),
         UNCHANGED <<tag, before, filled, interrupted, stopped>>
  PROVE  GoesDown(i, d)
<1> DEFINE c == Consumer(i)
           below == Relieved(frames[c], d)
<1>1. /\ chain' = [chain EXCEPT ![d].segments[1].active = TRUE]
      /\ \/ Sib(chain, d, 1) # <<>> /\ ActivateSibling(c, below, Head(Sib(chain, d, 1)))
         \/ Sib(chain, d, 1) = <<>> /\ ActivateChildren(c, below, d, Chi(chain, d, 1))
  BY DEF ActivateSegment, Sib, Chi
<1>2. c \in Coros /\ IsTree(chain) /\ Rooted(chain) /\ Linked(chain) /\ Chains = DOMAIN chain
      /\ Actives(chain) /\ Unique(chain)
  BY CoroFacts DEF Inv, IsTree, Chains
<1>3. d \in DOMAIN chain /\ Count(chain, d) > 0
  <2>1. /\ frames[c] \in Seq(FrameType) /\ Awaken(chain, frames[c])
        /\ \A n \in DOMAIN frames[c] : Alive(chain, frames[c][n].chain)
    BY AwakenFacts
  <2>2. Len(frames[c]) \in DOMAIN frames[c] /\ Last(frames[c]) = frames[c][Len(frames[c])]
    <3>1. frames[c] # <<>>
      BY <2>1 DEF Awaken
    <3>2. Len(frames[c]) \in Nat \ {0} /\ Last(frames[c]) = frames[c][Len(frames[c])]
      BY <2>1, <3>1, FrontFacts
    <3>3. DOMAIN frames[c] = 1..Len(frames[c])
      BY <2>1
    <3> QED
      BY <3>2, <3>3
  <2>3. Kid(chain, Last(frames[c]).chain, 1, d)
    BY <2>1, <2>2 DEF Awaken, Awakening
  <2> QED
    BY <1>2, <2>3 DEF Linked
<1>4. Marked(chain, chain', d)
  <2>1. Marked(chain, [chain EXCEPT ![d].segments[1].active = TRUE], d)
    BY <1>2, <1>3, MarkedFacts
  <2> QED
    BY <1>1, <2>1
<1>5. /\ d \in Chains /\ d # Root /\ Alive(chain, d) /\ Count(chain, d) > 0 /\ ~On(chain, d, 1)
      /\ IsTree(chain') /\ Eased(chain, chain', d, d) /\ Slid(chain, chain') /\ \A x : Stays(chain, chain', x)
      /\ \A q \in Chains : Alive(chain', q) <=> Alive(chain, q)
      /\ OnlyBy(c, d)
      /\ \A e \in Coros : e # c => \A n \in DOMAIN frames[e] :
           Alive(chain', frames[e][n].chain) => d \notin frames[e][n].todo
      /\ below \in Seq(FrameType) /\ Awaken(chain', below) /\ Own(c, below)
      /\ \A n \in DOMAIN below : below[n].chain # d
  BY <1>4, WakeFacts
<1>6. call[c] = NoCall
  BY AwakenFacts
<1>7. 1 \in 1..Count(chain, d) /\ d \in Nat /\ Sib(chain, d, 1) \in Seq(Items) /\ Chi(chain, d, 1) \in SUBSET Nat
  <2>1. Count(chain, d) \in Nat /\ d \in Nat
    BY <1>2, <1>3, RootedFacts
  <2>2. 1 \in 1..Count(chain, d)
    BY <1>3, <2>1
  <2> QED
    BY <1>2, <1>3, <2>1, <2>2, RootedFacts
<1>8. On(chain', d, 1)
  BY <1>4 DEF Marked
<1> HIDE DEF below
<1>9. d \in DOMAIN chain' /\ Count(chain', d) = Count(chain, d) /\ Chi(chain', d, 1) = Chi(chain, d, 1)
  <2>1. d \in DOMAIN chain' /\ Count(chain', d) = Count(chain, d)
    BY <1>3, <1>4 DEF Marked, Same
  <2>2. \A e : Kid(chain', d, 1, e) <=> Kid(chain, d, 1, e)
    BY <1>4 DEF Marked
  <2>3. \A e : e \in Chi(chain', d, 1) <=> e \in Chi(chain, d, 1)
    BY <1>3, <1>7, <2>1, <2>2 DEF Kid
  <2> QED
    BY <2>1, <2>3
<1> DEFINE Result ==
    \/ /\ \E j : At(chain', d, 1, 1, j) /\ Put({j} \cap filled)
       /\ Wakes(c, below)
    \/ /\ Bare(chain', d) /\ UNCHANGED ready
       /\ Wakes(c, Append(below, Frame(d, Chi(chain', d, 1))))
<1>10. ASSUME Sib(chain, d, 1) # <<>>, ActivateSibling(c, below, Head(Sib(chain, d, 1)))
       PROVE  Others(c) /\ Result
  <2> DEFINE j == Head(Sib(chain, d, 1))
  <2>1. At(chain, d, 1, 1, j)
    <3>1. 1 \in 1..Len(Sib(chain, d, 1)) /\ j = Sib(chain, d, 1)[1]
      BY <1>7, <1>10
    <3> QED
      BY <1>3, <1>7, <3>1 DEF At
  <2>2. Put({j} \cap filled) /\ frames' = [frames EXCEPT ![c] = below] /\ UNCHANGED <<call, pc>>
    BY <1>5, <1>10 DEF ActivateSibling, Awaken
  <2> HIDE DEF j
  <2>3. At(chain', d, 1, 1, j)
    BY <1>4, <2>1 DEF Marked
  <2>4. Others(c) /\ Wakes(c, below)
    BY <1>2, <1>5, <1>6, <2>2, WakesFacts
  <2> QED
    BY <2>2, <2>3, <2>4, Zenon
<1>11. ASSUME Sib(chain, d, 1) = <<>>, ActivateChildren(c, below, d, Chi(chain, d, 1))
       PROVE  Others(c) /\ Result
  <2> DEFINE f == Frame(d, Chi(chain, d, 1))
             fs == Append(below, f)
  <2>1. f \in FrameType
    BY <1>7, FrameTyped
  <2>2. /\ frames' = [frames EXCEPT ![c] = fs]
        /\ call' = [call EXCEPT ![c] = NoCall]
        /\ pc' = [pc EXCEPT ![c] = "activate"]
        /\ UNCHANGED ready
    BY <1>11 DEF ActivateChildren, PutNothing
  <2> HIDE DEF f
  <2>3. fs \in Seq(FrameType)
    BY <1>5, <2>1, AddedTop
  <2> HIDE DEF fs
  <2>4. Others(c) /\ Wakes(c, fs)
    BY <1>2, <2>2, <2>3, WakesFacts
  <2>5. Wakes(c, Append(below, Frame(d, Chi(chain', d, 1))))
    BY <1>9, <2>4 DEF f, fs
  <2>6. Bare(chain', d)
    <3>1. 1..Len(Sib(chain, d, 1)) = {}
      BY <1>11
    <3>2. \A x : At(chain', d, 1, 1, x) <=> At(chain, d, 1, 1, x)
      BY <1>4 DEF Marked
    <3>3. \A x : ~At(chain, d, 1, 1, x)
      BY <3>1 DEF At
    <3> QED
      BY <3>2, <3>3 DEF Bare
  <2> QED
    BY <2>2, <2>4, <2>5, <2>6, Zenon
<1>12. Others(c) /\ Result
  BY <1>1, <1>10, <1>11
<1> HIDE DEF Result
<1> QED
  BY <1>4, <1>5, <1>12, Zenon DEF GoesDown, Result, below

(* activate_children is through, and back to the frame below. *)
LEMMA GoesUpFate ==
  ASSUME Inv, NEW i \in Items, pc[Consumer(i)] = "activate", Sound(Consumer(i)),
         Last(frames[Consumer(i)]).todo = {},
         \/ Front(frames[Consumer(i)]) = <<>> /\ Finish(Consumer(i))
         \/ /\ Front(frames[Consumer(i)]) # <<>>
            /\ frames' = [frames EXCEPT ![Consumer(i)] = Front(frames[Consumer(i)])]
            /\ UNCHANGED <<call, pc>>,
         UNCHANGED <<chain, ready, tag, before, filled, interrupted, stopped>>
  PROVE  GoesUp(i)
<1> DEFINE c == Consumer(i)
           fs == Front(frames[c])
<1>1. c \in Coros
  BY CoroFacts
<1>2. CASE fs = <<>> /\ Finish(c)
  <2>1. Others(c) /\ Ends(c)
    BY <1>1, <1>2, EndsFacts
  <2> QED
    BY <1>2, <2>1, Zenon DEF GoesUp
<1>3. CASE fs # <<>> /\ frames' = [frames EXCEPT ![c] = fs] /\ UNCHANGED <<call, pc>>
  <2>1. frames[c] \in Seq(FrameType) /\ Awaken(chain, frames[c]) /\ call[c] = NoCall
    BY AwakenFacts
  <2>2. fs \in Seq(FrameType)
    <3>1. frames[c] # <<>>
      BY <2>1 DEF Awaken
    <3> QED
      BY <2>1, <3>1, FrontFacts
  <2> HIDE DEF fs
  <2>3. Others(c) /\ Wakes(c, fs)
    BY <1>1, <1>3, <2>1, <2>2, WakesFacts
  <2> QED
    BY <1>3, <2>3, Zenon DEF GoesUp, fs
<1> QED
  BY <1>2, <1>3

(* A round of activate_children (forque.hpp:371). *)
LEMMA ActivateFate ==
  ASSUME Inv, NEW i \in Items, Activate(i)
  PROVE  GoesUp(i) \/ \E d : GoesDown(i, d)
<1> DEFINE c == Consumer(i)
<1>1. /\ pc[c] = "activate" /\ Sound(c)
      /\ \/ \E d \in Last(frames[c]).todo :
              /\ Free(d)
              /\ ActivateSegment(c, Relieved(frames[c], d), d, 1, chain)
              /\ UNCHANGED stopped
         \/ /\ Last(frames[c]).todo = {}
            /\ \/ Front(frames[c]) = <<>> /\ Finish(c)
               \/ /\ Front(frames[c]) # <<>>
                  /\ frames' = [frames EXCEPT ![c] = Front(frames[c])]
                  /\ UNCHANGED <<call, pc>>
            /\ UNCHANGED <<ready, chain>> /\ UNCHANGED stopped
      /\ UNCHANGED <<tag, before, filled, interrupted>>
  BY DEF Activate, Relieved, PutNothing
<1>2. ASSUME NEW d \in Last(frames[c]).todo, Free(d),
             ActivateSegment(c, Relieved(frames[c], d), d, 1, chain),
             UNCHANGED stopped
      PROVE  GoesDown(i, d)
  BY <1>1, <1>2, GoesDownFate
<1>3. ASSUME Last(frames[c]).todo = {},
             \/ Front(frames[c]) = <<>> /\ Finish(c)
             \/ /\ Front(frames[c]) # <<>>
                /\ frames' = [frames EXCEPT ![c] = Front(frames[c])]
                /\ UNCHANGED <<call, pc>>,
             UNCHANGED <<ready, chain>>, UNCHANGED stopped
      PROVE  GoesUp(i)
  BY <1>1, <1>3, GoesUpFate
<1> QED
  BY <1>1, <1>2, <1>3

-----------------------------------------------------------------------------
(* What remove_child comes to that has found d in the front segment of p:   *)
(* nothing, as the version is another; or d is erased, and the segment has  *)
(* other children, or another segment follows, or p is through as well.     *)
Removes(i, p, d) ==
  /\ pc[Consumer(i)] = "compare" /\ Sound(Consumer(i)) /\ p = call[Consumer(i)].on
  /\ p \in Chains /\ Alive(chain, p) /\ On(chain, p, 1) /\ Count(chain, p) > 0
  /\ d \in Chains /\ d # Root /\ d # p /\ Kid(chain, p, 1, d)
  /\ d \in Find(FrontOf(p), call[Consumer(i)].tag)
  /\ OnlyBy(Consumer(i), p) /\ Free(d) /\ Others(Consumer(i))
  /\ UNCHANGED <<tag, before, filled, interrupted>>
  /\ \/ /\ FrontOf(d).version # call[Consumer(i)].version
        /\ UNCHANGED <<chain, ready, stopped>> /\ Ends(Consumer(i))
     \/ /\ FrontOf(d).version = call[Consumer(i)].version
        /\ Cut(chain, chain', p, d) /\ \E e : e # d /\ Kid(chain, p, 1, e)
        /\ UNCHANGED <<ready, stopped>> /\ Ends(Consumer(i))
     \/ /\ FrontOf(d).version = call[Consumer(i)].version
        /\ Cut(chain, chain', p, d) /\ \A e : Kid(chain, p, 1, e) => e = d
        /\ Count(chain, p) = 1 /\ p # Root
        /\ UNCHANGED <<ready, stopped>> /\ Cleans(Consumer(i), p)
     \/ /\ FrontOf(d).version = call[Consumer(i)].version
        /\ Cut(chain, chain', p, d) /\ \A e : Kid(chain, p, 1, e) => e = d
        /\ Count(chain, p) = 1 /\ p = Root
        /\ stopped' = (stopped \/ interrupted) /\ UNCHANGED ready /\ Ends(Consumer(i))
     \/ /\ FrontOf(d).version = call[Consumer(i)].version
        /\ Moved(chain, chain', p, d) /\ \A e : Kid(chain, p, 1, e) => e = d
        /\ \E j : At(chain', p, 1, 1, j) /\ Put({j} \cap filled)
        /\ UNCHANGED stopped /\ Ends(Consumer(i))

(* The end of remove_child (forque.hpp:410). *)
LEMMA EraseChildFate ==
  ASSUME Inv, NEW i \in Items, EraseChild(i)
  PROVE  \E p, d : Removes(i, p, d)
<1> DEFINE c == Consumer(i)
           p == call[c].on
<1>1. /\ pc[c] = "compare" /\ Sound(c)
      /\ UNCHANGED <<tag, before, filled, interrupted>>
  BY DEF EraseChild
<1>2. PICK d \in Find(FrontOf(p), call[c].tag) :
           /\ Free(d)
           /\ \/ /\ FrontOf(d).version # call[c].version
                 /\ Finish(c)
                 /\ UNCHANGED <<chain, ready, stopped>>
              \/ /\ FrontOf(d).version = call[c].version
                 /\ FrontOf(p).children # {d}
                 /\ chain' = Erased(p, d)
                 /\ Finish(c)
                 /\ UNCHANGED <<ready, stopped>>
              \/ /\ FrontOf(d).version = call[c].version
                 /\ FrontOf(p).children = {d}
                 /\ NextSegment(c, p, 1, Erased(p, d))
  BY DEF EraseChild
<1>3. /\ p \in Chains /\ Alive(chain, p) /\ Count(chain, p) > 0 /\ On(chain, p, 1)
      /\ Kid(chain, p, 1, d) /\ d \in Chains /\ d # p /\ d # Root
      /\ OnlyBy(c, p)
      /\ FrontOf(p).children = Chi(chain, p, 1)
      /\ \A e : e \in Chi(chain, p, 1) <=> Kid(chain, p, 1, e)
  BY <1>1, FoundFacts
<1>4. c \in Coros /\ IsTree(chain) /\ Rooted(chain) /\ Forked(chain) /\ p \in DOMAIN chain
      /\ Count(chain, p) \in Nat
  BY <1>3, CoroFacts, RootedFacts DEF Inv, IsTree, Chains
<1>5. Cut(chain, Erased(p, d), p, d)
  BY <1>3, <1>4, CutFacts
<1> DEFINE same == FrontOf(d).version = call[c].version
           only == \A e : Kid(chain, p, 1, e) => e = d
           Result ==
     \/ /\ ~same
        /\ UNCHANGED <<chain, ready, stopped>> /\ Ends(c)
     \/ /\ same
        /\ Cut(chain, chain', p, d) /\ \E e : e # d /\ Kid(chain, p, 1, e)
        /\ UNCHANGED <<ready, stopped>> /\ Ends(c)
     \/ /\ same
        /\ Cut(chain, chain', p, d) /\ only
        /\ Count(chain, p) = 1 /\ p # Root
        /\ UNCHANGED <<ready, stopped>> /\ Cleans(c, p)
     \/ /\ same
        /\ Cut(chain, chain', p, d) /\ only
        /\ Count(chain, p) = 1 /\ p = Root
        /\ stopped' = (stopped \/ interrupted) /\ UNCHANGED ready /\ Ends(c)
     \/ /\ same
        /\ Moved(chain, chain', p, d) /\ only
        /\ \E j : At(chain', p, 1, 1, j) /\ Put({j} \cap filled)
        /\ UNCHANGED stopped /\ Ends(c)
<1> HIDE DEF p
<1>6. ASSUME ~same, Finish(c), UNCHANGED <<chain, ready, stopped>>
      PROVE  Others(c) /\ Result
  <2>1. Others(c) /\ Ends(c)
    BY <1>4, <1>6, EndsFacts
  <2> QED
    BY <1>6, <2>1, Zenon
<1>7. ASSUME same, FrontOf(p).children # {d}, chain' = Erased(p, d), Finish(c),
             UNCHANGED <<ready, stopped>>
      PROVE  Others(c) /\ Result
  <2>1. \E e : e # d /\ Kid(chain, p, 1, e)
    BY <1>3, <1>7
  <2>2. Others(c) /\ Ends(c)
    BY <1>4, <1>7, EndsFacts
  <2>3. Cut(chain, chain', p, d)
    BY <1>5, <1>7
  <2> HIDE DEF same
  <2> QED
    BY <1>7, <2>1, <2>2, <2>3, Zenon
<1>8. ASSUME same, FrontOf(p).children = {d}, NextSegment(c, p, 1, Erased(p, d))
      PROVE  Others(c) /\ Result
  <2>0. same
    BY <1>8
  <2> HIDE DEF same
  <2>1. \A e : Kid(chain, p, 1, e) => e = d
    BY <1>3, <1>8
  <2>2. CASE Count(chain, p) = 1
    <3> DEFINE tree == Erased(p, d)
    <3>1. /\ IsTree(tree) /\ p \in DOMAIN tree /\ Count(tree, p) = 1 /\ Cut(chain, tree, p, d)
      BY <1>3, <1>4, <1>5, <2>2, ErasedFacts
    <3>2. NextSegment(c, p, 1, tree)
      BY <1>8
    <3> HIDE DEF tree
    <3>3. \/ p # Root /\ CleanParent(c, p, tree)
          \/ /\ p = Root /\ chain' = tree /\ stopped' = (stopped \/ interrupted)
             /\ Finish(c) /\ UNCHANGED ready
      BY <3>1, <3>2 DEF NextSegment, PutNothing, Count
    <3>4. CASE p # Root /\ CleanParent(c, p, tree)
      <4>1. Count(tree, p) > 0 /\ Rooted(tree)
        BY <3>1 DEF IsTree
      <4>2. /\ chain' = tree /\ UNCHANGED <<ready, stopped>>
            /\ Others(c) /\ Cleans(c, p)
        BY <1>4, <3>1, <3>4, <4>1, CleansFacts
      <4> QED
        BY <2>0, <2>1, <2>2, <3>1, <3>4, <4>2, Zenon
    <3>5. CASE /\ p = Root /\ chain' = tree /\ stopped' = (stopped \/ interrupted)
               /\ Finish(c) /\ UNCHANGED ready
      <4>1. Others(c) /\ Ends(c)
        BY <1>4, <3>5, EndsFacts
      <4> QED
        BY <2>0, <2>1, <2>2, <3>1, <3>5, <4>1, Zenon
    <3> QED
      BY <3>3, <3>4, <3>5
  <2>3. CASE Count(chain, p) > 1
    <3> DEFINE w == [Erased(p, d) EXCEPT ![p].segments = RemoveAt(@, 1)]
               u == [w EXCEPT ![p].segments[1].active = TRUE]
    <3>1. Cut(chain, Erased(p, d), p, d)
      BY <1>3, <1>4, CutFacts
    <3>2. Count(Erased(p, d), p) = Count(chain, p)
      BY <1>3, <1>4, <3>1 DEF Cut
    <3>3. Moved(chain, u, p, d)
      BY <1>3, <1>4, <2>3, MovedFacts
    <3>4. ActivateSegment(c, <<>>, p, 1, w) /\ UNCHANGED stopped
      <4> DEFINE tree == Erased(p, d)
      <4>1. NextSegment(c, p, 1, tree) /\ Len(tree[p].segments) = Count(chain, p)
        BY <1>8, <3>2 DEF Count
      <4> HIDE DEF tree
      <4>2. Len(tree[p].segments) # 1
        BY <1>4, <2>3, <4>1
      <4>3. /\ ActivateSegment(c, <<>>, p, 1, [tree EXCEPT ![p].segments = RemoveAt(@, 1)])
            /\ UNCHANGED stopped
        BY <4>1, <4>2 DEF NextSegment
      <4> QED
        BY <4>3 DEF tree
    <3>5. Sib(u, p, 1) = w[p].segments[1].siblings
      <4> DEFINE tree == Erased(p, d)
      <4>1. tree \in Seq(ChainType) /\ p \in DOMAIN tree /\ Len(tree[p].segments) > 1
        BY <1>4, <2>3, <3>1, <3>2 DEF Cut, Same, Rooted, Count
      <4>2. w = [tree EXCEPT ![p].segments = RemoveAt(@, 1)]
        OBVIOUS
      <4> HIDE DEF tree, w
      <4>3. tree[p] \in ChainType /\ tree[p].segments \in Seq(SegmentType)
        <5>1. tree[p] \in ChainType
          BY <4>1
        <5> QED
          BY <5>1 DEF ChainType
      <4>4. /\ RemoveAt(tree[p].segments, 1) \in Seq(SegmentType)
            /\ Len(RemoveAt(tree[p].segments, 1)) = Len(tree[p].segments) - 1
        BY <4>1, <4>3, RemovedFirst
      <4>5. p \in DOMAIN w /\ w[p] = [tree[p] EXCEPT !.segments = RemoveAt(tree[p].segments, 1)]
        BY <4>1, <4>2
      <4>6. w[p] \in ChainType /\ w[p].segments = RemoveAt(tree[p].segments, 1)
        BY <4>3, <4>4, <4>5 DEF ChainType
      <4>7. w[p].segments # <<>>
        BY <4>1, <4>3, <4>4, <4>6
      <4> QED
        BY <4>5, <4>6, <4>7, MarkedSiblings DEF Sib
    <3>6. chain' = u
          /\ (w[p].segments[1].siblings # <<>> =>
                ActivateSibling(c, <<>>, Head(w[p].segments[1].siblings)))
      BY <3>4 DEF ActivateSegment
    <3> HIDE DEF u, w
    <3>7. IsTree(u) /\ \A q \in DOMAIN chain : Alive(u, q) <=> Alive(chain, q) /\ d \notin Line(chain, q)
      BY <1>3, <1>4, <2>1, <3>3, MovedTree DEF Chains
    <3>8. Eased(chain, u, p, Meta) /\ Slid(chain, u) /\ \A x : Stays(chain, u, x)
      BY <1>3, <1>4, <3>3, <3>7, EasedMoved DEF Chains
    <3>9. \E x : At(chain, p, 2, 1, x)
      <4>1. \A k \in Nat : 1 <= k /\ k <= Count(chain, p) /\ k > 1 => \E x : At(chain, p, k, 1, x)
        BY <1>4 DEF Forked
      <4> QED
        BY <1>4, <2>3, <4>1
    <3>10. \A x : At(u, p, 1, 1, x) <=> At(chain, p, 2, 1, x)
      <4>1. \A k, m, x : At(u, p, k, m, x) <=> k \in Nat /\ 1 <= k /\ At(chain, p, k + 1, m, x)
        BY <3>3 DEF Moved
      <4> QED
        BY <4>1
    <3> DEFINE j == Head(Sib(u, p, 1))
    <3>11. Sib(u, p, 1) # <<>> /\ At(u, p, 1, 1, j)
      <4>1. PICK x : At(u, p, 1, 1, x)
        BY <3>9, <3>10
      <4>2. /\ Sib(u, p, 1) \in Seq(Items) /\ 1 \in 1..Len(Sib(u, p, 1)) /\ Sib(u, p, 1)[1] = x
        <5>1. p \in DOMAIN u /\ 1 \in 1..Count(u, p) /\ Rooted(u)
          BY <3>7, <4>1 DEF At, IsTree
        <5> QED
          BY <4>1, <5>1, RootedFacts DEF At
      <4>3. Sib(u, p, 1) # <<>> /\ j = x
        BY <4>2
      <4> QED
        BY <4>1, <4>3
    <3> HIDE DEF j
    <3>12. ActivateSibling(c, <<>>, j)
      BY <3>5, <3>6, <3>11 DEF j
    <3>13. Put({j} \cap filled) /\ Finish(c)
      BY <3>12 DEF ActivateSibling
    <3>14. Others(c) /\ Ends(c)
      BY <1>4, <3>13, EndsFacts
    <3>15. UNCHANGED stopped /\ Moved(chain, chain', p, d) /\ At(chain', p, 1, 1, j)
      BY <3>3, <3>4, <3>6, <3>11
    <3> QED
      BY <2>0, <2>1, <3>13, <3>14, <3>15, Zenon
  <2> QED
    BY <1>3, <1>4, <2>2, <2>3
<1>9. Others(c) /\ Result
  BY <1>2, <1>6, <1>7, <1>8, Zenon
<1>10. p = call[c].on
  BY DEF p
<1> HIDE DEF Result
<1> QED
  BY <1>1, <1>2, <1>3, <1>9, <1>10, Zenon DEF Removes, Result

-----------------------------------------------------------------------------
(* what Intact says, read through At and Alive *)
Upright(t, fs, ca) ==
  /\ \A n \in DOMAIN fs : fs[n].chain # Meta => Alive(t, fs[n].chain)
  /\ ca.on # Meta => Alive(t, ca.on)
Waits(x) == Placed(x) /\ ~Finalized(x)
There(t, x) == \E p, k, m : At(t, p, k, m, x) /\ Alive(t, p)

Whole ==
  /\ \A c \in Coros : Upright(chain, frames[c], call[c])
  /\ \A x \in Items : Waits(x) => There(chain, x)

(* What a sound coroutine holds is alive. *)
LEMMA SoundIs ==
  ASSUME Inv, NEW c \in Coros
  PROVE  /\ Sound(c) => Upright(chain, frames[c], call[c])
         /\ Upright(chain, frames[c], call[c]) =>
              \A p \in Holding(c) \cup {call[c].on} : Exists(p)
<1>1. Rooted(chain) /\ IsTree(chain)
  BY DEF Inv, IsTree
<1>2. \A p \in Chains : Exists(p) <=> Alive(chain, p)
  BY <1>1, ExistsIsAlive
<1>3. /\ \A n \in DOMAIN frames[c] : frames[c][n].chain \in Chains \cup {Meta}
      /\ call[c].on \in Chains \cup {Meta}
  BY HeldFacts
<1>4. Sound(c) => Upright(chain, frames[c], call[c])
  <2> SUFFICES ASSUME Sound(c) PROVE Upright(chain, frames[c], call[c])
    OBVIOUS
  <2>1. /\ \A n \in DOMAIN frames[c] :
             frames[c][n].chain \in Chains => Alive(chain, frames[c][n].chain)
        /\ call[c].on \in Chains => Alive(chain, call[c].on)
    BY <1>1, SoundFacts
  <2> QED
    BY <1>3, <2>1 DEF Upright
<1>5. Exists(Meta)
  BY DEF Exists
<1> QED
  BY <1>2, <1>3, <1>4, <1>5 DEF Upright, Holding

(* An item is in the tree if it has a home. *)
LEMMA ThereIs ==
  ASSUME Inv, NEW x \in Items
  PROVE  Home(x) # {} <=> There(chain, x)
<1>1. IsTree(chain)
  BY DEF Inv
<1>2. /\ Home(x) # {} => \E m : /\ At(chain, Owner(x), SegmentOf(x), m, x)
                                /\ Alive(chain, Owner(x))
      /\ \A p, k, m : At(chain, p, k, m, x) /\ Alive(chain, p) =>
           Home(x) = {p} /\ Owner(x) = p /\ SegmentOf(x) = k
  BY <1>1, HomeFacts
<1>3. Home(x) # {} => There(chain, x)
  BY <1>2, Zenon DEF There
<1>4. There(chain, x) => Home(x) # {}
  <2> SUFFICES ASSUME There(chain, x) PROVE Home(x) # {}
    OBVIOUS
  <2>1. PICK p, k, m : At(chain, p, k, m, x) /\ Alive(chain, p)
    BY DEF There
  <2>2. Home(x) = {p}
    BY <1>2, <2>1
  <2> QED
    BY <2>2
<1> QED
  BY <1>3, <1>4

(* Nothing in use has been destroyed. *)
LEMMA WholeIs == Inv => (Intact <=> Whole)
<1> SUFFICES ASSUME Inv PROVE Intact <=> Whole
  OBVIOUS
<1>1. \A x \in Items : Home(x) # {} <=> There(chain, x)
  BY ThereIs
<1>2. ASSUME NEW c \in Coros, NEW x \in Items, Refers(c, x) PROVE Waits(x)
  <2>1. CASE c = Producer(x) /\ pc[c] = "reserved"
    <3>1. Placed(x)
      BY <2>1 DEF Placed
    <3>2. pc[Consumer(x)] = "get"
      BY <2>1 DEF Inv, Tokens, Ever
    <3> QED
      BY <3>1, <3>2 DEF Waits, Finalized
  <2>2. CASE c = Consumer(x) /\ pc[c] \in {"retained", "finalize"}
    <3>1. pc[Producer(x)] = "populated"
      BY <2>2 DEF Inv, Tokens, Ever
    <3> QED
      BY <2>2, <3>1 DEF Waits, Placed, Finalized
  <2> QED
    BY <1>2, <2>1, <2>2 DEF Refers
<1>3. ASSUME Intact PROVE Whole
  <2>1. \A c \in Coros : Upright(chain, frames[c], call[c])
    BY <1>3, SoundIs DEF Intact
  <2>2. \A x \in Items : Waits(x) => There(chain, x)
    BY <1>1, <1>3 DEF Intact, Waits
  <2> QED
    BY <2>1, <2>2 DEF Whole
<1>4. ASSUME Whole PROVE Intact
  <2>1. \A x \in Items : Waits(x) => Home(x) # {}
    BY <1>1, <1>4 DEF Whole
  <2>2. ASSUME NEW c \in Coros PROVE Sound(c)
    <3>1. \A p \in Holding(c) \cup {call[c].on} : Exists(p)
      BY <1>4, SoundIs DEF Whole
    <3>2. \A x \in Items : Refers(c, x) => Home(x) # {}
      BY <1>2, <2>1
    <3> QED
      BY <3>1, <3>2 DEF Sound
  <2> QED
    BY <2>1, <2>2 DEF Intact, Waits
<1> QED
  BY <1>3, <1>4

(* the same in the next state *)
LEMMA WholeIsNext == Inv' => (Intact' <=> Whole')
BY WholeIs, PTL

-----------------------------------------------------------------------------
(* A step of c that destroys at most the chains of D, and items of L. *)
Gentle(c, D, L) ==
  /\ Others(c)
  /\ Upright(chain, frames[c], call[c]) /\ Upright(chain', frames'[c], call'[c])
  /\ \A q \in Chains : /\ Alive(chain', q) => Alive(chain, q)
                       /\ Alive(chain, q) => Alive(chain', q) \/ q \in D
  /\ \A x \in Items :
       /\ Waits(x)' /\ ~Waits(x) => There(chain', x)
       /\ Waits(x) /\ ~Waits(x)' => There(chain, x)
       /\ Waits(x) /\ Waits(x)' => \A p :
            /\ (\E k, m : At(chain', p, k, m, x)) => \E k, m : At(chain, p, k, m, x)
            /\ (\E k, m : At(chain, p, k, m, x)) => p \in L \/ \E k, m : At(chain', p, k, m, x)

(* What is whole after such a step has been so before. *)
LEMMA WholeBack ==
  ASSUME Inv, NEW c \in Coros, NEW D, NEW L, Gentle(c, D, L), Whole'
  PROVE  Whole
<1>1. ASSUME NEW e \in Coros PROVE Upright(chain, frames[e], call[e])
  <2>1. CASE e = c
    BY <2>1 DEF Gentle
  <2>2. CASE e # c
    <3>1. Upright(chain', frames[e], call[e])
      <4>1. Upright(chain', frames'[e], call'[e])
        BY DEF Whole
      <4>2. frames'[e] = frames[e] /\ call'[e] = call[e]
        BY <2>2 DEF Gentle, Others
      <4> QED
        BY <4>1, <4>2
    <3>2. /\ \A n \in DOMAIN frames[e] : frames[e][n].chain \in Chains \cup {Meta}
          /\ call[e].on \in Chains \cup {Meta}
      BY HeldFacts
    <3> QED
      BY <3>1, <3>2 DEF Upright, Gentle
  <2> QED
    BY <2>1, <2>2
<1>2. ASSUME NEW x \in Items, Waits(x) PROVE There(chain, x)
  <2>1. CASE Waits(x)'
    <3>1. PICK p, k, m : At(chain', p, k, m, x) /\ Alive(chain', p)
      BY <2>1 DEF Whole, There
    <3>2. \E j, n : At(chain, p, j, n, x)
      BY <1>2, <2>1, <3>1 DEF Gentle
    <3>3. p \in Chains
      BY <3>2 DEF At, Chains
    <3> QED
      BY <3>1, <3>2, <3>3 DEF Gentle, There
  <2> QED
    BY <1>2, <2>1 DEF Gentle
<1> QED
  BY <1>1, <1>2 DEF Whole

(* What is whole before such a step is so after it, if nobody needs what *)
(* it destroys.                                                          *)
LEMMA WholeOn ==
  ASSUME Inv, NEW c \in Coros, NEW D, NEW L, Gentle(c, D, L), Whole,
         \A e \in Coros : e # c =>
           /\ \A n \in DOMAIN frames[e] : frames[e][n].chain \notin D
           /\ call[e].on \notin D,
         \A x \in Items, p \in D \cup L : Alive(chain, p) => \A k, m : ~At(chain, p, k, m, x)
  PROVE  Whole'
<1>1. ASSUME NEW e \in Coros PROVE Upright(chain', frames'[e], call'[e])
  <2>1. CASE e = c
    BY <2>1 DEF Gentle
  <2>2. CASE e # c
    <3>1. Upright(chain, frames[e], call[e])
      BY DEF Whole
    <3>2. frames'[e] = frames[e] /\ call'[e] = call[e]
      BY <2>2 DEF Gentle, Others
    <3>3. /\ \A n \in DOMAIN frames[e] : frames[e][n].chain \in Chains \cup {Meta}
          /\ call[e].on \in Chains \cup {Meta}
      BY HeldFacts
    <3>4. Upright(chain', frames[e], call[e])
      BY <2>2, <3>1, <3>3 DEF Upright, Gentle
    <3> QED
      BY <3>2, <3>4
  <2> QED
    BY <2>1, <2>2
<1>2. ASSUME NEW x \in Items, Waits(x)' PROVE There(chain', x)
  <2>1. CASE Waits(x)
    <3>1. PICK p, k, m : At(chain, p, k, m, x) /\ Alive(chain, p)
      BY <2>1 DEF Whole, There
    <3>2. p \notin D /\ p \notin L /\ p \in Chains
      BY <3>1 DEF At, Chains
    <3>3. \E j, n : At(chain', p, j, n, x)
      BY <1>2, <2>1, <3>1, <3>2 DEF Gentle
    <3> QED
      BY <3>1, <3>2, <3>3 DEF Gentle, There
  <2> QED
    BY <1>2, <2>1 DEF Gentle
<1> QED
  BY <1>1, <1>2 DEF Whole

-----------------------------------------------------------------------------
(* A coroutine that holds nothing needs nothing. *)
LEMMA NothingHeld ==
  ASSUME NEW t
  PROVE  /\ Upright(t, <<>>, NoCall)
         /\ \A p, S : Alive(t, p) => Upright(t, <<Frame(p, S)>>, NoCall)
<1>1. NoCall.on = Meta
  BY DEF NoCall
<1>2. \A p, S : DOMAIN <<Frame(p, S)>> = {1} /\ <<Frame(p, S)>>[1].chain = p
  BY DEF Frame
<1>3. DOMAIN <<>> = {}
  OBVIOUS
<1> QED
  BY <1>1, <1>2, <1>3 DEF Upright

(* What is not touched of an item's coroutines leaves it waiting, or not. *)
LEMMA WaitsKept ==
  ASSUME NEW x \in Items, pc'[Producer(x)] = pc[Producer(x)], pc'[Consumer(x)] = pc[Consumer(x)]
  PROVE  Waits(x)' <=> Waits(x)
BY DEF Waits, Placed, Finalized

(* A step that leaves the tree alone. *)
LEMMA StillGentle ==
  ASSUME Inv, NEW c \in Coros, Others(c), UNCHANGED chain,
         Upright(chain, frames[c], call[c]), Upright(chain, frames'[c], call'[c]),
         \A x \in Items : c \in {Producer(x), Consumer(x)} => (Waits(x)' <=> Waits(x))
  PROVE  Gentle(c, {}, {})
<1>1. ASSUME NEW x \in Items PROVE Waits(x)' <=> Waits(x)
  <2>1. CASE c \in {Producer(x), Consumer(x)}
    BY <2>1
  <2>2. CASE c \notin {Producer(x), Consumer(x)}
    <3>1. /\ Producer(x) \in Coros /\ Producer(x) # c
          /\ Consumer(x) \in Coros /\ Consumer(x) # c
      BY <2>2, CoroFacts
    <3> QED
      BY <3>1, WaitsKept DEF Others
  <2> QED
    BY <2>1, <2>2
<1> QED
  BY <1>1 DEF Gentle

(* A step of the consumer of i that changes the tree. *)
LEMMA ConsumeGentle ==
  ASSUME Inv, NEW i \in Items, Sound(Consumer(i)), Others(Consumer(i)),
         Upright(chain', frames'[Consumer(i)], call'[Consumer(i)]),
         NEW D, NEW L,
         \A q \in Chains : /\ Alive(chain', q) => Alive(chain, q)
                           /\ Alive(chain, q) => Alive(chain', q) \/ q \in D,
         \A x, p : x # i =>
            /\ (\E k, m : At(chain', p, k, m, x)) => \E k, m : At(chain, p, k, m, x)
            /\ (\E k, m : At(chain, p, k, m, x)) => p \in L \/ \E k, m : At(chain', p, k, m, x),
         ~Waits(i)', Waits(i) => There(chain, i)
  PROVE  Gentle(Consumer(i), D, L)
<1>1. Consumer(i) \in Coros
  BY CoroFacts
<1>2. Upright(chain, frames[Consumer(i)], call[Consumer(i)])
  BY <1>1, SoundIs
<1>3. ASSUME NEW x \in Items, x # i PROVE Waits(x)' <=> Waits(x)
  <2>1. /\ Producer(x) \in Coros /\ Producer(x) # Consumer(i)
        /\ Consumer(x) \in Coros /\ Consumer(x) # Consumer(i)
    BY <1>3, CoroFacts
  <2> QED
    BY <2>1, WaitsKept DEF Others
<1> QED
  BY <1>1, <1>2, <1>3, Zenon DEF Gentle

-----------------------------------------------------------------------------
(* A reservation on its way down the tree. *)
LEMMA ArriveGentle ==
  ASSUME Inv, NEW i \in Items, NEW p, NEW g, Arrives(i, p, g)
  PROVE  Gentle(Producer(i), {}, {})
<1> DEFINE c == Producer(i)
<1>1. /\ p \in Chains /\ Alive(chain, p) /\ pc[c] \in {"new", "descend"} /\ Comes(i, p, g)
      /\ g \in Tags /\ IsPrefix(chain[p].tag, g) /\ Others(c) /\ call'[c] = call[c]
  BY DEF Arrives, Joined, Passed
<1>2. c \in Coros /\ call[c] = NoCall /\ IsTree(chain) /\ Rooted(chain)
  BY <1>1, CoroFacts, NewFacts DEF Inv, IsTree
<1>3. Upright(chain, frames[c], call[c])
  <2>1. CASE pc[c] = "new"
    <3>1. frames[c] = <<>>
      BY <2>1 DEF Inv, Fits, ProducerFits
    <3> QED
      BY <1>2, <3>1, NothingHeld
  <2>2. CASE pc[c] = "descend"
    <3>1. p # Root /\ frames[c] = <<Frame(Par(chain, p), {})>>
      BY <1>1, <2>2 DEF Comes, Bound
    <3>2. Alive(chain, Par(chain, p))
      BY <1>1, <1>2, <3>1, AliveFacts DEF Chains
    <3> QED
      BY <1>2, <3>1, <3>2, NothingHeld
  <2> QED
    BY <1>1, <2>1, <2>2
<1>4. ASSUME NEW x \in Items, x # i PROVE Waits(x)' <=> Waits(x)
  <2>1. /\ Producer(x) \in Coros /\ Producer(x) # c
        /\ Consumer(x) \in Coros /\ Consumer(x) # c
    BY <1>4, CoroFacts
  <2> QED
    BY <1>1, <2>1, WaitsKept DEF Others
<1>5. ~Waits(i)
  BY <1>1 DEF Waits, Placed
<1>6. CASE \E K, M \in Nat : Joined(i, p, K, M)
  <2>1. PICK K, M \in Nat : Joined(i, p, K, M)
    BY <1>6
  <2>2. IsTree(chain') /\ \A q \in Chains : Alive(chain', q) <=> Alive(chain, q)
    BY <1>1, <2>1, JoinTree
  <2>3. Upright(chain', frames'[c], call'[c])
    BY <1>1, <1>2, <2>1, NothingHeld DEF Joined
  <2>4. \A q, k, m, x : At(chain', q, k, m, x) <=>
          At(chain, q, k, m, x) \/ (q = p /\ k = K /\ m = M /\ x = i)
    BY <2>1 DEF Joined, Sown
  <2>5. There(chain', i)
    BY <1>1, <2>2, <2>4 DEF There
  <2>6. \A x : x # i => \A q, k, m : At(chain', q, k, m, x) <=> At(chain, q, k, m, x)
    BY <2>4
  <2> QED
    BY <1>1, <1>3, <1>4, <1>5, <2>2, <2>3, <2>5, <2>6, Zenon DEF Gentle
<1>7. CASE chain[p].tag # g /\ Passed(i, p, First(g, Len(chain[p].tag) + 1))
  <2>1. \A q \in Chains : Alive(chain', q) <=> Alive(chain, q)
    BY <1>1, <1>7, PassTree
  <2>2. frames'[c] = <<Frame(p, {})>> /\ pc'[c] = "descend"
    BY <1>7 DEF Passed
  <2>3. Upright(chain', frames'[c], call'[c])
    BY <1>1, <1>2, <2>1, <2>2, NothingHeld
  <2>4. \A q, k, m, x : At(chain', q, k, m, x) <=> At(chain, q, k, m, x)
    BY <1>7 DEF Passed, Touched, Grown
  <2>5. ~Waits(i)'
    BY <2>2 DEF Waits, Placed
  <2> QED
    BY <1>1, <1>3, <1>4, <1>5, <2>1, <2>3, <2>4, <2>5, Zenon DEF Gentle
<1> QED
  BY <1>6, <1>7 DEF Arrives

(* A reservation that is refused. *)
LEMMA RejectGentle ==
  ASSUME Inv, NEW i \in Items, Reject(i)
  PROVE  Gentle(Producer(i), {}, {})
<1> DEFINE c == Producer(i)
<1>1. c \in Coros
  BY CoroFacts
<1>2. /\ pc[c] = "new" /\ UNCHANGED <<chain, frames, call>>
      /\ pc' = [pc EXCEPT ![c] = "rejected"]
  BY DEF Reject
<1>3. Others(c) /\ pc'[c] = "rejected"
  BY <1>1, <1>2, PcPut, CallKept, FramesKept DEF Others
<1>4. frames[c] = <<>> /\ call[c] = NoCall
  BY <1>2 DEF Inv, Fits, ProducerFits
<1>5. Upright(chain, frames[c], call[c]) /\ Upright(chain, frames'[c], call'[c])
  BY <1>2, <1>4, NothingHeld
<1>6. ASSUME NEW x \in Items, c \in {Producer(x), Consumer(x)} PROVE Waits(x)' <=> Waits(x)
  <2>1. x = i
    BY <1>6, CoroFacts
  <2> QED
    BY <1>2, <1>3, <2>1 DEF Waits, Placed
<1> QED
  BY <1>1, <1>2, <1>3, <1>5, <1>6, StillGentle

(* A reservation is released. *)
LEMMA PopulateGentle ==
  ASSUME Inv, NEW i \in Items, Populate(i)
  PROVE  Gentle(Producer(i), {}, {})
<1> DEFINE c == Producer(i)
<1>1. c \in Coros
  BY CoroFacts
<1>2. /\ pc[c] = "reserved" /\ UNCHANGED <<chain, frames, call>>
      /\ pc' = [pc EXCEPT ![c] = "populated"]
  BY DEF Populate
<1>3. Others(c) /\ pc'[c] = "populated"
  BY <1>1, <1>2, PcPut, CallKept, FramesKept DEF Others
<1>4. frames[c] = <<>> /\ call[c] = NoCall
  BY <1>2 DEF Inv, Fits, ProducerFits
<1>5. Upright(chain, frames[c], call[c]) /\ Upright(chain, frames'[c], call'[c])
  BY <1>2, <1>4, NothingHeld
<1>6. ASSUME NEW x \in Items, c \in {Producer(x), Consumer(x)} PROVE Waits(x)' <=> Waits(x)
  <2>1. x = i /\ Consumer(x) \in Coros /\ Consumer(x) # c
    BY <1>6, CoroFacts
  <2>2. pc'[Consumer(x)] = pc[Consumer(x)]
    BY <1>3, <2>1 DEF Others
  <2> QED
    BY <1>2, <1>3, <2>1, <2>2 DEF Waits, Placed, Finalized
<1> QED
  BY <1>1, <1>2, <1>3, <1>5, <1>6, StillGentle

(* An item is taken. *)
LEMMA GetGentle ==
  ASSUME Inv, NEW i \in Items, Get(i)
  PROVE  Gentle(Consumer(i), {}, {})
<1> DEFINE c == Consumer(i)
<1>1. c \in Coros
  BY CoroFacts
<1>2. /\ pc[c] = "get" /\ UNCHANGED <<chain, frames, call>>
      /\ pc' = [pc EXCEPT ![c] = "retained"]
  BY DEF Get
<1>3. Others(c) /\ pc'[c] = "retained"
  BY <1>1, <1>2, PcPut, CallKept, FramesKept DEF Others
<1>4. frames[c] = <<>> /\ call[c] = NoCall
  BY <1>2 DEF Inv, Fits, ConsumerFits
<1>5. Upright(chain, frames[c], call[c]) /\ Upright(chain, frames'[c], call'[c])
  BY <1>2, <1>4, NothingHeld
<1>6. ASSUME NEW x \in Items, c \in {Producer(x), Consumer(x)} PROVE Waits(x)' <=> Waits(x)
  <2>1. x = i /\ Producer(x) \in Coros /\ Producer(x) # c
    BY <1>6, CoroFacts
  <2>2. pc'[Producer(x)] = pc[Producer(x)]
    BY <1>3, <2>1 DEF Others
  <2> QED
    BY <1>2, <1>3, <2>1, <2>2 DEF Waits, Placed, Finalized
<1> QED
  BY <1>1, <1>2, <1>3, <1>5, <1>6, StillGentle

-----------------------------------------------------------------------------
(* The parent of a living chain lives, or is the mutex above the root. *)
LEMMA ParentUp ==
  ASSUME Inv, NEW p \in Chains, Alive(chain, p)
  PROVE  Par(chain, p) # Meta => Alive(chain, Par(chain, p))
<1>1. Rooted(chain) /\ Par(chain, Root) = Meta
  BY DEF Inv, IsTree, Headed
<1> QED
  BY <1>1, AliveFacts DEF Chains

(* The frames of a coroutine with one frame more, or one instead. *)
LEMMA UprightFrames ==
  ASSUME NEW t, NEW fs, NEW ca, ca = NoCall,
         \A n \in DOMAIN fs : Alive(t, fs[n].chain)
  PROVE  Upright(t, fs, ca)
BY DEF Upright, NoCall

(* The parent of the item's chain is locked. *)
LEMMA FinalizeGentle ==
  ASSUME Inv, NEW i \in Items, Finalize(i)
  PROVE  Gentle(Consumer(i), {}, {})
<1> DEFINE c == Consumer(i)
           f == Frame(chain[Owner(i)].parent, {})
<1>1. c \in Coros
  BY CoroFacts
<1>2. /\ pc[c] = "retained" /\ Sound(c) /\ UNCHANGED <<chain, call>>
      /\ pc' = [pc EXCEPT ![c] = "finalize"]
      /\ frames' = [frames EXCEPT ![c] = <<f>>]
  BY DEF Finalize
<1>3. Owner(i) \in Chains /\ Alive(chain, Owner(i))
  BY <1>2, TakenFacts
<1>4. <<f>> \in Seq(FrameType) /\ f.chain = Par(chain, Owner(i))
  BY <1>3, RootedFacts, FrameTyped DEF Inv, IsTree, Chains
<1> HIDE DEF f
<1>5. Others(c) /\ pc'[c] = "finalize" /\ frames'[c] = <<f>>
  BY <1>1, <1>2, <1>4, PcPut, CallKept, FramesPut DEF Others
<1>6. Upright(chain, frames[c], call[c])
  BY <1>1, <1>2, SoundIs
<1>7. Upright(chain, frames'[c], call'[c])
  BY <1>2, <1>3, <1>4, <1>5, <1>6, ParentUp DEF Upright
<1>8. ASSUME NEW x \in Items, c \in {Producer(x), Consumer(x)} PROVE Waits(x)' <=> Waits(x)
  <2>1. x = i /\ Producer(x) \in Coros /\ Producer(x) # c
    BY <1>8, CoroFacts
  <2>2. pc'[Producer(x)] = pc[Producer(x)]
    BY <1>5, <2>1 DEF Others
  <2> QED
    BY <1>2, <1>5, <2>1, <2>2 DEF Waits, Placed, Finalized
<1> QED
  BY <1>1, <1>2, <1>5, <1>6, <1>7, <1>8, StillGentle

(* A consumer past the pop of its item, which the tree does not change for. *)
LEMMA PastGentle ==
  ASSUME Inv, NEW i \in Items, Sound(Consumer(i)), Others(Consumer(i)), UNCHANGED chain,
         pc[Consumer(i)] \in {"activate", "remove", "find", "compare"},
         pc'[Consumer(i)] \in {"activate", "find", "compare", "finalized"},
         Upright(chain, frames'[Consumer(i)], call'[Consumer(i)])
  PROVE  Gentle(Consumer(i), {}, {})
<1> DEFINE c == Consumer(i)
<1>1. c \in Coros
  BY CoroFacts
<1>2. Upright(chain, frames[c], call[c])
  BY <1>1, SoundIs
<1>3. ASSUME NEW x \in Items, c \in {Producer(x), Consumer(x)} PROVE Waits(x)' <=> Waits(x)
  <2>1. x = i
    BY <1>3, CoroFacts
  <2> QED
    BY <2>1 DEF Waits, Finalized
<1> QED
  BY <1>1, <1>2, <1>3, StillGentle

(* remove_child locks the parent of the chain. *)
LEMMA RemoveGentle ==
  ASSUME Inv, NEW i \in Items, RemoveChild(i)
  PROVE  Gentle(Consumer(i), {}, {})
<1> DEFINE c == Consumer(i)
           f == Frame(chain[call[c].on].parent, {})
<1>1. c \in Coros
  BY CoroFacts
<1>2. /\ pc[c] = "remove" /\ Sound(c) /\ UNCHANGED <<chain, call>>
      /\ pc' = [pc EXCEPT ![c] = "find"]
      /\ frames' = [frames EXCEPT ![c] = <<f>>]
  BY DEF RemoveChild
<1>3. call[c].on \in Chains
  BY <1>2 DEF Inv, Fits, ConsumerFits, Removing, Chains
<1>4. Alive(chain, call[c].on)
  BY <1>1, <1>2, <1>3, SoundFacts DEF Inv
<1>5. <<f>> \in Seq(FrameType) /\ f.chain = Par(chain, call[c].on)
  BY <1>3, RootedFacts, FrameTyped DEF Inv, IsTree, Chains
<1> HIDE DEF f
<1>6. Others(c) /\ pc'[c] = "find" /\ frames'[c] = <<f>>
  BY <1>1, <1>2, <1>5, PcPut, CallKept, FramesPut DEF Others
<1>7. Upright(chain, frames'[c], call'[c])
  BY <1>2, <1>3, <1>4, <1>5, <1>6, ParentUp DEF Upright
<1> QED
  BY <1>2, <1>6, <1>7, PastGentle

(* remove_child locks the chain and looks the child up. *)
LEMMA FindGentle ==
  ASSUME Inv, NEW i \in Items, FindChild(i)
  PROVE  Gentle(Consumer(i), {}, {})
<1> DEFINE c == Consumer(i)
           p == call[c].on
           fs == Append(frames[c], Frame(p, {}))
<1>1. c \in Coros
  BY CoroFacts
<1>2. /\ pc[c] = "find" /\ Sound(c) /\ UNCHANGED chain
      /\ \/ Finish(c)
         \/ /\ frames' = [frames EXCEPT ![c] = fs]
            /\ pc' = [pc EXCEPT ![c] = "compare"]
            /\ UNCHANGED call
  BY DEF FindChild
<1>3. CASE Finish(c)
  <2>1. Others(c) /\ Ends(c)
    BY <1>1, <1>3, EndsFacts
  <2>2. Upright(chain, frames'[c], call'[c])
    BY <2>1, NothingHeld DEF Ends
  <2> QED
    BY <1>2, <2>1, <2>2, PastGentle DEF Ends
<1>4. CASE /\ frames' = [frames EXCEPT ![c] = fs]
           /\ pc' = [pc EXCEPT ![c] = "compare"]
           /\ UNCHANGED call
  <2>1. p \in Chains /\ frames[c] \in Seq(FrameType)
    BY <1>1, <1>2 DEF Inv, Types, Fits, ConsumerFits, Removing, Chains
  <2>2. Alive(chain, p) /\ Upright(chain, frames[c], call[c])
    BY <1>1, <1>2, <2>1, SoundFacts, SoundIs DEF Inv
  <2>3. Frame(p, {}) \in FrameType /\ Frame(p, {}).chain = p
    BY <2>1, RootedFacts, FrameTyped DEF Inv, IsTree, Chains
  <2>4. /\ fs \in Seq(FrameType)
        /\ \A n \in DOMAIN fs : \/ n \in DOMAIN frames[c] /\ fs[n] = frames[c][n]
                                \/ fs[n] = Frame(p, {})
    BY <2>1, <2>3, AddedTop
  <2> HIDE DEF fs
  <2>5. Others(c) /\ pc'[c] = "compare" /\ frames'[c] = fs
    BY <1>1, <1>4, <2>4, PcPut, CallKept, FramesPut DEF Others
  <2>6. Upright(chain, frames'[c], call'[c])
    BY <1>4, <2>2, <2>3, <2>4, <2>5 DEF Upright
  <2> QED
    BY <1>2, <2>5, <2>6, PastGentle
<1> QED
  BY <1>2, <1>3, <1>4

-----------------------------------------------------------------------------
(* The next child is activated, or the frame below is next. *)
LEMMA ActivateGentle ==
  ASSUME Inv, NEW i \in Items, Activate(i)
  PROVE  Gentle(Consumer(i), {}, {})
<1> DEFINE c == Consumer(i)
           fs == frames[c]
<1>1. c \in Coros
  BY CoroFacts
<1>2. pc[c] = "activate" /\ Sound(c)
  BY DEF Activate
<1>3. /\ fs \in Seq(FrameType) /\ fs # <<>> /\ \A n \in DOMAIN fs : Alive(chain, fs[n].chain)
  BY <1>2, AwakenFacts DEF Awaken
<1>4. CASE GoesUp(i)
  <2>1. UNCHANGED chain /\ Others(c) /\ (Ends(c) \/ Wakes(c, Front(fs)))
    BY <1>4 DEF GoesUp
  <2>2. CASE Ends(c)
    <3>1. Upright(chain, frames'[c], call'[c])
      BY <2>2, NothingHeld DEF Ends
    <3> QED
      BY <1>2, <2>1, <2>2, <3>1, PastGentle DEF Ends
  <2>3. CASE Wakes(c, Front(fs))
    <3>1. \A n \in DOMAIN Front(fs) : n \in DOMAIN fs /\ Front(fs)[n] = fs[n]
      <4> HIDE DEF fs
      <4>1. /\ DOMAIN fs = 1..Len(fs) /\ Len(fs) \in Nat
            /\ DOMAIN Front(fs) = 1..(Len(fs) - 1)
            /\ \A n \in 1..(Len(fs) - 1) : Front(fs)[n] = fs[n]
        BY <1>3, FrontFacts
      <4> QED
        BY <4>1
    <3>2. Upright(chain, frames'[c], call'[c])
      BY <1>3, <2>3, <3>1, UprightFrames DEF Wakes
    <3> QED
      BY <1>2, <2>1, <2>3, <3>2, PastGentle DEF Wakes
  <2> QED
    BY <2>1, <2>2, <2>3
<1>5. ASSUME NEW d, GoesDown(i, d) PROVE Gentle(c, {}, {})
  <2>1. /\ d \in Last(fs).todo /\ d \in Chains /\ Alive(chain, d)
        /\ Marked(chain, chain', d) /\ Others(c)
        /\ Wakes(c, Relieved(fs, d)) \/ Wakes(c, Append(Relieved(fs, d), Frame(d, Chi(chain', d, 1))))
    BY <1>5 DEF GoesDown
  <2>2. /\ \A q \in Chains : Alive(chain', q) <=> Alive(chain, q)
        /\ Rooted(chain') /\ DOMAIN chain' = Chains
        /\ \A q \in Chains : Count(chain', q) = Count(chain, q)
    <3>1. \A q \in DOMAIN chain : Count(chain', q) > 0 <=> Count(chain, q) > 0
      BY <2>1 DEF Marked
    <3> QED
      BY <2>1, <3>1, SameAlive DEF Inv, IsTree, Chains, Marked, Same
  <2>3. /\ Relieved(fs, d) \in Seq(FrameType)
        /\ \A n \in DOMAIN Relieved(fs, d) :
             \/ n \in DOMAIN fs /\ Relieved(fs, d)[n] = fs[n]
             \/ Relieved(fs, d)[n].chain = Last(fs).chain
    <3> DEFINE f == Frame(Last(fs).chain, Last(fs).todo \ {d})
    <3>1. Last(fs) \in FrameType
      BY <1>3, FrontFacts
    <3>2. f \in FrameType /\ f.chain = Last(fs).chain
      BY <3>1 DEF FrameType, Frame
    <3> HIDE DEF f
    <3>3. /\ Append(Front(fs), f) \in Seq(FrameType)
          /\ \A n \in DOMAIN Append(Front(fs), f) :
               \/ n \in DOMAIN fs /\ Append(Front(fs), f)[n] = fs[n]
               \/ Append(Front(fs), f)[n] = f
      BY <1>3, <3>2, ReplacedTop
    <3> QED
      BY <3>2, <3>3 DEF Relieved, f
  <2>4. \A n \in DOMAIN Relieved(fs, d) : Alive(chain, Relieved(fs, d)[n].chain)
    <3>1. Len(fs) \in DOMAIN fs /\ Last(fs) = fs[Len(fs)]
      <4>1. Len(fs) \in Nat \ {0} /\ Last(fs) = fs[Len(fs)]
        BY <1>3, FrontFacts
      <4>2. DOMAIN fs = 1..Len(fs)
        BY <1>3
      <4> QED
        BY <4>1, <4>2
    <3> QED
      BY <1>3, <2>3, <3>1
  <2>5. \A p \in Nat : Alive(chain, p) /\ p \in Chains => Alive(chain', p)
    BY <2>2
  <2>6. \A n \in DOMAIN fs : fs[n].chain \in Chains
    BY <1>2 DEF Inv, Fits, ConsumerFits, Awakening, Chains
  <2>7. \A n \in DOMAIN Relieved(fs, d) : Alive(chain', Relieved(fs, d)[n].chain)
    <3>1. Len(fs) \in DOMAIN fs /\ Last(fs) = fs[Len(fs)]
      <4>1. Len(fs) \in Nat \ {0} /\ Last(fs) = fs[Len(fs)]
        BY <1>3, FrontFacts
      <4>2. DOMAIN fs = 1..Len(fs)
        BY <1>3
      <4> QED
        BY <4>1, <4>2
    <3>2. \A n \in DOMAIN Relieved(fs, d) : Relieved(fs, d)[n].chain \in Chains
      BY <2>3, <2>6, <3>1
    <3> QED
      BY <2>2, <2>4, <3>2
  <2>8. Upright(chain', frames'[c], call'[c]) /\ pc'[c] = "activate"
    <3>1. CASE Wakes(c, Relieved(fs, d))
      BY <2>7, <3>1, UprightFrames DEF Wakes
    <3>2. CASE Wakes(c, Append(Relieved(fs, d), Frame(d, Chi(chain', d, 1))))
      <4> DEFINE f == Frame(d, Chi(chain', d, 1))
      <4>1. f.chain = d /\ Alive(chain', d)
        BY <2>1, <2>2 DEF Frame
      <4>2. f \in FrameType
        <5>1. d \in DOMAIN chain' /\ 1 \in 1..Count(chain', d)
          <6>1. Count(chain, d) > 0
            BY <2>1, AliveFacts, RootedFacts DEF Inv, IsTree, Chains
          <6> QED
            BY <2>1, <2>2, <6>1, RootedFacts DEF Inv, IsTree, Chains
        <5>2. Chi(chain', d, 1) \in SUBSET Nat /\ d \in Nat
          BY <2>1, <2>2, <5>1, RootedFacts
        <5> QED
          BY <5>2, FrameTyped
      <4> HIDE DEF f
      <4> DEFINE gs == Append(Relieved(fs, d), f)
      <4>3. \A n \in DOMAIN gs : \/ n \in DOMAIN Relieved(fs, d) /\ gs[n] = Relieved(fs, d)[n]
                                 \/ gs[n] = f
        BY <2>3, <4>2, AddedTop
      <4>4. Wakes(c, gs)
        BY <3>2 DEF f
      <4> HIDE DEF gs
      <4>5. \A n \in DOMAIN gs : Alive(chain', gs[n].chain)
        BY <2>7, <4>1, <4>3
      <4> QED
        BY <4>4, <4>5, UprightFrames DEF Wakes
    <3> QED
      BY <2>1, <3>1, <3>2
  <2>9. ~Waits(i) /\ ~Waits(i)'
    BY <1>2, <2>8 DEF Waits, Finalized
  <2>10. \A q, k, m, x : At(chain', q, k, m, x) <=> At(chain, q, k, m, x)
    BY <2>1 DEF Marked
  <2> QED
    BY <1>2, <2>1, <2>2, <2>8, <2>9, <2>10, ConsumeGentle
<1> QED
  BY <1>4, <1>5, ActivateFate

-----------------------------------------------------------------------------
(* The item is popped. *)
LEMMA PopGentle ==
  ASSUME Inv, NEW i \in Items, PopItem(i)
  PROVE  Gentle(Consumer(i), {}, {})
<1> DEFINE c == Consumer(i)
<1>1. PICK p : PopsFrom(i, p)
  BY PopItemFate
<1>2. /\ Sound(c) /\ At(chain, p, 1, 1, i) /\ p \in Chains /\ Alive(chain, p)
      /\ Popped(chain, chain', p) /\ Others(c)
      /\ Ends(c) \/ Wakes(c, <<Frame(p, Chi(chain', p, 1))>>) \/ (p # Root /\ Cleans(c, p))
  BY <1>1 DEF PopsFrom
<1>3. IsTree(chain') /\ \A q \in Chains : Alive(chain', q) <=> Alive(chain, q)
  BY <1>2, PoppedTree DEF Inv, Chains
<1>4. c \in Coros /\ IsTree(chain)
  BY CoroFacts DEF Inv
<1>5. /\ Upright(chain', frames'[c], call'[c])
      /\ pc'[c] \in {"finalized", "activate", "remove"}
  <2>1. CASE Ends(c)
    BY <2>1, NothingHeld DEF Ends
  <2>2. CASE Wakes(c, <<Frame(p, Chi(chain', p, 1))>>)
    BY <1>2, <1>3, <2>2, NothingHeld DEF Wakes
  <2>3. CASE p # Root /\ Cleans(c, p)
    <3>1. p \in DOMAIN chain' /\ Rooted(chain')
      BY <1>2, <1>3 DEF Popped, Same, Chains, IsTree
    <3>2. Alive(chain', Par(chain', p))
      BY <1>2, <1>3, <2>3, <3>1, AliveFacts
    <3> QED
      BY <2>3, <3>2 DEF Cleans, Upright
  <2> QED
    BY <1>2, <2>1, <2>2, <2>3
<1>6. ~Waits(i)'
  BY <1>5 DEF Waits, Finalized
<1>7. There(chain, i)
  BY <1>2 DEF There
<1>8. ASSUME NEW x, NEW q, x # i
      PROVE  (\E k, m : At(chain', q, k, m, x)) <=> \E k, m : At(chain, q, k, m, x)
  <2>1. /\ \A k, m : q # p \/ k # 1 => (At(chain', q, k, m, x) <=> At(chain, q, k, m, x))
        /\ \A m : At(chain', p, 1, m, x) <=> m \in Nat /\ 1 <= m /\ At(chain, p, 1, m + 1, x)
    BY <1>2 DEF Popped
  <2>2. ASSUME NEW m, At(chain, p, 1, m, x) PROVE \E n : At(chain', p, 1, n, x)
    <3>1. m \in Nat /\ 1 <= m /\ m # 1
      BY <1>2, <1>4, <1>8, <2>2, AtFacts DEF IsTree
    <3>2. m - 1 \in Nat /\ 1 <= m - 1 /\ (m - 1) + 1 = m
      BY <3>1
    <3>3. At(chain', p, 1, m - 1, x)
      BY <2>1, <2>2, <3>2
    <3> QED
      BY <3>3
  <2>3. ASSUME NEW k, NEW m, At(chain, q, k, m, x) PROVE \E l, n : At(chain', q, l, n, x)
    <3>1. CASE q = p /\ k = 1
      BY <2>2, <2>3, <3>1
    <3>2. CASE q # p \/ k # 1
      BY <2>1, <2>3, <3>2
    <3> QED
      BY <3>1, <3>2
  <2>4. ASSUME NEW k, NEW m, At(chain', q, k, m, x) PROVE \E l, n : At(chain, q, l, n, x)
    <3>1. CASE q = p /\ k = 1
      BY <2>1, <2>4, <3>1
    <3>2. CASE q # p \/ k # 1
      BY <2>1, <2>4, <3>2
    <3> QED
      BY <3>1, <3>2
  <2> QED
    BY <2>3, <2>4
<1> QED
  BY <1>2, <1>3, <1>5, <1>6, <1>7, <1>8, ConsumeGentle

-----------------------------------------------------------------------------
(* the chains at and below d *)
Under(d) == {q \in Chains : d \in Line(chain, q)}

(* A child is erased, or not: only what is below it goes, unless the        *)
(* segment goes too and has items still.                                    *)
LEMMA RemovesGentle ==
  ASSUME Inv, NEW i \in Items, NEW p, NEW d, Removes(i, p, d)
  PROVE  \/ FrontOf(d).version # call[Consumer(i)].version /\ Gentle(Consumer(i), {}, {})
         \/ /\ FrontOf(d).version = call[Consumer(i)].version
            /\ \E L : /\ Gentle(Consumer(i), Under(d), L)
                      /\ \A q \in L : q \in Under(d) \/ (q = p /\ ~Bare(chain, p))
<1> DEFINE c == Consumer(i)
<1>1. /\ pc[c] = "compare" /\ Sound(c) /\ p = call[c].on
      /\ p \in Chains /\ Alive(chain, p) /\ On(chain, p, 1) /\ Count(chain, p) > 0
      /\ d \in Chains /\ d # Root /\ d # p /\ Kid(chain, p, 1, d) /\ Others(c)
  BY DEF Removes
<1>2. c \in Coros /\ IsTree(chain) /\ Rooted(chain) /\ Linked(chain)
  BY CoroFacts DEF Inv, IsTree
<1>3. CASE FrontOf(d).version # call[c].version
  <2>1. UNCHANGED chain /\ Ends(c)
    BY <1>3 DEF Removes
  <2>2. Upright(chain, frames'[c], call'[c])
    BY <2>1, NothingHeld DEF Ends
  <2>3. Gentle(c, {}, {})
    BY <1>1, <2>1, <2>2, PastGentle DEF Ends
  <2> QED
    BY <1>3, <2>3
<1>4. ASSUME FrontOf(d).version = call[c].version,
             Upright(chain', frames'[c], call'[c]), pc'[c] \in {"remove", "finalized"},
             \A q \in Chains : Alive(chain', q) <=> Alive(chain, q) /\ d \notin Line(chain, q),
             NEW L, \A x, q :
               /\ (\E k, m : At(chain', q, k, m, x)) => \E k, m : At(chain, q, k, m, x)
               /\ (\E k, m : At(chain, q, k, m, x)) => q \in L \/ \E k, m : At(chain', q, k, m, x)
      PROVE  Gentle(c, Under(d), L)
  <2>1. ~Waits(i) /\ ~Waits(i)'
    BY <1>1, <1>4 DEF Waits, Finalized
  <2>2. \A q \in Chains : /\ Alive(chain', q) => Alive(chain, q)
                          /\ Alive(chain, q) => Alive(chain', q) \/ q \in Under(d)
    BY <1>4 DEF Under
  <2> QED
    BY <1>1, <1>4, <2>1, <2>2, ConsumeGentle
<1>5. d \in Under(d) /\ d \notin Line(chain, p)
  <2>1. Par(chain, d) = p /\ p < d
    BY <1>1, <1>2, RootedFacts DEF Linked, Chains
  <2>2. \A q \in Line(chain, p) : q <= p
    BY <1>1, <1>2, LineFacts DEF Chains
  <2>3. d \in Line(chain, d)
    BY <1>1, <1>2, LineFacts DEF Chains
  <2>4. p \in Nat /\ d \in Nat
    BY <1>1, <1>2, RootedFacts DEF Chains
  <2> QED
    BY <1>1, <2>1, <2>2, <2>3, <2>4 DEF Under
<1>6. CASE /\ FrontOf(d).version = call[c].version
           /\ Cut(chain, chain', p, d)
           /\ (\E e : e # d /\ Kid(chain, p, 1, e)) \/ Count(chain, p) = 1
           /\ Ends(c) \/ (p # Root /\ Cleans(c, p))
  <2>1. /\ IsTree(chain')
        /\ \A q \in Chains : Alive(chain', q) <=> Alive(chain, q) /\ d \notin Line(chain, q)
    BY <1>1, <1>2, <1>6, CutTree DEF Chains
  <2>2. Alive(chain', p)
    BY <1>1, <1>5, <2>1
  <2>3. Upright(chain', frames'[c], call'[c]) /\ pc'[c] \in {"remove", "finalized"}
    <3>1. CASE Ends(c)
      BY <3>1, NothingHeld DEF Ends
    <3>2. CASE p # Root /\ Cleans(c, p)
      <4>1. p \in DOMAIN chain' /\ Rooted(chain')
        BY <1>1, <1>6, <2>1 DEF Cut, Same, Chains, IsTree
      <4>2. Alive(chain', Par(chain', p))
        BY <2>2, <3>2, <4>1, AliveFacts
      <4> QED
        BY <3>2, <4>2 DEF Cleans, Upright
    <3> QED
      BY <1>6, <3>1, <3>2
  <2>4. \A q, k, m, x : At(chain', q, k, m, x) <=> q # d /\ At(chain, q, k, m, x)
    BY <1>6 DEF Cut
  <2>5. \A x, q :
          /\ (\E k, m : At(chain', q, k, m, x)) => \E k, m : At(chain, q, k, m, x)
          /\ (\E k, m : At(chain, q, k, m, x)) => q \in Under(d) \/ \E k, m : At(chain', q, k, m, x)
    BY <1>5, <2>4
  <2>6. Gentle(c, Under(d), Under(d))
    BY <1>4, <1>6, <2>1, <2>3, <2>5
  <2> QED
    BY <1>6, <2>6
<1>7. CASE /\ FrontOf(d).version = call[c].version
           /\ Moved(chain, chain', p, d) /\ \A e : Kid(chain, p, 1, e) => e = d
           /\ Ends(c)
  <2>1. \A q \in Chains : Alive(chain', q) <=> Alive(chain, q) /\ d \notin Line(chain, q)
    BY <1>1, <1>2, <1>7, MovedTree DEF Chains
  <2>2. Upright(chain', frames'[c], call'[c]) /\ pc'[c] \in {"remove", "finalized"}
    BY <1>7, NothingHeld DEF Ends
  <2> DEFINE L == {q \in Chains : q \in Under(d) \/ (q = p /\ ~Bare(chain, p))}
  <2>3. /\ \A q, k, m, x : q # p => (At(chain', q, k, m, x) <=> q # d /\ At(chain, q, k, m, x))
        /\ \A k, m, x : At(chain', p, k, m, x) <=> k \in Nat /\ 1 <= k /\ At(chain, p, k + 1, m, x)
    BY <1>7 DEF Moved
  <2>4. ASSUME NEW x, NEW k, NEW m, At(chain, p, k, m, x), Bare(chain, p)
        PROVE  \E l, n : At(chain', p, l, n, x)
    <3>1. k \in Nat /\ 1 <= k /\ \E y \in Items : At(chain, p, k, 1, y)
      BY <1>2, <2>4, AtFacts
    <3>2. k # 1
      BY <2>4, <3>1 DEF Bare
    <3>3. k - 1 \in Nat /\ 1 <= k - 1 /\ (k - 1) + 1 = k
      BY <3>1, <3>2
    <3>4. At(chain', p, k - 1, m, x)
      BY <2>3, <2>4, <3>3
    <3> QED
      BY <3>4
  <2>5. ASSUME NEW x, NEW q
        PROVE  /\ (\E k, m : At(chain', q, k, m, x)) => \E k, m : At(chain, q, k, m, x)
               /\ (\E k, m : At(chain, q, k, m, x)) => q \in L \/ \E k, m : At(chain', q, k, m, x)
    <3>1. CASE q = p
      BY <1>1, <2>3, <2>4, <3>1
    <3>2. CASE q # p
      BY <1>5, <2>3, <3>2 DEF Under
    <3> QED
      BY <3>1, <3>2
  <2>6. \A q \in L : q \in Under(d) \/ (q = p /\ ~Bare(chain, p))
    OBVIOUS
  <2> HIDE DEF L
  <2>7. Gentle(c, Under(d), L)
    BY <1>4, <1>7, <2>1, <2>2, <2>5
  <2> QED
    BY <1>7, <2>6, <2>7
<1> QED
  BY <1>3, <1>6, <1>7, Zenon DEF Removes

-----------------------------------------------------------------------------
(* The recursive function that Subtree is read from. *)
LEMMA SubtreeIsUnder ==
  ASSUME IsTree(chain), NEW p \in Chains
  PROVE  Subtree(p) = Under(p)
<1>1. /\ Chains = 1..Len(chain) /\ Len(chain) \in Nat /\ Root \in Chains /\ chain[Root].parent = Meta
      /\ \A q \in Chains \ {Root} : chain[q].parent \in 1..(q - 1) /\ chain[q].parent \in Chains
      /\ Rooted(chain)
  BY DEF Rooted, Par, Chains, IsTree, Headed
<1> DEFINE Is(f) == f = [q \in Chains |->
                     q = p \/ (chain[q].parent # Meta /\ f[chain[q].parent])]
           g == [q \in Chains |-> p \in Line(chain, q)]
<1>2. \A q \in Chains : g[q] = (q = p \/ (chain[q].parent # Meta /\ g[chain[q].parent]))
  <2> SUFFICES ASSUME NEW q \in Chains
               PROVE  g[q] = (q = p \/ (chain[q].parent # Meta /\ g[chain[q].parent]))
    OBVIOUS
  <2>1. g[q] = (p \in Line(chain, q))
        /\ (q # Root => g[chain[q].parent] = (p \in Line(chain, chain[q].parent)))
    BY <1>1
  <2>2. /\ q # Root => Line(chain, q) = {q} \cup Line(chain, chain[q].parent)
        /\ Line(chain, Root) = {Root}
    BY <1>1, LineFacts DEF Chains, Par
  <2>3. q # Root => chain[q].parent # Meta
    BY <1>1 DEF Meta
  <2> HIDE DEF g
  <2>4. CASE q = Root
    BY <1>1, <2>1, <2>2, <2>4
  <2>5. CASE q # Root
    <3>1. p \in Line(chain, q) <=> (q = p \/ p \in Line(chain, chain[q].parent))
      BY <2>2, <2>5
    <3> DEFINE L(r) == p \in Line(chain, r)
    <3>2. /\ g[q] = L(q) /\ g[chain[q].parent] = L(chain[q].parent) /\ chain[q].parent # Meta
          /\ L(q) <=> (q = p \/ L(chain[q].parent))
      BY <2>1, <2>3, <2>5, <3>1
    <3>3. L(q) \in BOOLEAN /\ L(chain[q].parent) \in BOOLEAN
      OBVIOUS
    <3> HIDE DEF L
    <3> QED
      BY <3>2, <3>3
  <2> QED
    BY <2>4, <2>5
<1>3. Is(g)
  <2> DEFINE h == [q \in Chains |-> q = p \/ (chain[q].parent # Meta /\ g[chain[q].parent])]
  <2>1. \A q \in Chains : g[q] = h[q]
    <3> HIDE DEF g
    <3> QED
      BY <1>2
  <2>2. g = [q \in Chains |-> g[q]] /\ h = [q \in Chains |-> h[q]]
    OBVIOUS
  <2> HIDE DEF g, h
  <2>3. g = h
    BY <2>1, <2>2, Zenon
  <2> QED
    BY <2>3 DEF h
<1> DEFINE f == CHOOSE f : Is(f)
<1>4. Is(f)
  <2> HIDE DEF g
  <2> QED
    BY <1>3
<1> HIDE DEF f
<1>5. \A q \in Chains : f[q] = (q = p \/ (chain[q].parent # Meta /\ f[chain[q].parent]))
  BY <1>4
<1>6. g = [q \in Chains |-> p \in Line(chain, q)]
  OBVIOUS
<1> HIDE DEF g
<1>7. ASSUME \E q \in Chains : f[q] # g[q] PROVE FALSE
  <2> DEFINE W == {q \in Chains : f[q] # g[q]}
  <2>1. PICK m \in W : \A n \in W : m <= n
    <3>1. W \in SUBSET Nat /\ W # {}
      BY <1>1, <1>7
    <3> HIDE DEF W
    <3> QED
      BY <3>1, LeastNatural
  <2>2. m \in Chains /\ m \in Nat /\ (m # Root => chain[m].parent \in Chains /\ chain[m].parent \in Nat /\ ~(m <= chain[m].parent))
    BY <1>1
  <2>3. m # Root => f[chain[m].parent] = g[chain[m].parent]
    BY <2>1, <2>2
  <2>4. f[m] = g[m]
    BY <1>1, <1>2, <1>5, <2>2, <2>3
  <2> QED
    BY <2>1, <2>4
<1>8. Subtree(p) = {q \in Chains : f[q]}
  BY DEF Subtree, f
<1>9. \A q \in Chains : f[q] <=> p \in Line(chain, q)
  BY <1>6, <1>7
<1> QED
  BY <1>8, <1>9 DEF Under

(* Nothing lives below a chain whose front segment is empty. *)
LEMMA EmptyBelow ==
  ASSUME NEW t, IsTree(t), NEW d \in DOMAIN t, Count(t, d) > 0,
         Bare(t, d), \A e : ~Kid(t, d, 1, e)
  PROVE  /\ \A k, m, x : ~At(t, d, k, m, x)
         /\ \A q \in DOMAIN t : d \in Line(t, q) /\ Alive(t, q) => q = d
<1>1. Rooted(t) /\ Count(t, d) \in Nat /\ Forked(t)
  BY RootedFacts DEF IsTree
<1>2. Count(t, d) = 1
  <2>1. ~(1 < Count(t, d))
    BY <1>1 DEF Forked
  <2> QED
    BY <1>1, <2>1
<1>3. \A k, m, x : ~At(t, d, k, m, x)
  <2> SUFFICES ASSUME NEW k, NEW m, NEW x, At(t, d, k, m, x) PROVE FALSE
    OBVIOUS
  <2>1. k \in Nat /\ 1 <= k /\ k <= Count(t, d) /\ \E y \in Items : At(t, d, k, 1, y)
    BY <1>1, AtFacts
  <2> QED
    BY <1>2, <2>1 DEF Bare
<1>4. ASSUME NEW q \in DOMAIN t, d \in Line(t, q), Alive(t, q), q # d PROVE FALSE
  <2>1. PICK e \in Line(t, q) : e # Root /\ Par(t, e) = d
    BY <1>1, <1>4, LineChild
  <2>2. PICK k : Kid(t, d, k, e)
    BY <1>4, <2>1, AboveFacts
  <2>3. k \in Nat /\ 1 <= k /\ k <= Count(t, d)
    BY <1>1, <2>2, AtFacts
  <2>4. k = 1
    BY <1>2, <2>3
  <2> QED
    BY <2>2, <2>4
<1> QED
  BY <1>3, <1>4

(* A removal that is not of a chain in use destroys nothing in use. *)
LEMMA FreshRemoval ==
  ASSUME Inv, Whole, NEW i \in Items, EraseChild(i), ~Reused(i)
  PROVE  Whole'
<1> DEFINE c == Consumer(i)
<1>1. PICK p, d : Removes(i, p, d)
  BY EraseChildFate
<1>2. /\ pc[c] = "compare" /\ p = call[c].on
      /\ p \in Chains /\ Alive(chain, p) /\ d \in Chains /\ Kid(chain, p, 1, d)
      /\ d \in Find(FrontOf(p), call[c].tag) /\ Free(d)
  BY <1>1 DEF Removes
<1>3. c \in Coros /\ IsTree(chain) /\ Rooted(chain) /\ Linked(chain)
  BY CoroFacts DEF Inv, IsTree
<1>4. CASE Gentle(c, {}, {})
  BY <1>3, <1>4, WholeOn
<1>5. ASSUME FrontOf(d).version = call[c].version, NEW L, Gentle(c, Under(d), L),
             \A q \in L : q \in Under(d) \/ (q = p /\ ~Bare(chain, p))
      PROVE  Whole'
  <2>1. /\ d = call[c].child /\ FrontOf(d).siblings = <<>> /\ FrontOf(d).children = {}
        /\ \A j \in Items \ {i} : call[Consumer(j)].on \notin Subtree(d)
    BY <1>2, <1>5 DEF Reused
  <2>2. Bare(chain, p)
    BY <1>2, <2>1 DEF Inv, Fits, ConsumerFits, Removing, Ended
  <2>3. /\ Count(chain, d) > 0 /\ Count(chain, d) \in Nat
        /\ FrontOf(d) = chain[d].segments[1]
    <3>1. Count(chain, d) > 0 /\ Count(chain, d) \in Nat /\ chain[d].segments # <<>>
      BY <1>2, <1>3, RootedFacts DEF Linked, Chains
    <3>2. chain[d].segments \in Seq(SegmentType)
      BY <1>2, <1>3, RootedFacts DEF Chains
    <3> QED
      BY <3>1, <3>2 DEF FrontOf
  <2>4. Bare(chain, d) /\ \A e : ~Kid(chain, d, 1, e)
    BY <2>1, <2>3 DEF Bare, At, Kid, Sib, Chi
  <2>5. /\ \A k, m, x : ~At(chain, d, k, m, x)
        /\ \A q \in Chains : q \in Under(d) /\ Alive(chain, q) => q = d
    BY <1>2, <1>3, <2>3, <2>4, EmptyBelow DEF Under, Chains
  <2>6. \A x \in Items, q \in Under(d) \cup L : Alive(chain, q) => \A k, m : ~At(chain, q, k, m, x)
    BY <1>5, <2>2, <2>5 DEF Under
  <2>7. ASSUME NEW e \in Coros, e # c
        PROVE  /\ \A n \in DOMAIN frames[e] : frames[e][n].chain \notin Under(d)
               /\ call[e].on \notin Under(d)
    <3>1. Meta \notin Chains
      BY <1>3, RootedFacts DEF Meta, Chains
    <3>2. \A q \in Under(d) : q \in Chains /\ q # Meta
      BY <3>1 DEF Under
    <3>3. Upright(chain, frames[e], call[e])
      BY DEF Whole
    <3>4. ASSUME NEW n \in DOMAIN frames[e], frames[e][n].chain \in Under(d) PROVE FALSE
      <4>1. Alive(chain, frames[e][n].chain)
        BY <3>2, <3>3, <3>4 DEF Upright
      <4>2. frames[e][n].chain = d
        BY <2>5, <3>2, <3>4, <4>1
      <4> QED
        BY <1>2, <4>2, FreeFacts
    <3>5. ASSUME call[e].on \in Under(d) PROVE FALSE
      <4>1. PICK j \in Items : e = Producer(j) \/ e = Consumer(j)
        BY CoroFacts
      <4>2. CASE e = Producer(j)
        <5>1. call[e].on = Meta
          BY <4>2 DEF Inv, Fits, ProducerFits, NoCall
        <5> QED
          BY <3>2, <3>5, <5>1
      <4>3. CASE e = Consumer(j)
        <5>1. j # i
          BY <2>7, <4>3
        <5>2. call[e].on \in Subtree(d)
          BY <1>2, <1>3, <3>5, SubtreeIsUnder
        <5> QED
          BY <2>1, <4>3, <5>1, <5>2
      <4> QED
        BY <4>1, <4>2, <4>3
    <3> QED
      BY <3>4, <3>5
  <2> QED
    BY <1>3, <1>5, <2>6, <2>7, WholeOn
<1>6. \/ Gentle(c, {}, {})
      \/ /\ FrontOf(d).version = call[c].version
         /\ \E L : /\ Gentle(c, Under(d), L)
                   /\ \A q \in L : q \in Under(d) \/ (q = p /\ ~Bare(chain, p))
  BY <1>1, RemovesGentle
<1> QED
  BY <1>4, <1>5, <1>6

(* What the steps other than removals destroy: nothing. *)
LEMMA StepGentle ==
  ASSUME Inv, [Next]_vars
  PROVE  \/ UNCHANGED <<chain, frames, call, pc>>
         \/ \E c \in Coros : Gentle(c, {}, {})
         \/ \E i \in Items : EraseChild(i)
<1> DEFINE Goal == \/ UNCHANGED <<chain, frames, call, pc>>
                   \/ \E c \in Coros : Gentle(c, {}, {})
                   \/ \E i \in Items : EraseChild(i)
<1>0. \A i \in Items : Producer(i) \in Coros /\ Consumer(i) \in Coros
  BY CoroFacts
<1>1. ASSUME NEW i \in Items, NEW t \in Tags, Reserve(i, t) PROVE Goal
  <2>1. Arrives(i, Root, t)
    BY <1>1, ReserveFacts
  <2>2. Gentle(Producer(i), {}, {})
    BY <2>1, ArriveGentle
  <2> QED
    BY <1>0, <2>2
<1>2. ASSUME NEW i \in Items, Descend(i) PROVE Goal
  <2> DEFINE g == tag[i]
  <2>1. \E p : Arrives(i, p, g)
    BY <1>2, DescendFacts
  <2> HIDE DEF g
  <2>2. Gentle(Producer(i), {}, {})
    BY <2>1, ArriveGentle
  <2> QED
    BY <1>0, <2>2
<1>3. ASSUME NEW i \in Items, Reject(i) PROVE Goal
  BY <1>0, <1>3, RejectGentle
<1>4. ASSUME NEW i \in Items, Populate(i) PROVE Goal
  BY <1>0, <1>4, PopulateGentle
<1>5. ASSUME NEW i \in Items, Get(i) PROVE Goal
  BY <1>0, <1>5, GetGentle
<1>6. ASSUME NEW i \in Items, Finalize(i) PROVE Goal
  BY <1>0, <1>6, FinalizeGentle
<1>7. ASSUME NEW i \in Items, PopItem(i) PROVE Goal
  BY <1>0, <1>7, PopGentle
<1>8. ASSUME NEW i \in Items, Activate(i) PROVE Goal
  BY <1>0, <1>8, ActivateGentle
<1>9. ASSUME NEW i \in Items, RemoveChild(i) PROVE Goal
  BY <1>0, <1>9, RemoveGentle
<1>10. ASSUME NEW i \in Items, FindChild(i) PROVE Goal
  BY <1>0, <1>10, FindGentle
<1>11. ASSUME NEW i \in Items, EraseChild(i) PROVE Goal
  BY <1>11
<1>12. ASSUME Interrupt PROVE Goal
  BY <1>12 DEF Interrupt
<1>13. ASSUME UNCHANGED vars PROVE Goal
  BY <1>13 DEF vars
<1>14. ASSUME Done PROVE Goal
  BY <1>14 DEF Done, vars
<1> HIDE DEF Goal
<1>15. Goal
  BY <1>1, <1>2, <1>3, <1>4, <1>5, <1>6, <1>7, <1>8, <1>9, <1>10, <1>11, <1>12, <1>13, <1>14
  DEF Next, Step
<1> QED
  BY <1>15 DEF Goal

(* A step destroys something in use only where a version is used twice. *)
LEMMA NextDestroys ==
  Inv /\ Inv' /\ [Next]_vars => (Intact => Intact' \/ \E i \in Items : Reused(i))
<1> SUFFICES ASSUME Inv, Inv', [Next]_vars, Intact PROVE Intact' \/ \E i \in Items : Reused(i)
  OBVIOUS
<1>1. Whole
  BY WholeIs
<1>2. CASE UNCHANGED <<chain, frames, call, pc>>
  <2>1. Whole'
    BY <1>1, <1>2 DEF Whole, Waits, Placed, Finalized
  <2> QED
    BY <2>1, WholeIsNext
<1>3. ASSUME NEW c \in Coros, Gentle(c, {}, {}) PROVE Whole'
  BY <1>1, <1>3, WholeOn
<1>4. ASSUME NEW i \in Items, EraseChild(i), ~Reused(i) PROVE Whole'
  BY <1>1, <1>4, FreshRemoval
<1> QED
  BY <1>2, <1>3, <1>4, StepGentle, WholeIsNext

(* A chain in use is destroyed only by a remove_child whose version was    *)
(* used twice, or whose child a second remove_child is due for             *)
(* (forque.hpp:415).                                                       *)
THEOREM ForqueDestroysOnlyOnReuse == Spec => DestroysOnlyOnReuse
<1> QED
  BY AlwaysInv, NextDestroys, PTL DEF Spec, DestroysOnlyOnReuse

-----------------------------------------------------------------------------
(* a chain without items and children *)
Idle(t, p) == /\ \A k, m, x : ~At(t, p, k, m, x)
              /\ \A k, d : ~Kid(t, p, k, d)

(* the reservation of j is about to enter p *)
Heads(j, p) == /\ Bound(j, Par(chain, p))
               /\ Kid(chain, Par(chain, p), Count(chain, Par(chain, p)), p)
               /\ IsPrefix(chain[p].tag, tag[j])

(* the consumer of j is about to remove p, and p is as it was when it left *)
Clears(j, p) == /\ pc[Consumer(j)] \in {"remove", "find", "compare"}
                /\ call[Consumer(j)].child = p
                /\ call[Consumer(j)].version = Ver(chain, p, 1)
                /\ On(chain, p, 1)

(* A chain that is idle is about to be used, or about to be removed. *)
Watched ==
  \A p \in Chains : p # Root /\ Alive(chain, p) /\ Idle(chain, p) =>
    \E j \in Items : Heads(j, p) \/ Clears(j, p)

(* A reservation still heads for a chain whose parent is left alone. *)
LEMMA HeadsKept ==
  ASSUME Inv, NEW h, NEW l, Eased(chain, chain', h, l), NEW q \in Chains, q # Root,
         Alive(chain', q), NEW j \in Items, Heads(j, q), Par(chain, q) # h,
         Bound(j, Par(chain, q))', tag'[j] = tag[j]
  PROVE  Heads(j, q)'
<1> DEFINE r == Par(chain, q)
<1>1. /\ Rooted(chain') /\ Chains \subseteq DOMAIN chain' /\ r \in Chains
      /\ Par(chain', q) = r /\ chain'[q].tag = chain[q].tag
  BY RootedFacts DEF Inv, IsTree, Eased, Chains
<1>2. Alive(chain', r)
  BY <1>1, AliveFacts
<1>3. Count(chain', r) = Count(chain, r) /\ \A k, d : Kid(chain', r, k, d) <=> Kid(chain, r, k, d)
  BY <1>1, <1>2 DEF Eased, Chains
<1>4. /\ Bound(j, r) /\ Kid(chain, r, Count(chain, r), q) /\ IsPrefix(chain[q].tag, tag[j])
      /\ Bound(j, r)'
  BY DEF Heads
<1>5. Kid(chain', r, Count(chain', r), q) /\ IsPrefix(chain'[q].tag, tag'[j])
  BY <1>1, <1>3, <1>4
<1> HIDE DEF r
<1> QED
  BY <1>1, <1>4, <1>5 DEF Heads

(* Two chains a reservation might head for are the same. *)
LEMMA HeadsOne ==
  ASSUME Inv, NEW p \in Chains, NEW q \in Chains, p # Root, q # Root,
         NEW k, Kid(chain, Par(chain, p), k, p), Kid(chain, Par(chain, p), k, q),
         NEW g \in Tags, IsPrefix(chain[p].tag, g), IsPrefix(chain[q].tag, g)
  PROVE  q = p
<1>1. IsTree(chain) /\ Headed(chain) /\ Linked(chain) /\ Rooted(chain)
  BY DEF Inv, IsTree
<1>2. Par(chain, q) = Par(chain, p)
  BY <1>1 DEF Linked
<1>3. /\ Len(chain[p].tag) = Len(chain[q].tag)
      /\ chain[p].tag \in Seq(Keys) /\ chain[q].tag \in Seq(Keys) /\ g \in Seq(Keys)
  BY <1>1, <1>2, RootedFacts, TagFacts DEF Headed, Chains
<1> DEFINE r == chain[p].tag
           s == chain[q].tag
<1>4. r = s
  <2> HIDE DEF r, s
  <2>1. r \in Seq(Keys) /\ s \in Seq(Keys) /\ g \in Seq(Keys) /\ IsPrefix(r, g) /\ IsPrefix(s, g)
        /\ Len(r) = Len(s) /\ Len(r) \in Nat
    BY <1>3 DEF r, s
  <2>2. IsPrefix(r, s)
    BY <2>1, PrefixFacts
  <2> QED
    BY <2>1, <2>2, PrefixFacts
<1> QED
  BY <1>1, <1>4 DEF Linked

-----------------------------------------------------------------------------
(* The steps of the consumer of i. *)
LEMMA WatchedConsume ==
  ASSUME Inv, Watched, NEW i \in Items, Others(Consumer(i)), tag' = tag,
         DOMAIN chain' = DOMAIN chain,
         NEW h, NEW l, Eased(chain, chain', h, l), OnlyBy(Consumer(i), h),
         \A q \in Chains : Alive(chain', q) /\ Idle(chain', q) /\ q # Root =>
           \/ Clears(i, q)'
           \/ /\ Idle(chain, q) /\ Ver(chain', q, 1) = Ver(chain, q, 1)
              /\ Clears(i, q) => Clears(i, q)'
  PROVE  Watched'
<1> SUFFICES ASSUME NEW q \in Chains, q # Root, Alive(chain', q), Idle(chain', q), ~Clears(i, q)'
             PROVE  \E j \in Items : Heads(j, q)' \/ Clears(j, q)'
  BY DEF Watched, Chains
<1>1. /\ Idle(chain, q) /\ Ver(chain', q, 1) = Ver(chain, q, 1)
      /\ Clears(i, q) => Clears(i, q)'
  OBVIOUS
<1>2. Alive(chain, q)
  BY DEF Eased, Chains
<1>3. PICK j \in Items : Heads(j, q) \/ Clears(j, q)
  BY <1>1, <1>2 DEF Watched
<1>4. CASE Heads(j, q)
  <2>1. /\ Producer(j) \in Coros /\ Producer(j) # Consumer(i)
    BY CoroFacts
  <2>2. Bound(j, Par(chain, q))
    BY <1>4 DEF Heads
  <2>3. pc'[Producer(j)] = pc[Producer(j)] /\ frames'[Producer(j)] = frames[Producer(j)]
    BY <2>1 DEF Others
  <2>4. Bound(j, Par(chain, q))'
    <3>1. pc'[Producer(j)] = "descend" /\ frames'[Producer(j)] = <<Frame(Par(chain, q), {})>>
      BY <2>2, <2>3 DEF Bound
    <3>2. Par(chain', q) = Par(chain, q)
      BY DEF Eased, Chains
    <3> QED
      BY <3>1, <3>2 DEF Bound
  <2> DEFINE r == Par(chain, q)
  <2>5. r # h
    <3>1. frames[Producer(j)] = <<Frame(r, {})>>
      BY <2>2 DEF Bound
    <3>2. 1 \in DOMAIN frames[Producer(j)] /\ frames[Producer(j)][1].chain = r
      BY <3>1 DEF Frame
    <3> QED
      BY <2>1, <3>2 DEF OnlyBy
  <2>6. tag'[j] = tag[j]
    OBVIOUS
  <2>8. Heads(j, q)'
    BY <1>4, <2>5, <2>6, <2>4, HeadsKept
  <2> QED
    BY <2>8
<1>5. CASE Clears(j, q)
  <2>1. j # i
    BY <1>1, <1>5
  <2>2. Consumer(j) \in Coros /\ Consumer(j) # Consumer(i)
    BY <2>1, CoroFacts
  <2>3. pc'[Consumer(j)] = pc[Consumer(j)] /\ call'[Consumer(j)] = call[Consumer(j)]
    BY <2>2 DEF Others
  <2>4. On(chain', q, 1)
    BY <1>5 DEF Clears, Eased, Chains
  <2> QED
    BY <1>1, <1>5, <2>3, <2>4 DEF Clears
<1> QED
  BY <1>3, <1>4, <1>5

(* The steps that leave the tree alone, and the reservations on their way. *)
LEMMA WatchedStill ==
  ASSUME Inv, Watched, UNCHANGED <<chain, tag, call>>,
         \A x \in Items : /\ pc[Producer(x)] = "descend" =>
                               /\ pc'[Producer(x)] = "descend"
                               /\ frames'[Producer(x)] = frames[Producer(x)]
                          /\ pc[Consumer(x)] \in {"remove", "find", "compare"} =>
                               pc'[Consumer(x)] \in {"remove", "find", "compare"}
  PROVE  Watched'
<1> SUFFICES ASSUME NEW q \in Chains, q # Root, Alive(chain, q), Idle(chain, q)
             PROVE  \E j \in Items : Heads(j, q)' \/ Clears(j, q)'
  BY DEF Watched, Chains
<1>1. PICK j \in Items : Heads(j, q) \/ Clears(j, q)
  BY DEF Watched
<1>2. CASE Heads(j, q)
  BY <1>2 DEF Heads, Bound
<1>3. CASE Clears(j, q)
  BY <1>3 DEF Clears
<1> QED
  BY <1>1, <1>2, <1>3

-----------------------------------------------------------------------------
(* A reservation that enters p: whoever watched another chain still does. *)
LEMMA WatchedElsewhere ==
  ASSUME Inv, Watched, NEW i \in Items, NEW p, NEW g, Arrives(i, p, g),
         Eased(chain, chain', p, Meta),
         \A q \in Chains : q # p => Ver(chain', q, 1) = Ver(chain, q, 1),
         NEW q \in Chains, q # Root, q # p, Alive(chain', q), Idle(chain, q)
  PROVE  \E j \in Items : Heads(j, q)' \/ Clears(j, q)'
<1> DEFINE c == Producer(i)
<1>1. /\ p \in Chains /\ Alive(chain, p) /\ pc[c] \in {"new", "descend"} /\ Comes(i, p, g)
      /\ g \in Tags /\ IsPrefix(chain[p].tag, g) /\ Others(c) /\ OnlyBy(c, p)
      /\ \A j \in Items : j # i => tag'[j] = tag[j]
  BY DEF Arrives, Joined, Passed
<1>2. c \in Coros /\ \A j \in Items : Consumer(j) \in Coros /\ Consumer(j) # c
  BY CoroFacts
<1>3. Alive(chain, q)
  BY DEF Eased, Chains
<1>4. PICK j \in Items : Heads(j, q) \/ Clears(j, q)
  BY <1>3 DEF Watched
<1>5. CASE Heads(j, q)
  <2> DEFINE r == Par(chain, q)
  <2>1. /\ Bound(j, r) /\ Kid(chain, r, Count(chain, r), q) /\ IsPrefix(chain[q].tag, tag[j])
    BY <1>5 DEF Heads
  <2>2. pc[Producer(j)] = "descend" /\ frames[Producer(j)] = <<Frame(r, {})>>
    BY <2>1 DEF Bound
  <2>3. j # i
    <3> SUFFICES ASSUME j = i PROVE FALSE
      OBVIOUS
    <3>1. /\ p # Root /\ Bound(i, Par(chain, p)) /\ g = tag[i]
          /\ Kid(chain, Par(chain, p), Count(chain, Par(chain, p)), p)
      BY <1>1, <2>2 DEF Comes
    <3>2. frames[c] = <<Frame(Par(chain, p), {})>>
      BY <3>1 DEF Bound
    <3>3. Par(chain, p) = r
      <4>1. Frame(Par(chain, p), {}) = Frame(r, {})
        BY <2>2, <3>2
      <4> QED
        BY <4>1 DEF Frame
    <3> HIDE DEF r
    <3>4. q = p
      BY <1>1, <2>1, <3>1, <3>3, HeadsOne
    <3> QED
      BY <3>4
  <2>4. Producer(j) \in Coros /\ Producer(j) # c
    BY <2>3, CoroFacts
  <2>5. r # p
    <3>1. 1 \in DOMAIN frames[Producer(j)] /\ frames[Producer(j)][1].chain = r
      BY <2>2 DEF Frame
    <3> QED
      BY <1>1, <2>4, <3>1 DEF OnlyBy
  <2>6. Bound(j, r)'
    <3>1. pc'[Producer(j)] = "descend" /\ frames'[Producer(j)] = <<Frame(Par(chain, q), {})>>
      BY <1>1, <2>2, <2>4 DEF Others
    <3>2. Par(chain', q) = Par(chain, q)
      BY DEF Eased, Chains
    <3> QED
      BY <3>1, <3>2 DEF Bound
  <2>7. tag'[j] = tag[j]
    BY <1>1, <2>3
  <2>8. Heads(j, q)'
    BY <1>5, <2>5, <2>6, <2>7, HeadsKept
  <2> QED
    BY <2>8
<1>6. CASE Clears(j, q)
  <2>1. pc'[Consumer(j)] = pc[Consumer(j)] /\ call'[Consumer(j)] = call[Consumer(j)]
    BY <1>1, <1>2 DEF Others
  <2>2. On(chain', q, 1)
    BY <1>6 DEF Clears, Eased, Chains
  <2> QED
    BY <1>6, <2>1, <2>2 DEF Clears
<1> QED
  BY <1>4, <1>5, <1>6

(* A reservation on its way down the tree. *)
LEMMA WatchedArrive ==
  ASSUME Inv, Watched, NEW i \in Items, NEW p, NEW g, Arrives(i, p, g)
  PROVE  Watched'
<1> DEFINE c == Producer(i)
<1>1. /\ p \in Chains /\ Alive(chain, p) /\ g \in Tags /\ IsPrefix(chain[p].tag, g)
      /\ tag'[i] = g
  BY DEF Arrives
<1>2. CASE \E K, M \in Nat : Joined(i, p, K, M)
  <2>1. PICK K, M \in Nat : Joined(i, p, K, M)
    BY <1>2
  <2>2. Eased(chain, chain', p, Meta)
    BY <1>1, <2>1, JoinTree
  <2>3. /\ DOMAIN chain' = Chains
        /\ \A q \in Chains : q # p => Ver(chain', q, 1) = Ver(chain, q, 1)
        /\ \A q, k, m, x : At(chain', q, k, m, x) <=>
             At(chain, q, k, m, x) \/ (q = p /\ k = K /\ m = M /\ x = i)
        /\ \A q, k, d : Kid(chain', q, k, d) <=> Kid(chain, q, k, d)
    BY <2>1 DEF Joined, Sown, Same, Chains
  <2>4. ASSUME NEW q \in Chains, q # Root, Alive(chain', q), Idle(chain', q)
        PROVE  \E j \in Items : Heads(j, q)' \/ Clears(j, q)'
    <3>1. q # p /\ Idle(chain, q)
      BY <2>3, <2>4 DEF Idle
    <3> QED
      BY <2>2, <2>3, <2>4, <3>1, WatchedElsewhere
  <2> QED
    BY <2>3, <2>4 DEF Watched, Chains
<1>3. CASE chain[p].tag # g /\ Passed(i, p, First(g, Len(chain[p].tag) + 1))
  <2> DEFINE f == First(g, Len(chain[p].tag) + 1)
  <2>0. PICK n : n = Len(chain) + 1
    OBVIOUS
  <2>1. Eased(chain, chain', p, Meta) /\ IsPrefix(f, g)
    BY <1>1, <1>3, PassTree
  <2>2. /\ Touched(chain, chain', p) \/ Grown(chain, chain', p, n, f)
        /\ \E d : Kid(chain', p, Count(chain', p), d)
        /\ pc'[c] = "descend" /\ frames'[c] = <<Frame(p, {})>>
    BY <1>3, <2>0 DEF Passed
  <2>3. /\ \A q \in Chains : q # p => Ver(chain', q, 1) = Ver(chain, q, 1)
        /\ \A q, k, m, x : At(chain', q, k, m, x) <=> At(chain, q, k, m, x)
        /\ \A q, k, d : Kid(chain, q, k, d) => Kid(chain', q, k, d)
        /\ \A q \in DOMAIN chain' : q \in Chains \/ (q = n /\ Grown(chain, chain', p, n, f))
    BY <2>2 DEF Touched, Grown, Same, Chains
  <2>4. ASSUME NEW q \in Chains, q # Root, Alive(chain', q), Idle(chain', q)
        PROVE  \E j \in Items : Heads(j, q)' \/ Clears(j, q)'
    <3>1. q # p /\ Idle(chain, q)
      BY <2>2, <2>3, <2>4 DEF Idle
    <3> QED
      BY <2>1, <2>3, <2>4, <3>1, WatchedElsewhere
  <2>5. ASSUME Grown(chain, chain', p, n, f) PROVE Heads(i, n)'
    <3> HIDE DEF f
    <3>1. /\ Par(chain', n) = p /\ chain'[n].tag = f /\ Count(chain', p) = Count(chain, p)
          /\ Kid(chain', p, Count(chain, p), n)
      BY <1>1, <2>5 DEF Grown, Chains
    <3>2. Bound(i, p)'
      BY <2>2 DEF Bound
    <3> QED
      BY <1>1, <2>1, <2>2, <3>1 DEF Heads, Bound
  <2> HIDE DEF f
  <2>6. \A q \in DOMAIN chain' : q # Root /\ Alive(chain', q) /\ Idle(chain', q) =>
          \E j \in Items : Heads(j, q)' \/ Clears(j, q)'
    BY <2>3, <2>4, <2>5
  <2> QED
    BY <2>6 DEF Watched, Chains
<1> QED
  BY <1>2, <1>3 DEF Arrives

-----------------------------------------------------------------------------
(* A pop that leaves its chain idle goes on to remove it. *)
LEMMA WatchedPop ==
  ASSUME Inv, Watched, NEW i \in Items, PopItem(i)
  PROVE  Watched'
<1> DEFINE c == Consumer(i)
<1>1. PICK p : PopsFrom(i, p)
  BY PopItemFate
<1>2. /\ pc[c] = "finalize" /\ At(chain, p, 1, 1, i) /\ p \in Chains /\ On(chain, p, 1)
      /\ Popped(chain, chain', p) /\ Others(c) /\ OnlyBy(c, p) /\ tag' = tag
      /\ \/ \E j : At(chain', p, 1, 1, j)
         \/ \E d : Kid(chain', p, 1, d)
         \/ p # Root /\ Cleans(c, p)
         \/ p = Root
  BY <1>1 DEF PopsFrom
<1>3. Eased(chain, chain', p, Meta) /\ DOMAIN chain' = DOMAIN chain
  BY <1>2, EasedPopped DEF Inv, Chains, Popped, Same
<1>4. ASSUME NEW q \in Chains, Alive(chain', q), Idle(chain', q), q # Root
      PROVE  \/ Clears(i, q)'
             \/ /\ Idle(chain, q) /\ Ver(chain', q, 1) = Ver(chain, q, 1)
                /\ Clears(i, q) => Clears(i, q)'
  <2>1. CASE q = p
    <3>1. Cleans(c, p)
      BY <1>2, <1>4, <2>1 DEF Idle
    <3>2. On(chain', p, 1)
      BY <1>2 DEF Popped
    <3> QED
      BY <2>1, <3>1, <3>2 DEF Cleans, Clears
  <2>2. CASE q # p
    <3>1. Idle(chain, q) /\ Ver(chain', q, 1) = Ver(chain, q, 1)
      BY <1>2, <1>4, <2>2 DEF Popped, Idle, Chains
    <3>2. ~Clears(i, q)
      BY <1>2 DEF Clears
    <3> QED
      BY <3>1, <3>2
  <2> QED
    BY <2>1, <2>2
<1> QED
  BY <1>2, <1>3, <1>4, WatchedConsume

(* An activation leaves no chain idle that was not. *)
LEMMA WatchedActivate ==
  ASSUME Inv, Watched, NEW i \in Items, Activate(i)
  PROVE  Watched'
<1> DEFINE c == Consumer(i)
<1>1. CASE GoesUp(i)
  <2>1. /\ pc[c] = "activate" /\ Others(c) /\ UNCHANGED <<chain, tag>>
    BY <1>1 DEF GoesUp
  <2>2. PICK h : Eased(chain, chain', h, Meta) /\ OnlyBy(c, h)
    BY <2>1, StillEased, CoroFacts
  <2>3. \A q \in Chains : ~Clears(i, q)
    BY <2>1 DEF Clears
  <2> QED
    BY <2>1, <2>2, <2>3, WatchedConsume
<1>2. ASSUME NEW d, GoesDown(i, d) PROVE Watched'
  <2>1. /\ pc[c] = "activate" /\ d \in Chains /\ OnlyBy(c, d)
        /\ Marked(chain, chain', d) /\ Others(c) /\ tag' = tag
    BY <1>2 DEF GoesDown
  <2>2. Eased(chain, chain', d, d) /\ DOMAIN chain' = DOMAIN chain
    BY <2>1, EasedMarked DEF Inv, Chains, Marked, Same
  <2>3. \A q \in Chains : /\ Idle(chain', q) => Idle(chain, q)
                          /\ Ver(chain', q, 1) = Ver(chain, q, 1)
    BY <2>1 DEF Marked, Idle, Chains
  <2>4. \A q \in Chains : ~Clears(i, q)
    BY <2>1 DEF Clears
  <2> QED
    BY <2>1, <2>2, <2>3, <2>4, WatchedConsume
<1> QED
  BY <1>1, <1>2, ActivateFate

(* What the consumer of i is about to remove is what its parent has of that *)
(* tag, in the front segment.                                               *)
LEMMA ClearsFound ==
  ASSUME Inv, NEW i \in Items, Sound(Consumer(i)), NEW q \in Chains, q # Root,
         Alive(chain, q), Clears(i, q), NEW p, p = call[Consumer(i)].on
  PROVE  /\ p \in Chains /\ Alive(chain, p) /\ p = Par(chain, q)
         /\ Kid(chain, p, 1, q) /\ chain[q].tag = call[Consumer(i)].tag
         /\ FrontOf(p) = chain[p].segments[1] /\ q \in Find(FrontOf(p), call[Consumer(i)].tag)
         /\ FrontOf(q).version = call[Consumer(i)].version
         /\ \A d \in Find(FrontOf(p), call[Consumer(i)].tag) : d = q
<1> DEFINE c == Consumer(i)
<1>1. Removing(chain, call[c]) /\ call[c].child = q /\ call[c].version = Ver(chain, q, 1)
  BY DEF Clears, Inv, Fits, ConsumerFits
<1>2. IsTree(chain) /\ Rooted(chain) /\ Linked(chain)
  BY DEF Inv, IsTree
<1>3. p \in Chains /\ p = Par(chain, q) /\ chain[q].tag = call[c].tag
  BY <1>1 DEF Removing, Chains
<1>4. Alive(chain, p) /\ Alive(chain, q)
  BY <1>2, <1>3, AliveFacts DEF Chains
<1>5. \E k : Kid(chain, p, k, q)
  <2>1. q \in Line(chain, q)
    BY <1>2, LineFacts DEF Chains
  <2> QED
    BY <1>2, <1>3, <2>1, AboveFacts DEF Chains
<1>6. Kid(chain, p, 1, q)
  BY <1>1, <1>4, <1>5 DEF Removing, Ended
<1>7. ASSUME NEW r \in Chains, Alive(chain, r) PROVE FrontOf(r) = chain[r].segments[1]
  <2>1. chain[r].segments # <<>> /\ chain[r].segments \in Seq(SegmentType)
    BY <1>2, <1>7, AliveFacts, RootedFacts DEF Chains
  <2> QED
    BY <2>1 DEF FrontOf
<1>8. FrontOf(p) = chain[p].segments[1] /\ FrontOf(q) = chain[q].segments[1]
  BY <1>3, <1>4, <1>7
<1>9. \A d : d \in FrontOf(p).children <=> Kid(chain, p, 1, d)
  BY <1>6, <1>8 DEF Kid, Chi
<1>10. \A d \in Find(FrontOf(p), call[c].tag) : d = q
  BY <1>2, <1>3, <1>6, <1>9 DEF Find, Linked
<1> QED
  BY <1>1, <1>3, <1>4, <1>6, <1>8, <1>9, <1>10 DEF Find, Ver

(* A child is erased, or not, or is not there any more. *)
LEMMA WatchedErase ==
  ASSUME Inv, Watched, NEW i \in Items, EraseChild(i)
  PROVE  Watched'
<1> DEFINE c == Consumer(i)
<1>1. PICK p, d : Removes(i, p, d)
  BY EraseChildFate
<1>2. /\ Sound(c) /\ p = call[c].on /\ d \in Find(FrontOf(p), call[c].tag)
      /\ p \in Chains /\ Alive(chain, p) /\ On(chain, p, 1) /\ d \in Chains /\ d # p
      /\ Kid(chain, p, 1, d) /\ OnlyBy(c, p) /\ Others(c) /\ tag' = tag
  BY <1>1 DEF Removes
<1>3. IsTree(chain) /\ Rooted(chain) /\ c \in Coros
  BY CoroFacts DEF Inv, IsTree
<1>4. CASE FrontOf(d).version # call[c].version
  <2>1. UNCHANGED chain
    BY <1>1, <1>4 DEF Removes
  <2>2. PICK h : Eased(chain, chain', h, Meta) /\ OnlyBy(c, h)
    BY <1>3, <2>1, StillEased
  <2>3. ASSUME NEW q \in Chains, q # Root, Alive(chain, q), Clears(i, q) PROVE FALSE
    BY <1>2, <1>4, <2>3, ClearsFound
  <2> QED
    BY <1>2, <2>1, <2>2, <2>3, WatchedConsume
<1>5. CASE FrontOf(d).version = call[c].version
  <2> DEFINE Rest == \A q \in Chains : q # d /\ q # p =>
                          /\ Idle(chain', q) => Idle(chain, q)
                          /\ Ver(chain', q, 1) = Ver(chain, q, 1)
             Dies == \A q \in Chains : Alive(chain', q) <=> Alive(chain, q) /\ d \notin Line(chain, q)
             Result == /\ Dies /\ Rest
                       /\ Eased(chain, chain', p, Meta) /\ DOMAIN chain' = DOMAIN chain
                       /\ Idle(chain', p) /\ p # Root => Cleans(c, p) /\ On(chain', p, 1)
  <2>a. ASSUME Cut(chain, chain', p, d), (\E e : e # d /\ Kid(chain, p, 1, e)) \/ Count(chain, p) = 1,
               (\E e : e # d /\ Kid(chain, p, 1, e)) \/ p = Root \/ Cleans(c, p)
        PROVE  Result
    <3>1. Dies
      BY <1>2, <1>3, <2>a, CutTree DEF Chains
    <3>2. Eased(chain, chain', p, Meta) /\ DOMAIN chain' = DOMAIN chain
      BY <1>2, <1>3, <2>a, <3>1, EasedCut DEF Chains, Cut, Same
    <3>3. Rest
      BY <2>a DEF Cut, Idle, Chains
    <3>4. On(chain', p, 1) /\ \A e : e # d /\ Kid(chain, p, 1, e) => Kid(chain', p, 1, e)
      BY <1>2, <2>a DEF Cut
    <3>5. Idle(chain', p) /\ p # Root => Cleans(c, p)
      BY <2>a, <3>4 DEF Idle
    <3> QED
      BY <3>1, <3>2, <3>3, <3>4, <3>5
  <2>b. ASSUME Moved(chain, chain', p, d), \A e : Kid(chain, p, 1, e) => e = d,
               \E j : At(chain', p, 1, 1, j)
        PROVE  Result
    <3>1. Dies
      BY <1>2, <1>3, <2>b, MovedTree DEF Chains
    <3>2. Eased(chain, chain', p, Meta) /\ DOMAIN chain' = DOMAIN chain
      BY <1>2, <1>3, <2>b, <3>1, EasedMoved DEF Chains, Moved, Same
    <3>3. Rest
      BY <2>b DEF Moved, Idle, Chains
    <3>4. ~Idle(chain', p)
      BY <2>b DEF Idle
    <3> QED
      BY <3>1, <3>2, <3>3, <3>4
  <2> HIDE DEF Result
  <2>1. Result
    <3>1. \/ Cut(chain, chain', p, d) /\ \E e : e # d /\ Kid(chain, p, 1, e)
          \/ Cut(chain, chain', p, d) /\ Count(chain, p) = 1 /\ Cleans(c, p)
          \/ Cut(chain, chain', p, d) /\ Count(chain, p) = 1 /\ p = Root
          \/ /\ Moved(chain, chain', p, d) /\ \A e : Kid(chain, p, 1, e) => e = d
             /\ \E j : At(chain', p, 1, 1, j)
      BY <1>1, <1>5, Zenon DEF Removes
    <3> QED
      BY <2>a, <2>b, <3>1
  <2>2. Dies /\ Rest /\ (Idle(chain', p) /\ p # Root => Cleans(c, p) /\ On(chain', p, 1))
    BY <2>1 DEF Result
  <2>3. Eased(chain, chain', p, Meta) /\ DOMAIN chain' = DOMAIN chain
    BY <2>1 DEF Result
  <2>4. ASSUME NEW q \in Chains, Alive(chain', q), Idle(chain', q), q # Root
        PROVE  \/ Clears(i, q)'
               \/ /\ Idle(chain, q) /\ Ver(chain', q, 1) = Ver(chain, q, 1)
                  /\ Clears(i, q) => Clears(i, q)'
    <3>1. q # d
      BY <1>3, <2>2, <2>4, LineFacts DEF Chains
    <3>2. CASE q = p
      <4>1. Cleans(c, p) /\ On(chain', p, 1)
        BY <2>2, <2>4, <3>2
      <4> QED
        BY <3>2, <4>1 DEF Cleans, Clears
    <3>3. CASE q # p
      <4>1. Idle(chain, q) /\ Ver(chain', q, 1) = Ver(chain, q, 1)
        BY <2>2, <2>4, <3>1, <3>3
      <4>2. ~Clears(i, q)
        <5> SUFFICES ASSUME Clears(i, q) PROVE FALSE
          OBVIOUS
        <5>1. Alive(chain, q)
          BY <2>2, <2>4
        <5>2. d = q
          BY <1>2, <2>4, <5>1, ClearsFound
        <5> QED
          BY <3>1, <5>2
      <4> QED
        BY <4>1, <4>2
    <3> QED
      BY <3>2, <3>3
  <2> QED
    BY <1>2, <2>3, <2>4, WatchedConsume
<1> QED
  BY <1>4, <1>5

(* A child looked up is found, if it is still watched by the removal. *)
LEMMA WatchedFind ==
  ASSUME Inv, Watched, NEW i \in Items, FindChild(i)
  PROVE  Watched'
<1> DEFINE c == Consumer(i)
           p == call[c].on
           fs == Append(frames[c], Frame(p, {}))
<1>1. c \in Coros
  BY CoroFacts
<1>2. /\ pc[c] = "find" /\ Sound(c) /\ UNCHANGED <<chain, tag>>
      /\ \/ Find(FrontOf(p), call[c].tag) = {} /\ Finish(c)
         \/ /\ frames' = [frames EXCEPT ![c] = fs]
            /\ pc' = [pc EXCEPT ![c] = "compare"]
            /\ UNCHANGED call
  BY DEF FindChild
<1>3. CASE Find(FrontOf(p), call[c].tag) = {} /\ Finish(c)
  <2>1. Others(c)
    BY <1>1, <1>3, EndsFacts
  <2>2. PICK h : Eased(chain, chain', h, Meta) /\ OnlyBy(c, h)
    BY <1>1, <1>2, StillEased
  <2>3. ASSUME NEW q \in Chains, q # Root, Alive(chain, q), Clears(i, q) PROVE FALSE
    <3>1. q \in Find(FrontOf(p), call[c].tag)
      BY <1>2, <2>3, ClearsFound
    <3> QED
      BY <1>3, <3>1
  <2> QED
    BY <1>2, <2>1, <2>2, <2>3, WatchedConsume
<1>4. CASE /\ frames' = [frames EXCEPT ![c] = fs]
           /\ pc' = [pc EXCEPT ![c] = "compare"]
           /\ UNCHANGED call
  <2>1. pc'[c] = "compare" /\ \A d \in Coros : d # c => pc'[d] = pc[d]
    BY <1>1, <1>4, PcPut
  <2>2. \A d \in Coros : d # c => frames'[d] = frames[d]
    BY <1>4
  <2>3. ASSUME NEW x \in Items
        PROVE  /\ pc[Producer(x)] = "descend" =>
                    /\ pc'[Producer(x)] = "descend"
                    /\ frames'[Producer(x)] = frames[Producer(x)]
               /\ pc[Consumer(x)] \in {"remove", "find", "compare"} =>
                    pc'[Consumer(x)] \in {"remove", "find", "compare"}
    <3>1. Producer(x) \in Coros /\ Producer(x) # c /\ Consumer(x) \in Coros
      BY CoroFacts
    <3> QED
      BY <2>1, <2>2, <3>1
  <2> QED
    BY <1>2, <1>4, <2>3, WatchedStill
<1> QED
  BY <1>2, <1>3, <1>4

-----------------------------------------------------------------------------
(* In the beginning there is only the root. *)
LEMMA WatchedInit == Init => Watched
<1> SUFFICES ASSUME Init PROVE Watched
  OBVIOUS
<1>1. DOMAIN chain = {1}
  BY DEF Init
<1> QED
  BY <1>1 DEF Watched, Chains, Root

(* Whoever is about to use or to remove a chain does, or it is watched on. *)
LEMMA WatchedNext ==
  ASSUME Inv, Watched, [Next]_vars
  PROVE  Watched'
<1>0. \A x \in Items : /\ Producer(x) \in Coros /\ Consumer(x) \in Coros
                       /\ \A y \in Items : Producer(x) # Consumer(y)
  BY CoroFacts
<1>1. ASSUME NEW i \in Items, NEW t \in Tags, Reserve(i, t) PROVE Watched'
  <2>1. Arrives(i, Root, t)
    BY <1>1, ReserveFacts
  <2> QED
    BY <2>1, WatchedArrive
<1>2. ASSUME NEW i \in Items, Descend(i) PROVE Watched'
  <2> DEFINE g == tag[i]
  <2>1. \E p : Arrives(i, p, g)
    BY <1>2, DescendFacts
  <2> HIDE DEF g
  <2> QED
    BY <2>1, WatchedArrive
<1>3. ASSUME NEW c \in Coros, NEW w, pc' = [pc EXCEPT ![c] = w],
             \A e \in Coros : e # c => frames'[e] = frames[e],
             UNCHANGED <<chain, tag, call>>,
             pc[c] # "descend",
             pc[c] = "remove" => w = "find", pc[c] # "find", pc[c] # "compare"
      PROVE  Watched'
  <2>1. pc'[c] = w /\ \A e \in Coros : e # c => pc'[e] = pc[e]
    BY <1>3, PcPut
  <2>2. ASSUME NEW x \in Items
        PROVE  /\ pc[Producer(x)] = "descend" =>
                    /\ pc'[Producer(x)] = "descend"
                    /\ frames'[Producer(x)] = frames[Producer(x)]
               /\ pc[Consumer(x)] \in {"remove", "find", "compare"} =>
                    pc'[Consumer(x)] \in {"remove", "find", "compare"}
    <3>1. CASE Producer(x) = c
      BY <1>0, <1>3, <2>1, <3>1
    <3>2. CASE Consumer(x) = c
      BY <1>0, <1>3, <2>1, <3>2
    <3>3. CASE Producer(x) # c /\ Consumer(x) # c
      BY <1>0, <1>3, <2>1, <3>3
    <3> QED
      BY <3>1, <3>2, <3>3
  <2> QED
    BY <1>3, <2>2, WatchedStill
<1>4. ASSUME NEW i \in Items, Reject(i) PROVE Watched'
  BY <1>0, <1>3, <1>4 DEF Reject
<1>5. ASSUME NEW i \in Items, Populate(i) PROVE Watched'
  BY <1>0, <1>3, <1>5 DEF Populate
<1>6. ASSUME NEW i \in Items, Get(i) PROVE Watched'
  BY <1>0, <1>3, <1>6 DEF Get
<1>7. ASSUME NEW i \in Items, Finalize(i) PROVE Watched'
  <2>1. \A e \in Coros : e # Consumer(i) => frames'[e] = frames[e]
    BY <1>7 DEF Finalize
  <2> QED
    BY <1>0, <1>3, <1>7, <2>1 DEF Finalize
<1>8. ASSUME NEW i \in Items, RemoveChild(i) PROVE Watched'
  <2>1. \A e \in Coros : e # Consumer(i) => frames'[e] = frames[e]
    BY <1>8 DEF RemoveChild
  <2> QED
    BY <1>0, <1>3, <1>8, <2>1 DEF RemoveChild
<1>9. ASSUME NEW i \in Items, PopItem(i) PROVE Watched'
  BY <1>9, WatchedPop
<1>10. ASSUME NEW i \in Items, Activate(i) PROVE Watched'
  BY <1>10, WatchedActivate
<1>11. ASSUME NEW i \in Items, FindChild(i) PROVE Watched'
  BY <1>11, WatchedFind
<1>12. ASSUME NEW i \in Items, EraseChild(i) PROVE Watched'
  BY <1>12, WatchedErase
<1>13. ASSUME UNCHANGED <<chain, tag, call, pc, frames>> PROVE Watched'
  BY <1>13, WatchedStill
<1>14. CASE Interrupt
  BY <1>13, <1>14 DEF Interrupt
<1>15. CASE UNCHANGED vars \/ Done
  BY <1>13, <1>15 DEF Done, vars
<1> QED
  BY <1>1, <1>2, <1>4, <1>5, <1>6, <1>7, <1>8, <1>9, <1>10, <1>11, <1>12, <1>14, <1>15
  DEF Next, Step

(* They always hold. *)
LEMMA AlwaysWatched == Spec => [](Inv /\ Watched)
<1>1. Init => Inv /\ Watched
  BY InitInv, WatchedInit
<1>2. Inv /\ Watched /\ [Next]_vars => Inv' /\ Watched'
  BY NextInv, WatchedNext
<1> QED
  BY <1>1, <1>2, PTL DEF Spec

-----------------------------------------------------------------------------
(* m came last of the chains alive below d *)
Youngest(t, d, m) ==
  /\ d \in Line(t, m) /\ Alive(t, m) /\ \A k, e : ~Kid(t, m, k, e)
  /\ \A q \in DOMAIN t : d \in Line(t, q) /\ Alive(t, q) => d <= q /\ q <= m

(* The chain below d that came last has no children. *)
LEMMA Deepest ==
  ASSUME NEW t, IsTree(t), NEW d \in DOMAIN t, Alive(t, d)
  PROVE  \E m \in DOMAIN t : Youngest(t, d, m)
<1>1. /\ Rooted(t) /\ Linked(t) /\ DOMAIN t = 1..Len(t) /\ Len(t) \in Nat
  BY RootedFacts DEF IsTree
<1> DEFINE In(q) == q \in DOMAIN t /\ d \in Line(t, q) /\ Alive(t, q)
           W == {n \in Nat : n <= Len(t) /\ In(Len(t) - n)}
<1>2. In(d)
  BY <1>1, LineFacts
<1>3. PICK w \in W : \A n \in W : w <= n
  <2>1. Len(t) - d \in W
    BY <1>1, <1>2
  <2>2. W \in SUBSET Nat /\ W # {}
    BY <2>1
  <2> HIDE DEF W
  <2> QED
    BY <2>2, LeastNatural
<1> DEFINE m == Len(t) - w
<1>4. w \in Nat /\ w <= Len(t) /\ In(m)
  BY <1>3
<1>5. ASSUME NEW q, In(q) PROVE d <= q /\ q <= m
  <2>1. q \in DOMAIN t /\ q \in 1..Len(t)
    BY <1>1, <1>5
  <2>2. Len(t) - q \in Nat /\ Len(t) - q <= Len(t) /\ Len(t) - (Len(t) - q) = q
    BY <1>1, <2>1
  <2>3. Len(t) - q \in W
    BY <1>5, <2>2
  <2>4. w <= Len(t) - q
    BY <1>3, <2>3
  <2>5. d <= q
    BY <1>1, <1>5, LineFacts
  <2> QED
    BY <1>1, <1>4, <2>1, <2>4, <2>5
<1>6. ASSUME NEW k, NEW e, Kid(t, m, k, e) PROVE FALSE
  <2>1. e \in DOMAIN t /\ e # Root /\ Par(t, e) = m /\ Count(t, e) > 0
    BY <1>1, <1>6 DEF Linked
  <2>2. Alive(t, e)
    <3>1. t[e].segments # <<>>
      BY <1>1, <2>1, RootedFacts
    <3> HIDE DEF m, W
    <3> QED
      BY <1>1, <1>4, <2>1, <3>1, AliveFacts
  <2>3. d \in Line(t, e) /\ m < e
    BY <1>1, <1>4, <2>1, LineFacts, RootedFacts
  <2>4. e <= m
    BY <1>5, <2>1, <2>2, <2>3
  <2> QED
    BY <1>1, <1>4, <2>1, <2>3, <2>4
<1> HIDE DEF m, W
<1>7. Youngest(t, d, m)
  BY <1>4, <1>5, <1>6 DEF Youngest
<1> QED
  BY <1>4, <1>7

(* What is in a chain is waiting to be finalized. *)
LEMMA PlacedWaits ==
  ASSUME Inv, NEW p, NEW k, NEW m, NEW x, At(chain, p, k, m, x)
  PROVE  x \in Items /\ Waits(x) /\ Pending(x)
<1>1. x \in Items
  BY AtFacts DEF Inv, IsTree
<1>2. /\ pc[Producer(x)] \in {"reserved", "populated"}
      /\ pc[Consumer(x)] \in {"get", "retained", "finalize"}
  BY DEF Inv, Places
<1> QED
  BY <1>1, <1>2 DEF Waits, Pending, Placed, Finalized

(* With nobody inside, there is an item below every chain. *)
LEMMA Inhabited ==
  ASSUME Inv, Watched, Quiet, NEW p \in Chains, p # Root, Alive(chain, p)
  PROVE  \E x \in Items : Pending(x) /\ Thru(x, p) /\ \E q \in Home(x) : q \in Subtree(p)
<1>1. IsTree(chain) /\ Rooted(chain)
  BY DEF Inv, IsTree
<1>2. PICK m \in Chains : /\ p \in Line(chain, m) /\ Alive(chain, m)
                          /\ \A k, e : ~Kid(chain, m, k, e)
  <2>1. \E m \in DOMAIN chain : Youngest(chain, p, m)
    BY <1>1, Deepest DEF Chains
  <2> QED
    BY <2>1, Zenon DEF Youngest, Chains
<1>3. m # Root
  BY <1>1, <1>2, LineFacts DEF Chains
<1>4. ~Idle(chain, m)
  <2> SUFFICES ASSUME Idle(chain, m) PROVE FALSE
    OBVIOUS
  <2>1. PICK j \in Items : Heads(j, m) \/ Clears(j, m)
    BY <1>2, <1>3 DEF Watched
  <2> QED
    BY <2>1 DEF Heads, Bound, Clears, Quiet
<1>5. PICK k, n, x : At(chain, m, k, n, x)
  BY <1>2, <1>4 DEF Idle
<1>6. x \in Items /\ Pending(x)
  BY <1>5, PlacedWaits
<1>7. Home(x) = {m}
  BY <1>1, <1>2, <1>5, <1>6, HomeFacts
<1>8. m \in Subtree(p)
  BY <1>1, <1>2, SubtreeIsUnder DEF Under
<1>9. Thru(x, p)
  BY <1>2, <1>5 DEF Thru
<1> QED
  BY <1>6, <1>7, <1>8, <1>9

(* The watch over the idle chains says what NoLeak says. *)
LEMMA NoLeakFollows == Inv /\ Watched => NoLeak
<1> SUFFICES ASSUME Inv, Watched, Quiet, NEW p \in Chains, p # Root, Exists(p)
             PROVE  \E i \in Items : Pending(i) /\ \E q \in Home(i) : q \in Subtree(p)
  BY DEF NoLeak
<1>1. Alive(chain, p)
  BY ExistsIsAlive DEF Inv, IsTree
<1> QED
  BY <1>1, Inhabited

(* With no reserve or finalize under way, every chain still in the tree    *)
(* has a pending item at or below it: a removal refused because of its     *)
(* version is made up for by a later one (forque.hpp:415).                 *)
THEOREM ForqueNoLeak == Spec => []NoLeak
<1> QED
  BY AlwaysWatched, NoLeakFollows, PTL

-----------------------------------------------------------------------------
(* What a removal whose version is the one found does to the tree. *)
LEMMA RemovedFacts ==
  ASSUME Inv, NEW i \in Items, NEW p, NEW d, Removes(i, p, d),
         FrontOf(d).version = call[Consumer(i)].version
  PROVE  /\ IsTree(chain') /\ DOMAIN chain' = DOMAIN chain
         /\ \A q \in Chains : Alive(chain', q) <=> Alive(chain, q) /\ d \notin Line(chain, q)
         /\ \A x : Stays(chain, chain', x)
         /\ Count(chain', d) = 0
         /\ \A q \in Chains : Count(chain', q) > 0 => Count(chain, q) > 0
         /\ \/ Cut(chain, chain', p, d)
            \/ Count(chain, p) > 1 /\ \E j : At(chain', p, 1, 1, j)
<1> DEFINE c == Consumer(i)
           Goal == /\ IsTree(chain') /\ DOMAIN chain' = DOMAIN chain
                   /\ \A q \in Chains : Alive(chain', q) <=> Alive(chain, q) /\ d \notin Line(chain, q)
                   /\ \A x : Stays(chain, chain', x)
                   /\ Count(chain', d) = 0
                   /\ \A q \in Chains : Count(chain', q) > 0 => Count(chain, q) > 0
                   /\ \/ Cut(chain, chain', p, d)
                      \/ Count(chain, p) > 1 /\ \E j : At(chain', p, 1, 1, j)
<1>1. /\ p \in Chains /\ Alive(chain, p) /\ On(chain, p, 1) /\ Count(chain, p) > 0
      /\ d \in Chains /\ d # p /\ Kid(chain, p, 1, d)
  BY DEF Removes
<1>2. IsTree(chain) /\ Rooted(chain) /\ \A q \in Chains : Count(chain, q) \in Nat
  BY RootedFacts DEF Inv, IsTree, Chains
<1>3. ASSUME Cut(chain, chain', p, d), (\E e : e # d /\ Kid(chain, p, 1, e)) \/ Count(chain, p) = 1
      PROVE  Goal
  <2>1. /\ IsTree(chain')
        /\ \A q \in Chains : Alive(chain', q) <=> Alive(chain, q) /\ d \notin Line(chain, q)
    BY <1>1, <1>2, <1>3, CutTree DEF Chains
  <2>2. \A x : Stays(chain, chain', x)
    BY <1>1, <1>2, <1>3, <2>1, EasedCut DEF Chains
  <2>3. /\ DOMAIN chain' = DOMAIN chain /\ Count(chain', d) = 0
        /\ \A q \in Chains : q # d => Count(chain', q) = Count(chain, q)
    BY <1>1, <1>3 DEF Cut, Same, Chains
  <2> QED
    BY <1>3, <2>1, <2>2, <2>3
<1>4. ASSUME Moved(chain, chain', p, d), \A e : Kid(chain, p, 1, e) => e = d,
             \E j : At(chain', p, 1, 1, j)
      PROVE  Goal
  <2>1. /\ IsTree(chain')
        /\ \A q \in Chains : Alive(chain', q) <=> Alive(chain, q) /\ d \notin Line(chain, q)
    BY <1>1, <1>2, <1>4, MovedTree DEF Chains
  <2>2. \A x : Stays(chain, chain', x)
    BY <1>1, <1>2, <1>4, <2>1, EasedMoved DEF Chains
  <2>3. /\ DOMAIN chain' = DOMAIN chain /\ Count(chain', d) = 0 /\ Count(chain, p) > 1
        /\ \A q \in Chains : q # d /\ q # p => Count(chain', q) = Count(chain, q)
    BY <1>1, <1>4 DEF Moved, Same, Chains
  <2> QED
    BY <1>1, <1>4, <2>1, <2>2, <2>3
<1> HIDE DEF Goal
<1>5. \/ Cut(chain, chain', p, d) /\ \E e : e # d /\ Kid(chain, p, 1, e)
      \/ Cut(chain, chain', p, d) /\ Count(chain, p) = 1
      \/ /\ Moved(chain, chain', p, d) /\ \A e : Kid(chain, p, 1, e) => e = d
         /\ \E j : At(chain', p, 1, 1, j)
  BY Zenon DEF Removes
<1>6. Goal
  BY <1>3, <1>4, <1>5
<1> QED
  BY <1>6 DEF Goal

(* A removal that destroys nothing in use is of a chain that is alone, and *)
(* that is active below a segment without items.                           *)
LEMMA ErasedUnused ==
  ASSUME Inv, Watched, NEW i \in Items, NEW p, NEW d, Removes(i, p, d),
         FrontOf(d).version = call[Consumer(i)].version, Whole'
  PROVE  /\ On(chain, d, 1) /\ Bare(chain, p)
         /\ \A q \in Chains : d \in Line(chain, q) /\ Alive(chain, q) => q = d
<1> DEFINE c == Consumer(i)
<1>1. /\ pc[c] = "compare" /\ p = call[c].on /\ p \in Chains /\ Alive(chain, p)
      /\ d \in Chains /\ d # Root /\ d # p /\ Kid(chain, p, 1, d)
      /\ OnlyBy(c, p) /\ Others(c)
  BY DEF Removes
<1>2. c \in Coros /\ IsTree(chain) /\ Rooted(chain) /\ Linked(chain) /\ Unique(chain) /\ Actives(chain)
  BY CoroFacts DEF Inv, IsTree
<1>3. /\ DOMAIN chain' = DOMAIN chain
      /\ \A q \in Chains : Alive(chain', q) <=> Alive(chain, q) /\ d \notin Line(chain, q)
      /\ \A x : Stays(chain, chain', x)
  BY RemovedFacts
<1>4. Par(chain, d) = p /\ Alive(chain, d)
  <2>1. Par(chain, d) = p /\ Count(chain, d) > 0
    BY <1>1, <1>2 DEF Linked
  <2>2. chain[d].segments # <<>>
    BY <1>1, <1>2, <2>1, RootedFacts DEF Chains
  <2> QED
    BY <1>1, <1>2, <2>1, <2>2, AliveFacts DEF Chains
<1>5. PICK m \in Chains : /\ d \in Line(chain, m) /\ Alive(chain, m)
                          /\ \A k, e : ~Kid(chain, m, k, e)
                          /\ \A q \in Chains : d \in Line(chain, q) /\ Alive(chain, q) => d <= q /\ q <= m
  <2>1. d \in DOMAIN chain /\ IsTree(chain) /\ Alive(chain, d)
    BY <1>1, <1>2, <1>4 DEF Chains
  <2>2. \E m \in DOMAIN chain : Youngest(chain, d, m)
    BY <2>1, Deepest
  <2> QED
    BY <2>2, Zenon DEF Youngest, Chains
<1>6. m # Root /\ m \in Nat /\ d \in Nat /\ \A q \in Chains : q \in Nat
  BY <1>1, <1>2, <1>5, LineFacts, RootedFacts DEF Chains
<1>7. ~Alive(chain', m)
  BY <1>3, <1>5
<1>8. Idle(chain, m)
  <2> SUFFICES ASSUME NEW k, NEW n, NEW x, At(chain, m, k, n, x) PROVE FALSE
    BY <1>5 DEF Idle
  <2>1. x \in Items /\ Waits(x)
    BY PlacedWaits
  <2>2. x # i
    BY <1>1, <2>1 DEF Waits, Finalized
  <2>3. /\ Producer(x) \in Coros /\ Consumer(x) \in Coros
        /\ Producer(x) # c /\ Consumer(x) # c
    BY <2>1, <2>2, CoroFacts
  <2>4. pc'[Producer(x)] = pc[Producer(x)] /\ pc'[Consumer(x)] = pc[Consumer(x)]
    BY <1>1, <2>3 DEF Others
  <2>5. Waits(x)'
    BY <2>1, <2>4 DEF Waits, Placed, Finalized
  <2>6. PICK q, j, l : At(chain', q, j, l, x) /\ Alive(chain', q)
    BY <2>1, <2>5 DEF Whole, There
  <2>7. \E j1, l1 : At(chain, q, j1, l1, x)
    BY <1>3, <2>6 DEF Stays
  <2>8. q = m
    BY <1>2, <2>7 DEF Unique
  <2> QED
    BY <1>7, <2>6, <2>8
<1>9. PICK j \in Items : Heads(j, m) \/ Clears(j, m)
  BY <1>5, <1>6, <1>8 DEF Watched
<1>10. m # d => d \in Line(chain, Par(chain, m)) /\ Par(chain, m) \in Chains /\ ~Alive(chain', Par(chain, m))
  <2> SUFFICES ASSUME m # d PROVE d \in Line(chain, Par(chain, m)) /\ Par(chain, m) \in Chains
    BY <1>3
  <2>1. Par(chain, m) \in Chains
    BY <1>2, <1>6, RootedFacts DEF Chains
  <2>2. Line(chain, m) = {m} \cup Line(chain, Par(chain, m))
    BY <1>2, <1>6, LineFacts DEF Chains
  <2> QED
    BY <1>5, <2>1, <2>2
<1>11. Meta \notin Chains
  BY <1>2, RootedFacts DEF Meta, Chains
<1>12. ~Heads(j, m)
  <2> SUFFICES ASSUME Heads(j, m) PROVE FALSE
    OBVIOUS
  <2> DEFINE e == Producer(j)
  <2>1. e \in Coros /\ e # c
    BY CoroFacts
  <2>2. 1 \in DOMAIN frames[e] /\ frames[e][1].chain = Par(chain, m)
    <3>1. frames[e] = <<Frame(Par(chain, m), {})>>
      BY DEF Heads, Bound
    <3> QED
      BY <3>1 DEF Frame
  <2>3. CASE m = d
    BY <1>1, <1>4, <2>1, <2>2, <2>3 DEF OnlyBy
  <2>4. CASE m # d
    <3>1. frames'[e] = frames[e]
      BY <1>1, <2>1 DEF Others
    <3>2. Upright(chain', frames'[e], call'[e])
      BY <2>1 DEF Whole
    <3>3. Alive(chain', Par(chain, m))
      BY <1>10, <1>11, <2>2, <2>4, <3>1, <3>2 DEF Upright
    <3> QED
      BY <1>10, <2>4, <3>3
  <2> QED
    BY <2>3, <2>4
<1>13. m = d
  <2> SUFFICES ASSUME m # d PROVE FALSE
    OBVIOUS
  <2> DEFINE e == Consumer(j)
  <2>1. e \in Coros /\ pc[e] \in {"remove", "find", "compare"} /\ call[e].child = m
    BY <1>9, <1>12, CoroFacts DEF Clears
  <2>2. call[e].on = Par(chain, m)
    BY <2>1 DEF Inv, Fits, ConsumerFits, Removing
  <2>3. CASE j = i
    <3>1. p \notin {Par(chain, m)}
      <4>1. d \notin Line(chain, p)
        <5>1. \A q \in Line(chain, p) : q <= p
          BY <1>1, <1>2, LineFacts DEF Chains
        <5>2. p < d /\ p \in Nat /\ d \in Nat
          BY <1>1, <1>2, <1>4, RootedFacts DEF Chains
        <5> QED
          BY <5>1, <5>2
      <4> QED
        BY <1>10, <4>1
    <3> QED
      BY <1>1, <2>2, <2>3, <3>1
  <2>4. CASE j # i
    <3>1. e # c
      BY <2>4, CoroFacts
    <3>2. call'[e] = call[e] /\ Upright(chain', frames'[e], call'[e])
      BY <1>1, <2>1, <3>1 DEF Others, Whole
    <3>3. Alive(chain', Par(chain, m))
      BY <1>10, <1>11, <2>2, <3>2 DEF Upright
    <3> QED
      BY <1>10, <3>3
  <2> QED
    BY <2>3, <2>4
<1>14. On(chain, d, 1)
  BY <1>9, <1>12, <1>13 DEF Clears
<1>15. Bare(chain, p)
  BY <1>1, <1>2, <1>4, <1>14 DEF Actives
<1>16. \A q \in Chains : d \in Line(chain, q) /\ Alive(chain, q) => q = d
  BY <1>5, <1>6, <1>13
<1> QED
  BY <1>14, <1>15, <1>16

(* Nothing destroyed comes back. *)
LEMMA NoRegain ==
  ASSUME Inv, [Next]_vars, Whole'
  PROVE  Whole
<1>1. CASE UNCHANGED <<chain, frames, call, pc>>
  BY <1>1 DEF Whole, Waits, Placed, Finalized
<1>2. ASSUME NEW c \in Coros, NEW D, NEW L, Gentle(c, D, L) PROVE Whole
  BY <1>2, WholeBack
<1>3. ASSUME NEW i \in Items, EraseChild(i) PROVE Whole
  <2>1. PICK p, d : Removes(i, p, d)
    BY <1>3, EraseChildFate
  <2>2. \/ Gentle(Consumer(i), {}, {})
        \/ \E L : Gentle(Consumer(i), Under(d), L)
    BY <2>1, RemovesGentle
  <2> QED
    BY <1>2, <2>2, CoroFacts
<1> QED
  BY <1>1, <1>2, <1>3, StepGentle

-----------------------------------------------------------------------------
(* A step leaves the tree and the run queue's flags alone, or is one of *)
(* these.                                                               *)
LEMMA StepKinds ==
  ASSUME Inv, [Next]_vars
  PROVE  \/ UNCHANGED <<chain, interrupted, stopped>>
         \/ Interrupt
         \/ \E i \in Items : \E p, g : Arrives(i, p, g) /\ (p = Root => ~interrupted)
         \/ \E i \in Items : \E p : PopsFrom(i, p)
         \/ \E i \in Items : \E d : GoesDown(i, d)
         \/ \E i \in Items : \E p, d : Removes(i, p, d)
<1> DEFINE Arrival == \E i \in Items : \E p, g : Arrives(i, p, g) /\ (p = Root => ~interrupted)
           Pop     == \E i \in Items : \E p : PopsFrom(i, p)
           Mark    == \E i \in Items : \E d : GoesDown(i, d)
           Removal == \E i \in Items : \E p, d : Removes(i, p, d)
           Still   == UNCHANGED <<chain, interrupted, stopped>>
<1>1. ASSUME NEW i \in Items, NEW t \in Tags, Reserve(i, t) PROVE Arrival
  <2>1. Arrives(i, Root, t)
    BY <1>1, ReserveFacts
  <2>2. ~interrupted
    BY <1>1 DEF Reserve
  <2> QED
    BY <2>1, <2>2
<1>2. ASSUME NEW i \in Items, Descend(i) PROVE Arrival
  <2>0. PICK g : g = tag[i]
    OBVIOUS
  <2>1. PICK p : Arrives(i, p, g) /\ pc[Producer(i)] = "descend"
    BY <1>2, <2>0, DescendFacts
  <2>2. p # Root
    BY <2>1 DEF Arrives, Comes
  <2> QED
    BY <2>1, <2>2
<1>3. ASSUME NEW i \in Items, PopItem(i) PROVE Pop
  BY <1>3, PopItemFate
<1>4. ASSUME NEW i \in Items, Activate(i) PROVE Still \/ Mark
  <2>1. GoesUp(i) => Still
    BY DEF GoesUp
  <2> QED
    BY <1>4, <2>1, ActivateFate
<1>5. ASSUME NEW i \in Items, EraseChild(i) PROVE Removal
  BY <1>5, EraseChildFate
<1>6. ASSUME NEW i \in Items, Reject(i) \/ Populate(i) \/ Get(i) \/ Finalize(i)
                                 \/ RemoveChild(i) \/ FindChild(i)
      PROVE  Still
  BY <1>6 DEF Reject, Populate, Get, Finalize, RemoveChild, FindChild
<1>7. ASSUME Done \/ UNCHANGED vars PROVE Still
  BY <1>7 DEF Done, vars
<1> HIDE DEF Arrival, Pop, Mark, Removal, Still
<1>8. Still \/ Interrupt \/ Arrival \/ Pop \/ Mark \/ Removal
  BY <1>1, <1>2, <1>3, <1>4, <1>5, <1>6, <1>7 DEF Next, Step
<1> QED
  BY <1>8 DEF Arrival, Pop, Mark, Removal, Still

-----------------------------------------------------------------------------
(* Up to the first destruction of a chain in use, no chain that has been *)
(* destroyed has left one behind below it.                               *)
Upheld == Whole => \A p \in Chains : Count(chain, p) > 0 => Alive(chain, p)

(* What has segments is alive. *)
LEMMA UpheldNext ==
  ASSUME Inv, Watched, Upheld, [Next]_vars
  PROVE  Upheld'
<1> SUFFICES ASSUME Whole', NEW q \in DOMAIN chain', Count(chain', q) > 0
             PROVE  Alive(chain', q)
  BY DEF Upheld, Chains
<1>1. /\ \A r \in Chains : Count(chain, r) > 0 => Alive(chain, r)
      /\ IsTree(chain) /\ Rooted(chain)
  BY NoRegain DEF Upheld, Inv, IsTree
<1>2. CASE UNCHANGED chain
  BY <1>1, <1>2 DEF Chains
<1>3. ASSUME NEW i \in Items, NEW p, NEW g, Arrives(i, p, g) PROVE Alive(chain', q)
  <2>1. /\ p \in Chains /\ Alive(chain, p) /\ g \in Tags /\ IsPrefix(chain[p].tag, g)
    BY <1>3 DEF Arrives
  <2>2. CASE \E K, M \in Nat : Joined(i, p, K, M)
    <3>1. PICK K, M \in Nat : Joined(i, p, K, M)
      BY <2>2
    <3>2. \A r \in Chains : Alive(chain', r) <=> Alive(chain, r)
      BY <2>1, <3>1, JoinTree
    <3>3. q \in Chains /\ (q # p => Count(chain', q) = Count(chain, q))
      BY <3>1 DEF Joined, Sown, Same, Chains
    <3> QED
      BY <1>1, <2>1, <3>2, <3>3
  <2>3. CASE chain[p].tag # g /\ Passed(i, p, First(g, Len(chain[p].tag) + 1))
    <3>0. PICK f, n : f = First(g, Len(chain[p].tag) + 1) /\ n = Len(chain) + 1
      OBVIOUS
    <3>1. /\ \A r \in Chains : Alive(chain', r) <=> Alive(chain, r)
          /\ Grown(chain, chain', p, n, f) => Alive(chain', n)
      BY <2>1, <2>3, <3>0, PassTree
    <3>2. Touched(chain, chain', p) \/ Grown(chain, chain', p, n, f)
      BY <2>3, <3>0 DEF Passed
    <3>3. \/ q \in Chains /\ Count(chain', q) = Count(chain, q)
          \/ q = n /\ Grown(chain, chain', p, n, f)
      BY <3>2 DEF Touched, Grown, Same, Chains
    <3> QED
      BY <1>1, <3>1, <3>3
  <2> QED
    BY <1>3, <2>2, <2>3 DEF Arrives
<1>4. ASSUME NEW i \in Items, NEW p, PopsFrom(i, p) PROVE Alive(chain', q)
  <2>1. p \in Chains /\ Popped(chain, chain', p)
    BY <1>4 DEF PopsFrom
  <2>2. \A r \in Chains : Alive(chain', r) <=> Alive(chain, r)
    BY <1>1, <2>1, PoppedTree DEF Chains
  <2>3. q \in Chains /\ Count(chain', q) = Count(chain, q)
    BY <2>1 DEF Popped, Same, Chains
  <2> QED
    BY <1>1, <2>2, <2>3
<1>5. ASSUME NEW i \in Items, NEW d, GoesDown(i, d) PROVE Alive(chain', q)
  <2>1. Marked(chain, chain', d)
    BY <1>5 DEF GoesDown
  <2>2. Same(chain, chain') /\ \A r \in Chains : Count(chain', r) = Count(chain, r)
    BY <2>1 DEF Marked, Chains
  <2>3. \A r \in Chains : Alive(chain', r) <=> Alive(chain, r)
    BY <1>1, <2>2, SameAlive DEF Chains
  <2> QED
    BY <1>1, <2>2, <2>3 DEF Same, Chains
<1>6. ASSUME NEW i \in Items, NEW p, NEW d, Removes(i, p, d) PROVE Alive(chain', q)
  <2>1. CASE FrontOf(d).version # call[Consumer(i)].version
    BY <1>2, <1>6, <2>1 DEF Removes
  <2>2. CASE FrontOf(d).version = call[Consumer(i)].version
    <3>1. /\ q \in Chains /\ Count(chain, q) > 0 /\ ~(Count(chain', d) > 0)
          /\ Alive(chain', q) <=> Alive(chain, q) /\ d \notin Line(chain, q)
      BY <1>6, <2>2, RemovedFacts DEF Chains
    <3>2. d \in Line(chain, q) => q = d
      BY <1>1, <1>6, <2>2, <3>1, ErasedUnused
    <3> QED
      BY <1>1, <3>1, <3>2
  <2> QED
    BY <2>1, <2>2
<1> QED
  BY <1>2, <1>3, <1>4, <1>5, <1>6, StepKinds DEF Interrupt

(* Always. *)
LEMMA AlwaysUpheld == Spec => [](Inv /\ Watched /\ Upheld)
<1>1. ASSUME Init PROVE Upheld
  <2>1. Inv /\ Chains = {Root} /\ Rooted(chain)
    BY <1>1, InitInv DEF Init, Chains, Root, Inv, IsTree
  <2>2. \A p \in Chains : Count(chain, p) > 0 => Alive(chain, p)
    BY <2>1, AliveFacts, RootedFacts DEF Chains
  <2> QED
    BY <2>2 DEF Upheld
<1>2. Inv /\ Watched /\ Upheld /\ [Next]_vars => Upheld'
  BY UpheldNext
<1> QED
  BY <1>1, <1>2, AlwaysWatched, PTL DEF Spec

(* The active segments of the chains that are alive have the shape. *)
LEMMA ActiveShapeFollows == Inv /\ Upheld => ActiveShape
<1> SUFFICES ASSUME Inv, Upheld, Intact,
                    NEW p \in Chains, NEW k \in DOMAIN chain[p].segments,
                    chain[p].segments[k].active
             PROVE  /\ k = 1
                    /\ p # Root => \E s \in ToSet(chain[chain[p].parent].segments) :
                                     p \in s.children /\ s.active /\ s.siblings = <<>>
  BY DEF ActiveShape
<1>1. IsTree(chain) /\ Rooted(chain) /\ Actives(chain)
  BY DEF Inv, IsTree
<1>2. On(chain, p, k) /\ Count(chain, p) > 0
  <2>1. DOMAIN chain[p].segments = 1..Count(chain, p) /\ Count(chain, p) \in Nat
    BY <1>1, RootedFacts DEF Chains
  <2> QED
    BY <2>1 DEF On, Act, Chains
<1>3. Alive(chain, p)
  BY <1>2, WholeIs DEF Upheld
<1>4. k = 1
  BY <1>1, <1>2, <1>3 DEF Actives
<1>5. ASSUME p # Root
      PROVE  \E s \in ToSet(chain[chain[p].parent].segments) :
               p \in s.children /\ s.active /\ s.siblings = <<>>
  <2> DEFINE q == chain[p].parent
             s == chain[q].segments[1]
  <2>1. q = Par(chain, p) /\ p \in Line(chain, p)
    BY <1>1, LineFacts DEF Par, Chains
  <2>2. PICK l : Kid(chain, q, l, p)
    BY <1>1, <1>3, <1>5, <2>1, AboveFacts DEF Chains
  <2>3. Kid(chain, q, 1, p) /\ On(chain, q, 1) /\ Bare(chain, q)
    BY <1>1, <1>2, <1>3, <1>4, <2>2 DEF Actives
  <2> HIDE DEF q
  <2>4. /\ q \in DOMAIN chain /\ 1 \in 1..Count(chain, q) /\ p \in Chi(chain, q, 1) /\ Act(chain, q, 1)
    BY <2>3 DEF Kid, On
  <2>5. /\ DOMAIN chain[q].segments = 1..Count(chain, q)
        /\ Sib(chain, q, 1) \in Seq(Items)
    BY <1>1, <2>4, RootedFacts
  <2>6. Sib(chain, q, 1) = <<>>
    <3> SUFFICES ASSUME Sib(chain, q, 1) # <<>> PROVE FALSE
      OBVIOUS
    <3>1. 1 \in 1..Len(Sib(chain, q, 1))
      BY <2>5
    <3>2. At(chain, q, 1, 1, Sib(chain, q, 1)[1])
      BY <2>4, <3>1 DEF At
    <3> QED
      BY <2>3, <3>2 DEF Bare
  <2>7. s \in ToSet(chain[q].segments)
    BY <2>4, <2>5 DEF ToSet
  <2>8. p \in s.children /\ s.active /\ s.siblings = <<>>
    BY <2>4, <2>6 DEF Chi, Act, Sib
  <2> HIDE DEF s
  <2> QED
    BY <2>7, <2>8 DEF q
<1> QED
  BY <1>4, <1>5

(* Only the first segment of a chain is active, and below the root only    *)
(* one whose parent segment is active and has no items of its own left     *)
(* (forque.hpp:301, 382).                                                  *)
THEOREM ForqueActiveShape == Spec => []ActiveShape
<1> QED
  BY AlwaysUpheld, ActiveShapeFollows, PTL

-----------------------------------------------------------------------------
(* An interrupted root that is vacant has stopped the run queue; and no    *)
(* other has, up to the first destruction of a chain in use.               *)
Silent == /\ interrupted /\ Vacant(chain) => stopped
          /\ Whole /\ stopped => interrupted /\ Vacant(chain)

(* A step that leaves the root's items and children, and the flags. *)
LEMMA SilentKept ==
  ASSUME Inv, Silent, [Next]_vars, UNCHANGED <<interrupted, stopped>>,
         \A k, m, x : At(chain', Root, k, m, x) <=> At(chain, Root, k, m, x),
         \A k, d : Kid(chain', Root, k, d) <=> Kid(chain, Root, k, d)
  PROVE  Silent'
<1>1. Vacant(chain') <=> Vacant(chain)
  BY DEF Vacant
<1>2. Whole' => Whole
  BY NoRegain
<1> QED
  BY <1>1, <1>2 DEF Silent

(* A step after which the root is not vacant, and was not before. *)
LEMMA SilentFull ==
  ASSUME Silent, UNCHANGED stopped, ~Vacant(chain), ~Vacant(chain'), Inv, [Next]_vars
  PROVE  Silent'
<1>1. Whole' => Whole
  BY NoRegain
<1> QED
  BY <1>1 DEF Silent

(* A step that may stop the run queue, and leaves the root vacant if so. *)
LEMMA SilentStops ==
  ASSUME Silent, stopped' = (stopped \/ interrupted), UNCHANGED interrupted,
         ~Vacant(chain), Whole' => Vacant(chain'), Inv, [Next]_vars
  PROVE  Silent'
<1>1. Whole' => Whole
  BY NoRegain
<1>2. interrupted \in BOOLEAN /\ stopped \in BOOLEAN
  BY DEF Inv, Types
<1> QED
  BY <1>1, <1>2 DEF Silent

(* The reservations. *)
LEMMA SilentArrive ==
  ASSUME Inv, Silent, [Next]_vars, NEW i \in Items, NEW p, NEW g, Arrives(i, p, g),
         p = Root => ~interrupted
  PROVE  Silent'
<1>1. p \in Chains /\ Root \in Chains
  BY RootedFacts DEF Arrives, Inv, IsTree, Chains
<1>2. \/ \E K, M : Sown(chain, chain', p, i, K, M)
      \/ Touched(chain, chain', p)
      \/ \E n, f : Grown(chain, chain', p, n, f)
  BY DEF Arrives, Joined, Passed
<1>3. UNCHANGED <<interrupted, stopped>>
  BY DEF Arrives, Joined, Passed
<1>4. CASE p = Root
  <2>1. ~interrupted' /\ (Whole => ~stopped)
    BY <1>3, <1>4 DEF Silent
  <2>2. Whole' => Whole
    BY NoRegain
  <2> QED
    BY <1>3, <2>1, <2>2 DEF Silent
<1>5. CASE p # Root
  <2>1. /\ \A k, m, x : At(chain', Root, k, m, x) <=> At(chain, Root, k, m, x)
        /\ \A k, d : Kid(chain', Root, k, d) <=> Kid(chain, Root, k, d)
    BY <1>2, <1>5 DEF Sown, Touched, Grown
  <2> QED
    BY <1>3, <2>1, SilentKept
<1> QED
  BY <1>4, <1>5

(* The pops. *)
LEMMA SilentPop ==
  ASSUME Inv, Silent, [Next]_vars, NEW i \in Items, NEW p, PopsFrom(i, p)
  PROVE  Silent'
<1>1. /\ At(chain, p, 1, 1, i) /\ Popped(chain, chain', p) /\ UNCHANGED interrupted
      /\ \/ (\E j : At(chain', p, 1, 1, j)) /\ UNCHANGED stopped
         \/ (\E d : Kid(chain', p, 1, d)) /\ UNCHANGED stopped
         \/ p # Root /\ UNCHANGED stopped
         \/ p = Root /\ Vacant(chain') /\ stopped' = (stopped \/ interrupted)
  BY Zenon DEF PopsFrom
<1>2. CASE p # Root
  <2>1. /\ \A k, m, x : At(chain', Root, k, m, x) <=> At(chain, Root, k, m, x)
        /\ \A k, d : Kid(chain', Root, k, d) <=> Kid(chain, Root, k, d)
    BY <1>1, <1>2 DEF Popped
  <2> QED
    BY <1>1, <1>2, <2>1, SilentKept
<1>3. CASE p = Root
  <2>1. ~Vacant(chain)
    BY <1>1, <1>3 DEF Vacant
  <2>2. \/ ~Vacant(chain') /\ UNCHANGED stopped
        \/ Vacant(chain') /\ stopped' = (stopped \/ interrupted)
    BY <1>1, <1>3 DEF Vacant
  <2> QED
    BY <1>1, <2>1, <2>2, SilentFull, SilentStops
<1> QED
  BY <1>2, <1>3

(* The removals. *)
LEMMA SilentRemove ==
  ASSUME Inv, Watched, Silent, [Next]_vars, NEW i \in Items, NEW p, NEW d, Removes(i, p, d)
  PROVE  Silent'
<1> DEFINE same == FrontOf(d).version = call[Consumer(i)].version
<1>1. /\ Kid(chain, p, 1, d) /\ d # Root /\ UNCHANGED interrupted
      /\ \/ UNCHANGED <<chain, stopped>>
         \/ /\ Cut(chain, chain', p, d) /\ \E e : e # d /\ Kid(chain, p, 1, e)
            /\ UNCHANGED stopped
         \/ Cut(chain, chain', p, d) /\ p # Root /\ UNCHANGED stopped
         \/ /\ same /\ Cut(chain, chain', p, d) /\ \A e : Kid(chain, p, 1, e) => e = d
            /\ Count(chain, p) = 1 /\ p = Root
            /\ stopped' = (stopped \/ interrupted)
         \/ /\ Moved(chain, chain', p, d) /\ \E j : At(chain', p, 1, 1, j)
            /\ UNCHANGED stopped
  <2>1. Kid(chain, p, 1, d) /\ d # Root /\ UNCHANGED interrupted
    BY DEF Removes
  <2> QED
    BY <2>1, Zenon DEF Removes
<1>2. CASE UNCHANGED <<chain, stopped>>
  BY <1>1, <1>2, SilentKept
<1>3. CASE p # Root /\ UNCHANGED stopped /\ (Cut(chain, chain', p, d) \/ Moved(chain, chain', p, d))
  <2>1. /\ \A k, m, x : At(chain', Root, k, m, x) <=> At(chain, Root, k, m, x)
        /\ \A k, e : Kid(chain', Root, k, e) <=> Kid(chain, Root, k, e)
    BY <1>1, <1>3 DEF Cut, Moved
  <2> QED
    BY <1>1, <1>3, <2>1, SilentKept
<1>4. CASE p = Root /\ UNCHANGED stopped
           /\ \/ Cut(chain, chain', p, d) /\ \E e : e # d /\ Kid(chain, p, 1, e)
              \/ \E j : At(chain', p, 1, 1, j)
  <2>1. ~Vacant(chain)
    BY <1>1, <1>4 DEF Vacant
  <2>2. ~Vacant(chain')
    <3>1. CASE Cut(chain, chain', p, d) /\ \E e : e # d /\ Kid(chain, p, 1, e)
      <4>1. \E e : Kid(chain', p, 1, e)
        BY <1>1, <1>4, <3>1 DEF Cut
      <4> QED
        BY <1>4, <4>1 DEF Vacant
    <3>2. CASE \E j : At(chain', p, 1, 1, j)
      BY <1>4, <3>2 DEF Vacant
    <3> QED
      BY <1>4, <3>1, <3>2
  <2> QED
    BY <1>4, <2>1, <2>2, SilentFull
<1>5. CASE /\ same /\ Cut(chain, chain', p, d) /\ \A e : Kid(chain, p, 1, e) => e = d
           /\ Count(chain, p) = 1 /\ p = Root
           /\ stopped' = (stopped \/ interrupted)
  <2>1. ~Vacant(chain)
    BY <1>1, <1>5 DEF Vacant
  <2>2. ASSUME Whole' PROVE Vacant(chain')
    <3>1. Bare(chain, Root)
      BY <1>5, <2>2, ErasedUnused
    <3>2. Rooted(chain)
      BY DEF Inv, IsTree
    <3>3. ASSUME NEW k, NEW m, NEW x, At(chain', Root, k, m, x) PROVE FALSE
      <4>1. At(chain, Root, k, m, x)
        BY <1>5, <3>3 DEF Cut
      <4>2. k \in Nat /\ 1 <= k /\ k <= Count(chain, Root) /\ \E y \in Items : At(chain, Root, k, 1, y)
        BY <3>2, <4>1, AtFacts
      <4>3. k = 1
        BY <1>5, <4>2
      <4> QED
        BY <3>1, <4>2, <4>3 DEF Bare
    <3>4. ASSUME NEW k, NEW e, Kid(chain', Root, k, e) PROVE FALSE
      <4>1. Kid(chain, Root, k, e) /\ ~(k = 1 /\ e = d)
        BY <1>5, <3>4 DEF Cut
      <4>2. k \in Nat /\ 1 <= k /\ k <= Count(chain, Root)
        BY <3>2, <4>1, AtFacts
      <4>3. k = 1
        BY <1>5, <4>2
      <4> QED
        BY <1>5, <4>1, <4>3
    <3> QED
      BY <3>3, <3>4 DEF Vacant
  <2> QED
    BY <1>1, <1>5, <2>1, <2>2, SilentStops
<1> HIDE DEF same
<1> QED
  BY <1>1, <1>2, <1>3, <1>4, <1>5

(* Every step keeps it. *)
LEMMA SilentNext ==
  ASSUME Inv, Watched, Silent, [Next]_vars
  PROVE  Silent'
<1>1. CASE UNCHANGED <<chain, interrupted, stopped>>
  BY <1>1, SilentKept
<1>2. CASE Interrupt
  <2>1. /\ ~interrupted /\ interrupted' = TRUE /\ UNCHANGED chain
        /\ stopped' = (FrontOf(Root).siblings = <<>> /\ FrontOf(Root).children = {})
    BY <1>2 DEF Interrupt
  <2>2. stopped' <=> Vacant(chain)
    <3>1. /\ Vacant(chain) <=> Sib(chain, Root, 1) = <<>> /\ Chi(chain, Root, 1) = {}
          /\ FrontOf(Root) = chain[Root].segments[1]
      BY VacantFacts DEF Inv, FrontOf
    <3> QED
      BY <2>1, <3>1 DEF Sib, Chi
  <2>3. Vacant(chain') <=> Vacant(chain)
    BY <2>1 DEF Vacant
  <2> QED
    BY <2>1, <2>2, <2>3 DEF Silent
<1>3. ASSUME NEW i \in Items, NEW d, GoesDown(i, d) PROVE Silent'
  <2>1. Marked(chain, chain', d) /\ UNCHANGED <<interrupted, stopped>>
    BY <1>3 DEF GoesDown
  <2>2. /\ \A k, m, x : At(chain', Root, k, m, x) <=> At(chain, Root, k, m, x)
        /\ \A k, e : Kid(chain', Root, k, e) <=> Kid(chain, Root, k, e)
    BY <2>1 DEF Marked
  <2> QED
    BY <2>1, <2>2, SilentKept
<1> QED
  BY <1>1, <1>2, <1>3, SilentArrive, SilentPop, SilentRemove, StepKinds

(* Always. *)
LEMMA AlwaysSilent == Spec => [](Inv /\ Watched /\ Silent)
<1>1. ASSUME Init PROVE Silent
  <2>1. interrupted = FALSE /\ stopped = FALSE
    BY <1>1 DEF Init
  <2> QED
    BY <2>1 DEF Silent
<1>2. Inv /\ Watched /\ Silent /\ [Next]_vars => Silent'
  BY SilentNext
<1> QED
  BY <1>1, <1>2, AlwaysWatched, PTL DEF Spec

(* With nobody inside and nothing pending the root is vacant. *)
LEMMA InterruptHeardFollows == Inv /\ Watched /\ Silent => InterruptHeard
<1> SUFFICES ASSUME Inv, Watched, Silent, Quiet, interrupted, \A i \in Items : ~Pending(i)
             PROVE  stopped
  BY DEF InterruptHeard
<1>1. /\ IsTree(chain) /\ Rooted(chain) /\ Linked(chain) /\ Headed(chain)
      /\ Root \in Chains
  BY RootedFacts DEF Inv, IsTree, Chains
<1>2. \A k, m, x : ~At(chain, Root, k, m, x)
  BY PlacedWaits
<1>3. ASSUME NEW k, NEW d, Kid(chain, Root, k, d) PROVE FALSE
  <2>1. d \in Chains /\ d # Root /\ Par(chain, d) = Root /\ Count(chain, d) > 0
    BY <1>1, <1>3 DEF Linked, Chains
  <2>2. chain[d].segments # <<>> /\ chain[Root].segments # <<>>
    BY <1>1, <2>1, RootedFacts DEF Headed, Chains
  <2>3. Alive(chain, d)
    BY <1>1, <2>1, <2>2, AliveFacts DEF Chains
  <2> QED
    BY <2>1, <2>3, Inhabited
<1> QED
  BY <1>2, <1>3 DEF Silent, Vacant

(* With nobody inside and nothing pending, an interrupted forque has       *)
(* stopped its consumers: interrupt and the last finalize do not each      *)
(* leave it to the other (forque.hpp:218, 443).                            *)
THEOREM ForqueInterruptHeard == Spec => []InterruptHeard
<1> QED
  BY AlwaysSilent, InterruptHeardFollows, PTL

-----------------------------------------------------------------------------
(* What the clients see of an item depends on its two coroutines. *)
LEMMA StatusKept ==
  ASSUME NEW j, pc'[Producer(j)] = pc[Producer(j)], pc'[Consumer(j)] = pc[Consumer(j)]
  PROVE  Status(j)' = Status(j)
BY DEF Status, Finalized, Taken

(* A coroutine is either's of one item. *)
LEMMA StatusOthers ==
  ASSUME NEW i \in Items, NEW c, c = Producer(i) \/ c = Consumer(i), Others(c),
         NEW j \in Items, j # i
  PROVE  Status(j)' = Status(j)
<1>1. /\ Producer(j) \in Coros /\ Consumer(j) \in Coros
      /\ Producer(j) # c /\ Consumer(j) # c
  BY CoroFacts
<1> QED
  BY <1>1, StatusKept DEF Others

(* What an item is seen to be, and that it is pending. *)
LEMMA StatusFacts ==
  ASSUME Inv, NEW i \in Items
  PROVE  /\ pc[Producer(i)] \in {"new", "rejected"} => Status(i) = pc[Producer(i)]
         /\ pc[Producer(i)] \in {"descend", "reserved"} => Status(i) = "reserved"
         /\ pc[Producer(i)] \in {"new", "rejected", "descend", "reserved"} => pc[Consumer(i)] = "get"
         /\ i \in filled <=> pc[Producer(i)] = "populated"
         /\ pc[Consumer(i)] = "get" /\ pc[Producer(i)] = "populated" => Status(i) = "reserved"
         /\ Taken(i) => Status(i) = "served"
         /\ Finalized(i) => Status(i) = "finalized"
         /\ Pending(i) <=> Status(i) \in {"reserved", "served"}
<1>1. /\ pc[Producer(i)] \in {"new", "rejected", "descend", "reserved", "populated"}
      /\ pc[Consumer(i)] \in {"get", "retained", "finalize", "activate", "remove", "find",
                              "compare", "finalized"}
      /\ pc[Consumer(i)] # "get" => pc[Producer(i)] = "populated"
      /\ i \in filled <=> pc[Producer(i)] = "populated"
  BY DEF Inv, Types, Label, Tokens, Ever
<1> QED
  BY <1>1 DEF Status, Finalized, Taken, Pending

(* An item goes on, the others stay. *)
LEMMA MoveIs ==
  ASSUME NEW i \in Items, NEW a, NEW b, Status(i) = a, Status(i)' = b,
         \A j \in Items : j # i => Status(j)' = Status(j)
  PROVE  Promise!Move(i, a, b)
<1>1. [j \in Items |-> Status(j)]' = [[j \in Items |-> Status(j)] EXCEPT ![i] = b]
  OBVIOUS
<1> QED
  BY <1>1 DEF Promise!Move

(* A step that no client sees. *)
LEMMA Unseen ==
  ASSUME \A j \in Items : Status(j)' = Status(j),
         UNCHANGED <<tag, before, filled, interrupted, stopped>>
  PROVE  UNCHANGED Promise!vars
BY DEF Promise!vars

-----------------------------------------------------------------------------
(* A chain in the tree is the root, or the root has a child. *)
LEMMA RootBusy ==
  ASSUME NEW t, IsTree(t), NEW p \in DOMAIN t, Alive(t, p), Vacant(t)
  PROVE  p = Root
<1> SUFFICES ASSUME p # Root PROVE FALSE
  OBVIOUS
<1>1. Rooted(t) /\ Root \in Line(t, p) /\ p \in Line(t, p)
  BY LineFacts, LineChild DEF IsTree
<1>2. PICK d \in Line(t, p) : d # Root /\ Par(t, d) = Root
  BY <1>1, LineChild
<1>3. \E k : Kid(t, Root, k, d)
  BY <1>2, AboveFacts
<1> QED
  BY <1>3 DEF Vacant

(* In a vacant tree nothing is pending, if nothing in use has been *)
(* destroyed.                                                      *)
LEMMA VacantIdle ==
  ASSUME Inv, Whole, Vacant(chain), NEW i \in Items
  PROVE  ~Pending(i)
<1> SUFFICES ASSUME Pending(i) PROVE FALSE
  OBVIOUS
<1>1. IsTree(chain) /\ Chains = DOMAIN chain /\ Producer(i) \in Coros
  BY CoroFacts DEF Inv, Chains
<1>2. pc[Producer(i)] \in {"descend", "reserved", "populated"} /\ ~Finalized(i)
  BY DEF Inv, Types, Label, Pending
<1>3. CASE pc[Producer(i)] = "descend"
  <2>1. Descending(chain, frames[Producer(i)], tag[i])
    BY <1>3 DEF Inv, Fits, ProducerFits
  <2>2. PICK p \in DOMAIN chain :
          /\ frames[Producer(i)] = <<Frame(p, {})>>
          /\ Alive(chain, p) => \E d : Kid(chain, p, Count(chain, p), d)
    BY <2>1 DEF Descending
  <2>3. frames[Producer(i)][1].chain = p /\ 1 \in DOMAIN frames[Producer(i)]
    BY <2>2 DEF Frame
  <2>4. p # Meta
    BY <1>1, <2>2, RootedFacts DEF IsTree, Meta
  <2>5. Alive(chain, p)
    <3>1. Upright(chain, frames[Producer(i)], call[Producer(i)])
      BY <1>1 DEF Whole
    <3> QED
      BY <2>3, <2>4, <3>1 DEF Upright
  <2>6. p = Root
    BY <1>1, <2>2, <2>5, RootBusy
  <2> QED
    BY <2>2, <2>5, <2>6 DEF Vacant
<1>4. CASE pc[Producer(i)] \in {"reserved", "populated"}
  <2>1. There(chain, i)
    BY <1>2, <1>4 DEF Waits, Placed, Whole
  <2>2. PICK p, k, m : At(chain, p, k, m, i) /\ Alive(chain, p)
    BY <2>1 DEF There
  <2>3. p \in DOMAIN chain
    BY <2>2 DEF At
  <2>4. p = Root
    BY <1>1, <2>2, <2>3, RootBusy
  <2> QED
    BY <2>2, <2>4 DEF Vacant
<1> QED
  BY <1>2, <1>3, <1>4

(* The run queue is stopped by an interrupt only, with nothing pending. *)
Rightly == Whole /\ stopped =>
             interrupted /\ \A i \in Items : Status(i) \notin {"reserved", "served"}

(* It is. *)
LEMMA StoppedRightly == Inv /\ Silent => Rightly
<1> SUFFICES ASSUME Inv, Silent, Whole, stopped
             PROVE  interrupted /\ \A i \in Items : Status(i) \notin {"reserved", "served"}
  BY DEF Rightly
<1>1. interrupted /\ Vacant(chain)
  BY DEF Silent
<1> QED
  BY <1>1, VacantIdle, StatusFacts


(* What is seen of an item in the next state. *)
LEMMA StatusNext ==
  ASSUME NEW i
  PROVE  /\ pc'[Producer(i)] \in {"new", "rejected"} => Status(i)' = pc'[Producer(i)]
         /\ pc'[Producer(i)] \notin {"new", "rejected"} =>
              /\ pc'[Consumer(i)] = "get" => Status(i)' = "reserved"
              /\ pc'[Consumer(i)] \in {"retained", "finalize"} => Status(i)' = "served"
              /\ pc'[Consumer(i)] \in {"activate", "remove", "find", "compare", "finalized"} =>
                   Status(i)' = "finalized"
BY DEF Status, Finalized, Taken

-----------------------------------------------------------------------------
(* Reserve is Reserve. *)
LEMMA ReserveImplements ==
  ASSUME Inv, NEW i \in Items, NEW t \in Tags, Reserve(i, t)
  PROVE  Promise!Reserve(i, t)
<1>1. /\ Arrives(i, Root, t) /\ pc[Producer(i)] = "new"
      /\ before' = [before EXCEPT ![i] = {j \in Items : Pending(j) /\ Related(tag[j], t)}]
      /\ tag' = [tag EXCEPT ![i] = t] /\ ~interrupted
  BY ReserveFacts DEF Reserve
<1>2. /\ Others(Producer(i)) /\ pc'[Producer(i)] \in {"descend", "reserved", "populated"}
      /\ filled' \in {filled, filled \cup {i}} /\ UNCHANGED <<interrupted, stopped>>
  <2>1. CASE \E K, M \in Nat : Joined(i, Root, K, M)
    BY <2>1 DEF Joined
  <2>2. CASE Passed(i, Root, First(t, Len(chain[Root].tag) + 1))
    BY <2>2 DEF Passed
  <2> QED
    BY <1>1, <2>1, <2>2 DEF Arrives
<1>3. pc'[Consumer(i)] = "get"
  BY <1>1, <1>2, StatusFacts, CoroFacts DEF Others
<1>4. Promise!Move(i, "new", "reserved")
  <2>1. Status(i) = "new"
    BY <1>1, StatusFacts
  <2>2. Status(i)' = "reserved"
    BY <1>2, <1>3, StatusNext
  <2> QED
    BY <1>2, <2>1, <2>2, MoveIs, StatusOthers
<1>5. \A j \in Items : Promise!Pending(j) <=> Pending(j)
  BY StatusFacts DEF Promise!Pending
<1>6. \A j \in Items : Promise!Related(tag[j], t) <=> Related(tag[j], t)
  BY DEF Promise!Related, Related, Promise!IsPrefix, IsPrefix
<1>7. {j \in Items : Promise!Pending(j) /\ Promise!Related(tag[j], t)} =
        {j \in Items : Pending(j) /\ Related(tag[j], t)}
  BY <1>5, <1>6
<1> QED
  BY <1>1, <1>2, <1>4, <1>7 DEF Promise!Reserve

(* Reject is Refuse. *)
LEMMA RejectImplements ==
  ASSUME Inv, NEW i \in Items, Reject(i)
  PROVE  Promise!Refuse(i)
<1>1. /\ pc[Producer(i)] = "new" /\ interrupted
      /\ pc' = [pc EXCEPT ![Producer(i)] = "rejected"]
      /\ UNCHANGED <<tag, before, filled, interrupted, stopped>>
  BY DEF Reject
<1>2. DOMAIN pc = Coros
  BY DEF Inv, Types
<1>3. \A j \in Items : j # i => Status(j)' = Status(j)
  <2> SUFFICES ASSUME NEW j \in Items, j # i PROVE Status(j)' = Status(j)
    OBVIOUS
  <2>1. pc'[Producer(j)] = pc[Producer(j)] /\ pc'[Consumer(j)] = pc[Consumer(j)]
    BY <1>1, <1>2, CoroFacts
  <2> QED
    BY <2>1, StatusKept
<1>4. Status(i) = "new" /\ Status(i)' = "rejected"
  BY <1>1, <1>2, StatusFacts, StatusNext, CoroFacts
<1> QED
  BY <1>1, <1>3, <1>4, MoveIs DEF Promise!Refuse

-----------------------------------------------------------------------------
(* A step of the item's consumer from and to places that look the same. *)
LEMMA ConsumerUnseen ==
  ASSUME Inv, NEW i \in Items, Others(Consumer(i)),
         \/ /\ pc[Consumer(i)] \in {"retained", "finalize"}
            /\ pc'[Consumer(i)] \in {"retained", "finalize"}
         \/ /\ pc[Consumer(i)] \in {"activate", "remove", "find", "compare", "finalized"}
            /\ pc'[Consumer(i)] \in {"activate", "remove", "find", "compare", "finalized"},
         NEW j \in Items
  PROVE  Status(j)' = Status(j)
<1>1. CASE j # i
  BY <1>1, StatusOthers
<1>2. CASE j = i
  <2>1. pc'[Producer(i)] = pc[Producer(i)] /\ pc[Producer(i)] = "populated"
    BY CoroFacts DEF Others, Inv, Tokens, Ever
  <2> QED
    BY <1>2, <2>1, StatusNext, StatusFacts DEF Taken, Finalized
<1> QED
  BY <1>1, <1>2

(* Descend is Populate, if the item has its value with it and has come to *)
(* its chain; else it is not seen.                                        *)
LEMMA DescendImplements ==
  ASSUME Inv, NEW i \in Items, Descend(i)
  PROVE  Promise!Populate(i) \/ UNCHANGED Promise!vars
<1>1. PICK g : g = tag[i]
  OBVIOUS
<1>2. PICK p : Arrives(i, p, g) /\ pc[Producer(i)] = "descend"
  BY <1>1, DescendFacts
<1>3. UNCHANGED <<tag, before>>
  BY DescendFacts
<1>4. /\ Others(Producer(i)) /\ pc'[Producer(i)] \in {"descend", "reserved", "populated"}
      /\ filled' \in {filled, filled \cup {i}} /\ UNCHANGED <<interrupted, stopped>>
  <2>1. CASE \E K, M \in Nat : Joined(i, p, K, M)
    BY <2>1 DEF Joined
  <2>2. CASE Passed(i, p, First(g, Len(chain[p].tag) + 1))
    BY <2>2 DEF Passed
  <2> QED
    BY <1>2, <2>1, <2>2 DEF Arrives
<1>5. Status(i) = "reserved" /\ Status(i)' = "reserved"
  <2>1. pc'[Consumer(i)] = "get"
    BY <1>2, <1>4, StatusFacts, CoroFacts DEF Others
  <2> QED
    BY <1>2, <1>4, <2>1, StatusFacts, StatusNext
<1>6. \A j \in Items : Status(j)' = Status(j)
  BY <1>4, <1>5, StatusOthers
<1>7. CASE filled' = filled
  BY <1>3, <1>4, <1>6, <1>7, Unseen
<1>8. CASE filled' = filled \cup {i}
  <2>1. [j \in Items |-> Status(j)]' = [j \in Items |-> Status(j)]
    BY <1>6
  <2> QED
    BY <1>3, <1>4, <1>5, <1>8, <2>1 DEF Promise!Populate
<1> QED
  BY <1>4, <1>7, <1>8

(* Populate is Populate. *)
LEMMA PopulateImplements ==
  ASSUME Inv, NEW i \in Items, Populate(i)
  PROVE  Promise!Populate(i)
<1>1. /\ pc[Producer(i)] = "reserved" /\ filled' = filled \cup {i}
      /\ pc' = [pc EXCEPT ![Producer(i)] = "populated"]
      /\ UNCHANGED <<tag, before, interrupted, stopped>>
  BY DEF Populate
<1>2. Others(Producer(i)) /\ DOMAIN pc = Coros
  BY PopulateGentle DEF Gentle, Inv, Types
<1>3. Status(i) = "reserved" /\ Status(i)' = "reserved"
  BY <1>1, <1>2, StatusFacts, StatusNext, CoroFacts
<1>4. [j \in Items |-> Status(j)]' = [j \in Items |-> Status(j)]
  BY <1>2, <1>3, StatusOthers
<1> QED
  BY <1>1, <1>3, <1>4 DEF Promise!Populate

(* Get is Serve: the order is kept. *)
LEMMA GetImplements ==
  ASSUME Inv, Intact, NEW i \in Items, Get(i)
  PROVE  Promise!Serve(i)
<1>1. /\ pc[Consumer(i)] = "get" /\ ready[i] > 0
      /\ pc' = [pc EXCEPT ![Consumer(i)] = "retained"]
      /\ UNCHANGED <<tag, before, filled, interrupted, stopped>>
  BY DEF Get
<1>2. Others(Consumer(i)) /\ DOMAIN pc = Coros
  BY GetGentle DEF Gentle, Inv, Types
<1>3. pc[Producer(i)] = "populated" /\ i \in filled
  BY <1>1 DEF Inv, Tokens, Ever
<1>4. Status(i) = "reserved" /\ Status(i)' = "served"
  BY <1>1, <1>2, <1>3, StatusFacts, StatusNext, CoroFacts
<1>5. Promise!Move(i, "reserved", "served")
  BY <1>2, <1>4, MoveIs, StatusOthers
<1>6. before[i] \subseteq Items
  BY DEF Inv, Types
<1>7. \A j \in before[i] : Finalized(j)
  BY <1>1, RelatedOrderFollows DEF RelatedOrder, Offered
<1>8. \A j \in before[i] : [x \in Items |-> Status(x)][j] = "finalized"
  BY <1>6, <1>7, StatusFacts
<1> QED
  BY <1>1, <1>3, <1>5, <1>8 DEF Promise!Serve

(* A step that may stop the run queue does so rightly. *)
LEMMA StopsRightly ==
  ASSUME Inv, Rightly', Whole', stopped => stopped', stopped' \in BOOLEAN
  PROVE  Promise!MayStop
<1>1. stopped' => interrupted' /\ \A i \in Items : Status(i)' \notin {"reserved", "served"}
  BY DEF Rightly
<1> QED
  BY <1>1 DEF Promise!MayStop, Promise!Pending

(* The pop of the item is Finalize. *)
LEMMA PopImplements ==
  ASSUME Inv, Rightly', Whole', NEW i \in Items, PopItem(i)
  PROVE  Promise!Finalize(i)
<1>1. PICK p : PopsFrom(i, p)
  BY PopItemFate
<1>2. /\ pc[Consumer(i)] = "finalize" /\ Others(Consumer(i))
      /\ UNCHANGED <<tag, before, filled, interrupted>>
      /\ pc'[Consumer(i)] \in {"activate", "remove", "finalized"}
      /\ UNCHANGED stopped \/ stopped' = (stopped \/ interrupted)
  <2>1. /\ pc[Consumer(i)] = "finalize" /\ Others(Consumer(i))
        /\ UNCHANGED <<tag, before, filled, interrupted>>
    BY <1>1 DEF PopsFrom
  <2>2. \/ Ends(Consumer(i)) /\ UNCHANGED stopped
        \/ (\E fs : Wakes(Consumer(i), fs)) /\ UNCHANGED stopped
        \/ Cleans(Consumer(i), p) /\ UNCHANGED stopped
        \/ Ends(Consumer(i)) /\ stopped' = (stopped \/ interrupted)
    BY <1>1, Zenon DEF PopsFrom
  <2> QED
    BY <2>1, <2>2 DEF Ends, Wakes, Cleans
<1>3. stopped \in BOOLEAN /\ interrupted \in BOOLEAN
  BY DEF Inv, Types
<1>4. Promise!MayStop
  <2>1. (stopped => stopped') /\ stopped' \in BOOLEAN
    BY <1>2, <1>3
  <2> QED
    BY <2>1, StopsRightly
<1>5. pc[Producer(i)] = "populated" /\ pc'[Producer(i)] = pc[Producer(i)]
  BY <1>2, CoroFacts DEF Others, Inv, Tokens, Ever
<1>6. Status(i) = "served" /\ Status(i)' = "finalized"
  BY <1>2, <1>5, StatusFacts, StatusNext DEF Taken
<1>7. Promise!Move(i, "served", "finalized")
  BY <1>2, <1>6, MoveIs, StatusOthers
<1> QED
  BY <1>2, <1>4, <1>7 DEF Promise!Finalize

(* A removal is not seen, or is Stop. *)
LEMMA EraseImplements ==
  ASSUME Inv, Rightly', Whole', NEW i \in Items, EraseChild(i)
  PROVE  Promise!Stop
<1>1. PICK p, d : Removes(i, p, d)
  BY EraseChildFate
<1>2. /\ pc[Consumer(i)] = "compare" /\ Others(Consumer(i))
      /\ UNCHANGED <<tag, before, filled, interrupted>>
      /\ pc'[Consumer(i)] \in {"remove", "finalized"}
      /\ UNCHANGED stopped \/ stopped' = (stopped \/ interrupted)
  <2>1. /\ pc[Consumer(i)] = "compare" /\ Others(Consumer(i))
        /\ UNCHANGED <<tag, before, filled, interrupted>>
    BY <1>1 DEF Removes
  <2>2. \/ Ends(Consumer(i)) /\ UNCHANGED stopped
        \/ Cleans(Consumer(i), p) /\ UNCHANGED stopped
        \/ Ends(Consumer(i)) /\ stopped' = (stopped \/ interrupted)
    BY <1>1, Zenon DEF Removes
  <2> QED
    BY <2>1, <2>2 DEF Ends, Cleans
<1>3. stopped \in BOOLEAN /\ interrupted \in BOOLEAN
  BY DEF Inv, Types
<1>4. Promise!MayStop
  <2>1. (stopped => stopped') /\ stopped' \in BOOLEAN
    BY <1>2, <1>3
  <2> QED
    BY <2>1, StopsRightly
<1>5. [j \in Items |-> Status(j)]' = [j \in Items |-> Status(j)]
  BY <1>2, ConsumerUnseen
<1> QED
  BY <1>2, <1>4, <1>5 DEF Promise!Stop

(* Interrupt is Interrupt. *)
LEMMA InterruptImplements ==
  ASSUME Inv, Silent, Whole, Rightly', Whole', Interrupt
  PROVE  Promise!Interrupt
<1>1. /\ ~interrupted /\ interrupted' = TRUE
      /\ stopped' = (FrontOf(Root).siblings = <<>> /\ FrontOf(Root).children = {})
      /\ UNCHANGED <<pc, tag, before, filled>>
  BY DEF Interrupt
<1>2. ~stopped /\ stopped' \in BOOLEAN
  BY <1>1 DEF Silent
<1>3. Promise!MayStop
  BY <1>2, StopsRightly
<1>4. [j \in Items |-> Status(j)]' = [j \in Items |-> Status(j)]
  BY <1>1, StatusKept
<1> QED
  BY <1>1, <1>3, <1>4 DEF Promise!Interrupt

(* What a consumer does that is not seen. *)
LEMMA WorkUnseen ==
  ASSUME Inv, NEW i \in Items,
         Finalize(i) \/ Activate(i) \/ RemoveChild(i) \/ FindChild(i)
  PROVE  UNCHANGED Promise!vars
<1>1. CASE Finalize(i)
  <2>1. pc[Consumer(i)] = "retained" /\ pc' = [pc EXCEPT ![Consumer(i)] = "finalize"]
        /\ UNCHANGED <<tag, before, filled, interrupted, stopped>>
    BY <1>1 DEF Finalize
  <2>2. Others(Consumer(i)) /\ pc'[Consumer(i)] = "finalize"
    BY <1>1, <2>1, FinalizeGentle, CoroFacts DEF Gentle, Inv, Types
  <2> QED
    BY <2>1, <2>2, ConsumerUnseen, Unseen
<1>2. CASE Activate(i)
  <2>1. /\ pc[Consumer(i)] = "activate" /\ Others(Consumer(i))
        /\ UNCHANGED <<tag, before, filled, interrupted, stopped>>
        /\ Ends(Consumer(i)) \/ \E fs : Wakes(Consumer(i), fs)
    BY <1>2, ActivateFate, Zenon DEF GoesUp, GoesDown
  <2>2. pc'[Consumer(i)] \in {"activate", "finalized"}
    BY <2>1 DEF Ends, Wakes
  <2> QED
    BY <2>1, <2>2, ConsumerUnseen, Unseen
<1>3. CASE RemoveChild(i)
  <2>1. pc[Consumer(i)] = "remove" /\ pc' = [pc EXCEPT ![Consumer(i)] = "find"]
        /\ UNCHANGED <<tag, before, filled, interrupted, stopped>>
    BY <1>3 DEF RemoveChild
  <2>2. Others(Consumer(i)) /\ pc'[Consumer(i)] = "find"
    BY <1>3, <2>1, RemoveGentle, CoroFacts DEF Gentle, Inv, Types
  <2> QED
    BY <2>1, <2>2, ConsumerUnseen, Unseen
<1>4. CASE FindChild(i)
  <2>1. /\ pc[Consumer(i)] = "find"
        /\ pc' = [pc EXCEPT ![Consumer(i)] = "finalized"] \/ pc' = [pc EXCEPT ![Consumer(i)] = "compare"]
        /\ UNCHANGED <<tag, before, filled, interrupted, stopped>>
    BY <1>4 DEF FindChild, Finish
  <2>2. Others(Consumer(i)) /\ pc'[Consumer(i)] \in {"compare", "finalized"}
    BY <1>4, <2>1, FindGentle, CoroFacts DEF Gentle, Inv, Types
  <2> QED
    BY <2>1, <2>2, ConsumerUnseen, Unseen
<1> QED
  BY <1>1, <1>2, <1>3, <1>4

(* Every step is one of RelatedQueue, or is not seen. *)
LEMMA NextImplements ==
  ASSUME Inv, Silent, Rightly', [Next]_vars, Whole'
  PROVE  [Promise!Next]_(Promise!vars)
<1>1. Whole /\ Intact
  BY NoRegain, WholeIs
<1>2. ASSUME NEW i \in Items, NEW t \in Tags, Reserve(i, t) PROVE Promise!Next
  BY <1>2, ReserveImplements DEF Promise!Next
<1>3. ASSUME NEW i \in Items, Reject(i) PROVE Promise!Next
  BY <1>3, RejectImplements DEF Promise!Next
<1>4. ASSUME NEW i \in Items, Populate(i) PROVE Promise!Next
  BY <1>4, PopulateImplements DEF Promise!Next
<1>5. ASSUME NEW i \in Items, Get(i) PROVE Promise!Next
  BY <1>1, <1>5, GetImplements DEF Promise!Next
<1>6. ASSUME NEW i \in Items, Descend(i) PROVE [Promise!Next]_(Promise!vars)
  BY <1>6, DescendImplements DEF Promise!Next
<1>7. ASSUME NEW i \in Items, PopItem(i) PROVE Promise!Next
  BY <1>7, PopImplements DEF Promise!Next
<1>8. ASSUME NEW i \in Items, EraseChild(i) PROVE Promise!Next
  BY <1>8, EraseImplements DEF Promise!Next
<1>9. ASSUME NEW i \in Items, Finalize(i) \/ Activate(i) \/ RemoveChild(i) \/ FindChild(i)
      PROVE  UNCHANGED Promise!vars
  BY <1>9, WorkUnseen
<1>10. ASSUME Interrupt PROVE Promise!Next
  BY <1>1, <1>10, InterruptImplements DEF Promise!Next
<1>11. ASSUME Done \/ UNCHANGED vars PROVE UNCHANGED Promise!vars
  <2>1. UNCHANGED <<pc, tag, before, filled, interrupted, stopped>>
    BY <1>11 DEF Done, vars
  <2>2. \A j \in Items : Status(j)' = Status(j)
    BY <2>1, StatusKept
  <2> QED
    BY <2>1, <2>2, Unseen
<1> QED
  BY <1>2, <1>3, <1>4, <1>5, <1>6, <1>7, <1>8, <1>9, <1>10, <1>11 DEF Next, Step

(* Every step, up to the first destruction of a chain in use, is one of    *)
(* RelatedQueue, or invisible to the clients.                              *)
THEOREM ForqueIsRelatedQueue == Spec => ImplementsRelatedQueue
<1>1. Init => Promise!Init
  <2> SUFFICES ASSUME Init PROVE Promise!Init
    OBVIOUS
  <2>1. \A i \in Items : Status(i) = "new"
    <3>1. \A i \in Items : pc[Producer(i)] = "new"
      BY CoroFacts DEF Init
    <3> QED
      BY <3>1 DEF Status
  <2> QED
    BY <2>1 DEF Init, Promise!Init
<1>2. Inv /\ Silent /\ Rightly' /\ Inv' /\ [Next]_vars =>
        [Intact' => Promise!Next]_(Promise!vars)
  <2> SUFFICES ASSUME Inv, Silent, Rightly', Inv', [Next]_vars, Intact'
               PROVE  [Promise!Next]_(Promise!vars)
    OBVIOUS
  <2>1. Whole'
    BY WholeIsNext
  <2> QED
    BY <2>1, NextImplements
<1> QED
  BY <1>1, <1>2, AlwaysSilent, StoppedRightly, PTL DEF Spec, ImplementsRelatedQueue

-----------------------------------------------------------------------------
(* a child that is still to be activated by somebody at p *)
Due(fs, p, d) == \E n \in DOMAIN fs : fs[n].chain = p /\ d \in fs[n].todo
Todo(p, d)    == \E c \in Coros : Due(frames[c], p, d)

(* Up to the first destruction of a chain in use, a populated item that is *)
(* the first of an active segment has been offered.                        *)
Called ==
  Whole => \A p, x :
    At(chain, p, 1, 1, x) /\ Alive(chain, p) /\ On(chain, p, 1) /\ x \in filled => Ever(x)

(* Under an active segment without items the children are active, or are *)
(* about to be.                                                          *)
Reached ==
  \A p, d :
    Kid(chain, p, 1, d) /\ Alive(chain, p) /\ On(chain, p, 1) /\ Bare(chain, p) =>
      On(chain, d, 1) \/ Todo(p, d)

(* Of two related items that are pending one waits for the other. *)
Lined == \A i, j \in Items :
           i # j /\ Pending(i) /\ Pending(j) /\ Related(tag[i], tag[j]) =>
             i \in before[j] \/ j \in before[i]

(* a step that leaves the tree alone, and nobody's work undone *)
Rests == /\ UNCHANGED <<chain, filled>>
         /\ \A x \in Items : Ever(x) => Ever(x)'
         /\ \A p, d : Todo(p, d) => Todo(p, d)'

(* Who has no children to activate. *)
LEMMA NothingDue ==
  ASSUME NEW p, NEW d
  PROVE  /\ ~Due(<<>>, p, d)
         /\ \A q : ~Due(<<Frame(q, {})>>, p, d)
         /\ \A q, r : ~Due(<<Frame(q, {}), Frame(r, {})>>, p, d)
BY DEF Due, Frame

(* Only those that activate children have any to activate. *)
LEMMA DueActivates ==
  ASSUME Inv, NEW i \in Items, NEW p, NEW d
  PROVE  /\ ~Due(frames[Producer(i)], p, d)
         /\ pc[Consumer(i)] # "activate" => ~Due(frames[Consumer(i)], p, d)
<1>1. ~Due(frames[Producer(i)], p, d)
  <2>1. \/ frames[Producer(i)] = <<>>
        \/ \E q : frames[Producer(i)] = <<Frame(q, {})>>
    BY DEF Inv, Fits, ProducerFits, Descending
  <2> QED
    BY <2>1, NothingDue
<1>2. ASSUME pc[Consumer(i)] # "activate" PROVE ~Due(frames[Consumer(i)], p, d)
  <2>1. pc[Consumer(i)] \in {"get", "retained", "finalize", "activate", "remove", "find",
                             "compare", "finalized"}
    BY DEF Inv, Types, Label
  <2>2. \/ frames[Consumer(i)] = <<>>
        \/ \E q : frames[Consumer(i)] = <<Frame(q, {})>>
        \/ \E q, r : frames[Consumer(i)] = <<Frame(q, {}), Frame(r, {})>>
    BY <1>2, <2>1 DEF Inv, Fits, ConsumerFits, Finalizing
  <2> QED
    BY <2>2, NothingDue
<1> QED
  BY <1>1, <1>2

(* What is to be done by a coroutine that does not move is still to be done. *)
LEMMA TodoKept ==
  ASSUME NEW c \in Coros, Others(c), NEW p, NEW d, Todo(p, d),
         Due(frames[c], p, d) => Due(frames'[c], p, d)
  PROVE  Todo(p, d)'
<1>1. PICK e \in Coros : Due(frames[e], p, d)
  BY DEF Todo
<1>2. Due(frames'[e], p, d)
  BY <1>1 DEF Others
<1> QED
  BY <1>2 DEF Todo

(* The same when it has nothing to do. *)
LEMMA TodoOthers ==
  ASSUME Inv, NEW i \in Items, NEW c, Others(c),
         c = Producer(i) \/ (c = Consumer(i) /\ pc[c] # "activate"),
         NEW p, NEW d, Todo(p, d)
  PROVE  Todo(p, d)'
BY DueActivates, TodoKept, CoroFacts

(* An item that has been offered stays so, if its consumer does not start *)
(* again and none is taken from the run queue.                            *)
LEMMA EverKept ==
  ASSUME Inv, NEW c, Others(c), pc'[c] # "get", NEW S, Put(S) \/ UNCHANGED ready,
         NEW x \in Items, Ever(x)
  PROVE  Ever(x)'
<1>1. CASE pc[Consumer(x)] # "get"
  <2>1. pc'[Consumer(x)] # "get"
    BY <1>1, CoroFacts DEF Others
  <2> QED
    BY <2>1 DEF Ever
<1>2. CASE ready[x] > 0
  <2>1. ready \in [Items -> Nat]
    BY DEF Inv, Types
  <2>2. ready'[x] = ready[x] \/ ready'[x] = ready[x] + 1
    BY <2>1, PutFacts
  <2>3. ready'[x] > 0
    BY <1>2, <2>1, <2>2
  <2> QED
    BY <2>3 DEF Ever
<1> QED
  BY <1>1, <1>2 DEF Ever

(* One that is put into a running queue is offered. *)
LEMMA EverPut ==
  ASSUME Inv, ~stopped, NEW S, Put(S), NEW x \in Items, x \in S
  PROVE  Ever(x)'
<1>1. ready \in [Items -> Nat]
  BY DEF Inv, Types
<1>2. ready'[x] = ready[x] + 1 /\ ready[x] \in Nat
  BY <1>1, PutFacts
<1>3. ready'[x] > 0
  BY <1>2
<1> QED
  BY <1>3 DEF Ever

(* The run queue is not stopped with something pending, or a chain below *)
(* the root.                                                             *)
LEMMA NotStopped ==
  ASSUME Inv, Silent, Whole
  PROVE  /\ (\E i \in Items : Pending(i)) => ~stopped
         /\ (\E p \in Chains : p # Root /\ Alive(chain, p)) => ~stopped
         /\ ~interrupted => ~stopped
<1>1. stopped => Vacant(chain) /\ interrupted
  BY DEF Silent
<1>2. Vacant(chain) => \A i \in Items : ~Pending(i)
  BY VacantIdle
<1>3. Vacant(chain) => \A p \in Chains : Alive(chain, p) => p = Root
  BY RootBusy DEF Inv, Chains
<1> QED
  BY <1>1, <1>2, <1>3

-----------------------------------------------------------------------------
(* What the steps do that leave the tree alone. *)
LEMMA GetRests ==
  ASSUME Inv, NEW i \in Items, Get(i)
  PROVE  Rests
<1>1. /\ pc[Consumer(i)] = "get" /\ ready' = [ready EXCEPT ![i] = @ - 1]
      /\ pc' = [pc EXCEPT ![Consumer(i)] = "retained"]
      /\ UNCHANGED <<chain, frames, filled>>
  BY DEF Get
<1>2. DOMAIN pc = Coros /\ ready \in [Items -> Nat]
  BY DEF Inv, Types
<1>3. ASSUME NEW x \in Items, Ever(x) PROVE Ever(x)'
  <2>1. CASE x = i
    BY <1>1, <1>2, <2>1, CoroFacts DEF Ever
  <2>2. CASE x # i
    <3>1. ready'[x] = ready[x] /\ pc'[Consumer(x)] = pc[Consumer(x)]
      BY <1>1, <1>2, <2>2, CoroFacts
    <3> QED
      BY <1>3, <3>1 DEF Ever
  <2> QED
    BY <2>1, <2>2
<1>4. \A p, d : Todo(p, d) => Todo(p, d)'
  BY <1>1 DEF Todo
<1> QED
  BY <1>1, <1>3, <1>4 DEF Rests

(* A coroutine that has let go of its last child goes up. *)
LEMMA UpRests ==
  ASSUME Inv, NEW i \in Items, GoesUp(i)
  PROVE  Rests
<1> DEFINE c == Consumer(i)
<1>1. /\ Last(frames[c]).todo = {} /\ Others(c) /\ UNCHANGED <<chain, ready, filled>>
      /\ pc'[c] \in {"activate", "finalized"} /\ frames'[c] = Front(frames[c])
  BY DEF GoesUp, Ends, Wakes
<1>2. frames[c] # <<>> /\ frames[c] \in Seq(FrameType) /\ c \in Coros
  BY CoroFacts DEF GoesUp, Inv, Fits, ConsumerFits, Types
<1>3. ASSUME NEW p, NEW d, Due(frames[c], p, d) PROVE Due(Front(frames[c]), p, d)
  <2> DEFINE fs == frames[c]
  <2>1. Len(fs) \in Nat /\ Len(fs) > 0 /\ DOMAIN fs = 1..Len(fs)
    BY <1>2
  <2>2. /\ DOMAIN Front(fs) = 1..(Len(fs) - 1) /\ Last(fs) = fs[Len(fs)]
        /\ \A n \in 1..(Len(fs) - 1) : Front(fs)[n] = fs[n]
    BY <1>2, <2>1, FrontFacts
  <2>3. PICK n \in DOMAIN fs : fs[n].chain = p /\ d \in fs[n].todo
    BY <1>3 DEF Due
  <2>4. n # Len(fs)
    BY <1>1, <2>2, <2>3
  <2>5. n \in 1..(Len(fs) - 1)
    BY <2>1, <2>3, <2>4
  <2> QED
    BY <2>2, <2>3, <2>5 DEF Due
<1>4. \A p, d : Todo(p, d) => Todo(p, d)'
  BY <1>1, <1>2, <1>3, TodoKept
<1>5. \A x \in Items : Ever(x) => Ever(x)'
  BY <1>1, EverKept
<1> QED
  BY <1>1, <1>4, <1>5 DEF Rests

(* So do those on their way to a lock, and those that change nothing. *)
LEMMA WayRests ==
  ASSUME Inv, NEW i \in Items, NEW c, Gentle(c, {}, {}),
         UNCHANGED <<chain, ready, filled>>, pc'[c] # "get",
         c = Producer(i) \/ (c = Consumer(i) /\ pc[c] # "activate")
  PROVE  Rests
<1>1. Others(c)
  BY DEF Gentle
<1>2. \A x \in Items : Ever(x) => Ever(x)'
  BY <1>1, EverKept
<1>3. \A p, d : Todo(p, d) => Todo(p, d)'
  BY <1>1, TodoOthers
<1> QED
  BY <1>2, <1>3 DEF Rests

(* A step leaves the tree alone, or is one of these. *)
LEMMA StepRests ==
  ASSUME Inv, [Next]_vars
  PROVE  \/ Rests
         \/ \E i \in Items : Populate(i)
         \/ \E i \in Items : \E p, g : Arrives(i, p, g) /\ (p = Root => ~interrupted)
         \/ \E i \in Items : \E p : PopsFrom(i, p)
         \/ \E i \in Items : \E d : GoesDown(i, d)
         \/ \E i \in Items : \E p, d : Removes(i, p, d)
<1> DEFINE Arrival == \E i \in Items : \E p, g : Arrives(i, p, g) /\ (p = Root => ~interrupted)
           Pop     == \E i \in Items : \E p : PopsFrom(i, p)
           Mark    == \E i \in Items : \E d : GoesDown(i, d)
           Removal == \E i \in Items : \E p, d : Removes(i, p, d)
<1>1. ASSUME NEW i \in Items, NEW t \in Tags, Reserve(i, t) PROVE Arrival
  <2>1. Arrives(i, Root, t) /\ ~interrupted
    BY <1>1, ReserveFacts DEF Reserve
  <2> QED
    BY <2>1
<1>2. ASSUME NEW i \in Items, Descend(i) PROVE Arrival
  <2>0. PICK g : g = tag[i]
    OBVIOUS
  <2>1. PICK p : Arrives(i, p, g) /\ pc[Producer(i)] = "descend"
    BY <1>2, <2>0, DescendFacts
  <2>2. p # Root
    BY <2>1 DEF Arrives, Comes
  <2> QED
    BY <2>1, <2>2
<1>3. ASSUME NEW i \in Items, PopItem(i) PROVE Pop
  BY <1>3, PopItemFate
<1>4. ASSUME NEW i \in Items, Activate(i) PROVE Rests \/ Mark
  BY <1>4, UpRests, ActivateFate
<1>5. ASSUME NEW i \in Items, EraseChild(i) PROVE Removal
  BY <1>5, EraseChildFate
<1>6. ASSUME NEW i \in Items, Finalize(i) \/ RemoveChild(i) \/ FindChild(i) PROVE Rests
  <2> DEFINE c == Consumer(i)
  <2>1. UNCHANGED <<chain, ready, filled>> /\ Gentle(c, {}, {}) /\ pc[c] # "activate"
    BY <1>6, FinalizeGentle, RemoveGentle, FindGentle DEF Finalize, RemoveChild, FindChild
  <2>2. pc'[c] # "get"
    <3>1. /\ c \in Coros /\ DOMAIN pc = Coros
          /\ \E w \in {"finalize", "find", "compare", "finalized"} : pc' = [pc EXCEPT ![c] = w]
      BY <1>6, CoroFacts DEF Finalize, RemoveChild, FindChild, Finish, Inv, Types
    <3> QED
      BY <3>1
  <2> QED
    BY <2>1, <2>2, WayRests
<1>7. ASSUME NEW i \in Items, Reject(i) PROVE Rests
  <2>1. /\ UNCHANGED <<chain, ready, filled>> /\ Gentle(Producer(i), {}, {})
        /\ pc' = [pc EXCEPT ![Producer(i)] = "rejected"]
    BY <1>7, RejectGentle DEF Reject
  <2>2. pc'[Producer(i)] # "get"
    BY <2>1, CoroFacts DEF Inv, Types
  <2> QED
    BY <2>1, <2>2, WayRests
<1>8. ASSUME Interrupt \/ Done \/ UNCHANGED vars PROVE Rests
  <2>1. UNCHANGED <<chain, frames, pc, ready, filled>>
    BY <1>8 DEF Interrupt, Done, vars
  <2> QED
    BY <2>1 DEF Rests, Ever, Todo
<1> HIDE DEF Arrival, Pop, Mark, Removal
<1>9. Rests \/ (\E i \in Items : Populate(i)) \/ Arrival \/ Pop \/ Mark \/ Removal
  BY <1>1, <1>2, <1>3, <1>4, <1>5, <1>6, <1>7, <1>8, GetRests DEF Next, Step
<1> QED
  BY <1>9 DEF Arrival, Pop, Mark, Removal

-----------------------------------------------------------------------------
(* A step after which no more is pending, and that changes no tag. *)
LEMMA LinedKept ==
  ASSUME Lined, UNCHANGED <<tag, before>>, \A i \in Items : Pending(i)' => Pending(i)
  PROVE  Lined'
BY DEF Lined

(* A reservation waits for all that is pending and related. *)
LEMMA LinedReserve ==
  ASSUME Inv, Lined, NEW i \in Items, NEW t \in Tags, Reserve(i, t)
  PROVE  Lined'
<1>1. /\ pc[Producer(i)] = "new" /\ Others(Producer(i))
      /\ before' = [before EXCEPT ![i] = {j \in Items : Pending(j) /\ Related(tag[j], t)}]
      /\ tag' = [tag EXCEPT ![i] = t]
  <2>1. Arrives(i, Root, t)
    BY ReserveFacts
  <2>2. Others(Producer(i))
    BY <2>1 DEF Arrives, Joined, Passed
  <2> QED
    BY <2>2 DEF Reserve
<1>2. before \in [Items -> SUBSET Items] /\ tag \in [Items -> Tags \cup {<<>>}]
  BY DEF Inv, Types
<1>3. ~Pending(i)
  BY <1>1 DEF Pending
<1>4. ASSUME NEW j \in Items, j # i
      PROVE  /\ Pending(j)' <=> Pending(j)
             /\ tag'[j] = tag[j] /\ before'[j] = before[j]
  <2>1. pc'[Producer(j)] = pc[Producer(j)] /\ pc'[Consumer(j)] = pc[Consumer(j)]
    BY <1>1, <1>4, CoroFacts DEF Others
  <2> QED
    BY <1>1, <1>2, <1>4, <2>1 DEF Pending, Finalized
<1>5. ASSUME NEW j \in Items, j # i, Pending(j), Related(tag[j], t) PROVE j \in before'[i]
  BY <1>1, <1>2, <1>5
<1>6. tag'[i] = t /\ \A s : Related(s, t) <=> Related(t, s)
  BY <1>1, <1>2 DEF Related
<1>7. ASSUME NEW j \in Items, NEW l \in Items, j # l, Pending(j)', Pending(l)',
             Related(tag'[j], tag'[l])
      PROVE  j \in before'[l] \/ l \in before'[j]
  <2>1. CASE j = i
    <3>1. Pending(l) /\ Related(tag[l], t)
      BY <1>4, <1>6, <1>7, <2>1
    <3> QED
      BY <1>5, <1>7, <2>1, <3>1
  <2>2. CASE l = i
    <3>1. Pending(j) /\ Related(tag[j], t)
      BY <1>4, <1>6, <1>7, <2>2
    <3> QED
      BY <1>5, <1>7, <2>2, <3>1
  <2>3. CASE j # i /\ l # i
    BY <1>4, <1>7, <2>3 DEF Lined
  <2> QED
    BY <2>1, <2>2, <2>3
<1> QED
  BY <1>7 DEF Lined

(* No other step makes an item pending: what is seen of it is ordered. *)
LEMMA PendingKept ==
  ASSUME Inv, NEW c, Others(c), NEW i \in Items, c = Producer(i) \/ c = Consumer(i),
         pc[c] \notin {"new", "rejected"} \/ pc'[c] \in {"new", "rejected"},
         pc[c] \in {"activate", "remove", "find", "compare", "finalized"} =>
           pc'[c] \in {"activate", "remove", "find", "compare", "finalized"},
         NEW j \in Items, Pending(j)'
  PROVE  Pending(j)
<1>1. CASE j # i
  <2>1. pc'[Producer(j)] = pc[Producer(j)] /\ pc'[Consumer(j)] = pc[Consumer(j)]
    BY <1>1, CoroFacts DEF Others
  <2> QED
    BY <2>1 DEF Pending, Finalized
<1>2. CASE j = i /\ c = Producer(i)
  <2>1. pc'[Consumer(i)] = pc[Consumer(i)]
    BY <1>2, CoroFacts DEF Others
  <2> QED
    BY <1>2, <2>1 DEF Pending, Finalized
<1>3. CASE j = i /\ c = Consumer(i)
  <2>1. pc'[Producer(i)] = pc[Producer(i)]
    BY <1>3, CoroFacts DEF Others
  <2> QED
    BY <1>3, <2>1 DEF Pending, Finalized
<1> QED
  BY <1>1, <1>2, <1>3

(* Every step keeps the lines. *)
LEMMA LinedNext ==
  ASSUME Inv, Lined, [Next]_vars
  PROVE  Lined'
<1>1. ASSUME NEW i \in Items, NEW c, Others(c), c = Producer(i) \/ c = Consumer(i),
             pc[c] \notin {"new", "rejected"} \/ pc'[c] \in {"new", "rejected"},
             pc[c] \in {"activate", "remove", "find", "compare", "finalized"} =>
               pc'[c] \in {"activate", "remove", "find", "compare", "finalized"},
             UNCHANGED <<tag, before>>
      PROVE  Lined'
  BY <1>1, PendingKept, LinedKept
<1>2. ASSUME NEW i \in Items, Descend(i) PROVE Lined'
  <2>0. PICK g : g = tag[i]
    OBVIOUS
  <2>1. PICK p : Arrives(i, p, g) /\ pc[Producer(i)] = "descend"
    BY <1>2, <2>0, DescendFacts
  <2>2. Others(Producer(i)) /\ UNCHANGED <<tag, before>>
    BY <1>2, <2>1, DescendFacts DEF Arrives, Joined, Passed
  <2> QED
    BY <1>1, <2>1, <2>2
<1>3. ASSUME NEW i \in Items, Populate(i) \/ Reject(i) PROVE Lined'
  <2>1. /\ Others(Producer(i)) /\ UNCHANGED <<tag, before>>
        /\ \/ pc[Producer(i)] = "reserved"
           \/ pc[Producer(i)] = "new" /\ pc' = [pc EXCEPT ![Producer(i)] = "rejected"]
    BY <1>3, PopulateGentle, RejectGentle DEF Gentle, Populate, Reject
  <2>2. DOMAIN pc = Coros /\ Producer(i) \in Coros
    BY CoroFacts DEF Inv, Types
  <2> QED
    BY <1>1, <2>1, <2>2
<1>4. ASSUME NEW i \in Items, Get(i) \/ Finalize(i) \/ RemoveChild(i) \/ FindChild(i)
      PROVE  Lined'
  <2>1. /\ Others(Consumer(i)) /\ UNCHANGED <<tag, before>>
        /\ pc[Consumer(i)] \in {"get", "retained", "remove", "find"}
        /\ pc[Consumer(i)] \in {"remove", "find"} =>
             \E w \in {"find", "compare", "finalized"} : pc' = [pc EXCEPT ![Consumer(i)] = w]
    BY <1>4, GetGentle, FinalizeGentle, RemoveGentle, FindGentle
    DEF Gentle, Get, Finalize, RemoveChild, FindChild, Finish
  <2>2. DOMAIN pc = Coros /\ Consumer(i) \in Coros
    BY CoroFacts DEF Inv, Types
  <2> QED
    BY <1>1, <2>1, <2>2
<1>5. ASSUME NEW i \in Items, PopItem(i) PROVE Lined'
  <2>1. PICK p : PopsFrom(i, p)
    BY <1>5, PopItemFate
  <2>2. pc[Consumer(i)] = "finalize" /\ Others(Consumer(i)) /\ UNCHANGED <<tag, before>>
    BY <2>1 DEF PopsFrom
  <2> QED
    BY <1>1, <2>2
<1>6. ASSUME NEW i \in Items, Activate(i) PROVE Lined'
  <2>1. /\ pc[Consumer(i)] = "activate" /\ Others(Consumer(i)) /\ UNCHANGED <<tag, before>>
        /\ Ends(Consumer(i)) \/ \E fs : Wakes(Consumer(i), fs)
    BY <1>6, ActivateFate, Zenon DEF GoesUp, GoesDown
  <2> QED
    BY <1>1, <2>1 DEF Ends, Wakes
<1>7. ASSUME NEW i \in Items, EraseChild(i) PROVE Lined'
  <2>1. PICK p, d : Removes(i, p, d)
    BY <1>7, EraseChildFate
  <2>2. pc[Consumer(i)] = "compare" /\ Others(Consumer(i)) /\ UNCHANGED <<tag, before>>
    BY <2>1 DEF Removes
  <2>3. Ends(Consumer(i)) \/ Cleans(Consumer(i), p)
    BY <2>1, Zenon DEF Removes
  <2> QED
    BY <1>1, <2>2, <2>3 DEF Ends, Cleans
<1>8. CASE Interrupt \/ Done \/ UNCHANGED vars
  <2>1. UNCHANGED <<pc, tag, before>>
    BY <1>8 DEF Interrupt, Done, vars
  <2> QED
    BY <2>1, LinedKept DEF Pending, Finalized
<1> QED
  BY <1>2, <1>3, <1>4, <1>5, <1>6, <1>7, <1>8, LinedReserve DEF Next, Step

-----------------------------------------------------------------------------
(* Where a step leaves an item the first of an active segment, it has been *)
(* so before, or is offered now.                                           *)
LEMMA CalledKept ==
  ASSUME Called, Whole' => Whole, \A x \in Items : Ever(x) => Ever(x)',
         \A p, x : Whole' /\ At(chain', p, 1, 1, x) /\ Alive(chain', p)
                   /\ On(chain', p, 1) /\ x \in filled' =>
           Ever(x)' \/ (/\ At(chain, p, 1, 1, x) /\ Alive(chain, p)
                        /\ On(chain, p, 1) /\ x \in filled /\ x \in Items)
  PROVE  Called'
<1>1. ASSUME Whole', NEW p, NEW x, At(chain', p, 1, 1, x), Alive(chain', p),
             On(chain', p, 1), x \in filled'
      PROVE  Ever(x)'
  BY <1>1 DEF Called
<1> QED
  BY <1>1 DEF Called

(* The items offered in a step of c stay so. *)
LEMMA CalledArrive ==
  ASSUME Inv, Silent, Called, [Next]_vars, NEW i \in Items, NEW p, NEW g,
         Arrives(i, p, g), p = Root => ~interrupted
  PROVE  Called'
<1>1. /\ p \in Chains /\ Alive(chain, p) /\ g \in Tags /\ IsPrefix(chain[p].tag, g)
      /\ Rooted(chain) /\ IsTree(chain) /\ Chains = DOMAIN chain
  BY DEF Arrives, Inv, IsTree, Chains
<1>2. Whole' => Whole
  BY NoRegain
<1>3. ASSUME NEW K \in Nat, NEW M \in Nat, Joined(i, p, K, M) PROVE Called'
  <2>1. PICK S \in SUBSET {i} :
          /\ Put(S)
          /\ i \in S <=> i \in filled' /\ K = Count(chain, p) /\ M = 1 /\ On(chain, p, K)
    BY <1>3 DEF Joined
  <2>2. \A x \in Items : Ever(x) => Ever(x)'
    <3>1. Others(Producer(i)) /\ pc'[Producer(i)] # "get"
      BY <1>3 DEF Joined
    <3> QED
      BY <2>1, <3>1, EverKept
  <2>3. /\ \A q \in Chains : Alive(chain', q) <=> Alive(chain, q)
        /\ Sown(chain, chain', p, i, K, M) /\ filled' \in {filled, filled \cup {i}}
    BY <1>1, <1>3, JoinTree DEF Joined
  <2>4. ASSUME Whole', NEW q, NEW x, At(chain', q, 1, 1, x), Alive(chain', q),
               On(chain', q, 1), x \in filled'
        PROVE  \/ /\ At(chain, q, 1, 1, x) /\ Alive(chain, q)
                  /\ On(chain, q, 1) /\ x \in filled /\ x \in Items
               \/ Ever(x)'
    <3>1. CASE x = i
      <4>1. q = p /\ K = 1 /\ M = 1
        BY <1>3, <2>3, <2>4, <3>1 DEF Sown, Joined
      <4>2. On(chain, p, 1)
        BY <2>3, <2>4, <4>1 DEF Sown
      <4>3. K = Count(chain, p)
        <5>1. Count(chain, p) \in Nat /\ 1 <= Count(chain, p) /\ K \in {Count(chain, p), Count(chain, p) + 1}
          BY <1>1, <2>3, <4>2, AtFacts, RootedFacts DEF Sown
        <5> QED
          BY <4>1, <5>1
      <4>4. i \in S
        BY <2>1, <2>4, <3>1, <4>1, <4>2, <4>3
      <4>5. ~stopped
        BY <1>1, <1>2, <2>4, NotStopped
      <4> QED
        BY <2>1, <3>1, <4>4, <4>5, EverPut
    <3>2. CASE x # i
      <4>1. At(chain, q, 1, 1, x) /\ On(chain, q, 1) /\ x \in filled
        BY <2>3, <2>4, <3>2 DEF Sown
      <4>2. q \in Chains /\ x \in Items
        BY <1>1, <4>1, AtFacts
      <4> QED
        BY <2>3, <2>4, <4>1, <4>2
    <3> QED
      BY <3>1, <3>2
  <2> QED
    BY <1>2, <2>2, <2>4, CalledKept
<1>4. ASSUME chain[p].tag # g, Passed(i, p, First(g, Len(chain[p].tag) + 1)) PROVE Called'
  <2>0. PICK f, n : f = First(g, Len(chain[p].tag) + 1) /\ n = Len(chain) + 1
    OBVIOUS
  <2>1. /\ \A q \in Chains : Alive(chain', q) <=> Alive(chain, q)
        /\ Grown(chain, chain', p, n, f) => n \notin Chains
    BY <1>1, <1>4, <2>0, PassTree
  <2>2. /\ Touched(chain, chain', p) \/ Grown(chain, chain', p, n, f)
        /\ UNCHANGED <<filled, ready>> /\ Others(Producer(i)) /\ pc'[Producer(i)] # "get"
    BY <1>4, <2>0 DEF Passed
  <2>3. \A x \in Items : Ever(x) => Ever(x)'
    BY <2>2, EverKept
  <2>4. ASSUME NEW q, NEW x, At(chain', q, 1, 1, x), Alive(chain', q), On(chain', q, 1)
        PROVE  At(chain, q, 1, 1, x) /\ Alive(chain, q) /\ On(chain, q, 1) /\ x \in Items
    <3>1. At(chain, q, 1, 1, x)
      BY <2>2, <2>4 DEF Touched, Grown
    <3>2. q \in Chains /\ x \in Items
      BY <1>1, <3>1, AtFacts
    <3>3. On(chain, q, 1)
      BY <2>1, <2>2, <2>4, <3>2 DEF Touched, Grown
    <3> QED
      BY <2>1, <2>4, <3>1, <3>2, <3>3
  <2> QED
    BY <1>2, <2>2, <2>3, <2>4, CalledKept
<1> QED
  BY <1>3, <1>4 DEF Arrives

(* A release offers the item, if it is the first of an active segment. *)
LEMMA CalledPopulate ==
  ASSUME Inv, Silent, Called, [Next]_vars, NEW i \in Items, Populate(i)
  PROVE  Called'
<1> DEFINE first == /\ chain[Owner(i)].segments[SegmentOf(i)].active /\ SegmentOf(i) = 1
                    /\ chain[Owner(i)].segments[SegmentOf(i)].siblings[1] = i
           S == IF first THEN {i} ELSE {}
<1>1. /\ pc[Producer(i)] = "reserved" /\ filled' = filled \cup {i} /\ Put(S)
      /\ pc' = [pc EXCEPT ![Producer(i)] = "populated"] /\ UNCHANGED chain
  BY DEF Populate
<1>2. first => i \in S
  OBVIOUS
<1> HIDE DEF S
<1>3. Others(Producer(i)) /\ pc'[Producer(i)] # "get" /\ IsTree(chain)
  BY <1>1, PopulateGentle, CoroFacts DEF Gentle, Inv, Types
<1>4. \A x \in Items : Ever(x) => Ever(x)'
  BY <1>1, <1>3, EverKept
<1>5. ASSUME Whole', NEW p, NEW x, At(chain, p, 1, 1, x), Alive(chain, p),
             On(chain, p, 1), x \in filled'
      PROVE  x \in Items /\ (x \in filled \/ Ever(x)')
  <2>1. x \in Items
    BY <1>5, AtFacts DEF Inv, IsTree
  <2>2. CASE x = i
    <3>1. Owner(i) = p /\ SegmentOf(i) = 1
      BY <1>3, <1>5, <2>2, HomeFacts
    <3>2. chain[p].segments[1].active /\ chain[p].segments[1].siblings[1] = i
      BY <1>5, <2>2 DEF At, On, Sib, Act
    <3>3. Pending(i) /\ Whole
      BY <1>5, <2>2, PlacedWaits, NoRegain
    <3>4. ~stopped
      BY <3>3, NotStopped
    <3> QED
      BY <1>1, <1>2, <2>1, <2>2, <3>1, <3>2, <3>4, EverPut
  <2> QED
    BY <1>1, <1>5, <2>1, <2>2
<1> QED
  BY <1>1, <1>4, <1>5, CalledKept, NoRegain

(* The pop of the item offers the one behind it. *)
LEMMA CalledPop ==
  ASSUME Inv, Silent, Called, [Next]_vars, NEW i \in Items, NEW p, PopsFrom(i, p)
  PROVE  Called'
<1>1. /\ At(chain, p, 1, 1, i) /\ p \in Chains /\ Popped(chain, chain', p)
      /\ Others(Consumer(i)) /\ UNCHANGED filled
      /\ \/ \E j : At(chain', p, 1, 1, j) /\ Put({j} \cap filled)
         \/ (\A x : ~At(chain', p, 1, 1, x)) /\ UNCHANGED ready
      /\ pc'[Consumer(i)] # "get"
  <2>1. /\ At(chain, p, 1, 1, i) /\ p \in Chains /\ Popped(chain, chain', p)
        /\ Others(Consumer(i)) /\ UNCHANGED filled
    BY DEF PopsFrom
  <2>2. \/ (\E j : At(chain', p, 1, 1, j) /\ Put({j} \cap filled)) /\ Ends(Consumer(i))
        \/ Bare(chain', p) /\ (\E fs : Wakes(Consumer(i), fs)) /\ UNCHANGED ready
        \/ Bare(chain', p) /\ Cleans(Consumer(i), p) /\ UNCHANGED ready
        \/ p = Root /\ Vacant(chain') /\ Ends(Consumer(i)) /\ UNCHANGED ready
    BY Zenon DEF PopsFrom
  <2>3. \/ \E j : At(chain', p, 1, 1, j) /\ Put({j} \cap filled)
        \/ (\A x : ~At(chain', p, 1, 1, x)) /\ UNCHANGED ready
    BY <2>2, Zenon DEF Bare, Vacant
  <2>4. pc'[Consumer(i)] # "get"
    BY <2>2 DEF Ends, Wakes, Cleans
  <2> QED
    BY <2>1, <2>3, <2>4
<1>2. IsTree(chain) /\ Rooted(chain) /\ Chains = DOMAIN chain
  BY DEF Inv, IsTree, Chains
<1>3. /\ \A q \in Chains : Alive(chain', q) <=> Alive(chain, q)
      /\ Rooted(chain')
  BY <1>1, <1>2, PoppedTree DEF IsTree
<1>4. \A x \in Items : Ever(x) => Ever(x)'
  BY <1>1, EverKept
<1>5. ASSUME Whole', NEW q, NEW x, At(chain', q, 1, 1, x), Alive(chain', q),
             On(chain', q, 1), x \in filled
      PROVE  \/ /\ At(chain, q, 1, 1, x) /\ Alive(chain, q)
                /\ On(chain, q, 1) /\ x \in filled /\ x \in Items
             \/ Ever(x)'
  <2>1. x \in Items /\ q \in DOMAIN chain'
    BY <1>3, <1>5, AtFacts
  <2>2. CASE q = p
    <3>1. PICK j : At(chain', p, 1, 1, j) /\ Put({j} \cap filled)
      BY <1>1, <1>5, <2>2
    <3>2. x = j
      BY <1>3, <1>5, <2>2, <3>1, AtFacts
    <3>3. ~stopped
      BY <1>1, <1>5, NoRegain, PlacedWaits, NotStopped
    <3> QED
      BY <1>5, <2>1, <3>1, <3>2, <3>3, EverPut
  <2>3. CASE q # p
    <3>1. At(chain, q, 1, 1, x) /\ On(chain, q, 1)
      BY <1>1, <1>5, <2>3 DEF Popped
    <3> QED
      BY <1>1, <1>2, <1>3, <1>5, <2>1, <3>1 DEF At
  <2> QED
    BY <2>2, <2>3
<1> QED
  BY <1>1, <1>4, <1>5, CalledKept, NoRegain

(* Who activates a chain offers its first item. *)
LEMMA CalledMark ==
  ASSUME Inv, Silent, Called, [Next]_vars, NEW i \in Items, NEW d, GoesDown(i, d)
  PROVE  Called'
<1>1. /\ d \in Chains /\ d # Root /\ Alive(chain, d) /\ Marked(chain, chain', d)
      /\ Others(Consumer(i)) /\ UNCHANGED filled
  BY DEF GoesDown
<1>2. /\ \/ \E j : At(chain', d, 1, 1, j) /\ Put({j} \cap filled)
         \/ (\A x : ~At(chain', d, 1, 1, x)) /\ UNCHANGED ready
      /\ pc'[Consumer(i)] # "get"
  <2>1. \/ (\E j : At(chain', d, 1, 1, j) /\ Put({j} \cap filled))
           /\ \E fs : Wakes(Consumer(i), fs)
        \/ Bare(chain', d) /\ (\E fs : Wakes(Consumer(i), fs)) /\ UNCHANGED ready
    BY Zenon DEF GoesDown
  <2> QED
    BY <2>1 DEF Wakes, Bare
<1>3. IsTree(chain) /\ Rooted(chain) /\ Chains = DOMAIN chain
  BY DEF Inv, IsTree, Chains
<1>4. /\ \A q \in Chains : Alive(chain', q) <=> Alive(chain, q)
      /\ Rooted(chain')
  <2>1. Same(chain, chain') /\ \A q \in Chains : Count(chain', q) = Count(chain, q)
    BY <1>1, <1>3 DEF Marked
  <2> QED
    BY <1>3, <2>1, SameAlive DEF Same
<1>5. \A x \in Items : Ever(x) => Ever(x)'
  BY <1>1, <1>2, EverKept
<1>6. ASSUME Whole', NEW q, NEW x, At(chain', q, 1, 1, x), Alive(chain', q),
             On(chain', q, 1), x \in filled
      PROVE  \/ /\ At(chain, q, 1, 1, x) /\ Alive(chain, q)
                /\ On(chain, q, 1) /\ x \in filled /\ x \in Items
             \/ Ever(x)'
  <2>1. x \in Items /\ At(chain, q, 1, 1, x)
    BY <1>1, <1>4, <1>6, AtFacts DEF Marked
  <2>2. q \in Chains /\ Alive(chain, q)
    BY <1>3, <1>4, <1>6, <2>1 DEF At
  <2>3. CASE q = d
    <3>1. PICK j : At(chain', d, 1, 1, j) /\ Put({j} \cap filled)
      BY <1>2, <1>6, <2>3
    <3>2. x = j
      BY <1>4, <1>6, <2>3, <3>1, AtFacts
    <3>3. ~stopped
      BY <1>1, <1>6, NoRegain, NotStopped
    <3> QED
      BY <1>6, <2>1, <3>1, <3>2, <3>3, EverPut
  <2>4. CASE q # d
    BY <1>1, <1>6, <2>1, <2>2, <2>4 DEF Marked
  <2> QED
    BY <2>3, <2>4
<1> QED
  BY <1>1, <1>5, <1>6, CalledKept, NoRegain

(* A removal that makes another segment the first offers its first item. *)
LEMMA CalledRemove ==
  ASSUME Inv, Silent, Called, [Next]_vars, NEW i \in Items, NEW p, NEW d, Removes(i, p, d)
  PROVE  Called'
<1>1. /\ p \in Chains /\ Alive(chain, p) /\ Kid(chain, p, 1, d) /\ d \in Chains /\ d # Root
      /\ Others(Consumer(i)) /\ UNCHANGED filled
  BY DEF Removes
<1>2. IsTree(chain) /\ Rooted(chain) /\ Chains = DOMAIN chain
  BY DEF Inv, IsTree, Chains
<1>3. /\ \/ UNCHANGED <<chain, ready>>
         \/ Cut(chain, chain', p, d) /\ UNCHANGED ready
         \/ /\ Moved(chain, chain', p, d)
            /\ \E j : At(chain', p, 1, 1, j) /\ Put({j} \cap filled)
      /\ pc'[Consumer(i)] # "get"
  <2>1. \/ UNCHANGED <<chain, ready>> /\ Ends(Consumer(i))
        \/ Cut(chain, chain', p, d) /\ UNCHANGED ready
             /\ (Ends(Consumer(i)) \/ Cleans(Consumer(i), p))
        \/ Moved(chain, chain', p, d) /\ Ends(Consumer(i))
             /\ \E j : At(chain', p, 1, 1, j) /\ Put({j} \cap filled)
    BY Zenon DEF Removes
  <2> QED
    BY <2>1 DEF Ends, Cleans
<1>4. \A x \in Items : Ever(x) => Ever(x)'
  BY <1>1, <1>3, EverKept
<1>5. \A q \in Chains : Alive(chain', q) => Alive(chain, q)
  <2>1. CASE FrontOf(d).version = call[Consumer(i)].version
    BY <2>1, RemovedFacts
  <2>2. CASE FrontOf(d).version # call[Consumer(i)].version
    BY <2>2 DEF Removes
  <2> QED
    BY <2>1, <2>2
<1>6. CASE UNCHANGED chain
  <2>1. \A p0, x : At(chain, p0, 1, 1, x) => x \in Items
    BY <1>2, AtFacts
  <2> QED
    BY <1>1, <1>4, <1>6, <2>1, CalledKept, NoRegain
<1>7. ASSUME Whole', NEW q, NEW x, At(chain', q, 1, 1, x), Alive(chain', q),
             On(chain', q, 1), x \in filled,
             Cut(chain, chain', p, d) \/ Moved(chain, chain', p, d)
      PROVE  \/ /\ At(chain, q, 1, 1, x) /\ Alive(chain, q)
                /\ On(chain, q, 1) /\ x \in filled /\ x \in Items
             \/ Ever(x)'
  <2>1. x \in Items /\ Rooted(chain') /\ q \in Chains
    <3>1. Rooted(chain') /\ DOMAIN chain' = Chains
      BY <1>2, <1>7 DEF Cut, Moved, Same
    <3> QED
      BY <1>7, <3>1, AtFacts
  <2>2. CASE q = p /\ Moved(chain, chain', p, d)
    <3>1. CASE Cut(chain, chain', p, d)
      BY <1>5, <1>7, <2>1, <3>1 DEF Cut
    <3>2. CASE ~Cut(chain, chain', p, d)
      <4>1. PICK j : At(chain', p, 1, 1, j) /\ Put({j} \cap filled)
        <5>1. ~UNCHANGED chain
          <6>1. Count(chain', d) = 0 /\ Count(chain, d) > 0
            BY <1>1, <1>2, <2>2 DEF Moved, Linked, IsTree
          <6> QED
            BY <6>1
        <5> QED
          BY <1>3, <3>2, <5>1
      <4>2. x = j
        BY <1>7, <2>1, <2>2, <4>1, AtFacts
      <4>3. ~stopped
        <5>1. Whole /\ \E r \in Chains : r # Root /\ Alive(chain, r)
          <6>1. Whole /\ Count(chain, d) > 0 /\ Par(chain, d) = p
            BY <1>1, <1>2, <1>7, NoRegain DEF Linked, IsTree
          <6>2. chain[d].segments # <<>>
            BY <1>1, <1>2, <6>1, RootedFacts
          <6>3. Alive(chain, d)
            BY <1>1, <1>2, <6>1, <6>2, AliveFacts
          <6> QED
            BY <1>1, <6>1, <6>3
        <5> QED
          BY <5>1, NotStopped
      <4> QED
        BY <1>7, <2>1, <4>1, <4>2, <4>3, EverPut
    <3> QED
      BY <3>1, <3>2
  <2>3. CASE q # p \/ ~Moved(chain, chain', p, d)
    BY <1>5, <1>7, <2>1, <2>3 DEF Cut, Moved
  <2> QED
    BY <2>2, <2>3
<1> QED
  BY <1>1, <1>3, <1>4, <1>6, <1>7, CalledKept, NoRegain

(* Every step keeps it. *)
LEMMA CalledNext ==
  ASSUME Inv, Silent, Called, [Next]_vars
  PROVE  Called'
<1>1. CASE Rests
  <2>1. \A p, x : At(chain, p, 1, 1, x) => x \in Items
    BY AtFacts DEF Inv, IsTree
  <2> QED
    BY <1>1, <2>1, CalledKept, NoRegain DEF Rests
<1> QED
  BY <1>1, CalledArrive, CalledPopulate, CalledPop, CalledMark, CalledRemove, StepRests

-----------------------------------------------------------------------------
(* A step that takes no child away from who is to activate it. *)
LEMMA ReachedKept ==
  ASSUME Reached, \A p, d : Todo(p, d) => Todo(p, d)',
         \A p, d : Kid(chain', p, 1, d) /\ Alive(chain', p) /\ On(chain', p, 1) /\ Bare(chain', p) =>
           \/ On(chain', d, 1) \/ Todo(p, d)'
           \/ /\ Kid(chain, p, 1, d) /\ Alive(chain, p) /\ On(chain, p, 1) /\ Bare(chain, p)
              /\ On(chain, d, 1) => On(chain', d, 1)
  PROVE  Reached'
<1>1. ASSUME NEW p, NEW d, Kid(chain', p, 1, d), Alive(chain', p), On(chain', p, 1),
             Bare(chain', p)
      PROVE  On(chain', d, 1) \/ Todo(p, d)'
  BY <1>1 DEF Reached
<1> QED
  BY <1>1 DEF Reached

(* A new chain is active if the one above it is, and has no items. *)
LEMMA ReachedArrive ==
  ASSUME Inv, Reached, NEW i \in Items, NEW p, NEW g, Arrives(i, p, g)
  PROVE  Reached'
<1>1. /\ p \in Chains /\ Alive(chain, p) /\ g \in Tags /\ IsPrefix(chain[p].tag, g)
      /\ Rooted(chain) /\ IsTree(chain) /\ Chains = DOMAIN chain
  BY DEF Arrives, Inv, IsTree, Chains
<1>2. Others(Producer(i))
  BY DEF Arrives, Joined, Passed
<1>3. \A q, d : Todo(q, d) => Todo(q, d)'
  BY <1>2, TodoOthers
<1>4. ASSUME NEW K \in Nat, NEW M \in Nat, Joined(i, p, K, M) PROVE Reached'
  <2>1. /\ \A q \in Chains : Alive(chain', q) <=> Alive(chain, q)
        /\ Sown(chain, chain', p, i, K, M)
    BY <1>1, <1>4, JoinTree DEF Joined
  <2>2. ASSUME NEW q, NEW d, Kid(chain', q, 1, d), Alive(chain', q), On(chain', q, 1), Bare(chain', q)
        PROVE  /\ Kid(chain, q, 1, d) /\ Alive(chain, q) /\ On(chain, q, 1) /\ Bare(chain, q)
               /\ On(chain, d, 1) => On(chain', d, 1)
    <3>1. /\ Kid(chain, q, 1, d) /\ On(chain, q, 1) /\ Bare(chain, q)
          /\ On(chain, d, 1) => On(chain', d, 1)
      BY <2>1, <2>2 DEF Sown, Bare
    <3>2. q \in Chains
      BY <1>1, <3>1, AtFacts
    <3> QED
      BY <2>1, <2>2, <3>1, <3>2
  <2> QED
    BY <1>3, <2>2, ReachedKept
<1>5. ASSUME chain[p].tag # g, Passed(i, p, First(g, Len(chain[p].tag) + 1)) PROVE Reached'
  <2>0. PICK f, n : f = First(g, Len(chain[p].tag) + 1) /\ n = Len(chain) + 1
    OBVIOUS
  <2>1. /\ \A q \in Chains : Alive(chain', q) <=> Alive(chain, q)
        /\ Grown(chain, chain', p, n, f) => n \notin Chains
    BY <1>1, <1>5, <2>0, PassTree
  <2>2. Touched(chain, chain', p) \/ Grown(chain, chain', p, n, f)
    BY <1>5, <2>0 DEF Passed
  <2>3. ASSUME NEW q, NEW d, Kid(chain', q, 1, d), Alive(chain', q), On(chain', q, 1), Bare(chain', q)
        PROVE  \/ On(chain', d, 1)
               \/ /\ Kid(chain, q, 1, d) /\ Alive(chain, q) /\ On(chain, q, 1) /\ Bare(chain, q)
                  /\ On(chain, d, 1) => On(chain', d, 1)
    <3>1. CASE Kid(chain, q, 1, d)
      <4>1. q \in Chains
        BY <1>1, <3>1, AtFacts
      <4>2. /\ On(chain, q, 1) /\ Bare(chain, q)
            /\ On(chain, d, 1) => On(chain', d, 1)
        BY <2>1, <2>2, <2>3, <4>1 DEF Touched, Grown, Bare
      <4> QED
        BY <2>1, <2>3, <3>1, <4>1, <4>2
    <3>2. CASE ~Kid(chain, q, 1, d)
      <4>1. q = p /\ Count(chain, p) = 1 /\ d = n /\ Grown(chain, chain', p, n, f)
        BY <2>2, <2>3, <3>2 DEF Touched, Grown
      <4>2. On(chain, p, 1) /\ \A x : ~At(chain, p, 1, 1, x)
        BY <1>1, <2>1, <2>3, <4>1 DEF Grown, Bare
      <4> QED
        BY <4>1, <4>2 DEF Grown
    <3> QED
      BY <3>1, <3>2
  <2> QED
    BY <1>3, <2>3, ReachedKept
<1> QED
  BY <1>4, <1>5 DEF Arrives

(* Who pops the last item goes on to activate the children. *)
LEMMA ReachedPop ==
  ASSUME Inv, Reached, NEW i \in Items, NEW p, PopsFrom(i, p)
  PROVE  Reached'
<1>1. /\ p \in Chains /\ Popped(chain, chain', p) /\ Others(Consumer(i))
      /\ pc[Consumer(i)] = "finalize"
  BY DEF PopsFrom
<1>2. \/ \E j : At(chain', p, 1, 1, j)
      \/ frames'[Consumer(i)] = <<Frame(p, Chi(chain', p, 1))>>
      \/ \A d : ~Kid(chain', p, 1, d)
  <2>1. \/ \E j : At(chain', p, 1, 1, j)
        \/ Wakes(Consumer(i), <<Frame(p, Chi(chain', p, 1))>>)
        \/ \A d : ~Kid(chain', p, 1, d)
        \/ p = Root /\ Vacant(chain')
    BY Zenon DEF PopsFrom
  <2> QED
    BY <2>1 DEF Wakes, Vacant
<1>3. /\ IsTree(chain) /\ Chains = DOMAIN chain /\ Consumer(i) \in Coros
      /\ \A q \in Chains : Alive(chain', q) <=> Alive(chain, q)
  BY <1>1, PoppedTree, CoroFacts DEF Inv, Chains
<1>4. \A q, d : Todo(q, d) => Todo(q, d)'
  BY <1>1, TodoOthers
<1>5. ASSUME NEW q, NEW d, Kid(chain', q, 1, d), Alive(chain', q), On(chain', q, 1), Bare(chain', q)
      PROVE  \/ On(chain', d, 1) \/ Todo(q, d)'
             \/ /\ Kid(chain, q, 1, d) /\ Alive(chain, q) /\ On(chain, q, 1) /\ Bare(chain, q)
                /\ On(chain, d, 1) => On(chain', d, 1)
  <2>1. CASE q = p
    <3>1. frames'[Consumer(i)] = <<Frame(p, Chi(chain', p, 1))>> /\ d \in Chi(chain', p, 1)
      BY <1>2, <1>5, <2>1 DEF Bare, Kid
    <3>2. Due(frames'[Consumer(i)], p, d)
      BY <3>1 DEF Due, Frame
    <3> QED
      BY <1>3, <2>1, <3>2 DEF Todo
  <2>2. CASE q # p
    <3>1. /\ Kid(chain, q, 1, d) /\ On(chain, q, 1) /\ Bare(chain, q)
          /\ On(chain, d, 1) => On(chain', d, 1)
      BY <1>1, <1>5, <2>2 DEF Popped, Bare
    <3>2. q \in Chains
      BY <1>3, <3>1, AtFacts DEF IsTree
    <3> QED
      BY <1>3, <1>5, <3>1, <3>2
  <2> QED
    BY <2>1, <2>2
<1> QED
  BY <1>4, <1>5, ReachedKept

(* Who activates a chain goes on to activate its children, and keeps the *)
(* others in mind.                                                       *)
LEMMA ReachedMark ==
  ASSUME Inv, Reached, NEW i \in Items, NEW d, GoesDown(i, d)
  PROVE  Reached'
<1> DEFINE c  == Consumer(i)
           fs == frames[c]
<1>1. /\ d \in Chains /\ Marked(chain, chain', d) /\ Others(c) /\ d \in Last(fs).todo
      /\ \/ (\E j : At(chain', d, 1, 1, j)) /\ frames'[c] = Relieved(fs, d)
         \/ frames'[c] = Append(Relieved(fs, d), Frame(d, Chi(chain', d, 1)))
  <2>1. \/ (\E j : At(chain', d, 1, 1, j)) /\ Wakes(c, Relieved(fs, d))
        \/ Wakes(c, Append(Relieved(fs, d), Frame(d, Chi(chain', d, 1))))
    BY Zenon DEF GoesDown
  <2> QED
    BY <2>1 DEF GoesDown, Wakes
<1>2. /\ IsTree(chain) /\ Rooted(chain) /\ Chains = DOMAIN chain /\ c \in Coros
      /\ fs # <<>> /\ fs \in Seq(FrameType)
  BY CoroFacts DEF Inv, IsTree, Chains, GoesDown, Fits, ConsumerFits, Types
<1>3. \A q \in Chains : Alive(chain', q) <=> Alive(chain, q)
  <2>1. Same(chain, chain') /\ \A q \in Chains : Count(chain', q) = Count(chain, q)
    BY <1>1, <1>2 DEF Marked
  <2> QED
    BY <1>2, <2>1, SameAlive
<1>4. PICK r : r = Relieved(fs, d)
  OBVIOUS
<1>5. /\ Len(fs) \in Nat /\ Len(fs) > 0 /\ DOMAIN fs = 1..Len(fs)
      /\ DOMAIN r = 1..Len(fs) /\ Len(r) = Len(fs) /\ r \in Seq(FrameType)
      /\ \A n \in 1..(Len(fs) - 1) : r[n] = fs[n]
      /\ r[Len(fs)].chain = fs[Len(fs)].chain
      /\ r[Len(fs)].todo = fs[Len(fs)].todo \ {d}
  <2>1. /\ Len(fs) \in Nat \ {0} /\ Last(fs) = fs[Len(fs)] /\ Last(fs) \in FrameType
        /\ Front(fs) \in Seq(FrameType) /\ Len(Front(fs)) = Len(fs) - 1
        /\ \A n \in 1..Len(fs) - 1 : Front(fs)[n] = fs[n]
    BY <1>2, FrontFacts
  <2>2. PICK f : f = Frame(Last(fs).chain, Last(fs).todo \ {d})
    OBVIOUS
  <2>3. f \in FrameType /\ f.chain = Last(fs).chain /\ f.todo = Last(fs).todo \ {d}
    BY <2>1, <2>2 DEF FrameType, Frame
  <2>4. r = Append(Front(fs), f)
    BY <1>4, <2>2 DEF Relieved
  <2>5. /\ r \in Seq(FrameType) /\ Len(r) = Len(fs) /\ r[Len(fs)] = f
        /\ \A n \in 1..Len(fs) - 1 : r[n] = Front(fs)[n]
    BY <2>1, <2>3, <2>4
  <2> QED
    BY <1>2, <2>1, <2>3, <2>5
<1>6. ASSUME NEW q, NEW e, Due(fs, q, e), e # d PROVE Due(r, q, e)
  <2>1. PICK n \in DOMAIN fs : fs[n].chain = q /\ e \in fs[n].todo
    BY <1>6 DEF Due
  <2>2. r[n].chain = q /\ e \in r[n].todo
    <3>1. CASE n = Len(fs)
      BY <1>5, <1>6, <2>1, <3>1
    <3>2. CASE n # Len(fs)
      <4>1. n \in 1..(Len(fs) - 1)
        BY <1>5, <3>2
      <4> QED
        BY <1>5, <2>1, <4>1
    <3> QED
      BY <3>1, <3>2
  <2> QED
    BY <1>5, <2>1, <2>2 DEF Due
<1> HIDE DEF fs
<1>7. ASSUME NEW q, NEW e, Due(r, q, e) PROVE Due(frames'[c], q, e)
  <2>1. CASE frames'[c] = r
    BY <1>7, <2>1
  <2>2. CASE frames'[c] = Append(r, Frame(d, Chi(chain', d, 1)))
    <3>1. PICK n \in DOMAIN r : r[n].chain = q /\ e \in r[n].todo
      BY <1>7 DEF Due
    <3>2. PICK f : f = Frame(d, Chi(chain', d, 1))
      OBVIOUS
    <3>3. n \in DOMAIN Append(r, f) /\ Append(r, f)[n] = r[n]
      <4>1. DOMAIN Append(r, f) = 1..Len(r) + 1 /\ \A k \in 1..Len(r) : Append(r, f)[k] = r[k]
        BY <1>5
      <4> QED
        BY <1>5, <3>1, <4>1
    <3> QED
      BY <2>2, <3>1, <3>2, <3>3 DEF Due
  <2> QED
    BY <1>1, <1>4, <2>1, <2>2
<1>8. ASSUME NEW q, NEW e, Todo(q, e), e # d PROVE Todo(q, e)'
  <2>1. Due(frames[c], q, e) => Due(frames'[c], q, e)
    BY <1>6, <1>7, <1>8 DEF fs
  <2> QED
    BY <1>1, <1>2, <1>8, <2>1, TodoKept
<1>9. ASSUME NEW q, NEW e, Kid(chain', q, 1, e), Alive(chain', q), On(chain', q, 1), Bare(chain', q)
      PROVE  On(chain', e, 1) \/ Todo(q, e)'
  <2>1. Kid(chain, q, 1, e) /\ Bare(chain, q) /\ q \in Chains /\ Alive(chain, q)
    <3>1. Kid(chain, q, 1, e) /\ Bare(chain, q)
      BY <1>1, <1>9 DEF Marked, Bare
    <3>2. q \in Chains
      BY <1>2, <3>1, AtFacts
    <3> QED
      BY <1>3, <1>9, <3>1, <3>2
  <2>2. CASE e = d
    <3>1. Count(chain, d) > 0 /\ Count(chain, d) \in Nat
      BY <1>1, <1>2, <2>1, <2>2, RootedFacts DEF IsTree, Linked
    <3> QED
      BY <1>1, <2>2 DEF Marked
  <2>3. CASE e # d /\ q # d
    <3>1. On(chain, q, 1)
      BY <1>1, <1>9, <2>3 DEF Marked
    <3>2. On(chain, e, 1) \/ Todo(q, e)
      BY <2>1, <3>1 DEF Reached
    <3> QED
      BY <1>1, <1>8, <2>3, <3>2 DEF Marked
  <2>4. CASE e # d /\ q = d
    <3>1. frames'[c] = Append(r, Frame(d, Chi(chain', d, 1))) /\ e \in Chi(chain', d, 1)
      BY <1>1, <1>4, <1>9, <2>4 DEF Bare, Kid
    <3>2. PICK f : f = Frame(d, Chi(chain', d, 1))
      OBVIOUS
    <3>3. Len(r) + 1 \in DOMAIN Append(r, f) /\ Append(r, f)[Len(r) + 1] = f
      <4>1. DOMAIN Append(r, f) = 1..Len(r) + 1 /\ Append(r, f)[Len(r) + 1] = f /\ Len(r) \in Nat
        BY <1>5
      <4> QED
        BY <4>1
    <3>4. f.chain = d /\ e \in f.todo
      BY <3>1, <3>2 DEF Frame
    <3>5. Due(frames'[c], q, e)
      BY <2>4, <3>1, <3>2, <3>3, <3>4 DEF Due
    <3> QED
      BY <1>2, <3>5 DEF Todo
  <2> QED
    BY <2>2, <2>3, <2>4
<1> QED
  BY <1>9 DEF Reached

-----------------------------------------------------------------------------
(* A removal takes a child from an active segment, or the segment, which *)
(* leaves one with items.                                                *)
LEMMA ReachedRemove ==
  ASSUME Inv, Reached, NEW i \in Items, NEW p, NEW d, Removes(i, p, d)
  PROVE  Reached'
<1>1. /\ p \in Chains /\ Kid(chain, p, 1, d) /\ Others(Consumer(i))
      /\ pc[Consumer(i)] = "compare"
  BY DEF Removes
<1>2. IsTree(chain) /\ Rooted(chain) /\ Linked(chain) /\ Chains = DOMAIN chain
  BY DEF Inv, IsTree, Chains
<1>3. \A q, e : Todo(q, e) => Todo(q, e)'
  BY <1>1, TodoOthers
<1>4. CASE UNCHANGED chain
  BY <1>3, <1>4, ReachedKept
<1>5. CASE FrontOf(d).version = call[Consumer(i)].version
  <2>1. /\ \A q \in Chains : Alive(chain', q) => Alive(chain, q)
        /\ \/ Cut(chain, chain', p, d)
           \/ Moved(chain, chain', p, d) /\ \E j : At(chain', p, 1, 1, j)
    <3>1. \/ Cut(chain, chain', p, d)
          \/ Moved(chain, chain', p, d) /\ \E j : At(chain', p, 1, 1, j)
      BY <1>5, Zenon DEF Removes
    <3> QED
      BY <1>5, <3>1, RemovedFacts
  <2>2. ASSUME NEW q, NEW e, Kid(chain', q, 1, e), Alive(chain', q), On(chain', q, 1), Bare(chain', q)
        PROVE  /\ Kid(chain, q, 1, e) /\ Alive(chain, q) /\ On(chain, q, 1) /\ Bare(chain, q)
               /\ On(chain, e, 1) => On(chain', e, 1)
    <3>1. q \in Chains
      <4>1. Rooted(chain') /\ DOMAIN chain' = Chains
        BY <1>2, <2>1 DEF Cut, Moved, Same
      <4> QED
        BY <2>2, <4>1, AtFacts
    <3>2. CASE Cut(chain, chain', p, d)
      <4>1. /\ Kid(chain, q, 1, e) /\ q # d /\ On(chain, q, 1)
            /\ ~(q = p /\ e = d)
        BY <2>2, <3>2 DEF Cut
      <4>2. Bare(chain, q)
        BY <2>2, <3>2, <4>1 DEF Cut, Bare
      <4>3. e # d
        BY <1>1, <1>2, <4>1 DEF Linked
      <4>4. On(chain, e, 1) => On(chain', e, 1)
        BY <3>2, <4>3 DEF Cut
      <4> QED
        BY <2>1, <2>2, <3>1, <4>1, <4>2, <4>4
    <3>3. CASE Moved(chain, chain', p, d) /\ \E j : At(chain', p, 1, 1, j)
      <4>0. q # p
        BY <2>2, <3>3 DEF Bare
      <4>1. Kid(chain, q, 1, e) /\ q # d /\ On(chain, q, 1)
        BY <2>2, <3>3, <4>0 DEF Moved
      <4>2. Bare(chain, q)
        BY <2>2, <3>3, <4>0, <4>1 DEF Moved, Bare
      <4>3. e # d
        BY <1>1, <1>2, <4>0, <4>1 DEF Linked
      <4>4. On(chain, e, 1) => On(chain', e, 1)
        <5>1. CASE e = p
          <6>1. On(chain', p, 1)
            BY <3>3 DEF Moved
          <6> QED
            BY <5>1, <6>1
        <5>2. CASE e # p
          BY <3>3, <4>3, <5>2 DEF Moved
        <5> QED
          BY <5>1, <5>2
      <4> QED
        BY <2>1, <2>2, <3>1, <4>1, <4>2, <4>4
    <3> QED
      BY <2>1, <3>2, <3>3
  <2> QED
    BY <1>3, <2>2, ReachedKept
<1> QED
  BY <1>4, <1>5 DEF Removes

(* Every step keeps it. *)
LEMMA ReachedNext ==
  ASSUME Inv, Reached, [Next]_vars
  PROVE  Reached'
<1>1. CASE Rests
  BY <1>1, ReachedKept DEF Rests
<1>2. ASSUME NEW i \in Items, Populate(i) PROVE Reached'
  <2>1. UNCHANGED <<chain, frames>>
    BY <1>2 DEF Populate
  <2>2. \A q, e : Todo(q, e) => Todo(q, e)'
    BY <2>1 DEF Todo
  <2> QED
    BY <2>1, <2>2, ReachedKept
<1> QED
  BY <1>1, <1>2, ReachedArrive, ReachedPop, ReachedMark, ReachedRemove, StepRests

(* A forque starts with nothing to offer, activate or wait for. *)
LEMMA ServeInit == Init => Called /\ Reached /\ Lined
<1> SUFFICES ASSUME Init PROVE Called /\ Reached /\ Lined
  OBVIOUS
<1>1. IsTree(chain) /\ \A p, k, m, x : ~At(chain, p, k, m, x)
  BY InitTree DEF Init
<1>2. Called
  BY <1>1 DEF Called
<1>3. Reached
  <2>1. DOMAIN chain = {1}
    BY DEF Init
  <2>2. \A p, d : ~Kid(chain, p, 1, d)
    BY <1>1, <2>1 DEF IsTree, Linked, Root
  <2> QED
    BY <2>2 DEF Reached
<1>4. \A i \in Items : ~Pending(i)
  <2>1. \A i \in Items : pc[Producer(i)] = "new"
    BY CoroFacts DEF Init, Producer
  <2> QED
    BY <2>1 DEF Pending
<1> QED
  BY <1>2, <1>3, <1>4 DEF Lined

(* What has been shown of every step holds always. *)
LEMMA AlwaysServed == Spec => [](Inv /\ Watched /\ Silent /\ Called /\ Reached /\ Lined)
<1>1. Init => Called /\ Reached /\ Lined
  BY ServeInit
<1>2. Inv /\ Watched /\ Silent /\ Called /\ Reached /\ Lined /\ [Next]_vars =>
        Called' /\ Reached' /\ Lined'
  BY CalledNext, ReachedNext, LinedNext
<1> QED
  BY <1>1, <1>2, AlwaysSilent, PTL DEF Spec

-----------------------------------------------------------------------------
(* the turn of i has come *)
InTurn(i) == Pending(i) /\ \A j \in before[i] : Finalized(j)

(* An item whose turn has come is in front of all that are related. *)
LEMMA FirstInLine ==
  ASSUME Inv, Lined, NEW i \in Items, InTurn(i), NEW y \in Items, y # i, Pending(y),
         Related(tag[i], tag[y])
  PROVE  Ahead(i, y)
<1>1. i \in before[y]
  BY DEF Lined, InTurn, Pending
<1> QED
  BY <1>1 DEF Inv, Order

(* With nobody inside, an item is under the tags of the chains above it. *)
LEMMA ThruTag ==
  ASSUME Inv, Quiet, NEW x \in Items, NEW d, Thru(x, d)
  PROVE  IsPrefix(chain[d].tag, tag[x])
<1>1. PICK q, k, m : At(chain, q, k, m, x) /\ d \in Line(chain, q)
  BY DEF Thru, Bound, Quiet
<1>2. q \in DOMAIN chain /\ tag[x] = chain[q].tag
  BY <1>1 DEF Inv, Places, At
<1> QED
  BY <1>1, <1>2, AboveFacts DEF Inv

(* It is then the first of the first segment of its chain. *)
LEMMA FirstInChain ==
  ASSUME Inv, Watched, Lined, Quiet, NEW i \in Items, InTurn(i), NEW p, NEW k, NEW m,
         At(chain, p, k, m, i), Alive(chain, p)
  PROVE  k = 1 /\ m = 1
<1>1. /\ IsTree(chain) /\ Rooted(chain) /\ Linked(chain) /\ Forked(chain)
      /\ p \in Chains /\ k \in Nat /\ m \in Nat /\ 1 <= k /\ k <= Count(chain, p) /\ 1 <= m
      /\ tag[i] = chain[p].tag /\ chain[p].tag \in Seq(Keys) /\ Chains = DOMAIN chain
      /\ Count(chain, p) \in Nat
  BY AtFacts, RootedFacts DEF Inv, IsTree, Places, Chains
<1>2. m = 1
  <2>1. PICK y \in Items : At(chain, p, k, 1, y)
    BY <1>1, AtFacts
  <2>2. Pending(y) /\ tag[y] = tag[i]
    BY <1>1, <2>1, PlacedWaits DEF Inv, Places
  <2>3. Related(tag[i], tag[y])
    BY <1>1, <2>2, PrefixFacts DEF Related
  <2>4. CASE y # i
    <3>1. k < k \/ m < 1
      BY <2>1, <2>2, <2>3, <2>4, FirstInLine DEF Ahead
    <3> QED
      BY <1>1, <3>1
  <2>5. CASE y = i
    BY <1>1, <2>1, <2>5 DEF IsTree, Unique
  <2> QED
    BY <2>4, <2>5
<1>3. ASSUME k # 1 PROVE FALSE
  <2>1. k - 1 \in Nat /\ 1 <= k - 1 /\ k - 1 < Count(chain, p) /\ k - 1 <= Count(chain, p) /\ k - 1 < k
    BY <1>1, <1>3
  <2>2. PICK e : Kid(chain, p, k - 1, e)
    BY <1>1, <2>1 DEF Forked
  <2>3. e \in Chains /\ e # Root /\ Par(chain, e) = p /\ chain[e].segments # <<>>
    BY <1>1, <2>2, RootedFacts DEF Linked
  <2>4. Alive(chain, e)
    BY <1>1, <2>3, AliveFacts
  <2>5. PICK x \in Items : Pending(x) /\ Thru(x, e)
    BY <2>3, <2>4, Inhabited
  <2>6. x # i
    <3>1. Thru(i, e) => p = e \/ e \in Line(chain, p)
      BY <1>1 DEF Thru, Bound, Quiet, IsTree, Unique
    <3>2. e \notin Line(chain, p) /\ e # p
      BY <1>1, <2>3, LineFacts, RootedFacts
    <3> QED
      BY <2>5, <3>1, <3>2
  <2>7. Related(tag[i], tag[x])
    <3>1. Thru(x, p)
      BY <1>1, <2>2, <2>5, ThruFacts DEF Inv
    <3> QED
      BY <1>1, <3>1, ThruTag DEF Related
  <2>8. k <= k - 1
    BY <2>2, <2>5, <2>6, <2>7, FirstInLine DEF Ahead
  <2> QED
    BY <2>1, <2>8, <1>1
<1> QED
  BY <1>2, <1>3

(* And nothing is in front of it on the way down to its chain. *)
LEMMA FirstOnTheWay ==
  ASSUME Inv, Lined, Quiet, NEW i \in Items, InTurn(i), NEW p, NEW k, NEW m,
         At(chain, p, k, m, i), Alive(chain, p), NEW x \in Line(chain, p), x # Root
  PROVE  Kid(chain, Par(chain, x), 1, x) /\ Bare(chain, Par(chain, x))
<1> DEFINE q == Par(chain, x)
<1>1. /\ IsTree(chain) /\ Rooted(chain) /\ Forked(chain) /\ p \in Chains /\ Chains = DOMAIN chain
      /\ tag[i] = chain[p].tag
  BY AtFacts DEF Inv, IsTree, Places, Chains
<1>2. q \in Line(chain, p) /\ q \in DOMAIN chain /\ IsPrefix(chain[q].tag, tag[i])
  BY <1>1, LineFacts, AboveFacts DEF Closed
<1>3. PICK l : Kid(chain, q, l, x)
  BY <1>1, AboveFacts
<1>4. Thru(i, x)
  BY DEF Thru
<1>5. ASSUME NEW n, NEW o, NEW y, At(chain, q, n, o, y) PROVE l < n
  <2>1. y \in Items /\ Pending(y) /\ tag[y] = chain[q].tag
    BY <1>5, PlacedWaits DEF Inv, Places
  <2>2. y # i
    <3>1. q # p
      BY <1>1, LineFacts, RootedFacts
    <3> QED
      BY <1>1, <1>5, <3>1 DEF IsTree, Unique
  <2> QED
    BY <1>2, <1>3, <1>4, <1>5, <2>1, <2>2, FirstInLine DEF Ahead, Related
<1>6. l \in Nat /\ 1 <= l /\ l <= Count(chain, q)
  BY <1>1, <1>3, AtFacts
<1>7. l = 1
  <2> SUFFICES ASSUME l > 1 PROVE FALSE
    BY <1>6
  <2>1. PICK y : At(chain, q, l, 1, y)
    BY <1>1, <1>2, <1>6 DEF Forked
  <2> QED
    BY <1>5, <1>6, <2>1
<1>8. Bare(chain, q)
  BY <1>5, <1>7 DEF Bare
<1> QED
  BY <1>3, <1>7, <1>8

(* So all the segments it passes through are active. *)
LEMMA WayActive ==
  ASSUME Inv, Lined, Reached, Quiet, NEW i \in Items, InTurn(i), NEW p, NEW k, NEW m,
         At(chain, p, k, m, i), Alive(chain, p)
  PROVE  On(chain, p, 1)
<1>1. IsTree(chain) /\ Rooted(chain) /\ Actives(chain) /\ p \in Chains /\ Chains = DOMAIN chain
  BY AtFacts DEF Inv, IsTree, Chains
<1>2. /\ p \in Line(chain, p) /\ Line(chain, p) \subseteq Chains /\ Closed(chain, Line(chain, p))
      /\ Chains \subseteq Nat
  BY <1>1, LineFacts, RootedFacts
<1> DEFINE W == {q \in Line(chain, p) : ~On(chain, q, 1)}
<1> SUFFICES ASSUME W # {} PROVE FALSE
  BY <1>2
<1>3. PICK x \in W : \A n \in W : x <= n
  <2>1. W \in SUBSET Nat
    BY <1>2
  <2> HIDE DEF W
  <2> QED
    BY <2>1, LeastNatural
<1>4. x # Root
  BY <1>1, <1>3 DEF Actives
<1> DEFINE q == Par(chain, x)
<1>5. q \in Line(chain, p) /\ q < x /\ q \in Nat /\ x \in Nat /\ Alive(chain, q)
  BY <1>1, <1>2, <1>3, <1>4, RootedFacts, AboveFacts DEF Closed
<1>6. On(chain, q, 1)
  BY <1>3, <1>5
<1>7. Kid(chain, q, 1, x) /\ Bare(chain, q)
  BY <1>3, <1>4, FirstOnTheWay
<1>8. Todo(q, x)
  BY <1>3, <1>5, <1>6, <1>7 DEF Reached
<1>9. PICK c \in Coros : Due(frames[c], q, x)
  BY <1>8 DEF Todo
<1>10. PICK j \in Items : c = Producer(j) \/ c = Consumer(j)
  BY DEF Coros
<1> QED
  BY <1>9, <1>10, DueActivates DEF Quiet

(* What Called says of the first item of an active segment is then said of *)
(* every populated item whose turn has come.                               *)
LEMMA NothingForgottenFollows ==
  Inv /\ Watched /\ Called /\ Reached /\ Lined => NothingForgotten
<1> SUFFICES ASSUME Inv, Watched, Called, Reached, Lined, Quiet, Intact,
                    NEW i \in filled, ~Finalized(i), \A j \in before[i] : Finalized(j)
             PROVE  Offered(i)
  BY DEF NothingForgotten
<1>1. i \in Items /\ pc[Producer(i)] = "populated"
  BY DEF Inv, Types, Tokens
<1>2. InTurn(i) /\ Waits(i) /\ Whole
  BY <1>1, WholeIs DEF InTurn, Pending, Waits, Placed
<1>3. PICK p, k, m : At(chain, p, k, m, i) /\ Alive(chain, p)
  BY <1>1, <1>2 DEF Whole, There
<1>4. k = 1 /\ m = 1 /\ On(chain, p, 1)
  BY <1>1, <1>2, <1>3, FirstInChain, WayActive
<1>5. Ever(i)
  BY <1>2, <1>3, <1>4 DEF Called
<1>6. pc[Consumer(i)] \in {"get", "retained", "finalized"}
  BY <1>1 DEF Quiet
<1> QED
  BY <1>5, <1>6 DEF Ever, Offered, Taken, Finalized

(* With no reserve or finalize under way, a populated item whose turn has  *)
(* come has been offered: no release falls between an activation that      *)
(* found the item empty and the segment being marked (forque.hpp:333,      *)
(* 382-390).                                                               *)
THEOREM ForqueNothingForgotten == Spec => []NothingForgotten
<1> QED
  BY AlwaysServed, NothingForgottenFollows, PTL

-----------------------------------------------------------------------------
(* Two related items are never processed at once, as README.md:3 promises, *)
(* up to the first destruction of a chain in use: RelatedSerial without    *)
(* that restriction is violated (chains found again under the same key,    *)
(* forque.hpp:415).                                                        *)
THEOREM ForqueSerial == Spec => []SerialWhileIntact
<1>1. Inv /\ Lined /\ RelatedOrder => SerialWhileIntact
  <2> SUFFICES ASSUME Inv, Lined, RelatedOrder, Intact, NEW i \in Items, NEW j \in Items,
                      Taken(i), Taken(j), i # j, Related(tag[i], tag[j])
               PROVE  FALSE
    BY DEF SerialWhileIntact, RelatedSerial
  <2>1. ~Finalized(i) /\ ~Finalized(j)
    BY DEF Taken, Finalized
  <2>2. Offered(i) /\ Offered(j)
    BY DEF Offered
  <2>3. i \notin before[j] /\ j \notin before[i]
    BY <2>1, <2>2 DEF RelatedOrder
  <2>4. Pending(i) /\ Pending(j)
    <3>1. pc[Producer(i)] = "populated" /\ pc[Producer(j)] = "populated"
      BY DEF Inv, Tokens, Ever, Taken
    <3> QED
      BY <2>1, <3>1 DEF Pending
  <2> QED
    BY <2>3, <2>4 DEF Lined
<1> QED
  BY AlwaysServed, ForqueRelatedOrder, <1>1, PTL

-----------------------------------------------------------------------------
(* A step of the forque is one of its run queue, or none. *)
Queues == RunQueue!Next \/ UNCHANGED RunQueue!vars

(* A step of a coroutine that takes nothing, and puts one item or stops. *)
LEMMA PutsOne ==
  ASSUME Inv, Inv', NEW i \in Items, NEW c, Others(c),
         c = Producer(i) \/ (c = Consumer(i) /\ pc[c] # "get" /\ pc'[c] # "get"),
         \/ UNCHANGED stopped /\ (UNCHANGED ready \/ \E j : \E S \in SUBSET {j} : Put(S))
         \/ UNCHANGED ready /\ stopped' = TRUE
  PROVE  Queues
<1> DEFINE R == {x \in Items : ready[x] > 0}
           T == {x \in Items : pc[Consumer(x)] # "get"}
<1>1. ready \in [Items -> Nat] /\ ready' \in [Items -> Nat]
  BY DEF Inv, Types
<1>2. T' = T
  <2>1. \A x \in Items : pc'[Consumer(x)] # "get" <=> pc[Consumer(x)] # "get"
    BY CoroFacts DEF Others
  <2> QED
    BY <2>1
<1>3. CASE UNCHANGED ready /\ stopped' \in {stopped, TRUE}
  <2>1. R' = R
    BY <1>3
  <2>2. RunQueue!Interrupt \/ UNCHANGED RunQueue!vars
    BY <1>2, <1>3, <2>1 DEF RunQueue!Interrupt, RunQueue!vars
  <2> QED
    BY <2>2 DEF Queues, RunQueue!Next
<1>4. ASSUME NEW j, NEW S \in SUBSET {j}, Put(S), UNCHANGED stopped PROVE Queues
  <2>1. \A x \in Items : ready'[x] = IF x \in S /\ ~stopped THEN ready[x] + 1 ELSE ready[x]
    BY <1>1, <1>4, PutFacts
  <2>2. CASE j \in S /\ j \in Items /\ ~stopped
    <3>1. ready'[j] = ready[j] + 1 /\ ready[j] \in Nat
      BY <1>1, <2>1, <2>2
    <3>2. ready'[j] <= 1 /\ (pc'[Consumer(j)] # "get" => ready'[j] = 0)
      BY <2>2 DEF Inv, Tokens
    <3>3. j \notin R /\ j \notin T'
      BY <3>1, <3>2
    <3>4. R' = R \cup {j}
      <4>1. \A x \in Items : x # j => ready'[x] = ready[x]
        BY <2>1
      <4> QED
        BY <2>2, <3>1, <4>1
    <3> HIDE DEF R, T
    <3>5. RunQueue!Put(j)
      BY <1>2, <1>4, <2>2, <3>3, <3>4 DEF RunQueue!Put, R, T
    <3> QED
      BY <2>2, <3>5 DEF Queues, RunQueue!Next
  <2>3. CASE ~(j \in S /\ j \in Items /\ ~stopped)
    <3>1. \A x \in Items : ready'[x] = ready[x]
      BY <2>1, <2>3
    <3>2. UNCHANGED RunQueue!vars
      BY <1>2, <1>4, <3>1 DEF RunQueue!vars
    <3> QED
      BY <3>2 DEF Queues
  <2> QED
    BY <2>2, <2>3
<1>5. CASE UNCHANGED stopped /\ \E j : \E S \in SUBSET {j} : Put(S)
  BY <1>4, <1>5, Zenon
<1>6. CASE UNCHANGED stopped /\ UNCHANGED ready
  BY <1>3, <1>6
<1>7. CASE UNCHANGED ready /\ stopped' = TRUE
  BY <1>3, <1>7
<1> HIDE DEF R, T
<1> QED
  BY <1>5, <1>6, <1>7, Zenon

(* A get takes the item. *)
LEMMA GetTakes ==
  ASSUME Inv, Inv', NEW i \in Items, Get(i)
  PROVE  Queues
<1> DEFINE R == {x \in Items : ready[x] > 0}
           T == {x \in Items : pc[Consumer(x)] # "get"}
<1>1. /\ pc[Consumer(i)] = "get" /\ ready[i] > 0 /\ ready' = [ready EXCEPT ![i] = @ - 1]
      /\ pc' = [pc EXCEPT ![Consumer(i)] = "retained"] /\ UNCHANGED stopped
      /\ DOMAIN pc = Coros /\ ready \in [Items -> Nat] /\ ready[i] <= 1
  BY DEF Get, Inv, Types, Tokens
<1>2. \A x \in Items : ready'[x] > 0 <=> ready[x] > 0 /\ x # i
  BY <1>1
<1>3. \A x \in Items : pc'[Consumer(x)] # "get" <=> pc[Consumer(x)] # "get" \/ x = i
  BY <1>1, CoroFacts
<1>4. i \in R /\ R' = R \ {i} /\ T' = T \cup {i}
  BY <1>1, <1>2, <1>3
<1>5. RunQueue!Take(i)
  BY <1>1, <1>4 DEF RunQueue!Take
<1> QED
  BY <1>5 DEF Queues, RunQueue!Next

(* A flag that is raised under another one. *)
LEMMA RaisedFacts ==
  ASSUME Inv, stopped => interrupted, UNCHANGED interrupted,
         stopped' = stopped \/ stopped' = (stopped \/ interrupted)
  PROVE  (stopped' => interrupted') /\ (UNCHANGED stopped \/ stopped' = TRUE)
BY DEF Inv, Types

(* The pop of an item. *)
LEMMA PopOffers ==
  ASSUME Inv, Inv', stopped => interrupted, NEW i \in Items, NEW p, PopsFrom(i, p)
  PROVE  Queues /\ (stopped' => interrupted')
<1>1. /\ pc[Consumer(i)] = "finalize" /\ Others(Consumer(i)) /\ UNCHANGED interrupted
      /\ \/ UNCHANGED stopped /\ \E j : Put({j} \cap filled)
         \/ UNCHANGED <<ready, stopped>>
         \/ stopped' = (stopped \/ interrupted) /\ UNCHANGED ready
  BY Zenon DEF PopsFrom
<1>2. pc'[Consumer(i)] # "get"
  <2>1. Ends(Consumer(i)) \/ (\E fs : Wakes(Consumer(i), fs)) \/ Cleans(Consumer(i), p)
    BY Zenon DEF PopsFrom
  <2> QED
    BY <2>1 DEF Ends, Wakes, Cleans
<1>3. (stopped' => interrupted') /\ (UNCHANGED stopped \/ stopped' = TRUE)
  BY <1>1, RaisedFacts
<1>4. \A j : {j} \cap filled \in SUBSET {j}
  OBVIOUS
<1>5. \/ UNCHANGED stopped /\ (UNCHANGED ready \/ \E j : \E S \in SUBSET {j} : Put(S))
      \/ UNCHANGED ready /\ stopped' = TRUE
  BY <1>1, <1>3, <1>4
<1> QED
  BY <1>1, <1>2, <1>3, <1>5, PutsOne

(* The removal of a child. *)
LEMMA RemoveOffers ==
  ASSUME Inv, Inv', stopped => interrupted, NEW i \in Items, NEW p, NEW d, Removes(i, p, d)
  PROVE  Queues /\ (stopped' => interrupted')
<1>1. /\ pc[Consumer(i)] = "compare" /\ Others(Consumer(i)) /\ UNCHANGED interrupted
      /\ \/ UNCHANGED stopped /\ \E j : Put({j} \cap filled)
         \/ UNCHANGED <<ready, stopped>>
         \/ stopped' = (stopped \/ interrupted) /\ UNCHANGED ready
  BY Zenon DEF Removes
<1>2. pc'[Consumer(i)] # "get"
  <2>1. Ends(Consumer(i)) \/ Cleans(Consumer(i), p)
    BY Zenon DEF Removes
  <2> QED
    BY <2>1 DEF Ends, Cleans
<1>3. (stopped' => interrupted') /\ (UNCHANGED stopped \/ stopped' = TRUE)
  BY <1>1, RaisedFacts
<1>4. \A j : {j} \cap filled \in SUBSET {j}
  OBVIOUS
<1>5. \/ UNCHANGED stopped /\ (UNCHANGED ready \/ \E j : \E S \in SUBSET {j} : Put(S))
      \/ UNCHANGED ready /\ stopped' = TRUE
  BY <1>1, <1>3, <1>4
<1> QED
  BY <1>1, <1>2, <1>3, <1>5, PutsOne

(* The activation of a child. *)
LEMMA MarkOffers ==
  ASSUME Inv, Inv', NEW i \in Items, NEW d, GoesDown(i, d)
  PROVE  Queues /\ UNCHANGED <<stopped, interrupted>>
<1>1. /\ pc[Consumer(i)] = "activate" /\ Others(Consumer(i)) /\ UNCHANGED <<stopped, interrupted>>
      /\ (\E j : Put({j} \cap filled)) \/ UNCHANGED ready
      /\ \E fs : Wakes(Consumer(i), fs)
  BY Zenon DEF GoesDown
<1>2. \A j : {j} \cap filled \in SUBSET {j}
  OBVIOUS
<1>3. pc'[Consumer(i)] # "get"
  BY <1>1 DEF Wakes
<1>4. UNCHANGED ready \/ \E j : \E S \in SUBSET {j} : Put(S)
  BY <1>1, <1>2
<1> QED
  BY <1>1, <1>3, <1>4, PutsOne

(* A reservation comes to a chain. *)
LEMMA ArriveOffers ==
  ASSUME Inv, Inv', NEW i \in Items, NEW p, NEW g, Arrives(i, p, g)
  PROVE  Queues /\ UNCHANGED <<stopped, interrupted>>
<1>1. /\ Others(Producer(i)) /\ UNCHANGED <<stopped, interrupted>>
      /\ UNCHANGED ready \/ \E S \in SUBSET {i} : Put(S)
  BY DEF Arrives, Joined, Passed
<1> QED
  BY <1>1, PutsOne

(* Every step is one of the run queue, which is stopped only after the *)
(* interrupt.                                                          *)
LEMMA StepOffers ==
  ASSUME Inv, Inv', stopped => interrupted, [Next]_vars
  PROVE  Queues /\ (stopped' => interrupted')
<1> DEFINE Goal == Queues /\ (stopped' => interrupted')
<1>1. ASSUME NEW i \in Items, NEW t \in Tags, Reserve(i, t) PROVE Goal
  <2>1. Arrives(i, Root, t)
    BY <1>1, ReserveFacts
  <2> QED
    BY <2>1, ArriveOffers
<1>2. ASSUME NEW i \in Items, Descend(i) PROVE Goal
  <2>0. PICK g : g = tag[i]
    OBVIOUS
  <2>1. PICK p : Arrives(i, p, g)
    BY <1>2, <2>0, DescendFacts
  <2> QED
    BY <2>1, ArriveOffers
<1>3. ASSUME NEW i \in Items, Populate(i) PROVE Goal
  <2>1. Others(Producer(i)) /\ UNCHANGED <<stopped, interrupted>>
    BY <1>3, PopulateGentle DEF Gentle, Populate
  <2>2. \E S \in SUBSET {i} : Put(S)
    BY <1>3 DEF Populate
  <2> QED
    BY <2>1, <2>2, PutsOne
<1>4. ASSUME NEW i \in Items, Reject(i) PROVE Goal
  <2>1. Others(Producer(i)) /\ UNCHANGED <<ready, stopped, interrupted>>
    BY <1>4, RejectGentle DEF Gentle, Reject
  <2> QED
    BY <2>1, PutsOne
<1>5. ASSUME NEW i \in Items, Get(i) PROVE Goal
  BY <1>5, GetTakes DEF Get
<1>6. ASSUME NEW i \in Items, Finalize(i) \/ RemoveChild(i) \/ FindChild(i) PROVE Goal
  <2>1. /\ Others(Consumer(i)) /\ UNCHANGED <<ready, stopped, interrupted>>
        /\ pc[Consumer(i)] # "get"
        /\ \E w \in {"finalize", "find", "compare", "finalized"} :
             pc' = [pc EXCEPT ![Consumer(i)] = w]
    BY <1>6, FinalizeGentle, RemoveGentle, FindGentle
    DEF Gentle, Finalize, RemoveChild, FindChild, Finish
  <2>2. pc'[Consumer(i)] # "get"
    BY <2>1, CoroFacts DEF Inv, Types
  <2> QED
    BY <2>1, <2>2, PutsOne
<1>7. ASSUME NEW i \in Items, PopItem(i) PROVE Goal
  BY <1>7, PopItemFate, PopOffers
<1>8. ASSUME NEW i \in Items, Activate(i) PROVE Goal
  <2>1. CASE GoesUp(i)
    <3>1. /\ Others(Consumer(i)) /\ UNCHANGED <<ready, stopped, interrupted>>
          /\ pc[Consumer(i)] # "get" /\ pc'[Consumer(i)] # "get"
      BY <2>1 DEF GoesUp, Ends, Wakes
    <3> QED
      BY <3>1, PutsOne
  <2>2. ASSUME NEW d, GoesDown(i, d) PROVE Goal
    BY <2>2, MarkOffers
  <2> QED
    BY <1>8, <2>1, <2>2, ActivateFate
<1>9. ASSUME NEW i \in Items, EraseChild(i) PROVE Goal
  BY <1>9, EraseChildFate, RemoveOffers
<1>10. ASSUME Interrupt PROVE Goal
  <2>1. /\ UNCHANGED <<pc, ready>> /\ interrupted' = TRUE /\ ~interrupted
        /\ stopped' \in BOOLEAN /\ stopped \in BOOLEAN
    BY <1>10 DEF Interrupt, Inv, Types
  <2>2. RunQueue!Interrupt \/ UNCHANGED RunQueue!vars
    BY <2>1 DEF RunQueue!Interrupt, RunQueue!vars
  <2> QED
    BY <2>1, <2>2 DEF Queues, RunQueue!Next
<1>11. ASSUME Done \/ UNCHANGED vars PROVE Goal
  <2>1. UNCHANGED <<pc, ready, stopped, interrupted>>
    BY <1>11 DEF Done, vars
  <2> QED
    BY <2>1 DEF Queues, RunQueue!vars
<1> HIDE DEF Goal
<1>12. Goal
  BY <1>1, <1>2, <1>3, <1>4, <1>5, <1>6, <1>7, <1>8, <1>9, <1>10, <1>11 DEF Next, Step
<1> QED
  BY <1>12 DEF Goal

(* What the chains do to the run queue is what Runque expects of them: an  *)
(* item is put once, by whoever finds it first in an active segment, and   *)
(* nothing is taken back once the interrupt has stopped the queue.         *)
THEOREM ForqueUsesOfferQueue == Spec => UsesOfferQueue
<1>1. Init => RunQueue!Init /\ (stopped => interrupted)
  <2> SUFFICES ASSUME Init PROVE RunQueue!Init /\ (stopped => interrupted)
    OBVIOUS
  <2>1. /\ \A i \in Items : ready[i] = 0 /\ pc[Consumer(i)] = "get"
        /\ stopped = FALSE
    BY CoroFacts DEF Init, Consumer
  <2> QED
    BY <2>1 DEF RunQueue!Init
<1>2. Inv /\ Inv' /\ (stopped => interrupted) /\ [Next]_vars =>
        (RunQueue!Next \/ UNCHANGED RunQueue!vars) /\ (stopped' => interrupted')
  BY StepOffers DEF Queues
<1> QED
  BY <1>1, <1>2, AlwaysInv, PTL DEF Spec, UsesOfferQueue, RunQueue!Spec

-----------------------------------------------------------------------------
(* What the promise is worth, for any queue that keeps it: one with states  *)
(* of its items of its own, and any history of the other variables.         *)
VARIABLE status   \* how far each item has come
Queue == INSTANCE RelatedQueue

(* Of two related items in the queue, one has been noted to wait for the   *)
(* other.                                                                  *)
OneWaits ==
  \A i, j \in Items :
    Queue!Pending(i) /\ Queue!Pending(j) /\ i # j /\ Queue!Related(tag[i], tag[j])
      => i \in before[j] \/ j \in before[i]

QueueInv == Queue!TypeOK /\ OneWaits /\ Queue!InOrder /\ Queue!NothingLeft

(* It holds of an empty queue. *)
LEMMA InitQueueInv == Queue!Init => QueueInv
BY DEF Queue!Init, QueueInv, Queue!TypeOK, OneWaits, Queue!InOrder, Queue!NothingLeft,
       Queue!Pending

(* The variables keep their types. *)
LEMMA QueueTypesKept == QueueInv /\ [Queue!Next]_(Queue!vars) => Queue!TypeOK'
<1> SUFFICES ASSUME QueueInv, [Queue!Next]_(Queue!vars) PROVE Queue!TypeOK'
  OBVIOUS
<1> USE DEF QueueInv, Queue!TypeOK, Queue!Move, Queue!MayStop
<1>1. ASSUME NEW i \in Items, NEW t \in Tags, Queue!Reserve(i, t) PROVE Queue!TypeOK'
  BY <1>1 DEF Queue!Reserve
<1>2. ASSUME NEW i \in Items, Queue!Refuse(i) PROVE Queue!TypeOK'
  BY <1>2 DEF Queue!Refuse
<1>3. ASSUME NEW i \in Items, Queue!Populate(i) PROVE Queue!TypeOK'
  BY <1>3 DEF Queue!Populate
<1>4. ASSUME NEW i \in Items, Queue!Serve(i) PROVE Queue!TypeOK'
  BY <1>4 DEF Queue!Serve
<1>5. ASSUME NEW i \in Items, Queue!Finalize(i) PROVE Queue!TypeOK'
  BY <1>5 DEF Queue!Finalize
<1>6. CASE Queue!Interrupt
  BY <1>6 DEF Queue!Interrupt
<1>7. CASE Queue!Stop
  BY <1>7 DEF Queue!Stop
<1>8. CASE UNCHANGED Queue!vars
  BY <1>8 DEF Queue!vars
<1> QED
  BY <1>1, <1>2, <1>3, <1>4, <1>5, <1>6, <1>7, <1>8 DEF Queue!Next

(* A reservation notes every related item that is pending; nothing else    *)
(* makes an item pending.                                                  *)
LEMMA OneWaitsKept == QueueInv /\ [Queue!Next]_(Queue!vars) => OneWaits'
<1> SUFFICES ASSUME QueueInv, [Queue!Next]_(Queue!vars) PROVE OneWaits'
  OBVIOUS
<1> USE DEF QueueInv, Queue!TypeOK, OneWaits, Queue!Pending, Queue!Move
<1>1. ASSUME NEW i \in Items, NEW t \in Tags, Queue!Reserve(i, t) PROVE OneWaits'
  <2>1. /\ ~Queue!Pending(i) /\ tag'[i] = t
        /\ before'[i] = {j \in Items : Queue!Pending(j) /\ Queue!Related(tag[j], t)}
    BY <1>1 DEF Queue!Reserve
  <2>2. \A j \in Items \ {i} : /\ Queue!Pending(j)' = Queue!Pending(j) /\ tag'[j] = tag[j]
                               /\ before'[j] = before[j]
    BY <1>1 DEF Queue!Reserve
  <2>3. \A s, u : Queue!Related(s, u) <=> Queue!Related(u, s)
    BY DEF Queue!Related
  <2> QED
    BY <2>1, <2>2, <2>3
<1>2. ASSUME NEW i \in Items, Queue!Refuse(i) PROVE OneWaits'
  BY <1>2 DEF Queue!Refuse
<1>3. ASSUME NEW i \in Items, Queue!Populate(i) PROVE OneWaits'
  BY <1>3 DEF Queue!Populate
<1>4. ASSUME NEW i \in Items, Queue!Serve(i) PROVE OneWaits'
  BY <1>4 DEF Queue!Serve
<1>5. ASSUME NEW i \in Items, Queue!Finalize(i) PROVE OneWaits'
  BY <1>5 DEF Queue!Finalize
<1>6. CASE Queue!Interrupt
  BY <1>6 DEF Queue!Interrupt
<1>7. CASE Queue!Stop
  BY <1>7 DEF Queue!Stop
<1>8. CASE UNCHANGED Queue!vars
  BY <1>8 DEF Queue!vars
<1> QED
  BY <1>1, <1>2, <1>3, <1>4, <1>5, <1>6, <1>7, <1>8 DEF Queue!Next

(* Finalized items stay so, and an item is served behind finalized ones.   *)
LEMMA InOrderKept == QueueInv /\ [Queue!Next]_(Queue!vars) => Queue!InOrder'
<1> SUFFICES ASSUME QueueInv, [Queue!Next]_(Queue!vars) PROVE Queue!InOrder'
  OBVIOUS
<1> USE DEF QueueInv, Queue!TypeOK, Queue!InOrder, Queue!Move
<1>1. ASSUME NEW i \in Items, NEW t \in Tags, Queue!Reserve(i, t) PROVE Queue!InOrder'
  BY <1>1 DEF Queue!Reserve
<1>2. ASSUME NEW i \in Items, Queue!Refuse(i) PROVE Queue!InOrder'
  BY <1>2 DEF Queue!Refuse
<1>3. ASSUME NEW i \in Items, Queue!Populate(i) PROVE Queue!InOrder'
  BY <1>3 DEF Queue!Populate
<1>4. ASSUME NEW i \in Items, Queue!Serve(i) PROVE Queue!InOrder'
  BY <1>4 DEF Queue!Serve
<1>5. ASSUME NEW i \in Items, Queue!Finalize(i) PROVE Queue!InOrder'
  BY <1>5 DEF Queue!Finalize
<1>6. CASE Queue!Interrupt
  BY <1>6 DEF Queue!Interrupt
<1>7. CASE Queue!Stop
  BY <1>7 DEF Queue!Stop
<1>8. CASE UNCHANGED Queue!vars
  BY <1>8 DEF Queue!vars
<1> QED
  BY <1>1, <1>2, <1>3, <1>4, <1>5, <1>6, <1>7, <1>8 DEF Queue!Next

(* After the stop there is nothing to reserve: an interrupt precedes it.   *)
LEMMA NothingLeftKept == QueueInv /\ [Queue!Next]_(Queue!vars) => Queue!NothingLeft'
<1> SUFFICES ASSUME QueueInv, [Queue!Next]_(Queue!vars) PROVE Queue!NothingLeft'
  OBVIOUS
<1> USE DEF QueueInv, Queue!TypeOK, Queue!NothingLeft, Queue!Pending, Queue!Move,
            Queue!MayStop
<1>1. ASSUME NEW i \in Items, NEW t \in Tags, Queue!Reserve(i, t) PROVE Queue!NothingLeft'
  BY <1>1 DEF Queue!Reserve
<1>2. ASSUME NEW i \in Items, Queue!Refuse(i) PROVE Queue!NothingLeft'
  BY <1>2 DEF Queue!Refuse
<1>3. ASSUME NEW i \in Items, Queue!Populate(i) PROVE Queue!NothingLeft'
  BY <1>3 DEF Queue!Populate
<1>4. ASSUME NEW i \in Items, Queue!Serve(i) PROVE Queue!NothingLeft'
  BY <1>4 DEF Queue!Serve
<1>5. ASSUME NEW i \in Items, Queue!Finalize(i) PROVE Queue!NothingLeft'
  BY <1>5 DEF Queue!Finalize
<1>6. CASE Queue!Interrupt
  BY <1>6 DEF Queue!Interrupt
<1>7. CASE Queue!Stop
  BY <1>7 DEF Queue!Stop
<1>8. CASE UNCHANGED Queue!vars
  BY <1>8 DEF Queue!vars
<1> QED
  BY <1>1, <1>2, <1>3, <1>4, <1>5, <1>6, <1>7, <1>8 DEF Queue!Next

(* The inductive invariant of the promise.                                 *)
THEOREM QueueInvariant == Queue!Spec => []QueueInv
<1>1. QueueInv /\ [Queue!Next]_(Queue!vars) => QueueInv'
  BY QueueTypesKept, OneWaitsKept, InOrderKept, NothingLeftKept DEF QueueInv
<1> QED
  BY InitQueueInv, <1>1, PTL DEF Queue!Spec

(* For any items and any tags, two related items are never processed at    *)
(* once (README.md:3): of the two, the one reserved later is served only   *)
(* when the other is finalized.                                            *)
THEOREM QueueSerial == Queue!Spec => []Queue!Serial
<1>1. QueueInv => Queue!Serial
  BY DEF QueueInv, Queue!TypeOK, OneWaits, Queue!InOrder, Queue!Serial, Queue!Pending
<1> QED
  BY QueueInvariant, <1>1, PTL

(* An item is served only behind finalized ones (README.md:30).            *)
THEOREM QueueInOrder == Queue!Spec => []Queue!InOrder
BY QueueInvariant, PTL DEF QueueInv

(* Stopping the consumers leaves no item behind.                           *)
THEOREM QueueNothingLeft == Queue!Spec => []Queue!NothingLeft
BY QueueInvariant, PTL DEF QueueInv
=============================================================================
