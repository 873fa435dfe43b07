------------------------------- MODULE Forque -------------------------------
(***************************************************************************)
(* frq::forque and detail::chain (src/inc/forque.hpp): a tree of chains,   *)
(* one per tag prefix in use.  A chain is a list of segments; a segment    *)
(* holds items reserved under the chain's own tag (siblings_), and after   *)
(* them the child chains for longer tags.  Only items of active segments   *)
(* at the front of their chains are offered to the consumers.              *)
(*                                                                         *)
(* Every chain has a mutex.  A coroutine is between two steps only where   *)
(* it waits for a mutex or has control of the item: one step is what the   *)
(* code does from one lock to the next, with the unlocks and the run-queue *)
(* calls in between.  (An unlock commutes with every step before it, and   *)
(* so does a put: it only makes an item available.)  Which waiter gets a   *)
(* mutex is left open; module Mutex says it is the first.                  *)
(*                                                                         *)
(* The run queue is what a forque uses of it: the items put and not yet    *)
(* taken.  Its order is left open (fifo, lifo and priority are all there). *)
(*                                                                         *)
(* Erasing a chain destroys its subtree.  A coroutine whose next step      *)
(* would use a destroyed chain, or a handle to an item of one, is stuck:   *)
(* the code's behaviour is undefined from there on.                        *)
(***************************************************************************)
EXTENDS Naturals, SequencesExt

CONSTANTS
  Items,    \* what the producers reserve, each once
  Tags      \* the placed tags: below which chain, as a sequence of keys

ASSUME TagsAssumption ==
  Tags # {} /\ \A t \in Tags : t \in Seq(ToSet(t))

Meta == 0   \* forque::meta_, of which only the mutex is ever used
Root == 1   \* forque::root_

VARIABLES
  chain,        \* chain[p]: parent_, tag_ and segments_ (empty: destroyed)
  frames,       \* the chains each coroutine holds, with what is left to do
  call,         \* the arguments of the remove_child each coroutine is in
  pc,           \* where each coroutine is
  tag,          \* the tag an item has been reserved under
  before,       \* the related items pending when an item was reserved
  filled,       \* the items that have a value
  ready,        \* how often each item is in the run queue
  interrupted,  \* chain::interrupted_ of the root
  stopped       \* runque::interrupted_

vars == <<chain, frames, call, pc, tag, before, filled, ready,
          interrupted, stopped>>

(* one coroutine reserves and releases an item, another consumes it *)
Producer(i) == <<"produce", i>>
Consumer(i) == <<"consume", i>>
Coros == {Producer(i) : i \in Items} \cup {Consumer(i) : i \in Items}

NoCall == [on |-> Meta, tag |-> <<>>, version |-> 0, child |-> Meta]

Frame(p, todo) == [chain |-> p, todo |-> todo]

NewSegment(active) ==
  [siblings |-> <<>>, children |-> {}, version |-> 0, active |-> active]

NewChain(parent, t, active) ==
  [parent |-> parent, tag |-> t, segments |-> <<NewSegment(active)>>]

-----------------------------------------------------------------------------
(* Reading the tree *)

Chains == DOMAIN chain

(* neither the chain nor one above it has been erased *)
Exists(p) ==
  LET alive[q \in Chains] ==
        chain[q].segments # <<>> /\ (q # Root => alive[chain[q].parent])
  IN  p # Meta => alive[p]

FrontOf(p) == Head(chain[p].segments)
BackOf(p)  == Last(chain[p].segments)

(* children_.find(key), as a set of at most one chain *)
Find(segment, t) == {d \in segment.children : chain[d].tag = t}

(* the chain an item is in: none once it is finalized or destroyed *)
Home(i) ==
  {p \in Chains : /\ \E k \in DOMAIN chain[p].segments :
                      Contains(chain[p].segments[k].siblings, i)
                  /\ Exists(p)}

(* item_handle_impl::owner_ and segment_ *)
Owner(i) == CHOOSE p \in Home(i) : TRUE
SegmentOf(i) ==
  CHOOSE k \in DOMAIN chain[Owner(i)].segments :
    Contains(chain[Owner(i)].segments[k].siblings, i)

Holding(c) == {frames[c][n].chain : n \in DOMAIN frames[c]}
Free(p) == \A c \in Coros : p \notin Holding(c)

Related(s, t) == IsPrefix(s, t) \/ IsPrefix(t, s)

(* reserved, and not popped by its finalize yet *)
Placed(i) == pc[Producer(i)] \in {"reserved", "populated"}
Finalized(i) == pc[Consumer(i)] \in {"activate", "remove", "find", "compare",
                                     "finalized"}
Taken(i) == pc[Consumer(i)] \in {"retained", "finalize"}
Pending(i) == pc[Producer(i)] \notin {"new", "rejected"} /\ ~Finalized(i)

(* the coroutine will use its handle to the item *)
Refers(c, i) == \/ c = Producer(i) /\ pc[c] = "reserved"
                \/ c = Consumer(i) /\ pc[c] \in {"retained", "finalize"}

(* What the next step of a coroutine uses still exists. *)
Sound(c) == /\ \A p \in Holding(c) \cup {call[c].on} : Exists(p)
            /\ \A i \in Items : Refers(c, i) => Home(i) # {}

-----------------------------------------------------------------------------
(* The run queue *)

(* runque::put of each item of S; an interrupted queue throws *)
Put(S) ==
  ready' = IF stopped THEN ready
           ELSE [i \in Items |-> ready[i] + (IF i \in S THEN 1 ELSE 0)]

PutNothing == UNCHANGED ready

-----------------------------------------------------------------------------
(* Reserving: forque::reserve, chain::reserve *)

(* add_sibling opens a segment behind a forked one *)
WithSibling(p, i) ==
  LET old  == chain[p].segments
      open == IF Last(old).children = {} THEN old
                                         ELSE Append(old, NewSegment(FALSE))
  IN  [chain EXCEPT ![p].segments =
         [open EXCEPT ![Len(open)].siblings = Append(@, i),
                      ![Len(open)].version  = @ + 1]]

(* faulty variant: a segment opened behind a forked one is not told apart *)
FirstInForked(p) == BackOf(p).active /\ BackOf(p).siblings = <<>>

(* add_sibling finds the item first in an active segment *)
FirstIn(p) == BackOf(p).children = {} /\ BackOf(p).active
              /\ BackOf(p).siblings = <<>>

AddSibling(i, p) ==
  \E valued \in BOOLEAN :     \* reserve(tag) or reserve(tag, value)
    /\ chain' = WithSibling(p, i)
    /\ filled' = IF valued THEN filled \cup {i} ELSE filled
    /\ Put(IF valued /\ FirstIn(p) THEN {i} ELSE {})
    /\ pc' = [pc EXCEPT ![Producer(i)] = IF valued THEN "populated"
                                                   ELSE "reserved"]
    /\ frames' = [frames EXCEPT ![Producer(i)] = <<>>]

(* faulty variant: a child is born active although items precede it *)
WithChildActive(p, t) ==
  LET n       == Len(chain[p].segments)
      touched == [chain EXCEPT ![p].segments[n].version = @ + 1]
  IN  IF Find(BackOf(p), t) # {} THEN touched
      ELSE Append([touched EXCEPT
                     ![p].segments[n].children = @ \cup {Len(chain) + 1}],
                  NewChain(p, t, BackOf(p).active))

(* get_segment and ensure_child *)
WithChild(p, t) ==
  LET n       == Len(chain[p].segments)
      touched == [chain EXCEPT ![p].segments[n].version = @ + 1]
      active  == BackOf(p).active /\ BackOf(p).siblings = <<>>
  IN  IF Find(BackOf(p), t) # {} THEN touched
      ELSE Append([touched EXCEPT
                     ![p].segments[n].children = @ \cup {Len(chain) + 1}],
                  NewChain(p, t, active))

(* reserve_child, up to the lock of the child *)
EnterChild(i, p, t) ==
  /\ chain' = WithChild(p, t)
  /\ pc' = [pc EXCEPT ![Producer(i)] = "descend"]
  /\ frames' = [frames EXCEPT ![Producer(i)] = <<Frame(p, {})>>]
  /\ UNCHANGED <<filled, ready>>

(* chain::reserve, holding the mutex of p, for the tag t *)
ReserveIn(i, p, t) ==
  \/ chain[p].tag = t /\ AddSibling(i, p)
  \/ chain[p].tag # t /\ EnterChild(i, p, SubSeq(t, 1, Len(chain[p].tag) + 1))

(* the order of the root's mutex is the order of the reservations *)
Reserve(i, t) ==
  /\ pc[Producer(i)] = "new"
  /\ Free(Root)
  /\ ~interrupted
  /\ tag' = [tag EXCEPT ![i] = t]
  /\ before' = [before EXCEPT ![i] =
                  {j \in Items : Pending(j) /\ Related(tag[j], t)}]
  /\ ReserveIn(i, Root, t)
  /\ UNCHANGED <<call, interrupted, stopped>>

Reject(i) ==
  /\ pc[Producer(i)] = "new"
  /\ Free(Root)
  /\ interrupted
  /\ pc' = [pc EXCEPT ![Producer(i)] = "rejected"]
  /\ UNCHANGED <<chain, frames, call, tag, before, filled, ready,
                 interrupted, stopped>>

(* the child is locked, then its parent unlocked *)
Descend(i) ==
  /\ pc[Producer(i)] = "descend"
  /\ Sound(Producer(i))
  /\ LET p == frames[Producer(i)][1].chain
     IN  \E d \in Find(BackOf(p), SubSeq(tag[i], 1, Len(chain[p].tag) + 1)) :
           Free(d) /\ ReserveIn(i, d, tag[i])
  /\ UNCHANGED <<call, tag, before, interrupted, stopped>>

(* faulty variant: the item in front is offered, active segment or not     *)
PopulateInactive(i) ==
  /\ pc[Producer(i)] = "reserved"
  /\ Sound(Producer(i))
  /\ Free(Owner(i))
  /\ filled' = filled \cup {i}
  /\ LET segment == chain[Owner(i)].segments[SegmentOf(i)]
     IN  Put(IF SegmentOf(i) = 1 /\ segment.siblings[1] = i THEN {i} ELSE {})
  /\ pc' = [pc EXCEPT ![Producer(i)] = "populated"]
  /\ UNCHANGED <<chain, frames, call, tag, before, interrupted, stopped>>

(* reservation::release *)
Populate(i) ==
  /\ pc[Producer(i)] = "reserved"
  /\ Sound(Producer(i))
  /\ Free(Owner(i))
  /\ filled' = filled \cup {i}
  /\ LET segment == chain[Owner(i)].segments[SegmentOf(i)]
     IN  Put(IF segment.active /\ SegmentOf(i) = 1 /\ segment.siblings[1] = i
             THEN {i} ELSE {})
  /\ pc' = [pc EXCEPT ![Producer(i)] = "populated"]
  /\ UNCHANGED <<chain, frames, call, tag, before, interrupted, stopped>>

-----------------------------------------------------------------------------
(* Consuming: forque::get *)
Get(i) ==
  /\ pc[Consumer(i)] = "get"
  /\ ready[i] > 0
  /\ ready' = [ready EXCEPT ![i] = @ - 1]
  /\ pc' = [pc EXCEPT ![Consumer(i)] = "retained"]
  /\ UNCHANGED <<chain, frames, call, tag, before, filled,
                 interrupted, stopped>>

-----------------------------------------------------------------------------
(* Consuming: retainment::finalize, chain::finalize and what it calls *)

(* the coroutine lets go of every mutex and is done *)
Finish(c) ==
  /\ frames' = [frames EXCEPT ![c] = <<>>]
  /\ call' = [call EXCEPT ![c] = NoCall]
  /\ pc' = [pc EXCEPT ![c] = "finalized"]

(* activate_children of p, on top of the frames already there *)
ActivateChildren(c, below, p, children) ==
  /\ frames' = [frames EXCEPT ![c] = Append(below, Frame(p, children))]
  /\ call' = [call EXCEPT ![c] = NoCall]
  /\ pc' = [pc EXCEPT ![c] = "activate"]
  /\ PutNothing

(* activate_sibling: back to the frames below, which hold no p *)
ActivateSibling(c, below, i) ==
  /\ Put({i} \cap filled)
  /\ \/ below = <<>> /\ Finish(c)
     \/ below # <<>> /\ frames' = [frames EXCEPT ![c] = below]
                     /\ UNCHANGED <<call, pc>>

(* faulty variant: the segment is served but not marked *)
ActivateSegmentUnmarked(c, below, p, k, tree) ==
  LET segment == tree[p].segments[k]
  IN  /\ chain' = tree
      /\ IF segment.siblings # <<>>
         THEN ActivateSibling(c, below, Head(segment.siblings))
         ELSE ActivateChildren(c, below, p, segment.children)

(* activate_segment of segment k of p in the tree `tree' *)
ActivateSegment(c, below, p, k, tree) ==
  LET segment == tree[p].segments[k]
  IN  /\ chain' = [tree EXCEPT ![p].segments[k].active = TRUE]
      /\ IF segment.siblings # <<>>
         THEN ActivateSibling(c, below, Head(segment.siblings))
         ELSE ActivateChildren(c, below, p, segment.children)

(* clean_parent: the version is read, then every mutex is unlocked *)
CleanParent(c, p, tree) ==
  /\ chain' = tree
  /\ call' = [call EXCEPT ![c] =
                [on |-> tree[p].parent, tag |-> tree[p].tag,
                 version |-> Head(tree[p].segments).version, child |-> p]]
  /\ frames' = [frames EXCEPT ![c] = <<>>]
  /\ pc' = [pc EXCEPT ![c] = "remove"]
  /\ PutNothing /\ UNCHANGED stopped

(* next_segment, called when segment k of p has become empty *)
NextSegment(c, p, k, tree) ==
  \/ /\ Len(tree[p].segments) > 1
     /\ ActivateSegment(c, <<>>, p, k,
          [tree EXCEPT ![p].segments = RemoveAt(@, k)])
     /\ UNCHANGED stopped
  \/ /\ Len(tree[p].segments) = 1 /\ p # Root
     /\ CleanParent(c, p, tree)
  \/ /\ Len(tree[p].segments) = 1 /\ p = Root
     /\ chain' = tree
     /\ stopped' = (stopped \/ interrupted)     \* runque::interrupt
     /\ Finish(c) /\ PutNothing

(* finalize, up to the lock of the item's own chain *)
Finalize(i) ==
  LET c == Consumer(i)
  IN  /\ pc[c] = "retained"
      /\ Sound(c)
      /\ Free(chain[Owner(i)].parent)
      /\ frames' = [frames EXCEPT ![c] = <<Frame(chain[Owner(i)].parent, {})>>]
      /\ pc' = [pc EXCEPT ![c] = "finalize"]
      /\ UNCHANGED <<chain, call, tag, before, filled, ready,
                     interrupted, stopped>>

(* finalize, holding the parent, from the lock of the item's own chain on *)
PopItem(i) ==
  LET c == Consumer(i)
      p == Owner(i)
      k == SegmentOf(i)
      tree == [chain EXCEPT ![p].segments[k].siblings = Tail(@)]
      segment == tree[p].segments[k]
  IN  /\ pc[c] = "finalize"
      /\ Sound(c)
      /\ Free(p)
      /\ \/ /\ segment.siblings # <<>>
            /\ chain' = tree
            /\ ActivateSibling(c, <<>>, Head(segment.siblings))
            /\ UNCHANGED stopped
         \/ /\ segment.siblings = <<>> /\ segment.children # {}
            /\ chain' = tree
            /\ ActivateChildren(c, <<>>, p, segment.children)
            /\ UNCHANGED stopped
         \/ /\ segment.siblings = <<>> /\ segment.children = {}
            /\ NextSegment(c, p, k, tree)
      /\ UNCHANGED <<tag, before, filled, interrupted>>

(* activate_children locks the next child, in the order of the hash table, *)
(* and activates its first segment; or it is through, and returns          *)
Activate(i) ==
  LET c == Consumer(i)
      top == Last(frames[c])
      below == Front(frames[c])
  IN  /\ pc[c] = "activate"
      /\ Sound(c)
      /\ \/ \E d \in top.todo :
              /\ Free(d)
              /\ ActivateSegment(c,
                   Append(below, Frame(top.chain, top.todo \ {d})),
                   d, 1, chain)
         \/ /\ top.todo = {}
            /\ \/ below = <<>> /\ Finish(c)
               \/ below # <<>> /\ frames' = [frames EXCEPT ![c] = below]
                               /\ UNCHANGED <<call, pc>>
            /\ PutNothing /\ UNCHANGED chain
      /\ UNCHANGED <<tag, before, filled, interrupted, stopped>>

(* remove_child: the parent of the chain is locked *)
RemoveChild(i) ==
  LET c == Consumer(i)
  IN  /\ pc[c] = "remove"
      /\ Sound(c)
      /\ Free(chain[call[c].on].parent)
      /\ frames' = [frames EXCEPT
                      ![c] = <<Frame(chain[call[c].on].parent, {})>>]
      /\ pc' = [pc EXCEPT ![c] = "find"]
      /\ UNCHANGED <<chain, call, tag, before, filled, ready,
                     interrupted, stopped>>

(* remove_child: the chain is locked and the child looked up *)
FindChild(i) ==
  LET c == Consumer(i)
      p == call[c].on
  IN  /\ pc[c] = "find"
      /\ Sound(c)
      /\ Free(p)
      /\ \/ /\ Find(FrontOf(p), call[c].tag) = {}
            /\ Finish(c)
         \/ /\ Find(FrontOf(p), call[c].tag) # {}
            /\ frames' = [frames EXCEPT ![c] = Append(@, Frame(p, {}))]
            /\ pc' = [pc EXCEPT ![c] = "compare"]
            /\ UNCHANGED call
      /\ UNCHANGED <<chain, tag, before, filled, ready,
                     interrupted, stopped>>

(* children_.erase: the child is destroyed, and with it what is below it *)
Erased(p, d) ==
  [chain EXCEPT ![d].segments = <<>>,
                ![p].segments[1].children = @ \ {d}]

(* faulty variant: the versions are not compared *)
EraseChildUnchecked(i) ==
  LET c == Consumer(i)
      p == call[c].on
  IN  /\ pc[c] = "compare"
      /\ Sound(c)
      /\ \E d \in Find(FrontOf(p), call[c].tag) :
           /\ Free(d)
           /\ \/ /\ FrontOf(p).children # {d}
                 /\ chain' = Erased(p, d)
                 /\ Finish(c)
                 /\ UNCHANGED <<ready, stopped>>
              \/ /\ FrontOf(p).children = {d}
                 /\ NextSegment(c, p, 1, Erased(p, d))
      /\ UNCHANGED <<tag, before, filled, interrupted>>

(* faulty variant: the parent left empty is not cleaned up in its turn *)
EraseChildAlone(i) ==
  LET c == Consumer(i)
      p == call[c].on
  IN  /\ pc[c] = "compare"
      /\ Sound(c)
      /\ \E d \in Find(FrontOf(p), call[c].tag) :
           /\ Free(d)
           /\ chain' = IF FrontOf(d).version = call[c].version
                       THEN Erased(p, d) ELSE chain
      /\ Finish(c)
      /\ UNCHANGED <<tag, before, filled, ready, interrupted, stopped>>

(* remove_child: the child is locked and its version compared *)
EraseChild(i) ==
  LET c == Consumer(i)
      p == call[c].on
  IN  /\ pc[c] = "compare"
      /\ Sound(c)
      /\ \E d \in Find(FrontOf(p), call[c].tag) :
           /\ Free(d)
           /\ \/ /\ FrontOf(d).version # call[c].version
                 /\ Finish(c)
                 /\ UNCHANGED <<chain, ready, stopped>>
              \/ /\ FrontOf(d).version = call[c].version
                 /\ FrontOf(p).children # {d}
                 /\ chain' = Erased(p, d)
                 /\ Finish(c)
                 /\ UNCHANGED <<ready, stopped>>
              \/ /\ FrontOf(d).version = call[c].version
                 /\ FrontOf(p).children = {d}
                 /\ NextSegment(c, p, 1, Erased(p, d))
      /\ UNCHANGED <<tag, before, filled, interrupted>>

-----------------------------------------------------------------------------
(* faulty variant: the run queue is left to the last finalize even if there *)
(* is none to come                                                         *)
InterruptLazily ==
  /\ Free(Root)
  /\ ~interrupted
  /\ interrupted' = TRUE
  /\ UNCHANGED <<chain, frames, call, pc, tag, before, filled, ready, stopped>>

(* forque::interrupt: new reservations are refused; the run queue is       *)
(* interrupted now if the tree is empty, else by the last finalize         *)
Interrupt ==
  /\ Free(Root)
  /\ ~interrupted
  /\ interrupted' = TRUE
  /\ stopped' = (FrontOf(Root).siblings = <<>> /\ FrontOf(Root).children = {})
  /\ UNCHANGED <<chain, frames, call, pc, tag, before, filled, ready>>

Init ==
  /\ chain = <<NewChain(Meta, <<>>, TRUE)>>
  /\ frames = [c \in Coros |-> <<>>]
  /\ call = [c \in Coros |-> NoCall]
  /\ pc = [c \in Coros |-> IF c[1] = "produce" THEN "new" ELSE "get"]
  /\ tag = [i \in Items |-> <<>>]
  /\ before = [i \in Items |-> {}]
  /\ filled = {}
  /\ ready = [i \in Items |-> 0]
  /\ interrupted = FALSE
  /\ stopped = FALSE

(* the steps of a coroutine that has been called and has not returned *)
Step(i) ==
  \/ Descend(i) \/ PopItem(i) \/ Activate(i)
  \/ RemoveChild(i) \/ FindChild(i) \/ EraseChild(i)

(* no chain has been destroyed that is still in use *)
Intact == /\ \A c \in Coros : Sound(c)
          /\ \A i \in Items : Placed(i) /\ ~Finalized(i) => Home(i) # {}

(* every item is finalized or refused: nothing is left to do *)
Done ==
  /\ \/ ~Intact
     \/ \A i \in Items : \/ pc[Consumer(i)] = "finalized"
                        \/ pc[Producer(i)] = "rejected"
  /\ UNCHANGED vars

Next ==
  \/ \E i \in Items :
       \/ \E t \in Tags : Reserve(i, t)
       \/ Reject(i) \/ Populate(i) \/ Get(i) \/ Finalize(i) \/ Step(i)
  \/ Interrupt
  \/ Done

Spec == Init /\ [][Next]_vars

(* A coroutine that waits for a mutex gets it (module Mutex) and then runs *)
(* to its next wait.  A reservation is released, consumers keep asking for *)
(* items and finalize what they got: that is the client's part of the      *)
(* contract.  Nobody is obliged to reserve or to interrupt.                *)
Fairness ==
  \A i \in Items : /\ WF_vars(Step(i)) /\ WF_vars(Populate(i))
                   /\ WF_vars(Get(i)) /\ WF_vars(Finalize(i))

FairSpec == Spec /\ Fairness

-----------------------------------------------------------------------------
(* Properties *)

Label(role) ==
  IF role = "produce"
  THEN {"new", "rejected", "descend", "reserved", "populated"}
  ELSE {"get", "retained", "finalize", "activate", "remove", "find",
        "compare", "finalized"}

IsSegment(s) ==
  /\ DOMAIN s = {"siblings", "children", "version", "active"}
  /\ ToSet(s.siblings) \subseteq Items
  /\ s.children \subseteq Chains
  /\ s.version \in Nat
  /\ s.active \in BOOLEAN

IsChain(r) ==
  /\ DOMAIN r = {"parent", "tag", "segments"}
  /\ r.parent \in Chains \cup {Meta}
  /\ \E t \in Tags : IsPrefix(r.tag, t)
  /\ \A k \in DOMAIN r.segments : IsSegment(r.segments[k])

(* The variables have their types; an item is in the run queue at most     *)
(* once.                                                                   *)
TypeOK ==
  /\ \A p \in Chains : IsChain(chain[p])
  /\ \A c \in Coros :
       /\ pc[c] \in Label(c[1])
       /\ \A f \in ToSet(frames[c]) : f.chain \in Chains \cup {Meta}
                                      /\ f.todo \subseteq Chains
       /\ call[c].on \in Chains \cup {Meta}
  /\ tag \in [Items -> Tags \cup {<<>>}]
  /\ before \in [Items -> SUBSET Items]
  /\ filled \subseteq Items
  /\ ready \in [Items -> 0..1]
  /\ interrupted \in BOOLEAN /\ stopped \in BOOLEAN

(* the item has been offered to the consumers and is not finalized *)
Offered(i) == ready[i] > 0 \/ Taken(i)

(* An item is not offered before every related item reserved ahead of it   *)
(* has been finalized, whatever the interleaving of reservations passing   *)
(* down the tree with activations and removals: what README.md:3 promises. *)
(* (Up to the first destruction of a chain in use, as RelatedSerial shows  *)
(* it can happen.)                                                         *)
RelatedOrder ==
  Intact => \A i \in Items : Offered(i) => \A j \in before[i] : Finalized(j)

(* An item reaches the consumers once: its release and the activation of   *)
(* its segment never both offer it (forque.hpp:335, 371).                  *)
OfferedOnce ==
  \A i \in Items : ready[i] + (IF pc[Consumer(i)] = "get" THEN 0 ELSE 1) <= 1

(* a chain and all the chains below it *)
Subtree(p) ==
  LET under[d \in Chains] ==
        d = p \/ (chain[d].parent # Meta /\ under[chain[d].parent])
  IN  {d \in Chains : under[d]}

(* nobody is inside reserve or finalize *)
Quiet == \A i \in Items : /\ pc[Producer(i)] # "descend"
                          /\ pc[Consumer(i)] \in {"get", "retained", "finalized"}

(* With no reserve or finalize under way, a populated item whose turn has  *)
(* come has been offered: no release falls between an activation that      *)
(* found the item empty and the segment being marked (forque.hpp:333,      *)
(* 382-390).                                                               *)
NothingForgotten ==
  Quiet /\ Intact =>
    \A i \in filled :
      (~Finalized(i) /\ \A j \in before[i] : Finalized(j)) => Offered(i)

(* With nobody inside and nothing pending, an interrupted forque has       *)
(* stopped its consumers: interrupt and the last finalize do not each      *)
(* leave it to the other (forque.hpp:218, 443).                            *)
InterruptHeard ==
  Quiet /\ Intact /\ interrupted /\ (\A i \in Items : ~Pending(i)) => stopped

(* With no reserve or finalize under way, every chain still in the tree    *)
(* has a pending item at or below it: a removal refused because of its     *)
(* version is made up for by a later one (forque.hpp:415).                 *)
NoLeak ==
  Quiet /\ Intact =>
    \A p \in Chains \ {Root} :
      Exists(p) => \E i \in Items : Pending(i) /\ \E q \in Home(i) : q \in Subtree(p)

(* Only the first segment of a chain is active, and below the root only    *)
(* one whose parent segment is active and has no items of its own left:    *)
(* what ensure_child (301) and activate_segment (382) pass down the tree   *)
(* under different locks stays consistent.                                 *)
ActiveShape ==
  Intact => \A p \in Chains : \A k \in DOMAIN chain[p].segments :
    chain[p].segments[k].active =>
      k = 1 /\ (p # Root => \E s \in ToSet(chain[chain[p].parent].segments) :
                     p \in s.children /\ s.active /\ s.siblings = <<>>)

(* the removal of d that is due by i: the version read is the one found,   *)
(* but of another chain or another segment, or d is due for another use    *)
Reused(i) ==
  LET c == Consumer(i)
      p == call[c].on
  IN  /\ pc[c] = "compare"
      /\ \E d \in Find(FrontOf(p), call[c].tag) :
           /\ FrontOf(d).version = call[c].version
           /\ \/ d # call[c].child
              \/ FrontOf(d).siblings # <<>> \/ FrontOf(d).children # {}
              \/ \E j \in Items \ {i} : call[Consumer(j)].on \in Subtree(d)

(* A chain in use is destroyed only by a remove_child whose version was    *)
(* used twice, or whose child a second remove_child is due for: nothing    *)
(* else frees what another coroutine refers to (forque.hpp:415).           *)
DestroysOnlyOnReuse ==
  [][Intact => Intact' \/ \E i \in Items : Reused(i)]_vars

(* Every reservation is in the end finalized: no chain of mutexes waits in *)
(* a circle, and no item is left in an inactive segment for ever.          *)
Served ==
  \A i \in Items : pc[Producer(i)] \in {"descend", "reserved", "populated"}
                     ~> pc[Consumer(i)] = "finalized" \/ ~Intact

(* After an interrupt the run queue is in the end interrupted too, so that *)
(* the consumers return (forque.hpp:211-222, 443-445).                     *)
InterruptCompletes == interrupted ~> stopped \/ ~Intact

(* how far a client sees the item come *)
Status(i) ==
  IF pc[Producer(i)] \in {"new", "rejected"} THEN pc[Producer(i)]
  ELSE IF Finalized(i) THEN "finalized"
  ELSE IF Taken(i) THEN "served" ELSE "reserved"

Promise == INSTANCE RelatedQueue WITH status <- [i \in Items |-> Status(i)]

(* Every step, up to the first destruction of a chain in use, is one of    *)
(* RelatedQueue, or invisible to the clients.                              *)
ImplementsRelatedQueue ==
  Promise!Init /\ [][Intact' => Promise!Next]_(Promise!vars)

(* the run queue as the chains and the consumers see it *)
RunQueue == INSTANCE OfferQueue WITH
  ready <- {i \in Items : ready[i] > 0},
  taken <- {i \in Items : pc[Consumer(i)] # "get"}

(* What the chains and consumers do to the run queue is what it expects of *)
(* them (forque.hpp:219, 270, 335, 371, 444, 565): one item at a time is   *)
(* put, and none again that a consumer has taken (nor one that is there:   *)
(* OfferedOnce); a get takes one that was put; nothing is put and stopped  *)
(* at once, or unstopped.                                                  *)
UsesOfferQueue == RunQueue!Spec

(* README.md:3: at most one item is processed at a time for all tags       *)
(* related to the item's own.                                              *)
RelatedSerial ==
  \A i, j \in Items : Taken(i) /\ Taken(j) /\ i # j => ~Related(tag[i], tag[j])

(* README.md:3 up to the first destruction of a chain in use: nothing else *)
(* that reservations, activations and removals do to each other lets two   *)
(* consumers have related items (forque.hpp:257, 301, 335, 371).           *)
SerialWhileIntact == Intact => RelatedSerial

(* README.md:38: after the item is processed, the consumer notifies the    *)
(* queue - and that call works on a chain that is still there.             *)
RemovalTargetExists ==
  \A i \in Items : pc[Consumer(i)] \in {"remove", "find", "compare"}
                     => Exists(call[Consumer(i)].on)
=============================================================================
