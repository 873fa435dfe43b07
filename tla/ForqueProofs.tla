---------------------------- MODULE ForqueProofs ----------------------------
(***************************************************************************)
(* Proofs about module Forque.  The tree is read through three relations,  *)
(* At (an item), Kid (a child) and On (an active segment), and each way    *)
(* the code changes it is first described by what it does to these:        *)
(* Touched, Marked, Popped, Sown, Grown, Cut, Moved.  Then that each of    *)
(* them keeps IsTree, the shape of the tree, and that it is Eased: what    *)
(* it leaves to the coroutines at the other chains.  Then, action by       *)
(* action, that the inductive invariant Inv is kept:                       *)
(*   IsTree   the tree is one, with an item in one place, and only a       *)
(*            first segment active, under active ones without items        *)
(*   Tokens   an item is offered once, when it has been populated          *)
(*   Places   an item is under its tag; one that has been offered is the   *)
(*            first of an active segment                                   *)
(*   Apart    a mutex is held once                                         *)
(*   Fits     what a coroutine holds, and what it has read before it       *)
(*            waited, fits the tree                                        *)
(*   Order    what an item has to wait for is in front of it wherever      *)
(*            their ways through the tree meet; it stays so because items  *)
(*            and segments are taken from the front only (Slid)            *)
(* Nothing is assumed of chains that have been erased: Alive says that a   *)
(* chain and all above it have not been.  What follows from Inv and what   *)
(* the steps do to the run queue is in module PromiseProofs.               *)
(***************************************************************************)
EXTENDS Forque, SequenceLemmas

Keys == UNION {ToSet(t) : t \in Tags}

SegmentType ==
  [siblings : Seq(Items), children : SUBSET Nat, version : Nat, active : BOOLEAN]
ChainType == [parent : Nat, tag : Seq(Keys), segments : Seq(SegmentType)]

Par(t, p)    == t[p].parent
Count(t, p)  == Len(t[p].segments)
Sib(t, p, k) == t[p].segments[k].siblings
Chi(t, p, k) == t[p].segments[k].children
Ver(t, p, k) == t[p].segments[k].version
Act(t, p, k) == t[p].segments[k].active

Rooted(t) ==
  /\ t \in Seq(ChainType) /\ Root \in DOMAIN t
  /\ \A p \in DOMAIN t \ {Root} : Par(t, p) \in 1..(p - 1)

(* p and the chains above it: what every set with p and the parents has *)
Closed(t, S) == \A q \in S : q # Root => Par(t, q) \in S
Line(t, p) ==
  {q \in DOMAIN t : \A S \in SUBSET DOMAIN t : p \in S /\ Closed(t, S) => q \in S}

Alive(t, p) == \A q \in Line(t, p) : t[q].segments # <<>>

(* The chains above p, and those above its parent. *)
LEMMA LineFacts ==
  ASSUME NEW t, Rooted(t), NEW p \in DOMAIN t
  PROVE  /\ p \in Line(t, p) /\ Line(t, p) \subseteq DOMAIN t
         /\ Closed(t, Line(t, p))
         /\ \A q \in Line(t, p) : q <= p
         /\ p # Root => Line(t, p) = {p} \cup Line(t, Par(t, p))
         /\ Line(t, Root) = {Root}
         /\ \A q \in Line(t, p) : Line(t, q) \subseteq Line(t, p)
<1>1. /\ t \in Seq(ChainType) /\ Root \in DOMAIN t /\ DOMAIN t = 1..Len(t) /\ Len(t) \in Nat
      /\ \A q \in DOMAIN t \ {Root} : Par(t, q) \in 1..(q - 1) /\ Par(t, q) \in DOMAIN t
  BY DEF Rooted, Par
<1> DEFINE D == DOMAIN t
           P(q) == Par(t, q)
<1>2. Root \in D /\ p \in D /\ D \subseteq Nat \ {0} /\ Root = 1
      /\ \A q \in D : q # Root => P(q) \in D /\ P(q) < q
  BY <1>1 DEF Root
<1>3. \A S : Closed(t, S) <=> \A q \in S : q # Root => P(q) \in S
  BY DEF Closed
<1>4. \A x \in D : \A q : q \in Line(t, x) <=>
         q \in D /\ \A S \in SUBSET D : x \in S /\ Closed(t, S) => q \in S
  BY DEF Line
<1>44. Closed(t, D)
  BY <1>2, <1>3
<1> HIDE DEF D, P
<1>5. \A x \in D : x \in Line(t, x) /\ Line(t, x) \subseteq D
  BY <1>4
<1>6. \A x \in D : Closed(t, Line(t, x))
  BY <1>2, <1>3, <1>4
<1>7. \A x \in D : \A q \in Line(t, x) : q <= x
  <2> SUFFICES ASSUME NEW x \in D, NEW q \in Line(t, x) PROVE q <= x
    OBVIOUS
  <2>1. {y \in D : y <= x} \in SUBSET D /\ x \in {y \in D : y <= x}
    BY <1>2
  <2>2. Closed(t, {y \in D : y <= x})
    <3>1. ASSUME NEW y \in D, y <= x, y # Root PROVE P(y) \in D /\ P(y) <= x
      <4>1. P(y) \in D /\ P(y) < y /\ P(y) \in Nat /\ y \in Nat /\ x \in Nat
        BY <1>2, <3>1
      <4> QED
        BY <3>1, <4>1
    <3> QED
      BY <1>3, <3>1
  <2> QED
    BY <1>4, <2>1, <2>2
<1>8. \A x \in D : \A q \in Line(t, x) : Line(t, q) \subseteq Line(t, x)
  <2> SUFFICES ASSUME NEW x \in D, NEW q \in Line(t, x) PROVE Line(t, q) \subseteq Line(t, x)
    OBVIOUS
  <2>1. q \in D /\ Line(t, x) \in SUBSET D /\ Closed(t, Line(t, x))
    BY <1>5, <1>6
  <2> QED
    BY <1>4, <2>1
<1>9. p # Root => Line(t, p) = {p} \cup Line(t, P(p))
  <2> SUFFICES ASSUME p # Root PROVE Line(t, p) = {p} \cup Line(t, P(p))
    OBVIOUS
  <2>1. P(p) \in Line(t, p) /\ P(p) \in D
    BY <1>2, <1>3, <1>5, <1>6
  <2>2. {p} \cup Line(t, P(p)) \subseteq Line(t, p)
    BY <1>2, <1>5, <1>8, <2>1
  <2>3. Closed(t, {p} \cup Line(t, P(p)))
    BY <1>3, <1>5, <1>6, <2>1
  <2>4. {p} \cup Line(t, P(p)) \in SUBSET D
    BY <1>2, <1>5, <2>1
  <2>5. \A q \in Line(t, p) : q \in {p} \cup Line(t, P(p))
    <3> DEFINE S == {p} \cup Line(t, P(p))
    <3>1. S \in SUBSET D /\ p \in S /\ Closed(t, S)
      BY <2>3, <2>4
    <3> HIDE DEF S
    <3>2. \A q \in Line(t, p) : q \in S
      BY <1>2, <1>4, <3>1, Zenon
    <3> QED
      BY <3>2 DEF S
  <2> QED
    BY <2>2, <2>5
<1>10. Line(t, Root) = {Root}
  <2>1. Closed(t, {Root}) /\ {Root} \in SUBSET D
    BY <1>2, <1>3
  <2>2. Line(t, Root) \subseteq {Root}
    BY <1>2, <1>4, <2>1
  <2> QED
    BY <1>2, <1>5, <2>2
<1> QED
  BY <1>2, <1>5, <1>6, <1>7, <1>8, <1>9, <1>10 DEF D, P

(* Every chain is below the root, and below one of the children of each    *)
(* chain above it.                                                         *)
LEMMA LineChild ==
  ASSUME NEW t, Rooted(t), NEW p \in DOMAIN t
  PROVE  /\ Root \in Line(t, p)
         /\ \A q \in Line(t, p) : q # p =>
              \E d \in Line(t, p) : d # Root /\ Par(t, d) = q
<1>1. /\ DOMAIN t = 1..Len(t) /\ Len(t) \in Nat
      /\ \A q \in DOMAIN t \ {Root} : Par(t, q) \in 1..(q - 1) /\ Par(t, q) \in DOMAIN t
  BY DEF Rooted, Par
<1>2. /\ p \in Line(t, p) /\ Line(t, p) \subseteq DOMAIN t /\ Closed(t, Line(t, p))
  BY LineFacts
<1>3. Root \in Line(t, p)
  <2>1. PICK m \in Line(t, p) : \A n \in Line(t, p) : m <= n
    <3>1. Line(t, p) \in SUBSET Nat /\ Line(t, p) # {}
      BY <1>1, <1>2
    <3> QED
      BY <3>1, LeastNatural
  <2>2. m # Root => Par(t, m) \in Line(t, p) /\ Par(t, m) \in 1..(m - 1) /\ m \in Nat
    BY <1>1, <1>2, <2>1 DEF Closed
  <2>3. m = Root
    BY <2>1, <2>2
  <2> QED
    BY <2>1, <2>3
<1>4. ASSUME NEW q \in Line(t, p), q # p,
             \A d \in Line(t, p) : d # Root => Par(t, d) # q
      PROVE  FALSE
  <2> DEFINE S == Line(t, p) \ {q}
  <2>1. Closed(t, S)
    BY <1>2, <1>4 DEF Closed
  <2>2. S \in SUBSET DOMAIN t /\ p \in S
    BY <1>2, <1>4
  <2>3. q \in S
    BY <2>1, <2>2, <1>4 DEF Line
  <2> QED
    BY <2>3
<1> QED
  BY <1>3, <1>4

(* A tree that grows keeps the lines of its chains. *)
LEMMA LineKept ==
  ASSUME NEW t, Rooted(t), NEW u, Rooted(u), DOMAIN t \subseteq DOMAIN u,
         \A q \in DOMAIN t : Par(u, q) = Par(t, q),
         NEW p \in DOMAIN t
  PROVE  Line(u, p) = Line(t, p)
<1>1. /\ p \in Line(t, p) /\ Line(t, p) \subseteq DOMAIN t /\ Closed(t, Line(t, p))
  BY LineFacts
<1>2. p \in DOMAIN u /\ p \in Line(u, p) /\ Line(u, p) \subseteq DOMAIN u /\ Closed(u, Line(u, p))
  BY LineFacts
<1>3. Closed(u, Line(t, p)) /\ Line(t, p) \in SUBSET DOMAIN u
  BY <1>1 DEF Closed
<1>4. Line(u, p) \subseteq Line(t, p)
  BY <1>1, <1>3 DEF Line
<1>5. Closed(t, Line(u, p)) /\ Line(u, p) \in SUBSET DOMAIN t
  BY <1>1, <1>2, <1>4 DEF Closed
<1>6. Line(t, p) \subseteq Line(u, p)
  BY <1>2, <1>5 DEF Line
<1> QED
  BY <1>4, <1>6

(* A chain is there if it has segments and its parent is there. *)
LEMMA AliveFacts ==
  ASSUME NEW t, Rooted(t), NEW p \in DOMAIN t
  PROVE  /\ Alive(t, p) => t[p].segments # <<>>
         /\ p # Root => (Alive(t, p) <=> t[p].segments # <<>> /\ Alive(t, Par(t, p)))
         /\ Alive(t, Root) <=> t[Root].segments # <<>>
         /\ \A q \in Line(t, p) : Alive(t, p) => Alive(t, q)
<1>1. Rooted(t) /\ Root \in DOMAIN t
  BY DEF Rooted
<1> QED
  BY <1>1, LineFacts DEF Alive

(* What a tree keeps alive. *)
LEMMA AliveKept ==
  ASSUME NEW t, Rooted(t), NEW u, Rooted(u), DOMAIN t \subseteq DOMAIN u,
         \A q \in DOMAIN t : Par(u, q) = Par(t, q),
         \A q \in DOMAIN t : u[q].segments = <<>> <=> t[q].segments = <<>>,
         NEW p \in DOMAIN t
  PROVE  Alive(u, p) <=> Alive(t, p)
<1>1. Line(u, p) = Line(t, p) /\ Line(t, p) \subseteq DOMAIN t
  BY LineKept, LineFacts
<1> QED
  BY <1>1 DEF Alive

(* Exists, defined along the parents, says that no chain of the line has   *)
(* been erased.                                                            *)
LEMMA ExistsIsAlive ==
  ASSUME Rooted(chain), NEW p \in Chains
  PROVE  Exists(p) <=> Alive(chain, p)
<1>1. /\ Chains = 1..Len(chain) /\ Len(chain) \in Nat /\ Root \in Chains
      /\ \A q \in Chains \ {Root} : chain[q].parent \in 1..(q - 1) /\ chain[q].parent \in Chains
  BY DEF Rooted, Par, Chains
<1> DEFINE Is(f) == f = [q \in Chains |->
                     chain[q].segments # <<>> /\ (q # Root => f[chain[q].parent])]
           g == [q \in Chains |-> Alive(chain, q)]
<1>2. \A q \in Chains : g[q] = (chain[q].segments # <<>> /\ (q # Root => g[chain[q].parent]))
  <2> SUFFICES ASSUME NEW q \in Chains
               PROVE  g[q] = (chain[q].segments # <<>> /\ (q # Root => g[chain[q].parent]))
    OBVIOUS
  <2>1. g[q] = Alive(chain, q) /\ (q # Root => g[chain[q].parent] = Alive(chain, chain[q].parent))
    BY <1>1
  <2>2. Alive(chain, q) <=> (chain[q].segments # <<>> /\ (q # Root => Alive(chain, chain[q].parent)))
    BY AliveFacts DEF Chains, Par
  <2>3. Alive(chain, q) \in BOOLEAN
    BY DEF Alive
  <2> HIDE DEF g
  <2> QED
    BY <2>1, <2>2, <2>3
<1>3. Is(g)
  <2>1. g = [q \in Chains |-> chain[q].segments # <<>> /\ (q # Root => g[chain[q].parent])]
    <3> DEFINE h == [q \in Chains |-> chain[q].segments # <<>> /\ (q # Root => g[chain[q].parent])]
    <3>1. \A q \in Chains : g[q] = h[q]
      <4> HIDE DEF g
      <4> QED
        BY <1>2
    <3>2. DOMAIN g = Chains /\ DOMAIN h = Chains
      OBVIOUS
    <3>3. g = [q \in Chains |-> g[q]] /\ h = [q \in Chains |-> h[q]]
      OBVIOUS
    <3> HIDE DEF g, h
    <3>4. g = h
      BY <3>1, <3>3, Zenon
    <3> QED
      BY <3>4 DEF h
  <2> QED
    BY <2>1
<1> HIDE DEF g
<1> DEFINE f == CHOOSE f : Is(f)
<1>4. Is(f)
  BY <1>3
<1> HIDE DEF f
<1>5. \A q \in Chains : f[q] = (chain[q].segments # <<>> /\ (q # Root => f[chain[q].parent]))
  BY <1>4
<1>6. ASSUME \E q \in Chains : f[q] # g[q] PROVE FALSE
  <2> DEFINE W == {q \in Chains : f[q] # g[q]}
  <2>1. PICK m \in W : \A n \in W : m <= n
    <3>1. W \in SUBSET Nat /\ W # {}
      BY <1>1, <1>6
    <3> HIDE DEF W
    <3> QED
      BY <3>1, LeastNatural
  <2>2. m \in Chains /\ m \in Nat /\ (m # Root => chain[m].parent \in Chains /\ chain[m].parent \in Nat /\ ~(m <= chain[m].parent))
    BY <1>1
  <2>3. m # Root => f[chain[m].parent] = g[chain[m].parent]
    BY <2>1, <2>2
  <2>4. f[m] = g[m]
    BY <1>2, <1>5, <2>2, <2>3
  <2> QED
    BY <2>4
<1>7. Exists(p) <=> f[p]
  <2>1. p # Meta
    BY <1>1 DEF Meta
  <2> QED
    BY <2>1 DEF Exists, f
<1>8. g[p] <=> Alive(chain, p)
  BY DEF g
<1> QED
  BY <1>6, <1>7, <1>8

-----------------------------------------------------------------------------
(* item x is the m-th of segment k of p; d is a child in segment k of p;   *)
(* segment k of p is active                                                *)
At(t, p, k, m, x) == /\ p \in DOMAIN t /\ k \in 1..Count(t, p)
                     /\ m \in 1..Len(Sib(t, p, k)) /\ Sib(t, p, k)[m] = x
Kid(t, p, k, d) == /\ p \in DOMAIN t /\ k \in 1..Count(t, p) /\ d \in Chi(t, p, k)
On(t, p, k) == p \in DOMAIN t /\ k \in 1..Count(t, p) /\ Act(t, p, k)

Same(t, u) ==
  /\ Rooted(u) /\ DOMAIN u = DOMAIN t
  /\ \A q \in DOMAIN t : Par(u, q) = Par(t, q) /\ u[q].tag = t[q].tag

(* the tree t with other segments for p *)
With(t, p, s) == [t EXCEPT ![p].segments = s]

(* The types of the parts of a rooted tree; a parent comes before its *)
(* children.                                                          *)
LEMMA RootedFacts ==
  ASSUME NEW t, Rooted(t)
  PROVE  /\ DOMAIN t = 1..Len(t) /\ Len(t) \in Nat /\ Root \in DOMAIN t /\ Root = 1
         /\ \A p \in DOMAIN t :
              /\ t[p] \in ChainType /\ t[p].parent \in Nat /\ t[p].tag \in Seq(Keys)
              /\ t[p].segments \in Seq(SegmentType) /\ Par(t, p) = t[p].parent
              /\ Count(t, p) \in Nat /\ DOMAIN t[p].segments = 1..Count(t, p)
              /\ Count(t, p) = 0 <=> t[p].segments = <<>>
              /\ \A k \in 1..Count(t, p) :
                   /\ t[p].segments[k] \in SegmentType
                   /\ Sib(t, p, k) \in Seq(Items) /\ Len(Sib(t, p, k)) \in Nat
                   /\ DOMAIN Sib(t, p, k) = 1..Len(Sib(t, p, k))
                   /\ Chi(t, p, k) \in SUBSET Nat /\ Ver(t, p, k) \in Nat
                   /\ Act(t, p, k) \in BOOLEAN
         /\ \A p \in DOMAIN t \ {Root} : Par(t, p) \in DOMAIN t /\ Par(t, p) < p /\ Par(t, p) \in Nat
<1>1. t \in Seq(ChainType) /\ Root \in DOMAIN t
      /\ \A p \in DOMAIN t \ {Root} : Par(t, p) \in 1..(p - 1)
  BY DEF Rooted
<1>2. DOMAIN t = 1..Len(t) /\ Len(t) \in Nat /\ \A p \in DOMAIN t : t[p] \in ChainType
  BY <1>1
<1>3. ASSUME NEW p \in DOMAIN t
      PROVE  /\ t[p] \in ChainType /\ t[p].parent \in Nat /\ t[p].tag \in Seq(Keys)
             /\ t[p].segments \in Seq(SegmentType) /\ Par(t, p) = t[p].parent
             /\ Count(t, p) \in Nat /\ DOMAIN t[p].segments = 1..Count(t, p)
             /\ Count(t, p) = 0 <=> t[p].segments = <<>>
  <2>1. t[p] \in ChainType
    BY <1>2
  <2>2. t[p].parent \in Nat /\ t[p].tag \in Seq(Keys) /\ t[p].segments \in Seq(SegmentType)
    BY <2>1 DEF ChainType
  <2> QED
    BY <2>1, <2>2, EmptySeq DEF Par, Count
<1>4. ASSUME NEW p \in DOMAIN t, NEW k \in 1..Count(t, p)
      PROVE  /\ t[p].segments[k] \in SegmentType
             /\ Sib(t, p, k) \in Seq(Items) /\ Len(Sib(t, p, k)) \in Nat
             /\ DOMAIN Sib(t, p, k) = 1..Len(Sib(t, p, k))
             /\ Chi(t, p, k) \in SUBSET Nat /\ Ver(t, p, k) \in Nat
             /\ Act(t, p, k) \in BOOLEAN
  <2>1. t[p].segments[k] \in SegmentType
    BY <1>3, <1>4
  <2> QED
    BY <2>1 DEF SegmentType, Sib, Chi, Ver, Act
<1>5. \A p \in DOMAIN t \ {Root} : Par(t, p) \in DOMAIN t /\ Par(t, p) < p /\ Par(t, p) \in Nat
  BY <1>1, <1>2
<1> QED
  BY <1>1, <1>2, <1>3, <1>4, <1>5 DEF Root

(* Other segments for one chain leave the rest as it is. *)
LEMMA WithFacts ==
  ASSUME NEW t, Rooted(t), NEW p \in DOMAIN t, NEW s \in Seq(SegmentType)
  PROVE  /\ Same(t, With(t, p, s))
         /\ With(t, p, s)[p].segments = s
         /\ \A q \in DOMAIN t : q # p => With(t, p, s)[q] = t[q]
<1>1. t \in Seq(ChainType) /\ t[p] \in ChainType
  BY DEF Rooted
<1>2. [t[p] EXCEPT !.segments = s] \in ChainType
  BY <1>1 DEF ChainType
<1>3. With(t, p, s) = [t EXCEPT ![p] = [t[p] EXCEPT !.segments = s]]
  BY DEF With
<1> DEFINE u == With(t, p, s)
<1>4. u \in Seq(ChainType) /\ DOMAIN u = DOMAIN t
  BY <1>1, <1>2, <1>3
<1>5. u[p] = [t[p] EXCEPT !.segments = s] /\ \A q \in DOMAIN t : q # p => u[q] = t[q]
  BY <1>1, <1>3
<1>6. u[p].segments = s /\ u[p].parent = t[p].parent /\ u[p].tag = t[p].tag
  BY <1>1, <1>5 DEF ChainType
<1> HIDE DEF u
<1>7. Same(t, u)
  BY <1>4, <1>5, <1>6 DEF Same, Rooted, Par
<1> QED
  BY <1>5, <1>6, <1>7 DEF u

(* What is in a chain whose segments have not changed. *)
LEMMA SameChain ==
  ASSUME NEW t, NEW u, NEW q, q \in DOMAIN t, q \in DOMAIN u, u[q].segments = t[q].segments
  PROVE  /\ Count(u, q) = Count(t, q) /\ Ver(u, q, 1) = Ver(t, q, 1)
         /\ \A k, m, x : At(u, q, k, m, x) <=> At(t, q, k, m, x)
         /\ \A k, d : Kid(u, q, k, d) <=> Kid(t, q, k, d)
         /\ \A k : On(u, q, k) <=> On(t, q, k)
BY DEF Count, Ver, At, Kid, On, Sib, Chi, Act

(* Positions are numbers; a segment's items are numbered from one. *)
LEMMA AtFacts ==
  ASSUME NEW t, Rooted(t)
  PROVE  /\ \A p, k, m, x : At(t, p, k, m, x) =>
              /\ p \in DOMAIN t /\ k \in Nat /\ m \in Nat /\ 1 <= k /\ k <= Count(t, p) /\ 1 <= m
              /\ x \in Items /\ (\A y : At(t, p, k, m, y) => x = y)
              /\ \E y \in Items : At(t, p, k, 1, y)
              /\ \A n \in Nat : 1 <= n /\ n <= m => \E y \in Items : At(t, p, k, n, y)
         /\ \A p, k, d : Kid(t, p, k, d) =>
              p \in DOMAIN t /\ k \in Nat /\ 1 <= k /\ k <= Count(t, p) /\ d \in Nat
         /\ \A p, k : On(t, p, k) => p \in DOMAIN t /\ k \in Nat /\ 1 <= k /\ k <= Count(t, p)
<1>1. ASSUME NEW p, NEW k, NEW m, NEW x, At(t, p, k, m, x)
      PROVE  /\ p \in DOMAIN t /\ k \in Nat /\ m \in Nat /\ 1 <= k /\ k <= Count(t, p) /\ 1 <= m
             /\ x \in Items /\ (\A y : At(t, p, k, m, y) => x = y)
             /\ \A n \in Nat : 1 <= n /\ n <= m => \E y \in Items : At(t, p, k, n, y)
  <2>1. /\ p \in DOMAIN t /\ k \in 1..Count(t, p) /\ m \in 1..Len(Sib(t, p, k)) /\ Sib(t, p, k)[m] = x
    BY <1>1 DEF At
  <2>2. Count(t, p) \in Nat /\ Sib(t, p, k) \in Seq(Items) /\ Len(Sib(t, p, k)) \in Nat
    BY <2>1, RootedFacts
  <2>3. \A n \in 1..Len(Sib(t, p, k)) : Sib(t, p, k)[n] \in Items
    BY <2>2
  <2>4. \A n \in Nat : 1 <= n /\ n <= m => \E y \in Items : At(t, p, k, n, y)
    BY <2>1, <2>2, <2>3 DEF At
  <2> QED
    BY <2>1, <2>2, <2>3, <2>4 DEF At
<1>2. \A p, k, d : Kid(t, p, k, d) =>
        p \in DOMAIN t /\ k \in Nat /\ 1 <= k /\ k <= Count(t, p) /\ d \in Nat
  BY RootedFacts DEF Kid
<1>3. \A p, k : On(t, p, k) => p \in DOMAIN t /\ k \in Nat /\ 1 <= k /\ k <= Count(t, p)
  BY RootedFacts DEF On
<1>4. ASSUME NEW p, NEW k, NEW m, NEW x, At(t, p, k, m, x) PROVE \E y \in Items : At(t, p, k, 1, y)
  BY <1>1, <1>4
<1> QED
  BY <1>1, <1>2, <1>3, <1>4

-----------------------------------------------------------------------------
(* what the steps do to the tree *)

Sown(t, u, p, i, K, M) ==
  /\ Same(t, u) /\ K \in {Count(t, p), Count(t, p) + 1} /\ M \in Nat \ {0}
  /\ \A q \in DOMAIN t : /\ Count(u, q) = IF q = p THEN K ELSE Count(t, q)
                         /\ q # p => Ver(u, q, 1) = Ver(t, q, 1)
  /\ \A q, k, m, x : At(u, q, k, m, x) <=>
       At(t, q, k, m, x) \/ (q = p /\ k = K /\ m = M /\ x = i)
  /\ \A q, k, d : Kid(u, q, k, d) <=> Kid(t, q, k, d)
  /\ \A q, k : On(u, q, k) <=> On(t, q, k)
  /\ \A k, m, x : At(t, p, k, m, x) => k < K \/ (k = K /\ m < M)
  /\ \A d : ~Kid(t, p, K, d)
  /\ K = Count(t, p) + 1 => \E d : Kid(t, p, Count(t, p), d)

(* add_sibling on the segments of a chain *)
Opened(s) == IF Last(s).children = {} THEN s ELSE Append(s, NewSegment(FALSE))
SownIn(s, i) ==
  [Opened(s) EXCEPT ![Len(Opened(s))].siblings = Append(@, i),
                    ![Len(Opened(s))].version  = @ + 1]

(* add_sibling on a list of segments: the item is last in the last  *)
(* segment, which is a new and inactive one if the old last one has *)
(* forked.                                                          *)
LEMMA SownSegments ==
  ASSUME NEW s \in Seq(SegmentType), s # <<>>, NEW i \in Items,
         NEW r, r = SownIn(s, i)
  PROVE  /\ r \in Seq(SegmentType) /\ Len(s) \in Nat \ {0}
         /\ Len(r) = IF s[Len(s)].children = {} THEN Len(s) ELSE Len(s) + 1
         /\ \A k \in 1..Len(s) : r[k].children = s[k].children /\ r[k].active = s[k].active
         /\ \A k \in 1..Len(s) : k # Len(r) => r[k].siblings = s[k].siblings
         /\ r[Len(r)].children = {}
         /\ Len(r) = Len(s) => r[Len(r)].siblings = Append(s[Len(s)].siblings, i)
         /\ Len(r) # Len(s) => r[Len(r)].siblings = <<i>> /\ ~r[Len(r)].active
<1> DEFINE open == Opened(s)
<1>0. open = IF Last(s).children = {} THEN s ELSE Append(s, NewSegment(FALSE))
  BY DEF Opened
<1> HIDE DEF open
<1>1. Len(s) \in Nat \ {0} /\ Last(s) = s[Len(s)] /\ \A k \in 1..Len(s) : s[k] \in SegmentType
  BY EmptySeq DEF Last
<1>2. NewSegment(FALSE) \in SegmentType
  BY DEF NewSegment, SegmentType
<1>3. /\ open \in Seq(SegmentType) /\ Len(open) \in Nat \ {0}
      /\ Len(open) = IF s[Len(s)].children = {} THEN Len(s) ELSE Len(s) + 1
      /\ \A k \in 1..Len(s) : open[k] = s[k]
      /\ Len(open) # Len(s) => open[Len(open)] = NewSegment(FALSE)
  <2>1. CASE s[Len(s)].children = {}
    BY <1>0, <1>1, <2>1
  <2>2. CASE s[Len(s)].children # {}
    <3>1. open = Append(s, NewSegment(FALSE))
      BY <1>0, <1>1, <2>2
    <3>2. /\ open \in Seq(SegmentType) /\ Len(open) = Len(s) + 1
          /\ \A k \in 1..Len(s) : open[k] = s[k]
          /\ open[Len(s) + 1] = NewSegment(FALSE)
      <4> DEFINE e == NewSegment(FALSE)
      <4>1. open = Append(s, e) /\ e \in SegmentType
        BY <1>2, <3>1
      <4> HIDE DEF e
      <4>2. /\ Append(s, e) \in Seq(SegmentType) /\ Len(Append(s, e)) = Len(s) + 1
            /\ \A k \in 1..Len(s) : Append(s, e)[k] = s[k]
            /\ Append(s, e)[Len(s) + 1] = e
        BY <4>1, AppendProperties
      <4> QED
        BY <4>1, <4>2, Zenon DEF e
    <3> QED
      BY <1>1, <2>2, <3>2
  <2> QED
    BY <2>1, <2>2
<1> DEFINE n == Len(open)
           e == [open[n] EXCEPT !.siblings = Append(@, i), !.version = @ + 1]
<1>4. n \in 1..Len(open) /\ open[n] \in SegmentType
  BY <1>3
<1>5. r = [open EXCEPT ![n] = e]
  <2>1. r = [open EXCEPT ![n].siblings = Append(@, i), ![n].version = @ + 1]
    BY DEF SownIn, open
  <2> HIDE DEF n
  <2> QED
    BY <1>3, <1>4, <2>1
<1>6. open[n].siblings \in Seq(Items) /\ open[n].version \in Nat
  BY <1>4 DEF SegmentType
<1>7. Append(open[n].siblings, i) \in Seq(Items) /\ open[n].version + 1 \in Nat
  BY <1>6
<1>8. e \in SegmentType /\ e.children = open[n].children /\ e.active = open[n].active
      /\ e.siblings = Append(open[n].siblings, i)
  BY <1>4, <1>7 DEF SegmentType
<1> HIDE DEF e
<1>9. r \in Seq(SegmentType) /\ Len(r) = n
      /\ \A k \in 1..n : r[k] = IF k = n THEN e ELSE open[k]
  BY <1>3, <1>4, <1>5, <1>8, ExceptSeq
<1> HIDE DEF n
<1>10. r[n] = e /\ \A k \in 1..n : k # n => r[k] = open[k]
  BY <1>3, <1>4, <1>9 DEF n
<1>11. n = Len(open)
  BY DEF n
<1>12. open[n].children = {}
  <2>1. NewSegment(FALSE).children = {}
    BY DEF NewSegment
  <2>2. CASE n = Len(s)
    <3>1. open[n] = s[Len(s)] /\ s[Len(s)].children = {}
      BY <1>1, <1>3, <1>11, <2>2
    <3> QED
      BY <3>1
  <2>3. CASE n # Len(s)
    BY <1>3, <1>11, <2>1, <2>3
  <2> QED
    BY <2>2, <2>3
<1>13. n # Len(s) => open[n].siblings = <<>> /\ ~open[n].active
  BY <1>3, <1>11 DEF NewSegment
<1>14. n # Len(s) => e.siblings = <<i>>
  <2>1. Append(<<>>, i) = <<i>>
    OBVIOUS
  <2> QED
    BY <1>8, <1>13, <2>1
<1>15. \A k \in 1..Len(s) : k \in 1..n
  BY <1>1, <1>3, <1>11
<1>16. \A k \in 1..Len(s) : r[k].children = s[k].children /\ r[k].active = s[k].active
  BY <1>3, <1>8, <1>10, <1>15
<1>17. \A k \in 1..Len(s) : k # Len(r) => r[k].siblings = s[k].siblings
  BY <1>3, <1>9, <1>10, <1>15
<1>18. n = Len(s) => r[n].siblings = Append(s[Len(s)].siblings, i)
  BY <1>1, <1>3, <1>8, <1>10
<1> QED
  BY <1>1, <1>3, <1>8, <1>9, <1>10, <1>11, <1>12, <1>13, <1>14, <1>16, <1>17, <1>18

(* add_sibling on the tree (forque.hpp:252): what WithSibling does is *)
(* Sown.                                                              *)
LEMMA SownFacts ==
  ASSUME Rooted(chain), NEW p \in Chains, Count(chain, p) > 0, NEW i \in Items
  PROVE  \E K, M \in Nat : /\ Sown(chain, WithSibling(p, i), p, i, K, M)
                           /\ FirstIn(p) <=> K = Count(chain, p) /\ M = 1 /\ On(chain, p, K)
<1> DEFINE s == chain[p].segments
           r == SownIn(s, i)
           u == WithSibling(p, i)
           K == Len(r)
           M == Len(r[K].siblings)
           n == Len(s)
<1>1. s \in Seq(SegmentType) /\ s # <<>> /\ Count(chain, p) = n /\ p \in DOMAIN chain
  <2>1. p \in DOMAIN chain
    BY DEF Chains
  <2> QED
    BY <2>1, RootedFacts DEF Count
<1>2. u = With(chain, p, r)
  BY DEF WithSibling, With, SownIn, Opened
<1>3. /\ r \in Seq(SegmentType) /\ n \in Nat \ {0}
      /\ K = IF s[n].children = {} THEN n ELSE n + 1
      /\ \A k \in 1..n : r[k].children = s[k].children /\ r[k].active = s[k].active
      /\ \A k \in 1..n : k # K => r[k].siblings = s[k].siblings
      /\ r[K].children = {}
      /\ K = n => r[K].siblings = Append(s[n].siblings, i)
      /\ K # n => r[K].siblings = <<i>> /\ ~r[K].active
  <2> HIDE DEF s
  <2> HIDE DEF r, K, n
  <2>3. /\ r \in Seq(SegmentType) /\ Len(s) \in Nat \ {0}
        /\ Len(r) = IF s[Len(s)].children = {} THEN Len(s) ELSE Len(s) + 1
        /\ \A k \in 1..Len(s) : r[k].children = s[k].children /\ r[k].active = s[k].active
        /\ \A k \in 1..Len(s) : k # Len(r) => r[k].siblings = s[k].siblings
        /\ r[Len(r)].children = {}
        /\ Len(r) = Len(s) => r[Len(r)].siblings = Append(s[Len(s)].siblings, i)
        /\ Len(r) # Len(s) => r[Len(r)].siblings = <<i>> /\ ~r[Len(r)].active
    BY <1>1, SownSegments DEF r
  <2> QED
    BY <2>3 DEF K, n
<1>4. BackOf(p) = s[n]
  BY DEF BackOf, Last
<1> HIDE DEF s, r, u, K, n
<1>5. /\ Same(chain, u) /\ u[p].segments = r
      /\ \A q \in Chains : q # p => u[q].segments = chain[q].segments
      /\ DOMAIN u = Chains
  <2>1. /\ Same(chain, With(chain, p, r)) /\ With(chain, p, r)[p].segments = r
        /\ \A q \in DOMAIN chain : q # p => With(chain, p, r)[q] = chain[q]
    BY <1>1, <1>3, WithFacts
  <2> QED
    BY <1>2, <2>1 DEF Chains, Same
<1>6. s = chain[p].segments /\ K = Len(r)
  BY DEF s, K
<1>7. /\ \A k \in 1..n : s[k].siblings \in Seq(Items)
  BY <1>1, RootedFacts, <1>6 DEF Sib
<1>8. K \in {n, n + 1} /\ K \in Nat \ {0}
  BY <1>3
<1>9. M \in Nat \ {0} /\ r[K].siblings[M] = i /\ (K = n => M = Len(s[n].siblings) + 1)
      /\ (K = n => \A m \in 1..(M - 1) : r[K].siblings[m] = s[n].siblings[m])
      /\ (K # n => M = 1)
  <2>1. n \in 1..n
    BY <1>3
  <2>2. CASE K = n
    <3>1. s[n].siblings \in Seq(Items) /\ r[K].siblings = Append(s[n].siblings, i)
      BY <1>3, <1>7, <2>1, <2>2
    <3>2. /\ Len(s[n].siblings) \in Nat /\ M = Len(s[n].siblings) + 1
          /\ r[K].siblings[M] = i
          /\ \A m \in 1..Len(s[n].siblings) : r[K].siblings[m] = s[n].siblings[m]
      BY <3>1, AppendProperties
    <3> QED
      BY <2>2, <3>2
  <2>3. CASE K # n
    <3>1. r[K].siblings = <<i>>
      BY <1>3, <2>3
    <3> QED
      BY <2>3, <3>1
  <2> QED
    BY <2>2, <2>3
<1> DEFINE b == r[K].siblings
           a == s[n].siblings
<1>10. \A q, k, m, x : At(u, q, k, m, x) <=>
         At(chain, q, k, m, x) \/ (q = p /\ k = K /\ m = M /\ x = i)
  <2> SUFFICES ASSUME NEW q, NEW k, NEW m, NEW x
               PROVE  At(u, q, k, m, x) <=>
                        At(chain, q, k, m, x) \/ (q = p /\ k = K /\ m = M /\ x = i)
    OBVIOUS
  <2>0. At(u, q, k, m, x) \/ At(chain, q, k, m, x) => q \in Chains
    BY <1>5 DEF At, Chains
  <2>1. CASE q # p
    BY <1>5, <2>0, <2>1, SameChain DEF Chains
  <2>2. CASE q = p
    <3>1. At(u, p, k, m, x) <=> k \in 1..K /\ m \in 1..Len(r[k].siblings) /\ r[k].siblings[m] = x
      BY <1>1, <1>5, <1>6 DEF At, Count, Sib, Chains
    <3>2. At(chain, p, k, m, x) <=> k \in 1..n /\ m \in 1..Len(s[k].siblings) /\ s[k].siblings[m] = x
      BY <1>1, <1>6 DEF At, Count, Sib, n
    <3>3. CASE k # K
      <4>1. k \in 1..K <=> k \in 1..n
        BY <1>3, <1>8, <3>3
      <4>2. k \in 1..n => r[k].siblings = s[k].siblings
        BY <1>3, <3>3
      <4> QED
        BY <2>2, <3>1, <3>2, <3>3, <4>1, <4>2
    <3>4. CASE k = K /\ K = n
      <4>1. k \in 1..K /\ k \in 1..n
        BY <1>8, <3>4
      <4>2. m \in 1..M <=> m \in 1..(M - 1) \/ m = M
        BY <1>9
      <4>3. Len(a) = M - 1 /\ Len(b) = M
        <5>1. Len(a) \in Nat
          BY <1>7, <3>4, <4>1
        <5> QED
          BY <1>9, <3>4, <5>1
      <4>4. \A j \in 1..(M - 1) : b[j] = a[j]
        BY <1>9, <3>4
      <4>5. b[M] = i
        BY <1>9
      <4>6. At(u, p, k, m, x) <=> m \in 1..M /\ b[m] = x
        BY <3>1, <3>4, <4>1, <4>3
      <4>7. At(chain, p, k, m, x) <=> m \in 1..(M - 1) /\ a[m] = x
        BY <3>2, <3>4, <4>1, <4>3
      <4> HIDE DEF M, a, b
      <4> QED
        BY <2>2, <3>4, <4>2, <4>4, <4>5, <4>6, <4>7, <1>9
    <3>5. CASE k = K /\ K # n
      <4>1. k \in 1..K /\ k \notin 1..n
        BY <1>3, <1>8, <3>5
      <4>2. m \in 1..M <=> m = M
        BY <1>9, <3>5
      <4> QED
        BY <2>2, <3>1, <3>2, <3>5, <4>1, <4>2, <1>9
    <3> QED
      BY <3>3, <3>4, <3>5
  <2> QED
    BY <2>1, <2>2
<1>11. \A q, k, d : Kid(u, q, k, d) <=> Kid(chain, q, k, d)
  <2> SUFFICES ASSUME NEW q, NEW k, NEW d PROVE Kid(u, q, k, d) <=> Kid(chain, q, k, d)
    OBVIOUS
  <2>0. Kid(u, q, k, d) \/ Kid(chain, q, k, d) => q \in Chains
    BY <1>5 DEF Kid, Chains
  <2>1. CASE q # p
    BY <1>5, <2>0, <2>1, SameChain DEF Chains
  <2>2. CASE q = p
    <3>1. Kid(u, p, k, d) <=> k \in 1..K /\ d \in r[k].children
      BY <1>1, <1>5, <1>6 DEF Kid, Count, Chi, Chains
    <3>2. Kid(chain, p, k, d) <=> k \in 1..n /\ d \in s[k].children
      BY <1>1, <1>6 DEF Kid, Count, Chi, n
    <3>3. k \in 1..K <=> k \in 1..n \/ k = K
      BY <1>3, <1>8
    <3> QED
      BY <1>3, <2>2, <3>1, <3>2, <3>3
  <2> QED
    BY <2>1, <2>2
<1>12. \A q, k : On(u, q, k) <=> On(chain, q, k)
  <2> SUFFICES ASSUME NEW q, NEW k PROVE On(u, q, k) <=> On(chain, q, k)
    OBVIOUS
  <2>0. On(u, q, k) \/ On(chain, q, k) => q \in Chains
    BY <1>5 DEF On, Chains
  <2>1. CASE q # p
    BY <1>5, <2>0, <2>1, SameChain DEF Chains
  <2>2. CASE q = p
    <3>1. On(u, p, k) <=> k \in 1..K /\ r[k].active
      BY <1>1, <1>5, <1>6 DEF On, Count, Act, Chains
    <3>2. On(chain, p, k) <=> k \in 1..n /\ s[k].active
      BY <1>1, <1>6 DEF On, Count, Act, n
    <3>3. k \in 1..K <=> k \in 1..n \/ k = K
      BY <1>3, <1>8
    <3>4. k = K /\ k \notin 1..n => K # n
      BY <1>3
    <3> QED
      BY <1>3, <2>2, <3>1, <3>2, <3>3, <3>4
  <2> QED
    BY <2>1, <2>2
<1>13. \A k, m, x : At(chain, p, k, m, x) => k < K \/ (k = K /\ m < M)
  <2> SUFFICES ASSUME NEW k, NEW m, NEW x, At(chain, p, k, m, x)
               PROVE  k < K \/ (k = K /\ m < M)
    OBVIOUS
  <2>1. k \in 1..n /\ m \in 1..Len(s[k].siblings)
    BY <1>1, <1>6 DEF At, Count, Sib, n
  <2>2. CASE k # K
    BY <1>3, <2>1, <2>2
  <2>3. CASE k = K
    <3>1. K = n
      BY <1>3, <2>1, <2>3
    <3>2. Len(a) \in Nat /\ M = Len(a) + 1 /\ m \in 1..Len(a)
      BY <1>3, <1>7, <1>9, <2>1, <2>3, <3>1
    <3> QED
      BY <2>3, <3>2
  <2> QED
    BY <2>2, <2>3
<1>14. \A d : ~Kid(chain, p, K, d)
  <2>1. \A d : ~Kid(u, p, K, d)
    BY <1>3, <1>5 DEF Kid, Chi
  <2> QED
    BY <1>11, <2>1
<1>15. K = n + 1 => \E d : Kid(chain, p, n, d)
  <2> SUFFICES ASSUME K = n + 1 PROVE \E d : Kid(chain, p, n, d)
    OBVIOUS
  <2>1. s[n].children # {} /\ n \in 1..n
    BY <1>3
  <2> QED
    BY <1>1, <1>6, <2>1 DEF Kid, Chi
<1>16. \A q \in Chains : /\ Count(u, q) = IF q = p THEN K ELSE Count(chain, q)
                         /\ q # p => Ver(u, q, 1) = Ver(chain, q, 1)
  BY <1>5, <1>6 DEF Count, Ver
<1>17. Sown(chain, u, p, i, K, M)
  <2> HIDE DEF M
  <2> QED
    BY <1>1, <1>5, <1>8, <1>9, <1>10, <1>11, <1>12, <1>13, <1>14, <1>15, <1>16 DEF Sown, Chains
<1>18. FirstIn(p) <=> K = n /\ M = 1 /\ On(chain, p, K)
  <2>1. FirstIn(p) <=> s[n].children = {} /\ s[n].active /\ s[n].siblings = <<>>
    BY <1>4 DEF FirstIn
  <2>2. K = n <=> s[n].children = {}
    BY <1>3
  <2>3. n \in 1..n /\ (K = n => (On(chain, p, K) <=> s[n].active))
    BY <1>1, <1>3, <1>6 DEF On, Act
  <2>4. K = n => (M = 1 <=> s[n].siblings = <<>>)
    <3>1. s[n].siblings \in Seq(Items)
      BY <1>7, <2>3
    <3>2. Len(s[n].siblings) \in Nat /\ (Len(s[n].siblings) = 0 <=> s[n].siblings = <<>>)
      BY <3>1, EmptySeq
    <3> HIDE DEF M
    <3> QED
      BY <1>9, <3>2
  <2> QED
    BY <2>1, <2>2, <2>3, <2>4
<1> QED
  BY <1>1, <1>8, <1>9, <1>17, <1>18 DEF u

-----------------------------------------------------------------------------
(* What is in the chains after one has got other segments. *)
LEMMA WithParts ==
  ASSUME NEW t, Rooted(t), NEW p \in DOMAIN t, NEW s \in Seq(SegmentType),
         NEW u, u = With(t, p, s)
  PROVE  /\ Same(t, u) /\ u[p].segments = s
         /\ \A q \in DOMAIN t : q # p => u[q] = t[q]
         /\ \A q \in DOMAIN t : /\ Count(u, q) = IF q = p THEN Len(s) ELSE Count(t, q)
                                /\ q # p => Ver(u, q, 1) = Ver(t, q, 1)
         /\ \A k, m, x : At(u, p, k, m, x) <=>
              k \in 1..Len(s) /\ m \in 1..Len(s[k].siblings) /\ s[k].siblings[m] = x
         /\ \A k, d : Kid(u, p, k, d) <=> k \in 1..Len(s) /\ d \in s[k].children
         /\ \A k : On(u, p, k) <=> k \in 1..Len(s) /\ s[k].active
         /\ \A q, k, m, x : q # p => (At(u, q, k, m, x) <=> At(t, q, k, m, x))
         /\ \A q, k, d : q # p => (Kid(u, q, k, d) <=> Kid(t, q, k, d))
         /\ \A q, k : q # p => (On(u, q, k) <=> On(t, q, k))
<1>1. /\ Same(t, u) /\ u[p].segments = s /\ DOMAIN u = DOMAIN t
      /\ \A q \in DOMAIN t : q # p => u[q] = t[q]
  BY WithFacts DEF Same
<1>2. /\ \A q, k, m, x : At(u, q, k, m, x) \/ At(t, q, k, m, x) => q \in DOMAIN t
      /\ \A q, k, d : Kid(u, q, k, d) \/ Kid(t, q, k, d) => q \in DOMAIN t
      /\ \A q, k : On(u, q, k) \/ On(t, q, k) => q \in DOMAIN t
  BY <1>1 DEF At, Kid, On
<1>3. \A q \in DOMAIN t : q # p =>
        /\ \A k, m, x : At(u, q, k, m, x) <=> At(t, q, k, m, x)
        /\ \A k, d : Kid(u, q, k, d) <=> Kid(t, q, k, d)
        /\ \A k : On(u, q, k) <=> On(t, q, k)
        /\ Count(u, q) = Count(t, q) /\ Ver(u, q, 1) = Ver(t, q, 1)
  BY <1>1, SameChain
<1>4. /\ Count(u, p) = Len(s)
      /\ \A k, m, x : At(u, p, k, m, x) <=>
           k \in 1..Len(s) /\ m \in 1..Len(s[k].siblings) /\ s[k].siblings[m] = x
      /\ \A k, d : Kid(u, p, k, d) <=> k \in 1..Len(s) /\ d \in s[k].children
      /\ \A k : On(u, p, k) <=> k \in 1..Len(s) /\ s[k].active
  BY <1>1 DEF At, Kid, On, Count, Sib, Chi, Act
<1> QED
  BY <1>1, <1>2, <1>3, <1>4

(* What is in a chain. *)
LEMMA Parts ==
  ASSUME NEW t, Rooted(t), NEW p \in DOMAIN t, NEW s, s = t[p].segments
  PROVE  /\ s \in Seq(SegmentType) /\ Len(s) \in Nat /\ Count(t, p) = Len(s)
         /\ \A k, m, x : At(t, p, k, m, x) <=>
              k \in 1..Len(s) /\ m \in 1..Len(s[k].siblings) /\ s[k].siblings[m] = x
         /\ \A k, d : Kid(t, p, k, d) <=> k \in 1..Len(s) /\ d \in s[k].children
         /\ \A k : On(t, p, k) <=> k \in 1..Len(s) /\ s[k].active
         /\ Ver(t, p, 1) = s[1].version
         /\ \A k \in 1..Len(s) :
              /\ s[k] \in SegmentType /\ s[k].siblings \in Seq(Items)
              /\ Len(s[k].siblings) \in Nat /\ s[k].children \in SUBSET Nat
              /\ s[k].version \in Nat /\ s[k].active \in BOOLEAN
<1>1. s \in Seq(SegmentType) /\ Len(s) \in Nat
  BY RootedFacts
<1>2. \A k \in 1..Len(s) :
              /\ s[k] \in SegmentType /\ s[k].siblings \in Seq(Items)
              /\ Len(s[k].siblings) \in Nat /\ s[k].children \in SUBSET Nat
              /\ s[k].version \in Nat /\ s[k].active \in BOOLEAN
  <2> SUFFICES ASSUME NEW k \in 1..Len(s)
               PROVE  /\ s[k] \in SegmentType /\ s[k].siblings \in Seq(Items)
                      /\ Len(s[k].siblings) \in Nat /\ s[k].children \in SUBSET Nat
                      /\ s[k].version \in Nat /\ s[k].active \in BOOLEAN
    OBVIOUS
  <2>1. s[k] \in SegmentType
    BY <1>1
  <2>2. s[k].siblings \in Seq(Items)
    BY <2>1 DEF SegmentType
  <2> QED
    BY <2>1, <2>2 DEF SegmentType
<1> QED
  BY <1>1, <1>2 DEF At, Kid, On, Count, Sib, Chi, Act, Ver

(* One segment is another one. *)
LEMMA SegmentReplaced ==
  ASSUME NEW s \in Seq(SegmentType), NEW n \in 1..Len(s), NEW e \in SegmentType,
         NEW r, r = [s EXCEPT ![n] = e]
  PROVE  /\ r \in Seq(SegmentType) /\ Len(r) = Len(s) /\ r[n] = e
         /\ \A k \in 1..Len(s) : k # n => r[k] = s[k]
<1>1. Len(s) \in Nat
  OBVIOUS
<1> QED
  BY <1>1, ExceptSeq

-----------------------------------------------------------------------------
Touched(t, u, p) ==
  /\ Same(t, u)
  /\ \A q \in DOMAIN t : /\ Count(u, q) = Count(t, q)
                         /\ q # p => Ver(u, q, 1) = Ver(t, q, 1)
  /\ \A q, k, m, x : At(u, q, k, m, x) <=> At(t, q, k, m, x)
  /\ \A q, k, d : Kid(u, q, k, d) <=> Kid(t, q, k, d)
  /\ \A q, k : On(u, q, k) <=> On(t, q, k)

(* get_segment only counts the version of the last segment up. *)
LEMMA TouchedFacts ==
  ASSUME NEW t, Rooted(t), NEW p \in DOMAIN t, Count(t, p) > 0
  PROVE  Touched(t, [t EXCEPT ![p].segments[Count(t, p)].version = @ + 1], p)
<1> DEFINE s == t[p].segments
           n == Len(s)
           e == [s[n] EXCEPT !.version = @ + 1]
           r == [s EXCEPT ![n] = e]
           u == [t EXCEPT ![p].segments[n].version = @ + 1]
<1>1. /\ s \in Seq(SegmentType) /\ n \in 1..n /\ s[n] \in SegmentType /\ s[n].version \in Nat
      /\ Count(t, p) = n
  BY Parts
<1>2. u = With(t, p, r)
  BY DEF With
<1>3. e \in SegmentType /\ e.siblings = s[n].siblings /\ e.children = s[n].children
      /\ e.active = s[n].active
  <2>1. s[n].version + 1 \in Nat
    BY <1>1
  <2> QED
    BY <1>1, <2>1 DEF SegmentType
<1> HIDE DEF e
<1>4. /\ r \in Seq(SegmentType) /\ Len(r) = n /\ r[n] = e
      /\ \A k \in 1..n : k # n => r[k] = s[k]
  BY <1>1, <1>3, SegmentReplaced
<1>5. s = t[p].segments /\ n = Len(s)
  OBVIOUS
<1> HIDE DEF r, s, u, n
<1>6. \A k \in 1..n : /\ r[k].siblings = s[k].siblings /\ r[k].children = s[k].children
                      /\ r[k].active = s[k].active
  BY <1>3, <1>4
<1>7. Touched(t, u, p)
  <2>1. /\ Same(t, u)
        /\ \A q \in DOMAIN t : /\ Count(u, q) = IF q = p THEN Len(r) ELSE Count(t, q)
                               /\ q # p => Ver(u, q, 1) = Ver(t, q, 1)
        /\ \A k, m, x : At(u, p, k, m, x) <=>
             k \in 1..Len(r) /\ m \in 1..Len(r[k].siblings) /\ r[k].siblings[m] = x
        /\ \A k, d : Kid(u, p, k, d) <=> k \in 1..Len(r) /\ d \in r[k].children
        /\ \A k : On(u, p, k) <=> k \in 1..Len(r) /\ r[k].active
        /\ \A q, k, m, x : q # p => (At(u, q, k, m, x) <=> At(t, q, k, m, x))
        /\ \A q, k, d : q # p => (Kid(u, q, k, d) <=> Kid(t, q, k, d))
        /\ \A q, k : q # p => (On(u, q, k) <=> On(t, q, k))
    BY <1>2, <1>4, WithParts
  <2>2. /\ Count(t, p) = n
        /\ \A k, m, x : At(t, p, k, m, x) <=>
             k \in 1..n /\ m \in 1..Len(s[k].siblings) /\ s[k].siblings[m] = x
        /\ \A k, d : Kid(t, p, k, d) <=> k \in 1..n /\ d \in s[k].children
        /\ \A k : On(t, p, k) <=> k \in 1..n /\ s[k].active
    BY <1>5, Parts
  <2>3. \A k, m, x : At(u, p, k, m, x) <=> At(t, p, k, m, x)
    BY <1>4, <1>6, <2>1, <2>2
  <2>4. \A k, d : Kid(u, p, k, d) <=> Kid(t, p, k, d)
    BY <1>4, <1>6, <2>1, <2>2
  <2>5. \A k : On(u, p, k) <=> On(t, p, k)
    BY <1>4, <1>6, <2>1, <2>2
  <2> QED
    BY <1>4, <2>1, <2>2, <2>3, <2>4, <2>5 DEF Touched
<1> QED
  BY <1>1, <1>7 DEF u, n, s

-----------------------------------------------------------------------------
Marked(t, u, p) ==
  /\ Same(t, u)
  /\ \A q \in DOMAIN t : Count(u, q) = Count(t, q) /\ Ver(u, q, 1) = Ver(t, q, 1)
  /\ \A q, k, m, x : At(u, q, k, m, x) <=> At(t, q, k, m, x)
  /\ \A q, k, d : Kid(u, q, k, d) <=> Kid(t, q, k, d)
  /\ \A q, k : On(u, q, k) <=> On(t, q, k) \/ (q = p /\ k = 1)

(* activate_segment marks the first segment of a chain and nothing else. *)
LEMMA MarkedFacts ==
  ASSUME NEW t, Rooted(t), NEW p \in DOMAIN t, Count(t, p) > 0
  PROVE  Marked(t, [t EXCEPT ![p].segments[1].active = TRUE], p)
<1> DEFINE s == t[p].segments
           n == Len(s)
           e == [s[1] EXCEPT !.active = TRUE]
           r == [s EXCEPT ![1] = e]
           u == [t EXCEPT ![p].segments[1].active = TRUE]
<1>1. /\ s \in Seq(SegmentType) /\ 1 \in 1..n /\ s[1] \in SegmentType
      /\ Count(t, p) = n
  BY Parts
<1>2. u = With(t, p, r)
  BY DEF With
<1>3. e \in SegmentType /\ e.siblings = s[1].siblings /\ e.children = s[1].children
      /\ e.active = TRUE /\ e.version = s[1].version
  BY <1>1 DEF SegmentType
<1> HIDE DEF e
<1>4. /\ r \in Seq(SegmentType) /\ Len(r) = n /\ r[1] = e
      /\ \A k \in 1..n : k # 1 => r[k] = s[k]
  BY <1>1, <1>3, SegmentReplaced
<1>5. s = t[p].segments /\ n = Len(s)
  OBVIOUS
<1> HIDE DEF r, s, u, n
<1>6. \A k \in 1..n : /\ r[k].siblings = s[k].siblings /\ r[k].children = s[k].children
                      /\ r[k].active <=> s[k].active \/ k = 1
  BY <1>1, <1>3, <1>4
<1>7. Marked(t, u, p)
  <2>1. /\ Same(t, u) /\ u[p].segments = r
        /\ \A q \in DOMAIN t : /\ Count(u, q) = IF q = p THEN Len(r) ELSE Count(t, q)
                               /\ q # p => Ver(u, q, 1) = Ver(t, q, 1)
        /\ \A k, m, x : At(u, p, k, m, x) <=>
             k \in 1..Len(r) /\ m \in 1..Len(r[k].siblings) /\ r[k].siblings[m] = x
        /\ \A k, d : Kid(u, p, k, d) <=> k \in 1..Len(r) /\ d \in r[k].children
        /\ \A k : On(u, p, k) <=> k \in 1..Len(r) /\ r[k].active
        /\ \A q, k, m, x : q # p => (At(u, q, k, m, x) <=> At(t, q, k, m, x))
        /\ \A q, k, d : q # p => (Kid(u, q, k, d) <=> Kid(t, q, k, d))
        /\ \A q, k : q # p => (On(u, q, k) <=> On(t, q, k))
    BY <1>2, <1>4, WithParts
  <2>2. /\ Count(t, p) = n /\ Ver(t, p, 1) = s[1].version
        /\ \A k, m, x : At(t, p, k, m, x) <=>
             k \in 1..n /\ m \in 1..Len(s[k].siblings) /\ s[k].siblings[m] = x
        /\ \A k, d : Kid(t, p, k, d) <=> k \in 1..n /\ d \in s[k].children
        /\ \A k : On(t, p, k) <=> k \in 1..n /\ s[k].active
    BY <1>5, Parts
  <2>3. \A k, m, x : At(u, p, k, m, x) <=> At(t, p, k, m, x)
    BY <1>4, <1>6, <2>1, <2>2
  <2>4. \A k, d : Kid(u, p, k, d) <=> Kid(t, p, k, d)
    BY <1>4, <1>6, <2>1, <2>2
  <2>5. \A k : On(u, p, k) <=> On(t, p, k) \/ k = 1
    BY <1>1, <1>4, <1>6, <2>1, <2>2
  <2>6. Ver(u, p, 1) = Ver(t, p, 1)
    BY <1>3, <1>4, <2>1, <2>2 DEF Ver
  <2> QED
    BY <1>4, <2>1, <2>2, <2>3, <2>4, <2>5, <2>6 DEF Marked
<1> QED
  BY <1>7 DEF u

-----------------------------------------------------------------------------
Popped(t, u, p) ==
  /\ Same(t, u)
  /\ \A q \in DOMAIN t : Count(u, q) = Count(t, q) /\ Ver(u, q, 1) = Ver(t, q, 1)
  /\ \A q, k, m, x : q # p \/ k # 1 => (At(u, q, k, m, x) <=> At(t, q, k, m, x))
  /\ \A m, x : At(u, p, 1, m, x) <=> m \in Nat /\ 1 <= m /\ At(t, p, 1, m + 1, x)
  /\ \A q, k, d : Kid(u, q, k, d) <=> Kid(t, q, k, d)
  /\ \A q, k : On(u, q, k) <=> On(t, q, k)

(* pop_front takes the first item of the first segment and nothing else. *)
LEMMA PoppedFacts ==
  ASSUME NEW t, Rooted(t), NEW p \in DOMAIN t, Count(t, p) > 0, Sib(t, p, 1) # <<>>
  PROVE  Popped(t, [t EXCEPT ![p].segments[1].siblings = Tail(@)], p)
<1> DEFINE s == t[p].segments
           n == Len(s)
           e == [s[1] EXCEPT !.siblings = Tail(@)]
           r == [s EXCEPT ![1] = e]
           u == [t EXCEPT ![p].segments[1].siblings = Tail(@)]
<1>1. /\ s \in Seq(SegmentType) /\ 1 \in 1..n /\ s[1] \in SegmentType
      /\ Count(t, p) = n /\ s[1].siblings \in Seq(Items) /\ s[1].siblings # <<>>
  BY Parts DEF Sib
<1>2. u = With(t, p, r)
  BY DEF With
<1> DEFINE a == s[1].siblings
           b == Tail(a)
<1>0. /\ b \in Seq(Items) /\ Len(b) \in Nat /\ Len(a) = Len(b) + 1
      /\ \A m \in 1..Len(b) : b[m] = a[m + 1]
  <2>1. a \in Seq(Items) /\ a # <<>>
    BY <1>1
  <2> HIDE DEF a
  <2> QED
    BY <2>1, HeadTailProperties
<1>3. e \in SegmentType /\ e.siblings = b /\ e.children = s[1].children
      /\ e.active = s[1].active /\ e.version = s[1].version
  BY <1>0, <1>1 DEF SegmentType
<1> HIDE DEF e
<1>4. /\ r \in Seq(SegmentType) /\ Len(r) = n /\ r[1] = e
      /\ \A k \in 1..n : k # 1 => r[k] = s[k]
  BY <1>1, <1>3, SegmentReplaced
<1>5. s = t[p].segments /\ n = Len(s) /\ a = s[1].siblings
  OBVIOUS
<1> HIDE DEF r, s, u, n, a, b
<1>6. \A k \in 1..n : /\ k # 1 => r[k].siblings = s[k].siblings
                      /\ r[k].children = s[k].children
                      /\ r[k].active <=> s[k].active
  BY <1>1, <1>3, <1>4
<1>7. Popped(t, u, p)
  <2>1. /\ Same(t, u) /\ u[p].segments = r
        /\ \A q \in DOMAIN t : /\ Count(u, q) = IF q = p THEN Len(r) ELSE Count(t, q)
                               /\ q # p => Ver(u, q, 1) = Ver(t, q, 1)
        /\ \A k, m, x : At(u, p, k, m, x) <=>
             k \in 1..Len(r) /\ m \in 1..Len(r[k].siblings) /\ r[k].siblings[m] = x
        /\ \A k, d : Kid(u, p, k, d) <=> k \in 1..Len(r) /\ d \in r[k].children
        /\ \A k : On(u, p, k) <=> k \in 1..Len(r) /\ r[k].active
        /\ \A q, k, m, x : q # p => (At(u, q, k, m, x) <=> At(t, q, k, m, x))
        /\ \A q, k, d : q # p => (Kid(u, q, k, d) <=> Kid(t, q, k, d))
        /\ \A q, k : q # p => (On(u, q, k) <=> On(t, q, k))
    BY <1>2, <1>4, WithParts
  <2>2. /\ Count(t, p) = n /\ Ver(t, p, 1) = s[1].version
        /\ \A k, m, x : At(t, p, k, m, x) <=>
             k \in 1..n /\ m \in 1..Len(s[k].siblings) /\ s[k].siblings[m] = x
        /\ \A k, d : Kid(t, p, k, d) <=> k \in 1..n /\ d \in s[k].children
        /\ \A k : On(t, p, k) <=> k \in 1..n /\ s[k].active
    BY <1>5, Parts
  <2>3. \A k, m, x : k # 1 => (At(u, p, k, m, x) <=> At(t, p, k, m, x))
    BY <1>4, <1>6, <2>1, <2>2
  <2>4. \A k, d : Kid(u, p, k, d) <=> Kid(t, p, k, d)
    BY <1>4, <1>6, <2>1, <2>2
  <2>5. \A k : On(u, p, k) <=> On(t, p, k)
    BY <1>1, <1>4, <1>6, <2>1, <2>2
  <2>6. Ver(u, p, 1) = Ver(t, p, 1)
    BY <1>3, <1>4, <2>1, <2>2 DEF Ver
  <2>7. \A m, x : At(u, p, 1, m, x) <=> m \in Nat /\ 1 <= m /\ At(t, p, 1, m + 1, x)
    <3> SUFFICES ASSUME NEW m, NEW x
                 PROVE  At(u, p, 1, m, x) <=> m \in Nat /\ 1 <= m /\ At(t, p, 1, m + 1, x)
      OBVIOUS
    <3>1. At(u, p, 1, m, x) <=> m \in 1..Len(b) /\ b[m] = x
      BY <1>1, <1>3, <1>4, <2>1
    <3>2. At(t, p, 1, m + 1, x) <=> m + 1 \in 1..Len(a) /\ a[m + 1] = x
      BY <1>1, <1>5, <2>2
    <3>3. m \in 1..Len(b) <=> m \in Nat /\ 1 <= m /\ m + 1 \in 1..Len(a)
      BY <1>0
    <3> QED
      BY <1>0, <3>1, <3>2, <3>3
  <2> QED
    BY <1>4, <2>1, <2>2, <2>3, <2>4, <2>5, <2>6, <2>7 DEF Popped
<1> QED
  BY <1>7 DEF u

-----------------------------------------------------------------------------
(* A child in the last segment of a chain. *)
Adopted(t, u, p, n) ==
  /\ Same(t, u)
  /\ \A q \in DOMAIN t : /\ Count(u, q) = Count(t, q)
                         /\ q # p => Ver(u, q, 1) = Ver(t, q, 1)
  /\ \A q, k, m, x : At(u, q, k, m, x) <=> At(t, q, k, m, x)
  /\ \A q, k, d : Kid(u, q, k, d) <=> Kid(t, q, k, d) \/ (q = p /\ k = Count(t, p) /\ d = n)
  /\ \A q, k : On(u, q, k) <=> On(t, q, k)

(* ensure_child puts a child under the last segment of a chain. *)
LEMMA AdoptedFacts ==
  ASSUME NEW t, Rooted(t), NEW p \in DOMAIN t, Count(t, p) > 0, NEW d \in Nat
  PROVE  Adopted(t, [t EXCEPT ![p].segments[Count(t, p)].children = @ \cup {d}], p, d)
<1> DEFINE s == t[p].segments
           n == Len(s)
           e == [s[n] EXCEPT !.children = @ \cup {d}]
           r == [s EXCEPT ![n] = e]
           u == [t EXCEPT ![p].segments[n].children = @ \cup {d}]
<1>1. /\ s \in Seq(SegmentType) /\ n \in 1..n /\ s[n] \in SegmentType
      /\ s[n].children \in SUBSET Nat
      /\ Count(t, p) = n
  BY Parts
<1>2. u = With(t, p, r)
  BY DEF With
<1>3. e \in SegmentType /\ e.siblings = s[n].siblings /\ e.children = s[n].children \cup {d}
      /\ e.active = s[n].active
  <2>1. s[n].children \cup {d} \in SUBSET Nat
    BY <1>1
  <2> QED
    BY <1>1, <2>1 DEF SegmentType
<1> HIDE DEF e
<1>4. /\ r \in Seq(SegmentType) /\ Len(r) = n /\ r[n] = e
      /\ \A k \in 1..n : k # n => r[k] = s[k]
  BY <1>1, <1>3, SegmentReplaced
<1>5. s = t[p].segments /\ n = Len(s)
  OBVIOUS
<1> HIDE DEF r, s, u, n
<1>6. \A k \in 1..n : /\ r[k].siblings = s[k].siblings /\ r[k].active = s[k].active
                      /\ \A c : c \in r[k].children <=> c \in s[k].children \/ (k = n /\ c = d)
  BY <1>3, <1>4
<1>7. Adopted(t, u, p, d)
  <2>1. /\ Same(t, u)
        /\ \A q \in DOMAIN t : /\ Count(u, q) = IF q = p THEN Len(r) ELSE Count(t, q)
                               /\ q # p => Ver(u, q, 1) = Ver(t, q, 1)
        /\ \A k, m, x : At(u, p, k, m, x) <=>
             k \in 1..Len(r) /\ m \in 1..Len(r[k].siblings) /\ r[k].siblings[m] = x
        /\ \A k, c : Kid(u, p, k, c) <=> k \in 1..Len(r) /\ c \in r[k].children
        /\ \A k : On(u, p, k) <=> k \in 1..Len(r) /\ r[k].active
        /\ \A q, k, m, x : q # p => (At(u, q, k, m, x) <=> At(t, q, k, m, x))
        /\ \A q, k, c : q # p => (Kid(u, q, k, c) <=> Kid(t, q, k, c))
        /\ \A q, k : q # p => (On(u, q, k) <=> On(t, q, k))
    BY <1>2, <1>4, WithParts
  <2>2. /\ Count(t, p) = n
        /\ \A k, m, x : At(t, p, k, m, x) <=>
             k \in 1..n /\ m \in 1..Len(s[k].siblings) /\ s[k].siblings[m] = x
        /\ \A k, c : Kid(t, p, k, c) <=> k \in 1..n /\ c \in s[k].children
        /\ \A k : On(t, p, k) <=> k \in 1..n /\ s[k].active
    BY <1>5, Parts
  <2>3. \A k, m, x : At(u, p, k, m, x) <=> At(t, p, k, m, x)
    BY <1>4, <1>6, <2>1, <2>2
  <2>4. \A k, c : Kid(u, p, k, c) <=> Kid(t, p, k, c) \/ (k = n /\ c = d)
    BY <1>1, <1>4, <1>6, <2>1, <2>2
  <2>5. \A k : On(u, p, k) <=> On(t, p, k)
    BY <1>4, <1>6, <2>1, <2>2
  <2> QED
    BY <1>4, <2>1, <2>2, <2>3, <2>4, <2>5 DEF Adopted
<1> QED
  BY <1>1, <1>7 DEF u, n, s

(* Another chain at the end. *)
LEMMA ChainAppended ==
  ASSUME NEW t, Rooted(t), NEW u \in Seq(ChainType), Len(u) = Len(t) + 1,
         \A q \in 1..Len(t) : u[q] = t[q],
         Par(u, Len(u)) \in DOMAIN t, Count(u, Len(u)) = 1,
         Sib(u, Len(u), 1) = <<>>, Chi(u, Len(u), 1) = {}
  PROVE  /\ Rooted(u) /\ DOMAIN u = DOMAIN t \cup {Len(u)} /\ Len(u) \in Nat
         /\ \A q \in DOMAIN t : q < Len(u) /\ u[q] = t[q]
         /\ \A k, m, x : ~At(u, Len(u), k, m, x)
         /\ \A k, d : ~Kid(u, Len(u), k, d)
         /\ \A k : On(u, Len(u), k) <=> k = 1 /\ Act(u, Len(u), 1)
<1>1. t \in Seq(ChainType) /\ DOMAIN t = 1..Len(t) /\ Len(t) \in Nat /\ Root \in DOMAIN t
  BY RootedFacts DEF Rooted
<1> DEFINE n == Len(u)
<1>2. n \in Nat /\ DOMAIN u = DOMAIN t \cup {n} /\ n = Len(t) + 1
      /\ \A q \in DOMAIN t : q < n /\ u[q] = t[q]
  BY <1>1
<1>3. \A k : k \in 1..1 <=> k = 1
  OBVIOUS
<1>4. Rooted(u)
  <2>1. \A q \in DOMAIN t \ {Root} : Par(u, q) \in 1..(q - 1)
    BY <1>2 DEF Rooted, Par
  <2>2. Par(u, n) \in 1..(n - 1)
    BY <1>1, <1>2
  <2> QED
    BY <1>1, <1>2, <2>1, <2>2 DEF Rooted
<1>5. \A k, m, x : ~At(u, n, k, m, x)
  BY <1>3 DEF At
<1>6. \A k, d : ~Kid(u, n, k, d)
  BY <1>3 DEF Kid
<1>7. \A k : On(u, n, k) <=> k = 1 /\ Act(u, n, 1)
  BY <1>2, <1>3 DEF On
<1> QED
  BY <1>2, <1>4, <1>5, <1>6, <1>7

Grown(t, u, p, n, g) ==
  /\ Rooted(u) /\ DOMAIN u = DOMAIN t \cup {n} /\ n \in Nat
  /\ \A q \in DOMAIN t : /\ q < n /\ Par(u, q) = Par(t, q) /\ u[q].tag = t[q].tag
                         /\ Count(u, q) = Count(t, q)
                         /\ q # p => Ver(u, q, 1) = Ver(t, q, 1)
  /\ Par(u, n) = p /\ u[n].tag = g /\ Count(u, n) = 1
  /\ \A q, k, m, x : At(u, q, k, m, x) <=> At(t, q, k, m, x)
  /\ \A q, k, d : Kid(u, q, k, d) <=> Kid(t, q, k, d) \/ (q = p /\ k = Count(t, p) /\ d = n)
  /\ \A q, k : On(u, q, k) <=>
       On(t, q, k) \/ (q = n /\ k = 1 /\ On(t, p, Count(t, p)) /\ \A x : ~At(t, p, Count(t, p), 1, x))

(* get_segment and ensure_child on the tree (forque.hpp:293): the child *)
(* is there, or it is grown.                                            *)
LEMMA ChildFacts ==
  ASSUME Rooted(chain), NEW p \in Chains, Count(chain, p) > 0, NEW g \in Seq(Keys)
  PROVE  /\ Find(BackOf(p), g) = {d \in Chi(chain, p, Count(chain, p)) : chain[d].tag = g}
         /\ Find(BackOf(p), g) # {} => Touched(chain, WithChild(p, g), p)
         /\ Find(BackOf(p), g) = {} => Grown(chain, WithChild(p, g), p, Len(chain) + 1, g)
<1> DEFINE t == chain
           l == Count(t, p)
           n == Len(t) + 1
           v == [t EXCEPT ![p].segments[l].version = @ + 1]
           w == [v EXCEPT ![p].segments[l].children = @ \cup {n}]
           a == BackOf(p).active /\ BackOf(p).siblings = <<>>
           u == Append(w, NewChain(p, g, a))
<1>1. /\ p \in DOMAIN t /\ DOMAIN t = 1..Len(t) /\ Len(t) \in Nat /\ n \in Nat
      /\ l \in Nat /\ l \in 1..l /\ l = Len(t[p].segments)
      /\ t[p].segments \in Seq(SegmentType)
  BY RootedFacts DEF Chains, Count
<1>2. BackOf(p) = t[p].segments[l] /\ BackOf(p) \in SegmentType
  <2>1. BackOf(p) = t[p].segments[l]
    BY <1>1 DEF BackOf, Last
  <2> QED
    BY <1>1, <2>1
<1>3. Find(BackOf(p), g) = {d \in Chi(t, p, l) : t[d].tag = g}
  BY <1>2 DEF Find, Chi
<1>4. Touched(t, v, p)
  BY <1>1, TouchedFacts
<1>5. WithChild(p, g) = IF Find(BackOf(p), g) # {} THEN v ELSE u
  BY DEF WithChild, Count
<1>6. a \in BOOLEAN /\ (a <=> On(t, p, l) /\ \A x : ~At(t, p, l, 1, x))
  <2>1. BackOf(p).active \in BOOLEAN /\ BackOf(p).siblings \in Seq(Items)
    BY <1>2 DEF SegmentType
  <2>2. On(t, p, l) <=> BackOf(p).active
    BY <1>1, <1>2 DEF On, Act
  <2>3. BackOf(p).siblings = <<>> <=> \A x : ~At(t, p, l, 1, x)
    <3> DEFINE b == BackOf(p).siblings
    <3>1. \A x : At(t, p, l, 1, x) <=> 1 \in 1..Len(b) /\ b[1] = x
      BY <1>1, <1>2 DEF At, Sib
    <3>2. Len(b) \in Nat /\ (b = <<>> <=> Len(b) = 0)
      BY <2>1, EmptySeq
    <3>3. 1 \in 1..Len(b) <=> Len(b) # 0
      BY <3>2
    <3> HIDE DEF b
    <3>4. b = <<>> <=> \A x : ~At(t, p, l, 1, x)
      BY <3>1, <3>2, <3>3
    <3> QED
      BY <3>4 DEF b
  <2> QED
    BY <2>1, <2>2, <2>3
<1> HIDE DEF v, w, u, a, l, n, t
<1>7. /\ Rooted(v) /\ DOMAIN v = DOMAIN t /\ Count(v, p) = l /\ Count(v, p) > 0
      /\ p \in DOMAIN v /\ l = Count(t, p)
  BY <1>1, <1>4 DEF Touched, Same, l, t
<1>8. Adopted(v, w, p, n)
  <2>1. w = [v EXCEPT ![p].segments[Count(v, p)].children = @ \cup {n}]
    BY <1>7 DEF w
  <2> QED
    BY <1>1, <1>7, <2>1, AdoptedFacts
<1>9. Rooted(w) /\ DOMAIN w = DOMAIN t /\ p \in DOMAIN w /\ Len(w) = Len(t) /\ n = Len(w) + 1
  <2>1. Rooted(w) /\ DOMAIN w = DOMAIN t /\ DOMAIN w = 1..Len(w) /\ Len(w) \in Nat
    BY <1>7, <1>8, RootedFacts DEF Adopted, Same
  <2>2. DOMAIN t = 1..Len(t)
    BY <1>1
  <2>3. Len(w) = Len(t)
    BY <1>1, <2>1, <2>2
  <2> QED
    BY <1>7, <2>1, <2>3 DEF n
<1>10. /\ Rooted(u) /\ DOMAIN u = DOMAIN w \cup {n} /\ n \in Nat
       /\ \A q \in DOMAIN w : q < n /\ u[q] = w[q]
       /\ Par(u, n) = p /\ u[n].tag = g /\ Count(u, n) = 1
       /\ \A k, m, x : ~At(u, n, k, m, x)
       /\ \A k, d : ~Kid(u, n, k, d)
       /\ \A k : On(u, n, k) <=> k = 1 /\ a
  <2> DEFINE b == NewSegment(a)
             c == NewChain(p, g, a)
  <2>1. u = Append(w, c)
    BY DEF u
  <2>2. b \in SegmentType /\ b.siblings = <<>> /\ b.children = {} /\ (b.active <=> a)
    BY <1>6 DEF NewSegment, SegmentType
  <2>3. c.parent = p /\ c.tag = g /\ c.segments = <<b>>
    BY DEF NewChain
  <2>4. c \in ChainType
    <3>1. <<b>> \in Seq(SegmentType)
      <4> HIDE DEF b
      <4> QED
        BY <2>2
    <3> QED
      BY <1>1, <3>1 DEF NewChain, ChainType
  <2> HIDE DEF b, c
  <2>5. /\ u \in Seq(ChainType) /\ Len(u) = n /\ Len(u) = Len(w) + 1
        /\ \A q \in 1..Len(w) : u[q] = w[q]
        /\ u[n] = c
    BY <1>9, <2>1, <2>4, AppendProperties DEF Rooted
  <2>6. u[n].segments = <<b>> /\ Par(u, n) = p /\ u[n].tag = g
    BY <2>3, <2>5, Zenon DEF Par
  <2>7. Len(<<b>>) = 1 /\ <<b>>[1] = b
    OBVIOUS
  <2>8. Count(u, n) = 1 /\ Sib(u, n, 1) = <<>> /\ Chi(u, n, 1) = {} /\ Act(u, n, 1) = b.active
    BY <2>2, <2>6, <2>7, Zenon DEF Count, Sib, Chi, Act
  <2>9. /\ Rooted(u) /\ DOMAIN u = DOMAIN w \cup {n} /\ n \in Nat
        /\ \A q \in DOMAIN w : q < n /\ u[q] = w[q]
        /\ \A k, m, x : ~At(u, n, k, m, x)
        /\ \A k, d : ~Kid(u, n, k, d)
        /\ \A k : On(u, n, k) <=> k = 1 /\ Act(u, n, 1)
    <3>1. Rooted(w) /\ u \in Seq(ChainType) /\ Len(u) = Len(w) + 1
          /\ (\A q \in 1..Len(w) : u[q] = w[q])
          /\ Par(u, Len(u)) \in DOMAIN w /\ Count(u, Len(u)) = 1
          /\ Sib(u, Len(u), 1) = <<>> /\ Chi(u, Len(u), 1) = {}
      BY <1>9, <2>5, <2>6, <2>8
    <3>2. Rooted(u)
      BY <3>1, ChainAppended
    <3> QED
      <4>1. /\ DOMAIN u = DOMAIN w \cup {Len(u)} /\ Len(u) \in Nat
            /\ \A q \in DOMAIN w : q < Len(u) /\ u[q] = w[q]
            /\ \A k, m, x : ~At(u, Len(u), k, m, x)
            /\ \A k, d : ~Kid(u, Len(u), k, d)
            /\ \A k : On(u, Len(u), k) <=> k = 1 /\ Act(u, Len(u), 1)
        BY <3>1, ChainAppended, Zenon
      <4> QED
        BY <2>5, <3>2, <4>1, Zenon
  <2> QED
    BY <2>2, <2>6, <2>8, <2>9
<1>11. \A q \in DOMAIN t : /\ Par(u, q) = Par(t, q) /\ u[q].tag = t[q].tag
                           /\ Count(u, q) = Count(t, q)
                           /\ q # p => Ver(u, q, 1) = Ver(t, q, 1)
  <2>1. \A q \in DOMAIN t : Par(u, q) = Par(w, q) /\ u[q].tag = w[q].tag
             /\ Count(u, q) = Count(w, q) /\ Ver(u, q, 1) = Ver(w, q, 1)
    BY <1>9, <1>10 DEF Par, Count, Ver
  <2> QED
    BY <1>4, <1>7, <1>8, <2>1 DEF Touched, Adopted, Same
<1>12. n \notin DOMAIN t
  BY <1>9, <1>10
<1>13. \A q \in DOMAIN t :
         /\ \A k, m, x : At(u, q, k, m, x) <=> At(w, q, k, m, x)
         /\ \A k, d : Kid(u, q, k, d) <=> Kid(w, q, k, d)
         /\ \A k : On(u, q, k) <=> On(w, q, k)
  BY <1>9, <1>10, SameChain
<1>14. /\ \A q, k, m, x : At(u, q, k, m, x) => q \in DOMAIN t \cup {n}
       /\ \A q, k, d : Kid(u, q, k, d) => q \in DOMAIN t \cup {n}
       /\ \A q, k : On(u, q, k) => q \in DOMAIN t \cup {n}
       /\ \A q, k, m, x : At(t, q, k, m, x) => q \in DOMAIN t
       /\ \A q, k, d : Kid(t, q, k, d) => q \in DOMAIN t
       /\ \A q, k : On(t, q, k) => q \in DOMAIN t
  BY <1>9, <1>10 DEF At, Kid, On
<1>15. \A q, k, m, x : At(u, q, k, m, x) <=> At(t, q, k, m, x)
  <2>1. \A q, k, m, x : At(w, q, k, m, x) <=> At(t, q, k, m, x)
    BY <1>4, <1>8 DEF Touched, Adopted
  <2> QED
    BY <1>10, <1>12, <1>13, <1>14, <2>1
<1>16. \A q, k, d : Kid(u, q, k, d) <=> Kid(t, q, k, d) \/ (q = p /\ k = l /\ d = n)
  <2>1. \A q, k, d : Kid(w, q, k, d) <=> Kid(t, q, k, d) \/ (q = p /\ k = l /\ d = n)
    BY <1>4, <1>7, <1>8 DEF Touched, Adopted
  <2> QED
    BY <1>1, <1>10, <1>12, <1>13, <1>14, <2>1
<1>17. \A q, k : On(u, q, k) <=> On(t, q, k) \/ (q = n /\ k = 1 /\ a)
  <2>1. \A q, k : On(w, q, k) <=> On(t, q, k)
    BY <1>4, <1>8 DEF Touched, Adopted
  <2> QED
    BY <1>10, <1>12, <1>13, <1>14, <2>1
<1>18. Grown(t, u, p, n, g)
  BY <1>6, <1>7, <1>9, <1>10, <1>11, <1>15, <1>16, <1>17 DEF Grown
<1> QED
  BY <1>3, <1>4, <1>5, <1>18 DEF t, n, l

-----------------------------------------------------------------------------
(* The chain d is without segments, and p has the segments r. *)
LEMMA TwoChanged ==
  ASSUME NEW t, Rooted(t), NEW p \in DOMAIN t, NEW d \in DOMAIN t, d # p,
         NEW r \in Seq(SegmentType),
         NEW u, u = With(With(t, d, <<>>), p, r)
  PROVE  /\ Same(t, u) /\ u[p].segments = r
         /\ \A q \in DOMAIN t :
              /\ Count(u, q) = IF q = p THEN Len(r) ELSE IF q = d THEN 0 ELSE Count(t, q)
              /\ q # p /\ q # d => Ver(u, q, 1) = Ver(t, q, 1)
         /\ \A k, m, x : At(u, p, k, m, x) <=>
              k \in 1..Len(r) /\ m \in 1..Len(r[k].siblings) /\ r[k].siblings[m] = x
         /\ \A k, e : Kid(u, p, k, e) <=> k \in 1..Len(r) /\ e \in r[k].children
         /\ \A k : On(u, p, k) <=> k \in 1..Len(r) /\ r[k].active
         /\ \A q, k, m, x : q # p => (At(u, q, k, m, x) <=> q # d /\ At(t, q, k, m, x))
         /\ \A q, k, e : q # p => (Kid(u, q, k, e) <=> q # d /\ Kid(t, q, k, e))
         /\ \A q, k : q # p => (On(u, q, k) <=> q # d /\ On(t, q, k))
<1> DEFINE v == With(t, d, <<>>)
           o == <<>>
<1>1. o \in Seq(SegmentType) /\ Len(o) = 0 /\ \A k : k \notin 1..Len(o)
  OBVIOUS
<1>2. v = With(t, d, o) /\ u = With(v, p, r)
  OBVIOUS
<1> HIDE DEF v, o
<1>3. /\ Same(t, v) /\ v[d].segments = o
      /\ \A q \in DOMAIN t : q # d => v[q] = t[q]
      /\ \A q \in DOMAIN t : /\ Count(v, q) = IF q = d THEN Len(o) ELSE Count(t, q)
                             /\ q # d => Ver(v, q, 1) = Ver(t, q, 1)
      /\ \A k, m, x : At(v, d, k, m, x) <=>
           k \in 1..Len(o) /\ m \in 1..Len(o[k].siblings) /\ o[k].siblings[m] = x
      /\ \A k, e : Kid(v, d, k, e) <=> k \in 1..Len(o) /\ e \in o[k].children
      /\ \A k : On(v, d, k) <=> k \in 1..Len(o) /\ o[k].active
      /\ \A q, k, m, x : q # d => (At(v, q, k, m, x) <=> At(t, q, k, m, x))
      /\ \A q, k, e : q # d => (Kid(v, q, k, e) <=> Kid(t, q, k, e))
      /\ \A q, k : q # d => (On(v, q, k) <=> On(t, q, k))
  <2>1. Rooted(t) /\ d \in DOMAIN t /\ o \in Seq(SegmentType) /\ v = With(t, d, o)
    BY <1>1, <1>2
  <2> QED
    BY <2>1, WithParts
<1>4. Rooted(v) /\ DOMAIN v = DOMAIN t /\ p \in DOMAIN v
  BY <1>3 DEF Same
<1>5. /\ Same(v, u) /\ u[p].segments = r
      /\ \A q \in DOMAIN v : q # p => u[q] = v[q]
      /\ \A q \in DOMAIN v : /\ Count(u, q) = IF q = p THEN Len(r) ELSE Count(v, q)
                             /\ q # p => Ver(u, q, 1) = Ver(v, q, 1)
      /\ \A k, m, x : At(u, p, k, m, x) <=>
           k \in 1..Len(r) /\ m \in 1..Len(r[k].siblings) /\ r[k].siblings[m] = x
      /\ \A k, e : Kid(u, p, k, e) <=> k \in 1..Len(r) /\ e \in r[k].children
      /\ \A k : On(u, p, k) <=> k \in 1..Len(r) /\ r[k].active
      /\ \A q, k, m, x : q # p => (At(u, q, k, m, x) <=> At(v, q, k, m, x))
      /\ \A q, k, e : q # p => (Kid(u, q, k, e) <=> Kid(v, q, k, e))
      /\ \A q, k : q # p => (On(u, q, k) <=> On(v, q, k))
  BY <1>2, <1>4, WithParts
<1>6. Same(t, u)
  BY <1>3, <1>4, <1>5 DEF Same
<1> QED
  BY <1>1, <1>3, <1>4, <1>5, <1>6

-----------------------------------------------------------------------------
Cut(t, u, p, d) ==
  /\ Same(t, u)
  /\ \A q \in DOMAIN t : /\ Count(u, q) = IF q = d THEN 0 ELSE Count(t, q)
                         /\ q # d => Ver(u, q, 1) = Ver(t, q, 1)
  /\ \A q, k, m, x : At(u, q, k, m, x) <=> q # d /\ At(t, q, k, m, x)
  /\ \A q, k, e : Kid(u, q, k, e) <=>
       q # d /\ Kid(t, q, k, e) /\ ~(q = p /\ k = 1 /\ e = d)
  /\ \A q, k : On(u, q, k) <=> q # d /\ On(t, q, k)

Moved(t, u, p, d) ==
  /\ Same(t, u) /\ Count(t, p) > 1
  /\ \A q \in DOMAIN t :
       /\ Count(u, q) = IF q = d THEN 0 ELSE IF q = p THEN Count(t, p) - 1 ELSE Count(t, q)
       /\ q # d /\ q # p => Ver(u, q, 1) = Ver(t, q, 1)
  /\ \A q, k, m, x : q # p => (At(u, q, k, m, x) <=> q # d /\ At(t, q, k, m, x))
  /\ \A k, m, x : At(u, p, k, m, x) <=> k \in Nat /\ 1 <= k /\ At(t, p, k + 1, m, x)
  /\ \A q, k, e : q # p => (Kid(u, q, k, e) <=> q # d /\ Kid(t, q, k, e))
  /\ \A k, e : Kid(u, p, k, e) <=> k \in Nat /\ 1 <= k /\ Kid(t, p, k + 1, e)
  /\ \A q, k : q # p => (On(u, q, k) <=> q # d /\ On(t, q, k))
  /\ \A k : On(u, p, k) <=> k = 1 \/ (k \in Nat /\ 1 <= k /\ On(t, p, k + 1))

(* the segments of p without the child d *)
Without(s, d) == [s EXCEPT ![1].children = @ \ {d}]
(* its first segment is gone, and the next one active *)
Shifted(s) == [RemoveAt(s, 1) EXCEPT ![1].active = TRUE]

(* Erased as two replaced lists of segments. *)
LEMMA ErasedIs ==
  ASSUME Rooted(chain), NEW p \in Chains, NEW d \in Chains, d # p
  PROVE  Erased(p, d) = With(With(chain, d, <<>>), p, Without(chain[p].segments, d))
<1>1. Erased(p, d) = [With(chain, d, <<>>) EXCEPT ![p].segments[1].children = @ \ {d}]
  BY DEF Erased, With
<1> DEFINE v == With(chain, d, <<>>)
<1>2. v[p] = chain[p] /\ p \in DOMAIN v
  BY DEF With, Chains
<1> HIDE DEF v
<1>3. [v EXCEPT ![p].segments[1].children = @ \ {d}] = With(v, p, Without(v[p].segments, d))
  BY DEF With, Without
<1> QED
  BY <1>1, <1>2, <1>3 DEF v

(* children_.erase on a list of segments: the first one loses a child. *)
LEMMA WithoutFacts ==
  ASSUME NEW s \in Seq(SegmentType), s # <<>>, NEW d \in Nat
  PROVE  /\ Without(s, d) \in Seq(SegmentType) /\ Len(Without(s, d)) = Len(s)
         /\ \A k \in 1..Len(s) :
              /\ Without(s, d)[k].siblings = s[k].siblings
              /\ Without(s, d)[k].active = s[k].active
              /\ Without(s, d)[k].version = s[k].version
              /\ Without(s, d)[k].children =
                   IF k = 1 THEN s[k].children \ {d} ELSE s[k].children
<1> DEFINE e == [s[1] EXCEPT !.children = @ \ {d}]
           r == [s EXCEPT ![1] = e]
<1>1. Without(s, d) = r
  BY DEF Without
<1>2. Len(s) \in Nat /\ 1 \in 1..Len(s)
  BY EmptySeq
<1>3. s[1] \in SegmentType
  BY <1>2
<1>4. e \in SegmentType /\ e.siblings = s[1].siblings /\ e.children = s[1].children \ {d}
      /\ e.active = s[1].active /\ e.version = s[1].version
  <2>1. s[1].children \ {d} \in SUBSET Nat
    BY <1>3 DEF SegmentType
  <2> QED
    BY <1>3, <2>1 DEF SegmentType
<1> HIDE DEF e
<1>5. /\ r \in Seq(SegmentType) /\ Len(r) = Len(s) /\ r[1] = e
      /\ \A k \in 1..Len(s) : k # 1 => r[k] = s[k]
  BY <1>2, <1>4, SegmentReplaced
<1> HIDE DEF r
<1> QED
  BY <1>1, <1>2, <1>4, <1>5

(* children_.erase on the tree: what Erased does is Cut. *)
LEMMA CutFacts ==
  ASSUME Rooted(chain), NEW p \in Chains, NEW d \in Chains, d # p, Count(chain, p) > 0
  PROVE  Cut(chain, Erased(p, d), p, d)
<1> DEFINE s == chain[p].segments
           r == Without(s, d)
           u == Erased(p, d)
           t == chain
<1>1. s \in Seq(SegmentType) /\ s # <<>> /\ p \in DOMAIN t /\ d \in DOMAIN t /\ s = t[p].segments
      /\ d \in Nat
  BY RootedFacts DEF Chains
<1>2. u = With(With(t, d, <<>>), p, r)
  BY ErasedIs
<1> HIDE DEF s, r, u
<1>3. /\ r \in Seq(SegmentType) /\ Len(r) = Len(s)
      /\ \A k \in 1..Len(s) :
              /\ r[k].siblings = s[k].siblings
              /\ r[k].active = s[k].active
              /\ r[k].version = s[k].version
              /\ r[k].children = IF k = 1 THEN s[k].children \ {d} ELSE s[k].children
  <2>1. /\ Without(s, d) \in Seq(SegmentType) /\ Len(Without(s, d)) = Len(s)
        /\ \A k \in 1..Len(s) :
             /\ Without(s, d)[k].siblings = s[k].siblings
             /\ Without(s, d)[k].active = s[k].active
             /\ Without(s, d)[k].version = s[k].version
             /\ Without(s, d)[k].children =
                  IF k = 1 THEN s[k].children \ {d} ELSE s[k].children
    <3>1. s \in Seq(SegmentType) /\ s # <<>> /\ d \in Nat
      BY <1>1
    <3> QED
      BY <3>1, WithoutFacts
  <2> QED
    BY <2>1 DEF r
<1>4. /\ Same(t, u) /\ u[p].segments = r
      /\ \A q \in DOMAIN t :
           /\ Count(u, q) = IF q = p THEN Len(r) ELSE IF q = d THEN 0 ELSE Count(t, q)
           /\ q # p /\ q # d => Ver(u, q, 1) = Ver(t, q, 1)
      /\ \A k, m, x : At(u, p, k, m, x) <=>
           k \in 1..Len(r) /\ m \in 1..Len(r[k].siblings) /\ r[k].siblings[m] = x
      /\ \A k, e : Kid(u, p, k, e) <=> k \in 1..Len(r) /\ e \in r[k].children
      /\ \A k : On(u, p, k) <=> k \in 1..Len(r) /\ r[k].active
      /\ \A q, k, m, x : q # p => (At(u, q, k, m, x) <=> q # d /\ At(t, q, k, m, x))
      /\ \A q, k, e : q # p => (Kid(u, q, k, e) <=> q # d /\ Kid(t, q, k, e))
      /\ \A q, k : q # p => (On(u, q, k) <=> q # d /\ On(t, q, k))
  BY <1>1, <1>2, <1>3, TwoChanged
<1>5. /\ Len(s) \in Nat /\ Count(t, p) = Len(s)
      /\ \A k, m, x : At(t, p, k, m, x) <=>
           k \in 1..Len(s) /\ m \in 1..Len(s[k].siblings) /\ s[k].siblings[m] = x
      /\ \A k, e : Kid(t, p, k, e) <=> k \in 1..Len(s) /\ e \in s[k].children
      /\ \A k : On(t, p, k) <=> k \in 1..Len(s) /\ s[k].active
      /\ Ver(t, p, 1) = s[1].version
  BY <1>1, Parts
<1>6. 1 \in 1..Len(s)
  BY <1>5
<1>7. Ver(u, p, 1) = Ver(t, p, 1)
  BY <1>3, <1>4, <1>5, <1>6 DEF Ver
<1>77. /\ \A k \in 1..Len(s) : r[k].siblings = s[k].siblings
       /\ \A k \in 1..Len(s) : \A e : e \in r[k].children <=> e \in s[k].children /\ ~(k = 1 /\ e = d)
  BY <1>3
<1>8. \A k, m, x : At(u, p, k, m, x) <=> At(t, p, k, m, x)
  BY <1>3, <1>4, <1>5, <1>77
<1>9. \A k, e : Kid(u, p, k, e) <=> Kid(t, p, k, e) /\ ~(k = 1 /\ e = d)
  BY <1>3, <1>4, <1>5, <1>77
<1>10. \A k : On(u, p, k) <=> On(t, p, k)
  BY <1>3, <1>4, <1>5
<1> HIDE DEF t
<1>11. Cut(t, u, p, d)
  BY <1>3, <1>4, <1>5, <1>7, <1>8, <1>9, <1>10 DEF Cut
<1> QED
  BY <1>11 DEF t, u

(* segments_.erase of the first segment, and the next one marked. *)
LEMMA ShiftedFacts ==
  ASSUME NEW s \in Seq(SegmentType), Len(s) > 1
  PROVE  /\ Shifted(s) \in Seq(SegmentType) /\ Len(Shifted(s)) = Len(s) - 1
         /\ \A k \in 1..(Len(s) - 1) :
              /\ Shifted(s)[k].siblings = s[k + 1].siblings
              /\ Shifted(s)[k].children = s[k + 1].children
              /\ Shifted(s)[k].active <=> s[k + 1].active \/ k = 1
<1> DEFINE n == Len(s) - 1
           a == SubSeq(s, 1, 1 - 1)
           b == SubSeq(s, 1 + 1, Len(s))
           c == RemoveAt(s, 1)
           e == [c[1] EXCEPT !.active = TRUE]
           r == [c EXCEPT ![1] = e]
<1>1. Len(s) \in Nat /\ n \in Nat /\ n >= 1 /\ \A k \in 1..n : k + 1 \in 1..Len(s)
  OBVIOUS
<1>2. a = <<>>
  BY SubSeqEmpty
<1>3. b \in Seq(SegmentType) /\ Len(b) = n /\ \A k \in 1..n : b[k] = s[k + 1]
  <2>1. \A k \in 2..Len(s) : s[k] \in SegmentType
    BY <1>1
  <2>2. /\ SubSeq(s, 2, Len(s)) \in Seq(SegmentType)
        /\ Len(SubSeq(s, 2, Len(s))) = IF 2 <= Len(s) THEN Len(s) - 2 + 1 ELSE 0
        /\ \A k \in 1..(Len(s) - 2 + 1) : SubSeq(s, 2, Len(s))[k] = s[2 + k - 1]
    BY <1>1, <2>1, SubSeqProperties
  <2>3. b = SubSeq(s, 2, Len(s))
    OBVIOUS
  <2>4. Len(s) - 2 + 1 = n /\ 2 <= Len(s) /\ \A k \in 1..n : 2 + k - 1 = k + 1
    BY <1>1
  <2> HIDE DEF b, n
  <2> QED
    BY <2>2, <2>3, <2>4
<1>4. c = a \o b
  BY DEF RemoveAt
<1> HIDE DEF a, b, c, n
<1>5. c = b
  BY <1>2, <1>3, <1>4, ConcatEmptySeq
<1>6. 1 \in 1..n /\ c[1] \in SegmentType
  BY <1>1, <1>3, <1>5
<1>7. e \in SegmentType /\ e.siblings = c[1].siblings /\ e.children = c[1].children
      /\ e.active = TRUE
  BY <1>6 DEF SegmentType
<1>8. Shifted(s) = r
  BY DEF Shifted, c
<1> HIDE DEF e
<1>9. /\ r \in Seq(SegmentType) /\ Len(r) = Len(c) /\ r[1] = e
      /\ \A k \in 1..Len(c) : k # 1 => r[k] = c[k]
  BY <1>3, <1>5, <1>6, <1>7, SegmentReplaced
<1> HIDE DEF r
<1>10. \A k \in 1..n : /\ r[k].siblings = s[k + 1].siblings
                       /\ r[k].children = s[k + 1].children
                       /\ r[k].active <=> s[k + 1].active \/ k = 1
  BY <1>1, <1>3, <1>5, <1>6, <1>7, <1>9
<1> QED
  BY <1>1, <1>3, <1>5, <1>8, <1>9, <1>10 DEF n

(* children_.erase of the last child, and the next segment of the parent *)
(* made the first and active: what next_segment does is Moved.           *)
LEMMA MovedFacts ==
  ASSUME Rooted(chain), NEW p \in Chains, NEW d \in Chains, d # p, Count(chain, p) > 1,
         NEW w, w = [Erased(p, d) EXCEPT ![p].segments = RemoveAt(@, 1)]
  PROVE  Moved(chain, [w EXCEPT ![p].segments[1].active = TRUE], p, d)
<1> DEFINE t == chain
           s == t[p].segments
           a == Without(s, d)
           r == Shifted(a)
           v == With(t, d, <<>>)
           u == [w EXCEPT ![p].segments[1].active = TRUE]
<1>1. s \in Seq(SegmentType) /\ p \in DOMAIN t /\ d \in DOMAIN t /\ s = t[p].segments
      /\ Len(s) \in Nat /\ Len(s) > 1 /\ s # <<>> /\ Count(t, p) = Len(s) /\ d \in Nat
  <2>1. s \in Seq(SegmentType) /\ Len(s) = Count(t, p) /\ p \in DOMAIN t /\ d \in DOMAIN t /\ d \in Nat
    BY RootedFacts DEF Chains, Count
  <2>2. Len(s) \in Nat /\ Len(s) > 1 /\ s # <<>>
    BY <2>1
  <2> QED
    BY <2>1, <2>2
<1>2. u = With(v, p, r)
  <2> DEFINE b == RemoveAt(a, 1)
  <2>1. Erased(p, d) = With(v, p, a)
    BY ErasedIs
  <2>2. v \in Seq(ChainType) /\ p \in DOMAIN v /\ v[p] \in ChainType
    <3>1. <<>> \in Seq(SegmentType)
      OBVIOUS
    <3>2. Same(t, v) /\ v[p] = t[p]
      BY <1>1, <3>1, WithFacts
    <3> QED
      BY <1>1, <3>2, RootedFacts DEF Same, Rooted
  <2> HIDE DEF v, a, b
  <2>3. \A x : /\ p \in DOMAIN With(v, p, x) /\ With(v, p, x)[p].segments = x
               /\ \A y : With(With(v, p, x), p, y) = With(v, p, y)
    <3> SUFFICES ASSUME NEW x, NEW y
                 PROVE  /\ p \in DOMAIN With(v, p, x) /\ With(v, p, x)[p].segments = x
                        /\ With(With(v, p, x), p, y) = With(v, p, y)
      OBVIOUS
    <3>1. \A z : With(v, p, z) = [v EXCEPT ![p] = [v[p] EXCEPT !.segments = z]]
      BY DEF With
    <3>2. p \in DOMAIN With(v, p, x) /\ With(v, p, x)[p] = [v[p] EXCEPT !.segments = x]
      BY <2>2, <3>1
    <3>3. With(v, p, x)[p].segments = x
      BY <2>2, <3>2 DEF ChainType
    <3>4. With(With(v, p, x), p, y) = [With(v, p, x) EXCEPT ![p] = [With(v, p, x)[p] EXCEPT !.segments = y]]
      BY DEF With
    <3>5. [With(v, p, x)[p] EXCEPT !.segments = y] = [v[p] EXCEPT !.segments = y]
      BY <2>2, <3>2 DEF ChainType
    <3>6. With(With(v, p, x), p, y) = With(v, p, y)
      BY <2>2, <3>1, <3>4, <3>5
    <3> QED
      BY <3>2, <3>3, <3>6
  <2>4. w = With(With(v, p, a), p, b)
    <3>1. w = [With(v, p, a) EXCEPT ![p].segments = RemoveAt(@, 1)]
      BY <2>1
    <3>2. w = With(With(v, p, a), p, RemoveAt(With(v, p, a)[p].segments, 1))
      BY <3>1 DEF With
    <3> QED
      BY <2>3, <3>2 DEF b
  <2>5. w = With(v, p, b)
    BY <2>3, <2>4
  <2>6. u = With(w, p, [w[p].segments EXCEPT ![1].active = TRUE])
    BY DEF With
  <2>7. w[p].segments = b /\ \A y : With(w, p, y) = With(v, p, y)
    BY <2>3, <2>5
  <2>8. u = With(v, p, [b EXCEPT ![1].active = TRUE])
    BY <2>6, <2>7
  <2> QED
    BY <2>8 DEF Shifted, b
<1> HIDE DEF s, a, r, u, v, t
<1>3. /\ a \in Seq(SegmentType) /\ Len(a) = Len(s)
      /\ \A k \in 1..Len(s) :
              /\ a[k].siblings = s[k].siblings
              /\ a[k].active = s[k].active
              /\ a[k].children = IF k = 1 THEN s[k].children \ {d} ELSE s[k].children
  <2>1. /\ Without(s, d) \in Seq(SegmentType) /\ Len(Without(s, d)) = Len(s)
        /\ \A k \in 1..Len(s) :
             /\ Without(s, d)[k].siblings = s[k].siblings
             /\ Without(s, d)[k].active = s[k].active
             /\ Without(s, d)[k].version = s[k].version
             /\ Without(s, d)[k].children =
                  IF k = 1 THEN s[k].children \ {d} ELSE s[k].children
    <3>1. s \in Seq(SegmentType) /\ s # <<>> /\ d \in Nat
      BY <1>1
    <3> QED
      BY <3>1, WithoutFacts
  <2> QED
    BY <2>1 DEF a
<1>4. /\ r \in Seq(SegmentType) /\ Len(r) = Len(a) - 1
      /\ \A k \in 1..(Len(a) - 1) :
              /\ r[k].siblings = a[k + 1].siblings
              /\ r[k].children = a[k + 1].children
              /\ r[k].active <=> a[k + 1].active \/ k = 1
  BY <1>1, <1>3, ShiftedFacts DEF r
<1>5. \A k \in 1..(Len(s) - 1) : /\ r[k].siblings = s[k + 1].siblings
                                 /\ r[k].children = s[k + 1].children
                                 /\ r[k].active <=> s[k + 1].active \/ k = 1
  <2> SUFFICES ASSUME NEW k \in 1..(Len(s) - 1)
               PROVE  /\ r[k].siblings = s[k + 1].siblings
                      /\ r[k].children = s[k + 1].children
                      /\ r[k].active <=> s[k + 1].active \/ k = 1
    OBVIOUS
  <2>1. k + 1 \in 1..Len(s) /\ k + 1 # 1 /\ k \in 1..(Len(a) - 1)
    BY <1>1, <1>3
  <2> QED
    BY <1>3, <1>4, <2>1
<1>6. /\ Same(t, u) /\ u[p].segments = r
      /\ \A q \in DOMAIN t :
           /\ Count(u, q) = IF q = p THEN Len(r) ELSE IF q = d THEN 0 ELSE Count(t, q)
           /\ q # p /\ q # d => Ver(u, q, 1) = Ver(t, q, 1)
      /\ \A k, m, x : At(u, p, k, m, x) <=>
           k \in 1..Len(r) /\ m \in 1..Len(r[k].siblings) /\ r[k].siblings[m] = x
      /\ \A k, e : Kid(u, p, k, e) <=> k \in 1..Len(r) /\ e \in r[k].children
      /\ \A k : On(u, p, k) <=> k \in 1..Len(r) /\ r[k].active
      /\ \A q, k, m, x : q # p => (At(u, q, k, m, x) <=> q # d /\ At(t, q, k, m, x))
      /\ \A q, k, e : q # p => (Kid(u, q, k, e) <=> q # d /\ Kid(t, q, k, e))
      /\ \A q, k : q # p => (On(u, q, k) <=> q # d /\ On(t, q, k))
  <2>1. Rooted(t) /\ u = With(With(t, d, <<>>), p, r)
    BY <1>2 DEF v, t
  <2> QED
    BY <1>1, <1>4, <2>1, TwoChanged
<1>7. /\ \A k, m, x : At(t, p, k, m, x) <=>
           k \in 1..Len(s) /\ m \in 1..Len(s[k].siblings) /\ s[k].siblings[m] = x
      /\ \A k, e : Kid(t, p, k, e) <=> k \in 1..Len(s) /\ e \in s[k].children
      /\ \A k : On(t, p, k) <=> k \in 1..Len(s) /\ s[k].active
  <2>1. Rooted(t)
    BY DEF t
  <2> QED
    BY <1>1, <2>1, Parts
<1>8. Len(r) = Len(s) - 1 /\ 1 \in 1..Len(r)
      /\ \A k : k \in 1..Len(r) <=> k \in Nat /\ 1 <= k /\ k + 1 \in 1..Len(s)
  BY <1>1, <1>3, <1>4
<1>9. \A k, m, x : At(u, p, k, m, x) <=> k \in Nat /\ 1 <= k /\ At(t, p, k + 1, m, x)
  BY <1>5, <1>6, <1>7, <1>8
<1>10. \A k, e : Kid(u, p, k, e) <=> k \in Nat /\ 1 <= k /\ Kid(t, p, k + 1, e)
  <2> SUFFICES ASSUME NEW k, NEW e
               PROVE  Kid(u, p, k, e) <=> k \in Nat /\ 1 <= k /\ Kid(t, p, k + 1, e)
    OBVIOUS
  <2>1. /\ Kid(u, p, k, e) <=> k \in 1..Len(r) /\ e \in r[k].children
        /\ Kid(t, p, k + 1, e) <=> k + 1 \in 1..Len(s) /\ e \in s[k + 1].children
        /\ k \in 1..Len(r) <=> k \in Nat /\ 1 <= k /\ k + 1 \in 1..Len(s)
    BY <1>6, <1>7, <1>8
  <2>2. ASSUME k \in 1..Len(r) PROVE r[k].children = s[k + 1].children
    <3>1. k \in 1..(Len(s) - 1)
      BY <1>8, <2>2
    <3> QED
      BY <1>5, <3>1, Zenon
  <2> QED
    BY <2>1, <2>2, Zenon
<1>11. \A k : On(u, p, k) <=> k = 1 \/ (k \in Nat /\ 1 <= k /\ On(t, p, k + 1))
  BY <1>5, <1>6, <1>7, <1>8
<1>12. Moved(t, u, p, d)
  BY <1>1, <1>6, <1>8, <1>9, <1>10, <1>11 DEF Moved
<1> QED
  BY <1>12 DEF t, u

-----------------------------------------------------------------------------
(* the chains' tags grow by one key from parent to child *)
Headed(t) ==
  /\ Par(t, Root) = Meta /\ t[Root].tag = <<>> /\ Count(t, Root) > 0
  /\ \A p \in DOMAIN t : \E s \in Tags : IsPrefix(t[p].tag, s)
  /\ \A p \in DOMAIN t : p # Root =>
       /\ Len(t[p].tag) = Len(t[Par(t, p)].tag) + 1
       /\ IsPrefix(t[Par(t, p)].tag, t[p].tag)

(* parent_ and children_ say the same, and a segment has a key once *)
Linked(t) ==
  /\ \A p, k, d : Kid(t, p, k, d) =>
       d \in DOMAIN t /\ d # Root /\ Par(t, d) = p /\ Count(t, d) > 0
  /\ \A p, k, l, d : Kid(t, p, k, d) /\ Kid(t, p, l, d) => k = l
  /\ \A p, k, d, e : Kid(t, p, k, d) /\ Kid(t, p, k, e) /\ t[d].tag = t[e].tag => d = e
  /\ \A d \in DOMAIN t : d # Root /\ Count(t, d) > 0 /\ Count(t, Par(t, d)) > 0 =>
       \E k : Kid(t, Par(t, d), k, d)

(* a segment behind another one has items, and the one before it children *)
Forked(t) ==
  \A p \in DOMAIN t : \A k \in Nat : 1 <= k /\ k <= Count(t, p) =>
    /\ k > 1 => \E x : At(t, p, k, 1, x)
    /\ k < Count(t, p) => \E d : Kid(t, p, k, d)

(* an item is in one place *)
Unique(t) ==
  \A p, q, k, l, m, n, x :
    At(t, p, k, m, x) /\ At(t, q, l, n, x) => p = q /\ k = l /\ m = n

(* only a first segment is active, and below the root only under one *)
(* that is active and has no items left                              *)
Bare(t, q) == \A x : ~At(t, q, 1, 1, x)
Actives(t) ==
  /\ On(t, Root, 1)
  /\ \A p, k : On(t, p, k) /\ Alive(t, p) => k = 1
  /\ \A p, q, k : On(t, p, 1) /\ Alive(t, p) /\ Kid(t, q, k, p) =>
       k = 1 /\ On(t, q, 1) /\ Bare(t, q)

IsTree(t) ==
  Rooted(t) /\ Headed(t) /\ Linked(t) /\ Forked(t) /\ Unique(t) /\ Actives(t)

(* The same chains: the same lines. *)
LEMMA SameLines ==
  ASSUME NEW t, Rooted(t), NEW u, Same(t, u)
  PROVE  /\ Rooted(u) /\ DOMAIN u = DOMAIN t
         /\ \A q \in DOMAIN t : Par(u, q) = Par(t, q) /\ u[q].tag = t[q].tag
         /\ \A q \in DOMAIN t : Line(u, q) = Line(t, q)
         /\ Headed(t) /\ Count(u, Root) > 0 => Headed(u)
<1>1. Rooted(u) /\ DOMAIN u = DOMAIN t
      /\ \A q \in DOMAIN t : Par(u, q) = Par(t, q) /\ u[q].tag = t[q].tag
  BY DEF Same
<1>2. \A q \in DOMAIN t : Line(u, q) = Line(t, q)
  BY <1>1, LineKept
<1>3. Root \in DOMAIN t /\ \A q \in DOMAIN t : q # Root => Par(t, q) \in DOMAIN t
  BY RootedFacts
<1>4. Headed(t) /\ Count(u, Root) > 0 => Headed(u)
  BY <1>1, <1>3 DEF Headed
<1> QED
  BY <1>1, <1>2, <1>4

(* As long as no chain loses its last segment, what is alive stays so. *)
LEMMA SameAlive ==
  ASSUME NEW t, Rooted(t), NEW u, Same(t, u),
         \A q \in DOMAIN t : Count(u, q) > 0 <=> Count(t, q) > 0
  PROVE  \A q \in DOMAIN t : Alive(u, q) <=> Alive(t, q)
<1>1. Rooted(u) /\ DOMAIN u = DOMAIN t /\ \A q \in DOMAIN t : Par(u, q) = Par(t, q)
  BY DEF Same
<1>2. \A q \in DOMAIN t : /\ Count(t, q) \in Nat /\ Count(u, q) \in Nat
                          /\ Count(t, q) = 0 <=> t[q].segments = <<>>
                          /\ Count(u, q) = 0 <=> u[q].segments = <<>>
  BY <1>1, RootedFacts
<1>3. \A q \in DOMAIN t : u[q].segments = <<>> <=> t[q].segments = <<>>
  BY <1>2
<1> QED
  BY <1>1, <1>3, AliveKept

(* A chain that loses its segments takes those below it along. *)
LEMMA CutAlive ==
  ASSUME NEW t, Rooted(t), NEW u, Same(t, u), NEW d \in DOMAIN t, Count(u, d) = 0,
         \A q \in DOMAIN t : q # d => (Count(u, q) > 0 <=> Count(t, q) > 0)
  PROVE  \A q \in DOMAIN t : Alive(u, q) <=> Alive(t, q) /\ d \notin Line(t, q)
<1>1. Rooted(u) /\ DOMAIN u = DOMAIN t /\ \A q \in DOMAIN t : Line(u, q) = Line(t, q)
  BY SameLines
<1>2. \A q \in DOMAIN t : /\ Count(t, q) \in Nat /\ Count(u, q) \in Nat
                          /\ Count(t, q) = 0 <=> t[q].segments = <<>>
                          /\ Count(u, q) = 0 <=> u[q].segments = <<>>
  BY <1>1, RootedFacts
<1>3. \A q \in DOMAIN t : u[q].segments = <<>> <=> q = d \/ t[q].segments = <<>>
  BY <1>2
<1>4. \A q \in DOMAIN t : Line(t, q) \subseteq DOMAIN t
  BY LineFacts
<1> QED
  BY <1>1, <1>3, <1>4 DEF Alive

(* A touched tree is a tree. *)
LEMMA TouchedTree ==
  ASSUME NEW t, IsTree(t), NEW u, NEW p, Touched(t, u, p)
  PROVE  IsTree(u) /\ \A q \in DOMAIN t : Alive(u, q) <=> Alive(t, q)
<1>1. Same(t, u) /\ Rooted(t)
  BY DEF Touched, IsTree
<1>2. /\ Rooted(u) /\ DOMAIN u = DOMAIN t
      /\ \A q \in DOMAIN t : Par(u, q) = Par(t, q) /\ u[q].tag = t[q].tag
      /\ Headed(t) /\ Count(u, Root) > 0 => Headed(u)
  BY <1>1, SameLines
<1>3. \A q \in DOMAIN t : Count(u, q) = Count(t, q)
  BY DEF Touched
<1>4. \A q \in DOMAIN t : Alive(u, q) <=> Alive(t, q)
  BY <1>1, <1>3, SameAlive
<1>5. Headed(u)
  BY <1>2, <1>3, RootedFacts DEF IsTree, Headed
<1>6. /\ \A q, k, m, x : At(u, q, k, m, x) <=> At(t, q, k, m, x)
      /\ \A q, k, d : Kid(u, q, k, d) <=> Kid(t, q, k, d)
      /\ \A q, k : On(u, q, k) <=> On(t, q, k)
  BY DEF Touched
<1>7. Linked(u)
  BY <1>2, <1>3, <1>6, RootedFacts DEF IsTree, Linked
<1>8. Forked(u)
  BY <1>2, <1>3, <1>6 DEF IsTree, Forked
<1>9. Unique(u)
  BY <1>6 DEF IsTree, Unique
<1>10. Actives(u)
  BY <1>1, <1>4, <1>6, AtFacts DEF IsTree, Actives, Bare
<1> QED
  BY <1>2, <1>4, <1>5, <1>7, <1>8, <1>9, <1>10 DEF IsTree

(* A tree with a marked chain is a tree, when no item is ahead of the *)
(* chain.                                                             *)
LEMMA MarkedTree ==
  ASSUME NEW t, IsTree(t), NEW u, NEW p \in DOMAIN t, Marked(t, u, p),
         Count(t, p) > 0,
         \A q, k : Kid(t, q, k, p) => k = 1 /\ On(t, q, 1) /\ Bare(t, q)
  PROVE  IsTree(u) /\ \A q \in DOMAIN t : Alive(u, q) <=> Alive(t, q)
<1>1. Same(t, u) /\ Rooted(t)
  BY DEF Marked, IsTree
<1>2. /\ Rooted(u) /\ DOMAIN u = DOMAIN t
      /\ \A q \in DOMAIN t : Par(u, q) = Par(t, q) /\ u[q].tag = t[q].tag
      /\ Headed(t) /\ Count(u, Root) > 0 => Headed(u)
  BY <1>1, SameLines
<1>3. \A q \in DOMAIN t : Count(u, q) = Count(t, q)
  BY DEF Marked
<1>4. \A q \in DOMAIN t : Alive(u, q) <=> Alive(t, q)
  BY <1>1, <1>3, SameAlive
<1>5. Headed(u)
  BY <1>2, <1>3, RootedFacts DEF IsTree, Headed
<1>6. /\ \A q, k, m, x : At(u, q, k, m, x) <=> At(t, q, k, m, x)
      /\ \A q, k, d : Kid(u, q, k, d) <=> Kid(t, q, k, d)
      /\ \A q, k : On(u, q, k) <=> On(t, q, k) \/ (q = p /\ k = 1)
  BY DEF Marked
<1>7. Linked(u)
  BY <1>2, <1>3, <1>6, RootedFacts DEF IsTree, Linked
<1>8. Forked(u)
  BY <1>2, <1>3, <1>6 DEF IsTree, Forked
<1>9. Unique(u)
  BY <1>6 DEF IsTree, Unique
<1>10. Actives(u)
  <2>1. Actives(t)
    BY DEF IsTree
  <2>2. On(u, Root, 1)
    BY <1>6, <2>1 DEF Actives
  <2>3. ASSUME NEW q, NEW k, On(u, q, k), Alive(u, q) PROVE k = 1
    <3>1. q \in DOMAIN t
      BY <1>2, <2>3, AtFacts
    <3> QED
      BY <1>4, <1>6, <2>1, <2>3, <3>1 DEF Actives
  <2>4. ASSUME NEW e, NEW q, NEW k, On(u, e, 1), Alive(u, e), Kid(u, q, k, e)
        PROVE  k = 1 /\ On(u, q, 1) /\ Bare(u, q)
    <3>1. e \in DOMAIN t
      BY <1>2, <2>4, AtFacts
    <3>2. k = 1 /\ On(t, q, 1) /\ Bare(t, q)
      BY <1>4, <1>6, <2>1, <2>4, <3>1 DEF Actives
    <3> QED
      BY <1>6, <3>2 DEF Bare
  <2> QED
    BY <2>2, <2>3, <2>4 DEF Actives
<1> QED
  BY <1>2, <1>4, <1>5, <1>7, <1>8, <1>9, <1>10 DEF IsTree

(* A tree an item is popped from is a tree. *)
LEMMA PoppedTree ==
  ASSUME NEW t, IsTree(t), NEW u, NEW p \in DOMAIN t, Popped(t, u, p)
  PROVE  IsTree(u) /\ \A q \in DOMAIN t : Alive(u, q) <=> Alive(t, q)
<1>1. Same(t, u) /\ Rooted(t)
  BY DEF Popped, IsTree
<1>2. /\ Rooted(u) /\ DOMAIN u = DOMAIN t
      /\ \A q \in DOMAIN t : Par(u, q) = Par(t, q) /\ u[q].tag = t[q].tag
      /\ Headed(t) /\ Count(u, Root) > 0 => Headed(u)
  BY <1>1, SameLines
<1>3. \A q \in DOMAIN t : Count(u, q) = Count(t, q)
  BY DEF Popped
<1>4. \A q \in DOMAIN t : Alive(u, q) <=> Alive(t, q)
  BY <1>1, <1>3, SameAlive
<1>5. Headed(u)
  BY <1>2, <1>3, RootedFacts DEF IsTree, Headed
<1>6. /\ \A q, k, m, x : q # p \/ k # 1 => (At(u, q, k, m, x) <=> At(t, q, k, m, x))
      /\ \A m, x : At(u, p, 1, m, x) <=> m \in Nat /\ 1 <= m /\ At(t, p, 1, m + 1, x)
      /\ \A q, k, d : Kid(u, q, k, d) <=> Kid(t, q, k, d)
      /\ \A q, k : On(u, q, k) <=> On(t, q, k)
  BY DEF Popped
<1>7. Linked(u)
  BY <1>2, <1>3, <1>6, RootedFacts DEF IsTree, Linked
<1>8. Forked(u)
  <2>1. Forked(t)
    BY DEF IsTree
  <2>2. \A q, k : k \in Nat /\ k > 1 => k # 1
    OBVIOUS
  <2> QED
    BY <1>2, <1>3, <1>6, <2>1, <2>2 DEF Forked
<1>9. Unique(u)
  <2>1. Unique(t)
    BY DEF IsTree
  <2> DEFINE at(q, k, m) == IF q = p /\ k = 1 THEN m + 1 ELSE m
  <2>2. \A q, k, m, x : At(u, q, k, m, x) => At(t, q, k, at(q, k, m), x) /\ m \in Nat
    BY <1>2, <1>6, AtFacts
  <2>3. \A q, k, m, n : m \in Nat /\ n \in Nat /\ at(q, k, m) = at(q, k, n) => m = n
    OBVIOUS
  <2> HIDE DEF at
  <2> QED
    BY <2>1, <2>2, <2>3 DEF Unique
<1>10. Actives(u)
  <2>1. Actives(t)
    BY DEF IsTree
  <2>2. \A q : Bare(t, q) => Bare(u, q)
    <3>1. \A m, x : At(t, p, 1, m, x) => \E y \in Items : At(t, p, 1, 1, y)
      BY <1>1, AtFacts
    <3> QED
      BY <1>6, <3>1 DEF Bare
  <2> QED
    BY <1>1, <1>4, <1>6, <2>1, <2>2, AtFacts DEF Actives
<1> QED
  BY <1>2, <1>4, <1>5, <1>7, <1>8, <1>9, <1>10 DEF IsTree

(* A tree that gets a new item is a tree. *)
LEMMA SownTree ==
  ASSUME NEW t, IsTree(t), NEW u, NEW p \in DOMAIN t, NEW i \in Items, NEW K, NEW M,
         Sown(t, u, p, i, K, M), Count(t, p) > 0,
         \A q, k, m : ~At(t, q, k, m, i)
  PROVE  IsTree(u) /\ \A q \in DOMAIN t : Alive(u, q) <=> Alive(t, q)
<1>1. Same(t, u) /\ Rooted(t)
  BY DEF Sown, IsTree
<1>2. /\ Rooted(u) /\ DOMAIN u = DOMAIN t
      /\ \A q \in DOMAIN t : Par(u, q) = Par(t, q) /\ u[q].tag = t[q].tag
      /\ Headed(t) /\ Count(u, Root) > 0 => Headed(u)
  BY <1>1, SameLines
<1>3. /\ \A q \in DOMAIN t : Count(u, q) = IF q = p THEN K ELSE Count(t, q)
      /\ K \in {Count(t, p), Count(t, p) + 1} /\ M \in Nat \ {0}
      /\ Count(t, p) \in Nat /\ K \in Nat /\ K >= Count(t, p) /\ K > 0
  BY <1>1, RootedFacts DEF Sown
<1>33. \A q \in DOMAIN t : Count(u, q) > 0 <=> Count(t, q) > 0
  BY <1>3
<1>4. \A q \in DOMAIN t : Alive(u, q) <=> Alive(t, q)
  BY <1>1, <1>33, SameAlive
<1>5. Headed(u)
  BY <1>1, <1>2, <1>33, RootedFacts DEF IsTree, Headed
<1>6. /\ \A q, k, m, x : At(u, q, k, m, x) <=>
           At(t, q, k, m, x) \/ (q = p /\ k = K /\ m = M /\ x = i)
      /\ \A q, k, d : Kid(u, q, k, d) <=> Kid(t, q, k, d)
      /\ \A q, k : On(u, q, k) <=> On(t, q, k)
      /\ \A d : ~Kid(t, p, K, d)
      /\ K = Count(t, p) + 1 => \E d : Kid(t, p, Count(t, p), d)
  BY DEF Sown
<1>7. Linked(u)
  <2>1. Linked(t)
    BY DEF IsTree
  <2>2. \A d \in DOMAIN t : d # Root => Par(t, d) \in DOMAIN t
    BY <1>1, RootedFacts
  <2> QED
    BY <1>2, <1>33, <1>6, <2>1, <2>2 DEF Linked
<1>8. Forked(u)
  <2>1. Forked(t)
    BY DEF IsTree
  <2> SUFFICES ASSUME NEW q \in DOMAIN t, NEW k \in Nat, 1 <= k, k <= Count(u, q)
               PROVE  /\ k > 1 => \E x : At(u, q, k, 1, x)
                      /\ k < Count(u, q) => \E d : Kid(u, q, k, d)
    BY <1>2 DEF Forked
  <2>2. CASE k <= Count(t, q) /\ ~(q = p /\ k = Count(t, p) /\ K = Count(t, p) + 1)
    <3>1. /\ k > 1 => \E x : At(t, q, k, 1, x)
          /\ k < Count(t, q) => \E d : Kid(t, q, k, d)
      BY <2>1, <2>2 DEF Forked
    <3>2. k < Count(u, q) => k < Count(t, q)
      BY <1>3, <2>2
    <3> QED
      BY <1>6, <3>1, <3>2
  <2>3. CASE q = p /\ k = Count(t, p) /\ K = Count(t, p) + 1
    <3>1. k > 1 => \E x : At(t, q, k, 1, x)
      BY <2>1, <2>3 DEF Forked
    <3> QED
      BY <1>6, <2>3, <3>1
  <2>4. CASE ~(k <= Count(t, q))
    <3>1. Count(t, q) \in Nat
      BY <1>1, RootedFacts
    <3>2. q = p /\ k = K /\ K = Count(u, p)
      BY <1>3, <2>4, <3>1
    <3>3. At(u, p, K, M, i)
      BY <1>6
    <3>4. \E y \in Items : At(u, p, K, 1, y)
      BY <1>2, <3>3, AtFacts
    <3> QED
      BY <3>2, <3>4
  <2> QED
    BY <2>2, <2>3, <2>4
<1>9. Unique(u)
  BY <1>6 DEF IsTree, Unique
<1>10. Actives(u)
  <2>1. Actives(t)
    BY DEF IsTree
  <2>2. \A q, e : Kid(t, q, 1, e) /\ Bare(t, q) => Bare(u, q)
    BY <1>6 DEF Bare
  <2>3. On(u, Root, 1)
    BY <1>6, <2>1 DEF Actives
  <2>4. ASSUME NEW q, NEW k, On(u, q, k), Alive(u, q) PROVE k = 1
    BY <1>1, <1>4, <1>6, <2>1, <2>4, AtFacts DEF Actives
  <2>5. ASSUME NEW e, NEW q, NEW k, On(u, e, 1), Alive(u, e), Kid(u, q, k, e)
        PROVE  k = 1 /\ On(u, q, 1) /\ Bare(u, q)
    <3>1. e \in DOMAIN t
      BY <1>2, <2>5, AtFacts
    <3>2. k = 1 /\ On(t, q, 1) /\ Bare(t, q)
      BY <1>4, <1>6, <2>1, <2>5, <3>1 DEF Actives
    <3> QED
      BY <1>6, <2>2, <2>5, <3>2
  <2> QED
    BY <2>3, <2>4, <2>5 DEF Actives
<1> QED
  BY <1>2, <1>4, <1>5, <1>7, <1>8, <1>9, <1>10 DEF IsTree

-----------------------------------------------------------------------------
(* A tree that gets a new chain is a tree, and the lines of the old *)
(* chains stay.                                                     *)
LEMMA GrownTree ==
  ASSUME NEW t, IsTree(t), NEW u, NEW p \in DOMAIN t, NEW n, NEW g,
         Grown(t, u, p, n, g), Count(t, p) > 0,
         \A d : Kid(t, p, Count(t, p), d) => t[d].tag # g,
         Len(g) = Len(t[p].tag) + 1, IsPrefix(t[p].tag, g),
         \E s \in Tags : IsPrefix(g, s)
  PROVE  /\ IsTree(u) /\ n \notin DOMAIN t /\ n # Root
         /\ \A q \in DOMAIN t : Line(u, q) = Line(t, q) /\ (Alive(u, q) <=> Alive(t, q))
         /\ \A q : q \in Line(u, n) <=> q = n \/ q \in Line(t, p)
         /\ Alive(u, n) <=> Alive(t, p)
<1>1. Rooted(t) /\ Rooted(u) /\ DOMAIN u = DOMAIN t \cup {n} /\ n \in DOMAIN u
      /\ \A q \in DOMAIN t : /\ q < n /\ q \in Nat /\ Par(u, q) = Par(t, q)
                             /\ u[q].tag = t[q].tag /\ Count(u, q) = Count(t, q)
      /\ Par(u, n) = p /\ u[n].tag = g /\ Count(u, n) = 1
  BY RootedFacts DEF Grown, IsTree
<1>2. n \notin DOMAIN t /\ n # Root /\ Root \in DOMAIN t
  BY <1>1, RootedFacts
<1>3. \A q \in DOMAIN t : Line(u, q) = Line(t, q)
  BY <1>1, LineKept
<1>4. \A q \in DOMAIN t : Alive(u, q) <=> Alive(t, q)
  <2>1. \A q \in DOMAIN t : u[q].segments = <<>> <=> t[q].segments = <<>>
    <3>1. \A q \in DOMAIN t : /\ Count(t, q) = 0 <=> t[q].segments = <<>>
                              /\ Count(u, q) = 0 <=> u[q].segments = <<>>
      BY <1>1, RootedFacts
    <3> QED
      BY <1>1, <3>1
  <2> QED
    BY <1>1, <2>1, AliveKept
<1>5. Line(u, n) = {n} \cup Line(t, p)
  BY <1>1, <1>2, <1>3, LineFacts
<1>6. Alive(u, n) <=> Alive(t, p)
  <2>1. Alive(u, n) <=> u[n].segments # <<>> /\ Alive(u, p)
    BY <1>1, <1>2, AliveFacts
  <2>2. u[n].segments # <<>>
    BY <1>1, RootedFacts
  <2> QED
    BY <1>4, <2>1, <2>2
<1>7. \A q \in DOMAIN t : q # Root => Par(t, q) \in DOMAIN t
  BY <1>1, RootedFacts
<1>8. Headed(u)
  <2>1. Headed(t)
    BY DEF IsTree
  <2>2. Par(u, Root) = Meta /\ u[Root].tag = <<>> /\ Count(u, Root) > 0
    BY <1>1, <1>2, <2>1 DEF Headed
  <2>3. ASSUME NEW q \in DOMAIN u PROVE \E s \in Tags : IsPrefix(u[q].tag, s)
    BY <1>1, <2>1 DEF Headed
  <2>4. ASSUME NEW q \in DOMAIN u, q # Root
        PROVE  /\ Len(u[q].tag) = Len(u[Par(u, q)].tag) + 1
               /\ IsPrefix(u[Par(u, q)].tag, u[q].tag)
    <3>1. CASE q = n
      BY <1>1, <3>1
    <3>2. CASE q \in DOMAIN t
      BY <1>1, <1>7, <2>1, <2>4, <3>2 DEF Headed
    <3> QED
      BY <1>1, <3>1, <3>2
  <2> QED
    BY <2>2, <2>3, <2>4 DEF Headed
<1>9. /\ \A q, k, m, x : At(u, q, k, m, x) <=> At(t, q, k, m, x)
      /\ \A q, k, d : Kid(u, q, k, d) <=>
           Kid(t, q, k, d) \/ (q = p /\ k = Count(t, p) /\ d = n)
      /\ \A q, k : On(u, q, k) <=>
           On(t, q, k) \/ (q = n /\ k = 1 /\ On(t, p, Count(t, p))
                             /\ \A x : ~At(t, p, Count(t, p), 1, x))
  BY DEF Grown
<1>10. \A q, k, d : Kid(t, q, k, d) => q \in DOMAIN t /\ d \in DOMAIN t /\ d # n
  BY <1>1, <1>2, AtFacts DEF IsTree, Linked
<1>11. Linked(u)
  <2>1. Linked(t)
    BY DEF IsTree
  <2>2. \A q, k, d : Kid(u, q, k, d) =>
          d \in DOMAIN u /\ d # Root /\ Par(u, d) = q /\ Count(u, d) > 0
    BY <1>1, <1>2, <1>9, <1>10, <2>1 DEF Linked
  <2>3. \A q, k, l, d : Kid(u, q, k, d) /\ Kid(u, q, l, d) => k = l
    BY <1>9, <1>10, <2>1 DEF Linked
  <2>4. \A q, k, d, e : Kid(u, q, k, d) /\ Kid(u, q, k, e) /\ u[d].tag = u[e].tag => d = e
    BY <1>1, <1>9, <1>10, <2>1 DEF Linked
  <2>5. ASSUME NEW d \in DOMAIN u, d # Root, Count(u, d) > 0, Count(u, Par(u, d)) > 0
        PROVE  \E k : Kid(u, Par(u, d), k, d)
    <3>1. CASE d = n
      BY <1>1, <1>9, <3>1
    <3>2. CASE d \in DOMAIN t
      BY <1>1, <1>7, <1>9, <2>1, <2>5, <3>2 DEF Linked
    <3> QED
      BY <1>1, <3>1, <3>2
  <2> QED
    BY <2>2, <2>3, <2>4, <2>5 DEF Linked
<1>12. Forked(u)
  <2>1. Forked(t)
    BY DEF IsTree
  <2>2. \A k \in Nat : 1 <= k /\ k <= 1 => ~(k > 1) /\ ~(k < 1)
    OBVIOUS
  <2> QED
    BY <1>1, <1>9, <2>1, <2>2 DEF Forked
<1>13. Unique(u)
  BY <1>9 DEF IsTree, Unique
<1>14. Actives(u)
  <2>1. Actives(t)
    BY DEF IsTree
  <2>2. \A q, k : On(t, q, k) => q \in DOMAIN t
    BY <1>1, AtFacts
  <2>3. On(u, Root, 1)
    BY <1>9, <2>1 DEF Actives
  <2>4. ASSUME NEW q, NEW k, On(u, q, k), Alive(u, q) PROVE k = 1
    BY <1>4, <1>9, <2>1, <2>2, <2>4 DEF Actives
  <2>5. ASSUME NEW e, NEW q, NEW k, On(u, e, 1), Alive(u, e), Kid(u, q, k, e)
        PROVE  k = 1 /\ On(u, q, 1) /\ Bare(u, q)
    <3>1. CASE e = n
      <4>1. q = p /\ k = Count(t, p) /\ On(t, p, k) /\ \A x : ~At(t, p, k, 1, x)
        BY <1>2, <1>9, <1>10, <2>2, <2>5, <3>1
      <4>2. k = 1
        BY <1>6, <2>1, <2>5, <3>1, <4>1 DEF Actives
      <4> QED
        BY <1>9, <4>1, <4>2 DEF Bare
    <3>2. CASE e # n
      <4>1. On(t, e, 1) /\ e \in DOMAIN t /\ Kid(t, q, k, e) /\ Alive(t, e)
        BY <1>4, <1>9, <2>2, <2>5, <3>2
      <4>2. k = 1 /\ On(t, q, 1) /\ Bare(t, q)
        BY <2>1, <4>1 DEF Actives
      <4> QED
        BY <1>9, <4>2 DEF Bare
    <3> QED
      BY <3>1, <3>2
  <2> QED
    BY <2>3, <2>4, <2>5 DEF Actives
<1> QED
  BY <1>1, <1>2, <1>3, <1>4, <1>5, <1>6, <1>8, <1>11, <1>12, <1>13, <1>14 DEF IsTree

(* A tree that loses a child, but not a segment, is a tree. *)
LEMMA CutTree ==
  ASSUME NEW t, IsTree(t), NEW u, NEW p \in DOMAIN t, NEW d \in DOMAIN t,
         Cut(t, u, p, d), Kid(t, p, 1, d),
         (\E e : e # d /\ Kid(t, p, 1, e)) \/ Count(t, p) = 1
  PROVE  IsTree(u) /\ \A q \in DOMAIN t : Alive(u, q) <=> Alive(t, q) /\ d \notin Line(t, q)
<1>1. Same(t, u) /\ Rooted(t)
  BY DEF Cut, IsTree
<1>2. /\ Rooted(u) /\ DOMAIN u = DOMAIN t
      /\ \A q \in DOMAIN t : Par(u, q) = Par(t, q) /\ u[q].tag = t[q].tag
      /\ Headed(t) /\ Count(u, Root) > 0 => Headed(u)
  BY <1>1, SameLines
<1>3. \A q \in DOMAIN t : Count(u, q) = IF q = d THEN 0 ELSE Count(t, q)
  BY DEF Cut
<1>4. \A q \in DOMAIN t : Alive(u, q) <=> Alive(t, q) /\ d \notin Line(t, q)
  BY <1>1, <1>3, CutAlive
<1>5. d # Root /\ Par(t, d) = p /\ \A k : Kid(t, p, k, d) => k = 1
  BY DEF IsTree, Linked
<1>6. Root \in DOMAIN t /\ \A q \in DOMAIN t : q # Root => Par(t, q) \in DOMAIN t
  BY <1>1, RootedFacts
<1>7. Headed(u)
  BY <1>2, <1>3, <1>5, <1>6 DEF IsTree, Headed
<1>8. /\ \A q, k, m, x : At(u, q, k, m, x) <=> q # d /\ At(t, q, k, m, x)
      /\ \A q, k, e : Kid(u, q, k, e) <=>
           q # d /\ Kid(t, q, k, e) /\ ~(q = p /\ k = 1 /\ e = d)
      /\ \A q, k : On(u, q, k) <=> q # d /\ On(t, q, k)
  BY DEF Cut
<1>9. Linked(u)
  <2>1. Linked(t)
    BY DEF IsTree
  <2>2. \A q, k : ~Kid(u, q, k, d)
    BY <1>5, <1>8, <2>1 DEF Linked
  <2>3. \A q, k, e : Kid(u, q, k, e) =>
          e \in DOMAIN u /\ e # Root /\ Par(u, e) = q /\ Count(u, e) > 0
    BY <1>2, <1>3, <1>8, <2>1, <2>2 DEF Linked
  <2>4. \A q, k, l, e : Kid(u, q, k, e) /\ Kid(u, q, l, e) => k = l
    BY <1>8, <2>1 DEF Linked
  <2>5. \A q, k, e, f : Kid(u, q, k, e) /\ Kid(u, q, k, f) /\ u[e].tag = u[f].tag => e = f
    <3>1. \A q, k, e : Kid(u, q, k, e) => Kid(t, q, k, e) /\ e \in DOMAIN t
      BY <1>8, <2>1 DEF Linked
    <3> QED
      BY <1>2, <2>1, <3>1 DEF Linked
  <2>6. ASSUME NEW e \in DOMAIN u, e # Root, Count(u, e) > 0, Count(u, Par(u, e)) > 0
        PROVE  \E k : Kid(u, Par(u, e), k, e)
    <3>1. e # d /\ Par(t, e) # d /\ Par(t, e) \in DOMAIN t
      BY <1>2, <1>3, <1>6, <2>6
    <3>2. Count(t, e) > 0 /\ Count(t, Par(t, e)) > 0
      BY <1>2, <1>3, <2>6, <3>1
    <3>3. \E k : Kid(t, Par(t, e), k, e)
      BY <1>2, <2>1, <2>6, <3>2 DEF Linked
    <3> QED
      BY <1>2, <1>8, <3>1, <3>3
  <2> QED
    BY <2>3, <2>4, <2>5, <2>6 DEF Linked
<1>10. Forked(u)
  <2>1. Forked(t)
    BY DEF IsTree
  <2> SUFFICES ASSUME NEW q \in DOMAIN t, NEW k \in Nat, 1 <= k, k <= Count(u, q)
               PROVE  /\ k > 1 => \E x : At(u, q, k, 1, x)
                      /\ k < Count(u, q) => \E e : Kid(u, q, k, e)
    BY <1>2 DEF Forked
  <2>2. q # d /\ Count(u, q) = Count(t, q)
    BY <1>3
  <2>3. /\ k > 1 => \E x : At(t, q, k, 1, x)
        /\ k < Count(t, q) => \E e : Kid(t, q, k, e)
    BY <2>1, <2>2 DEF Forked
  <2>4. k > 1 => \E x : At(u, q, k, 1, x)
    BY <1>8, <2>2, <2>3
  <2>5. ASSUME k < Count(u, q) PROVE \E e : Kid(u, q, k, e)
    <3>1. CASE q = p /\ k = 1
      <4>1. Count(t, p) # 1
        BY <2>2, <2>5, <3>1
      <4> QED
        BY <1>8, <2>2, <3>1, <4>1
    <3>2. CASE ~(q = p /\ k = 1)
      BY <1>8, <2>2, <2>3, <2>5, <3>2
    <3> QED
      BY <3>1, <3>2
  <2> QED
    BY <2>4, <2>5
<1>11. Unique(u)
  BY <1>8 DEF IsTree, Unique
<1>12. Actives(u)
  <2>1. Actives(t)
    BY DEF IsTree
  <2>2. \A q, k : On(t, q, k) => q \in DOMAIN t
    BY <1>1, AtFacts
  <2>3. \A q : Bare(t, q) => Bare(u, q)
    BY <1>8 DEF Bare
  <2>4. On(u, Root, 1)
    BY <1>5, <1>8, <2>1 DEF Actives
  <2>5. \A q, k : On(u, q, k) /\ Alive(u, q) => k = 1
    BY <1>4, <1>8, <2>1, <2>2 DEF Actives
  <2>6. ASSUME NEW e, NEW q, NEW k, On(u, e, 1), Alive(u, e), Kid(u, q, k, e)
        PROVE  k = 1 /\ On(u, q, 1) /\ Bare(u, q)
    <3>1. On(t, e, 1) /\ Alive(t, e) /\ Kid(t, q, k, e) /\ q # d
      BY <1>4, <1>8, <2>2, <2>6
    <3>2. k = 1 /\ On(t, q, 1) /\ Bare(t, q)
      BY <2>1, <3>1 DEF Actives
    <3> QED
      BY <1>8, <2>3, <3>1, <3>2
  <2> QED
    BY <2>4, <2>5, <2>6 DEF Actives
<1> QED
  BY <1>2, <1>4, <1>7, <1>9, <1>10, <1>11, <1>12 DEF IsTree

(* A tree whose chain goes on to its next segment is a tree. *)
LEMMA MovedTree ==
  ASSUME NEW t, IsTree(t), NEW u, NEW p \in DOMAIN t, NEW d \in DOMAIN t,
         Moved(t, u, p, d), Kid(t, p, 1, d), \A e : Kid(t, p, 1, e) => e = d,
         On(t, p, 1), Alive(t, p)
  PROVE  IsTree(u) /\ \A q \in DOMAIN t : Alive(u, q) <=> Alive(t, q) /\ d \notin Line(t, q)
<1>1. Same(t, u) /\ Rooted(t)
  BY DEF Moved, IsTree
<1>2. /\ Rooted(u) /\ DOMAIN u = DOMAIN t
      /\ \A q \in DOMAIN t : Par(u, q) = Par(t, q) /\ u[q].tag = t[q].tag
      /\ Headed(t) /\ Count(u, Root) > 0 => Headed(u)
  BY <1>1, SameLines
<1>5. /\ d # Root /\ Par(t, d) = p /\ (\A k : Kid(t, p, k, d) => k = 1) /\ d # p
  BY <1>1, RootedFacts DEF IsTree, Linked
<1>3. /\ \A q \in DOMAIN t : Count(u, q) =
           IF q = d THEN 0 ELSE IF q = p THEN Count(t, p) - 1 ELSE Count(t, q)
      /\ Count(t, p) > 1 /\ Count(t, p) \in Nat
  BY <1>1, RootedFacts DEF Moved
<1>33. \A q \in DOMAIN t : q # d => (Count(u, q) > 0 <=> Count(t, q) > 0)
  BY <1>3
<1>4. \A q \in DOMAIN t : Alive(u, q) <=> Alive(t, q) /\ d \notin Line(t, q)
  <2>1. Count(u, d) = 0
    BY <1>3
  <2> QED
    BY <1>1, <1>33, <2>1, CutAlive
<1>6. Root \in DOMAIN t /\ \A q \in DOMAIN t : q # Root => Par(t, q) \in DOMAIN t
  BY <1>1, RootedFacts
<1>7. Headed(u)
  BY <1>2, <1>33, <1>5, <1>6 DEF IsTree, Headed
<1>8. /\ \A q, k, m, x : q # p => (At(u, q, k, m, x) <=> q # d /\ At(t, q, k, m, x))
      /\ \A k, m, x : At(u, p, k, m, x) <=> k \in Nat /\ 1 <= k /\ At(t, p, k + 1, m, x)
      /\ \A q, k, e : q # p => (Kid(u, q, k, e) <=> q # d /\ Kid(t, q, k, e))
      /\ \A k, e : Kid(u, p, k, e) <=> k \in Nat /\ 1 <= k /\ Kid(t, p, k + 1, e)
      /\ \A q, k : q # p => (On(u, q, k) <=> q # d /\ On(t, q, k))
      /\ \A k : On(u, p, k) <=> k = 1 \/ (k \in Nat /\ 1 <= k /\ On(t, p, k + 1))
  BY DEF Moved
<1> DEFINE at(q, k) == IF q = p THEN k + 1 ELSE k
<1>80. /\ \A q, k, m, x : At(u, q, k, m, x) => q # d /\ k \in Nat /\ At(t, q, at(q, k), m, x)
       /\ \A q, k, e : Kid(u, q, k, e) => q # d /\ k \in Nat /\ Kid(t, q, at(q, k), e)
  BY <1>1, <1>2, <1>5, <1>8, AtFacts
<1>81. \A q, k, l : k \in Nat /\ l \in Nat /\ at(q, k) = at(q, l) => k = l
  OBVIOUS
<1> HIDE DEF at
<1>9. Linked(u)
  <2>1. Linked(t)
    BY DEF IsTree
  <2>2. \A q, k : ~Kid(u, q, k, d)
    <3>1. \A k : k \in Nat /\ 1 <= k => k + 1 # 1
      OBVIOUS
    <3> QED
      BY <1>5, <1>8, <2>1, <3>1 DEF Linked
  <2>3. \A q, k, e : Kid(u, q, k, e) =>
          e \in DOMAIN u /\ e # Root /\ Par(u, e) = q /\ Count(u, e) > 0
    BY <1>2, <1>33, <1>80, <2>1, <2>2 DEF Linked
  <2>4. \A q, k, l, e : Kid(u, q, k, e) /\ Kid(u, q, l, e) => k = l
    BY <1>80, <1>81, <2>1 DEF Linked
  <2>5. \A q, k, e, f : Kid(u, q, k, e) /\ Kid(u, q, k, f) /\ u[e].tag = u[f].tag => e = f
    <3>1. \A q, k, e : Kid(u, q, k, e) => Kid(t, q, at(q, k), e) /\ e \in DOMAIN t
      BY <1>80, <2>1 DEF Linked
    <3> QED
      BY <1>2, <2>1, <3>1 DEF Linked
  <2>6. ASSUME NEW e \in DOMAIN u, e # Root, Count(u, e) > 0, Count(u, Par(u, e)) > 0
        PROVE  \E k : Kid(u, Par(u, e), k, e)
    <3>1. e # d /\ Par(t, e) # d /\ Par(t, e) \in DOMAIN t /\ Par(u, e) = Par(t, e)
      BY <1>2, <1>3, <1>6, <2>6
    <3>2. Count(t, e) > 0 /\ Count(t, Par(t, e)) > 0
      BY <1>2, <1>33, <2>6, <3>1
    <3>3. PICK k : Kid(t, Par(t, e), k, e)
      BY <1>2, <2>1, <2>6, <3>2 DEF Linked
    <3>4. CASE Par(t, e) = p
      <4>1. k # 1 /\ k \in Nat /\ 1 <= k
        BY <1>1, <3>1, <3>3, <3>4, AtFacts
      <4>2. k - 1 \in Nat /\ 1 <= k - 1 /\ (k - 1) + 1 = k
        BY <4>1
      <4>3. Kid(u, p, k - 1, e)
        BY <1>8, <3>3, <3>4, <4>2
      <4> QED
        BY <3>1, <3>4, <4>3
    <3>5. CASE Par(t, e) # p
      BY <1>8, <3>1, <3>3, <3>5
    <3> QED
      BY <3>4, <3>5
  <2> QED
    BY <2>3, <2>4, <2>5, <2>6 DEF Linked
<1>10. Forked(u)
  <2>1. Forked(t)
    BY DEF IsTree
  <2> SUFFICES ASSUME NEW q \in DOMAIN t, NEW k \in Nat, 1 <= k, k <= Count(u, q)
               PROVE  /\ k > 1 => \E x : At(u, q, k, 1, x)
                      /\ k < Count(u, q) => \E e : Kid(u, q, k, e)
    BY <1>2 DEF Forked
  <2>2. CASE q # p
    <3>1. q # d /\ Count(u, q) = Count(t, q)
      BY <1>3, <2>2
    <3>2. /\ k > 1 => \E x : At(t, q, k, 1, x)
          /\ k < Count(t, q) => \E e : Kid(t, q, k, e)
      BY <2>1, <3>1 DEF Forked
    <3> QED
      BY <1>8, <2>2, <3>1, <3>2
  <2>3. CASE q = p
    <3>1. Count(u, p) = Count(t, p) - 1
      BY <1>3, <1>5
    <3>2. k + 1 \in Nat /\ 1 <= k + 1 /\ k + 1 <= Count(t, p) /\ k + 1 > 1
          /\ (k < Count(u, p) => k + 1 < Count(t, p))
      BY <1>3, <2>3, <3>1
    <3>3. /\ \E x : At(t, p, k + 1, 1, x)
          /\ k + 1 < Count(t, p) => \E e : Kid(t, p, k + 1, e)
      BY <2>1, <3>2 DEF Forked
    <3> QED
      BY <1>8, <2>3, <3>2, <3>3
  <2> QED
    BY <2>2, <2>3
<1>11. Unique(u)
  BY <1>80, <1>81 DEF IsTree, Unique
<1>12. Actives(u)
  <2>1. Actives(t)
    BY DEF IsTree
  <2>2. \A q, k : On(t, q, k) => q \in DOMAIN t
    BY <1>1, AtFacts
  <2>20. \A q, k : On(u, q, k) => q \in DOMAIN t
    BY <1>2, AtFacts
  <2>3. \A q : q # p /\ Bare(t, q) => Bare(u, q)
    BY <1>8 DEF Bare
  <2>4. On(u, Root, 1)
    BY <1>5, <1>8, <2>1 DEF Actives
  <2>5. ASSUME NEW q, NEW k, On(u, q, k), Alive(u, q) PROVE k = 1
    <3>1. CASE q # p
      BY <1>4, <1>8, <2>1, <2>2, <2>5, <3>1 DEF Actives
    <3>2. CASE q = p
      <4>1. k \in Nat /\ On(t, p, k + 1) => k + 1 = 1
        BY <2>1 DEF Actives
      <4> QED
        BY <1>8, <2>5, <3>2, <4>1
    <3> QED
      BY <3>1, <3>2
  <2>6. ASSUME NEW e, NEW q, NEW k, On(u, e, 1), Alive(u, e), Kid(u, q, k, e)
        PROVE  k = 1 /\ On(u, q, 1) /\ Bare(u, q)
    <3>1. Alive(t, e) /\ Kid(t, q, at(q, k), e) /\ q # d /\ k \in Nat
      BY <1>4, <1>80, <2>20, <2>6
    <3>2. On(t, e, 1)
      BY <1>8, <2>6
    <3>3. at(q, k) = 1 /\ On(t, q, 1) /\ Bare(t, q)
      BY <2>1, <3>1, <3>2 DEF Actives
    <3>4. CASE q = p
      <4>1. 1 <= k
        BY <1>8, <2>6, <3>4
      <4>2. FALSE
        BY <3>1, <3>3, <3>4, <4>1 DEF at
      <4> QED
        BY <4>2
    <3>5. CASE q # p
      BY <1>8, <2>3, <3>1, <3>3, <3>5 DEF at
    <3> QED
      BY <3>4, <3>5
  <2> QED
    BY <2>4, <2>5, <2>6 DEF Actives
<1> QED
  BY <1>2, <1>4, <1>7, <1>9, <1>10, <1>11, <1>12 DEF IsTree

-----------------------------------------------------------------------------
FrameType == [chain : Nat, todo : SUBSET Nat]
CallType  == [on : Nat, tag : Seq(Keys), version : Nat, child : Nat]

(* a child that is not used for reservations any more, and only in a first *)
(* segment without items                                                   *)
Ended(t, p, d) == \A k : Kid(t, p, k, d) => k = 1 /\ Bare(t, p)

(* what a coroutine holds and is about to do *)
Descending(t, fs, g) ==
  \E p \in DOMAIN t :
    /\ fs = <<Frame(p, {})>>
    /\ g \in Tags /\ IsPrefix(t[p].tag, g) /\ t[p].tag # g
    /\ Alive(t, p) => \E d : Kid(t, p, Count(t, p), d) /\ IsPrefix(t[d].tag, g)

Finalizing(t, fs, i) ==
  /\ \E p \in DOMAIN t \cup {Meta} : fs = <<Frame(p, {})>>
  /\ \A p, k, m : At(t, p, k, m, i) /\ Alive(t, p) => fs = <<Frame(Par(t, p), {})>>

Awakening(t, f) ==
  /\ f.chain \in DOMAIN t /\ f.todo \subseteq DOMAIN t
  /\ Alive(t, f.chain) =>
       /\ On(t, f.chain, 1) /\ Bare(t, f.chain)
       /\ \A d \in f.todo : Kid(t, f.chain, 1, d) /\ ~On(t, d, 1)

Removing(t, ca) ==
  /\ ca.on \in DOMAIN t /\ ca.child \in DOMAIN t /\ ca.child # Root
  /\ Par(t, ca.child) = ca.on /\ ca.tag = t[ca.child].tag
  /\ Alive(t, ca.on) => On(t, ca.on, 1) /\ Ended(t, ca.on, ca.child)

ProducerFits(t, w, fs, ca, g) ==
  /\ ca = NoCall
  /\ w = "descend" => Descending(t, fs, g)
  /\ w # "descend" => fs = <<>>

ConsumerFits(t, w, fs, ca, i) ==
  /\ w \in {"get", "retained", "finalized"} => fs = <<>> /\ ca = NoCall
  /\ w = "finalize" => Finalizing(t, fs, i) /\ ca = NoCall
  /\ w = "activate" =>
       fs # <<>> /\ (\A n \in DOMAIN fs : Awakening(t, fs[n])) /\ ca = NoCall
  /\ w \in {"remove", "find", "compare"} => Removing(t, ca)
  /\ w = "remove"  => fs = <<>>
  /\ w = "find"    => fs = <<Frame(Par(t, ca.on), {})>>
  /\ w = "compare" => fs = <<Frame(Par(t, ca.on), {}), Frame(ca.on, {})>>

(* What a step at the chain h that activates l leaves to the others. *)
Eased(t, u, h, l) ==
  /\ Rooted(t) /\ Rooted(u) /\ DOMAIN t \subseteq DOMAIN u
  /\ \A q \in DOMAIN t : /\ Par(u, q) = Par(t, q) /\ u[q].tag = t[q].tag
                         /\ Alive(u, q) => Alive(t, q)
  /\ \A q \in DOMAIN t : Alive(u, q) /\ q # h =>
       /\ Count(u, q) = Count(t, q)
       /\ \A k, d : Kid(u, q, k, d) <=> Kid(t, q, k, d)
       /\ Bare(t, q) => Bare(u, q)
  /\ \A q \in DOMAIN t : Alive(u, q) /\ On(t, q, 1) => On(u, q, 1)
  /\ \A q \in DOMAIN t : On(u, q, 1) => On(t, q, 1) \/ q = l
  /\ \A q, d \in DOMAIN t : Alive(u, q) /\ Ended(t, q, d) => Ended(u, q, d)

(* an item is still in its chain, and still the first if it was *)
Stays(t, u, x) ==
  \A p, k, m : At(u, p, k, m, x) =>
    \E j, n : At(t, p, j, n, x) /\ (j = 1 /\ n = 1 => k = 1 /\ m = 1)

(* segments and items are taken away from the front only *)
Slid(t, u) ==
  \A q : \E a \in Nat :
    /\ \A k, d : Kid(u, q, k, d) => k \in Nat /\ Kid(t, q, k + a, d)
    /\ \A k : \E b \in Nat : \A m, x : At(u, q, k, m, x) =>
         k \in Nat /\ m \in Nat /\ At(t, q, k + a, m + b, x)

(* Nothing is taken away from the front if all is where it was. *)
LEMMA SlidSame ==
  ASSUME NEW t, Rooted(t), NEW u,
         \A q, k, d : Kid(u, q, k, d) => Kid(t, q, k, d),
         \A q, k, m, x : At(u, q, k, m, x) => At(t, q, k, m, x)
  PROVE  Slid(t, u)
<1>1. /\ \A q, k, m, x : At(t, q, k, m, x) => k \in Nat /\ m \in Nat
      /\ \A q, k, d : Kid(t, q, k, d) => k \in Nat
  BY AtFacts
<1>2. ASSUME NEW q, NEW k, NEW d, Kid(u, q, k, d)
      PROVE  k \in Nat /\ Kid(t, q, k + 0, d)
  <2>1. Kid(t, q, k, d) /\ k \in Nat
    BY <1>1, <1>2
  <2>2. k + 0 = k
    BY <2>1
  <2> QED
    BY <2>1, <2>2
<1>3. ASSUME NEW q, NEW k, NEW m, NEW x, At(u, q, k, m, x)
      PROVE  k \in Nat /\ m \in Nat /\ At(t, q, k + 0, m + 0, x)
  <2>1. At(t, q, k, m, x) /\ k \in Nat /\ m \in Nat
    BY <1>1, <1>3
  <2>2. k + 0 = k /\ m + 0 = m
    BY <2>1
  <2> QED
    BY <2>1, <2>2
<1>4. 0 \in Nat
  OBVIOUS
<1> QED
  BY <1>2, <1>3, <1>4, Zenon DEF Slid

(* A pop takes the first item of the first segment away. *)
LEMMA SlidPopped ==
  ASSUME NEW t, Rooted(t), NEW u, NEW p, Popped(t, u, p)
  PROVE  Slid(t, u)
<1>1. /\ \A q, k, m, x : At(t, q, k, m, x) => k \in Nat /\ m \in Nat
      /\ \A q, k, d : Kid(t, q, k, d) => k \in Nat
  BY AtFacts
<1>2. ASSUME NEW q, NEW k, NEW d, Kid(u, q, k, d)
      PROVE  k \in Nat /\ Kid(t, q, k + 0, d)
  <2>1. Kid(t, q, k, d) /\ k \in Nat
    BY <1>1, <1>2 DEF Popped
  <2>2. k + 0 = k
    BY <2>1
  <2> QED
    BY <2>1, <2>2
<1>3. ASSUME NEW q, NEW k
      PROVE  \E b \in Nat : \A m, x : At(u, q, k, m, x) =>
               k \in Nat /\ m \in Nat /\ At(t, q, k + 0, m + b, x)
  <2>1. CASE q = p /\ k = 1
    <3>1. 1 + 0 = 1 /\ 1 \in Nat
      OBVIOUS
    <3>2. \A m, x : At(u, q, k, m, x) => m \in Nat /\ At(t, q, k, m + 1, x)
      BY <2>1 DEF Popped
    <3> QED
      BY <2>1, <3>1, <3>2, Zenon
  <2>2. CASE q # p \/ k # 1
    <3>1. ASSUME NEW m, NEW x, At(u, q, k, m, x)
          PROVE  k \in Nat /\ m \in Nat /\ At(t, q, k + 0, m + 0, x)
      <4>1. At(t, q, k, m, x) /\ k \in Nat /\ m \in Nat
        BY <1>1, <2>2, <3>1 DEF Popped
      <4>2. k + 0 = k /\ m + 0 = m
        BY <4>1
      <4> QED
        BY <4>1, <4>2
    <3>2. 0 \in Nat
      OBVIOUS
    <3> QED
      BY <3>1, <3>2, Zenon
  <2> QED
    BY <2>1, <2>2
<1>4. 0 \in Nat
  OBVIOUS
<1> QED
  BY <1>2, <1>3, <1>4, Zenon DEF Slid

(* Going on takes the first segment away. *)
LEMMA SlidMoved ==
  ASSUME NEW t, Rooted(t), NEW u, NEW p, NEW e, Moved(t, u, p, e)
  PROVE  Slid(t, u)
<1>1. /\ \A q, k, m, x : At(t, q, k, m, x) => k \in Nat /\ m \in Nat
      /\ \A q, k, d : Kid(t, q, k, d) => k \in Nat
      /\ 0 \in Nat /\ 1 \in Nat
  BY AtFacts
<1> DEFINE a(q) == IF q = p THEN 1 ELSE 0
<1>2. ASSUME NEW q, NEW k, NEW d, Kid(u, q, k, d)
      PROVE  k \in Nat /\ Kid(t, q, k + a(q), d)
  <2>1. CASE q = p
    BY <1>2, <2>1 DEF Moved
  <2>2. CASE q # p
    <3>1. Kid(t, q, k, d) /\ k \in Nat
      BY <1>1, <1>2, <2>2 DEF Moved
    <3>2. k + a(q) = k
      BY <2>2, <3>1
    <3> QED
      BY <3>1, <3>2
  <2> QED
    BY <2>1, <2>2
<1>3. ASSUME NEW q, NEW k, NEW m, NEW x, At(u, q, k, m, x)
      PROVE  k \in Nat /\ m \in Nat /\ At(t, q, k + a(q), m + 0, x)
  <2>1. CASE q = p
    <3>1. k \in Nat /\ At(t, p, k + 1, m, x)
      BY <1>3, <2>1 DEF Moved
    <3>2. m \in Nat
      BY <1>1, <3>1
    <3>3. m + 0 = m /\ a(q) = 1
      BY <2>1, <3>2
    <3> QED
      BY <2>1, <3>1, <3>2, <3>3
  <2>2. CASE q # p
    <3>1. At(t, q, k, m, x) /\ k \in Nat /\ m \in Nat
      BY <1>1, <1>3, <2>2 DEF Moved
    <3>2. k + a(q) = k /\ m + 0 = m
      BY <2>2, <3>1
    <3> QED
      BY <3>1, <3>2
  <2> QED
    BY <2>1, <2>2
<1>4. \A q : a(q) \in Nat
  OBVIOUS
<1> HIDE DEF a
<1> QED
  BY <1>1, <1>2, <1>3, <1>4, Zenon DEF Slid

(* What a producer is about to do still fits after an eased step *)
(* elsewhere.                                                    *)
LEMMA ProducerKept ==
  ASSUME NEW t, NEW u, NEW h, NEW l, Eased(t, u, h, l), NEW w, NEW fs, NEW ca, NEW g,
         ProducerFits(t, w, fs, ca, g), Linked(t),
         \A n \in DOMAIN fs : fs[n].chain # h
  PROVE  ProducerFits(u, w, fs, ca, g)
<1>1. ASSUME w = "descend" PROVE Descending(u, fs, g)
  <2>1. Descending(t, fs, g)
    BY <1>1 DEF ProducerFits
  <2>2. PICK p \in DOMAIN t :
          /\ fs = <<Frame(p, {})>>
          /\ g \in Tags /\ IsPrefix(t[p].tag, g) /\ t[p].tag # g
          /\ Alive(t, p) => \E d : Kid(t, p, Count(t, p), d) /\ IsPrefix(t[d].tag, g)
    BY <2>1 DEF Descending
  <2>3. p # h
    <3>1. fs[1].chain = p /\ 1 \in DOMAIN fs
      BY <2>2 DEF Frame
    <3> QED
      BY <3>1
  <2>4. p \in DOMAIN u /\ u[p].tag = t[p].tag
    BY DEF Eased
  <2>5. ASSUME Alive(u, p) PROVE \E d : Kid(u, p, Count(u, p), d) /\ IsPrefix(u[d].tag, g)
    <3>1. PICK d : Kid(t, p, Count(t, p), d) /\ IsPrefix(t[d].tag, g)
      BY <2>2, <2>5 DEF Eased
    <3>2. d \in DOMAIN t
      BY <3>1 DEF Linked
    <3>3. Kid(u, p, Count(u, p), d) /\ u[d].tag = t[d].tag
      BY <2>3, <2>5, <3>1, <3>2 DEF Eased
    <3> QED
      BY <3>1, <3>3
  <2> QED
    BY <2>2, <2>4, <2>5 DEF Descending
<1> QED
  BY <1>1 DEF ProducerFits

(* What a consumer is about to do still fits after an eased step *)
(* elsewhere.                                                    *)
LEMMA ConsumerKept ==
  ASSUME NEW t, NEW u, NEW h, NEW l, Eased(t, u, h, l), NEW w, NEW fs, NEW ca, NEW i,
         ConsumerFits(t, w, fs, ca, i), Linked(t),
         w = "finalize" => Stays(t, u, i),
         w = "activate" => \A n \in DOMAIN fs : fs[n].chain # h
                              /\ (Alive(u, fs[n].chain) => l \notin fs[n].todo)
  PROVE  ConsumerFits(u, w, fs, ca, i)
<1>0. /\ DOMAIN t \subseteq DOMAIN u
      /\ \A q \in DOMAIN t : /\ Par(u, q) = Par(t, q) /\ u[q].tag = t[q].tag
                             /\ Alive(u, q) => Alive(t, q)
  BY DEF Eased
<1>1. ASSUME w = "finalize" PROVE Finalizing(u, fs, i)
  <2>1. Finalizing(t, fs, i) /\ Stays(t, u, i)
    BY <1>1 DEF ConsumerFits
  <2>2. \A p, k, m : At(t, p, k, m, i) => p \in DOMAIN t
    BY DEF At
  <2> QED
    BY <1>0, <2>1, <2>2 DEF Finalizing, Stays
<1>2. ASSUME w = "activate", NEW n \in DOMAIN fs PROVE Awakening(u, fs[n])
  <2> DEFINE f == fs[n]
  <2>1. Awakening(t, f) /\ f.chain # h /\ (Alive(u, f.chain) => l \notin f.todo)
    BY <1>2 DEF ConsumerFits
  <2> HIDE DEF f
  <2>2. f.chain \in DOMAIN t /\ f.todo \subseteq DOMAIN t
    BY <2>1 DEF Awakening
  <2>3. ASSUME Alive(u, f.chain)
        PROVE  /\ On(u, f.chain, 1) /\ Bare(u, f.chain)
               /\ \A d \in f.todo : Kid(u, f.chain, 1, d) /\ ~On(u, d, 1)
    <3>1. /\ On(t, f.chain, 1) /\ Bare(t, f.chain)
          /\ \A d \in f.todo : Kid(t, f.chain, 1, d) /\ ~On(t, d, 1)
      BY <1>0, <2>1, <2>2, <2>3 DEF Awakening
    <3> QED
      BY <2>1, <2>2, <2>3, <3>1 DEF Eased
  <2>4. Awakening(u, f)
    BY <1>0, <2>2, <2>3 DEF Awakening
  <2> QED
    BY <2>4 DEF f
<1>3. ASSUME w \in {"remove", "find", "compare"}
      PROVE  Removing(u, ca) /\ Par(u, ca.on) = Par(t, ca.on)
  <2>1. Removing(t, ca)
    BY <1>3 DEF ConsumerFits
  <2>2. Alive(u, ca.on) => On(u, ca.on, 1) /\ Ended(u, ca.on, ca.child)
    BY <1>0, <2>1 DEF Removing, Eased
  <2> QED
    BY <1>0, <2>1, <2>2 DEF Removing
<1> QED
  BY <1>1, <1>2, <1>3 DEF ConsumerFits

-----------------------------------------------------------------------------
(* The steps on the tree ease it. *)
LEMMA EasedSelf ==
  ASSUME NEW t, Rooted(t), NEW h, NEW l
  PROVE  Eased(t, t, h, l)
BY DEF Eased

(* Touching a chain eases the others. *)
LEMMA EasedTouched ==
  ASSUME NEW t, IsTree(t), NEW u, NEW p \in DOMAIN t, Touched(t, u, p)
  PROVE  Eased(t, u, p, Meta)
<1>1. \A q \in DOMAIN t : Alive(u, q) <=> Alive(t, q)
  BY TouchedTree
<1> QED
  BY <1>1 DEF Eased, Touched, Same, Bare, Ended, IsTree

(* Popping an item eases the others. *)
LEMMA EasedPopped ==
  ASSUME NEW t, IsTree(t), NEW u, NEW p \in DOMAIN t, Popped(t, u, p)
  PROVE  Eased(t, u, p, Meta) /\ Slid(t, u) /\ \A x : Stays(t, u, x)
<1>1. \A q \in DOMAIN t : Alive(u, q) <=> Alive(t, q)
  BY PoppedTree
<1>2. \A q : Bare(t, q) => Bare(u, q)
  <2>1. \A m, x : At(t, p, 1, m, x) => \E y \in Items : At(t, p, 1, 1, y)
    BY AtFacts DEF IsTree
  <2> QED
    BY <2>1 DEF Bare, Popped
<1>3. Slid(t, u) /\ \A x : Stays(t, u, x)
  <2>1. \A q, k, m, x : At(u, q, k, m, x) =>
          At(t, q, k, m, x) \/ (m \in Nat /\ 1 <= m /\ At(t, q, k, m + 1, x))
    BY DEF Popped
  <2>2. \A m : m \in Nat /\ 1 <= m => m + 1 # 1
    OBVIOUS
  <2>3. \A x : Stays(t, u, x)
    BY <2>1, <2>2 DEF Stays
  <2> QED
    BY <2>3, SlidPopped DEF IsTree
<1> QED
  BY <1>1, <1>2, <1>3 DEF Eased, Popped, Same, Ended, IsTree

(* Marking a chain eases the others. *)
LEMMA EasedMarked ==
  ASSUME NEW t, IsTree(t), NEW u, NEW p \in DOMAIN t, Marked(t, u, p)
  PROVE  Eased(t, u, p, p) /\ Slid(t, u) /\ \A x : Stays(t, u, x)
<1>1. Rooted(t) /\ Same(t, u)
  BY DEF IsTree, Marked
<1>2. \A q \in DOMAIN t : Alive(u, q) <=> Alive(t, q)
  BY <1>1, SameAlive DEF Marked
<1>3. Slid(t, u) /\ \A x : Stays(t, u, x)
  <2>1. \A x : Stays(t, u, x)
    BY DEF Stays, Marked
  <2>2. /\ \A q, k, d : Kid(u, q, k, d) => Kid(t, q, k, d)
        /\ \A q, k, m, x : At(u, q, k, m, x) => At(t, q, k, m, x)
    BY DEF Marked
  <2> QED
    BY <1>1, <2>1, <2>2, SlidSame
<1> QED
  BY <1>1, <1>2, <1>3 DEF Eased, Marked, Same, Bare, Ended

(* A new item eases the others. *)
LEMMA EasedSown ==
  ASSUME NEW t, IsTree(t), NEW u, NEW p \in DOMAIN t, NEW i \in Items, NEW K, NEW M,
         Sown(t, u, p, i, K, M), Count(t, p) > 0
  PROVE  Eased(t, u, p, Meta) /\ \A x : x # i => Stays(t, u, x)
<1>1. Rooted(t) /\ Same(t, u) /\ Count(t, p) \in Nat
  BY RootedFacts DEF IsTree, Sown
<1>2. \A q \in DOMAIN t : Count(u, q) > 0 <=> Count(t, q) > 0
  BY <1>1 DEF Sown
<1>3. \A q \in DOMAIN t : Alive(u, q) <=> Alive(t, q)
  BY <1>1, <1>2, SameAlive
<1>4. \A x : x # i => Stays(t, u, x)
  BY DEF Stays, Sown
<1>5. \A q, d \in DOMAIN t : Ended(t, q, d) => Ended(u, q, d)
  BY DEF Ended, Bare, Sown
<1> QED
  BY <1>1, <1>3, <1>4, <1>5 DEF Eased, Sown, Same, Bare

(* A new chain eases the others. *)
LEMMA EasedGrown ==
  ASSUME NEW t, IsTree(t), NEW u, NEW p \in DOMAIN t, NEW n, NEW g,
         Grown(t, u, p, n, g), n \notin DOMAIN t,
         \A q \in DOMAIN t : Alive(u, q) => Alive(t, q)
  PROVE  Eased(t, u, p, Meta) /\ \A x : Stays(t, u, x)
<1>1. Rooted(t) /\ Rooted(u)
  BY DEF IsTree, Grown
<1>2. \A q, d \in DOMAIN t : Ended(t, q, d) => Ended(u, q, d)
  BY DEF Ended, Bare, Grown
<1>3. \A x : Stays(t, u, x)
  BY DEF Stays, Grown
<1>4. \A q \in DOMAIN t : On(u, q, 1) <=> On(t, q, 1)
  BY DEF Grown
<1> QED
  BY <1>1, <1>2, <1>3, <1>4 DEF Eased, Grown, Bare

(* Erasing a child eases the others. *)
LEMMA EasedCut ==
  ASSUME NEW t, IsTree(t), NEW u, NEW p \in DOMAIN t, NEW d \in DOMAIN t, Cut(t, u, p, d),
         \A q \in DOMAIN t : Alive(u, q) <=> Alive(t, q) /\ d \notin Line(t, q)
  PROVE  Eased(t, u, p, Meta) /\ Slid(t, u) /\ \A x : Stays(t, u, x)
<1>1. Rooted(t) /\ Same(t, u)
  BY DEF IsTree, Cut
<1>2. \A q \in DOMAIN t : Alive(u, q) => Alive(t, q) /\ q # d
  BY <1>1, LineFacts
<1>3. Slid(t, u) /\ \A x : Stays(t, u, x)
  <2>1. \A x : Stays(t, u, x)
    BY DEF Stays, Cut
  <2>2. /\ \A q, k, e : Kid(u, q, k, e) => Kid(t, q, k, e)
        /\ \A q, k, m, x : At(u, q, k, m, x) => At(t, q, k, m, x)
    BY DEF Cut
  <2> QED
    BY <1>1, <2>1, <2>2, SlidSame
<1>4. \A q, e \in DOMAIN t : Ended(t, q, e) => Ended(u, q, e)
  BY DEF Ended, Bare, Cut
<1> QED
  BY <1>1, <1>2, <1>3, <1>4 DEF Eased, Cut, Same, Bare

(* Going on to the next segment eases the others. *)
LEMMA EasedMoved ==
  ASSUME NEW t, IsTree(t), NEW u, NEW p \in DOMAIN t, NEW d \in DOMAIN t, Moved(t, u, p, d),
         On(t, p, 1),
         \A q \in DOMAIN t : Alive(u, q) <=> Alive(t, q) /\ d \notin Line(t, q)
  PROVE  Eased(t, u, p, Meta) /\ Slid(t, u) /\ \A x : Stays(t, u, x)
<1>1. Rooted(t) /\ Same(t, u)
  BY DEF IsTree, Moved
<1>2. \A q \in DOMAIN t : Alive(u, q) => Alive(t, q) /\ q # d
  BY <1>1, LineFacts
<1>3. Slid(t, u) /\ \A x : Stays(t, u, x)
  <2>1. \A q, k, m, x : At(u, q, k, m, x) =>
          At(t, q, k, m, x) \/ (k \in Nat /\ 1 <= k /\ At(t, q, k + 1, m, x))
    BY DEF Moved
  <2>2. \A m : m \in Nat /\ 1 <= m => m + 1 # 1
    OBVIOUS
  <2>3. \A x : Stays(t, u, x)
    BY <2>1, <2>2 DEF Stays
  <2> QED
    BY <1>1, <2>3, SlidMoved
<1>4. \A q, e \in DOMAIN t : Ended(t, q, e) => Ended(u, q, e)
  <2>1. \A q, e : q # p /\ Ended(t, q, e) => Ended(u, q, e)
    BY DEF Ended, Bare, Moved
  <2>2. ASSUME NEW e, Ended(t, p, e), NEW k, Kid(u, p, k, e) PROVE FALSE
    <3>1. k \in Nat /\ 1 <= k /\ Kid(t, p, k + 1, e)
      BY <2>2 DEF Moved
    <3>2. k + 1 = 1
      BY <2>2, <3>1 DEF Ended
    <3> QED
      BY <3>1, <3>2
  <2> QED
    BY <2>1, <2>2 DEF Ended
<1> QED
  BY <1>1, <1>2, <1>3, <1>4 DEF Eased, Moved, Same, Bare

-----------------------------------------------------------------------------
(* The coroutines are told apart by their role and their item. *)
LEMMA CoroFacts ==
  /\ \A i \in Items : Producer(i) \in Coros /\ Consumer(i) \in Coros
  /\ \A c \in Coros : \E i \in Items : c = Producer(i) \/ c = Consumer(i)
  /\ \A i, j : Producer(i) # Consumer(j)
  /\ \A i, j : Producer(i) = Producer(j) => i = j
  /\ \A i, j : Consumer(i) = Consumer(j) => i = j
  /\ \A i : Producer(i)[1] = "produce" /\ Consumer(i)[1] = "consume"
BY DEF Coros, Producer, Consumer

Ever(i) == ready[i] > 0 \/ pc[Consumer(i)] # "get"

Types ==
  /\ DOMAIN pc = Coros
  /\ \A i \in Items : /\ pc[Producer(i)] \in Label("produce")
                      /\ pc[Consumer(i)] \in Label("consume")
  /\ frames \in [Coros -> Seq(FrameType)]
  /\ call \in [Coros -> CallType]
  /\ tag \in [Items -> Tags \cup {<<>>}]
  /\ before \in [Items -> SUBSET Items]
  /\ filled \in SUBSET Items
  /\ ready \in [Items -> Nat]
  /\ interrupted \in BOOLEAN /\ stopped \in BOOLEAN

(* an item is offered once, when it has been populated *)
Tokens ==
  \A i \in Items :
    /\ ready[i] <= 1 /\ (pc[Consumer(i)] # "get" => ready[i] = 0)
    /\ Ever(i) => pc[Producer(i)] = "populated"
    /\ i \in filled <=> pc[Producer(i)] = "populated"

(* where an item is; and one that has been offered is the first of an *)
(* active segment                                                     *)
Places ==
  \A p, k, m, i : At(chain, p, k, m, i) =>
    /\ pc[Producer(i)] \in {"reserved", "populated"}
    /\ pc[Consumer(i)] \in {"get", "retained", "finalize"}
    /\ tag[i] = chain[p].tag
    /\ Alive(chain, p) /\ Ever(i) => k = 1 /\ m = 1 /\ On(chain, p, 1)

(* a mutex is held once *)
Apart ==
  \A c, d \in Coros : \A m \in DOMAIN frames[c], n \in DOMAIN frames[d] :
    frames[c][m].chain = frames[d][n].chain => c = d /\ m = n

Fits ==
  \A i \in Items :
    /\ ProducerFits(chain, pc[Producer(i)], frames[Producer(i)],
                    call[Producer(i)], tag[i])
    /\ ConsumerFits(chain, pc[Consumer(i)], frames[Consumer(i)],
                    call[Consumer(i)], i)

(* the reservation of x is on its way down from the chain q *)
Bound(x, q) == pc[Producer(x)] = "descend" /\ frames[Producer(x)] = <<Frame(q, {})>>

(* x is in d or below, or on its way there *)
Thru(x, d) ==
  \E q : (Bound(x, q) \/ \E k, m : At(chain, q, k, m, x)) /\ d \in Line(chain, q)

(* Wherever they meet, j is in front of i; and a reservation has no other *)
(* behind it that could overtake it.                                      *)
Ahead(j, i) ==
  /\ \A p, k, l, m, n : At(chain, p, k, m, j) /\ At(chain, p, l, n, i) =>
       k < l \/ (k = l /\ m < n)
  /\ \A p, k, l, m, d : At(chain, p, k, m, j) /\ Kid(chain, p, l, d) /\ Thru(i, d) =>
       k <= l
  /\ \A p, k, l, n, d : Kid(chain, p, k, d) /\ Thru(j, d) /\ At(chain, p, l, n, i) =>
       k < l
  /\ \A p, k, l, d, e :
       Kid(chain, p, k, d) /\ Thru(j, d) /\ Kid(chain, p, l, e) /\ Thru(i, e) => k <= l
  /\ \A p : Bound(j, p) => ~Thru(i, p)

(* what an item has to wait for is related to it, and in front of it *)
Order ==
  \A i \in Items : \A j \in before[i] :
    /\ pc[Producer(j)] \notin {"new", "rejected"} /\ j # i
    /\ Related(tag[j], tag[i])
    /\ Ahead(j, i)

Inv == Types /\ IsTree(chain) /\ Tokens /\ Places /\ Apart /\ Fits /\ Order

-----------------------------------------------------------------------------
(* The chain an item is in, and its segment. *)
LEMMA HomeFacts ==
  ASSUME IsTree(chain), NEW i \in Items
  PROVE  /\ Home(i) # {} => \E m : /\ At(chain, Owner(i), SegmentOf(i), m, i)
                                   /\ Alive(chain, Owner(i))
         /\ \A p, k, m : At(chain, p, k, m, i) /\ Alive(chain, p) =>
              Home(i) = {p} /\ Owner(i) = p /\ SegmentOf(i) = k
<1>0. Rooted(chain) /\ Unique(chain) /\ Chains = DOMAIN chain
  BY DEF IsTree, Chains
<1>1. \A p \in Chains : /\ DOMAIN chain[p].segments = 1..Count(chain, p)
                        /\ Exists(p) <=> Alive(chain, p)
  BY <1>0, RootedFacts, ExistsIsAlive
<1>2. \A p, k : p \in Chains /\ k \in 1..Count(chain, p) =>
        (Contains(chain[p].segments[k].siblings, i) <=> \E m : At(chain, p, k, m, i))
  BY <1>0 DEF At, Sib, Contains
<1>3. \A p : p \in Home(i) <=> p \in Chains /\ Alive(chain, p) /\ \E k, m : At(chain, p, k, m, i)
  <2>1. \A p, k, m : At(chain, p, k, m, i) => p \in Chains /\ k \in 1..Count(chain, p)
    BY <1>0 DEF At
  <2> QED
    BY <1>1, <1>2, <2>1 DEF Home
<1>4. ASSUME NEW p, NEW k, NEW m, At(chain, p, k, m, i), Alive(chain, p)
      PROVE  Home(i) = {p} /\ Owner(i) = p /\ SegmentOf(i) = k
  <2>1. p \in Chains /\ k \in 1..Count(chain, p)
    BY <1>0, <1>4 DEF At
  <2>2. Home(i) = {p}
    BY <1>0, <1>3, <1>4, <2>1 DEF Unique
  <2>3. Owner(i) = p
    BY <2>2 DEF Owner
  <2>4. \A l \in DOMAIN chain[p].segments :
          Contains(chain[p].segments[l].siblings, i) <=> l = k
    <3>1. \A l : (\E n : At(chain, p, l, n, i)) <=> l = k
      BY <1>0, <1>4 DEF Unique
    <3>2. DOMAIN chain[p].segments = 1..Count(chain, p)
      BY <1>1, <2>1
    <3>3. \A l \in 1..Count(chain, p) :
            Contains(chain[p].segments[l].siblings, i) <=> \E n : At(chain, p, l, n, i)
      BY <1>2, <2>1
    <3> QED
      BY <3>1, <3>2, <3>3
  <2>5. SegmentOf(i) = k
    BY <1>1, <2>1, <2>3, <2>4 DEF SegmentOf
  <2> QED
    BY <2>2, <2>3, <2>5
<1>5. ASSUME Home(i) # {} PROVE \E m : At(chain, Owner(i), SegmentOf(i), m, i) /\ Alive(chain, Owner(i))
  BY <1>3, <1>4, <1>5
<1> QED
  BY <1>4, <1>5

(* What a sound coroutine holds and refers to is alive. *)
LEMMA SoundFacts ==
  ASSUME IsTree(chain), NEW c \in Coros, Sound(c)
  PROVE  /\ \A n \in DOMAIN frames[c] :
              frames[c][n].chain \in Chains => Alive(chain, frames[c][n].chain)
         /\ call[c].on \in Chains => Alive(chain, call[c].on)
         /\ \A i \in Items : Refers(c, i) => Home(i) # {}
<1>1. Rooted(chain)
  BY DEF IsTree
<1>2. \A p \in Chains : Exists(p) <=> Alive(chain, p)
  BY <1>1, ExistsIsAlive
<1> QED
  BY <1>2 DEF Sound, Holding

(* What runque::put does to the tokens. *)
LEMMA PutFacts ==
  ASSUME ready \in [Items -> Nat], NEW S, Put(S)
  PROVE  /\ ready' \in [Items -> Nat]
         /\ \A i \in Items : ready'[i] = IF i \in S /\ ~stopped THEN ready[i] + 1 ELSE ready[i]
BY DEF Put

-----------------------------------------------------------------------------
(* What a step of c leaves of the others. *)
Others(c) ==
  /\ DOMAIN pc' = Coros
  /\ frames' \in [Coros -> Seq(FrameType)] /\ call' \in [Coros -> CallType]
  /\ \A d \in Coros : d # c => pc'[d] = pc[d] /\ frames'[d] = frames[d] /\ call'[d] = call[d]

(* A step of one coroutine leaves what the others are about to do *)
(* fitting.                                                       *)
LEMMA FitsKept ==
  ASSUME Inv, NEW c \in Coros, NEW i \in Items, c = Producer(i) \/ c = Consumer(i),
         Others(c), \A j \in Items : j # i \/ c = Consumer(i) => tag'[j] = tag[j],
         NEW h, NEW l, Eased(chain, chain', h, l),
         \A d \in Coros : d # c => \A n \in DOMAIN frames[d] : frames[d][n].chain # h,
         l = Meta \/ \A d \in Coros : d # c => \A n \in DOMAIN frames[d] :
           Alive(chain', frames[d][n].chain) => l \notin frames[d][n].todo,
         \A x : x # i \/ pc[Consumer(i)] # "get" => Stays(chain, chain', x),
         c = Producer(i) =>
           ProducerFits(chain', pc'[c], frames'[c], call'[c], tag'[i]),
         c = Consumer(i) =>
           ConsumerFits(chain', pc'[c], frames'[c], call'[c], i)
  PROVE  Fits'
<1> SUFFICES ASSUME NEW j \in Items
             PROVE  /\ ProducerFits(chain', pc'[Producer(j)], frames'[Producer(j)],
                                    call'[Producer(j)], tag'[j])
                    /\ ConsumerFits(chain', pc'[Consumer(j)], frames'[Consumer(j)],
                                    call'[Consumer(j)], j)
  BY DEF Fits
<1>0. Linked(chain) /\ Producer(j) \in Coros /\ Consumer(j) \in Coros
      /\ Producer(j) # Consumer(j) /\ Producer(i) # Consumer(j) /\ Producer(j) # Consumer(i)
      /\ (Producer(i) = Producer(j) => i = j) /\ (Consumer(i) = Consumer(j) => i = j)
  BY CoroFacts DEF Inv, IsTree
<1>1. ProducerFits(chain', pc'[Producer(j)], frames'[Producer(j)], call'[Producer(j)], tag'[j])
  <2>1. CASE Producer(j) = c
    BY <1>0, <2>1
  <2>2. CASE Producer(j) # c
    <3>1. ProducerFits(chain, pc[Producer(j)], frames[Producer(j)], call[Producer(j)], tag[j])
      BY DEF Inv, Fits
    <3>2. \A n \in DOMAIN frames[Producer(j)] : frames[Producer(j)][n].chain # h
      BY <1>0, <2>2
    <3>3. ProducerFits(chain', pc[Producer(j)], frames[Producer(j)], call[Producer(j)], tag[j])
      BY <1>0, <3>1, <3>2, ProducerKept
    <3>4. /\ pc'[Producer(j)] = pc[Producer(j)] /\ frames'[Producer(j)] = frames[Producer(j)]
          /\ call'[Producer(j)] = call[Producer(j)] /\ tag'[j] = tag[j]
      BY <1>0, <2>2 DEF Others
    <3> QED
      BY <3>3, <3>4, Zenon
  <2> QED
    BY <2>1, <2>2
<1>2. ConsumerFits(chain', pc'[Consumer(j)], frames'[Consumer(j)], call'[Consumer(j)], j)
  <2>1. CASE Consumer(j) = c
    BY <1>0, <2>1
  <2>2. CASE Consumer(j) # c
    <3>1. ConsumerFits(chain, pc[Consumer(j)], frames[Consumer(j)], call[Consumer(j)], j)
      BY DEF Inv, Fits
    <3>2. pc[Consumer(j)] = "finalize" => Stays(chain, chain', j)
      BY <1>0
    <3>3. pc[Consumer(j)] = "activate" => \A n \in DOMAIN frames[Consumer(j)] :
            Meta \notin frames[Consumer(j)][n].todo
      <4>1. Meta \notin DOMAIN chain
        BY RootedFacts DEF Inv, IsTree, Meta
      <4> QED
        BY <3>1, <4>1 DEF ConsumerFits, Awakening
    <3>4. pc[Consumer(j)] = "activate" => \A n \in DOMAIN frames[Consumer(j)] :
            frames[Consumer(j)][n].chain # h
              /\ (Alive(chain', frames[Consumer(j)][n].chain) => l \notin frames[Consumer(j)][n].todo)
      BY <1>0, <2>2, <3>3
    <3>5. ConsumerFits(chain', pc[Consumer(j)], frames[Consumer(j)], call[Consumer(j)], j)
      BY <1>0, <3>1, <3>2, <3>4, ConsumerKept
    <3>6. /\ pc'[Consumer(j)] = pc[Consumer(j)] /\ frames'[Consumer(j)] = frames[Consumer(j)]
          /\ call'[Consumer(j)] = call[Consumer(j)]
      BY <1>0, <2>2 DEF Others
    <3> QED
      BY <3>5, <3>6, Zenon
  <2> QED
    BY <2>1, <2>2
<1> QED
  BY <1>1, <1>2

(* A step of one coroutine leaves the other items in their places. *)
LEMMA PlacesKept ==
  ASSUME Inv, NEW c \in Coros, NEW i \in Items, c = Producer(i) \/ c = Consumer(i),
         Others(c), \A j \in Items : j # i \/ c = Consumer(i) => tag'[j] = tag[j],
         NEW h, NEW l, Eased(chain, chain', h, l),
         \A x : x # i => Stays(chain, chain', x),
         \A x \in Items : x # i /\ Ever(x)' => Ever(x) \/
           (\A p, k, m : At(chain', p, k, m, x) /\ Alive(chain', p) => k = 1 /\ m = 1 /\ On(chain', p, 1)),
         \A p, k, m : At(chain', p, k, m, i) =>
           /\ pc'[Producer(i)] \in {"reserved", "populated"}
           /\ pc'[Consumer(i)] \in {"get", "retained", "finalize"}
           /\ tag'[i] = chain'[p].tag
           /\ Alive(chain', p) /\ Ever(i)' => k = 1 /\ m = 1 /\ On(chain', p, 1)
  PROVE  Places'
<1> SUFFICES ASSUME NEW p, NEW k, NEW m, NEW x, At(chain', p, k, m, x), x # i
             PROVE  /\ pc'[Producer(x)] \in {"reserved", "populated"}
                    /\ pc'[Consumer(x)] \in {"get", "retained", "finalize"}
                    /\ tag'[x] = chain'[p].tag
                    /\ Alive(chain', p) /\ Ever(x)' => k = 1 /\ m = 1 /\ On(chain', p, 1)
  BY DEF Places
<1>1. PICK j, n : At(chain, p, j, n, x) /\ (j = 1 /\ n = 1 => k = 1 /\ m = 1)
  BY DEF Stays
<1>2. x \in Items /\ p \in DOMAIN chain
  BY <1>1, AtFacts DEF Inv, IsTree
<1>3. /\ pc[Producer(x)] \in {"reserved", "populated"}
      /\ pc[Consumer(x)] \in {"get", "retained", "finalize"}
      /\ tag[x] = chain[p].tag
      /\ Alive(chain, p) /\ Ever(x) => j = 1 /\ n = 1 /\ On(chain, p, 1)
  BY <1>1 DEF Inv, Places
<1>4. pc'[Producer(x)] = pc[Producer(x)] /\ pc'[Consumer(x)] = pc[Consumer(x)] /\ tag'[x] = tag[x]
  BY <1>2, CoroFacts DEF Others
<1>5. /\ chain'[p].tag = chain[p].tag /\ (Alive(chain', p) => Alive(chain, p))
      /\ Alive(chain', p) /\ On(chain, p, 1) => On(chain', p, 1)
  BY <1>2 DEF Eased
<1>6. Alive(chain', p) /\ Ever(x)' => k = 1 /\ m = 1 /\ On(chain', p, 1)
  BY <1>1, <1>2, <1>3, <1>5
<1> QED
  BY <1>3, <1>4, <1>5, <1>6

-----------------------------------------------------------------------------
(* Where an item or its reservation is are chains, and so are those above. *)
LEMMA ThruFacts ==
  ASSUME Types, Fits, IsTree(chain), NEW x \in Items
  PROVE  /\ \A q : Bound(x, q) => q \in Chains
         /\ \A q, k, m : At(chain, q, k, m, x) => Thru(x, q)
         /\ \A q : Bound(x, q) => Thru(x, q)
         /\ \A d : Thru(x, d) => d \in Chains
         /\ \A d, q : Thru(x, d) /\ q \in Line(chain, d) => Thru(x, q)
         /\ \A d, q, k : Thru(x, d) /\ Kid(chain, q, k, d) => Thru(x, q)
<1>1. Rooted(chain) /\ Linked(chain) /\ Chains = DOMAIN chain
  BY DEF IsTree, Chains
<1>2. ASSUME NEW q, Bound(x, q) PROVE q \in Chains
  <2>1. pc[Producer(x)] = "descend" /\ frames[Producer(x)] = <<Frame(q, {})>>
    BY <1>2 DEF Bound
  <2>2. Descending(chain, frames[Producer(x)], tag[x])
    BY <2>1 DEF Fits, ProducerFits
  <2>3. PICK p \in DOMAIN chain : frames[Producer(x)] = <<Frame(p, {})>>
    BY <2>2 DEF Descending
  <2>4. <<Frame(p, {})>>[1].chain = p /\ <<Frame(q, {})>>[1].chain = q
    BY DEF Frame
  <2> QED
    BY <1>1, <2>1, <2>3, <2>4
<1>3. \A q, k, m : At(chain, q, k, m, x) => q \in Chains
  BY <1>1 DEF At
<1>4. \A q \in Chains : /\ q \in Line(chain, q) /\ Line(chain, q) \subseteq Chains
                        /\ \A d \in Line(chain, q) : Line(chain, d) \subseteq Line(chain, q)
  BY <1>1, LineFacts
<1>5. \A d : Thru(x, d) => d \in Chains
  BY <1>2, <1>3, <1>4 DEF Thru
<1>6. \A d, q : Thru(x, d) /\ q \in Line(chain, d) => Thru(x, q)
  BY <1>2, <1>3, <1>4 DEF Thru
<1>7. ASSUME NEW d, NEW q, NEW k, Thru(x, d), Kid(chain, q, k, d) PROVE Thru(x, q)
  <2>1. d \in Chains /\ d # Root /\ Par(chain, d) = q
    BY <1>1, <1>7 DEF Linked
  <2>2. q \in Line(chain, d)
    BY <1>1, <1>4, <2>1, LineFacts DEF Closed
  <2> QED
    BY <1>6, <1>7, <2>2
<1> QED
  BY <1>2, <1>3, <1>4, <1>5, <1>6, <1>7 DEF Thru

(* What is taken away from the front leaves one item ahead of another. *)
LEMMA AheadKept ==
  ASSUME Types, Fits, IsTree(chain), NEW j \in Items, NEW i \in Items, Ahead(j, i),
         Slid(chain, chain'),
         \A q \in Chains : Line(chain', q) = Line(chain, q),
         \A x \in Items : \A q : Bound(x, q)' => Bound(x, q)
  PROVE  Ahead(j, i)'
<1>1. Rooted(chain)
  BY DEF IsTree
<1>2. \A x \in Items : \A q, k, m : At(chain', q, k, m, x) => \E l, n : At(chain, q, l, n, x)
  BY DEF Slid
<1>3. ASSUME NEW x \in Items, NEW d, Thru(x, d)' PROVE Thru(x, d)
  <2>1. PICK q : (Bound(x, q)' \/ \E k, m : At(chain', q, k, m, x)) /\ d \in Line(chain', q)
    BY <1>3 DEF Thru
  <2>2. Bound(x, q) \/ \E k, m : At(chain, q, k, m, x)
    BY <1>2, <2>1
  <2>3. q \in Chains
    BY <2>2, ThruFacts DEF At, Chains
  <2> QED
    BY <2>1, <2>2, <2>3 DEF Thru
<1>4. /\ \A p, k, l, m, n : At(chain, p, k, m, j) /\ At(chain, p, l, n, i) =>
           k < l \/ (k = l /\ m < n)
      /\ \A p, k, l, m, d : At(chain, p, k, m, j) /\ Kid(chain, p, l, d) /\ Thru(i, d) => k <= l
      /\ \A p, k, l, n, d : Kid(chain, p, k, d) /\ Thru(j, d) /\ At(chain, p, l, n, i) => k < l
      /\ \A p, k, l, d, e :
           Kid(chain, p, k, d) /\ Thru(j, d) /\ Kid(chain, p, l, e) /\ Thru(i, e) => k <= l
      /\ \A p : Bound(j, p) => ~Thru(i, p)
  BY DEF Ahead
<1>5. ASSUME NEW p, NEW k, NEW l, NEW m, NEW n, At(chain', p, k, m, j), At(chain', p, l, n, i)
      PROVE  k < l \/ (k = l /\ m < n)
  <2>1. PICK a \in Nat : \A h : \E b \in Nat : \A y, x : At(chain', p, h, y, x) =>
           h \in Nat /\ y \in Nat /\ At(chain, p, h + a, y + b, x)
    BY DEF Slid
  <2>2. PICK b \in Nat : \A y, x : At(chain', p, k, y, x) =>
           k \in Nat /\ y \in Nat /\ At(chain, p, k + a, y + b, x)
    BY <2>1
  <2>3. PICK c \in Nat : \A y, x : At(chain', p, l, y, x) =>
           l \in Nat /\ y \in Nat /\ At(chain, p, l + a, y + c, x)
    BY <2>1
  <2>4. k \in Nat /\ l \in Nat /\ m \in Nat /\ n \in Nat
    BY <1>5, <2>2, <2>3
  <2>5. CASE k = l
    <3>1. At(chain, p, k + a, m + b, j) /\ At(chain, p, k + a, n + b, i)
      BY <1>5, <2>2, <2>5
    <3>2. k + a < k + a \/ m + b < n + b
      BY <1>4, <3>1
    <3> QED
      BY <2>4, <2>5, <3>2
  <2>6. CASE k # l
    <3>1. At(chain, p, k + a, m + b, j) /\ At(chain, p, l + a, n + c, i)
      BY <1>5, <2>2, <2>3
    <3>2. k + a < l + a \/ k + a = l + a
      BY <1>4, <3>1
    <3> QED
      BY <2>4, <2>6, <3>2
  <2> QED
    BY <2>5, <2>6
<1>6. ASSUME NEW p, NEW k, NEW l, NEW m, NEW d, At(chain', p, k, m, j), Kid(chain', p, l, d), Thru(i, d)'
      PROVE  k <= l
  <2>1. PICK a \in Nat :
          /\ \A h, e : Kid(chain', p, h, e) => h \in Nat /\ Kid(chain, p, h + a, e)
          /\ \A h : \E b \in Nat : \A y, x : At(chain', p, h, y, x) =>
               h \in Nat /\ y \in Nat /\ At(chain, p, h + a, y + b, x)
    BY DEF Slid
  <2>2. PICK n : At(chain, p, k + a, n, j) /\ k \in Nat
    BY <1>6, <2>1
  <2>3. Kid(chain, p, l + a, d) /\ l \in Nat
    BY <1>6, <2>1
  <2>4. k + a <= l + a
    BY <1>3, <1>4, <1>6, <2>2, <2>3
  <2> QED
    BY <2>2, <2>3, <2>4
<1>7. ASSUME NEW p, NEW k, NEW l, NEW n, NEW d, Kid(chain', p, k, d), Thru(j, d)', At(chain', p, l, n, i)
      PROVE  k < l
  <2>1. PICK a \in Nat :
          /\ \A h, e : Kid(chain', p, h, e) => h \in Nat /\ Kid(chain, p, h + a, e)
          /\ \A h : \E b \in Nat : \A y, x : At(chain', p, h, y, x) =>
               h \in Nat /\ y \in Nat /\ At(chain, p, h + a, y + b, x)
    BY DEF Slid
  <2>2. PICK m : At(chain, p, l + a, m, i) /\ l \in Nat
    BY <1>7, <2>1
  <2>3. Kid(chain, p, k + a, d) /\ k \in Nat
    BY <1>7, <2>1
  <2>4. k + a < l + a
    BY <1>3, <1>4, <1>7, <2>2, <2>3
  <2> QED
    BY <2>2, <2>3, <2>4
<1>8. ASSUME NEW p, NEW k, NEW l, NEW d, NEW e,
             Kid(chain', p, k, d), Thru(j, d)', Kid(chain', p, l, e), Thru(i, e)'
      PROVE  k <= l
  <2>1. PICK a \in Nat :
          \A h, f : Kid(chain', p, h, f) => h \in Nat /\ Kid(chain, p, h + a, f)
    BY DEF Slid
  <2>2. Kid(chain, p, k + a, d) /\ Kid(chain, p, l + a, e) /\ k \in Nat /\ l \in Nat
    BY <1>8, <2>1
  <2>3. k + a <= l + a
    BY <1>3, <1>4, <1>8, <2>2
  <2> QED
    BY <2>2, <2>3
<1>9. ASSUME NEW p, Bound(j, p)' PROVE ~Thru(i, p)'
  BY <1>3, <1>4, <1>9
<1> QED
  BY <1>5, <1>6, <1>7, <1>8, <1>9 DEF Ahead

(* What is taken away from the front keeps the order. *)
LEMMA OrderKept ==
  ASSUME Types, Fits, Order, IsTree(chain), Slid(chain, chain'),
         Rooted(chain'), DOMAIN chain \subseteq DOMAIN chain',
         \A q \in DOMAIN chain : Par(chain', q) = Par(chain, q),
         UNCHANGED <<tag, before>>,
         \A x \in Items : \A q : Bound(x, q)' => Bound(x, q),
         \A x \in Items : pc[Producer(x)] \notin {"new", "rejected"} =>
                          pc'[Producer(x)] \notin {"new", "rejected"}
  PROVE  Order'
<1> SUFFICES ASSUME NEW i \in Items, NEW j \in before'[i]
             PROVE  /\ pc'[Producer(j)] \notin {"new", "rejected"} /\ j # i
                    /\ Related(tag'[j], tag'[i]) /\ Ahead(j, i)'
  BY DEF Order
<1>1. j \in before[i] /\ j \in Items
  BY DEF Types
<1>2. /\ pc[Producer(j)] \notin {"new", "rejected"} /\ j # i
      /\ Related(tag[j], tag[i]) /\ Ahead(j, i)
  BY <1>1 DEF Order
<1>3. \A q \in Chains : Line(chain', q) = Line(chain, q)
  BY LineKept DEF IsTree, Chains
<1>4. Ahead(j, i)'
  BY <1>1, <1>2, <1>3, AheadKept
<1> QED
  BY <1>1, <1>2, <1>4

-----------------------------------------------------------------------------
(* A prefix of a prefix; prefixes of one sequence; equal lengths.          *)
LEMMA PrefixFacts ==
  ASSUME NEW S, NEW r \in Seq(S), NEW s \in Seq(S), NEW t \in Seq(S)
  PROVE  /\ IsPrefix(r, r) /\ (IsPrefix(r, s) => Len(r) <= Len(s))
         /\ IsPrefix(r, s) /\ IsPrefix(s, t) => IsPrefix(r, t)
         /\ IsPrefix(r, t) /\ IsPrefix(s, t) /\ Len(r) <= Len(s) => IsPrefix(r, s)
         /\ IsPrefix(r, s) /\ Len(r) = Len(s) => r = s
         /\ <<>> \in Seq(S) /\ IsPrefix(<<>>, r)
<1>1. Len(r) \in Nat /\ Len(s) \in Nat /\ Len(t) \in Nat
  OBVIOUS
<1>2. /\ IsPrefix(r, s) <=> Len(r) <= Len(s) /\ \A k \in 1..Len(r) : r[k] = s[k]
      /\ IsPrefix(s, t) <=> Len(s) <= Len(t) /\ \A k \in 1..Len(s) : s[k] = t[k]
      /\ IsPrefix(r, t) <=> Len(r) <= Len(t) /\ \A k \in 1..Len(r) : r[k] = t[k]
      /\ IsPrefix(r, r) <=> Len(r) <= Len(r) /\ \A k \in 1..Len(r) : r[k] = r[k]
  BY PrefixIs
<1>3. Len(r) <= Len(s) => \A k \in 1..Len(r) : k \in 1..Len(s)
  BY <1>1
<1>4. ASSUME IsPrefix(r, s), Len(r) = Len(s) PROVE r = s
  <2>1. \A k \in 1..Len(r) : r[k] = s[k]
    BY <1>2, <1>4
  <2> QED
    BY <1>4, <2>1, SeqEqual
<1>5. IsPrefix(r, s) /\ IsPrefix(s, t) => IsPrefix(r, t)
  BY <1>1, <1>2, <1>3
<1>6. IsPrefix(r, t) /\ IsPrefix(s, t) /\ Len(r) <= Len(s) => IsPrefix(r, s)
  BY <1>1, <1>2, <1>3
<1>7. <<>> \in Seq(S) /\ IsPrefix(<<>>, r)
  <2> DEFINE o == <<>>
  <2>1. o \in Seq(S) /\ Len(o) = 0 /\ \A k : k \notin 1..Len(o)
    OBVIOUS
  <2> HIDE DEF o
  <2>2. IsPrefix(o, r)
    <3>1. Len(o) <= Len(r) /\ \A k \in 1..Len(o) : o[k] = r[k]
      BY <1>1, <2>1
    <3> QED
      BY <2>1, <3>1, PrefixIs
  <2> QED
    BY <2>1, <2>2 DEF o
<1> QED
  BY <1>1, <1>2, <1>4, <1>5, <1>6, <1>7

First(t, n) == SubSeq(t, 1, n)

(* The prefix of a tag that is one key longer. *)
LEMMA PrefixStep ==
  ASSUME NEW S, NEW s \in Seq(S), NEW t \in Seq(S), IsPrefix(s, t), s # t,
         NEW g, g = First(t, Len(s) + 1)
  PROVE  /\ Len(s) + 1 <= Len(t) /\ g \in Seq(S) /\ Len(g) = Len(s) + 1
         /\ IsPrefix(s, g) /\ IsPrefix(g, t)
         /\ \A r \in Seq(S) : IsPrefix(r, t) /\ Len(r) = Len(s) + 1 => r = g
<1>1. Len(s) \in Nat /\ Len(t) \in Nat /\ Len(s) <= Len(t)
  BY PrefixIs
<1>2. Len(s) # Len(t)
  BY PrefixFacts
<1>3. Len(s) + 1 <= Len(t) /\ 1 <= Len(s) + 1 /\ \A k \in 1..(Len(s) + 1) : t[k] \in S
  BY <1>1, <1>2
<1>4. /\ g \in Seq(S) /\ Len(g) = Len(s) + 1
      /\ \A k \in 1..(Len(s) + 1) : g[k] = t[k]
  <2>1. /\ SubSeq(t, 1, Len(s) + 1) \in Seq(S)
        /\ Len(SubSeq(t, 1, Len(s) + 1)) = IF 1 <= Len(s) + 1 THEN Len(s) + 1 - 1 + 1 ELSE 0
        /\ \A k \in 1..(Len(s) + 1 - 1 + 1) : SubSeq(t, 1, Len(s) + 1)[k] = t[1 + k - 1]
    BY <1>1, <1>3, SubSeqProperties
  <2>2. Len(s) + 1 - 1 + 1 = Len(s) + 1 /\ \A k \in 1..(Len(s) + 1) : 1 + k - 1 = k
    BY <1>1
  <2> QED
    BY <1>3, <2>1, <2>2 DEF First
<1>5. \A k \in 1..Len(s) : k \in 1..(Len(s) + 1) /\ s[k] = t[k]
  BY <1>1, PrefixIs
<1>6. IsPrefix(s, g)
  <2>1. g \in Seq(S) /\ Len(s) <= Len(g) /\ \A k \in 1..Len(s) : s[k] = g[k]
    BY <1>1, <1>4, <1>5
  <2> QED
    BY <2>1, PrefixIs
<1>7. IsPrefix(g, t)
  BY <1>1, <1>3, <1>4, PrefixIs
<1>8. ASSUME NEW r \in Seq(S), IsPrefix(r, t), Len(r) = Len(s) + 1 PROVE r = g
  <2>1. Len(r) <= Len(g)
    BY <1>1, <1>4, <1>8
  <2>2. IsPrefix(r, g)
    <3>1. g \in Seq(S) /\ IsPrefix(r, t) /\ IsPrefix(g, t) /\ Len(r) <= Len(g)
      BY <1>4, <1>7, <1>8, <2>1
    <3> QED
      BY <3>1, PrefixFacts
  <2>3. g \in Seq(S) /\ IsPrefix(r, g) /\ Len(r) = Len(g)
    BY <1>4, <1>8, <2>2
  <2> QED
    BY <2>3, PrefixFacts
<1> QED
  BY <1>3, <1>4, <1>6, <1>7, <1>8

(* Tags are sequences of keys. *)
LEMMA TagFacts ==
  /\ \A t \in Tags : t \in Seq(Keys)
  /\ \A s \in Tags \cup {<<>>} : s \in Seq(Keys)
<1>1. ASSUME NEW t \in Tags PROVE t \in Seq(Keys)
  <2>1. t \in Seq(ToSet(t))
    BY TagsAssumption
  <2>2. ToSet(t) \subseteq Keys
    BY DEF Keys
  <2>3. Len(t) \in Nat /\ DOMAIN t = 1..Len(t) /\ \A k \in 1..Len(t) : t[k] \in Keys
    BY <2>1, <2>2
  <2>4. t = [k \in 1..Len(t) |-> t[k]]
    BY <2>1
  <2> QED
    BY <2>1, <2>3
<1>2. <<>> \in Seq(Keys)
  OBVIOUS
<1> QED
  BY <1>1, <1>2

-----------------------------------------------------------------------------
(* nobody but c holds p *)
OnlyBy(c, p) == \A d \in Coros : d # c => \A n \in DOMAIN frames[d] : frames[d][n].chain # p

(* behind all items and children of p *)
Behind(p, K, M) ==
  /\ \A k, m, x : At(chain, p, k, m, x) => k < K \/ (k = K /\ m < M)
  /\ \A k, d : Kid(chain, p, k, d) => k < K

(* How the reservation of i for the tag g gets to p: it is a new one and p  *)
(* the root, or it is on its way down from the parent of p.                 *)
Comes(i, p, g) ==
  \/ /\ p = Root /\ pc[Producer(i)] = "new"
     /\ before' = [before EXCEPT ![i] = {j \in Items : Pending(j) /\ Related(tag[j], g)}]
  \/ /\ p # Root /\ Bound(i, Par(chain, p))
     /\ Kid(chain, Par(chain, p), Count(chain, Par(chain, p)), p)
     /\ g = tag[i] /\ before' = before

(* A reservation that gets to a chain keeps the order: it is last there, and *)
(* nothing that has to wait for it is below the chain it comes from.         *)
LEMMA OrderArrives ==
  ASSUME Inv, NEW i \in Items, NEW p \in Chains, OnlyBy(Producer(i), p),
         pc[Producer(i)] \in {"new", "descend"}, NEW g, Comes(i, p, g),
         Others(Producer(i)), pc'[Producer(i)] \notin {"new", "rejected"},
         tag'[i] = g, \A j \in Items : j # i => tag'[j] = tag[j],
         \A q : Bound(i, q)' => q = p,
         \A q \in Chains : Line(chain', q) = Line(chain, q),
         \A q, k, m, x : At(chain', q, k, m, x) =>
           At(chain, q, k, m, x) \/ (x = i /\ q = p /\ Behind(p, k, m)),
         \A q, k, d : Kid(chain', q, k, d) => Kid(chain, q, k, d) \/ d \notin Chains
  PROVE  Order'
<1>1. /\ Types /\ Fits /\ IsTree(chain) /\ Rooted(chain) /\ Linked(chain) /\ Chains = DOMAIN chain
      /\ before \in [Items -> SUBSET Items]
  BY DEF Inv, IsTree, Chains, Types
<1>2. \A q, k, m : ~At(chain, q, k, m, i)
  BY DEF Inv, Places
<1>3. \A x \in Items : x # i => pc'[Producer(x)] = pc[Producer(x)]
                             /\ frames'[Producer(x)] = frames[Producer(x)]
  BY CoroFacts DEF Others
(* the others are where they were *)
<1>4. \A x \in Items : x # i => \A q : Bound(x, q)' <=> Bound(x, q)
  BY <1>3 DEF Bound
<1>5. \A x \in Items : x # i => \A q, k, m : At(chain', q, k, m, x) => At(chain, q, k, m, x)
  OBVIOUS
<1>6. ASSUME NEW x \in Items, x # i, NEW d, Thru(x, d)' PROVE Thru(x, d)
  <2>1. PICK q : (Bound(x, q)' \/ \E k, m : At(chain', q, k, m, x)) /\ d \in Line(chain', q)
    BY <1>6 DEF Thru
  <2>2. Bound(x, q) \/ \E k, m : At(chain, q, k, m, x)
    BY <1>4, <1>5, <1>6, <2>1
  <2>3. q \in Chains
    BY <1>1, <2>2, ThruFacts DEF At
  <2> QED
    BY <2>1, <2>2, <2>3 DEF Thru
<1>7. ASSUME NEW x \in Items, x # i, NEW d, Thru(x, d)', NEW q, NEW k, Kid(chain', q, k, d)
      PROVE  Thru(x, d) /\ Kid(chain, q, k, d) /\ Thru(x, q)
  <2>1. Thru(x, d)
    BY <1>6, <1>7
  <2>2. d \in Chains
    BY <1>1, <2>1, ThruFacts
  <2>3. Kid(chain, q, k, d)
    BY <1>7, <2>2
  <2> QED
    BY <1>1, <2>1, <2>3, ThruFacts
(* and i is at p *)
<1>8. ASSUME NEW d, Thru(i, d)' PROVE d \in Line(chain, p) /\ d \in Chains
  <2>1. PICK q : (Bound(i, q)' \/ \E k, m : At(chain', q, k, m, i)) /\ d \in Line(chain', q)
    BY <1>8 DEF Thru
  <2>2. q = p
    BY <1>2, <2>1
  <2> QED
    BY <1>1, <2>1, <2>2, LineFacts
<1>9. \A d \in Line(chain, p) : d = p \/ (p # Root /\ Thru(i, d))
  <2>1. CASE p = Root
    BY <1>1, <2>1, LineFacts
  <2>2. CASE p # Root
    <3>1. Bound(i, Par(chain, p)) /\ Line(chain, p) = {p} \cup Line(chain, Par(chain, p))
      BY <1>1, <2>2, LineFacts DEF Comes
    <3> QED
      BY <2>2, <3>1 DEF Thru
  <2> QED
    BY <2>1, <2>2
<1>10. \A k : Kid(chain, Par(chain, p), k, p) => p # Root /\ k = Count(chain, Par(chain, p))
  <2>1. \A k, q : Kid(chain, q, k, p) => p # Root
    BY <1>1 DEF Linked
  <2>2. p # Root => Kid(chain, Par(chain, p), Count(chain, Par(chain, p)), p)
    BY DEF Comes
  <2> QED
    BY <1>1, <2>1, <2>2 DEF Linked
<1>11. \A q, k : Kid(chain, q, k, p) => q = Par(chain, p)
  BY <1>1 DEF Linked
(* nothing that has to wait for i is in the parent of p or below *)
<1>12. ASSUME NEW x \in Items, i \in before[x]
       PROVE  p # Root /\ ~Thru(x, Par(chain, p)) /\ ~Thru(x, p) /\ before' = before
  <2>1. pc[Producer(i)] # "new" /\ Ahead(i, x)
    BY <1>12 DEF Inv, Order
  <2>2. p # Root /\ Bound(i, Par(chain, p)) /\ before' = before
    BY <2>1 DEF Comes
  <2>3. ~Thru(x, Par(chain, p))
    BY <2>1, <2>2 DEF Ahead
  <2>4. Par(chain, p) \in Line(chain, p)
    BY <1>1, <2>2, LineFacts DEF Closed
  <2> QED
    BY <1>1, <2>2, <2>3, <2>4, ThruFacts
<1>13. ASSUME NEW j \in Items, j # i, j \in before'[i]
       PROVE  /\ pc[Producer(j)] \notin {"new", "rejected"} /\ Related(tag[j], g)
              /\ p # Root => Ahead(j, i)
  <2>1. CASE p = Root /\ before' = [before EXCEPT ![i] = {x \in Items : Pending(x) /\ Related(tag[x], g)}]
    <3>1. before'[i] = {x \in Items : Pending(x) /\ Related(tag[x], g)}
      BY <1>1, <2>1
    <3> QED
      BY <1>13, <2>1, <3>1 DEF Pending
  <2>2. CASE g = tag[i] /\ before' = before
    BY <1>13, <2>2 DEF Inv, Order
  <2> QED
    BY <2>1, <2>2 DEF Comes
<1>14. \A x \in Items : x # i => before'[x] = before[x]
  BY <1>1 DEF Comes
<1>15. i \notin before'[i]
  <2>1. ~Pending(i) \/ pc[Producer(i)] # "new"
    BY DEF Pending
  <2>2. CASE p = Root /\ pc[Producer(i)] = "new"
             /\ before' = [before EXCEPT ![i] = {x \in Items : Pending(x) /\ Related(tag[x], g)}]
    BY <1>1, <2>1, <2>2
  <2>3. CASE before' = before
    BY <2>3 DEF Inv, Order
  <2> QED
    BY <2>2, <2>3 DEF Comes
<1>16. before' \in [Items -> SUBSET Items]
  BY <1>1 DEF Comes
<1> SUFFICES ASSUME NEW y \in Items, NEW x \in before'[y]
             PROVE  /\ pc'[Producer(x)] \notin {"new", "rejected"} /\ x # y
                    /\ Related(tag'[x], tag'[y]) /\ Ahead(x, y)'
  BY DEF Order
<1>17. x \in Items
  BY <1>16
<1>18. CASE y = i
  <2>1. x # i /\ x \in before'[i]
    BY <1>15, <1>18
  <2>2. /\ pc[Producer(x)] \notin {"new", "rejected"} /\ Related(tag[x], g)
        /\ p # Root => Ahead(x, i)
    BY <1>13, <1>17, <2>1
  <2>3. ASSUME NEW q, NEW k, NEW l, NEW m, NEW n, At(chain', q, k, m, x), At(chain', q, l, n, i)
        PROVE  k < l \/ (k = l /\ m < n)
    BY <1>2, <1>5, <1>17, <2>1, <2>3 DEF Behind
  <2>4. ASSUME NEW q, NEW k, NEW l, NEW d, Kid(chain', q, l, d), Thru(i, d)',
               k \in Nat, k <= Count(chain, q),
               p # Root /\ Kid(chain, q, l, d) /\ Thru(i, d) => k <= l
        PROVE  k <= l
    <3>1. d \in Line(chain, p) /\ d \in Chains
      BY <1>8, <2>4
    <3>2. Kid(chain, q, l, d)
      BY <2>4, <3>1
    <3>3. CASE d = p
      <4>1. l = Count(chain, q)
        BY <1>10, <1>11, <3>2, <3>3
      <4> QED
        BY <2>4, <4>1
    <3> QED
      BY <1>9, <2>4, <3>1, <3>2, <3>3
  <2>5. ASSUME NEW q, NEW k, NEW l, NEW m, NEW d, At(chain', q, k, m, x), Kid(chain', q, l, d), Thru(i, d)'
        PROVE  k <= l
    <3>1. At(chain, q, k, m, x)
      BY <1>5, <1>17, <2>1, <2>5
    <3>2. k \in Nat /\ k <= Count(chain, q)
      BY <1>1, <3>1, AtFacts
    <3> QED
      BY <2>2, <2>4, <2>5, <3>1, <3>2 DEF Ahead
  <2>6. ASSUME NEW q, NEW k, NEW l, NEW n, NEW d, Kid(chain', q, k, d), Thru(x, d)', At(chain', q, l, n, i)
        PROVE  k < l
    <3>1. Kid(chain, q, k, d)
      BY <1>7, <1>17, <2>1, <2>6
    <3> QED
      BY <1>2, <2>6, <3>1 DEF Behind
  <2>7. ASSUME NEW q, NEW k, NEW l, NEW d, NEW e,
               Kid(chain', q, k, d), Thru(x, d)', Kid(chain', q, l, e), Thru(i, e)'
        PROVE  k <= l
    <3>1. Kid(chain, q, k, d) /\ Thru(x, d)
      BY <1>7, <1>17, <2>1, <2>7
    <3>2. k \in Nat /\ k <= Count(chain, q)
      BY <1>1, <3>1, AtFacts
    <3> QED
      BY <2>2, <2>4, <2>7, <3>1, <3>2 DEF Ahead
  <2>8. ASSUME NEW q, Bound(x, q)', Thru(i, q)' PROVE FALSE
    <3>1. Bound(x, q)
      BY <1>4, <1>17, <2>1, <2>8
    <3>2. q # p
      <4>1. frames[Producer(x)] = <<Frame(q, {})>> /\ Producer(x) \in Coros /\ Producer(x) # Producer(i)
        BY <1>17, <2>1, <3>1, CoroFacts DEF Bound
      <4>2. 1 \in DOMAIN frames[Producer(x)] /\ frames[Producer(x)][1].chain = q
        BY <4>1 DEF Frame
      <4> QED
        BY <4>1, <4>2 DEF OnlyBy
    <3> QED
      BY <1>8, <1>9, <2>2, <2>8, <3>1, <3>2 DEF Ahead
  <2>9. Ahead(x, i)'
    BY <2>3, <2>5, <2>6, <2>7, <2>8 DEF Ahead
  <2> QED
    BY <1>3, <1>17, <1>18, <2>1, <2>2, <2>9
<1>19. CASE y # i /\ x = i
  <2>1. i \in before[y] /\ pc[Producer(i)] \notin {"new", "rejected"} /\ Ahead(i, y) /\ Related(tag[i], tag[y])
    BY <1>14, <1>19 DEF Inv, Order
  <2>2. p # Root /\ ~Thru(y, Par(chain, p)) /\ ~Thru(y, p) /\ before' = before
    BY <1>12, <2>1
  <2>3. g = tag[i]
    BY <2>1, <2>2 DEF Comes
  <2>4. \A q, k, m : At(chain', q, k, m, y) => At(chain, q, k, m, y) /\ Thru(y, q)
    BY <1>1, <1>5, <1>19, ThruFacts
  <2>5. \A q, k, m : At(chain', q, k, m, i) => q = p
    BY <1>2
  <2>6. ASSUME NEW q, NEW k, NEW d, Kid(chain', q, k, d), Thru(i, d)', Thru(y, q)
        PROVE  Kid(chain, q, k, d) /\ Thru(i, d)
    <3>1. d \in Line(chain, p) /\ d \in Chains
      BY <1>8, <2>6
    <3>2. Kid(chain, q, k, d)
      BY <2>6, <3>1
    <3>3. d # p
      BY <1>11, <2>2, <2>6, <3>2
    <3> QED
      BY <1>9, <3>1, <3>2, <3>3
  <2>7. \A q, k, m, l, n : At(chain', q, k, m, i) /\ At(chain', q, l, n, y) => k < l \/ (k = l /\ m < n)
    BY <2>2, <2>4, <2>5
  <2>8. \A q, k, m, l, d : At(chain', q, k, m, i) /\ Kid(chain', q, l, d) /\ Thru(y, d)' => k <= l
    BY <1>7, <1>19, <2>2, <2>5
  <2>9. \A q, k, l, n, d : Kid(chain', q, k, d) /\ Thru(i, d)' /\ At(chain', q, l, n, y) => k < l
    BY <2>1, <2>4, <2>6 DEF Ahead
  <2>10. \A q, k, l, d, e :
           Kid(chain', q, k, d) /\ Thru(i, d)' /\ Kid(chain', q, l, e) /\ Thru(y, e)' => k <= l
    BY <1>7, <1>19, <2>1, <2>6 DEF Ahead
  <2>11. \A q : Bound(i, q)' => ~Thru(y, q)'
    BY <1>6, <1>19, <2>2
  <2>12. Ahead(i, y)'
    BY <2>7, <2>8, <2>9, <2>10, <2>11 DEF Ahead
  <2> QED
    BY <1>19, <2>1, <2>3, <2>12
<1>20. CASE y # i /\ x # i
  <2>1. /\ pc[Producer(x)] \notin {"new", "rejected"} /\ x # y
        /\ Related(tag[x], tag[y]) /\ Ahead(x, y)
    BY <1>14, <1>20 DEF Inv, Order
  <2>2. \A q, k, m, l, n : At(chain', q, k, m, x) /\ At(chain', q, l, n, y) => k < l \/ (k = l /\ m < n)
    BY <1>5, <1>17, <1>20, <2>1 DEF Ahead
  <2>3. \A q, k, m, l, d : At(chain', q, k, m, x) /\ Kid(chain', q, l, d) /\ Thru(y, d)' => k <= l
    BY <1>5, <1>7, <1>17, <1>20, <2>1 DEF Ahead
  <2>4. \A q, k, l, n, d : Kid(chain', q, k, d) /\ Thru(x, d)' /\ At(chain', q, l, n, y) => k < l
    BY <1>5, <1>7, <1>17, <1>20, <2>1 DEF Ahead
  <2>5. \A q, k, l, d, e :
          Kid(chain', q, k, d) /\ Thru(x, d)' /\ Kid(chain', q, l, e) /\ Thru(y, e)' => k <= l
    BY <1>7, <1>17, <1>20, <2>1 DEF Ahead
  <2>6. \A q : Bound(x, q)' => ~Thru(y, q)'
    BY <1>4, <1>6, <1>17, <1>20, <2>1 DEF Ahead
  <2>7. Ahead(x, y)'
    BY <2>2, <2>3, <2>4, <2>5, <2>6 DEF Ahead
  <2> QED
    BY <1>3, <1>17, <1>20, <2>1, <2>7
<1> QED
  BY <1>18, <1>19, <1>20

-----------------------------------------------------------------------------
(* Nobody holds a free mutex. *)
LEMMA FreeFacts ==
  ASSUME NEW p, Free(p)
  PROVE  \A c \in Coros : \A n \in DOMAIN frames[c] : frames[c][n].chain # p
BY DEF Free, Holding

(* the item i is the M-th of segment K of p now *)
Joined(i, p, K, M) ==
  /\ Sown(chain, chain', p, i, K, M)
  /\ \A q, k, m : ~At(chain, q, k, m, i)
  /\ filled' \in {filled, filled \cup {i}} /\ i \notin filled
  /\ \E S \in SUBSET {i} : /\ Put(S)
                           /\ i \in S <=> i \in filled' /\ K = Count(chain, p) /\ M = 1
                                            /\ On(chain, p, K)
  /\ Others(Producer(i)) /\ call'[Producer(i)] = call[Producer(i)]
  /\ pc'[Producer(i)] = IF i \in filled' THEN "populated" ELSE "reserved"
  /\ frames'[Producer(i)] = <<>>
  /\ UNCHANGED <<interrupted, stopped>>

(* the coroutine of i holds p, on its way to a child *)
Passed(i, p, g) ==
  /\ \/ Touched(chain, chain', p)
     \/ Grown(chain, chain', p, Len(chain) + 1, g)
          /\ \A d : Kid(chain, p, Count(chain, p), d) => chain[d].tag # g
  /\ \E d : Kid(chain', p, Count(chain', p), d) /\ chain'[d].tag = g
  /\ Others(Producer(i)) /\ call'[Producer(i)] = call[Producer(i)]
  /\ pc'[Producer(i)] = "descend"
  /\ frames'[Producer(i)] = <<Frame(p, {})>>
  /\ UNCHANGED <<filled, ready, interrupted, stopped>>

(* An item before it is in the tree. *)
LEMMA NewFacts ==
  ASSUME Inv, NEW i \in Items, pc[Producer(i)] \in {"new", "descend"}
  PROVE  /\ \A q, k, m : ~At(chain, q, k, m, i)
         /\ i \notin filled /\ ~Ever(i) /\ pc[Consumer(i)] = "get" /\ ready[i] = 0
         /\ call[Producer(i)] = NoCall
<1>1. \A q, k, m : ~At(chain, q, k, m, i)
  BY DEF Inv, Places
<1>2. i \notin filled /\ ~Ever(i)
  BY DEF Inv, Tokens
<1>3. pc[Consumer(i)] = "get" /\ ready[i] = 0
  BY <1>2 DEF Ever, Inv, Types
<1>4. call[Producer(i)] = NoCall
  BY DEF Inv, Fits, ProducerFits
<1> QED
  BY <1>1, <1>2, <1>3, <1>4

(* Where the item of an add_sibling ends up, and what else changes. *)
LEMMA JoinFacts ==
  ASSUME Inv, NEW i \in Items, NEW p \in Chains, Alive(chain, p),
         pc[Producer(i)] \in {"new", "descend"},
         AddSibling(i, p), UNCHANGED <<call, interrupted, stopped>>
  PROVE  \E K, M \in Nat : Joined(i, p, K, M)
<1>1. Rooted(chain) /\ p \in DOMAIN chain /\ Count(chain, p) > 0 /\ DOMAIN pc = Coros
      /\ frames \in [Coros -> Seq(FrameType)] /\ call \in [Coros -> CallType]
      /\ Producer(i) \in Coros
  <2>1. Rooted(chain) /\ p \in DOMAIN chain
    BY DEF Inv, IsTree, Chains
  <2>2. chain[p].segments # <<>>
    BY <2>1, AliveFacts
  <2>3. Count(chain, p) > 0
    BY <2>1, <2>2, RootedFacts
  <2> QED
    BY <2>1, <2>3, CoroFacts DEF Inv, Types
<1>2. PICK K \in Nat, M \in Nat :
        /\ Sown(chain, WithSibling(p, i), p, i, K, M)
        /\ FirstIn(p) <=> K = Count(chain, p) /\ M = 1 /\ On(chain, p, K)
  BY <1>1, SownFacts
<1>3. PICK valued \in BOOLEAN :
        /\ chain' = WithSibling(p, i)
        /\ filled' = IF valued THEN filled \cup {i} ELSE filled
        /\ Put(IF valued /\ FirstIn(p) THEN {i} ELSE {})
        /\ pc' = [pc EXCEPT ![Producer(i)] = IF valued THEN "populated" ELSE "reserved"]
        /\ frames' = [frames EXCEPT ![Producer(i)] = <<>>]
  BY DEF AddSibling
<1>4. /\ \A q, k, m : ~At(chain, q, k, m, i)
      /\ i \notin filled
  BY NewFacts
<1>5. i \in filled' <=> valued
  BY <1>3, <1>4
<1>6. /\ Others(Producer(i))
      /\ pc'[Producer(i)] = IF i \in filled' THEN "populated" ELSE "reserved"
      /\ frames'[Producer(i)] = <<>> /\ call'[Producer(i)] = call[Producer(i)]
  <2>1. <<>> \in Seq(FrameType) /\ call' = call
    OBVIOUS
  <2>2. frames' \in [Coros -> Seq(FrameType)] /\ frames'[Producer(i)] = <<>>
        /\ \A d \in Coros : d # Producer(i) => frames'[d] = frames[d]
    BY <1>1, <1>3, <2>1
  <2>3. DOMAIN pc' = Coros
        /\ pc'[Producer(i)] = (IF valued THEN "populated" ELSE "reserved")
        /\ \A d \in Coros : d # Producer(i) => pc'[d] = pc[d]
    BY <1>1, <1>3
  <2>4. pc'[Producer(i)] = IF i \in filled' THEN "populated" ELSE "reserved"
    <3>1. CASE valued
      BY <1>5, <2>3, <3>1
    <3>2. CASE ~valued
      BY <1>5, <2>3, <3>2
    <3> QED
      BY <3>1, <3>2
  <2>5. Others(Producer(i))
    BY <1>1, <2>1, <2>2, <2>3 DEF Others
  <2> QED
    BY <2>1, <2>2, <2>4, <2>5
<1>7. \E S \in SUBSET {i} : Put(S) /\
        (i \in S <=> i \in filled' /\ K = Count(chain, p) /\ M = 1 /\ On(chain, p, K))
  <2> DEFINE S == IF valued /\ FirstIn(p) THEN {i} ELSE {}
  <2>1. Put(S)
    BY <1>3
  <2>2. S \in SUBSET {i} /\ (i \in S <=> valued /\ FirstIn(p))
    OBVIOUS
  <2> HIDE DEF S
  <2> QED
    BY <1>2, <1>5, <2>1, <2>2
<1>8. filled' \in {filled, filled \cup {i}}
  BY <1>3
<1>9. Sown(chain, chain', p, i, K, M)
  BY <1>2, <1>3
<1>10. UNCHANGED <<interrupted, stopped>>
  OBVIOUS
<1>11. Joined(i, p, K, M)
  BY <1>4, <1>6, <1>7, <1>8, <1>9, <1>10 DEF Joined
<1> QED
  BY <1>11

(* What a reservation does in a chain it passes through. *)
LEMMA PassFacts ==
  ASSUME Inv, NEW i \in Items, NEW p \in Chains, Alive(chain, p),
         pc[Producer(i)] \in {"new", "descend"},
         NEW g \in Seq(Keys),
         EnterChild(i, p, g), UNCHANGED <<call, interrupted, stopped>>
  PROVE  Passed(i, p, g)
<1>1. Rooted(chain) /\ p \in DOMAIN chain /\ Count(chain, p) > 0 /\ DOMAIN pc = Coros
      /\ frames \in [Coros -> Seq(FrameType)] /\ call \in [Coros -> CallType]
      /\ Producer(i) \in Coros /\ Linked(chain) /\ Count(chain, p) \in 1..Count(chain, p)
  <2>1. Rooted(chain) /\ p \in DOMAIN chain
    BY DEF Inv, IsTree, Chains
  <2>2. chain[p].segments # <<>>
    BY <2>1, AliveFacts
  <2>3. Count(chain, p) > 0 /\ Count(chain, p) \in Nat
    BY <2>1, <2>2, RootedFacts
  <2> QED
    BY <2>1, <2>3, CoroFacts DEF Inv, Types, IsTree
<1> DEFINE F == Find(BackOf(p), g)
<1>2. /\ F = {d \in Chi(chain, p, Count(chain, p)) : chain[d].tag = g}
      /\ F # {} => Touched(chain, WithChild(p, g), p)
      /\ F = {} => Grown(chain, WithChild(p, g), p, Len(chain) + 1, g)
  BY <1>1, ChildFacts
<1>3. \A d : d \in F <=> Kid(chain, p, Count(chain, p), d) /\ chain[d].tag = g
  BY <1>1, <1>2 DEF Kid
<1>4. chain' = WithChild(p, g)
      /\ pc' = [pc EXCEPT ![Producer(i)] = "descend"]
      /\ frames' = [frames EXCEPT ![Producer(i)] = <<Frame(p, {})>>]
      /\ UNCHANGED <<filled, ready>>
  BY DEF EnterChild
<1> HIDE DEF F
<1>7. Others(Producer(i)) /\ pc'[Producer(i)] = "descend"
      /\ frames'[Producer(i)] = <<Frame(p, {})>> /\ call'[Producer(i)] = call[Producer(i)]
  <2>1. call' = call
    OBVIOUS
  <2>2. <<Frame(p, {})>> \in Seq(FrameType)
    <3>1. p \in Nat
      BY <1>1, RootedFacts
    <3> QED
      BY <3>1 DEF Frame, FrameType
  <2> DEFINE fs == <<Frame(p, {})>>
  <2> HIDE DEF fs
  <2>3. frames' \in [Coros -> Seq(FrameType)] /\ frames'[Producer(i)] = fs
        /\ \A d \in Coros : d # Producer(i) => frames'[d] = frames[d]
    BY <1>1, <1>4, <2>2 DEF fs
  <2>4. DOMAIN pc' = Coros /\ pc'[Producer(i)] = "descend"
        /\ \A d \in Coros : d # Producer(i) => pc'[d] = pc[d]
    BY <1>1, <1>4
  <2> QED
    BY <1>1, <2>1, <2>3, <2>4 DEF Others, fs
<1>5. CASE F # {}
  <2>1. Touched(chain, chain', p)
    BY <1>2, <1>4, <1>5
  <2>2. PICK d : Kid(chain, p, Count(chain, p), d) /\ chain[d].tag = g
    BY <1>3, <1>5
  <2>3. d \in DOMAIN chain
    BY <1>1, <2>2 DEF Linked
  <2>4. Kid(chain', p, Count(chain', p), d) /\ chain'[d].tag = g
    BY <1>1, <2>1, <2>2, <2>3 DEF Touched, Same
  <2> QED
    BY <1>4, <1>7, <2>1, <2>4 DEF Passed
<1>6. CASE F = {}
  <2>1. Grown(chain, chain', p, Len(chain) + 1, g)
    BY <1>2, <1>4, <1>6
  <2>2. \A d : Kid(chain, p, Count(chain, p), d) => chain[d].tag # g
    BY <1>3, <1>6
  <2>3. Kid(chain', p, Count(chain', p), Len(chain) + 1) /\ chain'[Len(chain) + 1].tag = g
    BY <1>1, <2>1 DEF Grown
  <2> QED
    BY <1>4, <1>7, <2>1, <2>2, <2>3 DEF Passed
<1> QED
  BY <1>5, <1>6

-----------------------------------------------------------------------------
(* A tree an item has joined is a tree, and the others are eased. *)
LEMMA JoinTree ==
  ASSUME Inv, NEW i \in Items, NEW p \in Chains, Alive(chain, p),
         NEW K, NEW M, Joined(i, p, K, M)
  PROVE  /\ IsTree(chain') /\ \A q \in Chains : Alive(chain', q) <=> Alive(chain, q)
         /\ Eased(chain, chain', p, Meta)
         /\ \A x : x # i => Stays(chain, chain', x)
<1>1. Rooted(chain) /\ p \in DOMAIN chain /\ Chains = DOMAIN chain /\ IsTree(chain)
  BY DEF Inv, IsTree, Chains
<1>2. Count(chain, p) > 0
  BY <1>1, AliveFacts, RootedFacts
<1>3. Sown(chain, chain', p, i, K, M) /\ \A q, k, m : ~At(chain, q, k, m, i)
  BY DEF Joined
<1>4. IsTree(chain') /\ \A q \in Chains : Alive(chain', q) <=> Alive(chain, q)
  BY <1>1, <1>2, <1>3, SownTree
<1>5. Eased(chain, chain', p, Meta) /\ \A x : x # i => Stays(chain, chain', x)
  BY <1>1, <1>2, <1>3, EasedSown
<1> QED
  BY <1>4, <1>5

(* The invariant is kept when an item joins its chain. *)
LEMMA JoinInv ==
  ASSUME Inv, NEW i \in Items, NEW p \in Chains, Alive(chain, p), OnlyBy(Producer(i), p),
         pc[Producer(i)] \in {"new", "descend"},
         NEW K, NEW M, Joined(i, p, K, M),
         tag' \in [Items -> Tags \cup {<<>>}], tag'[i] = chain[p].tag,
         \A j \in Items : j # i => tag'[j] = tag[j],
         before' \in [Items -> SUBSET Items], Comes(i, p, chain[p].tag)
  PROVE  Inv'
<1> DEFINE c == Producer(i)
<1>0. /\ IsTree(chain') /\ \A q \in Chains : Alive(chain', q) <=> Alive(chain, q)
      /\ Eased(chain, chain', p, Meta)
      /\ \A x : x # i => Stays(chain, chain', x)
  BY JoinTree
<1>1. /\ \A q, k, m : ~At(chain, q, k, m, i)
      /\ i \notin filled /\ ~Ever(i) /\ pc[Consumer(i)] = "get" /\ ready[i] = 0
      /\ call[Producer(i)] = NoCall
  BY NewFacts
<1>2. /\ c \in Coros /\ Consumer(i) \in Coros
      /\ \A j \in Items : /\ Producer(j) \in Coros /\ Consumer(j) \in Coros
                          /\ Consumer(j) # c /\ (j # i => Producer(j) # c)
  BY CoroFacts
<1>3. /\ Others(c) /\ call'[c] = call[c] /\ frames'[c] = <<>>
      /\ pc'[c] = IF i \in filled' THEN "populated" ELSE "reserved"
      /\ filled' \in {filled, filled \cup {i}}
      /\ UNCHANGED <<interrupted, stopped>>
  BY DEF Joined
<1>4. PICK S \in SUBSET {i} : Put(S) /\
        (i \in S <=> i \in filled' /\ K = Count(chain, p) /\ M = 1 /\ On(chain, p, K))
  BY DEF Joined
<1>5. ready' \in [Items -> Nat]
      /\ \A j \in Items : ready'[j] = IF j \in S /\ ~stopped THEN ready[j] + 1 ELSE ready[j]
  BY <1>4, PutFacts DEF Inv, Types
<1>6. \A j \in Items : /\ j # i => pc'[Producer(j)] = pc[Producer(j)]
                       /\ pc'[Consumer(j)] = pc[Consumer(j)]
                       /\ j # i => ready'[j] = ready[j] /\ (j \in filled' <=> j \in filled)
  BY <1>2, <1>3, <1>4, <1>5 DEF Others
<1>7. ready'[i] \in 0..1 /\ (ready'[i] > 0 => i \in S)
  BY <1>1, <1>5
<1>8. Types'
  <2>1. DOMAIN pc' = Coros
    BY <1>3 DEF Others
  <2>2. \A j \in Items : pc'[Producer(j)] \in Label("produce") /\ pc'[Consumer(j)] \in Label("consume")
    <3>1. \A j \in Items : pc[Producer(j)] \in Label("produce") /\ pc[Consumer(j)] \in Label("consume")
      BY DEF Inv, Types
    <3>2. pc'[c] \in Label("produce")
      BY <1>3 DEF Label
    <3> QED
      BY <1>6, <3>1, <3>2
  <2>3. frames' \in [Coros -> Seq(FrameType)] /\ call' \in [Coros -> CallType]
    BY <1>3 DEF Others
  <2> QED
    BY <1>3, <1>5, <2>1, <2>2, <2>3 DEF Inv, Types
<1>9. Tokens'
  <2> SUFFICES ASSUME NEW j \in Items
               PROVE  /\ ready'[j] <= 1 /\ (pc'[Consumer(j)] # "get" => ready'[j] = 0)
                      /\ Ever(j)' => pc'[Producer(j)] = "populated"
                      /\ j \in filled' <=> pc'[Producer(j)] = "populated"
    BY DEF Tokens
  <2>1. CASE j # i
    <3>1. /\ ready[j] <= 1 /\ (pc[Consumer(j)] # "get" => ready[j] = 0)
          /\ Ever(j) => pc[Producer(j)] = "populated"
          /\ j \in filled <=> pc[Producer(j)] = "populated"
      BY DEF Inv, Tokens
    <3> QED
      BY <1>6, <2>1, <3>1 DEF Ever
  <2>2. CASE j = i
    BY <1>1, <1>3, <1>4, <1>6, <1>7, <2>2 DEF Ever
  <2> QED
    BY <2>1, <2>2
<1>10. Apart'
  <2>1. \A d \in Coros : d # c => frames'[d] = frames[d]
    BY <1>3 DEF Others
  <2>2. DOMAIN frames'[c] = {}
    BY <1>3
  <2> QED
    BY <2>1, <2>2 DEF Inv, Apart
<1>11. Fits'
  <2>1. ProducerFits(chain', pc'[c], frames'[c], call'[c], tag'[i])
    BY <1>1, <1>3 DEF ProducerFits
  <2>2. c # Consumer(i)
    BY <1>2
  <2> QED
    BY <1>0, <1>1, <1>2, <1>3, <2>1, <2>2, FitsKept DEF OnlyBy
<1>12. Places'
  <2>1. \A x \in Items : x # i /\ Ever(x)' => Ever(x)
    BY <1>6 DEF Ever
  <2>2. ASSUME NEW q, NEW k, NEW m, At(chain', q, k, m, i)
        PROVE  /\ pc'[Producer(i)] \in {"reserved", "populated"}
               /\ pc'[Consumer(i)] \in {"get", "retained", "finalize"}
               /\ tag'[i] = chain'[q].tag
               /\ Alive(chain', q) /\ Ever(i)' => k = 1 /\ m = 1 /\ On(chain', q, 1)
    <3>1. q = p /\ k = K /\ m = M
      BY <1>1, <2>2 DEF Joined, Sown
    <3>2. pc'[Consumer(i)] = "get"
      BY <1>1, <1>6
    <3>3. tag'[i] = chain'[p].tag
      BY <1>0 DEF Eased, Chains
    <3>4. ASSUME Ever(i)' PROVE k = 1 /\ m = 1 /\ On(chain', q, 1)
      <4>1. i \in S
        BY <1>7, <3>2, <3>4 DEF Ever
      <4>2. K = Count(chain, p) /\ M = 1 /\ On(chain, p, K)
        BY <1>4, <4>1
      <4>3. K = 1
        BY <4>2 DEF Inv, IsTree, Actives
      <4>4. On(chain', p, 1)
        BY <4>2, <4>3 DEF Joined, Sown
      <4> QED
        BY <3>1, <4>2, <4>3, <4>4
    <3> QED
      BY <1>3, <3>1, <3>2, <3>3, <3>4
  <2>3. c # Consumer(i)
    BY <1>2
  <2> QED
    BY <1>0, <1>2, <1>3, <2>1, <2>2, <2>3, PlacesKept
<1>13. Order'
  <2>1. /\ Sown(chain, chain', p, i, K, M) /\ Rooted(chain) /\ Chains = DOMAIN chain
        /\ \A q, k, d : Kid(chain, q, k, d) => k \in Nat /\ k <= Count(chain, q)
        /\ Count(chain, p) \in Nat
    <3>1. Sown(chain, chain', p, i, K, M) /\ Rooted(chain) /\ Chains = DOMAIN chain
      BY DEF Joined, Inv, IsTree, Chains
    <3> QED
      BY <3>1, AtFacts, RootedFacts
  <2>2. \A q \in Chains : Line(chain', q) = Line(chain, q)
    BY <2>1, SameLines DEF Sown
  <2>3. Behind(p, K, M)
    <3>1. ASSUME NEW k, NEW d, Kid(chain, p, k, d) PROVE k < K
      <4>1. k \in Nat /\ k <= Count(chain, p) /\ k # K /\ K \in {Count(chain, p), Count(chain, p) + 1}
        BY <2>1, <3>1 DEF Sown
      <4> QED
        BY <2>1, <4>1
    <3>2. \A k, m, x : At(chain, p, k, m, x) => k < K \/ (k = K /\ m < M)
      BY <2>1 DEF Sown
    <3> QED
      BY <3>1, <3>2 DEF Behind
  <2>4. \A q, k, m, x : At(chain', q, k, m, x) =>
          At(chain, q, k, m, x) \/ (x = i /\ q = p /\ Behind(p, k, m))
    BY <2>1, <2>3 DEF Sown
  <2>5. \A q, k, d : Kid(chain', q, k, d) => Kid(chain, q, k, d) \/ d \notin Chains
    BY <2>1 DEF Sown
  <2>6. pc'[Producer(i)] \notin {"new", "rejected", "descend"}
    BY <1>3
  <2>7. \A q : Bound(i, q)' => q = p
    BY <2>6 DEF Bound
  <2>8. /\ Others(Producer(i)) /\ pc'[Producer(i)] \notin {"new", "rejected"}
        /\ Comes(i, p, chain[p].tag) /\ tag'[i] = chain[p].tag
        /\ \A j \in Items : j # i => tag'[j] = tag[j]
    BY <1>3, <2>6
  <2> DEFINE g == chain[p].tag
  <2>9. Comes(i, p, g) /\ tag'[i] = g
    BY <2>8
  <2> HIDE DEF g
  <2> QED
    BY <2>2, <2>4, <2>5, <2>7, <2>8, <2>9, OrderArrives
<1> QED
  BY <1>0, <1>8, <1>9, <1>10, <1>11, <1>12, <1>13 DEF Inv

-----------------------------------------------------------------------------
(* A new child of p for the tag g. *)
LEMMA GrowIn ==
  ASSUME Inv, NEW p \in Chains, NEW t \in Tags, Count(chain, p) > 0,
         NEW n, NEW g, Grown(chain, chain', p, n, g),
         \A d : Kid(chain, p, Count(chain, p), d) => chain[d].tag # g,
         Len(g) = Len(chain[p].tag) + 1, IsPrefix(chain[p].tag, g), IsPrefix(g, t)
  PROVE  /\ IsTree(chain') /\ n \notin DOMAIN chain /\ n # Root
         /\ \A q \in DOMAIN chain : Line(chain', q) = Line(chain, q) /\ (Alive(chain', q) <=> Alive(chain, q))
         /\ \A q : q \in Line(chain', n) <=> q = n \/ q \in Line(chain, p)
         /\ Alive(chain', n) <=> Alive(chain, p)
         /\ Eased(chain, chain', p, Meta) /\ \A x : Stays(chain, chain', x)
         /\ p \in DOMAIN chain' /\ chain'[p].tag = chain[p].tag
<1>1. IsTree(chain) /\ p \in DOMAIN chain /\ \E s \in Tags : IsPrefix(g, s)
  BY DEF Inv, Chains
<1>2. /\ IsTree(chain') /\ n \notin DOMAIN chain /\ n # Root
      /\ \A q \in DOMAIN chain : Line(chain', q) = Line(chain, q) /\ (Alive(chain', q) <=> Alive(chain, q))
      /\ \A q : q \in Line(chain', n) <=> q = n \/ q \in Line(chain, p)
      /\ Alive(chain', n) <=> Alive(chain, p)
  BY <1>1, GrownTree
<1>3. Eased(chain, chain', p, Meta) /\ \A x : Stays(chain, chain', x)
  BY <1>1, <1>2, EasedGrown
<1>4. p \in DOMAIN chain' /\ chain'[p].tag = chain[p].tag
  BY <1>1 DEF Grown
<1> QED
  BY <1>2, <1>3, <1>4

(* A tree a reservation has passed through is a tree, and the others are *)
(* eased.                                                                *)
LEMMA PassTree ==
  ASSUME Inv, NEW i \in Items, NEW p \in Chains, Alive(chain, p),
         NEW t \in Tags, IsPrefix(chain[p].tag, t), chain[p].tag # t,
         NEW g, g = First(t, Len(chain[p].tag) + 1), Passed(i, p, g)
  PROVE  /\ IsTree(chain') /\ \A q \in Chains : Alive(chain', q) <=> Alive(chain, q)
         /\ Eased(chain, chain', p, Meta)
         /\ \A x : Stays(chain, chain', x)
         /\ p \in DOMAIN chain' /\ chain'[p].tag = chain[p].tag
         /\ IsPrefix(g, t) /\ g \in Seq(Keys) /\ Len(g) = Len(chain[p].tag) + 1
         /\ Grown(chain, chain', p, Len(chain) + 1, g) =>
              /\ Len(chain) + 1 \notin Chains /\ Len(chain) + 1 # Root
              /\ \A q \in Chains : Line(chain', q) = Line(chain, q)
              /\ \A q : q \in Line(chain', Len(chain) + 1) <=> q = Len(chain) + 1 \/ q \in Line(chain, p)
              /\ Alive(chain', Len(chain) + 1) <=> Alive(chain, p)
<1>1. Rooted(chain) /\ p \in DOMAIN chain /\ Chains = DOMAIN chain /\ IsTree(chain)
  BY DEF Inv, IsTree, Chains
<1>2. Count(chain, p) > 0
  BY <1>1, AliveFacts, RootedFacts
<1>3. /\ g \in Seq(Keys) /\ Len(g) = Len(chain[p].tag) + 1
      /\ IsPrefix(chain[p].tag, g) /\ IsPrefix(g, t)
  <2>1. chain[p].tag \in Seq(Keys) /\ t \in Seq(Keys)
    BY <1>1, RootedFacts, TagFacts
  <2> QED
    BY <2>1, PrefixStep
<1>4. CASE Touched(chain, chain', p)
  <2>1. IsTree(chain') /\ \A q \in DOMAIN chain : Alive(chain', q) <=> Alive(chain, q)
    BY <1>1, <1>4, TouchedTree
  <2>2. Eased(chain, chain', p, Meta)
    BY <1>1, <1>4, EasedTouched
  <2>3. \A x : Stays(chain, chain', x)
    BY <1>4 DEF Touched, Stays
  <2>4. p \in DOMAIN chain' /\ chain'[p].tag = chain[p].tag /\ DOMAIN chain' = DOMAIN chain
    BY <1>1, <1>4 DEF Touched, Same
  <2>5. ~Grown(chain, chain', p, Len(chain) + 1, g)
    <3>1. Len(chain) + 1 \notin DOMAIN chain
      BY <1>1, RootedFacts
    <3> QED
      BY <2>4, <3>1 DEF Grown
  <2> QED
    BY <1>1, <1>3, <2>1, <2>2, <2>3, <2>4, <2>5
<1>5. CASE Grown(chain, chain', p, Len(chain) + 1, g)
              /\ \A d : Kid(chain, p, Count(chain, p), d) => chain[d].tag # g
  <2> DEFINE n == Len(chain) + 1
  <2>1. Grown(chain, chain', p, n, g)
    BY <1>5
  <2> HIDE DEF n
  <2>2. /\ IsTree(chain') /\ n \notin DOMAIN chain /\ n # Root
        /\ \A q \in DOMAIN chain : Line(chain', q) = Line(chain, q) /\ (Alive(chain', q) <=> Alive(chain, q))
        /\ \A q : q \in Line(chain', n) <=> q = n \/ q \in Line(chain, p)
        /\ Alive(chain', n) <=> Alive(chain, p)
        /\ Eased(chain, chain', p, Meta) /\ \A x : Stays(chain, chain', x)
        /\ p \in DOMAIN chain' /\ chain'[p].tag = chain[p].tag
    BY <1>2, <1>3, <1>5, <2>1, GrowIn
  <2> QED
    BY <1>1, <1>3, <2>2 DEF n
<1> QED
  BY <1>4, <1>5 DEF Passed

(* The invariant is kept when a reservation passes through a chain. *)
LEMMA PassInv ==
  ASSUME Inv, NEW i \in Items, NEW p \in Chains, Alive(chain, p), OnlyBy(Producer(i), p),
         pc[Producer(i)] \in {"new", "descend"},
         NEW t \in Tags, IsPrefix(chain[p].tag, t), chain[p].tag # t,
         NEW g, g = First(t, Len(chain[p].tag) + 1), Passed(i, p, g),
         tag' \in [Items -> Tags \cup {<<>>}], tag'[i] = t,
         \A j \in Items : j # i => tag'[j] = tag[j],
         before' \in [Items -> SUBSET Items], Comes(i, p, t)
  PROVE  Inv'
<1> DEFINE c == Producer(i)
<1>0. /\ IsTree(chain') /\ \A q \in Chains : Alive(chain', q) <=> Alive(chain, q)
      /\ Eased(chain, chain', p, Meta)
      /\ \A x : Stays(chain, chain', x)
      /\ p \in DOMAIN chain' /\ chain'[p].tag = chain[p].tag
      /\ IsPrefix(g, t)
  BY PassTree
<1>1. /\ \A q, k, m : ~At(chain, q, k, m, i)
      /\ i \notin filled /\ ~Ever(i) /\ pc[Consumer(i)] = "get" /\ ready[i] = 0
      /\ call[Producer(i)] = NoCall
  BY NewFacts
<1>2. /\ c \in Coros /\ Consumer(i) \in Coros
      /\ \A j \in Items : /\ Producer(j) \in Coros /\ Consumer(j) \in Coros
                          /\ Consumer(j) # c /\ (j # i => Producer(j) # c)
  BY CoroFacts
<1>3. /\ Others(c) /\ call'[c] = call[c] /\ frames'[c] = <<Frame(p, {})>>
      /\ pc'[c] = "descend"
      /\ \E d : Kid(chain', p, Count(chain', p), d) /\ chain'[d].tag = g
      /\ UNCHANGED <<filled, ready, interrupted, stopped>>
  BY DEF Passed
<1>6. \A j \in Items : /\ j # i => pc'[Producer(j)] = pc[Producer(j)]
                       /\ pc'[Consumer(j)] = pc[Consumer(j)]
                       /\ ready'[j] = ready[j] /\ (j \in filled' <=> j \in filled)
  BY <1>2, <1>3 DEF Others
<1>8. Types'
  <2>1. DOMAIN pc' = Coros
    BY <1>3 DEF Others
  <2>2. \A j \in Items : pc'[Producer(j)] \in Label("produce") /\ pc'[Consumer(j)] \in Label("consume")
    <3>1. \A j \in Items : pc[Producer(j)] \in Label("produce") /\ pc[Consumer(j)] \in Label("consume")
      BY DEF Inv, Types
    <3>2. pc'[c] \in Label("produce")
      BY <1>3 DEF Label
    <3> QED
      BY <1>6, <3>1, <3>2
  <2>3. frames' \in [Coros -> Seq(FrameType)] /\ call' \in [Coros -> CallType]
    BY <1>3 DEF Others
  <2> QED
    BY <1>3, <2>1, <2>2, <2>3 DEF Inv, Types
<1>9. Tokens'
  <2> SUFFICES ASSUME NEW j \in Items
               PROVE  /\ ready'[j] <= 1 /\ (pc'[Consumer(j)] # "get" => ready'[j] = 0)
                      /\ Ever(j)' => pc'[Producer(j)] = "populated"
                      /\ j \in filled' <=> pc'[Producer(j)] = "populated"
    BY DEF Tokens
  <2>0. /\ ready[j] <= 1 /\ (pc[Consumer(j)] # "get" => ready[j] = 0)
        /\ Ever(j) => pc[Producer(j)] = "populated"
        /\ j \in filled <=> pc[Producer(j)] = "populated"
    BY DEF Inv, Tokens
  <2>1. CASE j # i
    BY <1>6, <2>1, <2>0 DEF Ever
  <2>2. CASE j = i
    BY <1>1, <1>3, <1>6, <2>0, <2>2 DEF Ever
  <2> QED
    BY <2>1, <2>2
<1>10. Apart'
  <2>1. \A d \in Coros : d # c => frames'[d] = frames[d]
    BY <1>3 DEF Others
  <2>2. \A n \in DOMAIN frames'[c] : n = 1 /\ frames'[c][n].chain = p
    BY <1>3 DEF Frame
  <2>3. \A d \in Coros : d # c => \A n \in DOMAIN frames[d] : frames[d][n].chain # p
    BY DEF OnlyBy
  <2> SUFFICES ASSUME NEW d \in Coros, NEW e \in Coros, NEW m \in DOMAIN frames'[d],
                      NEW n \in DOMAIN frames'[e], frames'[d][m].chain = frames'[e][n].chain
               PROVE  d = e /\ m = n
    BY DEF Apart
  <2>4. CASE d # c /\ e # c
    BY <2>1, <2>4 DEF Inv, Apart
  <2>5. CASE d = c \/ e = c
    BY <2>1, <2>2, <2>3, <2>5
  <2> QED
    BY <2>4, <2>5
<1>11. Fits'
  <2>1. Descending(chain', frames'[c], t)
    BY <1>0, <1>3 DEF Descending
  <2>2. ProducerFits(chain', pc'[c], frames'[c], call'[c], tag'[i])
    BY <1>1, <1>3, <2>1 DEF ProducerFits
  <2>3. c # Consumer(i)
    BY <1>2
  <2> QED
    BY <1>0, <1>1, <1>2, <1>3, <2>2, <2>3, FitsKept DEF OnlyBy
<1>12. Places'
  <2>1. \A x \in Items : x # i /\ Ever(x)' => Ever(x)
    BY <1>6 DEF Ever
  <2>2. \A q, k, m : ~At(chain', q, k, m, i)
    BY <1>0, <1>1 DEF Stays
  <2>3. c # Consumer(i)
    BY <1>2
  <2> QED
    BY <1>0, <1>2, <1>3, <2>1, <2>2, <2>3, PlacesKept
<1>13. Order'
  <2>0. Rooted(chain) /\ Linked(chain) /\ Chains = DOMAIN chain /\ IsTree(chain)
    BY DEF Inv, IsTree, Chains
  <2>1. CASE Touched(chain, chain', p)
    <3>1. \A q \in Chains : Line(chain', q) = Line(chain, q)
      BY <2>0, <2>1, SameLines DEF Touched
    <3>2. /\ \A q, k, m, x : At(chain', q, k, m, x) => At(chain, q, k, m, x)
          /\ \A q, k, d : Kid(chain', q, k, d) => Kid(chain, q, k, d)
      BY <2>1 DEF Touched
    <3>3. \A q : Bound(i, q)' => q = p
      <4>1. <<Frame(p, {})>>[1].chain = p /\ \A q : <<Frame(q, {})>>[1].chain = q
        BY DEF Frame
      <4> QED
        BY <1>3, <4>1 DEF Bound
    <3> QED
      BY <1>3, <3>1, <3>2, <3>3, OrderArrives
  <2>2. CASE Grown(chain, chain', p, Len(chain) + 1, g)
    <3>1. (\A q \in Chains : Line(chain', q) = Line(chain, q)) /\ Len(chain) + 1 \notin Chains
      BY <2>2, PassTree
    <3>2. /\ \A q, k, m, x : At(chain', q, k, m, x) => At(chain, q, k, m, x)
          /\ \A q, k, d : Kid(chain', q, k, d) => Kid(chain, q, k, d) \/ d \notin Chains
      BY <2>2, <3>1 DEF Grown
    <3>3. \A q : Bound(i, q)' => q = p
      <4>1. <<Frame(p, {})>>[1].chain = p /\ \A q : <<Frame(q, {})>>[1].chain = q
        BY DEF Frame
      <4> QED
        BY <1>3, <4>1 DEF Bound
    <3> QED
      BY <1>3, <3>1, <3>2, <3>3, OrderArrives
  <2> QED
    BY <2>1, <2>2 DEF Passed
<1> QED
  BY <1>0, <1>8, <1>9, <1>10, <1>11, <1>12, <1>13 DEF Inv

-----------------------------------------------------------------------------
(* the coroutine of i comes to the chain p with the tag g *)
Arrives(i, p, g) ==
  /\ p \in Chains /\ Alive(chain, p) /\ OnlyBy(Producer(i), p)
  /\ pc[Producer(i)] \in {"new", "descend"}
  /\ g \in Tags /\ IsPrefix(chain[p].tag, g)
  /\ tag' \in [Items -> Tags \cup {<<>>}] /\ tag'[i] = g
  /\ \A j \in Items : j # i => tag'[j] = tag[j]
  /\ before' \in [Items -> SUBSET Items] /\ Comes(i, p, g)
  /\ \/ chain[p].tag = g /\ \E K, M \in Nat : Joined(i, p, K, M)
     \/ chain[p].tag # g /\ Passed(i, p, First(g, Len(chain[p].tag) + 1))

(* A reservation in a chain either joins it or passes through it. *)
LEMMA ReserveInFacts ==
  ASSUME Inv, NEW i \in Items, NEW p \in Chains, Alive(chain, p),
         pc[Producer(i)] \in {"new", "descend"}, NEW g \in Tags, IsPrefix(chain[p].tag, g),
         ReserveIn(i, p, g), UNCHANGED <<call, interrupted, stopped>>
  PROVE  \/ chain[p].tag = g /\ \E K, M \in Nat : Joined(i, p, K, M)
         \/ chain[p].tag # g /\ Passed(i, p, First(g, Len(chain[p].tag) + 1))
<1>1. CASE chain[p].tag = g /\ AddSibling(i, p)
  <2>1. \E K, M \in Nat : Joined(i, p, K, M)
    BY <1>1, JoinFacts
  <2> QED
    BY <1>1, <2>1
<1>2. CASE chain[p].tag # g /\ EnterChild(i, p, SubSeq(g, 1, Len(chain[p].tag) + 1))
  <2> DEFINE h == First(g, Len(chain[p].tag) + 1)
  <2>1. EnterChild(i, p, h)
    BY <1>2 DEF First
  <2>2. h \in Seq(Keys)
    <3>1. chain[p].tag \in Seq(Keys) /\ g \in Seq(Keys)
      BY RootedFacts, TagFacts DEF Inv, IsTree, Chains
    <3> QED
      BY <1>2, <3>1, PrefixStep
  <2> HIDE DEF h
  <2>3. Passed(i, p, h)
    BY <2>1, <2>2, PassFacts
  <2> QED
    BY <1>2, <2>3 DEF h
<1> QED
  BY <1>1, <1>2 DEF ReserveIn

(* forque::reserve arrives at the root. *)
LEMMA ReserveFacts ==
  ASSUME Inv, NEW i \in Items, NEW t \in Tags, Reserve(i, t)
  PROVE  /\ Arrives(i, Root, t) /\ pc[Producer(i)] = "new"
         /\ before' = [before EXCEPT ![i] =
                         {j \in Items : Pending(j) /\ Related(tag[j], t)}]
<1>1. /\ pc[Producer(i)] = "new" /\ Free(Root)
      /\ tag' = [tag EXCEPT ![i] = t]
      /\ before' = [before EXCEPT ![i] = {j \in Items : Pending(j) /\ Related(tag[j], t)}]
      /\ ReserveIn(i, Root, t)
      /\ UNCHANGED <<call, interrupted, stopped>>
  BY DEF Reserve
<1>2. Root \in Chains /\ Alive(chain, Root) /\ IsPrefix(chain[Root].tag, t)
  <2>1. Rooted(chain) /\ Root \in DOMAIN chain /\ chain[Root].tag = <<>> /\ Count(chain, Root) > 0
    BY RootedFacts DEF Inv, IsTree, Headed
  <2>2. Alive(chain, Root)
    BY <2>1, AliveFacts, RootedFacts
  <2>3. IsPrefix(<<>>, t)
    <3>1. t \in Seq(Keys)
      BY TagFacts
    <3> QED
      BY <3>1, PrefixFacts
  <2> QED
    BY <2>1, <2>2, <2>3 DEF Chains
<1>3. tag' \in [Items -> Tags \cup {<<>>}] /\ tag'[i] = t /\ \A j \in Items : j # i => tag'[j] = tag[j]
  BY <1>1 DEF Inv, Types
<1>4. before' \in [Items -> SUBSET Items]
  BY <1>1 DEF Inv, Types
<1>5. OnlyBy(Producer(i), Root)
  BY <1>1, FreeFacts DEF OnlyBy
<1>6. \/ chain[Root].tag = t /\ \E K, M \in Nat : Joined(i, Root, K, M)
      \/ chain[Root].tag # t /\ Passed(i, Root, First(t, Len(chain[Root].tag) + 1))
  BY <1>1, <1>2, ReserveInFacts
<1>7. Comes(i, Root, t)
  BY <1>1 DEF Comes
<1> QED
  BY <1>1, <1>2, <1>3, <1>4, <1>5, <1>6, <1>7 DEF Arrives

(* A reservation that has passed through a chain arrives at a child of *)
(* it.                                                                 *)
LEMMA DescendFacts ==
  ASSUME Inv, NEW i \in Items, Descend(i)
  PROVE  /\ pc[Producer(i)] = "descend" /\ UNCHANGED <<tag, before>>
         /\ \E q \in Chains : \E p :
              /\ frames[Producer(i)] = <<Frame(q, {})>>
              /\ Alive(chain, q) /\ Kid(chain, q, Count(chain, q), p)
              /\ Arrives(i, p, tag[i])
<1> DEFINE c == Producer(i)
<1>1. /\ pc[c] = "descend" /\ Sound(c)
      /\ LET q == frames[c][1].chain
         IN  \E d \in Find(BackOf(q), SubSeq(tag[i], 1, Len(chain[q].tag) + 1)) :
               Free(d) /\ ReserveIn(i, d, tag[i])
      /\ UNCHANGED <<call, tag, before, interrupted, stopped>>
  BY DEF Descend
<1>2. c \in Coros /\ Rooted(chain) /\ Linked(chain) /\ Headed(chain) /\ Chains = DOMAIN chain
      /\ tag \in [Items -> Tags \cup {<<>>}] /\ before \in [Items -> SUBSET Items]
      /\ IsTree(chain)
  BY CoroFacts DEF Inv, Types, IsTree, Chains
<1>3. Descending(chain, frames[c], tag[i])
  BY <1>1 DEF Inv, Fits, ProducerFits
<1>4. PICK q \in Chains :
         /\ frames[c] = <<Frame(q, {})>>
         /\ tag[i] \in Tags /\ IsPrefix(chain[q].tag, tag[i]) /\ chain[q].tag # tag[i]
         /\ Alive(chain, q) => \E d : Kid(chain, q, Count(chain, q), d) /\ IsPrefix(chain[d].tag, tag[i])
  BY <1>2, <1>3 DEF Descending
<1>5. frames[c][1].chain = q /\ 1 \in DOMAIN frames[c]
  BY <1>4 DEF Frame
<1>6. Alive(chain, q)
  BY <1>1, <1>2, <1>5, SoundFacts
<1>7. PICK p \in Find(BackOf(q), SubSeq(tag[i], 1, Len(chain[q].tag) + 1)) :
               Free(p) /\ ReserveIn(i, p, tag[i])
  BY <1>1, <1>5
<1>8. chain[q].tag \in Seq(Keys) /\ tag[i] \in Seq(Keys) /\ Count(chain, q) \in 1..Count(chain, q)
      /\ q \in DOMAIN chain /\ Count(chain, q) > 0
  <2>1. q \in DOMAIN chain /\ Count(chain, q) \in Nat /\ chain[q].segments # <<>>
    BY <1>2, <1>6, AliveFacts, RootedFacts
  <2>2. Count(chain, q) > 0
    BY <1>2, <2>1, RootedFacts
  <2> QED
    BY <1>2, <1>4, <2>1, <2>2, RootedFacts, TagFacts
<1> DEFINE g == First(tag[i], Len(chain[q].tag) + 1)
<1>9. g \in Seq(Keys) /\ IsPrefix(g, tag[i])
  BY <1>4, <1>8, PrefixStep
<1>10. Kid(chain, q, Count(chain, q), p) /\ chain[p].tag = g
  <2>1. p \in Find(BackOf(q), g)
    BY <1>7 DEF First
  <2> HIDE DEF g
  <2>2. Find(BackOf(q), g) = {d \in Chi(chain, q, Count(chain, q)) : chain[d].tag = g}
    BY <1>2, <1>8, <1>9, ChildFacts
  <2> QED
    BY <1>8, <2>1, <2>2 DEF Kid
<1> HIDE DEF g
<1>11. p \in Chains /\ Alive(chain, p)
  <2>1. p \in Chains /\ p # Root /\ Par(chain, p) = q /\ Count(chain, p) > 0
    BY <1>2, <1>10 DEF Linked
  <2> QED
    BY <1>2, <1>6, <2>1, AliveFacts, RootedFacts
<1>12. \/ chain[p].tag = tag[i] /\ \E K, M \in Nat : Joined(i, p, K, M)
       \/ chain[p].tag # tag[i] /\ Passed(i, p, First(tag[i], Len(chain[p].tag) + 1))
  BY <1>1, <1>4, <1>7, <1>9, <1>10, <1>11, ReserveInFacts
<1>13. OnlyBy(c, p)
  BY <1>7, FreeFacts DEF OnlyBy
<1>14. Comes(i, p, tag[i])
  <2>1. p # Root /\ Par(chain, p) = q
    BY <1>2, <1>10 DEF Linked
  <2>2. Bound(i, q) /\ before' = before
    BY <1>1, <1>4 DEF Bound
  <2> QED
    BY <1>10, <2>1, <2>2 DEF Comes
<1>15. Arrives(i, p, tag[i])
  BY <1>1, <1>2, <1>4, <1>9, <1>10, <1>11, <1>12, <1>13, <1>14 DEF Arrives
<1> QED
  BY <1>1, <1>4, <1>6, <1>10, <1>15

(* The invariant is kept when a reservation arrives at a chain. *)
LEMMA ArriveInv ==
  ASSUME Inv, NEW i \in Items, NEW p, NEW g, Arrives(i, p, g)
  PROVE  Inv'
<1>1. CASE chain[p].tag = g /\ \E K, M \in Nat : Joined(i, p, K, M)
  <2>1. Comes(i, p, chain[p].tag)
    BY <1>1 DEF Arrives
  <2> QED
    BY <1>1, <2>1, JoinInv DEF Arrives
<1>2. CASE chain[p].tag # g /\ Passed(i, p, First(g, Len(chain[p].tag) + 1))
  BY <1>2, PassInv DEF Arrives
<1> QED
  BY <1>1, <1>2 DEF Arrives

-----------------------------------------------------------------------------
(* where x still is, it is the first item of an active first segment *)
Foremost(t, x) ==
  \A q, k, m : At(t, q, k, m, x) /\ Alive(t, q) => k = 1 /\ m = 1 /\ On(t, q, 1)

(* Each item offered by the step was not, has a value and is foremost. *)
Offers ==
  /\ ready' \in [Items -> Nat]
  /\ \A j \in Items : \/ ready'[j] = ready[j]
                      \/ /\ ready'[j] = ready[j] + 1
                         /\ j \in filled /\ ~Ever(j) /\ Foremost(chain', j)

(* nobody but c holds a chain of fs, and fs holds each once *)
Own(c, fs) ==
  /\ \A n \in DOMAIN fs : OnlyBy(c, fs[n].chain)
  /\ \A m, n \in DOMAIN fs : fs[m].chain = fs[n].chain => m = n

(* A step that puts nothing offers nothing. *)
LEMMA OffersNothing ==
  ASSUME Inv, UNCHANGED ready
  PROVE  Offers
BY DEF Offers, Inv, Types

(* activate_sibling offers the first item of a segment, if it has a *)
(* value.                                                           *)
LEMMA OffersOne ==
  ASSUME Inv, NEW j \in Items, ~Ever(j), Foremost(chain', j), Put({j} \cap filled)
  PROVE  Offers
<1>1. /\ ready' \in [Items -> Nat]
      /\ \A x \in Items : ready'[x] = IF x \in ({j} \cap filled) /\ ~stopped
                                      THEN ready[x] + 1 ELSE ready[x]
  <2> DEFINE S == {j} \cap filled
  <2>1. ready \in [Items -> Nat] /\ Put(S)
    BY DEF Inv, Types
  <2> HIDE DEF S
  <2>2. /\ ready' \in [Items -> Nat]
        /\ \A x \in Items : ready'[x] = IF x \in S /\ ~stopped THEN ready[x] + 1 ELSE ready[x]
    BY <2>1, PutFacts
  <2> QED
    BY <2>2 DEF S
<1>2. ASSUME NEW x \in Items
      PROVE  \/ ready'[x] = ready[x]
             \/ /\ ready'[x] = ready[x] + 1
                /\ x \in filled /\ ~Ever(x) /\ Foremost(chain', x)
  <2>1. CASE x = j
    <3>1. CASE x \in filled /\ ~stopped
      BY <1>1, <2>1, <3>1
    <3>2. CASE ~(x \in filled /\ ~stopped)
      BY <1>1, <2>1, <3>2
    <3> QED
      BY <3>1, <3>2
  <2>2. CASE x # j
    BY <1>1, <2>2
  <2> QED
    BY <2>1, <2>2
<1> QED
  BY <1>1, <1>2 DEF Offers

(* What a step of a consumer must do for the invariant to be kept. *)
LEMMA ConsumeInv ==
  ASSUME Inv, NEW i \in Items, pc[Consumer(i)] # "get",
         Others(Consumer(i)), pc'[Consumer(i)] \in Label("consume") \ {"get"},
         UNCHANGED <<tag, before, filled, interrupted>>, stopped' \in BOOLEAN,
         Offers, IsTree(chain'),
         NEW h, NEW l, Eased(chain, chain', h, l), OnlyBy(Consumer(i), h),
         l = Meta \/ \A d \in Coros : d # Consumer(i) => \A n \in DOMAIN frames[d] :
           Alive(chain', frames[d][n].chain) => l \notin frames[d][n].todo,
         Slid(chain, chain'), \A x : Stays(chain, chain', x),
         \A q, k, m : At(chain', q, k, m, i) =>
           pc'[Consumer(i)] \in {"get", "retained", "finalize"},
         ConsumerFits(chain', pc'[Consumer(i)], frames'[Consumer(i)], call'[Consumer(i)], i),
         Own(Consumer(i), frames'[Consumer(i)])
  PROVE  Inv'
<1> DEFINE c == Consumer(i)
<1>1. Ever(i) /\ ready[i] = 0 /\ pc[Producer(i)] = "populated"
  BY DEF Ever, Inv, Tokens
<1>2. /\ c \in Coros /\ Producer(i) # c
      /\ \A j \in Items : /\ Producer(j) \in Coros /\ Consumer(j) \in Coros
                          /\ Producer(j) # c /\ (j # i => Consumer(j) # c)
  BY CoroFacts
<1>3. \A d \in Coros : d # c => pc'[d] = pc[d] /\ frames'[d] = frames[d]
  BY DEF Others
<1>4. \A j \in Items : /\ pc'[Producer(j)] = pc[Producer(j)]
                       /\ j # i => pc'[Consumer(j)] = pc[Consumer(j)]
  BY <1>2, <1>3
<1>5. ready'[i] = 0 /\ Ever(i)'
  <2>1. ready'[i] = 0
    BY <1>1 DEF Offers
  <2>2. Ever(i)'
    BY DEF Ever
  <2> QED
    BY <2>1, <2>2
<1>8. Types'
  <2>1. DOMAIN pc' = Coros
    BY DEF Others
  <2>2. \A j \in Items : pc'[Producer(j)] \in Label("produce") /\ pc'[Consumer(j)] \in Label("consume")
    <3>1. \A j \in Items : pc[Producer(j)] \in Label("produce") /\ pc[Consumer(j)] \in Label("consume")
      BY DEF Inv, Types
    <3>2. pc'[Consumer(i)] \in Label("consume")
      OBVIOUS
    <3> QED
      BY <1>4, <3>1, <3>2
  <2>3. frames' \in [Coros -> Seq(FrameType)] /\ call' \in [Coros -> CallType]
    BY DEF Others
  <2>4. ready' \in [Items -> Nat]
    BY DEF Offers
  <2>5. /\ tag' \in [Items -> Tags \cup {<<>>}] /\ before' \in [Items -> SUBSET Items]
        /\ filled' \in SUBSET Items /\ interrupted' \in BOOLEAN
    BY DEF Inv, Types
  <2> QED
    BY <2>1, <2>2, <2>3, <2>4, <2>5 DEF Types
<1>9. Tokens'
  <2> SUFFICES ASSUME NEW j \in Items
               PROVE  /\ ready'[j] <= 1 /\ (pc'[Consumer(j)] # "get" => ready'[j] = 0)
                      /\ Ever(j)' => pc'[Producer(j)] = "populated"
                      /\ j \in filled' <=> pc'[Producer(j)] = "populated"
    BY DEF Tokens
  <2>0. /\ ready[j] <= 1 /\ (pc[Consumer(j)] # "get" => ready[j] = 0) /\ ready[j] \in Nat
        /\ Ever(j) => pc[Producer(j)] = "populated"
        /\ j \in filled <=> pc[Producer(j)] = "populated"
    BY DEF Inv, Tokens, Types
  <2>1. CASE j # i
    <3>1. CASE ready'[j] = ready[j]
      BY <1>4, <2>1, <2>0, <3>1 DEF Ever
    <3>2. CASE ready'[j] = ready[j] + 1 /\ j \in filled /\ ~Ever(j)
      <4>1. ready[j] = 0 /\ pc[Consumer(j)] = "get"
        BY <2>0, <3>2 DEF Ever
      <4> QED
        BY <1>4, <2>1, <2>0, <3>2, <4>1
    <3> QED
      BY <3>1, <3>2 DEF Offers
  <2>2. CASE j = i
    BY <1>1, <1>4, <1>5, <2>0, <2>2
  <2> QED
    BY <2>1, <2>2
<1>10. Apart'
  <2> SUFFICES ASSUME NEW d \in Coros, NEW e \in Coros, NEW m \in DOMAIN frames'[d],
                      NEW n \in DOMAIN frames'[e], frames'[d][m].chain = frames'[e][n].chain
               PROVE  d = e /\ m = n
    BY DEF Apart
  <2>1. \A x \in DOMAIN frames'[c] : \A y \in Coros : y # c =>
          \A z \in DOMAIN frames'[y] : frames'[y][z].chain # frames'[c][x].chain
    BY <1>3 DEF Own, OnlyBy
  <2>4. CASE d # c /\ e # c
    BY <1>3, <2>4 DEF Inv, Apart
  <2>5. CASE d = c /\ e = c
    BY <2>5 DEF Own
  <2>6. CASE d = c /\ e # c
    BY <2>1, <2>6
  <2>7. CASE d # c /\ e = c
    BY <2>1, <2>7
  <2> QED
    BY <2>4, <2>5, <2>6, <2>7
<1>11. Fits'
  <2>1. c # Producer(i)
    BY <1>2
  <2>2. \A d \in Coros : d # c => \A n \in DOMAIN frames[d] : frames[d][n].chain # h
    BY DEF OnlyBy
  <2> QED
    BY <1>2, <2>1, <2>2, FitsKept
<1>12. Places'
  <2>1. \A x \in Items : x # i /\ Ever(x)' => Ever(x) \/
           (\A p, k, m : At(chain', p, k, m, x) /\ Alive(chain', p) => k = 1 /\ m = 1 /\ On(chain', p, 1))
    <3> SUFFICES ASSUME NEW x \in Items, x # i, Ever(x)', ~Ever(x) PROVE Foremost(chain', x)
      BY DEF Foremost
    <3>1. ready'[x] # ready[x]
      BY <1>4 DEF Ever
    <3> QED
      BY <3>1 DEF Offers
  <2>2. \A q, k, m : At(chain', q, k, m, i) =>
           /\ pc'[Producer(i)] \in {"reserved", "populated"}
           /\ pc'[Consumer(i)] \in {"get", "retained", "finalize"}
           /\ tag'[i] = chain'[q].tag
           /\ Alive(chain', q) /\ Ever(i)' => k = 1 /\ m = 1 /\ On(chain', q, 1)
    <3> SUFFICES ASSUME NEW q, NEW k, NEW m, At(chain', q, k, m, i)
                 PROVE  /\ tag'[i] = chain'[q].tag
                        /\ Alive(chain', q) => k = 1 /\ m = 1 /\ On(chain', q, 1)
      BY <1>1, <1>4
    <3>1. PICK j, n : At(chain, q, j, n, i) /\ (j = 1 /\ n = 1 => k = 1 /\ m = 1)
      BY DEF Stays
    <3>2. q \in DOMAIN chain
      BY <3>1 DEF At
    <3>3. tag[i] = chain[q].tag /\ (Alive(chain, q) => j = 1 /\ n = 1 /\ On(chain, q, 1))
      BY <1>1, <3>1 DEF Inv, Places
    <3> QED
      BY <3>1, <3>2, <3>3 DEF Eased
  <2>3. \A x : x # i => Stays(chain, chain', x)
    OBVIOUS
  <2> QED
    BY <1>2, <2>1, <2>2, <2>3, PlacesKept
<1>13. Order'
  <2>1. Rooted(chain') /\ DOMAIN chain \subseteq DOMAIN chain'
        /\ \A q \in DOMAIN chain : Par(chain', q) = Par(chain, q)
    BY DEF Eased
  <2>2. \A x \in Items : /\ pc'[Producer(x)] = pc[Producer(x)]
                         /\ frames'[Producer(x)] = frames[Producer(x)]
    BY <1>2, <1>3
  <2>3. \A x \in Items : \A q : Bound(x, q)' => Bound(x, q)
    BY <2>2 DEF Bound
  <2>4. \A x \in Items : pc[Producer(x)] \notin {"new", "rejected"} =>
                         pc'[Producer(x)] \notin {"new", "rejected"}
    BY <2>2
  <2> QED
    BY <2>1, <2>3, <2>4, OrderKept DEF Inv
<1> QED
  BY <1>8, <1>9, <1>10, <1>11, <1>12, <1>13 DEF Inv

-----------------------------------------------------------------------------
(* What the assignments to the state of one coroutine leave. *)
LEMMA FramesPut ==
  ASSUME Inv, NEW c \in Coros, NEW fs \in Seq(FrameType), frames' = [frames EXCEPT ![c] = fs]
  PROVE  /\ frames' \in [Coros -> Seq(FrameType)] /\ frames'[c] = fs
         /\ \A d \in Coros : d # c => frames'[d] = frames[d]
BY DEF Inv, Types

(* The arguments of one coroutine replaced. *)
LEMMA CallPut ==
  ASSUME Inv, NEW c \in Coros, NEW ca \in CallType, call' = [call EXCEPT ![c] = ca]
  PROVE  /\ call' \in [Coros -> CallType] /\ call'[c] = ca
         /\ \A d \in Coros : d # c => call'[d] = call[d]
BY DEF Inv, Types

(* One coroutine moved on. *)
LEMMA PcPut ==
  ASSUME Inv, NEW c \in Coros, NEW w, pc' = [pc EXCEPT ![c] = w]
  PROVE  /\ DOMAIN pc' = Coros /\ pc'[c] = w
         /\ \A d \in Coros : d # c => pc'[d] = pc[d]
BY DEF Inv, Types

(* No arguments replaced. *)
LEMMA CallKept ==
  ASSUME Inv, UNCHANGED call
  PROVE  /\ call' \in [Coros -> CallType] /\ \A d \in Coros : call'[d] = call[d]
BY DEF Inv, Types

(* No locks taken or let go of. *)
LEMMA FramesKept ==
  ASSUME Inv, UNCHANGED frames
  PROVE  /\ frames' \in [Coros -> Seq(FrameType)] /\ \A d \in Coros : frames'[d] = frames[d]
BY DEF Inv, Types

(* The type of no call. *)
LEMMA NoCallType == NoCall \in CallType
<1>1. <<>> \in Seq(Keys)
  OBVIOUS
<1> QED
  BY <1>1 DEF NoCall, CallType, Meta

(* The type of a frame. *)
LEMMA FrameTyped ==
  ASSUME NEW p \in Nat, NEW S \in SUBSET Nat
  PROVE  /\ Frame(p, S) \in FrameType
         /\ Frame(p, S).chain = p /\ Frame(p, S).todo = S
         /\ <<Frame(p, S)>> \in Seq(FrameType)
BY DEF Frame, FrameType

(* A coroutine that finishes holds nothing. *)
LEMMA FinishFacts ==
  ASSUME Inv, NEW c \in Coros, Finish(c)
  PROVE  Others(c) /\ frames'[c] = <<>> /\ call'[c] = NoCall /\ pc'[c] = "finalized"
<1>1. <<>> \in Seq(FrameType)
  OBVIOUS
<1>2. /\ frames' \in [Coros -> Seq(FrameType)] /\ frames'[c] = <<>>
      /\ \A d \in Coros : d # c => frames'[d] = frames[d]
  BY <1>1, FramesPut DEF Finish
<1>3. /\ call' \in [Coros -> CallType] /\ call'[c] = NoCall
      /\ \A d \in Coros : d # c => call'[d] = call[d]
  BY NoCallType, CallPut DEF Finish
<1>4. /\ DOMAIN pc' = Coros /\ pc'[c] = "finalized"
      /\ \A d \in Coros : d # c => pc'[d] = pc[d]
  BY PcPut DEF Finish
<1> QED
  BY <1>2, <1>3, <1>4 DEF Others

(* There is a chain nobody holds. *)
LEMMA Nowhere ==
  ASSUME Inv
  PROVE  \E h : \A c \in Coros : OnlyBy(c, h)
<1>1. \E h : h \notin Nat
  <2> DEFINE R == {x \in Nat : x \notin x}
  <2>1. R \notin Nat
    OBVIOUS
  <2> QED
    BY <2>1
<1>2. \A d \in Coros : \A n \in DOMAIN frames[d] : frames[d][n].chain \in Nat
  <2> SUFFICES ASSUME NEW d \in Coros, NEW n \in DOMAIN frames[d] PROVE frames[d][n].chain \in Nat
    OBVIOUS
  <2>1. frames[d] \in Seq(FrameType)
    BY DEF Inv, Types
  <2>2. frames[d][n] \in FrameType
    BY <2>1
  <2> QED
    BY <2>2 DEF FrameType
<1>3. PICK h : h \notin Nat
  BY <1>1
<1>4. \A c \in Coros : OnlyBy(c, h)
  BY <1>2, <1>3 DEF OnlyBy
<1> QED
  BY <1>4

(* Steps that leave the tree alone. *)
LEMMA StillEased ==
  ASSUME Inv, UNCHANGED chain
  PROVE  /\ IsTree(chain') /\ Slid(chain, chain') /\ \A x : Stays(chain, chain', x)
         /\ \E h : Eased(chain, chain', h, Meta) /\ \A c \in Coros : OnlyBy(c, h)
<1>1. Rooted(chain) /\ IsTree(chain)
  BY DEF Inv, IsTree
<1>2. Slid(chain, chain') /\ \A x : Stays(chain, chain', x)
  <2>1. Slid(chain, chain)
    BY <1>1, SlidSame
  <2> QED
    BY <2>1 DEF Stays
<1>3. PICK h : \A c \in Coros : OnlyBy(c, h)
  BY Nowhere
<1>4. Eased(chain, chain, h, Meta)
  BY <1>1, EasedSelf
<1>5. Eased(chain, chain', h, Meta)
  BY <1>4
<1> QED
  BY <1>1, <1>2, <1>3, <1>5

(* The order is kept by a step that leaves the tree alone. *)
LEMMA StillOrder ==
  ASSUME Inv, UNCHANGED <<chain, frames, tag, before>>,
         \A x \in Items : /\ pc'[Producer(x)] = "descend" => pc[Producer(x)] = "descend"
                          /\ pc[Producer(x)] \notin {"new", "rejected"} =>
                             pc'[Producer(x)] \notin {"new", "rejected"}
  PROVE  Order'
<1>1. Rooted(chain) /\ Slid(chain, chain')
  BY StillEased DEF Inv, IsTree
<1>2. Rooted(chain') /\ DOMAIN chain \subseteq DOMAIN chain'
      /\ \A q \in DOMAIN chain : Par(chain', q) = Par(chain, q)
  BY <1>1
<1>3. \A x \in Items : \A q : Bound(x, q)' => Bound(x, q)
  BY DEF Bound
<1> QED
  BY <1>1, <1>2, <1>3, OrderKept DEF Inv

(* The invariant is kept by a step that leaves the tree and the queue *)
(* alone.                                                             *)
LEMMA StillInv ==
  ASSUME Inv, NEW i \in Items, pc[Consumer(i)] # "get",
         Others(Consumer(i)), pc'[Consumer(i)] \in Label("consume") \ {"get"},
         UNCHANGED <<chain, tag, before, filled, ready, interrupted, stopped>>,
         pc[Consumer(i)] \in {"retained", "finalize"} =>
           pc'[Consumer(i)] \in {"retained", "finalize"},
         ConsumerFits(chain, pc'[Consumer(i)], frames'[Consumer(i)], call'[Consumer(i)], i),
         Own(Consumer(i), frames'[Consumer(i)])
  PROVE  Inv'
<1>1. /\ IsTree(chain') /\ Slid(chain, chain') /\ \A x : Stays(chain, chain', x)
      /\ \E h : Eased(chain, chain', h, Meta) /\ \A c \in Coros : OnlyBy(c, h)
  BY StillEased
<1>2. PICK h : Eased(chain, chain', h, Meta) /\ OnlyBy(Consumer(i), h)
  BY <1>1, CoroFacts
<1>3. Offers
  BY OffersNothing
<1>4. \A q, k, m : At(chain', q, k, m, i) => pc'[Consumer(i)] \in {"get", "retained", "finalize"}
  <2> SUFFICES ASSUME NEW q, NEW k, NEW m, At(chain, q, k, m, i)
               PROVE  pc'[Consumer(i)] \in {"get", "retained", "finalize"}
    OBVIOUS
  <2> QED
    BY DEF Inv, Places
<1>5. stopped' \in BOOLEAN
  BY DEF Inv, Types
<1>6. ConsumerFits(chain', pc'[Consumer(i)], frames'[Consumer(i)], call'[Consumer(i)], i)
  OBVIOUS
<1> QED
  BY <1>1, <1>2, <1>3, <1>4, <1>5, <1>6, ConsumeInv

(* finalize is through *)
LEMMA FinishInv ==
  ASSUME Inv, NEW i \in Items, pc[Consumer(i)] # "get", Finish(Consumer(i)),
         UNCHANGED <<tag, before, filled, interrupted>>, stopped' \in BOOLEAN,
         Offers, IsTree(chain'),
         NEW h, Eased(chain, chain', h, Meta), OnlyBy(Consumer(i), h),
         Slid(chain, chain'), \A x : Stays(chain, chain', x),
         \A q, k, m : ~At(chain', q, k, m, i)
  PROVE  Inv'
<1> DEFINE c == Consumer(i)
<1>1. Others(c) /\ frames'[c] = <<>> /\ call'[c] = NoCall /\ pc'[c] = "finalized"
  BY CoroFacts, FinishFacts
<1>2. ConsumerFits(chain', pc'[c], frames'[c], call'[c], i)
  BY <1>1 DEF ConsumerFits
<1>3. Own(c, frames'[c])
  BY <1>1 DEF Own
<1>4. pc'[c] \in Label("consume") \ {"get"}
  BY <1>1 DEF Label
<1> QED
  BY <1>1, <1>2, <1>3, <1>4, ConsumeInv

(* An item that has been popped is nowhere. *)
LEMMA GoneFacts ==
  ASSUME Inv, NEW i \in Items, pc[Consumer(i)] \notin {"get", "retained", "finalize"},
         \A x : Stays(chain, chain', x)
  PROVE  \A q, k, m : ~At(chain', q, k, m, i)
BY DEF Inv, Places, Stays

(* the first item of an active first segment *)
LEMMA HeadForemost ==
  ASSUME NEW t, IsTree(t), NEW p, NEW j, At(t, p, 1, 1, j), On(t, p, 1)
  PROVE  Foremost(t, j)
BY DEF Foremost, IsTree, Unique

-----------------------------------------------------------------------------
(* An item a coroutine has a handle to. *)
LEMMA TakenFacts ==
  ASSUME Inv, NEW i \in Items, Sound(Consumer(i)), pc[Consumer(i)] \in {"retained", "finalize"}
  PROVE  /\ At(chain, Owner(i), 1, 1, i) /\ SegmentOf(i) = 1 /\ Owner(i) \in Chains
         /\ Alive(chain, Owner(i)) /\ On(chain, Owner(i), 1)
<1>1. IsTree(chain) /\ Consumer(i) \in Coros
  BY CoroFacts DEF Inv
<1>2. Home(i) # {}
  BY <1>1, SoundFacts DEF Refers
<1>3. PICK m : At(chain, Owner(i), SegmentOf(i), m, i) /\ Alive(chain, Owner(i))
  BY <1>1, <1>2, HomeFacts
<1>4. SegmentOf(i) = 1 /\ m = 1 /\ On(chain, Owner(i), 1)
  BY <1>3 DEF Inv, Places, Ever
<1> QED
  BY <1>3, <1>4 DEF At, Chains

(* The invariant is kept by finalize, up to the lock of the chain *)
(* (forque.hpp:340).                                              *)
LEMMA FinalizeInv ==
  ASSUME Inv, NEW i \in Items, Finalize(i)
  PROVE  Inv'
<1> DEFINE c == Consumer(i)
           o == Owner(i)
           q == Par(chain, o)
<1>1. /\ pc[c] = "retained" /\ Sound(c) /\ Free(q)
      /\ frames' = [frames EXCEPT ![c] = <<Frame(q, {})>>]
      /\ pc' = [pc EXCEPT ![c] = "finalize"]
      /\ UNCHANGED <<chain, call, tag, before, filled, ready, interrupted, stopped>>
  BY DEF Finalize, Par
<1>2. c \in Coros /\ Rooted(chain) /\ Headed(chain) /\ Unique(chain)
  BY CoroFacts DEF Inv, IsTree
<1>3. At(chain, o, 1, 1, i) /\ o \in DOMAIN chain
  BY <1>1, TakenFacts DEF Chains
<1>4. q \in Nat /\ q \in DOMAIN chain \cup {Meta}
  <2>1. CASE o = Root
    BY <1>2, <2>1 DEF Headed, Meta
  <2>2. CASE o # Root
    BY <1>2, <1>3, <2>2, RootedFacts
  <2> QED
    BY <2>1, <2>2
<1> HIDE DEF o, q
<1>5. <<Frame(q, {})>> \in Seq(FrameType)
  BY <1>4, FrameTyped
<1>6. Others(c) /\ frames'[c] = <<Frame(q, {})>> /\ pc'[c] = "finalize" /\ call'[c] = call[c]
  <2> DEFINE fs == <<Frame(q, {})>>
  <2> HIDE DEF fs
  <2>1. /\ frames' \in [Coros -> Seq(FrameType)] /\ frames'[c] = fs
        /\ \A d \in Coros : d # c => frames'[d] = frames[d]
    BY <1>1, <1>2, <1>5, FramesPut DEF fs
  <2>2. /\ DOMAIN pc' = Coros /\ pc'[c] = "finalize"
        /\ \A d \in Coros : d # c => pc'[d] = pc[d]
    BY <1>1, <1>2, PcPut
  <2>3. call' \in [Coros -> CallType] /\ \A d \in Coros : call'[d] = call[d]
    BY <1>1, CallKept
  <2> QED
    BY <1>2, <2>1, <2>2, <2>3 DEF Others, fs
<1>7. Finalizing(chain, frames'[c], i) /\ call'[c] = NoCall
  <2>1. \A p, k, m : At(chain, p, k, m, i) => p = o
    BY <1>2, <1>3 DEF Unique
  <2>2. q = Par(chain, o)
    BY DEF q
  <2>3. call[c] = NoCall
    BY <1>1 DEF Inv, Fits, ConsumerFits
  <2> QED
    BY <1>4, <1>6, <2>1, <2>2, <2>3 DEF Finalizing
<1>8. ConsumerFits(chain, pc'[c], frames'[c], call'[c], i)
  BY <1>6, <1>7 DEF ConsumerFits
<1>9. Own(c, frames'[c])
  <2>1. OnlyBy(c, q)
    BY <1>1, FreeFacts DEF OnlyBy
  <2>2. \A n \in DOMAIN frames'[c] : n = 1 /\ frames'[c][n].chain = q
    BY <1>6 DEF Frame
  <2> QED
    BY <2>1, <2>2 DEF Own
<1>10. pc'[c] \in Label("consume") \ {"get"}
  BY <1>6 DEF Label
<1> QED
  BY <1>1, <1>6, <1>8, <1>9, <1>10, StillInv

-----------------------------------------------------------------------------
(* clean_parent: p is active and still there. *)
LEMMA CleanInv ==
  ASSUME Inv, NEW i \in Items, pc[Consumer(i)] # "get", NEW p, NEW tree,
         CleanParent(Consumer(i), p, tree),
         UNCHANGED <<tag, before, filled, interrupted>>,
         IsTree(tree), p \in DOMAIN tree, p # Root, Count(tree, p) > 0, On(tree, p, 1),
         NEW h, Eased(chain, tree, h, Meta), OnlyBy(Consumer(i), h),
         Slid(chain, tree), \A x : Stays(chain, tree, x),
         \A q, k, m : ~At(tree, q, k, m, i)
  PROVE  Inv'
<1> DEFINE c == Consumer(i)
           ca == [on |-> tree[p].parent, tag |-> tree[p].tag,
                  version |-> Head(tree[p].segments).version, child |-> p]
<1>1. /\ chain' = tree /\ call' = [call EXCEPT ![c] = ca]
      /\ frames' = [frames EXCEPT ![c] = <<>>]
      /\ pc' = [pc EXCEPT ![c] = "remove"]
      /\ UNCHANGED <<ready, stopped>>
  BY DEF CleanParent, PutNothing
<1>2. c \in Coros /\ Rooted(tree) /\ Linked(tree) /\ Actives(tree)
  BY CoroFacts DEF IsTree
<1>3. /\ ca.on = Par(tree, p) /\ ca.tag = tree[p].tag /\ ca.child = p
      /\ ca.on \in DOMAIN tree /\ p \in Nat /\ ca \in CallType
  <2>1. /\ Par(tree, p) \in DOMAIN tree /\ Par(tree, p) \in Nat /\ Par(tree, p) = tree[p].parent
        /\ p \in Nat /\ tree[p].tag \in Seq(Keys)
    BY <1>2, RootedFacts
  <2>2. Head(tree[p].segments).version \in Nat
    <3>1. Ver(tree, p, 1) \in Nat /\ tree[p].segments \in Seq(SegmentType) /\ tree[p].segments # <<>>
      BY <1>2, RootedFacts
    <3>2. Head(tree[p].segments) = tree[p].segments[1]
      BY <3>1
    <3> QED
      BY <3>1, <3>2 DEF Ver
  <2> QED
    BY <2>1, <2>2 DEF CallType
<1>4. Removing(tree, ca)
  <2> SUFFICES ASSUME Alive(tree, ca.on) PROVE On(tree, ca.on, 1) /\ Ended(tree, ca.on, p)
    BY <1>3 DEF Removing
  <2>1. Alive(tree, p)
    BY <1>2, <1>3, AliveFacts, RootedFacts
  <2>2. Count(tree, ca.on) > 0
    <3>1. ca.on \in DOMAIN tree /\ tree[ca.on].segments # <<>>
      BY <1>2, <1>3, AliveFacts
    <3>2. Count(tree, ca.on) \in Nat /\ Count(tree, ca.on) # 0
      BY <1>2, <3>1, RootedFacts
    <3> QED
      BY <3>2
  <2>3. PICK k : Kid(tree, ca.on, k, p)
    BY <1>2, <1>3, <2>2 DEF Linked
  <2> QED
    BY <1>2, <2>1, <2>3 DEF Actives, Ended
<1> HIDE DEF ca
<1>5. Others(c) /\ frames'[c] = <<>> /\ pc'[c] = "remove" /\ call'[c] = ca
  <2>1. <<>> \in Seq(FrameType)
    OBVIOUS
  <2>2. /\ frames' \in [Coros -> Seq(FrameType)] /\ frames'[c] = <<>>
        /\ \A d \in Coros : d # c => frames'[d] = frames[d]
    BY <1>1, <1>2, <2>1, FramesPut
  <2>3. /\ DOMAIN pc' = Coros /\ pc'[c] = "remove"
        /\ \A d \in Coros : d # c => pc'[d] = pc[d]
    BY <1>1, <1>2, PcPut
  <2>4. /\ call' \in [Coros -> CallType] /\ call'[c] = ca
        /\ \A d \in Coros : d # c => call'[d] = call[d]
    BY <1>1, <1>2, <1>3, CallPut
  <2> QED
    BY <2>2, <2>3, <2>4 DEF Others
<1>6. ConsumerFits(chain', pc'[c], frames'[c], call'[c], i)
  BY <1>1, <1>4, <1>5 DEF ConsumerFits
<1>7. Own(c, frames'[c])
  BY <1>5 DEF Own
<1>8. pc'[c] \in Label("consume") \ {"get"}
  BY <1>5 DEF Label
<1>9. Offers /\ stopped' \in BOOLEAN
  BY <1>1, OffersNothing DEF Inv, Types
<1>10. /\ IsTree(chain') /\ Eased(chain, chain', h, Meta) /\ OnlyBy(c, h)
       /\ Slid(chain, chain') /\ \A x : Stays(chain, chain', x)
       /\ \A q, k, m : ~At(chain', q, k, m, i)
  BY <1>1
<1> QED
  BY <1>5, <1>6, <1>7, <1>8, <1>9, <1>10, ConsumeInv

(* activate_sibling with nothing left to do. *)
LEMMA SiblingInv ==
  ASSUME Inv, NEW i \in Items, pc[Consumer(i)] # "get", NEW j,
         ActivateSibling(Consumer(i), <<>>, j),
         UNCHANGED <<tag, before, filled, interrupted>>, stopped' \in BOOLEAN,
         IsTree(chain'), NEW p, At(chain', p, 1, 1, j), On(chain', p, 1), ~Ever(j),
         NEW h, Eased(chain, chain', h, Meta), OnlyBy(Consumer(i), h),
         Slid(chain, chain'), \A x : Stays(chain, chain', x),
         \A q, k, m : ~At(chain', q, k, m, i)
  PROVE  Inv'
<1>1. Put({j} \cap filled) /\ Finish(Consumer(i))
  BY DEF ActivateSibling
<1>2. j \in Items /\ Foremost(chain', j)
  BY HeadForemost, AtFacts DEF IsTree
<1>3. Offers
  BY <1>1, <1>2, OffersOne
<1> QED
  BY <1>1, <1>3, FinishInv

(* activate_children at the only frame. *)
LEMMA ChildrenInv ==
  ASSUME Inv, NEW i \in Items, pc[Consumer(i)] # "get",
         NEW p \in Nat, NEW C \in SUBSET Nat,
         ActivateChildren(Consumer(i), <<>>, p, C),
         UNCHANGED <<tag, before, filled, interrupted, stopped>>,
         IsTree(chain'), Awakening(chain', Frame(p, C)), OnlyBy(Consumer(i), p),
         NEW h, Eased(chain, chain', h, Meta), OnlyBy(Consumer(i), h),
         Slid(chain, chain'), \A x : Stays(chain, chain', x),
         \A q, k, m : ~At(chain', q, k, m, i)
  PROVE  Inv'
<1> DEFINE c == Consumer(i)
           f == Frame(p, C)
           fs == <<f>>
<1>1. f \in FrameType /\ f.chain = p
  BY FrameTyped
<1>2. Awakening(chain', f)
  OBVIOUS
<1> HIDE DEF f
<1>3. fs \in Seq(FrameType) /\ fs # <<>> /\ fs = Append(<<>>, f) /\ \A n \in DOMAIN fs : n = 1 /\ fs[n] = f
  BY <1>1
<1>4. /\ frames' = [frames EXCEPT ![c] = fs]
      /\ call' = [call EXCEPT ![c] = NoCall]
      /\ pc' = [pc EXCEPT ![c] = "activate"]
      /\ UNCHANGED ready
  <2>1. /\ frames' = [frames EXCEPT ![c] = Append(<<>>, f)]
        /\ call' = [call EXCEPT ![c] = NoCall]
        /\ pc' = [pc EXCEPT ![c] = "activate"]
        /\ UNCHANGED ready
    BY DEF ActivateChildren, PutNothing, f
  <2> QED
    BY <1>3, <2>1
<1> HIDE DEF fs
<1>5. Others(c) /\ frames'[c] = fs /\ pc'[c] = "activate" /\ call'[c] = NoCall
  <2>1. c \in Coros
    BY CoroFacts
  <2>2. /\ frames' \in [Coros -> Seq(FrameType)] /\ frames'[c] = fs
        /\ \A d \in Coros : d # c => frames'[d] = frames[d]
    BY <1>3, <1>4, <2>1, FramesPut
  <2>3. /\ DOMAIN pc' = Coros /\ pc'[c] = "activate"
        /\ \A d \in Coros : d # c => pc'[d] = pc[d]
    BY <1>4, <2>1, PcPut
  <2>4. /\ call' \in [Coros -> CallType] /\ call'[c] = NoCall
        /\ \A d \in Coros : d # c => call'[d] = call[d]
    BY <1>4, <2>1, NoCallType, CallPut
  <2> QED
    BY <2>2, <2>3, <2>4 DEF Others
<1>6. ConsumerFits(chain', pc'[c], frames'[c], call'[c], i)
  BY <1>2, <1>3, <1>5 DEF ConsumerFits
<1>7. Own(c, frames'[c])
  BY <1>1, <1>3, <1>5 DEF Own
<1>8. pc'[c] \in Label("consume") \ {"get"}
  BY <1>5 DEF Label
<1>9. Offers /\ stopped' \in BOOLEAN
  BY <1>4, OffersNothing DEF Inv, Types
<1> QED
  BY <1>5, <1>6, <1>7, <1>8, <1>9, ConsumeInv

(* What a pop leaves. *)
LEMMA PopFacts ==
  ASSUME Inv, NEW i \in Items, NEW p \in Chains, At(chain, p, 1, 1, i), Alive(chain, p),
         On(chain, p, 1), pc[Consumer(i)] # "get",
         NEW u, Popped(chain, u, p)
  PROVE  /\ IsTree(u) /\ Eased(chain, u, p, Meta) /\ Slid(chain, u) /\ \A x : Stays(chain, u, x)
         /\ \A q, k, m : ~At(u, q, k, m, i)
         /\ p \in DOMAIN u /\ Count(u, p) = Count(chain, p) /\ Count(u, p) > 0 /\ On(u, p, 1)
         /\ \A j : At(u, p, 1, 1, j) => ~Ever(j)
         /\ Bare(u, p) => Awakening(u, Frame(p, Chi(u, p, 1)))
<1>1. IsTree(chain) /\ Rooted(chain) /\ p \in DOMAIN chain /\ Unique(chain) /\ Linked(chain) /\ Actives(chain)
  BY DEF Inv, IsTree, Chains
<1>2. IsTree(u) /\ \A q \in DOMAIN chain : Alive(u, q) <=> Alive(chain, q)
  BY <1>1, PoppedTree
<1>3. Eased(chain, u, p, Meta) /\ Slid(chain, u) /\ \A x : Stays(chain, u, x)
  BY <1>1, EasedPopped
<1>4. ASSUME NEW q, NEW k, NEW m, At(u, q, k, m, i) PROVE FALSE
  <2>1. CASE q = p /\ k = 1
    <3>1. m \in Nat /\ 1 <= m /\ At(chain, p, 1, m + 1, i)
      BY <1>4, <2>1 DEF Popped
    <3>2. m + 1 = 1
      BY <1>1, <3>1 DEF Unique
    <3> QED
      BY <3>1, <3>2
  <2>2. CASE q # p \/ k # 1
    <3>1. At(chain, q, k, m, i)
      BY <1>4, <2>2 DEF Popped
    <3> QED
      BY <1>1, <2>2, <3>1 DEF Unique
  <2> QED
    BY <2>1, <2>2
<1>5. p \in DOMAIN u /\ Count(u, p) = Count(chain, p) /\ Count(u, p) > 0 /\ On(u, p, 1)
  <2>1. Count(chain, p) > 0
    BY <1>1, AliveFacts, RootedFacts
  <2> QED
    BY <1>1, <2>1 DEF Popped, Same
<1>6. ASSUME NEW j, At(u, p, 1, 1, j) PROVE ~Ever(j)
  <2>1. At(chain, p, 1, 1 + 1, j)
    BY <1>6 DEF Popped
  <2>2. ~Ever(j) \/ 1 + 1 = 1
    BY <2>1 DEF Inv, Places
  <2> QED
    BY <2>2
<1>7. ASSUME Bare(u, p) PROVE Awakening(u, Frame(p, Chi(u, p, 1)))
  <2>1. \A d : d \in Chi(u, p, 1) <=> Kid(u, p, 1, d)
    <3>1. 1 \in 1..Count(u, p)
      BY <1>1, <1>5, RootedFacts
    <3> QED
      BY <1>5, <3>1 DEF Kid
  <2>2. ASSUME NEW d, Kid(u, p, 1, d) PROVE d \in DOMAIN u /\ ~On(u, d, 1)
    <3>1. Kid(chain, p, 1, d) /\ d \in DOMAIN chain /\ d \in DOMAIN u
      BY <1>1, <2>2 DEF Popped, Linked, Same
    <3>2. Alive(chain, d)
      <4>1. d # Root /\ Par(chain, d) = p /\ Count(chain, d) > 0
        BY <1>1, <3>1 DEF Linked
      <4> QED
        BY <1>1, <3>1, <4>1, AliveFacts, RootedFacts
    <3>3. ~On(chain, d, 1)
      BY <1>1, <3>1, <3>2 DEF Actives, Bare
    <3> QED
      BY <3>1, <3>3 DEF Popped
  <2>3. \A d \in Chi(u, p, 1) : Kid(u, p, 1, d) /\ ~On(u, d, 1) /\ d \in DOMAIN u
    BY <2>1, <2>2
  <2> DEFINE C == Chi(u, p, 1)
             f == Frame(p, C)
  <2>4. f.chain = p /\ f.todo = C
    BY DEF Frame
  <2> HIDE DEF f, C
  <2>5. Awakening(u, f)
    BY <1>5, <1>7, <2>3, <2>4 DEF Awakening, C
  <2> QED
    BY <2>5 DEF f, C
<1> QED
  BY <1>2, <1>3, <1>4, <1>5, <1>6, <1>7

-----------------------------------------------------------------------------
(* The invariant is kept by the pop of the item (forque.hpp:347). *)
LEMMA PopItemInv ==
  ASSUME Inv, NEW i \in Items, PopItem(i)
  PROVE  Inv'
<1> DEFINE c == Consumer(i)
           p == Owner(i)
           tree == [chain EXCEPT ![p].segments[1].siblings = Tail(@)]
<1>1. /\ pc[c] = "finalize" /\ Sound(c) /\ pc[c] # "get"
  <2>1. pc[c] = "finalize" /\ Sound(c)
    BY Zenon DEF PopItem
  <2> QED
    BY <2>1
<1>2. /\ At(chain, p, 1, 1, i) /\ SegmentOf(i) = 1 /\ p \in Chains
      /\ Alive(chain, p) /\ On(chain, p, 1)
  <2>1. Sound(Consumer(i)) /\ pc[Consumer(i)] \in {"retained", "finalize"}
    BY <1>1
  <2> QED
    BY <2>1, TakenFacts, Zenon
<1>3. /\ UNCHANGED <<tag, before, filled, interrupted>>
      /\ Free(p)
      /\ \/ /\ tree[p].segments[1].siblings # <<>>
            /\ chain' = tree
            /\ ActivateSibling(c, <<>>, Head(tree[p].segments[1].siblings))
            /\ UNCHANGED stopped
         \/ /\ tree[p].segments[1].siblings = <<>> /\ tree[p].segments[1].children # {}
            /\ chain' = tree
            /\ ActivateChildren(c, <<>>, p, tree[p].segments[1].children)
            /\ UNCHANGED stopped
         \/ /\ tree[p].segments[1].siblings = <<>> /\ tree[p].segments[1].children = {}
            /\ NextSegment(c, p, 1, tree)
  BY <1>2, Zenon DEF PopItem
<1>4. Rooted(chain) /\ IsTree(chain) /\ p \in DOMAIN chain /\ Forked(chain)
  BY <1>2 DEF Inv, IsTree, Chains
<1>5. Popped(chain, tree, p)
  <2>1. Count(chain, p) > 0
    BY <1>2, <1>4, AliveFacts, RootedFacts
  <2>2. Sib(chain, p, 1) # <<>>
    BY <1>2 DEF At
  <2> QED
    BY <1>4, <2>1, <2>2, PoppedFacts
<1> HIDE DEF p, tree
<1>6. /\ IsTree(tree) /\ Eased(chain, tree, p, Meta) /\ Slid(chain, tree) /\ \A x : Stays(chain, tree, x)
      /\ \A q, k, m : ~At(tree, q, k, m, i)
      /\ p \in DOMAIN tree /\ Count(tree, p) = Count(chain, p) /\ Count(tree, p) > 0 /\ On(tree, p, 1)
      /\ \A j : At(tree, p, 1, 1, j) => ~Ever(j)
      /\ Bare(tree, p) => Awakening(tree, Frame(p, Chi(tree, p, 1)))
  BY <1>1, <1>2, <1>5, PopFacts
<1>7. /\ Rooted(tree) /\ 1 \in 1..Count(tree, p) /\ Count(tree, p) \in Nat
      /\ Sib(tree, p, 1) \in Seq(Items) /\ Chi(tree, p, 1) \in SUBSET Nat /\ p \in Nat
  <2>1. Rooted(tree) /\ p \in DOMAIN tree
    BY <1>6 DEF IsTree
  <2>2. Count(tree, p) \in Nat /\ p \in Nat
    BY <2>1, RootedFacts
  <2>3. 1 \in 1..Count(tree, p)
    BY <1>6, <2>2
  <2> QED
    BY <2>1, <2>2, <2>3, RootedFacts
<1>8. OnlyBy(c, p)
  BY <1>3, FreeFacts DEF OnlyBy
<1>9. tree[p].segments[1].siblings = Sib(tree, p, 1) /\ tree[p].segments[1].children = Chi(tree, p, 1)
  BY DEF Sib, Chi
<1>10. CASE /\ Sib(tree, p, 1) # <<>> /\ chain' = tree
            /\ ActivateSibling(c, <<>>, Head(Sib(tree, p, 1)))
            /\ UNCHANGED stopped
  <2> DEFINE j == Head(Sib(tree, p, 1))
  <2>1. At(tree, p, 1, 1, j)
    <3>1. 1 \in 1..Len(Sib(tree, p, 1)) /\ j = Sib(tree, p, 1)[1]
      BY <1>7, <1>10
    <3> QED
      BY <1>6, <1>7, <3>1 DEF At
  <2>2. ActivateSibling(c, <<>>, j)
    BY <1>10
  <2>3. ~Ever(j)
    BY <1>6, <2>1
  <2> HIDE DEF j
  <2>4. /\ IsTree(chain') /\ Eased(chain, chain', p, Meta) /\ Slid(chain, chain') /\ \A x : Stays(chain, chain', x)
        /\ \A q, k, m : ~At(chain', q, k, m, i)
        /\ At(chain', p, 1, 1, j) /\ On(chain', p, 1)
    BY <1>6, <1>10, <2>1
  <2>5. stopped' \in BOOLEAN
    BY <1>10 DEF Inv, Types
  <2> QED
    BY <1>1, <1>3, <1>8, <2>2, <2>3, <2>4, <2>5, SiblingInv
<1>11. CASE /\ Sib(tree, p, 1) = <<>> /\ chain' = tree
            /\ ActivateChildren(c, <<>>, p, Chi(tree, p, 1))
            /\ UNCHANGED stopped
  <2> DEFINE C == Chi(tree, p, 1)
  <2>1. Bare(tree, p)
    <3>1. ASSUME NEW x, At(tree, p, 1, 1, x) PROVE FALSE
      <4>1. 1 \in 1..Len(Sib(tree, p, 1))
        BY <3>1 DEF At
      <4> QED
        BY <1>11, <4>1
    <3> QED
      BY <3>1 DEF Bare
  <2>2. C \in SUBSET Nat /\ ActivateChildren(c, <<>>, p, C) /\ Awakening(tree, Frame(p, C))
    BY <1>6, <1>7, <1>11, <2>1
  <2> HIDE DEF C
  <2>4. /\ IsTree(chain') /\ Eased(chain, chain', p, Meta) /\ Slid(chain, chain') /\ \A x : Stays(chain, chain', x)
        /\ \A q, k, m : ~At(chain', q, k, m, i)
        /\ Awakening(chain', Frame(p, C))
    BY <1>6, <1>11, <2>2
  <2> QED
    BY <1>1, <1>3, <1>7, <1>8, <1>11, <2>2, <2>4, ChildrenInv
<1>12. CASE Chi(tree, p, 1) = {} /\ NextSegment(c, p, 1, tree)
  <2>1. ~(Count(tree, p) > 1)
    <3>1. Count(chain, p) > 1 => \E d : Kid(chain, p, 1, d)
      <4>1. \A k \in Nat : 1 <= k /\ k <= Count(chain, p) /\ k < Count(chain, p) =>
              \E d : Kid(chain, p, k, d)
        BY <1>4 DEF Forked
      <4> QED
        BY <1>6, <1>7, <4>1
    <3>2. \A d : ~Kid(chain, p, 1, d)
      BY <1>5, <1>12 DEF Popped, Kid
    <3> QED
      BY <1>6, <3>1, <3>2
  <2>2. \/ Count(tree, p) = 1 /\ p # Root /\ CleanParent(c, p, tree)
        \/ /\ Count(tree, p) = 1 /\ p = Root
           /\ chain' = tree /\ stopped' = (stopped \/ interrupted) /\ Finish(c) /\ UNCHANGED ready
    BY <1>12, <2>1 DEF NextSegment, PutNothing, Count
  <2>3. CASE p # Root /\ CleanParent(c, p, tree)
    BY <1>1, <1>3, <1>6, <1>8, <2>3, CleanInv
  <2>4. CASE chain' = tree /\ stopped' = (stopped \/ interrupted) /\ Finish(c) /\ UNCHANGED ready
    <3>1. stopped' \in BOOLEAN /\ Offers
      BY <2>4, OffersNothing DEF Inv, Types
    <3>2. /\ IsTree(chain') /\ Eased(chain, chain', p, Meta) /\ Slid(chain, chain') /\ \A x : Stays(chain, chain', x)
          /\ \A q, k, m : ~At(chain', q, k, m, i)
      BY <1>6, <2>4
    <3> QED
      BY <1>1, <1>3, <1>8, <2>4, <3>1, <3>2, FinishInv
  <2> QED
    BY <2>2, <2>3, <2>4
<1>13. /\ \/ /\ Sib(tree, p, 1) # <<>>
             /\ chain' = tree
             /\ ActivateSibling(c, <<>>, Head(Sib(tree, p, 1)))
             /\ UNCHANGED stopped
          \/ /\ Sib(tree, p, 1) = <<>> /\ Chi(tree, p, 1) # {}
             /\ chain' = tree
             /\ ActivateChildren(c, <<>>, p, Chi(tree, p, 1))
             /\ UNCHANGED stopped
          \/ /\ Sib(tree, p, 1) = <<>> /\ Chi(tree, p, 1) = {}
             /\ NextSegment(c, p, 1, tree)
  BY <1>3, Zenon DEF Sib, Chi
<1> QED
  BY <1>10, <1>11, <1>12, <1>13, Zenon

-----------------------------------------------------------------------------
(* The invariant is kept when remove_child has locked the parent. *)
LEMMA RemoveChildInv ==
  ASSUME Inv, NEW i \in Items, RemoveChild(i)
  PROVE  Inv'
<1> DEFINE c == Consumer(i)
           o == call[c].on
           q == Par(chain, o)
           fs == <<Frame(q, {})>>
<1>1. /\ pc[c] = "remove" /\ Sound(c) /\ Free(q)
      /\ frames' = [frames EXCEPT ![c] = fs]
      /\ pc' = [pc EXCEPT ![c] = "find"]
      /\ UNCHANGED <<chain, call, tag, before, filled, ready, interrupted, stopped>>
  BY DEF RemoveChild, Par
<1>2. c \in Coros /\ Rooted(chain) /\ Headed(chain)
  BY CoroFacts DEF Inv, IsTree
<1>3. Removing(chain, call[c])
  BY <1>1 DEF Inv, Fits, ConsumerFits
<1>4. q \in Nat /\ o \in DOMAIN chain
  <2>1. o \in DOMAIN chain
    BY <1>3 DEF Removing
  <2> QED
    BY <1>2, <2>1, RootedFacts
<1> HIDE DEF q
<1>5. fs \in Seq(FrameType) /\ \A n \in DOMAIN fs : n = 1 /\ fs[n].chain = q
  <2>1. Frame(q, {}) \in FrameType /\ Frame(q, {}).chain = q
    BY <1>4, FrameTyped
  <2> QED
    BY <2>1
<1>51. fs = <<Frame(Par(chain, call[c].on), {})>>
  BY DEF q
<1> HIDE DEF fs, o
<1>6. Others(c) /\ frames'[c] = fs /\ pc'[c] = "find" /\ call'[c] = call[c]
  <2>1. /\ frames' \in [Coros -> Seq(FrameType)] /\ frames'[c] = fs
        /\ \A d \in Coros : d # c => frames'[d] = frames[d]
    BY <1>1, <1>2, <1>5, FramesPut
  <2>2. /\ DOMAIN pc' = Coros /\ pc'[c] = "find"
        /\ \A d \in Coros : d # c => pc'[d] = pc[d]
    BY <1>1, <1>2, PcPut
  <2>3. call' \in [Coros -> CallType] /\ \A d \in Coros : call'[d] = call[d]
    BY <1>1, CallKept
  <2> QED
    BY <1>2, <2>1, <2>2, <2>3 DEF Others
<1>8. ConsumerFits(chain, pc'[c], frames'[c], call'[c], i)
  BY <1>3, <1>51, <1>6 DEF ConsumerFits
<1>9. Own(c, frames'[c])
  <2>1. OnlyBy(c, q)
    BY <1>1, FreeFacts DEF OnlyBy
  <2> QED
    BY <1>5, <1>6, <2>1 DEF Own
<1>10. pc'[c] \in Label("consume") \ {"get"}
  BY <1>6 DEF Label
<1> QED
  BY <1>1, <1>6, <1>8, <1>9, <1>10, StillInv

(* The invariant is kept when remove_child looks the child up. *)
LEMMA FindChildInv ==
  ASSUME Inv, NEW i \in Items, FindChild(i)
  PROVE  Inv'
<1> DEFINE c == Consumer(i)
           p == call[c].on
           q == Par(chain, p)
           f == Frame(q, {})
           g == Frame(p, {})
           fs == <<f, g>>
<1>1. /\ pc[c] = "find" /\ Free(p) /\ pc[c] # "get"
      /\ UNCHANGED <<chain, tag, before, filled, ready, interrupted, stopped>>
      /\ \/ Finish(c)
         \/ /\ frames' = [frames EXCEPT ![c] = Append(@, g)]
            /\ pc' = [pc EXCEPT ![c] = "compare"]
            /\ UNCHANGED call
  BY DEF FindChild
<1>2. c \in Coros /\ Rooted(chain)
  BY CoroFacts DEF Inv, IsTree
<1>3. Removing(chain, call[c]) /\ frames[c] = <<f>>
  BY <1>1 DEF Inv, Fits, ConsumerFits
<1>4. q \in Nat /\ p \in Nat
  <2>1. p \in DOMAIN chain
    BY <1>3 DEF Removing
  <2> QED
    BY <1>2, <2>1, RootedFacts
<1>5. f \in FrameType /\ f.chain = q /\ g \in FrameType /\ g.chain = p
  BY <1>4, FrameTyped
<1>7. CASE Finish(c)
  <2>1. /\ IsTree(chain') /\ Slid(chain, chain') /\ \A x : Stays(chain, chain', x)
        /\ \E h : Eased(chain, chain', h, Meta) /\ \A d \in Coros : OnlyBy(d, h)
    BY <1>1, StillEased
  <2>2. PICK h : Eased(chain, chain', h, Meta) /\ OnlyBy(c, h)
    BY <1>2, <2>1
  <2>3. \A x, k, m : ~At(chain', x, k, m, i)
    BY <1>1, <2>1, GoneFacts
  <2>4. Offers /\ stopped' \in BOOLEAN
    BY <1>1, OffersNothing DEF Inv, Types
  <2> QED
    BY <1>1, <1>7, <2>1, <2>2, <2>3, <2>4, FinishInv
<1>8. CASE /\ frames' = [frames EXCEPT ![c] = Append(@, g)]
           /\ pc' = [pc EXCEPT ![c] = "compare"]
           /\ UNCHANGED call
  <2>1. fs = <<Frame(Par(chain, call[c].on), {}), Frame(call[c].on, {})>>
    OBVIOUS
  <2>2. \A x \in Coros : \A n \in DOMAIN frames[x] : frames[x][n].chain # p
    BY <1>1, FreeFacts
  <2> HIDE DEF f, g, p, q
  <2>3. frames' = [frames EXCEPT ![c] = fs] /\ fs \in Seq(FrameType)
    <3>1. /\ <<f>> \in Seq(FrameType) /\ Append(<<f>>, g) \in Seq(FrameType)
          /\ Len(Append(<<f>>, g)) = 2 /\ Append(<<f>>, g)[1] = f /\ Append(<<f>>, g)[2] = g
          /\ fs \in Seq(FrameType) /\ Len(fs) = 2 /\ fs[1] = f /\ fs[2] = g
      BY <1>5
    <3>2. Append(<<f>>, g) = fs
      <4> DEFINE a == Append(<<f>>, g)
      <4>1. /\ a \in Seq(FrameType) /\ fs \in Seq(FrameType) /\ Len(a) = 2 /\ Len(fs) = 2
            /\ a[1] = fs[1] /\ a[2] = fs[2]
        BY <3>1
      <4> HIDE DEF a, fs
      <4>2. \A n \in 1..Len(a) : a[n] = fs[n]
        BY <4>1
      <4> QED
        BY <4>1, <4>2, SeqEqual DEF a
    <3>3. frames[c] \o <<>> = frames[c] /\ frames' = [frames EXCEPT ![c] = Append(frames[c], g)]
      BY <1>8
    <3> QED
      BY <1>3, <3>1, <3>2, <3>3
  <2>4. \A n \in DOMAIN fs : (n = 1 /\ fs[n].chain = q) \/ (n = 2 /\ fs[n].chain = p)
    BY <1>5
  <2> HIDE DEF fs
  <2>5. Others(c) /\ frames'[c] = fs /\ pc'[c] = "compare" /\ call'[c] = call[c]
    <3>1. /\ frames' \in [Coros -> Seq(FrameType)] /\ frames'[c] = fs
          /\ \A d \in Coros : d # c => frames'[d] = frames[d]
      BY <1>2, <2>3, FramesPut
    <3>2. /\ DOMAIN pc' = Coros /\ pc'[c] = "compare"
          /\ \A d \in Coros : d # c => pc'[d] = pc[d]
      BY <1>2, <1>8, PcPut
    <3>3. call' \in [Coros -> CallType] /\ \A d \in Coros : call'[d] = call[d]
      BY <1>8, CallKept
    <3> QED
      BY <1>2, <3>1, <3>2, <3>3 DEF Others
  <2>6. ConsumerFits(chain, pc'[c], frames'[c], call'[c], i)
    BY <1>3, <2>1, <2>5 DEF ConsumerFits
  <2>7. Own(c, frames'[c])
    <3>1. frames[c][1].chain = q /\ 1 \in DOMAIN frames[c]
      BY <1>3, <1>5
    <3>2. p # q
      BY <1>2, <2>2, <3>1
    <3>3. OnlyBy(c, p)
      BY <2>2 DEF OnlyBy
    <3>4. OnlyBy(c, q)
      BY <1>2, <3>1 DEF OnlyBy, Inv, Apart
    <3> QED
      BY <2>4, <2>5, <3>2, <3>3, <3>4 DEF Own
  <2>8. pc'[c] \in Label("consume") \ {"get"}
    BY <2>5 DEF Label
  <2> QED
    BY <1>1, <2>5, <2>6, <2>7, <2>8, StillInv
<1> QED
  BY <1>1, <1>7, <1>8

-----------------------------------------------------------------------------
(* The invariant is kept by forque::get. *)
LEMMA GetInv ==
  ASSUME Inv, NEW i \in Items, Get(i)
  PROVE  Inv'
<1> DEFINE c == Consumer(i)
<1>1. /\ pc[c] = "get" /\ ready[i] > 0
      /\ ready' = [ready EXCEPT ![i] = @ - 1]
      /\ pc' = [pc EXCEPT ![c] = "retained"]
      /\ UNCHANGED <<chain, frames, call, tag, before, filled, interrupted, stopped>>
  BY DEF Get
<1>2. /\ c \in Coros /\ Producer(i) # c
      /\ \A j \in Items : /\ Producer(j) \in Coros /\ Consumer(j) \in Coros
                          /\ Producer(j) # c /\ (j # i => Consumer(j) # c)
  BY CoroFacts
<1>3. /\ DOMAIN pc' = Coros /\ pc'[c] = "retained"
      /\ \A d \in Coros : d # c => pc'[d] = pc[d]
  BY <1>1, <1>2, PcPut
<1>4. Others(c)
  BY <1>1, <1>3, FramesKept, CallKept DEF Others
<1>5. /\ ready' \in [Items -> Nat] /\ ready'[i] = 0
      /\ \A j \in Items : j # i => ready'[j] = ready[j]
  <2>1. ready \in [Items -> Nat] /\ ready[i] <= 1
    BY DEF Inv, Types, Tokens
  <2>2. ready[i] = 1 /\ ready[i] - 1 = 0
    BY <1>1, <2>1
  <2> QED
    BY <1>1, <2>1, <2>2
<1>6. \A j \in Items : /\ pc'[Producer(j)] = pc[Producer(j)]
                       /\ j # i => pc'[Consumer(j)] = pc[Consumer(j)]
                       /\ Ever(j)' => Ever(j)
  <2>1. \A j \in Items : /\ pc'[Producer(j)] = pc[Producer(j)]
                         /\ j # i => pc'[Consumer(j)] = pc[Consumer(j)]
    BY <1>2, <1>3
  <2>2. Ever(i)
    BY <1>1 DEF Ever
  <2> QED
    BY <1>5, <2>1, <2>2 DEF Ever
<1>8. Types'
  <2>1. \A j \in Items : pc'[Producer(j)] \in Label("produce") /\ pc'[Consumer(j)] \in Label("consume")
    <3>1. \A j \in Items : pc[Producer(j)] \in Label("produce") /\ pc[Consumer(j)] \in Label("consume")
      BY DEF Inv, Types
    <3>2. pc'[Consumer(i)] \in Label("consume")
      BY <1>3 DEF Label
    <3> QED
      BY <1>6, <3>1, <3>2
  <2> QED
    BY <1>1, <1>3, <1>5, <2>1 DEF Inv, Types
<1>9. Tokens'
  <2> SUFFICES ASSUME NEW j \in Items
               PROVE  /\ ready'[j] <= 1 /\ (pc'[Consumer(j)] # "get" => ready'[j] = 0)
                      /\ Ever(j)' => pc'[Producer(j)] = "populated"
                      /\ j \in filled' <=> pc'[Producer(j)] = "populated"
    BY DEF Tokens
  <2>0. /\ ready[j] <= 1 /\ (pc[Consumer(j)] # "get" => ready[j] = 0)
        /\ Ever(j) => pc[Producer(j)] = "populated"
        /\ j \in filled <=> pc[Producer(j)] = "populated"
    BY DEF Inv, Tokens
  <2>1. CASE j # i
    BY <1>1, <1>5, <1>6, <2>0, <2>1
  <2>2. CASE j = i
    BY <1>1, <1>5, <1>6, <2>0, <2>2
  <2> QED
    BY <2>1, <2>2
<1>10. Apart'
  BY <1>1 DEF Apart, Inv
<1>0. /\ IsTree(chain') /\ Slid(chain, chain') /\ \A x : Stays(chain, chain', x)
      /\ \E h : Eased(chain, chain', h, Meta) /\ \A d \in Coros : OnlyBy(d, h)
  BY <1>1, StillEased
<1>01. PICK h : Eased(chain, chain', h, Meta) /\ OnlyBy(c, h)
  BY <1>0, <1>2
<1>11. Fits'
  <2>1. ConsumerFits(chain', pc'[c], frames'[c], call'[c], i)
    BY <1>1, <1>3 DEF Inv, Fits, ConsumerFits
  <2>2. \A d \in Coros : d # c => \A n \in DOMAIN frames[d] : frames[d][n].chain # h
    BY <1>01 DEF OnlyBy
  <2> QED
    BY <1>0, <1>01, <1>1, <1>2, <1>4, <2>1, <2>2, FitsKept
<1>12. Places'
  <2>1. \A q, k, m : At(chain', q, k, m, i) =>
           /\ pc'[Producer(i)] \in {"reserved", "populated"}
           /\ pc'[Consumer(i)] \in {"get", "retained", "finalize"}
           /\ tag'[i] = chain'[q].tag
           /\ Alive(chain', q) /\ Ever(i)' => k = 1 /\ m = 1 /\ On(chain', q, 1)
    <3> SUFFICES ASSUME NEW q, NEW k, NEW m, At(chain, q, k, m, i)
                 PROVE /\ pc'[Producer(i)] \in {"reserved", "populated"}
                       /\ pc'[Consumer(i)] \in {"get", "retained", "finalize"}
                       /\ tag[i] = chain[q].tag
                       /\ Alive(chain, q) /\ Ever(i)' => k = 1 /\ m = 1 /\ On(chain, q, 1)
      BY <1>1
    <3>1. /\ pc[Producer(i)] \in {"reserved", "populated"}
          /\ tag[i] = chain[q].tag
          /\ Alive(chain, q) /\ Ever(i) => k = 1 /\ m = 1 /\ On(chain, q, 1)
      BY DEF Inv, Places
    <3> QED
      BY <1>3, <1>6, <3>1
  <2> QED
    BY <1>0, <1>01, <1>1, <1>2, <1>4, <1>6, <2>1, PlacesKept
<1>13. Order'
  BY <1>1, <1>6, StillOrder
<1> QED
  BY <1>0, <1>8, <1>9, <1>10, <1>11, <1>12, <1>13 DEF Inv

-----------------------------------------------------------------------------
(* The invariant is kept by a reservation that is refused. *)
LEMMA RejectInv ==
  ASSUME Inv, NEW i \in Items, Reject(i)
  PROVE  Inv'
<1> DEFINE c == Producer(i)
<1>1. /\ pc[c] = "new"
      /\ pc' = [pc EXCEPT ![c] = "rejected"]
      /\ UNCHANGED <<chain, frames, call, tag, before, filled, ready, interrupted, stopped>>
  BY DEF Reject
<1>2. /\ c \in Coros /\ Consumer(i) # c
      /\ \A j \in Items : /\ Producer(j) \in Coros /\ Consumer(j) \in Coros
                          /\ Consumer(j) # c /\ (j # i => Producer(j) # c)
  BY CoroFacts
<1>3. /\ DOMAIN pc' = Coros /\ pc'[c] = "rejected"
      /\ \A d \in Coros : d # c => pc'[d] = pc[d]
  BY <1>1, <1>2, PcPut
<1>4. Others(c)
  BY <1>1, <1>3, FramesKept, CallKept DEF Others
<1>6. \A j \in Items : /\ pc'[Consumer(j)] = pc[Consumer(j)]
                       /\ j # i => pc'[Producer(j)] = pc[Producer(j)]
                       /\ Ever(j)' <=> Ever(j)
  <2>1. \A j \in Items : /\ pc'[Consumer(j)] = pc[Consumer(j)]
                         /\ j # i => pc'[Producer(j)] = pc[Producer(j)]
    BY <1>2, <1>3
  <2> QED
    BY <1>1, <2>1 DEF Ever
<1>7. /\ \A q, k, m : ~At(chain, q, k, m, i)
      /\ i \notin filled /\ ~Ever(i)
  BY <1>1, NewFacts
<1>8. Types'
  <2>1. \A j \in Items : pc'[Producer(j)] \in Label("produce") /\ pc'[Consumer(j)] \in Label("consume")
    <3>1. \A j \in Items : pc[Producer(j)] \in Label("produce") /\ pc[Consumer(j)] \in Label("consume")
      BY DEF Inv, Types
    <3>2. pc'[Producer(i)] \in Label("produce")
      BY <1>3 DEF Label
    <3> QED
      BY <1>6, <3>1, <3>2
  <2> QED
    BY <1>1, <1>3, <2>1 DEF Inv, Types
<1>9. Tokens'
  <2> SUFFICES ASSUME NEW j \in Items
               PROVE  /\ ready'[j] <= 1 /\ (pc'[Consumer(j)] # "get" => ready'[j] = 0)
                      /\ Ever(j)' => pc'[Producer(j)] = "populated"
                      /\ j \in filled' <=> pc'[Producer(j)] = "populated"
    BY DEF Tokens
  <2>0. /\ ready[j] <= 1 /\ (pc[Consumer(j)] # "get" => ready[j] = 0)
        /\ Ever(j) => pc[Producer(j)] = "populated"
        /\ j \in filled <=> pc[Producer(j)] = "populated"
    BY DEF Inv, Tokens
  <2>1. CASE j # i
    BY <1>1, <1>6, <2>0, <2>1
  <2>2. CASE j = i
    BY <1>1, <1>3, <1>6, <1>7, <2>0, <2>2
  <2> QED
    BY <2>1, <2>2
<1>10. Apart'
  BY <1>1 DEF Apart, Inv
<1>0. /\ IsTree(chain') /\ Slid(chain, chain') /\ \A x : Stays(chain, chain', x)
      /\ \E h : Eased(chain, chain', h, Meta) /\ \A d \in Coros : OnlyBy(d, h)
  BY <1>1, StillEased
<1>01. PICK h : Eased(chain, chain', h, Meta) /\ OnlyBy(c, h)
  BY <1>0, <1>2
<1>11. Fits'
  <2>1. ProducerFits(chain', pc'[c], frames'[c], call'[c], tag'[i])
    BY <1>1, <1>3 DEF Inv, Fits, ProducerFits
  <2>2. \A d \in Coros : d # c => \A n \in DOMAIN frames[d] : frames[d][n].chain # h
    BY <1>01 DEF OnlyBy
  <2> QED
    BY <1>0, <1>01, <1>1, <1>2, <1>4, <2>1, <2>2, FitsKept
<1>12. Places'
  <2>1. \A q, k, m : ~At(chain', q, k, m, i)
    BY <1>1, <1>7
  <2> QED
    BY <1>0, <1>01, <1>1, <1>2, <1>4, <1>6, <2>1, PlacesKept
<1>13. Order'
  <2>1. \A j \in Items : pc'[Producer(j)] = "descend" => pc[Producer(j)] = "descend"
    BY <1>3, <1>6
  <2>2. \A j \in Items : pc[Producer(j)] \notin {"new", "rejected"} =>
                         pc'[Producer(j)] \notin {"new", "rejected"}
    BY <1>1, <1>6
  <2> QED
    BY <1>1, <2>1, <2>2, StillOrder
<1> QED
  BY <1>0, <1>8, <1>9, <1>10, <1>11, <1>12, <1>13 DEF Inv

-----------------------------------------------------------------------------
(* The invariant is kept by reservation::release: the item is offered *)
(* only if it is first in an active segment, and has not been before. *)
LEMMA PopulateInv ==
  ASSUME Inv, NEW i \in Items, Populate(i)
  PROVE  Inv'
<1> DEFINE c == Producer(i)
           o == Owner(i)
           z == SegmentOf(i)
           S == IF Act(chain, o, z) /\ z = 1 /\ Sib(chain, o, z)[1] = i THEN {i} ELSE {}
<1>1. /\ pc[c] = "reserved" /\ Sound(c)
      /\ filled' = filled \cup {i}
      /\ Put(S)
      /\ pc' = [pc EXCEPT ![c] = "populated"]
      /\ UNCHANGED <<chain, frames, call, tag, before, interrupted, stopped>>
  BY DEF Populate, Act, Sib
<1>2. /\ c \in Coros /\ Consumer(i) # c
      /\ \A j \in Items : /\ Producer(j) \in Coros /\ Consumer(j) \in Coros
                          /\ Consumer(j) # c /\ (j # i => Producer(j) # c)
  BY CoroFacts
<1>3. /\ DOMAIN pc' = Coros /\ pc'[c] = "populated"
      /\ \A d \in Coros : d # c => pc'[d] = pc[d]
  BY <1>1, <1>2, PcPut
<1>4. Others(c)
  BY <1>1, <1>3, FramesKept, CallKept DEF Others
<1>5. IsTree(chain) /\ Unique(chain)
  BY DEF Inv, IsTree
<1>6. PICK m0 : At(chain, o, z, m0, i) /\ Alive(chain, o)
  <2>1. Home(i) # {}
    BY <1>1, <1>2, <1>5, SoundFacts DEF Refers
  <2> QED
    BY <1>5, <2>1, HomeFacts
<1>7. \A x : x \in S => x = i /\ \A q, k, m : At(chain, q, k, m, i) => k = 1 /\ m = 1 /\ On(chain, q, 1)
  <2> SUFFICES ASSUME Act(chain, o, z), z = 1, Sib(chain, o, z)[1] = i, NEW q, NEW k, NEW m, At(chain, q, k, m, i)
               PROVE  k = 1 /\ m = 1 /\ On(chain, q, 1)
    OBVIOUS
  <2>0. o \in DOMAIN chain /\ z \in 1..Count(chain, o) /\ m0 \in 1..Len(Sib(chain, o, z))
        /\ Len(Sib(chain, o, z)) \in Nat
    <3>1. o \in DOMAIN chain /\ z \in 1..Count(chain, o) /\ m0 \in 1..Len(Sib(chain, o, z))
      BY <1>6 DEF At
    <3>2. Rooted(chain)
      BY <1>5 DEF IsTree
    <3> QED
      BY <3>1, <3>2, RootedFacts
  <2>1. 1 \in 1..Len(Sib(chain, o, z))
    BY <2>0
  <2>2. At(chain, o, 1, 1, i)
    BY <2>0, <2>1 DEF At
  <2>3. q = o /\ k = 1 /\ m = 1
    BY <1>5, <2>2 DEF Unique
  <2>4. On(chain, o, 1)
    BY <2>0 DEF On
  <2> QED
    BY <2>3, <2>4
<1> HIDE DEF S, o, z
<1>8. ~Ever(i) /\ pc[Consumer(i)] = "get" /\ ready[i] = 0
  <2>1. ~Ever(i)
    BY <1>1 DEF Inv, Tokens
  <2>2. ready[i] \in Nat
    BY DEF Inv, Types
  <2> QED
    BY <2>1, <2>2 DEF Ever
<1>9. /\ ready' \in [Items -> Nat]
      /\ ready'[i] \in 0..1 /\ (ready'[i] > 0 => i \in S)
      /\ \A j \in Items : j # i => ready'[j] = ready[j]
  <2>1. /\ ready' \in [Items -> Nat]
        /\ \A j \in Items : ready'[j] = IF j \in S /\ ~stopped THEN ready[j] + 1 ELSE ready[j]
    BY <1>1, PutFacts DEF Inv, Types
  <2>2. \A j \in Items : j # i => ready'[j] = ready[j]
    BY <1>7, <2>1
  <2>3. CASE i \in S /\ ~stopped
    BY <1>8, <2>1, <2>2, <2>3
  <2>4. CASE ~(i \in S /\ ~stopped)
    BY <1>8, <2>1, <2>2, <2>4
  <2> QED
    BY <2>3, <2>4
<1>10. \A j \in Items : /\ pc'[Consumer(j)] = pc[Consumer(j)]
                        /\ j # i => pc'[Producer(j)] = pc[Producer(j)] /\ (Ever(j)' <=> Ever(j))
                                    /\ (j \in filled' <=> j \in filled)
  <2>1. \A j \in Items : /\ pc'[Consumer(j)] = pc[Consumer(j)]
                         /\ j # i => pc'[Producer(j)] = pc[Producer(j)]
    BY <1>2, <1>3
  <2>2. \A j \in Items : j # i => (j \in filled' <=> j \in filled)
    BY <1>1
  <2> QED
    BY <1>9, <2>1, <2>2 DEF Ever
<1>11. Types'
  <2>1. \A j \in Items : pc'[Producer(j)] \in Label("produce") /\ pc'[Consumer(j)] \in Label("consume")
    <3>1. \A j \in Items : pc[Producer(j)] \in Label("produce") /\ pc[Consumer(j)] \in Label("consume")
      BY DEF Inv, Types
    <3>2. pc'[Producer(i)] \in Label("produce")
      BY <1>3 DEF Label
    <3> QED
      BY <1>10, <3>1, <3>2
  <2> QED
    BY <1>1, <1>3, <1>9, <2>1 DEF Inv, Types
<1>12. Tokens'
  <2> SUFFICES ASSUME NEW j \in Items
               PROVE  /\ ready'[j] <= 1 /\ (pc'[Consumer(j)] # "get" => ready'[j] = 0)
                      /\ Ever(j)' => pc'[Producer(j)] = "populated"
                      /\ j \in filled' <=> pc'[Producer(j)] = "populated"
    BY DEF Tokens
  <2>0. /\ ready[j] <= 1 /\ (pc[Consumer(j)] # "get" => ready[j] = 0)
        /\ Ever(j) => pc[Producer(j)] = "populated"
        /\ j \in filled <=> pc[Producer(j)] = "populated"
    BY DEF Inv, Tokens
  <2>1. CASE j # i
    BY <1>9, <1>10, <2>0, <2>1
  <2>2. CASE j = i
    BY <1>1, <1>3, <1>8, <1>9, <1>10, <2>2
  <2> QED
    BY <2>1, <2>2
<1>13. Apart'
  BY <1>1 DEF Apart, Inv
<1>0. /\ IsTree(chain') /\ Slid(chain, chain') /\ \A x : Stays(chain, chain', x)
      /\ \E h : Eased(chain, chain', h, Meta) /\ \A d \in Coros : OnlyBy(d, h)
  BY <1>1, StillEased
<1>01. PICK h : Eased(chain, chain', h, Meta) /\ OnlyBy(c, h)
  BY <1>0, <1>2
<1>14. Fits'
  <2>1. ProducerFits(chain', pc'[c], frames'[c], call'[c], tag'[i])
    BY <1>1, <1>3 DEF Inv, Fits, ProducerFits
  <2>2. \A d \in Coros : d # c => \A n \in DOMAIN frames[d] : frames[d][n].chain # h
    BY <1>01 DEF OnlyBy
  <2> QED
    BY <1>0, <1>01, <1>1, <1>2, <1>4, <2>1, <2>2, FitsKept
<1>15. Places'
  <2>1. \A q, k, m : At(chain', q, k, m, i) =>
           /\ pc'[Producer(i)] \in {"reserved", "populated"}
           /\ pc'[Consumer(i)] \in {"get", "retained", "finalize"}
           /\ tag'[i] = chain'[q].tag
           /\ Alive(chain', q) /\ Ever(i)' => k = 1 /\ m = 1 /\ On(chain', q, 1)
    <3> SUFFICES ASSUME NEW q, NEW k, NEW m, At(chain, q, k, m, i)
                 PROVE /\ tag[i] = chain[q].tag
                       /\ Ever(i)' => k = 1 /\ m = 1 /\ On(chain, q, 1)
      BY <1>1, <1>3, <1>8, <1>10
    <3>1. tag[i] = chain[q].tag
      BY DEF Inv, Places
    <3>2. Ever(i)' => i \in S
      BY <1>8, <1>9, <1>10 DEF Ever
    <3> QED
      BY <1>7, <3>1, <3>2
  <2> QED
    BY <1>0, <1>01, <1>1, <1>2, <1>4, <1>10, <2>1, PlacesKept
<1>16. Order'
  <2>1. \A j \in Items : /\ pc'[Producer(j)] = "descend" => pc[Producer(j)] = "descend"
                         /\ pc[Producer(j)] \notin {"new", "rejected"} =>
                            pc'[Producer(j)] \notin {"new", "rejected"}
    BY <1>3, <1>10
  <2> QED
    BY <1>1, <2>1, StillOrder
<1> QED
  BY <1>0, <1>11, <1>12, <1>13, <1>14, <1>15, <1>16 DEF Inv

-----------------------------------------------------------------------------
(* The invariant is kept by forque::interrupt. *)
LEMMA InterruptInv ==
  ASSUME Inv, Interrupt
  PROVE  Inv'
<1>1. /\ UNCHANGED <<chain, frames, call, pc, tag, before, filled, ready>>
      /\ interrupted' \in BOOLEAN /\ stopped' \in BOOLEAN
  BY DEF Interrupt
<1>2. Types'
  BY <1>1 DEF Inv, Types
<1>3. Tokens' /\ Places' /\ Apart'
  BY <1>1 DEF Inv, Tokens, Places, Apart, Ever
<1>4. Fits'
  BY <1>1 DEF Inv, Fits
<1>5. IsTree(chain)'
  BY <1>1 DEF Inv
<1>6. Order'
  BY <1>1, StillOrder
<1> QED
  BY <1>2, <1>3, <1>4, <1>5, <1>6 DEF Inv

(* The invariant is kept when nothing happens. *)
LEMMA StutterInv ==
  ASSUME Inv, UNCHANGED vars
  PROVE  Inv'
<1>1. UNCHANGED <<chain, frames, call, pc, tag, before, filled, ready, interrupted, stopped>>
  BY DEF vars
<1>2. Types'
  BY <1>1 DEF Inv, Types
<1>3. Tokens' /\ Places' /\ Apart'
  BY <1>1 DEF Inv, Tokens, Places, Apart, Ever
<1>4. Fits'
  BY <1>1 DEF Inv, Fits
<1>5. IsTree(chain)'
  BY <1>1 DEF Inv
<1>6. Order'
  BY <1>1, StillOrder
<1> QED
  BY <1>2, <1>3, <1>4, <1>5, <1>6 DEF Inv

-----------------------------------------------------------------------------
(* A frame of activate_children still fits after an eased step elsewhere. *)
LEMMA AwakeningKept ==
  ASSUME NEW t, NEW u, NEW h, NEW l, Eased(t, u, h, l), NEW f, Awakening(t, f),
         f.chain # h, Alive(u, f.chain) => l \notin f.todo
  PROVE  Awakening(u, f)
<1>1. /\ DOMAIN t \subseteq DOMAIN u
      /\ \A q \in DOMAIN t : Alive(u, q) => Alive(t, q)
  BY DEF Eased
<1>2. f.chain \in DOMAIN t /\ f.todo \subseteq DOMAIN t
  BY DEF Awakening
<1>3. ASSUME Alive(u, f.chain)
      PROVE  /\ On(u, f.chain, 1) /\ Bare(u, f.chain)
             /\ \A d \in f.todo : Kid(u, f.chain, 1, d) /\ ~On(u, d, 1)
  <2>1. /\ On(t, f.chain, 1) /\ Bare(t, f.chain)
        /\ \A d \in f.todo : Kid(t, f.chain, 1, d) /\ ~On(t, d, 1)
    BY <1>1, <1>2, <1>3 DEF Awakening
  <2> QED
    BY <1>2, <1>3, <2>1 DEF Eased
<1> QED
  BY <1>1, <1>2, <1>3 DEF Awakening

(* frames of an activation that is not through *)
Awaken(t, fs) == fs # <<>> /\ \A n \in DOMAIN fs : Awakening(t, fs[n])

(* A step of activate_children that leaves something to do. *)
LEMMA AwakenInv ==
  ASSUME Inv, NEW i \in Items, pc[Consumer(i)] = "activate",
         NEW fs \in Seq(FrameType), Awaken(chain', fs), Own(Consumer(i), fs),
         Others(Consumer(i)), frames'[Consumer(i)] = fs,
         pc'[Consumer(i)] = "activate", call'[Consumer(i)] = NoCall,
         UNCHANGED <<tag, before, filled, interrupted, stopped>>,
         Offers, IsTree(chain'),
         NEW h, NEW l, Eased(chain, chain', h, l), OnlyBy(Consumer(i), h),
         l = Meta \/ \A d \in Coros : d # Consumer(i) => \A n \in DOMAIN frames[d] :
           Alive(chain', frames[d][n].chain) => l \notin frames[d][n].todo,
         Slid(chain, chain'), \A x : Stays(chain, chain', x)
  PROVE  Inv'
<1> DEFINE c == Consumer(i)
<1>1. \A q, k, m : ~At(chain', q, k, m, i)
  BY GoneFacts
<1>2. ConsumerFits(chain', pc'[c], frames'[c], call'[c], i)
  BY DEF ConsumerFits, Awaken
<1>3. pc'[c] \in Label("consume") \ {"get"}
  BY DEF Label
<1>4. Own(c, frames'[c]) /\ stopped' \in BOOLEAN
  BY DEF Inv, Types
<1> QED
  BY <1>1, <1>2, <1>3, <1>4, ConsumeInv

(* What a coroutine in activate_children has in its frames. *)
LEMMA AwakenFacts ==
  ASSUME Inv, NEW i \in Items, pc[Consumer(i)] = "activate", Sound(Consumer(i)),
         NEW fs, fs = frames[Consumer(i)]
  PROVE  /\ fs \in Seq(FrameType) /\ Awaken(chain, fs) /\ Own(Consumer(i), fs)
         /\ \A n \in DOMAIN fs : Alive(chain, fs[n].chain)
         /\ call[Consumer(i)] = NoCall
<1>1. Consumer(i) \in Coros /\ IsTree(chain)
  BY CoroFacts DEF Inv
<1>2. fs \in Seq(FrameType)
  BY <1>1 DEF Inv, Types
<1>3. Awaken(chain, fs) /\ call[Consumer(i)] = NoCall
  BY DEF Inv, Fits, ConsumerFits, Awaken
<1>4. Own(Consumer(i), fs)
  BY <1>1 DEF Own, OnlyBy, Inv, Apart
<1>5. \A n \in DOMAIN fs : Alive(chain, fs[n].chain)
  <2>1. \A n \in DOMAIN fs : fs[n].chain \in Chains
    BY <1>3 DEF Awaken, Awakening, Chains
  <2> QED
    BY <1>1, <2>1, SoundFacts
<1> QED
  BY <1>2, <1>3, <1>4, <1>5

(* Only a coroutine in activate_children has something to do in a frame. *)
LEMMA TodoOwner ==
  ASSUME Inv, NEW e \in Coros, NEW m \in DOMAIN frames[e], NEW d, d \in frames[e][m].todo
  PROVE  Awakening(chain, frames[e][m]) /\ \E j \in Items : e = Consumer(j) /\ pc[e] = "activate"
<1>1. PICK j \in Items : e = Producer(j) \/ e = Consumer(j)
  BY CoroFacts
<1>2. \A p, S : Frame(p, S).todo = S
  BY DEF Frame
<1>3. CASE e = Producer(j)
  <2>1. ProducerFits(chain, pc[e], frames[e], call[e], tag[j])
    BY <1>3 DEF Inv, Fits
  <2>2. frames[e] # <<>>
    OBVIOUS
  <2>3. \E p : frames[e] = <<Frame(p, {})>>
    BY <2>1, <2>2 DEF ProducerFits, Descending
  <2> QED
    BY <1>2, <2>3
<1>4. CASE e = Consumer(j) /\ pc[e] # "activate"
  <2>1. ConsumerFits(chain, pc[e], frames[e], call[e], j) /\ pc[e] \in Label("consume")
    BY <1>4 DEF Inv, Fits, Types
  <2>2. frames[e] # <<>>
    OBVIOUS
  <2>3. (\E p : frames[e] = <<Frame(p, {})>>) \/ \E p, q : frames[e] = <<Frame(p, {}), Frame(q, {})>>
    BY <1>4, <2>1, <2>2 DEF ConsumerFits, Finalizing, Label
  <2>4. frames[e][m].todo = {}
    BY <1>2, <2>3
  <2> QED
    BY <2>4
<1>5. CASE e = Consumer(j) /\ pc[e] = "activate"
  <2>1. Awakening(chain, frames[e][m])
    BY <1>5 DEF Inv, Fits, ConsumerFits
  <2> QED
    BY <1>5, <2>1
<1> QED
  BY <1>1, <1>3, <1>4, <1>5

(* No frame of another coroutine waits for a child of a chain that c holds. *)
LEMMA TodoFacts ==
  ASSUME Inv, NEW c \in Coros, NEW n \in DOMAIN frames[c], NEW d,
         Kid(chain, frames[c][n].chain, 1, d)
  PROVE  \A e \in Coros : \A m \in DOMAIN frames[e] :
           Alive(chain, frames[e][m].chain) /\ d \in frames[e][m].todo => e = c /\ m = n
<1> SUFFICES ASSUME NEW e \in Coros, NEW m \in DOMAIN frames[e],
                    Alive(chain, frames[e][m].chain), d \in frames[e][m].todo
             PROVE  e = c /\ m = n
  OBVIOUS
<1>4. Awakening(chain, frames[e][m])
  BY TodoOwner
<1>5. Kid(chain, frames[e][m].chain, 1, d)
  BY <1>4 DEF Awakening
<1>6. frames[e][m].chain = frames[c][n].chain
  BY <1>5 DEF Inv, IsTree, Linked
<1> QED
  BY <1>6 DEF Inv, Apart

-----------------------------------------------------------------------------
(* A stack with another top. *)
LEMMA ReplacedTop ==
  ASSUME NEW X, NEW s \in Seq(X), s # <<>>, NEW e \in X
  PROVE  /\ Append(Front(s), e) \in Seq(X) /\ Append(Front(s), e) # <<>>
         /\ \A n \in DOMAIN Append(Front(s), e) :
              \/ n \in DOMAIN s /\ n < Len(s) /\ Append(Front(s), e)[n] = s[n]
              \/ n = Len(s) /\ Append(Front(s), e)[n] = e
<1>1. /\ Len(s) \in Nat \ {0} /\ Front(s) \in Seq(X) /\ Len(Front(s)) = Len(s) - 1
      /\ \A k \in 1..Len(s) - 1 : Front(s)[k] = s[k]
  BY FrontFacts
<1> DEFINE r == Front(s)
<1> HIDE DEF r
<1>2. r \in Seq(X) /\ Len(r) = Len(s) - 1 /\ \A k \in 1..Len(s) - 1 : r[k] = s[k]
  BY <1>1 DEF r
<1>3. Append(r, e) \in Seq(X) /\ Append(r, e) # <<>> /\ Len(Append(r, e)) = Len(r) + 1
      /\ \A k \in 1..Len(r) : Append(r, e)[k] = r[k]
      /\ Append(r, e)[Len(r) + 1] = e
  BY <1>2, AppendProperties
<1>4. DOMAIN Append(r, e) = 1..Len(s) /\ DOMAIN s = 1..Len(s)
  BY <1>1, <1>2, <1>3
<1>5. \A n \in 1..Len(s) : (n \in 1..Len(s) - 1 /\ n < Len(s)) \/ (n = Len(s) /\ n = Len(r) + 1)
  BY <1>1, <1>2
<1>6. \A n \in DOMAIN Append(r, e) :
              \/ n \in DOMAIN s /\ n < Len(s) /\ Append(r, e)[n] = s[n]
              \/ n = Len(s) /\ Append(r, e)[n] = e
  BY <1>2, <1>3, <1>4, <1>5
<1> QED
  BY <1>3, <1>6 DEF r

(* A stack with one element more. *)
LEMMA AddedTop ==
  ASSUME NEW X, NEW s \in Seq(X), NEW e \in X
  PROVE  /\ Append(s, e) \in Seq(X) /\ Append(s, e) # <<>>
         /\ \A n \in DOMAIN Append(s, e) :
              \/ n \in DOMAIN s /\ Append(s, e)[n] = s[n]
              \/ n = Len(s) + 1 /\ Append(s, e)[n] = e
<1>3. Append(s, e) \in Seq(X) /\ Append(s, e) # <<>> /\ Len(Append(s, e)) = Len(s) + 1
      /\ \A k \in 1..Len(s) : Append(s, e)[k] = s[k]
      /\ Append(s, e)[Len(s) + 1] = e
  BY AppendProperties
<1>4. DOMAIN Append(s, e) = 1..Len(s) + 1 /\ DOMAIN s = 1..Len(s) /\ Len(s) \in Nat
  BY <1>3
<1> QED
  BY <1>3, <1>4

(* A stack of the same chains is held by the same coroutine alone. *)
LEMMA OwnShared ==
  ASSUME NEW c, NEW fs, Own(c, fs), NEW gs,
         \A n \in DOMAIN gs : n \in DOMAIN fs /\ gs[n].chain = fs[n].chain
  PROVE  /\ Own(c, gs)
         /\ \A x : (\A n \in DOMAIN fs : fs[n].chain # x) => \A n \in DOMAIN gs : gs[n].chain # x
BY DEF Own

(* the frames when the top one has let go of d *)
Relieved(fs, d) == Append(Front(fs), Frame(Last(fs).chain, Last(fs).todo \ {d}))

(* The child d of the top frame has been marked. *)
LEMMA WakeFacts ==
  ASSUME Inv, NEW i \in Items, pc[Consumer(i)] = "activate", Sound(Consumer(i)),
         NEW d \in Last(frames[Consumer(i)]).todo, Free(d), Marked(chain, chain', d)
  PROVE  /\ d \in Chains /\ d # Root /\ Alive(chain, d) /\ Count(chain, d) > 0 /\ ~On(chain, d, 1)
         /\ IsTree(chain') /\ Eased(chain, chain', d, d) /\ Slid(chain, chain') /\ \A x : Stays(chain, chain', x)
         /\ \A q \in Chains : Alive(chain', q) <=> Alive(chain, q)
         /\ OnlyBy(Consumer(i), d)
         /\ \A e \in Coros : e # Consumer(i) => \A n \in DOMAIN frames[e] :
              Alive(chain', frames[e][n].chain) => d \notin frames[e][n].todo
         /\ Relieved(frames[Consumer(i)], d) \in Seq(FrameType)
         /\ Awaken(chain', Relieved(frames[Consumer(i)], d))
         /\ Own(Consumer(i), Relieved(frames[Consumer(i)], d))
         /\ \A n \in DOMAIN Relieved(frames[Consumer(i)], d) :
              Relieved(frames[Consumer(i)], d)[n].chain # d
<1> DEFINE c == Consumer(i)
           fs == frames[c]
           top == Last(fs)
           p == top.chain
           f == Frame(p, top.todo \ {d})
           below == Relieved(fs, d)
<1>1. /\ fs \in Seq(FrameType) /\ Awaken(chain, fs) /\ Own(c, fs)
      /\ \A n \in DOMAIN fs : Alive(chain, fs[n].chain)
  BY AwakenFacts
<1>2. c \in Coros /\ IsTree(chain) /\ Rooted(chain) /\ Linked(chain) /\ Chains = DOMAIN chain
      /\ Actives(chain) /\ Unique(chain)
  BY CoroFacts DEF Inv, IsTree, Chains
<1>3. Len(fs) \in DOMAIN fs /\ top = fs[Len(fs)] /\ fs # <<>> /\ top \in FrameType
  <2>1. fs # <<>>
    BY <1>1 DEF Awaken
  <2>2. Len(fs) \in Nat \ {0} /\ Last(fs) = fs[Len(fs)] /\ Last(fs) \in FrameType
    BY <1>1, <2>1, FrontFacts
  <2>3. DOMAIN fs = 1..Len(fs)
    BY <1>1
  <2> QED
    BY <2>1, <2>2, <2>3
<1>4. /\ Awakening(chain, top) /\ Alive(chain, p) /\ p \in DOMAIN chain
      /\ On(chain, p, 1) /\ Bare(chain, p) /\ Kid(chain, p, 1, d) /\ ~On(chain, d, 1)
  BY <1>1, <1>3 DEF Awaken, Awakening
<1>5. d \in DOMAIN chain /\ d # Root /\ Count(chain, d) > 0 /\ Par(chain, d) = p
  BY <1>2, <1>4 DEF Linked
<1>6. Alive(chain, d)
  BY <1>2, <1>4, <1>5, AliveFacts, RootedFacts
<1>7. IsTree(chain') /\ \A q \in DOMAIN chain : Alive(chain', q) <=> Alive(chain, q)
  <2>1. \A q, k : Kid(chain, q, k, d) => k = 1 /\ On(chain, q, 1) /\ Bare(chain, q)
    BY <1>2, <1>4 DEF Linked
  <2> QED
    BY <1>2, <1>5, <2>1, MarkedTree
<1>8. Eased(chain, chain', d, d) /\ Slid(chain, chain') /\ \A x : Stays(chain, chain', x)
  BY <1>2, <1>5, EasedMarked
<1>9. \A x \in Coros : \A n \in DOMAIN frames[x] : frames[x][n].chain # d
  BY FreeFacts
<1>10. \A e \in Coros : \A m \in DOMAIN frames[e] :
           Alive(chain, frames[e][m].chain) /\ d \in frames[e][m].todo => e = c /\ m = Len(fs)
  BY <1>2, <1>3, <1>4, TodoFacts
<1>11. \A e \in Coros : e # c => \A n \in DOMAIN frames[e] :
              Alive(chain', frames[e][n].chain) => d \notin frames[e][n].todo
  <2> SUFFICES ASSUME NEW e \in Coros, e # c, NEW n \in DOMAIN frames[e],
                      Alive(chain', frames[e][n].chain), d \in frames[e][n].todo
               PROVE  FALSE
    OBVIOUS
  <2>1. CASE frames[e][n].chain \in DOMAIN chain
    BY <1>7, <1>10, <2>1
  <2>2. CASE frames[e][n].chain \notin DOMAIN chain
    <3>1. Awakening(chain, frames[e][n])
      BY TodoOwner
    <3> QED
      BY <2>2, <3>1 DEF Awakening
  <2> QED
    BY <2>1, <2>2
<1>12. f \in FrameType /\ f.chain = p /\ f.todo = top.todo \ {d}
  <2>1. p \in Nat /\ top.todo \ {d} \in SUBSET Nat
    BY <1>3 DEF FrameType
  <2> QED
    BY <2>1, FrameTyped
<1>13. Awakening(chain, f)
  BY <1>4, <1>12 DEF Awakening
<1>9a. \A n \in DOMAIN fs : fs[n].chain # d
  BY <1>2, <1>9
<1>10a. \A n \in DOMAIN fs : Alive(chain, fs[n].chain) /\ d \in fs[n].todo => n = Len(fs)
  BY <1>2, <1>10
<1>14a. below = Append(Front(fs), f)
  BY DEF Relieved
<1> HIDE DEF f, fs, below
<1>14. /\ below \in Seq(FrameType) /\ below # <<>>
       /\ \A n \in DOMAIN below :
            \/ n \in DOMAIN fs /\ n < Len(fs) /\ below[n] = fs[n]
            \/ n = Len(fs) /\ below[n] = f
  <2>1. /\ Append(Front(fs), f) \in Seq(FrameType) /\ Append(Front(fs), f) # <<>>
        /\ \A n \in DOMAIN Append(Front(fs), f) :
            \/ n \in DOMAIN fs /\ n < Len(fs) /\ Append(Front(fs), f)[n] = fs[n]
            \/ n = Len(fs) /\ Append(Front(fs), f)[n] = f
    BY <1>1, <1>3, <1>12, ReplacedTop
  <2> QED
    BY <1>14a, <2>1
<1>15. \A n \in DOMAIN below : n \in DOMAIN fs /\ below[n].chain = fs[n].chain
  BY <1>3, <1>12, <1>14
<1>16. Own(c, below)
  BY <1>1, <1>15, OwnShared
<1>17. \A n \in DOMAIN below : below[n].chain # d
  BY <1>1, <1>9a, <1>15, OwnShared
<1>18. ASSUME NEW n \in DOMAIN below PROVE Awakening(chain', below[n])
  <2>1. CASE n \in DOMAIN fs /\ n < Len(fs) /\ below[n] = fs[n]
    <3> DEFINE g == fs[n]
    <3>1. Awakening(chain, g)
      BY <1>1, <2>1 DEF Awaken
    <3>2. g.chain # d
      BY <1>9a, <2>1
    <3>3. d \notin g.todo
      <4>1. Alive(chain, g.chain) /\ n # Len(fs)
        <5>1. Len(fs) \in Nat /\ ~(Len(fs) < Len(fs))
          BY <1>1
        <5> QED
          BY <1>1, <2>1, <5>1
      <4> QED
        BY <1>10a, <2>1, <4>1
    <3> HIDE DEF g
    <3>4. Awakening(chain', g)
      BY <1>8, <3>1, <3>2, <3>3, AwakeningKept
    <3> QED
      BY <2>1, <3>4 DEF g
  <2>2. CASE n = Len(fs) /\ below[n] = f
    <3>1. f.chain # d /\ d \notin f.todo
      BY <1>12, <1>17, <2>2
    <3>2. Awakening(chain', f)
      BY <1>8, <1>13, <3>1, AwakeningKept
    <3> QED
      BY <2>2, <3>2
  <2> QED
    BY <1>14, <2>1, <2>2
<1>19. Awaken(chain', below)
  BY <1>14, <1>18 DEF Awaken
<1>20. OnlyBy(c, d)
  BY <1>9 DEF OnlyBy
<1> QED
  BY <1>2, <1>4, <1>5, <1>6, <1>7, <1>8, <1>11, <1>14, <1>16, <1>17, <1>19, <1>20
  DEF fs, below

-----------------------------------------------------------------------------
(* The next child is activated. *)
LEMMA WakeInv ==
  ASSUME Inv, NEW i \in Items, pc[Consumer(i)] = "activate", Sound(Consumer(i)),
         NEW d \in Last(frames[Consumer(i)]).todo, Free(d),
         ActivateSegment(Consumer(i), Relieved(frames[Consumer(i)], d), d, 1, chain),
         UNCHANGED <<tag, before, filled, interrupted, stopped>>
  PROVE  Inv'
<1> DEFINE c == Consumer(i)
           below == Relieved(frames[c], d)
<1>1. /\ chain' = [chain EXCEPT ![d].segments[1].active = TRUE]
      /\ \/ Sib(chain, d, 1) # <<>> /\ ActivateSibling(c, below, Head(Sib(chain, d, 1)))
         \/ Sib(chain, d, 1) = <<>> /\ ActivateChildren(c, below, d, Chi(chain, d, 1))
  BY DEF ActivateSegment, Sib, Chi
<1>2. c \in Coros /\ IsTree(chain) /\ Rooted(chain) /\ Linked(chain) /\ Chains = DOMAIN chain
      /\ Actives(chain) /\ Unique(chain)
  BY CoroFacts DEF Inv, IsTree, Chains
<1>3. d \in DOMAIN chain /\ Count(chain, d) > 0
  <2>1. /\ frames[c] \in Seq(FrameType) /\ Awaken(chain, frames[c])
        /\ \A n \in DOMAIN frames[c] : Alive(chain, frames[c][n].chain)
    BY AwakenFacts
  <2>2. Len(frames[c]) \in DOMAIN frames[c] /\ Last(frames[c]) = frames[c][Len(frames[c])]
    <3>1. frames[c] # <<>>
      BY <2>1 DEF Awaken
    <3>2. Len(frames[c]) \in Nat \ {0} /\ Last(frames[c]) = frames[c][Len(frames[c])]
      BY <2>1, <3>1, FrontFacts
    <3>3. DOMAIN frames[c] = 1..Len(frames[c])
      BY <2>1
    <3> QED
      BY <3>2, <3>3
  <2>3. Kid(chain, Last(frames[c]).chain, 1, d)
    BY <2>1, <2>2 DEF Awaken, Awakening
  <2> QED
    BY <1>2, <2>3 DEF Linked
<1>4. Marked(chain, chain', d)
  <2>1. Marked(chain, [chain EXCEPT ![d].segments[1].active = TRUE], d)
    BY <1>2, <1>3, MarkedFacts
  <2> QED
    BY <1>1, <2>1
<1>5. /\ d \in Chains /\ d # Root /\ Alive(chain, d) /\ Count(chain, d) > 0 /\ ~On(chain, d, 1)
      /\ IsTree(chain') /\ Eased(chain, chain', d, d) /\ Slid(chain, chain') /\ \A x : Stays(chain, chain', x)
      /\ \A q \in Chains : Alive(chain', q) <=> Alive(chain, q)
      /\ OnlyBy(c, d)
      /\ \A e \in Coros : e # c => \A n \in DOMAIN frames[e] :
           Alive(chain', frames[e][n].chain) => d \notin frames[e][n].todo
      /\ below \in Seq(FrameType) /\ Awaken(chain', below) /\ Own(c, below)
      /\ \A n \in DOMAIN below : below[n].chain # d
  BY <1>4, WakeFacts
<1>6. call[c] = NoCall
  BY AwakenFacts
<1>7. 1 \in 1..Count(chain, d) /\ d \in Nat /\ Sib(chain, d, 1) \in Seq(Items) /\ Chi(chain, d, 1) \in SUBSET Nat
  <2>1. Count(chain, d) \in Nat /\ d \in Nat
    BY <1>2, <1>3, RootedFacts
  <2>2. 1 \in 1..Count(chain, d)
    BY <1>3, <2>1
  <2> QED
    BY <1>2, <1>3, <2>1, <2>2, RootedFacts
<1>8. On(chain', d, 1)
  BY <1>4 DEF Marked
<1> HIDE DEF below
<1>9. CASE Sib(chain, d, 1) # <<>> /\ ActivateSibling(c, below, Head(Sib(chain, d, 1)))
  <2> DEFINE j == Head(Sib(chain, d, 1))
  <2>1. At(chain, d, 1, 1, j)
    <3>1. 1 \in 1..Len(Sib(chain, d, 1)) /\ j = Sib(chain, d, 1)[1]
      BY <1>7, <1>9
    <3> QED
      BY <1>3, <1>7, <3>1 DEF At
  <2>2. Put({j} \cap filled) /\ frames' = [frames EXCEPT ![c] = below] /\ UNCHANGED <<call, pc>>
    BY <1>5, <1>9 DEF ActivateSibling, Awaken
  <2> HIDE DEF j
  <2>3. j \in Items /\ ~Ever(j) /\ Foremost(chain', j)
    <3>1. j \in Items
      BY <1>2, <2>1, AtFacts
    <3>2. ~Ever(j)
      BY <1>5, <2>1 DEF Inv, Places
    <3>3. At(chain', d, 1, 1, j)
      BY <1>4, <2>1 DEF Marked
    <3> QED
      BY <1>5, <1>8, <3>1, <3>2, <3>3, HeadForemost
  <2>4. Offers
    BY <2>2, <2>3, OffersOne
  <2>5. Others(c) /\ frames'[c] = below /\ pc'[c] = "activate" /\ call'[c] = NoCall
    <3>1. /\ frames' \in [Coros -> Seq(FrameType)] /\ frames'[c] = below
          /\ \A e \in Coros : e # c => frames'[e] = frames[e]
      BY <1>2, <1>5, <2>2, FramesPut
    <3>2. call' \in [Coros -> CallType] /\ \A e \in Coros : call'[e] = call[e]
      BY <2>2, CallKept
    <3>3. DOMAIN pc' = Coros /\ pc' = pc
      BY <2>2 DEF Inv, Types
    <3> QED
      BY <1>2, <1>6, <3>1, <3>2, <3>3 DEF Others
  <2> QED
    BY <1>5, <2>4, <2>5, AwakenInv
<1>10. CASE Sib(chain, d, 1) = <<>> /\ ActivateChildren(c, below, d, Chi(chain, d, 1))
  <2> DEFINE f == Frame(d, Chi(chain, d, 1))
             fs == Append(below, f)
  <2>1. f \in FrameType /\ f.chain = d /\ f.todo = Chi(chain, d, 1)
    BY <1>7, FrameTyped
  <2>2. /\ frames' = [frames EXCEPT ![c] = fs]
        /\ call' = [call EXCEPT ![c] = NoCall]
        /\ pc' = [pc EXCEPT ![c] = "activate"]
        /\ UNCHANGED ready
    BY <1>10 DEF ActivateChildren, PutNothing
  <2> HIDE DEF f
  <2>3. Awakening(chain', f)
    <3>1. \A e \in Chi(chain, d, 1) : Kid(chain, d, 1, e)
      BY <1>3, <1>7 DEF Kid
    <3>2. ASSUME NEW e, Kid(chain, d, 1, e)
          PROVE  e \in DOMAIN chain' /\ Kid(chain', d, 1, e) /\ ~On(chain', e, 1)
      <4>1. e \in DOMAIN chain /\ e # Root /\ Par(chain, e) = d /\ Count(chain, e) > 0
        BY <1>2, <3>2 DEF Linked
      <4>2. Alive(chain, e)
        BY <1>2, <1>5, <4>1, AliveFacts, RootedFacts
      <4>3. ~On(chain, e, 1)
        BY <1>2, <1>5, <3>2, <4>2 DEF Actives
      <4>4. e # d
        <5>1. Par(chain, e) < e /\ Par(chain, e) \in Nat /\ e \in Nat
          BY <1>2, <4>1, RootedFacts
        <5> QED
          BY <4>1, <5>1
      <4>5. e \in DOMAIN chain' /\ Kid(chain', d, 1, e) /\ ~On(chain', e, 1)
        BY <1>4, <3>2, <4>1, <4>3, <4>4 DEF Marked, Same
      <4> QED
        BY <4>5
    <3>3. Bare(chain', d)
      <4>1. ASSUME NEW x, At(chain, d, 1, 1, x) PROVE FALSE
        <5>1. 1 \in 1..Len(Sib(chain, d, 1))
          BY <4>1 DEF At
        <5> QED
          BY <1>10, <5>1
      <4> QED
        BY <1>4, <4>1 DEF Bare, Marked
    <3>4. d \in DOMAIN chain'
      BY <1>3, <1>4 DEF Marked, Same
    <3> QED
      BY <1>8, <2>1, <3>1, <3>2, <3>3, <3>4 DEF Awakening
  <2>4. /\ fs \in Seq(FrameType) /\ fs # <<>>
        /\ \A n \in DOMAIN fs : \/ n \in DOMAIN below /\ fs[n] = below[n]
                                \/ n = Len(below) + 1 /\ fs[n] = f
    BY <1>5, <2>1, AddedTop
  <2> HIDE DEF fs
  <2>5. Awaken(chain', fs)
    BY <1>5, <2>3, <2>4 DEF Awaken
  <2>6. Own(c, fs)
    BY <1>5, <2>1, <2>4 DEF Own
  <2>7. Others(c) /\ frames'[c] = fs /\ pc'[c] = "activate" /\ call'[c] = NoCall
    <3>1. /\ frames' \in [Coros -> Seq(FrameType)] /\ frames'[c] = fs
          /\ \A e \in Coros : e # c => frames'[e] = frames[e]
      BY <1>2, <2>2, <2>4, FramesPut
    <3>2. /\ call' \in [Coros -> CallType] /\ call'[c] = NoCall
          /\ \A e \in Coros : e # c => call'[e] = call[e]
      BY <1>2, <2>2, NoCallType, CallPut
    <3>3. /\ DOMAIN pc' = Coros /\ pc'[c] = "activate"
          /\ \A e \in Coros : e # c => pc'[e] = pc[e]
      BY <1>2, <2>2, PcPut
    <3> QED
      BY <3>1, <3>2, <3>3 DEF Others
  <2>8. Offers
    BY <2>2, OffersNothing
  <2> QED
    BY <1>5, <2>4, <2>5, <2>6, <2>7, <2>8, AwakenInv
<1> QED
  BY <1>1, <1>9, <1>10

(* activate_children is through, and back to the frame below. *)
LEMMA ReturnInv ==
  ASSUME Inv, NEW i \in Items, pc[Consumer(i)] = "activate", Sound(Consumer(i)),
         \/ Finish(Consumer(i))
         \/ /\ Front(frames[Consumer(i)]) # <<>>
            /\ frames' = [frames EXCEPT ![Consumer(i)] = Front(frames[Consumer(i)])]
            /\ UNCHANGED <<call, pc>>,
         UNCHANGED <<chain, ready, tag, before, filled, interrupted, stopped>>
  PROVE  Inv'
<1> DEFINE c == Consumer(i)
           fs == Front(frames[c])
<1>1. c \in Coros
  BY CoroFacts
<1>2. /\ IsTree(chain') /\ Slid(chain, chain') /\ \A x : Stays(chain, chain', x)
      /\ \E h : Eased(chain, chain', h, Meta) /\ \A d \in Coros : OnlyBy(d, h)
  BY StillEased
<1>3. PICK h : Eased(chain, chain', h, Meta) /\ OnlyBy(c, h)
  BY <1>1, <1>2
<1>4. Offers /\ stopped' \in BOOLEAN
  BY OffersNothing DEF Inv, Types
<1>5. CASE Finish(c)
  <2>1. \A x, k, m : ~At(chain', x, k, m, i)
    BY <1>2, GoneFacts
  <2> QED
    BY <1>2, <1>3, <1>4, <1>5, <2>1, FinishInv
<1>6. CASE fs # <<>> /\ frames' = [frames EXCEPT ![c] = fs] /\ UNCHANGED <<call, pc>>
  <2>1. /\ frames[c] \in Seq(FrameType) /\ Awaken(chain, frames[c]) /\ Own(c, frames[c])
        /\ call[c] = NoCall
    BY AwakenFacts
  <2>2. /\ fs \in Seq(FrameType) /\ \A n \in DOMAIN fs : n \in DOMAIN frames[c] /\ fs[n] = frames[c][n]
    <3>1. frames[c] # <<>>
      BY <2>1 DEF Awaken
    <3>2. /\ Len(frames[c]) \in Nat \ {0} /\ fs \in Seq(FrameType) /\ Len(fs) = Len(frames[c]) - 1
          /\ \A k \in 1..Len(frames[c]) - 1 : fs[k] = frames[c][k]
      BY <2>1, <3>1, FrontFacts
    <3>3. DOMAIN fs = 1..Len(frames[c]) - 1 /\ DOMAIN frames[c] = 1..Len(frames[c])
      BY <2>1, <3>2
    <3>4. \A n \in 1..Len(frames[c]) - 1 : n \in 1..Len(frames[c])
      BY <3>2
    <3> QED
      BY <3>2, <3>3, <3>4
  <2> HIDE DEF fs
  <2>3. Own(c, fs)
    <3>1. \A n \in DOMAIN fs : n \in DOMAIN frames[c] /\ fs[n].chain = frames[c][n].chain
      BY <2>2
    <3> QED
      BY <2>1, <3>1, OwnShared
  <2>4. Awaken(chain', fs)
    <3>1. Awaken(chain, fs)
      BY <1>6, <2>1, <2>2 DEF Awaken
    <3> QED
      BY <3>1
  <2>5. Others(c) /\ frames'[c] = fs /\ pc'[c] = "activate" /\ call'[c] = NoCall
    <3>1. /\ frames' \in [Coros -> Seq(FrameType)] /\ frames'[c] = fs
          /\ \A e \in Coros : e # c => frames'[e] = frames[e]
      BY <1>1, <1>6, <2>2, FramesPut
    <3>2. call' \in [Coros -> CallType] /\ \A e \in Coros : call'[e] = call[e]
      BY <1>6, CallKept
    <3>3. DOMAIN pc' = Coros /\ pc' = pc
      BY <1>6 DEF Inv, Types
    <3> QED
      BY <1>1, <2>1, <3>1, <3>2, <3>3 DEF Others
  <2> QED
    BY <1>2, <1>3, <1>4, <2>2, <2>3, <2>4, <2>5, AwakenInv
<1> QED
  BY <1>5, <1>6

(* The invariant is kept by a round of activate_children. *)
LEMMA ActivateInv ==
  ASSUME Inv, NEW i \in Items, Activate(i)
  PROVE  Inv'
<1> DEFINE c == Consumer(i)
<1>1. /\ pc[c] = "activate" /\ Sound(c)
      /\ \/ \E d \in Last(frames[c]).todo :
              /\ Free(d)
              /\ ActivateSegment(c, Relieved(frames[c], d), d, 1, chain)
              /\ UNCHANGED stopped
         \/ /\ \/ Finish(c)
               \/ /\ Front(frames[c]) # <<>>
                  /\ frames' = [frames EXCEPT ![c] = Front(frames[c])]
                  /\ UNCHANGED <<call, pc>>
            /\ UNCHANGED <<ready, chain>> /\ UNCHANGED stopped
      /\ UNCHANGED <<tag, before, filled, interrupted>>
  BY DEF Activate, Relieved, PutNothing
<1>2. CASE \E d \in Last(frames[c]).todo :
              /\ Free(d)
              /\ ActivateSegment(c, Relieved(frames[c], d), d, 1, chain)
              /\ UNCHANGED stopped
  BY <1>1, <1>2, WakeInv
<1>3. CASE /\ \/ Finish(c)
              \/ /\ Front(frames[c]) # <<>>
                 /\ frames' = [frames EXCEPT ![c] = Front(frames[c])]
                 /\ UNCHANGED <<call, pc>>
           /\ UNCHANGED <<ready, chain>> /\ UNCHANGED stopped
  BY <1>1, <1>3, ReturnInv
<1> QED
  BY <1>1, <1>2, <1>3

-----------------------------------------------------------------------------
(* The chain a remove_child is in, and the child it has found. *)
LEMMA FoundFacts ==
  ASSUME Inv, NEW i \in Items, pc[Consumer(i)] = "compare", Sound(Consumer(i)),
         NEW d \in Find(FrontOf(call[Consumer(i)].on), call[Consumer(i)].tag),
         NEW p, p = call[Consumer(i)].on
  PROVE  /\ p \in Chains /\ Alive(chain, p) /\ Count(chain, p) > 0 /\ On(chain, p, 1)
         /\ Kid(chain, p, 1, d) /\ d \in Chains /\ d # p /\ d # Root
         /\ OnlyBy(Consumer(i), p)
         /\ FrontOf(p).children = Chi(chain, p, 1)
         /\ \A e : e \in Chi(chain, p, 1) <=> Kid(chain, p, 1, e)
<1> DEFINE c == Consumer(i)
<1>1. c \in Coros /\ IsTree(chain) /\ Rooted(chain) /\ Linked(chain) /\ Chains = DOMAIN chain
  BY CoroFacts DEF Inv, IsTree, Chains
<1>2. /\ Removing(chain, call[c])
      /\ frames[c] = <<Frame(Par(chain, p), {}), Frame(p, {})>>
  BY DEF Inv, Fits, ConsumerFits
<1>3. p \in DOMAIN chain
  BY <1>2 DEF Removing
<1>4. Alive(chain, p)
  BY <1>1, <1>3, SoundFacts
<1>5. Count(chain, p) > 0 /\ Count(chain, p) \in Nat /\ p \in Nat
  BY <1>1, <1>3, <1>4, AliveFacts, RootedFacts
<1>6. On(chain, p, 1)
  BY <1>2, <1>4 DEF Removing
<1>7. FrontOf(p) = chain[p].segments[1]
  <2>1. chain[p].segments \in Seq(SegmentType) /\ chain[p].segments # <<>>
    BY <1>1, <1>3, <1>4, AliveFacts, RootedFacts
  <2> QED
    BY <2>1 DEF FrontOf
<1>8. FrontOf(p).children = Chi(chain, p, 1)
  BY <1>7 DEF Chi
<1>9. \A e : e \in Chi(chain, p, 1) <=> Kid(chain, p, 1, e)
  BY <1>3, <1>5 DEF Kid
<1>10. Kid(chain, p, 1, d)
  <2>1. d \in FrontOf(p).children
    BY DEF Find
  <2> QED
    BY <1>8, <1>9, <2>1
<1>11. d \in DOMAIN chain /\ d # p /\ d # Root
  <2>1. d \in DOMAIN chain /\ d # Root /\ Par(chain, d) = p
    BY <1>1, <1>10 DEF Linked
  <2>2. Par(chain, d) < d /\ d \in Nat
    BY <1>1, <2>1, RootedFacts
  <2> QED
    BY <1>5, <2>1, <2>2
<1>12. OnlyBy(c, p)
  <2>1. 2 \in DOMAIN frames[c] /\ frames[c][2].chain = p
    BY <1>2 DEF Frame
  <2> QED
    BY <1>1, <2>1 DEF OnlyBy, Inv, Apart
<1> QED
  BY <1>1, <1>3, <1>4, <1>5, <1>6, <1>8, <1>9, <1>10, <1>11, <1>12

(* The child is destroyed, and the segment keeps others or is the last. *)
LEMMA ErasedFacts ==
  ASSUME Inv, NEW p \in Chains, NEW d \in Chains, d # p, Count(chain, p) > 0, Kid(chain, p, 1, d),
         On(chain, p, 1), p \in DOMAIN chain,
         (\E e : e # d /\ Kid(chain, p, 1, e)) \/ Count(chain, p) = 1
  PROVE  /\ IsTree(Erased(p, d)) /\ Eased(chain, Erased(p, d), p, Meta)
         /\ Slid(chain, Erased(p, d)) /\ \A x : Stays(chain, Erased(p, d), x)
         /\ p \in DOMAIN Erased(p, d) /\ Count(Erased(p, d), p) = Count(chain, p)
         /\ On(Erased(p, d), p, 1)
<1> DEFINE u == Erased(p, d)
<1>1. IsTree(chain) /\ Rooted(chain) /\ d \in DOMAIN chain
  BY DEF Inv, IsTree, Chains
<1>2. Cut(chain, u, p, d)
  BY <1>1, CutFacts
<1> HIDE DEF u
<1>3. IsTree(u) /\ \A q \in DOMAIN chain : Alive(u, q) <=> Alive(chain, q) /\ d \notin Line(chain, q)
  BY <1>1, <1>2, CutTree
<1>4. Eased(chain, u, p, Meta) /\ Slid(chain, u) /\ \A x : Stays(chain, u, x)
  BY <1>1, <1>2, <1>3, EasedCut
<1>5. p \in DOMAIN u /\ Count(u, p) = Count(chain, p) /\ On(u, p, 1)
  BY <1>2 DEF Cut, Same
<1> QED
  BY <1>3, <1>4, <1>5 DEF u

(* A list of segments without the first one. *)
LEMMA RemovedFirst ==
  ASSUME NEW s \in Seq(SegmentType), Len(s) > 1
  PROVE  RemoveAt(s, 1) \in Seq(SegmentType) /\ Len(RemoveAt(s, 1)) = Len(s) - 1
<1> DEFINE a == SubSeq(s, 1, 1 - 1)
           b == SubSeq(s, 1 + 1, Len(s))
<1>1. Len(s) \in Nat
  OBVIOUS
<1>2. a = <<>>
  BY SubSeqEmpty
<1>3. b \in Seq(SegmentType) /\ Len(b) = Len(s) - 1
  <2>1. \A k \in 2..Len(s) : s[k] \in SegmentType
    BY <1>1
  <2>2. /\ SubSeq(s, 2, Len(s)) \in Seq(SegmentType)
        /\ Len(SubSeq(s, 2, Len(s))) = IF 2 <= Len(s) THEN Len(s) - 2 + 1 ELSE 0
    BY <1>1, <2>1, SubSeqProperties
  <2>3. b = SubSeq(s, 2, Len(s))
    OBVIOUS
  <2>4. Len(s) - 2 + 1 = Len(s) - 1 /\ 2 <= Len(s)
    BY <1>1
  <2> HIDE DEF b
  <2> QED
    BY <2>2, <2>3, <2>4
<1>4. RemoveAt(s, 1) = a \o b
  BY DEF RemoveAt
<1> HIDE DEF a, b
<1>5. RemoveAt(s, 1) = b
  BY <1>2, <1>3, <1>4, ConcatEmptySeq
<1> QED
  BY <1>3, <1>5

(* A segment that is marked keeps its items. *)
LEMMA MarkedSiblings ==
  ASSUME NEW w, NEW p \in DOMAIN w, w[p] \in ChainType, w[p].segments # <<>>
  PROVE  [w EXCEPT ![p].segments[1].active = TRUE][p].segments[1].siblings
           = w[p].segments[1].siblings
<1> DEFINE s == w[p].segments
           e == [s[1] EXCEPT !.active = TRUE]
           r == [s EXCEPT ![1] = e]
           u == [w EXCEPT ![p].segments[1].active = TRUE]
<1>1. s \in Seq(SegmentType) /\ 1 \in 1..Len(s)
  BY DEF ChainType
<1>2. s[1] \in SegmentType
  BY <1>1
<1>3. e \in SegmentType /\ e.siblings = s[1].siblings
  BY <1>2 DEF SegmentType
<1>4. u[p] = [w[p] EXCEPT !.segments = r]
  OBVIOUS
<1> HIDE DEF u, e
<1>5. r[1] = e
  BY <1>1
<1> HIDE DEF r
<1>6. u[p].segments = r
  BY <1>4 DEF ChainType
<1>7. u[p].segments[1].siblings = s[1].siblings
  BY <1>3, <1>5, <1>6
<1> QED
  BY <1>7 DEF u

(* The invariant is kept by the end of remove_child. *)
LEMMA EraseChildInv ==
  ASSUME Inv, NEW i \in Items, EraseChild(i)
  PROVE  Inv'
<1> DEFINE c == Consumer(i)
           p == call[c].on
<1>1. /\ pc[c] = "compare" /\ Sound(c) /\ pc[c] # "get"
      /\ UNCHANGED <<tag, before, filled, interrupted>>
  BY DEF EraseChild
<1>2. PICK d \in Find(FrontOf(p), call[c].tag) :
           \/ /\ Finish(c)
              /\ UNCHANGED <<chain, ready, stopped>>
           \/ /\ FrontOf(p).children # {d}
              /\ chain' = Erased(p, d)
              /\ Finish(c)
              /\ UNCHANGED <<ready, stopped>>
           \/ /\ FrontOf(p).children = {d}
              /\ NextSegment(c, p, 1, Erased(p, d))
  BY DEF EraseChild
<1>3. /\ p \in Chains /\ Alive(chain, p) /\ Count(chain, p) > 0 /\ On(chain, p, 1)
      /\ Kid(chain, p, 1, d) /\ d \in Chains /\ d # p /\ d # Root
      /\ OnlyBy(c, p)
      /\ FrontOf(p).children = Chi(chain, p, 1)
      /\ \A e : e \in Chi(chain, p, 1) <=> Kid(chain, p, 1, e)
  BY <1>1, FoundFacts
<1>4. c \in Coros /\ IsTree(chain) /\ Rooted(chain) /\ Forked(chain) /\ p \in DOMAIN chain
      /\ Count(chain, p) \in Nat
  BY <1>3, CoroFacts, RootedFacts DEF Inv, IsTree, Chains
<1> HIDE DEF p
<1>5. CASE Finish(c) /\ UNCHANGED <<chain, ready, stopped>>
  <2>1. /\ IsTree(chain') /\ Slid(chain, chain') /\ \A x : Stays(chain, chain', x)
        /\ \E h : Eased(chain, chain', h, Meta) /\ \A e \in Coros : OnlyBy(e, h)
    BY <1>5, StillEased
  <2>2. PICK h : Eased(chain, chain', h, Meta) /\ OnlyBy(c, h)
    BY <1>4, <2>1
  <2>3. \A x, k, m : ~At(chain', x, k, m, i)
    BY <1>1, <2>1, GoneFacts
  <2>4. Offers /\ stopped' \in BOOLEAN
    BY <1>5, OffersNothing DEF Inv, Types
  <2> QED
    BY <1>1, <1>5, <2>1, <2>2, <2>3, <2>4, FinishInv
<1>6. CASE /\ FrontOf(p).children # {d}
           /\ chain' = Erased(p, d)
           /\ Finish(c)
           /\ UNCHANGED <<ready, stopped>>
  <2>1. \E e : e # d /\ Kid(chain, p, 1, e)
    BY <1>3, <1>6
  <2>2. /\ IsTree(chain') /\ Eased(chain, chain', p, Meta)
        /\ Slid(chain, chain') /\ \A x : Stays(chain, chain', x)
    BY <1>3, <1>4, <1>6, <2>1, ErasedFacts
  <2>3. \A x, k, m : ~At(chain', x, k, m, i)
    BY <1>1, <2>2, GoneFacts
  <2>4. Offers /\ stopped' \in BOOLEAN
    BY <1>6, OffersNothing DEF Inv, Types
  <2> QED
    BY <1>1, <1>3, <1>6, <2>2, <2>3, <2>4, FinishInv
<1>7. ASSUME FrontOf(p).children = {d}, NextSegment(c, p, 1, Erased(p, d)) PROVE Inv'
  <2>1. \A e : Kid(chain, p, 1, e) => e = d
    BY <1>3, <1>7
  <2>2. CASE Count(chain, p) = 1
    <3> DEFINE tree == Erased(p, d)
    <3>1. /\ IsTree(tree) /\ Eased(chain, tree, p, Meta) /\ Slid(chain, tree) /\ \A x : Stays(chain, tree, x)
          /\ p \in DOMAIN tree /\ Count(tree, p) = 1 /\ On(tree, p, 1)
      BY <1>3, <1>4, <2>2, ErasedFacts
    <3>2. NextSegment(c, p, 1, tree)
      BY <1>7
    <3> HIDE DEF tree
    <3>3. \/ p # Root /\ CleanParent(c, p, tree)
          \/ /\ chain' = tree /\ stopped' = (stopped \/ interrupted) /\ Finish(c) /\ UNCHANGED ready
      BY <3>1, <3>2 DEF NextSegment, PutNothing, Count
    <3>4. \A q, k, m : ~At(tree, q, k, m, i)
      BY <1>1, <3>1 DEF Inv, Places, Stays
    <3>5. CASE p # Root /\ CleanParent(c, p, tree)
      <4>1. Count(tree, p) > 0
        BY <3>1
      <4> QED
        BY <1>1, <1>3, <3>1, <3>4, <3>5, <4>1, CleanInv
    <3>6. CASE chain' = tree /\ stopped' = (stopped \/ interrupted) /\ Finish(c) /\ UNCHANGED ready
      <4>1. stopped' \in BOOLEAN /\ Offers
        BY <3>6, OffersNothing DEF Inv, Types
      <4>2. /\ IsTree(chain') /\ Eased(chain, chain', p, Meta) /\ Slid(chain, chain') /\ \A x : Stays(chain, chain', x)
            /\ \A q, k, m : ~At(chain', q, k, m, i)
        BY <3>1, <3>4, <3>6
      <4> QED
        BY <1>1, <1>3, <3>6, <4>1, <4>2, FinishInv
    <3> QED
      BY <3>3, <3>5, <3>6
  <2>3. CASE Count(chain, p) > 1
    <3> DEFINE w == [Erased(p, d) EXCEPT ![p].segments = RemoveAt(@, 1)]
               u == [w EXCEPT ![p].segments[1].active = TRUE]
    <3>1. Cut(chain, Erased(p, d), p, d)
      BY <1>3, <1>4, CutFacts
    <3>2. Count(Erased(p, d), p) = Count(chain, p)
      BY <1>3, <1>4, <3>1 DEF Cut
    <3>3. Moved(chain, u, p, d)
      BY <1>3, <1>4, <2>3, MovedFacts
    <3>4. ActivateSegment(c, <<>>, p, 1, w) /\ UNCHANGED stopped
      <4> DEFINE tree == Erased(p, d)
      <4>1. NextSegment(c, p, 1, tree) /\ Len(tree[p].segments) = Count(chain, p)
        BY <1>7, <3>2 DEF Count
      <4> HIDE DEF tree
      <4>2. Len(tree[p].segments) # 1
        BY <1>4, <2>3, <4>1
      <4>3. /\ ActivateSegment(c, <<>>, p, 1, [tree EXCEPT ![p].segments = RemoveAt(@, 1)])
            /\ UNCHANGED stopped
        BY <4>1, <4>2 DEF NextSegment
      <4> QED
        BY <4>3 DEF tree
    <3>5. Sib(u, p, 1) = w[p].segments[1].siblings
      <4> DEFINE tree == Erased(p, d)
      <4>1. tree \in Seq(ChainType) /\ p \in DOMAIN tree /\ Len(tree[p].segments) > 1
        BY <1>4, <2>3, <3>1, <3>2 DEF Cut, Same, Rooted, Count
      <4>2. w = [tree EXCEPT ![p].segments = RemoveAt(@, 1)]
        OBVIOUS
      <4> HIDE DEF tree, w
      <4>3. tree[p] \in ChainType /\ tree[p].segments \in Seq(SegmentType)
        <5>1. tree[p] \in ChainType
          BY <4>1
        <5> QED
          BY <5>1 DEF ChainType
      <4>4. /\ RemoveAt(tree[p].segments, 1) \in Seq(SegmentType)
            /\ Len(RemoveAt(tree[p].segments, 1)) = Len(tree[p].segments) - 1
        BY <4>1, <4>3, RemovedFirst
      <4>5. p \in DOMAIN w /\ w[p] = [tree[p] EXCEPT !.segments = RemoveAt(tree[p].segments, 1)]
        BY <4>1, <4>2
      <4>6. w[p] \in ChainType /\ w[p].segments = RemoveAt(tree[p].segments, 1)
        BY <4>3, <4>4, <4>5 DEF ChainType
      <4>7. w[p].segments # <<>>
        BY <4>1, <4>3, <4>4, <4>6
      <4> QED
        BY <4>5, <4>6, <4>7, MarkedSiblings DEF Sib
    <3>6. chain' = u
          /\ (w[p].segments[1].siblings # <<>> =>
                ActivateSibling(c, <<>>, Head(w[p].segments[1].siblings)))
      BY <3>4 DEF ActivateSegment
    <3> HIDE DEF u, w
    <3>7. IsTree(u) /\ \A q \in DOMAIN chain : Alive(u, q) <=> Alive(chain, q) /\ d \notin Line(chain, q)
      BY <1>3, <1>4, <2>1, <3>3, MovedTree DEF Chains
    <3>8. Eased(chain, u, p, Meta) /\ Slid(chain, u) /\ \A x : Stays(chain, u, x)
      BY <1>3, <1>4, <3>3, <3>7, EasedMoved DEF Chains
    <3>9. \E x : At(chain, p, 2, 1, x)
      <4>1. \A k \in Nat : 1 <= k /\ k <= Count(chain, p) /\ k > 1 => \E x : At(chain, p, k, 1, x)
        BY <1>4 DEF Forked
      <4> QED
        BY <1>4, <2>3, <4>1
    <3>10. \A x : At(u, p, 1, 1, x) <=> At(chain, p, 2, 1, x)
      <4>1. \A k, m, x : At(u, p, k, m, x) <=> k \in Nat /\ 1 <= k /\ At(chain, p, k + 1, m, x)
        BY <3>3 DEF Moved
      <4> QED
        BY <4>1
    <3> DEFINE j == Head(Sib(u, p, 1))
    <3>11. Sib(u, p, 1) # <<>> /\ At(u, p, 1, 1, j)
      <4>1. PICK x : At(u, p, 1, 1, x)
        BY <3>9, <3>10
      <4>2. /\ Sib(u, p, 1) \in Seq(Items) /\ 1 \in 1..Len(Sib(u, p, 1)) /\ Sib(u, p, 1)[1] = x
        <5>1. p \in DOMAIN u /\ 1 \in 1..Count(u, p) /\ Rooted(u)
          BY <3>7, <4>1 DEF At, IsTree
        <5> QED
          BY <4>1, <5>1, RootedFacts DEF At
      <4>3. Sib(u, p, 1) # <<>> /\ j = x
        BY <4>2
      <4> QED
        BY <4>1, <4>3
    <3>12. ActivateSibling(c, <<>>, j)
      BY <3>5, <3>6, <3>11
    <3>13. ~Ever(j)
      <4>1. At(chain, p, 2, 1, j)
        BY <3>10, <3>11
      <4> QED
        BY <1>3, <4>1 DEF Inv, Places
    <3> HIDE DEF j
    <3>14. On(u, p, 1)
      BY <3>3 DEF Moved
    <3>15. \A q, k, m : ~At(u, q, k, m, i)
      BY <1>1, <3>8 DEF Inv, Places, Stays
    <3>16. stopped' \in BOOLEAN
      BY <3>4 DEF Inv, Types
    <3>17. /\ IsTree(chain') /\ Eased(chain, chain', p, Meta) /\ Slid(chain, chain') /\ \A x : Stays(chain, chain', x)
           /\ \A q, k, m : ~At(chain', q, k, m, i)
           /\ At(chain', p, 1, 1, j) /\ On(chain', p, 1)
      BY <3>6, <3>7, <3>8, <3>11, <3>14, <3>15
    <3> QED
      BY <1>1, <1>3, <3>12, <3>13, <3>16, <3>17, SiblingInv
  <2> QED
    BY <1>3, <1>4, <2>2, <2>3
<1> QED
  BY <1>2, <1>5, <1>6, <1>7

-----------------------------------------------------------------------------
(* The root alone, not yet used: a tree. *)
LEMMA InitTree ==
  ASSUME NEW t, t = <<NewChain(Meta, <<>>, TRUE)>>
  PROVE  /\ IsTree(t) /\ \A p, k, m, x : ~At(t, p, k, m, x)
<1> DEFINE s == NewSegment(TRUE)
           r == NewChain(Meta, <<>>, TRUE)
<1>1. <<>> \in Seq(Items) /\ <<>> \in Seq(Keys)
  OBVIOUS
<1>2. /\ s \in SegmentType /\ s.siblings = <<>> /\ s.children = {} /\ s.active = TRUE
  BY <1>1 DEF NewSegment, SegmentType
<1> HIDE DEF s
<1>3. <<s>> \in Seq(SegmentType) /\ <<s>>[1] = s
  BY <1>2
<1>4. /\ r \in ChainType /\ r.parent = Meta /\ r.tag = <<>> /\ r.segments = <<s>>
  BY <1>1, <1>3 DEF NewChain, ChainType, Meta, s
<1>44. t = <<r>>
  OBVIOUS
<1> HIDE DEF r
<1>5. t \in Seq(ChainType) /\ DOMAIN t = {1} /\ t[1] = r
  <2>1. <<r>> \in Seq(ChainType) /\ DOMAIN <<r>> = {1} /\ <<r>>[1] = r
    BY <1>4
  <2> QED
    BY <1>44, <2>1, Zenon
<1>6. /\ Par(t, 1) = Meta /\ t[1].tag = <<>> /\ Count(t, 1) = 1 /\ Sib(t, 1, 1) = <<>>
      /\ Chi(t, 1, 1) = {} /\ Act(t, 1, 1) = TRUE
  <2>1. t[1].segments = <<s>> /\ t[1].segments[1] = s
    BY <1>3, <1>4, <1>5, Zenon
  <2> QED
    BY <1>2, <1>4, <1>5, <2>1 DEF Par, Count, Sib, Chi, Act
<1>7. /\ \A p, k, m, x : ~At(t, p, k, m, x)
      /\ \A p, k, d : ~Kid(t, p, k, d)
      /\ \A p, k : On(t, p, k) <=> p = 1 /\ k = 1
  <2>1. \A p, k : p \in DOMAIN t /\ k \in 1..Count(t, p) <=> p = 1 /\ k = 1
    BY <1>5, <1>6
  <2>2. 1..Len(Sib(t, 1, 1)) = {}
    BY <1>6
  <2> QED
    BY <1>6, <2>1, <2>2 DEF At, Kid, On
<1>8. Rooted(t)
  BY <1>5 DEF Rooted, Root
<1>9. Headed(t)
  <2>1. PICK g \in Tags : TRUE
    BY TagsAssumption
  <2>2. IsPrefix(<<>>, g)
    <3>1. g \in Seq(ToSet(g))
      BY TagsAssumption
    <3> QED
      BY <3>1, PrefixFacts
  <2>3. DOMAIN t = {Root} /\ Par(t, Root) = Meta /\ t[Root].tag = <<>> /\ Count(t, Root) > 0
    <3>1. Root = 1
      BY DEF Root
    <3>2. 1 > 0
      OBVIOUS
    <3> QED
      BY <1>5, <1>6, <3>1, <3>2, Zenon
  <2> QED
    BY <2>2, <2>3, Zenon DEF Headed
<1>10. Linked(t)
  BY <1>5, <1>7 DEF Linked, Root
<1>11. Forked(t)
  <2>1. \A k \in Nat : 1 <= k /\ k <= 1 => ~(k > 1) /\ ~(k < 1)
    OBVIOUS
  <2> QED
    BY <1>5, <1>6, <2>1 DEF Forked
<1>12. Unique(t) /\ Actives(t)
  BY <1>7 DEF Unique, Actives, Root
<1> QED
  BY <1>7, <1>8, <1>9, <1>10, <1>11, <1>12 DEF IsTree

(* The invariant holds initially. *)
LEMMA InitInv == Init => Inv
<1> SUFFICES ASSUME Init PROVE Inv
  OBVIOUS
<1>1. IsTree(chain) /\ \A p, k, m, x : ~At(chain, p, k, m, x)
  BY InitTree DEF Init
<1>2. /\ DOMAIN pc = Coros
      /\ \A i \in Items : pc[Producer(i)] = "new" /\ pc[Consumer(i)] = "get"
  BY CoroFacts DEF Init, Producer, Consumer
<1>3. \A c \in Coros : frames[c] = <<>> /\ call[c] = NoCall
  BY DEF Init
<1>4. Types
  <2>1. <<>> \in Seq(FrameType) /\ NoCall \in CallType
    BY NoCallType
  <2>2. frames \in [Coros -> Seq(FrameType)] /\ call \in [Coros -> CallType]
    BY <2>1 DEF Init
  <2>3. /\ tag \in [Items -> Tags \cup {<<>>}] /\ before \in [Items -> SUBSET Items]
        /\ filled \in SUBSET Items /\ ready \in [Items -> Nat]
        /\ interrupted \in BOOLEAN /\ stopped \in BOOLEAN
    BY DEF Init
  <2> QED
    BY <1>2, <2>2, <2>3 DEF Types, Label
<1>5. Tokens
  <2>1. \A i \in Items : ready[i] = 0 /\ i \notin filled
    BY DEF Init
  <2> QED
    BY <1>2, <2>1 DEF Tokens, Ever
<1>6. Places
  BY <1>1 DEF Places
<1>7. Apart
  <2>1. \A c \in Coros : DOMAIN frames[c] = {}
    BY <1>3
  <2> QED
    BY <2>1 DEF Apart
<1>8. Fits
  BY <1>2, <1>3, CoroFacts DEF Fits, ProducerFits, ConsumerFits
<1>9. Order
  BY DEF Init, Order
<1> QED
  BY <1>1, <1>4, <1>5, <1>6, <1>7, <1>8, <1>9 DEF Inv

(* Every step keeps the invariant. *)
LEMMA NextInv == Inv /\ [Next]_vars => Inv'
<1> SUFFICES ASSUME Inv, [Next]_vars PROVE Inv'
  OBVIOUS
<1>1. ASSUME NEW i \in Items, NEW t \in Tags, Reserve(i, t) PROVE Inv'
  <2>1. Arrives(i, Root, t)
    BY <1>1, ReserveFacts
  <2> QED
    BY <2>1, ArriveInv
<1>2. ASSUME NEW i \in Items, Descend(i) PROVE Inv'
  <2>1. \E p : Arrives(i, p, tag[i])
    BY <1>2, DescendFacts
  <2>2. PICK p : Arrives(i, p, tag[i])
    BY <2>1
  <2> DEFINE g == tag[i]
  <2>3. Arrives(i, p, g)
    BY <2>2
  <2> HIDE DEF g
  <2> QED
    BY <2>3, ArriveInv
<1>3. ASSUME NEW i \in Items, Reject(i) PROVE Inv'
  BY <1>3, RejectInv
<1>4. ASSUME NEW i \in Items, Populate(i) PROVE Inv'
  BY <1>4, PopulateInv
<1>5. ASSUME NEW i \in Items, Get(i) PROVE Inv'
  BY <1>5, GetInv
<1>6. ASSUME NEW i \in Items, Finalize(i) PROVE Inv'
  BY <1>6, FinalizeInv
<1>7. ASSUME NEW i \in Items, PopItem(i) PROVE Inv'
  BY <1>7, PopItemInv
<1>8. ASSUME NEW i \in Items, Activate(i) PROVE Inv'
  BY <1>8, ActivateInv
<1>9. ASSUME NEW i \in Items, RemoveChild(i) PROVE Inv'
  BY <1>9, RemoveChildInv
<1>10. ASSUME NEW i \in Items, FindChild(i) PROVE Inv'
  BY <1>10, FindChildInv
<1>11. ASSUME NEW i \in Items, EraseChild(i) PROVE Inv'
  BY <1>11, EraseChildInv
<1>12. CASE Interrupt
  BY <1>12, InterruptInv
<1>13. CASE UNCHANGED vars
  BY <1>13, StutterInv
<1>14. CASE Done
  BY <1>14, StutterInv DEF Done
<1> QED
  BY <1>1, <1>2, <1>3, <1>4, <1>5, <1>6, <1>7, <1>8, <1>9, <1>10, <1>11, <1>12, <1>13, <1>14
  DEF Next, Step

(* The invariant holds in every state. *)
LEMMA AlwaysInv == Spec => []Inv
<1> QED
  BY InitInv, NextInv, PTL DEF Spec

-----------------------------------------------------------------------------
(* What a coroutine holds are chains, or the mutex above the root. *)
LEMMA HeldFacts ==
  ASSUME Inv, NEW c \in Coros
  PROVE  /\ \A n \in DOMAIN frames[c] : /\ frames[c][n].chain \in Chains \cup {Meta}
                                        /\ frames[c][n].todo \subseteq Chains
         /\ call[c].on \in Chains \cup {Meta}
         /\ pc[c] \in Label(c[1])
<1> DEFINE fs == frames[c]
           ca == call[c]
<1>0. /\ \A q \in Chains : Par(chain, q) \in Chains \cup {Meta}
      /\ \A p : DOMAIN <<Frame(p, {})>> = {1} /\ <<Frame(p, {})>>[1] = Frame(p, {})
      /\ \A p, S : Frame(p, S).chain = p /\ Frame(p, S).todo = S
      /\ NoCall.on = Meta
  <2>1. Rooted(chain) /\ Par(chain, Root) = Meta
    BY DEF Inv, IsTree, Headed
  <2>2. \A q \in Chains : q # Root => Par(chain, q) \in Chains
    BY <2>1, RootedFacts DEF Chains
  <2> QED
    BY <2>1, <2>2 DEF Frame, NoCall
<1> DEFINE Good == /\ \A n \in DOMAIN fs : fs[n].chain \in Chains \cup {Meta} /\ fs[n].todo \subseteq Chains
                   /\ ca.on \in Chains \cup {Meta}
<1>1. PICK i \in Items : c = Producer(i) \/ c = Consumer(i)
  BY CoroFacts
<1>2. CASE c = Producer(i)
  <2>1. ProducerFits(chain, pc[c], fs, ca, tag[i])
    BY <1>2 DEF Inv, Fits
  <2>2. pc[c] \in Label(c[1])
    BY <1>2, CoroFacts DEF Inv, Types
  <2> HIDE DEF fs, ca
  <2>3. CASE pc[c] = "descend"
    <3>1. ca = NoCall /\ \E p \in Chains : fs = <<Frame(p, {})>>
      BY <2>1, <2>3 DEF ProducerFits, Descending, Chains
    <3> QED
      BY <1>0, <2>2, <3>1 DEF fs, ca
  <2>4. CASE pc[c] # "descend"
    <3>1. ca = NoCall /\ fs = <<>>
      BY <2>1, <2>4 DEF ProducerFits
    <3>2. DOMAIN fs = {}
      BY <3>1
    <3> QED
      BY <1>0, <2>2, <3>1, <3>2 DEF fs, ca
  <2> QED
    BY <2>3, <2>4
<1>3. CASE c = Consumer(i)
  <2>1. ConsumerFits(chain, pc[c], fs, ca, i)
    BY <1>3 DEF Inv, Fits
  <2>2. pc[c] \in Label("consume") /\ c[1] = "consume"
    BY <1>3, CoroFacts DEF Inv, Types
  <2> HIDE DEF fs, ca
  <2>3. CASE pc[c] \in {"get", "retained", "finalized"}
    <3>1. ca = NoCall /\ fs = <<>>
      BY <2>1, <2>3 DEF ConsumerFits
    <3>2. DOMAIN fs = {}
      BY <3>1
    <3> QED
      BY <1>0, <2>2, <3>1, <3>2 DEF fs, ca
  <2>4. CASE pc[c] = "finalize"
    <3>1. ca = NoCall /\ \E p \in Chains \cup {Meta} : fs = <<Frame(p, {})>>
      BY <2>1, <2>4 DEF ConsumerFits, Finalizing, Chains
    <3> QED
      BY <1>0, <2>2, <3>1 DEF fs, ca
  <2>5. CASE pc[c] = "activate"
    <3>1. ca = NoCall /\ \A n \in DOMAIN fs : fs[n].chain \in Chains /\ fs[n].todo \subseteq Chains
      BY <2>1, <2>5 DEF ConsumerFits, Awakening, Chains
    <3> QED
      BY <1>0, <2>2, <3>1 DEF fs, ca
  <2>6. CASE pc[c] \in {"remove", "find", "compare"}
    <3>1. ca.on \in Chains
      BY <2>1, <2>6 DEF ConsumerFits, Removing, Chains
    <3>2. \/ fs = <<>>
          \/ fs = <<Frame(Par(chain, ca.on), {})>>
          \/ fs = <<Frame(Par(chain, ca.on), {}), Frame(ca.on, {})>>
      BY <2>1, <2>6 DEF ConsumerFits
    <3>3. Par(chain, ca.on) \in Chains \cup {Meta}
      BY <1>0, <3>1
    <3> DEFINE q == Par(chain, ca.on)
               o == ca.on
    <3>4. \A n \in DOMAIN fs : \E p \in Chains \cup {Meta} : fs[n] = Frame(p, {})
      <4>1. q \in Chains \cup {Meta} /\ o \in Chains \cup {Meta}
        BY <3>1, <3>3
      <4>2. fs = <<>> \/ fs = <<Frame(q, {})>> \/ fs = <<Frame(q, {}), Frame(o, {})>>
        BY <3>2
      <4> HIDE DEF q, o
      <4> QED
        BY <4>1, <4>2
    <3> QED
      BY <1>0, <2>2, <3>1, <3>4 DEF fs, ca
  <2> QED
    BY <2>2, <2>3, <2>4, <2>5, <2>6 DEF Label
<1> QED
  BY <1>1, <1>2, <1>3

(* The invariant implies the types. *)
LEMMA TypesFollow == Inv => TypeOK
<1> SUFFICES ASSUME Inv PROVE TypeOK
  OBVIOUS
<1>1. Rooted(chain) /\ Headed(chain) /\ Linked(chain) /\ Chains = DOMAIN chain
  BY DEF Inv, IsTree, Chains
<1>2. ASSUME NEW p \in Chains PROVE IsChain(chain[p])
  <2>1. /\ chain[p] \in ChainType /\ DOMAIN chain[p].segments = 1..Count(chain, p)
        /\ \A k \in 1..Count(chain, p) : chain[p].segments[k] \in SegmentType
    BY <1>1, <1>2, RootedFacts
  <2>2. chain[p].parent \in Chains \cup {Meta}
    <3>1. p # Root => Par(chain, p) \in Chains
      BY <1>1, <1>2, RootedFacts
    <3>2. Par(chain, Root) = Meta
      BY <1>1 DEF Headed
    <3> QED
      BY <3>1, <3>2 DEF Par
  <2>3. \E t \in Tags : IsPrefix(chain[p].tag, t)
    BY <1>1, <1>2 DEF Headed
  <2>4. ASSUME NEW k \in 1..Count(chain, p) PROVE IsSegment(chain[p].segments[k])
    <3> DEFINE s == chain[p].segments[k]
    <3>1. s \in SegmentType
      BY <2>1, <2>4
    <3>2. \A d \in s.children : d \in Chains
      <4>1. \A d \in s.children : Kid(chain, p, k, d)
        BY <1>1, <1>2, <2>4 DEF Kid, Chi
      <4> QED
        BY <1>1, <4>1 DEF Linked
    <3> HIDE DEF s
    <3>3. /\ DOMAIN s = {"siblings", "children", "version", "active"}
          /\ s.siblings \in Seq(Items) /\ s.version \in Nat /\ s.active \in BOOLEAN
      BY <3>1 DEF SegmentType
    <3>4. ToSet(s.siblings) \subseteq Items
      BY <3>3 DEF ToSet
    <3> QED
      BY <3>2, <3>3, <3>4 DEF s, IsSegment
  <2>5. DOMAIN chain[p] = {"parent", "tag", "segments"}
    BY <2>1 DEF ChainType
  <2> QED
    BY <2>1, <2>2, <2>3, <2>4, <2>5 DEF IsChain
<1>3. ASSUME NEW c \in Coros
      PROVE  /\ pc[c] \in Label(c[1])
             /\ \A f \in ToSet(frames[c]) : f.chain \in Chains \cup {Meta}
                                            /\ f.todo \subseteq Chains
             /\ call[c].on \in Chains \cup {Meta}
  BY <1>3, HeldFacts DEF ToSet
<1>4. ready \in [Items -> 0..1]
  BY DEF Inv, Types, Tokens
<1>5. /\ tag \in [Items -> Tags \cup {<<>>}] /\ before \in [Items -> SUBSET Items]
      /\ filled \subseteq Items
      /\ interrupted \in BOOLEAN /\ stopped \in BOOLEAN
  BY DEF Inv, Types
<1> QED
  BY <1>2, <1>3, <1>4, <1>5 DEF TypeOK

(* The invariant implies that an item is offered once. *)
LEMMA OfferedOnceFollows == Inv => OfferedOnce
BY DEF Inv, Types, Tokens, OfferedOnce

(* In every state the variables have their types, and an item is in the  *)
(* run queue at most once.                                               *)
THEOREM ForqueTypes == Spec => []TypeOK
<1> QED
  BY AlwaysInv, TypesFollow, PTL

(* An item reaches the consumers once: its release and the activation of *)
(* its segment never both offer it (forque.hpp:335, 371).                *)
THEOREM ForqueOfferedOnce == Spec => []OfferedOnce
<1> QED
  BY AlwaysInv, OfferedOnceFollows, PTL

-----------------------------------------------------------------------------
(* Above an active chain all are active, and its tag is longer than theirs. *)
LEMMA AboveFacts ==
  ASSUME NEW t, IsTree(t), NEW p \in DOMAIN t
  PROVE  /\ \A q \in Line(t, p) : IsPrefix(t[q].tag, t[p].tag)
         /\ Alive(t, p) => \A q \in Line(t, p) : /\ Alive(t, q)
                                                 /\ q # Root => \E k : Kid(t, Par(t, q), k, q)
         /\ Alive(t, p) /\ On(t, p, 1) => \A q \in Line(t, p) : On(t, q, 1)
<1>1. Rooted(t) /\ Headed(t) /\ Linked(t) /\ Actives(t)
  BY DEF IsTree
<1>2. \A q \in DOMAIN t : /\ q # Root => Par(t, q) \in DOMAIN t
                          /\ t[q].tag \in Seq(Keys)
  BY <1>1, RootedFacts
<1>3. \A q \in Line(t, p) : IsPrefix(t[q].tag, t[p].tag)
  <2> DEFINE S == {q \in DOMAIN t : IsPrefix(t[q].tag, t[p].tag)}
  <2>1. p \in S
    BY <1>2, PrefixFacts
  <2>2. ASSUME NEW q \in S, q # Root PROVE Par(t, q) \in S
    <3>1. Par(t, q) \in DOMAIN t /\ IsPrefix(t[Par(t, q)].tag, t[q].tag)
      BY <1>1, <1>2, <2>2 DEF Headed
    <3>2. /\ t[Par(t, q)].tag \in Seq(Keys) /\ t[q].tag \in Seq(Keys) /\ t[p].tag \in Seq(Keys)
          /\ IsPrefix(t[q].tag, t[p].tag)
      BY <1>2, <2>2, <3>1
    <3>3. IsPrefix(t[Par(t, q)].tag, t[p].tag)
      BY <3>1, <3>2, PrefixFacts
    <3> QED
      BY <3>1, <3>3
  <2>3. Closed(t, S)
    BY <2>2 DEF Closed
  <2>4. S \in SUBSET DOMAIN t
    OBVIOUS
  <2>5. \A q \in Line(t, p) : q \in S
    <3> HIDE DEF S
    <3> QED
      BY <2>1, <2>3, <2>4, Zenon DEF Line
  <2> QED
    BY <2>5
<1>4. ASSUME Alive(t, p), NEW q \in Line(t, p)
      PROVE  /\ Alive(t, q) /\ q \in DOMAIN t
             /\ q # Root => \E k : Kid(t, Par(t, q), k, q)
  <2>1. q \in DOMAIN t /\ Alive(t, q)
    BY <1>1, <1>4, AliveFacts, LineFacts
  <2>2. ASSUME q # Root PROVE \E k : Kid(t, Par(t, q), k, q)
    <3>1. Par(t, q) \in DOMAIN t /\ Alive(t, Par(t, q))
      BY <1>1, <1>2, <2>1, <2>2, AliveFacts
    <3>2. /\ t[q].segments # <<>> /\ t[Par(t, q)].segments # <<>>
      BY <1>1, <2>1, <3>1, AliveFacts
    <3>3. Count(t, q) > 0 /\ Count(t, Par(t, q)) > 0
      BY <1>1, <2>1, <3>1, <3>2, RootedFacts
    <3> QED
      BY <1>1, <2>1, <2>2, <3>3 DEF Linked
  <2> QED
    BY <2>1, <2>2
<1>5. ASSUME Alive(t, p), On(t, p, 1), NEW q \in Line(t, p) PROVE On(t, q, 1)
  <2> DEFINE S == {x \in Line(t, p) : On(t, x, 1)}
  <2>1. p \in S /\ Line(t, p) \subseteq DOMAIN t /\ Closed(t, Line(t, p))
    BY <1>1, <1>5, LineFacts
  <2>2. ASSUME NEW x \in S, x # Root PROVE Par(t, x) \in S
    <3>1. Alive(t, x) /\ \E k : Kid(t, Par(t, x), k, x)
      BY <1>4, <1>5, <2>2
    <3>2. On(t, Par(t, x), 1)
      BY <1>1, <2>2, <3>1 DEF Actives
    <3> QED
      BY <2>1, <2>2, <3>2 DEF Closed
  <2>3. Closed(t, S)
    BY <2>2 DEF Closed
  <2>4. S \in SUBSET DOMAIN t
    BY <2>1
  <2>5. \A x \in Line(t, p) : x \in S
    <3>1. p \in S
      BY <2>1
    <3> HIDE DEF S
    <3> QED
      BY <2>3, <2>4, <3>1, Zenon DEF Line
  <2> QED
    BY <2>5
<1> QED
  BY <1>3, <1>4, <1>5

(* Two chains, neither above the other, have lines that part at one chain. *)
LEMMA Parting ==
  ASSUME NEW t, Rooted(t), NEW p \in DOMAIN t, NEW q \in DOMAIN t,
         p \notin Line(t, q), q \notin Line(t, p)
  PROVE  \E r, d, e : /\ d \in Line(t, p) /\ e \in Line(t, q) /\ d # e
                      /\ d # Root /\ e # Root /\ Par(t, d) = r /\ Par(t, e) = r
<1> DEFINE W == Line(t, p) \cap Line(t, q)
<1>1. /\ Line(t, p) \subseteq DOMAIN t /\ Line(t, q) \subseteq DOMAIN t
      /\ DOMAIN t = 1..Len(t) /\ Len(t) \in Nat
      /\ \A x \in DOMAIN t : x # Root => Par(t, x) < x /\ Par(t, x) \in Nat
  BY LineFacts, RootedFacts
<1>2. PICK r \in W : \A x \in W : x <= r
  <2>1. W \in SUBSET (1..Len(t)) /\ W # {}
    BY <1>1, LineChild
  <2> DEFINE V == {Len(t) - x : x \in W}
  <2>2. V \in SUBSET Nat /\ V # {}
    BY <1>1, <2>1
  <2>3. PICK m \in V : \A n \in V : m <= n
    <3> HIDE DEF V
    <3> QED
      BY <2>2, LeastNatural
  <2>4. PICK r \in W : m = Len(t) - r
    BY <2>3
  <2>5. \A x \in W : x <= r
    <3> SUFFICES ASSUME NEW x \in W PROVE x <= r
      OBVIOUS
    <3>1. Len(t) - x \in V
      OBVIOUS
    <3>2. Len(t) - r <= Len(t) - x /\ x \in Nat /\ r \in Nat
      BY <1>1, <2>1, <2>3, <2>4, <3>1
    <3> QED
      BY <1>1, <3>2
  <2> QED
    BY <2>5
<1>3. r # p /\ r # q
  BY <1>2
<1>4. PICK d \in Line(t, p) : d # Root /\ Par(t, d) = r
  BY <1>2, <1>3, LineChild
<1>5. PICK e \in Line(t, q) : e # Root /\ Par(t, e) = r
  BY <1>2, <1>3, LineChild
<1>6. d # e
  <2> SUFFICES ASSUME d = e PROVE FALSE
    OBVIOUS
  <2>1. d \in W /\ d \in DOMAIN t /\ d \in Nat /\ r \in Nat
    BY <1>1, <1>2, <1>4, <1>5
  <2>2. d <= r /\ r < d
    BY <1>1, <1>2, <1>4, <2>1
  <2> QED
    BY <2>1, <2>2
<1> QED
  BY <1>4, <1>5, <1>6

(* Two tags of which one is a prefix of the other: so are their prefixes of *)
(* one length.                                                              *)
LEMMA RelatedPrefixes ==
  ASSUME NEW a \in Seq(Keys), NEW b \in Seq(Keys), Related(a, b),
         NEW r \in Seq(Keys), NEW s \in Seq(Keys), IsPrefix(r, a), IsPrefix(s, b),
         Len(r) = Len(s)
  PROVE  r = s
<1>1. Len(r) \in Nat /\ Len(s) \in Nat /\ Len(r) <= Len(s) /\ Len(s) <= Len(r)
  OBVIOUS
<1>2. CASE IsPrefix(a, b)
  <2>1. IsPrefix(r, b)
    BY <1>2, PrefixFacts
  <2>2. IsPrefix(r, s)
    BY <1>1, <2>1, PrefixFacts
  <2> QED
    BY <2>2, PrefixFacts
<1>3. CASE IsPrefix(b, a)
  <2>1. IsPrefix(s, a)
    BY <1>3, PrefixFacts
  <2>2. IsPrefix(s, r)
    BY <1>1, <2>1, PrefixFacts
  <2>3. s = r
    BY <2>2, PrefixFacts
  <2> QED
    BY <2>3
<1> QED
  BY <1>2, <1>3 DEF Related

-----------------------------------------------------------------------------
(* Where an offered item is: first in an active segment. *)
LEMMA OfferedPlace ==
  ASSUME Inv, Intact, NEW i \in Items, Offered(i)
  PROVE  \E p \in Chains : /\ Alive(chain, p) /\ At(chain, p, 1, 1, i) /\ On(chain, p, 1)
                           /\ tag[i] = chain[p].tag
<1>1. IsTree(chain)
  BY DEF Inv
<1>2. Ever(i) /\ ~Finalized(i) /\ Placed(i)
  <2>1. Ever(i)
    BY DEF Offered, Taken, Ever
  <2>2. pc[Producer(i)] = "populated"
    BY <2>1 DEF Inv, Tokens
  <2>3. ~Finalized(i)
    <3>1. ready[i] > 0 => pc[Consumer(i)] = "get"
      BY DEF Inv, Tokens, Types
    <3> QED
      BY <3>1 DEF Offered, Taken, Finalized
  <2> QED
    BY <2>1, <2>2, <2>3 DEF Placed
<1>3. PICK m : At(chain, Owner(i), SegmentOf(i), m, i) /\ Alive(chain, Owner(i))
  <2>1. Home(i) # {}
    BY <1>2 DEF Intact
  <2> QED
    BY <1>1, <2>1, HomeFacts
<1>4. SegmentOf(i) = 1 /\ m = 1 /\ On(chain, Owner(i), 1) /\ tag[i] = chain[Owner(i)].tag
  BY <1>2, <1>3 DEF Inv, Places
<1> QED
  BY <1>3, <1>4 DEF At, Chains

(* Where a pending item or its reservation is. *)
LEMMA PendingPlace ==
  ASSUME Inv, Intact, NEW j \in Items, Pending(j)
  PROVE  \E q \in Chains : /\ Alive(chain, q) /\ Thru(j, q) /\ IsPrefix(chain[q].tag, tag[j])
                           /\ tag[j] \in Seq(Keys)
                           /\ Bound(j, q) \/ \E k, m : At(chain, q, k, m, j)
<1>1. IsTree(chain) /\ Types /\ Fits /\ Rooted(chain) /\ Chains = DOMAIN chain
  BY DEF Inv, IsTree, Chains
<1>2. tag[j] \in Seq(Keys)
  <2>1. tag[j] \in Tags \cup {<<>>}
    BY <1>1 DEF Types
  <2> QED
    BY <2>1, TagFacts
<1>3. CASE pc[Producer(j)] = "descend"
  <2>1. Descending(chain, frames[Producer(j)], tag[j])
    BY <1>1, <1>3 DEF Fits, ProducerFits
  <2>2. PICK q \in DOMAIN chain : frames[Producer(j)] = <<Frame(q, {})>> /\ IsPrefix(chain[q].tag, tag[j])
    BY <2>1 DEF Descending
  <2>3. Bound(j, q)
    BY <1>3, <2>2 DEF Bound
  <2>4. Alive(chain, q)
    <3>1. Producer(j) \in Coros /\ Sound(Producer(j))
      BY CoroFacts DEF Intact
    <3>2. 1 \in DOMAIN frames[Producer(j)] /\ frames[Producer(j)][1].chain = q
      BY <2>2 DEF Frame
    <3> QED
      BY <1>1, <3>1, <3>2, SoundFacts
  <2>5. Thru(j, q)
    BY <1>1, <2>3, ThruFacts
  <2> QED
    BY <1>1, <1>2, <2>2, <2>3, <2>4, <2>5
<1>4. CASE pc[Producer(j)] # "descend"
  <2>1. Placed(j) /\ ~Finalized(j)
    <3>1. pc[Producer(j)] \in Label("produce")
      BY <1>1 DEF Types
    <3> QED
      BY <1>4, <3>1 DEF Pending, Placed, Label
  <2>2. PICK m : At(chain, Owner(j), SegmentOf(j), m, j) /\ Alive(chain, Owner(j))
    <3>1. Home(j) # {}
      BY <2>1 DEF Intact
    <3> QED
      BY <1>1, <3>1, HomeFacts
  <2>3. Owner(j) \in Chains /\ Thru(j, Owner(j)) /\ tag[j] = chain[Owner(j)].tag
    BY <1>1, <2>2, ThruFacts DEF Inv, Places
  <2>4. IsPrefix(tag[j], tag[j])
    BY <1>2, PrefixFacts
  <2> QED
    BY <1>2, <2>2, <2>3, <2>4
<1> QED
  BY <1>3, <1>4

(* The invariant implies the order: an item that has to wait for another *)
(* is not the first of an active segment as long as that one is pending. *)
LEMMA RelatedOrderFollows == Inv => RelatedOrder
<1> SUFFICES ASSUME Inv, Intact, NEW i \in Items, Offered(i), NEW j \in before[i], ~Finalized(j)
             PROVE  FALSE
  BY DEF RelatedOrder
<1>1. /\ IsTree(chain) /\ Rooted(chain) /\ Headed(chain) /\ Linked(chain) /\ Actives(chain)
      /\ Types /\ Fits /\ Chains = DOMAIN chain /\ j \in Items
  <2>1. IsTree(chain) /\ Types /\ Fits /\ Chains = DOMAIN chain
    BY DEF Inv, Chains
  <2> QED
    BY <2>1 DEF IsTree, Types
<1>2. /\ pc[Producer(j)] \notin {"new", "rejected"} /\ j # i
      /\ Related(tag[j], tag[i]) /\ Ahead(j, i)
  BY DEF Inv, Order
<1>3. PICK p \in Chains : /\ Alive(chain, p) /\ At(chain, p, 1, 1, i) /\ On(chain, p, 1)
                          /\ tag[i] = chain[p].tag
  BY OfferedPlace
<1>4. PICK q \in Chains : /\ Alive(chain, q) /\ Thru(j, q) /\ IsPrefix(chain[q].tag, tag[j])
                          /\ tag[j] \in Seq(Keys)
                          /\ Bound(j, q) \/ \E k, m : At(chain, q, k, m, j)
  <2>1. Pending(j)
    BY <1>2 DEF Pending
  <2> QED
    BY <1>1, <2>1, PendingPlace
<1>5. Thru(i, p)
  BY <1>1, <1>3, ThruFacts
<1>6. /\ \A d : Thru(i, p) /\ d \in Line(chain, p) => Thru(i, d)
      /\ \A d : Thru(j, q) /\ d \in Line(chain, q) => Thru(j, d)
  BY <1>1, ThruFacts
(* what the lines of p and q are *)
<1>7. /\ \A d \in Line(chain, p) : /\ Thru(i, d) /\ On(chain, d, 1) /\ Alive(chain, d) /\ d \in Chains
                                   /\ IsPrefix(chain[d].tag, chain[p].tag)
                                   /\ d # Root => \E k : Kid(chain, Par(chain, d), k, d)
      /\ \A e \in Line(chain, q) : /\ Thru(j, e) /\ e \in Chains
                                   /\ IsPrefix(chain[e].tag, chain[q].tag)
                                   /\ e # Root => \E k : Kid(chain, Par(chain, e), k, e)
  BY <1>1, <1>3, <1>4, <1>5, <1>6, AboveFacts, LineFacts
<1>8. /\ \A x, k, m, y : At(chain, x, k, m, y) => k \in Nat /\ m \in Nat /\ 1 <= k /\ 1 <= m
                                                  /\ \E z \in Items : At(chain, x, k, 1, z)
      /\ \A x, k, d : Kid(chain, x, k, d) => k \in Nat /\ 1 <= k
  BY <1>1, AtFacts
<1>9. CASE p \in Line(chain, q)
  <2>1. CASE p = q
    <3>1. ~Bound(j, p)
      BY <1>2, <1>5 DEF Ahead
    <3>2. PICK k, m : At(chain, p, k, m, j)
      BY <1>4, <2>1, <3>1
    <3>3. k < 1 \/ (k = 1 /\ m < 1)
      BY <1>2, <1>3, <3>2 DEF Ahead
    <3> QED
      BY <1>8, <3>2, <3>3
  <2>2. CASE p # q
    <3>1. PICK d \in Line(chain, q) : d # Root /\ Par(chain, d) = p
      BY <1>1, <1>9, <2>2, LineChild
    <3>2. PICK k : Kid(chain, p, k, d)
      BY <1>7, <3>1
    <3>3. k < 1
      BY <1>2, <1>3, <1>7, <3>1, <3>2 DEF Ahead
    <3> QED
      BY <1>8, <3>2, <3>3
  <2> QED
    BY <2>1, <2>2
<1>10. CASE q \in Line(chain, p) /\ p # q
  <2>1. ~Bound(j, q)
    BY <1>2, <1>7, <1>10 DEF Ahead
  <2>2. PICK k, m : At(chain, q, k, m, j)
    BY <1>4, <2>1
  <2>3. PICK d \in Line(chain, p) : d # Root /\ Par(chain, d) = q
    BY <1>1, <1>10, LineChild
  <2>4. PICK l : Kid(chain, q, l, d)
    BY <1>7, <2>3
  <2>5. l = 1 /\ Bare(chain, q)
    BY <1>1, <1>7, <2>3, <2>4 DEF Actives
  <2>6. k <= l
    BY <1>2, <1>7, <2>2, <2>3, <2>4 DEF Ahead
  <2>7. k = 1
    BY <1>8, <2>2, <2>5, <2>6
  <2> QED
    BY <1>8, <2>2, <2>5, <2>7 DEF Bare
<1>11. CASE p \notin Line(chain, q) /\ q \notin Line(chain, p)
  <2>1. \E r, d, e : /\ d \in Line(chain, p) /\ e \in Line(chain, q) /\ d # e
                     /\ d # Root /\ e # Root /\ Par(chain, d) = r /\ Par(chain, e) = r
    BY <1>1, <1>11, Parting
  <2>2. PICK r, d, e : /\ d \in Line(chain, p) /\ e \in Line(chain, q) /\ d # e
                       /\ d # Root /\ e # Root /\ Par(chain, d) = r /\ Par(chain, e) = r
    BY <2>1
  <2>3. PICK k, l : Kid(chain, r, k, d) /\ Kid(chain, r, l, e)
    BY <1>7, <2>2
  <2>4. k = 1
    BY <1>1, <1>7, <2>2, <2>3 DEF Actives
  <2>5. l <= k
    BY <1>2, <1>7, <2>2, <2>3 DEF Ahead
  <2>6. l = 1
    BY <1>8, <2>3, <2>4, <2>5
  <2>7. chain[d].tag # chain[e].tag
    BY <1>1, <2>2, <2>3, <2>4, <2>6 DEF Linked
  <2> DEFINE a == chain[d].tag
             b == chain[e].tag
             g == chain[q].tag
             h == chain[p].tag
  <2>8. /\ a \in Seq(Keys) /\ b \in Seq(Keys) /\ g \in Seq(Keys) /\ h \in Seq(Keys)
        /\ Len(a) = Len(b) /\ IsPrefix(a, h) /\ IsPrefix(b, g) /\ IsPrefix(g, tag[j])
        /\ tag[i] = h /\ tag[j] \in Seq(Keys) /\ Related(tag[j], h) /\ a # b
    <3>1. d \in Chains /\ e \in Chains
      BY <1>7, <2>2
    <3>2. a \in Seq(Keys) /\ b \in Seq(Keys) /\ g \in Seq(Keys) /\ h \in Seq(Keys)
      BY <1>1, <3>1, RootedFacts
    <3>3. Len(a) = Len(chain[r].tag) + 1 /\ Len(b) = Len(chain[r].tag) + 1
      BY <1>1, <2>2, <3>1 DEF Headed
    <3>4. IsPrefix(a, h) /\ IsPrefix(b, g)
      BY <1>7, <2>2
    <3> QED
      BY <1>2, <1>3, <1>4, <2>7, <3>2, <3>3, <3>4
  <2> HIDE DEF a, b, g, h
  <2>9. IsPrefix(b, tag[j])
    BY <2>8, PrefixFacts
  <2>10. b = a
    BY <2>8, <2>9, RelatedPrefixes
  <2> QED
    BY <2>8, <2>10
<1> QED
  BY <1>9, <1>10, <1>11

(* An item is not offered before every related item reserved ahead of it   *)
(* has been finalized: what README.md:3 promises, up to the first          *)
(* destruction of a chain in use.                                          *)
THEOREM ForqueRelatedOrder == Spec => []RelatedOrder
<1> QED
  BY AlwaysInv, RelatedOrderFollows, PTL
=============================================================================
