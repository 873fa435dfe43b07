----------------------------- MODULE TaskProofs -----------------------------
(***************************************************************************)
(* What Task's runs check, for any tree of tasks on any number of threads. *)
(*                                                                         *)
(* The steps change the top of one stack.  The first lemmas say what that  *)
(* does to the set of all activations, and that a coroutine keeps being    *)
(* active in one place; the invariant is then about that set, and about    *)
(* what each task and the one that awaits it know of each other.           *)
(***************************************************************************)
EXTENDS Task, SequenceLemmas

ActivationType == [coro : Coros, at : Points, child : Coros \cup {Nobody}]

(* c is active nowhere, but perhaps under the parent that it resumed       *)
Idle(c) == \A a \in Activations : a.coro = c => a.at = "resumed"

(* nothing that c awaits exists *)
Childless(c) == \A d \in Coros \ {Outer} : Parent[d] = c => frame[d] # "live"

StackType == stack \in [Threads -> Seq(ActivationType)]

(* a coroutine is active in one place *)
OneEach ==
  \A t, u \in Threads : \A k \in DOMAIN stack[t], l \in DOMAIN stack[u] :
    /\ stack[t][k].coro = stack[u][l].coro
    /\ stack[t][k].at # "resumed" /\ stack[u][l].at # "resumed"
    => t = u /\ k = l

-----------------------------------------------------------------------------
(* stacks *)

(* The activations are what the stacks hold. *)
LEMMA InActivations ==
  \A a : a \in Activations <=> \E t \in Threads : \E k \in DOMAIN stack[t] : a = stack[t][k]
  BY DEF Activations, ToSet

(* Active in one place, a coroutine has one activation. *)
LEMMA OneActivation ==
  ASSUME OneEach, NEW a \in Activations, NEW b \in Activations,
         a.coro = b.coro, a.at # "resumed", b.at # "resumed"
  PROVE  a = b
  BY InActivations DEF OneEach

(* The top of a stack is an activation. *)
LEMMA TopFacts ==
  ASSUME StackType, NEW t \in Threads, stack[t] # <<>>
  PROVE  /\ Top(t) \in Activations /\ Top(t) \in ActivationType
         /\ Len(stack[t]) \in DOMAIN stack[t] /\ Top(t) = stack[t][Len(stack[t])]
<1>1. stack[t] \in Seq(ActivationType)
  BY DEF StackType
<1>2. Len(stack[t]) \in Nat \ {0} /\ Last(stack[t]) = stack[t][Len(stack[t])]
        /\ Last(stack[t]) \in ActivationType
  BY <1>1, FrontFacts
<1>3. Len(stack[t]) \in DOMAIN stack[t]
  BY <1>1, <1>2
<1> QED
  BY <1>2, <1>3, InActivations DEF Top

(* The top of a stack gives way to others. *)
LEMMA Replaced ==
  ASSUME StackType, OneEach, NEW t \in Threads, stack[t] # <<>>,
         NEW N \in Seq(ActivationType),
         stack' = [stack EXCEPT ![t] = Front(stack[t]) \o N],
         \A j \in DOMAIN N : N[j].at # "resumed" =>
           \/ Top(t).at # "resumed" /\ N[j].coro = Top(t).coro
           \/ Idle(N[j].coro),
         \A i, j \in DOMAIN N :
           N[i].coro = N[j].coro /\ N[i].at # "resumed" /\ N[j].at # "resumed" => i = j
  PROVE  /\ StackType' /\ OneEach'
         /\ Activations' \subseteq Activations \cup ToSet(N)
         /\ Activations \ {Top(t)} \subseteq Activations'
         /\ ToSet(N) \subseteq Activations'
         /\ Top(t).at # "resumed" /\ Top(t) \notin ToSet(N) => Top(t) \notin Activations'
<1> DEFINE s == stack[t]
           n == Len(s)
           r == Front(s) \o N
<1>1. s \in Seq(ActivationType)
  BY DEF StackType
<1>2. /\ r \in Seq(ActivationType)
      /\ \A k \in DOMAIN r :
           \/ k \in DOMAIN s /\ k # n /\ r[k] = s[k]
           \/ \E j \in DOMAIN N : k = n - 1 + j /\ r[k] = N[j]
      /\ \A k \in DOMAIN s : k # n => k \in DOMAIN r /\ r[k] = s[k]
      /\ \A j \in DOMAIN N : n - 1 + j \in DOMAIN r /\ r[n - 1 + j] = N[j]
  <2> DEFINE q == Front(s) \o N
  <2>1. s # <<>>
    OBVIOUS
  <2> HIDE DEF s, n
  <2>2. /\ q \in Seq(ActivationType)
        /\ \A k \in DOMAIN q :
             \/ k \in DOMAIN s /\ k # Len(s) /\ q[k] = s[k]
             \/ \E j \in DOMAIN N : k = Len(s) - 1 + j /\ q[k] = N[j]
        /\ \A k \in DOMAIN s : k # Len(s) => k \in DOMAIN q /\ q[k] = s[k]
        /\ \A j \in DOMAIN N : Len(s) - 1 + j \in DOMAIN q /\ q[Len(s) - 1 + j] = N[j]
    BY <1>1, <2>1, LastReplaced
  <2> QED
    BY <2>2 DEF r, n
<1>3. n \in Nat \ {0} /\ n \in DOMAIN s /\ Top(t) = s[n]
  BY TopFacts, <1>1, FrontFacts
<1>4. stack'[t] = r /\ \A u \in Threads : u # t => stack'[u] = stack[u]
  BY DEF StackType
<1>5. stack' \in [Threads -> Seq(ActivationType)]
  <2> HIDE DEF r, n
  <2> QED
    BY <1>2, <1>4 DEF StackType, r
<1> HIDE DEF r, n
<1>6. StackType'
  BY <1>5 DEF StackType
<1>8. \A u \in Threads : \A k \in DOMAIN stack'[u] :
        \/ /\ k \in DOMAIN stack[u] /\ stack'[u][k] = stack[u][k]
           /\ u = t => k # n
        \/ \E j \in DOMAIN N : u = t /\ k = n - 1 + j /\ stack'[u][k] = N[j]
  <2> DEFINE z == stack'
  <2>1. z[t] = r /\ \A u \in Threads : u # t => z[u] = stack[u]
    BY <1>4
  <2> HIDE DEF z
  <2>2. \A u \in Threads : \A k \in DOMAIN z[u] :
          \/ k \in DOMAIN stack[u] /\ z[u][k] = stack[u][k] /\ (u = t => k # n)
          \/ \E j \in DOMAIN N : u = t /\ k = n - 1 + j /\ z[u][k] = N[j]
    BY <1>2, <2>1
  <2> QED
    BY <2>2 DEF z
<1>9. \A u \in Threads : \A k \in DOMAIN stack[u] : u # t \/ k # n =>
        k \in DOMAIN stack'[u] /\ stack'[u][k] = stack[u][k]
  BY <1>2, <1>4
<1>10. \A j \in DOMAIN N : n - 1 + j \in DOMAIN stack'[t] /\ stack'[t][n - 1 + j] = N[j]
  BY <1>2, <1>4
<1>11. n \in DOMAIN stack[t] /\ Top(t) = stack[t][n]
  BY <1>3
<1> HIDE DEF s
<1>12. OneEach'
  <2> SUFFICES ASSUME NEW u \in Threads, NEW v \in Threads,
                      NEW k \in DOMAIN stack'[u], NEW l \in DOMAIN stack'[v],
                      stack'[u][k].coro = stack'[v][l].coro,
                      stack'[u][k].at # "resumed", stack'[v][l].at # "resumed"
               PROVE  u = v /\ k = l
    BY DEF OneEach
  <2> DEFINE Old(w, m) == /\ m \in DOMAIN stack[w] /\ stack'[w][m] = stack[w][m]
                          /\ w = t => m # n
             New(w, m) == \E j \in DOMAIN N :
                            w = t /\ m = n - 1 + j /\ stack'[w][m] = N[j]
  <2>1. (Old(u, k) \/ New(u, k)) /\ (Old(v, l) \/ New(v, l))
    BY <1>8
  <2>2. ASSUME NEW w \in Threads, NEW x \in Threads, NEW m, NEW q,
               Old(w, m), New(x, q), stack'[w][m].coro = stack'[x][q].coro,
               stack'[w][m].at # "resumed", stack'[x][q].at # "resumed"
        PROVE  FALSE
    <3>1. PICK j \in DOMAIN N : x = t /\ q = n - 1 + j /\ stack'[x][q] = N[j]
      BY <2>2
    <3>2. stack[w][m] \in Activations
      BY <2>2, InActivations
    <3>3. ~Idle(N[j].coro)
      BY <2>2, <3>1, <3>2 DEF Idle
    <3>4. Top(t).at # "resumed" /\ N[j].coro = Top(t).coro
      <4>1. N[j].at # "resumed"
        BY <3>1, <2>2
      <4> QED
        BY <4>1, <3>3
    <3>5. stack[w][m].coro = stack[t][n].coro /\ stack[w][m].at # "resumed"
            /\ stack[t][n].at # "resumed"
      BY <3>4, <3>1, <1>11, <2>2
    <3>6. w = t /\ m = n
      <4>1. m \in DOMAIN stack[w] /\ n \in DOMAIN stack[t]
        BY <2>2, <1>11
      <4> QED
        BY <3>5, <4>1 DEF OneEach
    <3> QED
      BY <3>6, <2>2
  <2>3. CASE Old(u, k) /\ Old(v, l)
    BY <2>3 DEF OneEach
  <2>4. CASE New(u, k) /\ New(v, l)
    BY <2>4
  <2> QED
    BY <2>1, <2>2, <2>3, <2>4
<1>13. Activations' \subseteq Activations \cup ToSet(N)
  <2> SUFFICES ASSUME NEW a \in Activations' PROVE a \in Activations \cup ToSet(N)
    OBVIOUS
  <2>1. PICK u \in Threads : \E k \in DOMAIN stack'[u] : a = stack'[u][k]
    BY DEF Activations, ToSet
  <2>2. PICK k \in DOMAIN stack'[u] : a = stack'[u][k]
    BY <2>1
  <2> QED
    BY <2>2, <1>8, InActivations DEF ToSet
<1>14. \A u \in Threads : \A k \in DOMAIN stack'[u] : stack'[u][k] \in Activations'
  BY DEF Activations, ToSet
<1>15. Activations \ {Top(t)} \subseteq Activations'
  <2> SUFFICES ASSUME NEW a \in Activations, a # Top(t) PROVE a \in Activations'
    OBVIOUS
  <2>1. PICK u \in Threads : \E k \in DOMAIN stack[u] : a = stack[u][k]
    BY InActivations
  <2>2. PICK k \in DOMAIN stack[u] : a = stack[u][k]
    BY <2>1
  <2>3. u # t \/ k # n
    BY <2>2, <1>11
  <2> QED
    BY <2>2, <2>3, <1>9, <1>14
<1>16. ToSet(N) \subseteq Activations'
  <2>1. ASSUME NEW j \in DOMAIN N PROVE N[j] \in Activations'
    BY <1>10, <1>14, t \in Threads, Zenon
  <2> QED
    BY <2>1 DEF ToSet
<1>17. ASSUME Top(t).at # "resumed", Top(t) \notin ToSet(N), Top(t) \in Activations'
       PROVE  FALSE
  <2>1. PICK u \in Threads : \E k \in DOMAIN stack'[u] : Top(t) = stack'[u][k]
    BY <1>17 DEF Activations, ToSet
  <2>2. PICK k \in DOMAIN stack'[u] : Top(t) = stack'[u][k]
    BY <2>1
  <2>3. k \in DOMAIN stack[u] /\ stack[u][k] = Top(t) /\ (u = t => k # n)
    BY <2>2, <1>8, <1>17 DEF ToSet
  <2> QED
    BY <2>3, <1>11, <1>17 DEF OneEach
<1> QED
  BY <1>6, <1>12, <1>13, <1>15, <1>16, <1>17

(* A coroutine that is not active is resumed on top of a stack. *)
LEMMA Pushed ==
  ASSUME StackType, OneEach, NEW t \in Threads, NEW x \in ActivationType,
         x.at # "resumed", Idle(x.coro),
         stack' = [stack EXCEPT ![t] = Append(stack[t], x)]
  PROVE  StackType' /\ OneEach' /\ Activations' = Activations \cup {x}
<1> DEFINE s == stack[t]
           n == Len(s) + 1
           r == Append(s, x)
           z == stack'
<1>1. s \in Seq(ActivationType)
  BY DEF StackType
<1>2. /\ r \in Seq(ActivationType) /\ DOMAIN r = 1..n /\ r[n] = x
      /\ DOMAIN s = 1..n - 1 /\ n \in Nat \ {0}
      /\ \A k \in 1..n - 1 : r[k] = s[k]
  <2> HIDE DEF s
  <2> QED
    BY <1>1
<1>3. z[t] = r /\ \A u \in Threads : u # t => z[u] = stack[u]
  BY DEF StackType
<1>4. StackType'
  <2> HIDE DEF r
  <2>1. stack' \in [Threads -> Seq(ActivationType)]
    BY <1>2 DEF StackType, r
  <2> QED
    BY <2>1 DEF StackType
<1>5. \A k \in DOMAIN r : (k \in DOMAIN s /\ r[k] = s[k]) \/ (k = n /\ r[k] = x)
  <2> HIDE DEF r, n, s
  <2> QED
    BY <1>2
<1>6. \A k \in DOMAIN s : k \in DOMAIN r /\ r[k] = s[k]
  <2> HIDE DEF r, n, s
  <2> QED
    BY <1>2
<1>7. n \in DOMAIN r
  <2> HIDE DEF r, n, s
  <2> QED
    BY <1>2
<1> HIDE DEF r, n, z
<1>8. \A u \in Threads : \A k \in DOMAIN z[u] :
        \/ k \in DOMAIN stack[u] /\ z[u][k] = stack[u][k]
        \/ u = t /\ k = n /\ z[u][k] = x
  BY <1>3, <1>5
<1>9. \A u \in Threads : \A k \in DOMAIN stack[u] :
        k \in DOMAIN z[u] /\ z[u][k] = stack[u][k]
  BY <1>3, <1>6
<1>10. n \in DOMAIN z[t] /\ z[t][n] = x
  BY <1>2, <1>3, <1>7
<1>11. \A u \in Threads : \A k \in DOMAIN stack[u] :
         stack[u][k].coro = x.coro => stack[u][k].at = "resumed"
  BY InActivations DEF Idle
<1>12. OneEach'
  <2> SUFFICES ASSUME NEW u \in Threads, NEW v \in Threads,
                      NEW k \in DOMAIN z[u], NEW l \in DOMAIN z[v],
                      z[u][k].coro = z[v][l].coro,
                      z[u][k].at # "resumed", z[v][l].at # "resumed"
               PROVE  u = v /\ k = l
    BY DEF OneEach, z
  <2> DEFINE Old(w, m) == m \in DOMAIN stack[w] /\ z[w][m] = stack[w][m]
             New(w, m) == w = t /\ m = n /\ z[w][m] = x
  <2>1. (Old(u, k) \/ New(u, k)) /\ (Old(v, l) \/ New(v, l))
    BY <1>8
  <2>2. CASE Old(u, k) /\ Old(v, l)
    BY <2>2 DEF OneEach
  <2>3. CASE Old(u, k) /\ New(v, l)
    BY <2>3, <1>11
  <2>4. CASE New(u, k) /\ Old(v, l)
    BY <2>4, <1>11
  <2> QED
    BY <2>1, <2>2, <2>3, <2>4
<1>13. \A a : a \in Activations' <=> \E u \in Threads : \E k \in DOMAIN z[u] : a = z[u][k]
  BY DEF Activations, ToSet, z
<1>14. Activations' \subseteq Activations \cup {x}
  BY <1>13, <1>8, InActivations
<1>15. Activations \cup {x} \subseteq Activations'
  BY <1>13, <1>9, <1>10, InActivations
<1> QED
  BY <1>4, <1>12, <1>14, <1>15

(* An active coroutine on top of a stack gives way to others. *)
LEMMA Became ==
  ASSUME StackType, OneEach, NEW t \in Threads, stack[t] # <<>>,
         Top(t).at # "resumed", NEW N \in Seq(ActivationType),
         stack' = [stack EXCEPT ![t] = Front(stack[t]) \o N],
         \A j \in DOMAIN N : N[j].at # "resumed" =>
           N[j].coro = Top(t).coro \/ Idle(N[j].coro),
         \A i, j \in DOMAIN N :
           N[i].coro = N[j].coro /\ N[i].at # "resumed" /\ N[j].at # "resumed" => i = j
  PROVE  /\ StackType' /\ OneEach'
         /\ Activations' = (Activations \ {Top(t)}) \cup ToSet(N)
<1>1. /\ StackType' /\ OneEach'
      /\ Activations' \subseteq Activations \cup ToSet(N)
      /\ Activations \ {Top(t)} \subseteq Activations'
      /\ ToSet(N) \subseteq Activations'
      /\ Top(t).at # "resumed" /\ Top(t) \notin ToSet(N) => Top(t) \notin Activations'
  BY Replaced
<1> DEFINE B == Activations'
           T == ToSet(N)
           x == Top(t)
<1>2. /\ B \subseteq Activations \cup T /\ Activations \ {x} \subseteq B
      /\ T \subseteq B /\ (x \notin T => x \notin B)
  BY <1>1
<1> HIDE DEF B, T, x
<1>3. B = (Activations \ {x}) \cup T
  BY <1>2
<1> QED
  BY <1>1, <1>3 DEF B, T, x

(* One that is suspended, or through, leaves. *)
LEMMA Popped ==
  ASSUME StackType, OneEach, NEW t \in Threads, stack[t] # <<>>, Pop(t)
  PROVE  /\ StackType' /\ OneEach'
         /\ Activations' \subseteq Activations
         /\ Activations \ {Top(t)} \subseteq Activations'
         /\ Top(t).at # "resumed" => Activations' = Activations \ {Top(t)}
<1> DEFINE N == <<>>
<1>1. N \in Seq(ActivationType) /\ DOMAIN N = {} /\ ToSet(N) = {}
  BY DEF ToSet
<1>2. Front(stack[t]) \in Seq(ActivationType)
  BY FrontFacts DEF StackType
<1>3. Front(stack[t]) \o N = Front(stack[t])
  BY <1>2, EmptyFacts
<1>4. stack' = [stack EXCEPT ![t] = Front(stack[t]) \o N]
  BY <1>3 DEF Pop
<1> HIDE DEF N
<1>5. /\ StackType' /\ OneEach'
      /\ Activations' \subseteq Activations \cup ToSet(N)
      /\ Activations \ {Top(t)} \subseteq Activations'
      /\ ToSet(N) \subseteq Activations'
      /\ Top(t).at # "resumed" /\ Top(t) \notin ToSet(N) => Top(t) \notin Activations'
  BY <1>1, <1>4, Replaced
<1> DEFINE B == Activations'
           x == Top(t)
<1>6. /\ B \subseteq Activations /\ Activations \ {x} \subseteq B
      /\ (x.at # "resumed" => x \notin B)
  BY <1>5, <1>1
<1> HIDE DEF B, x
<1>7. x.at # "resumed" => B = Activations \ {x}
  BY <1>6
<1> QED
  BY <1>5, <1>6, <1>7 DEF B, x

(* One goes on elsewhere in its code. *)
LEMMA Switched ==
  ASSUME StackType, OneEach, NEW t \in Threads, stack[t] # <<>>,
         Top(t).at # "resumed", NEW x \in ActivationType, x.coro = Top(t).coro,
         stack' = [stack EXCEPT ![t] = Append(Front(stack[t]), x)]
  PROVE  /\ StackType' /\ OneEach'
         /\ Activations' = (Activations \ {Top(t)}) \cup {x}
<1> DEFINE N == <<x>>
<1>1. N \in Seq(ActivationType) /\ DOMAIN N = {1} /\ N[1] = x
  OBVIOUS
<1>2. Front(stack[t]) \in Seq(ActivationType)
  BY FrontFacts DEF StackType
<1>3. Append(Front(stack[t]), x) = Front(stack[t]) \o N
  BY <1>2
<1>4. stack' = [stack EXCEPT ![t] = Front(stack[t]) \o N]
  BY <1>3
<1> HIDE DEF N
<1>5. ToSet(N) = {x}
  BY <1>1 DEF ToSet
<1>6. StackType' /\ OneEach' /\ Activations' = (Activations \ {Top(t)}) \cup ToSet(N)
  BY <1>1, <1>4, Became
<1> QED
  BY <1>5, <1>6

(* Goto is one of these. *)
LEMMA Went ==
  ASSUME StackType, OneEach, NEW t \in Threads, stack[t] # <<>>,
         Top(t).at # "resumed", NEW p \in Points, Goto(t, p)
  PROVE  /\ StackType' /\ OneEach'
         /\ Activations' = (Activations \ {Top(t)})
                             \cup {Activation(Top(t).coro, p, Top(t).child)}
<1> DEFINE s == stack[t]
           n == Len(s)
           x == Activation(Top(t).coro, p, Top(t).child)
<1>1. s \in Seq(ActivationType) /\ s # <<>>
  BY DEF StackType
<1>2. Top(t) \in ActivationType /\ Top(t) = s[n]
  BY TopFacts
<1>3. x \in ActivationType /\ x = [Top(t) EXCEPT !.at = p] /\ x.coro = Top(t).coro
  BY <1>2 DEF ActivationType, Activation
<1>4. [s EXCEPT ![n].at = p] = [s EXCEPT ![n] = x]
  BY <1>2, <1>3
<1>5. [s EXCEPT ![n] = x] = Append(Front(s), x)
  <2> HIDE DEF s, x
  <2>1. /\ n \in Nat \ {0} /\ DOMAIN s = 1..n /\ Front(s) \in Seq(ActivationType)
        /\ Len(Front(s)) = n - 1 /\ \A k \in 1..n - 1 : Front(s)[k] = s[k]
    BY <1>1, FrontFacts, LenProperties
  <2> DEFINE F == Front(s)
             q == [s EXCEPT ![n] = x]
  <2>2. q \in Seq(ActivationType) /\ Len(q) = n
    BY <1>1, <1>3, <2>1
  <2>3. \A k \in 1..n : q[k] = IF k = n THEN x ELSE s[k]
    BY <2>1
  <2> HIDE DEF F, q, n
  <2>4. /\ Append(F, x) \in Seq(ActivationType) /\ Len(Append(F, x)) = n
        /\ \A k \in 1..n : Append(F, x)[k] = IF k = n THEN x ELSE F[k]
    BY <2>1, <1>3 DEF F
  <2>5. \A k \in 1..n : q[k] = Append(F, x)[k]
    BY <2>1, <2>3, <2>4 DEF F
  <2>6. DOMAIN q = 1..n /\ DOMAIN Append(F, x) = 1..n
    BY <2>2, <2>4, LenProperties
  <2> QED
    BY <2>2, <2>4, <2>5, SeqEqual DEF F, q
<1>6. stack' = [stack EXCEPT ![t] = Append(Front(stack[t]), x)]
  BY <1>4, <1>5 DEF Goto
<1> HIDE DEF x
<1>7. StackType' /\ OneEach' /\ Activations' = (Activations \ {Top(t)}) \cup {x}
  BY <1>3, <1>6, Switched
<1> QED
  BY <1>7 DEF x

(* One goes on, with another one that was not active on top of it. *)
LEMMA Nested ==
  ASSUME StackType, OneEach, NEW t \in Threads, stack[t] # <<>>,
         Top(t).at # "resumed",
         NEW x \in ActivationType, x.coro = Top(t).coro,
         NEW y \in ActivationType, Idle(y.coro),
         stack' = [stack EXCEPT ![t] = Append(Append(Front(stack[t]), x), y)]
  PROVE  /\ StackType' /\ OneEach'
         /\ Activations' = (Activations \ {Top(t)}) \cup {x, y}
<1> DEFINE N == <<x, y>>
<1>1. N \in Seq(ActivationType) /\ DOMAIN N = {1, 2} /\ N[1] = x /\ N[2] = y
  OBVIOUS
<1>2. Front(stack[t]) \in Seq(ActivationType)
  BY FrontFacts DEF StackType
<1>3. Append(Append(Front(stack[t]), x), y) = Front(stack[t]) \o N
  <2> DEFINE F == Front(stack[t])
  <2>1. F \in Seq(ActivationType)
    BY <1>2
  <2> HIDE DEF F
  <2>2. Append(Append(F, x), y) = F \o <<x, y>>
    BY <2>1
  <2> QED
    BY <2>2 DEF F
<1>4. stack' = [stack EXCEPT ![t] = Front(stack[t]) \o N]
  BY <1>3
<1> HIDE DEF N
<1>5. ToSet(N) = {x, y}
  BY <1>1 DEF ToSet
<1>6. x.coro # y.coro
  BY TopFacts DEF Idle
<1>7. StackType' /\ OneEach' /\ Activations' = (Activations \ {Top(t)}) \cup ToSet(N)
  BY <1>1, <1>4, <1>6, Became
<1> QED
  BY <1>5, <1>7

-----------------------------------------------------------------------------
(* the invariant *)

VarTypes ==
  /\ frame \in [Coros -> {"none", "live", "gone"}]
  /\ done \in [Coros -> BOOLEAN]
  /\ continuation \in [Coros -> Coros \cup {Nobody}]
  /\ result \in [Coros -> {"none", "value", "error"}]
  /\ caught \subseteq Coros /\ parked \subseteq Coros /\ tired \subseteq Coros
  /\ completed \in BOOLEAN /\ returned \in {"none", "value", "error"}

(* no coroutine has two activations in which it goes on *)
Single ==
  /\ \A a \in Activations : a \in ActivationType
  /\ \A a, b \in Activations :
       a.coro = b.coro /\ a.at # "resumed" /\ b.at # "resumed" => a = b

(* where a coroutine may be, by what is known of its frame and its promise *)
Sound(a) ==
  /\ frame[a.coro] # "none"
  /\ a.at # "resumed" => frame[a.coro] = "live"
  /\ a.at \in {"body", "starting", "swap", "collect"} <=> result[a.coro] = "none"
  /\ a.at = "complete" => a.coro = Outer
  /\ a.at \in {"final", "wake", "resumed"} => a.coro # Outer
  /\ a.at = "wake" => done[a.coro]
  /\ a.at = "body" => Childless(a.coro)

RunInv == \A a \in Activations : Sound(a)

(* in await_suspend and in await_resume the child is there, and its flag,  *)
(* raised by the child only as yet, says that it is through                *)
AwaitInv ==
  \A a \in Activations :
    a.at \in {"starting", "swap", "collect"} =>
      /\ a.child \in Coros \ {Outer} /\ Parent[a.child] = a.coro
      /\ frame[a.child] = "live"
      /\ done[a.child] => result[a.child] # "none" /\ Idle(a.child)
      /\ a.at = "swap" => continuation[a.child] = a.coro
      /\ a.at = "collect" => done[a.child]

ParkInv ==
  \A c \in parked : /\ frame[c] = "live" /\ result[c] = "none"
                    /\ Idle(c) /\ Childless(c)

Awaiting(d) ==
  \E a \in Activations : a.at \in {"starting", "swap", "collect"} /\ a.child = d

(* the parent of d is suspended, and d is to resume it *)
Linked(d) ==
  /\ continuation[d] = Parent[d] /\ done[d]
  /\ Parent[d] \notin parked /\ Idle(Parent[d])
  /\ result[d] # "none" =>
       \E a \in Activations : a.coro = d /\ a.at \in {"final", "wake"}

(* an awaited task is the one thing that its parent awaits, which has      *)
(* still to link itself to it or is linked                                 *)
ChildInv ==
  \A d \in Coros \ {Outer} : frame[d] = "live" /\ Parent[d] # Nobody =>
    /\ frame[Parent[d]] = "live" /\ result[Parent[d]] = "none"
    /\ Awaiting(d) \/ Linked(d)
    /\ \A e \in Coros \ {Outer} : frame[e] = "live" /\ Parent[e] = Parent[d] => e = d

(* nobody is forgotten *)
LiveInv ==
  \A c \in Coros : frame[c] = "live" /\ result[c] = "none" =>
    c \in parked \/ ~Idle(c) \/ ~Childless(c)

NewInv ==
  \A c \in Coros : frame[c] = "none" => result[c] = "none" /\ ~done[c]

(* a task that has a result and no flag is before the exchange *)
EndInv ==
  \A d \in Coros \ {Outer} : result[d] # "none" /\ ~done[d] =>
    \E a \in Activations : a.coro = d /\ a.at = "final"

(* the flag of a task that nobody awaits is its own *)
OwnInv ==
  \A d \in Coros \ {Outer} : done[d] /\ Parent[d] = Nobody =>
    result[d] # "none" /\ Idle(d)

OuterInv == completed => result[Outer] # "none" /\ Idle(Outer)

TaskInv ==
  /\ VarTypes /\ RunInv /\ AwaitInv /\ ParkInv /\ ChildInv /\ LiveInv
  /\ NewInv /\ EndInv /\ OwnInv /\ OuterInv /\ ErrorHeard

Inv == StackType /\ OneEach /\ TaskInv

(* Active in one place, no coroutine goes on in two activations. *)
LEMMA ActivationFacts == StackType /\ OneEach => Single
<1> SUFFICES ASSUME StackType, OneEach PROVE Single
  OBVIOUS
<1>1. \A u \in Threads : \A k \in DOMAIN stack[u] : stack[u][k] \in ActivationType
  BY DEF StackType
<1> QED
  BY <1>1, OneActivation, InActivations DEF Single

(* ... also after a step. *)
LEMMA NextActivationFacts == StackType' /\ OneEach' => Single'
<1>1. StackType /\ OneEach => Single
  BY ActivationFacts
<1> QED
  BY <1>1, PTL

-----------------------------------------------------------------------------
(* Each step keeps the invariant.  Its proof says what is known of the     *)
(* activation on top, which one takes its place, and what becomes of all.  *)

(* The parent links nothing yet; the child has nobody to await. *)
LEMMA AwaitStep ==
  ASSUME Inv, NEW t \in Threads, NEW d \in Coros, Await(t, d)
  PROVE  Inv'
<1> USE DEF Inv, TaskInv, VarTypes, Activation
<1>1. Top(t) \in Activations /\ Top(t) \in ActivationType /\ Top(t).at = "body"
        /\ stack[t] # <<>> /\ Single
  BY TopFacts, ActivationFacts DEF Await, At
<1> DEFINE c == Top(t).coro
           x == Activation(c, "starting", d)
           y == Activation(d, "body", Nobody)
<1>2. /\ x \in ActivationType /\ y \in ActivationType /\ c \in Coros /\ Idle(d)
      /\ x.coro = Top(t).coro /\ Idle(y.coro)
      /\ x.coro = c /\ x.at = "starting" /\ x.child = d
      /\ y.coro = d /\ y.at = "body" /\ y.child = Nobody
  BY <1>1 DEF RunInv, Sound, Idle, Await, ActivationType, Points
<1>3. stack' = [stack EXCEPT ![t] = Append(Append(Front(stack[t]), x), y)]
  BY DEF Await
<1> HIDE DEF x, y
<1>4. StackType' /\ OneEach' /\ Activations' = (Activations \ {Top(t)}) \cup {x, y}
  BY <1>1, <1>2, <1>3, Nested
<1>5. Single'
  BY <1>4, NextActivationFacts
<1>6. /\ frame[d] = "none" /\ d # Outer /\ Parent[d] = c
      /\ frame' = [frame EXCEPT ![d] = "live"]
      /\ UNCHANGED <<done, continuation, result, caught, parked, tired, completed, returned>>
  BY DEF Await
<1>7. VarTypes'
  BY <1>6
<1>8. RunInv'
  <2>1. \A e \in Coros \ {Outer} : Parent[e] = d => frame[e] # "live" /\ e # d
    BY <1>1, <1>2, <1>6, OuterAssumption DEF ChildInv, RunInv, Sound
  <2>2. Childless(d)'
    BY <2>1, <1>6 DEF Childless
  <2>3. \A b \in Activations \ {Top(t)} : b.at # "resumed" => b.coro # c
    BY <1>1 DEF Single
  <2>4. ASSUME NEW b \in Coros, b # c, Childless(b) PROVE Childless(b)'
    BY <2>4, <1>6 DEF Childless
  <2> SUFFICES ASSUME NEW a \in Activations' PROVE Sound(a)'
    BY DEF RunInv
  <2> QED
    BY <1>1, <1>2, <1>4, <1>6, <2>1, <2>2, <2>3, <2>4
    DEF RunInv, Sound, NewInv, Single, ActivationType
<1>9. AwaitInv'
  BY <1>1, <1>2, <1>4, <1>6 DEF AwaitInv, NewInv, Idle
<1>10. ParkInv'
  BY <1>1, <1>2, <1>4, <1>6 DEF ParkInv, Idle, Childless
<1>11. ChildInv'
  BY <1>1, <1>2, <1>4, <1>6
  DEF RunInv, Sound, ChildInv, Awaiting, Linked, Idle, Childless
<1>12. LiveInv'
  BY <1>2, <1>4, <1>6 DEF LiveInv, Idle, Childless
<1>13. NewInv'
  BY <1>6 DEF NewInv
<1>14. EndInv'
  BY <1>1, <1>4, <1>6 DEF EndInv
<1>15. OwnInv'
  BY <1>1, <1>2, <1>4, <1>6 DEF OwnInv, NewInv, Idle
<1>16. OuterInv'
  BY <1>1, <1>2, <1>4, <1>6 DEF OuterInv, Idle
<1>17. ErrorHeard'
  BY <1>6 DEF ErrorHeard
<1> QED
  BY <1>4, <1>7, <1>8, <1>9, <1>10, <1>11, <1>12, <1>13, <1>14, <1>15, <1>16,
     <1>17

(* A started task has nobody above it. *)
LEMMA StartStep ==
  ASSUME Inv, NEW t \in Threads, NEW d \in Coros, Start(t, d)
  PROVE  Inv'
<1> USE DEF Inv, TaskInv, VarTypes, Activation
<1> DEFINE x == Activation(d, "body", Nobody)
<1>1. Single
  BY ActivationFacts
<1>2. /\ x \in ActivationType /\ x.coro = d /\ x.at = "body" /\ x.child = Nobody
      /\ d \in Coros /\ Idle(d) /\ \A e \in Coros \ {Outer} : Parent[e] = d => frame[e] # "live"
  BY <1>1, OuterAssumption
  DEF Start, NewInv, RunInv, Sound, ChildInv, Idle, ActivationType, Points
<1>3. stack' = [stack EXCEPT ![t] = Append(stack[t], x)]
  BY DEF Start
<1> HIDE DEF x
<1>4. StackType' /\ OneEach' /\ Activations' = Activations \cup {x}
  BY <1>1, <1>2, <1>3, Pushed
<1>5. Single'
  BY <1>4, NextActivationFacts
<1>6. /\ frame[d] = "none" /\ d # Outer /\ Parent[d] = Nobody
      /\ frame' = [frame EXCEPT ![d] = "live"]
      /\ UNCHANGED <<done, continuation, result, caught, parked, tired, completed, returned>>
  BY DEF Start
<1>7. VarTypes'
  BY <1>6
<1>8. RunInv'
  BY <1>1, <1>2, <1>4, <1>6, OuterAssumption
  DEF RunInv, Sound, NewInv, Single, ActivationType, Childless
<1>9. AwaitInv'
  BY <1>2, <1>4, <1>6 DEF AwaitInv, Idle
<1>10. ParkInv'
  BY <1>2, <1>4, <1>6, OuterAssumption DEF ParkInv, Idle, Childless
<1>11. ChildInv'
  BY <1>2, <1>4, <1>6 DEF ChildInv, Awaiting, Linked, Idle
<1>12. LiveInv'
  BY <1>2, <1>4, <1>6 DEF LiveInv, Idle, Childless
<1>13. NewInv'
  BY <1>6 DEF NewInv
<1>14. EndInv'
  BY <1>4, <1>6 DEF EndInv
<1>15. OwnInv'
  BY <1>2, <1>4, <1>6 DEF OwnInv, NewInv, Idle
<1>16. OuterInv'
  BY <1>2, <1>4, <1>6 DEF OuterInv, Idle
<1>17. ErrorHeard'
  BY <1>6 DEF ErrorHeard
<1> QED
  BY <1>4, <1>7, <1>8, <1>9, <1>10, <1>11, <1>12, <1>13, <1>14, <1>15, <1>16,
     <1>17

(* What is parked has no result, awaits nothing and is active nowhere. *)
LEMMA UnparkStep ==
  ASSUME Inv, NEW t \in Threads, NEW c \in Coros, Unpark(t, c)
  PROVE  Inv'
<1> USE DEF Inv, TaskInv, VarTypes, Activation
<1> DEFINE x == Activation(c, "body", Nobody)
<1>1. Single
  BY ActivationFacts
<1>2. /\ x \in ActivationType /\ x.coro = c /\ x.at = "body" /\ x.child = Nobody
      /\ c \in Coros /\ Idle(c) /\ Childless(c)
  BY <1>1, OuterAssumption DEF Unpark, ParkInv, ActivationType, Points
<1>3. stack' = [stack EXCEPT ![t] = Append(stack[t], x)]
  BY DEF Unpark
<1> HIDE DEF x
<1>4. StackType' /\ OneEach' /\ Activations' = Activations \cup {x}
  BY <1>1, <1>2, <1>3, Pushed
<1>5. Single'
  BY <1>4, NextActivationFacts
<1>6. /\ c \in parked /\ parked' = parked \ {c}
      /\ UNCHANGED <<frame, done, continuation, result, caught, tired, completed, returned>>
  BY DEF Unpark
<1>7. VarTypes'
  BY <1>6
<1>8. RunInv'
  BY <1>2, <1>4, <1>6 DEF RunInv, Sound, ParkInv, Childless
<1>9. AwaitInv'
  BY <1>2, <1>4, <1>6 DEF AwaitInv, ParkInv, Idle
<1>10. ParkInv'
  BY <1>2, <1>4, <1>6 DEF ParkInv, Idle, Childless
<1>11. ChildInv'
  BY <1>2, <1>4, <1>6 DEF ChildInv, Awaiting, Linked, Idle
<1>12. LiveInv'
  BY <1>2, <1>4, <1>6 DEF LiveInv, Idle, Childless
<1>13. NewInv'
  BY <1>6 DEF NewInv
<1>14. EndInv'
  BY <1>4, <1>6 DEF EndInv
<1>15. OwnInv'
  BY <1>2, <1>4, <1>6 DEF OwnInv, ParkInv, Idle
<1>16. OuterInv'
  BY <1>2, <1>4, <1>6 DEF OuterInv, ParkInv, Idle
<1>17. ErrorHeard'
  BY <1>6 DEF ErrorHeard
<1> QED
  BY <1>4, <1>7, <1>8, <1>9, <1>10, <1>11, <1>12, <1>13, <1>14, <1>15, <1>16,
     <1>17

(* A coroutine in its own code awaits nothing: nothing links to it. *)
LEMMA ParkStep ==
  ASSUME Inv, NEW t \in Threads, Park(t)
  PROVE  Inv'
<1> USE DEF Inv, TaskInv, VarTypes, Activation
<1>1. Top(t) \in Activations /\ Top(t) \in ActivationType /\ Top(t).at = "body"
        /\ stack[t] # <<>> /\ Single
  BY TopFacts, ActivationFacts DEF Park, At
<1>2. Pop(t)
  BY DEF Park
<1>4. StackType' /\ OneEach' /\ Activations' = Activations \ {Top(t)}
  BY <1>1, <1>2, Popped
<1>5. Single'
  BY <1>4, NextActivationFacts
<1>6. /\ parked' = parked \cup {Top(t).coro} /\ tired' = tired \cup {Top(t).coro}
      /\ UNCHANGED <<frame, done, continuation, result, caught, completed, returned>>
  BY DEF Park
<1>7. VarTypes'
  BY <1>1, <1>6 DEF ActivationType
<1>8. RunInv'
  BY <1>4, <1>6 DEF RunInv, Sound, Childless
<1>9. AwaitInv'
  BY <1>4, <1>6 DEF AwaitInv, Idle
<1>10. ParkInv'
  BY <1>1, <1>4, <1>6 DEF RunInv, Sound, ParkInv, Single, Idle, Childless
<1>11. ChildInv'
  BY <1>1, <1>4, <1>6 DEF ChildInv, Awaiting, Linked, Idle
<1>12. LiveInv'
  BY <1>4, <1>6 DEF LiveInv, Idle, Childless
<1>13. NewInv'
  BY <1>6 DEF NewInv
<1>14. EndInv'
  BY <1>1, <1>4, <1>6 DEF EndInv
<1>15. OwnInv'
  BY <1>4, <1>6 DEF OwnInv, Idle
<1>16. OuterInv'
  BY <1>4, <1>6 DEF OuterInv, Idle
<1>17. ErrorHeard'
  BY <1>6 DEF ErrorHeard
<1> QED
  BY <1>4, <1>7, <1>8, <1>9, <1>10, <1>11, <1>12, <1>13, <1>14, <1>15, <1>16,
     <1>17

(* The outer coroutine is through and goes on nowhere. *)
LEMMA CompleteStep ==
  ASSUME Inv, NEW t \in Threads, Complete(t)
  PROVE  Inv'
<1> USE DEF Inv, TaskInv, VarTypes, Activation
<1>1. Top(t) \in Activations /\ Top(t) \in ActivationType /\ Top(t).at = "complete"
        /\ stack[t] # <<>> /\ Single
  BY TopFacts, ActivationFacts DEF Complete, At
<1>2. Pop(t)
  BY DEF Complete
<1>4. StackType' /\ OneEach' /\ Activations' = Activations \ {Top(t)}
  BY <1>1, <1>2, Popped
<1>5. Single'
  BY <1>4, NextActivationFacts
<1>6. /\ completed' = TRUE
      /\ UNCHANGED <<frame, done, continuation, result, caught, parked, tired, returned>>
  BY DEF Complete
<1>7. VarTypes'
  BY <1>6
<1>8. RunInv'
  BY <1>4, <1>6 DEF RunInv, Sound, Childless
<1>9. AwaitInv'
  BY <1>4, <1>6 DEF AwaitInv, Idle
<1>10. ParkInv'
  BY <1>4, <1>6 DEF ParkInv, Idle, Childless
<1>11. ChildInv'
  BY <1>1, <1>4, <1>6 DEF ChildInv, Awaiting, Linked, Idle
<1>12. LiveInv'
  BY <1>1, <1>4, <1>6 DEF RunInv, Sound, LiveInv, Idle, Childless
<1>13. NewInv'
  BY <1>6 DEF NewInv
<1>14. EndInv'
  BY <1>1, <1>4, <1>6 DEF EndInv
<1>15. OwnInv'
  BY <1>4, <1>6 DEF OwnInv, Idle
<1>16. OuterInv'
  BY <1>1, <1>4, <1>6 DEF OuterInv, RunInv, Sound, Single, Idle
<1>17. ErrorHeard'
  BY <1>6 DEF ErrorHeard
<1> QED
  BY <1>4, <1>7, <1>8, <1>9, <1>10, <1>11, <1>12, <1>13, <1>14, <1>15, <1>16,
     <1>17

(* Under the parent that it resumed, a coroutine has nothing to do. *)
LEMMA UnwindStep ==
  ASSUME Inv, NEW t \in Threads, Unwind(t)
  PROVE  Inv'
<1> USE DEF Inv, TaskInv, VarTypes, Activation
<1>1. Top(t) \in Activations /\ Top(t) \in ActivationType /\ Top(t).at = "resumed"
        /\ stack[t] # <<>> /\ Single
  BY TopFacts, ActivationFacts DEF Unwind, At
<1>2. Pop(t)
  BY DEF Unwind
<1>4. StackType' /\ OneEach' /\ Activations' \subseteq Activations /\ Activations \ {Top(t)} \subseteq Activations'
  BY <1>1, <1>2, Popped
<1>5. Single'
  BY <1>4, NextActivationFacts
<1>6. UNCHANGED <<frame, done, continuation, result, caught, parked, tired, completed, returned>>
  BY DEF Unwind
<1>7. VarTypes'
  BY <1>6
<1>8. RunInv'
  BY <1>4, <1>6 DEF RunInv, Sound, Childless
<1>9. AwaitInv'
  BY <1>4, <1>6 DEF AwaitInv, Idle
<1>10. ParkInv'
  BY <1>4, <1>6 DEF ParkInv, Idle, Childless
<1>11. ChildInv'
  BY <1>1, <1>4, <1>6 DEF ChildInv, Awaiting, Linked, Idle
<1>12. LiveInv'
  BY <1>1, <1>4, <1>6 DEF LiveInv, Idle, Childless
<1>13. NewInv'
  BY <1>6 DEF NewInv
<1>14. EndInv'
  BY <1>1, <1>4, <1>6 DEF EndInv
<1>15. OwnInv'
  BY <1>4, <1>6 DEF OwnInv, Idle
<1>16. OuterInv'
  BY <1>4, <1>6 DEF OuterInv, Idle
<1>17. ErrorHeard'
  BY <1>6 DEF ErrorHeard
<1> QED
  BY <1>4, <1>7, <1>8, <1>9, <1>10, <1>11, <1>12, <1>13, <1>14, <1>15, <1>16,
     <1>17

(* Nothing links to a child whose parent is still active. *)
LEMMA LinkStep ==
  ASSUME Inv, NEW t \in Threads, Link(t)
  PROVE  Inv'
<1> USE DEF Inv, TaskInv, VarTypes, Activation
<1>1. Top(t) \in Activations /\ Top(t) \in ActivationType /\ Top(t).at = "starting"
        /\ stack[t] # <<>> /\ Single
  BY TopFacts, ActivationFacts DEF Link, At
<1> DEFINE x == Activation(Top(t).coro, "swap", Top(t).child)
<1>2. x.coro = Top(t).coro /\ x.at = "swap" /\ x.child = Top(t).child
  OBVIOUS
<1>3. Goto(t, "swap")
  BY DEF Link
<1>4. StackType' /\ OneEach' /\ Activations' = (Activations \ {Top(t)}) \cup {x}
  BY <1>1, <1>3, Went DEF Points
<1>5. Single'
  BY <1>4, NextActivationFacts
<1>6. /\ continuation' = [continuation EXCEPT ![Top(t).child] = Top(t).coro]
      /\ UNCHANGED <<frame, done, result, caught, parked, tired, completed, returned>>
  BY DEF Link
<1>7. VarTypes'
  BY <1>1, <1>6 DEF ActivationType
<1>8. RunInv'
  BY <1>1, <1>4, <1>6 DEF RunInv, Sound, Childless
<1>9. AwaitInv'
  BY <1>1, <1>4, <1>6 DEF AwaitInv, Idle
<1>10. ParkInv'
  BY <1>1, <1>4, <1>6 DEF ParkInv, Idle, Childless
<1>11. ChildInv'
  <2>1. ASSUME NEW e \in Coros \ {Outer}, Awaiting(e) PROVE Awaiting(e)'
    BY <2>1, <1>1, <1>2, <1>4 DEF Awaiting
  <2>2. ASSUME NEW e \in Coros, Idle(e) PROVE Idle(e)'
    BY <2>2, <1>1, <1>2, <1>4 DEF Idle
  <2>3. ASSUME NEW e \in Coros \ {Outer}, frame[e] = "live", Parent[e] # Nobody,
               Linked(e)
        PROVE  Linked(e)'
    <3>1. Parent[e] \in Coros /\ Idle(Parent[e])'
      BY <2>2, <2>3, ParentAssumption DEF Linked
    <3>2. e # Top(t).child
      BY <2>3, <1>1 DEF Linked, Idle, AwaitInv
    <3> QED
      BY <2>3, <3>1, <3>2, <1>1, <1>2, <1>4, <1>6 DEF Linked
  <2> QED
    BY <2>1, <2>3, <1>6 DEF ChildInv
<1>12. LiveInv'
  BY <1>1, <1>4, <1>6 DEF AwaitInv, LiveInv, Idle, Childless
<1>13. NewInv'
  BY <1>6 DEF NewInv
<1>14. EndInv'
  BY <1>1, <1>4, <1>6 DEF EndInv
<1>15. OwnInv'
  BY <1>1, <1>4, <1>6 DEF OwnInv, Idle
<1>16. OuterInv'
  BY <1>1, <1>4, <1>6 DEF OuterInv, Idle
<1>17. ErrorHeard'
  BY <1>6 DEF ErrorHeard
<1> QED
  BY <1>4, <1>7, <1>8, <1>9, <1>10, <1>11, <1>12, <1>13, <1>14, <1>15, <1>16,
     <1>17

(* The flag was raised by the child: it is through. *)
LEMMA SwapOnStep ==
  ASSUME Inv, NEW t \in Threads, Swap(t), done[Top(t).child]
  PROVE  Inv'
<1> USE DEF Inv, TaskInv, VarTypes, Activation
<1>1. Top(t) \in Activations /\ Top(t) \in ActivationType /\ Top(t).at = "swap"
        /\ stack[t] # <<>> /\ Single
  BY TopFacts, ActivationFacts DEF Swap, At
<1> DEFINE x == Activation(Top(t).coro, "collect", Top(t).child)
<1>2. x.coro = Top(t).coro /\ x.at = "collect" /\ x.child = Top(t).child
  OBVIOUS
<1>3. Goto(t, "collect")
  BY DEF Swap
<1>4. StackType' /\ OneEach' /\ Activations' = (Activations \ {Top(t)}) \cup {x}
  BY <1>1, <1>3, Went DEF Points
<1>5. Single'
  BY <1>4, NextActivationFacts
<1>6. /\ done' = [done EXCEPT ![Top(t).child] = TRUE] /\ done[Top(t).child]
      /\ UNCHANGED <<frame, continuation, result, caught, parked, tired, completed, returned>>
  BY DEF Swap
<1>7. VarTypes'
  BY <1>6
<1>8. RunInv'
  BY <1>1, <1>4, <1>6 DEF RunInv, Sound, Childless
<1>9. AwaitInv'
  BY <1>1, <1>4, <1>6 DEF AwaitInv, Idle
<1>10. ParkInv'
  BY <1>1, <1>4, <1>6 DEF ParkInv, Idle, Childless
<1>11. ChildInv'
  <2>1. ASSUME NEW e \in Coros \ {Outer}, Awaiting(e) PROVE Awaiting(e)'
    BY <2>1, <1>1, <1>2, <1>4 DEF Awaiting
  <2>2. ASSUME NEW e \in Coros, Idle(e) PROVE Idle(e)'
    BY <2>2, <1>1, <1>2, <1>4 DEF Idle
  <2>3. ASSUME NEW e \in Coros \ {Outer}, Parent[e] # Nobody, Linked(e) PROVE Linked(e)'
    <3>1. Parent[e] \in Coros /\ Idle(Parent[e])'
      BY <2>2, <2>3, ParentAssumption DEF Linked
    <3>2. done'[e]
      BY <2>3, <1>6 DEF Linked
    <3>3. ASSUME result[e] # "none"
          PROVE  \E a \in Activations' : a.coro = e /\ a.at \in {"final", "wake"}
      <4>1. PICK a \in Activations : a.coro = e /\ a.at \in {"final", "wake"}
        BY <2>3, <3>3 DEF Linked
      <4> QED
        BY <4>1, <1>1, <1>2, <1>4
    <3> QED
      BY <2>3, <3>1, <3>2, <3>3, <1>6 DEF Linked
  <2> QED
    BY <2>1, <2>3, <1>6 DEF ChildInv
<1>12. LiveInv'
  BY <1>1, <1>4, <1>6 DEF AwaitInv, LiveInv, Idle, Childless
<1>13. NewInv'
  BY <1>6 DEF NewInv
<1>14. EndInv'
  BY <1>1, <1>4, <1>6 DEF EndInv
<1>15. OwnInv'
  BY <1>1, <1>4, <1>6 DEF OwnInv, Idle
<1>16. OuterInv'
  BY <1>1, <1>4, <1>6 DEF OuterInv, Idle
<1>17. ErrorHeard'
  BY <1>6 DEF ErrorHeard
<1> QED
  BY <1>4, <1>7, <1>8, <1>9, <1>10, <1>11, <1>12, <1>13, <1>14, <1>15, <1>16,
     <1>17

(* The flag was down: the child is going to find it up. *)
LEMMA SwapOffStep ==
  ASSUME Inv, NEW t \in Threads, Swap(t), ~done[Top(t).child]
  PROVE  Inv'
<1> USE DEF Inv, TaskInv, VarTypes, Activation
<1>1. Top(t) \in Activations /\ Top(t) \in ActivationType /\ Top(t).at = "swap"
        /\ stack[t] # <<>> /\ Single
  BY TopFacts, ActivationFacts DEF Swap, At
<1>2. Pop(t)
  BY DEF Swap
<1>4. StackType' /\ OneEach' /\ Activations' = Activations \ {Top(t)}
  BY <1>1, <1>2, Popped
<1>5. Single'
  BY <1>4, NextActivationFacts
<1>6. /\ done' = [done EXCEPT ![Top(t).child] = TRUE] /\ ~done[Top(t).child]
      /\ UNCHANGED <<frame, continuation, result, caught, parked, tired, completed, returned>>
  BY DEF Swap
<1>7. VarTypes'
  BY <1>6
<1>8. RunInv'
  BY <1>4, <1>6 DEF RunInv, Sound, Childless
<1>9. AwaitInv'
  BY <1>1, <1>4, <1>6 DEF AwaitInv, Single, Idle
<1>10. ParkInv'
  BY <1>4, <1>6 DEF ParkInv, Idle, Childless
<1>11. ChildInv'
  <2>0. PICK c, d : c = Top(t).coro /\ d = Top(t).child
    OBVIOUS
  <2>1. /\ d \in Coros \ {Outer} /\ Parent[d] = c /\ c \in Coros /\ c \notin parked
        /\ continuation[d] = c
    BY <2>0, <1>1 DEF AwaitInv, ActivationType, ParkInv, Idle
  <2>2. Idle(c)'
    BY <2>0, <1>1, <1>4 DEF Single, Idle
  <2>3. result[d] # "none" => \E a \in Activations' : a.coro = d /\ a.at \in {"final", "wake"}
    BY <2>0, <2>1, <1>1, <1>4, <1>6 DEF EndInv
  <2>4. Linked(d)'
    BY <2>0, <2>1, <2>2, <2>3, <1>6 DEF Linked
  <2>5. ASSUME NEW e \in Coros \ {Outer}, e # d, Awaiting(e) PROVE Awaiting(e)'
    BY <2>0, <2>5, <1>4 DEF Awaiting
  <2>6. ASSUME NEW e \in Coros \ {Outer}, Linked(e) PROVE Linked(e)'
    <3>1. Idle(Parent[e])'
      BY <2>6, <1>4 DEF Linked, Idle
    <3>2. ASSUME result[e] # "none"
          PROVE  \E a \in Activations' : a.coro = e /\ a.at \in {"final", "wake"}
      BY <2>6, <3>2, <1>1, <1>4 DEF Linked
    <3> QED
      BY <2>6, <3>1, <3>2, <1>6 DEF Linked
  <2> QED
    BY <2>4, <2>5, <2>6, <1>6 DEF ChildInv
<1>12. LiveInv'
  BY <1>1, <1>4, <1>6 DEF AwaitInv, LiveInv, Idle, Childless
<1>13. NewInv'
  BY <1>1, <1>6 DEF NewInv, AwaitInv
<1>14. EndInv'
  BY <1>1, <1>4, <1>6 DEF EndInv
<1>15. OwnInv'
  BY <1>1, <1>4, <1>6, OuterAssumption
  DEF OwnInv, AwaitInv, ActivationType, Idle
<1>16. OuterInv'
  BY <1>4, <1>6 DEF OuterInv, Idle
<1>17. ErrorHeard'
  BY <1>6 DEF ErrorHeard
<1> QED
  BY <1>4, <1>7, <1>8, <1>9, <1>10, <1>11, <1>12, <1>13, <1>14, <1>15, <1>16,
     <1>17

(* The flag was raised by the parent, or there is none. *)
LEMMA FinishOnStep ==
  ASSUME Inv, NEW t \in Threads, Finish(t), done[Top(t).coro]
  PROVE  Inv'
<1> USE DEF Inv, TaskInv, VarTypes, Activation
<1>1. Top(t) \in Activations /\ Top(t) \in ActivationType /\ Top(t).at = "final"
        /\ stack[t] # <<>> /\ Single
  BY TopFacts, ActivationFacts DEF Finish, At
<1> DEFINE x == Activation(Top(t).coro, "wake", Top(t).child)
<1>2. x.coro = Top(t).coro /\ x.at = "wake" /\ x.child = Top(t).child
  OBVIOUS
<1>3. Goto(t, "wake")
  BY DEF Finish
<1>4. StackType' /\ OneEach' /\ Activations' = (Activations \ {Top(t)}) \cup {x}
  BY <1>1, <1>3, Went DEF Points
<1>5. Single'
  BY <1>4, NextActivationFacts
<1>6. /\ done' = [done EXCEPT ![Top(t).coro] = TRUE] /\ done[Top(t).coro]
      /\ UNCHANGED <<frame, continuation, result, caught, parked, tired, completed, returned>>
  BY DEF Finish
<1>7. VarTypes'
  BY <1>6
<1>8. RunInv'
  BY <1>1, <1>4, <1>6 DEF RunInv, Sound, Childless
<1>9. AwaitInv'
  BY <1>1, <1>4, <1>6 DEF AwaitInv, Idle
<1>10. ParkInv'
  BY <1>1, <1>4, <1>6 DEF ParkInv, Idle, Childless
<1>11. ChildInv'
  <2>1. ASSUME NEW e \in Coros \ {Outer}, Awaiting(e) PROVE Awaiting(e)'
    BY <2>1, <1>1, <1>2, <1>4 DEF Awaiting
  <2>2. ASSUME NEW e \in Coros, Idle(e) PROVE Idle(e)'
    BY <2>2, <1>1, <1>2, <1>4 DEF Idle
  <2>3. ASSUME NEW e \in Coros \ {Outer}, Parent[e] # Nobody, Linked(e) PROVE Linked(e)'
    <3>1. Parent[e] \in Coros /\ Idle(Parent[e])'
      BY <2>2, <2>3, ParentAssumption DEF Linked
    <3>2. done'[e]
      BY <2>3, <1>6 DEF Linked
    <3>3. ASSUME result[e] # "none"
          PROVE  \E a \in Activations' : a.coro = e /\ a.at \in {"final", "wake"}
      <4>1. PICK a \in Activations : a.coro = e /\ a.at \in {"final", "wake"}
        BY <2>3, <3>3 DEF Linked
      <4> QED
        BY <4>1, <1>1, <1>2, <1>4
    <3> QED
      BY <2>3, <3>1, <3>2, <3>3, <1>6 DEF Linked
  <2> QED
    BY <2>1, <2>3, <1>6 DEF ChildInv
<1>12. LiveInv'
  BY <1>1, <1>4, <1>6 DEF RunInv, Sound, LiveInv, Idle, Childless
<1>13. NewInv'
  BY <1>6 DEF NewInv
<1>14. EndInv'
  BY <1>4, <1>6 DEF EndInv
<1>15. OwnInv'
  BY <1>1, <1>4, <1>6 DEF OwnInv, Idle
<1>16. OuterInv'
  BY <1>1, <1>4, <1>6 DEF OuterInv, Idle
<1>17. ErrorHeard'
  BY <1>6 DEF ErrorHeard
<1> QED
  BY <1>4, <1>7, <1>8, <1>9, <1>10, <1>11, <1>12, <1>13, <1>14, <1>15, <1>16,
     <1>17

(* The flag was down: the parent, if any, is going to find it up. *)
LEMMA FinishOffStep ==
  ASSUME Inv, NEW t \in Threads, Finish(t), ~done[Top(t).coro]
  PROVE  Inv'
<1> USE DEF Inv, TaskInv, VarTypes, Activation
<1>1. Top(t) \in Activations /\ Top(t) \in ActivationType /\ Top(t).at = "final"
        /\ stack[t] # <<>> /\ Single
  BY TopFacts, ActivationFacts DEF Finish, At
<1>2. Pop(t)
  BY DEF Finish
<1>4. StackType' /\ OneEach' /\ Activations' = Activations \ {Top(t)}
  BY <1>1, <1>2, Popped
<1>5. Single'
  BY <1>4, NextActivationFacts
<1>6. /\ done' = [done EXCEPT ![Top(t).coro] = TRUE] /\ ~done[Top(t).coro]
      /\ UNCHANGED <<frame, continuation, result, caught, parked, tired, completed, returned>>
  BY DEF Finish
<1>7. VarTypes'
  BY <1>6
<1>8. RunInv'
  BY <1>4, <1>6 DEF RunInv, Sound, Childless
<1>9. AwaitInv'
  BY <1>1, <1>4, <1>6 DEF RunInv, Sound, AwaitInv, Single, Idle
<1>10. ParkInv'
  BY <1>4, <1>6 DEF ParkInv, Idle, Childless
<1>11. ChildInv'
  BY <1>1, <1>4, <1>6 DEF ChildInv, Awaiting, Linked, Idle
<1>12. LiveInv'
  BY <1>1, <1>4, <1>6 DEF RunInv, Sound, LiveInv, Idle, Childless
<1>13. NewInv'
  BY <1>1, <1>6 DEF NewInv, RunInv, Sound
<1>14. EndInv'
  BY <1>4, <1>6 DEF EndInv
<1>15. OwnInv'
  BY <1>1, <1>4, <1>6 DEF OwnInv, RunInv, Sound, Single, Idle
<1>16. OuterInv'
  BY <1>4, <1>6 DEF OuterInv, Idle
<1>17. ErrorHeard'
  BY <1>6 DEF ErrorHeard
<1> QED
  BY <1>4, <1>7, <1>8, <1>9, <1>10, <1>11, <1>12, <1>13, <1>14, <1>15, <1>16,
     <1>17

(* The flag was up before the child ended, and its parent is suspended. *)
LEMMA WakeFacts ==
  ASSUME Inv, NEW a \in Activations, a.at = "wake"
  PROVE  LET d == a.coro
             c == continuation[d]
         IN  /\ d \in Coros \ {Outer} /\ c \in Coros /\ c = Parent[d] /\ Idle(c)
             /\ frame[d] = "live" /\ done[d] /\ result[d] # "none"
             /\ frame[c] = "live" /\ result[c] = "none"
             /\ \A e \in Coros \ {Outer} : frame[e] = "live" /\ Parent[e] = c => e = d
<1> USE DEF Inv, TaskInv
<1> DEFINE d == a.coro
           c == continuation[d]
<1>1. a \in ActivationType
  BY ActivationFacts DEF Single
<1>2. /\ d \in Coros \ {Outer} /\ frame[d] = "live" /\ done[d] /\ result[d] # "none"
      /\ ~Idle(d)
  BY <1>1 DEF RunInv, Sound, Idle, ActivationType
<1>3. Parent[d] \in Coros
  BY <1>2, ParentAssumption DEF OwnInv
<1>4. ~Awaiting(d)
  BY <1>2 DEF Awaiting, AwaitInv
<1>5. /\ Linked(d) /\ frame[Parent[d]] = "live" /\ result[Parent[d]] = "none"
      /\ \A e \in Coros \ {Outer} : frame[e] = "live" /\ Parent[e] = Parent[d] => e = d
  BY <1>2, <1>3, <1>4, OuterAssumption DEF ChildInv
<1>6. c = Parent[d] /\ Idle(c)
  BY <1>5 DEF Linked
<1> QED
  BY <1>2, <1>3, <1>5, <1>6

(* The parent goes on, above the child that is through. *)
LEMMA WakeStep ==
  ASSUME Inv, NEW t \in Threads, Wake(t)
  PROVE  Inv'
<1> USE DEF Inv, TaskInv, VarTypes, Activation
<1>1. Top(t) \in Activations /\ Top(t) \in ActivationType /\ Top(t).at = "wake"
        /\ stack[t] # <<>> /\ Single
  BY TopFacts, ActivationFacts DEF Wake, At
<1> DEFINE d == Top(t).coro
           c == continuation[d]
           x == Activation(d, "resumed", Nobody)
           y == Activation(c, "collect", d)
<1>2. /\ x \in ActivationType /\ y \in ActivationType
      /\ x.coro = Top(t).coro /\ Idle(y.coro)
      /\ x.coro = d /\ x.at = "resumed" /\ y.coro = c /\ y.at = "collect" /\ y.child = d
      /\ d \in Coros \ {Outer} /\ c \in Coros /\ c = Parent[d] /\ Idle(c)
      /\ frame[d] = "live" /\ done[d] /\ result[d] # "none"
      /\ frame[c] = "live" /\ result[c] = "none"
      /\ \A e \in Coros \ {Outer} : frame[e] = "live" /\ Parent[e] = c => e = d
  <2>1. /\ d \in Coros \ {Outer} /\ c \in Coros /\ c = Parent[d] /\ Idle(c)
        /\ frame[d] = "live" /\ done[d] /\ result[d] # "none"
        /\ frame[c] = "live" /\ result[c] = "none"
        /\ \A e \in Coros \ {Outer} : frame[e] = "live" /\ Parent[e] = c => e = d
    BY <1>1, WakeFacts
  <2> QED
    BY <1>1, <2>1 DEF ActivationType, Points
<1>3. stack' = [stack EXCEPT ![t] = Append(Append(Front(stack[t]), x), y)]
  BY DEF Wake
<1> HIDE DEF x, y, c
<1>4. StackType' /\ OneEach' /\ Activations' = (Activations \ {Top(t)}) \cup {x, y}
  BY <1>1, <1>2, <1>3, Nested
<1>5. Single'
  BY <1>4, NextActivationFacts
<1>6. UNCHANGED <<frame, done, continuation, result, caught, parked, tired, completed, returned>>
  BY DEF Wake
<1>7. VarTypes'
  BY <1>6
<1>8. RunInv'
  BY <1>2, <1>4, <1>6 DEF RunInv, Sound, Childless
<1>9. AwaitInv'
  BY <1>1, <1>2, <1>4, <1>6 DEF AwaitInv, Single, Idle
<1>10. ParkInv'
  BY <1>2, <1>4, <1>6 DEF ParkInv, Idle, Childless
<1>11. ChildInv'
  BY <1>1, <1>2, <1>4, <1>6 DEF ChildInv, Awaiting, Linked, Idle
<1>12. LiveInv'
  BY <1>2, <1>4, <1>6 DEF LiveInv, Idle, Childless
<1>13. NewInv'
  BY <1>6 DEF NewInv
<1>14. EndInv'
  BY <1>1, <1>4, <1>6 DEF EndInv
<1>15. OwnInv'
  BY <1>2, <1>4, <1>6 DEF OwnInv, Idle
<1>16. OuterInv'
  BY <1>2, <1>4, <1>6 DEF OuterInv, Idle
<1>17. ErrorHeard'
  BY <1>6 DEF ErrorHeard
<1> QED
  BY <1>4, <1>7, <1>8, <1>9, <1>10, <1>11, <1>12, <1>13, <1>14, <1>15, <1>16,
     <1>17

(* A coroutine that ends awaits nothing. *)
LEMMA ReturnStep ==
  ASSUME Inv, NEW t \in Threads, Return(t)
  PROVE  Inv'
<1> USE DEF Inv, TaskInv, VarTypes, Activation
<1>1. Top(t) \in Activations /\ Top(t) \in ActivationType /\ Top(t).at = "body"
        /\ stack[t] # <<>> /\ Single
  BY TopFacts, ActivationFacts DEF Return, At
<1> DEFINE c == Top(t).coro
           x == Activation(c, IF c = Outer THEN "complete" ELSE "final", Nobody)
<1>2. /\ x \in ActivationType /\ x.coro = c /\ c \in Coros
      /\ x.at = IF c = Outer THEN "complete" ELSE "final"
  BY <1>1 DEF ActivationType, Points
<1>3. stack' = [stack EXCEPT ![t] = Append(Front(stack[t]), x)]
  BY DEF Return, End
<1> HIDE DEF x
<1>4. StackType' /\ OneEach' /\ Activations' = (Activations \ {Top(t)}) \cup {x}
  BY <1>1, <1>2, <1>3, Switched
<1>5. Single'
  BY <1>4, NextActivationFacts
<1>6. \E outcome \in {"value", "error"} :
        /\ result' = [result EXCEPT ![c] = outcome]
        /\ UNCHANGED <<frame, done, continuation, caught, parked, tired, completed, returned>>
  BY DEF Return, End
<1>7. VarTypes'
  BY <1>6
<1>8. RunInv'
  BY <1>1, <1>2, <1>4, <1>6 DEF RunInv, Sound, Single, Childless
<1>9. AwaitInv'
  BY <1>1, <1>2, <1>4, <1>6 DEF AwaitInv, Idle
<1>10. ParkInv'
  BY <1>1, <1>2, <1>4, <1>6 DEF ParkInv, Idle, Childless
<1>11. ChildInv'
  BY <1>1, <1>2, <1>4, <1>6
  DEF RunInv, Sound, ChildInv, Awaiting, Linked, Idle, Childless
<1>12. LiveInv'
  BY <1>4, <1>6 DEF LiveInv, Idle, Childless
<1>13. NewInv'
  BY <1>1, <1>6 DEF NewInv, RunInv, Sound
<1>14. EndInv'
  BY <1>2, <1>4, <1>6 DEF EndInv
<1>15. OwnInv'
  BY <1>1, <1>2, <1>4, <1>6 DEF OwnInv, Idle
<1>16. OuterInv'
  BY <1>1, <1>2, <1>4, <1>6 DEF OuterInv, Idle
<1>17. ErrorHeard'
  BY <1>1, <1>6 DEF ErrorHeard, RunInv, Sound
<1> QED
  BY <1>4, <1>7, <1>8, <1>9, <1>10, <1>11, <1>12, <1>13, <1>14, <1>15, <1>16,
     <1>17

(* The one child is through and active nowhere: its frame may go. *)
LEMMA CollectValueStep ==
  ASSUME Inv, NEW t \in Threads, Collect(t), result[Top(t).child] # "error", GoOn(t), caught' = caught
  PROVE  Inv'
<1> USE DEF Inv, TaskInv, VarTypes, Activation
<1>1. Top(t) \in Activations /\ Top(t) \in ActivationType /\ Top(t).at = "collect"
        /\ stack[t] # <<>> /\ Single
  BY TopFacts, ActivationFacts DEF Collect, At
<1> DEFINE c == Top(t).coro
           d == Top(t).child
           x == Activation(c, "body", Nobody)
<1>2. /\ x \in ActivationType /\ x.coro = c /\ c \in Coros /\ x.at = "body"
      /\ d \in Coros \ {Outer} /\ Parent[d] = c /\ frame[d] = "live"
      /\ done[d] /\ result[d] # "none" /\ Idle(d)
      /\ \A e \in Coros \ {Outer} : frame[e] = "live" /\ Parent[e] = c => e = d
  <2>1. /\ d \in Coros \ {Outer} /\ Parent[d] = c /\ frame[d] = "live"
        /\ done[d] /\ result[d] # "none" /\ Idle(d)
    BY <1>1 DEF AwaitInv
  <2>2. c \in Coros /\ x \in ActivationType
    BY <1>1 DEF ActivationType, Points
  <2> QED
    BY <2>1, <2>2, OuterAssumption DEF ChildInv
<1>3. stack' = [stack EXCEPT ![t] = Append(Front(stack[t]), x)]
  BY DEF GoOn
<1> HIDE DEF x
<1>4. StackType' /\ OneEach' /\ Activations' = (Activations \ {Top(t)}) \cup {x}
  BY <1>1, <1>2, <1>3, Switched
<1>5. Single'
  BY <1>4, NextActivationFacts
<1>6. /\ frame' = [frame EXCEPT ![d] = "gone"] /\ caught' = caught /\ result[d] # "error"
      /\ UNCHANGED <<done, continuation, result, parked, tired, completed, returned>>
  BY DEF Collect, GoOn
<1>7. VarTypes'
  BY <1>6
<1>8. RunInv'
  BY <1>1, <1>2, <1>4, <1>6 DEF RunInv, Sound, Idle, Childless
<1>9. AwaitInv'
  BY <1>1, <1>2, <1>4, <1>6 DEF AwaitInv, Single, Idle
<1>10. ParkInv'
  BY <1>2, <1>4, <1>6 DEF ParkInv, Idle, Childless
<1>11. ChildInv'
  BY <1>1, <1>2, <1>4, <1>6 DEF ChildInv, Awaiting, Linked, Idle
<1>12. LiveInv'
  BY <1>2, <1>4, <1>6 DEF LiveInv, Idle, Childless
<1>13. NewInv'
  BY <1>6 DEF NewInv
<1>14. EndInv'
  BY <1>1, <1>4, <1>6 DEF EndInv
<1>15. OwnInv'
  BY <1>1, <1>2, <1>4, <1>6 DEF OwnInv, Idle
<1>16. OuterInv'
  BY <1>1, <1>2, <1>4, <1>6 DEF OuterInv, Idle
<1>17. ErrorHeard'
  BY <1>6 DEF ErrorHeard
<1> QED
  BY <1>4, <1>7, <1>8, <1>9, <1>10, <1>11, <1>12, <1>13, <1>14, <1>15, <1>16,
     <1>17

(* The same, with the exception caught. *)
LEMMA CollectCaughtStep ==
  ASSUME Inv, NEW t \in Threads, Collect(t), GoOn(t), caught' = caught \cup {Top(t).child}
  PROVE  Inv'
<1> USE DEF Inv, TaskInv, VarTypes, Activation
<1>1. Top(t) \in Activations /\ Top(t) \in ActivationType /\ Top(t).at = "collect"
        /\ stack[t] # <<>> /\ Single
  BY TopFacts, ActivationFacts DEF Collect, At
<1> DEFINE c == Top(t).coro
           d == Top(t).child
           x == Activation(c, "body", Nobody)
<1>2. /\ x \in ActivationType /\ x.coro = c /\ c \in Coros /\ x.at = "body"
      /\ d \in Coros \ {Outer} /\ Parent[d] = c /\ frame[d] = "live"
      /\ done[d] /\ result[d] # "none" /\ Idle(d)
      /\ \A e \in Coros \ {Outer} : frame[e] = "live" /\ Parent[e] = c => e = d
  <2>1. /\ d \in Coros \ {Outer} /\ Parent[d] = c /\ frame[d] = "live"
        /\ done[d] /\ result[d] # "none" /\ Idle(d)
    BY <1>1 DEF AwaitInv
  <2>2. c \in Coros /\ x \in ActivationType
    BY <1>1 DEF ActivationType, Points
  <2> QED
    BY <2>1, <2>2, OuterAssumption DEF ChildInv
<1>3. stack' = [stack EXCEPT ![t] = Append(Front(stack[t]), x)]
  BY DEF GoOn
<1> HIDE DEF x
<1>4. StackType' /\ OneEach' /\ Activations' = (Activations \ {Top(t)}) \cup {x}
  BY <1>1, <1>2, <1>3, Switched
<1>5. Single'
  BY <1>4, NextActivationFacts
<1>6. /\ frame' = [frame EXCEPT ![d] = "gone"] /\ caught' = caught \cup {d}
      /\ UNCHANGED <<done, continuation, result, parked, tired, completed, returned>>
  BY DEF Collect, GoOn
<1>7. VarTypes'
  BY <1>2, <1>6
<1>8. RunInv'
  BY <1>1, <1>2, <1>4, <1>6 DEF RunInv, Sound, Idle, Childless
<1>9. AwaitInv'
  BY <1>1, <1>2, <1>4, <1>6 DEF AwaitInv, Single, Idle
<1>10. ParkInv'
  BY <1>2, <1>4, <1>6 DEF ParkInv, Idle, Childless
<1>11. ChildInv'
  BY <1>1, <1>2, <1>4, <1>6 DEF ChildInv, Awaiting, Linked, Idle
<1>12. LiveInv'
  BY <1>2, <1>4, <1>6 DEF LiveInv, Idle, Childless
<1>13. NewInv'
  BY <1>6 DEF NewInv
<1>14. EndInv'
  BY <1>1, <1>4, <1>6 DEF EndInv
<1>15. OwnInv'
  BY <1>1, <1>2, <1>4, <1>6 DEF OwnInv, Idle
<1>16. OuterInv'
  BY <1>1, <1>2, <1>4, <1>6 DEF OuterInv, Idle
<1>17. ErrorHeard'
  BY <1>2, <1>6 DEF ErrorHeard
<1> QED
  BY <1>4, <1>7, <1>8, <1>9, <1>10, <1>11, <1>12, <1>13, <1>14, <1>15, <1>16,
     <1>17

(* The same, with the exception thrown on. *)
LEMMA CollectErrorStep ==
  ASSUME Inv, NEW t \in Threads, Collect(t), End(t, "error"),
         frame' = [frame EXCEPT ![Top(t).child] = "gone"], caught' = caught
  PROVE  Inv'
<1> USE DEF Inv, TaskInv, VarTypes, Activation
<1>1. Top(t) \in Activations /\ Top(t) \in ActivationType /\ Top(t).at = "collect"
        /\ stack[t] # <<>> /\ Single
  BY TopFacts, ActivationFacts DEF Collect, At
<1> DEFINE c == Top(t).coro
           d == Top(t).child
           x == Activation(c, IF c = Outer THEN "complete" ELSE "final", Nobody)
<1>2. /\ x \in ActivationType /\ x.coro = c /\ c \in Coros /\ x.at = IF c = Outer THEN "complete" ELSE "final"
      /\ d \in Coros \ {Outer} /\ Parent[d] = c /\ frame[d] = "live"
      /\ done[d] /\ result[d] # "none" /\ Idle(d)
      /\ \A e \in Coros \ {Outer} : frame[e] = "live" /\ Parent[e] = c => e = d
  <2>1. /\ d \in Coros \ {Outer} /\ Parent[d] = c /\ frame[d] = "live"
        /\ done[d] /\ result[d] # "none" /\ Idle(d)
    BY <1>1 DEF AwaitInv
  <2>2. c \in Coros /\ x \in ActivationType
    BY <1>1 DEF ActivationType, Points
  <2> QED
    BY <2>1, <2>2, OuterAssumption DEF ChildInv
<1>3. stack' = [stack EXCEPT ![t] = Append(Front(stack[t]), x)]
  BY DEF End
<1> HIDE DEF x
<1>4. StackType' /\ OneEach' /\ Activations' = (Activations \ {Top(t)}) \cup {x}
  BY <1>1, <1>2, <1>3, Switched
<1>5. Single'
  BY <1>4, NextActivationFacts
<1>6. /\ frame' = [frame EXCEPT ![d] = "gone"] /\ result' = [result EXCEPT ![c] = "error"]
      /\ UNCHANGED <<done, continuation, caught, parked, tired, completed, returned>>
  BY DEF Collect, End
<1>7. VarTypes'
  BY <1>6
<1>8. RunInv'
  BY <1>1, <1>2, <1>4, <1>6 DEF RunInv, Sound, Single, Idle, Childless
<1>9. AwaitInv'
  BY <1>1, <1>2, <1>4, <1>6 DEF AwaitInv, Single, Idle
<1>10. ParkInv'
  BY <1>2, <1>4, <1>6 DEF ParkInv, Idle, Childless
<1>11. ChildInv'
  BY <1>2, <1>4, <1>6 DEF ChildInv, Awaiting, Linked, Idle
<1>12. LiveInv'
  BY <1>2, <1>4, <1>6 DEF LiveInv, Idle, Childless
<1>13. NewInv'
  BY <1>1, <1>6 DEF NewInv, RunInv, Sound
<1>14. EndInv'
  BY <1>2, <1>4, <1>6 DEF EndInv
<1>15. OwnInv'
  BY <1>1, <1>2, <1>4, <1>6 DEF OwnInv, Idle
<1>16. OuterInv'
  BY <1>1, <1>2, <1>4, <1>6 DEF OuterInv, Idle
<1>17. ErrorHeard'
  BY <1>1, <1>2, <1>6 DEF ErrorHeard, RunInv, Sound
<1> QED
  BY <1>4, <1>7, <1>8, <1>9, <1>10, <1>11, <1>12, <1>13, <1>14, <1>15, <1>16,
     <1>17

(* The outer coroutine is active nowhere when its frame goes. *)
LEMMA SyncWaitStep ==
  ASSUME Inv, SyncWait
  PROVE  Inv'
<1> USE DEF Inv, TaskInv, VarTypes, Activation
<1>1. Single
  BY ActivationFacts
<1>2. /\ completed /\ result[Outer] # "none" /\ \A a \in Activations : a.coro # Outer
  BY DEF SyncWait, OuterInv, RunInv, Sound, Idle
<1>3. StackType /\ OneEach /\ stack' = stack
  BY DEF SyncWait
<1>4. StackType' /\ OneEach' /\ Activations' = Activations
  BY <1>3 DEF StackType, OneEach, Activations
<1>5. Single'
  BY <1>4, NextActivationFacts
<1>6. /\ returned' = result[Outer] /\ frame' = [frame EXCEPT ![Outer] = "gone"]
      /\ UNCHANGED <<done, continuation, result, caught, parked, tired, completed>>
  BY DEF SyncWait
<1>7. VarTypes'
  BY <1>6, OuterAssumption
<1>8. RunInv'
  BY <1>2, <1>4, <1>6 DEF RunInv, Sound, Childless
<1>9. AwaitInv'
  BY <1>4, <1>6 DEF AwaitInv, Idle
<1>10. ParkInv'
  BY <1>2, <1>4, <1>6 DEF ParkInv, Idle, Childless
<1>11. ChildInv'
  BY <1>2, <1>4, <1>6 DEF ChildInv, Awaiting, Linked, Idle
<1>12. LiveInv'
  BY <1>4, <1>6 DEF LiveInv, Idle, Childless
<1>13. NewInv'
  BY <1>6 DEF NewInv
<1>14. EndInv'
  BY <1>4, <1>6 DEF EndInv
<1>15. OwnInv'
  BY <1>4, <1>6 DEF OwnInv, Idle
<1>16. OuterInv'
  BY <1>4, <1>6 DEF OuterInv, Idle
<1>17. ErrorHeard'
  BY <1>6 DEF ErrorHeard
<1> QED
  BY <1>4, <1>7, <1>8, <1>9, <1>10, <1>11, <1>12, <1>13, <1>14, <1>15, <1>16,
     <1>17

(* So is a started task that has ended. *)
LEMMA DropStep ==
  ASSUME Inv, NEW d \in Coros, Drop(d)
  PROVE  Inv'
<1> USE DEF Inv, TaskInv, VarTypes, Activation
<1>1. Single
  BY ActivationFacts
<1>2. /\ d # Outer /\ Parent[d] = Nobody /\ frame[d] = "live" /\ result[d] # "none"
      /\ \A a \in Activations : a.coro # d
  BY DEF Drop, Activations
<1>3. StackType /\ OneEach /\ stack' = stack
  BY DEF Drop
<1>4. StackType' /\ OneEach' /\ Activations' = Activations
  BY <1>3 DEF StackType, OneEach, Activations
<1>5. Single'
  BY <1>4, NextActivationFacts
<1>6. /\ frame' = [frame EXCEPT ![d] = "gone"]
      /\ UNCHANGED <<done, continuation, result, caught, parked, tired, completed, returned>>
  BY DEF Drop
<1>7. VarTypes'
  BY <1>6
<1>8. RunInv'
  BY <1>2, <1>4, <1>6 DEF RunInv, Sound, Childless
<1>9. AwaitInv'
  BY <1>1, <1>2, <1>4, <1>6, OuterAssumption
  DEF AwaitInv, Single, ActivationType, Idle
<1>10. ParkInv'
  BY <1>2, <1>4, <1>6 DEF ParkInv, Idle, Childless
<1>11. ChildInv'
  BY <1>2, <1>4, <1>6 DEF ChildInv, Awaiting, Linked, Idle
<1>12. LiveInv'
  BY <1>2, <1>4, <1>6, OuterAssumption DEF LiveInv, Idle, Childless
<1>13. NewInv'
  BY <1>6 DEF NewInv
<1>14. EndInv'
  BY <1>4, <1>6 DEF EndInv
<1>15. OwnInv'
  BY <1>4, <1>6 DEF OwnInv, Idle
<1>16. OuterInv'
  BY <1>4, <1>6 DEF OuterInv, Idle
<1>17. ErrorHeard'
  BY <1>2, <1>6 DEF ErrorHeard
<1> QED
  BY <1>4, <1>7, <1>8, <1>9, <1>10, <1>11, <1>12, <1>13, <1>14, <1>15, <1>16,
     <1>17

(* At first the outer coroutine is in its own code on the main thread. *)
LEMMA InitInv == Init => Inv
<1> SUFFICES ASSUME Init PROVE Inv
  OBVIOUS
<1> DEFINE x == Activation(Outer, "body", Nobody)
<1>1. x \in ActivationType /\ x.coro = Outer /\ x.at = "body"
  BY OuterAssumption DEF ActivationType, Activation, Points
<1>2. stack = [t \in Threads |-> IF t = Main THEN <<x>> ELSE <<>>]
  BY DEF Init
<1> HIDE DEF x
<1>3. <<x>> \in Seq(ActivationType) /\ DOMAIN <<x>> = {1} /\ <<x>>[1] = x
  BY <1>1
<1>4. StackType
  BY <1>2, <1>3 DEF StackType
<1>5. \A t \in Threads : \A k \in DOMAIN stack[t] : t = Main /\ k = 1 /\ stack[t][k] = x
  BY <1>2, <1>3
<1>6. OneEach
  BY <1>5 DEF OneEach
<1>7. stack[Main] = <<x>> /\ Main \in Threads
  BY <1>2, MainAssumption
<1>8. x \in Activations
  BY <1>7, <1>3, InActivations
<1>9. Activations = {x}
  BY <1>5, <1>8, InActivations
<1>10. TaskInv
  BY <1>1, <1>9, OuterAssumption, ParentAssumption
  DEF Init, TaskInv, VarTypes, RunInv, Sound, AwaitInv, ParkInv, ChildInv, LiveInv,
      NewInv, EndInv, OwnInv, OuterInv, ErrorHeard, Idle, Childless
<1> QED
  BY <1>4, <1>6, <1>10 DEF Inv

(* A step that changes nothing keeps it. *)
LEMMA StutterStep ==
  ASSUME Inv, UNCHANGED vars
  PROVE  Inv'
BY DEF Inv, vars, StackType, OneEach, TaskInv, VarTypes, RunInv, Sound, AwaitInv,
       ParkInv, ChildInv, Awaiting, Linked, LiveInv, NewInv, EndInv, OwnInv, OuterInv,
       ErrorHeard, Idle, Childless, Activations

(* It is an invariant. *)
LEMMA TaskInvariant == Spec => []Inv
<1>1. Inv /\ [Next]_vars => Inv'
  <2> SUFFICES ASSUME Inv, [Next]_vars PROVE Inv'
    OBVIOUS
  <2>1. ASSUME NEW t \in Threads, Step(t) PROVE Inv'
    <3>1. ASSUME NEW d \in Coros, Await(t, d) \/ Start(t, d) PROVE Inv'
      BY <3>1, AwaitStep, StartStep
    <3>2. CASE Park(t) \/ Link(t) \/ Unwind(t) \/ Complete(t)
      BY <3>2, ParkStep, LinkStep, UnwindStep, CompleteStep
    <3>3. CASE Swap(t)
      BY <3>3, SwapOnStep, SwapOffStep
    <3>4. CASE Finish(t)
      BY <3>4, FinishOnStep, FinishOffStep
    <3>5. CASE Collect(t)
      <4>1. \/ result[Top(t).child] # "error" /\ GoOn(t) /\ caught' = caught
            \/ GoOn(t) /\ caught' = caught \cup {Top(t).child}
            \/ /\ End(t, "error") /\ caught' = caught
               /\ frame' = [frame EXCEPT ![Top(t).child] = "gone"]
        BY <3>5 DEF Collect
      <4> QED
        BY <4>1, <3>5, CollectValueStep, CollectCaughtStep, CollectErrorStep
    <3>6. CASE Return(t) \/ Wake(t)
      BY <3>6, ReturnStep, WakeStep
    <3>7. ASSUME NEW d \in Coros, AwaitEnded(t, d) PROVE Inv'
      <4>1. Return(t) \/ UNCHANGED vars
        BY <3>7 DEF AwaitEnded, Return, vars
      <4> QED
        BY <4>1, ReturnStep, StutterStep
    <3> QED
      BY <2>1, <3>1, <3>2, <3>3, <3>4, <3>5, <3>6, <3>7 DEF Step
  <2>2. ASSUME NEW t \in Threads, NEW c \in Coros, Unpark(t, c) PROVE Inv'
    BY <2>2, UnparkStep
  <2>3. CASE SyncWait
    BY <2>3, SyncWaitStep
  <2>4. ASSUME NEW d \in Coros, Drop(d) PROVE Inv'
    BY <2>4, DropStep
  <2>5. CASE Done \/ UNCHANGED vars
    BY <2>5, StutterStep DEF Done
  <2> QED
    BY <2>1, <2>2, <2>3, <2>4, <2>5 DEF Next
<1> QED
  BY <1>1, InitInv, PTL DEF Spec

-----------------------------------------------------------------------------
(* Everything that is resumed, parked or linked is a coroutine, whatever   *)
(* the tree of tasks and the threads are.                                  *)
THEOREM TaskTypes == Spec => []TypeOK
<1>1. Inv => TypeOK
  BY ActivationFacts DEF Inv, TaskInv, VarTypes, TypeOK, Single, ActivationType
<1> QED
  BY <1>1, TaskInvariant, PTL

(* A coroutine is never resumed while it is active or while something else *)
(* is to resume it: of the parent that goes on by itself and the child     *)
(* that wakes it, one does (task.hpp:87, 111).                             *)
THEOREM TaskRunsOnce == Spec => []OneRunner
<1>1. Inv => OneRunner
  <2> SUFFICES ASSUME Inv, NEW c \in Coros
               PROVE  Cardinality(Active(c)) <= 1 /\ (c \in parked => Active(c) = {})
    BY DEF OneRunner
  <2>1. \A p \in Active(c) :
          /\ p = <<p[1], p[2]>> /\ p[1] \in Threads /\ p[2] \in DOMAIN stack[p[1]]
          /\ stack[p[1]][p[2]].coro = c /\ stack[p[1]][p[2]].at # "resumed"
    BY DEF Active
  <2>2. \A p, q \in Active(c) : p = q
    <3> SUFFICES ASSUME NEW p \in Active(c), NEW q \in Active(c) PROVE p = q
      OBVIOUS
    <3>1. p[1] = q[1] /\ p[2] = q[2]
      BY <2>1 DEF Inv, OneEach
    <3> QED
      BY <2>1, <3>1
  <2>3. Cardinality(Active(c)) <= 1
    <3> DEFINE A == Active(c)
    <3>1. CASE A = {}
      BY <3>1, FS_EmptySet
    <3>2. CASE \E p : p \in A
      <4>1. PICK p : p \in A
        BY <3>2
      <4>2. A = {p}
        BY <4>1, <2>2
      <4> QED
        BY <4>2, FS_Singleton
    <3> QED
      BY <3>1, <3>2
  <2>4. ASSUME c \in parked, NEW p \in Active(c) PROVE FALSE
    <3>1. stack[p[1]][p[2]] \in Activations
      BY <2>1, <2>4, InActivations
    <3>2. Idle(c)
      BY <2>4 DEF Inv, TaskInv, ParkInv
    <3> QED
      BY <3>1, <3>2, <2>1, <2>4 DEF Idle
  <2> QED
    BY <2>3, <2>4
<1> QED
  BY <1>1, TaskInvariant, PTL

(* Code that is still to run finds the frames that it refers to: that of   *)
(* the parked coroutine or of the parent to resume, and that of the child  *)
(* to link to or to collect from; a parent that goes on finds a result     *)
(* (task.hpp:84-90, 202-205).                                              *)
THEOREM TaskFramesLive == Spec => []NoDangling
<1>1. Inv => NoDangling
  <2> SUFFICES ASSUME Inv PROVE NoDangling
    OBVIOUS
  <2>1. \A c \in parked : frame[c] = "live"
    BY DEF Inv, TaskInv, ParkInv
  <2>2. ASSUME NEW a \in Activations, a.at = "wake"
        PROVE  continuation[a.coro] \in Coros /\ frame[continuation[a.coro]] = "live"
    BY <2>2, WakeFacts
  <2> QED
    BY <2>1, <2>2 DEF Inv, TaskInv, RunInv, Sound, AwaitInv, NoDangling
<1> QED
  BY <1>1, TaskInvariant, PTL

(* Every suspended coroutine is linked to a child that has still to end,   *)
(* or is about to resume it (task.hpp:87, 109-112).                        *)
THEOREM TaskNobodyForgotten == Spec => []SuspendedLinked
<1>1. Inv => SuspendedLinked
  <2> SUFFICES ASSUME Inv, NEW c \in Coros, frame[c] = "live", c \notin parked,
                      result[c] = "none", Active(c) = {}
               PROVE  \E d \in Coros \ {Outer} :
                        /\ Parent[d] = c /\ frame[d] = "live"
                        /\ continuation[d] = c /\ done[d]
                        /\ result[d] # "none" => \E a \in Activations :
                             a.coro = d /\ a.at \in {"final", "wake"}
    BY DEF SuspendedLinked
  <2>1. ASSUME NEW t \in Threads, NEW k \in DOMAIN stack[t], stack[t][k].coro = c
        PROVE  stack[t][k].at = "resumed"
    <3>1. stack[t][k].at # "resumed" => <<t, k>> \in Active(c)
      BY <2>1 DEF Active
    <3> QED
      BY <3>1
  <2>2. Idle(c)
    BY <2>1, InActivations DEF Idle
  <2>3. PICK d \in Coros \ {Outer} : Parent[d] = c /\ frame[d] = "live"
    BY <2>2 DEF Inv, TaskInv, LiveInv, Childless
  <2>4. Awaiting(d) \/ Linked(d)
    BY <2>3, OuterAssumption DEF Inv, TaskInv, ChildInv
  <2>5. ~Awaiting(d)
    BY <2>2, <2>3 DEF Inv, TaskInv, Awaiting, AwaitInv, Idle
  <2>6. Linked(d)
    BY <2>4, <2>5
  <2> QED
    BY <2>3, <2>6 DEF Linked
<1> QED
  BY <1>1, TaskInvariant, PTL

(* No exception is lost on the way up, over whichever threads and however  *)
(* deep the tree (task.hpp:97-99, 131-136, 207-213, sync_wait.hpp:84-101). *)
THEOREM TaskErrorsHeard == Spec => []ErrorHeard
<1>1. Inv => ErrorHeard
  BY DEF Inv, TaskInv
<1> QED
  BY <1>1, TaskInvariant, PTL

=============================================================================
