--------------------------- MODULE SequenceLemmas ---------------------------
(***************************************************************************)
(* What the proofs of the queues and lists keep needing about sequences:   *)
(* how concatenation, reversal and taking an element off the front act on  *)
(* the elements and on their being distinct; and the least element of a    *)
(* set of naturals, with which a fact about every index is proved from     *)
(* its least counterexample.                                               *)
(***************************************************************************)
EXTENDS Integers, SequencesExt, FiniteSetTheorems, SequenceTheorems,
        WellFoundedInduction, TLAPS

(* A prefix, element by element.                                           *)
LEMMA PrefixIs ==
  ASSUME NEW S, NEW s \in Seq(S), NEW t \in Seq(S)
  PROVE  IsPrefix(s, t) <=>
           Len(s) <= Len(t) /\ \A k \in 1..Len(s) : s[k] = t[k]
<1>1. CASE Len(s) <= Len(t)
  <2> DEFINE a == SubSeq(s, 1, Len(s))
             b == SubSeq(t, 1, Len(s))
  <2>1. /\ a \in Seq(S) /\ Len(a) = Len(s) /\ Len(s) \in Nat
        /\ \A k \in 1..Len(s) : a[k] = s[k]
    OBVIOUS
  <2>2. /\ b \in Seq(S) /\ Len(b) = Len(s)
        /\ \A k \in 1..Len(s) : b[k] = t[k]
    BY <1>1
  <2>3. IsPrefix(s, t) <=> a = b
    BY <1>1 DEF IsPrefix
  <2> HIDE DEF a, b
  <2>4. a = b <=> \A k \in 1..Len(s) : a[k] = b[k]
    BY <2>1, <2>2, SeqEqual
  <2> QED
    BY <1>1, <2>1, <2>2, <2>3, <2>4
<1>2. CASE ~(Len(s) <= Len(t))
  BY <1>2 DEF IsPrefix
<1> QED
  BY <1>1, <1>2

(* A set of naturals with an element has a least one.                      *)
LEMMA LeastNatural ==
  ASSUME NEW S \in SUBSET Nat, S # {}
  PROVE  \E m \in S : \A n \in S : m <= n
<1>1. PICK m \in S : \A n \in S : ~(<<n, m>> \in OpToRel(<, Nat))
  BY NatLessThanWellFounded, WFMin
<1>2. ASSUME NEW n \in S PROVE m <= n
  <2>1. <<n, m>> \in Nat \X Nat
    BY <1>2
  <2>2. <<n, m>> \in {ss \in Nat \X Nat : ss[1] < ss[2]} <=> n < m
    BY <2>1
  <2>3. ~(n < m)
    BY <1>1, <2>2 DEF OpToRel
  <2> QED
    BY <2>3
<1> QED
  BY <1>2

(* A sequence of naturals that is not empty has a greatest element.        *)
LEMMA GreatestElement ==
  ASSUME NEW s \in Seq(Nat), s # <<>>
  PROVE  \E k \in DOMAIN s : \A j \in DOMAIN s : s[j] <= s[k]
<1> DEFINE Top(n) == \E k \in 1..n : \A j \in 1..n : s[j] <= s[k]
           Without == {n \in 1..Len(s) : ~Top(n)}
<1>1. /\ DOMAIN s = 1..Len(s) /\ Len(s) \in Nat /\ Len(s) > 0
      /\ \A k \in 1..Len(s) : s[k] \in Nat
  OBVIOUS
<1>2. ASSUME Without # {} PROVE FALSE
  <2>1. Without \in SUBSET Nat
    BY <1>1
  <2> HIDE DEF Without
  <2>2. PICK m \in Without : \A n \in Without : m <= n
    BY <1>2, <2>1, LeastNatural
  <2> USE DEF Without
  <2>3. m \in 1..Len(s) /\ ~Top(m)
    OBVIOUS
  <2>4. m # 1
    <3>1. Top(1)
      BY <1>1
    <3> QED
      BY <2>3, <3>1
  <2>5. m - 1 \in 1..Len(s) /\ m - 1 \notin Without
    <3>1. m - 1 \in 1..Len(s) /\ ~(m <= m - 1)
      BY <1>1, <2>3, <2>4
    <3> HIDE DEF Without
    <3> QED
      BY <2>2, <3>1
  <2>6. PICK k \in 1..m - 1 : \A j \in 1..m - 1 : s[j] <= s[k]
    BY <2>5
  <2> HIDE DEF Without
  <2>7. 1..m = (1..m - 1) \cup {m} /\ 1..m \subseteq 1..Len(s)
    <3>1. m \in Nat /\ m > 1 /\ m <= Len(s)
      BY <1>1, <2>3, <2>4
    <3> QED
      BY <1>1, <3>1
  <2>8. CASE s[m] <= s[k]
    BY <2>3, <2>6, <2>7, <2>8
  <2>9. CASE ~(s[m] <= s[k])
    <3>1. \A j \in 1..m : s[j] <= s[m]
      BY <1>1, <2>6, <2>7, <2>9
    <3> QED
      BY <2>3, <2>7, <3>1
  <2> QED
    BY <2>8, <2>9
<1>3. Top(Len(s))
  <2> HIDE DEF Top
  <2> QED
    BY <1>1, <1>2
<1> QED
  BY <1>1, <1>3

(* A sequence without repetitions is no longer than its set of elements.   *)
LEMMA InjectiveIsShort ==
  ASSUME NEW S, IsFiniteSet(S), NEW s \in Seq(S), IsInjective(s)
  PROVE  Cardinality(S) \in Nat /\ Len(s) <= Cardinality(S)
<1>1. s \in Injection(1..Len(s), S)
  BY DEF Injection
<1>2. Cardinality(1..Len(s)) = Len(s)
  <2>1. Len(s) \in Nat
    OBVIOUS
  <2>2. Cardinality(1..Len(s)) = IF 1 > Len(s) THEN 0 ELSE Len(s) - 1 + 1
    BY <2>1, FS_Interval
  <2> QED
    BY <2>1, <2>2
<1> QED
  BY <1>1, <1>2, FS_Injection, FS_CardinalityType

(* Taking the first element off a sequence without repetitions.            *)
LEMMA TailFacts ==
  ASSUME NEW S, NEW s \in Seq(S), s # <<>>
  PROVE  /\ Head(s) \in S /\ Tail(s) \in Seq(S)
         /\ ToSet(s) = {Head(s)} \cup ToSet(Tail(s))
         /\ IsInjective(s) => IsInjective(Tail(s)) /\ Head(s) \notin ToSet(Tail(s))
<1>1. Len(s) \in Nat /\ Len(s) > 0 /\ DOMAIN s = 1..Len(s) /\ Head(s) = s[1]
  OBVIOUS
<1>2. /\ DOMAIN Tail(s) = 1..Len(s) - 1
      /\ \A k \in 1..Len(s) - 1 : Tail(s)[k] = s[k + 1]
  BY <1>1
<1>3. ToSet(s) = {Head(s)} \cup ToSet(Tail(s))
  <2>1. ASSUME NEW x \in ToSet(s) PROVE x \in {Head(s)} \cup ToSet(Tail(s))
    <3>1. PICK k \in DOMAIN s : x = s[k]
      BY DEF ToSet
    <3>2. CASE k = 1
      BY <3>1, <3>2, <1>1
    <3>3. CASE k # 1
      <4>1. k - 1 \in DOMAIN Tail(s) /\ Tail(s)[k - 1] = x
        BY <3>1, <3>3, <1>1, <1>2
      <4> QED
        BY <4>1 DEF ToSet
    <3> QED
      BY <3>2, <3>3
  <2>2. ASSUME NEW x \in {Head(s)} \cup ToSet(Tail(s)) PROVE x \in ToSet(s)
    BY <1>1, <1>2 DEF ToSet
  <2> QED
    BY <2>1, <2>2
<1>4. IsInjective(s) => IsInjective(Tail(s)) /\ Head(s) \notin ToSet(Tail(s))
  BY <1>1, <1>2 DEF ToSet, IsInjective
<1> QED
  BY <1>3, <1>4

(* Linking a new element in front.                                         *)
LEMMA ConsFacts ==
  ASSUME NEW S, NEW s \in Seq(S), NEW e \in S
  PROVE  /\ <<e>> \o s \in Seq(S)
         /\ ToSet(<<e>> \o s) = {e} \cup ToSet(s)
         /\ IsInjective(s) /\ e \notin ToSet(s) => IsInjective(<<e>> \o s)
<1> DEFINE t == <<e>> \o s
<1>1. /\ t \in Seq(S) /\ DOMAIN t = 1..Len(s) + 1 /\ t[1] = e
      /\ \A k \in 1..Len(s) : t[k + 1] = s[k]
      /\ DOMAIN s = 1..Len(s) /\ Len(s) \in Nat
  OBVIOUS
<1> HIDE DEF t
<1>2. \A k \in DOMAIN t : k = 1 \/ (k - 1 \in DOMAIN s /\ t[k] = s[k - 1])
  BY <1>1
<1>3. ToSet(t) = {e} \cup ToSet(s)
  BY <1>1, <1>2 DEF ToSet
<1>4. IsInjective(s) /\ e \notin ToSet(s) => IsInjective(t)
  BY <1>1, <1>2 DEF ToSet, IsInjective
<1> QED
  BY <1>1, <1>3, <1>4 DEF t

(* The empty sequence is neutral.                                          *)
LEMMA EmptyFacts ==
  ASSUME NEW S, NEW s \in Seq(S)
  PROVE  s \o <<>> = s /\ <<>> \o s = s
OBVIOUS

(* A concatenation has the elements of both parts, and repeats none when   *)
(* neither part does and they share none.                                  *)
LEMMA ConcatFacts ==
  ASSUME NEW S, NEW s \in Seq(S), NEW t \in Seq(S)
  PROVE  /\ s \o t \in Seq(S)
         /\ ToSet(s \o t) = ToSet(s) \cup ToSet(t)
         /\ IsInjective(s \o t) <=>
              IsInjective(s) /\ IsInjective(t) /\ ToSet(s) \cap ToSet(t) = {}
<1> DEFINE u == s \o t
<1>1. /\ u \in Seq(S) /\ DOMAIN u = 1..Len(s) + Len(t)
      /\ DOMAIN s = 1..Len(s) /\ Len(s) \in Nat
      /\ DOMAIN t = 1..Len(t) /\ Len(t) \in Nat
      /\ \A k \in DOMAIN s : u[k] = s[k]
      /\ \A k \in DOMAIN t : u[Len(s) + k] = t[k]
  OBVIOUS
<1> HIDE DEF u
<1>2. /\ DOMAIN s \subseteq DOMAIN u
      /\ \A k \in DOMAIN t : Len(s) + k \in DOMAIN u
      /\ \A k \in DOMAIN u \ DOMAIN s :
           k - Len(s) \in DOMAIN t /\ u[k] = t[k - Len(s)]
  BY <1>1
<1>3. ToSet(u) = ToSet(s) \cup ToSet(t)
  BY <1>1, <1>2 DEF ToSet
<1>4. ASSUME IsInjective(u)
      PROVE  IsInjective(s) /\ IsInjective(t) /\ ToSet(s) \cap ToSet(t) = {}
  <2>1. IsInjective(s)
    BY <1>1, <1>2, <1>4 DEF IsInjective
  <2>2. IsInjective(t)
    <3> SUFFICES ASSUME NEW j \in DOMAIN t, NEW k \in DOMAIN t, t[j] = t[k]
                 PROVE  j = k
      BY DEF IsInjective
    <3>1. Len(s) + j = Len(s) + k
      BY <1>1, <1>2, <1>4 DEF IsInjective
    <3> QED
      BY <3>1, <1>1
  <2>3. ASSUME NEW j \in DOMAIN s, NEW k \in DOMAIN t, s[j] = t[k]
        PROVE  FALSE
    <3>1. j = Len(s) + k
      BY <1>1, <1>2, <1>4, <2>3 DEF IsInjective
    <3> QED
      BY <3>1, <1>1
  <2> QED
    BY <2>1, <2>2, <2>3 DEF ToSet
<1>5. ASSUME IsInjective(s), IsInjective(t), ToSet(s) \cap ToSet(t) = {}
      PROVE  IsInjective(u)
  <2> SUFFICES ASSUME NEW j \in DOMAIN u, NEW k \in DOMAIN u, u[j] = u[k]
               PROVE  j = k
    BY DEF IsInjective
  <2>1. \A x \in DOMAIN s, y \in DOMAIN t : s[x] # t[y]
    BY <1>5 DEF ToSet
  <2>2. CASE j \in DOMAIN s /\ k \in DOMAIN s
    BY <2>2, <1>1, <1>5 DEF IsInjective
  <2>3. CASE j \notin DOMAIN s /\ k \notin DOMAIN s
    <3>1. j - Len(s) = k - Len(s)
      BY <2>3, <1>2, <1>5 DEF IsInjective
    <3> QED
      BY <3>1, <1>1
  <2>4. CASE j \in DOMAIN s /\ k \notin DOMAIN s
    BY <2>4, <2>1, <1>1, <1>2
  <2>5. CASE j \notin DOMAIN s /\ k \in DOMAIN s
    BY <2>5, <2>1, <1>1, <1>2
  <2> QED
    BY <2>2, <2>3, <2>4, <2>5
<1> QED
  BY <1>1, <1>3, <1>4, <1>5 DEF u

(* Appending an element.                                                   *)
LEMMA AppendFacts ==
  ASSUME NEW S, NEW s \in Seq(S), NEW e \in S
  PROVE  /\ Append(s, e) \in Seq(S) /\ Append(s, e) # <<>>
         /\ ToSet(Append(s, e)) = ToSet(s) \cup {e}
         /\ IsInjective(Append(s, e)) <=> IsInjective(s) /\ e \notin ToSet(s)
<1>1. Append(s, e) = s \o <<e>> /\ <<e>> \in Seq(S) /\ s \o <<e>> # <<>>
  OBVIOUS
<1>2. ToSet(<<e>>) = {e} /\ IsInjective(<<e>>)
  BY DEF ToSet, IsInjective
<1> DEFINE t == <<e>>
<1> HIDE DEF t
<1>3. /\ s \o t \in Seq(S) /\ ToSet(s \o t) = ToSet(s) \cup ToSet(t)
      /\ IsInjective(s \o t) <=>
           IsInjective(s) /\ IsInjective(t) /\ ToSet(s) \cap ToSet(t) = {}
  BY <1>1, ConcatFacts DEF t
<1> QED
  BY <1>1, <1>2, <1>3 DEF t

(* Reversal keeps the elements and their being distinct.                   *)
LEMMA ReverseFacts ==
  ASSUME NEW S, NEW s \in Seq(S)
  PROVE  /\ Reverse(s) \in Seq(S) /\ Len(Reverse(s)) = Len(s)
         /\ ToSet(Reverse(s)) = ToSet(s)
         /\ IsInjective(Reverse(s)) <=> IsInjective(s)
<1> DEFINE r == Reverse(s)
<1>1. /\ r \in Seq(S) /\ Len(r) = Len(s) /\ Len(s) \in Nat
      /\ DOMAIN r = 1..Len(s) /\ DOMAIN s = 1..Len(s)
      /\ \A k \in 1..Len(s) : r[k] = s[(Len(s) - k) + 1]
  BY DEF Reverse
<1> HIDE DEF r
<1>2. \A k \in 1..Len(s) : /\ (Len(s) - k) + 1 \in 1..Len(s)
                           /\ s[k] = r[(Len(s) - k) + 1]
  BY <1>1
<1>3. ToSet(r) = ToSet(s)
  <2>1. \A k \in 1..Len(s) : \E j \in 1..Len(s) : r[k] = s[j]
    BY <1>1, <1>2
  <2>2. \A k \in 1..Len(s) : \E j \in 1..Len(s) : s[k] = r[j]
    BY <1>2
  <2>3. \A x : x \in ToSet(r) <=> \E k \in 1..Len(s) : x = r[k]
    BY <1>1 DEF ToSet
  <2>4. \A x : x \in ToSet(s) <=> \E k \in 1..Len(s) : x = s[k]
    BY <1>1 DEF ToSet
  <2> QED
    BY <2>1, <2>2, <2>3, <2>4
<1>4. IsInjective(r) => IsInjective(s)
  BY <1>1, <1>2 DEF IsInjective
<1>5. IsInjective(s) => IsInjective(r)
  BY <1>1, <1>2 DEF IsInjective
<1> QED
  BY <1>1, <1>3, <1>4, <1>5 DEF r

(* The element in front is at the back of the reversal.                    *)
LEMMA ReverseCons ==
  ASSUME NEW S, NEW s \in Seq(S), NEW e \in S
  PROVE  Reverse(<<e>> \o s) = Append(Reverse(s), e)
<1> DEFINE t == <<e>> \o s
<1>1. /\ t \in Seq(S) /\ Len(t) = Len(s) + 1 /\ t[1] = e /\ Len(s) \in Nat
      /\ \A k \in 1..Len(s) : t[k + 1] = s[k]
  OBVIOUS
<1> HIDE DEF t
<1>2. /\ Reverse(t) \in Seq(S) /\ Len(Reverse(t)) = Len(s) + 1
      /\ \A k \in 1..Len(s) + 1 : Reverse(t)[k] = t[(Len(s) + 1 - k) + 1]
  BY <1>1 DEF Reverse
<1>3. /\ Reverse(s) \in Seq(S) /\ Len(Reverse(s)) = Len(s)
      /\ \A k \in 1..Len(s) : Reverse(s)[k] = s[(Len(s) - k) + 1]
  BY <1>1 DEF Reverse
<1> DEFINE a == Append(Reverse(s), e)
<1>4. /\ a \in Seq(S) /\ Len(a) = Len(s) + 1 /\ a[Len(s) + 1] = e
      /\ \A k \in 1..Len(s) : a[k] = Reverse(s)[k]
  BY <1>3
<1> HIDE DEF a
<1>5. ASSUME NEW k \in 1..Len(s) + 1 PROVE Reverse(t)[k] = a[k]
  <2>1. CASE k = Len(s) + 1
    BY <2>1, <1>1, <1>2, <1>4
  <2>2. CASE k \in 1..Len(s)
    <3>1. /\ (Len(s) - k) + 1 \in 1..Len(s)
          /\ (Len(s) + 1 - k) + 1 = ((Len(s) - k) + 1) + 1
      BY <2>2, <1>1
    <3>2. t[(Len(s) + 1 - k) + 1] = s[(Len(s) - k) + 1]
      BY <3>1, <1>1
    <3> QED
      BY <3>2, <2>2, <1>2, <1>3, <1>4
  <2> QED
    BY <2>1, <2>2, <1>1
<1>6. Reverse(t) = a
  BY <1>2, <1>4, <1>5, SeqEqual
<1> QED
  BY <1>6 DEF t, a

-----------------------------------------------------------------------------
(* stacks *)

(* Front and Last take a sequence that is not empty apart. *)
LEMMA FrontFacts ==
  ASSUME NEW X, NEW s \in Seq(X), s # <<>>
  PROVE  /\ Len(s) \in Nat \ {0}
         /\ Last(s) = s[Len(s)] /\ Last(s) \in X
         /\ Front(s) \in Seq(X) /\ Len(Front(s)) = Len(s) - 1
         /\ \A k \in 1..Len(s) - 1 : Front(s)[k] = s[k]
<1>1. Len(s) \in Nat \ {0} /\ DOMAIN s = 1..Len(s)
  BY EmptySeq, LenProperties
<1>2. Last(s) = s[Len(s)] /\ Last(s) \in X
  BY <1>1 DEF Last
<1> DEFINE n == Len(s) - 1
<1>3. n \in Int /\ \A i \in 1..n : s[i] \in X
  BY <1>1
<1> HIDE DEF n
<1>4. /\ SubSeq(s, 1, n) \in Seq(X)
      /\ Len(SubSeq(s, 1, n)) = IF 1 <= n THEN n - 1 + 1 ELSE 0
      /\ \A i \in 1..n - 1 + 1 : SubSeq(s, 1, n)[i] = s[1 + i - 1]
  BY <1>3, SubSeqProperties, 1 \in Int
<1>5. Front(s) = SubSeq(s, 1, n) /\ n \in Nat /\ n = Len(s) - 1
  BY <1>1 DEF Front, n
<1>6. Front(s) \in Seq(X) /\ Len(Front(s)) = n
  BY <1>4, <1>5
<1>7. \A k \in 1..n : k \in 1..n - 1 + 1 /\ 1 + k - 1 = k
  BY <1>5
<1>8. \A k \in 1..n : Front(s)[k] = s[k]
  BY <1>4, <1>5, <1>7
<1> QED
  BY <1>1, <1>2, <1>5, <1>6, <1>8

(* What replaces the last element of a sequence follows what stays. *)
LEMMA LastReplaced ==
  ASSUME NEW X, NEW s \in Seq(X), s # <<>>, NEW N \in Seq(X)
  PROVE  LET r == Front(s) \o N
         IN  /\ r \in Seq(X)
             /\ \A k \in DOMAIN r :
                  \/ k \in DOMAIN s /\ k # Len(s) /\ r[k] = s[k]
                  \/ \E j \in DOMAIN N : k = Len(s) - 1 + j /\ r[k] = N[j]
             /\ \A k \in DOMAIN s : k # Len(s) => k \in DOMAIN r /\ r[k] = s[k]
             /\ \A j \in DOMAIN N :
                  Len(s) - 1 + j \in DOMAIN r /\ r[Len(s) - 1 + j] = N[j]
<1> DEFINE F == Front(s)
           n == Len(s)
           r == F \o N
<1>1. /\ n \in Nat \ {0} /\ DOMAIN s = 1..n
      /\ F \in Seq(X) /\ Len(F) = n - 1 /\ \A k \in 1..n - 1 : F[k] = s[k]
  BY FrontFacts, LenProperties
<1>2. r = F \o N
  OBVIOUS
<1> HIDE DEF F, r
<1>3. /\ r \in Seq(X) /\ Len(r) = Len(F) + Len(N)
      /\ \A i \in 1..Len(F) + Len(N) : r[i] = IF i <= Len(F) THEN F[i] ELSE N[i - Len(F)]
  BY <1>1, <1>2, ConcatProperties
<1>4. /\ Len(N) \in Nat /\ DOMAIN N = 1..Len(N)
      /\ DOMAIN r = 1..(n - 1 + Len(N))
  BY <1>1, <1>3, LenProperties
<1> HIDE DEF n
<1>5. /\ \A k \in 1..n - 1 : r[k] = s[k]
      /\ \A k \in n..n - 1 + Len(N) : r[k] = N[k - (n - 1)]
  <2> DEFINE l == Len(N)
             m == Len(F)
  <2>1. /\ n \in Nat \ {0} /\ m = n - 1 /\ l \in Nat
        /\ \A k \in 1..n - 1 : F[k] = s[k]
        /\ \A i \in 1..m + l : r[i] = IF i <= m THEN F[i] ELSE N[i - m]
    BY <1>1, <1>3, <1>4
  <2> HIDE DEF l, m
  <2>2. ASSUME NEW k \in 1..n - 1 PROVE r[k] = s[k]
    BY <2>1
  <2>3. ASSUME NEW k \in n..n - 1 + l PROVE r[k] = N[k - (n - 1)]
    BY <2>1
  <2> QED
    BY <2>2, <2>3 DEF l
<1>6. ASSUME NEW k \in DOMAIN r
      PROVE  \/ k \in DOMAIN s /\ k # n /\ r[k] = s[k]
             \/ \E j \in DOMAIN N : k = n - 1 + j /\ r[k] = N[j]
  <2>1. CASE k \in 1..n - 1
    BY <2>1, <1>1, <1>5
  <2>2. CASE k \in n..n - 1 + Len(N)
    <3>1. k - (n - 1) \in DOMAIN N /\ k = n - 1 + (k - (n - 1))
      BY <2>2, <1>4, <1>1
    <3> QED
      BY <3>1, <1>5, <2>2
  <2> QED
    BY <2>1, <2>2, <1>4, <1>1
<1>7. ASSUME NEW k \in DOMAIN s, k # n PROVE k \in DOMAIN r /\ r[k] = s[k]
  <2>1. k \in 1..n - 1 /\ k \in DOMAIN r
    BY <1>7, <1>1, <1>4
  <2> QED
    BY <2>1, <1>5
<1>8. ASSUME NEW j \in DOMAIN N PROVE n - 1 + j \in DOMAIN r /\ r[n - 1 + j] = N[j]
  <2>1. j \in 1..Len(N) /\ Len(N) \in Nat /\ n \in Nat \ {0}
    BY <1>4, <1>1
  <2>2. /\ n - 1 + j \in n..n - 1 + Len(N) /\ (n - 1 + j) - (n - 1) = j
        /\ n - 1 + j \in 1..(n - 1 + Len(N))
    BY <2>1
  <2> QED
    BY <2>2, <1>5, <1>4
<1> QED
  BY <1>3, <1>6, <1>7, <1>8 DEF n, r, F

(* what the stacks st[t], t \in T, hold *)
StackElements(st, T) == UNION {ToSet(st[t]) : t \in T}

(* ... each of it once *)
OnceOnStacks(st, T) ==
  \A u, v \in T : \A k \in DOMAIN st[u], l \in DOMAIN st[v] :
    st[u][k] = st[v][l] => u = v /\ k = l

PushedOn(st, t, x) == [st EXCEPT ![t] = Append(st[t], x)]

PoppedOff(st, t) == [st EXCEPT ![t] = Front(st[t])]

(* An element that the stacks do not hold is pushed. *)
LEMMA StackPushed ==
  ASSUME NEW T, NEW X, NEW st \in [T -> Seq(X)], OnceOnStacks(st, T),
         NEW t \in T, NEW x \in X, x \notin StackElements(st, T)
  PROVE  /\ PushedOn(st, t, x) \in [T -> Seq(X)]
         /\ OnceOnStacks(PushedOn(st, t, x), T)
         /\ StackElements(PushedOn(st, t, x), T) = StackElements(st, T) \cup {x}
<1> DEFINE s == st[t]
           n == Len(s) + 1
           r == Append(s, x)
           nu == PushedOn(st, t, x)
<1>1. s \in Seq(X)
  OBVIOUS
<1>2. /\ r \in Seq(X) /\ DOMAIN r = 1..n /\ r[n] = x /\ r # <<>>
      /\ DOMAIN s = 1..n - 1 /\ n \in Nat \ {0}
      /\ \A k \in 1..n - 1 : r[k] = s[k]
  <2> HIDE DEF s
  <2> QED
    BY <1>1
<1>0. nu = [st EXCEPT ![t] = r]
  BY DEF PushedOn
<1> HIDE DEF r, nu
<1>3. nu \in [T -> Seq(X)] /\ nu[t] = r /\ \A u \in T \ {t} : nu[u] = st[u]
  BY <1>0, <1>2
<1> HIDE DEF n
<1>4. \A k \in DOMAIN r : (k \in DOMAIN s /\ r[k] = s[k]) \/ (k = n /\ r[k] = x)
  BY <1>2
<1>5. (\A k \in DOMAIN s : k \in DOMAIN r /\ r[k] = s[k]) /\ n \in DOMAIN r
  BY <1>2
<1>6. \A u \in T : \A k \in DOMAIN nu[u] :
        \/ k \in DOMAIN st[u] /\ nu[u][k] = st[u][k]
        \/ u = t /\ k = n /\ nu[u][k] = x
  BY <1>3, <1>4
<1>7. /\ \A u \in T : \A k \in DOMAIN st[u] : k \in DOMAIN nu[u] /\ nu[u][k] = st[u][k]
      /\ n \in DOMAIN nu[t] /\ nu[t][n] = x
  BY <1>2, <1>3, <1>5
<1>8. \A u \in T : \A k \in DOMAIN st[u] : st[u][k] # x
  BY DEF StackElements, ToSet
<1>9. OnceOnStacks(nu, T)
  <2> SUFFICES ASSUME NEW u \in T, NEW v \in T, NEW k \in DOMAIN nu[u],
                      NEW l \in DOMAIN nu[v], nu[u][k] = nu[v][l]
               PROVE  u = v /\ k = l
    BY DEF OnceOnStacks
  <2>1. CASE k \in DOMAIN st[u] /\ nu[u][k] = st[u][k]
             /\ l \in DOMAIN st[v] /\ nu[v][l] = st[v][l]
    <3>1. st[u][k] = st[v][l]
      BY <2>1
    <3> QED
      BY <2>1, <3>1 DEF OnceOnStacks
  <2> QED
    BY <2>1, <1>6, <1>8
<1>10. StackElements(nu, T) = StackElements(st, T) \cup {x}
  <2>1. \A e : e \in StackElements(nu, T) <=> \E u \in T : \E k \in DOMAIN nu[u] : e = nu[u][k]
    BY DEF StackElements, ToSet
  <2>2. \A e : e \in StackElements(st, T) <=> \E u \in T : \E k \in DOMAIN st[u] : e = st[u][k]
    BY DEF StackElements, ToSet
  <2>3. StackElements(nu, T) \subseteq StackElements(st, T) \cup {x}
    BY <2>1, <2>2, <1>6
  <2>4. StackElements(st, T) \cup {x} \subseteq StackElements(nu, T)
    BY <2>1, <2>2, <1>7
  <2> QED
    BY <2>3, <2>4
<1> QED
  BY <1>2, <1>3, <1>9, <1>10 DEF nu, r

(* The last element of a stack is popped. *)
LEMMA StackPopped ==
  ASSUME NEW T, NEW X, NEW st \in [T -> Seq(X)], OnceOnStacks(st, T),
         NEW t \in T, st[t] # <<>>
  PROVE  /\ PoppedOff(st, t) \in [T -> Seq(X)]
         /\ OnceOnStacks(PoppedOff(st, t), T)
         /\ StackElements(PoppedOff(st, t), T) = StackElements(st, T) \ {Last(st[t])}
<1> DEFINE s == st[t]
           n == Len(s)
           r == Front(s)
           x == Last(s)
           nu == PoppedOff(st, t)
<1>1. s \in Seq(X) /\ s # <<>>
  OBVIOUS
<1>2. /\ r \in Seq(X) /\ DOMAIN r = 1..n - 1 /\ x = s[n]
      /\ DOMAIN s = 1..n /\ n \in Nat \ {0}
      /\ \A k \in 1..n - 1 : r[k] = s[k]
  <2> HIDE DEF s
  <2>1. /\ n \in Nat \ {0} /\ x = s[n] /\ r \in Seq(X) /\ Len(r) = n - 1
        /\ \A k \in 1..n - 1 : r[k] = s[k]
    BY <1>1, FrontFacts
  <2>2. DOMAIN s = 1..n
    BY <1>1, LenProperties
  <2> HIDE DEF r, n
  <2>3. DOMAIN r = 1..n - 1
    BY <2>1, LenProperties
  <2> QED
    BY <2>1, <2>2, <2>3
<1>0. nu = [st EXCEPT ![t] = r]
  BY DEF PoppedOff
<1> HIDE DEF r, x, nu
<1>3. nu \in [T -> Seq(X)] /\ nu[t] = r /\ \A u \in T \ {t} : nu[u] = st[u]
  BY <1>0, <1>2
<1> HIDE DEF n
<1>4. \A k \in DOMAIN r : k \in DOMAIN s /\ k # n /\ r[k] = s[k]
  BY <1>2
<1>5. \A k \in DOMAIN s : k # n => k \in DOMAIN r /\ r[k] = s[k]
  BY <1>2
<1>6. \A u \in T : \A k \in DOMAIN nu[u] :
        k \in DOMAIN st[u] /\ nu[u][k] = st[u][k] /\ (u = t => k # n)
  BY <1>3, <1>4
<1>7. \A u \in T : \A k \in DOMAIN st[u] :
        u # t \/ k # n => k \in DOMAIN nu[u] /\ nu[u][k] = st[u][k]
  BY <1>3, <1>5
<1>8. n \in DOMAIN st[t] /\ st[t][n] = x
  BY <1>2
<1>9. OnceOnStacks(nu, T)
  BY <1>6 DEF OnceOnStacks
<1>10. \A e : e \in StackElements(nu, T) <=> \E u \in T : \E k \in DOMAIN nu[u] : e = nu[u][k]
  BY DEF StackElements, ToSet
<1>11. \A e : e \in StackElements(st, T) <=> \E u \in T : \E k \in DOMAIN st[u] : e = st[u][k]
  BY DEF StackElements, ToSet
<1>12. \A u \in T : \A k \in DOMAIN st[u] : st[u][k] = x => u = t /\ k = n
  BY <1>8 DEF OnceOnStacks
<1>13. x \in StackElements(st, T)
  BY <1>8, <1>11
<1>14. StackElements(nu, T) \subseteq StackElements(st, T) \ {x}
  BY <1>6, <1>10, <1>11, <1>12
<1>15. StackElements(st, T) \ {x} \subseteq StackElements(nu, T)
  <2> SUFFICES ASSUME NEW e \in StackElements(st, T), e # x
               PROVE  e \in StackElements(nu, T)
    OBVIOUS
  <2>1. PICK u \in T : \E k \in DOMAIN st[u] : e = st[u][k]
    BY <1>11
  <2>2. PICK k \in DOMAIN st[u] : e = st[u][k]
    BY <2>1
  <2>3. u # t \/ k # n
    BY <2>2, <1>8
  <2> QED
    BY <2>2, <2>3, <1>7, <1>10
<1> QED
  BY <1>3, <1>9, <1>13, <1>14, <1>15 DEF nu, r, x

=============================================================================
