--------------------------- MODULE SequenceLemmas ---------------------------
(***************************************************************************)
(* What the operations on sequences that the queues and chains are made of *)
(* do to the set of elements a sequence holds, to their order and to their *)
(* being all different; and the least and the greatest of a set of numbers. *)
(***************************************************************************)
EXTENDS Naturals, Sequences, SequencesExt, SequenceTheorems, WellFoundedInduction, TLAPS

\* What removing one position of a sequence leaves, and in which order.
LEMMA RemoveAtProperties ==
    ASSUME NEW S, NEW s \in Seq(S), NEW i \in 1..Len(s)
    PROVE  /\ RemoveAt(s, i) \in Seq(S)
           /\ Len(RemoveAt(s, i)) = Len(s) - 1
           /\ \A k \in 1..(Len(s) - 1) :
                RemoveAt(s, i)[k] = IF k < i THEN s[k] ELSE s[k + 1]
<1> DEFINE a == SubSeq(s, 1, i - 1)
           b == SubSeq(s, i + 1, Len(s))
<1>1. a \in Seq(S) /\ Len(a) = i - 1 /\ \A k \in 1..(i - 1) : a[k] = s[k]
  BY SubSeqProperties
<1>2. b \in Seq(S) /\ Len(b) = Len(s) - i /\ \A k \in 1..(Len(s) - i) : b[k] = s[k + i]
  BY SubSeqProperties
<1>3. RemoveAt(s, i) = a \o b
  BY DEF RemoveAt
<1> HIDE DEF a, b
<1>4. /\ a \o b \in Seq(S)
      /\ Len(a \o b) = Len(a) + Len(b)
      /\ \A k \in 1..(Len(a) + Len(b)) :
           (a \o b)[k] = IF k <= Len(a) THEN a[k] ELSE b[k - Len(a)]
  BY <1>1, <1>2, ConcatProperties
<1>5. Len(s) \in Nat /\ i \in Nat /\ i <= Len(s) /\ i >= 1
  BY LenProperties
<1>6. ASSUME NEW k \in 1..(Len(s) - 1)
      PROVE  (a \o b)[k] = IF k < i THEN s[k] ELSE s[k + 1]
  <2>1. CASE k < i
    BY <2>1, <1>1, <1>2, <1>4, <1>5
  <2>2. CASE ~(k < i)
    <3>1. (a \o b)[k] = b[k - (i - 1)]
      BY <2>2, <1>1, <1>2, <1>4, <1>5
    <3>2. k - (i - 1) \in 1..(Len(s) - i) /\ (k - (i - 1)) + i = k + 1
      BY <2>2, <1>5
    <3>3. b[k - (i - 1)] = s[(k - (i - 1)) + i]
      BY <3>2, <1>2
    <3> QED BY <2>2, <3>1, <3>2, <3>3
  <2> QED BY <2>1, <2>2
<1> QED
  BY <1>1, <1>2, <1>3, <1>4, <1>5, <1>6

\* Dequeuing the head of a sequence without repetitions.
LEMMA TailSet ==
    ASSUME NEW S, NEW s \in Seq(S), s # <<>>
    PROVE  /\ Head(s) \in ToSet(s)
           /\ Head(s) \in S
           /\ Tail(s) \in Seq(S)
           /\ IsInjective(s) => /\ IsInjective(Tail(s))
                                /\ ToSet(Tail(s)) = ToSet(s) \ {Head(s)}
<1>1. /\ Len(s) \in Nat /\ Len(s) >= 1 /\ DOMAIN s = 1..Len(s)
      /\ Head(s) = s[1]
      /\ Tail(s) \in Seq(S)
      /\ Len(Tail(s)) = Len(s) - 1 /\ DOMAIN Tail(s) = 1..(Len(s) - 1)
      /\ \A i \in 1..(Len(s) - 1) : Tail(s)[i] = s[i + 1]
  BY LenProperties, EmptySeq, HeadTailProperties
<1>2. Head(s) \in ToSet(s) /\ Head(s) \in S
  BY <1>1, ElementOfSeq DEF ToSet
<1>3. ASSUME IsInjective(s) PROVE IsInjective(Tail(s))
  BY <1>1, <1>3 DEF IsInjective
<1>4. ASSUME IsInjective(s) PROVE ToSet(Tail(s)) = ToSet(s) \ {Head(s)}
  <2>1. ASSUME NEW x \in ToSet(Tail(s)) PROVE x \in ToSet(s) \ {Head(s)}
    BY <1>1, <1>4, <2>1 DEF IsInjective, ToSet
  <2>2. ASSUME NEW x \in ToSet(s) \ {Head(s)} PROVE x \in ToSet(Tail(s))
    <3>1. PICK i \in 1..Len(s) : s[i] = x
      BY <1>1, <2>2 DEF ToSet
    <3>2. i # 1 /\ i - 1 \in 1..(Len(s) - 1) /\ (i - 1) + 1 = i
      BY <1>1, <2>2, <3>1
    <3>3. Tail(s)[i - 1] = x
      BY <1>1, <3>1, <3>2
    <3> QED BY <1>1, <3>2, <3>3 DEF ToSet
  <2> QED BY <2>1, <2>2
<1> QED BY <1>1, <1>2, <1>3, <1>4

\* Adding a message at the end.
LEMMA AppendSet ==
    ASSUME NEW S, NEW s \in Seq(S), NEW e \in S
    PROVE  /\ Append(s, e) \in Seq(S)
           /\ ToSet(Append(s, e)) = ToSet(s) \union {e}
           /\ (IsInjective(s) /\ e \notin ToSet(s)) => IsInjective(Append(s, e))
<1>1. /\ Len(s) \in Nat /\ DOMAIN s = 1..Len(s)
      /\ Append(s, e) \in Seq(S)
      /\ Len(Append(s, e)) = Len(s) + 1
      /\ DOMAIN Append(s, e) = 1..(Len(s) + 1)
      /\ \A i \in 1..Len(s) : Append(s, e)[i] = s[i]
      /\ Append(s, e)[Len(s) + 1] = e
  BY LenProperties, AppendProperties
<1>2. ToSet(Append(s, e)) = ToSet(s) \union {e}
  <2>1. ASSUME NEW x \in ToSet(Append(s, e)) PROVE x \in ToSet(s) \union {e}
    BY <1>1, <2>1 DEF ToSet
  <2>2. ASSUME NEW x \in ToSet(s) \union {e} PROVE x \in ToSet(Append(s, e))
    <3>1. CASE x = e
      BY <1>1, <3>1 DEF ToSet
    <3>2. CASE x \in ToSet(s)
      <4>1. PICK i \in 1..Len(s) : s[i] = x
        BY <1>1, <3>2 DEF ToSet
      <4>2. i \in 1..(Len(s) + 1) /\ Append(s, e)[i] = x
        BY <1>1, <4>1
      <4> QED BY <1>1, <4>2 DEF ToSet
    <3> QED BY <2>2, <3>1, <3>2
  <2> QED BY <2>1, <2>2
<1>3. ASSUME IsInjective(s), e \notin ToSet(s) PROVE IsInjective(Append(s, e))
  BY <1>1, <1>3 DEF IsInjective, ToSet
<1> QED BY <1>1, <1>2, <1>3

\* Putting one sequence behind another.
LEMMA ConcatSet ==
    ASSUME NEW S, NEW s \in Seq(S), NEW t \in Seq(S)
    PROVE  /\ s \o t \in Seq(S)
           /\ ToSet(s \o t) = ToSet(s) \union ToSet(t)
           /\ (IsInjective(s) /\ IsInjective(t) /\ ToSet(s) \intersect ToSet(t) = {})
              => IsInjective(s \o t)
<1>1. /\ Len(s) \in Nat /\ DOMAIN s = 1..Len(s)
      /\ Len(t) \in Nat /\ DOMAIN t = 1..Len(t)
      /\ s \o t \in Seq(S)
      /\ DOMAIN (s \o t) = 1..(Len(s) + Len(t))
      /\ \A i \in 1..(Len(s) + Len(t)) :
           (s \o t)[i] = IF i <= Len(s) THEN s[i] ELSE t[i - Len(s)]
  BY LenProperties, ConcatProperties
<1> DEFINE c == s \o t
<1> HIDE DEF c
<1>2. /\ DOMAIN c = 1..(Len(s) + Len(t))
      /\ \A i \in 1..Len(s) : c[i] = s[i]
      /\ \A i \in 1..Len(t) : i + Len(s) \in DOMAIN c /\ c[i + Len(s)] = t[i]
      /\ \A k \in DOMAIN c : k \in 1..Len(s) \/ (k - Len(s) \in 1..Len(t) /\ c[k] = t[k - Len(s)])
  BY <1>1 DEF c
<1>3. ToSet(c) = ToSet(s) \union ToSet(t)
  <2>1. ASSUME NEW x \in ToSet(c) PROVE x \in ToSet(s) \union ToSet(t)
    BY <1>1, <1>2, <2>1 DEF ToSet
  <2>2. ASSUME NEW x \in ToSet(s) PROVE x \in ToSet(c)
    <3>1. PICK i \in 1..Len(s) : s[i] = x
      BY <1>1, <2>2 DEF ToSet
    <3> QED BY <1>1, <1>2, <3>1 DEF ToSet
  <2>3. ASSUME NEW x \in ToSet(t) PROVE x \in ToSet(c)
    <3>1. PICK i \in 1..Len(t) : t[i] = x
      BY <1>1, <2>3 DEF ToSet
    <3> QED BY <1>2, <3>1 DEF ToSet
  <2> QED BY <2>1, <2>2, <2>3
<1>4. ASSUME IsInjective(s), IsInjective(t), ToSet(s) \intersect ToSet(t) = {}
      PROVE  IsInjective(c)
  <2> SUFFICES ASSUME NEW i \in DOMAIN c, NEW j \in DOMAIN c, c[i] = c[j] PROVE i = j
    BY DEF IsInjective
  <2>1. \A k \in 1..Len(s) : s[k] \in ToSet(s)
    BY <1>1 DEF ToSet
  <2>2. \A k \in 1..Len(t) : t[k] \in ToSet(t)
    BY <1>1 DEF ToSet
  <2>3. CASE i \in 1..Len(s) /\ j \in 1..Len(s)
    BY <1>1, <1>2, <1>4, <2>3 DEF IsInjective
  <2>4. CASE i \in 1..Len(s) /\ j \notin 1..Len(s)
    BY <1>2, <1>4, <2>1, <2>2, <2>4
  <2>5. CASE i \notin 1..Len(s) /\ j \in 1..Len(s)
    BY <1>2, <1>4, <2>1, <2>2, <2>5
  <2>6. CASE i \notin 1..Len(s) /\ j \notin 1..Len(s)
    <3>1. i - Len(s) \in DOMAIN t /\ j - Len(s) \in DOMAIN t /\ t[i - Len(s)] = t[j - Len(s)]
      BY <1>1, <1>2, <2>6
    <3>2. i - Len(s) = j - Len(s)
      BY <1>4, <3>1 DEF IsInjective
    <3> QED BY <1>1, <1>2, <3>2
  <2> QED BY <2>3, <2>4, <2>5, <2>6
<1> QED BY <1>1, <1>3, <1>4 DEF c

\* Taking one message out.
LEMMA RemoveSet ==
    ASSUME NEW S, NEW s \in Seq(S), NEW i \in DOMAIN s, IsInjective(s)
    PROVE  /\ RemoveAt(s, i) \in Seq(S)
           /\ IsInjective(RemoveAt(s, i))
           /\ ToSet(RemoveAt(s, i)) = ToSet(s) \ {s[i]}
<1> DEFINE r == RemoveAt(s, i)
<1>1. /\ Len(s) \in Nat /\ DOMAIN s = 1..Len(s)
      /\ r \in Seq(S) /\ Len(r) = Len(s) - 1 /\ DOMAIN r = 1..(Len(s) - 1)
      /\ \A k \in 1..(Len(s) - 1) : r[k] = IF k < i THEN s[k] ELSE s[k + 1]
  BY LenProperties, RemoveAtProperties
<1> HIDE DEF r
<1>2. \A k \in DOMAIN r : /\ k \in DOMAIN s /\ k + 1 \in DOMAIN s
                          /\ k < i => r[k] = s[k]
                          /\ k >= i => r[k] = s[k + 1]
  BY <1>1
<1>3. IsInjective(r)
  <2> SUFFICES ASSUME NEW a \in DOMAIN r, NEW b \in DOMAIN r, r[a] = r[b] PROVE a = b
    BY DEF IsInjective
  <2>1. a \in Nat /\ b \in Nat /\ i \in Nat
    BY <1>1
  <2> QED BY <1>2, <2>1 DEF IsInjective
<1>4. ToSet(r) = ToSet(s) \ {s[i]}
  <2>1. ASSUME NEW x \in ToSet(r) PROVE x \in ToSet(s) \ {s[i]}
    <3>1. PICK k \in DOMAIN r : r[k] = x
      BY <2>1 DEF ToSet
    <3>2. k \in Nat /\ i \in Nat
      BY <1>1
    <3> QED BY <1>2, <3>1, <3>2 DEF IsInjective, ToSet
  <2>2. ASSUME NEW x \in ToSet(s) \ {s[i]} PROVE x \in ToSet(r)
    <3>1. PICK k \in 1..Len(s) : s[k] = x
      BY <1>1, <2>2 DEF ToSet
    <3>2. k # i
      BY <2>2, <3>1
    <3>3. CASE k < i
      <4>1. k \in DOMAIN r /\ r[k] = x
        BY <1>1, <3>1, <3>3
      <4> QED BY <4>1 DEF ToSet
    <3>4. CASE k > i
      <4>1. k - 1 \in DOMAIN r /\ r[k - 1] = x
        BY <1>1, <3>1, <3>4
      <4> QED BY <4>1 DEF ToSet
    <3> QED BY <1>1, <3>1, <3>2, <3>3, <3>4
  <2> QED BY <2>1, <2>2
<1> QED BY <1>1, <1>3, <1>4 DEF r

\* What is left after taking one position out is in the same order, and all the
\* other positions are left.
LEMMA RemoveOrder ==
    ASSUME NEW S, NEW s \in Seq(S), NEW i \in DOMAIN s, NEW r, r = RemoveAt(s, i)
    PROVE  /\ r \in Seq(S)
           /\ \A k \in DOMAIN r : \E x \in DOMAIN s : x # i /\ r[k] = s[x]
           /\ \A k, l \in DOMAIN r : k < l =>
                \E x, y \in DOMAIN s : x < y /\ x # i /\ y # i /\ r[k] = s[x] /\ r[l] = s[y]
           /\ \A x \in DOMAIN s : x # i => \E k \in DOMAIN r : r[k] = s[x]
<1>1. /\ Len(s) \in Nat /\ DOMAIN s = 1..Len(s) /\ i \in 1..Len(s)
      /\ r \in Seq(S) /\ DOMAIN r = 1..(Len(s) - 1)
      /\ \A k \in 1..(Len(s) - 1) : r[k] = IF k < i THEN s[k] ELSE s[k + 1]
  BY LenProperties, RemoveAtProperties
<1> DEFINE f(k) == IF k < i THEN k ELSE k + 1
<1>2. ASSUME NEW k \in DOMAIN r PROVE f(k) \in DOMAIN s /\ f(k) # i /\ r[k] = s[f(k)]
  BY <1>1
<1>3. ASSUME NEW k \in DOMAIN r, NEW l \in DOMAIN r, k < l PROVE f(k) < f(l)
  BY <1>1, <1>3
<1>4. ASSUME NEW x \in DOMAIN s, x # i PROVE \E k \in DOMAIN r : r[k] = s[x]
  <2>1. CASE x < i
    <3>1. x \in DOMAIN r /\ r[x] = s[x]
      BY <1>1, <2>1
    <3> QED BY <3>1
  <2>2. CASE x > i
    <3>1. x - 1 \in DOMAIN r /\ ~(x - 1 < i) /\ (x - 1) + 1 = x
      BY <1>1, <2>2
    <3>2. r[x - 1] = s[x]
      BY <1>1, <3>1
    <3> QED BY <3>1, <3>2
  <2> QED BY <1>1, <1>4, <2>1, <2>2
<1> HIDE DEF f
<1> QED BY <1>1, <1>2, <1>3, <1>4

\* Every non-empty set of natural numbers has a least element.
LEMMA LeastNatural ==
    ASSUME NEW T, T \subseteq Nat, T # {}
    PROVE  \E x \in T : \A y \in T : x <= y
<1> DEFINE R == OpToRel(<, Nat)
<1>1. IsWellFoundedOn(R, Nat)
  BY NatLessThanWellFounded, Zenon
<1>2. \A x, y \in Nat : x < y => <<x, y>> \in R
  BY DEF OpToRel
<1> HIDE DEF R
<1>3. PICK x \in T : \A y \in T : <<y, x>> \notin R
  BY <1>1, WFMin
<1>4. ASSUME NEW y \in T PROVE x <= y
  <2>1. x \in Nat /\ y \in Nat /\ ~(y < x)
    BY <1>2, <1>3
  <2> QED BY <2>1
<1> QED BY <1>4

\* Among finitely many indices one is the greatest.
LEMMA GreatestIndex ==
    ASSUME NEW n \in Nat, NEW T, T \subseteq 1..n, T # {}
    PROVE  \E x \in T : \A y \in T : y <= x
<1> DEFINE D == {n - y : y \in T}
<1>1. D \subseteq Nat /\ D # {}
  <2>1. \A y \in 1..n : n - y \in Nat
    OBVIOUS
  <2>2. PICK y \in T : TRUE
    OBVIOUS
  <2> QED BY <2>1, <2>2
<1>2. PICK d \in D : \A e \in D : d <= e
  BY <1>1, LeastNatural
<1>3. PICK x \in T : d = n - x
  OBVIOUS
<1>4. ASSUME NEW y \in T PROVE y <= x
  <2>1. n - x <= n - y
    BY <1>2, <1>3
  <2>2. x \in Int /\ y \in Int
    OBVIOUS
  <2> QED BY <2>1, <2>2
<1> QED BY <1>4

\* Nothing of R stands the wrong way round in s.
Sorted(s, R) == \A i, j \in DOMAIN s : i < j => <<s[j], s[i]>> \notin R

\* A sorted sequence stays sorted without its head, which nothing behind it precedes.
LEMMA TailSorted ==
    ASSUME NEW S, NEW s \in Seq(S), s # <<>>, NEW R, Sorted(s, R)
    PROVE  /\ Sorted(Tail(s), R)
           /\ \A x \in ToSet(Tail(s)) : <<x, Head(s)>> \notin R
<1>1. /\ Len(s) \in Nat /\ Len(s) >= 1 /\ DOMAIN s = 1..Len(s)
      /\ Head(s) = s[1]
      /\ DOMAIN Tail(s) = 1..(Len(s) - 1)
      /\ \A i \in 1..(Len(s) - 1) : Tail(s)[i] = s[i + 1]
  BY LenProperties, EmptySeq, HeadTailProperties
<1>2. \A i \in DOMAIN Tail(s) : /\ i \in Nat /\ i + 1 \in DOMAIN s /\ 1 < i + 1
                                /\ Tail(s)[i] = s[i + 1]
  BY <1>1
<1>3. 1 \in DOMAIN s
  BY <1>1
<1>4. Sorted(Tail(s), R)
  <2> SUFFICES ASSUME NEW i \in DOMAIN Tail(s), NEW j \in DOMAIN Tail(s), i < j
               PROVE  <<Tail(s)[j], Tail(s)[i]>> \notin R
    BY DEF Sorted
  <2>1. i + 1 < j + 1
    BY <1>2
  <2> QED BY <1>2, <2>1 DEF Sorted
<1>5. \A x \in ToSet(Tail(s)) : <<x, Head(s)>> \notin R
  BY <1>1, <1>2, <1>3 DEF ToSet, Sorted
<1> QED BY <1>4, <1>5

\* It stays sorted with an element at the end that precedes none of the others.
LEMMA AppendSorted ==
    ASSUME NEW S, NEW s \in Seq(S), NEW e \in S, NEW R, Sorted(s, R),
           \A x \in ToSet(s) : <<e, x>> \notin R
    PROVE  Sorted(Append(s, e), R)
<1>1. /\ Len(s) \in Nat /\ DOMAIN s = 1..Len(s)
      /\ DOMAIN Append(s, e) = 1..(Len(s) + 1)
      /\ \A i \in 1..Len(s) : Append(s, e)[i] = s[i]
      /\ Append(s, e)[Len(s) + 1] = e
  BY LenProperties, AppendProperties
<1> SUFFICES ASSUME NEW i \in DOMAIN Append(s, e), NEW j \in DOMAIN Append(s, e), i < j
             PROVE  <<Append(s, e)[j], Append(s, e)[i]>> \notin R
  BY DEF Sorted
<1>2. i \in DOMAIN s /\ Append(s, e)[i] = s[i]
  BY <1>1
<1>3. CASE j = Len(s) + 1
  BY <1>1, <1>2, <1>3 DEF ToSet
<1>4. CASE j # Len(s) + 1
  <2>1. j \in DOMAIN s /\ Append(s, e)[j] = s[j]
    BY <1>1, <1>4
  <2> QED BY <1>2, <2>1 DEF Sorted
<1> QED BY <1>3, <1>4

\* Two sorted sequences one behind the other.
LEMMA ConcatSorted ==
    ASSUME NEW S, NEW s \in Seq(S), NEW t \in Seq(S), NEW R, Sorted(s, R), Sorted(t, R),
           \A x \in ToSet(s), y \in ToSet(t) : <<y, x>> \notin R
    PROVE  Sorted(s \o t, R)
<1>1. /\ Len(s) \in Nat /\ DOMAIN s = 1..Len(s)
      /\ Len(t) \in Nat /\ DOMAIN t = 1..Len(t)
      /\ DOMAIN (s \o t) = 1..(Len(s) + Len(t))
      /\ \A i \in 1..(Len(s) + Len(t)) :
           (s \o t)[i] = IF i <= Len(s) THEN s[i] ELSE t[i - Len(s)]
  BY LenProperties, ConcatProperties
<1> DEFINE c == s \o t
<1> HIDE DEF c
<1>2. /\ DOMAIN c \subseteq Nat
      /\ \A k \in DOMAIN c : \/ k <= Len(s) /\ k \in DOMAIN s /\ c[k] = s[k]
                             \/ /\ k > Len(s) /\ k - Len(s) \in DOMAIN t
                                /\ c[k] = t[k - Len(s)]
  BY <1>1 DEF c
<1> SUFFICES ASSUME NEW i \in DOMAIN c, NEW j \in DOMAIN c, i < j
             PROVE  <<c[j], c[i]>> \notin R
  BY DEF Sorted, c
<1>3. CASE j <= Len(s)
  <2>1. i <= Len(s)
    BY <1>1, <1>2, <1>3
  <2> QED BY <1>1, <1>2, <1>3, <2>1 DEF Sorted
<1>4. CASE i > Len(s)
  <2>1. j > Len(s) /\ i - Len(s) < j - Len(s)
    BY <1>1, <1>2, <1>4
  <2>2. /\ i - Len(s) \in DOMAIN t /\ c[i] = t[i - Len(s)]
        /\ j - Len(s) \in DOMAIN t /\ c[j] = t[j - Len(s)]
    BY <1>1, <1>2, <1>4, <2>1
  <2> QED BY <2>1, <2>2 DEF Sorted
<1>5. CASE i <= Len(s) /\ j > Len(s)
  <2>1. c[i] \in ToSet(s) /\ c[j] \in ToSet(t)
    BY <1>1, <1>2, <1>5 DEF ToSet
  <2> QED BY <2>1
<1> QED BY <1>1, <1>2, <1>3, <1>4, <1>5

\* Taking one position out.
LEMMA RemoveSorted ==
    ASSUME NEW S, NEW s \in Seq(S), NEW i \in DOMAIN s, NEW R, Sorted(s, R)
    PROVE  Sorted(RemoveAt(s, i), R)
<1> DEFINE r == RemoveAt(s, i)
<1>1. \A k, l \in DOMAIN r : k < l =>
        \E x, y \in DOMAIN s : x < y /\ r[k] = s[x] /\ r[l] = s[y]
  BY RemoveOrder
<1> HIDE DEF r
<1>2. Sorted(r, R)
  BY <1>1 DEF Sorted
<1> QED BY <1>2 DEF r

\* A sequence of at most one element is sorted.
LEMMA ShortSorted ==
    ASSUME NEW S, NEW s \in Seq(S), Len(s) <= 1, NEW R
    PROVE  Sorted(s, R)
<1>1. Len(s) \in Nat /\ DOMAIN s = 1..Len(s)
  BY LenProperties
<1> QED BY <1>1 DEF Sorted
=============================================================================
