--------------------------- MODULE SequenceLemmas ---------------------------
(* Lists of distinct elements, as the waiting list of the event loop and   *)
(* the scrub queue are: what a push, a pop and an unlink do to them.       *)
EXTENDS IntrusiveList, FiniteSetTheorems, SequenceTheorems, WellFoundedInduction, TLAPS

(* The places of a list have a first and a last: the initial segments that *)
(* end at them are ordered by inclusion, which is well-founded.            *)
LEMMA FirstPlace ==
  ASSUME NEW S, S \subseteq Nat \ {0}, S # {}
  PROVE  \E k \in S : \A i \in S : k =< i
<1> DEFINE Segments == {1 .. i : i \in S}
           R == StrictSubsetOrdering(Nat)
<1>1. Segments \subseteq FiniteSubsetsOf(Nat) /\ Segments # {}
  <2>1. ASSUME NEW i \in S PROVE 1 .. i \in FiniteSubsetsOf(Nat)
    BY FS_Interval, 1 \in Int, i \in Int DEF FiniteSubsetsOf
  <2> QED BY <2>1
<1>2. IsWellFoundedOn(R, FiniteSubsetsOf(Nat))
  BY FS_StrictSubsetOrderingWellFounded
<1>3. PICK x \in Segments : \A y \in Segments : ~ (<<y, x>> \in R)
  <2> HIDE DEF Segments, R
  <2> QED BY <1>1, <1>2, WFMin
<1>4. PICK m \in S : x = 1 .. m
  OBVIOUS
<1>5. ASSUME NEW i \in S, i < m PROVE FALSE
  <2>1. 1 .. i \subseteq 1 .. m /\ 1 .. i # 1 .. m
    <3>1. m \in 1 .. m /\ m \notin 1 .. i
      BY <1>5
    <3> QED BY <1>5, <3>1
  <2>2. <<1 .. i, 1 .. m>> \in R
    BY <2>1 DEF StrictSubsetOrdering
  <2> QED BY <1>3, <1>4, <2>2
<1> QED BY <1>5

LEMMA LastPlace ==
  ASSUME NEW S, S \subseteq Nat, S # {}, NEW n \in Nat, \A i \in S : i =< n
  PROVE  \E k \in S : \A i \in S : i =< k
<1> DEFINE T == {n + 1 - i : i \in S}
<1>1. T \subseteq Nat \ {0} /\ T # {}
  <2>1. ASSUME NEW i \in S PROVE n + 1 - i \in Nat \ {0}
    <3>1. i \in Nat /\ i =< n
      OBVIOUS
    <3> QED BY <3>1
  <2> QED BY <2>1
<1>2. PICK m \in T : \A j \in T : m =< j
  <2> HIDE DEF T
  <2> QED BY <1>1, FirstPlace
<1>3. PICK k \in S : m = n + 1 - k
  BY <1>2
<1>4. ASSUME NEW i \in S PROVE i =< k
  <2>1. n + 1 - k =< n + 1 - i
    BY <1>2, <1>3
  <2>2. i \in Nat /\ k \in Nat
    OBVIOUS
  <2> QED BY <2>1, <2>2
<1> QED BY <1>4

(* Pushing an element that is not in a list of distinct elements keeps     *)
(* them distinct (WaitingList_push_back under the is_waiting guard).       *)
LEMMA AppendContains ==
  ASSUME NEW S, NEW s \in Seq(S), NEW e \in S, Distinct(s), ~Contains(s, e)
  PROVE  /\ Append(s, e) \in Seq(S)
         /\ Append(s, e) # <<>>
         /\ Distinct(Append(s, e))
         /\ \A i : Contains(Append(s, e), i) <=> Contains(s, i) \/ i = e
<1> DEFINE a == Append(s, e)
<1>1. /\ a \in Seq(S) /\ a # <<>>
      /\ Len(s) \in Nat /\ Len(a) = Len(s) + 1
      /\ \A i \in 1..Len(s) : a[i] = s[i]
      /\ a[Len(s) + 1] = e
  BY AppendProperties, LenProperties
<1> HIDE DEF a
<1>2. Distinct(a)
  BY <1>1 DEF Distinct, Contains
<1>3. ASSUME NEW i PROVE Contains(a, i) <=> Contains(s, i) \/ i = e
  BY <1>1 DEF Contains
<1> QED BY <1>1, <1>2, <1>3 DEF a

(* Popping the front removes exactly that element. *)
LEMMA TailContains ==
  ASSUME NEW S, NEW s \in Seq(S), s # <<>>, Distinct(s)
  PROVE  /\ Head(s) \in S /\ Contains(s, Head(s))
         /\ Tail(s) \in Seq(S)
         /\ Distinct(Tail(s))
         /\ \A i : Contains(Tail(s), i) <=> Contains(s, i) /\ i # Head(s)
<1> DEFINE t == Tail(s)
<1>1. /\ Head(s) \in S /\ t \in Seq(S)
      /\ Len(t) = Len(s) - 1 /\ Len(s) \in Nat \ {0}
      /\ \A i \in 1..Len(t) : t[i] = s[i + 1]
  BY HeadTailProperties, EmptySeq
<1>2. Head(s) = s[1]
  BY <1>1
<1> HIDE DEF t
<1>3. Distinct(t)
  BY <1>1 DEF Distinct
<1>4. ASSUME NEW i PROVE Contains(t, i) <=> Contains(s, i) /\ i # Head(s)
  <2>1. ASSUME Contains(t, i) PROVE Contains(s, i) /\ i # Head(s)
    BY <1>1, <1>2, <2>1 DEF Contains, Distinct
  <2>2. ASSUME Contains(s, i), i # Head(s) PROVE Contains(t, i)
    <3>1. PICK k \in 1..Len(s) : s[k] = i
      BY <2>2 DEF Contains
    <3>2. k - 1 \in 1..Len(t) /\ t[k - 1] = i
      BY <3>1, <2>2, <1>1, <1>2
    <3> QED BY <3>2 DEF Contains
  <2> QED BY <2>1, <2>2
<1> QED BY <1>1, <1>2, <1>3, <1>4 DEF t, Contains

(* Unlinking an element of a list closes the gap: the others keep their    *)
(* order (ILIST_DEF: unlink).                                              *)
LEMMA UnlinkElements ==
  ASSUME NEW S, NEW s \in Seq(S), NEW e, Contains(s, e)
  PROVE  /\ Unlink(s, e) \in Seq(S)
         /\ Len(Unlink(s, e)) = Len(s) - 1
         /\ \E k \in 1..Len(s) :
              /\ s[k] = e
              /\ \A n \in 1..(Len(s) - 1) :
                   Unlink(s, e)[n] = IF n < k THEN s[n] ELSE s[n + 1]
<1> DEFINE k == CHOOSE n \in 1..Len(s) : s[n] = e
           u == SubSeq(s, 1, k - 1)
           v == SubSeq(s, k + 1, Len(s))
           r == u \o v
<1>1. k \in 1..Len(s) /\ s[k] = e /\ Len(s) \in Nat
  BY LenProperties DEF Contains
<1>2. \A n \in 1..Len(s) : s[n] \in S
  BY ElementOfSeq
<1> HIDE DEF k
<1>3. /\ u \in Seq(S) /\ Len(u) = k - 1
      /\ \A n \in 1..(k - 1) : u[n] = s[n]
  BY <1>1, <1>2, SubSeqProperties
<1>4. /\ v \in Seq(S) /\ Len(v) = Len(s) - k
      /\ \A n \in 1..(Len(s) - k) : v[n] = s[k + n]
  BY <1>1, <1>2, SubSeqProperties
<1> HIDE DEF u, v
<1>5. /\ r \in Seq(S) /\ Len(r) = Len(u) + Len(v)
      /\ \A n \in 1..(Len(u) + Len(v)) :
           r[n] = IF n <= Len(u) THEN u[n] ELSE v[n - Len(u)]
  BY <1>3, <1>4, ConcatProperties
<1> HIDE DEF r
<1>6. Len(r) = Len(s) - 1
  BY <1>1, <1>3, <1>4, <1>5
<1>7. ASSUME NEW n \in 1..(Len(s) - 1), n < k PROVE r[n] = s[n]
  <2>1. n \in 1..(Len(u) + Len(v)) /\ n \in 1..(k - 1) /\ n <= Len(u)
    BY <1>7, <1>1, <1>3, <1>4
  <2> QED BY <2>1, <1>3, <1>5
<1>8. ASSUME NEW n \in 1..(Len(s) - 1), ~(n < k) PROVE r[n] = s[n + 1]
  <2>1. n - (k - 1) \in 1..(Len(s) - k) /\ r[n] = v[n - (k - 1)]
    BY <1>8, <1>1, <1>3, <1>4, <1>5
  <2>2. v[n - (k - 1)] = s[k + (n - (k - 1))]
    BY <2>1, <1>4
  <2> QED BY <2>1, <2>2, <1>1
<1>9. Unlink(s, e) = r
  BY DEF Unlink, RemoveAt, r, u, v, k
<1> QED BY <1>1, <1>5, <1>6, <1>7, <1>8, <1>9

(* Unlinking removes exactly that element. *)
LEMMA UnlinkContains ==
  ASSUME NEW S, NEW s \in Seq(S), NEW e, Distinct(s)
  PROVE  /\ Unlink(s, e) \in Seq(S)
         /\ Distinct(Unlink(s, e))
         /\ \A i : Contains(Unlink(s, e), i) <=> Contains(s, i) /\ i # e
<1>1. CASE ~Contains(s, e)
  BY <1>1 DEF Unlink, Contains
<1>2. CASE Contains(s, e)
  <2> DEFINE r == Unlink(s, e)
  <2>1. r \in Seq(S) /\ Len(r) = Len(s) - 1 /\ Len(s) \in Nat
    BY <1>2, UnlinkElements, LenProperties
  <2>2. PICK k \in 1..Len(s) :
          /\ s[k] = e
          /\ \A n \in 1..(Len(s) - 1) : r[n] = IF n < k THEN s[n] ELSE s[n + 1]
    BY <1>2, UnlinkElements
  <2> HIDE DEF r
  <2>3. Distinct(r)
    <3>1. SUFFICES ASSUME NEW i \in 1..Len(r), NEW j \in 1..Len(r), r[i] = r[j]
                   PROVE  i = j
      BY DEF Distinct
    <3>2. i \in 1..(Len(s) - 1) /\ j \in 1..(Len(s) - 1)
      BY <2>1
    <3> DEFINE m == IF i < k THEN i ELSE i + 1
               n == IF j < k THEN j ELSE j + 1
    <3>3. m \in 1..Len(s) /\ n \in 1..Len(s) /\ r[i] = s[m] /\ r[j] = s[n]
      BY <2>1, <2>2, <3>2
    <3>4. m = n
      BY <3>1, <3>3 DEF Distinct
    <3> QED BY <3>2, <3>4, <2>1
  <2>4. ASSUME NEW i PROVE Contains(r, i) <=> Contains(s, i) /\ i # e
    <3>1. ASSUME Contains(r, i) PROVE Contains(s, i) /\ i # e
      BY <2>1, <2>2, <3>1 DEF Contains, Distinct
    <3>2. ASSUME Contains(s, i), i # e PROVE Contains(r, i)
      <4>1. PICK n \in 1..Len(s) : s[n] = i
        BY <3>2 DEF Contains
      <4>2. CASE n < k
        BY <4>1, <4>2, <2>1, <2>2 DEF Contains
      <4>3. CASE n > k
        <5>1. n - 1 \in 1..(Len(s) - 1) /\ r[n - 1] = i
          BY <4>1, <4>3, <2>1, <2>2
        <5> QED BY <5>1, <2>1 DEF Contains
      <4> QED BY <4>1, <4>2, <4>3, <3>2, <2>1, <2>2
    <3> QED BY <3>1, <3>2
  <2> QED BY <2>1, <2>3, <2>4 DEF r
<1> QED BY <1>1, <1>2

(* An element put in between: those before it keep their place, those      *)
(* behind it move by one.                                                  *)
Inserted(s, p, e) == SubSeq(s, 1, p) \o <<e>> \o SubSeq(s, p + 1, Len(s))

LEMMA InsertElements ==
  ASSUME NEW S, NEW s \in Seq(S), NEW e \in S, NEW p \in 0..Len(s)
  PROVE  /\ Inserted(s, p, e) \in Seq(S)
         /\ Len(Inserted(s, p, e)) = Len(s) + 1
         /\ \A n \in 1..p : Inserted(s, p, e)[n] = s[n]
         /\ Inserted(s, p, e)[p + 1] = e
         /\ \A n \in (p + 2)..(Len(s) + 1) : Inserted(s, p, e)[n] = s[n - 1]
<1> DEFINE u == SubSeq(s, 1, p)
           v == SubSeq(s, p + 1, Len(s))
           w == u \o <<e>>
           r == w \o v
<1>1. Len(s) \in Nat /\ \A n \in 1..Len(s) : s[n] \in S
  BY ElementOfSeq, LenProperties
<1>2. /\ u \in Seq(S) /\ Len(u) = p
      /\ \A n \in 1..p : u[n] = s[n]
  BY <1>1, SubSeqProperties
<1>3. /\ v \in Seq(S) /\ Len(v) = Len(s) - p
      /\ \A n \in 1..(Len(s) - p) : v[n] = s[p + n]
  BY <1>1, SubSeqProperties
<1>4. <<e>> \in Seq(S) /\ Len(<<e>>) = 1 /\ <<e>>[1] = e
  OBVIOUS
<1> HIDE DEF u, v
<1>5. /\ w \in Seq(S) /\ Len(w) = p + 1
      /\ \A n \in 1..p : w[n] = s[n]
      /\ w[p + 1] = e
  BY <1>1, <1>2, <1>4, ConcatProperties
<1> HIDE DEF w
<1>6. /\ r \in Seq(S) /\ Len(r) = Len(s) + 1
      /\ \A n \in 1..(Len(s) + 1) : r[n] = IF n <= p + 1 THEN w[n] ELSE v[n - (p + 1)]
  <2>1. /\ w \o v \in Seq(S) /\ Len(w \o v) = Len(w) + Len(v)
        /\ \A n \in 1..(Len(w) + Len(v)) :
              (w \o v)[n] = IF n <= Len(w) THEN w[n] ELSE v[n - Len(w)]
    BY <1>3, <1>5, ConcatProperties
  <2>2. Len(w) = p + 1 /\ Len(w) + Len(v) = Len(s) + 1
    BY <1>1, <1>3, <1>5
  <2> HIDE DEF r
  <2>3. r = w \o v
    BY DEF r
  <2> QED BY <2>1, <2>2, <2>3
<1> HIDE DEF r
<1>7. ASSUME NEW n \in (p + 2)..(Len(s) + 1) PROVE r[n] = s[n - 1]
  <2>1. n - (p + 1) \in 1..(Len(s) - p) /\ r[n] = v[n - (p + 1)]
    BY <1>1, <1>6
  <2>2. v[n - (p + 1)] = s[p + (n - (p + 1))]
    BY <2>1, <1>3
  <2> QED BY <2>1, <2>2
<1>8. r[p + 1] = e /\ \A n \in 1..p : r[n] = s[n]
  BY <1>1, <1>5, <1>6
<1>9. Inserted(s, p, e) = r
  BY DEF Inserted, r, w, u, v
<1> QED BY <1>6, <1>7, <1>8, <1>9

(* A sequence of distinct elements is an injective function. *)
LEMMA DistinctIsInjective ==
  ASSUME NEW S, NEW s \in Seq(S)
  PROVE  IsInjective(s) <=> Distinct(s)
<1>1. DOMAIN s = 1..Len(s)
  BY LenProperties
<1> QED BY <1>1 DEF IsInjective, Distinct

=============================================================================
