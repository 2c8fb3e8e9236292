---------------------------- MODULE MemberLemmas ----------------------------
(***************************************************************************)
(* What the operations on a holder's members (Append, InsertAt, ReplaceAt, *)
(* RemoveAt) do to the set of members, and that they keep members distinct *)
(* when the new one was not there; and what SetToSeq makes of a set.       *)
(***************************************************************************)
EXTENDS SequencesExt, SequenceTheorems, FiniteSetTheorems, TLAPS

LEMMA RangeSubset ==
    ASSUME NEW S, NEW s \in Seq(S)
    PROVE  /\ Range(s) \subseteq S
           /\ \A i \in 1..Len(s) : s[i] \in Range(s)
           /\ \A x \in Range(s) : \E i \in 1..Len(s) : s[i] = x
BY LenProperties DEF Range

LEMMA EmptyRange == Range(<<>>) = {} /\ IsInjective(<<>>)
BY DEF Range, IsInjective

LEMMA SingleRange ==
    ASSUME NEW S, NEW e \in S
    PROVE  <<e>> \in Seq(S) /\ Len(<<e>>) = 1 /\ Range(<<e>>) = {e} /\ IsInjective(<<e>>)
BY DEF Range, IsInjective

LEMMA FunctionIsSeq ==
    ASSUME NEW S, NEW n \in Nat, NEW f \in [1..n -> S]
    PROVE  f \in Seq(S) /\ Len(f) = n /\ Range(f) \subseteq S
BY DEF Range

LEMMA AppendRange ==
    ASSUME NEW S, NEW s \in Seq(S), NEW e \in S
    PROVE  /\ Append(s, e) \in Seq(S)
           /\ Range(Append(s, e)) = Range(s) \cup {e}
           /\ IsInjective(s) /\ e \notin Range(s) => IsInjective(Append(s, e))
<1> DEFINE t == Append(s, e)
           n == Len(s)
<1>1. n \in Nat /\ t \in Seq(S) /\ Len(t) = n + 1
  OBVIOUS
<1>2. \A i \in 1..n : t[i] = s[i]
  OBVIOUS
<1>3. t[n + 1] = e
  OBVIOUS
<1>4. DOMAIN s = 1..n /\ DOMAIN t = 1..(n + 1)
  BY <1>1, LenProperties
<1> HIDE DEF t, n
<1>5. Range(t) = Range(s) \cup {e}
  BY <1>1, <1>2, <1>3, <1>4 DEF Range
<1>6. IsInjective(s) /\ e \notin Range(s) => IsInjective(t)
  BY <1>1, <1>2, <1>3, <1>4 DEF Range, IsInjective
<1>7. QED BY <1>1, <1>5, <1>6 DEF t

(* The elements of InsertAt(s, k, e), one by one.                          *)
LEMMA InsertElements ==
    ASSUME NEW S, NEW s \in Seq(S), NEW e \in S, NEW k \in 1..(Len(s) + 1)
    PROVE  /\ InsertAt(s, k, e) \in Seq(S)
           /\ Len(InsertAt(s, k, e)) = Len(s) + 1
           /\ \A i \in 1..(Len(s) + 1) :
                 InsertAt(s, k, e)[i] = IF i < k THEN s[i]
                                        ELSE IF i = k THEN e ELSE s[i - 1]
<1> DEFINE n == Len(s)
           a == SubSeq(s, 1, k - 1)
           b == SubSeq(s, k, n)
<1>1. n \in Nat /\ k \in Nat /\ 1 <= k /\ k <= n + 1 /\ \A i \in 1..n : s[i] \in S
  BY LenProperties, ElementOfSeq
<1>2. a \in Seq(S) /\ Len(a) = k - 1 /\ \A i \in 1..(k - 1) : a[i] = s[i]
  <2>1. \A i \in 1..(k - 1) : s[i] \in S
    BY <1>1
  <2>2. QED BY <2>1, <1>1, SubSeqProperties
<1>3. b \in Seq(S) /\ Len(b) = n - k + 1 /\ \A i \in 1..(n - k + 1) : b[i] = s[k + i - 1]
  <2>1. \A i \in k..n : s[i] \in S
    BY <1>1
  <2>2. QED BY <2>1, <1>1, SubSeqProperties
<1> DEFINE c == a \o <<e>>
<1>4. c \in Seq(S) /\ Len(c) = k /\ \A i \in 1..k : c[i] = IF i < k THEN s[i] ELSE e
  <2> HIDE DEF a
  <2>1. <<e>> \in Seq(S) /\ Len(<<e>>) = 1 /\ <<e>>[1] = e
    OBVIOUS
  <2>2. /\ c \in Seq(S) /\ Len(c) = Len(a) + 1
        /\ \A i \in 1..(Len(a) + 1) : c[i] = IF i <= Len(a) THEN a[i] ELSE <<e>>[i - Len(a)]
    BY <2>1, <1>2, ConcatProperties
  <2>3. QED BY <2>1, <2>2, <1>1, <1>2
<1> HIDE DEF a, b, c
<1>5. /\ c \o b \in Seq(S) /\ Len(c \o b) = n + 1
      /\ \A i \in 1..(n + 1) : (c \o b)[i] = IF i <= k THEN c[i] ELSE b[i - k]
  <2>1. /\ c \o b \in Seq(S) /\ Len(c \o b) = Len(c) + Len(b)
        /\ \A i \in 1..(Len(c) + Len(b)) :
              (c \o b)[i] = IF i <= Len(c) THEN c[i] ELSE b[i - Len(c)]
    BY <1>3, <1>4, ConcatProperties
  <2>2. QED BY <2>1, <1>1, <1>3, <1>4
<1>6. \A i \in 1..(n + 1) :
         (c \o b)[i] = IF i < k THEN s[i] ELSE IF i = k THEN e ELSE s[i - 1]
  BY <1>1, <1>3, <1>4, <1>5
<1>7. InsertAt(s, k, e) = c \o b
  BY DEF InsertAt, a, b, c
<1>8. QED BY <1>5, <1>6, <1>7

LEMMA InsertRange ==
    ASSUME NEW S, NEW s \in Seq(S), NEW e \in S, NEW k \in 1..(Len(s) + 1)
    PROVE  /\ InsertAt(s, k, e) \in Seq(S)
           /\ Range(InsertAt(s, k, e)) = Range(s) \cup {e}
           /\ IsInjective(s) /\ e \notin Range(s) => IsInjective(InsertAt(s, k, e))
<1> DEFINE n == Len(s)
           t == InsertAt(s, k, e)
<1>1. n \in Nat /\ k \in Nat /\ 1 <= k /\ k <= n + 1
  BY LenProperties
<1>2. t \in Seq(S) /\ Len(t) = n + 1
  BY InsertElements
<1>3. \A i \in 1..(n + 1) : t[i] = IF i < k THEN s[i] ELSE IF i = k THEN e ELSE s[i - 1]
  BY InsertElements
<1>4. DOMAIN s = 1..n /\ DOMAIN t = 1..(n + 1)
  BY <1>2, LenProperties
<1> HIDE DEF n, t
<1>5. Range(t) = Range(s) \cup {e}
  <2>1. ASSUME NEW i \in 1..n PROVE s[i] \in Range(t)
    <3>1. i \in DOMAIN t /\ i + 1 \in DOMAIN t
      BY <1>1, <1>4
    <3>2. s[i] = t[i] \/ s[i] = t[i + 1]
      BY <1>1, <1>3
    <3>3. QED BY <3>1, <3>2 DEF Range
  <2>2. e \in Range(t)
    <3>1. k \in DOMAIN t /\ t[k] = e
      BY <1>1, <1>3, <1>4
    <3>2. QED BY <3>1 DEF Range
  <2>3. ASSUME NEW i \in 1..(n + 1) PROVE t[i] \in Range(s) \cup {e}
    <3>1. CASE i < k
      <4>1. i \in DOMAIN s /\ t[i] = s[i]
        BY <3>1, <1>1, <1>3, <1>4
      <4>2. QED BY <4>1 DEF Range
    <3>2. CASE i = k
      BY <3>2, <1>3, <1>1
    <3>3. CASE i > k
      <4>1. i - 1 \in DOMAIN s /\ t[i] = s[i - 1]
        BY <3>3, <1>1, <1>3, <1>4
      <4>2. QED BY <4>1 DEF Range
    <3>4. QED BY <3>1, <3>2, <3>3, <1>1
  <2>4. QED BY <2>1, <2>2, <2>3, <1>4 DEF Range
<1>6. ASSUME IsInjective(s), e \notin Range(s) PROVE IsInjective(t)
  <2> SUFFICES ASSUME NEW i \in 1..(n + 1), NEW j \in 1..(n + 1), t[i] = t[j]
               PROVE  i = j
    BY <1>4 DEF IsInjective
  <2>1. \A m \in 1..n : s[m] # e
    BY <1>6, <1>4 DEF Range
  <2>2. \A m, l \in 1..n : s[m] = s[l] => m = l
    BY <1>6, <1>4 DEF IsInjective
  <2>3. QED BY <2>1, <2>2, <1>1, <1>3
<1>7. QED BY <1>2, <1>5, <1>6 DEF t

LEMMA ReplaceRange ==
    ASSUME NEW S, NEW s \in Seq(S), NEW e \in S, NEW k \in 1..Len(s)
    PROVE  /\ ReplaceAt(s, k, e) \in Seq(S)
           /\ Len(ReplaceAt(s, k, e)) = Len(s)
           /\ Range(ReplaceAt(s, k, e)) \subseteq Range(s) \cup {e}
           /\ IsInjective(s) /\ e \notin Range(s) => IsInjective(ReplaceAt(s, k, e))
<1> DEFINE t == ReplaceAt(s, k, e)
<1>1. t \in Seq(S) /\ Len(t) = Len(s)
  BY ExceptSeq DEF ReplaceAt
<1>2. DOMAIN t = DOMAIN s /\ \A i \in DOMAIN s : t[i] = IF i = k THEN e ELSE s[i]
  BY DEF ReplaceAt
<1> HIDE DEF t
<1>3. QED BY <1>1, <1>2 DEF Range, IsInjective, t

(* The elements of RemoveAt(s, k), one by one.                             *)
LEMMA RemoveElements ==
    ASSUME NEW S, NEW s \in Seq(S), NEW k \in 1..Len(s)
    PROVE  /\ RemoveAt(s, k) \in Seq(S)
           /\ Len(RemoveAt(s, k)) = Len(s) - 1
           /\ \A i \in 1..(Len(s) - 1) :
                 RemoveAt(s, k)[i] = IF i < k THEN s[i] ELSE s[i + 1]
<1> DEFINE n == Len(s)
           a == SubSeq(s, 1, k - 1)
           b == SubSeq(s, k + 1, n)
           t == RemoveAt(s, k)
<1>1. n \in Nat /\ k \in Nat /\ 1 <= k /\ k <= n /\ \A i \in 1..n : s[i] \in S
  BY LenProperties, ElementOfSeq
<1>2. a \in Seq(S) /\ Len(a) = k - 1 /\ \A i \in 1..(k - 1) : a[i] = s[i]
  <2>1. \A i \in 1..(k - 1) : s[i] \in S
    BY <1>1
  <2>2. QED BY <2>1, <1>1, SubSeqProperties
<1>3. b \in Seq(S) /\ Len(b) = n - k /\ \A i \in 1..(n - k) : b[i] = s[k + i]
  <2>1. \A i \in (k + 1)..n : s[i] \in S
    BY <1>1
  <2>2. /\ b \in Seq(S) /\ Len(b) = IF k + 1 <= n THEN n - (k + 1) + 1 ELSE 0
        /\ \A i \in 1..(n - (k + 1) + 1) : b[i] = s[(k + 1) + i - 1]
    BY <2>1, <1>1, SubSeqProperties
  <2> HIDE DEF b
  <2>3. QED BY <2>2, <1>1
<1>4. t = a \o b
  BY DEF RemoveAt
<1> HIDE DEF a, b, t
<1>5. /\ t \in Seq(S) /\ Len(t) = n - 1
      /\ \A i \in 1..(n - 1) : t[i] = IF i < k THEN a[i] ELSE b[i - (k - 1)]
  <2>1. /\ t \in Seq(S) /\ Len(t) = Len(a) + Len(b)
        /\ \A i \in 1..(Len(a) + Len(b)) : t[i] = IF i <= Len(a) THEN a[i] ELSE b[i - Len(a)]
    BY <1>2, <1>3, <1>4, ConcatProperties
  <2> HIDE DEF n
  <2>2. Len(a) = k - 1 /\ Len(b) = n - k /\ (k - 1) + (n - k) = n - 1
    BY <1>1, <1>2, <1>3
  <2>3. \A i \in 1..(n - 1) : t[i] = IF i <= k - 1 THEN a[i] ELSE b[i - (k - 1)]
    BY <2>1, <2>2
  <2>4. \A i \in 1..(n - 1) : i <= k - 1 <=> i < k
    BY <1>1
  <2>5. QED BY <2>1, <2>2, <2>3, <2>4
<1>6. \A i \in 1..(n - 1) : t[i] = IF i < k THEN s[i] ELSE s[i + 1]
  BY <1>1, <1>2, <1>3, <1>5
<1>7. QED BY <1>5, <1>6 DEF t

LEMMA RemoveRange ==
    ASSUME NEW S, NEW s \in Seq(S), NEW k \in 1..Len(s)
    PROVE  /\ RemoveAt(s, k) \in Seq(S)
           /\ Range(RemoveAt(s, k)) \subseteq Range(s)
           /\ IsInjective(s) => IsInjective(RemoveAt(s, k))
<1> DEFINE n == Len(s)
           t == RemoveAt(s, k)
<1>1. n \in Nat /\ k \in Nat /\ 1 <= k /\ k <= n
  BY LenProperties
<1>2. t \in Seq(S) /\ Len(t) = n - 1
  BY RemoveElements
<1>3. \A i \in 1..(n - 1) : t[i] = IF i < k THEN s[i] ELSE s[i + 1]
  BY RemoveElements
<1> HIDE DEF t
<1>4. DOMAIN s = 1..n /\ DOMAIN t = 1..(n - 1)
  BY <1>2, LenProperties
<1> HIDE DEF n
<1>5. Range(t) \subseteq Range(s)
  <2>1. ASSUME NEW i \in 1..(n - 1) PROVE t[i] \in Range(s)
    <3>1. i \in DOMAIN s /\ i + 1 \in DOMAIN s
      BY <1>1, <1>4
    <3>2. t[i] = s[i] \/ t[i] = s[i + 1]
      BY <1>3
    <3>3. QED BY <3>1, <3>2 DEF Range
  <2>2. QED BY <2>1, <1>4 DEF Range
<1>6. ASSUME IsInjective(s) PROVE IsInjective(t)
  <2> SUFFICES ASSUME NEW i \in 1..(n - 1), NEW j \in 1..(n - 1), t[i] = t[j]
               PROVE  i = j
    BY <1>4 DEF IsInjective
  <2>1. \A m, l \in 1..n : s[m] = s[l] => m = l
    BY <1>6, <1>4 DEF IsInjective
  <2>2. QED BY <2>1, <1>1, <1>3
<1>7. QED BY <1>2, <1>5, <1>6 DEF t

LEMMA TailRange ==
    ASSUME NEW S, NEW s \in Seq(S), s # <<>>
    PROVE  /\ Head(s) \in Range(s) /\ Tail(s) \in Seq(S)
           /\ Range(Tail(s)) \subseteq Range(s)
<1>1. Tail(s) \in Seq(S) /\ Len(Tail(s)) = Len(s) - 1 /\ Head(s) = s[1] /\ 1 \in DOMAIN s
  BY HeadTailProperties, EmptySeq, LenProperties
<1>2. \A i \in 1..Len(Tail(s)) : Tail(s)[i] = s[i + 1]
  BY HeadTailProperties
<1>3. DOMAIN s = 1..Len(s) /\ DOMAIN Tail(s) = 1..Len(Tail(s)) /\ Len(s) \in Nat
  BY <1>1, LenProperties
<1>4. QED BY <1>1, <1>2, <1>3 DEF Range

(* SetToSeq puts every element of a finite set in the sequence once.       *)
LEMMA SetInOrder ==
    ASSUME NEW S, IsFiniteSet(S)
    PROVE  LET s == SetToSeq(S) IN
           /\ s \in Seq(S) /\ DOMAIN s = 1..Cardinality(S) /\ Len(s) = Cardinality(S)
           /\ IsInjective(s) /\ Range(s) = S
  <1> DEFINE n == Cardinality(S)
             s == SetToSeq(S)
  <1>1. n \in Nat /\ ExistsBijection(1..n, S)
    BY FS_CardinalityType
  <1>2. \E g \in [1..n -> S] : IsInjective(g)
    BY <1>1 DEF ExistsBijection, Bijection, Injection
  <1>3. s \in [1..n -> S] /\ IsInjective(s)
    BY <1>2 DEF SetToSeq
  <1>4. s \in Injection(1..n, S)
    BY <1>3 DEF Injection
  <1>5. Cardinality(1..n) = n
    BY <1>1, FS_Interval
  <1>6. s \in Surjection(1..n, S)
    BY <1>4, <1>5, FS_Injection
  <1>7. Range(s) = S
    BY <1>3, <1>6 DEF Surjection, Range
  <1> HIDE DEF n, s
  <1>8. s \in Seq(S) /\ DOMAIN s = 1..n /\ Len(s) = n
    BY <1>1, <1>3
  <1>9. QED
    BY <1>3, <1>7, <1>8 DEF n, s
=============================================================================
