------------------------- MODULE OtioObjectsProofs -------------------------
(***************************************************************************)
(* Proofs about OtioObjects: for every number of objects and handles and   *)
(* every bound, counts are exact, tree links agree, nothing dangles, and   *)
(* reference counting implements Lifetimes.                                *)
(***************************************************************************)
EXTENDS OtioObjects, MemberLemmas, FiniteSetTheorems

-----------------------------------------------------------------------------
(* Counting.                                                               *)

Places(s, o) == {i \in DOMAIN s : s[i] = o}

LEMMA CountIsNat ==
    ASSUME NEW s \in Seq(Objects), NEW o
    PROVE  /\ IsFiniteSet(Places(s, o))
           /\ Count(o, s) = Cardinality(Places(s, o)) /\ Count(o, s) \in Nat
<1>1. DOMAIN s = 1..Len(s) /\ Len(s) \in Int /\ 1 \in Int
  BY LenProperties
<1>2. IsFiniteSet(DOMAIN s)
  BY <1>1, FS_Interval
<1>3. Places(s, o) \subseteq DOMAIN s
  BY DEF Places
<1>4. IsFiniteSet(Places(s, o)) /\ Cardinality(Places(s, o)) \in Nat
  BY <1>2, <1>3, FS_Subset, FS_CardinalityType
<1>5. QED BY <1>4 DEF Count, Places

LEMMA CountOfFew ==
    ASSUME NEW s \in Seq(Objects), NEW o, IsInjective(s)
    PROVE  Count(o, s) = IF o \in Range(s) THEN 1 ELSE 0
<1>1. CASE o \in Range(s)
  <2>1. PICK i \in DOMAIN s : s[i] = o
    BY <1>1 DEF Range
  <2>2. Places(s, o) = {i}
    BY <2>1 DEF Places, IsInjective
  <2>3. QED BY <2>2, <1>1, CountIsNat, FS_Singleton
<1>2. CASE o \notin Range(s)
  <2>1. Places(s, o) = {}
    BY <1>2 DEF Places, Range
  <2>2. QED BY <2>1, <1>2, CountIsNat, FS_EmptySet
<1>3. QED BY <1>1, <1>2

LEMMA PairsCount ==
    ASSUME NEW p, NEW I, IsFiniteSet(I)
    PROVE  IsFiniteSet({p} \X I) /\ Cardinality({p} \X I) = Cardinality(I)
<1> DEFINE h == [i \in I |-> <<p, i>>]
<1>1. h \in [I -> {p} \X I]
  OBVIOUS
<1>2. \A a, b \in I : h[a] = h[b] => a = b
  OBVIOUS
<1>3. \A e \in {p} \X I : \E i \in I : h[i] = e
  OBVIOUS
<1>4. h \in Bijection(I, {p} \X I)
  BY <1>1, <1>2, <1>3 DEF Bijection, Injection, Surjection, IsInjective
<1>5. QED BY <1>4, FS_Bijection DEF ExistsBijection

LEMMA DisjointUnion ==
    ASSUME NEW A, NEW B, IsFiniteSet(A), IsFiniteSet(B), A \cap B = {}
    PROVE  /\ IsFiniteSet(A \cup B)
           /\ Cardinality(A \cup B) = Cardinality(A) + Cardinality(B)
<1>1. /\ IsFiniteSet(A \cup B)
      /\ Cardinality(A \cup B) = Cardinality(A) + Cardinality(B) - Cardinality(A \cap B)
  BY FS_Union
<1>2. Cardinality(A \cap B) = 0
  BY FS_EmptySet
<1>3. Cardinality(A) \in Nat /\ Cardinality(B) \in Nat
  BY FS_CardinalityType
<1>4. QED BY <1>1, <1>2, <1>3

LEMMA OccurrencesChange ==
    ASSUME NEW f \in [Objects -> Seq(Objects)], NEW p \in Objects,
           NEW s \in Seq(Objects), NEW o, IsFiniteSet(Occurrences(f, o))
    PROVE  /\ IsFiniteSet(Occurrences([f EXCEPT ![p] = s], o))
           /\ Cardinality(Occurrences([f EXCEPT ![p] = s], o))
                = Cardinality(Occurrences(f, o)) + Count(o, s) - Count(o, f[p])
           /\ Count(o, f[p]) <= Cardinality(Occurrences(f, o))
<1> DEFINE g   == [f EXCEPT ![p] = s]
           F   == Occurrences(f, o)
           G   == Occurrences(g, o)
           old == {p} \X Places(f[p], o)
           new == {p} \X Places(s, o)
           R   == F \ old
<1>1. f[p] \in Seq(Objects)
  OBVIOUS
<1>2. /\ IsFiniteSet(old) /\ Cardinality(old) = Count(o, f[p]) /\ Count(o, f[p]) \in Nat
      /\ IsFiniteSet(new) /\ Cardinality(new) = Count(o, s) /\ Count(o, s) \in Nat
  <2>1. /\ IsFiniteSet(Places(f[p], o)) /\ Count(o, f[p]) = Cardinality(Places(f[p], o))
        /\ Count(o, f[p]) \in Nat
    BY <1>1, CountIsNat
  <2>2. /\ IsFiniteSet(Places(s, o)) /\ Count(o, s) = Cardinality(Places(s, o))
        /\ Count(o, s) \in Nat
    BY CountIsNat
  <2>3. IsFiniteSet(old) /\ Cardinality(old) = Cardinality(Places(f[p], o))
    BY <2>1, PairsCount
  <2>4. IsFiniteSet(new) /\ Cardinality(new) = Cardinality(Places(s, o))
    BY <2>2, PairsCount
  <2>5. QED BY <2>1, <2>2, <2>3, <2>4
<1>3. old \subseteq F
  <2>1. ASSUME NEW i \in Places(f[p], o) PROVE <<p, i>> \in F
    <3>1. i \in DOMAIN f[p] /\ f[p][i] = o
      BY DEF Places
    <3>2. <<p, i>> \in {p} \X DOMAIN f[p]
      BY <3>1
    <3>3. QED BY <3>1, <3>2 DEF Occurrences
  <2>2. QED BY <2>1
<1>4. G = R \cup new
  <2>1. \A e : e \in F <=> e \in UNION {{q} \X DOMAIN f[q] : q \in Objects} /\ f[e[1]][e[2]] = o
    BY DEF Occurrences
  <2>2. ASSUME NEW e PROVE e \in G => e \in R \cup new
    <3>1. SUFFICES ASSUME e \in G PROVE e \in R \cup new
      OBVIOUS
    <3>2. PICK q, i : q \in Objects /\ i \in DOMAIN g[q] /\ e = <<q, i>> /\ g[q][i] = o
      BY <3>1 DEF Occurrences
    <3>3. CASE q = p
      BY <3>2, <3>3 DEF Places
    <3>4. CASE q # p
      BY <3>2, <3>4 DEF Occurrences, Places
    <3>7. QED BY <3>3, <3>4
  <2>3. ASSUME NEW e \in R PROVE e \in G
    <3>1. PICK q, i : q \in Objects /\ i \in DOMAIN f[q] /\ e = <<q, i>> /\ f[q][i] = o
      BY DEF Occurrences
    <3>2. q # p
      BY <3>1 DEF Places
    <3>3. QED BY <3>1, <3>2 DEF Occurrences
  <2>4. new \subseteq G
    BY DEF Occurrences, Places
  <2>5. QED BY <2>2, <2>3, <2>4
<1>5. R \cap new = {}
  <2>1. ASSUME NEW e \in R, e \in new PROVE FALSE
    <3>1. PICK q, i : q \in Objects /\ i \in DOMAIN f[q] /\ e = <<q, i>> /\ f[q][i] = o
      BY DEF Occurrences
    <3>2. q = p
      BY <3>1, <2>1
    <3>3. e \in old
      BY <3>1, <3>2 DEF Places
    <3>4. QED BY <3>3
  <2>2. QED BY <2>1
<1> HIDE DEF F, G, old, new
<1>6. F = R \cup old /\ R \cap old = {} /\ IsFiniteSet(F)
  BY <1>3 DEF F
<1>7. IsFiniteSet(R) /\ Cardinality(R) \in Nat
  BY <1>6, FS_Subset, FS_CardinalityType
<1>8. Cardinality(F) = Cardinality(R) + Cardinality(old)
  BY <1>2, <1>6, <1>7, DisjointUnion
<1>9. IsFiniteSet(G) /\ Cardinality(G) = Cardinality(R) + Cardinality(new)
  BY <1>2, <1>4, <1>5, <1>7, DisjointUnion
<1>10. QED BY <1>2, <1>7, <1>8, <1>9 DEF F, G

HandlesFor(f, o) == {g \in Handles : f[g] = o}
IsOn(f, h, o)    == IF f[h] = o THEN 1 ELSE 0

LEMMA HandleCountChange ==
    ASSUME NEW f, NEW g, NEW h \in Handles, NEW o,
           \A k \in Handles \ {h} : g[k] = f[k]
    PROVE  Cardinality(HandlesFor(g, o))
             = Cardinality(HandlesFor(f, o)) + IsOn(g, h, o) - IsOn(f, h, o)
<1> DEFINE before == HandlesFor(f, o)
           after  == HandlesFor(g, o)
           rest   == {k \in Handles \ {h} : f[k] = o}
<1>1. IsFiniteSet(rest) /\ IsFiniteSet(before) /\ IsFiniteSet(after)
  BY FS_Subset, PoolAssumption DEF HandlesFor
<1>2. before = rest \cup (IF f[h] = o THEN {h} ELSE {})
  BY DEF HandlesFor
<1>3. after = rest \cup (IF g[h] = o THEN {h} ELSE {})
  BY DEF HandlesFor
<1>4. h \notin rest
  OBVIOUS
<1> HIDE DEF before, after, rest
<1>5. Cardinality(before) = Cardinality(rest) + (IF f[h] = o THEN 1 ELSE 0)
  <2>1. CASE f[h] = o
    BY <2>1, <1>1, <1>2, <1>4, FS_AddElement
  <2>2. CASE f[h] # o
    BY <2>2, <1>1, <1>2, FS_CardinalityType
  <2>3. QED BY <2>1, <2>2
<1>6. Cardinality(after) = Cardinality(rest) + (IF g[h] = o THEN 1 ELSE 0)
  <2>1. CASE g[h] = o
    BY <2>1, <1>1, <1>3, <1>4, FS_AddElement
  <2>2. CASE g[h] # o
    BY <2>2, <1>1, <1>3, FS_CardinalityType
  <2>3. QED BY <2>1, <2>2
<1>7. Cardinality(rest) \in Nat
  BY <1>1, FS_CardinalityType
<1>8. QED BY <1>5, <1>6, <1>7 DEF before, after, IsOn

(* The counts are what makes a reference safe to release.                  *)
FinitelyUsed(o) == IsFiniteSet(Occurrences(slots, o)) /\ IsFiniteSet(Occurrences(meta, o))

LEMMA CountsAreNat ==
    ASSUME IInv, NEW o \in Objects
    PROVE  /\ Cardinality(HandlesOn(o)) \in Nat /\ IsFiniteSet(HandlesOn(o))
           /\ Uses(o) \in Nat /\ FinitelyUsed(o)
           /\ Cardinality(Occurrences(slots, o)) \in Nat
           /\ Cardinality(Occurrences(meta, o)) \in Nat
<1>1. IsFiniteSet(HandlesOn(o))
  BY FS_Subset, PoolAssumption DEF HandlesOn
<1>2. FinitelyUsed(o)
  BY DEF IInv, FiniteUses, FinitelyUsed
<1>3. /\ Cardinality(HandlesOn(o)) \in Nat
      /\ Cardinality(Occurrences(slots, o)) \in Nat
      /\ Cardinality(Occurrences(meta, o)) \in Nat
  BY <1>1, <1>2, FS_CardinalityType DEF FinitelyUsed
<1>4. QED BY <1>1, <1>2, <1>3 DEF Uses

(* No occurrence, no reference.                                            *)
LEMMA NoOccurrence ==
    ASSUME NEW f, NEW o, IsFiniteSet(Occurrences(f, o)),
           Cardinality(Occurrences(f, o)) = 0
    PROVE  \A p \in Objects : o \notin Range(f[p])
<1>1. Occurrences(f, o) = {}
  BY FS_EmptySet
<1>2. ASSUME NEW p \in Objects, o \in Range(f[p]) PROVE FALSE
  <2>1. PICK i \in DOMAIN f[p] : f[p][i] = o
    BY <1>2 DEF Range
  <2>2. <<p, i>> \in {p} \X DOMAIN f[p]
    OBVIOUS
  <2>3. <<p, i>> \in Occurrences(f, o)
    BY <2>1, <2>2 DEF Occurrences
  <2>4. QED BY <2>3, <1>1
<1>3. QED BY <1>2

(* An object nobody counts is one nobody refers to.                        *)
LEMMA ZeroMeansUnreferenced ==
    ASSUME IInv, NEW o \in Objects, refs[o] = 0
    PROVE  /\ \A h \in Handles : handle[h] # o
           /\ \A p \in Objects : o \notin Held(p)
           /\ o \notin call.kept
<1>1. refs[o] = Cardinality(HandlesOn(o)) + Uses(o) + (IF o \in call.kept THEN 1 ELSE 0)
  BY DEF IInv, CountExact
<1>2. Cardinality(HandlesOn(o)) = 0 /\ Uses(o) = 0 /\ o \notin call.kept
  BY <1>1, CountsAreNat
<1>3. HandlesOn(o) = {}
  BY <1>2, CountsAreNat, FS_EmptySet
<1>4. /\ Cardinality(Occurrences(slots, o)) = 0
      /\ Cardinality(Occurrences(meta, o)) = 0
  BY <1>2, CountsAreNat DEF Uses
<1>5. \A p \in Objects : o \notin Range(slots[p]) /\ o \notin Range(meta[p])
  BY <1>4, CountsAreNat, NoOccurrence DEF FinitelyUsed
<1>6. QED BY <1>2, <1>3, <1>5 DEF HandlesOn, Held

LEMMA InitInv == Init => IInv
<1> SUFFICES ASSUME Init PROVE IInv
  OBVIOUS
<1> USE DEF Init
<1>1. TypeOK
  <2>1. <<>> \in Seq(Objects) /\ Range(<<>>) = {}
    BY EmptyRange
  <2>2. Idle \in [arg : Handles \cup {NoHandle}, todo : Seq(Objects),
                  kept : SUBSET Objects, out : SUBSET Handles]
    BY <2>1 DEF Idle
  <2>3. Live = {}
    BY DEF Live
  <2>4. QED BY <2>1, <2>2, <2>3 DEF TypeOK, InCall, Idle
<1>2. \A o \in Objects : /\ Occurrences(slots, o) = {} /\ Occurrences(meta, o) = {}
                        /\ HandlesOn(o) = {}
  BY PoolAssumption DEF Occurrences, HandlesOn
<1>3. CountExact /\ FiniteUses
  <2>1. ASSUME NEW o \in Objects
        PROVE  Cardinality(HandlesOn(o)) = 0 /\ Uses(o) = 0 /\ FinitelyUsed(o)
    <3>1. /\ Occurrences(slots, o) = {} /\ Occurrences(meta, o) = {}
          /\ HandlesOn(o) = {}
      BY <1>2
    <3>2. Cardinality({}) = 0 /\ IsFiniteSet({})
      BY FS_EmptySet
    <3> HIDE DEF Init
    <3>3. QED BY <3>1, <3>2 DEF Uses, FinitelyUsed
  <2>2. call.kept = {} /\ \A o \in Objects : refs[o] = 0
    BY DEF Idle
  <2>3. QED BY <2>1, <2>2 DEF CountExact, FiniteUses, FinitelyUsed
<1>4. TreeLinks
  BY EmptyRange, PoolAssumption DEF TreeLinks, Compositions, Composables, Objects
<1>5. NoDangling /\ Emptied /\ Anchored
  BY EmptyRange DEF NoDangling, Emptied, Anchored, InCall, Idle, Held
<1>6. QED BY <1>1, <1>3, <1>4, <1>5 DEF IInv

-----------------------------------------------------------------------------
(* A holder's members are replaced.                                        *)

LEMMA StoreCounts ==
    ASSUME IInv, NEW p \in Objects, NEW s \in Seq(Objects), NEW m \in Seq(Objects),
           Store(p, s, m), handle' = handle, call' = call
    PROVE  CountExact' /\ FiniteUses' /\ refs' \in [Objects -> Nat]
<1>1. /\ slots \in [Objects -> Seq(Objects)] /\ slots[p] \in Seq(Objects)
      /\ meta \in [Objects -> Seq(Objects)] /\ meta[p] \in Seq(Objects)
      /\ refs \in [Objects -> Nat]
  BY DEF IInv, TypeOK
<1>2. slots' = [slots EXCEPT ![p] = s] /\ meta' = [meta EXCEPT ![p] = m]
  BY DEF Store
<1>3. ASSUME NEW o \in Objects
      PROVE  /\ FinitelyUsed(o)'
             /\ refs'[o] = Cardinality(HandlesOn(o)') + Uses(o)'
                            + (IF o \in call'.kept THEN 1 ELSE 0)
             /\ refs'[o] \in Nat
  <2>1. /\ Cardinality(HandlesOn(o)) \in Nat /\ FinitelyUsed(o)
        /\ Cardinality(Occurrences(slots, o)) \in Nat
        /\ Cardinality(Occurrences(meta, o)) \in Nat
    BY CountsAreNat
  <2>2. /\ IsFiniteSet(Occurrences(slots', o))
        /\ Cardinality(Occurrences(slots', o))
             = Cardinality(Occurrences(slots, o)) + Count(o, s) - Count(o, slots[p])
    BY <1>1, <1>2, <2>1, OccurrencesChange DEF FinitelyUsed
  <2>3. /\ IsFiniteSet(Occurrences(meta', o))
        /\ Cardinality(Occurrences(meta', o))
             = Cardinality(Occurrences(meta, o)) + Count(o, m) - Count(o, meta[p])
    BY <1>1, <1>2, <2>1, OccurrencesChange DEF FinitelyUsed
  <2>4. /\ Count(o, s) \in Nat /\ Count(o, slots[p]) \in Nat
        /\ Count(o, m) \in Nat /\ Count(o, meta[p]) \in Nat
    BY <1>1, CountIsNat
  <2>5. refs'[o] = refs[o] + Count(o, s) - Count(o, slots[p]) + Count(o, m) - Count(o, meta[p])
    BY DEF Store
  <2>6. refs[o] = Cardinality(HandlesOn(o)) + Uses(o) + (IF o \in call.kept THEN 1 ELSE 0)
    BY DEF IInv, CountExact
  <2>7. HandlesOn(o)' = HandlesOn(o) /\ call'.kept = call.kept
    BY DEF HandlesOn
  <2>8. /\ Cardinality(Occurrences(slots', o)) \in Nat
        /\ Cardinality(Occurrences(meta', o)) \in Nat
    BY <2>2, <2>3, FS_CardinalityType
  <2>9. /\ Uses(o) = Cardinality(Occurrences(slots, o)) + Cardinality(Occurrences(meta, o))
        /\ Uses(o)' = Cardinality(Occurrences(slots', o)) + Cardinality(Occurrences(meta', o))
    BY DEF Uses, Occurrences
  <2>10. FinitelyUsed(o)'
    BY <2>2, <2>3 DEF FinitelyUsed, Occurrences
  <2> HIDE DEF Count
  <2>11. Uses(o)' = Uses(o) + Count(o, s) - Count(o, slots[p]) + Count(o, m) - Count(o, meta[p])
    BY <2>1, <2>2, <2>3, <2>4, <2>9
  <2>12. Uses(o) \in Nat /\ Uses(o)' \in Nat
    BY <2>1, <2>8, <2>9
  <2>13. refs'[o] = Cardinality(HandlesOn(o)') + Uses(o)' + (IF o \in call'.kept THEN 1 ELSE 0)
    <3> DEFINE k == IF o \in call.kept THEN 1 ELSE 0
    <3>1. /\ k \in Nat /\ refs[o] = Cardinality(HandlesOn(o)) + Uses(o) + k
          /\ k = IF o \in call'.kept THEN 1 ELSE 0
          /\ Cardinality(HandlesOn(o)') = Cardinality(HandlesOn(o))
      BY <2>6, <2>7
    <3> DEFINE d == Count(o, s) - Count(o, slots[p]) + Count(o, m) - Count(o, meta[p])
    <3>2. d \in Int /\ refs'[o] = refs[o] + d /\ Uses(o)' = Uses(o) + d
      <4>1. refs[o] \in Int
        BY <1>1
      <4>2. d \in Int /\ refs'[o] = refs[o] + d
        BY <4>1, <2>4, <2>5
      <4>3. Uses(o)' = Uses(o) + d
        BY <2>4, <2>11, <2>12
      <4>4. QED BY <4>2, <4>3
    <3> HIDE DEF k, d
    <3> DEFINE r == refs[o]  r1 == refs'[o]  u == Uses(o)  u1 == Uses(o)'
               c == Cardinality(HandlesOn(o))  c1 == Cardinality(HandlesOn(o)')
    <3>5. /\ c \in Nat /\ u \in Nat /\ k \in Nat /\ d \in Int /\ c1 = c
          /\ r = c + u + k /\ r1 = r + d /\ u1 = u + d
      BY <2>1, <2>12, <3>1, <3>2
    <3> HIDE DEF r, r1, u, u1, c, c1
    <3>6. r1 = c1 + u1 + k
      BY <3>5
    <3>3. refs'[o] = Cardinality(HandlesOn(o)') + Uses(o)' + k
      BY <3>6 DEF r1, c1, u1
    <3>4. QED BY <3>1, <3>3
  <2>14. refs'[o] \in Nat
    <3>1. Cardinality(HandlesOn(o)') \in Nat
      BY <2>1, <2>7
    <3>2. (IF o \in call'.kept THEN 1 ELSE 0) \in Nat
      OBVIOUS
    <3>3. QED BY <2>12, <2>13, <3>1, <3>2
  <2>15. QED BY <2>10, <2>13, <2>14
<1>4. refs' \in [Objects -> Nat]
  <2>1. DOMAIN refs' = Objects /\ refs' = [o \in Objects |-> refs'[o]]
    BY DEF Store
  <2>2. QED BY <2>1, <1>3
<1>5. QED BY <1>3, <1>4 DEF CountExact, FiniteUses, FinitelyUsed

LEMMA StoreLinks ==
    ASSUME IInv, NEW p \in Objects, NEW s \in Seq(Objects), NEW m, Store(p, s, m),
           p \in Compositions =>
              IsInjective(s) /\ \A o \in Range(s) : parent[o] \in {NoObject, p}
    PROVE  TreeLinks' /\ parent' \in [Objects -> Compositions \cup {NoObject}]
<1>1. /\ slots \in [Objects -> Seq(Objects)] /\ TreeLinks
      /\ parent \in [Objects -> Compositions \cup {NoObject}]
  BY DEF IInv, TypeOK
<1>2. slots' = [slots EXCEPT ![p] = s]
  BY DEF Store
<1>3. NoObject \notin Objects /\ Compositions \subseteq Objects
  BY PoolAssumption DEF Objects, Composables
<1>4. CASE p \in Compositions
  <2>1. parent' = [o \in Objects |-> IF o \in Range(s) THEN p
                      ELSE IF o \in Range(slots[p]) THEN NoObject ELSE parent[o]]
    BY <1>4 DEF Store
  <2>2. ASSUME NEW q \in Compositions, NEW o \in Objects
        PROVE  parent'[o] = q <=> o \in Range(slots'[q])
    <3>1. \A r \in Compositions : parent[o] = r <=> o \in Range(slots[r])
      BY <1>1 DEF TreeLinks
    <3>2. slots'[q] = IF q = p THEN s ELSE slots[q]
      BY <1>1, <1>2, <1>3
    <3>3. parent'[o] = IF o \in Range(s) THEN p
                       ELSE IF o \in Range(slots[p]) THEN NoObject ELSE parent[o]
      BY <2>1
    <3>4. o \in Range(s) => parent[o] \in {NoObject, p}
      BY <1>4
    <3>5. q # NoObject /\ p # NoObject
      BY <1>3
    <3> HIDE DEF Store
    <3>6. QED BY <3>1, <3>2, <3>3, <3>4, <3>5, <1>4
  <2>3. \A q \in Compositions : IsInjective(slots'[q])
    BY <1>1, <1>2, <1>3, <1>4 DEF TreeLinks
  <2>4. QED BY <2>1, <2>2, <2>3, <1>1, <1>4 DEF TreeLinks
<1>5. CASE p \notin Compositions
  <2>1. parent' = parent /\ \A q \in Compositions : slots'[q] = slots[q]
    BY <1>1, <1>2, <1>3, <1>5 DEF Store
  <2>2. QED BY <2>1, <1>1 DEF TreeLinks
<1>6. QED BY <1>4, <1>5

LEMMA StoreStep ==
    ASSUME IInv, NEW p \in Live, NEW s \in Seq(Objects), NEW m \in Seq(Objects),
           NEW fresh \in SUBSET Objects, Rework(p, s, m, fresh),
           fresh \cap Timelines = {},
           Range(s) \subseteq MayHold(p) /\ Range(s) \subseteq Live \cup fresh,
           Range(m) \subseteq Live \cup fresh,
           p \in Timelines => Len(s) = 1,
           p \in Compositions =>
              IsInjective(s) /\ \A o \in Range(s) : parent[o] \in {NoObject, p}
    PROVE  IInv'
<1>1. p \in Objects /\ life[p] = "live"
  BY DEF Live
<1>a. /\ RCodeRuns /\ Store(p, s, m) /\ UNCHANGED <<handle, rstate, call>>
      /\ life' = [o \in Objects |-> IF o \in fresh THEN "live" ELSE life[o]]
      /\ \A o \in fresh : life[o] = "unborn" /\ o \notin Timelines
  BY DEF Rework, Unborn
<1>2. TypeOK /\ NoDangling /\ Emptied /\ Anchored
  BY DEF IInv
<1>3. /\ slots' = [slots EXCEPT ![p] = s] /\ slots \in [Objects -> Seq(Objects)]
      /\ meta' = [meta EXCEPT ![p] = m] /\ meta \in [Objects -> Seq(Objects)]
  BY <1>a, <1>2 DEF Store, TypeOK
<1>4. \A q \in Objects : /\ slots'[q] = IF q = p THEN s ELSE slots[q]
                        /\ meta'[q] = IF q = p THEN m ELSE meta[q]
  BY <1>1, <1>3
<1>5. CountExact' /\ FiniteUses' /\ refs' \in [Objects -> Nat]
  BY <1>1, <1>a, StoreCounts
<1>6. TreeLinks' /\ parent' \in [Objects -> Compositions \cup {NoObject}]
  BY <1>1, <1>a, StoreLinks
<1>7. Live' = Live \cup fresh
  BY <1>a DEF Live
<1>8. TypeOK'
  <2>1. life' \in [Objects -> {"unborn", "live", "freed"}]
    BY <1>a, <1>2 DEF TypeOK
  <2>2. slots' \in [Objects -> Seq(Objects)] /\ meta' \in [Objects -> Seq(Objects)]
    BY <1>1, <1>3
  <2>3. \A q \in Objects : Range(slots'[q]) \subseteq MayHold(q)
    BY <1>2, <1>4 DEF TypeOK
  <2>4. \A t \in Timelines \cap Live' : Len(slots'[t]) = 1
    <3>1. \A t \in Timelines \cap Live' : t \in Timelines \cap Live
      BY <1>a, <1>7
    <3>2. QED BY <3>1, <1>2, <1>4 DEF TypeOK, Live
  <2>5. QED BY <2>1, <2>2, <2>3, <2>4, <1>a, <1>2, <1>5, <1>6 DEF TypeOK, InCall
<1>9. NoDangling'
  <2>1. \A q \in Objects : Range(slots'[q]) \subseteq Live' /\ Range(meta'[q]) \subseteq Live'
    BY <1>2, <1>4, <1>7 DEF NoDangling, Held
  <2>2. ASSUME NEW o \in Objects PROVE parent'[o] \in Live' \cup {NoObject}
    <3>1. parent'[o] = NoObject \/ parent'[o] = p \/ parent'[o] = parent[o]
      BY <1>a DEF Store
    <3>2. QED BY <3>1, <1>2, <1>7 DEF NoDangling
  <2>3. QED BY <2>1, <2>2, <1>a, <1>2, <1>7 DEF NoDangling, Held
<1>10. Emptied'
  BY <1>1, <1>a, <1>2, <1>4 DEF Emptied
<1>11. Anchored'
  <2>1. InCall => Reentrant
    BY <1>a DEF RCodeRuns
  <2>2. QED BY <2>1, <1>a, <1>2 DEF Anchored, InCall
<1>12. QED BY <1>5, <1>6, <1>8, <1>9, <1>10, <1>11 DEF IInv

-----------------------------------------------------------------------------
(* A new object, or a new handle.                                          *)

LEMMA BuildCounts ==
    ASSUME IInv, NEW h \in Handles, NEW p \in Objects, NEW s \in Seq(Objects),
           NEW m \in Seq(Objects), NEW fresh, Build(h, p, s, m, fresh)
    PROVE  CountExact' /\ FiniteUses' /\ refs' \in [Objects -> Nat]
<1>1. /\ slots \in [Objects -> Seq(Objects)] /\ slots[p] \in Seq(Objects)
      /\ meta \in [Objects -> Seq(Objects)] /\ meta[p] \in Seq(Objects)
  BY DEF IInv, TypeOK
<1>7. handle \in [Handles -> Objects \cup {NoObject}] /\ handle[h] = NoObject
  BY DEF IInv, TypeOK, Build, Spare, FreeHandles
<1>2. slots[p] = <<>> /\ meta[p] = <<>>
  BY DEF IInv, Emptied, Build, Unborn
<1>3. /\ slots' = [slots EXCEPT ![p] = s] /\ meta' = [meta EXCEPT ![p] = m]
      /\ handle' = [handle EXCEPT ![h] = p]
      /\ call' = call
  BY DEF Build, Wrap
<1>4. ASSUME NEW o \in Objects
      PROVE  /\ FinitelyUsed(o)'
             /\ refs'[o] = Cardinality(HandlesOn(o)') + Uses(o)'
                            + (IF o \in call'.kept THEN 1 ELSE 0)
             /\ refs'[o] \in Nat
  <2>1. /\ Cardinality(HandlesOn(o)) \in Nat /\ FinitelyUsed(o)
        /\ Cardinality(Occurrences(slots, o)) \in Nat
        /\ Cardinality(Occurrences(meta, o)) \in Nat
    BY CountsAreNat
  <2>2. Count(o, slots[p]) = 0 /\ Count(o, meta[p]) = 0
    BY <1>1, <1>2, EmptyRange, CountOfFew
  <2>3. /\ IsFiniteSet(Occurrences(slots', o))
        /\ Cardinality(Occurrences(slots', o))
             = Cardinality(Occurrences(slots, o)) + Count(o, s) - Count(o, slots[p])
    <3>1. IsFiniteSet(Occurrences(slots, o))
      BY <2>1 DEF FinitelyUsed
    <3>2. /\ IsFiniteSet(Occurrences([slots EXCEPT ![p] = s], o))
          /\ Cardinality(Occurrences([slots EXCEPT ![p] = s], o))
               = Cardinality(Occurrences(slots, o)) + Count(o, s) - Count(o, slots[p])
      BY <1>1, <3>1, OccurrencesChange
    <3>3. slots' = [slots EXCEPT ![p] = s]
      BY <1>3
    <3>4. QED BY <3>2, <3>3
  <2>4. /\ IsFiniteSet(Occurrences(meta', o))
        /\ Cardinality(Occurrences(meta', o))
             = Cardinality(Occurrences(meta, o)) + Count(o, m) - Count(o, meta[p])
    <3>1. IsFiniteSet(Occurrences(meta, o))
      BY <2>1 DEF FinitelyUsed
    <3>2. /\ IsFiniteSet(Occurrences([meta EXCEPT ![p] = m], o))
          /\ Cardinality(Occurrences([meta EXCEPT ![p] = m], o))
               = Cardinality(Occurrences(meta, o)) + Count(o, m) - Count(o, meta[p])
      BY <1>1, <3>1, OccurrencesChange
    <3>3. meta' = [meta EXCEPT ![p] = m]
      BY <1>3
    <3>4. QED BY <3>2, <3>3
  <2>5. Count(o, s) \in Nat /\ Count(o, m) \in Nat
    BY CountIsNat
  <2>6. refs'[o] = refs[o] + Count(o, s) + Count(o, m) + IF o = p THEN 1 ELSE 0
    BY DEF Build
  <2>7. refs[o] = Cardinality(HandlesOn(o)) + Uses(o) + (IF o \in call.kept THEN 1 ELSE 0)
    BY DEF IInv, CountExact
  <2>8. o # NoObject
    BY PoolAssumption
  <2>9. Cardinality(HandlesOn(o)') = Cardinality(HandlesOn(o)) + IF o = p THEN 1 ELSE 0
    <3>1. /\ HandlesOn(o)' = HandlesFor(handle', o)
          /\ HandlesOn(o) = HandlesFor(handle, o)
      BY DEF HandlesOn, HandlesFor
    <3>2. \A k \in Handles \ {h} : handle'[k] = handle[k]
      BY <1>3, <1>7
    <3>6. handle'[h] = p
      BY <1>3, <1>7
    <3>3. Cardinality(HandlesFor(handle', o))
             = Cardinality(HandlesFor(handle, o))
               + IsOn(handle', h, o) - IsOn(handle, h, o)
      BY <3>2, HandleCountChange
    <3>4. Cardinality(HandlesFor(handle, o)) \in Nat
      BY <3>1, CountsAreNat
    <3>7. QED BY <1>7, <2>8, <3>1, <3>3, <3>4, <3>6 DEF IsOn
  <2>10. /\ Uses(o) = Cardinality(Occurrences(slots, o)) + Cardinality(Occurrences(meta, o))
         /\ Uses(o)' = Cardinality(Occurrences(slots', o)) + Cardinality(Occurrences(meta', o))
    BY DEF Uses, Occurrences
  <2>11. /\ Cardinality(Occurrences(slots', o)) \in Nat
         /\ Cardinality(Occurrences(meta', o)) \in Nat
    BY <2>3, <2>4, FS_CardinalityType
  <2>12. (IF o \in call'.kept THEN 1 ELSE 0) = (IF o \in call.kept THEN 1 ELSE 0)
    BY <1>3
  <2>13. FinitelyUsed(o)'
    BY <2>3, <2>4 DEF FinitelyUsed, Occurrences
  <2> HIDE DEF Count
  <2>14. Uses(o)' = Uses(o) + Count(o, s) + Count(o, m)
    BY <2>1, <2>2, <2>3, <2>4, <2>5, <2>10, <2>11
  <2>15. Uses(o) \in Nat /\ Uses(o)' \in Nat
    BY <2>1, <2>10, <2>11
  <2>16. refs'[o] = Cardinality(HandlesOn(o)') + Uses(o)' + (IF o \in call'.kept THEN 1 ELSE 0)
    <3> DEFINE k == IF o \in call.kept THEN 1 ELSE 0
               n == IF o = p THEN 1 ELSE 0
    <3>1. k \in Nat /\ k = (IF o \in call'.kept THEN 1 ELSE 0) /\ n \in Nat
      BY <2>12
    <3>2. /\ refs[o] = Cardinality(HandlesOn(o)) + Uses(o) + k
          /\ refs'[o] = refs[o] + Count(o, s) + Count(o, m) + n
          /\ Cardinality(HandlesOn(o)') = Cardinality(HandlesOn(o)) + n
      BY <2>6, <2>7, <2>9
    <3> HIDE DEF k, n
    <3> DEFINE r == refs[o]  r1 == refs'[o]  x == Count(o, s)  y == Count(o, m)
               c == Cardinality(HandlesOn(o))  c1 == Cardinality(HandlesOn(o)')
               u == Uses(o)  u1 == Uses(o)'
    <3>5. /\ c \in Nat /\ u \in Nat /\ x \in Nat /\ y \in Nat /\ k \in Nat /\ n \in Nat
          /\ r = c + u + k /\ r1 = r + x + y + n /\ c1 = c + n /\ u1 = u + x + y
      BY <2>1, <2>5, <2>14, <2>15, <3>1, <3>2
    <3> HIDE DEF r, r1, x, y, c, c1, u, u1
    <3>6. r1 = c1 + u1 + k
      BY <3>5
    <3>3. refs'[o] = Cardinality(HandlesOn(o)') + Uses(o)' + k
      BY <3>6 DEF r1, c1, u1
    <3>4. QED BY <3>1, <3>3
  <2>17. refs'[o] \in Nat
    <3>1. Cardinality(HandlesOn(o)') \in Nat
      BY <2>1, <2>9
    <3>2. (IF o \in call'.kept THEN 1 ELSE 0) \in Nat
      OBVIOUS
    <3>3. QED BY <2>15, <2>16, <3>1, <3>2
  <2>18. QED BY <2>13, <2>16, <2>17
<1>5. refs' \in [Objects -> Nat]
  <2>1. refs' = [o \in Objects |-> refs'[o]]
    BY DEF Build
  <2>2. QED BY <2>1, <1>4
<1>6. QED BY <1>4, <1>5 DEF CountExact, FiniteUses, FinitelyUsed

LEMMA BuildStep ==
    ASSUME IInv, NEW h \in Handles, NEW p \in Objects, NEW s \in Seq(Objects),
           NEW m \in Seq(Objects), NEW fresh \in SUBSET Objects, Build(h, p, s, m, fresh),
           fresh \cap Timelines = {},
           Range(s) \subseteq MayHold(p) /\ Range(s) \subseteq Live \cup fresh,
           Range(m) \subseteq Live \cup fresh,
           p \in Timelines => Len(s) = 1,
           p \in Compositions => IsInjective(s) /\ Range(s) \subseteq fresh
    PROVE  IInv'
<1>1. TypeOK /\ TreeLinks /\ NoDangling /\ Emptied /\ Anchored
  BY DEF IInv
<1>2. /\ slots \in [Objects -> Seq(Objects)] /\ slots' = [slots EXCEPT ![p] = s]
      /\ meta \in [Objects -> Seq(Objects)] /\ meta' = [meta EXCEPT ![p] = m]
      /\ handle' = [handle EXCEPT ![h] = p] /\ rstate' = [rstate EXCEPT ![h] = "held"]
      /\ call' = call /\ rstate[h] = "free"
  BY <1>1 DEF Build, Wrap, TypeOK, Spare, FreeHandles
<1>3. \A q \in Objects : /\ slots'[q] = IF q = p THEN s ELSE slots[q]
                        /\ meta'[q] = IF q = p THEN m ELSE meta[q]
  BY <1>2
<1>4. Live' = Live \cup fresh \cup {p} /\ Live \cap (fresh \cup {p}) = {}
  BY DEF Live, Build, Unborn
<1>5. NoObject \notin Objects /\ Compositions \subseteq Objects
  BY PoolAssumption DEF Objects, Composables
<1>6. CountExact' /\ FiniteUses' /\ refs' \in [Objects -> Nat]
  BY BuildCounts
<1>7. \A o \in Objects : parent'[o] = IF p \in Compositions /\ o \in Range(s)
                                      THEN p ELSE parent[o]
  BY DEF Build
<1>8. TreeLinks'
  <2>1. ASSUME NEW q \in Compositions, NEW o \in Objects
        PROVE  parent'[o] = q <=> o \in Range(slots'[q])
    <3>1. \A r \in Compositions : parent[o] = r <=> o \in Range(slots[r])
      BY <1>1 DEF TreeLinks
    <3>2. p \in Compositions /\ o \in Range(s) => \A r \in Compositions : parent[o] # r
      <4>1. \A r \in Compositions : Range(slots[r]) \subseteq Live
        BY <1>1, <1>5 DEF NoDangling, Held
      <4>2. QED BY <3>1, <4>1, <1>4
    <3>3. p \in Compositions => parent[o] # p
      <4>1. slots[p] = <<>>
        BY <1>1 DEF Emptied, Build, Unborn
      <4>2. QED BY <3>1, <4>1, EmptyRange
    <3>4. QED BY <1>3, <1>5, <1>7, <3>1, <3>2, <3>3
  <2>2. \A q \in Compositions : IsInjective(slots'[q])
    BY <1>1, <1>3, <1>5 DEF TreeLinks
  <2>3. QED BY <2>1, <2>2 DEF TreeLinks
<1>9. TypeOK'
  <2>1. life' \in [Objects -> {"unborn", "live", "freed"}]
    BY <1>1 DEF TypeOK, Build
  <2>2. slots' \in [Objects -> Seq(Objects)] /\ meta' \in [Objects -> Seq(Objects)]
    BY <1>2
  <2>3. \A q \in Objects : Range(slots'[q]) \subseteq MayHold(q)
    BY <1>1, <1>3 DEF TypeOK
  <2>4. \A t \in Timelines \cap Live' : Len(slots'[t]) = 1
    <3>1. \A t \in Timelines \cap Live' : t = p \/ t \in Timelines \cap Live
      BY <1>4
    <3>2. QED BY <3>1, <1>1, <1>3 DEF TypeOK, Live
  <2>5. parent' \in [Objects -> Compositions \cup {NoObject}]
    <3>1. parent' = [o \in Objects |-> parent'[o]]
      BY DEF Build
    <3>2. \A o \in Objects : parent'[o] \in Compositions \cup {NoObject}
      BY <1>1, <1>7 DEF TypeOK
    <3>3. QED BY <3>1, <3>2
  <2>6. /\ handle' \in [Handles -> Objects \cup {NoObject}]
        /\ rstate' \in [Handles -> {"free", "held", "garbage"}]
        /\ \A g \in Handles : rstate'[g] = "free" => handle'[g] = NoObject
    BY <1>1, <1>2 DEF TypeOK
  <2>7. /\ InCall' => rstate'[call'.arg] = "held"
        /\ \A g \in call'.out : rstate'[g] = "held"
        /\ ~InCall' => call' = Idle
    BY <1>1, <1>2 DEF TypeOK, InCall
  <2>8. call' \in [arg : Handles \cup {NoHandle}, todo : Seq(Objects),
                   kept : SUBSET Objects, out : SUBSET Handles]
    BY <1>1, <1>2 DEF TypeOK
  <2>9. QED BY <2>1, <2>2, <2>3, <2>4, <2>5, <2>6, <2>7, <2>8, <1>6 DEF TypeOK
<1>10. NoDangling'
  <2>1. \A g \in Handles : handle'[g] \in Live' \cup {NoObject}
    BY <1>1, <1>2, <1>4 DEF NoDangling, TypeOK
  <2>2. \A q \in Objects : Range(slots'[q]) \subseteq Live' /\ Range(meta'[q]) \subseteq Live'
    BY <1>1, <1>3, <1>4 DEF NoDangling, Held
  <2>3. \A o \in Objects : parent'[o] \in Live' \cup {NoObject}
    BY <1>1, <1>4, <1>7 DEF NoDangling
  <2>4. QED BY <2>1, <2>2, <2>3, <1>1, <1>2, <1>4 DEF NoDangling, Held
<1>11. Emptied'
  <2>1. ASSUME NEW o \in Objects, life'[o] # "live" PROVE slots'[o] = <<>> /\ meta'[o] = <<>>
    <3>1. life[o] # "live" /\ o # p
      BY <2>1 DEF Build
    <3>2. QED BY <3>1, <1>1, <1>3 DEF Emptied
  <2>2. QED BY <2>1 DEF Emptied
<1>12. Anchored'
  <2>1. InCall => Reentrant
    BY DEF Build, RCodeRuns
  <2>2. InCall => handle'[call.arg] = handle[call.arg]
    BY <1>1, <1>2 DEF TypeOK, InCall
  <2>3. QED BY <2>1, <2>2, <1>1, <1>2 DEF Anchored, InCall
<1>13. QED BY <1>6, <1>8, <1>9, <1>10, <1>11, <1>12 DEF IInv

LEMMA WrapCounts ==
    ASSUME IInv, NEW h \in Handles, NEW o \in Objects, rstate[h] = "free",
           Wrap(h, o), refs' = [refs EXCEPT ![o] = @ + 1], slots' = slots, meta' = meta,
           call'.kept = call.kept
    PROVE  CountExact' /\ FiniteUses' /\ refs' \in [Objects -> Nat]
<1>1. /\ handle \in [Handles -> Objects \cup {NoObject}] /\ handle[h] = NoObject
      /\ refs \in [Objects -> Nat]
  BY DEF IInv, TypeOK
<1>2. handle' = [handle EXCEPT ![h] = o]
  BY DEF Wrap
<1>3. ASSUME NEW q \in Objects
      PROVE  /\ FinitelyUsed(q)'
             /\ refs'[q] = Cardinality(HandlesOn(q)') + Uses(q)'
                            + (IF q \in call'.kept THEN 1 ELSE 0)
  <2>1. Uses(q)' = Uses(q) /\ FinitelyUsed(q)' = FinitelyUsed(q)
    BY DEF Uses, FinitelyUsed, Occurrences
  <2>2. refs[q] = Cardinality(HandlesOn(q)) + Uses(q)
                  + (IF q \in call.kept THEN 1 ELSE 0)
    BY DEF IInv, CountExact
  <2>3. q # NoObject
    BY PoolAssumption
  <2>4. Cardinality(HandlesOn(q)') = Cardinality(HandlesOn(q)) + IF q = o THEN 1 ELSE 0
    <3>1. /\ HandlesOn(q)' = HandlesFor(handle', q)
          /\ HandlesOn(q) = HandlesFor(handle, q)
      BY DEF HandlesOn, HandlesFor
    <3>2. \A k \in Handles \ {h} : handle'[k] = handle[k]
      BY <1>1, <1>2
    <3>6. handle'[h] = o
      BY <1>1, <1>2
    <3>3. Cardinality(HandlesFor(handle', q))
             = Cardinality(HandlesFor(handle, q))
               + IsOn(handle', h, q) - IsOn(handle, h, q)
      BY <3>2, HandleCountChange
    <3>4. Cardinality(HandlesFor(handle, q)) \in Nat
      BY <3>1, CountsAreNat
    <3>7. QED BY <1>1, <2>3, <3>1, <3>3, <3>4, <3>6 DEF IsOn
  <2>5. /\ Cardinality(HandlesOn(q)) \in Nat /\ Uses(q) \in Nat
        /\ FinitelyUsed(q)
    BY CountsAreNat
  <2>6. refs'[q] = refs[q] + IF q = o THEN 1 ELSE 0
    BY <1>1
  <2>7. QED BY <2>1, <2>2, <2>4, <2>5, <2>6
<1>4. QED BY <1>1, <1>3 DEF CountExact, FiniteUses, FinitelyUsed

(* Steps that leave the objects and their links alone.                     *)
LEMMA SameTree ==
    ASSUME IInv, UNCHANGED <<life, slots, meta, parent>>
    PROVE  /\ TreeLinks' /\ Emptied' /\ Live' = Live
           /\ life' \in [Objects -> {"unborn", "live", "freed"}]
           /\ slots' \in [Objects -> Seq(Objects)]
           /\ \A p \in Objects : Range(slots'[p]) \subseteq MayHold(p)
           /\ \A t \in Timelines \cap Live' : Len(slots'[t]) = 1
           /\ parent' \in [Objects -> Compositions \cup {NoObject}]
           /\ meta' \in [Objects -> Seq(Objects)]
           /\ \A p \in Objects : Held(p)' \subseteq Live'
           /\ \A o \in Objects : parent'[o] \in Live' \cup {NoObject}
<1>1. Live' = Live
  BY DEF Live
<1>2. TypeOK /\ TreeLinks /\ NoDangling /\ Emptied
  BY DEF IInv
<1>3. TreeLinks' /\ Emptied'
  BY <1>2 DEF TreeLinks, Emptied
<1>4. \A t \in Timelines \cap Live' : Len(slots'[t]) = 1
  BY <1>1, <1>2 DEF TypeOK
<1>5. \A p \in Objects : Held(p)' \subseteq Live'
  BY <1>1, <1>2 DEF NoDangling, Held
<1>6. QED BY <1>1, <1>2, <1>3, <1>4, <1>5 DEF TypeOK, NoDangling

LEMMA FetchStep ==
    ASSUME IInv, NEW h \in Handles, NEW o \in Live, Fetch(h, o)
    PROVE  IInv'
<1>1. /\ o \in Objects /\ rstate[h] = "free" /\ Wrap(h, o)
      /\ refs' = [refs EXCEPT ![o] = @ + 1] /\ UNCHANGED <<life, slots, meta, parent, call>>
  BY DEF Live, Fetch, Spare, FreeHandles
<1>2. CountExact' /\ FiniteUses' /\ refs' \in [Objects -> Nat]
  BY <1>1, WrapCounts
<1>3. TypeOK /\ NoDangling /\ Anchored
  BY DEF IInv
<1>4. handle' = [handle EXCEPT ![h] = o] /\ rstate' = [rstate EXCEPT ![h] = "held"]
  BY <1>1 DEF Wrap
<1>5. TypeOK'
  <2>1. /\ handle' \in [Handles -> Objects \cup {NoObject}]
        /\ rstate' \in [Handles -> {"free", "held", "garbage"}]
        /\ \A g \in Handles : rstate'[g] = "free" => handle'[g] = NoObject
    BY <1>1, <1>3, <1>4 DEF TypeOK
  <2>2. /\ InCall' => rstate'[call'.arg] = "held"
        /\ \A g \in call'.out : rstate'[g] = "held"
        /\ ~InCall' => call' = Idle
        /\ call' \in [arg : Handles \cup {NoHandle}, todo : Seq(Objects),
                      kept : SUBSET Objects, out : SUBSET Handles]
    BY <1>1, <1>3, <1>4 DEF TypeOK, InCall
  <2>3. QED BY <2>1, <2>2, <1>1, <1>2, SameTree DEF TypeOK
<1>6. NoDangling'
  <2>1. \A g \in Handles : handle'[g] \in Live' \cup {NoObject}
    BY <1>1, <1>3, <1>4, SameTree DEF NoDangling, TypeOK
  <2>2. QED BY <2>1, <1>1, <1>3, SameTree DEF NoDangling
<1>7. Anchored'
  <2>1. InCall => Reentrant
    BY DEF Fetch, RCodeRuns
  <2>2. InCall => handle'[call.arg] = handle[call.arg]
    BY <1>1, <1>3, <1>4 DEF TypeOK, InCall
  <2>3. QED BY <2>1, <2>2, <1>1, <1>3 DEF Anchored, InCall
<1>8. QED BY <1>1, <1>2, <1>5, <1>6, <1>7, SameTree DEF IInv

-----------------------------------------------------------------------------
(* Calls that build a list.                                                *)

(* The Retainers of a call's own frame come and go.                        *)
LEMMA KeptCounts ==
    ASSUME IInv, UNCHANGED <<slots, meta, handle>>,
           call'.kept = {} \/ call.kept = {},
           \A o \in Objects : refs'[o] = refs[o] + (IF o \in call'.kept THEN 1 ELSE 0)
                                                 - (IF o \in call.kept THEN 1 ELSE 0),
           DOMAIN refs' = Objects, refs' = [o \in Objects |-> refs'[o]]
    PROVE  CountExact' /\ FiniteUses' /\ refs' \in [Objects -> Nat]
<1>1. ASSUME NEW o \in Objects
      PROVE  /\ FinitelyUsed(o)'
             /\ refs'[o] = Cardinality(HandlesOn(o)') + Uses(o)'
                            + (IF o \in call'.kept THEN 1 ELSE 0)
             /\ refs'[o] \in Nat
  <2>1. HandlesOn(o)' = HandlesOn(o) /\ Uses(o)' = Uses(o)
        /\ FinitelyUsed(o)' = FinitelyUsed(o)
    BY DEF HandlesOn, Uses, FinitelyUsed, Occurrences
  <2>2. refs[o] = Cardinality(HandlesOn(o)) + Uses(o)
                  + (IF o \in call.kept THEN 1 ELSE 0)
    BY DEF IInv, CountExact
  <2>3. /\ Cardinality(HandlesOn(o)) \in Nat /\ Uses(o) \in Nat
        /\ FinitelyUsed(o)
    BY CountsAreNat
  <2>4. QED BY <2>1, <2>2, <2>3
<1>2. QED BY <1>1 DEF CountExact, FiniteUses, FinitelyUsed

LEMMA ListingStep ==
    ASSUME IInv, NEW x \in Handles, NEW todo \in Seq(Objects), NEW kept \in SUBSET Live,
           handle[x] \in Objects, Listing(x, todo, kept),
           \A o \in Range(todo) :
              IF kept # {} THEN o \in kept
              ELSE \E p \in {handle[x]} \cup Range(slots[handle[x]]) : o \in Held(p)
    PROVE  IInv'
<1>1. TypeOK /\ NoDangling /\ x # NoHandle
  BY PoolAssumption DEF IInv
<1>2. /\ ~InCall /\ call = Idle /\ call.kept = {} /\ rstate[x] = "held"
      /\ UNCHANGED <<life, slots, meta, parent, handle, rstate>>
      /\ call' = [arg |-> x, todo |-> todo, kept |-> kept, out |-> {}]
  BY <1>1 DEF Listing, TypeOK, Idle
<1>3. CountExact' /\ FiniteUses' /\ refs' \in [Objects -> Nat]
  <2>1. refs \in [Objects -> Nat]
    BY <1>1 DEF TypeOK
  <2>2. \A o \in Objects : refs'[o] = refs[o] + (IF o \in call'.kept THEN 1 ELSE 0)
                                             - (IF o \in call.kept THEN 1 ELSE 0)
    BY <2>1, <1>2 DEF Listing
  <2>3. DOMAIN refs' = Objects /\ refs' = [o \in Objects |-> refs'[o]]
    BY DEF Listing
  <2>4. QED BY <2>2, <2>3, <1>2, KeptCounts
<1>4. TypeOK'
  <2>1. kept \in SUBSET Objects
    BY DEF Live
  <2>2. /\ call' \in [arg : Handles \cup {NoHandle}, todo : Seq(Objects),
                      kept : SUBSET Objects, out : SUBSET Handles]
        /\ InCall' /\ rstate'[call'.arg] = "held" /\ call'.out = {}
    BY <2>1, <1>1, <1>2 DEF InCall
  <2>3. QED BY <2>2, <1>1, <1>2, <1>3, SameTree DEF TypeOK
<1>5. NoDangling'
  BY <1>1, <1>2, SameTree DEF NoDangling
<1>6. Anchored'
  BY <1>2 DEF Anchored, Held
<1>7. QED BY <1>2, <1>3, <1>4, <1>5, <1>6, SameTree DEF IInv

LEMMA WrapNextStep ==
    ASSUME IInv, NEW h \in Handles, WrapNext(h)
    PROVE  IInv'
<1> DEFINE o == Head(call.todo)
<1>1. TypeOK /\ NoDangling /\ Anchored
  BY DEF IInv
<1>2. /\ InCall /\ call.todo # <<>> /\ call.todo \in Seq(Objects) /\ rstate[h] = "free"
      /\ UNCHANGED <<life, slots, meta, parent>> /\ Wrap(h, o)
      /\ refs' = [refs EXCEPT ![o] = @ + 1]
  BY <1>1 DEF WrapNext, FreeHandles, TypeOK
<1>3. /\ call'.arg = call.arg /\ call'.kept = call.kept
      /\ call'.todo = Tail(call.todo) /\ call'.out = call.out \cup {h}
      /\ call' = [arg |-> call.arg, todo |-> Tail(call.todo),
                  kept |-> call.kept, out |-> call.out \cup {h}]
  BY <1>1 DEF WrapNext, TypeOK
<1>4. /\ o \in Range(call.todo) /\ Tail(call.todo) \in Seq(Objects)
      /\ Range(Tail(call.todo)) \subseteq Range(call.todo)
      /\ Range(call.todo) \subseteq Objects
  BY <1>2, TailRange, RangeSubset
<1>5. o \in Live
  BY <1>4 DEF WrapNext, Live
<1> HIDE DEF o
<1>6. CountExact' /\ FiniteUses' /\ refs' \in [Objects -> Nat]
  BY <1>2, <1>3, <1>4, WrapCounts
<1>7. handle' = [handle EXCEPT ![h] = o] /\ rstate' = [rstate EXCEPT ![h] = "held"]
  BY <1>2 DEF Wrap
<1>8. TypeOK'
  <2>1. /\ handle' \in [Handles -> Objects \cup {NoObject}]
        /\ rstate' \in [Handles -> {"free", "held", "garbage"}]
        /\ \A g \in Handles : rstate'[g] = "free" => handle'[g] = NoObject
    BY <1>1, <1>4, <1>7 DEF TypeOK
  <2>2. call' \in [arg : Handles \cup {NoHandle}, todo : Seq(Objects),
                   kept : SUBSET Objects, out : SUBSET Handles]
    BY <1>1, <1>3, <1>4 DEF TypeOK
  <2>3. InCall' /\ rstate'[call'.arg] = "held" /\ \A g \in call'.out : rstate'[g] = "held"
    BY <1>1, <1>2, <1>3, <1>7 DEF TypeOK, InCall
  <2>4. QED BY <2>1, <2>2, <2>3, <1>2, <1>6, SameTree DEF TypeOK
<1>9. NoDangling'
  <2>1. \A g \in Handles : handle'[g] \in Live' \cup {NoObject}
    BY <1>1, <1>2, <1>5, <1>7, SameTree DEF NoDangling, TypeOK
  <2>2. QED BY <2>1, <1>1, <1>2, <1>3, SameTree DEF NoDangling
<1>10. Anchored'
  <2>1. handle'[call.arg] = handle[call.arg]
    BY <1>1, <1>2, <1>7 DEF TypeOK, InCall
  <2>2. QED BY <2>1, <1>1, <1>2, <1>3, <1>4 DEF Anchored, Held
<1>11. QED BY <1>2, <1>6, <1>8, <1>9, <1>10, SameTree DEF IInv

LEMMA EndCallStep ==
    ASSUME IInv, EndCall
    PROVE  IInv'
<1>1. TypeOK /\ NoDangling
  BY DEF IInv
<1>2. /\ UNCHANGED <<life, slots, meta, parent, handle, rstate>> /\ call' = Idle
      /\ call'.kept = {} /\ call'.out = {} /\ call'.arg = NoHandle
  BY DEF EndCall, Idle
<1>3. CountExact' /\ FiniteUses' /\ refs' \in [Objects -> Nat]
  <2>1. refs \in [Objects -> Nat]
    BY <1>1 DEF TypeOK
  <2>2. \A o \in Objects : refs'[o] = refs[o] + (IF o \in call'.kept THEN 1 ELSE 0)
                                             - (IF o \in call.kept THEN 1 ELSE 0)
    BY <2>1, <1>2 DEF EndCall
  <2>3. DOMAIN refs' = Objects /\ refs' = [o \in Objects |-> refs'[o]]
    BY DEF EndCall
  <2>4. QED BY <2>2, <2>3, <1>2, KeptCounts
<1>4. TypeOK'
  <2>1. Idle \in [arg : Handles \cup {NoHandle}, todo : Seq(Objects),
                  kept : SUBSET Objects, out : SUBSET Handles]
    BY EmptySeq DEF Idle
  <2>2. ~InCall'
    BY <1>2 DEF InCall
  <2>3. QED BY <2>1, <2>2, <1>1, <1>2, <1>3, SameTree DEF TypeOK
<1>5. NoDangling' /\ Anchored'
  BY <1>1, <1>2, SameTree DEF NoDangling, Anchored, InCall, Held
<1>6. QED BY <1>2, <1>3, <1>4, <1>5, SameTree DEF IInv

-----------------------------------------------------------------------------
(* Collection and destruction.                                             *)

LEMMA DropStep ==
    ASSUME IInv, NEW h \in Handles, Drop(h)
    PROVE  IInv'
<1>1. TypeOK /\ NoDangling /\ Anchored /\ CountExact /\ FiniteUses
  BY DEF IInv
<1>2. /\ UNCHANGED <<life, refs, slots, meta, parent, handle, call>>
      /\ rstate' = [rstate EXCEPT ![h] = "garbage"]
      /\ h # call.arg /\ h \notin call.out /\ (InCall => Reentrant)
  BY DEF Drop, RCodeRuns
<1>3. CountExact' /\ FiniteUses'
  <2>1. CountExact'
    BY <1>1, <1>2 DEF CountExact, HandlesOn, Uses, Occurrences
  <2>2. FiniteUses'
    BY <1>1, <1>2 DEF FiniteUses, Occurrences
  <2>3. QED BY <2>1, <2>2
<1>4. TypeOK'
  <2>1. /\ rstate' \in [Handles -> {"free", "held", "garbage"}]
        /\ \A g \in Handles : rstate'[g] = "free" => handle'[g] = NoObject
        /\ InCall' => rstate'[call'.arg] = "held"
        /\ \A g \in call'.out : rstate'[g] = "held"
    BY <1>1, <1>2 DEF TypeOK, InCall
  <2>2. QED BY <2>1, <1>1, <1>2, SameTree DEF TypeOK, InCall
<1>5. NoDangling' /\ Anchored'
  BY <1>1, <1>2, SameTree DEF NoDangling, Anchored, InCall, Held
<1>6. QED BY <1>2, <1>3, <1>4, <1>5, SameTree DEF IInv

LEMMA FinalizeStep ==
    ASSUME IInv, NEW h \in Handles, Finalize(h)
    PROVE  IInv'
<1>1. TypeOK /\ NoDangling /\ Anchored
  BY DEF IInv
<1>2. /\ UNCHANGED <<life, slots, meta, parent, call>> /\ rstate[h] = "garbage"
      /\ rstate' = [rstate EXCEPT ![h] = "free"]
      /\ handle' = [handle EXCEPT ![h] = NoObject]
      /\ handle \in [Handles -> Objects \cup {NoObject}]
  BY <1>1 DEF Finalize, TypeOK
<1>3. ASSUME NEW o \in Objects
      PROVE  /\ FinitelyUsed(o)'
             /\ refs'[o] = Cardinality(HandlesOn(o)') + Uses(o)'
                            + (IF o \in call'.kept THEN 1 ELSE 0)
             /\ refs'[o] \in Nat
  <2>1. Uses(o)' = Uses(o) /\ FinitelyUsed(o)' = FinitelyUsed(o)
    BY <1>2 DEF Uses, FinitelyUsed, Occurrences
  <2>2. refs[o] = Cardinality(HandlesOn(o)) + Uses(o)
                  + (IF o \in call.kept THEN 1 ELSE 0)
    BY DEF IInv, CountExact
  <2>3. /\ HandlesOn(o)' = HandlesFor(handle', o) /\ HandlesOn(o) = HandlesFor(handle, o)
    BY DEF HandlesOn, HandlesFor
  <2>4. \A k \in Handles \ {h} : handle'[k] = handle[k]
    BY <1>2
  <2>5. Cardinality(HandlesFor(handle', o))
          = Cardinality(HandlesFor(handle, o)) + IsOn(handle', h, o) - IsOn(handle, h, o)
    BY <2>4, HandleCountChange
  <2>6. IsOn(handle', h, o) = 0 /\ IsOn(handle, h, o) = IF handle[h] = o THEN 1 ELSE 0
    BY <1>2, PoolAssumption DEF IsOn
  <2>7. /\ Cardinality(HandlesOn(o)) \in Nat /\ Uses(o) \in Nat
        /\ FinitelyUsed(o)
    BY CountsAreNat
  <2>8. refs'[o] = refs[o] - IF handle[h] = o THEN 1 ELSE 0
    BY DEF Finalize
  <2>9. Cardinality(HandlesFor(handle', o)) \in Nat
    <3>1. IsFiniteSet(HandlesFor(handle', o))
      BY FS_Subset, PoolAssumption DEF HandlesFor
    <3>2. QED BY <3>1, FS_CardinalityType
  <2>10. (IF o \in call'.kept THEN 1 ELSE 0) = (IF o \in call.kept THEN 1 ELSE 0)
    BY <1>2
  <2>11. QED BY <2>1, <2>2, <2>3, <2>5, <2>6, <2>7, <2>8, <2>9, <2>10
<1>4. CountExact' /\ FiniteUses' /\ refs' \in [Objects -> Nat]
  <2>1. refs' = [o \in Objects |-> refs'[o]]
    BY DEF Finalize
  <2>2. QED BY <2>1, <1>3 DEF CountExact, FiniteUses, FinitelyUsed
<1>5. TypeOK'
  <2>1. /\ handle' \in [Handles -> Objects \cup {NoObject}]
        /\ rstate' \in [Handles -> {"free", "held", "garbage"}]
        /\ \A g \in Handles : rstate'[g] = "free" => handle'[g] = NoObject
    BY <1>1, <1>2 DEF TypeOK
  <2>2. InCall' => rstate'[call'.arg] = "held"
    BY <1>1, <1>2 DEF TypeOK, InCall
  <2>3. \A g \in call'.out : rstate'[g] = "held"
    BY <1>1, <1>2 DEF TypeOK
  <2>4. QED BY <2>1, <2>2, <2>3, <1>1, <1>2, <1>4, SameTree DEF TypeOK, InCall
<1>6. NoDangling'
  <2>1. \A g \in Handles : handle'[g] \in Live' \cup {NoObject}
    BY <1>1, <1>2, SameTree DEF NoDangling
  <2>2. QED BY <2>1, <1>1, <1>2, SameTree DEF NoDangling
<1>7. Anchored'
  <2>1. InCall => handle'[call.arg] = handle[call.arg]
    BY <1>1, <1>2 DEF TypeOK, InCall
  <2>2. QED BY <2>1, <1>1, <1>2 DEF Anchored, InCall, Held
<1>8. QED BY <1>2, <1>4, <1>6, <1>5, <1>7, SameTree DEF IInv

LEMMA DestroyStep ==
    ASSUME IInv, NEW o \in Objects, Destroy(o)
    PROVE  /\ IInv' /\ Live' = Live \ {o} /\ slots' = [slots EXCEPT ![o] = <<>>]
           /\ meta' = [meta EXCEPT ![o] = <<>>] /\ UNCHANGED <<handle, call>>
<1>1. TypeOK /\ TreeLinks /\ NoDangling /\ Emptied /\ Anchored
  BY DEF IInv
<1>2. /\ life[o] = "live" /\ refs[o] = 0 /\ life' = [life EXCEPT ![o] = "freed"]
      /\ Store(o, <<>>, <<>>) /\ UNCHANGED <<handle, rstate, call>>
  BY DEF Destroy
<1>3. /\ <<>> \in Seq(Objects) /\ Range(<<>>) = {} /\ IsInjective(<<>>)
  BY EmptyRange
<1>4. CountExact' /\ FiniteUses' /\ refs' \in [Objects -> Nat]
  BY <1>2, <1>3, StoreCounts
<1>5. TreeLinks' /\ parent' \in [Objects -> Compositions \cup {NoObject}]
  BY <1>2, <1>3, StoreLinks
<1>6. /\ \A h \in Handles : handle[h] # o
      /\ \A p \in Objects : o \notin Held(p)
      /\ o \notin call.kept
  BY <1>2, ZeroMeansUnreferenced
<1>7. Live' = Live \ {o}
  BY <1>1, <1>2 DEF Live, TypeOK
<1>8. slots' = [slots EXCEPT ![o] = <<>>] /\ meta' = [meta EXCEPT ![o] = <<>>]
  BY <1>2 DEF Store
<1>9. \A p \in Objects : /\ slots'[p] = IF p = o THEN <<>> ELSE slots[p]
                        /\ meta'[p] = IF p = o THEN <<>> ELSE meta[p]
  BY <1>1, <1>8 DEF TypeOK
<1>10. TypeOK'
  <2>1. life' \in [Objects -> {"unborn", "live", "freed"}]
    BY <1>1, <1>2 DEF TypeOK
  <2>2. slots' \in [Objects -> Seq(Objects)] /\ meta' \in [Objects -> Seq(Objects)]
    BY <1>1, <1>3, <1>8 DEF TypeOK
  <2>3. \A p \in Objects : Range(slots'[p]) \subseteq MayHold(p)
    BY <1>1, <1>3, <1>9 DEF TypeOK
  <2>4. \A t \in Timelines \cap Live' : Len(slots'[t]) = 1
    BY <1>1, <1>7, <1>9 DEF TypeOK, Live
  <2>5. QED BY <2>1, <2>2, <2>3, <2>4, <1>1, <1>2, <1>4, <1>5 DEF TypeOK, InCall
<1>11. NoDangling'
  <2>1. \A p \in Objects : Held(p)' \subseteq Live'
    BY <1>1, <1>3, <1>6, <1>7, <1>9 DEF NoDangling, Held
  <2>2. ASSUME NEW c \in Objects PROVE parent'[c] \in Live' \cup {NoObject}
    <3>1. parent'[c] = NoObject \/ parent'[c] = parent[c] \/ parent'[c] = o
      BY <1>2 DEF Store
    <3>2. parent'[c] # o
      <4>1. CASE o \in Compositions
        <5>1. parent'[c] = o <=> c \in Range(slots'[o])
          BY <1>5, <4>1 DEF TreeLinks
        <5>2. QED BY <5>1, <1>3, <1>9
      <4>2. CASE o \notin Compositions
        BY <4>2, <1>5, PoolAssumption
      <4>3. QED BY <4>1, <4>2
    <3>3. QED BY <3>1, <3>2, <1>1, <1>7 DEF NoDangling
  <2>3. QED BY <2>1, <2>2, <1>1, <1>2, <1>6, <1>7 DEF NoDangling
<1>12. Emptied'
  BY <1>1, <1>2, <1>9 DEF Emptied, TypeOK
<1>13. Anchored'
  <2>1. SUFFICES ASSUME InCall PROVE
           /\ handle[call.arg] \in Objects
           /\ \A x \in Range(call.todo) :
                 IF call.kept # {} THEN x \in call.kept
                 ELSE Reentrant \/ \E p \in {handle[call.arg]} \cup Range(slots'[handle[call.arg]]) :
                                       x \in Held(p)'
    BY <1>2 DEF Anchored, InCall
  <2>2. handle[call.arg] \in Objects /\ handle[call.arg] # o
    BY <2>1, <1>1, <1>6 DEF Anchored, TypeOK, InCall
  <2>3. slots'[handle[call.arg]] = slots[handle[call.arg]]
    BY <2>2, <1>9
  <2>4. \A p \in {handle[call.arg]} \cup Range(slots[handle[call.arg]]) : Held(p)' = Held(p)
    BY <2>2, <1>1, <1>6, <1>9 DEF NoDangling, Live, Held
  <2>5. QED BY <2>1, <2>3, <2>4, <1>1 DEF Anchored
<1>14. QED BY <1>2, <1>4, <1>5, <1>7, <1>8, <1>10, <1>11, <1>12, <1>13 DEF IInv

LEMMA RestartStep ==
    ASSUME IInv, NEW S \in SUBSET Handles, Restart(S)
    PROVE  IInv' /\ Live' = {}
<1>1. TypeOK
  BY DEF IInv
<1>2. /\ \A o \in Objects : /\ refs'[o] = 0 /\ slots'[o] = <<>> /\ meta'[o] = <<>>
                            /\ parent'[o] = NoObject
                            /\ life'[o] \in {"unborn", "freed"}
      /\ \A h \in Handles : handle'[h] = NoObject
      /\ call' = Idle
  BY <1>1 DEF Restart, TypeOK
<1>3. Live' = {}
  BY <1>2 DEF Live
<1>4. TypeOK'
  <2>1. /\ life' \in [Objects -> {"unborn", "live", "freed"}]
        /\ refs' \in [Objects -> Nat]
        /\ parent' \in [Objects -> Compositions \cup {NoObject}]
        /\ handle' \in [Handles -> Objects \cup {NoObject}]
        /\ rstate' \in [Handles -> {"free", "held", "garbage"}]
    BY <1>1 DEF Restart, TypeOK
  <2>2. slots' \in [Objects -> Seq(Objects)] /\ meta' \in [Objects -> Seq(Objects)]
    BY EmptySeq DEF Restart
  <2>3. \A p \in Objects : Range(slots'[p]) \subseteq MayHold(p)
    BY <1>2, EmptyRange
  <2>4. /\ Idle \in [arg : Handles \cup {NoHandle}, todo : Seq(Objects),
                     kept : SUBSET Objects, out : SUBSET Handles]
        /\ ~InCall' /\ call'.out = {}
    BY <1>2, EmptySeq DEF Idle, InCall
  <2>5. QED BY <2>1, <2>2, <2>3, <2>4, <1>2, <1>3 DEF TypeOK
<1>5. \A o \in Objects : /\ Occurrences(slots, o)' = {} /\ Occurrences(meta, o)' = {}
                        /\ HandlesOn(o)' = {}
  BY <1>2, PoolAssumption DEF Occurrences, HandlesOn
<1>6. CountExact' /\ FiniteUses'
  <2>1. \A o \in Objects : /\ Cardinality(HandlesOn(o)') = 0
                          /\ Uses(o)' = 0 /\ FinitelyUsed(o)'
    BY <1>5, FS_EmptySet DEF Uses, FinitelyUsed
  <2>2. call'.kept = {}
    BY <1>2 DEF Idle
  <2>3. QED BY <1>2, <2>1, <2>2 DEF CountExact, FiniteUses, FinitelyUsed
<1>7. TreeLinks'
  BY <1>2, EmptyRange, PoolAssumption DEF TreeLinks, Compositions, Composables, Objects
<1>8. NoDangling' /\ Emptied' /\ Anchored'
  BY <1>2, EmptyRange DEF NoDangling, Emptied, Anchored, InCall, Idle, Held
<1>9. QED BY <1>3, <1>4, <1>6, <1>7, <1>8 DEF IInv

-----------------------------------------------------------------------------
(* Each call is one of the shapes above.                                   *)

LEMMA Pools ==
    /\ Stacks \subseteq Objects /\ Tracks \subseteq Objects /\ Clips \subseteq Objects
    /\ Media \subseteq Objects /\ Timelines \subseteq Objects /\ Collections \subseteq Objects
    /\ Compositions \subseteq Composables /\ Composables \subseteq Objects
    /\ Holders \subseteq Objects
    /\ \A p \in Compositions : MayHold(p) = Composables /\ p \notin Timelines
    /\ \A p \in Collections : MayHold(p) = Objects /\ p \notin Timelines \cup Compositions
    /\ \A p \in Timelines : MayHold(p) = Stacks /\ p \notin Compositions
    /\ \A p \in Clips : MayHold(p) = Media /\ p \notin Timelines \cup Compositions
    /\ \A p \in Media : p \notin Timelines \cup Compositions
BY PoolAssumption DEF MayHold, Compositions, Composables, Holders, Objects

LEMMA ArgLive ==
    ASSUME IInv, NEW h \in Handles, NEW T \in SUBSET Objects, Arg(h, T)
    PROVE  handle[h] \in Live /\ handle[h] \in T
BY PoolAssumption DEF IInv, NoDangling, Arg

LEMMA UpToSeq ==
    ASSUME NEW S, NEW n \in Nat, NEW s \in UpTo(S, n)
    PROVE  s \in Seq(S) /\ Range(s) \subseteq S /\ DOMAIN s = 1..Len(s)
<1>1. PICK k \in 0..n : s \in [1..k -> S]
  BY DEF UpTo
<1>2. k \in Nat
  OBVIOUS
<1>3. QED BY <1>1, <1>2, FunctionIsSeq

LEMMA ArgsLive ==
    ASSUME IInv, NEW n \in Nat, NEW gs \in UpTo(Handles, n), NEW T \in SUBSET Objects,
           Args(gs, T)
    PROVE  /\ Objs(gs) \in Seq(Objects) /\ Len(Objs(gs)) = Len(gs)
           /\ Range(Objs(gs)) \subseteq Live /\ Range(Objs(gs)) \subseteq T
<1> DEFINE s == [i \in DOMAIN gs |-> handle[gs[i]]]
<1>1. gs \in Seq(Handles) /\ DOMAIN gs = 1..Len(gs) /\ Len(gs) \in Nat
  BY UpToSeq, LenProperties
<1>2. \A i \in DOMAIN gs : gs[i] \in Handles
  BY <1>1, ElementOfSeq
<1>3. \A i \in DOMAIN gs : handle[gs[i]] \in Live /\ handle[gs[i]] \in T
  BY <1>2, ArgLive DEF Args
<1>4. s \in [1..Len(gs) -> Objects]
  BY <1>1, <1>3
<1>5. s \in Seq(Objects) /\ Len(s) = Len(gs)
  BY <1>1, <1>4, FunctionIsSeq
<1>6. Range(s) \subseteq Live /\ Range(s) \subseteq T
  BY <1>3 DEF Range
<1>7. QED BY <1>5, <1>6 DEF Objs

LEMMA MetadataLive ==
    ASSUME IInv, NEW p \in Objects, NEW gs \in Metadata(p)
    PROVE  Objs(gs) \in Seq(Objects) /\ Range(Objs(gs)) \subseteq Live
<1>1. MetaSize(p) \in Nat
  BY PoolAssumption DEF MetaSize
<1>2. gs \in UpTo(Handles, MetaSize(p)) /\ Args(gs, Objects)
  BY DEF Metadata
<1>3. QED BY <1>1, <1>2, ArgsLive

LEMMA ConstructStep ==
    ASSUME IInv, NEW h \in Handles, NEW p \in Objects, NEW s \in Seq(Objects),
           NEW fresh \in SUBSET Objects, Construct(h, p, s, fresh),
           fresh \cap Timelines = {},
           Range(s) \subseteq MayHold(p) /\ Range(s) \subseteq Live \cup fresh,
           p \in Timelines => Len(s) = 1,
           p \in Compositions => IsInjective(s) /\ Range(s) \subseteq fresh
    PROVE  IInv'
<1>1. PICK gs \in Metadata(p) : Build(h, p, s, Objs(gs), fresh)
  BY DEF Construct
<1> DEFINE m == Objs(gs)
<1>2. m \in Seq(Objects) /\ Range(m) \subseteq Live \cup fresh
  BY MetadataLive
<1>3. Build(h, p, s, m, fresh)
  BY <1>1
<1> HIDE DEF m
<1>4. QED BY <1>2, <1>3, BuildStep

(* The first of two injective parts is injective.                          *)
LEMMA InjectivePart ==
    ASSUME NEW s \in Seq(Objects), NEW m \in Seq(Objects), IsInjective(s \o m)
    PROVE  IsInjective(s)
<1>1. /\ DOMAIN s = 1..Len(s) /\ Len(s) \in Nat /\ Len(m) \in Nat
      /\ DOMAIN (s \o m) = 1..(Len(s) + Len(m))
      /\ \A i \in 1..Len(s) : (s \o m)[i] = s[i]
  BY LenProperties, ConcatProperties
<1> DEFINE c == s \o m
<1>2. \A i, j \in DOMAIN c : c[i] = c[j] => i = j
  BY DEF IsInjective
<1>3. \A i \in DOMAIN s : i \in DOMAIN c /\ c[i] = s[i]
  BY <1>1
<1> HIDE DEF c
<1>4. QED BY <1>2, <1>3 DEF IsInjective

LEMMA CreateStep ==
    ASSUME IInv, NEW h \in Handles, NEW p \in Objects,
           \/ New(h, p)
           \/ NewClip(h, p)
           \/ \E k \in Stacks : NewTimeline(h, p, k)
           \/ \E gs \in HandleLists : NewCollection(h, p, gs)
           \/ \E s \in ObjectLists, m \in UpTo(Objects, MetaSize(p)) : NewTree(h, p, s, m)
           \/ \E x \in Handles : Clone(h, x, p) \/ NewTrack(h, x, p)
    PROVE  IInv'
<1>1. <<>> \in Seq(Objects) /\ Range(<<>>) = {} /\ IsInjective(<<>>)
  BY EmptyRange
<1>2. CASE New(h, p)
  BY <1>1, <1>2, ConstructStep, Pools DEF New
<1>3. ASSUME NewClip(h, p) PROVE IInv'
  <2>1. p \in Clips /\ p \notin Timelines \cup Compositions /\ MayHold(p) = Media
    BY <1>3, Pools DEF NewClip
  <2>2. CASE Construct(h, p, <<>>, {})
    BY <1>1, <2>1, <2>2, ConstructStep
  <2>3. ASSUME NEW g \in Handles, Arg(g, Media), Construct(h, p, <<handle[g]>>, {})
        PROVE  IInv'
    <3>1. handle[g] \in Live /\ handle[g] \in Media /\ handle[g] \in Objects
      BY <2>3, ArgLive, Pools
    <3> DEFINE s == <<handle[g]>>
    <3>2. s \in Seq(Objects) /\ Range(s) = {handle[g]}
      BY <3>1, SingleRange
    <3>3. Construct(h, p, s, {}) /\ Range(s) \subseteq Live /\ Range(s) \subseteq MayHold(p)
      BY <2>1, <2>3, <3>1, <3>2
    <3> HIDE DEF s
    <3>4. QED BY <2>1, <3>2, <3>3, ConstructStep
  <2>4. ASSUME NEW m \in Media, Construct(h, p, <<m>>, {m}) PROVE IInv'
    <3> DEFINE fresh == {m}
               s == <<m>>
    <3>1. m \in Objects /\ m \notin Timelines
      BY Pools
    <3>2. s \in Seq(Objects) /\ Range(s) = {m}
      BY <3>1, SingleRange
    <3>3. /\ fresh \in SUBSET Objects /\ fresh \cap Timelines = {}
          /\ Construct(h, p, s, fresh) /\ Range(s) \subseteq fresh
          /\ Range(s) \subseteq MayHold(p)
      BY <2>1, <2>4, <3>1, <3>2
    <3> HIDE DEF fresh, s
    <3>4. QED BY <2>1, <3>2, <3>3, ConstructStep
  <2>5. QED BY <1>3, <2>2, <2>3, <2>4 DEF NewClip
<1>4. ASSUME NEW k \in Stacks, NewTimeline(h, p, k) PROVE IInv'
  <2> DEFINE fresh == {k}
             s == <<k>>
  <2>1. /\ p \in Timelines /\ p \notin Compositions /\ MayHold(p) = Stacks
        /\ k \in Objects /\ k \notin Timelines /\ Construct(h, p, s, fresh)
    BY <1>4, Pools DEF NewTimeline, Compositions
  <2>2. s \in Seq(Objects) /\ Range(s) = {k} /\ Len(s) = 1
    BY <2>1, SingleRange
  <2>3. /\ fresh \in SUBSET Objects /\ fresh \cap Timelines = {}
        /\ Range(s) \subseteq fresh /\ Range(s) \subseteq MayHold(p)
    BY <2>1, <2>2
  <2> HIDE DEF fresh, s
  <2>4. QED BY <2>1, <2>2, <2>3, ConstructStep
<1>5. ASSUME NEW gs \in HandleLists, NewCollection(h, p, gs) PROVE IInv'
  <2> DEFINE s == Objs(gs)
  <2>1. /\ p \notin Timelines \cup Compositions /\ MayHold(p) = Objects
        /\ Args(gs, Objects) /\ Construct(h, p, s, {})
    BY <1>5, Pools DEF NewCollection
  <2>2. s \in Seq(Objects) /\ Range(s) \subseteq Live /\ Range(s) \subseteq Objects
    BY <2>1, ArgsLive, PoolAssumption DEF HandleLists
  <2> HIDE DEF s
  <2>3. QED BY <2>1, <2>2, ConstructStep
<1>6. ASSUME NEW s \in ObjectLists, NEW m \in UpTo(Objects, MetaSize(p)),
             NewTree(h, p, s, m)
      PROVE  IInv'
  <2> DEFINE fresh == Range(s) \cup Range(m)
  <2>1. MaxChildren \in Nat /\ MetaSize(p) \in Nat
    BY PoolAssumption DEF MetaSize
  <2>2. s \in Seq(Objects) /\ m \in Seq(Objects) /\ fresh \in SUBSET Objects
    BY <2>1, UpToSeq DEF ObjectLists
  <2>3. /\ Range(s) \subseteq MayHold(p) /\ fresh \cap Timelines = {}
        /\ (p \in Timelines => Len(s) = 1) /\ IsInjective(s \o m)
        /\ Build(h, p, s, m, fresh)
    BY <1>6 DEF NewTree
  <2>4. IsInjective(s)
    BY <2>2, <2>3, InjectivePart
  <2>5. Range(s) \subseteq fresh /\ Range(m) \subseteq fresh
    OBVIOUS
  <2> HIDE DEF fresh
  <2>6. QED BY <2>2, <2>3, <2>4, <2>5, BuildStep
<1>7. ASSUME NEW x \in Handles, Clone(h, x, p) \/ NewTrack(h, x, p) PROVE IInv'
  <2>1. PICK s \in ObjectLists, m \in UpTo(Objects, MetaSize(p)) : NewTree(h, p, s, m)
    BY <1>7 DEF Clone, NewTrack
  <2>2. QED BY <1>6, <2>1
<1>8. QED BY <1>2, <1>3, <1>4, <1>5, <1>6, <1>7

LEMMA AccessStep ==
    ASSUME IInv, NEW h \in Handles, NEW x \in Handles,
           FetchParent(h, x) \/ FetchMember(h, x)
    PROVE  IInv'
<1>1. CASE FetchParent(h, x)
  <2>1. Arg(x, Composables) /\ parent[handle[x]] # NoObject
        /\ Fetch(h, parent[handle[x]])
    BY <1>1 DEF FetchParent
  <2>2. handle[x] \in Objects
    BY <2>1, ArgLive, Pools
  <2>3. parent[handle[x]] \in Live
    BY <2>1, <2>2 DEF IInv, NoDangling
  <2>4. QED BY <2>1, <2>3, FetchStep
<1>2. CASE FetchMember(h, x)
  <2>1. Arg(x, Timelines \cup Clips)
    BY <1>2 DEF FetchMember
  <2>2. PICK o \in Range(slots[handle[x]]) : Fetch(h, o)
    BY <1>2 DEF FetchMember
  <2>3. handle[x] \in Objects
    BY <2>1, ArgLive, Pools
  <2>4. o \in Live
    BY <2>3 DEF IInv, NoDangling, Held
  <2>5. QED BY <2>2, <2>4, FetchStep
<1>3. QED BY <1>1, <1>2

(* A holder's slots change by a call of R code on handle x.                *)
LEMMA RelinkStep ==
    ASSUME IInv, NEW p \in Live, NEW s \in Seq(Objects), Relink(p, s),
           Range(s) \subseteq MayHold(p) /\ Range(s) \subseteq Live,
           p \in Timelines => Len(s) = 1,
           p \in Compositions =>
              IsInjective(s) /\ \A o \in Range(s) : parent[o] \in {NoObject, p}
    PROVE  IInv'
<1> DEFINE fresh == {}
           m == meta[p]
<1>1. p \in Objects
  BY DEF Live
<1>2. m \in Seq(Objects) /\ Range(m) \subseteq Live
  BY <1>1 DEF IInv, TypeOK, NoDangling, Held
<1>3. /\ fresh \in SUBSET Objects /\ fresh \cap Timelines = {}
      /\ Rework(p, s, m, fresh)
      /\ Range(s) \subseteq Live \cup fresh /\ Range(m) \subseteq Live \cup fresh
  BY <1>2 DEF Relink
<1> HIDE DEF fresh, m
<1>4. QED BY <1>2, <1>3, StoreStep

LEMMA PlacesInside ==
    ASSUME NEW n \in Nat, NEW i
    PROVE  /\ InsertPlaces(i, n) \subseteq 1..(n + 1)
           /\ ItemPlaces(i, n) \subseteq 1..n
<1>1. InsertPlaces(i, n) \subseteq 1..(n + 1)
  <2>1. CASE i \in 0..n
    BY <2>1 DEF InsertPlaces
  <2>2. CASE i \notin 0..n
    BY <2>2 DEF InsertPlaces
  <2>3. QED BY <2>1, <2>2
<1>2. ItemPlaces(i, n) \subseteq 1..n
  <2>1. CASE i \in 0..(n - 1)
    BY <2>1 DEF ItemPlaces
  <2>2. CASE i \notin 0..(n - 1)
    BY <2>2 DEF ItemPlaces
  <2>3. QED BY <2>1, <2>2
<1>3. QED BY <1>1, <1>2

(* What may be put in a composition or a collection besides what is there. *)
LEMMA HolderMembers ==
    ASSUME IInv, NEW x \in Handles, Arg(x, Holders)
    PROVE  /\ handle[x] \in Live /\ handle[x] \in Holders /\ handle[x] \notin Timelines
           /\ slots[handle[x]] \in Seq(Objects) /\ Len(slots[handle[x]]) \in Nat
           /\ Range(slots[handle[x]]) \subseteq Live
           /\ Range(slots[handle[x]]) \subseteq MayHold(handle[x])
           /\ handle[x] \in Compositions =>
                 /\ IsInjective(slots[handle[x]])
                 /\ \A o \in Range(slots[handle[x]]) : parent[o] = handle[x]
           /\ \A o \in Live : MayAdopt(handle[x], o) =>
                 /\ o \in MayHold(handle[x])
                 /\ handle[x] \in Compositions =>
                       parent[o] = NoObject /\ o \notin Range(slots[handle[x]])
<1> DEFINE p == handle[x]
<1>1. p \in Live /\ p \in Holders /\ p \in Objects
  BY ArgLive, Pools
<1>2. p \in Compositions \/ p \in Collections
  BY <1>1 DEF Holders
<1>3. /\ p \notin Timelines /\ p # NoObject
      /\ p \in Compositions => MayHold(p) = Composables
      /\ p \notin Compositions => MayHold(p) = Objects
  BY <1>1, <1>2, Pools, PoolAssumption
<1>4. slots[p] \in Seq(Objects) /\ Len(slots[p]) \in Nat
  BY <1>1, LenProperties DEF IInv, TypeOK
<1>5. Range(slots[p]) \subseteq Live /\ Range(slots[p]) \subseteq MayHold(p)
  BY <1>1 DEF IInv, NoDangling, TypeOK, Held
<1>6. p \in Compositions =>
        /\ IsInjective(slots[p])
        /\ \A o \in Objects : parent[o] = p <=> o \in Range(slots[p])
  BY DEF IInv, TreeLinks
<1>7. \A o \in Live : o \in Objects
  BY DEF Live
<1> HIDE DEF p
<1>8. \A o \in Live : MayAdopt(p, o) =>
         /\ o \in MayHold(p)
         /\ p \in Compositions => parent[o] = NoObject /\ o \notin Range(slots[p])
  BY <1>3, <1>6, <1>7 DEF MayAdopt
<1>9. QED BY <1>1, <1>3, <1>4, <1>5, <1>6, <1>7, <1>8 DEF p

LEMMA AddedMember ==
    ASSUME IInv, NEW x \in Handles, NEW c \in Handles, Arg(x, Holders), Arg(c, Objects),
           MayAdopt(handle[x], handle[c]), NEW s \in Seq(Objects),
           Range(s) \subseteq Range(slots[handle[x]]) \cup {handle[c]},
           /\ IsInjective(slots[handle[x]]) /\ handle[c] \notin Range(slots[handle[x]])
           => IsInjective(s),
           Relink(handle[x], s)
    PROVE  IInv'
<1> DEFINE p == handle[x]
           o == handle[c]
<1>1. o \in Live
  BY ArgLive
<1>2. /\ p \in Live /\ p \notin Timelines
      /\ Range(slots[p]) \subseteq Live /\ Range(slots[p]) \subseteq MayHold(p)
      /\ o \in MayHold(p)
  BY <1>1, HolderMembers
<1>3. p \in Compositions =>
        /\ IsInjective(slots[p]) /\ parent[o] = NoObject /\ o \notin Range(slots[p])
        /\ \A q \in Range(slots[p]) : parent[q] = p
  BY <1>1, HolderMembers
<1>4. Range(s) \subseteq Live /\ Range(s) \subseteq MayHold(p)
  BY <1>1, <1>2
<1>5. p \in Compositions =>
        IsInjective(s) /\ \A q \in Range(s) : parent[q] \in {NoObject, p}
  BY <1>3
<1>6. Relink(p, s)
  OBVIOUS
<1> HIDE DEF p
<1>7. QED BY <1>2, <1>4, <1>5, <1>6, RelinkStep

LEMMA AppendChildStep ==
    ASSUME IInv, NEW x \in Handles, NEW c \in Handles, AppendChild(x, c)
    PROVE  IInv'
<1>1. Arg(x, Holders) /\ Arg(c, Objects)
  BY Pools DEF AppendChild, Arg, Holders
<1>2. /\ MayAdopt(handle[x], handle[c])
      /\ Relink(handle[x], Append(slots[handle[x]], handle[c]))
  BY DEF AppendChild
<1>3. handle[c] \in Objects /\ slots[handle[x]] \in Seq(Objects)
  BY <1>1, ArgLive, HolderMembers
<1> DEFINE s == Append(slots[handle[x]], handle[c])
<1>4. /\ s \in Seq(Objects) /\ Range(s) = Range(slots[handle[x]]) \cup {handle[c]}
      /\ IsInjective(slots[handle[x]]) /\ handle[c] \notin Range(slots[handle[x]])
         => IsInjective(s)
  BY <1>3, AppendRange
<1> HIDE DEF s
<1>5. Relink(handle[x], s)
  BY <1>2 DEF s
<1>6. QED BY <1>1, <1>2, <1>4, <1>5, AddedMember

LEMMA InsertChildStep ==
    ASSUME IInv, NEW x \in Handles, NEW c \in Handles, NEW i, InsertChild(x, i, c)
    PROVE  IInv'
<1>1. Arg(x, Holders) /\ Arg(c, Objects) /\ MayAdopt(handle[x], handle[c])
  BY DEF InsertChild
<1>2. PICK k \in InsertPlaces(ToOtioIndex(i), Len(slots[handle[x]])) :
         Relink(handle[x], InsertAt(slots[handle[x]], k, handle[c]))
  BY DEF InsertChild
<1>3. handle[c] \in Objects /\ slots[handle[x]] \in Seq(Objects)
      /\ Len(slots[handle[x]]) \in Nat
  BY <1>1, ArgLive, HolderMembers
<1>4. k \in 1..(Len(slots[handle[x]]) + 1)
  BY <1>2, <1>3, PlacesInside
<1> DEFINE s == InsertAt(slots[handle[x]], k, handle[c])
<1>5. /\ s \in Seq(Objects) /\ Range(s) = Range(slots[handle[x]]) \cup {handle[c]}
      /\ IsInjective(slots[handle[x]]) /\ handle[c] \notin Range(slots[handle[x]])
         => IsInjective(s)
  BY <1>3, <1>4, InsertRange
<1> HIDE DEF s
<1>6. Relink(handle[x], s)
  BY <1>2 DEF s
<1>7. QED BY <1>1, <1>5, <1>6, AddedMember

LEMMA SetChildStep ==
    ASSUME IInv, NEW x \in Handles, NEW c \in Handles, NEW i, SetChild(x, i, c)
    PROVE  IInv'
<1>1. Arg(x, Holders) /\ Arg(c, Objects) /\ MayAdopt(handle[x], handle[c])
  BY DEF SetChild
<1>2. PICK k \in ItemPlaces(ToOtioIndex(i), Len(slots[handle[x]])) :
         Relink(handle[x], ReplaceAt(slots[handle[x]], k, handle[c]))
  BY DEF SetChild
<1>3. handle[c] \in Objects /\ slots[handle[x]] \in Seq(Objects)
      /\ Len(slots[handle[x]]) \in Nat
  BY <1>1, ArgLive, HolderMembers
<1>4. k \in 1..Len(slots[handle[x]])
  BY <1>2, <1>3, PlacesInside
<1> DEFINE s == ReplaceAt(slots[handle[x]], k, handle[c])
<1>5. /\ s \in Seq(Objects) /\ Range(s) \subseteq Range(slots[handle[x]]) \cup {handle[c]}
      /\ IsInjective(slots[handle[x]]) /\ handle[c] \notin Range(slots[handle[x]])
         => IsInjective(s)
  BY <1>3, <1>4, ReplaceRange
<1> HIDE DEF s
<1>6. Relink(handle[x], s)
  BY <1>2 DEF s
<1>7. QED BY <1>1, <1>5, <1>6, AddedMember

LEMMA RemoveChildStep ==
    ASSUME IInv, NEW x \in Handles, NEW i, RemoveChild(x, i)
    PROVE  IInv'
<1> DEFINE p == handle[x]
<1>1. Arg(x, Holders)
  BY DEF RemoveChild
<1>2. /\ p \in Live /\ p \notin Timelines
      /\ slots[p] \in Seq(Objects) /\ Len(slots[p]) \in Nat
      /\ Range(slots[p]) \subseteq Live /\ Range(slots[p]) \subseteq MayHold(p)
      /\ p \in Compositions =>
           IsInjective(slots[p]) /\ \A o \in Range(slots[p]) : parent[o] = p
  BY <1>1, HolderMembers
<1>3. PICK k \in ItemPlaces(ToOtioIndex(i), Len(slots[p])) : Relink(p, RemoveAt(slots[p], k))
  BY DEF RemoveChild
<1>4. k \in 1..Len(slots[p])
  BY <1>2, <1>3, PlacesInside
<1> DEFINE s == RemoveAt(slots[p], k)
<1>5. /\ s \in Seq(Objects) /\ Range(s) \subseteq Range(slots[p])
      /\ IsInjective(slots[p]) => IsInjective(s)
  BY <1>2, <1>4, RemoveRange
<1>6. Relink(p, s)
  BY <1>3
<1> HIDE DEF p, s
<1>7. QED BY <1>2, <1>5, <1>6, RelinkStep

LEMMA SetChildrenStep ==
    ASSUME IInv, NEW x \in Handles, NEW gs \in HandleLists, SetChildren(x, gs)
    PROVE  IInv'
<1> DEFINE p == handle[x]
           s == Objs(gs)
<1>1. /\ Arg(x, Holders) /\ Args(gs, Objects)
      /\ \A o \in Range(s) : MayAdopt(p, o)
      /\ p \in Compositions => IsInjective(s)
      /\ Relink(p, s)
  BY DEF SetChildren, Objs, Range
<1>2. s \in Seq(Objects) /\ Range(s) \subseteq Live
  BY <1>1, ArgsLive, PoolAssumption DEF HandleLists
<1>3. p \in Live /\ p \notin Timelines
  BY <1>1, HolderMembers
<1>4. \A o \in Live : MayAdopt(p, o) =>
         o \in MayHold(p) /\ (p \in Compositions => parent[o] = NoObject)
  BY <1>1, HolderMembers
<1> HIDE DEF p, s
<1>5. Range(s) \subseteq MayHold(p)
  BY <1>1, <1>2, <1>4
<1>6. p \in Compositions => \A o \in Range(s) : parent[o] \in {NoObject, p}
  BY <1>1, <1>2, <1>4
<1>7. QED BY <1>1, <1>2, <1>3, <1>5, <1>6, RelinkStep

LEMMA SetTracksStep ==
    ASSUME IInv, NEW x \in Handles, NEW c \in Handles, SetTracks(x, c)
    PROVE  IInv'
<1> DEFINE p == handle[x]
           s == <<handle[c]>>
<1>1. Arg(x, Timelines) /\ Arg(c, Stacks) /\ Relink(p, s)
  BY DEF SetTracks
<1>2. /\ p \in Live /\ p \in Timelines /\ handle[c] \in Live /\ handle[c] \in Stacks
      /\ handle[c] \in Objects /\ p \notin Compositions /\ MayHold(p) = Stacks
  BY <1>1, ArgLive, Pools DEF Live
<1>3. s \in Seq(Objects) /\ Range(s) = {handle[c]} /\ Len(s) = 1
  BY <1>2, SingleRange
<1> HIDE DEF p, s
<1>4. Range(s) \subseteq MayHold(p) /\ Range(s) \subseteq Live
  BY <1>2, <1>3
<1>5. QED BY <1>1, <1>2, <1>3, <1>4, RelinkStep

LEMMA SetMediaReferencesStep ==
    ASSUME IInv, NEW x \in Handles, NEW gs \in HandleLists,
           SetMediaReferences(x, gs)
    PROVE  IInv'
<1> DEFINE p == handle[x]
           s == Objs(gs)
<1>1. Arg(x, Clips) /\ Args(gs, Media) /\ Relink(p, s)
  BY DEF SetMediaReferences
<1>2. p \in Live /\ p \notin Timelines \cup Compositions /\ MayHold(p) = Media
  BY <1>1, ArgLive, Pools
<1>3. s \in Seq(Objects) /\ Range(s) \subseteq Live /\ Range(s) \subseteq Media
  BY <1>1, ArgsLive, Pools, PoolAssumption DEF HandleLists
<1> HIDE DEF p, s
<1>4. QED BY <1>1, <1>2, <1>3, RelinkStep

LEMMA SetMediaReferenceStep ==
    ASSUME IInv, NEW x \in Handles, NEW r \in Media, SetMediaReference(x, r)
    PROVE  IInv'
<1> DEFINE p == handle[x]
<1>1. Arg(x, Clips)
  BY DEF SetMediaReference
<1>2. /\ p \in Live /\ p \in Objects /\ p \notin Timelines \cup Compositions
      /\ MayHold(p) = Media
  BY <1>1, ArgLive, Pools DEF Live
<1>3. /\ slots[p] \in Seq(Objects) /\ meta[p] \in Seq(Objects)
      /\ Range(slots[p]) \subseteq Live /\ Range(meta[p]) \subseteq Live
      /\ Range(slots[p]) \subseteq Media
  BY <1>2 DEF IInv, TypeOK, NoDangling, Held
<1>4. r \in Objects /\ r \notin Timelines
  BY Pools
<1>5. PICK k \in 1..Len(slots[p]) :
        \/ /\ \E g \in Handles : Arg(g, Media) /\ handle[g] = r
           /\ Relink(p, ReplaceAt(slots[p], k, r))
        \/ Rework(p, ReplaceAt(slots[p], k, r), meta[p], {r})
  BY DEF SetMediaReference
<1> DEFINE s == ReplaceAt(slots[p], k, r)
           m == meta[p]
           fresh == {r}
<1>6. s \in Seq(Objects) /\ Range(s) \subseteq Range(slots[p]) \cup {r}
  BY <1>3, <1>4, ReplaceRange
<1>7. Range(s) \subseteq MayHold(p)
  BY <1>2, <1>3, <1>6
<1>8. ASSUME NEW g \in Handles, Arg(g, Media), handle[g] = r, Relink(p, s)
      PROVE  IInv'
  <2>1. r \in Live
    BY <1>8, ArgLive, Pools
  <2>2. Range(s) \subseteq Live
    BY <2>1, <1>3, <1>6
  <2> HIDE DEF s, p
  <2>3. QED BY <1>2, <1>6, <1>7, <1>8, <2>2, RelinkStep
<1>9. ASSUME Rework(p, s, m, fresh) PROVE IInv'
  <2>1. /\ fresh \in SUBSET Objects /\ fresh \cap Timelines = {}
        /\ Range(s) \subseteq Live \cup fresh /\ Range(m) \subseteq Live \cup fresh
        /\ m \in Seq(Objects)
    BY <1>3, <1>4, <1>6
  <2> HIDE DEF s, p, m, fresh
  <2>2. QED BY <1>2, <1>6, <1>7, <1>9, <2>1, StoreStep
<1>10. QED BY <1>5, <1>8, <1>9

LEMMA SetMetadataStep ==
    ASSUME IInv, NEW x \in Handles, SetMetadata(x)
    PROVE  IInv'
<1> DEFINE p == handle[x]
           s == slots[p]
           fresh == {}
<1>1. Arg(x, Objects)
  BY DEF SetMetadata
<1>2. p \in Live /\ p \in Objects
  BY <1>1, ArgLive
<1>3. PICK gs \in Metadata(p) : Rework(p, s, Objs(gs), fresh)
  BY DEF SetMetadata
<1> DEFINE m == Objs(gs)
<1>4. m \in Seq(Objects) /\ Range(m) \subseteq Live \cup fresh
  BY <1>2, MetadataLive
<1>5. /\ s \in Seq(Objects) /\ Range(s) \subseteq MayHold(p)
      /\ Range(s) \subseteq Live \cup fresh
      /\ p \in Timelines => Len(s) = 1
  BY <1>2 DEF IInv, TypeOK, NoDangling, Held, Live
<1>6. p \in Compositions =>
        IsInjective(s) /\ \A o \in Range(s) : parent[o] \in {NoObject, p}
  BY <1>5 DEF IInv, TreeLinks, NoDangling, Held, Live
<1>7. fresh \in SUBSET Objects /\ fresh \cap Timelines = {} /\ Rework(p, s, m, fresh)
  BY <1>3
<1> HIDE DEF p, s, m, fresh
<1>8. QED BY <1>2, <1>4, <1>5, <1>6, <1>7, StoreStep

LEMMA EditChildrenStep ==
    ASSUME IInv, NEW x \in Handles, NEW p \in Objects,
           NEW s \in ChildLists, EditChildren(x, p, s)
    PROVE  IInv'
<1> DEFINE fresh == {o \in Range(s) : life[o] = "unborn"}
           given == Range(s) \ (fresh \cup Range(slots[p]))
           m == meta[p]
<1>1. /\ Arg(x, Composables) /\ p \in Compositions /\ p \in {handle[x], parent[handle[x]]}
      /\ IsInjective(s) /\ Rework(p, s, m, fresh)
      /\ \A o \in given : parent[o] = NoObject
                         /\ \E g \in Handles : Arg(g, Composables) /\ handle[g] = o
  BY DEF EditChildren
<1>2. s \in Seq(Objects) /\ Range(s) \subseteq Composables /\ Range(s) \subseteq Objects
  BY UpToSeq, Pools, PoolAssumption DEF ChildLists
<1>3. /\ p \in Live /\ MayHold(p) = Composables /\ p \notin Timelines
  <2>1. handle[x] \in Live /\ handle[x] \in Objects
    BY <1>1, ArgLive, Pools
  <2>2. p \in Live \cup {NoObject}
    BY <1>1, <2>1 DEF IInv, NoDangling
  <2>3. QED BY <1>1, <2>2, Pools, PoolAssumption
<1>4. /\ Range(slots[p]) \subseteq Live /\ Range(m) \subseteq Live /\ m \in Seq(Objects)
      /\ \A o \in Range(slots[p]) : parent[o] = p
  <2>1. Range(slots[p]) \subseteq Live /\ Range(m) \subseteq Live /\ m \in Seq(Objects)
    BY DEF IInv, NoDangling, TypeOK, Held
  <2>2. QED BY <1>1, <2>1 DEF IInv, TreeLinks, Live
<1>5. ASSUME NEW o \in given PROVE o \in Live /\ parent[o] = NoObject
  <2>1. PICK g \in Handles : Arg(g, Composables) /\ handle[g] = o
    BY <1>1
  <2>2. QED BY <1>1, <2>1, ArgLive, Pools
<1>6. Range(s) \subseteq Live \cup fresh
  BY <1>4, <1>5
<1>7. ASSUME NEW o \in Range(s) PROVE parent[o] \in {NoObject, p}
  <2>1. CASE o \in fresh
    <3>1. o \in Objects /\ o \notin Live
      BY <2>1, <1>2 DEF Live
    <3>2. parent[o] \in Compositions \cup {NoObject} /\ Compositions \subseteq Objects
      BY <3>1, Pools DEF IInv, TypeOK
    <3>3. \A q \in Compositions : parent[o] # q
      BY <3>1, <3>2 DEF IInv, TreeLinks, NoDangling, Held
    <3>4. QED BY <3>2, <3>3
  <2>2. CASE o \in Range(slots[p])
    BY <2>2, <1>4
  <2>3. QED BY <2>1, <2>2, <1>5
<1>8. fresh \in SUBSET Objects /\ fresh \cap Timelines = {}
  BY <1>2, PoolAssumption
<1> HIDE DEF fresh, given, m
<1>9. QED BY <1>1, <1>2, <1>3, <1>4, <1>6, <1>7, <1>8, StoreStep

LEMMA ChangeStep ==
    ASSUME IInv, Change
    PROVE  IInv'
<1>1. PICK x \in Handles :
        \/ \E c \in Handles :
              \/ AppendChild(x, c)
              \/ SetTracks(x, c)
              \/ \E i \in Positions : InsertChild(x, i, c) \/ SetChild(x, i, c)
        \/ \E i \in Positions : RemoveChild(x, i)
        \/ \E gs \in HandleLists : SetChildren(x, gs) \/ SetMediaReferences(x, gs)
        \/ \E r \in Media : SetMediaReference(x, r)
        \/ SetMetadata(x)
        \/ \E p \in Objects, s \in ChildLists : EditChildren(x, p, s)
  BY DEF Change
<1>2. ASSUME NEW c \in Handles,
             \/ AppendChild(x, c)
             \/ SetTracks(x, c)
             \/ \E i \in Positions : InsertChild(x, i, c) \/ SetChild(x, i, c)
      PROVE  IInv'
  BY <1>2, AppendChildStep, SetTracksStep, InsertChildStep, SetChildStep
<1>3. ASSUME NEW i \in Positions, RemoveChild(x, i) PROVE IInv'
  BY <1>3, RemoveChildStep
<1>4. ASSUME NEW gs \in HandleLists,
             SetChildren(x, gs) \/ SetMediaReferences(x, gs)
      PROVE  IInv'
  BY <1>4, SetChildrenStep, SetMediaReferencesStep
<1>5. ASSUME NEW r \in Media, SetMediaReference(x, r) PROVE IInv'
  BY <1>5, SetMediaReferenceStep
<1>6. ASSUME NEW p \in Objects, NEW s \in ChildLists, EditChildren(x, p, s)
      PROVE  IInv'
  BY <1>6, EditChildrenStep
<1>7. QED BY <1>1, <1>2, <1>3, <1>4, <1>5, <1>6, SetMetadataStep

LEMMA BeginChildrenStep ==
    ASSUME IInv, NEW x \in Handles, BeginChildren(x)
    PROVE  IInv'
<1> DEFINE p == handle[x]
           todo == slots[p]
           kept == {}
<1>1. Arg(x, Holders \cup Clips) /\ Listing(x, todo, kept)
  BY DEF BeginChildren
<1>2. p \in Objects
  BY <1>1, ArgLive, Pools
<1>3. todo \in Seq(Objects)
  BY <1>2 DEF IInv, TypeOK
<1>4. /\ kept \in SUBSET Live
      /\ \A o \in Range(todo) :
            IF kept # {} THEN o \in kept
            ELSE \E q \in {p} \cup Range(slots[p]) : o \in Held(q)
  BY DEF Held
<1> HIDE DEF todo, kept
<1>5. QED BY <1>1, <1>2, <1>3, <1>4, ListingStep

LEMMA ArrangedSet ==
    ASSUME NEW S, NEW T, S \subseteq T, NEW s \in SetToSeqs(S), IsFiniteSet(S)
    PROVE  s \in Seq(T) /\ Range(s) \subseteq S
<1>1. s \in [1..Cardinality(S) -> S] /\ Cardinality(S) \in Nat
  BY FS_CardinalityType DEF SetToSeqs
<1>2. s \in Seq(S) /\ Range(s) \subseteq S
  BY <1>1, FunctionIsSeq
<1>3. QED BY <1>1, <1>2

LEMMA BeginTracksStep ==
    ASSUME IInv, NEW x \in Handles, BeginTracks(x)
    PROVE  IInv'
<1>1. Arg(x, Timelines)
  BY DEF BeginTracks
<1>2. handle[x] \in Objects
  BY <1>1, ArgLive, Pools
<1>3. PICK k, S, todo : /\ k \in Range(slots[handle[x]])
                        /\ S \in SUBSET (Range(slots[k]) \cap Tracks)
                        /\ todo \in SetToSeqs(S) /\ Listing(x, todo, {})
  BY DEF BeginTracks
<1>4. S \subseteq Objects /\ IsFiniteSet(S)
  <2>1. S \subseteq Objects /\ IsFiniteSet(Objects)
    BY <1>3, Pools, PoolAssumption
  <2>2. QED BY <2>1, FS_Subset
<1>5. todo \in Seq(Objects) /\ Range(todo) \subseteq S
  BY <1>3, <1>4, ArrangedSet
<1> DEFINE kept == {}
<1>6. /\ kept \in SUBSET Live /\ Listing(x, todo, kept)
      /\ \A o \in Range(todo) :
            IF kept # {} THEN o \in kept
            ELSE \E q \in {handle[x]} \cup Range(slots[handle[x]]) : o \in Held(q)
  BY <1>3, <1>5 DEF Held
<1> HIDE DEF kept
<1>7. QED BY <1>2, <1>5, <1>6, ListingStep

LEMMA BeginMetadataStep ==
    ASSUME IInv, NEW x \in Handles, BeginMetadata(x)
    PROVE  IInv'
<1> DEFINE p == handle[x]
           todo == meta[p]
           kept == {}
<1>1. Arg(x, Objects) /\ Listing(x, todo, kept)
  BY DEF BeginMetadata
<1>2. p \in Objects
  BY <1>1, ArgLive
<1>3. todo \in Seq(Objects)
  BY <1>2 DEF IInv, TypeOK
<1>4. /\ kept \in SUBSET Live
      /\ \A o \in Range(todo) :
            IF kept # {} THEN o \in kept
            ELSE \E q \in {p} \cup Range(slots[p]) : o \in Held(q)
  BY DEF Held
<1> HIDE DEF todo, kept
<1>5. QED BY <1>1, <1>2, <1>3, <1>4, ListingStep

LEMMA BeginFindClipsStep ==
    ASSUME IInv, NEW x \in Handles, BeginFindClips(x)
    PROVE  IInv'
<1> DEFINE found == Below({handle[x]}, [p \in Objects |-> Range(slots[p])]) \cap Clips
<1>1. Arg(x, Holders \cup Timelines)
  BY DEF BeginFindClips
<1>2. handle[x] \in Objects
  BY <1>1, ArgLive, Pools
<1>3. found \subseteq Live /\ found \subseteq Objects
  BY DEF Below, Live
<1>4. PICK todo \in SetToSeqs(found) : Listing(x, todo, found)
  BY DEF BeginFindClips
<1> HIDE DEF found
<1>5. IsFiniteSet(found)
  BY <1>3, PoolAssumption, FS_Subset
<1>6. todo \in Seq(Objects) /\ Range(todo) \subseteq found
  BY <1>3, <1>5, ArrangedSet
<1>7. \A o \in Range(todo) :
         IF found # {} THEN o \in found
         ELSE \E q \in {handle[x]} \cup Range(slots[handle[x]]) : o \in Held(q)
  BY <1>6
<1>8. QED BY <1>2, <1>3, <1>4, <1>6, <1>7, ListingStep

LEMMA ListStep ==
    ASSUME IInv, List
    PROVE  IInv'
BY BeginChildrenStep, BeginTracksStep, BeginMetadataStep, BeginFindClipsStep, WrapNextStep,
   EndCallStep DEF List

LEMMA StutterInv ==
    ASSUME IInv, UNCHANGED vars
    PROVE  IInv'
<1>1. Live' = Live /\ InCall' = InCall
  BY DEF vars, Live, InCall
<1>2. TypeOK' /\ TreeLinks' /\ NoDangling' /\ Emptied' /\ Anchored'
  BY <1>1 DEF vars, IInv, TypeOK, TreeLinks, NoDangling, Emptied, Anchored, Held
<1>3. CountExact' /\ FiniteUses'
  <2>1. \A o \in Objects : /\ HandlesOn(o)' = HandlesOn(o) /\ Uses(o)' = Uses(o)
                          /\ FinitelyUsed(o)' = FinitelyUsed(o)
    BY DEF vars, HandlesOn, Uses, FinitelyUsed, Occurrences
  <2>2. refs' = refs /\ call' = call /\ CountExact /\ FiniteUses
    BY DEF vars, IInv
  <2>3. QED BY <2>1, <2>2 DEF CountExact, FiniteUses, FinitelyUsed
<1>4. QED BY <1>2, <1>3 DEF IInv

-----------------------------------------------------------------------------
(* The theorems.                                                           *)

LEMMA NextInv == IInv /\ [Next]_vars => IInv'
<1> SUFFICES ASSUME IInv, [Next]_vars PROVE IInv'
  OBVIOUS
<1>1. CASE Create
  BY <1>1, CreateStep DEF Create, FreeHandles
<1>2. CASE Access
  BY <1>2, AccessStep DEF Access
<1>3. CASE Change
  BY <1>3, ChangeStep
<1>4. CASE List
  BY <1>4, ListStep
<1>5. CASE Collect
  BY <1>5, FinalizeStep, DestroyStep DEF Collect
<1>6. CASE \E h \in Handles : Drop(h)
  BY <1>6, DropStep
<1>7. CASE \E S \in SUBSET Handles : Restart(S)
  BY <1>7, RestartStep
<1>8. CASE UNCHANGED vars
  BY <1>8, StutterInv
<1>9. QED BY <1>1, <1>2, <1>3, <1>4, <1>5, <1>6, <1>7, <1>8 DEF Next

(* Whatever R code and the collector do, the inductive invariant holds.    *)
THEOREM InvariantHolds == Spec => []IInv
<1>1. QED BY InitInv, NextInv, PTL DEF Spec

(* Every holder has members of its kind only, every live timeline has its  *)
(* one Stack, and no count is ever negative (otio_xptr.h, constructors.cpp).*)
THEOREM TypeCorrect == Spec => []TypeOK
<1>1. IInv => TypeOK
  BY DEF IInv
<1>2. QED BY InvariantHolds, <1>1, PTL

(* The count of every object is the number of references to it, after any  *)
(* sequence of calls, collections and restarts.                            *)
THEOREM CountsAreExact == Spec => []CountExact
<1>1. IInv => CountExact
  BY DEF IInv
<1>2. QED BY InvariantHolds, <1>1, PTL

(* parent() and children() agree, and a child is in one composition once.  *)
THEOREM LinksAgree == Spec => []TreeLinks
<1>1. IInv => TreeLinks
  BY DEF IInv
<1>2. QED BY InvariantHolds, <1>1, PTL

(* No handle, member, back pointer or Retainer refers to a freed object.   *)
THEOREM NothingDangles == Spec => []NoDangling
<1>1. IInv => NoDangling
  BY DEF IInv
<1>2. QED BY InvariantHolds, <1>1, PTL

(* find_clips() wraps live objects only, even when R code runs inside it.  *)
THEOREM RetainedListsSafe == Spec => []KeptRawLive
<1>1. IInv => KeptRawLive
  <2>1. SUFFICES ASSUME IInv, call.kept # {} PROVE Range(call.todo) \subseteq Live
    BY DEF KeptRawLive
  <2>2. InCall
    BY <2>1 DEF IInv, TypeOK, Idle
  <2>3. QED BY <2>1, <2>2 DEF IInv, Anchored, NoDangling
<1>2. QED BY InvariantHolds, <1>1, PTL

(* As long as finalizers run no R code, the raw pointers of children(),    *)
(* video_tracks() and media_references() are to live objects too.          *)
THEOREM RawListsSafe == ~Reentrant => (Spec => []RawLive)
<1> SUFFICES ASSUME ~Reentrant PROVE Spec => []RawLive
  OBVIOUS
<1>1. IInv => RawLive
  <2>1. SUFFICES ASSUME IInv, NEW o \in Range(call.todo) PROVE o \in Live
    BY DEF RawLive
  <2>2. CASE InCall
    <3>1. CASE call.kept # {}
      BY <2>1, <2>2, <3>1 DEF IInv, Anchored, NoDangling
    <3>2. CASE call.kept = {}
      <4>1. /\ handle[call.arg] \in Objects
            /\ \E p \in {handle[call.arg]} \cup Range(slots[handle[call.arg]]) :
                  o \in Held(p)
        BY <2>1, <2>2, <3>2 DEF IInv, Anchored
      <4>2. \A q \in Objects : Held(q) \subseteq Live
        BY <2>1 DEF IInv, NoDangling
      <4>3. QED BY <4>1, <4>2 DEF Live, Held
    <3>3. QED BY <3>1, <3>2
  <2>3. CASE ~InCall
    BY <2>1, <2>3, EmptyRange DEF IInv, TypeOK, Idle
  <2>4. QED BY <2>2, <2>3
<1>2. QED BY InvariantHolds, <1>1, PTL

(* A count above zero is somebody's reference: of a handle, of a call that *)
(* runs, or of an object that is live itself.                              *)
LEMMA CountedIsReferred ==
    ASSUME IInv, NEW o \in Objects, refs[o] # 0
    PROVE  o \in Referenced \/ \E p \in Live : o \in Held(p)
<1> SUFFICES ASSUME o \notin Referenced, \A p \in Live : o \notin Held(p) PROVE FALSE
  OBVIOUS
<1>1. o \notin call.kept /\ HandlesOn(o) = {}
  BY PoolAssumption DEF Referenced, HandlesOn
<1>2. \A p \in Objects : o \notin Range(slots[p]) /\ o \notin Range(meta[p])
  BY EmptyRange DEF IInv, Emptied, Held, Live
<1>3. Occurrences(slots, o) = {} /\ Occurrences(meta, o) = {}
  BY <1>2 DEF Occurrences, Range
<1>4. Cardinality({}) = 0
  BY FS_EmptySet
<1>5. Uses(o) = 0 /\ Cardinality(HandlesOn(o)) = 0
  BY <1>1, <1>3, <1>4 DEF Uses
<1>6. refs[o] = Cardinality(HandlesOn(o)) + Uses(o) + (IF o \in call.kept THEN 1 ELSE 0)
  BY DEF IInv, CountExact
<1>7. QED BY <1>1, <1>5, <1>6

(* Of live objects with a count, those outside a closed set that has all   *)
(* that R refers to are held by each other alone: they are a cycle.        *)
LEMMA OutsideIsCyclic ==
    ASSUME IInv, Settled, NEW T \in SUBSET Live, Referenced \subseteq T,
           \A p \in T : Held(p) \subseteq T, Live \ T # {}
    PROVE  Cyclic
<1> DEFINE S == Live \ T
<1>1. S \in (SUBSET Live) \ {{}}
  OBVIOUS
<1>2. ASSUME NEW o \in S PROVE \E p \in S : o \in Held(p)
  <2>1. o \in Objects /\ refs[o] # 0
    BY DEF Settled, Live
  <2>2. PICK p \in Live : o \in Held(p)
    BY <2>1, CountedIsReferred
  <2>3. p \notin T
    BY <2>2
  <2>4. QED BY <2>2, <2>3
<1>3. QED BY <1>1, <1>2 DEF Cyclic

(* Once destructors have run, an object outlives its last reference from R *)
(* only in a cycle: what else is live can be reached from some handle.     *)
THEOREM NothingIsLeaked == Spec => []NothingLeaks
<1>1. IInv => NothingLeaks
  <2>1. SUFFICES ASSUME IInv, Settled, ~Cyclic PROVE Live = Reach(Referenced)
    BY DEF NothingLeaks
  <2> DEFINE holding == [p \in Objects |-> Held(p)]
  <2>2. ASSUME NEW o \in Live, NEW T \in SUBSET Live,
               Referenced \subseteq T, \A p \in T : holding[p] \subseteq T
        PROVE  o \in T
    <3>1. \A p \in T : Held(p) \subseteq T
      BY <2>2 DEF Live
    <3>2. QED BY <2>1, <2>2, <3>1, OutsideIsCyclic
  <2>3. QED BY <2>2 DEF Reach, Below
<1>2. QED BY InvariantHolds, <1>1, PTL

-----------------------------------------------------------------------------
(* Reference counting keeps the promise of Lifetimes.                      *)

(* What every step but a destructor and the end of the process does to the *)
(* set of objects.                                                         *)
Growing == \A o \in Objects : \/ life'[o] = life[o]
                              \/ life[o] = "unborn" /\ life'[o] = "live"

LEMMA MostStepsGrow ==
    ASSUME \/ Create \/ Access \/ Change \/ List
           \/ \E h \in Handles : Finalize(h) \/ Drop(h)
    PROVE  Growing
<1>1. ASSUME NEW h, NEW p, NEW s, NEW m, NEW fresh, Build(h, p, s, m, fresh) PROVE Growing
  BY <1>1 DEF Growing, Build, Unborn
<1>2. CASE Create
  <2>1. ASSUME NEW h, NEW p, NEW s, NEW fresh, Construct(h, p, s, fresh) PROVE Growing
    BY <2>1, <1>1 DEF Construct
  <2>2. ASSUME NEW h, NEW p, NEW s, NEW m, NewTree(h, p, s, m) PROVE Growing
    BY <2>2, <1>1 DEF NewTree
  <2>3. ASSUME NEW h, NEW x, NEW p, Clone(h, x, p) \/ NewTrack(h, x, p) PROVE Growing
    BY <2>3, <2>2 DEF Clone, NewTrack
  <2>4. QED BY <1>2, <2>1, <2>2, <2>3 DEF Create, New, NewClip, NewTimeline, NewCollection
<1>3. CASE Access
  BY <1>3 DEF Access, FetchParent, FetchMember, Fetch, Growing
<1>4. ASSUME NEW p, NEW s, NEW m, NEW fresh, Rework(p, s, m, fresh) PROVE Growing
  BY <1>4 DEF Rework, Growing, Unborn
<1>5. ASSUME NEW p, NEW s, Relink(p, s) PROVE Growing
  BY <1>4, <1>5 DEF Relink
<1>6. CASE Change
  <2>1. PICK x \in Handles :
        \/ \E c \in Handles :
              \/ AppendChild(x, c)
              \/ SetTracks(x, c)
              \/ \E i \in Positions : InsertChild(x, i, c) \/ SetChild(x, i, c)
        \/ \E i \in Positions : RemoveChild(x, i)
        \/ \E gs \in HandleLists : SetChildren(x, gs) \/ SetMediaReferences(x, gs)
        \/ \E r \in Media : SetMediaReference(x, r)
        \/ SetMetadata(x)
        \/ \E p \in Objects, s \in ChildLists : EditChildren(x, p, s)
    BY <1>6 DEF Change
  <2>2. ASSUME NEW c \in Handles, AppendChild(x, c) \/ SetTracks(x, c) PROVE Growing
    BY <2>2, <1>5 DEF AppendChild, SetTracks
  <2>3. ASSUME NEW c \in Handles, NEW i \in Positions,
               InsertChild(x, i, c) \/ SetChild(x, i, c)
        PROVE  Growing
    BY <2>3, <1>5 DEF InsertChild, SetChild
  <2>4. ASSUME NEW i \in Positions, RemoveChild(x, i) PROVE Growing
    BY <2>4, <1>5 DEF RemoveChild
  <2>5. ASSUME NEW gs, SetChildren(x, gs) \/ SetMediaReferences(x, gs) PROVE Growing
    BY <2>5, <1>5 DEF SetChildren, SetMediaReferences
  <2>6. ASSUME NEW r, SetMediaReference(x, r) PROVE Growing
    BY <2>6, <1>4, <1>5 DEF SetMediaReference
  <2>7. ASSUME SetMetadata(x) PROVE Growing
    BY <2>7, <1>4 DEF SetMetadata
  <2>8. ASSUME NEW p, NEW s, EditChildren(x, p, s) PROVE Growing
    BY <2>8, <1>4 DEF EditChildren
  <2>9. QED BY <2>1, <2>2, <2>3, <2>4, <2>5, <2>6, <2>7, <2>8
<1>7. CASE List
  BY <1>7 DEF List, BeginChildren, BeginTracks, BeginMetadata, BeginFindClips, Listing,
              WrapNext, EndCall, Growing
<1>8. CASE \E h \in Handles : Finalize(h) \/ Drop(h)
  BY <1>8 DEF Finalize, Drop, Growing
<1>9. QED BY <1>2, <1>3, <1>6, <1>7, <1>8

LEMMA InvSound == IInv => Promise!Sound
<1> SUFFICES ASSUME IInv PROVE Promise!Sound
  OBVIOUS
<1>1. Referenced \subseteq Live
  BY DEF Referenced, IInv, NoDangling
<1>2. ASSUME NEW p \in Objects, NEW c \in Objects, c \in Held(p)
      PROVE  p \in Live /\ c \in Live
  <2>1. slots[p] # <<>> \/ meta[p] # <<>>
    BY <1>2, EmptyRange DEF Held
  <2>2. QED BY <1>2, <2>1 DEF IInv, Emptied, NoDangling, Live
<1>3. QED BY <1>1, <1>2 DEF Promise!Sound

LEMMA WorkStep ==
    ASSUME IInv, Growing, Promise!Sound'
    PROVE  Promise!Work
<1>1. Live \subseteq Live' /\ Live' \subseteq Objects
  BY DEF Live, Growing
<1>2. {o \in Objects : life'[o] = "freed"} = {o \in Objects : life[o] = "freed"}
  BY DEF Growing
<1>3. Live' \cap {o \in Objects : life[o] = "freed"} = {}
  BY DEF Live, Growing
<1>4. QED BY <1>1, <1>2, <1>3 DEF Promise!Work

LEMMA ReclaimStep ==
    ASSUME IInv, NEW o \in Objects, Destroy(o), Promise!Sound, Promise!Sound'
    PROVE  Promise!Reclaim(o)
<1>1. /\ Live' = Live \ {o} /\ UNCHANGED <<handle, call>>
      /\ slots' = [slots EXCEPT ![o] = <<>>] /\ meta' = [meta EXCEPT ![o] = <<>>]
  BY DestroyStep
<1>2. /\ life \in [Objects -> {"unborn", "live", "freed"}]
      /\ slots \in [Objects -> Seq(Objects)] /\ meta \in [Objects -> Seq(Objects)]
  BY DEF IInv, TypeOK
<1>3. o \in Live /\ refs[o] = 0 /\ life' = [life EXCEPT ![o] = "freed"]
  BY DEF Destroy, Live
<1>4. {c \in Objects : life'[c] = "freed"} = {c \in Objects : life[c] = "freed"} \cup {o}
  BY <1>2, <1>3
<1>5. Referenced' = Referenced
  BY <1>1 DEF Referenced
<1>6. {e \in Objects \X Objects : e[2] \in Held(e[1])}'
        = {e \in {d \in Objects \X Objects : d[2] \in Held(d[1])} : e[1] # o}
  <2>1. ASSUME NEW p \in Objects PROVE Held(p)' = IF p = o THEN {} ELSE Held(p)
    <3>1. /\ slots'[p] = IF p = o THEN <<>> ELSE slots[p]
          /\ meta'[p] = IF p = o THEN <<>> ELSE meta[p]
      BY <1>1, <1>2
    <3>2. QED BY <3>1, EmptyRange DEF Held
  <2>2. QED BY <2>1
<1>7. Promise!Unreachable(o)
  <2>1. Live \ {o} \in SUBSET Live /\ o \notin Live \ {o}
    OBVIOUS
  <2>2. \A h \in Handles : handle[h] # o
    BY <1>3, ZeroMeansUnreferenced
  <2>3. \A p \in Objects : o \notin Held(p)
    BY <1>3, ZeroMeansUnreferenced
  <2>4. o \notin call.kept
    BY <1>3, ZeroMeansUnreferenced
  <2>5. Referenced \subseteq Live \ {o}
    BY <2>2, <2>4 DEF Referenced, Promise!Sound
  <2>6. \A e \in {d \in Objects \X Objects : d[2] \in Held(d[1])} : e[2] \in Live \ {o}
    BY <2>3 DEF Promise!Sound
  <2>7. Promise!Closed(Live \ {o})
    BY <2>5, <2>6 DEF Promise!Closed
  <2>8. QED BY <2>1, <2>7 DEF Promise!Unreachable
<1>8. QED BY <1>1, <1>3, <1>4, <1>5, <1>6, <1>7 DEF Promise!Reclaim

LEMMA ProcessEndStep ==
    ASSUME IInv, NEW S \in SUBSET Handles, Restart(S)
    PROVE  Promise!ProcessEnd
<1>1. Live' = {}
  BY RestartStep
<1>2. life \in [Objects -> {"unborn", "live", "freed"}]
  BY DEF IInv, TypeOK
<1>3. {o \in Objects : life'[o] = "freed"} = {o \in Objects : life[o] = "freed"} \cup Live
  BY <1>2 DEF Restart, Live
<1>4. Referenced' = {}
  BY DEF Restart, Referenced, Idle
<1>5. \A p \in Objects : Held(p)' = {}
  BY EmptyRange DEF Restart, Held
<1>6. QED BY <1>1, <1>3, <1>4, <1>5 DEF Promise!ProcessEnd

LEMMA InitPromise == Init => Promise!AbsInit
<1> SUFFICES ASSUME Init PROVE Promise!AbsInit
  OBVIOUS
<1>1. Live = {} /\ {o \in Objects : life[o] = "freed"} = {}
  BY DEF Init, Live
<1>2. Referenced = {}
  BY DEF Init, Referenced, Idle
<1>3. \A p \in Objects : Held(p) = {}
  BY EmptyRange DEF Init, Held
<1>4. QED BY <1>1, <1>2, <1>3 DEF Promise!AbsInit

LEMMA StepKeepsPromise ==
    ASSUME IInv, Promise!Sound, Promise!Sound', [Next]_vars
    PROVE  [Promise!AbsNext]_(Promise!abstract)
<1>1. CASE \/ Create \/ Access \/ Change \/ List
           \/ \E h \in Handles : Finalize(h) \/ Drop(h)
  BY <1>1, MostStepsGrow, WorkStep DEF Promise!AbsNext
<1>2. CASE \E o \in Objects : Destroy(o)
  BY <1>2, ReclaimStep DEF Promise!AbsNext
<1>3. CASE \E S \in SUBSET Handles : Restart(S)
  BY <1>3, ProcessEndStep DEF Promise!AbsNext
<1>4. CASE UNCHANGED vars
  <2>1. Live' = Live /\ Referenced' = Referenced
    BY <1>4 DEF vars, Live, Referenced
  <2>2. UNCHANGED Promise!abstract
    BY <1>4, <2>1 DEF vars, Promise!abstract, Held
  <2>3. QED BY <2>2
<1>5. QED BY <1>1, <1>2, <1>3, <1>4 DEF Next, Collect

(* Reference counting never destroys what R can still reach, destroys what *)
(* it destroys once and for all, and leaves no reference to it behind: the *)
(* README's "the object self-deletes only when the last reference goes     *)
(* away" holds of handles, trees, running calls and restarts together.     *)
THEOREM PromiseKept == Spec => KeepsPromise
<1>1. Spec => [](IInv /\ Promise!Sound)
  BY InvariantHolds, InvSound, PTL
<1>2. IInv /\ Promise!Sound /\ Promise!Sound' /\ [Next]_vars
        => [Promise!AbsNext]_(Promise!abstract)
  BY StepKeepsPromise
<1>3. QED BY <1>1, <1>2, InitPromise, PTL DEF Spec, KeepsPromise, Promise!AbsSpec
=============================================================================
