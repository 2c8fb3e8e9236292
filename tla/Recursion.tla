----------------------------- MODULE Recursion -----------------------------
(***************************************************************************)
(* Recursion over values with values inside, for the functions of          *)
(* AnyValues and Metadata: V is a set of values, Inside(x) the function or *)
(* sequence of the values directly inside x, and One(x, s) what a function *)
(* gives for x when s are its results for the values inside x.  There is   *)
(* such a function when every value is nested to some finite depth, and    *)
(* what passes from the values inside a value to the value holds of all.   *)
(* The library states this for operators that are parameters of theorems;  *)
(* here they are parameters of the module, and INSTANCE replaces them.     *)
(***************************************************************************)
EXTENDS WellFoundedInduction, TLAPS

CONSTANTS V, Inside(_), One(_, _)

(* depth says how deep the values of V are nested.                         *)
Nests(depth) ==
    /\ depth \in [V -> Nat]
    /\ \A x \in V : \A i \in DOMAIN Inside(x) :
          Inside(x)[i] \in V /\ depth[Inside(x)[i]] < depth[x]

Defines(f, S) == f = [x \in S |-> One(x, [i \in DOMAIN Inside(x) |-> f[Inside(x)[i]]])]

LEMMA Least ==
    ASSUME NEW S \in SUBSET Nat, S # {}
    PROVE  \E n \in S : \A m \in S : n <= m
  <1> DEFINE R == OpToRel(<, Nat)
  <1>1. PICK n \in S : \A m \in S : <<m, n>> \notin R
    BY NatLessThanWellFounded, WFMin
  <1>2. \A m \in S : ~ m < n
    BY <1>1 DEF OpToRel
  <1>3. QED
    BY <1>2

(* A set with every value of V whose inner values it has has them all.     *)
LEMMA Induction ==
    ASSUME NEW depth, Nests(depth), NEW T,
           \A x \in V : (\A i \in DOMAIN Inside(x) : Inside(x)[i] \in T) => x \in T
    PROVE  V \subseteq T
  <1> DEFINE Bad == {n \in Nat : \E x \in V : x \notin T /\ depth[x] = n}
  <1>1. SUFFICES ASSUME V \ T # {}  PROVE FALSE
    OBVIOUS
  <1>2. Bad # {} /\ Bad \in SUBSET Nat
    BY <1>1 DEF Nests
  <1>3. PICK n \in Bad : \A m \in Bad : n <= m
    BY <1>2, Least
  <1>4. PICK x \in V : x \notin T /\ depth[x] = n
    BY <1>3
  <1>5. PICK i \in DOMAIN Inside(x) : Inside(x)[i] \notin T
    BY <1>4
  <1>6. Inside(x)[i] \in V /\ depth[Inside(x)[i]] \in Nat /\ depth[Inside(x)[i]] < n /\ n \in Nat
    BY <1>3, <1>4, <1>5 DEF Nests
  <1>7. depth[Inside(x)[i]] \in Bad
    BY <1>5, <1>6
  <1>8. QED
    BY <1>3, <1>6, <1>7

(* The recursion defines a function.                                       *)
LEMMA Exists ==
    ASSUME NEW depth, Nests(depth)
    PROVE  \E f : Defines(f, V)
  <1> DEFINE Below(n) == {x \in V : depth[x] < n}
             Bad == {n \in Nat : ~ \E f : Defines(f, Below(n))}
  <1>1. Bad = {}
    <2>1. SUFFICES ASSUME Bad # {}  PROVE FALSE
      OBVIOUS
    <2>2. PICK n \in Bad : \A m \in Bad : n <= m
      BY <2>1, Least
    <2>3. n # 0
      <3>1. Below(0) = {}
        BY DEF Nests
      <3> DEFINE e == [x \in {} |-> x]
      <3>2. Defines(e, {})
        BY DEF Defines
      <3>3. QED
        BY <2>2, <3>1, <3>2
    <2>4. n \in Nat /\ n - 1 \in Nat /\ n - 1 < n
      BY <2>3
    <2>5. PICK f : Defines(f, Below(n - 1))
      <3>1. n - 1 \notin Bad
        <4> HIDE DEF Bad
        <4>1. QED
          BY <2>2, <2>4
      <3> HIDE DEF Below
      <3>2. QED
        BY <2>4, <3>1
    <2> DEFINE g == [x \in Below(n) |-> One(x, [i \in DOMAIN Inside(x) |-> f[Inside(x)[i]]])]
    <2>6. ASSUME NEW y \in Below(n - 1)
          PROVE  g[y] = f[y]
      <3>1. y \in Below(n)
        BY <2>4 DEF Nests
      <3>2. f[y] = One(y, [i \in DOMAIN Inside(y) |-> f[Inside(y)[i]]])
        BY <2>5 DEF Defines
      <3>3. QED
        BY <3>1, <3>2
    <2>7. ASSUME NEW x \in Below(n)
          PROVE  [i \in DOMAIN Inside(x) |-> g[Inside(x)[i]]]
                   = [i \in DOMAIN Inside(x) |-> f[Inside(x)[i]]]
      <3>1. \A i \in DOMAIN Inside(x) : Inside(x)[i] \in Below(n - 1)
        BY <2>4 DEF Nests
      <3> HIDE DEF g, Below
      <3>2. \A i \in DOMAIN Inside(x) : g[Inside(x)[i]] = f[Inside(x)[i]]
        BY <3>1, <2>6
      <3>3. QED
        BY <3>2
    <2>8. Defines(g, Below(n))
      <3> DEFINE h == [x \in Below(n) |-> One(x, [i \in DOMAIN Inside(x) |-> g[Inside(x)[i]]])]
      <3>1. \A x \in Below(n) : g[x] = h[x]
        BY <2>7
      <3>2. g = h
        BY <3>1
      <3>3. QED
        BY <3>2 DEF Defines
    <2>9. QED
      BY <2>2, <2>8
  <1>2. \A n \in Nat : \E f : Defines(f, Below(n))
    BY <1>1
  <1> DEFINE Up(x) == CHOOSE f : Defines(f, Below(depth[x] + 1))
             F == [x \in V |-> Up(x)[x]]
  <1>3. ASSUME NEW x \in V
        PROVE  Defines(Up(x), Below(depth[x] + 1)) /\ x \in Below(depth[x] + 1)
    BY <1>2 DEF Nests
  <1> HIDE DEF Up
  <1>4. \A x \in V : \A y \in V : depth[y] <= depth[x] => Up(x)[y] = Up(y)[y]
    <2> DEFINE T == {y \in V : \A x, z \in V :
                       depth[y] <= depth[x] /\ depth[y] <= depth[z] => Up(x)[y] = Up(z)[y]}
    <2>1. ASSUME NEW y \in V, \A i \in DOMAIN Inside(y) : Inside(y)[i] \in T
          PROVE  y \in T
      <3>1. SUFFICES ASSUME NEW x \in V, NEW z \in V, depth[y] <= depth[x], depth[y] <= depth[z]
                     PROVE  Up(x)[y] = Up(z)[y]
        BY <2>1
      <3>2. y \in Below(depth[x] + 1) /\ y \in Below(depth[z] + 1)
        BY <3>1 DEF Nests
      <3>3. /\ Up(x)[y] = One(y, [i \in DOMAIN Inside(y) |-> Up(x)[Inside(y)[i]]])
            /\ Up(z)[y] = One(y, [i \in DOMAIN Inside(y) |-> Up(z)[Inside(y)[i]]])
        <4> HIDE DEF Below
        <4>1. QED
          BY <1>3, <3>2 DEF Defines
      <3>4. \A i \in DOMAIN Inside(y) : Up(x)[Inside(y)[i]] = Up(z)[Inside(y)[i]]
        <4>1. SUFFICES ASSUME NEW i \in DOMAIN Inside(y)
                       PROVE  Up(x)[Inside(y)[i]] = Up(z)[Inside(y)[i]]
          OBVIOUS
        <4>2. Inside(y)[i] \in T /\ depth[Inside(y)[i]] < depth[y] /\ depth[Inside(y)[i]] \in Nat
              /\ depth[x] \in Nat /\ depth[y] \in Nat /\ depth[z] \in Nat
          BY <2>1 DEF Nests
        <4>3. QED
          BY <4>2, <3>1
      <3>5. QED
        BY <3>3, <3>4
    <2> HIDE DEF T
    <2>2. V \subseteq T
      BY <2>1, Induction
    <2>3. QED
      <3>1. \A x, y \in V : depth[x] \in Nat /\ depth[y] \in Nat
        BY DEF Nests
      <3>2. QED
        BY <2>2, <3>1 DEF T
  <1>5. ASSUME NEW x \in V
        PROVE  F[x] = One(x, [i \in DOMAIN Inside(x) |-> F[Inside(x)[i]]])
    <2>1. Up(x)[x] = One(x, [i \in DOMAIN Inside(x) |-> Up(x)[Inside(x)[i]]])
      <3> HIDE DEF Below
      <3>1. QED
        BY <1>3 DEF Defines
    <2>2. \A i \in DOMAIN Inside(x) : Up(x)[Inside(x)[i]] = F[Inside(x)[i]]
      <3>1. \A i \in DOMAIN Inside(x) :
              Inside(x)[i] \in V /\ depth[Inside(x)[i]] <= depth[x]
        BY DEF Nests
      <3>2. QED
        BY <1>4, <3>1
    <2>3. QED
      BY <2>1, <2>2
  <1>6. Defines(F, V)
    <2> DEFINE G == [x \in V |-> One(x, [i \in DOMAIN Inside(x) |-> F[Inside(x)[i]]])]
    <2> HIDE DEF F
    <2>1. \A x \in V : F[x] = G[x]
      BY <1>5
    <2>2. F = [x \in V |-> F[x]]
      BY DEF F
    <2>3. F = G
      BY <2>1, <2>2
    <2>4. QED
      BY <2>3 DEF Defines
  <1>7. QED
    BY <1>6
=============================================================================
