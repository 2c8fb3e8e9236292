------------------------- MODULE ClassChainsProofs -------------------------
(***************************************************************************)
(* The three views of the class hierarchy agree: the chain of tests gives  *)
(* each object the classes of its C++ ancestry, because bases are tested   *)
(* behind what derives from them, and so the classes R wrappers look at    *)
(* lead to the C++ functions whose casts succeed.                          *)
(***************************************************************************)
EXTENDS ClassChains, MemberLemmas

-----------------------------------------------------------------------------
(* The order of the tests.                                                 *)

(* The classes that have a test, and its place among them.                 *)
Place ==
    [ Timeline |-> 1, Stack |-> 2, Track |-> 3, Clip |-> 4, Gap |-> 5, Transition |-> 6,
      Marker |-> 7, FreezeFrame |-> 8, LinearTimeWarp |-> 9, TimeEffect |-> 10,
      Effect |-> 11, ExternalReference |-> 12, ImageSequenceReference |-> 13,
      GeneratorReference |-> 14, MissingReference |-> 15, MediaReference |-> 16,
      SerializableCollection |-> 17, Composition |-> 18, Item |-> 19, Composable |-> 20,
      SerializableObjectWithMetadata |-> 21, SerializableObject |-> 22 ]

Known == DOMAIN Place

Line == [c \in Things |-> IF c \in Known THEN ChainTests[Place[c]]
                          ELSE IF c = "UnknownSchema" THEN <<"UnknownSchema">> \o <<Root>>
                          ELSE <<c>>]

LEMMA KnownClasses ==
    /\ Known = {"Timeline", "Stack", "Track", "Clip", "Gap", "Transition", "Marker",
                "FreezeFrame", "LinearTimeWarp", "TimeEffect", "Effect",
                "ExternalReference", "ImageSequenceReference", "GeneratorReference",
                "MissingReference", "MediaReference", "SerializableCollection",
                "Composition", "Item", "Composable", "SerializableObjectWithMetadata", Root}
    /\ Classes = Known \cup {"UnknownSchema"}
    /\ DOMAIN Bases = (Known \cup {"UnknownSchema"}) \ {Root}
    /\ "UnknownSchema" \notin Known
  <1>1. Known = {"Timeline", "Stack", "Track", "Clip", "Gap", "Transition", "Marker",
                "FreezeFrame", "LinearTimeWarp", "TimeEffect", "Effect",
                "ExternalReference", "ImageSequenceReference", "GeneratorReference",
                "MissingReference", "MediaReference", "SerializableCollection",
                "Composition", "Item", "Composable", "SerializableObjectWithMetadata", Root}
    BY DEF Known, Place, Root
  <1>2. DOMAIN Bases =
               {"Timeline", "Stack", "Track", "Clip", "Gap", "Transition", "Marker",
                "FreezeFrame", "LinearTimeWarp", "TimeEffect", "Effect",
                "ExternalReference", "ImageSequenceReference", "GeneratorReference",
                "MissingReference", "MediaReference", "SerializableCollection",
                "Composition", "Item", "Composable", "SerializableObjectWithMetadata",
                "UnknownSchema"}
    BY DEF Bases
  <1>3. QED
    BY <1>1, <1>2 DEF Classes, Root

(* A class with a base is tested before it.                                *)
LEMMA BasesLater ==
    /\ \A c \in Known \ {Root} : Bases[c] \in Known /\ Place[c] < Place[Bases[c]]
    /\ \A c \in Known : Place[c] \in 1..22
    /\ Bases["UnknownSchema"] = Root /\ Place[Root] = 22
  BY KnownClasses DEF Bases, Place, Root

LEMMA Pairs ==
    ASSUME NEW S, NEW a \in S, NEW b \in S, NEW s \in Seq(S)
    PROVE  <<a>> \o (<<b>> \o s) = <<a, b>> \o s
  <1> DEFINE p == <<a>>
             q == <<b>>
             r == <<a, b>>
  <1>1. /\ p \in Seq(S) /\ Len(p) = 1 /\ p[1] = a /\ q \in Seq(S) /\ Len(q) = 1 /\ q[1] = b
        /\ r \in Seq(S) /\ Len(r) = 2 /\ r[1] = a /\ r[2] = b
    OBVIOUS
  <1> HIDE DEF p, q, r
  <1>2. p \o q \in Seq(S) /\ Len(p \o q) = 2 /\ (p \o q)[1] = a /\ (p \o q)[2] = b
    BY <1>1, ConcatProperties
  <1>3. p \o q = r
    BY <1>1, <1>2, SeqEqual
  <1>4. p \in Seq(S) /\ q \in Seq(S)
    BY <1>1
  <1>5. (p \o q) \o s = p \o (q \o s)
    BY ONLY <1>4, s \in Seq(S), ConcatAssociative
  <1>6. QED
    BY <1>3, <1>5 DEF p, q, r

LEMMA TestTable ==
    /\ DOMAIN ChainTests = 1..22 /\ Len(ChainTests) = 22
    /\ ChainTests[1] = <<"Timeline">> \o Meta
    /\ ChainTests[2] = <<"Stack", "Composition">> \o Items
    /\ ChainTests[3] = <<"Track", "Composition">> \o Items
    /\ ChainTests[4] = <<"Clip">> \o Items /\ ChainTests[5] = <<"Gap">> \o Items
    /\ ChainTests[6] = <<"Transition">> \o Composables
    /\ ChainTests[7] = <<"Marker">> \o Meta
    /\ ChainTests[8] = <<"FreezeFrame">> \o Warp /\ ChainTests[9] = Warp
    /\ ChainTests[10] = Tail(Warp) /\ ChainTests[11] = Tail(Tail(Warp))
    /\ ChainTests[12] = <<"ExternalReference">> \o Media
    /\ ChainTests[13] = <<"ImageSequenceReference">> \o Media
    /\ ChainTests[14] = <<"GeneratorReference">> \o Media
    /\ ChainTests[15] = <<"MissingReference">> \o Media /\ ChainTests[16] = Media
    /\ ChainTests[17] = <<"SerializableCollection">> \o Meta
    /\ ChainTests[18] = <<"Composition">> \o Items /\ ChainTests[19] = Items
    /\ ChainTests[20] = Composables /\ ChainTests[21] = Meta /\ ChainTests[22] = <<Root>>
  BY DEF ChainTests

LEMMA Pushed ==
    ASSUME NEW S, NEW a \in S, NEW s \in Seq(S)
    PROVE  <<a>> \o s \in Seq(S) /\ (<<a>> \o s)[1] = a
  <1> DEFINE p == <<a>>
  <1>1. p \in Seq(S) /\ Len(p) = 1 /\ p[1] = a
    OBVIOUS
  <1>2. Len(s) \in Nat
    BY LenProperties
  <1> HIDE DEF p
  <1>3. p \o s \in Seq(S) /\ (p \o s)[1] = a
    BY <1>1, <1>2, ConcatProperties
  <1>4. QED
    BY <1>3 DEF p

(* What a test gives is its class before what its base's test gives.       *)
LEMMA TestsNest ==
    \A c \in Known \ {Root} : ChainTests[Place[c]] = <<c>> \o ChainTests[Place[Bases[c]]]
  <1>1. /\ Place["Timeline"] = 1 /\ Place[Bases["Timeline"]] = 21
        /\ Place["Stack"] = 2 /\ Place[Bases["Stack"]] = 18
        /\ Place["Track"] = 3 /\ Place[Bases["Track"]] = 18
        /\ Place["Clip"] = 4 /\ Place[Bases["Clip"]] = 19
        /\ Place["Gap"] = 5 /\ Place[Bases["Gap"]] = 19
        /\ Place["Transition"] = 6 /\ Place[Bases["Transition"]] = 20
        /\ Place["Marker"] = 7 /\ Place[Bases["Marker"]] = 21
        /\ Place["FreezeFrame"] = 8 /\ Place[Bases["FreezeFrame"]] = 9
        /\ Place["LinearTimeWarp"] = 9 /\ Place[Bases["LinearTimeWarp"]] = 10
        /\ Place["TimeEffect"] = 10 /\ Place[Bases["TimeEffect"]] = 11
        /\ Place["Effect"] = 11 /\ Place[Bases["Effect"]] = 21
        /\ Place["ExternalReference"] = 12 /\ Place[Bases["ExternalReference"]] = 16
        /\ Place["ImageSequenceReference"] = 13 /\ Place[Bases["ImageSequenceReference"]] = 16
        /\ Place["GeneratorReference"] = 14 /\ Place[Bases["GeneratorReference"]] = 16
        /\ Place["MissingReference"] = 15 /\ Place[Bases["MissingReference"]] = 16
        /\ Place["MediaReference"] = 16 /\ Place[Bases["MediaReference"]] = 21
        /\ Place["SerializableCollection"] = 17 /\ Place[Bases["SerializableCollection"]] = 21
        /\ Place["Composition"] = 18 /\ Place[Bases["Composition"]] = 19
        /\ Place["Item"] = 19 /\ Place[Bases["Item"]] = 20
        /\ Place["Composable"] = 20 /\ Place[Bases["Composable"]] = 21
        /\ Place["SerializableObjectWithMetadata"] = 21 /\ Place[Bases["SerializableObjectWithMetadata"]] = 22
    BY DEF Place, Bases, Root
  <1>2. Meta = <<"SerializableObjectWithMetadata">> \o <<Root>>
    BY DEF Meta
  <1>3. Warp = <<"LinearTimeWarp">> \o Tail(Warp)
    BY DEF Warp, Meta
  <1>4. Tail(Warp) = <<"TimeEffect">> \o Tail(Tail(Warp))
    BY DEF Warp, Meta
  <1>5. Tail(Tail(Warp)) = <<"Effect">> \o Meta
    BY DEF Warp, Meta
  <1>6. Items = <<"Item">> \o Composables /\ Composables = <<"Composable">> \o Meta
        /\ Media = <<"MediaReference">> \o Meta
    BY DEF Items, Composables, Media
  <1>7. Items \in Seq(Known)
    <2>1. Root \in Known /\ <<Root>> \in Seq(Known)
      BY KnownClasses, SingleRange
    <2>2. Meta \in Seq(Known)
      BY <1>2, <2>1, KnownClasses, Pushed
    <2>3. Composables \in Seq(Known)
      BY <1>6, <2>2, KnownClasses, Pushed
    <2>4. QED
      BY <1>6, <2>3, KnownClasses, Pushed
  <1>8. /\ <<"Stack", "Composition">> \o Items = <<"Stack">> \o (<<"Composition">> \o Items)
        /\ <<"Track", "Composition">> \o Items = <<"Track">> \o (<<"Composition">> \o Items)
    <2>1. "Stack" \in Known /\ "Track" \in Known /\ "Composition" \in Known
      BY KnownClasses
    <2>2. QED
      BY <1>7, <2>1, Pairs
  <1> DEFINE T == ChainTests
             Nests(c) == T[Place[c]] = <<c>> \o T[Place[Bases[c]]]
  <1>9. /\ T[1] = <<"Timeline">> \o T[21] /\ T[2] = <<"Stack">> \o T[18]
        /\ T[3] = <<"Track">> \o T[18] /\ T[4] = <<"Clip">> \o T[19]
        /\ T[5] = <<"Gap">> \o T[19] /\ T[6] = <<"Transition">> \o T[20]
        /\ T[7] = <<"Marker">> \o T[21] /\ T[8] = <<"FreezeFrame">> \o T[9]
        /\ T[9] = <<"LinearTimeWarp">> \o T[10] /\ T[10] = <<"TimeEffect">> \o T[11]
        /\ T[11] = <<"Effect">> \o T[21] /\ T[12] = <<"ExternalReference">> \o T[16]
        /\ T[13] = <<"ImageSequenceReference">> \o T[16]
        /\ T[14] = <<"GeneratorReference">> \o T[16]
        /\ T[15] = <<"MissingReference">> \o T[16] /\ T[16] = <<"MediaReference">> \o T[21]
        /\ T[17] = <<"SerializableCollection">> \o T[21] /\ T[18] = <<"Composition">> \o T[19]
        /\ T[19] = <<"Item">> \o T[20] /\ T[20] = <<"Composable">> \o T[21]
        /\ T[21] = <<"SerializableObjectWithMetadata">> \o T[22]
    BY <1>2, <1>3, <1>4, <1>5, <1>6, <1>8, TestTable
  <1> HIDE DEF T
  <1>10. /\ Nests("Timeline") /\ Nests("Stack") /\ Nests("Track") /\ Nests("Clip")
         /\ Nests("Gap") /\ Nests("Transition") /\ Nests("Marker")
         /\ Nests("FreezeFrame") /\ Nests("LinearTimeWarp") /\ Nests("TimeEffect")
         /\ Nests("Effect") /\ Nests("ExternalReference")
         /\ Nests("ImageSequenceReference") /\ Nests("GeneratorReference")
         /\ Nests("MissingReference") /\ Nests("MediaReference")
         /\ Nests("SerializableCollection") /\ Nests("Composition")
         /\ Nests("Item") /\ Nests("Composable")
         /\ Nests("SerializableObjectWithMetadata")
    BY <1>1, <1>9
  <1> HIDE DEF Nests
  <1>11. \A c \in Known \ {Root} : Nests(c)
    BY <1>10, KnownClasses
  <1>12. QED
    BY <1>11 DEF T, Nests

(* What passes from the base of a class to the class holds of all that     *)
(* have a test.                                                            *)
LEMMA FromTheRoot ==
    ASSUME NEW S, Root \in S, \A c \in Known \ {Root} : Bases[c] \in S => c \in S
    PROVE  Known \subseteq S
  <1>1. /\ Bases["SerializableObjectWithMetadata"] = Root
        /\ Bases["Composable"] = "SerializableObjectWithMetadata"
        /\ Bases["Item"] = "Composable" /\ Bases["Composition"] = "Item"
        /\ Bases["MediaReference"] = "SerializableObjectWithMetadata"
        /\ Bases["Effect"] = "SerializableObjectWithMetadata"
        /\ Bases["TimeEffect"] = "Effect" /\ Bases["LinearTimeWarp"] = "TimeEffect"
        /\ \A c \in Known \ {Root} :
             Bases[c] \in {"SerializableObjectWithMetadata", "Composable", "Item",
                "Composition", "MediaReference", "Effect", "TimeEffect", "LinearTimeWarp", Root}
    BY KnownClasses DEF Bases, Root
  <1>2. {"SerializableObjectWithMetadata", "Composable", "Item", "Composition",
         "MediaReference", "Effect", "TimeEffect", "LinearTimeWarp"} \subseteq Known \ {Root}
    BY KnownClasses DEF Root
  <1>3. "SerializableObjectWithMetadata" \in S
    BY <1>1, <1>2
  <1>4. "Composable" \in S /\ "MediaReference" \in S /\ "Effect" \in S
    BY <1>1, <1>2, <1>3
  <1>5. "Item" \in S /\ "TimeEffect" \in S
    BY <1>1, <1>2, <1>4
  <1>6. "Composition" \in S /\ "LinearTimeWarp" \in S
    BY <1>1, <1>2, <1>5
  <1>7. ASSUME NEW c \in Known \ {Root}  PROVE c \in S
    BY <1>1, <1>3, <1>4, <1>5, <1>6
  <1>8. QED
    BY <1>7

LEMMA TestsTyped ==
    /\ \A c \in Known : ChainTests[Place[c]] \in Seq(Known) /\ ChainTests[Place[c]][1] = c
    /\ \A i \in 1..22 : \E c \in Known : Place[c] = i
  <1> DEFINE Typed == {c \in Known : ChainTests[Place[c]] \in Seq(Known) /\ ChainTests[Place[c]][1] = c}
  <1>1. ASSUME NEW c \in Known \ {Root}, Bases[c] \in Typed  PROVE c \in Typed
    <2> DEFINE t == ChainTests[Place[Bases[c]]]
    <2>1. t \in Seq(Known)
      BY <1>1
    <2>2. ChainTests[Place[c]] = <<c>> \o t
      BY TestsNest
    <2> HIDE DEF t
    <2>3. <<c>> \o t \in Seq(Known) /\ (<<c>> \o t)[1] = c
      BY <2>1, Pushed
    <2>4. QED
      BY <2>2, <2>3
  <1>2. Root \in Typed
    <2>1. Root \in Known /\ ChainTests[Place[Root]] = <<Root>>
      BY KnownClasses, BasesLater, TestTable
    <2>2. <<Root>> \in Seq(Known) /\ <<Root>>[1] = Root
      BY <2>1, SingleRange
    <2>3. QED
      BY <2>1, <2>2
  <1> HIDE DEF Typed
  <1>3. Known \subseteq Typed
    BY <1>1, <1>2, FromTheRoot
  <1>4. ASSUME NEW i \in 1..22  PROVE \E c \in Known : Place[c] = i
    BY KnownClasses DEF Place, Root
  <1>5. QED
    BY <1>3, <1>4 DEF Typed


-----------------------------------------------------------------------------
(* The ancestry of a class.                                                *)

LEMMA PushedRange ==
    ASSUME NEW S, NEW a \in S, NEW s \in Seq(S)
    PROVE  Range(<<a>> \o s) = {a} \cup Range(s) /\ Range(s \o <<a>>) = Range(s) \cup {a}
  <1> DEFINE p == <<a>>
             t == p \o s
             u == s \o p
             n == Len(s)
  <1>1. p \in Seq(S) /\ Len(p) = 1 /\ p[1] = a /\ n \in Nat
    BY SingleRange, LenProperties
  <1> HIDE DEF p
  <1>2. /\ t \in Seq(S) /\ Len(t) = 1 + n /\ u \in Seq(S) /\ Len(u) = n + 1
        /\ \A i \in 1..(1 + n) : t[i] = IF i <= 1 THEN p[i] ELSE s[i - 1]
        /\ \A i \in 1..(n + 1) : u[i] = IF i <= n THEN s[i] ELSE p[i - n]
    <2>1. /\ t \in Seq(S) /\ Len(t) = Len(p) + Len(s)
          /\ \A i \in 1..(Len(p) + Len(s)) : t[i] = IF i <= Len(p) THEN p[i] ELSE s[i - Len(p)]
      BY <1>1, ConcatProperties
    <2>2. /\ u \in Seq(S) /\ Len(u) = Len(s) + Len(p)
          /\ \A i \in 1..(Len(s) + Len(p)) : u[i] = IF i <= Len(s) THEN s[i] ELSE p[i - Len(s)]
      BY <1>1, ConcatProperties
    <2> HIDE DEF t, u
    <2>3. QED
      BY <1>1, <2>1, <2>2
  <1>3. DOMAIN s = 1..n /\ DOMAIN t = 1..(1 + n) /\ DOMAIN u = 1..(n + 1)
    BY <1>2, LenProperties
  <1> HIDE DEF t, u, n
  <1>4. t[1] = a /\ u[n + 1] = a
    BY <1>1, <1>2
  <1>5. \A i \in 1..n : i + 1 \in 1..(1 + n) /\ t[i + 1] = s[i] /\ i \in 1..(n + 1) /\ u[i] = s[i]
    BY <1>1, <1>2
  <1>6. \A i \in 1..(1 + n) : i = 1 \/ (i - 1 \in 1..n /\ t[i] = s[i - 1])
    BY <1>1, <1>2
  <1>7. \A i \in 1..(n + 1) : i = n + 1 \/ (i \in 1..n /\ u[i] = s[i])
    BY <1>1, <1>2
  <1>8. Range(t) = {a} \cup Range(s)
    <2>1. \A e \in Range(t) : e \in {a} \cup Range(s)
      BY <1>3, <1>4, <1>6 DEF Range
    <2>2. \A e \in Range(s) : e \in Range(t)
      BY <1>3, <1>5 DEF Range
    <2>3. a \in Range(t)
      BY <1>1, <1>3, <1>4 DEF Range
    <2>4. QED
      BY <2>1, <2>2, <2>3
  <1>9. Range(u) = Range(s) \cup {a}
    <2>1. \A e \in Range(u) : e \in {a} \cup Range(s)
      BY <1>3, <1>4, <1>7 DEF Range
    <2>2. \A e \in Range(s) : e \in Range(u)
      BY <1>3, <1>5 DEF Range
    <2>3. a \in Range(u)
      BY <1>1, <1>3, <1>4 DEF Range
    <2>4. QED
      BY <2>1, <2>2, <2>3
  <1>10. QED
    BY <1>8, <1>9 DEF t, u, p

LEMMA LineObeys ==
    \A c \in Things : Line[c] = IF c \in DOMAIN Bases THEN <<c>> \o Line[Bases[c]] ELSE <<c>>
  <1> SUFFICES ASSUME NEW c \in Things
               PROVE  Line[c] = IF c \in DOMAIN Bases THEN <<c>> \o Line[Bases[c]] ELSE <<c>>
    OBVIOUS
  <1>1. Known \subseteq Things /\ Root \in Known
    BY KnownClasses DEF Things
  <1>2. ChainTests[Place[Root]] = <<Root>>
    BY BasesLater, TestTable
  <1>3. CASE c \in Known \ {Root}
    <2>1. c \in DOMAIN Bases /\ Bases[c] \in Known
      BY <1>3, BasesLater, KnownClasses
    <2>2. Line[c] = ChainTests[Place[c]] /\ Line[Bases[c]] = ChainTests[Place[Bases[c]]]
      BY <1>1, <1>3, <2>1 DEF Line
    <2>3. QED
      BY <1>3, <2>1, <2>2, TestsNest
  <1>4. CASE c = Root
    <2>1. c \notin DOMAIN Bases
      BY <1>4, KnownClasses
    <2>2. Line[c] = <<c>>
      BY <1>1, <1>2, <1>4 DEF Line
    <2>3. QED
      BY <2>1, <2>2
  <1>5. CASE c = "UnknownSchema"
    <2>1. c \in DOMAIN Bases /\ Bases[c] = Root /\ c \notin Known
      BY <1>5, BasesLater, KnownClasses DEF Root
    <2>2. Line[c] = <<"UnknownSchema">> \o <<Root>> /\ Line[Root] = <<Root>>
      BY <1>1, <1>2, <1>5, <2>1 DEF Line
    <2>3. QED
      BY <1>5, <2>1, <2>2
  <1>6. CASE c \notin Classes
    <2>1. c \notin Known /\ c # "UnknownSchema" /\ c \notin DOMAIN Bases
      BY <1>6, KnownClasses
    <2>2. QED
      BY <2>1 DEF Line
  <1>7. QED
    BY <1>3, <1>4, <1>5, <1>6, KnownClasses

(* There is such a function, so Ancestry is one.                           *)
LEMMA AncestryRule ==
    \A c \in Things :
        Ancestry[c] = IF c \in DOMAIN Bases THEN <<c>> \o Ancestry[Bases[c]] ELSE <<c>>
  <1>1. Line = [c \in Things |-> IF c \in DOMAIN Bases THEN <<c>> \o Line[Bases[c]] ELSE <<c>>]
    BY LineObeys DEF Line
  <1>2. Ancestry = [c \in Things |-> IF c \in DOMAIN Bases
                                      THEN <<c>> \o Ancestry[Bases[c]] ELSE <<c>>]
    BY <1>1 DEF Ancestry
  <1>3. QED
    BY <1>2

(* The tests give the ancestry of their classes.                           *)
LEMMA TestIsAncestry ==
    /\ \A c \in Known : ChainTests[Place[c]] = Ancestry[c] /\ Ancestry[c] \in Seq(Known)
    /\ \A c \in Known \ {Root} : Range(Ancestry[c]) = {c} \cup Range(Ancestry[Bases[c]])
    /\ Range(Ancestry[Root]) = {Root}
    /\ Range(Ancestry["UnknownSchema"]) = {"UnknownSchema", Root}
    /\ \A c \in {"TimeRange", "list"} : Range(Ancestry[c]) = {c}
  <1>1. Known \subseteq Things /\ Root \in Known /\ "UnknownSchema" \in Things
        /\ {"TimeRange", "list"} \subseteq Things
    BY KnownClasses DEF Things
  <1>2. Ancestry[Root] = <<Root>>
    BY <1>1, AncestryRule, KnownClasses
  <1> DEFINE S == {c \in Known : ChainTests[Place[c]] = Ancestry[c]}
  <1>3. Root \in S
    BY <1>1, <1>2, BasesLater, TestTable
  <1>4. ASSUME NEW c \in Known \ {Root}, Bases[c] \in S  PROVE c \in S
    BY <1>1, <1>4, AncestryRule, TestsNest, KnownClasses
  <1> HIDE DEF S
  <1>5. Known \subseteq S
    BY <1>3, <1>4, FromTheRoot
  <1>6. \A c \in Known : ChainTests[Place[c]] = Ancestry[c] /\ Ancestry[c] \in Seq(Known)
    BY <1>5, TestsTyped DEF S
  <1>7. ASSUME NEW c \in Known \ {Root}
        PROVE  Range(Ancestry[c]) = {c} \cup Range(Ancestry[Bases[c]])
    <2>1. Bases[c] \in Known /\ c \in DOMAIN Bases
      BY BasesLater, KnownClasses
    <2>2. Ancestry[Bases[c]] \in Seq(Known)
      BY <1>6, <2>1
    <2>3. Ancestry[c] = <<c>> \o Ancestry[Bases[c]]
      BY <1>1, <2>1, AncestryRule
    <2>4. QED
      BY <2>2, <2>3, PushedRange
  <1>8. Range(Ancestry[Root]) = {Root}
    BY <1>2, SingleRange
  <1>9. Range(Ancestry["UnknownSchema"]) = {"UnknownSchema", Root}
    <2>1. "UnknownSchema" \in DOMAIN Bases /\ Bases["UnknownSchema"] = Root
      BY BasesLater, KnownClasses DEF Root
    <2>2. Ancestry["UnknownSchema"] = <<"UnknownSchema">> \o <<Root>>
      BY <1>1, <1>2, <2>1, AncestryRule
    <2>3. <<Root>> \in Seq(Classes) /\ "UnknownSchema" \in Classes
      BY <1>1, KnownClasses, SingleRange
    <2>4. QED
      BY <1>2, <1>8, <2>2, <2>3, PushedRange
  <1>10. ASSUME NEW c \in {"TimeRange", "list"}  PROVE Range(Ancestry[c]) = {c}
    <2>1. c \notin DOMAIN Bases /\ c \in Things
      BY <1>1, KnownClasses DEF Root
    <2>2. Ancestry[c] = <<c>>
      BY <2>1, AncestryRule
    <2>3. QED
      BY <2>2, SingleRange
  <1>11. QED
    BY <1>6, <1>7, <1>8, <1>9, <1>10

(* Every class is tested before all its bases.                             *)
LEMMA AncestorsLater ==
    \A c \in Known : /\ c \in Range(Ancestry[c]) /\ Range(Ancestry[c]) \subseteq Known
                     /\ \A b \in Range(Ancestry[c]) : Place[c] <= Place[b]
  <1> DEFINE S == {c \in Known : /\ c \in Range(Ancestry[c]) /\ Range(Ancestry[c]) \subseteq Known
                                 /\ \A b \in Range(Ancestry[c]) : Place[c] <= Place[b]}
  <1>1. Root \in S
    BY TestIsAncestry, KnownClasses, BasesLater
  <1>2. ASSUME NEW c \in Known \ {Root}, Bases[c] \in S  PROVE c \in S
    <2>1. Range(Ancestry[c]) = {c} \cup Range(Ancestry[Bases[c]])
      BY TestIsAncestry
    <2>2. \A b \in Known : Place[b] \in Int
      BY BasesLater
    <2>3. \A b \in Range(Ancestry[c]) : b \in Known /\ Place[c] <= Place[b]
      BY <1>2, <2>1, <2>2, BasesLater
    <2>4. QED
      BY <2>1, <2>3
  <1> HIDE DEF S
  <1>3. Known \subseteq S
    BY <1>1, <1>2, FromTheRoot
  <1>4. QED
    BY <1>3 DEF S

(* So the first test that succeeds is that of the class itself; an object  *)
(* of a schema that is not known passes the last one only.                 *)
LEMMA FirstTestIsOwn ==
    ASSUME NEW c \in Classes
    PROVE  FirstTest(c) = Place[IF c = "UnknownSchema" THEN Root ELSE c]
  <1> DEFINE own == IF c = "UnknownSchema" THEN Root ELSE c
             p == Place[own]
             Hit(i) == ChainTests[i][1] \in Range(Ancestry[c])
             First(i) == Hit(i) /\ \A j \in 1..i - 1 : ~Hit(j)
  <1>1. own \in Known /\ p \in 1..22
    BY KnownClasses, BasesLater
  <1>2. own \in Range(Ancestry[c])
    BY <1>1, AncestorsLater, TestIsAncestry
  <1>3. \A b \in Known : b \in Range(Ancestry[c]) => p <= Place[b]
    <2>1. CASE c = "UnknownSchema"
      BY <2>1, TestIsAncestry, KnownClasses, BasesLater
    <2>2. CASE c # "UnknownSchema"
      BY <1>1, <2>2, AncestorsLater
    <2>3. QED
      BY <2>1, <2>2
  <1>4. \A i \in 1..22 : \E b \in Known : Place[b] = i /\ ChainTests[i][1] = b
    BY TestsTyped
  <1> HIDE DEF own
  <1>5. Hit(p)
    BY <1>1, <1>2, TestsTyped
  <1>6. ASSUME NEW j \in 1..22, j < p  PROVE ~Hit(j)
    <2>1. PICK b \in Known : Place[b] = j /\ ChainTests[j][1] = b
      BY <1>4
    <2>2. b \notin Range(Ancestry[c])
      BY <1>1, <1>3, <1>6, <2>1
    <2>3. QED
      BY <2>1, <2>2
  <1> HIDE DEF Hit, p
  <1>7. First(p)
    BY <1>1, <1>5, <1>6
  <1>8. ASSUME NEW i \in 1..22, First(i)  PROVE i = p
    BY <1>1, <1>5, <1>6, <1>8
  <1> HIDE DEF First
  <1>9. (CHOOSE i \in 1..22 : First(i)) = p
    BY <1>1, <1>7, <1>8
  <1>10. QED
    BY <1>9, TestTable DEF FirstTest, otio_get, First, Hit, p, own

LEMMA ChainIs ==
    ASSUME NEW c \in Classes
    PROVE  ClassAttribute(c) = Ancestry[IF c = "UnknownSchema" THEN Root ELSE c] \o <<"otio">>
  <1> DEFINE own == IF c = "UnknownSchema" THEN Root ELSE c
  <1>1. own \in Known
    BY KnownClasses
  <1>2. FirstTest(c) = Place[own]
    BY FirstTestIsOwn
  <1> HIDE DEF own
  <1>3. ChainTests[FirstTest(c)] = Ancestry[own]
    BY <1>1, <1>2, TestIsAncestry
  <1>4. QED
    BY <1>3 DEF ClassAttribute, otio_class_chain, own


(* Whatever object R code holds, it is known by its C++ class and that     *)
(* class's bases, nearest first, and by the root alone when the library    *)
(* does not know its schema: no test of src/src/otio_xptr.cpp hides        *)
(* another.                                                                *)
THEOREM ChainsAreAncestries == Spec => []ChainIsAncestry
  <1>1. ChainIsAncestry
    BY ChainIs DEF ChainIsAncestry
  <1>2. QED
    BY <1>1, PTL

-----------------------------------------------------------------------------
(* What wrappers test with inherits() and what C++ casts to.               *)

LEMMA SeqOfMore ==
    ASSUME NEW S, NEW T, S \subseteq T, NEW s \in Seq(S)
    PROVE  s \in Seq(T)
  <1>1. Len(s) \in Nat /\ DOMAIN s = 1..Len(s) /\ s = [i \in 1..Len(s) |-> s[i]]
    BY LenProperties
  <1>2. \A i \in 1..Len(s) : s[i] \in T
    BY ElementOfSeq
  <1>3. s \in [1..Len(s) -> T]
    BY <1>1, <1>2
  <1>4. QED
    BY <1>1, <1>3, FunctionIsSeq

(* The S3 classes of an object are those that it can be cast to, but for   *)
(* the class that only a schema unknown to the library has and the one     *)
(* that all handles carry.                                                 *)
LEMMA Inherited ==
    ASSUME NEW c \in Things, NEW t, t \notin {"otio", "UnknownSchema"}
    PROVE  inherits(c, t) <=> otio_get(t, c)
  <1>1. CASE c \in Classes
    <2> DEFINE own == IF c = "UnknownSchema" THEN Root ELSE c
               a == Ancestry[own]
    <2>1. own \in Known /\ (c # "UnknownSchema" => own = c)
      BY <1>1, KnownClasses
    <2>2. a \in Seq(Known \cup {"otio"})
      BY <2>1, TestIsAncestry, SeqOfMore
    <2>3. ClassAttribute(c) = a \o <<"otio">>
      BY <1>1, ChainIs
    <2> HIDE DEF a
    <2>4. Range(ClassAttribute(c)) = Range(a) \cup {"otio"}
      BY <2>2, <2>3, PushedRange
    <2>5. CASE c = "UnknownSchema"
      <3>1. Range(a) = {Root} /\ Range(Ancestry[c]) = {"UnknownSchema", Root}
        BY <2>5, TestIsAncestry DEF a
      <3>2. QED
        BY <2>4, <3>1 DEF inherits, otio_get
    <2>6. CASE c # "UnknownSchema"
      <3>1. a = Ancestry[c]
        BY <2>1, <2>6 DEF a
      <3>2. QED
        BY <2>4, <3>1 DEF inherits, otio_get
    <2>7. QED
      BY <2>5, <2>6
  <1>2. CASE c \notin Classes
    <2>1. c \in {"TimeRange", "list"}
      BY <1>2 DEF Things
    <2>2. Range(Ancestry[c]) = {c}
      BY <2>1, TestIsAncestry
    <2>3. ClassAttribute(c) = <<c>> /\ Range(<<c>>) = {c}
      BY <1>2, SingleRange DEF ClassAttribute
    <2>4. QED
      BY <2>2, <2>3 DEF inherits, otio_get
  <1>3. QED
    BY <1>1, <1>2

(* The classes that a wrapper tests for and the one that it falls back to  *)
(* are the documented ones.                                                *)
LEMMA BranchesDocumented ==
    ASSUME NEW f \in Wrappers
    PROVE  /\ \/ Tested(f) = <<>>
              \/ Tested(f) \in {<<"SerializableCollection">>, <<"Effect">>,
                                <<"MediaReference">>, <<"Transition">>, <<"Stack">>,
                                <<"Timeline", "SerializableCollection">>,
                                <<"TimeRange", "Timeline">>}
           /\ DocumentedX(f) = Range(Tested(f)) \cup {Otherwise(f)}
  <1>1. /\ Range(<<>>) = {} /\ \A a, b : Range(<<a>>) = {a} /\ Range(<<a, b>>) = {a, b}
    BY DEF Range
  <1>2. CASE f \in {"append_child"} \cup Queries
    <2>1. Tested(f) = <<>> /\ Otherwise(f) = "Composition" /\ DocumentedX(f) = {"Composition"}
      BY <1>2 DEF Tested, Otherwise, DocumentedX, Wrappers, ChildOps, ChildTakers, Queries,
            Untested, Enabling, InParent
    <2>2. QED
      BY <1>1, <2>1
  <1>3. CASE f \in ChildOps \ Untested
    <2>1. Tested(f) = <<"SerializableCollection">> /\ Otherwise(f) = "Composition"
          /\ DocumentedX(f) = {"Composition", "SerializableCollection"}
      BY <1>3 DEF Tested, Otherwise, DocumentedX, Wrappers, ChildOps, ChildTakers, Queries,
            Untested, Enabling, InParent
    <2>2. QED
      BY <1>1, <2>1
  <1>4. CASE f = "find_clips"
    <2>1. Tested(f) = <<"Timeline", "SerializableCollection">> /\ Otherwise(f) = "Composition"
          /\ DocumentedX(f) = {"Composition", "Timeline", "SerializableCollection"}
      BY <1>4 DEF Tested, Otherwise, DocumentedX, Wrappers, ChildOps, ChildTakers, Queries,
            Untested, Enabling, InParent
    <2>2. QED
      BY <1>1, <2>1
  <1>5. CASE f \in Enabling
    <2>1. Tested(f) = <<"Effect">> /\ Otherwise(f) = "Item" /\ DocumentedX(f) = {"Item", "Effect"}
      BY <1>5 DEF Tested, Otherwise, DocumentedX, Wrappers, ChildOps, ChildTakers, Queries,
            Untested, Enabling, InParent
    <2>2. QED
      BY <1>1, <2>1
  <1>6. CASE f = "duration"
    <2>1. Tested(f) = <<"TimeRange", "Timeline">> /\ Otherwise(f) = "Composable"
          /\ DocumentedX(f) = {"TimeRange", "Timeline", "Composable"}
      BY <1>6 DEF Tested, Otherwise, DocumentedX, Wrappers, ChildOps, ChildTakers, Queries,
            Untested, Enabling, InParent
    <2>2. QED
      BY <1>1, <2>1
  <1>7. CASE f = "available_range"
    <2>1. Tested(f) = <<"MediaReference">> /\ Otherwise(f) = "Item"
          /\ DocumentedX(f) = {"Item", "MediaReference"}
      BY <1>7 DEF Tested, Otherwise, DocumentedX, Wrappers, ChildOps, ChildTakers, Queries,
            Untested, Enabling, InParent
    <2>2. QED
      BY <1>1, <2>1
  <1>8. CASE f \in InParent
    <2>1. Tested(f) = <<"Transition">> /\ Otherwise(f) = "Item" /\ DocumentedX(f) = {"Item", "Transition"}
      BY <1>8 DEF Tested, Otherwise, DocumentedX, Wrappers, ChildOps, ChildTakers, Queries,
            Untested, Enabling, InParent
    <2>2. QED
      BY <1>1, <2>1
  <1>9. CASE f = "flatten_stack"
    <2>1. Tested(f) = <<"Stack">> /\ Otherwise(f) = "list" /\ DocumentedX(f) = {"Stack", "list"}
      BY <1>9 DEF Tested, Otherwise, DocumentedX, Wrappers, ChildOps, ChildTakers, Queries,
            Untested, Enabling, InParent
    <2>2. QED
      BY <1>1, <2>1
  <1>10. QED
    BY <1>2, <1>3, <1>4, <1>5, <1>6, <1>7, <1>8, <1>9 DEF Wrappers, ChildOps, ChildTakers,
          Queries, Untested, Enabling, InParent

(* The first class that matches, and the fallback when none does, is one   *)
(* the object can be cast to exactly when it is of a documented class.     *)
LEMMA BranchCasts ==
    ASSUME NEW f \in Wrappers, NEW c \in Things
    PROVE  otio_get(Branch(f, c), c) <=> IsA(c, DocumentedX(f))
  <1> DEFINE t == Tested(f)
             hits == {i \in DOMAIN t : inherits(c, t[i])}
  <1>1. /\ DOMAIN t \subseteq {1, 2} /\ \A i \in DOMAIN t : t[i] \notin {"otio", "UnknownSchema"}
        /\ DocumentedX(f) = Range(t) \cup {Otherwise(f)}
    BY BranchesDocumented
  <1>2. \A i \in DOMAIN t : inherits(c, t[i]) <=> otio_get(t[i], c)
    BY <1>1, Inherited
  <1>3. Branch(f, c) = IF hits = {} THEN Otherwise(f) ELSE t[Min(hits)]
    BY DEF Branch
  <1>4. hits \subseteq DOMAIN t /\ \A i \in hits : otio_get(t[i], c)
    BY <1>2
  <1>5. CASE hits = {}
    <2>1. \A b \in Range(t) : ~otio_get(b, c)
      BY <1>2, <1>5 DEF Range
    <2>2. QED
      BY <1>1, <1>3, <1>5, <2>1 DEF IsA, otio_get
  <1>6. CASE hits # {}
    <2> HIDE DEF hits, t
    <2>1. Min(hits) \in hits
      BY <1>1, <1>4, <1>6 DEF Min
    <2>2. t[Min(hits)] \in Range(t) /\ otio_get(t[Min(hits)], c)
      BY <1>4, <2>1 DEF Range
    <2>3. QED
      BY <1>1, <1>3, <1>6, <2>2 DEF IsA, otio_get
  <1>7. QED
    BY <1>5, <1>6


(* No object is a composition and a collection, so a child is cast to the  *)
(* type that the branch taken for its holder wants.                        *)
LEMMA HoldersDiffer ==
    ASSUME NEW c \in Things, otio_get("SerializableCollection", c)
    PROVE  ~otio_get("Composition", c)
  <1> DEFINE S == {d \in Known : "SerializableCollection" \in Range(Ancestry[d])
                                   => d = "SerializableCollection"}
  <1>1. Root \in S
    BY TestIsAncestry, KnownClasses DEF Root
  <1>2. ASSUME NEW d \in Known \ {Root}, Bases[d] \in S  PROVE d \in S
    <2>1. Bases[d] # "SerializableCollection"
      BY KnownClasses DEF Bases, Root
    <2>2. Range(Ancestry[d]) = {d} \cup Range(Ancestry[Bases[d]])
      BY TestIsAncestry
    <2>3. QED
      BY <1>2, <2>1, <2>2
  <1> HIDE DEF S
  <1>3. Known \subseteq S
    BY <1>1, <1>2, FromTheRoot
  <1>4. c \notin {"UnknownSchema", "TimeRange", "list"}
    BY TestIsAncestry DEF otio_get, Root
  <1>5. c \in Known
    BY <1>4, KnownClasses DEF Things
  <1>6. c = "SerializableCollection"
    BY <1>3, <1>5 DEF S, otio_get
  <1> DEFINE d == "SerializableObjectWithMetadata"
  <1>7. Bases[c] = d /\ Bases[d] = Root /\ c \in Known \ {Root} /\ d \in Known \ {Root}
    BY <1>6, KnownClasses DEF Bases, Root
  <1>8. "Composition" \notin {c, d, Root}
    BY <1>6 DEF Root
  <1> HIDE DEF d
  <1>9. Range(Ancestry[d]) = {d} \cup {Root} /\ Range(Ancestry[c]) = {c} \cup Range(Ancestry[d])
    BY <1>7, TestIsAncestry
  <1>10. QED
    BY <1>8, <1>9 DEF otio_get

(* Which of the two a wrapper that takes a child goes to.                  *)
LEMMA HolderBranch ==
    ASSUME NEW f \in ChildTakers, NEW c \in Things
    PROVE  IF f \in Untested THEN Branch(f, c) = "Composition"
           ELSE Branch(f, c) = IF otio_get("SerializableCollection", c)
                               THEN "SerializableCollection" ELSE "Composition"
  <1>1. Otherwise(f) = "Composition"
    BY DEF Otherwise, ChildTakers, Queries, ChildOps, Untested, Enabling, InParent
  <1>2. CASE f \in Untested
    <2>1. DOMAIN Tested(f) = {}
      BY <1>2 DEF Tested, ChildTakers, Queries, ChildOps, Untested, Enabling, InParent
    <2>2. QED
      BY <1>1, <1>2, <2>1 DEF Branch
  <1>3. CASE f \notin Untested
    <2> DEFINE t == Tested(f)
               hits == {i \in DOMAIN t : inherits(c, t[i])}
    <2>1. t = <<"SerializableCollection">>
      BY <1>3 DEF Tested, ChildTakers, Queries, ChildOps, Untested, Enabling, InParent
    <2>2. DOMAIN t = {1} /\ t[1] = "SerializableCollection"
      BY <2>1
    <2>3. Branch(f, c) = IF hits = {} THEN "Composition" ELSE t[Min(hits)]
      BY <1>1 DEF Branch
    <2> HIDE DEF t
    <2>4. inherits(c, t[1]) <=> otio_get("SerializableCollection", c)
      BY <2>2, Inherited
    <2>5. hits = IF otio_get("SerializableCollection", c) THEN {1} ELSE {}
      BY <2>2, <2>4
    <2>6. Min({1}) = 1
      BY DEF Min
    <2> HIDE DEF hits
    <2>7. QED
      BY <1>3, <2>2, <2>3, <2>5, <2>6
  <1>4. QED
    BY <1>2, <1>3

LEMMA CallAsDocumented ==
    ASSUME x \in Things, NEW f \in Wrappers, NEW child, Call(f, child)
    PROVE  DocumentedCalls'
  <1> DEFINE b == Branch(f, x)
             done == otio_get(b, x) /\ (child # NoArg => otio_get(ChildType(b), child))
             holds(h, e) == otio_get(h, x) /\ otio_get(e, child)
  <1>1. /\ x' = x /\ call' = [fn |-> f, child |-> child, accepted |-> done]
        /\ child # NoArg => f \in ChildTakers
    BY DEF Call
  <1>2. otio_get(b, x) <=> IsA(x, DocumentedX(f))
    BY BranchCasts
  <1>3. \A c, t : IsA(c, {t}) <=> otio_get(t, c)
    BY DEF IsA, otio_get
  <1> SUFFICES done <=> /\ IsA(x, DocumentedX(f))
                        /\ \/ child = NoArg
                           \/ holds("Composition", "Composable")
                           \/ holds("SerializableCollection", Root)
    BY <1>1, <1>3 DEF DocumentedCalls, IsA
  <1>4. CASE child = NoArg
    BY <1>2, <1>4
  <1>5. CASE child # NoArg
    <2>1. f \in ChildTakers
      BY <1>1, <1>5
    <2>2. otio_get("SerializableCollection", x) => ~otio_get("Composition", x)
      BY HoldersDiffer
    <2>3. ChildType("Composition") = "Composable" /\ ChildType("SerializableCollection") = Root
      BY DEF ChildType
    <2>4. \/ b = "Composition" /\ (f \in Untested \/ ~otio_get("SerializableCollection", x))
          \/ b = "SerializableCollection" /\ otio_get("SerializableCollection", x)
      BY <2>1, HolderBranch
    <2> HIDE DEF b
    <2>5. CASE b = "Composition"
      <3>1. done <=> holds("Composition", "Composable")
        BY <1>5, <2>3, <2>5
      <3>2. holds("Composition", "Composable") => ~otio_get("SerializableCollection", x)
        BY <2>2
      <3>3. otio_get(b, x) <=> otio_get("Composition", x)
        BY <2>5
      <3>4. QED
        BY <1>2, <1>5, <2>2, <3>1, <3>3
    <2>6. CASE b = "SerializableCollection" /\ otio_get("SerializableCollection", x)
      <3>1. done <=> holds("SerializableCollection", Root)
        BY <1>5, <2>3, <2>6
      <3>2. QED
        BY <1>2, <1>5, <2>2, <2>6, <3>1
    <2>7. QED
      BY <2>4, <2>5, <2>6
  <1>6. QED
    BY <1>4, <1>5

(* A call reaches OTIO exactly when its objects are of the classes that    *)
(* the documentation of the function names, or of derived ones: the class  *)
(* that an R wrapper looks at (src/R/composition.R, item.R, algorithms.R)  *)
(* and the cast in C++ (otio_get) never disagree.                          *)
THEOREM CallsAsDocumented == Spec => []DocumentedCalls
  <1> DEFINE Inv == x \in Things /\ DocumentedCalls
  <1>1. Init => Inv
    BY DEF Init, DocumentedCalls
  <1>2. Inv /\ [Next]_vars => Inv'
    <2> SUFFICES ASSUME Inv, [Next]_vars  PROVE Inv'
      OBVIOUS
    <2>1. CASE Fetch
      BY <2>1 DEF Fetch, DocumentedCalls
    <2>2. ASSUME NEW f \in Wrappers, NEW child \in Things \cup {NoArg}, Call(f, child)
          PROVE  Inv'
      BY <2>2, CallAsDocumented DEF Call
    <2>3. CASE UNCHANGED vars
      BY <2>3 DEF vars, DocumentedCalls
    <2>4. QED
      BY <2>1, <2>2, <2>3 DEF Next
  <1>3. QED
    BY <1>1, <1>2, PTL DEF Spec
=============================================================================
