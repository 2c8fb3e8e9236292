--------------------------- MODULE MetadataProofs ---------------------------
(***************************************************************************)
(* Metadata's properties for any R values, dictionaries, keys and JSON     *)
(* texts: what the two conversions of AnyValues, each a recursion, do to a *)
(* value that goes through both, and from that what an assignment, an edit *)
(* of one key and the restoring of a copy do to the dictionary.            *)
(***************************************************************************)
EXTENDS Metadata, MemberLemmas, TimeLemmas

RToAnyRec    == INSTANCE Recursion WITH V <- RValues, Inside <- Inside, One <- OneToAny
StopsRec     == INSTANCE Recursion WITH V <- RValues, Inside <- Inside, One <- OneStops
AnyToRRec    == INSTANCE Recursion WITH V <- Anys, Inside <- Inside, One <- OneToR
MeaningRec   == INSTANCE Recursion WITH V <- Anys, Inside <- Inside, One <- OneMeaning
NotFiniteRec == INSTANCE Recursion WITH V <- Anys, Inside <- Inside, One <- OneNotFinite

-----------------------------------------------------------------------------
(* The recursive functions are what their definitions say.                 *)

LEMMA RNests ==
    \E depth : RToAnyRec!Nests(depth) /\ StopsRec!Nests(depth)
  <1> DEFINE depth == [x \in RValues |-> Depth(x)]
  <1>1. RToAnyRec!Nests(depth) /\ StopsRec!Nests(depth)
    BY NestingAssumption DEF Nested, RToAnyRec!Nests, StopsRec!Nests
  <1>2. QED
    BY <1>1

LEMMA AnyNests ==
    \E depth : AnyToRRec!Nests(depth) /\ MeaningRec!Nests(depth) /\ NotFiniteRec!Nests(depth)
  <1> DEFINE depth == [a \in Anys |-> Depth(a)]
  <1>1. AnyToRRec!Nests(depth) /\ MeaningRec!Nests(depth) /\ NotFiniteRec!Nests(depth)
    BY NestingAssumption
    DEF Nested, AnyToRRec!Nests, MeaningRec!Nests, NotFiniteRec!Nests
  <1>2. QED
    BY <1>1

LEMMA RToAnyRule ==
    \A x \in RValues :
        RToAny[x] = OneToAny(x, [i \in DOMAIN Inside(x) |-> RToAny[Inside(x)[i]]])
  <1>1. \E f : RToAnyRec!Defines(f, RValues)
    BY RNests, RToAnyRec!Exists
  <1>2. RToAny = [x \in RValues |-> OneToAny(x, [i \in DOMAIN Inside(x) |-> RToAny[Inside(x)[i]]])]
    BY <1>1 DEF RToAny, RToAnyRec!Defines
  <1>3. QED
    BY <1>2

LEMMA StopsRule ==
    \A x \in RValues :
        Stops[x] <=> \/ x[1] \in TimeClasses /\ ~IsOfClass(x[1], x[2])
                     \/ x[1] = "handle" /\ x[2] = "null"
                     \/ x[1] = "foreign" /\ x[2] > 0
                     \/ \E i \in DOMAIN Inside(x) : Stops[Inside(x)[i]]
  <1>1. \E f : StopsRec!Defines(f, RValues)
    BY RNests, StopsRec!Exists
  <1>2. Stops = [x \in RValues |-> OneStops(x, [i \in DOMAIN Inside(x) |-> Stops[Inside(x)[i]]])]
    BY <1>1 DEF Stops, StopsRec!Defines
  <1>3. \A x \in RValues :
          Stops[x] = OneStops(x, [i \in DOMAIN Inside(x) |-> Stops[Inside(x)[i]]])
    BY <1>2
  <1>4. QED
    BY <1>3 DEF OneStops

LEMMA AnyToRRule ==
    \A a \in Anys :
        AnyToR[a] = OneToR(a, [i \in DOMAIN Inside(a) |-> AnyToR[Inside(a)[i]]])
  <1>1. \E f : AnyToRRec!Defines(f, Anys)
    BY AnyNests, AnyToRRec!Exists
  <1>2. AnyToR = [a \in Anys |-> OneToR(a, [i \in DOMAIN Inside(a) |-> AnyToR[Inside(a)[i]]])]
    BY <1>1 DEF AnyToR, AnyToRRec!Defines
  <1>3. QED
    BY <1>2

LEMMA MeaningRule ==
    \A a \in Anys :
        Meaning[a] = OneMeaning(a, [i \in DOMAIN Inside(a) |-> Meaning[Inside(a)[i]]])
  <1>1. \E f : MeaningRec!Defines(f, Anys)
    BY AnyNests, MeaningRec!Exists
  <1>2. Meaning = [a \in Anys |-> OneMeaning(a, [i \in DOMAIN Inside(a) |-> Meaning[Inside(a)[i]]])]
    BY <1>1 DEF Meaning, MeaningRec!Defines
  <1>3. QED
    BY <1>2

LEMMA NotFiniteRule ==
    \A a \in Anys :
        NotFinite[a] <=> \/ a[1] = "RationalTime" /\ ~FiniteTime(a[2])
                         \/ a[1] = "TimeRange" /\ ~FiniteRange(a[2])
                         \/ a[1] = "TimeTransform" /\ ~FiniteTime(a[2].offset)
                         \/ \E i \in DOMAIN Inside(a) : NotFinite[Inside(a)[i]]
  <1>1. \E f : NotFiniteRec!Defines(f, Anys)
    BY AnyNests, NotFiniteRec!Exists
  <1>2. NotFinite = [a \in Anys |-> OneNotFinite(a, [i \in DOMAIN Inside(a) |-> NotFinite[Inside(a)[i]]])]
    BY <1>1 DEF NotFinite, NotFiniteRec!Defines
  <1>3. \A a \in Anys :
          NotFinite[a] = OneNotFinite(a, [i \in DOMAIN Inside(a) |-> NotFinite[Inside(a)[i]]])
    BY <1>2
  <1>4. QED
    BY <1>3 DEF OneNotFinite

(* What they give for each kind of value.                                  *)

LEMMA InsideCases ==
    ASSUME NEW v
    PROVE  /\ v[1] = "named" => Inside(v) = v[3]
           /\ v[1] \in {"list", "dict", "vector"} => Inside(v) = v[2]
           /\ v[1] \notin {"named", "list", "dict", "vector"} => DOMAIN Inside(v) = {}
  BY DEF Inside

LEMMA RToAnyCases ==
    ASSUME NEW x \in RValues
    PROVE  /\ x[1] = "NULL" => RToAny[x] = None
           /\ x[1] \in TimeClasses => RToAny[x] = <<x[1], AsTime(x[1], x[2])>>
           /\ x[1] = "handle" => RToAny[x] = <<"retainer", x[2]>>
           /\ x[1] = "named" =>
                RToAny[x] = <<"dict", Entries(x[2], [i \in DOMAIN x[3] |-> RToAny[x[3][i]]])>>
           /\ x[1] = "list" => RToAny[x] = <<"vector", [i \in DOMAIN x[2] |-> RToAny[x[2][i]]]>>
           /\ x[1] = "foreign" => RToAny[x] = <<"vector", <<>> >>
           /\ x[1] \in Atomic => RToAny[x] = VectorToAny(x[1], x[2])
  <1> DEFINE s == [i \in DOMAIN Inside(x) |-> RToAny[Inside(x)[i]]]
  <1>1. RToAny[x] = OneToAny(x, s)
    BY RToAnyRule
  <1>2. /\ x[1] = "named" => s = [i \in DOMAIN x[3] |-> RToAny[x[3][i]]]
        /\ x[1] = "list" => s = [i \in DOMAIN x[2] |-> RToAny[x[2][i]]]
    BY InsideCases
  <1> HIDE DEF s
  <1>3. /\ x[1] = "NULL" => OneToAny(x, s) = None
        /\ x[1] \in TimeClasses => OneToAny(x, s) = <<x[1], AsTime(x[1], x[2])>>
        /\ x[1] = "handle" => OneToAny(x, s) = <<"retainer", x[2]>>
        /\ x[1] = "named" => OneToAny(x, s) = <<"dict", Entries(x[2], s)>>
        /\ x[1] = "list" => OneToAny(x, s) = <<"vector", s>>
        /\ x[1] = "foreign" => OneToAny(x, s) = <<"vector", <<>> >>
        /\ x[1] \in Atomic => OneToAny(x, s) = VectorToAny(x[1], x[2])
    BY DEF OneToAny, ListToAny, TimeClasses, Atomic
  <1>4. QED
    BY <1>1, <1>2, <1>3

LEMMA AnyToRCases ==
    ASSUME NEW a \in Anys
    PROVE  /\ a[1] \in {"none", "exotic"} => AnyToR[a] = Null
           /\ a[1] = "bool" => AnyToR[a] = <<"logical", <<IF a[2] THEN "TRUE" ELSE "FALSE">> >>
           /\ a[1] \in {"int64", "uint64"} => AnyToR[a] = <<"double", <<ToDouble(a[2])>> >>
           /\ a[1] = "double" => AnyToR[a] = <<"double", <<a[2]>> >>
           /\ a[1] = "string" => AnyToR[a] = <<"character", <<a[2]>> >>
           /\ a[1] \in TimeClasses => AnyToR[a] = <<a[1], WrapTime(a[1], a[2])>>
           /\ a[1] = "dict" => AnyToR[a] = WrapDict(a[2])
           /\ a[1] = "vector" => AnyToR[a] = <<"list", [i \in DOMAIN a[2] |-> AnyToR[a[2][i]]]>>
           /\ a[1] = "retainer" => AnyToR[a] = <<"handle", a[2]>>
  <1> DEFINE s == [i \in DOMAIN Inside(a) |-> AnyToR[Inside(a)[i]]]
  <1>1. AnyToR[a] = OneToR(a, s)
    BY AnyToRRule
  <1>2. a[1] \in {"dict", "vector"} => s = [i \in DOMAIN a[2] |-> AnyToR[a[2][i]]]
    BY InsideCases
  <1>3. a[1] = "dict" => KeyOrder(s) = WrapDict(a[2])
    BY <1>2 DEF WrapDict
  <1> HIDE DEF s
  <1>4. /\ a[1] \in {"none", "exotic"} => OneToR(a, s) = Null
        /\ a[1] = "bool" => OneToR(a, s) = <<"logical", <<IF a[2] THEN "TRUE" ELSE "FALSE">> >>
        /\ a[1] \in {"int64", "uint64"} => OneToR(a, s) = <<"double", <<ToDouble(a[2])>> >>
        /\ a[1] = "double" => OneToR(a, s) = <<"double", <<a[2]>> >>
        /\ a[1] = "string" => OneToR(a, s) = <<"character", <<a[2]>> >>
        /\ a[1] \in TimeClasses => OneToR(a, s) = <<a[1], WrapTime(a[1], a[2])>>
        /\ a[1] = "dict" => OneToR(a, s) = KeyOrder(s)
        /\ a[1] = "vector" => OneToR(a, s) = <<"list", s>>
        /\ a[1] = "retainer" => OneToR(a, s) = <<"handle", a[2]>>
    BY DEF OneToR, TimeClasses
  <1>5. QED
    BY <1>1, <1>2, <1>3, <1>4

LEMMA MeaningCases ==
    ASSUME NEW a \in Anys
    PROVE  /\ a[1] \in {"int64", "uint64", "double"} => Meaning[a] = <<"number", ToDouble(a[2])>>
           /\ a[1] = "exotic" => Meaning[a] = None
           /\ a[1] \in {"dict", "vector"} =>
                Meaning[a] = <<a[1], [i \in DOMAIN a[2] |-> Meaning[a[2][i]]]>>
           /\ a[1] = "none" => Meaning[a] = a
  <1> DEFINE s == [i \in DOMAIN Inside(a) |-> Meaning[Inside(a)[i]]]
  <1>1. Meaning[a] = OneMeaning(a, s)
    BY MeaningRule
  <1>2. a[1] \in {"dict", "vector"} => s = [i \in DOMAIN a[2] |-> Meaning[a[2][i]]]
    BY InsideCases
  <1> HIDE DEF s
  <1>3. /\ a[1] \in {"int64", "uint64", "double"} => OneMeaning(a, s) = <<"number", ToDouble(a[2])>>
        /\ a[1] = "exotic" => OneMeaning(a, s) = None
        /\ a[1] \in {"dict", "vector"} => OneMeaning(a, s) = <<a[1], s>>
        /\ a[1] = "none" => OneMeaning(a, s) = a
    BY DEF OneMeaning
  <1>4. QED
    BY <1>1, <1>2, <1>3

LEMMA StopsCases ==
    ASSUME NEW x \in RValues
    PROVE  /\ x[1] \in {"NULL"} \cup Atomic => ~Stops[x]
           /\ x[1] \in TimeClasses => (Stops[x] <=> ~IsOfClass(x[1], x[2]))
           /\ x[1] = "handle" => (Stops[x] <=> x[2] = "null")
           /\ x[1] = "named" => (Stops[x] <=> \E i \in DOMAIN x[3] : Stops[x[3][i]])
           /\ x[1] = "list" => (Stops[x] <=> \E i \in DOMAIN x[2] : Stops[x[2][i]])
  <1>1. /\ x[1] \notin {"named", "list", "dict", "vector"} => DOMAIN Inside(x) = {}
        /\ x[1] = "named" => Inside(x) = x[3]
        /\ x[1] = "list" => Inside(x) = x[2]
    BY InsideCases
  <1>2. QED
    BY <1>1, StopsRule DEF TimeClasses, Atomic

LEMMA NotFiniteCases ==
    ASSUME NEW a \in Anys
    PROVE  /\ a[1] = "RationalTime" => (NotFinite[a] <=> ~FiniteTime(a[2]))
           /\ a[1] = "TimeRange" => (NotFinite[a] <=> ~FiniteRange(a[2]))
           /\ a[1] = "TimeTransform" => (NotFinite[a] <=> ~FiniteTime(a[2].offset))
           /\ a[1] \in {"dict", "vector"} =>
                (NotFinite[a] <=> \E i \in DOMAIN a[2] : NotFinite[a[2][i]])
           /\ a[1] \notin TimeClasses \cup {"dict", "vector", "named", "list"} => ~NotFinite[a]
  <1>1. /\ a[1] \notin {"named", "list", "dict", "vector"} => DOMAIN Inside(a) = {}
        /\ a[1] \in {"dict", "vector"} => Inside(a) = a[2]
    BY InsideCases
  <1>2. QED
    BY <1>1, NotFiniteRule DEF TimeClasses

(* What is inside a value is one, and the conversions lead from values to  *)
(* values.                                                                 *)
LEMMA ValuesClosed ==
    /\ \A x \in RValues : /\ \A i \in DOMAIN Inside(x) : Inside(x)[i] \in RValues
                          /\ ~Stops[x] => RToAny[x] \in Anys
    /\ \A a \in Anys : /\ \A i \in DOMAIN Inside(a) : Inside(a)[i] \in Anys
                       /\ AnyToR[a] \in RValues
  BY NestingAssumption, ValuesAssumption DEF Nested

-----------------------------------------------------------------------------
(* Names and entries.                                                      *)

(* With distinct names, none of them missing, an entry has the element of  *)
(* its name.                                                               *)
LEMMA DistinctEntries ==
    ASSUME NEW S, NaCharacter \notin S, NEW names \in Seq(S), IsInjective(names), NEW s
    PROVE  LET e == Entries(names, s) IN
           /\ e = [k \in Range(names) |-> e[k]]
           /\ \A i \in DOMAIN names : e[names[i]] = s[i]
  <1> DEFINE e == Entries(names, s)
  <1>1. \A i \in DOMAIN names : names[i] \in S /\ Text(names[i]) = names[i]
    BY DEF Text
  <1>2. {Text(n) : n \in Range(names)} = Range(names)
    BY <1>1 DEF Range
  <1>3. ASSUME NEW i \in DOMAIN names
        PROVE  i = CHOOSE l \in DOMAIN names :
                     Text(names[l]) = names[i] /\ \A j \in l + 1..Len(names) : Text(names[j]) # names[i]
    <2>1. DOMAIN names = 1..Len(names) /\ Len(names) \in Nat
      BY LenProperties
    <2>2. \A j \in i + 1..Len(names) : j \in DOMAIN names /\ j # i
      BY <2>1
    <2>3. \A j \in i + 1..Len(names) : Text(names[j]) # names[i]
      BY <1>1, <2>2 DEF IsInjective
    <2>4. \A l \in DOMAIN names : Text(names[l]) = names[i] => l = i
      BY <1>1 DEF IsInjective
    <2>5. QED
      BY <1>1, <2>3, <2>4
  <1>4. \A i \in DOMAIN names : names[i] \in Range(names)
    BY DEF Range
  <1>5. e = [k \in Range(names) |-> e[k]]
    BY <1>2 DEF Entries
  <1>6. \A i \in DOMAIN names : e[names[i]] = s[i]
    BY <1>2, <1>3, <1>4 DEF Entries
  <1>7. QED
    BY <1>5, <1>6

(* In any case an entry has one of the elements: the last of its name.     *)
LEMMA LastEntry ==
    ASSUME NEW S, NEW names \in Seq(S), NEW s, NEW k \in DOMAIN Entries(names, s)
    PROVE  \E i \in DOMAIN names :
             /\ Text(names[i]) = k /\ \A j \in i + 1..Len(names) : Text(names[j]) # k
             /\ Entries(names, s)[k] = s[i]
  <1> DEFINE I == {i \in DOMAIN names : Text(names[i]) = k}
             M == {Len(names) - i : i \in I}
             IsLast(i) == Text(names[i]) = k /\ \A j \in i + 1..Len(names) : Text(names[j]) # k
  <1>1. DOMAIN names = 1..Len(names) /\ Len(names) \in Nat
    BY LenProperties
  <1>2. k \in {Text(n) : n \in Range(names)}
    BY DEF Entries
  <1>3. I # {}
    BY <1>2 DEF Range
  <1>4. M \in SUBSET Nat /\ M # {}
    BY <1>1, <1>3
  <1>5. PICK m \in M : \A l \in M : m <= l
    BY <1>4, RToAnyRec!Least
  <1>6. PICK i \in I : m = Len(names) - i
    BY <1>5
  <1>7. \A j \in i + 1..Len(names) : Text(names[j]) # k
    <2>1. SUFFICES ASSUME NEW j \in i + 1..Len(names), Text(names[j]) = k  PROVE FALSE
      OBVIOUS
    <2>2. i \in Nat /\ j \in Nat /\ j \in I /\ i < j /\ j <= Len(names)
      BY <1>1, <1>6, <2>1
    <2>3. Len(names) - j \in M
      BY <2>2
    <2> HIDE DEF M, I
    <2>4. m <= Len(names) - j
      BY <1>5, <2>3
    <2>5. QED
      BY <1>1, <1>6, <2>2, <2>4
  <1>8. i \in DOMAIN names /\ IsLast(i)
    BY <1>6, <1>7
  <1>9. (CHOOSE l \in DOMAIN names : IsLast(l)) \in DOMAIN names
        /\ IsLast(CHOOSE l \in DOMAIN names : IsLast(l))
    BY <1>8
  <1>10. Entries(names, s)[k] = s[CHOOSE l \in DOMAIN names : IsLast(l)]
    BY <1>2 DEF Entries
  <1>11. QED
    BY <1>9, <1>10

LEMMA SomeEntry ==
    ASSUME NEW S, NEW names \in Seq(S), NEW s, NEW k \in DOMAIN Entries(names, s)
    PROVE  \E i \in DOMAIN names : Entries(names, s)[k] = s[i]
  BY LastEntry

(* What wrap_any_dictionary returns: the names in their order, each with   *)
(* the R value of something.                                               *)
IsRead(x) ==
    /\ x = <<"named", x[2], x[3]>>
    /\ IsFiniteSet(Range(x[2])) /\ NaCharacter \notin Range(x[2])
    /\ x[2] = SetToSeq(Range(x[2]))
    /\ x[3] \in [DOMAIN x[2] -> {AnyToR[a] : a \in Anys}]

LEMMA ReadNames ==
    ASSUME NEW x, IsRead(x)
    PROVE  /\ x[2] \in Seq(Range(x[2])) /\ IsInjective(x[2])
           /\ DOMAIN x[2] = 1..Len(x[2]) /\ Len(x[2]) \in Nat
           /\ \A i \in DOMAIN x[2] : x[2][i] \in Range(x[2])
           /\ Inside(x) = x[3] /\ x[1] = "named"
  <1>1. x[2] \in Seq(Range(x[2])) /\ IsInjective(x[2])
    BY SetInOrder DEF IsRead
  <1>2. x[1] = "named"
    BY DEF IsRead
  <1>3. QED
    BY <1>1, <1>2, LenProperties DEF Inside, Range

LEMMA DictIsRead ==
    ASSUME NEW d, IsDict(d)
    PROVE  /\ IsRead(WrapDict(d)) /\ Range(WrapDict(d)[2]) = DOMAIN d
           /\ \A i \in DOMAIN WrapDict(d)[2] : WrapDict(d)[3][i] = AnyToR[d[WrapDict(d)[2][i]]]
  <1> DEFINE keys == SetToSeq(DOMAIN d)
             r == [k \in DOMAIN d |-> AnyToR[d[k]]]
             s == [i \in DOMAIN keys |-> r[keys[i]]]
             x == WrapDict(d)
  <1>1. keys \in Seq(DOMAIN d) /\ IsInjective(keys) /\ Range(keys) = DOMAIN d
    BY SetInOrder DEF IsDict
  <1>2. x = <<"named", keys, s>>
    BY DEF WrapDict, KeyOrder, NamedList
  <1>3. \A i \in DOMAIN keys : keys[i] \in DOMAIN d
    BY <1>1 DEF Range
  <1>4. \A i \in DOMAIN keys : s[i] = AnyToR[d[keys[i]]] /\ d[keys[i]] \in Anys
    BY <1>3 DEF IsDict, Range
  <1> HIDE DEF keys, x
  <1>5. s \in [DOMAIN keys -> {AnyToR[a] : a \in Anys}]
    BY <1>4
  <1> HIDE DEF s
  <1>6. x[2] = keys /\ x[3] = s /\ x = <<"named", x[2], x[3]>>
    BY <1>2
  <1>7. IsRead(x)
    BY <1>1, <1>5, <1>6 DEF IsRead, IsDict, keys
  <1>8. QED
    BY <1>1, <1>4, <1>6, <1>7 DEF x

(* The dictionary made of a list that was read, when none of its elements  *)
(* stops.                                                                  *)
LEMMA ReadAsDict ==
    ASSUME NEW x, IsRead(x), \A i \in DOMAIN x[3] : ~Stops[x[3][i]]
    PROVE  /\ IsDict(AsDict(x)) /\ DOMAIN AsDict(x) = Range(x[2])
           /\ \A i \in DOMAIN x[2] : AsDict(x)[x[2][i]] = RToAny[x[3][i]]
           /\ AsDict(x) = Entries(x[2], [i \in DOMAIN x[3] |-> RToAny[x[3][i]]])
  <1> DEFINE names == x[2]
             s == [i \in DOMAIN x[3] |-> RToAny[x[3][i]]]
             e == Entries(names, s)
  <1>1. AsDict(x) = e
    BY DEF AsDict, IsRead
  <1>2. names \in Seq(Range(names)) /\ IsInjective(names) /\ NaCharacter \notin Range(names)
    BY ReadNames DEF IsRead
  <1>3. DOMAIN x[3] = DOMAIN names /\ \A i \in DOMAIN x[3] : x[3][i] \in RValues
    BY ValuesClosed DEF IsRead
  <1>4. \A i \in DOMAIN names : s[i] = RToAny[x[3][i]] /\ s[i] \in Anys
    BY <1>3, ValuesClosed
  <1> HIDE DEF s
  <1>5. /\ e = [k \in Range(names) |-> e[k]]
        /\ \A i \in DOMAIN names : e[names[i]] = s[i]
    BY <1>2, DistinctEntries
  <1> HIDE DEF e
  <1>6. DOMAIN e = Range(names) /\ e = [k \in DOMAIN e |-> e[k]]
    BY <1>5
  <1>7. \A k \in DOMAIN e : \E i \in DOMAIN names : k = names[i]
    BY <1>6 DEF Range
  <1>8. \A k \in DOMAIN e : e[k] \in Anys
    BY <1>4, <1>5, <1>7
  <1>9. IsDict(e)
    BY <1>6, <1>8 DEF IsDict, Range, IsRead
  <1>10. QED
    BY <1>1, <1>4, <1>5, <1>6, <1>9 DEF e, s

(* It is read as that list, when its elements are.                         *)
LEMMA ReadReturns ==
    ASSUME NEW x, IsRead(x),
           \A i \in DOMAIN x[3] : ~Stops[x[3][i]] /\ AnyToR[RToAny[x[3][i]]] = x[3][i]
    PROVE  WrapDict(AsDict(x)) = x
  <1> DEFINE e == AsDict(x)
             y == WrapDict(e)
  <1>1. /\ IsDict(e) /\ DOMAIN e = Range(x[2])
        /\ \A i \in DOMAIN x[2] : e[x[2][i]] = RToAny[x[3][i]]
    BY ReadAsDict
  <1>2. /\ IsRead(y) /\ Range(y[2]) = DOMAIN e
        /\ \A i \in DOMAIN y[2] : y[3][i] = AnyToR[e[y[2][i]]]
    BY <1>1, DictIsRead
  <1> HIDE DEF e, y
  <1>3. y[2] = x[2]
    BY <1>1, <1>2 DEF IsRead
  <1>4. DOMAIN x[3] = DOMAIN x[2] /\ DOMAIN y[3] = DOMAIN x[2]
    BY <1>2, <1>3 DEF IsRead
  <1>5. \A i \in DOMAIN x[2] : y[3][i] = x[3][i]
    BY <1>1, <1>2, <1>3, <1>4
  <1>6. y[3] = x[3]
    BY <1>2, <1>3, <1>4, <1>5 DEF IsRead
  <1>7. y = x
    BY <1>2, <1>3, <1>6 DEF IsRead
  <1>8. QED
    BY <1>7 DEF e, y

-----------------------------------------------------------------------------
(* A value that goes through both conversions.                             *)

(* A std::any that R reads and writes back is refused only if a time in it *)
(* is not finite; otherwise R reads the same again, and it says the same.  *)
Returns(a) ==
    LET x == AnyToR[a] IN
    /\ Stops[x] => NotFinite[a]
    /\ ~Stops[x] => AnyToR[RToAny[x]] = x /\ Meaning[RToAny[x]] = Meaning[a]

LEMMA ToDoubleTwice ==
    ASSUME NEW n \in Int
    PROVE  ToDouble(n) \in Int /\ ToDouble(ToDouble(n)) = ToDouble(n)
  <1> DEFINE k == n \div 2
             h == k + (k % 2)
  <1>1. k \in Int /\ h \in Int
    OBVIOUS
  <1> HIDE DEF h
  <1>2. (2 * h) \in Int /\ (2 * h) % 2 = 0
    BY <1>1
  <1>3. ToDouble(n) = n \/ ToDouble(n) = 2 * h
    BY DEF ToDouble, h
  <1>4. CASE ToDouble(n) = n
    BY <1>4
  <1>5. CASE ToDouble(n) = 2 * h
    <2>1. ToDouble(2 * h) = 2 * h
      BY <1>2 DEF ToDouble
    <2>2. QED
      BY <1>2, <1>5, <2>1
  <1>6. QED
    BY <1>3, <1>4, <1>5

(* R's single elements.                                                    *)
LEMMA AtomConverts ==
    ASSUME NEW type \in Atomic, NEW e, <<type, <<e>> >> \in RValues
    PROVE  LET x == <<type, <<e>> >> IN
           ~Stops[x] /\ RToAny[x] = AtomToAny(type, e) /\ RToAny[x] \in Anys
  <1> DEFINE x == <<type, <<e>> >>
  <1>1. x[1] = type /\ x[2] = <<e>> /\ Len(<<e>>) = 1 /\ <<e>>[1] = e
    OBVIOUS
  <1>2. x \in RValues
    OBVIOUS
  <1> HIDE DEF x
  <1>3. ~Stops[x]
    BY <1>1, <1>2, StopsCases
  <1>4. RToAny[x] = AtomToAny(type, e)
    BY <1>1, <1>2, RToAnyCases DEF VectorToAny
  <1>5. QED
    BY <1>2, <1>3, <1>4, ValuesClosed DEF x

LEMMA NothingReturns ==
    ASSUME NEW a \in Anys, a = None \/ a[1] = "exotic"
    PROVE  Returns(a)
  <1>1. AnyToR[a] = Null /\ Null \in RValues
    <2>1. a[1] \in {"none", "exotic"}
      BY DEF None
    <2>2. AnyToR[a] = Null
      BY <2>1, AnyToRCases
    <2>3. QED
      BY <2>2, ValuesClosed
  <1>2. Null[1] = "NULL" /\ None[1] = "none"
    BY DEF Null, None
  <1>3. ~Stops[Null]
    BY <1>1, <1>2, StopsCases
  <1>4. RToAny[Null] = None /\ None \in Anys
    BY <1>1, <1>2, <1>3, RToAnyCases, ValuesClosed
  <1>5. AnyToR[None] = Null
    BY <1>2, <1>4, AnyToRCases
  <1>6. Meaning[None] = None
    BY <1>2, <1>4, MeaningCases
  <1>7. Meaning[a] = None
    <2>1. CASE a = None
      BY <1>6, <2>1
    <2>2. CASE a[1] = "exotic"
      BY <2>2, MeaningCases
    <2>3. QED
      BY <2>1, <2>2
  <1>8. QED
    BY <1>1, <1>3, <1>4, <1>5, <1>6, <1>7 DEF Returns

LEMMA ScalarReturns ==
    ASSUME NEW a \in Anys,
           \/ a \in {"bool"} \X BOOLEAN
           \/ a \in {"int64", "uint64", "double"} \X Int
           \/ a \in {"string"} \X (STRING \ {NaCharacter})
    PROVE  Returns(a)
  <1>1. CASE a \in {"bool"} \X BOOLEAN
    <2> DEFINE e == IF a[2] THEN "TRUE" ELSE "FALSE"
               x == <<"logical", <<e>> >>
    <2>1. a = <<"bool", a[2]>> /\ a[1] = "bool" /\ a[2] \in BOOLEAN
      BY <1>1
    <2>2. AnyToR[a] = x /\ x \in RValues
      <3>1. AnyToR[a] = x
        BY <2>1, AnyToRCases
      <3>2. QED
        BY <3>1, ValuesClosed
    <2>3. (e = "TRUE") = a[2]
      BY <2>1
    <2>4. ~Stops[x] /\ RToAny[x] = AtomToAny("logical", e)
      BY <2>2, AtomConverts DEF Atomic
    <2>5. RToAny[x] = <<"bool", e = "TRUE">>
      BY <2>4 DEF AtomToAny
    <2> HIDE DEF e
    <2>6. RToAny[x] = a
      BY <2>1, <2>3, <2>5
    <2>7. QED
      BY <2>2, <2>4, <2>6 DEF Returns
  <1>2. CASE a \in {"int64", "uint64", "double"} \X Int
    <2> DEFINE n == IF a[1] = "double" THEN a[2] ELSE ToDouble(a[2])
               x == <<"double", <<n>> >>
               b == <<"double", n>>
    <2>1. a = <<a[1], a[2]>> /\ a[1] \in {"int64", "uint64", "double"} /\ a[2] \in Int
      BY <1>2
    <2>2. AnyToR[a] = x /\ x \in RValues
      BY <2>1, AnyToRCases, ValuesClosed
    <2>3. ToDouble(n) = ToDouble(a[2])
      BY <2>1, ToDoubleTwice
    <2> HIDE DEF n
    <2>4. ~Stops[x] /\ RToAny[x] = AtomToAny("double", n) /\ RToAny[x] \in Anys
      BY <2>2, AtomConverts DEF Atomic
    <2>5. RToAny[x] = b /\ b \in Anys
      BY <2>4 DEF AtomToAny
    <2>6. AnyToR[b] = x
      BY <2>5, AnyToRCases
    <2>7. Meaning[b] = <<"number", ToDouble(n)>>
      BY <2>5, MeaningCases
    <2>8. Meaning[a] = <<"number", ToDouble(a[2])>>
      BY <2>1, MeaningCases
    <2>9. QED
      BY <2>2, <2>3, <2>4, <2>5, <2>6, <2>7, <2>8 DEF Returns
  <1>3. CASE a \in {"string"} \X (STRING \ {NaCharacter})
    <2> DEFINE x == <<"character", <<a[2]>> >>
    <2>1. a = <<"string", a[2]>> /\ a[1] = "string" /\ a[2] # NaCharacter
      BY <1>3
    <2>2. AnyToR[a] = x /\ x \in RValues
      <3>1. AnyToR[a] = x
        BY <2>1, AnyToRCases
      <3>2. QED
        BY <3>1, ValuesClosed
    <2>3. ~Stops[x] /\ RToAny[x] = AtomToAny("character", a[2])
      BY <2>2, AtomConverts DEF Atomic
    <2>4. RToAny[x] = a
      BY <2>1, <2>3 DEF AtomToAny, Text
    <2>5. QED
      BY <2>2, <2>3, <2>4 DEF Returns
  <1>4. QED
    BY <1>1, <1>2, <1>3

LEMMA RetainerReturns ==
    ASSUME NEW a \in Anys, a = <<"retainer", a[2]>>, a[2] # "null"
    PROVE  Returns(a)
  <1> DEFINE x == <<"handle", a[2]>>
  <1>1. AnyToR[a] = x /\ x \in RValues
    <2>1. a[1] = "retainer"
      OBVIOUS
    <2>2. AnyToR[a] = x
      BY <2>1, AnyToRCases
    <2>3. QED
      BY <2>2, ValuesClosed
  <1>2. x[1] = "handle" /\ x[2] = a[2]
    OBVIOUS
  <1> HIDE DEF x
  <1>3. ~Stops[x]
    BY <1>1, <1>2, StopsCases
  <1>4. RToAny[x] = a
    BY <1>1, <1>2, RToAnyCases
  <1>5. QED
    BY <1>1, <1>3, <1>4 DEF Returns

LEMMA TransformReturns ==
    ASSUME NEW t, IsTransform(t)
    PROVE  /\ as_time_transform(wrap_time_transform(t)) = t
           /\ IsTimeTransform(wrap_time_transform(t)) <=> FiniteTime(t.offset)
  <1> DEFINE x == wrap_time_transform(t)
             offset == wrap_rational_time(t.offset)
             scale  == <<"double", <<t.scale>> >>
             rate   == <<"double", <<t.rate>> >>
  <1>1. DOMAIN x[2] = {1, 2, 3} /\ x[2][1] = "offset" /\ x[2][2] = "scale" /\ x[2][3] = "rate"
    BY DEF wrap_time_transform
  <1>2. x[1] = "named" /\ x[3][1] = offset /\ x[3][2] = scale /\ x[3][3] = rate
    BY DEF wrap_time_transform
  <1> HIDE DEF x, offset, scale, rate
  <1>3. /\ {i \in DOMAIN x[2] : x[2][i] = "offset"} = {1}
        /\ {i \in DOMAIN x[2] : x[2][i] = "scale"} = {2}
        /\ {i \in DOMAIN x[2] : x[2][i] = "rate"} = {3}
    BY <1>1
  <1>4. Min({1}) = 1 /\ Min({2}) = 2 /\ Min({3}) = 3
    BY DEF Min
  <1>5. Field(x, "offset") = offset /\ Field(x, "scale") = scale /\ Field(x, "rate") = rate
    BY <1>2, <1>3, <1>4 DEF Field
  <1>6. HasField(x, "offset") /\ HasField(x, "scale") /\ HasField(x, "rate")
    BY <1>1 DEF HasField, Range
  <1>7. /\ scale[1] = "double" /\ Len(scale[2]) = 1 /\ scale[2][1] = t.scale
        /\ rate[1] = "double" /\ Len(rate[2]) = 1 /\ rate[2][1] = t.rate
    BY DEF scale, rate
  <1>8. as_rational_time(offset) = t.offset /\ (IsRationalTime(offset) <=> FiniteTime(t.offset))
    BY TimeReturns DEF IsTransform, offset
  <1>9. as_time_transform(x) = t
    BY <1>5, <1>7, <1>8 DEF as_time_transform, ToNumber, IsTransform
  <1>10. IsTimeTransform(x) <=> FiniteTime(t.offset)
    BY <1>2, <1>5, <1>6, <1>7, <1>8 DEF IsTimeTransform, IsNumber
  <1>11. QED
    BY <1>9, <1>10 DEF x

LEMMA AcceptedTransform ==
    ASSUME NEW x, IsTimeTransform(x)
    PROVE  FiniteTime(as_time_transform(x).offset)
  BY AcceptedTimes DEF IsTimeTransform, as_time_transform

(* A time with its class.                                                  *)
LEMMA TimeValueReturns ==
    ASSUME NEW a \in Anys,
           \/ a = <<"RationalTime", a[2]>> /\ IsTime(a[2])
           \/ a = <<"TimeRange", a[2]>> /\ IsRange(a[2])
           \/ a = <<"TimeTransform", a[2]>> /\ IsTransform(a[2])
    PROVE  Returns(a)
  <1> DEFINE class == a[1]
             w == WrapTime(class, a[2])
             x == <<class, w>>
  <1>1. class \in TimeClasses /\ a = <<class, a[2]>>
    BY DEF TimeClasses
  <1>2. AnyToR[a] = x /\ x \in RValues
    BY <1>1, AnyToRCases, ValuesClosed
  <1>3. AsTime(class, w) = a[2] /\ (~IsOfClass(class, w) => NotFinite[a])
    <2>1. CASE a = <<"RationalTime", a[2]>> /\ IsTime(a[2])
      <3>1. w = wrap_rational_time(a[2]) /\ class = "RationalTime"
        BY <2>1 DEF WrapTime
      <3>2. AsTime(class, w) = a[2] /\ (IsOfClass(class, w) <=> FiniteTime(a[2]))
        BY <2>1, <3>1, TimeReturns DEF AsTime, IsOfClass
      <3>3. QED
        BY <2>1, <3>2, NotFiniteCases
    <2>2. CASE a = <<"TimeRange", a[2]>> /\ IsRange(a[2])
      <3>1. w = wrap_time_range(a[2]) /\ class = "TimeRange"
        BY <2>2 DEF WrapTime
      <3>2. AsTime(class, w) = a[2] /\ (IsOfClass(class, w) <=> FiniteRange(a[2]))
        BY <2>2, <3>1, OneRangeReturns DEF AsTime, IsOfClass
      <3>3. QED
        BY <2>2, <3>2, NotFiniteCases
    <2>3. CASE a = <<"TimeTransform", a[2]>> /\ IsTransform(a[2])
      <3>1. w = wrap_time_transform(a[2]) /\ class = "TimeTransform"
        BY <2>3 DEF WrapTime
      <3>2. AsTime(class, w) = a[2] /\ (IsOfClass(class, w) <=> FiniteTime(a[2].offset))
        BY <2>3, <3>1, TransformReturns DEF AsTime, IsOfClass
      <3>3. QED
        BY <2>3, <3>2, NotFiniteCases
    <2>4. QED
      BY <2>1, <2>2, <2>3
  <1> HIDE DEF w
  <1>4. x[1] = class /\ x[2] = w
    OBVIOUS
  <1> HIDE DEF x, class
  <1>5. Stops[x] <=> ~IsOfClass(class, w)
    BY <1>1, <1>2, <1>4, StopsCases
  <1>6. RToAny[x] = a
    BY <1>1, <1>2, <1>3, <1>4, RToAnyCases
  <1>7. QED
    BY <1>2, <1>3, <1>5, <1>6 DEF Returns

(* A vector and a dictionary, when what is inside them does.               *)
LEMMA VectorReturns ==
    ASSUME NEW a \in Anys, a = <<"vector", a[2]>>, a[2] \in Seq(Anys),
           \A i \in DOMAIN a[2] : Returns(a[2][i])
    PROVE  Returns(a)
  <1> DEFINE s == a[2]
             y == [i \in DOMAIN s |-> AnyToR[s[i]]]
             x == <<"list", y>>
             t == [i \in DOMAIN y |-> RToAny[y[i]]]
             b == <<"vector", t>>
  <1>1. a[1] = "vector" /\ AnyToR[a] = x
    BY AnyToRCases
  <1>2. x \in RValues /\ x[1] = "list" /\ x[2] = y
    BY <1>1, ValuesClosed
  <1>3. DOMAIN y = DOMAIN s /\ \A i \in DOMAIN s : y[i] = AnyToR[s[i]]
    OBVIOUS
  <1> HIDE DEF y
  <1>4. Stops[x] <=> \E i \in DOMAIN y : Stops[y[i]]
    BY <1>2, StopsCases
  <1>5. Stops[x] => NotFinite[a]
    <2>1. SUFFICES ASSUME NEW i \in DOMAIN s, Stops[y[i]]  PROVE NotFinite[a]
      BY <1>3, <1>4
    <2>2. NotFinite[s[i]]
      BY <1>3, <2>1 DEF Returns
    <2>3. QED
      BY <1>1, <2>2, NotFiniteCases
  <1>6. ASSUME ~Stops[x]
        PROVE  AnyToR[b] = x /\ Meaning[b] = Meaning[a] /\ RToAny[x] = b
    <2>1. RToAny[x] = b
      BY <1>2, RToAnyCases
    <2>2. b \in Anys /\ b[1] = "vector" /\ b[2] = t
      BY <1>2, <1>6, <2>1, ValuesClosed
    <2>3. \A i \in DOMAIN s : AnyToR[RToAny[y[i]]] = y[i] /\ Meaning[RToAny[y[i]]] = Meaning[s[i]]
      BY <1>3, <1>4, <1>6 DEF Returns
    <2>4. DOMAIN t = DOMAIN s /\ \A i \in DOMAIN s : t[i] = RToAny[y[i]]
      BY <1>3
    <2> HIDE DEF t
    <2>5. AnyToR[b] = <<"list", [i \in DOMAIN t |-> AnyToR[t[i]]]>>
      BY <2>2, AnyToRCases
    <2>6. [i \in DOMAIN t |-> AnyToR[t[i]]] = y
      BY <2>3, <2>4 DEF y
    <2>7. Meaning[b] = <<"vector", [i \in DOMAIN t |-> Meaning[t[i]]]>>
      BY <2>2, MeaningCases
    <2>8. Meaning[a] = <<"vector", [i \in DOMAIN s |-> Meaning[s[i]]]>>
      BY <1>1, MeaningCases
    <2>9. [i \in DOMAIN t |-> Meaning[t[i]]] = [i \in DOMAIN s |-> Meaning[s[i]]]
      BY <2>3, <2>4
    <2> HIDE DEF b, x, s
    <2>10. Meaning[b] = Meaning[a]
      BY <2>7, <2>8, <2>9
    <2>11. AnyToR[b] = x
      BY <2>5, <2>6 DEF x
    <2>12. QED
      BY <2>1, <2>10, <2>11
  <1>7. QED
    BY <1>1, <1>5, <1>6 DEF Returns

LEMMA DictReturns ==
    ASSUME NEW a \in Anys, a = <<"dict", a[2]>>, IsDict(a[2]),
           \A k \in DOMAIN a[2] : Returns(a[2][k])
    PROVE  Returns(a)
  <1> DEFINE d == a[2]
             x == WrapDict(d)
             e == AsDict(x)
             b == <<"dict", e>>
  <1>1. a[1] = "dict" /\ AnyToR[a] = x /\ x \in RValues
    <2>1. a[1] = "dict"
      OBVIOUS
    <2>2. QED
      BY <2>1, AnyToRCases, ValuesClosed
  <1>2. /\ IsRead(x) /\ Range(x[2]) = DOMAIN d
        /\ \A i \in DOMAIN x[2] : x[3][i] = AnyToR[d[x[2][i]]]
    BY DictIsRead
  <1> HIDE DEF x
  <1>3. /\ x[1] = "named" /\ DOMAIN x[3] = DOMAIN x[2]
        /\ \A i \in DOMAIN x[2] : x[2][i] \in DOMAIN d
        /\ \A k \in DOMAIN d : \E i \in DOMAIN x[2] : x[2][i] = k
    BY <1>2, ReadNames DEF IsRead, Range
  <1>4. Stops[x] <=> \E i \in DOMAIN x[3] : Stops[x[3][i]]
    BY <1>1, <1>3, StopsCases
  <1>5. Stops[x] => NotFinite[a]
    <2>1. SUFFICES ASSUME NEW i \in DOMAIN x[2], Stops[x[3][i]]  PROVE NotFinite[a]
      BY <1>3, <1>4
    <2>2. NotFinite[d[x[2][i]]]
      BY <1>2, <1>3, <2>1 DEF Returns
    <2>3. QED
      BY <1>1, <1>3, <2>2, NotFiniteCases
  <1>6. ASSUME ~Stops[x]
        PROVE  AnyToR[b] = x /\ Meaning[b] = Meaning[a] /\ RToAny[x] = b
    <2>1. \A i \in DOMAIN x[2] : /\ ~Stops[x[3][i]]
                                 /\ AnyToR[RToAny[x[3][i]]] = x[3][i]
                                 /\ Meaning[RToAny[x[3][i]]] = Meaning[d[x[2][i]]]
      BY <1>2, <1>3, <1>4, <1>6 DEF Returns
    <2>2. /\ DOMAIN e = DOMAIN d
          /\ \A i \in DOMAIN x[2] : e[x[2][i]] = RToAny[x[3][i]]
          /\ e = Entries(x[2], [i \in DOMAIN x[3] |-> RToAny[x[3][i]]])
      BY <1>2, <1>3, <2>1, ReadAsDict
    <2>3. WrapDict(e) = x
      BY <1>2, <1>3, <2>1, ReadReturns
    <2> HIDE DEF e
    <2>4. RToAny[x] = b
      BY <1>1, <1>3, <2>2, RToAnyCases
    <2>5. b \in Anys /\ b[1] = "dict" /\ b[2] = e
      BY <1>1, <1>6, <2>4, ValuesClosed
    <2>6. AnyToR[b] = x
      BY <2>3, <2>5, AnyToRCases
    <2>7. \A k \in DOMAIN d : Meaning[e[k]] = Meaning[d[k]]
      <3>1. SUFFICES ASSUME NEW k \in DOMAIN d  PROVE Meaning[e[k]] = Meaning[d[k]]
        OBVIOUS
      <3>2. PICK i \in DOMAIN x[2] : x[2][i] = k
        BY <1>3
      <3>3. QED
        BY <2>1, <2>2, <3>2
    <2>8. Meaning[b] = <<"dict", [k \in DOMAIN e |-> Meaning[e[k]]]>>
      BY <2>5, MeaningCases
    <2>9. Meaning[a] = <<"dict", [k \in DOMAIN d |-> Meaning[d[k]]]>>
      BY <1>1, MeaningCases
    <2>10. [k \in DOMAIN e |-> Meaning[e[k]]] = [k \in DOMAIN d |-> Meaning[d[k]]]
      BY <2>2, <2>7
    <2> HIDE DEF b, d
    <2>11. Meaning[b] = Meaning[a]
      BY <2>8, <2>9, <2>10
    <2>12. QED
      BY <2>4, <2>6, <2>11
  <1>7. QED
    BY <1>1, <1>5, <1>6 DEF Returns

LEMMA EverythingReturns == \A a \in Anys : Returns(a)
  <1> DEFINE T == {a \in Anys : Returns(a)}
  <1>1. ASSUME NEW a \in Anys, \A i \in DOMAIN Inside(a) : Inside(a)[i] \in T
        PROVE  a \in T
    <2>1. IsAny(a)
      BY ValuesAssumption
    <2>2. a[1] \in {"dict", "vector"} => \A i \in DOMAIN a[2] : Returns(a[2][i])
      BY <1>1, InsideCases
    <2>3. CASE a = None \/ a = <<"exotic", a[2]>>
      BY <2>3, NothingReturns
    <2>4. CASE \/ a \in {"bool"} \X BOOLEAN
               \/ a \in {"int64", "uint64", "double"} \X Int
               \/ a \in {"string"} \X (STRING \ {NaCharacter})
      BY <2>4, ScalarReturns
    <2>5. CASE \/ a = <<"RationalTime", a[2]>> /\ IsTime(a[2])
               \/ a = <<"TimeRange", a[2]>> /\ IsRange(a[2])
               \/ a = <<"TimeTransform", a[2]>> /\ IsTransform(a[2])
      BY <2>5, TimeValueReturns
    <2>6. CASE a = <<"retainer", a[2]>> /\ a[2] # "null"
      BY <2>6, RetainerReturns
    <2>7. CASE a = <<"vector", a[2]>> /\ a[2] \in Seq(Anys)
      <3>1. a[1] = "vector"
        BY <2>7
      <3>2. QED
        BY <2>2, <2>7, <3>1, VectorReturns
    <2>8. CASE a = <<"dict", a[2]>> /\ IsDict(a[2])
      <3>1. a[1] = "dict"
        BY <2>8
      <3>2. QED
        BY <2>2, <2>8, <3>1, DictReturns
    <2>9. QED
      BY <2>1, <2>3, <2>4, <2>5, <2>6, <2>7, <2>8 DEF IsAny
  <1> HIDE DEF T
  <1>2. Anys \subseteq T
    BY <1>1, AnyNests, AnyToRRec!Induction
  <1>3. QED
    BY <1>2 DEF T

(* What R writes is finite: a time that is not stops.                      *)
LEMMA AtomIsFinite ==
    ASSUME NEW type \in Atomic, NEW e, AtomToAny(type, e) \in Anys
    PROVE  ~NotFinite[AtomToAny(type, e)]
  <1>1. AtomToAny(type, e)[1] \in {"bool", "int64", "double", "string"}
    BY DEF AtomToAny, Atomic
  <1>2. QED
    BY <1>1, NotFiniteCases DEF TimeClasses

LEMMA WrittenIsFinite == \A x \in RValues : ~Stops[x] => ~NotFinite[RToAny[x]]
  <1> DEFINE T == {x \in RValues : ~Stops[x] => ~NotFinite[RToAny[x]]}
  <1>1. ASSUME NEW x \in RValues, \A i \in DOMAIN Inside(x) : Inside(x)[i] \in T
        PROVE  x \in T
    <2>1. SUFFICES ASSUME ~Stops[x]  PROVE ~NotFinite[RToAny[x]]
      BY <1>1
    <2> DEFINE a == RToAny[x]
    <2>2. a \in Anys /\ IsRValue(x)
      BY <2>1, ValuesAssumption
    <2>3. CASE x[1] = "NULL"
      <3>1. a = None /\ None[1] = "none"
        BY <2>3, RToAnyCases DEF None
      <3>2. QED
        BY <2>2, <3>1, NotFiniteCases DEF TimeClasses
    <2>4. CASE x[1] \in TimeClasses
      <3>1. a = <<x[1], AsTime(x[1], x[2])>> /\ IsOfClass(x[1], x[2])
        BY <2>1, <2>4, RToAnyCases, StopsCases
      <3>2. /\ x[1] = "RationalTime" => FiniteTime(AsTime(x[1], x[2]))
            /\ x[1] = "TimeRange" => FiniteRange(AsTime(x[1], x[2]))
            /\ x[1] = "TimeTransform" => FiniteTime(AsTime(x[1], x[2]).offset)
        BY <3>1, AcceptedTimes, AcceptedTransform DEF IsOfClass, AsTime
      <3>3. a[1] = x[1] /\ a[2] = AsTime(x[1], x[2])
        BY <3>1
      <3> HIDE DEF a
      <3>4. QED
        BY <2>2, <2>4, <3>2, <3>3, NotFiniteCases DEF TimeClasses, a
    <2>5. CASE x[1] = "handle"
      <3>1. a = <<"retainer", x[2]>>
        BY <2>5, RToAnyCases
      <3>2. a[1] = "retainer"
        BY <3>1
      <3>3. QED
        BY <2>2, <3>2, NotFiniteCases DEF TimeClasses
    <2>6. CASE x[1] = "foreign"
      <3>1. a = <<"vector", <<>> >>
        BY <2>6, RToAnyCases
      <3>2. a[1] = "vector" /\ a[2] = <<>>
        BY <3>1
      <3>3. QED
        BY <2>2, <3>2, NotFiniteCases
    <2>7. CASE x[1] = "list"
      <3>1. a = <<"vector", [i \in DOMAIN x[2] |-> RToAny[x[2][i]]]>>
        BY <2>7, RToAnyCases
      <3>2. a[1] = "vector" /\ a[2] = [i \in DOMAIN x[2] |-> RToAny[x[2][i]]]
        BY <3>1
      <3>3. \A i \in DOMAIN x[2] : ~Stops[x[2][i]] /\ x[2][i] \in T
        BY <1>1, <2>1, <2>7, StopsCases, InsideCases
      <3>4. \A i \in DOMAIN a[2] : ~NotFinite[a[2][i]]
        BY <3>2, <3>3
      <3> HIDE DEF a
      <3>5. QED
        BY <2>2, <3>2, <3>4, NotFiniteCases DEF a
    <2>8. CASE x[1] = "named"
      <3> DEFINE s == [i \in DOMAIN x[3] |-> RToAny[x[3][i]]]
      <3>1. a = <<"dict", Entries(x[2], s)>>
        BY <2>8, RToAnyCases
      <3>2. a[1] = "dict" /\ a[2] = Entries(x[2], s)
        BY <3>1
      <3>3. x[2] \in Seq(STRING) /\ DOMAIN x[3] = DOMAIN x[2]
        BY <2>2, <2>8 DEF IsRValue
      <3>4. \A i \in DOMAIN x[3] : ~Stops[x[3][i]] /\ x[3][i] \in T
        BY <1>1, <2>1, <2>8, StopsCases, InsideCases
      <3>5. \A i \in DOMAIN x[2] : ~NotFinite[s[i]]
        BY <3>3, <3>4
      <3> HIDE DEF a, s
      <3>6. \A k \in DOMAIN a[2] : ~NotFinite[a[2][k]]
        BY <3>2, <3>3, <3>5, SomeEntry
      <3>7. QED
        BY <2>2, <3>2, <3>6, NotFiniteCases DEF a
    <2>9. CASE x[1] \in Atomic
      <3>1. a = VectorToAny(x[1], x[2])
        BY <2>9, RToAnyCases
      <3>2. CASE Len(x[2]) = 1
        <4>1. a = AtomToAny(x[1], x[2][1])
          BY <3>1, <3>2 DEF VectorToAny
        <4>2. QED
          BY <2>2, <2>9, <4>1, AtomIsFinite
      <3>3. CASE Len(x[2]) # 1
        <4>1. a = <<"vector", [i \in DOMAIN x[2] |-> AtomToAny(x[1], x[2][i])]>>
          BY <3>1, <3>3 DEF VectorToAny
        <4>2. a[1] = "vector" /\ a[2] = [i \in DOMAIN x[2] |-> AtomToAny(x[1], x[2][i])]
          BY <4>1
        <4>3. \A i \in DOMAIN a[2] : a[2][i] \in Anys /\ a[2][i] = AtomToAny(x[1], x[2][i])
          BY <2>2, <4>2, ValuesClosed, InsideCases
        <4>4. \A i \in DOMAIN a[2] : ~NotFinite[a[2][i]]
          BY <2>9, <4>3, AtomIsFinite
        <4> HIDE DEF a
        <4>5. QED
          BY <2>2, <4>2, <4>4, NotFiniteCases DEF a
      <3>4. QED
        BY <3>2, <3>3
    <2>10. QED
      BY <2>2, <2>3, <2>4, <2>5, <2>6, <2>7, <2>8, <2>9 DEF IsRValue
  <1> HIDE DEF T
  <1>2. RValues \subseteq T
    BY <1>1, RNests, RToAnyRec!Induction
  <1>3. QED
    BY <1>2 DEF T

-----------------------------------------------------------------------------
(* The invariant.                                                          *)

FromLoaded(x) ==
    \E d \in Loaded : (\E k \in DOMAIN d : NotFinite[d[k]]) /\ x = WrapDict(d)

(* The dictionary has values R knows how to read, and one that is not      *)
(* finite only as it came from JSON.                                       *)
DictOk == IsDict(dict) /\ ((\E k \in DOMAIN dict : NotFinite[dict[k]]) => dict \in Loaded)

(* A copy was read from a dictionary, and what of it stops from JSON.      *)
CopyOk == copy # Null =>
    IsRead(copy) /\ ((\E i \in DOMAIN copy[3] : Stops[copy[3][i]]) => FromLoaded(copy))

(* d has the elements before the n-th and that one, each under its name,   *)
(* unless a later one of them has the same.                                *)
HasFirst(names, s, n, d) ==
    /\ d = [k \in {Text(names[i]) : i \in 1..n} |-> d[k]]
    /\ \A i \in 1..n :
         (\A j \in i + 1..n : Text(names[j]) # Text(names[i])) => d[Text(names[i])] = RToAny[s[i]]

(* What a call may be asked to write.                                      *)
Requested(op, k, x) ==
    \/ op = "assign" /\ k = NoKey /\ x \in Lists
    \/ op = "edit" /\ k \in Keys /\ \E v \in Values : x = WithEntry(WrapDict(dict), k, v)
    \/ op = "restore" /\ k = NoKey /\ x = copy

(* The call that runs: none of the elements it has taken stops, and they   *)
(* make up its dictionary.                                                 *)
FrameOk == InCall =>
    /\ frame = Frame(frame.op, frame.key, frame.list, frame.done, frame.d)
    /\ Requested(frame.op, frame.key, frame.list) /\ ~Unnamed(frame.list)
    /\ frame.done \in Nat /\ \A i \in 1..frame.done : i \in DOMAIN Elements /\ ~Stops[Elements[i]]
    /\ HasFirst(frame.list[2], frame.list[3], frame.done, frame.d)
    /\ last.op = "begin"

IInv == DictOk /\ CopyOk /\ FrameOk

(* A dictionary R code made.                                               *)
Written(d) == IsDict(d) /\ \A k \in DOMAIN d : ~NotFinite[d[k]]

LEMMA NothingWritten == Written(<<>>)
  <1>1. DOMAIN <<>> = {} /\ <<>> = [k \in {} |-> k] /\ Range(<<>>) = {}
    BY EmptyRange
  <1>2. <<>> = [k \in DOMAIN <<>> |-> <<>>[k]]
    BY <1>1
  <1>3. QED
    BY <1>1, <1>2, FS_EmptySet DEF Written, IsDict

(* An accepted list, assigned as a whole.                                  *)
LEMMA ListWritten ==
    ASSUME NEW x \in RValues, ~Refused(x)
    PROVE  Written(AsDict(x))
  <1>1. CASE x[1] # "named"
    BY <1>1, NothingWritten DEF AsDict
  <1>2. CASE x[1] = "named"
    <2> DEFINE e == AsDict(x)
    <2>1. RToAny[x] = <<"dict", e>>
      BY <1>2, RToAnyCases DEF AsDict
    <2>2. ~Stops[x]
      BY <1>2, StopsCases, InsideCases DEF Refused
    <2>3. RToAny[x] \in Anys /\ ~NotFinite[RToAny[x]]
      BY <2>2, ValuesClosed, WrittenIsFinite
    <2>4. RToAny[x][1] = "dict" /\ RToAny[x][2] = e
      BY <2>1
    <2> HIDE DEF e
    <2>5. IsDict(e)
      BY <2>3, <2>4, ValuesAssumption DEF IsAny, None
    <2>6. \A k \in DOMAIN e : ~NotFinite[e[k]]
      BY <2>3, <2>4, NotFiniteCases
    <2>7. QED
      BY <2>5, <2>6 DEF Written, e
  <1>3. QED
    BY <1>1, <1>2

(* A list that was read, written back.                                     *)
LEMMA ReadWritten ==
    ASSUME NEW x, IsRead(x), ~Refused(x)
    PROVE  Written(AsDict(x)) /\ WrapDict(AsDict(x)) = x
  <1>1. Inside(x) = x[3] /\ DOMAIN x[3] = DOMAIN x[2]
    BY ReadNames DEF IsRead
  <1>2. ASSUME NEW i \in DOMAIN x[3]
        PROVE  /\ ~Stops[x[3][i]] /\ AnyToR[RToAny[x[3][i]]] = x[3][i]
               /\ ~NotFinite[RToAny[x[3][i]]]
    <2>1. PICK a \in Anys : x[3][i] = AnyToR[a]
      BY <1>1 DEF IsRead
    <2>2. ~Stops[x[3][i]]
      BY <1>1 DEF Refused
    <2>3. QED
      BY <2>1, <2>2, EverythingReturns, WrittenIsFinite, ValuesClosed DEF Returns
  <1>3. /\ IsDict(AsDict(x)) /\ DOMAIN AsDict(x) = Range(x[2])
        /\ \A i \in DOMAIN x[2] : AsDict(x)[x[2][i]] = RToAny[x[3][i]]
    BY <1>2, ReadAsDict
  <1>4. \A k \in DOMAIN AsDict(x) : ~NotFinite[AsDict(x)[k]]
    <2>1. SUFFICES ASSUME NEW k \in DOMAIN AsDict(x)  PROVE ~NotFinite[AsDict(x)[k]]
      OBVIOUS
    <2>2. PICK i \in DOMAIN x[2] : k = x[2][i]
      BY <1>3 DEF Range
    <2>3. QED
      BY <1>1, <1>2, <1>3, <2>2
  <1>5. WrapDict(AsDict(x)) = x
    BY <1>2, ReadReturns
  <1>6. QED
    BY <1>3, <1>4, <1>5 DEF Written

-----------------------------------------------------------------------------
(* An edit of one key.                                                     *)

(* y is the list read from d, with v, if anything, under k.                *)
IsEdited(y, d, k, v) ==
    /\ y[1] = "named" /\ y[2] \in Seq(DOMAIN d \cup {k}) /\ IsInjective(y[2])
    /\ DOMAIN y[3] = DOMAIN y[2]
    /\ \A i \in DOMAIN y[2] :
         IF y[2][i] = k THEN y[3][i] = v
         ELSE y[2][i] \in DOMAIN d /\ y[3][i] = AnyToR[d[y[2][i]]]
    /\ \A j \in DOMAIN d \ {k} : \E i \in DOMAIN y[2] : y[2][i] = j
    /\ v = Null => \A i \in DOMAIN y[2] : y[2][i] # k
    /\ v # Null => \E i \in DOMAIN y[2] : y[2][i] = k

LEMMA EditedList ==
    ASSUME NEW d, IsDict(d), NEW k, NEW v \in RValues
    PROVE  IsEdited(WithEntry(WrapDict(d), k, v), d, k, v)
  <1> DEFINE x == WrapDict(d)
             names == x[2]
             s == x[3]
             n == Len(names)
             at == {i \in DOMAIN names : names[i] = k}
             p == CHOOSE i \in at : TRUE
             y == WithEntry(x, k, v)
  <1>1. /\ IsRead(x) /\ Range(names) = DOMAIN d
        /\ \A i \in DOMAIN names : s[i] = AnyToR[d[names[i]]]
    BY DictIsRead
  <1> HIDE DEF x
  <1>2. /\ x[1] = "named" /\ names \in Seq(DOMAIN d) /\ IsInjective(names)
        /\ DOMAIN names = 1..n /\ n \in Nat
        /\ \A i \in DOMAIN names : names[i] \in DOMAIN d
    BY <1>1, ReadNames
  <1>3. DOMAIN s = 1..n /\ \A i \in 1..n : s[i] \in RValues
    BY <1>1, <1>2, ValuesClosed DEF IsRead
  <1>4. s \in Seq(RValues) /\ Len(s) = n
    <2>1. s = [i \in 1..n |-> s[i]]
      BY <1>1, <1>2 DEF IsRead
    <2> HIDE DEF s, n
    <2>2. s \in [1..n -> RValues]
      BY <1>3, <2>1
    <2>3. QED
      BY <1>2, <2>2
  <1>5. \A j \in DOMAIN d : \E i \in DOMAIN names : names[i] = j
    BY <1>1 DEF Range
  <1>6. y = CASE v = Null /\ at = {}  -> x
              [] v = Null /\ at # {}  -> <<"named", RemoveAt(names, p), RemoveAt(s, p)>>
              [] v # Null /\ at = {}  -> <<"named", Append(names, k), Append(s, v)>>
              [] v # Null /\ at # {}  -> <<"named", names, ReplaceAt(s, p, v)>>
    BY <1>2 DEF WithEntry
  <1>7. at # {} => p \in DOMAIN names /\ names[p] = k
    OBVIOUS
  <1>8. names \in Seq(DOMAIN d \cup {k})
    BY <1>2
  <1>9. at = {} => k \notin Range(names)
    BY DEF Range
  <1>10. \A i, j \in DOMAIN names : names[i] = names[j] => i = j
    BY <1>2 DEF IsInjective
  <1> HIDE DEF names, s, n, at, p, y
  <1>11. CASE v = Null /\ at = {}
    <2>1. y = x
      BY <1>6, <1>11
    <2>2. \A i \in DOMAIN names : names[i] # k
      BY <1>11 DEF at
    <2>3. y[1] = "named" /\ y[2] = names /\ y[3] = s
      BY <1>2, <2>1 DEF names, s
    <2>4. QED
      BY <1>1, <1>2, <1>3, <1>5, <1>8, <1>11, <2>2, <2>3 DEF IsEdited, y, x
  <1>12. CASE v = Null /\ at # {}
    <2> DEFINE t == RemoveAt(names, p)
               u == RemoveAt(s, p)
    <2>1. y = <<"named", t, u>>
      BY <1>6, <1>12
    <2>2. p \in 1..n /\ names[p] = k
      BY <1>2, <1>7, <1>12
    <2>3. /\ t \in Seq(DOMAIN d \cup {k}) /\ Len(t) = n - 1
          /\ \A i \in 1..(n - 1) : t[i] = IF i < p THEN names[i] ELSE names[i + 1]
      BY <1>8, <2>2, RemoveElements DEF n
    <2>4. /\ u \in Seq(RValues) /\ Len(u) = n - 1
          /\ \A i \in 1..(n - 1) : u[i] = IF i < p THEN s[i] ELSE s[i + 1]
      BY <1>4, <2>2, RemoveElements
    <2>5. IsInjective(t)
      BY <1>2, <1>8, <2>2, RemoveRange DEF n
    <2>6. DOMAIN t = 1..(n - 1) /\ DOMAIN u = 1..(n - 1)
      BY <2>3, <2>4, LenProperties
    <2>7. y[1] = "named" /\ y[2] = t /\ y[3] = u
      BY <2>1
    <2> HIDE DEF t, u
    <2>8. ASSUME NEW i \in DOMAIN t
          PROVE  \E j \in DOMAIN names : j # p /\ t[i] = names[j] /\ u[i] = s[j]
      <3>1. CASE i < p
        BY <1>2, <2>2, <2>3, <2>4, <2>6, <3>1
      <3>2. CASE ~ i < p
        <4>1. i + 1 \in DOMAIN names /\ i + 1 # p
          BY <1>2, <2>2, <2>6, <3>2
        <4>2. t[i] = names[i + 1] /\ u[i] = s[i + 1]
          BY <2>3, <2>4, <2>6, <3>2
        <4>3. QED
          BY <4>1, <4>2
      <3>3. QED
        BY <3>1, <3>2
    <2>9. \A i \in DOMAIN t : /\ t[i] # k /\ t[i] \in DOMAIN d
                              /\ u[i] = AnyToR[d[t[i]]]
      BY <1>1, <1>2, <1>10, <2>2, <2>8 DEF names, s
    <2>10. ASSUME NEW j \in DOMAIN d \ {k}
           PROVE  \E i \in DOMAIN t : t[i] = j
      <3>1. PICK l \in 1..n : names[l] = j /\ l # p
        BY <1>2, <1>5, <2>2
      <3>2. CASE l < p
        BY <1>2, <2>2, <2>3, <2>6, <3>1, <3>2
      <3>3. CASE ~ l < p
        <4>1. l - 1 \in 1..(n - 1) /\ ~ (l - 1 < p) /\ (l - 1) + 1 = l
          BY <1>2, <2>2, <3>1, <3>3
        <4>2. t[l - 1] = names[l]
          BY <2>3, <4>1
        <4>3. QED
          BY <2>6, <3>1, <4>1, <4>2
      <3>4. QED
        BY <3>2, <3>3
    <2>11. QED
      BY <1>12, <2>3, <2>5, <2>6, <2>7, <2>9, <2>10 DEF IsEdited, y, x
  <1>13. CASE v # Null /\ at = {}
    <2> DEFINE t == Append(names, k)
               u == Append(s, v)
    <2>1. y = <<"named", t, u>>
      BY <1>6, <1>13
    <2>2. t \in Seq(DOMAIN d \cup {k}) /\ IsInjective(t)
      BY <1>2, <1>8, <1>9, <1>13, AppendRange
    <2>3. /\ DOMAIN t = 1..(n + 1) /\ t[n + 1] = k /\ \A i \in 1..n : t[i] = names[i]
          /\ DOMAIN u = 1..(n + 1) /\ u[n + 1] = v /\ \A i \in 1..n : u[i] = s[i]
      BY <1>2, <1>4, <1>8 DEF n
    <2>4. y[1] = "named" /\ y[2] = t /\ y[3] = u
      BY <2>1
    <2> HIDE DEF t, u
    <2>5. \A i \in 1..n : /\ t[i] # k /\ t[i] \in DOMAIN d
                          /\ u[i] = AnyToR[d[t[i]]]
      BY <1>1, <1>2, <1>13, <2>3 DEF names, s, at
    <2>6. \A i \in DOMAIN t : i \in 1..n \/ i = n + 1
      BY <1>2, <2>3
    <2>7. \A j \in DOMAIN d \ {k} : \E i \in DOMAIN t : t[i] = j
      BY <1>2, <1>5, <2>3
    <2>8. \A i \in DOMAIN t : IF t[i] = k THEN u[i] = v
                              ELSE t[i] \in DOMAIN d /\ u[i] = AnyToR[d[t[i]]]
      BY <2>3, <2>5, <2>6
    <2>9. \E i \in DOMAIN t : t[i] = k
      BY <1>2, <2>3
    <2>10. QED
      BY <1>13, <2>2, <2>3, <2>4, <2>7, <2>8, <2>9 DEF IsEdited, y, x
  <1>14. CASE v # Null /\ at # {}
    <2> DEFINE u == ReplaceAt(s, p, v)
    <2>1. y = <<"named", names, u>>
      BY <1>6, <1>14
    <2>2. p \in DOMAIN names /\ names[p] = k
      BY <1>7, <1>14
    <2>3. DOMAIN u = DOMAIN names /\ u[p] = v /\ \A i \in DOMAIN names : i # p => u[i] = s[i]
      BY <1>2, <1>3, <2>2 DEF ReplaceAt
    <2>4. y[1] = "named" /\ y[2] = names /\ y[3] = u
      BY <2>1
    <2> HIDE DEF u
    <2>5. \A i \in DOMAIN names : IF names[i] = k THEN u[i] = v
                                  ELSE names[i] \in DOMAIN d /\ u[i] = AnyToR[d[names[i]]]
      BY <1>1, <1>2, <1>10, <2>2, <2>3 DEF names, s
    <2>6. QED
      BY <1>2, <1>5, <1>8, <1>14, <2>2, <2>3, <2>4, <2>5 DEF IsEdited, y, x
  <1>15. QED
    BY <1>11, <1>12, <1>13, <1>14 DEF y, x

(* The dictionary such a list gives.                                       *)
LEMMA EditedDict ==
    ASSUME NEW d, IsDict(d), NEW k \in Keys, NEW v \in Values, NEW y,
           y = WithEntry(WrapDict(d), k, v), ~Refused(y)
    PROVE  /\ Written(AsDict(y)) /\ DOMAIN AsDict(y) \ {k} = DOMAIN d \ {k}
           /\ \A j \in DOMAIN d \ {k} : Meaning[AsDict(y)[j]] = Meaning[d[j]]
  <1> DEFINE names == y[2]
             S == DOMAIN d \cup {k}
             s == [i \in DOMAIN y[3] |-> RToAny[y[3][i]]]
             e == Entries(names, s)
  <1>1. IsEdited(y, d, k, v) /\ v \in RValues
    BY EditedList, InputsAssumption
  <1>2. AsDict(y) = e
    BY <1>1 DEF AsDict, IsEdited
  <1>3. NaCharacter \notin S
    BY InputsAssumption DEF IsDict
  <1>4. DOMAIN y[3] = DOMAIN names /\ names \in Seq(S) /\ IsInjective(names)
    BY <1>1 DEF IsEdited
  <1> HIDE DEF S
  <1>5. /\ e = [j \in Range(names) |-> e[j]]
        /\ \A i \in DOMAIN names : e[names[i]] = s[i]
    BY <1>3, <1>4, DistinctEntries
  <1>6. \A i \in DOMAIN names : ~Stops[y[3][i]]
    BY <1>1, <1>4, InsideCases DEF Refused, IsEdited
  <1>7. \A i \in DOMAIN names : s[i] = RToAny[y[3][i]]
    BY <1>4
  <1> HIDE DEF e, s
  <1>8. ASSUME NEW i \in DOMAIN names
        PROVE  /\ s[i] \in Anys /\ ~NotFinite[s[i]]
               /\ names[i] # k => names[i] \in DOMAIN d /\ Meaning[s[i]] = Meaning[d[names[i]]]
    <2>1. CASE names[i] = k
      <3>1. y[3][i] = v
        BY <1>1, <2>1 DEF IsEdited
      <3>2. QED
        BY <1>1, <1>6, <1>7, <2>1, <3>1, ValuesClosed, WrittenIsFinite
    <2>2. CASE names[i] # k
      <3>1. names[i] \in DOMAIN d /\ y[3][i] = AnyToR[d[names[i]]]
        BY <1>1, <2>2 DEF IsEdited
      <3>2. d[names[i]] \in Anys
        BY <3>1 DEF IsDict, Range
      <3>3. y[3][i] \in RValues /\ ~Stops[y[3][i]]
        BY <1>6, <3>1, <3>2, ValuesClosed
      <3>4. Meaning[RToAny[y[3][i]]] = Meaning[d[names[i]]]
        BY <3>1, <3>2, <3>3, EverythingReturns DEF Returns
      <3>5. QED
        BY <1>7, <3>1, <3>3, <3>4, ValuesClosed, WrittenIsFinite
    <2>3. QED
      BY <2>1, <2>2
  <1>9. DOMAIN e = Range(names) /\ e = [j \in DOMAIN e |-> e[j]]
    BY <1>5
  <1>10. \A j \in DOMAIN e : \E i \in DOMAIN names : names[i] = j /\ e[j] = s[i]
    <2>1. SUFFICES ASSUME NEW j \in DOMAIN e
                   PROVE  \E i \in DOMAIN names : names[i] = j /\ e[j] = s[i]
      OBVIOUS
    <2>2. PICK i \in DOMAIN names : names[i] = j
      BY <1>9 DEF Range
    <2>3. QED
      BY <1>5, <2>2
  <1>11. DOMAIN e \subseteq DOMAIN d \cup {k} /\ DOMAIN d \ {k} \subseteq DOMAIN e
    <2>1. DOMAIN e \subseteq DOMAIN d \cup {k}
      BY <1>8, <1>10
    <2>2. ASSUME NEW j \in DOMAIN d \ {k}
          PROVE  j \in DOMAIN e
      <3>1. PICK i \in DOMAIN names : names[i] = j
        BY <1>1 DEF IsEdited
      <3>2. QED
        BY <1>9, <3>1 DEF Range
    <2>3. QED
      BY <2>1, <2>2
  <1>12. IsFiniteSet(DOMAIN e)
    <2>1. IsFiniteSet(DOMAIN d \cup {k})
      BY FS_AddElement DEF IsDict
    <2>2. QED
      BY <1>11, <2>1, FS_Subset
  <1>13. \A j \in DOMAIN e : e[j] \in Anys /\ ~NotFinite[e[j]]
    BY <1>8, <1>10
  <1>14. Written(e)
    BY <1>3, <1>9, <1>11, <1>12, <1>13 DEF Written, IsDict, Range, S
  <1>15. \A j \in DOMAIN d \ {k} : Meaning[e[j]] = Meaning[d[j]]
    BY <1>8, <1>10, <1>11
  <1>16. QED
    BY <1>2, <1>11, <1>14, <1>15

-----------------------------------------------------------------------------
(* The steps.                                                              *)

(* The lists that are written have a name for each element, and nothing    *)
(* without names has elements.                                             *)
LEMMA RequestedShape ==
    ASSUME DictOk, CopyOk, NEW op, NEW k, NEW x, Requested(op, k, x), ~Unnamed(x)
    PROVE  /\ x[1] = "named" => /\ \E S : x[2] \in Seq(S)
                                /\ Inside(x) = x[3] /\ DOMAIN x[3] = 1..Len(x[2])
                                /\ DOMAIN x[2] = 1..Len(x[2]) /\ Len(x[2]) \in Nat
           /\ x[1] # "named" => DOMAIN Inside(x) = {} /\ AsDict(x) = <<>>
  <1>1. CASE x \in Lists
    <2>1. IsRValue(x) /\ x[1] \in {"NULL", "list", "named", "handle"} \cup Atomic
      BY <1>1, InputsAssumption, ValuesAssumption
    <2>2. CASE x[1] = "named"
      <3>1. x[2] \in Seq(STRING) /\ DOMAIN x[3] = DOMAIN x[2]
        BY <2>1, <2>2 DEF IsRValue
      <3>2. QED
        BY <2>2, <3>1, LenProperties, InsideCases
    <2>3. CASE x[1] # "named"
      <3>1. x[1] = "list" => x[2] = <<>> /\ Inside(x) = x[2]
        BY InsideCases DEF Unnamed
      <3>2. x[1] # "list" => DOMAIN Inside(x) = {}
        BY <2>1, <2>3, InsideCases DEF Atomic
      <3>3. DOMAIN <<>> = {}
        OBVIOUS
      <3>4. QED
        BY <2>3, <3>1, <3>2, <3>3 DEF AsDict
    <2>4. QED
      BY <2>2, <2>3
  <1>2. ASSUME k \in Keys, NEW v \in Values, x = WithEntry(WrapDict(dict), k, v)
        PROVE  /\ x[1] = "named" /\ \E S : x[2] \in Seq(S)
               /\ Inside(x) = x[3] /\ DOMAIN x[3] = 1..Len(x[2])
               /\ DOMAIN x[2] = 1..Len(x[2]) /\ Len(x[2]) \in Nat
    <2>1. IsEdited(x, dict, k, v)
      BY <1>2, EditedList, InputsAssumption DEF DictOk
    <2>2. x[1] = "named" /\ x[2] \in Seq(DOMAIN dict \cup {k}) /\ DOMAIN x[3] = DOMAIN x[2]
      BY <2>1 DEF IsEdited
    <2>3. QED
      BY <2>2, LenProperties, InsideCases
  <1>3. CASE x = copy
    <2>1. CASE copy = Null
      BY <1>3, <2>1, InsideCases DEF Null, AsDict
    <2>2. CASE copy # Null
      <3>1. IsRead(x)
        BY <1>3, <2>2 DEF CopyOk
      <3>2. DOMAIN x[3] = DOMAIN x[2]
        BY <3>1 DEF IsRead
      <3>3. QED
        BY <3>1, <3>2, ReadNames
    <2>3. QED
      BY <2>1, <2>2
  <1>4. QED
    BY <1>1, <1>2, <1>3 DEF Requested

(* One more element, and the last of them.                                 *)
LEMMA OneMore ==
    ASSUME NEW names, NEW s, NEW n \in Nat, NEW d, HasFirst(names, s, n, d)
    PROVE  HasFirst(names, s, n + 1, With(d, Text(names[n + 1]), RToAny[s[n + 1]]))
  <1> DEFINE k == Text(names[n + 1])
             e == With(d, k, RToAny[s[n + 1]])
             T(i) == Text(names[i])
  <1>1. DOMAIN d = {T(i) : i \in 1..n}
    BY DEF HasFirst
  <1>2. 1..n + 1 = 1..n \cup {n + 1} /\ n + 1 \notin 1..n
    OBVIOUS
  <1>3. e = [q \in DOMAIN d \cup {k} |-> IF q = k THEN RToAny[s[n + 1]] ELSE d[q]]
    BY DEF With
  <1>4. DOMAIN d \cup {k} = {T(i) : i \in 1..n + 1}
    BY <1>1, <1>2
  <1>5. ASSUME NEW i \in 1..n + 1, \A j \in i + 1..n + 1 : T(j) # T(i)
        PROVE  e[T(i)] = RToAny[s[i]]
    <2>1. CASE i = n + 1
      BY <1>3, <2>1
    <2>2. CASE i \in 1..n
      <3>1. n + 1 \in i + 1..n + 1 /\ i + 1..n \subseteq i + 1..n + 1
        BY <2>2
      <3>2. T(i) # k /\ \A j \in i + 1..n : T(j) # T(i)
        BY <1>5, <3>1
      <3>3. d[T(i)] = RToAny[s[i]]
        BY <2>2, <3>2 DEF HasFirst
      <3>4. T(i) \in DOMAIN d
        BY <1>1, <2>2
      <3> HIDE DEF e, T, k
      <3>5. QED
        BY <1>3, <3>2, <3>3, <3>4
    <2>3. QED
      BY <1>2, <2>1, <2>2
  <1>6. e = [q \in {T(i) : i \in 1..n + 1} |-> e[q]]
    BY <1>3, <1>4
  <1> HIDE DEF e
  <1>7. HasFirst(names, s, n + 1, e)
    BY <1>5, <1>6 DEF HasFirst
  <1>8. QED
    BY <1>7 DEF e

LEMMA AllOfThem ==
    ASSUME NEW S, NEW names \in Seq(S), NEW s, DOMAIN s = DOMAIN names, NEW d,
           HasFirst(names, s, Len(names), d)
    PROVE  d = Entries(names, [i \in DOMAIN s |-> RToAny[s[i]]])
  <1> DEFINE r == [i \in DOMAIN s |-> RToAny[s[i]]]
             e == Entries(names, r)
             K == {Text(names[i]) : i \in 1..Len(names)}
  <1>1. DOMAIN names = 1..Len(names) /\ Len(names) \in Nat
    BY LenProperties
  <1>2. {Text(n) : n \in Range(names)} = K
    BY <1>1 DEF Range
  <1> HIDE DEF K, r
  <1>3. e = [k \in K |-> e[k]]
    BY <1>2 DEF Entries
  <1>4. d = [k \in K |-> d[k]]
    BY DEF HasFirst, K
  <1>5. ASSUME NEW k \in K
        PROVE  d[k] = e[k]
    <2>1. k \in DOMAIN e
      BY <1>3
    <2>2. PICK i \in DOMAIN names :
             /\ Text(names[i]) = k /\ \A j \in i + 1..Len(names) : Text(names[j]) # k
             /\ e[k] = r[i]
      <3>1. \E i \in DOMAIN names :
              /\ Text(names[i]) = k /\ \A j \in i + 1..Len(names) : Text(names[j]) # k
              /\ Entries(names, r)[k] = r[i]
        BY <2>1, LastEntry
      <3>2. QED
        BY <3>1
    <2>3. d[k] = RToAny[s[i]]
      BY <1>1, <2>2 DEF HasFirst
    <2>4. r[i] = RToAny[s[i]]
      BY DEF r
    <2>5. QED
      BY <2>2, <2>3, <2>4
  <1> HIDE DEF e
  <1>6. d = e
    BY <1>3, <1>4, <1>5
  <1>7. QED
    BY <1>6 DEF e, r

(* What a call of cpp_set_metadata leaves when it returns or stops.        *)
Outcome(op, k, x) ==
    /\ dict' = IF Refused(x) THEN dict ELSE AsDict(x)
    /\ last' = Call(op, k, ~Refused(x))
    /\ frame' = NoFrame /\ UNCHANGED copy

(* A call goes on, or the last of its steps is the outcome of what it was  *)
(* asked to write.                                                         *)
Silent   == UNCHANGED <<dict, copy>> /\ last'.op = "begin" /\ FrameOk'
Finished == \E op, k, x : Requested(op, k, x) /\ Outcome(op, k, x)

LEMMA BeginStep ==
    ASSUME NEW op, op # "none", NEW k, NEW x, Requested(op, k, x), BeginSet(op, k, x)
    PROVE  Silent \/ Finished
  <1>1. CASE Unnamed(x)
    <2>1. Refused(x)
      BY <1>1 DEF Refused
    <2>2. Outcome(op, k, x)
      BY <1>1, <2>1 DEF Outcome, BeginSet
    <2>3. QED
      BY <2>2 DEF Finished
  <1>2. CASE ~Unnamed(x)
    <2>1. /\ frame' = Frame(op, k, x, 0, <<>>) /\ last' = Call("begin", k, TRUE)
          /\ UNCHANGED <<dict, copy>>
      BY <1>2 DEF BeginSet
    <2>2. /\ frame'.op = op /\ frame'.key = k /\ frame'.list = x
          /\ frame'.done = 0 /\ frame'.d = <<>>
      BY <2>1 DEF Frame
    <2>3. HasFirst(x[2], x[3], 0, <<>>)
      <3>1. 1..0 = {} /\ {Text(x[2][i]) : i \in {}} = {}
        OBVIOUS
      <3>2. <<>> = [q \in {} |-> <<>>[q]]
        OBVIOUS
      <3>3. QED
        BY <3>1, <3>2 DEF HasFirst
    <2>4. Requested(op, k, x)'
      BY <2>1 DEF Requested
    <2>5. FrameOk'
      BY <1>2, <2>1, <2>2, <2>3, <2>4 DEF FrameOk, Requested, Call
    <2>6. QED
      BY <2>1, <2>5 DEF Silent, Call
  <1>3. QED
    BY <1>1, <1>2

LEMMA TakeStep ==
    ASSUME IInv, TakeElement
    PROVE  Silent \/ Finished
  <1> DEFINE x == frame.list
             i == frame.done + 1
             a == RToAny[Inside(x)[i]]
             d == With(frame.d, Text(x[2][i]), a)
  <1>1. InCall /\ i \in DOMAIN Inside(x) /\ UNCHANGED <<dict, copy>>
    BY DEF TakeElement, Elements
  <1>2. /\ frame = Frame(frame.op, frame.key, x, frame.done, frame.d)
        /\ Requested(frame.op, frame.key, x) /\ ~Unnamed(x)
        /\ frame.done \in Nat
        /\ \A j \in 1..frame.done : j \in DOMAIN Inside(x) /\ ~Stops[Inside(x)[j]]
        /\ HasFirst(x[2], x[3], frame.done, frame.d) /\ last.op = "begin"
    BY <1>1 DEF IInv, FrameOk, Elements
  <1>3. CASE Stops[Inside(x)[i]]
    <2>1. frame' = NoFrame /\ last' = Call(frame.op, frame.key, FALSE)
      BY <1>3 DEF TakeElement, Elements
    <2>2. Refused(x)
      BY <1>1, <1>3 DEF Refused
    <2>3. Outcome(frame.op, frame.key, x)
      BY <1>1, <2>1, <2>2 DEF Outcome
    <2>4. QED
      BY <1>2, <2>3 DEF Finished
  <1>4. CASE ~Stops[Inside(x)[i]]
    <2>1. frame' = [frame EXCEPT !.done = i, !.d = d] /\ UNCHANGED last
      BY <1>4 DEF TakeElement, Elements
    <2> HIDE DEF d
    <2>2. frame' = Frame(frame.op, frame.key, x, i, d)
      BY <1>2, <2>1 DEF Frame
    <2>3. /\ frame'.op = frame.op /\ frame'.key = frame.key /\ frame'.list = x
          /\ frame'.done = i /\ frame'.d = d
      BY <2>2 DEF Frame
    <2>4. Inside(x) = x[3]
      BY <1>1, <1>2, RequestedShape DEF IInv
    <2>5. HasFirst(x[2], x[3], i, d)
      BY <1>2, <2>4, OneMore DEF d
    <2>6. \A j \in 1..i : j \in DOMAIN Inside(x) /\ ~Stops[Inside(x)[j]]
      <3>1. 1..i = 1..frame.done \cup {i}
        BY <1>2
      <3>2. QED
        BY <1>1, <1>2, <1>4, <3>1
    <2>7. i \in Nat
      BY <1>2
    <2> HIDE DEF i
    <2>8. Requested(frame.op, frame.key, x)'
      BY <1>1, <1>2, <2>3 DEF Requested
    <2>9. FrameOk'
      BY <1>2, <2>1, <2>2, <2>3, <2>5, <2>6, <2>7, <2>8 DEF FrameOk, Elements
    <2>10. QED
      BY <1>1, <1>2, <2>1, <2>9 DEF Silent
  <1>5. QED
    BY <1>3, <1>4

LEMMA EndStep ==
    ASSUME IInv, EndSet
    PROVE  /\ Requested(frame.op, frame.key, frame.list)
           /\ Outcome(frame.op, frame.key, frame.list)
  <1> DEFINE x == frame.list
             n == frame.done
  <1>1. /\ InCall /\ n + 1 \notin DOMAIN Inside(x) /\ UNCHANGED copy /\ dict' = frame.d
        /\ last' = Call(frame.op, frame.key, TRUE) /\ frame' = NoFrame
    BY DEF EndSet, Elements
  <1>2. /\ Requested(frame.op, frame.key, x) /\ ~Unnamed(x) /\ n \in Nat
        /\ \A j \in 1..n : j \in DOMAIN Inside(x) /\ ~Stops[Inside(x)[j]]
        /\ HasFirst(x[2], x[3], n, frame.d)
    BY <1>1 DEF IInv, FrameOk, Elements
  <1>3. frame.d = AsDict(x) /\ DOMAIN Inside(x) = 1..n
    <2>1. CASE x[1] = "named"
      <3>1. /\ \E S : x[2] \in Seq(S)
            /\ Inside(x) = x[3] /\ DOMAIN x[3] = 1..Len(x[2])
            /\ DOMAIN x[2] = 1..Len(x[2]) /\ Len(x[2]) \in Nat
        BY <1>2, <2>1, RequestedShape DEF IInv
      <3>2. n = Len(x[2])
        <4>1. 1..n \subseteq 1..Len(x[2]) /\ n + 1 \notin 1..Len(x[2])
          BY <1>1, <1>2, <3>1
        <4>2. n > 0 => n \in 1..Len(x[2])
          BY <1>2, <4>1
        <4>3. QED
          BY <1>2, <3>1, <4>1, <4>2
      <3>3. frame.d = Entries(x[2], [i \in DOMAIN x[3] |-> RToAny[x[3][i]]])
        BY <1>2, <3>1, <3>2, AllOfThem
      <3>4. QED
        BY <2>1, <3>1, <3>2, <3>3 DEF AsDict
    <2>2. CASE x[1] # "named"
      <3>1. DOMAIN Inside(x) = {} /\ AsDict(x) = <<>>
        BY <1>2, <2>2, RequestedShape DEF IInv
      <3>2. n = 0
        <4>1. n > 0 => 1 \in 1..n
          BY <1>2
        <4>2. QED
          BY <1>2, <3>1, <4>1
      <3>3. 1..0 = {} /\ {Text(x[2][i]) : i \in {}} = {} /\ <<>> = [q \in {} |-> frame.d[q]]
        OBVIOUS
      <3>4. frame.d = <<>>
        BY <1>2, <3>2, <3>3 DEF HasFirst
      <3>5. QED
        BY <3>1, <3>2, <3>3, <3>4
    <2>3. QED
      BY <2>1, <2>2
  <1>4. ~Refused(x)
    BY <1>2, <1>3 DEF Refused
  <1>5. Outcome(frame.op, frame.key, x)
    BY <1>1, <1>3, <1>4 DEF Outcome
  <1>6. QED
    BY <1>2, <1>5

(* Every step is one of these, or a call that does not write.              *)
LEMMA Steps ==
    ASSUME IInv, Next
    PROVE  Silent \/ Finished \/ (~InCall /\ (Read \/ \E d \in Loaded : Load(d)))
  <1>1. ASSUME NEW x \in Lists, Assign(x)
        PROVE  Silent \/ Finished
    BY <1>1, BeginStep DEF Assign, Requested
  <1>2. ASSUME NEW k \in Keys, NEW v \in Values, Edit(k, v)
        PROVE  Silent \/ Finished
    <2> DEFINE y == WithEntry(WrapDict(dict), k, v)
    <2>1. Requested("edit", k, y) /\ BeginSet("edit", k, y)
      BY <1>2 DEF Edit, Requested
    <2> HIDE DEF y
    <2>2. QED
      BY <2>1, BeginStep
  <1>3. ASSUME Restore
        PROVE  Silent \/ Finished
    BY <1>3, BeginStep DEF Restore, Requested
  <1>4. EndSet => Finished
    BY EndStep DEF Finished
  <1>5. QED
    BY <1>1, <1>2, <1>3, <1>4, TakeStep DEF Next, Calls

(* What was requested is a dictionary R code made when it is accepted.     *)
LEMMA RequestWritten ==
    ASSUME DictOk, CopyOk, NEW op, NEW k, NEW x, Requested(op, k, x), ~Refused(x)
    PROVE  Written(AsDict(x))
  <1>1. CASE x \in Lists
    BY <1>1, InputsAssumption, ListWritten
  <1>2. ASSUME k \in Keys, NEW v \in Values, x = WithEntry(WrapDict(dict), k, v)
        PROVE  Written(AsDict(x))
    BY <1>2, EditedDict DEF DictOk
  <1>3. CASE x = copy
    <2>1. CASE copy = Null
      BY <1>3, <2>1, NothingWritten DEF AsDict, Null
    <2>2. CASE copy # Null
      BY <1>3, <2>2, ReadWritten DEF CopyOk
    <2>3. QED
      BY <2>1, <2>2
  <1>4. QED
    BY <1>1, <1>2, <1>3 DEF Requested

LEMMA NotInCall == frame' = NoFrame => FrameOk'
  BY DEF FrameOk, InCall, NoFrame, Frame

LEMMA InitGood == Init => IInv
  BY NothingWritten DEF Init, IInv, DictOk, CopyOk, Written, FrameOk, InCall, NoFrame, Frame

LEMMA KeptCopy == CopyOk /\ UNCHANGED copy => CopyOk'
  BY DEF CopyOk, FromLoaded

LEMMA FinishedStep ==
    ASSUME IInv, Finished
    PROVE  IInv'
  <1>1. PICK op, k, x : Requested(op, k, x) /\ Outcome(op, k, x)
    BY DEF Finished
  <1>2. DictOk'
    <2>1. CASE Refused(x)
      BY <1>1, <2>1 DEF Outcome, IInv, DictOk
    <2>2. CASE ~Refused(x)
      <3>1. dict' = AsDict(x) /\ Written(AsDict(x))
        BY <1>1, <2>2, RequestWritten DEF Outcome, IInv
      <3>2. QED
        BY <3>1 DEF DictOk, Written
    <2>3. QED
      BY <2>1, <2>2
  <1>3. QED
    BY <1>1, <1>2, KeptCopy, NotInCall DEF Outcome, IInv

LEMMA ReadStep ==
    ASSUME IInv, ~InCall, Read
    PROVE  IInv'
  <1> DEFINE x == WrapDict(dict)
  <1>1. copy' = x /\ UNCHANGED dict
    BY DEF Read
  <1>2. IsDict(dict)
    BY DEF IInv, DictOk
  <1>3. /\ IsRead(x) /\ Range(x[2]) = DOMAIN dict
        /\ \A i \in DOMAIN x[2] : x[3][i] = AnyToR[dict[x[2][i]]]
    BY <1>2, DictIsRead
  <1>4. ASSUME NEW i \in DOMAIN x[3], Stops[x[3][i]]
        PROVE  FromLoaded(x)
    <2>1. i \in DOMAIN x[2] /\ x[2][i] \in DOMAIN dict
      BY <1>3 DEF IsRead, Range
    <2>2. dict[x[2][i]] \in Anys
      BY <1>2, <2>1 DEF IsDict, Range
    <2>3. NotFinite[dict[x[2][i]]]
      BY <1>3, <1>4, <2>1, <2>2, EverythingReturns DEF Returns
    <2>4. dict \in Loaded
      BY <2>1, <2>3 DEF IInv, DictOk
    <2>5. QED
      BY <2>1, <2>3, <2>4 DEF FromLoaded
  <1> HIDE DEF x
  <1>5. CopyOk'
    BY <1>1, <1>3, <1>4 DEF CopyOk, FromLoaded
  <1>6. DictOk'
    BY <1>1 DEF IInv, DictOk
  <1>7. FrameOk'
    BY DEF Read, FrameOk, InCall
  <1>8. QED
    BY <1>5, <1>6, <1>7 DEF IInv

LEMMA NextGood == IInv /\ [Next]_vars => IInv'
  <1> SUFFICES ASSUME IInv, [Next]_vars  PROVE IInv'
    OBVIOUS
  <1>1. DictOk /\ CopyOk /\ FrameOk
    BY DEF IInv
  <1>2. CASE Silent
    <2>1. DictOk'
      BY <1>1, <1>2 DEF Silent, DictOk
    <2>2. QED
      BY <1>1, <1>2, <2>1, KeptCopy DEF Silent, IInv
  <1>3. CASE Finished
    BY <1>3, FinishedStep
  <1>4. CASE ~InCall /\ Read
    BY <1>4, ReadStep
  <1>5. ASSUME ~InCall, NEW d \in Loaded, Load(d)
        PROVE  IInv'
    <2>1. DictOk'
      BY <1>5, InputsAssumption DEF Load, DictOk
    <2>2. FrameOk'
      BY <1>5 DEF Load, FrameOk, InCall
    <2>3. QED
      BY <1>1, <1>5, <2>1, <2>2, KeptCopy DEF Load, IInv
  <1>6. CASE UNCHANGED vars
    <2>1. DictOk' /\ CopyOk'
      BY <1>1, <1>6 DEF vars, DictOk, CopyOk, FromLoaded
    <2>2. FrameOk'
      BY <1>1, <1>6 DEF vars, FrameOk, InCall, Elements, Requested
    <2>3. QED
      BY <2>1, <2>2 DEF IInv
  <1>7. QED
    BY <1>2, <1>3, <1>4, <1>5, <1>6, Steps

THEOREM InvariantHolds == Spec => []IInv
  <1>1. Init => IInv
    BY InitGood
  <1>2. IInv /\ [Next]_vars => IInv'
    BY NextGood
  <1>3. QED
    BY <1>1, <1>2, PTL DEF Spec

-----------------------------------------------------------------------------
(* The properties.                                                         *)

(* The object's metadata stay as they are until the whole list has been    *)
(* converted, and for good when one of its elements stops.                 *)
THEOREM AssignsAllOrNothing == Spec => AllOrNothing
  <1>1. IInv /\ [Next]_vars =>
          [/\ InCall' \/ ~last'.ok => UNCHANGED dict
           /\ InCall /\ ~InCall' =>
                dict' = IF Refused(frame.list) THEN dict ELSE AsDict(frame.list)]_vars
    <2>1. SUFFICES ASSUME IInv, Next
                   PROVE  /\ InCall' \/ ~last'.ok => UNCHANGED dict
                          /\ InCall /\ ~InCall' =>
                               dict' = IF Refused(frame.list) THEN dict ELSE AsDict(frame.list)
      BY DEF vars
    <2>2. ASSUME ~InCall, Calls
          PROVE  InCall' \/ ~last'.ok => UNCHANGED dict
      <3>1. ASSUME NEW op, NEW k, NEW x, BeginSet(op, k, x)
            PROVE  UNCHANGED dict
        BY <3>1 DEF BeginSet
      <3>2. ASSUME NEW d \in Loaded, Load(d)
            PROVE  ~InCall' /\ last'.ok
        BY <2>2, <3>2 DEF Load, Call, InCall
      <3>3. QED
        BY <2>2, <3>1, <3>2 DEF Calls, Assign, Edit, Read, Restore
    <2>3. ASSUME InCall, TakeElement
          PROVE  /\ UNCHANGED dict
                 /\ ~InCall' => Refused(frame.list)
      <3>1. UNCHANGED dict
        BY <2>3 DEF TakeElement
      <3>2. ASSUME ~Refused(frame.list)
            PROVE  InCall'
        <4>1. ~Stops[Elements[frame.done + 1]]
          BY <2>3, <3>2 DEF TakeElement, Refused, Elements
        <4>2. frame' = [frame EXCEPT !.done = frame.done + 1,
                          !.d = With(frame.d, Text(frame.list[2][frame.done + 1]),
                                     RToAny[Elements[frame.done + 1]])]
          BY <2>3, <4>1 DEF TakeElement
        <4>3. frame = Frame(frame.op, frame.key, frame.list, frame.done, frame.d)
          BY <2>1, <2>3 DEF IInv, FrameOk
        <4>4. frame'.op = frame.op
          BY <4>2, <4>3 DEF Frame
        <4>5. QED
          BY <2>3, <4>4 DEF InCall
      <3>3. QED
        BY <3>1, <3>2
    <2>4. ASSUME InCall, EndSet
          PROVE  /\ ~InCall' /\ last'.ok
                 /\ ~Refused(frame.list) /\ dict' = AsDict(frame.list)
      <3>1. ~InCall' /\ last'.ok
        BY <2>4 DEF EndSet, Call, InCall, NoFrame, Frame
      <3>2. Outcome(frame.op, frame.key, frame.list)
        BY <2>1, <2>4, EndStep
      <3>3. QED
        BY <3>1, <3>2 DEF Outcome, Call
    <2>5. QED
      BY <2>1, <2>2, <2>3, <2>4 DEF Next, TakeElement, EndSet
  <1>2. QED
    BY <1>1, InvariantHolds, PTL DEF Spec, AllOrNothing

(* metadata(x)$k <- v leaves every other key in the dictionary, and its    *)
(* value says what it said, although all were read and written back.       *)
THEOREM EditsTouchOneKey == Spec => EditTouchesOneKey
  <1>1. IInv /\ [Next]_vars =>
          [last'.op = "edit" /\ last'.ok =>
             \A j \in (DOMAIN dict \cup DOMAIN dict') \ {last'.key} :
                /\ j \in DOMAIN dict \cap DOMAIN dict'
                /\ Meaning[dict'[j]] = Meaning[dict[j]]]_vars
    <2>1. SUFFICES ASSUME IInv, Next, last'.op = "edit", last'.ok,
                          NEW j \in (DOMAIN dict \cup DOMAIN dict') \ {last'.key}
                   PROVE  /\ j \in DOMAIN dict \cap DOMAIN dict'
                          /\ Meaning[dict'[j]] = Meaning[dict[j]]
      BY DEF vars
    <2>2. ~Silent /\ ~(Read \/ \E d \in Loaded : Load(d))
      BY <2>1 DEF Silent, Read, Load, Call
    <2>3. PICK op, l, x : Requested(op, l, x) /\ Outcome(op, l, x)
      BY <2>1, <2>2, Steps DEF Finished
    <2>4. op = "edit" /\ l = last'.key /\ ~Refused(x) /\ dict' = AsDict(x)
      BY <2>1, <2>3 DEF Outcome, Call
    <2>5. PICK k \in Keys, v \in Values : k = l /\ x = WithEntry(WrapDict(dict), k, v)
      BY <2>3, <2>4 DEF Requested
    <2> DEFINE y == WithEntry(WrapDict(dict), k, v)
               e == AsDict(y)
    <2>6. ~Refused(y) /\ dict' = e /\ last'.key = k
      BY <2>4, <2>5
    <2>7. IsDict(dict)
      BY <2>1 DEF IInv, DictOk
    <2>8. /\ DOMAIN e \ {k} = DOMAIN dict \ {k}
          /\ \A i \in DOMAIN dict \ {k} : Meaning[e[i]] = Meaning[dict[i]]
      BY <2>6, <2>7, EditedDict
    <2> HIDE DEF e, y
    <2>9. QED
      BY <2>1, <2>6, <2>8
  <1>2. QED
    BY <1>1, InvariantHolds, PTL DEF Spec, EditTouchesOneKey

(* Metadata that was read and is written back later reads as the same      *)
(* list, or is refused for a time of a JSON text that is not finite.       *)
THEOREM CopiesRestore == Spec => CopyRestores
  <1>1. IInv /\ [Next]_vars =>
          [last'.op = "restore" =>
             IF last'.ok THEN copy # Null => WrapDict(dict') = copy
                         ELSE \E d \in Loaded : /\ \E k \in DOMAIN d : NotFinite[d[k]]
                                               /\ copy = WrapDict(d)]_vars
    <2>1. SUFFICES ASSUME IInv, Next, last'.op = "restore"
                   PROVE  IF last'.ok THEN copy # Null => WrapDict(dict') = copy
                                      ELSE FromLoaded(copy)
      BY DEF vars, FromLoaded
    <2>2. Outcome("restore", NoKey, copy)
      <3>1. ~Silent /\ ~(Read \/ \E d \in Loaded : Load(d))
        BY <2>1 DEF Silent, Read, Load, Call
      <3>2. PICK op, l, x : Requested(op, l, x) /\ Outcome(op, l, x)
        BY <2>1, <3>1, Steps DEF Finished
      <3>3. op = "restore"
        BY <2>1, <3>2 DEF Outcome, Call
      <3>4. l = NoKey /\ x = copy
        BY <3>2, <3>3 DEF Requested
      <3>5. QED
        BY <3>2, <3>3, <3>4
    <2>3. last'.ok <=> ~Refused(copy)
      BY <2>2 DEF Outcome, Call
    <2>4. CopyOk
      BY <2>1 DEF IInv
    <2>5. CASE ~Refused(copy)
      <3>1. dict' = AsDict(copy)
        BY <2>2, <2>5 DEF Outcome
      <3>2. copy # Null => WrapDict(AsDict(copy)) = copy
        BY <2>4, <2>5, ReadWritten DEF CopyOk
      <3>3. QED
        BY <2>3, <2>5, <3>1, <3>2
    <2>6. CASE Refused(copy)
      <3>1. copy # Null
        BY <2>6, InsideCases DEF Refused, Unnamed, Atomic, Null
      <3>2. IsRead(copy)
        BY <2>4, <3>1 DEF CopyOk
      <3>3. Inside(copy) = copy[3] /\ copy[1] = "named"
        BY <3>2, ReadNames
      <3>4. \E i \in DOMAIN copy[3] : Stops[copy[3][i]]
        BY <2>6, <3>3 DEF Refused, Unnamed, Atomic
      <3>5. FromLoaded(copy)
        BY <2>4, <3>1, <3>4 DEF CopyOk
      <3>6. QED
        BY <2>3, <2>6, <3>5
    <2>7. QED
      BY <2>5, <2>6
  <1>2. QED
    BY <1>1, InvariantHolds, PTL DEF Spec, CopyRestores


-----------------------------------------------------------------------------
(* The dictionary as a list with names.                                    *)

Kept == IF copy = Null THEN <<>> ELSE Entries(copy[2], copy[3])

(* A list that was read has what is seen of the dictionary.                *)
LEMMA ReadSeen ==
    ASSUME NEW d, IsDict(d)
    PROVE  /\ Entries(WrapDict(d)[2], WrapDict(d)[3]) = Seen(d)
           /\ WrapDict(d) # Null
  <1> DEFINE x == WrapDict(d)
             names == x[2]
             s == x[3]
             e == Entries(names, s)
  <1>1. /\ IsRead(x) /\ Range(names) = DOMAIN d
        /\ \A i \in DOMAIN names : s[i] = AnyToR[d[names[i]]]
    BY DictIsRead
  <1> HIDE DEF x
  <1>2. names \in Seq(DOMAIN d) /\ IsInjective(names) /\ x[1] = "named"
    BY <1>1, ReadNames
  <1>3. NaCharacter \notin DOMAIN d
    BY DEF IsDict
  <1> HIDE DEF names, s
  <1>4. /\ e = [k \in DOMAIN d |-> e[k]]
        /\ \A i \in DOMAIN names : e[names[i]] = s[i]
    BY <1>1, <1>2, <1>3, DistinctEntries
  <1> HIDE DEF e
  <1>5. ASSUME NEW k \in DOMAIN d  PROVE e[k] = AnyToR[d[k]]
    <2>1. PICK i \in DOMAIN names : names[i] = k
      BY <1>1 DEF Range
    <2>2. QED
      BY <1>1, <1>4, <2>1
  <1>6. e = Seen(d)
    BY <1>4, <1>5 DEF Seen
  <1>7. x # Null
    BY <1>2 DEF Null
  <1>8. QED
    BY <1>6, <1>7 DEF e, names, s, x

(* An edit of one key is seen under that key only.                         *)
LEMMA EditSeen ==
    ASSUME NEW d, IsDict(d), NEW k \in Keys, NEW v \in Values, NEW y,
           y = WithEntry(WrapDict(d), k, v), ~Refused(y)
    PROVE  /\ v = Null => Seen(AsDict(y)) = View!Without(Seen(d), k)
           /\ v # Null => /\ ~Stops[v] /\ k \in DOMAIN Seen(AsDict(y))
                          /\ Seen(AsDict(y))[k] = AnyToR[RToAny[v]]
                          /\ View!Without(Seen(AsDict(y)), k) = View!Without(Seen(d), k)
  <1> DEFINE names == y[2]
             S == DOMAIN d \cup {k}
             s == [i \in DOMAIN y[3] |-> RToAny[y[3][i]]]
             e == Entries(names, s)
  <1>1. IsEdited(y, d, k, v) /\ v \in RValues
    BY EditedList, InputsAssumption
  <1>2. AsDict(y) = e
    BY <1>1 DEF AsDict, IsEdited
  <1>3. NaCharacter \notin S
    BY InputsAssumption DEF IsDict
  <1>4. DOMAIN y[3] = DOMAIN names /\ names \in Seq(S) /\ IsInjective(names)
    BY <1>1 DEF IsEdited
  <1> HIDE DEF S
  <1>5. /\ e = [j \in Range(names) |-> e[j]]
        /\ \A i \in DOMAIN names : e[names[i]] = s[i]
    BY <1>3, <1>4, DistinctEntries
  <1>6. \A i \in DOMAIN names : ~Stops[y[3][i]] /\ s[i] = RToAny[y[3][i]]
    BY <1>1, <1>4, InsideCases DEF Refused, IsEdited
  <1> HIDE DEF e, s
  <1>7. \A i \in DOMAIN names : names[i] = k => y[3][i] = v
    BY <1>1 DEF IsEdited
  <1>8. ASSUME NEW i \in DOMAIN names, names[i] # k
        PROVE  names[i] \in DOMAIN d /\ AnyToR[e[names[i]]] = AnyToR[d[names[i]]]
    <2>1. names[i] \in DOMAIN d /\ y[3][i] = AnyToR[d[names[i]]]
      BY <1>1, <1>8 DEF IsEdited
    <2>2. d[names[i]] \in Anys
      BY <2>1 DEF IsDict, Range
    <2>3. AnyToR[RToAny[y[3][i]]] = y[3][i]
      BY <1>6, <2>1, <2>2, EverythingReturns DEF Returns
    <2>4. QED
      BY <1>5, <1>6, <2>1, <2>3
  <1>9. DOMAIN e = Range(names) /\ Seen(e) = [j \in Range(names) |-> AnyToR[e[j]]]
    BY <1>5 DEF Seen
  <1>10. \A j \in Range(names) : \E i \in DOMAIN names : names[i] = j
    BY DEF Range
  <1>11. \A j \in Range(names) \ {k} : j \in DOMAIN d /\ AnyToR[e[j]] = AnyToR[d[j]]
    BY <1>8, <1>10
  <1>12. \A j \in DOMAIN d \ {k} : j \in Range(names)
    BY <1>1 DEF IsEdited, Range
  <1>13. DOMAIN Seen(d) = DOMAIN d /\ \A j \in DOMAIN d : Seen(d)[j] = AnyToR[d[j]]
    BY DEF Seen
  <1>14. ASSUME v = Null
         PROVE  Seen(e) = View!Without(Seen(d), k)
    <2>1. k \notin Range(names)
      BY <1>1, <1>10, <1>14 DEF IsEdited
    <2>2. Range(names) = DOMAIN d \ {k}
      BY <1>11, <1>12, <2>1
    <2>3. QED
      BY <1>9, <1>11, <1>13, <2>2 DEF View!Without
  <1>15. ASSUME v # Null
         PROVE  /\ ~Stops[v] /\ k \in DOMAIN Seen(e) /\ Seen(e)[k] = AnyToR[RToAny[v]]
                /\ View!Without(Seen(e), k) = View!Without(Seen(d), k)
    <2>1. PICK i \in DOMAIN names : names[i] = k
      BY <1>1, <1>15 DEF IsEdited
    <2>2. k \in Range(names) /\ ~Stops[v] /\ e[k] = RToAny[v]
      BY <1>5, <1>6, <1>7, <2>1 DEF Range
    <2>3. Range(names) \ {k} = DOMAIN d \ {k}
      BY <1>11, <1>12
    <2>4. \A j \in DOMAIN d \ {k} : AnyToR[e[j]] = Seen(d)[j]
      BY <1>11, <1>13, <2>3
    <2>5. \A j \in DOMAIN d \ {k} : Seen(e)[j] = Seen(d)[j]
      BY <1>9, <2>3, <2>4
    <2>6. DOMAIN Seen(e) \ {k} = DOMAIN d \ {k}
      BY <1>9, <2>3
    <2>7. View!Without(Seen(e), k) = View!Without(Seen(d), k)
      BY <1>13, <2>5, <2>6 DEF View!Without
    <2>8. QED
      BY <1>9, <2>2, <2>7
  <1>16. QED
    BY <1>2, <1>14, <1>15

LEMMA ListInitMaps == Init => View!ListInit
  <1>1. DOMAIN <<>> = {} /\ <<>> = [k \in {} |-> AnyToR[<<>>[k]]]
    OBVIOUS
  <1>2. Seen(<<>>) = <<>>
    BY <1>1 DEF Seen
  <1>3. QED
    BY <1>2 DEF Init, View!ListInit

(* Every call is one of a list, or does nothing to it.                     *)
LEMMA ListNextMaps ==
    IInv /\ [Next]_vars =>
      [View!Replace \/ View!Put \/ View!Drop \/ View!Keep \/ View!PutBack]_View!listed
  <1> SUFFICES ASSUME IInv, [Next]_vars
               PROVE  \/ View!Replace \/ View!Put \/ View!Drop \/ View!Keep \/ View!PutBack
                      \/ UNCHANGED View!listed
    OBVIOUS
  <1>1. IsDict(dict) /\ CopyOk
    BY DEF IInv, DictOk
  <1>2. UNCHANGED copy => UNCHANGED Kept
    BY DEF Kept
  <1>3. UNCHANGED <<dict, copy>> => UNCHANGED View!listed
    BY <1>2 DEF View!listed, Kept
  <1>4. ASSUME NEW k, NEW x \in Lists, Outcome("assign", k, x)
        PROVE  View!Replace \/ UNCHANGED View!listed
    <2>1. UNCHANGED copy
      BY <1>4 DEF Outcome
    <2>2. CASE Refused(x)
      BY <1>3, <1>4, <2>2 DEF Outcome
    <2>3. CASE ~Refused(x)
      <3>1. dict' = AsDict(x)
        BY <1>4, <2>3 DEF Outcome
      <3>2. Seen(dict)' \in SeenAfterAll
        BY <2>3, <3>1 DEF SeenAfterAll
      <3>3. QED
        BY <1>2, <2>1, <3>2 DEF View!Replace, Kept
    <2>4. QED
      BY <2>2, <2>3
  <1>5. ASSUME NEW k \in Keys, NEW v \in Values,
               Outcome("edit", k, WithEntry(WrapDict(dict), k, v))
        PROVE  View!Put \/ View!Drop \/ UNCHANGED View!listed
    <2> DEFINE y == WithEntry(WrapDict(dict), k, v)
    <2>1. UNCHANGED copy
      BY <1>5 DEF Outcome
    <2>2. CASE Refused(y)
      BY <1>3, <1>5, <2>2 DEF Outcome
    <2>3. CASE ~Refused(y)
      <3>1. dict' = AsDict(y)
        BY <1>5, <2>3 DEF Outcome
      <3>2. /\ v = Null => Seen(AsDict(y)) = View!Without(Seen(dict), k)
            /\ v # Null => /\ ~Stops[v] /\ k \in DOMAIN Seen(AsDict(y))
                           /\ Seen(AsDict(y))[k] = AnyToR[RToAny[v]]
                           /\ View!Without(Seen(AsDict(y)), k) = View!Without(Seen(dict), k)
        BY <1>1, <2>3, EditSeen
      <3> HIDE DEF y
      <3>3. Seen(dict)' = Seen(AsDict(y))
        BY <3>1
      <3>4. CASE v = Null
        <4>1. Seen(dict)' = View!Without(Seen(dict), k)
          BY <3>2, <3>3, <3>4
        <4>2. View!Drop
          BY <1>2, <2>1, <4>1 DEF View!Drop, Kept
        <4>3. QED
          BY <4>2
      <3>5. CASE v # Null
        <4>1. /\ k \in DOMAIN (Seen(dict)') /\ (Seen(dict)')[k] = AnyToR[RToAny[v]]
              /\ View!Without(Seen(dict)', k) = View!Without(Seen(dict), k)
          BY <3>2, <3>3, <3>5
        <4>2. AnyToR[RToAny[v]] \in SeenAfterEdit
          BY <3>2, <3>5 DEF SeenAfterEdit
        <4>3. View!Put
          BY <1>2, <2>1, <4>1, <4>2 DEF View!Put, Kept
        <4>4. QED
          BY <4>3
      <3>6. QED
        BY <3>4, <3>5
    <2>4. QED
      BY <2>2, <2>3
  <1>6. ASSUME Read
        PROVE  View!Keep
    <2> DEFINE x == WrapDict(dict)
    <2>1. copy' = x /\ UNCHANGED dict
      BY <1>6 DEF Read
    <2>2. x # Null /\ Entries(x[2], x[3]) = Seen(dict)
      BY <1>1, ReadSeen
    <2> HIDE DEF x
    <2>3. Kept' = Seen(dict)
      BY <2>1, <2>2 DEF Kept
    <2>4. QED
      BY <2>1, <2>3 DEF View!Keep, Kept
  <1>7. ASSUME NEW k, Outcome("restore", k, copy)
        PROVE  View!PutBack \/ UNCHANGED View!listed
    <2>1. UNCHANGED copy
      BY <1>7 DEF Outcome
    <2>2. CASE Refused(copy)
      BY <1>3, <1>7, <2>2 DEF Outcome
    <2>3. CASE ~Refused(copy)
      <3>1. dict' = AsDict(copy)
        BY <1>7, <2>3 DEF Outcome
      <3>2. Seen(AsDict(copy)) = Kept
        <4>1. CASE copy = Null
          <5>1. AsDict(copy) = <<>> /\ Kept = <<>>
            BY <4>1 DEF AsDict, Null, Kept
          <5>2. DOMAIN <<>> = {} /\ <<>> = [q \in {} |-> AnyToR[<<>>[q]]]
            OBVIOUS
          <5>3. QED
            BY <5>1, <5>2 DEF Seen
        <4>2. CASE copy # Null
          <5>1. IsRead(copy)
            BY <1>1, <4>2 DEF CopyOk
          <5>2. IsDict(AsDict(copy)) /\ WrapDict(AsDict(copy)) = copy
            BY <2>3, <5>1, ReadWritten DEF Written
          <5>3. Entries(copy[2], copy[3]) = Seen(AsDict(copy))
            BY <5>2, ReadSeen
          <5>4. QED
            BY <4>2, <5>3 DEF Kept
        <4>3. QED
          BY <4>1, <4>2
      <3>3. Seen(dict)' = Kept
        BY <3>1, <3>2
      <3>4. QED
        BY <1>2, <2>1, <3>3 DEF View!PutBack, Kept
    <2>4. QED
      BY <2>2, <2>3
  <1>8. ASSUME NEW d \in Loaded, Load(d)
        PROVE  View!Replace
    <2>1. Seen(dict)' \in SeenAfterAll
      BY <1>8 DEF Load, SeenAfterAll
    <2>2. QED
      BY <1>2, <1>8, <2>1 DEF Load, View!Replace, Kept
  <1>9. CASE UNCHANGED vars
    BY <1>3, <1>9 DEF vars
  <1>10. ASSUME Finished
         PROVE  \/ View!Replace \/ View!Put \/ View!Drop \/ View!PutBack
                \/ UNCHANGED View!listed
    <2>1. PICK op, k, x : Requested(op, k, x) /\ Outcome(op, k, x)
      BY <1>10 DEF Finished
    <2>2. CASE op = "assign"
      BY <1>4, <2>1, <2>2 DEF Requested
    <2>3. CASE op = "edit"
      BY <1>5, <2>1, <2>3 DEF Requested
    <2>4. CASE op = "restore"
      BY <1>7, <2>1, <2>4 DEF Requested
    <2>5. QED
      BY <2>1, <2>2, <2>3, <2>4 DEF Requested
  <1>11. Silent => UNCHANGED View!listed
    BY <1>3 DEF Silent
  <1>12. QED
    BY <1>6, <1>8, <1>9, <1>10, <1>11, Steps

(* ActsAsAList for all values, dictionaries and keys: what is read back    *)
(* from a list that was read is that list, so a call that rewrites the     *)
(* whole dictionary changes what is seen of it where it assigns.           *)
THEOREM MetadataIsAList == Spec => ActsAsAList
  <1>1. QED
    BY InvariantHolds, ListInitMaps, ListNextMaps, PTL DEF Spec, ActsAsAList, View!ListSpec
=============================================================================
