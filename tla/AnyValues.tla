----------------------------- MODULE AnyValues -----------------------------
(***************************************************************************)
(* The conversion between R values and OTIO's std::any, in which metadata, *)
(* generator parameters and the dictionaries of schema callbacks cross the *)
(* language boundary: src/src/metadata.cpp.                                *)
(*                                                                         *)
(* An R value is <<"NULL">>, <<type, elements>> for an atomic vector,      *)
(* <<"list", elements>>, <<"named", names, elements>>, <<class, x>> for a  *)
(* value x of TimeValues with the class of a time (R code may give that to *)
(* anything), <<"handle", o>> ("null" for a restored one), or              *)
(* <<"foreign", n>> for any other type, of length n.  A std::any is        *)
(* <<"none">>, <<type, value>> for a scalar, <<class, record>> for a time, *)
(* <<"dict", function>>, <<"vector", sequence>>, or <<"exotic", v>>, for   *)
(* which R has no type.                                                    *)
(***************************************************************************)
EXTENDS TimeValues

CONSTANTS IntMax,    \* the largest R integer; NA_integer_ is -(IntMax + 1)
          Mantissa,  \* not every integer beyond it is a double
          RValues,   \* BOUND: the R values there are
          Anys,      \* BOUND: the std::any values there are
          Depth(_)   \* how deep a value of either kind is nested

ASSUME WidthAssumption ==
    IntMax \in Nat /\ Mantissa \in Nat /\ IntMax < Mantissa

NaInteger   == -(IntMax + 1)
NaCharacter == "NA_character_"
NaLogical   == "NA"
None        == <<"none">>

Atomic == {"logical", "integer", "double", "character"}
TimeClasses == {"RationalTime", "TimeRange", "TimeTransform"}

(* What is directly inside a list, a dictionary or a vector.               *)
Inside(v) == CASE v[1] = "named" -> v[3]
               [] v[1] \in {"list", "dict", "vector"} -> v[2]
               [] OTHER -> <<>>

(* Neither R nor C++ has a list inside itself: the conversions end.        *)
Nested(S) == \A v \in S : /\ Depth(v) \in Nat
                         /\ \A i \in DOMAIN Inside(v) :
                               Inside(v)[i] \in S /\ Depth(Inside(v)[i]) < Depth(v)

ASSUME NestingAssumption == Nested(RValues) /\ Nested(Anys)

-----------------------------------------------------------------------------
(* TimeTransform: an offset, and a scale and a rate that are numbers, or   *)
(* what R makes numbers of.                                                *)

IsNumber(x) == x[1] \in {"double", "integer", "logical"} /\ Len(x[2]) = 1

ToNumber(x) ==
    LET e == x[2][1] IN
    CASE x[1] = "double"  -> e
      [] x[1] = "integer" -> IF e = NaInteger THEN NaReal ELSE e
      [] x[1] = "logical" -> IF e = NaLogical THEN NaReal ELSE IF e = "TRUE" THEN 1 ELSE 0

IsTimeTransform(x) ==
    /\ x[1] = "named"
    /\ HasField(x, "offset") /\ IsRationalTime(Field(x, "offset"))
    /\ \A f \in {"scale", "rate"} : HasField(x, f) /\ IsNumber(Field(x, f))

as_time_transform(x) == [offset |-> as_rational_time(Field(x, "offset")),
                         scale  |-> ToNumber(Field(x, "scale")),
                         rate   |-> ToNumber(Field(x, "rate"))]

wrap_time_transform(t) ==
    <<"named", <<"offset", "scale", "rate">>,
      <<wrap_rational_time(t.offset), <<"double", <<t.scale>> >>, <<"double", <<t.rate>> >> >> >>

IsTransform(t) == /\ t = [offset |-> t.offset, scale |-> t.scale, rate |-> t.rate]
                  /\ IsTime(t.offset)

-----------------------------------------------------------------------------
(* R to std::any.                                                          *)

(* The text of a string; that of the missing string is "NA".               *)
Text(s) == IF s = NaCharacter THEN "NA" ELSE s

AtomToAny(type, e) ==
    CASE type = "logical"   -> <<"bool", e = "TRUE">>
      [] type = "integer"   -> <<"int64", e>>
      [] type = "double"    -> <<"double", e>>
      [] type = "character" -> <<"string", Text(e)>>

(* An atomic vector of length one is a scalar.                             *)
VectorToAny(type, s) == IF Len(s) = 1 THEN AtomToAny(type, s[1])
                        ELSE <<"vector", [i \in DOMAIN s |-> AtomToAny(type, s[i])]>>

(* Mutant of ListToAny: so is an unnamed list.                             *)
ListToAnyUnboxed(s) == IF Len(s) = 1 THEN s[1] ELSE <<"vector", s>>

ListToAny(s) == <<"vector", s>>

(* Of elements with equal names the last one stays.                        *)
Entries(names, s) ==
    LET keys == {Text(n) : n \in Range(names)}
        lastOf(k) == CHOOSE i \in DOMAIN names :
                      Text(names[i]) = k /\ \A j \in i + 1..Len(names) : Text(names[j]) # k
    IN  [k \in keys |-> s[lastOf(k)]]

(* The class of a value decides how it is read, and then whether it can be.*)
IsOfClass(class, x) == CASE class = "RationalTime"  -> IsRationalTime(x)
                         [] class = "TimeRange"     -> IsTimeRange(x)
                         [] class = "TimeTransform" -> IsTimeTransform(x)

AsTime(class, x) == CASE class = "RationalTime"  -> as_rational_time(x)
                      [] class = "TimeRange"     -> as_time_range(x)
                      [] class = "TimeTransform" -> as_time_transform(x)

(* r_to_any, where s are its results for what is inside x.                 *)
OneToAny(x, s) ==
    CASE x[1] = "NULL"    -> None
      [] x[1] \in TimeClasses -> <<x[1], AsTime(x[1], x[2])>>
      [] x[1] = "handle"  -> <<"retainer", x[2]>>
      [] x[1] = "named"   -> <<"dict", Entries(x[2], s)>>
      [] x[1] = "list"    -> ListToAny(s)
      [] x[1] = "foreign" -> <<"vector", <<>> >>
      [] x[1] \in Atomic -> VectorToAny(x[1], x[2])

RToAny[x \in RValues] == OneToAny(x, [i \in DOMAIN Inside(x) |-> RToAny[Inside(x)[i]]])

(* Rcpp::stop somewhere inside x: at a malformed time, a null handle, an   *)
(* element of an unsupported type (an empty vector of one has none).       *)
OneStops(x, s) == \/ x[1] \in TimeClasses /\ ~IsOfClass(x[1], x[2])
                  \/ x[1] = "handle" /\ x[2] = "null"
                  \/ x[1] = "foreign" /\ x[2] > 0
                  \/ \E i \in DOMAIN s : s[i]

Stops[x \in RValues] == OneStops(x, [i \in DOMAIN Inside(x) |-> Stops[Inside(x)[i]]])

(* A whole dictionary is refused when it has no names, as a vector made a  *)
(* list or a list has none, and as a handle cannot be made a list at all;  *)
(* NULL and what is empty are the empty dictionary.                        *)
Unnamed(x) == \/ x[1] \in Atomic \cup {"list"} /\ x[2] # <<>>
              \/ x[1] = "handle"

Refused(x) == Unnamed(x) \/ \E i \in DOMAIN Inside(x) : Stops[Inside(x)[i]]
AsDict(x)  == IF x[1] = "named"
              THEN Entries(x[2], [i \in DOMAIN x[3] |-> RToAny[x[3][i]]]) ELSE <<>>

-----------------------------------------------------------------------------
(* std::any to R.                                                          *)

(* An integer beyond the mantissa becomes its nearest even neighbour.      *)
ToDouble(n) == LET k == n \div 2 IN
               IF n \in -Mantissa..Mantissa \/ n % 2 = 0 THEN n ELSE 2 * (k + (k % 2))

(* Mutant of NamedList: an empty list comes out without names.             *)
NamedListIfAny(keys, s) == IF keys = <<>> THEN <<"list", <<>> >> ELSE <<"named", keys, s>>

NamedList(keys, s) == <<"named", keys, s>>

WrapTime(class, t) == CASE class = "RationalTime"  -> wrap_rational_time(t)
                        [] class = "TimeRange"     -> wrap_time_range(t)
                        [] class = "TimeTransform" -> wrap_time_transform(t)

(* The entries of a dictionary come in key order, for which SetToSeq       *)
(* stands.                                                                 *)
KeyOrder(d) == LET keys == SetToSeq(DOMAIN d) IN
               NamedList(keys, [i \in DOMAIN keys |-> d[keys[i]]])

(* any_to_r, where s are its results for what is inside a; a value R has   *)
(* no type for is dropped: NULL, with a warning.                           *)
OneToR(a, s) ==
    CASE a[1] = "none"     -> Null
      [] a[1] = "bool"     -> <<"logical", <<IF a[2] THEN "TRUE" ELSE "FALSE">> >>
      [] a[1] = "int"      -> <<"integer", <<a[2]>> >>
      [] a[1] \in {"int64", "uint64"} -> <<"double", <<ToDouble(a[2])>> >>
      [] a[1] = "double"   -> <<"double", <<a[2]>> >>
      [] a[1] \in {"string", "char const*"} -> <<"character", <<a[2]>> >>
      [] a[1] \in TimeClasses -> <<a[1], WrapTime(a[1], a[2])>>
      [] a[1] = "dict"     -> KeyOrder(s)
      [] a[1] = "vector"   -> <<"list", s>>
      [] a[1] = "retainer" -> <<"handle", a[2]>>
      [] a[1] = "exotic"   -> Null

AnyToR[a \in Anys] == OneToR(a, [i \in DOMAIN Inside(a) |-> AnyToR[Inside(a)[i]]])

WrapDict(d) == KeyOrder([k \in DOMAIN d |-> AnyToR[d[k]]])

-----------------------------------------------------------------------------
(* The values there are: no C++ string is the missing one, no retainer is  *)
(* empty, an integer is an int64_t and a string a std::string (neither     *)
(* OTIO's JSON reader nor r_to_any gives an int or a char const* ); what a *)
(* value converts to is there too.                                         *)

IsDict(d) == /\ d = [k \in DOMAIN d |-> d[k]] /\ IsFiniteSet(DOMAIN d)
             /\ NaCharacter \notin DOMAIN d /\ Range(d) \subseteq Anys

IsAny(a) == \/ a = None
            \/ a \in {"bool"} \X BOOLEAN
            \/ a \in {"int64", "uint64", "double"} \X Int
            \/ a \in {"string"} \X (STRING \ {NaCharacter})
            \/ a = <<"RationalTime", a[2]>> /\ IsTime(a[2])
            \/ a = <<"TimeRange", a[2]>> /\ IsRange(a[2])
            \/ a = <<"TimeTransform", a[2]>> /\ IsTransform(a[2])
            \/ a = <<"dict", a[2]>> /\ IsDict(a[2])
            \/ a = <<"vector", a[2]>> /\ a[2] \in Seq(Anys)
            \/ a = <<"retainer", a[2]>> /\ a[2] # "null"
            \/ a = <<"exotic", a[2]>>

(* A list with names has as many as elements.                              *)
IsRValue(x) ==
    /\ x[1] \in {"NULL", "named", "list", "handle", "foreign"} \cup TimeClasses \cup Atomic
    /\ x[1] = "named" => x[2] \in Seq(STRING) /\ DOMAIN x[3] = DOMAIN x[2]

ASSUME ValuesAssumption ==
    /\ \A x \in RValues : IsRValue(x) /\ (~Stops[x] => RToAny[x] \in Anys)
    /\ \A a \in Anys : IsAny(a) /\ AnyToR[a] \in RValues
=============================================================================
