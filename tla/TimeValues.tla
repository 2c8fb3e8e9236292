----------------------------- MODULE TimeValues -----------------------------
(***************************************************************************)
(* RationalTime and TimeRange where they cross between R and C++:          *)
(* src/src/otio_time.h.  In R they are vectors and lists, which R code may *)
(* build and take apart as it likes, so what a call is given need not be   *)
(* one.  TimeTransform is in AnyValues.                                    *)
(*                                                                         *)
(* An R value is <<"NULL">>, <<"double", elements>> for a numeric vector,  *)
(* <<"numbers", names, elements>> for one with names, and                  *)
(* <<"named", names, elements>> for a list with names; in AnyValues there  *)
(* are more.  In C++ a time is a record, and a std::optional is a set of   *)
(* at most one element.                                                    *)
(***************************************************************************)
EXTENDS Integers, SequencesExt

CONSTANT NaReal  \* stands for NA_real_, for any other NaN and for infinities

ASSUME NaAssumption == NaReal \in Int

Null == <<"NULL">>

HasField(x, field) == field \in Range(x[2])

(* The first of the elements that have that name.                          *)
Field(x, field) == x[3][Min({i \in DOMAIN x[2] : x[2][i] = field})]

(* MUTANT of FieldOk: a number is taken as it is.                          *)
FieldPresent(x, field) == HasField(x, field)

(* rt_field does not stop.                                                 *)
FieldOk(x, field) == HasField(x, field) /\ Field(x, field) # NaReal

-----------------------------------------------------------------------------
(* R to C++; the calls stop where Is... is false.                          *)

IsRationalTime(x) ==
    x[1] = "numbers" /\ FieldOk(x, "value") /\ FieldOk(x, "rate")

as_rational_time(x) == [value |-> Field(x, "value"), rate |-> Field(x, "rate")]

IsTimeRange(x) ==
    /\ x[1] = "named"
    /\ HasField(x, "start_time") /\ IsRationalTime(Field(x, "start_time"))
    /\ HasField(x, "duration")   /\ IsRationalTime(Field(x, "duration"))

as_time_range(x) == [start_time |-> as_rational_time(Field(x, "start_time")),
                     duration   |-> as_rational_time(Field(x, "duration"))]

IsOptTimeRange(x)    == x = Null \/ IsTimeRange(x)
as_opt_time_range(x) == IF x = Null THEN {} ELSE {as_time_range(x)}

-----------------------------------------------------------------------------
(* C++ to R.                                                               *)

wrap_rational_time(t) == <<"numbers", <<"value", "rate">>, <<t.value, t.rate>> >>

(* MUTANT: the fields change places.                                       *)
WrapSwapped(r) ==
    <<"named", <<"start_time", "duration">>,
      <<wrap_rational_time(r.duration), wrap_rational_time(r.start_time)>> >>

wrap_time_range(r) ==
    <<"named", <<"start_time", "duration">>,
      <<wrap_rational_time(r.start_time), wrap_rational_time(r.duration)>> >>

wrap_opt_time_range(r) == IF r = {} THEN Null ELSE wrap_time_range(CHOOSE t \in r : TRUE)

-----------------------------------------------------------------------------
(* The C++ values: a RationalTime, a TimeRange, a std::optional<TimeRange>.*)
IsTime(t)     == t = [value |-> t.value, rate |-> t.rate]
IsRange(r)    == /\ r = [start_time |-> r.start_time, duration |-> r.duration]
                 /\ IsTime(r.start_time) /\ IsTime(r.duration)
IsOptRange(x) == \A r \in x : x = {r} /\ IsRange(r)

(* Whether a C++ time has only finite numbers.  A time that R code made is *)
(* finite when it is accepted; OTIO's JSON reader accepts NaN and infinity.*)
FiniteTime(t)  == t.value # NaReal /\ t.rate # NaReal
FiniteRange(r) == FiniteTime(r.start_time) /\ FiniteTime(r.duration)
=============================================================================
