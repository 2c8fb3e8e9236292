----------------------------- MODULE TimeLemmas -----------------------------
(***************************************************************************)
(* What becomes of a time that goes from R to C++ or from C++ to R and     *)
(* back.                                                                   *)
(***************************************************************************)
EXTENDS TimeValues, TLAPS

(* An accepted range has finite numbers, and is one C++ can have.          *)
LEMMA AcceptedIsFinite ==
    ASSUME NEW x, IsOptTimeRange(x)
    PROVE  /\ IsOptRange(as_opt_time_range(x))
           /\ \A t \in as_opt_time_range(x) : FiniteRange(t)
  <1>1. SUFFICES ASSUME x # Null
                 PROVE  IsRange(as_time_range(x)) /\ FiniteRange(as_time_range(x))
    BY DEF as_opt_time_range, IsOptRange
  <1> DEFINE s == Field(x, "start_time")
             d == Field(x, "duration")
             t == as_time_range(x)
  <1>2. IsRationalTime(s) /\ IsRationalTime(d)
    BY <1>1 DEF IsOptTimeRange, IsTimeRange
  <1>3. ASSUME NEW y
        PROVE  /\ IsTime(as_rational_time(y))
               /\ IsRationalTime(y) => FiniteTime(as_rational_time(y))
    BY DEF IsRationalTime, FieldOk, FiniteTime, as_rational_time, IsTime
  <1>4. t = [start_time |-> as_rational_time(s), duration |-> as_rational_time(d)]
    BY DEF as_time_range
  <1> HIDE DEF s, d, t
  <1>5. t.start_time = as_rational_time(s) /\ t.duration = as_rational_time(d)
    BY <1>4
  <1>6. IsRange(t) /\ FiniteRange(t)
    BY <1>2, <1>3, <1>4, <1>5 DEF FiniteRange, IsRange
  <1>7. QED
    BY <1>6 DEF t

(* The fields of a vector or list with two names.                          *)
LEMMA TwoFields ==
    ASSUME NEW kind, NEW a, NEW b, a # b, NEW u, NEW v
    PROVE  LET x == <<kind, <<a, b>>, <<u, v>> >> IN
           /\ HasField(x, a) /\ Field(x, a) = u
           /\ HasField(x, b) /\ Field(x, b) = v
  <1> DEFINE x == <<kind, <<a, b>>, <<u, v>> >>
  <1>1. DOMAIN x[2] = {1, 2} /\ x[2][1] = a /\ x[2][2] = b
    OBVIOUS
  <1>2. {i \in DOMAIN x[2] : x[2][i] = a} = {1} /\ {i \in DOMAIN x[2] : x[2][i] = b} = {2}
    BY <1>1
  <1>3. Min({1}) = 1 /\ Min({2}) = 2
    BY DEF Min
  <1>4. x[3][1] = u /\ x[3][2] = v
    OBVIOUS
  <1>5. Field(x, a) = u /\ Field(x, b) = v
    BY <1>2, <1>3, <1>4 DEF Field
  <1>6. HasField(x, a) /\ HasField(x, b)
    BY <1>1 DEF HasField, Range
  <1>7. QED
    BY <1>5, <1>6

LEMMA TimeReturns ==
    ASSUME NEW t, IsTime(t)
    PROVE  /\ as_rational_time(wrap_rational_time(t)) = t
           /\ IsRationalTime(wrap_rational_time(t)) <=> FiniteTime(t)
  <1> DEFINE x == wrap_rational_time(t)
  <1>1. /\ HasField(x, "value") /\ Field(x, "value") = t.value
        /\ HasField(x, "rate") /\ Field(x, "rate") = t.rate
    BY TwoFields, "value" # "rate" DEF wrap_rational_time
  <1>2. x[1] = "numbers"
    BY DEF wrap_rational_time
  <1> HIDE DEF x
  <1>3. as_rational_time(x) = t
    BY <1>1 DEF as_rational_time, IsTime
  <1>4. IsRationalTime(x) <=> FiniteTime(t)
    BY <1>1, <1>2 DEF IsRationalTime, FieldOk, FiniteTime
  <1>5. QED
    BY <1>3, <1>4 DEF x

(* What is read of a range is accepted when it is finite, and is then the  *)
(* same range.                                                             *)
LEMMA RangeReturns ==
    ASSUME NEW x, IsOptRange(x)
    PROVE  LET w == wrap_opt_time_range(x) IN
           /\ as_opt_time_range(w) = x
           /\ IsOptTimeRange(w) <=> \A t \in x : FiniteRange(t)
  <1> DEFINE w == wrap_opt_time_range(x)
  <1>1. CASE x = {}
    BY <1>1 DEF wrap_opt_time_range, as_opt_time_range, IsOptTimeRange
  <1>2. CASE x # {}
    <2>1. PICK t : x = {t} /\ IsRange(t)
      BY <1>2 DEF IsOptRange
    <2> DEFINE y == wrap_time_range(t)
               st == wrap_rational_time(t.start_time)
               du == wrap_rational_time(t.duration)
    <2>2. w = y
      BY <2>1 DEF wrap_opt_time_range
    <2>3. /\ HasField(y, "start_time") /\ Field(y, "start_time") = st
          /\ HasField(y, "duration") /\ Field(y, "duration") = du
      BY TwoFields, "start_time" # "duration" DEF wrap_time_range
    <2>4. y[1] = "named" /\ y # Null
      BY DEF wrap_time_range, Null
    <2>5. /\ as_rational_time(st) = t.start_time /\ as_rational_time(du) = t.duration
          /\ IsRationalTime(st) <=> FiniteTime(t.start_time)
          /\ IsRationalTime(du) <=> FiniteTime(t.duration)
      BY <2>1, TimeReturns DEF IsRange
    <2> HIDE DEF y, st, du, w
    <2>6. as_time_range(y) = t
      BY <2>1, <2>3, <2>5 DEF as_time_range, IsRange
    <2>7. IsTimeRange(y) <=> FiniteRange(t)
      BY <2>3, <2>4, <2>5 DEF IsTimeRange, FiniteRange
    <2>8. as_opt_time_range(w) = x
      BY <2>1, <2>2, <2>4, <2>6 DEF as_opt_time_range
    <2>9. IsOptTimeRange(w) <=> \A r \in x : FiniteRange(r)
      BY <2>1, <2>2, <2>4, <2>7 DEF IsOptTimeRange
    <2>10. QED
      BY <2>8, <2>9 DEF w
  <1>3. QED
    BY <1>1, <1>2

LEMMA OneRangeReturns ==
    ASSUME NEW r, IsRange(r)
    PROVE  /\ as_time_range(wrap_time_range(r)) = r
           /\ IsTimeRange(wrap_time_range(r)) <=> FiniteRange(r)
  <1>1. IsOptRange({r}) /\ wrap_opt_time_range({r}) = wrap_time_range(r)
    BY DEF IsOptRange, wrap_opt_time_range
  <1>2. wrap_time_range(r) # Null
    BY DEF wrap_time_range, Null
  <1>3. QED
    BY <1>1, <1>2, RangeReturns DEF as_opt_time_range, IsOptTimeRange

(* The times an accepted R value is read as are finite.                    *)
LEMMA AcceptedTimes ==
    ASSUME NEW x
    PROVE  /\ IsRationalTime(x) => FiniteTime(as_rational_time(x))
           /\ IsTimeRange(x) => FiniteRange(as_time_range(x))
  <1>1. ASSUME NEW y, IsRationalTime(y)
        PROVE  FiniteTime(as_rational_time(y))
    BY <1>1 DEF IsRationalTime, FieldOk, FiniteTime, as_rational_time
  <1>2. IsTimeRange(x) => FiniteRange(as_time_range(x))
    BY <1>1 DEF IsTimeRange, FiniteRange, as_time_range
  <1>3. QED
    BY <1>1, <1>2
=============================================================================
