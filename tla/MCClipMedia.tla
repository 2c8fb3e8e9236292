---------------------------- MODULE MCClipMedia ----------------------------
(***************************************************************************)
(* The lists, ranges and JSON texts with which TLC runs ClipMedia.         *)
(***************************************************************************)
EXTENDS ClipMedia, TLC

CONSTANTS proxy, r1, r2

Time(v, r) == wrap_rational_time([value |-> v, rate |-> r])
ARange(names, s) == <<"named", names, s>>

(* names that make a map, or that a map would coerce or collapse           *)
MCNameLists == { <<>>, <<proxy>>, <<proxy, DefaultKey>>, <<proxy, proxy>>,
                 <<NaKey>>, <<EmptyKey>> }

(* no range, a range, and a list that is short of one                      *)
MCRanges == { Null,
              ARange(<<"start_time", "duration">>, <<Time(0, 1), Time(2, 1)>>),
              ARange(<<"start_time">>, <<Time(0, 1)>>) }

(* in JSON the same range, and one that is not finite                      *)
Clean  == {[start_time |-> [value |-> 0, rate |-> 1], duration |-> [value |-> 2, rate |-> 1]]}
Broken == {[start_time |-> [value |-> 0, rate |-> 1], duration |-> [value |-> NaReal, rate |-> 1]]}

(* a clip as OTIO writes it, one with a number that is not finite, one     *)
(* without its active key, one with an entry that is null, one with an     *)
(* empty key                                                               *)
MCDocuments ==
    { [media |-> proxy :> Clean, nulls |-> {}, active |-> proxy],
      [media |-> DefaultKey :> Broken, nulls |-> {}, active |-> DefaultKey],
      [media |-> proxy :> {}, nulls |-> {}, active |-> DefaultKey],
      [media |-> <<>>, nulls |-> {proxy}, active |-> proxy],
      [media |-> EmptyKey :> {}, nulls |-> {}, active |-> EmptyKey] }

Symmetry == Permutations({r1, r2})
=============================================================================
