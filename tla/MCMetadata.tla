---------------------------- MODULE MCMetadata -----------------------------
(***************************************************************************)
(* The values with which TLC runs Metadata: each kind of value once, with  *)
(* the empty and the one-element containers, a nested dictionary, missing  *)
(* values, numbers at the end of the mantissa, and values that stop.       *)
(***************************************************************************)
EXTENDS Metadata

AList(names, s) == <<"named", names, s>>
Numbers(names, s) == <<"numbers", names, s>>

ATime(v, r) == <<"RationalTime", wrap_rational_time([value |-> v, rate |-> r])>>

(* a range, one of whose times has a field twice, and a transform whose    *)
(* scale is missing                                                        *)
ARange == <<"TimeRange", AList(<<"duration", "start_time">>,
              <<ATime(1, 1)[2], Numbers(<<"rate", "value", "rate">>, <<1, 2, NaReal>>)>>)>>
ATransform == <<"TimeTransform", AList(<<"offset", "scale", "rate">>,
                  <<ATime(0, 1)[2], <<"double", <<NaReal>> >>, <<"integer", <<1>> >> >>)>>

MCLists ==
    { Null, <<"list", <<>> >>, <<"list", <<Null>> >>, <<"handle", "clip">>,
      <<"integer", <<1, 2>> >>, <<"double", <<>> >>,
      AList(<<"a", "b">>, <<<<"foreign", 0>>, <<"list", <<<<"integer", <<>> >> >> >> >>),
      AList(<<"a", "a">>, <<<<"integer", <<3>> >>, <<"logical", <<NaLogical>> >> >>),
      AList(<<"a", "b">>, <<AList(<<"c">>, <<ATransform>>), ARange>>),
      AList(<<"b", "a">>, <<AList(<<>>, <<>>), AList(<<"c", "d">>, <<Null, <<"foreign", 1>> >>)>>),
      AList(<<NaCharacter>>, <<<<"character", <<"x", NaCharacter>> >> >>) }

MCValues ==
    { Null, <<"character", <<NaCharacter>> >>,
      <<"handle", "null">>,
      <<"list", <<<<"list", <<Null>> >>, <<"integer", <<NaInteger>> >> >> >>,
      <<"RationalTime", Numbers(<<"value">>, <<1>>)>>,
      AList(<<"c">>, <<<<"double", <<1, NaReal>> >> >>) }

MCKeys == {"a", "b"}

MCLoaded ==
    { [a |-> <<"int64", 3>>, b |-> <<"dict", [d |-> <<"string", "s">>, e |-> <<"dict", <<>> >>]>>],
      [a |-> <<"int64", Mantissa + 1>>, b |-> <<"exotic", "v2d">>],
      [b |-> <<"vector", <<<<"int64", Mantissa + 3>>, None>> >>],
      [a |-> <<"vector", <<<<"string", "s">> >> >>, b |-> <<"retainer", "clip">>],
      [b |-> <<"RationalTime", [value |-> NaReal, rate |-> 1]>>] }
-----------------------------------------------------------------------------
(* These values and what they convert to, from both sides; they are nested *)
(* four deep.                                                              *)

WithInner(S) == S \cup UNION {Range(Inside(v)) : v \in S}
Within(S)    == WithInner(WithInner(WithInner(WithInner(S))))

Given   == Within(MCLists \cup MCValues)
Brought == Within({<<"dict", d>> : d \in MCLoaded})

AnysOf(xs) ==
    LET stops[x \in xs] == OneStops(x, [i \in DOMAIN Inside(x) |-> stops[Inside(x)[i]]])
        toAny[x \in xs] == OneToAny(x, [i \in DOMAIN Inside(x) |-> toAny[Inside(x)[i]]])
    IN  Within({toAny[x] : x \in {y \in xs : ~stops[y]}})

ValuesOf(as) ==
    LET toR[a \in as] == OneToR(a, [i \in DOMAIN Inside(a) |-> toR[Inside(a)[i]]])
    IN  Within({toR[a] : a \in as})

ThereAndBack(xs) == xs \cup ValuesOf(AnysOf(xs))

RClosure   == ThereAndBack(ThereAndBack(Given \cup ValuesOf(Brought)))
AnyClosure == Brought \cup AnysOf(RClosure)

(* TLC evaluates what a constant stands for each time it meets it, and the *)
(* closures once.                                                          *)
MCRValues == RClosure
MCAnys    == AnyClosure

MCDepth(v) ==
    LET depth[u \in Within({v})] ==
            IF Inside(u) = <<>> THEN 0
            ELSE 1 + Max({depth[Inside(u)[i]] : i \in DOMAIN Inside(u)})
    IN  depth[v]
=============================================================================
