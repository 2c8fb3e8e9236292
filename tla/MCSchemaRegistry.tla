------------------------- MODULE MCSchemaRegistry --------------------------
(***************************************************************************)
(* Two schemas: Clip, at version 3 with hooks of the library's own for its *)
(* last step, and Marker, at version 2 with none.  Two R functions.        *)
(***************************************************************************)
EXTENDS NestedCalls, TLC

MCCurrent  == ("Clip" :> 3) @@ ("Marker" :> 2)
MCSlots    == {<<"Clip", 2>>, <<"Clip", 3>>, <<"Marker", 2>>, <<Unknown, 2>>}

Ask(s, v) == [name |-> s, version |-> v]
MCRequests ==
    {<<>>, type_version_map, <<Ask(NoName, 1)>>, <<Ask(Unknown, 1)>>}
    \cup {<<Ask("Clip", v)>> : v \in {1, IntMax + 1, NotWhole, NaNumber}}
    \cup {<<Ask("Clip", 2), Ask(s, 1)>> : s \in {"Clip", "Marker"}}

MCTrees == {<<"Clip", "Marker">>, <<"Marker">>}

Text(s, v) == [schema |-> s, version |-> v]
MCDocuments ==
    {<<Text("Clip", 1), Text("Marker", 1)>>, <<Text("Marker", 3)>>,
     <<Text(Unknown, 1), Text("Clip", 2)>>}
=============================================================================
