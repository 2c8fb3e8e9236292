---------------------------- MODULE ClassChains ----------------------------
(***************************************************************************)
(* Which C++ function an R call on an object ends in.  A handle carries    *)
(* the S3 classes that otio_class_chain gives its object                   *)
(* (src/src/otio_xptr.cpp); R wrappers choose between C++ functions with   *)
(* inherits() (src/R/composition.R, item.R, algorithms.R); the C++         *)
(* function casts the object to the type that it works on and stops when   *)
(* it has another (otio_get, src/src/otio_xptr.h).  Three views of one     *)
(* class hierarchy, kept by hand.                                          *)
(***************************************************************************)
EXTENDS Naturals, SequencesExt

CONSTANTS NoArg,    \* the child that a call with one argument is given
          NoCall    \* no call was made yet with the object at hand

VARIABLES x,        \* the class of the object (or value) that R code holds
          call      \* the last call on it, and whether it reached OTIO
vars == <<x, call>>

Root == "SerializableObject"

(* The C++ hierarchy of the library.                                       *)
Bases ==
    [ Timeline |-> "SerializableObjectWithMetadata",
      Stack |-> "Composition", Track |-> "Composition", Composition |-> "Item",
      Clip |-> "Item", Gap |-> "Item", Item |-> "Composable",
      Transition |-> "Composable", Composable |-> "SerializableObjectWithMetadata",
      Marker |-> "SerializableObjectWithMetadata",
      FreezeFrame |-> "LinearTimeWarp", LinearTimeWarp |-> "TimeEffect",
      TimeEffect |-> "Effect", Effect |-> "SerializableObjectWithMetadata",
      ExternalReference |-> "MediaReference",
      ImageSequenceReference |-> "MediaReference",
      GeneratorReference |-> "MediaReference",
      MissingReference |-> "MediaReference",
      MediaReference |-> "SerializableObjectWithMetadata",
      SerializableCollection |-> "SerializableObjectWithMetadata",
      SerializableObjectWithMetadata |-> Root,
      UnknownSchema |-> Root ]

Classes == DOMAIN Bases \cup {Root}

(* What a wrapper may be called on: an object, a TimeRange, or an R list   *)
(* of Tracks.  The last two are no external pointers.                      *)
Things == Classes \cup {"TimeRange", "list"}

Ancestry[c \in Things] ==
    IF c \in DOMAIN Bases THEN <<c>> \o Ancestry[Bases[c]] ELSE <<c>>

(* dynamic_cast<T*> of an object of class c *)
otio_get(T, c) == T \in Range(Ancestry[c])
-----------------------------------------------------------------------------
(* The chain of tests, and the classes that each one gives. *)
Meta        == <<"SerializableObjectWithMetadata", Root>>
Composables == <<"Composable">> \o Meta
Items       == <<"Item">> \o Composables
Warp        == <<"LinearTimeWarp", "TimeEffect", "Effect">> \o Meta
Media       == <<"MediaReference">> \o Meta

ChainTests ==
    << <<"Timeline">> \o Meta,
       <<"Stack", "Composition">> \o Items, <<"Track", "Composition">> \o Items,
       <<"Clip">> \o Items, <<"Gap">> \o Items, <<"Transition">> \o Composables,
       <<"Marker">> \o Meta,
       <<"FreezeFrame">> \o Warp, Warp, Tail(Warp), Tail(Tail(Warp)),
       <<"ExternalReference">> \o Media, <<"ImageSequenceReference">> \o Media,
       <<"GeneratorReference">> \o Media, <<"MissingReference">> \o Media, Media,
       <<"SerializableCollection">> \o Meta,
       <<"Composition">> \o Items, Items, Composables, Meta, <<Root>> >>

(* MUTANT: the last matching test wins, as when bases come before leaves. *)
LastTest(c) == CHOOSE i \in DOMAIN ChainTests :
                  /\ otio_get(ChainTests[i][1], c)
                  /\ \A j \in i + 1..Len(ChainTests) : ~otio_get(ChainTests[j][1], c)

FirstTest(c) == CHOOSE i \in DOMAIN ChainTests :
                   /\ otio_get(ChainTests[i][1], c)
                   /\ \A j \in 1..i - 1 : ~otio_get(ChainTests[j][1], c)

otio_class_chain(c) == ChainTests[FirstTest(c)] \o <<"otio">>

(* class(x).  R gives a TimeRange its one class, and a list none. *)
ClassAttribute(c) == IF c \in Classes THEN otio_class_chain(c) ELSE <<c>>
inherits(c, what) == what \in Range(ClassAttribute(c))
-----------------------------------------------------------------------------
(* The functions that choose in R between C++ functions: the classes they *)
(* test for, in order, each of which has a C++ function of its own that    *)
(* casts to that class, and what the function of the last branch casts to. *)
(* The functions of a composition that look for a child in it, and         *)
(* append_child, test for nothing and have that last branch only.          *)
Queries     == {"index_of_child", "is_parent_of", "has_child"}
ChildTakers == {"append_child", "insert_child", "set_child", "set_children"} \cup Queries
ChildOps    == {"children", "remove_child", "clear_children"} \cup ChildTakers
Untested    == {"append_child"} \cup Queries
Enabling    == {"enabled", "enabled<-"}
InParent    == {"range_in_parent", "trimmed_range_in_parent"}
Wrappers    == ChildOps \cup Enabling \cup InParent
                 \cup {"find_clips", "duration", "available_range", "flatten_stack"}

Tested(f) ==
    CASE f \in Untested        -> <<>>
      [] f \in ChildOps \ Untested -> <<"SerializableCollection">>
      [] f = "find_clips"      -> <<"Timeline", "SerializableCollection">>
      [] f \in Enabling        -> <<"Effect">>
      [] f = "duration"        -> <<"TimeRange", "Timeline">>
      [] f = "available_range" -> <<"MediaReference">>
      [] f \in InParent        -> <<"Transition">>
      [] f = "flatten_stack"   -> <<"Stack">>

Otherwise(f) ==
    CASE f \in ChildOps \cup {"find_clips"} -> "Composition"
      [] f \in Enabling \cup InParent \cup {"available_range"} -> "Item"
      [] f = "duration"      -> "Composable"
      [] f = "flatten_stack" -> "list"

(* MUTANT: only the class of the object itself is looked at. *)
BranchByOwnClass(f, c) == IF c \in Range(Tested(f)) THEN c ELSE Otherwise(f)

Branch(f, c) ==
    LET t    == Tested(f)
        hits == {i \in DOMAIN t : inherits(c, t[i])} IN
    IF hits = {} THEN Otherwise(f) ELSE t[Min(hits)]

(* What the C++ function of a branch casts a child to. *)
ChildType(b) == IF b = "Composition" THEN "Composable" ELSE Root

Call(f, child) ==
    /\ child = NoArg <=> f \notin ChildTakers
    /\ LET b == Branch(f, x) IN
       call' = [fn |-> f, child |-> child,
                accepted |-> /\ otio_get(b, x)
                             /\ child # NoArg => otio_get(ChildType(b), child)]
    /\ UNCHANGED x

(* R code takes up another object. *)
Fetch == call' = NoCall /\ x' \in Things

Init == call = NoCall /\ x \in Things
Next == Fetch \/ \E f \in Wrappers, child \in Things \cup {NoArg} : Call(f, child)
Spec == Init /\ [][Next]_vars
-----------------------------------------------------------------------------
(* The classes an object is known by in R are its C++ class and all of     *)
(* that class's bases, nearest first, and "otio" last, whatever order the  *)
(* casts are tried in; an object of a schema that the library does not     *)
(* know shows only the root.                                               *)
ChainIsAncestry ==
    LET known == IF x = "UnknownSchema" THEN Root ELSE x IN
    x \in Classes => ClassAttribute(x) = Ancestry[known] \o <<"otio">>

(* What the @param lines of the functions' documentation say x is.         *)
DocumentedX(f) ==
    CASE f \in {"append_child"} \cup Queries -> {"Composition"}
      [] f \in ChildOps \ Untested -> {"Composition", "SerializableCollection"}
      [] f = "find_clips" -> {"Composition", "Timeline", "SerializableCollection"}
      [] f \in Enabling -> {"Item", "Effect"}
      [] f = "duration" -> {"TimeRange", "Timeline", "Composable"}
      [] f = "available_range" -> {"Item", "MediaReference"}
      [] f \in InParent -> {"Item", "Transition"}
      [] f = "flatten_stack" -> {"Stack", "list"}

IsA(c, types) == Range(Ancestry[c]) \cap types # {}

(* A call reaches OTIO exactly when x and child are of the classes that    *)
(* the documentation names or of classes derived from them: the S3 class   *)
(* that the wrapper looks at and the C++ cast behind it never disagree,    *)
(* so no documented call ends in a cast to a type of the other branch.     *)
DocumentedCalls ==
    call # NoCall =>
        (call.accepted <=>
            /\ IsA(x, DocumentedX(call.fn))
            /\ \/ call.child = NoArg
               \/ IsA(x, {"Composition"}) /\ IsA(call.child, {"Composable"})
               \/ IsA(x, {"SerializableCollection"}) /\ IsA(call.child, {Root}))
=============================================================================
