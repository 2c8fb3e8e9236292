----------------------------- MODULE Metadata ------------------------------
(***************************************************************************)
(* The metadata dictionary of one object as R code sees it: metadata(x),   *)
(* metadata(x) <- list, metadata(x)$key <- value, which R runs as a read   *)
(* of the whole dictionary and a write of the whole dictionary, and        *)
(* from_json_string(), the other way values get in.  A write converts one  *)
(* element after the other and may stop at any.  parameters(x) of a        *)
(* GeneratorReference works the same way.  src/src/metadata.cpp,           *)
(* src/src/serializable.cpp:109-118, src/R/serializable.R:128-153.         *)
(***************************************************************************)
EXTENDS AnyValues

CONSTANTS
    Lists,      \* BOUND: the R values that are assigned as whole metadata
    Values,     \* BOUND: the R values that are assigned to one key
    Keys,       \* BOUND: the keys they are assigned to
    Loaded      \* BOUND: the dictionaries that JSON files bring

(* The missing string names no entry; a time, a list like any other when   *)
(* it is the whole metadata, is left out, and so are the types of which R  *)
(* may or may not make a list.                                             *)
ASSUME InputsAssumption ==
    /\ Lists \cup Values \subseteq RValues
    /\ \A x \in Lists : x[1] \in {"NULL", "list", "named", "handle"} \cup Atomic
    /\ Keys \subseteq STRING \ {NaCharacter}
    /\ \A d \in Loaded : IsDict(d)

VARIABLES
    dict,       \* the AnyDictionary in C++: a function on its keys
    copy,       \* a list R code read earlier and kept
    frame,      \* the call of cpp_set_metadata that is running, if any
    last        \* the last call: its kind, its key and whether it stopped

vars == <<dict, copy, frame, last>>

Call(op, k, ok) == [op |-> op, key |-> k, ok |-> ok]
NoKey == ""

(* d is the local dictionary of as_any_dictionary, filled so far by the    *)
(* first done elements of the list.                                        *)
Frame(op, k, x, n, d) == [op |-> op, key |-> k, list |-> x, done |-> n, d |-> d]
NoFrame == Frame("none", NoKey, Null, 0, <<>>)
InCall  == frame.op # "none"

(* metadata(x) <- value: a value without names stops at once.              *)
BeginSet(op, k, x) ==
    /\ IF Unnamed(x) THEN frame' = NoFrame /\ last' = Call(op, k, FALSE)
       ELSE frame' = Frame(op, k, x, 0, <<>>) /\ last' = Call("begin", k, TRUE)
    /\ UNCHANGED <<dict, copy>>

With(d, k, a) == [q \in DOMAIN d \cup {k} |-> IF q = k THEN a ELSE d[q]]

Elements == Inside(frame.list)

(* MUTANT: the object's own dictionary is emptied and filled.              *)
TakeElementInPlace ==
    /\ InCall /\ frame.done + 1 \in DOMAIN Elements
    /\ LET i == frame.done + 1 IN
       IF Stops[Elements[i]]
         THEN frame' = NoFrame /\ last' = Call(frame.op, frame.key, FALSE) /\ UNCHANGED dict
         ELSE /\ frame' = [frame EXCEPT !.done = i,
                             !.d = With(@, Text(frame.list[2][i]), RToAny[Elements[i]])]
              /\ dict' = frame'.d /\ UNCHANGED last
    /\ UNCHANGED copy

(* One turn of the loop: the next element, with whatever is nested in it,  *)
(* goes into the local dictionary, or the call stops there.                *)
TakeElement ==
    /\ InCall /\ frame.done + 1 \in DOMAIN Elements
    /\ LET i == frame.done + 1 IN
       IF Stops[Elements[i]]
         THEN frame' = NoFrame /\ last' = Call(frame.op, frame.key, FALSE)
         ELSE /\ frame' = [frame EXCEPT !.done = i,
                             !.d = With(@, Text(frame.list[2][i]), RToAny[Elements[i]])]
              /\ UNCHANGED last
    /\ UNCHANGED <<dict, copy>>

(* The local dictionary is returned and becomes the object's.              *)
EndSet ==
    /\ InCall /\ frame.done + 1 \notin DOMAIN Elements
    /\ dict' = frame.d
    /\ last' = Call(frame.op, frame.key, TRUE)
    /\ frame' = NoFrame
    /\ UNCHANGED copy

Assign(x) == BeginSet("assign", NoKey, x)

(* R's list$key <- value: NULL removes the entry, an entry of that name is *)
(* replaced, another one is added at the end; a list without names is here *)
(* the empty one.                                                          *)
WithEntry(x, k, v) ==
    LET names == IF x[1] = "named" THEN x[2] ELSE <<>>
        s     == IF x[1] = "named" THEN x[3] ELSE <<>>
        at    == {i \in DOMAIN names : names[i] = k}
        i     == CHOOSE i \in at : TRUE IN
    CASE v = Null /\ at = {}  -> x
      [] v = Null /\ at # {}  -> <<"named", RemoveAt(names, i), RemoveAt(s, i)>>
      [] v # Null /\ at = {}  -> <<"named", Append(names, k), Append(s, v)>>
      [] v # Null /\ at # {}  -> <<"named", names, ReplaceAt(s, i, v)>>

(* metadata(x)$k <- v.                                                     *)
Edit(k, v) == BeginSet("edit", k, WithEntry(WrapDict(dict), k, v))

(* copy <- metadata(x), and later metadata(x) <- copy.                     *)
Read == /\ copy' = WrapDict(dict)
        /\ last' = Call("read", NoKey, TRUE)
        /\ UNCHANGED <<dict, frame>>
Restore == BeginSet("restore", NoKey, copy)

(* x <- from_json_string(...): OTIO fills the dictionary itself.           *)
Load(d) == /\ dict' = d
           /\ last' = Call("load", NoKey, TRUE)
           /\ UNCHANGED <<copy, frame>>

Init == dict = <<>> /\ copy = Null /\ frame = NoFrame /\ last = Call("load", NoKey, TRUE)

Calls == \/ \E x \in Lists : Assign(x)
         \/ \E k \in Keys, v \in Values : Edit(k, v)
         \/ Read
         \/ Restore
         \/ \E d \in Loaded : Load(d)

Next == (~InCall /\ Calls) \/ TakeElement \/ EndSet

Spec == Init /\ [][Next]_vars

-----------------------------------------------------------------------------
(* Properties.                                                             *)

(* What a value says, whatever C++ type its numbers have and with what R   *)
(* has no type for left out.                                               *)
OneMeaning(a, s) ==
    CASE a[1] \in {"int", "int64", "uint64", "double"} -> <<"number", ToDouble(a[2])>>
      [] a[1] = "exotic" -> None
      [] a[1] \in {"dict", "vector"} -> <<a[1], s>>
      [] OTHER -> a

Meaning[a \in Anys] == OneMeaning(a, [i \in DOMAIN Inside(a) |-> Meaning[Inside(a)[i]]])

(* metadata(x)$k <- v rewrites the whole dictionary, yet the other keys    *)
(* stay, with what their values say: empty sub-dictionaries stay           *)
(* dictionaries, one-element vectors stay vectors (metadata.cpp:24-121).   *)
EditTouchesOneKey ==
    [][last'.op = "edit" /\ last'.ok =>
         \A j \in (DOMAIN dict \cup DOMAIN dict') \ {last'.key} :
            /\ j \in DOMAIN dict \cap DOMAIN dict'
            /\ Meaning[dict'[j]] = Meaning[dict[j]]]_vars

(* A RationalTime or TimeRange with a number that is not finite, somewhere *)
(* inside a std::any: no R value gives one, but a JSON text may.           *)
OneNotFinite(a, s) ==
    \/ a[1] = "RationalTime" /\ ~FiniteTime(a[2])
    \/ a[1] = "TimeRange" /\ ~FiniteRange(a[2])
    \/ a[1] = "TimeTransform" /\ ~FiniteTime(a[2].offset)
    \/ \E i \in DOMAIN s : s[i]

NotFinite[a \in Anys] == OneNotFinite(a, [i \in DOMAIN Inside(a) |-> NotFinite[Inside(a)[i]]])

(* Metadata that was read, kept while the object changed, and written back *)
(* reads again as the same list, and is refused only for a time from JSON  *)
(* that is not finite.                                                     *)
CopyRestores ==
    [][last'.op = "restore" =>
         IF last'.ok THEN copy # Null => WrapDict(dict') = copy
                     ELSE \E d \in Loaded : /\ \E k \in DOMAIN d : NotFinite[d[k]]
                                           /\ copy = WrapDict(d)]_vars

(* What R code would read of a dictionary, and of a list it read.          *)
Seen(d) == [k \in DOMAIN d |-> AnyToR[d[k]]]

SeenAfterEdit == {AnyToR[RToAny[v]] : v \in {w \in Values : w # Null /\ ~Stops[w]}}
SeenAfterAll  == {Seen(d) : d \in Loaded \cup {AsDict(x) : x \in {y \in Lists : ~Refused(y)}}}

View == INSTANCE NamedValues
          WITH Names <- Keys, Singles <- SeenAfterEdit, Wholes <- SeenAfterAll,
               seen <- Seen(dict), kept <- IF copy = Null THEN <<>> ELSE Entries(copy[2], copy[3])

(* To R code the dictionary is a list with names like any other, although  *)
(* each call converts all of it and JSON fills it with values R has no     *)
(* types for: what is read under a key is what was last assigned there, or *)
(* rather what that value reads as, and changes only with an assignment.   *)
ActsAsAList == View!ListSpec

(* While elements are converted the object keeps the metadata it had.  If  *)
(* one of them stops, whichever it is and however deep, it keeps them for  *)
(* good; otherwise it has what the whole list is converted to, where of    *)
(* equal names the last counts (metadata.cpp:95-107 fills a dictionary of  *)
(* its own, serializable.cpp:117 moves a whole one into the object).       *)
AllOrNothing ==
    [][/\ InCall' \/ ~last'.ok => UNCHANGED dict
       /\ InCall /\ ~InCall' =>
            dict' = IF Refused(frame.list) THEN dict ELSE AsDict(frame.list)]_vars

(* Whether R has a type for everything in a value.                         *)
Plain[a \in Anys] == a[1] # "exotic" /\ \A i \in DOMAIN Inside(a) : Plain[Inside(a)[i]]

(* "the OTIO scalar / time / object / list / dict types we can represent   *)
(* faithfully" (otio_metadata.h:4-9), taken at its word: assigning one key *)
(* leaves the other keys' values exactly as they were.                     *)
FaithfulTypes ==
    [][last'.op = "edit" /\ last'.ok =>
         \A j \in DOMAIN dict \ {last'.key} : Plain[dict[j]] => dict'[j] = dict[j]]_vars

Missing(x) == \/ x = <<"logical", <<NaLogical>> >> \/ x = <<"integer", <<NaInteger>> >>
              \/ x = <<"double", <<NaReal>> >>     \/ x = <<"character", <<NaCharacter>> >>

(* "Supported value types are logical, integer, double, and character      *)
(* scalars" (R/serializable.R:133-134): a missing value of these types     *)
(* that R code assigned is still missing when it is read.                  *)
MissingStaysMissing ==
    [][last'.op = "edit" /\ last'.ok =>
         \A i \in DOMAIN Elements :
            frame.list[2][i] = frame.key /\ Missing(Elements[i]) =>
                Missing(AnyToR[dict'[frame.key]])]_vars
=============================================================================
