------------------------------ MODULE ClipMedia ------------------------------
(***************************************************************************)
(* The media references of one clip: a map from keys to references, of     *)
(* which one key is active, and the available range of each reference.     *)
(* src/src/media.cpp:11-100, src/src/constructors.cpp:30-35, 77-121,        *)
(* src/R/objects.R:4-82.                                                   *)
(*                                                                         *)
(* R code sees the map as a named list of handles, and an R list may have  *)
(* no names, missing, empty or equal ones, and elements of any kind; which *)
(* objects the handles keep alive is the matter of OtioObjects.            *)
(***************************************************************************)
EXTENDS TimeValues, FiniteSets

CONSTANTS
    DefaultKey,  \* Clip::default_media_key
    Keys,        \* the other keys
    NaKey,       \* NA_character_ as a name
    EmptyKey,    \* ""
    NaText,      \* "NA", as which a std::string takes a missing one
    NoString,    \* a key that is not a single string
    Refs,        \* media references that R code made and has handles on
    Made,        \* media references that the library makes
    NoRef,       \* NULL as an argument, and a null pointer
    NotRef,      \* an R value that is no handle on a media reference
    NameLists,   \* BOUND: the names of the lists that R code passes
    Ranges,      \* BOUND: the R values that are assigned as ranges
    Documents    \* BOUND: the clips that JSON files bring

AllKeys == Keys \cup {DefaultKey}
AllRefs == Refs \cup Made

ASSUME ClipAssumption ==
    /\ {NaKey, EmptyKey, NoString} \cap AllKeys = {}
    /\ NaKey # EmptyKey /\ NoString # EmptyKey
    /\ NaText \notin {NaKey, EmptyKey, NoString}
    /\ Refs \cap Made = {}
    /\ {NoRef, NotRef} \cap AllRefs = {}
    /\ NoRef # NotRef
    /\ NameLists \subseteq Seq(AllKeys \cup {NaKey, EmptyKey})

(* What JSON can say of a clip: entries with a range or none, entries that  *)
(* are null, an active key, and any of the keys may be "".                 *)
ASSUME DocumentAssumption ==
    \A d \in Documents :
        /\ IsFiniteSet(DOMAIN d.media \cup d.nulls)
        /\ DOMAIN d.media \cup d.nulls \cup {d.active} \subseteq AllKeys \cup {EmptyKey}
        /\ \A k \in DOMAIN d.media : IsOptRange(d.media[k])

VARIABLES
    refs,    \* Clip::_media_references: a function on its keys
    active,  \* Clip::_active_media_reference_key
    ranges,  \* MediaReference::_available_range of each reference
    kept,    \* a list that R code read earlier, and the key active then
    frame,   \* the running set_media_references: what it was given, how many
             \* entries it has taken, and its local map m
    last     \* the last call: its kind, whether it returned, and the list
             \* and the key that set_media_references took

vars == <<refs, active, ranges, kept, frame, last>>

Assignment(list, key) == [list |-> list, key |-> key]
Nothing == Assignment([names |-> <<>>, elements |-> <<>>], DefaultKey)

NoFrame == [op |-> "none", list |-> Nothing.list, key |-> DefaultKey, done |-> 0, map |-> <<>>]
InCall  == frame.op # NoFrame.op

Result(op, ok, taken) == [op |-> op, ok |-> ok, taken |-> taken]
Call(op, ok) == last' = Result(op, ok, Nothing)

(* Rcpp::stop, or an ErrorStatus that otio_check makes one: the C++ frame  *)
(* and its locals are gone.                                                *)
Refuse(op) == /\ frame' = NoFrame
              /\ Call(op, FALSE)
              /\ UNCHANGED <<refs, active, ranges, kept>>

(* The objects that R code has a handle on, or gets one on from the clip.  *)
Used == Range(refs) \cup Range(kept.list.elements)
Held == Refs \cup (Made \cap Used)

-----------------------------------------------------------------------------
(* The lists that R code passes, with and without names, for which <<>>    *)
(* stands.  An element is a reference or not: otio_get<MediaReference>     *)
(* refuses NULL and null handles like everything else.                     *)
Elements == Held \cup {NotRef}

Lists == (UNION {[names : {n}, elements : [DOMAIN n -> Elements]] : n \in NameLists})
         \cup [names : {<<>>}, elements : [{1} -> Elements]]

(* The active key of set_media_references is tested as an R value; that of *)
(* active_media_reference_key<- is a std::string when C++ sees it.         *)
KeyOk(key)   == key \notin {NaKey, NoString}
KeyText(key) == IF key = NaKey THEN NaText ELSE key

(* MUTANT: the library takes any active key.                               *)
AnyKey(key, keys) == TRUE

(* The library's check_for_valid_media_reference_key: no key is empty, and *)
(* the active one is among them.                                           *)
ValidKey(key, keys) == EmptyKey \notin keys /\ key \in keys

(* set_media_references(x, list, key): the active key is looked at first,  *)
(* then whether a list with elements has names.                            *)
BeginSet(op, list, key) ==
    IF KeyOk(key) /\ (list.elements # <<>> => list.names # <<>>)
      THEN /\ frame' = [op |-> op, list |-> list, key |-> key, done |-> 0, map |-> <<>>]
           /\ Call("begin", TRUE)
           /\ UNCHANGED <<refs, active, ranges, kept>>
      ELSE Refuse(op)

With(f, k, r) == [q \in DOMAIN f \cup {k} |-> IF q = k THEN r ELSE f[q]]

(* MUTANT: the std::map settles what equal names leave open.               *)
EntryCollapses(k, r, m) == k \notin {NaKey, EmptyKey} /\ r \in Held

EntryOk(k, r, m) == k \notin {NaKey, EmptyKey} \cup DOMAIN m /\ r \in Held

Entry(i) == [key |-> frame.list.names[i], ref |-> frame.list.elements[i]]

(* MUTANT: the entries go into the clip's own map.                         *)
TakeEntryInPlace ==
    /\ InCall /\ frame.done < Len(frame.list.elements)
    /\ LET i == frame.done + 1 IN
       IF EntryOk(Entry(i).key, Entry(i).ref, frame.map)
         THEN /\ frame' = [frame EXCEPT !.done = i, !.map = With(@, Entry(i).key, Entry(i).ref)]
              /\ refs' = With(refs, Entry(i).key, Entry(i).ref)
              /\ UNCHANGED <<active, ranges, kept, last>>
         ELSE Refuse(frame.op)

(* One turn of the loop: an entry goes into the local map, or is refused   *)
(* after those before it.                                                  *)
TakeEntry ==
    /\ InCall /\ frame.done < Len(frame.list.elements)
    /\ LET i == frame.done + 1 IN
       IF EntryOk(Entry(i).key, Entry(i).ref, frame.map)
         THEN /\ frame' = [frame EXCEPT !.done = i, !.map = With(@, Entry(i).key, Entry(i).ref)]
              /\ UNCHANGED <<refs, active, ranges, kept, last>>
         ELSE Refuse(frame.op)

(* The map is whole and the library has its say on the keys.               *)
EndSet ==
    /\ InCall /\ frame.done = Len(frame.list.elements)
    /\ IF ValidKey(frame.key, DOMAIN frame.map)
         THEN /\ refs' = frame.map
              /\ active' = frame.key
              /\ frame' = NoFrame
              /\ last' = Result(frame.op, TRUE, Assignment(frame.list, frame.key))
              /\ UNCHANGED <<ranges, kept>>
         ELSE Refuse(frame.op)

(* MUTANT: the handles come in another order than the names.               *)
MediaListMixed(f) ==
    LET names == SetToSeq(DOMAIN f) IN
    [names |-> names, elements |-> [i \in DOMAIN names |-> f[Reverse(names)[i]]]]

(* media_references(x): an entry per key, in key order, for which SetToSeq *)
(* stands; a null pointer becomes NULL.                                    *)
MediaList(f) ==
    LET names == SetToSeq(DOMAIN f) IN
    [names |-> names, elements |-> [i \in DOMAIN names |-> f[names[i]]]]

Read == /\ kept' = Assignment(MediaList(refs), active)
        /\ Call("read", TRUE)
        /\ UNCHANGED <<refs, active, ranges, frame>>

Restore == BeginSet("restore", kept.list, kept.key)

-----------------------------------------------------------------------------
(* A handle, or NULL, for which the library makes a MissingReference.      *)
Given(r, m) ==
    \/ r \in Held /\ m = r /\ UNCHANGED ranges
    \/ r = NoRef /\ m \in Made \ Used /\ ranges' = [ranges EXCEPT ![m] = {}]

(* Clip(media_reference = r), which R code calls x from now on             *)
NewClip(r) ==
    IF r = NotRef THEN Refuse("new") ELSE
      /\ \E m \in AllRefs : Given(r, m) /\ refs' = [k \in {DefaultKey} |-> m]
      /\ active' = DefaultKey
      /\ Call("new", TRUE)
      /\ UNCHANGED <<kept, frame>>

(* media_reference(x) <- r                                                 *)
SetMediaReference(r) ==
    IF r = NotRef THEN Refuse("one") ELSE
      /\ \E m \in AllRefs :
           /\ Given(r, m)
           /\ refs' = With(refs, active, m)
      /\ Call("one", TRUE)
      /\ UNCHANGED <<active, kept, frame>>

(* active_media_reference_key(x) <- key                                    *)
SetActiveKey(key) ==
    IF key # NoString /\ ValidKey(KeyText(key), DOMAIN refs)
      THEN /\ active' = KeyText(key)
           /\ Call("key", TRUE)
           /\ UNCHANGED <<refs, ranges, kept, frame>>
      ELSE Refuse("key")

(* available_range(r) <- x, and the argument of r's constructor            *)
SetAvailableRange(op, r, x) ==
    IF IsOptTimeRange(x)
      THEN /\ ranges' = [ranges EXCEPT ![r] = as_opt_time_range(x)]
           /\ Call(op, TRUE)
           /\ UNCHANGED <<refs, active, kept, frame>>
      ELSE Refuse(op)

(* available_range(r) <- available_range(q)                                *)
CopyRange(r, q) == SetAvailableRange("copy", r, wrap_opt_time_range(ranges[q]))

(* x <- from_json_string(...): the library makes the clip and its          *)
(* references; it checks neither that the active key is one of the map's   *)
(* nor that an entry is a reference, nor that a number is finite.          *)
Load(d) ==
    /\ \E f \in [DOMAIN d.media -> Made \ Used] :
         /\ IsInjective(f)
         /\ refs' = [k \in DOMAIN d.media \cup d.nulls |-> IF k \in d.nulls THEN NoRef ELSE f[k]]
         /\ ranges' = [r \in AllRefs |-> IF r \in Range(f)
                                           THEN d.media[CHOOSE k \in DOMAIN f : f[k] = r]
                                           ELSE ranges[r]]
    /\ active' = d.active
    /\ Call("load", TRUE)
    /\ UNCHANGED <<kept, frame>>

Init ==
    /\ \E r \in Refs : refs = [k \in {DefaultKey} |-> r]
    /\ active = DefaultKey
    /\ ranges = [r \in AllRefs |-> {}]
    /\ kept = Assignment(MediaList(refs), active)
    /\ frame = NoFrame
    /\ last = Result("new", TRUE, Nothing)

KeyArguments == AllKeys \cup {EmptyKey, NaKey, NoString}

(* The calls; nothing else happens to a clip while one runs.               *)
Calls ==
    \/ \E list \in Lists, key \in KeyArguments : BeginSet("all", list, key)
    \/ Read \/ Restore
    \/ \E r \in Elements \cup {NoRef} : NewClip(r) \/ SetMediaReference(r)
    \/ \E key \in KeyArguments : SetActiveKey(key)
    \/ \E r \in Held, x \in Ranges : SetAvailableRange("range", r, x)
    \/ \E r, q \in Held : CopyRange(r, q)
    \/ \E d \in Documents : Load(d)

Next == (~InCall /\ Calls) \/ TakeEntry \/ EndSet

Spec == Init /\ [][Next]_vars

-----------------------------------------------------------------------------
(* Properties.                                                             *)

(* No reference of R code's own making ever has a range that is not        *)
(* finite, whatever JSON files bring and however ranges are read from one  *)
(* reference and assigned to another (test_time.R:55-56).                  *)
RangesFinite == \A r \in Refs : \A t \in ranges[r] : FiniteRange(t)

(* The active key, once a key of the map, remains one: no call of R code   *)
(* takes the entry from under it or points it at a key without one, so     *)
(* that media_reference() had nothing to give (objects.R:26, 70-71).  What *)
(* the entry holds is another matter: JSON may have put a null there.      *)
ActiveStays ==
    [][last'.op # "load" /\ active \in DOMAIN refs => active' \in DOMAIN refs']_vars

SameEntries(a, b) ==
    /\ Len(a.names) = Len(b.names)
    /\ \A i \in DOMAIN a.names : \E j \in DOMAIN b.names :
         a.names[i] = b.names[j] /\ a.elements[i] = b.elements[j]

(* A list that set_media_references accepts is what media_references gives *)
(* back: no entry is coerced, collapsed or lost (media.cpp:69-71).         *)
AcceptedReadsBack ==
    last.op = "all" /\ last.ok =>
      SameEntries(MediaList(refs), last.taken.list) /\ active = last.taken.key

(* A list with the keys and references of a clip, one of them active.      *)
IsMediaMap(list, key) ==
    /\ IsInjective(list.names) /\ Range(list.names) \cap {NaKey, EmptyKey} = {}
    /\ key \in Range(list.names)
    /\ Range(list.elements) \subseteq Held

(* While set_media_references takes its list apart the clip stays as it    *)
(* was; it stays so for good when an entry, the last one included, or the  *)
(* library's look at the whole refuses, and that is so exactly for a list  *)
(* that is no map of references or lacks the key (media.cpp:65-87).        *)
RefusedChangesNothing ==
    [][/\ InCall' \/ (InCall /\ ~last'.ok) => UNCHANGED <<refs, active, ranges>>
       /\ InCall /\ ~InCall' => (last'.ok <=> IsMediaMap(frame.list, frame.key))]_vars

(* The references that were read, kept while the clip changed or was       *)
(* replaced, and set again with the key that was active, are again those   *)
(* of the clip; that is refused only for a clip whose JSON had no          *)
(* reference in an entry, an empty key or an active key that is none of    *)
(* the map's.                                                              *)
CopyRestores ==
    [][last'.op = "restore" =>
         IF last'.ok
           THEN SameEntries(MediaList(refs'), kept.list) /\ active' = kept.key
           ELSE \/ NoRef \in Range(kept.list.elements)
                \/ EmptyKey \in Range(kept.list.names)
                \/ kept.key \notin Range(kept.list.names)]_vars

(* A range read from one reference and assigned to another arrives there;  *)
(* only one that is not finite is refused.                                 *)
RangesMove ==
    [][last'.op = "copy" => \A r, q \in Held : CopyRange(r, q) =>
         IF last'.ok THEN ranges'[r] = ranges[q]
                     ELSE \E t \in ranges[q] : ~FiniteRange(t)]_vars
=============================================================================
