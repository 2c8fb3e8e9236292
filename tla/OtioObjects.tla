---------------------------- MODULE OtioObjects ----------------------------
(***************************************************************************)
(* Ownership of OpenTimelineIO objects by R handles and tree parents:      *)
(* src/src/otio_xptr.h, composition.cpp, timeline.cpp, constructors.cpp,   *)
(* the clip-media calls of media.cpp, metadata.cpp as far as metadata      *)
(* holds objects, the object-making calls of serializable.cpp and          *)
(* algorithms.cpp, item.cpp's parent().                                    *)
(*                                                                         *)
(* An OTIO object carries an intrusive reference count.  Every R handle    *)
(* owns one Retainer (+1), and so does every member of a holder: a child   *)
(* of a Stack, Track or SerializableCollection, the Stack of a Timeline,   *)
(* a media reference of a Clip; and so does every object put in another's  *)
(* metadata.  A child of a Stack or Track also has a raw back pointer to   *)
(* its parent, which counts for nothing.                                   *)
(*                                                                         *)
(* R is single-threaded; a .Call runs alone, with two exceptions modelled  *)
(* here.  Any R allocation may run the garbage collector, hence the C      *)
(* finalizers of handles that became garbage; and the calls that return a  *)
(* list of handles allocate once per element, so finalizers run between    *)
(* the elements.  With Reentrant = TRUE R-level finalizers (reg.finalizer) *)
(* run there too, and these may call the package again.                    *)
(***************************************************************************)
EXTENDS Integers, FiniteSets, SequencesExt

CONSTANTS
    Stacks, Tracks, Clips, Media, Timelines, Collections,  \* pools of objects
    Handles,        \* external pointers the session may create
    NoObject,       \* the null pointer
    NoHandle,       \* no handle
    MaxChildren,    \* BOUND: members of one holder
    Positions,      \* BOUND: the 1-based positions R code passes
    Annotated,      \* BOUND: the objects whose metadata may hold objects
    Reentrant       \* may R code run while a call is building its list?

Compositions == Stacks \cup Tracks
Composables  == Compositions \cup Clips
Holders      == Compositions \cup Collections
Objects      == Composables \cup Media \cup Timelines \cup Collections

ASSUME PoolAssumption ==
    /\ IsFiniteSet(Objects) /\ NoObject \notin Objects
    /\ IsFiniteSet(Handles) /\ NoHandle \notin Handles
    /\ Stacks \cap Tracks = {} /\ Compositions \cap (Clips \cup Media) = {}
    /\ Clips \cap Media = {} /\ Collections \cap (Composables \cup Media) = {}
    /\ Timelines \cap (Composables \cup Media \cup Collections) = {}
    /\ MaxChildren \in Nat /\ Positions \subseteq Int /\ Annotated \subseteq Objects
    /\ Reentrant \in BOOLEAN

VARIABLES
    life,       \* object -> "unborn", "live" or "freed"
    refs,       \* object -> its intrusive reference count
    slots,      \* object -> the objects its member Retainers hold, in order
    meta,       \* object -> the objects its metadata holds, in key order
    parent,     \* object -> the composition its back pointer names
    handle,     \* handle -> the object its Retainer holds, or NoObject
    rstate,     \* handle -> "free", "held" by R code, or "garbage"
    call        \* the list-building .Call in progress, if any

vars == <<life, refs, slots, meta, parent, handle, rstate, call>>

(* A list-building call: the handle it was given, the raw C++ pointers it  *)
(* has still to wrap, the objects it holds Retainers on, and the handles   *)
(* it has put in the list so far.                                          *)
Idle   == [arg |-> NoHandle, todo |-> <<>>, kept |-> {}, out |-> {}]
InCall == call.arg # NoHandle

Live == {o \in Objects : life[o] = "live"}

(* The destructor cascade is part of the call or finalizer that dropped    *)
(* the last reference: nothing else happens until it is over.              *)
Settled == \A o \in Objects : life[o] = "live" => refs[o] > 0

RCodeRuns == Settled /\ (InCall => Reentrant)

(* otio_get<T>: a handle R code can name, not null, of the right type.     *)
(* Any other argument makes the call fail before it changes anything.      *)
Arg(h, T) == rstate[h] = "held" /\ h \notin call.out /\ handle[h] \in T

FreeHandles == {h \in Handles : rstate[h] = "free"}

(* Mutant of Args: what otio_get gets from a list is used unchecked, so    *)
(* that a null pointer passes.                                             *)
ArgsUnchecked(gs, T) ==
    \A h \in Range(gs) : /\ rstate[h] = "held" /\ h \notin call.out
                         /\ handle[h] \in T \cup {NoObject}

(* The handles in a list, each of them put to otio_get.                    *)
Args(gs, T) == \A i \in DOMAIN gs : Arg(gs[i], T)

Objs(gs) == [i \in DOMAIN gs |-> handle[gs[i]]]

(* The model has finitely many handles; those a running call needs for the *)
(* rest of its list are left to it.                                        *)
Spare(h) == h \in FreeHandles /\ Cardinality(FreeHandles) > Len(call.todo)

-----------------------------------------------------------------------------
(* Reference counting, as the library does it.                             *)

Count(o, s) == Cardinality({i \in DOMAIN s : s[i] = o})

(* otio_xptr: a new Retainer on o, owned by the new handle h.              *)
Wrap(h, o) == /\ handle' = [handle EXCEPT ![h] = o]
              /\ rstate' = [rstate EXCEPT ![h] = "held"]

(* Object p's Retainers become s (members) and m (metadata): one reference *)
(* more for each new one, one less for each old one.  A composition's      *)
(* children point back at it.                                              *)
Store(p, s, m) ==
    /\ slots' = [slots EXCEPT ![p] = s]
    /\ meta'  = [meta EXCEPT ![p] = m]
    /\ refs'  = [o \in Objects |-> refs[o] + Count(o, s) - Count(o, slots[p])
                                          + Count(o, m) - Count(o, meta[p])]
    /\ parent' = IF p \in Compositions
                 THEN [o \in Objects |->
                          IF o \in Range(s) THEN p
                          ELSE IF o \in Range(slots[p]) THEN NoObject
                          ELSE parent[o]]
                 ELSE parent

(* Mutant of MayAdopt: a child of another composition is taken too.        *)
MayAdoptParented(p, o) == p \in Compositions => o \in Composables

(* The library refuses a composition child that already has a parent.      *)
MayAdopt(p, o) == p \in Compositions => o \in Composables /\ parent[o] = NoObject

-----------------------------------------------------------------------------
(* Positions.  R is 1-based, OTIO 0-based; what OTIO makes of an index     *)
(* outside the holder is its own affair, so the model allows any place.    *)

ToOtioIndex(i)  == i - 1
InsertPlaces(k, n) == IF k \in 0..n THEN {k + 1} ELSE 1..(n + 1)
ItemPlaces(k, n)   == IF k \in 0..(n - 1) THEN {k + 1} ELSE 1..n

-----------------------------------------------------------------------------
(* The members a holder of each kind can have.                             *)
MayHold(p) == IF p \in Compositions     THEN Composables
              ELSE IF p \in Collections THEN Objects
              ELSE IF p \in Timelines   THEN Stacks
              ELSE IF p \in Clips       THEN Media ELSE {}

-----------------------------------------------------------------------------
(* Constructors.                                                           *)

UpTo(S, n) == UNION {[1..k -> S] : k \in 0..n}
HandleLists == UpTo(Handles, MaxChildren)
ObjectLists == UpTo(Objects, MaxChildren)
ChildLists  == UpTo(Composables, MaxChildren)

Unborn(S) == S \subseteq {o \in Objects : life[o] = "unborn"}

(* Object p comes into being with members s and metadata m, of which the   *)
(* objects in fresh are created with it, and handle h is put on p.         *)
Build(h, p, s, m, fresh) ==
    /\ RCodeRuns /\ Spare(h)
    /\ Unborn(fresh \cup {p}) /\ p \notin fresh
    /\ life' = [o \in Objects |-> IF o \in fresh \cup {p} THEN "live" ELSE life[o]]
    /\ refs' = [o \in Objects |-> refs[o] + Count(o, s) + Count(o, m) + IF o = p THEN 1 ELSE 0]
    /\ slots' = [slots EXCEPT ![p] = s]
    /\ meta' = [meta EXCEPT ![p] = m]
    /\ parent' = [o \in Objects |-> IF p \in Compositions /\ o \in Range(s)
                                    THEN p ELSE parent[o]]
    /\ Wrap(h, p)
    /\ UNCHANGED call

(* The metadata argument of a constructor, of metadata(x) <- and of        *)
(* parameters(x) <-: the handles in the list, at any depth.                *)
MetaSize(p) == IF p \in Annotated THEN MaxChildren ELSE 0
Metadata(p) == {gs \in UpTo(Handles, MetaSize(p)) : Args(gs, Objects)}

Construct(h, p, s, fresh) == \E gs \in Metadata(p) : Build(h, p, s, Objs(gs), fresh)

(* Stack(), Track(), Gap(), ... and the media references.                  *)
New(h, p) == p \in Compositions \cup Media /\ Construct(h, p, <<>>, {})

(* Clip(): with the media reference passed in, or with a MissingReference  *)
(* the library makes itself; an instance without Media leaves it out.      *)
NewClip(h, p) ==
    /\ p \in Clips
    /\ \/ Media = {} /\ Construct(h, p, <<>>, {})
       \/ \E g \in Handles : Arg(g, Media) /\ Construct(h, p, <<handle[g]>>, {})
       \/ \E m \in Media : Construct(h, p, <<m>>, {m})

(* Timeline(): the library creates its Stack.                              *)
NewTimeline(h, p, k) == p \in Timelines /\ Construct(h, p, <<k>>, {k})

(* SerializableCollection(children = list(...)).                           *)
NewCollection(h, p, gs) ==
    p \in Collections /\ Args(gs, Objects) /\ Construct(h, p, Objs(gs), {})

(* from_json_string(), from_json_file(): a new tree, here of one level,    *)
(* with its metadata.                                                      *)
NewTree(h, p, s, m) ==
    /\ Range(s) \subseteq MayHold(p) \ Timelines /\ (p \in Timelines => Len(s) = 1)
    /\ Range(m) \cap Timelines = {}
    /\ IsInjective(s \o m)
    /\ Build(h, p, s, m, Range(s) \cup Range(m))

SameKind(a, b) ==
    \A K \in {Stacks, Tracks, Clips, Media, Timelines, Collections} : a \in K <=> b \in K

(* Copies of these objects, which hold none themselves.                    *)
CopiesOf(s, t) ==
    /\ Len(s) = Len(t)
    /\ \A i \in DOMAIN s : SameKind(s[i], t[i]) /\ slots[s[i]] = <<>> /\ meta[s[i]] = <<>>

(* clone(x), of a tree of one level.                                       *)
Clone(h, x, p) ==
    /\ Arg(x, Objects)
    /\ SameKind(handle[x], p)
    /\ \E s \in ObjectLists, m \in UpTo(Objects, MetaSize(p)) :
         /\ CopiesOf(slots[handle[x]], s) /\ CopiesOf(meta[handle[x]], m)
         /\ NewTree(h, p, s, m)

(* track_trimmed_to_range(x), flatten_stack(x): a new track with new       *)
(* children, whatever the library keeps of those in x.                     *)
NewTrack(h, x, p) ==
    /\ Arg(x, Tracks \cup Stacks) /\ p \in Tracks
    /\ \E s \in ObjectLists, m \in UpTo(Objects, MetaSize(p)) : NewTree(h, p, s, m)

-----------------------------------------------------------------------------
(* Handles on an object that another object knows.                         *)

(* Mutant of Fetch: the handle is put on the bare pointer, no Retainer.    *)
FetchUncounted(h, o) == /\ RCodeRuns /\ Spare(h)
                        /\ Wrap(h, o)
                        /\ UNCHANGED <<refs, life, slots, meta, parent, call>>

Fetch(h, o) == /\ RCodeRuns /\ Spare(h)
               /\ Wrap(h, o)
               /\ refs' = [refs EXCEPT ![o] = @ + 1]
               /\ UNCHANGED <<life, slots, meta, parent, call>>

(* parent(x): NULL, hence no handle, when there is none.                   *)
FetchParent(h, x) ==
    /\ Arg(x, Composables) /\ parent[handle[x]] # NoObject
    /\ Fetch(h, parent[handle[x]])

(* tracks(timeline), media_reference(clip).                                *)
FetchMember(h, x) ==
    /\ Arg(x, Timelines \cup Clips)
    /\ \E o \in Range(slots[handle[x]]) : Fetch(h, o)

-----------------------------------------------------------------------------
(* Changing a holder.                                                      *)

(* Object p's Retainers become s and m; the objects in fresh are created.  *)
Rework(p, s, m, fresh) ==
    /\ RCodeRuns /\ Unborn(fresh)
    /\ Store(p, s, m)
    /\ life' = [o \in Objects |-> IF o \in fresh THEN "live" ELSE life[o]]
    /\ UNCHANGED <<handle, rstate, call>>

Relink(p, s) == Rework(p, s, meta[p], {})

AppendChild(x, c) ==
    /\ Arg(x, Compositions) /\ Arg(c, Composables)
    /\ LET p == handle[x] IN
       /\ MayAdopt(p, handle[c]) /\ Len(slots[p]) < MaxChildren
       /\ Relink(p, Append(slots[p], handle[c]))

InsertChild(x, i, c) ==
    /\ Arg(x, Holders) /\ Arg(c, Objects)
    /\ LET p == handle[x] IN
       /\ MayAdopt(p, handle[c]) /\ Len(slots[p]) < MaxChildren
       /\ \E k \in InsertPlaces(ToOtioIndex(i), Len(slots[p])) :
              Relink(p, InsertAt(slots[p], k, handle[c]))

SetChild(x, i, c) ==
    /\ Arg(x, Holders) /\ Arg(c, Objects)
    /\ LET p == handle[x] IN
       /\ MayAdopt(p, handle[c])
       /\ \E k \in ItemPlaces(ToOtioIndex(i), Len(slots[p])) :
              Relink(p, ReplaceAt(slots[p], k, handle[c]))

RemoveChild(x, i) ==
    /\ Arg(x, Holders)
    /\ LET p == handle[x] IN
       \E k \in ItemPlaces(ToOtioIndex(i), Len(slots[p])) :
           Relink(p, RemoveAt(slots[p], k))

(* set_children(x, list of handles gs); clear_children(x) is the empty     *)
(* list.  A composition takes each child once, and only free ones.         *)
SetChildren(x, gs) ==
    /\ Arg(x, Holders) /\ Args(gs, Objects)
    /\ LET p == handle[x] IN
       /\ \A i \in DOMAIN gs : MayAdopt(p, handle[gs[i]])
       /\ p \in Compositions => IsInjective(Objs(gs))
       /\ Relink(p, Objs(gs))

(* tracks(timeline) <- stack.                                              *)
SetTracks(x, k) ==
    /\ Arg(x, Timelines) /\ Arg(k, Stacks)
    /\ Relink(handle[x], <<handle[k]>>)

(* set_media_references(clip, ...): the map is replaced, and not by an     *)
(* empty one; its keys are in ClipMedia.                                   *)
SetMediaReferences(x, gs) ==
    /\ Arg(x, Clips) /\ Args(gs, Media) /\ gs # <<>>
    /\ Relink(handle[x], Objs(gs))

(* media_reference(clip) <- m: the active one is replaced, by m or, for    *)
(* NULL, by a MissingReference the library makes.                          *)
SetMediaReference(x, m) ==
    /\ Arg(x, Clips)
    /\ LET p == handle[x] IN
       \E k \in 1..Len(slots[p]) :
          \/ /\ \E g \in Handles : Arg(g, Media) /\ handle[g] = m
             /\ Relink(p, ReplaceAt(slots[p], k, m))
          \/ Rework(p, ReplaceAt(slots[p], k, m), meta[p], {m})

(* metadata(x) <- list(...).                                               *)
SetMetadata(x) ==
    /\ Arg(x, Objects)
    /\ \E gs \in Metadata(handle[x]) : Rework(handle[x], slots[handle[x]], Objs(gs), {})

(* overwrite(), insert(), trim(), slice(), ripple(), roll(), fill(),       *)
(* remove(): the library rearranges the children of one composition, which *)
(* it is given or which is the parent of the item it is given; it drops    *)
(* some, and takes in fresh ones and free ones it was handed.              *)
EditChildren(x, p, s) ==
    /\ Arg(x, Composables) /\ p \in Compositions /\ p \in {handle[x], parent[handle[x]]}
    /\ Range(s) \subseteq Composables /\ IsInjective(s)
    /\ LET fresh == {o \in Range(s) : life[o] = "unborn"}
           given == Range(s) \ (fresh \cup Range(slots[p])) IN
       /\ \A o \in given : parent[o] = NoObject
                          /\ \E g \in Handles : Arg(g, Composables) /\ handle[g] = o
       /\ Rework(p, s, meta[p], fresh)

-----------------------------------------------------------------------------
(* Calls that return a list of handles.                                    *)

(* The objects below those of S, S included, when p holds those in h[p]:   *)
(* they are in every set of live objects that has S and, with an object,   *)
(* what it holds.                                                          *)
Below(S, h) == {o \in Live : \A T \in SUBSET Live :
                   S \subseteq T /\ (\A p \in T : h[p] \subseteq T) => o \in T}

Held(p)  == Range(slots[p]) \cup Range(meta[p])
Reach(S) == Below(S, [p \in Objects |-> Held(p)])

(* Mutant of Listing: what find_clips keeps are bare pointers.             *)
ListingUncounted(x, todo, kept) ==
    /\ RCodeRuns /\ ~InCall /\ rstate[x] = "held"
    /\ Len(todo) <= Cardinality(FreeHandles)
    /\ call' = [arg |-> x, todo |-> todo, kept |-> kept, out |-> {}]
    /\ UNCHANGED <<refs, life, slots, meta, parent, handle, rstate>>

Listing(x, todo, kept) ==
    /\ RCodeRuns /\ ~InCall /\ rstate[x] = "held"
    /\ Len(todo) <= Cardinality(FreeHandles)
    /\ call' = [arg |-> x, todo |-> todo, kept |-> kept, out |-> {}]
    /\ refs' = [o \in Objects |-> refs[o] + IF o \in kept THEN 1 ELSE 0]
    /\ UNCHANGED <<life, slots, meta, parent, handle, rstate>>

(* children(x), media_references(x): raw pointers, no Retainer.            *)
BeginChildren(x) == Arg(x, Holders \cup Clips) /\ Listing(x, slots[handle[x]], {})

(* video_tracks(x), audio_tracks(x): raw pointers to the tracks of a kind. *)
BeginTracks(x) ==
    /\ Arg(x, Timelines)
    /\ \E k \in Range(slots[handle[x]]) : \E S \in SUBSET (Range(slots[k]) \cap Tracks) :
           \E todo \in SetToSeqs(S) : Listing(x, todo, {})

(* metadata(x), parameters(x): the dictionary is walked in place.          *)
BeginMetadata(x) == Arg(x, Objects) /\ Listing(x, meta[handle[x]], {})

(* find_clips(x): the library returns Retainers, which live in the C++     *)
(* frame until the list is complete.                                       *)
BeginFindClips(x) ==
    /\ Arg(x, Holders \cup Timelines)
    /\ LET found == Below({handle[x]}, [p \in Objects |-> Range(slots[p])]) \cap Clips IN
       \E todo \in SetToSeqs(found) : Listing(x, todo, found)

(* Mutants of WrapNext: the handle takes no Retainer; the loop does not    *)
(* advance.                                                                *)
WrapNextUncounted(h) ==
    /\ Settled /\ InCall /\ call.todo # <<>> /\ h \in FreeHandles
    /\ life[Head(call.todo)] = "live" /\ Wrap(h, Head(call.todo))
    /\ call' = [call EXCEPT !.todo = Tail(@), !.out = @ \cup {h}]
    /\ UNCHANGED <<refs, life, slots, meta, parent>>

WrapNextSticks(h) ==
    /\ Settled /\ InCall /\ call.todo # <<>> /\ h \in FreeHandles
    /\ life[Head(call.todo)] = "live" /\ Wrap(h, Head(call.todo))
    /\ refs' = [refs EXCEPT ![Head(call.todo)] = @ + 1]
    /\ call' = [call EXCEPT !.out = @ \cup {h}]
    /\ UNCHANGED <<life, slots, meta, parent>>

(* One turn of the loop in otio_xptr_list.  On a dead object it has no     *)
(* defined behaviour: see RawLive.                                         *)
WrapNext(h) ==
    /\ Settled /\ InCall /\ call.todo # <<>> /\ h \in FreeHandles
    /\ LET o == Head(call.todo) IN
       /\ life[o] = "live"
       /\ Wrap(h, o)
       /\ refs' = [refs EXCEPT ![o] = @ + 1]
    /\ call' = [call EXCEPT !.todo = Tail(@), !.out = @ \cup {h}]
    /\ UNCHANGED <<life, slots, meta, parent>>

(* Mutant of EndCall: the frame's Retainers are never deleted.             *)
EndCallKeepsRetainers ==
    /\ Settled /\ InCall /\ call.todo = <<>>
    /\ call' = Idle
    /\ UNCHANGED <<refs, life, slots, meta, parent, handle, rstate>>

(* The list is returned to R and the C++ frame's Retainers go.             *)
EndCall ==
    /\ Settled /\ InCall /\ call.todo = <<>>
    /\ refs' = [o \in Objects |-> refs[o] - IF o \in call.kept THEN 1 ELSE 0]
    /\ call' = Idle
    /\ UNCHANGED <<life, slots, meta, parent, handle, rstate>>

-----------------------------------------------------------------------------
(* Garbage collection, destruction, end of the process.                    *)

(* R code forgets a handle; those a running call uses are protected.       *)
Drop(h) ==
    /\ RCodeRuns /\ rstate[h] = "held" /\ h # call.arg /\ h \notin call.out
    /\ rstate' = [rstate EXCEPT ![h] = "garbage"]
    /\ UNCHANGED <<life, refs, slots, meta, parent, handle, call>>

(* Mutants of Finalize: the handle owns the object, not a share of it; the *)
(* pointer goes without its finalizer, and the Retainer stays for ever.    *)
FinalizeDeletes(h) ==
    /\ Settled /\ rstate[h] = "garbage"
    /\ rstate' = [rstate EXCEPT ![h] = "free"]
    /\ handle' = [handle EXCEPT ![h] = NoObject]
    /\ refs' = [o \in Objects |-> IF handle[h] = o THEN 0 ELSE refs[o]]
    /\ UNCHANGED <<life, slots, meta, parent, call>>

FinalizeLeaks(h) ==
    /\ Settled /\ rstate[h] = "garbage"
    /\ rstate' = [rstate EXCEPT ![h] = "free"]
    /\ handle' = [handle EXCEPT ![h] = NoObject]
    /\ UNCHANGED <<refs, life, slots, meta, parent, call>>

(* The collector runs the finalizer of a garbage handle: the Retainer is   *)
(* deleted, unless the pointer is null.                                    *)
Finalize(h) ==
    /\ Settled /\ rstate[h] = "garbage"
    /\ rstate' = [rstate EXCEPT ![h] = "free"]
    /\ handle' = [handle EXCEPT ![h] = NoObject]
    /\ refs' = [o \in Objects |-> refs[o] - IF handle[h] = o THEN 1 ELSE 0]
    /\ UNCHANGED <<life, slots, meta, parent, call>>

(* The count is zero: the destructor releases members and metadata, and    *)
(* the children of a composition lose their back pointer.                  *)
Destroy(o) ==
    /\ life[o] = "live" /\ refs[o] = 0
    /\ life' = [life EXCEPT ![o] = "freed"]
    /\ Store(o, <<>>, <<>>)
    /\ UNCHANGED <<handle, rstate, call>>

(* R ends, or crashes, and a new session restores a saved workspace: R     *)
(* gives the handles in S null pointers, the others are lost.              *)
Restart(S) ==
    /\ \A h \in S : rstate[h] = "held"
    /\ life' = [o \in Objects |-> IF life[o] = "live" THEN "freed" ELSE life[o]]
    /\ refs' = [o \in Objects |-> 0]
    /\ slots' = [o \in Objects |-> <<>>]
    /\ meta' = [o \in Objects |-> <<>>]
    /\ parent' = [o \in Objects |-> NoObject]
    /\ handle' = [h \in Handles |-> NoObject]
    /\ rstate' = [h \in Handles |-> IF h \in S THEN "held" ELSE "free"]
    /\ call' = Idle

-----------------------------------------------------------------------------
Init == /\ life = [o \in Objects |-> "unborn"]
        /\ refs = [o \in Objects |-> 0]
        /\ slots = [o \in Objects |-> <<>>]
        /\ meta = [o \in Objects |-> <<>>]
        /\ parent = [o \in Objects |-> NoObject]
        /\ handle = [h \in Handles |-> NoObject]
        /\ rstate = [h \in Handles |-> "free"]
        /\ call = Idle

Create ==
    RCodeRuns /\ \E h \in FreeHandles, p \in {o \in Objects : life[o] = "unborn"} :
        \/ New(h, p)
        \/ NewClip(h, p)
        \/ \E k \in Stacks : NewTimeline(h, p, k)
        \/ \E gs \in HandleLists : NewCollection(h, p, gs)
        \/ \E s \in ObjectLists, m \in UpTo(Objects, MetaSize(p)) : NewTree(h, p, s, m)
        \/ \E x \in Handles : Clone(h, x, p) \/ NewTrack(h, x, p)

Access == \E h, x \in Handles : FetchParent(h, x) \/ FetchMember(h, x)

Change ==
    RCodeRuns /\ \E x \in Handles :
        \/ \E c \in Handles :
              \/ AppendChild(x, c)
              \/ SetTracks(x, c)
              \/ \E i \in Positions : InsertChild(x, i, c) \/ SetChild(x, i, c)
        \/ \E i \in Positions : RemoveChild(x, i)
        \/ \E gs \in HandleLists : SetChildren(x, gs) \/ SetMediaReferences(x, gs)
        \/ \E m \in Media : SetMediaReference(x, m)
        \/ SetMetadata(x)
        \/ \E p \in Objects, s \in ChildLists : EditChildren(x, p, s)

List == \/ \E x \in Handles : \/ BeginChildren(x) \/ BeginTracks(x)
                              \/ BeginMetadata(x) \/ BeginFindClips(x)
        \/ \E h \in Handles : WrapNext(h)
        \/ EndCall

Collect == (\E h \in Handles : Finalize(h)) \/ (\E o \in Objects : Destroy(o))

Next == \/ Create \/ Access \/ Change \/ List \/ Collect
        \/ \E h \in Handles : Drop(h)
        \/ \E S \in SUBSET Handles : Restart(S)

Spec == Init /\ [][Next]_vars

-----------------------------------------------------------------------------
(* Properties.                                                             *)

(* The shape of the state: counts are numbers, a holder has members of its *)
(* kind, a live timeline has its one Stack, only composables have parents, *)
(* a free handle is on nothing, a call works on handles it was given.      *)
TypeOK ==
    /\ life \in [Objects -> {"unborn", "live", "freed"}]
    /\ refs \in [Objects -> Nat]
    /\ slots \in [Objects -> Seq(Objects)]
    /\ \A p \in Objects : Range(slots[p]) \subseteq MayHold(p)
    /\ meta \in [Objects -> Seq(Objects)]
    /\ \A t \in Timelines \cap Live : Len(slots[t]) = 1
    /\ parent \in [Objects -> Compositions \cup {NoObject}]
    /\ handle \in [Handles -> Objects \cup {NoObject}]
    /\ rstate \in [Handles -> {"free", "held", "garbage"}]
    /\ \A h \in Handles : rstate[h] = "free" => handle[h] = NoObject
    /\ call \in [arg : Handles \cup {NoHandle}, todo : Seq(Objects),
                 kept : SUBSET Objects, out : SUBSET Handles]
    /\ InCall => rstate[call.arg] = "held"
    /\ \A h \in call.out : rstate[h] = "held"
    /\ ~InCall => call = Idle

HandlesOn(o) == {h \in Handles : handle[h] = o}

(* The places where o occurs in the sequences f keeps for the objects.     *)
Occurrences(f, o) ==
    {e \in UNION {{p} \X DOMAIN f[p] : p \in Objects} : f[e[1]][e[2]] = o}

Uses(o) == Cardinality(Occurrences(slots, o)) + Cardinality(Occurrences(meta, o))

(* Reference counting is exact: an object's count is the number of handles *)
(* (held or awaiting finalization), of members and metadata entries of     *)
(* other objects and of Retainers of a running call that refer to it.  A   *)
(* reference too few destroys an object in use, one too many keeps it      *)
(* until the session ends (otio_xptr.h:6-16).                              *)
CountExact ==
    \A o \in Objects :
        refs[o] = Cardinality(HandlesOn(o)) + Uses(o) + (IF o \in call.kept THEN 1 ELSE 0)

(* The back pointer of an object names p exactly when the composition p    *)
(* has it as a child, and it has it once: parent(x) (item.cpp:23-25) and   *)
(* children(p) never disagree, whatever was inserted, replaced, edited or  *)
(* destroyed, so a child whose parent died can be added elsewhere.         *)
TreeLinks ==
    /\ \A p \in Compositions, o \in Objects : parent[o] = p <=> o \in Range(slots[p])
    /\ \A p \in Compositions : IsInjective(slots[p])

(* Nothing refers to an object that is not there: no handle, no member, no *)
(* metadata entry, no back pointer, no Retainer of a running call.  A      *)
(* handle of a restored workspace is null, not dangling, and what is null  *)
(* never becomes a member or an entry: otio_get refuses it                 *)
(* (otio_xptr.h:47), and no list-building call would survive it.           *)
NoDangling ==
    /\ \A h \in Handles : handle[h] \in Live \cup {NoObject}
    /\ \A p \in Objects : Held(p) \subseteq Live
    /\ \A o \in Objects : parent[o] \in Live \cup {NoObject}
    /\ call.kept \subseteq Live

(* The raw pointers a list-building call still has to wrap are to objects  *)
(* that are there (composition.cpp:12-14 and its like): the finalizers     *)
(* that run between two elements never destroy one, because the argument's *)
(* tree holds it.                                                          *)
RawLive == Range(call.todo) \subseteq Live

(* find_clips keeps Retainers, so its raw pointers are safe even from R    *)
(* code run by a finalizer between two elements (composition.cpp:137-141). *)
KeptRawLive == call.kept # {} => Range(call.todo) \subseteq Live

(* What the proofs add to make the invariants inductive: an object that is *)
(* not live holds nothing; what a call has still to wrap is retained by    *)
(* its own frame or, when no R code can intervene, by the argument's       *)
(* object or a member of it.                                               *)
Emptied  == \A o \in Objects : life[o] # "live" => slots[o] = <<>> /\ meta[o] = <<>>
Anchored ==
    InCall =>
        /\ handle[call.arg] \in Objects
        /\ \A o \in Range(call.todo) :
              IF call.kept # {} THEN o \in call.kept
              ELSE Reentrant \/ \E p \in {handle[call.arg]} \cup Range(slots[handle[call.arg]]) :
                                    o \in Held(p)
FiniteUses == \A o \in Objects : /\ IsFiniteSet(Occurrences(slots, o))
                                 /\ IsFiniteSet(Occurrences(meta, o))

(* The inductive invariant: every reachable state has exact counts, links  *)
(* that agree and nothing dangling, dead objects hold nothing, and a call  *)
(* that is building a list has its remaining pointers anchored: all of the *)
(* code above preserves the conjunction, and only the conjunction.         *)
IInv == TypeOK /\ CountExact /\ TreeLinks /\ NoDangling /\ Emptied /\ Anchored /\ FiniteUses

(* Some object holds itself, directly or through others.                   *)
Cyclic == \E S \in (SUBSET Live) \ {{}} : \A o \in S : \E p \in S : o \in Held(p)

Referenced == ({handle[h] : h \in Handles} \ {NoObject}) \cup call.kept

(* "An object whose only reference is the R handle dies when collected"    *)
(* (otio_xptr.h:15-16), for whole trees: once destructors have run, what   *)
(* is live is what some handle reaches.  Only a cycle of objects, each a   *)
(* member of the next, outlives its handles.                               *)
NothingLeaks == Settled /\ ~Cyclic => Live = Reach(Referenced)

Promise == INSTANCE Lifetimes WITH
               live  <- Live,
               gone  <- {o \in Objects : life[o] = "freed"},
               roots <- Referenced,
               holds <- {e \in Objects \X Objects : e[2] \in Held(e[1])}

(* Reference counting implements the promise of the documentation: what    *)
(* can be reached from R is never destroyed, what is destroyed is never    *)
(* referred to again.                                                      *)
KeepsPromise == Promise!AbsSpec

-----------------------------------------------------------------------------
(* Progress.  A call that has begun runs to its end.  R does not promise   *)
(* when it collects; Fairness says that it collects again and again, as it *)
(* does in a session that goes on allocating.                              *)
Fairness == /\ \A h \in Handles : WF_vars(Finalize(h))
            /\ \A o \in Objects : WF_vars(Destroy(o))
            /\ WF_vars(\E h \in Handles : WrapNext(h))
            /\ WF_vars(EndCall)

FairSpec == Spec /\ Fairness

HeldObjects == {handle[h] : h \in {g \in Handles : rstate[g] = "held"}} \ {NoObject}

(* No object stays live for ever after the last held handle that reaches   *)
(* it is forgotten, unless it is caught in a cycle.                        *)
Reclaimed == \A o \in Objects :
    []<>(life[o] # "live" \/ o \in Reach(HeldObjects \cup call.kept) \/ Cyclic)

(* A list-building call ends.                                              *)
CallsEnd == InCall ~> ~InCall
=============================================================================
