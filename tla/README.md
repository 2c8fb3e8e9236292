# RcppOTIO in TLA+

RcppOTIO binds the OpenTimelineIO C++ library (OTIO) to R.  Its schema objects
live in C++ behind an intrusive reference count; R code holds them through
external pointers, and a garbage collector decides when those go.  This
directory keeps the models of that program: TLA+ modules, the TLC
configurations that check them on small instances, and theorems checked by
TLAPS for every size.

Paths below are relative to the repository root, which the project sees as
`src/`: `src/src/` holds the C++ code and `src/R/` the R code.

## 1. Inventory

The package is single-threaded.  What makes it hard is R's memory management:
any allocation may run the garbage collector, the collector runs finalizers,
and finalizers drop references to objects other code is still working with.

| Component | Files | State | Operations | What must hold |
|---|---|---|---|---|
| Handles | `src/otio_xptr.h` | one `Retainer` per R handle, the objects' reference counts | `otio_xptr`, `otio_get`, `otio_xptr_list`, the finalizer | counts are exact; nothing in use is freed; what nobody reaches is freed; null handles are refused |
| Class chains | `src/otio_xptr.cpp` | none | `otio_class_chain` | R's `inherits` dispatch picks the entry point whose `otio_get<T>` accepts the object |
| Compositions, collections | `src/composition.cpp`, `R/composition.R`, `R/utils.R` | children with Retainers, raw back pointers | children, append, insert, set, remove, clear, set_children, find_clips, queries | child lists and back pointers agree; lists are safe to build while finalizers run |
| Timelines | `src/timeline.cpp`, `R/timeline.R` | the Stack, start time | tracks, video/audio tracks, find_clips | a timeline always has its Stack |
| Constructors | `src/constructors.cpp`, `R/schema.R` | - | one per schema class | a new object starts at count 0 and gets its first reference from its handle |
| Items | `src/item.cpp`, `R/item.R` | ranges, flags | parent, ranges, enabled | parent never wraps a dead object |
| Clip media | `src/media.cpp`, `R/objects.R` | key -> reference map, active key | get/set one, get/set all, active key | the active key is a key of the map; a refused call changes nothing |
| Metadata | `src/metadata.cpp`, `src/otio_metadata.h` | a dictionary per object | read, replace | objects in metadata are retained; reading and writing back is harmless |
| Serialization, clone | `src/serializable.cpp`, `R/serializable.R` | - | to/from JSON, clone, name, metadata | the result is made of fresh objects |
| Edit algorithms | `src/algorithms.cpp`, `R/algorithms.R` | children of one composition | overwrite, insert, trim, slice, slip, slide, ripple, roll, fill, remove; trimmed track, flattened stack | counts and links survive any rearrangement |
| Schema registry | `src/registry.cpp`, `R/registry.R` | registered R callbacks | register up/downgrade, version map | a registered callback is never collected; versions are validated; nested JSON calls do not disturb each other |
| Time values | `src/time.cpp`, `src/otio_time.h`, `R/time.R` | none | conversions, compare, arithmetic | malformed values are refused at the boundary; what is read can be written back |
| Fields, errors | `src/fields.cpp`, `src/otio_error.h` | plain values | get, set | - |
| Generated glue | `src/RcppExports.cpp`, `R/RcppExports.R` | - | - | - |

How they interact.  Every R function is one `.Call`.  `otio_get` turns a
handle into an object, the OTIO library does the work, `otio_xptr` puts fresh
handles on what is returned.  The components share the object graph: a child
inserted by `composition.cpp` may have been created by `constructors.cpp`,
referred to from `metadata.cpp`, be a clip with references from `media.cpp`, and
be reached through a handle from `timeline.cpp`.  Calls that return lists
allocate once per element, so finalizers run in their middle; R-level
finalizers (`reg.finalizer`) run there too and may call the package again.
Registered schema functions are R callbacks that OTIO calls in the middle of
reading or writing JSON, and they may read and write JSON themselves.

Metadata and registered functions are the two places where R values cross into C++ and stay
there, so conversion (what comes back is what went in) and protection from the
collector matter as much as the counts of the objects.

## 2. Plan

1. `Lifetimes` (abstract) and `OtioObjects` (detailed): objects, handles, trees,
   metadata that holds objects, lists, collection.  The hard core of the package;
   refinement and proofs.  Done.
2. The machines around it: `AnyValues` and `Metadata` (conversion), `SchemaRegistry`
   (callbacks), `ClassChains` (dispatch).  Done, with proofs.
3. `TimeValues`: what `otio_time.h` admits, refuses and gives back.  `ClipMedia`: the keys
   of a clip's media map, and the ranges of references.  Done, `ClipMedia` with proofs.
4. JSON calls inside registry hooks, to any depth, with liveness and proofs (in `SchemaRegistry`);
   clones and new tracks as operations of their own (in `OtioObjects`).  Done.
5. What these promise, as specifications that they implement: `NamedValues` (metadata as R code
   sees it), `NestedCalls` (the registry without nested calls).  Done, with proofs.
6. Not done: hooks that edit the tree that is being written, composed with `OtioObjects`;
   clones of more than one level.

## 3. Modules

| Module | Models | Extends |
|---|---|---|
| `Lifetimes` | what the package promises about lifetimes, without counts | - |
| `OtioObjects` | handles, objects, members, metadata entries, lists, finalizers | community modules |
| `MCOtioObjects` | the symmetry set for TLC | `OtioObjects` |
| `MemberLemmas` | facts about sequences of members, used by the proofs | TLAPS |
| `OtioObjectsProofs` | the inductive invariant, what follows from it, and that `OtioObjects` implements `Lifetimes` | `OtioObjects`, `MemberLemmas` |
| `TimeValues` | times and ranges at the boundary | community modules |
| `TimeLemmas` | times and ranges that are read and written back | `TimeValues` |
| `AnyValues` | R value <-> `std::any`, transforms at the boundary | `TimeValues` |
| `NamedValues` | what R code may take metadata for: a list with names, without conversions | - |
| `Metadata` | the metadata of one object, and R's copies of it | `AnyValues` |
| `MCMetadata` | the values and dictionaries TLC uses | `Metadata` |
| `Recursion` | functions that recur into the values inside a value exist, and induction on such values | TLAPS |
| `MetadataProofs` | its properties for all values, dictionaries and keys | `Metadata`, `Recursion`, `MemberLemmas`, `TimeLemmas` |
| `SchemaRegistry` | hooks, their protection, JSON calls that run them | community modules |
| `NestedCalls` | the registry as the outer calls see it, implemented by the registry itself | `SchemaRegistry` |
| `MCSchemaRegistry` | two schemas, requests, trees, documents | `NestedCalls` |
| `SchemaRegistryProofs` | its safety properties for all schemas, functions, trees and depths, and the refinement | `NestedCalls` |
| `ClipMedia` | a clip's media map, active key and ranges | `TimeValues` |
| `MCClipMedia` | the lists, ranges and JSON clips TLC uses | `ClipMedia` |
| `ClipMediaProofs` | its properties for all keys, references and documents | `ClipMedia`, `MemberLemmas`, `TimeLemmas` |
| `ClassChains` | S3 classes, R dispatch, C++ casts | community modules |
| `ClassChainsProofs` | that the three agree | `ClassChains`, `MemberLemmas` |

### OtioObjects

| Variable | In the code |
|---|---|
| `life` | whether the C++ object exists; `freed` objects never come back |
| `refs` | `SerializableObject::_managed_ref_count` |
| `slots` | the member Retainers: a composition's or collection's children, a timeline's Stack, a clip's media references |
| `meta` | the Retainers stored in the object's `AnyDictionary` |
| `parent` | `Composable::_parent`, a raw pointer |
| `handle`, `rstate` | the `XPtr<OtioRetainer>` external pointers: what each retains, and whether R still refers to it |
| `call` | the C++ frame of a call that builds a list: its argument, the raw pointers still to be wrapped, the Retainers the frame holds, the handles made so far |

Every exported function that makes, returns, stores or drops an object is one
action; calls that differ only in plain arguments share one (`New` is the
constructors of objects without members, `EditChildren` the ten edit algorithms,
`NewTrack` the trimmed and the flattened track).
A call is one atomic step, for R has one thread, with one exception: a call that
returns a list allocates between elements, and `BeginChildren`, `BeginTracks`,
`BeginMetadata` and `BeginFindClips` only open its frame.  `WrapNext` is one turn of
the loop in `otio_xptr_list`, `EndCall` its end.  Between them the collector may
run `Finalize`, and with `Reentrant` R code may make any call at all.  `Destroy` is the
library's destructor; `Settled` lets nothing else happen until the cascade of
destructors is over, as the dropped reference runs it before it returns.
`Restart` ends the R process, cleanly or not, and brings handles back from a saved
workspace as null pointers.

What a call refuses is a guard: `otio_get`'s four `stop`s are `Arg`, and `Args` for each
element of a list, the library's CHILD_ALREADY_PARENTED is `MayAdopt`.  `otio_get` comes
before anything is changed, and that the library refuses before it changes anything is
assumed (section 7), so a refused call has no step.

### TimeValues, AnyValues and Metadata

`TimeValues` has the conversions of `otio_time.h` under their names: `Is...` says when one does
not stop, `as_...` what it gives.  An R value is a tuple tagged by its type, and a time
in R is a vector or a list that R code may have made up.  `RToAny` and `Stops` are `r_to_any` with its helpers, `AnyToR` is
`any_to_r`.  Each is a recursive function on the values there are (`RValues`, `Anys`), whose body
(`OneToAny`, `OneStops`, `OneToR`) says what becomes of one value when the results for those directly
`Inside` it are known.  `TimeTransform`'s scale and rate go through `Rcpp::as<double>`, which takes integers
and logicals too, so its conversion is in `AnyValues`, where there are such values.

`Metadata` keeps the dictionary of one object and one list
that R code read earlier.  A write is not one step: `BeginSet` opens the frame of
`as_any_dictionary`, each `TakeElement` converts the next element of the list, with all that is nested in
it, into the local dictionary or stops the call, and `EndSet` moves the local dictionary into the
object.  `Edit` is `metadata(x)$key <- value` as R executes it: read
everything, change the list, write everything back.  `AsDict` and `Refused` say of a whole list what
it is converted to and whether that stops; the steps do not use them, they are what `AllOrNothing`
compares the loop with.  `View` reads `dict` and `copy` as the
two variables of `NamedValues`: each name has the value that R code would read.

### ClipMedia

`refs`, `active` and `ranges` are the clip's map, its active key and the available range of
each reference; `kept` is what R code read earlier and may restore.  `frame` is the C++ frame of
`cpp_clip_set_media_references`: `BeginSet` has its checks on the key and on whether there are names,
each `TakeEntry` puts one entry into the local map or refuses it (`EntryOk`), and `EndSet` hands the map to the
library, which has its own check (`ValidKey`).  `Load` brings a clip from JSON, where neither
the active key nor the entries nor the numbers are checked, so states appear that no
setter would make.  `Refuse` is every `stop`.

### SchemaRegistry

`hooks` is the library's `TypeRegistry`, `preserved` the functions given to
`R_PreserveObject`, `used` and `gone` what R code refers to and what the collector took,
`calls` the stack of JSON calls in progress, each a frame with the objects still to do, those
done, and its targets, and `ended` what the last one gave.  `CallHook` enters
an R function and `HookReturns` or `HookFails` leaves it; in between R code may
register, forget, collect, and begin JSON calls of its own (`to_json`, `from_json` push a frame).
An inner call that fails ends with the error in R: whether the hook then fails is its own choice.
`registry.R:11-12` asks of a hook not to raise an R error; the model has one fail the call like any other failure.  `to_json` has the checks
of `.as_schema_versions` and the conversion to integer in the order the code has them.

`NestedCalls` instantiates `SchemaRegistry` with a smaller `MaxDepth` and maps the stack to its
outermost frames.  A JSON call deeper than that changes none of them; what its hooks register, forget
and collect is what the hook of the innermost frame in sight does.

### ClassChains

`ChainTests` is the chain of `dynamic_cast`s, `Branch` the `inherits()` tests of an R
function, `otio_get` the cast of the C++ function behind the branch.  `Call` makes one
call of one function on any object, with any object as child.  Accessors go straight to one
C++ function and cast to the class they are documented for: there is nothing to compare, and they are left out.

## 4. What the runs check

| Run | Instance | Question |
|---|---|---|
| `trees` | 2 stacks, 1 track, 1 clip, 1 timeline, 3 handles, 1 member each | counts exact, links agree, nothing dangles or leaks, the promise is kept, through every child operation, edit, clone, listing, restart and collection |
| `collections` | 1 track, 1 clip, 1 media reference, 1 collection, 3 handles, 2 members each, positions 0, 1, 3 | the same for holders without back pointers, that hold things twice or themselves, and lists of two with finalizers between |
| `metadata` | 1 track, 2 clips, 3 handles, 2 objects with metadata | the same when only metadata keeps an object, and cycles go through it; the inductive invariant itself, which has `CountExact`, `TreeLinks` and `NoDangling` in it; objects out of reach are destroyed in the end and list-building calls end |
| `reentrant` | 1 stack, 1 track, 1 clip, 4 handles, 2 members each | R code inside list-building calls: the inductive invariant still holds, and what `find_clips` retains is there |
| `reentrant_raw` | the same with 3 handles | **violated**: what `children()` does not retain may be gone |
| `metadata_dict` | lists and values of every kind (`MCMetadata`), 2 keys, loaded dictionaries | an edit touches one key, a copy restores, an assignment converts all of its list or changes nothing, wherever it stops; all of it together looks like a plain list with names |
| `metadata_types` | as `metadata_dict` | **violated**: other keys' integers become doubles |
| `metadata_missing` | the same | **violated**: missing values do not come back missing |
| `registry` | 2 schemas, versions to 3, 2 functions, calls 2 deep | hooks stay alive; what is written has the version that was asked for, or the call fails; every call ends; an outer call takes only steps that it could take if its hooks made no calls |
| `registry_na` | as `registry` | **violated**: a version can reach the library as NA |
| `clip_media` | 2 keys, 2 references of R's making and 1 of the library's, lists of up to 2 | the clip has what a list said, or what it had; copies restore; the active key is a key; ranges move between references |
| `chains` | the 23 classes of the library, a TimeRange, a list of tracks | the S3 classes of an object are its C++ ancestry; a call reaches OTIO exactly when the documentation says that it may |

Each property has a mutant in PROJECT.json: a plausible slip in the code (a Retainer
that is not taken or not deleted, a refused child or a null pointer that is accepted, an
entry that goes into the clip's own map before the rest was looked at, a callback that is not
preserved, targets that nested calls share, a test in the wrong order) that the run then reports.

### The properties

- `CountExact`: an object's count equals the handles, members, metadata entries
  and running calls that refer to it.  Everything about lifetimes rests on it.
- `TreeLinks`: `parent(x)` and `children(p)` agree, and no child is in a composition twice.
- `NoDangling`: nothing that persists refers to a destroyed object, and the null pointer of a restored
  handle never becomes a member or an entry.
- `RawLive`, `KeptRawLive`: nor does the rest of a list that is being built.
- `NothingLeaks`, `Reclaimed`: what no handle reaches is gone, at once and in the end.
  Cycles are excepted: OTIO counts references, and neither the package nor the
  library (by the model's assumption) checks for them.
- `KeepsPromise`: refinement of `Lifetimes`, where an object may go only when no chain of
  references from R leads to it.
- `CallsEnd` (`OtioObjects`, `SchemaRegistry`): a call that began comes to its end.
- `EditTouchesOneKey`, `CopyRestores`: see the comments in `Metadata`.
- `AllOrNothing`: the object keeps its dictionary while elements are converted one by one, and for good when
  one stops; a loop that ends gives what the whole list is converted to.
- `ActsAsAList`: refinement of `NamedValues`.  Every call converts the whole dictionary, and no
  conversion may be seen under a name that was not assigned.
- `HooksAlive`: what the library may call exists, and so does what is running.
- `WrittenAsAsked`, `OwnVersionsNeedNoHook`: JSON text has the versions asked for or the call fails,
  whatever the hooks did; `type_version_map()` asks for nothing.
- `InnerCallsUnseen`: refinement of the registry with fewer levels by the registry with more.  A call
  that took targets, a place in its tree or a result from one that a hook made would take a step no call can.
- `RefusedChangesNothing`: the clip is untouched while `set_media_references` takes its list apart and when any
  entry or the library refuses, and it refuses exactly the lists that are no map of references with the key.
- `AcceptedReadsBack`, `CopyRestores` (`ClipMedia`): what it took is read back entry for entry, and it takes
  back what `media_references` gave, except for clips from JSON that the setter would not have made.
- `ActiveStays`: no call of R code makes the active key dangle.
- `RangesFinite`, `RangesMove`: no number that is not finite gets into a reference through R,
  and that is the only reason why a range read from one is refused by another.
- `ChainIsAncestry`, `DocumentedCalls`: see `ClassChains`.

### Bounds

`OtioObjects` is bounded by its pools.  An object is created at most once, so a run
sees each object's whole life, while handles are reused without end.  The
instances have what the properties can tell apart: two compositions for a child
to move between and a third above them, two children for an order to exist, a
list of two for a finalizer to fall between two elements, one handle more than a
call's arguments so that something is garbage meanwhile, a cycle of one and of
two.  Sizes beyond that are the theorems' business.  `Positions` has an index
inside, before and behind the holder.  `NewTree` makes trees of one level.

`Metadata` runs on one value of every kind (`MCMetadata`), including empty and
one-element containers, duplicate and missing names, and values that stop at the first or
the second element, at a handle that is null or in a list without names; `Mantissa` = 4 puts integers that no double has within reach.  `RValues` and
`Anys` are those and all that they convert to, back and forth until nothing new comes.
`SchemaRegistry` has a schema with and one without hooks of the library's own, and
`IntMax` = 3 as both the highest version and the largest R integer; `MaxDepth` = 2 lets a hook
of one call begin another, and a hook of that one run, which is where frames could
share something; `Outermost` = 1 looks at the outer one alone.  `ClipMedia` has the default key and one more, so that the active key may be
either or be lost, lists with no, missing, empty and equal names,
and a clip from JSON with an empty key; `NaText` is the key that a missing one becomes where C++ takes a `std::string`.

### Fairness

`metadata` and `registry` use it.  `WrapNext` and `EndCall` are weakly fair because a call that runs
goes on running: nothing preempts it.  `Destroy` is, because the library deletes at
once.  `Finalize` is fair for each handle that is garbage: R collects when it
allocates, so this is the assumption that the session goes on allocating, and
`Reclaimed` says nothing about one that stops.  Nothing makes R code drop a handle
or call anything.  In `SchemaRegistry` the library's own steps are weakly fair for the same
reason.  `HookEnds` is strongly fair at each depth: a hook may make any number of JSON
calls, each of which takes its return out of reach for a while, but its R function comes to an
end, by returning or failing; a hook that loops for ever is R code's own affair.

### Deadlock

Every run checks it.  `Restart` and the calls without preconditions are always possible.

## 5. What is proved

TLAPS checks these for every value of the constants that meets the named assumptions of their modules,
which TLC checks on every instance: those on `OtioObjects` for every
size of the pools, any `MaxChildren`, `Positions` and `Annotated`, from `PoolAssumption`
(finite pools, disjoint kinds, a null that is no object) alone.

| Theorem | States |
|---|---|
| `InvariantHolds` | `Spec => []IInv` |
| `TypeCorrect`, `CountsAreExact`, `LinksAgree`, `NothingDangles` | its conjuncts |
| `RetainedListsSafe` | `KeptRawLive`, with or without re-entrancy |
| `RawListsSafe` | `RawLive` when no R code runs inside a call |
| `PromiseKept` | `Spec => KeepsPromise`: reference counting implements `Lifetimes` |
| `NothingIsLeaked` | `NothingLeaks` |
| `RegistryTyped`, `NoHookIsCollected` | `TypeOK` and `HooksAlive`, from `RegistryAssumption` alone |
| `WrittenIsWhatWasAsked`, `OwnVersionsAccepted` | `WrittenAsAsked` and `OwnVersionsNeedNoHook`, likewise |
| `RangesStayFinite`, `ListsReadBack` | `RangesFinite`, `AcceptedReadsBack`, from `ClipAssumption` and `DocumentAssumption` |
| `ActiveKeyStays`, `RefusalChangesNothing` | `ActiveStays`, `RefusedChangesNothing`, likewise |
| `CopiesRestore`, `RangesAreMoved` | `CopyRestores` and `RangesMove` of `ClipMedia`, likewise |
| `OuterCallsUndisturbed` | `Spec => InnerCallsUnseen`, from `RegistryAssumption` and `OutermostAssumption`: for every pair of depths |
| `EditsTouchOneKey`, `CopiesRestore`, `AssignsAllOrNothing` | `EditTouchesOneKey`, `CopyRestores` and `AllOrNothing` of `Metadata`, from the assumptions below |
| `MetadataIsAList` | `Spec => ActsAsAList`: `Metadata` implements `NamedValues`, likewise |
| `ChainsAreAncestries`, `CallsAsDocumented` | `ChainIsAncestry` and `DocumentedCalls`, without assumptions |

`CountExact` is not inductive.  When a count drops to zero and the object is destroyed, it
must follow that nothing refers to it (`ZeroMeansUnreferenced`), and what the object
held must lose exactly one reference per entry; so dead objects must hold nothing
(`Emptied`), each back pointer must have its child entry (`TreeLinks`, or `Destroy` would
leave a dangling parent), entries must be finitely many for the counts to be numbers
(`FiniteUses`), and the pointers of a running call must be held by somebody
(`Anchored`: by the call's own Retainers, or by the argument or one of its members,
which the protected argument keeps).  `IInv` is the conjunction.

The proof has one lemma per action.  Most actions end in one of four updates:
`Build` (a new object), `Store` (an object's entries are replaced), a handle that
gains or loses its object, a call's frame that opens or closes.  `BuildStep`, `StoreStep`,
`FetchStep`, `FinalizeStep`, ... prove the invariant for the updates once, over
`OccurrencesChange`, which says how the set of places that refer to an object changes
when one object's sequence is replaced; the lemmas of the actions only show that
their arguments meet the premises.  `MemberLemmas` has what insertion, replacement
and removal do to a sequence's range and injectivity.  `PromiseKept` maps every
step to `Work`, a `Destroy` to `Reclaim` (the set of live objects other than the destroyed one is
closed, because its count was zero) and `Restart` to `ProcessEnd`.

For the registry the invariant has two parts.  `Guarded`: what is registered or running is preserved
(or the library's own), and what is gone was neither preserved nor used.  `GoodFrames`, of
every frame on the stack: its targets are those its request gives; an object
of a write that is still to be done is at the library's version, or on its way down and not below its
target (`OnTheWay`); one that is done has the version asked for.  An object is done only
when no downgrade is due, and one on its way for which none is due has arrived.  That frames are
values of their own is what keeps a nested call from disturbing the outer one.

`OuterCallsUndisturbed` says that outright.  A step on a stack in sight is the same step of the
instance; a step further in is one of its hook's own (`SharedMaps`: register, forget, collect) or
none, as it changes frames out of sight only (`WorkMaps`).  A call that begins out of sight, or ends there,
leaves what is in sight alone (`ToJsonMaps`, `FromJsonMaps`, `LeaveMaps`).  What has to be known
of the stack is `InHooks`: every call with another inside is in an R function, so that the instance's
innermost call is in one too when it registers or collects something.

`NothingIsLeaked` needs no reachability in the invariant.  `Reach` is the least set that has what R refers
to and what its members hold; so it has to be shown that any closed set of that kind
has every live object.  An object outside has a positive count (`Settled`), hence by `CountExact` somebody refers
to it (`CountedIsReferred`), and neither R nor the closed set does: what is outside is held from outside, which is
a cycle (`OutsideIsCyclic`).

For the clip the invariant is `MapsOk` and `RangesOk` (maps are finite and have keys and references, ranges are
those of C++), `RangesFinite`, and the history of `set_media_references`.  `FrameOk`, of a running one: the local map
is the map of the entries taken so far (`MapOf`), whose names differ from each other and are not missing, and these were
references.  An entry that is taken keeps that (`NextEntry`), one that is refused is a reason for the whole list to be no map
(`BadEntry`), and when all are taken the local map is that of the list (`WholeMap`): `RefusedChangesNothing` is this and
that no step but the last writes the clip.  `TakenKept`, of the last accepted one: the map is still
`AsMap` of its list and the names are those of a map.  Injective names make `AsMap` and
`MediaList` inverse to each other, which is `AcceptedReadsBack` and, for a list that was read, `CopyRestores`:
of its names it remains that one may be empty or the active key may be none of them, as only JSON
makes them.  `RangesFinite` follows from `rt_field` through every action that sets a range, and `RangesMove`
from `TimeLemmas`: `as_time_range` takes what `wrap_time_range` gives, if it is finite, and gives the same back.
`DocumentAssumption` says that a JSON clip is a finite map whose ranges have two times each.

`Metadata` needs induction on values.  `Recursion` proves it for values that are nested to finite depths,
and that functions like `RToAny` and `AnyToR` exist and obey their bodies; `MetadataProofs` takes it by INSTANCE,
once for each function.  From the rules follows, case by case, `EverythingReturns`: a `std::any` that is read
and written back is refused only if a time in it is not finite, and otherwise reads again as the same R
value and says the same (`Returns`).  Rounding an int64 twice gives the same double (`ToDoubleTwice`);
a dictionary's list has distinct names, so nothing is lost when it becomes a dictionary again (`DistinctEntries`);
a one-element list stays a list.  What R values give is always finite (`WrittenIsFinite`).  The invariant adds the history: `DictOk`, a
dictionary with a time that is not finite is still the one from JSON, and `CopyOk`, a copy was read from a dictionary, and
what of it is refused came from JSON; and `FrameOk`, of a running assignment: its list is the one that the call requested
(`Requested`), no element so far stopped, and the local dictionary has for each name the conversion of the last element taken
under it (`HasFirst`).  One more element keeps that (`OneMore`), and after the last it is `AsDict` of the list (`AllOfThem`):
hence `AssignsAllOrNothing`, and every other theorem sees an assignment as its `Outcome`.  `EditedList` is R's `$<-`: the names stay distinct, and every other element is as it was read.
`MetadataIsAList` rests on two lemmas about what R code reads: `ReadSeen`, what was read and is written back
reads the same, and `EditSeen`, after an edit the other names read as before and the assigned one as its value does.

For the class chains nothing has to be known of the history but that R code holds an object of one of the classes; the work
is in the tables.  `Place` numbers the tests, and `BasesLater` finds each class tested before its base.  A test gives its
class and what the test of the base gives (`TestsNest`), which is how the C++ ancestry is made too (`AncestryRule`), so the
two are equal (`TestIsAncestry`), and no base's test comes first (`FirstTestIsOwn`).  `Inherited`: the S3
classes are those that a cast succeeds for, except those of an unknown schema.  So the branch an R function takes is
one whose cast succeeds, if there is any (`BranchCasts`), and the branches are the documented classes (`BranchesDocumented`).
No object is both a composition and a collection (`HoldersDiffer`), so a child is cast to the type its holder wants.

The assumptions: `NestingAssumption`, no value is inside itself; `ValuesAssumption`, `RValues` and `Anys` are sets of
well-formed values that have what their members convert to, with no C++ `int` (which neither JSON nor R makes) and no string that is
the missing one; `InputsAssumption`, lists, keys and dictionaries are made of them.  They name the sets that
the conversions are functions on, and of what the conversions give they say only that it is in these sets.

Only model-checked: liveness (`Reclaimed`, `CallsEnd`), which is out of the provers' reach, and the properties that are
violated.  Every other property of a run is a theorem.

## 6. Where code and documents disagree

- `reentrant_raw`: an R-level finalizer that removes a child while `children()` is building
  its list leaves a raw pointer to a destroyed object (`otio_xptr.h:57`); the comment
  at `otio_xptr.h:14` promises otherwise.  `find_clips` shows the remedy: it
  holds Retainers until the list is complete.
- `metadata_types`: setting one key turns integers under the others into doubles
  (`metadata.cpp`, against `otio_metadata.h:6`).
- `metadata_missing`: NA is stored as FALSE, as the smallest integer, as "NA".
- `registry_na`: 3e9 passes the check for NA and becomes NA afterwards (`registry.R:29`).

Not a disagreement, but one-sided: `rt_field` refuses NaN and infinity, `wrap_rational_time` does not, and
the library's JSON reader accepts them.  A time of that kind can be read and not be written, so
`metadata(x)$key <- value` is refused for every key of a dictionary that has one
(the exceptions in both `CopyRestores`).  A TimeTransform's `scale` and `rate` are not checked at all.

## 7. What is assumed of the library, and what is not modelled

OTIO is a separate library that the package is built against (DESCRIPTION,
SystemRequirements), so it is modelled from how the package uses it; these definitions are marked external in PROJECT.json:

- a new object has count 0 and destroys itself when a Retainer takes the count back to 0;
- a composition refuses a child that has a parent, and `set_children` one that occurs twice, before
  it lets any of the old children go (nothing in this repository shows it); no
  call checks for cycles (on a cyclic tree the real `find_clips` would not return);
- an index outside the holder goes to some place inside it;
- `find_clips` returns Retainers; what a collection finds twice is listed once here;
- an empty media map is refused; a clip without media exists only where `Media` is empty;
- the first function registered for a schema and version stays; an object newer than the library's
  schema is refused; upgrades run in version order (`registry.R:36` says in the order of registration; no property
  depends on it); the library has hooks of its own for some schemas;
- OTIO's JSON reader makes every integer an int64, and accepts NaN, infinity, a clip whose
  active key is none of its map's and one with a null reference;
- `media_reference(x) <- r` sets the entry of the active key, and makes a MissingReference for NULL.

Left out:

- the names of atomic vectors in metadata, and a time or a value of an unsupported type as the
  whole of an object's metadata;
- R code that runs inside `as_any_dictionary` or `cpp_clip_set_media_references`: their loops are steps, but no
  finalizer that calls the package comes between (`OtioObjects` has those, for the calls that build lists);
- hooks that edit the tree that is being written (they would need the registry and the object
  graph in one model, with every edit possible at every object of a write: what the library makes
  of it is not in this repository);
- trees of more than one level made at once by `from_json_string` and `clone` (deeper ones
  are built by inserting);
- which tracks are video and which audio (any subset);
- arithmetic, comparison and timecodes (`time.cpp`): each converts its arguments with `TimeValues`'
  operators, calls the library's floating point and converts back;
- the values of item ranges, flags and plain fields, which the library stores or computes, and error texts;
- `RcppExports`, which is generated; build files.
