--------------------------- MODULE SchemaRegistry ---------------------------
(***************************************************************************)
(* R functions as schema upgrade and downgrade hooks: src/src/registry.cpp,*)
(* src/R/registry.R, and the to_json and from_json calls of                *)
(* src/src/serializable.cpp that run them.                                 *)
(*                                                                         *)
(* OTIO's registry is global to the process and forgets nothing; the R     *)
(* functions in it must be kept from the garbage collector.  While a hook  *)
(* runs, so does R code: it may register further hooks, forget functions,  *)
(* collect garbage, read and write JSON itself, and it may fail.  Calls    *)
(* are therefore a stack.  Of a schema dictionary only the version matters.*)
(***************************************************************************)
EXTENDS Integers, SequencesExt

CONSTANTS
    Schemas,    \* the schemas the library knows
    Unknown,    \* a schema name that it does not know
    NoName,     \* a missing, NA or empty name
    Functions,  \* R functions
    NoFunction, \* no entry in the registry
    Own,        \* the library's own hooks, which are no R functions
    Evolved,    \* the schemas that have them, at their current version
    Current,    \* schema -> its version in the library
    IntMax,     \* the largest R integer
    NotWhole,   \* a number with a fraction, or no number at all
    NaNumber,   \* NA
    Slots,      \* BOUND: the schemas and versions that R code registers for
    Requests,   \* BOUND: the target_schema_versions that R code passes
    Trees,      \* BOUND: the schemas of the objects of a tree, in order
    Documents,  \* BOUND: the schemas and versions of the objects in a JSON text
    MaxDepth    \* BOUND: JSON calls inside hooks of JSON calls ...

Versions  == 1..IntMax
NaInteger == -(IntMax + 1)
Hooks     == {"upgrade", "downgrade"}
Stored    == [schema : Schemas \cup {Unknown}, version : Versions]
Asked     == [name : Schemas \cup {Unknown, NoName},
              version : Int \cup {NotWhole, NaNumber}]

ASSUME RegistryAssumption ==
    /\ Unknown \notin Schemas
    /\ NoName \notin Schemas
    /\ {NoFunction, Own} \cap Functions = {}
    /\ NoFunction # Own
    /\ IntMax \in Nat
    /\ Current \in [Schemas -> Versions]
    /\ Slots \subseteq (Schemas \cup {Unknown}) \X Versions
    /\ Requests \subseteq Seq(Asked)
    /\ Trees \subseteq Seq(Schemas)
    /\ Documents \subseteq Seq(Stored)
    /\ MaxDepth \in Nat

VARIABLES
    hooks,      \* hook, schema and version -> the registered function
    preserved,  \* the functions given to R_PreserveObject
    used,       \* the functions that R code still refers to
    gone,       \* the functions that the collector has taken
    calls,      \* the JSON calls in progress, the innermost first
    ended       \* what the last call to end gave to R

vars == <<hooks, preserved, used, gone, calls, ended>>

(* A call in progress: the objects it has still to do and those it has     *)
(* done, each with its schema and version; for a write what R code asked   *)
(* for and the targets made of it; the function that is running now and    *)
(* the version it leads to.                                                *)
Frame(kind, todo, asked, targets) ==
    [kind |-> kind, todo |-> todo, done |-> <<>>, asked |-> asked,
     targets |-> targets, hook |-> NoFunction, next |-> 0]

(* A call that ended: "written", "built" or "failed".                      *)
Result(kind, done, asked) == [kind |-> kind, done |-> done, asked |-> asked]
Nothing == Result("none", <<>>, <<>>)
Failed  == Result("failed", <<>>, <<>>)

Running == calls # <<>>
Top     == Head(calls)
Object  == Head(Top.todo)
RunningHooks == {calls[i].hook : i \in DOMAIN calls}

(* R code runs at top level and in an R function that is called as a hook. *)
RCodeRuns == Running => Top.hook \in Functions

Init ==
    /\ hooks = [h \in Hooks |-> [s \in Schemas |-> [v \in Versions |->
                  IF s \in Evolved /\ v = Current[s] THEN Own ELSE NoFunction]]]
    /\ preserved = {}
    /\ used = Functions
    /\ gone = {}
    /\ calls = <<>>
    /\ ended = Nothing

Registered == {hooks[h][s][v] : h \in Hooks, s \in Schemas, v \in Versions}
                \ {NoFunction}
HookFor(h, s, v) == IF s \in Schemas /\ v \in Versions
                      THEN hooks[h][s][v]
                      ELSE NoFunction
-----------------------------------------------------------------------------
(* Registration and the garbage collector *)

(* MUTANT: the callback only keeps the pointer. *)
UnpreservedCallback(f) == preserved' = preserved

(* make_dict_callback preserves its function before the library decides *)
make_dict_callback(f) == preserved' = preserved \cup {f}

(* TypeRegistry: the schema must be known and the slot must be free; the   *)
(* library decides, src/ only passes the answer on.                        *)
CanRegister(h, s, v) == s \in Schemas /\ hooks[h][s][v] = NoFunction

Register(h, s, v, f) ==
    /\ RCodeRuns
    /\ f \in used
    /\ make_dict_callback(f)
    /\ hooks' = IF CanRegister(h, s, v)
                  THEN [hooks EXCEPT ![h][s][v] = f]
                  ELSE hooks
    /\ UNCHANGED <<used, gone, calls, ended>>

Forget(f) ==
    /\ RCodeRuns
    /\ f \in used
    /\ used' = used \ {f}
    /\ UNCHANGED <<hooks, preserved, gone, calls, ended>>

(* The functions that are running are on R's stack. *)
Collect(f) ==
    /\ RCodeRuns
    /\ f \notin used \cup preserved \cup gone \cup RunningHooks
    /\ gone' = gone \cup {f}
    /\ UNCHANGED <<hooks, preserved, used, calls, ended>>
-----------------------------------------------------------------------------
(* target_schema_versions, from R code to the library.  A request is a     *)
(* sequence of names and numbers; <<>> stands for NULL.                    *)
Names(request) == [i \in DOMAIN request |-> request[i].name]

ValidVersions(request) ==
    /\ NoName \notin Range(Names(request))
    /\ IsInjective(Names(request))
    /\ \A i \in DOMAIN request : request[i].version \notin {NaNumber, NotWhole}

(* MUTANT: a number is handed on as it is. *)
AsDouble(n) == n

(* The checks come before as.integer, which makes an NA of what does not fit *)
AsInteger(n) == IF n \in -IntMax..IntMax THEN n ELSE NaInteger

as_schema_versions(request) ==
    [i \in DOMAIN request |->
       [request[i] EXCEPT !.version = AsInteger(request[i].version)]]

as_schema_version_map(versions) ==
    [n \in Range(Names(versions)) |->
       versions[CHOOSE i \in DOMAIN versions : versions[i].name = n].version]

(* MUTANT: the names are in another order than the versions. *)
TypeVersionMapMixed ==
    LET names == SetToSeq(Schemas) IN
    [i \in DOMAIN names |-> [name |-> names[i], version |-> Current[Reverse(names)[i]]]]

(* The library's schemas with their versions, in a form that R code can    *)
(* pass to to_json.                                                        *)
type_version_map ==
    LET names == SetToSeq(Schemas) IN
    [i \in DOMAIN names |-> [name |-> names[i], version |-> Current[names[i]]]]

Library == UNCHANGED <<hooks, preserved, used, gone>>

(* MUTANT: one target map for all calls, as a static variable would be. *)
EnterSharingTargets(frame) ==
    /\ Len(calls) < MaxDepth
    /\ calls' = <<frame>> \o [i \in DOMAIN calls |->
                                [calls[i] EXCEPT !.targets = frame.targets]]
    /\ ended' = Nothing

Enter(frame) == /\ Len(calls) < MaxDepth
                /\ calls' = <<frame>> \o calls
                /\ ended' = Nothing

Leave(result) == calls' = Tail(calls) /\ ended' = result

to_json(tree, request) ==
    /\ RCodeRuns
    /\ IF ValidVersions(request)
         THEN Enter(Frame("write",
                          [i \in DOMAIN tree |->
                             [schema |-> tree[i], version |-> Current[tree[i]]]],
                          request,
                          as_schema_version_map(as_schema_versions(request))))
         ELSE ended' = Failed /\ UNCHANGED calls
    /\ Library

from_json(document) ==
    /\ RCodeRuns
    /\ Enter(Frame("read", document, <<>>, <<>>))
    /\ Library
-----------------------------------------------------------------------------
(* The library at work: a downgrade per version down to the target, an     *)
(* upgrade per registered version up to the library's own.  That upgrades  *)
(* run by version is the library's order; registry.R:36 speaks of the      *)
(* order of registration, and no property depends on which it is.          *)
DowngradeDue == /\ Top.kind = "write"
                /\ Object.schema \in DOMAIN Top.targets
                /\ Object.version > Top.targets[Object.schema]

Upgrades == {v \in Versions : /\ Object.version < v
                              /\ v <= Current[Object.schema]
                              /\ hooks["upgrade"][Object.schema][v] # NoFunction}
UpgradeDue == /\ Top.kind = "read"
              /\ Object.schema \in Schemas
              /\ Upgrades # {}

TooNew == /\ Top.kind = "read"
          /\ Object.schema \in Schemas
          /\ Object.version > Current[Object.schema]

(* the version that the object has after its next hook *)
VersionAfter == IF Top.kind = "write"
                  THEN Object.version - 1
                  ELSE Min(Upgrades)

NextHook == IF Top.kind = "write"
              THEN HookFor("downgrade", Object.schema, Object.version)
              ELSE HookFor("upgrade", Object.schema, VersionAfter)

Waiting == Running /\ Top.hook = NoFunction

(* What the innermost call does leaves the others and their results alone. *)
Step(frame) == /\ calls' = <<frame>> \o Tail(calls)
               /\ UNCHANGED ended
               /\ Library

CallHook ==
    /\ Waiting /\ Top.todo # <<>>
    /\ DowngradeDue \/ UpgradeDue
    /\ NextHook # NoFunction
    /\ Step([Top EXCEPT !.hook = NextHook, !.next = VersionAfter])

(* The list that the hook returns replaces the dictionary. *)
HookReturns ==
    /\ Running /\ Top.hook # NoFunction
    /\ Step([Top EXCEPT !.hook = NoFunction, !.next = 0,
                        !.todo[1].version = Top.next])

Fail == Leave(Failed) /\ Library

(* An inner call of the hook fails, or what it returns is not a list or    *)
(* does not convert: the whole call fails.  An R error that the hook makes *)
(* itself ends here too; registry.R:11-12 asks that it make none.          *)
HookFails == Running /\ Top.hook \in Functions /\ Fail

(* No function for the next downgrade, or an object that is too new. *)
Refuse == /\ Waiting /\ Top.todo # <<>>
          /\ (DowngradeDue /\ NextHook = NoFunction) \/ TooNew
          /\ Fail

Done(object) == Step([Top EXCEPT !.todo = Tail(@), !.done = Append(@, object)])

(* MUTANT: the traversal does not advance. *)
NextObjectAgain ==
    /\ Waiting /\ Top.todo # <<>>
    /\ ~DowngradeDue /\ ~UpgradeDue /\ ~TooNew
    /\ Step(Top)

(* An object is built at the library's own version, hooks or no hooks; one *)
(* of an unknown schema keeps what it has.                                 *)
NextObject ==
    /\ Waiting /\ Top.todo # <<>>
    /\ ~DowngradeDue /\ ~UpgradeDue /\ ~TooNew
    /\ Done(IF Top.kind = "read" /\ Object.schema \in Schemas
              THEN [Object EXCEPT !.version = Current[Object.schema]]
              ELSE Object)

Finish ==
    /\ Waiting /\ Top.todo = <<>>
    /\ Leave(Result(IF Top.kind = "write" THEN "written" ELSE "built",
                    Top.done, Top.asked))
    /\ Library
-----------------------------------------------------------------------------
Next ==
    \/ \E h \in Hooks, slot \in Slots, f \in Functions :
          Register(h, slot[1], slot[2], f)
    \/ \E f \in Functions : Forget(f) \/ Collect(f)
    \/ \E t \in Trees, r \in Requests : to_json(t, r)
    \/ \E d \in Documents : from_json(d)
    \/ CallHook \/ HookReturns \/ HookFails
    \/ Refuse \/ NextObject \/ Finish

Spec == Init /\ [][Next]_vars

(* The library goes on with a call until it ends or enters a hook.  A hook *)
(* may make any number of calls of its own, but comes to its end.          *)
HookEnds(depth) == Len(calls) = depth /\ (HookReturns \/ HookFails)

Fairness == /\ WF_vars(CallHook \/ Refuse \/ NextObject \/ Finish)
            /\ \A d \in 1..MaxDepth : SF_vars(HookEnds(d))

FairSpec == Spec /\ Fairness
-----------------------------------------------------------------------------
(* The objects of a call: a write's have a schema that the library knows,  *)
(* and no version above the library's; the versions asked for have become  *)
(* R integers.                                                             *)
Objects == [schema : Schemas \cup {Unknown}, version : 0..IntMax]

FrameTyped(c) ==
    /\ c.kind \in {"write", "read"}
    /\ c.todo \in Seq(Objects) /\ c.done \in Seq(Objects)
    /\ Range(c.targets) \subseteq NaInteger..IntMax
    /\ c.hook \in Functions \cup {NoFunction, Own}
    /\ c.hook # NoFunction => c.todo # <<>> /\ c.next \in 0..IntMax

TypeOK ==
    /\ hooks \in [Hooks -> [Schemas -> [Versions -> Functions \cup {NoFunction, Own}]]]
    /\ preserved \subseteq Functions
    /\ used \subseteq Functions
    /\ gone \subseteq Functions
    /\ \A i \in DOMAIN calls : FrameTyped(calls[i])
    /\ ended.kind \in {"none", "written", "built", "failed"}
    /\ ended.done \in Seq(Objects)

(* The library never calls a function that the collector has taken:        *)
(* neither a registered one, whenever a call may come to it, nor one whose *)
(* body runs now, at whatever depth, and which may drop every reference to *)
(* itself.                                                                 *)
HooksAlive == gone \cap (Registered \cup RunningHooks) = {}

(* to_json gives what was asked for or an error: in a text that is written *)
(* every object has the version that R code asked for its schema, or the   *)
(* library's where that is lower or nothing was asked, whatever hooks were *)
(* registered, failed or wrote JSON of their own on the way.               *)
VersionsAsked(request, s) ==
    {request[i].version : i \in {k \in DOMAIN request : request[k].name = s}}

Wanted(request, s) == Min(VersionsAsked(request, s) \cup {Current[s]})

WrittenAsAsked ==
    ended.kind = "written" =>
      \A o \in Range(ended.done) : o.version = Wanted(ended.asked, o.schema)

(* What type_version_map() returns asks for nothing: a tree written with   *)
(* it as its targets meets no hook, whatever is registered, so no R code   *)
(* runs and nothing is refused (registry.cpp:55-69).                       *)
OwnVersionsNeedNoHook ==
    \A i \in DOMAIN calls :
      calls[i].kind = "write" /\ calls[i].asked = type_version_map =>
        calls[i].hook = NoFunction

(* A JSON call ends, with a result or an error, however deep hooks nest    *)
(* calls and whatever they register: no object is upgraded or downgraded   *)
(* for ever.                                                               *)
CallsEnd == Running ~> ~Running

(* test_registry.R:47: target_schema_versions is validated strictly before *)
(* it reaches OTIO, and the version that reaches it is not NA.             *)
NoNaTarget == \A i \in DOMAIN calls : NaInteger \notin Range(calls[i].targets)
=============================================================================
