------------------------ MODULE SchemaRegistryProofs ------------------------
(***************************************************************************)
(* For every set of schemas, of R functions, of requests, trees and        *)
(* documents, and any depth of calls inside hooks: a hook that the library *)
(* may call is never collected, the first registration of a hook is the    *)
(* one that stays, what is written has the versions that were asked for    *)
(* and what is read has the library's.                                     *)
(***************************************************************************)
EXTENDS NestedCalls, SequenceTheorems, TLAPS

HooksTyped == hooks \in [Hooks -> [Schemas -> [Versions -> Functions \cup {NoFunction, Own}]]]

(* Every R function that the library may call has been preserved, and the  *)
(* collector takes none that was.                                          *)
Guarded == /\ Registered \subseteq preserved \cup {Own}
           /\ preserved \subseteq Functions /\ used \subseteq Functions
           /\ gone \subseteq Functions \ (preserved \cup used)

Targets == UNION {[S -> NaInteger..IntMax] : S \in SUBSET (Schemas \cup {Unknown})}

Frames == [kind : {"write", "read"}, todo : Seq(Objects), done : Seq(Objects),
           asked : Seq(Asked), targets : Targets,
           hook : preserved \cup {NoFunction, Own}, next : 0..IntMax]

(* A write has the targets that its request gives; what it has to do is at *)
(* the library's version, or on the way from there to the target and not   *)
(* below it; what it has done has the version that was asked for.          *)
OnTheWay(c, s, v) == /\ s \in Schemas /\ v <= Current[s]
                     /\ v = Current[s] \/ (s \in DOMAIN c.targets /\ v >= c.targets[s])

Written(asked, o) == o.schema \in Schemas /\ o.version = Wanted(asked, o.schema)

WriteKept(c) ==
    /\ ValidVersions(c.asked)
    /\ c.targets = as_schema_version_map(as_schema_versions(c.asked))
    /\ \A i \in DOMAIN c.todo : OnTheWay(c, c.todo[i].schema, c.todo[i].version)
    /\ \A i \in DOMAIN c.done : Written(c.asked, c.done[i])
    /\ c.hook # NoFunction =>
         /\ c.todo # <<>>
         /\ c.todo[1].schema \in DOMAIN c.targets
         /\ c.todo[1].version > c.targets[c.todo[1].schema]
         /\ OnTheWay(c, c.todo[1].schema, c.next)

ReadKept(c) == c.hook # NoFunction => c.todo # <<>>

GoodFrames == {c \in Frames : IF c.kind = "write" THEN WriteKept(c) ELSE ReadKept(c)}

GoodResults ==
    {r \in [kind : {"none", "written", "built", "failed"}, done : Seq(Objects),
            asked : Seq(Asked)] :
       r.kind = "written" => \A i \in DOMAIN r.done : Written(r.asked, r.done[i])}

(* The inductive invariant. *)
IInv == /\ HooksTyped /\ Guarded
        /\ calls \in Seq(GoodFrames)
        /\ ended \in GoodResults
-----------------------------------------------------------------------------
(* The stack of calls. *)

LEMMA Pushed ==
    ASSUME NEW S, NEW s \in Seq(S), NEW x \in S
    PROVE  <<x>> \o s \in Seq(S)
  <1>1. <<x>> \in Seq(S)
    OBVIOUS
  <1>2. QED
    BY <1>1, ConcatProperties

LEMMA Popped ==
    ASSUME NEW S, NEW s \in Seq(S), s # <<>>
    PROVE  /\ Head(s) \in S
           /\ Head(s) = s[1]
           /\ Tail(s) \in Seq(S)
  BY HeadTailProperties

LEMMA Larger ==
    ASSUME NEW S, NEW T, S \subseteq T, NEW s \in Seq(S)
    PROVE  s \in Seq(T)
  OBVIOUS

(* A registration adds no function but its own.                            *)
LEMMA RegisterFills ==
    ASSUME NEW h \in Hooks, NEW s, NEW v \in Versions, NEW f \in Functions,
           HooksTyped, CanRegister(h, s, v), Register(h, s, v, f)
    PROVE  HooksTyped' /\ Registered' \subseteq Registered \cup {f}
  <1>1. s \in Schemas /\ hooks' = [hooks EXCEPT ![h][s][v] = f]
    BY DEF CanRegister, Register
  <1>2. HooksTyped'
    BY <1>1 DEF HooksTyped
  <1>3. \A g \in Hooks, t \in Schemas, w \in Versions :
           hooks'[g][t][w] = IF g = h /\ t = s /\ w = v THEN f ELSE hooks[g][t][w]
    BY <1>1 DEF HooksTyped
  <1>4. Registered' \subseteq Registered \cup {f}
    <2> SUFFICES ASSUME NEW x \in Registered' PROVE x \in Registered \cup {f}
      OBVIOUS
    <2>1. PICK g \in Hooks, t \in Schemas, w \in Versions :
             x = hooks'[g][t][w] /\ x # NoFunction
      BY DEF Registered
    <2>2. CASE x = f
      BY <2>2
    <2>3. CASE x = hooks[g][t][w]
      BY <2>1, <2>3 DEF Registered
    <2>4. QED
      BY <1>3, <2>1, <2>2, <2>3
  <1>5. QED
    BY <1>2, <1>4

(* Of two numbers the least. *)
LEMMA MinOfTwo ==
    ASSUME NEW a \in Int, NEW b \in Int
    PROVE  /\ a <= b => Min({a} \cup {b}) = a
           /\ b <= a => Min({a} \cup {b}) = b
  <1> DEFINE S == {a} \cup {b}
  <1>1. ASSUME NEW m \in S, \A y \in S : m <= y
        PROVE  Min(S) = m
    <2>1. Min(S) \in S /\ \A y \in S : Min(S) <= y
      BY <1>1 DEF Min
    <2>2. QED
      BY <1>1, <2>1
  <1>2. ASSUME a <= b PROVE Min(S) = a
    BY <1>1, <1>2
  <1>3. ASSUME b <= a PROVE Min(S) = b
    BY <1>1, <1>3
  <1>4. QED
    BY <1>2, <1>3

(* What reaches the library of a request that passed the checks: for every *)
(* name the number that was asked for it, or NA, which is below all others.*)
LEMMA TargetsOfRequest ==
    ASSUME NEW request \in Seq(Asked), ValidVersions(request)
    PROVE  LET T == as_schema_version_map(as_schema_versions(request)) IN
           /\ T \in Targets
           /\ DOMAIN T = {request[i].name : i \in DOMAIN request}
           /\ \A i \in DOMAIN request :
                /\ request[i].version \in Int
                /\ T[request[i].name] = AsInteger(request[i].version)
                /\ VersionsAsked(request, request[i].name) = {request[i].version}
  <1> DEFINE versions == as_schema_versions(request)
             T == as_schema_version_map(versions)
  <1>1. \A i \in DOMAIN request :
           /\ request[i] \in Asked
           /\ request[i].version \in Int
           /\ request[i].name \in Schemas \cup {Unknown}
    <2> TAKE i \in DOMAIN request
    <2>1. request[i] \in Asked
      OBVIOUS
    <2>2. request[i].version \in Int
      BY <2>1 DEF Asked, ValidVersions
    <2>3. request[i].name \in Range(Names(request))
      BY DEF Range, Names
    <2>4. request[i].name # NoName
      BY <2>3 DEF ValidVersions
    <2>5. QED
      BY <2>1, <2>2, <2>4 DEF Asked
  <1>2. \A i, j \in DOMAIN request : request[i].name = request[j].name => i = j
    BY DEF ValidVersions, Names, IsInjective
  <1>3. /\ DOMAIN versions = DOMAIN request
        /\ \A i \in DOMAIN request : /\ versions[i].name = request[i].name
                                     /\ versions[i].version = AsInteger(request[i].version)
    BY <1>1 DEF as_schema_versions, Asked
  <1>4. DOMAIN T = {request[i].name : i \in DOMAIN request}
    BY <1>3 DEF as_schema_version_map, Names, Range
  <1>5. ASSUME NEW i \in DOMAIN request
        PROVE  /\ T[request[i].name] = AsInteger(request[i].version)
               /\ VersionsAsked(request, request[i].name) = {request[i].version}
    <2>1. (CHOOSE k \in DOMAIN versions : versions[k].name = request[i].name) = i
      BY <1>2, <1>3
    <2>2. request[i].name \in Range(Names(versions))
      BY <1>3 DEF Names, Range
    <2>3. T[request[i].name] = versions[i].version
      BY <2>1, <2>2 DEF as_schema_version_map
    <2>4. {k \in DOMAIN request : request[k].name = request[i].name} = {i}
      BY <1>2
    <2>5. QED
      BY <1>3, <2>3, <2>4 DEF VersionsAsked
  <1>6. \A n \in Int : AsInteger(n) \in NaInteger..IntMax
    BY RegistryAssumption DEF AsInteger, NaInteger
  <1>7. T \in Targets
    <2>1. \A n \in DOMAIN T : T[n] \in NaInteger..IntMax /\ n \in Schemas \cup {Unknown}
      BY <1>1, <1>4, <1>5, <1>6
    <2>2. T = [n \in DOMAIN T |-> T[n]]
      BY DEF as_schema_version_map
    <2>3. T \in [DOMAIN T -> NaInteger..IntMax]
      BY <2>1, <2>2
    <2>4. QED
      BY <2>1, <2>3 DEF Targets
  <1>8. QED
    BY <1>1, <1>4, <1>5, <1>7
-----------------------------------------------------------------------------
(* Calls begin, go on and end: what that leaves of the invariant to show.  *)

LEMMA StepGood ==
    ASSUME IInv, Running, NEW frame \in GoodFrames, Step(frame)
    PROVE  IInv'
  <1>1. calls' \in Seq(GoodFrames)
    BY Popped, Pushed DEF IInv, Running, Step
  <1>2. GoodFrames' = GoodFrames /\ Registered' = Registered /\ GoodResults' = GoodResults
    BY DEF Step, Library, GoodFrames, Frames, Registered, GoodResults
  <1>3. HooksTyped' /\ Guarded'
    BY <1>2 DEF IInv, HooksTyped, Guarded, Step, Library
  <1>4. ended' \in GoodResults
    BY DEF IInv, Step
  <1>5. QED
    BY <1>1, <1>2, <1>3, <1>4 DEF IInv

LEMMA EnterGood ==
    ASSUME IInv, NEW frame \in GoodFrames, Enter(frame), Library
    PROVE  IInv'
  <1>1. calls' \in Seq(GoodFrames)
    BY Pushed DEF IInv, Enter
  <1>2. GoodFrames' = GoodFrames /\ Registered' = Registered /\ GoodResults' = GoodResults
    BY DEF Library, GoodFrames, Frames, Registered, GoodResults
  <1>3. HooksTyped' /\ Guarded'
    BY <1>2 DEF IInv, HooksTyped, Guarded, Library
  <1>4. ended' \in GoodResults
    BY DEF Enter, Nothing, Result, GoodResults
  <1>5. QED
    BY <1>1, <1>2, <1>3, <1>4 DEF IInv

LEMMA LeaveGood ==
    ASSUME IInv, calls' \in {calls} \cup (IF Running THEN {Tail(calls)} ELSE {}),
           ended' \in GoodResults, Library
    PROVE  IInv'
  <1>1. calls' \in Seq(GoodFrames)
    BY Popped DEF IInv, Running
  <1>2. GoodFrames' = GoodFrames /\ Registered' = Registered /\ GoodResults' = GoodResults
    BY DEF Library, GoodFrames, Frames, Registered, GoodResults
  <1>3. HooksTyped' /\ Guarded'
    BY <1>2 DEF IInv, HooksTyped, Guarded, Library
  <1>4. QED
    BY <1>1, <1>2, <1>3 DEF IInv

LEMMA FailedGood == Failed \in GoodResults
  BY DEF Failed, Result, GoodResults

LEMMA InitGood == Init => IInv
  <1> SUFFICES ASSUME Init PROVE IInv
    OBVIOUS
  <1>1. HooksTyped
    BY DEF Init, HooksTyped
  <1>2. Registered \subseteq {Own}
    BY DEF Init, Registered
  <1>3. Guarded
    BY <1>2 DEF Init, Guarded
  <1>4. calls \in Seq(GoodFrames)
    BY DEF Init
  <1>5. ended \in GoodResults
    BY DEF Init, Nothing, Result, GoodResults
  <1>6. QED
    BY <1>1, <1>3, <1>4, <1>5 DEF IInv

LEMMA RegisterGood ==
    ASSUME IInv, NEW h \in Hooks, NEW slot \in Slots, NEW f \in Functions,
           Register(h, slot[1], slot[2], f)
    PROVE  IInv'
  <1>1. /\ preserved' = preserved \cup {f}
        /\ UNCHANGED <<used, gone, calls, ended>>
        /\ f \in used
    BY DEF Register, make_dict_callback
  <1>2. slot[2] \in Versions
    BY RegistryAssumption
  <1>3. HooksTyped' /\ Registered' \subseteq Registered \cup {f}
    <2>1. CASE CanRegister(h, slot[1], slot[2])
      BY <1>2, <2>1, RegisterFills DEF IInv
    <2>2. CASE ~CanRegister(h, slot[1], slot[2])
      <3>1. hooks' = hooks
        BY <2>2 DEF Register
      <3>2. QED
        BY <3>1 DEF IInv, HooksTyped, Registered
    <2>3. QED
      BY <2>1, <2>2
  <1>4. Guarded'
    BY <1>1, <1>3 DEF IInv, Guarded
  <1>5. GoodFrames \subseteq GoodFrames'
    BY <1>1 DEF GoodFrames, Frames
  <1>6. calls' \in Seq(GoodFrames')
    BY <1>1, <1>5, Larger DEF IInv
  <1>7. QED
    BY <1>1, <1>3, <1>4, <1>6 DEF IInv, GoodResults

LEMMA CollectorGood ==
    ASSUME IInv, NEW f \in Functions, Forget(f) \/ Collect(f)
    PROVE  IInv'
  <1>1. /\ UNCHANGED <<hooks, preserved, calls, ended>>
        /\ used' \subseteq used
        /\ gone' \subseteq gone \cup (Functions \ (preserved \cup used))
    BY DEF Forget, Collect
  <1>2. Guarded'
    <2>1. Registered' = Registered
      BY <1>1 DEF Registered
    <2>2. \A g \in gone' : g \notin used'
      BY <1>1 DEF IInv, Guarded
    <2>3. QED
      BY <1>1, <2>1, <2>2 DEF IInv, Guarded
  <1>3. GoodFrames' = GoodFrames /\ GoodResults' = GoodResults
    BY <1>1 DEF GoodFrames, Frames, GoodResults
  <1>4. QED
    BY <1>1, <1>2, <1>3 DEF IInv, HooksTyped
-----------------------------------------------------------------------------
(* The steps of a call. *)

LEMMA VersionsInRange == \A s \in Schemas : Current[s] \in 1..IntMax /\ IntMax \in Nat
  BY RegistryAssumption DEF Versions

LEMMA TopGood ==
    ASSUME IInv, Running
    PROVE  /\ Top \in GoodFrames /\ Top \in Frames
           /\ Top.todo # <<>> => /\ Object \in Objects /\ Object = Top.todo[1]
                                 /\ Tail(Top.todo) \in Seq(Objects)
                                 /\ \A i \in DOMAIN Tail(Top.todo) :
                                      /\ i + 1 \in DOMAIN Top.todo
                                      /\ Tail(Top.todo)[i] = Top.todo[i + 1]
  <1>1. Top \in GoodFrames
    BY Popped DEF IInv, Running, Top
  <1>2. Top \in Frames
    BY <1>1 DEF GoodFrames
  <1>3. Top.todo \in Seq(Objects)
    BY <1>2 DEF Frames
  <1>4. QED
    BY <1>1, <1>2, <1>3, HeadTailProperties DEF Object

LEMMA WriteBegins ==
    ASSUME NEW tree \in Trees, NEW request \in Requests, ValidVersions(request)
    PROVE  Frame("write", [i \in DOMAIN tree |-> [schema |-> tree[i], version |-> Current[tree[i]]]],
                 request, as_schema_version_map(as_schema_versions(request))) \in GoodFrames
  <1> DEFINE todo == [i \in DOMAIN tree |-> [schema |-> tree[i], version |-> Current[tree[i]]]]
             T == as_schema_version_map(as_schema_versions(request))
             c == Frame("write", todo, request, T)
  <1>1. tree \in Seq(Schemas) /\ request \in Seq(Asked)
    BY RegistryAssumption
  <1>2. T \in Targets
    BY <1>1, TargetsOfRequest
  <1>3. \A i \in DOMAIN tree : tree[i] \in Schemas /\ Current[tree[i]] \in 1..IntMax
    BY <1>1, VersionsInRange
  <1>4. todo \in Seq(Objects)
    <2>1. \A i \in DOMAIN tree : todo[i] \in Objects
      BY <1>3, VersionsInRange DEF Objects
    <2>2. DOMAIN todo = 1..Len(tree) /\ Len(tree) \in Nat
      BY <1>1
    <2>3. QED
      BY <1>1, <2>1, <2>2
  <1> HIDE DEF T
  <1>5. c \in Frames
    BY <1>1, <1>2, <1>4, VersionsInRange, RegistryAssumption DEF Frame, Frames
  <1>6. c.kind = "write" /\ c.todo = todo /\ c.done = <<>> /\ c.asked = request
        /\ c.targets = T /\ c.hook = NoFunction
    BY DEF Frame
  <1>7. ASSUME NEW i \in DOMAIN todo
        PROVE  OnTheWay(c, todo[i].schema, todo[i].version)
    <2>1. /\ i \in DOMAIN tree /\ todo[i].schema = tree[i]
          /\ todo[i].version = Current[tree[i]]
      OBVIOUS
    <2>2. tree[i] \in Schemas /\ Current[tree[i]] \in Int
      BY <1>3, <2>1
    <2> HIDE DEF c, todo
    <2>3. todo[i].schema \in Schemas /\ todo[i].version = Current[todo[i].schema]
          /\ todo[i].version <= Current[todo[i].schema]
      BY <2>1, <2>2
    <2>4. QED
      BY <2>3 DEF OnTheWay
  <1> HIDE DEF c, todo
  <1>8. WriteKept(c)
    <2>1. DOMAIN c.done = {}
      BY <1>6
    <2>2. \A i \in DOMAIN c.todo : OnTheWay(c, c.todo[i].schema, c.todo[i].version)
      BY <1>6, <1>7
    <2>3. QED
      BY <1>6, <2>1, <2>2 DEF WriteKept, T
  <1>9. c \in GoodFrames
    BY <1>5, <1>6, <1>8 DEF GoodFrames
  <1>10. QED
    BY <1>9 DEF c, todo, T

LEMMA ToJsonGood ==
    ASSUME IInv, NEW tree \in Trees, NEW request \in Requests, to_json(tree, request)
    PROVE  IInv'
  <1>1. CASE ValidVersions(request)
    BY <1>1, WriteBegins, EnterGood DEF to_json
  <1>2. CASE ~ValidVersions(request)
    BY <1>2, LeaveGood, FailedGood DEF to_json
  <1>3. QED
    BY <1>1, <1>2

LEMMA FromJsonGood ==
    ASSUME IInv, NEW document \in Documents, from_json(document)
    PROVE  IInv'
  <1> DEFINE c == Frame("read", document, <<>>, <<>>)
  <1>1. Stored \subseteq Objects
    BY RegistryAssumption DEF Stored, Objects, Versions
  <1>2. document \in Seq(Objects)
    BY <1>1, Larger, RegistryAssumption
  <1>3. <<>> \in Targets
    <2>1. <<>> \in [{} -> NaInteger..IntMax]
      OBVIOUS
    <2>2. QED
      BY <2>1 DEF Targets
  <1>4. c \in Frames
    BY <1>2, <1>3, RegistryAssumption DEF Frame, Frames
  <1>5. c \in GoodFrames
    BY <1>4 DEF Frame, GoodFrames, ReadKept
  <1>6. QED
    BY <1>5, EnterGood DEF from_json

(* The function that a call is about to run is in the registry, under a    *)
(* version that the library can have.                                      *)
LEMMA CalledIsRegistered ==
    ASSUME NextHook # NoFunction
    PROVE  /\ NextHook \in Registered
           /\ Top.kind = "write" => Object.version \in Versions
           /\ Top.kind # "write" => VersionAfter \in Versions
  BY DEF NextHook, HookFor, Registered, Hooks

LEMMA CallHookGood ==
    ASSUME IInv, CallHook
    PROVE  IInv'
  <1> DEFINE c == [Top EXCEPT !.hook = NextHook, !.next = VersionAfter]
  <1>1. /\ Running /\ Top.todo # <<>> /\ NextHook # NoFunction
        /\ DowngradeDue \/ UpgradeDue
    BY DEF CallHook, Waiting
  <1>2. /\ Top \in GoodFrames /\ Top \in Frames
        /\ Object \in Objects /\ Object = Top.todo[1]
    BY <1>1, TopGood
  <1>3. /\ c.kind = Top.kind /\ c.todo = Top.todo /\ c.done = Top.done
        /\ c.asked = Top.asked /\ c.targets = Top.targets
        /\ c.hook = NextHook /\ c.next = VersionAfter
    BY <1>2 DEF Frames
  <1>4. NextHook \in preserved \cup {Own}
    BY <1>1, CalledIsRegistered DEF IInv, Guarded
  <1>5. Top.kind = "write" => VersionAfter = Object.version - 1
    BY DEF VersionAfter
  <1>6. VersionAfter \in 0..IntMax
    <2>1. CASE Top.kind = "write"
      BY <1>1, <1>5, <2>1, CalledIsRegistered, RegistryAssumption DEF Versions
    <2>2. CASE Top.kind # "write"
      BY <1>1, <2>2, CalledIsRegistered, RegistryAssumption DEF Versions
    <2>3. QED
      BY <2>1, <2>2
  <1>7. c \in Frames
    BY <1>2, <1>4, <1>6 DEF Frames
  <1>8. CASE Top.kind = "write"
    <2>1. WriteKept(Top)
      BY <1>2, <1>8 DEF GoodFrames
    <2>2. DowngradeDue
      BY <1>1, <1>8 DEF UpgradeDue
    <2>3. /\ Object.schema \in DOMAIN Top.targets
          /\ Object.version > Top.targets[Object.schema]
      BY <2>2 DEF DowngradeDue
    <2>4. Object.schema \in Schemas /\ Object.version <= Current[Object.schema]
      BY <1>1, <1>2, <2>1 DEF WriteKept, OnTheWay, Frames
    <2>5. Top.targets[Object.schema] \in Int
      BY <1>2, <2>3, RegistryAssumption DEF Frames, Targets, NaInteger
    <2>6. OnTheWay(c, Object.schema, VersionAfter)
      BY <1>2, <1>3, <1>5, <1>8, <2>3, <2>4, <2>5, VersionsInRange DEF OnTheWay, Objects
    <2>7. WriteKept(c)
      BY <1>1, <1>2, <1>3, <2>1, <2>3, <2>6 DEF WriteKept, OnTheWay
    <2>8. c \in GoodFrames
      BY <1>3, <1>7, <1>8, <2>7 DEF GoodFrames
    <2>9. QED
      BY <1>1, <2>8, StepGood DEF CallHook
  <1>9. CASE Top.kind # "write"
    <2>1. ReadKept(c)
      BY <1>1, <1>2, <1>3, <1>9 DEF GoodFrames, ReadKept
    <2>2. c \in GoodFrames
      BY <1>3, <1>7, <1>9, <2>1 DEF GoodFrames
    <2>3. QED
      BY <1>1, <2>2, StepGood DEF CallHook
  <1>10. QED
    BY <1>8, <1>9

LEMMA HookReturnsGood ==
    ASSUME IInv, HookReturns
    PROVE  IInv'
  <1> DEFINE todo == [Top.todo EXCEPT ![1].version = Top.next]
             c == [Top EXCEPT !.hook = NoFunction, !.next = 0, !.todo[1].version = Top.next]
  <1>1. Running /\ Top.hook # NoFunction /\ Step(c)
    BY DEF HookReturns
  <1>2. /\ Top \in GoodFrames /\ Top \in Frames
        /\ Top.todo \in Seq(Objects) /\ Top.next \in 0..IntMax
    BY <1>1, TopGood DEF Frames
  <1>3. Top.todo # <<>>
    BY <1>1, <1>2 DEF GoodFrames, WriteKept, ReadKept
  <1>4. 1 \in DOMAIN Top.todo /\ Top.todo[1] \in Objects
    BY <1>2, <1>3
  <1>5. /\ todo \in Seq(Objects) /\ DOMAIN todo = DOMAIN Top.todo /\ todo # <<>>
        /\ todo[1].schema = Top.todo[1].schema /\ todo[1].version = Top.next
        /\ \A i \in DOMAIN todo : i # 1 => todo[i] = Top.todo[i]
    <2>1. [Top.todo[1] EXCEPT !.version = Top.next] \in Objects
      BY <1>2, <1>4 DEF Objects
    <2>2. todo = [Top.todo EXCEPT ![1] = [Top.todo[1] EXCEPT !.version = Top.next]]
      OBVIOUS
    <2>3. todo \in Seq(Objects)
      BY <1>2, <1>4, <2>1, <2>2, ExceptSeq
    <2>4. QED
      BY <1>2, <1>4, <2>1, <2>2, <2>3 DEF Objects
  <1> HIDE DEF todo
  <1>6. /\ c.kind = Top.kind /\ c.todo = todo /\ c.done = Top.done
        /\ c.asked = Top.asked /\ c.targets = Top.targets
        /\ c.hook = NoFunction /\ c.next = 0
    BY <1>2 DEF Frames, todo
  <1>7. c \in Frames
    <2>1. c = [Top EXCEPT !.hook = NoFunction, !.next = 0, !.todo = todo]
      BY <1>2 DEF Frames, todo
    <2>2. NoFunction \in preserved \cup {NoFunction, Own} /\ 0 \in 0..IntMax
      BY RegistryAssumption
    <2>3. QED
      BY <1>2, <1>5, <2>1, <2>2 DEF Frames
  <1>8. CASE Top.kind = "write"
    <2>1. WriteKept(Top)
      BY <1>2, <1>8 DEF GoodFrames
    <2>2. \A i \in DOMAIN todo : OnTheWay(c, todo[i].schema, todo[i].version)
      BY <1>1, <1>5, <1>6, <2>1 DEF WriteKept, OnTheWay
    <2>3. WriteKept(c)
      BY <1>6, <2>1, <2>2 DEF WriteKept
    <2>4. QED
      BY <1>1, <1>6, <1>7, <1>8, <2>3, StepGood DEF GoodFrames
  <1>9. CASE Top.kind # "write"
    <2>1. ReadKept(c)
      BY <1>2, <1>6, <1>9 DEF GoodFrames, ReadKept
    <2>2. QED
      BY <1>1, <1>6, <1>7, <1>9, <2>1, StepGood DEF GoodFrames
  <1>10. QED
    BY <1>8, <1>9

(* The targets of a write are those that its request names. *)
LEMMA TargetsAreAsked ==
    ASSUME NEW c \in Frames, WriteKept(c)
    PROVE  /\ \A s \in DOMAIN c.targets : \E i \in DOMAIN c.asked : c.asked[i].name = s
           /\ \A i \in DOMAIN c.asked : c.asked[i].name \in DOMAIN c.targets
  <1> DEFINE T == as_schema_version_map(as_schema_versions(c.asked))
  <1>1. c.asked \in Seq(Asked) /\ ValidVersions(c.asked) /\ c.targets = T
    BY DEF Frames, WriteKept
  <1>2. DOMAIN T = {c.asked[i].name : i \in DOMAIN c.asked}
    BY <1>1, TargetsOfRequest
  <1> HIDE DEF T
  <1>3. DOMAIN c.targets = {c.asked[i].name : i \in DOMAIN c.asked}
    BY <1>1, <1>2
  <1>4. QED
    BY <1>3

(* An object that is done with no downgrade due has the version asked for. *)
LEMMA NotDueIsWanted ==
    ASSUME NEW c \in Frames, WriteKept(c), NEW o \in Objects,
           OnTheWay(c, o.schema, o.version),
           ~(o.schema \in DOMAIN c.targets /\ o.version > c.targets[o.schema])
    PROVE  Written(c.asked, o)
  <1> DEFINE cur == Current[o.schema]
  <1>1. /\ o.schema \in Schemas /\ o.version \in 0..IntMax
        /\ cur \in 1..IntMax /\ IntMax \in Nat
    BY VersionsInRange DEF OnTheWay, Objects
  <1>2. c.asked \in Seq(Asked) /\ ValidVersions(c.asked)
    BY DEF Frames, WriteKept
  <1>3. CASE o.schema \in DOMAIN c.targets
    <2>1. PICK i \in DOMAIN c.asked : c.asked[i].name = o.schema
      BY <1>3, TargetsAreAsked
    <2> DEFINE asked == c.asked[i].version
    <2>2. /\ asked \in Int /\ c.targets[o.schema] = AsInteger(asked)
          /\ VersionsAsked(c.asked, o.schema) = {asked}
      BY <1>2, <2>1, TargetsOfRequest DEF WriteKept
    <2>3. o.version <= c.targets[o.schema]
      BY <1>1, <1>3, <2>2, RegistryAssumption DEF AsInteger, NaInteger
    <2>4. c.targets[o.schema] = asked
      BY <1>1, <2>2, <2>3 DEF AsInteger, NaInteger
    <2>5. o.version = cur \/ o.version = asked
      BY <1>1, <2>2, <2>3, <2>4 DEF OnTheWay
    <2>6. Wanted(c.asked, o.schema) = Min({asked} \cup {cur})
      BY <2>2 DEF Wanted
    <2> HIDE DEF asked, cur
    <2>7. o.version <= asked /\ o.version <= cur
      BY <2>3, <2>4 DEF OnTheWay, cur
    <2>8. QED
      BY <1>1, <2>2, <2>5, <2>6, <2>7, MinOfTwo DEF Written
  <1>4. CASE o.schema \notin DOMAIN c.targets
    <2>1. VersionsAsked(c.asked, o.schema) = {}
      BY <1>4, TargetsAreAsked DEF VersionsAsked
    <2>2. Wanted(c.asked, o.schema) = Min({cur} \cup {cur})
      BY <2>1 DEF Wanted
    <2>3. o.version = cur
      BY <1>4 DEF OnTheWay
    <2>4. QED
      BY <1>1, <2>2, <2>3, MinOfTwo DEF Written
  <1>5. QED
    BY <1>3, <1>4

(* An object moves from what a call has to do to what it has done. *)
LEMMA DoneKeepsFrames ==
    ASSUME IInv, Running, Top.todo # <<>>, Top.hook = NoFunction, NEW o \in Objects,
           Top.kind = "write" => Written(Top.asked, o),
           Done(o)
    PROVE  IInv'
  <1> DEFINE done == Append(Top.done, o)
             c == [Top EXCEPT !.todo = Tail(@), !.done = Append(@, o)]
  <1>1. /\ Top \in GoodFrames /\ Top \in Frames /\ Top.done \in Seq(Objects)
        /\ Tail(Top.todo) \in Seq(Objects)
        /\ \A i \in DOMAIN Tail(Top.todo) : /\ i + 1 \in DOMAIN Top.todo
                                           /\ Tail(Top.todo)[i] = Top.todo[i + 1]
    BY TopGood DEF Frames
  <1>2. /\ c.kind = Top.kind /\ c.todo = Tail(Top.todo) /\ c.done = done
        /\ c.asked = Top.asked /\ c.targets = Top.targets /\ c.hook = NoFunction
    BY <1>1 DEF Frames
  <1>3. /\ done \in Seq(Objects)
        /\ \A i \in DOMAIN done : done[i] = o \/ (i \in DOMAIN Top.done /\ done[i] = Top.done[i])
    BY <1>1
  <1>4. c \in Frames
    BY <1>1, <1>3 DEF Frames
  <1>5. CASE Top.kind = "write"
    <2>1. WriteKept(Top)
      BY <1>1, <1>5 DEF GoodFrames
    <2>2. \A i \in DOMAIN c.todo : OnTheWay(c, c.todo[i].schema, c.todo[i].version)
      BY <1>1, <1>2, <2>1 DEF WriteKept, OnTheWay
    <2>3. \A i \in DOMAIN c.done : Written(c.asked, c.done[i])
      BY <1>2, <1>3, <1>5, <2>1 DEF WriteKept
    <2>4. WriteKept(c)
      BY <1>2, <2>1, <2>2, <2>3 DEF WriteKept
    <2>5. QED
      BY <1>2, <1>4, <1>5, <2>4, StepGood DEF GoodFrames, Done
  <1>6. CASE Top.kind # "write"
    <2>1. ReadKept(c)
      BY <1>2 DEF ReadKept
    <2>2. QED
      BY <1>2, <1>4, <1>6, <2>1, StepGood DEF GoodFrames, Done
  <1>7. QED
    BY <1>5, <1>6

LEMMA NextObjectGood ==
    ASSUME IInv, NextObject
    PROVE  IInv'
  <1>1. /\ Running /\ Top.todo # <<>> /\ Top.hook = NoFunction /\ ~DowngradeDue
        /\ Top \in GoodFrames /\ Top \in Frames /\ Object \in Objects /\ Object = Top.todo[1]
    BY TopGood DEF NextObject, Waiting
  <1>2. CASE Top.kind = "write"
    <2>1. WriteKept(Top)
      BY <1>1, <1>2 DEF GoodFrames
    <2>2. 1 \in DOMAIN Top.todo
      BY <1>1 DEF Frames
    <2>3. Written(Top.asked, Object)
      BY <1>1, <1>2, <2>1, <2>2, NotDueIsWanted DEF WriteKept, DowngradeDue
    <2>4. Done(Object)
      BY <1>2 DEF NextObject
    <2>5. QED
      BY <1>1, <1>2, <2>3, <2>4, DoneKeepsFrames
  <1>3. CASE Top.kind # "write" /\ Object.schema \in Schemas
    <2> DEFINE o == [Object EXCEPT !.version = Current[Object.schema]]
    <2>1. o \in Objects
      BY <1>1, <1>3, VersionsInRange DEF Objects
    <2>2. Top.kind = "read"
      BY <1>1, <1>3 DEF Frames
    <2>3. Done(o)
      BY <1>3, <2>2 DEF NextObject
    <2>4. QED
      BY <1>1, <1>3, <2>1, <2>3, DoneKeepsFrames
  <1>4. CASE Top.kind # "write" /\ Object.schema \notin Schemas
    <2>1. Done(Object)
      BY <1>4 DEF NextObject
    <2>2. QED
      BY <1>1, <1>4, <2>1, DoneKeepsFrames
  <1>5. QED
    BY <1>2, <1>3, <1>4

LEMMA FinishGood ==
    ASSUME IInv, Finish
    PROVE  IInv'
  <1> DEFINE r == Result(IF Top.kind = "write" THEN "written" ELSE "built", Top.done, Top.asked)
  <1>1. /\ Running /\ calls' = Tail(calls) /\ ended' = r /\ Library
    BY DEF Finish, Waiting, Leave
  <1>2. Top \in GoodFrames /\ Top.done \in Seq(Objects) /\ Top.asked \in Seq(Asked)
    BY <1>1, TopGood DEF Frames
  <1>3. r \in GoodResults
    BY <1>2 DEF Result, GoodResults, GoodFrames, WriteKept, ReadKept
  <1>4. QED
    BY <1>1, <1>3, LeaveGood

LEMMA FailGood ==
    ASSUME IInv, Running, Fail
    PROVE  IInv'
  BY LeaveGood, FailedGood DEF Fail, Leave

LEMMA NextGood == IInv /\ [Next]_vars => IInv'
  <1> SUFFICES ASSUME IInv, [Next]_vars PROVE IInv'
    OBVIOUS
  <1>1. CASE \E h \in Hooks, slot \in Slots, f \in Functions : Register(h, slot[1], slot[2], f)
    BY <1>1, RegisterGood
  <1>2. CASE \E f \in Functions : Forget(f) \/ Collect(f)
    BY <1>2, CollectorGood
  <1>3. CASE \E t \in Trees, r \in Requests : to_json(t, r)
    BY <1>3, ToJsonGood
  <1>4. CASE \E d \in Documents : from_json(d)
    BY <1>4, FromJsonGood
  <1>5. CASE CallHook
    BY <1>5, CallHookGood
  <1>6. CASE HookReturns
    BY <1>6, HookReturnsGood
  <1>7. CASE HookFails \/ Refuse
    BY <1>7, FailGood DEF HookFails, Refuse, Waiting
  <1>8. CASE NextObject
    BY <1>8, NextObjectGood
  <1>9. CASE Finish
    BY <1>9, FinishGood
  <1>10. CASE UNCHANGED vars
    <2>1. /\ Registered' = Registered /\ GoodFrames' = GoodFrames
          /\ UNCHANGED <<hooks, preserved, used, gone, calls, ended>>
      BY <1>10 DEF vars, Registered, GoodFrames, Frames
    <2>2. QED
      BY <2>1 DEF IInv, HooksTyped, Guarded, GoodResults
  <1>11. QED
    BY <1>1, <1>2, <1>3, <1>4, <1>5, <1>6, <1>7, <1>8, <1>9, <1>10 DEF Next

-----------------------------------------------------------------------------
(* The strengthened invariant holds of every behaviour. *)
THEOREM InvariantHolds == Spec => []IInv
  <1>1. QED
    BY InitGood, NextGood, PTL DEF Spec

(* TypeOK for every instance: in particular, no version that is not an R   *)
(* integer ever is a target.                                               *)
THEOREM RegistryTyped == Spec => []TypeOK
  <1>1. IInv => TypeOK
    <2> SUFFICES ASSUME IInv PROVE TypeOK
      OBVIOUS
    <2>1. ASSUME NEW i \in DOMAIN calls PROVE FrameTyped(calls[i])
      <3> DEFINE c == calls[i]
      <3>1. c \in GoodFrames /\ c \in Frames
        BY DEF IInv, GoodFrames
      <3>2. Range(c.targets) \subseteq NaInteger..IntMax
        BY <3>1 DEF Frames, Targets, Range
      <3>3. c.hook # NoFunction => c.todo # <<>>
        BY <3>1 DEF GoodFrames, WriteKept, ReadKept
      <3>4. c.hook \in Functions \cup {NoFunction, Own}
        BY <3>1 DEF Frames, IInv, Guarded
      <3>5. QED
        BY <3>1, <3>2, <3>3, <3>4 DEF Frames, FrameTyped
    <2>2. QED
      BY <2>1 DEF IInv, HooksTyped, Guarded, GoodResults, TypeOK
  <1>2. QED
    BY <1>1, InvariantHolds, PTL

(* HooksAlive for every instance: make_dict_callback preserves a function  *)
(* before the registry can hold it, and nothing ever releases one, so the  *)
(* functions that run at any depth are there too.                          *)
THEOREM NoHookIsCollected == Spec => []HooksAlive
  <1>1. IInv => HooksAlive
    <2> SUFFICES ASSUME IInv PROVE HooksAlive
      OBVIOUS
    <2>1. RunningHooks \subseteq preserved \cup {NoFunction, Own}
      <3>1. \A i \in DOMAIN calls : calls[i] \in Frames
        BY DEF IInv, GoodFrames
      <3>2. QED
        BY <3>1 DEF RunningHooks, Frames
    <2>2. QED
      BY <2>1, RegistryAssumption DEF IInv, Guarded, HooksAlive
  <1>2. QED
    BY <1>1, InvariantHolds, PTL

(* WrittenAsAsked for every instance: to_json gives the versions that were *)
(* asked for or fails, however hooks nest further calls.                   *)
THEOREM WrittenIsWhatWasAsked == Spec => []WrittenAsAsked
  <1>1. IInv => WrittenAsAsked
    BY DEF IInv, GoodResults, WrittenAsAsked, Written, Range
  <1>2. QED
    BY <1>1, InvariantHolds, PTL

(* OwnVersionsNeedNoHook for every instance: the numbers that              *)
(* type_version_map gives fit an R integer, so none becomes NA, and no     *)
(* object is above its target.                                             *)
THEOREM OwnVersionsAccepted == Spec => []OwnVersionsNeedNoHook
  <1>1. IInv => OwnVersionsNeedNoHook
    <2> SUFFICES ASSUME IInv, NEW i \in DOMAIN calls, calls[i].kind = "write",
                        calls[i].asked = type_version_map, calls[i].hook # NoFunction
                 PROVE  FALSE
      BY DEF OwnVersionsNeedNoHook
    <2> DEFINE c == calls[i]
               o == c.todo[1]
    <2>1. c \in Frames /\ WriteKept(c)
      BY DEF IInv, GoodFrames
    <2>2. /\ 1 \in DOMAIN c.todo /\ o \in Objects
          /\ o.schema \in DOMAIN c.targets /\ o.version > c.targets[o.schema]
          /\ OnTheWay(c, o.schema, o.version)
      BY <2>1 DEF WriteKept, Frames
    <2>3. c.asked \in Seq(Asked) /\ ValidVersions(c.asked)
      BY <2>1 DEF Frames, WriteKept
    <2>4. PICK k \in DOMAIN c.asked : c.asked[k].name = o.schema
      BY <2>1, <2>2, TargetsAreAsked
    <2>5. c.targets[o.schema] = AsInteger(c.asked[k].version)
      BY <2>1, <2>3, <2>4, TargetsOfRequest DEF WriteKept
    <2>6. c.asked[k].version = Current[c.asked[k].name]
      BY <2>4 DEF type_version_map
    <2>7. o.schema \in Schemas /\ o.version <= Current[o.schema] /\ o.version \in Int
      BY <2>2 DEF OnTheWay, Objects
    <2>8. Current[o.schema] \in 1..IntMax /\ IntMax \in Nat
      BY <2>7, VersionsInRange
    <2>9. c.targets[o.schema] = Current[o.schema]
      BY <2>4, <2>5, <2>6, <2>8 DEF AsInteger
    <2>10. QED
      BY <2>2, <2>7, <2>8, <2>9
  <1>2. QED
    BY <1>1, InvariantHolds, PTL

-----------------------------------------------------------------------------
(* Calls inside the hooks of other calls.                                  *)

(* A call that has another inside is in a hook, which is an R function.    *)
InHooks == \A i \in DOMAIN calls : i # 1 => calls[i].hook \in Functions

LEMMA Shifted ==
    ASSUME NEW S, NEW s \in Seq(S), NEW x \in S
    PROVE  LET t == <<x>> \o s IN
           /\ t \in Seq(S) /\ Len(t) = Len(s) + 1 /\ DOMAIN t = 1..Len(s) + 1
           /\ t[1] = x /\ \A i \in 2..Len(s) + 1 : t[i] = s[i - 1]
  <1>1. <<x>> \in Seq(S) /\ Len(<<x>>) = 1 /\ <<x>>[1] = x
    OBVIOUS
  <1>2. Len(s) \in Nat
    BY LenProperties
  <1>3. /\ <<x>> \o s \in Seq(S) /\ Len(<<x>> \o s) = 1 + Len(s)
        /\ \A i \in 1..1 + Len(s) : (<<x>> \o s)[i] = IF i <= 1 THEN <<x>>[i] ELSE s[i - 1]
    BY <1>1, ConcatProperties
  <1>4. DOMAIN (<<x>> \o s) = 1..1 + Len(s)
    BY <1>3, LenProperties
  <1>5. QED
    BY <1>1, <1>2, <1>3, <1>4

LEMMA TopOnly ==
    ASSUME NEW S, calls \in Seq(S), NEW frame \in S, InHooks,
           \/ calls # <<>> /\ calls' = Tail(calls)
           \/ calls # <<>> /\ calls' = <<frame>> \o Tail(calls)
           \/ RCodeRuns /\ calls' = <<frame>> \o calls
           \/ UNCHANGED calls
    PROVE  InHooks'
  <1>1. SUFFICES ASSUME NEW i \in DOMAIN calls', i # 1
                 PROVE  calls'[i].hook \in Functions
    BY DEF InHooks
  <1>2. \A j \in DOMAIN calls : j # 1 => calls[j].hook \in Functions
    BY DEF InHooks
  <1>3. DOMAIN calls = 1..Len(calls) /\ Len(calls) \in Nat
    BY LenProperties
  <1> DEFINE t == Tail(calls)
             l == Len(calls)
  <1>4. CASE calls # <<>> /\ (calls' = t \/ calls' = <<frame>> \o t)
    <2>1. t \in Seq(S) /\ Len(t) = l - 1 /\ \A j \in 1..l - 1 : t[j] = calls[j + 1]
      BY <1>4, HeadTailProperties
    <2>2. DOMAIN t = 1..l - 1 /\ l \in Nat /\ DOMAIN calls = 1..l
      BY <1>3, <2>1, LenProperties
    <2> HIDE DEF t, l
    <2>3. CASE calls' = t
      <3>1. i \in 1..l - 1
        BY <1>1, <2>2, <2>3
      <3>2. i + 1 \in DOMAIN calls /\ i + 1 # 1 /\ calls'[i] = calls[i + 1]
        BY <2>1, <2>2, <2>3, <3>1
      <3>3. QED
        BY <1>2, <3>2
    <2>4. CASE calls' = <<frame>> \o t
      <3> DEFINE u == <<frame>> \o t
      <3>1. DOMAIN u = 1..l /\ \A j \in 2..l : u[j] = t[j - 1]
        BY <2>1, <2>2, Shifted
      <3> HIDE DEF u
      <3>2. calls' = u
        BY <2>4 DEF u
      <3>3. i \in 2..l /\ calls'[i] = t[i - 1]
        BY <1>1, <2>2, <3>1, <3>2
      <3>4. calls'[i] = calls[i] /\ i \in DOMAIN calls
        BY <2>1, <2>2, <3>3
      <3>5. QED
        BY <1>1, <1>2, <3>4
    <2>5. QED
      BY <1>4, <2>3, <2>4
  <1>5. CASE RCodeRuns /\ calls' = <<frame>> \o calls
    <2> DEFINE u == <<frame>> \o calls
    <2>1. DOMAIN u = 1..l + 1 /\ \A j \in 2..l + 1 : u[j] = calls[j - 1]
      BY Shifted
    <2>2. calls' = u /\ l \in Nat /\ DOMAIN calls = 1..l
      BY <1>3, <1>5
    <2>3. calls # <<>> => calls[1].hook \in Functions
      BY <1>5 DEF RCodeRuns, Running, Top
    <2> HIDE DEF u, l
    <2>4. i \in 2..l + 1 /\ calls'[i] = calls[i - 1] /\ i - 1 \in DOMAIN calls
      BY <1>1, <2>1, <2>2
    <2>5. CASE i - 1 = 1
      BY <2>3, <2>4, <2>5
    <2>6. CASE i - 1 # 1
      BY <1>2, <2>4, <2>6
    <2>7. QED
      BY <2>5, <2>6
  <1>6. CASE UNCHANGED calls
    BY <1>1, <1>2, <1>6
  <1>7. QED
    BY <1>4, <1>5, <1>6

(* Below n frames one more makes no difference.                            *)
LEMMA VisibleBelow ==
    ASSUME NEW S, NEW s \in Seq(S), s # <<>>, Len(s) > Outermost
    PROVE  Visible(s) = Visible(Tail(s))
  <1> DEFINE n == Outermost
             l == Len(s)
  <1>1. n \in Nat /\ n > 0 /\ l \in Nat
    BY OutermostAssumption, LenProperties
  <1>2. Tail(s) \in Seq(S) /\ Len(Tail(s)) = l - 1 /\ \A i \in 1..l - 1 : Tail(s)[i] = s[i + 1]
    BY HeadTailProperties
  <1> DEFINE a == SubSeq(s, l - n + 1, l)
             b == SubSeq(Tail(s), l - 1 - n + 1, l - 1)
  <1>3. Visible(s) = a
    BY <1>1 DEF Visible
  <1>4. Len(a) = n /\ a \in Seq(S) /\ \A i \in 1..n : a[i] = s[l - n + i]
    <2>1. \A i \in l - n + 1..l : s[i] \in S
      BY <1>1, LenProperties
    <2>2. QED
      BY <1>1, <2>1, SubSeqProperties
  <1>5. CASE l - 1 = n
    <2>1. Visible(Tail(s)) = Tail(s)
      BY <1>2, <1>5 DEF Visible
    <2>2. QED
      BY <1>1, <1>2, <1>3, <1>4, <1>5, <2>1, SeqEqual
  <1>6. CASE l - 1 > n
    <2>1. Visible(Tail(s)) = b
      BY <1>1, <1>2, <1>6 DEF Visible
    <2>2. Len(b) = n /\ b \in Seq(S) /\ \A i \in 1..n : b[i] = Tail(s)[l - 1 - n + i]
      BY <1>1, <1>2, <1>6, SubSeqProperties
    <2>3. ASSUME NEW i \in 1..n  PROVE b[i] = a[i]
      <3>1. l - 1 - n + i \in 1..l - 1 /\ (l - 1 - n + i) + 1 = l - n + i
        BY <1>1, <1>6
      <3> HIDE DEF a, b, n, l
      <3>2. b[i] = s[(l - 1 - n + i) + 1]
        BY <1>2, <2>2, <3>1
      <3>3. QED
        BY <1>4, <3>1, <3>2
    <2>4. QED
      BY <1>3, <1>4, <2>1, <2>2, <2>3, SeqEqual
  <1>7. QED
    BY <1>1, <1>5, <1>6


(* The definitions that look at no calls are the same from outside.        *)
LEMMA OuterConstants ==
    /\ Outer!Nothing = Nothing /\ Outer!Failed = Failed
    /\ \A kind, done, asked : Outer!Result(kind, done, asked) = Result(kind, done, asked)
    /\ \A kind, todo, asked, targets :
          Outer!Frame(kind, todo, asked, targets) = Frame(kind, todo, asked, targets)
    /\ Outer!Hooks = Hooks /\ Outer!Versions = Versions
  BY DEF Outer!Nothing, Nothing, Outer!Failed, Failed, Outer!Result, Result,
         Outer!Frame, Frame, Outer!Hooks, Hooks, Outer!Versions, Versions

LEMMA OuterTargets ==
    ASSUME NEW r
    PROVE  /\ Outer!ValidVersions(r) <=> ValidVersions(r)
           /\ Outer!as_schema_version_map(Outer!as_schema_versions(r))
                = as_schema_version_map(as_schema_versions(r))
  <1>1. Outer!Names(r) = Names(r)
    BY DEF Outer!Names, Names
  <1>2. \A n : Outer!AsInteger(n) = AsInteger(n)
    BY DEF Outer!AsInteger, AsInteger, Outer!NaInteger, NaInteger
  <1>3. Outer!as_schema_versions(r) = as_schema_versions(r)
    BY <1>2 DEF Outer!as_schema_versions, as_schema_versions
  <1>4. \A s : Outer!as_schema_version_map(s) = as_schema_version_map(s)
    BY DEF Outer!as_schema_version_map, as_schema_version_map, Outer!Names, Names,
           Outer!Range, Range
  <1>5. Outer!ValidVersions(r) <=> ValidVersions(r)
    BY <1>1 DEF Outer!ValidVersions, ValidVersions, Outer!Range, Range,
                Outer!IsInjective, IsInjective
  <1>6. QED
    BY <1>3, <1>4, <1>5

(* And when all calls are among the outermost, so is what is next.         *)
LEMMA OuterTop ==
    ASSUME Visible(calls) = calls
    PROVE  /\ Outer!Top = Top /\ (Outer!Running <=> Running) /\ (Outer!Waiting <=> Waiting)
           /\ Outer!Object = Object
           /\ Outer!DowngradeDue <=> DowngradeDue
           /\ Outer!UpgradeDue <=> UpgradeDue
           /\ Outer!TooNew <=> TooNew
           /\ Outer!NextHook = NextHook /\ Outer!VersionAfter = VersionAfter
           /\ Outer!RCodeRuns <=> RCodeRuns
  <1>1. Outer!Top = Top /\ (Outer!Running <=> Running)
    BY DEF Outer!Top, Top, Outer!Running, Running
  <1>2. Outer!Object = Object
    BY <1>1 DEF Outer!Object, Object
  <1>3. (Outer!Waiting <=> Waiting) /\ (Outer!RCodeRuns <=> RCodeRuns)
    BY <1>1 DEF Outer!Waiting, Waiting, Outer!RCodeRuns, RCodeRuns
  <1>4. Outer!Upgrades = Upgrades
    BY <1>2 DEF Outer!Upgrades, Upgrades, Outer!Versions, Versions
  <1>5. (Outer!DowngradeDue <=> DowngradeDue) /\ (Outer!TooNew <=> TooNew)
    BY <1>1, <1>2 DEF Outer!DowngradeDue, DowngradeDue, Outer!TooNew, TooNew
  <1>6. Outer!UpgradeDue <=> UpgradeDue
    BY <1>1, <1>2, <1>4 DEF Outer!UpgradeDue, UpgradeDue
  <1>7. Outer!VersionAfter = VersionAfter
    BY <1>1, <1>2, <1>4 DEF Outer!VersionAfter, VersionAfter, Outer!Min, Min
  <1>8. Outer!NextHook = NextHook
    BY <1>1, <1>2, <1>7 DEF Outer!NextHook, NextHook, Outer!HookFor, HookFor,
                            Outer!Versions, Versions
  <1>9. QED
    BY <1>1, <1>2, <1>3, <1>5, <1>6, <1>7, <1>8


(* What a call inside the n outermost ones adds is not seen.               *)
LEMMA Unseen ==
    ASSUME NEW S, NEW s \in Seq(S), NEW x
    PROVE  LET t == <<x>> \o s IN
           /\ t \in Seq(S \cup {x}) /\ t # <<>> /\ Tail(t) = s
           /\ Len(t) = Len(s) + 1 /\ Len(s) \in Nat
           /\ Visible(t) = IF Len(s) < Outermost THEN t ELSE Visible(s)
  <1> DEFINE t == <<x>> \o s
             l == Len(s)
  <1>1. s \in Seq(S \cup {x}) /\ l \in Nat
    BY Larger, LenProperties
  <1>2. t \in Seq(S \cup {x}) /\ Len(t) = l + 1 /\ \A i \in 2..l + 1 : t[i] = s[i - 1]
    BY <1>1, Shifted
  <1> HIDE DEF t
  <1>3. t # <<>>
    BY <1>1, <1>2
  <1>4. Tail(t) \in Seq(S \cup {x}) /\ Len(Tail(t)) = l /\ \A i \in 1..l : Tail(t)[i] = t[i + 1]
    BY <1>1, <1>2, <1>3, HeadTailProperties
  <1>5. ASSUME NEW i \in 1..l  PROVE Tail(t)[i] = s[i]
    <2>1. i + 1 \in 2..l + 1 /\ (i + 1) - 1 = i
      BY <1>1
    <2> HIDE DEF l
    <2>2. t[i + 1] = s[(i + 1) - 1]
      BY <1>2, <2>1
    <2>3. QED
      BY <1>4, <2>1, <2>2
  <1>6. Tail(t) = s
    BY <1>1, <1>4, <1>5, SeqEqual
  <1>7. CASE l < Outermost
    BY <1>1, <1>2, <1>7, OutermostAssumption DEF Visible
  <1>8. CASE ~ l < Outermost
    <2>1. Len(t) > Outermost
      BY <1>1, <1>2, <1>8, OutermostAssumption
    <2>2. Visible(t) = Visible(Tail(t))
      BY <1>2, <1>3, <2>1, VisibleBelow
    <2>3. QED
      BY <1>1, <1>2, <1>3, <1>6, <1>8, <2>2 DEF t, l
  <1>9. QED
    BY <1>1, <1>2, <1>3, <1>6, <1>7, <1>8 DEF t, l

LEMMA AllVisible ==
    ASSUME NEW s, Len(s) <= Outermost
    PROVE  Visible(s) = s
  BY DEF Visible

(* The innermost call goes on, a call begins, a call ends: seen, it is the *)
(* same step, and unseen it is none.                                       *)
LEMMA StepMaps ==
    ASSUME IInv, InHooks, Running, NEW frame, Step(frame)
    PROVE  /\ InHooks'
           /\ IF Len(calls) > Outermost THEN UNCHANGED Outer!vars ELSE Outer!Step(frame)
  <1> DEFINE t == Tail(calls)
             u == <<frame>> \o t
             n == Outermost
             S == GoodFrames
  <1>1. calls \in Seq(S) /\ calls # <<>> /\ calls' = u /\ ended' = ended /\ Library
    BY DEF IInv, Running, Step
  <1>2. t \in Seq(S) /\ Len(t) = Len(calls) - 1 /\ Len(calls) \in Nat /\ Len(calls) > 0
    BY <1>1, HeadTailProperties, LenProperties
  <1> HIDE DEF S, t
  <1>3. Len(u) = Len(t) + 1 /\ Visible(u) = IF Len(t) < n THEN u ELSE Visible(t)
    BY <1>2, Unseen
  <1>4. n \in Nat /\ n > 0 /\ Len(u) = Len(calls)
    BY <1>2, <1>3, OutermostAssumption
  <1>5. InHooks'
    <2>1. calls \in Seq(S \cup {frame})
      BY <1>1, Larger
    <2>2. QED
      BY <1>1, <2>1, TopOnly DEF t
  <1> HIDE DEF u
  <1>6. VisibleResult' = VisibleResult
    BY <1>1, <1>4 DEF VisibleResult, Nothing, Result
  <1>7. CASE Len(calls) > n
    <2>1. Visible(u) = Visible(t)
      BY <1>2, <1>3, <1>4, <1>7
    <2>2. Visible(calls) = Visible(t)
      BY <1>1, <1>7, VisibleBelow DEF t
    <2>3. Visible(calls)' = Visible(calls)
      BY <1>1, <2>1, <2>2
    <2>4. UNCHANGED Outer!vars
      BY <1>1, <1>6, <2>3 DEF Outer!vars, Library
    <2>5. QED
      BY <1>5, <1>7, <2>4
  <1>8. CASE ~ Len(calls) > n
    <2>1. Visible(calls) = calls
      BY <1>2, <1>4, <1>8, AllVisible
    <2>2. Visible(calls)' = u
      BY <1>1, <1>2, <1>3, <1>4, <1>8
    <2>3. Outer!Step(frame)
      BY <1>1, <1>6, <2>1, <2>2 DEF Outer!Step, Outer!Library, Library, t, u
    <2>4. QED
      BY <1>5, <1>8, <2>3
  <1>9. QED
    BY <1>7, <1>8

LEMMA EnterMaps ==
    ASSUME IInv, InHooks, RCodeRuns, NEW frame, Enter(frame), Library
    PROVE  /\ InHooks'
           /\ IF Len(calls) >= Outermost THEN UNCHANGED Outer!vars
              ELSE Outer!Enter(frame) /\ Outer!Library
  <1> DEFINE u == <<frame>> \o calls
             n == Outermost
             S == GoodFrames
  <1>1. calls \in Seq(S) /\ calls' = u /\ ended' = Nothing
    BY DEF IInv, Enter
  <1> HIDE DEF S
  <1>2. /\ Len(u) = Len(calls) + 1 /\ Len(calls) \in Nat
        /\ Visible(u) = IF Len(calls) < n THEN u ELSE Visible(calls)
    BY <1>1, Unseen
  <1>3. n \in Nat /\ n > 0
    BY OutermostAssumption
  <1>4. InHooks'
    <2>1. calls \in Seq(S \cup {frame})
      BY <1>1, Larger
    <2>2. QED
      BY <1>1, <2>1, TopOnly
  <1>5. VisibleResult' = Nothing
    BY <1>1 DEF VisibleResult, Nothing, Result
  <1> HIDE DEF u
  <1>6. CASE Len(calls) >= n
    <2>1. VisibleResult = Nothing
      BY <1>2, <1>3, <1>6 DEF VisibleResult
    <2>2. Visible(calls)' = Visible(calls)
      BY <1>1, <1>2, <1>3, <1>6
    <2>3. UNCHANGED Outer!vars
      BY <1>5, <2>1, <2>2 DEF Outer!vars, Library
    <2>4. QED
      BY <1>4, <1>6, <2>3
  <1>7. CASE ~ Len(calls) >= n
    <2>1. Visible(calls) = calls
      BY <1>2, <1>3, <1>7, AllVisible
    <2>2. Visible(calls)' = u /\ Len(calls) < n
      BY <1>1, <1>2, <1>3, <1>7
    <2>3. Outer!Enter(frame) /\ Outer!Library
      BY <1>5, <2>1, <2>2, OuterConstants DEF Outer!Enter, Outer!Library, Library, u
    <2>4. QED
      BY <1>4, <1>7, <2>3
  <1>8. QED
    BY <1>6, <1>7

LEMMA LeaveMaps ==
    ASSUME IInv, InHooks, Running, NEW r, Leave(r), Library
    PROVE  /\ InHooks'
           /\ IF Len(calls) > Outermost THEN UNCHANGED Outer!vars
              ELSE Outer!Leave(r) /\ Outer!Library
  <1> DEFINE t == Tail(calls)
             n == Outermost
             S == GoodFrames
  <1>1. calls \in Seq(S) /\ calls # <<>> /\ calls' = t /\ ended' = r
    BY DEF IInv, Running, Leave
  <1>2. t \in Seq(S) /\ Len(t) = Len(calls) - 1 /\ Len(calls) \in Nat /\ Len(calls) > 0
    BY <1>1, HeadTailProperties, LenProperties
  <1> HIDE DEF S
  <1>3. n \in Nat /\ n > 0
    BY OutermostAssumption
  <1>4. InHooks'
    <2>1. Head(calls) \in S
      BY <1>1, HeadTailProperties
    <2>2. QED
      BY <1>1, <2>1, TopOnly
  <1> HIDE DEF t
  <1>5. CASE Len(calls) > n
    <2>1. VisibleResult = Nothing /\ VisibleResult' = Nothing
      BY <1>1, <1>2, <1>3, <1>5 DEF VisibleResult, Nothing, Result
    <2>2. Visible(calls)' = Visible(calls)
      BY <1>1, <1>5, VisibleBelow DEF t
    <2>3. UNCHANGED Outer!vars
      BY <2>1, <2>2 DEF Outer!vars, Library
    <2>4. QED
      BY <1>4, <1>5, <2>3
  <1>6. CASE ~ Len(calls) > n
    <2>1. Visible(calls) = calls /\ Visible(t) = t
      BY <1>2, <1>3, <1>6, AllVisible
    <2>2. VisibleResult' = r
      BY <1>1, <1>2, <1>3, <1>6 DEF VisibleResult
    <2>3. Visible(calls)' = t
      BY <1>1, <2>1
    <2>4. Outer!Leave(r) /\ Outer!Library
      BY <2>1, <2>2, <2>3 DEF Outer!Leave, Outer!Library, Library, t
    <2>5. QED
      BY <1>4, <1>6, <2>4
  <1>7. QED
    BY <1>5, <1>6


(* With calls inside the outermost ones R code runs in these as well, and  *)
(* what runs in them runs.                                                 *)
LEMMA OuterHooks ==
    ASSUME IInv, InHooks
    PROVE  /\ RCodeRuns => Outer!RCodeRuns
           /\ Outer!RunningHooks \subseteq RunningHooks
  <1> DEFINE n == Outermost
             l == Len(calls)
             v == SubSeq(calls, l - n + 1, l)
             S == GoodFrames
  <1>1. calls \in Seq(S) /\ l \in Nat /\ n \in Nat /\ n > 0 /\ DOMAIN calls = 1..l
    BY OutermostAssumption, LenProperties DEF IInv
  <1> HIDE DEF S
  <1>2. CASE l <= n
    <2>1. Visible(calls) = calls
      BY <1>2, AllVisible
    <2>2. QED
      BY <2>1, OuterTop DEF Outer!RunningHooks, RunningHooks
  <1>3. CASE ~ l <= n
    <2>1. Visible(calls) = v
      BY <1>3 DEF Visible
    <2>2. Len(v) = n /\ v \in Seq(S) /\ \A i \in 1..n : v[i] = calls[l - n + i]
      <3>1. \A i \in l - n + 1..l : calls[i] \in S
        BY <1>1, <1>3
      <3>2. QED
        BY <1>1, <1>3, <3>1, SubSeqProperties
    <2>3. DOMAIN v = 1..n
      BY <2>2, LenProperties
    <2> HIDE DEF v, l, n
    <2>4. \A i \in 1..n : l - n + i \in 1..l /\ l - n + i # 1
      BY <1>1, <1>3
    <2>5. \A i \in DOMAIN v : \E j \in DOMAIN calls : j # 1 /\ v[i] = calls[j]
      BY <1>1, <2>2, <2>3, <2>4
    <2>6. v # <<>> /\ 1 \in DOMAIN v /\ Head(v) = v[1]
      BY <1>1, <2>2, <2>3, HeadTailProperties
    <2>7. Head(v).hook \in Functions
      BY <2>5, <2>6 DEF InHooks
    <2>8. Outer!RCodeRuns
      BY <2>1, <2>7 DEF Outer!RCodeRuns, Outer!Top
    <2>9. Outer!RunningHooks \subseteq RunningHooks
      BY <2>1, <2>5 DEF Outer!RunningHooks, RunningHooks
    <2>10. QED
      BY <2>8, <2>9
  <1>4. QED
    BY <1>2, <1>3

(* What R code does to the registry and the collector it does for all      *)
(* calls.                                                                  *)
LEMMA SharedMaps ==
    ASSUME IInv, InHooks
    PROVE  /\ \A h \in Hooks, slot \in Slots, f \in Functions :
                Register(h, slot[1], slot[2], f) => Outer!Register(h, slot[1], slot[2], f)
           /\ \A f \in Functions : /\ Forget(f) => Outer!Forget(f)
                                   /\ Collect(f) => Outer!Collect(f)
  <1>1. UNCHANGED <<calls, ended>> => UNCHANGED <<Visible(calls), VisibleResult>>
    BY DEF VisibleResult, Nothing, Result
  <1>2. ASSUME NEW h \in Hooks, NEW slot \in Slots, NEW f \in Functions,
               Register(h, slot[1], slot[2], f)
        PROVE  Outer!Register(h, slot[1], slot[2], f)
    BY <1>1, <1>2, OuterHooks
    DEF Register, Outer!Register, make_dict_callback, Outer!make_dict_callback,
        CanRegister, Outer!CanRegister
  <1>3. ASSUME NEW f \in Functions, Forget(f)
        PROVE  Outer!Forget(f)
    BY <1>1, <1>3, OuterHooks DEF Forget, Outer!Forget
  <1>4. ASSUME NEW f \in Functions, Collect(f)
        PROVE  Outer!Collect(f)
    BY <1>1, <1>4, OuterHooks DEF Collect, Outer!Collect
  <1>5. QED
    BY <1>2, <1>3, <1>4

LEMMA ToJsonMaps ==
    ASSUME IInv, InHooks, NEW tree \in Trees, NEW request \in Requests, to_json(tree, request)
    PROVE  InHooks' /\ (Outer!to_json(tree, request) \/ UNCHANGED Outer!vars)
  <1> DEFINE todo == [i \in DOMAIN tree |-> [schema |-> tree[i], version |-> Current[tree[i]]]]
             T == as_schema_version_map(as_schema_versions(request))
             c == Frame("write", todo, request, T)
  <1>1. RCodeRuns /\ Library /\ Outer!RCodeRuns
    BY OuterHooks DEF to_json
  <1>2. Len(calls) \in Nat /\ Outermost \in Nat
    BY OutermostAssumption, LenProperties DEF IInv
  <1>3. CASE ValidVersions(request)
    <2>1. Enter(c)
      BY <1>3 DEF to_json
    <2>2. /\ InHooks'
          /\ IF Len(calls) >= Outermost THEN UNCHANGED Outer!vars
             ELSE Outer!Enter(c) /\ Outer!Library
      BY <1>1, <2>1, EnterMaps
    <2>3. Outer!ValidVersions(request)
      BY <1>3, OuterTargets
    <2>4. c = Outer!Frame("write", todo, request,
                 Outer!as_schema_version_map(Outer!as_schema_versions(request)))
      BY OuterConstants, OuterTargets
    <2> HIDE DEF c
    <2>5. CASE ~ Len(calls) >= Outermost
      BY <1>1, <2>2, <2>3, <2>4, <2>5 DEF Outer!to_json
    <2>6. QED
      BY <2>2, <2>5
  <1>4. CASE ~ValidVersions(request)
    <2>1. ended' = Failed /\ calls' = calls /\ ~Outer!ValidVersions(request)
      BY <1>4, OuterTargets DEF to_json
    <2>2. InHooks' /\ Visible(calls)' = Visible(calls)
      BY <2>1 DEF InHooks
    <2>3. CASE Len(calls) < Outermost
      <3>1. VisibleResult' = Outer!Failed
        BY <2>1, <2>3, OuterConstants DEF VisibleResult
      <3>2. QED
        BY <1>1, <2>1, <2>2, <3>1 DEF Outer!to_json, Outer!Library, Library
    <2>4. CASE ~ Len(calls) < Outermost
      <3>1. VisibleResult' = VisibleResult
        BY <2>1, <2>4 DEF VisibleResult, Nothing, Result
      <3>2. QED
        BY <1>1, <2>2, <3>1 DEF Outer!vars, Library
    <2>5. QED
      BY <2>3, <2>4
  <1>5. QED
    BY <1>3, <1>4

LEMMA FromJsonMaps ==
    ASSUME IInv, InHooks, NEW document \in Documents, from_json(document)
    PROVE  InHooks' /\ (Outer!from_json(document) \/ UNCHANGED Outer!vars)
  <1> DEFINE c == Frame("read", document, <<>>, <<>>)
  <1>1. RCodeRuns /\ Enter(c) /\ Library /\ Outer!RCodeRuns
    BY OuterHooks DEF from_json
  <1>2. c = Outer!Frame("read", document, <<>>, <<>>)
    BY OuterConstants
  <1> HIDE DEF c
  <1>3. /\ InHooks'
        /\ IF Len(calls) >= Outermost THEN UNCHANGED Outer!vars
           ELSE Outer!Enter(c) /\ Outer!Library
    BY <1>1, EnterMaps
  <1>4. QED
    BY <1>1, <1>2, <1>3 DEF Outer!from_json

(* A step of the innermost call, if it is seen, finds it as it is.         *)
LEMMA WorkMaps ==
    ASSUME IInv, InHooks, CallHook \/ HookReturns \/ HookFails \/ Refuse \/ NextObject \/ Finish
    PROVE  /\ InHooks'
           /\ \/ Outer!CallHook \/ Outer!HookReturns \/ Outer!HookFails
              \/ Outer!Refuse \/ Outer!NextObject \/ Outer!Finish
              \/ UNCHANGED Outer!vars
  <1>1. Running
    BY DEF CallHook, HookReturns, HookFails, Refuse, NextObject, Finish, Waiting
  <1>2. Len(calls) \in Nat /\ Outermost \in Nat
    BY OutermostAssumption, LenProperties DEF IInv
  <1>3. CASE CallHook
    <2> DEFINE c == [Top EXCEPT !.hook = NextHook, !.next = VersionAfter]
    <2>1. Step(c)
      BY <1>3 DEF CallHook
    <2>2. InHooks' /\ IF Len(calls) > Outermost THEN UNCHANGED Outer!vars ELSE Outer!Step(c)
      BY <1>1, <2>1, StepMaps
    <2>3. CASE ~ Len(calls) > Outermost
      <3>1. Visible(calls) = calls
        BY <1>2, <2>3, AllVisible
      <3>2. c = [Outer!Top EXCEPT !.hook = Outer!NextHook, !.next = Outer!VersionAfter]
        BY <3>1, OuterTop
      <3> HIDE DEF c
      <3>3. Outer!CallHook
        BY <1>3, <2>2, <2>3, <3>1, <3>2, OuterTop DEF CallHook, Outer!CallHook
      <3>4. QED
        BY <2>2, <3>3
    <2>4. QED
      BY <2>2, <2>3
  <1>4. CASE HookReturns
    <2> DEFINE c == [Top EXCEPT !.hook = NoFunction, !.next = 0, !.todo[1].version = Top.next]
    <2>1. Step(c)
      BY <1>4 DEF HookReturns
    <2>2. InHooks' /\ IF Len(calls) > Outermost THEN UNCHANGED Outer!vars ELSE Outer!Step(c)
      BY <1>1, <2>1, StepMaps
    <2>3. CASE ~ Len(calls) > Outermost
      <3>1. Visible(calls) = calls
        BY <1>2, <2>3, AllVisible
      <3>2. c = [Outer!Top EXCEPT !.hook = NoFunction, !.next = 0,
                                  !.todo[1].version = Outer!Top.next]
        BY <3>1, OuterTop
      <3> HIDE DEF c
      <3>3. Outer!HookReturns
        BY <1>4, <2>2, <2>3, <3>1, <3>2, OuterTop DEF HookReturns, Outer!HookReturns
      <3>4. QED
        BY <2>2, <3>3
    <2>4. QED
      BY <2>2, <2>3
  <1>5. CASE HookFails \/ Refuse
    <2>1. Leave(Failed) /\ Library
      BY <1>5 DEF HookFails, Refuse, Fail
    <2>2. /\ InHooks'
          /\ IF Len(calls) > Outermost THEN UNCHANGED Outer!vars
             ELSE Outer!Leave(Failed) /\ Outer!Library
      BY <1>1, <2>1, LeaveMaps
    <2>3. CASE ~ Len(calls) > Outermost
      <3>1. Visible(calls) = calls
        BY <1>2, <2>3, AllVisible
      <3>2. Outer!Fail
        BY <2>2, <2>3, OuterConstants DEF Outer!Fail
      <3>3. Outer!HookFails \/ Outer!Refuse
        BY <1>5, <3>1, <3>2, OuterTop DEF HookFails, Outer!HookFails, Refuse, Outer!Refuse
      <3>4. QED
        BY <2>2, <3>3
    <2>4. QED
      BY <2>2, <2>3
  <1>6. CASE NextObject
    <2> DEFINE o == IF Top.kind = "read" /\ Object.schema \in Schemas
                      THEN [Object EXCEPT !.version = Current[Object.schema]]
                      ELSE Object
               c == [Top EXCEPT !.todo = Tail(@), !.done = Append(@, o)]
    <2>1. Step(c)
      BY <1>6 DEF NextObject, Done
    <2>2. InHooks' /\ IF Len(calls) > Outermost THEN UNCHANGED Outer!vars ELSE Outer!Step(c)
      BY <1>1, <2>1, StepMaps
    <2>3. CASE ~ Len(calls) > Outermost
      <3>1. Visible(calls) = calls
        BY <1>2, <2>3, AllVisible
      <3>2. o = IF Outer!Top.kind = "read" /\ Outer!Object.schema \in Schemas
                  THEN [Outer!Object EXCEPT !.version = Current[Outer!Object.schema]]
                  ELSE Outer!Object
        BY <3>1, OuterTop
      <3> HIDE DEF o
      <3>3. c = [Outer!Top EXCEPT !.todo = Tail(@), !.done = Append(@, o)]
        BY <3>1, OuterTop
      <3> HIDE DEF c
      <3>4. Outer!Done(o)
        BY <2>2, <2>3, <3>3 DEF Outer!Done
      <3>5. Outer!NextObject
        BY <1>6, <3>1, <3>2, <3>4, OuterTop DEF NextObject, Outer!NextObject
      <3>6. QED
        BY <2>2, <3>5
    <2>4. QED
      BY <2>2, <2>3
  <1>7. CASE Finish
    <2> DEFINE r == Result(IF Top.kind = "write" THEN "written" ELSE "built", Top.done, Top.asked)
    <2>1. Leave(r) /\ Library
      BY <1>7 DEF Finish
    <2>2. /\ InHooks'
          /\ IF Len(calls) > Outermost THEN UNCHANGED Outer!vars
             ELSE Outer!Leave(r) /\ Outer!Library
      BY <1>1, <2>1, LeaveMaps
    <2>3. CASE ~ Len(calls) > Outermost
      <3>1. Visible(calls) = calls
        BY <1>2, <2>3, AllVisible
      <3>2. r = Outer!Result(IF Outer!Top.kind = "write" THEN "written" ELSE "built",
                             Outer!Top.done, Outer!Top.asked)
        BY <3>1, OuterTop, OuterConstants
      <3> HIDE DEF r
      <3>3. Outer!Finish
        BY <1>7, <2>2, <2>3, <3>1, <3>2, OuterTop DEF Finish, Outer!Finish
      <3>4. QED
        BY <2>2, <3>3
    <2>4. QED
      BY <2>2, <2>3
  <1>8. QED
    BY <1>3, <1>4, <1>5, <1>6, <1>7

LEMMA NextMaps == IInv /\ InHooks /\ [Next]_vars => InHooks' /\ [Outer!Next]_Outer!vars
  <1> SUFFICES ASSUME IInv, InHooks, [Next]_vars
               PROVE  InHooks' /\ (Outer!Next \/ UNCHANGED Outer!vars)
    OBVIOUS
  <1>1. CASE \E h \in Hooks, slot \in Slots, f \in Functions : Register(h, slot[1], slot[2], f)
    <2>1. UNCHANGED calls
      BY <1>1 DEF Register
    <2>2. Outer!Next
      BY <1>1, SharedMaps, OuterConstants DEF Outer!Next
    <2>3. QED
      BY <2>1, <2>2 DEF InHooks
  <1>2. CASE \E f \in Functions : Forget(f) \/ Collect(f)
    <2>1. UNCHANGED calls
      BY <1>2 DEF Forget, Collect
    <2>2. Outer!Next
      BY <1>2, SharedMaps DEF Outer!Next
    <2>3. QED
      BY <2>1, <2>2 DEF InHooks
  <1>3. CASE \E t \in Trees, r \in Requests : to_json(t, r)
    BY <1>3, ToJsonMaps DEF Outer!Next
  <1>4. CASE \E d \in Documents : from_json(d)
    BY <1>4, FromJsonMaps DEF Outer!Next
  <1>5. CASE CallHook \/ HookReturns \/ HookFails \/ Refuse \/ NextObject \/ Finish
    BY <1>5, WorkMaps DEF Outer!Next
  <1>6. CASE UNCHANGED vars
    BY <1>6 DEF vars, InHooks, Outer!vars, VisibleResult, Nothing, Result
  <1>7. QED
    BY <1>1, <1>2, <1>3, <1>4, <1>5, <1>6 DEF Next

LEMMA InitMaps == Init => InHooks /\ Outer!Init
  <1> SUFFICES ASSUME Init PROVE InHooks /\ Outer!Init
    OBVIOUS
  <1>1. InHooks /\ Len(calls) = 0
    BY DEF Init, InHooks
  <1>2. Visible(calls) = <<>> /\ VisibleResult = Outer!Nothing
    BY <1>1, OutermostAssumption, OuterConstants DEF Init, Visible, VisibleResult
  <1>3. QED
    BY <1>1, <1>2 DEF Init, Outer!Init, Outer!Hooks, Hooks, Outer!Versions, Versions

(* InnerCallsUnseen for every instance: a call keeps its targets, its      *)
(* place in the traversal and its result to itself, so what calls inside   *)
(* its hooks do comes to it only by what they register and forget, which   *)
(* the hook could have done without them.                                  *)
THEOREM OuterCallsUndisturbed == Spec => InnerCallsUnseen
  <1>1. Spec => [](IInv /\ InHooks)
    BY InitGood, InitMaps, NextGood, NextMaps, PTL DEF Spec
  <1>2. QED
    BY <1>1, InitMaps, NextMaps, PTL DEF Spec, InnerCallsUnseen, Outer!Spec
=============================================================================
