-------------------------- MODULE ClipMediaProofs ---------------------------
(***************************************************************************)
(* ClipMedia's properties for any keys, references, lists and JSON texts.  *)
(***************************************************************************)
EXTENDS ClipMedia, MemberLemmas, TimeLemmas

(* The map of the entries of a list, of equal names the last.              *)
AsMap(list) ==
    [k \in Range(list.names) |->
       list.elements[Max({i \in DOMAIN list.names : list.names[i] = k})]]

(* The list that the last accepted set_media_references took had the names *)
(* of a map, and the clip still has that map and its active key.           *)
TakenKept ==
    last.op = "all" /\ last.ok =>
      LET list == last.taken.list IN
      /\ list.names \in Seq(AllKeys \cup {NaKey, EmptyKey})
      /\ IsInjective(list.names)
      /\ refs = AsMap(list)
      /\ active = last.taken.key

(* The clip's map has finitely many keys and entries that are references   *)
(* or null; a list that was read has the keys and entries of such a map,   *)
(* once each; a range is one C++ can have.                                 *)
MapKeys == AllKeys \cup {EmptyKey}
Entries == AllRefs \cup {NoRef}

IsMap(f)     == IsFiniteSet(DOMAIN f) /\ DOMAIN f \subseteq MapKeys /\ Range(f) \subseteq Entries
IsList(list) == /\ list.names \in Seq(MapKeys) /\ IsInjective(list.names)
                /\ list.elements \in [DOMAIN list.names -> Entries]

MapsOk   == IsMap(refs) /\ IsList(kept.list) /\ {active, kept.key} \subseteq MapKeys
RangesOk == ranges = [r \in AllRefs |-> ranges[r]] /\ \A r \in AllRefs : IsOptRange(ranges[r])

(* What R code may pass as a list with names.                              *)
Passed(list) == /\ list.names \in Seq(AllKeys \cup {NaKey, EmptyKey})
                /\ list.elements \in [DOMAIN list.names -> Entries \cup {NotRef}]

(* Of the first n entries of a list, m is the map: none of their names is  *)
(* missing or occurs twice, and they are references.                       *)
MapOf(list, n, m) ==
    /\ n \in 0..Len(list.names)
    /\ m = [k \in DOMAIN m |-> m[k]] /\ IsFiniteSet(DOMAIN m)
    /\ \A k \in DOMAIN m : \E i \in 1..n : list.names[i] = k
    /\ \A i \in 1..n : /\ list.names[i] \in DOMAIN m \ {NaKey}
                       /\ m[list.names[i]] = list.elements[i]
                       /\ list.elements[i] \in AllRefs
    /\ \A i, j \in 1..n : list.names[i] = list.names[j] => i = j

IsFrame(f) == f = [op |-> f.op, list |-> f.list, key |-> f.key, done |-> f.done, map |-> f.map]

(* A running call has taken part of its list, which for a restored one is  *)
(* still the list that was read.                                           *)
FrameOk ==
    InCall => /\ Passed(frame.list) /\ MapOf(frame.list, frame.done, frame.map)
              /\ frame.op \in {"all", "restore"} /\ last.op = "begin"
              /\ frame.op = "restore" => frame.list = kept.list /\ frame.key = kept.key
              /\ IsFrame(frame)
              /\ \A i \in 1..frame.done : frame.list.elements[i] \in Held

(* The inductive invariant.                                                *)
IInv == MapsOk /\ RangesOk /\ RangesFinite /\ TakenKept /\ FrameOk

-----------------------------------------------------------------------------
(* Lists and maps.                                                         *)

(* A sequence without repetitions has as many elements as its range.       *)
LEMMA AsManyAsRange ==
    ASSUME NEW S, NEW names \in Seq(S), IsInjective(names)
    PROVE  /\ DOMAIN names = 1..Len(names) /\ Range(names) \subseteq S
           /\ IsFiniteSet(Range(names)) /\ Cardinality(Range(names)) = Len(names)
  <1> DEFINE n == Len(names)
             R == Range(names)
  <1>1. n \in Nat /\ names \in [1..n -> R] /\ DOMAIN names = 1..n /\ R \subseteq S
    BY DEF Range
  <1>2. names \in Bijection(1..n, R)
    BY <1>1 DEF Bijection, Injection, Surjection, Range
  <1>3. IsFiniteSet(1..n) /\ Cardinality(1..n) = n
    BY <1>1, FS_Interval
  <1>4. IsFiniteSet(R) /\ Cardinality(R) = n
    BY <1>2, <1>3, FS_Bijection DEF ExistsBijection
  <1>5. QED
    BY <1>1, <1>4

(* A map made of a list with distinct names has the list's entries.        *)
LEMMA MapHasEntries ==
    ASSUME NEW S, NEW list, list.names \in Seq(S), IsInjective(list.names)
    PROVE  /\ DOMAIN AsMap(list) = Range(list.names)
           /\ \A i \in DOMAIN list.names : AsMap(list)[list.names[i]] = list.elements[i]
  <1>1. ASSUME NEW i \in DOMAIN list.names
        PROVE  AsMap(list)[list.names[i]] = list.elements[i]
    <2>1. {k \in DOMAIN list.names : list.names[k] = list.names[i]} = {i}
      BY DEF IsInjective
    <2>2. i \in Int /\ Max({i}) = i
      BY DEF Max
    <2>3. list.names[i] \in Range(list.names)
      BY DEF Range
    <2>4. QED
      BY <2>1, <2>2, <2>3 DEF AsMap
  <1>2. QED
    BY <1>1 DEF AsMap

(* Such a list, made a map, is read back.                                  *)
LEMMA ReadsBack ==
    ASSUME NEW S, NEW list, list.names \in Seq(S), IsInjective(list.names)
    PROVE  SameEntries(MediaList(AsMap(list)), list)
  <1> DEFINE f == AsMap(list)
             keys == SetToSeq(DOMAIN f)
  <1>1. /\ DOMAIN f = Range(list.names)
        /\ \A i \in DOMAIN list.names : f[list.names[i]] = list.elements[i]
    BY MapHasEntries
  <1>2. /\ IsFiniteSet(Range(list.names))
        /\ Cardinality(Range(list.names)) = Len(list.names)
        /\ DOMAIN list.names = 1..Len(list.names)
    BY AsManyAsRange
  <1>3. /\ DOMAIN keys = DOMAIN list.names /\ Len(keys) = Len(list.names)
        /\ Range(keys) = Range(list.names)
    BY <1>1, <1>2, SetInOrder
  <1>4. /\ MediaList(f).names = keys
        /\ \A i \in DOMAIN keys : MediaList(f).elements[i] = f[keys[i]]
    BY DEF MediaList
  <1> HIDE DEF keys, f
  <1>5. \A i \in DOMAIN keys : \E j \in DOMAIN list.names : keys[i] = list.names[j]
    BY <1>3 DEF Range
  <1>6. SameEntries(MediaList(f), list)
    <2>1. ASSUME NEW i \in DOMAIN keys
          PROVE  \E j \in DOMAIN list.names :
                    keys[i] = list.names[j] /\ MediaList(f).elements[i] = list.elements[j]
      <3>1. PICK j \in DOMAIN list.names : keys[i] = list.names[j]
        BY <1>5
      <3>2. f[list.names[j]] = list.elements[j] /\ MediaList(f).elements[i] = f[keys[i]]
        BY <1>1, <1>4
      <3>3. QED
        BY <3>1, <3>2
    <2>2. QED
      BY <1>3, <1>4, <2>1 DEF SameEntries
  <1>7. QED
    BY <1>6 DEF f

(* What media_references returns for a map, and what set_media_references  *)
(* makes of a list that passed its checks.                                 *)
LEMMA MapIsRead ==
    ASSUME NEW f, IsMap(f)
    PROVE  IsList(MediaList(f))
  <1> DEFINE keys == SetToSeq(DOMAIN f)
             list == MediaList(f)
  <1>1. keys \in Seq(DOMAIN f) /\ IsInjective(keys) /\ Range(keys) = DOMAIN f
    BY SetInOrder DEF IsMap
  <1>2. list.names = keys /\ list.elements = [i \in DOMAIN keys |-> f[keys[i]]]
    BY DEF MediaList
  <1> HIDE DEF keys, list
  <1>3. keys \in Seq(MapKeys)
    BY <1>1 DEF IsMap
  <1>4. \A i \in DOMAIN keys : f[keys[i]] \in Entries
    BY <1>1 DEF IsMap, Range
  <1>5. IsList(list)
    BY <1>1, <1>2, <1>3, <1>4 DEF IsList
  <1>6. QED
    BY <1>5 DEF list

LEMMA HeldAreReferences == Held \subseteq AllRefs
  BY DEF Held, AllRefs

(* A list has as many names as elements.                                   *)
LEMMA SameLength ==
    ASSUME NEW list, Passed(list)
    PROVE  /\ Len(list.elements) = Len(list.names) /\ Len(list.names) \in Nat
           /\ DOMAIN list.names = 1..Len(list.names)
  <1>1. list.names \in Seq(AllKeys \cup {NaKey, EmptyKey}) /\ DOMAIN list.names = 1..Len(list.names)
    BY DEF Passed
  <1>2. list.elements \in Seq(Entries \cup {NotRef}) /\ DOMAIN list.elements = 1..Len(list.names)
    BY <1>1 DEF Passed
  <1>3. QED
    BY <1>1, <1>2

LEMMA EmptyMap ==
    ASSUME NEW list, Passed(list)
    PROVE  MapOf(list, 0, <<>>)
  BY SameLength, FS_EmptySet DEF MapOf

(* The loop's map with one entry more.                                     *)
LEMMA NextEntry ==
    ASSUME NEW list, Passed(list), NEW n, NEW m, MapOf(list, n, m), n < Len(list.names),
           EntryOk(list.names[n + 1], list.elements[n + 1], m)
    PROVE  MapOf(list, n + 1, With(m, list.names[n + 1], list.elements[n + 1]))
  <1> DEFINE k == list.names[n + 1]
             r == list.elements[n + 1]
             f == With(m, k, r)
  <1>1. Len(list.names) \in Nat /\ n \in Nat /\ n + 1 \in 0..Len(list.names)
    BY SameLength DEF MapOf
  <1>2. k \notin DOMAIN m /\ k # NaKey /\ r \in AllRefs
    BY HeldAreReferences DEF EntryOk
  <1>3. /\ f = [q \in DOMAIN f |-> f[q]] /\ DOMAIN f = DOMAIN m \cup {k}
        /\ f[k] = r /\ \A q \in DOMAIN m : q # k => f[q] = m[q]
    BY DEF With
  <1>4. IsFiniteSet(DOMAIN f)
    BY <1>3, FS_AddElement DEF MapOf
  <1> HIDE DEF f
  <1>5. \A i \in 1..(n + 1) : i \in 1..n \/ (i = n + 1 /\ list.names[i] = k /\ list.elements[i] = r)
    BY <1>1
  <1> HIDE DEF k, r
  <1>6. /\ \A q \in DOMAIN m : \E i \in 1..n : list.names[i] = q
        /\ \A i \in 1..n : /\ list.names[i] \in DOMAIN m \ {NaKey}
                           /\ m[list.names[i]] = list.elements[i]
                           /\ list.elements[i] \in AllRefs
        /\ \A i, j \in 1..n : list.names[i] = list.names[j] => i = j
    BY DEF MapOf
  <1>7. \A q \in DOMAIN f : \E i \in 1..(n + 1) : list.names[i] = q
    <2>1. n + 1 \in 1..(n + 1) /\ list.names[n + 1] = k /\ 1..n \subseteq 1..(n + 1)
      BY <1>1 DEF k
    <2>2. QED
      BY <1>3, <1>6, <2>1
  <1>8. \A i \in 1..(n + 1) : /\ list.names[i] \in DOMAIN f \ {NaKey}
                             /\ f[list.names[i]] = list.elements[i]
                             /\ list.elements[i] \in AllRefs
    BY <1>2, <1>3, <1>5, <1>6
  <1>9. \A i, j \in 1..(n + 1) : list.names[i] = list.names[j] => i = j
    BY <1>2, <1>5, <1>6
  <1>10. MapOf(list, n + 1, f)
    BY <1>1, <1>3, <1>4, <1>7, <1>8, <1>9 DEF MapOf
  <1>11. QED
    BY <1>10 DEF f, k, r

(* When the loop is over the map is that of the list.                      *)
LEMMA WholeMap ==
    ASSUME NEW list, Passed(list), NEW m, MapOf(list, Len(list.names), m)
    PROVE  /\ m = AsMap(list) /\ IsInjective(list.names)
           /\ DOMAIN m = Range(list.names) /\ IsMap(m)
  <1>1. /\ Len(list.names) \in Nat /\ DOMAIN list.names = 1..Len(list.names)
        /\ list.names \in Seq(AllKeys \cup {NaKey, EmptyKey})
    BY SameLength DEF Passed
  <1>2. IsInjective(list.names)
    BY <1>1 DEF MapOf, IsInjective
  <1>3. DOMAIN m = Range(list.names)
    <2>1. \A k \in DOMAIN m : \E i \in DOMAIN list.names : list.names[i] = k
      BY <1>1 DEF MapOf
    <2>2. \A i \in DOMAIN list.names : list.names[i] \in DOMAIN m
      BY <1>1 DEF MapOf
    <2>3. QED
      BY <2>1, <2>2 DEF Range
  <1>4. /\ DOMAIN AsMap(list) = Range(list.names)
        /\ \A i \in DOMAIN list.names : AsMap(list)[list.names[i]] = list.elements[i]
    BY <1>1, <1>2, MapHasEntries
  <1>5. \A k \in DOMAIN m : m[k] = AsMap(list)[k] /\ m[k] \in AllRefs /\ k \in MapKeys
    <2> SUFFICES ASSUME NEW k \in DOMAIN m
                 PROVE  m[k] = AsMap(list)[k] /\ m[k] \in AllRefs /\ k \in MapKeys
      OBVIOUS
    <2>1. PICK i \in 1..Len(list.names) : list.names[i] = k
      BY DEF MapOf
    <2>2. m[k] = list.elements[i] /\ m[k] \in AllRefs /\ k # NaKey
      BY <2>1 DEF MapOf
    <2>3. AsMap(list)[k] = list.elements[i]
      BY <1>1, <1>4, <2>1
    <2>4. k \in AllKeys \cup {NaKey, EmptyKey}
      BY <1>1, <2>1
    <2>5. QED
      BY <2>2, <2>3, <2>4 DEF MapKeys
  <1>6. m = AsMap(list)
    <2>1. AsMap(list) = [k \in Range(list.names) |-> AsMap(list)[k]]
      BY DEF AsMap
    <2>2. m = [k \in DOMAIN m |-> m[k]]
      BY DEF MapOf
    <2>3. QED
      BY <1>3, <1>5, <2>1, <2>2
  <1>7. IsMap(m)
    BY <1>5 DEF IsMap, MapOf, Range, Entries
  <1>8. QED
    BY <1>2, <1>3, <1>6, <1>7

-----------------------------------------------------------------------------
(* The steps.                                                              *)

(* The lists that R code passes.                                           *)
LEMMA PassedList ==
    ASSUME NEW list \in Lists, list.elements # <<>> => list.names # <<>>
    PROVE  Passed(list)
  <1>1. Elements \subseteq Entries \cup {NotRef}
    BY HeldAreReferences DEF Elements, Entries
  <1>2. CASE list \in [names : {<<>>}, elements : [{1} -> Elements]]
    <2>1. list.names = <<>> /\ list.elements \in [{1} -> Elements]
      BY <1>2
    <2>2. list.elements # <<>>
      BY <2>1
    <2>3. QED
      BY <2>1, <2>2
  <1>3. CASE \E n \in NameLists : list \in [names : {n}, elements : [DOMAIN n -> Elements]]
    <2>1. PICK n \in NameLists : list \in [names : {n}, elements : [DOMAIN n -> Elements]]
      BY <1>3
    <2>2. list.names = n /\ list.elements \in [DOMAIN n -> Elements]
      BY <2>1
    <2>3. QED
      BY <1>1, <2>2, ClipAssumption DEF Passed
  <1>4. QED
    BY <1>2, <1>3 DEF Lists

LEMMA InitGood == Init => IInv
  <1> SUFFICES ASSUME Init PROVE IInv
    OBVIOUS
  <1>1. PICK r \in Refs : refs = [k \in {DefaultKey} |-> r]
    BY DEF Init
  <1>2. /\ active = DefaultKey /\ ranges = [q \in AllRefs |-> {}]
        /\ kept = Assignment(MediaList(refs), active) /\ last = Result("new", TRUE, Nothing)
        /\ frame = NoFrame
    BY DEF Init
  <1>3. IsMap(refs) /\ active \in MapKeys
    BY <1>1, <1>2, FS_Singleton DEF IsMap, Range, MapKeys, Entries, AllKeys, AllRefs
  <1>4. kept.list = MediaList(refs) /\ kept.key = active
    BY <1>2 DEF Assignment
  <1>5. MapsOk
    BY <1>3, <1>4, MapIsRead DEF MapsOk
  <1>6. RangesOk /\ RangesFinite
    BY <1>2 DEF RangesOk, RangesFinite, IsOptRange, AllRefs
  <1>7. TakenKept /\ FrameOk
    BY <1>2 DEF TakenKept, Result, FrameOk, InCall, NoFrame
  <1>8. QED
    BY <1>5, <1>6, <1>7 DEF IInv

(* A call that takes no list, and leaves the ranges of R code's references *)
(* alone.                                                                  *)
LEMMA OtherStep ==
    ASSUME IInv, MapsOk', RangesOk', \A r \in Refs : ranges'[r] = ranges[r],
           last'.op # "all", ~InCall'
    PROVE  IInv'
  BY DEF IInv, RangesFinite, TakenKept, FrameOk

(* A refused call leaves nothing but its result.                           *)
LEMMA RefuseStep ==
    ASSUME NEW op, Refuse(op)
    PROVE  /\ ~InCall' /\ UNCHANGED <<refs, active, ranges, kept>>
           /\ last'.op = op /\ ~last'.ok
           /\ IInv => IInv'
  <1>1. /\ ~InCall' /\ UNCHANGED <<refs, active, ranges, kept>>
        /\ last'.op = op /\ ~last'.ok
    BY DEF Refuse, InCall, Call, Result
  <1>2. IInv => MapsOk' /\ RangesOk' /\ RangesFinite' /\ TakenKept' /\ FrameOk'
    BY <1>1 DEF IInv, MapsOk, RangesOk, RangesFinite, TakenKept, FrameOk
  <1>3. QED
    BY <1>1, <1>2 DEF IInv

(* set_media_references begins.                                            *)
LEMMA BeginStep ==
    ASSUME IInv, NEW op \in {"all", "restore"}, NEW list, NEW key, BeginSet(op, list, key),
           (list.elements # <<>> => list.names # <<>>) => Passed(list),
           op = "restore" => list = kept.list /\ key = kept.key
    PROVE  /\ IInv' /\ UNCHANGED <<refs, active, ranges, kept>>
           /\ \/ last'.op = op /\ ~last'.ok
                 /\ (KeyOk(key) => list.elements # <<>> /\ list.names = <<>>)
              \/ last'.op = "begin" /\ InCall'
  <1>1. CASE Refuse(op) /\ (KeyOk(key) => list.elements # <<>> /\ list.names = <<>>)
    BY <1>1, RefuseStep
  <1>2. CASE /\ list.elements # <<>> => list.names # <<>>
             /\ frame' = [op |-> op, list |-> list, key |-> key, done |-> 0, map |-> <<>>]
             /\ Call("begin", TRUE) /\ UNCHANGED <<refs, active, ranges, kept>>
    <2>1. /\ frame'.op = op /\ frame'.list = list /\ frame'.key = key
          /\ frame'.done = 0 /\ frame'.map = <<>>
      BY <1>2
    <2>2. last'.op = "begin"
      BY <1>2 DEF Call, Result
    <2>3. Passed(list) /\ MapOf(list, 0, <<>>)
      BY <1>2, EmptyMap
    <2>4. FrameOk' /\ InCall'
      <3>1. IsFrame(frame)'
        BY <1>2, <2>1 DEF IsFrame
      <3>2. QED
        BY <1>2, <2>1, <2>2, <2>3, <3>1 DEF FrameOk, InCall, NoFrame
    <2>5. IInv'
      BY <1>2, <2>2, <2>4 DEF IInv, MapsOk, RangesOk, RangesFinite, TakenKept
    <2>6. QED
      BY <1>2, <2>2, <2>4, <2>5
  <1>3. QED
    BY <1>1, <1>2 DEF BeginSet

(* An entry is taken, or the call refused.                                 *)
LEMMA TakeStep ==
    ASSUME IInv, TakeEntry
    PROVE  /\ IInv' /\ UNCHANGED <<refs, active, ranges, kept>>
           /\ \/ InCall' /\ last' = last
              \/ /\ ~last'.ok /\ last'.op = frame.op /\ frame.done + 1 \in DOMAIN frame.list.names
                 /\ ~EntryOk(frame.list.names[frame.done + 1], frame.list.elements[frame.done + 1],
                             frame.map)
  <1> DEFINE i == frame.done + 1
             k == frame.list.names[i]
             r == frame.list.elements[i]
  <1>1. /\ Passed(frame.list) /\ MapOf(frame.list, frame.done, frame.map)
        /\ frame.op \in {"all", "restore"} /\ last.op = "begin"
        /\ frame.op = "restore" => frame.list = kept.list /\ frame.key = kept.key
        /\ \A j \in 1..frame.done : frame.list.elements[j] \in Held
    BY DEF TakeEntry, IInv, FrameOk
  <1>2. frame.done < Len(frame.list.names) /\ i \in DOMAIN frame.list.names
    BY <1>1, SameLength DEF TakeEntry, MapOf
  <1>3. Entry(i).key = k /\ Entry(i).ref = r
    BY DEF Entry
  <1> HIDE DEF i, k, r
  <1>4. CASE Refuse(frame.op) /\ ~EntryOk(k, r, frame.map)
    <2>1. IInv' /\ UNCHANGED <<refs, active, ranges, kept>> /\ ~last'.ok /\ last'.op = frame.op
      BY <1>4, RefuseStep
    <2>2. QED
      BY <1>2, <1>4, <2>1 DEF i, k, r
  <1>5. CASE /\ EntryOk(k, r, frame.map)
             /\ frame' = [frame EXCEPT !.done = i, !.map = With(frame.map, k, r)]
             /\ UNCHANGED <<refs, active, ranges, kept, last>>
    <2>1. MapOf(frame.list, i, With(frame.map, k, r))
      BY <1>1, <1>2, <1>5, NextEntry DEF i, k, r
    <2>2. frame = [op |-> frame.op, list |-> frame.list, key |-> frame.key,
                   done |-> frame.done, map |-> frame.map]
      BY DEF IInv, FrameOk, TakeEntry, IsFrame
    <2>3. /\ frame'.op = frame.op /\ frame'.list = frame.list /\ frame'.key = frame.key
          /\ frame'.done = i /\ frame'.map = With(frame.map, k, r)
      BY <1>5, <2>2
    <2>4. FrameOk' /\ InCall'
      <3>1. IsFrame(frame)'
        BY <1>5, <2>2, <2>3 DEF IsFrame
      <3>2. \A j \in 1..i : frame.list.elements[j] \in Held
        <4>1. frame.done \in Int
          BY <1>1, SameLength DEF MapOf
        <4>2. 1..i = 1..frame.done \cup {i}
          BY <1>2, <4>1, SameLength, <1>1 DEF i, MapOf
        <4>3. r \in Held
          BY <1>5 DEF EntryOk
        <4>4. QED
          BY <1>1, <4>2, <4>3 DEF r
      <3>3. Held' = Held
        BY <1>5 DEF Held, Used
      <3>4. QED
        BY <1>1, <1>5, <2>1, <2>3, <3>1, <3>2, <3>3 DEF FrameOk, InCall, TakeEntry
    <2>5. IInv'
      BY <1>5, <2>4 DEF IInv, MapsOk, RangesOk, RangesFinite, TakenKept
    <2>6. QED
      BY <1>5, <2>4, <2>5
  <1>6. TakeEntry => (\/ Refuse(frame.op) /\ ~EntryOk(k, r, frame.map)
                      \/ /\ EntryOk(k, r, frame.map)
                         /\ frame' = [frame EXCEPT !.done = i, !.map = With(frame.map, k, r)]
                         /\ UNCHANGED <<refs, active, ranges, kept, last>>)
    BY <1>3 DEF TakeEntry, i
  <1>7. QED
    BY <1>4, <1>5, <1>6

(* The call ends: the clip gets the whole map, or nothing.                 *)
LEMMA EndStep ==
    ASSUME IInv, EndSet
    PROVE  /\ IInv' /\ UNCHANGED <<ranges, kept>> /\ ~InCall' /\ last'.op = frame.op
           /\ Passed(frame.list) /\ IsInjective(frame.list.names)
           /\ last'.ok <=> IsMediaMap(frame.list, frame.key)
           /\ IF last'.ok
                THEN /\ refs' = AsMap(frame.list) /\ active' = frame.key
                     /\ active' \in DOMAIN refs'
                ELSE /\ UNCHANGED <<refs, active>>
                     /\ ~ValidKey(frame.key, Range(frame.list.names))
  <1>1. /\ Passed(frame.list) /\ MapOf(frame.list, Len(frame.list.names), frame.map)
        /\ frame.op \in {"all", "restore"}
    BY SameLength DEF EndSet, IInv, FrameOk
  <1>2. /\ frame.map = AsMap(frame.list) /\ IsInjective(frame.list.names)
        /\ DOMAIN frame.map = Range(frame.list.names) /\ IsMap(frame.map)
    BY <1>1, WholeMap
  <1>3. /\ Range(frame.list.elements) \subseteq Held
        /\ NaKey \notin Range(frame.list.names)
    <2>1. DOMAIN frame.list.elements = 1..Len(frame.list.names)
      BY <1>1, SameLength DEF Passed
    <2>2. frame.done = Len(frame.list.names)
      BY <1>1, SameLength DEF EndSet
    <2>3. Range(frame.list.elements) \subseteq Held
      BY <2>1, <2>2 DEF EndSet, IInv, FrameOk, Range
    <2>4. NaKey \notin Range(frame.list.names)
      BY <1>1, <1>2 DEF MapOf, Range, IsMap
    <2>5. QED
      BY <2>3, <2>4
  <1>4. IsMediaMap(frame.list, frame.key) <=> ValidKey(frame.key, DOMAIN frame.map)
    BY <1>2, <1>3 DEF IsMediaMap, ValidKey
  <1>5. CASE Refuse(frame.op) /\ ~ValidKey(frame.key, DOMAIN frame.map)
    <2>1. IInv' /\ UNCHANGED <<refs, active, ranges, kept>> /\ ~last'.ok /\ ~InCall'
          /\ last'.op = frame.op
      BY <1>5, RefuseStep
    <2>2. QED
      BY <1>1, <1>2, <1>4, <1>5, <2>1
  <1>6. CASE /\ ValidKey(frame.key, DOMAIN frame.map)
             /\ refs' = frame.map /\ active' = frame.key /\ frame' = NoFrame
             /\ last' = Result(frame.op, TRUE, Assignment(frame.list, frame.key))
             /\ UNCHANGED <<ranges, kept>>
    <2>1. /\ last'.op = frame.op /\ last'.ok
          /\ last'.taken.list = frame.list /\ last'.taken.key = frame.key
      BY <1>6 DEF Result, Assignment
    <2>2. frame.key \in DOMAIN frame.map /\ frame.key \in MapKeys
      BY <1>2, <1>6 DEF ValidKey, IsMap
    <2>3. MapsOk' /\ RangesOk' /\ RangesFinite'
      BY <1>2, <1>6, <2>2 DEF IInv, MapsOk, RangesOk, RangesFinite
    <2>4. TakenKept'
      BY <1>1, <1>2, <1>6, <2>1 DEF TakenKept, Passed
    <2>5. ~InCall' /\ FrameOk'
      BY <1>6 DEF InCall, FrameOk
    <2>6. IInv'
      BY <2>3, <2>4, <2>5 DEF IInv
    <2>7. QED
      BY <1>1, <1>2, <1>4, <1>6, <2>1, <2>2, <2>5, <2>6
  <1>7. QED
    BY <1>5, <1>6 DEF EndSet

LEMMA RestoreStep ==
    ASSUME IInv, Restore
    PROVE  /\ IInv' /\ UNCHANGED <<refs, active, ranges, kept>> /\ last'.op = "begin"
  <1>1. BeginSet("restore", kept.list, kept.key)
    BY DEF Restore
  <1>2. IsList(kept.list) /\ kept.key \in MapKeys
    BY DEF IInv, MapsOk
  <1>3. Passed(kept.list)
    BY <1>2 DEF IsList, Passed, MapKeys
  <1>4. ~(kept.list.elements # <<>> /\ kept.list.names = <<>>)
    BY <1>2, SameLength, <1>3 DEF IsList
  <1>5. KeyOk(kept.key)
    BY <1>2, ClipAssumption DEF KeyOk, MapKeys
  <1>6. QED
    BY <1>1, <1>3, <1>4, <1>5, BeginStep

LEMMA ReadStep ==
    ASSUME IInv, ~InCall, Read
    PROVE  IInv' /\ last'.op = "read" /\ ~InCall'
  <1>1. /\ UNCHANGED <<refs, active, ranges>> /\ last'.op = "read" /\ ~InCall'
        /\ kept'.list = MediaList(refs) /\ kept'.key = active
    BY DEF Read, Call, Result, Assignment, InCall
  <1>2. MapsOk' /\ RangesOk'
    BY <1>1, MapIsRead DEF IInv, MapsOk, RangesOk
  <1>3. QED
    BY <1>1, <1>2, OtherStep

LEMMA GivenStep ==
    ASSUME IInv, NEW r, NEW m, Given(r, m)
    PROVE  /\ m \in AllRefs /\ RangesOk'
           /\ \A q \in Refs : ranges'[q] = ranges[q]
  <1>1. m \in AllRefs
    BY HeldAreReferences DEF Given, AllRefs
  <1>2. CASE UNCHANGED ranges
    BY <1>1, <1>2 DEF IInv, RangesOk
  <1>3. CASE m \in Made /\ ranges' = [ranges EXCEPT ![m] = {}]
    <2>1. m \notin Refs
      BY <1>3, ClipAssumption
    <2>2. ranges = [q \in AllRefs |-> ranges[q]] /\ \A q \in AllRefs : IsOptRange(ranges[q])
      BY DEF IInv, RangesOk
    <2>3. \A q \in AllRefs : ranges'[q] = IF q = m THEN {} ELSE ranges[q]
      BY <1>3, <2>2
    <2>4. IsOptRange({})
      BY DEF IsOptRange
    <2>5. ranges' = [q \in AllRefs |-> ranges'[q]]
      BY <1>3, <2>2
    <2>6. RangesOk'
      BY <2>2, <2>3, <2>4, <2>5 DEF RangesOk
    <2>7. QED
      BY <1>1, <2>1, <2>3, <2>6 DEF AllRefs
  <1>4. QED
    BY <1>2, <1>3 DEF Given

LEMMA OneReferenceStep ==
    ASSUME IInv, ~InCall, NEW r, NewClip(r) \/ SetMediaReference(r)
    PROVE  IInv' /\ last'.op \in {"new", "one"} /\ ~InCall'
  <1>1. last'.op \in {"new", "one"} /\ UNCHANGED kept /\ ~InCall'
    BY DEF NewClip, SetMediaReference, Refuse, Call, Result, InCall
  <1>2. CASE UNCHANGED <<refs, active, ranges>>
    <2>1. MapsOk' /\ RangesOk'
      BY <1>1, <1>2 DEF IInv, MapsOk, RangesOk
    <2>2. QED
      BY <1>1, <1>2, <2>1, OtherStep
  <1>3. ASSUME NEW m, Given(r, m), refs' = [k \in {DefaultKey} |-> m], active' = DefaultKey
        PROVE  IInv'
    <2>1. m \in Entries
      BY <1>3, GivenStep DEF Entries
    <2>2. IsMap(refs') /\ active' \in MapKeys
      BY <1>3, <2>1, FS_Singleton DEF IsMap, Range, MapKeys, AllKeys
    <2>3. MapsOk'
      BY <1>1, <2>2 DEF IInv, MapsOk
    <2>4. QED
      BY <1>1, <1>3, <2>3, GivenStep, OtherStep
  <1>4. ASSUME NEW m, Given(r, m), UNCHANGED active,
               refs' = With(refs, active, m)
        PROVE  IInv'
    <2>1. m \in Entries
      BY <1>4, GivenStep DEF Entries
    <2>2. IsMap(refs) /\ active \in MapKeys
      BY DEF IInv, MapsOk
    <2>3. IsFiniteSet(DOMAIN refs \cup {active}) /\ DOMAIN refs \cup {active} \subseteq MapKeys
      BY <2>2, FS_AddElement DEF IsMap
    <2>4. \A k \in DOMAIN refs \cup {active} : refs'[k] \in Entries
      BY <1>4, <2>1, <2>2 DEF IsMap, Range, With
    <2>5. IsMap(refs')
      BY <1>4, <2>3, <2>4 DEF IsMap, Range, With
    <2>6. MapsOk'
      BY <1>1, <1>4, <2>2, <2>5 DEF IInv, MapsOk
    <2>7. QED
      BY <1>1, <1>4, <2>6, GivenStep, OtherStep
  <1>5. QED
    BY <1>1, <1>2, <1>3, <1>4 DEF NewClip, SetMediaReference, Refuse

LEMMA SetKeyStep ==
    ASSUME IInv, ~InCall, NEW key, SetActiveKey(key)
    PROVE  IInv' /\ last'.op = "key" /\ ~InCall'
  <1>1. /\ UNCHANGED <<refs, ranges, kept>> /\ last'.op = "key" /\ ~InCall'
        /\ active' = active \/ active' \in DOMAIN refs
    BY DEF SetActiveKey, Refuse, Call, Result, ValidKey, InCall
  <1>2. MapsOk' /\ RangesOk'
    BY <1>1 DEF IInv, MapsOk, RangesOk, IsMap
  <1>3. QED
    BY <1>1, <1>2, OtherStep

LEMMA SetRangeStep ==
    ASSUME IInv, ~InCall, NEW op \in {"range", "copy"}, NEW r \in AllRefs, NEW x,
           SetAvailableRange(op, r, x)
    PROVE  IInv' /\ last'.op = op /\ ~InCall'
  <1>1. last'.op = op /\ UNCHANGED <<refs, active, kept>> /\ ~InCall'
    BY DEF SetAvailableRange, Refuse, Call, Result, InCall
  <1>2. MapsOk' /\ TakenKept' /\ FrameOk'
    BY <1>1 DEF IInv, MapsOk, TakenKept, FrameOk
  <1>3. CASE UNCHANGED ranges
    BY <1>1, <1>2, <1>3 DEF IInv, RangesOk, RangesFinite
  <1>4. CASE IsOptTimeRange(x) /\ ranges' = [ranges EXCEPT ![r] = as_opt_time_range(x)]
    <2> DEFINE y == as_opt_time_range(x)
    <2>1. IsOptRange(y) /\ \A t \in y : FiniteRange(t)
      BY <1>4, AcceptedIsFinite
    <2>2. ranges = [q \in AllRefs |-> ranges[q]] /\ \A q \in AllRefs : IsOptRange(ranges[q])
      BY DEF IInv, RangesOk
    <2>3. /\ ranges' = [q \in AllRefs |-> ranges'[q]]
          /\ \A q \in AllRefs : ranges'[q] = IF q = r THEN y ELSE ranges[q]
      BY <1>4, <2>2
    <2> HIDE DEF y
    <2>4. RangesOk'
      BY <2>1, <2>2, <2>3 DEF RangesOk
    <2>5. RangesFinite'
      BY <2>1, <2>3 DEF IInv, RangesFinite, AllRefs
    <2>6. QED
      BY <1>1, <1>2, <2>4, <2>5 DEF IInv
  <1>5. QED
    BY <1>3, <1>4 DEF SetAvailableRange, Refuse

LEMMA LoadStep ==
    ASSUME IInv, ~InCall, NEW d \in Documents, Load(d)
    PROVE  IInv' /\ last'.op = "load" /\ ~InCall'
  <1> DEFINE D == DOMAIN d.media \cup d.nulls
  <1>1. PICK f \in [DOMAIN d.media -> Made \ Used] :
          /\ refs' = [k \in D |-> IF k \in d.nulls THEN NoRef ELSE f[k]]
          /\ ranges' = [r \in AllRefs |-> IF r \in Range(f)
                                            THEN d.media[CHOOSE k \in DOMAIN f : f[k] = r]
                                            ELSE ranges[r]]
    BY DEF Load
  <1>2. active' = d.active /\ UNCHANGED kept /\ last'.op = "load" /\ ~InCall'
    BY DEF Load, Call, Result, InCall
  <1>3. /\ IsFiniteSet(D) /\ D \subseteq MapKeys /\ d.active \in MapKeys
        /\ \A k \in DOMAIN d.media : IsOptRange(d.media[k])
    BY DocumentAssumption DEF MapKeys
  <1>4. \A k \in D : refs'[k] \in Entries
    BY <1>1 DEF Entries, AllRefs
  <1>5. DOMAIN refs' = D
    BY <1>1
  <1> HIDE DEF D
  <1>6. MapsOk'
    BY <1>2, <1>3, <1>4, <1>5 DEF IInv, MapsOk, IsMap, Range
  <1>7. \A r \in Refs : r \notin Range(f)
    BY <1>1, ClipAssumption DEF Range
  <1>8. \A r \in Refs : ranges'[r] = ranges[r]
    BY <1>1, <1>7 DEF AllRefs
  <1>9. ASSUME NEW r \in AllRefs PROVE IsOptRange(ranges'[r])
    <2>1. CASE r \in Range(f)
      <3> DEFINE k == CHOOSE j \in DOMAIN f : f[j] = r
      <3>1. k \in DOMAIN f
        BY <2>1 DEF Range
      <3>2. ranges'[r] = d.media[k] /\ DOMAIN f = DOMAIN d.media
        BY <1>1, <2>1
      <3> HIDE DEF k
      <3>3. QED
        BY <1>3, <3>1, <3>2
    <2>2. CASE r \notin Range(f)
      BY <1>1, <2>2 DEF IInv, RangesOk
    <2>3. QED
      BY <2>1, <2>2
  <1>10. ranges' = [r \in AllRefs |-> ranges'[r]]
    BY <1>1
  <1>11. RangesOk'
    BY <1>9, <1>10 DEF RangesOk
  <1>12. QED
    BY <1>2, <1>6, <1>8, <1>11, OtherStep

LEMMA NextGood == IInv /\ [Next]_vars => IInv'
  <1> SUFFICES ASSUME IInv, [Next]_vars PROVE IInv'
    OBVIOUS
  <1>1. CASE \E list \in Lists, key \in KeyArguments : BeginSet("all", list, key)
    BY <1>1, BeginStep, PassedList
  <1>2. CASE ~InCall /\ (Read \/ Restore)
    BY <1>2, ReadStep, RestoreStep
  <1>3. CASE ~InCall /\ \E r \in Elements \cup {NoRef} : NewClip(r) \/ SetMediaReference(r)
    BY <1>3, OneReferenceStep
  <1>4. CASE ~InCall /\ \E key \in KeyArguments : SetActiveKey(key)
    BY <1>4, SetKeyStep
  <1>5. CASE ~InCall /\ \/ \E r \in Held, x \in Ranges : SetAvailableRange("range", r, x)
                        \/ \E r, q \in Held : CopyRange(r, q)
    BY <1>5, SetRangeStep, HeldAreReferences DEF CopyRange
  <1>6. CASE ~InCall /\ \E d \in Documents : Load(d)
    BY <1>6, LoadStep
  <1>7. CASE TakeEntry \/ EndSet
    BY <1>7, TakeStep, EndStep
  <1>8. CASE UNCHANGED vars
    <2>1. Held' = Held
      BY <1>8 DEF vars, Held, Used
    <2>2. FrameOk'
      BY <1>8, <2>1 DEF vars, IInv, FrameOk, InCall
    <2>3. QED
      BY <1>8, <2>2 DEF vars, IInv, MapsOk, RangesOk, RangesFinite, TakenKept
  <1>9. QED
    BY <1>1, <1>2, <1>3, <1>4, <1>5, <1>6, <1>7, <1>8 DEF Next, Calls

-----------------------------------------------------------------------------
(* The invariant holds of every behaviour. *)
THEOREM InvariantHolds == Spec => []IInv
  <1>1. QED
    BY InitGood, NextGood, PTL DEF Spec

(* RangesFinite for every instance: whatever JSON brings, no number that   *)
(* is not finite gets into a reference of R code's own.                    *)
THEOREM RangesStayFinite == Spec => []RangesFinite
  <1>1. IInv => RangesFinite
    BY DEF IInv
  <1>2. QED
    BY <1>1, InvariantHolds, PTL

(* AcceptedReadsBack for every instance: a list that is accepted is read   *)
(* back entry by entry, whatever its length.                               *)
THEOREM ListsReadBack == Spec => []AcceptedReadsBack
  <1>1. IInv => AcceptedReadsBack
    <2> SUFFICES ASSUME IInv, last.op = "all", last.ok
                 PROVE  SameEntries(MediaList(refs), last.taken.list) /\ active = last.taken.key
      BY DEF AcceptedReadsBack
    <2>1. /\ last.taken.list.names \in Seq(AllKeys \cup {NaKey, EmptyKey})
          /\ IsInjective(last.taken.list.names)
          /\ refs = AsMap(last.taken.list) /\ active = last.taken.key
      BY DEF IInv, TakenKept
    <2>2. QED
      BY <2>1, ReadsBack
  <1>2. QED
    BY <1>1, InvariantHolds, PTL

(* ActiveStays for every instance: no call leaves the map without the      *)
(* active key.                                                             *)
THEOREM ActiveKeyStays == Spec => ActiveStays
  <1>1. IInv /\ [Next]_vars =>
          [last'.op # "load" /\ active \in DOMAIN refs => active' \in DOMAIN refs']_vars
    <2> SUFFICES ASSUME IInv, Next, last'.op # "load", active \in DOMAIN refs
                 PROVE  active' \in DOMAIN refs'
      BY DEF vars
    <2>1. CASE UNCHANGED <<refs, active>>
      BY <2>1
    <2>2. CASE \E r : NewClip(r) \/ SetMediaReference(r)
      BY <2>1, <2>2 DEF NewClip, SetMediaReference, Refuse, With
    <2>3. ASSUME NEW op, NEW list, NEW key, BeginSet(op, list, key)
          PROVE  active' \in DOMAIN refs'
      BY <2>1, <2>3 DEF BeginSet, Refuse
    <2>4. CASE \E key \in KeyArguments : SetActiveKey(key)
      BY <2>1, <2>4 DEF SetActiveKey, Refuse, ValidKey
    <2>5. CASE Read \/ (\E r, x, op : SetAvailableRange(op, r, x))
      BY <2>1, <2>5 DEF Read, SetAvailableRange, Refuse
    <2>6. CASE \E d \in Documents : Load(d)
      BY <2>6 DEF Load, Call, Result
    <2>7. CASE TakeEntry
      BY <2>1, <2>7, TakeStep
    <2>8. CASE EndSet
      BY <2>1, <2>8, EndStep
    <2>9. QED
      BY <2>2, <2>3, <2>4, <2>5, <2>6, <2>7, <2>8 DEF Next, Calls, Restore, CopyRange
  <1>2. QED
    BY <1>1, InvariantHolds, PTL DEF Spec, ActiveStays

(* What stops the loop makes the list none of a clip's.                    *)
LEMMA BadEntry ==
    ASSUME IInv, TakeEntry, ~InCall'
    PROVE  ~last'.ok /\ ~IsMediaMap(frame.list, frame.key)
  <1> DEFINE n == frame.done
             k == frame.list.names[n + 1]
             r == frame.list.elements[n + 1]
  <1>1. /\ ~last'.ok /\ n + 1 \in DOMAIN frame.list.names
        /\ ~EntryOk(k, r, frame.map)
    BY TakeStep
  <1>2. Passed(frame.list) /\ MapOf(frame.list, n, frame.map)
    BY DEF TakeEntry, IInv, FrameOk
  <1>3. k \in Range(frame.list.names) /\ r \in Range(frame.list.elements)
    BY <1>1, <1>2 DEF Passed, Range
  <1>4. CASE k \in {NaKey, EmptyKey} \/ r \notin Held
    BY <1>1, <1>3, <1>4 DEF IsMediaMap
  <1>5. CASE k \in DOMAIN frame.map
    <2>1. PICK i \in 1..n : frame.list.names[i] = k
      BY <1>2, <1>5 DEF MapOf
    <2>2. n \in 0..Len(frame.list.names) /\ DOMAIN frame.list.names = 1..Len(frame.list.names)
      BY <1>2, SameLength DEF MapOf
    <2>3. i \in DOMAIN frame.list.names /\ i # n + 1
      BY <1>2, <2>2, SameLength
    <2>4. ~IsInjective(frame.list.names)
      BY <1>1, <2>1, <2>3 DEF IsInjective
    <2>5. QED
      BY <1>1, <2>4 DEF IsMediaMap
  <1>6. QED
    BY <1>1, <1>4, <1>5 DEF EntryOk

(* RefusedChangesNothing for every instance: the only step of a call of    *)
(* set_media_references that touches the clip is the last of one that      *)
(* returns, however many entries it takes, and it returns exactly for the  *)
(* lists that are maps of references with the key among theirs.            *)
THEOREM RefusalChangesNothing == Spec => RefusedChangesNothing
  <1>1. IInv /\ [Next]_vars =>
          [/\ InCall' \/ (InCall /\ ~last'.ok) => UNCHANGED <<refs, active, ranges>>
           /\ InCall /\ ~InCall' => (last'.ok <=> IsMediaMap(frame.list, frame.key))]_vars
    <2> SUFFICES ASSUME IInv, Next
                 PROVE  /\ InCall' \/ (InCall /\ ~last'.ok) => UNCHANGED <<refs, active, ranges>>
                        /\ InCall /\ ~InCall' =>
                             (last'.ok <=> IsMediaMap(frame.list, frame.key))
      BY DEF vars
    <2>1. CASE TakeEntry
      <3>1. InCall /\ UNCHANGED <<refs, active, ranges>>
        BY <2>1, TakeStep DEF TakeEntry
      <3>2. QED
        BY <2>1, <3>1, BadEntry
    <2>2. CASE EndSet
      BY <2>2, EndStep
    <2>3. CASE ~InCall /\ Calls
      <3>1. ASSUME NEW op, NEW list, NEW key, BeginSet(op, list, key)
            PROVE  UNCHANGED <<refs, active, ranges>>
        BY <3>1 DEF BeginSet, Refuse
      <3>2. ASSUME \/ Read \/ \E r \in Elements \cup {NoRef} : NewClip(r) \/ SetMediaReference(r)
                   \/ \E key \in KeyArguments : SetActiveKey(key)
                   \/ \E op, r, x : SetAvailableRange(op, r, x)
                   \/ \E d \in Documents : Load(d)
            PROVE  ~InCall'
        BY <2>3, <3>2 DEF Read, NewClip, SetMediaReference, SetActiveKey, SetAvailableRange, Load,
                          Refuse, InCall
      <3>3. QED
        BY <2>3, <3>1, <3>2 DEF Calls, Restore, CopyRange
    <2>4. QED
      BY <2>1, <2>2, <2>3 DEF Next
  <1>2. QED
    BY <1>1, InvariantHolds, PTL DEF Spec, RefusedChangesNothing

(* CopyRestores for every instance: a list that was read is one that       *)
(* set_media_references takes, entry for entry, unless JSON had brought a  *)
(* clip that no call of R code makes.                                      *)
THEOREM CopiesRestore == Spec => CopyRestores
  <1>1. IInv /\ [Next]_vars =>
          [last'.op = "restore" =>
             IF last'.ok
               THEN SameEntries(MediaList(refs'), kept.list) /\ active' = kept.key
               ELSE \/ NoRef \in Range(kept.list.elements)
                    \/ EmptyKey \in Range(kept.list.names)
                    \/ kept.key \notin Range(kept.list.names)]_vars
    <2> DEFINE list == kept.list
               key == kept.key
    <2> SUFFICES ASSUME IInv, Next, last'.op = "restore"
                 PROVE  IF last'.ok
                          THEN SameEntries(MediaList(refs'), list) /\ active' = key
                          ELSE \/ NoRef \in Range(list.elements)
                               \/ EmptyKey \in Range(list.names) \/ key \notin Range(list.names)
      BY DEF vars
    <2>1. InCall /\ (TakeEntry \/ EndSet)
      <3>1. ~InCall => \A op \in {"range", "copy"}, r \in Held : \A x : ~SetAvailableRange(op, r, x)
        BY SetRangeStep, HeldAreReferences
      <3>2. ~InCall => ~Read /\ ~\E d \in Documents : Load(d)
        BY ReadStep, LoadStep
      <3>3. ~\E l \in Lists, k \in KeyArguments : BeginSet("all", l, k)
        BY BeginStep, PassedList
      <3>4. ~InCall => ~\E k \in KeyArguments : SetActiveKey(k)
        BY SetKeyStep
      <3>5. ~InCall => ~\E r \in Elements \cup {NoRef} : NewClip(r) \/ SetMediaReference(r)
        BY OneReferenceStep
      <3>6. ~Restore
        BY RestoreStep
      <3>7. QED
        BY <3>1, <3>2, <3>3, <3>4, <3>5, <3>6 DEF Next, Calls, CopyRange, TakeEntry, EndSet
    <2>2. IsList(list) /\ key \in MapKeys
      BY DEF IInv, MapsOk
    <2>3. /\ frame.op = "restore" => frame.list = list /\ frame.key = key
          /\ MapOf(frame.list, frame.done, frame.map) /\ last.op = "begin"
      BY <2>1 DEF IInv, FrameOk
    <2> HIDE DEF list, key
    <2>4. CASE EndSet
      <3>1. frame.list = list /\ frame.key = key
        BY <2>3, <2>4, EndStep
      <3>2. /\ last'.ok => refs' = AsMap(list) /\ active' = key
            /\ ~last'.ok => ~ValidKey(key, Range(list.names))
        BY <2>4, <3>1, EndStep
      <3>3. QED
        BY <2>2, <3>2, ReadsBack DEF IsList, ValidKey
    <2>5. CASE TakeEntry
      <3> DEFINE i == frame.done + 1
      <3>1. /\ ~last'.ok /\ last'.op = frame.op /\ i \in DOMAIN frame.list.names
            /\ ~EntryOk(frame.list.names[i], frame.list.elements[i], frame.map)
        BY <2>3, <2>5, TakeStep
      <3>2. frame.list = list
        BY <2>3, <3>1
      <3>3. frame.done \in Nat
        BY <2>3 DEF MapOf
      <3>4. /\ list.names[i] \in MapKeys /\ list.names[i] \in Range(list.names)
            /\ list.elements[i] \in Entries /\ list.elements[i] \in Range(list.elements)
        BY <2>2, <3>1, <3>2, AsManyAsRange DEF IsList, Range
      <3>5. list.names[i] \notin DOMAIN frame.map
        <4> SUFFICES ASSUME list.names[i] \in DOMAIN frame.map PROVE FALSE
          OBVIOUS
        <4>1. PICK j \in 1..frame.done : list.names[j] = list.names[i]
          BY <2>3, <3>2 DEF MapOf
        <4>2. j \in DOMAIN list.names
          BY <2>2, <2>3, <3>2, <3>3, AsManyAsRange DEF MapOf, IsList
        <4>3. j = i
          BY <2>2, <3>1, <3>2, <4>1, <4>2 DEF IsList, IsInjective
        <4>4. QED
          BY <3>3, <4>3
      <3>6. list.names[i] # NaKey
        BY <3>4, ClipAssumption DEF MapKeys
      <3>7. list.names[i] = EmptyKey \/ list.elements[i] \notin Held
        BY <3>1, <3>2, <3>5, <3>6 DEF EntryOk
      <3>8. list.elements[i] \in Used
        BY <3>4 DEF Used, list
      <3>9. QED
        BY <3>1, <3>4, <3>7, <3>8 DEF Entries, AllRefs, Held
    <2>6. QED
      BY <2>1, <2>4, <2>5
  <1>2. QED
    BY <1>1, InvariantHolds, PTL DEF Spec, CopyRestores

(* RangesMove for every instance: what available_range gives of one        *)
(* reference arrives in another as it is, or is not finite and refused.    *)
THEOREM RangesAreMoved == Spec => RangesMove
  <1>1. IInv /\ [Next]_vars =>
          [last'.op = "copy" => \A r, q \in Held : CopyRange(r, q) =>
             IF last'.ok THEN ranges'[r] = ranges[q]
                         ELSE \E t \in ranges[q] : ~FiniteRange(t)]_vars
    <2> SUFFICES ASSUME IInv, NEW r \in Held, NEW q \in Held, CopyRange(r, q)
                 PROVE  IF last'.ok THEN ranges'[r] = ranges[q]
                                    ELSE \E t \in ranges[q] : ~FiniteRange(t)
      BY DEF vars
    <2> DEFINE w == wrap_opt_time_range(ranges[q])
    <2>1. r \in AllRefs /\ q \in AllRefs
      BY HeldAreReferences
    <2>2. IsOptRange(ranges[q]) /\ DOMAIN ranges = AllRefs
      BY <2>1 DEF IInv, RangesOk
    <2>3. /\ as_opt_time_range(w) = ranges[q]
          /\ IsOptTimeRange(w) <=> \A t \in ranges[q] : FiniteRange(t)
      BY <2>2, RangeReturns
    <2>4. SetAvailableRange("copy", r, w)
      BY DEF CopyRange
    <2> HIDE DEF w
    <2>5. /\ last'.ok <=> IsOptTimeRange(w)
          /\ last'.ok => ranges' = [ranges EXCEPT ![r] = as_opt_time_range(w)]
      BY <2>4 DEF SetAvailableRange, Refuse, Call, Result
    <2>6. QED
      BY <2>1, <2>2, <2>3, <2>5
  <1>2. QED
    BY <1>1, InvariantHolds, PTL DEF Spec, RangesMove
=============================================================================
