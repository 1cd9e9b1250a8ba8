------------------------- MODULE TemplateNotesProof -------------------------
(***************************************************************************)
(* Proofs about what a notification finds.  The handles that templates are *)
(* bound to are honest (ImplStatesProof), a template is found by the name  *)
(* of its object, and what it has read is old only while a change that     *)
(* concerns it is being reported.                                          *)
(***************************************************************************)
EXTENDS TemplatesProof

----------------------------------------------------------------------------
(* The handles.                                                            *)

\* The client gives no id to two objects, so no handle is ever replaced, ...
HandleInv == CacheInv /\ tangled = << >> /\ IP!StateInv

LEMMA AllLive ==
  ASSUME HandleInv
  PROVE  /\ IP!HonestInv /\ IP!Tangled = {} /\ IP!Live = IP!Allocated
         /\ IP!Inv /\ IP!KeyInv /\ CachesOK
<1>1. IP!Tangled = {}
  BY DEF HandleInv, IP!Tangled
<1> QED BY <1>1 DEF HandleInv, CacheInv, IP!HonestInv, IP!KeyInv, IP!Live

LEMMA TangledKept ==
  ASSUME HandleInv, ~ReusesNames, Step
  PROVE  tangled' = << >>
<1>1. CASE SafeLookup
  BY <1>1, LookupsCached DEF HandleInv, LookupUnchanged
<1>2. ASSUME NEW h \in Handles, NEW new \in Ids, rename_object(h, new)
      PROVE  tangled' = << >>
  <2> DEFINE o == IP!Settled(handle[h])
             refused == o.state = "Deleted" \/ db[new] # None
  <2>1. Impl!rename_object(h, new) /\ ~Used(new)
    BY <1>2 DEF rename_object
  <2>2. IP!rename_object(h, new)
    BY <2>1, SameActions
  <2>3. \A c \in Classes : slot[c][new] = None
    BY <2>1 DEF Used
  <2>4. o.cls \in Classes
    <3>1. h \in IP!Allocated /\ IP!Inv
      BY <2>2, AllLive DEF IP!rename_object, IP!InUse
    <3>2. handle[h] \in IP!Handle
      BY <3>1, ImplAssumption, IP!AllocatedType DEF IP!Inv
    <3>3. o \in IP!Handle
      BY <3>2, ImplAssumption, IP!SettledType
    <3> QED BY <3>3 DEF IP!Handle
  <2>5. tangled' = tangled \/ IP!rename_impl_object(o.cls, o.id, new)
    BY <2>2 DEF IP!rename_object
  <2> HIDE DEF o
  <2>6. tangled' = tangled
    BY <2>3, <2>4, <2>5 DEF IP!rename_impl_object
  <2> QED BY <2>6 DEF HandleInv
<1>3. ASSUME NEW h \in Handles, destroy(h)
      PROVE  tangled' = << >>
  BY <1>3 DEF destroy, Impl!destroy_obj, HandleInv
<1>4. CASE \/ \E c \in Registered, init_object \in BOOLEAN :
                \/ \E i \in Ids : create(c, i, init_object)
                \/ \E h \in Handles : get_by_object(c, h, init_object)
           \/ \E c \in Registered : \/ \E h \in Handles, id \in Generated : generate(c, h, id)
                                    \/ \E t \in Made : cast(c, t) \/ get_algo_objects(c, t)
           \/ \E t \in Made : check_init(t) \/ unread(t)
  BY <1>4 DEF create, get_by_object, generate, cast, get_algo_objects, check_init, unread,
              implVars, HandleInv
<1>5. CASE abort \/ (\E b \in BOOLEAN : unread_all_objects(b)) \/ EndUpdate \/ unload
  BY <1>5 DEF abort, unread_all_objects, EndUpdate, unload, Impl!abort,
              Impl!unread_implementation_objects, Impl!EndUpdate, Impl!unload, implVars, HandleInv
<1>6. CASE \E removed, created, modified \in SUBSET Objects : Reload(removed, created, modified)
  BY <1>6 DEF Reload, Impl!Reload, HandleInv
<1>7. CASE BeginUpdate \/ (\E ch \in pending : UpdateNext(ch)) \/ ImplStep \/ UNCHANGED vars
  BY <1>7 DEF BeginUpdate, UpdateNext, ImplStep, vars, implVars, Impl!BeginUpdate,
              Impl!UpdateNext, Impl!get, Impl!Access, Impl!commit, HandleInv
<1> QED BY <1>1, <1>2, <1>3, <1>4, <1>5, <1>6, <1>7 DEF Step

\* ReadHandle() settles the handle and reads through it.
LEMMA ReadHandleLearns ==
  ASSUME NEW o \in IP!Handle
  PROVE  /\ IP!Learns(o, ReadHandle(o), db) /\ ReadHandle(o) \in IP!Handle
         /\ IP!Learns(o, IP!Settled(o), db) /\ IP!Settled(o) \in IP!Handle
<1>1. IP!Settled(o) \in IP!Handle /\ IP!Learns(o, IP!Settled(o), db)
  BY ImplAssumption, IP!SettledType, IP!SettledLearns
<1>2. ReadHandle(o) = IF IP!Settled(o).state = "Valid" /\ IP!Settled(o).content = "none"
                      THEN [IP!Settled(o) EXCEPT !.content = "current"] ELSE IP!Settled(o)
  BY SameState DEF ReadHandle
<1>3. IP!Learns(IP!Settled(o), ReadHandle(o), db)
  BY <1>1, <1>2, ImplAssumption, IP!ReadLearns
<1> QED BY <1>1, <1>3, ReadType, ImplAssumption, IP!LearnsTwice

LEMMA LearntLearns ==
  ASSUME HandleInv, NEW hs, Learnt(hs), NEW h \in IP!Allocated
  PROVE  hs[h] \in IP!Handle /\ IP!Learns(handle[h], hs[h], db)
<1>1. /\ \A g \in IP!Allocated : handle[g] \in IP!Handle /\ g \in Handles
      /\ handle \in [Handles -> IP!Handle \cup {None}]
  BY AllLive, ImplAssumption, IP!AllocatedType DEF IP!Inv, IP!TypeOK, IP!Allocated
<1>2. IP!Learns(handle[h], handle[h], db)
  BY DEF IP!Learns
<1>3. ASSUME NEW g \in IP!Allocated, hs = [handle EXCEPT ![g] = ReadHandle(@)]
      PROVE  hs[h] \in IP!Handle /\ IP!Learns(handle[h], hs[h], db)
  BY <1>1, <1>2, <1>3, ReadHandleLearns
<1>4. ASSUME NEW g \in IP!Allocated, hs = [handle EXCEPT ![g] = Impl!Settled(@)]
      PROVE  hs[h] \in IP!Handle /\ IP!Learns(handle[h], hs[h], db)
  <2>1. hs = [handle EXCEPT ![g] = IP!Settled(handle[g])]
    BY <1>4, SameState
  <2> QED BY <1>1, <1>2, <2>1, ReadHandleLearns
<1> QED BY <1>1, <1>2, <1>3, <1>4 DEF Learnt

\* A lookup in database d finds handles of the objects' own classes.
LEMMA FoundClass ==
  ASSUME HandleInv, IP!StableClasses, NEW d, NEW S \in SUBSET Ids,
         \A i \in S : d[i] \in Classes /\ <<d[i], i>> \in Objects,
         NEW f \in Lookups(d, S), NEW i \in S, f[i] \in IP!Allocated
  PROVE  handle[f[i]].cls = d[i] /\ handle[f[i]].id = i
<1>1. handle[f[i]].id = i /\ try_cast(d[i], handle[f[i]].cls)
  BY AllLive, FoundByName
<1>2. <<handle[f[i]].cls, i>> \in Objects
  BY <1>1 DEF HandleInv, IP!StateInv
<1>3. IP!Related(d[i], handle[f[i]].cls)
  BY <1>1 DEF try_cast, IP!Related
<1> QED BY <1>1, <1>2, <1>3 DEF IP!StableClasses

LEMMA LearntNames ==
  ASSUME HandleInv, NEW hs, Learnt(hs)
  PROVE  IP!SameNames(handle, hs)
<1>1. IP!Inv /\ IP!SameNames(handle, handle)
  BY AllLive DEF IP!SameNames, IP!Inv, IP!TypeOK
<1> QED BY <1>1, OneHandle DEF Learnt

\* Between the lookup and the read, handles are as known says: those found are
\* valid, those put are of objects that exist.
LEMMA LookupState ==
  ASSUME HandleInv, IP!StableClasses, NEW S \in SUBSET Ids, \A i \in S : db[i] \in Classes,
         NEW hs, Learnt(hs), LookedUp(S, db, hs), LookupUnchanged
  PROVE  IP!StateInv'
<1>1. PICK f \in Lookups(db, S) :
        Looked(S, db, f) /\ SomeRead({f[i] : i \in S}, Inserted(hs, db, f))
  BY DEF LookedUp
<1>2. \A i \in S : <<db[i], i>> \in Objects
  BY AllLive, ImplAssumption DEF IP!Inv, IP!TypeOK, IP!Databases, IP!ObjectAssumption
<1> DEFINE known == Inserted(hs, db, f)
<1>3. /\ known \in [Handles -> IP!Handle \cup {None}]
      /\ \A h \in Handles : (\A i \in S : f[i] # h) => known[h] = hs[h]
      /\ \A i \in S : known[f[i]] =
           IF f[i] \in IP!Allocated THEN [hs[f[i]] EXCEPT !.state = "Valid"]
           ELSE [state |-> "Valid", id |-> i, cls |-> db[i], content |-> "none"]
  BY AllLive, LearntNames, InsertedShape
<1>4. /\ IP!Allocated' = IP!Allocated \cup {f[i] : i \in S}
      /\ \A h \in Handles : \/ handle'[h] = known[h]
                            \/ handle'[h] = ReadHandle(known[h])
  BY <1>1 DEF Looked, SomeRead
<1>5. f \in [S -> Handles]
  BY <1>1 DEF Lookups
<1> HIDE DEF known
<1>6. ASSUME NEW h \in IP!Allocated
      PROVE  known[h] \in IP!Handle /\ IP!Learns(handle[h], known[h], db)
  <2>1. h \in Handles /\ hs[h] \in IP!Handle /\ IP!Learns(handle[h], hs[h], db)
    BY LearntLearns DEF IP!Allocated
  <2>2. CASE \A i \in S : f[i] # h
    BY <1>3, <2>1, <2>2
  <2>3. CASE \E i \in S : f[i] = h
    <3>1. PICK i \in S : f[i] = h
      BY <2>3
    <3>2. known[h] = [hs[h] EXCEPT !.state = "Valid"]
      BY <1>3, <3>1
    <3>3. handle[h].cls = db[i] /\ handle[h].id = i
      BY <1>1, <1>2, <3>1, FoundClass
    <3>4. db[hs[h].id] = hs[h].cls
      BY <2>1, <3>3 DEF IP!Learns
    <3>5. IP!Learns(hs[h], known[h], db)
      BY <2>1, <3>2, <3>4, ImplAssumption, IP!FoundLearns
    <3>6. known[h] \in IP!Handle
      BY <2>1, <3>2 DEF IP!Handle, IP!States
    <3> QED BY <2>1, <3>5, <3>6, ImplAssumption, IP!LearnsTwice
  <2> QED BY <2>2, <2>3
<1>7. ASSUME NEW h \in IP!Allocated', h \notin IP!Allocated
      PROVE  /\ known[h] \in IP!Handle /\ <<known[h].cls, known[h].id>> \in Objects
             /\ IP!Clean(known[h]) /\ IP!Honest(known[h], db)
  <2>1. PICK i \in S : f[i] = h
    BY <1>4, <1>7
  <2>2. known[h] = [state |-> "Valid", id |-> i, cls |-> db[i], content |-> "none"]
    BY <1>3, <1>7, <2>1
  <2> QED BY <1>2, <2>2 DEF IP!Handle, IP!States, IP!Contents, IP!Clean, IP!Honest
<1>8. \A h \in IP!Allocated' : h \in Handles /\ known[h] \in IP!Handle
  BY <1>4, <1>5, <1>6, <1>7 DEF IP!Allocated
<1>9. \A o \in IP!Handle : IP!Learns(o, o, db) /\ IP!Learns(o, ReadHandle(o), db)
  BY ReadHandleLearns DEF IP!Learns
<1>10. \A h \in IP!Allocated' : IP!Learns(known[h], handle'[h], db)
  BY <1>4, <1>8, <1>9
<1>11. ASSUME NEW h \in IP!Allocated'
       PROVE  \/ h \in IP!Allocated /\ IP!Learns(handle[h], handle'[h], db)
              \/ /\ h \notin IP!Allocated
                 /\ <<handle'[h].cls, handle'[h].id>> \in Objects
                 /\ IP!Clean(handle'[h]) /\ IP!Honest(handle'[h], db)
  <2>1. CASE h \in IP!Allocated
    BY <1>6, <1>10, <2>1, ImplAssumption, IP!LearnsTwice
  <2>2. CASE h \notin IP!Allocated
    BY <1>7, <1>10, <2>2 DEF IP!Learns
  <2> QED BY <2>1, <2>2
<1>12. /\ IP!Tangled' = IP!Tangled /\ IP!Tangled = {} /\ UNCHANGED <<db, pending>>
       /\ IP!StateInv
  BY AllLive DEF LookupUnchanged, IP!Tangled, HandleInv
<1> QED BY <1>11, <1>12, ImplAssumption, IP!LearnStep

\* One handle is settled, or read through.
LEMMA OneHandleState ==
  ASSUME HandleInv, NEW h \in IP!Allocated, UNCHANGED <<db, pending, tangled>>,
         \/ handle' = [handle EXCEPT ![h] = ReadHandle(@)]
         \/ handle' = [handle EXCEPT ![h] = Impl!Settled(@)]
         \/ SomeRead({h}, handle)
  PROVE  IP!StateInv'
<1>1. /\ handle[h] \in IP!Handle /\ h \in Handles /\ h \in IP!Live /\ IP!KeyInv /\ IP!StateInv
      /\ handle \in [Handles -> IP!Handle \cup {None}]
  BY AllLive, ImplAssumption, IP!AllocatedType
     DEF IP!Inv, IP!TypeOK, IP!Allocated, HandleInv
<1>2. \E o \in IP!Handle : handle' = [handle EXCEPT ![h] = o] /\ IP!Learns(handle[h], o, db)
  <2>1. CASE handle' = [handle EXCEPT ![h] = ReadHandle(@)]
    BY <1>1, <2>1, ReadHandleLearns
  <2>2. CASE handle' = [handle EXCEPT ![h] = Impl!Settled(@)]
    <3>1. handle' = [handle EXCEPT ![h] = IP!Settled(handle[h])]
      BY <2>2, SameState
    <3> QED BY <1>1, <3>1, ReadHandleLearns
  <2>3. CASE SomeRead({h}, handle)
    <3>1. /\ handle' \in [Handles -> IP!Handle \cup {None}]
          /\ \A k \in Handles : \/ handle'[k] = handle[k]
                                \/ k = h /\ handle'[k] = ReadHandle(handle[k])
      BY <2>3 DEF SomeRead
    <3>2. IP!Learns(handle[h], handle[h], db)
      BY DEF IP!Learns
    <3>3. handle' = [handle EXCEPT ![h] = handle'[h]]
      BY <1>1, <3>1
    <3>4. handle'[h] \in IP!Handle /\ IP!Learns(handle[h], handle'[h], db)
      BY <1>1, <3>1, <3>2, ReadHandleLearns
    <3> QED BY <3>3, <3>4
  <2> QED BY <2>1, <2>2, <2>3
<1>3. PICK o \in IP!Handle : handle' = [handle EXCEPT ![h] = o] /\ IP!Learns(handle[h], o, db)
  BY <1>2
<1>4. o # None
  BY ImplAssumption DEF IP!ObjectAssumption
<1> QED BY <1>1, <1>3, <1>4, ImplAssumption, IP!OneLearns

\* A created object is found by the handle of its predecessor.
LEMMA CreateState ==
  ASSUME HandleInv, IP!StableClasses, NEW c \in Registered, NEW id \in Ids, NEW init_object,
         create(c, id, init_object)
  PROVE  IP!StateInv'
<1>1. /\ phase = "quiet" /\ <<c, id>> \in Objects /\ db[id] = None /\ db' = [db EXCEPT ![id] = c]
      /\ UNCHANGED <<stored, tangled, phase, pending, changes, tcache>>
      /\ CacheInv /\ c \in Classes
  BY CreateCached, TemplateAssumption DEF HandleInv
<1>2. PICK f \in Lookups(db', {id}) :
        Looked({id}, db', f) /\ SomeRead({f[id]}, Inserted(handle, db', f))
  BY CreateCached DEF HandleInv
<1>3. /\ db'[id] = c /\ \A i \in Ids \ {id} : db'[i] = db[i]
      /\ pending = {} /\ pending' = {} /\ tangled' = << >>
  BY <1>1, AllLive DEF IP!Inv, IP!TypeOK, IP!Databases, HandleInv
<1>4. PICK d, S, h : d = db' /\ S = {id} /\ h = f[id]
  OBVIOUS
<1> DEFINE known == Inserted(handle, d, f)
<1>5. /\ known \in [Handles -> IP!Handle \cup {None}]
      /\ \A k \in Handles : k # h => known[k] = handle[k]
      /\ known[h] = IF h \in IP!Allocated THEN [handle[h] EXCEPT !.state = "Valid"]
                    ELSE [state |-> "Valid", id |-> id, cls |-> c, content |-> "none"]
      /\ f \in [S -> Handles]
  <2>1. IP!SameNames(handle, handle) /\ IP!KeyInv
    BY LearntNames, AllLive DEF Learnt
  <2>2. S \in SUBSET Ids /\ (\A i \in S : d[i] \in Classes) /\ f \in Lookups(d, S)
    BY <1>1, <1>3, <1>4
  <2>3. /\ known \in [Handles -> IP!Handle \cup {None}]
        /\ \A k \in Handles : (\A i \in S : f[i] # k) => known[k] = handle[k]
        /\ \A i \in S : known[f[i]] =
             IF f[i] \in IP!Allocated THEN [handle[f[i]] EXCEPT !.state = "Valid"]
             ELSE [state |-> "Valid", id |-> i, cls |-> d[i], content |-> "none"]
    BY ONLY <2>1, <2>2, InsertedShape
  <2>4. f \in [S -> Handles]
    BY <2>2 DEF Lookups
  <2> QED BY <1>3, <1>4, <2>3, <2>4
<1>6. /\ IP!Allocated' = IP!Allocated \cup {h} /\ h \in Handles
      /\ \A k \in Handles : handle'[k] = known[k] \/ (k = h /\ handle'[k] = ReadHandle(known[k]))
  BY <1>2, <1>4, <1>5 DEF Looked, SomeRead
<1> HIDE DEF known
<1>7. \A k \in IP!Allocated :
        /\ handle[k] \in IP!Handle /\ k \in Handles /\ <<handle[k].cls, handle[k].id>> \in Objects
        /\ IP!Clean(handle[k]) /\ IP!Honest(handle[k], db)
  BY <1>3, AllLive, ImplAssumption, IP!AllocatedType
     DEF HandleInv, IP!StateInv, IP!Concerned, IP!Inv, IP!Allocated
<1>8. h \in IP!Allocated => handle[h].cls = c /\ handle[h].id = id
  <2>1. S \in SUBSET Ids /\ (\A i \in S : d[i] \in Classes /\ <<d[i], i>> \in Objects)
        /\ f \in Lookups(d, S) /\ id \in S /\ h = f[id] /\ d[id] = c
    BY <1>1, <1>3, <1>4
  <2> QED BY ONLY <2>1, FoundClass, HandleInv, IP!StableClasses
<1>9. /\ known[h] \in IP!Handle /\ known[h].state = "Valid" /\ known[h].content = "none"
      /\ known[h].cls = c /\ known[h].id = id
  <2>1. CASE h \in IP!Allocated
    <3>1. handle[h].state # "Valid"
      BY <1>1, <1>7, <1>8, <2>1, ImplAssumption DEF IP!Honest, IP!ObjectAssumption
    <3>2. handle[h].content = "none"
      BY <1>7, <2>1, <3>1 DEF IP!Clean
    <3> QED BY <1>5, <1>7, <1>8, <2>1, <3>2 DEF IP!Handle, IP!States
  <2>2. CASE h \notin IP!Allocated
    BY <1>1, <1>5, <2>2 DEF IP!Handle, IP!States, IP!Contents
  <2> QED BY <2>1, <2>2
<1>10. /\ handle'[h].state = "Valid" /\ handle'[h].content # "old"
       /\ handle'[h].cls = c /\ handle'[h].id = id
  <2>1. ReadHandle(known[h]) = [known[h] EXCEPT !.content = "current"]
    BY <1>9 DEF ReadHandle, Impl!Settled
  <2> QED BY <1>6, <1>9, <2>1 DEF IP!Handle
<1>11. IP!Clean(handle'[h]) /\ IP!Honest(handle'[h], db')
  BY <1>3, <1>10 DEF IP!Clean, IP!Honest
<1>12. ASSUME NEW k \in IP!Allocated, k # h
       PROVE  handle'[k] = handle[k] /\ IP!Honest(handle[k], db')
  <2>1. handle'[k] = handle[k]
    BY <1>5, <1>6, <1>7, <1>12
  <2>2. ~(handle[k].cls = c /\ handle[k].id = id)
    <3>1. ASSUME handle[k].cls = c, handle[k].id = id
          PROVE  FALSE
      <4>1. slot[c][id] = k /\ k # None
        <5>1. slot[handle[k].cls][handle[k].id] = k
          BY <1>12, AllLive DEF IP!KeyInv, IP!Listed
        <5>2. k # None
          BY <1>7, <1>12, ObjectsAssumption
        <5> QED BY <3>1, <5>1, <5>2
      <4>2. h \in IP!Allocated
        <5>1. h \in IF Impl!get_impl_object(c, id) = {} THEN Handles \ IP!Allocated
                    ELSE Impl!get_impl_object(c, id)
          BY <1>3, <1>4, SameState DEF Lookups
        <5>2. Impl!get_impl_object(c, id) = {k}
          BY <4>1 DEF Impl!get_impl_object
        <5> QED BY <5>1, <5>2
      <4>3. slot[c][id] = h
        BY <1>1, <1>8, <4>2, AllLive DEF IP!KeyInv, IP!Listed
      <4> QED BY <1>12, <4>1, <4>3
    <3> QED BY <3>1
  <2>3. handle[k].id \in Ids /\ handle[k].cls \in Classes /\ handle[k].cls # None
    BY <1>7, <1>12, ObjectsAssumption DEF IP!Handle
  <2>4. IP!Honest(handle[k], db)
    BY <1>7, <1>12
  <2>5. CASE handle[k].id = id
    BY <1>1, <1>3, <2>1, <2>2, <2>3, <2>4, <2>5 DEF IP!Honest
  <2>6. CASE handle[k].id # id
    BY <1>3, <2>1, <2>3, <2>4, <2>6 DEF IP!Honest
  <2> QED BY <2>5, <2>6
<1>13. ASSUME NEW k \in IP!Allocated'
       PROVE  /\ <<handle'[k].cls, handle'[k].id>> \in Objects
              /\ IP!Clean(handle'[k]) /\ IP!Honest(handle'[k], db')
  BY <1>1, <1>6, <1>7, <1>10, <1>11, <1>12
<1>14. IP!Tangled' = {}
  BY <1>3 DEF IP!Tangled
<1> QED BY <1>3, <1>13, <1>14, ImplAssumption, IP!WriteStep DEF IP!Live

LEMMA ImplState ==
  ASSUME HandleInv, IP!StableClasses, [IP!Next]_implVars
  PROVE  IP!StateInv'
<1>1. [IP!Next]_IP!vars
  BY DEF IP!vars, implVars
<1>2. IP!HonestInv
  BY AllLive
<1>3. IP!HonestInv'
  BY <1>1, <1>2, ImplAssumption, IP!HonestStep
<1> QED BY <1>3 DEF IP!HonestInv

LEMMA StateStep ==
  ASSUME HandleInv, IP!StableClasses, Step
  PROVE  IP!StateInv'
<1>1. CASE SafeLookup
  BY <1>1, LookupsCached, LookupState DEF HandleInv
<1>2. ASSUME NEW c \in Registered, NEW init_object \in BOOLEAN, NEW i \in Ids, create(c, i, init_object)
      PROVE  IP!StateInv'
  BY <1>2, CreateState
<1>3. ASSUME NEW c \in Registered, NEW init_object \in BOOLEAN, NEW h \in Handles,
             get_by_object(c, h, init_object)
      PROVE  IP!StateInv'
  <2>1. SomeRead({h}, handle) /\ h \in IP!Allocated
    BY <1>3, ByObjectCached DEF HandleInv
  <2>2. UNCHANGED <<db, pending, tangled>>
    BY <1>3 DEF get_by_object
  <2> QED BY <2>1, <2>2, OneHandleState
<1>4. ASSUME NEW t \in Made, check_init(t) \/ unread(t)
      PROVE  IP!StateInv'
  <2>1. object[t].handle \in IP!Allocated
    BY MadeHandle DEF HandleInv
  <2>2. /\ UNCHANGED <<db, pending, tangled>>
        /\ \/ handle' = [handle EXCEPT ![object[t].handle] = ReadHandle(@)]
           \/ handle' = [handle EXCEPT ![object[t].handle] = Impl!Settled(@)]
    BY <1>4 DEF check_init, unread
  <2> QED BY <2>1, <2>2, OneHandleState
<1>5. CASE \/ \E c \in Registered : \/ \E h \in Handles, id \in Generated : generate(c, h, id)
                                    \/ \E t \in Made : cast(c, t) \/ get_algo_objects(c, t)
           \/ UNCHANGED vars
  <2>1. UNCHANGED implVars
    BY <1>5 DEF generate, cast, get_algo_objects, vars
  <2> QED BY <2>1, ImplState
<1>6. CASE \/ \E h \in Handles, i \in Ids : rename_object(h, i)
           \/ (\E h \in Handles : destroy(h)) \/ abort
           \/ (\E b \in BOOLEAN : unread_all_objects(b)) \/ EndUpdate \/ unload
           \/ \E removed, created, modified \in SUBSET Objects : Reload(removed, created, modified)
           \/ BeginUpdate \/ (\E ch \in pending : UpdateNext(ch)) \/ ImplStep
  <2>1. [IP!Next]_implVars
    BY <1>6, ImplNext DEF rename_object, destroy, abort, unread_all_objects, EndUpdate, unload,
       Reload, BeginUpdate, UpdateNext, ImplStep
  <2> QED BY <2>1, ImplState
<1> QED BY <1>1, <1>2, <1>3, <1>4, <1>5, <1>6 DEF Step

LEMMA HandleStep ==
  ASSUME ~ReusesNames, IP!StableClasses, HandleInv, [Next]_vars
  PROVE  HandleInv' /\ Step
<1>1. CacheInv
  BY DEF HandleInv
<1>2. Step /\ CacheInv'
  BY <1>1, EveryStep, CacheStep
<1>3. tangled' = << >> /\ IP!StateInv'
  BY <1>2, TangledKept, StateStep
<1> QED BY <1>2, <1>3 DEF HandleInv

LEMMA HandleInit ==
  ASSUME Init
  PROVE  HandleInv
<1>1. IP!Init /\ CacheInv
  BY SameActions, CacheInit DEF Init
<1>2. IP!Allocated = {} /\ pending = {} /\ tangled = << >>
  BY <1>1 DEF IP!Init, IP!Allocated
<1>3. IP!Tangled = {}
  BY <1>2 DEF IP!Tangled
<1> QED BY <1>1, <1>2, <1>3 DEF HandleInv, IP!StateInv, IP!Live

LEMMA HandleAlways ==
  ASSUME ~ReusesNames, IP!StableClasses
  PROVE  Spec => []HandleInv
<1>1. Init => HandleInv
  BY HandleInit
<1>2. HandleInv /\ [Next]_vars => HandleInv'
  BY HandleStep
<1> QED BY <1>1, <1>2, PTL DEF Spec

\* "After implementation object destruction a method invoked on corresponding
\* DAL objects will throw DeletedObject exception"
\* (ConfigPackages.doxygen.hpp:982-983): between notifications a template whose
\* handle says Valid is of an object that exists.
THEOREM DeletedThrowsCorrect ==
  ASSUME ~ReusesNames, IP!StableClasses
  PROVE  Spec => []DeletedThrows
<1>1. HandleInv => DeletedThrows
  <2> SUFFICES ASSUME HandleInv, phase = "quiet", NEW t \in Made,
                      handle[object[t].handle].state = "Valid"
               PROVE  db[handle[object[t].handle].id] = handle[object[t].handle].cls
    BY DEF DeletedThrows
  <2>1. object[t].handle \in IP!Allocated /\ IP!HonestInv
    BY AllLive, MadeHandle DEF HandleInv
  <2>2. IP!Honest(handle[object[t].handle], db)
    BY <2>1, ImplAssumption, IP!QuietHonest
  <2> QED BY <2>2 DEF IP!Honest
<1> QED BY <1>1, HandleAlways, PTL

----------------------------------------------------------------------------
(* What a notification finds.                                              *)

\* An id is used by one class of those that have a common superclass: the
\* objects with an id that templates of one class can have are one.
OneFamily ==
  \A p, q \in Objects :
     p[2] = q[2] /\ (\E c \in Classes : try_cast(c, p[1]) /\ try_cast(c, q[1])) => p[1] = q[1]

LEMMA FamilyStable == OneFamily => IP!StableClasses
<1> SUFFICES ASSUME OneFamily, NEW p \in Objects, NEW q \in Objects,
                    p[2] = q[2], IP!Related(p[1], q[1])
             PROVE  p[1] = q[1]
  BY DEF IP!StableClasses
<1>1. p[1] \in Classes /\ q[1] \in Classes
  BY ObjectsAssumption
<1>2. \E c \in Classes : try_cast(c, p[1]) /\ try_cast(c, q[1])
  BY <1>1 DEF IP!Related, try_cast
<1> QED BY <1>2 DEF OneFamily

\* A template is in m_cache under its object's id, or was generated from it.
FoundUnder(t, c, k) ==
  LET i == handle[object[t].handle].id IN
  IF k \in Ids THEN i = k ELSE <<i, t>> \in tcache[c]
Keyed == \A c \in Registered, k \in Keys : cache[c][k] # None => FoundUnder(cache[c][k], c, k)

\* The templates with a generated id are all generated from one object.
OneObject ==
  \A c, d \in Registered, k \in Keys \ Ids :
     cache[c][k] # None /\ cache[d][k] # None
       => object[cache[c][k]].handle = object[cache[d][k]].handle

\* The notification in progress will unread whatever has read something old.
OldNoted == \A t \in Made : object[t].content = "old" => \E ch \in changes : t \in Concerned(ch)

NoteInv ==
  /\ HandleInv
  /\ pending \subseteq changes /\ (phase = "quiet" => changes = {})
  /\ Keyed /\ OneObject /\ OldNoted

\* The objects a change names.
Touched(ch) == ch.removed \cup ch.created \cup ch.modified

\* update() finds the template of an object that a change touches.
LEMMA NotedWhere ==
  ASSUME CachesOK, Keyed, NEW t \in Made, SomePlace,
         NEW ch \in IP!Change, ch.cls = handle[object[t].handle].cls,
         handle[object[t].handle].id \in Touched(ch)
  PROVE  t \in Concerned(ch)
<1> DEFINE o == handle[object[t].handle]
<1>1. PICK c \in Registered : cache[c][object[t].uid] = t
  BY DEF SomePlace
<1>2. object[t].uid \in Keys /\ t # None
  BY MadeType DEF CachesOK, Template
<1>3. Impl!Related(c, ch.cls)
  BY <1>1, <1>2 DEF CachesOK, CastIsSafe, try_cast, Impl!Related
<1>4. FoundUnder(t, c, object[t].uid)
  BY <1>1, <1>2 DEF Keyed
<1>5. t \in Named(c, Touched(ch))
  <2>1. CASE object[t].uid \in Ids
    BY <1>1, <1>2, <1>4, <2>1 DEF FoundUnder, Named
  <2>2. CASE object[t].uid \notin Ids
    BY <1>4, <2>2 DEF FoundUnder, Named
  <2> QED BY <2>1, <2>2
<1> QED BY <1>3, <1>5 DEF Concerned, Touched

\* A handle read while a change is reported is one that the change touches.
LEMMA OldConcerned ==
  ASSUME HandleInv', (pending \subseteq changes)', NEW h \in IP!Allocated', handle'[h].content = "old"
  PROVE  \E ch \in changes' : /\ ch \in IP!Change /\ ch.cls = handle'[h].cls
                              /\ handle'[h].id \in Touched(ch)
<1>1. h \in IP!Live'
  <2>1. IP!Tangled' = {}
    BY DEF HandleInv, IP!Tangled
  <2> QED BY <2>1 DEF IP!Live
<1>2. IP!Clean(handle'[h]) /\ (IP!Concerned(handle'[h], pending') \/ IP!Honest(handle'[h], db'))
  BY <1>1 DEF HandleInv, IP!StateInv
<1>3. IP!Concerned(handle'[h], pending')
  BY <1>2 DEF IP!Clean, IP!Honest
<1>4. changes' \subseteq IP!Change
  BY SameTypes DEF HandleInv, CacheInv, IP!Change
<1> QED BY <1>3, <1>4 DEF IP!Concerned, IP!Touched, Touched

\* Where nothing moves, templates are found as before.
LEMMA KeyedKept ==
  ASSUME NoteInv, SameTemplates, NamesKept
  PROVE  Keyed' /\ OneObject'
<1>1. \A c \in Registered, k \in Keys : cache[c][k] # None =>
        /\ object'[cache[c][k]].handle = object[cache[c][k]].handle
        /\ handle'[object[cache[c][k]].handle].id = handle[object[cache[c][k]].handle].id
  BY DEF NoteInv, HandleInv, CacheInv, CachesOK, Placed, Bound, Made, SameTemplates, NamesKept
<1>2. cache' = cache /\ tcache' = tcache
  BY DEF SameTemplates
<1>3. Keyed'
  BY <1>1, <1>2 DEF NoteInv, Keyed, FoundUnder
<1>4. OneObject'
  BY <1>1, <1>2 DEF NoteInv, OneObject
<1> QED BY <1>3, <1>4

\* What was not old has not become so.
LEMMA OldKept ==
  ASSUME NoteInv, SameTemplates, changes' = changes,
         \A t \in Made : object'[t].content = "old" => object[t].content = "old"
  PROVE  OldNoted'
<1>1. Made' = Made
  BY DEF SameTemplates, Made
<1>2. \A ch : Concerned(ch)' = Concerned(ch)
  BY DEF SameTemplates, Concerned, Named
<1> QED BY <1>1, <1>2 DEF NoteInv, OldNoted

\* Between notifications nothing is old.
LEMMA NothingOld ==
  ASSUME NoteInv, phase = "quiet", NEW t \in Made
  PROVE  object[t].content # "old"
BY DEF NoteInv, OldNoted

----------------------------------------------------------------------------
(* Cache<T>::get() keeps this.                                             *)

LEMMA GotPlace ==
  ASSUME CachesOK, NEW hs \in SUBSET Handles, NEW class \in [hs -> Registered],
         NEW key \in [hs -> Keys], NEW g, Got(g, class, key, hs), NEW h \in hs,
         NEW c \in Registered, NEW k \in Keys, cache[c][k] = g[h]
  PROVE  c = class[h] /\ k = key[h]
<1>1. h \in Handles /\ class[h] \in Registered /\ key[h] \in Keys /\ g[h] \in Templates
  BY DEF Got
<1>2. cache[c][k] # None /\ g[h] # None
  BY <1>1, TemplateAssumption
<1>3. g[h] \in Made /\ object[g[h]].uid = k
  BY <1>2 DEF CachesOK, Placed
<1>4. cache[class[h]][key[h]] = g[h]
  BY <1>1, <1>3 DEF Got
<1>5. object[g[h]].uid = key[h]
  BY <1>1, <1>2, <1>4 DEF CachesOK, Placed
<1> QED BY <1>1, <1>2, <1>3, <1>4, <1>5 DEF CachesOK, OnePlace

\* The caches grow.
LEMMA GotKeeps ==
  ASSUME CachesOK, NEW hs \in SUBSET Handles, NEW class \in [hs -> Registered],
         NEW key \in [hs -> Keys], NEW g, Got(g, class, key, hs)
  PROVE  \A c \in Registered, k \in Keys : cache[c][k] # None => cache'[c][k] = cache[c][k]
<1> SUFFICES ASSUME NEW c \in Registered, NEW k \in Keys, cache[c][k] # None
             PROVE  cache'[c][k] = cache[c][k]
  OBVIOUS
<1>1. CASE \A h \in hs : ~(class[h] = c /\ key[h] = k)
  BY <1>1 DEF Got
<1>2. CASE \E h \in hs : class[h] = c /\ key[h] = k
  BY <1>2 DEF Got
<1> QED BY <1>1, <1>2

\* A template that is got under a generated id is one of the handle's object.
Fits(g, class, key, hs) ==
  \A h \in hs :
    IF key[h] \in Ids THEN handle'[h].id = key[h]
    ELSE /\ <<handle'[h].id, g[h]>> \in tcache'[class[h]]
         /\ \A d \in Registered : cache[d][key[h]] # None => object[cache[d][key[h]]].handle = h
         /\ hs = {h}

LEMMA GotNoted ==
  ASSUME NoteInv, HandleInv', NEW hs \in SUBSET Handles, NEW class \in [hs -> Registered],
         NEW key \in [hs -> Keys], NEW g, Got(g, class, key, hs), Fits(g, class, key, hs),
         NamesKept, UNCHANGED <<phase, pending, changes>>,
         \A c \in Registered : tcache[c] \subseteq tcache'[c]
  PROVE  NoteInv'
<1>1. CachesOK /\ CachesOK' /\ Keyed /\ OneObject /\ OldNoted
  BY DEF NoteInv, HandleInv, CacheInv
<1>2. /\ \A h \in hs : /\ h \in Handles /\ class[h] \in Registered /\ key[h] \in Keys
                       /\ object'[g[h]].handle = h /\ cache'[class[h]][key[h]] = g[h]
      /\ \A t \in Made : (\A h \in hs : g[h] # t) => object'[t] = object[t]
      /\ Made' = Made \cup {g[h] : h \in hs}
  <2>1. \A h \in hs : object'[g[h]].handle = h
    BY <1>1, GotBound
  <2>2. Made' = Made \cup {g[h] : h \in hs}
    BY <1>1, GotMade
  <2>3. \A t \in Made : (\A h \in hs : g[h] # t) => object'[t] = object[t]
    BY GotOther
  <2> QED BY <2>1, <2>2, <2>3 DEF Got
<1>3. \A c \in Registered, k \in Keys :
        \/ \E h \in hs : class[h] = c /\ key[h] = k /\ cache'[c][k] = g[h]
        \/ cache'[c][k] = cache[c][k] /\ \A h \in hs : ~(class[h] = c /\ key[h] = k)
  BY DEF Got
<1>4. ASSUME NEW c \in Registered, NEW k \in Keys, cache[c][k] # None,
             \A h \in hs : ~(class[h] = c /\ key[h] = k)
      PROVE  object'[cache[c][k]] = object[cache[c][k]] /\ cache[c][k] \in Made
  <2>1. cache[c][k] \in Made
    BY <1>1, <1>4 DEF CachesOK, Placed
  <2>2. ASSUME NEW h \in hs, g[h] = cache[c][k]
        PROVE  FALSE
    <3>1. c = class[h] /\ k = key[h]
      BY <1>1, <2>2, GotPlace
    <3> QED BY <1>4, <3>1
  <2> QED BY <1>2, <2>1, <2>2
<1>5. Keyed'
  <2> SUFFICES ASSUME NEW c \in Registered, NEW k \in Keys, NEW t, t = cache'[c][k], t # None
               PROVE  IF k \in Ids THEN handle'[object'[t].handle].id = k
                      ELSE <<handle'[object'[t].handle].id, t>> \in tcache'[c]
    BY DEF Keyed, FoundUnder
  <2>1. CASE \E h \in hs : class[h] = c /\ key[h] = k /\ cache'[c][k] = g[h]
    <3>1. PICK h \in hs : class[h] = c /\ key[h] = k /\ cache'[c][k] = g[h]
      BY <2>1
    <3>2. object'[g[h]].handle = h
      BY <1>2
    <3> QED BY <3>1, <3>2 DEF Fits
  <2>2. CASE cache'[c][k] = cache[c][k] /\ \A h \in hs : ~(class[h] = c /\ key[h] = k)
    <3>1. object'[t] = object[t] /\ t \in Made /\ FoundUnder(t, c, k)
      BY <1>1, <1>4, <2>2 DEF Keyed
    <3>2. handle'[object[t].handle].id = handle[object[t].handle].id
      BY <1>1, <3>1 DEF CachesOK, Bound, NamesKept
    <3>3. tcache[c] \subseteq tcache'[c]
      OBVIOUS
    <3> QED BY <3>1, <3>2, <3>3 DEF FoundUnder
  <2> QED BY <1>3, <2>1, <2>2
<1>6. OneObject'
  <2>1. ASSUME NEW c \in Registered, NEW d \in Registered, NEW k \in Keys \ Ids,
               cache'[c][k] # None, cache'[d][k] # None, NEW h \in hs, class[h] = c, key[h] = k,
               cache'[c][k] = g[h]
        PROVE  object'[cache'[d][k]].handle = h
    <3>1. hs = {h} /\ (cache[d][k] # None => object[cache[d][k]].handle = h)
      BY <2>1 DEF Fits
    <3>2. CASE \E j \in hs : class[j] = d /\ key[j] = k /\ cache'[d][k] = g[j]
      BY <1>2, <3>1, <3>2
    <3>3. CASE cache'[d][k] = cache[d][k] /\ \A j \in hs : ~(class[j] = d /\ key[j] = k)
      BY <1>4, <2>1, <3>1, <3>3
    <3> QED BY <1>3, <3>2, <3>3
  <2> SUFFICES ASSUME NEW c \in Registered, NEW d \in Registered, NEW k \in Keys \ Ids,
                      cache'[c][k] # None, cache'[d][k] # None
               PROVE  object'[cache'[c][k]].handle = object'[cache'[d][k]].handle
    BY DEF OneObject
  <2>2. CASE \E h \in hs : key[h] = k /\ (class[h] = c \/ class[h] = d)
    <3>1. PICK h \in hs : key[h] = k /\ (class[h] = c \/ class[h] = d)
      BY <2>2
    <3>2. cache'[class[h]][k] = g[h] /\ object'[g[h]].handle = h
      BY <1>2, <3>1
    <3> QED BY <2>1, <3>1, <3>2
  <2>3. CASE \A h \in hs : ~(key[h] = k /\ (class[h] = c \/ class[h] = d))
    <3>1. /\ cache'[c][k] = cache[c][k] /\ cache'[d][k] = cache[d][k]
          /\ object'[cache[c][k]] = object[cache[c][k]]
          /\ object'[cache[d][k]] = object[cache[d][k]]
      BY <1>3, <1>4, <2>3
    <3> QED BY <1>1, <3>1 DEF OneObject
  <2> QED BY <2>2, <2>3
<1>7. OldNoted'
  <2> SUFFICES ASSUME NEW t \in Made', object'[t].content = "old"
               PROVE  \E ch \in changes' : t \in Concerned(ch)'
    BY DEF OldNoted
  <2>1. CASE \E h \in hs : g[h] = t /\ cache[class[h]][key[h]] = None
    <3>1. PICK h \in hs : g[h] = t /\ cache[class[h]][key[h]] = None
      BY <2>1
    <3>2. handle'[h].content = "old" /\ object'[t].handle = h
      BY <1>2, <3>1 DEF Got
    <3>3. h \in IP!Allocated'
      BY <1>1, <3>2 DEF CachesOK, Bound
    <3>4. PICK ch \in changes' : /\ ch \in IP!Change /\ ch.cls = handle'[h].cls
                                 /\ handle'[h].id \in Touched(ch)
      BY <3>2, <3>3, OldConcerned DEF NoteInv
    <3>5. cache'[class[h]][key[h]] = t /\ t # None /\ class[h] \in Registered /\ key[h] \in Keys
      BY <1>2, <3>1, TemplateAssumption DEF Made
    <3>6. Impl!Related(class[h], ch.cls)
      BY <1>1, <3>2, <3>4, <3>5 DEF CachesOK, CastIsSafe, try_cast, Impl!Related
    <3>7. t \in Named(class[h], Touched(ch))'
      <4>1. CASE key[h] \in Ids
        <5>1. handle'[h].id = key[h]
          BY <4>1 DEF Fits
        <5> QED BY <3>4, <3>5, <5>1 DEF Named
      <4>2. CASE key[h] \notin Ids
        <5>1. <<handle'[h].id, t>> \in tcache'[class[h]] /\ handle'[h].id \in Touched(ch)
          BY <3>1, <3>4, <4>2 DEF Fits
        <5>2. PICK i : i = handle'[h].id
          OBVIOUS
        <5>3. <<i, t>> \in {q \in tcache'[class[h]] : q[1] \in Touched(ch)} /\ <<i, t>>[2] = t
          BY ONLY <5>1, <5>2
        <5> QED BY <5>3 DEF Named
      <4> QED BY <4>1, <4>2
    <3> QED BY <3>4, <3>5, <3>6, <3>7 DEF Concerned, Touched
  <2>2. CASE \A h \in hs : g[h] = t => cache[class[h]][key[h]] # None
    <3>1. t \in Made /\ object[t].content = "old"
      <4>1. CASE \A h \in hs : g[h] # t
        BY <1>2, <4>1
      <4>2. CASE \E h \in hs : g[h] = t
        <5>1. PICK h \in hs : g[h] = t
          BY <4>2
        <5>2. cache[class[h]][key[h]] = t /\ object'[t] = set(object[t], h) /\ t # None
          BY <1>2, <2>2, <5>1 DEF Got
        <5>3. t \in Made
          BY <1>1, <1>2, <5>2 DEF CachesOK, Placed
        <5>4. object[t] \in Template
          BY <1>1, <5>3, MadeType DEF CachesOK
        <5> QED BY <5>2, <5>3, <5>4 DEF set, Template
      <4> QED BY <4>1, <4>2
    <3>2. PICK ch \in changes : t \in Concerned(ch)
      BY <1>1, <3>1 DEF OldNoted
    <3>3. Touched(ch) \subseteq Keys
      BY DEF NoteInv, HandleInv, CacheInv, IP!Change, Touched, Keys
    <3>4. \A c \in Registered, k \in Keys : cache[c][k] # None => cache'[c][k] = cache[c][k]
      BY <1>1, GotKeeps
    <3>5. \A c \in Registered : t \in Named(c, Touched(ch)) => t \in Named(c, Touched(ch))'
      BY <3>3, <3>4 DEF Named
    <3>6. t \in Concerned(ch)'
      BY <3>2, <3>5 DEF Concerned, Touched
    <3> QED BY <3>2, <3>6
  <2> QED BY <2>1, <2>2
<1> QED BY <1>5, <1>6, <1>7 DEF NoteInv

\* The templates of objects that are looked up, or referred to.
LEMMA LookupNoted ==
  ASSUME NoteInv, HandleInv', SafeLookup
  PROVE  NoteInv'
<1>1. PICK S, seen : /\ S \in SUBSET Ids /\ Learnt(seen) /\ LookedUp(S, db, seen)
                     /\ \A i \in S : db[i] \in Classes
  BY LookupsCached DEF NoteInv, HandleInv
<1>2. LookupUnchanged /\ IP!KeyInv
  BY LookupsCached, AllLive DEF NoteInv, HandleInv
<1>3. PICK f \in Lookups(db, S) : \E classOf \in [{f[i] : i \in S} -> Registered] :
        /\ Looked(S, db, f)
        /\ SomeGot(classOf, Inserted(seen, db, f), {f[i] : i \in S})
  BY <1>1 DEF LookedUp
<1> DEFINE hs == {f[i] : i \in S}
           known == Inserted(seen, db, f)
           key == NamesOf(known, hs)
<1>4. PICK classOf \in [hs -> Registered] : Looked(S, db, f) /\ SomeGot(classOf, known, hs)
  BY <1>3
<1>5. PICK g : Got(g, classOf, key, hs)
  BY <1>4 DEF SomeGot
<1>6. \A i \in S : known[f[i]] \in IP!Handle /\ known[f[i]].id = i
  BY <1>1, <1>2, LearntNames, InsertedId DEF NoteInv
<1>7. f \in [S -> Handles]
  BY DEF Lookups
<1>8. hs \in SUBSET Handles
  BY <1>7
<1>9. \A h \in hs : key[h] \in Ids /\ handle'[h].id = key[h]
  <2> SUFFICES ASSUME NEW i \in S PROVE key[f[i]] \in Ids /\ handle'[f[i]].id = key[f[i]]
    OBVIOUS
  <2>1. key[f[i]] = known[f[i]].id
    BY DEF NamesOf
  <2> QED BY <1>1, <1>4, <1>6, <2>1 DEF Looked
<1>10. key \in [hs -> Keys]
  <2>1. key = [h \in hs |-> key[h]]
    BY DEF NamesOf
  <2> QED BY <1>9, <2>1 DEF Keys
<1>11. NamesKept
  BY <1>4 DEF Looked, NamesKept, ClassesKept
<1> HIDE DEF hs, known, key
<1>12. Fits(g, classOf, key, hs)
  BY <1>9 DEF Fits
<1>13. UNCHANGED <<phase, pending, changes>> /\ \A c \in Registered : tcache[c] \subseteq tcache'[c]
  BY <1>2 DEF LookupUnchanged
<1> QED BY <1>5, <1>8, <1>10, <1>11, <1>12, <1>13, GotNoted

LEMMA ByObjectNoted ==
  ASSUME NoteInv, HandleInv', NEW c \in Registered, NEW h \in Handles, NEW init_object,
         get_by_object(c, h, init_object)
  PROVE  NoteInv'
<1> DEFINE class == [x \in {h} |-> c]
           key == NamesOf(handle, {h})
<1>1. /\ h \in IP!Allocated /\ handle[h] \in IP!Handle
      /\ SomeRead({h}, handle) /\ SomeGot(class, handle, {h})
  BY ByObjectCached DEF NoteInv, HandleInv
<1>2. PICK g : Got(g, class, key, {h})
  BY <1>1 DEF SomeGot
<1>3. /\ {h} \in SUBSET Handles /\ class \in [{h} -> Registered]
      /\ key \in [{h} -> Keys] /\ key[h] = handle[h].id /\ key[h] \in Ids
  BY <1>1 DEF NamesOf, Keys, IP!Handle
<1>4. NamesKept
  <2>1. /\ handle' \in [Handles -> IP!Handle \cup {None}]
        /\ \A k \in Handles : \/ handle'[k] = handle[k]
                              \/ k = h /\ handle'[k] = ReadHandle(handle[k])
    BY <1>1 DEF SomeRead
  <2>2. /\ ReadHandle(handle[h]) \in IP!Handle /\ ReadHandle(handle[h]).id = handle[h].id
        /\ ReadHandle(handle[h]).cls = handle[h].cls /\ None \notin IP!Handle
    BY <1>1, ReadType, ImplAssumption DEF IP!ObjectAssumption
  <2> QED BY <2>1, <2>2 DEF NamesKept, ClassesKept, IP!Allocated
<1>5. handle'[h].id = key[h]
  BY <1>1, <1>3, <1>4 DEF NamesKept
<1> HIDE DEF class, key
<1>6. Fits(g, class, key, {h})
  BY <1>3, <1>5 DEF Fits
<1>7. UNCHANGED <<phase, pending, changes, tcache>>
  BY DEF get_by_object
<1>8. \A d \in Registered : tcache[d] \subseteq tcache'[d]
  BY <1>7
<1> QED BY <1>2, <1>3, <1>4, <1>6, <1>7, <1>8, GotNoted

LEMMA CreateNoted ==
  ASSUME NoteInv, HandleInv', NEW c \in Registered, NEW id \in Ids, NEW init_object,
         create(c, id, init_object)
  PROVE  NoteInv'
<1>1. /\ UNCHANGED <<stored, tangled, phase, pending, changes, tcache>>
      /\ <<c, id>> \in Objects /\ db[id] = None /\ db' = [db EXCEPT ![id] = c] /\ IP!KeyInv
  BY CreateCached, AllLive DEF NoteInv, HandleInv
<1>2. PICK d, S : d = db' /\ S = {id}
  OBVIOUS
<1>3. PICK f \in Lookups(d, S) :
        Looked(S, d, f) /\ SomeGot([h \in {f[id]} |-> c], Inserted(handle, d, f), {f[id]})
  BY <1>2, CreateCached DEF NoteInv, HandleInv
<1>4. PICK h : h = f[id]
  OBVIOUS
<1> DEFINE known == Inserted(handle, d, f)
           class == [x \in {h} |-> c]
           key == NamesOf(known, {h})
<1>5. PICK g : Got(g, class, key, {h})
  BY <1>3, <1>4 DEF SomeGot
<1>6. S \in SUBSET Ids /\ (\A i \in S : d[i] \in Classes) /\ id \in S
  <2>1. db'[id] = c
    BY <1>1, AllLive DEF NoteInv, IP!Inv, IP!TypeOK, IP!Databases
  <2> QED BY <1>2, <2>1, TemplateAssumption
<1>7. IP!SameNames(handle, handle)
  BY LearntNames DEF Learnt, NoteInv
<1>8. \A i \in S : Inserted(handle, d, f)[f[i]].id = i
  BY ONLY <1>1, <1>6, <1>7, <1>3, InsertedId
<1>9. f \in [S -> Handles]
  BY DEF Lookups
<1>10. /\ {h} \in SUBSET Handles /\ class \in [{h} -> Registered]
       /\ key[h] = id /\ handle'[h].id = id /\ key \in [{h} -> Keys]
  BY <1>3, <1>4, <1>6, <1>8, <1>9 DEF NamesOf, Looked, Keys
<1>11. NamesKept
  BY <1>3 DEF Looked, NamesKept, ClassesKept
<1> HIDE DEF class, key
<1>12. Fits(g, class, key, {h})
  BY <1>10 DEF Fits
<1>13. UNCHANGED <<phase, pending, changes>> /\ \A e \in Registered : tcache[e] \subseteq tcache'[e]
  BY <1>1
<1> QED BY <1>5, <1>10, <1>11, <1>12, <1>13, GotNoted

\* A template under another id than its object's, or under that of another one.
LEMMA GeneratedNoted ==
  ASSUME NoteInv, HandleInv', NEW c \in Registered, NEW h \in IP!Allocated, NEW id \in Keys,
         Generate(c, h, id), UNCHANGED <<implVars, changes>>,
         id \in Ids => handle[h].id = id,
         id \notin Ids => \A k \in Registered : cache[k][id] # None => object[cache[k][id]].handle = h
  PROVE  NoteInv'
<1> DEFINE class == [x \in {h} |-> c]
           key == [x \in {h} |-> id]
<1>1. CachesOK /\ Keyed /\ h \in Handles /\ handle[h].id \in Ids /\ handle' = handle
  BY AllLive, ImplAssumption, IP!AllocatedType
     DEF NoteInv, IP!Inv, IP!Handle, implVars, IP!Allocated
<1>2. /\ \A d \in Registered : tcache[d] \subseteq tcache'[d]
      /\ \E g : /\ Got(g, class, key, {h})
                /\ cache[c][id] = None /\ id # handle[h].id => <<handle[h].id, g[h]>> \in tcache'[c]
  BY <1>1, GenerateShape
<1>3. PICK g : /\ Got(g, class, key, {h})
               /\ cache[c][id] = None /\ id # handle[h].id => <<handle[h].id, g[h]>> \in tcache'[c]
  BY <1>2
<1>4. /\ {h} \in SUBSET Handles /\ class \in [{h} -> Registered] /\ class[h] = c
      /\ key \in [{h} -> Keys] /\ key[h] = id
  BY <1>1
<1> HIDE DEF class, key
<1>5. NamesKept
  BY <1>1 DEF NamesKept, ClassesKept, IP!Allocated
<1>6. ASSUME id \notin Ids
      PROVE  <<handle[h].id, g[h]>> \in tcache'[c]
  <2>1. CASE cache[c][id] = None
    BY <1>1, <1>3, <1>6, <2>1
  <2>2. CASE cache[c][id] # None
    <3>1. g[h] = cache[c][id]
      BY <1>3, <1>4, <2>2 DEF Got
    <3>2. <<handle[h].id, cache[c][id]>> \in tcache[c]
      BY <1>1, <1>6, <2>2 DEF Keyed, FoundUnder
    <3> QED BY <1>2, <3>1, <3>2
  <2> QED BY <2>1, <2>2
<1>7. Fits(g, class, key, {h})
  BY <1>1, <1>4, <1>6 DEF Fits
<1>8. UNCHANGED <<phase, pending, changes>>
  BY DEF implVars
<1> QED BY <1>2, <1>3, <1>4, <1>5, <1>7, <1>8, GotNoted

LEMMA GenerateNoted ==
  ASSUME ~ReusesNames, NoteInv, HandleInv', NEW c \in Registered,
         \/ \E h \in Handles, id \in Generated : generate(c, h, id)
         \/ \E t \in Made : cast(c, t) \/ get_algo_objects(c, t)
  PROVE  NoteInv'
<1>1. ASSUME NEW h \in Handles, NEW id \in Generated, generate(c, h, id)
      PROVE  NoteInv'
  <2>1. h \in IP!Allocated
    BY <1>1, SameState DEF generate
  <2>2. /\ id \in Keys /\ id \notin Ids /\ Generate(c, h, id) /\ UNCHANGED <<implVars, changes>>
        /\ \A k \in Registered : cache[k][id] # None => object[cache[k][id]].handle = h
    BY <1>1, TemplateAssumption DEF generate, Keys
  <2> QED BY <2>1, <2>2, GeneratedNoted
<1>2. ASSUME NEW t \in Made, cast(c, t) \/ get_algo_objects(c, t)
      PROVE  NoteInv'
  <2> DEFINE h == object[t].handle
             id == object[t].uid
  <2>1. h \in IP!Allocated /\ id \in Keys /\ t # None
    BY MadeHandle, MadeType DEF Template, NoteInv, HandleInv, CacheInv, CachesOK
  <2>2. Generate(c, h, id) /\ UNCHANGED <<implVars, changes>>
    BY <1>2 DEF cast, get_algo_objects
  <2>3. PICK d \in Registered : cache[d][id] = t
    BY DEF NoteInv, HandleInv, CacheInv, CachesOK, SomePlace
  <2>4. id \in Ids => handle[h].id = id
    BY <2>1, <2>3 DEF NoteInv, Keyed, FoundUnder
  <2>5. id \notin Ids => \A k \in Registered : cache[k][id] # None => object[cache[k][id]].handle = h
    BY <2>1, <2>3 DEF NoteInv, OneObject
  <2> HIDE DEF h, id
  <2> QED BY <2>1, <2>2, <2>4, <2>5, GeneratedNoted
<1> QED BY <1>1, <1>2

----------------------------------------------------------------------------
(* The steps that move no template keep this.                              *)

LEMMA ConcernedSame ==
  ASSUME SameTemplates
  PROVE  \A ch : Concerned(ch)' = Concerned(ch)
BY DEF SameTemplates, Concerned, Named

LEMMA GettersNoted ==
  ASSUME ~ReusesNames, NoteInv, HandleInv', NEW t \in Made, check_init(t) \/ unread(t)
  PROVE  NoteInv'
<1> DEFINE h == object[t].handle
<1>1. SameTemplates /\ NamesKept /\ UNCHANGED <<phase, pending, changes>>
  BY GettersCached, SameNamesKept DEF NoteInv, HandleInv, check_init, unread
<1>2. Keyed' /\ OneObject'
  BY <1>1, KeyedKept
<1>3. /\ object[t] \in Template /\ t \in Templates /\ h \in IP!Allocated
      /\ object \in [Templates -> Template \cup {None}] /\ CachesOK /\ SomePlace /\ Keyed
  BY MadeHandle DEF NoteInv, HandleInv, CacheInv, CachesOK, TmplTypes, Made
<1>4. CASE check_init(t)
  <2>1. object' = [object EXCEPT ![t] = init(object[t], handle'[h])]
    BY <1>4 DEF check_init
  <2>2. ASSUME object'[t].content = "old"
        PROVE  \E ch \in changes' : t \in Concerned(ch)'
    <3>1. handle'[h].content = "old"
      BY <1>3, <2>1, <2>2 DEF init, Template
    <3>2. h \in IP!Allocated' /\ handle'[h].cls = handle[h].cls /\ handle'[h].id = handle[h].id
      BY <1>1, <1>3 DEF NamesKept, ClassesKept
    <3>3. (pending \subseteq changes)'
      BY <1>1 DEF NoteInv
    <3>4. PICK ch \in changes' : /\ ch \in IP!Change /\ ch.cls = handle'[h].cls
                                 /\ handle'[h].id \in Touched(ch)
      BY <3>1, <3>2, <3>3, OldConcerned
    <3>5. t \in Concerned(ch)
      BY <1>3, <3>2, <3>4, NotedWhere
    <3> QED BY <1>1, <3>5, ConcernedSame
  <2>3. ASSUME NEW s \in Made', object'[s].content = "old"
        PROVE  \E ch \in changes' : s \in Concerned(ch)'
    <3>1. CASE s = t
      BY <2>2, <2>3, <3>1
    <3>2. CASE s # t
      <4>1. s \in Made /\ object'[s] = object[s]
        BY <1>1, <1>3, <2>1, <2>3, <3>2 DEF Made, SameTemplates
      <4>2. \E ch \in changes : s \in Concerned(ch)
        BY <2>3, <4>1 DEF NoteInv, OldNoted
      <4> QED BY <1>1, <4>2, ConcernedSame
    <3> QED BY <3>1, <3>2
  <2>4. OldNoted'
    BY <2>3 DEF OldNoted
  <2> QED BY <1>1, <1>2, <2>4 DEF NoteInv
<1>5. CASE unread(t)
  <2>1. object' = [object EXCEPT ![t].content = "none"] \/ object' = object
    BY <1>5 DEF unread
  <2>2. ASSUME NEW s \in Made, object'[s].content = "old"
        PROVE  object[s].content = "old"
    <3>1. object[s] \in Template
      BY <1>3, MadeType DEF CachesOK
    <3> QED BY <1>3, <2>1, <2>2, <3>1 DEF Template, Made
  <2>3. OldNoted'
    BY <1>1, <2>2, OldKept
  <2> QED BY <1>1, <1>2, <2>3 DEF NoteInv
<1> QED BY <1>4, <1>5

\* Operations on implementation objects, and the end of a notification's half.
LEMMA ImplNoted ==
  ASSUME NoteInv, HandleInv',
         BeginUpdate \/ (\E ch \in pending : UpdateNext(ch)) \/ ImplStep \/ UNCHANGED vars
  PROVE  NoteInv'
<1>1. SameTemplates /\ NamesKept
  BY ImplCacheInv DEF NoteInv, HandleInv
<1>2. UNCHANGED <<changes, tmplVars>>
  BY DEF BeginUpdate, UpdateNext, ImplStep, vars
<1>3. pending' \subseteq pending /\ (phase' = "quiet" => phase = "quiet")
  BY DEF BeginUpdate, UpdateNext, ImplStep, vars, implVars, Impl!BeginUpdate,
         Impl!UpdateNext, Impl!get, Impl!Access, Impl!commit
<1>4. OldNoted'
  BY <1>1, <1>2, OldKept DEF tmplVars
<1> QED BY <1>1, <1>2, <1>3, <1>4, KeyedKept DEF NoteInv

\* Templates are unread.
LEMMA UnreadNoted ==
  ASSUME NoteInv, HandleInv',
         \/ \E h \in Handles : destroy(h)
         \/ abort
         \/ \E b \in BOOLEAN : unread_all_objects(b)
         \/ EndUpdate
  PROVE  NoteInv'
<1>1. SameTemplates /\ NamesKept
  BY UnreadCacheInv, SameNamesKept DEF NoteInv, HandleInv
<1>2. Keyed' /\ OneObject'
  BY <1>1, KeyedKept
<1>3. TmplTypes /\ \A t \in Made : object[t] \in Template
  BY MadeType DEF NoteInv, HandleInv, CacheInv, CachesOK
<1>4. ASSUME NEW S, object' = Unread(S), UNCHANGED <<phase, pending, changes>>
      PROVE  NoteInv'
  <2>1. \A t \in Made : object'[t].content = "old" => object[t].content = "old"
    BY <1>3, <1>4 DEF Unread, Template, Made
  <2>2. OldNoted'
    BY <1>1, <1>4, <2>1, OldKept
  <2> QED BY <1>2, <1>4, <2>2 DEF NoteInv
<1>5. ASSUME NEW h \in Handles, destroy(h)
      PROVE  NoteInv'
  BY <1>4, <1>5 DEF destroy, Impl!destroy_obj
<1>6. CASE abort
  BY <1>4, <1>6 DEF abort, _unread_template_objects, Impl!abort
<1>7. CASE \E b \in BOOLEAN : unread_all_objects(b)
  BY <1>4, <1>7 DEF unread_all_objects, _unread_template_objects, implVars,
                    Impl!unread_implementation_objects
<1>8. CASE EndUpdate
  <2>1. /\ object' = Unread(UNION {Concerned(ch) : ch \in changes}) /\ changes' = {}
        /\ pending' = {}
    BY <1>8 DEF EndUpdate, Impl!EndUpdate
  <2>2. \A t \in Made' : object'[t].content # "old"
    <3> SUFFICES ASSUME NEW t \in Made', object'[t].content = "old" PROVE FALSE
      OBVIOUS
    <3>1. t \in Made /\ t \in Templates /\ object[t] \in Template
      BY <1>1, <1>3 DEF SameTemplates, Made
    <3>2. t \notin UNION {Concerned(ch) : ch \in changes} /\ object[t].content = "old"
      BY <2>1, <3>1 DEF Unread, Template
    <3> QED BY <3>1, <3>2 DEF NoteInv, OldNoted
  <2> QED BY <1>2, <2>1, <2>2 DEF NoteInv, OldNoted
<1> QED BY <1>5, <1>6, <1>7, <1>8

LEMMA UnloadNoted ==
  ASSUME NoteInv, HandleInv', unload
  PROVE  NoteInv'
<1>1. Made' = {}
  BY UnloadCacheInv DEF NoteInv, HandleInv
<1>2. /\ changes' = {} /\ pending' = {}
      /\ cache' = [c \in Registered |-> [k \in Keys |-> None]]
  BY DEF unload, Impl!unload
<1> QED BY <1>1, <1>2 DEF NoteInv, Keyed, OneObject, OldNoted

\* A change in another process names the objects that it makes old.
LEMMA ReloadNoted ==
  ASSUME ~ReusesNames, NoteInv, HandleInv', NEW removed \in SUBSET Objects,
         NEW created \in SUBSET Objects, NEW modified \in SUBSET Objects,
         Reload(removed, created, modified)
  PROVE  NoteInv'
<1>1. SameTemplates /\ NamesKept /\ changes' \subseteq IP!Change
  BY ReloadCacheInv, SameNamesKept DEF NoteInv, HandleInv, CacheInv
<1>2. /\ phase = "quiet" /\ phase' = "reloaded" /\ changes' = pending'
      /\ object' = [t \in Templates |->
           IF t \in Made /\ object[t].content = "current"
              /\ LET o == handle[object[t].handle] IN <<o.cls, o.id>> \in removed \cup modified
           THEN [object[t] EXCEPT !.content = "old"] ELSE object[t]]
      /\ LET Of(S, c) == {p[2] : p \in {q \in S : q[1] = c}} IN
         pending' = {[cls |-> c, created |-> Of(created, c), modified |-> Of(modified, c),
                      removed |-> Of(removed, c)] :
                       c \in {p[1] : p \in removed \cup created \cup modified}}
  BY DEF Reload, Impl!Reload
<1>3. ASSUME NEW c, NEW i, <<c, i>> \in removed \cup modified
      PROVE  \E ch \in changes' : ch.cls = c /\ i \in Touched(ch)
  <2> DEFINE Of(S) == {p[2] : p \in {q \in S : q[1] = c}}
             ch == [cls |-> c, created |-> Of(created), modified |-> Of(modified),
                    removed |-> Of(removed)]
  <2>1. \E p \in removed \cup created \cup modified : p[1] = c
    BY <1>3
  <2>2. ch \in changes'
    BY <1>2, <2>1
  <2>3. i \in Of(removed) \cup Of(modified)
    BY <1>3
  <2> QED BY <2>2, <2>3 DEF Touched
<1>4. OldNoted'
  <2> SUFFICES ASSUME NEW t \in Made', object'[t].content = "old"
               PROVE  \E ch \in changes' : t \in Concerned(ch)'
    BY DEF OldNoted
  <2> DEFINE o == handle[object[t].handle]
  <2>1. t \in Made /\ t \in Templates
    BY <1>1 DEF SameTemplates, Made
  <2>2. object[t].content # "old"
    BY <1>2, <2>1, NothingOld
  <2>3. <<o.cls, o.id>> \in removed \cup modified
    BY <1>2, <2>1, <2>2
  <2> HIDE DEF o
  <2>4. PICK ch \in changes' : ch.cls = o.cls /\ o.id \in Touched(ch)
    BY <1>3, <2>3
  <2>5. t \in Concerned(ch)
    BY <1>1, <2>1, <2>4, NotedWhere DEF o, NoteInv, HandleInv, CacheInv, CachesOK
  <2> QED BY <1>1, <2>5, ConcernedSame
<1>5. (phase = "quiet" => changes = {})'
  BY <1>2
<1> QED BY <1>1, <1>2, <1>4, <1>5, KeyedKept DEF NoteInv

----------------------------------------------------------------------------
(* rename_object() keeps this.                                             *)

\* An object that can be had as one of class k has one handle.
LEMMA OneHandlePerName ==
  ASSUME OneFamily, HandleInv, NEW g \in IP!Allocated, NEW h \in IP!Allocated, NEW k \in Classes,
         try_cast(k, handle[g].cls), try_cast(k, handle[h].cls), handle[g].id = handle[h].id
  PROVE  g = h
<1>1. /\ <<handle[g].cls, handle[g].id>> \in Objects /\ <<handle[h].cls, handle[h].id>> \in Objects
      /\ slot[handle[g].cls][handle[g].id] = g /\ slot[handle[h].cls][handle[h].id] = h
  BY AllLive DEF HandleInv, IP!StateInv, IP!KeyInv, IP!Listed
<1>2. PICK p \in Objects, q \in Objects :
        p = <<handle[g].cls, handle[g].id>> /\ q = <<handle[h].cls, handle[h].id>>
  BY <1>1
<1>3. p[2] = q[2] /\ try_cast(k, p[1]) /\ try_cast(k, q[1])
  BY <1>2
<1>4. p[1] = q[1]
  BY <1>3 DEF OneFamily
<1> QED BY <1>1, <1>2, <1>4

LEMMA RenameNoted ==
  ASSUME ~ReusesNames, OneFamily, NoteInv, HandleInv', NEW h \in Handles, NEW new \in Ids,
         rename_object(h, new)
  PROVE  NoteInv'
<1> DEFINE c == handle[h].cls
           old == handle[h].id
           concerned == {c} \cup Superclasses(c)
           renamed == {cache[k][old] : k \in concerned \cap Registered} \ {None}
<1>1. /\ Impl!rename_object(h, new) /\ UNCHANGED <<changes, phase, pending>> /\ phase = "quiet"
      /\ ~Used(new)
      /\ db' = db => UNCHANGED tmplVars
      /\ db' # db => _rename_object(c, old, new)
  BY DEF rename_object, Impl!rename_object, Impl!MayWrite
<1>2. /\ h \in IP!Allocated /\ old \in Ids /\ c \in Classes /\ old # new
      /\ \A g \in IP!Allocated :
           /\ g \in IP!Allocated' /\ handle'[g].cls = handle[g].cls
           /\ handle'[g].id = IF g = h /\ db' # db THEN new ELSE handle[g].id
  BY <1>1, SameActions, AllLive, RenamedNames DEF NoteInv
<1>3. /\ CachesOK /\ TmplTypes /\ Keyed /\ OneObject
      /\ \A t \in Made : object[t] \in Template /\ t \in Templates /\ t # None
  BY MadeType DEF NoteInv, HandleInv, CacheInv, CachesOK
<1>4. CASE db' = db
  <2>1. SameTemplates /\ NamesKept
    BY <1>1, <1>2, <1>3, <1>4 DEF SameTemplates, TmplTypes, tmplVars, NamesKept, ClassesKept
  <2>2. OldNoted'
    BY <1>1, <1>4, <2>1, OldKept DEF tmplVars
  <2> QED BY <1>1, <2>1, <2>2, KeyedKept DEF NoteInv
<1>5. CASE db' # db
  <2> HIDE DEF c, old
  <2>1. /\ cache' = [k \in Registered |->
             IF k \in concerned /\ cache[k][old] # None
             THEN [cache[k] EXCEPT ![new] = cache[k][old], ![old] = None] ELSE cache[k]]
        /\ object' = [t \in Templates |->
             IF t \in renamed THEN [object[t] EXCEPT !.uid = new] ELSE object[t]]
        /\ tcache' = [k \in Registered |->
             IF k \in concerned THEN {IF p[1] = old THEN <<new, p[2]>> ELSE p : p \in tcache[k]}
             ELSE tcache[k]]
    BY <1>1, <1>5 DEF _rename_object
  <2> HIDE DEF renamed
  <2>2. \A k \in Registered : cache[k][new] = None
    BY <1>1 DEF Used
  <2>3. \A t \in Made : object'[t].handle = object[t].handle /\ object'[t].content = object[t].content
    BY <1>3, <2>1 DEF Template
  <2>4. \A k \in Registered : k \in Classes /\ (k \in concerned <=> try_cast(k, c))
    BY <1>2, TemplateAssumption DEF Superclasses, try_cast
  <2> HIDE DEF concerned
  <2>5. \A k \in Registered, i \in Keys :
          cache'[k][i] = IF k \in concerned /\ cache[k][old] # None
                         THEN IF i = old THEN None ELSE IF i = new THEN cache[k][old] ELSE cache[k][i]
                         ELSE cache[k][i]
    BY <1>2, <1>3, <2>1 DEF TmplTypes, Keys
  <2>6. ASSUME NEW k \in Registered, NEW t, <<old, t>> \in tcache[k], k \in concerned
        PROVE  <<new, t>> \in tcache'[k]
    <3>1. tcache'[k] = {IF p[1] = old THEN <<new, p[2]>> ELSE p : p \in tcache[k]}
      BY <2>1, <2>6
    <3>2. PICK q \in tcache[k] : q = <<old, t>>
      BY <2>6
    <3>3. (IF q[1] = old THEN <<new, q[2]>> ELSE q) \in tcache'[k]
      BY <3>1
    <3> QED BY <3>2, <3>3
  <2>7. ASSUME NEW k \in Registered, NEW j, NEW t, <<j, t>> \in tcache[k], k \notin concerned \/ j # old
        PROVE  <<j, t>> \in tcache'[k]
    <3>1. CASE k \notin concerned
      BY <2>1, <2>7, <3>1
    <3>2. CASE k \in concerned
      <4>1. tcache'[k] = {IF p[1] = old THEN <<new, p[2]>> ELSE p : p \in tcache[k]}
        BY <2>1, <3>2
      <4>2. PICK q \in tcache[k] : q = <<j, t>>
        BY <2>7
      <4>3. (IF q[1] = old THEN <<new, q[2]>> ELSE q) \in tcache'[k]
        BY <4>1
      <4>4. q[1] # old
        BY <2>7, <3>2, <4>2
      <4> QED BY <4>2, <4>3, <4>4
    <3> QED BY <3>1, <3>2
  \* The templates in a cache, by the names of their objects before and after.
  <2>8. ASSUME NEW k \in Registered, NEW i \in Keys, cache[k][i] # None, NEW g,
               g = object[cache[k][i]].handle
        PROVE  /\ cache[k][i] \in Made /\ g \in IP!Allocated
               /\ object'[cache[k][i]].handle = g
               /\ g = h => k \in concerned
               /\ k \in concerned /\ handle[g].id = old => g = h
    <3>1. cache[k][i] \in Made /\ g \in IP!Allocated /\ try_cast(k, handle[g].cls)
      BY <1>3, <2>8 DEF CachesOK, Placed, Bound, CastIsSafe
    <3>2. g = h => k \in concerned
      BY <2>4, <3>1 DEF c
    <3>3. k \in concerned /\ handle[g].id = old => g = h
      BY <1>2, <2>4, <3>1, OneHandlePerName DEF c, old, NoteInv
    <3> QED BY <2>3, <2>8, <3>1, <3>2, <3>3
  <2>9. Keyed'
    <3> SUFFICES ASSUME NEW k \in Registered, NEW i \in Keys, NEW t, t = cache'[k][i], t # None
                 PROVE  IF i \in Ids THEN handle'[object'[t].handle].id = i
                        ELSE <<handle'[object'[t].handle].id, t>> \in tcache'[k]
      BY DEF Keyed, FoundUnder
    <3>1. CASE k \in concerned /\ cache[k][old] # None /\ i = new
      <4>1. t = cache[k][old] /\ old \in Keys
        BY <1>2, <2>5, <3>1 DEF Keys
      <4>2. PICK g : g = object[t].handle
        OBVIOUS
      <4>3. handle[g].id = old
        BY <1>2, <1>3, <3>1, <4>1, <4>2 DEF Keyed, FoundUnder
      <4>4. g = h /\ object'[t].handle = g
        BY <2>8, <3>1, <4>1, <4>2, <4>3
      <4> QED BY <1>2, <1>5, <3>1, <4>4
    <3>2. CASE ~(k \in concerned /\ cache[k][old] # None /\ i = new)
      <4>1. t = cache[k][i] /\ (k \in concerned => i # old)
        BY <2>5, <3>2
      <4>2. PICK g : g = object[t].handle
        OBVIOUS
      <4>3. /\ g \in IP!Allocated /\ object'[t].handle = g /\ (g = h => k \in concerned)
            /\ k \in concerned /\ handle[g].id = old => g = h
        BY <2>8, <4>1, <4>2
      <4>4. IF i \in Ids THEN handle[g].id = i ELSE <<handle[g].id, t>> \in tcache[k]
        BY <1>3, <4>1, <4>2 DEF Keyed, FoundUnder
      <4>5. CASE i \in Ids
        <5>1. g # h
          BY <4>1, <4>3, <4>4, <4>5 DEF old
        <5> QED BY <1>2, <4>3, <4>4, <4>5, <5>1
      <4>6. CASE i \notin Ids /\ g = h
        <5>1. <<new, t>> \in tcache'[k]
          BY <2>6, <4>3, <4>4, <4>6 DEF old
        <5> QED BY <1>2, <1>5, <4>3, <4>6, <5>1
      <4>7. CASE i \notin Ids /\ g # h
        <5>1. <<handle[g].id, t>> \in tcache'[k]
          BY <2>7, <4>3, <4>4, <4>7
        <5> QED BY <1>2, <4>3, <4>7, <5>1
      <4> QED BY <4>5, <4>6, <4>7
    <3> QED BY <3>1, <3>2
  <2>10. OneObject'
    <3> SUFFICES ASSUME NEW k \in Registered, NEW d \in Registered, NEW i \in Keys \ Ids,
                        cache'[k][i] # None, cache'[d][i] # None
                 PROVE  object'[cache'[k][i]].handle = object'[cache'[d][i]].handle
      BY DEF OneObject
    <3>1. cache'[k][i] = cache[k][i] /\ cache'[d][i] = cache[d][i]
      BY <1>2, <2>5
    <3>2. /\ object'[cache[k][i]].handle = object[cache[k][i]].handle
          /\ object'[cache[d][i]].handle = object[cache[d][i]].handle
      BY <2>8, <3>1
    <3> QED BY <1>3, <3>1, <3>2 DEF OneObject
  <2>11. OldNoted'
    <3>1. \A t \in renamed : t \in Made
      BY <1>2, <1>3 DEF renamed, CachesOK, Placed, Keys
    <3>2. \A t \in Made' : t \in Made
      BY <2>1, <3>1 DEF Made
    <3>3. \A t \in Made : object[t].content # "old"
      BY <1>1, NothingOld
    <3> QED BY <2>3, <3>2, <3>3 DEF OldNoted
  <2> QED BY <1>1, <2>9, <2>10, <2>11 DEF NoteInv
<1> QED BY <1>4, <1>5

----------------------------------------------------------------------------
(* Every step keeps this.                                                  *)

LEMMA NoteStep ==
  ASSUME ~ReusesNames, OneFamily, NoteInv, [Next]_vars
  PROVE  NoteInv'
<1>1. HandleInv' /\ Step
  BY FamilyStable, HandleStep DEF NoteInv
<1>2. CASE SafeLookup
  BY <1>1, <1>2, LookupNoted
<1>3. CASE \E c \in Registered, init_object \in BOOLEAN :
             \/ \E i \in Ids : create(c, i, init_object)
             \/ \E h \in Handles : get_by_object(c, h, init_object)
  BY <1>1, <1>3, CreateNoted, ByObjectNoted
<1>4. CASE \E c \in Registered : \/ \E h \in Handles, id \in Generated : generate(c, h, id)
                                 \/ \E t \in Made : cast(c, t) \/ get_algo_objects(c, t)
  BY <1>1, <1>4, GenerateNoted
<1>5. CASE \E t \in Made : check_init(t) \/ unread(t)
  BY <1>1, <1>5, GettersNoted
<1>6. CASE \E h \in Handles, i \in Ids : rename_object(h, i)
  BY <1>1, <1>6, RenameNoted
<1>7. CASE \/ (\E h \in Handles : destroy(h)) \/ abort
           \/ (\E b \in BOOLEAN : unread_all_objects(b)) \/ EndUpdate
  BY <1>1, <1>7, UnreadNoted
<1>8. CASE unload
  BY <1>1, <1>8, UnloadNoted
<1>9. CASE \E removed, created, modified \in SUBSET Objects : Reload(removed, created, modified)
  BY <1>1, <1>9, ReloadNoted
<1>10. CASE BeginUpdate \/ (\E ch \in pending : UpdateNext(ch)) \/ ImplStep \/ UNCHANGED vars
  BY <1>1, <1>10, ImplNoted
<1> QED BY <1>1, <1>2, <1>3, <1>4, <1>5, <1>6, <1>7, <1>8, <1>9, <1>10 DEF Step

LEMMA NoteInit ==
  ASSUME Init
  PROVE  NoteInv
<1>1. HandleInv
  BY HandleInit
<1>2. Made = {} /\ changes = {} /\ pending = {}
  BY DEF Init, Made, Impl!Init
<1> QED BY <1>1, <1>2 DEF NoteInv, Init, Keyed, OneObject, OldNoted

LEMMA NoteAlways ==
  ASSUME ~ReusesNames, OneFamily
  PROVE  Spec => []NoteInv
<1>1. Init => NoteInv
  BY NoteInit
<1>2. NoteInv /\ [Next]_vars => NoteInv'
  BY NoteStep
<1> QED BY <1>1, <1>2, PTL DEF Spec

\* set_cache_unread() finds every template of an object (Configuration.hpp:
\* 1599-1640): under the object's present id in m_cache, or in m_t_cache when
\* it was generated.
THEOREM FoundCorrect ==
  ASSUME ~ReusesNames, OneFamily
  PROVE  Spec => []FoundByNotification
<1>1. NoteInv => FoundByNotification
  BY DEF NoteInv, Keyed, FoundUnder, FoundByNotification
<1> QED BY <1>1, NoteAlways, PTL

\* When no notification is in progress, a getter that does not read returns
\* what the object holds since the last reported change: the second loop of
\* update_cache() (Configuration.cpp) has unread whatever had read before it.
THEOREM FreshTemplateCorrect ==
  ASSUME ~ReusesNames, OneFamily
  PROVE  Spec => []FreshTemplate
<1>1. NoteInv => FreshTemplate
  BY NothingOld DEF FreshTemplate
<1> QED BY <1>1, NoteAlways, PTL
=============================================================================
