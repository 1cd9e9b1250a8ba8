--------------------------- MODULE TemplatesProof ---------------------------
(***************************************************************************)
(* Proofs about Templates.  A template is found through the cache of its   *)
(* class and bound to a handle; the invariants relate the two caches, the  *)
(* handles (whose own invariants are those of ImplStatesProof, here IP)    *)
(* and the changes being reported.                                         *)
(***************************************************************************)
EXTENDS Templates, TLAPS

IP == INSTANCE ImplStatesProof WITH UsesReplaced <- FALSE, WritesWhileNotified <- FALSE

LEMMA ImplAssumption == IP!ObjectAssumption
BY ObjectsAssumption DEF IP!ObjectAssumption, IP!Handle, IP!States, IP!Contents,
   Impl!Handle, Impl!States, Impl!Contents

----------------------------------------------------------------------------
(* The two instances of ImplObjects are one.                               *)

LEMMA SameTypes ==
  /\ Impl!Handle = IP!Handle /\ Impl!Contents = IP!Contents /\ Impl!Change = IP!Change
  /\ Impl!Databases = IP!Databases
BY DEF Impl!Handle, Impl!States, Impl!Contents, Impl!Change, Impl!Databases,
       IP!Handle, IP!States, IP!Contents, IP!Change, IP!Databases

LEMMA SameState ==
  /\ Impl!Allocated = IP!Allocated /\ (Impl!TypeOK <=> IP!TypeOK)
  /\ \A o : Impl!Settled(o) = IP!Settled(o)
  /\ \A c, i : Impl!get_impl_object(c, i) = IP!get_impl_object(c, i)
  /\ \A h : Impl!InUse(h) <=> (h \in IP!Allocated /\ h \notin IP!Tangled)
BY SameTypes DEF Impl!Allocated, Impl!TypeOK, Impl!Settled, Impl!reset,
  Impl!get_impl_object, Impl!InUse, Impl!Tangled, IP!Allocated, IP!TypeOK, IP!Settled,
  IP!reset, IP!get_impl_object, IP!Tangled

LEMMA SameActions ==
  /\ \A c, i : Impl!get(c, i) <=> IP!get(c, i)
  /\ \A h : Impl!Access(h) <=> IP!Access(h)
  /\ \A h : Impl!destroy_obj(h) <=> IP!destroy_obj(h)
  /\ \A h, i : Impl!rename_object(h, i) <=> IP!rename_object(h, i)
  /\ Impl!unread_implementation_objects <=> IP!unread_implementation_objects
  /\ (Impl!commit <=> IP!commit) /\ (Impl!abort <=> IP!abort) /\ (Impl!unload <=> IP!unload)
  /\ \A r, c, m : Impl!Reload(r, c, m) <=> IP!Reload(r, c, m)
  /\ (Impl!BeginUpdate <=> IP!BeginUpdate) /\ (Impl!EndUpdate <=> IP!EndUpdate)
  /\ \A ch : Impl!UpdateNext(ch) <=> IP!UpdateNext(ch)
  /\ Impl!Init <=> IP!Init
<1>1. \A c, i : Impl!get(c, i) <=> IP!get(c, i)
  BY DEF Impl!get, Impl!insert_object, Impl!get_impl_object, Impl!Allocated,
     Impl!ImplMutexFree, IP!get, IP!insert_object, IP!get_impl_object, IP!Allocated,
     IP!ImplMutexFree
<1>2. \A h : Impl!Access(h) <=> IP!Access(h)
  BY DEF Impl!Access, Impl!InUse, Impl!Allocated, Impl!Tangled, Impl!Settled, Impl!reset,
         IP!Access, IP!InUse, IP!Allocated, IP!Tangled, IP!Settled, IP!reset
<1>a. \A ch, d : Impl!Updated(ch, d) = IP!Updated(ch, d)
  BY DEF Impl!Updated, Impl!Apply, Impl!Related, IP!Updated, IP!Apply, IP!Related
<1>b. (Impl!MayWrite <=> IP!MayWrite) /\ \A h : Impl!InUse(h) <=> IP!InUse(h)
  BY SameState DEF Impl!MayWrite, Impl!ImplMutexFree, IP!MayWrite, IP!ImplMutexFree, IP!InUse
<1>3. \A h : Impl!destroy_obj(h) <=> IP!destroy_obj(h)
  BY <1>a, <1>b, SameState DEF Impl!destroy_obj, IP!destroy_obj
<1>4. \A h, i : Impl!rename_object(h, i) <=> IP!rename_object(h, i)
  BY DEF Impl!rename_object, Impl!rename_impl_object, Impl!MayWrite, Impl!ImplMutexFree,
     Impl!InUse, Impl!Allocated, Impl!Tangled, Impl!Settled, Impl!reset,
     IP!rename_object, IP!rename_impl_object, IP!MayWrite, IP!ImplMutexFree,
     IP!InUse, IP!Allocated, IP!Tangled, IP!Settled, IP!reset
<1>5. /\ Impl!unread_implementation_objects <=> IP!unread_implementation_objects
      /\ (Impl!commit <=> IP!commit) /\ (Impl!abort <=> IP!abort) /\ (Impl!unload <=> IP!unload)
      /\ (Impl!BeginUpdate <=> IP!BeginUpdate) /\ (Impl!EndUpdate <=> IP!EndUpdate)
  BY DEF Impl!unread_implementation_objects, Impl!commit, Impl!abort, Impl!unload,
     Impl!BeginUpdate, Impl!EndUpdate, Impl!MayWrite, Impl!ImplMutexFree, Impl!AllUnknown,
     IP!unread_implementation_objects, IP!commit, IP!abort, IP!unload,
     IP!BeginUpdate, IP!EndUpdate, IP!MayWrite, IP!ImplMutexFree, IP!AllUnknown
<1>6. \A r, c, m : Impl!Reload(r, c, m) <=> IP!Reload(r, c, m)
  BY DEF Impl!Reload, Impl!Allocated, IP!Reload, IP!Allocated
<1>7. \A ch : Impl!UpdateNext(ch) <=> IP!UpdateNext(ch)
  BY <1>a DEF Impl!UpdateNext, IP!UpdateNext
<1>8. Impl!Init <=> IP!Init
  BY SameTypes DEF Impl!Init, IP!Init
<1> QED BY <1>1, <1>2, <1>3, <1>4, <1>5, <1>6, <1>7, <1>8

----------------------------------------------------------------------------
(* Looking up several objects at once.                                     *)

\* The handles that a lookup finds are those with the names looked up.
LEMMA FoundByName ==
  ASSUME IP!KeyInv, NEW d, NEW S \in SUBSET Ids, \A i \in S : d[i] \in Classes,
         NEW f \in Lookups(d, S)
  PROVE  /\ f \in [S -> Handles]
         /\ \A i, j \in S : f[i] = f[j] => i = j
         /\ \A i \in S :
              \/ /\ f[i] \in IP!Allocated \ IP!Tangled
                 /\ handle[f[i]].id = i /\ try_cast(d[i], handle[f[i]].cls)
                 /\ slot[handle[f[i]].cls][i] = f[i]
                 /\ slot[d[i]][i] # None => handle[f[i]].cls = d[i]
              \/ f[i] \notin IP!Allocated /\ slot[d[i]][i] = None
<1>1. f \in [S -> Handles] /\ \A i, j \in S : f[i] = f[j] => i = j
  BY DEF Lookups
<1>2. ASSUME NEW i \in S
      PROVE \/ /\ f[i] \in IP!Allocated \ IP!Tangled
               /\ handle[f[i]].id = i /\ try_cast(d[i], handle[f[i]].cls)
               /\ slot[handle[f[i]].cls][i] = f[i]
               /\ slot[d[i]][i] # None => handle[f[i]].cls = d[i]
            \/ f[i] \notin IP!Allocated /\ slot[d[i]][i] = None
  <2> DEFINE found == IP!get_impl_object(d[i], i)
  <2>1. f[i] \in IF found = {} THEN Handles \ IP!Allocated ELSE found
    BY SameState DEF Lookups
  <2>2. d[i] \in Classes /\ Subclasses[d[i]] \subseteq Classes
    BY ObjectsAssumption
  <2>3. CASE found = {}
    BY <2>1, <2>3 DEF IP!get_impl_object
  <2>4. CASE found # {}
    <3>1. PICK k \in Classes : /\ f[i] = slot[k][i] /\ slot[k][i] # None
                               /\ k = d[i] \/ k \in Subclasses[d[i]]
                               /\ slot[d[i]][i] # None => k = d[i]
      BY <2>1, <2>2, <2>4 DEF IP!get_impl_object
    <3>2. slot[k][i] \in IP!Allocated /\ slot[k][i] \notin IP!Tangled
          /\ handle[slot[k][i]].id = i /\ handle[slot[k][i]].cls = k
      BY <3>1 DEF IP!KeyInv, IP!Inv, IP!Named
    <3> QED BY <3>1, <3>2 DEF try_cast
  <2> QED BY <2>3, <2>4
<1> QED BY <1>1, <1>2

\* Each handle that the lookup found says Valid; the new ones have the names
\* looked up.
LEMMA InsertedShape ==
  ASSUME IP!KeyInv, NEW d, NEW S \in SUBSET Ids, \A i \in S : d[i] \in Classes,
         NEW f \in Lookups(d, S), NEW hs, IP!SameNames(handle, hs)
  PROVE  /\ Inserted(hs, d, f) \in [Handles -> IP!Handle \cup {None}]
         /\ \A h \in Handles : (\A i \in S : f[i] # h) => Inserted(hs, d, f)[h] = hs[h]
         /\ \A i \in S : Inserted(hs, d, f)[f[i]] =
              IF f[i] \in IP!Allocated THEN [hs[f[i]] EXCEPT !.state = "Valid"]
              ELSE [state |-> "Valid", id |-> i, cls |-> d[i], content |-> "none"]
<1>1. f \in [S -> Handles] /\ \A i, j \in S : f[i] = f[j] => i = j
  BY FoundByName
<1>2. /\ hs \in [Handles -> IP!Handle \cup {None}]
      /\ \A h \in Handles : hs[h] # None <=> h \in IP!Allocated
  BY DEF IP!SameNames, IP!Allocated
<1>3. ASSUME NEW h \in Handles, \A i \in S : f[i] # h
      PROVE  Inserted(hs, d, f)[h] = hs[h]
  BY <1>1, <1>3 DEF Inserted
<1>4. ASSUME NEW i \in S
      PROVE  Inserted(hs, d, f)[f[i]] =
               IF f[i] \in IP!Allocated THEN [hs[f[i]] EXCEPT !.state = "Valid"]
               ELSE [state |-> "Valid", id |-> i, cls |-> d[i], content |-> "none"]
  <2>1. (CHOOSE j \in S : f[j] = f[i]) = i
    BY <1>1
  <2>2. f[i] \in Handles /\ DOMAIN f = S
    BY <1>1
  <2> QED BY <1>2, <2>1, <2>2 DEF Inserted
<1>5. ASSUME NEW i \in S
      PROVE  Inserted(hs, d, f)[f[i]] \in IP!Handle
  <2>1. f[i] \in Handles
    BY <1>1
  <2>2. f[i] \in IP!Allocated => hs[f[i]] \in IP!Handle
    BY <1>2, <2>1
  <2>3. f[i] \in IP!Allocated => [hs[f[i]] EXCEPT !.state = "Valid"] \in IP!Handle
    BY <2>2 DEF IP!Handle, IP!States
  <2>4. [state |-> "Valid", id |-> i, cls |-> d[i], content |-> "none"] \in IP!Handle
    BY DEF IP!Handle, IP!States, IP!Contents
  <2> QED BY <1>4, <2>3, <2>4
<1>6. \A h \in Handles : Inserted(hs, d, f)[h] \in IP!Handle \cup {None}
  BY <1>2, <1>3, <1>5
<1>7. Inserted(hs, d, f) = [h \in Handles |-> Inserted(hs, d, f)[h]]
  BY DEF Inserted
<1>8. Inserted(hs, d, f) \in [Handles -> IP!Handle \cup {None}]
  BY <1>6, <1>7
<1> QED BY <1>3, <1>4, <1>8

LEMMA InsertedId ==
  ASSUME IP!KeyInv, NEW d, NEW S \in SUBSET Ids, \A i \in S : d[i] \in Classes,
         NEW f \in Lookups(d, S), NEW hs, IP!SameNames(handle, hs)
  PROVE  \A i \in S : Inserted(hs, d, f)[f[i]] \in IP!Handle /\ Inserted(hs, d, f)[f[i]].id = i
<1> DEFINE known == Inserted(hs, d, f)
<1>1. \A i \in S : f[i] \in IP!Allocated => handle[f[i]].id = i
  BY FoundByName
<1>2. \A i \in S : known[f[i]] =
        IF f[i] \in IP!Allocated THEN [hs[f[i]] EXCEPT !.state = "Valid"]
        ELSE [state |-> "Valid", id |-> i, cls |-> d[i], content |-> "none"]
  BY InsertedShape
<1> SUFFICES ASSUME NEW i \in S PROVE known[f[i]] \in IP!Handle /\ known[f[i]].id = i
  OBVIOUS
<1> HIDE DEF known
<1>3. CASE f[i] \in IP!Allocated
  <2>1. hs[f[i]] \in IP!Handle /\ hs[f[i]].id = i
    BY <1>1, <1>3 DEF IP!SameNames, IP!Allocated
  <2>2. known[f[i]] = [hs[f[i]] EXCEPT !.state = "Valid"]
    BY <1>2, <1>3
  <2> QED BY <2>1, <2>2 DEF IP!Handle, IP!States
<1>4. CASE f[i] \notin IP!Allocated
  <2>1. known[f[i]] = [state |-> "Valid", id |-> i, cls |-> d[i], content |-> "none"]
    BY <1>2, <1>4
  <2> QED BY <2>1 DEF IP!Handle, IP!States, IP!Contents
<1> QED BY <1>3, <1>4

\* The names that the lookup of the objects S leaves to the handles.
Looked(S, d, f) ==
  /\ IP!Allocated' = IP!Allocated \cup {f[i] : i \in S}
  /\ \A h \in IP!Allocated : handle'[h].id = handle[h].id /\ handle'[h].cls = handle[h].cls
  /\ \A i \in S : /\ handle'[f[i]].id = i /\ try_cast(d[i], handle'[f[i]].cls)
                  /\ f[i] \notin IP!Allocated => handle'[f[i]].cls = d[i]

LEMMA InsertedNames ==
  ASSUME IP!KeyInv, IP!WorldOK', NEW d, NEW S \in SUBSET Ids, \A i \in S : d[i] \in Classes,
         NEW f \in Lookups(d, S), NEW hs, IP!SameNames(handle, hs),
         slot' = Slots(d, f), UNCHANGED tangled,
         IP!SameNames(Inserted(hs, d, f), handle')
  PROVE  IP!KeyInv' /\ Looked(S, d, f)
<1> DEFINE ins == Inserted(hs, d, f)
<1>1. f \in [S -> Handles] /\ \A i, j \in S : f[i] = f[j] => i = j
  BY FoundByName
<1>2. /\ ins \in [Handles -> IP!Handle \cup {None}]
      /\ \A h \in Handles : (\A i \in S : f[i] # h) => ins[h] = hs[h]
      /\ \A i \in S : ins[f[i]] =
           IF f[i] \in IP!Allocated THEN [hs[f[i]] EXCEPT !.state = "Valid"]
           ELSE [state |-> "Valid", id |-> i, cls |-> d[i], content |-> "none"]
  BY InsertedShape
<1> HIDE DEF ins
<1>3. \A i \in S :
        \/ /\ f[i] \in IP!Allocated \ IP!Tangled
           /\ handle[f[i]].id = i /\ try_cast(d[i], handle[f[i]].cls)
           /\ slot[handle[f[i]].cls][i] = f[i]
           /\ slot[d[i]][i] # None => handle[f[i]].cls = d[i]
        \/ f[i] \notin IP!Allocated /\ slot[d[i]][i] = None
  BY FoundByName
<1>4. None \notin IP!Handle /\ None \notin Handles
  BY ImplAssumption DEF IP!ObjectAssumption
<1>5. ASSUME NEW h \in IP!Allocated
      PROVE  ins[h] \in IP!Handle /\ ins[h].id = handle[h].id /\ ins[h].cls = handle[h].cls
  <2>1. /\ h \in Handles /\ hs[h] \in IP!Handle
        /\ hs[h].id = handle[h].id /\ hs[h].cls = handle[h].cls
    BY <1>5 DEF IP!SameNames, IP!Allocated
  <2>2. CASE \A i \in S : f[i] # h
    BY <1>2, <2>1, <2>2
  <2>3. CASE \E i \in S : f[i] = h
    <3>1. ins[h] = [hs[h] EXCEPT !.state = "Valid"]
      BY <1>2, <1>5, <2>3
    <3> QED BY <2>1, <3>1 DEF IP!Handle, IP!States
  <2> QED BY <2>2, <2>3
<1>6. ASSUME NEW i \in S, f[i] \notin IP!Allocated
      PROVE  ins[f[i]] \in IP!Handle /\ ins[f[i]].id = i /\ ins[f[i]].cls = d[i]
  <2>1. ins[f[i]] = [state |-> "Valid", id |-> i, cls |-> d[i], content |-> "none"]
    BY <1>2, <1>6
  <2> QED BY <2>1 DEF IP!Handle, IP!States, IP!Contents
<1>7. \A h \in Handles : ins[h] # None <=> h \in IP!Allocated \cup {f[i] : i \in S}
  <2>1. \A h \in Handles : h \notin IP!Allocated /\ (\A i \in S : f[i] # h) => ins[h] = None
    BY <1>2 DEF IP!SameNames, IP!Allocated
  <2> QED BY <1>4, <1>5, <1>6, <2>1
<1>8. /\ handle' \in [Handles -> IP!Handle \cup {None}]
      /\ \A h \in Handles : /\ handle'[h] # None <=> h \in IP!Allocated \cup {f[i] : i \in S}
                            /\ handle'[h] # None => /\ handle'[h].id = ins[h].id
                                                    /\ handle'[h].cls = ins[h].cls
  BY <1>7 DEF IP!SameNames, ins
<1>9. IP!Allocated' = IP!Allocated \cup {f[i] : i \in S} /\ IP!Tangled' = IP!Tangled
  <2>1. IP!Allocated \subseteq Handles /\ {f[i] : i \in S} \subseteq Handles
    BY <1>1 DEF IP!Allocated
  <2>2. IP!Tangled' = IP!Tangled
    BY DEF IP!Tangled
  <2>3. IP!Allocated' = {h \in Handles : handle'[h] # None}
    BY DEF IP!Allocated
  <2> QED BY <1>8, <2>1, <2>2, <2>3
<1>10. /\ \A h \in IP!Allocated : handle'[h].id = handle[h].id /\ handle'[h].cls = handle[h].cls
       /\ \A i \in S : f[i] \notin IP!Allocated =>
                         handle'[f[i]].id = i /\ handle'[f[i]].cls = d[i]
  <2>1. IP!Allocated \subseteq Handles
    BY DEF IP!Allocated
  <2>2. \A i \in S : f[i] \in Handles
    BY <1>1
  <2> QED BY <1>5, <1>6, <1>8, <2>1, <2>2
<1>11. Looked(S, d, f)
  BY <1>3, <1>9, <1>10 DEF Looked, try_cast
<1>12. \A c \in Classes, i \in Ids :
         slot'[c][i] = IF i \in S /\ d[i] = c /\ f[i] \notin IP!Allocated
                       THEN f[i] ELSE slot[c][i]
  BY <1>1, SameState DEF Slots
<1>13. slot' \in [Classes -> [Ids -> Handles \cup {None}]]
  <2>1. \A c \in Classes, i \in Ids : slot[c][i] \in Handles \cup {None}
    BY DEF IP!KeyInv, IP!Inv, IP!TypeOK
  <2>2. \A c \in Classes, i \in Ids : 
          (IF i \in DOMAIN f /\ d[i] = c /\ f[i] \notin Impl!Allocated THEN f[i] ELSE slot[c][i])
             \in Handles \cup {None}
    BY <1>1, <2>1
  <2> QED BY <2>2 DEF Slots
<1>14. IP!Inv'
  <2>1. IP!TypeOK'
    BY <1>8, <1>13 DEF IP!TypeOK, IP!WorldOK, IP!KeyInv, IP!Inv
  <2>2. \A c \in Classes, i \in Ids : slot'[c][i] # None => slot'[c][i] \in IP!Allocated'
    BY <1>9, <1>12 DEF IP!KeyInv, IP!Inv
  <2>3. IP!Tangled' \subseteq IP!Allocated'
    BY <1>9 DEF IP!KeyInv, IP!Inv
  <2> QED BY <2>1, <2>2, <2>3 DEF IP!Inv
<1>15. IP!Named'
  <2> SUFFICES ASSUME NEW c \in Classes, NEW i \in Ids, slot'[c][i] # None
               PROVE  /\ slot'[c][i] \notin IP!Tangled'
                      /\ handle'[slot'[c][i]].id = i /\ handle'[slot'[c][i]].cls = c
    BY DEF IP!Named
  <2>1. CASE i \in S /\ d[i] = c /\ f[i] \notin IP!Allocated
    <3>1. f[i] \notin IP!Tangled
      BY <2>1 DEF IP!KeyInv, IP!Inv
    <3> QED BY <1>9, <1>10, <1>12, <2>1, <3>1
  <2>2. CASE ~(i \in S /\ d[i] = c /\ f[i] \notin IP!Allocated)
    <3>1. slot'[c][i] = slot[c][i]
      BY <1>12, <2>2
    <3>2. slot[c][i] \in IP!Allocated /\ slot[c][i] \notin IP!Tangled
          /\ handle[slot[c][i]].id = i /\ handle[slot[c][i]].cls = c
      BY <3>1 DEF IP!KeyInv, IP!Inv, IP!Named
    <3> QED BY <1>9, <1>10, <3>1, <3>2
  <2> QED BY <2>1, <2>2
<1>16. IP!Listed'
  <2> SUFFICES ASSUME NEW h \in IP!Allocated' \ IP!Tangled'
               PROVE  slot'[handle'[h].cls][handle'[h].id] = h
    BY DEF IP!Listed
  <2>1. CASE h \in IP!Allocated
    <3>1. slot[handle[h].cls][handle[h].id] = h /\ h \in Handles
      BY <1>9, <2>1 DEF IP!KeyInv, IP!Listed, IP!Allocated
    <3>2. handle[h].cls \in Classes /\ handle[h].id \in Ids
      BY <2>1 DEF IP!KeyInv, IP!Inv, IP!TypeOK, IP!Allocated, IP!Handle
    <3>3. h # None
      BY <1>4, <3>1
    <3>4. slot'[handle[h].cls][handle[h].id] = h
      BY <1>3, <1>12, <3>1, <3>2, <3>3
    <3> QED BY <1>10, <2>1, <3>4
  <2>2. CASE h \notin IP!Allocated
    <3>1. PICK i \in S : h = f[i]
      BY <1>9, <2>2
    <3> QED BY <1>10, <1>12, <2>2, <3>1
  <2> QED BY <2>1, <2>2
<1> QED BY <1>11, <1>14, <1>15, <1>16 DEF IP!KeyInv

----------------------------------------------------------------------------
(* The caches of templates.                                                *)

TmplTypes ==
  /\ object \in [Templates -> Template \cup {None}]
  /\ cache \in [Registered -> [Keys -> Templates \cup {None}]]
  /\ tcache \in [Registered -> SUBSET (Ids \X Templates)]

\* A cache holds templates under their UID, and no other cache holds them.
Placed ==
  \A c \in Registered, k \in Keys : cache[c][k] # None =>
     /\ cache[c][k] \in Made
     /\ object[cache[c][k]].uid = k
OnePlace ==
  \A c, d \in Registered, k, l \in Keys :
     cache[c][k] # None /\ cache[c][k] = cache[d][l] => c = d
SomePlace == \A t \in Made : \E c \in Registered : cache[c][object[t].uid] = t
Bound == \A t \in Made : object[t].handle \in IP!Allocated
Recorded == \A c \in Registered : \A p \in tcache[c] : p[2] \in Made

\* What holds whatever ids the client chooses ...
CachesOK ==
  /\ TmplTypes /\ Placed /\ OnePlace /\ Bound /\ Recorded /\ CastIsSafe
  /\ ~ReusesNames => SomePlace
CacheInv == IP!KeyInv /\ changes \subseteq IP!Change /\ CachesOK

\* No handle is deleted, and none moves to an object of another class.
ClassesKept ==
  \A h \in IP!Allocated : h \in IP!Allocated' /\ handle'[h].cls = handle[h].cls

\* ... nor to one of another name.
NamesKept == ClassesKept /\ \A h \in IP!Allocated : handle'[h].id = handle[h].id

\* Only what templates have read differs.
SameTemplates ==
  /\ object' \in [Templates -> Template \cup {None}]
  /\ \A t \in Templates :
       /\ object'[t] = None <=> object[t] = None
       /\ object[t] # None => object'[t].handle = object[t].handle /\ object'[t].uid = object[t].uid
  /\ UNCHANGED <<cache, tcache>>

LEMMA MadeType ==
  ASSUME TmplTypes, NEW t \in Made
  PROVE  object[t] \in Template /\ t \in Templates /\ t # None
BY TemplateAssumption DEF TmplTypes, Made

LEMMA CastKept ==
  ASSUME CachesOK, ClassesKept, NEW c \in Registered, NEW k \in Keys, cache[c][k] # None
  PROVE  try_cast(c, handle'[object[cache[c][k]].handle].cls)
BY DEF CachesOK, Placed, Bound, ClassesKept, CastIsSafe

LEMMA SameTemplatesStep ==
  ASSUME CachesOK, ClassesKept, SameTemplates
  PROVE  CachesOK'
<1>1. Made' = Made
  BY DEF Made, SameTemplates
<1>2. \A t \in Made : object'[t].handle = object[t].handle /\ object'[t].uid = object[t].uid
  BY DEF Made, SameTemplates
<1>3. cache' = cache
  BY DEF SameTemplates
<1>4. TmplTypes'
  BY DEF TmplTypes, SameTemplates, CachesOK
<1>5. Placed' /\ OnePlace'
  BY <1>1, <1>2, <1>3 DEF CachesOK, Placed, OnePlace
<1>6. Bound'
  BY <1>1, <1>2 DEF CachesOK, Bound, ClassesKept
<1>7. CastIsSafe'
  BY <1>2, <1>3, CastKept DEF CachesOK, Placed, CastIsSafe
<1>8. SomePlace => SomePlace'
  BY <1>1, <1>2, <1>3 DEF SomePlace
<1>9. Recorded'
  BY <1>1 DEF CachesOK, Recorded, SameTemplates
<1> QED BY <1>4, <1>5, <1>6, <1>7, <1>8, <1>9 DEF CachesOK

\* Cache<T>::get() for the handles hs, T being class[h]: the template with the
\* id key[h] is bound to h, or a new one is.
Got(g, class, key, hs) ==
  /\ g \in [hs -> Templates]
  /\ \A h, k \in hs : g[h] = g[k] => h = k
  /\ object' \in [Templates -> Template \cup {None}]
  /\ \A t \in Templates : (\A h \in hs : g[h] # t) => object'[t] = object[t]
  /\ \A h \in hs :
       IF cache[class[h]][key[h]] = None
       THEN /\ g[h] \notin Made /\ object'[g[h]] \in Template
            /\ object'[g[h]].handle = h /\ object'[g[h]].uid = key[h]
            /\ object'[g[h]].content \in {"none", handle'[h].content}
       ELSE /\ g[h] = cache[class[h]][key[h]]
            /\ object'[g[h]] = set(object[g[h]], h)
  /\ cache' \in [Registered -> [Keys -> Templates \cup {None}]]
  /\ \A h \in hs : cache'[class[h]][key[h]] = g[h]
  /\ \A c \in Registered, k \in Keys :
       (\A h \in hs : ~(class[h] = c /\ key[h] = k)) => cache'[c][k] = cache[c][k]

LEMMA GotBound ==
  ASSUME CachesOK, NEW hs \in SUBSET Handles, NEW class \in [hs -> Registered],
         NEW key \in [hs -> Keys], NEW g, Got(g, class, key, hs), NEW h \in hs
  PROVE  /\ object'[g[h]] \in Template
         /\ object'[g[h]].handle = h /\ object'[g[h]].uid = key[h]
         /\ g[h] \in Made => object[g[h]].uid = key[h]
<1> USE DEF Got
<1>1. h \in Handles /\ class[h] \in Registered /\ key[h] \in Keys /\ g[h] \in Templates
  OBVIOUS
<1>2. CASE cache[class[h]][key[h]] # None
  <2>1. g[h] \in Made /\ object[g[h]].uid = key[h]
    BY <1>1, <1>2 DEF CachesOK, Placed
  <2>2. object[g[h]] \in Template
    BY <2>1, MadeType DEF CachesOK
  <2>3. object'[g[h]] = [object[g[h]] EXCEPT !.handle = h]
    BY <1>2 DEF set
  <2> QED BY <1>1, <2>1, <2>2, <2>3 DEF Template
<1>3. CASE cache[class[h]][key[h]] = None
  BY <1>3
<1> QED BY <1>2, <1>3

LEMMA GotMade ==
  ASSUME CachesOK, NEW hs \in SUBSET Handles, NEW class \in [hs -> Registered],
         NEW key \in [hs -> Keys], NEW g, Got(g, class, key, hs)
  PROVE  Made' = Made \cup {g[h] : h \in hs}
<1>1. \A h \in hs : object'[g[h]] \in Template
  BY GotBound
<1>2. /\ \A h \in hs : g[h] \in Templates
      /\ \A t \in Templates : (\A h \in hs : g[h] # t) => object'[t] = object[t]
  BY DEF Got
<1>3. None \notin Template
  BY TemplateAssumption
<1> QED BY <1>1, <1>2, <1>3 DEF Made

LEMMA GotGrows ==
  ASSUME CachesOK, NEW hs \in SUBSET Handles, NEW class \in [hs -> Registered],
         NEW key \in [hs -> Keys], NEW g, Got(g, class, key, hs)
  PROVE  Made \subseteq Made'
BY GotMade

LEMMA GotOther ==
  ASSUME NEW hs, NEW class, NEW key, NEW g, Got(g, class, key, hs), NEW t \in Made,
         \A h \in hs : g[h] # t
  PROVE  object'[t] = object[t]
BY DEF Got, Made

\* The handles are of objects that can be cast to the classes.
SafeFor(class, hs) ==
  \A h \in hs : h \in IP!Allocated /\ try_cast(class[h], handle[h].cls)

LEMMA GotCached ==
  ASSUME CachesOK, ClassesKept, NEW hs \in SUBSET Handles, NEW class \in [hs -> Registered],
         NEW key \in [hs -> Keys], NEW g, Got(g, class, key, hs),
         SafeFor(class, hs)',
         TmplTypes', Recorded'
  PROVE  CachesOK'
<1>1. Made' = Made \cup {g[h] : h \in hs}
  BY GotMade
<1>2. \A h \in hs : /\ object'[g[h]].handle = h /\ object'[g[h]].uid = key[h]
                    /\ g[h] \in Made => object[g[h]].uid = key[h]
  BY GotBound
<1>3. \A t \in Made : (\A h \in hs : g[h] # t) => object'[t] = object[t]
  BY GotOther
<1>4. ASSUME NEW t \in Made
      PROVE  object'[t].uid = object[t].uid
  <2>1. CASE \A h \in hs : g[h] # t
    BY <1>3, <2>1
  <2>2. CASE \E h \in hs : g[h] = t
    <3>1. PICK h \in hs : g[h] = t
      BY <2>2
    <3>2. object'[g[h]].uid = key[h] /\ (g[h] \in Made => object[g[h]].uid = key[h])
      BY <1>2
    <3> QED BY <1>4, <3>1, <3>2
  <2> QED BY <2>1, <2>2
<1> USE DEF Got
<1>5. \A h \in hs : h \in Handles /\ class[h] \in Registered /\ key[h] \in Keys /\ g[h] \in Templates
  OBVIOUS
<1>6. \A c \in Registered, k \in Keys :
        \/ \E h \in hs : class[h] = c /\ key[h] = k /\ cache'[c][k] = g[h]
        \/ cache'[c][k] = cache[c][k] /\ \A h \in hs : ~(class[h] = c /\ key[h] = k)
  OBVIOUS
<1>7. \A h \in hs : \/ g[h] \notin Made
                    \/ cache[class[h]][key[h]] = g[h] /\ g[h] # None
  BY <1>5
<1>8. None \notin Templates
  BY TemplateAssumption
<1>10. Placed'
  <2> SUFFICES ASSUME NEW c \in Registered, NEW k \in Keys, cache'[c][k] # None
               PROVE  cache'[c][k] \in Made' /\ object'[cache'[c][k]].uid = k
    BY DEF Placed
  <2>1. CASE \E h \in hs : class[h] = c /\ key[h] = k /\ cache'[c][k] = g[h]
    <3>1. PICK h \in hs : key[h] = k /\ cache'[c][k] = g[h]
      BY <2>1
    <3>2. object'[g[h]].uid = key[h] /\ g[h] \in Made'
      BY <1>1, <1>2
    <3> QED BY <3>1, <3>2
  <2>2. CASE cache'[c][k] = cache[c][k]
    <3>1. cache[c][k] \in Made /\ object[cache[c][k]].uid = k
      BY <2>2 DEF CachesOK, Placed
    <3> QED BY <1>1, <1>3, <1>4, <2>2, <3>1
  <2> QED BY <1>6, <2>1, <2>2
\* A template that was got is in no cache but the one it was got from.
<1>11. ASSUME NEW h \in hs, NEW c \in Registered, NEW k \in Keys, cache'[c][k] = g[h]
      PROVE  c = class[h] /\ k = key[h]
  <2>1. CASE \E j \in hs : class[j] = c /\ key[j] = k /\ cache'[c][k] = g[j]
    BY <1>11, <2>1
  <2>2. CASE cache'[c][k] = cache[c][k]
    <3>1. cache[c][k] # None
      BY <1>5, <1>8, <1>11, <2>2
    <3>2. cache[c][k] \in Made /\ object[cache[c][k]].uid = k
      BY <3>1 DEF CachesOK, Placed
    <3>3. cache[class[h]][key[h]] = g[h] /\ g[h] # None
      BY <1>7, <1>11, <2>2, <3>2
    <3>4. c = class[h]
      BY <1>5, <1>11, <2>2, <3>1, <3>3 DEF CachesOK, OnePlace
    <3>5. object[g[h]].uid = key[h]
      BY <1>5, <3>3 DEF CachesOK, Placed
    <3> QED BY <1>11, <2>2, <3>2, <3>4, <3>5
  <2> QED BY <1>6, <2>1, <2>2
<1>12. OnePlace'
  <2> SUFFICES ASSUME NEW c \in Registered, NEW d \in Registered, NEW k \in Keys, NEW l \in Keys,
                      cache'[c][k] # None, cache'[c][k] = cache'[d][l]
               PROVE  c = d
    BY DEF OnePlace
  <2>1. CASE \E h \in hs : cache'[c][k] = g[h]
    <3>1. PICK h \in hs : cache'[c][k] = g[h]
      BY <2>1
    <3>2. cache'[d][l] = g[h]
      BY <3>1
    <3> QED BY <1>11, <3>1, <3>2
  <2>2. CASE ~\E h \in hs : cache'[c][k] = g[h]
    BY <1>6, <2>2 DEF CachesOK, OnePlace
  <2> QED BY <2>1, <2>2
<1>13. Bound'
  <2> SUFFICES ASSUME NEW t \in Made' PROVE object'[t].handle \in IP!Allocated'
    BY DEF Bound
  <2>1. CASE \E h \in hs : t = g[h]
    <3>1. PICK h \in hs : t = g[h]
      BY <2>1
    <3>2. object'[g[h]].handle = h /\ h \in IP!Allocated'
      BY <1>2 DEF SafeFor
    <3> QED BY <3>1, <3>2
  <2>2. CASE \A h \in hs : g[h] # t
    BY <1>1, <1>3, <2>2 DEF CachesOK, Bound, ClassesKept
  <2> QED BY <2>1, <2>2
<1>14. CastIsSafe'
  <2> SUFFICES ASSUME NEW c \in Registered, NEW k \in Keys, cache'[c][k] # None
               PROVE  try_cast(c, handle'[object'[cache'[c][k]].handle].cls)
    BY DEF CastIsSafe
  <2>1. CASE \E h \in hs : cache'[c][k] = g[h]
    <3>1. PICK h \in hs : cache'[c][k] = g[h]
      BY <2>1
    <3>2. object'[g[h]].handle = h /\ try_cast(class[h], handle'[h].cls)
      BY <1>2 DEF SafeFor
    <3>3. c = class[h]
      BY <1>11, <3>1
    <3> QED BY <3>1, <3>2, <3>3
  <2>2. CASE ~\E h \in hs : cache'[c][k] = g[h]
    <3>1. cache'[c][k] = cache[c][k] /\ cache[c][k] \in Made
      BY <1>6, <2>2 DEF CachesOK, Placed
    <3>2. object'[cache[c][k]] = object[cache[c][k]]
      BY <1>1, <1>3, <1>4, <2>2, <3>1
    <3> QED BY <3>1, <3>2, CastKept
  <2> QED BY <2>1, <2>2
<1>15. SomePlace => SomePlace'
  <2> SUFFICES ASSUME SomePlace, NEW t \in Made'
               PROVE  \E c \in Registered : cache'[c][object'[t].uid] = t
    BY DEF SomePlace
  <2>1. CASE \E h \in hs : t = g[h]
    <3>1. PICK h \in hs : t = g[h]
      BY <2>1
    <3>2. object'[g[h]].uid = key[h] /\ class[h] \in Registered
      BY <1>2, <1>5
    <3>3. cache'[class[h]][key[h]] = g[h]
      OBVIOUS
    <3> QED BY <3>1, <3>2, <3>3
  <2>2. CASE \A h \in hs : g[h] # t
    <3>1. t \in Made /\ object'[t] = object[t]
      BY <1>1, <1>3, <2>2
    <3>2. PICK c \in Registered : cache[c][object[t].uid] = t
      BY <3>1 DEF SomePlace
    <3>3. object[t].uid \in Keys /\ t # None
      BY <3>1, MadeType DEF CachesOK, Template
    <3>4. cache'[c][object[t].uid] = t
      BY <1>6, <1>7, <2>2, <3>1, <3>2, <3>3
    <3> QED BY <3>1, <3>4
  <2> QED BY <2>1, <2>2
<1> QED BY <1>10, <1>12, <1>13, <1>14, <1>15 DEF CachesOK

\* The first read of an object's attributes is an access to it.
LEMMA ReadType ==
  ASSUME NEW o \in IP!Handle
  PROVE  /\ ReadHandle(o) \in IP!Handle
         /\ ReadHandle(o).id = o.id /\ ReadHandle(o).cls = o.cls
<1>1. IP!Settled(o) \in IP!Handle /\ IP!Settled(o).id = o.id /\ IP!Settled(o).cls = o.cls
  BY ImplAssumption, IP!SettledType
<1>2. ReadHandle(o) = IF IP!Settled(o).state = "Valid" /\ IP!Settled(o).content = "none"
                      THEN [IP!Settled(o) EXCEPT !.content = "current"] ELSE IP!Settled(o)
  BY SameState DEF ReadHandle
<1>3. \A s \in IP!Handle : /\ [s EXCEPT !.content = "current"] \in IP!Handle
                           /\ [s EXCEPT !.content = "current"].id = s.id
                           /\ [s EXCEPT !.content = "current"].cls = s.cls
  BY DEF IP!Handle, IP!Contents
<1> QED BY <1>1, <1>2, <1>3

\* init() reads some of the handles it was asked for.
SomeRead(hs, known) ==
  /\ handle' \in [Handles -> IP!Handle \cup {None}]
  /\ \A h \in Handles : \/ handle'[h] = known[h]
                        \/ h \in hs /\ handle'[h] = ReadHandle(known[h])

\* The ids that GetEach() looks for.
NamesOf(known, hs) == [h \in hs |-> known[h].id]
\* Some templates are got for the handles hs.
SomeGot(class, known, hs) == \E g : Got(g, class, NamesOf(known, hs), hs)

LEMMA GetEachShape ==
  ASSUME CachesOK, NEW hs \in SUBSET Handles, NEW class \in [hs -> Registered],
         NEW known \in [Handles -> IP!Handle \cup {None}], \A h \in hs : known[h] \in IP!Handle,
         \A h, k \in hs : known[h].id = known[k].id => h = k,
         NEW init_object, GetEach(class, hs, known, init_object)
  PROVE  /\ SomeGot(class, known, hs)
         /\ SomeRead(hs, known)
<1> DEFINE Found(h) == cache[class[h]][known[h].id]
           fresh == {h \in hs : Found(h) = None}
           key == [h \in hs |-> known[h].id]
<1>1. PICK g \in [hs -> Templates] :
        LET Put(c, k) == {g[h] : h \in {x \in fresh : class[x] = c /\ known[x].id = k}} IN
        /\ \A h, k \in hs : g[h] = g[k] => h = k
        /\ \A h \in hs : IF h \in fresh THEN g[h] \notin Made ELSE g[h] = Found(h)
        /\ handle' = [h \in Handles |->
             IF init_object /\ h \in fresh THEN ReadHandle(known[h]) ELSE known[h]]
        /\ object' = [t \in Templates |->
             IF \A h \in hs : g[h] # t THEN object[t]
             ELSE LET h == CHOOSE h \in hs : g[h] = t IN
                  IF h \notin fresh THEN set(object[t], h)
                  ELSE IF init_object THEN init(New(h, known[h].id), handle'[h])
                  ELSE New(h, known[h].id)]
        /\ cache' = [c \in Registered |-> [k \in Keys |->
             IF Put(c, k) = {} THEN cache[c][k] ELSE CHOOSE t \in Put(c, k) : TRUE]]
  BY DEF GetEach
<1> DEFINE Put(c, k) == {g[h] : h \in {x \in fresh : class[x] = c /\ known[x].id = k}}
<1>2. \A h, k \in hs : g[h] = g[k] => h = k
  BY <1>1
<1>3. \A h \in hs : IF h \in fresh THEN g[h] \notin Made ELSE g[h] = Found(h)
  BY <1>1
<1>4. \A h \in hs : /\ known[h].id \in Ids /\ known[h].id \in Keys /\ key[h] = known[h].id
                    /\ class[h] \in Registered /\ g[h] \in Templates /\ h \in Handles
  BY DEF IP!Handle, Keys
<1>5. SomeRead(hs, known)
  <2>1. handle' = [h \in Handles |->
             IF init_object /\ h \in fresh THEN ReadHandle(known[h]) ELSE known[h]]
    BY <1>1
  <2>2. \A h \in Handles : \/ handle'[h] = known[h]
                           \/ h \in hs /\ handle'[h] = ReadHandle(known[h])
    BY <2>1
  <2>3. \A h \in Handles : handle'[h] \in IP!Handle \cup {None}
    BY <2>2, ReadType
  <2> QED BY <2>1, <2>2, <2>3 DEF SomeRead
<1>6. /\ \A t \in Templates : (\A h \in hs : g[h] # t) => object'[t] = object[t]
      /\ \A h \in hs : object'[g[h]] =
           IF h \notin fresh THEN set(object[g[h]], h)
           ELSE IF init_object THEN init(New(h, known[h].id), handle'[h])
           ELSE New(h, known[h].id)
      /\ object' = [t \in Templates |-> object'[t]]
  <2>1. object' = [t \in Templates |->
             IF \A h \in hs : g[h] # t THEN object[t]
             ELSE LET h == CHOOSE h \in hs : g[h] = t IN
                  IF h \notin fresh THEN set(object[t], h)
                  ELSE IF init_object THEN init(New(h, known[h].id), handle'[h])
                  ELSE New(h, known[h].id)]
    BY <1>1
  <2>2. \A h \in hs : (CHOOSE k \in hs : g[k] = g[h]) = h
    BY <1>2
  <2> HIDE DEF fresh
  <2>3. \A t \in Templates : (\A h \in hs : g[h] # t) => object'[t] = object[t]
    BY <2>1
  <2>4. ASSUME NEW h \in hs
        PROVE  object'[g[h]] =
           IF h \notin fresh THEN set(object[g[h]], h)
           ELSE IF init_object THEN init(New(h, known[h].id), handle'[h])
           ELSE New(h, known[h].id)
    BY <1>4, <2>1, <2>2
  <2>5. object' = [t \in Templates |-> object'[t]]
    BY <2>1
  <2> QED BY <2>3, <2>4, <2>5
<1>7. ASSUME NEW h \in fresh
      PROVE  /\ object'[g[h]] \in Template
             /\ object'[g[h]].handle = h /\ object'[g[h]].uid = known[h].id
             /\ object'[g[h]].content \in {"none", handle'[h].content}
  <2>1. handle'[h] \in IP!Handle
    BY <1>4, <1>5, ReadType DEF SomeRead
  <2>2. New(h, known[h].id) \in Template /\ "none" \in Impl!Contents
    BY <1>4 DEF New, Template, Impl!Contents
  <2>3. init(New(h, known[h].id), handle'[h]) \in Template
    BY <1>4, <2>1, <2>2, SameTypes DEF New, Template, init, IP!Handle
  <2>4. object'[g[h]] = IF init_object THEN init(New(h, known[h].id), handle'[h])
                        ELSE New(h, known[h].id)
    BY <1>6
  <2> QED BY <2>2, <2>3, <2>4 DEF New, init
<1>8. \A h \in hs : h \notin fresh => g[h] = cache[class[h]][key[h]] /\ object'[g[h]] = set(object[g[h]], h)
  BY <1>3, <1>4, <1>6
<1>9. ASSUME NEW h \in hs, h \notin fresh
      PROVE  object'[g[h]] \in Template
  <2>1. g[h] = cache[class[h]][known[h].id] /\ g[h] # None /\ object'[g[h]] = set(object[g[h]], h)
    BY <1>3, <1>4, <1>6, <1>9
  <2>2. object[g[h]] \in Template
    BY <1>4, <2>1, MadeType DEF CachesOK, Placed
  <2> QED BY <1>4, <2>1, <2>2 DEF set, Template
<1>10. object' \in [Templates -> Template \cup {None}]
  <2>1. \A t \in Templates : object[t] \in Template \cup {None}
    BY DEF CachesOK, TmplTypes
  <2>2. \A t \in Templates : object'[t] \in Template \cup {None}
    BY <1>6, <1>7, <1>9, <2>1
  <2> QED BY <1>6, <2>2
<1>11. \A c \in Registered, k \in Keys :
         cache'[c][k] = IF Put(c, k) = {} THEN cache[c][k] ELSE CHOOSE t \in Put(c, k) : TRUE
  BY <1>1
<1>12. \A c \in Registered, k \in Keys :
         (\A h \in hs : ~(class[h] = c /\ key[h] = k)) => cache'[c][k] = cache[c][k]
  BY <1>4, <1>11
<1>13. ASSUME NEW h \in hs
       PROVE  cache'[class[h]][key[h]] = g[h]
  <2>0. /\ class[h] \in Registered /\ key[h] \in Keys /\ key[h] = known[h].id
        /\ \A x \in fresh : class[x] = class[h] /\ known[x].id = known[h].id => x = h
    BY <1>4
  <2> HIDE DEF key
  <2>1. cache'[class[h]][key[h]] =
            IF Put(class[h], key[h]) = {} THEN cache[class[h]][key[h]]
            ELSE CHOOSE t \in Put(class[h], key[h]) : TRUE
    <3> HIDE DEF Put
    <3> QED BY <1>11, <2>0
  <2>2. CASE h \in fresh
    <3>1. Put(class[h], key[h]) = {g[h]}
      BY <2>0, <2>2
    <3> HIDE DEF Put
    <3>2. (CHOOSE t \in Put(class[h], key[h]) : TRUE) \in Put(class[h], key[h])
      BY <3>1
    <3> QED BY <2>1, <3>1, <3>2
  <2>3. CASE h \notin fresh
    <3>1. Put(class[h], key[h]) = {}
      BY <2>0, <2>3
    <3> HIDE DEF Put
    <3> QED BY <1>8, <2>1, <2>3, <3>1
  <2> QED BY <2>2, <2>3
<1>14. cache' \in [Registered -> [Keys -> Templates \cup {None}]]
  <2>1. \A c \in Registered, k \in Keys : cache'[c][k] \in Templates \cup {None}
    <3> SUFFICES ASSUME NEW c \in Registered, NEW k \in Keys
                 PROVE  cache'[c][k] \in Templates \cup {None}
      OBVIOUS
    <3>1. CASE \A h \in hs : ~(class[h] = c /\ key[h] = k)
      BY <1>12, <3>1 DEF CachesOK, TmplTypes
    <3>2. CASE \E h \in hs : class[h] = c /\ key[h] = k
      BY <1>4, <1>13, <3>2
    <3> QED BY <3>1, <3>2
  <2>2. cache' = [c \in Registered |-> [k \in Keys |-> cache'[c][k]]]
    BY <1>1
  <2> HIDE DEF Put
  <2> QED BY <2>1, <2>2
<1>15. ASSUME NEW h \in hs
       PROVE  IF cache[class[h]][key[h]] = None
              THEN /\ g[h] \notin Made /\ object'[g[h]] \in Template
                   /\ object'[g[h]].handle = h /\ object'[g[h]].uid = key[h]
                   /\ object'[g[h]].content \in {"none", handle'[h].content}
              ELSE /\ g[h] = cache[class[h]][key[h]]
                   /\ object'[g[h]] = set(object[g[h]], h)
  <2>1. h \in fresh <=> cache[class[h]][key[h]] = None
    BY <1>4
  <2> QED BY <1>3, <1>4, <1>7, <1>8, <2>1
<1> HIDE DEF key, fresh, Found, Put
<1>16. Got(g, class, key, hs)
  BY <1>2, <1>6, <1>10, <1>12, <1>13, <1>14, <1>15 DEF Got
<1> QED BY <1>5, <1>16 DEF key, NamesOf, SomeGot

\* Cache<T>::get(obj, id) gets one template, and records a new one that has
\* another id than its object.
LEMMA GenerateShape ==
  ASSUME CachesOK, NEW c \in Registered, NEW h \in Handles, NEW id \in Keys,
         handle[h].id \in Ids, Generate(c, h, id)
  PROVE  /\ tcache' \in [Registered -> SUBSET (Ids \X Templates)] /\ Recorded'
         /\ \A d \in Registered : tcache[d] \subseteq tcache'[d]
         /\ \E g : /\ Got(g, [x \in {h} |-> c], [x \in {h} |-> id], {h})
                   /\ cache[c][id] = None /\ id # handle[h].id
                        => <<handle[h].id, g[h]>> \in tcache'[c]
<1> DEFINE class == [x \in {h} |-> c]
           key == [x \in {h} |-> id]
<1>0. class[h] = c /\ key[h] = id
  OBVIOUS
<1>1. CASE /\ cache[c][id] # None
           /\ object' = [object EXCEPT ![cache[c][id]] = set(@, h)]
           /\ UNCHANGED <<cache, tcache>>
  <2> DEFINE t == cache[c][id]
             g == [x \in {h} |-> t]
  <2>1. t \in Made /\ object[t] \in Template /\ t \in Templates
    BY <1>1, MadeType DEF CachesOK, Placed
  <2>2. set(object[t], h) \in Template
    BY <2>1 DEF set, Template
  <2>3. object' = [object EXCEPT ![t] = set(object[t], h)] /\ UNCHANGED <<cache, tcache>> /\ t # None
    BY <1>1
  <2>4. g[h] = t /\ g \in [{h} -> Templates]
    BY <2>1
  <2> HIDE DEF t, class, key
  <2>5. /\ object' \in [Templates -> Template \cup {None}]
        /\ object'[t] = set(object[t], h)
        /\ \A s \in Templates : s # t => object'[s] = object[s]
    BY <2>1, <2>2, <2>3 DEF CachesOK, TmplTypes
  <2> HIDE DEF g
  <2>6. Got(g, class, key, {h})
    BY <1>0, <2>3, <2>4, <2>5 DEF Got, CachesOK, TmplTypes, t
  <2>7. Made \subseteq Made'
    BY <2>2, <2>5, TemplateAssumption DEF Made
  <2>8. Recorded'
    BY <2>3, <2>7 DEF CachesOK, Recorded
  <2> QED BY <2>3, <2>6, <2>8 DEF CachesOK, TmplTypes, t, class, key
<1>2. CASE /\ cache[c][id] = None
           /\ \E t \in Templates \ Made :
                /\ object' = [object EXCEPT ![t] = New(h, id)]
                /\ cache' = [cache EXCEPT ![c][id] = t]
                /\ tcache' = IF id = handle[h].id THEN tcache
                             ELSE [tcache EXCEPT ![c] = @ \cup {<<handle[h].id, t>>}]
  <2>1. PICK t \in Templates \ Made :
                /\ object' = [object EXCEPT ![t] = New(h, id)]
                /\ cache' = [cache EXCEPT ![c][id] = t]
                /\ tcache' = IF id = handle[h].id THEN tcache
                             ELSE [tcache EXCEPT ![c] = @ \cup {<<handle[h].id, t>>}]
    BY <1>2
  <2> DEFINE g == [x \in {h} |-> t]
  <2>2. g[h] = t /\ g \in [{h} -> Templates]
    OBVIOUS
  <2>3. New(h, id) \in Template /\ New(h, id).handle = h /\ New(h, id).uid = id
        /\ New(h, id).content = "none"
    BY DEF New, Template, Impl!Contents
  <2> HIDE DEF class, key, g
  <2>4. /\ object' \in [Templates -> Template \cup {None}]
        /\ object'[t] = New(h, id)
        /\ \A s \in Templates : s # t => object'[s] = object[s]
    BY <2>1, <2>3 DEF CachesOK, TmplTypes
  <2>5. /\ cache' \in [Registered -> [Keys -> Templates \cup {None}]]
        /\ \A d \in Registered, k \in Keys : cache'[d][k] = IF d = c /\ k = id THEN t ELSE cache[d][k]
    BY <2>1 DEF CachesOK, TmplTypes
  <2>6. Got(g, class, key, {h})
    BY <1>0, <1>2, <2>1, <2>2, <2>3, <2>4, <2>5 DEF Got
  <2>7. /\ tcache' \in [Registered -> SUBSET (Ids \X Templates)]
        /\ \A d \in Registered : tcache[d] \subseteq tcache'[d]
        /\ id # handle[h].id => <<handle[h].id, t>> \in tcache'[c]
    BY <2>1 DEF CachesOK, TmplTypes
  <2>8. Made' = Made \cup {t}
    BY <2>1, <2>3, <2>4, TemplateAssumption DEF Made
  <2>9. \A d \in Registered : tcache'[d] \subseteq tcache[d] \cup {<<handle[h].id, t>>}
    BY <2>1 DEF CachesOK, TmplTypes
  <2>10. Recorded'
    BY <2>8, <2>9 DEF CachesOK, Recorded
  <2> QED BY <2>2, <2>6, <2>7, <2>10 DEF class, key
<1> QED BY <1>1, <1>2 DEF Generate

\* _rename_object(): in the caches concerned the template of the old id goes to
\* the new one.
LEMMA RenameCached ==
  ASSUME CachesOK, ClassesKept, NEW c \in Classes, NEW old \in Ids, NEW new \in Ids, old # new,
         _rename_object(c, old, new),
         ~ReusesNames => \A k \in Registered : cache[k][new] = None
  PROVE  CachesOK'
<1> DEFINE concerned == {c} \cup Superclasses(c)
           renamed == {cache[k][old] : k \in concerned \cap Registered} \ {None}
           moved(k) == k \in concerned /\ cache[k][old] # None
<1>1. /\ cache \in [Registered -> [Keys -> Templates \cup {None}]]
      /\ object \in [Templates -> Template \cup {None}]
      /\ tcache \in [Registered -> SUBSET (Ids \X Templates)]
      /\ old \in Keys /\ new \in Keys
  BY DEF CachesOK, TmplTypes, Keys
<1>2. /\ cache' = [k \in Registered |->
           IF moved(k) THEN [cache[k] EXCEPT ![new] = cache[k][old], ![old] = None] ELSE cache[k]]
      /\ object' = [t \in Templates |-> IF t \in renamed THEN [object[t] EXCEPT !.uid = new] ELSE object[t]]
      /\ tcache' = [k \in Registered |->
           IF k \in concerned THEN {IF p[1] = old THEN <<new, p[2]>> ELSE p : p \in tcache[k]}
           ELSE tcache[k]]
  BY DEF _rename_object
<1>3. \A t \in renamed : /\ t \in Made
                         /\ \E k \in Registered : moved(k) /\ cache[k][old] = t
  BY <1>1 DEF CachesOK, Placed
<1>4. \A d \in Registered, k \in Keys : cache'[d][k] =
        IF ~moved(d) THEN cache[d][k]
        ELSE IF k = old THEN None ELSE IF k = new THEN cache[d][old] ELSE cache[d][k]
  BY <1>1, <1>2
<1>5. /\ Made' = Made
      /\ \A t \in Made : /\ object'[t] \in Template /\ object'[t].handle = object[t].handle
                         /\ object'[t].uid = IF t \in renamed THEN new ELSE object[t].uid
  <2>1. \A t \in Made : object[t] \in Template /\ t \in Templates
    BY MadeType DEF CachesOK
  <2> HIDE DEF renamed
  <2>2. \A t \in Made : /\ object'[t] \in Template /\ object'[t].handle = object[t].handle
                        /\ object'[t].uid = IF t \in renamed THEN new ELSE object[t].uid
    BY <1>1, <1>2, <2>1 DEF Template
  <2>3. \A t \in Templates : object'[t] # None <=> object[t] # None
    BY <1>1, <1>2, <1>3, <2>1, <2>2, TemplateAssumption DEF Made
  <2> QED BY <2>2, <2>3 DEF Made
<1>6. TmplTypes'
  <2>1. object' \in [Templates -> Template \cup {None}]
    <3>1. \A t \in Templates : object'[t] \in Template \cup {None}
      BY <1>1, <1>2, <1>3, <1>5 DEF Made
    <3> HIDE DEF renamed
    <3> QED BY <1>2, <3>1
  <2>2. cache' \in [Registered -> [Keys -> Templates \cup {None}]]
    BY <1>1, <1>2
  <2>3. tcache' \in [Registered -> SUBSET (Ids \X Templates)]
    <3>1. \A k \in Registered : {IF p[1] = old THEN <<new, p[2]>> ELSE p : p \in tcache[k]}
                                  \subseteq Ids \X Templates
      BY <1>1
    <3> HIDE DEF concerned
    <3> QED BY <1>1, <1>2, <3>1
  <2> QED BY <2>1, <2>2, <2>3 DEF TmplTypes
<1>7. \A d \in Registered, k \in Keys : cache[d][k] # None =>
        /\ cache[d][k] \in Made
        /\ cache[d][k] \in renamed <=> moved(d) /\ k = old
  <2> SUFFICES ASSUME NEW d \in Registered, NEW k \in Keys, cache[d][k] # None
               PROVE  /\ cache[d][k] \in Made
                      /\ cache[d][k] \in renamed <=> moved(d) /\ k = old
    OBVIOUS
  <2>1. cache[d][k] \in Made /\ object[cache[d][k]].uid = k
    BY DEF CachesOK, Placed
  <2>2. ASSUME cache[d][k] \in renamed
        PROVE  moved(d) /\ k = old
    <3>1. PICK e \in Registered : moved(e) /\ cache[e][old] = cache[d][k]
      BY <1>3, <2>2
    <3>2. d = e
      BY <1>1, <3>1 DEF CachesOK, OnePlace
    <3>3. object[cache[e][old]].uid = old
      BY <1>1, <3>1 DEF CachesOK, Placed
    <3> QED BY <2>1, <3>1, <3>2, <3>3
  <2>3. moved(d) /\ k = old => cache[d][k] \in renamed
    OBVIOUS
  <2> QED BY <2>1, <2>2, <2>3
<1>8. \A d \in Registered, k \in Keys : cache'[d][k] # None =>
        \/ moved(d) /\ k = new /\ cache'[d][k] = cache[d][old] /\ cache[d][old] \in renamed
        \/ cache'[d][k] = cache[d][k] /\ cache[d][k] \notin renamed
  BY <1>1, <1>4, <1>7
<1> HIDE DEF renamed, moved, concerned
<1>9. Placed'
  <2> SUFFICES ASSUME NEW d \in Registered, NEW k \in Keys, cache'[d][k] # None
               PROVE  cache'[d][k] \in Made' /\ object'[cache'[d][k]].uid = k
    BY DEF Placed
  <2>1. CASE k = new /\ cache'[d][k] = cache[d][old] /\ cache[d][old] \in renamed
    BY <1>3, <1>5, <2>1
  <2>2. CASE cache'[d][k] = cache[d][k] /\ cache[d][k] \notin renamed
    <3>1. cache[d][k] \in Made /\ object[cache[d][k]].uid = k
      BY <2>2 DEF CachesOK, Placed
    <3> QED BY <1>5, <2>2, <3>1
  <2> QED BY <1>8, <2>1, <2>2
<1>10. \A d \in Registered, k \in Keys : cache'[d][k] # None =>
         \E l \in Keys : cache'[d][k] = cache[d][l]
  BY <1>1, <1>8
<1>11. OnePlace'
  BY <1>10 DEF CachesOK, OnePlace
<1>12. Bound' /\ Recorded'
  <2>1. \A d \in Registered : \A p \in tcache'[d] : \E q \in tcache[d] : p[2] = q[2]
    <3>1. ASSUME NEW d \in Registered, NEW p \in tcache'[d]
          PROVE  \E q \in tcache[d] : p[2] = q[2]
      <4>1. \/ p \in tcache[d]
            \/ p \in {IF q[1] = old THEN <<new, q[2]>> ELSE q : q \in tcache[d]}
        BY <1>2, <3>1
      <4> QED BY <4>1
    <3> QED BY <3>1
  <2> QED BY <1>5, <2>1 DEF CachesOK, Bound, Recorded, ClassesKept
<1>13. CastIsSafe'
  <2> SUFFICES ASSUME NEW d \in Registered, NEW k \in Keys, cache'[d][k] # None
               PROVE  try_cast(d, handle'[object'[cache'[d][k]].handle].cls)
    BY DEF CastIsSafe
  <2>1. PICK l \in Keys : cache'[d][k] = cache[d][l]
    BY <1>10
  <2>2. try_cast(d, handle'[object[cache[d][l]].handle].cls) /\ cache[d][l] \in Made
    BY <2>1, CastKept DEF CachesOK, Placed
  <2> QED BY <1>5, <2>1, <2>2
<1>14. ~ReusesNames => SomePlace'
  <2> SUFFICES ASSUME ~ReusesNames, NEW t \in Made'
               PROVE  \E d \in Registered : cache'[d][object'[t].uid] = t
    BY DEF SomePlace
  <2>1. CASE t \in renamed
    <3>1. PICK d \in Registered : moved(d) /\ cache[d][old] = t
      BY <1>3, <2>1
    <3> QED BY <1>1, <1>4, <1>5, <2>1, <3>1
  <2>2. CASE t \notin renamed
    <3>1. PICK d \in Registered : cache[d][object[t].uid] = t
      BY <1>5 DEF CachesOK, SomePlace
    <3>2. t \in Made /\ object'[t].uid = object[t].uid /\ object[t].uid \in Keys /\ t # None
      BY <1>5, <2>2, MadeType DEF CachesOK, Template
    <3>3. ~(moved(d) /\ object[t].uid = old) /\ object[t].uid # new
      BY <1>7, <2>2, <3>1, <3>2
    <3> QED BY <1>4, <3>1, <3>2, <3>3
  <2> QED BY <2>1, <2>2
<1> QED BY <1>6, <1>9, <1>11, <1>12, <1>13, <1>14 DEF CachesOK

----------------------------------------------------------------------------
(* The steps keep the caches, whatever ids the client chooses.             *)

LEMMA CastTwice ==
  ASSUME NEW a \in Classes, NEW b \in Classes, NEW c, try_cast(a, b), try_cast(b, c)
  PROVE  try_cast(a, c)
BY ObjectsAssumption DEF try_cast

LEMMA SameNamesKept ==
  ASSUME IP!SameNames(handle, handle')
  PROVE  NamesKept /\ ClassesKept
BY DEF IP!SameNames, IP!Allocated, ClassesKept, NamesKept

\* The lookup of the objects S in database d, each then got as one of classOf.
LEMMA LookupStep ==
  ASSUME IP!KeyInv, IP!WorldOK', CachesOK,
         NEW d, NEW S \in SUBSET Ids, \A i \in S : d[i] \in Classes,
         NEW hs, IP!SameNames(handle, hs), NEW f \in Lookups(d, S),
         NEW classOf \in [{f[i] : i \in S} -> Registered],
         \A i \in S : try_cast(classOf[f[i]], d[i]),
         slot' = Slots(d, f), UNCHANGED <<tangled, tcache>>,
         NEW init_object,
         GetEach(classOf, {f[i] : i \in S}, Inserted(hs, d, f), init_object)
  PROVE  /\ IP!KeyInv' /\ CachesOK' /\ Looked(S, d, f)
         /\ SomeRead({f[i] : i \in S}, Inserted(hs, d, f))
         /\ SomeGot(classOf, Inserted(hs, d, f), {f[i] : i \in S})
<1> DEFINE got == {f[i] : i \in S}
           known == Inserted(hs, d, f)
           key == NamesOf(known, got)
<1>1. /\ f \in [S -> Handles] /\ \A i, j \in S : f[i] = f[j] => i = j
      /\ \A i \in S : f[i] \in IP!Allocated => handle[f[i]].id = i
  BY FoundByName
<1>2. /\ known \in [Handles -> IP!Handle \cup {None}]
      /\ \A h \in Handles : (\A i \in S : f[i] # h) => known[h] = hs[h]
      /\ \A i \in S : known[f[i]] =
           IF f[i] \in IP!Allocated THEN [hs[f[i]] EXCEPT !.state = "Valid"]
           ELSE [state |-> "Valid", id |-> i, cls |-> d[i], content |-> "none"]
  BY InsertedShape
<1>3. \A i \in S : known[f[i]] \in IP!Handle /\ known[f[i]].id = i
  BY InsertedId
<1>4. got \in SUBSET Handles /\ \A h \in got : known[h] \in IP!Handle /\ known[h].id \in Keys
  BY <1>1, <1>3 DEF Keys
<1>5. \A h, k \in got : known[h].id = known[k].id => h = k
  BY <1>3
<1>6. \A h \in got : \E i \in S : h = f[i]
  OBVIOUS
<1>7. classOf \in [got -> Registered] /\ GetEach(classOf, got, known, init_object)
  OBVIOUS
<1> HIDE DEF got, known
<1>8. SomeGot(classOf, known, got) /\ SomeRead(got, known)
  BY <1>2, <1>4, <1>5, <1>7, GetEachShape
<1>9. IP!SameNames(known, handle')
  <2>1. /\ handle' \in [Handles -> IP!Handle \cup {None}]
        /\ \A h \in Handles : \/ handle'[h] = known[h]
                              \/ h \in got /\ handle'[h] = ReadHandle(known[h])
    BY <1>8 DEF SomeRead
  <2>2. None \notin IP!Handle
    BY ImplAssumption DEF IP!ObjectAssumption
  <2>3. \A h \in got : /\ ReadHandle(known[h]) \in IP!Handle
                       /\ ReadHandle(known[h]).id = known[h].id
                       /\ ReadHandle(known[h]).cls = known[h].cls
    BY <1>4, ReadType
  <2> QED BY <1>4, <2>1, <2>2, <2>3 DEF IP!SameNames
<1>10. IP!KeyInv' /\ Looked(S, d, f)
  BY <1>9, InsertedNames DEF known
<1>11. ClassesKept
  BY <1>10 DEF Looked, ClassesKept
<1>12. SafeFor(classOf, got)'
  <2> SUFFICES ASSUME NEW h \in got
               PROVE  h \in IP!Allocated' /\ try_cast(classOf[h], handle'[h].cls)
    BY DEF SafeFor
  <2>1. PICK i \in S : h = f[i]
    BY <1>6
  <2>2. h \in IP!Allocated' /\ try_cast(d[i], handle'[h].cls)
    BY <1>10, <2>1 DEF Looked
  <2>3. try_cast(classOf[h], d[i]) /\ classOf[h] \in Classes /\ d[i] \in Classes
    BY <1>7, <2>1, TemplateAssumption
  <2> QED BY <2>2, <2>3, CastTwice
<1>13. PICK g : Got(g, classOf, key, got)
  BY <1>8 DEF SomeGot
<1>14. key \in [got -> Keys]
  BY <1>4 DEF NamesOf
<1>15. TmplTypes'
  BY <1>13 DEF Got, TmplTypes, CachesOK
<1> HIDE DEF key
<1>16. Recorded'
  <2>1. Made \subseteq Made'
    BY <1>4, <1>7, <1>13, <1>14, GotGrows
  <2>2. tcache' = tcache
    OBVIOUS
  <2>3. Recorded
    BY DEF CachesOK
  <2> QED BY <2>1, <2>2, <2>3 DEF Recorded
<1>17. CachesOK'
  BY <1>4, <1>7, <1>11, <1>12, <1>13, <1>14, <1>15, <1>16, GotCached
<1> QED BY <1>8, <1>10, <1>17 DEF got, known

\* What rename_object() does to the names of handles.
LEMMA RenamedNames ==
  ASSUME IP!Inv, NEW h \in Handles, NEW new \in Ids, IP!rename_object(h, new)
  PROVE  /\ handle[h].id \in Ids /\ handle[h].cls \in Classes /\ handle[h].id # new
         /\ h \in IP!Allocated \ IP!Tangled
         /\ \A g \in IP!Allocated :
              /\ g \in IP!Allocated' /\ handle'[g].cls = handle[g].cls
              /\ handle'[g].id = IF g = h /\ db' # db THEN new ELSE handle[g].id
<1> DEFINE o == IP!Settled(handle[h])
           refused == o.state = "Deleted" \/ db[new] # None
           replaced == IF slot[o.cls][o.id] = None THEN None ELSE slot[o.cls][new]
           renamed == [o EXCEPT !.id = new]
<1>1. /\ h \in IP!Allocated \ IP!Tangled /\ handle[h] \in IP!Handle
      /\ handle \in [Handles -> IP!Handle \cup {None}]
      /\ db \in [Ids -> Classes \cup {None}] /\ None \notin Classes /\ None \notin IP!Handle
  <2>1. h \in IP!Allocated \ IP!Tangled
    BY DEF IP!rename_object, IP!InUse
  <2>2. handle \in [Handles -> IP!Handle \cup {None}] /\ db \in [Ids -> Classes \cup {None}]
    BY DEF IP!Inv, IP!TypeOK, IP!Databases
  <2>3. None \notin Classes /\ None \notin IP!Handle
    BY ImplAssumption DEF IP!ObjectAssumption
  <2> QED BY <2>1, <2>2, <2>3 DEF IP!Allocated
<1>2. o \in IP!Handle /\ o.id = handle[h].id /\ o.cls = handle[h].cls
  BY <1>1, ImplAssumption, IP!SettledType
<1>3. o.id \in Ids /\ o.cls \in Classes /\ renamed \in IP!Handle /\ renamed.id = new /\ renamed.cls = o.cls
  BY <1>2 DEF IP!Handle
<1>4. /\ new # o.id
      /\ IF refused
         THEN handle' = [handle EXCEPT ![h] = o] /\ db' = db
         ELSE /\ db[o.id] = o.cls
              /\ db' = [db EXCEPT ![o.id] = None, ![new] = o.cls]
              /\ handle' = [g \in Handles |->
                   IF g = h THEN renamed
                   ELSE IF g = replaced THEN [handle[g] EXCEPT !.state = "Unknown"]
                   ELSE handle[g]]
  BY DEF IP!rename_object
<1> HIDE DEF o, renamed, replaced
<1>5. ASSUME NEW g \in IP!Allocated
      PROVE  /\ g \in IP!Allocated' /\ handle'[g].cls = handle[g].cls
             /\ handle'[g].id = IF g = h /\ db' # db THEN new ELSE handle[g].id
  <2>1. g \in Handles /\ handle[g] \in IP!Handle
    BY <1>1 DEF IP!Allocated
  <2>2. CASE refused
    <3>1. handle'[g] = (IF g = h THEN o ELSE handle[g]) /\ db' = db
      BY <1>1, <1>4, <2>1, <2>2
    <3> QED BY <1>1, <1>2, <2>1, <3>1 DEF IP!Allocated
  <2>3. CASE ~refused
    <3>1. [handle[g] EXCEPT !.state = "Unknown"] \in IP!Handle
          /\ [handle[g] EXCEPT !.state = "Unknown"].id = handle[g].id
          /\ [handle[g] EXCEPT !.state = "Unknown"].cls = handle[g].cls
      BY <2>1 DEF IP!Handle, IP!States
    <3>2. db' # db
      <4>1. db'[o.id] = None /\ db[o.id] # None
        BY <1>1, <1>3, <1>4, <2>3
      <4> QED BY <4>1
    <3>3. handle'[g] = IF g = h THEN renamed
                       ELSE IF g = replaced THEN [handle[g] EXCEPT !.state = "Unknown"]
                       ELSE handle[g]
      BY <1>4, <2>1, <2>3
    <3> QED BY <1>1, <1>2, <1>3, <2>1, <3>1, <3>2, <3>3 DEF IP!Allocated
  <2> QED BY <2>2, <2>3
<1> QED BY <1>1, <1>2, <1>3, <1>4, <1>5

\* The other operations on implementation objects that concern no new ones.
LEMMA NamesOnly ==
  ASSUME IP!Inv,
         \/ \E h \in Handles : IP!Access(h) \/ IP!destroy_obj(h)
         \/ IP!unread_implementation_objects \/ IP!commit \/ IP!abort
         \/ \E removed, created, modified \in SUBSET Objects : IP!Reload(removed, created, modified)
         \/ IP!BeginUpdate \/ IP!EndUpdate
         \/ \E ch \in pending : IP!UpdateNext(ch)
         \/ UNCHANGED implVars
  PROVE  IP!SameNames(handle, handle')
<1>0. IP!TypeOK
  BY DEF IP!Inv
<1>1. ASSUME NEW h \in Handles, IP!Access(h) \/ IP!destroy_obj(h)
      PROVE  IP!SameNames(handle, handle')
  BY <1>0, <1>1, ImplAssumption, IP!AccessNames, IP!DestroyNames
<1>2. CASE IP!unread_implementation_objects \/ IP!abort
  <2>1. handle' = IP!AllUnknown
    BY <1>2 DEF IP!unread_implementation_objects, IP!abort
  <2> QED BY <1>0, <2>1, ImplAssumption, IP!ForgottenNames
<1>3. ASSUME NEW removed \in SUBSET Objects, NEW created \in SUBSET Objects,
             NEW modified \in SUBSET Objects, IP!Reload(removed, created, modified)
      PROVE  IP!SameNames(handle, handle')
  BY <1>0, <1>3, ImplAssumption, IP!ReloadNames
<1>4. ASSUME NEW ch \in pending, IP!UpdateNext(ch)
      PROVE  IP!SameNames(handle, handle')
  <2>1. handle' = IP!Updated(ch, db)
    BY <1>4 DEF IP!UpdateNext
  <2>2. \A c \in Classes, i \in Ids : slot[c][i] # None => slot[c][i] \in IP!Allocated
    BY DEF IP!Inv
  <2> QED BY <1>0, <2>1, <2>2, ImplAssumption, IP!UpdatedType
<1>5. CASE IP!commit \/ IP!BeginUpdate \/ IP!EndUpdate \/ UNCHANGED implVars
  <2>1. handle' = handle
    BY <1>5 DEF IP!commit, IP!BeginUpdate, IP!EndUpdate, implVars
  <2> QED BY <1>0, <2>1 DEF IP!SameNames, IP!TypeOK
<1> QED BY <1>1, <1>2, <1>3, <1>4, <1>5

LEMMA GetKept ==
  ASSUME IP!Inv, NEW c \in Classes, NEW i \in Ids, IP!get(c, i)
  PROVE  NamesKept /\ ClassesKept
<1>1. handle \in [Handles -> IP!Handle \cup {None}] /\ None \notin IP!Handle
  BY ImplAssumption DEF IP!Inv, IP!TypeOK, IP!ObjectAssumption
<1>2. \E h \in Handles :
         /\ \A g \in Handles : g # h => handle'[g] = handle[g]
         /\ \/ handle'[h] = [handle[h] EXCEPT !.state = "Valid"]
            \/ h \notin IP!Allocated
  <2>1. \A h \in IP!get_impl_object(db[i], i) : h \in Handles
    <3>1. db[i] \in Classes
      BY ObjectsAssumption DEF IP!get
    <3> QED BY <3>1, ObjectsAssumption DEF IP!get_impl_object, IP!Inv, IP!TypeOK
  <2> QED BY <1>1, <2>1 DEF IP!get, IP!insert_object
<1>3. \A h \in IP!Allocated : handle[h] \in IP!Handle /\ h \in Handles
  BY <1>1 DEF IP!Allocated
<1>4. \A o \in IP!Handle : /\ [o EXCEPT !.state = "Valid"] \in IP!Handle
                           /\ [o EXCEPT !.state = "Valid"].id = o.id
                           /\ [o EXCEPT !.state = "Valid"].cls = o.cls
  BY DEF IP!Handle, IP!States
<1>5. ASSUME NEW g \in IP!Allocated
      PROVE  handle'[g] \in IP!Handle /\ handle'[g].id = handle[g].id /\ handle'[g].cls = handle[g].cls
  BY <1>2, <1>3, <1>4
<1>6. IP!Allocated \subseteq IP!Allocated'
  BY <1>1, <1>3, <1>5 DEF IP!Allocated
<1> QED BY <1>5, <1>6 DEF ClassesKept, NamesKept

\* unread() of templates: their p_was_read is reset.
LEMMA UnreadSame ==
  ASSUME TmplTypes, NEW S \in SUBSET Made, object' = Unread(S), UNCHANGED <<cache, tcache>>
  PROVE  /\ SameTemplates
         /\ \A t \in Made : /\ t \in S => object'[t].content = "none"
                            /\ t \notin S => object'[t] = object[t]
<1>1. \A t \in Made : /\ object[t] \in Template /\ t \in Templates
                      /\ [object[t] EXCEPT !.content = "none"] \in Template
                      /\ [object[t] EXCEPT !.content = "none"].handle = object[t].handle
                      /\ [object[t] EXCEPT !.content = "none"].uid = object[t].uid
                      /\ [object[t] EXCEPT !.content = "none"].content = "none"
  BY MadeType DEF Template, Impl!Contents
<1>2. /\ object' = [t \in Templates |-> object'[t]]
      /\ \A t \in Templates : object'[t] =
           IF t \in S THEN [object[t] EXCEPT !.content = "none"] ELSE object[t]
  BY DEF Unread
<1>3. \A t \in Templates : object[t] \in Template \cup {None}
  BY DEF TmplTypes
<1>4. None \notin Template
  BY TemplateAssumption
<1>5. object' \in [Templates -> Template \cup {None}]
  BY <1>1, <1>2, <1>3
<1> QED BY <1>1, <1>2, <1>3, <1>4, <1>5 DEF SameTemplates, Made

\* Whatever update_cache() and abort() unread is in the caches.
LEMMA UnreadMade ==
  ASSUME CachesOK
  PROVE  /\ (UNION {{cache[c][k] : k \in Keys} : c \in Registered}) \ {None} \subseteq Made
         /\ \A ch : ch.removed \cup ch.created \cup ch.modified \subseteq Ids
                      => Concerned(ch) \subseteq Made
<1>1. (UNION {{cache[c][k] : k \in Keys} : c \in Registered}) \ {None} \subseteq Made
  BY DEF CachesOK, Placed
<1>2. ASSUME NEW c \in Registered, NEW ids \in SUBSET Ids
      PROVE  Named(c, ids) \subseteq Made
  BY DEF Named, CachesOK, Placed, Recorded, Keys
<1>3. ASSUME NEW ch, ch.removed \cup ch.created \cup ch.modified \subseteq Ids
      PROVE  Concerned(ch) \subseteq Made
  <2>1. \A c \in Registered :
          Named(c, ch.removed \cup ch.created \cup ch.modified) \subseteq Made
    BY <1>2, <1>3
  <2> QED BY <2>1 DEF Concerned
<1> QED BY <1>1, <1>3

LEMMA ImplKeys ==
  ASSUME IP!KeyInv, [IP!Next]_implVars
  PROVE  IP!KeyInv' /\ IP!Inv
BY ImplAssumption, IP!NextStep DEF IP!KeyInv, IP!vars, implVars

\* The operations of implementation objects are steps of IP.
LEMMA ImplNext ==
  /\ \A c \in Classes, i \in Ids : Impl!get(c, i) => IP!Next
  /\ \A h \in Handles : Impl!Access(h) \/ Impl!destroy_obj(h) => IP!Next
  /\ \A h \in Handles, i \in Ids : Impl!rename_object(h, i) => IP!Next
  /\ Impl!unread_implementation_objects \/ Impl!commit \/ Impl!abort \/ Impl!unload => IP!Next
  /\ \A removed, created, modified \in SUBSET Objects :
       Impl!Reload(removed, created, modified) => IP!Next
  /\ Impl!BeginUpdate \/ Impl!EndUpdate => IP!Next
  /\ \A ch \in pending : Impl!UpdateNext(ch) => IP!Next
<1>1. \A c \in Classes, i \in Ids : Impl!get(c, i) => IP!Next
  BY SameActions DEF IP!Next
<1>2. \A h \in Handles : Impl!Access(h) \/ Impl!destroy_obj(h) => IP!Next
  BY SameActions DEF IP!Next
<1>3. \A h \in Handles, i \in Ids : Impl!rename_object(h, i) => IP!Next
  BY SameActions DEF IP!Next
<1>4. Impl!unread_implementation_objects \/ Impl!commit \/ Impl!abort \/ Impl!unload => IP!Next
  BY SameActions DEF IP!Next
<1>5. \A removed, created, modified \in SUBSET Objects :
        Impl!Reload(removed, created, modified) => IP!Next
  BY SameActions DEF IP!Next
<1>6. Impl!BeginUpdate \/ Impl!EndUpdate => IP!Next
  BY SameActions DEF IP!Next
<1>7. \A ch \in pending : Impl!UpdateNext(ch) => IP!Next
  BY SameActions DEF IP!Next
<1> QED BY <1>1, <1>2, <1>3, <1>4, <1>5, <1>6, <1>7

\* The handles hs when a lookup begins: one may have been settled or read.
Learnt(hs) ==
  \/ hs = handle
  \/ \E h \in IP!Allocated : \/ hs = [handle EXCEPT ![h] = ReadHandle(@)]
                             \/ hs = [handle EXCEPT ![h] = Impl!Settled(@)]

\* The objects S in database d, of which hs tells, are looked up and got.
LookedUp(S, d, hs) ==
  \E f \in Lookups(d, S) : \E classOf \in [{f[i] : i \in S} -> Registered] :
    /\ Looked(S, d, f)
    /\ SomeRead({f[i] : i \in S}, Inserted(hs, d, f))
    /\ SomeGot(classOf, Inserted(hs, d, f), {f[i] : i \in S})
    /\ \A i \in S : try_cast(classOf[f[i]], d[i])

LookupUnchanged == UNCHANGED <<db, stored, tangled, phase, pending, changes, tcache>>

\* GetObjects() looks up objects that exist and can be cast.
LEMMA ObjectsGot ==
  ASSUME CacheInv, NEW S \in SUBSET Ids, NEW class, NEW hs, NEW init_object,
         \A i \in S : db[i] # None /\ class[i] \in Registered /\ try_cast(class[i], db[i]),
         IP!SameNames(handle, hs), GetObjects(S, class, hs, init_object)
  PROVE  /\ CacheInv' /\ LookedUp(S, db, hs) /\ LookupUnchanged
         /\ \A i \in S : db[i] \in Classes
<1>1. PICK f \in Lookups(db, S) :
        LET classOf == [h \in {f[i] : i \in S} |-> class[CHOOSE i \in S : f[i] = h]] IN
        /\ slot' = Slots(db, f)
        /\ GetEach(classOf, DOMAIN classOf, Inserted(hs, db, f), init_object)
  BY DEF GetObjects
<1> DEFINE classOf == [h \in {f[i] : i \in S} |-> class[CHOOSE i \in S : f[i] = h]]
<1>2. slot' = Slots(db, f) /\ GetEach(classOf, {f[i] : i \in S}, Inserted(hs, db, f), init_object)
  BY <1>1
<1>3. LookupUnchanged
  BY DEF GetObjects, LookupUnchanged
<1>4. IP!KeyInv /\ CachesOK /\ \A i \in S : db[i] \in Classes
  BY DEF CacheInv, IP!KeyInv, IP!Inv, IP!TypeOK, IP!Databases
<1>5. \A i, j \in S : f[i] = f[j] => i = j
  BY <1>4, FoundByName
<1>6. \A i \in S : classOf[f[i]] = class[i]
  BY <1>5
<1>7. classOf \in [{f[i] : i \in S} -> Registered]
  BY <1>5
<1> HIDE DEF classOf
<1>8. IP!WorldOK'
  BY <1>3, <1>4 DEF IP!WorldOK, IP!KeyInv, IP!Inv, IP!TypeOK, LookupUnchanged
<1>9. \A i \in S : try_cast(classOf[f[i]], db[i])
  BY <1>6
<1>10. /\ IP!KeyInv' /\ CachesOK' /\ Looked(S, db, f)
       /\ SomeRead({f[i] : i \in S}, Inserted(hs, db, f))
       /\ SomeGot(classOf, Inserted(hs, db, f), {f[i] : i \in S})
  <2>1. UNCHANGED <<tangled, tcache>>
    BY <1>3 DEF LookupUnchanged
  <2> QED BY <1>2, <1>4, <1>7, <1>8, <1>9, <2>1, LookupStep
<1>11. CacheInv'
  BY <1>3, <1>10 DEF CacheInv, LookupUnchanged
<1> QED BY <1>3, <1>4, <1>7, <1>9, <1>10, <1>11 DEF LookedUp

LEMMA OneHandle ==
  ASSUME IP!Inv, NEW h \in IP!Allocated
  PROVE  /\ IP!SameNames(handle, handle)
         /\ IP!SameNames(handle, [handle EXCEPT ![h] = ReadHandle(@)])
         /\ IP!SameNames(handle, [handle EXCEPT ![h] = Impl!Settled(@)])
<1>1. IP!TypeOK /\ handle[h] \in IP!Handle /\ h \in Handles
  BY ImplAssumption, IP!AllocatedType DEF IP!Inv
<1>2. /\ ReadHandle(handle[h]) \in IP!Handle
      /\ ReadHandle(handle[h]).id = handle[h].id /\ ReadHandle(handle[h]).cls = handle[h].cls
  BY <1>1, ReadType
<1>3. /\ IP!Settled(handle[h]) \in IP!Handle
      /\ IP!Settled(handle[h]).id = handle[h].id /\ IP!Settled(handle[h]).cls = handle[h].cls
  BY <1>1, ImplAssumption, IP!SettledType
<1>4. /\ [handle EXCEPT ![h] = ReadHandle(@)] = [handle EXCEPT ![h] = ReadHandle(handle[h])]
      /\ [handle EXCEPT ![h] = Impl!Settled(@)] = [handle EXCEPT ![h] = IP!Settled(handle[h])]
  BY SameState
<1>5. IP!SameNames(handle, [handle EXCEPT ![h] = ReadHandle(handle[h])])
  BY <1>1, <1>2, ImplAssumption, IP!OneChanged
<1>6. IP!SameNames(handle, [handle EXCEPT ![h] = IP!Settled(handle[h])])
  BY <1>1, <1>3, ImplAssumption, IP!OneChanged
<1>7. IP!SameNames(handle, handle)
  BY <1>1 DEF IP!SameNames, IP!TypeOK
<1> QED BY <1>4, <1>5, <1>6, <1>7

\* A step of templates and of what handles know.
LEMMA QuietStep ==
  ASSUME CacheInv, IP!SameNames(handle, handle'), SameTemplates,
         UNCHANGED <<db, stored, slot, tangled, phase, pending>>, changes' \subseteq IP!Change
  PROVE  CacheInv'
<1>1. IP!WorldOK' /\ IP!Inv
  BY DEF CacheInv, IP!KeyInv, IP!Inv, IP!TypeOK, IP!WorldOK
<1>2. IP!KeyInv'
  BY <1>1, ImplAssumption, IP!SameNamesStep DEF CacheInv, IP!KeyInv
<1>3. CachesOK'
  BY SameNamesKept, SameTemplatesStep DEF CacheInv
<1> QED BY <1>2, <1>3 DEF CacheInv

LEMMA MadeHandle ==
  ASSUME CacheInv, NEW t \in Made
  PROVE  /\ object[t] \in Template /\ object[t].handle \in IP!Allocated
         /\ handle[object[t].handle] \in IP!Handle
BY MadeType, ImplAssumption, IP!AllocatedType DEF CacheInv, CachesOK, Bound, IP!KeyInv, IP!Inv

LEMMA GettersCached ==
  ASSUME CacheInv, NEW t \in Made, check_init(t) \/ unread(t)
  PROVE  CacheInv' /\ SameTemplates /\ IP!SameNames(handle, handle')
<1> DEFINE h == object[t].handle
<1>0. /\ h \in IP!Allocated /\ handle[h] \in IP!Handle /\ h \in Handles
      /\ object[t] \in Template /\ t \in Templates
      /\ object \in [Templates -> Template \cup {None}] /\ IP!Inv
      /\ handle \in [Handles -> IP!Handle \cup {None}] /\ None \notin Template
  BY MadeHandle, TemplateAssumption DEF Made, CacheInv, CachesOK, TmplTypes, IP!KeyInv, IP!Inv, IP!TypeOK, IP!Allocated
<1>1. CASE check_init(t)
  <2>1. /\ handle' = [handle EXCEPT ![h] = ReadHandle(@)]
        /\ object' = [object EXCEPT ![t] = init(@, handle'[h])]
        /\ UNCHANGED <<db, stored, slot, tangled, phase, pending, changes, cache, tcache>>
    BY <1>1 DEF check_init
  <2>2. IP!SameNames(handle, handle')
    BY <1>0, <2>1, OneHandle
  <2>3. handle'[h] \in IP!Handle
    BY <1>0, <2>1, ReadType
  <2>4. /\ init(object[t], handle'[h]) \in Template
        /\ init(object[t], handle'[h]).handle = object[t].handle
        /\ init(object[t], handle'[h]).uid = object[t].uid
    BY <1>0, <2>3, SameTypes DEF init, Template, IP!Handle, IP!Contents
  <2> HIDE DEF h
  <2>5. SameTemplates
    BY <1>0, <2>1, <2>4 DEF SameTemplates
  <2> QED BY <2>1, <2>2, <2>5, QuietStep DEF CacheInv
<1>2. CASE unread(t)
  <2>1. /\ handle' = [handle EXCEPT ![h] = Impl!Settled(@)]
        /\ object' = IF handle'[h].state = "Valid" THEN [object EXCEPT ![t].content = "none"] ELSE object
        /\ UNCHANGED <<db, stored, slot, tangled, phase, pending, changes, cache, tcache>>
    BY <1>2 DEF unread
  <2>2. IP!SameNames(handle, handle')
    BY <1>0, <2>1, OneHandle
  <2>3. /\ [object[t] EXCEPT !.content = "none"] \in Template
        /\ [object[t] EXCEPT !.content = "none"].handle = object[t].handle
        /\ [object[t] EXCEPT !.content = "none"].uid = object[t].uid
    BY <1>0 DEF Template, Impl!Contents
  <2>4. SameTemplates
    <3>1. object' = [object EXCEPT ![t] = [object[t] EXCEPT !.content = "none"]] \/ object' = object
      BY <1>0, <2>1
    <3> QED BY <1>0, <2>1, <2>3, <3>1 DEF SameTemplates
  <2> QED BY <2>1, <2>2, <2>4, QuietStep DEF CacheInv
<1> QED BY <1>1, <1>2

\* The lookups of objects by id, of the objects of a class, of a relationship's
\* and of those that refer to one.
SafeLookup ==
  \E S, class, hs, init_object :
    /\ S \in SUBSET Ids /\ Learnt(hs)
    /\ \A i \in S : db[i] # None /\ class[i] \in Registered /\ try_cast(class[i], db[i])
    /\ GetObjects(S, class, hs, init_object)

LEMMA LookupsCached ==
  ASSUME CacheInv, SafeLookup
  PROVE  /\ CacheInv' /\ LookupUnchanged
         /\ \E S, hs : /\ S \in SUBSET Ids /\ Learnt(hs) /\ LookedUp(S, db, hs)
                       /\ \A i \in S : db[i] \in Classes
<1>1. PICK S, class, hs, init_object :
        /\ S \in SUBSET Ids /\ Learnt(hs)
        /\ \A i \in S : db[i] # None /\ class[i] \in Registered /\ try_cast(class[i], db[i])
        /\ GetObjects(S, class, hs, init_object)
  BY DEF SafeLookup
<1>2. IP!SameNames(handle, hs)
  <2>1. IP!Inv /\ IP!SameNames(handle, handle)
    BY DEF CacheInv, IP!KeyInv, IP!SameNames, IP!Inv, IP!TypeOK
  <2> QED BY <1>1, <2>1, OneHandle DEF Learnt
<1> QED BY <1>1, <1>2, ObjectsGot

LEMMA LookupsSafe ==
  ASSUME CacheInv, NEW c \in Registered, NEW init_object \in BOOLEAN
  PROVE  /\ \A i \in Ids : get_by_id(c, i, init_object) => SafeLookup
         /\ get_all(c, init_object) => SafeLookup
         /\ \A h \in Handles : \A S \in SUBSET Castable(c, Stored) :
              _ref(c, h, S, init_object) => SafeLookup
         /\ \A t \in Made, S \in SUBSET Stored : referenced_by(c, t, S, init_object) => SafeLookup
<1>0. /\ Stored \subseteq Ids
      /\ \A i \in Stored : db[i] # None
      /\ \A S : Castable(c, S) \subseteq S /\ \A i \in Castable(c, S) : try_cast(c, db[i])
  BY DEF Stored, Castable
<1>1. ASSUME NEW hs, Learnt(hs), NEW S \in SUBSET Castable(c, Stored),
             GetObjects(S, [i \in S |-> c], hs, init_object)
      PROVE  SafeLookup
  <2>1. S \in SUBSET Ids /\ S \subseteq Castable(c, Stored)
    BY <1>0
  <2>2. \A i \in S : db[i] # None /\ [j \in S |-> c][i] \in Registered /\ try_cast([j \in S |-> c][i], db[i])
    BY <1>0, <2>1
  <2> QED BY <1>1, <2>1, <2>2 DEF SafeLookup
<1>2. Learnt(handle)
  BY DEF Learnt
<1>3. ASSUME NEW i \in Ids, get_by_id(c, i, init_object)
      PROVE  SafeLookup
  BY <1>1, <1>2, <1>3 DEF get_by_id
<1>4. ASSUME get_all(c, init_object)
      PROVE  SafeLookup
  BY <1>1, <1>2, <1>4 DEF get_all
<1>5. ASSUME NEW h \in Handles, NEW S \in SUBSET Castable(c, Stored), _ref(c, h, S, init_object)
      PROVE  SafeLookup
  <2>1. h \in IP!Allocated
    BY <1>5, SameState DEF _ref
  <2>2. Learnt([handle EXCEPT ![h] = ReadHandle(@)])
    BY <2>1 DEF Learnt
  <2> QED BY <1>1, <1>5, <2>2 DEF _ref
<1>6. ASSUME NEW t \in Made, NEW S \in SUBSET Stored, referenced_by(c, t, S, init_object)
      PROVE  SafeLookup
  <2> DEFINE h == object[t].handle
  <2>1. h \in IP!Allocated
    BY MadeHandle
  <2>2. Learnt([handle EXCEPT ![h] = Impl!Settled(@)])
    BY <2>1 DEF Learnt
  <2>3. Castable(c, S) \in SUBSET Castable(c, Stored)
    BY DEF Castable
  <2>4. GetObjects(Castable(c, S), [i \in Castable(c, S) |-> c],
                   [handle EXCEPT ![h] = Impl!Settled(@)], init_object)
    BY <1>6 DEF referenced_by, Referencing
  <2> HIDE DEF h
  <2> QED BY <1>1, <2>2, <2>3, <2>4
<1> QED BY <1>3, <1>4, <1>5, <1>6

LEMMA RelObjectsSafe ==
  ASSUME CacheInv, NEW t \in Made, NEW S \in SUBSET Stored, NEW upcast,
         get_rel_objects(t, S, upcast)
  PROVE  SafeLookup
<1> DEFINE h == object[t].handle
<1>0. PICK made \in SUBSET S : \E class \in [made -> Registered] :
        /\ \A i \in made : class[i] \in functions(db[i], upcast)
        /\ GetObjects(made, class, [handle EXCEPT ![h] = ReadHandle(@)], FALSE)
  BY DEF get_rel_objects
<1>1. PICK class \in [made -> Registered] :
        /\ \A i \in made : class[i] \in functions(db[i], upcast)
        /\ GetObjects(made, class, [handle EXCEPT ![h] = ReadHandle(@)], FALSE)
  BY <1>0
<1>2. Learnt([handle EXCEPT ![h] = ReadHandle(@)])
  BY MadeHandle DEF Learnt
<1> HIDE DEF h
<1>3. made \in SUBSET Ids /\ \A i \in made : db[i] # None
  BY DEF Stored
<1>4. \A i \in made : class[i] \in Registered /\ try_cast(class[i], db[i])
  BY <1>1 DEF functions, Superclasses, try_cast
<1> QED BY <1>1, <1>2, <1>3, <1>4 DEF SafeLookup

LEMMA ByObjectCached ==
  ASSUME CacheInv, NEW c \in Registered, NEW h \in Handles, NEW init_object,
         get_by_object(c, h, init_object)
  PROVE  /\ CacheInv'
         /\ h \in IP!Allocated \ IP!Tangled /\ handle[h] \in IP!Handle /\ try_cast(c, handle[h].cls)
         /\ SomeRead({h}, handle)
         /\ SomeGot([x \in {h} |-> c], handle, {h})
<1> DEFINE class == [x \in {h} |-> c]
           key == NamesOf(handle, {h})
<1>1. /\ h \in IP!Allocated \ IP!Tangled /\ try_cast(c, handle[h].cls)
      /\ GetEach(class, {h}, handle, init_object)
      /\ UNCHANGED <<db, stored, slot, tangled, phase, pending, changes, tcache>>
  BY SameState DEF get_by_object
<1>2. /\ handle \in [Handles -> IP!Handle \cup {None}] /\ handle[h] \in IP!Handle
      /\ IP!Inv /\ CachesOK
  BY <1>1, ImplAssumption, IP!AllocatedType DEF CacheInv, IP!KeyInv, IP!Inv, IP!TypeOK
<1>3. {h} \in SUBSET Handles /\ class \in [{h} -> Registered] /\ class[h] = c
  OBVIOUS
<1>4. key \in [{h} -> Keys]
  BY <1>2 DEF NamesOf, IP!Handle, Keys
<1> HIDE DEF class
<1>5. SomeGot(class, handle, {h}) /\ SomeRead({h}, handle)
  BY <1>1, <1>2, <1>3, GetEachShape
<1> HIDE DEF key
<1>6. IP!SameNames(handle, handle')
  <2>1. /\ handle' \in [Handles -> IP!Handle \cup {None}]
        /\ \A k \in Handles : \/ handle'[k] = handle[k]
                              \/ k = h /\ handle'[k] = ReadHandle(handle[k])
    BY <1>5 DEF SomeRead
  <2>2. None \notin IP!Handle
    BY ImplAssumption DEF IP!ObjectAssumption
  <2>3. /\ ReadHandle(handle[h]) \in IP!Handle
        /\ ReadHandle(handle[h]).id = handle[h].id
        /\ ReadHandle(handle[h]).cls = handle[h].cls
    BY <1>2, ReadType
  <2> QED BY <1>2, <2>1, <2>2, <2>3 DEF IP!SameNames
<1>7. IP!WorldOK'
  BY <1>1, <1>2 DEF IP!Inv, IP!TypeOK, IP!WorldOK
<1>8. IP!KeyInv'
  BY <1>1, <1>2, <1>6, <1>7, ImplAssumption, IP!SameNamesStep DEF CacheInv, IP!KeyInv
<1>9. ClassesKept
  BY <1>6, SameNamesKept
<1>10. SafeFor(class, {h})'
  BY <1>1, <1>3, <1>9 DEF SafeFor, ClassesKept
<1>11. PICK g : Got(g, class, key, {h})
  BY <1>5 DEF SomeGot, key
<1>12. TmplTypes' /\ tcache' = tcache
  BY <1>1, <1>2, <1>11 DEF Got, TmplTypes, CachesOK
<1>13. Made \subseteq Made'
  BY <1>2, <1>3, <1>4, <1>11, GotGrows
<1>14. Recorded'
  BY <1>2, <1>12, <1>13 DEF CachesOK, Recorded
<1>15. CachesOK'
  BY <1>2, <1>3, <1>4, <1>9, <1>10, <1>11, <1>12, <1>14, GotCached
<1>16. CacheInv'
  BY <1>1, <1>8, <1>15 DEF CacheInv
<1> QED BY <1>1, <1>2, <1>5, <1>16 DEF class

\* A template under an id of the client's choice, or under that of another one.
LEMMA GeneratedCached ==
  ASSUME CacheInv, NEW c \in Registered, NEW h \in IP!Allocated, NEW id \in Keys,
         try_cast(c, handle[h].cls), Generate(c, h, id), UNCHANGED <<implVars, changes>>
  PROVE  CacheInv'
<1> DEFINE class == [x \in {h} |-> c]
           key == [x \in {h} |-> id]
<1>1. /\ IP!Inv /\ CachesOK /\ handle[h] \in IP!Handle /\ h \in Handles /\ handle[h].id \in Ids
      /\ handle' = handle /\ slot' = slot /\ tangled' = tangled
      /\ UNCHANGED <<db, stored, phase, pending>>
  BY ImplAssumption, IP!AllocatedType DEF CacheInv, IP!KeyInv, IP!Inv, IP!Handle, implVars
<1>2. {h} \in SUBSET Handles /\ class \in [{h} -> Registered] /\ class[h] = c /\ key \in [{h} -> Keys]
  BY <1>1
<1>3. /\ tcache' \in [Registered -> SUBSET (Ids \X Templates)] /\ Recorded'
      /\ \E g : Got(g, class, key, {h})
  BY <1>1, GenerateShape
<1> HIDE DEF class, key
<1>4. PICK g : Got(g, class, key, {h})
  BY <1>3
<1>5. IP!SameNames(handle, handle')
  BY <1>1, OneHandle
<1>6. IP!KeyInv'
  <2>1. IP!WorldOK'
    BY <1>1 DEF IP!Inv, IP!TypeOK, IP!WorldOK
  <2> QED BY <1>1, <1>5, <2>1, ImplAssumption, IP!SameNamesStep DEF CacheInv, IP!KeyInv
<1>7. ClassesKept
  BY <1>5, SameNamesKept
<1>8. SafeFor(class, {h})'
  BY <1>2, <1>7 DEF SafeFor, ClassesKept
<1>9. TmplTypes'
  BY <1>3, <1>4 DEF Got, TmplTypes
<1>10. CachesOK'
  BY <1>1, <1>2, <1>3, <1>4, <1>7, <1>8, <1>9, GotCached
<1> QED BY <1>6, <1>10 DEF CacheInv

LEMMA GenerateCached ==
  ASSUME CacheInv, NEW c \in Registered,
         \/ \E h \in Handles, id \in Generated : generate(c, h, id)
         \/ \E t \in Made : cast(c, t) \/ get_algo_objects(c, t)
  PROVE  CacheInv'
<1>1. ASSUME NEW h \in Handles, NEW id \in Generated, generate(c, h, id)
      PROVE  CacheInv'
  <2>1. h \in IP!Allocated /\ try_cast(c, handle[h].cls)
    BY <1>1, SameState DEF generate
  <2>2. id \in Keys /\ Generate(c, h, id) /\ UNCHANGED <<implVars, changes>>
    BY <1>1 DEF generate, Keys
  <2> QED BY <2>1, <2>2, GeneratedCached
<1>2. ASSUME NEW t \in Made, cast(c, t) \/ get_algo_objects(c, t)
      PROVE  CacheInv'
  <2>1. object[t].handle \in IP!Allocated /\ object[t].uid \in Keys
    BY MadeHandle DEF Template
  <2>2. /\ try_cast(c, handle[object[t].handle].cls)
        /\ Generate(c, object[t].handle, object[t].uid) /\ UNCHANGED <<implVars, changes>>
    BY <1>2 DEF cast, get_algo_objects
  <2> QED BY <2>1, <2>2, GeneratedCached
<1> QED BY <1>1, <1>2

LEMMA CreateCached ==
  ASSUME CacheInv, NEW c \in Registered, NEW id \in Ids, NEW init_object, create(c, id, init_object)
  PROVE  /\ CacheInv'
         /\ phase = "quiet" /\ <<c, id>> \in Objects /\ db[id] = None /\ db' = [db EXCEPT ![id] = c]
         /\ UNCHANGED <<stored, tangled, phase, pending, changes, tcache>>
         /\ \E f \in Lookups(db', {id}) :
              /\ Looked({id}, db', f) /\ SomeRead({f[id]}, Inserted(handle, db', f))
              /\ SomeGot([h \in {f[id]} |-> c], Inserted(handle, db', f), {f[id]})
<1>1. /\ phase = "quiet" /\ <<c, id>> \in Objects /\ db[id] = None /\ db' = [db EXCEPT ![id] = c]
      /\ UNCHANGED <<stored, tangled, phase, pending, changes, tcache>>
  BY DEF create, Impl!MayWrite
<1>2. IP!KeyInv /\ IP!Inv /\ CachesOK /\ IP!SameNames(handle, handle)
  BY DEF CacheInv, IP!KeyInv, IP!Inv, IP!TypeOK, IP!SameNames
<1>3. IP!WorldOK' /\ db'[id] = c /\ c \in Classes
  BY <1>1, <1>2, TemplateAssumption DEF IP!WorldOK, IP!Inv, IP!TypeOK, IP!Databases
<1>4. PICK d, S : d = db' /\ S = {id}
  OBVIOUS
<1>5. PICK f \in Lookups(d, S) :
        /\ slot' = Slots(d, f)
        /\ GetEach([h \in {f[id]} |-> c], {f[id]}, Inserted(handle, d, f), init_object)
  BY <1>4 DEF create
<1>6. PICK classOf : classOf = [h \in {f[id]} |-> c]
  OBVIOUS
<1>7. S \in SUBSET Ids /\ (\A i \in S : d[i] \in Classes) /\ {f[i] : i \in S} = {f[id]}
  BY <1>3, <1>4
<1>8. /\ classOf \in [{f[i] : i \in S} -> Registered]
      /\ \A i \in S : try_cast(classOf[f[i]], d[i])
      /\ GetEach(classOf, {f[i] : i \in S}, Inserted(handle, d, f), init_object)
  BY <1>3, <1>4, <1>5, <1>6, <1>7 DEF try_cast
<1>9. /\ IP!KeyInv' /\ CachesOK' /\ Looked(S, d, f)
      /\ SomeRead({f[i] : i \in S}, Inserted(handle, d, f))
      /\ SomeGot(classOf, Inserted(handle, d, f), {f[i] : i \in S})
  <2>1. UNCHANGED <<tangled, tcache>>
    BY <1>1
  <2> QED BY ONLY <1>2, <1>3, <1>5, <1>7, <1>8, <2>1, LookupStep
<1>10. CacheInv'
  BY <1>1, <1>9 DEF CacheInv
<1> QED BY <1>1, <1>4, <1>5, <1>6, <1>7, <1>9, <1>10

\* A step of implementation objects after which the templates are where they
\* were.
LEMMA ImplCached ==
  ASSUME CacheInv, [IP!Next]_implVars, ClassesKept, SameTemplates, changes' \subseteq IP!Change
  PROVE  CacheInv'
BY ImplKeys, SameTemplatesStep DEF CacheInv

LEMMA RenameCacheInv ==
  ASSUME CacheInv, NEW h \in Handles, NEW new \in Ids, rename_object(h, new)
  PROVE  CacheInv'
<1>1. /\ Impl!rename_object(h, new) /\ changes' = changes
      /\ ReusesNames \/ ~Used(new)
      /\ db' = db => UNCHANGED tmplVars
      /\ db' # db => _rename_object(handle[h].cls, handle[h].id, new)
  BY DEF rename_object
<1>2. IP!rename_object(h, new) /\ IP!Next
  BY <1>1, SameActions, ImplNext
<1>3. /\ handle[h].id \in Ids /\ handle[h].cls \in Classes /\ handle[h].id # new
      /\ ClassesKept
  BY <1>2, RenamedNames DEF CacheInv, IP!KeyInv, ClassesKept
<1>4. CASE db' = db
  <2>1. SameTemplates
    BY <1>1, <1>4 DEF SameTemplates, CacheInv, CachesOK, TmplTypes, tmplVars
  <2> QED BY <1>1, <1>2, <1>3, <2>1, ImplCached DEF CacheInv
<1>5. CASE db' # db
  <2>1. ~ReusesNames => \A k \in Registered : cache[k][new] = None
    BY <1>1 DEF Used
  <2>2. CachesOK'
    BY <1>1, <1>3, <1>5, <2>1, RenameCached DEF CacheInv
  <2>3. IP!KeyInv'
    BY <1>2, ImplKeys DEF CacheInv
  <2> QED BY <1>1, <2>2, <2>3 DEF CacheInv
<1> QED BY <1>4, <1>5

\* What destroy(), abort(), a notification or an unread of all make of templates.
LEMMA UnreadCacheInv ==
  ASSUME CacheInv,
         \/ \E h \in Handles : destroy(h)
         \/ abort
         \/ \E b \in BOOLEAN : unread_all_objects(b)
         \/ EndUpdate
  PROVE  CacheInv' /\ SameTemplates /\ IP!SameNames(handle, handle')
<1>0. CachesOK /\ IP!Inv /\ TmplTypes
  BY DEF CacheInv, IP!KeyInv, CachesOK
<1>1. ASSUME [IP!Next]_implVars, IP!SameNames(handle, handle'), changes' \subseteq IP!Change,
             NEW S \in SUBSET Made, object' = Unread(S), UNCHANGED <<cache, tcache>>
      PROVE  CacheInv' /\ SameTemplates /\ IP!SameNames(handle, handle')
  BY <1>0, <1>1, UnreadSame, SameNamesKept, ImplCached
<1>2. (UNION {{cache[c][k] : k \in Keys} : c \in Registered}) \ {None} \in SUBSET Made
  BY <1>0, UnreadMade
<1>3. ASSUME NEW h \in Handles, destroy(h)
      PROVE  CacheInv' /\ SameTemplates /\ IP!SameNames(handle, handle')
  <2> DEFINE ids == {i \in Ids : db'[i] # db[i]}
             ch == [cls |-> handle[h].cls, removed |-> ids, created |-> {}, modified |-> {}]
  <2>1. /\ Impl!destroy_obj(h) /\ object' = Unread(Concerned(ch))
        /\ UNCHANGED <<changes, cache, tcache>>
    BY <1>3 DEF destroy
  <2>2. IP!Next /\ IP!destroy_obj(h)
    BY <2>1, ImplNext, SameActions
  <2>3. IP!SameNames(handle, handle')
    BY <1>0, <2>2, NamesOnly
  <2>4. ch.removed \cup ch.created \cup ch.modified \subseteq Ids
    OBVIOUS
  <2> HIDE DEF ch
  <2>5. Concerned(ch) \in SUBSET Made
    BY <1>0, <2>4, UnreadMade
  <2> QED BY <1>1, <2>1, <2>2, <2>3, <2>5 DEF CacheInv
<1>4. ASSUME abort
      PROVE  CacheInv' /\ SameTemplates /\ IP!SameNames(handle, handle')
  <2>1. Impl!abort /\ _unread_template_objects /\ UNCHANGED <<changes, cache, tcache>>
    BY <1>4 DEF abort
  <2>2. IP!Next /\ IP!abort
    BY <2>1, ImplNext, SameActions
  <2>3. IP!SameNames(handle, handle')
    BY <1>0, <2>2, NamesOnly
  <2> QED BY <1>1, <1>2, <2>1, <2>2, <2>3 DEF CacheInv, _unread_template_objects
<1>5. ASSUME NEW b \in BOOLEAN, unread_all_objects(b)
      PROVE  CacheInv' /\ SameTemplates /\ IP!SameNames(handle, handle')
  <2>1. /\ Impl!unread_implementation_objects \/ UNCHANGED implVars
        /\ _unread_template_objects /\ UNCHANGED <<changes, cache, tcache>>
    BY <1>5 DEF unread_all_objects
  <2>2. [IP!Next]_implVars /\ (IP!unread_implementation_objects \/ UNCHANGED implVars)
    BY <2>1, ImplNext, SameActions
  <2>3. IP!SameNames(handle, handle')
    BY <1>0, <2>2, NamesOnly
  <2> QED BY <1>1, <1>2, <2>1, <2>2, <2>3 DEF CacheInv, _unread_template_objects
<1>6. ASSUME EndUpdate
      PROVE  CacheInv' /\ SameTemplates /\ IP!SameNames(handle, handle')
  <2>1. /\ Impl!EndUpdate /\ changes' = {} /\ UNCHANGED <<cache, tcache>>
        /\ object' = Unread(UNION {Concerned(ch) : ch \in changes})
    BY <1>6 DEF EndUpdate
  <2>2. IP!Next /\ IP!EndUpdate
    BY <2>1, ImplNext, SameActions
  <2>3. IP!SameNames(handle, handle')
    BY <1>0, <2>2, NamesOnly
  <2>4. \A ch \in changes : ch.removed \cup ch.created \cup ch.modified \subseteq Ids
    BY DEF CacheInv, IP!Change
  <2>5. \A ch \in changes : Concerned(ch) \subseteq Made
    BY <1>0, <2>4, UnreadMade
  <2>6. UNION {Concerned(ch) : ch \in changes} \in SUBSET Made
    BY <2>5
  <2> QED BY <1>1, <2>1, <2>2, <2>3, <2>6
<1> QED BY <1>3, <1>4, <1>5, <1>6

\* The steps in which templates stay as they are, but for what they have read.
LEMMA ReloadCacheInv ==
  ASSUME CacheInv, NEW removed \in SUBSET Objects, NEW created \in SUBSET Objects,
         NEW modified \in SUBSET Objects, Reload(removed, created, modified)
  PROVE  CacheInv' /\ SameTemplates /\ IP!SameNames(handle, handle')
<1>1. /\ Impl!Reload(removed, created, modified)
      /\ changes' = pending' /\ UNCHANGED <<cache, tcache>>
      /\ object' = [t \in Templates |->
           IF t \in Made /\ object[t].content = "current"
              /\ LET o == handle[object[t].handle] IN <<o.cls, o.id>> \in removed \cup modified
           THEN [object[t] EXCEPT !.content = "old"] ELSE object[t]]
  BY DEF Reload
<1>2. IP!Next /\ IP!Reload(removed, created, modified)
  BY <1>1, ImplNext, SameActions
<1>3. IP!KeyInv' /\ IP!Inv /\ CachesOK
  BY <1>2, ImplKeys DEF CacheInv
<1>4. IP!SameNames(handle, handle')
  BY <1>2, <1>3, NamesOnly
<1>5. changes' \subseteq IP!Change
  BY <1>1, <1>3 DEF IP!KeyInv, IP!Inv, IP!TypeOK
<1>6. SameTemplates
  <2>1. \A t \in Templates : object[t] \in Template \cup {None}
    BY <1>3 DEF CachesOK, TmplTypes
  <2>2. \A o \in Template : /\ [o EXCEPT !.content = "old"] \in Template
                            /\ [o EXCEPT !.content = "old"].handle = o.handle
                            /\ [o EXCEPT !.content = "old"].uid = o.uid
    BY DEF Template, Impl!Contents
  <2>3. \A t \in Templates : object'[t] = object[t] \/
          (object[t] # None /\ object'[t] = [object[t] EXCEPT !.content = "old"])
    BY <1>1 DEF Made
  <2>4. object' \in [Templates -> Template \cup {None}]
    BY <1>1, <2>1, <2>2, <2>3
  <2> QED BY <1>1, <2>1, <2>2, <2>3, <2>4, TemplateAssumption DEF SameTemplates
<1> QED BY <1>2, <1>4, <1>5, <1>6, SameNamesKept, ImplCached

LEMMA ImplCacheInv ==
  ASSUME CacheInv,
         \/ BeginUpdate \/ (\E ch \in pending : UpdateNext(ch)) \/ ImplStep
         \/ UNCHANGED vars
  PROVE  CacheInv' /\ SameTemplates /\ NamesKept
<1>1. UNCHANGED <<changes, tmplVars>>
  BY DEF BeginUpdate, UpdateNext, ImplStep, vars
<1>2. SameTemplates
  BY <1>1 DEF SameTemplates, CacheInv, CachesOK, TmplTypes, tmplVars
<1>3. [IP!Next]_implVars
  <2>1. CASE BeginUpdate \/ (\E ch \in pending : UpdateNext(ch))
    BY <2>1, ImplNext DEF BeginUpdate, UpdateNext
  <2>2. CASE ImplStep
    BY <2>2, ImplNext DEF ImplStep
  <2>3. CASE UNCHANGED vars
    BY <2>3 DEF vars, implVars
  <2> QED BY <2>1, <2>2, <2>3
<1>4. IP!Inv
  BY DEF CacheInv, IP!KeyInv
<1>5. NamesKept /\ ClassesKept
  <2>1. CASE BeginUpdate \/ (\E ch \in pending : UpdateNext(ch)) \/ UNCHANGED vars
    <3>1. IP!BeginUpdate \/ (\E ch \in pending : IP!UpdateNext(ch)) \/ UNCHANGED implVars
      BY <2>1, SameActions DEF BeginUpdate, UpdateNext, vars
    <3> QED BY <1>4, <3>1, NamesOnly, SameNamesKept
  <2>2. CASE ImplStep
    <3>1. CASE \E c \in Classes, i \in Ids : Impl!get(c, i)
      BY <1>4, <3>1, SameActions, GetKept
    <3>2. CASE (\E h \in Handles : Impl!Access(h)) \/ Impl!commit
      <4>1. (\E h \in Handles : IP!Access(h)) \/ IP!commit
        BY <3>2, SameActions
      <4> QED BY <1>4, <4>1, NamesOnly, SameNamesKept
    <3> QED BY <2>2, <3>1, <3>2 DEF ImplStep
  <2> QED BY <2>1, <2>2
<1>6. changes' \subseteq IP!Change
  BY <1>1 DEF CacheInv
<1> QED BY <1>2, <1>3, <1>5, <1>6, ImplCached

LEMMA UnloadCacheInv ==
  ASSUME CacheInv, unload
  PROVE  CacheInv' /\ Made' = {}
<1>1. /\ Impl!unload /\ changes' = {}
      /\ object' = [t \in Templates |-> None]
      /\ cache' = [c \in Registered |-> [k \in Keys |-> None]]
      /\ tcache' = [c \in Registered |-> {}]
  BY DEF unload
<1>2. IP!KeyInv'
  BY <1>1, ImplNext, ImplKeys DEF CacheInv
<1>3. Made' = {} /\ TmplTypes'
  BY <1>1 DEF Made, TmplTypes
<1>4. CachesOK'
  BY <1>1, <1>3 DEF CachesOK, Placed, OnePlace, SomePlace, Bound, Recorded, CastIsSafe
<1> QED BY <1>1, <1>2, <1>3, <1>4 DEF CacheInv

\* The steps, by what they do to templates.
Step ==
  \/ SafeLookup
  \/ \E c \in Registered, init_object \in BOOLEAN :
       \/ \E i \in Ids : create(c, i, init_object)
       \/ \E h \in Handles : get_by_object(c, h, init_object)
  \/ \E c \in Registered : \/ \E h \in Handles, id \in Generated : generate(c, h, id)
                           \/ \E t \in Made : cast(c, t) \/ get_algo_objects(c, t)
  \/ \E t \in Made : check_init(t) \/ unread(t)
  \/ \E h \in Handles, i \in Ids : rename_object(h, i)
  \/ (\E h \in Handles : destroy(h)) \/ abort \/ (\E b \in BOOLEAN : unread_all_objects(b)) \/ EndUpdate
  \/ unload
  \/ \E removed, created, modified \in SUBSET Objects : Reload(removed, created, modified)
  \/ BeginUpdate \/ (\E ch \in pending : UpdateNext(ch)) \/ ImplStep \/ UNCHANGED vars

LEMMA EveryStep ==
  ASSUME CacheInv, [Next]_vars
  PROVE  Step
<1>1. ASSUME NEW c \in Registered, NEW init_object \in BOOLEAN,
             \/ \E i \in Ids : get_by_id(c, i, init_object) \/ create(c, i, init_object)
             \/ \E h \in Handles : get_by_object(c, h, init_object)
      PROVE  Step
  BY <1>1, LookupsSafe DEF Step
<1>2. CASE \/ \E c \in Registered : get_all(c, TRUE)
           \/ \E c \in Registered, h \in Handles : \E S \in SUBSET Castable(c, Stored) : _ref(c, h, S, FALSE)
           \/ \E t \in Made, S \in SUBSET Stored : \E c \in Registered : referenced_by(c, t, S, TRUE)
           \/ \E t \in Made, S \in SUBSET Stored, upcast \in BOOLEAN : get_rel_objects(t, S, upcast)
  BY <1>2, LookupsSafe, RelObjectsSafe DEF Step
<1>3. CASE \/ \E c \in Registered, h \in Handles, id \in Generated : generate(c, h, id)
           \/ \E c \in Registered, t \in Made : cast(c, t) \/ get_algo_objects(c, t)
  BY <1>3 DEF Step
<1>4. CASE \/ \E t \in Made : check_init(t) \/ unread(t)
           \/ \E h \in Handles : destroy(h) \/ \E i \in Ids : rename_object(h, i)
           \/ \E b \in BOOLEAN : unread_all_objects(b)
           \/ abort \/ unload \/ EndUpdate
           \/ BeginUpdate \/ (\E ch \in pending : UpdateNext(ch)) \/ ImplStep \/ UNCHANGED vars
  BY <1>4 DEF Step
<1>5. CASE LET present == {p \in Objects : db[p[2]] = p[1]} IN
           \E removed, modified \in SUBSET present, created \in SUBSET (Objects \ present) :
             Reload(removed, created, modified)
  <2>1. \E removed, created, modified \in SUBSET Objects : Reload(removed, created, modified)
    BY <1>5
  <2> QED BY <2>1 DEF Step
<1> QED BY <1>1, <1>2, <1>3, <1>4, <1>5 DEF Next

LEMMA CacheStep ==
  ASSUME CacheInv, [Next]_vars
  PROVE  CacheInv'
<1>1. CASE SafeLookup
  BY <1>1, LookupsCached
<1>2. CASE \E c \in Registered, init_object \in BOOLEAN :
             \/ \E i \in Ids : create(c, i, init_object)
             \/ \E h \in Handles : get_by_object(c, h, init_object)
  BY <1>2, CreateCached, ByObjectCached
<1>3. CASE \E c \in Registered : \/ \E h \in Handles, id \in Generated : generate(c, h, id)
                                 \/ \E t \in Made : cast(c, t) \/ get_algo_objects(c, t)
  BY <1>3, GenerateCached
<1>4. CASE \E t \in Made : check_init(t) \/ unread(t)
  BY <1>4, GettersCached
<1>5. CASE \E h \in Handles, i \in Ids : rename_object(h, i)
  BY <1>5, RenameCacheInv
<1>6. CASE \/ (\E h \in Handles : destroy(h)) \/ abort
           \/ (\E b \in BOOLEAN : unread_all_objects(b)) \/ EndUpdate
  BY <1>6, UnreadCacheInv
<1>7. CASE unload
  BY <1>7, UnloadCacheInv
<1>8. CASE \E removed, created, modified \in SUBSET Objects : Reload(removed, created, modified)
  BY <1>8, ReloadCacheInv
<1>9. CASE BeginUpdate \/ (\E ch \in pending : UpdateNext(ch)) \/ ImplStep \/ UNCHANGED vars
  BY <1>9, ImplCacheInv
<1> QED BY <1>1, <1>2, <1>3, <1>4, <1>5, <1>6, <1>7, <1>8, <1>9, EveryStep DEF Step

LEMMA CacheInit ==
  ASSUME Init
  PROVE  CacheInv
<1>1. IP!Init
  BY SameActions DEF Init
<1>2. IP!KeyInv
  BY <1>1, ImplAssumption, IP!InitInv DEF IP!KeyInv
<1>3. Made = {} /\ TmplTypes
  BY DEF Init, Made, TmplTypes
<1>4. CachesOK
  BY <1>3 DEF Init, CachesOK, Placed, OnePlace, SomePlace, Bound, Recorded, CastIsSafe
<1> QED BY <1>2, <1>4 DEF Init, CacheInv

LEMMA CacheAlways == Spec => []CacheInv
<1>1. Init => CacheInv
  BY CacheInit
<1>2. CacheInv /\ [Next]_vars => CacheInv'
  BY CacheStep
<1> QED BY <1>1, <1>2, PTL DEF Spec

\* The caches hold templates, templates refer to handles (DalObject.hpp:446-478,
\* Configuration.hpp:1404-1460).
THEOREM TmplTypeCorrect == Spec => []TypeOK
<1>1. CacheInv => TypeOK
  BY SameTypes, SameState DEF CacheInv, CachesOK, TmplTypes, TypeOK, IP!KeyInv, IP!Inv
<1> QED BY <1>1, CacheAlways, PTL

\* A template of class T is bound to an object of class T or of a subclass
\* (Configuration.hpp:1404-1460): its getters find their attributes.
THEOREM CastCorrect == Spec => []CastIsSafe
<1>1. CacheInv => CastIsSafe
  BY DEF CacheInv, CachesOK
<1> QED BY <1>1, CacheAlways, PTL

\* Every template is in one cache, once and under its own UID, through any
\* renames, when the client gives no id to two objects: a client has one
\* object per id, and ~Cache() deletes it once (Configuration.hpp:1404-1460).
THEOREM OneTemplateCorrect ==
  ASSUME ~ReusesNames
  PROVE  Spec => []OneTemplatePerId
<1>1. CacheInv => OneTemplatePerId
  <2> SUFFICES ASSUME CacheInv, NEW t \in Made
               PROVE  \E c \in Registered :
                        /\ cache[c][object[t].uid] = t
                        /\ \A d \in Registered, k \in Keys :
                             cache[d][k] = t => d = c /\ k = object[t].uid
    BY DEF OneTemplatePerId
  <2>1. object[t].uid \in Keys /\ t # None
    BY MadeType DEF CacheInv, CachesOK, Template
  <2>2. PICK c \in Registered : cache[c][object[t].uid] = t
    BY DEF CacheInv, CachesOK, SomePlace
  <2> QED BY <2>1, <2>2 DEF CacheInv, CachesOK, OnePlace, Placed
<1> QED BY <1>1, CacheAlways, PTL
=============================================================================
