--------------------------- MODULE ImplObjectsProof ---------------------------
(***************************************************************************)
(* For any classes, ids and number of handles: as long as the client does  *)
(* not use a handle that a rename has replaced, a slot holds the handle of *)
(* the object with its class and id.                                       *)
(***************************************************************************)
EXTENDS ImplObjects, TLAPS

\* What a change does to one handle keeps its id and its class.
LEMMA ApplyType ==
  ASSUME NEW o \in Handle, NEW i, NEW ch, NEW d
  PROVE  /\ Apply(o, i, ch, d) \in Handle
         /\ Apply(o, i, ch, d).id = o.id
         /\ Apply(o, i, ch, d).cls = o.cls
<1> DEFINE Found(x) == [x EXCEPT !.state = IF d[x.id] = x.cls THEN "Valid" ELSE "Deleted",
                                 !.content = "none"]
           one == IF i \in ch.removed
                    THEN [o EXCEPT !.state = "Deleted", !.content = "none"] ELSE o
           two == IF i \in ch.created THEN Found(one) ELSE one
<1>1. \A x \in Handle : Found(x) \in Handle /\ Found(x).id = x.id /\ Found(x).cls = x.cls
  BY DEF Handle, States, Contents
<1>2. one \in Handle /\ one.id = o.id /\ one.cls = o.cls
  BY DEF Handle, States, Contents
<1>3. two \in Handle /\ two.id = o.id /\ two.cls = o.cls
  BY <1>1, <1>2
<1>4. /\ [two EXCEPT !.content = "none"] \in Handle
      /\ [two EXCEPT !.content = "none"].id = two.id
      /\ [two EXCEPT !.content = "none"].cls = two.cls
  BY <1>3 DEF Handle, Contents
<1>5. Apply(o, i, ch, d) =
        IF i \notin ch.modified THEN two
        ELSE IF two.state # "Valid" THEN Found(two) ELSE [two EXCEPT !.content = "none"]
  BY DEF Apply
<1> HIDE DEF Found, one, two
<1> QED BY <1>1, <1>3, <1>4, <1>5

\* reset() and is_deleted() keep a handle's id and class.
LEMMA SettledType ==
  ASSUME NEW o \in Handle
  PROVE  Settled(o) \in Handle /\ Settled(o).id = o.id /\ Settled(o).cls = o.cls
BY DEF Settled, reset, Handle, States, Contents

\* Both functions of handles agree on which are allocated, and on the id and
\* the class of each.
SameNames(f, g) ==
  /\ g \in [Handles -> Handle \cup {None}]
  /\ \A h \in Handles : /\ g[h] = None <=> f[h] = None
                        /\ f[h] # None => g[h].id = f[h].id /\ g[h].cls = f[h].cls

LEMMA UpdatedType ==
  ASSUME TypeOK, \A c \in Classes, i \in Ids : slot[c][i] # None => slot[c][i] \in Allocated,
         NEW ch, NEW d
  PROVE  SameNames(handle, Updated(ch, d))
<1> DEFINE Hit(h) == {i \in Ids : \E c \in Classes : Related(c, ch.cls) /\ slot[c][i] = h}
<1>1. ASSUME NEW h \in Handles
      PROVE  /\ Updated(ch, d)[h] \in Handle \cup {None}
             /\ Updated(ch, d)[h] = None <=> handle[h] = None
             /\ handle[h] # None => /\ Updated(ch, d)[h].id = handle[h].id
                                    /\ Updated(ch, d)[h].cls = handle[h].cls
  <2>1. CASE Hit(h) = {}
    <3>1. Updated(ch, d)[h] = handle[h]
      BY <2>1 DEF Updated
    <3> QED BY <3>1 DEF TypeOK
  <2>2. CASE Hit(h) # {}
    <3>1. handle[h] # None /\ handle[h] \in Handle
      <4>1. h # None
        BY ObjectAssumption
      <4> QED BY <2>2, <4>1 DEF Allocated, TypeOK
    <3>2. Updated(ch, d)[h] = Apply(handle[h], CHOOSE i \in Hit(h) : TRUE, ch, d)
      BY <2>2 DEF Updated
    <3> QED BY <3>1, <3>2, ApplyType, ObjectAssumption
  <2> QED BY <2>1, <2>2
<1>2. Updated(ch, d) \in [Handles -> Handle \cup {None}]
  <2>1. Updated(ch, d) = [h \in Handles |-> Updated(ch, d)[h]]
    BY DEF Updated
  <2> QED BY <1>1, <2>1
<1> QED BY <1>1, <1>2 DEF SameNames

----------------------------------------------------------------------------
\* Types, and what keeps update_cache() and rename_object() off free handles.
Inv ==
  /\ TypeOK
  /\ \A c \in Classes, i \in Ids : slot[c][i] # None => slot[c][i] \in Allocated
  /\ Tangled \subseteq Allocated

\* A slot holds the handle of its class and id, and every handle that has not
\* been replaced is in the slot of its class and id.
Named ==
  \A c \in Classes, i \in Ids :
     slot[c][i] # None => /\ slot[c][i] \notin Tangled
                          /\ handle[slot[c][i]].id = i
                          /\ handle[slot[c][i]].cls = c
Listed == \A h \in Allocated \ Tangled : slot[handle[h].cls][handle[h].id] = h

KeyInv == Inv /\ Named /\ Listed

\* The part of TypeOK that is about the database and the notification.
WorldOK ==
  /\ db \in Databases /\ stored \in Databases
  /\ phase \in {"quiet", "reloaded", "updating"}
  /\ pending \subseteq Change
  /\ phase = "quiet" => pending = {}

\* A step that only changes what handles know of their objects.
LEMMA SameNamesStep ==
  ASSUME Inv, WorldOK', SameNames(handle, handle'), UNCHANGED <<slot, tangled>>
  PROVE  Inv' /\ (Named /\ Listed => (Named /\ Listed)')
<1>1. Allocated' = Allocated /\ Tangled' = Tangled
  BY DEF SameNames, Allocated, Tangled
<1>2. Inv'
  BY <1>1 DEF Inv, SameNames, TypeOK, WorldOK
<1>3. Named => Named'
  BY <1>1, <1>2 DEF Named, Inv, SameNames, Allocated
<1>4. Listed => Listed'
  BY <1>1 DEF Listed, SameNames, Allocated
<1> QED BY <1>2, <1>3, <1>4

\* One allocated handle is given another state or content.
LEMMA OneChanged ==
  ASSUME TypeOK, NEW h \in Allocated, NEW o \in Handle,
         o.id = handle[h].id, o.cls = handle[h].cls
  PROVE  SameNames(handle, [handle EXCEPT ![h] = o])
BY ObjectAssumption DEF TypeOK, SameNames, Allocated

\* A handle's state or content is its own, so changing them keeps its type.
LEMMA FieldChanged ==
  ASSUME NEW o \in Handle, NEW s \in States, NEW c \in Contents
  PROVE  /\ [o EXCEPT !.state = s] \in Handle
         /\ [o EXCEPT !.content = c] \in Handle
         /\ [o EXCEPT !.state = s].id = o.id /\ [o EXCEPT !.state = s].cls = o.cls
         /\ [o EXCEPT !.content = c].id = o.id /\ [o EXCEPT !.content = c].cls = o.cls
BY DEF Handle

LEMMA AllocatedType ==
  ASSUME TypeOK, NEW h \in Allocated
  PROVE  handle[h] \in Handle /\ h \in Handles /\ h # None
BY ObjectAssumption DEF TypeOK, Allocated

LEMMA ForgottenNames ==
  ASSUME TypeOK
  PROVE  SameNames(handle, AllUnknown)
<1>1. ASSUME NEW h \in Handles, handle[h] # None
      PROVE  LET o == [handle[h] EXCEPT !.state = "Unknown", !.content = "none"] IN
             o \in Handle /\ o.id = handle[h].id /\ o.cls = handle[h].cls
  BY <1>1 DEF TypeOK, Handle, States, Contents
<1> QED BY <1>1, ObjectAssumption DEF AllUnknown, SameNames

\* insert_object() finds the handle that has the name, or gives it a new one.
LEMMA InsertStep ==
  ASSUME Inv, NEW c \in Classes, NEW i \in Ids, insert_object(c, i), WorldOK',
         UNCHANGED tangled
  PROVE  Inv' /\ (Named /\ Listed => (Named /\ Listed)')
<1> USE DEF Inv
<1>1. CASE \E h \in get_impl_object(c, i) :
             handle' = [handle EXCEPT ![h].state = "Valid"] /\ UNCHANGED slot
  <2>1. PICK h \in get_impl_object(c, i) :
          handle' = [handle EXCEPT ![h].state = "Valid"] /\ UNCHANGED slot
    BY <1>1
  <2>2. h \in Allocated
    BY ObjectAssumption DEF get_impl_object, TypeOK
  <2>3. handle[h] \in Handle /\ h \in Handles
    BY <2>2, AllocatedType
  <2>4. handle' = [handle EXCEPT ![h] = [handle[h] EXCEPT !.state = "Valid"]]
    BY <2>1, <2>3 DEF TypeOK
  <2>5. SameNames(handle, handle')
    BY <2>2, <2>3, <2>4, OneChanged, FieldChanged DEF States, Contents
  <2> QED BY <2>1, <2>5, SameNamesStep
<1>2. CASE get_impl_object(c, i) = {} /\
           \E h \in Handles \ Allocated :
             /\ handle' = [handle EXCEPT ![h] =
                  [state |-> "Valid", id |-> i, cls |-> c, content |-> "none"]]
             /\ slot' = [slot EXCEPT ![c][i] = h]
  <2>1. PICK h \in Handles \ Allocated :
             /\ handle' = [handle EXCEPT ![h] =
                  [state |-> "Valid", id |-> i, cls |-> c, content |-> "none"]]
             /\ slot' = [slot EXCEPT ![c][i] = h]
    BY <1>2
  <2> DEFINE o == [state |-> "Valid", id |-> i, cls |-> c, content |-> "none"]
  <2>2. o \in Handle /\ o # None /\ o.id = i /\ o.cls = c
    BY ObjectAssumption DEF Handle, States, Contents
  <2> HIDE DEF o
  <2>3. handle' = [handle EXCEPT ![h] = o]
    BY <2>1 DEF o
  <2>4. slot[c][i] = None
    BY <1>2 DEF get_impl_object
  <2>5. Allocated' = Allocated \cup {h} /\ Tangled' = Tangled
    BY <2>1, <2>2, <2>3 DEF Allocated, Tangled, TypeOK
  <2>6. TypeOK'
    BY <2>1, <2>2, <2>3 DEF TypeOK, WorldOK
  <2>7. \A k \in Classes, j \in Ids :
           slot'[k][j] = IF k = c /\ j = i THEN h ELSE slot[k][j]
    BY <2>1 DEF TypeOK
  <2>8. Inv'
    BY <2>5, <2>6, <2>7
  <2>9. \A g \in Handles : handle'[g] = IF g = h THEN o ELSE handle[g]
    BY <2>3 DEF TypeOK
  <2>10. h \notin Tangled
    BY <2>1
  <2>11. Named => Named'
    <3> SUFFICES ASSUME Named, NEW k \in Classes, NEW j \in Ids, slot'[k][j] # None
                 PROVE  /\ slot'[k][j] \notin Tangled'
                        /\ handle'[slot'[k][j]].id = j
                        /\ handle'[slot'[k][j]].cls = k
      BY DEF Named
    <3>1. CASE k = c /\ j = i
      BY <3>1, <2>1, <2>2, <2>5, <2>7, <2>9, <2>10
    <3>2. CASE ~(k = c /\ j = i)
      <4>1. slot'[k][j] = slot[k][j] /\ slot[k][j] \in Allocated
        BY <3>2, <2>7
      <4>2. slot[k][j] # h /\ slot[k][j] \in Handles
        BY <4>1, <2>1 DEF Allocated
      <4> QED BY <4>1, <4>2, <2>5, <2>9 DEF Named
    <3> QED BY <3>1, <3>2
  <2>12. Listed => Listed'
    <3> SUFFICES ASSUME Listed, NEW g \in Allocated' \ Tangled'
                 PROVE  slot'[handle'[g].cls][handle'[g].id] = g
      BY DEF Listed
    <3>1. CASE g = h
      BY <3>1, <2>1, <2>2, <2>7, <2>9
    <3>2. CASE g # h
      <4>1. g \in Allocated \ Tangled /\ handle'[g] = handle[g]
        BY <3>2, <2>5, <2>9 DEF Allocated
      <4>2. handle[g] \in Handle /\ g # None
        BY <4>1, AllocatedType
      <4>3. handle[g].cls \in Classes /\ handle[g].id \in Ids
        BY <4>2 DEF Handle
      <4> QED BY <4>1, <4>2, <4>3, <2>4, <2>7 DEF Listed
    <3> QED BY <3>1, <3>2
  <2> QED BY <2>8, <2>11, <2>12
<1> QED BY <1>1, <1>2 DEF insert_object

\* A handle that is replaced is the last of m_tangled_objects.
LEMMA TangledAppended ==
  ASSUME tangled \in Seq(Handles), NEW h \in Handles, tangled' = Append(tangled, h)
  PROVE  /\ Tangled' = Tangled \cup {h}
         /\ Len(tangled) \in Nat /\ 1..Len(tangled') = (1..Len(tangled)) \cup {Len(tangled) + 1}
         /\ tangled'[Len(tangled) + 1] = h
         /\ \A n \in 1..Len(tangled) : tangled'[n] = tangled[n]
<1>1. /\ Len(tangled) \in Nat /\ Len(tangled') = Len(tangled) + 1
      /\ tangled'[Len(tangled) + 1] = h
      /\ \A n \in 1..Len(tangled) : tangled'[n] = tangled[n]
  OBVIOUS
<1>2. 1..Len(tangled') = (1..Len(tangled)) \cup {Len(tangled) + 1}
  BY <1>1
<1> QED BY <1>1, <1>2 DEF Tangled

\* Renaming moves the slot of the object, and only that one, to the new name.
LEMMA RenameStep ==
  ASSUME Inv, NEW h \in Handles, NEW new \in Ids, rename_object(h, new), WorldOK'
  PROVE  Inv' /\ (~UsesReplaced /\ Named /\ Listed => (Named /\ Listed)')
<1> USE DEF Inv
<1> DEFINE o == Settled(handle[h])
           refused == o.state = "Deleted" \/ db[new] # None
           old == slot[o.cls][o.id]
           replaced == IF old = None THEN None ELSE slot[o.cls][new]
<1>1. h \in Allocated /\ handle[h] \in Handle
  BY AllocatedType DEF rename_object, InUse
<1>2. o \in Handle /\ o.id = handle[h].id /\ o.cls = handle[h].cls
  BY <1>1, SettledType
<1>3. o.cls \in Classes /\ o.id \in Ids
  BY <1>2 DEF Handle
<1>4. new # o.id
  BY DEF rename_object
<1>5. CASE refused
  <2>1. handle' = [handle EXCEPT ![h] = o] /\ UNCHANGED <<slot, tangled>>
    BY <1>5 DEF rename_object
  <2>2. SameNames(handle, handle')
    BY <1>1, <1>2, <2>1, OneChanged
  <2> QED BY <2>1, <2>2, SameNamesStep
<1>6. CASE ~refused
  <2> DEFINE renamed == [o EXCEPT !.id = new]
             freed(g) == [handle[g] EXCEPT !.state = "Unknown"]
  <2>1. /\ rename_impl_object(o.cls, o.id, new)
        /\ handle' = [g \in Handles |-> IF g = h THEN renamed
                                         ELSE IF g = replaced THEN freed(g) ELSE handle[g]]
    BY <1>6 DEF rename_object
  <2>2. renamed \in Handle /\ renamed.id = new /\ renamed.cls = o.cls
    BY <1>2 DEF Handle
  <2>3. replaced # None => replaced \in Allocated
    BY <1>3
  <2>4. ASSUME NEW g \in Handles, g = replaced
        PROVE  /\ handle[g] \in Handle /\ freed(g) \in Handle
               /\ freed(g).id = handle[g].id /\ freed(g).cls = handle[g].cls
    <3>1. g \in Allocated
      BY <2>3, <2>4, ObjectAssumption
    <3>2. handle[g] \in Handle
      BY <3>1, AllocatedType
    <3> QED BY <3>2, FieldChanged DEF States, Contents
  <2> HIDE DEF o, renamed, freed, refused, replaced
  <2>5. Allocated' = Allocated
    <3>1. \A g \in Handles : handle'[g] # None <=> handle[g] # None
      BY <1>1, <2>1, <2>2, <2>4, ObjectAssumption
    <3> QED BY <3>1 DEF Allocated
  <2>6. handle' \in [Handles -> Handle \cup {None}]
    BY <2>1, <2>2, <2>4 DEF TypeOK
  <2>7. CASE old = None
    <3>1. UNCHANGED <<slot, tangled>>
      BY <2>1, <2>7 DEF rename_impl_object
    <3>2. Inv'
      BY <2>5, <2>6, <3>1 DEF TypeOK, WorldOK, Tangled
    <3>3. ~UsesReplaced /\ Listed => FALSE
      <4>1. h # None
        BY <1>1, AllocatedType
      <4> QED BY <1>1, <1>2, <2>7, <4>1 DEF Listed, rename_object, InUse
    <3> QED BY <3>2, <3>3
  <2>8. CASE old # None
    <3>1. /\ slot' = [slot EXCEPT ![o.cls][new] = old, ![o.cls][o.id] = None]
          /\ tangled' = IF replaced = None THEN tangled ELSE Append(tangled, replaced)
      BY <2>1, <2>8 DEF rename_impl_object, replaced
    <3>2. \A k \in Classes, j \in Ids :
             slot'[k][j] = IF k = o.cls /\ j = o.id THEN None
                           ELSE IF k = o.cls /\ j = new THEN old ELSE slot[k][j]
      BY <1>3, <1>4, <3>1 DEF TypeOK
    <3>3. old \in Allocated /\ old \in Handles
      BY <1>3, <2>8 DEF Allocated
    <3>4. slot' \in [Classes -> [Ids -> Handles \cup {None}]]
      BY <1>3, <3>1, <3>3 DEF TypeOK
    <3>5. tangled' \in Seq(Handles)
      BY <2>3, <3>1 DEF TypeOK, Allocated
    <3>6. Tangled' = Tangled \cup ({replaced} \ {None})
      <4>1. CASE replaced = None
        BY <3>1, <4>1 DEF Tangled
      <4>2. CASE replaced # None
        <5>1. replaced \in Handles /\ tangled \in Seq(Handles)
          BY <2>3, <4>2 DEF TypeOK, Allocated
        <5> QED BY <3>1, <4>2, <5>1, TangledAppended
      <4> QED BY <4>1, <4>2
    <3>7. Inv'
      <4>1. TypeOK'
        BY <2>6, <3>4, <3>5 DEF TypeOK, WorldOK
      <4>2. \A k \in Classes, j \in Ids : slot'[k][j] # None => slot'[k][j] \in Allocated
        BY <3>2, <3>3
      <4> QED BY <2>3, <2>5, <3>6, <4>1, <4>2
    <3>8. ASSUME ~UsesReplaced, Named, Listed
          PROVE  (Named /\ Listed)'
      <4>1. old = h
        BY <1>1, <1>2, <3>8 DEF Listed, rename_object, InUse
      <4>2. replaced = slot[o.cls][new]
        BY <2>8 DEF replaced
      <4>3. replaced # h /\ (replaced # None => handle[replaced].id = new)
        BY <1>2, <1>3, <1>4, <3>8, <4>1, <4>2, <3>3, ObjectAssumption DEF Named
      <4>4. h \notin Tangled'
        BY <3>6, <3>8, <4>3 DEF rename_object, InUse
      <4>5. \A g \in Handles :
               /\ g = h => handle'[g] = renamed
               /\ g # h => handle'[g].id = handle[g].id /\ handle'[g].cls = handle[g].cls
        BY <2>1, <2>4
      <4>6. ASSUME NEW k \in Classes, NEW j \in Ids, slot'[k][j] # None
            PROVE  /\ slot'[k][j] \notin Tangled'
                   /\ handle'[slot'[k][j]].id = j
                   /\ handle'[slot'[k][j]].cls = k
        <5>1. CASE k = o.cls /\ j = new
          BY <1>1, <1>4, <2>2, <3>2, <4>1, <4>4, <4>5, <5>1 DEF Allocated
        <5>2. CASE ~(k = o.cls /\ j = new)
          <6>1. slot'[k][j] = slot[k][j] /\ ~(k = o.cls /\ j = o.id)
            BY <3>2, <4>6, <5>2
          <6> DEFINE g == slot[k][j]
          <6>2. g \in Handles /\ g # None
            BY <4>6, <6>1 DEF Allocated
          <6>3. g \notin Tangled /\ handle[g].id = j /\ handle[g].cls = k
            BY <3>8, <6>2 DEF Named
          <6>4. g # h
            BY <1>2, <6>1, <6>3
          <6>5. g # replaced
            <7>1. replaced # None => handle[replaced].cls = o.cls /\ handle[replaced].id = new
              BY <1>3, <3>8, <4>2 DEF Named
            <7> QED BY <5>2, <6>2, <6>3, <7>1
          <6> QED BY <3>6, <4>5, <6>1, <6>2, <6>3, <6>4, <6>5
        <5> QED BY <5>1, <5>2
      <4>7. ASSUME NEW g \in Allocated' \ Tangled'
            PROVE  slot'[handle'[g].cls][handle'[g].id] = g
        <5>1. CASE g = h
          BY <1>1, <1>3, <1>4, <2>2, <3>2, <4>1, <4>5, <5>1 DEF Allocated
        <5>2. CASE g # h
          <6>1. g \in Allocated /\ g \notin Tangled /\ g # None /\ handle[g] \in Handle
            BY <2>5, <3>6, <4>7, AllocatedType
          <6>2. handle[g].cls \in Classes /\ handle[g].id \in Ids
            BY <6>1 DEF Handle
          <6>3. slot[handle[g].cls][handle[g].id] = g
            BY <3>8, <6>1 DEF Listed
          <6>4. g # replaced
            BY <3>6, <4>7, <6>1
          <6>5. /\ ~(handle[g].cls = o.cls /\ handle[g].id = o.id)
                /\ ~(handle[g].cls = o.cls /\ handle[g].id = new)
            BY <4>1, <4>2, <5>2, <6>3, <6>4
          <6>6. handle'[g].cls = handle[g].cls /\ handle'[g].id = handle[g].id
            BY <4>5, <5>2, <6>1 DEF Allocated
          <6> QED BY <3>2, <6>2, <6>3, <6>5, <6>6
        <5> QED BY <5>1, <5>2
      <4> QED BY <4>6, <4>7 DEF Named, Listed
    <3> QED BY <3>7, <3>8
  <2> QED BY <2>7, <2>8
<1> QED BY <1>5, <1>6

----------------------------------------------------------------------------
\* The database keeps one class for each id, of an object that may exist.
LEMMA WorldStep ==
  ASSUME Inv, [Next]_vars
  PROVE  WorldOK'
<1> USE DEF Inv, TypeOK, WorldOK
<1>1. ASSUME NEW c \in Classes, NEW i \in Ids, get(c, i)
      PROVE  WorldOK'
  BY <1>1 DEF get
<1>2. ASSUME NEW c \in Classes, NEW i \in Ids, create(c, i)
      PROVE  WorldOK'
  BY <1>2 DEF create, Databases
<1>3. ASSUME NEW h \in Handles, Access(h)
      PROVE  WorldOK'
  BY <1>3 DEF Access
<1>4. ASSUME NEW h \in Handles, destroy_obj(h)
      PROVE  WorldOK'
  <2>1. UNCHANGED <<stored, phase, pending>> /\ db' \in Databases
    BY <1>4 DEF destroy_obj, Databases
  <2> QED BY <2>1
<1>5. ASSUME NEW h \in Handles, NEW i \in Ids, rename_object(h, i)
      PROVE  WorldOK'
  <2> DEFINE o == Settled(handle[h])
  <2>1. handle[h] \in Handle
    BY <1>5, AllocatedType DEF rename_object, InUse
  <2>2. o \in Handle
    BY <2>1, SettledType
  <2>3. o.cls \in Classes /\ o.id \in Ids
    BY <2>2 DEF Handle
  <2>4. <<o.cls, i>> \in Objects /\ UNCHANGED <<stored, phase, pending>>
    BY <1>5 DEF rename_object
  <2>5. db' = db \/ db' = [db EXCEPT ![o.id] = None, ![i] = o.cls]
    BY <1>5 DEF rename_object
  <2> HIDE DEF o
  <2>6. db' \in Databases
    BY <2>3, <2>4, <2>5 DEF Databases
  <2> QED BY <2>4, <2>6
<1>6. CASE unread_implementation_objects
  BY <1>6 DEF unread_implementation_objects
<1>7. CASE commit
  BY <1>7 DEF commit
<1>8. CASE abort
  BY <1>8 DEF abort
<1>9. CASE unload
  BY <1>9 DEF unload
<1>10. ASSUME NEW removed \in SUBSET Objects, NEW created \in SUBSET Objects,
              NEW modified \in SUBSET Objects, Reload(removed, created, modified)
       PROVE  WorldOK'
  <2>1. \A q \in removed \cup created \cup modified : q[1] \in Classes /\ q[2] \in Ids
    BY ObjectAssumption
  <2>2. db' \in Databases
    <3> DEFINE p(i) == CHOOSE q \in created : q[2] = i
    <3>1. db' = [i \in Ids |->
                   IF \E q \in created : q[2] = i THEN p(i)[1]
                   ELSE IF \E q \in removed : q[2] = i THEN None ELSE db[i]]
      BY <1>10 DEF Reload
    <3>2. \A i \in Ids : (\E q \in created : q[2] = i) =>
                            p(i) \in created /\ p(i)[2] = i
      OBVIOUS
    <3>3. \A q \in created : q[1] \in Classes /\ q = <<q[1], q[2]>> /\ q \in Objects
      BY ObjectAssumption
    <3> HIDE DEF p
    <3>4. ASSUME NEW i \in Ids
          PROVE  /\ db'[i] \in Classes \cup {None}
                 /\ db'[i] # None => <<db'[i], i>> \in Objects
      <4>1. CASE \E q \in created : q[2] = i
        BY <3>1, <3>2, <3>3, <4>1
      <4>2. CASE ~\E q \in created : q[2] = i
        BY <3>1, <4>2 DEF Databases
      <4> QED BY <4>1, <4>2
    <3> QED BY <3>1, <3>4 DEF Databases
  <2>3. pending' \subseteq Change
    <3> DEFINE Of(S, c) == {q[2] : q \in {r \in S : r[1] = c}}
    <3>1. pending' = {[cls |-> c, created |-> Of(created, c), modified |-> Of(modified, c),
                       removed |-> Of(removed, c)] :
                         c \in {q[1] : q \in removed \cup created \cup modified}}
      BY <1>10 DEF Reload
    <3>2. \A c : /\ Of(created, c) \subseteq Ids
                 /\ Of(modified, c) \subseteq Ids
                 /\ Of(removed, c) \subseteq Ids
      BY <2>1
    <3>3. \A q \in removed \cup created \cup modified : q[1] \in Classes
      BY <2>1
    <3> HIDE DEF Of
    <3> QED BY <3>1, <3>2, <3>3 DEF Change
  <2>4. stored' = db' /\ phase' = "reloaded"
    BY <1>10 DEF Reload
  <2> QED BY <2>2, <2>3, <2>4
<1>11. CASE BeginUpdate
  BY <1>11 DEF BeginUpdate
<1>12. ASSUME NEW ch \in pending, UpdateNext(ch)
       PROVE  WorldOK'
  BY <1>12 DEF UpdateNext
<1>13. CASE EndUpdate
  BY <1>13 DEF EndUpdate
<1>14. CASE UNCHANGED vars
  BY <1>14 DEF vars
<1> QED BY <1>1, <1>2, <1>3, <1>4, <1>5, <1>6, <1>7, <1>8, <1>9, <1>10, <1>11, <1>12,
           <1>13, <1>14 DEF Next

\* An access settles a handle's state and may read its object.
LEMMA AccessNames ==
  ASSUME TypeOK, NEW h \in Handles, Access(h)
  PROVE  SameNames(handle, handle') /\ UNCHANGED <<slot, tangled>>
<1> DEFINE o == Settled(handle[h])
           seen == IF o.state = "Valid" /\ o.content = "none"
                     THEN [o EXCEPT !.content = "current"] ELSE o
<1>1. h \in Allocated /\ handle' = [handle EXCEPT ![h] = seen]
  BY DEF Access, InUse
<1>2. o \in Handle /\ o.id = handle[h].id /\ o.cls = handle[h].cls
  BY <1>1, AllocatedType, SettledType
<1> HIDE DEF o
<1>3. seen \in Handle /\ seen.id = handle[h].id /\ seen.cls = handle[h].cls
  BY <1>2, FieldChanged DEF States, Contents
<1> QED BY <1>1, <1>3, OneChanged DEF Access

\* Destroying an object changes states and contents only.
LEMMA DestroyNames ==
  ASSUME Inv, NEW h \in Handles, destroy_obj(h)
  PROVE  SameNames(handle, handle') /\ UNCHANGED <<slot, tangled>>
<1> DEFINE o == Settled(handle[h])
           updated == Updated([cls |-> o.cls, created |-> {}, modified |-> {},
                               removed |-> {o.id}], db')
<1>0. TypeOK
  BY DEF Inv
<1>1. h \in Allocated /\ UNCHANGED <<slot, tangled>>
  BY DEF destroy_obj, InUse
<1>2. o \in Handle /\ o.id = handle[h].id /\ o.cls = handle[h].cls
  BY <1>0, <1>1, AllocatedType, SettledType
<1>3. \/ handle' = [handle EXCEPT ![h] = o]
      \/ handle' = [updated EXCEPT ![h].state = "Deleted", ![h].content = "none"]
  BY DEF destroy_obj
<1>4. SameNames(handle, updated)
  BY <1>0, UpdatedType DEF Inv
<1> HIDE DEF o, updated
<1>5. CASE handle' = [handle EXCEPT ![h] = o]
  BY <1>0, <1>1, <1>2, <1>5, OneChanged
<1>6. CASE handle' = [updated EXCEPT ![h].state = "Deleted", ![h].content = "none"]
  <2> DEFINE gone == [updated[h] EXCEPT !.state = "Deleted", !.content = "none"]
  <2>1. updated[h] \in Handle /\ handle[h] # None /\ h \in Handles
    BY <1>1, <1>4 DEF SameNames, Allocated
  <2>2. gone \in Handle /\ gone.id = updated[h].id /\ gone.cls = updated[h].cls
    BY <2>1 DEF Handle, States, Contents
  <2>3. handle' = [updated EXCEPT ![h] = gone]
    BY <1>4, <1>6, <2>1 DEF SameNames
  <2> HIDE DEF gone
  <2>4. SameNames(handle, handle')
    BY <1>4, <2>1, <2>2, <2>3, ObjectAssumption DEF SameNames
  <2> QED BY <1>1, <2>4
<1> QED BY <1>3, <1>5, <1>6

\* A reload makes what some handles have read old.
LEMMA ReloadNames ==
  ASSUME TypeOK, NEW removed \in SUBSET Objects, NEW created \in SUBSET Objects,
         NEW modified \in SUBSET Objects, Reload(removed, created, modified)
  PROVE  SameNames(handle, handle') /\ UNCHANGED <<slot, tangled>>
<1> DEFINE Hit(h) == /\ h \in Allocated /\ handle[h].content = "current"
                     /\ <<handle[h].cls, handle[h].id>> \in removed \cup modified
<1>1. handle' = [h \in Handles |-> IF Hit(h) THEN [handle[h] EXCEPT !.content = "old"]
                                   ELSE handle[h]]
      /\ UNCHANGED <<slot, tangled>>
  BY DEF Reload
<1>2. \A h \in Handles : Hit(h) =>
         LET o == [handle[h] EXCEPT !.content = "old"] IN
         o \in Handle /\ o.id = handle[h].id /\ o.cls = handle[h].cls
  BY AllocatedType, FieldChanged DEF States, Contents
<1> HIDE DEF Hit
<1>3. \A h \in Handles : Hit(h) => handle[h] # None
  BY DEF Hit, Allocated
<1> QED BY <1>1, <1>2, <1>3, ObjectAssumption DEF SameNames, TypeOK

\* Each action keeps Inv; and, when replaced handles are not used, the names.
LEMMA NextStep ==
  ASSUME Inv, [Next]_vars
  PROVE  Inv' /\ (~UsesReplaced /\ Named /\ Listed => (Named /\ Listed)')
<1>0. WorldOK' /\ TypeOK
  BY WorldStep DEF Inv
<1>1. ASSUME NEW c \in Classes, NEW i \in Ids, get(c, i)
      PROVE  Inv' /\ (Named /\ Listed => (Named /\ Listed)')
  <2>1. db[i] \in Classes
    BY <1>0, <1>1, ObjectAssumption DEF get, TypeOK, Databases
  <2> QED BY <1>0, <1>1, <2>1, InsertStep DEF get
<1>2. ASSUME NEW c \in Classes, NEW i \in Ids, create(c, i)
      PROVE  Inv' /\ (Named /\ Listed => (Named /\ Listed)')
  BY <1>0, <1>2, InsertStep DEF create
<1>3. ASSUME NEW h \in Handles, Access(h)
      PROVE  SameNames(handle, handle') /\ UNCHANGED <<slot, tangled>>
  BY <1>0, <1>3, AccessNames
<1>4. ASSUME NEW h \in Handles, destroy_obj(h)
      PROVE  SameNames(handle, handle') /\ UNCHANGED <<slot, tangled>>
  BY <1>4, DestroyNames
<1>5. ASSUME NEW h \in Handles, NEW i \in Ids, rename_object(h, i)
      PROVE  Inv' /\ (~UsesReplaced /\ Named /\ Listed => (Named /\ Listed)')
  BY <1>0, <1>5, RenameStep
<1>6. CASE unread_implementation_objects
  BY <1>0, <1>6, ForgottenNames, SameNamesStep DEF unread_implementation_objects
<1>7. SameNames(handle, handle)
  BY <1>0 DEF SameNames, TypeOK
<1>8. CASE commit
  BY <1>0, <1>7, <1>8, SameNamesStep DEF commit
<1>9. CASE abort
  BY <1>0, <1>9, ForgottenNames, SameNamesStep DEF abort
<1>10. CASE unload
  <2>1. handle' = [h \in Handles |-> None] /\ tangled' = << >>
        /\ slot' = [c \in Classes |-> [i \in Ids |-> None]]
    BY <1>10 DEF unload
  <2>2. Allocated' = {} /\ Tangled' = {}
    BY <2>1 DEF Allocated, Tangled
  <2> QED BY <1>0, <2>1, <2>2 DEF Inv, TypeOK, WorldOK, Named, Listed
<1>11. ASSUME NEW removed \in SUBSET Objects, NEW created \in SUBSET Objects,
              NEW modified \in SUBSET Objects, Reload(removed, created, modified)
       PROVE  SameNames(handle, handle') /\ UNCHANGED <<slot, tangled>>
  BY <1>0, <1>11, ReloadNames
<1>12. CASE BeginUpdate
  BY <1>0, <1>7, <1>12, SameNamesStep DEF BeginUpdate
<1>13. ASSUME NEW ch \in pending, UpdateNext(ch)
       PROVE  SameNames(handle, handle') /\ UNCHANGED <<slot, tangled>>
  BY <1>0, <1>13, UpdatedType DEF UpdateNext, Inv
<1>14. CASE EndUpdate
  BY <1>0, <1>7, <1>14, SameNamesStep DEF EndUpdate
<1>15. CASE UNCHANGED vars
  BY <1>0, <1>7, <1>15, SameNamesStep DEF vars
<1> QED BY <1>0, <1>1, <1>2, <1>3, <1>4, <1>5, <1>6, <1>8, <1>9, <1>10, <1>11, <1>12,
           <1>13, <1>14, <1>15, SameNamesStep DEF Next

LEMMA InitInv == ASSUME Init PROVE Inv /\ Named /\ Listed
<1>1. Allocated = {} /\ Tangled = {}
  BY DEF Init, Allocated, Tangled
<1> QED BY <1>1 DEF Init, Inv, TypeOK, Named, Listed

\* Types: among others, no slot that update_cache() or clean() walks refers to
\* a handle that was deleted (ConfigurationImpl::clean, 375-392).
THEOREM TypeCorrect == Spec => [](TypeOK /\ Inv)
<1>1. Init => Inv
  BY InitInv
<1>2. Inv /\ [Next]_vars => Inv'
  BY NextStep
<1>3. Inv => TypeOK /\ Inv
  BY DEF Inv
<1> QED BY <1>1, <1>2, <1>3, PTL DEF Spec

\* A lookup by id finds the handle of the object with that id, through any
\* renames, removals, reloads and aborts, unless the client goes on using a
\* handle whose slot a rename gave away (rename_impl_object, 348-373).
THEOREM KeyCorrect == ASSUME ~UsesReplaced PROVE Spec => []KeyIsName
<1>1. Init => KeyInv
  BY InitInv DEF KeyInv
<1>2. KeyInv /\ [Next]_vars => KeyInv'
  BY NextStep DEF KeyInv
<1>3. KeyInv => KeyIsName
  BY DEF KeyInv, Named, KeyIsName
<1> QED BY <1>1, <1>2, <1>3, PTL DEF Spec
=============================================================================
