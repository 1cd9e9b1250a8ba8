--------------------------- MODULE ImplStatesProof ---------------------------
(***************************************************************************)
(* For any classes, ids and number of handles: every handle has one owner, *)
(* and a handle says no more than what is so when the client does not use  *)
(* a handle that a rename has replaced.  What it says of being deleted and *)
(* of content needs a client that does not write between a reload and its  *)
(* report; what it says of being valid, ids that do not move between       *)
(* related classes.                                                        *)
(***************************************************************************)
EXTENDS ImplObjectsProof, FiniteSetTheorems

----------------------------------------------------------------------------
(* Ownership.                                                              *)

\* No handle has two slots, two places in m_tangled_objects, or one of each;
\* and a handle without an owner is deleted.
OwnedInv ==
  /\ Inv
  /\ \A c, k \in Classes, i, j \in Ids :
        slot[c][i] # None /\ slot[c][i] = slot[k][j] => c = k /\ i = j
  /\ \A c \in Classes, i \in Ids : slot[c][i] # None => slot[c][i] \notin Tangled
  /\ \A m, n \in 1..Len(tangled) : tangled[m] = tangled[n] => m = n
  /\ \A h \in Allocated \ Tangled : \E c \in Classes, i \in Ids : slot[c][i] = h

\* A step that neither allocates nor moves a handle.
LEMMA SameOwners ==
  ASSUME OwnedInv, Inv', Allocated' = Allocated, UNCHANGED <<slot, tangled>>
  PROVE  OwnedInv'
<1>1. Tangled' = Tangled
  BY DEF Tangled
<1> QED BY <1>1 DEF OwnedInv

\* insert_object() puts a new handle in a free slot.
LEMMA InsertOwned ==
  ASSUME OwnedInv, Inv', NEW c \in Classes, NEW i \in Ids, insert_object(c, i),
         UNCHANGED tangled
  PROVE  OwnedInv'
<1> USE DEF OwnedInv
<1>0. TypeOK /\ Tangled' = Tangled
  BY DEF Inv, Tangled
<1>1. CASE \E h \in get_impl_object(c, i) :
             handle' = [handle EXCEPT ![h].state = "Valid"] /\ UNCHANGED slot
  <2>1. PICK h \in get_impl_object(c, i) :
          handle' = [handle EXCEPT ![h].state = "Valid"] /\ UNCHANGED slot
    BY <1>1
  <2>2. h \in Allocated
    BY ObjectAssumption DEF get_impl_object, Inv, TypeOK
  <2>3. handle[h] \in Handle /\ h \in Handles
    BY <1>0, <2>2, AllocatedType
  <2>4. [handle[h] EXCEPT !.state = "Valid"] # None
    BY <2>3, FieldChanged, ObjectAssumption DEF States, Contents
  <2>5. Allocated' = Allocated
    BY <1>0, <2>1, <2>2, <2>4 DEF Allocated, TypeOK
  <2> QED BY <2>1, <2>5, SameOwners
<1>2. CASE get_impl_object(c, i) = {} /\
           \E h \in Handles \ Allocated :
             /\ handle' = [handle EXCEPT ![h] =
                  [state |-> "Valid", id |-> i, cls |-> c, content |-> "none"]]
             /\ slot' = [slot EXCEPT ![c][i] = h]
  <2>1. PICK h \in Handles \ Allocated :
             /\ handle' = [handle EXCEPT ![h] =
                  [state |-> "Valid", id |-> i, cls |-> c, content |-> "none"]]
             /\ slot' = [slot EXCEPT ![c][i] = h]
    BY <1>2
  <2>2. \A k \in Classes, j \in Ids :
           slot'[k][j] = IF k = c /\ j = i THEN h ELSE slot[k][j]
    BY <1>0, <2>1 DEF TypeOK
  <2>3. Allocated' \subseteq Allocated \cup {h}
    BY <1>0, <2>1 DEF Allocated, TypeOK
  <2>4. slot[c][i] = None
    BY <1>2 DEF get_impl_object
  <2>5. \A k \in Classes, j \in Ids : slot[k][j] # h
    BY <2>1, ObjectAssumption DEF Inv
  <2>6. h \notin Tangled
    BY <2>1 DEF Inv
  <2>7. ASSUME NEW g \in Allocated' \ Tangled'
        PROVE  \E k \in Classes, j \in Ids : slot'[k][j] = g
    <3>1. CASE g = h
      BY <2>2, <3>1
    <3>2. CASE g # h
      <4>1. PICK k \in Classes, j \in Ids : slot[k][j] = g
        BY <1>0, <2>3, <2>7, <3>2
      <4>2. g # None
        BY <1>0, <2>3, <2>7, <3>2, AllocatedType
      <4> QED BY <2>2, <2>4, <4>1, <4>2
    <3> QED BY <3>1, <3>2
  <2>8. \A k, l \in Classes, j, m \in Ids :
           slot'[k][j] # None /\ slot'[k][j] = slot'[l][m] => k = l /\ j = m
    BY <2>2, <2>5
  <2>9. \A k \in Classes, j \in Ids : slot'[k][j] # None => slot'[k][j] \notin Tangled'
    BY <1>0, <2>2, <2>6
  <2> QED BY <2>7, <2>8, <2>9
<1> QED BY <1>1, <1>2 DEF insert_object

\* rename_impl_object() gives the handle it moves the slot of the one it
\* replaces, which goes to m_tangled_objects.
LEMMA RenameOwned ==
  ASSUME OwnedInv, Inv', Allocated' = Allocated, NEW c \in Classes, NEW old \in Ids,
         NEW new \in Ids, new # old, rename_impl_object(c, old, new)
  PROVE  OwnedInv'
<1> USE DEF OwnedInv
<1>0. TypeOK
  BY DEF Inv
<1>1. CASE slot[c][old] = None
  BY <1>1, SameOwners DEF rename_impl_object
<1>2. CASE slot[c][old] # None
  <2> DEFINE moved == slot[c][old]
             replaced == slot[c][new]
  <2>1. /\ slot' = [slot EXCEPT ![c][new] = moved, ![c][old] = None]
        /\ tangled' = IF replaced = None THEN tangled ELSE Append(tangled, replaced)
    BY <1>2 DEF rename_impl_object
  <2>2. \A k \in Classes, j \in Ids :
           slot'[k][j] = IF k = c /\ j = old THEN None
                         ELSE IF k = c /\ j = new THEN moved ELSE slot[k][j]
    BY <1>0, <2>1 DEF TypeOK
  <2>3. replaced # None => replaced \in Handles /\ replaced \notin Tangled
    BY DEF Inv, Allocated
  <2>4. Len(tangled) \in Nat /\ tangled \in Seq(Handles)
    BY <1>0 DEF TypeOK
  <2>5. CASE replaced = None
    <3>1. tangled' = tangled /\ Tangled' = Tangled
      BY <2>1, <2>5 DEF Tangled
    <3>2. \A k, l \in Classes, j, m \in Ids :
             slot'[k][j] # None /\ slot'[k][j] = slot'[l][m] => k = l /\ j = m
      BY <1>2, <2>2
    <3>3. \A k \in Classes, j \in Ids : slot'[k][j] # None => slot'[k][j] \notin Tangled'
      BY <1>2, <2>2, <3>1
    <3>4. ASSUME NEW g \in Allocated' \ Tangled'
          PROVE  \E k \in Classes, j \in Ids : slot'[k][j] = g
      <4>1. PICK k \in Classes, j \in Ids : slot[k][j] = g
        BY <3>1
      <4>2. g # None
        BY <1>0, AllocatedType
      <4>3. CASE k = c /\ j = old
        BY <2>2, <4>1, <4>3
      <4>4. CASE ~(k = c /\ j = old)
        BY <2>2, <2>5, <4>1, <4>2, <4>4
      <4> QED BY <4>3, <4>4
    <3> QED BY <3>1, <3>2, <3>3, <3>4
  <2>6. CASE replaced # None
    <3>1. /\ Tangled' = Tangled \cup {replaced}
          /\ 1..Len(tangled') = (1..Len(tangled)) \cup {Len(tangled) + 1}
          /\ tangled'[Len(tangled) + 1] = replaced
          /\ \A n \in 1..Len(tangled) : tangled'[n] = tangled[n]
      BY <2>1, <2>3, <2>4, <2>6, TangledAppended
    <3>3. Tangled' = Tangled \cup {replaced}
      BY <3>1
    <3>4. \A n \in 1..Len(tangled) : tangled[n] # replaced /\ n # Len(tangled) + 1
      BY <2>3, <2>4, <2>6 DEF Tangled
    <3>5. \A m, n \in 1..Len(tangled') : tangled'[m] = tangled'[n] => m = n
      BY <3>1, <3>4
    <3>6. moved # replaced
      BY <1>2
    <3>7. \A k, l \in Classes, j, m \in Ids :
             slot'[k][j] # None /\ slot'[k][j] = slot'[l][m] => k = l /\ j = m
      BY <1>2, <2>2
    <3>8. ASSUME NEW k \in Classes, NEW j \in Ids, slot'[k][j] # None
          PROVE  slot'[k][j] \notin Tangled'
      <4>1. CASE k = c /\ j = new
        BY <1>2, <2>2, <3>3, <3>6, <3>8, <4>1
      <4>2. CASE ~(k = c /\ j = new)
        <5>1. slot'[k][j] = slot[k][j] /\ slot[k][j] \notin Tangled
          BY <2>2, <3>8, <4>2
        <5>2. slot[k][j] # replaced
          BY <2>6, <4>2
        <5> QED BY <3>3, <5>1, <5>2
      <4> QED BY <4>1, <4>2
    <3>9. ASSUME NEW g \in Allocated' \ Tangled'
          PROVE  \E k \in Classes, j \in Ids : slot'[k][j] = g
      <4>1. PICK k \in Classes, j \in Ids : slot[k][j] = g
        BY <3>3
      <4>2. g # replaced
        BY <3>3
      <4>3. CASE k = c /\ j = old
        BY <2>2, <4>1, <4>3
      <4>4. CASE ~(k = c /\ j = old)
        BY <2>2, <4>1, <4>2, <4>4
      <4> QED BY <4>3, <4>4
    <3> QED BY <3>5, <3>7, <3>8, <3>9
  <2> QED BY <2>5, <2>6
<1> QED BY <1>1, <1>2

\* Renaming allocates nothing, and changes slots only through
\* rename_impl_object().
LEMMA RenameShape ==
  ASSUME Inv, NEW h \in Handles, NEW new \in Ids, rename_object(h, new)
  PROVE  /\ Allocated' = Allocated
         /\ \/ UNCHANGED <<slot, tangled>>
            \/ \E c \in Classes, old \in Ids \ {new} : rename_impl_object(c, old, new)
<1> DEFINE o == Settled(handle[h])
           replaced == IF slot[o.cls][o.id] = None THEN None ELSE slot[o.cls][new]
           renamed == [o EXCEPT !.id = new]
<1>1. TypeOK /\ h \in Allocated /\ handle[h] \in Handle
  BY AllocatedType DEF rename_object, InUse, Inv
<1>2. o \in Handle /\ o.cls \in Classes /\ o.id \in Ids
  <2>1. o \in Handle
    BY <1>1, SettledType
  <2> QED BY <2>1 DEF Handle
<1>3. new # o.id
  BY DEF rename_object
<1>4. CASE handle' = [handle EXCEPT ![h] = o] /\ UNCHANGED <<db, slot, tangled>>
  <2>1. o # None
    BY <1>2, ObjectAssumption
  <2> HIDE DEF o
  <2> QED BY <1>1, <1>4, <2>1 DEF Allocated, TypeOK
<1>5. CASE /\ rename_impl_object(o.cls, o.id, new)
           /\ handle' = [g \in Handles |->
                IF g = h THEN renamed
                ELSE IF g = replaced THEN [handle[g] EXCEPT !.state = "Unknown"]
                ELSE handle[g]]
  <2>1. renamed # None
    BY <1>2, ObjectAssumption DEF Handle
  <2>2. replaced # None => replaced \in Allocated
    BY <1>2 DEF Inv
  <2>3. ASSUME NEW g \in Handles, g = replaced
        PROVE  handle[g] # None /\ [handle[g] EXCEPT !.state = "Unknown"] # None
    <3>1. g \in Allocated
      BY <2>2, <2>3, ObjectAssumption
    <3>2. handle[g] \in Handle
      BY <1>1, <3>1, AllocatedType
    <3>3. [handle[g] EXCEPT !.state = "Unknown"] \in Handle
      BY <3>2, FieldChanged DEF States, Contents
    <3> QED BY <3>1, <3>3, ObjectAssumption DEF Allocated
  <2> HIDE DEF renamed, replaced
  <2>4. Allocated' = Allocated
    BY <1>1, <1>5, <2>1, <2>3 DEF Allocated
  <2> QED BY <1>2, <1>3, <1>5, <2>4
<1> QED BY <1>4, <1>5 DEF rename_object

LEMMA OwnedStep ==
  ASSUME OwnedInv, [Next]_vars
  PROVE  OwnedInv'
<1>0. Inv /\ Inv' /\ TypeOK
  BY NextStep DEF OwnedInv, Inv
<1>1. ASSUME NEW c \in Classes, NEW i \in Ids, get(c, i)
      PROVE  OwnedInv'
  <2>1. db[i] \in Classes
    BY <1>0, <1>1, ObjectAssumption DEF get, TypeOK, Databases
  <2> QED BY <1>0, <1>1, <2>1, InsertOwned DEF get
<1>2. ASSUME NEW c \in Classes, NEW i \in Ids, create(c, i)
      PROVE  OwnedInv'
  BY <1>0, <1>2, InsertOwned DEF create
<1>3. ASSUME SameNames(handle, handle'), UNCHANGED <<slot, tangled>>
      PROVE  OwnedInv'
  <2>1. Allocated' = Allocated
    BY <1>3 DEF SameNames, Allocated
  <2> QED BY <1>0, <1>3, <2>1, SameOwners
<1>4. SameNames(handle, handle)
  BY <1>0 DEF SameNames, TypeOK
<1>5. ASSUME NEW h \in Handles, Access(h) \/ destroy_obj(h)
      PROVE  OwnedInv'
  BY <1>0, <1>3, <1>5, AccessNames, DestroyNames
<1>6. ASSUME NEW h \in Handles, NEW i \in Ids, rename_object(h, i)
      PROVE  OwnedInv'
  BY <1>0, <1>6, RenameShape, RenameOwned, SameOwners
<1>7. CASE unread_implementation_objects \/ abort
  BY <1>0, <1>3, <1>7, ForgottenNames DEF unread_implementation_objects, abort
<1>8. CASE unload
  <2>1. slot' = [c \in Classes |-> [i \in Ids |-> None]] /\ tangled' = << >>
        /\ handle' = [h \in Handles |-> None]
    BY <1>8 DEF unload
  <2>2. Allocated' = {} /\ Tangled' = {} /\ Len(tangled') = 0
    BY <2>1 DEF Allocated, Tangled
  <2> QED BY <1>0, <2>1, <2>2 DEF OwnedInv
<1>9. ASSUME NEW removed \in SUBSET Objects, NEW created \in SUBSET Objects,
             NEW modified \in SUBSET Objects, Reload(removed, created, modified)
      PROVE  OwnedInv'
  BY <1>0, <1>3, <1>9, ReloadNames
<1>10. ASSUME NEW ch \in pending, UpdateNext(ch)
       PROVE  OwnedInv'
  BY <1>0, <1>3, <1>10, UpdatedType DEF UpdateNext, Inv
<1>11. CASE commit \/ BeginUpdate \/ EndUpdate \/ UNCHANGED vars
  BY <1>3, <1>4, <1>11 DEF commit, BeginUpdate, EndUpdate, vars
<1> QED BY <1>1, <1>2, <1>5, <1>6, <1>7, <1>8, <1>9, <1>10, <1>11 DEF Next

\* clean() walks m_impl_objects and m_tangled_objects and deletes what it
\* finds: it meets every handle exactly once (ConfigurationImpl::clean,
\* 375-392), whatever the client renames, the handles it should not use included.
THEOREM OwnedCorrect == Spec => []OwnedOnce
<1>1. Init => OwnedInv
  <2> SUFFICES ASSUME Init PROVE OwnedInv
    OBVIOUS
  <2>1. Allocated = {} /\ Tangled = {} /\ Inv
    BY InitInv DEF Init, Allocated, Tangled
  <2> QED BY <2>1 DEF Init, OwnedInv
<1>2. OwnedInv /\ [Next]_vars => OwnedInv'
  BY OwnedStep
<1>3. OwnedInv => OwnedOnce
  <2> SUFFICES ASSUME OwnedInv, NEW h \in Handles
               PROVE  Cardinality({p \in Classes \X Ids : slot[p[1]][p[2]] = h})
                        + Cardinality({n \in 1..Len(tangled) : tangled[n] = h})
                      = IF h \in Allocated THEN 1 ELSE 0
    BY DEF OwnedOnce
  <2> USE DEF OwnedInv
  <2> DEFINE S == {p \in Classes \X Ids : slot[p[1]][p[2]] = h}
             T == {n \in 1..Len(tangled) : tangled[n] = h}
  <2>0. h # None /\ Cardinality({}) = 0 /\ \A x : Cardinality({x}) = 1
    BY ObjectAssumption, FS_EmptySet, FS_Singleton
  <2>1. T # {} <=> h \in Tangled
    BY DEF Tangled
  <2>2. S # {} => h \in Allocated /\ h \notin Tangled
    BY <2>0 DEF Inv
  <2>3. ASSUME NEW p \in S
        PROVE  S = {p}
    BY <2>0, <2>3
  <2>4. ASSUME NEW n \in T
        PROVE  T = {n}
    BY <2>4
  <2>5. \A c \in Classes, i \in Ids : slot[c][i] = h => <<c, i>> \in S
    OBVIOUS
  <2> HIDE DEF S, T
  <2>6. CASE h \in Tangled
    <3>1. S = {} /\ h \in Allocated
      BY <2>2, <2>6 DEF Inv
    <3>2. PICK n \in T : TRUE
      BY <2>1, <2>6
    <3>3. T = {n}
      BY <2>4
    <3>4. Cardinality(S) = 0 /\ Cardinality(T) = 1
      BY <2>0, <3>1, <3>3
    <3> QED BY <3>1, <3>4 DEF S, T
  <2>7. CASE h \notin Tangled /\ h \in Allocated
    <3>1. PICK p \in S : TRUE
      BY <2>5, <2>7
    <3>2. S = {p} /\ T = {}
      BY <2>1, <2>3, <2>7
    <3>3. Cardinality(S) = 1 /\ Cardinality(T) = 0
      BY <2>0, <3>2
    <3> QED BY <2>7, <3>3 DEF S, T
  <2>8. CASE h \notin Allocated
    <3>1. S = {} /\ T = {}
      BY <2>1, <2>2, <2>8 DEF Inv
    <3>2. Cardinality(S) = 0 /\ Cardinality(T) = 0
      BY <2>0, <3>1
    <3> QED BY <2>8, <3>2 DEF S, T
  <2> QED BY <2>6, <2>7, <2>8
<1> QED BY <1>1, <1>2, <1>3, PTL DEF Spec

----------------------------------------------------------------------------
(* What a handle says of its object.                                       *)

\* No object of a class has the id of one of its super- or subclasses: an id
\* does not move along the inheritance.
StableClasses ==
  \A p, q \in Objects : p[2] = q[2] /\ Related(p[1], q[1]) => p[1] = q[1]

\* What the handle o says of its object is so in the database d (a lookup takes a
\* handle of a subclass for valid, whatever the class of the object), ...
Honest(o, d) ==
  /\ StableClasses /\ o.state = "Valid" => d[o.id] = o.cls
  /\ o.state = "Valid" => o.content # "old"
  /\ o.state = "Deleted" => d[o.id] # o.cls

\* ... and one that is not valid keeps nothing it has read.
Clean(o) == o.state # "Valid" => o.content = "none"

\* The objects a ConfigurationChange names.
Touched(ch) == ch.created \cup ch.modified \cup ch.removed

\* update_cache() has still to look at the object of o.
Concerned(o, changes) == \E ch \in changes : ch.cls = o.cls /\ o.id \in Touched(ch)

\* A change is about objects there can be, and the database shows it.
TrueChange(ch, d) ==
  /\ ch \in Change
  /\ \A i \in Touched(ch) : <<ch.cls, i>> \in Objects
  /\ \A i \in ch.removed : d[i] = None
  /\ \A i \in ch.modified : d[i] = ch.cls

Live == Allocated \ Tangled

\* Handles are of objects there can be, and those that were replaced are never
\* looked at again.
PlacedInv ==
  /\ \A h \in Allocated : <<handle[h].cls, handle[h].id>> \in Objects
  /\ \A h \in Tangled : handle[h].state = "Unknown"

\* And every handle in a slot is honest or about to be updated.
StateInv ==
  /\ \A h \in Allocated : <<handle[h].cls, handle[h].id>> \in Objects
  /\ \A h \in Tangled : handle[h].state = "Unknown"
  /\ \A h \in Live : /\ Clean(handle[h])
                     /\ Concerned(handle[h], pending) \/ Honest(handle[h], db)
  /\ \A ch \in pending : TrueChange(ch, db)

\* What p says is no worse than what o says of the same object.
Learns(o, p, d) ==
  /\ p.id = o.id /\ p.cls = o.cls
  /\ Clean(o) => Clean(p) /\ (Honest(o, d) => Honest(p, d))

----------------------------------------------------------------------------
(* What handles learn.                                                     *)

LEMMA LearnsTwice ==
  ASSUME NEW o, NEW p, NEW q, NEW d, Learns(o, p, d), Learns(p, q, d)
  PROVE  Learns(o, q, d)
BY DEF Learns

\* is_deleted(), the first read and a lookup of an object that exists are honest.
LEMMA SettledLearns ==
  ASSUME NEW o \in Handle
  PROVE  Learns(o, Settled(o), db) /\ Settled(o).state # "Unknown"
BY DEF Learns, Settled, reset, Clean, Honest, Handle, States, Contents

LEMMA ReadLearns ==
  ASSUME NEW o \in Handle, NEW d
  PROVE  Learns(o, IF o.state = "Valid" /\ o.content = "none"
                     THEN [o EXCEPT !.content = "current"] ELSE o, d)
BY DEF Learns, Clean, Honest, Handle, Contents

LEMMA FoundLearns ==
  ASSUME NEW o \in Handle, NEW d, StableClasses => d[o.id] = o.cls
  PROVE  Learns(o, [o EXCEPT !.state = "Valid"], d)
BY DEF Learns, Clean, Honest, Handle, States, Contents

\* A handle that knows nothing is honest about any database.
LEMMA ForgottenHonest ==
  ASSUME NEW o \in Handle, NEW d
  PROVE  LET p == [o EXCEPT !.state = "Unknown", !.content = "none"] IN
         /\ p.id = o.id /\ p.cls = o.cls /\ p.state = "Unknown"
         /\ Clean(p) /\ Honest(p, d) /\ Learns(o, p, d)
BY DEF Learns, Clean, Honest, Handle, States, Contents

\* update_impl_objects() makes the handle of a changed object honest.
LEMMA ApplyHonest ==
  ASSUME NEW o \in Handle, NEW ch, NEW d, StableClasses => o.cls = ch.cls,
         TrueChange(ch, d), o.id \in Touched(ch)
  PROVE  LET p == Apply(o, o.id, ch, d) IN Clean(p) /\ Honest(p, d)
<1> DEFINE Found(x) == [x EXCEPT !.state = IF d[x.id] = x.cls THEN "Valid" ELSE "Deleted",
                                 !.content = "none"]
           one == IF o.id \in ch.removed
                    THEN [o EXCEPT !.state = "Deleted", !.content = "none"] ELSE o
           two == IF o.id \in ch.created THEN Found(one) ELSE one
           last == [two EXCEPT !.content = "none"]
<1>1. \A x \in Handle : /\ Found(x) \in Handle /\ Found(x).id = x.id /\ Found(x).cls = x.cls
                        /\ Clean(Found(x)) /\ Honest(Found(x), d)
  BY DEF Handle, States, Contents, Clean, Honest
<1>2. /\ one \in Handle /\ one.id = o.id /\ one.cls = o.cls
      /\ o.id \in ch.removed => Clean(one) /\ Honest(one, d)
  BY ObjectAssumption DEF Handle, States, Contents, Clean, Honest, TrueChange
<1>3. /\ two \in Handle /\ two.id = o.id /\ two.cls = o.cls
      /\ o.id \in ch.created => Clean(two) /\ Honest(two, d)
      /\ o.id \notin ch.created => two = one
  BY <1>1, <1>2
<1> HIDE DEF two
<1>4. o.id \in ch.modified /\ two.state = "Valid" => Clean(last) /\ Honest(last, d)
  BY <1>3 DEF Handle, Contents, Clean, Honest, TrueChange
<1>5. Apply(o, o.id, ch, d) =
        IF o.id \notin ch.modified THEN two ELSE IF two.state # "Valid" THEN Found(two) ELSE last
  BY DEF Apply, two
<1> HIDE DEF Found, one, last
<1> QED BY <1>1, <1>2, <1>3, <1>4, <1>5 DEF Touched

\* ... and leaves the handle of any other object alone.
LEMMA ApplyOther ==
  ASSUME NEW o, NEW ch, NEW d, o.id \notin Touched(ch)
  PROVE  Apply(o, o.id, ch, d) = o
BY DEF Apply, Touched

\* update_cache() meets a handle at most under its own id.
LEMMA UpdatedLive ==
  ASSUME KeyInv, NEW ch, NEW d, NEW h \in Handles
  PROVE  Updated(ch, d)[h] = IF h \in Live /\ Related(handle[h].cls, ch.cls)
                               THEN Apply(handle[h], handle[h].id, ch, d) ELSE handle[h]
<1> DEFINE Hit == {i \in Ids : \E c \in Classes : Related(c, ch.cls) /\ slot[c][i] = h}
<1>1. h # None
  BY ObjectAssumption
<1>2. \A i \in Hit : h \in Live /\ i = handle[h].id /\ Related(handle[h].cls, ch.cls)
  BY <1>1 DEF KeyInv, Inv, Named, Live
<1>3. ASSUME h \in Live, Related(handle[h].cls, ch.cls)
      PROVE  handle[h].id \in Hit
  <2>1. handle[h] \in Handle
    BY <1>3, AllocatedType DEF KeyInv, Inv, Live
  <2>2. handle[h].id \in Ids /\ handle[h].cls \in Classes
    BY <2>1 DEF Handle
  <2> QED BY <1>3, <2>2 DEF KeyInv, Listed, Live
<1>4. Updated(ch, d)[h] = IF Hit = {} THEN handle[h]
                          ELSE Apply(handle[h], CHOOSE i \in Hit : TRUE, ch, d)
  BY DEF Updated
<1> HIDE DEF Hit
<1>5. CASE Hit = {}
  BY <1>3, <1>4, <1>5
<1>6. CASE Hit # {}
  <2>1. (CHOOSE i \in Hit : TRUE) \in Hit
    BY <1>6
  <2> QED BY <1>2, <1>4, <1>6, <2>1
<1> QED BY <1>5, <1>6

----------------------------------------------------------------------------
(* The steps.                                                              *)

\* A step in which handles only learn, and new ones are honest.
LEMMA LearnStep ==
  ASSUME StateInv, UNCHANGED <<db, pending>>, Tangled' = Tangled,
         \A h \in Tangled : handle'[h].state = "Unknown",
         \A h \in Allocated' :
            \/ h \in Allocated /\ Learns(handle[h], handle'[h], db)
            \/ /\ h \notin Allocated
               /\ <<handle'[h].cls, handle'[h].id>> \in Objects
               /\ Clean(handle'[h]) /\ Honest(handle'[h], db)
  PROVE  StateInv'
<1>1. ASSUME NEW h \in Allocated'
      PROVE  <<handle'[h].cls, handle'[h].id>> \in Objects
  BY <1>1 DEF StateInv, Learns
<1>2. ASSUME NEW h \in Live'
      PROVE  Clean(handle'[h]) /\ (Concerned(handle'[h], pending) \/ Honest(handle'[h], db))
  <2>1. CASE h \in Allocated /\ Learns(handle[h], handle'[h], db)
    <3>1. h \in Live
      BY <1>2, <2>1 DEF Live
    <3> QED BY <2>1, <3>1 DEF StateInv, Learns, Concerned
  <2> QED BY <1>2, <2>1 DEF Live
<1> QED BY <1>1, <1>2 DEF StateInv

\* A step after which no change is to be reported.
LEMMA WriteStep ==
  ASSUME pending' = {},
         \A h \in Allocated' : <<handle'[h].cls, handle'[h].id>> \in Objects,
         \A h \in Tangled' : handle'[h].state = "Unknown",
         \A h \in Live' : Clean(handle'[h]) /\ Honest(handle'[h], db')
  PROVE  StateInv'
BY DEF StateInv

\* Handles in use are in slots, and have the types of handles.
LEMMA UsedLive ==
  ASSUME ~UsesReplaced, KeyInv, NEW h, InUse(h)
  PROVE  h \in Live /\ handle[h] \in Handle /\ h \in Handles
BY AllocatedType DEF InUse, Live, KeyInv, Inv

\* insert_object() finds the one handle with the name, or one of a subclass if
\* there is none, or makes it.
LEMMA InsertShape ==
  ASSUME KeyInv, PlacedInv, NEW c \in Classes, NEW i \in Ids,
         <<c, i>> \in Objects, insert_object(c, i)
  PROVE  /\ \A h \in Allocated : h \in Allocated'
         /\ \A h \in Tangled : handle'[h] = handle[h]
         /\ \A h \in Allocated' :
              \/ /\ h \in Allocated /\ handle'[h] = handle[h]
                 /\ ~(h \in Live /\ handle[h].cls = c /\ handle[h].id = i)
              \/ /\ h \in Live /\ handle[h].id = i
                 /\ StableClasses => handle[h].cls = c
                 /\ handle'[h] = [handle[h] EXCEPT !.state = "Valid"]
              \/ /\ h \notin Allocated
                 /\ handle'[h] = [state |-> "Valid", id |-> i, cls |-> c, content |-> "none"]
<1>0. TypeOK /\ Inv /\ handle \in [Handles -> Handle \cup {None}]
  BY DEF KeyInv, Inv, TypeOK
<1>1. CASE \E h \in get_impl_object(c, i) :
             handle' = [handle EXCEPT ![h].state = "Valid"] /\ UNCHANGED slot
  <2>1. PICK h \in get_impl_object(c, i) : handle' = [handle EXCEPT ![h].state = "Valid"]
    BY <1>1
  <2>2. PICK k \in Classes : /\ slot[k][i] = h /\ slot[k][i] # None /\ Related(k, c)
                             /\ k # c => slot[c][i] = None
    BY ObjectAssumption DEF get_impl_object, Related
  <2>3. h \in Live /\ handle[h].id = i /\ handle[h].cls = k
    BY <1>0, <2>2 DEF KeyInv, Named, Inv, Live
  <2>4. ASSUME StableClasses PROVE k = c
    <3>1. <<k, i>> \in Objects
      BY <2>3 DEF PlacedInv, Live
    <3> QED BY <2>2, <2>4, <3>1 DEF StableClasses
  <2>5. h \in Handles /\ handle[h] \in Handle
    BY <1>0, <2>3, AllocatedType DEF Live
  <2>6. \A g \in Handles : handle'[g] = IF g = h THEN [handle[h] EXCEPT !.state = "Valid"]
                                         ELSE handle[g]
    BY <1>0, <2>1, <2>5
  <2>7. [handle[h] EXCEPT !.state = "Valid"] # None
    BY <2>5, FieldChanged, ObjectAssumption DEF States, Contents
  <2>8. \A g \in Live : handle[g].cls = c /\ handle[g].id = i => g = h
    <3>1. \A g \in Live : g # None
      BY <1>0, AllocatedType DEF Live
    <3> QED BY <2>2, <3>1 DEF KeyInv, Listed, Live
  <2>9. Allocated' = Allocated
    BY <2>3, <2>6, <2>7 DEF Allocated, Live
  <2>10. \A g \in Tangled : g \in Handles /\ g # h
    BY <1>0, <2>3 DEF Live, Inv, Allocated
  <2> QED BY <2>3, <2>4, <2>5, <2>6, <2>8, <2>9, <2>10 DEF Allocated
<1>2. CASE get_impl_object(c, i) = {} /\
           \E h \in Handles \ Allocated :
             /\ handle' = [handle EXCEPT ![h] =
                  [state |-> "Valid", id |-> i, cls |-> c, content |-> "none"]]
             /\ slot' = [slot EXCEPT ![c][i] = h]
  <2> DEFINE o == [state |-> "Valid", id |-> i, cls |-> c, content |-> "none"]
  <2>1. PICK h \in Handles \ Allocated : handle' = [handle EXCEPT ![h] = o]
    BY <1>2
  <2>2. o # None
    BY ObjectAssumption DEF Handle, States, Contents
  <2> HIDE DEF o
  <2>3. \A g \in Handles : handle'[g] = IF g = h THEN o ELSE handle[g]
    BY <1>0, <2>1
  <2>4. Allocated' = Allocated \cup {h}
    BY <2>1, <2>2, <2>3 DEF Allocated
  <2>5. slot[c][i] = None
    BY <1>2 DEF get_impl_object
  <2>6. \A g \in Live : ~(handle[g].cls = c /\ handle[g].id = i)
    <3>1. \A g \in Live : g # None
      BY <1>0, AllocatedType DEF Live
    <3> QED BY <2>5, <3>1 DEF KeyInv, Listed, Live
  <2>7. \A g \in Tangled : g \in Handles /\ g # h
    BY <1>0, <2>1 DEF Inv, Allocated
  <2> QED BY <2>1, <2>3, <2>4, <2>6, <2>7 DEF Allocated, o
<1> QED BY <1>1, <1>2 DEF insert_object

LEMMA GetStep ==
  ASSUME KeyInv, StateInv, NEW c \in Classes, NEW i \in Ids, get(c, i)
  PROVE  StateInv'
<1>1. db[i] \in Classes /\ <<db[i], i>> \in Objects
  BY ObjectAssumption DEF get, KeyInv, Inv, TypeOK, Databases
<1>2. insert_object(db[i], i) /\ UNCHANGED <<db, tangled, pending>>
  BY DEF get
<1>3. ASSUME NEW h \in Live, StableClasses => handle[h].cls = db[i], handle[h].id = i
      PROVE  Learns(handle[h], [handle[h] EXCEPT !.state = "Valid"], db)
  BY <1>3, AllocatedType, FoundLearns DEF KeyInv, Inv, Live
<1>4. LET o == [state |-> "Valid", id |-> i, cls |-> db[i], content |-> "none"] IN
      Clean(o) /\ Honest(o, db)
  BY DEF Clean, Honest
<1>5. \A o : Learns(o, o, db)
  BY DEF Learns
<1>6. Tangled' = Tangled /\ \A h \in Tangled : handle'[h].state = "Unknown"
  BY <1>1, <1>2, InsertShape DEF StateInv, PlacedInv, Tangled
<1>7. ASSUME NEW h \in Allocated'
      PROVE  \/ h \in Allocated /\ Learns(handle[h], handle'[h], db)
             \/ /\ h \notin Allocated
                /\ <<handle'[h].cls, handle'[h].id>> \in Objects
                /\ Clean(handle'[h]) /\ Honest(handle'[h], db)
  <2> DEFINE o == [state |-> "Valid", id |-> i, cls |-> db[i], content |-> "none"]
  <2>1. \/ h \in Allocated /\ handle'[h] = handle[h]
        \/ /\ h \in Live /\ handle[h].id = i
           /\ StableClasses => handle[h].cls = db[i]
           /\ handle'[h] = [handle[h] EXCEPT !.state = "Valid"]
        \/ h \notin Allocated /\ handle'[h] = o
    BY <1>1, <1>2, InsertShape DEF StateInv, PlacedInv
  <2>2. o.cls = db[i] /\ o.id = i
    OBVIOUS
  <2> HIDE DEF o
  <2>3. h \in Live => h \in Allocated
    BY DEF Live
  <2> QED BY <1>1, <1>3, <1>4, <1>5, <2>1, <2>2, <2>3 DEF o
<1> QED BY <1>2, <1>6, <1>7, LearnStep

LEMMA CreateStep ==
  ASSUME ~WritesWhileNotified, KeyInv, StateInv, NEW c \in Classes, NEW i \in Ids,
         create(c, i)
  PROVE  StateInv'
<1>1. /\ <<c, i>> \in Objects /\ db[i] = None /\ db' = [db EXCEPT ![i] = c]
      /\ insert_object(c, i) /\ tangled' = tangled /\ pending = {} /\ pending' = {}
  BY DEF create, MayWrite, KeyInv, Inv, TypeOK
<1>2. db'[i] = c /\ \A j \in Ids \ {i} : db'[j] = db[j]
  BY <1>1 DEF KeyInv, Inv, TypeOK, Databases
<1>3. \A h \in Live : Clean(handle[h]) /\ Honest(handle[h], db) /\ handle[h] \in Handle
  BY <1>1, AllocatedType DEF StateInv, Concerned, KeyInv, Inv, Live
<1>4. Tangled' = Tangled /\ \A h \in Tangled : handle'[h].state = "Unknown"
  BY <1>1, InsertShape DEF StateInv, PlacedInv, Tangled
<1>5. ASSUME NEW h \in Allocated'
      PROVE  /\ <<handle'[h].cls, handle'[h].id>> \in Objects
             /\ h \notin Tangled => Clean(handle'[h]) /\ Honest(handle'[h], db')
  <2>1. CASE /\ h \in Allocated /\ handle'[h] = handle[h]
             /\ ~(h \in Live /\ handle[h].cls = c /\ handle[h].id = i)
    <3>1. ASSUME h \notin Tangled
          PROVE  Clean(handle[h]) /\ Honest(handle[h], db')
      <4>1. h \in Live /\ handle[h].id \in Ids /\ handle[h].cls \in Classes
        BY <1>3, <2>1, <3>1 DEF Live, Handle
      <4>2. c # None /\ handle[h].cls # None
        BY <4>1, ObjectAssumption
      <4> QED BY <1>1, <1>2, <1>3, <2>1, <4>1, <4>2 DEF Honest
    <3> QED BY <2>1, <3>1 DEF StateInv
  <2>2. CASE /\ h \in Live /\ handle[h].id = i
             /\ StableClasses => handle[h].cls = c
             /\ handle'[h] = [handle[h] EXCEPT !.state = "Valid"]
    <3>1. handle[h] \in Handle /\ handle[h].content # "old"
      BY <1>3, <2>2 DEF Clean, Honest
    <3>2. /\ handle'[h].state = "Valid" /\ handle'[h].content = handle[h].content
          /\ handle'[h].cls = handle[h].cls /\ handle'[h].id = i
      BY <2>2, <3>1 DEF Handle
    <3>3. <<handle[h].cls, i>> \in Objects
      BY <2>2 DEF StateInv, Live
    <3> QED BY <1>2, <2>2, <3>1, <3>2, <3>3 DEF Clean, Honest
  <2>3. CASE handle'[h] = [state |-> "Valid", id |-> i, cls |-> c, content |-> "none"]
    BY <1>1, <1>2, <2>3 DEF Clean, Honest
  <2> QED BY <1>1, <2>1, <2>2, <2>3, InsertShape DEF StateInv, PlacedInv
<1> QED BY <1>1, <1>4, <1>5, WriteStep DEF Live

\* One handle learns; the others and the database stay.
LEMMA OneLearns ==
  ASSUME KeyInv, StateInv, NEW h \in Live, NEW o, Learns(handle[h], o, db), o # None,
         handle' = [handle EXCEPT ![h] = o], UNCHANGED <<db, pending, tangled>>
  PROVE  StateInv'
<1>1. handle \in [Handles -> Handle \cup {None}] /\ h \in Handles /\ h \in Allocated
  BY DEF KeyInv, Inv, TypeOK, Live, Allocated
<1>2. Tangled' = Tangled /\ Allocated' = Allocated
  BY <1>1 DEF Tangled, Allocated
<1>3. \A g \in Tangled : handle'[g].state = "Unknown"
  BY <1>1 DEF StateInv, Live, KeyInv, Inv, Allocated
<1>4. \A p : Learns(p, p, db)
  BY DEF Learns
<1>5. \A g \in Allocated' : g \in Allocated /\ Learns(handle[g], handle'[g], db)
  BY <1>1, <1>2, <1>4 DEF Allocated
<1> QED BY <1>2, <1>3, <1>5, LearnStep

LEMMA AccessStep ==
  ASSUME ~UsesReplaced, KeyInv, StateInv, NEW h \in Handles, Access(h)
  PROVE  StateInv'
<1> DEFINE o == Settled(handle[h])
           seen == IF o.state = "Valid" /\ o.content = "none"
                     THEN [o EXCEPT !.content = "current"] ELSE o
<1>1. h \in Live /\ handle[h] \in Handle
  BY UsedLive DEF Access
<1>2. handle' = [handle EXCEPT ![h] = seen] /\ UNCHANGED <<db, pending, tangled>>
  BY DEF Access
<1>3. o \in Handle /\ Learns(handle[h], o, db)
  BY <1>1, SettledType, SettledLearns
<1> HIDE DEF o
<1>4. seen \in Handle /\ Learns(o, seen, db)
  BY <1>3, ReadLearns, FieldChanged DEF States, Contents
<1>5. Learns(handle[h], seen, db) /\ seen # None
  BY <1>3, <1>4, LearnsTwice, ObjectAssumption
<1> HIDE DEF seen
<1> QED BY <1>1, <1>2, <1>5, OneLearns

LEMMA DestroyStep ==
  ASSUME ~UsesReplaced, ~WritesWhileNotified, KeyInv, StateInv,
         NEW h \in Handles, destroy_obj(h)
  PROVE  StateInv'
<1> DEFINE o == Settled(handle[h])
           ch == [cls |-> o.cls, created |-> {}, modified |-> {}, removed |-> {o.id}]
           updated == Updated(ch, db')
<1>1. /\ h \in Live /\ handle[h] \in Handle /\ pending = {}
      /\ UNCHANGED <<pending, slot, tangled>>
  BY UsedLive DEF destroy_obj, MayWrite, KeyInv, Inv, TypeOK
<1>2. o \in Handle /\ Learns(handle[h], o, db) /\ o # None
  BY <1>1, SettledType, SettledLearns, ObjectAssumption
<1>3. CASE o.state = "Deleted"
  <2>1. handle' = [handle EXCEPT ![h] = o] /\ UNCHANGED db
    BY <1>3 DEF destroy_obj
  <2> QED BY <1>1, <1>2, <2>1, OneLearns
<1>4. CASE o.state # "Deleted"
  <2>1. /\ db[o.id] = o.cls /\ db' = [db EXCEPT ![o.id] = None]
        /\ handle' = [updated EXCEPT ![h].state = "Deleted", ![h].content = "none"]
    BY <1>4 DEF destroy_obj
  <2>2. o.id = handle[h].id /\ o.cls = handle[h].cls /\ o.id \in Ids /\ o.cls \in Classes
    BY <1>2 DEF Learns, Handle
  <2>3. db'[o.id] = None /\ \A j \in Ids \ {o.id} : db'[j] = db[j]
    BY <2>1, <2>2 DEF KeyInv, Inv, TypeOK, Databases
  <2>4. SameNames(handle, updated)
    BY UpdatedType DEF KeyInv, Inv
  <2>5. \A g \in Live : Clean(handle[g]) /\ Honest(handle[g], db) /\ handle[g] \in Handle
    BY <1>1, AllocatedType DEF StateInv, Concerned, KeyInv, Inv, Live
  <2>6. ASSUME NEW g \in Live, g # h
        PROVE  Clean(updated[g]) /\ Honest(updated[g], db')
    <3>1. g \in Handles /\ handle[g].id \in Ids /\ handle[g].cls \in Classes /\ handle[g].cls # None
      BY <2>5, ObjectAssumption DEF Handle, Live, Allocated
    <3>2. ~(handle[g].id = o.id /\ handle[g].cls = o.cls)
      BY <1>1, <2>2, <2>6 DEF KeyInv, Listed, Live
    <3>3. Honest(handle[g], db')
      BY <2>1, <2>3, <2>5, <3>1, <3>2 DEF Honest
    <3>4. updated[g] = IF Related(handle[g].cls, o.cls)
                         THEN Apply(handle[g], handle[g].id, ch, db') ELSE handle[g]
      BY <2>6, <3>1, UpdatedLive
    <3>5. CASE handle[g].id # o.id
      <4>1. Apply(handle[g], handle[g].id, ch, db') = handle[g]
        BY <3>5, ApplyOther DEF Touched
      <4> QED BY <2>5, <3>3, <3>4, <4>1
    <3>6. CASE handle[g].id = o.id
      <4>1. Apply(handle[g], handle[g].id, ch, db')
              = [handle[g] EXCEPT !.state = "Deleted", !.content = "none"]
        BY <3>6 DEF Apply
      <4>2. LET p == [handle[g] EXCEPT !.state = "Deleted", !.content = "none"] IN
            Clean(p) /\ Honest(p, db')
        BY <2>3, <2>5, <3>1, <3>6 DEF Clean, Honest, Handle
      <4> QED BY <2>5, <3>3, <3>4, <4>1, <4>2
    <3> QED BY <3>5, <3>6
  <2>7. \A g \in Tangled : g \in Handles /\ g # h /\ updated[g] = handle[g]
    <3>1. \A g \in Tangled : g \in Handles /\ g \notin Live
      BY DEF KeyInv, Inv, Allocated, Live
    <3> QED BY <1>1, <3>1, UpdatedLive
  <2>8. updated[h] \in Handle /\ updated[h].id = o.id /\ updated[h].cls = o.cls
    BY <1>1, <2>2, <2>4 DEF SameNames, Live, Allocated
  <2>9. /\ Allocated' = Allocated /\ Tangled' = Tangled
        /\ \A g \in Allocated : handle'[g].id = handle[g].id /\ handle'[g].cls = handle[g].cls
    BY DestroyNames DEF SameNames, Allocated, Tangled, KeyInv
  <2> DEFINE gone == [updated[h] EXCEPT !.state = "Deleted", !.content = "none"]
  <2>10. /\ gone.id = o.id /\ gone.cls = o.cls /\ Clean(gone) /\ gone.state = "Deleted"
    BY <2>8 DEF Clean, Handle, States, Contents
  <2>11. \A g \in Handles : handle'[g] = IF g = h THEN gone ELSE updated[g]
    BY <2>1, <2>4, <2>8 DEF SameNames
  <2> HIDE DEF gone, updated, o
  <2>12. Honest(gone, db')
    BY <2>2, <2>3, <2>10, ObjectAssumption DEF Honest
  <2>13. \A g \in Allocated : g \in Handles
    BY DEF Allocated
  <2>14. \A g \in Live' : Clean(handle'[g]) /\ Honest(handle'[g], db')
    BY <2>5, <2>6, <2>9, <2>10, <2>11, <2>12, <2>13 DEF Live
  <2>15. \A g \in Tangled' : handle'[g].state = "Unknown"
    BY <2>7, <2>9, <2>11 DEF StateInv
  <2>16. \A g \in Allocated' : <<handle'[g].cls, handle'[g].id>> \in Objects
    BY <2>9 DEF StateInv
  <2> QED BY <1>1, <2>14, <2>15, <2>16, WriteStep
<1> QED BY <1>3, <1>4

\* rename_object() with an honest handle moves its object, and sets the handle
\* that had the new name aside.
LEMMA RenameMoves ==
  ASSUME ~UsesReplaced, KeyInv, PlacedInv, NEW h \in Handles, NEW new \in Ids,
         rename_object(h, new)
  PROVE  LET o == Settled(handle[h]) IN
         /\ h \in Live /\ o \in Handle
         /\ \/ handle' = [handle EXCEPT ![h] = o] /\ UNCHANGED <<db, tangled>>
            \/ /\ o.state = "Valid" /\ new # o.id /\ db[new] = None /\ db[o.id] = o.cls
               /\ db'[o.id] = None /\ db'[new] = o.cls
               /\ \A j \in Ids \ {o.id, new} : db'[j] = db[j]
               /\ PlacedInv'
               /\ \A g \in Live' :
                    /\ g \in Live /\ handle[g] \in Handle
                    /\ \/ g = h /\ handle'[g] = [o EXCEPT !.id = new]
                       \/ /\ g # h /\ handle'[g] = handle[g]
                          /\ ~(handle[g].cls = o.cls /\ handle[g].id \in {o.id, new})
<1> DEFINE o == Settled(handle[h])
           old == slot[o.cls][o.id]
           replaced == IF old = None THEN None ELSE slot[o.cls][new]
           renamed == [o EXCEPT !.id = new]
<1>1. /\ h \in Live /\ handle[h] \in Handle /\ new # o.id /\ <<o.cls, new>> \in Objects
  BY UsedLive DEF rename_object
<1>2. /\ o \in Handle /\ o # None /\ o.state # "Unknown"
      /\ o.id = handle[h].id /\ o.cls = handle[h].cls /\ o.id \in Ids /\ o.cls \in Classes
  <2>1. o \in Handle /\ o.id = handle[h].id /\ o.cls = handle[h].cls /\ o.state # "Unknown"
    BY <1>1, SettledType, SettledLearns
  <2> QED BY <2>1, ObjectAssumption DEF Handle
<1>3. \A g \in Live : handle[g] \in Handle
  BY AllocatedType DEF KeyInv, Inv, Live
<1>4. old = h /\ h # None /\ replaced = slot[o.cls][new]
  BY <1>1, <1>2, ObjectAssumption DEF KeyInv, Listed, Live
<1>5. CASE o.state = "Deleted" \/ db[new] # None
  <2>1. handle' = [handle EXCEPT ![h] = o] /\ UNCHANGED <<db, tangled>>
    BY <1>5 DEF rename_object
  <2> QED BY <1>1, <1>2, <2>1
<1>6. CASE ~(o.state = "Deleted" \/ db[new] # None)
  <2>1. /\ db[o.id] = o.cls /\ db[new] = None /\ o.state = "Valid"
        /\ db' = [db EXCEPT ![o.id] = None, ![new] = o.cls]
        /\ rename_impl_object(o.cls, o.id, new)
        /\ handle' = [g \in Handles |->
             IF g = h THEN renamed
             ELSE IF g = replaced THEN [handle[g] EXCEPT !.state = "Unknown"]
             ELSE handle[g]]
    BY <1>2, <1>6 DEF rename_object, Handle, States
  <2>2. /\ db'[o.id] = None /\ db'[new] = o.cls
        /\ \A j \in Ids \ {o.id, new} : db'[j] = db[j]
    BY <1>1, <1>2, <2>1 DEF KeyInv, Inv, TypeOK, Databases
  <2>3. Tangled' = IF replaced = None THEN Tangled ELSE Tangled \cup {replaced}
    <3>1. tangled' = IF replaced = None THEN tangled ELSE Append(tangled, replaced)
      BY <1>4, <2>1 DEF rename_impl_object
    <3>2. tangled \in Seq(Handles) /\ replaced \in Handles \cup {None}
      BY <1>2, <1>4 DEF KeyInv, Inv, TypeOK
    <3>3. CASE replaced = None
      BY <3>1, <3>3 DEF Tangled
    <3>4. CASE replaced # None
      BY <3>1, <3>2, <3>4, TangledAppended
    <3> QED BY <3>3, <3>4
  <2>4. Allocated' = Allocated
    BY RenameShape DEF KeyInv
  <2>5. renamed.cls = o.cls /\ renamed.id = new
    BY <1>2 DEF Handle
  <2> HIDE DEF o, old, replaced, renamed
  <2>6. \A g \in Allocated : g \in Handles /\ g # None
    BY ObjectAssumption DEF Allocated
  <2>7. \A g \in Handles :
           /\ g = h => handle'[g] = renamed
           /\ g # h /\ g = replaced => handle'[g] = [handle[g] EXCEPT !.state = "Unknown"]
           /\ g # h /\ g # replaced => handle'[g] = handle[g]
    BY <2>1
  <2>8. ASSUME NEW g \in Live'
        PROVE  /\ g \in Live /\ handle[g] \in Handle
               /\ \/ g = h /\ handle'[g] = renamed
                  \/ /\ g # h /\ handle'[g] = handle[g]
                     /\ ~(handle[g].cls = o.cls /\ handle[g].id \in {o.id, new})
    <3>1. g \in Live /\ g # replaced /\ g \in Handles
      BY <2>3, <2>4, <2>6 DEF Live
    <3>2. slot[handle[g].cls][handle[g].id] = g
      BY <3>1 DEF KeyInv, Listed, Live
    <3> QED BY <1>3, <1>4, <2>7, <3>1, <3>2 DEF old
  <2>9. ASSUME NEW g \in Tangled'
        PROVE  handle'[g].state = "Unknown"
    <3>1. g \in Allocated /\ g \in Handles /\ handle[g] \in Handle
      BY <1>2, <1>4, <2>3, AllocatedType DEF KeyInv, Inv, Allocated
    <3>2. g # h
      BY <1>1, <1>2, <1>4, <2>3 DEF KeyInv, Named, Live
    <3>3. CASE g = replaced
      BY <2>7, <3>1, <3>2, <3>3 DEF Handle, States
    <3>4. CASE g # replaced
      BY <2>3, <2>7, <3>1, <3>2, <3>4 DEF PlacedInv
    <3> QED BY <3>3, <3>4
  <2>10. ASSUME NEW g \in Allocated'
         PROVE  <<handle'[g].cls, handle'[g].id>> \in Objects
    <3>1. g \in Allocated /\ g \in Handles /\ handle[g] \in Handle
      BY <2>4, AllocatedType DEF KeyInv, Inv
    <3>2. <<handle[g].cls, handle[g].id>> \in Objects
      BY <3>1 DEF PlacedInv
    <3>3. [handle[g] EXCEPT !.state = "Unknown"].cls = handle[g].cls
          /\ [handle[g] EXCEPT !.state = "Unknown"].id = handle[g].id
      BY <3>1 DEF Handle
    <3> QED BY <1>1, <2>5, <2>7, <3>1, <3>2, <3>3
  <2>11. PlacedInv'
    BY <2>9, <2>10 DEF PlacedInv
  <2> QED BY <1>1, <1>2, <2>1, <2>2, <2>8, <2>11 DEF o, renamed
<1> QED BY <1>5, <1>6

LEMMA RenameHonest ==
  ASSUME ~UsesReplaced, ~WritesWhileNotified, KeyInv, StateInv,
         NEW h \in Handles, NEW new \in Ids, rename_object(h, new)
  PROVE  StateInv'
<1> DEFINE o == Settled(handle[h])
           renamed == [o EXCEPT !.id = new]
<1>1. pending = {} /\ pending' = {} /\ PlacedInv
  BY DEF rename_object, MayWrite, KeyInv, Inv, TypeOK, StateInv, PlacedInv
<1>2. h \in Live /\ o \in Handle /\ o # None /\ Learns(handle[h], o, db)
  <2>1. h \in Live /\ handle[h] \in Handle
    BY UsedLive DEF rename_object
  <2> QED BY <2>1, SettledType, SettledLearns, ObjectAssumption
<1>3. \A g \in Live : Clean(handle[g]) /\ Honest(handle[g], db)
  BY <1>1 DEF StateInv, Concerned
<1>4. CASE handle' = [handle EXCEPT ![h] = o] /\ UNCHANGED <<db, tangled>>
  BY <1>1, <1>2, <1>4, OneLearns
<1>5. CASE ~(handle' = [handle EXCEPT ![h] = o] /\ UNCHANGED <<db, tangled>>)
  <2>1. /\ o.state = "Valid" /\ db[new] = None /\ db[o.id] = o.cls
        /\ db'[o.id] = None /\ db'[new] = o.cls
        /\ \A j \in Ids \ {o.id, new} : db'[j] = db[j]
        /\ PlacedInv'
        /\ \A g \in Live' :
             /\ g \in Live /\ handle[g] \in Handle
             /\ \/ g = h /\ handle'[g] = renamed
                \/ /\ g # h /\ handle'[g] = handle[g]
                   /\ ~(handle[g].cls = o.cls /\ handle[g].id \in {o.id, new})
    BY <1>1, <1>5, RenameMoves
  <2>2. Clean(renamed) /\ Honest(renamed, db')
    <3>1. o.content # "old"
      BY <1>2, <1>3, <2>1 DEF Learns, Honest
    <3>2. /\ renamed.state = o.state /\ renamed.content = o.content
          /\ renamed.cls = o.cls /\ renamed.id = new
      BY <1>2 DEF Handle
    <3> QED BY <2>1, <3>1, <3>2 DEF Clean, Honest
  <2> HIDE DEF o, renamed
  <2>3. ASSUME NEW g \in Live'
        PROVE  Clean(handle'[g]) /\ Honest(handle'[g], db')
    <3>1. CASE handle'[g] = renamed
      BY <2>2, <3>1
    <3>2. CASE /\ handle'[g] = handle[g] /\ g \in Live /\ handle[g] \in Handle
               /\ ~(handle[g].cls = o.cls /\ handle[g].id \in {o.id, new})
      <4>1. handle[g].id \in Ids /\ handle[g].cls # None
        BY <3>2, ObjectAssumption DEF Handle
      <4> QED BY <1>3, <2>1, <3>2, <4>1 DEF Honest
    <3> QED BY <2>1, <3>1, <3>2
  <2> QED BY <1>1, <2>1, <2>3, WriteStep DEF PlacedInv
<1> QED BY <1>4, <1>5

\* What a reload reports is what it did to the database.
LEMMA ReloadStep ==
  ASSUME KeyInv, StateInv, NEW removed \in SUBSET Objects, NEW created \in SUBSET Objects,
         NEW modified \in SUBSET Objects, Reload(removed, created, modified), Inv'
  PROVE  StateInv'
<1> DEFINE Of(S, c) == {p[2] : p \in {q \in S : q[1] = c}}
           all == removed \cup created \cup modified
           change(c) == [cls |-> c, created |-> Of(created, c), modified |-> Of(modified, c),
                         removed |-> Of(removed, c)]
<1>1. /\ pending = {} /\ removed \cap modified = {}
      /\ \A p \in removed \cup modified : db[p[2]] = p[1]
      /\ \A p \in created : db[p[2]] = None
      /\ \A p, q \in created : p[2] = q[2] => p = q
      /\ pending' = {change(c) : c \in {p[1] : p \in all}}
      /\ tangled' = tangled
  BY DEF Reload, KeyInv, Inv, TypeOK
<1>2. \A p \in all : p \in Objects /\ p = <<p[1], p[2]>> /\ p[1] \in Classes /\ p[2] \in Ids
                     /\ p[1] # None
  BY ObjectAssumption
<1>3. \A i \in Ids :
        /\ \A p \in created : p[2] = i => db'[i] = p[1]
        /\ (\A p \in created : p[2] # i) =>
             db'[i] = IF \E p \in removed : p[2] = i THEN None ELSE db[i]
  <2>1. db' = [i \in Ids |->
          IF \E p \in created : p[2] = i THEN (CHOOSE p \in created : p[2] = i)[1]
          ELSE IF \E p \in removed : p[2] = i THEN None ELSE db[i]]
    BY DEF Reload
  <2>2. \A i \in Ids : \A p \in created :
           p[2] = i => (CHOOSE q \in created : q[2] = i) = p
    BY <1>1
  <2> QED BY <2>1, <2>2
<1>4. \A S, c, i : S \subseteq Objects => (i \in Of(S, c) <=> <<c, i>> \in S)
  <2>1. ASSUME NEW S, NEW c, NEW i, S \subseteq Objects
        PROVE  i \in Of(S, c) <=> <<c, i>> \in S
    <3>1. \A p \in S : p = <<p[1], p[2]>>
      BY <2>1, ObjectAssumption
    <3> QED BY <3>1
  <2> QED BY <2>1
<1>5. ASSUME NEW c
      PROVE  /\ change(c).cls = c
             /\ \A i : /\ i \in change(c).created <=> <<c, i>> \in created
                       /\ i \in change(c).modified <=> <<c, i>> \in modified
                       /\ i \in change(c).removed <=> <<c, i>> \in removed
                       /\ i \in Touched(change(c)) <=> <<c, i>> \in all
  BY <1>4 DEF Touched
<1> HIDE DEF change, Of
<1>6. ASSUME NEW ch \in pending'
      PROVE  TrueChange(ch, db')
  <2>1. PICK c : ch = change(c)
    BY <1>1
  <2>2. ch \in Change
    BY DEF Inv, TypeOK
  <2>3. \A i \in Touched(ch) : <<ch.cls, i>> \in Objects
    BY <1>2, <1>5, <2>1
  <2>4. ASSUME NEW i \in ch.removed
        PROVE  db'[i] = None
    <3> DEFINE p == <<c, i>>
    <3>1. p \in removed /\ ch.cls = c /\ db[i] = c /\ c # None /\ i \in Ids
      BY <1>1, <1>2, <1>5, <2>1
    <3>2. \A q \in created : q[2] # i
      BY <1>1, <3>1
    <3>3. \E q \in removed : q[2] = i
      BY <3>1
    <3> QED BY <1>3, <3>1, <3>2, <3>3
  <2>5. ASSUME NEW i \in ch.modified
        PROVE  db'[i] = ch.cls
    <3> DEFINE p == <<c, i>>
    <3>1. p \in modified /\ ch.cls = c /\ db[i] = c /\ c # None /\ i \in Ids
      BY <1>1, <1>2, <1>5, <2>1
    <3>2. \A q \in created : q[2] # i
      BY <1>1, <3>1
    <3>3. \A q \in removed : q[2] # i
      <4> SUFFICES ASSUME NEW q \in removed, q[2] = i
                   PROVE  FALSE
        OBVIOUS
      <4>1. q[1] = c /\ q = <<q[1], q[2]>>
        BY <1>1, <1>2, <3>1
      <4> QED BY <1>1, <3>1, <4>1
    <3> QED BY <1>3, <3>1, <3>2, <3>3
  <2> QED BY <2>2, <2>3, <2>4, <2>5 DEF TrueChange
<1>7. SameNames(handle, handle') /\ Allocated' = Allocated /\ Tangled' = Tangled
  BY <1>1, ReloadNames DEF KeyInv, Inv, SameNames, Allocated, Tangled
<1>8. ASSUME NEW h \in Allocated
      PROVE  /\ handle[h] \in Handle /\ h \in Handles
             /\ handle'[h] \in {handle[h], [handle[h] EXCEPT !.content = "old"]}
             /\ handle'[h] = handle[h] \/ /\ handle[h].content = "current"
                                          /\ <<handle[h].cls, handle[h].id>> \in all
  <2>1. handle' = [g \in Handles |->
          IF g \in Allocated /\ handle[g].content = "current"
             /\ <<handle[g].cls, handle[g].id>> \in removed \cup modified
          THEN [handle[g] EXCEPT !.content = "old"] ELSE handle[g]]
    BY DEF Reload
  <2> QED BY <2>1, AllocatedType DEF KeyInv, Inv
<1>9. ASSUME NEW h \in Allocated
      PROVE  /\ <<handle'[h].cls, handle'[h].id>> \in Objects
             /\ handle'[h].cls = handle[h].cls /\ handle'[h].id = handle[h].id
             /\ handle'[h].state = handle[h].state
  BY <1>7, <1>8 DEF StateInv, SameNames, Allocated, Handle
<1>10. ASSUME NEW h \in Live'
       PROVE  Clean(handle'[h]) /\ (Concerned(handle'[h], pending') \/ Honest(handle'[h], db'))
  <2>1. /\ h \in Live /\ h \in Allocated /\ handle[h] \in Handle
        /\ Clean(handle[h]) /\ Honest(handle[h], db)
    BY <1>1, <1>7, <1>8 DEF StateInv, Concerned, Live
  <2> DEFINE o == handle[h]
  <2>2. o.id \in Ids /\ o.cls \in Classes /\ o.cls # None
    BY <2>1, ObjectAssumption DEF Handle
  <2>3. Clean(handle'[h])
    BY <1>8, <1>9, <2>1 DEF Clean
  <2>4. CASE <<o.cls, o.id>> \in all
    <3>1. change(o.cls) \in pending'
      BY <1>1, <2>4
    <3>2. o.id \in Touched(change(o.cls)) /\ change(o.cls).cls = o.cls
      BY <1>5, <2>4
    <3> QED BY <1>9, <2>1, <2>3, <3>1, <3>2 DEF Concerned
  <2>5. CASE <<o.cls, o.id>> \notin all
    <3>1. handle'[h] = handle[h]
      BY <1>8, <2>1, <2>5
    <3>2. CASE \E p \in created : p[2] = o.id
      <4>1. PICK p \in created : p[2] = o.id
        BY <3>2
      <4>2. db'[o.id] = p[1] /\ p[1] # o.cls /\ db[o.id] = None
        BY <1>1, <1>2, <1>3, <2>2, <2>5, <4>1
      <4> QED BY <2>1, <2>2, <2>3, <3>1, <4>2 DEF Honest
    <3>3. CASE \A p \in created : p[2] # o.id
      <4>1. CASE \E p \in removed : p[2] = o.id
        <5>1. db'[o.id] = None
          BY <1>3, <2>2, <3>3, <4>1
        <5>2. db[o.id] # o.cls
          BY <1>1, <1>2, <2>5, <4>1
        <5> QED BY <2>1, <2>2, <2>3, <3>1, <5>1, <5>2 DEF Honest
      <4>2. CASE \A p \in removed : p[2] # o.id
        <5>1. db'[o.id] = db[o.id]
          BY <1>3, <2>2, <3>3, <4>2
        <5> QED BY <2>1, <2>3, <3>1, <5>1 DEF Honest
      <4> QED BY <4>1, <4>2
    <3> QED BY <3>2, <3>3
  <2> QED BY <2>4, <2>5
<1>11. \A h \in Tangled' : handle'[h].state = "Unknown"
  BY <1>7, <1>9 DEF StateInv, KeyInv, Inv
<1> QED BY <1>6, <1>7, <1>9, <1>10, <1>11 DEF StateInv

\* One iteration of update_cache()'s loop settles the handles of one change.
LEMMA UpdateStep ==
  ASSUME KeyInv, StateInv, NEW ch \in pending, UpdateNext(ch)
  PROVE  StateInv'
<1>1. handle' = Updated(ch, db) /\ pending' = pending \ {ch} /\ UNCHANGED <<db, slot, tangled>>
  BY DEF UpdateNext
<1>2. SameNames(handle, handle') /\ Allocated' = Allocated /\ Tangled' = Tangled
  BY <1>1, UpdatedType DEF KeyInv, Inv, SameNames, Allocated, Tangled
<1>3. ASSUME NEW h \in Allocated
      PROVE  /\ h \in Handles /\ handle[h] \in Handle
             /\ handle'[h].cls = handle[h].cls /\ handle'[h].id = handle[h].id
             /\ <<handle[h].cls, handle[h].id>> \in Objects
             /\ handle'[h] = IF h \in Live /\ Related(handle[h].cls, ch.cls)
                               THEN Apply(handle[h], handle[h].id, ch, db) ELSE handle[h]
  BY <1>1, <1>2, UpdatedLive, AllocatedType DEF KeyInv, Inv, StateInv, SameNames, Allocated
<1>4. TrueChange(ch, db)
  BY DEF StateInv
<1>5. ASSUME NEW h \in Live
      PROVE  Clean(handle'[h]) /\ (Concerned(handle'[h], pending') \/ Honest(handle'[h], db))
  <2> DEFINE o == handle[h]
  <2>1. h \in Allocated /\ Clean(o) /\ (Concerned(o, pending) \/ Honest(o, db))
    BY DEF StateInv, Live
  <2>2. CASE o.id \in Touched(ch) /\ Related(o.cls, ch.cls)
    <3>1. ASSUME StableClasses PROVE o.cls = ch.cls
      <4>1. <<ch.cls, o.id>> \in Objects /\ <<o.cls, o.id>> \in Objects
        BY <1>3, <1>4, <2>1, <2>2 DEF TrueChange
      <4> QED BY <2>2, <3>1, <4>1 DEF StableClasses
    <3>2. o \in Handle /\ handle'[h] = Apply(o, o.id, ch, db)
      BY <1>3, <2>1, <2>2
    <3> QED BY <1>4, <2>2, <3>1, <3>2, ApplyHonest
  <2>3. CASE ~(o.id \in Touched(ch) /\ Related(o.cls, ch.cls))
    <3>1. handle'[h] = o
      BY <1>3, <2>1, <2>3, ApplyOther
    <3>2. ~(ch.cls = o.cls /\ o.id \in Touched(ch))
      BY <2>3 DEF Related
    <3>3. Concerned(o, pending) => Concerned(o, pending')
      BY <1>1, <3>2 DEF Concerned
    <3> QED BY <2>1, <3>1, <3>3
  <2> QED BY <2>2, <2>3
<1>6. \A h \in Tangled : handle'[h] = handle[h]
  BY <1>3 DEF KeyInv, Inv, Live
<1>7. Live' = Live
  BY <1>2 DEF Live
<1>8. \A h \in Allocated' : <<handle'[h].cls, handle'[h].id>> \in Objects
  BY <1>2, <1>3
<1>9. \A h \in Tangled' : handle'[h].state = "Unknown"
  BY <1>2, <1>6 DEF StateInv
<1>10. \A c \in pending' : TrueChange(c, db')
  BY <1>1 DEF StateInv
<1>11. \A h \in Live' : Clean(handle'[h]) /\ (Concerned(handle'[h], pending') \/ Honest(handle'[h], db'))
  BY <1>1, <1>5, <1>7
<1> QED BY <1>8, <1>9, <1>10, <1>11 DEF StateInv

\* Forgetting everything is honest about any database.
LEMMA ForgetStep ==
  ASSUME KeyInv, StateInv, handle' = AllUnknown, UNCHANGED <<pending, tangled>>,
         db' = db \/ pending = {}
  PROVE  StateInv'
<1>1. ASSUME NEW h \in Handles, handle[h] # None
      PROVE  /\ handle'[h] = [handle[h] EXCEPT !.state = "Unknown", !.content = "none"]
             /\ handle[h] \in Handle
  BY <1>1 DEF AllUnknown, KeyInv, Inv, TypeOK
<1>2. ASSUME NEW h \in Allocated
      PROVE  /\ handle'[h].id = handle[h].id /\ handle'[h].cls = handle[h].cls
             /\ handle'[h].state = "Unknown" /\ Clean(handle'[h]) /\ Honest(handle'[h], db')
  <2> DEFINE p == [handle[h] EXCEPT !.state = "Unknown", !.content = "none"]
  <2>1. handle'[h] = p /\ handle[h] \in Handle
    BY <1>1, <1>2 DEF Allocated
  <2>2. /\ p.id = handle[h].id /\ p.cls = handle[h].cls /\ p.state = "Unknown"
        /\ Clean(p) /\ Honest(p, db')
    BY <2>1, ForgottenHonest
  <2> HIDE DEF p
  <2> QED BY <2>1, <2>2
<1>3. Allocated' = Allocated /\ Tangled' = Tangled /\ Live' = Live
  BY ForgottenNames DEF KeyInv, Inv, SameNames, Allocated, Tangled, Live
<1>4. \A h \in Allocated' : <<handle'[h].cls, handle'[h].id>> \in Objects
  BY <1>2, <1>3 DEF StateInv
<1>5. \A h \in Tangled' : handle'[h].state = "Unknown"
  BY <1>2, <1>3 DEF KeyInv, Inv
<1>6. \A h \in Live' : Clean(handle'[h]) /\ Honest(handle'[h], db')
  BY <1>2, <1>3 DEF Live
<1> QED BY <1>4, <1>5, <1>6 DEF StateInv

----------------------------------------------------------------------------
HonestInv == KeyInv /\ StateInv

LEMMA HonestStep ==
  ASSUME ~UsesReplaced, ~WritesWhileNotified, HonestInv, [Next]_vars
  PROVE  HonestInv'
<1> USE DEF HonestInv
<1>0. KeyInv' /\ Inv'
  BY NextStep DEF KeyInv
<1>1. ASSUME NEW c \in Classes, NEW i \in Ids, get(c, i) \/ create(c, i)
      PROVE  StateInv'
  BY <1>1, GetStep, CreateStep
<1>2. ASSUME NEW h \in Handles, Access(h) \/ destroy_obj(h)
      PROVE  StateInv'
  BY <1>2, AccessStep, DestroyStep
<1>3. ASSUME NEW h \in Handles, NEW i \in Ids, rename_object(h, i)
      PROVE  StateInv'
  BY <1>3, RenameHonest
<1>4. CASE unread_implementation_objects
  BY <1>0, <1>4, ForgetStep DEF unread_implementation_objects
<1>5. CASE abort
  BY <1>0, <1>5, ForgetStep DEF abort, MayWrite, KeyInv, Inv, TypeOK
<1>6. CASE unload
  <2>1. handle' = [h \in Handles |-> None] /\ tangled' = << >> /\ pending' = {}
    BY <1>6 DEF unload
  <2>2. Allocated' = {} /\ Tangled' = {} /\ Live' = {}
    BY <2>1 DEF Allocated, Tangled, Live
  <2> QED BY <1>0, <2>1, <2>2, WriteStep
<1>7. ASSUME NEW removed \in SUBSET Objects, NEW created \in SUBSET Objects,
             NEW modified \in SUBSET Objects, Reload(removed, created, modified)
      PROVE  StateInv'
  BY <1>0, <1>7, ReloadStep
<1>8. ASSUME NEW ch \in pending, UpdateNext(ch)
      PROVE  StateInv'
  BY <1>8, UpdateStep
<1>9. CASE commit \/ BeginUpdate \/ EndUpdate \/ UNCHANGED vars
  <2>1. UNCHANGED <<db, handle, tangled, pending>>
    BY <1>9 DEF commit, BeginUpdate, EndUpdate, vars
  <2>2. Allocated' = Allocated /\ Tangled' = Tangled
    BY <2>1 DEF Allocated, Tangled
  <2>3. \A o : Learns(o, o, db)
    BY DEF Learns
  <2>4. \A h \in Allocated' : h \in Allocated /\ Learns(handle[h], handle'[h], db)
    BY <2>1, <2>2, <2>3
  <2>5. \A h \in Tangled : handle'[h].state = "Unknown"
    BY <2>1 DEF StateInv
  <2> QED BY <1>0, <2>1, <2>2, <2>4, <2>5, LearnStep
<1> QED BY <1>0, <1>1, <1>2, <1>3, <1>4, <1>5, <1>6, <1>7, <1>8, <1>9 DEF Next

LEMMA HonestAlways ==
  ASSUME ~UsesReplaced, ~WritesWhileNotified
  PROVE  Spec => []HonestInv
<1>1. Init => HonestInv
  <2> SUFFICES ASSUME Init PROVE HonestInv
    OBVIOUS
  <2>1. Allocated = {} /\ Tangled = {} /\ pending = {} /\ KeyInv
    BY InitInv DEF Init, Allocated, Tangled, KeyInv
  <2> QED BY <2>1 DEF HonestInv, StateInv, Live
<1>2. HonestInv /\ [Next]_vars => HonestInv'
  BY HonestStep
<1> QED BY <1>1, <1>2, PTL DEF Spec

\* Between notifications every handle, replaced or not, is honest.
LEMMA QuietHonest ==
  ASSUME HonestInv, phase = "quiet", NEW h \in Allocated
  PROVE  Honest(handle[h], db)
<1>1. pending = {}
  BY DEF HonestInv, KeyInv, Inv, TypeOK
<1>2. CASE h \in Live
  BY <1>1, <1>2 DEF HonestInv, StateInv, Concerned
<1>3. CASE h \in Tangled
  BY <1>3 DEF HonestInv, StateInv, Honest
<1> QED BY <1>2, <1>3 DEF Live

----------------------------------------------------------------------------
(* Validity, for clients that write whenever they like.                    *)

\* A handle that says Valid is of an object that exists, or whose removal has
\* still to be reported.
Existing(o, d, changes) ==
  o.state = "Valid" =>
     \/ d[o.id] = o.cls
     \/ \E ch \in changes : ch.cls = o.cls /\ o.id \in ch.removed
ValidInv ==
  /\ KeyInv /\ PlacedInv
  /\ \A h \in Live : Existing(handle[h], db, pending)
  /\ \A ch \in pending : \A i \in Touched(ch) : <<ch.cls, i>> \in Objects

\* A step that names no handle differently.
LEMMA PlacedKept ==
  ASSUME KeyInv, PlacedInv, SameNames(handle, handle'), tangled' = tangled,
         \A h \in Tangled : handle'[h].state = "Unknown"
  PROVE  PlacedInv' /\ Allocated' = Allocated /\ Live' = Live
<1>1. Allocated' = Allocated /\ Tangled' = Tangled
  BY DEF SameNames, Allocated, Tangled
<1>2. \A h \in Allocated : handle'[h].cls = handle[h].cls /\ handle'[h].id = handle[h].id
  BY DEF SameNames, Allocated
<1> QED BY <1>1, <1>2 DEF PlacedInv, Live

\* One handle is looked at; it says Valid only if it did, or of an object that
\* is there.
LEMMA OneExisting ==
  ASSUME ValidInv, KeyInv', NEW h \in Live, NEW o \in Handle,
         o.id = handle[h].id, o.cls = handle[h].cls,
         o.state = "Valid" => handle[h].state = "Valid" \/ db[o.id] = o.cls,
         handle' = [handle EXCEPT ![h] = o], UNCHANGED <<db, pending, tangled>>
  PROVE  ValidInv'
<1>1. /\ KeyInv /\ PlacedInv /\ h \in Allocated /\ h \in Handles /\ h \notin Tangled
      /\ handle \in [Handles -> Handle \cup {None}]
  BY DEF ValidInv, KeyInv, Inv, TypeOK, Live, Allocated
<1>2. SameNames(handle, handle')
  BY <1>1, OneChanged DEF KeyInv, Inv
<1>3. \A g \in Handles : handle'[g] = IF g = h THEN o ELSE handle[g]
  BY <1>1
<1>4. \A g \in Tangled : handle'[g].state = "Unknown"
  BY <1>1, <1>3 DEF PlacedInv, KeyInv, Inv, Allocated
<1>5. PlacedInv' /\ Live' = Live
  BY <1>1, <1>2, <1>4, PlacedKept
<1>6. \A g \in Live : g \in Handles /\ Existing(handle'[g], db, pending)
  BY <1>3 DEF ValidInv, Existing, Live, Allocated
<1> QED BY <1>5, <1>6 DEF ValidInv

\* get() and create(): a handle becomes valid of the object it finds.
LEMMA InsertExisting ==
  ASSUME StableClasses, ValidInv, KeyInv', NEW c \in Classes, NEW i \in Ids,
         <<c, i>> \in Objects, insert_object(c, i), UNCHANGED <<pending, tangled>>,
         db'[i] = c, \A j \in Ids : db[j] # None => db'[j] = db[j]
  PROVE  ValidInv'
<1>1. /\ \A h \in Tangled : handle'[h] = handle[h]
      /\ \A h \in Allocated' :
           \/ h \in Allocated /\ handle'[h] = handle[h]
           \/ /\ h \in Live /\ handle[h].cls = c /\ handle[h].id = i
              /\ handle'[h] = [handle[h] EXCEPT !.state = "Valid"]
           \/ /\ h \notin Allocated
              /\ handle'[h] = [state |-> "Valid", id |-> i, cls |-> c, content |-> "none"]
  BY InsertShape DEF ValidInv
<1>2. Tangled' = Tangled
  BY DEF Tangled
<1>3. ASSUME NEW h \in Allocated'
      PROVE  /\ <<handle'[h].cls, handle'[h].id>> \in Objects
             /\ h \notin Tangled => Existing(handle'[h], db', pending)
  <2>1. CASE h \in Allocated /\ handle'[h] = handle[h]
    <3>1. handle[h].id \in Ids /\ handle[h].cls # None
      BY <2>1, AllocatedType, ObjectAssumption DEF ValidInv, KeyInv, Inv, Handle
    <3> QED BY <2>1, <3>1 DEF ValidInv, PlacedInv, Existing, Live
  <2>2. CASE /\ h \in Live /\ handle[h].cls = c /\ handle[h].id = i
             /\ handle'[h] = [handle[h] EXCEPT !.state = "Valid"]
    <3>1. handle[h] \in Handle
      BY <2>2, AllocatedType DEF ValidInv, KeyInv, Inv, Live
    <3>2. handle'[h].cls = c /\ handle'[h].id = i
      BY <2>2, <3>1 DEF Handle
    <3> QED BY <3>2 DEF Existing
  <2>3. CASE handle'[h] = [state |-> "Valid", id |-> i, cls |-> c, content |-> "none"]
    BY <2>3 DEF Existing
  <2> QED BY <1>1, <2>1, <2>2, <2>3
<1> QED BY <1>1, <1>2, <1>3 DEF ValidInv, PlacedInv, Live

LEMMA DestroyExisting ==
  ASSUME ~UsesReplaced, StableClasses, ValidInv, KeyInv', NEW h \in Handles, destroy_obj(h)
  PROVE  ValidInv'
<1> DEFINE o == Settled(handle[h])
           ch == [cls |-> o.cls, created |-> {}, modified |-> {}, removed |-> {o.id}]
           updated == Updated(ch, db')
<1>1. /\ h \in Live /\ handle[h] \in Handle /\ KeyInv /\ PlacedInv
      /\ UNCHANGED <<pending, slot, tangled>>
  BY UsedLive DEF destroy_obj, ValidInv
<1>2. o \in Handle /\ o.id = handle[h].id /\ o.cls = handle[h].cls
  BY <1>1, SettledType
<1>3. CASE o.state = "Deleted"
  <2>1. handle' = [handle EXCEPT ![h] = o] /\ UNCHANGED db
    BY <1>3 DEF destroy_obj
  <2> QED BY <1>1, <1>2, <1>3, <2>1, OneExisting
<1>4. CASE o.state # "Deleted"
  <2>1. /\ db[o.id] = o.cls /\ db' = [db EXCEPT ![o.id] = None]
        /\ handle' = [updated EXCEPT ![h].state = "Deleted", ![h].content = "none"]
    BY <1>4 DEF destroy_obj
  <2>2. o.id \in Ids /\ o.cls \in Classes
    BY <1>2 DEF Handle
  <2>3. \A j \in Ids \ {o.id} : db'[j] = db[j]
    BY <1>1, <2>1, <2>2 DEF KeyInv, Inv, TypeOK, Databases
  <2>4. SameNames(handle, updated)
    BY <1>1, UpdatedType DEF KeyInv, Inv
  <2>5. SameNames(handle, handle')
    BY <1>1, DestroyNames DEF KeyInv
  <2>6. updated[h] \in Handle
    BY <1>1, <2>4 DEF SameNames, Live, Allocated
  <2> DEFINE gone == [updated[h] EXCEPT !.state = "Deleted", !.content = "none"]
  <2>7. gone.state = "Deleted"
    BY <2>6 DEF Handle
  <2>8. \A g \in Handles : handle'[g] = IF g = h THEN gone ELSE updated[g]
    BY <2>1, <2>4, <2>6 DEF SameNames
  <2> HIDE DEF gone, updated, o
  <2>9. ASSUME NEW g \in Live, g # h
        PROVE  updated[g] = handle[g] /\ Existing(handle[g], db', pending)
    <3>1. /\ g \in Handles /\ handle[g].id \in Ids /\ handle[g].cls # None
          /\ <<handle[g].cls, handle[g].id>> \in Objects /\ <<o.cls, o.id>> \in Objects
      BY <1>1, <1>2, AllocatedType, ObjectAssumption
      DEF KeyInv, Inv, PlacedInv, Handle, Live, Allocated
    <3>2. ~(handle[g].id = o.id /\ handle[g].cls = o.cls)
      BY <1>1, <1>2, <2>9 DEF KeyInv, Listed, Live
    <3>3. Related(handle[g].cls, o.cls) => handle[g].id # o.id
      BY <3>1, <3>2 DEF StableClasses
    <3>4. updated[g] = IF Related(handle[g].cls, o.cls)
                         THEN Apply(handle[g], handle[g].id, ch, db') ELSE handle[g]
      BY <1>1, <3>1, <2>9, UpdatedLive DEF updated
    <3>5. handle[g].id # o.id => Apply(handle[g], handle[g].id, ch, db') = handle[g]
      BY ApplyOther DEF Touched
    <3>6. Existing(handle[g], db', pending)
      BY <2>1, <2>3, <2>9, <3>1, <3>2 DEF ValidInv, Existing
    <3> QED BY <3>3, <3>4, <3>5, <3>6
  <2>10. \A g \in Tangled : g \in Handles /\ g # h /\ updated[g] = handle[g]
    <3>1. \A g \in Tangled : g \in Handles /\ g \notin Live
      BY <1>1 DEF KeyInv, Inv, Allocated, Live
    <3> QED BY <1>1, <3>1, UpdatedLive DEF updated
  <2>11. PlacedInv' /\ Live' = Live
    BY <1>1, <2>5, <2>8, <2>10, PlacedKept DEF PlacedInv
  <2>12. \A g \in Live' : Existing(handle'[g], db', pending')
    BY <1>1, <2>7, <2>8, <2>9, <2>11 DEF Existing, Live, Allocated
  <2> QED BY <1>1, <2>11, <2>12 DEF ValidInv
<1> QED BY <1>3, <1>4

LEMMA RenameExisting ==
  ASSUME ~UsesReplaced, ValidInv, KeyInv', NEW h \in Handles, NEW new \in Ids,
         rename_object(h, new)
  PROVE  ValidInv'
<1> DEFINE o == Settled(handle[h])
           renamed == [o EXCEPT !.id = new]
<1>1. KeyInv /\ PlacedInv /\ pending' = pending
  BY DEF rename_object, ValidInv
<1>2. h \in Live /\ o \in Handle /\ o.id = handle[h].id /\ o.cls = handle[h].cls
  <2>1. h \in Live /\ handle[h] \in Handle
    BY <1>1, UsedLive DEF rename_object
  <2> QED BY <2>1, SettledType
<1>3. CASE handle' = [handle EXCEPT ![h] = o] /\ UNCHANGED <<db, tangled>>
  <2>1. o.state = "Valid" => handle[h].state = "Valid" \/ db[o.id] = o.cls
    <3>1. handle[h] \in Handle
      BY <1>1, <1>2, AllocatedType DEF KeyInv, Inv, Live
    <3> QED BY <3>1 DEF Settled, reset, Handle
  <2> QED BY <1>1, <1>2, <1>3, <2>1, OneExisting
<1>4. CASE ~(handle' = [handle EXCEPT ![h] = o] /\ UNCHANGED <<db, tangled>>)
  <2>1. /\ db[new] = None /\ db[o.id] = o.cls
        /\ db'[o.id] = None /\ db'[new] = o.cls
        /\ \A j \in Ids \ {o.id, new} : db'[j] = db[j]
        /\ PlacedInv'
        /\ \A g \in Live' :
             /\ g \in Live /\ handle[g] \in Handle
             /\ \/ g = h /\ handle'[g] = renamed
                \/ /\ g # h /\ handle'[g] = handle[g]
                   /\ ~(handle[g].cls = o.cls /\ handle[g].id \in {o.id, new})
    BY <1>1, <1>4, RenameMoves
  <2>2. renamed.cls = o.cls /\ renamed.id = new
    BY <1>2 DEF Handle
  <2> HIDE DEF o, renamed
  <2>3. ASSUME NEW g \in Live'
        PROVE  Existing(handle'[g], db', pending')
    <3>1. CASE handle'[g] = renamed
      BY <2>1, <2>2, <3>1 DEF Existing
    <3>2. CASE /\ handle'[g] = handle[g] /\ g \in Live /\ handle[g] \in Handle
               /\ ~(handle[g].cls = o.cls /\ handle[g].id \in {o.id, new})
      <4>1. handle[g].id \in Ids /\ handle[g].cls # None
        BY <3>2, ObjectAssumption DEF Handle
      <4> QED BY <1>1, <2>1, <3>2, <4>1 DEF ValidInv, Existing
    <3> QED BY <2>1, <3>1, <3>2
  <2> QED BY <1>1, <2>1, <2>3 DEF ValidInv
<1> QED BY <1>3, <1>4

\* update_impl_objects() looks the object up, unless it is reported modified
\* only: then its removal, if any, is reported by another change.
LEMMA UpdateExisting ==
  ASSUME StableClasses, ValidInv, KeyInv', NEW ch \in pending, UpdateNext(ch)
  PROVE  ValidInv'
<1>1. /\ handle' = Updated(ch, db) /\ pending' = pending \ {ch} /\ UNCHANGED <<db, slot, tangled>>
      /\ KeyInv /\ PlacedInv
  BY DEF UpdateNext, ValidInv
<1>2. SameNames(handle, handle')
  BY <1>1, UpdatedType DEF KeyInv, Inv
<1>3. \A h \in Handles : handle'[h] = IF h \in Live /\ Related(handle[h].cls, ch.cls)
                               THEN Apply(handle[h], handle[h].id, ch, db) ELSE handle[h]
  BY <1>1, UpdatedLive
<1>4. \A h \in Tangled : h \in Handles /\ h \notin Live
  BY <1>1 DEF KeyInv, Inv, Allocated, Live
<1>5. PlacedInv' /\ Live' = Live
  BY <1>1, <1>2, <1>3, <1>4, PlacedKept DEF PlacedInv
<1>6. ASSUME NEW h \in Live
      PROVE  Existing(handle'[h], db', pending')
  <2> DEFINE o == handle[h]
  <2>1. o \in Handle /\ h \in Handles /\ Existing(o, db, pending) /\ <<o.cls, o.id>> \in Objects
    BY <1>1, AllocatedType DEF ValidInv, PlacedInv, KeyInv, Inv, Live
  <2>2. CASE o.id \in Touched(ch) /\ Related(o.cls, ch.cls)
    <3>1. o.cls = ch.cls
      <4>1. <<ch.cls, o.id>> \in Objects
        BY <2>2 DEF ValidInv
      <4> QED BY <2>1, <2>2, <4>1 DEF StableClasses
    <3>2. handle'[h] = Apply(o, o.id, ch, db)
      BY <1>3, <1>6, <2>1, <2>2
    <3>3. LET p == Apply(o, o.id, ch, db) IN
          p.state = "Valid" => \/ db[o.id] = o.cls
                               \/ o.state = "Valid" /\ o.id \notin ch.removed
      BY <2>1 DEF Apply, Handle
    <3>4. handle'[h].id = o.id /\ handle'[h].cls = o.cls
      BY <2>1, <3>2, ApplyType
    <3> QED BY <1>1, <2>1, <3>2, <3>3, <3>4 DEF Existing
  <2>3. CASE ~(o.id \in Touched(ch) /\ Related(o.cls, ch.cls))
    <3>1. handle'[h] = o
      BY <1>3, <2>1, <2>3, ApplyOther
    <3>2. ~(ch.cls = o.cls /\ o.id \in ch.removed)
      BY <2>3 DEF Related, Touched
    <3> QED BY <1>1, <2>1, <3>1, <3>2 DEF Existing
  <2> QED BY <2>2, <2>3
<1> QED BY <1>1, <1>5, <1>6 DEF ValidInv

LEMMA ReloadExisting ==
  ASSUME ValidInv, KeyInv', NEW removed \in SUBSET Objects, NEW created \in SUBSET Objects,
         NEW modified \in SUBSET Objects, Reload(removed, created, modified)
  PROVE  ValidInv'
<1> DEFINE Of(S, c) == {p[2] : p \in {q \in S : q[1] = c}}
           all == removed \cup created \cup modified
           change(c) == [cls |-> c, created |-> Of(created, c), modified |-> Of(modified, c),
                         removed |-> Of(removed, c)]
<1>1. /\ pending = {} /\ \A p \in created : db[p[2]] = None
      /\ pending' = {change(c) : c \in {p[1] : p \in all}}
      /\ tangled' = tangled /\ KeyInv /\ PlacedInv
      /\ \A p \in removed : db[p[2]] = p[1]
      /\ db' = [i \in Ids |->
           IF \E p \in created : p[2] = i THEN (CHOOSE p \in created : p[2] = i)[1]
           ELSE IF \E p \in removed : p[2] = i THEN None ELSE db[i]]
  BY DEF Reload, KeyInv, Inv, TypeOK, ValidInv
<1>2. \A p \in all : p \in Objects /\ p = <<p[1], p[2]>> /\ p[1] \in Classes
  BY ObjectAssumption
<1>3. SameNames(handle, handle') /\ UNCHANGED slot
  BY <1>1, ReloadNames DEF KeyInv, Inv
<1>4. \A h \in Allocated : handle'[h].state = handle[h].state
  <2>1. handle' = [g \in Handles |->
          IF g \in Allocated /\ handle[g].content = "current"
             /\ <<handle[g].cls, handle[g].id>> \in removed \cup modified
          THEN [handle[g] EXCEPT !.content = "old"] ELSE handle[g]]
    BY DEF Reload
  <2>2. \A h \in Allocated : handle[h] \in Handle /\ h \in Handles
    BY <1>1, AllocatedType DEF KeyInv, Inv
  <2>3. \A h \in Allocated : [handle[h] EXCEPT !.content = "old"].state = handle[h].state
    BY <2>2 DEF Handle
  <2> QED BY <2>1, <2>2, <2>3
<1>5. PlacedInv' /\ Live' = Live
  BY <1>1, <1>3, <1>4, PlacedKept DEF PlacedInv, KeyInv, Inv
<1>6. \A ch \in pending' : \A i \in Touched(ch) : <<ch.cls, i>> \in Objects
  BY <1>1, <1>2 DEF Touched
<1>7. ASSUME NEW h \in Live
      PROVE  Existing(handle'[h], db', pending')
  <2> DEFINE o == handle[h]
  <2>1. /\ h \in Allocated /\ h \in Handles /\ o \in Handle /\ o.id \in Ids /\ o.cls # None
        /\ o.state = "Valid" => db[o.id] = o.cls
    BY <1>1, AllocatedType, ObjectAssumption DEF ValidInv, Existing, KeyInv, Inv, Handle, Live
  <2>2. handle'[h].id = o.id /\ handle'[h].cls = o.cls /\ handle'[h].state = o.state
    BY <1>3, <1>4, <2>1 DEF SameNames, Allocated
  <2>3. CASE o.state = "Valid" /\ \E p \in removed : p[2] = o.id
    <3>1. PICK p \in removed : p[2] = o.id
      BY <2>3
    <3>2. p[1] = o.cls /\ p \in all
      BY <1>1, <2>1, <2>3, <3>1
    <3>3. change(o.cls) \in pending' /\ change(o.cls).cls = o.cls
      BY <1>1, <3>2
    <3>4. o.id \in change(o.cls).removed
      BY <3>1, <3>2
    <3> HIDE DEF change
    <3> QED BY <2>2, <3>3, <3>4 DEF Existing
  <2>4. CASE o.state = "Valid" /\ \A p \in removed : p[2] # o.id
    <3>1. \A p \in created : p[2] # o.id
      BY <1>1, <2>1, <2>4
    <3>2. db'[o.id] = db[o.id]
      BY <1>1, <2>1, <2>4, <3>1
    <3> QED BY <2>1, <2>2, <2>4, <3>2 DEF Existing
  <2> QED BY <2>2, <2>3, <2>4 DEF Existing
<1> QED BY <1>5, <1>6, <1>7 DEF ValidInv

LEMMA ForgetExisting ==
  ASSUME ValidInv, KeyInv', handle' = AllUnknown, UNCHANGED <<pending, tangled>>
  PROVE  ValidInv'
<1>1. KeyInv /\ PlacedInv
  BY DEF ValidInv
<1>2. SameNames(handle, handle')
  BY <1>1, ForgottenNames DEF KeyInv, Inv
<1>3. ASSUME NEW h \in Allocated
      PROVE  handle'[h].state = "Unknown"
  <2>1. handle[h] \in Handle /\ h \in Handles /\ handle[h] # None
    BY <1>1, AllocatedType DEF KeyInv, Inv, Allocated
  <2>2. handle'[h] = [handle[h] EXCEPT !.state = "Unknown", !.content = "none"]
    BY <2>1 DEF AllUnknown
  <2> QED BY <2>1, <2>2, ForgottenHonest
<1>4. PlacedInv' /\ Live' = Live
  BY <1>1, <1>2, <1>3, PlacedKept DEF KeyInv, Inv
<1>5. \A h \in Live' : Existing(handle'[h], db', pending')
  BY <1>3, <1>4 DEF Existing, Live
<1> QED BY <1>4, <1>5 DEF ValidInv

LEMMA ValidStep ==
  ASSUME ~UsesReplaced, StableClasses, ValidInv, [Next]_vars
  PROVE  ValidInv'
<1>0. KeyInv /\ PlacedInv /\ KeyInv' /\ db \in Databases
  BY NextStep DEF ValidInv, KeyInv, Inv, TypeOK
<1>1. ASSUME NEW c \in Classes, NEW i \in Ids, get(c, i)
      PROVE  ValidInv'
  <2>1. db[i] \in Classes /\ <<db[i], i>> \in Objects
    BY <1>0, <1>1, ObjectAssumption DEF get, Databases
  <2> QED BY <1>0, <1>1, <2>1, InsertExisting DEF get
<1>2. ASSUME NEW c \in Classes, NEW i \in Ids, create(c, i)
      PROVE  ValidInv'
  <2>1. /\ <<c, i>> \in Objects /\ insert_object(c, i) /\ UNCHANGED <<pending, tangled>>
        /\ db'[i] = c /\ \A j \in Ids : db[j] # None => db'[j] = db[j]
    BY <1>0, <1>2 DEF create, Databases
  <2> QED BY <1>0, <2>1, InsertExisting
<1>3. ASSUME NEW h \in Handles, Access(h)
      PROVE  ValidInv'
  <2> DEFINE o == Settled(handle[h])
             seen == IF o.state = "Valid" /\ o.content = "none"
                       THEN [o EXCEPT !.content = "current"] ELSE o
  <2>1. /\ h \in Live /\ handle[h] \in Handle
        /\ handle' = [handle EXCEPT ![h] = seen] /\ UNCHANGED <<db, pending, tangled>>
    BY <1>0, <1>3, UsedLive DEF Access
  <2>2. /\ o \in Handle /\ o.id = handle[h].id /\ o.cls = handle[h].cls
        /\ o.state = "Valid" => handle[h].state = "Valid" \/ db[o.id] = o.cls
    BY <2>1, SettledType DEF Settled, reset, Handle
  <2> HIDE DEF o
  <2>3. seen \in Handle /\ seen.id = o.id /\ seen.cls = o.cls /\ seen.state = o.state
    BY <2>2, FieldChanged DEF States, Contents, Handle
  <2> HIDE DEF seen
  <2> QED BY <1>0, <2>1, <2>2, <2>3, OneExisting
<1>4. ASSUME NEW h \in Handles, destroy_obj(h)
      PROVE  ValidInv'
  BY <1>0, <1>4, DestroyExisting
<1>5. ASSUME NEW h \in Handles, NEW i \in Ids, rename_object(h, i)
      PROVE  ValidInv'
  BY <1>0, <1>5, RenameExisting
<1>6. CASE unread_implementation_objects \/ abort
  BY <1>0, <1>6, ForgetExisting DEF unread_implementation_objects, abort
<1>7. CASE unload
  <2>1. handle' = [h \in Handles |-> None] /\ tangled' = << >> /\ pending' = {}
    BY <1>7 DEF unload
  <2>2. Allocated' = {} /\ Tangled' = {} /\ Live' = {}
    BY <2>1 DEF Allocated, Tangled, Live
  <2> QED BY <1>0, <2>1, <2>2 DEF ValidInv, PlacedInv
<1>8. ASSUME NEW removed \in SUBSET Objects, NEW created \in SUBSET Objects,
             NEW modified \in SUBSET Objects, Reload(removed, created, modified)
      PROVE  ValidInv'
  BY <1>0, <1>8, ReloadExisting
<1>9. ASSUME NEW ch \in pending, UpdateNext(ch)
      PROVE  ValidInv'
  BY <1>0, <1>9, UpdateExisting
<1>10. CASE commit \/ BeginUpdate \/ EndUpdate \/ UNCHANGED vars
  <2>1. UNCHANGED <<db, handle, tangled, pending>>
    BY <1>10 DEF commit, BeginUpdate, EndUpdate, vars
  <2>2. Allocated' = Allocated /\ Tangled' = Tangled /\ Live' = Live
    BY <2>1 DEF Allocated, Tangled, Live
  <2> QED BY <1>0, <2>1, <2>2 DEF ValidInv, PlacedInv
<1> QED BY <1>1, <1>2, <1>3, <1>4, <1>5, <1>6, <1>7, <1>8, <1>9, <1>10 DEF Next

\* A handle says Valid only of an object that exists: after a notification,
\* an access to an object another process has removed throws DeletedObject
\* (update_impl_objects, 394-472; throw_if_deleted, ConfigObjectImpl.cpp:98).
\* A client may write while a notification is under way.
THEOREM ValidCorrect ==
  ASSUME ~UsesReplaced, StableClasses
  PROVE  Spec => []ValidIsStored
<1>1. Init => ValidInv
  <2> SUFFICES ASSUME Init PROVE ValidInv
    OBVIOUS
  <2>1. Allocated = {} /\ Tangled = {} /\ pending = {} /\ KeyInv
    BY InitInv DEF Init, Allocated, Tangled, KeyInv
  <2> QED BY <2>1 DEF ValidInv, PlacedInv, Live
<1>2. ValidInv /\ [Next]_vars => ValidInv'
  BY ValidStep
<1>3. ValidInv => ValidIsStored
  <2> SUFFICES ASSUME ValidInv, phase = "quiet", NEW h \in Allocated, handle[h].state = "Valid"
               PROVE  db[handle[h].id] = handle[h].cls
    BY DEF ValidIsStored
  <2>1. pending = {} /\ h \in Live
    BY DEF ValidInv, PlacedInv, KeyInv, Inv, TypeOK, Live
  <2> QED BY <2>1 DEF ValidInv, Existing
<1> QED BY <1>1, <1>2, <1>3, PTL DEF Spec

\* A handle says Deleted only of an object that does not exist: one that was
\* created again is found by the handles of its predecessor.
THEOREM DeletedCorrect ==
  ASSUME ~UsesReplaced, ~WritesWhileNotified
  PROVE  Spec => []DeletedIsGone
<1>1. HonestInv => DeletedIsGone
  BY QuietHonest DEF DeletedIsGone, Honest
<1> QED BY <1>1, HonestAlways, PTL

\* ... and what it keeps is not older than the last change reported.
THEOREM FreshCorrect ==
  ASSUME ~UsesReplaced, ~WritesWhileNotified
  PROVE  Spec => []FreshContent
<1>1. HonestInv => FreshContent
  BY QuietHonest DEF FreshContent, Honest
<1> QED BY <1>1, HonestAlways, PTL
=============================================================================
