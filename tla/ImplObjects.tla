----------------------------- MODULE ImplObjects -----------------------------
(***************************************************************************)
(* The cache of implementation objects (ConfigurationImpl).                *)
(*                                                                         *)
(* m_impl_objects maps a class and an id to a handle, a ConfigObjectImpl   *)
(* that any number of the client's ConfigObjects point to; a handle whose  *)
(* slot rename_impl_object() gives to another goes to m_tangled_objects.   *)
(* The database behind it changes under the handles: by this process's own *)
(* create, destroy, rename and abort, and by other processes, whose        *)
(* changes the plug-in first loads and then reports to update_cache().     *)
(* The plug-in, the database and the content of objects are external.      *)
(***************************************************************************)
EXTENDS Naturals, Sequences, FiniteSets

CONSTANTS
  Classes, Ids,
  Subclasses,           \* the direct and indirect subclasses of each class
  Objects,              \* the <<class, id>> an object may have
  Handles,              \* bound: implementation objects that can be allocated
  None,                 \* no class, no handle
  UsesReplaced,         \* the client uses handles that a rename has replaced
  WritesWhileNotified   \* the client writes between a reload and its report

VARIABLES
  db,       \* the database as this process sees it: the class of each id
  stored,   \* the committed database
  handle,   \* the implementation objects, None when not allocated
  slot,     \* m_impl_objects
  tangled,  \* m_tangled_objects
  phase,    \* where the notification of other processes' changes is
  pending   \* the ConfigurationChanges update_cache() has still to apply

vars == <<db, stored, handle, slot, tangled, phase, pending>>

States == {"Valid", "Deleted", "Unknown"}
\* What a handle has read of its object: nothing, its content, or a content
\* that has changed since.
Contents == {"none", "current", "old"}
Handle == [state : States, id : Ids, cls : Classes, content : Contents]
ASSUME ObjectAssumption ==
  /\ Objects \subseteq Classes \X Ids
  /\ Subclasses \in [Classes -> SUBSET Classes]
  /\ None \notin Classes \cup Handles \cup Handle

Change == [cls : Classes, created : SUBSET Ids, modified : SUBSET Ids, removed : SUBSET Ids]

Databases == {d \in [Ids -> Classes \cup {None}] :
                \A i \in Ids : d[i] # None => <<d[i], i>> \in Objects}

Allocated == {h \in Handles : handle[h] # None}
Tangled == {tangled[n] : n \in 1..Len(tangled)}
Related(c, k) == c = k \/ c \in Subclasses[k] \/ k \in Subclasses[c]

\* m_impl_mutex is held by whoever changes the cache.
ImplMutexFree == phase # "updating"
MayWrite == ImplMutexFree /\ (WritesWhileNotified \/ phase = "quiet")

\* The client holds a ConfigObject with this handle.
InUse(h) == h \in Allocated /\ (UsesReplaced \/ h \notin Tangled)

----------------------------------------------------------------------------
Init ==
  /\ db \in Databases /\ stored = db
  /\ handle = [h \in Handles |-> None]
  /\ slot = [c \in Classes |-> [i \in Ids |-> None]]
  /\ tangled = << >>
  /\ phase = "quiet"
  /\ pending = {}

\* reset() looks the object up in the database by the handle's id.
reset(o) == [o EXCEPT !.state = IF db[o.id] = o.cls THEN "Valid" ELSE "Deleted",
                      !.content = "none"]

\* is_deleted() first settles an unknown state.
Settled(o) == IF o.state = "Unknown" THEN reset(o) ELSE o

\* get_impl_object(): the slots of the class first, then of its subclasses.
get_impl_object(c, i) ==
  IF slot[c][i] # None THEN {slot[c][i]}
  ELSE {slot[k][i] : k \in Subclasses[c]} \ {None}

\* insert_object(): the cached handle becomes valid, or a new one is put.
insert_object(c, i) ==
  LET found == get_impl_object(c, i) IN
  \/ \E h \in found :
       /\ handle' = [handle EXCEPT ![h].state = "Valid"]
       /\ UNCHANGED slot
  \/ /\ found = {}
     /\ \E h \in Handles \ Allocated :
          /\ handle' = [handle EXCEPT ![h] =
               [state |-> "Valid", id |-> i, cls |-> c, content |-> "none"]]
          /\ slot' = [slot EXCEPT ![c][i] = h]

\* get(): an object of the class or of a subclass, by id.
get(c, i) ==
  /\ ImplMutexFree
  /\ db[i] = c \/ db[i] \in Subclasses[c]
  /\ insert_object(db[i], i)
  /\ UNCHANGED <<db, stored, tangled, phase, pending>>

\* Any access through a ConfigObject; it throws when the object is deleted.
Access(h) ==
  /\ InUse(h)
  /\ LET o == Settled(handle[h]) IN
     handle' = [handle EXCEPT ![h] =
       IF o.state = "Valid" /\ o.content = "none" THEN [o EXCEPT !.content = "current"]
       ELSE o]
  /\ UNCHANGED <<db, stored, slot, tangled, phase, pending>>

create(c, i) ==
  /\ MayWrite
  /\ <<c, i>> \in Objects /\ db[i] = None
  /\ db' = [db EXCEPT ![i] = c]
  /\ insert_object(c, i)
  /\ UNCHANGED <<stored, tangled, phase, pending>>

ApplyForgettingRemoved(o, i, ch, d) ==  \* mutant
  LET two == IF i \in ch.created
               THEN [o EXCEPT !.state = IF d[o.id] = o.cls THEN "Valid" ELSE "Deleted",
                              !.content = "none"] ELSE o
  IN  IF i \notin ch.modified THEN two ELSE [two EXCEPT !.content = "none"]
ApplyForgettingCreated(o, i, ch, d) ==  \* mutant
  LET one == IF i \in ch.removed
               THEN [o EXCEPT !.state = "Deleted", !.content = "none"] ELSE o
  IN  IF i \notin ch.modified THEN one ELSE [one EXCEPT !.content = "none"]
ApplyForgettingModified(o, i, ch, d) ==  \* mutant
  LET one == IF i \in ch.removed
               THEN [o EXCEPT !.state = "Deleted", !.content = "none"] ELSE o
  IN  IF i \in ch.created
        THEN [one EXCEPT !.state = IF d[one.id] = one.cls THEN "Valid" ELSE "Deleted",
                         !.content = "none"] ELSE one
\* update_impl_objects() for the handle in a slot with id i, database d.
Apply(o, i, ch, d) ==
  LET Found(x) == [x EXCEPT !.state = IF d[x.id] = x.cls THEN "Valid" ELSE "Deleted",
                            !.content = "none"]
      one == IF i \in ch.removed
               THEN [o EXCEPT !.state = "Deleted", !.content = "none"] ELSE o
      two == IF i \in ch.created THEN Found(one) ELSE one
  IN  IF i \notin ch.modified THEN two
      ELSE IF two.state # "Valid" THEN Found(two) ELSE [two EXCEPT !.content = "none"]

\* update_cache(): the slots of the class, its super- and its subclasses.
Updated(ch, d) ==
  [h \in Handles |->
     LET hit == {i \in Ids : \E c \in Classes : Related(c, ch.cls) /\ slot[c][i] = h}
     IN  IF hit = {} THEN handle[h]
         ELSE Apply(handle[h], CHOOSE i \in hit : TRUE, ch, d)]

\* destroy_obj(): the plug-in marks the handle it was given and reports the
\* removal to update_cache() itself.
destroy_obj(h) ==
  /\ MayWrite /\ InUse(h)
  /\ LET o == Settled(handle[h]) IN
     IF o.state = "Deleted"
     THEN handle' = [handle EXCEPT ![h] = o] /\ UNCHANGED db
     ELSE /\ db[o.id] = o.cls
          /\ db' = [db EXCEPT ![o.id] = None]
          /\ LET ch == [cls |-> o.cls, created |-> {}, modified |-> {}, removed |-> {o.id}]
                 updated == Updated(ch, db')
             IN  handle' = [updated EXCEPT ![h].state = "Deleted", ![h].content = "none"]
  /\ UNCHANGED <<stored, slot, tangled, phase, pending>>

RenameLosingReplaced(c, old, new) ==  \* mutant: the replaced handle is dropped
  /\ slot' = [slot EXCEPT ![c][new] = IF slot[c][old] = None THEN @ ELSE slot[c][old],
                          ![c][old] = None]
  /\ UNCHANGED tangled
RenameKeepingOld(c, old, new) ==  \* mutant: the old slot is not erased
  /\ slot' = [slot EXCEPT ![c][new] = IF slot[c][old] = None THEN @ ELSE slot[c][old]]
  /\ tangled' = IF slot[c][old] = None \/ slot[c][new] = None THEN tangled
                ELSE Append(tangled, slot[c][new])
\* rename_impl_object(): the slot of the new id is taken over.
rename_impl_object(c, old, new) ==
  IF slot[c][old] = None THEN UNCHANGED <<slot, tangled>>
  ELSE /\ slot' = [slot EXCEPT ![c][new] = slot[c][old], ![c][old] = None]
       /\ tangled' = IF slot[c][new] = None THEN tangled
                     ELSE Append(tangled, slot[c][new])

\* rename_object(); the database refuses an id that is in use.
rename_object(h, new) ==
  /\ MayWrite /\ InUse(h)
  /\ LET o == Settled(handle[h])
         refused == o.state = "Deleted" \/ db[new] # None
         replaced == IF slot[o.cls][o.id] = None THEN None ELSE slot[o.cls][new]
     IN  /\ <<o.cls, new>> \in Objects /\ new # o.id
         /\ IF refused
            THEN handle' = [handle EXCEPT ![h] = o] /\ UNCHANGED <<db, slot, tangled>>
            ELSE /\ db[o.id] = o.cls
                 /\ db' = [db EXCEPT ![o.id] = None, ![new] = o.cls]
                 /\ rename_impl_object(o.cls, o.id, new)
                 /\ handle' = [g \in Handles |->
                      IF g = h THEN [o EXCEPT !.id = new]
                      ELSE IF g = replaced THEN [handle[g] EXCEPT !.state = "Unknown"]
                      ELSE handle[g]]
  /\ UNCHANGED <<stored, phase, pending>>

\* Every handle, the tangled ones included, forgets what it knows.
AllUnknown ==
  [h \in Handles |->
     IF handle[h] = None THEN None
     ELSE [handle[h] EXCEPT !.state = "Unknown", !.content = "none"]]

unread_implementation_objects ==
  /\ ImplMutexFree
  /\ handle' = AllUnknown
  /\ UNCHANGED <<db, stored, slot, tangled, phase, pending>>

commit ==
  /\ MayWrite
  /\ stored' = db
  /\ UNCHANGED <<db, handle, slot, tangled, phase, pending>>

abort ==
  /\ MayWrite
  /\ db' = stored
  /\ handle' = AllUnknown
  /\ UNCHANGED <<stored, slot, tangled, phase, pending>>

\* unload() makes the plug-in close the database, and as ~ConfigurationImpl()
\* it ends with clean(): every handle is deleted.
unload ==
  /\ ImplMutexFree
  /\ db' = stored
  /\ handle' = [h \in Handles |-> None]
  /\ slot' = [c \in Classes |-> [i \in Ids |-> None]]
  /\ tangled' = << >>
  /\ phase' = "quiet" /\ pending' = {}
  /\ UNCHANGED stored

----------------------------------------------------------------------------
(* Changes of other processes.                                             *)

\* The plug-in loads a commit: the objects removed, created and modified.
Reload(removed, created, modified) ==
  /\ phase = "quiet" /\ db = stored
  /\ removed \cup created \cup modified # {}
  /\ \A p \in removed \cup modified : db[p[2]] = p[1]
  /\ \A p \in created : db[p[2]] = None
  /\ removed \cap modified = {}
  /\ \A p, q \in created : p[2] = q[2] => p = q
  /\ db' = [i \in Ids |->
       IF \E p \in created : p[2] = i THEN (CHOOSE p \in created : p[2] = i)[1]
       ELSE IF \E p \in removed : p[2] = i THEN None ELSE db[i]]
  /\ stored' = db'
  /\ LET Of(S, c) == {p[2] : p \in {q \in S : q[1] = c}} IN
     pending' = {[cls |-> c, created |-> Of(created, c), modified |-> Of(modified, c),
                  removed |-> Of(removed, c)] :
                   c \in {p[1] : p \in removed \cup created \cup modified}}
  /\ handle' = [h \in Handles |->
       IF h \in Allocated /\ handle[h].content = "current"
          /\ <<handle[h].cls, handle[h].id>> \in removed \cup modified
       THEN [handle[h] EXCEPT !.content = "old"] ELSE handle[h]]
  /\ phase' = "reloaded"
  /\ UNCHANGED <<slot, tangled>>

\* system_cb() locks m_impl_mutex for update_cache().
BeginUpdate ==
  /\ phase = "reloaded"
  /\ phase' = "updating"
  /\ UNCHANGED <<db, stored, handle, slot, tangled, pending>>

\* One ConfigurationChange, in whatever order the plug-in lists them.
UpdateNext(ch) ==
  /\ phase = "updating" /\ ch \in pending
  /\ handle' = Updated(ch, db)
  /\ pending' = pending \ {ch}
  /\ UNCHANGED <<db, stored, slot, tangled, phase>>

EndUpdateEarly ==  \* mutant: leaves the loop before the last change
  /\ phase = "updating"
  /\ phase' = "quiet"
  /\ UNCHANGED <<db, stored, handle, slot, tangled, pending>>
EndUpdate ==
  /\ phase = "updating" /\ pending = {}
  /\ phase' = "quiet"
  /\ UNCHANGED <<db, stored, handle, slot, tangled, pending>>

Next ==
  \/ \E c \in Classes, i \in Ids : get(c, i) \/ create(c, i)
  \/ \E h \in Handles : Access(h) \/ destroy_obj(h)
  \/ \E h \in Handles, i \in Ids : rename_object(h, i)
  \/ unread_implementation_objects
  \/ commit
  \/ abort
  \/ unload
  \/ \E removed, created, modified \in SUBSET Objects : Reload(removed, created, modified)
  \/ BeginUpdate
  \/ \E ch \in pending : UpdateNext(ch)
  \/ EndUpdate

Spec == Init /\ [][Next]_vars

----------------------------------------------------------------------------
TypeOK ==
  /\ db \in Databases /\ stored \in Databases
  /\ handle \in [Handles -> Handle \cup {None}]
  /\ slot \in [Classes -> [Ids -> Handles \cup {None}]]
  /\ tangled \in Seq(Handles)
  /\ phase \in {"quiet", "reloaded", "updating"}
  /\ pending \subseteq Change
  /\ phase = "quiet" => pending = {}

\* clean() deletes every handle exactly once: each is in one slot or, once, in
\* m_tangled_objects.
OwnedOnce ==
  \A h \in Handles :
     Cardinality({p \in Classes \X Ids : slot[p[1]][p[2]] = h})
       + Cardinality({n \in 1..Len(tangled) : tangled[n] = h})
     = IF h \in Allocated THEN 1 ELSE 0

\* A slot holds the handle of the object with its class and id, through any
\* sequence of renames, removals and aborts: get() by id finds the right one.
KeyIsName ==
  \A c \in Classes, i \in Ids :
     slot[c][i] # None => handle[slot[c][i]].id = i /\ handle[slot[c][i]].cls = c

\* A handle that says Valid is of an object that exists, except while a change
\* of another process is being applied: accessing a deleted object throws
\* DeletedObject (Errors.hpp:79-81).
ValidIsStored ==
  phase = "quiet" =>
     \A h \in Allocated : handle[h].state = "Valid" => db[handle[h].id] = handle[h].cls

\* A handle that says Deleted is of an object that does not exist: "the object
\* was deleted and may not be accessed" (ConfigObjectImpl.hpp:30).
DeletedIsGone ==
  phase = "quiet" =>
     \A h \in Allocated : handle[h].state = "Deleted" => db[handle[h].id] # handle[h].cls

\* No valid handle keeps what it read before another process changed it.
FreshContent ==
  phase = "quiet" =>
     \A h \in Allocated : handle[h].state = "Valid" => handle[h].content # "old"
=============================================================================
