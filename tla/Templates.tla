----------------------------- MODULE Templates -----------------------------
(***************************************************************************)
(* The caches of template (DAL) objects, on top of the implementation      *)
(* objects of ImplObjects.                                                 *)
(*                                                                         *)
(* Each registered class T has a Cache<T>: m_cache maps an id to the one   *)
(* template object with that id, m_t_cache the id of a database object to  *)
(* the templates generated from it under another id.  A template is bound  *)
(* to a handle (p_obj); what it has read of it stays until p_was_read is   *)
(* reset.  Every operation here holds m_tmpl_mutex, so the second half of  *)
(* update_cache() is one step.  The generated classes (init(), the getters *)
(* that call check_init()) are external.                                   *)
(***************************************************************************)
EXTENDS Naturals, Sequences, FiniteSets

CONSTANTS
  Classes, Ids, Subclasses, Objects, Handles, None,
  Registered,   \* the classes DalFactory knows, each with a Cache<T>
  Generated,    \* ids of generated objects that no database object has
  Templates,    \* bound: template objects that can be allocated
  MaxChanges,   \* bound: objects that a change in another process concerns
  ReusesNames   \* the client gives an id it has used to another object

VARIABLES
  db, stored, handle, slot, tangled, phase, pending,  \* as in ImplObjects
  changes,  \* what system_cb() was given
  object,   \* the template objects, None when not allocated
  cache,    \* m_cache of each class
  tcache    \* m_t_cache of each class: <<database id, template>>

implVars == <<db, stored, handle, slot, tangled, phase, pending>>
tmplVars == <<object, cache, tcache>>
vars == <<implVars, changes, tmplVars>>

Impl == INSTANCE ImplObjects WITH UsesReplaced <- FALSE, WritesWhileNotified <- FALSE

Keys == Ids \cup Generated
\* What a template has read counts while p_was_read is set: its content is
\* "none" when p_was_read is false.
Template == [handle : Handles, uid : Keys, content : Impl!Contents]
\* As in ImplObjects; and Subclasses are the direct and indirect ones, so a
\* subclass of a subclass is one.
ASSUME ObjectsAssumption ==
  /\ Objects \subseteq Classes \X Ids
  /\ Subclasses \in [Classes -> SUBSET Classes]
  /\ \A c \in Classes : \A k \in Subclasses[c] : Subclasses[k] \subseteq Subclasses[c]
  /\ None \notin Classes \cup Handles \cup Impl!Handle
ASSUME TemplateAssumption ==
  /\ Registered \subseteq Classes
  /\ Generated \cap Ids = {}
  /\ None \notin Templates \cup Template

TmplMutexFree == phase # "updating"
Made == {t \in Templates : object[t] # None}
\* try_cast(): the class itself or one of its superclasses.
try_cast(target, source) == target = source \/ source \in Subclasses[target]
Superclasses(c) == {k \in Classes : c \in Subclasses[k]}

----------------------------------------------------------------------------
Init ==
  /\ Impl!Init
  /\ changes = {}
  /\ object = [t \in Templates |-> None]
  /\ cache = [c \in Registered |-> [k \in Keys |-> None]]
  /\ tcache = [c \in Registered |-> {}]

\* The plug-in's lookups, in database d, of the objects with ids S: a handle
\* for each, found in m_impl_objects or put there.
Lookups(d, S) ==
  {f \in [S -> Handles] :
     /\ \A i, j \in S : f[i] = f[j] => i = j
     /\ \A i \in S : LET found == Impl!get_impl_object(d[i], i) IN
                     f[i] \in IF found = {} THEN Handles \ Impl!Allocated ELSE found}

Inserted(hs, d, f) ==
  [h \in Handles |->
     IF \A i \in DOMAIN f : f[i] # h THEN hs[h]
     ELSE IF hs[h] # None THEN [hs[h] EXCEPT !.state = "Valid"]
     ELSE LET i == CHOOSE i \in DOMAIN f : f[i] = h IN
          [state |-> "Valid", id |-> i, cls |-> d[i], content |-> "none"]]

Slots(d, f) ==
  [c \in Classes |-> [i \in Ids |->
     IF i \in DOMAIN f /\ d[i] = c /\ f[i] \notin Impl!Allocated THEN f[i] ELSE slot[c][i]]]

\* init() reads the attributes through the handle; when the object is deleted
\* throw_init_ex() leaves p_was_read false.
ReadHandle(o) ==
  LET s == Impl!Settled(o) IN
  IF s.state = "Valid" /\ s.content = "none" THEN [s EXCEPT !.content = "current"] ELSE s
init(o, h) ==
  [o EXCEPT !.content = IF h.state = "Valid" THEN h.content ELSE "none"]

New(h, id) == [handle |-> h, uid |-> id, content |-> "none"]
\* set(): the template that was found is bound to the handle it was asked for.
set(o, h) == [o EXCEPT !.handle = h]

\* Cache<T>::get(obj) for the handles hs, T being class[h]; known are the
\* handles as the lookup before left them.
GetEach(class, hs, known, init_object) ==
  \E g \in [hs -> Templates] :
    LET Found(h) == cache[class[h]][known[h].id]
        fresh == {h \in hs : Found(h) = None}
        Put(c, k) == {g[h] : h \in {x \in fresh : class[x] = c /\ known[x].id = k}}
    IN  /\ \A h, k \in hs : g[h] = g[k] => h = k
        /\ \A h \in hs : IF h \in fresh THEN g[h] \notin Made ELSE g[h] = Found(h)
        /\ handle' = [h \in Handles |->
             IF init_object /\ h \in fresh THEN ReadHandle(known[h]) ELSE known[h]]
        /\ object' = [t \in Templates |->
             IF \A h \in hs : g[h] # t THEN object[t]
             ELSE LET h == CHOOSE h \in hs : g[h] = t IN
                  IF h \notin fresh THEN set(object[t], h)
                  ELSE IF init_object THEN init(New(h, known[h].id), handle'[h])
                  ELSE New(h, known[h].id)]
        /\ cache' = [c \in Registered |-> [k \in Keys |->
             IF Put(c, k) = {} THEN cache[c][k] ELSE CHOOSE t \in Put(c, k) : TRUE]]

\* Look up the objects with ids S and get each as an object of class[id].
GetObjects(S, class, hs, init_object) ==
  /\ TmplMutexFree
  /\ \E f \in Lookups(db, S) :
       LET classOf == [h \in {f[i] : i \in S} |-> class[CHOOSE i \in S : f[i] = h]] IN
       /\ slot' = Slots(db, f)
       /\ GetEach(classOf, DOMAIN classOf, Inserted(hs, db, f), init_object)
  /\ UNCHANGED <<db, stored, tangled, phase, pending, changes, tcache>>

Stored == {i \in Ids : db[i] # None}
Castable(c, S) == {i \in S : try_cast(c, db[i])}

\* get<T>(id): what the cache has is returned without further ado.
get_by_id(c, id, init_object) ==
  /\ cache[c][id] = None
  /\ id \in Castable(c, Stored)
  /\ GetObjects({id}, [i \in {id} |-> c], handle, init_object)

\* get<T>(obj): the client has the object as one of class T.
get_by_object(c, h, init_object) ==
  /\ TmplMutexFree
  /\ Impl!InUse(h) /\ try_cast(c, handle[h].cls)
  /\ GetEach([x \in {h} |-> c], {h}, handle, init_object)
  /\ UNCHANGED <<db, stored, slot, tangled, phase, pending, changes, tcache>>

get_all(c, init_object) ==
  LET S == Castable(c, Stored) IN GetObjects(S, [i \in S |-> c], handle, init_object)

\* ref<T>(): some objects of the relationship's class, read through the handle.
_ref(c, h, S, init_object) ==
  /\ TmplMutexFree
  /\ Impl!InUse(h) /\ Impl!Settled(handle[h]).state = "Valid"
  /\ GetObjects(S, [i \in S |-> c], [handle EXCEPT ![h] = ReadHandle(@)], init_object)

AnyReferencing(c, S) == S  \* mutant: the class of what refers is not checked
\* Of the objects that refer to one, those that can be cast.
Referencing(c, S) == Castable(c, S)

\* referenced_by<V>(): the stored objects S refer to the template's object.
referenced_by(c, t, S, init_object) ==
  /\ TmplMutexFree
  /\ LET h == object[t].handle
         V == Referencing(c, S)
     IN  /\ Impl!Settled(handle[h]).state = "Valid"
         /\ GetObjects(V, [i \in V |-> c], [handle EXCEPT ![h] = Impl!Settled(@)], init_object)

\* DalFactory::functions(): the class itself, or any registered base class.
functions(c, upcast) ==
  IF c \in Registered THEN {c}
  ELSE IF upcast THEN Superclasses(c) \cap Registered ELSE {}

\* make_dal_objects() of the objects S; at the first one without a class it
\* throws, and those before it stay in the caches.
get_rel_objects(t, S, upcast) ==
  /\ TmplMutexFree
  /\ LET h == object[t].handle
         without == {i \in S : functions(db[i], upcast) = {}}
     IN  /\ Impl!Settled(handle[h]).state = "Valid"
         /\ \E made \in SUBSET (S \ without) :
              /\ without = {} => made = S
              /\ \E class \in [made -> Registered] :
                   /\ \A i \in made : class[i] \in functions(db[i], upcast)
                   /\ GetObjects(made, class, [handle EXCEPT ![h] = ReadHandle(@)], FALSE)

GenerateMisindexed(c, h, id) ==  \* mutant: m_t_cache by the template's own id
  \/ /\ cache[c][id] # None
     /\ object' = [object EXCEPT ![cache[c][id]] = set(@, h)]
     /\ UNCHANGED <<cache, tcache>>
  \/ /\ cache[c][id] = None
     /\ \E t \in Templates \ Made :
          /\ object' = [object EXCEPT ![t] = New(h, id)]
          /\ cache' = [cache EXCEPT ![c][id] = t]
          /\ tcache' = IF id = handle[h].id THEN tcache
                       ELSE [tcache EXCEPT ![c] = @ \cup {<<id, t>>}]
\* Cache<T>::get(obj, id).
Generate(c, h, id) ==
  \/ /\ cache[c][id] # None
     /\ object' = [object EXCEPT ![cache[c][id]] = set(@, h)]
     /\ UNCHANGED <<cache, tcache>>
  \/ /\ cache[c][id] = None
     /\ \E t \in Templates \ Made :
          /\ object' = [object EXCEPT ![t] = New(h, id)]
          /\ cache' = [cache EXCEPT ![c][id] = t]
          /\ tcache' = IF id = handle[h].id THEN tcache
                       ELSE [tcache EXCEPT ![c] = @ \cup {<<handle[h].id, t>>}]

\* get<T>(obj, id) for an id of the client's choice.
generate(c, h, id) ==
  /\ TmplMutexFree
  /\ Impl!InUse(h) /\ try_cast(c, handle[h].cls)
  /\ ReusesNames \/ \A k \in Registered :
                      cache[k][id] # None => object[cache[k][id]].handle = h
  /\ Generate(c, h, id)
  /\ UNCHANGED <<implVars, changes>>

\* cast<TARGET>(): the template of another class, by the id of this one.
cast(c, t) ==
  /\ TmplMutexFree
  /\ LET h == object[t].handle IN
     /\ try_cast(c, handle[h].cls) /\ handle[h].state = "Valid"
     /\ Generate(c, h, object[t].uid)
  /\ UNCHANGED <<implVars, changes>>

\* get_algo_objects(): class4algo() picks a class with the algorithm.
get_algo_objects(c, t) ==
  /\ TmplMutexFree
  /\ LET h == object[t].handle IN
     /\ try_cast(c, handle[h].cls)
     /\ Generate(c, h, object[t].uid)
  /\ UNCHANGED <<implVars, changes>>

\* create<T>().
create(c, i, init_object) ==
  /\ TmplMutexFree /\ Impl!MayWrite
  /\ <<c, i>> \in Objects /\ db[i] = None
  /\ db' = [db EXCEPT ![i] = c]
  /\ \E f \in Lookups(db', {i}) :
       /\ slot' = Slots(db', f)
       /\ GetEach([h \in {f[i]} |-> c], {f[i]}, Inserted(handle, db', f), init_object)
  /\ UNCHANGED <<stored, tangled, phase, pending, changes, tcache>>

----------------------------------------------------------------------------
(* Getters of the generated classes.                                       *)

\* check_init() tests p_was_read before it locks m_tmpl_mutex: when init() runs,
\* another getter or a notification may have come in between.
check_init(t) ==
  /\ TmplMutexFree
  /\ LET h == object[t].handle IN
     /\ handle' = [handle EXCEPT ![h] = ReadHandle(@)]
     /\ object' = [object EXCEPT ![t] = init(@, handle'[h])]
  /\ UNCHANGED <<db, stored, slot, tangled, phase, pending, changes, cache, tcache>>

\* DalObject::unread().
unread(t) ==
  /\ LET h == object[t].handle IN
     /\ handle' = [handle EXCEPT ![h] = Impl!Settled(@)]
     /\ object' = IF handle'[h].state = "Valid" THEN [object EXCEPT ![t].content = "none"] ELSE object
  /\ UNCHANGED <<db, stored, slot, tangled, phase, pending, changes, cache, tcache>>

----------------------------------------------------------------------------
(* Changes.                                                                *)

Unread(S) == [t \in Templates |-> IF t \in S THEN [object[t] EXCEPT !.content = "none"] ELSE object[t]]

\* set_cache_unread(): the templates of objects with these ids, and those
\* generated from them.
Named(c, ids) == ({cache[c][i] : i \in ids} \ {None}) \cup {p[2] : p \in {q \in tcache[c] : q[1] \in ids}}

ConcernedExactly(ch) ==  \* mutant: only the cache of the class itself
  UNION {Named(c, ch.removed \cup ch.created \cup ch.modified) : c \in Registered \cap {ch.cls}}
\* update<T>(): for the class of the change, its superclasses and subclasses.
Concerned(ch) ==
  UNION {Named(c, ch.removed \cup ch.created \cup ch.modified) :
           c \in {k \in Registered : Impl!Related(k, ch.cls)}}

\* A change in another process makes what was read of the objects old.
Reload(removed, created, modified) ==
  /\ Cardinality(removed \cup created \cup modified) <= MaxChanges
  /\ Impl!Reload(removed, created, modified)
  /\ changes' = pending'
  /\ object' = [t \in Templates |->
       IF t \in Made /\ object[t].content = "current"
          /\ LET o == handle[object[t].handle] IN <<o.cls, o.id>> \in removed \cup modified
       THEN [object[t] EXCEPT !.content = "old"] ELSE object[t]]
  /\ UNCHANGED <<cache, tcache>>

BeginUpdate == Impl!BeginUpdate /\ UNCHANGED <<changes, tmplVars>>
UpdateNext(ch) == Impl!UpdateNext(ch) /\ UNCHANGED <<changes, tmplVars>>

\* The second loop of update_cache().
EndUpdate ==
  /\ Impl!EndUpdate
  /\ object' = Unread(UNION {Concerned(ch) : ch \in changes})
  /\ changes' = {}
  /\ UNCHANGED <<cache, tcache>>

\* The plug-in reports what was destroyed to update_cache() itself.
destroy(h) ==
  /\ Impl!destroy_obj(h)
  /\ LET ids == {i \in Ids : db'[i] # db[i]} IN
     object' = Unread(Concerned([cls |-> handle[h].cls, removed |-> ids,
                                 created |-> {}, modified |-> {}]))
  /\ UNCHANGED <<changes, cache, tcache>>

RenameKeepingOld(c, old, new) ==  \* mutant: the entry of the old id is not erased
  LET concerned == {c} \cup Superclasses(c)
      renamed == {cache[k][old] : k \in concerned \cap Registered} \ {None}
  IN
  /\ cache' = [k \in Registered |->
       IF k \in concerned /\ cache[k][old] # None
       THEN [cache[k] EXCEPT ![new] = cache[k][old]] ELSE cache[k]]
  /\ object' = [t \in Templates |-> IF t \in renamed THEN [object[t] EXCEPT !.uid = new] ELSE object[t]]
  /\ tcache' = [k \in Registered |->
       IF k \in concerned THEN {IF p[1] = old THEN <<new, p[2]>> ELSE p : p \in tcache[k]}
       ELSE tcache[k]]
RenameNotGenerated(c, old, new) ==  \* mutant: m_t_cache is left
  LET concerned == {c} \cup Superclasses(c)
      renamed == {cache[k][old] : k \in concerned \cap Registered} \ {None}
  IN
  /\ cache' = [k \in Registered |->
       IF k \in concerned /\ cache[k][old] # None
       THEN [cache[k] EXCEPT ![new] = cache[k][old], ![old] = None] ELSE cache[k]]
  /\ object' = [t \in Templates |-> IF t \in renamed THEN [object[t] EXCEPT !.uid = new] ELSE object[t]]
  /\ UNCHANGED tcache
\* _rename_object() in the caches of the class and of its superclasses.
_rename_object(c, old, new) ==
  LET concerned == {c} \cup Superclasses(c)
      renamed == {cache[k][old] : k \in concerned \cap Registered} \ {None}
  IN
  /\ cache' = [k \in Registered |->
       IF k \in concerned /\ cache[k][old] # None
       THEN [cache[k] EXCEPT ![new] = cache[k][old], ![old] = None] ELSE cache[k]]
  /\ object' = [t \in Templates |-> IF t \in renamed THEN [object[t] EXCEPT !.uid = new] ELSE object[t]]
  /\ tcache' = [k \in Registered |->
       IF k \in concerned THEN {IF p[1] = old THEN <<new, p[2]>> ELSE p : p \in tcache[k]}
       ELSE tcache[k]]

Used(i) == (\E c \in Classes : slot[c][i] # None) \/ (\E c \in Registered : cache[c][i] # None)

rename_object(h, new) ==
  /\ ReusesNames \/ ~Used(new)
  /\ Impl!rename_object(h, new)
  /\ IF db' = db THEN UNCHANGED tmplVars ELSE _rename_object(handle[h].cls, handle[h].id, new)
  /\ UNCHANGED <<changes>>

_unread_template_objects == object' = Unread((UNION {{cache[c][k] : k \in Keys} : c \in Registered}) \ {None})

unread_all_objects(unread_implementation_objs) ==
  /\ TmplMutexFree
  /\ IF unread_implementation_objs THEN Impl!unread_implementation_objects ELSE UNCHANGED implVars
  /\ _unread_template_objects
  /\ UNCHANGED <<changes, cache, tcache>>

abort ==
  /\ Impl!abort
  /\ _unread_template_objects
  /\ UNCHANGED <<changes, cache, tcache>>

\* The client uses no template any more: all are deleted.
unload ==
  /\ TmplMutexFree
  /\ Impl!unload
  /\ changes' = {}
  /\ object' = [t \in Templates |-> None]
  /\ cache' = [c \in Registered |-> [k \in Keys |-> None]]
  /\ tcache' = [c \in Registered |-> {}]

\* Operations on ConfigObjects that concern no template.
ImplStep ==
  /\ \/ \E c \in Classes, i \in Ids : Impl!get(c, i)
     \/ \E h \in Handles : Impl!Access(h)
     \/ Impl!commit
  /\ UNCHANGED <<changes, tmplVars>>

Next ==
  \/ \E c \in Registered, init_object \in BOOLEAN :
       \/ \E i \in Ids : get_by_id(c, i, init_object) \/ create(c, i, init_object)
       \/ \E h \in Handles : get_by_object(c, h, init_object)
  \/ \E c \in Registered : get_all(c, TRUE)
  \/ \E c \in Registered, h \in Handles : \E S \in SUBSET Castable(c, Stored) : _ref(c, h, S, FALSE)
  \/ \E t \in Made, S \in SUBSET Stored : \E c \in Registered : referenced_by(c, t, S, TRUE)
  \/ \E t \in Made, S \in SUBSET Stored, upcast \in BOOLEAN : get_rel_objects(t, S, upcast)
  \/ \E c \in Registered, h \in Handles, id \in Generated : generate(c, h, id)
  \/ \E c \in Registered, t \in Made : cast(c, t) \/ get_algo_objects(c, t)
  \/ \E t \in Made : check_init(t) \/ unread(t)
  \/ \E h \in Handles : destroy(h) \/ \E i \in Ids : rename_object(h, i)
  \/ \E b \in BOOLEAN : unread_all_objects(b)
  \/ abort
  \/ unload
  \/ LET present == {p \in Objects : db[p[2]] = p[1]} IN
     \E removed, modified \in SUBSET present, created \in SUBSET (Objects \ present) :
       Reload(removed, created, modified)
  \/ BeginUpdate
  \/ \E ch \in pending : UpdateNext(ch)
  \/ EndUpdate
  \/ ImplStep

Spec == Init /\ [][Next]_vars

----------------------------------------------------------------------------
TypeOK ==
  /\ Impl!TypeOK
  /\ changes \subseteq Impl!Change
  /\ object \in [Templates -> Template \cup {None}]
  /\ cache \in [Registered -> [Keys -> Templates \cup {None}]]
  /\ tcache \in [Registered -> SUBSET (Ids \X Templates)]

\* Every template is in one cache, once and under its own UID, through any
\* renames: a client has one object per id, and ~Cache() deletes it once.
OneTemplatePerId ==
  \A t \in Made : \E c \in Registered :
    /\ cache[c][object[t].uid] = t
    /\ \A d \in Registered, k \in Keys : cache[d][k] = t => d = c /\ k = object[t].uid

\* A template of class T is bound to an object of class T or a subclass.
CastIsSafe ==
  \A c \in Registered, k \in Keys :
    cache[c][k] # None => try_cast(c, handle[object[cache[c][k]].handle].cls)

\* A notification finds every template of an object: under the object's
\* present id in m_cache, or in m_t_cache when it was generated.
FoundByNotification ==
  \A c \in Registered, k \in Keys :
    LET t == cache[c][k] IN
    t # None => LET i == handle[object[t].handle].id IN k = i \/ <<i, t>> \in tcache[c]

\* "After implementation object destruction a method invoked on corresponding
\* DAL objects will throw DeletedObject exception"
\* (ConfigPackages.doxygen.hpp:982-983): what a template says is valid exists.
DeletedThrows ==
  phase = "quiet" =>
    \A t \in Made : LET o == handle[object[t].handle] IN o.state = "Valid" => db[o.id] = o.cls

\* When no notification is in progress, a getter that does not read returns
\* what the object holds since the last reported change.
FreshTemplate ==
  phase = "quiet" =>
    \A t \in Made : handle[object[t].handle].state = "Valid" => object[t].content # "old"
=============================================================================
