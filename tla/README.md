# conffwk: models, checks and proofs

conffwk is the configuration framework of DUNE-DAQ: a C++ library (with Python
bindings) that gives a process typed access to an object database through a
plug-in, caches what it reads at two levels, and tells the process when other
processes change the database. A Python layer adds classes generated from the
schema and a cache of its own. This directory holds TLA+ modules of all of these,
the TLC runs that check them and the TLAPS proofs about them. `src/...` below is
relative to the repository's root; `Configuration.cpp` is
`src/Configuration.cpp`, `Configuration.hpp` is `include/conffwk/Configuration.hpp`,
`*.py` are in `python/conffwk`.

## 1. Inventory

| component | state | operations | what makes it correct |
|---|---|---|---|
| mutexes of `Configuration` | `m_tmpl_mutex`, `m_impl_mutex`, `m_actn_mutex`, `m_else_mutex`, one per `ConfigObjectImpl`, one per `DalObject` | every public operation | no race on what each mutex protects, no circular wait, every call returns |
| subscriptions and notification | `m_callbacks`, `m_pre_callbacks`, the plug-in's registration | `subscribe`, `unsubscribe`, `reset_subscription`, `system_pre_cb`, `system_cb` | the registration covers all subscriptions and nothing else; every subscriber hears of every commit that concerns it, in order and in one go |
| implementation objects | `m_impl_objects`, `m_tangled_objects`, each handle's `m_state`, `m_id`, `m_class_name` | get, create, destroy, rename, commit, abort, unload, `unread_*`, `update_impl_objects` | a slot names its handle; a handle is owned once; states agree with the database |
| ConfigObject | pointer to a handle | typed accessors, destroy, rename | throws when the object is deleted |
| template (DAL) objects | `Cache<T>::m_cache`, `m_t_cache`, `p_was_read`, `p_obj`, `p_UID` | `get`, `find`, `create`, `update`, `_rename_object`, `cast` | one template per id, fresh after a notification, bound to a handle of its class |
| schema caches | `p_superclasses`, `p_subclasses`, class descriptions | load, includes, abort, unload, `get_class_info`, export | agree with the loaded schema |
| DalFactory | registered classes, interned names | `functions`, `class4algo` | what it picks is a class the object can be cast to |
| actions, converters | two registries | register, remove, call | consistent under concurrent use |
| Python `Configuration` | `__cache__[class][id]`, `databases`, `active_database` | `add_dal`, `update_dal`, `destroy_dal`, `get_dal(s)`, includes | stores what it was given and nothing else; the cache shows the database |
| Python DAL generation, coercion | `__schema__`, `__dal__`, ranges and defaults | `generate`, `update`, `decode_range`, `coerce`, `check_range` | bases before classes; an attribute takes exactly the values of its declaration |
| plug-in (external) | the database, the registration, the open files | everything virtual in `ConfigurationImpl` | not in the repository |
| printing, versions, bindings, tools | none | pass-through, formatting | not modelled |

How they interact. A client thread calls a `Configuration`; the operation locks
some of the mutexes and calls the plug-in, which calls back into the
implementation cache. The plug-in's own thread calls `system_pre_cb()`, loads
the changes, and calls `system_cb()`, which runs the actions under
`m_impl_mutex` and `m_actn_mutex`, updates both caches under `m_tmpl_mutex` and
`m_impl_mutex`, and runs the users' callbacks under `m_else_mutex`; callbacks
call `get()`. `destroy_obj()` reaches `update_cache()` through the plug-in. A
Python `Configuration` derives from the C++ one: it asks for class descriptions
to fill `__schema__`, generates a class for each, and keeps DAL objects that it
writes back through ConfigObjects, recursively.

What is hard to test: lock orders of operations that rarely meet; subscriptions
that change between the steps of a notification; a plug-in that throws half-way;
sequences of renames, destroys and aborts that leave two handles for one object;
templates that a notification no longer finds; caches of the schema that outlive
the files; recursive writes over cycles of renamed, unread and read-only
objects; ranges written in three number bases. PROJECT.json lists these hazards
line by line.

## 2. Modules

| module | role |
|---|---|
| `ConfLocks`, `MCConfLocks` | the critical sections of all operations, interleaved |
| `ConfLocksProof` | a discipline on scripts, which operations break it, and race and deadlock freedom of those that do not |
| `ChangeFeed` | abstract: what subscribers are promised |
| `Subscriptions`, `MCSubscriptions` | detailed: subscriptions, registration, delivery |
| `SubscriptionsProof` | its invariants, and that it implements `ChangeFeed` |
| `ImplObjects`, `MCImplObjects` | the implementation-object cache against the database |
| `ImplObjectsProof` | types, and that slots name their handles |
| `ImplStatesProof` | that a handle has one owner, and that what it says of its object is so |
| `Templates`, `MCTemplates` | the template caches, composed with `ImplObjects` |
| `TemplatesProof` | types, safe casts, one template per id |
| `TemplateNotesProof` | what a notification finds and refreshes |
| `SchemaCaches` | inheritance maps and class descriptions against the open files |
| `Coercion` | ranges, defaults and assigned values of attributes (pure) |
| `PySchema`, `MCPySchema` | the Python layer's schema and classes, over `SchemaCaches` and `Coercion` |
| `SchemaCachesProof` | that both layers agree with the files, and that coercion takes what the schema describes |
| `PyDal`, `MCPyDal` | Python DAL objects, their cache and the database |
| `PyDalProof` | one DAL of a name, no dangling references, the cache reflects the database, what recursive calls find, write and leave alone |

### ConfLocks
An operation is a *script*: the locks, unlocks, reads and writes its body makes,
in order (`Under(m, body)` is a `std::lock_guard`). Lines and branches between
them are left out; where an operation has several paths, the script is the one
that takes the most locks. `owner`, `call` and `pc` are the mutexes, the call
each thread is in and its position. There are 53 scripts, of the Configuration, of
ConfigObject, of DalObject and of the bindings and the exports that read the same
data. "obj" and "dal" stand for the mutexes of one object everyone contends for:
with distinct objects there is less contention; "dal2" is the mutex of a template
object that the first is cast to or refers to. "handle" and "id" are the state and
content of the contended handle and its id. `update_cache` takes the template
mutexes one at a time, the script takes one.

A value of an attribute and a relationship are read by two scripts: for the second
(`read_relation`) the plug-in gets or inserts the related implementation objects, with
whatever mutexes the caller holds. A template object reads its relationships when it is
made or read again (`init`, through `_ref()`), and holds `m_tmpl_mutex` and its own
mutex then, not `m_impl_mutex`.

Assumed of the plug-in: it reads and writes values under the handle's mutex
(`plugin_get`, `plugin_set`), and answers a relationship with handles of the cache. The source suggests it without showing it: the mutex is
for "protecting concurrent access to this object" (`ConfigObjectImpl.hpp:327`), and
`cast()`, which holds it, calls nothing that reads a value. Left out: the
children that `init(true)` initialises, a relationship set to the object itself,
and what happens inside a container (iterators after a rehash or an erase).

The discipline that `ConfLocksProof` states has the order else, tmpl, impl, dal,
dal2, obj, actn, and for each shared datum the mutex that is meant for it
(`Guard`). What keeps it and what does not is computed from the scripts: `Unguarded` has,
for each datum, the operations that access it without its mutex, `Ungated` the operations
that can close a circle.

### Subscriptions
`callbacks` and `preCallbacks` are `m_callbacks` and `m_pre_callbacks`;
`registered` is what the plug-in was last told; `phase` is the position of the
notification thread: *announcing* in `system_pre_cb()`, *reloading* in the
plug-in, *updating* and *locking* in `system_cb()` before and after
`m_callbacks.empty()`, *delivering* with `m_else_mutex` held. `subscribe()` and
`unsubscribe()` hold `m_else_mutex` from end to end, so each is one action that
is disabled while the mutex is held, including the plug-in's failure. A user's
function returns or throws: `running` becomes FALSE when the exception leaves a
`noexcept` function. `since` and `received` are history variables.

Assumed of the plug-in: it reports at least the changes its registration
`Matches` and at most those it `Concerns` (derived classes, creations of named
objects); a commit is handled after the previous one; when `subscribe` or
`unsubscribe` throws, it keeps the registration it had.

`ChangeFeed` is the promise: `Commit` makes a commit due to every subscriber
whose criteria name one of its changes, and `Notify` takes the oldest due commit
and hands over changes of one commit, all the wanted ones among them. `Due` in
`Subscriptions` is the refinement mapping of the abstract `due`.

### ImplObjects
`slot[c][i]` is `m_impl_objects`, `tangled` is `m_tangled_objects`, `handle` the
`ConfigObjectImpl`s with their state, id, class, and whether what they have read
is still current. `db` is the database as the process sees it and `stored` the
committed one. `Reload` is another process's commit entering through the
plug-in, `BeginUpdate`, `UpdateNext` and `EndUpdate` the loop of
`update_cache()` under `m_impl_mutex`; client accesses interleave with its steps.
`Updated` applies one ConfigurationChange to the class, its super- and its
subclasses at once: the three calls touch different slots or repeat an
idempotent step.

Assumed of the plug-in: a rename to an id in use is refused; `destroy()` marks
the handle it is given and reports the removal to `update_cache()` (this is what
`m_conf` in `ConfigurationImpl` is for); `reset()` looks the object up by the
handle's own id.

Two rules of use are constants. `UsesReplaced`: the client uses a handle whose
slot a rename has given to another. `WritesWhileNotified`: the client writes
between the plug-in's reload and `system_cb()`'s lock. The run takes them
as FALSE. `KeyCorrect` takes the first as FALSE, `DeletedCorrect` and `FreshCorrect` both;
`ValidCorrect` takes the first and `StableClasses`: no id is used by a class and by one of
its super- or subclasses (each id of the run has one class). With an id that is an object
of both in turn, TLC finds `ValidIsStored` violated: `get_impl_object()` takes the handle
of the subclass for the object of the superclass. With `UsesReplaced` TRUE, TLC finds
`KeyIsName`, `ValidIsStored`, `DeletedIsGone` and `FreshContent` violated; with
`WritesWhileNotified` TRUE, `DeletedIsGone` and `FreshContent` (section 5).

### Templates
`object` are the templates with the handle they are bound to (`p_obj`), their id
(`p_UID`) and what they have read (`content`, "none" while `p_was_read` is
false); `cache[T]` is `m_cache` and `tcache[T]` is `m_t_cache` of `Cache<T>`.
`Impl` is an instance of `ImplObjects`, so each operation is the step of both
caches that the code makes under its mutexes: handles are looked up first
(`Lookups`, `Inserted`, `Slots`), then templates (`GetEach`). A relationship or
`get_rel_objects()` reaches any set of objects, since what refers to what is
data; `functions` is DalFactory's choice of a registered base class, made in the
order of an unordered set and therefore arbitrary. `EndUpdate` is the second
loop of `update_cache()`.

`ReusesNames` is a rule of use: the client gives an id to an object although
another object, or a generated template, had it. `Cache<T>::get()` then binds
the old template to the new handle without resetting `p_was_read` or `m_t_cache`
(`Configuration.hpp:1925`), and `_rename_object()` overwrites an entry: with TRUE,
`OneTemplatePerId`, `FoundByNotification`, `FreshTemplate` and `DeletedThrows` are violated. What is
found and refreshed also depends on `OneFamily`: an id is used by one class of those
that have a common superclass. The constants have one assumption of substance:
`Subclasses`, the plug-in's answer, is transitive.

### SchemaCaches
A file declares classes with their superclasses and attributes; the plug-in
(external) has a set of open files, what each data file includes, and refuses to
hold files that declare a class in two ways or lack a superclass. `p_superclasses`
and `p_subclasses` are the maps of the same names, `p_direct` and `p_all` the two
caches of descriptions. All operations hold `m_impl_mutex` throughout, so each
is one step; `unload(throws)` is the `unload()` whose `m_impl->unsubscribe()`
throws or not. `session` (the files opened since `unload()`) is a history
variable. `Opened` and the tables `Schemas` and `Superclasses` are the plug-in's
answers.

### Coercion
`coerce`, `check_range`, `decode_range`, `str2integer`, `setattr`, `getattr` are the
functions of schema.py and of `DalBase`, over Python values tagged with their
type. A text is what `int()` makes of it in base 8, 10 and 16 (`Reads`); patterns
and dates are the sets of texts they match. An item of a range is the sequence of
its bounds. The last part (`Conforms`) is what the schema language says, stated
apart from the code: the reference definition the properties compare with.
`NumeralsAssumption` says what numerals are (a text denotes what `int()` makes of it in the
base that its beginning selects), `LimitsAssumption` that no type is wider than
`sys.maxsize` or the `2 ** 64 - 1` of the code.

### PySchema
One Configuration at a time, of a C++ or a Python client. `data` is
`__schema__.data`, `dal` the process-wide `__dal__`, `keys` the keys of
`__cache__`. A Python operation that refreshes the schema (construction,
`module`, `create_db`, `add_include`) is the C++ call, `update` (schema.Cache.update
and the start of `generate()`), one `generate` for each turn of its loop, and
`associate`. The order in which the loop meets the classes is any order by number
of direct superclasses, as `sorted()` over an unordered map gives. `synced` is
FALSE while files opened by `load()`, which does not tell the Python layer, are
unknown to it. `type()` refuses bases that it cannot put in one order, such as a class
before one derived from it, and which order the plug-in lists them in is its own affair:
`Linearisable` are the classes it accepts. `fail` is the TypeError it raises otherwise
(`dal.py:655`), which goes through the operation: the classes made so far stay in
`__dal__`, none is noted in the schema, `__cache__` gets no keys, and a Configuration that
was being constructed is gone. `PythonKnowsClasses` is therefore about the time before a
file opened since `unload()` declares a class that is not linearisable. `HierarchyAssumption` is a limit of the module: files that disagree
about the superclasses of a class are left to `SchemaCaches`, because a class in
`__dal__` is never made again. `TablesAssumption` says that attributes are as the
schema language allows them (`WellFormed`; a default such as `1,,2`, of which
`map_coercion()` makes a TypeError that ends the refresh, `schema.py:296`, is not) and that clients assign scalars, lists of
scalars or None; `FilesAssumption` and `ClassesAssumption` that a schema is over
finitely many classes and no class is its own superclass.

### PyDal
A DAL is an identity with a name, a pending old name (`__old_id`), one attribute,
one multi-value relationship, and the list of handles the relationship was read
as (`lazy`) until it is looked at. `update_dal`, `add_dal` and `__getall__` recurse:
`call.stack` holds a frame for each call, `call.done` is the dictionary (`cache`,
`comp`) that the calls share, and an action is one piece of a call, so a failure
leaves what was done so far. A client acts between calls: a program has one
thread. `dirty`, `gone` and `blurred` are auxiliary: the DALs that the program made different from
the database (by writing them, by giving a DAL they are related to another name, or by
bringing them into the cache without writing them: add_dal of an object that exists,
update_dal that ignores an error), the names of the objects that `destroy_dal` destroyed,
and that a call failed or two DALs of one name were renamed.
`CacheReflects` says of a cached DAL that is not dirty, and not related to one whose
renaming is still to be written, that it has the attribute of its object and every
reference, and that what its relationship names in excess is in `gone`. Such stale
references do occur: `destroy_dal()` takes the destroyed object out of the database and
its DAL out of the cache (`Configuration.py:629`), and leaves the DALs related to it as
they are, so that `get_dal()` goes on returning a relationship the database has not.
After a failure (`blurred`, which nothing resets, as the code undoes nothing) the property
says nothing any more. `copy` is of a DAL whose relationship was read; of any other it is
`SetAttribute`, `Read` and `copy` in turn, which is what the code's getter does, with the
attribute copied when it raises. `DalAssumption` and
`StoredAssumption` say that a class is among its own `oks_types()`, that None is none
of the values, and that the database is opened without dangling references.

## 3. Runs

| run | configuration | result |
|---|---|---|
| `locks` | `MCConfLocks.cfg` | passes: 263,510 states |
| `lock_discipline` | `ConfLocksAll.cfg` | passes: 1,146,587 states |
| `locks_unload` | `ConfLocksUnload.cfg` | `NoCircularWait` violated |
| `subscriptions` | `MCSubscriptions.cfg` | passes: 633,776 states |
| `subscriptions_derived` | `SubscriptionsDerived.cfg` | `DerivedClassesReported` violated |
| `subscriptions_own_list` | `SubscriptionsOwnList.cfg` | `OwnListOfChanges` violated |
| `impl_objects` | `MCImplObjects.cfg` | passes: 139,433 states |
| `templates` | `MCTemplates.cfg` | passes: 468,798 states |
| `schema` | `MCPySchema.cfg` | passes: 199,277 states |
| `schema_subclasses` | `SchemaSubclasses.cfg` | `SubclassesCurrent` violated |
| `python_defaults` | `PythonDefaults.cfg` | `DefaultConforms` violated |
| `python_dal` | `MCPyDal.cfg` | passes: 4,846,101 states |

**locks.** Two client threads and the notification thread, one call each: any of
nine client operations (`subscribe`, `get_object`, `load`, `abort`, `rename_object`,
`set_value`, `unread_implementation_objects`, `get_by_object`, `get_all`), and callbacks
that do nothing or call `get_all`, which takes all that a callback's `get()` can take.
Every distinct pattern of locks that keeps the discipline is among the nine (the
operations left out repeat one of them: `unsubscribe` is `subscribe`, `commit` is a
part of `get_all`, and so on); `rename_object` breaks the order of the discipline, but
none of the others locks a template object first. One call each is enough because a
script starts and ends without locks; a cycle of three needs three threads.
`Protected` has the templates, the schema, the actions and the subscriptions. It leaves
out the implementation objects, because on these the operations of the run do race:
`get_by_object`, `get_all` and the callbacks make templates that read relationships,
with `m_tmpl_mutex` alone, while `get_object` inserts under `m_impl_mutex`: with
`implObjs` in `Protected`, TLC finds `NoDataRace` violated, and so it does with
`get_by_object` and `get_object` alone. It also leaves out `wasRead` (p_was_read) and `callbackCount`
(`m_callbacks.empty()`), which the code reads without a lock on purpose, and `handle` and
`id`, which some operations read or change under `m_impl_mutex` and others under the
object's mutex; their consequences are in `Templates`, `Subscriptions` and `ImplObjects`.
No operation of this run writes the converters: what they race with is in the next run.

**lock_discipline.** Two client threads and the notification thread, one call each,
of *all* operations. `RacesOnlyUnguarded`: in every race, one of the two threads is in an
operation that `Unguarded` of `ConfLocksProof` lists for that datum. The rows to look at
first are those of the caches (`implObjs`: whatever makes or reads a template object, and
whatever reads a relationship; `tmplObjs`: `get_algo_objects` and the profile), of the
converters, which every reading of a value looks up, and of the schema, which the exports
and casts read while `load()` may replace it. `CirclesOnlyUngated`: in every circle of
waiting threads one is in `remove_include`, `destroy_obj`, `unload`, the destructor,
`cast`, `set_object` or `set_object_back` (the setters of a relationship lock the other
object and call `action_on_update()` with their own mutex held). Deadlock is not checked:
`unload` and a callback do stop each other.

**subscriptions.** Two subscribers, one pre-subscriber, five criteria
(everything, base class, derived class, object, class and object), three
transactions (creation, removal with a modification of another class, creation
in the derived class), two commits. Two commits are what order and a backlog
need; two subscribers what unions, filters and the "only one subscription" path
need. `FairSpec` has weak fairness of the notification thread: the plug-in's
thread runs, and the users' functions return. `m_else_mutex` is only ever taken
for one atomic step by others, so weak fairness is all that is needed.

**impl_objects.** A class and its subclass, three ids, four handles (symmetric),
arbitrary sets of removals, creations and modifications in each reload. Four
handles let two be replaced while two slots are filled. Each id has one class.
A run out of handles only stops further allocations; deadlock is checked and
does not occur.

**templates.** A registered class, a registered and an unregistered subclass of it
(so that siblings, upcasts and unregistered classes happen), three ids, one
generated id, two handles and two templates (symmetric), changes of up to two
objects in each reload. Two templates are two of one object in two caches, or one
for each of two objects; the third id is what a rename needs. Each id has one
class: an id that was an object of one subclass and becomes one of another
breaks `FoundByNotification` (the caches of siblings are not told).

**schema.** Six files: two that declare one class differently, one with a
subclass, one with two classes of which the one with fewer direct superclasses
derives from the other (so that `generate()` has to rotate), one with a class that
`type()` refuses, one data file that includes. Five operations in a row: construct, describe, include or load, unload
or fail to, and again. Twelve attributes of all types and some fifty values, with
widths scaled to 2 to 5 bits, cover both ends of each type and range, numerals in
the three bases and texts that are none. `AcceptedConforms` and
`ConformingAccepted` compare `setattr` with `Conforms` for every attribute, value
and set of known classes. An open interval (`1..*`) is left out of the first: the
code puts the interval in the place of the type's own limits. `GenerateEnds` has
weak fairness of the refresh: the one thread inside `generate()` goes on.
Deadlock is not checked: after five operations the run is over.

**python_dal.** Two classes, three names (one of a read-only file that refers to
another, one that refers to itself, one not yet stored), three DAL identities, five
operations: enough for a cycle of two, a rename between, and a recursive write over
both. A third
identity gives two DALs of one name next to a third object. Deadlock is not
checked, as before.

Fairness of `locks`: weak fairness of each thread's next step. A mutex that is
released is eventually acquired by a thread that waits for it because each
thread's number of calls is bounded (`MaxCalls`); an unfair mutex under an
endless stream of calls is outside the property.

Each property of a passing run has a mutant in its module (marked `mutant` in a
comment) that replaces one definition by the form it would have after a
plausible slip, and TLC finds the property violated with it.

## 4. Proofs

Every theorem is for all values of the constants that satisfy the assumptions named in
the modules. Those that need more say so in their statement: `StableClasses`,
`OneFamily`, and the rules of use of section 2. Each of these is needed: without it
TLC finds the property violated; with it, renames, aborts, objects destroyed and
created again, and accesses between the steps of a notification remain.

`ConfLocksProof`. For any set of threads and any number of calls. The first theorems
are of any scripts, under hypotheses on each script alone (`ScriptsScoped`,
`ScriptsGuarded`, `ScriptsOrdered`). `TypeCorrect` bounds the positions; `Ownership` is
the inductive invariant: a thread owns exactly `HeldAt` of its position, preserved
because a lock adds the mutex to `HeldAt`, an unlock removes it and an access leaves it.
`RaceFreedom`: two accesses to the same data would have two owners of its guard.
`DeadlockFreedom`: in a set of waiting threads take one that waits for a mutex
of the highest rank; the owner of that mutex waits for one of higher rank still.
Then the hypotheses are shown of the code's scripts, all 53 operations with the
notification thread and the callbacks. `Does(s, a, H)` says that s takes step a with the
mutexes H held; laws for `Under` and for sequences of scripts compute it along the
structure of a script, and each script gets a `Profile`: the data it reads and writes
outside the guard meant for them, and where it locks out of order. What remains assumed
is `CallsListed`: that `UserOps`, `NotifyOps` and `CallbackOps` are among the code's, and
callbacks call no operation that locks `m_else_mutex` or subscribes again (TLC evaluates
it for the runs). Lemma `CallsConform` shows that the tables `OutOfOrder`,
`Unguarded` and `Modifies` say of each script exactly what it does. From them:
`RacesCorrect`, that a race always has a party on the list (two threads at accesses of
one datum would both own its guard); `OwnershipOfAll`, of every program; `NoDataRaceOfOperations`, of a
program that for each shared datum calls no operation that accesses it unguarded or none
that modifies it; `NoCircularWaitInOrder`, of one that calls nothing out of order. A
rename does lock out of order, the handle before its template, but holds `m_tmpl_mutex`
as it does, and so does whoever locks a template before its handle:
`GatedDeadlockFreedom` is the argument with such a gate (two threads that wait within
the mutexes of single objects would both hold the gate), and `NoCircularWaitOfOperations`
leaves only the seven operations of `Ungated` that may take part in a deadlock.
`CirclesCorrect` says the same of every program: a circle whose members are all outside
`Ungated` would be one of the scripts that the argument covers. The programs of the run `locks` satisfy its hypothesis.

`SubscriptionsProof`. `Coverage` and `Narrowness` are about `UnionOf`:
`Coverage` needs that failures only ever leave a registration wider. The
delivery needs an invariant about the notification in progress (`DeliveryInv`):
between reload and delivery the changes hold everything the present subscribers
that were subscribed at the commit are due, the loops run over existing
subscriptions, and `alone` means what it says. From it, `Iteration` gives
`CallbacksExist` and `Refinement` gives `Spec => ImplementsFeed`: a `Callback` is
a `Notify`, the commits and subscriptions map to themselves, and all else
stutters.

`ImplObjectsProof`. `TypeCorrect` carries with the types that slots and tangled
handles are allocated. `KeyCorrect`: assuming that replaced handles are not
used, the invariant is `KeyInv`: a slot's handle has the slot's class and id and
is not tangled, and, what makes it inductive, every handle that is not tangled
is in the slot of its class and id, so that a rename moves its own slot and no
other. Steps that only change states and contents preserve both (`SameNames`).

`ImplStatesProof`. `OwnedCorrect` needs no rule of use: no handle has two slots, two
places among the tangled or one of each, and one without an owner is deleted
(`OwnedInv`); the cardinality that `OwnedOnce` counts follows.
`DeletedCorrect` and `FreshCorrect` are two readings of one invariant
(`HonestInv`): the handle of every slot is honest about the database or is named by a
change that `update_cache()` has still to look at, a handle that is not valid keeps
nothing, a replaced one is unknown, and the changes still to be applied are true of
the database. Each step is shown by what it lets a handle *learn* of its object.
For clients that write while a notification is under way the changes are not true of
the database any more, so `ValidCorrect` has an invariant of its own (`ValidInv`): the
object of a valid handle exists, or its *removal* has still to be reported.

`TemplatesProof`, over the theorems of `ImplStatesProof` (instance `IP`). `CacheInv`
relates the two caches: types, an entry of `m_cache` and the template's own id
determine each other, each template is in one place, its handle exists, `m_t_cache` is
about made templates, and the class of the handle is one the template's class is a
base of. All but the last conjunct (`SomePlace`, the template *is* in a cache) hold
whatever ids the client chooses, and so do `TmplTypeCorrect` and `CastCorrect`;
`OneTemplateCorrect` needs `~ReusesNames`, since a rename to an id in use drops a
template from its place. `Lookups` find several objects at once, in sets, which is the
largest part of the proof.

`TemplateNotesProof`. When ids are not reused no handle is ever replaced, so that the
handles under the templates are honest (`HandleInv`, giving `DeletedThrowsCorrect`).
`NoteInv` adds what a notification needs to find: a template is kept under its
object's present id or noted as generated from it (`Keyed`), templates of one generated
id are of one object, and whatever has read something old is concerned by a change of
the notification in progress (`OldNoted`). `FoundCorrect` is the first, `FreshTemplateCorrect`
the last when no notification is in progress.

`SchemaCachesProof`. For any files, classes and declarations. The maps are replaced
with the open files in every operation but `unload()`, which leaves both or drops the
files with `p_superclasses` (`MapsInv`). The descriptions need a memory: the invariant
says that each cached description was made from some consistent set of files, all of
them opened in this session, that declared the class. When no two files of the session
disagree about the class and its superclasses, that set and the present one define the
class alike (`SameDefinition`), and the superclasses of a class, the least set that
holds the direct ones and is closed, are the same in both (`SameSuperclasses`): each is
closed in the other. `MapsCurrent` and `DescriptionsStayCurrent` are of the C++ layer
alone; the listed theorems are of `PySpec`, whose `update` describes several classes in
one step.
The Python layer is remembered in the same way, over the life of the process:
each entry of `__schema__.data` and each class of `__dal__` was made from files that
were open together (`DataInv`, `DalInv`). The types of a DAL class are collected from
its bases, so `generate()` must make bases first; while its loop runs, each class of
the open files is described, and noted, made or still in the list (`ClassesInv`), from
which `KnowledgeCorrect` follows when the loop ends. A loop that ends by `fail` leaves a
class that is not linearisable among those of the session, for as long as the session
lasts.
`AcceptedCorrect` and `ConformingCorrect` hold in every state because they are about
the functions: `python_class` keeps the values of its type, `mapped_range` reads each
item as the schema means it, so that a value is in the one exactly when it is in the
other, and a value that was coerced is coerced to itself. A list is refused for its
first bad element, taken as the least index, which needs no induction.

`PyDalProof`. For any classes, names, DALs and programs.
`OneDalPerName`: a name is cached under all its classes or none. Only entering DALs
(`Cached`) and deleting a name (`Uncached`) change the cache, in whichever call and
however it ends, and either keeps it coherent.
`DalTypeCorrect`: nothing refers to what is not there. `RefInv` is about the database,
the DALs, the cache and the stack of frames: which DALs and objects each frame may
refer to, that the frames of a call are of different DALs, and that handles which
follow an object are of objects that exist. Destroying and renaming an object, in the
middle of a recursive call too, change what the others refer to in the same step.
`ReflectsCorrect`: a cached DAL that is not dirty mirrors its object (`MirrorInv`): it
lacks no reference, and names in excess only what is in `gone`. Handles marked dead are
of names in `gone` (`DeadInv`), so that reading a relationship adds nothing else. A
renamed DAL stands for the object of its old name as well until the database knows
(`StandsFor`), so that relationships of DALs are compared by either name; the objects
a call is storing may be behind (`Pending`); the list a waiting frame has collected has
the names of the DALs it has dealt with (`FrameMirrors`); and a call notes an object
under its own name (`DoneMirrors`). Nothing is claimed once a call has failed
(`blurred`), as the code undoes nothing.
The last three theorems compare a recursive call with `Reach`, the DALs its root leads
to. `Reach` counts steps up to the number of DALs, and the prover has no induction over
data to unfold it with. What is proved of it instead: the sets it counts through exist
(`Table`, made longer one set at a time), its result is closed under the relationships,
since a table that still grew at its last step would have more members than there are
DALs, and every closed set with the root holds it, by the least step that would leave
that set. From then on only `Closed` is used: to show that two calls of `Reach` agree,
or that a step leaves it alone, one shows that each is closed for the other. With it
go invariants of the frames. A DAL whose handles are not read has no relationship yet
(`LazyInv`), so that reading it can only add to what is reached. A frame is of a DAL
that is reached, and has a list of such DALs to visit (`WalkInv`).
`GetAllCorrect`: what a found DAL is related to is found, begun with or in the list of
its frame (`FindInv`); when the stack is empty, what is found is closed.
`TouchCorrect`: an object that differs from what it was before the call is renamed, or
of a DAL the call went through, or differs by names that were renamed (`TouchInv`);
this holds of calls that fail, and of each point in them.
`CallStoresCorrect`: a noted object was written, or is of the frame that is about to
write it, and what a written DAL is related to is noted or next (`WriteInv`); by
`RefInv` and `MirrorInv` a renaming that arrives while a frame collects its list changes
the list, the DALs and the objects alike. When the call returns, what is noted is
closed under the relationships of the DALs to write. Two DALs of one name (`Twins`) are
left out, as in the properties: the dictionary `cache` of a call has room for one.

What the proofs taught about the models. A rename stored in the database reaches the
handles that the renamed DAL itself holds, which `RenameStored` had left out. In a range,
True counts as 1 (`Equal` of `Coercion`). `dirty` and `blurred` missed DALs that a longer
program than the run's can leave behind: those related to a renamed DAL whose object is
destroyed, those whose DAL is renamed twice, those of a name shared by an old name.

Model-checked only:
* `EveryCallReturns`, `EveryChangeIsDelivered`, `GenerateEnds`: liveness, and the
  prover does not handle ENABLED.

Every safety property of the passing runs is a theorem. The types of `ConfLocks` and
`Subscriptions` are proved as the first step of the other theorems and are not among the
properties of the runs.

## 5. Where code and documentation disagree

The five violation runs, quoted in PROJECT.json: unload() against a callback
(`Configuration.cpp:387`); changes of derived classes dropped when there are two
subscriptions (`Configuration.cpp:1579`); unfiltered changes for the only
remaining subscription (`:1514`); class descriptions without the subclasses
loaded later (`:810`); an unset multi-value string or enum attribute with an
initial value that raises ValueError when read (`schema.py:289`).

What else the modelling met, each of it reproducible by the change of a constant
that section 2 names, or by reading the lines:

* A template object that is made or read again reads its relationships with
  `m_tmpl_mutex` and without `m_impl_mutex`, the "mutex used to access implementation
  objects" (`Configuration.hpp:1797` and 1819, against 1666): section 3, `locks`.
* `get<T>(id)` of an object the template cache does not hold reaches the
  implementation cache without `m_impl_mutex` (`Configuration.hpp:1941`, against
  "(multi-thread safe)" at 669); `get_uncached` is in the row `implObjs` of `Unguarded`.
* Removals do not reach replaced handles (`Configuration.cpp:1328`), and a late
  report marks a re-created object deleted (`:1334`).
* Templates bound to the new handle of an id used before keep what they had read
  (`Configuration.hpp:1925`). `DalObject::clear()` says that the object "will be
  completely re-read" (`DalObject.hpp:69-72`), and leaves `p_was_read` set.
  `is_valid<T>` (`Configuration.hpp:1960-1980`) does not compile when instantiated.
* `get_class_info()` returns the description of a class that is in no open file
  any more; its documentation promises NotFound (`Configuration.hpp:1258`).
* Ranges: an open bound takes the place of the type's limit; `*` as a lower bound
  becomes the maximum; `""` for an integer attribute raises TypeError; an enum item
  such as `FEB-1` is split as an interval; `str2integer()` of a list calls itself
  without its third argument (`schema.py:63`); the default of a date or time
  attribute is compared (`==`) where it is to be assigned.
* `Configuration.databases()` is hidden by the attribute of the same name;
  `Configuration.attributes()` turns the texts None, True and False of a schema into
  Python values; an unset attribute whose default is 0 or false reads as None;
  classes in `__dal__` survive the Configuration they came from, so another
  schema's class of the same name is checked by the first one's declarations.
* `update_dal()` is documented to "overwrite as much as you can" when errors are
  ignored (`Configuration.py:459`), but a refused attribute ends the update of that object and the objects it relates to
  are not visited; a DAL that was never stored and is renamed cannot be stored
  (dal.py says that nothing special is done); destroying a DAL that was renamed
  and not updated leaves its object; `get_dal()` of the old name goes on returning
  a renamed DAL; a call that raises leaves what it wrote.
* `destroy_dal()` leaves the DALs that were related to the destroyed object in the cache,
  with the reference the database has dropped (`Configuration.py:629`).
* A schema whose classes list a superclass before one derived from it is legal for the
  C++ layer; in Python `generate()` stops with a TypeError half way (`dal.py:655`).
* The getter of a relationship takes the handles out before it turns them into
  DALs (`dalproperty.py:16`): after a failure the relationship reads as empty, and a
  later `update_dal()` stores the empty list.

## 6. Plan

1. *(done)* Locks, subscriptions, implementation objects, with first proofs.
2. *(done)* The template cache, composed with the implementation objects.
3. *(done)* The schema caches and the life cycle, with proofs.
4. *(done)* Python: generation, coercion against a reference definition, the DAL
   cache and the recursive operations.
5. *(done)* Proofs of ownership and states of the implementation objects, of the template
   caches and of what notifications find, of the Python schema and coercion, of the types
   and the reflection of the DAL cache.
6. *(done)* Proofs about the code's own scripts of locks, for any number of threads and
   without a hypothesis on scripts, and about what recursive calls of the DAL layer find,
   write and leave alone.
7. What is left: what section 7 lists. Of liveness, that every call returns: it needs a
   measure of a thread's position, and ENABLED, which the prover does not handle.

## 7. Not modelled

The plug-in's own algorithms (what it reads from files, how it selects changes);
attribute values and conversions in C++, profiler counters, printing, versions
and the JSON that export writes; the command-line tools, which keep no state;
iterator and container internals (two uses of an iterator after a possible rehash
or an erase are noted at their hazards); the values written through `_set_object`,
`_set_objects` and ConfigObject's setters (the generated setters that would have to
update the template are not in the repository); float attributes, single-value
relationships, the `at` argument, `_updated`, comparison, hashing and printing of
Python objects; ConfigObjects that a Python program writes past its DALs.
