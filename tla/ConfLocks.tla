------------------------------ MODULE ConfLocks ------------------------------
(***************************************************************************)
(* The mutexes of a Configuration and the critical sections of its         *)
(* operations.  Every operation is a script: the sequence of mutexes it    *)
(* locks and unlocks (std::lock_guard scopes, so properly nested) and of   *)
(* the shared data it reads or writes in between.  Threads interleave at   *)
(* every step of their scripts.                                            *)
(*                                                                         *)
(*   "tmpl"  m_tmpl_mutex   "impl"  m_impl_mutex   "actn"  m_actn_mutex    *)
(*   "else"  m_else_mutex   "obj"   ConfigObjectImpl::m_mutex              *)
(*   "dal", "dal2"  DalObject::m_mutex of two template objects             *)
(*                                                                         *)
(* "obj" and "dal" stand for the mutexes of one contended object, "dal2"   *)
(* for that of a template object it is cast to or refers to.  The shared   *)
(* data are the caches and lists of the Configuration, the contended       *)
(* object's handle (state and content), its id, and the flag wasRead of    *)
(* its template object.                                                    *)
(***************************************************************************)
EXTENDS Naturals, Sequences, FiniteSets

CONSTANTS
  Threads,      \* the threads of the client process
  Notifier,     \* the plug-in's thread that delivers notifications
  NoThread,     \* owner of a free mutex
  UserOps,      \* operations the other threads call
  NotifyOps,    \* notification entry points the plug-in calls
  CallbackOps,  \* what a user's notification callback calls
  Protected,    \* shared data whose accesses must not race
  MaxCalls      \* bound: calls each thread makes

Mutexes == {"tmpl", "impl", "actn", "else", "obj", "dal", "dal2"}
Shared  == {"tmplObjs", "implObjs", "handle", "id", "schema", "actions",
            "callbacks", "callbackCount", "converters", "wasRead"}

Lock(m)   == [do |-> "lock",   on |-> m]
Unlock(m) == [do |-> "unlock", on |-> m]
Read(d)   == [do |-> "read",   on |-> d]
Write(d)  == [do |-> "write",  on |-> d]

Steps == [do : {"lock", "unlock"}, on : Mutexes]
           \cup [do : {"read", "write"}, on : Shared]

\* A std::lock_guard on m whose scope is body.
Under(m, body) == <<Lock(m)>> \o body \o <<Unlock(m)>>

----------------------------------------------------------------------------
(* Scripts: operations on actions, converters and subscriptions.           *)

add_action == Under("actn", <<Write("actions")>>)
action_on_update == Under("actn", <<Read("actions")>>)

register_converter == Under("else", <<Write("converters")>>)
\* convert() and convert2() look m_convert_map up without a mutex.
convert == <<Read("converters")>>

subscribe == Under("else", <<Write("callbacks"), Write("callbackCount")>>)
unsubscribe == Under("else", <<Write("callbacks"), Write("callbackCount")>>)

(* Scripts: a ConfigObject, the client's reference to a handle.             *)

\* The plug-in reads and writes values under the handle's mutex: cast() holds
\* it, and calls nothing that reads a value.
plugin_get == Under("obj", <<Write("handle")>>)
plugin_set == Under("obj", <<Write("handle")>>)

ImplConvert == convert
read_attribute == plugin_get \o ImplConvert
\* The related objects get handles, new or found in m_impl_objects and updated:
\* with whatever the caller holds, and ConfigObject holds nothing.
read_relation == plugin_get \o <<Write("implObjs"), Write("handle")>>
set_value == plugin_set \o action_on_update

\* ConfigObjectImpl::UID() locks m_mutex, "be sure no one renames the object";
\* ConfigObject::UID() reads m_id directly.
UID == <<Read("id")>>

\* A handle of unknown state is reset, and no mutex is taken.
is_deleted == <<Write("handle")>>

(* Scripts: operations on the database and on implementation objects.      *)

GetObjectUnlocked == <<Write("implObjs")>>  \* mutant
\* get() of ConfigObjects, test_object(), create() of an object: all of them
\* hold m_impl_mutex alone.  A handle that is already there becomes valid.
get_object == Under("impl", <<Write("implObjs"), Write("handle")>>)

get_includes == Under("impl", <<Read("implObjs")>>)
get_versions == Under("impl", <<Read("implObjs")>>)

load ==
  Under("impl", Under("actn", <<Read("actions")>>)
                  \o <<Write("implObjs"), Write("schema")>>)

\* create(db) and add_include()
add_include == Under("impl", <<Write("implObjs"), Write("schema")>>)

remove_include ==
  Under("impl", Under("tmpl", <<Write("implObjs"), Write("schema")>>))

CommitSwapped == Under("impl", Under("tmpl", <<Write("implObjs")>>))  \* mutant
commit == Under("tmpl", Under("impl", <<Write("implObjs")>>))

prefetch_all_data == Under("tmpl", Under("impl", <<Write("implObjs")>>))

\* Every handle is cleared under its own mutex.
UnreadHandles == <<Read("implObjs")>> \o Under("obj", <<Write("handle")>>)

unread_implementation_objects == Under("impl", UnreadHandles)

\* Each changed ConfigObjectImpl under its own mutex, then the flag of each
\* template object under its own mutex.
update_cache ==
  <<Read("schema")>> \o UnreadHandles \o <<Read("tmplObjs")>>
    \o Under("dal", <<Write("wasRead")>>)

\* The plug-in's destroy() calls update_cache() for the removed objects.
destroy_obj ==
  Under("impl", Under("tmpl", <<Write("implObjs")>> \o update_cache))

abort ==
  Under("tmpl", Under("impl",
    UnreadHandles
      \o <<Read("tmplObjs"), Write("wasRead"), Write("schema")>>))

RenameObjectSwapped ==  \* mutant: the two guards in the other order
  Under("impl", Under("tmpl", Under("obj", <<Write("id"), Write("tmplObjs")>>)))
rename_object ==
  Under("tmpl", Under("impl", Under("obj",
    <<Write("handle"), Write("id"), Write("implObjs"), Read("schema")>>
      \o <<Write("tmplObjs")>> \o Under("dal", <<Write("tmplObjs")>>))))

\* ConfigObject::rename()
rename == rename_object \o action_on_update

unload ==
  Under("tmpl", Under("impl",
    Under("actn", <<Read("actions")>>)
      \o <<Write("tmplObjs")>>
      \o Under("else", <<Write("callbacks"), Write("callbackCount"),
                         Write("converters")>>)
      \o <<Write("schema"), Write("implObjs")>>))

\* The cache of template objects is read under m_impl_mutex.
print_profiling_info == Under("impl", <<Read("tmplObjs"), Read("implObjs")>>)

\* ~Configuration()
destructor ==
  print_profiling_info \o unload \o Under("impl", <<Write("implObjs")>>)

(* Scripts: class descriptions.                                            *)

\* The description is returned by reference: unload() deletes it.
get_class_info == Under("impl", <<Write("schema")>>)
Describe == get_class_info \o <<Read("schema")>>

attributes_pybind == Describe
relations_pybind  == Describe
classes_pybind == <<Read("schema")>>
print == <<Read("schema")>>

export_schema == <<Read("schema")>> \o Describe
export_data ==
  <<Read("schema")>> \o Describe \o get_object \o UID \o read_attribute \o read_relation
print_ref == UID \o Describe \o read_attribute \o read_relation

(* Scripts: operations on template (DAL) objects.                          *)

\* Cache<T>::get(obj, id): the entry may be bound to another handle.
CacheGetById(m) == <<Write("tmplObjs")>> \o Under(m, <<Write("tmplObjs")>>)

\* The init() of a generated class reads the attributes, and the relationships
\* with _ref(), which looks the related template objects up.  No caller of
\* init() holds m_impl_mutex.
init ==
  read_attribute \o read_relation \o UID \o CacheGetById("dal2")
    \o <<Write("wasRead")>>

\* Cache<T>::get(obj): a new template object is read under its mutex.
CacheGet == UID \o <<Write("tmplObjs")>> \o Under("dal", init)

\* get<T>(id) of an object the template cache already holds; find<T>(id)
get_cached == Under("tmpl", <<Read("tmplObjs")>>)
is_valid   == Under("tmpl", <<Read("tmplObjs")>>)

\* get<T>(id) of an object it does not hold: _get() reaches the plug-in
\* without m_impl_mutex.
get_uncached ==
  Under("tmpl", <<Read("tmplObjs"), Write("implObjs"), Write("handle")>> \o CacheGet)

GetByObjectUnlocked == CacheGet  \* mutant
get_by_object == Under("tmpl", CacheGet)

\* get<T>(objects) and create<T>(): the ConfigObjects first, then templates.
get_all == Under("tmpl", get_object \o CacheGet)

ref == Under("tmpl", read_relation \o CacheGet)

\* The plug-in looks for the referring objects without m_impl_mutex.
referenced_by ==
  Under("tmpl", <<Write("implObjs"), Write("handle"), Read("schema")>> \o CacheGet)

unread_template_objects ==
  Under("tmpl", <<Read("tmplObjs"), Write("wasRead")>>)

\* An attribute's getter: the flag is tested before m_tmpl_mutex is taken.
check_init == <<Read("wasRead")>> \o Under("tmpl", init)

print_object == <<Read("handle")>> \o check_init

castable == <<Read("schema")>>

\* DalObject::cast() holds the object's mutex around Configuration::cast(),
\* whose try_cast() reads p_superclasses under m_tmpl_mutex alone.
cast ==
  Under("dal", Under("tmpl",
    <<Read("schema")>>
      \o Under("obj", <<Read("handle")>> \o CacheGetById("dal2"))))

make_dal_objects == UID \o <<Read("schema")>> \o CacheGetById("dal")

get_rel_objects == read_relation \o Under("tmpl", make_dal_objects)
\* make_dal_object() is called without m_tmpl_mutex here.
get_algo_objects == <<Read("schema")>> \o CacheGetById("dal2")

config_object == Under("dal", is_deleted)
unread == Under("dal", is_deleted \o <<Write("wasRead")>>)

\* The setters of generated classes, _set_object() and _set_objects(): the
\* value's mutex, the handle's and that of the actions are taken with the
\* object's own mutex held.
SetObject(this, value) ==
  Under(this, is_deleted \o Under(value, << >>) \o set_value)
set_object == SetObject("dal", "dal2")
\* The value's own relationship to the object is set.
set_object_back == SetObject("dal2", "dal")

Scripts ==
  [add_action |-> add_action, action_on_update |-> action_on_update,
   register_converter |-> register_converter, convert |-> convert,
   subscribe |-> subscribe, unsubscribe |-> unsubscribe,
   read_attribute |-> read_attribute, read_relation |-> read_relation,
   set_value |-> set_value, UID |-> UID,
   is_deleted |-> is_deleted, get_object |-> get_object,
   get_includes |-> get_includes, get_versions |-> get_versions, load |-> load,
   add_include |-> add_include, remove_include |-> remove_include,
   destroy_obj |-> destroy_obj, commit |-> commit,
   prefetch_all_data |-> prefetch_all_data, abort |-> abort,
   rename_object |-> rename_object, rename |-> rename, unload |-> unload,
   unread_implementation_objects |-> unread_implementation_objects,
   print_profiling_info |-> print_profiling_info, destructor |-> destructor,
   get_class_info |-> get_class_info, attributes_pybind |-> attributes_pybind,
   relations_pybind |-> relations_pybind, classes_pybind |-> classes_pybind,
   print |-> print, export_schema |-> export_schema,
   export_data |-> export_data, print_ref |-> print_ref,
   get_cached |-> get_cached, is_valid |-> is_valid,
   get_uncached |-> get_uncached, get_by_object |-> get_by_object,
   get_all |-> get_all, ref |-> ref, referenced_by |-> referenced_by,
   unread_template_objects |-> unread_template_objects,
   check_init |-> check_init, print_object |-> print_object,
   castable |-> castable, cast |-> cast, get_rel_objects |-> get_rel_objects,
   get_algo_objects |-> get_algo_objects, config_object |-> config_object,
   unread |-> unread, set_object |-> set_object,
   set_object_back |-> set_object_back, none |-> << >>]

(* Scripts: the notification entry points, around a user's callback.       *)

system_pre_cb(callback) ==
  Under("else", <<Read("callbacks")>> \o callback)

SystemCbHoldingObjects(callback) ==  \* mutant: callbacks inside the update
  Under("tmpl", Under("impl", update_cache)
    \o Under("else", <<Read("callbacks")>> \o callback))
\* m_callbacks.empty() is read before m_else_mutex is taken.
system_cb(callback) ==
  Under("impl", Under("actn", <<Read("actions")>>))
    \o Under("tmpl", Under("impl", update_cache))
    \o <<Read("callbackCount")>>
    \o Under("else", <<Read("callbacks")>> \o callback)

----------------------------------------------------------------------------
Calls ==
  [op : UserOps, body : {"none"}]
    \cup [op : NotifyOps, body : CallbackOps]

CallsOf(t) == {c \in Calls : (t = Notifier) <=> c.op \in NotifyOps}

Script ==
  [c \in Calls |->
     CASE c.op = "system_pre_cb" -> system_pre_cb(Scripts[c.body])
       [] c.op = "system_cb"     -> system_cb(Scripts[c.body])
       [] OTHER                  -> Scripts[c.op]]

Idle == [op |-> "idle", body |-> "none"]

VARIABLES
  owner,   \* the thread that holds each mutex
  call,    \* the call each thread is in
  pc,      \* the next step of its script
  left     \* calls each thread may still make

vars == <<owner, call, pc, left>>

Busy(t) == call[t] # Idle
\* t has not reached the end of its script
HasStep(t) == Busy(t) /\ pc[t] <= Len(Script[call[t]])
NextStep(t) == Script[call[t]][pc[t]]

\* The mutexes a thread holds when its next step is step n of script s.
HeldAt(s, n) ==
  {m \in Mutexes :
     \E i \in 1..(n - 1) :
        /\ s[i] = Lock(m)
        /\ \A j \in (i + 1)..(n - 1) : s[j] # Unlock(m)}

Held ==
  [c \in Calls |-> [n \in 1..(Len(Script[c]) + 1) |-> HeldAt(Script[c], n)]]

----------------------------------------------------------------------------
Init ==
  /\ owner = [m \in Mutexes |-> NoThread]
  /\ call = [t \in Threads |-> Idle]
  /\ pc = [t \in Threads |-> 1]
  /\ left = [t \in Threads |-> MaxCalls]

Begin(t, c) ==
  /\ ~Busy(t)
  /\ left[t] > 0
  /\ call' = [call EXCEPT ![t] = c]
  /\ pc' = [pc EXCEPT ![t] = 1]
  /\ left' = [left EXCEPT ![t] = @ - 1]
  /\ UNCHANGED owner

Advance(t) == pc' = [pc EXCEPT ![t] = @ + 1]

AcquireAnyway(t) ==  \* mutant: try_lock() with its result ignored
  /\ HasStep(t)
  /\ NextStep(t).do = "lock"
  /\ owner' = [owner EXCEPT ![NextStep(t).on] = t]
  /\ Advance(t)
  /\ UNCHANGED <<call, left>>
\* std::mutex::lock(): blocks while any thread, t included, owns the mutex.
Acquire(t) ==
  /\ HasStep(t)
  /\ NextStep(t).do = "lock"
  /\ owner[NextStep(t).on] = NoThread
  /\ owner' = [owner EXCEPT ![NextStep(t).on] = t]
  /\ Advance(t)
  /\ UNCHANGED <<call, left>>

Release(t) ==
  /\ HasStep(t)
  /\ NextStep(t).do = "unlock"
  /\ owner' = [owner EXCEPT ![NextStep(t).on] = NoThread]
  /\ Advance(t)
  /\ UNCHANGED <<call, left>>

Access(t) ==
  /\ HasStep(t)
  /\ NextStep(t).do \in {"read", "write"}
  /\ Advance(t)
  /\ UNCHANGED <<owner, call, left>>

Return(t) ==
  /\ Busy(t) /\ ~HasStep(t)
  /\ call' = [call EXCEPT ![t] = Idle]
  /\ pc' = [pc EXCEPT ![t] = 1]
  /\ UNCHANGED <<owner, left>>

Run(t) == Acquire(t) \/ Release(t) \/ Access(t) \/ Return(t)

\* Every thread has made its calls.
Finished ==
  /\ \A t \in Threads : ~Busy(t) /\ left[t] = 0
  /\ UNCHANGED vars

Next ==
  \/ \E t \in Threads : Run(t)
  \/ \E t \in Threads : \E c \in CallsOf(t) : Begin(t, c)
  \/ Finished

Spec == Init /\ [][Next]_vars

\* Each thread keeps running; a mutex is handed to anyone who waits for it.
FairSpec == Spec /\ \A t \in Threads : WF_vars(Run(t))

----------------------------------------------------------------------------
TypeOK ==
  /\ owner \in [Mutexes -> Threads \cup {NoThread}]
  /\ call \in [Threads -> Calls \cup {Idle}]
  /\ pc \in [Threads -> Nat \ {0}]
  /\ left \in [Threads -> 0..MaxCalls]
  /\ \A t \in Threads : Busy(t) => pc[t] <= Len(Script[call[t]]) + 1

\* A thread owns exactly the mutexes its position in the script says: no two
\* threads share a critical section, no return path leaks a mutex, and nobody
\* unlocks a mutex of another thread.
OwnershipOK ==
  \A t \in Threads :
     {m \in Mutexes : owner[m] = t}
       = IF Busy(t) THEN Held[call[t]][pc[t]] ELSE {}

\* What t does next; its script may be over.
Doing(t) == IF HasStep(t) THEN NextStep(t) ELSE Idle

\* Two threads are never both about to access the same protected data when one
\* of the accesses is a write: "mutex used to access implementation objects"
\* and its three sisters (Configuration.hpp:1666-1669).
NoDataRace ==
  LET doing == [t \in Threads |-> Doing(t)] IN
  \A t, u \in Threads : t # u =>
    \A d \in Protected :
       doing[t] = Write(d) => doing[u] \notin {Read(d), Write(d)}

\* The thread that owns the mutex t is about to lock.
Blocker(t) ==
  IF HasStep(t) /\ NextStep(t).do = "lock" THEN owner[NextStep(t).on] ELSE NoThread

\* No group of threads waits for mutexes that only the group holds: the reason
\* for "always lock template objects mutex first" (Configuration.cpp:367).
NoCircularWait ==
  LET blocker == [t \in Threads |-> Blocker(t)] IN
  \A S \in (SUBSET Threads) \ {{}} : \E t \in S : blocker[t] \notin S

\* Every operation that is called returns, whatever the other threads call.
EveryCallReturns == \A t \in Threads : Busy(t) ~> ~Busy(t)
=============================================================================
