---------------------------- MODULE Subscriptions ----------------------------
(***************************************************************************)
(* Subscriptions to changes, and the delivery of a notification.           *)
(*                                                                         *)
(* Clients subscribe and unsubscribe; each time, reset_subscription()      *)
(* tells the plug-in the union of all criteria, in one registration.       *)
(* Other processes commit transactions.  The plug-in's notification thread *)
(* takes them one by one: it calls system_pre_cb(), reloads the data,      *)
(* works out which changes its registration asks for, and hands them to    *)
(* system_cb(), which gives each subscriber its part of them.  Both entry  *)
(* points run the user's functions with m_else_mutex held; subscribe() and *)
(* unsubscribe() hold it from end to end, so each of them is one step.     *)
(***************************************************************************)
EXTENDS Naturals, Sequences

CONSTANTS
  Classes, Ids,     \* classes and identities of the database's objects
  Superclasses,     \* the direct and indirect superclasses of each class
  Subscribers,      \* CallbackIds of change subscriptions
  PreSubscribers,   \* CallbackIds of pre-notifications
  ClientCriteria,   \* the criteria clients subscribe with
  Transactions,     \* the sets of changes a commit may make
  None,             \* no subscription
  MaxCommits        \* bound: transactions committed by other processes

\* One entry of a ConfigurationChange.
Event == [cls : Classes, id : Ids, act : {"created", "modified", "removed"}]

\* remove() erases an object set that becomes empty, so "no entry for the
\* class" and "no object of the class" are the same.
Criteria == [classes : SUBSET Classes, objects : [Classes -> SUBSET Ids]]

ASSUME CriteriaAssumption ==
  /\ ClientCriteria \subseteq Criteria
  /\ Transactions \subseteq SUBSET Event
  /\ None \notin Criteria
  /\ MaxCommits \in Nat

VARIABLES
  callbacks,      \* m_callbacks: the criteria of each subscription, or None
  preCallbacks,   \* m_pre_callbacks
  registered,     \* the criteria the plug-in holds, or None
  outdated,       \* the last unsubscription could not tell the plug-in
  log,            \* the transactions committed so far
  handled,        \* how many of them the plug-in is done with
  phase,          \* where the notification thread is
  changes,        \* the changes of the notification in progress
  toCall,         \* the callbacks the loop in progress has still to call
  alone,          \* system_cb() found a single subscription
  running,        \* FALSE once an exception has left a noexcept function
  since,          \* history: Len(log) at the time of the subscription
  received        \* history: the changes each subscriber was given last

subscriptionVars == <<callbacks, preCallbacks, registered, outdated, since>>
threadVars == <<phase, changes, toCall, alone, handled>>
vars == <<subscriptionVars, threadVars, log, running, received>>

Subscribed == {s \in Subscribers : callbacks[s] # None}

----------------------------------------------------------------------------
(* Criteria.                                                               *)

\* An empty criteria object subscribes to everything.
Any(c) == c.classes = {} /\ \A k \in Classes : c.objects[k] = {}

Everything == [classes |-> {}, objects |-> [k \in Classes |-> {}]]

\* The criteria c name the change e: "any changes of class objects including
\* creation", "any changes of the objects or it's removing"
\* (ConfigPackages.doxygen.hpp:1134, 1160).
Matches(c, e) ==
  \/ Any(c)
  \/ e.cls \in c.classes
  \/ e.id \in c.objects[e.cls] /\ e.act # "created"

\* What the plug-in may report: objects of derived classes too
\* (SubscriptionCriteria.hpp:42-45), and any change of an object.
Concerns(c, e) ==
  \/ Matches(c, e)
  \/ Superclasses[e.cls] \cap c.classes # {}
  \/ e.id \in c.objects[e.cls]

UnionSkippingObjects(cbs) ==  \* mutant: object sets only without class sets
  LET subs == {s \in Subscribers : cbs[s] # None}
      classes == UNION {cbs[s].classes : s \in subs}
  IN  IF \E s \in subs : Any(cbs[s]) THEN Everything
      ELSE [classes |-> classes,
            objects |-> [k \in Classes |->
              IF classes # {} THEN {} ELSE UNION {cbs[s].objects[k] : s \in subs}]]
\* The criteria of all subscriptions in one.
UnionOf(cbs) ==
  LET subs == {s \in Subscribers : cbs[s] # None}
      classes == UNION {cbs[s].classes : s \in subs}
  IN  IF \E s \in subs : Any(cbs[s]) THEN Everything
      ELSE [classes |-> classes,
            objects |-> [k \in Classes |->
              IF k \in classes THEN {} ELSE UNION {cbs[s].objects[k] : s \in subs}]]

FilterModified(c, reported) ==  \* mutant: removals of objects forgotten
  {e \in reported : e.cls \in c.classes}
    \cup {e \in reported : e.id \in c.objects[e.cls] /\ e.act = "modified"}
\* changes1: the part of the reported changes a subscriber gets when there are
\* several.  Classes are compared by name.
Filter(c, reported) ==
  {e \in reported : e.cls \in c.classes}
    \cup {e \in reported : e.id \in c.objects[e.cls]
                             /\ e.act \in {"modified", "removed"}}

----------------------------------------------------------------------------
(* Clients: subscribe() and unsubscribe() wait for m_else_mutex.           *)

ElseMutexFree == phase \notin {"announcing", "delivering"}

Init ==
  /\ callbacks = [s \in Subscribers |-> None]
  /\ preCallbacks = {}
  /\ registered = None
  /\ outdated = FALSE
  /\ log = << >>
  /\ handled = 0
  /\ phase = "idle"
  /\ changes = {}
  /\ toCall = {}
  /\ alone = FALSE
  /\ running = TRUE
  /\ since = [s \in Subscribers |-> 0]
  /\ received = [s \in Subscribers |-> {}]

\* m_impl->subscribe() or m_impl->unsubscribe() succeeds.
reset_subscription ==
  /\ registered' = IF \A s \in Subscribers : callbacks'[s] = None
                     THEN None ELSE UnionOf(callbacks')
  /\ outdated' = FALSE

\* The plug-in throws: it keeps the registration it had.
reset_fails == UNCHANGED registered

Subscribe(s, c) ==
  /\ running /\ ElseMutexFree
  /\ callbacks[s] = None
  /\ callbacks' = [callbacks EXCEPT ![s] = c]
  /\ reset_subscription
  /\ since' = [since EXCEPT ![s] = Len(log)]
  /\ UNCHANGED <<preCallbacks, threadVars, log, running, received>>

\* The callback is taken out again and the caller gets an exception.
SubscribeFails(s) ==
  /\ running /\ ElseMutexFree
  /\ callbacks[s] = None
  /\ reset_fails
  /\ UNCHANGED <<callbacks, preCallbacks, outdated, since, threadVars, log,
                 running, received>>

SubscribePre(p) ==
  /\ running /\ ElseMutexFree
  /\ preCallbacks' = preCallbacks \cup {p}
  /\ UNCHANGED <<callbacks, registered, outdated, since, threadVars, log,
                 running, received>>

\* The callbacks in S and P are removed before the plug-in is told; when it
\* throws, they stay removed.
Remove(S, P) ==
  /\ callbacks' = [s \in Subscribers |-> IF s \in S THEN None ELSE callbacks[s]]
  /\ preCallbacks' = preCallbacks \ P
  /\ received' = [s \in Subscribers |-> IF s \in S THEN {} ELSE received[s]]
  /\ \/ reset_subscription
     \/ reset_fails /\ outdated' = TRUE
  /\ UNCHANGED <<since, threadVars, log, running>>

UnsubscribeUnlocked(id) ==  \* mutant: m_else_mutex not taken
  /\ running
  /\ \/ id \in Subscribed /\ Remove({id}, {})
     \/ id \in preCallbacks /\ Remove({}, {id})
UnsubscribeForgetful(id) ==  \* mutant: the plug-in is not told
  /\ running /\ ElseMutexFree
  /\ id \in Subscribed
  /\ callbacks' = [callbacks EXCEPT ![id] = None]
  /\ received' = [received EXCEPT ![id] = {}]
  /\ UNCHANGED <<preCallbacks, registered, outdated, since, threadVars, log, running>>
\* An unknown id throws and changes nothing.
Unsubscribe(id) ==
  /\ running /\ ElseMutexFree
  /\ \/ id \in Subscribed /\ Remove({id}, {})
     \/ id \in preCallbacks /\ Remove({}, {id})

\* unsubscribe(0), and the part of unload() that is about subscriptions.
UnsubscribeAll ==
  /\ running /\ ElseMutexFree
  /\ Remove(Subscribers, PreSubscribers)

----------------------------------------------------------------------------
(* Other processes and the plug-in's notification thread.                  *)

Commit(T) ==
  /\ running
  /\ Len(log) < MaxCommits
  /\ log' = Append(log, T)
  /\ UNCHANGED <<subscriptionVars, threadVars, running, received>>

Done ==
  /\ handled' = handled + 1
  /\ phase' = "idle"
  /\ changes' = {}
  /\ toCall' = {}
  /\ alone' = FALSE

\* The plug-in tells nobody of a commit while nothing is registered.
Ignore ==
  /\ running /\ phase = "idle" /\ handled < Len(log)
  /\ registered = None
  /\ Done
  /\ UNCHANGED <<subscriptionVars, log, running, received>>

\* system_pre_cb(): m_else_mutex is locked, the loop starts.
system_pre_cb ==
  /\ running /\ phase = "idle" /\ handled < Len(log)
  /\ registered # None
  /\ phase' = "announcing"
  /\ toCall' = preCallbacks
  /\ UNCHANGED <<subscriptionVars, changes, alone, handled, log, running, received>>

\* A pre-notification function returns, or throws out of a noexcept function.
PreCallback(p) ==
  /\ running /\ phase = "announcing"
  /\ p \in toCall
  /\ toCall' = toCall \ {p}
  /\ running' \in BOOLEAN
  /\ UNCHANGED <<subscriptionVars, phase, changes, alone, handled, log, received>>

LeavePreOnlyIfAny ==  \* mutant: waits for a pre-notification
  /\ running /\ phase = "announcing" /\ toCall = {}
  /\ preCallbacks # {}
  /\ phase' = "reloading"
  /\ UNCHANGED <<subscriptionVars, changes, toCall, alone, handled, log, running, received>>
LeavePre ==
  /\ running /\ phase = "announcing" /\ toCall = {}
  /\ phase' = "reloading"
  /\ UNCHANGED <<subscriptionVars, changes, toCall, alone, handled, log, running, received>>

\* The plug-in has reloaded the data and works out what it has to report.
Reload(reported) ==
  /\ running /\ phase = "reloading"
  /\ reported \subseteq log[handled + 1]
  /\ IF registered = None THEN reported = {}
     ELSE \A e \in log[handled + 1] :
            /\ Matches(registered, e) => e \in reported
            /\ e \in reported => Concerns(registered, e)
  /\ IF reported = {} THEN Done
     ELSE /\ phase' = "updating"
          /\ changes' = reported
          /\ UNCHANGED <<toCall, alone, handled>>
  /\ UNCHANGED <<subscriptionVars, log, running, received>>

\* system_cb() has updated the caches; "user removed all subscriptions" is
\* tested before m_else_mutex is taken.
CheckSubscribed ==
  /\ running /\ phase = "updating"
  /\ IF Subscribed = {} THEN Done
     ELSE phase' = "locking" /\ UNCHANGED <<changes, toCall, alone, handled>>
  /\ UNCHANGED <<subscriptionVars, log, running, received>>

EnterCallbacks ==
  /\ running /\ phase = "locking"
  /\ phase' = "delivering"
  /\ toCall' = Subscribed
  /\ alone' = \E s \in Subscribers : Subscribed = {s}
  /\ UNCHANGED <<subscriptionVars, changes, handled, log, running, received>>

\* The changes s is called with; it is not called when there are none.
Given(s) ==
  IF alone \/ Any(callbacks[s]) THEN changes ELSE Filter(callbacks[s], changes)

\* The loop over m_callbacks.  With several subscriptions an exception of a
\* callback is caught; the only subscription's goes through noexcept.
Callback(s) ==
  /\ running /\ phase = "delivering"
  /\ s \in toCall
  /\ toCall' = toCall \ {s}
  /\ received' = IF Given(s) = {} THEN received ELSE [received EXCEPT ![s] = Given(s)]
  /\ running' \in IF alone THEN BOOLEAN ELSE {TRUE}
  /\ UNCHANGED <<subscriptionVars, phase, changes, alone, handled, log>>

LeaveCallbacks ==
  /\ running /\ phase = "delivering" /\ toCall = {}
  /\ Done
  /\ UNCHANGED <<subscriptionVars, log, running, received>>

\* std::terminate() has been called.
Terminated == ~running /\ UNCHANGED vars

----------------------------------------------------------------------------
NotificationThread ==
  \/ Ignore
  \/ system_pre_cb
  \/ \E p \in PreSubscribers : PreCallback(p)
  \/ LeavePre
  \/ \E T \in Transactions : \E reported \in SUBSET T : Reload(reported)
  \/ CheckSubscribed
  \/ EnterCallbacks
  \/ \E s \in Subscribers : Callback(s)
  \/ LeaveCallbacks

Next ==
  \/ \E s \in Subscribers : \/ \E c \in ClientCriteria : Subscribe(s, c)
                            \/ SubscribeFails(s)
  \/ \E p \in PreSubscribers : SubscribePre(p)
  \/ \E id \in Subscribers \cup PreSubscribers : Unsubscribe(id)
  \/ UnsubscribeAll
  \/ \E T \in Transactions : Commit(T)
  \/ NotificationThread
  \/ Terminated

Spec == Init /\ [][Next]_vars

\* The plug-in's thread keeps running, and the users' functions return.
FairSpec == Spec /\ WF_vars(NotificationThread)

----------------------------------------------------------------------------
TypeOK ==
  /\ callbacks \in [Subscribers -> Criteria \cup {None}]
  /\ preCallbacks \subseteq PreSubscribers
  /\ registered \in Criteria \cup {None}
  /\ outdated \in BOOLEAN
  /\ log \in Seq(Transactions) /\ Len(log) <= MaxCommits
  /\ handled \in Nat
  /\ handled + (IF phase = "idle" THEN 0 ELSE 1) <= Len(log)
  /\ phase \in {"idle", "announcing", "reloading", "updating", "locking", "delivering"}
  /\ changes \subseteq Event
  /\ toCall \subseteq Subscribers \cup PreSubscribers
  /\ alone \in BOOLEAN
  /\ running \in BOOLEAN
  /\ since \in [Subscribers -> Nat]
  /\ received \in [Subscribers -> SUBSET Event]

\* The registration names every change some subscription names, whatever the
\* clients did and whichever calls of the plug-in failed: no change is lost
\* because another client unsubscribed (reset_subscription()).
RegistrationCovers ==
  \A s \in Subscribed :
     /\ registered # None
     /\ \A e \in Event : Matches(callbacks[s], e) => Matches(registered, e)

\* Nobody pays for what nobody asked for: after the last subscription has gone
\* nothing is registered, and otherwise every change the registration names is
\* named by a subscription, unless the plug-in refused the last narrowing.
NothingUnasked ==
  ~outdated /\ registered # None =>
     \A e \in Event :
        Matches(registered, e) => \E s \in Subscribed : Matches(callbacks[s], e)

\* The loops of system_pre_cb() and system_cb() only ever reach subscriptions
\* that exist: no unsubscribe() deletes one under them.
CallbacksExist ==
  toCall \subseteq IF phase = "announcing" THEN preCallbacks ELSE Subscribed

\* The commits a subscriber still has to hear of.
Due ==
  [s \in Subscribers |->
     {n \in 1..Len(log) :
        /\ callbacks[s] # None
        /\ n > since[s]
        /\ n > handled
        /\ n = handled + 1 /\ phase = "delivering" => s \in toCall
        /\ \E e \in log[n] : Matches(callbacks[s], e)}]

Feed == INSTANCE ChangeFeed WITH criteria <- callbacks, due <- Due,
                                 Criteria <- ClientCriteria

\* Every subscriber is told of every commit that concerns it, in order and in
\* one go, through any mixture of subscriptions, failures and other callbacks.
ImplementsFeed == Feed!Spec

\* Every change a subscriber has to hear of reaches it, unless it unsubscribes
\* or the process is terminated.
EveryChangeIsDelivered ==
  \A s \in Subscribers : Due[s] # {} ~> Due[s] = {} \/ ~running

\* "... will be invoked in case of any modification of an object of this class
\* or objects of derived classes" (SubscriptionCriteria.hpp:42-45): a
\* subscriber gets the reported changes of classes derived from its classes.
DerivedClassesReported ==
  [][\A s \in Subscribers :
       phase = "delivering" /\ s \in toCall \ toCall' =>
         {e \in changes : Superclasses[e.cls] \cap callbacks[s].classes # {}}
           \subseteq received'[s]]_vars

\* "Each callback receives own list of changes in accordance with it's
\* subscription criteria" (ConfigPackages.doxygen.hpp:1021-1022), as long as
\* the plug-in accepted every change of the registration.
OwnListOfChanges ==
  [][\A s \in Subscribers :
       phase = "delivering" /\ ~outdated /\ s \in toCall \ toCall' =>
         \A e \in received'[s] : Concerns(callbacks[s], e)]_vars
=============================================================================
