-------------------------- MODULE SubscriptionsProof --------------------------
(***************************************************************************)
(* For any classes, objects, criteria, transactions and number of commits: *)
(* the registration covers every subscription, the loops over callbacks    *)
(* reach only existing ones, and the delivery implements ChangeFeed.       *)
(***************************************************************************)
EXTENDS Subscriptions, TLAPS

\* The union of criteria is criteria.
LEMMA UnionType ==
  ASSUME NEW cbs \in [Subscribers -> Criteria \cup {None}]
  PROVE  UnionOf(cbs) \in Criteria
<1> DEFINE subs == {s \in Subscribers : cbs[s] # None}
           classes == UNION {cbs[s].classes : s \in subs}
           objects == [k \in Classes |->
             IF k \in classes THEN {} ELSE UNION {cbs[s].objects[k] : s \in subs}]
<1>1. \A s \in subs : cbs[s] \in Criteria
  OBVIOUS
<1>2. classes \in SUBSET Classes
  BY <1>1 DEF Criteria
<1>3. objects \in [Classes -> SUBSET Ids]
  <2>1. \A k \in Classes : UNION {cbs[s].objects[k] : s \in subs} \in SUBSET Ids
    BY <1>1 DEF Criteria
  <2> QED BY <2>1
<1>4. Everything \in Criteria
  BY DEF Everything, Criteria
<1>5. [classes |-> classes, objects |-> objects] \in Criteria
  BY <1>2, <1>3 DEF Criteria
<1> QED BY <1>4, <1>5 DEF UnionOf

\* The union names whatever one of the criteria names.
LEMMA UnionCovers ==
  ASSUME NEW cbs \in [Subscribers -> Criteria \cup {None}],
         NEW s \in Subscribers, cbs[s] # None,
         NEW e \in Event, Matches(cbs[s], e)
  PROVE  Matches(UnionOf(cbs), e)
<1> DEFINE subs == {t \in Subscribers : cbs[t] # None}
           classes == UNION {cbs[t].classes : t \in subs}
           objects == [k \in Classes |->
             IF k \in classes THEN {} ELSE UNION {cbs[t].objects[k] : t \in subs}]
<1>1. CASE \E t \in subs : Any(cbs[t])
  <2>1. UnionOf(cbs) = Everything
    BY <1>1 DEF UnionOf
  <2>2. Any(Everything)
    BY DEF Any, Everything
  <2> QED BY <2>1, <2>2 DEF Matches
<1>2. CASE ~\E t \in subs : Any(cbs[t])
  <2>1. UnionOf(cbs) = [classes |-> classes, objects |-> objects]
    BY <1>2 DEF UnionOf
  <2>2. ~Any(cbs[s]) /\ s \in subs /\ e.cls \in Classes
    BY <1>2 DEF Event
  <2>3. CASE e.cls \in cbs[s].classes
    <3>1. e.cls \in classes
      BY <2>2, <2>3
    <3> QED BY <2>1, <3>1 DEF Matches
  <2>4. CASE e.id \in cbs[s].objects[e.cls] /\ e.act # "created"
    <3>1. e.cls \in classes \/ e.id \in objects[e.cls]
      BY <2>2, <2>4
    <3> QED BY <2>1, <2>4, <3>1 DEF Matches
  <2> QED BY <2>2, <2>3, <2>4 DEF Matches
<1> QED BY <1>1, <1>2

\* What reset_subscription() registers.
LEMMA ResetCovers ==
  ASSUME callbacks' \in [Subscribers -> Criteria \cup {None}], reset_subscription
  PROVE  registered' \in Criteria \cup {None} /\ RegistrationCovers'
<1>1. registered' \in Criteria \cup {None}
  BY UnionType DEF reset_subscription
<1>2. ASSUME NEW s \in Subscribers, callbacks'[s] # None
      PROVE  /\ registered' # None
             /\ \A e \in Event : Matches(callbacks'[s], e) => Matches(registered', e)
  <2>1. registered' = UnionOf(callbacks')
    BY <1>2 DEF reset_subscription
  <2>2. registered' # None
    BY <2>1, UnionType, CriteriaAssumption
  <2> QED BY <1>2, <2>1, <2>2, UnionCovers
<1> QED BY <1>1, <1>2 DEF RegistrationCovers, Subscribed

----------------------------------------------------------------------------
\* Types: in particular the notification in progress is about a commit.
THEOREM TypeCorrect == Spec => []TypeOK
<1> USE CriteriaAssumption
<1>1. Init => TypeOK
  <2> SUFFICES ASSUME Init PROVE TypeOK
    OBVIOUS
  <2>1. log \in Seq(Transactions) /\ Len(log) = 0
    BY DEF Init
  <2>2. outdated \in BOOLEAN /\ alone \in BOOLEAN /\ running \in BOOLEAN
    BY Zenon DEF Init
  <2> QED BY <2>1, <2>2 DEF Init, TypeOK
<1>2. TypeOK /\ [Next]_vars => TypeOK'
  <2> SUFFICES ASSUME TypeOK, [Next]_vars PROVE TypeOK'
    OBVIOUS
  <2>0. handled \in Nat /\ Len(log) \in Nat /\ MaxCommits \in Nat
    BY DEF TypeOK
  <2>1. ASSUME NEW s \in Subscribers, NEW c \in ClientCriteria, Subscribe(s, c)
        PROVE  TypeOK'
    <3>1. callbacks' \in [Subscribers -> Criteria \cup {None}]
      BY <2>1 DEF Subscribe, TypeOK
    <3>2. registered' \in Criteria \cup {None} /\ outdated' \in BOOLEAN
      BY <2>1, <3>1, ResetCovers DEF Subscribe, reset_subscription
    <3> QED BY <2>0, <2>1, <3>1, <3>2 DEF Subscribe, TypeOK, threadVars
  <2>2. ASSUME NEW s \in Subscribers, SubscribeFails(s) PROVE TypeOK'
    BY <2>2 DEF SubscribeFails, reset_fails, TypeOK, threadVars
  <2>3. ASSUME NEW p \in PreSubscribers, SubscribePre(p) PROVE TypeOK'
    BY <2>3 DEF SubscribePre, TypeOK, threadVars
  <2>4. ASSUME NEW S, NEW P, Remove(S, P) PROVE TypeOK'
    <3>1. callbacks' \in [Subscribers -> Criteria \cup {None}]
      BY <2>4 DEF Remove, TypeOK
    <3>2. registered' \in Criteria \cup {None} /\ outdated' \in BOOLEAN
      <4>1. CASE reset_subscription
        BY <4>1, <3>1, ResetCovers DEF reset_subscription
      <4>2. CASE reset_fails /\ outdated' = TRUE
        BY <4>2 DEF reset_fails, TypeOK
      <4> QED BY <2>4, <4>1, <4>2 DEF Remove
    <3>3. received' \in [Subscribers -> SUBSET Event] /\ preCallbacks' \subseteq PreSubscribers
      BY <2>4 DEF Remove, TypeOK
    <3> QED BY <2>4, <3>1, <3>2, <3>3 DEF Remove, TypeOK, threadVars
  <2>5. ASSUME NEW T \in Transactions, Commit(T) PROVE TypeOK'
    <3>1. log' \in Seq(Transactions) /\ Len(log') = Len(log) + 1
      BY <2>5 DEF Commit, TypeOK
    <3> QED BY <2>0, <2>5, <3>1 DEF Commit, TypeOK, subscriptionVars, threadVars
  <2>6. ASSUME Done, handled < Len(log), UNCHANGED <<subscriptionVars, log, running, received>>
        PROVE  TypeOK'
    <3>1. alone' \in BOOLEAN /\ outdated' \in BOOLEAN /\ running' \in BOOLEAN
      BY <2>6, Zenon DEF Done, TypeOK, subscriptionVars
    <3>2. handled' \in Nat /\ handled' + 0 <= Len(log')
      BY <2>0, <2>6 DEF Done
    <3> QED BY <2>6, <3>1, <3>2 DEF Done, TypeOK, subscriptionVars
  <2>6a. phase # "idle" => handled < Len(log)
    BY <2>0 DEF TypeOK
  <2>7. CASE Ignore
    BY <2>6, <2>7 DEF Ignore
  <2>8. CASE system_pre_cb
    BY <2>0, <2>8 DEF system_pre_cb, TypeOK, subscriptionVars
  <2>9. ASSUME NEW p \in PreSubscribers, PreCallback(p) PROVE TypeOK'
    BY <2>9 DEF PreCallback, TypeOK, subscriptionVars
  <2>10. CASE LeavePre
    BY <2>10 DEF LeavePre, TypeOK, subscriptionVars
  <2>11. ASSUME NEW reported, Reload(reported) PROVE TypeOK'
    <3>1. log[handled + 1] \in Transactions /\ handled < Len(log)
      BY <2>0, <2>6a, <2>11 DEF Reload, TypeOK
    <3>2. reported \subseteq Event
      BY <2>11, <3>1 DEF Reload
    <3>3. CASE reported = {}
      BY <2>6, <2>11, <3>1, <3>3 DEF Reload
    <3>4. CASE reported # {}
      BY <2>11, <3>2, <3>4 DEF Reload, TypeOK, subscriptionVars
    <3> QED BY <3>3, <3>4
  <2>12. CASE CheckSubscribed
    <3>1. CASE Subscribed = {}
      BY <2>6, <2>6a, <2>12, <3>1 DEF CheckSubscribed
    <3>2. CASE Subscribed # {}
      BY <2>12, <3>2 DEF CheckSubscribed, TypeOK, subscriptionVars
    <3> QED BY <3>1, <3>2
  <2>13. CASE EnterCallbacks
    BY <2>13 DEF EnterCallbacks, TypeOK, subscriptionVars, Subscribed
  <2>14. ASSUME NEW s \in Subscribers, Callback(s) PROVE TypeOK'
    <3>1. Given(s) \subseteq Event
      BY DEF Given, Filter, TypeOK
    <3>2. received' \in [Subscribers -> SUBSET Event] /\ running' \in BOOLEAN
      BY <2>14, <3>1 DEF Callback, TypeOK
    <3> QED BY <2>14, <3>2 DEF Callback, TypeOK, subscriptionVars
  <2>15. CASE LeaveCallbacks
    BY <2>6, <2>6a, <2>15 DEF LeaveCallbacks
  <2>16. CASE UNCHANGED vars
    BY <2>16 DEF vars, subscriptionVars, threadVars, TypeOK
  <2> QED BY <2>1, <2>2, <2>3, <2>4, <2>5, <2>7, <2>8, <2>9, <2>10, <2>11,
             <2>12, <2>13, <2>14, <2>15, <2>16
          DEF Next, NotificationThread, Unsubscribe, UnsubscribeAll, Terminated
<1> QED BY <1>1, <1>2, PTL DEF Spec

----------------------------------------------------------------------------
\* A step of the clients that resets the registration, or fails to.
LEMMA ClientStepCovers ==
  ASSUME TypeOK, RegistrationCovers,
         callbacks' \in [Subscribers -> Criteria \cup {None}],
         \/ reset_subscription
         \/ reset_fails /\ \A s \in Subscribers : callbacks'[s] \in {callbacks[s], None}
  PROVE  RegistrationCovers'
<1>1. CASE reset_subscription
  BY <1>1, ResetCovers
<1>2. CASE reset_fails /\ \A s \in Subscribers : callbacks'[s] \in {callbacks[s], None}
  <2>1. \A s \in Subscribers : callbacks'[s] # None => callbacks'[s] = callbacks[s]
    BY <1>2
  <2> QED BY <1>2, <2>1 DEF reset_fails, RegistrationCovers, Subscribed
<1> QED BY <1>1, <1>2

\* The registration of the plug-in names every change a subscription names.
THEOREM Coverage == Spec => []RegistrationCovers
<1>1. Init => RegistrationCovers
  BY DEF Init, RegistrationCovers, Subscribed
<1>2. TypeOK /\ TypeOK' /\ RegistrationCovers /\ [Next]_vars => RegistrationCovers'
  <2> SUFFICES ASSUME TypeOK, TypeOK', RegistrationCovers, [Next]_vars
               PROVE  RegistrationCovers'
    OBVIOUS
  <2>0. callbacks' \in [Subscribers -> Criteria \cup {None}]
    BY DEF TypeOK
  <2>1. ASSUME NEW s \in Subscribers, NEW c \in ClientCriteria, Subscribe(s, c)
        PROVE  RegistrationCovers'
    BY <2>0, <2>1, ClientStepCovers DEF Subscribe
  <2>2. ASSUME NEW S, NEW P, Remove(S, P) PROVE RegistrationCovers'
    <3>1. \A s \in Subscribers : callbacks'[s] \in {callbacks[s], None}
      BY <2>2 DEF Remove
    <3> QED BY <2>0, <2>2, <3>1, ClientStepCovers DEF Remove
  <2>3. ASSUME UNCHANGED <<callbacks, registered>> PROVE RegistrationCovers'
    BY <2>3 DEF RegistrationCovers, Subscribed
  <2>4. ASSUME NEW s \in Subscribers, SubscribeFails(s) PROVE UNCHANGED <<callbacks, registered>>
    BY <2>4 DEF SubscribeFails, reset_fails
  <2>5. ASSUME NEW p \in PreSubscribers, SubscribePre(p) PROVE UNCHANGED <<callbacks, registered>>
    BY <2>5 DEF SubscribePre
  <2>6. ASSUME NotificationThread \/ \E T \in Transactions : Commit(T)
        PROVE  UNCHANGED <<callbacks, registered>>
    BY <2>6 DEF NotificationThread, Commit, Ignore, system_pre_cb, PreCallback, LeavePre,
         Reload, CheckSubscribed, EnterCallbacks, Callback, LeaveCallbacks, subscriptionVars
  <2>7. CASE UNCHANGED vars
    BY <2>3, <2>7 DEF vars, subscriptionVars
  <2> QED BY <2>1, <2>2, <2>3, <2>4, <2>5, <2>6, <2>7
          DEF Next, Unsubscribe, UnsubscribeAll, Terminated
<1> QED BY <1>1, <1>2, TypeCorrect, PTL DEF Spec

\* The union names nothing that none of the criteria names.
LEMMA UnionOnly ==
  ASSUME NEW cbs \in [Subscribers -> Criteria \cup {None}],
         \E s \in Subscribers : cbs[s] # None,
         NEW e \in Event, Matches(UnionOf(cbs), e)
  PROVE  \E s \in Subscribers : cbs[s] # None /\ Matches(cbs[s], e)
<1> DEFINE subs == {t \in Subscribers : cbs[t] # None}
           classes == UNION {cbs[t].classes : t \in subs}
           objects == [k \in Classes |->
             IF k \in classes THEN {} ELSE UNION {cbs[t].objects[k] : t \in subs}]
<1>1. CASE \E t \in subs : Any(cbs[t])
  BY <1>1 DEF Matches
<1>2. CASE ~\E t \in subs : Any(cbs[t])
  <2>1. UnionOf(cbs) = [classes |-> classes, objects |-> objects]
    BY <1>2 DEF UnionOf
  <2>2. ~Any(UnionOf(cbs))
    <3>1. PICK s \in subs : classes # {} \/ \E k \in Classes : cbs[s].objects[k] # {}
      BY <1>2 DEF Any
    <3>2. classes # {} \/ \E k \in Classes : objects[k] # {}
      BY <3>1
    <3> QED BY <2>1, <3>2 DEF Any
  <2>3. CASE e.cls \in classes
    BY <2>3 DEF Matches
  <2>4. CASE e.id \in objects[e.cls] /\ e.act # "created"
    <3>1. e.cls \in Classes
      BY DEF Event
    <3>2. \E t \in subs : e.id \in cbs[t].objects[e.cls]
      BY <2>4, <3>1
    <3> QED BY <2>4, <3>2 DEF Matches
  <2> QED BY <2>1, <2>2, <2>3, <2>4 DEF Matches
<1> QED BY <1>1, <1>2

\* Unless the plug-in refused to narrow it, the registration names nothing that
\* no subscription names.
THEOREM Narrowness == Spec => []NothingUnasked
<1>1. Init => NothingUnasked
  BY DEF Init, NothingUnasked
<1>2. TypeOK' /\ NothingUnasked /\ [Next]_vars => NothingUnasked'
  <2> SUFFICES ASSUME TypeOK', NothingUnasked, [Next]_vars PROVE NothingUnasked'
    OBVIOUS
  <2>1. ASSUME reset_subscription PROVE NothingUnasked'
    <3> SUFFICES ASSUME registered' # None, NEW e \in Event, Matches(registered', e)
                 PROVE  \E s \in Subscribers : callbacks'[s] # None /\ Matches(callbacks'[s], e)
      BY DEF NothingUnasked, Subscribed
    <3>1. registered' = UnionOf(callbacks') /\ \E s \in Subscribers : callbacks'[s] # None
      BY <2>1 DEF reset_subscription
    <3>2. callbacks' \in [Subscribers -> Criteria \cup {None}]
      BY DEF TypeOK
    <3> QED BY <3>1, <3>2, UnionOnly
  <2>2. ASSUME UNCHANGED <<callbacks, registered, outdated>> PROVE NothingUnasked'
    BY <2>2 DEF NothingUnasked, Subscribed
  <2>3. ASSUME NEW s \in Subscribers, NEW c \in ClientCriteria, Subscribe(s, c)
        PROVE  NothingUnasked'
    BY <2>1, <2>3 DEF Subscribe
  <2>4. ASSUME NEW S, NEW P, Remove(S, P) PROVE NothingUnasked'
    BY <2>1, <2>4 DEF Remove, NothingUnasked
  <2>5. ASSUME NEW s \in Subscribers, SubscribeFails(s) PROVE NothingUnasked'
    BY <2>2, <2>5 DEF SubscribeFails, reset_fails
  <2>6. ASSUME NEW p \in PreSubscribers, SubscribePre(p) PROVE NothingUnasked'
    BY <2>2, <2>6 DEF SubscribePre
  <2>7. ASSUME NotificationThread \/ \E T \in Transactions : Commit(T)
        PROVE  UNCHANGED <<callbacks, registered, outdated>>
    BY <2>7 DEF NotificationThread, Commit, Ignore, system_pre_cb, PreCallback, LeavePre,
         Reload, CheckSubscribed, EnterCallbacks, Callback, LeaveCallbacks, subscriptionVars
  <2>8. CASE UNCHANGED vars
    BY <2>2, <2>8 DEF vars, subscriptionVars
  <2> QED BY <2>2, <2>3, <2>4, <2>5, <2>6, <2>7, <2>8
          DEF Next, Unsubscribe, UnsubscribeAll, Terminated
<1> QED BY <1>1, <1>2, TypeCorrect, PTL DEF Spec

----------------------------------------------------------------------------
(* What the delivery relies on.                                            *)

\* No loop is in progress while m_else_mutex is free.
LoopsOver == ElseMutexFree => toCall = {}

\* The notification in progress holds every change of its commit that a
\* subscriber of that time asked for.
ChangesComplete ==
  phase \in {"updating", "locking", "delivering"} =>
     /\ changes \subseteq log[handled + 1]
     /\ \A s \in Subscribed : since[s] <= handled =>
          \A e \in log[handled + 1] : Matches(callbacks[s], e) => e \in changes

DeliveryInv ==
  /\ CallbacksExist
  /\ LoopsOver
  /\ \A s \in Subscribed : since[s] <= Len(log)
  /\ ChangesComplete

\* Neither an unsubscription nor a failed one can break it.
LEMMA RemoveKeepsDelivery ==
  ASSUME TypeOK, DeliveryInv, ElseMutexFree, NEW S, NEW P, Remove(S, P)
  PROVE  DeliveryInv'
<1>1. toCall' = {} /\ LoopsOver' /\ CallbacksExist'
  BY DEF Remove, DeliveryInv, LoopsOver, CallbacksExist, ElseMutexFree, threadVars
<1>2. \A s \in Subscribers : callbacks'[s] # None =>
         s \in Subscribed /\ callbacks'[s] = callbacks[s] /\ since'[s] = since[s]
  BY DEF Remove, Subscribed
<1>3. UNCHANGED <<log, handled, changes, phase>>
  BY DEF Remove, threadVars
<1> QED BY <1>1, <1>2, <1>3 DEF DeliveryInv, ChangesComplete, Subscribed

LEMMA DeliveryInductive ==
  ASSUME TypeOK, TypeOK', RegistrationCovers, DeliveryInv, [Next]_vars
  PROVE  DeliveryInv'
<1>0. handled \in Nat /\ Len(log) \in Nat /\ \A s \in Subscribers : since[s] \in Nat
  BY DEF TypeOK
<1>1. ASSUME NEW s \in Subscribers, NEW c \in ClientCriteria, Subscribe(s, c)
      PROVE  DeliveryInv'
  <2>1. toCall' = {} /\ LoopsOver' /\ CallbacksExist'
    BY <1>1 DEF Subscribe, DeliveryInv, LoopsOver, CallbacksExist, ElseMutexFree, threadVars
  <2>2. since'[s] = Len(log)
    BY <1>1 DEF Subscribe, TypeOK
  <2>3. \A t \in Subscribers \ {s} : callbacks'[t] = callbacks[t] /\ since'[t] = since[t]
    BY <1>1 DEF Subscribe, TypeOK
  <2>4. UNCHANGED <<log, handled, changes, phase>>
    BY <1>1 DEF Subscribe, threadVars
  <2>5. phase # "idle" => handled < Len(log)
    BY <1>0 DEF TypeOK
  <2>6. \A t \in Subscribed' : since'[t] <= Len(log')
    BY <1>0, <2>2, <2>3, <2>4 DEF DeliveryInv, Subscribed
  <2>7. ChangesComplete'
    BY <1>0, <2>2, <2>3, <2>4, <2>5 DEF DeliveryInv, ChangesComplete, Subscribed
  <2> QED BY <2>1, <2>6, <2>7 DEF DeliveryInv
<1>2. ASSUME NEW s \in Subscribers, SubscribeFails(s) PROVE DeliveryInv'
  BY <1>2 DEF SubscribeFails, DeliveryInv, CallbacksExist, LoopsOver, ElseMutexFree,
       ChangesComplete, Subscribed, threadVars
<1>3. ASSUME NEW p \in PreSubscribers, SubscribePre(p) PROVE DeliveryInv'
  BY <1>3 DEF SubscribePre, DeliveryInv, CallbacksExist, LoopsOver, ElseMutexFree,
       ChangesComplete, Subscribed, threadVars
<1>4. ASSUME NEW id, Unsubscribe(id) PROVE DeliveryInv'
  BY <1>4, RemoveKeepsDelivery DEF Unsubscribe
<1>5. CASE UnsubscribeAll
  BY <1>5, RemoveKeepsDelivery DEF UnsubscribeAll
<1>6. ASSUME NEW T \in Transactions, Commit(T) PROVE DeliveryInv'
  <2>1. /\ Len(log') = Len(log) + 1
        /\ \A n \in 1..Len(log) : log'[n] = log[n]
    BY <1>6 DEF Commit, TypeOK
  <2>2. phase # "idle" => handled + 1 \in 1..Len(log)
    BY <1>0 DEF TypeOK
  <2>3. UNCHANGED <<callbacks, preCallbacks, since, phase, changes, toCall, handled>>
    BY <1>6 DEF Commit, subscriptionVars, threadVars
  <2>4. \A s \in Subscribed' : since'[s] <= Len(log')
    BY <1>0, <2>1, <2>3 DEF DeliveryInv, Subscribed
  <2>5. ChangesComplete'
    BY <2>1, <2>2, <2>3 DEF DeliveryInv, ChangesComplete, Subscribed
  <2> QED BY <2>3, <2>4, <2>5 DEF DeliveryInv, CallbacksExist, LoopsOver, ElseMutexFree, Subscribed
<1>7. ASSUME Done, UNCHANGED <<subscriptionVars, log>> PROVE DeliveryInv'
  BY <1>7 DEF Done, DeliveryInv, CallbacksExist, LoopsOver, ElseMutexFree,
       ChangesComplete, Subscribed, subscriptionVars
<1>8. CASE Ignore
  BY <1>7, <1>8 DEF Ignore
<1>9. CASE system_pre_cb
  BY <1>9 DEF system_pre_cb, DeliveryInv, CallbacksExist, LoopsOver, ElseMutexFree,
       ChangesComplete, Subscribed, subscriptionVars
<1>10. ASSUME NEW p \in PreSubscribers, PreCallback(p) PROVE DeliveryInv'
  BY <1>10 DEF PreCallback, DeliveryInv, CallbacksExist, LoopsOver, ElseMutexFree,
       ChangesComplete, Subscribed, subscriptionVars
<1>11. CASE LeavePre
  BY <1>11 DEF LeavePre, DeliveryInv, CallbacksExist, LoopsOver, ElseMutexFree,
       ChangesComplete, Subscribed, subscriptionVars
<1>12. ASSUME NEW reported, Reload(reported) PROVE DeliveryInv'
  <2>1. CASE reported = {}
    BY <1>7, <1>12, <2>1 DEF Reload
  <2>2. CASE reported # {}
    <3>1. /\ phase' = "updating" /\ changes' = reported /\ toCall' = toCall
          /\ UNCHANGED <<subscriptionVars, log, handled>>
          /\ phase = "reloading" /\ registered # None
          /\ reported \subseteq log[handled + 1]
          /\ \A e \in log[handled + 1] : Matches(registered, e) => e \in reported
      BY <1>12, <2>2 DEF Reload
    <3>2. log[handled + 1] \subseteq Event
      BY <1>0, <3>1, CriteriaAssumption DEF TypeOK
    <3>3. ChangesComplete'
      BY <3>1, <3>2 DEF ChangesComplete, RegistrationCovers, Subscribed, subscriptionVars
    <3> QED BY <3>1, <3>3 DEF DeliveryInv, CallbacksExist, LoopsOver, ElseMutexFree,
                              Subscribed, subscriptionVars
  <2> QED BY <2>1, <2>2
<1>13. CASE CheckSubscribed
  <2>1. CASE Subscribed = {}
    BY <1>7, <1>13, <2>1 DEF CheckSubscribed
  <2>2. CASE Subscribed # {}
    BY <1>13, <2>2 DEF CheckSubscribed, DeliveryInv, CallbacksExist, LoopsOver, ElseMutexFree,
         ChangesComplete, Subscribed, subscriptionVars
  <2> QED BY <2>1, <2>2
<1>14. CASE EnterCallbacks
  BY <1>14 DEF EnterCallbacks, DeliveryInv, CallbacksExist, LoopsOver, ElseMutexFree,
       ChangesComplete, Subscribed, subscriptionVars
<1>15. ASSUME NEW s \in Subscribers, Callback(s) PROVE DeliveryInv'
  BY <1>15 DEF Callback, DeliveryInv, CallbacksExist, LoopsOver, ElseMutexFree,
       ChangesComplete, Subscribed, subscriptionVars
<1>16. CASE LeaveCallbacks
  BY <1>7, <1>16 DEF LeaveCallbacks
<1>17. CASE UNCHANGED vars
  BY <1>17 DEF vars, subscriptionVars, threadVars, DeliveryInv, CallbacksExist, LoopsOver,
       ElseMutexFree, ChangesComplete, Subscribed
<1> QED BY <1>1, <1>2, <1>3, <1>4, <1>5, <1>6, <1>8, <1>9, <1>10, <1>11, <1>12,
           <1>13, <1>14, <1>15, <1>16, <1>17
        DEF Next, NotificationThread, Terminated

THEOREM DeliveryInvariant == Spec => []DeliveryInv
<1>1. Init => DeliveryInv
  BY DEF Init, DeliveryInv, CallbacksExist, LoopsOver, ChangesComplete, Subscribed
<1>2. TypeOK /\ TypeOK' /\ RegistrationCovers /\ DeliveryInv /\ [Next]_vars => DeliveryInv'
  BY DeliveryInductive
<1> QED BY <1>1, <1>2, TypeCorrect, Coverage, PTL DEF Spec

\* The loops of the notification thread reach only callbacks that exist: while
\* one runs, m_else_mutex keeps every unsubscription out.
THEOREM Iteration == Spec => []CallbacksExist
<1>1. DeliveryInv => CallbacksExist
  BY DEF DeliveryInv
<1> QED BY <1>1, DeliveryInvariant, PTL

----------------------------------------------------------------------------
(* The delivery implements ChangeFeed.                                     *)

\* n is a commit s has to hear of.
DueAt(s, n) ==
  /\ n \in 1..Len(log)
  /\ callbacks[s] # None
  /\ n > since[s] /\ n > handled
  /\ n = handled + 1 /\ phase = "delivering" => s \in toCall
  /\ \E e \in log[n] : Matches(callbacks[s], e)

LEMMA DueDef ==
  /\ Due = [s \in Subscribers |-> {n \in 1..Len(log) : DueAt(s, n)}]
  /\ Due' = [s \in Subscribers |-> {n \in 1..Len(log') : DueAt(s, n)'}]
BY DEF Due, DueAt

\* What is due depends on these variables only.
LEMMA DueStays ==
  ASSUME UNCHANGED <<callbacks, since, log>>,
         \A s \in Subscribers, n \in 1..Len(log) : DueAt(s, n)' <=> DueAt(s, n)
  PROVE  Due' = Due
BY DueDef

\* A step that ends a notification nobody has to hear of any more.
LEMMA DoneStays ==
  ASSUME TypeOK, phase \in {"idle", "reloading", "updating", "delivering"},
         handled < Len(log), Done, UNCHANGED <<subscriptionVars, log, received>>,
         \A s \in Subscribers : ~DueAt(s, handled + 1)
  PROVE  UNCHANGED <<callbacks, log, Due, received>>
<1>1. handled \in Nat /\ Len(log) \in Nat
  BY DEF TypeOK
<1>2. ASSUME NEW s \in Subscribers, NEW n \in 1..Len(log)
      PROVE  DueAt(s, n)' <=> DueAt(s, n)
  <2>1. CASE n = handled + 1
    BY <1>1, <2>1 DEF Done, DueAt
  <2>2. CASE n # handled + 1
    BY <1>1, <2>2 DEF Done, DueAt, subscriptionVars
  <2> QED BY <2>1, <2>2
<1> QED BY <1>2, DueStays DEF subscriptionVars

LEMMA SubscribeRefines ==
  ASSUME TypeOK, NEW s \in Subscribers, NEW c \in ClientCriteria, Subscribe(s, c)
  PROVE  Feed!Subscribe(s, c)
<1>1. Len(log) \in Nat /\ c # None
  BY CriteriaAssumption DEF TypeOK
<1>2. /\ callbacks[s] = None /\ callbacks' = [callbacks EXCEPT ![s] = c]
      /\ since' = [since EXCEPT ![s] = Len(log)]
      /\ UNCHANGED <<log, handled, phase, toCall, received>>
  BY DEF Subscribe, threadVars
<1>3. ASSUME NEW t \in Subscribers, NEW n \in 1..Len(log)
      PROVE  DueAt(t, n)' <=> DueAt(t, n)
  <2>1. CASE t = s
    BY <1>1, <1>2, <2>1 DEF DueAt, TypeOK
  <2>2. CASE t # s
    BY <1>2, <2>2 DEF DueAt, TypeOK
  <2> QED BY <2>1, <2>2
<1>4. Due' = Due
  BY <1>2, <1>3, DueDef
<1> QED BY <1>2, <1>4 DEF Feed!Subscribe

LEMMA RemoveRefines ==
  ASSUME TypeOK, DeliveryInv, ElseMutexFree, NEW S, NEW P, Remove(S, P)
  PROVE  Feed!Unsubscribe(S)
<1>1. /\ callbacks' = [s \in Subscribers |-> IF s \in S THEN None ELSE callbacks[s]]
      /\ received' = [s \in Subscribers |-> IF s \in S THEN {} ELSE received[s]]
      /\ UNCHANGED <<log, since, handled, phase, toCall>>
  BY DEF Remove, threadVars
<1>2. ASSUME NEW s \in Subscribers, NEW n \in 1..Len(log)
      PROVE  DueAt(s, n)' <=> s \notin S /\ DueAt(s, n)
  <2>1. CASE s \in S
    BY <1>1, <2>1 DEF DueAt
  <2>2. CASE s \notin S
    BY <1>1, <2>2 DEF DueAt
  <2> QED BY <2>1, <2>2
<1>3. Due' = [s \in Subscribers |-> IF s \in S THEN {} ELSE Due[s]]
  <2>1. \A s \in Subscribers :
          {n \in 1..Len(log) : DueAt(s, n)'} = IF s \in S THEN {} ELSE Due[s]
    BY <1>2, DueDef
  <2>2. Due' = [s \in Subscribers |-> {n \in 1..Len(log) : DueAt(s, n)'}]
    BY <1>1, DueDef
  <2> QED BY <2>1, <2>2
<1> QED BY <1>1, <1>3 DEF Feed!Unsubscribe

LEMMA CommitRefines ==
  ASSUME TypeOK, DeliveryInv, NEW T \in Transactions, Commit(T)
  PROVE  Feed!Commit(T)
<1>1. handled \in Nat /\ Len(log) \in Nat /\ \A s \in Subscribers : since[s] \in Nat
  BY DEF TypeOK
<1>1a. PICK last \in Nat : last = Len(log) + 1
  BY <1>1
<1>2. /\ log' = Append(log, T) /\ Len(log') = last /\ log'[last] = T
      /\ \A n \in 1..Len(log) : log'[n] = log[n]
      /\ UNCHANGED <<callbacks, since, handled, phase, toCall, received>>
  BY <1>1a DEF Commit, TypeOK, subscriptionVars, threadVars
<1>3. ASSUME NEW s \in Subscribers, NEW n \in 1..Len(log)
      PROVE  DueAt(s, n)' <=> DueAt(s, n)
  <2>1. n \in 1..Len(log') /\ log'[n] = log[n]
    BY <1>1, <1>1a, <1>2
  <2> QED BY <1>2, <2>1 DEF DueAt
<1>4. ASSUME NEW s \in Subscribers
      PROVE  DueAt(s, last)' <=> callbacks[s] # None /\ Feed!Wanted(callbacks[s], T) # {}
  <2>1. callbacks[s] # None => last > since[s]
    BY <1>1, <1>1a DEF DeliveryInv, Subscribed
  <2>2. last > handled /\ (last = handled + 1 => phase = "idle")
    BY <1>1, <1>1a DEF TypeOK
  <2>3. last \in 1..Len(log')
    BY <1>1, <1>1a, <1>2
  <2>4. (\E e \in T : Matches(callbacks[s], e)) <=> Feed!Wanted(callbacks[s], T) # {}
    BY DEF Feed!Wanted
  <2>5. DueAt(s, last)' <=>
          /\ last \in 1..Len(log') /\ callbacks[s] # None
          /\ last > since[s] /\ last > handled
          /\ last = handled + 1 /\ phase = "delivering" => s \in toCall
          /\ \E e \in T : Matches(callbacks[s], e)
    BY <1>2 DEF DueAt
  <2> QED BY <2>1, <2>2, <2>3, <2>4, <2>5
<1>5. Due' = [s \in Subscribers |->
                IF callbacks[s] # None /\ Feed!Wanted(callbacks[s], T) # {}
                  THEN Due[s] \cup {last} ELSE Due[s]]
  <2>1. Due' = [s \in Subscribers |-> {n \in 1..Len(log') : DueAt(s, n)'}]
    BY DueDef
  <2>2. ASSUME NEW s \in Subscribers
        PROVE  {n \in 1..Len(log') : DueAt(s, n)'} =
                 IF callbacks[s] # None /\ Feed!Wanted(callbacks[s], T) # {}
                   THEN Due[s] \cup {last} ELSE Due[s]
    <3>1. 1..Len(log') = (1..Len(log)) \cup {last}
      BY <1>1, <1>1a, <1>2
    <3>2. Due[s] = {n \in 1..Len(log) : DueAt(s, n)}
      BY DueDef
    <3>3. last \notin 1..Len(log)
      BY <1>1, <1>1a
    <3>4. \A n : n \in {m \in 1..Len(log') : DueAt(s, m)'} <=>
                   n \in Due[s] \/ (n = last /\ DueAt(s, last)')
      BY <1>3, <3>1, <3>2
    <3>5. CASE callbacks[s] # None /\ Feed!Wanted(callbacks[s], T) # {}
      BY <1>4, <3>4, <3>5
    <3>6. CASE ~(callbacks[s] # None /\ Feed!Wanted(callbacks[s], T) # {})
      BY <1>4, <3>4, <3>6
    <3> QED BY <3>5, <3>6
  <2> QED BY <2>1, <2>2
<1> QED BY <1>1a, <1>2, <1>5 DEF Feed!Commit

\* A callback is called, or passed over because nothing is left for it.
LEMMA CallbackRefines ==
  ASSUME TypeOK, DeliveryInv, NEW s \in Subscribers, Callback(s)
  PROVE  \/ \E T \in Transactions : \E given \in SUBSET T : Feed!Notify(s, given)
         \/ UNCHANGED Feed!vars
<1>0. handled \in Nat /\ Len(log) \in Nat /\ handled < Len(log)
  BY DEF TypeOK, Callback
<1>1. PICK now \in 1..Len(log) : now = handled + 1
  BY <1>0
<1>2. /\ phase = "delivering" /\ s \in toCall /\ toCall' = toCall \ {s}
      /\ UNCHANGED <<callbacks, since, log, handled, phase>>
      /\ received' = IF Given(s) = {} THEN received ELSE [received EXCEPT ![s] = Given(s)]
  BY DEF Callback, subscriptionVars
<1>3. s \in Subscribed /\ callbacks[s] # None /\ log[now] \in Transactions
  BY <1>2 DEF DeliveryInv, CallbacksExist, TypeOK, Subscribed
<1>4. changes \subseteq log[now] /\ Given(s) \subseteq log[now]
  BY <1>1, <1>2 DEF DeliveryInv, ChangesComplete, Given, Filter
<1>5. ASSUME since[s] <= handled
      PROVE  Feed!Wanted(callbacks[s], log[now]) \subseteq Given(s)
  <2>1. log[now] \subseteq Event
    BY <1>3, CriteriaAssumption
  <2>2. ASSUME NEW e \in log[now], Matches(callbacks[s], e) PROVE e \in Given(s)
    <3>1. e \in changes /\ e.act \in {"created", "modified", "removed"}
      BY <1>1, <1>2, <1>3, <1>5, <2>1, <2>2 DEF DeliveryInv, ChangesComplete, Event
    <3> QED BY <2>2, <3>1 DEF Given, Filter, Matches
  <2> QED BY <2>2 DEF Feed!Wanted
<1>6. ASSUME NEW t \in Subscribers, NEW n \in 1..Len(log), t # s \/ n # now
      PROVE  DueAt(t, n)' <=> DueAt(t, n)
  <2>1. t # s => (t \in toCall' <=> t \in toCall)
    BY <1>2
  <2>2. n = handled + 1 => n = now
    BY <1>1
  <2> QED BY <1>2, <1>6, <2>1, <2>2 DEF DueAt
<1>7. ~DueAt(s, now)'
  BY <1>1, <1>2 DEF DueAt
<1>8. CASE DueAt(s, now)
  <2>1. since[s] <= handled
    BY <1>0, <1>1, <1>8 DEF DueAt, TypeOK
  <2>2. Given(s) # {}
    BY <1>5, <1>8, <2>1 DEF DueAt, Feed!Wanted
  <2>3. Due' = [Due EXCEPT ![s] = @ \ {now}]
    <3>1. ASSUME NEW t \in Subscribers
          PROVE  {n \in 1..Len(log') : DueAt(t, n)'} = IF t = s THEN Due[s] \ {now} ELSE Due[t]
      <4>1. log' = log /\ Due[t] = {n \in 1..Len(log) : DueAt(t, n)}
        BY <1>2, DueDef
      <4>2. CASE t = s
        BY <1>6, <1>7, <4>1, <4>2
      <4>3. CASE t # s
        BY <1>6, <4>1, <4>3
      <4> QED BY <4>2, <4>3
    <3>2. Due' = [t \in Subscribers |-> {n \in 1..Len(log') : DueAt(t, n)'}]
      BY DueDef
    <3>3. Due = [t \in Subscribers |-> Due[t]]
      BY DueDef
    <3> QED BY <3>1, <3>2, <3>3
  <2>4. now \in Due[s] /\ \A m \in Due[s] : now <= m
    <3>1. Due[s] = {n \in 1..Len(log) : DueAt(s, n)}
      BY DueDef
    <3>2. \A m \in Due[s] : m \in 1..Len(log) /\ m > handled
      BY <3>1 DEF DueAt
    <3> QED BY <1>0, <1>1, <1>8, <3>1, <3>2
  <2>5. Feed!Notify(s, Given(s))
    <3>1. received' = [received EXCEPT ![s] = Given(s)]
      BY <1>2, <2>2
    <3>2. now \in DOMAIN log
      BY DEF TypeOK
    <3> QED BY <1>2, <1>3, <1>4, <1>5, <2>1, <2>3, <2>4, <3>1, <3>2
            DEF Feed!Notify, Feed!Oldest
  <2> QED BY <1>3, <1>4, <2>5
<1>9. CASE ~DueAt(s, now)
  <2>1. Due' = Due
    <3>1. \A t \in Subscribers, n \in 1..Len(log) : DueAt(t, n)' <=> DueAt(t, n)
      BY <1>6, <1>7, <1>9
    <3> QED BY <1>2, <3>1, DueStays
  <2>2. CASE Given(s) = {}
    BY <1>2, <2>1, <2>2 DEF Feed!vars
  <2>3. CASE Given(s) # {}
    <3>1. now \in DOMAIN log
      BY DEF TypeOK
    <3>2. Feed!Notify(s, Given(s))
      BY <1>2, <1>3, <1>4, <2>1, <2>3, <3>1 DEF Feed!Notify
    <3> QED BY <1>3, <1>4, <3>2
  <2> QED BY <2>2, <2>3
<1> QED BY <1>8, <1>9

\* The other steps of the notification thread tell nobody anything.
LEMMA ThreadStays ==
  ASSUME TypeOK, RegistrationCovers, DeliveryInv,
         \/ Ignore \/ system_pre_cb \/ LeavePre \/ CheckSubscribed
         \/ EnterCallbacks \/ LeaveCallbacks
         \/ \E p \in PreSubscribers : PreCallback(p)
         \/ \E reported \in SUBSET Event : Reload(reported)
  PROVE  UNCHANGED Feed!vars
<1>0. handled \in Nat /\ Len(log) \in Nat /\ (phase # "idle" => handled < Len(log))
  BY DEF TypeOK
<1>1. ASSUME UNCHANGED <<callbacks, since, log, handled, received>>,
             phase # "delivering", phase' # "delivering"
      PROVE  UNCHANGED Feed!vars
  <2>1. \A s \in Subscribers, n \in 1..Len(log) : DueAt(s, n)' <=> DueAt(s, n)
    BY <1>1 DEF DueAt
  <2> QED BY <1>1, <2>1, DueStays DEF Feed!vars
<1>2. CASE Ignore
  <2>1. \A s \in Subscribers : callbacks[s] = None
    BY <1>2 DEF Ignore, RegistrationCovers, Subscribed
  <2> QED BY <1>2, <2>1, DoneStays DEF Ignore, DueAt, Feed!vars
<1>3. CASE system_pre_cb
  BY <1>1, <1>3 DEF system_pre_cb, subscriptionVars
<1>4. CASE LeavePre
  BY <1>1, <1>4 DEF LeavePre, subscriptionVars
<1>5. CASE CheckSubscribed
  <2>1. CASE Subscribed = {}
    BY <1>0, <1>5, <2>1, DoneStays DEF CheckSubscribed, Subscribed, DueAt, Feed!vars
  <2>2. CASE Subscribed # {}
    BY <1>1, <1>5, <2>2 DEF CheckSubscribed, subscriptionVars
  <2> QED BY <2>1, <2>2
<1>6. CASE EnterCallbacks
  <2>1. \A s \in Subscribers, n \in 1..Len(log) : DueAt(s, n)' <=> DueAt(s, n)
    BY <1>6 DEF EnterCallbacks, DueAt, Subscribed, subscriptionVars
  <2> QED BY <1>6, <2>1, DueStays DEF EnterCallbacks, Feed!vars, subscriptionVars
<1>7. CASE LeaveCallbacks
  <2>1. \A s \in Subscribers : ~DueAt(s, handled + 1)
    BY <1>7 DEF LeaveCallbacks, DueAt
  <2> QED BY <1>0, <1>7, <2>1, DoneStays DEF LeaveCallbacks, Feed!vars
<1>8. ASSUME NEW p \in PreSubscribers, PreCallback(p) PROVE UNCHANGED Feed!vars
  BY <1>1, <1>8 DEF PreCallback, subscriptionVars
<1>9. ASSUME NEW reported, Reload(reported) PROVE UNCHANGED Feed!vars
  <2>1. CASE reported = {}
    <3>1. ASSUME NEW s \in Subscribers PROVE ~DueAt(s, handled + 1)
      <4>1. CASE registered = None
        BY <4>1 DEF RegistrationCovers, Subscribed, DueAt
      <4>2. CASE registered # None
        <5>1. \A e \in log[handled + 1] : ~Matches(registered, e)
          BY <1>9, <2>1, <4>2 DEF Reload
        <5>2. log[handled + 1] \subseteq Event
          BY <1>0, <1>9, CriteriaAssumption DEF Reload, TypeOK
        <5> QED BY <5>1, <5>2 DEF RegistrationCovers, Subscribed, DueAt
      <4> QED BY <4>1, <4>2
    <3> QED BY <1>0, <1>9, <2>1, <3>1, DoneStays DEF Reload, Feed!vars
  <2>2. CASE reported # {}
    BY <1>1, <1>9, <2>2 DEF Reload, subscriptionVars
  <2> QED BY <2>1, <2>2
<1> QED BY <1>2, <1>3, <1>4, <1>5, <1>6, <1>7, <1>8, <1>9

\* Every subscriber is told of every commit that concerns it, in order and in
\* one go, whatever the other clients and the plug-in do.
THEOREM Refinement == Spec => ImplementsFeed
<1>1. Init => Feed!Init
  <2> SUFFICES ASSUME Init PROVE Feed!Init
    OBVIOUS
  <2>1. \A s \in Subscribers : {n \in 1..Len(log) : DueAt(s, n)} = {}
    BY DEF Init, DueAt
  <2>2. Due = [s \in Subscribers |-> {}]
    BY <2>1, DueDef
  <2> QED BY <2>2 DEF Init, Feed!Init
<1>2. TypeOK /\ RegistrationCovers /\ DeliveryInv /\ [Next]_vars => [Feed!Next]_(Feed!vars)
  <2> SUFFICES ASSUME TypeOK, RegistrationCovers, DeliveryInv, [Next]_vars
               PROVE  Feed!Next \/ UNCHANGED Feed!vars
    OBVIOUS
  <2>1. ASSUME NEW s \in Subscribers, NEW c \in ClientCriteria, Subscribe(s, c)
        PROVE  Feed!Next
    BY <2>1, SubscribeRefines DEF Feed!Next
  <2>2. ASSUME UNCHANGED <<callbacks, since, log, handled, phase, toCall, received>>
        PROVE  UNCHANGED Feed!vars
    <3>1. \A s \in Subscribers, n \in 1..Len(log) : DueAt(s, n)' <=> DueAt(s, n)
      BY <2>2 DEF DueAt
    <3> QED BY <2>2, <3>1, DueStays DEF Feed!vars
  <2>3. ASSUME NEW s \in Subscribers, SubscribeFails(s) PROVE UNCHANGED Feed!vars
    BY <2>2, <2>3 DEF SubscribeFails, threadVars
  <2>4. ASSUME NEW p \in PreSubscribers, SubscribePre(p) PROVE UNCHANGED Feed!vars
    BY <2>2, <2>4 DEF SubscribePre, threadVars
  <2>5. ASSUME NEW S \in SUBSET Subscribers, NEW P, ElseMutexFree, Remove(S, P)
        PROVE  Feed!Next
    BY <2>5, RemoveRefines DEF Feed!Next
  <2>6. ASSUME NEW id \in Subscribers \cup PreSubscribers, Unsubscribe(id) PROVE Feed!Next
    BY <2>5, <2>6 DEF Unsubscribe, Subscribed
  <2>7. CASE UnsubscribeAll
    BY <2>5, <2>7 DEF UnsubscribeAll
  <2>8. ASSUME NEW T \in Transactions, Commit(T) PROVE Feed!Next
    BY <2>8, CommitRefines DEF Feed!Next
  <2>9. ASSUME NEW s \in Subscribers, Callback(s) PROVE Feed!Next \/ UNCHANGED Feed!vars
    BY <2>9, CallbackRefines DEF Feed!Next
  <2>10. ASSUME NotificationThread PROVE Feed!Next \/ UNCHANGED Feed!vars
    BY <2>9, <2>10, ThreadStays, CriteriaAssumption DEF NotificationThread
  <2>11. CASE UNCHANGED vars
    BY <2>2, <2>11 DEF vars, subscriptionVars, threadVars
  <2> QED BY <2>1, <2>3, <2>4, <2>6, <2>7, <2>8, <2>10, <2>11 DEF Next, Terminated
<1> QED BY <1>1, <1>2, TypeCorrect, Coverage, DeliveryInvariant, PTL
        DEF Spec, ImplementsFeed, Feed!Spec
=============================================================================
