------------------------------ MODULE ChangeFeed ------------------------------
(***************************************************************************)
(* What a Configuration promises to the code that subscribes to changes:   *)
(* every subscriber is told, commit by commit and in the order of the      *)
(* commits, at least of the changes its criteria name, and only of changes *)
(* that were committed together (Change.hpp:21-22: "all changes received   *)
(* ... after commit ... are passed to subscribed client in one go").       *)
(***************************************************************************)
EXTENDS Naturals, Sequences

CONSTANTS
  Subscribers,    \* subscriptions a client may hold
  Criteria,       \* what a subscription may ask for
  Transactions,   \* the sets of changes a commit may make
  None,           \* criteria of a subscription that is not held
  Matches(_, _)   \* Matches(c, e): criteria c name the change e

VARIABLES
  criteria,  \* the criteria of each subscription, or None
  log,       \* the committed transactions
  due,       \* the commits each subscriber still has to hear of
  received   \* the changes each subscriber was given last

vars == <<criteria, log, due, received>>

Wanted(c, T) == {e \in T : Matches(c, e)}

Init ==
  /\ criteria = [s \in Subscribers |-> None]
  /\ log = << >>
  /\ due = [s \in Subscribers |-> {}]
  /\ received = [s \in Subscribers |-> {}]

Subscribe(s, c) ==
  /\ criteria[s] = None
  /\ criteria' = [criteria EXCEPT ![s] = c]
  /\ UNCHANGED <<log, due, received>>

Unsubscribe(S) ==
  /\ criteria' = [s \in Subscribers |-> IF s \in S THEN None ELSE criteria[s]]
  /\ due' = [s \in Subscribers |-> IF s \in S THEN {} ELSE due[s]]
  /\ received' = [s \in Subscribers |-> IF s \in S THEN {} ELSE received[s]]
  /\ UNCHANGED log

Commit(T) ==
  /\ log' = Append(log, T)
  /\ due' = [s \in Subscribers |->
               IF criteria[s] # None /\ Wanted(criteria[s], T) # {}
                 THEN due[s] \cup {Len(log) + 1} ELSE due[s]]
  /\ UNCHANGED <<criteria, received>>

\* The oldest commit s has to hear of.
Oldest(s, n) == n \in due[s] /\ \A m \in due[s] : n <= m

\* s is given the changes given, all of one commit.
Notify(s, given) ==
  /\ criteria[s] # None
  /\ \E n \in DOMAIN log : given \subseteq log[n]
  /\ received' = [received EXCEPT ![s] = given]
  /\ \/ UNCHANGED due
     \/ \E n \in due[s] :
          /\ Oldest(s, n)
          /\ Wanted(criteria[s], log[n]) \subseteq given
          /\ due' = [due EXCEPT ![s] = @ \ {n}]
  /\ UNCHANGED <<criteria, log>>

Next ==
  \/ \E s \in Subscribers, c \in Criteria : Subscribe(s, c)
  \/ \E S \in SUBSET Subscribers : Unsubscribe(S)
  \/ \E T \in Transactions : Commit(T)
  \/ \E s \in Subscribers, T \in Transactions :
       \E given \in SUBSET T : Notify(s, given)

Spec == Init /\ [][Next]_vars
=============================================================================
