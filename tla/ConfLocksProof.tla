--------------------------- MODULE ConfLocksProof ---------------------------
(***************************************************************************)
(* For any number of threads, any set of operations and any number of      *)
(* calls: scripts that are properly scoped keep the mutexes consistent,    *)
(* scripts that hold the right mutex at each access never race, and        *)
(* scripts that lock in one global order, or in levels with m_tmpl_mutex   *)
(* held within a level, never wait in a circle.                            *)
(*                                                                         *)
(* What is asked of the scripts is a property of each script on its own,   *)
(* and a hypothesis of the theorems of the first half.  The second half    *)
(* computes it for every script of ConfLocks from the laws of Under and of *)
(* sequencing, and concludes with theorems that ask only which operations  *)
(* are called.                                                             *)
(***************************************************************************)
EXTENDS ConfLocks, TLAPS

\* The mutex a thread has to hold when it accesses shared data
\* (Configuration.hpp:1666-1669, ConfigObjectImpl.hpp:327).  Reading
\* p_superclasses takes m_impl_mutex because load() and add_include() replace it
\* under that mutex alone; an id changes in rename_object() only, which holds
\* m_tmpl_mutex, and is read under it when a template object is looked up.
Guard ==
  [tmplObjs |-> "tmpl", implObjs |-> "impl", schema |-> "impl",
   handle |-> "obj", id |-> "tmpl",
   actions |-> "actn", callbacks |-> "else", callbackCount |-> "else",
   converters |-> "else", wasRead |-> "dal"]

\* The order in which the mutexes are locked: callbacks run with m_else_mutex
\* held and may call get(), which locks m_tmpl_mutex and then m_impl_mutex; the
\* setters hold the template object's mutex when they lock the handle's, and call
\* the actions.
Rank ==
  [else |-> 1, tmpl |-> 2, impl |-> 3, dal |-> 4, dal2 |-> 5, obj |-> 6, actn |-> 7]

\* Every unlock is of a mutex the script holds, and it ends holding none.
Scoped(s) ==
  /\ \A n \in 1..Len(s) : s[n].do = "unlock" => s[n].on \in HeldAt(s, n)
  /\ HeldAt(s, Len(s) + 1) = {}

\* Every access is made holding the guard of the data.
Guarded(s, protected) ==
  \A n \in 1..Len(s) :
     s[n].do \in {"read", "write"} /\ s[n].on \in protected
       => Guard[s[n].on] \in HeldAt(s, n)

\* Every mutex is locked after those of smaller rank only.
Ordered(s) ==
  \A n \in 1..Len(s) :
     s[n].do = "lock" => \A m \in HeldAt(s, n) : Rank[m] < Rank[s[n].on]

ASSUME ConstantAssumption ==
  /\ NoThread \notin Threads
  /\ MaxCalls \in Nat
  /\ Protected \subseteq Shared
  /\ Idle \notin Calls

ScriptsScoped  == \A c \in Calls : Script[c] \in Seq(Steps) /\ Scoped(Script[c])
\* Data that somebody accesses without its guard is written by nobody.
ScriptsGuarded ==
  \A d \in Protected :
     \/ \A c \in Calls : Guarded(Script[c], {d})
     \/ \A c \in Calls : \A n \in 1..Len(Script[c]) : Script[c][n] # Write(d)
ScriptsOrdered == \A c \in Calls : Ordered(Script[c])

----------------------------------------------------------------------------
\* What one step of a script does to the mutexes it holds: a lock adds one.
LEMMA LockStep ==
  ASSUME NEW s \in Seq(Steps), NEW n \in 1..Len(s),
         s[n].do = "lock"
  PROVE  HeldAt(s, n + 1) = HeldAt(s, n) \cup {s[n].on}
<1>1. Len(s) \in Nat
  OBVIOUS
<1>2. s[n] \in Steps
  BY <1>1
<1>3. /\ s[n].on \in Mutexes
      /\ s[n] = Lock(s[n].on)
      /\ \A m : s[n] # Unlock(m)
      /\ \A m : s[n] = Lock(m) => m = s[n].on
  BY <1>2 DEF Steps, Lock, Unlock
<1>4. ASSUME NEW m \in HeldAt(s, n + 1), m # s[n].on
      PROVE  m \in HeldAt(s, n)
  <2>1. PICK i \in 1..n : /\ s[i] = Lock(m)
                          /\ \A j \in (i + 1)..n : s[j] # Unlock(m)
    BY <1>4, <1>1 DEF HeldAt
  <2>2. i \in 1..(n - 1)
    BY <2>1, <1>3, <1>4
  <2>3. \A j \in (i + 1)..(n - 1) : s[j] # Unlock(m)
    BY <2>1, <1>1
  <2> QED BY <1>4, <2>1, <2>2, <2>3 DEF HeldAt
<1>5. s[n].on \in HeldAt(s, n + 1)
  <2>1. n \in 1..((n + 1) - 1) /\ (n + 1)..((n + 1) - 1) = {}
    BY <1>1
  <2> QED BY <1>3, <2>1 DEF HeldAt
<1>6. ASSUME NEW m \in HeldAt(s, n)
      PROVE  m \in HeldAt(s, n + 1)
  <2>1. PICK i \in 1..(n - 1) : /\ s[i] = Lock(m)
                                /\ \A j \in (i + 1)..(n - 1) : s[j] # Unlock(m)
    BY <1>6 DEF HeldAt
  <2>2. \A j \in (i + 1)..((n + 1) - 1) : s[j] # Unlock(m)
    BY <2>1, <1>1, <1>3
  <2>3. i \in 1..((n + 1) - 1)
    BY <2>1, <1>1
  <2> QED BY <1>6, <2>1, <2>2, <2>3 DEF HeldAt
<1> QED BY <1>4, <1>5, <1>6

\* An unlock removes one.
LEMMA UnlockStep ==
  ASSUME NEW s \in Seq(Steps), NEW n \in 1..Len(s),
         s[n].do = "unlock"
  PROVE  HeldAt(s, n + 1) = HeldAt(s, n) \ {s[n].on}
<1>1. Len(s) \in Nat
  OBVIOUS
<1>2. s[n] \in Steps
  BY <1>1
<1>3. /\ s[n] = Unlock(s[n].on)
      /\ \A m : s[n] # Lock(m)
      /\ \A m : s[n] = Unlock(m) => m = s[n].on
  BY <1>2 DEF Steps, Lock, Unlock
<1>4. ASSUME NEW m \in HeldAt(s, n + 1)
      PROVE  m \in HeldAt(s, n) /\ m # s[n].on
  <2>1. PICK i \in 1..n : /\ s[i] = Lock(m)
                          /\ \A j \in (i + 1)..n : s[j] # Unlock(m)
    BY <1>4, <1>1 DEF HeldAt
  <2>2. i \in 1..(n - 1)
    BY <2>1, <1>3
  <2>3. \A j \in (i + 1)..(n - 1) : s[j] # Unlock(m)
    BY <2>1, <1>1
  <2>4. s[n] # Unlock(m)
    BY <2>1, <2>2
  <2> QED BY <1>3, <1>4, <2>1, <2>2, <2>3, <2>4 DEF HeldAt
<1>5. ASSUME NEW m \in HeldAt(s, n), m # s[n].on
      PROVE  m \in HeldAt(s, n + 1)
  <2>1. PICK i \in 1..(n - 1) : /\ s[i] = Lock(m)
                                /\ \A j \in (i + 1)..(n - 1) : s[j] # Unlock(m)
    BY <1>5 DEF HeldAt
  <2>2. \A j \in (i + 1)..((n + 1) - 1) : s[j] # Unlock(m)
    BY <2>1, <1>1, <1>3, <1>5
  <2>3. i \in 1..((n + 1) - 1)
    BY <2>1, <1>1
  <2> QED BY <1>5, <2>1, <2>2, <2>3 DEF HeldAt
<1> QED BY <1>4, <1>5

\* An access changes nothing.
LEMMA AccessStep ==
  ASSUME NEW s \in Seq(Steps), NEW n \in 1..Len(s),
         s[n].do \in {"read", "write"}
  PROVE  HeldAt(s, n + 1) = HeldAt(s, n)
<1>1. Len(s) \in Nat
  OBVIOUS
<1>2. \A m : s[n] # Lock(m) /\ s[n] # Unlock(m)
  BY DEF Lock, Unlock
<1>3. ASSUME NEW m \in HeldAt(s, n + 1)
      PROVE  m \in HeldAt(s, n)
  <2>1. PICK i \in 1..n : /\ s[i] = Lock(m)
                          /\ \A j \in (i + 1)..n : s[j] # Unlock(m)
    BY <1>3, <1>1 DEF HeldAt
  <2>2. i \in 1..(n - 1)
    BY <2>1, <1>2
  <2>3. \A j \in (i + 1)..(n - 1) : s[j] # Unlock(m)
    BY <2>1, <1>1
  <2> QED BY <1>3, <2>1, <2>2, <2>3 DEF HeldAt
<1>4. ASSUME NEW m \in HeldAt(s, n)
      PROVE  m \in HeldAt(s, n + 1)
  <2>1. PICK i \in 1..(n - 1) : /\ s[i] = Lock(m)
                                /\ \A j \in (i + 1)..(n - 1) : s[j] # Unlock(m)
    BY <1>4 DEF HeldAt
  <2>2. \A j \in (i + 1)..((n + 1) - 1) : s[j] # Unlock(m)
    BY <2>1, <1>1, <1>2
  <2>3. i \in 1..((n + 1) - 1)
    BY <2>1, <1>1
  <2> QED BY <1>4, <2>1, <2>2, <2>3 DEF HeldAt
<1> QED BY <1>3, <1>4

----------------------------------------------------------------------------
\* Types: in particular no thread runs past the end of its script.
THEOREM TypeCorrect ==
  ASSUME ScriptsScoped
  PROVE  Spec => []TypeOK
<1>1. Init => TypeOK
  BY ConstantAssumption DEF Init, TypeOK, Busy
<1>2. TypeOK /\ [Next]_vars => TypeOK'
  <2> SUFFICES ASSUME TypeOK, [Next]_vars PROVE TypeOK'
    OBVIOUS
  <2> USE ConstantAssumption DEF ScriptsScoped
  <2>1. ASSUME NEW t \in Threads, NEW c \in CallsOf(t), Begin(t, c)
        PROVE  TypeOK'
    <3>1. c \in Calls /\ Len(Script[c]) \in Nat
      BY DEF CallsOf
    <3> QED BY <2>1, <3>1 DEF Begin, TypeOK, Busy
  <2>2. ASSUME NEW t \in Threads, HasStep(t), Script[call[t]] \in Seq(Steps)
        PROVE  NextStep(t) \in Steps /\ pc[t] \in 1..Len(Script[call[t]])
    BY <2>2 DEF HasStep, NextStep, TypeOK
  <2>3. ASSUME NEW t \in Threads, HasStep(t)
        PROVE  /\ call[t] \in Calls
               /\ Script[call[t]] \in Seq(Steps)
               /\ pc[t] + 1 <= Len(Script[call[t]]) + 1
    <3>1. call[t] \in Calls
      BY <2>3 DEF HasStep, Busy, TypeOK
    <3> QED BY <2>3, <3>1 DEF HasStep, TypeOK
  <2>4. ASSUME NEW t \in Threads, HasStep(t), Advance(t), UNCHANGED <<call, left>>,
               owner' \in [Mutexes -> Threads \cup {NoThread}]
        PROVE  TypeOK'
    BY <2>3, <2>4 DEF Advance, TypeOK, Busy
  <2>5. ASSUME NEW t \in Threads, Acquire(t) PROVE TypeOK'
    <3>1. owner' \in [Mutexes -> Threads \cup {NoThread}]
      BY <2>2, <2>3, <2>5 DEF Acquire, TypeOK
    <3> QED BY <2>4, <2>5, <3>1 DEF Acquire
  <2>6. ASSUME NEW t \in Threads, Release(t) PROVE TypeOK'
    <3>1. owner' \in [Mutexes -> Threads \cup {NoThread}]
      BY <2>2, <2>3, <2>6 DEF Release, TypeOK
    <3> QED BY <2>4, <2>6, <3>1 DEF Release
  <2>7. ASSUME NEW t \in Threads, Access(t) PROVE TypeOK'
    BY <2>4, <2>7 DEF Access, TypeOK
  <2>8. ASSUME NEW t \in Threads, Return(t) PROVE TypeOK'
    BY <2>8 DEF Return, TypeOK, Busy
  <2>9. CASE UNCHANGED vars
    BY <2>9 DEF vars, TypeOK, Busy
  <2> QED BY <2>1, <2>5, <2>6, <2>7, <2>8, <2>9 DEF Next, Run, Finished
<1> QED BY <1>1, <1>2, PTL DEF Spec

\* A thread owns exactly the mutexes its position in the script says.
THEOREM Ownership ==
  ASSUME ScriptsScoped
  PROVE  Spec => []OwnershipOK
<1>1. Init => OwnershipOK
  BY ConstantAssumption DEF Init, OwnershipOK, Busy
<1>2. TypeOK /\ OwnershipOK /\ [Next]_vars => OwnershipOK'
  <2> SUFFICES ASSUME TypeOK, OwnershipOK, [Next]_vars PROVE OwnershipOK'
    OBVIOUS
  <2> DEFINE HeldBy(u) == IF Busy(u) THEN Held[call[u]][pc[u]] ELSE {}
  <2>0. \A u \in Threads : {m \in Mutexes : owner[m] = u} = HeldBy(u)
    BY DEF OwnershipOK
  <2>1. ASSUME NEW c \in Calls, NEW n \in 1..(Len(Script[c]) + 1)
        PROVE  Held[c][n] = HeldAt(Script[c], n)
    BY DEF Held
  <2>2. ASSUME NEW t \in Threads, HasStep(t)
        PROVE  /\ Busy(t)
               /\ call[t] \in Calls
               /\ Script[call[t]] \in Seq(Steps)
               /\ pc[t] \in 1..Len(Script[call[t]])
               /\ NextStep(t) \in Steps
               /\ HeldBy(t) = HeldAt(Script[call[t]], pc[t])
               /\ Held[call[t]][pc[t] + 1] = HeldAt(Script[call[t]], pc[t] + 1)
    <3>1. Busy(t) /\ call[t] \in Calls
      BY <2>2 DEF HasStep, Busy, TypeOK
    <3>2. Script[call[t]] \in Seq(Steps) /\ pc[t] \in 1..Len(Script[call[t]])
      BY <2>2, <3>1 DEF ScriptsScoped, HasStep, TypeOK
    <3>3. /\ Len(Script[call[t]]) \in Nat
          /\ pc[t] \in 1..(Len(Script[call[t]]) + 1)
          /\ pc[t] + 1 \in 1..(Len(Script[call[t]]) + 1)
      BY <3>2
    <3> QED BY <2>1, <3>1, <3>2, <3>3 DEF NextStep
  <2>3. ASSUME NEW t \in Threads, NEW c \in CallsOf(t), Begin(t, c)
        PROVE  OwnershipOK'
    <3>1. c \in Calls /\ c # Idle
      BY ConstantAssumption DEF CallsOf
    <3>2. Held[c][1] = {}
      <4>1. Len(Script[c]) \in Nat /\ 1 \in 1..(Len(Script[c]) + 1)
        BY <3>1 DEF ScriptsScoped
      <4>2. HeldAt(Script[c], 1) = {}
        BY DEF HeldAt
      <4> QED BY <2>1, <3>1, <4>1, <4>2
    <3>3. {m \in Mutexes : owner[m] = t} = {}
      BY <2>0, <2>3 DEF Begin
    <3>4. ASSUME NEW u \in Threads
          PROVE  {m \in Mutexes : owner'[m] = u}
                   = IF Busy(u)' THEN Held[call'[u]][pc'[u]] ELSE {}
      <4>1. CASE u = t
        BY <2>3, <3>1, <3>2, <3>3, <4>1 DEF Begin, Busy, TypeOK
      <4>2. CASE u # t
        BY <2>0, <2>3, <4>2 DEF Begin, Busy, TypeOK
      <4> QED BY <4>1, <4>2
    <3> QED BY <3>4 DEF OwnershipOK
  <2>4. ASSUME NEW t \in Threads, HasStep(t), Advance(t), UNCHANGED call,
               {m \in Mutexes : owner'[m] = t} = HeldAt(Script[call[t]], pc[t] + 1),
               \A u \in Threads \ {t} :
                  {m \in Mutexes : owner'[m] = u} = {m \in Mutexes : owner[m] = u}
        PROVE  OwnershipOK'
    <3>1. ASSUME NEW u \in Threads
          PROVE  {m \in Mutexes : owner'[m] = u}
                   = IF Busy(u)' THEN Held[call'[u]][pc'[u]] ELSE {}
      <4>1. CASE u = t
        BY <2>2, <2>4, <4>1 DEF Advance, Busy, TypeOK
      <4>2. CASE u # t
        BY <2>0, <2>4, <4>2 DEF Advance, Busy, TypeOK
      <4> QED BY <4>1, <4>2
    <3> QED BY <3>1 DEF OwnershipOK
  <2>5. ASSUME NEW t \in Threads, Acquire(t) PROVE OwnershipOK'
    <3> DEFINE m == NextStep(t).on
    <3>1. /\ HasStep(t) /\ Advance(t) /\ UNCHANGED call
          /\ NextStep(t).do = "lock" /\ owner[m] = NoThread
          /\ owner' = [owner EXCEPT ![m] = t]
      BY <2>5 DEF Acquire
    <3>2. m \in Mutexes
      BY <2>2, <3>1 DEF Steps
    <3>3. HeldAt(Script[call[t]], pc[t] + 1) = HeldAt(Script[call[t]], pc[t]) \cup {m}
      BY <2>2, <3>1, LockStep DEF NextStep
    <3>4. {x \in Mutexes : owner'[x] = t} = HeldAt(Script[call[t]], pc[t] + 1)
      <4>1. {x \in Mutexes : owner[x] = t} = HeldAt(Script[call[t]], pc[t])
        BY <2>0, <2>2, <3>1
      <4>2. \A x \in Mutexes : owner'[x] = t <=> owner[x] = t \/ x = m
        BY <3>1, <3>2 DEF TypeOK
      <4> QED BY <3>2, <3>3, <4>1, <4>2
    <3>5. \A u \in Threads \ {t} :
             {x \in Mutexes : owner'[x] = u} = {x \in Mutexes : owner[x] = u}
      BY <3>1, <3>2, ConstantAssumption DEF TypeOK
    <3> QED BY <2>4, <3>1, <3>4, <3>5
  <2>6. ASSUME NEW t \in Threads, Release(t) PROVE OwnershipOK'
    <3> DEFINE m == NextStep(t).on
    <3>1. /\ HasStep(t) /\ Advance(t) /\ UNCHANGED call
          /\ NextStep(t).do = "unlock"
          /\ owner' = [owner EXCEPT ![m] = NoThread]
      BY <2>6 DEF Release
    <3>2. m \in HeldAt(Script[call[t]], pc[t])
      BY <2>2, <3>1 DEF ScriptsScoped, NextStep, Scoped
    <3>3. m \in Mutexes /\ owner[m] = t
      BY <2>0, <2>2, <3>1, <3>2
    <3>4. HeldAt(Script[call[t]], pc[t] + 1) = HeldAt(Script[call[t]], pc[t]) \ {m}
      BY <2>2, <3>1, UnlockStep DEF NextStep
    <3>5. {x \in Mutexes : owner'[x] = t} = HeldAt(Script[call[t]], pc[t] + 1)
      <4>1. {x \in Mutexes : owner[x] = t} = HeldAt(Script[call[t]], pc[t])
        BY <2>0, <2>2, <3>1
      <4>2. \A x \in Mutexes : owner'[x] = t <=> owner[x] = t /\ x # m
        BY <3>1, <3>3, ConstantAssumption DEF TypeOK
      <4> QED BY <3>4, <4>1, <4>2
    <3>6. \A u \in Threads \ {t} :
             {x \in Mutexes : owner'[x] = u} = {x \in Mutexes : owner[x] = u}
      BY <3>1, <3>3, ConstantAssumption DEF TypeOK
    <3> QED BY <2>4, <3>1, <3>5, <3>6
  <2>7. ASSUME NEW t \in Threads, Access(t) PROVE OwnershipOK'
    <3>1. /\ HasStep(t) /\ Advance(t) /\ UNCHANGED <<owner, call>>
          /\ NextStep(t).do \in {"read", "write"}
      BY <2>7 DEF Access
    <3>2. HeldAt(Script[call[t]], pc[t] + 1) = HeldAt(Script[call[t]], pc[t])
      BY <2>2, <3>1, AccessStep DEF NextStep
    <3> QED BY <2>0, <2>2, <2>4, <3>1, <3>2
  <2>8. ASSUME NEW t \in Threads, Return(t) PROVE OwnershipOK'
    <3>1. call[t] \in Calls
      BY <2>8 DEF Return, Busy, TypeOK
    <3>2. pc[t] = Len(Script[call[t]]) + 1 /\ pc[t] \in 1..(Len(Script[call[t]]) + 1)
      BY <2>8, <3>1 DEF ScriptsScoped, Return, HasStep, TypeOK
    <3>3. {m \in Mutexes : owner[m] = t} = {}
      <4>1. HeldAt(Script[call[t]], Len(Script[call[t]]) + 1) = {}
        BY <3>1 DEF ScriptsScoped, Scoped
      <4>2. {m \in Mutexes : owner[m] = t} = Held[call[t]][pc[t]]
        BY <2>0, <2>8 DEF Return
      <4>3. Held[call[t]][pc[t]] = HeldAt(Script[call[t]], pc[t])
        BY <2>1, <3>1, <3>2
      <4> QED BY <3>2, <4>1, <4>2, <4>3
    <3>4. ASSUME NEW u \in Threads
          PROVE  {m \in Mutexes : owner'[m] = u}
                   = IF Busy(u)' THEN Held[call'[u]][pc'[u]] ELSE {}
      <4>1. CASE u = t
        BY <2>8, <3>3, <4>1 DEF Return, Busy, TypeOK
      <4>2. CASE u # t
        BY <2>0, <2>8, <4>2 DEF Return, Busy, TypeOK
      <4> QED BY <4>1, <4>2
    <3> QED BY <3>4 DEF OwnershipOK
  <2>9. CASE UNCHANGED vars
    BY <2>9 DEF vars, OwnershipOK, Busy
  <2> QED BY <2>3, <2>5, <2>6, <2>7, <2>8, <2>9 DEF Next, Run, Finished
<1> QED BY <1>1, <1>2, TypeCorrect, PTL DEF Spec

----------------------------------------------------------------------------
\* What Ownership says of a thread that has a step to take.
LEMMA OwnedAtStep ==
  ASSUME ScriptsScoped, TypeOK, OwnershipOK, NEW t \in Threads, HasStep(t)
  PROVE  /\ call[t] \in Calls
         /\ pc[t] \in 1..Len(Script[call[t]])
         /\ NextStep(t) \in Steps
         /\ \A m \in Mutexes : owner[m] = t <=> m \in HeldAt(Script[call[t]], pc[t])
<1>1. Busy(t) /\ call[t] \in Calls
  BY DEF HasStep, Busy, TypeOK
<1>2. Script[call[t]] \in Seq(Steps) /\ pc[t] \in 1..Len(Script[call[t]])
  BY <1>1 DEF ScriptsScoped, HasStep, TypeOK
<1>3. /\ Len(Script[call[t]]) \in Nat
      /\ pc[t] \in 1..(Len(Script[call[t]]) + 1)
  BY <1>2
<1>4. {m \in Mutexes : owner[m] = t} = HeldAt(Script[call[t]], pc[t])
  BY <1>1, <1>3 DEF OwnershipOK, Held
<1> QED BY <1>1, <1>2, <1>4 DEF NextStep

\* Operations that hold the guard of the data they access never race, nor do
\* those that only read it.
THEOREM RaceFreedom ==
  ASSUME ScriptsScoped, ScriptsGuarded
  PROVE  Spec => []NoDataRace
<1>1. TypeOK /\ OwnershipOK => NoDataRace
  <2> SUFFICES ASSUME TypeOK, OwnershipOK,
                      NEW t \in Threads, NEW u \in Threads, t # u,
                      NEW d \in Protected,
                      Doing(t) = Write(d), Doing(u) \in {Read(d), Write(d)}
               PROVE  FALSE
    BY DEF NoDataRace
  <2>1. ASSUME NEW v \in Threads, Doing(v) \in {Read(d), Write(d)}
        PROVE  /\ HasStep(v) /\ NextStep(v) = Doing(v)
               /\ call[v] \in Calls /\ pc[v] \in 1..Len(Script[call[v]])
               /\ \A m \in Mutexes : owner[m] = v <=> m \in HeldAt(Script[call[v]], pc[v])
    <3>1. HasStep(v) /\ NextStep(v) = Doing(v)
      BY <2>1 DEF Doing, Idle, Read, Write
    <3> QED BY <3>1, OwnedAtStep
  <2>2. /\ call[t] \in Calls /\ pc[t] \in 1..Len(Script[call[t]])
        /\ Script[call[t]][pc[t]] = Write(d)
    BY <2>1 DEF NextStep
  <2>3. \A c \in Calls : Guarded(Script[c], {d})
    <3>1. ~ \A c \in Calls : \A n \in 1..Len(Script[c]) : Script[c][n] # Write(d)
      BY <2>2
    <3> QED BY <3>1 DEF ScriptsGuarded
  <2>4. ASSUME NEW v \in Threads, Doing(v) \in {Read(d), Write(d)}
        PROVE  owner[Guard[d]] = v
    <3>1. NextStep(v).do \in {"read", "write"} /\ NextStep(v).on = d
      BY <2>1, <2>4 DEF Read, Write
    <3>2. Guard[d] \in HeldAt(Script[call[v]], pc[v])
      BY <2>1, <2>3, <2>4, <3>1 DEF Guarded, NextStep
    <3>3. Guard[d] \in Mutexes
      BY <3>2 DEF HeldAt
    <3> QED BY <2>1, <2>4, <3>2, <3>3
  <2> QED BY <2>4
<1> QED BY <1>1, TypeCorrect, Ownership, PTL

\* A nonempty set of ranks has a largest one.
LEMMA LargestRank ==
  ASSUME NEW R \in SUBSET (1..7), R # {}
  PROVE  \E r \in R : \A q \in R : q <= r
<1>0. CASE 7 \in R  BY <1>0
<1>1. CASE 7 \notin R /\ 6 \in R  BY <1>1
<1>2. CASE 7 \notin R /\ 6 \notin R /\ 5 \in R  BY <1>2
<1>3. CASE 7 \notin R /\ 6 \notin R /\ 5 \notin R /\ 4 \in R  BY <1>3
<1>4. CASE 7 \notin R /\ 6 \notin R /\ 5 \notin R /\ 4 \notin R /\ 3 \in R  BY <1>4
<1>5. CASE 7 \notin R /\ 6 \notin R /\ 5 \notin R /\ 4 \notin R /\ 3 \notin R /\ 2 \in R  BY <1>5
<1>6. CASE R \subseteq {1}
  <2>1. \A q \in R : q <= 1
    BY <1>6
  <2>2. 1 \in R
    BY <1>6
  <2> QED BY <2>1, <2>2
<1> QED BY <1>0, <1>1, <1>2, <1>3, <1>4, <1>5, <1>6

\* Operations that lock in the order of Rank never wait for each other in a
\* circle.  In a circle, take a member that waits for a mutex of the largest
\* rank: the owner is a member too, so it waits for a mutex of a rank larger
\* than the one it owns.
THEOREM DeadlockFreedom ==
  ASSUME ScriptsScoped, ScriptsOrdered
  PROVE  Spec => []NoCircularWait
<1>1. TypeOK /\ OwnershipOK => NoCircularWait
  <2> SUFFICES ASSUME TypeOK, OwnershipOK,
                      NEW S \in (SUBSET Threads) \ {{}},
                      \A t \in S : Blocker(t) \in S
               PROVE  FALSE
    BY DEF NoCircularWait
  <2> DEFINE Want(t) == NextStep(t).on
  <2>1. ASSUME NEW t \in S
        PROVE  /\ HasStep(t) /\ NextStep(t).do = "lock"
               /\ Want(t) \in Mutexes
               /\ owner[Want(t)] \in S
    <3>1. Blocker(t) \in S /\ Blocker(t) # NoThread
      BY ConstantAssumption
    <3>2. HasStep(t) /\ NextStep(t).do = "lock" /\ owner[Want(t)] \in S
      BY <3>1 DEF Blocker
    <3>3. NextStep(t) \in Steps
      BY <3>2, OwnedAtStep
    <3> QED BY <3>2, <3>3 DEF Steps
  <2>2. ASSUME NEW t \in S
        PROVE  Rank[Want(t)] < Rank[Want(owner[Want(t)])]
    <3> DEFINE u == owner[Want(t)]
    <3>1. u \in S /\ Want(t) \in Mutexes
      BY <2>1
    <3>2. HasStep(u) /\ NextStep(u).do = "lock"
      BY <2>1, <3>1
    <3>3. /\ call[u] \in Calls /\ pc[u] \in 1..Len(Script[call[u]])
          /\ Want(t) \in HeldAt(Script[call[u]], pc[u])
      BY <3>1, <3>2, OwnedAtStep
    <3> QED BY <3>2, <3>3 DEF ScriptsOrdered, Ordered, NextStep
  <2>3. \A m \in Mutexes : Rank[m] \in 1..7
    BY DEF Mutexes, Rank
  <2> DEFINE R == {Rank[Want(t)] : t \in S}
  <2>4. R \in SUBSET (1..7) /\ R # {}
    BY <2>1, <2>3
  <2>5. PICK t \in S : \A u \in S : Rank[Want(u)] <= Rank[Want(t)]
    <3> HIDE DEF Want
    <3>1. \E r \in R : \A q \in R : q <= r
      BY <2>4, LargestRank
    <3> QED BY <3>1
  <2>6. /\ owner[Want(t)] \in S
        /\ Rank[Want(t)] \in Nat /\ Rank[Want(owner[Want(t)])] \in Nat
    BY <2>1, <2>3
  <2> QED BY <2>2, <2>5, <2>6
<1> QED BY <1>1, TypeCorrect, Ownership, PTL
----------------------------------------------------------------------------
(* The laws of scripts: what a script made of others locks, and what it    *)
(* does with which mutexes.                                                *)

Sound(s) == s \in Seq(Steps) /\ Scoped(s)

\* s takes step x somewhere, holding the mutexes of H.
Does(s, x, H) == \E n \in 1..Len(s) : x = s[n] /\ H = HeldAt(s, n)

Locks(s) == {m \in Mutexes : \E H \in SUBSET Mutexes : Does(s, Lock(m), H)}
Written(s) == {d \in Shared : \E H \in SUBSET Mutexes : Does(s, Write(d), H)}

\* The data that s accesses somewhere without the guard.
Loose(s) ==
  {d \in Shared : \E H \in SUBSET Mutexes :
      (Does(s, Read(d), H) \/ Does(s, Write(d), H)) /\ Guard[d] \notin H}

\* s is ordered where mutexes up to rank r are held already.
OrderedAbove(s, r) ==
  \A m \in Mutexes, H \in SUBSET Mutexes :
     Does(s, Lock(m), H) => r < Rank[m] /\ \A k \in H : Rank[k] < Rank[m]

LEMMA HeldInFirst ==
  ASSUME NEW s \in Seq(Steps), NEW t \in Seq(Steps), NEW n \in 1..(Len(s) + 1)
  PROVE  HeldAt(s \o t, n) = HeldAt(s, n)
<1>1. Len(s) \in Nat /\ \A i \in 1..Len(s) : (s \o t)[i] = s[i]
  OBVIOUS
<1>2. \A i \in 1..(n - 1) : (s \o t)[i] = s[i]
  BY <1>1
<1>3. \A i \in 1..(n - 1) : \A j \in (i + 1)..(n - 1) : (s \o t)[j] = s[j]
  BY <1>1
<1> QED BY <1>2, <1>3 DEF HeldAt

LEMMA HeldInSecond ==
  ASSUME NEW s \in Seq(Steps), NEW t \in Seq(Steps), HeldAt(s, Len(s) + 1) = {},
         NEW n \in 1..(Len(t) + 1)
  PROVE  HeldAt(s \o t, Len(s) + n) = HeldAt(t, n)
<1> DEFINE u == s \o t
<1>1. /\ Len(s) \in Nat /\ Len(t) \in Nat
      /\ \A i \in 1..Len(s) : u[i] = s[i]
      /\ \A i \in 1..Len(t) : u[Len(s) + i] = t[i]
  OBVIOUS
<1> HIDE DEF u
<1>2. ASSUME NEW m \in HeldAt(u, Len(s) + n)
      PROVE  m \in HeldAt(t, n)
  <2>1. PICK i \in 1..(Len(s) + n - 1) :
           /\ u[i] = Lock(m)
           /\ \A j \in (i + 1)..(Len(s) + n - 1) : u[j] # Unlock(m)
    BY <1>2 DEF HeldAt
  <2>2. CASE i <= Len(s)
    <3>1. i \in 1..(Len(s) + 1 - 1) /\ s[i] = Lock(m)
      BY <1>1, <2>1, <2>2
    <3>2. \A j \in (i + 1)..(Len(s) + 1 - 1) : s[j] # Unlock(m)
      BY <1>1, <2>1, <2>2
    <3>3. m \in Mutexes
      BY <1>2 DEF HeldAt
    <3> QED BY <3>1, <3>2, <3>3 DEF HeldAt
  <2>3. CASE i > Len(s)
    <3> DEFINE k == i - Len(s)
    <3>1. k \in 1..(n - 1) /\ i = Len(s) + k /\ k \in 1..Len(t)
      BY <1>1, <2>1, <2>3
    <3>2. t[k] = Lock(m)
      BY <1>1, <2>1, <3>1
    <3>3. ASSUME NEW j \in (k + 1)..(n - 1) PROVE t[j] # Unlock(m)
      <4>1. j \in 1..Len(t) /\ Len(s) + j \in (i + 1)..(Len(s) + n - 1)
        BY <1>1, <3>1
      <4> QED BY <1>1, <2>1, <4>1
    <3>4. m \in Mutexes
      BY <1>2 DEF HeldAt
    <3> QED BY <3>1, <3>2, <3>3, <3>4 DEF HeldAt
  <2> QED BY <1>1, <2>1, <2>2, <2>3
<1>3. ASSUME NEW m \in HeldAt(t, n)
      PROVE  m \in HeldAt(u, Len(s) + n)
  <2>1. PICK k \in 1..(n - 1) : /\ t[k] = Lock(m)
                                /\ \A j \in (k + 1)..(n - 1) : t[j] # Unlock(m)
    BY <1>3 DEF HeldAt
  <2> DEFINE i == Len(s) + k
  <2>2. i \in 1..(Len(s) + n - 1) /\ u[i] = Lock(m)
    BY <1>1, <2>1
  <2>3. ASSUME NEW j \in (i + 1)..(Len(s) + n - 1) PROVE u[j] # Unlock(m)
    <3>1. j - Len(s) \in (k + 1)..(n - 1) /\ j - Len(s) \in 1..Len(t) /\ j = Len(s) + (j - Len(s))
      BY <1>1
    <3> QED BY <1>1, <2>1, <3>1
  <2>4. m \in Mutexes
    BY <1>3 DEF HeldAt
  <2> QED BY <2>2, <2>3, <2>4 DEF HeldAt
<1> QED BY <1>2, <1>3 DEF u

\* A sound script unlocks only what it locks.
LEMMA UnlocksItsOwn ==
  ASSUME NEW s, Sound(s), NEW m \in Mutexes \ Locks(s), NEW n \in 1..Len(s)
  PROVE  s[n] # Lock(m) /\ s[n] # Unlock(m)
<1>1. \A k \in 1..Len(s) : HeldAt(s, k) \in SUBSET Mutexes
  BY DEF HeldAt
<1>2. \A k \in 1..Len(s) : s[k] # Lock(m)
  BY <1>1 DEF Locks, Does
<1>3. SUFFICES ASSUME s[n] = Unlock(m) PROVE FALSE
  BY <1>2
<1>4. m \in HeldAt(s, n)
  BY <1>3 DEF Sound, Scoped, Unlock
<1>5. PICK i \in 1..(n - 1) : s[i] = Lock(m)
  BY <1>4 DEF HeldAt
<1>6. i \in 1..Len(s)
  BY <1>5 DEF Sound
<1> QED BY <1>2, <1>5, <1>6

LEMMA HeldUnder ==
  ASSUME NEW b, Sound(b), NEW m \in Mutexes \ Locks(b)
  PROVE  /\ Under(m, b) \in Seq(Steps) /\ Len(Under(m, b)) = Len(b) + 2
         /\ Under(m, b)[1] = Lock(m) /\ Under(m, b)[Len(b) + 2] = Unlock(m)
         /\ \A n \in 1..Len(b) : Under(m, b)[n + 1] = b[n]
         /\ HeldAt(Under(m, b), 1) = {}
         /\ \A n \in 1..(Len(b) + 1) :
               HeldAt(Under(m, b), n + 1) = HeldAt(b, n) \cup {m}
         /\ HeldAt(Under(m, b), Len(b) + 3) = {}
<1> DEFINE u == Under(m, b)
           N == Len(b)
<1>1. N \in Nat /\ b \in Seq(Steps) /\ HeldAt(b, N + 1) = {}
  BY DEF Sound, Scoped
<1>2. /\ u \in Seq(Steps) /\ Len(u) = N + 2 /\ u[1] = Lock(m) /\ u[N + 2] = Unlock(m)
      /\ \A n \in 1..N : u[n + 1] = b[n]
  <2>1. <<Lock(m)>> \in Seq(Steps) /\ <<Unlock(m)>> \in Seq(Steps)
    BY DEF Lock, Unlock, Steps
  <2> DEFINE v == <<Lock(m)>> \o b
  <2>2. /\ v \in Seq(Steps) /\ Len(v) = N + 1 /\ v[1] = Lock(m)
        /\ \A n \in 1..N : v[n + 1] = b[n]
    BY <1>1, <2>1
  <2> HIDE DEF v
  <2> DEFINE w == v \o <<Unlock(m)>>
  <2>3. /\ w \in Seq(Steps) /\ Len(w) = N + 2 /\ w[N + 2] = Unlock(m)
        /\ \A n \in 1..(N + 1) : w[n] = v[n]
    BY <1>1, <2>1, <2>2
  <2>4. u = w
    BY DEF Under, v
  <2> HIDE DEF w, u
  <2>5. /\ 1 \in 1..(N + 1) /\ \A n \in 1..N : n + 1 \in 1..(N + 1)
    BY <1>1
  <2> QED BY <2>2, <2>3, <2>4, <2>5
<1>3. \A n \in 1..N : b[n] # Lock(m) /\ b[n] # Unlock(m)
  BY UnlocksItsOwn
<1>4. \A k \in Mutexes : /\ Lock(m) = Lock(k) => m = k
                         /\ Unlock(m) = Unlock(k) => m = k
                         /\ Lock(m) # Unlock(k) /\ Unlock(m) # Lock(k)
  BY DEF Lock, Unlock
<1> HIDE DEF u, N
<1>5. HeldAt(u, 1) = {}
  BY DEF HeldAt
<1>6. ASSUME NEW n \in 1..(N + 1)
      PROVE  HeldAt(u, n + 1) = HeldAt(b, n) \cup {m}
  <2>1. m \in HeldAt(u, n + 1)
    <3>1. 1 \in 1..(n + 1 - 1)
      BY <1>1
    <3>2. ASSUME NEW j \in (1 + 1)..(n + 1 - 1) PROVE u[j] # Unlock(m)
      <4>1. j - 1 \in 1..N /\ j = (j - 1) + 1
        BY <1>1
      <4>2. u[j] = b[j - 1]
        BY <1>2, <4>1
      <4> QED BY <1>3, <4>1, <4>2
    <3> QED BY <1>2, <3>1, <3>2 DEF HeldAt
  <2>2. ASSUME NEW k \in HeldAt(b, n) PROVE k \in HeldAt(u, n + 1)
    <3>1. PICK i \in 1..(n - 1) : /\ b[i] = Lock(k)
                                  /\ \A j \in (i + 1)..(n - 1) : b[j] # Unlock(k)
      BY <2>2 DEF HeldAt
    <3>2. i + 1 \in 1..(n + 1 - 1) /\ u[i + 1] = Lock(k)
      BY <1>1, <1>2, <3>1
    <3>3. ASSUME NEW j \in (i + 1 + 1)..(n + 1 - 1) PROVE u[j] # Unlock(k)
      <4>1. j - 1 \in 1..N /\ j = (j - 1) + 1 /\ j - 1 \in (i + 1)..(n - 1)
        BY <1>1
      <4>2. u[j] = b[j - 1]
        BY <1>2, <4>1
      <4> QED BY <3>1, <4>1, <4>2
    <3>4. k \in Mutexes
      BY <2>2 DEF HeldAt
    <3> QED BY <3>2, <3>3, <3>4 DEF HeldAt
  <2>3. ASSUME NEW k \in HeldAt(u, n + 1), k # m PROVE k \in HeldAt(b, n)
    <3>1. PICK i \in 1..(n + 1 - 1) : /\ u[i] = Lock(k)
                                      /\ \A j \in (i + 1)..(n + 1 - 1) : u[j] # Unlock(k)
      BY <2>3 DEF HeldAt
    <3>2. k \in Mutexes
      BY <2>3 DEF HeldAt
    <3>3. i # 1
      BY <1>2, <1>4, <2>3, <3>1, <3>2
    <3>4. i - 1 \in 1..(n - 1) /\ i - 1 \in 1..N /\ i = (i - 1) + 1
      BY <1>1, <3>1, <3>3
    <3>5. b[i - 1] = Lock(k)
      BY <1>2, <3>1, <3>4
    <3>6. ASSUME NEW j \in ((i - 1) + 1)..(n - 1) PROVE b[j] # Unlock(k)
      <4>1. j \in 1..N /\ j + 1 \in (i + 1)..(n + 1 - 1)
        BY <1>1, <3>4
      <4> QED BY <1>2, <3>1, <4>1
    <3> QED BY <3>2, <3>4, <3>5, <3>6 DEF HeldAt
  <2> QED BY <2>1, <2>2, <2>3
<1>7. HeldAt(u, N + 3) = {}
  <2>1. HeldAt(u, N + 2) = {m}
    <3>1. N + 1 \in 1..(N + 1) /\ (N + 1) + 1 = N + 2
      BY <1>1
    <3> QED BY <1>1, <1>6, <3>1 DEF N
  <2>2. N + 2 \in 1..Len(u) /\ u[N + 2].do = "unlock" /\ u[N + 2].on = m
    BY <1>1, <1>2 DEF Unlock
  <2>3. HeldAt(u, (N + 2) + 1) = HeldAt(u, N + 2) \ {m}
    BY <1>2, <2>2, UnlockStep
  <2>4. (N + 2) + 1 = N + 3
    BY <1>1
  <2> QED BY <2>1, <2>3, <2>4
<1> QED BY <1>2, <1>5, <1>6, <1>7 DEF u, N

LEMMA DoesThen ==
  ASSUME NEW s, NEW t, Sound(s), Sound(t)
  PROVE  /\ Sound(s \o t)
         /\ \A x, H : Does(s \o t, x, H) <=> Does(s, x, H) \/ Does(t, x, H)
<1> DEFINE u == s \o t
<1>1. /\ Len(s) \in Nat /\ Len(t) \in Nat /\ s \in Seq(Steps) /\ t \in Seq(Steps)
      /\ u \in Seq(Steps) /\ Len(u) = Len(s) + Len(t)
      /\ \A i \in 1..Len(s) : u[i] = s[i]
      /\ \A i \in 1..Len(t) : u[Len(s) + i] = t[i]
  BY DEF Sound
<1>2. \A n \in 1..Len(s) : HeldAt(u, n) = HeldAt(s, n)
  BY <1>1, HeldInFirst
<1>3. \A n \in 1..(Len(t) + 1) : HeldAt(u, Len(s) + n) = HeldAt(t, n)
  BY <1>1, HeldInSecond DEF Sound, Scoped
<1> HIDE DEF u
<1>4. \A n \in 1..Len(u) : \/ n \in 1..Len(s)
                           \/ n - Len(s) \in 1..Len(t) /\ n = Len(s) + (n - Len(s))
  BY <1>1
<1>5. /\ \A n \in 1..Len(s) : n \in 1..Len(u)
      /\ \A n \in 1..Len(t) : Len(s) + n \in 1..Len(u) /\ n \in 1..(Len(t) + 1)
  BY <1>1
<1>6. HeldAt(u, Len(u) + 1) = {}
  <2>1. Len(t) + 1 \in 1..(Len(t) + 1) /\ Len(u) + 1 = Len(s) + (Len(t) + 1)
    BY <1>1
  <2> QED BY <1>3, <2>1 DEF Sound, Scoped
<1>7. ASSUME NEW n \in 1..Len(u), u[n].do = "unlock" PROVE u[n].on \in HeldAt(u, n)
  <2>1. CASE n \in 1..Len(s)
    BY <1>1, <1>2, <1>7, <2>1 DEF Sound, Scoped
  <2>2. CASE n - Len(s) \in 1..Len(t) /\ n = Len(s) + (n - Len(s))
    <3> DEFINE k == n - Len(s)
    <3>1. k \in 1..Len(t) /\ n = Len(s) + k /\ k \in 1..(Len(t) + 1)
      BY <1>5, <2>2
    <3> HIDE DEF k
    <3> QED BY <1>1, <1>3, <1>7, <3>1 DEF Sound, Scoped
  <2> QED BY <1>4, <2>1, <2>2
<1>8. ASSUME NEW x, NEW H
      PROVE  Does(u, x, H) <=> Does(s, x, H) \/ Does(t, x, H)
  <2>1. Does(s, x, H) => Does(u, x, H)
    BY <1>1, <1>2, <1>5 DEF Does
  <2>2. Does(t, x, H) => Does(u, x, H)
    BY <1>1, <1>3, <1>5 DEF Does
  <2>3. Does(u, x, H) => Does(s, x, H) \/ Does(t, x, H)
    <3> SUFFICES ASSUME NEW n \in 1..Len(u), x = u[n], H = HeldAt(u, n)
                 PROVE  Does(s, x, H) \/ Does(t, x, H)
      BY DEF Does
    <3>1. CASE n \in 1..Len(s)
      BY <1>1, <1>2, <3>1 DEF Does
    <3>2. CASE n - Len(s) \in 1..Len(t) /\ n = Len(s) + (n - Len(s))
      <4> DEFINE k == n - Len(s)
      <4>1. k \in 1..Len(t) /\ n = Len(s) + k /\ k \in 1..(Len(t) + 1)
        BY <1>5, <3>2
      <4> HIDE DEF k
      <4> QED BY <1>1, <1>3, <4>1 DEF Does
    <3> QED BY <1>4, <3>1, <3>2
  <2> QED BY <2>1, <2>2, <2>3
<1> QED BY <1>1, <1>6, <1>7, <1>8 DEF Sound, Scoped, u

LEMMA DoesUnder ==
  ASSUME NEW b, Sound(b), NEW m \in Mutexes \ Locks(b)
  PROVE  /\ Sound(Under(m, b))
         /\ \A x, H : Does(Under(m, b), x, H) <=>
               \/ x = Lock(m) /\ H = {}
               \/ x = Unlock(m) /\ H = {m}
               \/ \E G \in SUBSET Mutexes : Does(b, x, G) /\ H = G \cup {m}
<1> DEFINE u == Under(m, b)
           N == Len(b)
<1>1. N \in Nat /\ b \in Seq(Steps) /\ HeldAt(b, N + 1) = {}
  BY DEF Sound, Scoped
<1>2. /\ u \in Seq(Steps) /\ Len(u) = N + 2 /\ u[1] = Lock(m) /\ u[N + 2] = Unlock(m)
      /\ \A n \in 1..N : u[n + 1] = b[n]
      /\ HeldAt(u, 1) = {} /\ HeldAt(u, N + 3) = {}
      /\ \A n \in 1..(N + 1) : HeldAt(u, n + 1) = HeldAt(b, n) \cup {m}
  BY HeldUnder
<1> HIDE DEF u, N
<1>3. HeldAt(u, N + 2) = {m}
  <2>1. N + 1 \in 1..(N + 1) /\ (N + 1) + 1 = N + 2
    BY <1>1
  <2> QED BY <1>1, <1>2, <2>1 DEF N
<1>4. \A n \in 1..Len(u) : \/ n = 1 \/ n = N + 2
                           \/ n - 1 \in 1..N /\ n = (n - 1) + 1
  BY <1>1, <1>2
<1>5. /\ 1 \in 1..Len(u) /\ N + 2 \in 1..Len(u)
      /\ \A n \in 1..N : n + 1 \in 1..Len(u) /\ n \in 1..(N + 1)
  BY <1>1, <1>2
<1>6. ASSUME NEW n \in 1..Len(u), u[n].do = "unlock" PROVE u[n].on \in HeldAt(u, n)
  <2>1. n # 1
    BY <1>2, <1>6 DEF Lock
  <2>2. CASE n = N + 2
    BY <1>2, <1>3, <2>2 DEF Unlock
  <2>3. CASE n - 1 \in 1..N /\ n = (n - 1) + 1
    <3> DEFINE k == n - 1
    <3>1. k \in 1..N /\ n = k + 1 /\ k \in 1..(N + 1)
      BY <1>5, <2>3
    <3> HIDE DEF k
    <3>2. u[n] = b[k] /\ HeldAt(u, n) = HeldAt(b, k) \cup {m}
      BY <1>2, <3>1
    <3> QED BY <1>6, <3>1, <3>2 DEF Sound, Scoped, N
  <2> QED BY <1>4, <2>1, <2>2, <2>3
<1>7. Len(u) + 1 = N + 3
  BY <1>1, <1>2
<1>8. Sound(u)
  BY <1>2, <1>6, <1>7 DEF Sound, Scoped
<1>9. ASSUME NEW x, NEW H
      PROVE  Does(u, x, H) <=>
               \/ x = Lock(m) /\ H = {}
               \/ x = Unlock(m) /\ H = {m}
               \/ \E G \in SUBSET Mutexes : Does(b, x, G) /\ H = G \cup {m}
  <2>1. (x = Lock(m) /\ H = {}) => Does(u, x, H)
    BY <1>2, <1>5 DEF Does
  <2>2. (x = Unlock(m) /\ H = {m}) => Does(u, x, H)
    BY <1>2, <1>3, <1>5 DEF Does
  <2>3. ASSUME NEW G, Does(b, x, G), H = G \cup {m} PROVE Does(u, x, H)
    <3>1. PICK n \in 1..N : x = b[n] /\ G = HeldAt(b, n)
      BY <2>3 DEF Does, N
    <3>2. n + 1 \in 1..Len(u) /\ x = u[n + 1] /\ H = HeldAt(u, n + 1)
      BY <1>2, <1>5, <2>3, <3>1
    <3> QED BY <3>2 DEF Does
  <2>4. ASSUME Does(u, x, H), ~(x = Lock(m) /\ H = {}), ~(x = Unlock(m) /\ H = {m})
        PROVE  \E G \in SUBSET Mutexes : Does(b, x, G) /\ H = G \cup {m}
    <3>1. PICK n \in 1..Len(u) : x = u[n] /\ H = HeldAt(u, n)
      BY <2>4 DEF Does
    <3>2. n # 1 /\ n # N + 2
      BY <1>2, <1>3, <2>4, <3>1
    <3> DEFINE k == n - 1
    <3>3. k \in 1..N /\ n = k + 1 /\ k \in 1..(N + 1)
      BY <1>4, <1>5, <3>1, <3>2
    <3> HIDE DEF k
    <3>4. x = b[k] /\ H = HeldAt(b, k) \cup {m}
      BY <1>2, <3>1, <3>3
    <3>5. Does(b, x, HeldAt(b, k))
      BY <3>3, <3>4 DEF Does, N
    <3>6. HeldAt(b, k) \in SUBSET Mutexes
      BY DEF HeldAt
    <3> QED BY <3>4, <3>5, <3>6
  <2> QED BY <2>1, <2>2, <2>3, <2>4
<1> QED BY <1>8, <1>9 DEF u

LEMMA Ranks == \A m \in Mutexes : Rank[m] \in 1..7
BY DEF Mutexes, Rank

\* A step is one of a mutex or of a datum, and says which.
LEMMA StepsDiffer ==
  /\ \A m, k : (Lock(m) = Lock(k) => m = k) /\ Lock(m) # Unlock(k)
  /\ \A m, d : Lock(m) # Read(d) /\ Lock(m) # Write(d)
  /\ \A m, d : Unlock(m) # Read(d) /\ Unlock(m) # Write(d)
  /\ \A d, e : Read(d) # Write(e) /\ (Read(d) = Read(e) => d = e)
                                  /\ (Write(d) = Write(e) => d = e)
BY DEF Lock, Unlock, Read, Write

\* One script after the other.
LEMMA ThenLaws ==
  ASSUME NEW s, NEW t, Sound(s), Sound(t)
  PROVE  /\ Sound(s \o t)
         /\ Locks(s \o t) = Locks(s) \cup Locks(t)
         /\ Written(s \o t) = Written(s) \cup Written(t)
         /\ Loose(s \o t) = Loose(s) \cup Loose(t)
         /\ \A r : OrderedAbove(s \o t, r) <=> OrderedAbove(s, r) /\ OrderedAbove(t, r)
<1> DEFINE u == s \o t
<1>1. Sound(u) /\ \A x, H : Does(u, x, H) <=> Does(s, x, H) \/ Does(t, x, H)
  BY DoesThen
<1> HIDE DEF u
<1>2. Locks(u) = Locks(s) \cup Locks(t)
  BY <1>1 DEF Locks
<1>3. Written(u) = Written(s) \cup Written(t)
  BY <1>1 DEF Written
<1>4. Loose(u) = Loose(s) \cup Loose(t)
  BY <1>1 DEF Loose
<1>5. \A r : OrderedAbove(u, r) <=> OrderedAbove(s, r) /\ OrderedAbove(t, r)
  BY <1>1 DEF OrderedAbove
<1> QED BY <1>1, <1>2, <1>3, <1>4, <1>5 DEF u

\* A script that holds m throughout.
LEMMA UnderLaws ==
  ASSUME NEW b, Sound(b), NEW m \in Mutexes \ Locks(b)
  PROVE  /\ Sound(Under(m, b))
         /\ Locks(Under(m, b)) = {m} \cup Locks(b)
         /\ Written(Under(m, b)) = Written(b)
         /\ Loose(Under(m, b)) = {d \in Loose(b) : Guard[d] # m}
         /\ \A r \in Nat :
               OrderedAbove(Under(m, b), r) <=> r < Rank[m] /\ OrderedAbove(b, Rank[m])
<1> DEFINE u == Under(m, b)
<1>1. /\ Sound(u)
      /\ \A x, H : Does(u, x, H) <=> \/ x = Lock(m) /\ H = {}
                                     \/ x = Unlock(m) /\ H = {m}
                                     \/ \E G \in SUBSET Mutexes : Does(b, x, G) /\ H = G \cup {m}
  BY DoesUnder
<1> HIDE DEF u
<1>2. ASSUME NEW x, NEW G \in SUBSET Mutexes, Does(b, x, G)
      PROVE  Does(u, x, G \cup {m}) /\ G \cup {m} \in SUBSET Mutexes
  BY <1>1, <1>2
<1>3. Does(u, Lock(m), {}) /\ {} \in SUBSET Mutexes
  BY <1>1
<1>4. ASSUME NEW k \in Mutexes, NEW H \in SUBSET Mutexes, Does(u, Lock(k), H)
      PROVE  \/ k = m /\ H = {}
             \/ /\ k # m
                /\ \E G \in SUBSET Mutexes : Does(b, Lock(k), G) /\ H = G \cup {m}
  BY <1>1, <1>4, StepsDiffer DEF Locks
<1>5. ASSUME NEW d, NEW x \in {Read(d), Write(d)}, NEW H \in SUBSET Mutexes, Does(u, x, H)
      PROVE  \E G \in SUBSET Mutexes : Does(b, x, G) /\ H = G \cup {m}
  BY <1>1, <1>5, StepsDiffer
<1>6. Locks(u) = {m} \cup Locks(b)
  <2>1. Locks(u) \subseteq {m} \cup Locks(b)
    BY <1>4 DEF Locks
  <2>2. m \in Locks(u)
    BY <1>3 DEF Locks
  <2>3. Locks(b) \subseteq Locks(u)
    BY <1>2 DEF Locks
  <2> QED BY <2>1, <2>2, <2>3
<1>7. Written(u) = Written(b)
  BY <1>2, <1>5 DEF Written
<1>8. Loose(u) = {d \in Loose(b) : Guard[d] # m}
  <2>1. ASSUME NEW d \in Loose(u) PROVE d \in Loose(b) /\ Guard[d] # m
    BY <1>5 DEF Loose
  <2>2. ASSUME NEW d \in Loose(b), Guard[d] # m PROVE d \in Loose(u)
    <3>1. PICK G \in SUBSET Mutexes : (Does(b, Read(d), G) \/ Does(b, Write(d), G)) /\ Guard[d] \notin G
      BY DEF Loose
    <3> QED BY <1>2, <2>2, <3>1 DEF Loose
  <2> QED BY <2>1, <2>2
<1>9. ASSUME NEW r \in Nat
      PROVE  OrderedAbove(u, r) <=> r < Rank[m] /\ OrderedAbove(b, Rank[m])
  <2>1. ASSUME OrderedAbove(u, r) PROVE r < Rank[m] /\ OrderedAbove(b, Rank[m])
    BY <1>2, <1>3, <2>1 DEF OrderedAbove
  <2>2. ASSUME r < Rank[m], OrderedAbove(b, Rank[m]) PROVE OrderedAbove(u, r)
    <3> SUFFICES ASSUME NEW k \in Mutexes, NEW H \in SUBSET Mutexes, Does(u, Lock(k), H)
                 PROVE  r < Rank[k] /\ \A h \in H : Rank[h] < Rank[k]
      BY DEF OrderedAbove
    <3>1. CASE k = m /\ H = {}
      BY <2>2, <3>1
    <3>2. ASSUME NEW G \in SUBSET Mutexes, Does(b, Lock(k), G), H = G \cup {m}
          PROVE  r < Rank[k] /\ \A h \in H : Rank[h] < Rank[k]
      <4>1. Rank[m] < Rank[k] /\ \A h \in G : Rank[h] < Rank[k]
        BY <2>2, <3>2 DEF OrderedAbove
      <4>2. Rank[m] \in Nat /\ Rank[k] \in Nat
        BY Ranks
      <4> QED BY <2>2, <3>2, <4>1, <4>2
    <3> QED BY <1>4, <3>1, <3>2
  <2> QED BY <2>1, <2>2
<1> QED BY <1>1, <1>6, <1>7, <1>8, <1>9 DEF u

\* Nothing.
LEMMA EmptyLaws ==
  /\ Sound(<< >>) /\ Locks(<< >>) = {} /\ Written(<< >>) = {} /\ Loose(<< >>) = {}
  /\ \A r : OrderedAbove(<< >>, r)
<1>1. \A x, H : ~Does(<< >>, x, H)
  BY DEF Does
<1>2. Sound(<< >>)
  <2>1. HeldAt(<< >>, 0 + 1) = {}
    BY DEF HeldAt
  <2> QED BY <2>1 DEF Sound, Scoped
<1> QED BY <1>1, <1>2 DEF Locks, Written, Loose, OrderedAbove


----------------------------------------------------------------------------
(* The scripts of the operations: what each locks and writes, what it      *)
(* accesses without the guard, and below which rank (low, 0 if none is low  *)
(* enough) it is ordered.                                                  *)

Profile(s, locks, written, loose, low) ==
  /\ Sound(s)
  /\ \A m \in Mutexes : m \in Locks(s) <=> m \in locks
  /\ \A d \in Shared : d \in Written(s) <=> d \in written
  /\ \A d \in Shared : d \in Loose(s) <=> d \in loose
  /\ \A r \in 0..7 : OrderedAbove(s, r) <=> r < low

LEMMA ThenProfile ==
  ASSUME NEW s, NEW t, Sound(s), Sound(t)
  PROVE  /\ Sound(s \o t)
         /\ \A m \in Mutexes : m \in Locks(s \o t) <=> m \in Locks(s) \/ m \in Locks(t)
         /\ \A d \in Shared : d \in Written(s \o t) <=> d \in Written(s) \/ d \in Written(t)
         /\ \A d \in Shared : d \in Loose(s \o t) <=> d \in Loose(s) \/ d \in Loose(t)
         /\ \A r \in 0..7 : OrderedAbove(s \o t, r) <=> OrderedAbove(s, r) /\ OrderedAbove(t, r)
BY ThenLaws

LEMMA UnderProfile ==
  ASSUME NEW b, Sound(b), NEW m \in Mutexes, m \notin Locks(b)
  PROVE  /\ Sound(Under(m, b))
         /\ \A k \in Mutexes : k \in Locks(Under(m, b)) <=> k = m \/ k \in Locks(b)
         /\ \A d \in Shared : d \in Written(Under(m, b)) <=> d \in Written(b)
         /\ \A d \in Shared : d \in Loose(Under(m, b)) <=> d \in Loose(b) /\ Guard[d] # m
         /\ \A r \in 0..7 :
               OrderedAbove(Under(m, b), r) <=> r < Rank[m] /\ OrderedAbove(b, Rank[m])
BY UnderLaws

\* Accesses alone are made without any mutex.
Accesses == [do : {"read", "write"}, on : Shared]
LEMMA AccessesProfile ==
  ASSUME NEW s \in Seq(Accesses)
  PROVE  Profile(s, {}, {s[n].on : n \in {k \in 1..Len(s) : s[k].do = "write"}},
                 {s[n].on : n \in 1..Len(s)}, 8)
<1> DEFINE W == {s[n].on : n \in {k \in 1..Len(s) : s[k].do = "write"}}
           U == {s[n].on : n \in 1..Len(s)}
<1>1. Len(s) \in Nat /\ s \in Seq(Steps) /\ \A n \in 1..Len(s) : s[n] \in Accesses
  <2>1. Accesses \subseteq Steps
    BY DEF Accesses, Steps
  <2> QED BY <2>1
<1>2. \A n \in 1..Len(s) : /\ s[n].do \in {"read", "write"} /\ s[n].on \in Shared
                           /\ s[n].do = "read" => s[n] = Read(s[n].on)
                           /\ s[n].do = "write" => s[n] = Write(s[n].on)
                           /\ \A m : s[n] # Lock(m)
  BY <1>1 DEF Accesses, Read, Write, Lock
<1>3. \A n \in 1..(Len(s) + 1) : HeldAt(s, n) = {}
  <2>1. \A n \in 1..(Len(s) + 1) : \A i \in 1..(n - 1) : i \in 1..Len(s)
    BY <1>1
  <2> QED BY <1>2, <2>1 DEF HeldAt
<1>4. Sound(s)
  <2>1. Len(s) + 1 \in 1..(Len(s) + 1)
    BY <1>1
  <2> QED BY <1>1, <1>2, <1>3, <2>1 DEF Sound, Scoped
<1>5. ASSUME NEW x, NEW H
      PROVE  Does(s, x, H) <=> H = {} /\ \E n \in 1..Len(s) : x = s[n]
  <2>1. \A n \in 1..Len(s) : HeldAt(s, n) = {}
    BY <1>1, <1>3
  <2> QED BY <2>1 DEF Does
<1>6. \A m, H : ~Does(s, Lock(m), H)
  BY <1>2, <1>5
<1>7. Written(s) = W
  <2>1. ASSUME NEW d \in Written(s) PROVE d \in W
    <3>1. PICK n \in 1..Len(s) : s[n] = Write(d)
      BY <1>5 DEF Written
    <3> QED BY <3>1 DEF Write
  <2>2. ASSUME NEW d \in W PROVE d \in Written(s)
    <3>1. PICK n \in 1..Len(s) : s[n].do = "write" /\ d = s[n].on
      OBVIOUS
    <3>2. d \in Shared /\ Does(s, Write(d), {})
      BY <1>2, <1>5, <3>1
    <3> QED BY <3>2 DEF Written
  <2> QED BY <2>1, <2>2
<1>8. Loose(s) = U
  <2>1. ASSUME NEW d \in Loose(s) PROVE d \in U
    <3>1. PICK n \in 1..Len(s) : s[n] \in {Read(d), Write(d)}
      BY <1>5 DEF Loose
    <3> QED BY <3>1 DEF Read, Write
  <2>2. ASSUME NEW d \in U PROVE d \in Loose(s)
    <3>1. PICK n \in 1..Len(s) : d = s[n].on
      OBVIOUS
    <3>2. d \in Shared /\ (Does(s, Read(d), {}) \/ Does(s, Write(d), {}))
      BY <1>2, <1>5, <3>1
    <3> QED BY <3>2 DEF Loose
  <2> QED BY <2>1, <2>2
<1> QED BY <1>4, <1>6, <1>7, <1>8 DEF Profile, Locks, OrderedAbove

\* One to four accesses.
WritesTo(x, d) == x.do = "write" /\ x.on = d
LEMMA OneAccess ==
  ASSUME NEW x \in Accesses
  PROVE  /\ Sound(<<x>>)
         /\ \A m \in Mutexes : m \notin Locks(<<x>>)
         /\ \A d \in Shared : d \in Written(<<x>>) <=> WritesTo(x, d)
         /\ \A d \in Shared : d \in Loose(<<x>>) <=> d = x.on
         /\ \A r \in 0..7 : OrderedAbove(<<x>>, r)
<1> DEFINE s == <<x>>
<1>1. s \in Seq(Accesses) /\ Len(s) = 1 /\ s[1] = x
  OBVIOUS
<1> HIDE DEF s
<1>2. \A n : n \in 1..Len(s) <=> n = 1
  BY <1>1
<1>3. \A d : d \in {s[n].on : n \in 1..Len(s)} <=> d \in {x.on}
  BY <1>1, <1>2
<1>4. \A d : d \in {s[n].on : n \in {k \in 1..Len(s) : s[k].do = "write"}} <=> WritesTo(x, d)
  BY <1>1, <1>2 DEF WritesTo
<1>5. Profile(s, {}, {s[n].on : n \in {k \in 1..Len(s) : s[k].do = "write"}},
              {s[n].on : n \in 1..Len(s)}, 8)
  BY <1>1, AccessesProfile
<1> QED BY <1>3, <1>4, <1>5 DEF Profile, s

LEMMA TwoAccesses ==
  ASSUME NEW x \in Accesses, NEW y \in Accesses
  PROVE  /\ Sound(<<x, y>>)
         /\ \A m \in Mutexes : m \notin Locks(<<x, y>>)
         /\ \A d \in Shared : d \in Written(<<x, y>>) <=> WritesTo(x, d) \/ WritesTo(y, d)
         /\ \A d \in Shared : d \in Loose(<<x, y>>) <=> d \in {x.on, y.on}
         /\ \A r \in 0..7 : OrderedAbove(<<x, y>>, r)
<1> DEFINE s == <<x, y>>
<1>1. s \in Seq(Accesses) /\ Len(s) = 2 /\ s[1] = x /\ s[2] = y
  OBVIOUS
<1> HIDE DEF s
<1>2. \A n : n \in 1..Len(s) <=> n \in {1, 2}
  BY <1>1
<1>3. \A d : d \in {s[n].on : n \in 1..Len(s)} <=> d \in {x.on, y.on}
  BY <1>1, <1>2
<1>4. \A d : d \in {s[n].on : n \in {k \in 1..Len(s) : s[k].do = "write"}} <=> WritesTo(x, d) \/ WritesTo(y, d)
  BY <1>1, <1>2 DEF WritesTo
<1>5. Profile(s, {}, {s[n].on : n \in {k \in 1..Len(s) : s[k].do = "write"}},
              {s[n].on : n \in 1..Len(s)}, 8)
  BY <1>1, AccessesProfile
<1> QED BY <1>3, <1>4, <1>5 DEF Profile, s

LEMMA ThreeAccesses ==
  ASSUME NEW x \in Accesses, NEW y \in Accesses, NEW z \in Accesses
  PROVE  /\ Sound(<<x, y, z>>)
         /\ \A m \in Mutexes : m \notin Locks(<<x, y, z>>)
         /\ \A d \in Shared : d \in Written(<<x, y, z>>)
                                <=> WritesTo(x, d) \/ WritesTo(y, d) \/ WritesTo(z, d)
         /\ \A d \in Shared : d \in Loose(<<x, y, z>>) <=> d \in {x.on, y.on, z.on}
         /\ \A r \in 0..7 : OrderedAbove(<<x, y, z>>, r)
<1> DEFINE s == <<x, y, z>>
<1>1. s \in Seq(Accesses) /\ Len(s) = 3 /\ s[1] = x /\ s[2] = y /\ s[3] = z
  OBVIOUS
<1> HIDE DEF s
<1>2. \A n : n \in 1..Len(s) <=> n \in {1, 2, 3}
  BY <1>1
<1>3. \A d : d \in {s[n].on : n \in 1..Len(s)} <=> d \in {x.on, y.on, z.on}
  BY <1>1, <1>2
<1>4. \A d : d \in {s[n].on : n \in {k \in 1..Len(s) : s[k].do = "write"}} <=> WritesTo(x, d) \/ WritesTo(y, d) \/ WritesTo(z, d)
  BY <1>1, <1>2 DEF WritesTo
<1>5. Profile(s, {}, {s[n].on : n \in {k \in 1..Len(s) : s[k].do = "write"}},
              {s[n].on : n \in 1..Len(s)}, 8)
  BY <1>1, AccessesProfile
<1> QED BY <1>3, <1>4, <1>5 DEF Profile, s

LEMMA FourAccesses ==
  ASSUME NEW x \in Accesses, NEW y \in Accesses, NEW z \in Accesses, NEW w \in Accesses
  PROVE  /\ Sound(<<x, y, z, w>>)
         /\ \A m \in Mutexes : m \notin Locks(<<x, y, z, w>>)
         /\ \A d \in Shared : d \in Written(<<x, y, z, w>>)
               <=> WritesTo(x, d) \/ WritesTo(y, d) \/ WritesTo(z, d) \/ WritesTo(w, d)
         /\ \A d \in Shared : d \in Loose(<<x, y, z, w>>) <=> d \in {x.on, y.on, z.on, w.on}
         /\ \A r \in 0..7 : OrderedAbove(<<x, y, z, w>>, r)
<1> DEFINE s == <<x, y, z, w>>
<1>1. s \in Seq(Accesses) /\ Len(s) = 4 /\ s[1] = x /\ s[2] = y /\ s[3] = z /\ s[4] = w
  OBVIOUS
<1> HIDE DEF s
<1>2. \A n : n \in 1..Len(s) <=> n \in {1, 2, 3, 4}
  BY <1>1
<1>3. \A d : d \in {s[n].on : n \in 1..Len(s)} <=> d \in {x.on, y.on, z.on, w.on}
  BY <1>1, <1>2
<1>4. \A d : d \in {s[n].on : n \in {k \in 1..Len(s) : s[k].do = "write"}} <=> WritesTo(x, d) \/ WritesTo(y, d) \/ WritesTo(z, d) \/ WritesTo(w, d)
  BY <1>1, <1>2 DEF WritesTo
<1>5. Profile(s, {}, {s[n].on : n \in {k \in 1..Len(s) : s[k].do = "write"}},
              {s[n].on : n \in 1..Len(s)}, 8)
  BY <1>1, AccessesProfile
<1> QED BY <1>3, <1>4, <1>5 DEF Profile, s

LEMMA AccessSteps ==
  \A d \in Shared : /\ Read(d) \in Accesses /\ Read(d).on = d
                    /\ Write(d) \in Accesses /\ Write(d).on = d
                    /\ \A e : ~WritesTo(Read(d), e) /\ (WritesTo(Write(d), e) <=> e = d)
BY DEF Accesses, Read, Write, WritesTo

LEMMA AccessProfiles ==
  /\ \A d \in Shared : Profile(<<Read(d)>>, {}, {}, {d}, 8)
  /\ \A d \in Shared : Profile(<<Write(d)>>, {}, {d}, {d}, 8)
  /\ \A d, e \in Shared : Profile(<<Write(d), Write(e)>>, {}, {d, e}, {d, e}, 8)
  /\ \A d, e \in Shared : Profile(<<Read(d), Write(e)>>, {}, {e}, {d, e}, 8)
  /\ \A d, e \in Shared : Profile(<<Read(d), Read(e)>>, {}, {}, {d, e}, 8)
  /\ \A d, e, f \in Shared : Profile(<<Read(d), Write(e), Write(f)>>, {}, {e, f},
                                     {d, e, f}, 8)
  /\ \A d, e, f \in Shared : Profile(<<Write(d), Write(e), Read(f)>>, {}, {d, e},
                                     {d, e, f}, 8)
  /\ \A d, e, f \in Shared : Profile(<<Write(d), Write(e), Write(f)>>, {}, {d, e, f},
                                     {d, e, f}, 8)
  /\ \A d, e, f, g \in Shared : Profile(<<Write(d), Write(e), Write(f), Read(g)>>, {},
                                        {d, e, f}, {d, e, f, g}, 8)
<1>1. \A d \in Shared : Profile(<<Read(d)>>, {}, {}, {d}, 8)
  BY OneAccess, AccessSteps DEF Profile
<1>2. \A d \in Shared : Profile(<<Write(d)>>, {}, {d}, {d}, 8)
  BY OneAccess, AccessSteps DEF Profile
<1>3. \A d, e \in Shared : Profile(<<Write(d), Write(e)>>, {}, {d, e}, {d, e}, 8)
  BY TwoAccesses, AccessSteps DEF Profile
<1>4. \A d, e \in Shared : Profile(<<Read(d), Write(e)>>, {}, {e}, {d, e}, 8)
  BY TwoAccesses, AccessSteps DEF Profile
<1>5. \A d, e, f \in Shared : Profile(<<Read(d), Write(e), Write(f)>>, {}, {e, f},
                                      {d, e, f}, 8)
  <2> TAKE d, e, f \in Shared
  <2> DEFINE x == Read(d)  y == Write(e)  z == Write(f)
  <2>1. /\ x \in Accesses /\ y \in Accesses /\ z \in Accesses
        /\ x.on = d /\ y.on = e /\ z.on = f
        /\ \A k : (WritesTo(x, k) \/ WritesTo(y, k) \/ WritesTo(z, k)) <=> k \in {e, f}
    BY AccessSteps
  <2> HIDE DEF x, y, z
  <2>2. Profile(<<x, y, z>>, {}, {e, f}, {d, e, f}, 8)
    BY <2>1, ThreeAccesses DEF Profile
  <2> QED BY <2>2 DEF x, y, z
<1>6. \A d, e, f \in Shared : Profile(<<Write(d), Write(e), Read(f)>>, {}, {d, e},
                                      {d, e, f}, 8)
  <2> TAKE d, e, f \in Shared
  <2> DEFINE x == Write(d)  y == Write(e)  z == Read(f)
  <2>1. /\ x \in Accesses /\ y \in Accesses /\ z \in Accesses
        /\ x.on = d /\ y.on = e /\ z.on = f
        /\ \A k : (WritesTo(x, k) \/ WritesTo(y, k) \/ WritesTo(z, k)) <=> k \in {d, e}
    BY AccessSteps
  <2> HIDE DEF x, y, z
  <2>2. Profile(<<x, y, z>>, {}, {d, e}, {d, e, f}, 8)
    BY <2>1, ThreeAccesses DEF Profile
  <2> QED BY <2>2 DEF x, y, z
<1>7. \A d, e, f \in Shared : Profile(<<Write(d), Write(e), Write(f)>>, {}, {d, e, f},
                                      {d, e, f}, 8)
  <2> TAKE d, e, f \in Shared
  <2> DEFINE x == Write(d)  y == Write(e)  z == Write(f)
  <2>1. /\ x \in Accesses /\ y \in Accesses /\ z \in Accesses
        /\ x.on = d /\ y.on = e /\ z.on = f
        /\ \A k : (WritesTo(x, k) \/ WritesTo(y, k) \/ WritesTo(z, k)) <=> k \in {d, e, f}
    BY AccessSteps
  <2> HIDE DEF x, y, z
  <2>2. Profile(<<x, y, z>>, {}, {d, e, f}, {d, e, f}, 8)
    BY <2>1, ThreeAccesses DEF Profile
  <2> QED BY <2>2 DEF x, y, z
<1>8. \A d, e, f, g \in Shared : Profile(<<Write(d), Write(e), Write(f), Read(g)>>, {},
              {d, e, f}, {d, e, f, g}, 8)
  <2> TAKE d, e, f, g \in Shared
  <2> DEFINE x == Write(d)  y == Write(e)  z == Write(f)  w == Read(g)
  <2>1. /\ x \in Accesses /\ y \in Accesses /\ z \in Accesses /\ w \in Accesses
        /\ x.on = d /\ y.on = e /\ z.on = f /\ w.on = g
        /\ \A k : (WritesTo(x, k) \/ WritesTo(y, k) \/ WritesTo(z, k) \/ WritesTo(w, k))
                     <=> k \in {d, e, f}
    BY AccessSteps
  <2> HIDE DEF x, y, z, w
  <2>2. Profile(<<x, y, z, w>>, {}, {d, e, f}, {d, e, f, g}, 8)
    BY <2>1, FourAccesses DEF Profile
  <2> QED BY <2>2 DEF x, y, z, w
<1>9. \A d, e \in Shared : Profile(<<Read(d), Read(e)>>, {}, {}, {d, e}, 8)
  BY TwoAccesses, AccessSteps DEF Profile
<1> QED BY <1>1, <1>2, <1>3, <1>4, <1>5, <1>6, <1>7, <1>8, <1>9

LEMMA Names ==
  /\ "tmplObjs" \in Shared /\ "implObjs" \in Shared /\ "handle" \in Shared /\ "id" \in Shared
  /\ "schema" \in Shared /\ "actions" \in Shared /\ "callbacks" \in Shared
  /\ "callbackCount" \in Shared /\ "converters" \in Shared /\ "wasRead" \in Shared
  /\ "tmpl" \in Mutexes /\ "impl" \in Mutexes /\ "actn" \in Mutexes /\ "else" \in Mutexes
  /\ "obj" \in Mutexes /\ "dal" \in Mutexes /\ "dal2" \in Mutexes
BY DEF Shared, Mutexes

LEMMA GuardRank ==
  /\ Guard["tmplObjs"] = "tmpl" /\ Guard["implObjs"] = "impl" /\ Guard["schema"] = "impl"
  /\ Guard["handle"] = "obj" /\ Guard["id"] = "tmpl" /\ Guard["actions"] = "actn"
  /\ Guard["callbacks"] = "else" /\ Guard["callbackCount"] = "else"
  /\ Guard["converters"] = "else" /\ Guard["wasRead"] = "dal"
  /\ Rank["else"] = 1 /\ Rank["tmpl"] = 2 /\ Rank["impl"] = 3 /\ Rank["dal"] = 4
  /\ Rank["dal2"] = 5 /\ Rank["obj"] = 6 /\ Rank["actn"] = 7
BY DEF Guard, Rank

LEMMA EmptyProfile == Profile(<< >>, {}, {}, {}, 8)
BY EmptyLaws DEF Profile

LEMMA add_action_profile ==
  Profile(add_action, {"actn"}, {"actions"}, {}, 7)
<1> DEFINE a == <<Write("actions")>>
<1> HIDE DEF a
<1>1. Profile(a, {}, {"actions"}, {"actions"}, 8)
  BY AccessProfiles, Names DEF a
<1>2. add_action = Under("actn", a)
  BY DEF add_action, a
<1> QED BY <1>2, <1>1, UnderProfile, GuardRank, Names DEF Profile

LEMMA action_on_update_profile ==
  Profile(action_on_update, {"actn"}, {}, {}, 7)
<1> DEFINE a == <<Read("actions")>>
<1> HIDE DEF a
<1>1. Profile(a, {}, {}, {"actions"}, 8)
  BY AccessProfiles, Names DEF a
<1>2. action_on_update = Under("actn", a)
  BY DEF action_on_update, a
<1> QED BY <1>2, <1>1, UnderProfile, GuardRank, Names DEF Profile

LEMMA register_converter_profile ==
  Profile(register_converter, {"else"}, {"converters"}, {}, 1)
<1> DEFINE a == <<Write("converters")>>
<1> HIDE DEF a
<1>1. Profile(a, {}, {"converters"}, {"converters"}, 8)
  BY AccessProfiles, Names DEF a
<1>2. register_converter = Under("else", a)
  BY DEF register_converter, a
<1> QED BY <1>2, <1>1, UnderProfile, GuardRank, Names DEF Profile

LEMMA convert_profile ==
  Profile(convert, {}, {}, {"converters"}, 8)
BY AccessProfiles, Names DEF convert

LEMMA subscribe_profile ==
  Profile(subscribe, {"else"}, {"callbackCount", "callbacks"}, {}, 1)
<1> DEFINE a == <<Write("callbacks"), Write("callbackCount")>>
<1> HIDE DEF a
<1>1. Profile(a, {}, {"callbacks", "callbackCount"}, {"callbacks", "callbackCount"}, 8)
  BY AccessProfiles, Names DEF a
<1>2. subscribe = Under("else", a)
  BY DEF subscribe, a
<1> QED BY <1>2, <1>1, UnderProfile, GuardRank, Names, SMTT(90) DEF Profile

LEMMA unsubscribe_profile ==
  Profile(unsubscribe, {"else"}, {"callbackCount", "callbacks"}, {}, 1)
<1> DEFINE a == <<Write("callbacks"), Write("callbackCount")>>
<1> HIDE DEF a
<1>1. Profile(a, {}, {"callbacks", "callbackCount"}, {"callbacks", "callbackCount"}, 8)
  BY AccessProfiles, Names DEF a
<1>2. unsubscribe = Under("else", a)
  BY DEF unsubscribe, a
<1> QED BY <1>2, <1>1, UnderProfile, GuardRank, Names, SMTT(90) DEF Profile

LEMMA plugin_get_profile ==
  Profile(plugin_get, {"obj"}, {"handle"}, {}, 6)
<1> DEFINE a == <<Write("handle")>>
<1> HIDE DEF a
<1>1. Profile(a, {}, {"handle"}, {"handle"}, 8)
  BY AccessProfiles, Names DEF a
<1>2. plugin_get = Under("obj", a)
  BY DEF plugin_get, a
<1> QED BY <1>2, <1>1, UnderProfile, GuardRank, Names DEF Profile

LEMMA plugin_set_profile ==
  Profile(plugin_set, {"obj"}, {"handle"}, {}, 6)
<1> DEFINE a == <<Write("handle")>>
<1> HIDE DEF a
<1>1. Profile(a, {}, {"handle"}, {"handle"}, 8)
  BY AccessProfiles, Names DEF a
<1>2. plugin_set = Under("obj", a)
  BY DEF plugin_set, a
<1> QED BY <1>2, <1>1, UnderProfile, GuardRank, Names DEF Profile

LEMMA ImplConvert_profile ==
  Profile(ImplConvert, {}, {}, {"converters"}, 8)
BY convert_profile DEF ImplConvert

LEMMA read_attribute_profile ==
  Profile(read_attribute, {"obj"}, {"handle"}, {"converters"}, 6)
BY plugin_get_profile, ImplConvert_profile, ThenProfile DEF Profile, read_attribute

LEMMA read_relation_profile ==
  Profile(read_relation, {"obj"}, {"handle", "implObjs"}, {"handle", "implObjs"}, 6)
<1> DEFINE a == <<Write("implObjs"), Write("handle")>>
<1> HIDE DEF a
<1>1. Profile(a, {}, {"handle", "implObjs"}, {"handle", "implObjs"}, 8)
  BY AccessProfiles, Names DEF a
<1>2. read_relation = plugin_get \o a
  BY DEF read_relation, a
<1> QED BY <1>2, plugin_get_profile, <1>1, ThenProfile DEF Profile

LEMMA set_value_profile ==
  Profile(set_value, {"actn", "obj"}, {"handle"}, {}, 6)
BY plugin_set_profile, action_on_update_profile, ThenProfile DEF Profile, set_value

LEMMA UID_profile ==
  Profile(UID, {}, {}, {"id"}, 8)
BY AccessProfiles, Names DEF UID

LEMMA is_deleted_profile ==
  Profile(is_deleted, {}, {"handle"}, {"handle"}, 8)
BY AccessProfiles, Names DEF is_deleted

LEMMA get_object_profile ==
  Profile(get_object, {"impl"}, {"handle", "implObjs"}, {"handle"}, 3)
<1> DEFINE a == <<Write("implObjs"), Write("handle")>>
<1> HIDE DEF a
<1>1. Profile(a, {}, {"implObjs", "handle"}, {"implObjs", "handle"}, 8)
  BY AccessProfiles, Names DEF a
<1>2. get_object = Under("impl", a)
  BY DEF get_object, a
<1> QED BY <1>2, <1>1, UnderProfile, GuardRank, Names, SMTT(90) DEF Profile

LEMMA get_includes_profile ==
  Profile(get_includes, {"impl"}, {}, {}, 3)
<1> DEFINE a == <<Read("implObjs")>>
<1> HIDE DEF a
<1>1. Profile(a, {}, {}, {"implObjs"}, 8)
  BY AccessProfiles, Names DEF a
<1>2. get_includes = Under("impl", a)
  BY DEF get_includes, a
<1> QED BY <1>2, <1>1, UnderProfile, GuardRank, Names DEF Profile

LEMMA get_versions_profile ==
  Profile(get_versions, {"impl"}, {}, {}, 3)
<1> DEFINE a == <<Read("implObjs")>>
<1> HIDE DEF a
<1>1. Profile(a, {}, {}, {"implObjs"}, 8)
  BY AccessProfiles, Names DEF a
<1>2. get_versions = Under("impl", a)
  BY DEF get_versions, a
<1> QED BY <1>2, <1>1, UnderProfile, GuardRank, Names DEF Profile

LEMMA load_profile ==
  Profile(load, {"actn", "impl"}, {"implObjs", "schema"}, {}, 3)
<1> DEFINE a == <<Read("actions")>>
           b == Under("actn", a)
           c == <<Write("implObjs"), Write("schema")>>
           d == b \o c
<1> HIDE DEF a, b, c, d
<1>1. Profile(a, {}, {}, {"actions"}, 8)
  BY AccessProfiles, Names DEF a
<1>2. Profile(b, {"actn"}, {}, {}, 7)
  BY <1>1, UnderProfile, GuardRank, Names DEF Profile, b
<1>3. Profile(c, {}, {"implObjs", "schema"}, {"implObjs", "schema"}, 8)
  BY AccessProfiles, Names DEF c
<1>4. Profile(d, {"actn"}, {"implObjs", "schema"}, {"implObjs", "schema"}, 7)
  BY <1>2, <1>3, ThenProfile DEF Profile, d
<1>5. load = Under("impl", d)
  BY DEF load, a, b, c, d
<1> QED BY <1>5, <1>4, UnderProfile, GuardRank, Names DEF Profile

LEMMA add_include_profile ==
  Profile(add_include, {"impl"}, {"implObjs", "schema"}, {}, 3)
<1> DEFINE a == <<Write("implObjs"), Write("schema")>>
<1> HIDE DEF a
<1>1. Profile(a, {}, {"implObjs", "schema"}, {"implObjs", "schema"}, 8)
  BY AccessProfiles, Names DEF a
<1>2. add_include = Under("impl", a)
  BY DEF add_include, a
<1> QED BY <1>2, <1>1, UnderProfile, GuardRank, Names, SMTT(90) DEF Profile

LEMMA remove_include_profile ==
  Profile(remove_include, {"impl", "tmpl"}, {"implObjs", "schema"}, {}, 0)
<1> DEFINE a == <<Write("implObjs"), Write("schema")>>
           b == Under("tmpl", a)
<1> HIDE DEF a, b
<1>1. Profile(a, {}, {"implObjs", "schema"}, {"implObjs", "schema"}, 8)
  BY AccessProfiles, Names DEF a
<1>2. Profile(b, {"tmpl"}, {"implObjs", "schema"}, {"implObjs", "schema"}, 2)
  BY <1>1, UnderProfile, GuardRank, Names, SMTT(90) DEF Profile, b
<1>3. remove_include = Under("impl", b)
  BY DEF remove_include, a, b
<1> QED BY <1>3, <1>2, UnderProfile, GuardRank, Names DEF Profile

LEMMA commit_profile ==
  Profile(commit, {"impl", "tmpl"}, {"implObjs"}, {}, 2)
<1> DEFINE a == <<Write("implObjs")>>
           b == Under("impl", a)
<1> HIDE DEF a, b
<1>1. Profile(a, {}, {"implObjs"}, {"implObjs"}, 8)
  BY AccessProfiles, Names DEF a
<1>2. Profile(b, {"impl"}, {"implObjs"}, {}, 3)
  BY <1>1, UnderProfile, GuardRank, Names DEF Profile, b
<1>3. commit = Under("tmpl", b)
  BY DEF commit, a, b
<1> QED BY <1>3, <1>2, UnderProfile, GuardRank, Names DEF Profile

LEMMA prefetch_all_data_profile ==
  Profile(prefetch_all_data, {"impl", "tmpl"}, {"implObjs"}, {}, 2)
<1> DEFINE a == <<Write("implObjs")>>
           b == Under("impl", a)
<1> HIDE DEF a, b
<1>1. Profile(a, {}, {"implObjs"}, {"implObjs"}, 8)
  BY AccessProfiles, Names DEF a
<1>2. Profile(b, {"impl"}, {"implObjs"}, {}, 3)
  BY <1>1, UnderProfile, GuardRank, Names DEF Profile, b
<1>3. prefetch_all_data = Under("tmpl", b)
  BY DEF prefetch_all_data, a, b
<1> QED BY <1>3, <1>2, UnderProfile, GuardRank, Names DEF Profile

LEMMA UnreadHandles_profile ==
  Profile(UnreadHandles, {"obj"}, {"handle"}, {"implObjs"}, 6)
<1> DEFINE a == <<Read("implObjs")>>
           b == <<Write("handle")>>
           c == Under("obj", b)
<1> HIDE DEF a, b, c
<1>1. Profile(a, {}, {}, {"implObjs"}, 8)
  BY AccessProfiles, Names DEF a
<1>2. Profile(b, {}, {"handle"}, {"handle"}, 8)
  BY AccessProfiles, Names DEF b
<1>3. Profile(c, {"obj"}, {"handle"}, {}, 6)
  BY <1>2, UnderProfile, GuardRank, Names DEF Profile, c
<1>4. UnreadHandles = a \o c
  BY DEF UnreadHandles, a, b, c
<1> QED BY <1>4, <1>1, <1>3, ThenProfile DEF Profile

LEMMA unread_implementation_objects_profile ==
  Profile(unread_implementation_objects, {"impl", "obj"}, {"handle"}, {}, 3)
BY UnreadHandles_profile, UnderProfile, GuardRank, Names DEF Profile, unread_implementation_objects

LEMMA update_cache_profile ==
  Profile(update_cache, {"dal", "obj"}, {"handle", "wasRead"},
          {"implObjs", "schema", "tmplObjs"}, 4)
<1> DEFINE a == <<Read("schema")>>
           b == a \o UnreadHandles
           c == <<Read("tmplObjs")>>
           d == b \o c
           e == <<Write("wasRead")>>
           f == Under("dal", e)
<1> HIDE DEF a, b, c, d, e, f
<1>1. Profile(a, {}, {}, {"schema"}, 8)
  BY AccessProfiles, Names DEF a
<1>2. Profile(b, {"obj"}, {"handle"}, {"implObjs", "schema"}, 6)
  BY <1>1, UnreadHandles_profile, ThenProfile DEF Profile, b
<1>3. Profile(c, {}, {}, {"tmplObjs"}, 8)
  BY AccessProfiles, Names DEF c
<1>4. Profile(d, {"obj"}, {"handle"}, {"implObjs", "schema", "tmplObjs"}, 6)
  BY <1>2, <1>3, ThenProfile DEF Profile, d
<1>5. Profile(e, {}, {"wasRead"}, {"wasRead"}, 8)
  BY AccessProfiles, Names DEF e
<1>6. Profile(f, {"dal"}, {"wasRead"}, {}, 4)
  BY <1>5, UnderProfile, GuardRank, Names DEF Profile, f
<1>7. update_cache = d \o f
  BY DEF update_cache, a, b, c, d, e, f
<1> QED BY <1>7, <1>4, <1>6, ThenProfile DEF Profile

LEMMA destroy_obj_profile ==
  Profile(destroy_obj, {"dal", "impl", "obj", "tmpl"}, {"handle", "implObjs", "wasRead"},
          {}, 0)
<1> DEFINE a == <<Write("implObjs")>>
           b == a \o update_cache
           c == Under("tmpl", b)
<1> HIDE DEF a, b, c
<1>1. Profile(a, {}, {"implObjs"}, {"implObjs"}, 8)
  BY AccessProfiles, Names DEF a
<1>2. Profile(b, {"dal", "obj"}, {"handle", "implObjs", "wasRead"},
             {"implObjs", "schema", "tmplObjs"}, 4)
  BY <1>1, update_cache_profile, ThenProfile DEF Profile, b
<1>3. Profile(c, {"dal", "obj", "tmpl"}, {"handle", "implObjs", "wasRead"},
             {"implObjs", "schema"}, 2)
  BY <1>2, UnderProfile, GuardRank, Names DEF Profile, c
<1>4. destroy_obj = Under("impl", c)
  BY DEF destroy_obj, a, b, c
<1> QED BY <1>4, <1>3, UnderProfile, GuardRank, Names DEF Profile

LEMMA abort_profile ==
  Profile(abort, {"impl", "obj", "tmpl"}, {"handle", "schema", "wasRead"}, {"wasRead"},
          2)
<1> DEFINE a == <<Read("tmplObjs"), Write("wasRead"), Write("schema")>>
           b == UnreadHandles \o a
           c == Under("impl", b)
<1> HIDE DEF a, b, c
<1>1. Profile(a, {}, {"wasRead", "schema"}, {"tmplObjs", "wasRead", "schema"}, 8)
  BY AccessProfiles, Names DEF a
<1>2. Profile(b, {"obj"}, {"handle", "schema", "wasRead"},
              {"implObjs", "schema", "tmplObjs", "wasRead"}, 6)
  BY UnreadHandles_profile, <1>1, ThenProfile DEF Profile, b
<1>3. Profile(c, {"impl", "obj"}, {"handle", "schema", "wasRead"},
              {"tmplObjs", "wasRead"}, 3)
  BY <1>2, UnderProfile, GuardRank, Names DEF Profile, c
<1>4. abort = Under("tmpl", c)
  BY DEF abort, a, b, c
<1> QED BY <1>4, <1>3, UnderProfile, GuardRank, Names DEF Profile

LEMMA rename_object_profile ==
  Profile(rename_object, {"dal", "impl", "obj", "tmpl"},
          {"handle", "id", "implObjs", "tmplObjs"}, {}, 0)
<1> DEFINE a == <<Write("handle"), Write("id"), Write("implObjs"), Read("schema")>>
           b == <<Write("tmplObjs")>>
           c == a \o b
           d == <<Write("tmplObjs")>>
           e == Under("dal", d)
           f == c \o e
           g == Under("obj", f)
           h == Under("impl", g)
<1> HIDE DEF a, b, c, d, e, f, g, h
<1>1. Profile(a, {}, {"handle", "id", "implObjs"},
              {"handle", "id", "implObjs", "schema"}, 8)
  BY AccessProfiles, Names DEF a
<1>2. Profile(b, {}, {"tmplObjs"}, {"tmplObjs"}, 8)
  BY AccessProfiles, Names DEF b
<1>3. Profile(c, {}, {"handle", "id", "implObjs", "tmplObjs"},
              {"handle", "id", "implObjs", "schema", "tmplObjs"}, 8)
  BY <1>1, <1>2, ThenProfile DEF Profile, c
<1>4. Profile(d, {}, {"tmplObjs"}, {"tmplObjs"}, 8)
  BY AccessProfiles, Names DEF d
<1>5. Profile(e, {"dal"}, {"tmplObjs"}, {"tmplObjs"}, 4)
  BY <1>4, UnderProfile, GuardRank, Names DEF Profile, e
<1>6. Profile(f, {"dal"}, {"handle", "id", "implObjs", "tmplObjs"},
              {"handle", "id", "implObjs", "schema", "tmplObjs"}, 4)
  BY <1>3, <1>5, ThenProfile DEF Profile, f
<1>7. Profile(g, {"dal", "obj"}, {"handle", "id", "implObjs", "tmplObjs"},
              {"id", "implObjs", "schema", "tmplObjs"}, 0)
  BY <1>6, UnderProfile, GuardRank, Names DEF Profile, g
<1>8. Profile(h, {"dal", "impl", "obj"}, {"handle", "id", "implObjs", "tmplObjs"},
              {"id", "tmplObjs"}, 0)
  BY <1>7, UnderProfile, GuardRank, Names DEF Profile, h
<1>9. rename_object = Under("tmpl", h)
  BY DEF rename_object, a, b, c, d, e, f, g, h
<1> QED BY <1>9, <1>8, UnderProfile, GuardRank, Names DEF Profile

LEMMA rename_profile ==
  Profile(rename, {"actn", "dal", "impl", "obj", "tmpl"},
          {"handle", "id", "implObjs", "tmplObjs"}, {}, 0)
BY rename_object_profile, action_on_update_profile, ThenProfile DEF Profile, rename

LEMMA unload_profile ==
  Profile(unload, {"actn", "else", "impl", "tmpl"},
          {"callbackCount", "callbacks", "converters", "implObjs", "schema", "tmplObjs"},
          {}, 0)
<1> DEFINE a == <<Read("actions")>>
           b == Under("actn", a)
           c == <<Write("tmplObjs")>>
           d == b \o c
           e == <<Write("callbacks"), Write("callbackCount"), Write("converters")>>
           f == Under("else", e)
           g == d \o f
           h == <<Write("schema"), Write("implObjs")>>
           i == g \o h
           j == Under("impl", i)
<1> HIDE DEF a, b, c, d, e, f, g, h, i, j
<1>1. Profile(a, {}, {}, {"actions"}, 8)
  BY AccessProfiles, Names DEF a
<1>2. Profile(b, {"actn"}, {}, {}, 7)
  BY <1>1, UnderProfile, GuardRank, Names DEF Profile, b
<1>3. Profile(c, {}, {"tmplObjs"}, {"tmplObjs"}, 8)
  BY AccessProfiles, Names DEF c
<1>4. Profile(d, {"actn"}, {"tmplObjs"}, {"tmplObjs"}, 7)
  BY <1>2, <1>3, ThenProfile DEF Profile, d
<1>5. Profile(e, {}, {"callbacks", "callbackCount", "converters"},
              {"callbacks", "callbackCount", "converters"}, 8)
  BY AccessProfiles, Names DEF e
<1>6. Profile(f, {"else"}, {"callbackCount", "callbacks", "converters"}, {}, 1)
  BY <1>5, UnderProfile, GuardRank, Names, SMTT(90) DEF Profile, f
<1>7. Profile(g, {"actn", "else"},
              {"callbackCount", "callbacks", "converters", "tmplObjs"}, {"tmplObjs"}, 1)
  BY <1>4, <1>6, ThenProfile DEF Profile, g
<1>8. Profile(h, {}, {"schema", "implObjs"}, {"schema", "implObjs"}, 8)
  BY AccessProfiles, Names DEF h
<1>9. Profile(i, {"actn", "else"},
              {"callbackCount", "callbacks", "converters", "implObjs", "schema", "tmplObjs"},
              {"implObjs", "schema", "tmplObjs"}, 1)
  BY <1>7, <1>8, ThenProfile DEF Profile, i
<1>10. Profile(j, {"actn", "else", "impl"},
               {"callbackCount", "callbacks", "converters", "implObjs", "schema", "tmplObjs"},
               {"tmplObjs"}, 0)
  BY <1>9, UnderProfile, GuardRank, Names DEF Profile, j
<1>11. unload = Under("tmpl", j)
  BY DEF unload, a, b, c, d, e, f, g, h, i, j
<1> QED BY <1>11, <1>10, UnderProfile, GuardRank, Names DEF Profile

LEMMA print_profiling_info_profile ==
  Profile(print_profiling_info, {"impl"}, {}, {"tmplObjs"}, 3)
<1> DEFINE a == <<Read("tmplObjs"), Read("implObjs")>>
<1> HIDE DEF a
<1>1. Profile(a, {}, {}, {"tmplObjs", "implObjs"}, 8)
  BY AccessProfiles, Names DEF a
<1>2. print_profiling_info = Under("impl", a)
  BY DEF print_profiling_info, a
<1> QED BY <1>2, <1>1, UnderProfile, GuardRank, Names, SMTT(90) DEF Profile

LEMMA destructor_profile ==
  Profile(destructor, {"actn", "else", "impl", "tmpl"},
          {"callbackCount", "callbacks", "converters", "implObjs", "schema", "tmplObjs"},
          {"tmplObjs"}, 0)
<1> DEFINE a == print_profiling_info \o unload
           b == <<Write("implObjs")>>
           c == Under("impl", b)
<1> HIDE DEF a, b, c
<1>1. Profile(a, {"actn", "else", "impl", "tmpl"},
              {"callbackCount", "callbacks", "converters", "implObjs", "schema", "tmplObjs"},
              {"tmplObjs"}, 0)
  BY print_profiling_info_profile, unload_profile, ThenProfile DEF Profile, a
<1>2. Profile(b, {}, {"implObjs"}, {"implObjs"}, 8)
  BY AccessProfiles, Names DEF b
<1>3. Profile(c, {"impl"}, {"implObjs"}, {}, 3)
  BY <1>2, UnderProfile, GuardRank, Names DEF Profile, c
<1>4. destructor = a \o c
  BY DEF destructor, a, b, c
<1> QED BY <1>4, <1>1, <1>3, ThenProfile DEF Profile

LEMMA get_class_info_profile ==
  Profile(get_class_info, {"impl"}, {"schema"}, {}, 3)
<1> DEFINE a == <<Write("schema")>>
<1> HIDE DEF a
<1>1. Profile(a, {}, {"schema"}, {"schema"}, 8)
  BY AccessProfiles, Names DEF a
<1>2. get_class_info = Under("impl", a)
  BY DEF get_class_info, a
<1> QED BY <1>2, <1>1, UnderProfile, GuardRank, Names DEF Profile

LEMMA Describe_profile ==
  Profile(Describe, {"impl"}, {"schema"}, {"schema"}, 3)
<1> DEFINE a == <<Read("schema")>>
<1> HIDE DEF a
<1>1. Profile(a, {}, {}, {"schema"}, 8)
  BY AccessProfiles, Names DEF a
<1>2. Describe = get_class_info \o a
  BY DEF Describe, a
<1> QED BY <1>2, get_class_info_profile, <1>1, ThenProfile DEF Profile

LEMMA attributes_pybind_profile ==
  Profile(attributes_pybind, {"impl"}, {"schema"}, {"schema"}, 3)
BY Describe_profile DEF attributes_pybind

LEMMA relations_pybind_profile ==
  Profile(relations_pybind, {"impl"}, {"schema"}, {"schema"}, 3)
BY Describe_profile DEF relations_pybind

LEMMA classes_pybind_profile ==
  Profile(classes_pybind, {}, {}, {"schema"}, 8)
BY AccessProfiles, Names DEF classes_pybind

LEMMA print_profile ==
  Profile(print, {}, {}, {"schema"}, 8)
BY AccessProfiles, Names DEF print

LEMMA export_schema_profile ==
  Profile(export_schema, {"impl"}, {"schema"}, {"schema"}, 3)
<1> DEFINE a == <<Read("schema")>>
<1> HIDE DEF a
<1>1. Profile(a, {}, {}, {"schema"}, 8)
  BY AccessProfiles, Names DEF a
<1>2. export_schema = a \o Describe
  BY DEF export_schema, a
<1> QED BY <1>2, <1>1, Describe_profile, ThenProfile DEF Profile

LEMMA export_data_profile ==
  Profile(export_data, {"impl", "obj"}, {"handle", "implObjs", "schema"},
          {"converters", "handle", "id", "implObjs", "schema"}, 3)
<1> DEFINE a == <<Read("schema")>>
           b == a \o Describe
           c == b \o get_object
           d == c \o UID
           e == d \o read_attribute
<1> HIDE DEF a, b, c, d, e
<1>1. Profile(a, {}, {}, {"schema"}, 8)
  BY AccessProfiles, Names DEF a
<1>2. Profile(b, {"impl"}, {"schema"}, {"schema"}, 3)
  BY <1>1, Describe_profile, ThenProfile DEF Profile, b
<1>3. Profile(c, {"impl"}, {"handle", "implObjs", "schema"}, {"handle", "schema"}, 3)
  BY <1>2, get_object_profile, ThenProfile DEF Profile, c
<1>4. Profile(d, {"impl"}, {"handle", "implObjs", "schema"}, {"handle", "id", "schema"}, 3)
  BY <1>3, UID_profile, ThenProfile DEF Profile, d
<1>5. Profile(e, {"impl", "obj"}, {"handle", "implObjs", "schema"},
             {"converters", "handle", "id", "schema"}, 3)
  BY <1>4, read_attribute_profile, ThenProfile DEF Profile, e
<1>6. export_data = e \o read_relation
  BY DEF export_data, a, b, c, d, e
<1> QED BY <1>6, <1>5, read_relation_profile, ThenProfile DEF Profile

LEMMA print_ref_profile ==
  Profile(print_ref, {"impl", "obj"}, {"handle", "implObjs", "schema"},
          {"converters", "handle", "id", "implObjs", "schema"}, 3)
<1> DEFINE a == UID \o Describe
           b == a \o read_attribute
<1> HIDE DEF a, b
<1>1. Profile(a, {"impl"}, {"schema"}, {"id", "schema"}, 3)
  BY UID_profile, Describe_profile, ThenProfile DEF Profile, a
<1>2. Profile(b, {"impl", "obj"}, {"handle", "schema"}, {"converters", "id", "schema"}, 3)
  BY <1>1, read_attribute_profile, ThenProfile DEF Profile, b
<1>3. print_ref = b \o read_relation
  BY DEF print_ref, a, b
<1> QED BY <1>3, <1>2, read_relation_profile, ThenProfile DEF Profile

LEMMA CacheGetById_dal_profile ==
  Profile(CacheGetById("dal"), {"dal"}, {"tmplObjs"}, {"tmplObjs"}, 4)
<1> DEFINE a == <<Write("tmplObjs")>>
           b == <<Write("tmplObjs")>>
           c == Under("dal", b)
<1> HIDE DEF a, b, c
<1>1. Profile(a, {}, {"tmplObjs"}, {"tmplObjs"}, 8)
  BY AccessProfiles, Names DEF a
<1>2. Profile(b, {}, {"tmplObjs"}, {"tmplObjs"}, 8)
  BY AccessProfiles, Names DEF b
<1>3. Profile(c, {"dal"}, {"tmplObjs"}, {"tmplObjs"}, 4)
  BY <1>2, UnderProfile, GuardRank, Names DEF Profile, c
<1>4. CacheGetById("dal") = a \o c
  BY DEF CacheGetById, a, b, c
<1>5. Profile(a \o c, {"dal"}, {"tmplObjs"}, {"tmplObjs"}, 4)
  BY <1>1, <1>3, ThenProfile DEF Profile
<1> QED BY <1>4, <1>5

LEMMA CacheGetById_dal2_profile ==
  Profile(CacheGetById("dal2"), {"dal2"}, {"tmplObjs"}, {"tmplObjs"}, 5)
<1> DEFINE a == <<Write("tmplObjs")>>
           b == <<Write("tmplObjs")>>
           c == Under("dal2", b)
<1> HIDE DEF a, b, c
<1>1. Profile(a, {}, {"tmplObjs"}, {"tmplObjs"}, 8)
  BY AccessProfiles, Names DEF a
<1>2. Profile(b, {}, {"tmplObjs"}, {"tmplObjs"}, 8)
  BY AccessProfiles, Names DEF b
<1>3. Profile(c, {"dal2"}, {"tmplObjs"}, {"tmplObjs"}, 5)
  BY <1>2, UnderProfile, GuardRank, Names DEF Profile, c
<1>4. CacheGetById("dal2") = a \o c
  BY DEF CacheGetById, a, b, c
<1>5. Profile(a \o c, {"dal2"}, {"tmplObjs"}, {"tmplObjs"}, 5)
  BY <1>1, <1>3, ThenProfile DEF Profile
<1> QED BY <1>4, <1>5

LEMMA init_profile ==
  Profile(init, {"dal2", "obj"}, {"handle", "implObjs", "tmplObjs", "wasRead"},
          {"converters", "handle", "id", "implObjs", "tmplObjs", "wasRead"}, 5)
<1> DEFINE a == read_attribute \o read_relation
           b == a \o UID
           c == b \o CacheGetById("dal2")
           d == <<Write("wasRead")>>
<1> HIDE DEF a, b, c, d
<1>1. Profile(a, {"obj"}, {"handle", "implObjs"}, {"converters", "handle", "implObjs"}, 6)
  BY read_attribute_profile, read_relation_profile, ThenProfile DEF Profile, a
<1>2. Profile(b, {"obj"}, {"handle", "implObjs"},
             {"converters", "handle", "id", "implObjs"}, 6)
  BY <1>1, UID_profile, ThenProfile DEF Profile, b
<1>3. Profile(c, {"dal2", "obj"}, {"handle", "implObjs", "tmplObjs"},
             {"converters", "handle", "id", "implObjs", "tmplObjs"}, 5)
  BY <1>2, CacheGetById_dal2_profile, ThenProfile DEF Profile, c
<1>4. Profile(d, {}, {"wasRead"}, {"wasRead"}, 8)
  BY AccessProfiles, Names DEF d
<1>5. init = c \o d
  BY DEF init, a, b, c, d
<1> QED BY <1>5, <1>3, <1>4, ThenProfile DEF Profile

LEMMA CacheGet_profile ==
  Profile(CacheGet, {"dal", "dal2", "obj"}, {"handle", "implObjs", "tmplObjs", "wasRead"},
          {"converters", "handle", "id", "implObjs", "tmplObjs"}, 4)
<1> DEFINE a == <<Write("tmplObjs")>>
           b == UID \o a
           c == Under("dal", init)
<1> HIDE DEF a, b, c
<1>1. Profile(a, {}, {"tmplObjs"}, {"tmplObjs"}, 8)
  BY AccessProfiles, Names DEF a
<1>2. Profile(b, {}, {"tmplObjs"}, {"id", "tmplObjs"}, 8)
  BY UID_profile, <1>1, ThenProfile DEF Profile, b
<1>3. Profile(c, {"dal", "dal2", "obj"}, {"handle", "implObjs", "tmplObjs", "wasRead"},
             {"converters", "handle", "id", "implObjs", "tmplObjs"}, 4)
  BY init_profile, UnderProfile, GuardRank, Names DEF Profile, c
<1>4. CacheGet = b \o c
  BY DEF CacheGet, a, b, c
<1> QED BY <1>4, <1>2, <1>3, ThenProfile DEF Profile

LEMMA get_cached_profile ==
  Profile(get_cached, {"tmpl"}, {}, {}, 2)
<1> DEFINE a == <<Read("tmplObjs")>>
<1> HIDE DEF a
<1>1. Profile(a, {}, {}, {"tmplObjs"}, 8)
  BY AccessProfiles, Names DEF a
<1>2. get_cached = Under("tmpl", a)
  BY DEF get_cached, a
<1> QED BY <1>2, <1>1, UnderProfile, GuardRank, Names DEF Profile

LEMMA is_valid_profile ==
  Profile(is_valid, {"tmpl"}, {}, {}, 2)
<1> DEFINE a == <<Read("tmplObjs")>>
<1> HIDE DEF a
<1>1. Profile(a, {}, {}, {"tmplObjs"}, 8)
  BY AccessProfiles, Names DEF a
<1>2. is_valid = Under("tmpl", a)
  BY DEF is_valid, a
<1> QED BY <1>2, <1>1, UnderProfile, GuardRank, Names DEF Profile

LEMMA get_uncached_profile ==
  Profile(get_uncached, {"dal", "dal2", "obj", "tmpl"},
          {"handle", "implObjs", "tmplObjs", "wasRead"}, {"converters", "handle", "implObjs"}, 2)
<1> DEFINE a == <<Read("tmplObjs"), Write("implObjs"), Write("handle")>>
           b == a \o CacheGet
<1> HIDE DEF a, b
<1>1. Profile(a, {}, {"handle", "implObjs"}, {"handle", "implObjs", "tmplObjs"}, 8)
  BY AccessProfiles, Names DEF a
<1>2. Profile(b, {"dal", "dal2", "obj"}, {"handle", "implObjs", "tmplObjs", "wasRead"},
             {"converters", "handle", "id", "implObjs", "tmplObjs"}, 4)
  BY <1>1, CacheGet_profile, ThenProfile DEF Profile, b
<1>3. get_uncached = Under("tmpl", b)
  BY DEF get_uncached, a, b
<1> QED BY <1>3, <1>2, UnderProfile, GuardRank, Names DEF Profile

LEMMA get_by_object_profile ==
  Profile(get_by_object, {"dal", "dal2", "obj", "tmpl"},
          {"handle", "implObjs", "tmplObjs", "wasRead"}, {"converters", "handle", "implObjs"}, 2)
BY CacheGet_profile, UnderProfile, GuardRank, Names DEF Profile, get_by_object

LEMMA get_all_profile ==
  Profile(get_all, {"dal", "dal2", "impl", "obj", "tmpl"},
          {"handle", "implObjs", "tmplObjs", "wasRead"}, {"converters", "handle", "implObjs"}, 2)
<1> DEFINE a == get_object \o CacheGet
<1> HIDE DEF a
<1>1. Profile(a, {"dal", "dal2", "impl", "obj"},
             {"handle", "implObjs", "tmplObjs", "wasRead"},
             {"converters", "handle", "id", "implObjs", "tmplObjs"}, 3)
  BY get_object_profile, CacheGet_profile, ThenProfile DEF Profile, a
<1>2. get_all = Under("tmpl", a)
  BY DEF get_all, a
<1> QED BY <1>2, <1>1, UnderProfile, GuardRank, Names DEF Profile

LEMMA ref_profile ==
  Profile(ref, {"dal", "dal2", "obj", "tmpl"},
          {"handle", "implObjs", "tmplObjs", "wasRead"}, {"converters", "handle", "implObjs"}, 2)
<1> DEFINE a == read_relation \o CacheGet
<1> HIDE DEF a
<1>1. Profile(a, {"dal", "dal2", "obj"}, {"handle", "implObjs", "tmplObjs", "wasRead"},
             {"converters", "handle", "id", "implObjs", "tmplObjs"}, 4)
  BY read_relation_profile, CacheGet_profile, ThenProfile DEF Profile, a
<1>2. ref = Under("tmpl", a)
  BY DEF ref, a
<1> QED BY <1>2, <1>1, UnderProfile, GuardRank, Names DEF Profile

LEMMA referenced_by_profile ==
  Profile(referenced_by, {"dal", "dal2", "obj", "tmpl"},
          {"handle", "implObjs", "tmplObjs", "wasRead"},
          {"converters", "handle", "implObjs", "schema"}, 2)
<1> DEFINE a == <<Write("implObjs"), Write("handle"), Read("schema")>>
           b == a \o CacheGet
<1> HIDE DEF a, b
<1>1. Profile(a, {}, {"handle", "implObjs"}, {"handle", "implObjs", "schema"}, 8)
  BY AccessProfiles, Names DEF a
<1>2. Profile(b, {"dal", "dal2", "obj"}, {"handle", "implObjs", "tmplObjs", "wasRead"},
             {"converters", "handle", "id", "implObjs", "schema", "tmplObjs"}, 4)
  BY <1>1, CacheGet_profile, ThenProfile DEF Profile, b
<1>3. referenced_by = Under("tmpl", b)
  BY DEF referenced_by, a, b
<1> QED BY <1>3, <1>2, UnderProfile, GuardRank, Names DEF Profile

LEMMA unread_template_objects_profile ==
  Profile(unread_template_objects, {"tmpl"}, {"wasRead"}, {"wasRead"}, 2)
<1> DEFINE a == <<Read("tmplObjs"), Write("wasRead")>>
<1> HIDE DEF a
<1>1. Profile(a, {}, {"wasRead"}, {"tmplObjs", "wasRead"}, 8)
  BY AccessProfiles, Names DEF a
<1>2. unread_template_objects = Under("tmpl", a)
  BY DEF unread_template_objects, a
<1> QED BY <1>2, <1>1, UnderProfile, GuardRank, Names, SMTT(90) DEF Profile

LEMMA check_init_profile ==
  Profile(check_init, {"dal2", "obj", "tmpl"},
          {"handle", "implObjs", "tmplObjs", "wasRead"},
          {"converters", "handle", "implObjs", "wasRead"}, 2)
<1> DEFINE a == <<Read("wasRead")>>
           b == Under("tmpl", init)
<1> HIDE DEF a, b
<1>1. Profile(a, {}, {}, {"wasRead"}, 8)
  BY AccessProfiles, Names DEF a
<1>2. Profile(b, {"dal2", "obj", "tmpl"}, {"handle", "implObjs", "tmplObjs", "wasRead"},
             {"converters", "handle", "implObjs", "wasRead"}, 2)
  BY init_profile, UnderProfile, GuardRank, Names DEF Profile, b
<1>3. check_init = a \o b
  BY DEF check_init, a, b
<1> QED BY <1>3, <1>1, <1>2, ThenProfile DEF Profile

LEMMA print_object_profile ==
  Profile(print_object, {"dal2", "obj", "tmpl"},
          {"handle", "implObjs", "tmplObjs", "wasRead"},
          {"converters", "handle", "implObjs", "wasRead"}, 2)
<1> DEFINE a == <<Read("handle")>>
<1> HIDE DEF a
<1>1. Profile(a, {}, {}, {"handle"}, 8)
  BY AccessProfiles, Names DEF a
<1>2. print_object = a \o check_init
  BY DEF print_object, a
<1> QED BY <1>2, <1>1, check_init_profile, ThenProfile DEF Profile

LEMMA castable_profile ==
  Profile(castable, {}, {}, {"schema"}, 8)
BY AccessProfiles, Names DEF castable

LEMMA cast_profile ==
  Profile(cast, {"dal", "dal2", "obj", "tmpl"}, {"tmplObjs"}, {"schema"}, 0)
<1> DEFINE a == <<Read("schema")>>
           b == <<Read("handle")>>
           c == b \o CacheGetById("dal2")
           d == Under("obj", c)
           e == a \o d
           f == Under("tmpl", e)
<1> HIDE DEF a, b, c, d, e, f
<1>1. Profile(a, {}, {}, {"schema"}, 8)
  BY AccessProfiles, Names DEF a
<1>2. Profile(b, {}, {}, {"handle"}, 8)
  BY AccessProfiles, Names DEF b
<1>3. Profile(c, {"dal2"}, {"tmplObjs"}, {"handle", "tmplObjs"}, 5)
  BY <1>2, CacheGetById_dal2_profile, ThenProfile DEF Profile, c
<1>4. Profile(d, {"dal2", "obj"}, {"tmplObjs"}, {"tmplObjs"}, 0)
  BY <1>3, UnderProfile, GuardRank, Names DEF Profile, d
<1>5. Profile(e, {"dal2", "obj"}, {"tmplObjs"}, {"schema", "tmplObjs"}, 0)
  BY <1>1, <1>4, ThenProfile DEF Profile, e
<1>6. Profile(f, {"dal2", "obj", "tmpl"}, {"tmplObjs"}, {"schema"}, 0)
  BY <1>5, UnderProfile, GuardRank, Names DEF Profile, f
<1>7. cast = Under("dal", f)
  BY DEF cast, a, b, c, d, e, f
<1> QED BY <1>7, <1>6, UnderProfile, GuardRank, Names DEF Profile

LEMMA make_dal_objects_profile ==
  Profile(make_dal_objects, {"dal"}, {"tmplObjs"}, {"id", "schema", "tmplObjs"}, 4)
<1> DEFINE a == <<Read("schema")>>
           b == UID \o a
<1> HIDE DEF a, b
<1>1. Profile(a, {}, {}, {"schema"}, 8)
  BY AccessProfiles, Names DEF a
<1>2. Profile(b, {}, {}, {"id", "schema"}, 8)
  BY UID_profile, <1>1, ThenProfile DEF Profile, b
<1>3. make_dal_objects = b \o CacheGetById("dal")
  BY DEF make_dal_objects, a, b
<1> QED BY <1>3, <1>2, CacheGetById_dal_profile, ThenProfile DEF Profile

LEMMA get_rel_objects_profile ==
  Profile(get_rel_objects, {"dal", "obj", "tmpl"}, {"handle", "implObjs", "tmplObjs"},
          {"handle", "implObjs", "schema"}, 2)
<1> DEFINE a == Under("tmpl", make_dal_objects)
<1> HIDE DEF a
<1>1. Profile(a, {"dal", "tmpl"}, {"tmplObjs"}, {"schema"}, 2)
  BY make_dal_objects_profile, UnderProfile, GuardRank, Names DEF Profile, a
<1>2. get_rel_objects = read_relation \o a
  BY DEF get_rel_objects, a
<1> QED BY <1>2, read_relation_profile, <1>1, ThenProfile DEF Profile

LEMMA get_algo_objects_profile ==
  Profile(get_algo_objects, {"dal2"}, {"tmplObjs"}, {"schema", "tmplObjs"}, 5)
<1> DEFINE a == <<Read("schema")>>
<1> HIDE DEF a
<1>1. Profile(a, {}, {}, {"schema"}, 8)
  BY AccessProfiles, Names DEF a
<1>2. get_algo_objects = a \o CacheGetById("dal2")
  BY DEF get_algo_objects, a
<1> QED BY <1>2, <1>1, CacheGetById_dal2_profile, ThenProfile DEF Profile

LEMMA config_object_profile ==
  Profile(config_object, {"dal"}, {"handle"}, {"handle"}, 4)
BY is_deleted_profile, UnderProfile, GuardRank, Names DEF Profile, config_object

LEMMA unread_profile ==
  Profile(unread, {"dal"}, {"handle", "wasRead"}, {"handle"}, 4)
<1> DEFINE a == <<Write("wasRead")>>
           b == is_deleted \o a
<1> HIDE DEF a, b
<1>1. Profile(a, {}, {"wasRead"}, {"wasRead"}, 8)
  BY AccessProfiles, Names DEF a
<1>2. Profile(b, {}, {"handle", "wasRead"}, {"handle", "wasRead"}, 8)
  BY is_deleted_profile, <1>1, ThenProfile DEF Profile, b
<1>3. unread = Under("dal", b)
  BY DEF unread, a, b
<1> QED BY <1>3, <1>2, UnderProfile, GuardRank, Names DEF Profile

LEMMA SetObject_dal_dal2_profile ==
  Profile(SetObject("dal", "dal2"), {"actn", "dal", "dal2", "obj"}, {"handle"},
          {"handle"}, 4)
<1> DEFINE a == <<>>
           b == Under("dal2", a)
           c == is_deleted \o b
           d == c \o set_value
<1> HIDE DEF a, b, c, d
<1>1. Profile(a, {}, {}, {}, 8)
  BY EmptyProfile DEF a
<1>2. Profile(b, {"dal2"}, {}, {}, 5)
  BY <1>1, UnderProfile, GuardRank, Names DEF Profile, b
<1>3. Profile(c, {"dal2"}, {"handle"}, {"handle"}, 5)
  BY is_deleted_profile, <1>2, ThenProfile DEF Profile, c
<1>4. Profile(d, {"actn", "dal2", "obj"}, {"handle"}, {"handle"}, 5)
  BY <1>3, set_value_profile, ThenProfile DEF Profile, d
<1>5. SetObject("dal", "dal2") = Under("dal", d)
  BY DEF SetObject, a, b, c, d
<1>6. Profile(Under("dal", d), {"actn", "dal", "dal2", "obj"}, {"handle"}, {"handle"},
              4)
  BY <1>4, UnderProfile, GuardRank, Names DEF Profile
<1> QED BY <1>5, <1>6

LEMMA SetObject_dal2_dal_profile ==
  Profile(SetObject("dal2", "dal"), {"actn", "dal", "dal2", "obj"}, {"handle"},
          {"handle"}, 0)
<1> DEFINE a == <<>>
           b == Under("dal", a)
           c == is_deleted \o b
           d == c \o set_value
<1> HIDE DEF a, b, c, d
<1>1. Profile(a, {}, {}, {}, 8)
  BY EmptyProfile DEF a
<1>2. Profile(b, {"dal"}, {}, {}, 4)
  BY <1>1, UnderProfile, GuardRank, Names DEF Profile, b
<1>3. Profile(c, {"dal"}, {"handle"}, {"handle"}, 4)
  BY is_deleted_profile, <1>2, ThenProfile DEF Profile, c
<1>4. Profile(d, {"actn", "dal", "obj"}, {"handle"}, {"handle"}, 4)
  BY <1>3, set_value_profile, ThenProfile DEF Profile, d
<1>5. SetObject("dal2", "dal") = Under("dal2", d)
  BY DEF SetObject, a, b, c, d
<1>6. Profile(Under("dal2", d), {"actn", "dal", "dal2", "obj"}, {"handle"}, {"handle"},
              0)
  BY <1>4, UnderProfile, GuardRank, Names DEF Profile
<1> QED BY <1>5, <1>6

LEMMA set_object_profile ==
  Profile(set_object, {"actn", "dal", "dal2", "obj"}, {"handle"}, {"handle"}, 4)
BY SetObject_dal_dal2_profile DEF set_object

LEMMA set_object_back_profile ==
  Profile(set_object_back, {"actn", "dal", "dal2", "obj"}, {"handle"}, {"handle"}, 0)
BY SetObject_dal2_dal_profile DEF set_object_back

----------------------------------------------------------------------------
(* The operations, and which of them keep to the discipline of the         *)
(* mutexes.                                                                *)

Operations ==
  {"add_action", "action_on_update", "register_converter", "convert",
   "subscribe", "unsubscribe", "read_attribute", "read_relation", "set_value",
   "UID", "is_deleted", "get_object", "get_includes", "get_versions", "load",
   "add_include", "remove_include", "destroy_obj", "commit",
   "prefetch_all_data", "abort", "rename_object", "rename", "unload",
   "unread_implementation_objects", "print_profiling_info", "destructor",
   "get_class_info", "attributes_pybind", "relations_pybind",
   "classes_pybind", "print", "export_schema", "export_data", "print_ref",
   "get_cached", "is_valid", "get_uncached", "get_by_object", "get_all",
   "ref", "referenced_by", "unread_template_objects", "check_init",
   "print_object", "castable", "cast", "get_rel_objects",
   "get_algo_objects", "config_object", "unread", "set_object",
   "set_object_back"}

Notifications == {"system_pre_cb", "system_cb"}

\* The operations whose own script breaks the lock order ...
OutOfOrder ==
  {"remove_include", "destroy_obj", "unload", "destructor", "rename_object",
   "rename", "cast", "set_object_back"}

\* ... those that access shared data without the mutex meant for it ...
ReadsValue ==
  {"read_attribute", "export_data", "print_ref", "get_uncached", "get_by_object",
   "get_all", "ref", "referenced_by", "check_init", "print_object"}
Unguarded ==
  [converters    |-> ReadsValue \cup {"convert"},
   handle        |-> {"read_relation", "is_deleted", "get_object", "export_data",
                      "print_ref", "get_uncached", "get_by_object", "get_all",
                      "ref", "referenced_by", "check_init", "print_object",
                      "get_rel_objects", "config_object", "unread", "set_object",
                      "set_object_back"},
   id            |-> {"UID", "export_data", "print_ref"},
   schema        |-> {"attributes_pybind", "relations_pybind", "classes_pybind",
                      "print", "export_schema", "export_data", "print_ref",
                      "referenced_by", "castable", "cast", "get_rel_objects",
                      "get_algo_objects"},
   implObjs      |-> {"read_relation", "export_data", "print_ref", "get_uncached",
                      "get_by_object", "get_all", "ref", "referenced_by",
                      "check_init", "print_object", "get_rel_objects"},
   tmplObjs      |-> {"print_profiling_info", "destructor", "get_algo_objects"},
   wasRead       |-> {"abort", "unread_template_objects", "check_init",
                      "print_object"},
   callbackCount |-> {"system_cb"},
   callbacks     |-> {},
   actions       |-> {}]

\* ... and those that write it.
Modifies ==
  [tmplObjs      |-> {"rename_object", "rename", "unload", "destructor",
                      "get_uncached", "get_by_object", "get_all", "ref",
                      "referenced_by", "check_init", "print_object", "cast",
                      "get_rel_objects", "get_algo_objects"},
   implObjs      |-> {"read_relation", "get_object", "load", "add_include",
                      "remove_include", "destroy_obj", "commit",
                      "prefetch_all_data", "rename_object", "rename", "unload",
                      "destructor", "export_data", "print_ref", "get_uncached",
                      "get_by_object", "get_all", "ref", "referenced_by",
                      "check_init", "print_object", "get_rel_objects"},
   handle        |-> {"read_attribute", "read_relation", "set_value", "is_deleted",
                      "get_object", "destroy_obj", "abort", "rename_object",
                      "rename", "unread_implementation_objects", "export_data",
                      "print_ref", "get_uncached", "get_by_object", "get_all",
                      "ref", "referenced_by", "check_init", "print_object",
                      "get_rel_objects", "config_object", "unread", "set_object",
                      "set_object_back", "system_cb"},
   id            |-> {"rename_object", "rename"},
   schema        |-> {"load", "add_include", "remove_include", "abort", "unload",
                      "destructor", "get_class_info", "attributes_pybind",
                      "relations_pybind", "export_schema", "export_data",
                      "print_ref"},
   actions       |-> {"add_action"},
   callbacks     |-> {"subscribe", "unsubscribe", "unload", "destructor"},
   callbackCount |-> {"subscribe", "unsubscribe", "unload", "destructor"},
   converters    |-> {"register_converter", "unload", "destructor"},
   wasRead       |-> {"destroy_obj", "abort", "get_uncached", "get_by_object",
                      "get_all", "ref", "referenced_by", "unread_template_objects",
                      "check_init", "print_object", "unread", "system_cb"}]

\* What a callback may call: it runs with m_else_mutex held, which is not
\* recursive and the first mutex of the order.
CallableBack ==
  {"none"} \cup
    (Operations \ (OutOfOrder \cup {"register_converter", "subscribe", "unsubscribe"}))

\* The script s of op is scoped, and breaks the rules where the lists say so.
Conforms(op, s) ==
  /\ Sound(s)
  /\ OrderedAbove(s, 0) <=> op \notin OutOfOrder
  /\ \A d \in Shared : d \in Loose(s) <=> op \in Unguarded[d]
  /\ \A d \in Shared : d \in Written(s) <=> op \in Modifies[d]
  /\ op \in CallableBack => "else" \notin Locks(s) /\ OrderedAbove(s, 1)

LEMMA OperationsConform ==
  \A op \in Operations \cup {"none"} : Conforms(op, Scripts[op])
<1>1. Conforms("add_action", Scripts["add_action"])
  <2>1. Scripts["add_action"] = add_action
    BY DEF Scripts
  <2>2. /\ "add_action" \notin OutOfOrder /\ "add_action" \in CallableBack
        /\ \A d \in Shared : "add_action" \in Unguarded[d] <=> d \in {}
        /\ \A d \in Shared : "add_action" \in Modifies[d] <=> d \in {"actions"}
    BY DEF OutOfOrder, CallableBack, Operations, Shared, Unguarded, ReadsValue, Modifies
  <2> QED BY <2>1, <2>2, add_action_profile, Names DEF Profile, Conforms
<1>2. Conforms("action_on_update", Scripts["action_on_update"])
  <2>1. Scripts["action_on_update"] = action_on_update
    BY DEF Scripts
  <2>2. /\ "action_on_update" \notin OutOfOrder /\ "action_on_update" \in CallableBack
        /\ \A d \in Shared : "action_on_update" \in Unguarded[d] <=> d \in {}
        /\ \A d \in Shared : "action_on_update" \in Modifies[d] <=> d \in {}
    BY DEF OutOfOrder, CallableBack, Operations, Shared, Unguarded, ReadsValue, Modifies
  <2> QED BY <2>1, <2>2, action_on_update_profile, Names DEF Profile, Conforms
<1>3. Conforms("register_converter", Scripts["register_converter"])
  <2>1. Scripts["register_converter"] = register_converter
    BY DEF Scripts
  <2>2. /\ "register_converter" \notin OutOfOrder /\ "register_converter" \notin CallableBack
        /\ \A d \in Shared : "register_converter" \in Unguarded[d] <=> d \in {}
        /\ \A d \in Shared : "register_converter" \in Modifies[d] <=> d \in {"converters"}
    BY DEF OutOfOrder, CallableBack, Operations, Shared, Unguarded, ReadsValue, Modifies
  <2> QED BY <2>1, <2>2, register_converter_profile, Names DEF Profile, Conforms
<1>4. Conforms("convert", Scripts["convert"])
  <2>1. Scripts["convert"] = convert
    BY DEF Scripts
  <2>2. /\ "convert" \notin OutOfOrder /\ "convert" \in CallableBack
        /\ \A d \in Shared : "convert" \in Unguarded[d] <=> d \in {"converters"}
        /\ \A d \in Shared : "convert" \in Modifies[d] <=> d \in {}
    BY DEF OutOfOrder, CallableBack, Operations, Shared, Unguarded, ReadsValue, Modifies
  <2> QED BY <2>1, <2>2, convert_profile, Names DEF Profile, Conforms
<1>5. Conforms("subscribe", Scripts["subscribe"])
  <2>1. Scripts["subscribe"] = subscribe
    BY DEF Scripts
  <2>2. /\ "subscribe" \notin OutOfOrder /\ "subscribe" \notin CallableBack
        /\ \A d \in Shared : "subscribe" \in Unguarded[d] <=> d \in {}
        /\ \A d \in Shared : "subscribe" \in Modifies[d] <=> d \in {"callbackCount", "callbacks"}
    BY DEF OutOfOrder, CallableBack, Operations, Shared, Unguarded, ReadsValue, Modifies
  <2> QED BY <2>1, <2>2, subscribe_profile, Names DEF Profile, Conforms
<1>6. Conforms("unsubscribe", Scripts["unsubscribe"])
  <2>1. Scripts["unsubscribe"] = unsubscribe
    BY DEF Scripts
  <2>2. /\ "unsubscribe" \notin OutOfOrder /\ "unsubscribe" \notin CallableBack
        /\ \A d \in Shared : "unsubscribe" \in Unguarded[d] <=> d \in {}
        /\ \A d \in Shared : "unsubscribe" \in Modifies[d] <=> d \in {"callbackCount", "callbacks"}
    BY DEF OutOfOrder, CallableBack, Operations, Shared, Unguarded, ReadsValue, Modifies
  <2> QED BY <2>1, <2>2, unsubscribe_profile, Names DEF Profile, Conforms
<1>7. Conforms("read_attribute", Scripts["read_attribute"])
  <2>1. Scripts["read_attribute"] = read_attribute
    BY DEF Scripts
  <2>2. /\ "read_attribute" \notin OutOfOrder /\ "read_attribute" \in CallableBack
        /\ \A d \in Shared : "read_attribute" \in Unguarded[d] <=> d \in {"converters"}
        /\ \A d \in Shared : "read_attribute" \in Modifies[d] <=> d \in {"handle"}
    BY DEF OutOfOrder, CallableBack, Operations, Shared, Unguarded, ReadsValue, Modifies
  <2> QED BY <2>1, <2>2, read_attribute_profile, Names DEF Profile, Conforms
<1>8. Conforms("set_value", Scripts["set_value"])
  <2>1. Scripts["set_value"] = set_value
    BY DEF Scripts
  <2>2. /\ "set_value" \notin OutOfOrder /\ "set_value" \in CallableBack
        /\ \A d \in Shared : "set_value" \in Unguarded[d] <=> d \in {}
        /\ \A d \in Shared : "set_value" \in Modifies[d] <=> d \in {"handle"}
    BY DEF OutOfOrder, CallableBack, Operations, Shared, Unguarded, ReadsValue, Modifies
  <2> QED BY <2>1, <2>2, set_value_profile, Names DEF Profile, Conforms
<1>9. Conforms("UID", Scripts["UID"])
  <2>1. Scripts["UID"] = UID
    BY DEF Scripts
  <2>2. /\ "UID" \notin OutOfOrder /\ "UID" \in CallableBack
        /\ \A d \in Shared : "UID" \in Unguarded[d] <=> d \in {"id"}
        /\ \A d \in Shared : "UID" \in Modifies[d] <=> d \in {}
    BY DEF OutOfOrder, CallableBack, Operations, Shared, Unguarded, ReadsValue, Modifies
  <2> QED BY <2>1, <2>2, UID_profile, Names DEF Profile, Conforms
<1>10. Conforms("is_deleted", Scripts["is_deleted"])
  <2>1. Scripts["is_deleted"] = is_deleted
    BY DEF Scripts
  <2>2. /\ "is_deleted" \notin OutOfOrder /\ "is_deleted" \in CallableBack
        /\ \A d \in Shared : "is_deleted" \in Unguarded[d] <=> d \in {"handle"}
        /\ \A d \in Shared : "is_deleted" \in Modifies[d] <=> d \in {"handle"}
    BY DEF OutOfOrder, CallableBack, Operations, Shared, Unguarded, ReadsValue, Modifies
  <2> QED BY <2>1, <2>2, is_deleted_profile, Names DEF Profile, Conforms
<1>11. Conforms("get_object", Scripts["get_object"])
  <2>1. Scripts["get_object"] = get_object
    BY DEF Scripts
  <2>2. /\ "get_object" \notin OutOfOrder /\ "get_object" \in CallableBack
        /\ \A d \in Shared : "get_object" \in Unguarded[d] <=> d \in {"handle"}
        /\ \A d \in Shared : "get_object" \in Modifies[d] <=> d \in {"handle", "implObjs"}
    BY DEF OutOfOrder, CallableBack, Operations, Shared, Unguarded, ReadsValue, Modifies
  <2> QED BY <2>1, <2>2, get_object_profile, Names DEF Profile, Conforms
<1>12. Conforms("get_includes", Scripts["get_includes"])
  <2>1. Scripts["get_includes"] = get_includes
    BY DEF Scripts
  <2>2. /\ "get_includes" \notin OutOfOrder /\ "get_includes" \in CallableBack
        /\ \A d \in Shared : "get_includes" \in Unguarded[d] <=> d \in {}
        /\ \A d \in Shared : "get_includes" \in Modifies[d] <=> d \in {}
    BY DEF OutOfOrder, CallableBack, Operations, Shared, Unguarded, ReadsValue, Modifies
  <2> QED BY <2>1, <2>2, get_includes_profile, Names DEF Profile, Conforms
<1>13. Conforms("get_versions", Scripts["get_versions"])
  <2>1. Scripts["get_versions"] = get_versions
    BY DEF Scripts
  <2>2. /\ "get_versions" \notin OutOfOrder /\ "get_versions" \in CallableBack
        /\ \A d \in Shared : "get_versions" \in Unguarded[d] <=> d \in {}
        /\ \A d \in Shared : "get_versions" \in Modifies[d] <=> d \in {}
    BY DEF OutOfOrder, CallableBack, Operations, Shared, Unguarded, ReadsValue, Modifies
  <2> QED BY <2>1, <2>2, get_versions_profile, Names DEF Profile, Conforms
<1>14. Conforms("load", Scripts["load"])
  <2>1. Scripts["load"] = load
    BY DEF Scripts
  <2>2. /\ "load" \notin OutOfOrder /\ "load" \in CallableBack
        /\ \A d \in Shared : "load" \in Unguarded[d] <=> d \in {}
        /\ \A d \in Shared : "load" \in Modifies[d] <=> d \in {"implObjs", "schema"}
    BY DEF OutOfOrder, CallableBack, Operations, Shared, Unguarded, ReadsValue, Modifies
  <2> QED BY <2>1, <2>2, load_profile, Names DEF Profile, Conforms
<1>15. Conforms("add_include", Scripts["add_include"])
  <2>1. Scripts["add_include"] = add_include
    BY DEF Scripts
  <2>2. /\ "add_include" \notin OutOfOrder /\ "add_include" \in CallableBack
        /\ \A d \in Shared : "add_include" \in Unguarded[d] <=> d \in {}
        /\ \A d \in Shared : "add_include" \in Modifies[d] <=> d \in {"implObjs", "schema"}
    BY DEF OutOfOrder, CallableBack, Operations, Shared, Unguarded, ReadsValue, Modifies
  <2> QED BY <2>1, <2>2, add_include_profile, Names DEF Profile, Conforms
<1>16. Conforms("remove_include", Scripts["remove_include"])
  <2>1. Scripts["remove_include"] = remove_include
    BY DEF Scripts
  <2>2. /\ "remove_include" \in OutOfOrder /\ "remove_include" \notin CallableBack
        /\ \A d \in Shared : "remove_include" \in Unguarded[d] <=> d \in {}
        /\ \A d \in Shared : "remove_include" \in Modifies[d] <=> d \in {"implObjs", "schema"}
    BY DEF OutOfOrder, CallableBack, Operations, Shared, Unguarded, ReadsValue, Modifies
  <2> QED BY <2>1, <2>2, remove_include_profile, Names DEF Profile, Conforms
<1>17. Conforms("destroy_obj", Scripts["destroy_obj"])
  <2>1. Scripts["destroy_obj"] = destroy_obj
    BY DEF Scripts
  <2>2. /\ "destroy_obj" \in OutOfOrder /\ "destroy_obj" \notin CallableBack
        /\ \A d \in Shared : "destroy_obj" \in Unguarded[d] <=> d \in {}
        /\ \A d \in Shared : "destroy_obj" \in Modifies[d] <=> d \in {"handle", "implObjs", "wasRead"}
    BY DEF OutOfOrder, CallableBack, Operations, Shared, Unguarded, ReadsValue, Modifies
  <2> QED BY <2>1, <2>2, destroy_obj_profile, Names DEF Profile, Conforms
<1>18. Conforms("commit", Scripts["commit"])
  <2>1. Scripts["commit"] = commit
    BY DEF Scripts
  <2>2. /\ "commit" \notin OutOfOrder /\ "commit" \in CallableBack
        /\ \A d \in Shared : "commit" \in Unguarded[d] <=> d \in {}
        /\ \A d \in Shared : "commit" \in Modifies[d] <=> d \in {"implObjs"}
    BY DEF OutOfOrder, CallableBack, Operations, Shared, Unguarded, ReadsValue, Modifies
  <2> QED BY <2>1, <2>2, commit_profile, Names DEF Profile, Conforms
<1>19. Conforms("prefetch_all_data", Scripts["prefetch_all_data"])
  <2>1. Scripts["prefetch_all_data"] = prefetch_all_data
    BY DEF Scripts
  <2>2. /\ "prefetch_all_data" \notin OutOfOrder /\ "prefetch_all_data" \in CallableBack
        /\ \A d \in Shared : "prefetch_all_data" \in Unguarded[d] <=> d \in {}
        /\ \A d \in Shared : "prefetch_all_data" \in Modifies[d] <=> d \in {"implObjs"}
    BY DEF OutOfOrder, CallableBack, Operations, Shared, Unguarded, ReadsValue, Modifies
  <2> QED BY <2>1, <2>2, prefetch_all_data_profile, Names DEF Profile, Conforms
<1>20. Conforms("abort", Scripts["abort"])
  <2>1. Scripts["abort"] = abort
    BY DEF Scripts
  <2>2. /\ "abort" \notin OutOfOrder /\ "abort" \in CallableBack
        /\ \A d \in Shared : "abort" \in Unguarded[d] <=> d \in {"wasRead"}
        /\ \A d \in Shared : "abort" \in Modifies[d] <=> d \in {"handle", "schema", "wasRead"}
    BY DEF OutOfOrder, CallableBack, Operations, Shared, Unguarded, ReadsValue, Modifies
  <2> QED BY <2>1, <2>2, abort_profile, Names DEF Profile, Conforms
<1>21. Conforms("rename_object", Scripts["rename_object"])
  <2>1. Scripts["rename_object"] = rename_object
    BY DEF Scripts
  <2>2. /\ "rename_object" \in OutOfOrder /\ "rename_object" \notin CallableBack
        /\ \A d \in Shared : "rename_object" \in Unguarded[d] <=> d \in {}
        /\ \A d \in Shared : "rename_object" \in Modifies[d] <=> d \in {"handle", "id", "implObjs", "tmplObjs"}
    BY DEF OutOfOrder, CallableBack, Operations, Shared, Unguarded, ReadsValue, Modifies
  <2> QED BY <2>1, <2>2, rename_object_profile, Names DEF Profile, Conforms
<1>22. Conforms("rename", Scripts["rename"])
  <2>1. Scripts["rename"] = rename
    BY DEF Scripts
  <2>2. /\ "rename" \in OutOfOrder /\ "rename" \notin CallableBack
        /\ \A d \in Shared : "rename" \in Unguarded[d] <=> d \in {}
        /\ \A d \in Shared : "rename" \in Modifies[d] <=> d \in {"handle", "id", "implObjs", "tmplObjs"}
    BY DEF OutOfOrder, CallableBack, Operations, Shared, Unguarded, ReadsValue, Modifies
  <2> QED BY <2>1, <2>2, rename_profile, Names DEF Profile, Conforms
<1>23. Conforms("unload", Scripts["unload"])
  <2>1. Scripts["unload"] = unload
    BY DEF Scripts
  <2>2. /\ "unload" \in OutOfOrder /\ "unload" \notin CallableBack
        /\ \A d \in Shared : "unload" \in Unguarded[d] <=> d \in {}
        /\ \A d \in Shared : "unload" \in Modifies[d] <=> d \in {"callbackCount", "callbacks", "converters", "implObjs", "schema", "tmplObjs"}
    BY DEF OutOfOrder, CallableBack, Operations, Shared, Unguarded, ReadsValue, Modifies
  <2> QED BY <2>1, <2>2, unload_profile, Names DEF Profile, Conforms
<1>24. Conforms("unread_implementation_objects", Scripts["unread_implementation_objects"])
  <2>1. Scripts["unread_implementation_objects"] = unread_implementation_objects
    BY DEF Scripts
  <2>2. /\ "unread_implementation_objects" \notin OutOfOrder /\ "unread_implementation_objects" \in CallableBack
        /\ \A d \in Shared : "unread_implementation_objects" \in Unguarded[d] <=> d \in {}
        /\ \A d \in Shared : "unread_implementation_objects" \in Modifies[d] <=> d \in {"handle"}
    BY DEF OutOfOrder, CallableBack, Operations, Shared, Unguarded, ReadsValue, Modifies
  <2> QED BY <2>1, <2>2, unread_implementation_objects_profile, Names DEF Profile, Conforms
<1>25. Conforms("print_profiling_info", Scripts["print_profiling_info"])
  <2>1. Scripts["print_profiling_info"] = print_profiling_info
    BY DEF Scripts
  <2>2. /\ "print_profiling_info" \notin OutOfOrder /\ "print_profiling_info" \in CallableBack
        /\ \A d \in Shared : "print_profiling_info" \in Unguarded[d] <=> d \in {"tmplObjs"}
        /\ \A d \in Shared : "print_profiling_info" \in Modifies[d] <=> d \in {}
    BY DEF OutOfOrder, CallableBack, Operations, Shared, Unguarded, ReadsValue, Modifies
  <2> QED BY <2>1, <2>2, print_profiling_info_profile, Names DEF Profile, Conforms
<1>26. Conforms("destructor", Scripts["destructor"])
  <2>1. Scripts["destructor"] = destructor
    BY DEF Scripts
  <2>2. /\ "destructor" \in OutOfOrder /\ "destructor" \notin CallableBack
        /\ \A d \in Shared : "destructor" \in Unguarded[d] <=> d \in {"tmplObjs"}
        /\ \A d \in Shared : "destructor" \in Modifies[d] <=> d \in {"callbackCount", "callbacks", "converters", "implObjs", "schema", "tmplObjs"}
    BY DEF OutOfOrder, CallableBack, Operations, Shared, Unguarded, ReadsValue, Modifies
  <2> QED BY <2>1, <2>2, destructor_profile, Names DEF Profile, Conforms
<1>27. Conforms("get_class_info", Scripts["get_class_info"])
  <2>1. Scripts["get_class_info"] = get_class_info
    BY DEF Scripts
  <2>2. /\ "get_class_info" \notin OutOfOrder /\ "get_class_info" \in CallableBack
        /\ \A d \in Shared : "get_class_info" \in Unguarded[d] <=> d \in {}
        /\ \A d \in Shared : "get_class_info" \in Modifies[d] <=> d \in {"schema"}
    BY DEF OutOfOrder, CallableBack, Operations, Shared, Unguarded, ReadsValue, Modifies
  <2> QED BY <2>1, <2>2, get_class_info_profile, Names DEF Profile, Conforms
<1>28. Conforms("attributes_pybind", Scripts["attributes_pybind"])
  <2>1. Scripts["attributes_pybind"] = attributes_pybind
    BY DEF Scripts
  <2>2. /\ "attributes_pybind" \notin OutOfOrder /\ "attributes_pybind" \in CallableBack
        /\ \A d \in Shared : "attributes_pybind" \in Unguarded[d] <=> d \in {"schema"}
        /\ \A d \in Shared : "attributes_pybind" \in Modifies[d] <=> d \in {"schema"}
    BY DEF OutOfOrder, CallableBack, Operations, Shared, Unguarded, ReadsValue, Modifies
  <2> QED BY <2>1, <2>2, attributes_pybind_profile, Names DEF Profile, Conforms
<1>29. Conforms("relations_pybind", Scripts["relations_pybind"])
  <2>1. Scripts["relations_pybind"] = relations_pybind
    BY DEF Scripts
  <2>2. /\ "relations_pybind" \notin OutOfOrder /\ "relations_pybind" \in CallableBack
        /\ \A d \in Shared : "relations_pybind" \in Unguarded[d] <=> d \in {"schema"}
        /\ \A d \in Shared : "relations_pybind" \in Modifies[d] <=> d \in {"schema"}
    BY DEF OutOfOrder, CallableBack, Operations, Shared, Unguarded, ReadsValue, Modifies
  <2> QED BY <2>1, <2>2, relations_pybind_profile, Names DEF Profile, Conforms
<1>30. Conforms("classes_pybind", Scripts["classes_pybind"])
  <2>1. Scripts["classes_pybind"] = classes_pybind
    BY DEF Scripts
  <2>2. /\ "classes_pybind" \notin OutOfOrder /\ "classes_pybind" \in CallableBack
        /\ \A d \in Shared : "classes_pybind" \in Unguarded[d] <=> d \in {"schema"}
        /\ \A d \in Shared : "classes_pybind" \in Modifies[d] <=> d \in {}
    BY DEF OutOfOrder, CallableBack, Operations, Shared, Unguarded, ReadsValue, Modifies
  <2> QED BY <2>1, <2>2, classes_pybind_profile, Names DEF Profile, Conforms
<1>31. Conforms("print", Scripts["print"])
  <2>1. Scripts["print"] = print
    BY DEF Scripts
  <2>2. /\ "print" \notin OutOfOrder /\ "print" \in CallableBack
        /\ \A d \in Shared : "print" \in Unguarded[d] <=> d \in {"schema"}
        /\ \A d \in Shared : "print" \in Modifies[d] <=> d \in {}
    BY DEF OutOfOrder, CallableBack, Operations, Shared, Unguarded, ReadsValue, Modifies
  <2> QED BY <2>1, <2>2, print_profile, Names DEF Profile, Conforms
<1>32. Conforms("export_schema", Scripts["export_schema"])
  <2>1. Scripts["export_schema"] = export_schema
    BY DEF Scripts
  <2>2. /\ "export_schema" \notin OutOfOrder /\ "export_schema" \in CallableBack
        /\ \A d \in Shared : "export_schema" \in Unguarded[d] <=> d \in {"schema"}
        /\ \A d \in Shared : "export_schema" \in Modifies[d] <=> d \in {"schema"}
    BY DEF OutOfOrder, CallableBack, Operations, Shared, Unguarded, ReadsValue, Modifies
  <2> QED BY <2>1, <2>2, export_schema_profile, Names DEF Profile, Conforms
<1>33. Conforms("export_data", Scripts["export_data"])
  <2>1. Scripts["export_data"] = export_data
    BY DEF Scripts
  <2>2. /\ "export_data" \notin OutOfOrder /\ "export_data" \in CallableBack
        /\ \A d \in Shared : "export_data" \in Unguarded[d] <=> d \in {"converters", "handle", "id", "implObjs", "schema"}
        /\ \A d \in Shared : "export_data" \in Modifies[d] <=> d \in {"handle", "implObjs", "schema"}
    BY DEF OutOfOrder, CallableBack, Operations, Shared, Unguarded, ReadsValue, Modifies
  <2> QED BY <2>1, <2>2, export_data_profile, Names DEF Profile, Conforms
<1>34. Conforms("print_ref", Scripts["print_ref"])
  <2>1. Scripts["print_ref"] = print_ref
    BY DEF Scripts
  <2>2. /\ "print_ref" \notin OutOfOrder /\ "print_ref" \in CallableBack
        /\ \A d \in Shared : "print_ref" \in Unguarded[d] <=> d \in {"converters", "handle", "id", "implObjs", "schema"}
        /\ \A d \in Shared : "print_ref" \in Modifies[d] <=> d \in {"handle", "implObjs", "schema"}
    BY DEF OutOfOrder, CallableBack, Operations, Shared, Unguarded, ReadsValue, Modifies
  <2> QED BY <2>1, <2>2, print_ref_profile, Names DEF Profile, Conforms
<1>35. Conforms("get_cached", Scripts["get_cached"])
  <2>1. Scripts["get_cached"] = get_cached
    BY DEF Scripts
  <2>2. /\ "get_cached" \notin OutOfOrder /\ "get_cached" \in CallableBack
        /\ \A d \in Shared : "get_cached" \in Unguarded[d] <=> d \in {}
        /\ \A d \in Shared : "get_cached" \in Modifies[d] <=> d \in {}
    BY DEF OutOfOrder, CallableBack, Operations, Shared, Unguarded, ReadsValue, Modifies
  <2> QED BY <2>1, <2>2, get_cached_profile, Names DEF Profile, Conforms
<1>36. Conforms("is_valid", Scripts["is_valid"])
  <2>1. Scripts["is_valid"] = is_valid
    BY DEF Scripts
  <2>2. /\ "is_valid" \notin OutOfOrder /\ "is_valid" \in CallableBack
        /\ \A d \in Shared : "is_valid" \in Unguarded[d] <=> d \in {}
        /\ \A d \in Shared : "is_valid" \in Modifies[d] <=> d \in {}
    BY DEF OutOfOrder, CallableBack, Operations, Shared, Unguarded, ReadsValue, Modifies
  <2> QED BY <2>1, <2>2, is_valid_profile, Names DEF Profile, Conforms
<1>37. Conforms("get_uncached", Scripts["get_uncached"])
  <2>1. Scripts["get_uncached"] = get_uncached
    BY DEF Scripts
  <2>2. /\ "get_uncached" \notin OutOfOrder /\ "get_uncached" \in CallableBack
        /\ \A d \in Shared : "get_uncached" \in Unguarded[d] <=> d \in {"converters", "handle", "implObjs"}
        /\ \A d \in Shared : "get_uncached" \in Modifies[d] <=> d \in {"handle", "implObjs", "tmplObjs", "wasRead"}
    BY DEF OutOfOrder, CallableBack, Operations, Shared, Unguarded, ReadsValue, Modifies
  <2> QED BY <2>1, <2>2, get_uncached_profile, Names DEF Profile, Conforms
<1>38. Conforms("get_by_object", Scripts["get_by_object"])
  <2>1. Scripts["get_by_object"] = get_by_object
    BY DEF Scripts
  <2>2. /\ "get_by_object" \notin OutOfOrder /\ "get_by_object" \in CallableBack
        /\ \A d \in Shared : "get_by_object" \in Unguarded[d] <=> d \in {"converters", "handle", "implObjs"}
        /\ \A d \in Shared : "get_by_object" \in Modifies[d] <=> d \in {"handle", "implObjs", "tmplObjs", "wasRead"}
    BY DEF OutOfOrder, CallableBack, Operations, Shared, Unguarded, ReadsValue, Modifies
  <2> QED BY <2>1, <2>2, get_by_object_profile, Names DEF Profile, Conforms
<1>39. Conforms("get_all", Scripts["get_all"])
  <2>1. Scripts["get_all"] = get_all
    BY DEF Scripts
  <2>2. /\ "get_all" \notin OutOfOrder /\ "get_all" \in CallableBack
        /\ \A d \in Shared : "get_all" \in Unguarded[d] <=> d \in {"converters", "handle", "implObjs"}
        /\ \A d \in Shared : "get_all" \in Modifies[d] <=> d \in {"handle", "implObjs", "tmplObjs", "wasRead"}
    BY DEF OutOfOrder, CallableBack, Operations, Shared, Unguarded, ReadsValue, Modifies
  <2> QED BY <2>1, <2>2, get_all_profile, Names DEF Profile, Conforms
<1>40. Conforms("ref", Scripts["ref"])
  <2>1. Scripts["ref"] = ref
    BY DEF Scripts
  <2>2. /\ "ref" \notin OutOfOrder /\ "ref" \in CallableBack
        /\ \A d \in Shared : "ref" \in Unguarded[d] <=> d \in {"converters", "handle", "implObjs"}
        /\ \A d \in Shared : "ref" \in Modifies[d] <=> d \in {"handle", "implObjs", "tmplObjs", "wasRead"}
    BY DEF OutOfOrder, CallableBack, Operations, Shared, Unguarded, ReadsValue, Modifies
  <2> QED BY <2>1, <2>2, ref_profile, Names DEF Profile, Conforms
<1>41. Conforms("referenced_by", Scripts["referenced_by"])
  <2>1. Scripts["referenced_by"] = referenced_by
    BY DEF Scripts
  <2>2. /\ "referenced_by" \notin OutOfOrder /\ "referenced_by" \in CallableBack
        /\ \A d \in Shared : "referenced_by" \in Unguarded[d] <=> d \in {"converters", "handle", "implObjs", "schema"}
        /\ \A d \in Shared : "referenced_by" \in Modifies[d] <=> d \in {"handle", "implObjs", "tmplObjs", "wasRead"}
    BY DEF OutOfOrder, CallableBack, Operations, Shared, Unguarded, ReadsValue, Modifies
  <2> QED BY <2>1, <2>2, referenced_by_profile, Names DEF Profile, Conforms
<1>42. Conforms("unread_template_objects", Scripts["unread_template_objects"])
  <2>1. Scripts["unread_template_objects"] = unread_template_objects
    BY DEF Scripts
  <2>2. /\ "unread_template_objects" \notin OutOfOrder /\ "unread_template_objects" \in CallableBack
        /\ \A d \in Shared : "unread_template_objects" \in Unguarded[d] <=> d \in {"wasRead"}
        /\ \A d \in Shared : "unread_template_objects" \in Modifies[d] <=> d \in {"wasRead"}
    BY DEF OutOfOrder, CallableBack, Operations, Shared, Unguarded, ReadsValue, Modifies
  <2> QED BY <2>1, <2>2, unread_template_objects_profile, Names DEF Profile, Conforms
<1>43. Conforms("check_init", Scripts["check_init"])
  <2>1. Scripts["check_init"] = check_init
    BY DEF Scripts
  <2>2. /\ "check_init" \notin OutOfOrder /\ "check_init" \in CallableBack
        /\ \A d \in Shared : "check_init" \in Unguarded[d] <=> d \in {"converters", "handle", "implObjs", "wasRead"}
        /\ \A d \in Shared : "check_init" \in Modifies[d] <=> d \in {"handle", "implObjs", "tmplObjs", "wasRead"}
    BY DEF OutOfOrder, CallableBack, Operations, Shared, Unguarded, ReadsValue, Modifies
  <2> QED BY <2>1, <2>2, check_init_profile, Names DEF Profile, Conforms
<1>44. Conforms("print_object", Scripts["print_object"])
  <2>1. Scripts["print_object"] = print_object
    BY DEF Scripts
  <2>2. /\ "print_object" \notin OutOfOrder /\ "print_object" \in CallableBack
        /\ \A d \in Shared : "print_object" \in Unguarded[d] <=> d \in {"converters", "handle", "implObjs", "wasRead"}
        /\ \A d \in Shared : "print_object" \in Modifies[d] <=> d \in {"handle", "implObjs", "tmplObjs", "wasRead"}
    BY DEF OutOfOrder, CallableBack, Operations, Shared, Unguarded, ReadsValue, Modifies
  <2> QED BY <2>1, <2>2, print_object_profile, Names DEF Profile, Conforms
<1>45. Conforms("castable", Scripts["castable"])
  <2>1. Scripts["castable"] = castable
    BY DEF Scripts
  <2>2. /\ "castable" \notin OutOfOrder /\ "castable" \in CallableBack
        /\ \A d \in Shared : "castable" \in Unguarded[d] <=> d \in {"schema"}
        /\ \A d \in Shared : "castable" \in Modifies[d] <=> d \in {}
    BY DEF OutOfOrder, CallableBack, Operations, Shared, Unguarded, ReadsValue, Modifies
  <2> QED BY <2>1, <2>2, castable_profile, Names DEF Profile, Conforms
<1>46. Conforms("cast", Scripts["cast"])
  <2>1. Scripts["cast"] = cast
    BY DEF Scripts
  <2>2. /\ "cast" \in OutOfOrder /\ "cast" \notin CallableBack
        /\ \A d \in Shared : "cast" \in Unguarded[d] <=> d \in {"schema"}
        /\ \A d \in Shared : "cast" \in Modifies[d] <=> d \in {"tmplObjs"}
    BY DEF OutOfOrder, CallableBack, Operations, Shared, Unguarded, ReadsValue, Modifies
  <2> QED BY <2>1, <2>2, cast_profile, Names DEF Profile, Conforms
<1>47. Conforms("get_rel_objects", Scripts["get_rel_objects"])
  <2>1. Scripts["get_rel_objects"] = get_rel_objects
    BY DEF Scripts
  <2>2. /\ "get_rel_objects" \notin OutOfOrder /\ "get_rel_objects" \in CallableBack
        /\ \A d \in Shared : "get_rel_objects" \in Unguarded[d] <=> d \in {"handle", "implObjs", "schema"}
        /\ \A d \in Shared : "get_rel_objects" \in Modifies[d] <=> d \in {"handle", "implObjs", "tmplObjs"}
    BY DEF OutOfOrder, CallableBack, Operations, Shared, Unguarded, ReadsValue, Modifies
  <2> QED BY <2>1, <2>2, get_rel_objects_profile, Names DEF Profile, Conforms
<1>48. Conforms("get_algo_objects", Scripts["get_algo_objects"])
  <2>1. Scripts["get_algo_objects"] = get_algo_objects
    BY DEF Scripts
  <2>2. /\ "get_algo_objects" \notin OutOfOrder /\ "get_algo_objects" \in CallableBack
        /\ \A d \in Shared : "get_algo_objects" \in Unguarded[d] <=> d \in {"schema", "tmplObjs"}
        /\ \A d \in Shared : "get_algo_objects" \in Modifies[d] <=> d \in {"tmplObjs"}
    BY DEF OutOfOrder, CallableBack, Operations, Shared, Unguarded, ReadsValue, Modifies
  <2> QED BY <2>1, <2>2, get_algo_objects_profile, Names DEF Profile, Conforms
<1>49. Conforms("config_object", Scripts["config_object"])
  <2>1. Scripts["config_object"] = config_object
    BY DEF Scripts
  <2>2. /\ "config_object" \notin OutOfOrder /\ "config_object" \in CallableBack
        /\ \A d \in Shared : "config_object" \in Unguarded[d] <=> d \in {"handle"}
        /\ \A d \in Shared : "config_object" \in Modifies[d] <=> d \in {"handle"}
    BY DEF OutOfOrder, CallableBack, Operations, Shared, Unguarded, ReadsValue, Modifies
  <2> QED BY <2>1, <2>2, config_object_profile, Names DEF Profile, Conforms
<1>50. Conforms("unread", Scripts["unread"])
  <2>1. Scripts["unread"] = unread
    BY DEF Scripts
  <2>2. /\ "unread" \notin OutOfOrder /\ "unread" \in CallableBack
        /\ \A d \in Shared : "unread" \in Unguarded[d] <=> d \in {"handle"}
        /\ \A d \in Shared : "unread" \in Modifies[d] <=> d \in {"handle", "wasRead"}
    BY DEF OutOfOrder, CallableBack, Operations, Shared, Unguarded, ReadsValue, Modifies
  <2> QED BY <2>1, <2>2, unread_profile, Names DEF Profile, Conforms
<1>51. Conforms("set_object", Scripts["set_object"])
  <2>1. Scripts["set_object"] = set_object
    BY DEF Scripts
  <2>2. /\ "set_object" \notin OutOfOrder /\ "set_object" \in CallableBack
        /\ \A d \in Shared : "set_object" \in Unguarded[d] <=> d \in {"handle"}
        /\ \A d \in Shared : "set_object" \in Modifies[d] <=> d \in {"handle"}
    BY DEF OutOfOrder, CallableBack, Operations, Shared, Unguarded, ReadsValue, Modifies
  <2> QED BY <2>1, <2>2, set_object_profile, Names DEF Profile, Conforms
<1>52. Conforms("set_object_back", Scripts["set_object_back"])
  <2>1. Scripts["set_object_back"] = set_object_back
    BY DEF Scripts
  <2>2. /\ "set_object_back" \in OutOfOrder /\ "set_object_back" \notin CallableBack
        /\ \A d \in Shared : "set_object_back" \in Unguarded[d] <=> d \in {"handle"}
        /\ \A d \in Shared : "set_object_back" \in Modifies[d] <=> d \in {"handle"}
    BY DEF OutOfOrder, CallableBack, Operations, Shared, Unguarded, ReadsValue, Modifies
  <2> QED BY <2>1, <2>2, set_object_back_profile, Names DEF Profile, Conforms
<1>53. Conforms("none", Scripts["none"])
  <2>1. Scripts["none"] = << >>
    BY DEF Scripts
  <2>2. /\ "none" \notin OutOfOrder /\ "none" \in CallableBack
        /\ \A d \in Shared : "none" \in Unguarded[d] <=> d \in {}
        /\ \A d \in Shared : "none" \in Modifies[d] <=> d \in {}
    BY DEF OutOfOrder, CallableBack, Operations, Shared, Unguarded, ReadsValue, Modifies
  <2> QED BY <2>1, <2>2, EmptyProfile, Names DEF Profile, Conforms
<1>54. Conforms("read_relation", Scripts["read_relation"])
  <2>1. Scripts["read_relation"] = read_relation
    BY DEF Scripts
  <2>2. /\ "read_relation" \notin OutOfOrder /\ "read_relation" \in CallableBack
        /\ \A d \in Shared : "read_relation" \in Unguarded[d] <=> d \in {"handle", "implObjs"}
        /\ \A d \in Shared : "read_relation" \in Modifies[d] <=> d \in {"handle", "implObjs"}
    BY DEF OutOfOrder, CallableBack, Operations, Shared, Unguarded, ReadsValue, Modifies
  <2> QED BY <2>1, <2>2, read_relation_profile, Names DEF Profile, Conforms
<1> QED BY <1>1, <1>2, <1>3, <1>4, <1>5, <1>6, <1>7, <1>8, <1>9, <1>10, <1>11, <1>12, <1>13, <1>14,
           <1>15, <1>16, <1>17, <1>18, <1>19, <1>20, <1>21, <1>22, <1>23, <1>24, <1>25,
           <1>26, <1>27, <1>28, <1>29, <1>30, <1>31, <1>32, <1>33, <1>34, <1>35, <1>36,
           <1>37, <1>38, <1>39, <1>40, <1>41, <1>42, <1>43, <1>44, <1>45, <1>46, <1>47,
           <1>48, <1>49, <1>50, <1>51, <1>52, <1>53, <1>54
            DEF Operations

\* A notification around a callback that locks m_tmpl_mutex or what comes after it.
LEMMA NotifyProfile ==
  ASSUME NEW b, Sound(b), "else" \notin Locks(b), OrderedAbove(b, 1)
  PROVE  LET s == Under("else", <<Read("callbacks")>> \o b) IN
         /\ Sound(s) /\ OrderedAbove(s, 0)
         /\ \A d \in Shared : d \in Loose(s) <=> d \in Loose(b) /\ Guard[d] # "else"
         /\ \A d \in Shared : d \in Written(s) <=> d \in Written(b)
<1> DEFINE a == <<Read("callbacks")>>
           c == a \o b
           s == Under("else", c)
<1>1. Profile(a, {}, {}, {"callbacks"}, 8)
  BY AccessProfiles, Names
<1> HIDE DEF a
<1>2. /\ Sound(c) /\ "else" \notin Locks(c) /\ OrderedAbove(c, 1)
      /\ \A d \in Shared : d \in Loose(c) <=> d = "callbacks" \/ d \in Loose(b)
      /\ \A d \in Shared : d \in Written(c) <=> d \in Written(b)
  BY <1>1, ThenProfile, Names DEF Profile
<1> HIDE DEF c
<1>3. /\ Sound(s) /\ OrderedAbove(s, 0)
      /\ \A d \in Shared : d \in Loose(s) <=> d \in Loose(b) /\ Guard[d] # "else"
      /\ \A d \in Shared : d \in Written(s) <=> d \in Written(b)
  BY <1>2, UnderProfile, GuardRank, Names
<1> QED BY <1>3 DEF s, c, a

\* What system_cb() does before it calls the callbacks.
LEMMA UpdateProfile ==
  Profile(Under("impl", Under("actn", <<Read("actions")>>))
            \o Under("tmpl", Under("impl", update_cache)) \o <<Read("callbackCount")>>,
          {"impl", "actn", "tmpl", "dal", "obj"}, {"handle", "wasRead"}, {"callbackCount"}, 2)
<1> DEFINE a == <<Read("actions")>>
           b == Under("actn", a)
           c == Under("impl", b)
           d == Under("impl", update_cache)
           e == Under("tmpl", d)
           f == <<Read("callbackCount")>>
           g == c \o e
<1> HIDE DEF a, b, c, d, e, f, g
<1>1. Profile(a, {}, {}, {"actions"}, 8)
  BY AccessProfiles, Names DEF a
<1>2. Profile(b, {"actn"}, {}, {}, 7)
  BY <1>1, UnderProfile, GuardRank, Names DEF Profile, b
<1>3. Profile(c, {"impl", "actn"}, {}, {}, 3)
  BY <1>2, UnderProfile, GuardRank, Names DEF Profile, c
<1>4. Profile(d, {"impl", "dal", "obj"}, {"handle", "wasRead"}, {"tmplObjs"}, 3)
  BY update_cache_profile, UnderProfile, GuardRank, Names DEF Profile, d
<1>5. Profile(e, {"tmpl", "impl", "dal", "obj"}, {"handle", "wasRead"}, {}, 2)
  BY <1>4, UnderProfile, GuardRank, Names DEF Profile, e
<1>6. Profile(f, {}, {}, {"callbackCount"}, 8)
  BY AccessProfiles, Names DEF f
<1>7. Profile(g, {"impl", "actn", "tmpl", "dal", "obj"}, {"handle", "wasRead"}, {}, 2)
  BY <1>3, <1>5, ThenProfile DEF Profile, g
<1>8. Profile(g \o f, {"impl", "actn", "tmpl", "dal", "obj"}, {"handle", "wasRead"},
              {"callbackCount"}, 2)
  BY <1>6, <1>7, ThenProfile DEF Profile
<1> QED BY <1>8 DEF a, b, c, d, e, f, g

\* The notification entry points, whatever the callback.
LEMMA NotificationsConform ==
  ASSUME NEW o \in CallableBack
  PROVE  LET b == Scripts[o] IN
         /\ Sound(system_pre_cb(b)) /\ OrderedAbove(system_pre_cb(b), 0)
         /\ Sound(system_cb(b)) /\ OrderedAbove(system_cb(b), 0)
         /\ \A d \in Shared : d \in Loose(system_pre_cb(b)) <=> o \in Unguarded[d] /\ Guard[d] # "else"
         /\ \A d \in Shared : d \in Loose(system_cb(b))
                                <=> d = "callbackCount" \/ (o \in Unguarded[d] /\ Guard[d] # "else")
         /\ \A d \in Shared : d \in Written(system_pre_cb(b)) <=> o \in Modifies[d]
         /\ \A d \in Shared : d \in Written(system_cb(b)) <=> d \in {"handle", "wasRead"} \/ o \in Modifies[d]
<1> DEFINE b == Scripts[o]
           u == Under("impl", Under("actn", <<Read("actions")>>))
                  \o Under("tmpl", Under("impl", update_cache)) \o <<Read("callbackCount")>>
           n == Under("else", <<Read("callbacks")>> \o b)
<1>1. /\ Sound(b) /\ "else" \notin Locks(b) /\ OrderedAbove(b, 1)
      /\ \A d \in Shared : d \in Loose(b) <=> o \in Unguarded[d]
      /\ \A d \in Shared : d \in Written(b) <=> o \in Modifies[d]
  <2>1. o \in Operations \cup {"none"}
    BY DEF CallableBack
  <2> QED BY <2>1, OperationsConform DEF Conforms
<1> HIDE DEF b
<1>2. /\ Sound(n) /\ OrderedAbove(n, 0)
      /\ \A d \in Shared : d \in Loose(n) <=> o \in Unguarded[d] /\ Guard[d] # "else"
      /\ \A d \in Shared : d \in Written(n) <=> o \in Modifies[d]
  BY <1>1, NotifyProfile
<1>3. Profile(u, {"impl", "actn", "tmpl", "dal", "obj"}, {"handle", "wasRead"},
              {"callbackCount"}, 2)
  BY UpdateProfile
<1>4. system_pre_cb(b) = n /\ system_cb(b) = u \o n
  BY DEF system_pre_cb, system_cb
<1> HIDE DEF u, n
<1>5. /\ Sound(u \o n) /\ OrderedAbove(u \o n, 0)
      /\ \A d \in Shared : d \in Loose(u \o n)
                             <=> d = "callbackCount" \/ (o \in Unguarded[d] /\ Guard[d] # "else")
      /\ \A d \in Shared : d \in Written(u \o n) <=> d \in {"handle", "wasRead"} \/ o \in Modifies[d]
  BY <1>2, <1>3, ThenProfile DEF Profile
<1> QED BY <1>2, <1>4, <1>5 DEF b

\* The three rules a script is asked to keep, seen from what it does.
LEMMA RulesOfScripts ==
  ASSUME NEW s \in Seq(Steps)
  PROVE  /\ Ordered(s) <=> OrderedAbove(s, 0)
         /\ \A d \in Shared : Guarded(s, {d}) <=> d \notin Loose(s)
         /\ \A d \in Shared : (\E n \in 1..Len(s) : s[n] = Write(d)) <=> d \in Written(s)
<1>1. /\ \A n \in 1..Len(s) : s[n] \in Steps
      /\ \A n : HeldAt(s, n) \in SUBSET Mutexes
  BY DEF HeldAt
<1>2. \A n \in 1..Len(s) :
         /\ s[n].do = "lock" => s[n] = Lock(s[n].on) /\ s[n].on \in Mutexes
         /\ \A m : s[n] = Lock(m) => s[n].do = "lock" /\ s[n].on = m
  BY <1>1 DEF Steps, Lock
<1>3. \A n \in 1..Len(s), d \in Shared :
         (s[n].do \in {"read", "write"} /\ s[n].on = d) <=> s[n] \in {Read(d), Write(d)}
  BY <1>1 DEF Steps, Read, Write
<1>4. Ordered(s) <=> OrderedAbove(s, 0)
  <2>1. ASSUME Ordered(s), NEW m \in Mutexes, NEW H \in SUBSET Mutexes, Does(s, Lock(m), H)
        PROVE  0 < Rank[m] /\ \A k \in H : Rank[k] < Rank[m]
    <3>1. PICK n \in 1..Len(s) : s[n] = Lock(m) /\ H = HeldAt(s, n)
      BY <2>1 DEF Does
    <3>2. s[n].do = "lock" /\ s[n].on = m
      BY <1>2, <3>1
    <3> QED BY <2>1, <3>1, <3>2, Ranks DEF Ordered
  <2>2. ASSUME OrderedAbove(s, 0), NEW n \in 1..Len(s), s[n].do = "lock", NEW k \in HeldAt(s, n)
        PROVE  Rank[k] < Rank[s[n].on]
    <3>1. Does(s, Lock(s[n].on), HeldAt(s, n)) /\ s[n].on \in Mutexes
      BY <1>2, <2>2 DEF Does
    <3> QED BY <1>1, <2>2, <3>1 DEF OrderedAbove
  <2> QED BY <2>1, <2>2 DEF Ordered, OrderedAbove
<1>5. ASSUME NEW d \in Shared PROVE Guarded(s, {d}) <=> d \notin Loose(s)
  <2>1. Guarded(s, {d}) <=> \A n \in 1..Len(s) :
                               s[n] \in {Read(d), Write(d)} => Guard[d] \in HeldAt(s, n)
    <3>1. \A n \in 1..Len(s) : s[n].on \in {d} <=> s[n].on = d
      OBVIOUS
    <3> QED BY <1>3, <3>1 DEF Guarded
  <2>2. d \in Loose(s) <=> \E n \in 1..Len(s) :
                              s[n] \in {Read(d), Write(d)} /\ Guard[d] \notin HeldAt(s, n)
    BY <1>1 DEF Loose, Does
  <2> QED BY <2>1, <2>2
<1>6. ASSUME NEW d \in Shared
      PROVE  (\E n \in 1..Len(s) : s[n] = Write(d)) <=> d \in Written(s)
  BY <1>1 DEF Written, Does
<1> QED BY <1>4, <1>5, <1>6

\* The calls a run is given: operations and notifications of this module, and
\* callbacks that may run where they are called.
CallsListed ==
  /\ UserOps \subseteq Operations
  /\ NotifyOps \subseteq Notifications
  /\ CallbackOps \subseteq CallableBack

LEMMA CallsConform ==
  ASSUME CallsListed, NEW c \in Calls
  PROVE  /\ Script[c] \in Seq(Steps) /\ Scoped(Script[c])
         /\ Ordered(Script[c]) <=> c.op \notin OutOfOrder
         /\ \A d \in Shared :
               Guarded(Script[c], {d}) <=>
                 ~(c.op \in Unguarded[d] \/ (c.body \in Unguarded[d] /\ Guard[d] # "else"))
         /\ \A d \in Shared :
               (\E n \in 1..Len(Script[c]) : Script[c][n] = Write(d))
                 <=> c.op \in Modifies[d] \/ c.body \in Modifies[d]
<1> DEFINE s == Script[c]
<1> SUFFICES /\ Sound(s)
             /\ OrderedAbove(s, 0) <=> c.op \notin OutOfOrder
             /\ \A d \in Shared : d \in Loose(s) <=>
                   c.op \in Unguarded[d] \/ (c.body \in Unguarded[d] /\ Guard[d] # "else")
             /\ \A d \in Shared : d \in Written(s) <=> c.op \in Modifies[d] \/ c.body \in Modifies[d]
  <2> HIDE DEF s
  <2>1. ASSUME Sound(s)
        PROVE  /\ s \in Seq(Steps) /\ Scoped(s) /\ (Ordered(s) <=> OrderedAbove(s, 0))
               /\ \A d \in Shared : Guarded(s, {d}) <=> d \notin Loose(s)
               /\ \A d \in Shared : (\E n \in 1..Len(s) : s[n] = Write(d)) <=> d \in Written(s)
    BY <2>1, RulesOfScripts DEF Sound
  <2>2. s = Script[c]
    BY DEF s
  <2> QED BY <2>1, <2>2
<1>1. \A d \in Shared : /\ "none" \notin Unguarded[d] /\ "none" \notin Modifies[d]
                        /\ "system_pre_cb" \notin Unguarded[d] /\ "system_pre_cb" \notin Modifies[d]
                        /\ "system_cb" \in Unguarded[d] <=> d = "callbackCount"
                        /\ "system_cb" \in Modifies[d] <=> d \in {"handle", "wasRead"}
  BY DEF Shared, Unguarded, ReadsValue, Modifies
<1>2. "system_cb" \notin Operations \cup OutOfOrder /\ "system_pre_cb" \notin Operations \cup OutOfOrder
  BY DEF Operations, OutOfOrder
<1>3. CASE c \in [op : UserOps, body : {"none"}]
  <2>1. c.op \in Operations /\ c.body = "none"
    BY <1>3 DEF CallsListed
  <2>2. s = Scripts[c.op]
    BY <1>2, <2>1 DEF Script
  <2>3. Conforms(c.op, s)
    BY <2>1, <2>2, OperationsConform
  <2> HIDE DEF s
  <2> QED BY <1>1, <2>1, <2>3 DEF Conforms
<1>4. CASE c \in [op : NotifyOps, body : CallbackOps]
  <2>1. c.op \in Notifications /\ c.body \in CallableBack
    BY <1>4 DEF CallsListed
  <2>2. CASE c.op = "system_pre_cb"
    <3>1. s = system_pre_cb(Scripts[c.body])
      BY <2>2 DEF Script
    <3> HIDE DEF s
    <3> QED BY <1>1, <1>2, <2>1, <2>2, <3>1, NotificationsConform
  <2>3. CASE c.op = "system_cb"
    <3>1. s = system_cb(Scripts[c.body])
      BY <2>3 DEF Script
    <3> HIDE DEF s
    <3> QED BY <1>1, <1>2, <2>1, <2>3, <3>1, NotificationsConform, GuardRank
  <2> QED BY <2>1, <2>2, <2>3 DEF Notifications
<1> QED BY <1>3, <1>4 DEF Calls

\* The call accesses d where the mutex meant for d is not held.  A callback is a
\* part of the notification's call, and runs with m_else_mutex held.
Leaves(c, d) ==
  c.op \in Unguarded[d] \/ (c.body \in Unguarded[d] /\ Guard[d] # "else")

\* Whenever two threads are about to access the same data, one of them to write
\* it, one of the two is in a call of the list above: the others never race with
\* each other ("mutex used to access ...", Configuration.hpp:1666-1669, "mutex
\* protecting concurrent access to this object", ConfigObjectImpl.hpp:327).
RacesOnlyUnguarded ==
  LET doing == [t \in Threads |-> Doing(t)] IN
  \A t, u \in Threads : t # u =>
    \A d \in Shared :
       doing[t] = Write(d) /\ doing[u] \in {Read(d), Write(d)} =>
         Leaves(call[t], d) \/ Leaves(call[u], d)

\* The calls that are not on the list for d hold its mutex at every access of d,
\* so two of them cannot be at one at once, whatever else is called.
THEOREM RacesCorrect ==
  ASSUME CallsListed
  PROVE  Spec => []RacesOnlyUnguarded
<1>1. ScriptsScoped
  BY CallsConform DEF ScriptsScoped
<1>2. TypeOK /\ OwnershipOK => RacesOnlyUnguarded
  <2> SUFFICES ASSUME TypeOK, OwnershipOK,
                      NEW t \in Threads, NEW u \in Threads, t # u,
                      NEW d \in Shared,
                      Doing(t) = Write(d), Doing(u) \in {Read(d), Write(d)},
                      ~Leaves(call[t], d), ~Leaves(call[u], d)
               PROVE  FALSE
    BY DEF RacesOnlyUnguarded
  <2>1. ASSUME NEW v \in Threads, Doing(v) \in {Read(d), Write(d)}, ~Leaves(call[v], d)
        PROVE  owner[Guard[d]] = v
    <3>1. HasStep(v) /\ NextStep(v) = Doing(v)
      BY <2>1 DEF Doing, Idle, Read, Write
    <3>2. /\ call[v] \in Calls /\ pc[v] \in 1..Len(Script[call[v]])
          /\ \A m \in Mutexes : owner[m] = v <=> m \in HeldAt(Script[call[v]], pc[v])
      BY <1>1, <3>1, OwnedAtStep
    <3>3. Guarded(Script[call[v]], {d})
      BY <2>1, <3>2, CallsConform DEF Leaves
    <3>4. NextStep(v).do \in {"read", "write"} /\ NextStep(v).on = d
      BY <2>1, <3>1 DEF Read, Write
    <3>5. Guard[d] \in HeldAt(Script[call[v]], pc[v])
      BY <3>2, <3>3, <3>4 DEF Guarded, NextStep
    <3>6. Guard[d] \in Mutexes
      BY <3>5 DEF HeldAt
    <3> QED BY <3>2, <3>5, <3>6
  <2> QED BY <2>1
<1> QED BY <1>1, <1>2, TypeCorrect, Ownership, PTL

\* Every mutex is owned as the scripts say, whatever is called.
THEOREM OwnershipOfAll ==
  ASSUME CallsListed
  PROVE  Spec => [](TypeOK /\ OwnershipOK)
<1>1. ScriptsScoped
  BY CallsConform DEF ScriptsScoped
<1> QED BY <1>1, TypeCorrect, Ownership, PTL

Called == UserOps \cup NotifyOps \cup CallbackOps

\* Data races only where an operation that accesses it without its guard is
\* called, and one that writes it.
THEOREM NoDataRaceOfOperations ==
  ASSUME CallsListed,
         \A d \in Protected : Called \cap Unguarded[d] = {} \/ Called \cap Modifies[d] = {}
  PROVE  Spec => []NoDataRace
<1>1. ScriptsScoped
  BY CallsConform DEF ScriptsScoped
<1>2. ASSUME NEW d \in Protected
      PROVE  \/ \A c \in Calls : Guarded(Script[c], {d})
             \/ \A c \in Calls : \A n \in 1..Len(Script[c]) : Script[c][n] # Write(d)
  <2>1. d \in Shared
    BY ConstantAssumption
  <2>2. \A c \in Calls : c.op \in Called /\ c.body \in Called \cup {"none"}
    BY DEF Calls, Called
  <2>3. "none" \notin Unguarded[d] /\ "none" \notin Modifies[d]
    BY <2>1 DEF Shared, Unguarded, ReadsValue, Modifies
  <2>4. CASE Called \cap Unguarded[d] = {}
    <3>1. ASSUME NEW c \in Calls PROVE Guarded(Script[c], {d})
      <4>1. c.op \notin Unguarded[d] /\ c.body \notin Unguarded[d]
        BY <2>2, <2>3, <2>4
      <4> QED BY <2>1, <4>1, CallsConform
    <3> QED BY <3>1
  <2>5. CASE Called \cap Modifies[d] = {}
    <3>1. ASSUME NEW c \in Calls, NEW n \in 1..Len(Script[c]) PROVE Script[c][n] # Write(d)
      <4>1. c.op \notin Modifies[d] /\ c.body \notin Modifies[d]
        BY <2>2, <2>3, <2>5
      <4> QED BY <2>1, <4>1, CallsConform
    <3> QED BY <3>1
  <2> QED BY <2>4, <2>5
<1>3. ScriptsGuarded
  BY <1>2 DEF ScriptsGuarded
<1> QED BY <1>1, <1>3, RaceFreedom

\* No circular wait without the eight operations that lock out of order.
THEOREM NoCircularWaitInOrder ==
  ASSUME CallsListed, UserOps \cap OutOfOrder = {}
  PROVE  Spec => []NoCircularWait
<1>1. ScriptsScoped
  BY CallsConform DEF ScriptsScoped
<1>2. ScriptsOrdered
  <2>1. \A c \in Calls : c.op \in UserOps \cup Notifications
    BY DEF Calls, CallsListed
  <2>2. Notifications \cap OutOfOrder = {}
    BY DEF Notifications, OutOfOrder
  <2> QED BY <2>1, <2>2, CallsConform DEF ScriptsOrdered
<1> QED BY <1>1, <1>2, DeadlockFreedom

----------------------------------------------------------------------------
(* rename_object() locks the mutexes of single objects against Rank, but   *)
(* with m_tmpl_mutex held.  No circle arises as long as everybody who      *)
(* holds one of them and locks another holds m_tmpl_mutex.                 *)

\* The mutexes of single objects are on one level.
Level == [else |-> 1, tmpl |-> 2, impl |-> 3, dal |-> 4, dal2 |-> 4, obj |-> 4, actn |-> 5]

Gated(s) ==
  \A n \in 1..Len(s) :
     s[n].do = "lock" =>
       \A m \in HeldAt(s, n) :
          /\ m # s[n].on
          /\ \/ Level[m] < Level[s[n].on]
             \/ Level[m] = 4 /\ Level[s[n].on] = 4 /\ "tmpl" \in HeldAt(s, n)

\* s is gated where mutexes up to level r are held and m_tmpl_mutex is not ...
Outside(s, r) ==
  \A m \in Mutexes, H \in SUBSET Mutexes :
     Does(s, Lock(m), H) =>
       /\ r < Level[m]
       /\ \A k \in H : /\ k # m
                       /\ \/ Level[k] < Level[m]
                          \/ Level[k] = 4 /\ Level[m] = 4 /\ "tmpl" \in H

\* ... and where it is.
Inside(s, r) ==
  \A m \in Mutexes, H \in SUBSET Mutexes :
     Does(s, Lock(m), H) =>
       /\ r < Level[m] \/ (r = 4 /\ Level[m] = 4)
       /\ \A k \in H : k # m /\ (Level[k] < Level[m] \/ (Level[k] = 4 /\ Level[m] = 4))

LEMMA Levels ==
  /\ \A m \in Mutexes : Level[m] \in 1..5
  /\ Level["else"] = 1 /\ Level["tmpl"] = 2 /\ Level["impl"] = 3 /\ Level["dal"] = 4
  /\ Level["dal2"] = 4 /\ Level["obj"] = 4 /\ Level["actn"] = 5
BY DEF Mutexes, Level

LEMMA ThenGates ==
  ASSUME NEW s, NEW t, Sound(s), Sound(t)
  PROVE  /\ Sound(s \o t)
         /\ \A m \in Mutexes : m \in Locks(s \o t) <=> m \in Locks(s) \/ m \in Locks(t)
         /\ \A r : Outside(s \o t, r) <=> Outside(s, r) /\ Outside(t, r)
         /\ \A r : Inside(s \o t, r) <=> Inside(s, r) /\ Inside(t, r)
<1> DEFINE u == s \o t
<1>1. \A x, H : Does(u, x, H) <=> Does(s, x, H) \/ Does(t, x, H)
  BY DoesThen
<1>2. Sound(u) /\ Locks(u) = Locks(s) \cup Locks(t)
  BY ThenLaws
<1> HIDE DEF u
<1>3. \A r : Outside(u, r) <=> Outside(s, r) /\ Outside(t, r)
  BY <1>1 DEF Outside
<1>4. \A r : Inside(u, r) <=> Inside(s, r) /\ Inside(t, r)
  BY <1>1 DEF Inside
<1> QED BY <1>2, <1>3, <1>4 DEF u

LEMMA UnderGates ==
  ASSUME NEW b, Sound(b), NEW m \in Mutexes, m \notin Locks(b)
  PROVE  /\ Sound(Under(m, b))
         /\ \A k \in Mutexes : k \in Locks(Under(m, b)) <=> k = m \/ k \in Locks(b)
         /\ \A r \in 0..5 : r < Level[m] /\ Outside(b, Level[m]) => Outside(Under(m, b), r)
         /\ \A r \in 0..5 : m = "tmpl" /\ r < Level[m] /\ Inside(b, Level[m])
                              => Outside(Under(m, b), r)
         /\ \A r \in 0..5 : (r < Level[m] \/ (r = 4 /\ Level[m] = 4)) /\ Inside(b, Level[m])
                              => Inside(Under(m, b), r)
<1> DEFINE u == Under(m, b)
<1>1. Sound(u) /\ Locks(u) = {m} \cup Locks(b)
  BY UnderLaws
<1>2. \A x, H : Does(u, x, H) <=> \/ x = Lock(m) /\ H = {}
                                  \/ x = Unlock(m) /\ H = {m}
                                  \/ \E G \in SUBSET Mutexes : Does(b, x, G) /\ H = G \cup {m}
  BY DoesUnder
<1> HIDE DEF u
<1>3. ASSUME NEW k \in Mutexes, NEW H \in SUBSET Mutexes, Does(u, Lock(k), H)
      PROVE  \/ k = m /\ H = {}
             \/ k # m /\ \E G \in SUBSET Mutexes : Does(b, Lock(k), G) /\ H = G \cup {m}
  BY <1>2, <1>3, StepsDiffer DEF Locks
<1>4. Level[m] \in Nat /\ \A k \in Mutexes : Level[k] \in Nat
  BY Levels
<1>5. ASSUME NEW r \in 0..5, r < Level[m], Outside(b, Level[m])
      PROVE  Outside(u, r)
  <2> SUFFICES ASSUME NEW k \in Mutexes, NEW H \in SUBSET Mutexes, Does(u, Lock(k), H)
               PROVE  /\ r < Level[k]
                      /\ \A h \in H : /\ h # k
                                      /\ \/ Level[h] < Level[k]
                                         \/ Level[h] = 4 /\ Level[k] = 4 /\ "tmpl" \in H
    BY DEF Outside
  <2>1. CASE k = m /\ H = {}
    BY <1>5, <2>1
  <2>2. ASSUME NEW G \in SUBSET Mutexes, k # m, Does(b, Lock(k), G), H = G \cup {m}
        PROVE  /\ r < Level[k]
               /\ \A h \in H : /\ h # k
                               /\ \/ Level[h] < Level[k]
                                  \/ Level[h] = 4 /\ Level[k] = 4 /\ "tmpl" \in H
    <3>1. /\ Level[m] < Level[k]
          /\ \A h \in G : /\ h # k
                          /\ \/ Level[h] < Level[k]
                             \/ Level[h] = 4 /\ Level[k] = 4 /\ "tmpl" \in G
      BY <1>5, <2>2 DEF Outside
    <3> QED BY <1>4, <1>5, <2>2, <3>1
  <2> QED BY <1>3, <2>1, <2>2
<1>6. ASSUME NEW r \in 0..5, m = "tmpl", r < Level[m], Inside(b, Level[m])
      PROVE  Outside(u, r)
  <2> SUFFICES ASSUME NEW k \in Mutexes, NEW H \in SUBSET Mutexes, Does(u, Lock(k), H)
               PROVE  /\ r < Level[k]
                      /\ \A h \in H : /\ h # k
                                      /\ \/ Level[h] < Level[k]
                                         \/ Level[h] = 4 /\ Level[k] = 4 /\ "tmpl" \in H
    BY DEF Outside
  <2>1. CASE k = m /\ H = {}
    BY <1>6, <2>1
  <2>2. ASSUME NEW G \in SUBSET Mutexes, k # m, Does(b, Lock(k), G), H = G \cup {m}
        PROVE  /\ r < Level[k]
               /\ \A h \in H : /\ h # k
                               /\ \/ Level[h] < Level[k]
                                  \/ Level[h] = 4 /\ Level[k] = 4 /\ "tmpl" \in H
    <3>1. /\ Level[m] < Level[k]
          /\ \A h \in G : h # k /\ (Level[h] < Level[k] \/ (Level[h] = 4 /\ Level[k] = 4))
      BY <1>6, <2>2, Levels DEF Inside
    <3> QED BY <1>4, <1>6, <2>2, <3>1
  <2> QED BY <1>3, <2>1, <2>2
<1>7. ASSUME NEW r \in 0..5, r < Level[m] \/ (r = 4 /\ Level[m] = 4), Inside(b, Level[m])
      PROVE  Inside(u, r)
  <2> SUFFICES ASSUME NEW k \in Mutexes, NEW H \in SUBSET Mutexes, Does(u, Lock(k), H)
               PROVE  /\ r < Level[k] \/ (r = 4 /\ Level[k] = 4)
                      /\ \A h \in H : h # k /\ (Level[h] < Level[k] \/ (Level[h] = 4 /\ Level[k] = 4))
    BY DEF Inside
  <2>1. CASE k = m /\ H = {}
    BY <1>7, <2>1
  <2>2. ASSUME NEW G \in SUBSET Mutexes, k # m, Does(b, Lock(k), G), H = G \cup {m}
        PROVE  /\ r < Level[k] \/ (r = 4 /\ Level[k] = 4)
               /\ \A h \in H : h # k /\ (Level[h] < Level[k] \/ (Level[h] = 4 /\ Level[k] = 4))
    <3>1. /\ Level[m] < Level[k] \/ (Level[m] = 4 /\ Level[k] = 4)
          /\ \A h \in G : h # k /\ (Level[h] < Level[k] \/ (Level[h] = 4 /\ Level[k] = 4))
      BY <1>7, <2>2 DEF Inside
    <3> QED BY <1>4, <1>7, <2>2, <3>1
  <2> QED BY <1>3, <2>1, <2>2
<1> QED BY <1>1, <1>5, <1>6, <1>7 DEF u

\* A script that is gated where nothing is held is gated.
LEMMA OutsideGated ==
  ASSUME NEW s \in Seq(Steps), Outside(s, 0)
  PROVE  Gated(s)
<1>1. ASSUME NEW n \in 1..Len(s), s[n].do = "lock", NEW m \in HeldAt(s, n)
      PROVE  /\ m # s[n].on
             /\ \/ Level[m] < Level[s[n].on]
                \/ Level[m] = 4 /\ Level[s[n].on] = 4 /\ "tmpl" \in HeldAt(s, n)
  <2>1. s[n] = Lock(s[n].on) /\ s[n].on \in Mutexes
    BY <1>1 DEF Steps, Lock
  <2>2. Does(s, Lock(s[n].on), HeldAt(s, n)) /\ HeldAt(s, n) \in SUBSET Mutexes
    BY <2>1 DEF Does, HeldAt
  <2> QED BY <2>1, <2>2 DEF Outside
<1> QED BY <1>1 DEF Gated

ScriptsGated == \A c \in Calls : Gated(Script[c])

\* Calls that lock in levels never wait in a circle.  In a circle, take a
\* member that waits for a mutex of the largest level.  The owner, a member too,
\* waits for one of the same level, so both are mutexes of single objects and the
\* owner holds m_tmpl_mutex; and so on around the circle, so m_tmpl_mutex is held
\* by all of them: by one thread, that waits for itself.
LEMMA GatedCircle ==
  ASSUME ScriptsScoped, TypeOK, OwnershipOK,
         NEW S \in (SUBSET Threads) \ {{}},
         \A t \in S : Blocker(t) \in S,
         \A t \in S : Gated(Script[call[t]])
  PROVE  FALSE
<1> DEFINE Want(t) == NextStep(t).on
<1>1. ASSUME NEW t \in S
      PROVE  /\ HasStep(t) /\ NextStep(t).do = "lock"
             /\ Want(t) \in Mutexes
             /\ owner[Want(t)] \in S
  <2>1. Blocker(t) \in S /\ Blocker(t) # NoThread
    BY ConstantAssumption
  <2>2. HasStep(t) /\ NextStep(t).do = "lock" /\ owner[Want(t)] \in S
    BY <2>1 DEF Blocker
  <2>3. NextStep(t) \in Steps
    BY <2>2, OwnedAtStep
  <2> QED BY <2>2, <2>3 DEF Steps
<1>2. ASSUME NEW u \in S, NEW m \in Mutexes, owner[m] = u
      PROVE  /\ m # Want(u)
             /\ \/ Level[m] < Level[Want(u)]
                \/ Level[m] = 4 /\ Level[Want(u)] = 4 /\ owner["tmpl"] = u
  <2>1. HasStep(u) /\ NextStep(u).do = "lock"
    BY <1>1
  <2>2. /\ call[u] \in Calls /\ pc[u] \in 1..Len(Script[call[u]])
        /\ \A k \in Mutexes : owner[k] = u <=> k \in HeldAt(Script[call[u]], pc[u])
    BY <2>1, OwnedAtStep
  <2>3. Gated(Script[call[u]])
    OBVIOUS
  <2>4. /\ m # Want(u)
        /\ \/ Level[m] < Level[Want(u)]
           \/ /\ Level[m] = 4 /\ Level[Want(u)] = 4
              /\ "tmpl" \in HeldAt(Script[call[u]], pc[u])
    BY <1>2, <2>1, <2>2, <2>3 DEF Gated, NextStep
  <2> QED BY <2>2, <2>4, Names
<1>3. \A t \in S : Level[Want(t)] \in 1..5
  BY <1>1, Levels
<1> DEFINE R == {Level[Want(t)] : t \in S}
<1>4. R \in SUBSET (1..7) /\ R # {}
  BY <1>3
<1>5. PICK t \in S : \A u \in S : Level[Want(u)] <= Level[Want(t)]
  <2> HIDE DEF Want
  <2>1. \E r \in R : \A q \in R : q <= r
    BY <1>4, LargestRank
  <2> QED BY <2>1
<1> DEFINE u == owner[Want(t)]
           v == owner[Want(u)]
<1>6. u \in S /\ Want(t) \in Mutexes
  BY <1>1
<1>7. Level[Want(t)] = 4 /\ Level[Want(u)] = 4 /\ owner["tmpl"] = u
  <2>1. ~(Level[Want(t)] < Level[Want(u)])
    BY <1>3, <1>5, <1>6
  <2> QED BY <1>2, <1>6, <2>1
<1>8. v \in S /\ Want(u) \in Mutexes
  BY <1>1, <1>6
<1>9. owner["tmpl"] = v
  <2>1. ~(Level[Want(u)] < Level[Want(v)])
    BY <1>3, <1>5, <1>7, <1>8
  <2> QED BY <1>2, <1>8, <2>1
<1>10. owner[Want(u)] = u
  BY <1>7, <1>9
<1> QED BY <1>2, <1>6, <1>8, <1>10

\* Scripts that lock in levels never wait in a circle.
THEOREM GatedDeadlockFreedom ==
  ASSUME ScriptsScoped, ScriptsGated
  PROVE  Spec => []NoCircularWait
<1>1. TypeOK /\ OwnershipOK => NoCircularWait
  <2> SUFFICES ASSUME TypeOK, OwnershipOK,
                      NEW S \in (SUBSET Threads) \ {{}},
                      \A t \in S : Blocker(t) \in S
               PROVE  FALSE
    BY DEF NoCircularWait
  <2>1. ASSUME NEW t \in S PROVE Gated(Script[call[t]])
    <3>1. Blocker(t) # NoThread
      BY ConstantAssumption
    <3>2. HasStep(t)
      BY <3>1 DEF Blocker
    <3> QED BY <3>2, OwnedAtStep DEF ScriptsGated
  <2> QED BY <2>1, GatedCircle
<1> QED BY <1>1, TypeCorrect, Ownership, PTL

----------------------------------------------------------------------------
(* The scripts of the operations: the mutexes each locks, and below which  *)
(* levels it is gated, without and with m_tmpl_mutex held.                 *)

Gates(s, locks, outside, inside) ==
  /\ Sound(s)
  /\ \A m \in Mutexes : m \in Locks(s) <=> m \in locks
  /\ \A r \in 0..5 : (r < outside => Outside(s, r)) /\ (r < inside => Inside(s, r))

LEMMA NoGates ==
  ASSUME NEW s, NEW W, NEW U, Profile(s, {}, W, U, 8)
  PROVE  Gates(s, {}, 6, 6)
BY DEF Profile, Gates, Locks, Outside, Inside

LEMMA add_action_gates == Gates(add_action, {"actn"}, 5, 5)
<1> DEFINE a == <<Write("actions")>>
<1> HIDE DEF a
<1>1. Gates(a, {}, 6, 6)
  BY AccessProfiles, Names, NoGates DEF a
<1>2. add_action = Under("actn", a)
  BY DEF add_action, a
<1> QED BY <1>2, <1>1, UnderGates, Levels, Names, SMTT(60) DEF Gates

LEMMA action_on_update_gates == Gates(action_on_update, {"actn"}, 5, 5)
<1> DEFINE a == <<Read("actions")>>
<1> HIDE DEF a
<1>1. Gates(a, {}, 6, 6)
  BY AccessProfiles, Names, NoGates DEF a
<1>2. action_on_update = Under("actn", a)
  BY DEF action_on_update, a
<1> QED BY <1>2, <1>1, UnderGates, Levels, Names, SMTT(60) DEF Gates

LEMMA register_converter_gates == Gates(register_converter, {"else"}, 1, 1)
<1> DEFINE a == <<Write("converters")>>
<1> HIDE DEF a
<1>1. Gates(a, {}, 6, 6)
  BY AccessProfiles, Names, NoGates DEF a
<1>2. register_converter = Under("else", a)
  BY DEF register_converter, a
<1> QED BY <1>2, <1>1, UnderGates, Levels, Names, SMTT(60) DEF Gates

LEMMA convert_gates == Gates(convert, {}, 6, 6)
BY AccessProfiles, Names, NoGates DEF convert

LEMMA subscribe_gates == Gates(subscribe, {"else"}, 1, 1)
<1> DEFINE a == <<Write("callbacks"), Write("callbackCount")>>
<1> HIDE DEF a
<1>1. Gates(a, {}, 6, 6)
  BY AccessProfiles, Names, NoGates DEF a
<1>2. subscribe = Under("else", a)
  BY DEF subscribe, a
<1> QED BY <1>2, <1>1, UnderGates, Levels, Names, SMTT(60) DEF Gates

LEMMA unsubscribe_gates == Gates(unsubscribe, {"else"}, 1, 1)
<1> DEFINE a == <<Write("callbacks"), Write("callbackCount")>>
<1> HIDE DEF a
<1>1. Gates(a, {}, 6, 6)
  BY AccessProfiles, Names, NoGates DEF a
<1>2. unsubscribe = Under("else", a)
  BY DEF unsubscribe, a
<1> QED BY <1>2, <1>1, UnderGates, Levels, Names, SMTT(60) DEF Gates

LEMMA plugin_get_gates == Gates(plugin_get, {"obj"}, 4, 5)
<1> DEFINE a == <<Write("handle")>>
<1> HIDE DEF a
<1>1. Gates(a, {}, 6, 6)
  BY AccessProfiles, Names, NoGates DEF a
<1>2. plugin_get = Under("obj", a)
  BY DEF plugin_get, a
<1> QED BY <1>2, <1>1, UnderGates, Levels, Names, SMTT(60) DEF Gates

LEMMA plugin_set_gates == Gates(plugin_set, {"obj"}, 4, 5)
<1> DEFINE a == <<Write("handle")>>
<1> HIDE DEF a
<1>1. Gates(a, {}, 6, 6)
  BY AccessProfiles, Names, NoGates DEF a
<1>2. plugin_set = Under("obj", a)
  BY DEF plugin_set, a
<1> QED BY <1>2, <1>1, UnderGates, Levels, Names, SMTT(60) DEF Gates

LEMMA ImplConvert_gates == Gates(ImplConvert, {}, 6, 6)
BY convert_gates DEF ImplConvert

LEMMA read_attribute_gates ==
  Gates(read_attribute, {"obj"}, 4, 5)
BY plugin_get_gates, ImplConvert_gates, ThenGates DEF Gates, read_attribute

LEMMA read_relation_gates ==
  Gates(read_relation, {"obj"}, 4, 5)
<1> DEFINE a == <<Write("implObjs"), Write("handle")>>
<1> HIDE DEF a
<1>1. Gates(a, {}, 6, 6)
  BY AccessProfiles, Names, NoGates DEF a
<1>2. read_relation = plugin_get \o a
  BY DEF read_relation, a
<1> QED BY <1>2, plugin_get_gates, <1>1, ThenGates DEF Gates

LEMMA set_value_gates == Gates(set_value, {"actn", "obj"}, 4, 5)
BY plugin_set_gates, action_on_update_gates, ThenGates DEF Gates, set_value

LEMMA UID_gates == Gates(UID, {}, 6, 6)
BY AccessProfiles, Names, NoGates DEF UID

LEMMA is_deleted_gates == Gates(is_deleted, {}, 6, 6)
BY AccessProfiles, Names, NoGates DEF is_deleted

LEMMA get_object_gates == Gates(get_object, {"impl"}, 3, 3)
<1> DEFINE a == <<Write("implObjs"), Write("handle")>>
<1> HIDE DEF a
<1>1. Gates(a, {}, 6, 6)
  BY AccessProfiles, Names, NoGates DEF a
<1>2. get_object = Under("impl", a)
  BY DEF get_object, a
<1> QED BY <1>2, <1>1, UnderGates, Levels, Names, SMTT(60) DEF Gates

LEMMA get_includes_gates == Gates(get_includes, {"impl"}, 3, 3)
<1> DEFINE a == <<Read("implObjs")>>
<1> HIDE DEF a
<1>1. Gates(a, {}, 6, 6)
  BY AccessProfiles, Names, NoGates DEF a
<1>2. get_includes = Under("impl", a)
  BY DEF get_includes, a
<1> QED BY <1>2, <1>1, UnderGates, Levels, Names, SMTT(60) DEF Gates

LEMMA get_versions_gates == Gates(get_versions, {"impl"}, 3, 3)
<1> DEFINE a == <<Read("implObjs")>>
<1> HIDE DEF a
<1>1. Gates(a, {}, 6, 6)
  BY AccessProfiles, Names, NoGates DEF a
<1>2. get_versions = Under("impl", a)
  BY DEF get_versions, a
<1> QED BY <1>2, <1>1, UnderGates, Levels, Names, SMTT(60) DEF Gates

LEMMA load_gates == Gates(load, {"actn", "impl"}, 3, 3)
<1> DEFINE a == <<Read("actions")>>
           b == Under("actn", a)
           c == <<Write("implObjs"), Write("schema")>>
           d == b \o c
<1> HIDE DEF a, b, c, d
<1>1. Gates(a, {}, 6, 6)
  BY AccessProfiles, Names, NoGates DEF a
<1>2. Gates(b, {"actn"}, 5, 5)
  BY <1>1, UnderGates, Levels, Names, SMTT(60) DEF Gates, b
<1>3. Gates(c, {}, 6, 6)
  BY AccessProfiles, Names, NoGates DEF c
<1>4. Gates(d, {"actn"}, 5, 5)
  BY <1>2, <1>3, ThenGates DEF Gates, d
<1>5. load = Under("impl", d)
  BY DEF load, a, b, c, d
<1> QED BY <1>5, <1>4, UnderGates, Levels, Names, SMTT(60) DEF Gates

LEMMA add_include_gates == Gates(add_include, {"impl"}, 3, 3)
<1> DEFINE a == <<Write("implObjs"), Write("schema")>>
<1> HIDE DEF a
<1>1. Gates(a, {}, 6, 6)
  BY AccessProfiles, Names, NoGates DEF a
<1>2. add_include = Under("impl", a)
  BY DEF add_include, a
<1> QED BY <1>2, <1>1, UnderGates, Levels, Names, SMTT(60) DEF Gates

LEMMA commit_gates == Gates(commit, {"impl", "tmpl"}, 2, 2)
<1> DEFINE a == <<Write("implObjs")>>
           b == Under("impl", a)
<1> HIDE DEF a, b
<1>1. Gates(a, {}, 6, 6)
  BY AccessProfiles, Names, NoGates DEF a
<1>2. Gates(b, {"impl"}, 3, 3)
  BY <1>1, UnderGates, Levels, Names, SMTT(60) DEF Gates, b
<1>3. commit = Under("tmpl", b)
  BY DEF commit, a, b
<1> QED BY <1>3, <1>2, UnderGates, Levels, Names, SMTT(60) DEF Gates

LEMMA prefetch_all_data_gates == Gates(prefetch_all_data, {"impl", "tmpl"}, 2, 2)
<1> DEFINE a == <<Write("implObjs")>>
           b == Under("impl", a)
<1> HIDE DEF a, b
<1>1. Gates(a, {}, 6, 6)
  BY AccessProfiles, Names, NoGates DEF a
<1>2. Gates(b, {"impl"}, 3, 3)
  BY <1>1, UnderGates, Levels, Names, SMTT(60) DEF Gates, b
<1>3. prefetch_all_data = Under("tmpl", b)
  BY DEF prefetch_all_data, a, b
<1> QED BY <1>3, <1>2, UnderGates, Levels, Names, SMTT(60) DEF Gates

LEMMA UnreadHandles_gates == Gates(UnreadHandles, {"obj"}, 4, 5)
<1> DEFINE a == <<Read("implObjs")>>
           b == <<Write("handle")>>
           c == Under("obj", b)
<1> HIDE DEF a, b, c
<1>1. Gates(a, {}, 6, 6)
  BY AccessProfiles, Names, NoGates DEF a
<1>2. Gates(b, {}, 6, 6)
  BY AccessProfiles, Names, NoGates DEF b
<1>3. Gates(c, {"obj"}, 4, 5)
  BY <1>2, UnderGates, Levels, Names, SMTT(60) DEF Gates, c
<1>4. UnreadHandles = a \o c
  BY DEF UnreadHandles, a, b, c
<1> QED BY <1>4, <1>1, <1>3, ThenGates DEF Gates

LEMMA unread_implementation_objects_gates == Gates(unread_implementation_objects, {"impl", "obj"}, 3, 3)
BY UnreadHandles_gates, UnderGates, Levels, Names, SMTT(60) DEF Gates, unread_implementation_objects

LEMMA abort_gates == Gates(abort, {"impl", "obj", "tmpl"}, 2, 2)
<1> DEFINE a == <<Read("tmplObjs"), Write("wasRead"), Write("schema")>>
           b == UnreadHandles \o a
           c == Under("impl", b)
<1> HIDE DEF a, b, c
<1>1. Gates(a, {}, 6, 6)
  BY AccessProfiles, Names, NoGates DEF a
<1>2. Gates(b, {"obj"}, 4, 5)
  BY UnreadHandles_gates, <1>1, ThenGates DEF Gates, b
<1>3. Gates(c, {"impl", "obj"}, 3, 3)
  BY <1>2, UnderGates, Levels, Names, SMTT(60) DEF Gates, c
<1>4. abort = Under("tmpl", c)
  BY DEF abort, a, b, c
<1> QED BY <1>4, <1>3, UnderGates, Levels, Names, SMTT(60) DEF Gates

LEMMA rename_object_gates == Gates(rename_object, {"dal", "impl", "obj", "tmpl"}, 2, 2)
<1> DEFINE a == <<Write("handle"), Write("id"), Write("implObjs"), Read("schema")>>
           b == <<Write("tmplObjs")>>
           c == a \o b
           d == <<Write("tmplObjs")>>
           e == Under("dal", d)
           f == c \o e
           g == Under("obj", f)
           h == Under("impl", g)
<1> HIDE DEF a, b, c, d, e, f, g, h
<1>1. Gates(a, {}, 6, 6)
  BY AccessProfiles, Names, NoGates DEF a
<1>2. Gates(b, {}, 6, 6)
  BY AccessProfiles, Names, NoGates DEF b
<1>3. Gates(c, {}, 6, 6)
  BY <1>1, <1>2, ThenGates DEF Gates, c
<1>4. Gates(d, {}, 6, 6)
  BY AccessProfiles, Names, NoGates DEF d
<1>5. Gates(e, {"dal"}, 4, 5)
  BY <1>4, UnderGates, Levels, Names, SMTT(60) DEF Gates, e
<1>6. Gates(f, {"dal"}, 4, 5)
  BY <1>3, <1>5, ThenGates DEF Gates, f
<1>7. Gates(g, {"dal", "obj"}, 0, 5)
  BY <1>6, UnderGates, Levels, Names, SMTT(60) DEF Gates, g
<1>8. Gates(h, {"dal", "impl", "obj"}, 0, 3)
  BY <1>7, UnderGates, Levels, Names, SMTT(60) DEF Gates, h
<1>9. rename_object = Under("tmpl", h)
  BY DEF rename_object, a, b, c, d, e, f, g, h
<1> QED BY <1>9, <1>8, UnderGates, Levels, Names, SMTT(60) DEF Gates

LEMMA rename_gates == Gates(rename, {"actn", "dal", "impl", "obj", "tmpl"}, 2, 2)
BY rename_object_gates, action_on_update_gates, ThenGates DEF Gates, rename

LEMMA print_profiling_info_gates == Gates(print_profiling_info, {"impl"}, 3, 3)
<1> DEFINE a == <<Read("tmplObjs"), Read("implObjs")>>
<1> HIDE DEF a
<1>1. Gates(a, {}, 6, 6)
  BY AccessProfiles, Names, NoGates DEF a
<1>2. print_profiling_info = Under("impl", a)
  BY DEF print_profiling_info, a
<1> QED BY <1>2, <1>1, UnderGates, Levels, Names, SMTT(60) DEF Gates

LEMMA get_class_info_gates == Gates(get_class_info, {"impl"}, 3, 3)
<1> DEFINE a == <<Write("schema")>>
<1> HIDE DEF a
<1>1. Gates(a, {}, 6, 6)
  BY AccessProfiles, Names, NoGates DEF a
<1>2. get_class_info = Under("impl", a)
  BY DEF get_class_info, a
<1> QED BY <1>2, <1>1, UnderGates, Levels, Names, SMTT(60) DEF Gates

LEMMA Describe_gates == Gates(Describe, {"impl"}, 3, 3)
<1> DEFINE a == <<Read("schema")>>
<1> HIDE DEF a
<1>1. Gates(a, {}, 6, 6)
  BY AccessProfiles, Names, NoGates DEF a
<1>2. Describe = get_class_info \o a
  BY DEF Describe, a
<1> QED BY <1>2, get_class_info_gates, <1>1, ThenGates DEF Gates

LEMMA attributes_pybind_gates == Gates(attributes_pybind, {"impl"}, 3, 3)
BY Describe_gates DEF attributes_pybind

LEMMA relations_pybind_gates == Gates(relations_pybind, {"impl"}, 3, 3)
BY Describe_gates DEF relations_pybind

LEMMA classes_pybind_gates == Gates(classes_pybind, {}, 6, 6)
BY AccessProfiles, Names, NoGates DEF classes_pybind

LEMMA print_gates == Gates(print, {}, 6, 6)
BY AccessProfiles, Names, NoGates DEF print

LEMMA export_schema_gates == Gates(export_schema, {"impl"}, 3, 3)
<1> DEFINE a == <<Read("schema")>>
<1> HIDE DEF a
<1>1. Gates(a, {}, 6, 6)
  BY AccessProfiles, Names, NoGates DEF a
<1>2. export_schema = a \o Describe
  BY DEF export_schema, a
<1> QED BY <1>2, <1>1, Describe_gates, ThenGates DEF Gates

LEMMA export_data_gates ==
  Gates(export_data, {"impl", "obj"}, 3, 3)
<1> DEFINE a == <<Read("schema")>>
           b == a \o Describe
           c == b \o get_object
           d == c \o UID
           e == d \o read_attribute
<1> HIDE DEF a, b, c, d, e
<1>1. Gates(a, {}, 6, 6)
  BY AccessProfiles, Names, NoGates DEF a
<1>2. Gates(b, {"impl"}, 3, 3)
  BY <1>1, Describe_gates, ThenGates DEF Gates, b
<1>3. Gates(c, {"impl"}, 3, 3)
  BY <1>2, get_object_gates, ThenGates DEF Gates, c
<1>4. Gates(d, {"impl"}, 3, 3)
  BY <1>3, UID_gates, ThenGates DEF Gates, d
<1>5. Gates(e, {"impl", "obj"}, 3, 3)
  BY <1>4, read_attribute_gates, ThenGates DEF Gates, e
<1>6. export_data = e \o read_relation
  BY DEF export_data, a, b, c, d, e
<1> QED BY <1>6, <1>5, read_relation_gates, ThenGates DEF Gates

LEMMA print_ref_gates ==
  Gates(print_ref, {"impl", "obj"}, 3, 3)
<1> DEFINE a == UID \o Describe
           b == a \o read_attribute
<1> HIDE DEF a, b
<1>1. Gates(a, {"impl"}, 3, 3)
  BY UID_gates, Describe_gates, ThenGates DEF Gates, a
<1>2. Gates(b, {"impl", "obj"}, 3, 3)
  BY <1>1, read_attribute_gates, ThenGates DEF Gates, b
<1>3. print_ref = b \o read_relation
  BY DEF print_ref, a, b
<1> QED BY <1>3, <1>2, read_relation_gates, ThenGates DEF Gates

LEMMA CacheGetById_dal_gates == Gates(CacheGetById("dal"), {"dal"}, 4, 5)
<1> DEFINE a == <<Write("tmplObjs")>>
           b == <<Write("tmplObjs")>>
           c == Under("dal", b)
<1> HIDE DEF a, b, c
<1>1. Gates(a, {}, 6, 6)
  BY AccessProfiles, Names, NoGates DEF a
<1>2. Gates(b, {}, 6, 6)
  BY AccessProfiles, Names, NoGates DEF b
<1>3. Gates(c, {"dal"}, 4, 5)
  BY <1>2, UnderGates, Levels, Names, SMTT(60) DEF Gates, c
<1>4. CacheGetById("dal") = a \o c
  BY DEF CacheGetById, a, b, c
<1>5. Gates(a \o c, {"dal"}, 4, 5)
  BY <1>1, <1>3, ThenGates DEF Gates
<1> QED BY <1>4, <1>5

LEMMA CacheGetById_dal2_gates == Gates(CacheGetById("dal2"), {"dal2"}, 4, 5)
<1> DEFINE a == <<Write("tmplObjs")>>
           b == <<Write("tmplObjs")>>
           c == Under("dal2", b)
<1> HIDE DEF a, b, c
<1>1. Gates(a, {}, 6, 6)
  BY AccessProfiles, Names, NoGates DEF a
<1>2. Gates(b, {}, 6, 6)
  BY AccessProfiles, Names, NoGates DEF b
<1>3. Gates(c, {"dal2"}, 4, 5)
  BY <1>2, UnderGates, Levels, Names, SMTT(60) DEF Gates, c
<1>4. CacheGetById("dal2") = a \o c
  BY DEF CacheGetById, a, b, c
<1>5. Gates(a \o c, {"dal2"}, 4, 5)
  BY <1>1, <1>3, ThenGates DEF Gates
<1> QED BY <1>4, <1>5

LEMMA init_gates ==
  Gates(init, {"dal2", "obj"}, 4, 5)
<1> DEFINE a == read_attribute \o read_relation
           b == a \o UID
           c == b \o CacheGetById("dal2")
           d == <<Write("wasRead")>>
<1> HIDE DEF a, b, c, d
<1>1. Gates(a, {"obj"}, 4, 5)
  BY read_attribute_gates, read_relation_gates, ThenGates DEF Gates, a
<1>2. Gates(b, {"obj"}, 4, 5)
  BY <1>1, UID_gates, ThenGates DEF Gates, b
<1>3. Gates(c, {"dal2", "obj"}, 4, 5)
  BY <1>2, CacheGetById_dal2_gates, ThenGates DEF Gates, c
<1>4. Gates(d, {}, 6, 6)
  BY AccessProfiles, Names, NoGates DEF d
<1>5. init = c \o d
  BY DEF init, a, b, c, d
<1> QED BY <1>5, <1>3, <1>4, ThenGates DEF Gates

LEMMA CacheGet_gates ==
  Gates(CacheGet, {"dal", "dal2", "obj"}, 0, 5)
<1> DEFINE a == <<Write("tmplObjs")>>
           b == UID \o a
           c == Under("dal", init)
<1> HIDE DEF a, b, c
<1>1. Gates(a, {}, 6, 6)
  BY AccessProfiles, Names, NoGates DEF a
<1>2. Gates(b, {}, 6, 6)
  BY UID_gates, <1>1, ThenGates DEF Gates, b
<1>3. Gates(c, {"dal", "dal2", "obj"}, 0, 5)
  BY init_gates, UnderGates, Levels, Names, SMTT(60) DEF Gates, c
<1>4. CacheGet = b \o c
  BY DEF CacheGet, a, b, c
<1> QED BY <1>4, <1>2, <1>3, ThenGates DEF Gates

LEMMA get_cached_gates == Gates(get_cached, {"tmpl"}, 2, 2)
<1> DEFINE a == <<Read("tmplObjs")>>
<1> HIDE DEF a
<1>1. Gates(a, {}, 6, 6)
  BY AccessProfiles, Names, NoGates DEF a
<1>2. get_cached = Under("tmpl", a)
  BY DEF get_cached, a
<1> QED BY <1>2, <1>1, UnderGates, Levels, Names, SMTT(60) DEF Gates

LEMMA is_valid_gates == Gates(is_valid, {"tmpl"}, 2, 2)
<1> DEFINE a == <<Read("tmplObjs")>>
<1> HIDE DEF a
<1>1. Gates(a, {}, 6, 6)
  BY AccessProfiles, Names, NoGates DEF a
<1>2. is_valid = Under("tmpl", a)
  BY DEF is_valid, a
<1> QED BY <1>2, <1>1, UnderGates, Levels, Names, SMTT(60) DEF Gates

LEMMA get_uncached_gates ==
  Gates(get_uncached, {"dal", "dal2", "obj", "tmpl"}, 2, 2)
<1> DEFINE a == <<Read("tmplObjs"), Write("implObjs"), Write("handle")>>
           b == a \o CacheGet
<1> HIDE DEF a, b
<1>1. Gates(a, {}, 6, 6)
  BY AccessProfiles, Names, NoGates DEF a
<1>2. Gates(b, {"dal", "dal2", "obj"}, 0, 5)
  BY <1>1, CacheGet_gates, ThenGates DEF Gates, b
<1>3. get_uncached = Under("tmpl", b)
  BY DEF get_uncached, a, b
<1> QED BY <1>3, <1>2, UnderGates, Levels, Names, SMTT(60) DEF Gates

LEMMA get_by_object_gates ==
  Gates(get_by_object, {"dal", "dal2", "obj", "tmpl"}, 2, 2)
BY CacheGet_gates, UnderGates, Levels, Names, SMTT(60) DEF Gates, get_by_object

LEMMA get_all_gates ==
  Gates(get_all, {"dal", "dal2", "impl", "obj", "tmpl"}, 2, 2)
<1> DEFINE a == get_object \o CacheGet
<1> HIDE DEF a
<1>1. Gates(a, {"dal", "dal2", "impl", "obj"}, 0, 3)
  BY get_object_gates, CacheGet_gates, ThenGates DEF Gates, a
<1>2. get_all = Under("tmpl", a)
  BY DEF get_all, a
<1> QED BY <1>2, <1>1, UnderGates, Levels, Names, SMTT(60) DEF Gates

LEMMA ref_gates ==
  Gates(ref, {"dal", "dal2", "obj", "tmpl"}, 2, 2)
<1> DEFINE a == read_relation \o CacheGet
<1> HIDE DEF a
<1>1. Gates(a, {"dal", "dal2", "obj"}, 0, 5)
  BY read_relation_gates, CacheGet_gates, ThenGates DEF Gates, a
<1>2. ref = Under("tmpl", a)
  BY DEF ref, a
<1> QED BY <1>2, <1>1, UnderGates, Levels, Names, SMTT(60) DEF Gates

LEMMA referenced_by_gates ==
  Gates(referenced_by, {"dal", "dal2", "obj", "tmpl"}, 2, 2)
<1> DEFINE a == <<Write("implObjs"), Write("handle"), Read("schema")>>
           b == a \o CacheGet
<1> HIDE DEF a, b
<1>1. Gates(a, {}, 6, 6)
  BY AccessProfiles, Names, NoGates DEF a
<1>2. Gates(b, {"dal", "dal2", "obj"}, 0, 5)
  BY <1>1, CacheGet_gates, ThenGates DEF Gates, b
<1>3. referenced_by = Under("tmpl", b)
  BY DEF referenced_by, a, b
<1> QED BY <1>3, <1>2, UnderGates, Levels, Names, SMTT(60) DEF Gates

LEMMA unread_template_objects_gates == Gates(unread_template_objects, {"tmpl"}, 2, 2)
<1> DEFINE a == <<Read("tmplObjs"), Write("wasRead")>>
<1> HIDE DEF a
<1>1. Gates(a, {}, 6, 6)
  BY AccessProfiles, Names, NoGates DEF a
<1>2. unread_template_objects = Under("tmpl", a)
  BY DEF unread_template_objects, a
<1> QED BY <1>2, <1>1, UnderGates, Levels, Names, SMTT(60) DEF Gates

LEMMA check_init_gates ==
  Gates(check_init, {"dal2", "obj", "tmpl"}, 2, 2)
<1> DEFINE a == <<Read("wasRead")>>
           b == Under("tmpl", init)
<1> HIDE DEF a, b
<1>1. Gates(a, {}, 6, 6)
  BY AccessProfiles, Names, NoGates DEF a
<1>2. Gates(b, {"dal2", "obj", "tmpl"}, 2, 2)
  BY init_gates, UnderGates, Levels, Names, SMTT(60) DEF Gates, b
<1>3. check_init = a \o b
  BY DEF check_init, a, b
<1> QED BY <1>3, <1>1, <1>2, ThenGates DEF Gates

LEMMA print_object_gates ==
  Gates(print_object, {"dal2", "obj", "tmpl"}, 2, 2)
<1> DEFINE a == <<Read("handle")>>
<1> HIDE DEF a
<1>1. Gates(a, {}, 6, 6)
  BY AccessProfiles, Names, NoGates DEF a
<1>2. print_object = a \o check_init
  BY DEF print_object, a
<1> QED BY <1>2, <1>1, check_init_gates, ThenGates DEF Gates

LEMMA castable_gates == Gates(castable, {}, 6, 6)
BY AccessProfiles, Names, NoGates DEF castable

LEMMA make_dal_objects_gates == Gates(make_dal_objects, {"dal"}, 4, 5)
<1> DEFINE a == <<Read("schema")>>
           b == UID \o a
<1> HIDE DEF a, b
<1>1. Gates(a, {}, 6, 6)
  BY AccessProfiles, Names, NoGates DEF a
<1>2. Gates(b, {}, 6, 6)
  BY UID_gates, <1>1, ThenGates DEF Gates, b
<1>3. make_dal_objects = b \o CacheGetById("dal")
  BY DEF make_dal_objects, a, b
<1> QED BY <1>3, <1>2, CacheGetById_dal_gates, ThenGates DEF Gates

LEMMA get_rel_objects_gates ==
  Gates(get_rel_objects, {"dal", "obj", "tmpl"}, 2, 2)
<1> DEFINE a == Under("tmpl", make_dal_objects)
<1> HIDE DEF a
<1>1. Gates(a, {"dal", "tmpl"}, 2, 2)
  BY make_dal_objects_gates, UnderGates, Levels, Names, SMTT(60) DEF Gates, a
<1>2. get_rel_objects = read_relation \o a
  BY DEF get_rel_objects, a
<1> QED BY <1>2, read_relation_gates, <1>1, ThenGates DEF Gates

LEMMA get_algo_objects_gates == Gates(get_algo_objects, {"dal2"}, 4, 5)
<1> DEFINE a == <<Read("schema")>>
<1> HIDE DEF a
<1>1. Gates(a, {}, 6, 6)
  BY AccessProfiles, Names, NoGates DEF a
<1>2. get_algo_objects = a \o CacheGetById("dal2")
  BY DEF get_algo_objects, a
<1> QED BY <1>2, <1>1, CacheGetById_dal2_gates, ThenGates DEF Gates

LEMMA config_object_gates == Gates(config_object, {"dal"}, 4, 5)
BY is_deleted_gates, UnderGates, Levels, Names, SMTT(60) DEF Gates, config_object

LEMMA unread_gates == Gates(unread, {"dal"}, 4, 5)
<1> DEFINE a == <<Write("wasRead")>>
           b == is_deleted \o a
<1> HIDE DEF a, b
<1>1. Gates(a, {}, 6, 6)
  BY AccessProfiles, Names, NoGates DEF a
<1>2. Gates(b, {}, 6, 6)
  BY is_deleted_gates, <1>1, ThenGates DEF Gates, b
<1>3. unread = Under("dal", b)
  BY DEF unread, a, b
<1> QED BY <1>3, <1>2, UnderGates, Levels, Names, SMTT(60) DEF Gates

LEMMA update_cache_gates == Gates(update_cache, {"dal", "obj"}, 4, 5)
<1> DEFINE a == <<Read("schema")>>
           b == a \o UnreadHandles
           c == <<Read("tmplObjs")>>
           d == b \o c
           e == <<Write("wasRead")>>
           f == Under("dal", e)
<1> HIDE DEF a, b, c, d, e, f
<1>1. Gates(a, {}, 6, 6)
  BY AccessProfiles, Names, NoGates DEF a
<1>2. Gates(b, {"obj"}, 4, 5)
  BY <1>1, UnreadHandles_gates, ThenGates DEF Gates, b
<1>3. Gates(c, {}, 6, 6)
  BY AccessProfiles, Names, NoGates DEF c
<1>4. Gates(d, {"obj"}, 4, 5)
  BY <1>2, <1>3, ThenGates DEF Gates, d
<1>5. Gates(e, {}, 6, 6)
  BY AccessProfiles, Names, NoGates DEF e
<1>6. Gates(f, {"dal"}, 4, 5)
  BY <1>5, UnderGates, Levels, Names, SMTT(60) DEF Gates, f
<1>7. update_cache = d \o f
  BY DEF update_cache, a, b, c, d, e, f
<1> QED BY <1>7, <1>4, <1>6, ThenGates DEF Gates

\* The operations that lock in levels.
Ungated ==
  {"remove_include", "destroy_obj", "unload", "destructor", "cast", "set_object",
   "set_object_back"}

LEMMA OperationsGated ==
  \A op \in (Operations \cup {"none"}) \ Ungated :
     /\ Sound(Scripts[op]) /\ Outside(Scripts[op], 0)
     /\ op \in CallableBack => "else" \notin Locks(Scripts[op]) /\ Outside(Scripts[op], 1)
<1> DEFINE Keeps(op) == /\ Sound(Scripts[op]) /\ Outside(Scripts[op], 0)
                        /\ op \in CallableBack => /\ "else" \notin Locks(Scripts[op])
                                                 /\ Outside(Scripts[op], 1)
<1>1. Keeps("add_action")
  <2>1. Scripts["add_action"] = add_action
    BY DEF Scripts
  <2> QED BY <2>1, add_action_gates, Names DEF Gates
<1>2. Keeps("action_on_update")
  <2>1. Scripts["action_on_update"] = action_on_update
    BY DEF Scripts
  <2> QED BY <2>1, action_on_update_gates, Names DEF Gates
<1>3. Keeps("register_converter")
  <2>1. Scripts["register_converter"] = register_converter
    BY DEF Scripts
  <2>2. "register_converter" \notin CallableBack
    BY DEF CallableBack, OutOfOrder
  <2> QED BY <2>1, <2>2, register_converter_gates, Names DEF Gates
<1>4. Keeps("convert")
  <2>1. Scripts["convert"] = convert
    BY DEF Scripts
  <2> QED BY <2>1, convert_gates, Names DEF Gates
<1>5. Keeps("subscribe")
  <2>1. Scripts["subscribe"] = subscribe
    BY DEF Scripts
  <2>2. "subscribe" \notin CallableBack
    BY DEF CallableBack, OutOfOrder
  <2> QED BY <2>1, <2>2, subscribe_gates, Names DEF Gates
<1>6. Keeps("unsubscribe")
  <2>1. Scripts["unsubscribe"] = unsubscribe
    BY DEF Scripts
  <2>2. "unsubscribe" \notin CallableBack
    BY DEF CallableBack, OutOfOrder
  <2> QED BY <2>1, <2>2, unsubscribe_gates, Names DEF Gates
<1>7. Keeps("read_attribute")
  <2>1. Scripts["read_attribute"] = read_attribute
    BY DEF Scripts
  <2> QED BY <2>1, read_attribute_gates, Names DEF Gates
<1>8. Keeps("set_value")
  <2>1. Scripts["set_value"] = set_value
    BY DEF Scripts
  <2> QED BY <2>1, set_value_gates, Names DEF Gates
<1>9. Keeps("UID")
  <2>1. Scripts["UID"] = UID
    BY DEF Scripts
  <2> QED BY <2>1, UID_gates, Names DEF Gates
<1>10. Keeps("is_deleted")
  <2>1. Scripts["is_deleted"] = is_deleted
    BY DEF Scripts
  <2> QED BY <2>1, is_deleted_gates, Names DEF Gates
<1>11. Keeps("get_object")
  <2>1. Scripts["get_object"] = get_object
    BY DEF Scripts
  <2> QED BY <2>1, get_object_gates, Names DEF Gates
<1>12. Keeps("get_includes")
  <2>1. Scripts["get_includes"] = get_includes
    BY DEF Scripts
  <2> QED BY <2>1, get_includes_gates, Names DEF Gates
<1>13. Keeps("get_versions")
  <2>1. Scripts["get_versions"] = get_versions
    BY DEF Scripts
  <2> QED BY <2>1, get_versions_gates, Names DEF Gates
<1>14. Keeps("load")
  <2>1. Scripts["load"] = load
    BY DEF Scripts
  <2> QED BY <2>1, load_gates, Names DEF Gates
<1>15. Keeps("add_include")
  <2>1. Scripts["add_include"] = add_include
    BY DEF Scripts
  <2> QED BY <2>1, add_include_gates, Names DEF Gates
<1>16. Keeps("commit")
  <2>1. Scripts["commit"] = commit
    BY DEF Scripts
  <2> QED BY <2>1, commit_gates, Names DEF Gates
<1>17. Keeps("prefetch_all_data")
  <2>1. Scripts["prefetch_all_data"] = prefetch_all_data
    BY DEF Scripts
  <2> QED BY <2>1, prefetch_all_data_gates, Names DEF Gates
<1>18. Keeps("abort")
  <2>1. Scripts["abort"] = abort
    BY DEF Scripts
  <2> QED BY <2>1, abort_gates, Names DEF Gates
<1>19. Keeps("rename_object")
  <2>1. Scripts["rename_object"] = rename_object
    BY DEF Scripts
  <2>2. "rename_object" \notin CallableBack
    BY DEF CallableBack, OutOfOrder
  <2> QED BY <2>1, <2>2, rename_object_gates, Names DEF Gates
<1>20. Keeps("rename")
  <2>1. Scripts["rename"] = rename
    BY DEF Scripts
  <2>2. "rename" \notin CallableBack
    BY DEF CallableBack, OutOfOrder
  <2> QED BY <2>1, <2>2, rename_gates, Names DEF Gates
<1>21. Keeps("unread_implementation_objects")
  <2>1. Scripts["unread_implementation_objects"] = unread_implementation_objects
    BY DEF Scripts
  <2> QED BY <2>1, unread_implementation_objects_gates, Names DEF Gates
<1>22. Keeps("print_profiling_info")
  <2>1. Scripts["print_profiling_info"] = print_profiling_info
    BY DEF Scripts
  <2> QED BY <2>1, print_profiling_info_gates, Names DEF Gates
<1>23. Keeps("get_class_info")
  <2>1. Scripts["get_class_info"] = get_class_info
    BY DEF Scripts
  <2> QED BY <2>1, get_class_info_gates, Names DEF Gates
<1>24. Keeps("attributes_pybind")
  <2>1. Scripts["attributes_pybind"] = attributes_pybind
    BY DEF Scripts
  <2> QED BY <2>1, attributes_pybind_gates, Names DEF Gates
<1>25. Keeps("relations_pybind")
  <2>1. Scripts["relations_pybind"] = relations_pybind
    BY DEF Scripts
  <2> QED BY <2>1, relations_pybind_gates, Names DEF Gates
<1>26. Keeps("classes_pybind")
  <2>1. Scripts["classes_pybind"] = classes_pybind
    BY DEF Scripts
  <2> QED BY <2>1, classes_pybind_gates, Names DEF Gates
<1>27. Keeps("print")
  <2>1. Scripts["print"] = print
    BY DEF Scripts
  <2> QED BY <2>1, print_gates, Names DEF Gates
<1>28. Keeps("export_schema")
  <2>1. Scripts["export_schema"] = export_schema
    BY DEF Scripts
  <2> QED BY <2>1, export_schema_gates, Names DEF Gates
<1>29. Keeps("export_data")
  <2>1. Scripts["export_data"] = export_data
    BY DEF Scripts
  <2> QED BY <2>1, export_data_gates, Names DEF Gates
<1>30. Keeps("print_ref")
  <2>1. Scripts["print_ref"] = print_ref
    BY DEF Scripts
  <2> QED BY <2>1, print_ref_gates, Names DEF Gates
<1>31. Keeps("get_cached")
  <2>1. Scripts["get_cached"] = get_cached
    BY DEF Scripts
  <2> QED BY <2>1, get_cached_gates, Names DEF Gates
<1>32. Keeps("is_valid")
  <2>1. Scripts["is_valid"] = is_valid
    BY DEF Scripts
  <2> QED BY <2>1, is_valid_gates, Names DEF Gates
<1>33. Keeps("get_uncached")
  <2>1. Scripts["get_uncached"] = get_uncached
    BY DEF Scripts
  <2> QED BY <2>1, get_uncached_gates, Names DEF Gates
<1>34. Keeps("get_by_object")
  <2>1. Scripts["get_by_object"] = get_by_object
    BY DEF Scripts
  <2> QED BY <2>1, get_by_object_gates, Names DEF Gates
<1>35. Keeps("get_all")
  <2>1. Scripts["get_all"] = get_all
    BY DEF Scripts
  <2> QED BY <2>1, get_all_gates, Names DEF Gates
<1>36. Keeps("ref")
  <2>1. Scripts["ref"] = ref
    BY DEF Scripts
  <2> QED BY <2>1, ref_gates, Names DEF Gates
<1>37. Keeps("referenced_by")
  <2>1. Scripts["referenced_by"] = referenced_by
    BY DEF Scripts
  <2> QED BY <2>1, referenced_by_gates, Names DEF Gates
<1>38. Keeps("unread_template_objects")
  <2>1. Scripts["unread_template_objects"] = unread_template_objects
    BY DEF Scripts
  <2> QED BY <2>1, unread_template_objects_gates, Names DEF Gates
<1>39. Keeps("check_init")
  <2>1. Scripts["check_init"] = check_init
    BY DEF Scripts
  <2> QED BY <2>1, check_init_gates, Names DEF Gates
<1>40. Keeps("print_object")
  <2>1. Scripts["print_object"] = print_object
    BY DEF Scripts
  <2> QED BY <2>1, print_object_gates, Names DEF Gates
<1>41. Keeps("castable")
  <2>1. Scripts["castable"] = castable
    BY DEF Scripts
  <2> QED BY <2>1, castable_gates, Names DEF Gates
<1>42. Keeps("get_rel_objects")
  <2>1. Scripts["get_rel_objects"] = get_rel_objects
    BY DEF Scripts
  <2> QED BY <2>1, get_rel_objects_gates, Names DEF Gates
<1>43. Keeps("get_algo_objects")
  <2>1. Scripts["get_algo_objects"] = get_algo_objects
    BY DEF Scripts
  <2> QED BY <2>1, get_algo_objects_gates, Names DEF Gates
<1>44. Keeps("config_object")
  <2>1. Scripts["config_object"] = config_object
    BY DEF Scripts
  <2> QED BY <2>1, config_object_gates, Names DEF Gates
<1>45. Keeps("unread")
  <2>1. Scripts["unread"] = unread
    BY DEF Scripts
  <2> QED BY <2>1, unread_gates, Names DEF Gates
<1>46. Keeps("none")
  <2>1. Scripts["none"] = << >>
    BY DEF Scripts
  <2> QED BY <2>1, EmptyProfile, NoGates, Names DEF Gates
<1>48. Keeps("read_relation")
  <2>1. Scripts["read_relation"] = read_relation
    BY DEF Scripts
  <2> QED BY <2>1, read_relation_gates, Names DEF Gates
<1> HIDE DEF Keeps
<1>47. \A op \in (Operations \cup {"none"}) \ Ungated : Keeps(op)
  BY <1>1, <1>2, <1>3, <1>4, <1>5, <1>6, <1>7, <1>8, <1>9, <1>10, <1>11, <1>12, <1>13, <1>14,
     <1>15, <1>16, <1>17, <1>18, <1>19, <1>20, <1>21, <1>22, <1>23, <1>24, <1>25, <1>26,
     <1>27, <1>28, <1>29, <1>30, <1>31, <1>32, <1>33, <1>34, <1>35, <1>36, <1>37, <1>38,
     <1>39, <1>40, <1>41, <1>42, <1>43, <1>44, <1>45, <1>46, <1>48
     DEF Operations, Ungated
<1> QED BY <1>47 DEF Keeps

LEMMA NotificationsGated ==
  ASSUME NEW o \in CallableBack \ Ungated
  PROVE  LET b == Scripts[o] IN
         Outside(system_pre_cb(b), 0) /\ Outside(system_cb(b), 0)
<1> DEFINE b == Scripts[o]
           a == <<Read("callbacks")>>
           c == a \o b
           n == Under("else", c)
           d == <<Read("actions")>>
           e == Under("actn", d)
           f == Under("impl", e)
           g == Under("impl", update_cache)
           h == Under("tmpl", g)
           i == <<Read("callbackCount")>>
           j == f \o h
           k == j \o i
<1>1. Sound(b) /\ "else" \notin Locks(b) /\ Outside(b, 1)
  <2>1. o \in (Operations \cup {"none"}) \ Ungated
    BY DEF CallableBack
  <2> QED BY <2>1, OperationsGated
<1>2. system_pre_cb(b) = n /\ system_cb(b) = k \o n
  BY DEF system_pre_cb, system_cb
<1> HIDE DEF a, b, c, d, e, f, g, h, i, j, k, n
<1>3. Gates(a, {}, 6, 6) /\ Gates(d, {}, 6, 6) /\ Gates(i, {}, 6, 6)
  BY AccessProfiles, Names, NoGates DEF a, d, i
<1>4. Sound(c) /\ "else" \notin Locks(c) /\ Outside(c, 1)
  BY <1>1, <1>3, ThenGates, Names DEF Gates, c
<1>5. Sound(n) /\ Outside(n, 0)
  BY <1>4, UnderGates, Levels, Names DEF n
<1>6. Gates(e, {"actn"}, 5, 5)
  BY <1>3, UnderGates, Levels, Names, SMTT(60) DEF Gates, e
<1>7. Gates(f, {"impl", "actn"}, 3, 3)
  BY <1>6, UnderGates, Levels, Names, SMTT(60) DEF Gates, f
<1>8. Gates(g, {"impl", "dal", "obj"}, 3, 3)
  BY update_cache_gates, UnderGates, Levels, Names, SMTT(60) DEF Gates, g
<1>9. Gates(h, {"tmpl", "impl", "dal", "obj"}, 2, 2)
  BY <1>8, UnderGates, Levels, Names, SMTT(60) DEF Gates, h
<1>10. Gates(j, {"actn", "tmpl", "impl", "dal", "obj"}, 2, 2)
  BY <1>7, <1>9, ThenGates DEF Gates, j
<1>11. Sound(k) /\ Outside(k, 0)
  BY <1>3, <1>10, ThenGates DEF Gates, k
<1>12. Outside(k \o n, 0)
  BY <1>5, <1>11, ThenGates
<1> QED BY <1>2, <1>5, <1>12 DEF b

\* So does every call in which nothing is on the list.
LEMMA CallsGated ==
  ASSUME CallsListed, NEW c \in Calls, c.op \notin Ungated, c.body \notin Ungated
  PROVE  Gated(Script[c])
<1>1. "system_cb" \notin Operations /\ "system_pre_cb" \notin Operations
  BY DEF Operations
<1>2. Outside(Script[c], 0)
  <2>1. CASE c \in [op : UserOps, body : {"none"}]
    <3>1. c.op \in Operations \ Ungated
      BY <2>1 DEF CallsListed
    <3>2. Script[c] = Scripts[c.op]
      BY <1>1, <3>1 DEF Script
    <3> QED BY <3>1, <3>2, OperationsGated
  <2>2. CASE c \in [op : NotifyOps, body : CallbackOps]
    <3>1. c.op \in Notifications /\ c.body \in CallableBack \ Ungated
      BY <2>2 DEF CallsListed
    <3>2. CASE c.op = "system_pre_cb"
      <4>1. Script[c] = system_pre_cb(Scripts[c.body])
        BY <3>2 DEF Script
      <4> QED BY <3>1, <4>1, NotificationsGated
    <3>3. CASE c.op = "system_cb"
      <4>1. Script[c] = system_cb(Scripts[c.body])
        BY <3>3 DEF Script
      <4> QED BY <3>1, <4>1, NotificationsGated
    <3> QED BY <3>1, <3>2, <3>3 DEF Notifications
  <2> QED BY <2>1, <2>2 DEF Calls
<1>3. Script[c] \in Seq(Steps)
  BY CallsConform
<1> QED BY <1>2, <1>3, OutsideGated

\* Every circle of threads that wait for each other has a member in a call of
\* the list, itself or through its callback: the other calls cannot stop each
\* other ("always lock template objects mutex first", Configuration.cpp:367).
CirclesOnlyUngated ==
  LET blocker == [t \in Threads |-> Blocker(t)] IN
  \A S \in (SUBSET Threads) \ {{}} :
     (\A t \in S : blocker[t] \in S) =>
        \E t \in S : call[t].op \in Ungated \/ call[t].body \in Ungated

\* Those that are not on the list lock in levels, rename_object() too.
THEOREM CirclesCorrect ==
  ASSUME CallsListed
  PROVE  Spec => []CirclesOnlyUngated
<1>1. ScriptsScoped
  BY CallsConform DEF ScriptsScoped
<1>2. TypeOK /\ OwnershipOK => CirclesOnlyUngated
  <2> SUFFICES ASSUME TypeOK, OwnershipOK,
                      NEW S \in (SUBSET Threads) \ {{}},
                      \A t \in S : Blocker(t) \in S,
                      \A t \in S : call[t].op \notin Ungated /\ call[t].body \notin Ungated
               PROVE  FALSE
    BY DEF CirclesOnlyUngated
  <2>1. ASSUME NEW t \in S PROVE Gated(Script[call[t]])
    <3>1. Blocker(t) # NoThread
      BY ConstantAssumption
    <3>2. HasStep(t)
      BY <3>1 DEF Blocker
    <3>3. call[t] \in Calls
      BY <1>1, <3>2, OwnedAtStep
    <3> QED BY <3>3, CallsGated
  <2> QED BY <1>1, <2>1, GatedCircle
<1> QED BY <1>1, <1>2, TypeCorrect, Ownership, PTL

\* No circular wait without the seven operations that do not lock in levels:
\* rename_object() is not one of them.
THEOREM NoCircularWaitOfOperations ==
  ASSUME CallsListed, (UserOps \cup CallbackOps) \cap Ungated = {}
  PROVE  Spec => []NoCircularWait
<1>1. ScriptsScoped
  BY CallsConform DEF ScriptsScoped
<1>2. ASSUME NEW c \in Calls PROVE Gated(Script[c])
  <2>1. Notifications \cap Ungated = {} /\ "none" \notin Ungated
    BY DEF Notifications, Ungated
  <2>2. c.op \notin Ungated /\ c.body \notin Ungated
    BY <2>1 DEF Calls, CallsListed
  <2> QED BY <2>2, CallsGated
<1>3. ScriptsGated
  BY <1>2 DEF ScriptsGated
<1> QED BY <1>1, <1>3, GatedDeadlockFreedom

=============================================================================
