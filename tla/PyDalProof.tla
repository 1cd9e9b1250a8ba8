----------------------------- MODULE PyDalProof -----------------------------
(* What the checks ask of the Python DAL layer, for any classes, names,    *)
(* DALs and programs: the cache of the Configuration keeps one DAL under   *)
(* all classes of a name; nothing refers to an object, a DAL or a handle   *)
(* that is not there, whichever calls raise and wherever they do; a DAL    *)
(* that is cached has the attribute and the relationship of its object,    *)
(* unless the program changed it; and of the calls that walk along         *)
(* relationships, get finds all that is related, update_dal and add_dal    *)
(* write all they have to, and neither touches anything else.              *)
EXTENDS PyDal, FiniteSetTheorems, TLAPS

\* A cache that is a table of all classes and names, and has under every class
\* of a name what it has under its own.  CachedUnderAllTypes alone says nothing
\* of where the cache is defined, which EXCEPT depends on.
Coherent(k) ==
    /\ k = [c \in Classes |-> [i \in Ids |-> k[c][i]]]
    /\ \A c \in Classes, i \in Ids :
        k[c][i] = IF c \in OksTypes[ClassOf[i]] THEN k[ClassOf[i]][i] ELSE None

\* Cached and Uncached of any cache k
Entered(k, f) ==
    [c \in Classes |-> [i \in Ids |->
        IF i \in DOMAIN f /\ c \in OksTypes[ClassOf[i]] THEN f[i] ELSE k[c][i]]]
Removed(k, i) ==
    [c \in Classes |-> IF c \in OksTypes[ClassOf[i]] THEN [k[c] EXCEPT ![i] = None] ELSE k[c]]

-----------------------------------------------------------------------------
\* A name's own class is among the classes it is cached under (oks_types() of a
\* DAL starts with its class).
LEMMA OwnClass == \A i \in Ids : ClassOf[i] \in Classes /\ ClassOf[i] \in OksTypes[ClassOf[i]]
    BY DalAssumption DEF DalAssumption

\* Entering DALs as __update_cache__ and as_dal do keeps a cache coherent.
LEMMA EnteredCoherent == \A k, f : Coherent(k) => Coherent(Entered(k, f))
<1> SUFFICES ASSUME NEW k, NEW f, Coherent(k)
             PROVE  Coherent(Entered(k, f))
    OBVIOUS
<1> DEFINE e == Entered(k, f)
<1>1. \A c \in Classes, i \in Ids :
          e[c][i] = IF i \in DOMAIN f /\ c \in OksTypes[ClassOf[i]] THEN f[i] ELSE k[c][i]
    BY DEF Entered
<1>2. e = [c \in Classes |-> [i \in Ids |-> e[c][i]]]
    BY DEF Entered
<1>3. ASSUME NEW c \in Classes, NEW i \in Ids
      PROVE  e[c][i] = IF c \in OksTypes[ClassOf[i]] THEN e[ClassOf[i]][i] ELSE None
    <2>1. k[c][i] = IF c \in OksTypes[ClassOf[i]] THEN k[ClassOf[i]][i] ELSE None
        BY DEF Coherent
    <2> QED
        BY <1>1, <2>1, OwnClass
<1> HIDE DEF e
<1>4. Coherent(e)
    BY <1>2, <1>3 DEF Coherent
<1> QED
    BY <1>4 DEF e

\* Removing a name as __delete_cache__ does keeps a cache coherent.
LEMMA RemovedCoherent == \A k, j : Coherent(k) => Coherent(Removed(k, j))
<1> SUFFICES ASSUME NEW k, NEW j, Coherent(k)
             PROVE  Coherent(Removed(k, j))
    OBVIOUS
<1> DEFINE e == Removed(k, j)
<1>1. \A c \in Classes : k[c] = [i \in Ids |-> k[c][i]]
    BY DEF Coherent
<1>2. \A c \in Classes, i \in Ids :
          e[c][i] = IF i = j /\ c \in OksTypes[ClassOf[j]] THEN None ELSE k[c][i]
    BY <1>1 DEF Removed
<1>3. \A c \in Classes : e[c] = [i \in Ids |-> e[c][i]]
    BY <1>1 DEF Removed
<1>4. e = [c \in Classes |-> [i \in Ids |-> e[c][i]]]
    <2>1. e = [c \in Classes |-> e[c]]
        BY DEF Removed
    <2> HIDE DEF e
    <2> QED
        BY <2>1, <1>3
<1>5. ASSUME NEW c \in Classes, NEW i \in Ids
      PROVE  e[c][i] = IF c \in OksTypes[ClassOf[i]] THEN e[ClassOf[i]][i] ELSE None
    <2>1. k[c][i] = IF c \in OksTypes[ClassOf[i]] THEN k[ClassOf[i]][i] ELSE None
        BY DEF Coherent
    <2> HIDE DEF e
    <2> QED
        BY <1>2, <2>1, OwnClass
<1> HIDE DEF e
<1>6. Coherent(e)
    BY <1>4, <1>5 DEF Coherent
<1> QED
    BY <1>6 DEF e

-----------------------------------------------------------------------------
(* The actions.                                                              *)

\* Reading a relationship changes the cache by entering DALs, or not at all.
LEMMA ReadingCoherent ==
    ASSUME Coherent(cache), NEW d, ReadRelation(d) \/ ReadRelationFails(d)
    PROVE  Coherent(cache')
<1>1. CASE ReadRelation(d)
    <2>1. cache' = Entered(cache, Fresh(ToLoad(d)))
        BY <1>1 DEF ReadRelation, Cached, Entered
    <2> QED
        BY <2>1, EnteredCoherent
<1>2. CASE ReadRelationFails(d)
    <2>1. \E f : cache' = Entered(cache, f)
        BY <1>2 DEF ReadRelationFails, Cached, Entered
    <2> QED
        BY <2>1, EnteredCoherent
<1> QED
    BY <1>1, <1>2

\* The end of a call enters one DAL.
LEMMA LeavingCoherent ==
    ASSUME Coherent(cache), NEW i, Leave(i)
    PROVE  Coherent(cache')
<1>1. cache' = Entered(cache, [j \in {Name(Top.dal)} |-> Top.dal])
    BY DEF Leave, Cached, Entered
<1> QED
    BY <1>1, EnteredCoherent

\* No operation of a client leaves the cache incoherent ...
LEMMA ClientCoherent ==
    ASSUME Coherent(cache), ClientNext
    PROVE  Coherent(cache')
<1>1. CASE Construct
    BY <1>1 DEF Construct
<1>2. ASSUME NEW d \in Alive, SetAttribute(d) \/ SetRelation(d) \/ SetId(d) \/ rename(d)
      PROVE  Coherent(cache')
    BY <1>2 DEF SetAttribute, SetRelation, SetId, rename
<1>3. ASSUME NEW d \in Alive, Read(d)
      PROVE  Coherent(cache')
    BY <1>3, ReadingCoherent DEF Read
<1>4. ASSUME NEW d \in Alive, destroy_dal(d)
      PROVE  Coherent(cache')
    <2>1. cache' = Removed(cache, Name(d))
        BY <1>4 DEF destroy_dal, Uncached, Removed
    <2> QED
        BY <2>1, RemovedCoherent
<1>5. ASSUME NEW d \in Alive, NEW e \in Alive, copy(d, e)
      PROVE  Coherent(cache')
    BY <1>5 DEF copy
<1>6. ASSUME NEW d \in Alive, NEW op \in Storing \cup {"getall"}, Start(op, d)
      PROVE  Coherent(cache')
    BY <1>6 DEF Start
<1>7. ASSUME NEW i \in Ids, get_dal(i)
      PROVE  Coherent(cache')
    <2>1. cache' = Entered(cache, Fresh({i}))
        BY <1>7 DEF get_dal, Cached, Entered
    <2> QED
        BY <2>1, EnteredCoherent
<1>8. ASSUME NEW C, get_dals(C)
      PROVE  Coherent(cache')
    <2>1. \E f : cache' = Entered(cache, f)
        BY <1>8 DEF get_dals, Cached, Entered
    <2> QED
        BY <2>1, EnteredCoherent
<1> QED
    BY <1>1, <1>2, <1>3, <1>4, <1>5, <1>6, <1>7, <1>8 DEF ClientNext

\* ... and no piece of a recursive call does, whether it succeeds or fails.
LEMMA CallCoherent ==
    ASSUME Coherent(cache), CallNext
    PROVE  Coherent(cache')
<1>1. CASE RenameStored \/ RenameFails \/ NoRename
    BY <1>1 DEF RenameStored, RenameFails, NoRename
<1>2. CASE AddExisting
    BY <1>2, LeavingCoherent DEF AddExisting
<1>3. CASE Open
    BY <1>3 DEF Open
<1>4. CASE OpenRefused
    BY <1>4, LeavingCoherent DEF OpenRefused, Refused
<1>5. CASE Relate
    BY <1>5, ReadingCoherent DEF Relate
<1>6. ASSUME NEW e \in Alive, Related(e) \/ RelatedFails(e)
      PROVE  Coherent(cache')
    BY <1>6 DEF Related, RelatedFails
<1>7. CASE Store
    BY <1>7, LeavingCoherent DEF Store, Refused
<1>8. CASE Visit \/ Descend
    BY <1>8 DEF Visit, Descend
<1> QED
    BY <1>1, <1>2, <1>3, <1>4, <1>5, <1>6, <1>7, <1>8 DEF CallNext

-----------------------------------------------------------------------------
\* The cache is coherent from the empty cache of __initialize_cache__ on.
LEMMA CacheCoherent == Spec => []Coherent(cache)
<1>1. Init => Coherent(cache)
    <2> SUFFICES ASSUME Init
                 PROVE  Coherent(cache)
        OBVIOUS
    <2>1. cache = [c \in Classes |-> [i \in Ids |-> None]]
        BY DEF Init
    <2> QED
        BY <2>1, OwnClass DEF Coherent
<1>2. Coherent(cache) /\ [Next]_vars => Coherent(cache)'
    <2> SUFFICES ASSUME Coherent(cache), [Next]_vars
                 PROVE  Coherent(cache')
        BY DEF Coherent
    <2>1. CASE Next
        BY <2>1, ClientCoherent, CallCoherent DEF Next
    <2>2. CASE UNCHANGED vars
        BY <2>2 DEF vars
    <2> QED
        BY <2>1, <2>2
<1> QED
    BY <1>1, <1>2, PTL DEF Spec

\* get_dal and get_dals give the same DAL of a name whichever of its classes they
\* are asked for, and none under a class that is not its own: __update_cache__,
\* as_dal, update_dal and __delete_cache__ enter and delete under all classes at
\* once, calls that raise half way included.
THEOREM OneDalPerName == Spec => []CachedUnderAllTypes
<1>1. Coherent(cache) => CachedUnderAllTypes
    BY DEF Coherent, CachedUnderAllTypes
<1> QED
    BY <1>1, CacheCoherent, PTL


-----------------------------------------------------------------------------
(* Nothing refers to what is not there: the invariant.  Each part is of any   *)
(* database b, DALs D, cache k and call c, so that it can be asked of the     *)
(* state before a step and of the state after it.                             *)

Stores(b) == {i \in Ids : b[i] # None}
Made(D) == {d \in Dals : D[d] # None}

DbOK(b) ==
    /\ b \in [Ids -> Object \cup {None}]
    /\ \A i \in Stores(b) : b[i].rel \subseteq Stores(b)
    /\ ReadOnly \subseteq Stores(b)

\* A DAL whose relationship is of DALs, or of handles of objects unless they are dead
DalOK(o, P, M) ==
    /\ o \in DalObject
    /\ o.rel \subseteq M
    /\ o.lazy # None => \A h \in o.lazy : h.alive => h.id \in P
DalsOK(D, P) ==
    /\ D \in [Dals -> DalObject \cup {None}]
    /\ \A d \in Made(D) : DalOK(D[d], P, Made(D))
CacheOK(k, D) == k \in [Classes -> [Ids -> Made(D) \cup {None}]]

\* What the frame of a call holds exists.  The object it is about is the DAL's own,
\* unless it was renamed, which no object that one may not write is; and a call
\* that stores has one once it turns to the relationship.
FrameOK(f, P, D, op) ==
    /\ f \in Frame
    /\ f.dal \in Made(D) /\ f.todo \subseteq Made(D) /\ f.val \subseteq P
    /\ f.mode # "relate" => f.obj = None /\ f.val = {}
    /\ f.obj # None => f.obj \in P /\ (f.obj \in ReadOnly => f.obj = D[f.dal].id)
    /\ op \in Storing /\ f.mode = "relate" => f.obj # None

\* The frames of a stack that wait for the call above them
WaitingOK(s, P, D, op) ==
    /\ s \in Seq(Frame)
    /\ \A n \in 1..Len(s) : FrameOK(s[n], P, D, op) /\ s[n].mode = "relate"
StackOK(s, P, D, op) ==
    s # <<>> => FrameOK(Head(s), P, D, op) /\ WaitingOK(Tail(s), P, D, op)

\* What the calls share: the objects stored so far, or the DALs found
DoneSet(P, D, op) == {None} \cup (IF op \in Storing THEN P ELSE Made(D))
CallSet ==
    [op : Storing \cup {"getall", "none"}, root : Dals \cup {None}, ignore : BOOLEAN, recurse : BOOLEAN,
     stack : Seq(Frame), done : [Ids -> Ids \cup Dals \cup {None}],
     before : [Ids -> Object \cup {None}], moved : SUBSET Ids, ok : BOOLEAN]
CallOK(c, P, D) ==
    /\ c \in CallSet
    /\ StackOK(c.stack, P, D, c.op)
    /\ c.done \in [Ids -> DoneSet(P, D, c.op)]

RefInv ==
    /\ DbOK(db)
    /\ DalsOK(dal, Stores(db))
    /\ dirty \subseteq Made(dal)
    /\ CacheOK(cache, dal)
    /\ CallOK(call, Stores(db), dal)

-----------------------------------------------------------------------------
(* Free identities.                                                          *)

\* A set of numbers that is not empty has a least one.
LEMMA Least ==
    ASSUME NEW S \in SUBSET Nat, S # {}
    PROVE  \E m \in S : \A n \in S : m <= n
<1> DEFINE R == OpToRel(<, Nat)
<1>1. PICK m \in S : \A n \in S : <<n, m>> \notin R
    <2>1. IsWellFoundedOn(R, Nat)
        BY NatLessThanWellFounded
    <2> HIDE DEF R
    <2> QED
        BY <2>1, WFMin
<1>2. \A n \in S : n < m => <<n, m>> \in R
    BY DEF OpToRel
<1>3. \A n \in S : ~(n < m)
    <2> HIDE DEF R
    <2> QED
        BY <1>1, <1>2
<1>4. m \in Nat /\ \A n \in S : n \in Nat
    OBVIOUS
<1> QED
    BY <1>3, <1>4

\* A finite set of numbers has an initial segment of every size: if not, take the
\* least size that it has none of, and add the least of the rest to the segment
\* that is one shorter.
Segment(A, F, n) ==
    /\ A \in SUBSET F
    /\ Cardinality(A) = n
    /\ \A a \in A, d \in F : d < a => d \in A

LEMMA SegmentsExist ==
    ASSUME NEW F \in SUBSET Nat, IsFiniteSet(F), NEW n \in Nat, n <= Cardinality(F)
    PROVE  \E A : Segment(A, F, n)
<1> DEFINE Missing == {m \in Nat : m <= Cardinality(F) /\ ~\E A : Segment(A, F, m)}
<1>1. Missing = {}
    <2> SUFFICES ASSUME Missing # {}
                 PROVE  FALSE
        OBVIOUS
    <2>1. PICK m \in Missing : \A k \in Missing : m <= k
        BY Least
    <2>2. m # 0
        <3>1. Segment({}, F, 0)
            BY FS_EmptySet DEF Segment
        <3> QED
            BY <3>1
    <2>3. m - 1 \in Nat /\ m - 1 \notin Missing /\ Cardinality(F) \in Nat
        BY <2>1, <2>2, FS_CardinalityType
    <2>4. PICK A : Segment(A, F, m - 1)
        BY <2>3
    <2>5. IsFiniteSet(A) /\ Cardinality(A) = m - 1 /\ A \subseteq F
        BY <2>4, FS_Subset DEF Segment
    <2>6. F \ A # {}
        <3>1. A # F
            BY <2>1, <2>3, <2>5
        <3> QED
            BY <2>5, <3>1
    <2>7. PICK x \in F \ A : \A y \in F \ A : x <= y
        BY <2>6, Least
    <2>8. Cardinality(A \cup {x}) = m
        <3>1. Cardinality(A \cup {x}) = Cardinality(A) + 1
            BY <2>5, <2>7, FS_AddElement
        <3> QED
            BY <2>3, <2>5, <3>1
    <2>9. \A a \in A \cup {x}, d \in F : d < a => d \in A \cup {x}
        <3> SUFFICES ASSUME NEW a \in A \cup {x}, NEW d \in F, d < a, d \notin A \cup {x}
                     PROVE  FALSE
            OBVIOUS
        <3>1. CASE a \in A
            BY <2>4, <3>1 DEF Segment
        <3>2. CASE a = x
            <4>1. d \in Nat /\ x \in Nat /\ x <= d
                BY <2>7
            <4> QED
                BY <3>2, <4>1
        <3> QED
            BY <3>1, <3>2
    <2>10. Segment(A \cup {x}, F, m)
        BY <2>5, <2>7, <2>8, <2>9 DEF Segment
    <2> QED
        BY <2>10
<1> QED
    BY <1>1

\* There are free identities for the names of I when there are as many, and Fresh
\* gives one to each.
LEMMA FreshOfFree ==
    ASSUME NEW I \in SUBSET Ids, Cardinality(I) <= Cardinality(Free)
    PROVE  /\ Fresh(I) \in [I -> Free]
           /\ \A i, j \in I : i # j => Fresh(I)[i] # Fresh(I)[j]
<1> DEFINE Takes(f) ==
        /\ \A i, j \in I : i # j => f[i] # f[j]
        /\ \A i \in I, d \in Free : d < f[i] => \E j \in I : f[j] = d
<1>1. IsFiniteSet(I) /\ IsFiniteSet(Free) /\ Free \in SUBSET Nat
    BY FS_Subset, DalAssumption DEF DalAssumption, Free
<1>2. Cardinality(I) \in Nat
    BY <1>1, FS_CardinalityType
<1>3. PICK A : Segment(A, Free, Cardinality(I))
    BY <1>1, <1>2, SegmentsExist
<1>4. IsFiniteSet(A) /\ Cardinality(A) = Cardinality(I)
    BY <1>1, <1>3, FS_Subset DEF Segment
<1>5. PICK f \in Bijection(I, A) : TRUE
    BY <1>1, <1>4, FS_SameCardinalityBij DEF ExistsBijection
<1>6. /\ f \in [I -> A]
      /\ \A i, j \in I : f[i] = f[j] => i = j
      /\ \A d \in A : \E j \in I : f[j] = d
    BY <1>5 DEF Bijection, Injection, Surjection, IsInjective
<1>7. f \in [I -> Free]
    BY <1>3, <1>6 DEF Segment
<1>8. Takes(f)
    <2>1. ASSUME NEW i \in I, NEW d \in Free, d < f[i]
          PROVE  \E j \in I : f[j] = d
        BY <1>3, <1>6, <2>1 DEF Segment
    <2> QED
        BY <1>6, <2>1
<1>9. Fresh(I) = CHOOSE g \in [I -> Free] : Takes(g)
    BY DEF Fresh
<1> HIDE DEF Takes
<1>10. Fresh(I) \in [I -> Free] /\ Takes(Fresh(I))
    BY <1>7, <1>8, <1>9
<1> QED
    BY <1>10 DEF Takes

LEMMA FirstOfFree == Free # {} => FirstFree \in Free
<1>1. Free \in SUBSET Nat
    BY DalAssumption DEF DalAssumption, Free
<1> QED
    BY <1>1, Least DEF FirstFree

\* What is left when fewer are given than there are has a first one too.
LEMMA OneMoreIsFree ==
    ASSUME NEW I \in SUBSET Ids, Cardinality(I) < Cardinality(Free), NEW f \in [I -> Free]
    PROVE  \E e \in Free \ {f[i] : i \in I} : \A g \in Free \ {f[i] : i \in I} : e <= g
<1> DEFINE T == {f[i] : i \in I}
<1>1. IsFiniteSet(I) /\ IsFiniteSet(Free) /\ Free \in SUBSET Nat
    BY FS_Subset, DalAssumption DEF DalAssumption, Free
<1>2. f \in Surjection(I, T)
    BY DEF Surjection
<1>3. IsFiniteSet(T) /\ Cardinality(T) <= Cardinality(I)
    BY <1>1, <1>2, FS_Surjection
<1>4. Cardinality(T) \in Nat /\ Cardinality(I) \in Nat /\ Cardinality(Free) \in Nat
    BY <1>1, <1>3, FS_CardinalityType
<1>5. Free # T
    BY <1>3, <1>4
<1>6. Free \ T # {}
    BY <1>5
<1>7. Free \ T \in SUBSET Nat
    BY <1>1
<1> HIDE DEF T
<1>8. \E e \in Free \ T : \A g \in Free \ T : e <= g
    BY <1>6, <1>7, Least
<1> QED
    BY <1>8 DEF T

-----------------------------------------------------------------------------
(* Calls and their frames.                                                   *)

\* Objects and DALs are added, and the DALs that there were keep their names.
Grows(P, D, Q, E) ==
    /\ P \subseteq Q /\ Made(D) \subseteq Made(E)
    /\ \A d \in Made(D) : E[d].id = D[d].id

\* What is right in one state stays right when objects and DALs are added.
LEMMA FrameGrows ==
    \A f, P, D, Q, E, op : Grows(P, D, Q, E) /\ FrameOK(f, P, D, op) => FrameOK(f, Q, E, op)
<1> SUFFICES ASSUME NEW f, NEW P, NEW D, NEW Q, NEW E, NEW op, Grows(P, D, Q, E), FrameOK(f, P, D, op)
             PROVE  FrameOK(f, Q, E, op)
    OBVIOUS
<1>1. f.dal \in Made(E) /\ f.todo \subseteq Made(E) /\ f.val \subseteq Q /\ E[f.dal].id = D[f.dal].id
    BY DEF Grows, FrameOK
<1> QED
    BY <1>1 DEF Grows, FrameOK

LEMMA WaitingGrows ==
    \A s, P, D, Q, E, op : Grows(P, D, Q, E) /\ WaitingOK(s, P, D, op) => WaitingOK(s, Q, E, op)
    BY FrameGrows DEF WaitingOK

LEMMA CallGrows ==
    \A c, P, D, Q, E : Grows(P, D, Q, E) /\ CallOK(c, P, D) => CallOK(c, Q, E)
<1> SUFFICES ASSUME NEW c, NEW P, NEW D, NEW Q, NEW E, Grows(P, D, Q, E), CallOK(c, P, D)
             PROVE  CallOK(c, Q, E)
    OBVIOUS
<1>1. StackOK(c.stack, Q, E, c.op)
    BY FrameGrows, WaitingGrows DEF CallOK, StackOK
<1>2. DoneSet(P, D, c.op) \subseteq DoneSet(Q, E, c.op)
    BY DEF Grows, DoneSet
<1>3. c.done \in [Ids -> DoneSet(Q, E, c.op)]
    <2> DEFINE A == DoneSet(P, D, c.op)
               B == DoneSet(Q, E, c.op)
    <2>1. c.done \in [Ids -> A] /\ A \subseteq B
        BY <1>2 DEF CallOK
    <2> HIDE DEF A, B
    <2>2. c.done \in [Ids -> B]
        BY <2>1
    <2> QED
        BY <2>2 DEF B
<1> QED
    BY <1>1, <1>3 DEF CallOK

\* Frames that wait are a stack, and so is a frame on top of them ...
LEMMA WaitingIsStack ==
    \A s, P, D, op : WaitingOK(s, P, D, op) => StackOK(s, P, D, op) /\ s \in Seq(Frame)
<1> SUFFICES ASSUME NEW s, NEW P, NEW D, NEW op, WaitingOK(s, P, D, op), s # <<>>
             PROVE  StackOK(s, P, D, op)
    BY DEF WaitingOK, StackOK
<1>1. s \in Seq(Frame) /\ Len(s) \in Nat /\ Len(s) >= 1 /\ Head(s) = s[1]
    BY DEF WaitingOK
<1>2. /\ Tail(s) \in Seq(Frame)
      /\ \A n \in 1..Len(Tail(s)) : n + 1 \in 1..Len(s) /\ Tail(s)[n] = s[n + 1]
    BY <1>1
<1>3. FrameOK(Head(s), P, D, op)
    BY <1>1 DEF WaitingOK
<1>4. \A n \in 1..Len(Tail(s)) : FrameOK(Tail(s)[n], P, D, op) /\ Tail(s)[n].mode = "relate"
    BY <1>2 DEF WaitingOK
<1> QED
    BY <1>2, <1>3, <1>4 DEF StackOK, WaitingOK

LEMMA OnTop ==
    \A f, s, P, D, op :
        FrameOK(f, P, D, op) /\ WaitingOK(s, P, D, op) =>
        StackOK(<<f>> \o s, P, D, op) /\ <<f>> \o s \in Seq(Frame)
<1> SUFFICES ASSUME NEW f, NEW s, NEW P, NEW D, NEW op, FrameOK(f, P, D, op), WaitingOK(s, P, D, op)
             PROVE  StackOK(<<f>> \o s, P, D, op) /\ <<f>> \o s \in Seq(Frame)
    OBVIOUS
<1>1. f \in Frame /\ s \in Seq(Frame)
    BY DEF FrameOK, WaitingOK
<1>2. <<f>> \o s \in Seq(Frame) /\ Head(<<f>> \o s) = f /\ Tail(<<f>> \o s) = s
    BY <1>1
<1> QED
    BY <1>2 DEF StackOK

\* ... which may wait in turn.
LEMMA WaitsInTurn ==
    \A f, s, P, D, op :
        FrameOK(f, P, D, op) /\ f.mode = "relate" /\ WaitingOK(s, P, D, op) => WaitingOK(<<f>> \o s, P, D, op)
<1> SUFFICES ASSUME NEW f, NEW s, NEW P, NEW D, NEW op,
                    FrameOK(f, P, D, op), f.mode = "relate", WaitingOK(s, P, D, op)
             PROVE  WaitingOK(<<f>> \o s, P, D, op)
    OBVIOUS
<1>1. f \in Frame /\ s \in Seq(Frame)
    BY DEF FrameOK, WaitingOK
<1>2. /\ <<f>> \o s \in Seq(Frame)
      /\ \A n \in 1..Len(<<f>> \o s) :
            (<<f>> \o s)[n] = IF n = 1 THEN f ELSE s[n - 1]
      /\ \A n \in 1..Len(<<f>> \o s) : n = 1 \/ n - 1 \in 1..Len(s)
    BY <1>1
<1> HIDE DEF FrameOK
<1>3. ASSUME NEW n \in 1..Len(<<f>> \o s)
      PROVE  FrameOK((<<f>> \o s)[n], P, D, op) /\ (<<f>> \o s)[n].mode = "relate"
    <2>1. CASE n = 1
        BY <1>2, <2>1
    <2>2. CASE n # 1
        BY <1>2, <2>2 DEF WaitingOK
    <2> QED
        BY <2>1, <2>2
<1> QED
    BY <1>2, <1>3 DEF WaitingOK

\* The frame on top of a running call, and those that wait for it
LEMMA TopOfStack ==
    ASSUME RefInv, ~Idle
    PROVE  /\ FrameOK(Top, Stores(db), dal, call.op)
           /\ WaitingOK(Tail(call.stack), Stores(db), dal, call.op)
           /\ Top \in Frame /\ Top.dal \in Dals /\ dal[Top.dal] \in DalObject /\ Name(Top.dal) \in Ids
<1>1. /\ FrameOK(Top, Stores(db), dal, call.op)
      /\ WaitingOK(Tail(call.stack), Stores(db), dal, call.op)
    BY DEF RefInv, CallOK, StackOK, Idle, Top
<1>2. Top \in Frame /\ Top.dal \in Made(dal) /\ Top.dal \in Dals
    BY <1>1 DEF FrameOK, Made
<1>3. dal[Top.dal] \in DalObject
    BY <1>2 DEF RefInv, DalsOK, DalOK
<1> QED
    BY <1>1, <1>2, <1>3 DEF Name, DalObject

\* A call that goes on with another stack, or one more result
LEMMA CallGoesOn ==
    \A c, P, D, s :
        CallOK(c, P, D) /\ s \in Seq(Frame) /\ StackOK(s, P, D, c.op) => CallOK([c EXCEPT !.stack = s], P, D)
<1> SUFFICES ASSUME NEW c, NEW P, NEW D, NEW s \in Seq(Frame), CallOK(c, P, D), StackOK(s, P, D, c.op)
             PROVE  CallOK([c EXCEPT !.stack = s], P, D)
    OBVIOUS
<1> DEFINE e == [c EXCEPT !.stack = s]
<1>1. c \in CallSet /\ c.done \in [Ids -> DoneSet(P, D, c.op)]
    BY DEF CallOK
<1>2. e \in CallSet /\ e.stack = s /\ e.op = c.op /\ e.done = c.done
    BY <1>1 DEF CallSet
<1> HIDE DEF e
<1>3. CallOK(e, P, D)
    BY <1>1, <1>2 DEF CallOK
<1> QED
    BY <1>3 DEF e

LEMMA CallHasResult ==
    \A c, P, D, i, x :
        CallOK(c, P, D) /\ P \subseteq Ids /\ i \in Ids /\ x \in DoneSet(P, D, c.op) =>
        CallOK([c EXCEPT !.done[i] = x], P, D)
<1> SUFFICES ASSUME NEW c, NEW P \in SUBSET Ids, NEW D, NEW i \in Ids, NEW x \in DoneSet(P, D, c.op), CallOK(c, P, D)
             PROVE  CallOK([c EXCEPT !.done[i] = x], P, D)
    OBVIOUS
<1> DEFINE e == [c EXCEPT !.done[i] = x]
           A == DoneSet(P, D, c.op)
<1>1. c \in CallSet /\ c.done \in [Ids -> A]
    BY DEF CallOK
<1>2. A \subseteq Ids \cup Dals \cup {None}
    BY DEF DoneSet, Made
<1>3. x \in A
    OBVIOUS
<1> HIDE DEF A
<1>4. [c.done EXCEPT ![i] = x] \in [Ids -> A] /\ [c.done EXCEPT ![i] = x] \in [Ids -> Ids \cup Dals \cup {None}]
    BY <1>1, <1>2, <1>3
<1>5. e \in CallSet /\ e.stack = c.stack /\ e.op = c.op /\ e.done = [c.done EXCEPT ![i] = x]
    BY <1>1, <1>4 DEF CallSet
<1> HIDE DEF e
<1>6. CallOK(e, P, D)
    BY <1>4, <1>5 DEF CallOK, A
<1> QED
    BY <1>6 DEF e

-----------------------------------------------------------------------------
(* The DALs and the cache.                                                   *)

LEMMA AliveAreMade == Alive = Made(dal) /\ Free = Dals \ Made(dal) /\ Present = Stores(db)
    BY DEF Alive, Free, Made, Present, Stores

LEMMA NoneIsNoRecord == None \notin DalObject /\ None \notin Object /\ None \notin Ids \cup Dals
    BY StoredAssumption, DalAssumption DEF StoredAssumption, DalAssumption

\* A DAL stays right when objects and DALs are added ...
LEMMA DalGrows ==
    \A o, P, M, Q, N : P \subseteq Q /\ M \subseteq N /\ DalOK(o, P, M) => DalOK(o, Q, N)
    BY DEF DalOK

\* ... and one DAL may be made or changed.
LEMMA OneDalChanges ==
    \A D, P, d, o :
        DalsOK(D, P) /\ d \in Dals /\ DalOK(o, P, Made(D) \cup {d}) =>
        LET E == [D EXCEPT ![d] = o]
        IN  DalsOK(E, P) /\ Made(E) = Made(D) \cup {d} /\ E \in [Dals -> DalObject \cup {None}]
<1> SUFFICES ASSUME NEW D, NEW P, NEW d \in Dals, NEW o, DalsOK(D, P), DalOK(o, P, Made(D) \cup {d})
             PROVE  LET E == [D EXCEPT ![d] = o]
                    IN  DalsOK(E, P) /\ Made(E) = Made(D) \cup {d} /\ E \in [Dals -> DalObject \cup {None}]
    OBVIOUS
<1> DEFINE E == [D EXCEPT ![d] = o]
<1>1. D \in [Dals -> DalObject \cup {None}] /\ o \in DalObject
    BY DEF DalsOK, DalOK
<1>2. E \in [Dals -> DalObject \cup {None}] /\ \A e \in Dals : E[e] = IF e = d THEN o ELSE D[e]
    BY <1>1
<1> HIDE DEF E
<1>3. Made(E) = Made(D) \cup {d}
    BY <1>1, <1>2, NoneIsNoRecord DEF Made
<1>4. ASSUME NEW e \in Made(E)
      PROVE  DalOK(E[e], P, Made(E))
    <2>1. CASE e = d
        BY <1>2, <1>3, <2>1
    <2>2. CASE e # d
        <3>1. e \in Made(D) /\ E[e] = D[e] /\ e \in Dals
            BY <1>2, <1>3, <2>2 DEF Made
        <3>2. DalOK(D[e], P, Made(D))
            BY <3>1 DEF DalsOK
        <3> QED
            BY <1>3, <3>1, <3>2, DalGrows
    <2> QED
        BY <2>1, <2>2
<1>5. DalsOK(E, P)
    BY <1>2, <1>4 DEF DalsOK
<1> QED
    BY <1>2, <1>3, <1>5 DEF E

\* as_dal: the handles of a DAL that was just read are of objects that exist.
LEMMA ReadDal ==
    ASSUME RefInv, NEW i \in Stores(db), NEW M
    PROVE  DalOK(as_dal(i), Stores(db), M)
<1>1. db[i] \in Object /\ i \in Ids /\ db[i].rel \subseteq Stores(db)
    BY DEF RefInv, DbOK, Stores
<1>2. \A h \in getitem(i) : h \in Handle /\ h.id \in Stores(db)
    <2>1. \A j \in db[i].rel : j \in Ids /\ j \in Stores(db)
        BY <1>1 DEF Stores
    <2>2. ASSUME NEW h \in getitem(i)
          PROVE  h \in Handle /\ h.id \in Stores(db)
        <3>1. PICK j \in db[i].rel : h = [id |-> j, alive |-> TRUE]
            BY DEF getitem
        <3>2. j \in Ids /\ j \in Stores(db)
            BY <2>1
        <3> QED
            BY <3>1, <3>2 DEF Handle
    <2> QED
        BY <2>2
<1>3. NewDal(i) \in DalObject /\ NewDal(i).rel = {}
    BY <1>1 DEF NewDal, DalObject
<1>4. db[i].attr \in Values /\ getitem(i) \in SUBSET Handle
    BY <1>1, <1>2 DEF Object
<1>5. /\ as_dal(i) \in DalObject /\ as_dal(i).rel = {} /\ as_dal(i).lazy = getitem(i)
    BY <1>3, <1>4 DEF as_dal, DalObject
<1> QED
    BY <1>2, <1>5 DEF DalOK

\* When objects are given free DALs, these DALs are right and so is the cache that
\* has entered them; the other DALs are as they were.
LEMMA DalsAreRead ==
    ASSUME RefInv, NEW I \in SUBSET Stores(db), NEW f \in [I -> Free]
    PROVE  /\ DalsOK(WithDals(f), Stores(db))
           /\ Made(WithDals(f)) = Made(dal) \cup {f[i] : i \in I}
           /\ \A d \in Made(dal) : WithDals(f)[d] = dal[d]
           /\ CacheOK(Cached(f), WithDals(f))
<1> DEFINE W == WithDals(f)
           T == {f[i] : i \in I}
           of(d) == CHOOSE i \in I : f[i] = d
<1>1. DOMAIN f = I /\ T \subseteq Free
    OBVIOUS
<1>2. \A d \in Dals : W[d] = IF d \in T THEN as_dal(of(d)) ELSE dal[d]
    BY <1>1 DEF WithDals
<1>3. \A d \in T : of(d) \in I
    OBVIOUS
<1>4. W = [d \in Dals |-> W[d]]
    BY DEF WithDals
<1>5. dal \in [Dals -> DalObject \cup {None}] /\ \A d \in Made(dal) : DalOK(dal[d], Stores(db), Made(dal))
    BY DEF RefInv, DalsOK
<1>6. T \subseteq Dals \ Made(dal)
    BY <1>1, AliveAreMade
<1> HIDE DEF W, T, of
<1>7. \A M : \A d \in T : DalOK(as_dal(of(d)), Stores(db), M)
    BY <1>3, ReadDal
<1>8. \A d \in T : as_dal(of(d)) \in DalObject
    BY <1>7 DEF DalOK
<1>9. W \in [Dals -> DalObject \cup {None}]
    <2>1. \A d \in Dals : W[d] \in DalObject \cup {None}
        BY <1>2, <1>5, <1>8
    <2> QED
        BY <1>4, <2>1
<1>10. Made(W) = Made(dal) \cup T
    BY <1>2, <1>6, <1>8, NoneIsNoRecord DEF Made
<1>11. \A d \in Made(dal) : W[d] = dal[d]
    BY <1>2, <1>6 DEF Made
<1>12. ASSUME NEW d \in Made(W)
       PROVE  DalOK(W[d], Stores(db), Made(W))
    <2>1. CASE d \in T
        BY <1>2, <1>6, <1>7, <2>1
    <2>2. CASE d \in Made(dal)
        BY <1>5, <1>10, <1>11, <2>2, DalGrows
    <2> QED
        BY <1>10, <2>1, <2>2
<1>13. DalsOK(W, Stores(db))
    BY <1>9, <1>12 DEF DalsOK
<1>14. CacheOK(Cached(f), W)
    <2>1. cache \in [Classes -> [Ids -> Made(dal) \cup {None}]]
        BY DEF RefInv, CacheOK
    <2>2. \A i \in DOMAIN f : f[i] \in Made(W)
        BY <1>1, <1>10 DEF T
    <2>3. \A c \in Classes, i \in Ids : cache[c][i] \in Made(W) \cup {None}
        BY <1>10, <2>1
    <2> DEFINE V == Made(W) \cup {None}
    <2>4. \A c \in Classes, i \in Ids :
              (IF i \in DOMAIN f /\ c \in OksTypes[ClassOf[i]] THEN f[i] ELSE cache[c][i]) \in V
        BY <2>2, <2>3
    <2> HIDE DEF V
    <2>5. Cached(f) \in [Classes -> [Ids -> V]]
        BY <2>4 DEF Cached
    <2> QED
        BY <2>5 DEF CacheOK, V
<1> QED
    BY <1>10, <1>11, <1>13, <1>14 DEF W, T

\* Their relationships are not read yet.
LEMMA NewlyRead ==
    ASSUME NEW f, NEW e \in Dals, WithDals(f)[e] # None, dal[e] = None
    PROVE  WithDals(f)[e].rel = {}
<1>1. \A i : as_dal(i).rel = {}
    BY DEF as_dal, NewDal
<1>2. \E i : WithDals(f)[e] = as_dal(i)
    BY DEF WithDals
<1> QED
    BY <1>1, <1>2

\* A cache of the DALs there are is one of those there will be.
LEMMA CacheGrows ==
    \A k, D, E : CacheOK(k, D) /\ Made(D) \subseteq Made(E) => CacheOK(k, E)
<1> SUFFICES ASSUME NEW k, NEW D, NEW E, CacheOK(k, D), Made(D) \subseteq Made(E)
             PROVE  CacheOK(k, E)
    OBVIOUS
<1> DEFINE A == Made(D) \cup {None}
           B == Made(E) \cup {None}
<1>1. k \in [Classes -> [Ids -> A]] /\ A \subseteq B
    BY DEF CacheOK
<1> HIDE DEF A, B
<1>2. k \in [Classes -> [Ids -> B]]
    BY <1>1
<1> QED
    BY <1>2 DEF CacheOK, B

\* The end of a call enters one DAL that exists.
LEMMA EnteringOne ==
    ASSUME NEW D, CacheOK(cache, D), NEW e \in Made(D), NEW i
    PROVE  CacheOK(Cached([j \in {i} |-> e]), D)
<1> DEFINE g == [j \in {i} |-> e]
           V == Made(D) \cup {None}
<1>1. cache \in [Classes -> [Ids -> V]]
    BY DEF CacheOK
<1>2. e \in V /\ \A j \in DOMAIN g : g[j] = e
    OBVIOUS
<1> HIDE DEF g, V
<1>3. \A c \in Classes, j \in Ids :
          (IF j \in DOMAIN g /\ c \in OksTypes[ClassOf[j]] THEN g[j] ELSE cache[c][j]) \in V
    BY <1>1, <1>2
<1>4. Cached(g) \in [Classes -> [Ids -> V]]
    BY <1>3 DEF Cached
<1> QED
    BY <1>4 DEF CacheOK, V, g

-----------------------------------------------------------------------------
(* Reading a relationship.                                                   *)

\* DALs D, a cache k and changed DALs q that may follow the present ones while
\* the database stays as it is
MayFollow(D, k, q) ==
    /\ DalsOK(D, Stores(db))
    /\ Grows(Stores(db), dal, Stores(db), D)
    /\ CacheOK(k, D)
    /\ q \subseteq Made(D)

\* The objects a relationship loads are there: a handle that is not dead is of an
\* object of the database.
LEMMA LoadedExist ==
    ASSUME RefInv, NEW d \in Alive
    PROVE  /\ ToLoad(d) \in SUBSET Stores(db)
           /\ dal[d] \in DalObject /\ DalOK(dal[d], Stores(db), Made(dal))
           /\ \A h \in HandlesOf(d) : h.id \in Ids
<1>1. DalOK(dal[d], Stores(db), Made(dal))
    BY AliveAreMade DEF RefInv, DalsOK
<1>2. dal[d] \in DalObject
    BY <1>1 DEF DalOK
<1>3. \A h \in HandlesOf(d) : h \in Handle /\ (h.alive => h.id \in Stores(db))
    BY <1>1, <1>2 DEF HandlesOf, DalOK, DalObject
<1>4. \A h \in HandlesOf(d) : h.id \in Ids
    BY <1>3 DEF Handle
<1>5. ToLoad(d) \subseteq Stores(db)
    BY <1>3 DEF ToLoad
<1> QED
    BY <1>1, <1>2, <1>4, <1>5

\* The DAL d of DALs D gets a relationship R in place of its handles.
WithRelation(D, d, R) == [D EXCEPT ![d].rel = R, ![d].lazy = None]

LEMMA RelationIsSet ==
    \A D, P, d, R :
        DalsOK(D, P) /\ d \in Made(D) /\ R \in SUBSET Made(D) =>
        /\ DalsOK(WithRelation(D, d, R), P)
        /\ Made(WithRelation(D, d, R)) = Made(D)
        /\ Grows(P, D, P, WithRelation(D, d, R))
<1> SUFFICES ASSUME NEW D, NEW P, NEW d \in Made(D), NEW R \in SUBSET Made(D), DalsOK(D, P)
             PROVE  /\ DalsOK(WithRelation(D, d, R), P)
                    /\ Made(WithRelation(D, d, R)) = Made(D)
                    /\ Grows(P, D, P, WithRelation(D, d, R))
    OBVIOUS
<1> DEFINE o == [D[d] EXCEPT !.rel = R, !.lazy = None]
           E == [D EXCEPT ![d] = o]
<1>1. D[d] \in DalObject /\ d \in Dals /\ D \in [Dals -> DalObject \cup {None}]
    BY DEF DalsOK, DalOK, Made
<1>2. o \in DalObject /\ o.rel = R /\ o.lazy = None /\ o.id = D[d].id
    BY <1>1 DEF DalObject, Made
<1>3. DalOK(o, P, Made(D) \cup {d})
    BY <1>2 DEF DalOK
<1>4. \A e \in Made(D) : E[e].id = D[e].id
    BY <1>1, <1>2 DEF Made
<1>5. WithRelation(D, d, R) = E
    BY <1>1 DEF WithRelation, DalObject
<1> HIDE DEF o
<1>6. DalsOK(E, P) /\ Made(E) = Made(D) \cup {d}
    BY <1>1, <1>3, OneDalChanges
<1> HIDE DEF E
<1>7. Made(E) = Made(D) /\ Grows(P, D, P, E)
    BY <1>4, <1>6 DEF Grows
<1> QED
    BY <1>5, <1>6, <1>7

\* Every handle becomes a DAL that exists: the one cached under its name, or a new
\* one; a broken handle takes that of another handle of the name.
LEMMA ReadingFollows ==
    ASSUME RefInv, NEW d \in Alive, ReadRelation(d)
    PROVE  MayFollow(dal', cache', dirty') /\ dal'[d].rel \subseteq Made(dal')
<1> DEFINE I == ToLoad(d)
           f == Fresh(I)
           W == WithDals(f)
           after == Cached(f)
           R == {after[ClassOf[h.id]][h.id] : h \in HandlesOf(d)}
<1>1. /\ {h.id : h \in Broken(d)} \subseteq I
      /\ Cardinality(I) <= Cardinality(Free)
      /\ cache' = after
      /\ dal' = [W EXCEPT ![d].rel = R, ![d].lazy = None]
      /\ dirty' \subseteq dirty \cup {d}
    BY DEF ReadRelation
<1>2. I \in SUBSET Stores(db) /\ \A h \in HandlesOf(d) : h.id \in Ids
    BY LoadedExist
<1>3. f \in [I -> Free]
    BY <1>1, <1>2, FreshOfFree DEF Stores
<1> HIDE DEF I, f, W, after
<1>4. /\ DalsOK(W, Stores(db))
      /\ Made(W) = Made(dal) \cup {f[i] : i \in I}
      /\ \A e \in Made(dal) : W[e] = dal[e]
      /\ CacheOK(after, W)
    BY <1>2, <1>3, DalsAreRead DEF W, after
<1>5. ASSUME NEW h \in HandlesOf(d)
      PROVE  after[ClassOf[h.id]][h.id] \in Made(W)
    <2>1. h.id \in Ids /\ ClassOf[h.id] \in Classes /\ ClassOf[h.id] \in OksTypes[ClassOf[h.id]]
        BY <1>2, OwnClass
    <2>2. after[ClassOf[h.id]][h.id] = IF h.id \in DOMAIN f THEN f[h.id] ELSE cache[ClassOf[h.id]][h.id]
        BY <2>1 DEF after, Cached
    <2>3. h.id \in I \/ IsCached(h.id)
        BY <1>1 DEF Broken, ToLoad, I
    <2>4. DOMAIN f = I
        BY <1>3
    <2>5. CASE h.id \in I
        BY <1>4, <2>2, <2>4, <2>5
    <2>6. CASE h.id \notin I
        <3>1. cache[ClassOf[h.id]][h.id] # None
            BY <2>3, <2>6 DEF IsCached
        <3>2. cache[ClassOf[h.id]][h.id] \in Made(dal) \cup {None}
            BY <2>1 DEF RefInv, CacheOK
        <3> QED
            BY <1>4, <2>2, <2>4, <2>6, <3>1, <3>2
    <2> QED
        BY <2>5, <2>6
<1>6. R \in SUBSET Made(W)
    BY <1>5
<1> HIDE DEF R
<1>7. d \in Made(dal) /\ d \in Made(W)
    BY <1>4, AliveAreMade
<1> DEFINE E == WithRelation(W, d, R)
<1>8. DalsOK(E, Stores(db)) /\ Made(E) = Made(W) /\ Grows(Stores(db), W, Stores(db), E)
    <2>1. DalsOK(W, Stores(db))
        BY <1>4
    <2> QED
        BY <1>6, <1>7, <2>1, RelationIsSet
<1>9. E[d].rel \subseteq Made(E)
    BY <1>7, <1>8 DEF DalsOK, DalOK
<1> HIDE DEF E
<1>10. dal' = E
    BY <1>1 DEF E, WithRelation
<1>11. Grows(Stores(db), dal, Stores(db), E)
    BY <1>4, <1>8 DEF Grows
<1>12. CacheOK(after, E)
    BY <1>4, <1>8, CacheGrows
<1>13. dirty' \subseteq Made(E)
    BY <1>1, <1>4, <1>7, <1>8 DEF RefInv
<1> QED
    BY <1>1, <1>9, <1>10, <1>11, <1>12, <1>13, <1>8 DEF MayFollow

\* A getter that fails has entered a DAL that was not filled in: it exists, and
\* the relationship reads as empty.
LEMMA FailedReadingFollows ==
    ASSUME RefInv, NEW d \in Alive, ReadRelationFails(d)
    PROVE  /\ MayFollow(dal', cache', dirty')
           /\ dal'[d].lazy = None
           /\ \A e \in Made(dal) : dal'[e].rel = dal[e].rel /\ (e # d => dal'[e].lazy = dal[e].lazy)
           /\ \A e \in Made(dal') \ Made(dal) : dal'[e].rel = {}
<1>1. PICK h \in Broken(d), I \in SUBSET ToLoad(d) :
        /\ h.id \notin I
        /\ Cardinality(I) < Cardinality(Free)
        /\ LET f == Fresh(I)
               half == CHOOSE e \in Free \ {f[i] : i \in I} :
                          \A g \in Free \ {f[i] : i \in I} : e <= g
           IN  /\ cache' = Cached([i \in I \cup {h.id} |-> IF i = h.id THEN half ELSE f[i]])
               /\ dal' = [WithDals(f) EXCEPT ![half] = NewDal(h.id), ![d].lazy = None]
        /\ UNCHANGED dirty
    BY DEF ReadRelationFails
<1> DEFINE f == Fresh(I)
           T == {f[i] : i \in I}
           half == CHOOSE e \in Free \ T : \A g \in Free \ T : e <= g
           W == WithDals(f)
           V == [W EXCEPT ![half] = NewDal(h.id)]
           E == WithRelation(V, d, V[d].rel)
           entered == [i \in I \cup {h.id} |-> IF i = h.id THEN half ELSE f[i]]
<1>2. I \in SUBSET Stores(db) /\ h.id \in Ids /\ I \subseteq Ids
    <2>1. h \in HandlesOf(d) /\ I \subseteq ToLoad(d)
        BY DEF Broken
    <2>2. I \in SUBSET Stores(db) /\ h.id \in Ids
        BY <2>1, LoadedExist
    <2> QED
        BY <2>2 DEF Stores
<1>3. Cardinality(I) < Cardinality(Free)
    BY <1>1
<1>4. Cardinality(I) \in Nat /\ Cardinality(Free) \in Nat
    <2>1. IsFiniteSet(I) /\ IsFiniteSet(Free)
        BY <1>2, FS_Subset, DalAssumption DEF DalAssumption, Free
    <2> QED
        BY <2>1, FS_CardinalityType
<1>5. f \in [I -> Free]
    <2>1. Cardinality(I) <= Cardinality(Free)
        BY <1>3, <1>4
    <2> QED
        BY <1>2, <2>1, FreshOfFree
<1> HIDE DEF f
<1>6. half \in Free \ T
    BY <1>2, <1>3, <1>5, OneMoreIsFree
<1>7. cache' = Cached(entered) /\ dal' = [W EXCEPT ![half] = NewDal(h.id), ![d].lazy = None] /\ dirty' = dirty
    BY <1>1 DEF f
<1>8. /\ DalsOK(W, Stores(db))
      /\ Made(W) = Made(dal) \cup T
      /\ \A e \in Made(dal) : W[e] = dal[e]
      /\ CacheOK(Cached(f), W)
    BY <1>2, <1>5, DalsAreRead
<1> HIDE DEF T, half, W
<1>9. half \in Dals /\ half \notin Made(dal) /\ d \in Made(dal) /\ half # d
    BY <1>6, AliveAreMade
<1>10. DalOK(NewDal(h.id), Stores(db), Made(W) \cup {half})
    <2>1. NewDal(h.id) \in DalObject /\ NewDal(h.id).rel = {} /\ NewDal(h.id).lazy = None
        BY <1>2 DEF NewDal, DalObject
    <2> QED
        BY <2>1 DEF DalOK
<1>11. DalsOK(V, Stores(db)) /\ Made(V) = Made(W) \cup {half} /\ V \in [Dals -> DalObject \cup {None}]
    BY <1>8, <1>9, <1>10, OneDalChanges
<1>12. \A e \in Made(dal) : V[e] = dal[e]
    BY <1>8, <1>9 DEF DalsOK, Made
<1>13. d \in Made(V) /\ V[d] \in DalObject /\ V[d].rel \in SUBSET Made(V)
    BY <1>8, <1>9, <1>11 DEF DalsOK, DalOK
<1>14. dal' = E
    <2>1. dal' = [V EXCEPT ![d].lazy = None]
        BY <1>7
    <2> HIDE DEF V
    <2>2. d \in Dals
        BY <1>13 DEF Made
    <2> QED
        BY <1>11, <1>13, <2>1, <2>2 DEF DalObject, WithRelation
<1> HIDE DEF V
<1>15. DalsOK(E, Stores(db)) /\ Made(E) = Made(V) /\ Grows(Stores(db), V, Stores(db), E)
    <2>1. DalsOK(V, Stores(db))
        BY <1>11
    <2>2. d \in Made(V) /\ V[d].rel \in SUBSET Made(V)
        BY <1>13
    <2> QED
        BY <2>1, <2>2, RelationIsSet
<1> HIDE DEF E
<1>16. Grows(Stores(db), dal, Stores(db), E)
    BY <1>8, <1>11, <1>12, <1>15 DEF Grows
<1>17. CacheOK(Cached(entered), E)
    <2> DEFINE S == Made(E) \cup {None}
    <2>1. cache \in [Classes -> [Ids -> Made(dal) \cup {None}]]
        BY DEF RefInv, CacheOK
    <2>2. \A i \in DOMAIN entered : entered[i] \in S
        BY <1>5, <1>8, <1>11, <1>15 DEF T
    <2>3. \A c \in Classes, i \in Ids : cache[c][i] \in S
        BY <1>8, <1>11, <1>15, <2>1
    <2> HIDE DEF entered, S
    <2>4. \A c \in Classes, i \in Ids :
              (IF i \in DOMAIN entered /\ c \in OksTypes[ClassOf[i]] THEN entered[i] ELSE cache[c][i]) \in S
        BY <2>2, <2>3
    <2>5. Cached(entered) \in [Classes -> [Ids -> S]]
        BY <2>4 DEF Cached
    <2> QED
        BY <2>5 DEF CacheOK, S
<1>18. dirty' \subseteq Made(E)
    BY <1>7, <1>8, <1>11, <1>15 DEF RefInv
<1>19. MayFollow(dal', cache', dirty')
    BY <1>7, <1>14, <1>15, <1>16, <1>17, <1>18 DEF MayFollow
<1>20. E[d].lazy = None /\ E[d].rel = V[d].rel /\ \A e \in Dals \ {d} : E[e] = V[e]
    BY <1>9, <1>11, <1>13 DEF E, WithRelation, Made, DalObject
<1>21. \A e \in Made(dal) : E[e].rel = dal[e].rel /\ (e # d => E[e].lazy = dal[e].lazy)
    BY <1>9, <1>12, <1>20 DEF Made
<1>22. ASSUME NEW e \in Made(E) \ Made(dal)
       PROVE  E[e].rel = {}
    <2>1. e \in Dals /\ e # d /\ E[e] = V[e]
        BY <1>9, <1>20 DEF Made
    <2>2. CASE e = half
        <3>1. V[e] = NewDal(h.id)
            BY <1>8, <2>1, <2>2 DEF V, DalsOK
        <3> QED
            BY <2>1, <3>1 DEF NewDal
    <2>3. CASE e # half
        <3>1. V[e] = W[e] /\ e \in Made(W)
            BY <1>11, <1>15, <2>1, <2>3 DEF V
        <3>2. W[e].rel = {}
            BY <2>1, <3>1, NewlyRead DEF W, Made
        <3> QED
            BY <2>1, <3>1, <3>2
    <2> QED
        BY <2>2, <2>3
<1> QED
    BY <1>14, <1>19, <1>20, <1>21, <1>22

-----------------------------------------------------------------------------
(* The operations of a client.                                               *)

\* A call with no frames and no results is right in any state.
LEMMA NothingCalled ==
    ASSUME RefInv, NEW P, NEW D
    PROVE  CallOK(NoCall, P, D)
<1>1. NoCall \in CallSet
    <2>1. db \in [Ids -> Object \cup {None}] /\ <<>> \in Seq(Frame)
        BY DEF RefInv, DbOK
    <2> QED
        BY <2>1 DEF NoCall, CallSet
<1>2. NoCall.stack = <<>> /\ NoCall.done \in [Ids -> DoneSet(P, D, NoCall.op)]
    BY DEF NoCall, DoneSet
<1> QED
    BY <1>1, <1>2 DEF CallOK, StackOK

LEMMA ClientFollows ==
    ASSUME RefInv, Client, UNCHANGED db,
           DalsOK(dal', Stores(db)), CacheOK(cache', dal'), dirty' \subseteq Made(dal')
    PROVE  RefInv'
<1>1. call' = NoCall /\ db' = db
    BY DEF Client
<1>2. CallOK(call', Stores(db'), dal')
    BY <1>1, NothingCalled
<1>3. DbOK(db')
    BY <1>1 DEF RefInv
<1> QED
    BY <1>1, <1>2, <1>3 DEF RefInv

\* One DAL is made or changed; nothing else is.
LEMMA ClientChangesOne ==
    ASSUME RefInv, Client, UNCHANGED <<db, cache>>,
           NEW d \in Dals, NEW o, DalOK(o, Stores(db), Made(dal) \cup {d}),
           dal' = [dal EXCEPT ![d] = o], dirty' \subseteq Made(dal) \cup {d}
    PROVE  RefInv'
<1>1. DalsOK(dal, Stores(db)) /\ CacheOK(cache, dal)
    BY DEF RefInv
<1> DEFINE E == [dal EXCEPT ![d] = o]
<1>2. DalsOK(E, Stores(db)) /\ Made(E) = Made(dal) \cup {d}
    BY <1>1, OneDalChanges
<1> HIDE DEF E
<1>3. CacheOK(cache, E)
    BY <1>1, <1>2, CacheGrows
<1>4. dal' = E /\ cache' = cache
    BY DEF E
<1> QED
    BY <1>2, <1>3, <1>4, ClientFollows

LEMMA ConstructKeeps ==
    ASSUME RefInv, Construct
    PROVE  RefInv'
<1>1. PICK i \in Ids, v \in Assigned \cup {None}, S \in SUBSET Alive :
          dal' = [dal EXCEPT ![FirstFree] = [NewDal(i) EXCEPT !.attr = v, !.rel = S]]
    BY DEF Construct
<1>2. FirstFree \in Dals /\ FirstFree \in Free
    BY FirstOfFree DEF Construct, Free
<1> DEFINE o == [NewDal(i) EXCEPT !.attr = v, !.rel = S]
<1>3. S \subseteq Made(dal) /\ S \subseteq Dals
    BY AliveAreMade DEF Made
<1>4. o \in DalObject /\ o.rel = S /\ o.lazy = None
    BY <1>3, DalAssumption DEF DalAssumption, NewDal, DalObject
<1> HIDE DEF o
<1>5. DalOK(o, Stores(db), Made(dal) \cup {FirstFree})
    BY <1>3, <1>4 DEF DalOK
<1>6. dal' = [dal EXCEPT ![FirstFree] = o]
    BY <1>1 DEF o
<1>7. Client /\ UNCHANGED <<db, cache>> /\ dirty' \subseteq Made(dal) \cup {FirstFree}
    BY DEF Construct, RefInv
<1> QED
    BY <1>2, <1>5, <1>6, <1>7, ClientChangesOne

\* A DAL whose relationship stays, or becomes one of DALs that exist
LEMMA SettersKeep ==
    ASSUME RefInv, NEW d \in Alive,
           SetAttribute(d) \/ SetRelation(d) \/ SetId(d) \/ rename(d) \/ \E e \in Alive : copy(d, e)
    PROVE  RefInv'
<1>1. DalOK(dal[d], Stores(db), Made(dal)) /\ dal[d] \in DalObject /\ d \in Dals
    BY LoadedExist DEF Alive
<1>2. dal \in [Dals -> DalObject \cup {None}] /\ dirty \subseteq Made(dal) /\ d \in Made(dal)
    BY AliveAreMade DEF RefInv, DalsOK
<1>3. Client /\ UNCHANGED <<db, cache>> /\ dirty' \subseteq Made(dal) \cup {d}
    BY <1>2, AliveAreMade DEF SetAttribute, SetRelation, SetId, rename, copy
<1>4. \E o : DalOK(o, Stores(db), Made(dal) \cup {d}) /\ dal' = [dal EXCEPT ![d] = o]
    <2>1. CASE SetAttribute(d)
        <3>1. PICK v \in Assigned \cup {None} : dal' = [dal EXCEPT ![d].attr = v]
            BY <2>1 DEF SetAttribute
        <3> DEFINE o == [dal[d] EXCEPT !.attr = v]
        <3>2. o \in DalObject /\ o.rel = dal[d].rel /\ o.lazy = dal[d].lazy
            BY <1>1, DalAssumption DEF DalAssumption, DalObject
        <3>3. dal' = [dal EXCEPT ![d] = o]
            BY <3>1
        <3> HIDE DEF o
        <3>4. DalOK(o, Stores(db), Made(dal) \cup {d})
            BY <1>1, <3>2 DEF DalOK
        <3> QED
            BY <3>3, <3>4
    <2>2. CASE SetRelation(d)
        <3>1. PICK S \in SUBSET Alive : dal' = [dal EXCEPT ![d].rel = S, ![d].lazy = None]
            BY <2>2 DEF SetRelation
        <3> DEFINE o == [dal[d] EXCEPT !.rel = S, !.lazy = None]
        <3>2. o \in DalObject /\ o.rel = S /\ o.lazy = None
            BY <1>1 DEF DalObject, Alive
        <3>3. dal' = [dal EXCEPT ![d] = o]
            BY <1>1, <1>2, <3>1
        <3> HIDE DEF o
        <3>4. DalOK(o, Stores(db), Made(dal) \cup {d})
            BY <3>2, AliveAreMade DEF DalOK
        <3> QED
            BY <3>3, <3>4
    <2>3. CASE SetId(d)
        <3>1. PICK i \in Ids : dal' = [dal EXCEPT ![d].id = i]
            BY <2>3 DEF SetId
        <3> DEFINE o == [dal[d] EXCEPT !.id = i]
        <3>2. o \in DalObject /\ o.rel = dal[d].rel /\ o.lazy = dal[d].lazy
            BY <1>1 DEF DalObject
        <3>3. dal' = [dal EXCEPT ![d] = o]
            BY <3>1
        <3> HIDE DEF o
        <3>4. DalOK(o, Stores(db), Made(dal) \cup {d})
            BY <1>1, <3>2 DEF DalOK
        <3> QED
            BY <3>3, <3>4
    <2>4. CASE rename(d)
        <3>1. PICK i \in Ids :
                  dal' = [dal EXCEPT ![d].id = i, ![d].old = IF @ = None THEN Name(d) ELSE @]
            BY <2>4 DEF rename
        <3> DEFINE old == IF dal[d].old = None THEN Name(d) ELSE dal[d].old
                   o == [dal[d] EXCEPT !.id = i, !.old = old]
        <3>2. o \in DalObject /\ o.rel = dal[d].rel /\ o.lazy = dal[d].lazy
            BY <1>1 DEF DalObject, Name
        <3>3. dal' = [dal EXCEPT ![d] = o]
            BY <1>1, <1>2, <3>1
        <3> HIDE DEF o
        <3>4. DalOK(o, Stores(db), Made(dal) \cup {d})
            BY <1>1, <3>2 DEF DalOK
        <3> QED
            BY <3>3, <3>4
    <2>5. ASSUME NEW e \in Alive, copy(d, e)
          PROVE  \E o : DalOK(o, Stores(db), Made(dal) \cup {d}) /\ dal' = [dal EXCEPT ![d] = o]
        <3>1. dal' = [dal EXCEPT ![d].attr = dal[e].attr, ![d].rel = dal[e].rel, ![d].lazy = None]
            BY <2>5 DEF copy
        <3> DEFINE o == [dal[d] EXCEPT !.attr = dal[e].attr, !.rel = dal[e].rel, !.lazy = None]
        <3>2. DalOK(dal[e], Stores(db), Made(dal)) /\ dal[e] \in DalObject
            BY LoadedExist
        <3>3. o \in DalObject /\ o.rel = dal[e].rel /\ o.lazy = None
            BY <1>1, <3>2 DEF DalObject
        <3>4. dal' = [dal EXCEPT ![d] = o]
            BY <1>1, <1>2, <3>1
        <3> HIDE DEF o
        <3>5. DalOK(o, Stores(db), Made(dal) \cup {d})
            BY <3>2, <3>3 DEF DalOK
        <3> QED
            BY <3>4, <3>5
    <2> QED
        BY <2>1, <2>2, <2>3, <2>4, <2>5
<1>5. PICK o : DalOK(o, Stores(db), Made(dal) \cup {d}) /\ dal' = [dal EXCEPT ![d] = o]
    BY <1>4
<1> QED
    BY <1>1, <1>3, <1>5, ClientChangesOne

LEMMA ReadKeeps ==
    ASSUME RefInv, NEW d \in Alive, Read(d)
    PROVE  RefInv'
<1>1. MayFollow(dal', cache', dirty')
    BY ReadingFollows, FailedReadingFollows DEF Read
<1>2. Client /\ UNCHANGED db
    BY DEF Read
<1> QED
    BY <1>1, <1>2, ClientFollows DEF MayFollow

\* get_dal and get_dals: the objects of I get DALs.
LEMMA GettersKeep ==
    ASSUME RefInv, Client, UNCHANGED <<db, dirty>>,
           NEW I \in SUBSET Stores(db), Cardinality(I) <= Cardinality(Free),
           dal' = WithDals(Fresh(I)), cache' = Cached(Fresh(I))
    PROVE  RefInv'
<1>1. Fresh(I) \in [I -> Free]
    BY FreshOfFree DEF Stores
<1> DEFINE W == WithDals(Fresh(I))
<1>2. DalsOK(W, Stores(db)) /\ Made(dal) \subseteq Made(W) /\ CacheOK(Cached(Fresh(I)), W)
    BY <1>1, DalsAreRead
<1>3. dirty' \subseteq Made(W)
    BY <1>2 DEF RefInv
<1> HIDE DEF W
<1>4. dal' = W
    BY DEF W
<1> QED
    BY <1>2, <1>3, <1>4, ClientFollows

LEMMA GetKeeps ==
    ASSUME RefInv, NEW i \in Ids, get_dal(i)
    PROVE  RefInv'
<1>1. {i} \in SUBSET Stores(db) /\ Free # {}
    BY AliveAreMade DEF get_dal
<1>2. Cardinality({i}) <= Cardinality(Free)
    <2>1. IsFiniteSet(Free)
        BY FS_Subset, DalAssumption DEF DalAssumption, Free
    <2>2. Cardinality(Free) \in Nat /\ Cardinality(Free) # 0 /\ Cardinality({i}) = 1
        BY <1>1, <2>1, FS_CardinalityType, FS_EmptySet, FS_Singleton
    <2> QED
        BY <2>2
<1>3. Client /\ UNCHANGED <<db, dirty>> /\ dal' = WithDals(Fresh({i})) /\ cache' = Cached(Fresh({i}))
    BY DEF get_dal
<1> QED
    BY <1>1, <1>2, <1>3, GettersKeep

LEMMA GetManyKeeps ==
    ASSUME RefInv, NEW C, get_dals(C)
    PROVE  RefInv'
<1> DEFINE I == {i \in Present : \E c \in C : c \in OksTypes[ClassOf[i]] /\ cache[c][i] = None}
<1>1. I \in SUBSET Stores(db)
    BY AliveAreMade
<1>2. /\ Client /\ UNCHANGED <<db, dirty>> /\ Cardinality(I) <= Cardinality(Free)
      /\ dal' = WithDals(Fresh(I)) /\ cache' = Cached(Fresh(I))
    BY DEF get_dals
<1> HIDE DEF I
<1> QED
    BY <1>1, <1>2, GettersKeep

\* destroy_dal: the database drops what refers to the object, the cache its name,
\* and the handles of it are dead, so none is left that is alive and of nothing.
LEMMA DestroyKeeps ==
    ASSUME RefInv, NEW d \in Alive, destroy_dal(d)
    PROVE  RefInv'
<1> DEFINE i == Name(d)
           Dead(h) == IF h.id = i THEN [h EXCEPT !.alive = FALSE] ELSE h
<1>1. DbOK(db) /\ DalsOK(dal, Stores(db)) /\ CacheOK(cache, dal) /\ dirty \subseteq Made(dal)
    BY DEF RefInv
<1>2. /\ Client /\ i \notin ReadOnly
      /\ db' = [j \in Ids |-> IF j = i \/ db[j] = None THEN None ELSE [db[j] EXCEPT !.rel = @ \ {i}]]
      /\ dal' = [e \in Dals |->
                   IF e \in Alive /\ ~IsRead(e)
                   THEN [dal[e] EXCEPT !.lazy = {Dead(h) : h \in @}]
                   ELSE dal[e]]
      /\ cache' = Uncached(i)
      /\ dirty' \subseteq Made(dal)
    BY <1>1, AliveAreMade DEF destroy_dal
<1>3. Stores(db') = Stores(db) \ {i} /\ DbOK(db')
    <2>1. \A j \in Stores(db) : db[j] \in Object /\ db[j].rel \subseteq Stores(db)
        BY <1>1 DEF DbOK, Stores
    <2>2. \A j \in Ids : db'[j] = IF j = i \/ db[j] = None THEN None ELSE [db[j] EXCEPT !.rel = @ \ {i}]
        BY <1>2
    <2>3. ASSUME NEW j \in Stores(db), j # i
          PROVE  db'[j] \in Object /\ db'[j].rel = db[j].rel \ {i} /\ db'[j] # None
        <3>1. db'[j] = [db[j] EXCEPT !.rel = @ \ {i}]
            BY <2>2, <2>3 DEF Stores
        <3>2. db'[j] \in Object /\ db'[j].rel = db[j].rel \ {i}
            BY <2>1, <3>1 DEF Object
        <3> QED
            BY <3>2, NoneIsNoRecord
    <2>4. Stores(db') = Stores(db) \ {i}
        BY <2>2, <2>3 DEF Stores
    <2>5. db' \in [Ids -> Object \cup {None}]
        <3>1. \A j \in Ids : db'[j] \in Object \cup {None}
            BY <2>2, <2>3 DEF Stores
        <3> QED
            BY <1>2, <3>1
    <2>6. \A j \in Stores(db') : db'[j].rel \subseteq Stores(db')
        BY <2>1, <2>3, <2>4
    <2>7. ReadOnly \subseteq Stores(db')
        BY <1>1, <1>2, <2>4 DEF DbOK
    <2> QED
        BY <2>4, <2>5, <2>6, <2>7 DEF DbOK
<1>4. ASSUME NEW e \in Made(dal)
      PROVE  DalOK(dal'[e], Stores(db'), Made(dal))
    <2>1. DalOK(dal[e], Stores(db), Made(dal)) /\ dal[e] \in DalObject /\ e \in Dals /\ e \in Alive
        BY <1>1, AliveAreMade DEF DalsOK, DalOK, Made
    <2>2. CASE IsRead(e)
        <3>1. dal'[e] = dal[e] /\ dal[e].lazy = None
            BY <1>2, <2>1, <2>2 DEF IsRead
        <3> QED
            BY <2>1, <3>1 DEF DalOK
    <2>3. CASE ~IsRead(e)
        <3> DEFINE L == {Dead(h) : h \in dal[e].lazy}
        <3>1. dal'[e] = [dal[e] EXCEPT !.lazy = L]
            BY <1>2, <2>1, <2>3
        <3>2. dal[e].lazy \in SUBSET Handle /\ \A h \in dal[e].lazy : h.alive => h.id \in Stores(db)
            BY <2>1, <2>3 DEF IsRead, DalObject, DalOK
        <3>3. ASSUME NEW h \in dal[e].lazy
              PROVE  Dead(h) \in Handle /\ (Dead(h).alive => Dead(h).id \in Stores(db'))
            <4>1. h \in Handle /\ (h.alive => h.id \in Stores(db))
                BY <3>2
            <4>2. CASE h.id = i
                BY <4>1, <4>2 DEF Handle
            <4>3. CASE h.id # i
                BY <1>3, <4>1, <4>3
            <4> QED
                BY <4>2, <4>3
        <3>4. L \in SUBSET Handle /\ \A h \in L : h.alive => h.id \in Stores(db')
            BY <3>3
        <3> HIDE DEF L
        <3>5. dal'[e] \in DalObject /\ dal'[e].rel = dal[e].rel /\ dal'[e].lazy = L
            BY <2>1, <3>1, <3>4 DEF DalObject
        <3> QED
            BY <2>1, <3>4, <3>5 DEF DalOK
    <2> QED
        BY <2>2, <2>3
<1> HIDE DEF Dead, i
<1>5. Made(dal') = Made(dal)
    <2>1. \A e \in Dals \ Made(dal) : dal'[e] = None
        BY <1>2, AliveAreMade DEF Made
    <2>2. \A e \in Made(dal) : dal'[e] # None /\ e \in Dals
        BY <1>4, NoneIsNoRecord DEF DalOK, Made
    <2> QED
        BY <2>1, <2>2 DEF Made
<1>6. DalsOK(dal', Stores(db'))
    <2>1. \A e \in Dals : dal'[e] \in DalObject \cup {None}
        BY <1>4, <1>5 DEF DalOK, Made
    <2>2. dal' \in [Dals -> DalObject \cup {None}]
        BY <1>2, <2>1
    <2> QED
        BY <1>4, <1>5, <2>2 DEF DalsOK
<1>7. CacheOK(cache', dal')
    <2> DEFINE V == Made(dal) \cup {None}
    <2>1. cache \in [Classes -> [Ids -> V]] /\ None \in V
        BY <1>1 DEF CacheOK
    <2> HIDE DEF V
    <2>2. \A c \in Classes :
              (IF c \in OksTypes[ClassOf[i]] THEN [cache[c] EXCEPT ![i] = None] ELSE cache[c]) \in [Ids -> V]
        BY <2>1
    <2>3. cache' \in [Classes -> [Ids -> V]]
        BY <1>2, <2>2 DEF Uncached
    <2> QED
        BY <1>5, <2>3 DEF CacheOK, V
<1>8. CallOK(call', Stores(db'), dal')
    BY <1>2, NothingCalled DEF Client
<1>9. dirty' \subseteq Made(dal')
    BY <1>2, <1>5
<1> QED
    BY <1>3, <1>6, <1>7, <1>8, <1>9 DEF RefInv

\* A call starts with one frame, of the DAL it is made for.
LEMMA NewFrameOK ==
    \A d, P, D, op : d \in Made(D) => FrameOK(NewFrame(d), P, D, op) /\ WaitingOK(<<>>, P, D, op)
<1> SUFFICES ASSUME NEW d, NEW P, NEW D, NEW op, d \in Made(D)
             PROVE  FrameOK(NewFrame(d), P, D, op) /\ WaitingOK(<<>>, P, D, op)
    OBVIOUS
<1>1. NewFrame(d) \in Frame
    BY DEF NewFrame, Frame, Made
<1>2. FrameOK(NewFrame(d), P, D, op)
    BY <1>1 DEF NewFrame, FrameOK
<1>3. WaitingOK(<<>>, P, D, op)
    BY DEF WaitingOK
<1> QED
    BY <1>2, <1>3

LEMMA StartKeeps ==
    ASSUME RefInv, NEW d \in Alive, NEW op \in Storing \cup {"getall"}, Start(op, d)
    PROVE  RefInv'
<1>1. PICK ignore \in BOOLEAN, recurse \in BOOLEAN :
          call' = [NoCall EXCEPT !.op = op, !.root = d, !.ignore = ignore,
                                 !.recurse = recurse, !.stack = <<NewFrame(d)>>]
    BY DEF Start
<1>2. UNCHANGED <<db, dal, cache, dirty>>
    BY DEF Start
<1>3. NoCall \in CallSet
    BY NothingCalled DEF CallOK
<1>4. d \in Dals /\ d \in Made(dal)
    BY AliveAreMade DEF Made
<1>5. <<NewFrame(d)>> \in Seq(Frame) /\ StackOK(<<NewFrame(d)>>, Stores(db), dal, op)
    <2>1. FrameOK(NewFrame(d), Stores(db), dal, op) /\ WaitingOK(<<>>, Stores(db), dal, op)
        BY <1>4, NewFrameOK
    <2>2. NewFrame(d) \in Frame
        BY <2>1 DEF FrameOK
    <2>3. Head(<<NewFrame(d)>>) = NewFrame(d) /\ Tail(<<NewFrame(d)>>) = <<>>
        OBVIOUS
    <2> QED
        BY <2>1, <2>2, <2>3 DEF StackOK
<1>6. call' \in CallSet /\ call'.op = op /\ call'.stack = <<NewFrame(d)>> /\ call'.done = [i \in Ids |-> None]
    BY <1>1, <1>3, <1>4, <1>5 DEF CallSet, NoCall
<1>7. call'.done \in [Ids -> DoneSet(Stores(db), dal, op)]
    BY <1>6 DEF DoneSet
<1>8. CallOK(call', Stores(db), dal)
    BY <1>5, <1>6, <1>7 DEF CallOK
<1> QED
    BY <1>2, <1>8 DEF RefInv

LEMMA ClientKeepsRefs ==
    ASSUME RefInv, ClientNext
    PROVE  RefInv'
    BY ConstructKeeps, SettersKeep, ReadKeeps, DestroyKeeps, StartKeeps, GetKeeps, GetManyKeeps DEF ClientNext

-----------------------------------------------------------------------------
(* The pieces of a call.                                                     *)

\* A state that differs from the present one in the call
LEMMA OnlyCall ==
    ASSUME RefInv, UNCHANGED <<db, dal, cache>>, dirty' \subseteq Made(dal), CallOK(call', Stores(db), dal)
    PROVE  RefInv'
    BY DEF RefInv

\* An error ends the call and leaves what was done.
LEMMA RaisedCall ==
    ASSUME RefInv, Raise, NEW D, Grows(Stores(db), dal, Stores(db), D)
    PROVE  CallOK(call', Stores(db), D)
<1>1. call \in CallSet /\ call.done \in [Ids -> DoneSet(Stores(db), D, call.op)]
    BY CallGrows DEF RefInv, CallOK
<1>2. /\ call' \in CallSet /\ call'.stack = <<>>
      /\ call'.done = call.done /\ call'.op = call.op
    <2> DEFINE none == <<>>
    <2>1. none \in Seq(Frame) /\ call' = [call EXCEPT !.stack = none, !.ok = FALSE]
        BY DEF Raise
    <2> HIDE DEF none
    <2>2. call' \in CallSet /\ call'.stack = none /\ call'.done = call.done /\ call'.op = call.op
        BY <1>1, <2>1 DEF CallSet
    <2> QED
        BY <2>2 DEF none
<1> QED
    BY <1>1, <1>2 DEF CallOK, StackOK

\* The frame on top is replaced.
LEMMA TopChanges ==
    \A f, P, D :
        RefInv /\ ~Idle /\ Grows(Stores(db), dal, P, D) /\ FrameOK(f, P, D, call.op) =>
        CallOK([call EXCEPT !.stack = WithTop(f)], P, D)
<1> SUFFICES ASSUME NEW f, NEW P, NEW D,
                    RefInv, ~Idle, Grows(Stores(db), dal, P, D), FrameOK(f, P, D, call.op)
             PROVE  CallOK([call EXCEPT !.stack = WithTop(f)], P, D)
    OBVIOUS
<1>1. WaitingOK(Tail(call.stack), P, D, call.op) /\ CallOK(call, P, D)
    BY TopOfStack, WaitingGrows, CallGrows DEF RefInv
<1>2. StackOK(WithTop(f), P, D, call.op) /\ WithTop(f) \in Seq(Frame)
    BY <1>1, OnTop DEF WithTop
<1> QED
    BY <1>1, <1>2, CallGoesOn

LEMMA Unchanged == \A P, D : Grows(P, D, P, D)
    BY DEF Grows

\* A call is made from the frame on top, which waits as f.
LEMMA CallIsMade ==
    ASSUME RefInv, ~Idle, NEW e \in Made(dal),
           NEW f, FrameOK(f, Stores(db), dal, call.op), f.mode = "relate"
    PROVE  CallOK([call EXCEPT !.stack = <<NewFrame(e)>> \o WithTop(f)], Stores(db), dal)
<1>1. WaitingOK(Tail(call.stack), Stores(db), dal, call.op) /\ CallOK(call, Stores(db), dal)
    BY TopOfStack DEF RefInv
<1>2. WaitingOK(WithTop(f), Stores(db), dal, call.op)
    BY <1>1, WaitsInTurn DEF WithTop
<1> DEFINE s == <<NewFrame(e)>> \o WithTop(f)
<1>3. StackOK(s, Stores(db), dal, call.op) /\ s \in Seq(Frame)
    BY <1>2, NewFrameOK, OnTop
<1> HIDE DEF s
<1>4. CallOK([call EXCEPT !.stack = s], Stores(db), dal)
    BY <1>1, <1>3, CallGoesOn
<1> QED
    BY <1>4 DEF s

\* The object a call returns goes to the list its caller makes.
LEMMA ReturnedStack ==
    ASSUME RefInv, ~Idle, NEW i \in Stores(db)
    PROVE  StackOK(Returned(i), Stores(db), dal, call.op) /\ Returned(i) \in Seq(Frame)
<1> DEFINE rest == Tail(call.stack)
<1>1. WaitingOK(rest, Stores(db), dal, call.op)
    BY TopOfStack
<1> HIDE DEF rest
<1>2. StackOK(rest, Stores(db), dal, call.op) /\ rest \in Seq(Frame)
    BY <1>1, WaitingIsStack
<1>3. CASE rest = <<>>
    BY <1>2, <1>3 DEF Returned, rest
<1>4. CASE rest # <<>>
    <2> DEFINE f == Head(rest)
               g == [f EXCEPT !.val = @ \cup {i}]
    <2>1. FrameOK(f, Stores(db), dal, call.op) /\ WaitingOK(Tail(rest), Stores(db), dal, call.op)
        BY <1>2, <1>4 DEF StackOK
    <2>2. f.mode = "relate"
        <3>1. f = rest[1] /\ 1 \in 1..Len(rest)
            BY <1>2, <1>4
        <3> HIDE DEF f
        <3> QED
            BY <1>1, <3>1 DEF WaitingOK
    <2> HIDE DEF f
    <2>3. f \in Frame /\ i \in Ids
        BY <2>1 DEF FrameOK, Stores
    <2>4. /\ g \in Frame /\ g.val = f.val \cup {i}
          /\ g.dal = f.dal /\ g.todo = f.todo /\ g.obj = f.obj /\ g.mode = f.mode
        BY <2>3 DEF Frame
    <2> HIDE DEF g
    <2>5. FrameOK(g, Stores(db), dal, call.op)
        BY <2>1, <2>2, <2>4 DEF FrameOK
    <2>6. StackOK(<<g>> \o Tail(rest), Stores(db), dal, call.op) /\ <<g>> \o Tail(rest) \in Seq(Frame)
        BY <2>1, <2>5, OnTop
    <2>7. Returned(i) = <<g>> \o Tail(rest) \/ Returned(i) = rest
        BY DEF Returned, rest, f, g
    <2> QED
        BY <1>2, <2>6, <2>7
<1> QED
    BY <1>3, <1>4

\* A call that stores ends with an object that exists.
LEMMA LeavingKeeps ==
    ASSUME RefInv, ~Idle, call.op \in Storing, NEW i \in Stores(db), Leave(i)
    PROVE  CacheOK(cache', dal) /\ CallOK(call', Stores(db), dal)
<1>1. Top.dal \in Made(dal) /\ Name(Top.dal) \in Ids /\ CacheOK(cache, dal) /\ CallOK(call, Stores(db), dal)
    BY TopOfStack DEF RefInv, FrameOK
<1>2. CacheOK(cache', dal)
    BY <1>1, EnteringOne DEF Leave
<1> DEFINE c == [call EXCEPT !.stack = Returned(i)]
<1>3. CallOK(c, Stores(db), dal)
    BY <1>1, ReturnedStack, CallGoesOn
<1>4. c.op = call.op
    BY <1>1 DEF CallOK, CallSet
<1>5. call' = [c EXCEPT !.done[Name(Top.dal)] = i]
    BY DEF Leave
<1> HIDE DEF c
<1>6. i \in DoneSet(Stores(db), dal, c.op) /\ Stores(db) \subseteq Ids
    BY <1>4 DEF DoneSet, Stores
<1>7. CallOK([c EXCEPT !.done[Name(Top.dal)] = i], Stores(db), dal)
    BY <1>1, <1>3, <1>6, CallHasResult
<1> QED
    BY <1>2, <1>5, <1>7

LEMMA NoRenameKeeps ==
    ASSUME RefInv, NoRename
    PROVE  RefInv'
<1> DEFINE f == [Top EXCEPT !.mode = "open"]
<1>1. ~Idle /\ Top.mode = "begin" /\ UNCHANGED <<db, dal, cache, dirty>> /\ call' = [call EXCEPT !.stack = WithTop(f)]
    BY DEF NoRename, In
<1>2. FrameOK(Top, Stores(db), dal, call.op) /\ Top \in Frame
    BY <1>1, TopOfStack
<1>3. /\ f \in Frame /\ f.mode = "open" /\ f.obj = Top.obj
      /\ f.dal = Top.dal /\ f.todo = Top.todo /\ f.val = Top.val
    BY <1>2 DEF Frame
<1> HIDE DEF f
<1>4. FrameOK(f, Stores(db), dal, call.op)
    BY <1>1, <1>2, <1>3 DEF FrameOK
<1>5. CallOK(call', Stores(db), dal)
    BY <1>1, <1>4, TopChanges, Unchanged
<1> QED
    BY <1>1, <1>5, OnlyCall DEF RefInv

LEMMA RaisingKeeps ==
    ASSUME RefInv, RenameFails \/ \E e \in Alive : RelatedFails(e)
    PROVE  RefInv'
<1>1. Raise /\ UNCHANGED <<db, dal, cache, dirty>>
    BY DEF RenameFails, RelatedFails
<1>2. CallOK(call', Stores(db), dal)
    BY <1>1, RaisedCall DEF Grows
<1> QED
    BY <1>1, <1>2, OnlyCall DEF RefInv

LEMMA AddExistingKeeps ==
    ASSUME RefInv, AddExisting
    PROVE  RefInv'
<1>1. /\ ~Idle /\ call.op \in Storing /\ Leave(Name(Top.dal)) /\ Name(Top.dal) \in Stores(db)
      /\ UNCHANGED <<db, dal>> /\ dirty' = dirty \cup {Top.dal}
    BY AliveAreMade DEF AddExisting, In, Storing
<1>2. CacheOK(cache', dal) /\ CallOK(call', Stores(db), dal)
    BY <1>1, LeavingKeeps
<1>3. Top.dal \in Made(dal)
    BY <1>1, TopOfStack DEF FrameOK
<1> QED
    BY <1>1, <1>2, <1>3 DEF RefInv

\* A refused attribute or list: logged, and the call ends, or raised
LEMMA RefusedKeeps ==
    ASSUME RefInv, ~Idle, call.op \in Storing, Refused, Name(Top.dal) \in Stores(db), UNCHANGED <<db, dal>>
    PROVE  RefInv'
<1>1. CASE call.ignore
    <2>1. Leave(Name(Top.dal)) /\ dirty' = dirty \cup {Top.dal}
        BY <1>1 DEF Refused
    <2>2. CacheOK(cache', dal) /\ CallOK(call', Stores(db), dal)
        BY <2>1, LeavingKeeps
    <2>3. Top.dal \in Made(dal)
        BY TopOfStack DEF FrameOK
    <2> QED
        BY <2>1, <2>2, <2>3 DEF RefInv
<1>2. CASE ~call.ignore
    <2>1. Raise /\ UNCHANGED <<cache, dirty>>
        BY <1>2 DEF Refused
    <2>2. CallOK(call', Stores(db), dal)
        BY <2>1, RaisedCall DEF Grows
    <2> QED
        BY <2>1, <2>2 DEF RefInv
<1> QED
    BY <1>1, <1>2

LEMMA OpenRefusedKeeps ==
    ASSUME RefInv, OpenRefused
    PROVE  RefInv'
<1>1. ~Idle /\ call.op \in Storing /\ Refused /\ Name(Top.dal) \in ReadOnly /\ UNCHANGED <<db, dal>>
    BY DEF OpenRefused, In, Storing
<1>2. Name(Top.dal) \in Stores(db)
    BY <1>1 DEF RefInv, DbOK
<1> QED
    BY <1>1, <1>2, RefusedKeeps

\* The object is found or created; it exists from now on, under the DAL's name.
LEMMA OpenKeeps ==
    ASSUME RefInv, Open
    PROVE  RefInv'
<1> DEFINE d == Top.dal
           i == Name(d)
           new == [attr |-> Default, rel |-> {}]
           o == IF db[i] = None THEN new ELSE db[i]
           v == IF dal[d].attr = None THEN o.attr ELSE dal[d].attr
           p == [o EXCEPT !.attr = v]
           f == [Top EXCEPT !.mode = "relate", !.obj = i, !.todo = dal[d].rel]
           c == [call EXCEPT !.stack = WithTop(f)]
<1>1. ~Idle /\ call.op \in Storing /\ Top.mode # "relate" /\ UNCHANGED <<dal, cache, dirty>>
    BY DEF Open, In, Storing
<1>2. db' = [db EXCEPT ![i] = p]
    BY DEF Open
<1>3. call' = [call EXCEPT !.done[i] = i, !.stack = WithTop(f)]
    BY DEF Open
<1>4. /\ DbOK(db) /\ FrameOK(Top, Stores(db), dal, call.op) /\ Top \in Frame
      /\ d \in Made(dal) /\ i \in Ids /\ DalOK(dal[d], Stores(db), Made(dal)) /\ dal[d] \in DalObject
    <2>1. FrameOK(Top, Stores(db), dal, call.op) /\ Top \in Frame /\ Name(Top.dal) \in Ids
        BY <1>1, TopOfStack
    <2>2. d \in Made(dal) /\ d \in Alive
        BY <2>1, AliveAreMade DEF FrameOK
    <2> QED
        BY <2>1, <2>2, LoadedExist DEF RefInv
<1>5. p \in Object /\ p.rel \subseteq Stores(db) /\ p # None
    <2>1. o \in Object /\ o.rel \subseteq Stores(db)
        <3>1. CASE db[i] = None
            BY <3>1, DalAssumption DEF DalAssumption, Object
        <3>2. CASE db[i] # None
            BY <1>4, <3>2 DEF DbOK, Stores
        <3> QED
            BY <3>1, <3>2
    <2> HIDE DEF o
    <2>2. v \in Values
        BY <1>4, <2>1 DEF DalObject, Object
    <2> HIDE DEF v
    <2>3. p \in Object /\ p.rel = o.rel
        BY <2>1, <2>2 DEF Object
    <2> QED
        BY <2>1, <2>3, NoneIsNoRecord
<1> HIDE DEF p
<1>6. Stores(db') = Stores(db) \cup {i} /\ DbOK(db')
    <2>1. db \in [Ids -> Object \cup {None}]
        BY <1>4 DEF DbOK
    <2>2. db' \in [Ids -> Object \cup {None}] /\ \A j \in Ids : db'[j] = IF j = i THEN p ELSE db[j]
        BY <1>2, <1>4, <1>5, <2>1
    <2>3. Stores(db') = Stores(db) \cup {i}
        BY <1>4, <1>5, <2>2 DEF Stores
    <2>4. \A j \in Stores(db') : db'[j].rel \subseteq Stores(db')
        <3> SUFFICES ASSUME NEW j \in Stores(db')
                     PROVE  db'[j].rel \subseteq Stores(db')
            OBVIOUS
        <3>1. CASE j = i
            BY <1>4, <1>5, <2>2, <2>3, <3>1
        <3>2. CASE j # i
            <4>1. j \in Stores(db) /\ j \in Ids
                BY <2>3, <3>2 DEF Stores
            <4> QED
                BY <1>4, <2>2, <2>3, <3>2, <4>1 DEF DbOK
        <3> QED
            BY <3>1, <3>2
    <2> QED
        BY <1>4, <2>2, <2>3, <2>4 DEF DbOK
<1> HIDE DEF d, i
<1>7. Grows(Stores(db), dal, Stores(db'), dal)
    BY <1>6 DEF Grows
<1>8. DalsOK(dal, Stores(db'))
    BY <1>6, DalGrows DEF RefInv, DalsOK
<1>9. FrameOK(f, Stores(db'), dal, call.op)
    <2>1. dal[d].rel \subseteq Made(dal) /\ dal[d].rel \in SUBSET Dals /\ dal[d].id = i
        BY <1>4 DEF DalOK, Made, Name, i, d
    <2>2. /\ f \in Frame /\ f.mode = "relate" /\ f.obj = i /\ f.todo = dal[d].rel
          /\ f.dal = d /\ f.val = Top.val
        BY <1>4, <2>1 DEF Frame, d
    <2> HIDE DEF f
    <2>3. f.val = {}
        BY <1>1, <1>4, <2>2 DEF FrameOK
    <2>4. d \in Made(dal) /\ i \in Stores(db') /\ i # None
        BY <1>4, <1>6, NoneIsNoRecord
    <2>5. f.dal \in Made(dal) /\ f.todo \subseteq Made(dal) /\ f.val \subseteq Stores(db')
        BY <2>1, <2>2, <2>3, <2>4
    <2>6. f.obj \in Stores(db') /\ f.obj = dal[f.dal].id /\ f.obj # None
        BY <2>1, <2>2, <2>4
    <2> QED
        BY <2>2, <2>5, <2>6 DEF FrameOK
<1> HIDE DEF f
<1>10. CallOK(c, Stores(db'), dal)
    BY <1>1, <1>7, <1>9, TopChanges
<1>11. call \in CallSet
    BY DEF RefInv, CallOK
<1>12. call' = [c EXCEPT !.done[i] = i] /\ c.op = call.op
    BY <1>3, <1>11 DEF CallSet
<1> HIDE DEF c
<1>13. i \in DoneSet(Stores(db'), dal, c.op) /\ Stores(db') \subseteq Ids
    BY <1>1, <1>6, <1>12 DEF DoneSet, Stores
<1>14. CallOK([c EXCEPT !.done[i] = i], Stores(db'), dal)
    BY <1>4, <1>10, <1>13, CallHasResult
<1>15. CallOK(call', Stores(db'), dal)
    BY <1>12, <1>14
<1> QED
    BY <1>1, <1>6, <1>8, <1>15 DEF RefInv

\* Before the related DALs are visited, the handles are turned into DALs.
LEMMA RelateKeeps ==
    ASSUME RefInv, Relate
    PROVE  RefInv'
<1> DEFINE d == Top.dal
<1>1. ~Idle /\ Top.mode = "relate" /\ db' = db
    BY DEF Relate, In
<1>2. /\ FrameOK(Top, Stores(db), dal, call.op) /\ Top \in Frame /\ d \in Alive
    BY <1>1, TopOfStack, AliveAreMade DEF FrameOK
<1>3. CASE ReadRelation(d)
    <2> DEFINE f == [Top EXCEPT !.todo = dal'[d].rel]
    <2>1. MayFollow(dal', cache', dirty') /\ dal'[d].rel \subseteq Made(dal')
        BY <1>2, <1>3, ReadingFollows
    <2>2. call' = [call EXCEPT !.stack = WithTop(f)] \/ Raise
        BY DEF Relate
    <2>3. Grows(Stores(db), dal, Stores(db), dal')
        BY <2>1 DEF MayFollow
    <2>4. FrameOK(Top, Stores(db), dal', call.op)
        BY <1>2, <2>3, FrameGrows
    <2>5. /\ f \in Frame /\ f.todo = dal'[d].rel
          /\ f.dal = Top.dal /\ f.mode = Top.mode /\ f.obj = Top.obj /\ f.val = Top.val
        <3>1. dal'[d].rel \in SUBSET Dals
            BY <2>1 DEF Made
        <3> QED
            BY <1>2, <3>1 DEF Frame
    <2> HIDE DEF f
    <2>6. FrameOK(f, Stores(db), dal', call.op)
        BY <2>1, <2>4, <2>5 DEF FrameOK
    <2>7. CallOK([call EXCEPT !.stack = WithTop(f)], Stores(db), dal')
        BY <1>1, <2>3, <2>6, TopChanges
    <2>8. CallOK(call', Stores(db), dal')
        BY <2>2, <2>3, <2>7, RaisedCall
    <2> QED
        BY <1>1, <2>1, <2>8 DEF RefInv, MayFollow
<1>4. CASE ReadRelationFails(d) /\ Raise
    <2>1. MayFollow(dal', cache', dirty')
        BY <1>2, <1>4, FailedReadingFollows
    <2>2. CallOK(call', Stores(db), dal')
        BY <1>4, <2>1, RaisedCall DEF MayFollow
    <2> QED
        BY <1>1, <2>1, <2>2 DEF RefInv, MayFollow
<1> QED
    BY <1>3, <1>4 DEF Relate

\* The frame on top has dealt with a related DAL and has put the object i, if there
\* is one, in its list.
LEMMA OneRelated ==
    ASSUME RefInv, ~Idle, NEW e, NEW S \in SUBSET Stores(db), Top.mode = "relate" \/ S = {}
    PROVE  LET f == [Top EXCEPT !.todo = @ \ {e}]
               g == [f EXCEPT !.val = @ \cup S]
           IN  /\ FrameOK(f, Stores(db), dal, call.op) /\ f.mode = Top.mode
               /\ FrameOK(g, Stores(db), dal, call.op)
<1> DEFINE f == [Top EXCEPT !.todo = @ \ {e}]
           g == [f EXCEPT !.val = @ \cup S]
<1>1. FrameOK(Top, Stores(db), dal, call.op) /\ Top \in Frame
    BY TopOfStack
<1>2. /\ f \in Frame /\ f.todo = Top.todo \ {e}
      /\ f.dal = Top.dal /\ f.mode = Top.mode /\ f.obj = Top.obj /\ f.val = Top.val
    BY <1>1 DEF Frame
<1> HIDE DEF f
<1>3. S \subseteq Ids
    BY DEF Stores
<1>4. /\ g \in Frame /\ g.val = f.val \cup S
      /\ g.dal = f.dal /\ g.mode = f.mode /\ g.obj = f.obj /\ g.todo = f.todo
    BY <1>2, <1>3 DEF Frame
<1> HIDE DEF g
<1>5. FrameOK(f, Stores(db), dal, call.op)
    BY <1>1, <1>2 DEF FrameOK
<1>6. FrameOK(g, Stores(db), dal, call.op)
    BY <1>2, <1>4, <1>5 DEF FrameOK
<1> QED
    BY <1>2, <1>5, <1>6 DEF f, g

LEMMA RelatedKeeps ==
    ASSUME RefInv, NEW e \in Alive, Related(e)
    PROVE  RefInv'
<1> DEFINE rest == [Top EXCEPT !.todo = @ \ {e}]
           with(S) == [rest EXCEPT !.val = @ \cup S]
           known == call.done[Name(e)]
<1>1. ~Idle /\ Top.mode = "relate" /\ call.op \in Storing /\ UNCHANGED <<db, dal, cache, dirty>>
    BY DEF Related, In
<1>2. Name(e) \in Ids /\ e \in Made(dal)
    BY LoadedExist, AliveAreMade DEF Name, DalObject
<1>3. known \in Stores(db) \cup {None}
    <2>1. call.done \in [Ids -> DoneSet(Stores(db), dal, call.op)]
        BY DEF RefInv, CallOK
    <2> QED
        BY <1>1, <1>2, <2>1 DEF DoneSet
<1>4. \/ known # None /\ call' = [call EXCEPT !.stack = WithTop(with({known}))]
      \/ call' = [call EXCEPT !.stack = <<NewFrame(e)>> \o WithTop(rest)]
      \/ Name(e) \in Present /\ call' = [call EXCEPT !.stack = WithTop(with({Name(e)}))]
    BY DEF Related
<1>5. ASSUME NEW S \in SUBSET Stores(db)
      PROVE  FrameOK(with(S), Stores(db), dal, call.op) /\ FrameOK(rest, Stores(db), dal, call.op) /\ rest.mode = "relate"
    BY <1>1, OneRelated
<1> HIDE DEF rest, with, known
<1>6. CallOK(call', Stores(db), dal)
    <2>1. ASSUME NEW S \in SUBSET Stores(db)
          PROVE  CallOK([call EXCEPT !.stack = WithTop(with(S))], Stores(db), dal)
        BY <1>1, <1>5, TopChanges, Unchanged
    <2>2. FrameOK(rest, Stores(db), dal, call.op) /\ rest.mode = "relate"
        BY <1>5
    <2>3. CallOK([call EXCEPT !.stack = <<NewFrame(e)>> \o WithTop(rest)], Stores(db), dal)
        BY <1>1, <1>2, <2>2, CallIsMade
    <2>4. CASE known # None /\ call' = [call EXCEPT !.stack = WithTop(with({known}))]
        <3>1. {known} \in SUBSET Stores(db)
            BY <1>3, <2>4
        <3> QED
            BY <2>1, <2>4, <3>1
    <2>5. CASE Name(e) \in Present /\ call' = [call EXCEPT !.stack = WithTop(with({Name(e)}))]
        <3>1. {Name(e)} \in SUBSET Stores(db)
            BY <2>5, AliveAreMade
        <3> QED
            BY <2>1, <2>5, <3>1
    <2> QED
        BY <1>4, <2>3, <2>4, <2>5
<1> QED
    BY <1>1, <1>6, OnlyCall DEF RefInv

\* The list is stored: all of its objects exist, and so does the one it is stored in.
LEMMA StoreKeeps ==
    ASSUME RefInv, Store
    PROVE  RefInv'
<1>1. ~Idle /\ call.op \in Storing /\ Top.mode = "relate" /\ UNCHANGED dal
    BY DEF Store, In
<1>2. /\ FrameOK(Top, Stores(db), dal, call.op) /\ Top.dal \in Made(dal)
      /\ Top.obj \in Stores(db) /\ Top.val \subseteq Stores(db)
      /\ (Top.obj \in ReadOnly => Top.obj = Name(Top.dal))
    BY <1>1, TopOfStack DEF FrameOK, Name
<1>3. CASE Top.obj \in ReadOnly
    <2>1. Refused /\ UNCHANGED db
        BY <1>3 DEF Store
    <2> QED
        BY <1>1, <1>2, <1>3, <2>1, RefusedKeeps
<1>4. CASE Top.obj \notin ReadOnly
    <2> DEFINE i == Top.obj
               p == [db[i] EXCEPT !.rel = Top.val]
    <2>1. /\ db' = [db EXCEPT ![i] = p]
          /\ Leave(i) /\ dirty' \subseteq dirty
        BY <1>4 DEF Store
    <2>2. DbOK(db) /\ i \in Ids /\ db[i] \in Object
        BY <1>2 DEF RefInv, DbOK, Stores
    <2>3. p \in Object /\ p.rel = Top.val /\ p # None
        <3>1. p \in Object /\ p.rel = Top.val
            BY <1>2, <2>2 DEF Object, Stores
        <3> QED
            BY <3>1, NoneIsNoRecord
    <2> HIDE DEF p
    <2>4. Stores(db') = Stores(db) /\ DbOK(db')
        <3>1. db' \in [Ids -> Object \cup {None}] /\ \A j \in Ids : db'[j] = IF j = i THEN p ELSE db[j]
            BY <2>1, <2>2, <2>3 DEF DbOK
        <3>2. Stores(db') = Stores(db)
            BY <1>2, <2>3, <3>1 DEF Stores
        <3>3. ASSUME NEW j \in Stores(db)
              PROVE  db'[j].rel \subseteq Stores(db)
            <4>1. db[j].rel \subseteq Stores(db) /\ j \in Ids
                BY <2>2 DEF DbOK, Stores
            <4> QED
                BY <1>2, <2>3, <3>1, <4>1
        <3> QED
            BY <2>2, <3>1, <3>2, <3>3 DEF DbOK
    <2>5. CacheOK(cache', dal) /\ CallOK(call', Stores(db), dal)
        BY <1>1, <1>2, <2>1, LeavingKeeps
    <2> QED
        BY <1>1, <2>1, <2>4, <2>5 DEF RefInv
<1> QED
    BY <1>3, <1>4

LEMMA PoppedStack ==
    ASSUME RefInv, ~Idle
    PROVE  CallOK([call EXCEPT !.stack = Tail(@)], Stores(db), dal)
<1>1. StackOK(Tail(call.stack), Stores(db), dal, call.op) /\ Tail(call.stack) \in Seq(Frame)
    BY TopOfStack, WaitingIsStack
<1>2. CallOK(call, Stores(db), dal)
    BY DEF RefInv
<1> QED
    BY <1>1, <1>2, CallGoesOn

\* __getall__ notes the DAL it was called for.
LEMMA VisitKeeps ==
    ASSUME RefInv, Visit
    PROVE  RefInv'
<1> DEFINE d == Top.dal
           i == Name(d)
           x == IF call.done[i] = None THEN d ELSE call.done[i]
           f == [Top EXCEPT !.mode = "relate", !.todo = dal[d].rel]
           s == IF call.done[i] # None THEN Tail(call.stack) ELSE WithTop(f)
           c == [call EXCEPT !.stack = s]
<1>1. ~Idle /\ call.op \in {"getall"} /\ Top.mode = "begin" /\ UNCHANGED <<db, dal, cache, dirty>>
    BY DEF Visit, In
<1>2. call' = [call EXCEPT !.done[i] = x, !.stack = s]
    BY DEF Visit
<1>3. /\ FrameOK(Top, Stores(db), dal, call.op) /\ Top \in Frame /\ i \in Ids
      /\ d \in Made(dal) /\ DalOK(dal[d], Stores(db), Made(dal))
    <2>1. FrameOK(Top, Stores(db), dal, call.op) /\ Top \in Frame /\ i \in Ids
        BY <1>1, TopOfStack
    <2> QED
        BY <2>1, AliveAreMade, LoadedExist DEF FrameOK
<1>4. call \in CallSet /\ call.done \in [Ids -> DoneSet(Stores(db), dal, call.op)]
    BY DEF RefInv, CallOK
<1>5. call' = [c EXCEPT !.done[i] = x] /\ c.op = call.op
    BY <1>2, <1>4 DEF CallSet
<1>6. x \in DoneSet(Stores(db), dal, call.op) /\ Stores(db) \subseteq Ids
    <2>1. call.op \notin Storing
        BY <1>1 DEF Storing
    <2> QED
        BY <1>3, <1>4, <2>1 DEF DoneSet, Stores
<1>7. FrameOK(f, Stores(db), dal, call.op)
    <2>1. dal[d].rel \subseteq Made(dal) /\ dal[d].rel \in SUBSET Dals
        BY <1>3 DEF DalOK, Made
    <2>2. /\ f \in Frame /\ f.mode = "relate" /\ f.todo = dal[d].rel
          /\ f.dal = Top.dal /\ f.obj = Top.obj /\ f.val = Top.val
        BY <1>3, <2>1 DEF Frame
    <2>3. call.op \notin Storing
        BY <1>1 DEF Storing
    <2> HIDE DEF f, d
    <2> QED
        BY <1>3, <2>1, <2>2, <2>3 DEF FrameOK
<1>8. CallOK(c, Stores(db), dal)
    <2>1. CASE call.done[i] # None
        BY <1>1, <2>1, PoppedStack
    <2>2. CASE call.done[i] = None
        <3>1. s = WithTop(f)
            BY <2>2
        <3> HIDE DEF s, f
        <3>2. CallOK([call EXCEPT !.stack = WithTop(f)], Stores(db), dal)
            BY <1>1, <1>7, TopChanges, Unchanged
        <3> QED
            BY <3>1, <3>2
    <2> QED
        BY <2>1, <2>2
<1> HIDE DEF c, x, i
<1>9. CallOK(call', Stores(db), dal)
    BY <1>3, <1>5, <1>6, <1>8, CallHasResult
<1> QED
    BY <1>1, <1>9, OnlyCall DEF RefInv

LEMMA DescendKeeps ==
    ASSUME RefInv, Descend
    PROVE  RefInv'
<1>1. ~Idle /\ Top.mode = "relate" /\ UNCHANGED <<db, dal, cache, dirty>>
    BY DEF Descend, In
<1>2. \/ \E e \in Top.todo :
            call' = [call EXCEPT !.stack = <<NewFrame(e)>> \o WithTop([Top EXCEPT !.todo = @ \ {e}])]
      \/ call' = [call EXCEPT !.stack = Tail(@)]
    BY DEF Descend
<1>3. ASSUME NEW e \in Top.todo,
             call' = [call EXCEPT !.stack = <<NewFrame(e)>> \o WithTop([Top EXCEPT !.todo = @ \ {e}])]
      PROVE  CallOK(call', Stores(db), dal)
    <2> DEFINE f == [Top EXCEPT !.todo = @ \ {e}]
    <2>1. FrameOK(f, Stores(db), dal, call.op) /\ f.mode = "relate"
        <3>1. {} \in SUBSET Stores(db)
            OBVIOUS
        <3> QED
            BY <1>1, <3>1, OneRelated
    <2>2. e \in Made(dal)
        BY <1>1, TopOfStack DEF FrameOK
    <2>3. call' = [call EXCEPT !.stack = <<NewFrame(e)>> \o WithTop(f)]
        BY <1>3
    <2> HIDE DEF f
    <2> QED
        BY <1>1, <2>1, <2>2, <2>3, CallIsMade
<1>4. CallOK(call', Stores(db), dal)
    BY <1>1, <1>2, <1>3, PoppedStack
<1> QED
    BY <1>1, <1>4, OnlyCall DEF RefInv

-----------------------------------------------------------------------------
(* Renaming in the database.                                                 *)

\* What frames, handles and lists say of the objects P, after old was renamed to new
LEMMA RenamedSet ==
    \A S, P, old, new : S \subseteq P => Renamed(S, old, new) \subseteq (P \ {old}) \cup {new}
    BY DEF Renamed

\* A frame follows the renaming in its list and in the object it is about.
Following(f, old, new) ==
    [f EXCEPT !.val = Renamed(@, old, new), !.obj = IF @ = old THEN new ELSE @]
SameNames(D, E) == Made(E) = Made(D) /\ \A d \in Made(D) : E[d].id = D[d].id

LEMMA RenamedFrame ==
    \A f, P, D, E, op, old, new :
        /\ FrameOK(f, P, D, op) /\ f.mode = "relate" /\ op \in Storing /\ SameNames(D, E)
        /\ P \subseteq Ids /\ old \in P /\ new \in Ids /\ new \notin ReadOnly
        => /\ Following(f, old, new) \in Frame /\ Following(f, old, new).mode = "relate"
           /\ FrameOK(Following(f, old, new), (P \ {old}) \cup {new}, E, op)
<1> SUFFICES ASSUME NEW f, NEW P \in SUBSET Ids, NEW D, NEW E, NEW op \in Storing, NEW old \in P,
                    NEW new \in Ids, FrameOK(f, P, D, op), f.mode = "relate", new \notin ReadOnly,
                    SameNames(D, E)
             PROVE  /\ Following(f, old, new) \in Frame /\ Following(f, old, new).mode = "relate"
                    /\ FrameOK(Following(f, old, new), (P \ {old}) \cup {new}, E, op)
    OBVIOUS
<1> DEFINE Q == (P \ {old}) \cup {new}
           S == Renamed(f.val, old, new)
           o == IF f.obj = old THEN new ELSE f.obj
           g == [f EXCEPT !.val = S, !.obj = o]
<1>1. f \in Frame /\ f.val \subseteq P /\ f.obj \in P /\ (f.obj \in ReadOnly => f.obj = D[f.dal].id)
    BY DEF FrameOK
<1>2. S \subseteq Q
    BY <1>1, RenamedSet
<1>3. o \in Q /\ (o \in ReadOnly => o = D[f.dal].id)
    BY <1>1
<1>4. Q \subseteq Ids
    OBVIOUS
<1> HIDE DEF Q, S, o
<1>5. g \in Frame /\ g.val = S /\ g.obj = o /\ g.mode = f.mode /\ g.dal = f.dal /\ g.todo = f.todo
    BY <1>1, <1>2, <1>3, <1>4 DEF Frame
<1> HIDE DEF g
<1>6. f.dal \in Made(E) /\ E[f.dal].id = D[f.dal].id /\ f.todo \subseteq Made(E) /\ o # None
    BY <1>3, <1>4, NoneIsNoRecord DEF FrameOK, SameNames
<1>7. FrameOK(g, Q, E, op)
    BY <1>2, <1>3, <1>5, <1>6 DEF FrameOK
<1> QED
    BY <1>5, <1>7 DEF g, Q, S, o, Following

\* The database, the handles and the running calls follow the object.
LEMMA RenameKeeps ==
    ASSUME RefInv, RenameStored
    PROVE  RefInv'
<1> DEFINE d == Top.dal
           old == dal[d].old
           new == Name(d)
           P == Stores(db)
           Q == (P \ {old}) \cup {new}
           object(i) == IF i = new THEN db[old] ELSE db[i]
           follow(h) == IF h.alive /\ h.id = old THEN [h EXCEPT !.id = new] ELSE h
           updated(e) == IF e = d THEN [dal[d] EXCEPT !.old = None] ELSE dal[e]
           frame(f) == Following(f, old, new)
           top == [Top EXCEPT !.mode = "open"]
           rest == Tail(call.stack)
           s == <<top>> \o [n \in 1..Len(rest) |-> frame(rest[n])]
           done == [i \in Ids |-> IF call.done[i] = old THEN new ELSE call.done[i]]
<1>1. /\ ~Idle /\ call.op \in {"update"} /\ Top.mode = "begin" /\ UNCHANGED <<cache, dirty>>
      /\ old # None /\ old # new /\ old \in P \ ReadOnly /\ new \notin P
    BY AliveAreMade DEF RenameStored, In
<1>2. db' = [i \in Ids |-> IF i = old THEN None
                           ELSE IF object(i) = None THEN None
                                ELSE [object(i) EXCEPT !.rel = Renamed(@, old, new)]]
    BY DEF RenameStored
<1>3. dal' = [e \in Dals |->
                 IF e \in Alive /\ ~IsRead(e)
                 THEN [updated(e) EXCEPT !.lazy = {follow(h) : h \in @}]
                 ELSE updated(e)]
    BY DEF RenameStored
<1>4. call' = [call EXCEPT !.moved = @ \cup {old, new}, !.done = done, !.stack = s]
    BY DEF RenameStored, Following
<1>5. /\ FrameOK(Top, P, dal, call.op) /\ Top \in Frame /\ WaitingOK(rest, P, dal, call.op)
      /\ d \in Made(dal) /\ d \in Dals /\ new \in Ids /\ dal[d] \in DalObject
      /\ DbOK(db) /\ DalsOK(dal, P) /\ dirty \subseteq Made(dal) /\ CacheOK(cache, dal)
      /\ call \in CallSet /\ call.done \in [Ids -> DoneSet(P, dal, call.op)]
    <2>1. /\ FrameOK(Top, P, dal, call.op) /\ Top \in Frame /\ WaitingOK(rest, P, dal, call.op)
          /\ d \in Dals /\ new \in Ids /\ dal[d] \in DalObject
        BY <1>1, TopOfStack
    <2> QED
        BY <2>1 DEF FrameOK, RefInv, CallOK
<1>6. P \subseteq Ids /\ old \in Ids /\ old \in P /\ ReadOnly \subseteq P
    BY <1>1, <1>5 DEF Stores, DbOK
<1> HIDE DEF P, s, done, d, old, new
<1>7. Stores(db') = Q /\ DbOK(db')
    <2>1. \A j \in P : db[j] \in Object /\ db[j].rel \subseteq P /\ j \in Ids
        BY <1>5 DEF DbOK, P, Stores
    <2>2. \A j \in Ids : db'[j] = IF j = old THEN None
                                  ELSE IF object(j) = None THEN None
                                       ELSE [object(j) EXCEPT !.rel = Renamed(@, old, new)]
        BY <1>2
    <2>3. \A j \in Q : object(j) \in Object /\ object(j).rel \subseteq P /\ j \in Ids /\ j # old
        BY <1>1, <1>5, <1>6, <2>1
    <2>4. \A j \in Ids \ Q : j = old \/ object(j) = None
        BY <1>1 DEF P, Stores
    <2> HIDE DEF Q, object
    <2>5. ASSUME NEW j \in Q
          PROVE  db'[j] \in Object /\ db'[j].rel \subseteq Q /\ db'[j] # None
        <3> DEFINE o == object(j)
                   S == Renamed(o.rel, old, new)
        <3>1. o \in Object /\ o.rel \subseteq P /\ o # None
            BY <2>3, NoneIsNoRecord
        <3>2. S \subseteq Q
            BY <3>1, RenamedSet DEF Q
        <3>3. Q \subseteq Ids
            BY <2>3
        <3>4. db'[j] = [o EXCEPT !.rel = S]
            BY <2>2, <2>3, <3>1
        <3> HIDE DEF o, S
        <3>5. db'[j] \in Object /\ db'[j].rel = S
            BY <3>1, <3>2, <3>3, <3>4 DEF Object
        <3> QED
            BY <3>2, <3>5, NoneIsNoRecord
    <2>6. \A j \in Ids \ Q : db'[j] = None
        BY <2>2, <2>4
    <2>7. Stores(db') = Q
        BY <2>3, <2>5, <2>6 DEF Stores
    <2>8. db' \in [Ids -> Object \cup {None}]
        <3>1. \A j \in Ids : db'[j] \in Object \cup {None}
            BY <2>5, <2>6
        <3> QED
            BY <1>2, <3>1
    <2>9. ReadOnly \subseteq Q
        BY <1>1, <1>6 DEF Q
    <2> QED
        BY <2>5, <2>7, <2>8, <2>9 DEF DbOK
<1> HIDE DEF object
<1>8. ASSUME NEW e \in Made(dal)
      PROVE  DalOK(dal'[e], Q, Made(dal)) /\ dal'[e].id = dal[e].id
    <2>1. DalOK(dal[e], P, Made(dal)) /\ dal[e] \in DalObject /\ e \in Dals /\ e \in Alive
        BY <1>5, AliveAreMade DEF DalsOK, DalOK, Made
    <2>2. \A h : h \in Handle /\ (h.alive => h.id \in P) =>
              follow(h) \in Handle /\ (follow(h).alive => follow(h).id \in Q)
        <3> SUFFICES ASSUME NEW h \in Handle, h.alive => h.id \in P
                     PROVE  follow(h) \in Handle /\ (follow(h).alive => follow(h).id \in Q)
            OBVIOUS
        <3>1. CASE h.alive /\ h.id = old
            <4>1. follow(h) \in Handle /\ follow(h).id = new
                BY <1>5, <3>1 DEF Handle
            <4> QED
                BY <4>1
        <3>2. CASE ~(h.alive /\ h.id = old)
            BY <3>2
        <3> QED
            BY <3>1, <3>2
    <2>3. /\ updated(e) \in DalObject /\ updated(e).rel = dal[e].rel
          /\ updated(e).lazy = dal[e].lazy /\ updated(e).id = dal[e].id
        BY <2>1 DEF DalObject
    <2> HIDE DEF follow, Q, updated
    <2>4. CASE ~IsRead(e)
        <3> DEFINE L == {follow(h) : h \in dal[e].lazy}
        <3>1. dal'[e] = [updated(e) EXCEPT !.lazy = L]
            BY <1>3, <2>1, <2>3, <2>4
        <3>2. \A h \in dal[e].lazy : h \in Handle /\ (h.alive => h.id \in P)
            BY <2>1, <2>4 DEF IsRead, DalOK, DalObject
        <3>3. L \in SUBSET Handle /\ \A h \in L : h.alive => h.id \in Q
            BY <2>2, <3>2
        <3> HIDE DEF L
        <3>4. /\ dal'[e] \in DalObject /\ dal'[e].rel = dal[e].rel
              /\ dal'[e].lazy = L /\ dal'[e].id = dal[e].id
            BY <2>3, <3>1, <3>3 DEF DalObject
        <3> QED
            BY <2>1, <3>3, <3>4 DEF DalOK
    <2>5. CASE IsRead(e)
        <3>1. dal'[e] = updated(e) /\ dal[e].lazy = None
            BY <1>3, <2>1, <2>5 DEF IsRead
        <3> QED
            BY <2>1, <2>3, <3>1 DEF DalOK
    <2> QED
        BY <2>4, <2>5
<1> HIDE DEF follow, updated
<1>9. Made(dal') = Made(dal)
    <2>1. ASSUME NEW e \in Dals \ Made(dal)
          PROVE  dal'[e] = None
        <3>1. e # d /\ dal[e] = None /\ e \notin Alive
            BY <1>5, <2>1, AliveAreMade DEF Made
        <3> QED
            BY <1>3, <3>1 DEF updated
    <2>2. \A e \in Made(dal) : dal'[e] # None /\ e \in Dals
        BY <1>8, NoneIsNoRecord DEF DalOK, Made
    <2> QED
        BY <2>1, <2>2 DEF Made
<1>10. DalsOK(dal', Q)
    <2>1. \A e \in Dals : dal'[e] \in DalObject \cup {None}
        BY <1>8, <1>9 DEF DalOK, Made
    <2>2. dal' \in [Dals -> DalObject \cup {None}]
        BY <1>3, <2>1
    <2> QED
        BY <1>8, <1>9, <2>2 DEF DalsOK
<1>11. call.op \in Storing /\ call.op = "update" /\ new \notin ReadOnly
    BY <1>1, <1>6 DEF Storing
<1>12. FrameOK(top, Q, dal', call.op)
    <2>1. top \in Frame /\ top.mode = "open" /\ top.dal = d /\ top.todo = Top.todo /\ top.obj = Top.obj /\ top.val = Top.val
        BY <1>5 DEF Frame, d
    <2> HIDE DEF top
    <2>2. top.val = {} /\ top.obj = None /\ top.todo \subseteq Made(dal) /\ d \in Made(dal)
        BY <1>1, <1>5, <2>1 DEF FrameOK
    <2> QED
        BY <1>9, <2>1, <2>2 DEF FrameOK
<1>13. ASSUME NEW f, FrameOK(f, P, dal, call.op), f.mode = "relate"
       PROVE  frame(f) \in Frame /\ FrameOK(frame(f), Q, dal', call.op) /\ frame(f).mode = "relate"
    <2>1. P \in SUBSET Ids /\ old \in P /\ new \in Ids /\ new \notin ReadOnly /\ call.op \in Storing
        BY <1>5, <1>6, <1>11
    <2>2. SameNames(dal, dal')
        BY <1>8, <1>9 DEF SameNames
    <2>3. FrameOK(f, P, dal, call.op) /\ f.mode = "relate"
        BY <1>13
    <2> QED
        BY <2>1, <2>2, <2>3, RenamedFrame
<1> DEFINE waiting == [n \in 1..Len(rest) |-> frame(rest[n])]
<1>14. WaitingOK(waiting, Q, dal', call.op)
    <2>1. rest \in Seq(Frame) /\ \A n \in 1..Len(rest) : FrameOK(rest[n], P, dal, call.op) /\ rest[n].mode = "relate"
        BY <1>5 DEF WaitingOK
    <2> HIDE DEF rest, frame, Q
    <2>2. \A n \in 1..Len(rest) : /\ frame(rest[n]) \in Frame
                                  /\ FrameOK(frame(rest[n]), Q, dal', call.op)
                                  /\ frame(rest[n]).mode = "relate"
        BY <1>13, <2>1
    <2>3. waiting \in Seq(Frame) /\ Len(waiting) = Len(rest) /\ \A n \in 1..Len(rest) : waiting[n] = frame(rest[n])
        <3>1. Len(rest) \in Nat
            BY <2>1
        <3> QED
            BY <2>2, <3>1
    <2> HIDE DEF waiting
    <2>4. \A n \in 1..Len(waiting) : FrameOK(waiting[n], Q, dal', call.op) /\ waiting[n].mode = "relate"
        BY <2>2, <2>3
    <2> QED
        BY <2>3, <2>4 DEF WaitingOK
<1>15. StackOK(s, Q, dal', call.op) /\ s \in Seq(Frame)
    <2> HIDE DEF waiting, top, Q
    <2>1. s = <<top>> \o waiting
        BY DEF s, waiting
    <2> QED
        BY <1>12, <1>14, <2>1, OnTop
<1>16. done \in [Ids -> DoneSet(Q, dal', call.op)] /\ done \in [Ids -> Ids \cup Dals \cup {None}]
    <2>1. call.done \in [Ids -> P \cup {None}]
        BY <1>5, <1>11 DEF DoneSet
    <2>2. \A i \in Ids : done[i] \in Q \cup {None}
        BY <2>1 DEF done
    <2>3. done \in [Ids -> Q \cup {None}] /\ Q \subseteq Ids
        BY <1>5, <1>6, <2>2 DEF done
    <2> HIDE DEF Q
    <2>4. done \in [Ids -> Ids \cup Dals \cup {None}]
        BY <2>3
    <2>5. DoneSet(Q, dal', call.op) = Q \cup {None}
        BY <1>11 DEF DoneSet
    <2> QED
        BY <2>3, <2>4, <2>5
<1>17. call' \in CallSet /\ call'.op = call.op /\ call'.stack = s /\ call'.done = done
    <2> DEFINE moved == call.moved \cup {old, new}
    <2>1. moved \in SUBSET Ids
        BY <1>5, <1>6 DEF CallSet
    <2>2. call' = [call EXCEPT !.moved = moved, !.done = done, !.stack = s]
        BY <1>4
    <2> HIDE DEF moved
    <2> QED
        BY <1>5, <1>15, <1>16, <2>1, <2>2 DEF CallSet
<1>18. CallOK(call', Q, dal')
    BY <1>15, <1>16, <1>17 DEF CallOK
<1>19. CacheOK(cache', dal') /\ dirty' \subseteq Made(dal')
    BY <1>1, <1>5, <1>9, CacheGrows
<1> HIDE DEF Q
<1> QED
    BY <1>7, <1>10, <1>18, <1>19 DEF RefInv

-----------------------------------------------------------------------------
LEMMA CallKeepsRefs ==
    ASSUME RefInv, CallNext
    PROVE  RefInv'
    BY RenameKeeps, RaisingKeeps, NoRenameKeeps, AddExistingKeeps, OpenKeeps, OpenRefusedKeeps,
       RelateKeeps, RelatedKeeps, StoreKeeps, VisitKeeps, DescendKeeps DEF CallNext

\* The database is opened whole, and nothing refers to a part of it yet.
LEMMA InitRefs == Init => RefInv
<1> SUFFICES ASSUME Init
             PROVE  RefInv
    OBVIOUS
<1>1. db = Stored /\ dal = [d \in Dals |-> None] /\ dirty = {} /\ call = NoCall
      /\ cache = [c \in Classes |-> [i \in Ids |-> None]]
    BY DEF Init
<1>2. DbOK(db)
    BY <1>1, StoredAssumption, DalAssumption DEF StoredAssumption, DalAssumption, DbOK, Stores, Object
<1>3. DalsOK(dal, Stores(db))
    BY <1>1 DEF DalsOK, Made
<1>4. CacheOK(cache, dal) /\ dirty \subseteq Made(dal)
    BY <1>1 DEF CacheOK
<1>5. CallOK(call, Stores(db), dal)
    <2>1. NoCall \in CallSet
        <3>1. db \in [Ids -> Object \cup {None}] /\ <<>> \in Seq(Frame)
            BY <1>2 DEF DbOK
        <3> QED
            BY <3>1 DEF NoCall, CallSet
    <2>2. NoCall.stack = <<>> /\ NoCall.done \in [Ids -> DoneSet(Stores(db), dal, NoCall.op)]
        BY DEF NoCall, DoneSet
    <2> QED
        BY <1>1, <2>1, <2>2 DEF CallOK, StackOK
<1> QED
    BY <1>2, <1>3, <1>4, <1>5 DEF RefInv

LEMMA RefInvariant == Spec => []RefInv
<1>1. RefInv /\ [Next]_vars => RefInv'
    <2> SUFFICES ASSUME RefInv, [Next]_vars
                 PROVE  RefInv'
        OBVIOUS
    <2>1. CASE Next
        BY <2>1, ClientKeepsRefs, CallKeepsRefs DEF Next
    <2>2. CASE UNCHANGED vars
        BY <2>2 DEF vars, RefInv
    <2> QED
        BY <2>1, <2>2
<1> QED
    BY <1>1, InitRefs, PTL DEF Spec

\* What destroy_dal destroyed, or what that was renamed to, is a name.
LEMMA GoneAreNames == Spec => [](gone \subseteq Ids)
<1>1. RefInv /\ gone \subseteq Ids /\ [Next]_vars => (gone \subseteq Ids)'
    <2> SUFFICES ASSUME RefInv, gone \subseteq Ids, [Next]_vars
                 PROVE  gone' \subseteq Ids
        OBVIOUS
    <2>1. CASE ClientNext
        <3>1. ASSUME NEW d \in Alive, destroy_dal(d)
              PROVE  gone' \subseteq Ids
            <4>1. Name(d) \in Ids
                BY LoadedExist DEF Name, DalObject
            <4> QED
                BY <3>1, <4>1 DEF destroy_dal
        <3>2. \/ UNCHANGED gone
              \/ \E d \in Alive : destroy_dal(d)
            BY <2>1 DEF ClientNext, Construct, SetAttribute, SetRelation, SetId, rename, Read, copy,
                        Start, get_dal, get_dals
        <3> QED
            BY <3>1, <3>2
    <2>2. CASE RenameStored
        <3>1. ~Idle /\ Name(Top.dal) \in Ids
            <4>1. ~Idle
                BY <2>2 DEF RenameStored, In
            <4> QED
                BY <4>1, TopOfStack DEF Name
        <3> QED
            BY <2>2, <3>1 DEF RenameStored
    <2>3. CASE CallNext /\ ~RenameStored
        BY <2>3 DEF CallNext, RenameFails, NoRename, AddExisting, Open, OpenRefused, Relate, Related,
                    RelatedFails, Store, Visit, Descend
    <2>4. CASE UNCHANGED vars
        BY <2>4 DEF vars
    <2> QED
        BY <2>1, <2>2, <2>3, <2>4 DEF Next
<1>2. Init => gone \subseteq Ids
    BY DEF Init
<1> QED
    BY <1>1, <1>2, RefInvariant, PTL DEF Spec

\* Through reads, renames, destroys and recursive calls that raise half way, no
\* object, DAL, handle, cache entry or frame refers to what is not there, for any
\* database that is opened without dangling references.
THEOREM DalTypeCorrect == Spec => []TypeOK
<1>1. RefInv /\ gone \subseteq Ids => TypeOK
    <2> SUFFICES ASSUME RefInv, gone \subseteq Ids
                 PROVE  TypeOK
        OBVIOUS
    <2>1. /\ db \in [Ids -> Object \cup {None}]
          /\ \A i \in Present : db[i].rel \subseteq Present
        BY AliveAreMade DEF RefInv, DbOK
    <2>2. dal \in [Dals -> DalObject \cup {None}] /\ dirty \subseteq Alive
        BY AliveAreMade DEF RefInv, DalsOK
    <2>3. \A d \in Alive : dal[d].rel \subseteq Alive /\ \A h \in HandlesOf(d) : h.alive => h.id \in Present
        BY AliveAreMade DEF RefInv, DalsOK, DalOK, HandlesOf
    <2>4. cache \in [Classes -> [Ids -> Dals \cup {None}]]
        <3> DEFINE A == Made(dal) \cup {None}
                   B == Dals \cup {None}
        <3>1. cache \in [Classes -> [Ids -> A]] /\ A \subseteq B
            BY DEF RefInv, CacheOK, Made
        <3> HIDE DEF A, B
        <3>2. cache \in [Classes -> [Ids -> B]]
            BY <3>1
        <3> QED
            BY <3>2 DEF B
    <2>5. call \in CallSet /\ call.stack \in Seq(Frame)
        BY DEF RefInv, CallOK, CallSet
    <2>6. /\ call.op \in Storing \cup {"getall", "none"}
          /\ \A n \in 1..Len(call.stack) : call.stack[n] \in Frame
          /\ call.done \in [Ids -> Ids \cup Dals \cup {None}]
        BY <2>5 DEF CallSet
    <2> QED
        BY <2>1, <2>2, <2>3, <2>4, <2>6 DEF TypeOK
<1> QED
    BY <1>1, RefInvariant, GoneAreNames, PTL

-----------------------------------------------------------------------------
(* What is cached reflects the database: the invariant.  A DAL that was       *)
(* renamed stands for the object of its old name as well, until the object    *)
(* is renamed too.  While a call stores an object, what is cached under its   *)
(* name may be behind.                                                        *)

NamesIn(D, S) == {D[e].id : e \in S}
StandsFor(o, n) == n \in {o.id, o.old}

\* The DAL of record o reflects the object b, but for names of g.
Mirrors(o, b, D, g) ==
    /\ o.attr \in {None, b.attr}
    /\ o.lazy # None => b.rel = {h.id : h \in {x \in o.lazy : x.alive}}
    /\ o.lazy = None => /\ \A n \in b.rel : \E e \in o.rel : StandsFor(D[e], n)
                        /\ \A e \in o.rel : \E n \in b.rel \cup g : StandsFor(D[e], n)

\* The names of the objects a call is storing
Pending(c, D) ==
    {D[c.stack[n].dal].id :
        n \in {m \in 1..Len(c.stack) : c.op \in Storing /\ c.stack[m].mode # "begin"}}

CacheMirrors(b, D, k, q, hidden, g) ==
    \A i \in Stores(b) \ hidden :
        LET d == k[ClassOf[i]][i]
        IN  d # None /\ D[d].id = i /\ d \notin q => Mirrors(D[d], b[i], D, g)

\* A frame f of a call that stores, which waits for the calls of the DALs in above:
\* its list has the names of the related DALs it has dealt with.
FrameMirrors(f, above, done, b, D) ==
    LET o == D[f.dal]
    IN  IF f.mode = "relate"
        THEN /\ f.obj = o.id /\ done[o.id] # None
             /\ o.attr \in {None, b[o.id].attr}
             /\ f.todo \subseteq o.rel /\ above \subseteq o.rel \ f.todo
             /\ f.val = NamesIn(D, (o.rel \ f.todo) \ above)
             /\ o.lazy # None => f.val = {} /\ above = {}
        ELSE done[o.id] = None /\ above = {}

Above(s, n) == IF n = 1 THEN {} ELSE {s[n - 1].dal}

StackMirrors(s, done, b, D) ==
    /\ \A m, n \in 1..Len(s) : m # n => D[s[m].dal].id # D[s[n].dal].id
    /\ \A n \in 1..Len(s) : FrameMirrors(s[n], Above(s, n), done, b, D)

\* A call notes an object under its own name, and only when a DAL has the name.
DoneMirrors(done, D) ==
    \A n \in Ids : done[n] # None => done[n] = n /\ \E e \in Made(D) : D[e].id = n

CallMirrors(c, b, D) ==
    c.op \in Storing => StackMirrors(c.stack, c.done, b, D) /\ DoneMirrors(c.done, D)

\* A handle that is marked dead has the name of an object that was destroyed.
DeadOK(o, g) == o # None /\ o.lazy # None => \A h \in o.lazy : h.alive \/ h.id \in g
DeadInv == \A e \in Dals : DeadOK(dal[e], gone)

MirrorInv ==
    ~blurred => /\ CallMirrors(call, db, dal)
                /\ CacheMirrors(db, dal, cache, dirty, Pending(call, dal), gone)

-----------------------------------------------------------------------------
(* What a reflection depends on.                                             *)

\* The DAL d and those it is related to are in E what they were in D, as far as a
\* reflection goes.
Alike(D, E, d) ==
    /\ E[d] = D[d]
    /\ \A e \in D[d].rel : E[e].id = D[e].id /\ E[e].old = D[e].old

LEMMA AlikeMirrors ==
    \A D, E, d, b, g : Alike(D, E, d) /\ Mirrors(D[d], b, D, g) => Mirrors(E[d], b, E, g)
    BY DEF Alike, Mirrors, StandsFor

\* A cached DAL exists.
LEMMA CachedIsMade ==
    ASSUME RefInv, NEW i \in Ids, cache[ClassOf[i]][i] # None
    PROVE  /\ cache[ClassOf[i]][i] \in Made(dal)
           /\ dal[cache[ClassOf[i]][i]] \in DalObject
           /\ dal[cache[ClassOf[i]][i]].rel \subseteq Made(dal)
<1>1. cache[ClassOf[i]][i] \in Made(dal)
    BY OwnClass DEF RefInv, CacheOK
<1> QED
    BY <1>1 DEF RefInv, DalsOK, DalOK

\* A frame follows its DAL: with the same DALs and attributes, it is as it was.
LEMMA SameFrame ==
    \A f, above, done, b, D, done2, b2, E :
        /\ FrameMirrors(f, above, done, b, D)
        /\ E[f.dal] = D[f.dal] /\ \A e \in D[f.dal].rel : E[e].id = D[e].id
        /\ f.mode = "relate" => b2[D[f.dal].id].attr = b[D[f.dal].id].attr
        /\ done2[D[f.dal].id] = None <=> done[D[f.dal].id] = None
        => FrameMirrors(f, above, done2, b2, E)
<1> SUFFICES ASSUME NEW f, NEW above, NEW done, NEW b, NEW D, NEW done2, NEW b2, NEW E,
                    FrameMirrors(f, above, done, b, D),
                    E[f.dal] = D[f.dal], \A e \in D[f.dal].rel : E[e].id = D[e].id,
                    f.mode = "relate" => b2[D[f.dal].id].attr = b[D[f.dal].id].attr,
                    done2[D[f.dal].id] = None <=> done[D[f.dal].id] = None
             PROVE  FrameMirrors(f, above, done2, b2, E)
    OBVIOUS
<1>1. CASE f.mode = "relate"
    <2>1. \A S : NamesIn(E, (D[f.dal].rel \ f.todo) \ S) = NamesIn(D, (D[f.dal].rel \ f.todo) \ S)
        BY DEF NamesIn
    <2> QED
        BY <1>1, <2>1 DEF FrameMirrors
<1>2. CASE f.mode # "relate"
    BY <1>2 DEF FrameMirrors
<1> QED
    BY <1>1, <1>2

\* Between calls nothing is being stored.
LEMMA NothingPending ==
    /\ \A D : Pending(NoCall, D) = {}
    /\ \A b, D : CallMirrors(NoCall, b, D)
    /\ Idle => Pending(call, dal) = {}
<1>1. NoCall.op = "none" /\ "none" \notin Storing
    BY DEF NoCall, Storing
<1>2. Idle => Len(call.stack) = 0
    BY DEF Idle
<1> QED
    BY <1>1, <1>2 DEF Pending, CallMirrors

-----------------------------------------------------------------------------
(* Reading.                                                                  *)

\* A DAL that was just read reflects its object.
LEMMA ReadMirrors ==
    ASSUME RefInv, NEW i \in Stores(db), NEW D
    PROVE  Mirrors(as_dal(i), db[i], D, gone)
<1>1. db[i] \in Object
    BY DEF RefInv, DbOK, Stores
<1>2. /\ as_dal(i).attr = db[i].attr /\ as_dal(i).lazy = getitem(i)
    BY DEF as_dal, NewDal
<1>3. getitem(i) # None
    <2>1. \A h \in getitem(i) : h \in Handle
        <3> SUFFICES ASSUME NEW h \in getitem(i)
                     PROVE  h \in Handle
            OBVIOUS
        <3>1. PICK j \in db[i].rel : h = [id |-> j, alive |-> TRUE]
            BY DEF getitem
        <3> QED
            BY <1>1, <3>1 DEF Handle, Object
    <2> QED
        BY <2>1, StoredAssumption DEF StoredAssumption
<1>4. db[i].rel = {h.id : h \in {g \in getitem(i) : g.alive}}
    <2>1. \A h \in getitem(i) : h.alive /\ h.id \in db[i].rel
        BY DEF getitem
    <2>2. \A n \in db[i].rel : [id |-> n, alive |-> TRUE] \in getitem(i)
        BY DEF getitem
    <2>3. \A n \in db[i].rel : [id |-> n, alive |-> TRUE].alive /\ [id |-> n, alive |-> TRUE].id = n
        OBVIOUS
    <2> HIDE DEF getitem
    <2>4. \A n \in db[i].rel : n \in {h.id : h \in {g \in getitem(i) : g.alive}}
        BY <2>2, <2>3
    <2>5. \A n \in {h.id : h \in {g \in getitem(i) : g.alive}} : n \in db[i].rel
        BY <2>1
    <2> QED
        BY <2>4, <2>5
<1> QED
    BY <1>2, <1>3, <1>4 DEF Mirrors

\* DALs that are given to objects reflect them; the others are as they were.
LEMMA LoadedMirror ==
    ASSUME RefInv, NEW I \in SUBSET Stores(db), NEW f \in [I -> Free], NEW hidden,
           CacheMirrors(db, dal, cache, dirty, hidden, gone)
    PROVE  CacheMirrors(db, WithDals(f), Cached(f), dirty, hidden, gone)
<1> DEFINE W == WithDals(f)
           k == Cached(f)
<1> SUFFICES ASSUME NEW i \in Stores(db) \ hidden, NEW d, d = k[ClassOf[i]][i],
                    d # None, W[d].id = i, d \notin dirty
             PROVE  Mirrors(W[d], db[i], W, gone)
    BY DEF CacheMirrors
<1>1. i \in Ids /\ ClassOf[i] \in Classes /\ ClassOf[i] \in OksTypes[ClassOf[i]] /\ DOMAIN f = I
    BY OwnClass DEF Stores
<1>2. d = IF i \in I THEN f[i] ELSE cache[ClassOf[i]][i]
    BY <1>1 DEF Cached
<1>3. \A e \in Made(dal) : W[e] = dal[e]
    BY DalsAreRead
<1> HIDE DEF k
<1>4. CASE i \in I
    <2> DEFINE j == CHOOSE n \in I : f[n] = d
    <2>1. j \in I /\ d \in Dals
        BY <1>2, <1>4 DEF Free
    <2>2. W[d] = as_dal(j)
        BY <1>1, <1>2, <1>4, <2>1 DEF WithDals
    <2> HIDE DEF j, W
    <2>3. as_dal(j).id = j
        BY DEF as_dal, NewDal
    <2>4. j = i
        BY <2>2, <2>3
    <2> QED
        BY <2>2, <2>4, ReadMirrors
<1>5. CASE i \notin I
    <2>1. d \in Made(dal) /\ dal[d].rel \subseteq Made(dal)
        BY <1>1, <1>2, <1>5, CachedIsMade
    <2>2. Alike(dal, W, d)
        BY <1>3, <2>1 DEF Alike
    <2>3. Mirrors(dal[d], db[i], dal, gone)
        BY <1>2, <1>3, <1>5, <2>1 DEF CacheMirrors
    <2> HIDE DEF W
    <2> QED
        BY <2>2, <2>3, AlikeMirrors
<1> QED
    BY <1>4, <1>5

\* The getter changes the relationship of its DAL, and of no other that there was.
LEMMA GetterChanges ==
    ASSUME RefInv, NEW d \in Alive, ReadRelation(d)
    PROVE  LET f == Fresh(ToLoad(d))
               W == WithDals(f)
           IN  /\ f \in [ToLoad(d) -> Free] /\ ToLoad(d) \in SUBSET Stores(db)
               /\ \A i, j \in ToLoad(d) : i # j => f[i] # f[j]
               /\ cache' = Cached(f)
               /\ Made(W) = Made(dal) \cup {f[i] : i \in ToLoad(d)}
               /\ d \in Made(dal) /\ W[d] = dal[d] /\ \A e \in Made(dal) : W[e] = dal[e]
               /\ \A e \in Made(W) \ {d} : dal'[e] = W[e]
               /\ dal'[d].rel = {cache'[ClassOf[h.id]][h.id] : h \in HandlesOf(d)}
               /\ dal'[d].id = dal[d].id /\ dal'[d].old = dal[d].old
               /\ dal'[d].attr = dal[d].attr /\ dal'[d].lazy = None
<1> DEFINE I == ToLoad(d)
           f == Fresh(I)
           W == WithDals(f)
           R == {cache'[ClassOf[h.id]][h.id] : h \in HandlesOf(d)}
<1>1. /\ Cardinality(I) <= Cardinality(Free)
      /\ cache' = Cached(f)
      /\ dal' = [W EXCEPT ![d].rel = R, ![d].lazy = None]
    BY DEF ReadRelation
<1>2. I \in SUBSET Stores(db) /\ d \in Made(dal) /\ d \in Dals
    BY LoadedExist, AliveAreMade DEF Made
<1>3. f \in [I -> Free] /\ \A i, j \in I : i # j => f[i] # f[j]
    BY <1>1, <1>2, FreshOfFree DEF Stores
<1> HIDE DEF I, f, W
<1>4. Made(W) = Made(dal) \cup {f[i] : i \in I} /\ DalsOK(W, Stores(db)) /\ \A e \in Made(dal) : W[e] = dal[e]
    BY <1>2, <1>3, DalsAreRead DEF W
<1>5. W \in [Dals -> DalObject \cup {None}] /\ W[d] \in DalObject /\ d \in Made(W)
    BY <1>2, <1>4 DEF DalsOK, DalOK
<1> HIDE DEF R
<1>6. \A e \in Made(W) \ {d} : dal'[e] = W[e]
    BY <1>1, <1>5 DEF Made
<1>7. /\ dal'[d].rel = R /\ dal'[d].lazy = None
      /\ dal'[d].id = W[d].id /\ dal'[d].old = W[d].old /\ dal'[d].attr = W[d].attr
    BY <1>1, <1>2, <1>5 DEF DalObject
<1> QED
    BY <1>1, <1>2, <1>3, <1>4, <1>6, <1>7 DEF I, f, W, R

\* A handle becomes a DAL that stands for its object, if the one cached does.
LEMMA HandleStandsFor ==
    ASSUME RefInv, NEW d \in Alive, ReadRelation(d), NEW h \in HandlesOf(d), Keyed(h.id)
    PROVE  LET e == cache'[ClassOf[h.id]][h.id] IN StandsFor(dal'[e], h.id)
<1> DEFINE I == ToLoad(d)
           f == Fresh(I)
           W == WithDals(f)
           n == h.id
           e == cache'[ClassOf[n]][n]
<1>1. /\ f \in [I -> Free] /\ \A i, j \in I : i # j => f[i] # f[j]
      /\ cache' = Cached(f)
      /\ \A g \in Made(dal) : W[g] = dal[g]
      /\ \A g \in Made(W) \ {d} : dal'[g] = W[g]
      /\ dal'[d].id = dal[d].id /\ dal'[d].old = dal[d].old
      /\ Made(W) = Made(dal) \cup {f[i] : i \in I}
    BY GetterChanges
<1>2. n \in Ids /\ ClassOf[n] \in Classes /\ ClassOf[n] \in OksTypes[ClassOf[n]]
    BY LoadedExist, OwnClass
<1>3. e = IF n \in I THEN f[n] ELSE cache[ClassOf[n]][n]
    BY <1>1, <1>2 DEF Cached
<1> HIDE DEF e
<1>4. CASE n \in I
    <2> DEFINE j == CHOOSE i \in I : f[i] = e
    <2>1. e = f[n] /\ e \in Free /\ e \in Dals /\ e \in Made(W)
        BY <1>1, <1>3, <1>4 DEF Free
    <2>2. j \in I /\ f[j] = f[n]
        BY <1>4, <2>1
    <2>3. j = n
        BY <1>1, <1>4, <2>2
    <2>4. W[e] = as_dal(j)
        BY <1>1, <1>4, <2>1 DEF WithDals
    <2>5. e # d
        BY <2>1, AliveAreMade
    <2> HIDE DEF j, W, f, I, n
    <2>6. dal'[e] = as_dal(n)
        BY <1>1, <2>1, <2>3, <2>4, <2>5
    <2>7. StandsFor(dal'[e], n)
        BY <2>6 DEF StandsFor, as_dal, NewDal
    <2> QED
        BY <2>7 DEF e, n
<1>5. CASE n \notin I
    <2>1. IsCached(n) /\ e # None /\ e = cache[ClassOf[n]][n]
        <3>1. {x.id : x \in Broken(d)} \subseteq I
            BY DEF ReadRelation
        <3>2. IsCached(n)
            BY <1>5, <3>1 DEF ToLoad, Broken
        <3> QED
            BY <1>3, <1>5, <3>2 DEF IsCached
    <2>2. e \in Made(dal) /\ e \in Made(W)
        BY <1>1, <1>2, <2>1, CachedIsMade
    <2>3. n \in {dal[e].id, dal[e].old}
        BY <2>1 DEF Keyed, Name
    <2>4. dal'[e].id = dal[e].id /\ dal'[e].old = dal[e].old
        BY <1>1, <2>2
    <2>5. StandsFor(dal'[e], n)
        BY <2>3, <2>4 DEF StandsFor
    <2> QED
        BY <2>5 DEF e, n
<1> QED
    BY <1>4, <1>5

\* The getter of a relationship leaves what is cached reflecting the database: a DAL
\* of which all handles were found relates to DALs that stand for the objects.
LEMMA ReadingMirrors ==
    ASSUME RefInv, DeadInv, NEW d \in Alive, ReadRelation(d), NEW hidden,
           CacheMirrors(db, dal, cache, dirty, hidden, gone)
    PROVE  CacheMirrors(db, dal', cache', dirty', hidden, gone)
<1> DEFINE f == Fresh(ToLoad(d))
           W == WithDals(f)
<1>1. /\ f \in [ToLoad(d) -> Free] /\ ToLoad(d) \in SUBSET Stores(db)
      /\ cache' = Cached(f)
      /\ Made(W) = Made(dal) \cup {f[i] : i \in ToLoad(d)}
      /\ d \in Made(dal) /\ W[d] = dal[d] /\ \A e \in Made(dal) : W[e] = dal[e]
      /\ \A e \in Made(W) \ {d} : dal'[e] = W[e]
      /\ dal'[d].rel = {cache'[ClassOf[h.id]][h.id] : h \in HandlesOf(d)}
      /\ dal'[d].id = dal[d].id /\ dal'[d].old = dal[d].old
      /\ dal'[d].attr = dal[d].attr /\ dal'[d].lazy = None
    BY GetterChanges
<1>2. /\ ~IsRead(d)
      /\ dirty' = dirty \cup IF \A h \in HandlesOf(d) : Keyed(h.id) THEN {} ELSE {d}
    BY DEF ReadRelation
<1>3. CacheMirrors(db, W, Cached(f), dirty, hidden, gone) /\ CacheOK(Cached(f), W) /\ DalsOK(W, Stores(db))
    BY <1>1, LoadedMirror, DalsAreRead
<1> HIDE DEF f, W
<1> SUFFICES ASSUME NEW i \in Stores(db) \ hidden, NEW x, x = cache'[ClassOf[i]][i],
                    x # None, dal'[x].id = i, x \notin dirty'
             PROVE  Mirrors(dal'[x], db[i], dal', gone)
    BY DEF CacheMirrors
<1>4. x \in Made(W) /\ W[x].rel \subseteq Made(W)
    <2>1. ClassOf[i] \in Classes /\ i \in Ids
        BY OwnClass DEF Stores
    <2>2. x \in Made(W)
        BY <1>1, <1>3, <2>1 DEF CacheOK
    <2> QED
        BY <1>3, <2>2 DEF DalsOK, DalOK
<1>5. Mirrors(W[x], db[i], W, gone)
    <2>1. W[x].id = i
        BY <1>1, <1>4
    <2>2. x \notin dirty
        BY <1>2
    <2> QED
        BY <1>1, <1>3, <2>1, <2>2 DEF CacheMirrors
<1>6. CASE x # d
    <2>1. Alike(W, dal', x)
        BY <1>1, <1>4, <1>6 DEF Alike
    <2> QED
        BY <1>5, <2>1, AlikeMirrors
<1>7. CASE x = d
    <2>1. \A h \in HandlesOf(d) : Keyed(h.id)
        BY <1>2, <1>7
    <2>2. W[d].lazy # None /\ HandlesOf(d) = W[d].lazy
        BY <1>1, <1>2 DEF IsRead, HandlesOf
    <2>3. dal'[d].attr \in {None, db[i].attr} /\ db[i].rel = {h.id : h \in {g \in W[d].lazy : g.alive}}
        BY <1>1, <1>5, <1>7, <2>2 DEF Mirrors
    <2>4. ASSUME NEW n \in db[i].rel
          PROVE  \E e \in dal'[d].rel : StandsFor(dal'[e], n)
        <3>1. PICK h \in HandlesOf(d) : h.id = n
            BY <2>2, <2>3
        <3>2. StandsFor(dal'[cache'[ClassOf[n]][n]], n)
            BY <2>1, <3>1, HandleStandsFor
        <3> QED
            BY <1>1, <3>1, <3>2
    <2>5. ASSUME NEW e \in dal'[d].rel
          PROVE  \E n \in db[i].rel \cup gone : StandsFor(dal'[e], n)
        <3>1. PICK h \in HandlesOf(d) : e = cache'[ClassOf[h.id]][h.id]
            BY <1>1
        <3>2. StandsFor(dal'[e], h.id)
            BY <2>1, <3>1, HandleStandsFor
        <3>3. h.id \in db[i].rel \cup gone
            <4>1. d \in Dals /\ dal[d] # None /\ dal[d].lazy # None /\ h \in dal[d].lazy
                BY <1>1, <2>2 DEF Made
            <4>2. h.alive \/ h.id \in gone
                BY <4>1 DEF DeadInv, DeadOK
            <4> QED
                BY <1>1, <2>2, <2>3, <4>1, <4>2
        <3> QED
            BY <3>2, <3>3
    <2>6. Mirrors(dal'[d], db[i], dal', gone)
        BY <1>1, <2>3, <2>4, <2>5 DEF Mirrors
    <2> QED
        BY <1>7, <2>6
<1> QED
    BY <1>6, <1>7

-----------------------------------------------------------------------------
(* The operations of a client.                                               *)

\* Between calls the invariant is about what is cached.
LEMMA ClientMirrors ==
    ASSUME RefInv, MirrorInv, Client,
           ~blurred' => ~blurred /\
               (CacheMirrors(db, dal, cache, dirty, {}, gone) => CacheMirrors(db', dal', cache', dirty', {}, gone'))
    PROVE  MirrorInv'
<1>1. call' = NoCall /\ Idle
    BY DEF Client
<1>2. Pending(call, dal) = {} /\ Pending(call', dal') = {} /\ CallMirrors(call', db', dal')
    <2>1. Pending(NoCall, dal') = {} /\ CallMirrors(NoCall, db', dal')
        BY NothingPending
    <2> QED
        BY <1>1, <2>1, NothingPending
<1>3. MirrorInv => (~blurred => CacheMirrors(db, dal, cache, dirty, {}, gone))
    BY <1>2 DEF MirrorInv
<1>4. ~blurred' => CacheMirrors(db', dal', cache', dirty', {}, gone')
    BY <1>3
<1> QED
    BY <1>2, <1>4 DEF MirrorInv

\* One DAL is made or changed, and what is neither it nor changed goes on reflecting.
LEMMA OneDalMirrors ==
    ASSUME RefInv, UNCHANGED <<db, cache>>, NEW x, x \in dirty', dirty \subseteq dirty',
           \A d \in Made(dal) \ {x} : dal'[d] = dal[d],
           \A d \in Made(dal) \ dirty', i \in Stores(db) :
               Mirrors(dal[d], db[i], dal, gone) => Mirrors(dal[d], db[i], dal', gone),
           CacheMirrors(db, dal, cache, dirty, {}, gone)
    PROVE  CacheMirrors(db', dal', cache', dirty', {}, gone)
<1> SUFFICES ASSUME NEW i \in Stores(db), NEW d, d = cache[ClassOf[i]][i],
                    d # None, dal'[d].id = i, d \notin dirty'
             PROVE  Mirrors(dal'[d], db[i], dal', gone)
    BY DEF CacheMirrors
<1>1. d \in Made(dal) /\ d # x /\ d \notin dirty
    BY CachedIsMade DEF Stores
<1>2. dal'[d] = dal[d]
    BY <1>1
<1>3. Mirrors(dal[d], db[i], dal, gone)
    BY <1>1, <1>2 DEF CacheMirrors
<1> QED
    BY <1>1, <1>2, <1>3

\* The other DALs are unaffected when the names of the one that changes stay.
LEMMA SameNamesMirror ==
    ASSUME RefInv, NEW d \in Made(dal), NEW b,
           \A e \in Made(dal) : dal'[e].id = dal[e].id /\ dal'[e].old = dal[e].old,
           Mirrors(dal[d], b, dal, gone)
    PROVE  Mirrors(dal[d], b, dal', gone)
<1>1. dal[d].rel \subseteq Made(dal)
    BY DEF RefInv, DalsOK, DalOK
<1> QED
    BY <1>1 DEF Mirrors, StandsFor

LEMMA ConstructMirrors ==
    ASSUME RefInv, MirrorInv, Construct
    PROVE  MirrorInv'
<1>1. FirstFree \in Free /\ FirstFree \notin Made(dal)
    BY FirstOfFree, AliveAreMade DEF Construct
<1>2. PICK o : dal' = [dal EXCEPT ![FirstFree] = o]
    BY DEF Construct
<1>3. \A e \in Made(dal) : dal'[e] = dal[e]
    BY <1>1, <1>2 DEF RefInv, DalsOK, Made
<1>4. \A d \in Made(dal) \ dirty', i \in Stores(db) :
          Mirrors(dal[d], db[i], dal, gone) => Mirrors(dal[d], db[i], dal', gone)
    BY <1>3, SameNamesMirror
<1>5. /\ Client /\ blurred' = blurred /\ UNCHANGED <<db, cache, gone>>
      /\ FirstFree \in dirty' /\ dirty \subseteq dirty'
    BY DEF Construct
<1>6. CacheMirrors(db, dal, cache, dirty, {}, gone) => CacheMirrors(db', dal', cache', dirty', {}, gone)
    BY <1>3, <1>4, <1>5, OneDalMirrors
<1> QED
    BY <1>5, <1>6, ClientMirrors

\* The setters and copy: the DAL is changed, but not its names.
LEMMA SettersMirror ==
    ASSUME RefInv, MirrorInv, NEW d \in Alive,
           SetAttribute(d) \/ SetRelation(d) \/ \E e \in Alive : copy(d, e)
    PROVE  MirrorInv'
<1>1. /\ Client /\ blurred' = blurred /\ UNCHANGED <<db, cache, gone>>
      /\ d \in dirty' /\ dirty \subseteq dirty'
    BY DEF SetAttribute, SetRelation, copy
<1>2. dal \in [Dals -> DalObject \cup {None}] /\ d \in Dals /\ dal[d] \in DalObject
    BY LoadedExist DEF RefInv, DalsOK, Alive
<1>3. \A e \in Made(dal) \ {d} : dal'[e] = dal[e]
    BY <1>2 DEF SetAttribute, SetRelation, copy, Made
<1>4. dal'[d].id = dal[d].id /\ dal'[d].old = dal[d].old
    <2>1. CASE SetAttribute(d)
        BY <1>2, <2>1 DEF SetAttribute, DalObject
    <2>2. CASE SetRelation(d)
        BY <1>2, <2>2 DEF SetRelation, DalObject
    <2>3. ASSUME NEW e \in Alive, copy(d, e)
          PROVE  dal'[d].id = dal[d].id /\ dal'[d].old = dal[d].old
        BY <1>2, <2>3 DEF copy, DalObject
    <2> QED
        BY <2>1, <2>2, <2>3
<1>5. \A e \in Made(dal) \ dirty', i \in Stores(db) :
          Mirrors(dal[e], db[i], dal, gone) => Mirrors(dal[e], db[i], dal', gone)
    BY <1>3, <1>4, SameNamesMirror
<1>6. CacheMirrors(db, dal, cache, dirty, {}, gone) => CacheMirrors(db', dal', cache', dirty', {}, gone)
    BY <1>1, <1>3, <1>5, OneDalMirrors
<1> QED
    BY <1>1, <1>6, ClientMirrors

\* Another id, or a new name: a DAL that is related to it either counts as changed or
\* finds the name it had among the two it has now.
LEMMA NamingMirrors ==
    ASSUME RefInv, gone \subseteq Ids, MirrorInv, NEW d \in Alive, SetId(d) \/ rename(d)
    PROVE  MirrorInv'
<1>1. /\ Client /\ blurred' = blurred /\ UNCHANGED <<db, cache, gone>>
      /\ d \in dirty' /\ dirty \subseteq dirty'
    BY DEF SetId, rename
<1>2. dal \in [Dals -> DalObject \cup {None}] /\ d \in Dals /\ dal[d] \in DalObject
    BY LoadedExist DEF RefInv, DalsOK, Alive
<1>3. \A e \in Made(dal) \ {d} : dal'[e] = dal[e]
    BY <1>2 DEF SetId, rename, Made
<1>4. ASSUME NEW x \in Made(dal) \ dirty', NEW i \in Stores(db), Mirrors(dal[x], db[i], dal, gone)
      PROVE  Mirrors(dal[x], db[i], dal', gone)
    <2>1. dal[x].rel \subseteq Made(dal) /\ x \in Alive /\ x \in Made(dal)
        BY AliveAreMade DEF RefInv, DalsOK, DalOK
    <2>2. db[i].rel \subseteq Stores(db) /\ None \notin Stores(db) \cup gone
        BY NoneIsNoRecord DEF RefInv, DbOK, Stores
    <2>3. CASE d \notin dal[x].rel
        BY <1>3, <1>4, <2>1, <2>3 DEF Mirrors, StandsFor
    <2>4. CASE d \in dal[x].rel
        <3>1. ~SetId(d)
            BY <2>1, <2>4 DEF SetId
        <3>2. PICK j \in Ids :
                  dal' = [dal EXCEPT ![d].id = j, ![d].old = IF @ = None THEN Name(d) ELSE @]
            BY <3>1 DEF rename
        <3>3. dal'[d].old = IF dal[d].old = None THEN dal[d].id ELSE dal[d].old
            BY <1>2, <3>2 DEF DalObject, Name
        <3>4. dal[d].old = None \/ dal[d].id \notin Stores(db) \cup gone
            <4>1. dirty' = dirty \cup {d} \cup
                               {e \in Alive : d \in dal[e].rel /\ dal[d].old # None /\ Name(d) \in Present \cup gone}
                BY <3>1 DEF rename
            <4> QED
                BY <2>1, <2>4, <4>1, AliveAreMade DEF Name
        <3>5. \A n \in db[i].rel \cup gone : StandsFor(dal[d], n) => StandsFor(dal'[d], n)
            BY <2>2, <3>3, <3>4 DEF StandsFor
        <3>6. \A n \in db[i].rel \cup gone, e \in dal[x].rel : StandsFor(dal[e], n) => StandsFor(dal'[e], n)
            BY <1>3, <2>1, <3>5
        <3> QED
            BY <1>4, <3>6 DEF Mirrors
    <2> QED
        BY <2>3, <2>4
<1>5. CacheMirrors(db, dal, cache, dirty, {}, gone) => CacheMirrors(db', dal', cache', dirty', {}, gone)
    BY <1>1, <1>3, <1>4, OneDalMirrors
<1> QED
    BY <1>1, <1>5, ClientMirrors

LEMMA ReadsMirror ==
    ASSUME RefInv, DeadInv, MirrorInv, NEW d \in Alive, Read(d)
    PROVE  MirrorInv'
<1>1. Client /\ UNCHANGED <<db, gone>>
    BY DEF Read
<1>2. ~blurred' => ~blurred /\ ReadRelation(d)
    BY DEF Read
<1>3. ~blurred' => (CacheMirrors(db, dal, cache, dirty, {}, gone) => CacheMirrors(db', dal', cache', dirty', {}, gone))
    BY <1>1, <1>2, ReadingMirrors
<1> QED
    BY <1>1, <1>2, <1>3, ClientMirrors

\* get_dal and get_dals
LEMMA GettersMirror ==
    ASSUME RefInv, MirrorInv, Client, UNCHANGED <<db, dirty, gone, blurred>>,
           NEW I \in SUBSET Stores(db), Cardinality(I) <= Cardinality(Free),
           dal' = WithDals(Fresh(I)), cache' = Cached(Fresh(I))
    PROVE  MirrorInv'
<1>1. Fresh(I) \in [I -> Free]
    BY FreshOfFree DEF Stores
<1>2. CacheMirrors(db, dal, cache, dirty, {}, gone) => CacheMirrors(db', dal', cache', dirty', {}, gone)
    BY <1>1, LoadedMirror
<1> QED
    BY <1>2, ClientMirrors

LEMMA GetsMirror ==
    ASSUME RefInv, MirrorInv, (\E i \in Ids : get_dal(i)) \/ (\E C : get_dals(C))
    PROVE  MirrorInv'
<1>1. ASSUME NEW i \in Ids, get_dal(i)
      PROVE  MirrorInv'
    <2>1. {i} \in SUBSET Stores(db) /\ Free # {}
        BY <1>1, AliveAreMade DEF get_dal
    <2>2. Cardinality({i}) <= Cardinality(Free)
        <3>1. IsFiniteSet(Free)
            BY FS_Subset, DalAssumption DEF DalAssumption, Free
        <3>2. Cardinality(Free) \in Nat /\ Cardinality(Free) # 0 /\ Cardinality({i}) = 1
            BY <2>1, <3>1, FS_CardinalityType, FS_EmptySet, FS_Singleton
        <3> QED
            BY <3>2
    <2>3. Client /\ UNCHANGED <<db, dirty, gone, blurred>> /\ dal' = WithDals(Fresh({i})) /\ cache' = Cached(Fresh({i}))
        BY <1>1 DEF get_dal
    <2> QED
        BY <2>1, <2>2, <2>3, GettersMirror
<1>2. ASSUME NEW C, get_dals(C)
      PROVE  MirrorInv'
    <2> DEFINE I == {i \in Present : \E c \in C : c \in OksTypes[ClassOf[i]] /\ cache[c][i] = None}
    <2>1. I \in SUBSET Stores(db)
        BY AliveAreMade
    <2>2. /\ Client /\ UNCHANGED <<db, dirty, gone, blurred>> /\ Cardinality(I) <= Cardinality(Free)
          /\ dal' = WithDals(Fresh(I)) /\ cache' = Cached(Fresh(I))
        BY <1>2 DEF get_dals
    <2> HIDE DEF I
    <2> QED
        BY <2>1, <2>2, GettersMirror
<1> QED
    BY <1>1, <1>2

\* Destroying an object: DALs that are related to one that stands for it go on naming
\* it, and unread relationships lose it with the object that lists it.
LEMMA DestroyMirrors ==
    ASSUME RefInv, MirrorInv, NEW d \in Alive, destroy_dal(d)
    PROVE  MirrorInv'
<1> DEFINE i == Name(d)
           Dead(h) == IF h.id = i THEN [h EXCEPT !.alive = FALSE] ELSE h
<1>1. /\ Client /\ blurred' = blurred /\ dirty' = dirty /\ gone' = gone \cup {i}
      /\ db' = [j \in Ids |-> IF j = i \/ db[j] = None THEN None ELSE [db[j] EXCEPT !.rel = @ \ {i}]]
      /\ dal' = [e \in Dals |->
                   IF e \in Alive /\ ~IsRead(e)
                   THEN [dal[e] EXCEPT !.lazy = {Dead(h) : h \in @}]
                   ELSE dal[e]]
      /\ cache' = Uncached(i)
    BY DEF destroy_dal
<1>2. ASSUME NEW e \in Made(dal)
      PROVE  /\ e \in Alive /\ dal[e] \in DalObject /\ dal[e].rel \subseteq Made(dal)
             /\ dal'[e].id = dal[e].id /\ dal'[e].old = dal[e].old
             /\ dal'[e].attr = dal[e].attr /\ dal'[e].rel = dal[e].rel
             /\ dal'[e].lazy = IF IsRead(e) THEN None ELSE {Dead(h) : h \in dal[e].lazy}
    <2>1. dal[e] \in DalObject /\ e \in Dals /\ e \in Alive /\ dal[e].rel \subseteq Made(dal)
        BY AliveAreMade DEF RefInv, DalsOK, DalOK, Made
    <2>2. CASE IsRead(e)
        BY <1>1, <2>1, <2>2 DEF IsRead
    <2>3. CASE ~IsRead(e)
        <3>1. dal'[e] = [dal[e] EXCEPT !.lazy = {Dead(h) : h \in dal[e].lazy}]
            BY <1>1, <2>1, <2>3
        <3> HIDE DEF Dead
        <3> QED
            BY <2>1, <2>3, <3>1 DEF DalObject
    <2> QED
        BY <2>1, <2>2, <2>3
<1> HIDE DEF i
<1>3. ASSUME CacheMirrors(db, dal, cache, dirty, {}, gone)
      PROVE  CacheMirrors(db', dal', cache', dirty', {}, gone')
    <2> SUFFICES ASSUME NEW j \in Stores(db'), NEW x, x = cache'[ClassOf[j]][j],
                        x # None, dal'[x].id = j, x \notin dirty'
                 PROVE  Mirrors(dal'[x], db'[j], dal', gone')
        BY DEF CacheMirrors
    <2>1. j \in Ids /\ j # i /\ j \in Stores(db) /\ ClassOf[j] \in Classes
        BY <1>1, OwnClass DEF Stores
    <2>2. db'[j].rel = db[j].rel \ {i} /\ db'[j].attr = db[j].attr /\ db[j].rel \subseteq Ids
        <3>1. db[j] \in Object
            BY <2>1 DEF RefInv, DbOK, Stores
        <3>2. db'[j] = [db[j] EXCEPT !.rel = @ \ {i}]
            BY <1>1, <2>1 DEF Stores
        <3> QED
            BY <3>1, <3>2 DEF Object
    <2>3. x = cache[ClassOf[j]][j]
        <3>1. cache[ClassOf[j]] \in [Ids -> Made(dal) \cup {None}]
            BY <2>1 DEF RefInv, CacheOK
        <3> QED
            BY <1>1, <2>1, <3>1 DEF Uncached
    <2>4. x \in Made(dal) /\ x \notin dirty
        BY <1>1, <2>1, <2>3, CachedIsMade
    <2>5. Mirrors(dal[x], db[j], dal, gone)
        BY <1>2, <1>3, <2>1, <2>3, <2>4 DEF CacheMirrors
    <2>6. CASE IsRead(x)
        <3>1. dal[x].lazy = None /\ dal'[x].lazy = None
            BY <1>2, <2>4, <2>6 DEF IsRead
        <3>2. \A e \in dal[x].rel : \A n : StandsFor(dal'[e], n) <=> StandsFor(dal[e], n)
            BY <1>2, <2>4 DEF StandsFor
        <3>3. i \in gone' /\ gone \subseteq gone'
            BY <1>1
        <3>4. dal'[x].attr = dal[x].attr /\ dal'[x].rel = dal[x].rel
            BY <1>2, <2>4
        <3>5. \A n \in db'[j].rel : \E e \in dal[x].rel : StandsFor(dal'[e], n)
            BY <2>2, <2>5, <3>1, <3>2 DEF Mirrors
        <3>6. \A e \in dal[x].rel : \E n \in db'[j].rel \cup gone' : StandsFor(dal'[e], n)
            BY <2>2, <2>5, <3>1, <3>2, <3>3 DEF Mirrors
        <3> QED
            BY <2>2, <2>5, <3>1, <3>4, <3>5, <3>6 DEF Mirrors
    <2>7. CASE ~IsRead(x)
        <3> DEFINE L == {Dead(h) : h \in dal[x].lazy}
        <3>1. dal[x].lazy # None /\ dal[x].lazy \in SUBSET Handle /\ dal'[x].lazy = L
            BY <1>2, <2>4, <2>7 DEF IsRead, DalObject
        <3>2. L # None
            <4>1. \A h \in dal[x].lazy : Dead(h) \in Handle
                BY <3>1 DEF Handle
            <4>2. L \in SUBSET Handle
                BY <4>1
            <4> HIDE DEF L
            <4> QED
                BY <4>2, StoredAssumption DEF StoredAssumption
        <3>3. db[j].rel = {h.id : h \in {g \in dal[x].lazy : g.alive}}
            BY <2>5, <3>1 DEF Mirrors
        <3>4. db[j].rel \ {i} = {h.id : h \in {g \in L : g.alive}}
            <4>1. \A h \in dal[x].lazy : Dead(h).id = h.id /\ (Dead(h).alive = TRUE <=> h.alive = TRUE /\ h.id # i)
                BY <3>1 DEF Handle
            <4>2. \A h \in dal[x].lazy : h.alive \in BOOLEAN /\ Dead(h).alive \in BOOLEAN
                BY <3>1 DEF Handle
            <4> HIDE DEF Dead
            <4>3. ASSUME NEW n \in db[j].rel \ {i}
                  PROVE  n \in {h.id : h \in {g \in L : g.alive}}
                <5>1. PICK h \in dal[x].lazy : h.alive /\ h.id = n
                    BY <3>3
                <5>2. Dead(h) \in L /\ Dead(h).id = n /\ Dead(h).alive
                    BY <4>1, <4>2, <5>1
                <5> HIDE DEF L
                <5> QED
                    BY <5>2
            <4>4. ASSUME NEW n \in {h.id : h \in {g \in L : g.alive}}
                  PROVE  n \in db[j].rel \ {i}
                <5>1. PICK g \in L : g.alive /\ g.id = n
                    BY <4>4
                <5>2. PICK h \in dal[x].lazy : g = Dead(h)
                    OBVIOUS
                <5>3. h.alive /\ h.id # i /\ h.id = n
                    BY <4>1, <4>2, <5>1, <5>2
                <5> QED
                    BY <3>3, <5>3
            <4> QED
                BY <4>3, <4>4
        <3> HIDE DEF L
        <3>5. dal'[x].attr = dal[x].attr
            BY <1>2, <2>4
        <3> QED
            BY <2>2, <2>5, <3>1, <3>2, <3>4, <3>5 DEF Mirrors
    <2> QED
        BY <2>6, <2>7
<1> QED
    BY <1>1, <1>3, ClientMirrors

LEMMA StartMirrors ==
    ASSUME RefInv, MirrorInv, NEW d \in Alive, NEW op \in Storing \cup {"getall"}, Start(op, d)
    PROVE  MirrorInv'
<1>1. PICK ignore \in BOOLEAN, recurse \in BOOLEAN :
          call' = [NoCall EXCEPT !.op = op, !.root = d, !.ignore = ignore,
                                 !.recurse = recurse, !.stack = <<NewFrame(d)>>]
    BY DEF Start
<1>2. Idle /\ UNCHANGED <<db, dal, cache, dirty, gone, blurred>>
    BY DEF Start
<1>3. call'.op = op /\ call'.stack = <<NewFrame(d)>> /\ call'.done = [i \in Ids |-> None]
    BY <1>1 DEF NoCall
<1>4. NewFrame(d).mode = "begin" /\ NewFrame(d).dal = d /\ dal[d].id \in Ids
    BY LoadedExist DEF NewFrame, DalObject
<1>5. Len(call'.stack) = 1 /\ call'.stack[1] = NewFrame(d)
    BY <1>3
<1>6. Pending(call', dal) = {} /\ Pending(call, dal) = {}
    <2>1. \A n \in 1..Len(call'.stack) : call'.stack[n].mode = "begin"
        BY <1>4, <1>5
    <2>2. Pending(call', dal) = {}
        BY <2>1 DEF Pending
    <2> QED
        BY <1>2, <2>2, NothingPending
<1>7. CallMirrors(call', db, dal)
    <2>1. FrameMirrors(NewFrame(d), {}, call'.done, db, dal)
        BY <1>3, <1>4 DEF FrameMirrors
    <2>2. StackMirrors(call'.stack, call'.done, db, dal)
        BY <1>5, <2>1 DEF StackMirrors, Above
    <2>3. DoneMirrors(call'.done, dal)
        BY <1>3 DEF DoneMirrors
    <2> QED
        BY <2>2, <2>3 DEF CallMirrors
<1> QED
    BY <1>2, <1>6, <1>7 DEF MirrorInv

LEMMA ClientKeepsMirrors ==
    ASSUME RefInv, DeadInv, gone \subseteq Ids, MirrorInv, ClientNext
    PROVE  MirrorInv'
    BY ConstructMirrors, SettersMirror, NamingMirrors, ReadsMirror, DestroyMirrors, StartMirrors, GetsMirror
    DEF ClientNext

-----------------------------------------------------------------------------
(* The stack, frame by frame.                                                *)

\* The frames of a running call, the one on top first
LEMMA Frames ==
    ASSUME RefInv, ~Idle
    PROVE  /\ call \in CallSet /\ call.stack \in Seq(Frame) /\ call.stack # <<>>
           /\ Len(call.stack) \in Nat /\ Len(call.stack) >= 1 /\ Top = call.stack[1]
           /\ \A n \in 1..Len(call.stack) :
                /\ call.stack[n] \in Frame /\ call.stack[n].dal \in Made(dal) /\ call.stack[n].dal \in Alive
                /\ dal[call.stack[n].dal] \in DalObject /\ dal[call.stack[n].dal].id \in Ids
                /\ dal[call.stack[n].dal].rel \subseteq Made(dal)
                /\ n # 1 => call.stack[n].mode = "relate"
                /\ call.op \in Storing /\ call.stack[n].mode = "relate" => call.stack[n].obj \in Stores(db)
<1> DEFINE s == call.stack
<1>1. call \in CallSet /\ s \in Seq(Frame) /\ s # <<>>
    BY DEF RefInv, CallOK, CallSet, Idle
<1>2. Len(s) \in Nat /\ Len(s) >= 1 /\ Top = s[1]
    BY <1>1 DEF Top
<1>3. FrameOK(Top, Stores(db), dal, call.op) /\ WaitingOK(Tail(s), Stores(db), dal, call.op)
    BY TopOfStack
<1>4. \A n \in 1..Len(Tail(s)) : FrameOK(Tail(s)[n], Stores(db), dal, call.op) /\ Tail(s)[n].mode = "relate"
    BY <1>3 DEF WaitingOK
<1>5. \A n \in 1..Len(s) : n = 1 \/ (n - 1 \in 1..Len(Tail(s)) /\ s[n] = Tail(s)[n - 1])
    BY <1>1, <1>2
<1>6. \A n \in 1..Len(s) : FrameOK(s[n], Stores(db), dal, call.op) /\ (n # 1 => s[n].mode = "relate")
    <2> HIDE DEF s
    <2> SUFFICES ASSUME NEW n \in 1..Len(s)
                 PROVE  FrameOK(s[n], Stores(db), dal, call.op) /\ (n # 1 => s[n].mode = "relate")
        OBVIOUS
    <2>1. CASE n = 1
        BY <1>2, <1>3, <2>1
    <2>2. CASE n # 1
        BY <1>4, <1>5, <2>2
    <2> QED
        BY <2>1, <2>2
<1> HIDE DEF s
<1>7. ASSUME NEW n \in 1..Len(s)
      PROVE  /\ s[n] \in Frame /\ s[n].dal \in Made(dal) /\ s[n].dal \in Alive
             /\ dal[s[n].dal] \in DalObject /\ dal[s[n].dal].id \in Ids
             /\ dal[s[n].dal].rel \subseteq Made(dal)
             /\ call.op \in Storing /\ s[n].mode = "relate" => s[n].obj \in Stores(db)
    <2>1. s[n] \in Frame /\ s[n].dal \in Made(dal) /\ s[n].dal \in Alive
        BY <1>6, AliveAreMade DEF FrameOK
    <2>2. dal[s[n].dal] \in DalObject /\ dal[s[n].dal].rel \subseteq Made(dal)
        BY <2>1 DEF RefInv, DalsOK, DalOK
    <2>3. dal[s[n].dal].id \in Ids
        BY <2>2 DEF DalObject
    <2>4. call.op \in Storing /\ s[n].mode = "relate" => s[n].obj \in Stores(db)
        BY <1>6 DEF FrameOK
    <2> QED
        BY <2>1, <2>2, <2>3, <2>4
<1> QED
    BY <1>1, <1>2, <1>6, <1>7 DEF s

\* The frame on top becomes f.
LEMMA TopIs ==
    \A s, f : s \in Seq(Frame) /\ s # <<>> /\ f \in Frame =>
        /\ <<f>> \o Tail(s) \in Seq(Frame)
        /\ Len(<<f>> \o Tail(s)) = Len(s)
        /\ \A n \in 1..Len(s) : (<<f>> \o Tail(s))[n] = IF n = 1 THEN f ELSE s[n]
<1> SUFFICES ASSUME NEW s \in Seq(Frame), s # <<>>, NEW f \in Frame
             PROVE  /\ <<f>> \o Tail(s) \in Seq(Frame)
                    /\ Len(<<f>> \o Tail(s)) = Len(s)
                    /\ \A n \in 1..Len(s) : (<<f>> \o Tail(s))[n] = IF n = 1 THEN f ELSE s[n]
    OBVIOUS
<1>1. Len(s) \in Nat /\ Len(s) >= 1 /\ Tail(s) \in Seq(Frame) /\ Len(Tail(s)) = Len(s) - 1
    OBVIOUS
<1>2. \A n \in 1..Len(Tail(s)) : Tail(s)[n] = s[n + 1]
    BY <1>1
<1>3. <<f>> \o Tail(s) \in Seq(Frame) /\ Len(<<f>> \o Tail(s)) = Len(s)
    BY <1>1
<1>4. \A n \in 1..Len(s) : (<<f>> \o Tail(s))[n] = IF n = 1 THEN f ELSE Tail(s)[n - 1]
    BY <1>1
<1> QED
    BY <1>1, <1>2, <1>3, <1>4

LEMMA TopMirrors ==
    ASSUME NEW s \in Seq(Frame), s # <<>>, NEW f \in Frame, f.dal = s[1].dal, NEW done, NEW b, NEW D,
           \A m, n \in 1..Len(s) : m # n => D[s[m].dal].id # D[s[n].dal].id,
           FrameMirrors(f, {}, done, b, D),
           \A n \in 1..Len(s) : n # 1 => FrameMirrors(s[n], Above(s, n), done, b, D)
    PROVE  StackMirrors(<<f>> \o Tail(s), done, b, D)
<1> DEFINE t == <<f>> \o Tail(s)
<1>1. Len(t) = Len(s) /\ \A n \in 1..Len(s) : t[n] = IF n = 1 THEN f ELSE s[n]
    BY TopIs
<1> HIDE DEF t
<1>2. \A n \in 1..Len(s) : t[n].dal = s[n].dal
    BY <1>1
<1>3. \A n \in 1..Len(s) : n # 1 => n - 1 \in 1..Len(s)
    OBVIOUS
<1>4. \A n \in 1..Len(s) : Above(t, n) = Above(s, n)
    BY <1>2, <1>3 DEF Above
<1>5. Above(t, 1) = {}
    BY DEF Above
<1>6. \A n \in 1..Len(t) : FrameMirrors(t[n], Above(t, n), done, b, D)
    <2> SUFFICES ASSUME NEW n \in 1..Len(s)
                 PROVE  FrameMirrors(t[n], Above(t, n), done, b, D)
        BY <1>1
    <2>1. CASE n = 1
        BY <1>1, <1>5, <2>1
    <2>2. CASE n # 1
        BY <1>1, <1>4, <2>2
    <2> QED
        BY <2>1, <2>2
<1>7. \A m, n \in 1..Len(t) : m # n => D[t[m].dal].id # D[t[n].dal].id
    BY <1>1, <1>2
<1> QED
    BY <1>6, <1>7 DEF StackMirrors, t

\* What is being stored, when the frame on top has changed
LEMMA TopPending ==
    ASSUME RefInv, ~Idle, NEW f \in Frame, f.dal = Top.dal, f.mode # "begin", NEW c, NEW D,
           c.stack = <<f>> \o Tail(call.stack), c.op = call.op,
           \A e \in Made(dal) : D[e].id = dal[e].id
    PROVE  /\ Pending(call, dal) \subseteq Pending(c, D)
           /\ call.op \in Storing => Name(Top.dal) \in Pending(c, D)
<1> DEFINE s == call.stack
           t == c.stack
<1>1. Len(t) = Len(s) /\ \A n \in 1..Len(s) : t[n] = IF n = 1 THEN f ELSE s[n]
    BY Frames, TopIs
<1>2. /\ Len(s) \in Nat /\ Len(s) >= 1 /\ Top = s[1] /\ \A n \in 1..Len(s) : s[n].dal \in Made(dal)
    BY Frames
<1> HIDE DEF s, t
<1>3. \A n \in 1..Len(s) : D[t[n].dal].id = dal[s[n].dal].id /\ (s[n].mode # "begin" => t[n].mode # "begin")
    BY <1>1, <1>2
<1>4. 1 \in 1..Len(s) /\ D[t[1].dal].id = Name(Top.dal) /\ t[1].mode # "begin"
    BY <1>1, <1>2 DEF Name
<1>5. ASSUME NEW i \in Pending(call, dal)
      PROVE  i \in Pending(c, D)
    <2>1. PICK n \in 1..Len(s) : call.op \in Storing /\ s[n].mode # "begin" /\ i = dal[s[n].dal].id
        BY DEF Pending, s
    <2>2. n \in 1..Len(t) /\ t[n].mode # "begin" /\ i = D[t[n].dal].id
        BY <1>1, <1>3, <2>1
    <2> QED
        BY <2>1, <2>2 DEF Pending, t
<1>6. call.op \in Storing => Name(Top.dal) \in Pending(c, D)
    BY <1>1, <1>4 DEF Pending, t
<1> QED
    BY <1>5, <1>6

-----------------------------------------------------------------------------
(* The pieces of a call.                                                     *)

LEMMA HideMore ==
    \A b, D, k, q, H, q2, H2, g :
        CacheMirrors(b, D, k, q, H, g) /\ q \subseteq q2 /\ H \subseteq H2 => CacheMirrors(b, D, k, q2, H2, g)
    BY DEF CacheMirrors

\* The stack and the results, while a call that stores runs
LEMMA WhileStoring ==
    ASSUME RefInv, MirrorInv, ~Idle, call.op \in Storing, ~blurred
    PROVE  /\ StackMirrors(call.stack, call.done, db, dal) /\ DoneMirrors(call.done, dal)
           /\ CacheMirrors(db, dal, cache, dirty, Pending(call, dal), gone)
           /\ FrameMirrors(Top, {}, call.done, db, dal)
<1>1. StackMirrors(call.stack, call.done, db, dal) /\ DoneMirrors(call.done, dal)
    BY DEF MirrorInv, CallMirrors
<1>2. Top = call.stack[1] /\ 1 \in 1..Len(call.stack)
    BY Frames
<1>3. FrameMirrors(call.stack[1], Above(call.stack, 1), call.done, db, dal)
    BY <1>1, <1>2 DEF StackMirrors
<1>4. Above(call.stack, 1) = {}
    BY DEF Above
<1> QED
    BY <1>1, <1>2, <1>3, <1>4 DEF MirrorInv

LEMMA NoRenameMirrors ==
    ASSUME RefInv, MirrorInv, NoRename
    PROVE  MirrorInv'
<1> DEFINE f == [Top EXCEPT !.mode = "open"]
           s == call.stack
<1>1. ~Idle /\ Top.mode = "begin" /\ call.op \in Storing /\ UNCHANGED <<db, dal, cache, dirty, gone, blurred>>
    BY DEF NoRename, In, Storing
<1>2. call \in CallSet /\ s \in Seq(Frame) /\ s # <<>> /\ Top = s[1] /\ Top \in Frame
    BY <1>1, Frames
<1>3. f \in Frame /\ f.mode = "open" /\ f.dal = Top.dal
    BY <1>2 DEF Frame
<1>4. call'.stack = <<f>> \o Tail(s) /\ call'.op = call.op /\ call'.done = call.done
    BY <1>2 DEF NoRename, WithTop, CallSet
<1> HIDE DEF f, s
<1>5. Pending(call, dal) \subseteq Pending(call', dal)
    BY <1>1, <1>3, <1>4, TopPending DEF s
<1> SUFFICES ASSUME ~blurred
             PROVE  CallMirrors(call', db, dal) /\ CacheMirrors(db, dal, cache, dirty, Pending(call', dal), gone)
    BY <1>1 DEF MirrorInv
<1>6. /\ StackMirrors(s, call.done, db, dal) /\ DoneMirrors(call.done, dal)
      /\ CacheMirrors(db, dal, cache, dirty, Pending(call, dal), gone)
      /\ FrameMirrors(Top, {}, call.done, db, dal)
    BY <1>1, WhileStoring DEF s
<1>7. FrameMirrors(f, {}, call.done, db, dal)
    BY <1>1, <1>3, <1>6 DEF FrameMirrors
<1>8. StackMirrors(call'.stack, call'.done, db, dal)
    <2>1. /\ \A m, n \in 1..Len(s) : m # n => dal[s[m].dal].id # dal[s[n].dal].id
          /\ \A n \in 1..Len(s) : n # 1 => FrameMirrors(s[n], Above(s, n), call.done, db, dal)
        BY <1>6 DEF StackMirrors
    <2> QED
        BY <1>2, <1>3, <1>4, <1>7, <2>1, TopMirrors
<1> QED
    BY <1>4, <1>5, <1>6, <1>8, HideMore DEF CallMirrors

\* An error leaves nothing that has to reflect.
LEMMA RaisedMirrors == blurred' = TRUE => MirrorInv'
    BY DEF MirrorInv

\* The end of a call: its name is noted and goes to the list of its caller, which
\* was the only thing missing there.
LEMMA LeavingMirrors ==
    ASSUME RefInv, MirrorInv, ~Idle, call.op \in Storing, ~blurred, UNCHANGED dal,
           Leave(Name(Top.dal)), \A j \in Stores(db) : db'[j].attr = db[j].attr
    PROVE  /\ CallMirrors(call', db', dal)
           /\ Pending(call, dal) \subseteq Pending(call', dal) \cup {Name(Top.dal)}
<1> DEFINE s == call.stack
           rest == Tail(s)
           i == Name(Top.dal)
           t == Returned(i)
           g == [Head(rest) EXCEPT !.val = @ \cup {i}]
<1>1. /\ call \in CallSet /\ s \in Seq(Frame) /\ s # <<>>
      /\ Len(s) \in Nat /\ Len(s) >= 1 /\ Top = s[1]
      /\ \A n \in 1..Len(s) :
            /\ s[n] \in Frame /\ s[n].dal \in Made(dal)
            /\ dal[s[n].dal].id \in Ids /\ dal[s[n].dal].rel \subseteq Made(dal)
            /\ n # 1 => s[n].mode = "relate"
            /\ call.op \in Storing /\ s[n].mode = "relate" => s[n].obj \in Stores(db)
    BY Frames
<1>2. i \in Ids /\ i = dal[s[1].dal].id /\ i # None /\ 1 \in 1..Len(s)
    BY <1>1, NoneIsNoRecord DEF Name
<1>3. call'.stack = t /\ call'.op = call.op /\ call'.done = [call.done EXCEPT ![i] = i]
    BY <1>1 DEF Leave, CallSet
<1>4. \A j \in Ids : call'.done[j] = IF j = i THEN i ELSE call.done[j]
    <2>1. call.done \in [Ids -> Ids \cup Dals \cup {None}]
        BY <1>1 DEF CallSet
    <2> QED
        BY <1>2, <1>3, <2>1
<1>5. StackMirrors(s, call.done, db, dal) /\ DoneMirrors(call.done, dal)
    BY WhileStoring
<1>6. t = IF rest = <<>> THEN rest ELSE <<g>> \o Tail(rest)
    BY <1>2 DEF Returned
<1> HIDE DEF s, i, t
<1>7. /\ rest \in Seq(Frame) /\ Len(rest) = Len(s) - 1
      /\ \A n \in 1..Len(rest) : n + 1 \in 1..Len(s) /\ rest[n] = s[n + 1]
    BY <1>1
<1> HIDE DEF rest
<1>8. rest # <<>> => /\ 1 \in 1..Len(rest) /\ g \in Frame
                     /\ g.dal = rest[1].dal /\ g.mode = rest[1].mode /\ g.obj = rest[1].obj
                     /\ g.todo = rest[1].todo /\ g.val = rest[1].val \cup {i}
    <2> SUFFICES ASSUME rest # <<>>
                 PROVE  /\ 1 \in 1..Len(rest) /\ g \in Frame
                        /\ g.dal = rest[1].dal /\ g.mode = rest[1].mode /\ g.obj = rest[1].obj
                        /\ g.todo = rest[1].todo /\ g.val = rest[1].val \cup {i}
        OBVIOUS
    <2>1. 1 \in 1..Len(rest) /\ Head(rest) = rest[1] /\ rest[1] \in Frame
        BY <1>7
    <2> QED
        BY <1>2, <2>1 DEF Frame
<1> HIDE DEF g
<1>9. /\ Len(t) = Len(rest)
      /\ \A n \in 1..Len(rest) : t[n] = IF n = 1 THEN g ELSE s[n + 1]
    <2>1. CASE rest = <<>>
        BY <1>6, <2>1
    <2>2. CASE rest # <<>>
        <3>1. Len(t) = Len(rest) /\ \A n \in 1..Len(rest) : t[n] = IF n = 1 THEN g ELSE rest[n]
            BY <1>6, <1>7, <1>8, <2>2, TopIs
        <3> QED
            BY <1>7, <3>1
    <2> QED
        BY <2>1, <2>2
<1>10. \A n \in 1..Len(rest) : t[n].dal = s[n + 1].dal /\ t[n].mode = s[n + 1].mode
    <2> SUFFICES ASSUME NEW n \in 1..Len(rest)
                 PROVE  t[n].dal = s[n + 1].dal /\ t[n].mode = s[n + 1].mode
        OBVIOUS
    <2>1. CASE n = 1
        <3>1. rest # <<>>
            BY <1>7
        <3> QED
            BY <1>7, <1>8, <1>9, <2>1, <3>1
    <2>2. CASE n # 1
        BY <1>9, <2>2
    <2> QED
        BY <2>1, <2>2
<1>11. \A m, n \in 1..Len(t) : m # n => dal[t[m].dal].id # dal[t[n].dal].id
    <2> SUFFICES ASSUME NEW m \in 1..Len(rest), NEW n \in 1..Len(rest), m # n
                 PROVE  dal[t[m].dal].id # dal[t[n].dal].id
        BY <1>9
    <2>1. m + 1 \in 1..Len(s) /\ n + 1 \in 1..Len(s) /\ m + 1 # n + 1
        BY <1>7
    <2>2. dal[s[m + 1].dal].id # dal[s[n + 1].dal].id
        BY <1>5, <2>1 DEF StackMirrors
    <2> QED
        BY <1>10, <2>2
<1>12. ASSUME NEW n \in 1..Len(s), n # 1
       PROVE  FrameMirrors(s[n], Above(s, n), call'.done, db', dal)
    <2>1. FrameMirrors(s[n], Above(s, n), call.done, db, dal) /\ dal[s[n].dal].id # i
        BY <1>2, <1>5, <1>12 DEF StackMirrors
    <2>2. s[n].mode = "relate" /\ s[n].obj \in Stores(db) /\ dal[s[n].dal].id \in Ids
        BY <1>1, <1>12
    <2>3. s[n].obj = dal[s[n].dal].id
        BY <2>1, <2>2 DEF FrameMirrors
    <2>4. db'[dal[s[n].dal].id].attr = db[dal[s[n].dal].id].attr
        BY <2>2, <2>3
    <2>5. call'.done[dal[s[n].dal].id] = call.done[dal[s[n].dal].id]
        BY <1>4, <2>1, <2>2
    <2> QED
        BY <2>1, <2>4, <2>5, SameFrame
<1>13. ASSUME NEW n \in 1..Len(rest)
       PROVE  FrameMirrors(t[n], Above(t, n), call'.done, db', dal)
    <2>1. n + 1 \in 1..Len(s) /\ n + 1 # 1 /\ (n + 1) - 1 = n /\ n \in 1..Len(s)
        BY <1>7
    <2>2. FrameMirrors(s[n + 1], {s[n].dal}, call'.done, db', dal) /\ s[n + 1].mode = "relate"
        <3>1. Above(s, n + 1) = {s[n].dal}
            BY <2>1 DEF Above
        <3> QED
            BY <1>1, <1>12, <2>1, <3>1
    <2>3. CASE n = 1
        <3> DEFINE f == s[2]
                   o == dal[f.dal]
        <3>1. f = rest[1] /\ rest # <<>> /\ t[1] = g /\ FrameMirrors(f, {s[1].dal}, call'.done, db', dal)
            BY <1>7, <1>9, <2>2, <2>3
        <3>2. f.mode = "relate"
            BY <2>2, <2>3
        <3> HIDE DEF f
        <3>3. /\ g.dal = f.dal /\ g.mode = f.mode /\ g.obj = f.obj /\ g.todo = f.todo /\ g.val = f.val \cup {i}
            BY <1>8, <3>1
        <3>4. /\ f.todo \subseteq o.rel /\ {s[1].dal} \subseteq o.rel \ f.todo
              /\ f.val = NamesIn(dal, (o.rel \ f.todo) \ {s[1].dal})
              /\ (o.lazy # None => f.val = {} /\ {s[1].dal} = {})
            BY <3>1, <3>2 DEF FrameMirrors
        <3>5. o.lazy = None
            BY <3>4
        <3>6. g.val = NamesIn(dal, (o.rel \ f.todo) \ {})
            BY <1>2, <3>3, <3>4 DEF NamesIn
        <3>7. FrameMirrors(g, {}, call'.done, db', dal)
            BY <3>1, <3>2, <3>3, <3>5, <3>6 DEF FrameMirrors
        <3>8. Above(t, 1) = {}
            BY DEF Above
        <3> QED
            BY <2>3, <3>1, <3>7, <3>8
    <2>4. CASE n # 1
        <3>1. n - 1 \in 1..Len(rest) /\ (n - 1) + 1 = n
            BY <2>4
        <3>2. t[n - 1].dal = s[n].dal
            BY <1>10, <3>1
        <3>3. Above(t, n) = {s[n].dal}
            BY <2>4, <3>2 DEF Above
        <3> QED
            BY <1>9, <2>2, <2>4, <3>3
    <2> QED
        BY <2>3, <2>4
<1>14. StackMirrors(t, call'.done, db', dal)
    BY <1>9, <1>11, <1>13 DEF StackMirrors
<1>15. DoneMirrors(call'.done, dal)
    BY <1>1, <1>2, <1>4, <1>5 DEF DoneMirrors
<1>16. ASSUME NEW j \in Pending(call, dal)
       PROVE  j \in Pending(call', dal) \cup {i}
    <2>1. PICK n \in 1..Len(s) : s[n].mode # "begin" /\ j = dal[s[n].dal].id
        BY DEF Pending, s
    <2>2. CASE n = 1
        BY <1>2, <2>1, <2>2
    <2>3. CASE n # 1
        <3>1. n - 1 \in 1..Len(rest) /\ (n - 1) + 1 = n
            BY <1>7, <2>3
        <3>2. n - 1 \in 1..Len(t) /\ t[n - 1].mode # "begin" /\ j = dal[t[n - 1].dal].id
            BY <1>9, <1>10, <2>1, <3>1
        <3> QED
            BY <1>3, <3>2 DEF Pending
    <2> QED
        BY <2>2, <2>3
<1> QED
    BY <1>3, <1>14, <1>15, <1>16 DEF CallMirrors, i

\* The DAL of the call is cached under its name: it is a changed one, or reflects
\* what was stored.  What other names have is as it was.
LEMMA EndMirrors ==
    ASSUME RefInv, MirrorInv, ~Idle, call.op \in Storing, UNCHANGED <<dal, gone, blurred>>,
           Leave(Name(Top.dal)), \A j \in Stores(db) : db'[j].attr = db[j].attr,
           Stores(db') = Stores(db), \A j \in Stores(db) \ {Name(Top.dal)} : db'[j] = db[j],
           dirty \ {Top.dal} \subseteq dirty',
           Top.dal \in dirty' \/ (~blurred => Mirrors(dal[Top.dal], db'[Name(Top.dal)], dal, gone))
    PROVE  MirrorInv'
<1> DEFINE i == Name(Top.dal)
<1> SUFFICES ASSUME ~blurred
             PROVE  CallMirrors(call', db', dal) /\ CacheMirrors(db', dal, cache', dirty', Pending(call', dal), gone)
    BY DEF MirrorInv
<1>1. CallMirrors(call', db', dal) /\ Pending(call, dal) \subseteq Pending(call', dal) \cup {i}
    BY LeavingMirrors
<1>2. CacheMirrors(db, dal, cache, dirty, Pending(call, dal), gone)
    BY WhileStoring
<1>3. cache' = Cached([j \in {i} |-> Top.dal])
    BY DEF Leave
<1>4. dal[Top.dal].id = i
    BY DEF Name
<1> HIDE DEF i
<1>5. ASSUME NEW j \in Stores(db') \ Pending(call', dal), NEW d, d = cache'[ClassOf[j]][j],
             d # None, dal[d].id = j, d \notin dirty'
      PROVE  Mirrors(dal[d], db'[j], dal, gone)
    <2>1. j \in Ids /\ ClassOf[j] \in Classes /\ ClassOf[j] \in OksTypes[ClassOf[j]] /\ j \in Stores(db)
        BY OwnClass DEF Stores
    <2>2. d = IF j = i THEN Top.dal ELSE cache[ClassOf[j]][j]
        BY <1>3, <1>5, <2>1 DEF Cached
    <2>3. CASE j = i
        BY <1>5, <2>2, <2>3 DEF i
    <2>4. CASE j # i
        <3>1. j \notin Pending(call, dal) /\ db'[j] = db[j]
            BY <1>1, <2>1, <2>4 DEF i
        <3>2. d # Top.dal /\ d \notin dirty
            BY <1>4, <1>5, <2>4
        <3> QED
            BY <1>2, <1>5, <2>1, <2>2, <2>4, <3>1, <3>2 DEF CacheMirrors
    <2> QED
        BY <2>3, <2>4
<1> QED
    BY <1>1, <1>5 DEF CacheMirrors

LEMMA AddExistingMirrors ==
    ASSUME RefInv, MirrorInv, AddExisting
    PROVE  MirrorInv'
<1>1. /\ ~Idle /\ call.op \in Storing /\ Leave(Name(Top.dal))
      /\ UNCHANGED <<db, dal, gone, blurred>> /\ dirty' = dirty \cup {Top.dal}
    BY DEF AddExisting, In, Storing
<1> QED
    BY <1>1, EndMirrors

\* A refusal that is logged leaves the DAL changed; one that is raised is an error.
LEMMA RefusedMirrors ==
    ASSUME RefInv, MirrorInv, ~Idle, call.op \in Storing, Refused, UNCHANGED <<db, dal, gone>>
    PROVE  MirrorInv'
<1>1. CASE call.ignore
    <2>1. Leave(Name(Top.dal)) /\ dirty' = dirty \cup {Top.dal} /\ UNCHANGED blurred
        BY <1>1 DEF Refused
    <2> QED
        BY <2>1, EndMirrors
<1>2. CASE ~call.ignore
    <2>1. blurred' = TRUE
        BY <1>2 DEF Refused, Raise
    <2> QED
        BY <2>1, RaisedMirrors
<1> QED
    BY <1>1, <1>2

LEMMA OpenRefusedMirrors ==
    ASSUME RefInv, MirrorInv, OpenRefused
    PROVE  MirrorInv'
<1>1. ~Idle /\ call.op \in Storing /\ Refused /\ UNCHANGED <<db, dal, gone>>
    BY DEF OpenRefused, In, Storing
<1> QED
    BY <1>1, RefusedMirrors

\* The list that is stored has the names of all related DALs.
LEMMA StoreMirrors ==
    ASSUME RefInv, MirrorInv, Store
    PROVE  MirrorInv'
<1>1. /\ ~Idle /\ call.op \in Storing /\ Top.mode = "relate" /\ UNCHANGED <<dal, gone>>
      /\ IsRead(Top.dal) /\ Top.todo = {}
    BY DEF Store, In
<1>2. CASE Top.obj \in ReadOnly
    <2>1. Refused /\ UNCHANGED db
        BY <1>2 DEF Store
    <2> QED
        BY <1>1, <2>1, RefusedMirrors
<1>3. CASE Top.obj \notin ReadOnly
    <2> DEFINE i == Name(Top.dal)
    <2>1. /\ db' = [db EXCEPT ![Top.obj].rel = Top.val]
          /\ Leave(Top.obj) /\ dirty' = dirty \ {Top.dal} /\ UNCHANGED blurred
        BY <1>3 DEF Store
    <2>2. CASE blurred
        BY <2>1, <2>2 DEF MirrorInv
    <2>3. CASE ~blurred
        <3>1. FrameMirrors(Top, {}, call.done, db, dal)
            BY <1>1, <2>3, WhileStoring
        <3>2. /\ Top.obj = i /\ dal[Top.dal].attr \in {None, db[i].attr}
              /\ Top.val = NamesIn(dal, dal[Top.dal].rel)
            BY <1>1, <3>1 DEF FrameMirrors, Name
        <3>3. i \in Stores(db) /\ i \in Ids /\ db[i] \in Object /\ db \in [Ids -> Object \cup {None}]
            <4>1. Top.obj \in Stores(db)
                BY <1>1, Frames
            <4> QED
                BY <3>2, <4>1 DEF RefInv, DbOK, Stores
        <3> HIDE DEF i
        <3>4. /\ db'[i].attr = db[i].attr /\ db'[i].rel = Top.val /\ db'[i] # None
              /\ \A j \in Ids \ {i} : db'[j] = db[j]
            <4>1. db'[i] = [db[i] EXCEPT !.rel = Top.val]
                BY <2>1, <3>2, <3>3
            <4>2. Top.val \in SUBSET Ids
                BY <1>1, TopOfStack DEF Frame
            <4>3. db'[i] \in Object /\ db'[i].attr = db[i].attr /\ db'[i].rel = Top.val
                BY <3>3, <4>1, <4>2 DEF Object
            <4> QED
                BY <2>1, <3>2, <3>3, <4>3, NoneIsNoRecord
        <3>5. Stores(db') = Stores(db)
            BY <3>3, <3>4 DEF Stores
        <3>6. Mirrors(dal[Top.dal], db'[i], dal, gone)
            BY <1>1, <3>2, <3>4 DEF Mirrors, IsRead, NamesIn, StandsFor
        <3>7. \A j \in Stores(db) : j \in Ids
            BY DEF Stores
        <3> QED
            BY <1>1, <2>1, <3>2, <3>4, <3>5, <3>6, <3>7, EndMirrors DEF i
    <2> QED
        BY <2>2, <2>3
<1> QED
    BY <1>2, <1>3

\* An object is found or created: the frame starts on its relationship.
LEMMA OpenMirrors ==
    ASSUME RefInv, MirrorInv, Open
    PROVE  MirrorInv'
<1> DEFINE d == Top.dal
           i == Name(d)
           new == [attr |-> Default, rel |-> {}]
           o == IF db[i] = None THEN new ELSE db[i]
           p == [o EXCEPT !.attr = IF dal[d].attr = None THEN @ ELSE dal[d].attr]
           f == [Top EXCEPT !.mode = "relate", !.obj = i, !.todo = dal[d].rel]
           s == call.stack
<1>1. ~Idle /\ call.op \in Storing /\ Top.mode # "relate" /\ UNCHANGED <<dal, cache, dirty, gone, blurred>>
    BY DEF Open, In, Storing
<1>2. /\ call \in CallSet /\ s \in Seq(Frame) /\ s # <<>> /\ Top = s[1] /\ 1 \in 1..Len(s)
      /\ \A n \in 1..Len(s) :
            /\ s[n] \in Frame /\ dal[s[n].dal] \in DalObject /\ dal[s[n].dal].id \in Ids
            /\ n # 1 => s[n].mode = "relate"
            /\ call.op \in Storing /\ s[n].mode = "relate" => s[n].obj \in Stores(db)
    BY <1>1, Frames
<1>3. /\ Top \in Frame /\ dal[d] \in DalObject /\ i \in Ids /\ i = dal[d].id /\ i # None
      /\ d \in Made(dal) /\ i = dal[s[1].dal].id
    BY <1>1, <1>2, Frames, NoneIsNoRecord DEF Name
<1>4. db' = [db EXCEPT ![i] = p] /\ db \in [Ids -> Object \cup {None}]
    BY DEF Open, RefInv, DbOK
<1>5. call'.stack = <<f>> \o Tail(s) /\ call'.op = call.op /\ call'.done = [call.done EXCEPT ![i] = i]
    BY <1>2 DEF Open, WithTop, CallSet
<1>6. \A j \in Ids : call'.done[j] = IF j = i THEN i ELSE call.done[j]
    <2>1. call.done \in [Ids -> Ids \cup Dals \cup {None}]
        BY <1>2 DEF CallSet
    <2> QED
        BY <1>3, <1>5, <2>1
<1>7. p.attr = IF dal[d].attr = None THEN o.attr ELSE dal[d].attr
    <2>1. o \in [attr : {o.attr}, rel : {o.rel}]
        <3>1. CASE db[i] = None
            BY <3>1
        <3>2. CASE db[i] # None
            BY <1>3, <1>4, <3>2 DEF Object
        <3> QED
            BY <3>1, <3>2
    <2> HIDE DEF o
    <2> QED
        BY <2>1
<1>8. db'[i] = p /\ \A j \in Ids \ {i} : db'[j] = db[j]
    BY <1>3, <1>4
<1>9. /\ f \in Frame /\ f.mode = "relate" /\ f.obj = i /\ f.todo = dal[d].rel /\ f.dal = d /\ f.val = Top.val
    <2>1. dal[d].rel \in SUBSET Dals
        BY <1>3 DEF DalObject
    <2> HIDE DEF i
    <2> QED
        BY <1>3, <2>1 DEF Frame
<1>10. Top.val = {}
    BY <1>1, TopOfStack DEF FrameOK
<1> HIDE DEF i, o, p, f, s
<1>11. Pending(call, dal) \subseteq Pending(call', dal) /\ i \in Pending(call', dal)
    BY <1>1, <1>5, <1>9, TopPending DEF s, i
<1> SUFFICES ASSUME ~blurred
             PROVE  CallMirrors(call', db', dal) /\ CacheMirrors(db', dal, cache, dirty, Pending(call', dal), gone)
    BY <1>1 DEF MirrorInv
<1>12. /\ StackMirrors(s, call.done, db, dal) /\ DoneMirrors(call.done, dal)
       /\ CacheMirrors(db, dal, cache, dirty, Pending(call, dal), gone)
    BY <1>1, WhileStoring DEF s
<1>13. FrameMirrors(f, {}, call'.done, db', dal)
    <2>1. f.val = NamesIn(dal, (dal[d].rel \ f.todo) \ {})
        BY <1>9, <1>10 DEF NamesIn
    <2>2. dal[d].attr \in {None, db'[i].attr} /\ call'.done[i] # None
        BY <1>3, <1>6, <1>7, <1>8
    <2> QED
        BY <1>3, <1>9, <1>10, <2>1, <2>2 DEF FrameMirrors
<1>14. ASSUME NEW n \in 1..Len(s), n # 1
       PROVE  FrameMirrors(s[n], Above(s, n), call'.done, db', dal)
    <2>1. FrameMirrors(s[n], Above(s, n), call.done, db, dal) /\ dal[s[n].dal].id # i
        BY <1>2, <1>3, <1>12, <1>14 DEF StackMirrors
    <2>2. dal[s[n].dal].id \in Ids
        BY <1>2
    <2>3. db'[dal[s[n].dal].id] = db[dal[s[n].dal].id] /\ call'.done[dal[s[n].dal].id] = call.done[dal[s[n].dal].id]
        BY <1>6, <1>8, <2>1, <2>2
    <2> QED
        BY <2>1, <2>3, SameFrame
<1>15. StackMirrors(call'.stack, call'.done, db', dal)
    <2>1. \A m, n \in 1..Len(s) : m # n => dal[s[m].dal].id # dal[s[n].dal].id
        BY <1>12 DEF StackMirrors
    <2>2. f.dal = s[1].dal
        BY <1>2, <1>9
    <2> QED
        BY <1>2, <1>5, <1>9, <1>13, <1>14, <2>1, <2>2, TopMirrors
<1>16. DoneMirrors(call'.done, dal)
    BY <1>3, <1>6, <1>12 DEF DoneMirrors
<1>17. CacheMirrors(db', dal, cache, dirty, Pending(call', dal), gone)
    <2> SUFFICES ASSUME NEW j \in Stores(db') \ Pending(call', dal), NEW x, x = cache[ClassOf[j]][j],
                        x # None, dal[x].id = j, x \notin dirty
                 PROVE  Mirrors(dal[x], db'[j], dal, gone)
        BY DEF CacheMirrors
    <2>1. j \in Ids /\ j # i /\ db'[j] = db[j]
        BY <1>8, <1>11 DEF Stores
    <2>2. j \in Stores(db) \ Pending(call, dal)
        BY <1>11, <2>1 DEF Stores
    <2> QED
        BY <1>12, <2>1, <2>2 DEF CacheMirrors
<1> QED
    BY <1>15, <1>16, <1>17 DEF CallMirrors

\* The handles of the frame's DAL become DALs: it has dealt with none of them yet.
LEMMA RelateMirrors ==
    ASSUME RefInv, DeadInv, MirrorInv, Relate
    PROVE  MirrorInv'
<1> DEFINE d == Top.dal
           s == call.stack
<1>1. ~Idle /\ Top.mode = "relate" /\ db' = db /\ gone' = gone
    BY DEF Relate, In
<1>2. /\ call \in CallSet /\ s \in Seq(Frame) /\ s # <<>> /\ Top = s[1] /\ 1 \in 1..Len(s)
      /\ \A n \in 1..Len(s) :
            /\ s[n] \in Frame /\ s[n].dal \in Made(dal) /\ s[n].dal \in Alive
            /\ dal[s[n].dal] \in DalObject /\ dal[s[n].dal].id \in Ids
            /\ dal[s[n].dal].rel \subseteq Made(dal)
    BY <1>1, Frames
<1>3. d \in Alive /\ d \in Made(dal) /\ Top \in Frame
    BY <1>2
<1>4. CASE blurred'
    BY <1>4 DEF MirrorInv
<1>5. CASE ~blurred'
    <2> DEFINE f == [Top EXCEPT !.todo = dal'[d].rel]
    <2>1. ReadRelation(d) /\ ~blurred /\ call' = [call EXCEPT !.stack = <<f>> \o Tail(s)]
        BY <1>5 DEF Relate, Raise, WithTop
    <2>2. call'.stack = <<f>> \o Tail(s) /\ call'.op = call.op /\ call'.done = call.done
        BY <1>2, <2>1 DEF CallSet
    <2>3. /\ \A e \in Made(dal) \ {d} : dal'[e] = dal[e]
          /\ dal'[d].id = dal[d].id /\ dal'[d].attr = dal[d].attr /\ dal'[d].lazy = None
          /\ \A e \in Made(dal) : dal'[e].id = dal[e].id
          /\ Made(dal) \subseteq Made(dal') /\ dal'[d].rel \subseteq Made(dal')
        BY <1>3, <2>1, GetterChanges, ReadingFollows DEF MayFollow, Grows
    <2>4. /\ f \in Frame /\ f.todo = dal'[d].rel /\ f.dal = d
          /\ f.mode = "relate" /\ f.obj = Top.obj /\ f.val = Top.val
        <3>1. dal'[d].rel \in SUBSET Dals
            BY <2>3 DEF Made
        <3> QED
            BY <1>1, <1>3, <3>1 DEF Frame
    <2> HIDE DEF f, s
    <2>5. Pending(call, dal) \subseteq Pending(call', dal')
        BY <1>1, <2>2, <2>3, <2>4, TopPending DEF s
    <2>6. CacheMirrors(db, dal', cache', dirty', Pending(call', dal'), gone)
        <3>1. CacheMirrors(db, dal, cache, dirty, Pending(call, dal), gone)
            BY <2>1 DEF MirrorInv
        <3>2. CacheMirrors(db, dal', cache', dirty', Pending(call, dal), gone)
            BY <1>3, <2>1, <3>1, ReadingMirrors
        <3> QED
            BY <2>5, <3>2, HideMore
    <2>7. CallMirrors(call', db, dal')
        <3> SUFFICES ASSUME call.op \in Storing
                     PROVE  StackMirrors(call'.stack, call'.done, db, dal') /\ DoneMirrors(call'.done, dal')
            BY <2>2 DEF CallMirrors
        <3>1. /\ StackMirrors(s, call.done, db, dal) /\ DoneMirrors(call.done, dal)
              /\ FrameMirrors(Top, {}, call.done, db, dal)
            BY <1>1, <2>1, WhileStoring DEF s
        <3>2. FrameMirrors(f, {}, call.done, db, dal')
            <4>1. dal[d].lazy # None
                BY <2>1 DEF ReadRelation, IsRead
            <4>2. /\ Top.obj = dal[d].id /\ call.done[dal[d].id] # None
                  /\ dal[d].attr \in {None, db[dal[d].id].attr} /\ Top.val = {}
                BY <1>1, <3>1, <4>1 DEF FrameMirrors
            <4>3. f.val = NamesIn(dal', (dal'[d].rel \ f.todo) \ {})
                BY <2>4, <4>2 DEF NamesIn
            <4> QED
                BY <2>3, <2>4, <4>2, <4>3 DEF FrameMirrors
        <3>3. ASSUME NEW n \in 1..Len(s), n # 1
              PROVE  FrameMirrors(s[n], Above(s, n), call.done, db, dal')
            <4>1. FrameMirrors(s[n], Above(s, n), call.done, db, dal) /\ dal[s[n].dal].id # dal[s[1].dal].id
                BY <1>2, <3>1, <3>3 DEF StackMirrors, s
            <4>2. s[n].dal # d /\ s[n].dal \in Made(dal) /\ dal[s[n].dal].rel \subseteq Made(dal)
                BY <1>2, <4>1 DEF s
            <4>3. dal'[s[n].dal] = dal[s[n].dal] /\ \A e \in dal[s[n].dal].rel : dal'[e].id = dal[e].id
                BY <2>3, <4>2
            <4> QED
                BY <4>1, <4>3, SameFrame
        <3>4. StackMirrors(call'.stack, call'.done, db, dal')
            <4>1. \A m, n \in 1..Len(s) : m # n => dal'[s[m].dal].id # dal'[s[n].dal].id
                BY <1>2, <2>3, <3>1 DEF StackMirrors, s
            <4>2. s \in Seq(Frame) /\ s # <<>> /\ f.dal = s[1].dal
                BY <1>2, <2>4 DEF s
            <4> QED
                BY <2>2, <2>4, <3>2, <3>3, <4>1, <4>2, TopMirrors
        <3>5. DoneMirrors(call'.done, dal')
            BY <2>2, <2>3, <3>1 DEF DoneMirrors
        <3> QED
            BY <3>4, <3>5
    <2> QED
        BY <1>1, <2>6, <2>7 DEF MirrorInv
<1> QED
    BY <1>4, <1>5

\* A related DAL is dealt with: its name goes to the list, which is the name the
\* results have it under.
LEMMA ListedMirrors ==
    ASSUME RefInv, MirrorInv, ~Idle, call.op \in Storing, Top.mode = "relate", IsRead(Top.dal),
           NEW e \in Top.todo, UNCHANGED <<db, dal, cache, dirty, gone, blurred>>,
           call' = [call EXCEPT !.stack = WithTop([[Top EXCEPT !.todo = @ \ {e}] EXCEPT !.val = @ \cup {Name(e)}])]
    PROVE  MirrorInv'
<1> DEFINE d == Top.dal
           rest == [Top EXCEPT !.todo = @ \ {e}]
           f == [rest EXCEPT !.val = @ \cup {Name(e)}]
           s == call.stack
<1>1. call \in CallSet /\ s \in Seq(Frame) /\ s # <<>> /\ Top = s[1] /\ Top \in Frame
    BY Frames
<1>2. Name(e) \in Ids
    <2>1. e \in Made(dal)
        BY TopOfStack DEF FrameOK
    <2> QED
        BY <2>1, AliveAreMade, LoadedExist DEF Name, DalObject
<1>3. rest \in Frame /\ rest.todo = Top.todo \ {e} /\ rest.dal = d /\ rest.mode = Top.mode
      /\ rest.obj = Top.obj /\ rest.val = Top.val
    BY <1>1 DEF Frame
<1> HIDE DEF rest
<1>4. f \in Frame /\ f.todo = Top.todo \ {e} /\ f.dal = d /\ f.mode = "relate"
      /\ f.obj = Top.obj /\ f.val = Top.val \cup {Name(e)}
    BY <1>2, <1>3 DEF Frame
<1>5. call'.stack = <<f>> \o Tail(s) /\ call'.op = call.op /\ call'.done = call.done
    BY <1>1 DEF WithTop, CallSet, rest
<1> HIDE DEF f, s
<1>6. Pending(call, dal) \subseteq Pending(call', dal)
    BY <1>4, <1>5, TopPending DEF s
<1> SUFFICES ASSUME ~blurred
             PROVE  CallMirrors(call', db, dal) /\ CacheMirrors(db, dal, cache, dirty, Pending(call', dal), gone)
    BY DEF MirrorInv
<1>7. /\ StackMirrors(s, call.done, db, dal) /\ DoneMirrors(call.done, dal)
      /\ CacheMirrors(db, dal, cache, dirty, Pending(call, dal), gone)
      /\ FrameMirrors(Top, {}, call.done, db, dal)
    BY WhileStoring DEF s
<1>8. FrameMirrors(f, {}, call.done, db, dal)
    <2>1. Top.todo \subseteq dal[d].rel /\ Top.val = NamesIn(dal, (dal[d].rel \ Top.todo) \ {}) /\ dal[d].lazy = None
        BY <1>7 DEF FrameMirrors, IsRead
    <2>2. f.val = NamesIn(dal, (dal[d].rel \ f.todo) \ {})
        BY <1>4, <2>1 DEF NamesIn, Name
    <2> QED
        BY <1>4, <1>7, <2>1, <2>2 DEF FrameMirrors
<1>9. StackMirrors(call'.stack, call'.done, db, dal)
    <2>1. /\ \A m, n \in 1..Len(s) : m # n => dal[s[m].dal].id # dal[s[n].dal].id
          /\ \A n \in 1..Len(s) : n # 1 => FrameMirrors(s[n], Above(s, n), call.done, db, dal)
        BY <1>7 DEF StackMirrors
    <2>2. f.dal = s[1].dal
        BY <1>1, <1>4
    <2>3. StackMirrors(<<f>> \o Tail(s), call.done, db, dal)
        BY <1>1, <1>4, <1>8, <2>1, <2>2, TopMirrors
    <2> QED
        BY <1>5, <2>3
<1>10. DoneMirrors(call'.done, dal)
    BY <1>5, <1>7
<1>11. CallMirrors(call', db, dal)
    BY <1>9, <1>10 DEF CallMirrors
<1>12. CacheMirrors(db, dal, cache, dirty, Pending(call', dal), gone)
    BY <1>6, <1>7, HideMore
<1> QED
    BY <1>11, <1>12

\* A call of its own for a DAL of which no object was noted: none of the calls below
\* it is of that name, and the frame waits for it.
LEMMA CalledMirrors ==
    ASSUME RefInv, MirrorInv, ~Idle, call.op \in Storing, Top.mode = "relate", IsRead(Top.dal),
           NEW e \in Top.todo, UNCHANGED <<db, dal, cache, dirty, gone, blurred>>, call.done[Name(e)] = None,
           call' = [call EXCEPT !.stack = <<NewFrame(e)>> \o WithTop([Top EXCEPT !.todo = @ \ {e}])]
    PROVE  MirrorInv'
<1> DEFINE d == Top.dal
           f == [Top EXCEPT !.todo = @ \ {e}]
           g == NewFrame(e)
           s == call.stack
           u == <<f>> \o Tail(s)
           t == <<g>> \o u
<1>1. /\ call \in CallSet /\ s \in Seq(Frame) /\ s # <<>> /\ Top = s[1] /\ Top \in Frame
      /\ Len(s) \in Nat /\ Len(s) >= 1
      /\ \A n \in 1..Len(s) : dal[s[n].dal].id \in Ids /\ (n # 1 => s[n].mode = "relate")
    BY Frames
<1>2. e \in Dals /\ Name(e) = dal[e].id
    BY <1>1 DEF Frame, Name
<1>3. /\ f \in Frame /\ f.todo = Top.todo \ {e} /\ f.dal = d /\ f.mode = "relate"
      /\ f.obj = Top.obj /\ f.val = Top.val
    BY <1>1 DEF Frame
<1>4. g \in Frame /\ g.dal = e /\ g.mode = "begin"
    BY <1>2 DEF NewFrame, Frame
<1>5. call'.stack = t /\ call'.op = call.op /\ call'.done = call.done
    BY <1>1 DEF WithTop, CallSet
<1> HIDE DEF f, g, s
<1>6. u \in Seq(Frame) /\ Len(u) = Len(s) /\ \A n \in 1..Len(s) : u[n] = IF n = 1 THEN f ELSE s[n]
    BY <1>1, <1>3, TopIs
<1> HIDE DEF u
<1>7. Len(t) = Len(s) + 1 /\ \A n \in 1..Len(t) : t[n] = IF n = 1 THEN g ELSE u[n - 1]
    BY <1>1, <1>4, <1>6
<1> HIDE DEF t
<1>8. \A n \in 1..Len(t) : n # 1 => /\ n - 1 \in 1..Len(s)
                                    /\ t[n] = IF n = 2 THEN f ELSE s[n - 1]
                                    /\ t[n].dal = s[n - 1].dal
    <2> SUFFICES ASSUME NEW n \in 1..Len(t), n # 1
                 PROVE  /\ n - 1 \in 1..Len(s)
                        /\ t[n] = IF n = 2 THEN f ELSE s[n - 1]
                        /\ t[n].dal = s[n - 1].dal
        OBVIOUS
    <2>1. n - 1 \in 1..Len(s) /\ (n = 2 <=> n - 1 = 1)
        BY <1>1, <1>7
    <2>2. t[n] = u[n - 1]
        BY <1>7
    <2>3. t[n] = IF n = 2 THEN f ELSE s[n - 1]
        BY <1>6, <2>1, <2>2
    <2>4. n = 2 => s[n - 1] = Top
        BY <1>1, <2>1
    <2> QED
        BY <1>3, <2>1, <2>3, <2>4
<1>9. 1 \in 1..Len(t) /\ t[1] = g
    BY <1>1, <1>7
<1>10. Pending(call, dal) \subseteq Pending(call', dal)
    <2> SUFFICES ASSUME NEW i \in Pending(call, dal)
                 PROVE  i \in Pending(call', dal)
        OBVIOUS
    <2>1. PICK n \in 1..Len(s) : s[n].mode # "begin" /\ i = dal[s[n].dal].id
        BY DEF Pending, s
    <2>2. n + 1 \in 1..Len(t) /\ n + 1 # 1 /\ (n + 1) - 1 = n
        BY <1>1, <1>7
    <2>3. t[n + 1].dal = s[n].dal /\ t[n + 1] \in {f, s[n]}
        BY <1>8, <2>2
    <2>4. t[n + 1].mode # "begin"
        BY <1>3, <2>1, <2>3
    <2> QED
        BY <1>5, <2>1, <2>2, <2>3, <2>4 DEF Pending
<1> SUFFICES ASSUME ~blurred
             PROVE  CallMirrors(call', db, dal) /\ CacheMirrors(db, dal, cache, dirty, Pending(call', dal), gone)
    BY DEF MirrorInv
<1>11. /\ StackMirrors(s, call.done, db, dal) /\ DoneMirrors(call.done, dal)
       /\ CacheMirrors(db, dal, cache, dirty, Pending(call, dal), gone)
       /\ FrameMirrors(Top, {}, call.done, db, dal)
    BY WhileStoring DEF s
<1>12. FrameMirrors(f, {e}, call.done, db, dal)
    <2>1. Top.todo \subseteq dal[d].rel /\ Top.val = NamesIn(dal, (dal[d].rel \ Top.todo) \ {}) /\ dal[d].lazy = None
        BY <1>11 DEF FrameMirrors, IsRead
    <2>2. (dal[d].rel \ f.todo) \ {e} = (dal[d].rel \ Top.todo) \ {}
        BY <1>3
    <2>3. {e} \subseteq dal[d].rel \ f.todo /\ f.todo \subseteq dal[d].rel
        BY <1>3, <2>1
    <2> QED
        BY <1>3, <1>11, <2>1, <2>2, <2>3 DEF FrameMirrors
<1>13. FrameMirrors(g, {}, call.done, db, dal)
    BY <1>2, <1>4 DEF FrameMirrors
<1>14. \A n \in 1..Len(s) : call.done[dal[s[n].dal].id] # None
    <2>1. \A n \in 1..Len(s) : s[n].mode = "relate" /\ FrameMirrors(s[n], Above(s, n), call.done, db, dal)
        BY <1>1, <1>11 DEF StackMirrors
    <2> QED
        BY <2>1 DEF FrameMirrors
<1>15. \A m, n \in 1..Len(t) : m # n => dal[t[m].dal].id # dal[t[n].dal].id
    <2>1. \A n \in 1..Len(t) : n # 1 => dal[t[n].dal].id # dal[t[1].dal].id
        BY <1>2, <1>4, <1>8, <1>9, <1>14
    <2>2. ASSUME NEW m \in 1..Len(t), NEW n \in 1..Len(t), m # n, m # 1, n # 1
          PROVE  dal[t[m].dal].id # dal[t[n].dal].id
        <3>1. m - 1 \in 1..Len(s) /\ n - 1 \in 1..Len(s) /\ m - 1 # n - 1
            BY <1>8, <2>2
        <3>2. dal[s[m - 1].dal].id # dal[s[n - 1].dal].id
            BY <1>11, <3>1 DEF StackMirrors
        <3> QED
            BY <1>8, <2>2, <3>2
    <2> QED
        BY <2>1, <2>2
<1>16. ASSUME NEW n \in 1..Len(t)
       PROVE  FrameMirrors(t[n], Above(t, n), call.done, db, dal)
    <2>1. CASE n = 1
        BY <1>9, <1>13, <2>1 DEF Above
    <2>2. CASE n = 2
        <3>1. t[n] = f /\ Above(t, n) = {e}
            BY <1>4, <1>8, <1>9, <2>2 DEF Above
        <3> QED
            BY <1>12, <3>1
    <2>3. CASE n # 1 /\ n # 2
        <3>1. n - 1 \in 1..Len(t) /\ n - 1 # 1 /\ n - 1 \in 1..Len(s)
            BY <1>7, <1>8, <2>3
        <3>2. t[n] = s[n - 1] /\ t[n - 1].dal = s[(n - 1) - 1].dal
            BY <1>8, <2>3, <3>1
        <3>3. Above(t, n) = Above(s, n - 1)
            BY <2>3, <3>1, <3>2 DEF Above
        <3>4. FrameMirrors(s[n - 1], Above(s, n - 1), call.done, db, dal)
            BY <1>11, <3>1 DEF StackMirrors
        <3> QED
            BY <3>2, <3>3, <3>4
    <2> QED
        BY <2>1, <2>2, <2>3
<1>17. StackMirrors(call'.stack, call'.done, db, dal)
    <2>1. StackMirrors(t, call.done, db, dal)
        BY <1>15, <1>16 DEF StackMirrors
    <2> QED
        BY <1>5, <2>1
<1>18. DoneMirrors(call'.done, dal)
    BY <1>5, <1>11
<1>19. CallMirrors(call', db, dal)
    BY <1>17, <1>18 DEF CallMirrors
<1>20. CacheMirrors(db, dal, cache, dirty, Pending(call', dal), gone)
    BY <1>10, <1>11, HideMore
<1> QED
    BY <1>19, <1>20

LEMMA RelatedMirrors ==
    ASSUME RefInv, MirrorInv, NEW e \in Alive, Related(e)
    PROVE  MirrorInv'
<1> DEFINE rest == [Top EXCEPT !.todo = @ \ {e}]
           with(x) == [rest EXCEPT !.val = @ \cup {x}]
           known == call.done[Name(e)]
<1>1. /\ ~Idle /\ call.op \in Storing /\ Top.mode = "relate" /\ IsRead(Top.dal) /\ e \in Top.todo
      /\ UNCHANGED <<db, dal, cache, dirty, gone, blurred>>
    BY DEF Related, In
<1>2. \/ known # None /\ call' = [call EXCEPT !.stack = WithTop(with(known))]
      \/ known = None /\ call' = [call EXCEPT !.stack = <<NewFrame(e)>> \o WithTop(rest)]
      \/ call' = [call EXCEPT !.stack = WithTop(with(Name(e)))]
    BY DEF Related
<1>3. CASE blurred
    BY <1>1, <1>3 DEF MirrorInv
<1>4. CASE ~blurred
    <2>1. Name(e) \in Ids
        BY LoadedExist DEF Name, DalObject
    <2>2. known # None => known = Name(e)
        BY <1>1, <1>4, <2>1, WhileStoring DEF DoneMirrors
    <2>3. \/ known = None /\ call' = [call EXCEPT !.stack = <<NewFrame(e)>> \o WithTop(rest)]
          \/ call' = [call EXCEPT !.stack = WithTop(with(Name(e)))]
        BY <1>2, <2>2
    <2> QED
        BY <1>1, <2>3, ListedMirrors, CalledMirrors
<1> QED
    BY <1>3, <1>4

\* __getall__ stores nothing.
LEMMA GetallMirrors ==
    ASSUME RefInv, MirrorInv, Visit \/ Descend
    PROVE  MirrorInv'
<1>1. call.op \notin Storing /\ UNCHANGED <<db, dal, cache, dirty, gone, blurred>>
    BY DEF Visit, Descend, In, Storing
<1>2. call'.op = call.op
    BY DEF Visit, Descend, RefInv, CallOK, CallSet
<1>3. Pending(call, dal) = {} /\ Pending(call', dal) = {} /\ CallMirrors(call', db, dal)
    BY <1>1, <1>2 DEF Pending, CallMirrors
<1> QED
    BY <1>1, <1>3 DEF MirrorInv

-----------------------------------------------------------------------------
(* An object is renamed.                                                     *)

\* The database and the DALs, after an object was renamed
LEMMA RenameChanges ==
    ASSUME RefInv, RenameStored
    PROVE  LET d == Top.dal
               old == dal[d].old
               new == Name(d)
               Follow(h) == IF h.alive /\ h.id = old THEN [h EXCEPT !.id = new] ELSE h
           IN  /\ old \in Stores(db) /\ old \in Ids /\ new \in Ids /\ new \notin Stores(db) /\ old # new
               /\ Stores(db') \subseteq (Stores(db) \ {old}) \cup {new}
               /\ \A j \in Stores(db) \ {old} :
                     db'[j].attr = db[j].attr /\ db'[j].rel = Renamed(db[j].rel, old, new)
               /\ Made(dal') = Made(dal)
               /\ \A e \in Made(dal) :
                     /\ dal'[e].id = dal[e].id /\ dal'[e].attr = dal[e].attr /\ dal'[e].rel = dal[e].rel
                     /\ e # d => dal'[e].old = dal[e].old
                     /\ dal'[e].lazy = IF IsRead(e) THEN None ELSE {Follow(h) : h \in dal[e].lazy}
<1> DEFINE d == Top.dal
           old == dal[d].old
           new == Name(d)
           Follow(h) == IF h.alive /\ h.id = old THEN [h EXCEPT !.id = new] ELSE h
           Updated(e) == IF e = d THEN [dal[d] EXCEPT !.old = None] ELSE dal[e]
           object(i) == IF i = new THEN db[old] ELSE db[i]
<1>1. ~Idle /\ old \in Stores(db) /\ new \notin Stores(db) /\ old # new
    BY AliveAreMade DEF RenameStored, In
<1>2. db' = [i \in Ids |-> IF i = old THEN None
                           ELSE IF object(i) = None THEN None
                                ELSE [object(i) EXCEPT !.rel = Renamed(@, old, new)]]
    BY DEF RenameStored
<1>3. dal' = [e \in Dals |->
                 IF e \in Alive /\ ~IsRead(e)
                 THEN [Updated(e) EXCEPT !.lazy = {Follow(h) : h \in @}]
                 ELSE Updated(e)]
    BY DEF RenameStored
<1>4. d \in Made(dal) /\ d \in Dals /\ new \in Ids /\ dal[d] \in DalObject /\ old \in Ids
    <2>1. d \in Made(dal) /\ d \in Dals /\ new \in Ids /\ dal[d] \in DalObject
        BY <1>1, TopOfStack DEF FrameOK
    <2> QED
        BY <1>1, <2>1 DEF Stores
<1> HIDE DEF d, old, new, Follow
<1>5. ASSUME NEW j \in Stores(db) \ {old}
      PROVE  db'[j].attr = db[j].attr /\ db'[j].rel = Renamed(db[j].rel, old, new)
    <2>1. j \in Ids /\ db[j] # None /\ db[j] \in Object /\ object(j) = db[j]
        BY <1>1 DEF Stores, RefInv, DbOK
    <2>2. db'[j] = [db[j] EXCEPT !.rel = Renamed(db[j].rel, old, new)]
        BY <1>2, <2>1
    <2> QED
        BY <2>1, <2>2 DEF Object
<1>6. Stores(db') \subseteq (Stores(db) \ {old}) \cup {new}
    BY <1>2 DEF Stores
<1>7. \A e \in Made(dal) : e \in Dals /\ e \in Alive /\ dal[e] \in DalObject
    BY AliveAreMade DEF RefInv, DalsOK, DalOK, Made
<1>8. \A e \in Made(dal) : /\ Updated(e) \in DalObject /\ Updated(e).rel = dal[e].rel
                           /\ Updated(e).lazy = dal[e].lazy /\ Updated(e).id = dal[e].id
                           /\ Updated(e).attr = dal[e].attr /\ (e # d => Updated(e).old = dal[e].old)
    BY <1>4, <1>7 DEF DalObject
<1> HIDE DEF Updated
<1>9. ASSUME NEW e \in Made(dal)
      PROVE  /\ dal'[e].id = dal[e].id /\ dal'[e].attr = dal[e].attr /\ dal'[e].rel = dal[e].rel
             /\ e # d => dal'[e].old = dal[e].old
             /\ dal'[e].lazy = IF IsRead(e) THEN None ELSE {Follow(h) : h \in dal[e].lazy}
    <2>1. CASE IsRead(e)
        <3>1. dal'[e] = Updated(e) /\ dal[e].lazy = None
            BY <1>3, <1>7, <2>1 DEF IsRead
        <3> QED
            BY <1>8, <2>1, <3>1
    <2>2. CASE ~IsRead(e)
        <3> DEFINE L == {Follow(h) : h \in dal[e].lazy}
        <3>1. dal'[e] = [Updated(e) EXCEPT !.lazy = L]
            BY <1>3, <1>7, <1>8, <2>2
        <3> HIDE DEF L
        <3>2. /\ dal'[e].id = Updated(e).id /\ dal'[e].attr = Updated(e).attr /\ dal'[e].rel = Updated(e).rel
              /\ dal'[e].old = Updated(e).old /\ dal'[e].lazy = L
            BY <1>8, <3>1 DEF DalObject
        <3> QED
            BY <1>8, <2>2, <3>2 DEF L
    <2> QED
        BY <2>1, <2>2
<1>10. Made(dal') = Made(dal)
    <2>1. DalsOK(dal', Stores(db')) /\ RefInv'
        BY RenameKeeps DEF RefInv
    <2>2. ASSUME NEW e \in Dals \ Made(dal)
          PROVE  dal'[e] = None
        <3>1. e # d /\ dal[e] = None /\ e \notin Alive
            BY <1>4, <2>2, AliveAreMade DEF Made
        <3> QED
            BY <1>3, <3>1 DEF Updated
    <2>3. ASSUME NEW e \in Made(dal)
          PROVE  dal'[e] # None
        <3>1. CASE IsRead(e)
            <4>1. dal'[e] = Updated(e)
                BY <1>3, <1>7, <3>1
            <4> QED
                BY <1>8, <4>1, NoneIsNoRecord
        <3>2. CASE ~IsRead(e)
            <4> DEFINE L == {Follow(h) : h \in dal[e].lazy}
            <4>1. dal'[e] = [Updated(e) EXCEPT !.lazy = L]
                BY <1>3, <1>7, <1>8, <3>2
            <4>2. dal'[e] \in DalObject \cup {None} /\ dal' \in [Dals -> DalObject \cup {None}]
                BY <1>7, <2>1 DEF DalsOK
            <4>3. \A h \in dal[e].lazy : Follow(h) \in Handle
                <5>1. \A h \in dal[e].lazy : h \in Handle
                    BY <1>7, <3>2 DEF IsRead, DalObject
                <5> QED
                    BY <1>4, <5>1 DEF Handle, Follow
            <4>4. L \in SUBSET Handle
                BY <4>3
            <4> HIDE DEF L
            <4>5. dal'[e] \in DalObject
                BY <1>8, <4>1, <4>4 DEF DalObject
            <4> QED
                BY <4>5, NoneIsNoRecord
        <3> QED
            BY <3>1, <3>2
    <2> QED
        BY <2>2, <2>3 DEF Made
<1> QED
    BY <1>1, <1>4, <1>5, <1>6, <1>9, <1>10 DEF d, old, new, Follow

\* The stack, after an object was renamed
LEMMA RenameStack ==
    ASSUME RefInv, RenameStored
    PROVE  LET d == Top.dal
               old == dal[d].old
               new == Name(d)
               s == call.stack
               t == call'.stack
           IN  /\ call'.op = call.op /\ Len(t) = Len(s)
               /\ \A i \in Ids : call'.done[i] = IF call.done[i] = old THEN new ELSE call.done[i]
               /\ t[1].dal = d /\ t[1].mode = "open"
               /\ \A n \in 1..Len(s) : n # 1 =>
                     /\ t[n].dal = s[n].dal /\ t[n].mode = s[n].mode /\ t[n].todo = s[n].todo
                     /\ t[n].val = Renamed(s[n].val, old, new)
                     /\ t[n].obj = IF s[n].obj = old THEN new ELSE s[n].obj
<1> DEFINE d == Top.dal
           old == dal[d].old
           new == Name(d)
           s == call.stack
           t == call'.stack
           rest == Tail(s)
           top == [Top EXCEPT !.mode = "open"]
           waiting == [n \in 1..Len(rest) |-> Following(rest[n], old, new)]
           moved == call.moved \cup {old, new}
           done == [i \in Ids |-> IF call.done[i] = old THEN new ELSE call.done[i]]
<1>1. ~Idle
    BY DEF RenameStored, In
<1>2. call' = [call EXCEPT !.moved = moved, !.done = done, !.stack = <<top>> \o waiting]
    BY DEF RenameStored, Following
<1>3. /\ call \in CallSet /\ s \in Seq(Frame) /\ s # <<>> /\ Top \in Frame
      /\ Len(s) \in Nat /\ Len(s) >= 1 /\ \A n \in 1..Len(s) : s[n] \in Frame
    BY <1>1, Frames
<1>4. new \in Ids
    BY RenameChanges
<1> HIDE DEF old, new, moved, done
<1>5. top \in Frame /\ top.dal = d /\ top.mode = "open"
    BY <1>3 DEF Frame
<1>6. \A f \in Frame :
          LET g == Following(f, old, new)
          IN  /\ g \in Frame /\ g.dal = f.dal /\ g.mode = f.mode /\ g.todo = f.todo
              /\ g.val = Renamed(f.val, old, new) /\ g.obj = IF f.obj = old THEN new ELSE f.obj
    <2> SUFFICES ASSUME NEW f \in Frame
                 PROVE  LET g == Following(f, old, new)
                        IN  /\ g \in Frame /\ g.dal = f.dal /\ g.mode = f.mode /\ g.todo = f.todo
                            /\ g.val = Renamed(f.val, old, new) /\ g.obj = IF f.obj = old THEN new ELSE f.obj
        OBVIOUS
    <2> DEFINE v == Renamed(f.val, old, new)
               o == IF f.obj = old THEN new ELSE f.obj
    <2>1. v \in SUBSET Ids /\ o \in Ids \cup {None}
        BY <1>4 DEF Frame, Renamed
    <2>2. Following(f, old, new) = [f EXCEPT !.val = v, !.obj = o]
        BY DEF Following
    <2> HIDE DEF v, o
    <2>3. /\ [f EXCEPT !.val = v, !.obj = o] \in Frame
          /\ \A g : g = [f EXCEPT !.val = v, !.obj = o] =>
                g.dal = f.dal /\ g.mode = f.mode /\ g.todo = f.todo /\ g.val = v /\ g.obj = o
        BY <2>1 DEF Frame
    <2> QED
        BY <2>2, <2>3 DEF v, o
<1> HIDE DEF d, s, t, top
<1>7. /\ rest \in Seq(Frame) /\ Len(rest) = Len(s) - 1 /\ Len(rest) \in Nat
      /\ \A n \in 1..Len(rest) : rest[n] \in Frame /\ rest[n] = s[n + 1] /\ n + 1 \in 1..Len(s)
    BY <1>3
<1> HIDE DEF rest
<1>8. /\ waiting \in Seq(Frame) /\ Len(waiting) = Len(rest)
      /\ \A n \in 1..Len(rest) : waiting[n] = Following(rest[n], old, new)
    BY <1>6, <1>7
<1> HIDE DEF waiting
<1>9. /\ <<top>> \o waiting \in Seq(Frame) /\ Len(<<top>> \o waiting) = Len(s)
      /\ \A n \in 1..Len(s) : (<<top>> \o waiting)[n] = IF n = 1 THEN top ELSE waiting[n - 1]
    BY <1>3, <1>5, <1>7, <1>8
<1> DEFINE u == <<top>> \o waiting
<1> HIDE DEF u
<1>10. t = u /\ call'.op = call.op /\ call'.done = done
    BY <1>2, <1>3 DEF CallSet, t, u
<1>11. \A n \in 1..Len(s) : n # 1 => n - 1 \in 1..Len(rest) /\ (n - 1) + 1 = n
    BY <1>3, <1>7
<1>12. \A n \in 1..Len(s) : n # 1 => t[n] = Following(s[n], old, new)
    BY <1>7, <1>8, <1>9, <1>10, <1>11 DEF u
<1>13. Len(t) = Len(s) /\ t[1] = top
    BY <1>3, <1>9, <1>10 DEF u
<1>14. \A n \in 1..Len(s) : n # 1 =>
           /\ t[n].dal = s[n].dal /\ t[n].mode = s[n].mode /\ t[n].todo = s[n].todo
           /\ t[n].val = Renamed(s[n].val, old, new)
           /\ t[n].obj = IF s[n].obj = old THEN new ELSE s[n].obj
    <2>1. \A n \in 1..Len(s) : s[n] \in Frame
        BY <1>3 DEF s
    <2> QED
        BY <1>6, <1>12, <2>1
<1>15. \A i \in Ids : call'.done[i] = IF call.done[i] = old THEN new ELSE call.done[i]
    BY <1>10 DEF done
<1> QED
    BY <1>5, <1>10, <1>13, <1>14, <1>15 DEF d, old, new, s, t

\* Unless another DAL has the old name or had it, what waits or is cached goes by the
\* new name wherever it went by the old one.
LEMMA RenameMirrors ==
    ASSUME RefInv, MirrorInv, RenameStored
    PROVE  MirrorInv'
<1> DEFINE d == Top.dal
           old == dal[d].old
           new == Name(d)
           s == call.stack
           t == call'.stack
           Follow(h) == IF h.alive /\ h.id = old THEN [h EXCEPT !.id = new] ELSE h
<1>1. /\ ~Idle /\ call.op \in Storing /\ Top.mode = "begin" /\ UNCHANGED <<cache, dirty>>
      /\ gone' = IF old \in gone THEN gone \cup {new} ELSE gone
      /\ blurred' = (blurred \/ \E e \in Alive \ {d} : old \in {Name(e), dal[e].old})
    BY DEF RenameStored, In, Storing
<1>2. /\ call.stack # <<>> /\ Top = s[1] /\ Len(s) \in Nat /\ Len(s) >= 1 /\ 1 \in 1..Len(s)
      /\ \A n \in 1..Len(s) :
            /\ s[n].dal \in Made(dal) /\ dal[s[n].dal].id \in Ids
            /\ dal[s[n].dal].rel \subseteq Made(dal)
            /\ n # 1 => s[n].mode = "relate" /\ s[n].obj \in Stores(db)
    BY <1>1, Frames
<1>3. /\ old \in Stores(db) /\ old \in Ids /\ new \in Ids /\ new \notin Stores(db) /\ old # new
      /\ Stores(db') \subseteq (Stores(db) \ {old}) \cup {new}
      /\ \A j \in Stores(db) \ {old} :
            db'[j].attr = db[j].attr /\ db'[j].rel = Renamed(db[j].rel, old, new)
      /\ Made(dal') = Made(dal)
      /\ \A e \in Made(dal) :
            /\ dal'[e].id = dal[e].id /\ dal'[e].attr = dal[e].attr /\ dal'[e].rel = dal[e].rel
            /\ e # d => dal'[e].old = dal[e].old
            /\ dal'[e].lazy = IF IsRead(e) THEN None ELSE {Follow(h) : h \in dal[e].lazy}
    BY RenameChanges
<1>4. /\ call'.op = call.op /\ Len(t) = Len(s)
      /\ \A i \in Ids : call'.done[i] = IF call.done[i] = old THEN new ELSE call.done[i]
      /\ t[1].dal = d /\ t[1].mode = "open"
      /\ \A n \in 1..Len(s) : n # 1 =>
            /\ t[n].dal = s[n].dal /\ t[n].mode = s[n].mode /\ t[n].todo = s[n].todo
            /\ t[n].val = Renamed(s[n].val, old, new)
            /\ t[n].obj = IF s[n].obj = old THEN new ELSE s[n].obj
    BY RenameStack
<1>5. d = s[1].dal /\ new = dal[s[1].dal].id /\ dal[d].id = new /\ dal[d].old = old /\ d \in Made(dal)
    BY <1>2 DEF Name
<1> HIDE DEF d, old, new, s, t, Follow
<1> SUFFICES ASSUME ~blurred, \A e \in Made(dal) \ {d} : ~StandsFor(dal[e], old)
             PROVE  CallMirrors(call', db', dal') /\ CacheMirrors(db', dal', cache, dirty, Pending(call', dal'), gone')
    BY <1>1, AliveAreMade DEF MirrorInv, StandsFor, Name
<1>6. /\ StackMirrors(s, call.done, db, dal) /\ DoneMirrors(call.done, dal)
      /\ CacheMirrors(db, dal, cache, dirty, Pending(call, dal), gone)
      /\ FrameMirrors(s[1], {}, call.done, db, dal)
    BY <1>1, <1>2, WhileStoring DEF s
<1>7. \A e \in Made(dal) : dal[e].id # old
    BY <1>3, <1>5 DEF StandsFor
<1>8. \A i \in Ids : call'.done[i] = call.done[i]
    <2>1. \A i \in Ids : call.done[i] # old
        <3> SUFFICES ASSUME NEW i \in Ids, call.done[i] = old
                     PROVE  FALSE
            OBVIOUS
        <3>1. call.done[i] # None
            BY <1>3, NoneIsNoRecord
        <3>2. \E e \in Made(dal) : dal[e].id = old
            BY <1>6, <3>1 DEF DoneMirrors
        <3> QED
            BY <1>7, <3>2
    <2> QED
        BY <1>4, <2>1
<1>9. \A n \in 1..Len(s) : t[n].dal = s[n].dal
    BY <1>4, <1>5
<1>10. \A m, n \in 1..Len(t) : m # n => dal'[t[m].dal].id # dal'[t[n].dal].id
    <2>1. \A m, n \in 1..Len(s) : m # n => dal[s[m].dal].id # dal[s[n].dal].id
        BY <1>6 DEF StackMirrors
    <2>2. \A n \in 1..Len(s) : dal'[t[n].dal].id = dal[s[n].dal].id
        BY <1>2, <1>3, <1>9
    <2>3. Len(t) = Len(s)
        BY <1>4
    <2> QED
        BY <2>1, <2>2, <2>3
<1>11. FrameMirrors(t[1], Above(t, 1), call'.done, db', dal')
    <2>1. call.done[new] = None
        BY <1>1, <1>2, <1>5, <1>6 DEF FrameMirrors, s
    <2>2. dal'[d].id = new /\ call'.done[new] = None
        BY <1>3, <1>5, <1>8, <2>1
    <2>3. Above(t, 1) = {}
        BY DEF Above
    <2> QED
        BY <1>4, <2>2, <2>3 DEF FrameMirrors
<1>12. ASSUME NEW n \in 1..Len(s), n # 1
       PROVE  FrameMirrors(t[n], Above(t, n), call'.done, db', dal')
    <2> DEFINE f == s[n]
               g == t[n]
               o == dal[f.dal]
               p == dal'[f.dal]
               A == Above(s, n)
    <2>1. n - 1 \in 1..Len(s)
        BY <1>2, <1>12
    <2>2. Above(t, n) = A
        BY <1>9, <1>12, <2>1 DEF Above
    <2>3. FrameMirrors(f, A, call.done, db, dal) /\ o.id # new
        BY <1>2, <1>5, <1>6, <1>12 DEF StackMirrors
    <2>4. /\ f.mode = "relate" /\ f.obj \in Stores(db)
          /\ f.dal \in Made(dal) /\ o.id \in Ids /\ o.rel \subseteq Made(dal) /\ o.id # old
        BY <1>2, <1>7, <1>12
    <2>5. /\ f.obj = o.id /\ call.done[o.id] # None /\ o.attr \in {None, db[o.id].attr}
          /\ f.todo \subseteq o.rel /\ A \subseteq o.rel \ f.todo
          /\ f.val = NamesIn(dal, (o.rel \ f.todo) \ A)
          /\ o.lazy # None => f.val = {} /\ A = {}
        BY <2>3, <2>4 DEF FrameMirrors
    <2>6. /\ g.dal = f.dal /\ g.mode = "relate" /\ g.todo = f.todo /\ g.obj = f.obj
          /\ g.val = Renamed(f.val, old, new)
        BY <1>4, <1>12, <2>4, <2>5
    <2>7. g.val = f.val
        <3>1. old \notin f.val
            BY <1>7, <2>4, <2>5 DEF NamesIn
        <3> QED
            BY <2>6, <3>1 DEF Renamed
    <2>8. /\ p.id = o.id /\ p.attr = o.attr /\ p.rel = o.rel /\ (p.lazy # None => o.lazy # None)
        BY <1>3, <2>4 DEF IsRead
    <2>9. NamesIn(dal', (o.rel \ f.todo) \ A) = NamesIn(dal, (o.rel \ f.todo) \ A)
        <3>1. \A e \in o.rel : dal'[e].id = dal[e].id
            BY <1>3, <2>4
        <3> HIDE DEF o, f, A
        <3> QED
            BY <3>1 DEF NamesIn
    <2>10. db'[o.id].attr = db[o.id].attr /\ call'.done[o.id] = call.done[o.id]
        BY <1>3, <1>8, <2>4, <2>5
    <2> HIDE DEF f, g, o, p, A
    <2>11. dal'[g.dal] = p
        BY <2>6 DEF p
    <2>12. FrameMirrors(g, A, call'.done, db', dal')
        BY <2>5, <2>6, <2>7, <2>8, <2>9, <2>10, <2>11 DEF FrameMirrors
    <2> QED
        BY <2>2, <2>12 DEF g
<1>13. StackMirrors(t, call'.done, db', dal')
    <2>1. \A n \in 1..Len(t) : FrameMirrors(t[n], Above(t, n), call'.done, db', dal')
        BY <1>4, <1>11, <1>12
    <2> QED
        BY <1>10, <2>1 DEF StackMirrors
<1>14. DoneMirrors(call'.done, dal')
    <2>1. \A n \in Ids, e \in Made(dal) : dal[e].id = n => e \in Made(dal') /\ dal'[e].id = n
        BY <1>3
    <2> QED
        BY <1>6, <1>8, <2>1 DEF DoneMirrors
<1>15. CallMirrors(call', db', dal')
    BY <1>13, <1>14 DEF CallMirrors, t
<1>16. Pending(call, dal) \subseteq Pending(call', dal') /\ new \in Pending(call', dal')
    <2>1. \A n \in 1..Len(s) : dal'[t[n].dal].id = dal[s[n].dal].id /\ (s[n].mode # "begin" => t[n].mode # "begin")
        BY <1>2, <1>3, <1>4, <1>9
    <2>2. ASSUME NEW i \in Pending(call, dal)
          PROVE  i \in Pending(call', dal')
        <3>1. PICK n \in 1..Len(s) : s[n].mode # "begin" /\ i = dal[s[n].dal].id
            BY DEF Pending, s
        <3>2. n \in 1..Len(t) /\ t[n].mode # "begin" /\ i = dal'[t[n].dal].id
            BY <1>4, <2>1, <3>1
        <3> QED
            BY <1>1, <1>4, <3>2 DEF Pending, t
    <2>3. 1 \in 1..Len(t) /\ t[1].mode # "begin" /\ new = dal'[t[1].dal].id
        BY <1>2, <1>4, <1>5, <2>1
    <2>4. new \in Pending(call', dal')
        BY <1>1, <1>4, <2>3 DEF Pending, t
    <2> QED
        BY <2>2, <2>4
<1>17. ASSUME NEW j \in Stores(db') \ Pending(call', dal'), NEW x, x = cache[ClassOf[j]][j],
              x # None, dal'[x].id = j, x \notin dirty
       PROVE  Mirrors(dal'[x], db'[j], dal', gone')
    <2> DEFINE o == dal[x]
               p == dal'[x]
               R == db[j].rel
    <2>1. j \in Stores(db) \ {old} /\ j \in Ids /\ j # new /\ j \notin Pending(call, dal)
        BY <1>3, <1>16 DEF Stores
    <2>2. x \in Made(dal) /\ o \in DalObject /\ o.rel \subseteq Made(dal)
        BY <1>17, <2>1, CachedIsMade
    <2>3. Mirrors(o, db[j], dal, gone)
        <3>1. o.id = j
            BY <1>3, <1>17, <2>2
        <3> QED
            BY <1>6, <1>17, <2>1, <3>1 DEF CacheMirrors
    <2>4. db'[j].attr = db[j].attr /\ db'[j].rel = Renamed(R, old, new)
        BY <1>3, <2>1
    <2>5. R \subseteq Stores(db)
        BY <2>1 DEF RefInv, DbOK
    <2>6. p.attr = o.attr /\ p.rel = o.rel /\ p.lazy = IF IsRead(x) THEN None ELSE {Follow(h) : h \in o.lazy}
        BY <1>3, <2>2
    <2>7. CASE IsRead(x)
        <3>1. o.lazy = None /\ p.lazy = None
            BY <2>6, <2>7 DEF IsRead
        <3>2. /\ \A n \in R : \E e \in o.rel : StandsFor(dal[e], n)
              /\ \A e \in o.rel : \E n \in R \cup gone : StandsFor(dal[e], n)
            BY <2>3, <3>1 DEF Mirrors
        <3>3. StandsFor(dal'[d], new)
            BY <1>3, <1>5 DEF StandsFor
        <3>4. \A e \in o.rel \ {d} : \A n : StandsFor(dal'[e], n) <=> StandsFor(dal[e], n)
            BY <1>3, <2>2 DEF StandsFor
        <3>5. \A e \in o.rel \ {d} : ~StandsFor(dal[e], old)
            BY <2>2
        <3>6. ASSUME NEW n \in Renamed(R, old, new)
              PROVE  \E e \in p.rel : StandsFor(dal'[e], n)
            <4>1. PICK m \in R : n = IF m = old THEN new ELSE m
                BY DEF Renamed
            <4>2. PICK e \in o.rel : StandsFor(dal[e], m)
                BY <3>2
            <4>3. CASE e = d
                <5>1. m \in {new, old} /\ n = new
                    BY <1>5, <4>1, <4>2, <4>3 DEF StandsFor
                <5> QED
                    BY <2>6, <3>3, <4>2, <4>3, <5>1
            <4>4. CASE e # d
                <5>1. m # old /\ n = m
                    BY <3>5, <4>1, <4>2, <4>4
                <5> QED
                    BY <2>6, <3>4, <4>2, <4>4, <5>1
            <4> QED
                BY <4>3, <4>4
        <3>7. ASSUME NEW e \in p.rel
              PROVE  \E n \in Renamed(R, old, new) \cup gone' : StandsFor(dal'[e], n)
            <4>1. PICK m \in R \cup gone : StandsFor(dal[e], m)
                BY <2>6, <3>2
            <4>2. (IF m = old THEN new ELSE m) \in Renamed(R, old, new) \cup gone'
                BY <1>1, <4>1 DEF Renamed
            <4>3. CASE e = d
                <5>1. m \in {new, old}
                    BY <1>5, <4>1, <4>3 DEF StandsFor
                <5> QED
                    BY <3>3, <4>2, <4>3, <5>1
            <4>4. CASE e # d
                <5>1. m # old /\ StandsFor(dal'[e], m)
                    BY <2>6, <3>4, <3>5, <4>1, <4>4
                <5> QED
                    BY <4>2, <5>1
            <4> QED
                BY <4>3, <4>4
        <3>8. o.attr \in {None, db[j].attr}
            BY <2>3 DEF Mirrors
        <3> QED
            BY <2>4, <2>6, <3>1, <3>6, <3>7, <3>8 DEF Mirrors
    <2>8. CASE ~IsRead(x)
        <3> DEFINE L == {Follow(h) : h \in o.lazy}
        <3>1. o.lazy # None /\ o.lazy \in SUBSET Handle /\ p.lazy = L
            BY <2>2, <2>6, <2>8 DEF IsRead, DalObject
        <3>2. \A h \in o.lazy : /\ Follow(h) \in Handle /\ (Follow(h).alive <=> h.alive)
                                /\ h.alive => Follow(h).id = IF h.id = old THEN new ELSE h.id
            <4>1. \A h \in o.lazy : h \in Handle
                BY <3>1
            <4> QED
                BY <1>3, <4>1 DEF Handle, Follow
        <3>3. L # None
            <4>1. L \in SUBSET Handle
                BY <3>2
            <4> HIDE DEF L
            <4> QED
                BY <4>1, StoredAssumption DEF StoredAssumption
        <3>4. R = {h.id : h \in {g \in o.lazy : g.alive}} /\ o.attr \in {None, db[j].attr}
            BY <2>3, <3>1 DEF Mirrors
        <3> HIDE DEF R
        <3>5. Renamed(R, old, new) = {h.id : h \in {g \in L : g.alive}}
            <4>1. ASSUME NEW n \in Renamed(R, old, new)
                  PROVE  n \in {h.id : h \in {g \in L : g.alive}}
                <5>1. PICK m \in R : n = IF m = old THEN new ELSE m
                    BY DEF Renamed
                <5>2. PICK h \in o.lazy : h.alive /\ h.id = m
                    BY <3>4
                <5>3. Follow(h) \in L /\ Follow(h).alive /\ Follow(h).id = n
                    BY <3>2, <5>1, <5>2
                <5> HIDE DEF L
                <5> QED
                    BY <5>3
            <4>2. ASSUME NEW n \in {h.id : h \in {g \in L : g.alive}}
                  PROVE  n \in Renamed(R, old, new)
                <5>1. PICK g \in L : g.alive /\ g.id = n
                    BY <4>2
                <5>2. PICK h \in o.lazy : g = Follow(h)
                    OBVIOUS
                <5>3. h.alive /\ n = IF h.id = old THEN new ELSE h.id
                    BY <3>2, <5>1, <5>2
                <5>4. h.id \in R
                    BY <3>4, <5>3
                <5> QED
                    BY <5>3, <5>4 DEF Renamed
            <4> QED
                BY <4>1, <4>2
        <3> HIDE DEF L
        <3> QED
            BY <2>4, <2>6, <3>1, <3>3, <3>4, <3>5 DEF Mirrors
    <2> QED
        BY <2>7, <2>8
<1>18. CacheMirrors(db', dal', cache, dirty, Pending(call', dal'), gone')
    BY <1>17 DEF CacheMirrors
<1> QED
    BY <1>15, <1>18

-----------------------------------------------------------------------------
(* Handles of destroyed objects.                                             *)

\* A DAL that was just read has none ...
LEMMA NewlyAlive ==
    ASSUME DeadInv, NEW f, NEW e \in Dals
    PROVE  DeadOK(WithDals(f)[e], gone)
<1>1. \A i : DeadOK(as_dal(i), gone)
    BY DEF as_dal, NewDal, getitem, DeadOK
<1>2. WithDals(f)[e] = dal[e] \/ \E i : WithDals(f)[e] = as_dal(i)
    BY DEF WithDals
<1> QED
    BY <1>1, <1>2 DEF DeadInv

\* ... and a getter, failing or not, makes no more.
LEMMA ReadingDead ==
    ASSUME RefInv, DeadInv, NEW d \in Alive, ReadRelation(d) \/ ReadRelationFails(d)
    PROVE  \A e \in Dals : DeadOK(dal'[e], gone)
<1>1. d \in Dals
    BY DEF Alive
<1>2. dal'[d].lazy = None
    BY GetterChanges, FailedReadingFollows
<1>3. ASSUME NEW e \in Dals \ {d}
      PROVE  (\E f : dal'[e] = WithDals(f)[e]) \/ \E i : dal'[e] = NewDal(i)
    <2>1. CASE ReadRelation(d)
        BY <1>3, <2>1 DEF ReadRelation, WithDals
    <2>2. CASE ReadRelationFails(d)
        <3>1. PICK f, half, i : dal' = [WithDals(f) EXCEPT ![half] = NewDal(i), ![d].lazy = None]
            BY <2>2 DEF ReadRelationFails
        <3>2. dal'[e] = WithDals(f)[e] \/ dal'[e] = NewDal(i)
            BY <1>3, <3>1 DEF WithDals
        <3> QED
            BY <3>2
    <2> QED
        BY <2>1, <2>2
<1>4. \A i : DeadOK(NewDal(i), gone)
    BY DEF NewDal, DeadOK
<1> QED
    BY <1>2, <1>3, <1>4, NewlyAlive DEF DeadOK

\* What a client does to handles: only destroying marks them dead.
LEMMA ClientKeepsDead ==
    ASSUME RefInv, DeadInv, ClientNext
    PROVE  DeadInv'
<1>1. dal \in [Dals -> DalObject \cup {None}] /\ \A d \in Made(dal) : dal[d] \in DalObject /\ d \in Dals
    BY DEF RefInv, DalsOK, DalOK, Made
<1>2. CASE Construct
    <2>1. PICK i \in Ids, v \in Assigned \cup {None}, S \in SUBSET Alive :
              dal' = [dal EXCEPT ![FirstFree] = [NewDal(i) EXCEPT !.attr = v, !.rel = S]]
        BY <1>2 DEF Construct
    <2> DEFINE o == [NewDal(i) EXCEPT !.attr = v, !.rel = S]
    <2>2. DeadOK(o, gone)
        BY DEF NewDal, DeadOK
    <2>3. dal' = [dal EXCEPT ![FirstFree] = o] /\ gone' = gone
        BY <1>2, <2>1 DEF Construct
    <2> HIDE DEF o
    <2> QED
        BY <1>1, <2>2, <2>3 DEF DeadInv
<1>3. ASSUME NEW d \in Alive, SetAttribute(d) \/ SetRelation(d) \/ SetId(d) \/ rename(d) \/ \E e \in Alive : copy(d, e)
      PROVE  DeadInv'
    <2>1. d \in Made(dal) /\ d \in Dals /\ dal[d] \in DalObject
        BY <1>1, AliveAreMade
    <2>2. /\ \A e \in Dals \ {d} : dal'[e] = dal[e]
          /\ dal'[d].lazy \in {None, dal[d].lazy}
          /\ gone' = gone
        <3>1. CASE SetAttribute(d)
            BY <1>1, <2>1, <3>1 DEF SetAttribute, DalObject
        <3>2. CASE SetRelation(d)
            BY <1>1, <2>1, <3>2 DEF SetRelation, DalObject
        <3>3. CASE SetId(d)
            BY <1>1, <2>1, <3>3 DEF SetId, DalObject
        <3>4. CASE rename(d)
            BY <1>1, <2>1, <3>4 DEF rename, DalObject
        <3>5. CASE \E e \in Alive : copy(d, e)
            BY <1>1, <2>1, <3>5 DEF copy, DalObject
        <3> QED
            BY <1>3, <3>1, <3>2, <3>3, <3>4, <3>5
    <2>3. dal[d] # None
        BY <2>1 DEF Made
    <2> QED
        BY <2>1, <2>2, <2>3 DEF DeadInv, DeadOK
<1>4. ASSUME NEW d \in Alive, Read(d)
      PROVE  DeadInv'
    BY <1>4, ReadingDead DEF Read, DeadInv
<1>5. ASSUME NEW f, dal' = WithDals(f), gone' = gone
      PROVE  DeadInv'
    BY <1>5, NewlyAlive DEF DeadInv
<1>6. ASSUME NEW d \in Alive, destroy_dal(d)
      PROVE  DeadInv'
    <2> DEFINE i == Name(d)
               Dead(h) == IF h.id = i THEN [h EXCEPT !.alive = FALSE] ELSE h
    <2>1. /\ gone' = gone \cup {i}
          /\ dal' = [e \in Dals |->
                       IF e \in Alive /\ ~IsRead(e)
                       THEN [dal[e] EXCEPT !.lazy = {Dead(h) : h \in @}]
                       ELSE dal[e]]
        BY <1>6 DEF destroy_dal
    <2> HIDE DEF i
    <2> SUFFICES ASSUME NEW e \in Dals
                 PROVE  DeadOK(dal'[e], gone')
        BY DEF DeadInv
    <2>2. CASE e \in Alive /\ ~IsRead(e)
        <3> DEFINE L == {Dead(h) : h \in dal[e].lazy}
        <3>1. dal[e] \in DalObject /\ dal[e] # None /\ dal[e].lazy # None /\ dal[e].lazy \in SUBSET Handle
            BY <1>1, <2>2, AliveAreMade DEF IsRead, DalObject, Made
        <3>2. dal'[e] = [dal[e] EXCEPT !.lazy = L]
            BY <2>1, <2>2
        <3>3. \A h \in dal[e].lazy : h.alive \/ h.id \in gone
            BY <3>1 DEF DeadInv, DeadOK
        <3>4. \A h \in dal[e].lazy : h \in Handle => (Dead(h).alive \/ Dead(h).id \in gone')
            BY <2>1, <3>3 DEF Handle
        <3>5. \A g \in L : g.alive \/ g.id \in gone'
            BY <3>1, <3>4
        <3> HIDE DEF L
        <3>6. dal'[e].lazy = L
            BY <3>1, <3>2 DEF DalObject
        <3> QED
            BY <3>5, <3>6 DEF DeadOK
    <2>3. CASE e \notin Alive \/ IsRead(e)
        <3>1. dal'[e] = dal[e] /\ gone \subseteq gone'
            BY <2>1, <2>3
        <3> QED
            BY <3>1 DEF DeadInv, DeadOK
    <2> QED
        BY <2>2, <2>3
<1>7. ASSUME NEW d, NEW op, Start(op, d)
      PROVE  DeadInv'
    BY <1>7 DEF Start, DeadInv
<1>8. ASSUME NEW i, get_dal(i)
      PROVE  DeadInv'
    BY <1>5, <1>8 DEF get_dal
<1>9. ASSUME NEW C, get_dals(C)
      PROVE  DeadInv'
    BY <1>5, <1>9 DEF get_dals
<1> QED
    BY <1>2, <1>3, <1>4, <1>6, <1>7, <1>8, <1>9 DEF ClientNext

\* Handles of an object that is renamed are not dead.
LEMMA RenameKeepsDead ==
    ASSUME RefInv, DeadInv, RenameStored
    PROVE  DeadInv'
<1> DEFINE old == dal[Top.dal].old
           new == Name(Top.dal)
           Follow(h) == IF h.alive /\ h.id = old THEN [h EXCEPT !.id = new] ELSE h
<1>1. /\ new \in Ids /\ Made(dal') = Made(dal)
      /\ \A e \in Made(dal) : dal'[e].lazy = IF IsRead(e) THEN None ELSE {Follow(h) : h \in dal[e].lazy}
    BY RenameChanges
<1>2. gone \subseteq gone'
    BY DEF RenameStored
<1> HIDE DEF old, new
<1> SUFFICES ASSUME NEW e \in Dals, dal'[e] # None, dal'[e].lazy # None, NEW g \in dal'[e].lazy
             PROVE  g.alive \/ g.id \in gone'
    BY DEF DeadInv, DeadOK
<1>3. e \in Made(dal) /\ ~IsRead(e) /\ dal'[e].lazy = {Follow(h) : h \in dal[e].lazy}
    BY <1>1 DEF Made
<1>4. dal[e] # None /\ dal[e].lazy # None /\ dal[e].lazy \in SUBSET Handle
    BY <1>3 DEF RefInv, DalsOK, DalOK, Made, IsRead, DalObject
<1>5. PICK h \in dal[e].lazy : g = Follow(h)
    BY <1>3
<1>6. h \in Handle /\ (h.alive \/ h.id \in gone)
    BY <1>4 DEF DeadInv, DeadOK
<1> QED
    BY <1>1, <1>2, <1>5, <1>6 DEF Handle

LEMMA DeadInvariant == Spec => []DeadInv
<1>1. RefInv /\ DeadInv /\ [Next]_vars => DeadInv'
    <2> SUFFICES ASSUME RefInv, DeadInv, [Next]_vars
                 PROVE  DeadInv'
        OBVIOUS
    <2>1. CASE ClientNext
        BY <2>1, ClientKeepsDead
    <2>2. CASE RenameStored
        BY <2>2, RenameKeepsDead
    <2>3. CASE ~Idle /\ Relate
        <3>1. Top.dal \in Alive /\ gone' = gone
            BY <2>3, TopOfStack, AliveAreMade DEF FrameOK, Relate
        <3> QED
            BY <2>3, <3>1, ReadingDead DEF Relate, DeadInv
    <2>4. CASE CallNext /\ ~RenameStored /\ ~Relate
        <3>1. UNCHANGED <<dal, gone>>
            BY <2>4 DEF CallNext, RenameFails, NoRename, AddExisting, Open, OpenRefused, Related,
                        RelatedFails, Store, Visit, Descend
        <3> QED
            BY <3>1 DEF DeadInv
    <2>5. CASE UNCHANGED vars
        BY <2>5 DEF vars, DeadInv
    <2> QED
        BY <2>1, <2>2, <2>3, <2>4, <2>5 DEF Next
<1>2. Init => DeadInv
    BY DEF Init, DeadInv, DeadOK
<1> QED
    BY <1>1, <1>2, RefInvariant, PTL DEF Spec

-----------------------------------------------------------------------------
LEMMA CallKeepsMirrors ==
    ASSUME RefInv, DeadInv, MirrorInv, CallNext
    PROVE  MirrorInv'
<1>1. CASE RenameFails
    <2>1. blurred' = TRUE
        BY <1>1 DEF RenameFails, Raise
    <2> QED
        BY <2>1, RaisedMirrors
<1>2. ASSUME NEW e \in Alive, RelatedFails(e)
      PROVE  MirrorInv'
    <2>1. blurred' = TRUE
        BY <1>2 DEF RelatedFails, Raise
    <2> QED
        BY <2>1, RaisedMirrors
<1>3. CASE RenameStored \/ NoRename
    BY <1>3, RenameMirrors, NoRenameMirrors
<1>4. CASE AddExisting \/ Open \/ OpenRefused \/ Relate
    BY <1>4, AddExistingMirrors, OpenMirrors, OpenRefusedMirrors, RelateMirrors
<1>5. ASSUME NEW e \in Alive, Related(e)
      PROVE  MirrorInv'
    BY <1>5, RelatedMirrors
<1>6. CASE Store \/ Visit \/ Descend
    BY <1>6, StoreMirrors, GetallMirrors
<1> QED
    BY <1>1, <1>2, <1>3, <1>4, <1>5, <1>6 DEF CallNext

\* Nothing is cached when the database is opened.
LEMMA InitMirrors == Init => MirrorInv
<1> SUFFICES ASSUME Init
             PROVE  MirrorInv
    OBVIOUS
<1>1. call = NoCall /\ cache = [c \in Classes |-> [i \in Ids |-> None]]
    BY DEF Init
<1>2. CallMirrors(call, db, dal)
    BY <1>1, NothingPending
<1>3. \A i \in Ids : cache[ClassOf[i]][i] = None
    BY <1>1, OwnClass
<1>4. CacheMirrors(db, dal, cache, dirty, Pending(call, dal), gone)
    BY <1>3 DEF CacheMirrors, Stores
<1> QED
    BY <1>2, <1>4 DEF MirrorInv

LEMMA MirrorInvariant == Spec => []MirrorInv
<1>1. RefInv /\ DeadInv /\ gone \subseteq Ids /\ MirrorInv /\ [Next]_vars => MirrorInv'
    <2> SUFFICES ASSUME RefInv, DeadInv, gone \subseteq Ids, MirrorInv, [Next]_vars
                 PROVE  MirrorInv'
        OBVIOUS
    <2>1. CASE Next
        BY <2>1, ClientKeepsMirrors, CallKeepsMirrors DEF Next
    <2>2. CASE UNCHANGED vars
        <3>1. UNCHANGED <<db, dal, cache, call, dirty, gone, blurred>>
            BY <2>2 DEF vars
        <3> QED
            BY <3>1 DEF MirrorInv
    <2> QED
        BY <2>1, <2>2
<1> QED
    BY <1>1, InitMirrors, RefInvariant, DeadInvariant, GoneAreNames, PTL DEF Spec

\* A DAL that get_dal returns from the cache has the attribute and every reference its
\* object has in the database, after reads, renames, destroys and stored cycles in any
\* order, and names nothing else but objects that destroy_dal destroyed: Configuration
\* drops only the destroyed DAL, so the DALs that were related to it stay stale.
\* Excused is what CacheReflects lists: DALs the program changed, DALs related to one
\* to which it gave another name, DALs cached without being written, all until they
\* are written; and everything after a failed call or a renamed name of two DALs.
THEOREM ReflectsCorrect == Spec => []CacheReflects
<1>1. RefInv /\ gone \subseteq Ids /\ MirrorInv => CacheReflects
    <2> SUFFICES ASSUME RefInv, gone \subseteq Ids, MirrorInv, Idle, ~blurred, NEW i \in Present
                 PROVE  LET d == cache[ClassOf[i]][i]
                            handles == {h \in HandlesOf(d) : h.alive}
                        IN  (/\ d # None
                             /\ Name(d) = i
                             /\ d \notin dirty
                             /\ \A e \in dal[d].rel : dal[e].old \in {None, Name(e)}) =>
                                /\ dal[d].attr \in {None, db[i].attr}
                                /\ IF IsRead(d)
                                   THEN /\ db[i].rel \subseteq Names(dal[d].rel)
                                        /\ Names(dal[d].rel) \ db[i].rel \subseteq gone
                                   ELSE db[i].rel = {h.id : h \in handles}
        BY DEF CacheReflects
    <2> DEFINE d == cache[ClassOf[i]][i]
               handles == {h \in HandlesOf(d) : h.alive}
    <2> SUFFICES ASSUME d # None, Name(d) = i, d \notin dirty,
                        \A e \in dal[d].rel : dal[e].old \in {None, Name(e)}
                 PROVE  /\ dal[d].attr \in {None, db[i].attr}
                        /\ IF IsRead(d)
                           THEN /\ db[i].rel \subseteq Names(dal[d].rel)
                                /\ Names(dal[d].rel) \ db[i].rel \subseteq gone
                           ELSE db[i].rel = {h.id : h \in handles}
        OBVIOUS
    <2>1. i \in Stores(db) /\ i \in Ids
        BY AliveAreMade DEF Present
    <2>2. Mirrors(dal[d], db[i], dal, gone)
        <3>1. Pending(call, dal) = {}
            BY NothingPending
        <3> QED
            BY <2>1, <3>1 DEF MirrorInv, CacheMirrors, Name
    <2>3. dal[d].attr \in {None, db[i].attr}
        BY <2>2 DEF Mirrors
    <2>4. CASE IsRead(d)
        <3>1. /\ \A n \in db[i].rel : \E e \in dal[d].rel : StandsFor(dal[e], n)
              /\ \A e \in dal[d].rel : \E n \in db[i].rel \cup gone : StandsFor(dal[e], n)
            BY <2>2, <2>4 DEF Mirrors, IsRead
        <3>2. \A n \in db[i].rel \cup gone : n # None
            BY <2>1, NoneIsNoRecord DEF RefInv, DbOK, Stores
        <3>3. \A n \in db[i].rel \cup gone, e \in dal[d].rel : StandsFor(dal[e], n) => n = Name(e)
            BY <3>2 DEF StandsFor, Name
        <3>4. db[i].rel \subseteq Names(dal[d].rel) /\ Names(dal[d].rel) \ db[i].rel \subseteq gone
            BY <3>1, <3>3 DEF Names
        <3> QED
            BY <2>3, <2>4, <3>4
    <2>5. CASE ~IsRead(d)
        <3>1. HandlesOf(d) = dal[d].lazy /\ dal[d].lazy # None
            BY <2>5 DEF HandlesOf, IsRead
        <3>2. db[i].rel = {h.id : h \in handles}
            BY <2>2, <3>1 DEF Mirrors
        <3> QED
            BY <2>3, <2>5, <3>2
    <2> QED
        BY <2>4, <2>5
<1> QED
    BY <1>1, RefInvariant, GoneAreNames, MirrorInvariant, PTL

-----------------------------------------------------------------------------
(* What is reached along relationships.  Reach counts steps up to the number  *)
(* of DALs; that this is the least set with the first DAL that is closed      *)
(* under the relationships of W is what everything below uses.                *)

Further(D, W, X) == X \cup UNION {D[e].rel : e \in X \cap W}
Closed(D, W, X) == \A e \in X \cap W : D[e].rel \subseteq X

\* Reach, of any DALs D
Along(D, d, W) ==
    LET R[n \in 0..Cardinality(Dals)] ==
            IF n = 0 THEN {d} ELSE R[n - 1] \cup UNION {D[e].rel : e \in R[n - 1] \cap W}
    IN  R[Cardinality(Dals)]

LEMMA ReachIsAlong == \A d, W : Reach(d, W) = Along(dal, d, W)
    BY DEF Reach, Along

\* The sets of the recursion are there: a table of any length can be made longer.
Table(f, m, D, d, W) ==
    /\ f = [n \in 0..m |-> f[n]]
    /\ f[0] = {d}
    /\ \A n \in 1..m : f[n] = Further(D, W, f[n - 1])

LEMMA TablesExist ==
    ASSUME NEW D, NEW d, NEW W, NEW m \in Nat
    PROVE  \E f : Table(f, m, D, d, W)
<1> DEFINE Missing == {k \in Nat : ~\E f : Table(f, k, D, d, W)}
<1> SUFFICES Missing = {}
    OBVIOUS
<1> SUFFICES ASSUME Missing # {}
             PROVE  FALSE
    OBVIOUS
<1>1. PICK k \in Missing : \A n \in Missing : k <= n
    BY Least
<1>2. CASE k = 0
    <2> DEFINE f == [n \in 0..0 |-> {d}]
    <2>1. f[0] = {d} /\ f = [n \in 0..0 |-> f[n]] /\ \A n \in 1..0 : FALSE
        OBVIOUS
    <2> HIDE DEF f
    <2>2. Table(f, 0, D, d, W)
        BY <2>1 DEF Table
    <2> QED
        BY <1>1, <1>2, <2>2
<1>3. CASE k # 0
    <2>1. k \in Nat /\ k - 1 \in Nat /\ k - 1 \notin Missing
        BY <1>1, <1>3
    <2>2. PICK g : Table(g, k - 1, D, d, W)
        BY <2>1
    <2> DEFINE f == [n \in 0..k |-> IF n = k THEN Further(D, W, g[k - 1]) ELSE g[n]]
    <2>3. f = [n \in 0..k |-> f[n]]
        OBVIOUS
    <2>4. f[0] = {d}
        BY <1>3, <2>1, <2>2 DEF Table
    <2>5. \A n \in 1..k : n - 1 \in 0..k /\ n - 1 # k /\ (n # k => n \in 1..(k - 1)) /\ n \in 0..k
        BY <2>1
    <2>6. \A n \in 0..k : f[n] = IF n = k THEN Further(D, W, g[k - 1]) ELSE g[n]
        OBVIOUS
    <2>7. \A n \in 1..(k - 1) : g[n] = Further(D, W, g[n - 1])
        BY <2>2 DEF Table
    <2> HIDE DEF f
    <2>8. \A n \in 1..k : f[n] = Further(D, W, f[n - 1])
        BY <2>5, <2>6, <2>7
    <2>9. Table(f, k, D, d, W)
        BY <2>3, <2>4, <2>8 DEF Table
    <2> QED
        BY <1>1, <2>9
<1> QED
    BY <1>2, <1>3

LEMMA AlongIsLast ==
    ASSUME NEW D, NEW d, NEW W
    PROVE  \E f : Table(f, Cardinality(Dals), D, d, W) /\ Along(D, d, W) = f[Cardinality(Dals)]
<1> DEFINE m == Cardinality(Dals)
           Right(f) == f = [n \in 0..m |-> IF n = 0 THEN {d}
                                           ELSE f[n - 1] \cup UNION {D[e].rel : e \in f[n - 1] \cap W}]
           r == CHOOSE f : Right(f)
<1>1. m \in Nat
    BY DalAssumption, FS_CardinalityType DEF DalAssumption
<1>2. PICK f : Table(f, m, D, d, W)
    BY <1>1, TablesExist
<1>3. Right(f)
    <2>1. \A n \in 0..m : n = 0 \/ n \in 1..m
        BY <1>1
    <2>2. \A n \in 0..m : f[n] = IF n = 0 THEN {d} ELSE Further(D, W, f[n - 1])
        BY <1>2, <2>1 DEF Table
    <2>3. \A n \in 0..m : f[n] = IF n = 0 THEN {d} ELSE f[n - 1] \cup UNION {D[e].rel : e \in f[n - 1] \cap W}
        BY <2>2, Zenon DEF Further
    <2> QED
        BY <1>2, <2>3, Zenon DEF Table
<1>4. Right(r)
    BY <1>3
<1>5. Along(D, d, W) = r[m]
    BY DEF Along
<1> HIDE DEF r
<1>6. Table(r, m, D, d, W)
    <2>1. \A n \in 0..m : r[n] = IF n = 0 THEN {d} ELSE r[n - 1] \cup UNION {D[e].rel : e \in r[n - 1] \cap W}
        BY <1>4, Zenon
    <2>2. r = [n \in 0..m |-> r[n]]
        BY <1>4
    <2>3. \A n \in 0..m : r[n] = IF n = 0 THEN {d} ELSE Further(D, W, r[n - 1])
        BY <2>1, Zenon DEF Further
    <2>4. 0 \in 0..m /\ \A n \in 1..m : n \in 0..m /\ n # 0
        BY <1>1
    <2> QED
        BY <2>2, <2>3, <2>4, Zenon DEF Table
<1> QED
    BY <1>5, <1>6

\* Every set with d that is closed holds what is reached from d ...
LEMMA AlongLeast ==
    ASSUME NEW D, NEW d, NEW W, NEW X, d \in X, Closed(D, W, X)
    PROVE  Along(D, d, W) \subseteq X
<1> DEFINE m == Cardinality(Dals)
<1>1. PICK f : Table(f, m, D, d, W) /\ Along(D, d, W) = f[m]
    BY AlongIsLast
<1>2. m \in Nat
    BY DalAssumption, FS_CardinalityType DEF DalAssumption
<1> HIDE DEF m
<1> DEFINE Outside == {n \in 0..m : ~(f[n] \subseteq X)}
<1>3. Outside = {}
    <2> SUFFICES ASSUME Outside # {}
                 PROVE  FALSE
        OBVIOUS
    <2>1. Outside \in SUBSET Nat
        OBVIOUS
    <2>2. PICK n \in Outside : \A k \in Outside : n <= k
        BY <2>1, Least
    <2>3. n # 0
        BY <1>1, <2>2 DEF Table
    <2>4. n \in 1..m /\ n - 1 \in 0..m /\ n - 1 \notin Outside
        <3>1. n \in 0..m
            BY <2>2
        <3> HIDE DEF Outside
        <3> QED
            BY <1>2, <2>2, <2>3, <3>1
    <2>5. f[n] = Further(D, W, f[n - 1]) /\ f[n - 1] \subseteq X
        BY <1>1, <2>4 DEF Table
    <2>6. f[n] \subseteq X
        BY <2>5 DEF Further, Closed
    <2> QED
        BY <2>2, <2>6
<1>4. m \in 0..m
    BY <1>2
<1> QED
    BY <1>1, <1>3, <1>4

\* ... and that is such a set: the sets of the table grow by a DAL in each step until
\* they are closed, and there are no more DALs than steps.
LEMMA AlongReaches ==
    ASSUME NEW D, NEW d \in Dals, NEW W \in SUBSET Dals, \A e \in W : D[e].rel \subseteq Dals
    PROVE  d \in Along(D, d, W) /\ Along(D, d, W) \subseteq Dals /\ Closed(D, W, Along(D, d, W))
<1> DEFINE m == Cardinality(Dals)
<1>1. PICK f : Table(f, m, D, d, W) /\ Along(D, d, W) = f[m]
    BY AlongIsLast
<1>2. m \in Nat /\ IsFiniteSet(Dals)
    BY DalAssumption, FS_CardinalityType DEF DalAssumption
<1> DEFINE Good(X, n) == /\ d \in X /\ X \subseteq Dals
                         /\ Closed(D, W, X) \/ n + 1 <= Cardinality(X)
           Bad == {n \in 0..m : ~Good(f[n], n)}
<1>3. Bad = {}
    <2> SUFFICES ASSUME Bad # {}
                 PROVE  FALSE
        OBVIOUS
    <2> HIDE DEF m
    <2>1. Bad \in SUBSET Nat
        OBVIOUS
    <2> HIDE DEF Bad
    <2>2. PICK n \in Bad : \A k \in Bad : n <= k
        BY <2>1, Least
    <2>3. CASE n = 0
        <3>1. f[0] = {d} /\ Cardinality({d}) = 1
            BY <1>1, FS_Singleton DEF Table
        <3>2. Good(f[n], n)
            BY <2>3, <3>1
        <3> QED
            BY <2>2, <3>2 DEF Bad
    <2>4. CASE n # 0
        <3>1. n \in 1..m /\ n - 1 \in 0..m /\ n - 1 \notin Bad /\ n \in Nat
            BY <1>2, <2>2, <2>4 DEF Bad
        <3> DEFINE X == f[n - 1]
                   Y == f[n]
        <3>2. Y = Further(D, W, X)
            BY <1>1, <3>1 DEF Table
        <3>3. Good(X, n - 1)
            BY <3>1 DEF Bad
        <3> HIDE DEF X, Y
        <3>4. d \in Y /\ Y \subseteq Dals /\ X \subseteq Y
            BY <3>2, <3>3 DEF Further
        <3>5. CASE Closed(D, W, X)
            <4>1. Y = X
                BY <3>2, <3>5 DEF Further, Closed
            <4>2. Good(Y, n)
                BY <3>4, <3>5, <4>1
            <4> QED
                BY <2>2, <4>2 DEF Bad, Y
        <3>6. CASE ~Closed(D, W, X)
            <4>1. PICK e \in X \cap W : ~(D[e].rel \subseteq X)
                BY <3>6 DEF Closed
            <4>2. D[e].rel \subseteq Y
                BY <3>2 DEF Further
            <4>3. X # Y
                BY <4>1, <4>2
            <4>4. IsFiniteSet(Y) /\ IsFiniteSet(X)
                BY <1>2, <3>4, FS_Subset
            <4>5. Cardinality(X) \in Nat /\ Cardinality(Y) \in Nat
                BY <4>4, FS_CardinalityType
            <4>6. Cardinality(X) < Cardinality(Y)
                <5>1. Cardinality(X) <= Cardinality(Y) /\ (Cardinality(X) = Cardinality(Y) => X = Y)
                    BY <3>4, <4>4, FS_Subset
                <5> QED
                    BY <4>3, <4>5, <5>1
            <4>7. n <= Cardinality(X)
                BY <3>1, <3>3, <3>6
            <4>8. n + 1 <= Cardinality(Y)
                BY <3>1, <4>5, <4>6, <4>7
            <4>9. Good(Y, n)
                BY <3>4, <4>8
            <4> QED
                BY <2>2, <4>9 DEF Bad, Y
        <3> QED
            BY <3>5, <3>6
    <2> QED
        BY <2>3, <2>4
<1> DEFINE Z == f[m]
<1>4. Good(Z, m)
    BY <1>2, <1>3
<1>5. Closed(D, W, Z)
    <2>1. Cardinality(Z) <= m
        BY <1>2, <1>4, FS_Subset
    <2>2. IsFiniteSet(Z) /\ Cardinality(Z) \in Nat
        BY <1>2, <1>4, FS_Subset, FS_CardinalityType
    <2> HIDE DEF m, Z
    <2> QED
        BY <1>2, <1>4, <2>1, <2>2
<1> QED
    BY <1>1, <1>4, <1>5

\* With more DALs and longer relationships, no less is reached.
LEMMA AlongGrows ==
    ASSUME NEW D, NEW E, NEW d \in Dals, NEW W, NEW V \in SUBSET Dals, W \subseteq V,
           \A e \in V : E[e].rel \subseteq Dals, \A e \in W : D[e].rel \subseteq E[e].rel
    PROVE  Along(D, d, W) \subseteq Along(E, d, V)
<1> DEFINE X == Along(E, d, V)
<1>1. d \in X /\ Closed(E, V, X)
    BY AlongReaches
<1> HIDE DEF X
<1>2. Closed(D, W, X)
    BY <1>1 DEF Closed
<1>3. Along(D, d, W) \subseteq X
    BY <1>1, <1>2, AlongLeast
<1> QED
    BY <1>3 DEF X

-----------------------------------------------------------------------------
(* Walking along relationships: the invariants of the recursive calls.        *)

\* What a frame is doing, without the list it is making
View(f) == [dal |-> f.dal, mode |-> f.mode, todo |-> f.todo]
Views(s) == {View(s[n]) : n \in 1..Len(s)}
Objects(s) == {s[n].obj : n \in 1..Len(s)}

\* The DALs calls have begun with, and those whose relationship they go through
Begun(s) == {v.dal : v \in {u \in Views(s) : u.mode # "relate"}}
Relating(s) == {v.dal : v \in {u \in Views(s) : u.mode = "relate"}}

\* A DAL whose handles are not read has no relationship yet.
LazyInv == \A d \in Made(dal) : dal[d].lazy # None => dal[d].rel = {}

\* What the call c may go through, and what it would if it went through everything
Walked(c, D) == Along(D, c.root, IF c.recurse THEN Made(D) ELSE {})
Full(c, D) == Along(D, c.root, Made(D))
Twins(D, S) == \E e, f \in S : D[e].id = D[f].id /\ e # f

\* A call goes where relationships lead from its root.
WalkInv ==
    call.op # "none" =>
        /\ call.root \in Made(dal)
        /\ call.op = "getall" => call.recurse
        /\ call.op # "update" => ~call.ignore
        /\ \A v \in Views(call.stack) :
              /\ v.dal \in Walked(call, dal)
              /\ call.recurse => v.todo \subseteq Walked(call, dal)

\* __getall__ has found, is going through or is about to visit whatever the DALs it
\* has found are related to.
Found(c) == {c.done[i] : i \in Ids} \ {None}
FindInv ==
    call.op = "getall" /\ call.ok /\ ~Twins(dal, Full(call, dal)) =>
        /\ \A i \in Ids : call.done[i] # None =>
              call.done[i] \in Full(call, dal) /\ dal[call.done[i]].id = i
        /\ call.root \in Found(call) \cup Begun(call.stack)
        /\ \A d \in Found(call) : \E T :
              /\ T = {} \/ [dal |-> d, mode |-> "relate", todo |-> T] \in Views(call.stack)
              /\ dal[d].rel \subseteq T \cup Found(call) \cup Begun(call.stack)

\* A call that stores changes the objects of the DALs it goes through, or, when it
\* adds, objects that were not there.
MayTouch(c, D) == c.moved \cup NamesIn(D, Walked(c, D))
TouchInv ==
    call.op \in Storing =>
        /\ \A o \in Objects(call.stack) \ {None} :
              /\ call.op = "add" => call.before[o] = None
              /\ call.op = "update" => o \in MayTouch(call, dal)
        /\ \A i \in Ids : call.before[i] # None =>
              /\ call.op = "add" => db[i] = call.before[i]
              /\ call.op = "update" =>
                    \/ i \in MayTouch(call, dal)
                    \/ /\ i \in Stores(db)
                       /\ db[i].attr = call.before[i].attr
                       /\ db[i].rel \ call.moved = call.before[i].rel \ call.moved

\* What is noted was written, if it had to be, or is being written; and the DALs it
\* is related to are noted, or the next to be.
MustWrite(c, D, e) == IF c.op = "update" THEN D[e].id \notin ReadOnly ELSE c.before[D[e].id] = None
Written(b, D, e) ==
    /\ D[e].id \in Stores(b)
    /\ D[e].attr \in {None, b[D[e].id].attr} /\ D[e].lazy = None
    /\ b[D[e].id].rel = NamesIn(D, D[e].rel)
Noted(c, D, e) == c.done[D[e].id] # None \/ e \in Begun(c.stack)
Finished(c, b, D, e) ==
    MustWrite(c, D, e) =>
        Written(b, D, e) /\ (c.recurse => \A x \in D[e].rel : Noted(c, D, x))
WriteInv ==
    call.op \in Storing /\ ~blurred /\ ~Twins(dal, Full(call, dal)) =>
        /\ call.op = "add" => \A i \in Stores(db) : call.before[i] # None \/ call.done[i] # None
        /\ Noted(call, dal, call.root)
        /\ \A v \in Views(call.stack) :
              v.mode = "relate" /\ call.recurse => \A x \in dal[v.dal].rel \ v.todo : Noted(call, dal, x)
        /\ \A i \in Ids : call.done[i] # None =>
              \E e \in Full(call, dal) :
                 dal[e].id = i /\ (e \in Relating(call.stack) \/ Finished(call, db, dal, e))

-----------------------------------------------------------------------------
(* Handles that are not read.                                                *)

\* Of any DALs D
LazyOK(D) == \A d \in Made(D) : D[d].lazy # None => D[d].rel = {}

\* A getter replaces an empty relationship, whether or not it fails.
LEMMA ReadingGrows ==
    ASSUME RefInv, LazyInv, NEW d \in Alive, ReadRelation(d) \/ ReadRelationFails(d)
    PROVE  /\ LazyOK(dal')
           /\ \A e \in Made(dal) : dal[e].rel \subseteq dal'[e].rel
<1>1. d \in Made(dal) /\ d \in Dals
    BY AliveAreMade DEF Made
<1>2. CASE ReadRelation(d)
    <2> DEFINE W == WithDals(Fresh(ToLoad(d)))
    <2>1. /\ Made(dal) \subseteq Made(W) /\ \A e \in Made(dal) : W[e] = dal[e]
          /\ \A e \in Made(W) \ {d} : dal'[e] = W[e]
          /\ dal'[d].lazy = None
        BY <1>2, GetterChanges
    <2>2. \A e \in Dals \ {d} : dal'[e] = W[e]
        BY <1>2, <1>1 DEF ReadRelation, WithDals
    <2>3. dal[d].rel = {}
        BY <1>1, <1>2 DEF LazyInv, ReadRelation, IsRead
    <2>4. \A e \in Made(dal) : dal[e].rel \subseteq dal'[e].rel
        BY <2>1, <2>3
    <2>5. ASSUME NEW e \in Made(dal'), dal'[e].lazy # None
          PROVE  dal'[e].rel = {}
        <3>1. e \in Dals /\ e # d /\ dal'[e] = W[e] /\ W[e] # None
            BY <2>1, <2>2, <2>5 DEF Made
        <3>2. CASE e \in Made(dal)
            BY <2>1, <2>5, <3>1, <3>2 DEF LazyInv
        <3>3. CASE e \notin Made(dal)
            BY <3>1, <3>3, NewlyRead DEF Made
        <3> QED
            BY <3>2, <3>3
    <2> QED
        BY <2>4, <2>5 DEF LazyOK
<1>3. CASE ReadRelationFails(d)
    <2>1. /\ dal'[d].lazy = None
          /\ \A e \in Made(dal) : dal'[e].rel = dal[e].rel /\ (e # d => dal'[e].lazy = dal[e].lazy)
          /\ \A e \in Made(dal') \ Made(dal) : dal'[e].rel = {}
        BY <1>3, FailedReadingFollows
    <2> QED
        BY <2>1 DEF LazyInv, LazyOK
<1> QED
    BY <1>2, <1>3

LEMMA ClientKeepsLazy ==
    ASSUME RefInv, LazyInv, ClientNext
    PROVE  LazyOK(dal')
<1>1. dal \in [Dals -> DalObject \cup {None}] /\ \A d \in Made(dal) : dal[d] \in DalObject /\ d \in Dals
    BY DEF RefInv, DalsOK, DalOK, Made
<1>2. CASE Construct
    <2>1. PICK i \in Ids, v \in Assigned \cup {None}, S \in SUBSET Alive :
              dal' = [dal EXCEPT ![FirstFree] = [NewDal(i) EXCEPT !.attr = v, !.rel = S]]
        BY <1>2 DEF Construct
    <2> DEFINE o == [NewDal(i) EXCEPT !.attr = v, !.rel = S]
    <2>2. o.lazy = None
        BY DEF NewDal
    <2>3. dal' = [dal EXCEPT ![FirstFree] = o]
        BY <2>1
    <2> HIDE DEF o
    <2> QED
        BY <1>1, <2>2, <2>3 DEF LazyInv, LazyOK, Made
<1>3. ASSUME NEW d \in Alive, SetAttribute(d) \/ SetRelation(d) \/ SetId(d) \/ rename(d) \/ \E e \in Alive : copy(d, e)
      PROVE  LazyOK(dal')
    <2>1. d \in Made(dal) /\ d \in Dals /\ dal[d] \in DalObject
        BY <1>1, AliveAreMade
    <2>2. /\ \A e \in Dals \ {d} : dal'[e] = dal[e]
          /\ dal'[d].lazy = None \/ (dal'[d].lazy = dal[d].lazy /\ dal'[d].rel = dal[d].rel)
        <3>1. CASE SetAttribute(d)
            BY <1>1, <2>1, <3>1 DEF SetAttribute, DalObject
        <3>2. CASE SetRelation(d)
            BY <1>1, <2>1, <3>2 DEF SetRelation, DalObject
        <3>3. CASE SetId(d)
            BY <1>1, <2>1, <3>3 DEF SetId, DalObject
        <3>4. CASE rename(d)
            BY <1>1, <2>1, <3>4 DEF rename, DalObject
        <3>5. CASE \E e \in Alive : copy(d, e)
            BY <1>1, <2>1, <3>5 DEF copy, DalObject
        <3> QED
            BY <1>3, <3>1, <3>2, <3>3, <3>4, <3>5
    <2> QED
        BY <2>1, <2>2 DEF LazyInv, LazyOK, Made
<1>4. ASSUME NEW d \in Alive, Read(d)
      PROVE  LazyOK(dal')
    BY <1>4, ReadingGrows DEF Read
<1>5. ASSUME NEW f, dal' = WithDals(f)
      PROVE  LazyOK(dal')
    <2> SUFFICES ASSUME NEW e \in Made(dal'), dal'[e].lazy # None
                 PROVE  dal'[e].rel = {}
        BY DEF LazyOK
    <2>1. e \in Dals /\ WithDals(f)[e] # None
        BY <1>5 DEF Made
    <2>2. CASE dal[e] = None
        BY <1>5, <2>1, <2>2, NewlyRead
    <2>3. CASE dal[e] # None
        <3>1. (\E i : dal'[e] = as_dal(i)) \/ dal'[e] = dal[e]
            BY <1>5, <2>1 DEF WithDals
        <3>2. \A i : as_dal(i).rel = {}
            BY DEF as_dal, NewDal
        <3> QED
            BY <2>1, <2>3, <3>1, <3>2 DEF LazyInv, Made
    <2> QED
        BY <2>2, <2>3
<1>6. ASSUME NEW d \in Alive, destroy_dal(d)
      PROVE  LazyOK(dal')
    <2>1. \A e \in Dals : e \notin Alive \/ IsRead(e) => dal'[e] = dal[e]
        BY <1>6 DEF destroy_dal
    <2>2. \A e \in Made(dal) : ~IsRead(e) => dal'[e].rel = dal[e].rel
        BY <1>1, <1>6, AliveAreMade DEF destroy_dal, DalObject
    <2>3. \A e \in Dals : dal[e] = None <=> e \notin Made(dal)
        BY DEF Made
    <2> QED
        BY <2>1, <2>2, <2>3, AliveAreMade DEF LazyInv, LazyOK, Made, IsRead
<1>7. ASSUME NEW d, NEW op, Start(op, d)
      PROVE  LazyOK(dal')
    BY <1>7 DEF Start, LazyInv, LazyOK
<1>8. ASSUME NEW i, get_dal(i)
      PROVE  LazyOK(dal')
    BY <1>5, <1>8 DEF get_dal
<1>9. ASSUME NEW C, get_dals(C)
      PROVE  LazyOK(dal')
    BY <1>5, <1>9 DEF get_dals
<1> QED
    BY <1>2, <1>3, <1>4, <1>6, <1>7, <1>8, <1>9 DEF ClientNext

\* What a piece of a call does to the DALs: their names and attributes stay, and
\* relationships that were read; others are read.
Follows(D, E) ==
    /\ Made(D) \subseteq Made(E)
    /\ \A e \in Made(D) : /\ E[e].id = D[e].id /\ E[e].attr = D[e].attr
                          /\ D[e].rel \subseteq E[e].rel
                          /\ D[e].lazy = None => E[e].lazy = None /\ E[e].rel = D[e].rel

LEMMA CallReads ==
    ASSUME RefInv, LazyInv, ~Idle, CallNext
    PROVE  /\ LazyOK(dal')
           /\ Made(dal) \subseteq Made(dal')
           /\ \A e \in Made(dal) : dal'[e].id = dal[e].id /\ dal[e].rel \subseteq dal'[e].rel
           /\ \/ Follows(dal, dal')
              \/ Relate /\ ReadRelationFails(Top.dal) /\ Raise
<1>1. CASE UNCHANGED dal
    BY <1>1 DEF LazyInv, LazyOK, Follows
<1>2. CASE RenameStored
    <2>1. /\ Made(dal') = Made(dal)
          /\ \A e \in Made(dal) :
                /\ dal'[e].id = dal[e].id /\ dal'[e].attr = dal[e].attr /\ dal'[e].rel = dal[e].rel
                /\ IsRead(e) => dal'[e].lazy = None
        BY <1>2, RenameChanges
    <2> QED
        BY <2>1 DEF LazyInv, LazyOK, Follows, IsRead
<1>3. CASE Relate
    <2> DEFINE d == Top.dal
    <2>1. d \in Alive /\ d \in Made(dal)
        BY TopOfStack, AliveAreMade DEF FrameOK
    <2>2. ReadRelation(d) \/ (ReadRelationFails(d) /\ Raise)
        BY <1>3 DEF Relate
    <2>3. LazyOK(dal') /\ \A e \in Made(dal) : dal[e].rel \subseteq dal'[e].rel
        BY <2>1, <2>2, ReadingGrows
    <2>4. Grows(Stores(db), dal, Stores(db), dal')
        BY <2>1, <2>2, ReadingFollows, FailedReadingFollows DEF MayFollow
    <2>5. ASSUME ReadRelation(d)
          PROVE  Follows(dal, dal')
        <3> DEFINE W == WithDals(Fresh(ToLoad(d)))
        <3>1. /\ Made(W) = Made(dal) \cup {Fresh(ToLoad(d))[i] : i \in ToLoad(d)}
              /\ \A e \in Made(dal) : W[e] = dal[e]
              /\ \A e \in Made(W) \ {d} : dal'[e] = W[e]
              /\ dal'[d].attr = dal[d].attr
            BY <2>1, <2>5, GetterChanges
        <3>2. dal[d].lazy # None
            BY <2>5 DEF ReadRelation, IsRead
        <3>3. \A e \in Made(dal) : e # d => dal'[e] = dal[e]
            BY <3>1
        <3> QED
            BY <2>3, <2>4, <3>1, <3>2, <3>3 DEF Follows, Grows
    <2> QED
        BY <1>3, <2>2, <2>3, <2>4, <2>5 DEF Grows
<1>4. RenameStored \/ Relate \/ UNCHANGED dal
    BY DEF CallNext, RenameFails, NoRename, AddExisting, Open, OpenRefused, Related, RelatedFails,
           Store, Visit, Descend
<1> QED
    BY <1>1, <1>2, <1>3, <1>4

LEMMA LazyInvariant == Spec => []LazyInv
<1>1. Init => LazyInv
    BY DEF Init, LazyInv, Made
<1>2. LazyOK(dal') <=> LazyInv'
    BY DEF LazyOK, LazyInv
<1>3. RefInv /\ LazyInv /\ [Next]_vars => LazyInv'
    <2> SUFFICES ASSUME RefInv, LazyInv, [Next]_vars
                 PROVE  LazyInv'
        OBVIOUS
    <2>1. CASE Next
        BY <1>2, <2>1, ClientKeepsLazy, CallReads DEF Next
    <2>2. CASE UNCHANGED vars
        BY <2>2 DEF vars, LazyInv
    <2> QED
        BY <2>1, <2>2
<1> QED
    BY <1>1, <1>3, RefInvariant, PTL DEF Spec

-----------------------------------------------------------------------------
(* What the pieces of a call do to its frames.                               *)

LEMMA OnTopViews ==
    \A f, s : f \in Frame /\ s \in Seq(Frame) =>
        /\ Views(<<f>> \o s) = {View(f)} \cup Views(s)
        /\ Objects(<<f>> \o s) = {f.obj} \cup Objects(s)
<1> SUFFICES ASSUME NEW f \in Frame, NEW s \in Seq(Frame)
             PROVE  /\ Views(<<f>> \o s) = {View(f)} \cup Views(s)
                    /\ Objects(<<f>> \o s) = {f.obj} \cup Objects(s)
    OBVIOUS
<1> DEFINE t == <<f>> \o s
<1>1. /\ Len(s) \in Nat /\ Len(t) = Len(s) + 1
      /\ \A n \in 1..Len(t) : t[n] = IF n = 1 THEN f ELSE s[n - 1]
    OBVIOUS
<1> HIDE DEF t
<1>2. \A n \in 1..Len(t) : n # 1 => n - 1 \in 1..Len(s)
    BY <1>1
<1>3. 1 \in 1..Len(t) /\ t[1] = f
    BY <1>1
<1>4. \A n \in 1..Len(s) : n + 1 \in 1..Len(t) /\ t[n + 1] = s[n]
    BY <1>1
<1>5. \A n \in 1..Len(t) : t[n] = f \/ \E k \in 1..Len(s) : t[n] = s[k]
    BY <1>1, <1>2
<1>6. \A n \in 1..Len(s) : \E k \in 1..Len(t) : t[k] = s[n]
    BY <1>4
<1>7. Views(t) = {View(f)} \cup Views(s)
    <2> HIDE DEF View
    <2> QED
        BY <1>3, <1>5, <1>6 DEF Views
<1>8. Objects(t) = {f.obj} \cup Objects(s)
    BY <1>3, <1>5, <1>6 DEF Objects
<1> QED
    BY <1>7, <1>8 DEF t

LEMMA NoViews == Views(<<>>) = {} /\ Objects(<<>>) = {}
    BY DEF Views, Objects

LEMMA FirstView ==
    \A s : s \in Seq(Frame) /\ s # <<>> =>
        /\ Head(s) \in Frame /\ Tail(s) \in Seq(Frame)
        /\ Views(s) = {View(Head(s))} \cup Views(Tail(s))
        /\ Objects(s) = {Head(s).obj} \cup Objects(Tail(s))
<1> SUFFICES ASSUME NEW s \in Seq(Frame), s # <<>>
             PROVE  /\ Head(s) \in Frame /\ Tail(s) \in Seq(Frame)
                    /\ Views(s) = {View(Head(s))} \cup Views(Tail(s))
                    /\ Objects(s) = {Head(s).obj} \cup Objects(Tail(s))
    OBVIOUS
<1>1. Head(s) \in Frame /\ Tail(s) \in Seq(Frame) /\ s = <<Head(s)>> \o Tail(s)
    OBVIOUS
<1> QED
    BY <1>1, OnTopViews

\* The frames of a running call, and those a piece of it leaves
LEMMA ViewsNow ==
    ASSUME RefInv, ~Idle
    PROVE  /\ call \in CallSet /\ Top \in Frame /\ Tail(call.stack) \in Seq(Frame)
           /\ Views(call.stack) = {View(Top)} \cup Views(Tail(call.stack))
           /\ Objects(call.stack) = {Top.obj} \cup Objects(Tail(call.stack))
           /\ \A v \in Views(Tail(call.stack)) : v.mode = "relate"
           /\ Top.mode # "relate" => Top.obj = None
           /\ Top.dal \in Made(dal) /\ Top.dal \in Dals /\ Name(Top.dal) \in Ids /\ Top.todo \subseteq Made(dal)
<1>1. call \in CallSet /\ call.stack \in Seq(Frame) /\ call.stack # <<>>
    BY Frames
<1>2. /\ Top \in Frame /\ Tail(call.stack) \in Seq(Frame)
      /\ Views(call.stack) = {View(Top)} \cup Views(Tail(call.stack))
      /\ Objects(call.stack) = {Top.obj} \cup Objects(Tail(call.stack))
    BY <1>1, FirstView DEF Top
<1>3. /\ FrameOK(Top, Stores(db), dal, call.op) /\ WaitingOK(Tail(call.stack), Stores(db), dal, call.op)
      /\ Top.dal \in Dals /\ Name(Top.dal) \in Ids
    BY TopOfStack
<1>4. \A v \in Views(Tail(call.stack)) : v.mode = "relate"
    BY <1>3 DEF WaitingOK, Views, View
<1> QED
    BY <1>1, <1>2, <1>3, <1>4 DEF FrameOK

LEMMA TopViews ==
    ASSUME RefInv, ~Idle, NEW f \in Frame
    PROVE  /\ Views(WithTop(f)) = {View(f)} \cup Views(Tail(call.stack))
           /\ Objects(WithTop(f)) = {f.obj} \cup Objects(Tail(call.stack))
           /\ WithTop(f) \in Seq(Frame)
<1>1. Tail(call.stack) \in Seq(Frame)
    BY ViewsNow
<1>2. <<f>> \o Tail(call.stack) \in Seq(Frame)
    BY <1>1
<1> QED
    BY <1>1, <1>2, OnTopViews DEF WithTop

LEMMA PushedViews ==
    ASSUME RefInv, ~Idle, NEW f \in Frame, NEW e \in Dals
    PROVE  LET s == <<NewFrame(e)>> \o WithTop(f)
           IN  /\ Views(s) = {[dal |-> e, mode |-> "begin", todo |-> {}], View(f)} \cup Views(Tail(call.stack))
               /\ Objects(s) = {None, f.obj} \cup Objects(Tail(call.stack))
<1>1. /\ NewFrame(e) \in Frame /\ NewFrame(e).obj = None
      /\ View(NewFrame(e)) = [dal |-> e, mode |-> "begin", todo |-> {}]
    BY DEF NewFrame, Frame, View
<1>2. /\ Views(WithTop(f)) = {View(f)} \cup Views(Tail(call.stack))
      /\ Objects(WithTop(f)) = {f.obj} \cup Objects(Tail(call.stack))
      /\ WithTop(f) \in Seq(Frame)
    BY TopViews
<1>3. /\ Views(<<NewFrame(e)>> \o WithTop(f)) = {View(NewFrame(e))} \cup Views(WithTop(f))
      /\ Objects(<<NewFrame(e)>> \o WithTop(f)) = {NewFrame(e).obj} \cup Objects(WithTop(f))
    BY <1>1, <1>2, OnTopViews
<1> QED
    BY <1>1, <1>2, <1>3

\* The list the caller makes is not among what is looked at.
LEMMA ReturnedViews ==
    ASSUME RefInv, ~Idle, NEW i
    PROVE  /\ Views(Returned(i)) = Views(Tail(call.stack))
           /\ Objects(Returned(i)) = Objects(Tail(call.stack))
<1> DEFINE rest == Tail(call.stack)
<1>1. rest \in Seq(Frame)
    BY ViewsNow
<1> HIDE DEF rest
<1>2. CASE rest = <<>> \/ i = None
    BY <1>2 DEF Returned, rest
<1>3. CASE ~(rest = <<>> \/ i = None)
    <2> DEFINE f == Head(rest)
               g == [f EXCEPT !.val = @ \cup {i}]
               t == <<g>> \o Tail(rest)
    <2>1. /\ f \in Frame /\ Tail(rest) \in Seq(Frame) /\ rest # <<>>
          /\ Views(rest) = {View(f)} \cup Views(Tail(rest))
          /\ Objects(rest) = {f.obj} \cup Objects(Tail(rest))
        BY <1>1, <1>3, FirstView
    <2> HIDE DEF f
    <2>2. /\ g.dal = f.dal /\ g.mode = f.mode /\ g.todo = f.todo /\ g.obj = f.obj
        BY <2>1 DEF Frame
    <2> HIDE DEF g
    <2>3. \A n \in 1..Len(t) : t[n] = IF n = 1 THEN g ELSE Tail(rest)[n - 1]
        BY <2>1
    <2>4. Len(t) = Len(rest) /\ Len(rest) \in Nat /\ rest[1] = f /\ Len(rest) >= 1
        BY <1>1, <2>1 DEF f
    <2>5. \A n \in 1..Len(rest) : n # 1 => rest[n] = Tail(rest)[n - 1]
        BY <1>1, <2>1
    <2> HIDE DEF t
    <2>6. \A n \in 1..Len(rest) : View(t[n]) = View(rest[n]) /\ t[n].obj = rest[n].obj
        BY <2>2, <2>3, <2>4, <2>5 DEF View
    <2>7. Views(t) = Views(rest) /\ Objects(t) = Objects(rest)
        BY <2>4, <2>6 DEF Views, Objects
    <2>8. Returned(i) = t
        BY <1>3 DEF Returned, rest, t, g, f
    <2> QED
        BY <2>7, <2>8 DEF rest
<1> QED
    BY <1>2, <1>3

\* A renaming changes the objects of frames only.
LEMMA RenamedViews ==
    ASSUME RefInv, RenameStored
    PROVE  /\ Views(call'.stack) = {[dal |-> Top.dal, mode |-> "open", todo |-> Top.todo]} \cup Views(Tail(call.stack))
           /\ \A o \in Objects(call'.stack) \ {None} :
                 o = Name(Top.dal) \/ o \in Objects(call.stack)
<1> DEFINE s == call.stack
           t == call'.stack
           rest == Tail(s)
           old == dal[Top.dal].old
           new == Name(Top.dal)
           follow(f) == [f EXCEPT !.val = Renamed(@, old, new), !.obj = IF @ = old THEN new ELSE @]
           top == [Top EXCEPT !.mode = "open"]
           r == [n \in 1..Len(rest) |-> follow(rest[n])]
<1>1. ~Idle /\ Top.mode = "begin"
    BY DEF RenameStored, In
<1>2. /\ call \in CallSet /\ Top \in Frame /\ rest \in Seq(Frame) /\ Top.obj = None
      /\ Objects(s) = {Top.obj} \cup Objects(rest)
    BY <1>1, ViewsNow
<1>3. t = <<top>> \o r
    <2> DEFINE m == call.moved \cup {old, new}
               d == [i \in Ids |-> IF call.done[i] = old THEN new ELSE call.done[i]]
               u == <<top>> \o r
    <2>1. call' = [call EXCEPT !.moved = m, !.done = d, !.stack = u]
        BY DEF RenameStored
    <2> HIDE DEF m, d, u
    <2>2. call'.stack = u
        BY <1>2, <2>1 DEF CallSet
    <2> QED
        BY <2>2 DEF u
<1>4. /\ top \in Frame /\ top.dal = Top.dal /\ top.todo = Top.todo /\ top.mode = "open" /\ top.obj = None
    BY <1>2 DEF Frame
<1>5. new \in Ids
    BY <1>1, ViewsNow
<1> HIDE DEF s, t, top, old, new
<1>6. \A f \in Frame : /\ follow(f) \in Frame /\ View(follow(f)) = View(f)
                       /\ follow(f).obj = new \/ follow(f).obj = f.obj
    <2> SUFFICES ASSUME NEW f \in Frame
                 PROVE  /\ follow(f) \in Frame /\ View(follow(f)) = View(f)
                        /\ follow(f).obj = new \/ follow(f).obj = f.obj
        OBVIOUS
    <2> DEFINE v == Renamed(f.val, old, new)
               o == IF f.obj = old THEN new ELSE f.obj
    <2>1. v \in SUBSET Ids /\ o \in Ids \cup {None}
        BY <1>5 DEF Frame, Renamed
    <2>2. follow(f) = [f EXCEPT !.val = v, !.obj = o]
        OBVIOUS
    <2>3. o = new \/ o = f.obj
        OBVIOUS
    <2> HIDE DEF v, o, follow
    <2>4. /\ follow(f) \in Frame /\ follow(f).obj = o
          /\ follow(f).dal = f.dal /\ follow(f).mode = f.mode /\ follow(f).todo = f.todo
        BY <2>1, <2>2 DEF Frame
    <2> QED
        BY <2>3, <2>4 DEF View
<1> HIDE DEF rest, follow
<1>7. /\ r \in Seq(Frame) /\ Len(r) = Len(rest)
      /\ \A n \in 1..Len(rest) : r[n] = follow(rest[n]) /\ rest[n] \in Frame
    BY <1>2, <1>6
<1> HIDE DEF r
<1>8. Views(r) = Views(rest)
    BY <1>6, <1>7 DEF Views
<1>9. \A o \in Objects(r) : o = new \/ o \in Objects(rest)
    BY <1>6, <1>7 DEF Objects
<1>10. Views(t) = {View(top)} \cup Views(r) /\ Objects(t) = {top.obj} \cup Objects(r)
    BY <1>3, <1>4, <1>7, OnTopViews
<1>11. View(top) = [dal |-> Top.dal, mode |-> "open", todo |-> Top.todo]
    BY <1>4 DEF View
<1> QED
    BY <1>2, <1>4, <1>8, <1>9, <1>10, <1>11 DEF rest, s, t, new

\* What a piece of a call keeps of the call
KeepsCall(c, e) ==
    /\ e.op = c.op /\ e.root = c.root /\ e.ignore = c.ignore
    /\ e.recurse = c.recurse /\ e.before = c.before

LEMMA RaisedShape ==
    ASSUME RefInv, ~Idle, Raise
    PROVE  /\ KeepsCall(call, call') /\ call'.moved = call.moved
           /\ Views(call'.stack) = {} /\ Objects(call'.stack) = {}
           /\ ~call'.ok /\ blurred'
<1>1. call \in CallSet
    BY Frames
<1> DEFINE none == <<>>
<1>2. call' = [call EXCEPT !.stack = none, !.ok = FALSE] /\ blurred' = TRUE
    BY DEF Raise
<1> HIDE DEF none
<1>3. call'.stack = none /\ call'.moved = call.moved /\ KeepsCall(call, call') /\ call'.ok = FALSE
    BY <1>1, <1>2 DEF CallSet, KeepsCall
<1> QED
    BY <1>2, <1>3, NoViews DEF none

LEMMA LeftShape ==
    ASSUME RefInv, ~Idle, NEW i, Leave(i)
    PROVE  /\ KeepsCall(call, call') /\ call'.moved = call.moved /\ call'.ok = call.ok
           /\ Views(call'.stack) = Views(Tail(call.stack)) /\ Objects(call'.stack) = Objects(Tail(call.stack))
           /\ \A j \in Ids : call'.done[j] = IF j = Name(Top.dal) THEN i ELSE call.done[j]
<1> DEFINE t == Returned(i)
           k == Name(Top.dal)
<1>1. call \in CallSet
    BY Frames
<1>2. call' = [call EXCEPT !.stack = t, !.done[k] = i]
    BY DEF Leave
<1>3. Views(t) = Views(Tail(call.stack)) /\ Objects(t) = Objects(Tail(call.stack))
    BY ReturnedViews
<1> HIDE DEF t, k
<1>4. /\ call'.stack = t /\ call'.moved = call.moved /\ call'.ok = call.ok /\ KeepsCall(call, call')
      /\ call'.done = [call.done EXCEPT ![k] = i] /\ DOMAIN call.done = Ids
    BY <1>1, <1>2 DEF CallSet, KeepsCall
<1>5. \A j \in Ids : call'.done[j] = IF j = k THEN i ELSE call.done[j]
    BY <1>4
<1> QED
    BY <1>3, <1>4, <1>5 DEF k

\* The frame on top becomes f, and nothing else changes.
LEMMA TopShape ==
    ASSUME RefInv, ~Idle, NEW f \in Frame, call' = [call EXCEPT !.stack = WithTop(f)]
    PROVE  /\ KeepsCall(call, call') /\ call'.moved = call.moved /\ call'.ok = call.ok /\ call'.done = call.done
           /\ Views(call'.stack) = {View(f)} \cup Views(Tail(call.stack))
           /\ Objects(call'.stack) = {f.obj} \cup Objects(Tail(call.stack))
<1> DEFINE t == WithTop(f)
<1>1. call \in CallSet
    BY Frames
<1>2. /\ Views(t) = {View(f)} \cup Views(Tail(call.stack))
      /\ Objects(t) = {f.obj} \cup Objects(Tail(call.stack))
    BY TopViews
<1>3. call' = [call EXCEPT !.stack = t]
    OBVIOUS
<1> HIDE DEF t
<1>4. /\ call'.stack = t /\ call'.moved = call.moved /\ call'.ok = call.ok /\ call'.done = call.done
      /\ KeepsCall(call, call')
    BY <1>1, <1>3 DEF CallSet, KeepsCall
<1> QED
    BY <1>2, <1>4

\* A call is made for e from the frame on top, which becomes f.
LEMMA PushShape ==
    ASSUME RefInv, ~Idle, NEW f \in Frame, NEW e \in Dals, call' = [call EXCEPT !.stack = <<NewFrame(e)>> \o WithTop(f)]
    PROVE  /\ KeepsCall(call, call') /\ call'.moved = call.moved /\ call'.ok = call.ok /\ call'.done = call.done
           /\ Views(call'.stack) =
                 {[dal |-> e, mode |-> "begin", todo |-> {}], View(f)} \cup Views(Tail(call.stack))
           /\ Objects(call'.stack) = {None, f.obj} \cup Objects(Tail(call.stack))
<1> DEFINE t == <<NewFrame(e)>> \o WithTop(f)
<1>1. call \in CallSet
    BY Frames
<1>2. /\ Views(t) = {[dal |-> e, mode |-> "begin", todo |-> {}], View(f)} \cup Views(Tail(call.stack))
      /\ Objects(t) = {None, f.obj} \cup Objects(Tail(call.stack))
    BY PushedViews
<1>3. call' = [call EXCEPT !.stack = t]
    OBVIOUS
<1> HIDE DEF t
<1>4. /\ call'.stack = t /\ call'.moved = call.moved /\ call'.ok = call.ok /\ call'.done = call.done
      /\ KeepsCall(call, call')
    BY <1>1, <1>3 DEF CallSet, KeepsCall
<1> QED
    BY <1>2, <1>4

LEMMA RenamedShape ==
    ASSUME RefInv, RenameStored
    PROVE  /\ KeepsCall(call, call') /\ call'.ok = call.ok
           /\ call'.moved = call.moved \cup {dal[Top.dal].old, Name(Top.dal)}
<1> DEFINE old == dal[Top.dal].old
           new == Name(Top.dal)
           d == [i \in Ids |-> IF call.done[i] = old THEN new ELSE call.done[i]]
           t == <<[Top EXCEPT !.mode = "open"]>> \o
                [n \in 1..Len(Tail(call.stack)) |->
                   [Tail(call.stack)[n] EXCEPT !.val = Renamed(@, old, new),
                                               !.obj = IF @ = old THEN new ELSE @]]
<1>1. call \in CallSet
    BY DEF RefInv, CallOK
<1>2. call' = [call EXCEPT !.moved = @ \cup {old, new}, !.done = d, !.stack = t]
    BY DEF RenameStored
<1> HIDE DEF old, new, d, t
<1> QED
    BY <1>1, <1>2 DEF CallSet, KeepsCall, old, new

LEMMA NoRenameShape ==
    ASSUME RefInv, NoRename
    PROVE  /\ KeepsCall(call, call') /\ call'.moved = call.moved /\ call'.ok = call.ok /\ call'.done = call.done
           /\ Views(call'.stack) = {[dal |-> Top.dal, mode |-> "open", todo |-> Top.todo]} \cup Views(Tail(call.stack))
           /\ Objects(call'.stack) = Objects(call.stack)
<1> DEFINE f == [Top EXCEPT !.mode = "open"]
<1>1. ~Idle /\ call' = [call EXCEPT !.stack = WithTop(f)]
    BY DEF NoRename, In
<1>2. Top \in Frame /\ Objects(call.stack) = {Top.obj} \cup Objects(Tail(call.stack))
    BY <1>1, ViewsNow
<1>3. f \in Frame /\ f.dal = Top.dal /\ f.mode = "open" /\ f.todo = Top.todo /\ f.obj = Top.obj
    BY <1>2 DEF Frame
<1> HIDE DEF f
<1>4. View(f) = [dal |-> Top.dal, mode |-> "open", todo |-> Top.todo]
    BY <1>3 DEF View
<1> QED
    BY <1>1, <1>2, <1>3, <1>4, TopShape

LEMMA OpenShape ==
    ASSUME RefInv, Open
    PROVE  /\ KeepsCall(call, call') /\ call'.moved = call.moved /\ call'.ok = call.ok
           /\ Views(call'.stack) =
                 {[dal |-> Top.dal, mode |-> "relate", todo |-> dal[Top.dal].rel]} \cup Views(Tail(call.stack))
           /\ Objects(call'.stack) = {Name(Top.dal)} \cup Objects(Tail(call.stack))
           /\ \A j \in Ids : call'.done[j] = IF j = Name(Top.dal) THEN j ELSE call.done[j]
<1> DEFINE i == Name(Top.dal)
           f == [Top EXCEPT !.mode = "relate", !.obj = i, !.todo = dal[Top.dal].rel]
           t == WithTop(f)
<1>1. ~Idle /\ call' = [call EXCEPT !.done[i] = i, !.stack = t]
    BY DEF Open, In
<1>2. Top \in Frame /\ i \in Ids /\ Top.dal \in Made(dal) /\ call \in CallSet
    BY <1>1, ViewsNow
<1>3. dal[Top.dal].rel \subseteq Dals
    BY <1>2 DEF RefInv, DalsOK, DalOK, Made
<1> HIDE DEF i
<1>4. /\ f \in Frame /\ f.dal = Top.dal /\ f.mode = "relate" /\ f.obj = i /\ f.todo = dal[Top.dal].rel
    BY <1>2, <1>3 DEF Frame
<1> HIDE DEF f
<1>5. View(f) = [dal |-> Top.dal, mode |-> "relate", todo |-> dal[Top.dal].rel]
    BY <1>4 DEF View
<1>6. Views(t) = {View(f)} \cup Views(Tail(call.stack)) /\ Objects(t) = {f.obj} \cup Objects(Tail(call.stack))
    BY <1>1, <1>4, TopViews
<1> HIDE DEF t
<1>7. /\ call'.stack = t /\ call'.moved = call.moved /\ call'.ok = call.ok /\ KeepsCall(call, call')
      /\ call'.done = [call.done EXCEPT ![i] = i] /\ DOMAIN call.done = Ids
    BY <1>1, <1>2 DEF CallSet, KeepsCall
<1>8. \A j \in Ids : call'.done[j] = IF j = i THEN j ELSE call.done[j]
    BY <1>7
<1> QED
    BY <1>4, <1>5, <1>6, <1>7, <1>8 DEF i

LEMMA RelateShape ==
    ASSUME RefInv, Relate
    PROVE  \/ Raise
           \/ /\ ReadRelation(Top.dal) /\ blurred' = blurred
              /\ KeepsCall(call, call') /\ call'.moved = call.moved /\ call'.ok = call.ok /\ call'.done = call.done
              /\ Views(call'.stack) =
                    {[dal |-> Top.dal, mode |-> "relate", todo |-> dal'[Top.dal].rel]} \cup Views(Tail(call.stack))
              /\ Objects(call'.stack) = Objects(call.stack)
<1> DEFINE f == [Top EXCEPT !.todo = dal'[Top.dal].rel]
<1>1. ~Idle /\ Top.mode = "relate"
    BY DEF Relate, In
<1>2. Top \in Frame /\ Top.dal \in Alive /\ Objects(call.stack) = {Top.obj} \cup Objects(Tail(call.stack))
    BY <1>1, ViewsNow, AliveAreMade
<1> SUFFICES ASSUME ReadRelation(Top.dal), UNCHANGED blurred, call' = [call EXCEPT !.stack = WithTop(f)]
             PROVE  /\ KeepsCall(call, call') /\ call'.moved = call.moved /\ call'.ok = call.ok /\ call'.done = call.done
                    /\ Views(call'.stack) =
                          {[dal |-> Top.dal, mode |-> "relate", todo |-> dal'[Top.dal].rel]} \cup Views(Tail(call.stack))
                    /\ Objects(call'.stack) = Objects(call.stack)
    BY DEF Relate
<1>3. dal'[Top.dal].rel \subseteq Dals
    BY <1>2, ReadingFollows DEF Made
<1>4. f \in Frame /\ f.dal = Top.dal /\ f.mode = "relate" /\ f.todo = dal'[Top.dal].rel /\ f.obj = Top.obj
    BY <1>1, <1>2, <1>3 DEF Frame
<1>5. call' = [call EXCEPT !.stack = WithTop(f)]
    OBVIOUS
<1> HIDE DEF f
<1>6. View(f) = [dal |-> Top.dal, mode |-> "relate", todo |-> dal'[Top.dal].rel]
    BY <1>4 DEF View
<1> QED
    BY <1>1, <1>2, <1>4, <1>5, <1>6, TopShape

\* The frame on top has taken e from its list.
LEMMA RelatedShape ==
    ASSUME RefInv, NEW e \in Alive, Related(e)
    PROVE  /\ KeepsCall(call, call') /\ call'.moved = call.moved /\ call'.ok = call.ok /\ call'.done = call.done
           /\ LET waits == {[dal |-> Top.dal, mode |-> "relate", todo |-> Top.todo \ {e}]} \cup Views(Tail(call.stack))
              IN  \/ Views(call'.stack) = waits /\ (call.done[Name(e)] # None \/ ~call.recurse)
                  \/ /\ Views(call'.stack) = {[dal |-> e, mode |-> "begin", todo |-> {}]} \cup waits
                     /\ call.recurse
           /\ Objects(call'.stack) \ {None} = Objects(call.stack) \ {None}
<1> DEFINE rest == [Top EXCEPT !.todo = @ \ {e}]
           with(S) == [rest EXCEPT !.val = @ \cup S]
           known == call.done[Name(e)]
           view == [dal |-> Top.dal, mode |-> "relate", todo |-> Top.todo \ {e}]
<1>1. ~Idle /\ Top.mode = "relate" /\ call.op \in Storing
    BY DEF Related, In
<1>2. Top \in Frame /\ Objects(call.stack) = {Top.obj} \cup Objects(Tail(call.stack))
    BY <1>1, ViewsNow
<1>3. Name(e) \in Ids /\ e \in Dals
    BY LoadedExist DEF Name, DalObject, Alive
<1>4. known \in Ids \cup {None}
    <2>1. call.done \in [Ids -> DoneSet(Stores(db), dal, call.op)]
        BY DEF RefInv, CallOK
    <2> QED
        BY <1>1, <1>3, <2>1 DEF DoneSet, Stores
<1>5. \/ known # None /\ call' = [call EXCEPT !.stack = WithTop(with({known}))]
      \/ call.recurse /\ call' = [call EXCEPT !.stack = <<NewFrame(e)>> \o WithTop(rest)]
      \/ ~call.recurse /\ call' = [call EXCEPT !.stack = WithTop(with({Name(e)}))]
    BY DEF Related
<1>6. rest \in Frame /\ rest.obj = Top.obj /\ View(rest) = view
    BY <1>1, <1>2 DEF Frame, View
<1>7. ASSUME NEW S \in SUBSET Ids
      PROVE  with(S) \in Frame /\ with(S).obj = Top.obj /\ View(with(S)) = view
    <2> DEFINE g == [rest EXCEPT !.val = @ \cup S]
    <2>1. /\ g.dal = rest.dal /\ g.mode = rest.mode /\ g.todo = rest.todo /\ g.obj = rest.obj /\ g \in Frame
        BY <1>6 DEF Frame
    <2>2. View(g) = View(rest)
        BY <2>1 DEF View
    <2> QED
        BY <1>6, <2>1, <2>2
<1> HIDE DEF rest, with, known
<1>8. CASE known # None /\ call' = [call EXCEPT !.stack = WithTop(with({known}))]
    <2>1. with({known}) \in Frame /\ with({known}).obj = Top.obj /\ View(with({known})) = view
        BY <1>4, <1>7, <1>8
    <2> QED
        BY <1>1, <1>2, <1>8, <2>1, TopShape DEF known
<1>9. CASE ~call.recurse /\ call' = [call EXCEPT !.stack = WithTop(with({Name(e)}))]
    <2>1. with({Name(e)}) \in Frame /\ with({Name(e)}).obj = Top.obj /\ View(with({Name(e)})) = view
        BY <1>3, <1>7
    <2> QED
        BY <1>1, <1>2, <1>9, <2>1, TopShape
<1>10. CASE call.recurse /\ call' = [call EXCEPT !.stack = <<NewFrame(e)>> \o WithTop(rest)]
    <2>1. /\ KeepsCall(call, call') /\ call'.moved = call.moved /\ call'.ok = call.ok /\ call'.done = call.done
          /\ Views(call'.stack) =
                {[dal |-> e, mode |-> "begin", todo |-> {}], View(rest)} \cup Views(Tail(call.stack))
          /\ Objects(call'.stack) = {None, rest.obj} \cup Objects(Tail(call.stack))
        BY <1>1, <1>3, <1>6, <1>10, PushShape
    <2>2. Views(call'.stack) = {[dal |-> e, mode |-> "begin", todo |-> {}]} \cup ({view} \cup Views(Tail(call.stack)))
        BY <1>6, <2>1
    <2>3. Objects(call'.stack) \ {None} = Objects(call.stack) \ {None}
        BY <1>2, <1>6, <2>1
    <2> QED
        BY <1>10, <2>1, <2>2, <2>3
<1> QED
    BY <1>5, <1>8, <1>9, <1>10

LEMMA PoppedShape ==
    ASSUME RefInv, ~Idle, call' = [call EXCEPT !.stack = Tail(@)]
    PROVE  /\ KeepsCall(call, call') /\ call'.moved = call.moved /\ call'.ok = call.ok /\ call'.done = call.done
           /\ Views(call'.stack) = Views(Tail(call.stack))
    <1>1. call \in CallSet
        BY Frames
    <1> QED
        BY <1>1 DEF CallSet, KeepsCall

LEMMA VisitShape ==
    ASSUME RefInv, Visit
    PROVE  /\ KeepsCall(call, call') /\ call'.moved = call.moved /\ call'.ok = call.ok
           /\ LET i == Name(Top.dal)
              IN  \/ /\ call.done[i] # None /\ call'.done = call.done
                     /\ Views(call'.stack) = Views(Tail(call.stack))
                  \/ /\ call.done[i] = None
                     /\ \A j \in Ids : call'.done[j] = IF j = i THEN Top.dal ELSE call.done[j]
                     /\ Views(call'.stack) =
                           {[dal |-> Top.dal, mode |-> "relate", todo |-> dal[Top.dal].rel]} \cup Views(Tail(call.stack))
<1> DEFINE i == Name(Top.dal)
           f == [Top EXCEPT !.mode = "relate", !.todo = dal[Top.dal].rel]
           x == IF call.done[i] = None THEN Top.dal ELSE call.done[i]
           t == IF call.done[i] # None THEN Tail(call.stack) ELSE WithTop(f)
<1>1. ~Idle /\ call' = [call EXCEPT !.done[i] = x, !.stack = t]
    BY DEF Visit, In
<1>2. Top \in Frame /\ i \in Ids /\ Top.dal \in Made(dal) /\ call \in CallSet
    BY <1>1, ViewsNow
<1>3. dal[Top.dal].rel \subseteq Dals
    BY <1>2 DEF RefInv, DalsOK, DalOK, Made
<1> HIDE DEF i
<1>4. f \in Frame /\ View(f) = [dal |-> Top.dal, mode |-> "relate", todo |-> dal[Top.dal].rel]
    BY <1>2, <1>3 DEF Frame, View
<1> HIDE DEF f
<1>5. Views(WithTop(f)) = {View(f)} \cup Views(Tail(call.stack))
    BY <1>1, <1>4, TopViews
<1> HIDE DEF t
<1>6. /\ call'.stack = t /\ call'.moved = call.moved /\ call'.ok = call.ok /\ KeepsCall(call, call')
      /\ call'.done = [call.done EXCEPT ![i] = x] /\ call.done \in [Ids -> Ids \cup Dals \cup {None}]
    BY <1>1, <1>2 DEF CallSet, KeepsCall
<1>7. CASE call.done[i] # None
    <2>1. x = call.done[i] /\ t = Tail(call.stack)
        BY <1>7 DEF t
    <2>2. call'.done = call.done
        BY <1>6, <2>1
    <2> QED
        BY <1>6, <1>7, <2>1, <2>2 DEF i
<1>8. CASE call.done[i] = None
    <2>1. x = Top.dal /\ t = WithTop(f)
        BY <1>8 DEF t
    <2>2. \A j \in Ids : call'.done[j] = IF j = i THEN Top.dal ELSE call.done[j]
        BY <1>6, <2>1
    <2> QED
        BY <1>4, <1>5, <1>6, <1>8, <2>1, <2>2 DEF i
<1> QED
    BY <1>7, <1>8

LEMMA DescendShape ==
    ASSUME RefInv, Descend
    PROVE  /\ KeepsCall(call, call') /\ call'.moved = call.moved /\ call'.ok = call.ok /\ call'.done = call.done
           /\ \/ Top.todo = {} /\ Views(call'.stack) = Views(Tail(call.stack))
              \/ \E e \in Top.todo :
                    Views(call'.stack) =
                       {[dal |-> e, mode |-> "begin", todo |-> {}],
                        [dal |-> Top.dal, mode |-> "relate", todo |-> Top.todo \ {e}]} \cup Views(Tail(call.stack))
<1>1. ~Idle /\ Top.mode = "relate"
    BY DEF Descend, In
<1>2. Top \in Frame
    BY <1>1, ViewsNow
<1>3. CASE Top.todo = {} /\ call' = [call EXCEPT !.stack = Tail(@)]
    BY <1>1, <1>3, PoppedShape
<1>4. ASSUME NEW e \in Top.todo, call' = [call EXCEPT !.stack = <<NewFrame(e)>> \o WithTop([Top EXCEPT !.todo = @ \ {e}])]
      PROVE  /\ KeepsCall(call, call') /\ call'.moved = call.moved /\ call'.ok = call.ok /\ call'.done = call.done
             /\ Views(call'.stack) =
                       {[dal |-> e, mode |-> "begin", todo |-> {}],
                        [dal |-> Top.dal, mode |-> "relate", todo |-> Top.todo \ {e}]} \cup Views(Tail(call.stack))
    <2> DEFINE f == [Top EXCEPT !.todo = @ \ {e}]
    <2>1. f \in Frame /\ View(f) = [dal |-> Top.dal, mode |-> "relate", todo |-> Top.todo \ {e}] /\ e \in Dals
        BY <1>1, <1>2 DEF Frame, View
    <2>2. call' = [call EXCEPT !.stack = <<NewFrame(e)>> \o WithTop(f)]
        BY <1>4
    <2> HIDE DEF f
    <2> QED
        BY <1>1, <2>1, <2>2, PushShape
<1> QED
    BY <1>3, <1>4 DEF Descend

-----------------------------------------------------------------------------
(* Where a call may go.                                                      *)

LEMMA PathsReach ==
    ASSUME NEW D, NEW P, DalsOK(D, P), NEW c, c.root \in Made(D)
    PROVE  /\ c.root \in Walked(c, D) /\ Walked(c, D) \subseteq Full(c, D) /\ Full(c, D) \subseteq Made(D)
           /\ \A e \in Full(c, D) : D[e].rel \subseteq Full(c, D)
           /\ IF c.recurse THEN Walked(c, D) = Full(c, D) ELSE Walked(c, D) = {c.root}
<1>1. /\ Made(D) \subseteq Dals /\ c.root \in Dals
      /\ \A e \in Made(D) : D[e].rel \subseteq Made(D) /\ D[e].rel \subseteq Dals
    BY DEF DalsOK, DalOK, Made
<1>2. c.root \in Full(c, D) /\ Closed(D, Made(D), Full(c, D))
    BY <1>1, AlongReaches DEF Full
<1>3. Full(c, D) \subseteq Made(D)
    <2>1. Closed(D, Made(D), Made(D))
        BY <1>1 DEF Closed
    <2> QED
        BY <2>1, AlongLeast DEF Full
<1>4. \A e \in Full(c, D) : D[e].rel \subseteq Full(c, D)
    BY <1>2, <1>3 DEF Closed
<1>5. CASE c.recurse
    BY <1>2, <1>3, <1>4, <1>5 DEF Walked, Full
<1>6. CASE ~c.recurse
    <2>1. Walked(c, D) = Along(D, c.root, {})
        BY <1>6 DEF Walked
    <2>2. c.root \in Along(D, c.root, {})
        BY <1>1, AlongReaches
    <2>3. Closed(D, {}, {c.root})
        BY DEF Closed
    <2>4. Along(D, c.root, {}) \subseteq {c.root}
        BY <2>3, AlongLeast
    <2> QED
        BY <1>2, <1>3, <1>4, <1>6, <2>1, <2>2, <2>4
<1> QED
    BY <1>5, <1>6

\* When relationships are read, a call may go further.
LEMMA PathsGrow ==
    ASSUME NEW D, NEW P, DalsOK(D, P), NEW E, NEW Q, DalsOK(E, Q),
           NEW c, c.root \in Made(D), NEW e, KeepsCall(c, e), Made(D) \subseteq Made(E),
           \A x \in Made(D) : E[x].id = D[x].id /\ D[x].rel \subseteq E[x].rel
    PROVE  /\ Walked(c, D) \subseteq Walked(e, E) /\ Full(c, D) \subseteq Full(e, E)
           /\ Twins(D, Full(c, D)) => Twins(E, Full(e, E))
           /\ NamesIn(D, Walked(c, D)) \subseteq NamesIn(E, Walked(e, E))
<1>1. e.root = c.root /\ e.recurse = c.recurse
    BY DEF KeepsCall
<1>2. /\ Made(E) \subseteq Dals /\ c.root \in Dals
      /\ \A x \in Made(E) : E[x].rel \subseteq Dals
    BY DEF DalsOK, DalOK, Made
<1>3. Full(c, D) \subseteq Full(e, E)
    BY <1>1, <1>2, AlongGrows DEF Full
<1>4. e.root \in Made(E)
    BY <1>1
<1>5. Walked(c, D) \subseteq Walked(e, E) /\ Walked(c, D) \subseteq Made(D) /\ Full(c, D) \subseteq Made(D)
    <2>1. IF c.recurse THEN Walked(c, D) = Full(c, D) ELSE Walked(c, D) = {c.root}
        BY PathsReach
    <2>2. IF e.recurse THEN Walked(e, E) = Full(e, E) ELSE Walked(e, E) = {e.root}
        BY <1>4, PathsReach
    <2>3. Full(c, D) \subseteq Made(D)
        BY PathsReach
    <2> QED
        BY <1>1, <1>3, <2>1, <2>2, <2>3
<1>6. Twins(D, Full(c, D)) => Twins(E, Full(e, E))
    BY <1>3, <1>5 DEF Twins
<1>7. NamesIn(D, Walked(c, D)) \subseteq NamesIn(E, Walked(e, E))
    BY <1>5 DEF NamesIn
<1> QED
    BY <1>3, <1>5, <1>6, <1>7

\* ... and a piece of a call reads some.
LEMMA PathsNow ==
    ASSUME RefInv, LazyInv, ~Idle, CallNext, RefInv', KeepsCall(call, call'), call.root \in Made(dal)
    PROVE  /\ call'.root \in Made(dal')
           /\ Walked(call, dal) \subseteq Walked(call', dal') /\ Full(call, dal) \subseteq Full(call', dal')
           /\ Twins(dal, Full(call, dal)) => Twins(dal', Full(call', dal'))
           /\ NamesIn(dal, Walked(call, dal)) \subseteq NamesIn(dal', Walked(call', dal'))
<1>1. /\ Made(dal) \subseteq Made(dal')
      /\ \A e \in Made(dal) : dal'[e].id = dal[e].id /\ dal[e].rel \subseteq dal'[e].rel
    BY CallReads
<1>2. DalsOK(dal, Stores(db)) /\ DalsOK(dal', Stores(db'))
    <2>1. DalsOK(dal', Stores(db)')
        BY DEF RefInv
    <2> QED
        BY <2>1 DEF RefInv, Stores
<1> QED
    BY <1>1, <1>2, PathsGrow DEF KeepsCall

-----------------------------------------------------------------------------
(* Calls go where relationships lead.                                        *)

\* What WalkInv says of a frame
Goes(c, D, V) == \A v \in V : v.dal \in Walked(c, D) /\ (c.recurse => v.todo \subseteq Walked(c, D))

\* The frames a piece of a call leaves are of DALs where the call may go.
LEMMA CallGoes ==
    ASSUME RefInv, LazyInv, ~Idle, CallNext, RefInv', call.op # "none", WalkInv
    PROVE  KeepsCall(call, call') /\ Goes(call', dal', Views(call'.stack))
<1> DEFINE d == Top.dal
           rest == Views(Tail(call.stack))
           C == dal'[d].rel
<1>1. /\ call.root \in Made(dal) /\ Goes(call, dal, Views(call.stack))
      /\ Views(call.stack) = {View(Top)} \cup rest /\ View(Top).dal = d /\ View(Top).todo = Top.todo
      /\ d \in Made(dal)
    BY ViewsNow DEF WalkInv, Goes, View
<1> SUFFICES /\ KeepsCall(call, call')
             /\ Walked(call, dal) \subseteq Walked(call', dal') =>
                   \A v \in Views(call'.stack) :
                      v.dal \in Walked(call', dal') /\ (call.recurse => v.todo \subseteq Walked(call', dal'))
    <2>1. Walked(call, dal) \subseteq Walked(call', dal')
        BY <1>1, PathsNow
    <2> QED
        BY <2>1 DEF Goes, KeepsCall
<1> DEFINE X == Walked(call', dal')
           Right(v) == v.dal \in X /\ (call.recurse => v.todo \subseteq X)
<1> SUFFICES /\ KeepsCall(call, call')
             /\ Walked(call, dal) \subseteq X => \A v \in Views(call'.stack) : Right(v)
    OBVIOUS
<1>2. ASSUME Walked(call, dal) \subseteq X
      PROVE  Right(View(Top)) /\ d \in X /\ (call.recurse => Top.todo \subseteq X) /\ \A v \in rest : Right(v)
    BY <1>1, <1>2 DEF Goes
<1>3. ASSUME KeepsCall(call, call'), Walked(call, dal) \subseteq X, call.recurse
      PROVE  C \subseteq X /\ (UNCHANGED dal => dal[d].rel \subseteq X)
    <2>1. call'.root \in Made(dal') /\ call'.recurse
        BY <1>1, <1>3, PathsNow DEF KeepsCall
    <2>2. DalsOK(dal', Stores(db'))
        <3>1. DalsOK(dal', Stores(db)')
            BY DEF RefInv
        <3> QED
            BY <3>1 DEF Stores
    <2>3. X = Full(call', dal') /\ \A e \in Full(call', dal') : dal'[e].rel \subseteq Full(call', dal')
        BY <2>1, <2>2, PathsReach
    <2> QED
        BY <1>2, <1>3, <2>3
<1> HIDE DEF X
<1>4. CASE RenameFails \/ \E e \in Alive : RelatedFails(e)
    BY <1>4, RaisedShape DEF RenameFails, RelatedFails
<1>5. CASE RenameStored
    <2>1. /\ KeepsCall(call, call')
          /\ Views(call'.stack) = {[dal |-> d, mode |-> "open", todo |-> Top.todo]} \cup rest
        BY <1>5, RenamedShape, RenamedViews
    <2> QED
        BY <1>2, <2>1
<1>6. CASE NoRename
    BY <1>2, <1>6, NoRenameShape
<1>7. ASSUME NEW i, Leave(i)
      PROVE  KeepsCall(call, call') /\ (Walked(call, dal) \subseteq X => \A v \in Views(call'.stack) : Right(v))
    BY <1>2, <1>7, LeftShape
<1>8. CASE Raise
    BY <1>8, RaisedShape
<1>9. CASE AddExisting \/ OpenRefused \/ Store
    BY <1>7, <1>8, <1>9 DEF AddExisting, OpenRefused, Store, Refused
<1>10. CASE Open
    <2>1. UNCHANGED dal /\ KeepsCall(call, call')
          /\ Views(call'.stack) = {[dal |-> d, mode |-> "relate", todo |-> dal[d].rel]} \cup rest
        BY <1>10, OpenShape DEF Open
    <2> QED
        BY <1>2, <1>3, <2>1
<1>11. CASE Relate
    <2>1. \/ Raise
          \/ /\ KeepsCall(call, call')
             /\ Views(call'.stack) = {[dal |-> d, mode |-> "relate", todo |-> C]} \cup rest
        BY <1>11, RelateShape
    <2> QED
        BY <1>2, <1>3, <1>8, <2>1
<1>12. ASSUME NEW e \in Alive, Related(e)
       PROVE  KeepsCall(call, call') /\ (Walked(call, dal) \subseteq X => \A v \in Views(call'.stack) : Right(v))
    <2> DEFINE waits == {[dal |-> d, mode |-> "relate", todo |-> Top.todo \ {e}]} \cup rest
    <2>1. KeepsCall(call, call')
          /\ \/ Views(call'.stack) = waits
             \/ Views(call'.stack) = {[dal |-> e, mode |-> "begin", todo |-> {}]} \cup waits /\ call.recurse
        BY <1>12, RelatedShape
    <2>2. e \in Top.todo
        BY <1>12 DEF Related
    <2>3. Walked(call, dal) \subseteq X => \A v \in waits : Right(v)
        BY <1>2
    <2>4. Walked(call, dal) \subseteq X /\ call.recurse => Right([dal |-> e, mode |-> "begin", todo |-> {}])
        BY <1>2, <2>2
    <2> QED
        BY <2>1, <2>3, <2>4
<1>13. CASE Visit
    <2>1. UNCHANGED dal /\ KeepsCall(call, call')
          /\ \/ Views(call'.stack) = rest
             \/ Views(call'.stack) = {[dal |-> d, mode |-> "relate", todo |-> dal[d].rel]} \cup rest
        BY <1>13, VisitShape DEF Visit
    <2> QED
        BY <1>2, <1>3, <2>1
<1>14. CASE Descend
    <2>1. KeepsCall(call, call')
          /\ \/ Views(call'.stack) = rest
             \/ \E e \in Top.todo :
                  Views(call'.stack) = {[dal |-> e, mode |-> "begin", todo |-> {}],
                                        [dal |-> d, mode |-> "relate", todo |-> Top.todo \ {e}]} \cup rest
        BY <1>14, DescendShape
    <2>2. call.recurse
        BY <1>14 DEF Descend, In, WalkInv
    <2> QED
        BY <1>2, <2>1, <2>2
<1> QED
    BY <1>4, <1>5, <1>6, <1>9, <1>10, <1>11, <1>12, <1>13, <1>14 DEF CallNext

\* How a call begins
Started(c) ==
    /\ c.op \in Storing \cup {"getall"} /\ c.root \in Made(dal) /\ c.moved = {} /\ c.ok /\ c.before = db
    /\ c.op = "getall" => c.recurse
    /\ c.op # "update" => ~c.ignore
    /\ \A i \in Ids : c.done[i] = None
    /\ Views(c.stack) = {[dal |-> c.root, mode |-> "begin", todo |-> {}]}
    /\ Objects(c.stack) = {None}

LEMMA StartShape ==
    ASSUME RefInv, NEW d \in Alive, NEW op \in Storing \cup {"getall"}, Start(op, d)
    PROVE  Started(call') /\ UNCHANGED <<db, dal, blurred>> /\ Idle
<1>1. PICK ignore \in (IF op = "update" THEN BOOLEAN ELSE {FALSE}),
           recurse \in (IF op = "getall" THEN {TRUE} ELSE BOOLEAN) :
          call' = [NoCall EXCEPT !.op = op, !.root = d, !.ignore = ignore,
                                 !.recurse = recurse, !.stack = <<NewFrame(d)>>]
    BY DEF Start
<1> DEFINE s == <<NewFrame(d)>>
<1>2. /\ NewFrame(d) \in Frame /\ NewFrame(d).obj = None /\ d \in Made(dal)
      /\ View(NewFrame(d)) = [dal |-> d, mode |-> "begin", todo |-> {}]
    BY AliveAreMade DEF NewFrame, Frame, View, Made
<1>3. Views(s) = {[dal |-> d, mode |-> "begin", todo |-> {}]} /\ Objects(s) = {None}
    <2> HIDE DEF View
    <2> QED
        BY <1>2 DEF Views, Objects
<1> HIDE DEF s
<1>4. call' = [NoCall EXCEPT !.op = op, !.root = d, !.ignore = ignore, !.recurse = recurse, !.stack = s]
    BY <1>1 DEF s
<1>5. /\ call'.op = op /\ call'.root = d /\ call'.ignore = ignore /\ call'.recurse = recurse /\ call'.stack = s
      /\ call'.done = [i \in Ids |-> None] /\ call'.before = db /\ call'.moved = {} /\ call'.ok = TRUE
    BY <1>4 DEF NoCall
<1>6. op = "getall" => recurse
    BY <1>1
<1>7. op # "update" => ~ignore
    BY <1>1
<1>8. UNCHANGED <<db, dal, blurred>> /\ Idle
    BY DEF Start
<1> QED
    BY <1>2, <1>3, <1>5, <1>6, <1>7, <1>8 DEF Started

LEMMA ClientCalls ==
    ASSUME RefInv, ClientNext
    PROVE  /\ Idle
           /\ call'.op = "none" \/ (Started(call') /\ UNCHANGED <<db, dal, blurred>>)
<1>1. ASSUME Client
      PROVE  Idle /\ call'.op = "none"
    BY <1>1 DEF Client, NoCall
<1>2. ASSUME NEW d \in Alive, NEW op \in Storing \cup {"getall"}, Start(op, d)
      PROVE  Idle /\ Started(call') /\ UNCHANGED <<db, dal, blurred>>
    BY <1>2, StartShape
<1>3. CASE Construct
    BY <1>1, <1>3 DEF Construct
<1>4. ASSUME NEW d \in Alive, \/ SetAttribute(d) \/ SetRelation(d) \/ SetId(d) \/ rename(d)
                              \/ Read(d) \/ destroy_dal(d) \/ \E e \in Alive : copy(d, e)
      PROVE  Client
    BY <1>4 DEF SetAttribute, SetRelation, SetId, rename, Read, destroy_dal, copy
<1>5. ASSUME NEW i, get_dal(i)
      PROVE  Client
    BY <1>5 DEF get_dal
<1>6. ASSUME NEW C, get_dals(C)
      PROVE  Client
    BY <1>6 DEF get_dals
<1> QED
    BY <1>1, <1>2, <1>3, <1>4, <1>5, <1>6 DEF ClientNext

\* No call runs when the database is opened.
LEMMA NoneYet == Init => call.op = "none"
    BY DEF Init, NoCall

LEMMA WalkInvariant == Spec => []WalkInv
<1>1. RefInv /\ LazyInv /\ RefInv' /\ WalkInv /\ [Next]_vars => WalkInv'
    <2> SUFFICES ASSUME RefInv, LazyInv, RefInv', WalkInv, [Next]_vars
                 PROVE  WalkInv'
        OBVIOUS
    <2>1. CASE ClientNext
        <3> SUFFICES ASSUME Started(call'), UNCHANGED <<db, dal, blurred>>
                     PROVE  WalkInv'
            BY <2>1, ClientCalls DEF WalkInv
        <3>1. DalsOK(dal, Stores(db)) /\ call'.root \in Made(dal)
            BY DEF RefInv, Started
        <3>2. call'.root \in Walked(call', dal)
            BY <3>1, PathsReach
        <3> QED
            BY <3>2 DEF WalkInv, Started
    <2>2. CASE ~Idle /\ CallNext /\ call.op # "none"
        <3>1. KeepsCall(call, call') /\ Goes(call', dal', Views(call'.stack))
            BY <2>2, CallGoes
        <3>2. /\ call.root \in Made(dal) /\ (call.op = "getall" => call.recurse)
              /\ call.op # "update" => ~call.ignore
            BY <2>2 DEF WalkInv
        <3>3. call'.root \in Made(dal')
            BY <2>2, <3>1, <3>2, PathsNow
        <3> QED
            BY <3>1, <3>2, <3>3 DEF KeepsCall, Goes, WalkInv
    <2>3. CASE ~Idle /\ CallNext /\ call.op = "none"
        BY <2>3 DEF CallNext, RenameStored, RenameFails, NoRename, AddExisting, Open, OpenRefused,
                    Relate, Related, RelatedFails, Store, Visit, Descend, In, Storing
    <2>4. CASE UNCHANGED vars
        BY <2>4 DEF vars, WalkInv
    <2> QED
        BY <2>1, <2>2, <2>3, <2>4 DEF Next
<1>2. Init => WalkInv
    BY NoneYet DEF WalkInv
<1> QED
    BY <1>1, <1>2, RefInvariant, LazyInvariant, PTL DEF Spec

-----------------------------------------------------------------------------
(* __getall__.                                                               *)

\* A getter that succeeds changes its DAL and no other that there was.
LEMMA ReadsOne ==
    ASSUME RefInv, NEW d \in Alive, ReadRelation(d)
    PROVE  \A e \in Made(dal) \ {d} : dal'[e] = dal[e]
<1> DEFINE W == WithDals(Fresh(ToLoad(d)))
<1>1. /\ Made(W) = Made(dal) \cup {Fresh(ToLoad(d))[i] : i \in ToLoad(d)}
      /\ \A e \in Made(dal) : W[e] = dal[e]
      /\ \A e \in Made(W) \ {d} : dal'[e] = W[e]
    BY GetterChanges
<1> QED
    BY <1>1

\* Begun, of frames one has the views of
Yet(R) == {u.dal : u \in {w \in R : w.mode # "relate"}}

\* A frame is turned to another; the DALs of the others stay.
LEMMA OtherBegun ==
    \A s, t, v, R : Views(s) = {v} \cup R =>
        /\ Begun(s) \subseteq {v.dal} \cup Yet(R)
        /\ v.mode = "relate" => Begun(s) = Yet(R)
        /\ R \subseteq Views(t) => Yet(R) \subseteq Begun(t)
    BY DEF Begun, Yet

LEMMA CallFinds ==
    ASSUME RefInv, LazyInv, WalkInv, FindInv, ~Idle, CallNext, RefInv',
           call'.op = "getall", call'.ok, ~Twins(dal', Full(call', dal'))
    PROVE  FindInv'
<1> DEFINE d == Top.dal
           rest == Views(Tail(call.stack))
           waits == Yet(rest)
<1>1. /\ Visit \/ Descend \/ Relate
      /\ KeepsCall(call, call') /\ call.op = "getall"
    <2>1. call.op # "none"
        BY DEF CallNext, RenameStored, RenameFails, NoRename, AddExisting, Open, OpenRefused,
               Relate, Related, RelatedFails, Store, Visit, Descend, In, Storing
    <2>2. KeepsCall(call, call') /\ call.op = "getall"
        BY <2>1, CallGoes DEF KeepsCall
    <2> QED
        BY <2>2 DEF CallNext, RenameStored, RenameFails, NoRename, AddExisting, Open, OpenRefused,
                    Related, RelatedFails, Store, In, Storing
<1>2. ~Raise
    BY RaisedShape
<1>3. call.root \in Made(dal) /\ call.recurse
    BY <1>1 DEF WalkInv
<1>4. Full(call, dal) \subseteq Full(call', dal') /\ ~Twins(dal, Full(call, dal))
    BY <1>1, <1>3, PathsNow
<1>5. /\ Views(call.stack) = {View(Top)} \cup rest /\ View(Top).dal = d
      /\ View(Top).mode = Top.mode /\ View(Top).todo = Top.todo
      /\ d \in Made(dal) /\ Name(d) \in Ids /\ d \in Alive
    BY ViewsNow, AliveAreMade DEF View
<1>6. d \in Full(call, dal)
    <2>1. d \in Walked(call, dal)
        BY <1>1, <1>5 DEF WalkInv
    <2>2. DalsOK(dal, Stores(db))
        BY DEF RefInv
    <2> QED
        BY <1>3, <2>1, <2>2, PathsReach
<1>7. call.ok
    BY <1>1, <1>2, VisitShape, DescendShape, RelateShape
<1>8. /\ \A i \in Ids : call.done[i] # None =>
            call.done[i] \in Full(call, dal) /\ dal[call.done[i]].id = i
      /\ call.root \in Found(call) \cup Begun(call.stack)
      /\ \A g \in Found(call) : \E T :
            /\ T = {} \/ [dal |-> g, mode |-> "relate", todo |-> T] \in Views(call.stack)
            /\ dal[g].rel \subseteq T \cup Found(call) \cup Begun(call.stack)
    BY <1>1, <1>4, <1>7 DEF FindInv
<1>9. call'.root = call.root
    BY <1>1 DEF KeepsCall
<1>10. /\ Begun(call.stack) \subseteq {d} \cup waits
       /\ Top.mode = "relate" => Begun(call.stack) = waits
       /\ rest \subseteq Views(call'.stack) => waits \subseteq Begun(call'.stack)
    <2> DEFINE v == View(Top)
    <2>1. Views(call.stack) = {v} \cup rest /\ v.dal = d /\ v.mode = Top.mode
        BY <1>5
    <2> HIDE DEF v, rest, d
    <2>2. /\ Begun(call.stack) \subseteq {v.dal} \cup Yet(rest)
          /\ v.mode = "relate" => Begun(call.stack) = Yet(rest)
          /\ rest \subseteq Views(call'.stack) => Yet(rest) \subseteq Begun(call'.stack)
        BY <2>1, OtherBegun
    <2> QED
        BY <2>1, <2>2
<1>11. Full(call, dal) \subseteq Made(dal)
    <2>1. DalsOK(dal, Stores(db))
        BY DEF RefInv
    <2> QED
        BY <1>3, <2>1, PathsReach
<1> HIDE DEF rest, waits
<1>12. CASE Visit
    <2>1. Top.mode = "begin" /\ UNCHANGED dal
        BY <1>12 DEF Visit, In
    <2>2. \A g, T : [dal |-> g, mode |-> "relate", todo |-> T] \in Views(call.stack) =>
                    [dal |-> g, mode |-> "relate", todo |-> T] \in rest
        BY <1>5, <2>1
    <2>3. CASE call.done[Name(d)] # None
        <3>1. call'.done = call.done /\ Views(call'.stack) = rest
            BY <1>12, <2>3, VisitShape DEF rest
        <3>2. call.done[Name(d)] = d
            BY <1>4, <1>5, <1>6, <1>8, <2>3 DEF Twins, Name
        <3>3. d \in Found(call) /\ Found(call') = Found(call)
            BY <1>5, <2>3, <3>1, <3>2 DEF Found
        <3>4. Begun(call.stack) \subseteq Found(call) \cup Begun(call'.stack)
            BY <1>10, <3>1, <3>3
        <3>5. \A i \in Ids : call'.done[i] # None => call'.done[i] \in Full(call', dal') /\ dal'[call'.done[i]].id = i
            BY <1>4, <1>8, <2>1, <3>1
        <3>6. \A g \in Found(call') : \E T :
                 /\ T = {} \/ [dal |-> g, mode |-> "relate", todo |-> T] \in Views(call'.stack)
                 /\ dal'[g].rel \subseteq T \cup Found(call') \cup Begun(call'.stack)
            BY <1>8, <2>1, <2>2, <3>1, <3>3, <3>4
        <3>7. call'.root \in Found(call') \cup Begun(call'.stack)
            BY <1>8, <1>9, <3>3, <3>4
        <3> QED
            BY <3>5, <3>6, <3>7 DEF FindInv
    <2>4. CASE call.done[Name(d)] = None
        <3>1. /\ \A j \in Ids : call'.done[j] = IF j = Name(d) THEN d ELSE call.done[j]
              /\ Views(call'.stack) = {[dal |-> d, mode |-> "relate", todo |-> dal[d].rel]} \cup rest
            BY <1>12, <2>4, VisitShape DEF rest
        <3>2. Found(call') = Found(call) \cup {d}
            <4>1. d # None
                BY <1>5, NoneIsNoRecord DEF Made
            <4> QED
                BY <1>5, <2>4, <3>1, <4>1 DEF Found
        <3>3. Begun(call.stack) \subseteq Found(call') \cup Begun(call'.stack)
            BY <1>10, <3>1, <3>2
        <3>4. \A i \in Ids : call'.done[i] # None => call'.done[i] \in Full(call', dal') /\ dal'[call'.done[i]].id = i
            BY <1>4, <1>5, <1>6, <1>8, <2>1, <3>1 DEF Name
        <3>5. \A g \in Found(call') : \E T :
                 /\ T = {} \/ [dal |-> g, mode |-> "relate", todo |-> T] \in Views(call'.stack)
                 /\ dal'[g].rel \subseteq T \cup Found(call') \cup Begun(call'.stack)
            <4> SUFFICES ASSUME NEW g \in Found(call')
                         PROVE  \E T :
                           /\ T = {} \/ [dal |-> g, mode |-> "relate", todo |-> T] \in Views(call'.stack)
                           /\ dal'[g].rel \subseteq T \cup Found(call') \cup Begun(call'.stack)
                OBVIOUS
            <4>1. CASE g = d
                BY <2>1, <3>1, <4>1
            <4>2. CASE g # d
                <5>1. PICK T : /\ T = {} \/ [dal |-> g, mode |-> "relate", todo |-> T] \in Views(call.stack)
                               /\ dal[g].rel \subseteq T \cup Found(call) \cup Begun(call.stack)
                    BY <1>8, <3>2, <4>2
                <5>2. T = {} \/ [dal |-> g, mode |-> "relate", todo |-> T] \in Views(call'.stack)
                    BY <2>2, <3>1, <5>1
                <5>3. dal'[g].rel \subseteq T \cup Found(call') \cup Begun(call'.stack)
                    BY <2>1, <3>2, <3>3, <5>1
                <5> QED
                    BY <5>2, <5>3
            <4> QED
                BY <4>1, <4>2
        <3>6. call'.root \in Found(call') \cup Begun(call'.stack)
            BY <1>8, <1>9, <3>2, <3>3
        <3> QED
            BY <3>4, <3>5, <3>6 DEF FindInv
    <2> QED
        BY <2>3, <2>4
<1>13. CASE Descend
    <2>1. Top.mode = "relate" /\ UNCHANGED dal
        BY <1>13 DEF Descend, In
    <2>2. /\ call'.done = call.done
          /\ \/ Top.todo = {} /\ Views(call'.stack) = rest
             \/ \E e \in Top.todo :
                   Views(call'.stack) = {[dal |-> e, mode |-> "begin", todo |-> {}],
                                         [dal |-> d, mode |-> "relate", todo |-> Top.todo \ {e}]} \cup rest
        BY <1>13, DescendShape DEF rest
    <2>3. Found(call') = Found(call) /\ Begun(call.stack) \subseteq Begun(call'.stack)
        BY <1>10, <2>1, <2>2 DEF Found
    <2>4. \A i \in Ids : call'.done[i] # None => call'.done[i] \in Full(call', dal') /\ dal'[call'.done[i]].id = i
        BY <1>4, <1>8, <2>1, <2>2
    <2>5. call'.root \in Found(call') \cup Begun(call'.stack)
        BY <1>8, <1>9, <2>3
    <2>6. ASSUME NEW g \in Found(call')
          PROVE  \E T :
                    /\ T = {} \/ [dal |-> g, mode |-> "relate", todo |-> T] \in Views(call'.stack)
                    /\ dal'[g].rel \subseteq T \cup Found(call') \cup Begun(call'.stack)
        <3>1. PICK T : /\ T = {} \/ [dal |-> g, mode |-> "relate", todo |-> T] \in Views(call.stack)
                       /\ dal[g].rel \subseteq T \cup Found(call) \cup Begun(call.stack)
            BY <1>8, <2>3, <2>6
        <3>2. dal'[g].rel \subseteq T \cup Found(call') \cup Begun(call'.stack)
            BY <2>1, <2>3, <3>1
        <3>3. T = {} \/ [dal |-> g, mode |-> "relate", todo |-> T] \in rest \/ (g = d /\ T = Top.todo)
            BY <1>5, <3>1
        <3>4. CASE T = {} \/ [dal |-> g, mode |-> "relate", todo |-> T] \in rest
            BY <2>2, <3>2, <3>4
        <3>5. CASE g = d /\ T = Top.todo /\ T # {}
            <4>1. PICK e \in Top.todo :
                     Views(call'.stack) = {[dal |-> e, mode |-> "begin", todo |-> {}],
                                           [dal |-> d, mode |-> "relate", todo |-> Top.todo \ {e}]} \cup rest
                BY <2>2, <3>5
            <4>2. e \in Begun(call'.stack)
                <5>1. [dal |-> e, mode |-> "begin", todo |-> {}] \in Views(call'.stack)
                    BY <4>1
                <5>2. \E u \in Views(call'.stack) : u.mode # "relate" /\ u.dal = e
                    BY <5>1
                <5> QED
                    BY <5>2 DEF Begun
            <4>3. dal'[g].rel \subseteq (T \ {e}) \cup Found(call') \cup Begun(call'.stack)
                BY <3>2, <4>2
            <4>4. [dal |-> g, mode |-> "relate", todo |-> T \ {e}] \in Views(call'.stack)
                BY <3>5, <4>1
            <4> QED
                BY <4>3, <4>4
        <3> QED
            BY <3>2, <3>3, <3>4, <3>5
    <2> QED
        BY <2>4, <2>5, <2>6 DEF FindInv
<1>14. CASE Relate
    <2>1. /\ Top.mode = "relate" /\ ReadRelation(d)
          /\ call'.done = call.done
          /\ Views(call'.stack) = {[dal |-> d, mode |-> "relate", todo |-> dal'[d].rel]} \cup rest
        BY <1>2, <1>14, RelateShape DEF Relate, In, rest
    <2>2. Found(call') = Found(call) /\ Begun(call.stack) \subseteq Begun(call'.stack)
        BY <1>10, <2>1 DEF Found
    <2>3. \A e \in Made(dal) : dal'[e].id = dal[e].id /\ (e # d => dal'[e].rel = dal[e].rel)
        BY <1>5, <2>1, ReadsOne, CallReads
    <2>4. \A i \in Ids : call'.done[i] # None => call'.done[i] \in Full(call', dal') /\ dal'[call'.done[i]].id = i
        BY <1>4, <1>8, <1>11, <2>1, <2>3
    <2>5. call'.root \in Found(call') \cup Begun(call'.stack)
        BY <1>8, <1>9, <2>2
    <2>6. ASSUME NEW g \in Found(call')
          PROVE  \E T :
                    /\ T = {} \/ [dal |-> g, mode |-> "relate", todo |-> T] \in Views(call'.stack)
                    /\ dal'[g].rel \subseteq T \cup Found(call') \cup Begun(call'.stack)
        <3>1. CASE g = d
            BY <2>1, <3>1
        <3>2. CASE g # d
            <4>1. PICK T : /\ T = {} \/ [dal |-> g, mode |-> "relate", todo |-> T] \in Views(call.stack)
                           /\ dal[g].rel \subseteq T \cup Found(call) \cup Begun(call.stack)
                BY <1>8, <2>2, <2>6
            <4>2. g \in Made(dal)
                BY <1>8, <1>11, <2>2, <2>6 DEF Found
            <4>3. T = {} \/ [dal |-> g, mode |-> "relate", todo |-> T] \in Views(call'.stack)
                BY <1>5, <2>1, <3>2, <4>1
            <4>4. dal'[g].rel \subseteq T \cup Found(call') \cup Begun(call'.stack)
                BY <2>2, <2>3, <3>2, <4>1, <4>2
            <4> QED
                BY <4>3, <4>4
        <3> QED
            BY <3>1, <3>2
    <2> QED
        BY <2>4, <2>5, <2>6 DEF FindInv
<1> QED
    BY <1>1, <1>12, <1>13, <1>14

LEMMA FindInvariant == Spec => []FindInv
<1>1. RefInv /\ LazyInv /\ WalkInv /\ RefInv' /\ FindInv /\ [Next]_vars => FindInv'
    <2> SUFFICES ASSUME RefInv, LazyInv, WalkInv, RefInv', FindInv, [Next]_vars
                 PROVE  FindInv'
        OBVIOUS
    <2>1. CASE ClientNext
        <3> SUFFICES ASSUME Started(call'), call'.op = "getall"
                     PROVE  FindInv'
            BY <2>1, ClientCalls DEF FindInv
        <3>1. Found(call') = {}
            BY DEF Started, Found
        <3>2. call'.root \in Begun(call'.stack)
            <4>1. [dal |-> call'.root, mode |-> "begin", todo |-> {}] \in Views(call'.stack)
                BY DEF Started
            <4>2. \E u \in Views(call'.stack) : u.mode # "relate" /\ u.dal = call'.root
                BY <4>1
            <4> QED
                BY <4>2 DEF Begun
        <3>3. \A i \in Ids : call'.done[i] = None
            BY DEF Started
        <3> QED
            BY <3>1, <3>2, <3>3 DEF FindInv
    <2>2. CASE ~Idle /\ CallNext
        BY <2>2, CallFinds DEF FindInv
    <2>3. CASE UNCHANGED vars
        BY <2>3 DEF vars, FindInv
    <2> QED
        BY <2>1, <2>2, <2>3 DEF Next
<1>2. Init => FindInv
    BY NoneYet DEF FindInv
<1> QED
    BY <1>1, <1>2, RefInvariant, LazyInvariant, WalkInvariant, PTL DEF Spec

\* When DalBase.get returns, it has found every DAL that is related to the one it
\* was called for, of the class asked for or a class derived from it, and no other,
\* however the relationships run in circles and whichever of them are read on the
\* way, unless two of the DALs have one name.
THEOREM GetAllCorrect == Spec => []GetFindsAll
<1>1. RefInv /\ WalkInv /\ FindInv => GetFindsAll
    <2> SUFFICES ASSUME RefInv, WalkInv, FindInv, Over({"getall"}), NoTwins(Reach(call.root, Alive)),
                        NEW c \in Classes
                 PROVE  get({call.done[i] : i \in Ids} \ {None}, c, TRUE) =
                        {e \in Reach(call.root, Alive) : c \in OksTypes[ClassOf[Name(e)]]}
        BY DEF GetFindsAll
    <2> DEFINE F == Full(call, dal)
    <2>1. call.op = "getall" /\ call.ok /\ Views(call.stack) = {}
        BY NoViews DEF Over, Idle
    <2>2. Reach(call.root, Alive) = F
        BY ReachIsAlong, AliveAreMade DEF Full
    <2>3. ~Twins(dal, F)
        BY <2>2 DEF NoTwins, Twins, Name
    <2>4. call.root \in Made(dal) /\ F \subseteq Made(dal)
        <3>1. call.root \in Made(dal) /\ DalsOK(dal, Stores(db))
            BY <2>1 DEF WalkInv, RefInv
        <3> QED
            BY <3>1, PathsReach
    <2>5. Begun(call.stack) = {}
        BY <2>1 DEF Begun
    <2>6. /\ Found(call) \subseteq F
          /\ call.root \in Found(call)
          /\ \A d \in Found(call) : dal[d].rel \subseteq Found(call)
        BY <2>1, <2>3, <2>5 DEF FindInv, Found
    <2>7. F \subseteq Found(call)
        <3>1. Closed(dal, Made(dal), Found(call))
            BY <2>6 DEF Closed
        <3> QED
            BY <2>6, <3>1, AlongLeast DEF Full
    <2>8. {call.done[i] : i \in Ids} \ {None} = F
        BY <2>6, <2>7 DEF Found
    <2>9. \A e \in F : Name(e) \in Ids
        BY <2>4 DEF RefInv, DalsOK, DalOK, DalObject, Name
    <2>10. \A e \in F : c = ClassOf[Name(e)] => c \in OksTypes[ClassOf[Name(e)]]
        BY <2>9, OwnClass
    <2> HIDE DEF F
    <2> QED
        BY <2>2, <2>8, <2>10 DEF get
<1> QED
    BY <1>1, RefInvariant, WalkInvariant, FindInvariant, PTL

-----------------------------------------------------------------------------
(* What a call that stores leaves alone.                                     *)

LEMMA CallKeepsOp ==
    ASSUME RefInv, LazyInv, WalkInv, ~Idle, CallNext, RefInv'
    PROVE  /\ KeepsCall(call, call') /\ call.root \in Made(dal) /\ call.op \in Storing \cup {"getall"}
           /\ call'.op \in Storing <=> call.op \in Storing
           /\ Visit \/ Descend => call.op = "getall"
<1>1. call.op # "none"
    BY DEF CallNext, RenameStored, RenameFails, NoRename, AddExisting, Open, OpenRefused,
           Relate, Related, RelatedFails, Store, Visit, Descend, In, Storing
<1>2. KeepsCall(call, call') /\ call.root \in Made(dal)
    BY <1>1, CallGoes DEF WalkInv
<1>3. call.op \in Storing \cup {"getall"}
    BY <1>1 DEF RefInv, CallOK, CallSet
<1> QED
    BY <1>2, <1>3 DEF KeepsCall, Visit, Descend, In

\* A call may touch more as it goes on ...
LEMMA TouchesMore ==
    ASSUME RefInv, LazyInv, WalkInv, ~Idle, CallNext, RefInv', call.moved \subseteq call'.moved
    PROVE  MayTouch(call, dal) \subseteq MayTouch(call', dal')
    BY CallKeepsOp, PathsNow DEF MayTouch

\* ... and has done nothing else when it changes nothing.
LEMMA TouchesNothing ==
    ASSUME RefInv, LazyInv, WalkInv, TouchInv, ~Idle, CallNext, RefInv',
           call'.moved = call.moved, UNCHANGED db,
           Objects(call'.stack) \ {None} \subseteq Objects(call.stack)
    PROVE  TouchInv'
<1> SUFFICES ASSUME call'.op \in Storing
             PROVE  TouchInv'
    BY DEF TouchInv
<1>1. KeepsCall(call, call') /\ call.op \in Storing /\ MayTouch(call, dal) \subseteq MayTouch(call', dal')
    BY CallKeepsOp, TouchesMore
<1>2. \A o \in Objects(call'.stack) \ {None} : o \in Objects(call.stack) \ {None}
    OBVIOUS
<1>3. Stores(db)' = Stores(db)
    BY DEF Stores
<1> QED
    BY <1>1, <1>2, <1>3 DEF TouchInv, KeepsCall

\* One object is changed, which the call may touch.
LEMMA TouchesOne ==
    ASSUME RefInv, LazyInv, WalkInv, TouchInv, ~Idle, CallNext, RefInv',
           call'.moved = call.moved, call.op \in Storing,
           NEW i \in Ids, \A j \in Ids : j # i => db'[j] = db[j],
           call.op = "add" => call.before[i] = None,
           call.op = "update" => i \in MayTouch(call, dal),
           Objects(call'.stack) \ {None} \subseteq Objects(call.stack) \cup {i}
    PROVE  TouchInv'
<1>1. KeepsCall(call, call') /\ MayTouch(call, dal) \subseteq MayTouch(call', dal')
    BY CallKeepsOp, TouchesMore
<1>2. \A o \in Objects(call'.stack) \ {None} : o = i \/ o \in Objects(call.stack) \ {None}
    OBVIOUS
<1>3. \A j \in Ids : j # i => (j \in Stores(db)' <=> j \in Stores(db))
    BY DEF Stores
<1>4. \A o \in Objects(call'.stack) \ {None} :
         /\ call'.op = "add" => call'.before[o] = None
         /\ call'.op = "update" => o \in MayTouch(call', dal')
    BY <1>1, <1>2 DEF TouchInv, KeepsCall
<1>5. ASSUME NEW j \in Ids, call'.before[j] # None
      PROVE  /\ call'.op = "add" => db'[j] = call'.before[j]
             /\ call'.op = "update" =>
                   \/ j \in MayTouch(call', dal')
                   \/ /\ j \in Stores(db)'
                      /\ db'[j].attr = call'.before[j].attr
                      /\ db'[j].rel \ call'.moved = call'.before[j].rel \ call'.moved
    <2>1. CASE j = i
        BY <1>1, <1>5, <2>1 DEF KeepsCall
    <2>2. CASE j # i
        BY <1>1, <1>3, <1>5, <2>2 DEF TouchInv, KeepsCall
    <2> QED
        BY <2>1, <2>2
<1> QED
    BY <1>4, <1>5 DEF TouchInv

LEMMA RenamedStay ==
    ASSUME RefInv, RenameStored
    PROVE  \A j \in Stores(db) \ {dal[Top.dal].old} : j \in Stores(db)'
<1> DEFINE old == dal[Top.dal].old
           new == Name(Top.dal)
<1>1. old \in Stores(db) /\ old \in Ids /\ new \in Ids /\ new \notin Stores(db) /\ old # new
    BY RenameChanges
<1> SUFFICES ASSUME NEW j \in Stores(db) \ {old}
             PROVE  db'[j] # None
    BY DEF Stores
<1>2. j \in Ids /\ j # old /\ j # new /\ db[j] # None
    BY <1>1 DEF Stores
<1>3. db[j] \in Object
    BY <1>2 DEF RefInv, DbOK
<1>4. db'[j] = [db[j] EXCEPT !.rel = Renamed(@, old, new)]
    BY <1>2 DEF RenameStored
<1>5. Renamed(db[j].rel, old, new) \subseteq Ids
    BY <1>1, <1>3 DEF Renamed, Object
<1>6. db'[j] \in Object
    BY <1>3, <1>4, <1>5 DEF Object
<1> QED
    BY <1>6, NoneIsNoRecord

LEMMA RenameTouches ==
    ASSUME RefInv, LazyInv, WalkInv, TouchInv, RenameStored, RefInv'
    PROVE  TouchInv'
<1> DEFINE old == dal[Top.dal].old
           new == Name(Top.dal)
<1>1. ~Idle /\ CallNext /\ call.op = "update" /\ call.op \in Storing
    BY DEF RenameStored, In, CallNext, Storing
<1>2. KeepsCall(call, call') /\ call'.moved = call.moved \cup {old, new}
    BY RenamedShape
<1>3. MayTouch(call, dal) \subseteq MayTouch(call', dal') /\ call'.moved \subseteq MayTouch(call', dal')
    BY <1>1, <1>2, TouchesMore DEF MayTouch
<1>4. \A o \in Objects(call'.stack) \ {None} : o = new \/ o \in Objects(call.stack) \ {None}
    BY RenamedViews
<1>5. /\ old \in Stores(db) /\ old \in Ids /\ new \in Ids /\ new \notin Stores(db) /\ old # new
      /\ \A j \in Stores(db) \ {old} : db'[j].attr = db[j].attr /\ db'[j].rel = Renamed(db[j].rel, old, new)
    BY RenameChanges
<1>6. \A j \in Stores(db) \ {old} : j \in Stores(db)'
    BY RenamedStay
<1>7. \A S : Renamed(S, old, new) \ call'.moved = S \ call'.moved
    <2> SUFFICES ASSUME NEW S, NEW x
                 PROVE  x \in Renamed(S, old, new) \ call'.moved <=> x \in S \ call'.moved
        OBVIOUS
    <2>1. x \notin call'.moved => x # old /\ x # new
        BY <1>2
    <2> QED
        BY <2>1 DEF Renamed
<1> HIDE DEF old, new
<1>8. \A o \in Objects(call'.stack) \ {None} :
         /\ call'.op = "add" => call'.before[o] = None
         /\ call'.op = "update" => o \in MayTouch(call', dal')
    BY <1>1, <1>2, <1>3, <1>4 DEF TouchInv, KeepsCall
<1>9. ASSUME NEW j \in Ids, call'.before[j] # None, j \notin MayTouch(call', dal')
      PROVE  /\ j \in Stores(db)'
             /\ db'[j].attr = call'.before[j].attr
             /\ db'[j].rel \ call'.moved = call'.before[j].rel \ call'.moved
    <2>1. call'.before = call.before
        BY <1>2 DEF KeepsCall
    <2>2. /\ j \in Stores(db)
          /\ db[j].attr = call.before[j].attr /\ db[j].rel \ call.moved = call.before[j].rel \ call.moved
        BY <1>1, <1>3, <1>9, <2>1 DEF TouchInv
    <2>3. j # old
        BY <1>2, <1>3, <1>9
    <2>4. db[j].rel \ call'.moved = call.before[j].rel \ call'.moved
        BY <1>2, <2>2
    <2> QED
        BY <1>5, <1>6, <1>7, <2>1, <2>2, <2>3, <2>4
<1> QED
    BY <1>1, <1>2, <1>8, <1>9 DEF TouchInv, KeepsCall

LEMMA CallTouches ==
    ASSUME RefInv, LazyInv, WalkInv, TouchInv, ~Idle, CallNext, RefInv'
    PROVE  TouchInv'
<1> DEFINE d == Top.dal
<1>1. Objects(call.stack) = {Top.obj} \cup Objects(Tail(call.stack)) /\ d \in Made(dal) /\ Name(d) \in Ids
    BY ViewsNow
<1>2. Name(d) \in MayTouch(call, dal)
    <2>1. call.op # "none" /\ View(Top) \in Views(call.stack) /\ View(Top).dal = d
        BY CallKeepsOp, ViewsNow DEF Storing, View
    <2>2. d \in Walked(call, dal)
        BY <2>1 DEF WalkInv
    <2> QED
        BY <2>2 DEF MayTouch, NamesIn, Name
<1>3. CASE Raise /\ UNCHANGED db
    BY <1>3, RaisedShape, TouchesNothing
<1>4. ASSUME NEW i, Leave(i), UNCHANGED db
      PROVE  TouchInv'
    BY <1>1, <1>4, LeftShape, TouchesNothing
<1>5. CASE RenameFails \/ AddExisting \/ OpenRefused \/ \E e \in Alive : RelatedFails(e)
    BY <1>3, <1>4, <1>5 DEF RenameFails, AddExisting, OpenRefused, Refused, RelatedFails
<1>6. CASE RenameStored
    BY <1>6, RenameTouches
<1>7. CASE NoRename
    BY <1>7, NoRenameShape, TouchesNothing DEF NoRename
<1>8. CASE Relate
    <2>1. UNCHANGED db
        BY <1>8 DEF Relate
    <2> QED
        BY <1>3, <1>8, <2>1, RelateShape, TouchesNothing
<1>9. ASSUME NEW e \in Alive, Related(e)
      PROVE  TouchInv'
    <2>1. UNCHANGED db
        BY <1>9 DEF Related
    <2>2. call'.moved = call.moved /\ Objects(call'.stack) \ {None} = Objects(call.stack) \ {None}
        BY <1>9, RelatedShape
    <2> QED
        BY <2>1, <2>2, TouchesNothing
<1>10. CASE Visit \/ Descend
    <2>1. call'.op \notin Storing
        BY <1>10, CallKeepsOp DEF Storing
    <2> QED
        BY <2>1 DEF TouchInv
<1>11. CASE Open
    <2>1. call'.moved = call.moved /\ Objects(call'.stack) = {Name(d)} \cup Objects(Tail(call.stack))
        BY <1>11, OpenShape
    <2>2. \A j \in Ids : j # Name(d) => db'[j] = db[j]
        BY <1>11 DEF Open, RefInv, DbOK
    <2>3. call.op \in Storing
        BY <1>11 DEF Open, In, Storing
    <2>4. call.op = "add" => call.before[Name(d)] = None
        <3> SUFFICES ASSUME call.op = "add"
                     PROVE  call.before[Name(d)] = None
            OBVIOUS
        <3>1. db[Name(d)] = None
            BY <1>1, <1>11 DEF Open, In, Present
        <3> QED
            BY <1>1, <2>3, <3>1 DEF TouchInv
    <2>5. Objects(call'.stack) \ {None} \subseteq Objects(call.stack) \cup {Name(d)}
        BY <1>1, <2>1
    <2> HIDE DEF d
    <2> QED
        BY <1>1, <1>2, <2>1, <2>2, <2>3, <2>4, <2>5, TouchesOne
<1>12. CASE Store
    <2>1. CASE Top.obj \in ReadOnly
        BY <1>3, <1>4, <1>12, <2>1 DEF Store, Refused
    <2>2. CASE Top.obj \notin ReadOnly
        <3> DEFINE i == Top.obj
        <3>1. call.op \in Storing /\ Leave(i) /\ db' = [db EXCEPT ![i].rel = Top.val] /\ Top.mode = "relate"
            BY <1>12, <2>2 DEF Store, In
        <3>2. i \in Ids /\ i # None
            BY <3>1, Frames, NoneIsNoRecord DEF Stores
        <3>3. \A j \in Ids : j # i => db'[j] = db[j]
            BY <3>1 DEF RefInv, DbOK
        <3>4. i \in Objects(call.stack) \ {None}
            BY <1>1, <3>2
        <3>5. (call.op = "add" => call.before[i] = None) /\ (call.op = "update" => i \in MayTouch(call, dal))
            BY <3>1, <3>4 DEF TouchInv
        <3>6. call'.moved = call.moved /\ Objects(call'.stack) \ {None} \subseteq Objects(call.stack) \cup {i}
            BY <1>1, <3>1, LeftShape
        <3> HIDE DEF i
        <3> QED
            BY <3>1, <3>2, <3>3, <3>5, <3>6, TouchesOne
    <2> QED
        BY <2>1, <2>2
<1> QED
    BY <1>5, <1>6, <1>7, <1>8, <1>9, <1>10, <1>11, <1>12 DEF CallNext

LEMMA TouchInvariant == Spec => []TouchInv
<1>1. RefInv /\ LazyInv /\ WalkInv /\ RefInv' /\ TouchInv /\ [Next]_vars => TouchInv'
    <2> SUFFICES ASSUME RefInv, LazyInv, WalkInv, RefInv', TouchInv, [Next]_vars
                 PROVE  TouchInv'
        OBVIOUS
    <2>1. CASE ClientNext
        <3> SUFFICES ASSUME Started(call'), UNCHANGED db
                     PROVE  TouchInv'
            BY <2>1, ClientCalls DEF TouchInv, Storing
        <3>1. Objects(call'.stack) \ {None} = {} /\ call'.before = db /\ Stores(db)' = Stores(db)
            BY DEF Started, Stores
        <3>2. \A i \in Ids : call'.before[i] # None => i \in Stores(db)' /\ db'[i] = call'.before[i]
            BY <3>1 DEF Stores
        <3> QED
            BY <3>1, <3>2 DEF TouchInv
    <2>2. CASE ~Idle /\ CallNext
        BY <2>2, CallTouches
    <2>3. CASE UNCHANGED vars
        BY <2>3 DEF vars, TouchInv
    <2> QED
        BY <2>1, <2>2, <2>3 DEF Next
<1>2. Init => TouchInv
    BY NoneYet DEF TouchInv, Storing
<1> QED
    BY <1>1, <1>2, RefInvariant, LazyInvariant, WalkInvariant, PTL DEF Spec

\* At no point of a call, nor after it has raised, has add_dal changed an object that
\* was there, or update_dal one that is neither renamed nor the object of the DAL it
\* was called for or, when it recurses, of one related to that.
THEOREM TouchCorrect == Spec => []NothingElseTouched
<1>1. WalkInv /\ TouchInv => NothingElseTouched
    <2> SUFFICES ASSUME TouchInv, call.op \in Storing,
                        NEW i \in {j \in Ids : call.before[j] # None /\ db[j] # call.before[j]}
                 PROVE  /\ call.op = "update"
                        /\ \/ i \in call.moved
                           \/ i \in Names(Reach(call.root, IF call.recurse THEN Alive ELSE {}))
                           \/ /\ i \in Present
                              /\ db[i].attr = call.before[i].attr
                              /\ db[i].rel \ call.moved = call.before[i].rel \ call.moved
        BY DEF NothingElseTouched
    <2>1. Reach(call.root, IF call.recurse THEN Alive ELSE {}) = Walked(call, dal)
        BY ReachIsAlong, AliveAreMade DEF Walked
    <2>2. Names(Walked(call, dal)) = NamesIn(dal, Walked(call, dal))
        BY DEF Names, NamesIn, Name
    <2>3. call.op = "update"
        BY DEF TouchInv, Storing
    <2> QED
        BY <2>1, <2>2, <2>3, AliveAreMade DEF TouchInv, MayTouch
<1> QED
    BY <1>1, WalkInvariant, TouchInvariant, PTL

-----------------------------------------------------------------------------
(* What a call that stores has written.                                      *)

\* The DALs of frames
Of(R) == {v.dal : v \in R}

\* All frames wait ...
LEMMA OnlyWaiting ==
    ASSUME NEW s, NEW R, \A w \in R : w.mode = "relate", Views(s) = R
    PROVE  Begun(s) = {} /\ Relating(s) = Of(R)
<1> DEFINE V == Views(s)
<1>1. /\ Begun(s) = {w.dal : w \in {x \in V : x.mode # "relate"}}
      /\ Relating(s) = {w.dal : w \in {x \in V : x.mode = "relate"}}
    BY DEF Begun, Relating
<1>2. V = R
    OBVIOUS
<1> HIDE DEF V
<1> QED
    BY <1>1, <1>2 DEF Of

\* ... or the one on top goes through its relationship, has begun ...
LEMMA TopRelates ==
    ASSUME NEW s, NEW R, NEW v, \A w \in R : w.mode = "relate", Views(s) = {v} \cup R, v.mode = "relate"
    PROVE  Begun(s) = {} /\ Relating(s) = {v.dal} \cup Of(R)
<1> DEFINE V == Views(s)
<1>1. /\ Begun(s) = {w.dal : w \in {x \in V : x.mode # "relate"}}
      /\ Relating(s) = {w.dal : w \in {x \in V : x.mode = "relate"}}
    BY DEF Begun, Relating
<1>2. V = {v} \cup R
    OBVIOUS
<1> HIDE DEF V
<1> QED
    BY <1>1, <1>2 DEF Of

LEMMA TopBegins ==
    ASSUME NEW s, NEW R, NEW v, \A w \in R : w.mode = "relate", Views(s) = {v} \cup R, v.mode # "relate"
    PROVE  Begun(s) = {v.dal} /\ Relating(s) = Of(R)
<1> DEFINE V == Views(s)
<1>1. /\ Begun(s) = {w.dal : w \in {x \in V : x.mode # "relate"}}
      /\ Relating(s) = {w.dal : w \in {x \in V : x.mode = "relate"}}
    BY DEF Begun, Relating
<1>2. V = {v} \cup R
    OBVIOUS
<1> HIDE DEF V
<1> QED
    BY <1>1, <1>2 DEF Of

\* ... or has begun for a frame that goes through its own.
LEMMA TopCalls ==
    \A s, R : (\A w \in R : w.mode = "relate") =>
        \A u, v : Views(s) = {u} \cup ({v} \cup R) /\ u.mode # "relate" /\ v.mode = "relate" =>
            Begun(s) = {u.dal} /\ Relating(s) = {v.dal} \cup Of(R)
<1> SUFFICES ASSUME NEW s, NEW R, \A w \in R : w.mode = "relate"
             PROVE  \A u, v : Views(s) = {u} \cup ({v} \cup R) /\ u.mode # "relate" /\ v.mode = "relate" =>
                        Begun(s) = {u.dal} /\ Relating(s) = {v.dal} \cup Of(R)
    OBVIOUS
<1> DEFINE V == Views(s)
<1>1. /\ Begun(s) = {w.dal : w \in {x \in V : x.mode # "relate"}}
      /\ Relating(s) = {w.dal : w \in {x \in V : x.mode = "relate"}}
    BY DEF Begun, Relating
<1> HIDE DEF V
<1>2. ASSUME NEW u, NEW v, V = {u} \cup ({v} \cup R), u.mode # "relate", v.mode = "relate"
      PROVE  Begun(s) = {u.dal} /\ Relating(s) = {v.dal} \cup Of(R)
    BY <1>1, <1>2 DEF Of
<1> QED
    BY <1>2 DEF V

LEMMA BegunNow ==
    ASSUME RefInv, ~Idle
    PROVE  LET R == Views(Tail(call.stack))
           IN  /\ Top.mode = "relate" => Begun(call.stack) = {} /\ Relating(call.stack) = {Top.dal} \cup Of(R)
               /\ Top.mode # "relate" => Begun(call.stack) = {Top.dal} /\ Relating(call.stack) = Of(R)
<1> DEFINE R == Views(Tail(call.stack))
           v == View(Top)
<1>1. Views(call.stack) = {v} \cup R /\ (\A u \in R : u.mode = "relate") /\ v.dal = Top.dal /\ v.mode = Top.mode
    BY ViewsNow DEF View
<1> HIDE DEF R, v
<1>2. /\ v.mode = "relate" => Begun(call.stack) = {} /\ Relating(call.stack) = {v.dal} \cup Of(R)
      /\ v.mode # "relate" => Begun(call.stack) = {v.dal} /\ Relating(call.stack) = Of(R)
    BY <1>1, TopRelates, TopBegins
<1> QED
    BY <1>1, <1>2 DEF R

\* The relationship of a DAL is read before a call is made for one of them.
LEMMA WaitersAreRead ==
    ASSUME RefInv, MirrorInv, ~Idle, call.op \in Storing, ~blurred
    PROVE  \A v \in Views(Tail(call.stack)) : v.dal \in Made(dal) /\ dal[v.dal].lazy = None
<1> DEFINE s == call.stack
<1>1. /\ s \in Seq(Frame) /\ s # <<>> /\ Len(s) \in Nat /\ Len(s) >= 1
      /\ \A n \in 1..Len(s) : s[n].dal \in Made(dal) /\ (n # 1 => s[n].mode = "relate")
    BY Frames
<1>2. \A n \in 1..Len(s) : FrameMirrors(s[n], Above(s, n), call.done, db, dal)
    BY WhileStoring DEF StackMirrors
<1> HIDE DEF s
<1>3. Len(Tail(s)) = Len(s) - 1 /\ \A n \in 1..Len(Tail(s)) : Tail(s)[n] = s[n + 1]
    BY <1>1
<1>4. \A n \in 1..Len(Tail(s)) : n + 1 \in 1..Len(s) /\ n + 1 # 1
    BY <1>1, <1>3
<1>5. ASSUME NEW n \in 1..Len(s), n # 1
      PROVE  dal[s[n].dal].lazy = None
    <2>1. Above(s, n) # {} /\ s[n].mode = "relate"
        BY <1>1, <1>5 DEF Above
    <2> QED
        BY <1>2, <2>1 DEF FrameMirrors
<1>6. ASSUME NEW v \in Views(Tail(s))
      PROVE  v.dal \in Made(dal) /\ dal[v.dal].lazy = None
    <2>1. PICK n \in 1..Len(Tail(s)) : v.dal = Tail(s)[n].dal
        BY DEF Views, View
    <2>2. v.dal = s[n + 1].dal /\ n + 1 \in 1..Len(s) /\ n + 1 # 1
        BY <1>3, <1>4, <2>1
    <2> QED
        BY <1>1, <1>5, <2>2
<1> QED
    BY <1>6 DEF s

\* What was written stays so when relationships are read.
LEMMA WrittenFollows ==
    ASSUME NEW D, NEW P, DalsOK(D, P), NEW E, Follows(D, E), NEW b, NEW e \in Made(D)
    PROVE  /\ Written(b, D, e) => Written(b, E, e)
           /\ \A c : MustWrite(c, E, e) <=> MustWrite(c, D, e)
           /\ D[e].lazy = None => E[e].rel = D[e].rel
<1>1. E[e].id = D[e].id /\ E[e].attr = D[e].attr /\ (D[e].lazy = None => E[e].lazy = None /\ E[e].rel = D[e].rel)
    BY DEF Follows
<1>2. \A x \in D[e].rel : E[x].id = D[x].id
    BY DEF Follows, DalsOK, DalOK
<1>3. NamesIn(E, D[e].rel) = NamesIn(D, D[e].rel)
    BY <1>2 DEF NamesIn
<1> QED
    BY <1>1, <1>3 DEF Written, MustWrite

\* What a piece of a call has to see to
LEMMA WritesOn ==
    ASSUME RefInv, LazyInv, WalkInv, WriteInv, ~Idle, CallNext, RefInv',
           call.op \in Storing, ~blurred, ~blurred', ~Twins(dal', Full(call', dal')), Follows(dal, dal'),
           call'.op = "add" => \A i \in Stores(db)' : call'.before[i] # None \/ call'.done[i] # None,
           \A x \in Made(dal) : Noted(call, dal, x) => Noted(call', dal', x),
           \A v \in Views(call'.stack) : v.mode = "relate" =>
              \/ v \in Views(call.stack) /\ dal[v.dal].lazy = None /\ v.dal \in Made(dal)
              \/ call.recurse => \A x \in dal'[v.dal].rel \ v.todo : Noted(call', dal', x),
           \A i \in Ids : call.done[i] = None /\ call'.done[i] # None =>
              \E e \in Full(call, dal) :
                 dal[e].id = i /\ (e \in Relating(call'.stack) \/ Finished(call', db', dal', e)),
           \A e \in Full(call, dal) : call.done[dal[e].id] # None =>
              /\ e \in Relating(call.stack) => e \in Relating(call'.stack) \/ Finished(call', db', dal', e)
              /\ Written(db, dal, e) => Written(db', dal, e)
    PROVE  WriteInv'
<1>1. /\ KeepsCall(call, call') /\ call.root \in Made(dal)
    BY CallKeepsOp
<1>2. Full(call, dal) \subseteq Full(call', dal') /\ ~Twins(dal, Full(call, dal))
    BY <1>1, PathsNow
<1>3. DalsOK(dal, Stores(db)) /\ Full(call, dal) \subseteq Made(dal)
    <2>1. DalsOK(dal, Stores(db))
        BY DEF RefInv
    <2> QED
        BY <1>1, <2>1, PathsReach
<1>4. /\ Noted(call, dal, call.root)
      /\ \A v \in Views(call.stack) :
            v.mode = "relate" /\ call.recurse => \A x \in dal[v.dal].rel \ v.todo : Noted(call, dal, x)
      /\ \A i \in Ids : call.done[i] # None =>
            \E e \in Full(call, dal) :
               dal[e].id = i /\ (e \in Relating(call.stack) \/ Finished(call, db, dal, e))
    BY <1>2 DEF WriteInv
<1>5. \A e \in Made(dal) : dal'[e].id = dal[e].id
    BY DEF Follows
<1>6. Noted(call', dal', call'.root)
    BY <1>1, <1>4 DEF KeepsCall
<1>7. ASSUME NEW v \in Views(call'.stack), v.mode = "relate", call'.recurse
      PROVE  \A x \in dal'[v.dal].rel \ v.todo : Noted(call', dal', x)
    <2>1. CASE v \in Views(call.stack) /\ dal[v.dal].lazy = None /\ v.dal \in Made(dal)
        <3>1. dal'[v.dal].rel = dal[v.dal].rel /\ dal[v.dal].rel \subseteq Made(dal)
            BY <1>3, <2>1 DEF Follows, DalsOK, DalOK
        <3> QED
            BY <1>1, <1>4, <1>7, <2>1, <3>1 DEF KeepsCall
    <2> QED
        BY <1>1, <1>7, <2>1 DEF KeepsCall
<1>8. ASSUME NEW i \in Ids, call'.done[i] # None
      PROVE  \E e \in Full(call', dal') :
                dal'[e].id = i /\ (e \in Relating(call'.stack) \/ Finished(call', db', dal', e))
    <2>1. CASE call.done[i] = None
        BY <1>2, <1>3, <1>5, <1>8, <2>1
    <2>2. CASE call.done[i] # None
        <3>1. PICK e \in Full(call, dal) :
                 dal[e].id = i /\ (e \in Relating(call.stack) \/ Finished(call, db, dal, e))
            BY <1>4, <2>2
        <3>2. e \in Made(dal) /\ e \in Full(call', dal') /\ dal'[e].id = i
            BY <1>2, <1>3, <1>5, <3>1
        <3>3. CASE e \in Relating(call.stack)
            BY <2>2, <3>1, <3>2, <3>3
        <3>4. CASE Finished(call, db, dal, e)
            <4> SUFFICES ASSUME MustWrite(call', dal', e)
                         PROVE  Written(db', dal', e) /\ (call'.recurse => \A x \in dal'[e].rel : Noted(call', dal', x))
                BY <3>2 DEF Finished
            <4>1. MustWrite(call, dal, e)
                <5>1. MustWrite(call', dal, e)
                    BY <1>3, <3>2, WrittenFollows
                <5> QED
                    BY <1>1, <5>1 DEF MustWrite, KeepsCall
            <4>2. Written(db, dal, e) /\ (call.recurse => \A x \in dal[e].rel : Noted(call, dal, x))
                BY <3>4, <4>1 DEF Finished
            <4>3. Written(db', dal', e)
                <5>1. Written(db', dal, e)
                    BY <2>2, <3>1, <4>2
                <5> QED
                    BY <1>3, <3>2, <5>1, WrittenFollows
            <4>4. dal'[e].rel = dal[e].rel /\ dal[e].rel \subseteq Made(dal)
                <5>1. dal[e].lazy = None
                    BY <4>2 DEF Written
                <5> QED
                    BY <1>3, <3>2, <5>1 DEF Follows, DalsOK, DalOK
            <4> QED
                BY <1>1, <4>2, <4>3, <4>4 DEF KeepsCall
        <3> QED
            BY <3>1, <3>3, <3>4
    <2> QED
        BY <2>1, <2>2
<1>9. call'.op = "add" => \A i \in Stores(db)' : call'.before[i] # None \/ call'.done[i] # None
    OBVIOUS
<1> QED
    BY <1>6, <1>7, <1>8, <1>9 DEF WriteInv

\* A piece of a call that stores, and does not raise
GoesOn ==
    /\ RefInv /\ LazyInv /\ WalkInv /\ MirrorInv /\ WriteInv /\ ~Idle /\ CallNext /\ RefInv'
    /\ call.op \in Storing /\ ~blurred /\ ~blurred' /\ ~Twins(dal', Full(call', dal'))

LEMMA GoingOn ==
    ASSUME GoesOn
    PROVE  /\ ~Raise /\ KeepsCall(call, call') /\ Follows(dal, dal')
           /\ ~Twins(dal, Full(call, dal)) /\ Full(call, dal) \subseteq Made(dal)
           /\ Top.dal \in Full(call, dal) /\ Top.dal \in Made(dal) /\ Name(Top.dal) \in Ids
           /\ FrameMirrors(Top, {}, call.done, db, dal)
           /\ \A n \in Ids : call.done[n] # None => call.done[n] = n /\ \E e \in Made(dal) : dal[e].id = n
           /\ Views(call.stack) = {View(Top)} \cup Views(Tail(call.stack))
           /\ \A v \in Views(Tail(call.stack)) :
                 v \in Views(call.stack) /\ v.dal \in Made(dal) /\ v.mode = "relate" /\ dal[v.dal].lazy = None
           /\ \A e \in Made(dal) : dal'[e].id = dal[e].id
<1> USE DEF GoesOn
<1>1. ~Raise
    BY DEF Raise
<1>2. KeepsCall(call, call') /\ call.root \in Made(dal)
    BY CallKeepsOp
<1>3. Follows(dal, dal')
    BY <1>1, CallReads
<1>4. ~Twins(dal, Full(call, dal))
    BY <1>2, PathsNow
<1>5. DalsOK(dal, Stores(db))
    BY DEF RefInv
<1>6. Full(call, dal) \subseteq Made(dal) /\ Walked(call, dal) \subseteq Full(call, dal)
    BY <1>2, <1>5, PathsReach
<1>7. /\ Views(call.stack) = {View(Top)} \cup Views(Tail(call.stack)) /\ View(Top).dal = Top.dal
      /\ \A v \in Views(Tail(call.stack)) : v.mode = "relate"
      /\ Top.dal \in Made(dal) /\ Name(Top.dal) \in Ids
    BY ViewsNow DEF View
<1>8. Top.dal \in Full(call, dal)
    <2>1. call.op # "none" /\ View(Top) \in Views(call.stack)
        BY <1>7 DEF Storing
    <2> QED
        BY <1>6, <1>7, <2>1 DEF WalkInv
<1>9. FrameMirrors(Top, {}, call.done, db, dal) /\ DoneMirrors(call.done, dal)
    BY WhileStoring
<1>10. \A v \in Views(Tail(call.stack)) : v.dal \in Made(dal) /\ dal[v.dal].lazy = None
    BY WaitersAreRead
<1>11. \A e \in Made(dal) : dal'[e].id = dal[e].id
    BY <1>3 DEF Follows
<1> QED
    BY <1>1, <1>2, <1>3, <1>4, <1>6, <1>7, <1>8, <1>9, <1>10, <1>11 DEF DoneMirrors

\* The database stays as it is: there is no more to see to than what is noted.
LEMMA WritesNothing ==
    ASSUME GoesOn, UNCHANGED db,
           \A i \in Ids : call.done[i] # None => call'.done[i] # None,
           Begun(call.stack) \subseteq Begun(call'.stack) \cup {Top.dal},
           Top.dal \in Begun(call.stack) \ Begun(call'.stack) => call'.done[Name(Top.dal)] # None,
           Of(Views(Tail(call.stack))) \subseteq Relating(call'.stack),
           Top.mode = "relate" => Top.dal \in Relating(call'.stack) \/ Finished(call', db', dal', Top.dal),
           \A v \in Views(call'.stack) : v.mode = "relate" =>
              \/ v \in Views(Tail(call.stack))
              \/ call.recurse => \A x \in dal'[v.dal].rel \ v.todo : Noted(call', dal', x),
           \A i \in Ids : call.done[i] = None /\ call'.done[i] # None =>
              i = Name(Top.dal) /\ (Top.dal \in Relating(call'.stack) \/ Finished(call', db', dal', Top.dal))
    PROVE  WriteInv'
<1> DEFINE d == Top.dal
           rest == Views(Tail(call.stack))
<1>1. /\ KeepsCall(call, call') /\ Follows(dal, dal') /\ ~Twins(dal, Full(call, dal))
      /\ Full(call, dal) \subseteq Made(dal) /\ d \in Full(call, dal) /\ d \in Made(dal) /\ Name(d) \in Ids
      /\ \A v \in rest : v \in Views(call.stack) /\ v.dal \in Made(dal) /\ v.mode = "relate" /\ dal[v.dal].lazy = None
      /\ \A e \in Made(dal) : dal'[e].id = dal[e].id
    BY GoingOn
<1>2. \A e \in Made(dal) : dal[e].id \in Ids
    BY DEF GoesOn, RefInv, DalsOK, DalOK, DalObject
<1>3. RefInv /\ ~Idle /\ WriteInv /\ call.op \in Storing /\ ~blurred
    BY DEF GoesOn
<1>4. Relating(call.stack) \subseteq {d} \cup Of(rest) /\ (Top.mode # "relate" => Relating(call.stack) = Of(rest))
    BY <1>3, BegunNow
<1> HIDE DEF d, rest
<1>5. call'.op = "add" => \A i \in Stores(db)' : call'.before[i] # None \/ call'.done[i] # None
    <2>1. call.op = "add" => \A i \in Stores(db) : call.before[i] # None \/ call.done[i] # None
        BY <1>1, <1>3 DEF WriteInv
    <2>2. Stores(db)' = Stores(db) /\ Stores(db) \subseteq Ids
        BY DEF Stores
    <2> QED
        BY <1>1, <2>1, <2>2 DEF KeepsCall
<1>6. \A x \in Made(dal) : Noted(call, dal, x) => Noted(call', dal', x)
    BY <1>1, <1>2 DEF Noted, d, Name
<1>7. \A v \in Views(call'.stack) : v.mode = "relate" =>
         \/ v \in Views(call.stack) /\ dal[v.dal].lazy = None /\ v.dal \in Made(dal)
         \/ call.recurse => \A x \in dal'[v.dal].rel \ v.todo : Noted(call', dal', x)
    BY <1>1 DEF rest
<1>8. \A i \in Ids : call.done[i] = None /\ call'.done[i] # None =>
         \E e \in Full(call, dal) :
            dal[e].id = i /\ (e \in Relating(call'.stack) \/ Finished(call', db', dal', e))
    BY <1>1 DEF d, Name
<1>9. \A e \in Full(call, dal) : call.done[dal[e].id] # None =>
         /\ e \in Relating(call.stack) => e \in Relating(call'.stack) \/ Finished(call', db', dal', e)
         /\ Written(db, dal, e) => Written(db', dal, e)
    <2>1. \A e \in Relating(call.stack) : e \in Relating(call'.stack) \/ Finished(call', db', dal', e)
        BY <1>4 DEF d, rest
    <2> QED
        BY <2>1
<1> QED
    BY <1>1, <1>5, <1>6, <1>7, <1>8, <1>9, WritesOn DEF GoesOn

\* A call ends without a change of its own: nothing had to be written.
LEMMA LeavesUnwritten ==
    ASSUME GoesOn, UNCHANGED db, Leave(Name(Top.dal)), ~MustWrite(call, dal, Top.dal)
    PROVE  WriteInv'
<1> DEFINE d == Top.dal
           rest == Views(Tail(call.stack))
<1>1. /\ KeepsCall(call, call') /\ d \in Made(dal) /\ Name(d) \in Ids /\ dal'[d].id = dal[d].id
      /\ \A v \in rest : v.mode = "relate"
    BY GoingOn
<1>2. /\ Views(call'.stack) = rest
      /\ \A j \in Ids : call'.done[j] = IF j = Name(d) THEN Name(d) ELSE call.done[j]
    BY LeftShape DEF GoesOn
<1>3. Name(d) # None
    BY <1>1, NoneIsNoRecord
<1>4. Begun(call'.stack) = {} /\ Relating(call'.stack) = Of(rest) /\ Begun(call.stack) \subseteq {d}
    BY <1>1, <1>2, OnlyWaiting, BegunNow DEF GoesOn
<1>5. Finished(call', db', dal', d)
    BY <1>1 DEF Finished, MustWrite, KeepsCall
<1> HIDE DEF d, rest
<1>6. \A i \in Ids : call.done[i] # None => call'.done[i] # None
    BY <1>2, <1>3
<1>7. call'.done[Name(d)] # None
    BY <1>1, <1>2, <1>3
<1>8. \A i \in Ids : call.done[i] = None /\ call'.done[i] # None => i = Name(d)
    BY <1>2
<1> QED
    BY <1>2, <1>4, <1>5, <1>6, <1>7, <1>8, WritesNothing DEF d, rest

LEMMA AddExistingWrites ==
    ASSUME GoesOn, AddExisting
    PROVE  WriteInv'
<1> DEFINE i == Name(Top.dal)
<1>1. call.op = "add" /\ Top.mode = "begin" /\ i \in Stores(db) /\ Leave(i) /\ UNCHANGED db
    BY AliveAreMade DEF AddExisting, In
<1>2. call.done[i] = None
    BY <1>1, GoingOn DEF FrameMirrors, Name
<1>3. call.before[i] # None
    <2>1. ~Twins(dal, Full(call, dal))
        BY GoingOn
    <2>2. \A j \in Stores(db) : call.before[j] # None \/ call.done[j] # None
        BY <1>1, <2>1 DEF GoesOn, WriteInv
    <2> QED
        BY <1>1, <1>2, <2>2
<1>4. ~MustWrite(call, dal, Top.dal)
    BY <1>1, <1>3 DEF MustWrite, Name
<1> QED
    BY <1>1, <1>4, LeavesUnwritten

LEMMA RefusedWrites ==
    ASSUME GoesOn, Refused, Name(Top.dal) \in ReadOnly, UNCHANGED db
    PROVE  WriteInv'
<1>1. call.ignore /\ Leave(Name(Top.dal))
    BY GoingOn DEF Refused
<1>2. call.op = "update"
    BY <1>1 DEF GoesOn, WalkInv, Storing
<1>3. ~MustWrite(call, dal, Top.dal)
    BY <1>2 DEF MustWrite, Name
<1> QED
    BY <1>1, <1>3, LeavesUnwritten

LEMMA NoRenameWrites ==
    ASSUME GoesOn, NoRename
    PROVE  WriteInv'
<1> DEFINE d == Top.dal
           rest == Views(Tail(call.stack))
           v == [dal |-> d, mode |-> "open", todo |-> Top.todo]
<1>1. call'.done = call.done /\ Views(call'.stack) = {v} \cup rest
    BY NoRenameShape DEF GoesOn
<1>2. UNCHANGED db /\ Top.mode = "begin" /\ v.dal = d /\ v.mode = "open" /\ \A u \in rest : u.mode = "relate"
    BY GoingOn DEF NoRename, In
<1>3. Begun(call.stack) = {d}
    BY <1>2, BegunNow DEF GoesOn
<1> HIDE DEF v, rest, d
<1>4. Begun(call'.stack) = {d} /\ Relating(call'.stack) = Of(rest)
    BY <1>1, <1>2, TopBegins
<1>5. \A u \in Views(call'.stack) : u.mode = "relate" => u \in rest
    BY <1>1, <1>2
<1> QED
    BY <1>1, <1>2, <1>3, <1>4, <1>5, WritesNothing DEF d, rest

LEMMA RelateWrites ==
    ASSUME GoesOn, Relate
    PROVE  WriteInv'
<1> DEFINE d == Top.dal
           rest == Views(Tail(call.stack))
           v == [dal |-> d, mode |-> "relate", todo |-> dal'[d].rel]
<1>1. call'.done = call.done /\ Views(call'.stack) = {v} \cup rest
    BY RelateShape, GoingOn DEF GoesOn
<1>2. UNCHANGED db /\ Top.mode = "relate" /\ v.dal = d /\ v.mode = "relate" /\ \A u \in rest : u.mode = "relate"
    BY GoingOn DEF Relate, In
<1>3. Begun(call.stack) = {}
    BY <1>2, BegunNow DEF GoesOn
<1>4. dal'[v.dal].rel \ v.todo = {}
    OBVIOUS
<1> HIDE DEF v, rest, d
<1>5. Begun(call'.stack) = {} /\ Relating(call'.stack) = {d} \cup Of(rest)
    BY <1>1, <1>2, TopRelates
<1>6. \A u \in Views(call'.stack) : u.mode = "relate" =>
          \/ u \in rest
          \/ call.recurse => \A x \in dal'[u.dal].rel \ u.todo : Noted(call', dal', x)
    BY <1>1, <1>4
<1> QED
    BY <1>1, <1>2, <1>3, <1>5, <1>6, WritesNothing DEF d, rest

LEMMA RelatedWrites ==
    ASSUME GoesOn, NEW e \in Alive, Related(e)
    PROVE  WriteInv'
<1> DEFINE d == Top.dal
           rest == Views(Tail(call.stack))
           v == [dal |-> d, mode |-> "relate", todo |-> Top.todo \ {e}]
           u == [dal |-> e, mode |-> "begin", todo |-> {}]
<1>1. /\ UNCHANGED <<db, dal>> /\ Top.mode = "relate" /\ e \in Made(dal)
      /\ \A w \in rest : w.mode = "relate"
    BY GoingOn, AliveAreMade DEF Related, In
<1>2. /\ call'.done = call.done
      /\ \/ Views(call'.stack) = {v} \cup rest /\ (call.done[Name(e)] # None \/ ~call.recurse)
         \/ Views(call'.stack) = {u} \cup ({v} \cup rest) /\ call.recurse
    BY RelatedShape DEF GoesOn
<1>3. /\ v.dal = d /\ v.mode = "relate" /\ u.dal = e /\ u.mode = "begin"
      /\ \A x \in dal[v.dal].rel \ v.todo : x = e \/ x \in dal[d].rel \ Top.todo
    OBVIOUS
<1>4. Begun(call.stack) = {}
    BY <1>1, BegunNow DEF GoesOn
<1>5. View(Top).dal = d /\ View(Top).mode = "relate" /\ View(Top).todo = Top.todo /\ View(Top) \in Views(call.stack)
    BY <1>1, ViewsNow DEF View, GoesOn
<1>6. call.recurse => \A x \in dal[d].rel \ Top.todo : Noted(call, dal, x)
    <2>1. ~Twins(dal, Full(call, dal))
        BY GoingOn
    <2> QED
        BY <1>5, <2>1 DEF GoesOn, WriteInv
<1> HIDE DEF v, u, rest, d
<1>7. Relating(call'.stack) = {d} \cup Of(rest) /\ (call.recurse => Noted(call', dal', e))
    <2>1. CASE Views(call'.stack) = {v} \cup rest /\ (call.done[Name(e)] # None \/ ~call.recurse)
        <3>1. \A w \in rest : w.mode = "relate"
            BY <1>1
        <3>2. Relating(call'.stack) = {d} \cup Of(rest)
            BY <1>3, <2>1, <3>1, TopRelates
        <3>3. call.recurse => Noted(call', dal', e)
            BY <1>1, <1>2, <2>1 DEF Noted, Name
        <3> QED
            BY <3>2, <3>3
    <2>2. CASE Views(call'.stack) = {u} \cup ({v} \cup rest)
        <3>1. \A w \in rest : w.mode = "relate"
            BY <1>1
        <3>2. Begun(call'.stack) = {e} /\ Relating(call'.stack) = {d} \cup Of(rest)
            BY <1>3, <2>2, <3>1, TopCalls
        <3> QED
            BY <1>3, <3>2 DEF Noted
    <2> QED
        BY <1>2, <2>1, <2>2
<1>8. \A x : Noted(call, dal, x) => Noted(call', dal', x)
    BY <1>1, <1>2, <1>4 DEF Noted
<1>9. call.recurse => \A x \in dal'[v.dal].rel \ v.todo : Noted(call', dal', x)
    BY <1>1, <1>3, <1>6, <1>7, <1>8
<1>10. \A w \in Views(call'.stack) : w.mode = "relate" =>
          \/ w \in rest
          \/ call.recurse => \A x \in dal'[w.dal].rel \ w.todo : Noted(call', dal', x)
    BY <1>2, <1>3, <1>9
<1> QED
    BY <1>1, <1>2, <1>4, <1>7, <1>10, WritesNothing DEF d, rest

\* The object of the DAL on top is there from now on, and no other has changed.
LEMMA OpenWrites ==
    ASSUME GoesOn, Open
    PROVE  WriteInv'
<1> DEFINE d == Top.dal
           i == Name(d)
           rest == Views(Tail(call.stack))
           v == [dal |-> d, mode |-> "relate", todo |-> dal[d].rel]
<1>1. /\ KeepsCall(call, call') /\ Follows(dal, dal') /\ ~Twins(dal, Full(call, dal))
      /\ Full(call, dal) \subseteq Made(dal) /\ d \in Full(call, dal) /\ d \in Made(dal) /\ i \in Ids
      /\ \A u \in rest : u \in Views(call.stack) /\ u.dal \in Made(dal) /\ u.mode = "relate" /\ dal[u.dal].lazy = None
      /\ FrameMirrors(Top, {}, call.done, db, dal)
    BY GoingOn
<1>2. /\ Views(call'.stack) = {v} \cup rest
      /\ \A j \in Ids : call'.done[j] = IF j = i THEN j ELSE call.done[j]
    BY OpenShape DEF GoesOn
<1>3. UNCHANGED dal /\ Top.mode # "relate" /\ (\A j \in Ids : j # i => db'[j] = db[j])
    BY DEF Open, In, GoesOn, RefInv, DbOK
<1>4. call.done[i] = None /\ i # None
    BY <1>1, <1>3, NoneIsNoRecord DEF FrameMirrors, Name
<1>5. Begun(call.stack) = {d} /\ Relating(call.stack) = Of(rest)
    BY <1>3, BegunNow DEF GoesOn
<1>6. v.dal = d /\ v.mode = "relate" /\ dal'[v.dal].rel \ v.todo = {}
    BY <1>3
<1>7. \A e \in Made(dal) : dal[e].id \in Ids
    BY DEF GoesOn, RefInv, DalsOK, DalOK, DalObject
<1>8. dal[d].id = i
    BY DEF Name
<1> HIDE DEF v, rest, d, i
<1>9. Begun(call'.stack) = {} /\ Relating(call'.stack) = {d} \cup Of(rest)
    <2>1. v.dal = d /\ v.mode = "relate" /\ Views(call'.stack) = {v} \cup rest /\ \A u \in rest : u.mode = "relate"
        BY <1>1, <1>2, <1>6
    <2>2. Begun(call'.stack) = {} /\ Relating(call'.stack) = {v.dal} \cup Of(rest)
        BY <2>1, TopRelates
    <2> QED
        BY <2>1, <2>2
<1>10. call'.op = "add" => \A j \in Stores(db)' : call'.before[j] # None \/ call'.done[j] # None
    <2>1. call.op = "add" => \A j \in Stores(db) : call.before[j] # None \/ call.done[j] # None
        BY <1>1 DEF GoesOn, WriteInv
    <2>2. \A j \in Stores(db)' : j \in Ids /\ (j = i \/ j \in Stores(db))
        BY <1>3 DEF Stores
    <2> QED
        BY <1>1, <1>2, <1>4, <2>1, <2>2 DEF KeepsCall
<1>11. \A x \in Made(dal) : Noted(call, dal, x) => Noted(call', dal', x)
    BY <1>2, <1>3, <1>4, <1>5, <1>7, <1>8 DEF Noted
<1>12. \A u \in Views(call'.stack) : u.mode = "relate" =>
          \/ u \in Views(call.stack) /\ dal[u.dal].lazy = None /\ u.dal \in Made(dal)
          \/ call.recurse => \A x \in dal'[u.dal].rel \ u.todo : Noted(call', dal', x)
    BY <1>1, <1>2, <1>6
<1>13. \A j \in Ids : call.done[j] = None /\ call'.done[j] # None =>
          \E e \in Full(call, dal) :
             dal[e].id = j /\ (e \in Relating(call'.stack) \/ Finished(call', db', dal', e))
    BY <1>1, <1>2, <1>8, <1>9
<1>14. \A e \in Full(call, dal) : call.done[dal[e].id] # None =>
          /\ e \in Relating(call.stack) => e \in Relating(call'.stack) \/ Finished(call', db', dal', e)
          /\ Written(db, dal, e) => Written(db', dal, e)
    <2> SUFFICES ASSUME NEW e \in Full(call, dal), call.done[dal[e].id] # None
                 PROVE  Written(db, dal, e) => Written(db', dal, e)
        BY <1>5, <1>9
    <2>1. dal[e].id \in Ids /\ dal[e].id # i
        BY <1>1, <1>4, <1>7
    <2>2. db'[dal[e].id] = db[dal[e].id]
        BY <1>3, <2>1
    <2> QED
        BY <2>2 DEF Written, Stores
<1> QED
    BY <1>1, <1>10, <1>11, <1>12, <1>13, <1>14, WritesOn DEF GoesOn

\* The relationship of the DAL on top is written whole.
LEMMA StoreWrites ==
    ASSUME GoesOn, Store
    PROVE  WriteInv'
<1> DEFINE d == Top.dal
           i == Name(d)
           rest == Views(Tail(call.stack))
<1>1. /\ KeepsCall(call, call') /\ Follows(dal, dal') /\ ~Twins(dal, Full(call, dal))
      /\ Full(call, dal) \subseteq Made(dal) /\ d \in Full(call, dal) /\ d \in Made(dal) /\ i \in Ids
      /\ \A u \in rest : u \in Views(call.stack) /\ u.dal \in Made(dal) /\ u.mode = "relate" /\ dal[u.dal].lazy = None
      /\ FrameMirrors(Top, {}, call.done, db, dal)
    BY GoingOn
<1>2. UNCHANGED dal /\ Top.mode = "relate" /\ dal[d].lazy = None /\ Top.todo = {}
    BY DEF Store, In, IsRead
<1>3. /\ Top.obj = i /\ call.done[i] # None /\ dal[d].attr \in {None, db[i].attr}
      /\ Top.val = NamesIn(dal, dal[d].rel)
    <2>1. (dal[d].rel \ Top.todo) \ {} = dal[d].rel
        BY <1>2
    <2> QED
        BY <1>1, <1>2, <2>1 DEF FrameMirrors, Name
<1>4. CASE i \in ReadOnly
    BY <1>3, <1>4, RefusedWrites DEF Store
<1>5. CASE i \notin ReadOnly
    <2>1. Leave(i) /\ db' = [db EXCEPT ![i].rel = Top.val]
        BY <1>3, <1>5 DEF Store
    <2>2. /\ Views(call'.stack) = rest
          /\ \A j \in Ids : call'.done[j] = IF j = i THEN i ELSE call.done[j]
        BY <2>1, LeftShape DEF GoesOn
    <2>3. Begun(call.stack) = {} /\ Relating(call.stack) = {d} \cup Of(rest)
        BY <1>2, BegunNow DEF GoesOn
    <2>4. /\ i \in Stores(db) /\ db[i] \in Object /\ \A j \in Ids : j # i => db'[j] = db[j]
        <3>1. i \in Stores(db)
            BY <1>2, <1>3, Frames DEF GoesOn
        <3> QED
            BY <2>1, <3>1 DEF GoesOn, RefInv, DbOK, Stores
    <2>5. db'[i].attr = db[i].attr /\ db'[i].rel = Top.val /\ i \in Stores(db)'
        <3>1. db'[i] = [db[i] EXCEPT !.rel = Top.val]
            BY <1>1, <2>1 DEF GoesOn, RefInv, DbOK
        <3>2. Top.val \in SUBSET Ids
            BY ViewsNow DEF GoesOn, Frame
        <3>3. db'[i] \in Object /\ db'[i].attr = db[i].attr /\ db'[i].rel = Top.val
            BY <2>4, <3>1, <3>2 DEF Object
        <3> QED
            BY <1>1, <3>3, NoneIsNoRecord DEF Stores
    <2>6. \A e \in Made(dal) : dal[e].id \in Ids
        BY DEF GoesOn, RefInv, DalsOK, DalOK, DalObject
    <2>7. dal[d].id = i /\ i # None
        BY <1>1, NoneIsNoRecord DEF Name
    <2>8. call.recurse => \A x \in dal[d].rel : Noted(call, dal, x)
        <3>1. View(Top).dal = d /\ View(Top).mode = "relate" /\ View(Top).todo = {} /\ View(Top) \in Views(call.stack)
            BY <1>2, ViewsNow DEF View, GoesOn
        <3>2. dal[d].rel \ {} = dal[d].rel
            OBVIOUS
        <3> QED
            BY <1>1, <3>1, <3>2 DEF GoesOn, WriteInv
    <2> HIDE DEF rest, d, i
    <2>9. Begun(call'.stack) = {} /\ Relating(call'.stack) = Of(rest)
        BY <1>1, <2>2, OnlyWaiting
    <2>10. \A j \in Ids : call'.done[j] # None <=> call.done[j] # None
        BY <1>3, <2>2, <2>7
    <2>11. \A x \in Made(dal) : Noted(call, dal, x) => Noted(call', dal', x)
        BY <1>2, <2>3, <2>6, <2>10 DEF Noted
    <2>12. call'.op = "add" => \A j \in Stores(db)' : call'.before[j] # None \/ call'.done[j] # None
        <3>1. call.op = "add" => \A j \in Stores(db) : call.before[j] # None \/ call.done[j] # None
            BY <1>1 DEF GoesOn, WriteInv
        <3>2. \A j \in Stores(db)' : j \in Ids /\ j \in Stores(db)
            BY <2>4 DEF Stores
        <3> QED
            BY <1>1, <2>10, <3>1, <3>2 DEF KeepsCall
    <2>13. \A u \in Views(call'.stack) : u.mode = "relate" =>
              \/ u \in Views(call.stack) /\ dal[u.dal].lazy = None /\ u.dal \in Made(dal)
              \/ call.recurse => \A x \in dal'[u.dal].rel \ u.todo : Noted(call', dal', x)
        BY <1>1, <2>2
    <2>14. \A j \in Ids : call.done[j] = None /\ call'.done[j] # None =>
              \E e \in Full(call, dal) :
                 dal[e].id = j /\ (e \in Relating(call'.stack) \/ Finished(call', db', dal', e))
        BY <2>10
    <2>15. Written(db', dal, d)
        BY <1>2, <1>3, <2>5, <2>7 DEF Written, Stores
    <2>16. Finished(call', db', dal', d)
        <3>1. dal[d].rel \subseteq Made(dal)
            BY <1>1 DEF GoesOn, RefInv, DalsOK, DalOK
        <3>2. dal' = dal
            BY <1>2
        <3>3. call'.recurse => \A x \in dal[d].rel : Noted(call', dal', x)
            BY <1>1, <2>8, <2>11, <3>1 DEF KeepsCall
        <3> QED
            BY <2>15, <3>2, <3>3 DEF Finished
    <2>17. \A e \in Full(call, dal) : call.done[dal[e].id] # None =>
              /\ e \in Relating(call.stack) => e \in Relating(call'.stack) \/ Finished(call', db', dal', e)
              /\ Written(db, dal, e) => Written(db', dal, e)
        <3> SUFFICES ASSUME NEW e \in Full(call, dal), Written(db, dal, e)
                     PROVE  Written(db', dal, e)
            BY <2>3, <2>9, <2>16
        <3>1. CASE dal[e].id = i
            <4>1. e = d
                BY <1>1, <2>7, <3>1 DEF Twins
            <4> QED
                BY <2>15, <4>1
        <3>2. CASE dal[e].id # i
            <4>1. db'[dal[e].id] = db[dal[e].id]
                BY <1>1, <2>4, <2>6, <3>2
            <4> QED
                BY <4>1 DEF Written, Stores
        <3> QED
            BY <3>1, <3>2
    <2> QED
        BY <1>1, <2>11, <2>12, <2>13, <2>14, <2>17, WritesOn DEF GoesOn
<1> QED
    BY <1>4, <1>5

\* Objects and handles follow the renaming, and no DAL the call goes on with has
\* the old name.
LEMMA RenameWrites ==
    ASSUME GoesOn, RenameStored
    PROVE  WriteInv'
<1> DEFINE d == Top.dal
           old == dal[d].old
           new == Name(d)
           rest == Views(Tail(call.stack))
           v == [dal |-> d, mode |-> "open", todo |-> Top.todo]
<1>1. /\ KeepsCall(call, call') /\ Follows(dal, dal') /\ ~Twins(dal, Full(call, dal))
      /\ Full(call, dal) \subseteq Made(dal) /\ d \in Full(call, dal) /\ d \in Made(dal) /\ new \in Ids
      /\ \A u \in rest : u \in Views(call.stack) /\ u.dal \in Made(dal) /\ u.mode = "relate" /\ dal[u.dal].lazy = None
      /\ \A n \in Ids : call.done[n] # None => call.done[n] = n /\ \E e \in Made(dal) : dal[e].id = n
      /\ \A e \in Made(dal) : dal'[e].id = dal[e].id
    BY GoingOn
<1>2. /\ old \in Stores(db) /\ old \in Ids /\ new \notin Stores(db) /\ old # new
      /\ \A j \in Stores(db) \ {old} :
            db'[j].attr = db[j].attr /\ db'[j].rel = Renamed(db[j].rel, old, new)
    BY RenameChanges DEF GoesOn
<1>3. \A j \in Stores(db) \ {old} : j \in Stores(db)'
    BY RenamedStay DEF GoesOn
<1>4. /\ call.op = "update" /\ Top.mode = "begin"
      /\ \A e \in Alive \ {d} : Name(e) # old
    BY DEF RenameStored, In, GoesOn
<1>5. \A e \in Made(dal) : dal[e].id # old /\ dal[e].id \in Ids
    <2>1. \A e \in Made(dal) : dal[e].id \in Ids
        BY DEF GoesOn, RefInv, DalsOK, DalOK, DalObject
    <2> QED
        BY <1>2, <1>4, <2>1, AliveAreMade DEF Name
<1>6. Views(call'.stack) = {v} \cup rest
    BY RenamedViews DEF GoesOn
<1>7. \A i \in Ids : call'.done[i] = IF call.done[i] = old THEN new ELSE call.done[i]
    BY RenameStack DEF GoesOn
<1>8. Begun(call.stack) = {d} /\ Relating(call.stack) = Of(rest)
    BY <1>4, BegunNow DEF GoesOn
<1>9. v.dal = d /\ v.mode = "open"
    OBVIOUS
<1> HIDE DEF v, rest, d, old, new
<1>10. Begun(call'.stack) = {d} /\ Relating(call'.stack) = Of(rest)
    <2>1. \A u \in rest : u.mode = "relate"
        BY <1>1
    <2> QED
        BY <1>6, <1>9, <2>1, TopBegins
<1>11. \A i \in Ids : call'.done[i] = call.done[i]
    <2> SUFFICES ASSUME NEW i \in Ids, call.done[i] = old
                 PROVE  FALSE
        BY <1>7
    <2>1. call.done[i] # None
        BY <1>2, NoneIsNoRecord
    <2>2. \E e \in Made(dal) : dal[e].id = old
        BY <1>1, <2>1
    <2> QED
        BY <1>5, <2>2
<1>12. \A x \in Made(dal) : Noted(call, dal, x) => Noted(call', dal', x)
    BY <1>1, <1>5, <1>8, <1>10, <1>11 DEF Noted
<1>13. call'.op # "add"
    BY <1>1, <1>4 DEF KeepsCall
<1>14. \A u \in Views(call'.stack) : u.mode = "relate" =>
          u \in Views(call.stack) /\ dal[u.dal].lazy = None /\ u.dal \in Made(dal)
    BY <1>1, <1>6, <1>9
<1>15. ASSUME NEW e \in Full(call, dal), Written(db, dal, e)
       PROVE  Written(db', dal, e)
    <2> DEFINE j == dal[e].id
    <2>1. j \in Stores(db) \ {old} /\ dal[e].attr \in {None, db[j].attr} /\ dal[e].lazy = None
          /\ db[j].rel = NamesIn(dal, dal[e].rel)
        BY <1>1, <1>5, <1>15 DEF Written
    <2>2. db'[j].attr = db[j].attr /\ db'[j].rel = Renamed(db[j].rel, old, new) /\ j \in Stores(db)'
        BY <1>2, <1>3, <2>1
    <2>3. dal[e].rel \subseteq Made(dal)
        BY <1>1 DEF GoesOn, RefInv, DalsOK, DalOK
    <2>4. old \notin db[j].rel
        BY <1>5, <2>1, <2>3 DEF NamesIn
    <2>5. Renamed(db[j].rel, old, new) = db[j].rel
        BY <2>4 DEF Renamed
    <2> QED
        BY <2>1, <2>2, <2>5 DEF Written, Stores
<1>16. \A i \in Ids : call.done[i] = None => call'.done[i] = None
    BY <1>11
<1>17. \A e \in Relating(call.stack) : e \in Relating(call'.stack)
    BY <1>8, <1>10
<1> QED
    BY <1>1, <1>12, <1>13, <1>14, <1>15, <1>16, <1>17, WritesOn DEF GoesOn

LEMMA CallWrites ==
    ASSUME RefInv, LazyInv, WalkInv, MirrorInv, WriteInv, ~Idle, CallNext, RefInv'
    PROVE  WriteInv'
<1> SUFFICES ASSUME call'.op \in Storing, ~blurred', ~Twins(dal', Full(call', dal'))
             PROVE  WriteInv'
    BY DEF WriteInv
<1>1. ~blurred
    BY DEF CallNext, RenameStored, RenameFails, NoRename, AddExisting, Open, OpenRefused, Relate, Related,
           RelatedFails, Store, Visit, Descend, Refused, Raise
<1>2. GoesOn /\ ~(Visit \/ Descend)
    BY <1>1, CallKeepsOp DEF GoesOn, Storing
<1>3. ~Raise
    BY <1>2, GoingOn
<1>4. CASE OpenRefused
    BY <1>2, <1>4, RefusedWrites DEF OpenRefused
<1> QED
    BY <1>2, <1>3, <1>4, RenameWrites, NoRenameWrites, AddExistingWrites, OpenWrites, RelateWrites,
       RelatedWrites, StoreWrites DEF CallNext, RenameFails, RelatedFails

LEMMA WriteInvariant == Spec => []WriteInv
<1>1. RefInv /\ LazyInv /\ WalkInv /\ MirrorInv /\ RefInv' /\ WriteInv /\ [Next]_vars => WriteInv'
    <2> SUFFICES ASSUME RefInv, LazyInv, WalkInv, MirrorInv, RefInv', WriteInv, [Next]_vars
                 PROVE  WriteInv'
        OBVIOUS
    <2>1. CASE ClientNext
        <3> SUFFICES ASSUME Started(call'), UNCHANGED db
                     PROVE  WriteInv'
            BY <2>1, ClientCalls DEF WriteInv, Storing
        <3> DEFINE v == [dal |-> call'.root, mode |-> "begin", todo |-> {}]
        <3>1. Views(call'.stack) = {v} /\ v.dal = call'.root /\ v.mode = "begin"
            BY DEF Started
        <3> HIDE DEF v
        <3>2. call'.root \in Begun(call'.stack)
            BY <3>1 DEF Begun
        <3>3. (\A i \in Ids : call'.done[i] = None) /\ (\A i \in Stores(db)' : call'.before[i] # None)
            BY DEF Started, Stores
        <3>4. \A u \in Views(call'.stack) : u.mode # "relate"
            BY <3>1
        <3> QED
            BY <3>2, <3>3, <3>4 DEF WriteInv, Noted
    <2>2. CASE ~Idle /\ CallNext
        BY <2>2, CallWrites
    <2>3. CASE UNCHANGED vars
        BY <2>3 DEF vars, WriteInv
    <2> QED
        BY <2>1, <2>2, <2>3 DEF Next
<1>2. Init => WriteInv
    BY NoneYet DEF WriteInv, Storing
<1> QED
    BY <1>1, <1>2, RefInvariant, LazyInvariant, WalkInvariant, MirrorInvariant, PTL DEF Spec

\* When update_dal or add_dal returns, every DAL it had to write has its object, with
\* its attribute and the names of the DALs it is related to, and its handles are
\* read: through cycles, renamed objects and objects met twice, unless two of the
\* DALs that are related have one name.
THEOREM CallStoresCorrect == Spec => []CallStores
<1>1. RefInv /\ WalkInv /\ WriteInv => CallStores
    <2> DEFINE F == Full(call, dal)
               V == {e \in F : call.done[dal[e].id] # None}
               W == {e \in Alive : IF call.op = "update" THEN Name(e) \notin ReadOnly
                                                          ELSE call.before[Name(e)] = None}
    <2> SUFFICES ASSUME RefInv, WalkInv, WriteInv, Over(Storing), ~blurred, NoTwins(Reach(call.root, Alive)),
                        NEW e \in ToWrite
                 PROVE  /\ Name(e) \in Present
                        /\ dal[e].attr \in {None, db[Name(e)].attr}
                        /\ dal[e].lazy = None
                        /\ db[Name(e)].rel = Names(dal[e].rel)
        BY DEF CallStores
    <2>1. call.op \in Storing /\ call.op # "none" /\ Views(call.stack) = {}
        BY NoViews DEF Over, Idle, Storing
    <2>2. ~Twins(dal, F)
        <3>1. Reach(call.root, Alive) = F
            BY ReachIsAlong, AliveAreMade DEF Full
        <3> QED
            BY <3>1 DEF NoTwins, Twins, Name
    <2>3. /\ call.root \in F /\ F \subseteq Made(dal)
          /\ \A f \in F : dal[f].rel \subseteq F
        <3>1. call.root \in Made(dal) /\ DalsOK(dal, Stores(db))
            BY <2>1 DEF WalkInv, RefInv
        <3> QED
            BY <3>1, PathsReach
    <2>4. Begun(call.stack) = {} /\ Relating(call.stack) = {}
        BY <2>1 DEF Begun, Relating
    <2>5. /\ Noted(call, dal, call.root)
          /\ \A i \in Ids : call.done[i] # None =>
                \E f \in F : dal[f].id = i /\ (f \in Relating(call.stack) \/ Finished(call, db, dal, f))
        BY <2>1, <2>2 DEF WriteInv
    <2>6. \A f \in Made(dal) : dal[f].id \in Ids
        BY DEF RefInv, DalsOK, DalOK, DalObject
    <2> HIDE DEF F
    <2>7. \A f \in V : Finished(call, db, dal, f)
        <3> SUFFICES ASSUME NEW f \in V
                     PROVE  Finished(call, db, dal, f)
            OBVIOUS
        <3>1. PICK g \in F : dal[g].id = dal[f].id /\ Finished(call, db, dal, g)
            BY <2>3, <2>4, <2>5, <2>6
        <3> QED
            BY <2>2, <3>1 DEF Twins
    <2>8. call.root \in V
        BY <2>3, <2>4, <2>5 DEF Noted
    <2>9. \A f \in W : MustWrite(call, dal, f)
        BY DEF MustWrite, Name
    <2>10. e \in W /\ e \in Along(dal, call.root, IF call.recurse THEN W ELSE {})
        BY ReachIsAlong DEF ToWrite
    <2> HIDE DEF V, W
    <2>11. e \in V
        <3>1. Closed(dal, IF call.recurse THEN W ELSE {}, V)
            <4>1. CASE call.recurse
                <5>1. \A f \in V \cap W : \A x \in dal[f].rel : x \in F /\ Noted(call, dal, x)
                    BY <2>3, <2>7, <2>9, <4>1 DEF Finished, V
                <5>2. \A f \in V \cap W : dal[f].rel \subseteq V
                    BY <2>4, <5>1 DEF Noted, V
                <5> QED
                    BY <4>1, <5>2 DEF Closed
            <4>2. CASE ~call.recurse
                BY <4>2 DEF Closed
            <4> QED
                BY <4>1, <4>2
        <3> QED
            BY <2>8, <2>10, <3>1, AlongLeast
    <2>12. Written(db, dal, e)
        BY <2>7, <2>9, <2>10, <2>11 DEF Finished
    <2>13. NamesIn(dal, dal[e].rel) = Names(dal[e].rel)
        BY DEF NamesIn, Names, Name
    <2> QED
        BY <2>12, <2>13, AliveAreMade DEF Written, Name
<1> QED
    BY <1>1, RefInvariant, WalkInvariant, WriteInvariant, PTL

=============================================================================
