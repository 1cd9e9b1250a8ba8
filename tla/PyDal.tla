------------------------------- MODULE PyDal -------------------------------
(* The DAL objects of the Python layer and the way they reach the database:   *)
(* DalBase (dal.py), its properties (dalproperty.py), the proxy ConfigObject  *)
(* (ConfigObject.py) and the cache and the operations of Configuration        *)
(* (Configuration.py).                                                        *)
(*                                                                            *)
(* A DAL is a Python object, told apart by its identity (Dals) and not by its *)
(* name: nothing keeps a program from having two with one name.  It has one   *)
(* attribute and one multi-value relationship.  The relationship of a DAL     *)
(* that came from the database is a list of handles (lazy) until it is read.  *)
(* update_dal, add_dal and __getall__ are recursive: their calls are frames   *)
(* on call.stack and one action is one piece of a call.  The database is what *)
(* the C++ layer shows: objects by name, found from any of their classes.     *)
EXTENDS Naturals, FiniteSets, Sequences

CONSTANTS
    Ids,            \* names of objects
    Dals,           \* identities of the DAL objects a program can have
    Values,         \* values of the attribute
    Assigned,       \* those a client assigns (bound)
    Default,        \* the value a new object has
    Classes,        \* classes
    ClassOf,        \* the class an object of a name has
    OksTypes,       \* a class and its superclasses
    RelType,        \* the class the relationship asks for
    ReadOnly,       \* objects of files the user cannot write
    Stored,         \* the database as it is opened
    None,
    MaxOperations   \* bound: operations of the client

ASSUME DalAssumption ==
    /\ Dals \subseteq Nat /\ IsFiniteSet(Dals) /\ IsFiniteSet(Ids)
    /\ Default \in Values /\ Assigned \subseteq Values /\ RelType \in Classes /\ ReadOnly \subseteq Ids
    /\ ClassOf \in [Ids -> Classes] /\ OksTypes \in [Classes -> SUBSET Classes]
    /\ \A c \in Classes : c \in OksTypes[c]
    /\ None \notin Ids \cup Dals \cup Values

VARIABLES
    db,         \* name |-> None or [attr, rel]
    dal,        \* identity |-> None or [id, old, attr, rel, lazy]
    cache,      \* Configuration.__cache__: class |-> (name |-> None or a DAL)
    call,       \* the running call, or the last one until the next operation
    dirty,      \* DALs changed since they were read or written (not in the code)
    gone,       \* names of destroyed objects (not in the code)
    blurred,    \* a call failed, or a name of two DALs was renamed (not in the code)
    operations  \* operations so far (not in the code)

vars == <<db, dal, cache, call, dirty, gone, blurred, operations>>

Handle == [id : Ids, alive : BOOLEAN]
Object == [attr : Values, rel : SUBSET Ids]
DalObject == [id : Ids, old : Ids \cup {None}, attr : Values \cup {None},
              rel : SUBSET Dals, lazy : (SUBSET Handle) \cup {None}]
Frame == [dal : Dals, mode : {"begin", "open", "relate"}, obj : Ids \cup {None},
          todo : SUBSET Dals, val : SUBSET Ids]

\* None is none of the values above, and the database is opened without references
\* to objects it does not have.
ASSUME StoredAssumption ==
    /\ None \notin Object /\ None \notin DalObject /\ \A H \in SUBSET Handle : H # None
    /\ Stored \in [Ids -> Object \cup {None}]
    /\ \A i \in Ids : Stored[i] # None => \A j \in Stored[i].rel : Stored[j] # None
    /\ \A i \in ReadOnly : Stored[i] # None

NoCall == [op |-> "none", root |-> None, ignore |-> FALSE, recurse |-> FALSE, stack |-> <<>>,
           done |-> [i \in Ids |-> None], before |-> db, moved |-> {}, ok |-> TRUE]

Idle == call.stack = <<>>

Free == {d \in Dals : dal[d] = None}
Alive == Dals \ Free
Present == {i \in Ids : db[i] # None}
Name(d) == dal[d].id

\* The first free identities, one for each name of I.
Fresh(I) ==
    CHOOSE f \in [I -> Free] :
        /\ \A i, j \in I : i # j => f[i] # f[j]
        /\ \A i \in I, d \in Free : d < f[i] => \E j \in I : f[j] = d
FirstFree == CHOOSE d \in Free : \A e \in Free : d <= e

-----------------------------------------------------------------------------
(* The cache.                                                                *)

\* __update_cache__ and the first lines of as_dal: the DALs f names are entered
\* under every class of theirs.
Cached(f) ==
    [c \in Classes |-> [i \in Ids |->
        IF i \in DOMAIN f /\ c \in OksTypes[ClassOf[i]] THEN f[i] ELSE cache[c][i]]]

\* Mutant: __delete_cache__ of the DAL's own class only
UncachedOwnClass(i) == [cache EXCEPT ![ClassOf[i]][i] = None]

\* __delete_cache__
Uncached(i) ==
    [c \in Classes |-> IF c \in OksTypes[ClassOf[i]] THEN [cache[c] EXCEPT ![i] = None]
                                                     ELSE cache[c]]

IsCached(i) == cache[ClassOf[i]][i] # None

-----------------------------------------------------------------------------
(* Reading.                                                                  *)

\* DalBase.__init__ without its keyword arguments
NewDal(i) == [id |-> i, old |-> None, attr |-> None, rel |-> {}, lazy |-> None]

\* ConfigObject.__getitem__ of the relationship: handles of the objects
getitem(i) == {[id |-> j, alive |-> TRUE] : j \in db[i].rel}

\* ConfigObject.as_dal: the attribute is copied, the relationship is kept as handles.
as_dal(i) == [NewDal(i) EXCEPT !.attr = db[i].attr, !.lazy = getitem(i)]

\* dal' when the objects of I are given the DALs f
WithDals(f) ==
    [d \in Dals |-> IF \E i \in DOMAIN f : f[i] = d
                    THEN as_dal(CHOOSE i \in DOMAIN f : f[i] = d) ELSE dal[d]]

HandlesOf(d) == IF dal[d].lazy = None THEN {} ELSE dal[d].lazy
IsRead(d) == dal[d].lazy = None

\* Handles of destroyed objects that no cached DAL stands in for: as_dal of them throws.
Broken(d) == {h \in HandlesOf(d) : ~h.alive /\ ~IsCached(h.id)}
ToLoad(d) == {h.id : h \in {g \in HandlesOf(d) : g.alive /\ ~IsCached(g.id)}}

\* The DAL cached under a name has that name, or had it and is to be renamed.
Keyed(i) == LET e == cache[ClassOf[i]][i] IN e # None => i \in {Name(e), dal[e].old}

\* The getter of a relationship: each handle becomes the cached DAL of its name or,
\* without one, a new DAL.  A broken handle is passed over when another handle of
\* its name came first.
ReadRelation(d) ==
    /\ ~IsRead(d)
    /\ {h.id : h \in Broken(d)} \subseteq ToLoad(d)
    /\ Cardinality(ToLoad(d)) <= Cardinality(Free)
    /\ LET f == Fresh(ToLoad(d))
           after == Cached(f)
       IN  /\ cache' = after
           /\ dal' = [WithDals(f) EXCEPT
                        ![d].rel = {after[ClassOf[h.id]][h.id] : h \in HandlesOf(d)},
                        ![d].lazy = None]
    /\ dirty' = dirty \cup IF \A h \in HandlesOf(d) : Keyed(h.id) THEN {} ELSE {d}

\* The getter meets a handle of a destroyed object.  The list of handles has been
\* popped, some of the others may have been loaded, and as_dal has entered the
\* new DAL in the cache before it read the object.
ReadRelationFails(d) ==
    \E h \in Broken(d), I \in SUBSET ToLoad(d) :
        /\ h.id \notin I
        /\ Cardinality(I) < Cardinality(Free)
        /\ LET f == Fresh(I)
               half == CHOOSE e \in Free \ {f[i] : i \in I} :
                          \A g \in Free \ {f[i] : i \in I} : e <= g
           IN  /\ cache' = Cached([i \in I \cup {h.id} |-> IF i = h.id THEN half ELSE f[i]])
               /\ dal' = [WithDals(f) EXCEPT ![half] = NewDal(h.id), ![d].lazy = None]
        /\ UNCHANGED dirty

-----------------------------------------------------------------------------
(* The operations of a client that are one step.                             *)

\* A client acts between calls; what the last call left is forgotten.
Client ==
    /\ Idle
    /\ operations < MaxOperations
    /\ operations' = operations + 1
    /\ call' = NoCall

\* check_relation for every member of a list
OfRelType(S) == \A e \in S : RelType \in OksTypes[ClassOf[Name(e)]]

\* DalBase.__init__ with keyword arguments for the attribute and the relationship
Construct ==
    /\ Client
    /\ Free # {}
    /\ \E i \in Ids, v \in Assigned \cup {None}, S \in SUBSET Alive :
        /\ OfRelType(S)
        /\ dal' = [dal EXCEPT ![FirstFree] = [NewDal(i) EXCEPT !.attr = v, !.rel = S]]
    /\ dirty' = dirty \cup {FirstFree}
    /\ UNCHANGED <<db, cache, gone, blurred>>

\* DalBase.__setattr__ of the attribute
SetAttribute(d) ==
    /\ Client
    /\ \E v \in Assigned \cup {None} : dal' = [dal EXCEPT ![d].attr = v]
    /\ dirty' = dirty \cup {d}
    /\ UNCHANGED <<db, cache, gone, blurred>>

\* DalBase.__setattr__ of the relationship: handles that were not read yet are
\* never looked at again.
SetRelation(d) ==
    /\ Client
    /\ \E S \in SUBSET Alive :
        /\ OfRelType(S)
        /\ dal' = [dal EXCEPT ![d].rel = S, ![d].lazy = None]
    /\ dirty' = dirty \cup {d}
    /\ UNCHANGED <<db, cache, gone, blurred>>

\* A plain assignment to id: the DAL is another object from now on, and so are
\* the relationships that hold it.
SetId(d) ==
    /\ Client
    /\ \E i \in Ids \ {Name(d)} :
        /\ ClassOf[i] = ClassOf[Name(d)]
        /\ dal' = [dal EXCEPT ![d].id = i]
    /\ dirty' = dirty \cup {d} \cup {e \in Alive : d \in dal[e].rel}
    /\ UNCHANGED <<db, cache, gone, blurred>>

\* DalBase.rename: only the first of several old names is remembered, so a DAL that
\* has an object under its second name leaves it behind.
rename(d) ==
    /\ Client
    /\ \E i \in Ids \ {Name(d)} :
        /\ ClassOf[i] = ClassOf[Name(d)]
        /\ dal' = [dal EXCEPT ![d].id = i,
                              ![d].old = IF @ = None THEN Name(d) ELSE @]
    /\ dirty' = dirty \cup {d} \cup
                   {e \in Alive : d \in dal[e].rel /\ dal[d].old # None /\ Name(d) \in Present \cup gone}
    /\ UNCHANGED <<db, cache, gone, blurred>>

\* DalBase.copy of a DAL whose relationship was read.  Otherwise the getter reads it
\* first, which is Read(e); the attribute has been copied by then, as SetAttribute(d)
\* would, and stays so when the getter raises.
copy(d, e) ==
    /\ Client
    /\ d # e
    /\ IsRead(e)
    /\ dal' = [dal EXCEPT ![d].attr = dal[e].attr, ![d].rel = dal[e].rel, ![d].lazy = None]
    /\ dirty' = dirty \cup {d}
    /\ UNCHANGED <<db, cache, gone, blurred>>

\* d.rel of a client
Read(d) ==
    /\ Client
    /\ \/ ReadRelation(d) /\ UNCHANGED blurred
       \/ ReadRelationFails(d) /\ blurred' = TRUE
    /\ UNCHANGED <<db, gone>>

\* Configuration.get_dal of a name that is not cached
get_dal(i) ==
    /\ Client
    /\ ~IsCached(i) /\ i \in Present
    /\ Free # {}
    /\ LET f == Fresh({i}) IN dal' = WithDals(f) /\ cache' = Cached(f)
    /\ UNCHANGED <<db, dirty, gone, blurred>>

\* Configuration.get_dals of one class, or get_all_dals of all of them
get_dals(C) ==
    LET I == {i \in Present : \E c \in C : c \in OksTypes[ClassOf[i]] /\ cache[c][i] = None}
    IN  /\ Client
        /\ I # {}
        /\ Cardinality(I) <= Cardinality(Free)
        /\ LET f == Fresh(I) IN dal' = WithDals(f) /\ cache' = Cached(f)
        /\ UNCHANGED <<db, dirty, gone, blurred>>

\* Mutant: handles of the object are left as they were.
DestroyHandlesKept(d) ==
    LET i == Name(d)
    IN  /\ Client
        /\ i \notin ReadOnly
        /\ db' = [j \in Ids |-> IF j = i \/ db[j] = None THEN None
                                ELSE [db[j] EXCEPT !.rel = @ \ {i}]]
        /\ cache' = Uncached(i)
        /\ gone' = gone \cup {i}
        /\ UNCHANGED <<dal, dirty, blurred>>

\* Configuration.destroy_dal.  Whether or not the object exists, the name is
\* removed from the cache, whichever DAL it stands for.  The database drops the
\* references to the object, and handles of it are dead.  DALs that were related
\* to it stay in the cache and go on naming it.
destroy_dal(d) ==
    LET i == Name(d)
    IN  /\ Client
        /\ i \notin ReadOnly
        /\ db' = [j \in Ids |-> IF j = i \/ db[j] = None THEN None
                                ELSE [db[j] EXCEPT !.rel = @ \ {i}]]
        /\ dal' = [e \in Dals |->
                     IF e \in Alive /\ ~IsRead(e)
                     THEN [dal[e] EXCEPT !.lazy =
                             {IF h.id = i THEN [h EXCEPT !.alive = FALSE] ELSE h : h \in @}]
                     ELSE dal[e]]
        /\ cache' = Uncached(i)
        /\ gone' = gone \cup {i}
        /\ UNCHANGED <<dirty, blurred>>

-----------------------------------------------------------------------------
(* The recursive operations.                                                 *)

NewFrame(d) == [dal |-> d, mode |-> "begin", obj |-> None, todo |-> {}, val |-> {}]

\* Configuration.update_dal (update_dal_permissive, update_dal_pedantic), add_dal
\* and DalBase.__getall__ are called.
Start(op, d) ==
    /\ Idle
    /\ operations < MaxOperations
    /\ operations' = operations + 1
    /\ \E ignore \in (IF op = "update" THEN BOOLEAN ELSE {FALSE}),
          recurse \in (IF op = "getall" THEN {TRUE} ELSE BOOLEAN) :
         call' = [NoCall EXCEPT !.op = op, !.root = d, !.ignore = ignore,
                                !.recurse = recurse, !.stack = <<NewFrame(d)>>]
    /\ UNCHANGED <<db, dal, cache, dirty, gone, blurred>>

Top == Head(call.stack)
In(op, mode) == ~Idle /\ call.op \in op /\ Top.mode = mode
Storing == {"update", "add"}

\* The frame on top becomes f.
WithTop(f) == <<f>> \o Tail(call.stack)

\* The frame on top returns the object i, which its caller puts in the list it
\* is making.
Returned(i) ==
    LET rest == Tail(call.stack)
    IN  IF rest = <<>> \/ i = None THEN rest
        ELSE <<[Head(rest) EXCEPT !.val = @ \cup {i}]>> \o Tail(rest)

\* An error nobody on the stack catches
Raise ==
    /\ call' = [call EXCEPT !.stack = <<>>, !.ok = FALSE]
    /\ blurred' = TRUE

\* What a renaming in the database does to a set of names
Renamed(S, old, new) == {IF i = old THEN new ELSE i : i \in S}

\* update_dal, the part about __old_id.  The database refuses a name in use and an
\* object it may not write, and may refuse when it may not write one that refers
\* to it.  Handles and ConfigObjects follow the object they are of.
RenameStored ==
    LET d == Top.dal
        old == dal[d].old
        new == Name(d)
    IN  /\ In({"update"}, "begin")
        /\ old # None /\ old # new
        /\ old \in Present \ ReadOnly /\ new \notin Present
        /\ db' = [i \in Ids |->
                    IF i = old THEN None
                    ELSE LET o == IF i = new THEN db[old] ELSE db[i]
                         IN  IF o = None THEN None
                             ELSE [o EXCEPT !.rel = Renamed(@, old, new)]]
        /\ dal' = [e \in Dals |->
                     LET o == IF e = d THEN [dal[d] EXCEPT !.old = None] ELSE dal[e]
                     IN  IF e \in Alive /\ ~IsRead(e)
                         THEN [o EXCEPT !.lazy =
                                {IF h.alive /\ h.id = old THEN [h EXCEPT !.id = new] ELSE h : h \in @}]
                         ELSE o]
        /\ call' = [call EXCEPT
                      !.moved = @ \cup {old, new},
                      !.done = [i \in Ids |-> IF call.done[i] = old THEN new ELSE call.done[i]],
                      !.stack = <<[Top EXCEPT !.mode = "open"]>> \o
                                [n \in 1..Len(Tail(call.stack)) |->
                                   [Tail(call.stack)[n] EXCEPT !.val = Renamed(@, old, new),
                                                               !.obj = IF @ = old THEN new ELSE @]]]
        /\ blurred' = (blurred \/ \E e \in Alive \ {d} : old \in {Name(e), dal[e].old})
        /\ gone' = IF old \in gone THEN gone \cup {new} ELSE gone
        /\ UNCHANGED <<cache, dirty, operations>>

RenameFails ==
    LET old == dal[Top.dal].old
        new == Name(Top.dal)
    IN  /\ In({"update"}, "begin")
        /\ old # None /\ old # new
        /\ \/ old \notin Present
           \/ new \in Present
           \/ old \in ReadOnly
           \/ \E i \in Present \cap ReadOnly : old \in db[i].rel
        /\ Raise
        /\ UNCHANGED <<db, dal, cache, dirty, gone, operations>>

NoRename ==
    /\ In({"update"}, "begin")
    /\ dal[Top.dal].old \in {None, Name(Top.dal)}
    /\ call' = [call EXCEPT !.stack = WithTop([Top EXCEPT !.mode = "open"])]
    /\ UNCHANGED <<db, dal, cache, dirty, gone, blurred, operations>>

\* Mutant: the cache keeps the DAL it had.
LeaveCacheKept(i) ==
    /\ cache' = IF IsCached(Name(Top.dal)) THEN cache ELSE Cached([j \in {Name(Top.dal)} |-> Top.dal])
    /\ call' = [call EXCEPT !.stack = Returned(i), !.done[Name(Top.dal)] = i]

\* The call on top ends: the DAL is entered in the cache and the object returned.
Leave(i) ==
    /\ cache' = Cached([j \in {Name(Top.dal)} |-> Top.dal])
    /\ call' = [call EXCEPT !.stack = Returned(i), !.done[Name(Top.dal)] = i]

\* add_dal of an object that exists: the object is left alone.
AddExisting ==
    /\ In({"add"}, "begin")
    /\ Name(Top.dal) \in Present
    /\ Leave(Name(Top.dal))
    /\ dirty' = dirty \cup {Top.dal}
    /\ UNCHANGED <<db, dal, gone, blurred, operations>>

\* Mutant: add_dal sets the attribute of an object that exists.
OpenAnyway ==
    LET d == Top.dal
        i == Name(d)
        new == [attr |-> Default, rel |-> {}]
        value == dal[d].attr
    IN  /\ In({"update"}, "open") \/ In({"add"}, "begin")
        /\ value = None \/ i \notin ReadOnly
        /\ db' = [db EXCEPT ![i] = LET o == IF @ = None THEN new ELSE @
                                   IN  [o EXCEPT !.attr = IF value = None THEN @ ELSE value]]
        /\ call' = [call EXCEPT !.done[i] = i,
                      !.stack = WithTop([Top EXCEPT !.mode = "relate", !.obj = i,
                                                    !.todo = dal[d].rel])]
        /\ UNCHANGED <<dal, cache, dirty, gone, blurred, operations>>

\* The object is found or created and noted under its full name; then
\* ConfigObject.update_dal sets the attribute.
Open ==
    LET d == Top.dal
        i == Name(d)
        new == [attr |-> Default, rel |-> {}]
        value == dal[d].attr
    IN  /\ \/ In({"update"}, "open")
           \/ In({"add"}, "begin") /\ i \notin Present
        /\ value = None \/ i \notin ReadOnly
        /\ db' = [db EXCEPT ![i] = LET o == IF @ = None THEN new ELSE @
                                   IN  [o EXCEPT !.attr = IF value = None THEN @ ELSE value]]
        /\ call' = [call EXCEPT !.done[i] = i,
                      !.stack = WithTop([Top EXCEPT !.mode = "relate", !.obj = i,
                                                    !.todo = dal[d].rel])]
        /\ UNCHANGED <<dal, cache, dirty, gone, blurred, operations>>

\* A ValueError from __setitem__: update_dal logs it when it ignores errors, and
\* carries on after ConfigObject.update_dal, which ends.
Refused ==
    IF call.ignore
    THEN Leave(Name(Top.dal)) /\ dirty' = dirty \cup {Top.dal} /\ UNCHANGED blurred
    ELSE Raise /\ UNCHANGED <<cache, dirty>>

OpenRefused ==
    /\ In({"update"}, "open")
    /\ Name(Top.dal) \in ReadOnly /\ dal[Top.dal].attr # None
    /\ Refused
    /\ UNCHANGED <<db, dal, gone, operations>>

\* getattr of the relationship, in update_dal and in __getall__
Relate ==
    /\ In(Storing \cup {"getall"}, "relate")
    /\ \/ /\ ReadRelation(Top.dal)
          /\ call' = [call EXCEPT !.stack = WithTop([Top EXCEPT !.todo = dal'[Top.dal].rel])]
          /\ UNCHANGED blurred
       \/ ReadRelationFails(Top.dal) /\ Raise
    /\ UNCHANGED <<db, gone, operations>>

\* Mutant: objects that exist are taken as they are, whatever recurse says.
RelatedIfNew(e) ==
    /\ In(Storing, "relate")
    /\ IsRead(Top.dal) /\ e \in Top.todo
    /\ LET rest == [Top EXCEPT !.todo = @ \ {e}]
           known == IF Name(e) \in Present THEN Name(e) ELSE call.done[Name(e)]
       IN  \/ /\ known # None
              /\ call' = [call EXCEPT !.stack = WithTop([rest EXCEPT !.val = @ \cup {known}])]
           \/ /\ known = None /\ call.recurse
              /\ call' = [call EXCEPT !.stack = <<NewFrame(e)>> \o WithTop(rest)]
    /\ UNCHANGED <<db, dal, cache, dirty, gone, blurred, operations>>

\* One related DAL: an object that was dealt with under the DAL's full name, the
\* result of a call of its own, or an object that has to be there.
Related(e) ==
    /\ In(Storing, "relate")
    /\ IsRead(Top.dal) /\ e \in Top.todo
    /\ LET rest == [Top EXCEPT !.todo = @ \ {e}]
           known == call.done[Name(e)]
       IN  \/ /\ known # None
              /\ call' = [call EXCEPT !.stack = WithTop([rest EXCEPT !.val = @ \cup {known}])]
           \/ /\ known = None /\ call.recurse
              /\ call' = [call EXCEPT !.stack = <<NewFrame(e)>> \o WithTop(rest)]
           \/ /\ known = None /\ ~call.recurse /\ Name(e) \in Present
              /\ call' = [call EXCEPT !.stack = WithTop([rest EXCEPT !.val = @ \cup {Name(e)}])]
    /\ UNCHANGED <<db, dal, cache, dirty, gone, blurred, operations>>

RelatedFails(e) ==
    /\ In(Storing, "relate")
    /\ IsRead(Top.dal) /\ e \in Top.todo
    /\ call.done[Name(e)] = None /\ ~call.recurse /\ Name(e) \notin Present
    /\ Raise
    /\ UNCHANGED <<db, dal, cache, dirty, gone, operations>>

\* The whole list is set, and the call ends.
Store ==
    /\ In(Storing, "relate")
    /\ IsRead(Top.dal) /\ Top.todo = {}
    /\ IF Top.obj \in ReadOnly
       THEN Refused /\ UNCHANGED db
       ELSE /\ db' = [db EXCEPT ![Top.obj].rel = Top.val]
            /\ Leave(Top.obj)
            /\ dirty' = dirty \ {Top.dal}
            /\ UNCHANGED blurred
    /\ UNCHANGED <<dal, gone, operations>>

\* Mutant: any entry in comp is taken for one's own.
VisitFirst ==
    /\ In({"getall"}, "begin")
    /\ call' = IF \E j \in Ids : call.done[j] # None THEN [call EXCEPT !.stack = Tail(@)]
               ELSE [call EXCEPT !.done[Name(Top.dal)] = Top.dal,
                                 !.stack = WithTop([Top EXCEPT !.mode = "relate",
                                                               !.todo = dal[Top.dal].rel])]
    /\ UNCHANGED <<db, dal, cache, dirty, gone, blurred, operations>>

\* __getall__ of a DAL, of the DALs it is related to, and its end
Visit ==
    /\ In({"getall"}, "begin")
    /\ LET i == Name(Top.dal)
       IN  call' = [call EXCEPT
                      !.done[i] = IF @ = None THEN Top.dal ELSE @,
                      !.stack = IF call.done[i] # None THEN Tail(@)
                                ELSE WithTop([Top EXCEPT !.mode = "relate",
                                                         !.todo = dal[Top.dal].rel])]
    /\ UNCHANGED <<db, dal, cache, dirty, gone, blurred, operations>>

Descend ==
    /\ In({"getall"}, "relate")
    /\ IsRead(Top.dal)
    /\ \/ \E e \in Top.todo :
            call' = [call EXCEPT !.stack = <<NewFrame(e)>> \o WithTop([Top EXCEPT !.todo = @ \ {e}])]
       \/ Top.todo = {} /\ call' = [call EXCEPT !.stack = Tail(@)]
    /\ UNCHANGED <<db, dal, cache, dirty, gone, blurred, operations>>

\* DalBase.get without a name: what __getall__ found, of one class or, with
\* lookBaseClasses, of the classes derived from it too.
get(found, c, lookBaseClasses) ==
    {d \in found : \/ c = ClassOf[Name(d)]
                   \/ lookBaseClasses /\ c \in OksTypes[ClassOf[Name(d)]]}

-----------------------------------------------------------------------------
Init ==
    /\ db = Stored
    /\ dal = [d \in Dals |-> None]
    /\ cache = [c \in Classes |-> [i \in Ids |-> None]]     \* __initialize_cache__
    /\ call = NoCall
    /\ dirty = {}
    /\ gone = {}
    /\ blurred = FALSE
    /\ operations = 0

\* What a client does between calls ...
ClientNext ==
    \/ Construct
    \/ \E d \in Alive : \/ SetAttribute(d) \/ SetRelation(d) \/ SetId(d) \/ rename(d)
                        \/ Read(d) \/ destroy_dal(d)
                        \/ \E e \in Alive : copy(d, e)
                        \/ \E op \in Storing \cup {"getall"} : Start(op, d)
    \/ \E i \in Ids : get_dal(i)
    \/ \E C \in {{c} : c \in Classes} \cup {Classes} : get_dals(C)

\* ... and the pieces of a call.
CallNext ==
    \/ RenameStored \/ RenameFails \/ NoRename
    \/ AddExisting \/ Open \/ OpenRefused \/ Relate
    \/ \E e \in Alive : Related(e) \/ RelatedFails(e)
    \/ Store \/ Visit \/ Descend

Next ==
    \/ Idle /\ operations < MaxOperations /\ ClientNext
    \/ ~Idle /\ CallNext

Spec == Init /\ [][Next]_vars

-----------------------------------------------------------------------------
(* Properties.                                                               *)

\* Types, and that nothing refers to what is not there: an object of the database,
\* a DAL, or a handle that is not marked dead.
TypeOK ==
    /\ db \in [Ids -> Object \cup {None}]
    /\ dal \in [Dals -> DalObject \cup {None}]
    /\ cache \in [Classes -> [Ids -> Dals \cup {None}]]
    /\ call.op \in Storing \cup {"getall", "none"}
    /\ \A n \in 1..Len(call.stack) : call.stack[n] \in Frame
    /\ call.done \in [Ids -> Ids \cup Dals \cup {None}]
    /\ dirty \subseteq Alive /\ gone \subseteq Ids
    /\ \A i \in Present : db[i].rel \subseteq Present
    /\ \A d \in Alive : dal[d].rel \subseteq Alive /\ \A h \in HandlesOf(d) : h.alive => h.id \in Present

\* The DALs reached from d through relationships of members of W
Reach(d, W) ==
    LET R[n \in 0..Cardinality(Dals)] ==
            IF n = 0 THEN {d} ELSE R[n - 1] \cup UNION {dal[e].rel : e \in R[n - 1] \cap W}
    IN  R[Cardinality(Dals)]

Over(ops) == Idle /\ call.op \in ops /\ call.ok
NoTwins(S) == \A e, f \in S : Name(e) = Name(f) => e = f
Names(S) == {Name(e) : e \in S}

\* The DALs a call has to write: all that are related when it recurses, down to
\* objects it may not write (update_dal) or that were there before (add_dal).
ToWrite ==
    LET W == {e \in Alive : IF call.op = "update" THEN Name(e) \notin ReadOnly
                                                 ELSE call.before[Name(e)] = None}
    IN  W \cap Reach(call.root, IF call.recurse THEN W ELSE {})

\* When update_dal or add_dal returns, the database agrees with every DAL it had to
\* write, cycles and renamed objects included, unless two of them have one name.
CallStores ==
    (Over(Storing) /\ ~blurred /\ NoTwins(Reach(call.root, Alive))) =>
        \A e \in ToWrite :
            /\ Name(e) \in Present
            /\ dal[e].attr \in {None, db[Name(e)].attr}
            /\ dal[e].lazy = None
            /\ db[Name(e)].rel = Names(dal[e].rel)

\* Whether it succeeds or fails, add_dal changes no object that existed, update_dal
\* without recursion none but the object of its DAL, and update_dal with recursion
\* none but those of related DALs.
NothingElseTouched ==
    call.op \in Storing =>
        \A i \in {j \in Ids : call.before[j] # None /\ db[j] # call.before[j]} :
            /\ call.op = "update"
            /\ \/ i \in call.moved
               \/ i \in Names(Reach(call.root, IF call.recurse THEN Alive ELSE {}))
               \/ /\ i \in Present
                  /\ db[i].attr = call.before[i].attr
                  /\ db[i].rel \ call.moved = call.before[i].rel \ call.moved

\* A cached name stands for one DAL, whichever of its classes it is asked for by:
\* entering, replacing and deleting go through all of them.
CachedUnderAllTypes ==
    \A c \in Classes, i \in Ids :
        cache[c][i] = IF c \in OksTypes[ClassOf[i]] THEN cache[ClassOf[i]][i] ELSE None

\* What get_dal returns reflects the object in the database: its attribute, and
\* every reference it has.  Destroying an object does not reach the DALs that were
\* related to it, so one that was read before names, besides, objects that
\* destroy_dal destroyed (or what they were renamed to after they were made anew),
\* and nothing else.  Excused, until it is written, is a DAL the program changed,
\* one related to a DAL to which the program gave another name, and one that came
\* into the cache without being written (add_dal of an object that exists,
\* update_dal that ignores an error); and everything once a call failed or a
\* name of two DALs was renamed (blurred).
CacheReflects ==
    (Idle /\ ~blurred) =>
        \A i \in Present :
            LET d == cache[ClassOf[i]][i]
                handles == {h \in HandlesOf(d) : h.alive}
            IN  (/\ d # None
                 /\ Name(d) = i
                 /\ d \notin dirty
                 /\ \A e \in dal[d].rel : dal[e].old \in {None, Name(e)}) =>
                    /\ dal[d].attr \in {None, db[i].attr}
                    /\ IF IsRead(d)
                       THEN /\ db[i].rel \subseteq Names(dal[d].rel)
                            /\ Names(dal[d].rel) \ db[i].rel \subseteq gone
                       ELSE db[i].rel = {h.id : h \in handles}

\* get(c, lookBaseClasses=True) finds every DAL of c or a class derived from c that
\* is related to the one it is called for, cycles or not, and nothing else.
GetFindsAll ==
    (Over({"getall"}) /\ NoTwins(Reach(call.root, Alive))) =>
        \A c \in Classes :
            get({call.done[i] : i \in Ids} \ {None}, c, TRUE) =
            {e \in Reach(call.root, Alive) : c \in OksTypes[ClassOf[Name(e)]]}

=============================================================================
