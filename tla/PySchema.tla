------------------------------ MODULE PySchema ------------------------------
(***************************************************************************)
(* The Python layer's view of the schema: the schema.Cache of a            *)
(* Configuration, the DAL classes that generate() makes from it and keeps  *)
(* for the life of the process, and the keys of the DAL cache; over a C++  *)
(* Configuration with its own caches (SchemaCaches).                       *)
(*                                                                         *)
(* A process has one Configuration at a time, of a C++ client or of a      *)
(* Python one, which can only call what pybindsrc/config.cpp binds.  A     *)
(* Python operation that refreshes the schema is one step for the C++ call *)
(* it makes, one for schema.Cache.update() and the start of generate(),    *)
(* one for each turn of generate()'s loop, and one for what follows it.    *)
(***************************************************************************)
EXTENDS SchemaCaches, Coercion, SequencesExt

CONSTANTS
  None,
  Linearisable,  \* the classes whose bases Python can put in one order
  AttributeOf,   \* attribute -> its description in the schema
  Values         \* what clients assign

\* Classes made once are not made again, so the module is for files that do
\* not disagree about the superclasses of a class.
ASSUME HierarchyAssumption ==
  \A f, g \in Files : \A c \in DOMAIN Declares[f] \cap DOMAIN Declares[g] :
    Declares[f][c].super = Declares[g][c].super

\* A class made with type() needs one order of its bases and all of theirs.  It
\* depends on the order in which the plug-in lists the superclasses (a class
\* before its own subclass has none); a single base always has one.
ASSUME LinearisableAssumption ==
  \A f \in Files : \A c \in DOMAIN Declares[f] :
    c \in Linearisable \/ ~\E b \in Classes : Declares[f][c].super \subseteq {b}

\* The tables describe every attribute that a class declares, and clients assign
\* scalars, lists of them, or None.
ASSUME TablesAssumption ==
  /\ \A f \in Files : \A c \in DOMAIN Declares[f] :
       Declares[f][c].attributes \subseteq DOMAIN AttributeOf
  /\ \A a \in DOMAIN AttributeOf : WellFormed(AttributeOf[a])
  /\ \A v \in Values :
       \/ v = Nothing \/ IsScalar(v)
       \/ /\ v.py = "list" /\ v = List(v.s)
          /\ v.s \in Seq({v.s[j] : j \in DOMAIN v.s})
          /\ \A j \in DOMAIN v.s : IsScalar(v.s[j])

\* A schema has finitely many classes.
ASSUME ClassesAssumption == IsFiniteSet(Classes)

VARIABLES
  python,     \* the Configuration is a Python client's
  param,      \* get_impl_param(): the file it was constructed with, if any
  data,       \* __schema__.data: class -> what update() found, and its 'dal'
  dal,        \* __dal__: class -> DAL class [types: __okstypes__, attributes]
  keys,       \* the keys of __cache__
  databases, active,
  call,       \* the operation in progress
  synced,     \* no files were opened behind __schema__'s back (aux)
  process,    \* the files opened since the process began (aux)
  operations  \* how many operations there were (aux)

cached == <<data, dal, keys>>
files == <<databases, active>>
vars == <<schemaVars, python, param, cached, files, call, synced, process, operations>>

\* An operation, what the schema's refresh has come to, the file it is about, and
\* the variables of generate().
Idle == [op |-> "none", step |-> "idle", file |-> None,
         ordered |-> <<>>, other |-> {}, klasses |-> {}]
idle == call = Idle

classes == DOMAIN p_superclasses

PyInit ==
  /\ Init
  /\ python = FALSE /\ param = {}
  /\ data = Empty /\ dal = Empty /\ keys = {}
  /\ databases = {} /\ active = None
  /\ call = Idle
  /\ synced = TRUE
  /\ process = {}
  /\ operations = 0

----------------------------------------------------------------------------
(* schema.Cache.update(), update_dal() and dal.generate().                 *)

\* An operation has called C++, and goes on to refresh the schema.
Begin(op, f) ==
  /\ call' = [Idle EXCEPT !.op = op, !.step = "update", !.file = f]
  /\ process' = process \cup session'

\* The sequences in which generate() may try the classes: by the number of
\* their direct superclasses, and within it in the order of an unordered map.
superclasses(c) == IF c \in DOMAIN p_direct THEN p_direct[c].superclasses ELSE Definition(Opened, c).super
Orders(new) ==
  {s \in SetToSeqs(new) : \A j, k \in DOMAIN s :
     j < k => Cardinality(superclasses(s[j])) <= Cardinality(superclasses(s[k]))}

WithDal == {c \in DOMAIN data : data[c].dal}

EntryOfDirect(all, direct, c) ==  \* mutant: without what is inherited
  [attributes |-> direct[c].attributes, superclasses |-> all[c].superclasses, dal |-> FALSE]
Entry(all, direct, c) ==
  [attributes |-> all[c].attributes, superclasses |-> all[c].superclasses, dal |-> FALSE]

\* Cache.update() describes, with all they inherit, the classes it does not
\* know, and leaves the others as they are; generate() asks for the direct
\* superclasses of the classes without a DAL class.
update ==
  LET described == [c \in DOMAIN data \cup classes |->
        IF c \in DOMAIN data THEN data[c]
        ELSE Entry(p_all', p_direct', c)]
      new == classes \ WithDal
  IN /\ call.step = "update"
     /\ GetClassInfo(new, classes \ DOMAIN data)
     /\ data' = described
     /\ \E s \in Orders(new) :
          call' = [call EXCEPT !.step = "generate", !.ordered = s, !.other = WithDal]
     /\ UNCHANGED <<impl, plugin, maps, session, python, param, dal, keys, files, synced, process>>

generating == call.step = "generate"

\* DalType's constructor: the class and the types of its bases.
OkTypesOfBases(c) == {c} \cup superclasses(c)  \* mutant: not the bases' own types
OkTypes(c) == {c} \cup UNION {dal[b].types : b \in superclasses(c)}

\* What other_classes has to offer after a turn.
OfferedIfNew(next, made) ==  \* mutant: a reused class is not offered as a base
  IF made THEN call.other \cup {next} ELSE call.other
Offered(next, made) ==
  IF made \/ next \in DOMAIN dal THEN call.other \cup {next} ELSE call.other

\* DalType() is called: a class not made before, all of whose bases there are.
Makes(next) == next \notin DOMAIN dal /\ superclasses(next) \subseteq call.other

\* One turn of generate()'s loop: a class made before is reused, one that
\* misses a base goes to the end, and any other is made.
generate ==
  LET next == Head(call.ordered)
      make == Makes(next)
      done == next \in DOMAIN dal \/ make
  IN /\ generating /\ call.ordered # <<>>
     /\ make => next \in Linearisable
     /\ call' = [call EXCEPT
          !.ordered = IF done THEN Tail(@) ELSE Append(Tail(@), next),
          !.other = Offered(next, make),
          !.klasses = IF done THEN @ \cup {next} ELSE @]
     /\ dal' = IF ~make THEN dal
               ELSE [c \in DOMAIN dal \cup {next} |->
                 IF c # next THEN dal[c]
                 ELSE [types |-> OkTypes(next), attributes |-> data[next].attributes]]
     /\ UNCHANGED <<schemaVars, python, param, data, keys, files, synced, process>>

\* The last reference goes, and with it all but the DAL classes.
Gone ==
  /\ dtor
  /\ python' = FALSE
  /\ param' = {}
  /\ data' = Empty /\ keys' = {} /\ databases' = {} /\ active' = None
  /\ call' = Idle
  /\ synced' = TRUE
  /\ UNCHANGED <<dal, process>>

\* type() may raise TypeError instead, through the operation: the classes made so far
\* stay in __dal__, and nothing else is noted.  A Configuration that was being
\* constructed is gone, and so may be the one that dal.module() works with.
fail ==
  LET next == Head(call.ordered) IN
  /\ generating /\ call.ordered # <<>>
  /\ Makes(next) /\ next \notin Linearisable
  /\ \/ /\ call.op # "__init__"
        /\ call' = Idle
        /\ UNCHANGED <<schemaVars, python, param, cached, files, synced, process>>
     \/ call.op \in {"__init__", "module"} /\ Gone

\* __core_init__() is run by the constructor and by dal.module().
core_init == call.op \in {"__init__", "module"}

\* __initialize_cache__(), of an empty cache in __core_init__().
KeysAtFirst == IF keys = {} THEN classes ELSE keys  \* mutant: never extended
Keys == IF core_init THEN classes ELSE keys \cup classes

\* The databases that can be made active.
ListedAtFirst == IF databases = {} THEN param ELSE databases  \* mutant: a created one is not
Listed == CASE core_init -> param
            [] call.op = "create_db" -> databases \cup {call.file}
            [] OTHER -> databases

\* The loop is over: the classes are noted in the schema, __cache__ gets the
\* keys it lacks, and the lists of files are brought up to date.
associate ==
  /\ generating /\ call.ordered = <<>>
  /\ data' = [c \in DOMAIN data |->
       IF c \in call.klasses THEN [data[c] EXCEPT !.dal = TRUE] ELSE data[c]]
  /\ keys' = Keys
  /\ databases' = Listed
  /\ active' = CASE core_init -> IF param = {} THEN None ELSE CHOOSE f \in param : TRUE
                 [] call.op = "create_db" -> call.file
                 [] OTHER -> active
  /\ call' = Idle
  /\ synced' = TRUE
  /\ UNCHANGED <<schemaVars, python, param, dal, process>>

----------------------------------------------------------------------------
(* A Python client.                                                        *)

Configuration(spec) ==
  /\ idle
  /\ ctor(spec)
  /\ python' = TRUE
  /\ param' = spec
  /\ Begin("__init__", None)
  /\ UNCHANGED <<cached, files, synced>>

\* dal.module(): the next schema file of a module, with everything anew; the
\* classes it then returns have all been made.
module(f) ==
  /\ idle /\ python
  /\ load(f)
  /\ data' = Empty
  /\ Begin("module", None)
  /\ UNCHANGED <<python, param, dal, keys, files, synced>>

create_db(db, incl) ==
  /\ idle /\ python
  /\ create(db, incl)
  /\ Begin("create_db", db)
  /\ UNCHANGED <<python, param, cached, files, synced>>

\* add_include() and remove_include(), of a file named or of the active one;
\* the second leaves __schema__ as it is.
py_add_include(db, f) ==
  /\ idle /\ python
  /\ add_include(db, f)
  /\ Begin("add_include", db)
  /\ UNCHANGED <<python, param, cached, files, synced>>

py_remove_include(db, f) ==
  /\ idle /\ python
  /\ remove_include(db, f)
  /\ UNCHANGED <<python, param, cached, files, call, synced, process>>

set_active(f) ==
  /\ idle /\ python
  /\ f \in databases
  /\ active' = f
  /\ UNCHANGED <<schemaVars, python, param, cached, databases, call, synced, process>>

\* load() and unload() are C++'s: they do not tell the Python layer.
py_load(f) ==
  /\ idle /\ python
  /\ load(f)
  /\ synced' = FALSE
  /\ process' = process \cup session'
  /\ UNCHANGED <<python, param, cached, files, call>>

py_unload(throws) ==
  /\ idle /\ python
  /\ unload(throws)
  /\ UNCHANGED <<python, param, cached, files, call, synced, process>>

py_del == idle /\ python /\ Gone

\* attributes(), relations(), superclasses(), subclasses() and a commit.
py_get_class_info(c, all) ==
  /\ idle /\ python
  /\ get_class_info(c, ~all)
  /\ UNCHANGED <<python, param, cached, files, call, synced, process>>

py_commit ==
  /\ idle /\ python
  /\ commit
  /\ UNCHANGED <<python, param, cached, files, call, synced, process>>

CONSTANTS
  Asked,         \* the classes that clients ask for one by one
  MaxOperations  \* bound: how many operations there are

ASSUME BoundAssumption == MaxOperations \in Nat

Client ==
  \/ Configuration({}) \/ \E f \in Files : Configuration({f})
  \/ \E f \in Files : module(f) \/ py_load(f) \/ set_active(f)
  \/ \E db \in Databases, incl \in SUBSET (Files \ Databases) : create_db(db, incl)
  \/ \E db \in Databases, f \in Files : py_add_include(db, f) \/ py_remove_include(db, f)
  \/ \E throws \in BOOLEAN : py_unload(throws)
  \/ py_del \/ py_commit
  \/ \E c \in Asked, all \in BOOLEAN : py_get_class_info(c, all)

\* A C++ client of the same library.
CxxClient ==
  /\ ~python
  /\ UNCHANGED <<python, param, cached, files, call, synced, process>>
  /\ \/ \E f \in Files : ctor({f}) \/ load(f)
     \/ ctor({})
     \/ \E db \in Databases, f \in Files : add_include(db, f) \/ remove_include(db, f)
     \/ \E db \in Databases, incl \in SUBSET (Files \ Databases) : create(db, incl)
     \/ commit \/ abort \/ dtor
     \/ \E throws \in BOOLEAN : unload(throws)
     \/ \E c \in Asked, direct \in BOOLEAN : get_class_info(c, direct)
     \/ \E matching \in SUBSET Classes :
          export_data(matching) \/ \E direct \in BOOLEAN : export_schema(matching, direct)

Operation ==
  /\ operations < MaxOperations
  /\ operations' = operations + 1
  /\ Client \/ CxxClient

Refresh ==
  /\ update \/ generate \/ fail \/ associate
  /\ UNCHANGED operations

\* The thread that is in the middle of a Python operation goes on with it.
PySpec == PyInit /\ [][Operation \/ Refresh]_vars /\ WF_vars(Refresh)

----------------------------------------------------------------------------
(* Properties.                                                             *)

TypeOK ==
  /\ impl \in BOOLEAN /\ python \in BOOLEAN /\ synced \in BOOLEAN
  /\ python => impl
  /\ roots \subseteq Files /\ session \subseteq Files /\ process \subseteq Files
  /\ includes \in [Databases -> SUBSET Files] /\ saved \in [Databases -> SUBSET Files]
  /\ Opened \in Schemas
  /\ DOMAIN p_superclasses \subseteq Classes /\ DOMAIN p_subclasses \subseteq Classes
  /\ DOMAIN p_direct \subseteq Classes /\ DOMAIN p_all \subseteq Classes
  /\ DOMAIN data \subseteq Classes /\ keys \subseteq Classes
  /\ \A c \in DOMAIN dal : c \in Classes /\ dal[c].types \subseteq Classes
  /\ databases \subseteq Files /\ active \in databases \cup {None}
  /\ operations \in 0 .. MaxOperations
  /\ idle => call.ordered = <<>>

\* Between operations, once no file was opened by load() alone, the Python
\* layer can make and cache an object of any class there is: the class is
\* described, has a DAL class, and __cache__ a key for each of its types
\* (__update_cache__() would end in KeyError otherwise).  That is so until a file
\* opened since the last unload() declares a class that type() refuses to make.
PythonKnowsClasses ==
  python /\ idle /\ synced /\ Declared(session) \subseteq Linearisable =>
    \A c \in classes : /\ c \in DOMAIN data /\ c \in DOMAIN dal
                       /\ data[c].dal
                       /\ dal[c].types \subseteq keys

\* oksTypes() of a DAL class are its class and all superclasses, in whatever
\* order generate() came to make the classes, over several Configurations.
TypesAreSuperclasses ==
  \A c \in DOMAIN dal \cap classes : dal[c].types = {c} \cup p_superclasses[c]

\* __schema__ and the DAL classes describe the open files, for classes that
\* no two files opened in this process declare differently.
PythonSchemaCurrent ==
  python => \A c \in classes :
    (\A d \in p_superclasses[c] \cup {c} : DeclaredAlike(process, d)) =>
      LET now == Description(Opened, c, FALSE) IN
      /\ c \in DOMAIN data => /\ data[c].attributes = now.attributes
                              /\ data[c].superclasses = now.superclasses
      /\ c \in DOMAIN dal => dal[c].attributes = now.attributes

\* generate() ends: its loop cannot rotate the same classes for ever.
GenerateEnds == ~idle ~> idle

\* The attributes of the DAL classes.
Assignable == UNION {dal[c].attributes : c \in DOMAIN dal}

SoundlyStored(stored, attr, known) ==
  ~Raised(stored) =>
    /\ (\E item \in attr.range : IsOpen(item)) \/ \A e \in Elements(stored) : Conforms(e, attr, known)
    /\ setattr(attr, stored, known) = stored
Sound == [a \in DOMAIN AttributeOf |-> [known \in SUBSET Classes |-> \A v \in Values :
  SoundlyStored(setattr(AttributeOf[a], v, known), AttributeOf[a], known)]]

\* What __setattr__() of an attribute accepts is of the attribute's type and
\* range, and would be accepted again as it is.  (An open interval is excused:
\* it takes the place of the type's own limits.)
AcceptedConforms == \A a \in Assignable : Sound[a][DOMAIN dal]

Complete == [a \in DOMAIN AttributeOf |-> [known \in SUBSET Classes |-> \A v \in Values :
  LET attr == AttributeOf[a] IN
  /\ v # Nothing /\ (v.py = "list") = attr.multivalue
     /\ (\A e \in Elements(v) : Conforms(e, attr, known)) => setattr(attr, v, known) = v
  /\ v.py = "str" /\ attr.type \in IntNumbers /\ ~attr.multivalue =>
       \A n \in DOMAIN Denotes :
         v.t \in Denotes[n] /\ Conforms(Num(n), attr, known) => setattr(attr, v, known) = Num(n)]]

\* It accepts, and keeps, every value that conforms, and takes a numeral for
\* the number that it denotes.
ConformingAccepted == \A a \in Assignable : Complete[a][DOMAIN dal]

\* "Returns a given attribute or relationship ... or throws an AttributeError
\* if no such thing exists" (dal.py:361-366): reading one that is not set
\* raises nothing else.
DefaultConforms ==
  \A a \in Assignable : ~Raised(getattr(AttributeOf[a], DOMAIN dal))
=============================================================================
