-------------------------- MODULE SchemaCachesProof --------------------------
(***************************************************************************)
(* The inheritance maps, the cached descriptions and the Python layer's    *)
(* view of the schema are those of the open files, for any files, classes  *)
(* and declarations.                                                       *)
(*                                                                         *)
(* The maps need little strengthening.  A cached description is remembered *)
(* to come from some consistent set of files opened since the last         *)
(* unload(), and two such sets that declare a class and all its            *)
(* superclasses alike have the same superclasses of it: the closure does   *)
(* not depend on what else the sets declare.                               *)
(*                                                                         *)
(* What the Python layer has noted of a class, and the DAL class it made,  *)
(* are remembered to come from a set of files open together in the life of *)
(* the process.  The types of a DAL class are those of whatever files are  *)
(* open now, as the superclasses of a class are the direct ones and        *)
(* theirs, and generate() makes a class after its bases; and while its     *)
(* loop runs, each class is described, and noted, made or still to be      *)
(* tried (PyInv).                                                          *)
(*                                                                         *)
(* Last, what the coercion of attribute values accepts is what the schema  *)
(* describes, for any tables: python_class keeps the values of its type,   *)
(* check_range() reads a range as the schema means it, so that coercing a  *)
(* value that was accepted once more changes nothing.                      *)
(***************************************************************************)
EXTENDS PySchema, FiniteSetTheorems, TLAPS

----------------------------------------------------------------------------
(* What a step does to the schema.                                         *)

Replaces == GetSuperclasses(Opened') /\ UNCHANGED <<p_direct, p_all>>
Empties ==
  /\ roots' = {} /\ session' = {}
  /\ p_superclasses' = Empty /\ p_direct' = Empty /\ p_all' = Empty
  /\ p_subclasses' \in {Empty, p_subclasses}
Keeps == UNCHANGED <<roots, includes, p_superclasses, p_subclasses, p_direct, p_all, session>>
Describes(asked, asked_all) ==
  /\ GetClassInfo(asked, asked_all)
  /\ UNCHANGED <<roots, includes, p_superclasses, p_subclasses, session>>

SchemaStep ==
  Replaces \/ Empties \/ Keeps \/ \E asked, asked_all : Describes(asked, asked_all)

\* Every operation of Configuration replaces the maps, leaves nothing open, adds
\* descriptions, or leaves all of it as it is.
LEMMA OperationKinds ==
  /\ \A spec : ctor(spec) => Replaces
  /\ \A f : load(f) => Replaces
  /\ \A db, f : add_include(db, f) \/ remove_include(db, f) => Replaces
  /\ \A db, incl : create(db, incl) => Replaces
  /\ abort => Replaces
  /\ commit => Keeps
  /\ dtor => Empties
  /\ \A throws \in BOOLEAN : unload(throws) => Empties \/ Keeps
  /\ \A c, direct : get_class_info(c, direct) => \E asked, asked_all : Describes(asked, asked_all)
  /\ \A matching, direct : export_schema(matching, direct) =>
       \E asked, asked_all : Describes(asked, asked_all)
  /\ UNCHANGED schemaVars => Keeps
<1>1. ASSUME NEW spec, ctor(spec) PROVE Replaces
  BY <1>1 DEF ctor, Replaces, Opened
<1>2. ASSUME NEW f, load(f) PROVE Replaces
  BY <1>2 DEF load, Replaces, Opened
<1>3. ASSUME NEW db, NEW f, add_include(db, f) \/ remove_include(db, f) PROVE Replaces
  BY <1>3 DEF add_include, remove_include, Replaces, Opened
<1>4. ASSUME NEW db, NEW incl, create(db, incl) PROVE Replaces
  BY <1>4 DEF create, Replaces, Opened
<1>5. ASSUME abort PROVE Replaces
  BY <1>5 DEF abort, Replaces, Opened
<1>6. ASSUME commit PROVE Keeps
  BY <1>6 DEF commit, Keeps, maps
<1>7. ASSUME dtor PROVE Empties
  BY <1>7 DEF dtor, Empties
<1>8. ASSUME NEW throws \in BOOLEAN, unload(throws) PROVE Empties \/ Keeps
  BY <1>8 DEF unload, Empties, Keeps
<1>9. ASSUME NEW c, NEW direct, get_class_info(c, direct)
      PROVE  \E asked, asked_all : Describes(asked, asked_all)
  BY <1>9 DEF get_class_info, Describes, plugin, maps
<1>10. ASSUME NEW matching, NEW direct, export_schema(matching, direct)
       PROVE  \E asked, asked_all : Describes(asked, asked_all)
  BY <1>10 DEF export_schema, Describes, plugin, maps
<1>11. ASSUME UNCHANGED schemaVars PROVE Keeps
  BY <1>11 DEF schemaVars, plugin, maps, Keeps
<1> QED
  BY <1>1, <1>2, <1>3, <1>4, <1>5, <1>6, <1>7, <1>8, <1>9, <1>10, <1>11

LEMMA CxxKinds == [Next]_schemaVars => SchemaStep
  BY OperationKinds DEF Next, export_data, SchemaStep

\* The same holds of the steps of a process with a Python client.
LEMMA PythonKinds == [Operation \/ Refresh]_vars => SchemaStep
<1> SUFFICES ASSUME [Operation \/ Refresh]_vars PROVE SchemaStep
  OBVIOUS
<1>1. CASE Client
  <2>1. ASSUME NEW spec, Configuration(spec) PROVE SchemaStep
    BY <2>1, OperationKinds DEF Configuration, SchemaStep
  <2>2. ASSUME NEW f, module(f) \/ py_load(f) PROVE SchemaStep
    BY <2>2, OperationKinds DEF module, py_load, SchemaStep
  <2>3. ASSUME NEW f, set_active(f) PROVE SchemaStep
    BY <2>3, OperationKinds DEF set_active, SchemaStep
  <2>4. ASSUME NEW db, NEW incl, create_db(db, incl) PROVE SchemaStep
    BY <2>4, OperationKinds DEF create_db, SchemaStep
  <2>5. ASSUME NEW db, NEW f, py_add_include(db, f) \/ py_remove_include(db, f) PROVE SchemaStep
    BY <2>5, OperationKinds DEF py_add_include, py_remove_include, SchemaStep
  <2>6. ASSUME NEW throws \in BOOLEAN, py_unload(throws) PROVE SchemaStep
    BY <2>6, OperationKinds DEF py_unload, SchemaStep
  <2>7. ASSUME py_del \/ py_commit PROVE SchemaStep
    BY <2>7, OperationKinds DEF py_del, Gone, py_commit, SchemaStep
  <2>8. ASSUME NEW c, NEW all, py_get_class_info(c, all) PROVE SchemaStep
    BY <2>8, OperationKinds DEF py_get_class_info, SchemaStep
  <2> QED
    BY <1>1, <2>1, <2>2, <2>3, <2>4, <2>5, <2>6, <2>7, <2>8 DEF Client
<1>2. CASE CxxClient
  BY <1>2, OperationKinds DEF CxxClient, export_data, SchemaStep
<1>3. CASE update
  BY <1>3 DEF update, Describes, plugin, maps, SchemaStep
<1>4. CASE generate \/ associate \/ UNCHANGED vars
  BY <1>4, OperationKinds DEF generate, associate, vars, SchemaStep
<1>5. CASE fail
  BY <1>5, OperationKinds DEF fail, Gone, SchemaStep
<1> QED
  BY <1>1, <1>2, <1>3, <1>4, <1>5 DEF Operation, Refresh

----------------------------------------------------------------------------
(* The maps.                                                               *)

\* The maps are those of the open files, but for the subclasses when there are
\* none.
MapsInv ==
  /\ p_superclasses = Superclasses[Opened]
  /\ SchemaCurrent

LEMMA NoFiles == {} \in Schemas /\ Superclasses[{}] = Empty
<1>1. {} \in Schemas /\ Declared({}) = {}
  BY DEF Schemas, Consistent, Declared
<1> QED
  BY <1>1 DEF Superclasses, Empty

LEMMA MapsAtFirst == Init => MapsInv
  BY NoFiles DEF Init, MapsInv, SchemaCurrent, Opened, FilesOf

LEMMA MapsStep == MapsInv /\ SchemaStep => MapsInv'
<1> SUFFICES ASSUME MapsInv, SchemaStep PROVE MapsInv'
  OBVIOUS
<1>1. CASE Replaces
  BY <1>1 DEF Replaces, MapsInv, SchemaCurrent, GetSuperclasses, set_subclasses
<1>2. CASE Empties
  BY <1>2, NoFiles DEF Empties, MapsInv, SchemaCurrent, Opened, FilesOf
<1>3. CASE UNCHANGED <<roots, includes, p_superclasses, p_subclasses>>
  <2>1. Opened' = Opened
    BY <1>3 DEF Opened, FilesOf
  <2> QED
    BY <1>3, <2>1 DEF MapsInv, SchemaCurrent
<1> QED
  BY <1>1, <1>2, <1>3 DEF SchemaStep, Keeps, Describes

\* Every operation that changes the open files replaces both maps, or, like
\* unload(), leaves no file open (Configuration.cpp:98-512, 573-617).
THEOREM MapsCurrent == Spec => []SchemaCurrent
<1>1. MapsInv => SchemaCurrent
  BY DEF MapsInv
<1> QED
  BY <1>1, MapsAtFirst, MapsStep, CxxKinds, PTL DEF Spec

----------------------------------------------------------------------------
(* The closure of superclasses.                                            *)

Closed(S, c, X) == \A e \in X \cup {c} : Definition(S, e).super \subseteq X

\* A class has the definition of one of the files that declare it.
LEMMA DefinitionOfFile ==
  ASSUME NEW S, NEW c \in Declared(S)
  PROVE  \E f \in S : c \in DOMAIN Declares[f] /\ Definition(S, c) = Declares[f][c]
<1>1. \E f \in S : c \in DOMAIN Declares[f]
  BY DEF Declared
<1> QED
  BY <1>1 DEF Definition

\* Two sets of files give a class the same definition when all files of a larger
\* set that declare it agree.
LEMMA SameDefinition ==
  ASSUME NEW U, NEW S \in SUBSET U, NEW T \in SUBSET U,
         NEW c \in Declared(S) \cap Declared(T), DeclaredAlike(U, c)
  PROVE  Definition(S, c) = Definition(T, c)
<1>1. PICK f \in S : c \in DOMAIN Declares[f] /\ Definition(S, c) = Declares[f][c]
  BY DefinitionOfFile
<1>2. PICK g \in T : c \in DOMAIN Declares[g] /\ Definition(T, c) = Declares[g][c]
  BY DefinitionOfFile
<1> QED
  BY <1>1, <1>2 DEF DeclaredAlike

\* The superclasses of a class are the least closed set of declared classes.
LEMMA LeastClosed ==
  ASSUME NEW S, Consistent(S), NEW c \in Declared(S)
  PROVE  /\ Above(S, c) \subseteq Declared(S)
         /\ Closed(S, c, Above(S, c))
         /\ \A X \in SUBSET Declared(S) : Closed(S, c, X) => Above(S, c) \subseteq X
<1>1. Above(S, c) \subseteq Declared(S)
  BY DEF Above
<1>2. \A X \in SUBSET Declared(S) : Closed(S, c, X) => Above(S, c) \subseteq X
  BY DEF Above, Closed
<1>3. ASSUME NEW e \in Above(S, c) \cup {c}, NEW d \in Definition(S, e).super
      PROVE  d \in Above(S, c)
  <2>1. e \in Declared(S)
    BY <1>1
  <2>2. d \in Declared(S)
    BY <2>1, <1>3 DEF Consistent
  <2>3. ASSUME NEW X \in SUBSET Declared(S),
               \A g \in X \cup {c} : Definition(S, g).super \subseteq X
        PROVE  d \in X
    <3>1. e \in X \cup {c}
      BY <2>3, <1>2, <1>3 DEF Closed
    <3> QED
      BY <3>1, <2>3, <1>3
  <2> QED
    BY <2>2, <2>3 DEF Above
<1> QED
  BY <1>1, <1>2, <1>3 DEF Closed

\* Two consistent sets of files that give a class, and those of its superclasses
\* in one of them that both declare, the same direct superclasses, give it the
\* same superclasses.
LEMMA SameAbove ==
  ASSUME NEW S, NEW T, Consistent(S), Consistent(T),
         NEW c \in Declared(S) \cap Declared(T),
         \A d \in (Above(T, c) \cup {c}) \cap Declared(S) :
           Definition(S, d).super = Definition(T, d).super
  PROVE  Above(S, c) = Above(T, c)
<1> DEFINE A == Above(T, c)
<1> DEFINE Y == A \cap Declared(S)
<1>1. \A e \in Y \cup {c} : /\ e \in Declared(S) \cap Declared(T)
                          /\ Definition(S, e).super = Definition(T, e).super
  BY LeastClosed
<1>2. \A e \in Y \cup {c} : Definition(T, e).super \subseteq Y
  <2>1. \A e \in Y \cup {c} : Definition(T, e).super \subseteq A
    BY LeastClosed DEF Closed
  <2>2. \A e \in Y \cup {c} : Definition(S, e).super \subseteq Declared(S)
    BY <1>1 DEF Consistent
  <2> QED
    BY <2>1, <2>2, <1>1
<1>3. A = Y
  <2>1. Y \in SUBSET Declared(T)
    BY LeastClosed
  <2>2. A \subseteq Y
    BY <2>1, <1>2, LeastClosed DEF Closed
  <2> QED
    BY <2>2
<1>4. Above(S, c) \subseteq A
  <2>1. Closed(S, c, Y)
    BY <1>1, <1>2 DEF Closed
  <2>2. Above(S, c) \subseteq Y
    BY <2>1, LeastClosed
  <2> QED
    BY <2>2
<1>5. A \subseteq Above(S, c)
  <2> DEFINE B == Above(S, c)
  <2>1. B \subseteq Y
    BY <1>3, <1>4
  <2>2. Closed(S, c, B)
    BY LeastClosed
  <2>3. Closed(T, c, B)
    BY <2>1, <2>2, <1>1 DEF Closed
  <2>4. B \in SUBSET Declared(T)
    BY <2>1, LeastClosed
  <2> QED
    BY <2>3, <2>4, LeastClosed
<1> QED
  BY <1>4, <1>5

\* So do two sets of files among which all that declare the class or one of its
\* superclasses agree.
LEMMA SameSuperclasses ==
  ASSUME NEW U, NEW S \in SUBSET U, NEW T \in SUBSET U, Consistent(S), Consistent(T),
         NEW c \in Declared(S) \cap Declared(T),
         \A d \in Above(T, c) \cup {c} : DeclaredAlike(U, d)
  PROVE  Above(S, c) = Above(T, c)
<1>1. \A d \in (Above(T, c) \cup {c}) \cap Declared(S) :
        d \in Declared(T) /\ Definition(S, d) = Definition(T, d)
  BY LeastClosed, SameDefinition
<1> QED
  BY <1>1, SameAbove

\* They describe the class alike, too.
LEMMA SameDescription ==
  ASSUME NEW U, NEW S \in SUBSET U, NEW T \in SUBSET U, S \in Schemas, T \in Schemas,
         NEW c \in Declared(S) \cap Declared(T),
         \A d \in Superclasses[T][c] \cup {c} : DeclaredAlike(U, d)
  PROVE  /\ Description(S, c, FALSE).attributes = Description(T, c, FALSE).attributes
         /\ Description(S, c, FALSE).superclasses = Description(T, c, FALSE).superclasses
<1>1. ASSUME NEW R \in Schemas, NEW k \in Declared(R)
      PROVE  Superclasses[R][k] = Above(R, k) /\ Consistent(R)
  BY DEF Superclasses, Schemas
<1>2. Superclasses[S][c] = Superclasses[T][c]
  BY <1>1, SameSuperclasses
<1>3. \A d \in Superclasses[S][c] \cup {c} : d \in Declared(S) \cap Declared(T)
  BY <1>1, <1>2, LeastClosed
<1>4. \A d \in Superclasses[S][c] \cup {c} : Definition(S, d) = Definition(T, d)
  BY <1>2, <1>3, SameDefinition
<1> QED
  BY <1>2, <1>4 DEF Description

----------------------------------------------------------------------------
(* The descriptions.                                                       *)

\* Each cached description was made from a consistent set of files that have
\* been open since the last unload().
Remembers(cache, direct) ==
  \A c \in DOMAIN cache : \E S \in SUBSET session :
    S \in Schemas /\ c \in Declared(S) /\ cache[c] = Description(S, c, direct)

DescriptionInv ==
  /\ Opened \subseteq session
  /\ Opened \in Schemas
  /\ Remembers(p_direct, TRUE)
  /\ Remembers(p_all, FALSE)

\* Replacing the maps adds to the files of the session and touches no description.
LEMMA DescriptionsReplaced ==
  ASSUME DescriptionInv, NEW S, GetSuperclasses(S), S = Opened', UNCHANGED <<p_direct, p_all>>
  PROVE  DescriptionInv'
<1>1. S \in Schemas /\ S \subseteq session' /\ session \subseteq session'
  BY DEF GetSuperclasses
<1>2. Schemas' = Schemas
  BY DEF Schemas, Consistent, DeclaredAlike, Definition, Declared
<1>3. Remembers(p_direct, TRUE)'
  BY <1>1 DEF DescriptionInv, Remembers
<1>4. Remembers(p_all, FALSE)'
  BY <1>1 DEF DescriptionInv, Remembers
<1> QED
  BY <1>1, <1>3, <1>4 DEF DescriptionInv

\* unload() and the destructor leave no file open and no description.
LEMMA DescriptionsEmptied ==
  ASSUME roots' = {}, p_direct' = Empty, p_all' = Empty
  PROVE  DescriptionInv'
<1>1. Opened' = {}
  BY DEF Opened, FilesOf
<1>2. Remembers(p_direct, TRUE)' /\ Remembers(p_all, FALSE)'
  BY DEF Remembers, Empty
<1> QED
  BY <1>1, <1>2, NoFiles DEF DescriptionInv

\* A description that is added comes from the open files.
LEMMA DescriptionsAdded ==
  ASSUME DescriptionInv, NEW asked, NEW asked_all, GetClassInfo(asked, asked_all),
         UNCHANGED <<roots, includes, session>>
  PROVE  DescriptionInv'
<1>1. Opened' = Opened
  BY DEF Opened, FilesOf
<1>2. Remembers(p_direct, TRUE)'
  <2>1. p_direct' = Described(p_direct, asked, TRUE) /\ asked \subseteq DOMAIN p_direct \cup Declared(Opened)
    BY DEF GetClassInfo
  <2>2. \A c \in DOMAIN p_direct' : \E T \in SUBSET session :
          T \in Schemas /\ c \in Declared(T) /\ p_direct'[c] = Description(T, c, TRUE)
    <3> SUFFICES ASSUME NEW c \in DOMAIN p_direct \cup asked
                 PROVE  \E T \in SUBSET session :
                          T \in Schemas /\ c \in Declared(T) /\ p_direct'[c] = Description(T, c, TRUE)
      BY <2>1 DEF Described
    <3>1. CASE c \in DOMAIN p_direct
      <4>1. p_direct'[c] = p_direct[c]
        BY <2>1, <3>1 DEF Described
      <4> QED
        BY <4>1, <3>1 DEF DescriptionInv, Remembers
    <3>2. CASE c \notin DOMAIN p_direct
      <4>1. p_direct'[c] = Description(Opened, c, TRUE) /\ c \in Declared(Opened)
        BY <2>1, <3>2 DEF Described
      <4> QED
        BY <4>1 DEF DescriptionInv
    <3> QED
      BY <3>1, <3>2
  <2> QED
    BY <2>2 DEF Remembers
<1>3. Remembers(p_all, FALSE)'
  <2>1. p_all' = Described(p_all, asked_all, FALSE) /\ asked_all \subseteq DOMAIN p_all \cup Declared(Opened)
    BY DEF GetClassInfo
  <2>2. \A c \in DOMAIN p_all' : \E T \in SUBSET session :
          T \in Schemas /\ c \in Declared(T) /\ p_all'[c] = Description(T, c, FALSE)
    <3> SUFFICES ASSUME NEW c \in DOMAIN p_all \cup asked_all
                 PROVE  \E T \in SUBSET session :
                          T \in Schemas /\ c \in Declared(T) /\ p_all'[c] = Description(T, c, FALSE)
      BY <2>1 DEF Described
    <3>1. CASE c \in DOMAIN p_all
      <4>1. p_all'[c] = p_all[c]
        BY <2>1, <3>1 DEF Described
      <4> QED
        BY <4>1, <3>1 DEF DescriptionInv, Remembers
    <3>2. CASE c \notin DOMAIN p_all
      <4>1. p_all'[c] = Description(Opened, c, FALSE) /\ c \in Declared(Opened)
        BY <2>1, <3>2 DEF Described
      <4> QED
        BY <4>1 DEF DescriptionInv
    <3> QED
      BY <3>1, <3>2
  <2> QED
    BY <2>2 DEF Remembers
<1> QED
  BY <1>1, <1>2, <1>3 DEF DescriptionInv

\* When nothing but the saved includes changes, nothing is lost.
LEMMA DescriptionsKept ==
  ASSUME DescriptionInv, UNCHANGED <<roots, includes, p_direct, p_all, session>>
  PROVE  DescriptionInv'
<1>1. Opened' = Opened
  BY DEF Opened, FilesOf
<1>2. Remembers(p_direct, TRUE)' /\ Remembers(p_all, FALSE)'
  BY DEF DescriptionInv, Remembers
<1> QED
  BY <1>1, <1>2 DEF DescriptionInv

LEMMA DescriptionsAtFirst == Init => DescriptionInv
<1> SUFFICES ASSUME Init PROVE DescriptionInv
  OBVIOUS
<1>1. Opened = {}
  BY DEF Init, Opened, FilesOf
<1>2. Remembers(p_direct, TRUE) /\ Remembers(p_all, FALSE)
  BY DEF Init, Remembers, Empty
<1> QED
  BY <1>1, <1>2, NoFiles DEF DescriptionInv

LEMMA DescriptionStep == DescriptionInv /\ SchemaStep => DescriptionInv'
  BY DescriptionsReplaced, DescriptionsEmptied, DescriptionsKept, DescriptionsAdded
  DEF SchemaStep, Replaces, Empties, Keeps, Describes

LEMMA DescriptionsAreCurrent == DescriptionInv => DescriptionsCurrent
<1> SUFFICES ASSUME DescriptionInv, NEW c \in Declared(Opened),
                    \A d \in Superclasses[Opened][c] \cup {c} : DeclaredAlike(session, d)
             PROVE  /\ c \in DOMAIN p_direct =>
                         /\ p_direct[c].attributes = Description(Opened, c, TRUE).attributes
                         /\ p_direct[c].superclasses = Description(Opened, c, TRUE).superclasses
                    /\ c \in DOMAIN p_all =>
                         /\ p_all[c].attributes = Description(Opened, c, FALSE).attributes
                         /\ p_all[c].superclasses = Description(Opened, c, FALSE).superclasses
  BY DEF DescriptionsCurrent
<1>1. Opened \in Schemas /\ Opened \in SUBSET session
  BY DEF DescriptionInv
<1>2. ASSUME c \in DOMAIN p_direct
      PROVE  /\ p_direct[c].attributes = Description(Opened, c, TRUE).attributes
             /\ p_direct[c].superclasses = Description(Opened, c, TRUE).superclasses
  <2>1. PICK S \in SUBSET session :
          c \in Declared(S) /\ p_direct[c] = Description(S, c, TRUE)
    BY <1>2 DEF DescriptionInv, Remembers
  <2>2. Definition(S, c) = Definition(Opened, c)
    BY <2>1, <1>1, SameDefinition
  <2> QED
    BY <2>1, <2>2 DEF Description
<1>3. ASSUME c \in DOMAIN p_all
      PROVE  /\ p_all[c].attributes = Description(Opened, c, FALSE).attributes
             /\ p_all[c].superclasses = Description(Opened, c, FALSE).superclasses
  <2>1. PICK S \in SUBSET session :
          S \in Schemas /\ c \in Declared(S) /\ p_all[c] = Description(S, c, FALSE)
    BY <1>3 DEF DescriptionInv, Remembers
  <2>2. c \in Declared(S) \cap Declared(Opened)
    BY <2>1
  <2>3. /\ Description(S, c, FALSE).attributes = Description(Opened, c, FALSE).attributes
        /\ Description(S, c, FALSE).superclasses = Description(Opened, c, FALSE).superclasses
    BY <2>1, <2>2, <1>1, SameDescription
  <2> QED
    BY <2>1, <2>3
<1> QED
  BY <1>2, <1>3

\* The attributes and superclasses that get_class_info() returns for a class are
\* those of the open files, whatever was opened and closed since unload(), when
\* no two of those files declare the class or a superclass of it differently.
THEOREM DescriptionsStayCurrent == Spec => []DescriptionsCurrent
  BY DescriptionsAtFirst, DescriptionStep, CxxKinds, DescriptionsAreCurrent, PTL DEF Spec

----------------------------------------------------------------------------
(* Classes that all files give the same direct superclasses.               *)

LEMMA DeclaredClasses ==
  ASSUME NEW S \in Schemas
  PROVE  Declared(S) \subseteq Classes /\ Consistent(S)
  BY FilesAssumption DEF Schemas, Declared

LEMMA SameDirect ==
  ASSUME NEW S \in Schemas, NEW T \in Schemas, NEW c \in Declared(S) \cap Declared(T)
  PROVE  Definition(S, c).super = Definition(T, c).super
<1>1. PICK f \in S : c \in DOMAIN Declares[f] /\ Definition(S, c) = Declares[f][c]
  BY DefinitionOfFile
<1>2. PICK g \in T : c \in DOMAIN Declares[g] /\ Definition(T, c) = Declares[g][c]
  BY DefinitionOfFile
<1>3. f \in Files /\ g \in Files
  BY DEF Schemas
<1> QED
  BY <1>1, <1>2, <1>3, HierarchyAssumption

\* A class has the same superclasses in every set of files.
LEMMA SameTypes ==
  ASSUME NEW S \in Schemas, NEW T \in Schemas, NEW c \in Declared(S) \cap Declared(T)
  PROVE  Above(S, c) = Above(T, c)
<1>1. Consistent(S) /\ Consistent(T)
  BY DEF Schemas
<1>2. \A d \in (Above(T, c) \cup {c}) \cap Declared(S) : d \in Declared(T)
  BY <1>1, LeastClosed
<1>3. \A d \in (Above(T, c) \cup {c}) \cap Declared(S) :
        Definition(S, d).super = Definition(T, d).super
  BY <1>2, SameDirect
<1> QED
  BY <1>1, <1>3, SameAbove

\* They are the direct ones and theirs.
LEMMA AboveByStep ==
  ASSUME NEW S \in Schemas, NEW c \in Declared(S)
  PROVE  Above(S, c) = UNION {{b} \cup Above(S, b) : b \in Definition(S, c).super}
<1> DEFINE D == Definition(S, c).super
<1> DEFINE X == UNION {{b} \cup Above(S, b) : b \in D}
<1>1. Consistent(S) /\ D \subseteq Declared(S)
  BY DEF Schemas, Consistent
<1>2. \A b \in D \cup {c} : Above(S, b) \subseteq Declared(S) /\ Closed(S, b, Above(S, b))
  BY <1>1, LeastClosed
<1>3. Above(S, c) \subseteq X
  <2>1. X \in SUBSET Declared(S)
    BY <1>1, <1>2
  <2>2. Closed(S, c, X)
    BY <1>2 DEF Closed
  <2> QED
    BY <2>1, <2>2, <1>1, LeastClosed
<1>4. ASSUME NEW b \in D PROVE {b} \cup Above(S, b) \subseteq Above(S, c)
  <2>1. b \in Above(S, c)
    BY <1>2, <1>4 DEF Closed
  <2>2. Closed(S, b, Above(S, c))
    BY <2>1, <1>2 DEF Closed
  <2> QED
    BY <2>1, <2>2, <1>1, <1>2, LeastClosed
<1> QED
  BY <1>3, <1>4

----------------------------------------------------------------------------
(* Sequences of classes.                                                   *)

Members(s) == {s[i] : i \in DOMAIN s}

LEMMA NoMembers == Members(<<>>) = {}
  BY DEF Members

LEMMA MembersOfTail ==
  ASSUME NEW T, NEW s \in Seq(T), s # <<>>
  PROVE  /\ Head(s) \in T /\ Tail(s) \in Seq(T)
         /\ Members(s) = {Head(s)} \cup Members(Tail(s))
<1>1. Len(s) \in Nat \ {0} /\ DOMAIN s = 1 .. Len(s) /\ Head(s) = s[1]
  OBVIOUS
<1>2. /\ Tail(s) \in Seq(T) /\ Len(Tail(s)) = Len(s) - 1
      /\ \A i \in 1 .. Len(s) - 1 : Tail(s)[i] = s[i + 1]
  BY <1>1
<1>3. Members(Tail(s)) \subseteq Members(s) /\ Head(s) \in Members(s)
  BY <1>1, <1>2 DEF Members
<1>4. ASSUME NEW i \in DOMAIN s PROVE s[i] \in {Head(s)} \cup Members(Tail(s))
  <2>1. CASE i = 1
    BY <2>1, <1>1
  <2>2. CASE i # 1
    <3>1. i - 1 \in DOMAIN Tail(s) /\ Tail(s)[i - 1] = s[i]
      BY <2>2, <1>1, <1>2
    <3> QED
      BY <3>1 DEF Members
  <2> QED
    BY <2>1, <2>2
<1> QED
  BY <1>1, <1>2, <1>3, <1>4 DEF Members

LEMMA MembersOfAppend ==
  ASSUME NEW T, NEW s \in Seq(T), NEW x \in T
  PROVE  Append(s, x) \in Seq(T) /\ Members(Append(s, x)) = Members(s) \cup {x}
<1> DEFINE t == Append(s, x)
<1>1. /\ t \in Seq(T) /\ Len(t) = Len(s) + 1 /\ Len(s) \in Nat
      /\ \A i \in 1 .. Len(s) : t[i] = s[i]
      /\ t[Len(s) + 1] = x
  OBVIOUS
<1>2. DOMAIN t = 1 .. Len(s) + 1 /\ DOMAIN s = 1 .. Len(s)
  BY <1>1
<1> HIDE DEF t
<1>3. Members(t) \subseteq Members(s) \cup {x}
  BY <1>1, <1>2 DEF Members
<1>4. Members(s) \subseteq Members(t)
  BY <1>1, <1>2 DEF Members
<1>5. x \in Members(t)
  BY <1>1, <1>2 DEF Members
<1> QED
  BY <1>1, <1>3, <1>4, <1>5 DEF t

\* generate() tries each of the new classes.
LEMMA MembersOfOrder ==
  ASSUME NEW new \in SUBSET Classes, NEW s \in Orders(new)
  PROVE  s \in Seq(Classes) /\ Members(s) = new
<1> DEFINE n == Cardinality(new)
<1>1. IsFiniteSet(new) /\ n \in Nat
  BY ClassesAssumption, FS_Subset, FS_CardinalityType
<1>2. s \in [1 .. n -> new] /\ \A i, j \in 1 .. n : i # j => s[i] # s[j]
  BY DEF Orders, SetToSeqs
<1>3. s \in Injection(1 .. n, new)
  BY <1>2 DEF Injection, IsInjective
<1>4. Cardinality(1 .. n) = n
  BY <1>1, FS_Interval
<1>5. s \in Surjection(1 .. n, new)
  BY <1>1, <1>3, <1>4, FS_Injection
<1> QED
  BY <1>1, <1>2, <1>5 DEF Surjection, Members

----------------------------------------------------------------------------
(* The Python layer.                                                       *)

\* What schema.Cache.update() notes of a class, and what generate() makes of it,
\* when the files S are open.
EntriesOf(S, c) ==
  [attributes : {Description(S, c, FALSE).attributes},
   superclasses : {Description(S, c, FALSE).superclasses}, dal : BOOLEAN]
DalAs(S, c) ==
  [types |-> {c} \cup Above(S, c), attributes |-> Description(S, c, FALSE).attributes]

\* The files open together in this process that a class may have been found in.
Sources(c) == {S \in Schemas : S \subseteq process /\ c \in Declared(S)}

PluginInv ==
  /\ impl \in BOOLEAN
  /\ includes \in [Databases -> SUBSET Files] /\ saved \in [Databases -> SUBSET Files]
ClientInv ==
  /\ PluginInv
  /\ python \in BOOLEAN /\ synced \in BOOLEAN
  /\ python => impl
  /\ DOMAIN p_subclasses \subseteq Classes
  /\ session \subseteq Files /\ process \subseteq Files /\ param \subseteq Files
  /\ python => session \subseteq process
  /\ databases \subseteq Files /\ active \in databases \cup {None}
  /\ keys \subseteq Classes
  /\ operations \in 0 .. MaxOperations

Operations == {"__init__", "module", "create_db", "add_include"}
CallSet == [op : Operations \cup {"none"},
            step : {"idle", "update", "generate"}, file : Files \cup {None},
            ordered : Seq(Classes), other : SUBSET Classes, klasses : SUBSET Classes]
CallInv ==
  /\ call \in CallSet
  /\ ~python => idle
  /\ Members(call.ordered) \subseteq DOMAIN p_direct \cap DOMAIN data
  /\ call.other \cup call.klasses \subseteq DOMAIN dal
  /\ call.op = "create_db" => call.file \in Files

DataInv ==
  /\ \A c \in DOMAIN data : \E S \in Sources(c) : data[c] \in EntriesOf(S, c)
  /\ WithDal \subseteq DOMAIN dal
DalInv == \A c \in DOMAIN dal : \E S \in Sources(c) : dal[c] = DalAs(S, c)

\* While generate() runs, each class has its DAL class noted, is made but not yet
\* noted, or is still to be tried; once it is over, each has one.
Awaited(c) == data[c].dal \/ c \in call.klasses \/ c \in Members(call.ordered)
ClassesInv ==
  /\ generating => \A c \in classes : c \in DOMAIN data /\ Awaited(c)
  /\ python /\ idle /\ synced /\ Declared(session) \subseteq Linearisable =>
       \A c \in classes : c \in DOMAIN data \cap keys /\ data[c].dal

PyInv ==
  /\ MapsInv /\ DescriptionInv
  /\ ClientInv /\ CallInv /\ DataInv /\ DalInv /\ ClassesInv

\* What holds of the schema between steps.
LEMMA SchemaFacts ==
  ASSUME MapsInv, DescriptionInv
  PROVE  /\ Opened \in Schemas /\ Opened \subseteq Files /\ Opened \subseteq session
         /\ roots \subseteq Files
         /\ classes = Declared(Opened) /\ classes \subseteq Classes
         /\ \A c \in classes : p_superclasses[c] = Above(Opened, c)
         /\ DOMAIN p_direct \subseteq Classes /\ DOMAIN p_all \subseteq Classes
<1>1. Opened \in Schemas /\ Opened \subseteq session
  BY DEF DescriptionInv
<1>2. Opened \subseteq Files
  BY <1>1 DEF Schemas
<1>3. roots \subseteq Files
  BY <1>2 DEF Opened, FilesOf
<1>4. classes = Declared(Opened) /\ \A c \in classes : p_superclasses[c] = Above(Opened, c)
  BY <1>1 DEF MapsInv, Superclasses, classes
<1>5. classes \subseteq Classes
  BY <1>1, <1>4, DeclaredClasses
<1>6. DOMAIN p_direct \subseteq Classes /\ DOMAIN p_all \subseteq Classes
  BY DeclaredClasses DEF DescriptionInv, Remembers
<1> QED
  BY <1>1, <1>2, <1>3, <1>4, <1>5, <1>6

LEMMA SourcesKept ==
  ASSUME process \subseteq process', NEW c
  PROVE  Sources(c) \subseteq Sources(c)'
  BY DEF Sources

LEMMA PyAtFirst == PyInit => PyInv
<1> SUFFICES ASSUME PyInit PROVE PyInv
  OBVIOUS
<1>1. Init
  BY DEF PyInit
<1>2. ClientInv
  <2>1. DOMAIN p_subclasses = {} /\ includes \in [Databases -> SUBSET Files] /\ saved = includes
    BY <1>1 DEF Init, Empty
  <2>2. operations \in 0 .. MaxOperations
    BY BoundAssumption DEF PyInit
  <2> QED
    BY <1>1, <2>1, <2>2 DEF PyInit, Init, ClientInv, PluginInv
<1>3. CallInv
  BY NoMembers DEF PyInit, CallInv, CallSet, Idle, idle
<1>4. DataInv /\ DalInv
  BY DEF PyInit, DataInv, WithDal, DalInv, Empty
<1>5. ClassesInv
  BY DEF PyInit, ClassesInv, Idle, idle, generating
<1> QED
  BY <1>1, <1>2, <1>3, <1>4, <1>5, MapsAtFirst, DescriptionsAtFirst DEF PyInv

\* An operation that refreshes the schema has called C++.
Starts(op, f) ==
  /\ idle /\ Replaces /\ python' = TRUE
  /\ Begin(op, f)
  /\ data' \in {data, Empty}
  /\ UNCHANGED <<dal, keys, files, synced>>

\* An operation that does not.
Calls ==
  /\ idle
  /\ process' \in {process, process \cup session'}
  /\ UNCHANGED <<python, data, dal, keys, databases, call>>

\* A turn of generate() that ends in TypeError, in a Configuration that stays.
Raises ==
  /\ generating /\ call.ordered # <<>> /\ Head(call.ordered) \notin Linearisable
  /\ call' = Idle
  /\ UNCHANGED <<schemaVars, python, param, cached, files, synced, process>>

LEMMA FailKinds == fail => Raises \/ Gone
  BY DEF fail, Raises

LEMMA CallKinds ==
  /\ \A spec : Configuration(spec) => Starts("__init__", None)
  /\ \A f : module(f) => Starts("module", None)
  /\ \A db, incl : create_db(db, incl) => Starts("create_db", db)
  /\ \A db, f : py_add_include(db, f) => Starts("add_include", db)
  /\ \A db, f : py_remove_include(db, f) => Calls
  /\ \A f : set_active(f) => Calls
  /\ \A f : py_load(f) => Calls
  /\ \A throws : py_unload(throws) => Calls
  /\ \A c, all : py_get_class_info(c, all) => Calls
  /\ py_commit => Calls
  /\ CxxClient /\ idle => Calls
<1>1. ASSUME NEW spec, Configuration(spec) PROVE Starts("__init__", None)
  BY <1>1, OperationKinds DEF Configuration, Starts, cached
<1>2. ASSUME NEW f, module(f) PROVE Starts("module", None)
  BY <1>2, OperationKinds DEF module, Starts, cached
<1>3. ASSUME NEW db, NEW incl, create_db(db, incl) PROVE Starts("create_db", db)
  BY <1>3, OperationKinds DEF create_db, Starts, cached
<1>4. ASSUME NEW db, NEW f, py_add_include(db, f) PROVE Starts("add_include", db)
  BY <1>4, OperationKinds DEF py_add_include, Starts, cached
<1>5. ASSUME NEW db, NEW f, py_remove_include(db, f) PROVE Calls
  BY <1>5 DEF py_remove_include, Calls, cached, files
<1>6. ASSUME NEW f, set_active(f) \/ py_load(f) PROVE Calls
  BY <1>6 DEF set_active, py_load, Calls, cached, files
<1>7. ASSUME NEW throws, py_unload(throws) PROVE Calls
  BY <1>7 DEF py_unload, Calls, cached, files
<1>8. ASSUME NEW c, NEW all, py_get_class_info(c, all) PROVE Calls
  BY <1>8 DEF py_get_class_info, Calls, cached, files
<1>9. ASSUME py_commit \/ (CxxClient /\ idle) PROVE Calls
  BY <1>9 DEF py_commit, CxxClient, Calls, cached, files
<1> QED
  BY <1>1, <1>2, <1>3, <1>4, <1>5, <1>6, <1>7, <1>8, <1>9

\* A step of the process, by what it does to the Python layer.
LEMMA PyStepKinds ==
  ASSUME CallInv, [Operation \/ Refresh]_vars
  PROVE  \/ \E op \in Operations, f \in Files \cup {None} :
              Starts(op, f) /\ (op = "create_db" => f \in Files)
         \/ Calls \/ Gone \/ update \/ generate \/ Raises \/ associate \/ UNCHANGED vars
<1> USE FilesAssumption
<1>1. CASE Client
  <2>1. ASSUME NEW spec, Configuration(spec) PROVE Starts("__init__", None)
    BY <2>1, CallKinds
  <2>2. ASSUME NEW f, module(f) PROVE Starts("module", None)
    BY <2>2, CallKinds
  <2>3. ASSUME NEW db \in Databases, NEW incl, create_db(db, incl)
        PROVE  Starts("create_db", db) /\ db \in Files
    BY <2>3, CallKinds
  <2>4. ASSUME NEW db \in Databases, NEW f, py_add_include(db, f)
        PROVE  Starts("add_include", db) /\ db \in Files
    BY <2>4, CallKinds
  <2>5. ASSUME \/ \E f : py_load(f) \/ set_active(f)
               \/ \E db, f : py_remove_include(db, f)
               \/ \E throws : py_unload(throws)
               \/ py_commit
               \/ \E c, all : py_get_class_info(c, all)
        PROVE  Calls
    BY <2>5, CallKinds
  <2> QED
    BY <1>1, <2>1, <2>2, <2>3, <2>4, <2>5 DEF Client, Operations, py_del
<1>2. CASE CxxClient
  <2>1. idle
    BY <1>2 DEF CxxClient, CallInv
  <2> QED
    BY <1>2, <2>1, CallKinds
<1> QED
  BY <1>1, <1>2, FailKinds DEF Operation, Refresh

LEMMA SmallerInclude ==
  ASSUME NEW db, NEW f, remove_include(db, f), includes \in [Databases -> SUBSET Files]
  PROVE  Opened' \subseteq Opened
<1>1. roots' = roots /\ includes' = [includes EXCEPT ![db] = @ \ {f}]
  BY DEF remove_include
<1>2. \A d \in Databases : includes'[d] \subseteq includes[d]
  BY <1>1
<1> QED
  BY <1>1, <1>2 DEF Opened, FilesOf

\* The plug-in's files.
LEMMA PluginStep ==
  ASSUME MapsInv, DescriptionInv, ClientInv, CallInv, [Operation \/ Refresh]_vars
  PROVE  PluginInv'
<1>1. PluginInv
  BY DEF ClientInv
<1>2. ASSUME NEW spec, ctor(spec) PROVE PluginInv'
  BY <1>1, <1>2 DEF ctor, PluginInv
<1>3. ASSUME NEW f, load(f) PROVE PluginInv'
  BY <1>1, <1>3 DEF load, PluginInv
<1>4. ASSUME NEW db \in Databases, NEW incl \in SUBSET (Files \ Databases), create(db, incl) PROVE PluginInv'
  BY <1>1, <1>4 DEF create, PluginInv
<1>5. ASSUME NEW db \in Databases, NEW f \in Files, add_include(db, f) \/ remove_include(db, f) PROVE PluginInv'
  BY <1>1, <1>5 DEF add_include, remove_include, PluginInv
<1>6. ASSUME commit \/ abort PROVE PluginInv'
  BY <1>1, <1>6 DEF commit, abort, PluginInv
<1>7. ASSUME NEW throws, unload(throws) PROVE PluginInv'
  BY <1>1, <1>7 DEF unload, PluginInv
<1>8. ASSUME dtor PROVE PluginInv'
  BY <1>1, <1>8 DEF dtor, PluginInv
<1>9. ASSUME UNCHANGED <<impl, plugin>> PROVE PluginInv'
  BY <1>1, <1>9 DEF plugin, PluginInv
<1>10. ASSUME NEW c, NEW direct, get_class_info(c, direct) \/ export_schema(c, direct) PROVE PluginInv'
  BY <1>9, <1>10 DEF get_class_info, export_schema
<1>11. CASE Client
  BY <1>11, <1>2, <1>3, <1>4, <1>5, <1>6, <1>7, <1>8, <1>9, <1>10
  DEF Client, Configuration, module, create_db, py_add_include, py_remove_include, py_load, set_active,
      py_unload, py_del, Gone, py_commit, py_get_class_info, schemaVars
<1>12. CASE CxxClient
  BY <1>12, <1>2, <1>3, <1>4, <1>5, <1>6, <1>7, <1>8, <1>10 DEF CxxClient, export_data
<1>13. CASE Refresh \/ UNCHANGED vars
  BY <1>8, <1>9, <1>13, FailKinds DEF Refresh, update, generate, Raises, Gone, associate, vars, schemaVars
<1> QED
  BY <1>11, <1>12, <1>13 DEF Operation

\* The files of the session, and those of the process.
LEMMA SessionStep ==
  ASSUME MapsInv, DescriptionInv, ClientInv, CallInv, [Operation \/ Refresh]_vars
  PROVE  /\ session' \subseteq Files /\ DOMAIN p_subclasses' \subseteq Classes
         /\ process \subseteq process' /\ process' \subseteq Files
         /\ python' => session' \subseteq process'
<1>1. session' \subseteq Files /\ DOMAIN p_subclasses' \subseteq Classes
  <2>1. CASE Replaces
    <3>1. Opened' \in Schemas /\ p_superclasses' = Superclasses[Opened'] /\ session' = session \cup Opened'
      BY <2>1 DEF Replaces, GetSuperclasses
    <3>2. Opened' \subseteq Files
      BY <3>1 DEF Schemas
    <3>3. \A c \in Declared(Opened') : Above(Opened', c) \subseteq Classes
      BY <3>1, DeclaredClasses DEF Above
    <3>4. p_superclasses' = [c \in Declared(Opened') |-> Above(Opened', c)]
      BY <3>1 DEF Superclasses
    <3>5. p_subclasses' = set_subclasses(p_superclasses')
      BY <2>1 DEF Replaces, GetSuperclasses
    <3>6. DOMAIN p_subclasses' = UNION {p_superclasses'[c] : c \in DOMAIN p_superclasses'}
      BY <3>5 DEF set_subclasses
    <3>7. \A c \in DOMAIN p_superclasses' : p_superclasses'[c] \subseteq Classes
      BY <3>3, <3>4
    <3> QED
      BY <3>1, <3>2, <3>6, <3>7 DEF ClientInv
  <2>2. CASE Empties
    BY <2>2 DEF Empties, Empty, ClientInv
  <2>3. CASE UNCHANGED <<session, p_subclasses>>
    BY <2>3 DEF ClientInv
  <2> QED
    BY <2>1, <2>2, <2>3, PythonKinds DEF SchemaStep, Keeps, Describes
<1>2. process \subseteq process' /\ process' \subseteq Files
  BY <1>1, PyStepKinds
  DEF ClientInv, Starts, Begin, Calls, Gone, update, generate, Raises, associate, vars
<1>3. ASSUME python' PROVE session' \subseteq process'
  <2>1. ASSUME NEW op, NEW f, Starts(op, f) PROVE session' \subseteq process'
    BY <2>1 DEF Starts, Begin
  <2>2. ASSUME python, UNCHANGED <<session, process>> PROVE session' \subseteq process'
    BY <2>2 DEF ClientInv
  <2>3. CASE Client
    <3>1. ASSUME NEW f, py_load(f) PROVE session' \subseteq process'
      BY <3>1 DEF py_load
    <3>2. ASSUME NEW db, NEW f, py_remove_include(db, f) PROVE session' \subseteq process'
      <4>1. Opened' \subseteq session
        BY <3>2, SmallerInclude, SchemaFacts DEF py_remove_include, ClientInv, PluginInv
      <4>2. session' = session \cup Opened'
        BY <3>2, OperationKinds DEF py_remove_include, Replaces, GetSuperclasses
      <4> QED
        BY <3>2, <4>1, <4>2 DEF py_remove_include, ClientInv
    <3>3. ASSUME NEW throws, py_unload(throws) PROVE session' \subseteq process'
      BY <3>3 DEF py_unload, unload, ClientInv
    <3>4. ASSUME \/ \E f : set_active(f)
                 \/ py_commit
                 \/ \E c, all : py_get_class_info(c, all)
          PROVE  session' \subseteq process'
      BY <3>4, <2>2 DEF set_active, py_commit, py_get_class_info, commit, get_class_info, schemaVars
    <3>5. ~py_del
      BY <1>3 DEF py_del, Gone
    <3> QED
      BY <2>3, <2>1, <3>1, <3>2, <3>3, <3>4, <3>5, CallKinds DEF Client
  <2>4. ~CxxClient
    BY <1>3 DEF CxxClient
  <2>5. CASE Refresh \/ UNCHANGED vars
    BY <1>3, <2>2, <2>5, FailKinds DEF Refresh, update, generate, Raises, Gone, associate, vars, schemaVars
  <2> QED
    BY <2>3, <2>4, <2>5 DEF Operation
<1> QED
  BY <1>1, <1>2, <1>3

LEMMA ClientStep ==
  ASSUME MapsInv, DescriptionInv, ClientInv, CallInv, [Operation \/ Refresh]_vars
  PROVE  ClientInv'
<1>1. python' \in BOOLEAN /\ synced' \in BOOLEAN
  BY FailKinds
  DEF ClientInv, Client, CxxClient, Operation, Refresh, Configuration, module, create_db, py_add_include,
      py_remove_include, set_active, py_load, py_unload, py_del, Gone, py_get_class_info, py_commit,
      update, generate, Raises, associate, vars
<1>2. python' => impl'
  <2>1. CASE Client
    BY <2>1 DEF ClientInv, Client, Configuration, module, create_db, py_add_include, py_remove_include,
      set_active, py_load, py_unload, py_del, Gone, py_get_class_info, py_commit, schemaVars, ctor, load,
      create, add_include, remove_include, unload, get_class_info, commit
  <2>2. CASE CxxClient
    BY <2>2 DEF CxxClient
  <2>3. CASE Refresh \/ UNCHANGED vars
    BY <2>3, FailKinds DEF ClientInv, Refresh, update, generate, Raises, Gone, associate, vars, schemaVars
  <2> QED
    BY <2>1, <2>2, <2>3 DEF Operation
<1>3. param' \subseteq Files
  BY FailKinds DEF ClientInv, Client, CxxClient, Operation, Refresh, Configuration, module, create_db, py_add_include,
      py_remove_include, set_active, py_load, py_unload, py_del, Gone, py_get_class_info, py_commit,
      update, generate, Raises, associate, vars
<1>4. databases' \subseteq Files /\ active' \in databases' \cup {None} /\ keys' \subseteq Classes
  <2>1. CASE associate
    <3>1. databases' = Listed /\ keys' = Keys
      BY <2>1 DEF associate
    <3>2. Listed \subseteq Files /\ Keys \subseteq Classes
      BY SchemaFacts DEF Listed, Keys, core_init, ClientInv, CallInv, CallSet
    <3>3. CASE core_init
      BY <2>1, <3>1, <3>2, <3>3 DEF associate, Listed, core_init
    <3>4. CASE call.op = "create_db"
      BY <2>1, <3>1, <3>2, <3>4 DEF associate, Listed, core_init
    <3>5. CASE ~core_init /\ call.op # "create_db"
      BY <2>1, <3>1, <3>2, <3>5 DEF associate, Listed, core_init, ClientInv
    <3> QED
      BY <3>3, <3>4, <3>5
  <2>2. CASE Gone
    BY <2>2 DEF Gone
  <2>3. ASSUME NEW f, set_active(f)
        PROVE  databases' \subseteq Files /\ active' \in databases' \cup {None} /\ keys' \subseteq Classes
    BY <2>3 DEF set_active, cached, ClientInv
  <2>4. ASSUME UNCHANGED <<files, keys>>
        PROVE  databases' \subseteq Files /\ active' \in databases' \cup {None} /\ keys' \subseteq Classes
    BY <2>4 DEF files, ClientInv
  <2> QED
    BY <2>1, <2>2, <2>3, <2>4, FailKinds
    DEF Client, CxxClient, Operation, Refresh, Configuration, module, create_db, py_add_include,
      py_remove_include, py_load, py_unload, py_del, py_get_class_info, py_commit, cached, update, generate, Raises, vars
<1>5. operations' \in 0 .. MaxOperations
  BY BoundAssumption DEF ClientInv, Operation, Refresh, vars
<1> QED
  BY <1>1, <1>2, <1>3, <1>4, <1>5, PluginStep, SessionStep DEF ClientInv

\* generate()'s turn: what it tries next, and what is left to be tried.
LEMMA GenerateFacts ==
  ASSUME ClientInv, CallInv, generate
  PROVE  /\ Head(call.ordered) \in Classes \cap DOMAIN p_direct \cap DOMAIN data
         /\ call' \in CallSet
         /\ call'.step = "generate" /\ call'.op = call.op /\ call'.file = call.file
         /\ Members(call.ordered) = {Head(call.ordered)} \cup Members(Tail(call.ordered))
         /\ Members(call'.ordered) \subseteq Members(call.ordered)
         /\ Members(call.ordered) \subseteq Members(call'.ordered) \cup call'.klasses
         /\ call.klasses \subseteq call'.klasses
         /\ call'.other \cup call'.klasses \subseteq
              call.other \cup call.klasses \cup (DOMAIN dal' \cap {Head(call.ordered)})
         /\ DOMAIN dal \subseteq DOMAIN dal'
<1> DEFINE next == Head(call.ordered)
<1> DEFINE make == Makes(next)
<1> DEFINE done == next \in DOMAIN dal \/ make
<1>1. call.ordered \in Seq(Classes) /\ call.ordered # <<>> /\ call.step = "generate"
  BY DEF generate, generating, CallInv, CallSet
<1>2. /\ next \in Classes /\ Tail(call.ordered) \in Seq(Classes)
      /\ Members(call.ordered) = {next} \cup Members(Tail(call.ordered))
  BY <1>1, MembersOfTail
<1>3. /\ Append(Tail(call.ordered), next) \in Seq(Classes)
      /\ Members(Append(Tail(call.ordered), next)) = Members(Tail(call.ordered)) \cup {next}
  <2> DEFINE t == Tail(call.ordered)
  <2>1. t \in Seq(Classes) /\ next \in Classes
    BY <1>2
  <2> HIDE DEF t, next
  <2>2. Append(t, next) \in Seq(Classes) /\ Members(Append(t, next)) = Members(t) \cup {next}
    BY <2>1, MembersOfAppend
  <2> QED
    BY <2>2 DEF t
<1>4. call' = [call EXCEPT
        !.ordered = IF done THEN Tail(call.ordered) ELSE Append(Tail(call.ordered), next),
        !.other = Offered(next, make),
        !.klasses = IF done THEN call.klasses \cup {next} ELSE call.klasses]
  BY DEF generate
<1>5. DOMAIN dal \subseteq DOMAIN dal' /\ (make => next \in DOMAIN dal')
  BY DEF generate
<1>6. Offered(next, make) \in {call.other, call.other \cup {next}} /\ (Offered(next, make) = call.other \/ done)
  BY DEF Offered
<1>7. /\ call'.ordered = (IF done THEN Tail(call.ordered) ELSE Append(Tail(call.ordered), next))
      /\ call'.other = Offered(next, make)
      /\ call'.klasses = (IF done THEN call.klasses \cup {next} ELSE call.klasses)
      /\ call'.step = "generate" /\ call'.op = call.op /\ call'.file = call.file
  BY <1>1, <1>4 DEF CallInv, CallSet
<1> HIDE DEF make, next
<1>8. call' \in CallSet
  <2>1. call \in CallSet
    BY DEF CallInv
  <2>2. Offered(next, make) \subseteq Classes
    BY <1>2, <1>6, <2>1 DEF CallSet
  <2>3. (IF done THEN call.klasses \cup {next} ELSE call.klasses) \subseteq Classes
    BY <1>2, <2>1 DEF CallSet
  <2>4. (IF done THEN Tail(call.ordered) ELSE Append(Tail(call.ordered), next)) \in Seq(Classes)
    BY <1>2, <1>3
  <2> HIDE DEF done
  <2> QED
    BY <1>4, <2>1, <2>2, <2>3, <2>4 DEF CallSet
<1>9. next \in DOMAIN p_direct \cap DOMAIN data
  BY <1>2 DEF CallInv
<1>10. Members(call'.ordered) \subseteq Members(call.ordered)
       /\ Members(call.ordered) \subseteq Members(call'.ordered) \cup call'.klasses
  BY <1>2, <1>3, <1>7
<1>11. call'.other \cup call'.klasses \subseteq
         call.other \cup call.klasses \cup (DOMAIN dal' \cap {next})
  BY <1>5, <1>6, <1>7
<1> QED
  BY <1>2, <1>5, <1>7, <1>8, <1>9, <1>10, <1>11 DEF next

LEMMA NoCall ==
  /\ Idle \in CallSet /\ Members(Idle.ordered) = {} /\ Idle.other = {} /\ Idle.klasses = {}
  /\ Idle.op = "none" /\ Idle.step = "idle"
  BY NoMembers DEF Idle, CallSet, Operations

\* update()'s part in the call, and what it describes.
LEMMA UpdateFacts ==
  ASSUME MapsInv, DescriptionInv, CallInv, DataInv, update
  PROVE  /\ call' \in CallSet /\ call'.step = "generate" /\ call'.op = call.op /\ call'.file = call.file
         /\ Members(call'.ordered) = classes \ WithDal
         /\ call'.other = WithDal /\ WithDal \subseteq DOMAIN dal /\ call'.klasses = call.klasses
         /\ DOMAIN data' = DOMAIN data \cup classes
         /\ classes \ WithDal \subseteq DOMAIN p_direct'
         /\ classes \ DOMAIN data \subseteq DOMAIN p_all'
         /\ \A c \in DOMAIN data : data'[c] = data[c]
         /\ \A c \in classes \ DOMAIN data : data'[c] = Entry(p_all', p_direct', c)
<1>1. WithDal \subseteq DOMAIN data /\ WithDal \subseteq DOMAIN dal
  BY DEF WithDal, DataInv
<1>2. DOMAIN data \subseteq Classes
  BY DeclaredClasses DEF DataInv, Sources
<1>3. classes \ WithDal \in SUBSET Classes
  BY SchemaFacts
<1>4. PICK s \in Orders(classes \ WithDal) :
        call' = [call EXCEPT !.step = "generate", !.ordered = s, !.other = WithDal]
  BY DEF update
<1>5. s \in Seq(Classes) /\ Members(s) = classes \ WithDal
  BY <1>3, <1>4, MembersOfOrder
<1>6. call \in CallSet
  BY DEF CallInv
<1>7. /\ call' \in CallSet /\ call'.step = "generate" /\ call'.op = call.op /\ call'.file = call.file
      /\ call'.ordered = s /\ call'.other = WithDal /\ call'.klasses = call.klasses
  BY <1>1, <1>2, <1>4, <1>5, <1>6 DEF CallSet
<1>8. /\ classes \ WithDal \subseteq DOMAIN p_direct'
      /\ classes \ DOMAIN data \subseteq DOMAIN p_all'
  BY DEF update, GetClassInfo, Described
<1>9. /\ DOMAIN data' = DOMAIN data \cup classes
      /\ \A c \in DOMAIN data : data'[c] = data[c]
      /\ \A c \in classes \ DOMAIN data : data'[c] = Entry(p_all', p_direct', c)
  BY DEF update
<1> QED
  BY <1>1, <1>5, <1>7, <1>8, <1>9

LEMMA CallStep ==
  ASSUME MapsInv, DescriptionInv, ClientInv, CallInv, DataInv, [Operation \/ Refresh]_vars
  PROVE  CallInv'
<1>1. ASSUME NEW op \in Operations, NEW f \in Files \cup {None},
             Starts(op, f), op = "create_db" => f \in Files
      PROVE  CallInv'
  <2>1. call' = [Idle EXCEPT !.op = op, !.step = "update", !.file = f] /\ python' = TRUE
    BY <1>1 DEF Starts, Begin
  <2>2. /\ call' \in CallSet /\ call'.ordered = Idle.ordered /\ call'.other = {} /\ call'.klasses = {}
        /\ call'.op = op /\ call'.file = f
    BY <1>1, <2>1, NoCall DEF CallSet
  <2> QED
    BY <1>1, <2>1, <2>2, NoCall DEF CallInv
<1>2. ASSUME call' = Idle PROVE CallInv'
  BY <1>2, NoCall DEF CallInv, idle
<1>3. CASE Calls \/ Gone \/ Raises
  BY <1>2, <1>3 DEF Calls, Gone, Raises, idle
<1>4. CASE associate
  BY <1>2, <1>4 DEF associate
<1>5. CASE update
  <2>1. dal' = dal /\ python' = python /\ python
    BY <1>5, NoCall DEF update, CallInv, idle, ClientInv
  <2> QED
    BY <1>5, <2>1, UpdateFacts DEF CallInv
<1>6. CASE generate
  <2>1. python' = python /\ python /\ data' = data /\ p_direct' = p_direct
    BY <1>6, NoCall DEF generate, generating, CallInv, idle, ClientInv, schemaVars
  <2> QED
    BY <1>6, <2>1, GenerateFacts DEF CallInv
<1>7. CASE UNCHANGED vars
  BY <1>7 DEF vars, cached, schemaVars, CallInv, idle
<1> QED
  BY <1>1, <1>3, <1>4, <1>5, <1>6, <1>7, PyStepKinds

LEMMA DalStep ==
  ASSUME MapsInv, DescriptionInv, ClientInv, CallInv, DataInv, DalInv, [Operation \/ Refresh]_vars
  PROVE  DalInv'
<1>1. process \subseteq process'
  BY SessionStep
<1>2. ASSUME dal' = dal PROVE DalInv'
  BY <1>1, <1>2, SourcesKept DEF DalInv
<1>3. CASE generate
  <2> DEFINE next == Head(call.ordered)
  <2> DEFINE make == Makes(next)
  <2>1. next \in DOMAIN p_direct \cap DOMAIN data
    BY <1>3, GenerateFacts
  <2>2. CASE ~make
    BY <1>2, <1>3, <2>2 DEF generate
  <2>3. CASE make
    <3>1. PICK S \in Sources(next) : data[next].attributes = Description(S, next, FALSE).attributes
      <4>1. PICK S \in Sources(next) : data[next] \in EntriesOf(S, next)
        BY <2>1 DEF DataInv
      <4>2. data[next].attributes = Description(S, next, FALSE).attributes
        BY <4>1 DEF EntriesOf
      <4> QED
        BY <4>2
    <3>2. S \in Schemas /\ next \in Declared(S) /\ Consistent(S)
      BY <3>1 DEF Sources, Schemas
    <3>3. superclasses(next) = Definition(S, next).super
      <4>1. PICK T \in Schemas : next \in Declared(T) /\ p_direct[next] = Description(T, next, TRUE)
        BY <2>1 DEF DescriptionInv, Remembers
      <4>2. superclasses(next) = Definition(T, next).super
        BY <2>1, <4>1 DEF superclasses, Description
      <4> HIDE DEF next
      <4> QED
        BY <3>2, <4>1, <4>2, SameDirect
    <3>4. \A b \in superclasses(next) : b \in DOMAIN dal /\ b \in Declared(S)
      BY <2>3, <3>2, <3>3 DEF Makes, CallInv, Consistent
    <3>5. \A b \in superclasses(next) : dal[b].types = {b} \cup Above(S, b)
      <4> SUFFICES ASSUME NEW b \in superclasses(next) PROVE dal[b].types = {b} \cup Above(S, b)
        OBVIOUS
      <4>1. PICK R \in Sources(b) : dal[b] = DalAs(R, b)
        BY <3>4 DEF DalInv
      <4>2. R \in Schemas /\ b \in Declared(R)
        BY <4>1 DEF Sources
      <4>3. Above(R, b) = Above(S, b)
        BY <3>2, <3>4, <4>2, SameTypes
      <4> QED
        BY <4>1, <4>3 DEF DalAs
    <3>6. OkTypes(next) = {next} \cup Above(S, next)
      <4> HIDE DEF next
      <4>1. Above(S, next) = UNION {{b} \cup Above(S, b) : b \in Definition(S, next).super}
        BY <3>2, AboveByStep
      <4>2. UNION {dal[b].types : b \in superclasses(next)} =
              UNION {{b} \cup Above(S, b) : b \in superclasses(next)}
        BY <3>5
      <4> QED
        BY <3>3, <4>1, <4>2 DEF OkTypes
    <3>7. /\ DOMAIN dal' = DOMAIN dal \cup {next}
          /\ \A c \in DOMAIN dal : dal'[c] = dal[c]
          /\ dal'[next] = [types |-> OkTypes(next), attributes |-> data[next].attributes]
      BY <1>3, <2>3 DEF generate, Makes
    <3>8. dal'[next] = DalAs(S, next)
      BY <3>1, <3>6, <3>7 DEF DalAs
    <3>9. \A c \in DOMAIN dal' : \E R \in Sources(c) : dal'[c] = DalAs(R, c)
      BY <3>1, <3>7, <3>8 DEF DalInv
    <3> QED
      BY <1>1, <3>9, SourcesKept DEF DalInv
  <2> QED
    BY <2>2, <2>3
<1>4. ASSUME NEW op, NEW f, Starts(op, f) PROVE dal' = dal
  BY <1>4 DEF Starts
<1>5. ASSUME Calls \/ Gone \/ update \/ Raises \/ associate \/ UNCHANGED vars PROVE dal' = dal
  BY <1>5 DEF Calls, Gone, update, Raises, associate, vars, cached
<1> QED
  BY <1>2, <1>3, <1>4, <1>5, PyStepKinds

\* What associate() writes into __schema__.
LEMMA AssociateFacts ==
  ASSUME DataInv, CallInv, associate
  PROVE  /\ DOMAIN data' = DOMAIN data
         /\ \A c \in DOMAIN data \cap call.klasses :
              data'[c].dal /\ \E S \in Sources(c) : data'[c] \in EntriesOf(S, c)
         /\ \A c \in DOMAIN data \ call.klasses : data'[c] = data[c]
<1>1. data' = [c \in DOMAIN data |->
        IF c \in call.klasses THEN [data[c] EXCEPT !.dal = TRUE] ELSE data[c]]
  BY DEF associate
<1>2. ASSUME NEW c \in DOMAIN data \cap call.klasses
      PROVE  data'[c].dal /\ \E S \in Sources(c) : data'[c] \in EntriesOf(S, c)
  <2>1. PICK S \in Sources(c) : data[c] \in EntriesOf(S, c)
    BY DEF DataInv
  <2>2. data'[c] = [data[c] EXCEPT !.dal = TRUE]
    BY <1>1, <1>2
  <2>3. data'[c] \in EntriesOf(S, c) /\ data'[c].dal = TRUE
    BY <2>1, <2>2 DEF EntriesOf
  <2> QED
    BY <2>3
<1> QED
  BY <1>1, <1>2

LEMMA DataStep ==
  ASSUME MapsInv, DescriptionInv, ClientInv, CallInv, DataInv, [Operation \/ Refresh]_vars
  PROVE  DataInv'
<1>1. process \subseteq process' /\ session' \subseteq Files /\ (python' => session' \subseteq process')
  BY SessionStep
<1>2. ASSUME data' \in {data, Empty}, DOMAIN dal \subseteq DOMAIN dal' PROVE DataInv'
  <2>1. CASE data' = data
    <3>1. \A c \in DOMAIN data : \E S \in Sources(c)' : data'[c] \in EntriesOf(S, c)
      BY <1>1, <2>1, SourcesKept DEF DataInv
    <3>2. WithDal' \subseteq DOMAIN dal'
      BY <1>2, <2>1 DEF DataInv, WithDal
    <3> QED
      BY <2>1, <3>1, <3>2 DEF DataInv
  <2>2. CASE data' = Empty
    BY <2>2 DEF Empty, DataInv, WithDal
  <2> QED
    BY <1>2, <2>1, <2>2
<1>3. ASSUME NEW op, NEW f, Starts(op, f) PROVE DataInv'
  BY <1>2, <1>3 DEF Starts
<1>4. CASE Calls \/ Gone \/ Raises \/ UNCHANGED vars
  BY <1>2, <1>4 DEF Calls, Gone, Raises, vars, cached
<1>5. CASE generate
  <2>1. data' = data /\ DOMAIN dal \subseteq DOMAIN dal'
    BY <1>5 DEF generate
  <2> QED
    BY <1>2, <2>1
<1>6. CASE update
  <2>1. python' /\ dal' = dal
    BY <1>6, NoCall DEF update, CallInv, idle, ClientInv
  <2>2. ASSUME NEW c \in DOMAIN data
        PROVE  \E S \in Sources(c)' : data'[c] \in EntriesOf(S, c)
    <3>1. PICK S \in Sources(c) : data[c] \in EntriesOf(S, c)
      BY DEF DataInv
    <3> QED
      BY <1>1, <1>6, <3>1, UpdateFacts, SourcesKept
  <2>3. ASSUME NEW c \in classes \ DOMAIN data
        PROVE  \E S \in Sources(c)' : data'[c] \in EntriesOf(S, c)
    <3>1. Remembers(p_all, FALSE)'
      BY DescriptionStep, PythonKinds DEF DescriptionInv
    <3>2. c \in DOMAIN p_all' /\ data'[c] = Entry(p_all', p_direct', c)
      BY <1>6, UpdateFacts
    <3>3. PICK S \in SUBSET session' :
            S \in Schemas /\ c \in Declared(S) /\ p_all'[c] = Description(S, c, FALSE)
      BY <3>1, <3>2 DEF Remembers
    <3>4. data'[c] \in EntriesOf(S, c)
      BY <3>2, <3>3 DEF Entry, EntriesOf
    <3>5. S \in Sources(c)'
      BY <1>1, <2>1, <3>3 DEF Sources
    <3> QED
      BY <3>4, <3>5
  <2>4. WithDal' \subseteq WithDal
    <3> SUFFICES ASSUME NEW c \in DOMAIN data', data'[c].dal PROVE c \in WithDal
      BY DEF WithDal
    <3>1. CASE c \in DOMAIN data
      BY <1>6, <3>1, UpdateFacts DEF WithDal
    <3>2. CASE c \notin DOMAIN data
      <4>1. data'[c] = Entry(p_all', p_direct', c)
        BY <1>6, <3>2, UpdateFacts
      <4>2. data'[c].dal = FALSE
        BY <4>1 DEF Entry
      <4> QED
        BY <4>2
    <3> QED
      BY <3>1, <3>2
  <2>5. \A c \in DOMAIN data' : \E S \in Sources(c)' : data'[c] \in EntriesOf(S, c)
    BY <1>6, <2>2, <2>3, UpdateFacts
  <2> QED
    BY <2>1, <2>4, <2>5 DEF DataInv
<1>7. CASE associate
  <2>1. dal' = dal
    BY <1>7 DEF associate
  <2>2. \A c \in DOMAIN data' : \E S \in Sources(c) : data'[c] \in EntriesOf(S, c)
    BY <1>7, AssociateFacts DEF DataInv
  <2>3. WithDal' \subseteq WithDal \cup call.klasses
    BY <1>7, AssociateFacts DEF WithDal
  <2>4. WithDal' \subseteq DOMAIN dal'
    BY <2>1, <2>3 DEF DataInv, CallInv
  <2> QED
    BY <1>1, <2>2, <2>4, SourcesKept DEF DataInv
<1> QED
  BY <1>3, <1>4, <1>5, <1>6, <1>7, PyStepKinds

\* A Python operation that does not refresh the schema opens no file, or is noted
\* as one that did.
LEMMA NoNewClasses ==
  ASSUME MapsInv, DescriptionInv, ClientInv, Operation, Calls, python, synced'
  PROVE  synced /\ classes' \subseteq classes /\ (session \subseteq session' \/ classes' = {})
<1> DEFINE NoNewClass == synced /\ classes' \subseteq classes /\ (session \subseteq session' \/ classes' = {})
<1>1. ASSUME p_superclasses' = p_superclasses PROVE classes' \subseteq classes
  BY <1>1 DEF classes
<1>2. ASSUME NEW f, set_active(f) PROVE NoNewClass
  BY <1>1, <1>2 DEF set_active, schemaVars, maps
<1>3. ASSUME NEW db, NEW f, py_remove_include(db, f) PROVE NoNewClass
  <2>1. Opened' \subseteq Opened /\ synced' = synced
    BY <1>3, SmallerInclude DEF py_remove_include, ClientInv, PluginInv
  <2>2. p_superclasses' = Superclasses[Opened'] /\ Opened' \in Schemas /\ session \subseteq session'
    BY <1>3, OperationKinds DEF py_remove_include, Replaces, GetSuperclasses
  <2>3. classes' = Declared(Opened')
    BY <2>2 DEF classes, Superclasses
  <2>4. Declared(Opened') \subseteq Declared(Opened)
    BY <2>1 DEF Declared
  <2> QED
    BY <2>1, <2>2, <2>3, <2>4, SchemaFacts
<1>4. ASSUME NEW throws, py_unload(throws) PROVE NoNewClass
  BY <1>4 DEF py_unload, unload, classes, Empty
<1>5. ASSUME NEW c, NEW all, py_get_class_info(c, all) PROVE NoNewClass
  BY <1>1, <1>5 DEF py_get_class_info, get_class_info, maps
<1>6. CASE py_commit
  BY <1>1, <1>6 DEF py_commit, commit, maps
<1>7. ASSUME NEW f, py_load(f) PROVE FALSE
  BY <1>7 DEF py_load
<1>8. ASSUME py_del \/ CxxClient PROVE FALSE
  BY <1>8 DEF py_del, Gone, CxxClient, Calls, ClientInv
<1>9. ASSUME NEW op, NEW f, Starts(op, f), op # "none" PROVE FALSE
  BY <1>9, NoCall DEF Starts, Begin, Calls, idle, CallSet
<1>10. Client
  BY <1>8 DEF Operation
<1> QED
  BY <1>2, <1>3, <1>4, <1>5, <1>6, <1>7, <1>8, <1>9, <1>10, CallKinds DEF Client

LEMMA ClassesStep ==
  ASSUME MapsInv, DescriptionInv, ClientInv, CallInv, DataInv, ClassesInv, [Operation \/ Refresh]_vars
  PROVE  ClassesInv'
<1>1. ASSUME NEW op \in Operations, NEW f \in Files \cup {None},
             Starts(op, f)
      PROVE  ClassesInv'
  <2>1. call'.step = "update"
    BY <1>1, NoCall DEF Starts, Begin, CallSet
  <2> QED
    BY <2>1, NoCall DEF ClassesInv, generating, idle
<1>2. ASSUME UNCHANGED vars PROVE ClassesInv'
  BY <1>2 DEF vars, cached, schemaVars, maps, ClassesInv, Awaited, classes, generating, idle
<1>3. CASE Calls /\ ~UNCHANGED vars
  <2>1. call' = Idle
    BY <1>3 DEF Calls, idle
  <2>2. ASSUME python', synced', Declared(session)' \subseteq Linearisable
        PROVE  \A c \in classes' : c \in DOMAIN data' \cap keys' /\ data'[c].dal
    <3>1. idle /\ python /\ data' = data /\ keys' = keys
      BY <1>3, <2>2 DEF Calls
    <3>2. Operation
      BY <1>3, <3>1, NoCall DEF Refresh, update, generate, fail, associate, generating, idle
    <3>3. synced /\ classes' \subseteq classes /\ (session \subseteq session' \/ classes' = {})
      BY <1>3, <2>2, <3>1, <3>2, NoNewClasses
    <3>4. session \subseteq session' => Declared(session) \subseteq Declared(session)'
      BY DEF Declared
    <3> QED
      BY <2>2, <3>1, <3>3, <3>4 DEF ClassesInv
  <2> QED
    BY <2>1, <2>2, NoCall DEF ClassesInv, generating
<1>4. CASE Gone
  BY <1>4, NoCall DEF Gone, idle, ClassesInv, generating
<1>5. CASE update
  <2>1. classes' = classes /\ call'.step = "generate"
    BY <1>5, UpdateFacts DEF update, maps, classes
  <2>2. ASSUME NEW c \in classes PROVE c \in DOMAIN data' /\ Awaited(c)'
    <3>1. CASE c \in WithDal
      BY <1>5, <3>1, UpdateFacts DEF WithDal, Awaited
    <3>2. CASE c \notin WithDal
      BY <1>5, <3>2, UpdateFacts DEF Awaited
    <3> QED
      BY <3>1, <3>2, <1>5, UpdateFacts
  <2> QED
    BY <2>1, <2>2, NoCall DEF ClassesInv, idle
<1>6. CASE generate
  <2>1. classes' = classes /\ data' = data /\ call'.step = "generate" /\ generating
    BY <1>6, GenerateFacts DEF generate, schemaVars, maps, classes
  <2>2. ASSUME NEW c \in classes PROVE c \in DOMAIN data' /\ Awaited(c)'
    BY <1>6, <2>1, <2>2, GenerateFacts DEF ClassesInv, Awaited
  <2> QED
    BY <2>1, <2>2, NoCall DEF ClassesInv, idle
<1>7. CASE associate
  <2>1. classes' = classes /\ keys' = Keys /\ call' = Idle /\ generating /\ call.ordered = <<>>
    BY <1>7 DEF associate, schemaVars, maps, classes
  <2>2. ASSUME NEW c \in classes PROVE c \in DOMAIN data' \cap keys' /\ data'[c].dal
    <3>1. c \in DOMAIN data /\ (data[c].dal \/ c \in call.klasses)
      BY <2>1, <2>2, NoMembers DEF ClassesInv, Awaited
    <3>2. c \in keys'
      BY <2>1, <2>2 DEF Keys
    <3>3. CASE c \in call.klasses
      BY <1>7, <3>1, <3>2, <3>3, AssociateFacts
    <3>4. CASE c \notin call.klasses
      BY <1>7, <3>1, <3>2, <3>4, AssociateFacts
    <3> QED
      BY <3>3, <3>4
  <2> QED
    BY <2>1, <2>2, NoCall DEF ClassesInv, generating
<1>8. CASE Raises
  <2> DEFINE next == Head(call.ordered)
  <2>1. next \in DOMAIN p_direct /\ next \notin Linearisable
    <3>1. call.ordered \in Seq(Classes) /\ call.ordered # <<>>
      BY <1>8 DEF Raises, CallInv, CallSet
    <3> QED
      BY <1>8, <3>1, MembersOfTail DEF Raises, CallInv
  <2>2. next \in Declared(session)
    BY <2>1 DEF DescriptionInv, Remembers, Declared
  <2>3. session' = session /\ call' = Idle
    BY <1>8 DEF Raises, schemaVars
  <2>4. ~(Declared(session)' \subseteq Linearisable)
    BY <2>1, <2>2, <2>3 DEF Declared
  <2> QED
    BY <2>3, <2>4, NoCall DEF ClassesInv, generating
<1> QED
  BY <1>1, <1>2, <1>3, <1>4, <1>5, <1>6, <1>7, <1>8, PyStepKinds

THEOREM PyInvariant == PySpec => []PyInv
<1>1. PyInv /\ [Operation \/ Refresh]_vars => PyInv'
  BY PythonKinds, MapsStep, DescriptionStep, ClientStep, CallStep, DataStep, DalStep, ClassesStep DEF PyInv
<1> QED
  BY <1>1, PyAtFirst, PTL DEF PySpec

\* Under a Python client and a C++ one after another, the C++ caches are those of
\* the open files (config.cpp binds the same operations), ...
THEOREM PyMapsCurrent == PySpec => []SchemaCurrent
<1>1. PyInv => SchemaCurrent
  BY DEF PyInv, MapsInv
<1> QED
  BY <1>1, PyInvariant, PTL

\* ... and so are the descriptions that __schema__ is filled from.
THEOREM PyDescriptionsCurrent == PySpec => []DescriptionsCurrent
<1>1. PyInv => DescriptionsCurrent
  BY DescriptionsAreCurrent DEF PyInv
<1> QED
  BY <1>1, PyInvariant, PTL

\* The variables have their types: in particular the active database is one that
\* is listed (Configuration.py:70-82, 259-271), and the loop variable of an operation
\* that is over is empty.
THEOREM PyTypeCorrect == PySpec => []TypeOK
<1>1. PyInv => TypeOK
  <2> SUFFICES ASSUME PyInv PROVE TypeOK
    OBVIOUS
  <2>1. \A c \in DOMAIN dal : c \in Classes /\ dal[c].types \subseteq Classes
    <3> SUFFICES ASSUME NEW c \in DOMAIN dal PROVE c \in Classes /\ dal[c].types \subseteq Classes
      OBVIOUS
    <3>1. PICK S \in Sources(c) : dal[c] = DalAs(S, c)
      BY DEF PyInv, DalInv
    <3>2. S \in Schemas /\ c \in Declared(S) /\ Above(S, c) \subseteq Declared(S)
      BY <3>1 DEF Sources, Above
    <3> QED
      BY <3>1, <3>2, DeclaredClasses DEF DalAs
  <2>2. DOMAIN data \subseteq Classes
    BY DeclaredClasses DEF PyInv, DataInv, Sources
  <2>3. idle => call.ordered = <<>>
    BY DEF idle, Idle
  <2> QED
    BY <2>1, <2>2, <2>3, SchemaFacts DEF PyInv, ClientInv, PluginInv, TypeOK, classes
<1> QED
  BY <1>1, PyInvariant, PTL

\* A DAL class, made once in the life of the process, has the types of its class in
\* whatever files are open: itself and all its superclasses (dal.py:438-454).
THEOREM TypesCorrect == PySpec => []TypesAreSuperclasses
<1>1. PyInv => TypesAreSuperclasses
  <2> SUFFICES ASSUME PyInv, NEW c \in DOMAIN dal \cap classes
               PROVE  dal[c].types = {c} \cup p_superclasses[c]
    BY DEF TypesAreSuperclasses
  <2>1. PICK S \in Sources(c) : dal[c] = DalAs(S, c)
    BY DEF PyInv, DalInv
  <2>2. S \in Schemas /\ c \in Declared(S)
    BY <2>1 DEF Sources
  <2>3. Opened \in Schemas /\ c \in Declared(Opened) /\ p_superclasses[c] = Above(Opened, c)
    BY SchemaFacts DEF PyInv
  <2>4. Above(S, c) = Above(Opened, c)
    BY <2>2, <2>3, SameTypes
  <2> QED
    BY <2>1, <2>3, <2>4 DEF DalAs
<1> QED
  BY <1>1, PyInvariant, PTL

\* Between operations the Python layer has a description, a DAL class and all the
\* cache keys of every class, unless load() has opened files behind its back, or a
\* file opened since unload() declares a class whose bases Python cannot put in one
\* order: generate() ends in TypeError there (Configuration.py:84-106, dal.py:592-673).
THEOREM KnowledgeCorrect == PySpec => []PythonKnowsClasses
<1>1. PyInv /\ TypesAreSuperclasses => PythonKnowsClasses
  <2> SUFFICES ASSUME PyInv, TypesAreSuperclasses, python, idle, synced,
                      Declared(session) \subseteq Linearisable, NEW c \in classes
               PROVE  /\ c \in DOMAIN data /\ c \in DOMAIN dal
                      /\ data[c].dal
                      /\ dal[c].types \subseteq keys
    BY DEF PythonKnowsClasses
  <2>1. \A k \in classes : k \in DOMAIN data \cap keys /\ data[k].dal
    BY DEF PyInv, ClassesInv
  <2>2. c \in DOMAIN dal
    BY <2>1 DEF PyInv, DataInv, WithDal
  <2>3. p_superclasses[c] \subseteq classes
    BY SchemaFacts DEF PyInv, Above
  <2> QED
    BY <2>1, <2>2, <2>3 DEF TypesAreSuperclasses
<1> QED
  BY <1>1, PyInvariant, TypesCorrect, PTL

\* The attributes and superclasses that the Python layer has for a class are those
\* of the open files, when no two files opened in the life of the process declare
\* the class or a superclass of it differently.
THEOREM PythonCorrect == PySpec => []PythonSchemaCurrent
<1>1. PyInv => PythonSchemaCurrent
  <2> SUFFICES ASSUME PyInv, python, NEW c \in classes,
                      \A d \in p_superclasses[c] \cup {c} : DeclaredAlike(process, d)
               PROVE  LET now == Description(Opened, c, FALSE) IN
                      /\ c \in DOMAIN data => /\ data[c].attributes = now.attributes
                                              /\ data[c].superclasses = now.superclasses
                      /\ c \in DOMAIN dal => dal[c].attributes = now.attributes
    BY DEF PythonSchemaCurrent
  <2>1. /\ Opened \in Schemas /\ Opened \in SUBSET process /\ c \in Declared(Opened)
        /\ p_superclasses[c] = Superclasses[Opened][c]
    BY SchemaFacts DEF PyInv, ClientInv, MapsInv
  <2>2. ASSUME NEW S \in Sources(c)
        PROVE  /\ Description(S, c, FALSE).attributes = Description(Opened, c, FALSE).attributes
               /\ Description(S, c, FALSE).superclasses = Description(Opened, c, FALSE).superclasses
    <3>1. S \in SUBSET process /\ S \in Schemas /\ c \in Declared(S) \cap Declared(Opened)
      BY <2>1 DEF Sources
    <3> QED
      BY <2>1, <3>1, SameDescription
  <2>3. ASSUME c \in DOMAIN data
        PROVE  /\ data[c].attributes = Description(Opened, c, FALSE).attributes
               /\ data[c].superclasses = Description(Opened, c, FALSE).superclasses
    <3>1. PICK S \in Sources(c) : data[c] \in EntriesOf(S, c)
      BY <2>3 DEF PyInv, DataInv
    <3>2. /\ data[c].attributes = Description(S, c, FALSE).attributes
          /\ data[c].superclasses = Description(S, c, FALSE).superclasses
      BY <3>1 DEF EntriesOf
    <3> QED
      BY <2>2, <3>1, <3>2
  <2>4. ASSUME c \in DOMAIN dal
        PROVE  dal[c].attributes = Description(Opened, c, FALSE).attributes
    <3>1. PICK S \in Sources(c) : dal[c] = DalAs(S, c)
      BY <2>4 DEF PyInv, DalInv
    <3>2. dal[c].attributes = Description(S, c, FALSE).attributes
      BY <3>1 DEF DalAs
    <3> QED
      BY <2>2, <3>1, <3>2
  <2> QED
    BY <2>3, <2>4
<1> QED
  BY <1>1, PyInvariant, PTL

----------------------------------------------------------------------------
(* The values of attributes.                                               *)

\* What Python calls the values that an attribute of a type holds, and what
\* coerce() wants of a value that python_class made.
Types == StringTypes \cup IntNumbers \cup {"bool"}
PythonTypes(type) ==
  IF type \in StringTypes THEN {"str"} ELSE IF type = "bool" THEN {"bool"} ELSE {"int", "bool"}

IsIn(v, k) ==
  IF Len(k) = 2 THEN k[1].n <= AsNumber(v) /\ AsNumber(v) <= k[2].n ELSE Equal(v, k[1])
InMapped(v, attr) ==
  /\ ~(v.py = "str" /\ \E k \in mapped_range(attr) : Len(k) = 2)
  /\ \E k \in mapped_range(attr) : IsIn(v, k)
Ranged(attr) == attr.range # {} \/ attr.type \in IntNumbers
Accepts(v, attr, refs) ==
  /\ attr.pattern # "" => v.t \in Pattern[attr.pattern]
  /\ attr.pattern = "" /\ Ranged(attr) => InMapped(v, attr)
  /\ attr.type = "class" => v.t \in refs
  /\ attr.type \in {"date", "time"} => v.t \in Dates[attr.type]

\* Coercion returns what python_class makes of a value, or raises.
LEMMA CoercedIsMade ==
  ASSUME NEW v, NEW attr, NEW refs, NEW w, w = python_class(attr.type, v), ~Raised(w)
  PROVE  IF Accepts(w, attr, refs) THEN coerce(v, attr, refs) = w ELSE Raised(coerce(v, attr, refs))
<1>1. check_range(w, mapped_range(attr)) =
        IF InMapped(w, attr) THEN w
        ELSE check_range(w, mapped_range(attr))
  BY DEF check_range, InMapped, IsIn
<1>2. ~InMapped(w, attr) => Raised(check_range(w, mapped_range(attr)))
  BY DEF check_range, InMapped, IsIn, Raise, Raised
<1>3. CASE attr.pattern # ""
  BY <1>3 DEF coerce, InRange, Special, Accepts, Raise, Raised
<1>4. CASE attr.pattern = ""
  <2>1. InRange(w, attr) = IF Ranged(attr) THEN check_range(w, mapped_range(attr)) ELSE w
    BY <1>4 DEF InRange, Ranged
  <2>2. CASE Ranged(attr) /\ ~InMapped(w, attr)
    BY <1>2, <1>4, <2>1, <2>2 DEF coerce, Special, Accepts
  <2>3. CASE Ranged(attr) => InMapped(w, attr)
    <3>1. InRange(w, attr) = w
      BY <1>1, <2>1, <2>3
    <3> HIDE DEF InMapped
    <3> QED
      BY <1>4, <2>3, <3>1 DEF coerce, Special, Accepts, Raise, Raised
  <2> QED
    BY <2>2, <2>3
<1> QED
  BY <1>3, <1>4

LEMMA WhatRaises ==
  ASSUME NEW v, NEW attr, NEW refs, Raised(python_class(attr.type, v))
  PROVE  coerce(v, attr, refs) = python_class(attr.type, v)
BY DEF coerce, InRange, Special

\* python_class keeps the values of its type, ...
LEMMA ClassKeeps ==
  ASSUME NEW type \in Types, NEW v, v.py \in PythonTypes(type)
  PROVE  python_class(type, v) = v /\ ~Raised(v)
<1>1. CASE type \in StringTypes
  BY <1>1 DEF python_class, PythonTypes, to_str, Raised, StringTypes, IntegerTypes, LongTypes, IntNumbers
<1>2. CASE type = "bool"
  BY <1>2 DEF python_class, PythonTypes, to_bool, Raised, StringTypes, IntegerTypes, LongTypes, IntNumbers
<1>3. CASE type \in IntNumbers
  BY <1>3 DEF python_class, PythonTypes, to_int, to_long, str2integer, Raised,
              StringTypes, IntegerTypes, LongTypes, IntNumbers
<1> QED
  BY <1>1, <1>2, <1>3 DEF Types

\* ... and makes no others, but that an empty string is no number to raise for.
LEMMA ClassMakes ==
  ASSUME NEW type \in Types, NEW v, IsScalar(v), NEW w, w = python_class(type, v)
  PROVE  \/ Raised(w)
         \/ w.py \in PythonTypes(type) /\ (w.py = "str" => w = Str(w.t))
         \/ type \in IntNumbers /\ w.py = "str"
<1>1. CASE type \in StringTypes
  BY <1>1 DEF python_class, PythonTypes, to_str, Str, IsScalar, StringTypes, IntegerTypes, LongTypes, IntNumbers
<1>2. CASE type = "bool"
  BY <1>2 DEF python_class, PythonTypes, to_bool, Bool, IsScalar, StringTypes, IntegerTypes, LongTypes, IntNumbers
<1>3. CASE type \in IntNumbers
  <2>1. w = to_int(v) \/ w = to_long(v)
    BY <1>3 DEF python_class, StringTypes, IntegerTypes, LongTypes, IntNumbers
  <2>2. ASSUME NEW max PROVE LET u == str2integer(v, max) IN Raised(u) \/ u.py \in {"int", "bool", "str"}
    BY DEF str2integer, OneOf, Num, Raise, Raised, IsScalar
  <2>3. PythonTypes(type) = {"int", "bool"}
    BY <1>3 DEF PythonTypes, StringTypes, IntegerTypes, LongTypes, IntNumbers
  <2> QED
    BY <1>3, <2>1, <2>2, <2>3 DEF to_int, to_long
<1> QED
  BY <1>1, <1>2, <1>3 DEF Types

\* A numeral is taken for its number.
LEMMA NumeralIsRead ==
  ASSUME NEW type \in IntNumbers, NEW n \in DOMAIN Denotes, NEW text \in Denotes[n]
  PROVE  python_class(type, Str(text)) = Num(n)
<1>1. ASSUME NEW max PROVE str2integer(Str(text), max) = Num(n)
  BY NumeralsAssumption DEF str2integer, OneOf, Str
<1> QED
  BY <1>1 DEF python_class, to_int, to_long, StringTypes, IntegerTypes, LongTypes, IntNumbers

\* '*' is taken for the greatest of all integers.
LEMMA StarIsRead ==
  ASSUME NEW type \in IntNumbers, NEW text, Reads[text].first = "*"
  PROVE  \E max \in Int : python_class(type, Str(text)) = Num(max) /\ Limits[type][2] <= max
<1>1. ASSUME NEW max PROVE str2integer(Str(text), max) = Num(max)
  BY DEF str2integer, Str
<1>2. CASE type \in IntegerTypes
  BY <1>1, <1>2, LimitsAssumption DEF python_class, to_int, StringTypes, IntegerTypes, LongTypes, IntNumbers
<1>3. CASE type \in LongTypes
  BY <1>1, <1>3, LimitsAssumption DEF python_class, to_long, StringTypes, IntegerTypes, LongTypes, IntNumbers
<1> QED
  BY <1>2, <1>3 DEF IntNumbers

\* An item of a range, decoded.
LEMMA DecodedItem ==
  ASSUME NEW attr, WellFormed(attr), NEW item \in attr.range,
         NEW k, k = decode_range(attr.type, item)
  PROVE  /\ Len(item) \in 1 .. 2 /\ DOMAIN item = 1 .. Len(item) /\ Len(k) = Len(item)
         /\ \A j \in DOMAIN item : k[j] = python_class(attr.type, Str(item[j]))
<1>1. item \in Seq(DOMAIN Reads) /\ Len(item) \in 1 .. 2
  <2>1. item \in Seq(DOMAIN Reads)
    BY DEF WellFormed
  <2>2. Len(item) \in 1 .. 2 \/ Len(item) = 1
    BY DEF WellFormed
  <2> QED
    BY <2>1, <2>2
<1>2. DOMAIN item = 1 .. Len(item)
  BY <1>1
<1>3. k = [j \in 1 .. Len(item) |-> python_class(attr.type, Str(item[j]))]
  BY <1>2 DEF decode_range
<1>4. Len(k) = Len(item)
  <2>1. k \in Seq({python_class(attr.type, Str(item[j])) : j \in 1 .. Len(item)})
    <3>1. \A j \in 1 .. Len(item) : k[j] \in {python_class(attr.type, Str(item[i])) : i \in 1 .. Len(item)}
      BY <1>3
    <3>2. Len(item) \in Nat
      BY <1>1
    <3> QED
      BY <1>3, <3>1, <3>2
  <2>2. DOMAIN k = 1 .. Len(item) /\ DOMAIN k = 1 .. Len(k) /\ Len(k) \in Nat
    BY <1>3, <2>1
  <2> QED
    BY <1>1, <2>2
<1> QED
  BY <1>1, <1>2, <1>3, <1>4

\* A numeral within a bound.
BoundOf(text, n, least) ==
  \E m \in DOMAIN Denotes : text \in Denotes[m] /\ IF least THEN m <= n ELSE n <= m

\* A number is in a decoded item of a range when it is in the item; and only then,
\* unless the item is open.
LEMMA NumberInItem ==
  ASSUME NEW attr, WellFormed(attr), attr.type \in IntNumbers, NEW item \in attr.range,
         NEW v, v.py \in {"int", "bool"},
         NEW k, k = decode_range(attr.type, item)
  PROVE  /\ ~IsOpen(item) /\ IsIn(v, k) => Within(v, item, attr.type)
         /\ Within(v, item, attr.type) /\ AsNumber(v) \in Int => IsIn(v, k)
<1>1. /\ Len(item) \in 1 .. 2 /\ DOMAIN item = 1 .. Len(item) /\ Len(k) = Len(item)
      /\ \A j \in DOMAIN item : k[j] = python_class(attr.type, Str(item[j]))
  BY DecodedItem
<1>2. \A j \in DOMAIN item : IsNumeral(item[j]) \/ (j = 2 /\ IsOpen(item))
  BY DEF WellFormed
<1>3. ASSUME NEW j \in DOMAIN item, NEW m \in DOMAIN Denotes, item[j] \in Denotes[m]
      PROVE  k[j] = Num(m)
  BY <1>1, <1>3, NumeralIsRead
<1>4. CASE Len(item) = 1
  <2>1. PICK m \in DOMAIN Denotes : item[1] \in Denotes[m]
    BY <1>1, <1>2, <1>4 DEF IsNumeral
  <2>2. k[1] = Num(m)
    BY <1>1, <1>3, <1>4, <2>1
  <2>3. IsIn(v, k) <=> AsNumber(v) = m
    BY <1>1, <1>4, <2>2 DEF IsIn, Equal, AsNumber, Num
  <2>4. Within(v, item, attr.type) <=> AsNumber(v) \in DOMAIN Denotes /\ item[1] \in Denotes[AsNumber(v)]
    BY <1>4 DEF Within
  <2>5. ASSUME AsNumber(v) \in DOMAIN Denotes, item[1] \in Denotes[AsNumber(v)]
        PROVE  AsNumber(v) = m
    <3>1. k[1] = Num(AsNumber(v))
      BY <1>1, <1>3, <1>4, <2>5
    <3> QED
      BY <2>2, <3>1 DEF Num
  <2> QED
    BY <2>1, <2>3, <2>4, <2>5
<1>5. CASE Len(item) = 2
  <2>1. PICK low \in DOMAIN Denotes : item[1] \in Denotes[low]
    BY <1>1, <1>2, <1>5 DEF IsNumeral
  <2>2. Within(v, item, attr.type) <=>
          /\ BoundOf(item[1], AsNumber(v), TRUE)
          /\ IF IsOpen(item) THEN AsNumber(v) <= Limits[attr.type][2]
             ELSE BoundOf(item[2], AsNumber(v), FALSE)
    BY <1>5 DEF Within, BoundOf
  <2>3. IsIn(v, k) <=> k[1].n <= AsNumber(v) /\ AsNumber(v) <= k[2].n
    <3>1. Len(k) = 2
      BY <1>1, <1>5
    <3> QED
      BY <3>1 DEF IsIn
  <2>4. ASSUME NEW j \in 1 .. 2, NEW m \in DOMAIN Denotes, item[j] \in Denotes[m] PROVE k[j].n = m
    <3>1. j \in DOMAIN item
      BY <1>1, <1>5
    <3>2. k[j] = Num(m)
      BY <1>3, <2>4, <3>1
    <3> QED
      BY <3>2 DEF Num
  <2>5. BoundOf(item[1], AsNumber(v), TRUE) <=> k[1].n <= AsNumber(v)
    BY <2>1, <2>4 DEF BoundOf
  <2>6. CASE IsOpen(item)
    <3>1. PICK max \in Int : k[2] = Num(max) /\ Limits[attr.type][2] <= max
      <4>1. Reads[item[2]].first = "*"
        BY <2>6 DEF IsOpen
      <4>2. k[2] = python_class(attr.type, Str(item[2]))
        BY <1>1, <1>5
      <4> QED
        BY <4>1, <4>2, StarIsRead
    <3>2. Limits[attr.type][2] \in Int
      BY LimitsAssumption
    <3>3. AsNumber(v) \in Int /\ AsNumber(v) <= Limits[attr.type][2] => AsNumber(v) <= k[2].n
      BY <3>1, <3>2 DEF Num
    <3> QED
      BY <2>2, <2>3, <2>5, <2>6, <3>3
  <2>7. CASE ~IsOpen(item)
    <3>1. PICK high \in DOMAIN Denotes : item[2] \in Denotes[high]
      BY <1>1, <1>2, <1>5, <2>7 DEF IsNumeral
    <3>2. BoundOf(item[2], AsNumber(v), FALSE) <=> AsNumber(v) <= k[2].n
      BY <2>4, <3>1 DEF BoundOf
    <3> QED
      BY <2>2, <2>3, <2>5, <2>7, <3>2
  <2> QED
    BY <2>6, <2>7
<1> QED
  BY <1>1, <1>4, <1>5

\* What a range, or the limits of the type, says of a number.
NumberConforms(v, attr) ==
  IF attr.range = {} THEN Limits[attr.type][1] <= AsNumber(v) /\ AsNumber(v) <= Limits[attr.type][2]
  ELSE \E item \in attr.range : Within(v, item, attr.type)

LEMMA NumberInRange ==
  ASSUME NEW attr, WellFormed(attr), attr.type \in IntNumbers, NEW v
  PROVE  /\ v.py = "str" => ~InMapped(v, attr)
         /\ v.py \in {"int", "bool"} =>
              /\ InMapped(v, attr) /\ (\A item \in attr.range : ~IsOpen(item)) => NumberConforms(v, attr)
              /\ NumberConforms(v, attr) /\ AsNumber(v) \in Int => InMapped(v, attr)
<1>1. CASE attr.range = {}
  <2> DEFINE k == <<Num(Limits[attr.type][1]), Num(Limits[attr.type][2])>>
  <2>1. mapped_range(attr) = {k}
    BY <1>1 DEF mapped_range
  <2>2. Len(k) = 2 /\ k[1].n = Limits[attr.type][1] /\ k[2].n = Limits[attr.type][2]
    BY DEF Num
  <2> HIDE DEF k
  <2> QED
    BY <1>1, <2>1, <2>2 DEF InMapped, IsIn, NumberConforms
<1>2. CASE attr.range # {}
  <2> DEFINE Decoded(item) == decode_range(attr.type, item)
  <2>1. mapped_range(attr) = {Decoded(item) : item \in attr.range}
    BY <1>2 DEF mapped_range
  <2>2. ASSUME NEW item \in attr.range, v.py \in {"int", "bool"}
        PROVE  /\ ~IsOpen(item) /\ IsIn(v, Decoded(item)) => Within(v, item, attr.type)
               /\ Within(v, item, attr.type) /\ AsNumber(v) \in Int => IsIn(v, Decoded(item))
    BY <2>2, NumberInItem
  <2>3. ASSUME NEW item \in attr.range, v.py = "str", Len(Decoded(item)) # 2
        PROVE  ~IsIn(v, Decoded(item))
    <3>1. /\ Len(item) = 1 /\ 1 \in DOMAIN item
          /\ Decoded(item)[1] = python_class(attr.type, Str(item[1]))
      <4>1. /\ Len(item) \in 1 .. 2 /\ DOMAIN item = 1 .. Len(item) /\ Len(Decoded(item)) = Len(item)
            /\ \A j \in DOMAIN item : Decoded(item)[j] = python_class(attr.type, Str(item[j]))
        BY DecodedItem
      <4> HIDE DEF Decoded
      <4> QED
        BY <2>3, <4>1
    <3>2. PICK m \in DOMAIN Denotes : item[1] \in Denotes[m]
      <4>1. IsNumeral(item[1]) \/ (1 = 2 /\ IsOpen(item))
        BY <3>1 DEF WellFormed
      <4> QED
        BY <4>1 DEF IsNumeral
    <3>3. Decoded(item)[1] = Num(m)
      BY <3>1, <3>2, NumeralIsRead
    <3> HIDE DEF Decoded
    <3>4. ~Equal(v, Decoded(item)[1])
      BY <2>3, <3>3 DEF Equal, Num
    <3> QED
      BY <2>3, <3>4 DEF IsIn
  <2> HIDE DEF Decoded
  <2>4. CASE v.py = "str"
    BY <2>1, <2>3, <2>4 DEF InMapped
  <2>5. CASE v.py \in {"int", "bool"}
    BY <1>2, <2>1, <2>2, <2>5 DEF InMapped, NumberConforms
  <2> QED
    BY <2>4, <2>5
<1> QED
  BY <1>1, <1>2

LEMMA TextInRange ==
  ASSUME NEW attr, WellFormed(attr), attr.type \in StringTypes, attr.range # {},
         NEW text, NEW v, v = Str(text)
  PROVE  InMapped(v, attr) <=> \E item \in attr.range : Within(v, item, attr.type)
<1> DEFINE Decoded(item) == decode_range(attr.type, item)
<1>1. mapped_range(attr) = {Decoded(item) : item \in attr.range}
  BY DEF mapped_range
<1>2. ASSUME NEW item \in attr.range
      PROVE  /\ Len(Decoded(item)) # 2
             /\ IsIn(v, Decoded(item)) <=> Within(v, item, attr.type)
  <2>1. item \in Seq(DOMAIN Reads) /\ Len(item) = 1
    BY DEF WellFormed, StringTypes, IntegerTypes, LongTypes, IntNumbers
  <2>2. Len(Decoded(item)) = 1 /\ Decoded(item)[1] = python_class(attr.type, Str(item[1]))
    <3>1. /\ DOMAIN item = 1 .. Len(item) /\ Len(Decoded(item)) = Len(item)
          /\ \A j \in DOMAIN item : Decoded(item)[j] = python_class(attr.type, Str(item[j]))
      BY DecodedItem
    <3> HIDE DEF Decoded
    <3> QED
      BY <2>1, <3>1
  <2>3. python_class(attr.type, Str(item[1])) = Str(item[1])
    <3>1. Str(item[1]).py \in PythonTypes(attr.type) /\ attr.type \in Types
      BY DEF PythonTypes, Str, Types
    <3> QED
      BY <3>1, ClassKeeps
  <2> HIDE DEF Decoded
  <2>4. Equal(v, Decoded(item)[1]) <=> text = item[1]
    BY <2>2, <2>3 DEF Equal, Str
  <2>5. text = item[1] <=> item = <<text>>
    BY <2>1
  <2> QED
    BY <2>2, <2>4, <2>5 DEF IsIn, Within, Str
<1> HIDE DEF Decoded
<1> QED
  BY <1>1, <1>2 DEF InMapped

\* An item of a range that is open excuses the attribute from its limits.
Excused(attr) == \E item \in attr.range : IsOpen(item)

\* What is accepted, of what python_class makes, conforms; ...
LEMMA AcceptedConform ==
  ASSUME NEW attr, WellFormed(attr), NEW refs, NEW v, Accepts(v, attr, refs),
         \/ v.py \in PythonTypes(attr.type) /\ (v.py = "str" => v = Str(v.t))
         \/ attr.type \in IntNumbers /\ v.py = "str"
  PROVE  v.py \in PythonTypes(attr.type) /\ (Excused(attr) \/ Conforms(v, attr, refs))
<1>1. CASE attr.type \in IntNumbers
  <2>1. PythonTypes(attr.type) = {"int", "bool"} /\ attr.pattern = ""
    BY <1>1 DEF PythonTypes, WellFormed, StringTypes, IntegerTypes, LongTypes, IntNumbers
  <2>2. InMapped(v, attr)
    BY <1>1, <2>1 DEF Accepts, Ranged
  <2>3. v.py \in {"int", "bool"}
    BY <1>1, <2>1, <2>2, NumberInRange
  <2>4. Excused(attr) \/ NumberConforms(v, attr)
    BY <1>1, <2>2, <2>3, NumberInRange DEF Excused
  <2>5. OfType(v, attr.type, refs)
    BY <1>1, <2>3 DEF OfType, StringTypes, IntegerTypes, LongTypes, IntNumbers
  <2> QED
    BY <1>1, <2>1, <2>3, <2>4, <2>5 DEF Conforms, NumberConforms
<1>2. CASE attr.type = "bool"
  <2>1. attr.pattern = "" /\ attr.range = {} /\ attr.type \notin IntNumbers /\ v.py = "bool"
    BY <1>2 DEF WellFormed, PythonTypes, StringTypes, IntegerTypes, LongTypes, IntNumbers
  <2>2. OfType(v, attr.type, refs)
    BY <1>2, <2>1 DEF OfType, StringTypes, IntegerTypes, LongTypes, IntNumbers
  <2> QED
    BY <1>2, <2>1, <2>2 DEF Conforms, PythonTypes, StringTypes
<1>3. CASE attr.type \in StringTypes
  <2>1. /\ v.py = "str" /\ v = Str(v.t) /\ attr.type \notin IntNumbers
        /\ attr.range # {} => attr.pattern = ""
    BY <1>3 DEF WellFormed, PythonTypes, StringTypes, IntegerTypes, LongTypes, IntNumbers
  <2>2. OfType(v, attr.type, refs)
    BY <1>3, <2>1 DEF OfType, Accepts, StringTypes
  <2>3. attr.range # {} => \E item \in attr.range : Within(v, item, attr.type)
    BY <1>3, <2>1, TextInRange DEF Accepts, Ranged
  <2> QED
    BY <1>3, <2>1, <2>2, <2>3 DEF Conforms, Accepts, PythonTypes
<1> QED
  BY <1>1, <1>2, <1>3 DEF WellFormed

\* ... and every scalar that conforms is accepted.
LEMMA ConformingIsAccepted ==
  ASSUME NEW attr, WellFormed(attr), NEW refs, NEW v, IsScalar(v), Conforms(v, attr, refs)
  PROVE  v.py \in PythonTypes(attr.type) /\ Accepts(v, attr, refs)
<1>0. OfType(v, attr.type, refs) /\ (attr.pattern # "" => v.t \in Pattern[attr.pattern])
  BY DEF Conforms
<1>1. CASE attr.type \in IntNumbers
  <2>1. /\ v.py \in {"int", "bool"} /\ v.py \in PythonTypes(attr.type)
        /\ attr.pattern = "" /\ attr.type \notin {"class", "date", "time"}
    BY <1>0, <1>1 DEF OfType, PythonTypes, WellFormed, StringTypes, IntegerTypes, LongTypes, IntNumbers
  <2>2. AsNumber(v) \in Int
    <3>1. CASE v.py = "int"
      BY <3>1 DEF IsScalar, AsNumber
    <3>2. CASE v.py = "bool"
      BY <3>2 DEF AsNumber
    <3> QED
      BY <2>1, <3>1, <3>2
  <2>3. NumberConforms(v, attr)
    BY <1>1 DEF Conforms, NumberConforms
  <2>4. InMapped(v, attr)
    BY <1>1, <2>1, <2>2, <2>3, NumberInRange
  <2> QED
    BY <2>1, <2>4 DEF Accepts
<1>2. CASE attr.type = "bool"
  <2>1. /\ v.py = "bool" /\ v.py \in PythonTypes(attr.type) /\ attr.pattern = "" /\ ~Ranged(attr)
    BY <1>0, <1>2 DEF OfType, PythonTypes, Ranged, WellFormed, StringTypes, IntegerTypes, LongTypes, IntNumbers
  <2> QED
    BY <1>2, <2>1 DEF Accepts
<1>3. CASE attr.type \in StringTypes
  <2>1. /\ v.py = "str" /\ v.py \in PythonTypes(attr.type) /\ v = Str(v.t) /\ attr.type \notin IntNumbers
        /\ attr.type = "class" => v.t \in refs
        /\ attr.type \in {"date", "time"} => v.t \in Dates[attr.type]
    BY <1>0, <1>3 DEF OfType, PythonTypes, IsScalar, StringTypes, IntegerTypes, LongTypes, IntNumbers
  <2>2. attr.range # {} => InMapped(v, attr)
    <3>1. attr.range # {} => \E item \in attr.range : Within(v, item, attr.type)
      BY DEF Conforms
    <3> QED
      BY <1>3, <2>1, <3>1, TextInRange
  <2> QED
    BY <1>0, <2>1, <2>2 DEF Accepts, Ranged
<1> QED
  BY <1>1, <1>2, <1>3 DEF WellFormed

\* Coercing a scalar once is enough, and gives one that conforms.
LEMMA CoercedScalar ==
  ASSUME NEW attr, WellFormed(attr), NEW refs, NEW v, IsScalar(v), ~Raised(coerce(v, attr, refs))
  PROVE  LET c == coerce(v, attr, refs) IN
         /\ c.py \in PythonTypes(attr.type)
         /\ Excused(attr) \/ Conforms(c, attr, refs)
         /\ coerce(c, attr, refs) = c
<1> DEFINE w == python_class(attr.type, v)
<1>1. attr.type \in Types
  BY DEF WellFormed, Types
<1>2. ~Raised(w)
  BY WhatRaises
<1>3. Accepts(w, attr, refs) /\ coerce(v, attr, refs) = w
  BY <1>2, CoercedIsMade
<1>4. w.py \in PythonTypes(attr.type) /\ (Excused(attr) \/ Conforms(w, attr, refs))
  BY <1>1, <1>2, <1>3, ClassMakes, AcceptedConform
<1>5. python_class(attr.type, w) = w
  BY <1>1, <1>4, ClassKeeps
<1>6. coerce(w, attr, refs) = w
  BY <1>2, <1>3, <1>5, CoercedIsMade
<1> QED
  BY <1>3, <1>4, <1>6

LEMMA ConformingScalar ==
  ASSUME NEW attr, WellFormed(attr), NEW refs, NEW v, IsScalar(v), Conforms(v, attr, refs)
  PROVE  coerce(v, attr, refs) = v /\ ~Raised(v)
<1>1. attr.type \in Types
  BY DEF WellFormed, Types
<1>2. v.py \in PythonTypes(attr.type) /\ Accepts(v, attr, refs)
  BY ConformingIsAccepted
<1>3. python_class(attr.type, v) = v /\ ~Raised(v)
  BY <1>1, <1>2, ClassKeeps
<1> QED
  BY <1>2, <1>3, CoercedIsMade

\* A list of coerced items is one, unless an item was refused.
LEMMA Least ==
  ASSUME NEW S \in SUBSET Nat, S # {}
  PROVE  \E m \in S : \A n \in S : m <= n
<1> DEFINE R == OpToRel(<, Nat)
<1>1. PICK m \in S : \A n \in S : <<n, m>> \notin R
  <2>1. IsWellFoundedOn(R, Nat)
    BY NatLessThanWellFounded
  <2> HIDE DEF R
  <2> QED
    BY <2>1, WFMin
<1>2. \A n \in S : n < m => <<n, m>> \in R
  BY DEF OpToRel
<1> HIDE DEF R
<1>3. \A n \in S : ~(n < m)
  BY <1>1, <1>2
<1> QED
  BY <1>3

LEMMA ListOfCoerced ==
  ASSUME NEW T, NEW s \in Seq(T)
  PROVE  IF \E j \in DOMAIN s : Raised(s[j]) THEN Raised(CoercedList(s)) ELSE CoercedList(s) = List(s)
<1> DEFINE failed == {j \in DOMAIN s : Raised(s[j])}
<1>1. failed \in SUBSET Nat
  <2>1. DOMAIN s = 1 .. Len(s) /\ Len(s) \in Nat
    OBVIOUS
  <2> QED
    BY <2>1
<1>2. CoercedList(s) = IF failed = {} THEN List(s) ELSE s[CHOOSE j \in failed : \A k \in failed : j <= k]
  BY DEF CoercedList
<1>3. \A j \in failed : Raised(s[j])
  OBVIOUS
<1>4. CASE failed = {}
  BY <1>2, <1>4
<1>5. CASE failed # {}
  <2> HIDE DEF failed
  <2>1. \E j \in failed : \A k \in failed : j <= k
    BY <1>1, <1>5, Least
  <2>2. Raised(CoercedList(s))
    BY <1>2, <1>3, <1>5, <2>1
  <2> QED
    BY <1>5, <2>2 DEF failed
<1> QED
  BY <1>4, <1>5

IsList(v) ==
  /\ v.py = "list" /\ v = List(v.s)
  /\ v.s \in Seq({v.s[j] : j \in DOMAIN v.s})
  /\ \A j \in DOMAIN v.s : IsScalar(v.s[j])
Assignee(v) == v = Nothing \/ IsScalar(v) \/ IsList(v)

\* The items of a list, coerced.
CoercedItems(s, attr, refs) == [j \in DOMAIN s |-> coerce(s[j], attr, refs)]

LEMMA ListIsSet ==
  ASSUME NEW attr, attr.multivalue = TRUE, NEW refs, NEW v, v.py = "list", NEW T, v.s \in Seq(T)
  PROVE  LET items == CoercedItems(v.s, attr, refs) IN
         /\ setattr(attr, v, refs) = CoercedList(items)
         /\ DOMAIN items = DOMAIN v.s
         /\ \E U : items \in Seq(U)
<1> DEFINE items == CoercedItems(v.s, attr, refs)
<1>1. v # Nothing /\ check_cardinality(v, attr)
  <2>1. v # Nothing
    BY DEF Nothing
  <2>2. (v.py = "list") = TRUE
    OBVIOUS
  <2> QED
    BY <2>1, <2>2 DEF check_cardinality
<1>2. setattr(attr, v, refs) = CoercedList(items)
  BY <1>1 DEF setattr, CoercedItems
<1>3. DOMAIN items = 1 .. Len(v.s) /\ Len(v.s) \in Nat /\ DOMAIN v.s = 1 .. Len(v.s)
  BY DEF CoercedItems
<1>4. items \in Seq({items[j] : j \in DOMAIN items})
  <2>1. items = [j \in 1 .. Len(v.s) |-> items[j]]
    BY <1>3 DEF CoercedItems
  <2> HIDE DEF items
  <2> QED
    BY <1>3, <2>1
<1> QED
  BY <1>2, <1>3, <1>4

LEMMA ScalarIsSet ==
  ASSUME NEW attr, attr.multivalue = FALSE, NEW refs, NEW v, v.py # "list", v # Nothing
  PROVE  setattr(attr, v, refs) = coerce(v, attr, refs)
<1>1. (v.py = "list") = FALSE
  OBVIOUS
<1>2. check_cardinality(v, attr)
  BY <1>1 DEF check_cardinality
<1> QED
  BY <1>2 DEF setattr

LEMMA WrongCardinality ==
  ASSUME NEW attr, NEW refs, NEW v, v # Nothing, ~check_cardinality(v, attr)
  PROVE  Raised(setattr(attr, v, refs))
BY DEF setattr, Raise, Raised

LEMMA StoredSoundly ==
  ASSUME NEW attr, WellFormed(attr), NEW refs, NEW v, Assignee(v)
  PROVE  SoundlyStored(setattr(attr, v, refs), attr, refs)
<1> DEFINE c == setattr(attr, v, refs)
<1> SUFFICES ASSUME ~Raised(c)
             PROVE  /\ Excused(attr) \/ \A e \in Elements(c) : Conforms(e, attr, refs)
                    /\ setattr(attr, c, refs) = c
  BY DEF SoundlyStored, Excused
<1>1. CASE v = Nothing
  <2>1. c = Nothing
    BY <1>1 DEF setattr
  <2>2. Elements(c) = {}
    BY <2>1 DEF Elements, Nothing
  <2> QED
    BY <1>1, <2>1, <2>2
<1>2. CASE IsScalar(v) /\ v # Nothing
  <2>1. v.py # "list"
    BY <1>2 DEF IsScalar
  <2>2. attr.multivalue = FALSE
    <3>1. (v.py = "list") = FALSE /\ check_cardinality(v, attr)
      BY <1>2, <2>1, WrongCardinality
    <3> QED
      BY <3>1 DEF check_cardinality
  <2>3. c = coerce(v, attr, refs)
    BY <1>2, <2>1, <2>2, ScalarIsSet
  <2>4. /\ c.py \in PythonTypes(attr.type)
        /\ Excused(attr) \/ Conforms(c, attr, refs)
        /\ coerce(c, attr, refs) = c
    BY <1>2, <2>3, CoercedScalar
  <2> HIDE DEF c
  <2>5. c.py # "list" /\ c # Nothing
    BY <2>4 DEF PythonTypes, Nothing
  <2>6. Elements(c) = {c}
    BY <2>5 DEF Elements
  <2>7. setattr(attr, c, refs) = c
    BY <2>2, <2>4, <2>5, ScalarIsSet
  <2> QED
    BY <2>4, <2>6, <2>7
<1>3. CASE IsList(v)
  <2> DEFINE items == CoercedItems(v.s, attr, refs)
  <2>1. v # Nothing
    BY <1>3 DEF IsList, Nothing
  <2>2. attr.multivalue = TRUE
    <3>1. (v.py = "list") = TRUE /\ check_cardinality(v, attr)
      BY <1>3, <2>1, WrongCardinality DEF IsList
    <3> QED
      BY <3>1 DEF check_cardinality
  <2>3. PICK U : /\ c = CoercedList(items)
                 /\ DOMAIN items = DOMAIN v.s
                 /\ items \in Seq(U)
    BY <1>3, <2>2, ListIsSet DEF IsList
  <2>4. c = List(items) /\ \A j \in DOMAIN items : ~Raised(items[j])
    <3> HIDE DEF items
    <3>1. ~Raised(CoercedList(items))
      BY <2>3
    <3> QED
      BY <2>3, <3>1, ListOfCoerced
  <2>5. ASSUME NEW j \in DOMAIN items
        PROVE  /\ Excused(attr) \/ Conforms(items[j], attr, refs)
               /\ coerce(items[j], attr, refs) = items[j]
    <3>1. IsScalar(v.s[j]) /\ items[j] = coerce(v.s[j], attr, refs)
      BY <1>3, <2>3 DEF IsList, CoercedItems
    <3>2. ~Raised(coerce(v.s[j], attr, refs))
      BY <2>4, <3>1
    <3> HIDE DEF items
    <3> QED
      BY <3>1, <3>2, CoercedScalar
  <2>6. CoercedItems(items, attr, refs) = items
    <3>1. CoercedItems(items, attr, refs) = [j \in DOMAIN items |-> items[j]]
      BY <2>5 DEF CoercedItems
    <3> HIDE DEF items
    <3> QED
      BY <2>3, <3>1
  <2> HIDE DEF c, items
  <2>7. c.py = "list" /\ c.s = items
    BY <2>4 DEF List
  <2>8. setattr(attr, c, refs) = CoercedList(CoercedItems(c.s, attr, refs))
    BY <2>2, <2>3, <2>7, ListIsSet
  <2>9. setattr(attr, c, refs) = c
    BY <2>3, <2>6, <2>7, <2>8
  <2>10. Elements(c) = {items[j] : j \in DOMAIN items}
    BY <2>7 DEF Elements
  <2> QED
    BY <2>5, <2>9, <2>10
<1> QED
  BY <1>1, <1>2, <1>3 DEF Assignee

LEMMA ConformingKept ==
  ASSUME NEW attr, WellFormed(attr), NEW refs, NEW v, Assignee(v),
         v # Nothing, check_cardinality(v, attr),
         \A e \in Elements(v) : Conforms(e, attr, refs)
  PROVE  setattr(attr, v, refs) = v
<1>1. CASE IsScalar(v)
  <2>1. v.py # "list"
    BY <1>1 DEF IsScalar
  <2>2. attr.multivalue = FALSE
    <3>1. (v.py = "list") = FALSE
      BY <2>1
    <3> QED
      BY <3>1 DEF check_cardinality
  <2>3. Elements(v) = {v}
    BY <2>1 DEF Elements
  <2>4. coerce(v, attr, refs) = v
    BY <1>1, <2>3, ConformingScalar
  <2> QED
    BY <2>1, <2>2, <2>4, ScalarIsSet
<1>2. CASE IsList(v)
  <2> DEFINE items == CoercedItems(v.s, attr, refs)
  <2>1. attr.multivalue = TRUE
    <3>1. (v.py = "list") = TRUE
      BY <1>2 DEF IsList
    <3> QED
      BY <3>1 DEF check_cardinality
  <2>2. ASSUME NEW j \in DOMAIN v.s PROVE coerce(v.s[j], attr, refs) = v.s[j] /\ ~Raised(v.s[j])
    <3>1. IsScalar(v.s[j]) /\ v.s[j] \in Elements(v)
      BY <1>2 DEF IsList, Elements
    <3> QED
      BY <3>1, ConformingScalar
  <2>3. items = v.s
    <3>1. items = [j \in DOMAIN v.s |-> v.s[j]]
      BY <2>2 DEF CoercedItems
    <3> HIDE DEF items
    <3> QED
      BY <1>2, <3>1 DEF IsList
  <2>4. setattr(attr, v, refs) = CoercedList(items)
    <3>1. v.py = "list" /\ v.s \in Seq({v.s[j] : j \in DOMAIN v.s})
      BY <1>2 DEF IsList
    <3> QED
      BY <2>1, <3>1, ListIsSet
  <2> HIDE DEF items
  <2>5. CoercedList(v.s) = List(v.s)
    BY <1>2, <2>2, ListOfCoerced DEF IsList
  <2> QED
    BY <1>2, <2>3, <2>4, <2>5 DEF IsList
<1> QED
  BY <1>1, <1>2 DEF Assignee

LEMMA NumeralTaken ==
  ASSUME NEW attr, WellFormed(attr), attr.type \in IntNumbers, ~attr.multivalue, NEW refs,
         NEW v, IsScalar(v), v.py = "str", NEW n \in DOMAIN Denotes, v.t \in Denotes[n],
         Conforms(Num(n), attr, refs)
  PROVE  setattr(attr, v, refs) = Num(n)
<1>1. attr.multivalue = FALSE
  BY DEF WellFormed
<1>2. v = Str(v.t) /\ v # Nothing /\ v.py # "list"
  BY DEF IsScalar, Nothing
<1>3. python_class(attr.type, v) = Num(n)
  BY <1>2, NumeralIsRead
<1>4. IsScalar(Num(n))
  BY NumeralsAssumption DEF IsScalar, Num
<1>5. Accepts(Num(n), attr, refs)
  BY <1>4, ConformingIsAccepted
<1>6. ~Raised(Num(n))
  BY DEF Num, Raised
<1>7. coerce(v, attr, refs) = Num(n)
  BY <1>3, <1>5, <1>6, CoercedIsMade
<1> QED
  BY <1>1, <1>2, <1>7, ScalarIsSet

----------------------------------------------------------------------------
(* The attributes of DAL classes.                                          *)

\* A DAL class has attributes that some class declares.
LEMMA AttributesAreDescribed ==
  ASSUME PyInv
  PROVE  Assignable \subseteq DOMAIN AttributeOf
<1>1. ASSUME NEW S \in Schemas, NEW c \in Declared(S)
      PROVE  Definition(S, c).attributes \subseteq DOMAIN AttributeOf
  <2>1. PICK f \in S : c \in DOMAIN Declares[f] /\ Definition(S, c) = Declares[f][c]
    BY DefinitionOfFile
  <2>2. f \in Files
    BY DEF Schemas
  <2> QED
    BY <2>1, <2>2, TablesAssumption
<1>2. SUFFICES ASSUME NEW c \in DOMAIN dal PROVE dal[c].attributes \subseteq DOMAIN AttributeOf
  BY DEF Assignable
<1>3. PICK S \in Sources(c) : dal[c] = DalAs(S, c)
  BY DEF PyInv, DalInv
<1>4. S \in Schemas /\ c \in Declared(S)
  BY <1>3 DEF Sources
<1>5. dal[c].attributes = UNION {Definition(S, d).attributes : d \in Superclasses[S][c] \cup {c}}
  BY <1>3 DEF DalAs, Description
<1>6. Superclasses[S][c] = Above(S, c) /\ Above(S, c) \subseteq Declared(S)
  BY <1>4 DEF Superclasses, Above
<1> QED
  BY <1>1, <1>4, <1>5, <1>6

LEMMA ValuesAreAssignees == \A v \in Values : Assignee(v) /\ (v.py = "str" => IsScalar(v))
<1>1. \A v \in Values : Assignee(v)
  BY TablesAssumption DEF Assignee, IsList
<1>2. ASSUME NEW v, Assignee(v), v.py = "str" PROVE IsScalar(v)
  BY <1>2 DEF Assignee, Nothing, IsList
<1> QED
  BY <1>1, <1>2

\* What an attribute accepts conforms to the schema, and is accepted again and kept
\* as it is, for any tables of attributes and values (schema.py:87-215,
\* dal.py:442-474).
THEOREM AcceptedCorrect == PySpec => []AcceptedConforms
<1>1. PyInv /\ TypeOK => AcceptedConforms
  <2> SUFFICES ASSUME PyInv, TypeOK, NEW a \in Assignable PROVE Sound[a][DOMAIN dal]
    BY DEF AcceptedConforms
  <2>1. a \in DOMAIN AttributeOf /\ DOMAIN dal \in SUBSET Classes
    BY AttributesAreDescribed DEF TypeOK
  <2>2. ASSUME NEW known \in SUBSET Classes, NEW v \in Values
        PROVE  SoundlyStored(setattr(AttributeOf[a], v, known), AttributeOf[a], known)
    BY <2>1, StoredSoundly, ValuesAreAssignees, TablesAssumption
  <2> QED
    BY <2>1, <2>2 DEF Sound
<1> QED
  BY <1>1, PyInvariant, PyTypeCorrect, PTL

\* And it accepts whatever conforms, and any numeral of the schema language for the
\* number it denotes.
THEOREM ConformingCorrect == PySpec => []ConformingAccepted
<1>1. PyInv /\ TypeOK => ConformingAccepted
  <2> SUFFICES ASSUME PyInv, TypeOK, NEW a \in Assignable PROVE Complete[a][DOMAIN dal]
    BY DEF ConformingAccepted
  <2>1. a \in DOMAIN AttributeOf /\ DOMAIN dal \in SUBSET Classes
    BY AttributesAreDescribed DEF TypeOK
  <2> DEFINE attr == AttributeOf[a]
  <2>2. WellFormed(attr)
    BY <2>1, TablesAssumption
  <2>3. ASSUME NEW known \in SUBSET Classes, NEW v \in Values, v # Nothing, check_cardinality(v, attr),
               \A e \in Elements(v) : Conforms(e, attr, known)
        PROVE  setattr(attr, v, known) = v
    <3> HIDE DEF attr
    <3> QED
      BY <2>2, <2>3, ConformingKept, ValuesAreAssignees
  <2>4. ASSUME NEW known \in SUBSET Classes, NEW v \in Values, v.py = "str", attr.type \in IntNumbers,
               ~attr.multivalue, NEW n \in DOMAIN Denotes, v.t \in Denotes[n], Conforms(Num(n), attr, known)
        PROVE  setattr(attr, v, known) = Num(n)
    <3>1. IsScalar(v)
      BY <2>4, ValuesAreAssignees
    <3> HIDE DEF attr
    <3> QED
      BY <2>2, <2>4, <3>1, NumeralTaken
  <2> QED
    BY <2>1, <2>3, <2>4 DEF Complete, check_cardinality
<1> QED
  BY <1>1, PyInvariant, PyTypeCorrect, PTL

=============================================================================
