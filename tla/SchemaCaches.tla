---------------------------- MODULE SchemaCaches ----------------------------
(***************************************************************************)
(* What Configuration remembers of the schema: the inheritance maps        *)
(* p_superclasses and p_subclasses, replaced whenever the set of open      *)
(* files changes, and the two caches of class descriptions, filled when a  *)
(* class is first asked for and emptied by unload().                       *)
(*                                                                         *)
(* Every operation holds m_impl_mutex from end to end (see ConfLocks), so  *)
(* each is one step.  The plug-in is external: it has a set of open files, *)
(* and refuses an operation that would leave a class declared in two ways  *)
(* or with an unknown superclass.  A refused operation throws before the   *)
(* maps are touched, and is not a step.                                    *)
(***************************************************************************)
CONSTANTS
  Files,      \* schema and data files
  Databases,  \* the data files: the files that other files are included in
  Classes,
  Declares    \* file -> class it declares -> [super, attributes]

ASSUME FilesAssumption ==
  /\ Databases \subseteq Files
  /\ \A f \in Files : \A c \in DOMAIN Declares[f] :
       c \in Classes /\ Declares[f][c].super \subseteq Classes \ {c}

VARIABLES
  impl,           \* m_impl # nullptr
  roots,          \* external: the files opened by name
  includes,       \* external: database -> the files it includes
  saved,          \* external: the same in the last commit
  p_superclasses, \* class -> all its superclasses
  p_subclasses,   \* class -> all its subclasses, for classes that have any
  p_direct,       \* p_direct_classes_desc_cache: class -> description
  p_all,          \* p_all_classes_desc_cache
  session         \* the files opened since the last unload (no code reads it)

plugin == <<roots, includes, saved>>
maps == <<p_superclasses, p_subclasses>>
schemaVars == <<impl, plugin, maps, p_direct, p_all, session>>

----------------------------------------------------------------------------
(* The schema of a set of files.                                           *)

Declared(S) == UNION {DOMAIN Declares[f] : f \in S}
Definition(S, c) == Declares[CHOOSE f \in S : c \in DOMAIN Declares[f]][c]
DeclaredAlike(S, c) ==
  \A f, g \in S : c \in DOMAIN Declares[f] \cap DOMAIN Declares[g] =>
                    Declares[f][c] = Declares[g][c]
Consistent(S) ==
  \A c \in Declared(S) : DeclaredAlike(S, c) /\ Definition(S, c).super \subseteq Declared(S)

Schemas == {S \in SUBSET Files : Consistent(S)}

\* The superclasses of c, direct and inherited: what every set that holds
\* the direct ones and is closed holds.
Above(S, c) ==
  {d \in Declared(S) : \A X \in SUBSET Declared(S) :
     (\A e \in X \cup {c} : Definition(S, e).super \subseteq X) => d \in X}

\* What ConfigurationImpl::get_superclasses() returns.
Superclasses == [S \in Schemas |-> [c \in Declared(S) |-> Above(S, c)]]

\* What ConfigurationImpl::get(class_name, direct_only) returns.
Description(S, c, direct) ==
  IF direct
  THEN [superclasses |-> Definition(S, c).super,
        subclasses |-> {d \in Declared(S) : c \in Definition(S, d).super},
        attributes |-> Definition(S, c).attributes]
  ELSE [superclasses |-> Superclasses[S][c],
        subclasses |-> {d \in Declared(S) : c \in Superclasses[S][d]},
        attributes |-> UNION {Definition(S, d).attributes : d \in Superclasses[S][c] \cup {c}}]

FilesOf(open, incl) == open \cup UNION {incl[d] : d \in open \cap Databases}
Opened == FilesOf(roots, includes)

----------------------------------------------------------------------------
(* The operations.                                                         *)

Empty == [c \in {} |-> {}]

set_subclasses(super) ==
  [j \in UNION {super[c] : c \in DOMAIN super} |-> {c \in DOMAIN super : j \in super[c]}]

\* get_superclasses() and set_subclasses(), after the plug-in has the files.
GetSuperclasses(S) ==
  /\ S \in Schemas
  /\ p_superclasses' = Superclasses[S]
  /\ p_subclasses' = set_subclasses(p_superclasses')
  /\ session' = session \cup S

Init ==
  /\ impl = FALSE
  /\ roots = {}
  /\ includes = [d \in Databases |-> {}]
  /\ saved = includes
  /\ p_superclasses = Empty /\ p_subclasses = Empty
  /\ p_direct = Empty /\ p_all = Empty
  /\ session = {}

\* The constructor, with the files of its specification (none or one).
ctor(spec) ==
  /\ ~impl
  /\ impl' = TRUE
  /\ roots' = spec
  /\ GetSuperclasses(FilesOf(spec, includes))
  /\ UNCHANGED <<includes, saved, p_direct, p_all>>

load(f) ==
  /\ impl
  /\ f \notin roots
  /\ roots' = roots \cup {f}
  /\ GetSuperclasses(FilesOf(roots', includes))
  /\ UNCHANGED <<impl, includes, saved, p_direct, p_all>>

\* create(db_name, includes), of a database that does not exist yet.
create(db, incl) ==
  /\ impl
  /\ db \in Databases \ roots /\ saved[db] = {}
  /\ roots' = roots \cup {db}
  /\ includes' = [includes EXCEPT ![db] = incl]
  /\ saved' = [saved EXCEPT ![db] = incl]
  /\ GetSuperclasses(FilesOf(roots', includes'))
  /\ UNCHANGED <<impl, p_direct, p_all>>

add_include(db, f) ==
  /\ impl
  /\ db \in roots /\ f \notin includes[db]
  /\ includes' = [includes EXCEPT ![db] = @ \cup {f}]
  /\ GetSuperclasses(FilesOf(roots, includes'))
  /\ UNCHANGED <<impl, roots, saved, p_direct, p_all>>

remove_include(db, f) ==
  /\ impl
  /\ db \in roots /\ f \in includes[db]
  /\ includes' = [includes EXCEPT ![db] = @ \ {f}]
  /\ GetSuperclasses(FilesOf(roots, includes'))
  /\ UNCHANGED <<impl, roots, saved, p_direct, p_all>>

commit ==
  /\ impl
  /\ saved' = includes
  /\ UNCHANGED <<impl, roots, includes, maps, p_direct, p_all, session>>

abort ==
  /\ impl
  /\ includes' = saved
  /\ GetSuperclasses(FilesOf(roots, includes'))
  /\ UNCHANGED <<impl, roots, saved, p_direct, p_all>>

\* unload() reaches the schema caches only when m_impl->unsubscribe(), before
\* them, has not thrown; it never clears p_subclasses.
UnloadBeforeTheThrow(throws) ==  \* mutant: the maps are cleared first
  /\ impl
  /\ p_superclasses' = Empty /\ p_direct' = Empty /\ p_all' = Empty
  /\ roots' = IF throws THEN roots ELSE {}
  /\ includes' = IF throws THEN includes ELSE saved
  /\ session' = {}
  /\ UNCHANGED <<impl, saved, p_subclasses>>
UnloadKeepingDescriptions(throws) ==  \* mutant: descriptions are kept
  /\ impl
  /\ ~throws
  /\ p_superclasses' = Empty
  /\ roots' = {} /\ includes' = saved /\ session' = {}
  /\ UNCHANGED <<impl, saved, p_subclasses, p_direct, p_all>>
unload(throws) ==
  /\ impl
  /\ IF throws
     THEN UNCHANGED <<p_superclasses, p_direct, p_all, roots, includes, session>>
     ELSE /\ p_superclasses' = Empty
          /\ p_direct' = Empty /\ p_all' = Empty
          /\ roots' = {} /\ includes' = saved
          /\ session' = {}
  /\ UNCHANGED <<impl, saved, p_subclasses>>

\* The destructor: whether or not unload() threw, all of it is gone.
dtor ==
  /\ impl
  /\ impl' = FALSE
  /\ p_superclasses' = Empty /\ p_subclasses' = Empty
  /\ p_direct' = Empty /\ p_all' = Empty
  /\ roots' = {} /\ includes' = saved /\ session' = {}
  /\ UNCHANGED saved

\* A description is made when a class is first asked for, and kept.
Described(cache, asked, direct) ==
  [c \in DOMAIN cache \cup asked |->
     IF c \in DOMAIN cache THEN cache[c] ELSE Description(Opened, c, direct)]

\* get_class_info() of each of the classes asked; NotFound for a class that is
\* in no open file and no cache.
GetClassInfo(asked, asked_all) ==
  /\ asked \subseteq DOMAIN p_direct \cup Declared(Opened)
  /\ asked_all \subseteq DOMAIN p_all \cup Declared(Opened)
  /\ p_direct' = Described(p_direct, asked, TRUE)
  /\ p_all' = Described(p_all, asked_all, FALSE)

get_class_info(c, direct) ==
  /\ impl
  /\ GetClassInfo(IF direct THEN {c} ELSE {}, IF direct THEN {} ELSE {c})
  /\ UNCHANGED <<impl, plugin, maps, session>>

\* Both walk superclasses() and describe each class that matches an expression;
\* the data of an object are read through the attributes of its class's description.
export_schema(matching, direct) ==
  /\ impl
  /\ matching \subseteq DOMAIN p_superclasses
  /\ GetClassInfo(IF direct THEN matching ELSE {}, IF direct THEN {} ELSE matching)
  /\ UNCHANGED <<impl, plugin, maps, session>>
export_data(matching) == export_schema(matching, FALSE)

Next ==
  \/ \E f \in Files : ctor({f}) \/ load(f)
  \/ ctor({})
  \/ \E db \in Databases, f \in Files : add_include(db, f) \/ remove_include(db, f)
  \/ \E db \in Databases, incl \in SUBSET (Files \ Databases) : create(db, incl)
  \/ commit \/ abort \/ dtor
  \/ \E throws \in BOOLEAN : unload(throws)
  \/ \E c \in Classes, direct \in BOOLEAN : get_class_info(c, direct)
  \/ \E matching \in SUBSET Classes :
       export_data(matching) \/ \E direct \in BOOLEAN : export_schema(matching, direct)

Spec == Init /\ [][Next]_schemaVars

----------------------------------------------------------------------------
(* Properties.                                                             *)

\* The inheritance maps, through which handles are looked up and changes are
\* applied to related classes, are those of the open files: whatever was
\* opened, included, aborted or half unloaded before.  (Without open files,
\* p_subclasses may be that of the last ones.)
SchemaCurrent ==
  Opened # {} => /\ p_superclasses = Superclasses[Opened]
                 /\ p_subclasses = set_subclasses(Superclasses[Opened])

\* The attributes and superclasses that get_class_info() has cached are those
\* of the open files, for classes (and superclasses) that no two files opened
\* since unload() declare differently; a description may outlive the file.
DescriptionsCurrent ==
  \A c \in Declared(Opened) :
    (\A d \in Superclasses[Opened][c] \cup {c} : DeclaredAlike(session, d)) =>
      \A direct \in BOOLEAN :
        LET cache == IF direct THEN p_direct ELSE p_all
            now == Description(Opened, c, direct)
        IN c \in DOMAIN cache => /\ cache[c].attributes = now.attributes
                                 /\ cache[c].superclasses = now.superclasses

\* "the names of direct subclasses" (Schema.hpp:161): what get_class_info()
\* would return names the subclasses that there are.
SubclassesCurrent ==
  \A c \in DOMAIN p_direct \cap Declared(Opened) :
    p_direct[c].subclasses = Description(Opened, c, TRUE).subclasses
=============================================================================
