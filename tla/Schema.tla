------------------------------- MODULE Schema -------------------------------
(***************************************************************************)
(* The shape of an experiment database: a version (PRAGMA user_version)    *)
(* and the named objects of sqlite_schema.  What a canonical object looks  *)
(* like is abstracted to whether it is canonical.                          *)
(***************************************************************************)
EXTENDS Integers

CONSTANTS
  Latest,      \* SCHEMA_VERSION
  Objects,     \* the declared tables and triggers
  Names,       \* those, and the names an owner may use beside them
  Introduced,  \* the version that introduces each of them
  Origins      \* the databases a behaviour may start from

ASSUME SchemaAssumption ==
  /\ Latest \in Nat \ {0}
  /\ Objects \subseteq Names
  /\ Introduced \in [Objects -> 1 .. Latest]

(* canonical: the declared objects that exist as declared; foreign: the    *)
(* names held by anything else, a declared name in another form included;  *)
(* intact: whether SQLite's integrity and foreign-key checks pass.         *)
Database == [version : Int, canonical : SUBSET Objects, foreign : SUBSET Names, intact : BOOLEAN]

ASSUME OriginAssumption == Origins \subseteq Database

Supported(version) == version \in 0 .. Latest

(* The objects one migration edge creates, and those of a version.         *)
Edge(version) == {o \in Objects : Introduced[o] = version}
Upto(version) == {o \in Objects : Introduced[o] <= version}

(* _validate_schema_for_version: an unversioned database holds nothing but *)
(* possibly the legacy experiments table; a versioned one holds exactly    *)
(* the declared objects of its version, in canonical form, and may hold    *)
(* objects of its owner beside them.                                       *)
ValidFor(d, version) ==
  /\ Supported(version)
  /\ IF version = 0 THEN d.canonical \subseteq Edge(1) /\ d.foreign = {}
                    ELSE d.canonical = Upto(version) /\ d.foreign \cap Objects = {}
  /\ d.intact

Sound(d) == ValidFor(d, d.version)

=============================================================================
