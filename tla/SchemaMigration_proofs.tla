----------------------- MODULE SchemaMigration_proofs -----------------------
(***************************************************************************)
(* Openers never expose half an edge, whatever the objects of the schema,  *)
(* the number of openers and the database they find.                       *)
(***************************************************************************)
EXTENDS SchemaMigration, TLAPS

(* A migration edge over a database that is complete for its version, once *)
(* all its statements are executed, is complete for the next version.      *)
LEMMA EdgeCompletes ==
  ASSUME NEW d \in Database, NEW w \in Database, Sound(d), d.version < Latest,
         d.canonical \subseteq w.canonical,
         w.canonical \ d.canonical \subseteq Edge(d.version + 1),
         Edge(d.version + 1) \subseteq w.canonical,
         w.foreign = d.foreign, w.intact = d.intact
  PROVE  ValidFor(w, d.version + 1)
<1>1. d.version \in 0 .. Latest /\ d.version + 1 \in 1 .. Latest
  BY SchemaAssumption DEF Sound, ValidFor, Supported, Database
<1>2. w.canonical = Upto(d.version + 1)
  <2>1. CASE d.version = 0
    <3>1. \A o \in Objects : Introduced[o] <= 1 <=> Introduced[o] = 1
      BY SchemaAssumption
    <3>. QED  BY <2>1, <3>1 DEF Sound, ValidFor, Edge, Upto, Database
  <2>2. CASE d.version # 0
    <3>1. \A o \in Objects :
            Introduced[o] <= d.version + 1 <=>
              Introduced[o] <= d.version \/ Introduced[o] = d.version + 1
      BY <1>1, SchemaAssumption
    <3>. QED  BY <2>2, <3>1 DEF Sound, ValidFor, Edge, Upto, Database
  <2>. QED  BY <2>1, <2>2
<1>3. w.foreign \cap Objects = {} /\ w.intact
  BY DEF Sound, ValidFor
<1>. QED  BY <1>1, <1>2, <1>3 DEF ValidFor, Supported

-----------------------------------------------------------------------------

LEMMA InitEstablishes == Init => MigrationInv
<1> SUFFICES ASSUME Init PROVE MigrationInv
  OBVIOUS
<1> USE SchemaAssumption, OriginAssumption, OpenerAssumption DEF Init
<1>1. TypeOK
  BY DEF TypeOK, PCs, Database
<1>2. EveryRungComplete /\ FailsClosed
  <2>1. db \in Database
    BY <1>1 DEF TypeOK
  <2>2. QED
    BY <2>1 DEF EveryRungComplete, FailsClosed, Sound, ValidFor, Supported, Database
<1>3. WorkInProgress /\ KnownIsPast /\ InitializedIsLatest
  BY DEF WorkInProgress, KnownIsPast, InitializedIsLatest
<1> QED  BY <1>1, <1>2, <1>3 DEF MigrationInv

LEMMA TypeStep ==
  ASSUME MigrationInv, [Next]_vars
  PROVE  TypeOK'
<1> USE SchemaAssumption, OpenerAssumption DEF MigrationInv, TypeOK, Goto, PCs, transaction
<1>1. CASE UNCHANGED vars
  BY <1>1 DEF vars
<1>2. ASSUME NEW p \in Openers, Step(p) PROVE TypeOK'
  <2>1. CASE InitSchema(p) \/ RejectVersion(p)
    BY <2>1 DEF InitSchema, RejectVersion, Supported
  <2>2. CASE Precheck(p) \/ PrecheckRaises(p)
    BY <2>2 DEF Precheck, PrecheckRaises
  <2>3. CASE Acquire(p)
    BY <2>3 DEF Acquire, Edge
  <2>4. CASE AcquireLost(p) \/ AcquireInvalid(p) \/ AcquireBusy(p)
    BY <2>4 DEF AcquireLost, AcquireInvalid, AcquireBusy
  <2>5. CASE Reread(p)
    BY <2>5 DEF Reread, KnownIsPast, Supported
  <2>6. CASE Execute(p)
    BY <2>6 DEF Execute, Database
  <2>7. CASE AdvanceVersion(p)
    BY <2>7 DEF AdvanceVersion, Database
  <2>8. CASE Commit(p)
    <3>1. known[p] < Latest
      BY <2>8 DEF Commit, WorkInProgress
    <3>2. QED
      BY <2>8, <3>1 DEF Commit
  <2>9. CASE Finish(p)
    BY <2>9 DEF Finish
  <2>10. CASE Retry(p)
    BY <2>10 DEF Retry
  <2> QED
    BY <1>2, <2>1, <2>2, <2>3, <2>4, <2>5, <2>6, <2>7, <2>8, <2>9, <2>10 DEF Step
<1>3. ASSUME NEW p \in Openers, EdgeFails(p) PROVE TypeOK'
  BY <1>3 DEF EdgeFails, Rollback
<1>4. ASSUME NEW p \in Openers, Crash(p) PROVE TypeOK'
  BY <1>4 DEF Crash, Rollback
<1> QED  BY <1>1, <1>2, <1>3, <1>4 DEF Next

(* A step that leaves the database and the transaction alone keeps         *)
(* everything, if its opener stays out of the transaction, knows nothing   *)
(* ahead of the database, and is done only with the latest version.        *)
LEMMA LocalStep ==
  ASSUME MigrationInv, TypeOK', NEW p \in Openers,
         UNCHANGED <<db, origin, holder, work, left>>,
         pc[p] \notin {"migrate", "commit"}, pc'[p] \notin {"migrate", "commit"},
         \A q \in Openers \ {p} : pc'[q] = pc[q] /\ known'[q] = known[q],
         pc'[p] \notin {"closed", "failed", "overtaken", "rejected"} =>
           Supported(db.version) /\ known'[p] <= db.version,
         pc'[p] = "begin" => known'[p] < Latest,
         pc'[p] = "done" => db.version = Latest /\ Sound(db)
  PROVE  MigrationInv'
<1>1. (EveryRungComplete /\ FailsClosed)'
  BY DEF MigrationInv, EveryRungComplete, FailsClosed
<1>2. WorkInProgress'
  BY DEF MigrationInv, WorkInProgress
<1>3. KnownIsPast' /\ InitializedIsLatest'
  BY DEF MigrationInv, KnownIsPast, InitializedIsLatest
<1> QED  BY <1>1, <1>2, <1>3 DEF MigrationInv

(* The steps of a transaction: begin, execute, advance the version, commit. *)
LEMMA TransactionStep ==
  ASSUME MigrationInv, TypeOK', NEW p \in Openers,
         Acquire(p) \/ Execute(p) \/ AdvanceVersion(p) \/ Commit(p)
  PROVE  MigrationInv'
<1> USE SchemaAssumption, OpenerAssumption
<1>0. TypeOK /\ EveryRungComplete /\ FailsClosed /\ WorkInProgress /\ KnownIsPast
        /\ InitializedIsLatest
  BY DEF MigrationInv
<1>1. CASE Acquire(p)
  <2>1. (EveryRungComplete /\ FailsClosed)'
    BY <1>0, <1>1 DEF Acquire, EveryRungComplete, FailsClosed
  <2>2. WorkInProgress'
    <3>1. known[p] < Latest
      BY <1>0, <1>1 DEF Acquire, KnownIsPast
    <3> QED
      BY <1>0, <1>1, <3>1 DEF Acquire, WorkInProgress, Goto, Sound, TypeOK, Database
  <2>3. KnownIsPast' /\ InitializedIsLatest'
    BY <1>0, <1>1 DEF Acquire, KnownIsPast, InitializedIsLatest, Goto, ValidFor, TypeOK
  <2> QED  BY <2>1, <2>2, <2>3 DEF MigrationInv
<1>2. CASE Execute(p)
  <2>1. UNCHANGED <<db, origin, pc, known, holder>>
    BY <1>2 DEF Execute
  <2>2. PICK o \in left :
          /\ work' = IF o \in work.foreign THEN work
                     ELSE [work EXCEPT !.canonical = @ \cup {o}]
          /\ left' = left \ {o}
    BY <1>2 DEF Execute
  <2>3. pc[p] = "migrate" /\ holder = p
    BY <1>0, <1>2 DEF Execute, WorkInProgress
  <2>4. o \notin work.foreign
    <3>1. o \in Objects /\ Sound(db) /\ work.foreign = db.foreign
      BY <1>0, <2>3 DEF WorkInProgress, TypeOK
    <3> QED  BY <3>1 DEF Sound, ValidFor
  <2>5. /\ work'.canonical = work.canonical \cup {o} /\ work'.version = work.version
        /\ work'.foreign = work.foreign /\ work'.intact = work.intact
    BY <1>0, <2>2, <2>4 DEF TypeOK, Database
  <2>6. WorkInProgress'
    <3> SUFFICES ASSUME NEW q \in Openers, q = p PROVE WorkInProgress!(q)'
      BY <1>0, <2>1, <2>3 DEF WorkInProgress
    <3> QED
      BY <1>0, <2>1, <2>2, <2>3, <2>5 DEF WorkInProgress
  <2>7. (EveryRungComplete /\ FailsClosed /\ KnownIsPast /\ InitializedIsLatest)'
    BY <1>0, <2>1 DEF EveryRungComplete, FailsClosed, KnownIsPast, InitializedIsLatest
  <2> QED  BY <2>6, <2>7 DEF MigrationInv
<1>3. CASE AdvanceVersion(p)
  <2>1. UNCHANGED <<db, origin, known, holder, left>> /\ holder = p /\ left = {}
    BY <1>0, <1>3 DEF AdvanceVersion, WorkInProgress
  <2>2. /\ work'.canonical = work.canonical /\ work'.version = known[p] + 1
        /\ work'.foreign = work.foreign /\ work'.intact = work.intact
    BY <1>0, <1>3 DEF AdvanceVersion, TypeOK, Database
  <2>3. /\ pc[p] = "migrate" /\ pc'[p] = "commit"
        /\ \A q \in Openers \ {p} : pc'[q] = pc[q]
    BY <1>0, <1>3 DEF AdvanceVersion, Goto, TypeOK
  <2>4. WorkInProgress'
    BY <1>0, <2>1, <2>2, <2>3 DEF WorkInProgress
  <2>5. (EveryRungComplete /\ FailsClosed /\ KnownIsPast /\ InitializedIsLatest)'
    BY <1>0, <2>1, <2>3 DEF EveryRungComplete, FailsClosed, KnownIsPast, InitializedIsLatest
  <2> QED  BY <2>4, <2>5 DEF MigrationInv
<1>4. CASE Commit(p)
  <2>1. /\ db' = work /\ holder' = None /\ UNCHANGED <<origin, work, left>>
        /\ pc[p] = "commit" /\ pc'[p] = "loop" /\ known'[p] = known[p] + 1
        /\ \A q \in Openers \ {p} : pc'[q] = pc[q] /\ known'[q] = known[q]
    BY <1>0, <1>4 DEF Commit, Goto, TypeOK
  <2>2. /\ holder = p /\ left = {} /\ Sound(db) /\ db.version = known[p] /\ known[p] < Latest
        /\ work.version = known[p] + 1 /\ db.canonical \subseteq work.canonical
        /\ work.foreign = db.foreign
    BY <1>0, <2>1 DEF WorkInProgress
  <2>3. Sound(work)
    BY <1>0, <2>1, <2>2, EdgeCompletes DEF WorkInProgress, Sound, TypeOK
  <2>4. Sound(origin)
    BY <1>0, <2>2 DEF FailsClosed
  <2>5. (EveryRungComplete /\ FailsClosed)'
    BY <1>0, <2>1, <2>2, <2>3, <2>4 DEF EveryRungComplete, FailsClosed, TypeOK, Database
  <2>6. WorkInProgress'
    BY <1>0, <2>1, <2>2 DEF WorkInProgress
  <2>7. KnownIsPast'
    BY <1>0, <2>1, <2>2, <2>3 DEF KnownIsPast, Sound, ValidFor, TypeOK, Database
  <2>8. InitializedIsLatest'
    BY <1>0, <2>1, <2>2 DEF InitializedIsLatest
  <2> QED  BY <2>5, <2>6, <2>7, <2>8 DEF MigrationInv
<1> QED  BY <1>1, <1>2, <1>3, <1>4

(* A transaction that does not commit, whatever ends it, leaves no trace.  *)
LEMMA FailureStep ==
  ASSUME MigrationInv, TypeOK', NEW p \in Openers, EdgeFails(p) \/ Crash(p)
  PROVE  MigrationInv'
<1>1. UNCHANGED <<db, origin, known>> /\ pc'[p] \in {"failed", "closed"}
      /\ \A q \in Openers \ {p} : pc'[q] = pc[q]
  BY DEF MigrationInv, TypeOK, EdgeFails, Crash, Goto
<1>2. holder = p => holder' = None
  BY DEF EdgeFails, Crash, Rollback
<1>3. holder # p => UNCHANGED <<holder, work, left>>
  BY DEF MigrationInv, WorkInProgress, EdgeFails, Crash, transaction
<1>4. WorkInProgress'
  BY <1>1, <1>2, <1>3, OpenerAssumption DEF MigrationInv, WorkInProgress
<1>5. (EveryRungComplete /\ FailsClosed /\ KnownIsPast /\ InitializedIsLatest)'
  BY <1>1 DEF MigrationInv, EveryRungComplete, FailsClosed, KnownIsPast, InitializedIsLatest
<1> QED  BY <1>4, <1>5 DEF MigrationInv

LEMMA InvariantStep ==
  ASSUME MigrationInv, [Next]_vars
  PROVE  MigrationInv'
<1>0. TypeOK /\ TypeOK' /\ KnownIsPast
  BY TypeStep DEF MigrationInv
<1>1. CASE UNCHANGED vars
  BY <1>1 DEF vars, MigrationInv, TypeOK, EveryRungComplete, FailsClosed, WorkInProgress,
              KnownIsPast, InitializedIsLatest
<1>2. ASSUME NEW p \in Openers, Step(p) PROVE MigrationInv'
  <2> USE <1>0, SchemaAssumption DEF Goto, transaction, TypeOK
  <2>1. CASE InitSchema(p)
    BY <2>1, LocalStep DEF InitSchema, Database
  <2>2. CASE RejectVersion(p)
    BY <2>2, LocalStep DEF RejectVersion
  <2>3. CASE Precheck(p)
    BY <2>3, LocalStep DEF Precheck, KnownIsPast
  <2>4. CASE PrecheckRaises(p)
    BY <2>4, LocalStep DEF PrecheckRaises
  <2>5. CASE AcquireLost(p)
    BY <2>5, LocalStep DEF AcquireLost, KnownIsPast
  <2>6. CASE AcquireInvalid(p) \/ AcquireBusy(p)
    BY <2>6, LocalStep DEF AcquireInvalid, AcquireBusy
  <2>7. CASE Reread(p)
    BY <2>7, LocalStep DEF Reread, KnownIsPast, Database
  <2>8. CASE Finish(p)
    <3>1. db.version = Latest
      BY <2>8 DEF Finish, KnownIsPast, Supported, Database
    <3> QED
      BY <2>8, <3>1, LocalStep DEF Finish, KnownIsPast, Sound
  <2>9. CASE Retry(p)
    BY <2>9, LocalStep DEF Retry, Returned
  <2>10. CASE Acquire(p) \/ Execute(p) \/ AdvanceVersion(p) \/ Commit(p)
    BY <2>10, TransactionStep
  <2> QED
    BY <1>2, <2>1, <2>2, <2>3, <2>4, <2>5, <2>6, <2>7, <2>8, <2>9, <2>10 DEF Step
<1>3. ASSUME NEW p \in Openers, EdgeFails(p) \/ Crash(p) PROVE MigrationInv'
  BY <1>0, <1>3, FailureStep
<1> QED  BY <1>1, <1>2, <1>3 DEF Next

(* For any schema, openers and failures: what an opener has done in its    *)
(* open transaction is a complete or unfinished edge on top of a sound     *)
(* file, and no other opener holds a transaction (_migrate_one_step).      *)
THEOREM MigrationInvariant == Spec => []MigrationInv
<1> QED  BY InitEstablishes, InvariantStep, PTL DEF Spec

(* Every committed database is complete for its version, and a database    *)
(* that is not what its version says is never modified (init_schema and    *)
(* _migrate_one_step, for any schema, any openers, any failures).          *)
THEOREM MigrationIsAtomic == Spec => [](EveryRungComplete /\ FailsClosed)
<1>1. MigrationInv => EveryRungComplete /\ FailsClosed
  BY DEF MigrationInv
<1> QED  BY <1>1, MigrationInvariant, PTL

(* A call of init_schema that returned left the latest schema, complete.   *)
THEOREM InitSchemaDelivers == Spec => []InitializedIsLatest
<1>1. MigrationInv => InitializedIsLatest
  BY DEF MigrationInv
<1> QED  BY <1>1, MigrationInvariant, PTL

(* Racing openers implement the ladder: each commit is one rung, everything *)
(* else is invisible.                                                      *)
THEOREM MigrationRefinesLadder == Spec => ClimbsTheLadder
<1>1. Init => Ladder!Init
  BY DEF Init, Ladder!Init
<1>2. MigrationInv /\ [Next]_vars => [Ladder!Climb]_db
  <2> SUFFICES ASSUME MigrationInv, [Next]_vars, db' # db PROVE Ladder!Climb
    OBVIOUS
  <2>1. PICK p \in Openers : Commit(p)
    BY DEF Next, Step, vars, InitSchema, RejectVersion, Precheck, PrecheckRaises, Acquire,
           AcquireLost, AcquireInvalid, AcquireBusy, Reread, Execute, AdvanceVersion,
           Finish, Retry, EdgeFails, Crash
  <2>2. /\ db' = work /\ left = {} /\ Sound(db) /\ db.version = known[p] /\ known[p] < Latest
        /\ work.version = known[p] + 1 /\ db.canonical \subseteq work.canonical
        /\ work.canonical \ db.canonical \subseteq Edge(known[p] + 1)
        /\ Edge(known[p] + 1) \subseteq work.canonical \cup left
        /\ work.foreign = db.foreign /\ work.intact = db.intact
    BY <2>1 DEF Commit, MigrationInv, WorkInProgress
  <2>3. db \in Database /\ work \in Database
    BY DEF MigrationInv, TypeOK
  <2>4. ValidFor(work, db.version + 1)
    BY <2>2, <2>3, EdgeCompletes
  <2>5. work.canonical = Upto(db.version + 1)
    BY <2>2, <2>3, <2>4, SchemaAssumption DEF ValidFor, Sound, Supported
  <2>6. work = [db EXCEPT !.version = @ + 1, !.canonical = Upto(db.version + 1)]
    BY <2>2, <2>3, <2>5 DEF Database
  <2> QED  BY <2>2, <2>6 DEF Ladder!Climb, Ladder!Sound, Ladder!ValidFor, Ladder!Supported,
                          Ladder!Edge, Ladder!Upto, Sound, ValidFor, Supported, Edge, Upto
<1> QED
  BY <1>1, <1>2, MigrationInvariant, PTL DEF Spec, ClimbsTheLadder, Ladder!Spec

=============================================================================
