----------------------------- MODULE BundleReplay -----------------------------
(***************************************************************************)
(* Replay of a RunBundle into one destination directory: several calls of  *)
(* replay_run_bundle (any version) with the same bundle and destination,   *)
(* and an operator who edits the bundle or the destination.  A call        *)
(* verifies the bundle, enters an empty directory or makes it, fills a     *)
(* temporary database there, publishes it by a hard link that replaces     *)
(* nothing, verifies the bundle again, and removes the temporary name.     *)
(* What the database holds is the matter of BundleContract; here it is a   *)
(* file known by its identity, which several names may refer to.           *)
(***************************************************************************)
EXTENDS Integers, Sequences, FiniteSets, Functions

CONSTANTS
  Replayers,
  Assignments,   \* which versions of the function they may call
  Given,         \* whether the destination may, and may not, exist before
  MaxFaults,     \* bound on errors of system calls, interrupts and kills
  MaxTrouble,    \* bound on faults and what the operator does, which
                 \* counts for two
  None

VARIABLES
  version,
  dir,           \* what the name of the destination refers to
  inside,        \* what the names in each directory refer to: the published
                 \* name, and a temporary one for each call
  content,       \* the content of each file
  source,        \* the content of the bundle
  todo, answer,
  created,       \* whether a call knows that it made the destination
  identity,      \* the identity of the destination it captured
  database,      \* the identity of its temporary database
  descriptor,    \* whether that database is held open
  staged,        \* whether its temporary name is still set
  verified,      \* the bundle it verified at first
  faults, edits,
  struck,        \* history: which calls were struck by a fault, and where
  joined         \* history: which directories several calls have entered,
                 \* or have put a file into by the path

disk == <<dir, inside, content, source>>
local == <<todo, answer, created, identity, database, descriptor, staged, verified>>
bounds == <<faults, edits, struck>>
vars == <<version, disk, local, bounds, joined>>

Owner == "owner"
Published == "replay.sqlite3"
Names == Replayers \cup {Published}
Dirs == Replayers \cup {Owner, "given"}    \* directories, by who made them
Files == Replayers \cup {Owner}            \* files, by who made them

ASSUME ReplayAssumption ==
  /\ Replayers # {} /\ Replayers \cap {Owner, "given", Published, "other"} = {}
  /\ Given \subseteq BOOLEAN
  /\ None \notin Dirs /\ None \notin {"bundle", "other", "foreign", "empty"}
  /\ None \notin {"equivalent", "failed", "aborted", "crashed", "published", "abandoned"}
  /\ Assignments \subseteq [Replayers -> {"v1", "v2", "v3"}]
  /\ {MaxFaults, MaxTrouble} \subseteq Nat

----------------------------------------------------------------------------
(* The programs.  The versions differ in how often they look again.        *)

Enter == <<"verify", "look", "identify", "guard">>
Stage == <<"mkstemp", "owned", "fill">>
Published1 == <<"same", "owned", "owned_published", "require">>

ReplayV1 == Enter \o <<"require">> \o Stage \o <<"owned", "reopen", "owned", "require", "link">>
            \o Published1
            \o <<"owned", "owned_published", "reread", "owned", "owned_published", "verify_again",
                 "owned", "owned_published", "close", "unlink", "vacant", "single", "done">>

(* mistake: the database keeps its temporary name                          *)
ReplayTwoNames == Enter \o Stage \o <<"reopen", "owned", "require", "link", "same", "reread",
                      "verify_again", "close", "done">>

ReplayV2 == Enter \o Stage \o <<"reopen", "owned", "require", "link", "same", "reread",
                 "verify_again", "close", "unlink", "single", "done">>
ReplayV3 == Enter \o Stage \o <<"reopen", "owned", "require", "link", "same", "reread",
                 "verify_again", "close", "unlink", "alone", "done">>

Program(p) ==
  CASE version[p] = "v1" -> ReplayV1 [] version[p] = "v2" -> ReplayV2
    [] version[p] = "v3" -> ReplayV3

(* mistake: only the temporary name is given back                          *)
CleanupTemporary(p) ==
  (IF database[p] # None /\ staged[p] THEN <<"remove_temporary">> ELSE <<>>)
  \o (IF created[p] /\ identity[p] # None THEN <<"check_directory", "rmdir">> ELSE <<>>)
  \o <<"fail">>

(* The cleanup: what the call knows to be its own is removed by the path.  *)
Cleanup(p) ==
  (IF database[p] = None THEN <<>>
   ELSE (IF staged[p] THEN <<"remove_temporary">> ELSE <<>>)
        \o <<"check_published", "unlink_published">>)
  \o (IF created[p] /\ identity[p] # None THEN <<"check_directory", "rmdir">> ELSE <<>>)
  \o <<"fail">>

Cleaning == {"remove_temporary", "check_published", "unlink_published", "check_directory",
             "rmdir", "fail"}

Vacant == [n \in Names |-> None]

Init ==
  /\ version \in Assignments
  /\ \E given \in Given : dir = IF given THEN "given" ELSE None
  /\ inside = [d \in Dirs |-> Vacant] /\ content = [f \in Files |-> "empty"]
  /\ source = "bundle"
  /\ todo = [p \in Replayers |-> Program(p)] /\ answer = [p \in Replayers |-> None]
  /\ created = [p \in Replayers |-> FALSE] /\ identity = [p \in Replayers |-> None]
  /\ database = [p \in Replayers |-> None] /\ descriptor = [p \in Replayers |-> FALSE]
  /\ staged = [p \in Replayers |-> FALSE] /\ verified = [p \in Replayers |-> None]
  /\ faults = 0 /\ edits = 0 /\ struck = {} /\ joined = {}

----------------------------------------------------------------------------
At(p, stage) == todo[p] # <<>> /\ Head(todo[p]) = stage
Advance(p) == todo' = [todo EXCEPT ![p] = Tail(@)]

Raise(p) ==
  /\ todo' = [todo EXCEPT ![p] = Cleanup(p)]
  /\ descriptor' = [descriptor EXCEPT ![p] = FALSE]

(* A step that only looks: it goes on, or the call fails.                  *)
Require(p, condition) ==
  /\ IF condition THEN Advance(p) /\ UNCHANGED descriptor ELSE Raise(p)
  /\ UNCHANGED <<disk, answer, created, identity, database, staged, verified, bounds, joined>>

There == dir # None
Find(n) == IF There THEN inside[dir][n] ELSE None
IsEmpty(d) == inside[d] = Vacant
Links(f) == Cardinality({place \in Dirs \X Names : inside[place[1]][place[2]] = f})
Put(n, f) == inside' = [inside EXCEPT ![dir][n] = f]

(* What a verification of the bundle finds, now as BundleExport has it.    *)
Verify(p) ==
  /\ At(p, "verify")
  /\ IF source # "broken"
     THEN verified' = [verified EXCEPT ![p] = source] /\ Advance(p) /\ UNCHANGED descriptor
     ELSE Raise(p) /\ UNCHANGED verified
  /\ UNCHANGED <<disk, answer, created, identity, database, staged, bounds, joined>>

(* An existing destination must be empty; otherwise it is made.            *)
LookAndEnter(p) ==
  /\ At(p, "look")
  /\ \/ There /\ IsEmpty(dir) /\ Advance(p) /\ UNCHANGED <<dir, created, descriptor>>
     \/ There /\ ~IsEmpty(dir) /\ Raise(p) /\ UNCHANGED <<dir, created>>
     \/ ~There /\ dir' = p /\ created' = [created EXCEPT ![p] = TRUE]
        /\ Advance(p) /\ UNCHANGED descriptor
  /\ UNCHANGED <<inside, content, source, answer, identity, database, staged, verified, bounds, joined>>

Identify(p) ==
  /\ At(p, "identify")
  /\ IF There
     THEN /\ identity' = [identity EXCEPT ![p] = dir] /\ Advance(p) /\ UNCHANGED descriptor
          /\ joined' = IF \E q \in Replayers \ {p} : identity[q] = dir
                       THEN joined \cup {dir} ELSE joined
     ELSE Raise(p) /\ UNCHANGED <<identity, joined>>
  /\ UNCHANGED <<disk, answer, created, database, staged, verified, bounds>>

Guard(p) == At(p, "guard") /\ Require(p, dir = identity[p])
RequireDirectory(p) == At(p, "require") /\ Require(p, dir = identity[p])

(* tempfile.mkstemp, by the path of the destination: in a directory that   *)
(* was put there since, the call has joined others too.                    *)
EnterByPath(p) == joined' = IF dir = identity[p] THEN joined ELSE joined \cup {dir}

MakeTemporary(p) ==
  /\ At(p, "mkstemp")
  /\ IF There
     THEN /\ Put(p, p) /\ Advance(p) /\ EnterByPath(p)
          /\ descriptor' = [descriptor EXCEPT ![p] = TRUE]
          /\ staged' = [staged EXCEPT ![p] = TRUE] /\ database' = [database EXCEPT ![p] = p]
     ELSE Raise(p) /\ UNCHANGED <<inside, staged, database, joined>>
  /\ UNCHANGED <<dir, content, source, answer, created, identity, verified, bounds>>

(* _require_owned_replay_database of the temporary and the published name. *)
OwnedTemporary(p) == At(p, "owned") /\ Require(p, Find(p) = database[p])
OwnedPublished(p) == At(p, "owned_published") /\ Require(p, Find(Published) = database[p])

(* The steps are recomputed and persisted, through the temporary path; see *)
(* BundleContract.  SQLite makes a file where there is none.               *)
Fill(p) ==
  /\ At(p, "fill")
  /\ IF There
     THEN LET f == IF Find(p) = None THEN Owner ELSE Find(p)
          IN /\ Put(p, f) /\ content' = [content EXCEPT ![f] = verified[p]]
             /\ Advance(p) /\ UNCHANGED descriptor
     ELSE Raise(p) /\ UNCHANGED <<inside, content>>
  /\ UNCHANGED <<dir, source, answer, created, identity, database, staged, verified, bounds, joined>>

Holds(n, p) == Find(n) # None /\ content[Find(n)] = verified[p]
Reopen(p) == At(p, "reopen") /\ Require(p, Holds(p, p))

(* mistake: a rename, which replaces the name that stands there            *)
LinkAnyway(p) ==
  /\ At(p, "link")
  /\ IF Find(p) # None
     THEN Put(Published, Find(p)) /\ Advance(p) /\ UNCHANGED descriptor
     ELSE Raise(p) /\ UNCHANGED inside
  /\ UNCHANGED <<dir, content, source, answer, created, identity, database, staged, verified,
                 bounds, joined>>

(* os.link: no name is replaced.                                           *)
Link(p) ==
  /\ At(p, "link")
  /\ IF Find(p) # None /\ Find(Published) = None
     THEN Put(Published, Find(p)) /\ Advance(p) /\ UNCHANGED descriptor
     ELSE Raise(p) /\ UNCHANGED inside
  /\ UNCHANGED <<dir, content, source, answer, created, identity, database, staged, verified,
                 bounds, joined>>

SameIdentity(p) == At(p, "same") /\ Require(p, Find(Published) = database[p])
Reread(p) == At(p, "reread") /\ Require(p, Holds(Published, p))
VerifyAgain(p) == At(p, "verify_again") /\ Require(p, source = verified[p])

Close(p) ==
  /\ At(p, "close") /\ Advance(p)
  /\ descriptor' = [descriptor EXCEPT ![p] = FALSE]
  /\ UNCHANGED <<disk, answer, created, identity, database, staged, verified, bounds, joined>>

Unlink(p) ==
  /\ At(p, "unlink")
  /\ IF Find(p) = database[p]
     THEN Put(p, None) /\ Advance(p) /\ UNCHANGED descriptor
          /\ staged' = [staged EXCEPT ![p] = version[p] = "v1"]
     ELSE Raise(p) /\ UNCHANGED <<inside, staged>>
  /\ UNCHANGED <<dir, content, source, answer, created, identity, database, verified, bounds, joined>>

(* Version 1 looks whether the temporary name is free before forgetting it.*)
VacantAgain(p) ==
  /\ At(p, "vacant")
  /\ IF Find(p) = None
     THEN Advance(p) /\ staged' = [staged EXCEPT ![p] = FALSE] /\ UNCHANGED descriptor
     ELSE Raise(p) /\ UNCHANGED staged
  /\ UNCHANGED <<disk, answer, created, identity, database, verified, bounds, joined>>

(* _require_replay_database_identity.                                      *)
SingleLink(p) == Find(Published) = database[p] /\ Links(database[p]) = 1
Single(p) == At(p, "single") /\ Require(p, SingleLink(p))

(* _require_exact_replay_destination_inventory.                            *)
Alone(p) ==
  At(p, "alone")
  /\ Require(p, /\ dir = identity[p] /\ SingleLink(p)
                /\ \A n \in Names \ {Published} : Find(n) = None)

Done(p) ==
  /\ At(p, "done") /\ Advance(p)
  /\ answer' = [answer EXCEPT ![p] = "equivalent"]
  /\ UNCHANGED <<disk, created, identity, database, descriptor, staged, verified, bounds, joined>>

----------------------------------------------------------------------------
(* The cleanup, by identity and then by the path.                          *)

(* mistake: the temporary name is removed whatever it refers to            *)
RemoveByName(p) ==
  /\ At(p, "remove_temporary") /\ Advance(p)
  /\ IF There THEN Put(p, None) ELSE UNCHANGED inside
  /\ UNCHANGED <<dir, content, source, answer, created, identity, database, descriptor, staged,
                 verified, bounds, joined>>

RemoveTemporary(p) ==
  /\ At(p, "remove_temporary") /\ Advance(p)
  /\ IF Find(p) = database[p] THEN Put(p, None) ELSE UNCHANGED inside
  /\ UNCHANGED <<dir, content, source, answer, created, identity, database, descriptor, staged,
                 verified, bounds, joined>>

Check(p, condition) ==
  /\ todo' = [todo EXCEPT ![p] = IF condition THEN Tail(@) ELSE Tail(Tail(@))]
  /\ UNCHANGED <<disk, answer, created, identity, database, descriptor, staged, verified,
                 bounds, joined>>

CheckPublished(p) == At(p, "check_published") /\ Check(p, Find(Published) = database[p])
CheckDirectory(p) == At(p, "check_directory") /\ Check(p, dir = identity[p])

UnlinkPublished(p) ==
  /\ At(p, "unlink_published") /\ Advance(p)
  /\ IF There THEN Put(Published, None) ELSE UNCHANGED inside
  /\ UNCHANGED <<dir, content, source, answer, created, identity, database, descriptor, staged,
                 verified, bounds, joined>>

RemoveDirectory(p) ==
  /\ At(p, "rmdir") /\ Advance(p)
  /\ dir' = IF There /\ IsEmpty(dir) THEN None ELSE dir
  /\ UNCHANGED <<inside, content, source, answer, created, identity, database, descriptor,
                 staged, verified, bounds, joined>>

Fail(p) ==
  /\ At(p, "fail") /\ Advance(p)
  /\ answer' = [answer EXCEPT ![p] = "failed"]
  /\ UNCHANGED <<disk, created, identity, database, descriptor, staged, verified, bounds, joined>>

----------------------------------------------------------------------------
(* Faults.                                                                 *)

Strike(p) ==
  /\ todo[p] # <<>> /\ faults < MaxFaults /\ faults + 2 * edits < MaxTrouble
  /\ faults' = faults + 1 /\ struck' = struck \cup {<<p, Head(todo[p])>>}
  /\ UNCHANGED edits

(* An error, or an interrupt before any effect of the stage.               *)
Interrupted(p) ==
  /\ Strike(p) /\ Head(todo[p]) \notin Cleaning /\ Raise(p)
  /\ UNCHANGED <<disk, answer, created, identity, database, staged, verified, joined>>

(* An interrupt after the effect, before the code has noted it.            *)
InterruptedUnknown(p) ==
  /\ Strike(p) /\ Raise(p)
  /\ \/ At(p, "look") /\ ~There /\ dir' = p /\ UNCHANGED <<inside, joined>>
     \/ At(p, "mkstemp") /\ There /\ Put(p, p) /\ EnterByPath(p) /\ UNCHANGED dir
     \/ At(p, "link") /\ Find(p) # None /\ Find(Published) = None
        /\ Put(Published, Find(p)) /\ UNCHANGED <<dir, joined>>
     \/ At(p, "unlink") /\ Find(p) = database[p] /\ Put(p, None) /\ UNCHANGED <<dir, joined>>
  /\ UNCHANGED <<content, source, answer, created, identity, database, staged, verified>>

(* An error in the cleanup is suppressed; an interrupt ends it.            *)
CleanupFails(p) ==
  /\ Strike(p)
  /\ \/ Head(todo[p]) \in {"remove_temporary", "unlink_published", "rmdir"} /\ Advance(p)
        /\ UNCHANGED answer
     \/ Head(todo[p]) \in Cleaning /\ todo' = [todo EXCEPT ![p] = <<>>]
        /\ answer' = [answer EXCEPT ![p] = "aborted"]
  /\ UNCHANGED <<disk, created, identity, database, descriptor, staged, verified, joined>>

Crash(p) ==
  /\ Strike(p)
  /\ todo' = [todo EXCEPT ![p] = <<>>] /\ answer' = [answer EXCEPT ![p] = "crashed"]
  /\ descriptor' = [descriptor EXCEPT ![p] = FALSE]
  /\ UNCHANGED <<disk, created, identity, database, staged, verified, joined>>

(* The operator: edits the bundle, moves the destination away and makes    *)
(* another, or replaces, there, the database or a temporary one.           *)
Edit ==
  /\ faults + 2 * edits + 1 < MaxTrouble /\ edits' = edits + 1
  /\ \/ source' \in {"other", "broken"} /\ UNCHANGED <<dir, inside, content>>
     \/ dir' = Owner /\ UNCHANGED <<inside, content, source>>
     \/ \E n \in Names : There /\ (n = Published \/ Find(n) # None)
                         /\ Put(n, Owner) /\ content' = [content EXCEPT ![Owner] = "foreign"]
                         /\ UNCHANGED <<dir, source>>
  /\ UNCHANGED <<local, faults, struck, joined>>

Replay(p) ==
  \/ Verify(p) \/ LookAndEnter(p) \/ Identify(p) \/ Guard(p) \/ RequireDirectory(p)
  \/ MakeTemporary(p) \/ OwnedTemporary(p) \/ OwnedPublished(p) \/ Fill(p) \/ Reopen(p)
  \/ Link(p) \/ SameIdentity(p) \/ Reread(p) \/ VerifyAgain(p) \/ Close(p) \/ Unlink(p)
  \/ VacantAgain(p) \/ Single(p) \/ Alone(p) \/ Done(p)

RemoveOwned(p) ==
  \/ RemoveTemporary(p) \/ CheckPublished(p) \/ UnlinkPublished(p)
  \/ CheckDirectory(p) \/ RemoveDirectory(p) \/ Fail(p)

Fault(p) == Interrupted(p) \/ InterruptedUnknown(p) \/ CleanupFails(p) \/ Crash(p)

Next ==
  /\ Edit \/ \E p \in Replayers : Replay(p) \/ RemoveOwned(p) \/ Fault(p)
  /\ UNCHANGED version

Spec == Init /\ [][Next]_vars

----------------------------------------------------------------------------
TypeOK ==
  /\ dir \in Dirs \cup {None} /\ inside \in [Dirs -> [Names -> Files \cup {None}]]
  /\ content \in [Files -> {"empty", "bundle", "other", "foreign"}]
  /\ source \in {"bundle", "other", "broken"}
  /\ \A p \in Replayers : Range(todo[p]) \subseteq Cleaning \cup Range(Program(p))
  /\ answer \in [Replayers -> {None, "equivalent", "failed", "aborted", "crashed"}]
  /\ created \in [Replayers -> BOOLEAN] /\ descriptor \in [Replayers -> BOOLEAN]
  /\ identity \in [Replayers -> Dirs \cup {None}] /\ database \in [Replayers -> Files \cup {None}]
  /\ staged \in [Replayers -> BOOLEAN] /\ verified \in [Replayers -> {None, "bundle", "other"}]
  /\ faults \in 0 .. MaxFaults /\ edits \in 0 .. MaxTrouble

Succeeded(p) == answer[p] = "equivalent"
StruckIn(p, stages) == \E s \in struck : s[1] = p /\ s[2] \in stages

(* A replay that reports equivalence has published its own database, under *)
(* that one name only, with the history of the bundle it verified.         *)
EquivalenceIsPublished ==
  \A p \in Replayers : Succeeded(p) =>
    /\ content[p] = verified[p]
    /\ edits = 0 => Find(Published) = p /\ Links(p) = 1

(* What holds of the destination throughout.                               *)
ReplayInv == TypeOK /\ EquivalenceIsPublished

(* Of several replays into one destination at most one succeeds; and when  *)
(* nothing went wrong one does, unless version 3, which insists on being   *)
(* alone, has met another.                                                 *)
OneReplaySucceeds ==
  /\ edits = 0 => \A p, q \in Replayers : Succeeded(p) /\ Succeeded(q) => p = q
  /\ edits = 0 /\ struck = {} /\ (\A p \in Replayers : answer[p] # None) =>
       \/ \E p \in Replayers : Succeeded(p)
       \/ joined # {} /\ \E p \in Replayers : version[p] = "v3"

(* A replay that failed has left no file of its own in the destination,    *)
(* unless it was interrupted between making its temporary file and noting  *)
(* it, or its cleanup met an error.  A directory that it made is gone too, *)
(* unless another replay entered it, or it was interrupted before it knew. *)
FailedReplayLeavesNothing ==
  \A p \in Replayers :
    answer[p] = "failed" /\ edits = 0 /\ ~StruckIn(p, Cleaning) =>
      /\ Links(p) = 0 \/ StruckIn(p, {"mkstemp"})
      /\ dir = p => \/ StruckIn(p, {"look", "identify", "mkstemp"})
                    \/ p \in joined

(* A file put into the destination by somebody else is not removed by the  *)
(* call that finds it there.                                               *)
ForeignFilesStay ==
  [][\A n \in Names : Find(n) = Owner /\ content[Owner] = "foreign" /\ edits' = edits
       => \/ inside'[dir][n] = Owner
          \/ n = Published /\ \E p \in Replayers : At(p, "unlink_published")]_vars

Ledger == INSTANCE PublicationLedger
  WITH Exporters <- Replayers, meddled <- edits,
       standing <- IF Find(Published) \in Replayers THEN Find(Published)
                   ELSE IF Find(Published) = Owner THEN "other" ELSE None,
       outcome <- [p \in Replayers |->
                     IF answer[p] = None THEN None
                     ELSE IF Succeeded(p) THEN "published"
                     ELSE IF answer[p] \in {"crashed", "aborted"} \/ StruckIn(p, Cleaning)
                          THEN "abandoned"
                     ELSE "failed"]

(* The published name follows the same ledger as a bundle's destination.   *)
ImplementsLedger == Ledger!Spec
=============================================================================
