----------------------------- MODULE BundleExport -----------------------------
(***************************************************************************)
(* Publication and verification of RunBundle directories: several calls of *)
(* export_run_bundle (any version) with one destination, calls of          *)
(* verify_run_bundle on it, and an operator who removes or edits what      *)
(* stands there.  A call is a program: the sequence of the system calls it *)
(* makes, each a step of its own.  A call that fails runs its cleanup; a   *)
(* call that is killed runs nothing more.                                  *)
(*                                                                         *)
(* Files and directories are known to the code by their physical identity  *)
(* (device and inode number).  Here an identity says what was created and  *)
(* by whom; no two creations share one.                                    *)
(***************************************************************************)
EXTENDS Integers, Sequences, FiniteSets, Functions

CONSTANTS
  Exporters, Verifiers,
  Version,       \* the version of the functions each of them calls
  MaxFaults,     \* bound on errors of system calls, interrupts and kills
                 \* outside the cleanup
  MaxTrouble,    \* bound on faults and what the operator does, which
                 \* counts for two
  Dest,          \* the name of the destination
  None

VARIABLES
  entry,         \* what each name refers to: the destination, and one
                 \* temporary sibling for each exporter
  inside,        \* the members of each directory
  todo,          \* the stages a call has left
  root, owned,   \* the identities of the directory and the members it made
  staged,        \* whether temporary_path is still set
  guard,         \* the directory that published_guard holds open
  seen,          \* what a verification has captured so far
  answer,        \* how a call has ended
  faults, edits,
  struck,        \* history: which calls were struck by a fault, and where
  offered        \* history: which bundles have stood complete and
                 \* untouched at the destination since a verification
                 \* began, and which at some moment of its final pass

disk == <<entry, inside>>
local == <<todo, root, owned, staged, guard, seen, answer>>
bounds == <<faults, edits, struck>>
vars == <<disk, local, bounds, offered>>

Processes == Exporters \cup Verifiers
Names == Exporters \cup {Dest}
Members == {"bundle", "sidecar"}
Owner == "owner"
Roots == {<<p, "root">> : p \in Exporters \cup {Owner}}
Files == {<<p, m>> : p \in Exporters, m \in Members} \cup {<<Owner, n>> : n \in 1 .. MaxTrouble}

(* A file: its identity, whose bundle its bytes belong to, and whether     *)
(* they are all written.                                                   *)
File == [id : Files, by : Exporters, whole : BOOLEAN]
Empty == [bundle |-> None, sidecar |-> None, foreign |-> None]
Answers == {"refused", "failed", "rejected", "aborted", "crashed"}
NoMembers == [m \in Members |-> None]
Nothing == [guard |-> None, root |-> None, ids |-> NoMembers, bundle |-> None, sidecar |-> None]

ASSUME ExportAssumption ==
  /\ Version \in [Processes -> {"v1", "v2", "v3"}]
  /\ Exporters \cap Verifiers = {} /\ Exporters # {} /\ Dest \notin Processes
  /\ {Owner, "other"} \cap Exporters = {} /\ Exporters \cap Answers = {} /\ None \notin Answers
  /\ None \notin Exporters /\ None \notin Roots /\ None \notin Files /\ None \notin File
  /\ None \notin {"present", "published", "abandoned", "other"}
  /\ {MaxFaults, MaxTrouble} \subseteq Nat

----------------------------------------------------------------------------
(* The programs.                                                           *)

FirstPass == <<"open", "root", "inventory">>
GuardMembers == <<"guards">>
Reads == <<"read_bundle", "read_sidecar">>
FinalPass == <<"inventory_again", "bundle_again", "sidecar_again", "members_again", "root_again",
               "ancestry_again">>
Write == <<"mkdtemp", "create_bundle", "fill_bundle", "create_sidecar", "fill_sidecar",
           "verify_staged">>
Publication == <<"publish", "confirm">>

VerifyV1 == FirstPass \o GuardMembers \o Reads \o FinalPass \o <<"guards_again">>
VerifyV2 == FirstPass \o Reads \o FinalPass
VerifyV3 == FirstPass \o Reads \o FinalPass

(* mistake: the directory is published before its second member is written *)
PublishEarly ==
  <<"exists">> \o SubSeq(Write, 1, 3) \o Publication \o VerifyV1 \o <<"done">>

ExportV1 == <<"exists">> \o Write \o Publication \o VerifyV1 \o <<"done">>
ExportV2 == <<"exists">> \o Write \o Publication \o VerifyV2 \o <<"done">>
ExportV3 == <<"exists">> \o Write \o Publication \o VerifyV3 \o <<"done">>

Program(p) ==
  IF p \in Exporters
  THEN CASE Version[p] = "v1" -> ExportV1 [] Version[p] = "v2" -> ExportV2
         [] Version[p] = "v3" -> ExportV3
  ELSE (CASE Version[p] = "v1" -> VerifyV1 [] Version[p] = "v2" -> VerifyV2
          [] Version[p] = "v3" -> VerifyV3) \o <<"done">>

(* mistake: the members are unlinked without a look at whose they are      *)
RemoveTree == <<"unlink_bundle", "unlink_sidecar", "remaining", "rmdir">>

(* _remove_owned_bundle_directory of the destination, system call by       *)
(* system call.  That of the temporary sibling, whose name nobody else     *)
(* knows, is the one stage "discard".                                      *)
RemoveDestination == <<"look", "check_bundle", "unlink_bundle", "check_sidecar",
                       "unlink_sidecar", "remaining", "check_root", "rmdir">>

(* mistake: once the sibling is gone there is nothing to remove            *)
CleanupSibling(p) == (IF root[p] # None /\ staged[p] THEN <<"discard">> ELSE <<>>) \o <<"fail">>

(* mistake: while the temporary name is set the destination is left alone  *)
CleanupEither(p) ==
  (IF root[p] # None
   THEN IF staged[p] THEN <<"discard">> ELSE RemoveDestination
   ELSE <<>>) \o <<"fail">>

Cleanup(p) ==
  (IF root[p] # None
   THEN (IF staged[p] THEN <<"discard">> ELSE <<>>) \o RemoveDestination
   ELSE <<>>) \o <<"fail">>

Cleaning == {"discard", "fail"} \cup Range(RemoveDestination)

Init ==
  /\ entry = [n \in Names |-> None] /\ inside = [d \in Roots |-> Empty]
  /\ todo = [p \in Processes |-> Program(p)]
  /\ root = [p \in Exporters |-> None] /\ owned = [p \in Exporters |-> NoMembers]
  /\ staged = [p \in Exporters |-> FALSE] /\ guard = [p \in Exporters |-> None]
  /\ seen = [p \in Processes |-> Nothing] /\ answer = [p \in Processes |-> None]
  /\ faults = 0 /\ edits = 0 /\ struck = {}
  /\ offered = [p \in Processes |-> [always |-> Exporters, final |-> {}]]

----------------------------------------------------------------------------
At(p, stage) == todo[p] # <<>> /\ Head(todo[p]) = stage
Advance(p) == todo' = [todo EXCEPT ![p] = Tail(@)]
Skip(p, n) == todo' = [todo EXCEPT ![p] = SubSeq(@, n + 1, Len(@))]

(* An exception leaves a verification at once and an export through its    *)
(* cleanup; either closes the descriptors of the verification.             *)
Raise(p) ==
  /\ seen' = [seen EXCEPT ![p] = Nothing]
  /\ IF p \in Exporters
     THEN todo' = [todo EXCEPT ![p] = Cleanup(p)] /\ UNCHANGED answer
     ELSE /\ todo' = [todo EXCEPT ![p] = <<>>]
          /\ answer' = [answer EXCEPT ![p] = "rejected"]

(* A step that only looks: it goes on, or the call fails.                  *)
Require(p, condition) ==
  /\ \/ condition /\ Advance(p) /\ UNCHANGED <<seen, answer>>
     \/ ~condition /\ Raise(p)
  /\ UNCHANGED <<disk, root, owned, staged, guard, bounds>>

There(n) == entry[n] # None
Holds(n, m) == There(n) /\ inside[entry[n]][m] # None
Complete(n, e) ==
  /\ There(n) /\ inside[entry[n]].foreign = None
  /\ \A m \in Members : Holds(n, m) /\ inside[entry[n]][m].by = e /\ inside[entry[n]][m].whole

(* What a verification would accept in one look.                           *)
Valid(p, bundle, sidecar) ==
  /\ bundle.whole /\ sidecar.whole /\ bundle.by = sidecar.by
  /\ Version[bundle.by] = Version[p]

----------------------------------------------------------------------------
(* export_run_bundle: the temporary sibling.                               *)

Exists(p) ==
  /\ At(p, "exists")
  /\ IF There(Dest)
     THEN todo' = [todo EXCEPT ![p] = <<>>] /\ answer' = [answer EXCEPT ![p] = "refused"]
     ELSE Advance(p) /\ UNCHANGED answer
  /\ UNCHANGED <<disk, root, owned, staged, guard, seen, bounds>>

(* Whatever is made is identified at once; see InterruptedUnknown.         *)
MakeStaging(p) ==
  /\ At(p, "mkdtemp")
  /\ entry' = [entry EXCEPT ![p] = <<p, "root">>]
  /\ staged' = [staged EXCEPT ![p] = TRUE]
  /\ root' = [root EXCEPT ![p] = <<p, "root">>]
  /\ Advance(p)
  /\ UNCHANGED <<inside, owned, guard, seen, answer, bounds>>

(* _write_new_file: created, owned, then written and synced.               *)
NewFile(p, m) == [id |-> <<p, m>>, by |-> p, whole |-> FALSE]

Create(p, m) ==
  /\ inside' = [inside EXCEPT ![entry[p]][m] = NewFile(p, m)]
  /\ owned' = [owned EXCEPT ![p][m] = <<p, m>>]
  /\ Advance(p)
  /\ UNCHANGED <<entry, root, staged, guard, seen, answer, bounds>>

Fill(p, m) ==
  /\ inside' = [inside EXCEPT ![entry[p]][m].whole = TRUE]
  /\ Advance(p)
  /\ UNCHANGED <<entry, root, owned, staged, guard, seen, answer, bounds>>

WriteMembers(p) ==
  \/ At(p, "create_bundle") /\ Create(p, "bundle")
  \/ At(p, "fill_bundle") /\ Fill(p, "bundle")
  \/ At(p, "create_sidecar") /\ Create(p, "sidecar")
  \/ At(p, "fill_sidecar") /\ Fill(p, "sidecar")

VerifyStaging(p) == At(p, "verify_staged") /\ Require(p, Complete(p, p))

RenameNoReplace(p) == ~There(Dest)

Publish(p) ==
  /\ At(p, "publish")
  /\ IF entry[p] = root[p] /\ RenameNoReplace(p)
     THEN /\ entry' = [entry EXCEPT ![p] = None, ![Dest] = root[p]]
          /\ guard' = [guard EXCEPT ![p] = root[p]]
          /\ staged' = [staged EXCEPT ![p] = FALSE]
          /\ Advance(p) /\ UNCHANGED <<seen, answer>>
     ELSE Raise(p) /\ UNCHANGED <<entry, guard, staged>>
  /\ UNCHANGED <<inside, root, owned, bounds>>

Confirm(p) == At(p, "confirm") /\ Require(p, entry[Dest] = root[p])

----------------------------------------------------------------------------
(* verify_run_bundle of the destination.                                   *)

(* _open_ancestry_guard: the directory is held open from here on.          *)
Open(p) ==
  /\ At(p, "open")
  /\ IF There(Dest)
     THEN seen' = [seen EXCEPT ![p].guard = entry[Dest]] /\ Advance(p) /\ UNCHANGED answer
     ELSE Raise(p)
  /\ UNCHANGED <<disk, root, owned, staged, guard, bounds>>

Root(p) ==
  /\ At(p, "root")
  /\ IF There(Dest)
     THEN seen' = [seen EXCEPT ![p].root = entry[Dest]] /\ Advance(p) /\ UNCHANGED answer
     ELSE Raise(p)
  /\ UNCHANGED <<disk, root, owned, staged, guard, bounds>>

(* _strict_bundle_inventory: exactly the two members.                      *)
Strict == There(Dest) /\ inside[entry[Dest]].foreign = None /\ \A m \in Members : Holds(Dest, m)
MemberIds(d) == [m \in Members |-> inside[d][m].id]

(* Version 1 takes the identities from descriptors it opens in the guarded *)
(* directory; the others take them from the paths.                         *)
Inventory(p) ==
  /\ At(p, "inventory")
  /\ IF Strict
     THEN /\ seen' = [seen EXCEPT ![p].ids =
                        IF Version[p] = "v1" THEN @ ELSE MemberIds(entry[Dest])]
          /\ Advance(p) /\ UNCHANGED answer
     ELSE Raise(p)
  /\ UNCHANGED <<disk, root, owned, staged, guard, bounds>>

(* mistake: the descriptors are kept in the order of the other member      *)
GuardsSwapped(p) ==
  /\ At(p, "guards")
  /\ IF \A m \in Members : inside[seen[p].guard][m] # None
     THEN /\ seen' = [seen EXCEPT ![p].ids =
                        [bundle |-> inside[seen[p].guard].sidecar.id,
                         sidecar |-> inside[seen[p].guard].bundle.id]]
          /\ Advance(p) /\ UNCHANGED answer
     ELSE Raise(p)
  /\ UNCHANGED <<disk, root, owned, staged, guard, bounds>>

(* _open_posix_member_guards.                                              *)
OpenMemberGuards(p) ==
  /\ At(p, "guards")
  /\ IF \A m \in Members : inside[seen[p].guard][m] # None
     THEN /\ seen' = [seen EXCEPT ![p].ids = MemberIds(seen[p].guard)]
          /\ Advance(p) /\ UNCHANGED answer
     ELSE Raise(p)
  /\ UNCHANGED <<disk, root, owned, staged, guard, bounds>>

(* _read_stable_posix_guarded_member and _read_stable_member: the file of  *)
(* the captured identity, found through the descriptor or by its path.     *)
Directory(p) == IF Version[p] = "v1" THEN seen[p].guard ELSE entry[Dest]

Stable(p, m) ==
  /\ Directory(p) # None
  /\ inside[Directory(p)][m] # None
  /\ inside[Directory(p)][m].id = seen[p].ids[m]

Read(p, m, stage) ==
  /\ At(p, stage)
  /\ LET file == inside[Directory(p)][m]
     IN IF Stable(p, m) /\ (m = "sidecar" => Valid(p, seen[p].bundle, file))
        THEN seen' = [seen EXCEPT ![p][m] = file] /\ Advance(p) /\ UNCHANGED answer
        ELSE Raise(p)
  /\ UNCHANGED <<disk, root, owned, staged, guard, bounds>>

(* mistake: the second read looks at the file and not at its bytes         *)
SameFile(p, m) == Stable(p, m)

Unchanged(p, m) == Stable(p, m) /\ inside[Directory(p)][m] = seen[p][m]

InventoryAgain(p) ==
  At(p, "inventory_again") /\ Require(p, Strict /\ MemberIds(entry[Dest]) = seen[p].ids)
ReadAgain(p, m, stage) == At(p, stage) /\ Require(p, Unchanged(p, m))
MembersAgain(p) ==
  At(p, "members_again")
  /\ Require(p, \A m \in Members : Holds(Dest, m) /\ inside[entry[Dest]][m].id = seen[p].ids[m])
RootAgain(p) == At(p, "root_again") /\ Require(p, entry[Dest] = seen[p].root)
AncestryAgain(p) == At(p, "ancestry_again") /\ Require(p, entry[Dest] = seen[p].guard)
GuardsAgain(p) ==
  At(p, "guards_again") /\ Require(p, \A m \in Members : Stable(p, m))

(* The result is about the bundle that was read; the descriptors close.    *)
Done(p) ==
  /\ At(p, "done")
  /\ answer' = [answer EXCEPT ![p] = seen[p].bundle.by]
  /\ seen' = [seen EXCEPT ![p] = Nothing]
  /\ guard' = [q \in Exporters |-> IF q = p THEN None ELSE guard[q]]
  /\ Advance(p)
  /\ UNCHANGED <<disk, root, owned, staged, bounds>>

----------------------------------------------------------------------------
(* The cleanup of an export: what it made, known by identity, wherever it  *)
(* stands now.                                                             *)

(* _remove_owned_bundle_directory of the temporary sibling.                *)
Discard(p) ==
  /\ At(p, "discard") /\ Advance(p)
  /\ IF entry[p] = root[p]
     THEN LET left == [m \in DOMAIN Empty |->
                         IF m \in Members /\ Holds(p, m) /\ inside[root[p]][m].id = owned[p][m]
                         THEN None ELSE inside[root[p]][m]]
          IN /\ inside' = [inside EXCEPT ![root[p]] = left]
             /\ entry' = IF left = Empty THEN [entry EXCEPT ![p] = None] ELSE entry
     ELSE UNCHANGED disk
  /\ UNCHANGED <<root, owned, staged, guard, seen, answer, bounds>>

(* A step of the removal goes on when its condition holds, and otherwise   *)
(* skips the n steps that depend on it.                                    *)
Check(p, condition, n) ==
  /\ IF condition THEN Advance(p) ELSE Skip(p, n)
  /\ UNCHANGED <<disk, root, owned, staged, guard, seen, answer, bounds>>

Look(p) ==
  At(p, "look") /\ Check(p, entry[Dest] = root[p], Len(RemoveDestination))

(* _remove_owned_path: lstat, compare, then unlink or rmdir by the path,   *)
(* whatever it names by then.                                              *)
CheckMember(p, m, stage) ==
  At(p, stage)
  /\ Check(p, Holds(Dest, m) /\ inside[entry[Dest]][m].id = owned[p][m], 2)

UnlinkMember(p, m, stage) ==
  /\ At(p, stage) /\ Advance(p)
  /\ inside' = IF Holds(Dest, m) THEN [inside EXCEPT ![entry[Dest]][m] = None] ELSE inside
  /\ UNCHANGED <<entry, root, owned, staged, guard, seen, answer, bounds>>

Remaining(p) == At(p, "remaining") /\ Check(p, There(Dest) /\ inside[entry[Dest]] = Empty, 3)

CheckRoot(p) == At(p, "check_root") /\ Check(p, entry[Dest] = root[p], 2)

RemoveRoot(p) ==
  /\ At(p, "rmdir") /\ Advance(p)
  /\ entry' = IF There(Dest) /\ inside[entry[Dest]] = Empty
              THEN [entry EXCEPT ![Dest] = None] ELSE entry
  /\ UNCHANGED <<inside, root, owned, staged, guard, seen, answer, bounds>>

(* The published guard is closed after the removal.                        *)
Fail(p) ==
  /\ At(p, "fail") /\ Advance(p)
  /\ guard' = [guard EXCEPT ![p] = None] /\ answer' = [answer EXCEPT ![p] = "failed"]
  /\ UNCHANGED <<disk, root, owned, staged, seen, bounds>>

RemoveOwned(p) ==
  \/ Discard(p) \/ Look(p)
  \/ CheckMember(p, "bundle", "check_bundle") \/ UnlinkMember(p, "bundle", "unlink_bundle")
  \/ CheckMember(p, "sidecar", "check_sidecar") \/ UnlinkMember(p, "sidecar", "unlink_sidecar")
  \/ Remaining(p) \/ CheckRoot(p) \/ RemoveRoot(p) \/ Fail(p)

----------------------------------------------------------------------------
(* Faults.                                                                 *)

Strike(p) ==
  /\ todo[p] # <<>> /\ faults + 2 * edits < MaxTrouble
  /\ faults < MaxFaults \/ Head(todo[p]) \in Cleaning
  /\ faults' = faults + 1 /\ struck' = struck \cup {<<p, Head(todo[p])>>}
  /\ UNCHANGED edits

(* An error or an interrupt before any effect of the stage, or an          *)
(* interrupt just after the rename, before its result is known.            *)
Interrupted(p) ==
  /\ Strike(p) /\ Head(todo[p]) \notin Cleaning
  /\ Raise(p)
  /\ UNCHANGED <<disk, root, owned, staged, guard>>

(* An interrupt after something was made and before it was identified.     *)
InterruptedUnknown(p) ==
  /\ Strike(p) /\ Raise(p)
  /\ \/ At(p, "mkdtemp") /\ entry' = [entry EXCEPT ![p] = <<p, "root">>] /\ UNCHANGED inside
     \/ At(p, "create_bundle") /\ UNCHANGED entry
        /\ inside' = [inside EXCEPT ![root[p]]["bundle"] = NewFile(p, "bundle")]
     \/ At(p, "create_sidecar") /\ UNCHANGED entry
        /\ inside' = [inside EXCEPT ![root[p]]["sidecar"] = NewFile(p, "sidecar")]
  /\ UNCHANGED <<root, owned, staged, guard>>

InterruptedRename(p) ==
  /\ Strike(p) /\ At(p, "publish") /\ entry[p] = root[p] /\ ~There(Dest)
  /\ entry' = [entry EXCEPT ![p] = None, ![Dest] = root[p]]
  /\ Raise(p)
  /\ UNCHANGED <<inside, root, owned, staged, guard>>

(* In the cleanup an error of the system is suppressed: the removal of a   *)
(* member is skipped, that of the directory ended.  An interrupt ends all. *)
CleanupFails(p) ==
  /\ Strike(p) /\ Head(todo[p]) \in Cleaning \ {"fail"}
  /\ \/ todo' = [todo EXCEPT ![p] = <<"fail">>] /\ Head(todo[p]) # "discard" /\ UNCHANGED answer
     \/ Advance(p) /\ Head(todo[p]) \in {"discard", "unlink_bundle", "unlink_sidecar"}
        /\ UNCHANGED answer
     \/ todo' = [todo EXCEPT ![p] = <<>>] /\ answer' = [answer EXCEPT ![p] = "aborted"]
  /\ UNCHANGED <<disk, root, owned, staged, guard, seen>>

(* A killed process leaves what it made; its descriptors are closed.       *)
Crash(p) ==
  /\ Strike(p)
  /\ todo' = [todo EXCEPT ![p] = <<>>] /\ answer' = [answer EXCEPT ![p] = "crashed"]
  /\ seen' = [seen EXCEPT ![p] = Nothing]
  /\ guard' = [q \in Exporters |-> IF q = p THEN None ELSE guard[q]]
  /\ UNCHANGED <<disk, root, owned, staged>>

(* The operator: takes the destination away, puts a directory of his own   *)
(* there, adds a file to it, replaces a member or rewrites it in place.    *)
Edit ==
  /\ faults + 2 * edits + 1 < MaxTrouble /\ edits' = edits + 1
  /\ \/ There(Dest) /\ entry' = [entry EXCEPT ![Dest] = None]
        /\ inside' = [inside EXCEPT ![entry[Dest]] = Empty]
     \/ entry' = [entry EXCEPT ![Dest] = <<Owner, "root">>]
        /\ inside' = [inside EXCEPT ![<<Owner, "root">>].foreign = "present"]
     \/ There(Dest) /\ inside' = [inside EXCEPT ![entry[Dest]].foreign = "present"]
        /\ UNCHANGED entry
     \/ \E m \in Members, e \in Exporters, replaced \in BOOLEAN :
          /\ Holds(Dest, m)
          /\ inside' = [inside EXCEPT ![entry[Dest]][m] =
                          [id |-> IF replaced THEN <<Owner, edits'>> ELSE @.id,
                           by |-> e, whole |-> TRUE]]
          /\ UNCHANGED entry
  /\ UNCHANGED <<local, faults, struck>>

(* What the verifications could have seen.                                 *)
Now == {e \in Exporters : Complete(Dest, e)}
InFinalPass(p) == todo[p] # <<>> /\ Head(todo[p]) \in Range(Tail(FinalPass)) \cup {"guards_again", "done"}

Observe ==
  offered' = [p \in Processes |->
    IF At(p, "open") /\ ~At(p, "open")' THEN [always |-> Now', final |-> {}]
    ELSE [always |-> IF answer[p] # None THEN offered[p].always
                     ELSE IF edits' # edits THEN {} ELSE offered[p].always \cap Now',
          final |-> offered[p].final \cup IF InFinalPass(p)' THEN Now' ELSE {}]]

Export(p) ==
  \/ Exists(p) \/ MakeStaging(p) \/ WriteMembers(p) \/ VerifyStaging(p)
  \/ Publish(p) \/ Confirm(p) \/ RemoveOwned(p)

Verify(p) ==
  \/ Open(p) \/ Root(p) \/ Inventory(p) \/ OpenMemberGuards(p)
  \/ Read(p, "bundle", "read_bundle") \/ Read(p, "sidecar", "read_sidecar")
  \/ InventoryAgain(p)
  \/ ReadAgain(p, "bundle", "bundle_again") \/ ReadAgain(p, "sidecar", "sidecar_again")
  \/ MembersAgain(p) \/ RootAgain(p) \/ AncestryAgain(p) \/ GuardsAgain(p)

Step(p) ==
  \/ p \in Exporters /\ Export(p)
  \/ Verify(p) \/ Done(p)

Fault(p) ==
  \/ Interrupted(p) \/ Crash(p)
  \/ p \in Exporters /\ (InterruptedUnknown(p) \/ InterruptedRename(p) \/ CleanupFails(p))

Next == (Edit \/ \E p \in Processes : Step(p) \/ Fault(p)) /\ Observe

Spec == Init /\ [][Next]_vars

----------------------------------------------------------------------------
TypeOK ==
  /\ entry \in [Names -> Roots \cup {None}]
  /\ \A d \in Roots, m \in Members : inside[d][m] \in File \cup {None}
  /\ \A p \in Processes : Range(todo[p]) \subseteq Cleaning \cup Range(Program(p))
  /\ root \in [Exporters -> Roots \cup {None}] /\ guard \in [Exporters -> Roots \cup {None}]
  /\ owned \in [Exporters -> [Members -> Files \cup {None}]] /\ staged \in [Exporters -> BOOLEAN]
  /\ \A p \in Processes : \A m \in Members : seen[p][m] \in File \cup {None}
  /\ answer \in [Processes -> Exporters \cup Answers \cup {None}]
  /\ faults \in 0 .. MaxTrouble /\ edits \in 0 .. MaxTrouble

Succeeded(p) == answer[p] \in Exporters
StruckIn(p, stages) == \E s \in struck : s[1] = p /\ s[2] \in stages

(* A successful verification, or export, names a bundle that stood whole   *)
(* and alone at the destination at one moment of its final pass, although  *)
(* every look it takes is at another moment.                               *)
VerificationIsHonest ==
  \A p \in Processes : Succeeded(p) => answer[p] \in offered[p].final

(* A bundle that stood whole and untouched from the beginning to the end   *)
(* of a verification by its own version is not rejected, unless a system   *)
(* call of that verification failed.                                       *)
StableBundleIsAccepted ==
  \A v \in Verifiers : answer[v] = "rejected" /\ ~StruckIn(v, Range(Program(v))) =>
    \A e \in offered[v].always : Version[e] # Version[v]

(* An export that failed has left nothing of its own at either name, if    *)
(* nobody meddled and its cleanup met no error; it may leave the sibling,  *)
(* if it was interrupted between making something and learning its         *)
(* identity.                                                               *)
FailedLeavesNothing ==
  \A p \in Exporters : answer[p] = "failed" /\ edits = 0 /\ ~StruckIn(p, Cleaning) =>
    /\ root[p] # None => entry[Dest] # root[p]
    /\ There(p) => StruckIn(p, {"mkdtemp", "create_bundle", "create_sidecar"})

(* When all exports have ended and nothing went wrong, exactly one of them *)
(* has published, and each result is about the caller's own bundle.        *)
ExactlyOneExport ==
  /\ edits = 0 => \A p \in Exporters : Succeeded(p) => answer[p] = p
  /\ edits = 0 /\ struck = {} /\ (\A p \in Exporters : answer[p] # None) =>
       \E p \in Exporters : Succeeded(p) /\ \A q \in Exporters \ {p} : ~Succeeded(q)

(* Whoever does not look for the marks of a whole bundle still never finds *)
(* half of one, except while its exporter takes it away or has been killed *)
(* doing so.                                                               *)
DestinationIsWhole ==
  edits = 0 /\ There(Dest) =>
    \E p \in Exporters :
      /\ entry[Dest] = root[p]
      /\ Complete(Dest, p) \/ (todo[p] # <<>> /\ Head(todo[p]) \in Cleaning) \/ StruckIn(p, Cleaning)

(* What holds of the destination throughout.                               *)
ExportInv == TypeOK /\ DestinationIsWhole

(* A bundle stands while a file that its exporter made is there.           *)
Stands(p) == \E m \in Members : Holds(Dest, m) /\ inside[entry[Dest]][m].id = owned[p][m]

Ledger == INSTANCE PublicationLedger
  WITH meddled <- edits,
       standing <- IF ~There(Dest) \/ inside[entry[Dest]] = Empty THEN None
                   ELSE IF \E p \in Exporters : Stands(p) THEN CHOOSE p \in Exporters : Stands(p)
                   ELSE "other",
       outcome <- [p \in Exporters |->
                     IF answer[p] = None THEN None
                     ELSE IF Succeeded(p) THEN "published"
                     ELSE IF answer[p] \in {"crashed", "aborted"} \/ StruckIn(p, Cleaning)
                          THEN "abandoned"
                     ELSE "failed"]

(* Publication, withdrawal and the ends of the calls follow the ledger.    *)
ImplementsLedger == Ledger!Spec
=============================================================================
