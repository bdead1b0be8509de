-------------------------- MODULE ReleaseTransaction ---------------------------
(***************************************************************************)
(* The release transaction of src/tripduration/registry.py, one step per   *)
(* change that survives a crash: prepare a staging directory, rename the   *)
(* journal into it (the commit point), move the two aliases, rename each   *)
(* staged file over its destination, remove the journal, remove staging.   *)
(* Between any two steps the process may die; promote.py --recover then    *)
(* runs the same forward steps from the journal and --abort the backward   *)
(* ones, and either may die in its turn.                                   *)
(*                                                                         *)
(* An operator is one promote.py process at a time against the shared      *)
(* working tree and registry.  Nothing in the code excludes two of them.   *)
(***************************************************************************)
EXTENDS ReleaseData

CONSTANTS
  Operators,   \* who runs promote.py against this working tree
  Repairs,     \* which commands they use on an interrupted operation
  MaxRows,     \* bound: commands stop when promotions.md has this many rows
  MaxCrashes,  \* bound: how many processes die
  Edits        \* which hand edits happen: a subset of {"between", "during"}

\* What journal.json records: the version, the aliases before and after, and of
\* each file its staged content and whether it existed.
Journals ==
  [version : Versions, before : AliasStates, after : AliasStates,
   sha : FileStates, existed : [Keys -> BOOLEAN]]

ASSUME TransactionAssumption ==
  /\ MaxRows \in Nat
  /\ MaxCrashes \in Nat
  /\ Edits \subseteq {"between", "during"}
  /\ Repairs \subseteq {"recover", "abort"}
  /\ None \notin Journals

VARIABLES
  alias,       \* MLflow: the version each alias resolves to
  file,        \* the four release files
  dir,         \* models/.promotion: does it exist, staged/ and backup/
  journal,     \* models/.promotion/journal.json, None when there is none
  pc,          \* per operator: the next phase of its process
  at,          \* per operator: the next release step of that phase, 1..Done
  job,         \* per operator: its plan, then its copy of the journal
  crashes,     \* how many processes have died
  edited       \* history: has a finished record ever been edited by hand

vars == <<alias, file, dir, journal, pc, at, job, crashes, edited>>

Phases == {"idle", "clear", "stage", "backup", "journal",
           "forward", "back", "clean"}

Preparing == {"clear", "stage", "backup", "journal"}
Releasing == {"forward", "back"}

NoDir == [exists |-> FALSE, staged |-> NoFiles, backup |-> NoFiles]

Init ==
  /\ StartingRecord(alias, file)
  /\ dir = NoDir
  /\ journal = None
  /\ pc = [p \in Operators |-> "idle"]
  /\ at = [p \in Operators |-> 1]
  /\ job = [p \in Operators |-> None]
  /\ crashes = 0
  /\ edited = FALSE

-----------------------------------------------------------------------------

Goto(p, phase) == pc' = [pc EXCEPT ![p] = phase]

\* The process ends, or dies: nothing of it is left but what it wrote.
Leave(p) ==
  /\ Goto(p, "idle")
  /\ at' = [at EXCEPT ![p] = 1]
  /\ job' = [job EXCEPT ![p] = None]

Start(p, plan) ==
  /\ pc[p] = "idle"
  /\ job' = [job EXCEPT ![p] = plan]
  /\ Goto(p, "clear")
  /\ UNCHANGED <<alias, file, dir, journal, at, crashes, edited>>

\* Mutant: operations do not look for a journal.
NotInProgressUnchecked == TRUE

\* _refuse_if_in_progress
NotInProgress == journal = None

RoomInLog == Len(LogOf(file)) < MaxRows

\* Mutant: promote without the consistency check.
PromoteUnchecked(p, v) ==
  /\ RoomInLog
  /\ NotInProgress
  /\ Start(p, PromotePlan(v, alias, file))

\* promote(): the gate has passed or --force was given (see PromotionGate for
\* the gate); what is left is the consistency check and the plan.
Promote(p, v) ==
  /\ RoomInLog
  /\ NotInProgress
  /\ Consistent(alias, file)
  /\ Start(p, PromotePlan(v, alias, file))

\* Mutant: rollback takes a champion that replaced nothing.
RollbackFirst(p) ==
  /\ RoomInLog
  /\ file["champion"] # None
  /\ NotInProgress
  /\ Consistent(alias, file)
  /\ Start(p, RollbackPlan(file))

Rollback(p) ==
  /\ RoomInLog
  /\ file["champion"] # None
  /\ NotInProgress
  /\ Consistent(alias, file)
  /\ file["champion"].previous # None
  /\ Start(p, RollbackPlan(file))

\* refresh() skips the fixture check: a stale fixture is a reason to refresh.
Refresh(p) ==
  /\ file["champion"] # None
  /\ NotInProgress
  /\ AliasMatches(alias, file)
  /\ Start(p, RefreshPlan(alias, file))

\* _transact: whatever staging holds is taken for a prepare that failed.
ClearStaging(p) ==
  /\ pc[p] = "clear"
  /\ dir' = [NoDir EXCEPT !.exists = TRUE]
  /\ journal' = None
  /\ Goto(p, "stage")
  /\ UNCHANGED <<alias, file, at, job, crashes, edited>>

\* Mutant: the first implementation, alias first and artefacts after.
StageAfterAlias(p) ==
  /\ pc[p] = "stage"
  /\ dir.exists
  /\ \E pl \in Platforms : dir' = [dir EXCEPT !.staged = NewFiles(job[p], pl, file)]
  /\ alias' = job[p].after
  /\ Goto(p, "backup")
  /\ UNCHANGED <<file, journal, at, job, crashes, edited>>

\* Download and check the artefacts, compute the fixture, build the four files.
StageFiles(p) ==
  /\ pc[p] = "stage"
  /\ dir.exists
  /\ \E pl \in Platforms : dir' = [dir EXCEPT !.staged = NewFiles(job[p], pl, file)]
  /\ Goto(p, "backup")
  /\ UNCHANGED <<alias, file, journal, at, job, crashes, edited>>

BackupFiles(p) ==
  /\ pc[p] = "backup"
  /\ dir.exists
  /\ dir' = [dir EXCEPT !.backup = file]
  /\ Goto(p, "journal")
  /\ UNCHANGED <<alias, file, journal, at, job, crashes, edited>>

\* The rename of journal.json.part: from here the operation is committed.
WriteJournal(p) ==
  /\ pc[p] = "journal"
  /\ dir.exists
  /\ \A k \in Keys : dir.staged[k] # None
  /\ journal' = [version |-> job[p].version,
                 before |-> alias,
                 after |-> job[p].after,
                 sha |-> dir.staged,
                 existed |-> [k \in Keys |-> dir.backup[k] # None]]
  /\ job' = [job EXCEPT ![p] = journal']
  /\ Goto(p, "forward")
  /\ UNCHANGED <<alias, file, dir, at, crashes, edited>>

\* Any exception before the commit: md5 mismatch, disk full, Ctrl-C.
PrepareFails(p) ==
  /\ pc[p] \in Preparing \ {"clear"}
  /\ dir' = NoDir
  /\ journal' = None
  /\ Leave(p)
  /\ UNCHANGED <<alias, file, crashes, edited>>

-----------------------------------------------------------------------------

Advance(p) == at' = [at EXCEPT ![p] = @ + 1]

\* _set_alias, for the alias of this step.
SetAlias(p, target) ==
  /\ at[p] \in AliasSteps
  /\ alias' = [alias EXCEPT ![StepOf[at[p]]] = target[StepOf[at[p]]]]
  /\ Advance(p)
  /\ UNCHANGED <<file, dir, journal, pc, job, crashes, edited>>

AliasForward(p) == pc[p] = "forward" /\ SetAlias(p, job[p].after)

\* Mutant: a file that is no longer staged counts as installed.
InstallUnverified(p) ==
  LET k == StepOf[at[p]]
  IN /\ pc[p] = "forward"
     /\ at[p] \in FileSteps
     /\ IF dir.staged[k] # None
        THEN /\ file' = [file EXCEPT ![k] = dir.staged[k]]
             /\ dir' = [dir EXCEPT !.staged[k] = None]
        ELSE UNCHANGED <<file, dir>>
     /\ Advance(p)
     /\ UNCHANGED <<alias, journal, pc, job, crashes, edited>>

Install(p) ==
  LET k == StepOf[at[p]]
  IN /\ pc[p] = "forward"
     /\ at[p] \in FileSteps
     /\ \/ /\ dir.staged[k] # None
           /\ file' = [file EXCEPT ![k] = dir.staged[k]]
           /\ dir' = [dir EXCEPT !.staged[k] = None]
        \/ /\ dir.staged[k] = None
           /\ file[k] = job[p].sha[k]
           /\ UNCHANGED <<file, dir>>
     /\ Advance(p)
     /\ UNCHANGED <<alias, journal, pc, job, crashes, edited>>

\* Mutant: recovery gives up on any file already installed.
CannotFinishTwice(p) ==
  /\ pc[p] = "forward"
  /\ at[p] \in FileSteps
  /\ dir.staged[StepOf[at[p]]] = None
  /\ Leave(p)
  /\ UNCHANGED <<alias, file, dir, journal, crashes, edited>>

\* "cannot finish: staged ... is gone ...; run --abort"
CannotFinish(p) ==
  LET k == StepOf[at[p]]
  IN /\ pc[p] = "forward"
     /\ at[p] \in FileSteps
     /\ dir.staged[k] = None
     /\ file[k] # job[p].sha[k]
     /\ Leave(p)
     /\ UNCHANGED <<alias, file, dir, journal, crashes, edited>>

AliasBack(p) == pc[p] = "back" /\ SetAlias(p, job[p].before)

\* Mutant: abort leaves the append-only log alone.
RestoreExceptLog(p) ==
  LET k == StepOf[at[p]]
  IN /\ pc[p] = "back"
     /\ at[p] \in FileSteps
     /\ file' = [file EXCEPT ![k] = IF k = "log" THEN @
                                    ELSE IF job[p].existed[k] THEN dir.backup[k]
                                    ELSE None]
     /\ Advance(p)
     /\ UNCHANGED <<alias, dir, journal, pc, job, crashes, edited>>

\* A file that existed is copied back from backup/, one that did not is removed.
Restore(p) ==
  LET k == StepOf[at[p]]
  IN /\ pc[p] = "back"
     /\ at[p] \in FileSteps
     /\ job[p].existed[k] => dir.backup[k] # None
     /\ file' = [file EXCEPT ![k] = IF job[p].existed[k] THEN dir.backup[k] ELSE None]
     /\ Advance(p)
     /\ UNCHANGED <<alias, dir, journal, pc, job, crashes, edited>>

RemoveJournal(p) ==
  /\ pc[p] \in Releasing
  /\ at[p] = Done
  /\ journal # None
  /\ journal' = None
  /\ Goto(p, "clean")
  /\ UNCHANGED <<alias, file, dir, at, job, crashes, edited>>

\* shutil.rmtree(staging), with whatever it holds by now.
RemoveStaging(p) ==
  /\ pc[p] = "clean"
  /\ dir' = NoDir
  /\ journal' = None
  /\ Leave(p)
  /\ UNCHANGED <<alias, file, crashes, edited>>

\* recover() and abort() read the journal and start from its first step.
Resume(p, phase) ==
  /\ pc[p] = "idle"
  /\ journal # None
  /\ job' = [job EXCEPT ![p] = journal]
  /\ Goto(p, phase)
  /\ UNCHANGED <<alias, file, dir, journal, at, crashes, edited>>

Recover(p) == "recover" \in Repairs /\ Resume(p, "forward")

Abort(p) == "abort" \in Repairs /\ Resume(p, "back")

\* The process dies, or the registry or the disk fails it after the commit.
Crash(p) ==
  /\ pc[p] # "idle"
  /\ crashes < MaxCrashes
  /\ crashes' = crashes + 1
  /\ Leave(p)
  /\ UNCHANGED <<alias, file, dir, journal, edited>>

-----------------------------------------------------------------------------

NobodyRuns == \A p \in Operators : pc[p] = "idle"

\* Between operations someone moves an alias or edits the fixture by hand.
EditBetween ==
  /\ "between" \in Edits
  /\ NobodyRuns
  /\ journal = None
  /\ \/ /\ \E x \in Aliases, v \in MaybeVersion : alias' = [alias EXCEPT ![x] = v]
        /\ UNCHANGED file
     \/ /\ file["fixture"] # None
        /\ file' = [file EXCEPT !["fixture"].version = None]
        /\ UNCHANGED alias
  /\ edited' = TRUE
  /\ UNCHANGED <<dir, journal, pc, at, job, crashes>>

\* While an operation is interrupted someone moves an alias, or takes a file
\* back to what it was before (git checkout -- <file>).
EditDuring ==
  /\ "during" \in Edits
  /\ NobodyRuns
  /\ journal # None
  /\ \/ /\ \E x \in Aliases, v \in MaybeVersion : alias' = [alias EXCEPT ![x] = v]
        /\ UNCHANGED file
     \/ /\ \E k \in Keys : file' = [file EXCEPT ![k] = dir.backup[k]]
        /\ UNCHANGED alias
  /\ UNCHANGED <<dir, journal, pc, at, job, crashes, edited>>

Begin(p) == (\E v \in Versions : Promote(p, v)) \/ Rollback(p) \/ Refresh(p)

Prepare(p) == ClearStaging(p) \/ StageFiles(p) \/ BackupFiles(p) \/ WriteJournal(p)

Finish(p) == AliasForward(p) \/ Install(p) \/ CannotFinish(p)

Undo(p) == AliasBack(p) \/ Restore(p)

Cleanup(p) == RemoveJournal(p) \/ RemoveStaging(p)

Step(p) == Prepare(p) \/ Finish(p) \/ Undo(p) \/ Cleanup(p)

Next ==
  \/ \E p \in Operators : \/ Begin(p)
                          \/ Step(p)
                          \/ PrepareFails(p)
                          \/ Recover(p)
                          \/ Abort(p)
                          \/ Crash(p)
  \/ EditBetween
  \/ EditDuring

Spec == Init /\ [][Next]_vars

\* A started process runs on, and an operator who is told of an interrupted
\* operation keeps running the repairs at hand until one ends.
Fairness ==
  \A p \in Operators : WF_vars(Step(p)) /\ SF_vars(Recover(p)) /\ SF_vars(Abort(p))

FairSpec == Spec /\ Fairness

-----------------------------------------------------------------------------
(* Properties *)

JournalOK(j) ==
  /\ j = [version |-> j.version, before |-> j.before, after |-> j.after,
          sha |-> j.sha, existed |-> j.existed]
  /\ j.version \in Versions
  /\ j.before \in AliasStates
  /\ j.after \in AliasStates
  /\ FilesOK(j.sha)
  /\ \A k \in Keys : j.sha[k] # None
  /\ j.existed \in [Keys -> BOOLEAN]

DirOK ==
  /\ dir = [exists |-> dir.exists, staged |-> dir.staged, backup |-> dir.backup]
  /\ dir.exists \in BOOLEAN
  /\ FilesOK(dir.staged)
  /\ FilesOK(dir.backup)

StoreOK ==
  /\ alias \in AliasStates
  /\ FilesOK(file)
  /\ DirOK
  /\ journal = None \/ JournalOK(journal)
  /\ crashes \in 0..MaxCrashes
  /\ edited \in BOOLEAN

\* A preparing process holds a plan, a releasing one a journal.
OperatorsOK ==
  /\ pc \in [Operators -> Phases]
  /\ at \in [Operators -> 1..Done]
  /\ job = [p \in Operators |-> job[p]]
  /\ \A p \in Operators : /\ pc[p] = "idle" => job[p] = None
                          /\ pc[p] \in Preparing => job[p] \in Plans
                          /\ pc[p] \in Releasing => JournalOK(job[p])

\* The type invariant: registry, files, staging directory and journal hold what
\* they are given, and every process has at hand what its phase works from.
TypeOK == StoreOK /\ OperatorsOK

\* The four files tell one release: the log's last row is the one that made
\* champion.json what it is, and the metadata and the fixture that
\* champion.json vouches for are that version's.
Logged(f) ==
  /\ f["champion"] = None => LogOf(f) = <<>>
  /\ f["champion"] # None =>
       LET champion == f["champion"]
       IN /\ LogOf(f) # <<>>
          /\ LogOf(f)[Len(LogOf(f))] =
               [action |-> champion.action, from |-> champion.previous,
                to |-> champion.version]
          /\ champion.fixture # None => /\ f["meta"] = champion.version
                                       /\ champion.fixture.version = champion.version

\* With no operation in progress the aliases and the files tell one release,
\* wherever earlier processes died and whatever was edited by hand while an
\* operation was interrupted.  (Editing a finished record by hand may part the
\* aliases and the fixture from the other files, and only that.)
RecordIsWhole ==
  journal = None => Logged(file) /\ (edited \/ Consistent(alias, file))

\* promotions.md is one unbroken chain at every moment: each row starts from
\* the version the row before it made champion, and no row of an undone
\* operation stays behind.
Chain(log) ==
  \A i \in 1..Len(log) : log[i].from = IF i = 1 THEN None ELSE log[i - 1].to

LogIsAChain == Chain(LogOf(file))

\* As long as the journal exists everything --abort needs is still there:
\* the directory, and a copy of each file that existed.
UndoIsKept ==
  journal # None =>
    /\ dir.exists
    /\ \A k \in Keys : journal.existed[k] <=> dir.backup[k] # None

\* "A failure before step 2 changes nothing": no operation changes an alias
\* or a release file unless a journal exists to finish or undo it from.
NothingBeforeJournal ==
  [][journal = None /\ ~EditBetween => UNCHANGED <<alias, file>>]_vars

\* A journal goes only with its operation finished (both aliases moved, all
\* four files installed) or undone (both aliases and all four files back).
JournalOutlivesOperation ==
  [][journal # None /\ journal' = None =>
       \/ alias = journal.after /\ file = journal.sha
       \/ alias = journal.before /\ file = dir.backup]_vars

\* Clearing staging clears what a failed prepare left, never a commit
\* ("a prepare that failed before its journal: never committed").
ClearsOnlyUncommitted ==
  [][(\E p \in Operators : ClearStaging(p)) => journal = None]_vars

\* What the record is to a reader who takes an interrupted operation as not
\* having happened yet: the journal's 'before' and the files set aside.
ReportedAlias == IF journal = None THEN alias ELSE journal.before
ReportedFile == IF journal = None THEN file ELSE dir.backup

Abstract == INSTANCE ReleaseRecord WITH alias <- ReportedAlias, file <- ReportedFile

\* Every command is atomic: the whole transaction, crashes, repairs and hand
\* edits of an interrupted operation included, is one step of ReleaseRecord
\* taken when the journal goes, or none.
ImplementsRecord == Abstract!Spec

\* An interrupted operation does not stay interrupted.
Resolved == journal # None ~> journal = None

=============================================================================
