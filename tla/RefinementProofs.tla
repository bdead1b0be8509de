--------------------------- MODULE RefinementProofs ---------------------------
(***************************************************************************)
(* The release transaction implements ReleaseRecord: seen by a reader who  *)
(* takes an interrupted operation as not having happened yet, every        *)
(* command of promote.py is one step or none.                              *)
(***************************************************************************)
EXTENDS ReleaseSafetyProofs

-----------------------------------------------------------------------------
(* What the invariant of ReleaseSafetyProofs does not say: which command an *)
(* operation in progress came from.                                         *)

\* A command asks for this plan of the record of aliases a and files f.
AskedOf(plan, a, f) ==
  \/ \E v \in Versions : /\ Len(LogOf(f)) < MaxRows
                         /\ Consistent(a, f)
                         /\ plan = PromotePlan(v, a, f)
  \/ /\ Len(LogOf(f)) < MaxRows
     /\ f["champion"] # None
     /\ f["champion"].previous # None
     /\ Consistent(a, f)
     /\ plan = RollbackPlan(f)
  \/ /\ f["champion"] # None
     /\ AliasMatches(a, f)
     /\ plan = RefreshPlan(a, f)

\* A preparing process holds a plan its command still asks for, and a journal
\* leads from the record set aside to what one command makes of it.
CommandInv ==
  /\ \A p \in Operators : pc[p] \in Preparing => AskedOf(job[p], alias, file)
  /\ journal # None =>
       \E plan \in Plans, pl \in Platforms :
         /\ AskedOf(plan, journal.before, dir.backup)
         /\ journal.after = plan.after
         /\ journal.sha = NewFiles(plan, pl, dir.backup)

-----------------------------------------------------------------------------
(* The invariant is kept *)

\* What is said of the one operator is said of every operator.
LEMMA SaidOfTheCommand ==
  ASSUME OneOperator, NEW p \in Operators,
         pc'[p] \in Preparing => AskedOf(job'[p], alias', file'),
         journal' # None =>
           \E plan \in Plans, pl \in Platforms :
             /\ AskedOf(plan, journal'.before, dir'.backup)
             /\ journal'.after = plan.after
             /\ journal'.sha = NewFiles(plan, pl, dir'.backup)
  PROVE  CommandInv'
<1>1. \A q \in Operators : q = p
  BY DEF OneOperator
<1>2. QED
  BY <1>1 DEF CommandInv

\* A journal that stays, with the files set aside, still comes from a command.
LEMMA CommandOfJournalKept ==
  ASSUME OneOperator, CommandInv, NEW p \in Operators,
         pc'[p] \notin Preparing, journal' \in {journal, None},
         journal' # None => dir'.backup = dir.backup
  PROVE  CommandInv'
<1>1. journal' # None =>
        \E plan \in Plans, pl \in Platforms :
          /\ AskedOf(plan, journal'.before, dir'.backup)
          /\ journal'.after = plan.after
          /\ journal'.sha = NewFiles(plan, pl, dir'.backup)
  BY DEF CommandInv
<1>2. QED
  BY <1>1, SaidOfTheCommand

LEMMA InitCommand == Init => CommandInv
BY DEF Init, CommandInv, Preparing

LEMMA BeginCommand ==
  ASSUME OneOperator, IInv, CommandInv, NEW p \in Operators, Begin(p)
  PROVE  CommandInv'
<1>1. journal' = None /\ UNCHANGED <<alias, file>>
  BY DEF Begin, Promote, Rollback, Refresh, Start, NotInProgress
<1>2. AskedOf(job'[p], alias, file)
  <2>1. \A plan : Start(p, plan) => job'[p] = plan
    BY DEF IInv, TypeOK, OperatorsOK, Start
  <2>2. QED
    BY <2>1 DEF Begin, Promote, Rollback, Refresh, RoomInLog, AskedOf
<1>3. QED
  BY <1>1, <1>2, SaidOfTheCommand

LEMMA PrepareCommand ==
  ASSUME OneOperator, IInv, CommandInv, NEW p \in Operators, Prepare(p)
  PROVE  CommandInv'
<1>1. /\ pc[p] \in Preparing /\ journal = None
      /\ AskedOf(job[p], alias, file) /\ job[p] \in Plans
      /\ UNCHANGED <<alias, file>>
  BY DEF IInv, TypeOK, OperatorsOK, PrepareInv, CommandInv, Prepare, ClearStaging,
     StageFiles, BackupFiles, WriteJournal, Preparing
<1>2. CASE ClearStaging(p) \/ StageFiles(p) \/ BackupFiles(p)
  <2>1. journal' = None /\ job' = job
    BY <1>1, <1>2 DEF ClearStaging, StageFiles, BackupFiles
  <2>2. QED
    BY <1>1, <2>1, SaidOfTheCommand
<1>3. CASE WriteJournal(p)
  <2>1. PICK pl \in Platforms : dir.staged = NewFiles(job[p], pl, file)
    BY <1>3 DEF IInv, PrepareInv, WriteJournal
  <2>2. dir'.backup = file /\ pc'[p] \notin Preparing
    BY <1>3 DEF IInv, PrepareInv, TypeOK, OperatorsOK, WriteJournal, Goto, Preparing
  <2>3. /\ journal'.before = alias
        /\ journal'.after = job[p].after
        /\ journal'.sha = dir.staged
    BY <1>3 DEF WriteJournal
  <2>4. QED
    BY <1>1, <2>1, <2>2, <2>3, SaidOfTheCommand
<1>4. QED
  BY <1>2, <1>3 DEF Prepare

LEMMA OtherStepsCommand ==
  ASSUME OneOperator, IInv, CommandInv, NEW p \in Operators,
         Finish(p) \/ Undo(p) \/ Cleanup(p) \/ PrepareFails(p) \/ Crash(p)
           \/ Recover(p) \/ Abort(p)
  PROVE  CommandInv'
<1>1. pc \in [Operators -> Phases] /\ dir = [exists |-> dir.exists,
        staged |-> dir.staged, backup |-> dir.backup]
  BY DEF IInv, TypeOK, OperatorsOK, StoreOK, DirOK
<1>2. CASE Finish(p) \/ Undo(p)
  <2>1. pc'[p] \notin Preparing /\ journal' = journal
    BY <1>1, <1>2 DEF Finish, AliasForward, Install, CannotFinish, Undo, AliasBack,
       Restore, SetAlias, Leave, Goto, Preparing
  <2>2. dir'.backup = dir.backup
    <3>1. CASE Install(p)
      BY <1>1, <3>1 DEF Install
    <3>2. CASE ~Install(p)
      BY <1>2, <3>2 DEF Finish, AliasForward, CannotFinish, Undo, AliasBack, Restore,
         SetAlias
    <3>3. QED
      BY <3>1, <3>2
  <2>3. QED
    BY <2>1, <2>2, CommandOfJournalKept
<1>3. CASE Cleanup(p) \/ PrepareFails(p)
  <2>1. pc'[p] \notin Preparing /\ journal' = None
    BY <1>1, <1>3 DEF Cleanup, RemoveJournal, RemoveStaging, PrepareFails, Leave, Goto,
       Preparing
  <2>2. QED
    BY <2>1, CommandOfJournalKept
<1>4. CASE Crash(p) \/ Recover(p) \/ Abort(p)
  <2>1. pc'[p] \notin Preparing /\ UNCHANGED <<journal, dir>>
    BY <1>1, <1>4 DEF Crash, Recover, Abort, Resume, Leave, Goto, Preparing
  <2>2. QED
    BY <2>1, CommandOfJournalKept
<1>5. QED
  BY <1>2, <1>3, <1>4

LEMMA NextCommand ==
  ASSUME OneOperator
  PROVE  IInv /\ CommandInv /\ [Next]_vars => CommandInv'
<1> SUFFICES ASSUME IInv, CommandInv, [Next]_vars PROVE CommandInv'
  OBVIOUS
<1>1. CASE \E p \in Operators : \/ Begin(p) \/ Step(p) \/ PrepareFails(p)
                                \/ Recover(p) \/ Abort(p) \/ Crash(p)
  BY <1>1, BeginCommand, PrepareCommand, OtherStepsCommand DEF Step
<1>2. CASE EditBetween \/ EditDuring
  <2>1. /\ \A p \in Operators : pc'[p] = "idle"
        /\ UNCHANGED <<journal, dir>>
    BY <1>2 DEF EditBetween, EditDuring, NobodyRuns
  <2>2. QED
    BY <2>1 DEF CommandInv, Preparing
<1>3. CASE UNCHANGED vars
  BY <1>3 DEF vars, CommandInv
<1>4. QED
  BY <1>1, <1>2, <1>3 DEF Next

-----------------------------------------------------------------------------
(* The simulation *)

\* The record's operators mean the same in the abstract module.
LEMMA SameRecord ==
  /\ \A a, f : Abstract!StartingRecord(a, f) <=> StartingRecord(a, f)
  /\ \A a, f : Abstract!Consistent(a, f) <=> Consistent(a, f)
  /\ \A a, f : Abstract!AliasMatches(a, f) <=> AliasMatches(a, f)
  /\ \A f : Abstract!LogOf(f) = LogOf(f)
  /\ \A v, a, f : Abstract!PromotePlan(v, a, f) = PromotePlan(v, a, f)
  /\ \A f : Abstract!RollbackPlan(f) = RollbackPlan(f)
  /\ \A a, f : Abstract!RefreshPlan(a, f) = RefreshPlan(a, f)
  /\ \A plan, pl, f : Abstract!NewFiles(plan, pl, f) = NewFiles(plan, pl, f)
<1>1. \A f : Abstract!LogOf(f) = LogOf(f)
  BY DEF LogOf, Abstract!LogOf
<1>2. \A a, f : Abstract!AliasMatches(a, f) <=> AliasMatches(a, f)
  BY DEF AliasMatches, Abstract!AliasMatches
<1>3. \A a, f : Abstract!Consistent(a, f) <=> Consistent(a, f)
  BY <1>2 DEF Consistent, Abstract!Consistent, FixtureMatches, Abstract!FixtureMatches
<1>4. \A a, f : Abstract!StartingRecord(a, f) <=> StartingRecord(a, f)
  BY DEF StartingRecord, Abstract!StartingRecord, NoAliases, Abstract!NoAliases,
     NoFiles, Abstract!NoFiles, LegacyFiles, Abstract!LegacyFiles, Aliases,
     Abstract!Aliases, Keys, Abstract!Keys
<1>5. \A v, a, f : Abstract!PromotePlan(v, a, f) = PromotePlan(v, a, f)
  BY DEF PromotePlan, Abstract!PromotePlan, Aliases, Abstract!Aliases
<1>6. \A f : Abstract!RollbackPlan(f) = RollbackPlan(f)
  BY DEF RollbackPlan, Abstract!RollbackPlan, Aliases, Abstract!Aliases
<1>7. \A a, f : Abstract!RefreshPlan(a, f) = RefreshPlan(a, f)
  BY DEF RefreshPlan, Abstract!RefreshPlan
<1>8. \A plan, pl, f : Abstract!NewFiles(plan, pl, f) = NewFiles(plan, pl, f)
  BY <1>1 DEF NewFiles, Abstract!NewFiles, NewFile, Abstract!NewFile, Keys, Abstract!Keys
<1>9. QED
  BY <1>1, <1>2, <1>3, <1>4, <1>5, <1>6, <1>7, <1>8

\* A command that still asks for the plan of the journal takes the record from
\* what the journal set aside to what the plan writes, in one step.
LEMMA CommandIsOneStep ==
  ASSUME NEW plan \in Plans, NEW pl \in Platforms,
         AskedOf(plan, ReportedAlias, ReportedFile),
         ReportedAlias' = plan.after,
         ReportedFile' = NewFiles(plan, pl, ReportedFile)
  PROVE  Abstract!Next
<1>1. \A q : q = plan => Abstract!Write(q)
  BY SameRecord DEF Abstract!Write
<1>2. Abstract!RoomInLog <=> Len(LogOf(ReportedFile)) < MaxRows
  BY SameRecord DEF Abstract!RoomInLog
<1>3. CASE \E v \in Versions : /\ Len(LogOf(ReportedFile)) < MaxRows
                               /\ Consistent(ReportedAlias, ReportedFile)
                               /\ plan = PromotePlan(v, ReportedAlias, ReportedFile)
  BY <1>1, <1>2, <1>3, SameRecord DEF Abstract!Next, Abstract!Promote
<1>4. CASE /\ Len(LogOf(ReportedFile)) < MaxRows
           /\ ReportedFile["champion"] # None
           /\ ReportedFile["champion"].previous # None
           /\ Consistent(ReportedAlias, ReportedFile)
           /\ plan = RollbackPlan(ReportedFile)
  BY <1>1, <1>2, <1>4, SameRecord DEF Abstract!Next, Abstract!Rollback
<1>5. CASE /\ ReportedFile["champion"] # None
           /\ AliasMatches(ReportedAlias, ReportedFile)
           /\ plan = RefreshPlan(ReportedAlias, ReportedFile)
  BY <1>1, <1>5, SameRecord DEF Abstract!Next, Abstract!Refresh
<1>6. QED
  BY <1>3, <1>4, <1>5 DEF AskedOf

\* The journal goes: forward the command happens, backward nothing did.
LEMMA RemoveJournalSimulates ==
  ASSUME IInv, CommandInv, NEW p \in Operators, RemoveJournal(p)
  PROVE  Abstract!Next \/ UNCHANGED Abstract!vars
<1>1. /\ journal # None /\ journal' = None
      /\ UNCHANGED <<alias, file, dir>>
  BY DEF RemoveJournal
<1>2. /\ ReportedAlias = journal.before /\ ReportedFile = dir.backup
      /\ ReportedAlias' = alias /\ ReportedFile' = file
  BY <1>1 DEF ReportedAlias, ReportedFile
<1>3. CASE alias = journal.before /\ file = dir.backup
  BY <1>2, <1>3 DEF Abstract!vars
<1>4. CASE alias = journal.after /\ file = journal.sha
  <2>1. PICK plan \in Plans, pl \in Platforms :
          /\ AskedOf(plan, journal.before, dir.backup)
          /\ journal.after = plan.after
          /\ journal.sha = NewFiles(plan, pl, dir.backup)
    BY <1>1 DEF CommandInv
  <2>2. QED
    BY <1>2, <1>4, <2>1, CommandIsOneStep
<1>5. QED
  BY <1>3, <1>4, JournalGoesAtAnEnd

\* The journal comes: what it records is what is there, so nothing happened.
LEMMA PrepareSimulates ==
  ASSUME IInv, NEW p \in Operators, Prepare(p)
  PROVE  UNCHANGED Abstract!vars
<1>1. journal = None /\ UNCHANGED <<alias, file>>
  BY DEF IInv, PrepareInv, Prepare, ClearStaging, StageFiles, BackupFiles,
     WriteJournal, Preparing
<1>2. CASE WriteJournal(p)
  <2>1. journal'.before = alias /\ dir'.backup = file
    BY <1>2 DEF IInv, PrepareInv, WriteJournal
  <2>2. QED
    BY <1>1, <2>1 DEF Abstract!vars, ReportedAlias, ReportedFile
<1>3. CASE ~WriteJournal(p)
  <2>1. journal' = None
    BY <1>1, <1>3 DEF Prepare, ClearStaging, StageFiles, BackupFiles
  <2>2. QED
    BY <1>1, <2>1 DEF Abstract!vars, ReportedAlias, ReportedFile
<1>4. QED
  BY <1>2, <1>3

\* The steps between the journal's coming and its going: nothing happened yet.
LEMMA OtherStepsSimulate ==
  ASSUME IInv, NEW p \in Operators,
         Begin(p) \/ Finish(p) \/ Undo(p) \/ RemoveStaging(p) \/ PrepareFails(p)
           \/ Recover(p) \/ Abort(p) \/ Crash(p)
  PROVE  UNCHANGED Abstract!vars
<1>1. CASE Finish(p) \/ Undo(p)
  <2>1. journal # None /\ journal' = journal
    BY <1>1 DEF IInv, ReleaseInv, Releasing, Finish, AliasForward, Install,
       CannotFinish, Undo, AliasBack, Restore, SetAlias
  <2>2. dir = [exists |-> dir.exists, staged |-> dir.staged, backup |-> dir.backup]
    BY DEF IInv, TypeOK, StoreOK, DirOK
  <2>3. dir'.backup = dir.backup
    <3>1. CASE Install(p)
      BY <2>2, <3>1 DEF Install
    <3>2. CASE ~Install(p)
      BY <1>1, <3>2 DEF Finish, AliasForward, CannotFinish, Undo, AliasBack, Restore,
         SetAlias
    <3>3. QED
      BY <3>1, <3>2
  <2>4. QED
    BY <2>1, <2>3 DEF Abstract!vars, ReportedAlias, ReportedFile
<1>2. CASE RemoveStaging(p) \/ PrepareFails(p)
  <2>1. journal = None /\ journal' = None /\ UNCHANGED <<alias, file>>
    BY <1>2 DEF IInv, PrepareInv, RemoveStaging, PrepareFails, Preparing
  <2>2. QED
    BY <2>1 DEF Abstract!vars, ReportedAlias, ReportedFile
<1>3. CASE Begin(p) \/ Recover(p) \/ Abort(p) \/ Crash(p)
  <2>1. UNCHANGED <<alias, file, dir, journal>>
    BY <1>3 DEF Begin, Promote, Rollback, Refresh, Start, Recover, Abort, Resume, Crash
  <2>2. QED
    BY <2>1 DEF Abstract!vars, ReportedAlias, ReportedFile
<1>4. QED
  BY <1>1, <1>2, <1>3

\* An edit of a finished record is an edit of the record; one of an interrupted
\* operation happens to what is not reported.
LEMMA EditsSimulate ==
  ASSUME EditBetween \/ EditDuring
  PROVE  Abstract!Next \/ UNCHANGED Abstract!vars
<1>1. CASE EditBetween
  <2>1. /\ ReportedAlias = alias /\ ReportedFile = file
        /\ ReportedAlias' = alias' /\ ReportedFile' = file'
    BY <1>1 DEF EditBetween, ReportedAlias, ReportedFile
  <2>2. Abstract!Edit
    BY <1>1, <2>1 DEF EditBetween, Abstract!Edit, Aliases, Abstract!Aliases,
       MaybeVersion, Abstract!MaybeVersion
  <2>3. QED
    BY <2>2 DEF Abstract!Next
<1>2. CASE EditDuring
  BY <1>2 DEF EditDuring, Abstract!vars, ReportedAlias, ReportedFile
<1>3. QED
  BY <1>1, <1>2

LEMMA NextSimulates ==
  IInv /\ CommandInv /\ [Next]_vars => [Abstract!Next]_(Abstract!vars)
<1> SUFFICES ASSUME IInv, CommandInv, [Next]_vars
             PROVE  Abstract!Next \/ UNCHANGED Abstract!vars
  OBVIOUS
<1>1. CASE \E p \in Operators : \/ Begin(p) \/ Step(p) \/ PrepareFails(p)
                                \/ Recover(p) \/ Abort(p) \/ Crash(p)
  BY <1>1, PrepareSimulates, RemoveJournalSimulates, OtherStepsSimulate
     DEF Step, Cleanup
<1>2. CASE EditBetween \/ EditDuring
  BY <1>2, EditsSimulate
<1>3. CASE UNCHANGED vars
  BY <1>3 DEF vars, Abstract!vars, ReportedAlias, ReportedFile
<1>4. QED
  BY <1>1, <1>2, <1>3 DEF Next

-----------------------------------------------------------------------------
(* The theorem *)

\* registry.py's transaction implements the record it promises: through any
\* crash, repair and hand edit, each command of promote.py changes both aliases
\* and all four files in one step, or changes nothing.
THEOREM TransactionImplementsRecord ==
  ASSUME OneOperator
  PROVE  Spec => ImplementsRecord
<1>1. Init => Abstract!Init
  <2>1. ASSUME Init PROVE ReportedAlias = alias /\ ReportedFile = file
    BY <2>1 DEF Init, ReportedAlias, ReportedFile
  <2>2. QED
    BY <2>1, SameRecord DEF Init, Abstract!Init
<1>2. IInv /\ CommandInv /\ [Next]_vars => CommandInv'
  BY NextCommand
<1>3. IInv /\ CommandInv /\ [Next]_vars => [Abstract!Next]_(Abstract!vars)
  BY NextSimulates
<1>4. Spec => []IInv
  BY Invariant
<1>5. QED
  BY <1>1, <1>2, <1>3, <1>4, InitCommand, PTL DEF Spec, ImplementsRecord, Abstract!Spec

=============================================================================
