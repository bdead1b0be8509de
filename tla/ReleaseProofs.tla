----------------------------- MODULE ReleaseProofs -----------------------------
(***************************************************************************)
(* Proofs about ReleaseTransaction, for every set of versions, platforms   *)
(* and bounds.                                                             *)
(***************************************************************************)
EXTENDS ReleaseTransaction, TLAPS

-----------------------------------------------------------------------------
(* What the plans and the files they write are *)

\* A plan made from a typed record is a plan: each command of promote.py names
\* registered versions only, given that rollback has checked previous_version.
LEMMA PlansAreTyped ==
  ASSUME NEW a \in AliasStates, NEW f, FilesOK(f)
  PROVE  /\ \A v \in Versions : PromotePlan(v, a, f) \in Plans
         /\ f["champion"] # None /\ f["champion"].previous # None
              => RollbackPlan(f) \in Plans
         /\ f["champion"] # None => RefreshPlan(a, f) \in Plans
<1>1. ASSUME f["champion"] # None
      PROVE  /\ f["champion"].version \in Versions
             /\ f["champion"].previous \in MaybeVersion
             /\ f["champion"].action \in {"promote", "rollback"}
  BY <1>1 DEF FilesOK, Champions
<1>2. ASSUME NEW v \in Versions PROVE PromotePlan(v, a, f) \in Plans
  BY <1>1 DEF PromotePlan, Plans, Actions, AliasStates, Aliases, MaybeVersion
<1>3. ASSUME f["champion"] # None, f["champion"].previous # None
      PROVE  RollbackPlan(f) \in Plans
  BY <1>1, <1>3 DEF RollbackPlan, Plans, Actions, AliasStates, MaybeVersion
<1>4. ASSUME f["champion"] # None PROVE RefreshPlan(a, f) \in Plans
  BY <1>1, <1>4 DEF RefreshPlan, Plans, Actions
<1>5. QED
  BY <1>2, <1>3, <1>4

\* The log as a sequence of rows, present or not.
LEMMA LogIsTyped ==
  ASSUME NEW f, FilesOK(f)
  PROVE  LogOf(f) \in Seq(Rows)
BY DEF FilesOK, LogOf

\* The four files a plan writes are four files of the right kinds.
LEMMA NewFilesAreTyped ==
  ASSUME NEW plan \in Plans, NEW pl \in Platforms, NEW f, FilesOK(f)
  PROVE  FilesOK(NewFiles(plan, pl, f))
<1> DEFINE g == NewFiles(plan, pl, f)
           fixture == [version |-> plan.version, platform |-> pl]
           row == [action |-> plan.recorded, from |-> plan.previous, to |-> plan.version]
<1>1. fixture \in Fixtures /\ row \in Rows
  BY DEF Fixtures, Rows, Plans, MaybeVersion
<1>2. g = [k \in Keys |-> g[k]]
  BY DEF NewFiles
<1>3. g["champion"] \in Champions
  BY <1>1 DEF NewFiles, NewFile, Keys, Champions, Plans
<1>4. g["meta"] \in MaybeVersion
  BY DEF NewFiles, NewFile, Keys, MaybeVersion, Plans
<1>5. g["fixture"] \in Fixtures
  BY <1>1 DEF NewFiles, NewFile, Keys
<1>6. g["log"] \in Seq(Rows)
  <2>1. g["log"] = IF plan.action = "refresh" THEN LogOf(f) ELSE Append(LogOf(f), row)
    BY DEF NewFiles, NewFile, Keys
  <2>2. QED
    BY <1>1, <2>1, LogIsTyped
<1>7. QED
  BY <1>2, <1>3, <1>4, <1>5, <1>6 DEF FilesOK

\* Replacing one file by the same file of another state keeps the kinds.
LEMMA OneFileReplaced ==
  ASSUME NEW f, FilesOK(f), NEW g, FilesOK(g), NEW k \in Keys
  PROVE  FilesOK([f EXCEPT ![k] = g[k]])
BY DEF FilesOK, Keys

LEMMA OneFileRemoved ==
  ASSUME NEW f, FilesOK(f), NEW k \in Keys
  PROVE  FilesOK([f EXCEPT ![k] = None])
BY DEF FilesOK, Keys, MaybeVersion

LEMMA NoFilesAreTyped == FilesOK(NoFiles)
BY DEF FilesOK, NoFiles, Keys, MaybeVersion

LEMMA StepsNameAliasesAndFiles ==
  /\ \A i \in AliasSteps : StepOf[i] \in Aliases
  /\ \A i \in FileSteps : StepOf[i] \in Keys
BY DEF AliasSteps, FileSteps, StepOf, Aliases, Keys

-----------------------------------------------------------------------------
(* Type correctness *)

\* A process that ends leaves every operator typed.
LEMMA LeaveTyped ==
  ASSUME OperatorsOK, NEW p \in Operators, Leave(p)
  PROVE  OperatorsOK'
BY DEF OperatorsOK, Leave, Goto, Phases, Preparing, Releasing, Done

LEMMA InitTyped == Init => TypeOK
<1> SUFFICES ASSUME Init PROVE TypeOK
  OBVIOUS
<1>1. alias \in AliasStates /\ FilesOK(file)
  <2>1. CASE alias = NoAliases /\ file = NoFiles
    BY <2>1, NoFilesAreTyped DEF NoAliases, AliasStates, MaybeVersion
  <2>2. ASSUME NEW v \in Versions,
               alias = [NoAliases EXCEPT !["champion"] = v],
               file = LegacyFiles(v)
        PROVE  alias \in AliasStates /\ FilesOK(file)
    <3>1. alias \in AliasStates
      BY <2>2 DEF NoAliases, AliasStates, Aliases, MaybeVersion
    <3> DEFINE row == [action |-> "promote", from |-> None, to |-> v]
    <3>2. <<row>> \in Seq(Rows)
      BY DEF Rows, MaybeVersion
    <3>3. file["champion"] \in Champions /\ file["meta"] = None
          /\ file["fixture"] = None /\ file["log"] = <<row>>
      BY <2>2 DEF LegacyFiles, Keys, Champions, MaybeVersion
    <3>4. file = [k \in Keys |-> file[k]]
      BY <2>2 DEF LegacyFiles
    <3>5. QED
      BY <3>1, <3>2, <3>3, <3>4 DEF FilesOK, MaybeVersion
  <2>3. QED
    BY <2>1, <2>2 DEF Init, StartingRecord
<1>2. DirOK
  BY NoFilesAreTyped DEF Init, NoDir, DirOK
<1>3. OperatorsOK
  BY DEF Init, OperatorsOK, Phases, Preparing, Releasing, Done
<1>4. journal = None
  BY DEF Init
<1>5. crashes \in 0..MaxCrashes
  BY TransactionAssumption DEF Init
<1>6. edited \in BOOLEAN
  BY DEF Init
<1>7. QED
  BY <1>1, <1>2, <1>3, <1>4, <1>5, <1>6 DEF TypeOK, StoreOK

\* A command that starts holds a plan and has changed nothing.
LEMMA BeginTyped ==
  ASSUME TypeOK, NEW p \in Operators, Begin(p)
  PROVE  TypeOK'
<1>1. \E plan \in Plans : Start(p, plan)
  <2>1. CASE \E v \in Versions : Promote(p, v)
    BY <2>1, PlansAreTyped DEF TypeOK, StoreOK, Promote
  <2>2. CASE Rollback(p)
    BY <2>2, PlansAreTyped DEF TypeOK, StoreOK, Rollback
  <2>3. CASE Refresh(p)
    BY <2>3, PlansAreTyped DEF TypeOK, StoreOK, Refresh
  <2>4. QED
    BY <2>1, <2>2, <2>3 DEF Begin
<1>2. PICK plan \in Plans : Start(p, plan)
  BY <1>1
<1>3. OperatorsOK'
  BY <1>2 DEF TypeOK, OperatorsOK, Start, Goto, Phases, Preparing, Releasing
<1>4. StoreOK'
  BY <1>2 DEF TypeOK, StoreOK, DirOK, Start
<1>5. QED
  BY <1>3, <1>4 DEF TypeOK

LEMMA PrepareTyped ==
  ASSUME TypeOK, NEW p \in Operators, Prepare(p)
  PROVE  TypeOK'
<1>1. CASE ClearStaging(p)
  <2>1. OperatorsOK'
    BY <1>1 DEF TypeOK, OperatorsOK, ClearStaging, Goto, Phases, Preparing, Releasing
  <2>2. DirOK'
    BY <1>1, NoFilesAreTyped DEF ClearStaging, NoDir, DirOK
  <2>3. QED
    BY <1>1, <2>1, <2>2 DEF TypeOK, StoreOK, ClearStaging
<1>2. CASE StageFiles(p)
  <2>1. OperatorsOK'
    BY <1>2 DEF TypeOK, OperatorsOK, StageFiles, Goto, Phases, Preparing, Releasing
  <2>2. PICK pl \in Platforms : dir' = [dir EXCEPT !.staged = NewFiles(job[p], pl, file)]
    BY <1>2 DEF StageFiles
  <2>3. FilesOK(NewFiles(job[p], pl, file))
    BY <1>2, NewFilesAreTyped DEF TypeOK, StoreOK, OperatorsOK, StageFiles, Preparing
  <2>4. DirOK'
    BY <2>2, <2>3 DEF TypeOK, StoreOK, DirOK
  <2>5. QED
    BY <1>2, <2>1, <2>4 DEF TypeOK, StoreOK, StageFiles
<1>3. CASE BackupFiles(p)
  <2>1. OperatorsOK'
    BY <1>3 DEF TypeOK, OperatorsOK, BackupFiles, Goto, Phases, Preparing, Releasing
  <2>2. DirOK'
    BY <1>3 DEF TypeOK, StoreOK, DirOK, BackupFiles
  <2>3. QED
    BY <1>3, <2>1, <2>2 DEF TypeOK, StoreOK, BackupFiles
<1>4. CASE WriteJournal(p)
  <2>1. job[p] \in Plans
    BY <1>4 DEF TypeOK, OperatorsOK, WriteJournal, Preparing
  <2>2. JournalOK(journal')
    BY <1>4, <2>1 DEF TypeOK, StoreOK, DirOK, WriteJournal, JournalOK, Plans
  <2>3. OperatorsOK'
    BY <1>4, <2>2 DEF TypeOK, OperatorsOK, WriteJournal, Goto, Phases, Preparing, Releasing
  <2>4. StoreOK'
    BY <1>4, <2>2 DEF TypeOK, StoreOK, DirOK, WriteJournal
  <2>5. QED
    BY <2>3, <2>4 DEF TypeOK
<1>5. QED
  BY <1>1, <1>2, <1>3, <1>4 DEF Prepare

LEMMA SetAliasTyped ==
  ASSUME TypeOK, NEW p \in Operators, NEW target \in AliasStates,
         pc[p] \in Releasing, SetAlias(p, target)
  PROVE  TypeOK'
<1>1. StepOf[at[p]] \in Aliases
  BY StepsNameAliasesAndFiles DEF SetAlias
<1>2. alias' \in AliasStates
  BY <1>1 DEF TypeOK, StoreOK, SetAlias, AliasStates
<1>3. at' \in [Operators -> 1..Done]
  BY DEF TypeOK, OperatorsOK, SetAlias, Advance, AliasSteps, Done
<1>4. OperatorsOK'
  BY <1>3 DEF TypeOK, OperatorsOK, SetAlias
<1>5. StoreOK'
  BY <1>2 DEF TypeOK, StoreOK, DirOK, SetAlias
<1>6. QED
  BY <1>4, <1>5 DEF TypeOK

\* A step that advances past a file keeps every operator typed.
LEMMA AdvanceTyped ==
  ASSUME OperatorsOK, NEW p \in Operators, at[p] \in FileSteps, Advance(p),
         UNCHANGED <<pc, job>>
  PROVE  OperatorsOK'
<1>1. at' \in [Operators -> 1..Done]
  BY DEF OperatorsOK, Advance, FileSteps, Done
<1>2. QED
  BY <1>1 DEF OperatorsOK

LEMMA FinishTyped ==
  ASSUME TypeOK, NEW p \in Operators, Finish(p)
  PROVE  TypeOK'
<1>1. CASE AliasForward(p)
  <2>1. job[p].after \in AliasStates /\ pc[p] \in Releasing
    BY <1>1 DEF TypeOK, OperatorsOK, AliasForward, Releasing, JournalOK
  <2>2. QED
    BY <1>1, <2>1, SetAliasTyped DEF AliasForward
<1>2. CASE Install(p)
  <2> DEFINE k == StepOf[at[p]]
  <2>1. k \in Keys
    BY <1>2, StepsNameAliasesAndFiles DEF Install
  <2>2. OperatorsOK'
    BY <1>2, AdvanceTyped DEF TypeOK, Install
  <2>3. FilesOK(file') /\ DirOK'
    <3>1. CASE UNCHANGED <<file, dir>>
      BY <3>1 DEF TypeOK, StoreOK, DirOK
    <3>2. CASE /\ file' = [file EXCEPT ![k] = dir.staged[k]]
               /\ dir' = [dir EXCEPT !.staged[k] = None]
      <4>1. FilesOK(file')
        BY <2>1, <3>2, OneFileReplaced DEF TypeOK, StoreOK, DirOK
      <4>2. dir' = [dir EXCEPT !.staged = [dir.staged EXCEPT ![k] = None]]
        BY <3>2 DEF TypeOK, StoreOK, DirOK
      <4>3. FilesOK([dir.staged EXCEPT ![k] = None])
        BY <2>1, OneFileRemoved DEF TypeOK, StoreOK, DirOK
      <4>4. DirOK'
        BY <4>2, <4>3 DEF TypeOK, StoreOK, DirOK
      <4>5. QED
        BY <4>1, <4>4
    <3>3. QED
      BY <1>2, <3>1, <3>2 DEF Install
  <2>4. QED
    BY <1>2, <2>2, <2>3 DEF TypeOK, StoreOK, Install
<1>3. CASE CannotFinish(p)
  <2>1. OperatorsOK'
    BY <1>3, LeaveTyped DEF TypeOK, CannotFinish
  <2>2. QED
    BY <1>3, <2>1 DEF TypeOK, StoreOK, DirOK, CannotFinish
<1>4. QED
  BY <1>1, <1>2, <1>3 DEF Finish

LEMMA UndoTyped ==
  ASSUME TypeOK, NEW p \in Operators, Undo(p)
  PROVE  TypeOK'
<1>1. CASE AliasBack(p)
  <2>1. job[p].before \in AliasStates /\ pc[p] \in Releasing
    BY <1>1 DEF TypeOK, OperatorsOK, AliasBack, Releasing, JournalOK
  <2>2. QED
    BY <1>1, <2>1, SetAliasTyped DEF AliasBack
<1>2. CASE Restore(p)
  <2> DEFINE k == StepOf[at[p]]
  <2>1. k \in Keys
    BY <1>2, StepsNameAliasesAndFiles DEF Restore
  <2>2. OperatorsOK'
    BY <1>2, AdvanceTyped DEF TypeOK, Restore
  <2>3. FilesOK(file')
    <3>1. \/ file' = [file EXCEPT ![k] = dir.backup[k]]
          \/ file' = [file EXCEPT ![k] = None]
      BY <1>2 DEF Restore
    <3>2. QED
      BY <2>1, <3>1, OneFileReplaced, OneFileRemoved DEF TypeOK, StoreOK, DirOK
  <2>4. QED
    BY <1>2, <2>2, <2>3 DEF TypeOK, StoreOK, DirOK, Restore
<1>3. QED
  BY <1>1, <1>2 DEF Undo

\* Cleaning up, failing before the commit, dying, and resuming from the journal.
LEMMA OtherStepsTyped ==
  ASSUME TypeOK, NEW p \in Operators,
         Cleanup(p) \/ PrepareFails(p) \/ Crash(p) \/ Recover(p) \/ Abort(p)
  PROVE  TypeOK'
<1>1. CASE RemoveJournal(p)
  <2>1. OperatorsOK'
    BY <1>1 DEF TypeOK, OperatorsOK, RemoveJournal, Goto, Phases, Preparing, Releasing
  <2>2. QED
    BY <1>1, <2>1 DEF TypeOK, StoreOK, DirOK, RemoveJournal
<1>2. CASE RemoveStaging(p) \/ PrepareFails(p)
  <2>1. OperatorsOK'
    BY <1>2, LeaveTyped DEF TypeOK, RemoveStaging, PrepareFails
  <2>2. DirOK'
    <3>1. dir' = NoDir
      BY <1>2 DEF RemoveStaging, PrepareFails
    <3>2. QED
      BY <3>1, NoFilesAreTyped DEF NoDir, DirOK
  <2>3. QED
    BY <1>2, <2>1, <2>2 DEF TypeOK, StoreOK, RemoveStaging, PrepareFails
<1>3. CASE Crash(p)
  <2>1. OperatorsOK'
    BY <1>3, LeaveTyped DEF TypeOK, Crash
  <2>2. crashes' \in 0..MaxCrashes
    BY <1>3, TransactionAssumption DEF TypeOK, StoreOK, Crash
  <2>3. QED
    BY <1>3, <2>1, <2>2 DEF TypeOK, StoreOK, DirOK, Crash
<1>4. ASSUME NEW phase \in Releasing, Resume(p, phase)
      PROVE  TypeOK'
  <2>1. OperatorsOK'
    BY <1>4 DEF TypeOK, StoreOK, OperatorsOK, Resume, Goto, Phases, Preparing, Releasing
  <2>2. QED
    BY <1>4, <2>1 DEF TypeOK, StoreOK, DirOK, Resume
<1>5. QED
  BY <1>1, <1>2, <1>3, <1>4 DEF Cleanup, Recover, Abort, Releasing

LEMMA EditsTyped ==
  ASSUME TypeOK, EditBetween \/ EditDuring
  PROVE  TypeOK'
<1>1. OperatorsOK'
  BY DEF TypeOK, OperatorsOK, EditBetween, EditDuring
<1>2. alias' \in AliasStates
  BY DEF TypeOK, StoreOK, EditBetween, EditDuring, AliasStates
<1>3. FilesOK(file')
  <2>1. CASE file' = [file EXCEPT !["fixture"].version = None] /\ file["fixture"] # None
    <3> DEFINE fixture == [file["fixture"] EXCEPT !.version = None]
    <3>1. fixture \in Fixtures
      BY <2>1 DEF TypeOK, StoreOK, FilesOK, Fixtures, MaybeVersion
    <3>2. file' = [file EXCEPT !["fixture"] = fixture]
      BY <2>1
    <3>3. FilesOK(file)
      BY DEF TypeOK, StoreOK
    <3>4. QED
      BY <3>1, <3>2, <3>3 DEF FilesOK, Keys
  <2>2. CASE \E k \in Keys : file' = [file EXCEPT ![k] = dir.backup[k]]
    <3>1. PICK k \in Keys : file' = [file EXCEPT ![k] = dir.backup[k]]
      BY <2>2
    <3>2. FilesOK(file) /\ FilesOK(dir.backup)
      BY DEF TypeOK, StoreOK, DirOK
    <3>3. FilesOK([file EXCEPT ![k] = dir.backup[k]])
      BY <3>2, OneFileReplaced
    <3>4. QED
      BY <3>1, <3>3
  <2>3. CASE UNCHANGED file
    BY <2>3 DEF TypeOK, StoreOK
  <2>4. QED
    BY <2>1, <2>2, <2>3 DEF EditBetween, EditDuring
<1>4. DirOK' /\ (journal' = None \/ JournalOK(journal'))
  BY DEF TypeOK, StoreOK, DirOK, EditBetween, EditDuring
<1>5. crashes' \in 0..MaxCrashes
  BY DEF TypeOK, StoreOK, EditBetween, EditDuring
<1>6. edited' \in BOOLEAN
  BY DEF TypeOK, StoreOK, EditBetween, EditDuring
<1>7. QED
  BY <1>1, <1>2, <1>3, <1>4, <1>5, <1>6 DEF TypeOK, StoreOK

LEMMA NextTyped ==
  TypeOK /\ [Next]_vars => TypeOK'
<1> SUFFICES ASSUME TypeOK, [Next]_vars PROVE TypeOK'
  OBVIOUS
<1>1. CASE \E p \in Operators : \/ Begin(p) \/ Step(p) \/ PrepareFails(p)
                                \/ Recover(p) \/ Abort(p) \/ Crash(p)
  BY <1>1, BeginTyped, PrepareTyped, FinishTyped, UndoTyped, OtherStepsTyped DEF Step
<1>2. CASE EditBetween \/ EditDuring
  BY <1>2, EditsTyped
<1>3. CASE UNCHANGED vars
  BY <1>3 DEF TypeOK, StoreOK, DirOK, OperatorsOK, vars
<1>4. QED
  BY <1>1, <1>2, <1>3 DEF Next

\* Type correctness, however many operators run promote.py at the same time.
THEOREM TypeCorrect == Spec => []TypeOK
BY InitTyped, NextTyped, PTL DEF Spec

=============================================================================
