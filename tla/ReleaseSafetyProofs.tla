-------------------------- MODULE ReleaseSafetyProofs --------------------------
(***************************************************************************)
(* What one operator's release transaction keeps true, through crashes and *)
(* hand edits: the inductive invariant and the theorems that follow.       *)
(***************************************************************************)
EXTENDS ReleaseProofs, SequenceTheorems

\* promote.py is run by one person from one working tree.
OneOperator == \A p, q \in Operators : p = q

-----------------------------------------------------------------------------
(* The inductive invariant *)

\* The files tell one release, in a log without a gap.
Recorded(f) == Logged(f) /\ Chain(LogOf(f))

Complete(f) == \A k \in Keys : f[k] # None

\* Nothing in progress: one release.
FinishedInv ==
  journal = None => Recorded(file) /\ (edited \/ Consistent(alias, file))

\* In progress: what recover needs to finish and abort to undo, and both ends
\* of the operation are one release.
JournalInv ==
  journal # None =>
    /\ dir.exists
    /\ \A k \in Keys : dir.staged[k] \in {None, journal.sha[k]}
    /\ \A k \in Keys : journal.existed[k] <=> dir.backup[k] # None
    /\ Recorded(journal.sha) /\ Consistent(journal.after, journal.sha)
    /\ Recorded(dir.backup)
    /\ edited \/ Consistent(journal.before, dir.backup)
    /\ file["log"] \in {dir.backup["log"], journal.sha["log"]}

\* A preparing process: nothing is committed, the plan leads to one release,
\* and what it has staged and set aside is what that plan and the files say.
PrepareInv(p) ==
  /\ pc[p] \in Preparing \cup {"clean"} => journal = None
  /\ pc[p] \in Preparing \cup {"idle"} => at[p] = 1
  /\ pc[p] \in Preparing \ {"clear"} => dir.exists
  /\ pc[p] \in Preparing =>
       \A pl \in Platforms :
         LET f == NewFiles(job[p], pl, file)
         IN Complete(f) => Recorded(f) /\ Consistent(job[p].after, f)
  /\ pc[p] \in {"backup", "journal"} =>
       \E pl \in Platforms : dir.staged = NewFiles(job[p], pl, file)
  /\ pc[p] = "journal" => dir.backup = file

\* The release steps before step n have taken effect: aliases a, files f.
StepsDone(n, a, f) ==
  /\ \A i \in AliasSteps : i < n => alias[StepOf[i]] = a[StepOf[i]]
  /\ \A i \in FileSteps : i < n => file[StepOf[i]] = f[StepOf[i]]

\* A releasing process: it works from the journal, and every step it has
\* passed has taken effect.
ReleaseInv(p) ==
  /\ pc[p] \in Releasing => journal # None /\ job[p] = journal
  /\ pc[p] = "forward" => StepsDone(at[p], journal.after, journal.sha)
  /\ pc[p] = "back" => StepsDone(at[p], journal.before, dir.backup)

IInv ==
  /\ TypeOK
  /\ FinishedInv
  /\ JournalInv
  /\ \A p \in Operators : PrepareInv(p) /\ ReleaseInv(p)

-----------------------------------------------------------------------------
(* A command that starts from one release leads to one release *)

\* Appending a row that starts where the log ends keeps the chain.
LEMMA ChainGrows ==
  ASSUME NEW log \in Seq(Rows), Chain(log), NEW row \in Rows,
         row.from = IF log = <<>> THEN None ELSE log[Len(log)].to
  PROVE  Chain(Append(log, row))
<1>1. /\ Len(log) \in Nat
      /\ Len(Append(log, row)) = Len(log) + 1
      /\ \A i \in 1..Len(log) : Append(log, row)[i] = log[i]
      /\ Append(log, row)[Len(log) + 1] = row
  BY AppendProperties, LenProperties
<1>2. log = <<>> <=> Len(log) = 0
  BY EmptySeq
<1> SUFFICES ASSUME NEW i \in 1..Len(log) + 1
             PROVE  Append(log, row)[i].from =
                      IF i = 1 THEN None ELSE Append(log, row)[i - 1].to
  BY <1>1 DEF Chain
<1>3. CASE i = Len(log) + 1
  BY <1>1, <1>2, <1>3
<1>4. CASE i \in 1..Len(log)
  BY <1>1, <1>4 DEF Chain
<1>5. QED
  BY <1>1, <1>3, <1>4

\* The record a plan writes, given that its row (when it adds one) starts from
\* the champion of the record it found, and that a refresh keeps that record.
LEMMA PlanLeadsToOneRelease ==
  ASSUME NEW f, FilesOK(f), Recorded(f), NEW plan \in Plans, NEW pl \in Platforms,
         plan.after["champion"] = plan.version,
         plan.action # "refresh" =>
           plan.previous = IF f["champion"] = None THEN None ELSE f["champion"].version,
         plan.action = "refresh" =>
           /\ f["champion"] # None
           /\ plan.version = f["champion"].version
           /\ plan.previous = f["champion"].previous
           /\ plan.recorded = f["champion"].action,
         Complete(NewFiles(plan, pl, f))
  PROVE  /\ Recorded(NewFiles(plan, pl, f))
         /\ Consistent(plan.after, NewFiles(plan, pl, f))
<1> DEFINE g == NewFiles(plan, pl, f)
           log == LogOf(f)
           fixture == [version |-> plan.version, platform |-> pl]
           row == [action |-> plan.recorded, from |-> plan.previous, to |-> plan.version]
<1>1. /\ g["champion"] = [version |-> plan.version, previous |-> plan.previous,
                          action |-> plan.recorded, fixture |-> fixture]
      /\ g["meta"] = plan.version
      /\ g["fixture"] = fixture
      /\ g["log"] = IF plan.action = "refresh" THEN log ELSE Append(log, row)
  BY DEF NewFiles, NewFile, Keys
<1>2. g["champion"] # None /\ LogOf(g) = g["log"]
  BY DEF Complete, Keys, LogOf
<1>3. log \in Seq(Rows) /\ Chain(log) /\ Logged(f)
  BY LogIsTyped DEF Recorded
<1>4. row \in Rows
  BY DEF Rows, Plans
<1>5. /\ LogOf(g) # <<>>
      /\ LogOf(g)[Len(LogOf(g))] = row
      /\ Chain(LogOf(g))
  <2>1. CASE plan.action = "refresh"
    BY <1>1, <1>2, <1>3, <2>1 DEF Logged
  <2>2. CASE plan.action # "refresh"
    <3>1. Append(log, row)[Len(Append(log, row))] = row /\ Append(log, row) # <<>>
      BY <1>3, <1>4, AppendProperties, LenProperties, EmptySeq
    <3>2. plan.previous = IF log = <<>> THEN None ELSE log[Len(log)].to
      BY <1>3, <2>2 DEF Logged
    <3>3. Chain(Append(log, row))
      BY <1>3, <1>4, <3>2, ChainGrows
    <3>4. QED
      BY <1>1, <1>2, <2>2, <3>1, <3>3
  <2>3. QED
    BY <2>1, <2>2
<1>6. Logged(g)
  BY <1>1, <1>2, <1>5 DEF Logged
<1>7. Consistent(plan.after, g)
  BY <1>1, <1>2 DEF Consistent, AliasMatches, FixtureMatches
<1>8. QED
  BY <1>5, <1>6, <1>7 DEF Recorded

-----------------------------------------------------------------------------
(* The steps keep the invariant *)

\* What is said of the one operator is said of every operator.
LEMMA SaidOfTheOperator ==
  ASSUME OneOperator, NEW p \in Operators,
         TypeOK', FinishedInv', JournalInv', PrepareInv(p)', ReleaseInv(p)'
  PROVE  IInv'
<1>1. \A q \in Operators : q = p
  BY DEF OneOperator
<1>2. QED
  BY <1>1 DEF IInv

\* A step that leaves the record and the transaction's directory alone.
LEMMA RecordKept ==
  ASSUME FinishedInv, JournalInv, UNCHANGED <<alias, file, dir, journal, edited>>
  PROVE  FinishedInv' /\ JournalInv'
BY DEF FinishedInv, JournalInv

\* A process that ends or dies has nothing left to be said of.
LEMMA LeaveInv ==
  ASSUME TypeOK, NEW p \in Operators, Leave(p)
  PROVE  PrepareInv(p)' /\ ReleaseInv(p)'
<1>1. pc'[p] = "idle" /\ at'[p] = 1
  BY DEF TypeOK, OperatorsOK, Leave, Goto
<1>2. QED
  BY <1>1 DEF PrepareInv, ReleaseInv, Preparing, Releasing

LEMMA InitInv == Init => IInv
<1> SUFFICES ASSUME Init PROVE IInv
  OBVIOUS
<1>1. TypeOK
  BY InitTyped
<1>2. Recorded(file) /\ Consistent(alias, file)
  <2>1. CASE alias = NoAliases /\ file = NoFiles
    BY <2>1, EmptySeq DEF NoAliases, NoFiles, Aliases, Keys, Recorded, Logged, Chain,
         LogOf, Consistent, AliasMatches, FixtureMatches
  <2>2. ASSUME NEW v \in Versions,
               alias = [NoAliases EXCEPT !["champion"] = v],
               file = LegacyFiles(v)
        PROVE  Recorded(file) /\ Consistent(alias, file)
    <3> DEFINE row == [action |-> "promote", from |-> None, to |-> v]
               champion == [version |-> v, previous |-> None,
                            action |-> "promote", fixture |-> None]
    <3>1. file["champion"] = champion /\ file["log"] = <<row>>
          /\ alias["champion"] = v
      BY <2>2 DEF LegacyFiles, Keys, NoAliases, Aliases
    <3>2. <<row>> \in Seq(Rows) /\ FilesOK(file)
      BY <1>1 DEF Rows, MaybeVersion, TypeOK, StoreOK
    <3>3. champion # None /\ <<row>> # None
      <4>1. champion \in Champions
        BY DEF Champions, MaybeVersion
      <4>2. QED
        BY <3>2, <4>1, DataAssumption
    <3>4. QED
      BY <3>1, <3>2, <3>3 DEF Recorded, Logged, Chain, LogOf, Consistent,
         AliasMatches, FixtureMatches
  <2>3. QED
    BY <2>1, <2>2 DEF Init, StartingRecord
<1>3. QED
  BY <1>1, <1>2 DEF Init, IInv, FinishedInv, JournalInv, PrepareInv, ReleaseInv,
     Preparing, Releasing

\* A command that starts from one release has a plan that leads to one.
LEMMA BeginInv ==
  ASSUME OneOperator, IInv, NEW p \in Operators, Begin(p)
  PROVE  IInv'
<1>1. TypeOK'
  BY BeginTyped DEF IInv
<1>2. journal = None /\ pc[p] = "idle" /\ FilesOK(file) /\ Recorded(file)
  BY DEF IInv, TypeOK, StoreOK, FinishedInv, Begin, Promote, Rollback, Refresh,
     NotInProgress, Start
<1>3. PICK plan \in Plans :
        /\ Start(p, plan)
        /\ plan.after["champion"] = plan.version
        /\ plan.action # "refresh" =>
             plan.previous =
               IF file["champion"] = None THEN None ELSE file["champion"].version
        /\ plan.action = "refresh" =>
             /\ file["champion"] # None
             /\ plan.version = file["champion"].version
             /\ plan.previous = file["champion"].previous
             /\ plan.recorded = file["champion"].action
  <2>1. ASSUME NEW v \in Versions, Promote(p, v)
        PROVE  /\ PromotePlan(v, alias, file) \in Plans
               /\ Start(p, PromotePlan(v, alias, file))
    BY <2>1, PlansAreTyped DEF IInv, TypeOK, StoreOK, Promote
  <2>2. ASSUME Rollback(p)
        PROVE  /\ RollbackPlan(file) \in Plans
               /\ Start(p, RollbackPlan(file))
               /\ file["champion"] # None
    BY <2>2, PlansAreTyped DEF IInv, TypeOK, StoreOK, Rollback
  <2>3. ASSUME Refresh(p)
        PROVE  /\ RefreshPlan(alias, file) \in Plans
               /\ Start(p, RefreshPlan(alias, file))
               /\ file["champion"] # None
               /\ alias["champion"] = file["champion"].version
    BY <2>3, PlansAreTyped DEF IInv, TypeOK, StoreOK, Refresh, AliasMatches
  <2>4. CASE \E v \in Versions : Promote(p, v)
    BY <2>1, <2>4 DEF PromotePlan, Aliases
  <2>5. CASE Rollback(p)
    BY <2>2, <2>5 DEF RollbackPlan, Aliases
  <2>6. CASE Refresh(p)
    BY <2>3, <2>6 DEF RefreshPlan, Aliases
  <2>7. QED
    BY <2>4, <2>5, <2>6 DEF Begin
<1>4. \A pl \in Platforms :
        Complete(NewFiles(plan, pl, file)) =>
          /\ Recorded(NewFiles(plan, pl, file))
          /\ Consistent(plan.after, NewFiles(plan, pl, file))
  BY <1>2, <1>3, PlanLeadsToOneRelease
<1>5. FinishedInv' /\ JournalInv'
  BY <1>3, RecordKept DEF IInv, Start
<1>6. pc'[p] = "clear" /\ job'[p] = plan /\ at'[p] = 1 /\ journal' = None /\ file' = file
  BY <1>2, <1>3 DEF IInv, TypeOK, OperatorsOK, PrepareInv, Start, Goto
<1>7. PrepareInv(p)'
  BY <1>4, <1>6 DEF PrepareInv, Preparing
<1>8. ReleaseInv(p)'
  BY <1>6 DEF ReleaseInv, Releasing
<1>9. QED
  BY <1>1, <1>5, <1>7, <1>8, SaidOfTheOperator

\* A journal that was written exists.
LEMMA JournalIsSomething ==
  ASSUME TypeOK, NEW p \in Operators, job[p] \in Plans, WriteJournal(p)
  PROVE  journal' # None
<1>1. FilesOK(dir.staged) /\ alias \in AliasStates
  BY DEF TypeOK, StoreOK, DirOK
<1>2. dir.staged \in FileStates
  <2>1. /\ dir.staged = [k \in Keys |-> dir.staged[k]]
        /\ \A k \in Keys : dir.staged[k] \in Champions \cup MaybeVersion
                                            \cup Fixtures \cup Seq(Rows)
    BY <1>1 DEF FilesOK, Keys, MaybeVersion
  <2>2. QED
    BY <2>1 DEF FileStates
<1>3. journal' \in Journals
  BY <1>1, <1>2 DEF WriteJournal, Journals, Plans
<1>4. QED
  BY <1>3, TransactionAssumption

\* Preparing stages what the plan says, sets the files aside and commits both.
LEMMA PrepareStepInv ==
  ASSUME OneOperator, IInv, NEW p \in Operators, Prepare(p)
  PROVE  IInv'
<1>1. TypeOK'
  BY PrepareTyped DEF IInv
<1>2. /\ TypeOK /\ PrepareInv(p) /\ FinishedInv
      /\ pc[p] \in Preparing /\ journal = None
  BY DEF IInv, PrepareInv, Prepare, ClearStaging, StageFiles, BackupFiles,
     WriteJournal, Preparing
<1>3. ASSUME UNCHANGED <<alias, file, edited>>, journal' = None
      PROVE  FinishedInv' /\ JournalInv'
  BY <1>2, <1>3 DEF FinishedInv, JournalInv
<1>4. CASE ClearStaging(p)
  <2>1. pc'[p] = "stage" /\ dir'.exists
    BY <1>2, <1>4 DEF ClearStaging, Goto, TypeOK, OperatorsOK, NoDir
  <2>2. PrepareInv(p)' /\ ReleaseInv(p)'
    BY <1>2, <1>4, <2>1 DEF ClearStaging, PrepareInv, ReleaseInv, Preparing, Releasing
  <2>3. QED
    BY <1>1, <1>3, <1>4, <2>2, SaidOfTheOperator DEF ClearStaging
<1>5. CASE StageFiles(p)
  <2>1. PICK pl \in Platforms : dir' = [dir EXCEPT !.staged = NewFiles(job[p], pl, file)]
    BY <1>5 DEF StageFiles
  <2>2. /\ pc'[p] = "backup"
        /\ dir'.staged = NewFiles(job[p], pl, file)
        /\ dir'.exists = dir.exists
    BY <1>2, <1>5, <2>1 DEF StageFiles, Goto, TypeOK, StoreOK, OperatorsOK, DirOK
  <2>3. PrepareInv(p)' /\ ReleaseInv(p)'
    BY <1>2, <1>5, <2>2 DEF StageFiles, PrepareInv, ReleaseInv, Preparing, Releasing
  <2>4. QED
    BY <1>1, <1>2, <1>3, <1>5, <2>3, SaidOfTheOperator DEF StageFiles
<1>6. CASE BackupFiles(p)
  <2>1. /\ pc'[p] = "journal"
        /\ dir'.staged = dir.staged
        /\ dir'.backup = file
        /\ dir'.exists = dir.exists
    BY <1>2, <1>6 DEF BackupFiles, Goto, TypeOK, StoreOK, OperatorsOK, DirOK
  <2>2. PrepareInv(p)' /\ ReleaseInv(p)'
    BY <1>2, <1>6, <2>1 DEF BackupFiles, PrepareInv, ReleaseInv, Preparing, Releasing
  <2>3. QED
    BY <1>1, <1>2, <1>3, <1>6, <2>2, SaidOfTheOperator DEF BackupFiles
<1>7. CASE WriteJournal(p)
  <2>1. PICK pl \in Platforms : dir.staged = NewFiles(job[p], pl, file)
    BY <1>2, <1>7 DEF WriteJournal, PrepareInv
  <2>2. /\ pc'[p] = "forward" /\ at'[p] = 1 /\ job'[p] = journal'
        /\ dir.exists /\ dir.backup = file /\ Complete(dir.staged)
    BY <1>2, <1>7 DEF WriteJournal, Goto, PrepareInv, TypeOK, OperatorsOK, Complete,
       Preparing
  <2>3. /\ journal'.before = alias /\ journal'.after = job[p].after
        /\ journal'.sha = dir.staged
        /\ \A k \in Keys : journal'.existed[k] <=> dir.backup[k] # None
        /\ journal' # None
    <3>1. journal' # None
      BY <1>2, <1>7, JournalIsSomething DEF TypeOK, OperatorsOK
    <3>2. QED
      BY <1>7, <3>1 DEF WriteJournal
  <2>4. Recorded(dir.staged) /\ Consistent(job[p].after, dir.staged)
    BY <1>2, <2>1, <2>2 DEF PrepareInv
  <2>5. Recorded(file) /\ (edited \/ Consistent(alias, file))
    BY <1>2 DEF FinishedInv
  <2>6. UNCHANGED <<alias, file, dir, edited>>
    BY <1>7 DEF WriteJournal
  <2>7. JournalInv'
    BY <2>2, <2>3, <2>4, <2>5, <2>6 DEF JournalInv
  <2>8. FinishedInv'
    BY <2>3 DEF FinishedInv
  <2>9. PrepareInv(p)'
    BY <2>2 DEF PrepareInv, Preparing
  <2>10. ReleaseInv(p)'
    BY <2>2, <2>3 DEF ReleaseInv, Releasing, StepsDone, AliasSteps, FileSteps
  <2>11. QED
    BY <1>1, <2>7, <2>8, <2>9, <2>10, SaidOfTheOperator
<1>8. QED
  BY <1>4, <1>5, <1>6, <1>7 DEF Prepare

\* The steps name each alias and each file once.
LEMMA StepsAreDistinct ==
  /\ \A i, j \in AliasSteps : StepOf[i] = StepOf[j] => i = j
  /\ \A i, j \in FileSteps : StepOf[i] = StepOf[j] => i = j
BY DEF AliasSteps, FileSteps, StepOf

\* Passing an alias step adds that alias to the steps done.
LEMMA AliasStepDone ==
  ASSUME TypeOK, NEW p \in Operators, NEW a \in AliasStates, NEW f,
         StepsDone(at[p], a, f), SetAlias(p, a)
  PROVE  StepsDone(at[p], a, f)' /\ UNCHANGED <<file, dir, journal, edited, pc, job>>
<1>1. /\ at[p] \in AliasSteps /\ at'[p] = at[p] + 1
      /\ alias' = [alias EXCEPT ![StepOf[at[p]]] = a[StepOf[at[p]]]]
      /\ UNCHANGED <<file, dir, journal, edited, pc, job>>
  BY DEF SetAlias, Advance, TypeOK, OperatorsOK
<1>2. ASSUME NEW i \in AliasSteps, i < at'[p]
      PROVE  alias'[StepOf[i]] = a[StepOf[i]]
  <2>1. StepOf[i] \in Aliases
    BY StepsNameAliasesAndFiles
  <2>2. alias' = [alias EXCEPT ![StepOf[at[p]]] = a[StepOf[at[p]]]]
        /\ DOMAIN alias = Aliases
    BY <1>1 DEF TypeOK, StoreOK, AliasStates
  <2>3. CASE i = at[p]
    BY <2>1, <2>2, <2>3
  <2>4. CASE i < at[p]
    BY <1>1, <2>1, <2>2, <2>4, StepsAreDistinct DEF StepsDone, AliasSteps
  <2>5. QED
    BY <1>1, <1>2, <2>3, <2>4 DEF AliasSteps
<1>3. \A i \in FileSteps : ~(i < at'[p])
  BY <1>1 DEF AliasSteps, FileSteps
<1>4. QED
  BY <1>1, <1>2, <1>3 DEF StepsDone

\* Passing a file step, with that file as it should be, adds it to the steps done.
LEMMA FileStepDone ==
  ASSUME TypeOK, NEW p \in Operators, NEW a, NEW f,
         StepsDone(at[p], a, f), at[p] \in FileSteps, Advance(p), UNCHANGED alias,
         \/ file' = [file EXCEPT ![StepOf[at[p]]] = f[StepOf[at[p]]]]
         \/ file' = file /\ file[StepOf[at[p]]] = f[StepOf[at[p]]]
  PROVE  StepsDone(at[p], a, f)'
<1>1. at'[p] = at[p] + 1
  BY DEF Advance, TypeOK, OperatorsOK
<1>2. ASSUME NEW i \in AliasSteps, i < at'[p]
      PROVE  alias'[StepOf[i]] = a[StepOf[i]]
  BY <1>2 DEF StepsDone, AliasSteps, FileSteps
<1>3. ASSUME NEW i \in FileSteps, i < at'[p]
      PROVE  file'[StepOf[i]] = f[StepOf[i]]
  <2>1. StepOf[i] \in Keys /\ DOMAIN file = Keys
    BY StepsNameAliasesAndFiles DEF TypeOK, StoreOK, FilesOK
  <2>2. CASE i = at[p]
    BY <2>1, <2>2
  <2>3. CASE i < at[p]
    BY <2>1, <2>3, StepsAreDistinct DEF StepsDone, FileSteps
  <2>4. QED
    BY <1>1, <1>3, <2>2, <2>3 DEF FileSteps
<1>4. QED
  BY <1>2, <1>3 DEF StepsDone

\* Changing one file to what it was before or will be after keeps the journal's
\* account, and so does taking that file out of staging.
LEMMA JournalKept ==
  ASSUME TypeOK, JournalInv, journal # None, UNCHANGED <<journal, edited>>,
         dir'.exists = dir.exists, dir'.backup = dir.backup,
         \A j \in Keys : dir'.staged[j] \in {None, dir.staged[j]},
         file'["log"] \in {file["log"], dir.backup["log"], journal.sha["log"]}
  PROVE  FinishedInv' /\ JournalInv'
<1>1. FinishedInv'
  BY DEF FinishedInv
<1>2. edited \/ Consistent(journal.before, dir.backup)
  BY DEF JournalInv
<1>3. edited' \/ Consistent(journal'.before, dir'.backup)
  BY <1>2
<1>4. JournalInv'
  BY <1>3 DEF JournalInv
<1>5. QED
  BY <1>1, <1>4

\* Rolling forward keeps every step done and the journal's account.
LEMMA FinishInv ==
  ASSUME OneOperator, IInv, NEW p \in Operators, Finish(p)
  PROVE  IInv'
<1>1. TypeOK'
  BY FinishTyped DEF IInv
<1>2. /\ TypeOK /\ FinishedInv /\ JournalInv /\ pc[p] = "forward"
      /\ journal # None /\ job[p] = journal
      /\ StepsDone(at[p], journal.after, journal.sha)
  BY DEF IInv, ReleaseInv, Finish, AliasForward, Install, CannotFinish, Releasing
<1>3. JournalOK(journal) /\ FilesOK(dir.staged) /\ FilesOK(file)
  BY <1>2 DEF TypeOK, StoreOK, DirOK
<1>4. CASE AliasForward(p)
  <2>1. /\ StepsDone(at[p], journal.after, journal.sha)'
        /\ UNCHANGED <<file, dir, journal, edited, pc, job>>
    BY <1>2, <1>3, <1>4, AliasStepDone DEF AliasForward, JournalOK
  <2>2. PrepareInv(p)' /\ ReleaseInv(p)'
    BY <1>2, <2>1 DEF PrepareInv, ReleaseInv, Preparing, Releasing
  <2>3. FinishedInv' /\ JournalInv'
    <3>1. /\ dir'.exists = dir.exists /\ dir'.backup = dir.backup
          /\ \A j \in Keys : dir'.staged[j] \in {None, dir.staged[j]}
          /\ file'["log"] = file["log"]
      BY <2>1
    <3>2. QED
      BY <1>2, <2>1, <3>1, JournalKept
  <2>4. QED
    BY <1>1, <2>2, <2>3, SaidOfTheOperator
<1>5. CASE Install(p)
  <2> DEFINE k == StepOf[at[p]]
  <2>1. k \in Keys /\ dir.staged[k] \in {None, journal.sha[k]}
    BY <1>2, <1>5, StepsNameAliasesAndFiles DEF Install, JournalInv
  <2>2. \/ file' = [file EXCEPT ![k] = journal.sha[k]]
        \/ file' = file /\ file[k] = journal.sha[k]
    BY <1>2, <1>5, <2>1 DEF Install
  <2>3. StepsDone(at[p], journal.after, journal.sha)'
    <3>1. at[p] \in FileSteps /\ Advance(p) /\ alias' = alias /\ journal' = journal
      BY <1>5 DEF Install
    <3>2. QED
      BY <1>2, <2>2, <3>1, FileStepDone
  <2>4. /\ UNCHANGED <<journal, edited, pc, job>>
        /\ dir'.exists = dir.exists /\ dir'.backup = dir.backup
        /\ \A j \in Keys : dir'.staged[j] \in {None, dir.staged[j]}
    <3>1. UNCHANGED <<journal, edited, pc, job>>
      BY <1>5 DEF Install
    <3>2. dir' = dir \/ dir' = [dir EXCEPT !.staged = [dir.staged EXCEPT ![k] = None]]
      BY <1>2, <1>5 DEF Install, TypeOK, StoreOK, DirOK
    <3>3. DOMAIN dir.staged = Keys
      BY <1>3 DEF FilesOK
    <3>4. CASE dir' = dir
      BY <3>1, <3>4
    <3>5. CASE dir' = [dir EXCEPT !.staged = [dir.staged EXCEPT ![k] = None]]
      BY <1>2, <2>1, <3>1, <3>3, <3>5 DEF TypeOK, StoreOK, DirOK
    <3>6. QED
      BY <3>2, <3>4, <3>5
  <2>5. file'["log"] \in {file["log"], journal.sha["log"]}
    BY <1>3, <2>1, <2>2 DEF FilesOK, Keys
  <2>6. FinishedInv' /\ JournalInv'
    BY <1>2, <2>4, <2>5, JournalKept
  <2>7. PrepareInv(p)' /\ ReleaseInv(p)'
    BY <1>2, <2>3, <2>4 DEF PrepareInv, ReleaseInv, Preparing, Releasing
  <2>8. QED
    BY <1>1, <2>6, <2>7, SaidOfTheOperator
<1>6. CASE CannotFinish(p)
  <2>1. FinishedInv' /\ JournalInv'
    BY <1>2, <1>6, RecordKept DEF CannotFinish
  <2>2. QED
    BY <1>1, <1>2, <1>6, <2>1, LeaveInv, SaidOfTheOperator DEF CannotFinish
<1>7. QED
  BY <1>4, <1>5, <1>6 DEF Finish

\* Rolling back keeps every step undone and the journal's account.
LEMMA UndoInv ==
  ASSUME OneOperator, IInv, NEW p \in Operators, Undo(p)
  PROVE  IInv'
<1>1. TypeOK'
  BY UndoTyped DEF IInv
<1>2. /\ TypeOK /\ FinishedInv /\ JournalInv /\ pc[p] = "back"
      /\ journal # None /\ job[p] = journal
      /\ StepsDone(at[p], journal.before, dir.backup)
  BY DEF IInv, ReleaseInv, Undo, AliasBack, Restore, Releasing
<1>3. JournalOK(journal) /\ FilesOK(dir.backup) /\ FilesOK(file)
  BY <1>2 DEF TypeOK, StoreOK, DirOK
<1>4. CASE AliasBack(p)
  <2>1. /\ StepsDone(at[p], journal.before, dir.backup)'
        /\ UNCHANGED <<file, dir, journal, edited, pc, job>>
    BY <1>2, <1>3, <1>4, AliasStepDone DEF AliasBack, JournalOK
  <2>2. PrepareInv(p)' /\ ReleaseInv(p)'
    BY <1>2, <2>1 DEF PrepareInv, ReleaseInv, Preparing, Releasing
  <2>3. FinishedInv' /\ JournalInv'
    <3>1. /\ dir'.exists = dir.exists /\ dir'.backup = dir.backup
          /\ \A j \in Keys : dir'.staged[j] \in {None, dir.staged[j]}
          /\ file'["log"] = file["log"]
      BY <2>1
    <3>2. QED
      BY <1>2, <2>1, <3>1, JournalKept
  <2>4. QED
    BY <1>1, <2>2, <2>3, SaidOfTheOperator
<1>5. CASE Restore(p)
  <2> DEFINE k == StepOf[at[p]]
  <2>1. k \in Keys /\ (journal.existed[k] <=> dir.backup[k] # None)
    BY <1>2, <1>5, StepsNameAliasesAndFiles DEF Restore, JournalInv
  <2>2. file' = [file EXCEPT ![k] = dir.backup[k]]
    <3>1. CASE journal.existed[k]
      BY <1>2, <1>5, <3>1 DEF Restore
    <3>2. CASE ~journal.existed[k]
      BY <1>2, <1>5, <2>1, <3>2 DEF Restore
    <3>3. QED
      BY <3>1, <3>2
  <2>3. UNCHANGED <<alias, dir, journal, edited, pc, job>> /\ at[p] \in FileSteps /\ Advance(p)
    BY <1>5 DEF Restore
  <2>4. StepsDone(at[p], journal.before, dir.backup)'
    BY <1>2, <2>2, <2>3, FileStepDone
  <2>5. file'["log"] \in {file["log"], dir.backup["log"]}
    BY <1>3, <2>1, <2>2 DEF FilesOK, Keys
  <2>6. FinishedInv' /\ JournalInv'
    <3>1. /\ dir'.exists = dir.exists /\ dir'.backup = dir.backup
          /\ \A j \in Keys : dir'.staged[j] \in {None, dir.staged[j]}
      BY <2>3
    <3>2. QED
      BY <1>2, <2>3, <2>5, <3>1, JournalKept
  <2>7. PrepareInv(p)' /\ ReleaseInv(p)'
    BY <1>2, <2>3, <2>4 DEF PrepareInv, ReleaseInv, Preparing, Releasing
  <2>8. QED
    BY <1>1, <2>6, <2>7, SaidOfTheOperator
<1>6. QED
  BY <1>4, <1>5 DEF Undo

\* The journal that has been worked through to its last step says what the
\* record now is: its 'after' rolled forward, its 'before' rolled back.
LEMMA AllStepsDone ==
  ASSUME TypeOK, NEW a \in AliasStates, NEW f, FilesOK(f), StepsDone(Done, a, f)
  PROVE  alias = a /\ file = f
<1>1. alias["champion"] = a["champion"] /\ alias["challenger"] = a["challenger"]
  <2>1. \A i \in AliasSteps : alias[StepOf[i]] = a[StepOf[i]]
    BY DEF StepsDone, AliasSteps, Done
  <2>2. QED
    BY <2>1 DEF AliasSteps, StepOf
<1>2. \A k \in Keys : file[k] = f[k]
  <2>1. \A i \in FileSteps : file[StepOf[i]] = f[StepOf[i]]
    BY DEF StepsDone, FileSteps, Done
  <2>2. 3 \in FileSteps /\ 4 \in FileSteps /\ 5 \in FileSteps /\ 6 \in FileSteps
    BY DEF FileSteps
  <2>3. /\ StepOf[3] = "champion" /\ StepOf[4] = "fixture"
        /\ StepOf[5] = "log" /\ StepOf[6] = "meta"
    BY DEF StepOf
  <2>4. QED
    BY <2>1, <2>2, <2>3 DEF Keys
<1>3. alias = a
  BY <1>1 DEF TypeOK, StoreOK, AliasStates, Aliases
<1>4. file = f
  BY <1>2 DEF TypeOK, StoreOK, FilesOK
<1>5. QED
  BY <1>3, <1>4

\* The journal goes when one end of the operation has been reached.
LEMMA JournalGoesAtAnEnd ==
  ASSUME IInv, NEW p \in Operators, RemoveJournal(p)
  PROVE  \/ alias = journal.after /\ file = journal.sha
         \/ alias = journal.before /\ file = dir.backup
<1>1. /\ TypeOK /\ journal # None /\ at[p] = Done
      /\ pc[p] = "forward" => StepsDone(at[p], journal.after, journal.sha)
      /\ pc[p] = "back" => StepsDone(at[p], journal.before, dir.backup)
      /\ pc[p] \in {"forward", "back"}
  BY DEF IInv, ReleaseInv, RemoveJournal, Releasing
<1>2. /\ journal.after \in AliasStates /\ journal.before \in AliasStates
      /\ FilesOK(journal.sha) /\ FilesOK(dir.backup)
  BY <1>1 DEF TypeOK, StoreOK, DirOK, JournalOK
<1>3. QED
  BY <1>1, <1>2, AllStepsDone

LEMMA OtherStepsInv ==
  ASSUME OneOperator, IInv, NEW p \in Operators,
         Cleanup(p) \/ PrepareFails(p) \/ Crash(p) \/ Recover(p) \/ Abort(p)
  PROVE  IInv'
<1>1. TypeOK'
  BY OtherStepsTyped DEF IInv
<1>2. TypeOK /\ FinishedInv /\ JournalInv /\ PrepareInv(p) /\ ReleaseInv(p)
  BY DEF IInv
<1>3. CASE RemoveJournal(p)
  <2>1. /\ Recorded(journal.sha) /\ Consistent(journal.after, journal.sha)
        /\ Recorded(dir.backup)
    BY <1>2, <1>3 DEF RemoveJournal, JournalInv
  <2>2. edited \/ Consistent(journal.before, dir.backup)
    BY <1>2, <1>3 DEF RemoveJournal, JournalInv
  <2>3. Recorded(file) /\ (edited \/ Consistent(alias, file))
    BY <1>3, <2>1, <2>2, JournalGoesAtAnEnd
  <2>4. UNCHANGED <<alias, file, edited>> /\ journal' = None
    BY <1>3 DEF RemoveJournal
  <2>5. FinishedInv' /\ JournalInv'
    BY <2>3, <2>4 DEF FinishedInv, JournalInv
  <2>6. pc'[p] = "clean"
    BY <1>2, <1>3 DEF RemoveJournal, Goto, TypeOK, OperatorsOK
  <2>7. PrepareInv(p)' /\ ReleaseInv(p)'
    BY <2>4, <2>6 DEF PrepareInv, ReleaseInv, Preparing, Releasing
  <2>8. QED
    BY <1>1, <2>5, <2>7, SaidOfTheOperator
<1>4. CASE RemoveStaging(p) \/ PrepareFails(p)
  <2>1. journal = None /\ journal' = None /\ UNCHANGED <<alias, file, edited>> /\ Leave(p)
    BY <1>2, <1>4 DEF RemoveStaging, PrepareFails, PrepareInv, Preparing
  <2>2. FinishedInv' /\ JournalInv'
    BY <1>2, <2>1 DEF FinishedInv, JournalInv
  <2>3. QED
    BY <1>1, <1>2, <2>1, <2>2, LeaveInv, SaidOfTheOperator
<1>5. CASE Crash(p)
  <2>1. UNCHANGED <<alias, file, dir, journal, edited>> /\ Leave(p)
    BY <1>5 DEF Crash
  <2>2. QED
    BY <1>1, <1>2, <2>1, LeaveInv, RecordKept, SaidOfTheOperator
<1>6. ASSUME NEW phase \in Releasing, Resume(p, phase)
      PROVE  IInv'
  <2>1. /\ pc'[p] = phase /\ job'[p] = journal /\ at'[p] = 1 /\ journal # None
        /\ UNCHANGED <<alias, file, dir, journal, edited>>
    BY <1>2, <1>6 DEF Resume, Goto, PrepareInv, TypeOK, OperatorsOK
  <2>2. FinishedInv' /\ JournalInv'
    BY <1>2, <2>1, RecordKept
  <2>3. PrepareInv(p)' /\ ReleaseInv(p)'
    BY <2>1 DEF PrepareInv, ReleaseInv, Preparing, Releasing, StepsDone,
       AliasSteps, FileSteps
  <2>4. QED
    BY <1>1, <2>2, <2>3, SaidOfTheOperator
<1>7. QED
  BY <1>3, <1>4, <1>5, <1>6 DEF Cleanup, Recover, Abort, Releasing

\* Hand edits: of a finished record only the aliases and the fixture, of an
\* interrupted one the aliases and files that go back to what they were.
LEMMA EditsInv ==
  ASSUME IInv, EditBetween \/ EditDuring
  PROVE  IInv'
<1>1. TypeOK'
  BY EditsTyped DEF IInv
<1>2. TypeOK /\ FinishedInv /\ JournalInv
  BY DEF IInv
<1>3. ASSUME NEW p \in Operators
      PROVE  PrepareInv(p)' /\ ReleaseInv(p)'
  <2>1. pc'[p] = "idle" /\ at'[p] = 1
    BY DEF EditBetween, EditDuring, NobodyRuns, IInv, PrepareInv
  <2>2. QED
    BY <2>1 DEF PrepareInv, ReleaseInv, Preparing, Releasing
<1>4. CASE EditBetween
  <2>1. journal = None /\ journal' = None
    BY <1>4 DEF EditBetween
  <2>2. edited'
    BY <1>4 DEF EditBetween
  <2>3. /\ file'["champion"] = file["champion"]
        /\ file'["meta"] = file["meta"]
        /\ file'["log"] = file["log"]
    <3>1. CASE UNCHANGED file
      BY <3>1
    <3>2. CASE file' = [file EXCEPT !["fixture"].version = None]
      BY <1>2, <3>2 DEF TypeOK, StoreOK, FilesOK, Keys
    <3>3. QED
      BY <1>4, <3>1, <3>2 DEF EditBetween
  <2>4. Recorded(file)
    BY <1>2, <2>1 DEF FinishedInv
  <2>5. Recorded(file')
    BY <2>3, <2>4 DEF Recorded, Logged, LogOf
  <2>6. FinishedInv' /\ JournalInv'
    BY <2>1, <2>2, <2>5 DEF FinishedInv, JournalInv
  <2>7. QED
    BY <1>1, <1>3, <2>6 DEF IInv
<1>5. CASE EditDuring
  <2>1. journal # None /\ UNCHANGED <<dir, journal, edited>>
    BY <1>5 DEF EditDuring
  <2>2. file'["log"] \in {file["log"], dir.backup["log"]}
    BY <1>2, <1>5 DEF EditDuring, TypeOK, StoreOK, FilesOK, Keys
  <2>3. FinishedInv' /\ JournalInv'
    <3>1. /\ dir'.exists = dir.exists /\ dir'.backup = dir.backup
          /\ \A j \in Keys : dir'.staged[j] \in {None, dir.staged[j]}
      BY <2>1
    <3>2. QED
      BY <1>2, <2>1, <2>2, <3>1, JournalKept
  <2>4. QED
    BY <1>1, <1>3, <2>3 DEF IInv
<1>6. QED
  BY <1>4, <1>5

LEMMA NextInv ==
  ASSUME OneOperator
  PROVE  IInv /\ [Next]_vars => IInv'
<1> SUFFICES ASSUME IInv, [Next]_vars PROVE IInv'
  OBVIOUS
<1>1. CASE \E p \in Operators : \/ Begin(p) \/ Step(p) \/ PrepareFails(p)
                                \/ Recover(p) \/ Abort(p) \/ Crash(p)
  BY <1>1, BeginInv, PrepareStepInv, FinishInv, UndoInv, OtherStepsInv DEF Step
<1>2. CASE EditBetween \/ EditDuring
  BY <1>2, EditsInv
<1>3. CASE UNCHANGED vars
  <2>1. UNCHANGED <<alias, file, dir, journal, edited, pc, at, job>>
    BY <1>3 DEF vars
  <2>2. FinishedInv' /\ JournalInv'
    BY <2>1, RecordKept DEF IInv
  <2>3. \A p \in Operators : PrepareInv(p)' /\ ReleaseInv(p)'
    BY <2>1 DEF IInv, PrepareInv, ReleaseInv, StepsDone
  <2>4. TypeOK'
    BY <1>3, NextTyped DEF IInv
  <2>5. QED
    BY <2>2, <2>3, <2>4 DEF IInv
<1>4. QED
  BY <1>1, <1>2, <1>3 DEF Next

-----------------------------------------------------------------------------
(* The theorems *)

\* The inductive invariant holds for one operator.
THEOREM Invariant ==
  ASSUME OneOperator
  PROVE  Spec => []IInv
<1>1. OneOperator /\ IInv /\ [Next]_vars => IInv'
  BY NextInv
<1>2. QED
  BY <1>1, InitInv, PTL DEF Spec

\* registry.py leaves no torn release behind: whenever there is no journal, the
\* aliases and the four files tell one release (and the files do even after
\* the aliases or the fixture were edited by hand).
THEOREM RecordStaysWhole ==
  ASSUME OneOperator
  PROVE  Spec => []RecordIsWhole
<1>1. IInv => RecordIsWhole
  BY DEF IInv, FinishedInv, RecordIsWhole, Recorded
<1>2. QED
  BY <1>1, Invariant, PTL

\* promotions.md has no gap and no row of an undone operation, whatever a
\* crash, an abort or a repeated recovery did.
THEOREM LogStaysAChain ==
  ASSUME OneOperator
  PROVE  Spec => []LogIsAChain
<1>1. IInv => LogIsAChain
  <2> SUFFICES ASSUME IInv PROVE Chain(LogOf(file))
    BY DEF LogIsAChain
  <2>1. CASE journal = None
    BY <2>1 DEF IInv, FinishedInv, Recorded
  <2>2. CASE journal # None
    <3>1. /\ Chain(LogOf(journal.sha)) /\ Chain(LogOf(dir.backup))
          /\ file["log"] \in {dir.backup["log"], journal.sha["log"]}
      BY <2>2 DEF IInv, JournalInv, Recorded
    <3>2. QED
      BY <3>1 DEF LogOf
  <2>3. QED
    BY <2>1, <2>2
<1>2. QED
  BY <1>1, Invariant, PTL

\* Before its journal is written a command has changed neither an alias nor a
\* file, and after its journal is gone it changes none.
THEOREM NothingChangesBeforeJournal ==
  ASSUME OneOperator
  PROVE  Spec => NothingBeforeJournal
<1>1. IInv /\ [Next]_vars =>
        [journal = None /\ ~EditBetween => UNCHANGED <<alias, file>>]_vars
  <2> SUFFICES ASSUME IInv, Next, journal = None, ~EditBetween
               PROVE  UNCHANGED <<alias, file>>
    BY DEF vars
  <2>1. CASE \E p \in Operators : Step(p)
    <3>1. PICK p \in Operators : Step(p)
      BY <2>1
    <3>2. pc[p] \notin Releasing
      BY DEF IInv, ReleaseInv
    <3>3. CASE Prepare(p) \/ Cleanup(p)
      BY <3>3 DEF Prepare, ClearStaging, StageFiles, BackupFiles, WriteJournal,
         Cleanup, RemoveJournal, RemoveStaging
    <3>4. CASE Finish(p) \/ Undo(p)
      BY <3>2, <3>4 DEF Finish, AliasForward, Install, CannotFinish, Undo, AliasBack,
         Restore, Releasing
    <3>5. QED
      BY <3>1, <3>3, <3>4 DEF Step
  <2>2. CASE \E p \in Operators : Begin(p)
    BY <2>2 DEF Begin, Promote, Rollback, Refresh, Start
  <2>3. CASE \E p \in Operators : PrepareFails(p) \/ Recover(p) \/ Abort(p) \/ Crash(p)
    BY <2>3 DEF PrepareFails, Recover, Abort, Resume, Crash
  <2>4. ~EditDuring
    BY DEF EditDuring
  <2>5. QED
    BY <2>1, <2>2, <2>3, <2>4 DEF Next
<1>2. QED
  BY <1>1, Invariant, PTL DEF Spec, NothingBeforeJournal

\* A journal goes only with the operation it records finished or undone.
THEOREM JournalOutlivesItsOperation ==
  ASSUME OneOperator
  PROVE  Spec => JournalOutlivesOperation
<1>1. IInv /\ [Next]_vars =>
        [journal # None /\ journal' = None =>
           \/ alias = journal.after /\ file = journal.sha
           \/ alias = journal.before /\ file = dir.backup]_vars
  <2> SUFFICES ASSUME IInv, Next, journal # None, journal' = None
               PROVE  \/ alias = journal.after /\ file = journal.sha
                      \/ alias = journal.before /\ file = dir.backup
    BY DEF vars
  <2>1. PICK p \in Operators : RemoveJournal(p)
    <3>1. \A p \in Operators : pc[p] \notin Preparing \cup {"clean"}
      BY DEF IInv, PrepareInv
    <3>2. \A p \in Operators : ~Prepare(p) /\ ~PrepareFails(p) /\ ~RemoveStaging(p)
      BY <3>1 DEF Prepare, ClearStaging, StageFiles, BackupFiles, WriteJournal,
         PrepareFails, RemoveStaging, Preparing
    <3>3. \A p \in Operators :
            ~Begin(p) /\ ~Finish(p) /\ ~Undo(p) /\ ~Recover(p) /\ ~Abort(p) /\ ~Crash(p)
      BY DEF Begin, Promote, Rollback, Refresh, Start, Finish, AliasForward, Install,
         CannotFinish, Undo, AliasBack, Restore, SetAlias, Recover, Abort, Resume, Crash
    <3>4. ~EditBetween /\ ~EditDuring
      BY DEF EditBetween, EditDuring
    <3>5. QED
      BY <3>2, <3>3, <3>4 DEF Next, Step, Cleanup
  <2>2. QED
    BY <2>1, JournalGoesAtAnEnd
<1>2. QED
  BY <1>1, Invariant, PTL DEF Spec, JournalOutlivesOperation

=============================================================================
