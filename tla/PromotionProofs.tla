-------------------------- MODULE PromotionProofs --------------------------
(***************************************************************************)
(* Proofs about Promotion, for every set of models, trips, errors, slices  *)
(* and policies and any number of registration runs.                       *)
(***************************************************************************)
EXTENDS Promotion, SequenceTheorems, TLAPS

\* Every registration makes at most one version, of a run that is complete and
\* logged one dvc.lock.
Counted ==
    /\ Len(versions) <= Len(runs)
    /\ busy # None /\ busy.cmd = "register" => Len(versions) < Len(runs)

RunsTraceable ==
    /\ VersionIsTraceable
    /\ busy # None /\ busy.cmd = "register" => runs[busy.of].model = runs[busy.of].eval

\* What a recorded verdict that passes says, whatever happened since.
GateIsSound ==
    gate # None =>
        /\ gate.report # None /\ gate.report.version = gate.version
        /\ gate.slices # None /\ MAE(gate.slices) = MAE(gate.report.model)
        /\ MAE(gate.lock.eval) < SumAE(FallbackError, Trips)
        /\ Assess(gate.lock.eval, gate.slices, gate.policy)

BackupTyped ==
    /\ backup.pc \in {"start", "versions", "runs", "dump", "tar", "done"}
    /\ backup.tar \subseteq DOMAIN runs
    /\ DOMAIN backup = {"pc", "state", "dump", "tar"}

\* The artefacts of what was dumped were complete before the volume is read.
BackupSound ==
    /\ backup.pc \in {"tar", "done"} =>
         /\ backup.dump.versions \in Seq(DOMAIN runs)
         /\ \A v \in DOMAIN backup.dump.versions : runs[backup.dump.versions[v]].files
    /\ backup.pc = "done" => CheckArtefacts

IInv ==
    /\ TypeOK /\ Counted /\ RunsTraceable /\ GateIsSound
    /\ BackupTyped /\ BackupSound

-----------------------------------------------------------------------------
(* The registry only grows: runs keep what they logged, versions their runs.  *)

RunRecord == [model : Models, eval : Models, files : BOOLEAN]

Grown ==
    /\ runs' \in Seq(RunRecord) /\ versions' \in Seq(DOMAIN runs')
    /\ Len(runs) <= Len(runs') /\ Len(runs') \in RunIds
    /\ Len(versions) <= Len(versions')
    /\ \A r \in DOMAIN runs :
         /\ runs'[r].model = runs[r].model /\ runs'[r].eval = runs[r].eval
         /\ runs[r].files => runs'[r].files
    /\ \A v \in Version : versions'[v] = versions[v]

LEMMA SameRegistry ==
  ASSUME TypeOK, UNCHANGED <<runs, versions>>
  PROVE  Grown
  BY LenProperties DEF TypeOK, Grown, RunRecord, Version, RunIds

LEMMA RunLogged ==
  ASSUME TypeOK, RegisterRun
  PROVE  Grown /\ Len(runs') = Len(runs) + 1
<1> DEFINE r == [model |-> lock.model, eval |-> lock.eval, files |-> FALSE]
<1>1. /\ runs \in Seq(RunRecord) /\ r \in RunRecord /\ runs' = Append(runs, r)
      /\ versions' = versions /\ Len(runs) < MaxRuns /\ versions \in Seq(DOMAIN runs)
  BY DEF TypeOK, RegisterRun, RunRecord, Lock
<1> HIDE DEF r
<1>2. /\ runs' \in Seq(RunRecord) /\ Len(runs') = Len(runs) + 1
      /\ \A i \in 1..Len(runs) : runs'[i] = runs[i]
  BY <1>1, AppendProperties
<1>3. Len(runs) \in Nat /\ DOMAIN runs = 1..Len(runs) /\ DOMAIN runs' = 1..Len(runs')
  BY <1>1, <1>2, LenProperties
<1>4. DOMAIN runs \subseteq DOMAIN runs' /\ versions' \in Seq(DOMAIN runs')
  <2>1. DOMAIN runs \subseteq DOMAIN runs'
    BY <1>2, <1>3
  <2>2. QED
    BY <2>1, <1>1, SeqMonotonic
<1>5. Len(runs') \in RunIds /\ Len(versions') = Len(versions) /\ Len(versions) \in Nat
  BY <1>1, <1>2, <1>3, PromotionAssumption, LenProperties DEF RunIds
<1>6. QED
  BY <1>1, <1>2, <1>3, <1>4, <1>5 DEF Grown, Version

LEMMA ArtefactsLogged ==
  ASSUME TypeOK, RegisterArtefacts
  PROVE  /\ Grown /\ Len(runs') = Len(runs) /\ DOMAIN runs' = DOMAIN runs
         /\ \A r \in DOMAIN runs : runs'[r].model = runs[r].model /\ runs'[r].eval = runs[r].eval
<1>1. /\ runs \in Seq(RunRecord) /\ runs' = [runs EXCEPT ![busy.of].files = TRUE]
      /\ busy.of \in DOMAIN runs /\ versions' = versions /\ versions \in Seq(DOMAIN runs)
  BY DEF TypeOK, RegisterArtefacts, RunRecord, Ready, regVars
<1>2. Len(runs) \in Nat /\ DOMAIN runs = 1..Len(runs) /\ \A r \in DOMAIN runs : runs[r] \in RunRecord
  BY <1>1, LenProperties, ElementOfSeq
<1>3. [runs[busy.of] EXCEPT !.files = TRUE] \in RunRecord
  BY <1>1, <1>2 DEF RunRecord
<1>4. runs' = [runs EXCEPT ![busy.of] = [runs[busy.of] EXCEPT !.files = TRUE]]
  BY <1>1
<1>5. runs' \in Seq(RunRecord) /\ Len(runs') = Len(runs) /\ DOMAIN runs' = DOMAIN runs
  BY <1>1, <1>2, <1>3, <1>4, ExceptSeq, LenProperties
<1>6. \A r \in DOMAIN runs : /\ runs'[r].model = runs[r].model /\ runs'[r].eval = runs[r].eval
                             /\ runs[r].files => runs'[r].files
  BY <1>1, <1>2, <1>4 DEF RunRecord
<1>7. Len(versions) \in Nat /\ Len(runs) \in RunIds
  BY <1>1, LenProperties DEF TypeOK
<1>8. QED
  BY <1>1, <1>2, <1>5, <1>6, <1>7 DEF Grown, Version

LEMMA VersionMade ==
  ASSUME TypeOK, RegisterVersion
  PROVE  /\ Grown /\ runs' = runs /\ Len(versions') = Len(versions) + 1
         /\ versions'[Len(versions')] = busy.of /\ busy.of \in DOMAIN runs
<1>1. /\ versions \in Seq(DOMAIN runs) /\ busy.of \in DOMAIN runs
      /\ versions' = Append(versions, busy.of) /\ runs' = runs
  BY DEF TypeOK, RegisterVersion, Ready
<1>2. /\ versions' \in Seq(DOMAIN runs) /\ Len(versions') = Len(versions) + 1
      /\ \A i \in 1..Len(versions) : versions'[i] = versions[i]
      /\ versions'[Len(versions) + 1] = busy.of
  BY <1>1, AppendProperties
<1>3. Len(versions) \in Nat /\ Len(runs) \in RunIds /\ runs \in Seq(RunRecord) /\ Len(runs) \in Nat
  BY <1>1, LenProperties DEF TypeOK, RunRecord
<1>4. QED
  BY <1>1, <1>2, <1>3 DEF Grown, Version

LEMMA RegistryGrows ==
  ASSUME TypeOK, [Next]_vars
  PROVE  Grown
<1>1. CASE RegisterRun
  BY <1>1, RunLogged
<1>2. CASE RegisterArtefacts
  BY <1>2, ArtefactsLogged
<1>3. CASE RegisterVersion
  BY <1>3, VersionMade
<1>4. CASE UNCHANGED vars
  BY <1>4, SameRegistry DEF vars, regVars
<1>5. CASE Next /\ ~RegisterRun /\ ~RegisterArtefacts /\ ~RegisterVersion
  <2>1. UNCHANGED <<runs, versions>>
    BY <1>5 DEF Next, Die, Train, Evaluate, EditPolicy, FetchStart, FetchEnd, EvalReport, EvalSlices, GateCandidate,
       JobStart, MergeCandidate, CloseCandidate, Promote, Rollback, BackupAliases,
       BackupVersions, BackupRuns, BackupDump, BackupTar, regVars
  <2>2. QED
    BY <2>1, SameRegistry
<1>6. QED
  BY <1>1, <1>2, <1>3, <1>4, <1>5

LEMMA GrownKeeps ==
  ASSUME TypeOK, Grown
  PROVE  /\ DOMAIN runs \subseteq DOMAIN runs' /\ Version \subseteq Version'
         /\ \A v \in Version :
              /\ ModelOf(v)' = ModelOf(v) /\ EvalOf(v)' = EvalOf(v)
              /\ runs[versions[v]].files => runs'[versions'[v]].files
              /\ ModelOf(v) \in Models /\ EvalOf(v) \in Models
<1>1. /\ Len(runs) \in Nat /\ Len(runs') \in Nat /\ Len(versions) \in Nat /\ Len(versions') \in Nat
      /\ DOMAIN runs = 1..Len(runs) /\ DOMAIN runs' = 1..Len(runs')
      /\ DOMAIN versions = 1..Len(versions)
  BY LenProperties DEF TypeOK, Grown
<1>2. DOMAIN runs \subseteq DOMAIN runs' /\ Version \subseteq Version'
  BY <1>1 DEF Grown, Version
<1>3. \A v \in Version : versions[v] \in DOMAIN runs /\ runs[versions[v]] \in RunRecord
  BY <1>1, ElementOfSeq DEF TypeOK, Version, RunRecord
<1>4. QED
  BY <1>2, <1>3 DEF Grown, ModelOf, EvalOf, RunRecord

LEMMA VersionsAreRuns ==
  ASSUME TypeOK, Counted
  PROVE  Version \subseteq RunIds
<1>1. Len(runs) \in RunIds /\ Len(versions) \in Nat /\ Len(versions) <= Len(runs)
  BY LenProperties DEF TypeOK, Counted
<1>2. QED
  BY <1>1, PromotionAssumption DEF Version, RunIds

-----------------------------------------------------------------------------
(* Verdicts *)

LEMMA VerdictTyped ==
  ASSUME NEW l \in Lock, NEW version \in RunIds, ModelOf(version) \in Models,
         NEW rep \in Report \cup {None}, NEW table \in Models \cup {None}, NEW p \in Policies
  PROVE  GateReport(l, version, rep, table, p) \in Verdicts \cup {None}
  BY DEF GateReport, Binding, Verdicts

\* The one place where a verdict is written: what it says when it passes.
Sound(g) ==
    g # None =>
        /\ g.report # None /\ g.report.version = g.version
        /\ g.slices # None /\ MAE(g.slices) = MAE(g.report.model)
        /\ MAE(g.lock.eval) < SumAE(FallbackError, Trips)
        /\ Assess(g.lock.eval, g.slices, g.policy)

LEMMA VerdictSound ==
  ASSUME NEW l, NEW version, NEW rep, NEW table, NEW p
  PROVE  Sound(GateReport(l, version, rep, table, p))
<1> DEFINE g == GateReport(l, version, rep, table, p)
<1>1. CASE ~Verdict(l, version, rep, table, p)
  BY <1>1 DEF GateReport, Sound
<1>2. CASE Verdict(l, version, rep, table, p)
  <2>1. g = Binding(l, version, rep, table, p)
    BY <1>2 DEF GateReport
  <2>2. /\ g.lock = l /\ g.version = version /\ g.report = rep
        /\ g.slices = table /\ g.policy = p
    BY <2>1 DEF Binding
  <2>3. rep # None /\ rep.version = version /\ Evidence(rep, version) = rep.model
    BY <1>2 DEF Verdict, Evidence
  <2>4. /\ MAE(l.eval) < SumAE(FallbackError, Trips)
        /\ table # None /\ Assess(l.eval, table, p) /\ MAE(table) = MAE(rep.model)
    BY <1>2, <2>3 DEF Verdict, PromotionGate
  <2>5. QED
    BY <2>2, <2>3, <2>4 DEF Sound
<1>3. QED
  BY <1>1, <1>2

-----------------------------------------------------------------------------
(* Type correctness and the count of versions. *)

LEMMA LockTyped ==
  ASSUME TypeOK, [Next]_vars
  PROVE  lock' \in Lock /\ policy' \in Policies /\ slices' \in Models \cup {None}
<1>1. lock' \in Lock
  <2>1. CASE Evaluate \/ \E c \in Models : Train(c)
    BY <2>1 DEF TypeOK, Lock, Train, Evaluate
  <2>2. CASE MergeCandidate
    <3>1. job.model \in Models
      BY <2>2 DEF TypeOK, MergeCandidate, Candidates
    <3>2. QED
      BY <2>2, <3>1 DEF MergeCandidate, Lock
  <2>3. CASE [Next]_vars /\ ~Evaluate /\ ~MergeCandidate /\ ~\E c \in Models : Train(c)
    <3>1. lock' = lock
      BY <2>3 DEF Next, vars, treeVars, Die, EditPolicy, FetchStart, FetchEnd, EvalReport, EvalSlices,
         GateCandidate, JobStart, CloseCandidate, RegisterRun, RegisterArtefacts,
         RegisterVersion, Promote, Rollback, BackupAliases, BackupVersions, BackupRuns,
         BackupDump, BackupTar
    <3>2. QED
      BY <3>1 DEF TypeOK
  <2>4. QED
    BY <2>1, <2>2, <2>3
<1>2. policy' \in Policies
  BY DEF TypeOK, Next, vars, treeVars, regVars, Die, Train, Evaluate, EditPolicy,
     FetchStart, FetchEnd, EvalReport, EvalSlices, GateCandidate, JobStart, MergeCandidate, CloseCandidate,
     RegisterRun, RegisterArtefacts, RegisterVersion, Promote, Rollback,
     BackupAliases, BackupVersions, BackupRuns, BackupDump, BackupTar
<1>3. slices' \in Models \cup {None}
  <2>1. CASE EvalSlices
    BY <2>1 DEF TypeOK, EvalSlices, Ready
  <2>2. CASE MergeCandidate
    <3>1. ModelOf(job.version) \in Models
      <4>1. job.version \in Version
        BY <2>2 DEF TypeOK, MergeCandidate
      <4>2. QED
        BY <4>1, RegistryGrows, GrownKeeps
    <3>2. QED
      BY <2>2, <3>1 DEF TypeOK, MergeCandidate
  <2>3. CASE UNCHANGED vars
    BY <2>3 DEF TypeOK, vars, treeVars
  <2>4. CASE Next /\ ~EvalSlices /\ ~MergeCandidate
    BY <2>4 DEF TypeOK, Next, treeVars, Die, Train, Evaluate, EditPolicy, FetchStart, FetchEnd, EvalReport,
       GateCandidate, JobStart, CloseCandidate, RegisterRun, RegisterArtefacts,
       RegisterVersion, Promote, Rollback, BackupAliases, BackupVersions, BackupRuns,
       BackupDump, BackupTar
  <2>5. QED
    BY <2>1, <2>2, <2>3, <2>4
<1>4. QED
  BY <1>1, <1>2, <1>3

LEMMA ChampionTyped ==
  ASSUME TypeOK, [Next]_vars
  PROVE  /\ champ' \in [version : Version', previous : Version' \cup {None}]
         /\ challenger' \in Version' \cup {None}
<1>1. Version \subseteq Version'
  BY RegistryGrows, GrownKeeps
<1>2. CASE \E v \in Version, force \in BOOLEAN : Promote(v, force)
  BY <1>1, <1>2 DEF TypeOK, Promote
<1>3. CASE Rollback
  BY <1>1, <1>3 DEF TypeOK, Rollback
<1>4. CASE UNCHANGED <<champ, challenger>>
  BY <1>1, <1>4 DEF TypeOK
<1>5. CASE [Next]_vars /\ ~Rollback /\ ~\E v \in Version, force \in BOOLEAN : Promote(v, force)
  <2>1. UNCHANGED <<champ, challenger>>
    BY <1>5 DEF Next, vars, treeVars, regVars, Die, Train, Evaluate, EditPolicy, FetchStart, FetchEnd, EvalReport,
       EvalSlices, GateCandidate, JobStart, MergeCandidate, CloseCandidate, RegisterRun,
       RegisterArtefacts, RegisterVersion, BackupAliases, BackupVersions, BackupRuns,
       BackupDump, BackupTar
  <2>2. QED
    BY <1>4, <2>1
<1>6. QED
  BY <1>2, <1>3, <1>5

\* What a merge writes.
LEMMA MergeWrites ==
  ASSUME TypeOK, Counted, MergeCandidate
  PROVE  /\ job.version \in Version /\ job.policy \in Policies
         /\ ModelOf(job.version) \in Models
         /\ report' \in Report \cup {None}
         /\ lock' \in Lock /\ slices' \in Models \cup {None}
         /\ gate' = GateReport(lock', job.version, report', slices', job.policy)
<1>1. job.version \in Version /\ job.policy \in Policies /\ job.model \in Models
  BY DEF TypeOK, MergeCandidate, Candidates
<1>2. Grown
  BY SameRegistry DEF MergeCandidate, regVars
<1>3. ModelOf(job.version) \in Models /\ job.version \in RunIds
  BY <1>1, <1>2, GrownKeeps, VersionsAreRuns
<1>4. QED
  BY <1>1, <1>3 DEF MergeCandidate, TypeOK, Report, Lock

LEMMA ReportTyped ==
  ASSUME TypeOK, Counted, [Next]_vars
  PROVE  /\ report' \in Report \cup {None} /\ gate' \in Verdicts \cup {None}
<1>1. Grown /\ Version \subseteq RunIds
  BY RegistryGrows, VersionsAreRuns
<1>2. champ.version \in Version /\ ModelOf(champ.version) \in Models /\ champ.version \in RunIds
  BY <1>1, GrownKeeps DEF TypeOK
<1>3. CASE \E testMonth \in BOOLEAN : EvalReport(testMonth)
  BY <1>2, <1>3 DEF EvalReport, Report, TypeOK
<1>4. CASE GateCandidate
  <2>1. gate' = GateReport(lock, champ.version, report, slices, policy) /\ report' = report
    BY <1>4 DEF GateCandidate
  <2>2. QED
    BY <1>2, <2>1, VerdictTyped DEF TypeOK
<1>5. CASE MergeCandidate
  BY <1>1, <1>5, MergeWrites, VerdictTyped
<1>6. CASE [Next]_vars /\ ~MergeCandidate /\ ~GateCandidate /\ ~\E testMonth \in BOOLEAN : EvalReport(testMonth)
  <2>1. UNCHANGED <<report, gate>>
    BY <1>6 DEF Next, vars, treeVars, Die, Train, Evaluate, EditPolicy, FetchStart, FetchEnd, EvalSlices,
       JobStart, CloseCandidate, RegisterRun, RegisterArtefacts, RegisterVersion, Promote,
       Rollback, BackupAliases, BackupVersions, BackupRuns, BackupDump, BackupTar
  <2>2. QED
    BY <2>1 DEF TypeOK
<1>7. QED
  BY <1>3, <1>4, <1>5, <1>6

BusyTyped(b, ids) == b \in [cmd : {"fetch", "evaluate"}, of : Models] \cup [cmd : {"register"}, of : ids] \cup {None}

LEMMA JobTyped ==
  ASSUME TypeOK, [Next]_vars
  PROVE  /\ BusyTyped(busy', DOMAIN runs')
         /\ job' \in [model : Candidates, version : Version', policy : Policies] \cup {None}
<1>1. /\ Grown /\ DOMAIN runs \subseteq DOMAIN runs' /\ Version \subseteq Version'
      /\ ModelOf(champ.version) \in Models
  BY RegistryGrows, GrownKeeps DEF TypeOK
<1>2. BusyTyped(busy, DOMAIN runs') /\ BusyTyped(None, DOMAIN runs')
  BY <1>1 DEF TypeOK, BusyTyped
<1>3. BusyTyped(busy', DOMAIN runs')
  <2>1. CASE FetchStart \/ \E testMonth \in BOOLEAN : EvalReport(testMonth)
    BY <1>1, <2>1 DEF FetchStart, EvalReport, BusyTyped, TypeOK
  <2>2. CASE RegisterRun
    <3>1. Len(runs') = Len(runs) + 1 /\ runs' \in Seq(RunRecord) /\ Len(runs) \in Nat
      BY <2>2, RunLogged, LenProperties DEF TypeOK, Grown
    <3>2. Len(runs') \in DOMAIN runs'
      BY <3>1, LenProperties
    <3>3. QED
      BY <2>2, <3>2 DEF RegisterRun, BusyTyped
  <2>3. CASE /\ [Next]_vars /\ ~RegisterRun /\ ~FetchStart
             /\ ~\E testMonth \in BOOLEAN : EvalReport(testMonth)
    <3>1. busy' = busy \/ busy' = None
      BY <2>3 DEF Next, vars, treeVars, Die, Train, Evaluate, EditPolicy, FetchEnd, EvalSlices,
         GateCandidate, JobStart, MergeCandidate, CloseCandidate, RegisterArtefacts,
         RegisterVersion, Promote, Rollback, BackupAliases, BackupVersions, BackupRuns,
         BackupDump, BackupTar
    <3>2. QED
      BY <1>2, <3>1
  <2>4. QED
    BY <2>1, <2>2, <2>3
<1>4. job' \in [model : Candidates, version : Version', policy : Policies] \cup {None}
  <2>1. CASE \E c \in Candidates : JobStart(c)
    BY <1>1, <2>1 DEF JobStart, TypeOK
  <2>2. CASE [Next]_vars /\ ~\E c \in Candidates : JobStart(c)
    <3>1. job' = job \/ job' = None
      BY <2>2 DEF Next, vars, treeVars, Die, Train, Evaluate, EditPolicy, FetchStart, FetchEnd, EvalReport, EvalSlices,
         GateCandidate, MergeCandidate, CloseCandidate, RegisterRun, RegisterArtefacts,
         RegisterVersion, Promote, Rollback, BackupAliases, BackupVersions, BackupRuns,
         BackupDump, BackupTar
    <3>2. QED
      BY <1>1, <3>1 DEF TypeOK
  <2>3. QED
    BY <2>1, <2>2
<1>5. QED
  BY <1>3, <1>4

LEMMA RegistryTyped ==
  ASSUME TypeOK, Counted, [Next]_vars
  PROVE  /\ runs' \in Seq(RunRecord) /\ Len(runs') \in RunIds
         /\ versions' \in Seq(DOMAIN runs') /\ Len(versions') >= 1
         /\ Counted'
<1>1. /\ Grown /\ DOMAIN runs \subseteq DOMAIN runs'
      /\ Len(runs) \in Nat /\ Len(versions) \in Nat
      /\ Len(runs') \in Nat /\ Len(versions') \in Nat
  BY RegistryGrows, GrownKeeps, LenProperties DEF TypeOK, Grown
<1>2. Len(versions') >= 1
  BY <1>1 DEF Grown, TypeOK
<1>3. Counted'
  <2>1. CASE RegisterRun
    <3>1. Len(runs') = Len(runs) + 1 /\ versions' = versions
      BY <2>1, RunLogged DEF RegisterRun
    <3>2. QED
      BY <1>1, <3>1 DEF Counted
  <2>2. CASE RegisterVersion
    <3>1. /\ Len(versions') = Len(versions) + 1 /\ runs' = runs /\ busy' = None
          /\ busy # None /\ busy.cmd = "register"
      BY <2>2, VersionMade DEF RegisterVersion, Ready
    <3>2. QED
      BY <1>1, <3>1 DEF Counted
  <2>3. CASE RegisterArtefacts
    <3>1. Len(runs') = Len(runs) /\ versions' = versions /\ busy' = busy
      BY <2>3, ArtefactsLogged DEF RegisterArtefacts, treeVars
    <3>2. QED
      BY <1>1, <3>1 DEF Counted
  <2>4. CASE FetchStart \/ \E testMonth \in BOOLEAN : EvalReport(testMonth)
    <3>1. UNCHANGED <<runs, versions>> /\ busy'.cmd # "register"
      BY <2>4 DEF FetchStart, EvalReport, regVars
    <3>2. QED
      BY <3>1 DEF Counted
  <2>5. CASE /\ [Next]_vars /\ ~RegisterRun /\ ~RegisterVersion /\ ~RegisterArtefacts
             /\ ~FetchStart /\ ~\E testMonth \in BOOLEAN : EvalReport(testMonth)
    <3>1. UNCHANGED <<runs, versions>> /\ (busy' = busy \/ busy' = None)
      BY <2>5 DEF Next, vars, treeVars, regVars, Die, Train, Evaluate, EditPolicy, FetchEnd, EvalSlices,
         GateCandidate, JobStart, MergeCandidate, CloseCandidate, Promote, Rollback,
         BackupAliases, BackupVersions, BackupRuns, BackupDump, BackupTar
    <3>2. QED
      BY <3>1 DEF Counted
  <2>6. QED
    BY <2>1, <2>2, <2>3, <2>4, <2>5
<1>4. QED
  BY <1>1, <1>2, <1>3 DEF Grown

BackupSteps == BackupAliases \/ BackupVersions \/ BackupRuns \/ BackupDump \/ BackupTar

LEMMA BackupWaits ==
  ASSUME [Next]_vars, ~BackupSteps
  PROVE  backup' = backup
  BY DEF Next, BackupSteps, vars, Die, Train, Evaluate, EditPolicy, FetchStart, FetchEnd, EvalReport, EvalSlices,
     GateCandidate, JobStart, MergeCandidate, CloseCandidate, RegisterRun, RegisterArtefacts,
     RegisterVersion, Promote, Rollback

LEMMA BackupKept ==
  ASSUME TypeOK, RunsTraceable, BackupTyped, BackupSound, [Next]_vars
  PROVE  BackupTyped' /\ BackupSound'
<1>1. /\ Grown /\ DOMAIN runs \subseteq DOMAIN runs'
  BY RegistryGrows, GrownKeeps
<1>2. CASE BackupAliases
  BY <1>2 DEF BackupAliases, BackupTyped, BackupSound, regVars
<1>3. CASE BackupVersions
  BY <1>3 DEF BackupVersions, BackupTyped, BackupSound, regVars
<1>4. CASE BackupRuns
  BY <1>4 DEF BackupRuns, BackupTyped, BackupSound, regVars
<1>5. CASE BackupDump
  <2>1. backup'.dump.versions = versions /\ runs' = runs /\ backup'.pc = "tar"
    BY <1>5 DEF BackupDump, BackupTyped, Database, regVars
  <2>2. \A v \in DOMAIN versions : runs[versions[v]].files
    <3>1. DOMAIN versions = Version
      BY LenProperties DEF TypeOK, Version
    <3>2. QED
      BY <3>1 DEF RunsTraceable, VersionIsTraceable
  <2>3. BackupTyped'
    BY <1>5 DEF BackupDump, BackupTyped, regVars
  <2>4. QED
    BY <2>1, <2>2, <2>3 DEF BackupSound, TypeOK
<1>6. CASE BackupTar
  <2>1. /\ backup'.dump = backup.dump /\ runs' = runs /\ backup'.pc = "done" /\ backup.pc = "tar"
        /\ backup'.tar = {r \in DOMAIN runs : runs[r].files}
        /\ DOMAIN backup' = DOMAIN backup
    BY <1>6 DEF BackupTar, BackupTyped, regVars
  <2>2. \A v \in DOMAIN backup.dump.versions : backup.dump.versions[v] \in DOMAIN runs
    BY <2>1, LenProperties, ElementOfSeq DEF BackupSound
  <2>3. CheckArtefacts'
    BY <2>1, <2>2 DEF BackupSound, CheckArtefacts
  <2>4. QED
    BY <2>1, <2>3 DEF BackupSound, BackupTyped
<1>7. CASE ~BackupSteps
  <2>1. backup' = backup
    BY <1>7, BackupWaits
  <2>2. BackupTyped'
    BY <1>1, <2>1 DEF BackupTyped
  <2>3. ASSUME backup.pc \in {"tar", "done"}
        PROVE  /\ backup.dump.versions \in Seq(DOMAIN runs')
               /\ \A v \in DOMAIN backup.dump.versions : runs'[backup.dump.versions[v]].files
    <3>1. backup.dump.versions \in Seq(DOMAIN runs)
      BY <2>3 DEF BackupSound
    <3>2. \A v \in DOMAIN backup.dump.versions : backup.dump.versions[v] \in DOMAIN runs
      BY <3>1, LenProperties, ElementOfSeq
    <3>3. backup.dump.versions \in Seq(DOMAIN runs')
      BY <1>1, <3>1, SeqMonotonic
    <3>4. QED
      BY <1>1, <2>3, <3>2, <3>3 DEF BackupSound, Grown
  <2>4. CheckArtefacts' <=> CheckArtefacts
    BY <2>1 DEF CheckArtefacts
  <2>5. QED
    BY <2>1, <2>2, <2>3, <2>4 DEF BackupSound
<1>8. QED
  BY <1>2, <1>3, <1>4, <1>5, <1>6, <1>7 DEF BackupSteps

LEMMA FetchedTyped ==
  ASSUME TypeOK, [Next]_vars
  PROVE  fetched' \in Models \cup {None}
<1>1. CASE FetchEnd
  <2>1. busy \in [cmd : {"fetch"}, of : Models]
    BY <1>1 DEF FetchEnd, Ready, TypeOK
  <2>2. QED
    BY <1>1, <2>1 DEF FetchEnd
<1>2. CASE FetchStart
  BY <1>2 DEF FetchStart
<1>3. CASE [Next]_vars /\ ~FetchStart /\ ~FetchEnd
  BY <1>3 DEF TypeOK, Next, vars, treeVars, Die, Train, Evaluate, EditPolicy, EvalReport,
     EvalSlices, GateCandidate, JobStart, MergeCandidate, CloseCandidate, RegisterRun,
     RegisterArtefacts, RegisterVersion, Promote, Rollback, BackupAliases, BackupVersions,
     BackupRuns, BackupDump, BackupTar
<1>4. QED
  BY <1>1, <1>2, <1>3

LEMMA TypeKept ==
  ASSUME TypeOK, Counted, RunsTraceable, BackupTyped, BackupSound, [Next]_vars
  PROVE  TypeOK'
<1>1. /\ lock' \in Lock /\ policy' \in Policies /\ slices' \in Models \cup {None}
  BY LockTyped
<1>2. /\ champ' \in [version : Version', previous : Version' \cup {None}]
      /\ challenger' \in Version' \cup {None}
  BY ChampionTyped
<1>3. report' \in Report \cup {None} /\ gate' \in Verdicts \cup {None}
  BY ReportTyped
<1>4. /\ BusyTyped(busy', DOMAIN runs')
      /\ job' \in [model : Candidates, version : Version', policy : Policies] \cup {None}
  BY JobTyped
<1>5. /\ runs' \in Seq(RunRecord) /\ Len(runs') \in RunIds
      /\ versions' \in Seq(DOMAIN runs') /\ Len(versions') >= 1
  BY RegistryTyped
<1>6. BackupTyped'
  BY BackupKept
<1>7. fetched' \in Models \cup {None}
  BY FetchedTyped
<1>8. QED
  BY <1>1, <1>2, <1>3, <1>4, <1>5, <1>6, <1>7 DEF TypeOK, BusyTyped, BackupTyped, RunRecord

-----------------------------------------------------------------------------
(* What versions, the champion's report and verdicts stand for. *)

LEMMA TraceableKept ==
  ASSUME TypeOK, RunsTraceable, [Next]_vars
  PROVE  RunsTraceable'
<1>1. /\ Grown /\ Version \subseteq Version' /\ DOMAIN runs \subseteq DOMAIN runs'
      /\ \A v \in Version :
              /\ ModelOf(v)' = ModelOf(v) /\ EvalOf(v)' = EvalOf(v)
              /\ runs[versions[v]].files => runs'[versions'[v]].files
  BY RegistryGrows, GrownKeeps
<1>2. \A v \in Version : ModelOf(v)' = EvalOf(v)' /\ runs'[versions'[v]].files
  BY <1>1 DEF RunsTraceable, VersionIsTraceable
<1>3. CASE RegisterRun
  <2>1. Version' = Version
    BY <1>3 DEF RegisterRun, Version
  <2>2. /\ runs' = Append(runs, [model |-> lock.model, eval |-> lock.eval, files |-> FALSE])
        /\ lock.model = lock.eval /\ busy'.of = Len(runs) + 1
        /\ [model |-> lock.model, eval |-> lock.eval, files |-> FALSE] \in RunRecord
    <3>1. Len(runs') = Len(runs) + 1
      BY <1>3, RunLogged
    <3>2. QED
      BY <1>3, <3>1 DEF RegisterRun, RunRecord, TypeOK, Lock
  <2>3. runs'[busy'.of] = [model |-> lock.model, eval |-> lock.eval, files |-> FALSE]
    BY <2>2, AppendProperties DEF TypeOK, RunRecord
  <2>4. runs'[busy'.of].model = runs'[busy'.of].eval
    BY <2>2, <2>3
  <2>5. VersionIsTraceable'
    BY <1>2, <2>1 DEF VersionIsTraceable
  <2>6. QED
    BY <2>4, <2>5 DEF RunsTraceable
<1>4. CASE RegisterVersion
  <2>1. /\ runs' = runs /\ Len(versions') = Len(versions) + 1 /\ busy' = None
        /\ versions'[Len(versions')] = busy.of /\ Len(versions) \in Nat
        /\ busy # None /\ busy.cmd = "register" /\ runs[busy.of].files
    BY <1>4, VersionMade, LenProperties DEF RegisterVersion, Ready, TypeOK
  <2>2. \A v \in Version' : v \in Version \/ v = Len(versions')
    BY <2>1 DEF Version
  <2>3. runs[busy.of].model = runs[busy.of].eval
    BY <2>1 DEF RunsTraceable
  <2>4. ASSUME NEW v \in Version' PROVE ModelOf(v)' = EvalOf(v)' /\ runs'[versions'[v]].files
    <3>1. CASE v \in Version
      BY <1>2, <3>1
    <3>2. CASE v = Len(versions')
      BY <2>1, <2>3, <3>2 DEF ModelOf, EvalOf
    <3>3. QED
      BY <2>2, <3>1, <3>2
  <2>5. QED
    BY <2>1, <2>4 DEF RunsTraceable, VersionIsTraceable
<1>5. CASE RegisterArtefacts
  <2>1. Version' = Version /\ busy' = busy
    BY <1>5 DEF RegisterArtefacts, Version, treeVars
  <2>2. busy # None /\ busy.cmd = "register" => busy.of \in DOMAIN runs
    BY DEF TypeOK
  <2>3. QED
    BY <1>2, <1>5, <2>1, <2>2, ArtefactsLogged DEF RunsTraceable, VersionIsTraceable
<1>6. CASE FetchStart \/ \E testMonth \in BOOLEAN : EvalReport(testMonth)
  <2>1. UNCHANGED <<runs, versions>> /\ busy'.cmd # "register"
    BY <1>6 DEF FetchStart, EvalReport, regVars
  <2>2. Version' = Version
    BY <2>1 DEF Version
  <2>3. QED
    BY <1>2, <2>1, <2>2 DEF RunsTraceable, VersionIsTraceable
<1>7. CASE /\ [Next]_vars /\ ~RegisterRun /\ ~RegisterVersion /\ ~RegisterArtefacts
           /\ ~FetchStart /\ ~\E testMonth \in BOOLEAN : EvalReport(testMonth)
  <2>1. UNCHANGED <<runs, versions>> /\ (busy' = busy \/ busy' = None)
    BY <1>7 DEF Next, vars, treeVars, regVars, Die, Train, Evaluate, EditPolicy, FetchStart, FetchEnd, EvalSlices,
       GateCandidate, JobStart, MergeCandidate, CloseCandidate, Promote, Rollback,
       BackupAliases, BackupVersions, BackupRuns, BackupDump, BackupTar
  <2>2. Version' = Version
    BY <2>1 DEF Version
  <2>3. QED
    BY <1>2, <2>1, <2>2 DEF RunsTraceable, VersionIsTraceable
<1>8. QED
  BY <1>3, <1>4, <1>5, <1>6, <1>7

LEMMA GateKept ==
  ASSUME GateIsSound, [Next]_vars
  PROVE  GateIsSound'
<1>1. Sound(gate)
  BY DEF GateIsSound, Sound
<1>2. Sound(gate')
  <2>1. CASE GateCandidate
    BY <2>1, VerdictSound DEF GateCandidate
  <2>2. CASE MergeCandidate
    BY <2>2, VerdictSound DEF MergeCandidate
  <2>3. CASE [Next]_vars /\ ~GateCandidate /\ ~MergeCandidate
    <3>1. gate' = gate
      BY <2>3 DEF Next, vars, treeVars, Die, Train, Evaluate, EditPolicy, FetchStart, FetchEnd, EvalReport, EvalSlices,
         JobStart, CloseCandidate, RegisterRun, RegisterArtefacts, RegisterVersion, Promote,
         Rollback, BackupAliases, BackupVersions, BackupRuns, BackupDump, BackupTar
    <3>2. QED
      BY <1>1, <3>1
  <2>4. QED
    BY <2>1, <2>2, <2>3
<1>3. QED
  BY <1>2 DEF GateIsSound, Sound

-----------------------------------------------------------------------------
(* Theorems *)

\* The record of a verdict is not the mark that there is none.
NoneIsNoVerdict == "lock" \notin DOMAIN None

LEMMA InitHolds ==
  ASSUME Init
  PROVE  IInv
<1> DEFINE r == [model |-> First, eval |-> First, files |-> TRUE]
<1>1. First \in Models /\ r \in RunRecord
  BY PromotionAssumption DEF RunRecord
<1>2. /\ runs = <<r>> /\ runs \in Seq(RunRecord) /\ Len(runs) = 1 /\ runs[1] = r
      /\ DOMAIN runs = {1} /\ 1 \in RunIds
  BY <1>1, PromotionAssumption DEF Init, RunIds
<1>3. /\ versions = <<1>> /\ versions \in Seq(DOMAIN runs) /\ Len(versions) = 1 /\ versions[1] = 1
      /\ Version = {1}
  BY <1>2 DEF Init, Version
<1>4. TypeOK /\ BackupTyped
  BY <1>1, <1>2, <1>3 DEF Init, TypeOK, BackupTyped, Lock, RunRecord
<1>5. Counted /\ GateIsSound /\ BackupSound
  BY <1>2, <1>3 DEF Init, Counted, GateIsSound, BackupSound
<1>6. RunsTraceable
  BY <1>2, <1>3 DEF Init, RunsTraceable, VersionIsTraceable, ModelOf, EvalOf
<1>7. QED
  BY <1>4, <1>5, <1>6 DEF IInv

LEMMA NextKeeps ==
  ASSUME IInv, [Next]_vars
  PROVE  IInv'
<1>1. TypeOK' /\ Counted'
  BY TypeKept, RegistryTyped DEF IInv
<1>2. RunsTraceable' /\ GateIsSound'
  BY TraceableKept, GateKept DEF IInv
<1>3. BackupTyped' /\ BackupSound'
  BY BackupKept DEF IInv
<1>4. QED
  BY <1>1, <1>2, <1>3 DEF IInv

\* The inductive invariant: the registry only grows, and a verdict on disk says
\* of the files it names what the gate computed from them.
THEOREM PromotionInvariant ==
  Spec => []IInv
<1>1. Init => IInv
  BY InitHolds
<1>2. IInv /\ [Next]_vars => IInv'
  BY NextKeeps
<1>3. QED
  BY <1>1, <1>2, PTL DEF Spec

\* Every file and every row of the registry stays of its type (registry.py,
\* gate.py, registry_backup.py).
THEOREM PromotionTypeCorrect ==
  Spec => []TypeOK
<1>1. IInv => TypeOK
  BY DEF IInv
<1>2. QED
  BY <1>1, PromotionInvariant, PTL

\* register.py: no crash between the run, its artefacts and its version leaves a
\* version whose metrics are another model's or whose artefacts are missing.
THEOREM VersionsAreTraceable ==
  Spec => []VersionIsTraceable
<1>1. IInv => VersionIsTraceable
  BY DEF IInv, RunsTraceable
<1>2. QED
  BY <1>1, PromotionInvariant, PTL

\* registry_backup.py: reading the database before the artefact volume loses no
\* artefact of a listed version, whatever is registered or promoted meanwhile.
THEOREM BackupsAreComplete ==
  Spec => []BackupHoldsItsArtefacts
<1>1. IInv => BackupHoldsItsArtefacts
  BY DEF IInv, BackupSound, BackupHoldsItsArtefacts, RestoreVerified
<1>2. QED
  BY <1>1, PromotionInvariant, PTL

LEMMA PromoteIsJudged ==
  ASSUME NoneIsNoVerdict, IInv, NEW v \in Version, Promote(v, FALSE)
  PROVE  /\ MAE(ModelOf(v)) < SumAE(FallbackError, Trips)
         /\ report.version = champ.version
         /\ JudgedAgainst(v, report.model)
<1> DEFINE l == [model |-> ModelOf(v), eval |-> EvalOf(v)]
<1>1. gate = Binding(l, champ.version, report, slices, policy)
  BY DEF Promote, GateCovers
<1>2. /\ gate.lock = l /\ gate.version = champ.version /\ gate.report = report
      /\ gate.slices = slices /\ gate.policy = policy /\ "lock" \in DOMAIN gate
  BY <1>1 DEF Binding
<1>3. gate # None
  BY <1>2 DEF NoneIsNoVerdict
<1>4. l.eval = ModelOf(v)
  BY DEF IInv, RunsTraceable, VersionIsTraceable
<1>5. /\ report # None /\ report.version = champ.version
      /\ slices # None /\ MAE(slices) = MAE(report.model)
      /\ MAE(l.eval) < SumAE(FallbackError, Trips) /\ Assess(l.eval, slices, policy)
  BY <1>2, <1>3 DEF IInv, GateIsSound
<1>6. slices \in Models
  BY <1>5 DEF IInv, TypeOK
<1>7. JudgedAgainst(v, report.model)
  BY <1>4, <1>5, <1>6 DEF JudgedAgainst
<1>8. QED
  BY <1>4, <1>5, <1>7

\* registry.py promote: a version taken without --force beat the baseline and
\* passed the assessment, under the policy of the day, on errors with the
\* aggregate of the report now on disk in the name of the champion it replaces,
\* although the verdict was written by another command, possibly on another
\* branch, earlier.
THEOREM PromotionsAreJudged ==
  ASSUME NoneIsNoVerdict
  PROVE  Spec => PromotionIsJudged
<1>1. IInv => [champ' # champ =>
                 \A v \in Version :
                   Promote(v, FALSE) => /\ MAE(ModelOf(v)) < SumAE(FallbackError, Trips)
                                        /\ report.version = champ.version
                                        /\ JudgedAgainst(v, report.model)]_vars
  BY PromoteIsJudged
<1>2. QED
  BY <1>1, PromotionInvariant, PTL DEF PromotionIsJudged

\* Where build/champion held the champion when it was scored, so that the report
\* has the champion's aggregate error, the assessment was on errors with that
\* aggregate: the champion's own, unless another model's add up to the same.
THEOREM PromotionsAreJudgedOnTheChampion ==
  ASSUME NoneIsNoVerdict
  PROVE  Spec => [][champ' # champ /\ MAE(report.model) = MAE(ModelOf(champ.version)) =>
                      \A v \in Version :
                        Promote(v, FALSE) => JudgedAgainst(v, ModelOf(champ.version))]_vars
<1>1. IInv => [champ' # champ /\ MAE(report.model) = MAE(ModelOf(champ.version)) =>
                 \A v \in Version :
                   Promote(v, FALSE) => JudgedAgainst(v, ModelOf(champ.version))]_vars
  <2> SUFFICES ASSUME IInv, MAE(report.model) = MAE(ModelOf(champ.version)),
                      NEW v \in Version, Promote(v, FALSE)
               PROVE  JudgedAgainst(v, ModelOf(champ.version))
    OBVIOUS
  <2>1. JudgedAgainst(v, report.model)
    BY PromoteIsJudged
  <2>2. QED
    BY <2>1 DEF JudgedAgainst
<1>2. QED
  BY <1>1, PromotionInvariant, PTL
=============================================================================
