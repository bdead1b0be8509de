----------------------------- MODULE Promotion -----------------------------
(***************************************************************************)
(* From a candidate to a champion: fetch_champion.py brings the champion's *)
(* artefacts into build/champion, prospective_eval.py scores what is there *)
(* on the candidate's month, gate_candidate.py judges the candidate on     *)
(* that evidence (gate.py) and binds the verdict to it, register.py makes  *)
(* a version of the current outputs, and promote.py takes a version only   *)
(* with a verdict bound to what is on disk now.  All of it works on one    *)
(* tree, which candidate branches built on older trees are merged into.    *)
(* registry_backup.py reads the registry meanwhile.                        *)
(*                                                                         *)
(* An evaluation is the errors of a model on the trips of the month, so a  *)
(* model stands for its bytes, its dvc.lock, its evaluation and its slice  *)
(* table, and a content for its hash.                                      *)
(***************************************************************************)
EXTENDS Integers, Sequences, FiniteSets

CONSTANTS
    Models,         \* the models that may be trained, the first champion among them
    First,          \* the champion the registry starts with
    TestMonth,      \* TestMonth[m]: the month a model is tested on
    Month,          \* the month the candidates are tested on
    Trips,          \* the trips of that month,
    DayOf, Slices,  \*   the day of each, and the gated slices as sets of trips
    Error,          \* Error[m][t]: the absolute error of model m on trip t
    FallbackError,  \* FallbackError[t]: that of the baseline table
    Policies,       \* the promotion policies params.yaml may hold
    MinImprovement, \* MinImprovement[p], in percent
    MaxRegression,  \* MaxRegression[p], in percent
    SliceMinN,      \* SliceMinN[p]
    None,
    MaxRuns         \* bound: how many runs the registry logs, each of another model

Candidates == Models \ {First}

ASSUME PromotionAssumption ==
    /\ First \in Models /\ None \notin Models
    /\ Trips # {} /\ IsFiniteSet(Trips) /\ Slices \subseteq SUBSET Trips
    /\ Error \in [Models -> [Trips -> Nat]] /\ FallbackError \in [Trips -> Nat]
    /\ \A c \in Candidates : TestMonth[c] = Month
    /\ TestMonth[First] < Month
    /\ \A p \in Policies : {MinImprovement[p], MaxRegression[p], SliceMinN[p]} \subseteq Nat
    /\ MaxRuns \in Nat \ {0}

VARIABLES
    lock,           \* dvc.lock: the model it names, and the one last evaluated
    champ,          \* models/champion.json
    fetched,        \* build/champion: the model last fetched, not in git
    policy,         \* params.yaml, promotion
    report,         \* reports/monitoring/<month>.json: the champion's evaluation
    slices,         \* reports/monitoring/<month>-slices.csv
    gate,           \* reports/monitoring/gate-<month>.json: what it passes, None if it fails
    busy,           \* the command that is between two of its steps
    job,            \* a retrain job or its branch that can be merged: what it started from
    runs,           \* the registry: what each registration run logged,
    versions,       \*   the run of each version,
    challenger,     \*   and the challenger alias
    backup          \* a backup being taken

treeVars == <<lock, champ, fetched, policy, report, slices, gate, busy, job>>
regVars  == <<runs, versions, challenger>>
vars     == <<treeVars, regVars, backup>>

Version == 1..Len(versions)
ModelOf(v) == runs[versions[v]].model
EvalOf(v)  == runs[versions[v]].eval          \* the tags test_month, mae_test_model

-----------------------------------------------------------------------------
(* Evaluations (slices.py, gate.py). *)

\* slice_table: the summed absolute error of a set of trips.
SumAE(err, trips) ==
    LET Sum[T \in SUBSET trips] ==
            IF T = {} THEN 0 ELSE LET t == CHOOSE x \in T : TRUE IN err[t] + Sum[T \ {t}]
    IN  Sum[trips]

\* On the same trips the MAEs compare as the summed errors do.
MAE(m) == SumAE(Error[m], Trips)

Days == {{t \in Trips : DayOf[t] = d} : d \in {DayOf[t] : t \in Trips}}

\* The relative improvement of sum c over sum k is at least `pct` percent.
ImprovesBy(c, k, pct) == (k - c) * 100 >= pct * k

\* day_block_bootstrap: the lower bound is above zero.  With as few days as
\* here every resample of one repeated day is inside the interval.
Distinguishable(c, k) ==
    \A d \in Days : SumAE(Error[c], d) < SumAE(Error[k], d)

\* slice_comparison: a gated slice with enough trips is not within the limit;
\* one without error before has no ratio and counts as regressed.
Regressed(c, k, p) ==
    \E s \in Slices :
        /\ Cardinality(s) >= SliceMinN[p]
        /\ \/ SumAE(Error[k], s) = 0
           \/ SumAE(Error[c], s) * 100 > SumAE(Error[k], s) * (100 + MaxRegression[p])

\* assess
Assess(c, k, p) ==
    /\ ImprovesBy(MAE(c), MAE(k), MinImprovement[p])
    /\ Distinguishable(c, k)
    /\ ~Regressed(c, k, p)

-----------------------------------------------------------------------------
(* The gate (registry.py, gate_candidate.py). *)

\* promotion_gate: candidate evaluation c beats the baseline, and the champion
\* on the same month: its recorded MAE when k, its evaluation at promotion, was
\* on that month, the evidence written since otherwise.
PromotionGate(c, k, evidence, p) ==
    LET basis == IF TestMonth[k] = TestMonth[c] THEN k ELSE evidence
    IN  /\ MAE(c) < SumAE(FallbackError, Trips)
        /\ basis # None /\ MAE(c) < MAE(basis)
        /\ ImprovesBy(MAE(c), MAE(basis), MinImprovement[p])

\* champion_mae_on: the report counts only if it names this champion version.
Evidence(rep, version) == IF rep # None /\ rep.version = version THEN rep.model ELSE None

\* gate_candidate: the verdict on the evaluation of lock l, under the given files.
Verdict(l, version, rep, table, p) ==
    LET evidence == Evidence(rep, version)
    IN  /\ PromotionGate(l.eval, EvalOf(version), evidence, p)
        /\ evidence # None /\ table # None
        /\ Assess(l.eval, table, p)
        /\ MAE(table) = MAE(evidence)             \* check_matches_aggregate

\* gate_binding: what a verdict was computed from.
Binding(l, version, rep, table, p) ==
    [lock |-> l, version |-> version, champion |-> ModelOf(version),
     report |-> rep, slices |-> table, policy |-> p]

GateReport(l, version, rep, table, p) ==
    IF Verdict(l, version, rep, table, p) THEN Binding(l, version, rep, table, p) ELSE None

\* Mutant: the verdict is bound to the candidate and the champion's number only.
GateCoversVersion(l) ==
    gate # None /\ gate.lock = l /\ gate.version = champ.version

\* gate_report_reasons: the recorded verdict passes, and is about exactly this
\* candidate, champion, evidence and policy.
GateCovers(l) ==
    gate = Binding(l, champ.version, report, slices, policy)

-----------------------------------------------------------------------------
(* Commands in the tree, one at a time.  A command with several steps is busy *)
(* between them, and may die there.  A branch that started from other files   *)
(* than the ones now committed conflicts and is given up (job' = None).       *)

Ready == busy = None

Die ==
    /\ ~Ready
    /\ busy' = None
    /\ UNCHANGED <<lock, champ, fetched, policy, report, slices, gate, job, regVars, backup>>

\* dvc repro: the stages train and evaluate, dvc.lock updated by each.
Train(c) ==
    /\ Ready /\ c # lock.model
    /\ lock' = [lock EXCEPT !.model = c] /\ job' = None
    /\ UNCHANGED <<champ, fetched, policy, report, slices, gate, busy, regVars, backup>>

Evaluate ==
    /\ Ready /\ lock.eval # lock.model
    /\ lock' = [lock EXCEPT !.eval = lock.model] /\ job' = None
    /\ UNCHANGED <<champ, fetched, policy, report, slices, gate, busy, regVars, backup>>

EditPolicy(p) ==
    /\ Ready /\ p # policy
    /\ policy' = p
    /\ UNCHANGED <<lock, champ, fetched, report, slices, gate, busy, job, regVars, backup>>

\* fetch_champion.py: what was fetched before is removed,
FetchStart ==
    /\ Ready
    /\ fetched' = None
    /\ busy' = [cmd |-> "fetch", of |-> ModelOf(champ.version)]
    /\ UNCHANGED <<lock, champ, policy, report, slices, gate, job, regVars, backup>>

\* and the champion's model can be scored when its model_meta.json is there, the
\* last but one file copied.
FetchEnd ==
    /\ ~Ready /\ busy.cmd = "fetch"
    /\ fetched' = busy.of /\ busy' = None
    /\ UNCHANGED <<lock, champ, policy, report, slices, gate, job, regVars, backup>>

\* The months the model to score has seen are refused, except that
\* --champion-test-month allows its test month.
MayScore(model, testMonth) ==
    IF testMonth THEN TestMonth[model] = Month ELSE TestMonth[model] < Month

\* prospective_eval.py: the report carries the version of champion.json and the
\* errors of the model in build/champion, which it does not compare,
EvalReport(testMonth) ==
    /\ Ready /\ fetched # None /\ MayScore(fetched, testMonth)
    /\ report' = [version |-> champ.version, model |-> fetched]
    /\ busy' = [cmd |-> "evaluate", of |-> fetched]
    /\ job' = None
    /\ UNCHANGED <<lock, champ, fetched, policy, slices, gate, regVars, backup>>

\* and then the slice table.
EvalSlices ==
    /\ ~Ready /\ busy.cmd = "evaluate"
    /\ slices' = busy.of /\ busy' = None
    /\ UNCHANGED <<lock, champ, fetched, policy, report, gate, job, regVars, backup>>

GateCandidate ==
    /\ Ready /\ TestMonth[lock.eval] = Month
    /\ gate' = GateReport(lock, champ.version, report, slices, policy)
    /\ job' = None
    /\ UNCHANGED <<lock, champ, fetched, policy, report, slices, busy, regVars, backup>>

-----------------------------------------------------------------------------
(* A retrain job works on a checkout of its own; its branch is merged later. *)

\* It fetches the champion of its checkout and scores that; when the champion
\* has seen the month prospective_eval.py ends the job, which leaves no branch.
JobStart(c) ==
    /\ Ready /\ job = None
    /\ MayScore(ModelOf(champ.version), FALSE)
    /\ job' = [model |-> c, version |-> champ.version, policy |-> policy]
    /\ UNCHANGED <<lock, champ, fetched, policy, report, slices, gate, busy, regVars, backup>>

\* The files of the branch: trained, scored, judged against the champion and the
\* policy of the checkout.
MergeCandidate ==
    LET k == ModelOf(job.version)
    IN  /\ Ready /\ job # None
        /\ lock' = [model |-> job.model, eval |-> job.model]
        /\ report' = [version |-> job.version, model |-> k]
        /\ slices' = k
        /\ gate' = GateReport(lock', job.version, report', slices', job.policy)
        /\ job' = None
        /\ UNCHANGED <<champ, fetched, policy, busy, regVars, backup>>

CloseCandidate ==
    /\ job # None
    /\ job' = None
    /\ UNCHANGED <<lock, champ, fetched, policy, report, slices, gate, busy, regVars, backup>>

-----------------------------------------------------------------------------
(* The registry. *)

\* Mutant: stale outputs are not refused.
RegisterRunStale ==
    /\ Ready /\ Len(runs) < MaxRuns /\ \A r \in DOMAIN runs : runs[r].model # lock.model
    /\ runs' = Append(runs, [model |-> lock.model, eval |-> lock.eval, files |-> FALSE])
    /\ busy' = [cmd |-> "register", of |-> Len(runs')]
    /\ UNCHANGED <<lock, champ, fetched, policy, report, slices, gate, job, versions, challenger, backup>>

\* register(), on fresh outputs: a run is started,
RegisterRun ==
    /\ Ready /\ Len(runs) < MaxRuns /\ \A r \in DOMAIN runs : runs[r].model # lock.model
    /\ lock.eval = lock.model
    /\ runs' = Append(runs, [model |-> lock.model, eval |-> lock.eval, files |-> FALSE])
    /\ busy' = [cmd |-> "register", of |-> Len(runs')]
    /\ UNCHANGED <<lock, champ, fetched, policy, report, slices, gate, job, versions, challenger, backup>>

\* logs the artefacts,
RegisterArtefacts ==
    /\ ~Ready /\ busy.cmd = "register"
    /\ ~runs[busy.of].files
    /\ runs' = [runs EXCEPT ![busy.of].files = TRUE]
    /\ UNCHANGED <<treeVars, versions, challenger, backup>>

\* Mutant: the version is created before its artefacts are logged.
RegisterVersionEarly ==
    /\ ~Ready /\ busy.cmd = "register"
    /\ versions' = Append(versions, busy.of) /\ busy' = None
    /\ UNCHANGED <<lock, champ, fetched, policy, report, slices, gate, job, runs, challenger, backup>>

\* and then a version of it is created.
RegisterVersion ==
    /\ ~Ready /\ busy.cmd = "register"
    /\ runs[busy.of].files
    /\ versions' = Append(versions, busy.of) /\ busy' = None
    /\ UNCHANGED <<lock, champ, fetched, policy, report, slices, gate, job, runs, challenger, backup>>

\* promote(): gated, or forced; the transaction is module ReleaseTransaction's.
Promote(v, force) ==
    LET c == EvalOf(v)
    IN  /\ Ready /\ v # champ.version
        /\ \/ force
           \/ /\ TestMonth[c] = Month        \* the month with evidence
              /\ PromotionGate(c, EvalOf(champ.version), Evidence(report, champ.version), policy)
              /\ GateCovers([model |-> ModelOf(v), eval |-> EvalOf(v)])
        /\ challenger' = champ.version
        /\ champ' = [version |-> v, previous |-> champ.version]
        /\ UNCHANGED <<lock, fetched, policy, report, slices, gate, busy, job, runs, versions, backup>>

\* Mutant: champion.json need not record a previous version.
RollbackAnyway ==
    /\ Ready
    /\ challenger' = champ.version
    /\ champ' = [version |-> champ.previous, previous |-> champ.version]
    /\ UNCHANGED <<lock, fetched, policy, report, slices, gate, busy, job, runs, versions, backup>>

\* rollback(): to the previous version champion.json records.
Rollback ==
    /\ Ready /\ champ.previous # None
    /\ challenger' = champ.version
    /\ champ' = [version |-> champ.previous, previous |-> champ.version]
    /\ UNCHANGED <<lock, fetched, policy, report, slices, gate, busy, job, runs, versions, backup>>

-----------------------------------------------------------------------------
(* registry_backup.py reads the registry in pieces while it changes; its      *)
(* database dump is one snapshot, and a run in the dump has its artefacts in  *)
(* the volume.                                                                *)

Database == [champion |-> champ.version, challenger |-> challenger,
             versions |-> versions, runs |-> Len(runs)]

\* registry_state: the aliases,
BackupAliases ==
    /\ backup.pc = "start"
    /\ backup' = [backup EXCEPT !.pc = "versions", !.state = Database]
    /\ UNCHANGED <<treeVars, regVars>>

\* then the versions,
BackupVersions ==
    /\ backup.pc = "versions"
    /\ backup' = [backup EXCEPT !.pc = "runs", !.state.versions = versions]
    /\ UNCHANGED <<treeVars, regVars>>

\* then the number of runs;
BackupRuns ==
    /\ backup.pc = "runs"
    /\ backup' = [backup EXCEPT !.pc = "dump", !.state.runs = Len(runs)]
    /\ UNCHANGED <<treeVars, regVars>>

\* pg_dump,
BackupDump ==
    /\ backup.pc = "dump"
    /\ backup' = [backup EXCEPT !.pc = "tar", !.dump = Database]
    /\ UNCHANGED <<treeVars, regVars>>

\* and the artefact volume.
BackupTar ==
    /\ backup.pc = "tar"
    /\ backup' = [backup EXCEPT !.pc = "done", !.tar = {r \in DOMAIN runs : runs[r].files}]
    /\ UNCHANGED <<treeVars, regVars>>

\* registry_restore.py --check: the restored registry is what the manifest says
\* and every version's artefacts are there.
CheckArtefacts == \A v \in DOMAIN backup.dump.versions : backup.dump.versions[v] \in backup.tar
RestoreVerified == backup.dump = backup.state /\ CheckArtefacts

-----------------------------------------------------------------------------
Init ==
    /\ lock = [model |-> First, eval |-> First]
    /\ champ = [version |-> 1, previous |-> None]
    /\ policy \in Policies
    /\ fetched = None /\ report = None /\ slices = None /\ gate = None /\ busy = None /\ job = None
    /\ runs = <<[model |-> First, eval |-> First, files |-> TRUE]>> /\ versions = <<1>>
    /\ challenger = None
    /\ backup = [pc |-> "start", state |-> None, dump |-> None, tar |-> {}]

Next ==
    \/ Die
    \/ \E c \in Models : Train(c)
    \/ Evaluate
    \/ \E p \in Policies : EditPolicy(p)
    \/ FetchStart \/ FetchEnd
    \/ \E testMonth \in BOOLEAN : EvalReport(testMonth)
    \/ EvalSlices \/ GateCandidate
    \/ \E c \in Candidates : JobStart(c)
    \/ MergeCandidate \/ CloseCandidate
    \/ RegisterRun \/ RegisterArtefacts \/ RegisterVersion
    \/ \E v \in Version, force \in BOOLEAN : Promote(v, force)
    \/ Rollback
    \/ BackupAliases \/ BackupVersions \/ BackupRuns \/ BackupDump \/ BackupTar

Spec == Init /\ [][Next]_vars

-----------------------------------------------------------------------------
(* Properties *)

Lock     == [model : Models, eval : Models]
RunIds   == 1..MaxRuns
Report   == [version : RunIds, model : Models]
Verdicts == [lock : Lock, version : RunIds, champion : Models,
             report : Report \cup {None}, slices : Models \cup {None}, policy : Policies]

TypeOK ==
    /\ lock \in Lock
    /\ champ \in [version : Version, previous : Version \cup {None}]
    /\ fetched \in Models \cup {None}
    /\ policy \in Policies
    /\ report \in Report \cup {None}
    /\ slices \in Models \cup {None}
    /\ gate \in Verdicts \cup {None}
    /\ busy \in [cmd : {"fetch", "evaluate"}, of : Models] \cup [cmd : {"register"}, of : DOMAIN runs] \cup {None}
    /\ job \in [model : Candidates, version : Version, policy : Policies] \cup {None}
    /\ runs \in Seq([model : Models, eval : Models, files : BOOLEAN]) /\ Len(runs) \in RunIds
    /\ versions \in Seq(DOMAIN runs) /\ Len(versions) >= 1
    /\ challenger \in Version \cup {None}
    /\ backup.pc \in {"start", "versions", "runs", "dump", "tar", "done"} /\ backup.tar \subseteq DOMAIN runs

\* The errors a comparison rests on are those of a model with the aggregate of k:
\* a slice table is tied to a report by that number (check_matches_aggregate).
JudgedAgainst(v, k) ==
    \E table \in Models : MAE(table) = MAE(k) /\ Assess(ModelOf(v), table, policy)

\* A version promoted without --force was weighed on its own artefacts, on the
\* month, under the policy of the day, against the errors the report in the
\* champion's name was computed from, whatever was trained, fetched, rescored,
\* merged, promoted, rolled back or edited since the verdict was written.  They
\* are the champion's own when build/champion held the champion.
PromotionIsJudged ==
    [][champ' # champ =>
         \A v \in Version :
           Promote(v, FALSE) => /\ MAE(ModelOf(v)) < SumAE(FallbackError, Trips)
                                /\ report.version = champ.version
                                /\ JudgedAgainst(v, report.model)]_vars

\* "Evaluate the current champion": a promotion without --force rests on the
\* errors of the champion it replaces, not of one that was fetched before it.
JudgedOnChampion ==
    [][champ' # champ =>
         \A v \in Version :
           Promote(v, FALSE) => JudgedAgainst(v, ModelOf(champ.version))]_vars

\* A backup taken while versions are registered and promoted passes the restore
\* check unless its dump differs from the state read before it: no artefact of
\* a version it lists is missing.
BackupHoldsItsArtefacts ==
    backup.pc = "done" /\ backup.dump = backup.state => RestoreVerified

\* A version stands for one dvc.lock: the metrics in its tags are those of the
\* artefacts it holds, and the files of its run are complete.
VersionIsTraceable ==
    \A v \in Version : ModelOf(v) = EvalOf(v) /\ runs[versions[v]].files
=============================================================================
