# TLA+ verification of nyc-taxi-trip-duration

The repository trains a taxi trip duration model, registers versions of it in
MLflow, promotes one of them to *champion*, deploys the champion to AWS Lambda
and serves it. Its hard part is not the model but the *release*: one decision
that has to reach a registry, four files in git, an image repository, a Lambda
function and a ledger, none of which can be updated together. This directory
holds TLA+ models of those parts, the TLC runs that check them on small
instances, and theorems checked by TLAPS for every instance.

Paths below are relative to the repository root.

## 1. The system

| part | source | state it keeps | operations |
|---|---|---|---|
| Release transaction | `src/tripduration/registry.py:584-1005`, `scripts/promote.py` | two MLflow aliases, four release files, `models/.promotion/` (staged, backup, journal) | promote, rollback, refresh, recover, abort |
| Model registration | `registry.py:110-330` | registered versions and their tags | register |
| Promotion gate | `registry.py:352-519`, `gate.py`, `scripts/gate_candidate.py`, `scripts/prospective_eval.py` | gate reports, prospective reports | evaluate, judge, compare at promotion |
| Release manifest | `src/tripduration/release.py` | `release.json` | hash, write, read |
| Release ledger | `scripts/releases.py` | S3: deployment records with events, `live.json` | put, activate, fail, find, get |
| Deploy workflow | `.github/workflows/deploy.yml` | image tags, Lambda code, versions and `live` alias, pins, ledger | build or restore, check, move, recover |
| Lambda settle and restore | `scripts/lambda_restore.py`, `deploy/aws/lambda.sh` | (Lambda's update status) | settle, restore |
| Image retention | `scripts/ecr_retention.py` | `keep-` tags | pin, unpin, check |
| Serving API | `src/tripduration/api/` | predictor, failure counters | load, predict, health, ready |
| Deployment checks | `scripts/deploy_check.py` | (environment variables of the function) | cold request, checks, replay of the fixture |
| Ingest | `src/tripduration/ingest.py` | raw files, ingest reports, quarantine | ingest_month, ingest_zones, verify |
| Retrain plan and workflow | `scripts/retrain_plan.py`, `.github/workflows/retrain.yml` | candidate branches and PRs | plan, train, push |
| Data pipeline | `src/tripduration/validate.py`, `quality.py`, `prepare.py`, `train.py`, `evaluate.py` | DVC outputs | reject rows, accept months, split, train, evaluate |
| Registry backup and restore | `scripts/registry_backup.py`, `scripts/registry_restore.py` | backup directories | backup, check |
| Champion fetch | `scripts/fetch_champion.py` | `build/champion` | fetch the champion's artefacts |
| Monitoring, CI, infrastructure | the rest | reports | read-only reports, one-shot scripts |

How they interact. The retrain workflow ingests a month, trains, judges the
candidate and opens a PR (branches and files are the shared state). A person
registers the version and runs `promote.py`, which compares the recorded gate
verdict with the live state, then runs the release transaction. Committing
`models/champion.json` starts the deploy workflow, which builds or restores an
image, checks it, moves the alias, and records it in the ledger; a rollback is a
`promote.py --rollback` whose commit makes the workflow look a deployment up in
that ledger. The API process reads what the image contains once, at startup.

What is hard in each part, and what makes it correct:

* **Release transaction**: two systems with no common transaction; death at any
  step, of the command or of the repair; two commands at once. Correct when a
  reader who takes an interrupted operation as not having happened yet sees
  each command happen at once or not at all, and an interrupted one can always
  be finished.
* **Promotion gate**: a verdict is computed from a candidate, a champion, a
  policy and evidence, and used later. Correct when an unforced promotion of B
  over A was judged on exactly that B, A, policy and evidence.
* **Ledger and deploy**: S3 objects read, changed and written without a
  condition; workflow steps that may fail, be skipped or be cancelled; recovery
  steps that may fail too. Correct when a recorded deployment's evidence never
  changes, a deployment that never served production is never restored by
  default, and after a failed deploy what served before serves again.
* **Lambda restore**: updates finish asynchronously and may fail; only one at a
  time. Correct when success is reported only with the previous image running.
* **Retention**: pins are computed from a list read earlier; AWS expires images
  on its own. Correct when neither the serving image nor its rollback target
  can expire.
* **Serving API**: prediction threads share counters with health checks.
  Correct when every request gets a model answer, a baseline answer or a 503,
  and readiness never vouches for a baseline.
* **Deployment checks**: evidence about one process is collected over many
  requests while environments are reused, restarted and recycled. Correct when a
  passed check saw the expected release, a proven cold start was one, and the
  probe variable is gone afterwards.
* **Ingest**: remote files change between HEAD and GET; the process may die
  between the two renames. Correct when an accepted snapshot is only replaced by
  a checked one and a mismatch is always found by the next run.
* **Retrain**: a plan made from a snapshot is executed later. Correct when the
  accepted months stay contiguous, and a push replaces only the commit seen.
* **Data pipeline**: every rule has a null, a boundary or a rounding. Correct
  when what trains is real trips between served zones, and no model is tested on
  a month it saw.
* **Backup**: three reads of a registry in use. Correct when a backup that
  passes its check lacks nothing of what it lists.

`PROJECT.json` lists every hazard at its line, with the properties that cover it
or the reason why none does.

## 2. The modules

| module | models |
|---|---|
| `ReleaseData` | the shape of a release record and of the plans `promote`, `rollback` and `refresh` make |
| `ReleaseRecord` | abstract specification: a command changes both aliases and all four files at once |
| `ReleaseTransaction` | the journalled transaction, one step per change that survives a crash |
| `MCRelease` | symmetry for TLC |
| `ReleaseProofs` | proofs: type correctness |
| `ReleaseSafetyProofs` | proofs: the inductive invariant and the safety theorems |
| `RefinementProofs` | proof: the transaction implements `ReleaseRecord` |
| `ReleaseLedger` | what the commands of `scripts/releases.py` compute from the ledger |
| `ImageRetention` | the lifecycle policy, `release_pins` and `pin` of `scripts/ecr_retention.py` |
| `Deploy` | the deploy workflow over images, pins, function, versions, alias and ledger; composes the two above, and the steps of `lambda_restore.py` |
| `MCDeploy`, `DeployProofs` | symmetry for TLC; proofs |
| `Ingest` | one run of `ingest.py` after another against a source that changes |
| `MCIngest`, `IngestProofs` | instance; proofs |
| `Promotion` | from a trained candidate to a champion: scoring, gate, registration, promotion, and a backup of the registry meanwhile |
| `MCPromotion`, `PromotionProofs` | instance; proofs |
| `MonthData` | which rows `validate.py` keeps, which months `quality.py` passes, how `prepare.py` splits them: operators over a month's trips |
| `Retrain` | the plan and train jobs of the weekly workflow against people, TLC and each other; extends `MonthData` |
| `MCRetrain`, `RetrainProofs` | instance; proofs about both |
| `Predictor` | what an image answers and says of itself, from the files it carries |
| `Serving` | requests, worker threads, processes and environments; extends `Predictor` |
| `DeployCheck` | `deploy_check.py` as one more client of `Serving` |
| `MCServing`, `ServingProofs` | instance; proofs about the three |

### State and code: the release transaction

`alias` is what `resolve_alias` returns for `champion` and `challenger`; `file`
maps `champion`, `meta`, `fixture`, `log` (the keys of `ReleaseFiles.items`) to
contents. Contents are abstract: `champion.json` is the version, the version it
would roll back to, the action that wrote it and the fixture it vouches for;
`champion_fixture.csv` is its version and the platform its predictions were
computed on; `promotions.md` is its rows. A sha256 is the content itself: two
files have the same hash exactly when they are the same. `dir` is
`models/.promotion` and `journal` its `journal.json`; they are separate
variables, and every action that removes the directory removes the journal with
it, because in the code the journal lies inside.

`pc`, `at` and `job` are the process: which phase it is in, which release step
(`champion`, `challenger`, then the four files in the order of their names, as
the journal is written) comes next, and the plan or the copy of the journal it works from. A
process that dies keeps none of the three.

| action | code |
|---|---|
| `Promote`, `Rollback`, `Refresh` | the checks at the top of the three functions and the plan they hand to `_transact` |
| `ClearStaging` | `_transact`: remove any existing staging, create it |
| `StageFiles`, `BackupFiles` | download, build the four files, copy the current ones aside |
| `WriteJournal` | read the aliases and rename the journal into place: the commit point |
| `PrepareFails` | the `except BaseException` of `_transact` |
| `AliasForward`, `Install`, `CannotFinish` | the steps of `_finish`; an installed file is accepted when it is the journalled content |
| `AliasBack`, `Restore` | the steps of `abort` |
| `RemoveJournal`, `RemoveStaging` | the end of both |
| `Recover`, `Abort` | `promote.py --recover`, `--abort` |
| `Crash` | the process dies, or the registry or the disk fails it, between two steps (the `_checkpoint`s) |
| `EditBetween`, `EditDuring` | a person moves an alias or edits a file, outside the program: what `check_consistent` and the sha256 check in `_finish` are there to find |

What is abstracted: the gate (a promotion of any version may be asked for;
`--force` allows it anyway), artefact bytes and their md5 checks (a mismatch is
`PrepareFails`), reasons and dates. Staging and backing up are one step each: a
crash inside them leaves a directory without a journal, which the next command
clears whatever it holds. The read of each record at the start of a command is
one step; with two operators the code could interleave more finely, and the run
with two operators finds its violation without that.

`Init` covers a registry with nothing promoted and one promoted before
`fixture_sha256` existed (the field has a default in `ChampionState`, and
`check_consistent` then compares no fixture).

### State and code: ledger, retention and deploy

`mode` is `deploy/release_mode`; `selected` and `code` are what a release is
built from on main (`champion.json`, and everything else). The cloud is
`images` (every image ever pushed, numbered in order; a number is a digest),
`present` (still in ECR), `pins` (`keep-` tags), `fn` (`$LATEST`: image,
configuration, `LastUpdateStatus`, and the image an update in progress leads
to), `versions` and `gone`, and `live` (the alias). `ledger` maps deployments to
records. A deployment is the tuple its S3 key is made of (release, image
digest, version, configuration); a hash is what it is a hash of. `pc` is the
workflow's next step and `run` the run's environment (`GITHUB_ENV`), with two
fields that are history: `before`, what served when it began, and `stuck`,
whether a recovery step failed. Three more variables are history: `lost` (a run
left production elsewhere than meant, or live but not recorded as activated),
`passed` (deployments that passed every check on production) and `target` (the
image the live one took over from).

Each workflow step that reads or writes what others may change is an action, in
the order of `deploy.yml`:

| `pc` | actions | step of `deploy.yml` |
|---|---|---|
| `idle` | `StartBuild`, `StartRestore`, `StartRefused` | plan: build a release or restore a recorded one |
| `record` | `RecordServing` | serving image and pins |
| `build` | `ReuseImage`, `BuildImage` | reuse the tagged image or build and push |
| `pin` | `PinImages`, `PinRefused`, `PinStops` | pin both images, dry run of the lifecycle policy |
| `mode` | `ReadMode` | release mode and `PREV_VERSION` |
| `update`, `settle` | `UpdateFunction`, `UpdateRefused`, `UpdateSettled`, `Deadline` | `latest` mode: update production and settle |
| `publish`, `published` | `ReuseVersion`, `PublishRefused`, `UpdateCandidate`, `PublishVersion`, `PublishFailed`, `Deadline` | `alias` mode: candidate version without traffic |
| `check` | `DeployCheck` | deploy check of the candidate |
| `put` | `RecordVerified`, `RecordRefused`, `RecordUnseen` | `releases.py put` |
| `move` | `MoveAlias`, `MoveFails` | alias |
| `url` | `CheckUrl` | checks over the Function URL, drills |
| `keep`, `activate` | `KeepPins`, `KeepPinsFails`, `Activate`, `ActivateFails` | bookkeeping that does not fail the run |
| `restore`, `restored` | `NothingToRestore`, `RestoreImage`, `ImageRestored`, `RestoreFails` | `failure()`: `lambda_restore.py restore` |
| `aliasBack`, `pinsBack`, `recordFailed` | `AliasBack`, `PinsBack`, `RecordFailed` and their failures | the other `failure()` steps |

`StepFails` lets every step up to the URL check fail of itself (a scan, a smoke
test, a denied call, a drill). `Cancel` ends a run anywhere: a cancelled run is
not a failed one, so no `failure()` step runs. Around the workflow, `Select` is
a merged promotion or rollback, `ChangeCode` any other merge, `ChangeConfig` a
run of `lambda.sh`, `DeleteVersion` a person, `Expire` the lifecycle policy and
`UpdateEnds` Lambda. All but the last two are taken between runs only, since a
run works from its own checkout; `ChangeConfig` also during runs when
`ConfigChanges = "any"`, because `lambda.sh` is outside the concurrency group.

What is abstracted: scans, smoke tests and checks are outcomes; what a
deployment answers is a value chosen anew at each check, so a check that finds
other predictions than recorded is possible everywhere. `put` may refuse what is
recorded already (`RecordRefused`): other predictions, or a manifest of the same
release built from another commit, since a release's identity does not name the
commit and its manifest does; only a restore surely brings the recorded one.
Lambda accepts one
update at a time, finishes it later, on the new image or `Failed` with the old
one; publishing what is already published returns the version it was. The retry
of `lambda_restore.py` after a conflict is left out. `Init` is a function served
from a pinned image, with the ledger empty or seeded by one deploy, as the
runbook's first deploy and seeding leave it. The legacy role, with which the
ledger and pins are skipped, and the move from one release mode to the other
are not modelled.

### State and code: ingest

`source` and `health` are TLC's site, `raw`, `report` and `quarantine` the local
disk, `pc`, `todo`, `force`, `attempt` and `etag` the run. A content stands for
its bytes, its md5 and the ETag the source gives it. A run ends as `main()`
does: after its list, or where an exception is not caught.

| action | code (`ingest.py`) |
|---|---|
| `StartRun` | `main` with its months or `--zones`, with or without `--force` |
| `HeadMonth` | `ingest_month`: HEAD, and the comparison with the report and the local file |
| `HeadRefused`, `Control` | `_classify_absent`: overdue, already ingested, or ask the control object |
| `HeadFails`, `Retry` | `_with_retries` |
| `Download` | `download`, `_download_to_quarantine` |
| `Check` | `check_schema` (`raw_schema.py`), or the header of the zone lookup |
| `Install` | `quarantine.replace(out_path)` |
| `WriteReport` | `_write_report` |
| `Crash` | the process dies between two of these |
| `SourceChanges`, `Outage`, `Recover`, `NextMonth` | the site publishes, republishes or withdraws; answers 403 for everything or fails; the calendar |
| `Damage` | the local file is deleted or altered by something else, between runs |

What the model takes for granted:

* Acceptance looks at column names only. A file with one column under two
  spellings passes `check_schema` (the instance has one), and so does one whose
  types or values cannot be cast; `normalise`, in the first pipeline stage,
  refuses both (`raw_schema.py:124-127`). `AcceptedIsChecked` promises what the code
  does: what is installed was served by the source for that month and passed
  the check of its header. Types and values are not modelled.
* The report pairs the ETag of the HEAD with the bytes of a later GET
  (`ingest.py:482`). If the source changes between the two and later comes back
  to the first content, the skip rests on the length alone; `SourceChanges`
  therefore brings a content back only if no other content has its length.
  Without that conjunct `SkipIsCurrent` fails: this is the exact boundary of what
  the code promises, and a return of equal length is beyond it.
* Leftovers in quarantine are dropped at the end of a run, since no run reads
  those of another. There is one ingest at a time.

`verify_raw` goes by the reports: it sees neither the zone lookup nor a file
without a report, which is why `AnsweredIsVerified` and `Converges` speak of what
a run has answered or the source rests on.

### State and code: promotion

The tree's files are `lock` (`dvc.lock`: the model it names and the one last
evaluated), `champ` (`champion.json`), `policy` (`params.yaml`), `report`,
`slices` and `gate` (`reports/monitoring/`); `fetched` is `build/champion`, which is not
in git and stays until the next fetch. `busy` is the command between two of
its steps, `job` a retrain job's checkout or its branch. The registry is `runs`,
`versions` and `challenger`. A model stands for its bytes, its lock, its
evaluation and its slice table: hashes that bind them are equalities. A gate
report that fails is `None`, because only a passing one can be used.

| action | code |
|---|---|
| `Train`, `Evaluate` | `dvc repro`, the stages of `train.py` and `evaluate.py` |
| `EditPolicy` | a commit to `params.yaml` |
| `FetchStart`, `FetchEnd` | `fetch_champion.py`: `build/champion` is removed, then filled with the champion of that moment |
| `EvalReport`, `EvalSlices` | `prospective_eval.py`: the report, with the version of `champion.json` and the errors of whatever `build/champion` holds, then the slice table |
| `GateCandidate` | `gate_candidate.py` with `gate.assess` and `registry.promotion_gate`, and the binding |
| `JobStart`, `MergeCandidate`, `CloseCandidate` | a retrain job's fetch, scoring and gate on its own checkout, unless its champion has seen the month, and what becomes of its branch |
| `RegisterRun`, `RegisterArtefacts`, `RegisterVersion` | `registry.register` |
| `Promote`, `Rollback` | `registry.promote` with `gate_report_reasons`, or forced; `registry.rollback` |
| `BackupAliases`, `BackupVersions`, `BackupRuns`, `BackupDump`, `BackupTar` | `registry_backup.py`, one per read; `CheckArtefacts` and `RestoreVerified` are the check of `registry_restore.py` |
| `Die` | a command dies between two of its steps |

What is abstracted. The transaction of a promotion is `ReleaseTransaction`'s; here
it is one step. `gate_candidate.py` is one step (one process, reading files of one
tree). A retrain job fetches into a fresh checkout right before it scores, so
its `build/champion` is its champion. The bootstrap's lower bound is above zero when every day improves, which
is what it amounts to with as few days as an instance has. A branch built on
other files than those now committed conflicts and is given up (`job' = None`).
A model is registered once. Training runs that are logged to the same registry
are not counted among `runs`. The report and the
slice table are tied to each other by one number only, the month's aggregate
(`check_matches_aggregate`): `JudgedAgainst` therefore speaks of errors with the
report's aggregate, and two models whose errors add up to the same are not told
apart. `PromotionIsJudged` says that an unforced promotion was weighed against
the errors behind the report in the champion's name. Whether they are the
champion's own is `JudgedOnChampion`, which the code does not keep
(`promotion_stale`). A gated slice on which the champion has no error has no
ratio, and counts as regressed.

### State and code: the month's data and retrain

`MonthData` is operators only: `Invalid`, `DuplicateTrip` and `Kept` are the masks
of `validate.py` with its null semantics, `Quality` the rules of `quality.py` with
their six-digit rounding, `Splits` and `Split` the sequence and the split of
`prepare.py`, `Repro` the pipeline that stops at a refused month. `Implausible`
is a set of files that fail the percentile, dominant-pair or other-column rules.

`Retrain` keeps `published` (TLC), `main` (month to file), `branches` and `prs` (the
candidates), `run` and `pending` (the concurrency group).

| action | code |
|---|---|
| `Schedule`, `Dispatch` | the triggers of `retrain.yml`; with a run in progress the new one waits, and replaces one that waits |
| `ListCandidates` | `gh pr list` of the plan job |
| `Plan` | `git ls-remote`, then `retrain_plan.py`: chain, refusals, carry, lease, publication |
| `CarryOne` | the train job: fetch one candidate's pointer |
| `IngestAndRepro` | ingest the month, `dvc repro` |
| `Push` | `git push`, with a lease or plain |
| `OpenPr` | open or update the candidate's pull request |
| `Publish`, `Republish` | TLC |
| `Label`, `Close`, `Merge`, `UpdateBranch`, `DeleteBranch` | people |
| `Die` | a cancelled job, a lost runner, a failed request |

What is abstracted. A commit's identity needs to differ only from those a run
still knows of, so identities are reused (`FreshSha`). A merge is refused where
two months' files conflict; people merge no rejected month. A plain push is
refused when the branch exists. Updating a pull request leaves its state and
its `data-rejected` label as they are; `LaterMonthsWait` speaks of the labels a
run has seen, and a label set later stops nothing. The scoring between `dvc
repro` and the push ends a job with exit 2 when the champion was trained on the
month (`retrain.yml:198-203`). Champions are taken to be trained on months of
main, and a month of main is never trained again; a champion registered from a
branch that is never merged would stop its month for good, and
`NewMonthsArrive` leaves that out.

Two things the code does that a reader of its comments may not expect, both in
the model: a run that waited checks out the main of its *trigger*
(`retrain.yml:76`, against the comment at 43-46), and a null in one zone column
hides an invalid zone in the other from `validate.py:125`, so that the null
ceiling of `quality.py:96`, rounded to six digits, is what keeps such rows out.
In a month of more than two million rows one may pass: `DataIsFit` says exactly
how many.

### State and code: serving and its check

`Predictor` is what `deps.py` decides at load: `Kind`, `Label`, `Status` and
`ReleaseId` of an image, which is a record of the usability of its files.
`Serving` adds the `env`ironments with the process in each (its counters and the
failure flag), the limiter's `queue`, and one `req`uest per client. Two things are
history: `latest`, the outcome of the model's last prediction, and `asked` in a
reply, what became of the model and of the table when this very request asked
them. `AnswerIsHonest` compares the two sides: the kind, version and status the
client reads with what was asked and what came of it.

| action | code |
|---|---|
| `Send` | the two middlewares and validation; what is answered on the event loop (`Immediate`), what is queued |
| `Start` | `off_loop`: the capacity limiter, first come first served |
| `Predict`, `Record`, `AnswerFallback` | `Predictor.predict`: the model without a lock, its outcome under it, the table or 503 |
| `Receive` | the client has the reply |
| `Crash`, `Reclaim` | the process dies and restarts in its environment; Lambda gives an idle one up |

`DeployCheck` is `deploy_check.py`:

| action | code |
|---|---|
| `Recycle`, `Wait`, `Restore` | `recycle_environments`, its waiter, `restore_environment` in the `finally` |
| `AskFirst`, `Platform` | the cold request and the two proofs of it: the process's count, the platform's log |
| `Ask`, `Take` | the sequence of checks and the replay of the fixture |
| `TimeOut` | an exception on the way of a request |

A batch takes the path of a single prediction. A fixture row matches when the
model answered it: the table's answers are taken to lie outside the tolerance.
Latency budgets and published metrics are left out, because time is.
`StatusIsLatest` holds for one worker, which is what `params.yaml` sets
(`predict_workers: 1`); with two, a thread's success resets the counter another
has just raised (`deps.py:381`), and the property fails. `CheckedIsServed` speaks of
the release and the model: that the table is of another release fails no check.
`ProbeRemoved` promises
nothing when a call to AWS failed: the waiter after the update is outside the
`try`, and nothing removes the variable then.

## 3. The runs

| run | instance | shows |
|---|---|---|
| `release_transaction` | 2 versions, 2 platforms, one operator, log of at most 3 rows, 2 deaths, hand edits between and during operations | `TypeOK`, `RecordIsWhole`, `LogIsAChain`, `NothingBeforeJournal`, `JournalOutlivesOperation`, `ImplementsRecord` hold |
| `release_recovery` | 2 versions, one platform, 3 deaths, only `--recover` | `Resolved` holds under fairness |
| `release_concurrent` | two operators | `ClearsOnlyUncommitted` is violated (finding) |
| `deploy` | both modes, 2 models, 2 codes, 2 configurations, 2 predictions, 2 runs, 2 faults, 2 edits; only the newest image is kept without a pin | `TypeOK`, `DeployedIsLive`, `DefaultRestoreServed`, `ServingImageKept`, `OnlyVerifiedGoLive`, `FailedDeployGoesBack`, `RestoredAsRecorded` hold |
| `deploy_rollback_found` | alias mode, one fault | `ActivatedIsFound` is violated (finding) |
| `deploy_rollback_image` | alias mode, no fault, 3 edits | `OneStepRollbackFindsImage` is violated (finding) |
| `deploy_restore_config` | alias mode, no fault, `lambda.sh` at any time | `RestoredAsRecorded` is violated (finding) |
| `ingest` | 2 months and the zone lookup, 4 contents, one retry, 2 changes of the source, one fault | `TypeOK`, `AcceptedIsChecked`, `SkipIsCurrent`, `UnpublishedIsTrue`, `AnsweredIsVerified` hold, and `Converges` under fairness |
| `promotion` | a champion and 2 candidates, 3 trips on 2 days, 3 slices, 2 policies, 3 registrations, a backup | `TypeOK`, `PromotionIsJudged`, `VersionIsTraceable`, `BackupHoldsItsArtefacts` hold |
| `promotion_stale` | the same, one policy, no retrain job and no backup | `JudgedOnChampion` is violated (finding) |
| `retrain` | months 1-3 on main, 4 and 5 to come, 3 files, 4 kinds of dispatch, 3 interventions | `TypeOK`, `NoGap`, `DataIsFit`, `TestedOnItsMonth`, `LaterMonthsWait`, `NothingVanishes` hold, and `NewMonthsArrive` under fairness |
| `serving` | 5 images, the checker and another client, one environment, one worker, one crash | `TypeOK`, `StatusIsLatest`, `AnswerIsHonest`, `CheckedIsServed`, `ColdIsFirst`, `ProbeRemoved` hold, and `EveryRequestAnswered` under fairness |

Why the bounds are enough to be interesting: two versions give a champion and a
challenger, a promotion of the champion itself, and every rollback; three rows
allow promote, rollback and a further command in one behaviour, each started
from a record a previous one left; two deaths allow the command and its repair
to die, in either direction, and a third process to end the operation. Two
platforms let a refresh change the fixture without changing the version. Hand
edits of a finished record are the reason `check_consistent` exists; hand edits
of an interrupted one are the reason `_finish` compares hashes.
`release_concurrent` switches deadlock checking off because two operators can
leave each other without a directory to work in, and the process then fails.

In `deploy`, the starting state stands for a history already (a live,
recorded, activated deployment), so two runs are a failed or cancelled one and
the one that starts from what it left, or a deploy and a restore of what was
live before it. Two faults allow a step and one of its recovery steps to fail,
or a failure in each run. Two edits allow a promotion and a deleted version or a
changed configuration, hence a restore that has to publish again. `KeepNewest`
is 1 instead of 5 so that images expire within two runs, also one whose pin was
taken off by a run that could not go back; `MaxPins` is 6 instead of 10, above
what two runs can pin: ten cancelled runs in a row, which leave a candidate
pinned each, are out of reach, and the rule for pins would then expire the
oldest ones (with `MaxPins = 3` TLC shows a rollback target expiring).
`FewFaultsKeepServedImages` proves that it takes so many: any number of runs,
of which up to `MAX_PINS - 3` steps fail or are cancelled, is safe.
Deadlock checking is off because the bounds let the system stop.

The properties of `deploy` say when they hold. `DeployedIsLive` and
`ServingImageKept` except runs that were `lost` (cancelled with production
changed, or live without its bookkeeping) or `stuck` (a recovery step failed):
the workflow fails loudly there and promises nothing. `FailedDeployGoesBack`
excepts a stuck run. `OnlyVerifiedGoLive` and `DefaultRestoreServed` have no
exception: not even a cancelled run puts an unrecorded version behind the alias,
or makes an unproven deployment the default of a rollback.

In `ingest`, month 1 is overdue once the calendar moves and month 2 is not, so an
absent month is classified both ways. Two contents have one length: only the
ETag tells them apart, and one of them has a column under two spellings; the third has
an unknown column. Two changes of the source allow a
republication between HEAD and GET and another after it, and one fault is a
crash, an outage or a damaged file, whichever comes: the properties relate at
most two of these, and each pair of a change and a fault is there.

In `promotion`, candidate A is better on every day and a little worse on one
slice, which one policy accepts and the other does not; B is better everywhere, but than A
on average only. So a verdict can be right for one champion or policy
and wrong for another, and three registrations let both be promoted, over each
other and back. Two constraints bound the run only: with `BackupBound` a backup is
interleaved with registrations and forced promotions of a tree without evidence,
as evidence and backup never meet; with `JobBound` a retrain's branch is open only
while no verdict passes in the tree, since merging it replaces the verdict.
The theorems have no such bound. Deadlock
checking is off because a registry at its bound with everything trained may rest.

In `retrain`, the two new months make a chain, hence a candidate that another
one carries, and a gap when the first is refused, rejected, closed or rebuilt.
Three interventions let a person and a republication come between a plan and its
push, with a label or a dead job before them. The third file has a trip with a
null zone next to an invalid one, which only the null ceiling keeps out. Four
identities are what the commits known to two runs and a branch need.
Deadlock checking is off as the spec may rest when no run is wanted.

In `serving`, the images are a good one, one of another release, a model that is
not the champion's without a table, a table that is not the champion's without a
model, and one that serves nothing. One environment is the hard case for the
cold request: it is reused, restarted and recycled. `MaxSeen` and `Rows` need to
tell the first request from a later one only. Deadlock checking is off because
the check ends.

Each property was checked to fail when the code is changed in a plausible way
(the `mutants` of `PROJECT.json`, defined next to what they change and marked
`Mutant:`): rollback without its previous_version check, installation that takes
a missing staged file for installed, an abort that leaves the log, aliases moved
before the journal, a command that does not look for a journal, a promotion
without the consistency check, a recovery that stops at an installed file;
`live.json` written on verification, a default restore that does not ask for an
activation, `$LATEST`'s configuration recorded for a version, `ALIAS_MOVED` set
after the call, pins put back without those read first, or without having read
any, a restore that compares configurations in `latest` mode only; a skip that
asks only for a local file or does not compare lengths, a refused HEAD read as an
absent month at once, an unknown column let through, one retry too many, a
report written once; a verdict bound to the candidate and the champion's number
only, a version before its artefacts, stale outputs registered, a rollback to
nothing; a rejected month that does not hold the
later ones, a gap allowed, a rebuild that carries later candidates, a push
without a lease, a lease for open candidates only, null rates not enforced; any
number of workers, a table's answer under the label of what was loaded, a fallback that must exist,
variables restored after an answered request only, a cold start proven by the
process's own count, a release that is not compared.

`ImplementsRecord` is the refinement: `ReleaseTransaction` implements
`ReleaseRecord` under the mapping that reports, while a journal exists, the
journal's `before` aliases and the files set aside. The whole transaction is
then a stuttering step except the removal of the journal, which is one command
of `ReleaseRecord` when it ends forward and a stuttering step when it ends
backward. Hand edits of an interrupted operation do not show: whatever they did
is overwritten by either end.

### Fairness

`FairSpec` adds weak fairness of a started process's own steps (a process that
does not die runs on) and strong fairness of the two repairs. Strong, because
between two deaths the repair is enabled again and again, not continuously; it
is justified by the code refusing every other command, with a message that names
the two repairs, for as long as the journal exists. Deaths are bounded by
`MaxCrashes`: nothing ends if every process dies. Starting a command, failing to
prepare, crashing and editing have no fairness. `Resolved` is checked with
`--recover` alone, the harder case: `--abort` never looks at the files it
overwrites, so it cannot be stopped by one.

The other three specifications with fairness:

* `Ingest`: weak fairness of a run's steps and of the end of an outage, and strong
  fairness of each request without `--force`: the weekly workflow and its
  operators make it again and again. Strong, because a request can be made only
  between runs. The faults and the source's changes are bounded; a site that
  republishes for ever is never caught up with.
* `Retrain`: weak fairness of the run's steps and of the schedule, which GitHub
  triggers every Monday. Nothing is asked of people: `NewMonthsArrive` holds
  though a dispatched month is dropped by a third run. Weak fairness of
  `Schedule` is on `<<run, pending>>`, so that a trigger that changes neither
  counts for nothing.
* `DeployCheck`: weak fairness of each request's next step inside the server. A
  running thread goes on, and `anyio` wakes the first in line; no client and no
  check is fair.

### Findings

* `release_concurrent`: nothing makes two `promote.py` processes exclude each
  other. The one that looked for a journal first can clear the staging
  directory, and the journal in it, after the other has committed.
* `promotion_stale`: `prospective_eval.py` takes the version from `champion.json` and
  the model from `build/champion`, and compares neither with the other. After a
  promotion, a scoring without a new fetch writes the old champion's errors
  under the new one's version; gate, binding and `promote.py` accept them, and
  the next candidate is promoted on them. A `champion.json` lies beside the
  fetched model, so the comparison would cost a line.
* `deploy_rollback_found`: the failure step records `activation_failed` for the
  deployment a run verified, also when that is the deployment which served
  before and still does. It is then no longer what a rollback finds, and a
  failed rollback cannot be run again by default.
* `deploy_rollback_image`: the pins keep the image that served before. After a
  second deploy of the same model that is not the image of the previous model,
  which may expire, and a one-step rollback fails.
* `deploy_restore_config`: a replacement version's configuration is recorded but
  not compared, so a change of it after the comparison with `$LATEST` goes live
  as the restored release.

Without a run of its own: a forced second promotion of the current champion
makes it its own `previous_version` (`registry.py:895`). The record stays whole,
and the version it replaced can no longer be rolled back to, although ADR-0007
calls promotion reversible.

## 4. The proofs

`TypeCorrect` (`Spec => []TypeOK`) holds for any number of operators. The
safety theorems assume `OneOperator` (`release_concurrent` shows they are false
without it) and nothing else but the named assumptions on constants: `None` is
not a version, a platform, a file's content or a journal, there is a platform,
and the bounds are numbers. They hold for every set of versions and platforms,
every length of the log and every number of deaths.

`RecordIsWhole` is not inductive: nothing in it says why the journal may be
removed. `IInv` adds

* `JournalInv`: while a journal exists both its ends are one release (`Recorded`
  and `Consistent`), staging holds only journalled content, the copies set aside
  are what existed, and the log on disk is one of the two ends' logs;
* `PrepareInv`: a preparing process works without a journal, on a plan that
  leads from the record at hand to one release, and what it has staged and set
  aside is what that plan and that record say;
* `ReleaseInv`: a releasing process works from the journal itself, and every
  release step before its `at` has taken effect (`StepsDone`).

At the last step `StepsDone` says that all six steps have taken effect, so the
record *is* one end of the operation (`AllStepsDone`), which `JournalInv` says is
one release; that is `RecordStaysWhole`, and `JournalOutlivesItsOperation` on the
way. `LogStaysAChain` comes from the two ends' logs and the lemma that a row
which starts where the log ends keeps the chain (`ChainGrows`,
`PlanLeadsToOneRelease`). `NothingChangesBeforeJournal` is `ReleaseInv` read the
other way: without a journal nobody releases. The proof that a step keeps `IInv`
has one lemma per group of actions (`BeginInv`, `PrepareStepInv`, `FinishInv`,
`UndoInv`, `OtherStepsInv`, `EditsInv`). TLC checks `IInv` as an invariant of
the `release_transaction` instance too.

The modules added later are proved from an inductive invariant each, with a
lemma per action or group of actions. The theorems hold for every value of the
constants; what they assume beyond the named assumptions of the modules is in
their statements.

* `IngestProofs` (`IInv` = type, `SourceOK`, `ReportsOK`, `RunOK`,
  `AcceptedIsChecked`). The heart is `Paired`: the ETag and the bytes of one
  report differ only if the source has left that ETag since, and then it comes
  back to it only with a length that tells it from every other content. With
  that, a skip is right (`SkippedMonthsAreCurrent`). `RunOK` says what a run
  knows: in `control`, that the HEAD was refused because of an outage or an
  absent month unless the source `moved` (`UnpublishedMonthsAreAbsent`).
* `PromotionProofs` (`IInv` = type, `Counted`, `RunsTraceable`, `GateIsSound`,
  `BackupTyped`, `BackupSound`). `GateIsSound` says of a recorded verdict what was
  true when it was computed, in terms of what it is bound to, so that nothing
  that happens to the tree can disturb it; `PromotionsAreJudged` then needs the
  binding and that `None` is not a verdict (`NoneIsNoVerdict`), and holds whatever
  `build/champion` held. `PromotionsAreJudgedOnTheChampion` adds the one premise the
  code does not check: if the model scored has the champion's aggregate, the
  assessment was on errors with that aggregate. `BackupsAreComplete` rests on
  `Grown`: the registry only grows, runs keep what they logged.
* `RetrainProofs` (`IInv`: data on main, in branches and in runs pass the rules
  and have no gap, a branch is tested on its month). `PassingIsFit` relates the
  rules of `quality.py` and `validate.py` to what `DataIsFit` asks, from
  `FilesAssumption` (no null zone tolerated); `SplitIsRight` and `PlanFollows`
  are what `prepare.py` and `retrain_plan.py` compute. They assume
  `MonthsAssumption` (the months are those from the first on), `EnoughShas` (four
  identities, so that a fresh one exists) and that `None` is no record.
* `ServingProofs` (`ServingOK` for the service, `CheckOK` for its check). Every
  reply is `Honest` about an image that does not change (`AnswersAreHonest`): a request
  that has `failed` was failed by the model, and one that is answered by the table
  either was, or has no model to ask (`Justified`); the checker's `step`
  says what it has seen (`SeenOK`), whether its cold request started the
  environment (`ColdOK`) and where the probe variable is (`ProbeOK`).
  `StatusIsOfTheLatest` assumes one worker and adds `StatusOK`: at most one
  outcome per environment is computed and not recorded.

### The refinement

`TransactionImplementsRecord` is `ImplementsRecord` for one operator. The mapping
is a step-by-step one: a prepared operation does not show, the removal of the
journal is the command. `IInv` says at that moment that the record *is* one end
of the operation, but not that a command of `ReleaseRecord` leads from the one
end to the other. `CommandInv` adds it: a preparing process still holds a plan
which its command asks for of the record at hand, and a journal leads from the
record it set aside to what one command makes of it (`PromotePlan`,
`RollbackPlan` or `RefreshPlan` on one platform). `CommandIsOneStep` turns that
into the abstract action; every other step, a death and a hand edit of an
interrupted operation change nothing that shows.

### Deploy

All the properties of `deploy` are theorems, for any models, configurations,
runs, faults and edits. None is inductive: each is about what an earlier step
found, recorded in `run`, and what AWS, a failed step or an earlier run made of
it since. The inductive invariant has a part for each thing a run must not lose
track of:

* `TypedInv`, the type and, per step, what `run` has found by then (`FoundOK`),
  what a mode leaves unset (`ModeOK`), and that the candidate runs the image of
  the run and the recorded deployment is that candidate (`CandidateOK`). It gives
  `DeployTypeCorrect` and, with the last recorded event of the deployment at
  `move`, `NothingUnrecordedGoesLive`.
* `ServesInv`. `AliasInv`: the alias is on the version it was on or on the
  candidate, and on the former as long as `ALIAS_MOVED` is unset and once it was
  put back. `LatestInv`: the same of `$LATEST` and of the update in progress, which
  may end after the run that asked for it. `LiveJsonInv`: `live.json` names what
  serves, or, during a run, what served at its start. They give
  `FailedRunGoesBack` and `LiveJsonNamesWhatServes`.
* `PassedInv`: only what passed every check on production is ever recorded as
  activated, and `Find` returns only that (`LatestIsActivated`):
  `RollbackRestoresWhatPassed`.
* `VersionsInv` and `RestoredInv`: a recorded version has the recorded image and
  configuration, and so has the candidate of a restore. `RestoreIsAsRecorded`
  assumes `ConfigIsKept`, that `lambda.sh` is run between runs only;
  `deploy_restore_config` shows the property false otherwise.
* `PinsInv`: what serves, what a run may have to go back to and the rollback
  target are pinned. AWS takes no pin away as long as there are at most `MaxPins`
  (`PinsFit`, `PinnedIsKept`), and then a pinned image is in the repository:
  `ServedImagesStay` is `Spec /\ []PinsFit => []ServingImageKept`.
* `FewInUse`, why the pins do fit. The images in use (pinned, serving or about to
  serve) grow by at most one with every fault: a run adds its own image
  (`Within`), and unless a step of its recovery fails it ends with what was there
  before or with its own image and the one it took over from (`Clean`,
  `KeepsTwo`). `FewFaultsKeepServedImages` needs `MaxFaults + 3 <= MaxPins`, which
  the instance has (2 and 6), and no bound on the number of runs: two images in
  use between runs, and one that a run builds. With the 10 of the code that is
  seven faults.

TLC checked the parts as invariants of instances of `Deploy` first, `FewInUse`
with `MaxPins = MaxFaults + 3`. The proofs are laid out by field: a lemma says
which actions write a variable (`CloudWrites`, `RecordWrites`, `RunsWrites`,
`WritingWrites`) and from where a step of the run is entered (`EnteredFrom`,
`LeftFrom`), so that a part of the invariant is argued only for the actions that
can disturb it. The facts about the ledger's operators come before them: `Now` is
later than every event (`NowIsLater`), recording keeps what is recorded
(`PutAdds`, `EventAdds`), and `Find` returns an activated deployment.

### What is only model-checked

Liveness (`Resolved`, `Converges`, `NewMonthsArrive`, `EveryRequestAnswered`) is
out of the prover's reach, and the counterexamples of the five findings are TLC's.
Every invariant, every action property and the refinement that a passing run
checks is stated by a theorem.

## 5. What is left

The composition of `Deploy` with the release transaction through the committed
`champion.json`, and of `Promotion` with `ReleaseTransaction` for the alias
moves, if the instances stay small. That a deploy which succeeds brings the images
in use back to two whatever failed before it would make the bound of
`FewFaultsKeepServedImages` one on the faults since the last success.

Not modelled, and why:

* The release manifest (`release.py`, its hashing and schema): an identity in
  `Deploy` and `Predictor`; what is computed is a hash of a list of files.
* Of champion fetch, the hashes and the network: `Promotion` models what
  `build/champion` holds, `Deploy` takes an image's model as the champion's.
* Fitting, predicting, feature values, percentiles and the bootstrap's numbers:
  numerical code. The model keeps their inputs and the comparisons made of them.
* Monitoring, reports, CI: they read state and change none of it.
* Infrastructure scripts: run once by hand, each step idempotent.
* Of the modelled components: the legacy deploy role and the move between release
  modes; the retry of `lambda_restore.py` after a conflict; the upload, file
  hashes and containers of backup and restore; the provenance tags of
  `register.py`; latency, metrics and drills of the deployment checks.
