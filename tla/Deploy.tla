-------------------------------- MODULE Deploy --------------------------------
(***************************************************************************)
(* The deploy workflow, .github/workflows/deploy.yml, one action per step  *)
(* that changes or reads what another run, a person or AWS may change: the *)
(* image repository, the Lambda function, its versions and the alias live, *)
(* the pins and the release ledger.  A step may fail anywhere, which       *)
(* starts the recovery steps (if: failure()), each of which may fail too;  *)
(* and the run may be cancelled anywhere, which starts nothing.  One run   *)
(* at a time: the concurrency group.                                       *)
(***************************************************************************)
EXTENDS ReleaseLedger, ImageRetention

CONSTANTS
  Models,        \* model versions (champion.json names one)
  Codes,         \* everything else a release is made of
  Configs,       \* Lambda configurations (memory, timeout, environment, ...)
  Predictions,   \* what a deployment can answer on the fixture grid
  Modes,         \* the release modes that are checked: {"alias", "latest"}
  ConfigChanges, \* when lambda.sh changes the configuration: "idle" or "any"
  MaxRuns,       \* bound: runs of the workflow
  MaxFaults,     \* bound: failed or cancelled steps, failed updates, deadlines
  MaxEdits       \* bound: promotions, code and configuration changes, deletions

Releases == [model : Models, code : Codes]

Deployments ==
  [release : Releases, image : Nat, version : Nat \cup {None}, config : Configs]

ASSUME DeployAssumption ==
  /\ Models # {} /\ Codes # {} /\ Configs # {} /\ Predictions # {}
  /\ Modes \subseteq {"alias", "latest"}
  /\ MaxRuns \in Nat /\ MaxFaults \in Nat /\ MaxEdits \in Nat
  /\ None \notin Models \cup Codes \cup Configs \cup Predictions \cup Nat
  /\ None \notin Releases \cup Deployments

VARIABLES
  mode,       \* deploy/release_mode
  selected,   \* models/champion.json on main: the selected champion
  code,       \* the rest of main
  images,     \* every image ever pushed, in order: its release and its tag
  present,    \* the images that are still in the repository
  pins,       \* the images with a keep- tag
  fn,         \* the function's $LATEST: image, configuration, update status
  versions,   \* the published versions, 1..Len(versions): image, configuration
  gone,       \* the versions that were deleted
  live,       \* the version the alias live names
  ledger,     \* the recorded deployments
  liveJson,   \* releases/live.json: a deployment, or None
  pc,         \* the workflow's next step; "idle" when no run is in progress
  run,        \* the run's environment (GITHUB_ENV)
  lost,       \* history: a run ended with production left where it was not
              \* meant to be, or live without being recorded as activated
  passed,     \* history: the deployments that passed every check on production
  target,     \* history: the image the live one took over from
  runs, faults, edits    \* how much of the bounds is used up

cloud == <<images, present, pins, fn, versions, gone, live>>
ledgers == <<ledger, liveJson>>
inputs == <<mode, selected, code, edits>>
history == <<lost, passed, target>>
vars == <<inputs, cloud, ledgers, history, pc, run, runs, faults>>

\* What callers reach: the version behind the alias, or $LATEST.
Serving ==
  IF mode = "alias" THEN [image |-> versions[live].image, version |-> live]
  ELSE [image |-> fn.image, version |-> None]

NoRun ==
  [release |-> None, fresh |-> FALSE, restored |-> None,
   image |-> None, liveImage |-> None, oldPins |-> {}, prevVersion |-> None,
   prevImage |-> None, updating |-> FALSE, candidate |-> None, served |-> None,
   deployment |-> None, aliasMoved |-> FALSE, before |-> None, stuck |-> FALSE]

\* The ledger is not seeded yet, or one deploy has recorded what serves.
StartingLedger(m, c, k) ==
  LET d == [release |-> [model |-> m, code |-> c], image |-> 1,
            version |-> IF mode = "alias" THEN 1 ELSE None, config |-> k]
      empty == [e \in {} |-> None]
  IN \/ ledger = empty /\ liveJson = None /\ passed = {}
     \/ /\ \E p \in Predictions : ledger = Event(Put(empty, d, p), d, "activated")
        /\ liveJson = d
        /\ passed = {d}

\* An image serves and is pinned, as the runbook has it after a manual
\* deployment; the workflow has not run yet, or has once.
Init ==
  \E m \in Models, c \in Codes, k \in Configs :
    /\ mode \in Modes
    /\ selected = [version |-> m, previous |-> None, action |-> "promote"]
    /\ code = c
    /\ images = <<[release |-> [model |-> m, code |-> c], fresh |-> FALSE]>>
    /\ present = {1}
    /\ pins = {1}
    /\ fn = [image |-> 1, config |-> k, status |-> "Successful", pending |-> None]
    /\ versions = <<[image |-> 1, config |-> k]>>
    /\ gone = {}
    /\ live = 1
    /\ StartingLedger(m, c, k)
    /\ pc = "idle"
    /\ run = NoRun
    /\ lost = FALSE
    /\ target = None
    /\ runs = 0 /\ faults = 0 /\ edits = 0

-----------------------------------------------------------------------------
(* Around the workflow: the registry, main, lambda.sh and AWS.             *)

MayEdit == edits < MaxEdits /\ edits' = edits + 1

\* make promote / make rollback, merged: champion.json on main.  A run works
\* from its own checkout, so edits are only taken between runs.
Select ==
  /\ pc = "idle" /\ MayEdit
  /\ \/ \E m \in Models :
          selected' = [version |-> m, previous |-> selected.version,
                       action |-> "promote"]
     \/ /\ selected.previous # None
        /\ selected' = [version |-> selected.previous,
                        previous |-> selected.version, action |-> "rollback"]
  /\ UNCHANGED <<mode, code, cloud, ledgers, history, pc, run, runs, faults>>

\* A merge that changes what a release is made of besides the model.
ChangeCode ==
  /\ pc = "idle" /\ MayEdit
  /\ \E c \in Codes \ {code} : code' = c
  /\ UNCHANGED <<mode, selected, cloud, ledgers, history, pc, run, runs, faults>>

\* lambda.sh brings the function's configuration to another env.sh.  It is
\* outside the workflow's concurrency group.
ChangeConfig ==
  /\ pc = "idle" \/ ConfigChanges = "any"
  /\ MayEdit
  /\ fn.status # "InProgress"
  /\ \E k \in Configs \ {fn.config} : fn' = [fn EXCEPT !.config = k]
  /\ UNCHANGED <<mode, selected, code, images, present, pins, versions, gone, live,
                 ledgers, history, pc, run, runs, faults>>

\* A published version that nothing refers to is deleted.
DeleteVersion ==
  /\ pc = "idle" /\ MayEdit
  /\ \E v \in DOMAIN versions \ (gone \cup {live}) : gone' = gone \cup {v}
  /\ UNCHANGED <<mode, selected, code, images, present, pins, fn, versions, live,
                 ledgers, history, pc, run, runs, faults>>

\* AWS applies the lifecycle policy, at any time.
Expire ==
  /\ Expired(present, pins) # {}
  /\ present' = present \ Expired(present, pins)
  /\ pins' = pins \cap present'
  /\ UNCHANGED <<inputs, images, fn, versions, gone, live, ledgers, history, pc, run,
                 runs, faults>>

\* An update ends: on the new image, or Failed with the previous code kept.
UpdateEnds ==
  /\ fn.status = "InProgress"
  /\ \/ /\ fn' = [fn EXCEPT !.status = "Successful", !.image = fn.pending,
                            !.pending = None]
        /\ UNCHANGED faults
     \/ /\ faults < MaxFaults
        /\ faults' = faults + 1
        /\ fn' = [fn EXCEPT !.status = "Failed", !.pending = None]
  /\ UNCHANGED <<inputs, images, present, pins, versions, gone, live, ledgers,
                 history, pc, run, runs>>

-----------------------------------------------------------------------------
(* The workflow.                                                           *)

Step(l, next) == pc = l /\ pc' = next /\ UNCHANGED <<inputs, history, runs>>

\* A step exits non-zero of itself: the recovery steps run next.
Failing(l) == Step(l, "restore")

Fault == faults < MaxFaults /\ faults' = faults + 1

\* Checkout and plan.  rebuild=true overrules a recorded rollback.
StartBuild ==
  /\ pc = "idle" /\ runs < MaxRuns
  /\ \E rebuild \in BOOLEAN, fresh \in BOOLEAN :
       /\ selected.action # "rollback" \/ rebuild
       /\ run' = [NoRun EXCEPT
            !.fresh = fresh, !.before = Serving,
            !.release = [model |-> selected.version, code |-> code]]
  /\ pc' = "record" /\ runs' = runs + 1
  /\ UNCHANGED <<inputs, cloud, ledgers, history, faults>>

\* What release_id=... names: a deployment, or a release's latest activated one.
Named(input) ==
  IF input \in Recorded(ledger) THEN input ELSE GetRelease(ledger, input)

\* A recorded rollback restores what find returns; release_id=... what it names.
ToRestore ==
  (IF selected.action = "rollback" THEN {Find(ledger, selected.version)} ELSE {})
    \cup {Named(i) : i \in Recorded(ledger) \cup {d.release : d \in Recorded(ledger)}}

CanRestore(d) == d # None /\ d.release.model = selected.version /\ d.image \in present

StartRestore ==
  /\ pc = "idle" /\ runs < MaxRuns
  /\ \E d \in ToRestore :
       /\ CanRestore(d)
       /\ run' = [NoRun EXCEPT
            !.restored = d, !.before = Serving,
            !.release = d.release, !.image = d.image]
  /\ pc' = "record" /\ runs' = runs + 1
  /\ UNCHANGED <<inputs, cloud, ledgers, history, faults>>

\* Nothing to restore, of another model, or its image is gone: the run fails
\* before anything was read or changed.
StartRefused ==
  /\ pc = "idle" /\ runs < MaxRuns
  /\ \E d \in ToRestore : ~CanRestore(d)
  /\ runs' = runs + 1
  /\ UNCHANGED <<inputs, cloud, ledgers, history, pc, run, faults>>

RecordServing ==
  /\ Step("record", IF run.restored = None THEN "build" ELSE "pin")
  /\ run' = [run EXCEPT !.liveImage = Serving.image, !.oldPins = pins]
  /\ UNCHANGED <<cloud, ledgers, faults>>

\* The images in the repository that carry the release's own tag.
Tagged(release) ==
  {i \in present : images[i].release = release /\ ~images[i].fresh}

ReuseImage ==
  /\ Step("build", "pin")
  /\ ~run.fresh
  /\ \E i \in Tagged(run.release) : run' = [run EXCEPT !.image = i]
  /\ UNCHANGED <<cloud, ledgers, faults>>

BuildImage ==
  /\ Step("build", "pin")
  /\ run.fresh \/ Tagged(run.release) = {}
  /\ images' = Append(images, [release |-> run.release, fresh |-> run.fresh])
  /\ present' = present \cup {Len(images')}
  /\ run' = [run EXCEPT !.image = Len(images')]
  /\ UNCHANGED <<pins, fn, versions, gone, live, ledgers, faults>>

\* The serving image first, then the candidate; then the dry run must not list
\* either, and does not: what is pinned is only expired beyond MaxPins.
PinImages ==
  LET protect == {run.liveImage, run.image}
  IN /\ Step("pin", "mode")
     /\ CanPin(protect, present)
     /\ pins' = pins \cup protect
     /\ protect \cap Expired(present, pins') = {}
     /\ UNCHANGED <<images, present, fn, versions, gone, live, ledgers, run, faults>>

PinRefused ==
  LET protect == {run.liveImage, run.image}
  IN /\ Failing("pin")
     /\ \/ /\ ~CanPin(protect, present)
           /\ pins' = pins \cup ({run.liveImage} \cap present)
        \/ /\ CanPin(protect, present)
           /\ protect \cap Expired(present, pins \cup protect) # {}
           /\ pins' = pins \cup protect
     /\ UNCHANGED <<images, present, fn, versions, gone, live, ledgers, run, faults>>

\* It stops after one pin, or after both.
PinStops ==
  /\ Failing("pin") /\ Fault
  /\ \E done \in {{run.liveImage}, {run.liveImage, run.image}} :
       CanPin(done, present) /\ pins' = pins \cup done
  /\ UNCHANGED <<images, present, fn, versions, gone, live, ledgers, run>>

ReadMode ==
  /\ Step("mode", IF mode = "alias" THEN "publish" ELSE "update")
  /\ run' = IF mode = "alias" THEN [run EXCEPT !.prevVersion = live] ELSE run
  /\ UNCHANGED <<cloud, ledgers, faults>>

-----------------------------------------------------------------------------

\* Mutant: the configuration is compared in latest mode only.
ConfigDiffersInLatest ==
  mode = "latest" /\ run.restored # None /\ fn.config # run.restored.config

\* A restore under another configuration is another deployment.
ConfigDiffers == run.restored # None /\ fn.config # run.restored.config

\* Lambda accepts one update at a time (external).
Updated(image) == [fn EXCEPT !.status = "InProgress", !.pending = image]

\* latest mode: production itself is updated.
UpdateRefused ==
  /\ Failing("update")
  /\ ConfigDiffers
  /\ UNCHANGED <<cloud, ledgers, run, faults>>

UpdateFunction ==
  /\ ~ConfigDiffers
  /\ run' = [run EXCEPT !.prevImage = fn.image, !.updating = TRUE]
  /\ \/ /\ Step("update", "settle")
        /\ fn.status # "InProgress"
        /\ fn' = Updated(run.image)
     \/ /\ Failing("update")
        /\ fn.status = "InProgress"
        /\ UNCHANGED fn
  /\ UNCHANGED <<images, present, pins, versions, gone, live, ledgers, faults>>

UpdateSettled ==
  /\ fn.status # "InProgress"
  /\ IF fn.status = "Successful" /\ fn.image = run.image
     THEN Step("settle", "check") ELSE Failing("settle")
  /\ UNCHANGED <<cloud, ledgers, run, faults>>

\* alias mode: the recorded version itself, when it still runs the image.
Reusable ==
  LET d == run.restored
  IN /\ d # None /\ d.version # None
     /\ d.version \in DOMAIN versions \ gone
     /\ versions[d.version].image = run.image

ReuseVersion ==
  /\ Step("publish", "check")
  /\ Reusable
  /\ run' = [run EXCEPT !.candidate = run.restored.version]
  /\ UNCHANGED <<cloud, ledgers, faults>>

PublishRefused ==
  /\ Failing("publish")
  /\ ~Reusable
  /\ ConfigDiffers \/ fn.status = "InProgress"
  /\ UNCHANGED <<cloud, ledgers, run, faults>>

UpdateCandidate ==
  /\ Step("publish", "published")
  /\ ~Reusable /\ ~ConfigDiffers /\ fn.status # "InProgress"
  /\ fn' = Updated(run.image)
  /\ UNCHANGED <<images, present, pins, versions, gone, live, ledgers, run, faults>>

\* Publishing what is published already returns the version it was (external).
Published(v) ==
  LET content == [image |-> fn.image, config |-> fn.config]
      same == {u \in DOMAIN versions \ gone : versions[u] = content}
  IN IF same # {} THEN v \in same /\ UNCHANGED versions
     ELSE v = Len(versions) + 1 /\ versions' = Append(versions, content)

PublishVersion ==
  /\ fn.status = "Successful"
  /\ \E v \in 1..Len(versions) + 1 :
       /\ Published(v)
       /\ IF fn.image = run.image
          THEN Step("published", "check") /\ run' = [run EXCEPT !.candidate = v]
          ELSE Failing("published") /\ UNCHANGED run
  /\ UNCHANGED <<images, present, pins, fn, gone, live, ledgers, faults>>

PublishFailed ==
  /\ Failing("published")
  /\ fn.status = "Failed"
  /\ UNCHANGED <<cloud, ledgers, run, faults>>

\* The bounded wait runs out with the update still in progress.
Deadline ==
  /\ fn.status = "InProgress" /\ Fault
  /\ Failing("settle") \/ Failing("published")
  /\ UNCHANGED <<cloud, ledgers, run>>

-----------------------------------------------------------------------------

\* The candidate answers; a restore must answer what was recorded, exactly.
DeployCheck ==
  /\ Step("check", "put")
  /\ \E p \in Predictions :
       /\ run.restored # None => p = ledger[run.restored].served
       /\ run' = [run EXCEPT !.served = p]
  /\ UNCHANGED <<cloud, ledgers, faults>>

\* Mutant: the configuration recorded is $LATEST's, not the target's.
CandidateAsLatest ==
  [release |-> run.release, image |-> run.image, version |-> run.candidate,
   config |-> fn.config]

\* This release as this deployment: what was checked, as it is configured.
Candidate ==
  [release |-> run.release, image |-> run.image, version |-> run.candidate,
   config |-> IF run.candidate = None THEN fn.config
              ELSE versions[run.candidate].config]

Moves == mode = "alias" /\ run.candidate # run.prevVersion

\* Mutant: live.json is written when the deployment is verified.
RecordVerifiedLive ==
  /\ Step("put", IF Moves THEN "move" ELSE "url")
  /\ Mergeable(ledger, Candidate, run.served)
  /\ ledger' = Put(ledger, Candidate, run.served)
  /\ liveJson' = Candidate
  /\ run' = [run EXCEPT !.deployment = Candidate]
  /\ UNCHANGED <<cloud, faults>>

RecordVerified ==
  /\ Step("put", IF Moves THEN "move" ELSE "url")
  /\ Mergeable(ledger, Candidate, run.served)
  /\ ledger' = Put(ledger, Candidate, run.served)
  /\ run' = [run EXCEPT !.deployment = Candidate]
  /\ UNCHANGED <<cloud, liveJson, faults>>

\* Other predictions than are recorded, or the manifest of another commit that
\* built the same release: only a restore brings the very manifest recorded.
RecordRefused ==
  /\ Failing("put")
  /\ \/ ~Mergeable(ledger, Candidate, run.served)
     \/ Candidate \in Recorded(ledger) \ {run.restored}
  /\ UNCHANGED <<cloud, ledgers, run, faults>>

\* The object was written but the step does not get to know.
RecordUnseen ==
  /\ Failing("put") /\ Fault
  /\ Mergeable(ledger, Candidate, run.served)
  /\ ledger' = Put(ledger, Candidate, run.served)
  /\ UNCHANGED <<cloud, liveJson, run>>

MoveAlias ==
  /\ Step("move", "url")
  /\ run' = [run EXCEPT !.aliasMoved = TRUE]
  /\ live' = run.candidate
  /\ UNCHANGED <<images, present, pins, fn, versions, gone, ledgers, faults>>

\* Mutant: ALIAS_MOVED is set after the call.
MoveFailsUnmarked ==
  /\ Failing("move") /\ Fault
  /\ live' \in {live, run.candidate}
  /\ UNCHANGED <<images, present, pins, fn, versions, gone, ledgers, run>>

\* ALIAS_MOVED is set before the call, which may or may not have taken effect.
MoveFails ==
  /\ Failing("move") /\ Fault
  /\ run' = [run EXCEPT !.aliasMoved = TRUE]
  /\ live' \in {live, run.candidate}
  /\ UNCHANGED <<images, present, pins, fn, versions, gone, ledgers>>

\* The checks over the Function URL pass, and no drill is asked for.
CheckUrl ==
  /\ pc = "url" /\ pc' = "keep"
  /\ passed' = passed \cup {run.deployment}
  /\ UNCHANGED <<inputs, cloud, ledgers, run, lost, target, runs, faults>>

\* Every step up to here may exit non-zero without having changed anything:
\* a scan, a smoke test, a check, a drill, a denied call.
StepFails ==
  /\ \E l \in {"record", "build", "pin", "mode", "update", "settle", "publish",
               "published", "check", "put", "url"} : Failing(l)
  /\ Fault
  /\ UNCHANGED <<cloud, ledgers, run>>

-----------------------------------------------------------------------------
(* After the checks: bookkeeping that may fail without failing the run.    *)

Keep == ReleasePins(run.image, run.liveImage, run.oldPins)

\* pin --exact: first the missing pins, then the others go.
KeepPins ==
  /\ pc = "keep" /\ pc' = "activate"
  /\ pins' = IF CanPin(Keep, present) THEN Keep ELSE pins
  /\ target' = IF run.image # run.liveImage THEN run.liveImage ELSE target
  /\ UNCHANGED <<inputs, images, present, fn, versions, gone, live, ledgers, lost,
                 passed, run, runs, faults>>

KeepPinsFails ==
  /\ pc = "keep" /\ pc' = "activate" /\ Fault
  /\ CanPin(Keep, present)
  /\ \E left \in SUBSET (pins \ Keep) \ {{}} : pins' = Keep \cup left
  /\ target' = IF run.image # run.liveImage THEN run.liveImage ELSE target
  /\ UNCHANGED <<inputs, images, present, fn, versions, gone, live, ledgers, lost,
                 passed, run, runs>>

RunEnds == pc' = "idle" /\ run' = NoRun /\ UNCHANGED <<inputs, runs, passed, target>>

\* The event first, then live.json.
Activate ==
  /\ pc = "activate" /\ RunEnds
  /\ ledger' = Event(ledger, run.deployment, "activated")
  /\ liveJson' = run.deployment
  /\ lost' = FALSE
  /\ UNCHANGED <<cloud, faults>>

ActivateFails ==
  /\ pc = "activate" /\ RunEnds /\ Fault
  /\ ledger' \in {ledger, Event(ledger, run.deployment, "activated")}
  /\ lost' = TRUE
  /\ UNCHANGED <<cloud, liveJson>>

-----------------------------------------------------------------------------
(* if: failure().  Each step has its own condition; one that fails leaves  *)
(* the next ones to run.                                                   *)

Recovering(l, next) == pc = l /\ pc' = next /\ UNCHANGED <<inputs, history, runs>>

MustRestore ==
  /\ run.updating
  /\ run.prevImage # run.image

\* lambda_restore.py restore: settle, then decide.
NothingToRestore ==
  /\ Recovering("restore", "aliasBack")
  /\ ~MustRestore \/ (fn.status = "Successful" /\ fn.image = run.prevImage)
  /\ UNCHANGED <<cloud, ledgers, run, faults>>

RestoreImage ==
  /\ Recovering("restore", "restored")
  /\ MustRestore
  /\ fn.status = "Failed" \/ (fn.status = "Successful" /\ fn.image # run.prevImage)
  /\ fn' = Updated(run.prevImage)
  /\ UNCHANGED <<images, present, pins, versions, gone, live, ledgers, run, faults>>

\* The restore's own update must end Successful on the previous image.
ImageRestored ==
  /\ Recovering("restored", "aliasBack")
  /\ fn.status # "InProgress"
  /\ run' = [run EXCEPT !.stuck = fn.status # "Successful" \/ fn.image # run.prevImage]
  /\ UNCHANGED <<cloud, ledgers, faults>>

\* Still in progress at the deadline, or a call is denied.
RestoreFails ==
  /\ Recovering("restore", "aliasBack") \/ Recovering("restored", "aliasBack")
  /\ MustRestore /\ Fault
  /\ run' = [run EXCEPT !.stuck = TRUE]
  /\ UNCHANGED <<cloud, ledgers>>

MustMoveBack == mode = "alias" /\ run.prevVersion # None /\ run.aliasMoved

AliasBack ==
  /\ Recovering("aliasBack", "pinsBack")
  /\ live' = IF MustMoveBack THEN run.prevVersion ELSE live
  /\ UNCHANGED <<images, present, pins, fn, versions, gone, ledgers, run, faults>>

\* The call fails, or it works and the check after it does not.
AliasBackFails ==
  /\ Recovering("aliasBack", "pinsBack") /\ Fault
  /\ MustMoveBack
  /\ live' \in {live, run.prevVersion}
  /\ run' = [run EXCEPT !.stuck = TRUE]
  /\ UNCHANGED <<images, present, pins, fn, versions, gone, ledgers>>

\* Mutant: only the image that served is pinned again.
OldPinsForgotten == {run.liveImage}

\* The pins as they were, and the image that served.  What was pinned then
\* and is no longer was expired, so only the serving image's pin can be missing.
OldPins == {run.liveImage} \cup run.oldPins

\* Mutant: the pins are put back although none were read.
PinsBackUnread ==
  /\ Recovering("pinsBack", "recordFailed")
  /\ pins' = OldPins
  /\ UNCHANGED <<images, present, fn, versions, gone, live, ledgers, run, faults>>

PinsBack ==
  /\ Recovering("pinsBack", "recordFailed")
  /\ pins' = IF run.liveImage = None THEN pins
             ELSE IF CanPin(OldPins, present) THEN OldPins
             ELSE pins \cup ({run.liveImage} \cap present)
  /\ UNCHANGED <<images, present, fn, versions, gone, live, ledgers, run, faults>>

PinsBackFails ==
  /\ Recovering("pinsBack", "recordFailed") /\ Fault
  /\ run.liveImage # None
  /\ \/ UNCHANGED pins
     \/ /\ CanPin(OldPins, present)
        /\ \E left \in SUBSET (pins \ OldPins) : pins' = OldPins \cup left
  /\ UNCHANGED <<images, present, fn, versions, gone, live, ledgers, run>>

\* The last step of a failed run.
RecordFailed ==
  /\ pc = "recordFailed" /\ RunEnds
  /\ ledger' = IF run.deployment = None THEN ledger
               ELSE Event(ledger, run.deployment, "activation_failed")
  /\ lost' = (lost \/ run.stuck)
  /\ UNCHANGED <<cloud, liveJson, faults>>

RecordFailedFails ==
  /\ pc = "recordFailed" /\ RunEnds /\ Fault
  /\ run.deployment # None
  /\ lost' = (lost \/ run.stuck)
  /\ UNCHANGED <<cloud, ledgers>>

\* The run is cancelled, or its runner is lost: no failure() step runs.
Cancel ==
  /\ pc # "idle" /\ RunEnds /\ Fault
  /\ lost' = (lost \/ run.stuck \/ Serving # run.before
                   \/ (mode = "latest" /\ fn.status = "InProgress"))
  /\ UNCHANGED <<cloud, ledgers>>

-----------------------------------------------------------------------------

Next ==
  \/ Select \/ ChangeCode \/ ChangeConfig \/ DeleteVersion \/ Expire \/ UpdateEnds
  \/ StartBuild \/ StartRestore \/ StartRefused
  \/ RecordServing \/ ReuseImage \/ BuildImage
  \/ PinImages \/ PinRefused \/ PinStops \/ ReadMode
  \/ UpdateRefused \/ UpdateFunction \/ UpdateSettled
  \/ ReuseVersion \/ PublishRefused \/ UpdateCandidate \/ PublishVersion
  \/ PublishFailed \/ Deadline
  \/ DeployCheck \/ RecordVerified \/ RecordRefused \/ RecordUnseen
  \/ MoveAlias \/ MoveFails \/ CheckUrl \/ StepFails
  \/ KeepPins \/ KeepPinsFails \/ Activate \/ ActivateFails
  \/ NothingToRestore \/ RestoreImage \/ ImageRestored \/ RestoreFails
  \/ AliasBack \/ AliasBackFails \/ PinsBack \/ PinsBackFails
  \/ RecordFailed \/ RecordFailedFails \/ Cancel

Spec == Init /\ [][Next]_vars

-----------------------------------------------------------------------------

\* Type correctness.
TypeOK ==
  /\ mode \in Modes
  /\ selected \in [version : Models, previous : Models \cup {None},
                   action : {"promote", "rollback"}]
  /\ code \in Codes
  /\ images \in Seq([release : Releases, fresh : BOOLEAN])
  /\ pins \subseteq present /\ present \subseteq DOMAIN images
  /\ fn \in [image : DOMAIN images, config : Configs,
             status : {"Successful", "InProgress", "Failed"},
             pending : DOMAIN images \cup {None}]
  /\ fn.status = "InProgress" <=> fn.pending # None
  /\ versions \in Seq([image : DOMAIN images, config : Configs])
  /\ gone \subseteq DOMAIN versions /\ live \in DOMAIN versions \ gone
  /\ Recorded(ledger) \subseteq Deployments
  /\ \A d \in Recorded(ledger) : /\ ledger[d].served \in Predictions
                                 /\ ledger[d].events # <<>>
                                 /\ EventsOf(ledger[d]) \subseteq [event : Events, at : Nat]
  /\ liveJson \in Recorded(ledger) \cup {None}
  /\ run.restored \in Recorded(ledger) \cup {None}
  /\ run.deployment \in Recorded(ledger) \cup {None}
  /\ pc = "idle" <=> run = NoRun

\* "A deployment that cannot be recorded cannot be rolled back to, so it does
\* not go live": the alias only moves to a version that is recorded as verified
\* with exactly the image and configuration it has, or back.
OnlyVerifiedGoLive ==
  [][live' # live =>
       \/ pc = "aliasBack" /\ live' = run.prevVersion
       \/ \E d \in Recorded(ledger) :
            /\ d.version = live'
            /\ versions[live'] = [image |-> d.image, config |-> d.config]
            /\ ledger[d].events[Len(ledger[d].events)].event = "verified"]_vars

\* A failed run whose recovery steps did their work leaves production serving
\* what it served when the run began, in either mode and wherever it failed.
FailedDeployGoesBack ==
  [][pc = "recordFailed" /\ ~run.stuck /\ ~lost => Serving' = run.before]_vars

\* "live.json keeps naming what still serves": between runs, unless a run was
\* stopped half way or its bookkeeping failed, live.json names what serves.
DeployedIsLive ==
  pc = "idle" /\ ~lost /\ liveJson # None =>
    Serving = [image |-> liveJson.image, version |-> liveJson.version]

\* "A candidate from a failed deploy is never picked by default": what find
\* returns passed every check on production.
DefaultRestoreServed ==
  \A m \in Models : Find(ledger, m) \in passed \cup {None}

\* The image that serves, the one a run may have to go back to and the one the
\* live image took over from stay in the repository.
ServingImageKept ==
  ~lost /\ ~run.stuck =>
    {Serving.image, run.prevImage, target} \ {None} \subseteq present

\* A restore that goes live is the recorded image under the recorded
\* configuration, also when its version had to be published again.
RestoredAsRecorded ==
  [][pc = "move" /\ live' # live /\ run.restored # None =>
       versions[live'] = [image |-> run.restored.image,
                          config |-> run.restored.config]]_vars

\* "The deploy fails instead of rebuilding when no successfully activated
\* deployment of v<m> is recorded. It was never deployed after the ledger
\* existed, or the deploy ran on the legacy role": a model with an activated
\* deployment can be rolled back to.
ActivatedIsFound ==
  \A d \in Recorded(ledger) :
    (\E e \in EventsOf(ledger[d]) : e.event = "activated") =>
      Find(ledger, d.release.model) # None

\* "So a one-step rollback always finds its image": the deployment a rollback
\* of the champion would restore is still in the repository.
OneStepRollbackFindsImage ==
  pc = "idle" /\ ~lost /\ selected.previous # None =>
    LET d == Find(ledger, selected.previous)
    IN d # None => d.image \in present

=============================================================================
