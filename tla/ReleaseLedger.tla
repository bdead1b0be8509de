----------------------------- MODULE ReleaseLedger -----------------------------
(***************************************************************************)
(* The release ledger, scripts/releases.py: what its commands compute from *)
(* the objects in S3.  A ledger is a function from the deployments that    *)
(* are recorded to their records.                                          *)
(*                                                                         *)
(* A deployment is the release, the image (its digest), the Lambda version *)
(* (None for $LATEST) and the configuration snapshot: release_id and       *)
(* deployment_id together are one object key, and two deployments have the *)
(* same key exactly when these four agree.  A record is the rest of the    *)
(* evidence, the predictions that were served, and the events.             *)
(***************************************************************************)
EXTENDS Naturals, Sequences, FiniteSetsExt

CONSTANT None    \* no deployment, no version, no image

Events == {"verified", "activated", "activation_failed"}

Recorded(ledger) == DOMAIN ledger

EventsOf(rec) == {rec.events[i] : i \in DOMAIN rec.events}

\* The time of the next event: later than every event so far.
Now(ledger) ==
  1 + Max({0} \cup {e.at : e \in UNION {EventsOf(ledger[d]) : d \in DOMAIN ledger}})

AddEvent(rec, event, at) ==
  [rec EXCEPT !.events = Append(@, [event |-> event, at |-> at])]

\* put accepts a deployment that is new, or whose evidence is what is recorded:
\* here, its predictions.  (The manifest is the deployment's but for the commit
\* in it, which is left to the caller.)
Mergeable(ledger, deployment, served) ==
  deployment \in Recorded(ledger) => ledger[deployment].served = served

Put(ledger, deployment, served) ==
  [d \in Recorded(ledger) \cup {deployment} |->
    IF d # deployment THEN ledger[d]
    ELSE AddEvent(IF d \in Recorded(ledger) THEN ledger[d]
                  ELSE [served |-> served, events |-> <<>>],
                  "verified", Now(ledger))]

\* activate and fail: one more event of a recorded deployment.
Event(ledger, deployment, event) ==
  [ledger EXCEPT ![deployment] = AddEvent(@, event, Now(ledger))]

Never == 0

\* Mutant: having been verified is enough.
LastVerified(rec) ==
  IF rec.events = <<>> \/ rec.events[Len(rec.events)].event = "activation_failed"
  THEN Never
  ELSE Max({Never} \cup {e.at : e \in EventsOf(rec)})

\* When a deployment last went live; never, if its last event is a failure.
LastActivated(rec) ==
  IF rec.events = <<>> \/ rec.events[Len(rec.events)].event = "activation_failed"
  THEN Never
  ELSE Max({Never} \cup {e.at : e \in {e \in EventsOf(rec) : e.event = "activated"}})

\* The most recently activated of some deployments.
LatestActivated(ledger, deployments) ==
  LET restorable == {d \in deployments : LastActivated(ledger[d]) # Never}
  IN IF restorable = {} THEN None
     ELSE CHOOSE d \in restorable :
            \A e \in restorable : LastActivated(ledger[e]) <= LastActivated(ledger[d])

\* find --model: what a rollback restores by default.
Find(ledger, model) ==
  LatestActivated(ledger, {d \in Recorded(ledger) : d.release.model = model})

\* get --ref <release id>: the release's most recently activated deployment.
\* (get --ref <release id>/<deployment id> is that deployment, whatever its events.)
GetRelease(ledger, release) ==
  LatestActivated(ledger, {d \in Recorded(ledger) : d.release = release})

=============================================================================
