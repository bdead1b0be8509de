----------------------------- MODULE DeployProofs -----------------------------
(***************************************************************************)
(* What the deploy workflow keeps true, whichever step fails and wherever  *)
(* a run is cancelled: the inductive invariant, a part for each of the     *)
(* things a run must not lose track of, and the theorems it gives.         *)
(***************************************************************************)
EXTENDS Deploy, SequenceTheorems, FiniteSetTheorems, NaturalsInduction, TLAPS

-----------------------------------------------------------------------------
(* The steps of a run, by what has happened before them *)

LiveSteps == {"url", "keep", "activate"}
VerifiedSteps == {"move"} \cup LiveSteps
ChosenSteps == {"check", "put"} \cup VerifiedSteps
PinnedSteps == {"mode", "update", "settle", "publish", "published"} \cup ChosenSteps
BuiltSteps == {"pin"} \cup PinnedSteps
ForwardSteps == {"record", "build"} \cup BuiltSteps
RecoverySteps == {"restore", "restored", "aliasBack", "pinsBack", "recordFailed"}
Steps == {"idle"} \cup ForwardSteps \cup RecoverySteps

-----------------------------------------------------------------------------
(* The inductive invariant *)

\* What a run's environment holds, whatever step it is at.
RunStates ==
  [release : Releases \cup {None}, fresh : BOOLEAN,
   restored : Deployments \cup {None}, image : Nat \cup {None},
   liveImage : Nat \cup {None}, oldPins : SUBSET Nat,
   prevVersion : Nat \cup {None}, prevImage : Nat \cup {None},
   updating : BOOLEAN, candidate : Nat \cup {None},
   served : Predictions \cup {None}, deployment : Deployments \cup {None},
   aliasMoved : BOOLEAN,
   before : [image : Nat, version : Nat \cup {None}] \cup {None},
   stuck : BOOLEAN]

\* Main, the repository, the function and its versions.
InputsOK ==
  /\ mode \in Modes
  /\ selected \in [version : Models, previous : Models \cup {None},
                   action : {"promote", "rollback"}]
  /\ code \in Codes

CloudOK ==
  /\ images \in Seq([release : Releases, fresh : BOOLEAN])
  /\ pins \subseteq present /\ present \subseteq DOMAIN images
  /\ fn \in [image : DOMAIN images, config : Configs,
             status : {"Successful", "InProgress", "Failed"},
             pending : DOMAIN images \cup {None}]
  /\ fn.status = "InProgress" <=> fn.pending # None
  /\ versions \in Seq([image : DOMAIN images, config : Configs])
  /\ gone \subseteq DOMAIN versions
  /\ live \in DOMAIN versions \ gone

Records == [served : Predictions, events : Seq([event : Events, at : Nat])]

\* Every recorded deployment has events, and a time after them all exists.
LedgerTyped(l) ==
  /\ l = [d \in DOMAIN l |-> l[d]]
  /\ DOMAIN l \subseteq Deployments
  /\ \A d \in DOMAIN l : l[d] \in Records /\ l[d].events # <<>>
  /\ \E b \in Nat : \A d \in DOMAIN l : \A i \in DOMAIN l[d].events :
       l[d].events[i].at <= b

LedgerOK == LedgerTyped(ledger) /\ liveJson \in DOMAIN ledger \cup {None}

\* The environment names what exists: deployments of the ledger, images that
\* were pushed, versions that are published.
RunOK ==
  /\ run \in RunStates
  /\ pc \in Steps
  /\ run.restored \in DOMAIN ledger \cup {None}
  /\ run.deployment \in DOMAIN ledger \cup {None}
  /\ {run.image, run.liveImage, run.prevImage} \subseteq DOMAIN images \cup {None}
  /\ {run.prevVersion, run.candidate} \subseteq (DOMAIN versions \ gone) \cup {None}
  /\ runs \in 0..MaxRuns

\* ... and holds what the steps behind it have found.
FoundOK ==
  /\ pc = "idle" => run = NoRun
  /\ pc # "idle" => run.release # None
  /\ run.restored # None =>
       run.image = run.restored.image /\ run.release = run.restored.release
  /\ pc = "record" => run.liveImage = None /\ (run.restored = None <=> run.image = None)
  /\ pc = "build" => run.restored = None /\ run.image = None
  /\ pc \in {"build"} \cup BuiltSteps => run.liveImage # None
  /\ pc \in BuiltSteps => run.image # None
  /\ run.updating <=> run.prevImage # None
  /\ run.updating \/ run.aliasMoved => run.liveImage # None
  /\ pc = "put" => run.served # None
  /\ pc \in VerifiedSteps => run.deployment # None

\* What a mode does not use stays unset; what it uses is set when it is needed.
ModeOK ==
  /\ mode = "latest" =>
       /\ run.prevVersion = None /\ run.candidate = None /\ ~run.aliasMoved
       /\ pc \notin {"publish", "published", "move"}
  /\ mode = "alias" =>
       /\ ~run.updating /\ pc \notin {"update", "settle", "restored"}
       /\ pc \in PinnedSteps \ {"mode"} => run.prevVersion # None
       /\ pc \in ChosenSteps => run.candidate # None

\* The candidate runs the image of the run, and the deployment the run has
\* recorded is this release in that image as that version; what is about to go
\* live was recorded as verified, with the configuration it has.
CandidateOK ==
  /\ pc \in ForwardSteps \ ChosenSteps => run.candidate = None
  /\ pc \in ForwardSteps \ VerifiedSteps => run.deployment = None
  /\ run.candidate # None => versions[run.candidate].image = run.image
  /\ run.deployment # None =>
       /\ run.deployment.release = run.release
       /\ run.deployment.image = run.image
       /\ run.deployment.version = run.candidate
  /\ pc = "move" =>
       /\ run.deployment.config = versions[run.candidate].config
       /\ ledger[run.deployment].events[Len(ledger[run.deployment].events)].event
            = "verified"

TypedInv == /\ InputsOK /\ CloudOK /\ LedgerOK /\ RunOK
            /\ FoundOK /\ ModeOK /\ CandidateOK

\* alias mode: the alias is where it was until the run says it may have moved
\* it, on the candidate once production is checked, and back after aliasBack.
AliasInv ==
  mode = "alias" /\ pc # "idle" =>
    /\ run.before.version \in DOMAIN versions
    /\ run.before = [image |-> versions[run.before.version].image,
                     version |-> run.before.version]
    /\ run.prevVersion \in {None, run.before.version}
    /\ live \in {run.before.version, run.candidate}
    /\ ~run.aliasMoved => live = run.before.version
    /\ run.aliasMoved => run.prevVersion # None
    /\ pc \in ForwardSteps \ LiveSteps => ~run.aliasMoved
    /\ pc \in LiveSteps => live = run.candidate
    /\ pc \in {"pinsBack", "recordFailed"} /\ ~run.stuck => live = run.before.version

\* The function runs the image it ran before, and no update will change that.
FnBack == fn.image = run.before.image /\ fn.pending \in {None, fn.image}

\* latest mode: unless an earlier run was lost, the function runs the image it
\* ran before the run or the one of the run, and the former as long as, and as
\* soon as, nothing of the update is left.
LatestInv ==
  mode = "latest" =>
    /\ pc # "idle" => run.before = [image |-> run.before.image, version |-> None]
    /\ pc \in ChosenSteps => fn.status = "Successful" /\ fn.image = run.image
    /\ pc \in ForwardSteps \ ({"settle"} \cup ChosenSteps) => ~run.updating
    /\ pc \in {"settle", "restored"} => run.updating
    /\ ~lost /\ pc = "idle" => fn.pending \in {None, fn.image}
    /\ ~lost /\ pc # "idle" =>
         /\ ~run.updating => FnBack
         /\ run.updating =>
              /\ run.prevImage = run.before.image
              /\ fn.image \in {run.before.image, run.image}
              /\ fn.pending \in {None, run.before.image, run.image}
         /\ pc \in {"aliasBack", "pinsBack", "recordFailed"} /\ ~run.stuck => FnBack

\* live.json names what serves, or what served when the run began.
LiveJsonInv ==
  ~lost /\ liveJson # None =>
    (IF pc = "idle" THEN Serving ELSE run.before)
      = [image |-> liveJson.image, version |-> liveJson.version]

ServesInv == AliasInv /\ LatestInv /\ LiveJsonInv

\* A deployment is activated only after its checks on production passed.
PassedInv ==
  /\ \A d \in DOMAIN ledger : \A i \in DOMAIN ledger[d].events :
       ledger[d].events[i].event = "activated" => d \in passed
  /\ pc \in {"keep", "activate"} => run.deployment \in passed

\* A recorded version runs what is recorded of it.
VersionsInv ==
  \A d \in DOMAIN ledger :
    d.version # None => /\ d.version \in DOMAIN versions
                        /\ versions[d.version] = [image |-> d.image, config |-> d.config]

\* Nobody changes the configuration while a run works with it.
ConfigIsKept == ConfigChanges = "idle"

\* What a restore publishes, or has chosen, has the recorded configuration.
RestoredInv ==
  run.restored # None =>
    /\ pc = "published" => fn.config = run.restored.config
    /\ run.candidate # None => versions[run.candidate].config = run.restored.config

\* There are never more pins than the lifecycle policy keeps.
PinsFit == Cardinality(pins) <= MaxPins

\* The pins: what a run may have to go back to, and the image it took over
\* from, stay pinned whatever the run pins and unpins.
PinsInv ==
  /\ target \in pins \cup {None}
  /\ pc \notin {"idle", "activate"} /\ run.liveImage # None =>
       run.oldPins \subseteq pins /\ target \in run.oldPins \cup {None}
  /\ pc \in PinnedSteps => {run.image, run.liveImage} \subseteq pins
  /\ (run.updating \/ run.aliasMoved) /\ pc # "recordFailed" => run.image \in pins
  /\ ~lost /\ pc = "idle" => Serving.image \in pins
  /\ ~lost /\ pc # "idle" =>
       /\ run.before.image \in pins
       /\ run.liveImage # None => /\ run.liveImage = run.before.image
                                  /\ run.liveImage \in run.oldPins

\* The images that $LATEST runs or is about to run.
FnImages == {fn.image, fn.pending} \ {None}

\* The images that are pinned or serve, or are about to.
InUse == pins \cup (IF mode = "alias" THEN {versions[live].image} ELSE FnImages)

\* What was in use when the run began, S, and the image of the run.
Within(S) ==
  /\ pins \subseteq S \cup {run.image}
  /\ mode = "latest" => FnImages \subseteq S \cup {run.image}
  /\ pc # "activate" =>
       /\ run.oldPins \subseteq S
       /\ {run.liveImage, run.prevImage} \subseteq S \cup {None}
       /\ pins \subseteq S \/ run.liveImage \in pins
       /\ mode = "alias" => run.before.image \in S
       /\ mode = "latest" /\ ~run.updating => FnImages \subseteq S
       /\ pc \in ForwardSteps \ PinnedSteps => pins \subseteq S

\* No step of the run has failed of itself: what it does to go back works.
Clean(S) ==
  /\ ~run.stuck
  /\ pc = "restored" => \/ fn.pending = run.prevImage
                        \/ fn.status = "Successful" /\ fn.image = run.prevImage
  /\ mode = "latest" /\ pc \in {"aliasBack", "pinsBack", "recordFailed"} =>
       FnImages \subseteq S
  /\ pc \in {"activate", "recordFailed"} => pins \subseteq S
  /\ pc = "activate" => run.image \in S

\* Few images were in use: one for each fault, and the two of a deploy unless
\* the run itself has failed a step that it would go back with.
Few(S) ==
  /\ IsFiniteSet(S)
  /\ Within(S)
  /\ \/ Cardinality(S) <= 1 + faults
     \/ Cardinality(S) <= 2 + faults /\ Clean(S)

\* Every fault leaves at most one image more in use than there was.
FewInUse ==
  /\ faults \in 0..MaxFaults
  /\ pc = "idle" => Cardinality(InUse) <= 2 + faults
  /\ pc # "idle" => \E S \in SUBSET Nat : Few(S)

-----------------------------------------------------------------------------
(* The ledger's operators *)

LessThan == {p \in Nat \X Nat : p[1] < p[2]}

LEMMA LessThanIsWellFounded == IsWellFoundedOn(LessThan, Nat)
<1>1. OpToRel(<, Nat) = LessThan
  BY Zenon DEF OpToRel, LessThan
<1>2. QED
  BY NatLessThanWellFounded, <1>1, Zenon

LEMMA LeastNumber ==
  ASSUME NEW S, S \subseteq Nat, S # {}
  PROVE  \E m \in S : \A k \in S : m <= k
<1>1. PICK m \in S : \A k \in S : <<k, m>> \notin LessThan
  BY LessThanIsWellFounded, WFMin
<1>2. ASSUME NEW k \in S PROVE m <= k
  <2>1. m \in Nat /\ k \in Nat
    OBVIOUS
  <2>2. ~(k < m)
    BY <1>1, <2>1 DEF LessThan
  <2>3. QED
    BY <2>1, <2>2
<1>3. QED
  BY <1>2

\* Max is what its name says, for times with a bound.
LEMMA MaxOfTimes ==
  ASSUME NEW S, S \subseteq Nat, S # {}, NEW b \in Nat, \A x \in S : x <= b
  PROVE  Max(S) \in S /\ \A x \in S : x <= Max(S)
<1> DEFINE U == {u \in Nat : \A x \in S : x <= u}
<1>1. PICK m \in U : \A u \in U : m <= u
  <2>1. U \subseteq Nat /\ b \in U
    OBVIOUS
  <2>2. QED
    BY <2>1, LeastNumber
<1>2. m \in S
  <2> SUFFICES ASSUME m \notin S PROVE FALSE
    OBVIOUS
  <2>1. \A x \in S : x < m
    BY <1>1
  <2>2. m # 0
    <3>1. PICK x \in S : x \in Nat
      OBVIOUS
    <3>2. QED
      BY <2>1, <3>1
  <2>3. m - 1 \in U
    BY <1>1, <2>1, <2>2
  <2>4. QED
    BY <1>1, <2>3
<1>3. \A x \in S : x <= m /\ m >= x
  BY <1>1
<1>4. QED
  BY <1>2, <1>3, Zenon DEF Max

\* The times of a ledger's events.
LEMMA TimesAreTyped ==
  ASSUME NEW l, LedgerTyped(l)
  PROVE  \E b \in Nat : \A d \in DOMAIN l :
           \A e \in EventsOf(l[d]) : e \in [event : Events, at : Nat] /\ e.at <= b
<1>1. PICK b \in Nat : \A d \in DOMAIN l : \A i \in DOMAIN l[d].events :
        l[d].events[i].at <= b
  BY DEF LedgerTyped
<1>2. \A d \in DOMAIN l : \A i \in DOMAIN l[d].events :
        l[d].events[i] \in [event : Events, at : Nat]
  <2> SUFFICES ASSUME NEW d \in DOMAIN l, NEW i \in DOMAIN l[d].events
               PROVE  l[d].events[i] \in [event : Events, at : Nat]
    OBVIOUS
  <2>1. l[d].events \in Seq([event : Events, at : Nat])
    BY DEF LedgerTyped, Records
  <2>2. QED
    BY <2>1, ElementOfSeq, LenProperties
<1>3. QED
  BY <1>1, <1>2 DEF EventsOf

\* The next event comes after every recorded one.
LEMMA NowIsLater ==
  ASSUME NEW l, LedgerTyped(l)
  PROVE  /\ Now(l) \in Nat
         /\ \A d \in DOMAIN l : \A i \in DOMAIN l[d].events : l[d].events[i].at <= Now(l)
<1> DEFINE S == {0} \cup {e.at : e \in UNION {EventsOf(l[d]) : d \in DOMAIN l}}
<1>1. PICK b \in Nat : \A d \in DOMAIN l : \A e \in EventsOf(l[d]) :
        e \in [event : Events, at : Nat] /\ e.at <= b
  BY TimesAreTyped
<1>2. S \subseteq Nat /\ S # {} /\ \A x \in S : x <= b
  BY <1>1
<1>3. Max(S) \in S /\ \A x \in S : x <= Max(S)
  BY <1>2, MaxOfTimes
<1>4. \A d \in DOMAIN l : \A i \in DOMAIN l[d].events : l[d].events[i].at \in S
  BY DEF EventsOf
<1>5. Now(l) = 1 + Max(S)
  BY DEF Now
<1>6. Now(l) \in Nat /\ \A x \in S : x <= Now(l)
  <2> HIDE DEF S
  <2>1. Max(S) \in Nat /\ \A x \in S : x \in Nat
    BY <1>2, <1>3
  <2>2. QED
    BY <1>3, <1>5, <2>1
<1>7. QED
  BY <1>4, <1>6

LEMMA AppendFacts ==
  ASSUME NEW S, NEW s \in Seq(S), NEW e \in S
  PROVE  /\ Append(s, e) \in Seq(S)
         /\ Append(s, e) # <<>>
         /\ Len(s) \in Nat /\ DOMAIN s = 1..Len(s)
         /\ Len(Append(s, e)) = Len(s) + 1
         /\ DOMAIN Append(s, e) = 1..Len(s) + 1
         /\ \A i \in 1..Len(s) : Append(s, e)[i] = s[i]
         /\ Append(s, e)[Len(s) + 1] = e
BY AppendProperties, LenProperties, EmptySeq

LEMMA AddEventTyped ==
  ASSUME NEW rec \in Records, NEW event \in Events, NEW at \in Nat
  PROVE  LET new == AddEvent(rec, event, at)
         IN /\ new \in Records
            /\ new.served = rec.served
            /\ new.events # <<>>
            /\ new.events[Len(new.events)] = [event |-> event, at |-> at]
            /\ \A i \in DOMAIN new.events : new.events[i] \in
                 {[event |-> event, at |-> at]} \cup EventsOf(rec)
<1> DEFINE e == [event |-> event, at |-> at]
           new == AddEvent(rec, event, at)
<1>1. rec.events \in Seq([event : Events, at : Nat]) /\ e \in [event : Events, at : Nat]
  BY DEF Records
<1>2. /\ Append(rec.events, e) \in Seq([event : Events, at : Nat])
      /\ Append(rec.events, e) # <<>>
      /\ Len(Append(rec.events, e)) = Len(rec.events) + 1
      /\ DOMAIN Append(rec.events, e) = 1..Len(rec.events) + 1
      /\ \A i \in 1..Len(rec.events) : Append(rec.events, e)[i] = rec.events[i]
      /\ Append(rec.events, e)[Len(rec.events) + 1] = e
      /\ Len(rec.events) \in Nat /\ DOMAIN rec.events = 1..Len(rec.events)
  BY <1>1, AppendFacts
<1>3. new = [served |-> rec.served, events |-> Append(rec.events, e)]
  <2>1. rec = [served |-> rec.served, events |-> rec.events]
    BY DEF Records
  <2>2. QED
    BY <2>1 DEF AddEvent
<1>4. new \in Records /\ new.served = rec.served /\ new.events = Append(rec.events, e)
  BY <1>2, <1>3 DEF Records
<1>5. \A i \in DOMAIN new.events : new.events[i] \in {e} \cup EventsOf(rec)
  BY <1>2, <1>4 DEF EventsOf
<1>6. QED
  BY <1>2, <1>4, <1>5

\* One more event of one deployment: the other records stay what they are.
EventAdded(l, l2, d, event) ==
  /\ LedgerTyped(l2)
  /\ DOMAIN l2 = DOMAIN l \cup {d}
  /\ \A x \in DOMAIN l \ {d} : l2[x] = l[x]
  /\ l2[d].events[Len(l2[d].events)].event = event
  /\ \A i \in DOMAIN l2[d].events :
       \/ l2[d].events[i].event = event
       \/ d \in DOMAIN l /\ \E j \in DOMAIN l[d].events :
            l2[d].events[i].event = l[d].events[j].event

LEMMA RecordReplaced ==
  ASSUME NEW l, LedgerTyped(l), NEW d \in Deployments, NEW rec \in Records,
         NEW event \in Events,
         rec = IF d \in DOMAIN l THEN l[d] ELSE [served |-> rec.served, events |-> <<>>],
         NEW l2,
         l2 = [x \in DOMAIN l \cup {d} |->
                IF x # d THEN l[x] ELSE AddEvent(rec, event, Now(l))]
  PROVE  EventAdded(l, l2, d, event)
<1> DEFINE new == AddEvent(rec, event, Now(l))
<1>1. /\ Now(l) \in Nat
      /\ \A x \in DOMAIN l : \A i \in DOMAIN l[x].events : l[x].events[i].at <= Now(l)
  BY NowIsLater
<1>2. /\ new \in Records
      /\ new.events # <<>>
      /\ new.events[Len(new.events)] = [event |-> event, at |-> Now(l)]
      /\ \A i \in DOMAIN new.events : new.events[i] \in
           {[event |-> event, at |-> Now(l)]} \cup EventsOf(rec)
  BY <1>1, AddEventTyped
<1>3. /\ DOMAIN l2 = DOMAIN l \cup {d}
      /\ l2 = [x \in DOMAIN l2 |-> l2[x]]
      /\ \A x \in DOMAIN l \ {d} : l2[x] = l[x]
      /\ l2[d] = new
  OBVIOUS
<1>4. ASSUME NEW i \in DOMAIN new.events
      PROVE  \/ new.events[i] = [event |-> event, at |-> Now(l)]
             \/ d \in DOMAIN l /\ \E j \in DOMAIN l[d].events : new.events[i] = l[d].events[j]
  <2>1. CASE new.events[i] \in EventsOf(rec)
    <3>1. PICK j \in DOMAIN rec.events : new.events[i] = rec.events[j]
      BY <2>1 DEF EventsOf
    <3>2. d \in DOMAIN l
      <4>1. rec.events # <<>>
        BY <3>1
      <4>2. QED
        BY <4>1
    <3>3. QED
      BY <3>1, <3>2
  <2>2. QED
    BY <1>2, <2>1
<1>5. \A x \in DOMAIN l2 : \A i \in DOMAIN l2[x].events : l2[x].events[i].at <= Now(l)
  <2>1. \A i \in DOMAIN new.events : new.events[i].at <= Now(l)
    BY <1>1, <1>4
  <2>2. QED
    BY <1>1, <1>3, <2>1
<1>6. LedgerTyped(l2)
  BY <1>1, <1>2, <1>3, <1>5 DEF LedgerTyped
<1>7. QED
  BY <1>2, <1>3, <1>4, <1>6 DEF EventAdded

LEMMA PutAdds ==
  ASSUME NEW l, LedgerTyped(l), NEW d \in Deployments, NEW served \in Predictions,
         NEW l2, l2 = Put(l, d, served)
  PROVE  EventAdded(l, l2, d, "verified")
<1> DEFINE rec == IF d \in DOMAIN l THEN l[d] ELSE [served |-> served, events |-> <<>>]
<1>1. rec \in Records
  <2>1. CASE d \in DOMAIN l
    BY <2>1 DEF LedgerTyped
  <2>2. CASE d \notin DOMAIN l
    BY <2>2, EmptySeq DEF Records
  <2>3. QED
    BY <2>1, <2>2
<1>2. l2 = [x \in DOMAIN l \cup {d} |->
             IF x # d THEN l[x] ELSE AddEvent(rec, "verified", Now(l))]
  BY DEF Put, Recorded
<1>3. rec = IF d \in DOMAIN l THEN l[d] ELSE [served |-> rec.served, events |-> <<>>]
  OBVIOUS
<1>4. QED
  BY <1>1, <1>2, <1>3, RecordReplaced DEF Events

LEMMA EventAdds ==
  ASSUME NEW l, LedgerTyped(l), NEW d \in DOMAIN l, NEW event \in Events,
         NEW l2, l2 = Event(l, d, event)
  PROVE  EventAdded(l, l2, d, event) /\ DOMAIN l2 = DOMAIN l
<1>1. d \in Deployments /\ l[d] \in Records /\ l = [x \in DOMAIN l |-> l[x]]
  BY DEF LedgerTyped
<1>2. l2 = [x \in DOMAIN l \cup {d} |->
             IF x # d THEN l[x] ELSE AddEvent(l[d], event, Now(l))]
  BY <1>1 DEF Event
<1>3. QED
  BY <1>1, <1>2, RecordReplaced DEF EventAdded

\* What a rollback finds is one of the deployments, and it was activated.
LEMMA LatestIsActivated ==
  ASSUME NEW l, LedgerTyped(l), NEW D, D \subseteq DOMAIN l,
         LatestActivated(l, D) # None
  PROVE  /\ LatestActivated(l, D) \in D
         /\ \E i \in DOMAIN l[LatestActivated(l, D)].events :
              l[LatestActivated(l, D)].events[i].event = "activated"
<1> DEFINE Times(d) == {Never} \cup {e.at : e \in {e \in EventsOf(l[d]) : e.event = "activated"}}
           last(d) == LastActivated(l[d])
           R == {d \in D : last(d) # Never}
           S == {last(d) : d \in R}
           latest == CHOOSE d \in R : \A e \in R : last(e) <= last(d)
<1>1. PICK b \in Nat : \A d \in DOMAIN l : \A e \in EventsOf(l[d]) :
        e \in [event : Events, at : Nat] /\ e.at <= b
  BY TimesAreTyped
<1>2. ASSUME NEW d \in D
      PROVE  /\ last(d) \in Nat /\ last(d) <= b
             /\ last(d) # Never => \E e \in EventsOf(l[d]) : e.event = "activated"
  <2>1. Times(d) \subseteq Nat /\ Times(d) # {} /\ \A x \in Times(d) : x <= b
    BY <1>1 DEF Never
  <2>2. Max(Times(d)) \in Times(d)
    BY <2>1, MaxOfTimes
  <2>3. last(d) \in {Never, Max(Times(d))}
    BY DEF LastActivated
  <2>4. QED
    BY <2>1, <2>2, <2>3 DEF Never
<1>3. R # {} /\ LatestActivated(l, D) = latest
  BY DEF LatestActivated
<1>4. \E d \in R : \A e \in R : last(e) <= last(d)
  <2>1. S \subseteq Nat /\ S # {} /\ \A x \in S : x <= b
    BY <1>2, <1>3
  <2>2. Max(S) \in S /\ \A x \in S : x <= Max(S)
    BY <2>1, MaxOfTimes
  <2>3. QED
    BY <2>2
<1>5. latest \in R
  BY <1>4
<1>6. QED
  BY <1>2, <1>3, <1>5 DEF EventsOf

-----------------------------------------------------------------------------
(* Which steps write what *)

LEMMA InputsKept ==
  ASSUME Next
  PROVE  /\ UNCHANGED mode
         /\ ~Select => UNCHANGED selected
         /\ ~ChangeCode => UNCHANGED code
BY DEF Next, inputs, Step, Failing, Recovering, RunEnds,
   Select, ChangeCode, ChangeConfig, DeleteVersion, Expire, UpdateEnds,
   StartBuild, StartRestore, StartRefused, RecordServing, ReuseImage, BuildImage,
   PinImages, PinRefused, PinStops, ReadMode, UpdateRefused, UpdateFunction,
   UpdateSettled, ReuseVersion, PublishRefused, UpdateCandidate, PublishVersion,
   PublishFailed, Deadline, DeployCheck, RecordVerified, RecordRefused, RecordUnseen,
   MoveAlias, MoveFails, CheckUrl, StepFails, KeepPins, KeepPinsFails, Activate,
   ActivateFails, NothingToRestore, RestoreImage, ImageRestored, RestoreFails,
   AliasBack, AliasBackFails, PinsBack, PinsBackFails, RecordFailed,
   RecordFailedFails, Cancel

LEMMA CloudWrites ==
  ASSUME Next
  PROVE  /\ ~BuildImage => UNCHANGED images
         /\ ~(BuildImage \/ Expire) => UNCHANGED present
         /\ ~(\/ Expire \/ PinImages \/ PinRefused \/ PinStops \/ KeepPins
              \/ KeepPinsFails \/ PinsBack \/ PinsBackFails) => UNCHANGED pins
         /\ ~(\/ ChangeConfig \/ UpdateEnds \/ UpdateFunction \/ UpdateCandidate
              \/ RestoreImage) => UNCHANGED fn
         /\ ~PublishVersion => UNCHANGED versions
         /\ ~DeleteVersion => UNCHANGED gone
         /\ ~(MoveAlias \/ MoveFails \/ AliasBack \/ AliasBackFails) => UNCHANGED live
BY DEF Next, cloud,
   Select, ChangeCode, ChangeConfig, DeleteVersion, Expire, UpdateEnds,
   StartBuild, StartRestore, StartRefused, RecordServing, ReuseImage, BuildImage,
   PinImages, PinRefused, PinStops, ReadMode, UpdateRefused, UpdateFunction,
   UpdateSettled, ReuseVersion, PublishRefused, UpdateCandidate, PublishVersion,
   PublishFailed, Deadline, DeployCheck, RecordVerified, RecordRefused, RecordUnseen,
   MoveAlias, MoveFails, CheckUrl, StepFails, KeepPins, KeepPinsFails, Activate,
   ActivateFails, NothingToRestore, RestoreImage, ImageRestored, RestoreFails,
   AliasBack, AliasBackFails, PinsBack, PinsBackFails, RecordFailed,
   RecordFailedFails, Cancel

LEMMA RecordWrites ==
  ASSUME Next
  PROVE  /\ ~(RecordVerified \/ RecordUnseen \/ Activate \/ ActivateFails \/ RecordFailed)
              => UNCHANGED ledger
         /\ ~Activate => UNCHANGED liveJson
         /\ ~CheckUrl => UNCHANGED passed
         /\ ~(KeepPins \/ KeepPinsFails) => UNCHANGED target
         /\ ~(\/ Activate \/ ActivateFails \/ RecordFailed \/ RecordFailedFails
              \/ Cancel) => UNCHANGED lost
BY DEF Next, ledgers, history, Step, Failing, Recovering, RunEnds,
   Select, ChangeCode, ChangeConfig, DeleteVersion, Expire, UpdateEnds,
   StartBuild, StartRestore, StartRefused, RecordServing, ReuseImage, BuildImage,
   PinImages, PinRefused, PinStops, ReadMode, UpdateRefused, UpdateFunction,
   UpdateSettled, ReuseVersion, PublishRefused, UpdateCandidate, PublishVersion,
   PublishFailed, Deadline, DeployCheck, RecordVerified, RecordRefused, RecordUnseen,
   MoveAlias, MoveFails, CheckUrl, StepFails, KeepPins, KeepPinsFails, Activate,
   ActivateFails, NothingToRestore, RestoreImage, ImageRestored, RestoreFails,
   AliasBack, AliasBackFails, PinsBack, PinsBackFails, RecordFailed,
   RecordFailedFails, Cancel

LEMMA RunsWrites ==
  ASSUME Next
  PROVE  ~(StartBuild \/ StartRestore \/ StartRefused) => UNCHANGED runs
BY DEF Next, Step, Failing, Recovering, RunEnds,
   Select, ChangeCode, ChangeConfig, DeleteVersion, Expire, UpdateEnds,
   StartBuild, StartRestore, StartRefused, RecordServing, ReuseImage, BuildImage,
   PinImages, PinRefused, PinStops, ReadMode, UpdateRefused, UpdateFunction,
   UpdateSettled, ReuseVersion, PublishRefused, UpdateCandidate, PublishVersion,
   PublishFailed, Deadline, DeployCheck, RecordVerified, RecordRefused, RecordUnseen,
   MoveAlias, MoveFails, CheckUrl, StepFails, KeepPins, KeepPinsFails, Activate,
   ActivateFails, NothingToRestore, RestoreImage, ImageRestored, RestoreFails,
   AliasBack, AliasBackFails, PinsBack, PinsBackFails, RecordFailed,
   RecordFailedFails, Cancel

-----------------------------------------------------------------------------
(* Type correctness *)

LEMMA WiderSeq ==
  ASSUME NEW S, NEW T, S \subseteq T, NEW s \in Seq(S)
  PROVE  s \in Seq(T)
<1>1. s \in [1..Len(s) -> S] /\ Len(s) \in Nat
  BY LenProperties
<1>2. s \in [1..Len(s) -> T]
  BY <1>1
<1>3. QED
  BY <1>1, <1>2, SeqDef

Images == [release : Releases, fresh : BOOLEAN]
Versions == [image : DOMAIN images, config : Configs]

\* What was pushed and published stays what it is.
LEMMA ImagesGrow ==
  ASSUME TypedInv, Next
  PROVE  /\ images' \in Seq(Images)
         /\ DOMAIN images \subseteq DOMAIN images'
         /\ BuildImage => DOMAIN images' = DOMAIN images \cup {Len(images')}
         /\ DOMAIN images' \subseteq Nat
<1>1. images \in Seq(Images)
  BY DEF TypedInv, CloudOK, Images
<1>2. CASE BuildImage
  <2>1. [release |-> run.release, fresh |-> run.fresh] \in Images
    BY <1>2 DEF TypedInv, RunOK, FoundOK, RunStates, BuildImage, Step, Images
  <2>2. images' = Append(images, [release |-> run.release, fresh |-> run.fresh])
    BY <1>2 DEF BuildImage
  <2> DEFINE new == [release |-> run.release, fresh |-> run.fresh]
  <2> HIDE DEF new
  <2>3. /\ Append(images, new) \in Seq(Images)
        /\ Len(images) \in Nat /\ DOMAIN images = 1..Len(images)
        /\ Len(Append(images, new)) = Len(images) + 1
        /\ DOMAIN Append(images, new) = 1..Len(images) + 1
    BY <1>1, <2>1, AppendFacts DEF new
  <2>4. images' = Append(images, new)
    BY <2>2 DEF new
  <2>5. QED
    BY <2>3, <2>4
<1>3. CASE ~BuildImage
  BY <1>1, <1>3, CloudWrites, LenProperties
<1>4. QED
  BY <1>2, <1>3

LEMMA VersionsGrow ==
  ASSUME TypedInv, Next
  PROVE  /\ versions' \in Seq(Versions')
         /\ DOMAIN versions' \subseteq Nat
         /\ DOMAIN versions \subseteq DOMAIN versions'
         /\ \A v \in DOMAIN versions : versions'[v] = versions[v]
<1>1. versions \in Seq(Versions) /\ fn.image \in DOMAIN images /\ fn.config \in Configs
  BY DEF TypedInv, CloudOK, Versions
<1>2. Versions \subseteq Versions'
  BY ImagesGrow DEF Versions
<1>3. CASE versions' = versions
  BY <1>1, <1>2, <1>3, WiderSeq, LenProperties
<1>4. CASE versions' # versions
  <2> DEFINE new == [image |-> fn.image, config |-> fn.config]
  <2>1. PublishVersion
    BY <1>4, CloudWrites
  <2>2. versions' = Append(versions, new)
    BY <1>4, <2>1 DEF PublishVersion, Published
  <2>3. new \in Versions
    BY <1>1 DEF Versions
  <2> HIDE DEF new
  <2>4. /\ Append(versions, new) \in Seq(Versions)
        /\ Len(versions) \in Nat /\ DOMAIN versions = 1..Len(versions)
        /\ DOMAIN Append(versions, new) = 1..Len(versions) + 1
        /\ \A i \in 1..Len(versions) : Append(versions, new)[i] = versions[i]
    BY <1>1, <2>3, AppendFacts
  <2>5. QED
    BY <1>2, <2>2, <2>4, WiderSeq
<1>5. QED
  BY <1>3, <1>4

LEMMA FnTyped ==
  ASSUME TypedInv, Next
  PROVE  /\ fn' \in [image : DOMAIN images', config : Configs,
                     status : {"Successful", "InProgress", "Failed"},
                     pending : DOMAIN images' \cup {None}]
         /\ fn'.status = "InProgress" <=> fn'.pending # None
<1>1. /\ fn \in [image : DOMAIN images, config : Configs,
                 status : {"Successful", "InProgress", "Failed"},
                 pending : DOMAIN images \cup {None}]
      /\ fn.status = "InProgress" <=> fn.pending # None
      /\ DOMAIN images \subseteq DOMAIN images'
      /\ DOMAIN images \subseteq Nat
  BY ImagesGrow, LenProperties DEF TypedInv, CloudOK
<1>2. None \notin Nat
  BY DeployAssumption
<1>3. CASE ChangeConfig
  BY <1>1, <1>3 DEF ChangeConfig
<1>4. CASE UpdateEnds
  BY <1>1, <1>4 DEF UpdateEnds
<1>5. ASSUME NEW i \in DOMAIN images, fn' = Updated(i)
      PROVE  /\ fn' \in [image : DOMAIN images', config : Configs,
                         status : {"Successful", "InProgress", "Failed"},
                         pending : DOMAIN images' \cup {None}]
             /\ fn'.status = "InProgress" <=> fn'.pending # None
  BY <1>1, <1>2, <1>5 DEF Updated
<1>6. CASE UpdateFunction
  BY <1>1, <1>5, <1>6 DEF UpdateFunction, Step, TypedInv, RunOK, FoundOK, BuiltSteps, PinnedSteps
<1>7. CASE UpdateCandidate
  BY <1>1, <1>5, <1>7 DEF UpdateCandidate, Step, TypedInv, RunOK, FoundOK, BuiltSteps, PinnedSteps
<1>8. CASE RestoreImage
  BY <1>1, <1>5, <1>8 DEF RestoreImage, MustRestore, TypedInv, RunOK, FoundOK
<1>9. CASE UNCHANGED fn
  BY <1>1, <1>9
<1>10. QED
  BY <1>3, <1>4, <1>6, <1>7, <1>8, <1>9, CloudWrites

LEMMA VersionsAreTyped ==
  ASSUME CloudOK
  PROVE  \A v \in DOMAIN versions : /\ versions[v].image \in DOMAIN images
                                   /\ versions[v].config \in Configs
<1>1. versions \in Seq(Versions)
  BY DEF CloudOK, Versions
<1>2. \A v \in DOMAIN versions : versions[v] \in Versions
  BY <1>1, ElementOfSeq, LenProperties
<1>3. QED
  BY <1>2 DEF Versions

LEMMA PinsTyped ==
  ASSUME TypedInv, Next
  PROVE  pins' \subseteq present' /\ present' \subseteq DOMAIN images'
<1>1. pins \subseteq present /\ present \subseteq DOMAIN images
  BY DEF TypedInv, CloudOK
<1>2. CASE Expire
  BY <1>1, <1>2 DEF Expire
<1>3. CASE BuildImage
  BY <1>1, <1>3, ImagesGrow DEF BuildImage
<1>4. CASE PinImages \/ PinRefused \/ PinStops
  BY <1>1, <1>4 DEF PinImages, PinRefused, PinStops, CanPin
<1>5. CASE KeepPins \/ KeepPinsFails
  BY <1>1, <1>5 DEF KeepPins, KeepPinsFails, CanPin
<1>6. CASE PinsBack \/ PinsBackFails
  BY <1>1, <1>6 DEF PinsBack, PinsBackFails, CanPin
<1>7. CASE UNCHANGED <<pins, present, images>>
  BY <1>1, <1>7
<1>8. QED
  BY <1>2, <1>3, <1>4, <1>5, <1>6, <1>7, CloudWrites

LEMMA LiveTyped ==
  ASSUME TypedInv, Next
  PROVE  gone' \subseteq DOMAIN versions' /\ live' \in DOMAIN versions' \ gone'
<1>1. /\ gone \subseteq DOMAIN versions /\ live \in DOMAIN versions \ gone
      /\ DOMAIN versions \subseteq DOMAIN versions'
  BY VersionsGrow DEF TypedInv, CloudOK
<1>2. CASE DeleteVersion
  BY <1>1, <1>2 DEF DeleteVersion
<1>3. CASE MoveAlias \/ MoveFails
  <2>1. run.candidate \in DOMAIN versions \ gone
    <3>1. pc = "move"
      BY <1>3 DEF MoveAlias, MoveFails, Step, Failing
    <3>2. run.candidate # None
      BY <3>1, DeployAssumption
         DEF TypedInv, InputsOK, ModeOK, ChosenSteps, VerifiedSteps
    <3>3. QED
      BY <3>2 DEF TypedInv, RunOK
  <2>2. QED
    BY <1>1, <1>3, <2>1 DEF MoveAlias, MoveFails
<1>4. CASE AliasBack \/ AliasBackFails
  BY <1>1, <1>4 DEF AliasBack, AliasBackFails, MustMoveBack, TypedInv, RunOK
<1>5. CASE UNCHANGED <<gone, live>>
  BY <1>1, <1>5
<1>6. QED
  BY <1>1, <1>2, <1>3, <1>4, <1>5, CloudWrites

LEMMA CloudTyped ==
  ASSUME TypedInv, Next
  PROVE  CloudOK'
BY ImagesGrow, VersionsGrow, FnTyped, PinsTyped, LiveTyped DEF CloudOK, Images, Versions

\* Only between runs is a version deleted.
LEMMA GoneGrowsBetweenRuns ==
  ASSUME Next, pc # "idle"
  PROVE  gone' = gone
BY CloudWrites DEF DeleteVersion

LEMMA InputsTyped ==
  ASSUME TypedInv, Next
  PROVE  InputsOK'
<1>1. InputsOK
  BY DEF TypedInv
<1>2. CASE Select
  BY <1>1, <1>2, InputsKept DEF Select, InputsOK, ChangeCode
<1>3. CASE ChangeCode
  BY <1>1, <1>3 DEF ChangeCode, InputsOK
<1>4. CASE ~Select /\ ~ChangeCode
  BY <1>1, <1>4, InputsKept DEF InputsOK
<1>5. QED
  BY <1>2, <1>3, <1>4

LEMMA CandidateTyped ==
  ASSUME TypedInv, pc = "put"
  PROVE  Candidate \in Deployments
<1>1. run.release \in Releases /\ run.image \in Nat
  BY DEF TypedInv, RunOK, FoundOK, RunStates, BuiltSteps, PinnedSteps, ChosenSteps
<1>2. /\ run.candidate \in Nat \cup {None}
      /\ run.candidate # None => run.candidate \in DOMAIN versions
  BY DEF TypedInv, RunOK, RunStates
<1>3. \A v \in DOMAIN versions : versions[v].config \in Configs
  BY VersionsAreTyped DEF TypedInv
<1>4. fn.config \in Configs
  BY DEF TypedInv, CloudOK
<1>5. QED
  BY <1>1, <1>2, <1>3, <1>4 DEF Candidate, Deployments

\* The deployment a run puts on record, and the one it adds an event to.
LEMMA LedgerSteps ==
  ASSUME TypedInv, Next
  PROVE  \/ UNCHANGED ledger
         \/ /\ RecordVerified \/ RecordUnseen
            /\ Candidate \in Deployments
            /\ EventAdded(ledger, ledger', Candidate, "verified")
         \/ /\ Activate \/ ActivateFails
            /\ run.deployment \in DOMAIN ledger
            /\ EventAdded(ledger, ledger', run.deployment, "activated")
         \/ /\ RecordFailed
            /\ run.deployment \in DOMAIN ledger
            /\ EventAdded(ledger, ledger', run.deployment, "activation_failed")
<1>1. LedgerTyped(ledger) /\ run \in RunStates /\ run.deployment \in DOMAIN ledger \cup {None}
  BY DEF TypedInv, LedgerOK, RunOK
<1>2. CASE RecordVerified \/ RecordUnseen
  <2>1. /\ pc = "put" /\ run.served \in Predictions
        /\ ledger' = Put(ledger, Candidate, run.served)
    BY <1>1, <1>2 DEF RecordVerified, RecordUnseen, Step, Failing, TypedInv, FoundOK, RunStates
  <2>2. Candidate \in Deployments
    BY <2>1, CandidateTyped
  <2>3. QED
    BY <1>1, <1>2, <2>1, <2>2, PutAdds
<1>3. CASE Activate \/ ActivateFails
  <2>1. run.deployment \in DOMAIN ledger
    BY <1>1, <1>3 DEF Activate, ActivateFails, TypedInv, FoundOK, VerifiedSteps, LiveSteps
  <2>2. \/ UNCHANGED ledger
        \/ ledger' = Event(ledger, run.deployment, "activated")
    BY <1>3 DEF Activate, ActivateFails
  <2>3. QED
    BY <1>1, <1>3, <2>1, <2>2, EventAdds DEF Events
<1>4. CASE RecordFailed
  BY <1>1, <1>4, EventAdds DEF RecordFailed, Events
<1>5. QED
  BY <1>2, <1>3, <1>4, RecordWrites

LEMMA LedgerStaysTyped ==
  ASSUME TypedInv, Next
  PROVE  LedgerOK' /\ DOMAIN ledger \subseteq DOMAIN ledger'
<1>1. LedgerTyped(ledger)' /\ DOMAIN ledger \subseteq DOMAIN ledger'
  <2>1. LedgerTyped(ledger')
    BY LedgerSteps DEF EventAdded, TypedInv, LedgerOK
  <2>2. DOMAIN ledger \subseteq DOMAIN ledger'
    BY LedgerSteps DEF EventAdded
  <2>3. QED
    BY <2>1, <2>2 DEF LedgerTyped
<1>2. CASE Activate
  BY <1>1, <1>2 DEF Activate, LedgerOK, TypedInv, RunOK
<1>3. CASE ~Activate
  BY <1>1, <1>3, RecordWrites DEF LedgerOK, TypedInv
<1>4. QED
  BY <1>2, <1>3

-----------------------------------------------------------------------------
(* The run's environment *)

LEMMA NothingAtHand == NoRun \in RunStates
BY DEF NoRun, RunStates

\* What a rollback or a release id names is recorded.
LEMMA NamedIsRecorded ==
  ASSUME LedgerOK, NEW d \in ToRestore, d # None
  PROVE  d \in DOMAIN ledger
<1>1. LedgerTyped(ledger)
  BY DEF LedgerOK
<1>2. ASSUME NEW D, D \subseteq DOMAIN ledger, LatestActivated(ledger, D) # None
      PROVE  LatestActivated(ledger, D) \in DOMAIN ledger
  BY <1>1, <1>2, LatestIsActivated
<1>3. CASE d = Find(ledger, selected.version)
  BY <1>2, <1>3 DEF Find, Recorded
<1>4. ASSUME NEW i, d = Named(i)
      PROVE  d \in DOMAIN ledger
  BY <1>2, <1>4 DEF Named, GetRelease, Recorded
<1>5. QED
  BY <1>3, <1>4 DEF ToRestore

\* A new run knows the release it is about and what serves as it begins.
LEMMA StartsTyped ==
  ASSUME TypedInv, StartBuild \/ StartRestore
  PROVE  /\ run' \in RunStates
         /\ run'.restored \in DOMAIN ledger \cup {None}
         /\ run'.release \in Releases
         /\ run'.before = Serving
         /\ run'.restored # None =>
              run'.image = run'.restored.image /\ run'.release = run'.restored.release
         /\ run'.restored = None <=> run'.image = None
         /\ run'.image \in DOMAIN images \cup {None}
         /\ {run'.liveImage, run'.prevVersion, run'.prevImage, run'.candidate,
             run'.served, run'.deployment} = {None}
         /\ run'.oldPins = {} /\ ~run'.updating /\ ~run'.aliasMoved /\ ~run'.stuck
<1>1. Serving \in [image : Nat, version : Nat \cup {None}]
  <2>1. DOMAIN images \subseteq Nat /\ DOMAIN versions \subseteq Nat
    BY LenProperties DEF TypedInv, CloudOK
  <2>2. QED
    BY <2>1, VersionsAreTyped DEF Serving, TypedInv, CloudOK
<1>2. CASE StartBuild
  <2>1. PICK rebuild \in BOOLEAN, fresh \in BOOLEAN :
          run' = [NoRun EXCEPT
            !.fresh = fresh, !.before = Serving,
            !.release = [model |-> selected.version, code |-> code]]
    BY <1>2 DEF StartBuild
  <2>2. [model |-> selected.version, code |-> code] \in Releases
    BY DEF TypedInv, InputsOK, Releases
  <2>3. run' =
          [release |-> [model |-> selected.version, code |-> code],
           fresh |-> fresh, restored |-> None, image |-> None, liveImage |-> None,
           oldPins |-> {}, prevVersion |-> None, prevImage |-> None,
           updating |-> FALSE, candidate |-> None, served |-> None,
           deployment |-> None, aliasMoved |-> FALSE, before |-> Serving,
           stuck |-> FALSE]
    BY <2>1 DEF NoRun
  <2>4. QED
    BY <1>1, <2>2, <2>3 DEF RunStates
<1>3. CASE StartRestore
  <2>1. PICK d \in ToRestore :
          /\ CanRestore(d)
          /\ run' = [NoRun EXCEPT
               !.restored = d, !.before = Serving,
               !.release = d.release, !.image = d.image]
    BY <1>3 DEF StartRestore
  <2>2. d \in DOMAIN ledger /\ d \in Deployments /\ d # None /\ d.image \in DOMAIN images
    BY <2>1, NamedIsRecorded DEF CanRestore, TypedInv, CloudOK, LedgerOK, LedgerTyped
  <2>3. d.release \in Releases /\ d.image \in Nat
    BY <2>2 DEF Deployments
  <2>4. None \notin Nat
    BY DeployAssumption
  <2>5. run' =
          [release |-> d.release, fresh |-> FALSE, restored |-> d,
           image |-> d.image, liveImage |-> None,
           oldPins |-> {}, prevVersion |-> None, prevImage |-> None,
           updating |-> FALSE, candidate |-> None, served |-> None,
           deployment |-> None, aliasMoved |-> FALSE, before |-> Serving,
           stuck |-> FALSE]
    BY <2>1 DEF NoRun
  <2>6. QED
    BY <1>1, <2>2, <2>3, <2>4, <2>5 DEF RunStates
<1>4. QED
  BY <1>2, <1>3

\* Every step but these leaves the environment alone.
Starting == StartBuild \/ StartRestore
Ending ==
  Activate \/ ActivateFails \/ RecordFailed \/ RecordFailedFails \/ Cancel
Writing ==
  \/ RecordServing \/ ReuseImage \/ BuildImage \/ ReadMode \/ UpdateFunction
  \/ ReuseVersion \/ PublishVersion \/ DeployCheck \/ RecordVerified
  \/ MoveAlias \/ MoveFails \/ ImageRestored \/ RestoreFails \/ AliasBackFails

LEMMA EnvironmentWrites ==
  ASSUME Next, ~Starting, ~Ending, ~Writing
  PROVE  UNCHANGED run
BY DEF Next, Starting, Ending, Writing,
   Select, ChangeCode, ChangeConfig, DeleteVersion, Expire, UpdateEnds,
   StartBuild, StartRestore, StartRefused, RecordServing, ReuseImage, BuildImage,
   PinImages, PinRefused, PinStops, ReadMode, UpdateRefused, UpdateFunction,
   UpdateSettled, ReuseVersion, PublishRefused, UpdateCandidate, PublishVersion,
   PublishFailed, Deadline, DeployCheck, RecordVerified, RecordRefused, RecordUnseen,
   MoveAlias, MoveFails, CheckUrl, StepFails, KeepPins, KeepPinsFails, Activate,
   ActivateFails, NothingToRestore, RestoreImage, ImageRestored, RestoreFails,
   AliasBack, AliasBackFails, PinsBack, PinsBackFails, RecordFailed,
   RecordFailedFails, Cancel

LEMMA BetweenRuns ==
  ASSUME Next
  PROVE  /\ pc = "idle" /\ pc' # "idle" => Starting
         /\ pc # "idle" /\ pc' = "idle" => Ending
         /\ Starting => pc = "idle" /\ pc' = "record" /\ UNCHANGED <<mode, lost, ledger, liveJson>>
         /\ Ending => pc # "idle" /\ pc' = "idle" /\ run' = NoRun
         /\ Writing => pc \notin {"idle", "recordFailed"} /\ pc' # "idle"
BY DEF Next, Starting, Ending, Writing, inputs, ledgers, history, Step, Failing, Recovering, RunEnds,
   Select, ChangeCode, ChangeConfig, DeleteVersion, Expire, UpdateEnds,
   StartBuild, StartRestore, StartRefused, RecordServing, ReuseImage, BuildImage,
   PinImages, PinRefused, PinStops, ReadMode, UpdateRefused, UpdateFunction,
   UpdateSettled, ReuseVersion, PublishRefused, UpdateCandidate, PublishVersion,
   PublishFailed, Deadline, DeployCheck, RecordVerified, RecordRefused, RecordUnseen,
   MoveAlias, MoveFails, CheckUrl, StepFails, KeepPins, KeepPinsFails, Activate,
   ActivateFails, NothingToRestore, RestoreImage, ImageRestored, RestoreFails,
   AliasBack, AliasBackFails, PinsBack, PinsBackFails, RecordFailed,
   RecordFailedFails, Cancel

\* Every field of the environment has the steps that write it.
FieldsKept ==
  /\ UNCHANGED <<run.release, run.fresh, run.restored, run.before>>
  /\ ~(ReuseImage \/ BuildImage) => UNCHANGED run.image
  /\ ~RecordServing => UNCHANGED <<run.liveImage, run.oldPins>>
  /\ ~ReadMode => UNCHANGED run.prevVersion
  /\ ~UpdateFunction => UNCHANGED <<run.prevImage, run.updating>>
  /\ ~(ReuseVersion \/ PublishVersion) => UNCHANGED run.candidate
  /\ ~DeployCheck => UNCHANGED run.served
  /\ ~RecordVerified => UNCHANGED run.deployment
  /\ ~(MoveAlias \/ MoveFails) => UNCHANGED run.aliasMoved
  /\ ~(ImageRestored \/ RestoreFails \/ AliasBackFails) => UNCHANGED run.stuck

\* What a writing step writes.
Written ==
  /\ run' \in RunStates
  /\ RecordServing => run'.liveImage = Serving.image /\ run'.oldPins = pins
  /\ ReuseImage => run'.image \in Tagged(run.release)
  /\ BuildImage => run'.image = Len(images')
  /\ ReadMode => run'.prevVersion = IF mode = "alias" THEN live ELSE run.prevVersion
  /\ UpdateFunction => run'.prevImage = fn.image /\ run'.updating
  /\ ReuseVersion => run'.candidate = run.restored.version
  /\ PublishVersion =>
       \/ run' = run /\ pc' # "check"
       \/ /\ pc' = "check"
          /\ run'.candidate \in DOMAIN versions' \ gone
          /\ versions'[run'.candidate] = [image |-> run.image, config |-> fn.config]
  /\ DeployCheck => run'.served \in Predictions
  /\ RecordVerified => run'.deployment = Candidate
  /\ MoveAlias \/ MoveFails => run'.aliasMoved
  /\ RestoreFails \/ AliasBackFails => run'.stuck
  /\ ImageRestored =>
       run'.stuck = (fn.status # "Successful" \/ fn.image # run.prevImage)

\* ... and at which step of the run.
LEMMA OneWriter ==
  /\ RecordServing => pc = "record"
  /\ ReuseImage \/ BuildImage => pc = "build"
  /\ ReadMode => pc = "mode"
  /\ UpdateFunction => pc = "update"
  /\ ReuseVersion => pc = "publish"
  /\ PublishVersion => pc = "published"
  /\ DeployCheck => pc = "check"
  /\ RecordVerified => pc = "put"
  /\ MoveAlias \/ MoveFails => pc = "move"
  /\ ImageRestored => pc = "restored"
  /\ RestoreFails => pc \in {"restore", "restored"}
  /\ AliasBackFails => pc = "aliasBack"
  /\ Writing => pc' # pc
  /\ ReuseVersion => pc' = "check"
  /\ RecordVerified => pc' \in {"move", "url"}
  /\ ImageRestored \/ RestoreFails \/ AliasBackFails => pc' \in {"aliasBack", "pinsBack"}
BY DEF Writing, Step, Failing, Recovering, RecordServing, ReuseImage, BuildImage, ReadMode,
   UpdateFunction, ReuseVersion, PublishVersion, DeployCheck, RecordVerified, MoveAlias,
   MoveFails, ImageRestored, RestoreFails, AliasBackFails

LEMMA Numbers ==
  ASSUME TypedInv
  PROVE  /\ None \notin Nat
         /\ run \in RunStates
         /\ DOMAIN images \subseteq Nat /\ DOMAIN versions \subseteq Nat
         /\ present \subseteq DOMAIN images /\ pins \subseteq present
         /\ live \in DOMAIN versions \ gone /\ fn.image \in DOMAIN images
         /\ Serving.image \in DOMAIN images
<1>1. DOMAIN images \subseteq Nat /\ DOMAIN versions \subseteq Nat
  BY LenProperties DEF TypedInv, CloudOK
<1>2. None \notin Nat
  BY DeployAssumption
<1>3. Serving.image \in DOMAIN images
  BY VersionsAreTyped DEF Serving, TypedInv, CloudOK
<1>4. QED
  BY <1>1, <1>2, <1>3 DEF TypedInv, CloudOK, RunOK

\* The version that publishing returns has the function's image and
\* configuration, and is not one of the deleted ones.
LEMMA PublishedIsThere ==
  ASSUME TypedInv, Next, NEW v \in 1..Len(versions) + 1, Published(v)
  PROVE  /\ v \in DOMAIN versions' \ gone
         /\ versions'[v] = [image |-> fn.image, config |-> fn.config]
<1> DEFINE new == [image |-> fn.image, config |-> fn.config]
           same == {u \in DOMAIN versions \ gone : versions[u] = new}
<1>1. CASE same # {}
  BY <1>1 DEF Published
<1>2. CASE same = {}
  <2>1. v = Len(versions) + 1 /\ versions' = Append(versions, new)
    BY <1>2 DEF Published
  <2>2. versions \in Seq(Versions) /\ new \in Versions /\ gone \subseteq DOMAIN versions
    BY DEF TypedInv, CloudOK, Versions
  <2> HIDE DEF new, same
  <2>3. /\ Len(versions) \in Nat /\ DOMAIN versions = 1..Len(versions)
        /\ DOMAIN Append(versions, new) = 1..Len(versions) + 1
        /\ Append(versions, new)[Len(versions) + 1] = new
    BY <2>2, AppendFacts
  <2>4. Len(versions) + 1 \in DOMAIN versions' \ gone
    BY <2>1, <2>2, <2>3
  <2>5. QED
    BY <2>1, <2>3, <2>4 DEF new
<1>3. QED
  BY <1>1, <1>2

LEMMA WritingWrites ==
  ASSUME TypedInv, Next, Writing
  PROVE  FieldsKept /\ Written
<1>1. /\ run \in RunStates /\ None \notin Nat /\ DOMAIN images \subseteq Nat
      /\ DOMAIN versions \subseteq Nat /\ DOMAIN versions' \subseteq Nat
      /\ DOMAIN images' \subseteq Nat
      /\ live \in Nat /\ fn.image \in Nat /\ Serving.image \in Nat /\ pins \in SUBSET Nat
      /\ present \subseteq Nat
  BY Numbers, VersionsGrow, ImagesGrow
<1>2. ASSUME RecordServing
      PROVE  /\ FieldsKept /\ run' \in RunStates
             /\ run'.liveImage = Serving.image /\ run'.oldPins = pins
  BY <1>1, <1>2 DEF RecordServing, FieldsKept, RunStates
<1>3. ASSUME ReuseImage
      PROVE  FieldsKept /\ run' \in RunStates /\ run'.image \in Tagged(run.release)
  <2>1. PICK i \in Tagged(run.release) : run' = [run EXCEPT !.image = i]
    BY <1>3 DEF ReuseImage
  <2>2. i \in Nat
    BY <1>1 DEF Tagged
  <2>3. QED
    BY <1>1, <1>3, <2>1, <2>2 DEF FieldsKept, RunStates
<1>4. ASSUME BuildImage
      PROVE  FieldsKept /\ run' \in RunStates /\ run'.image = Len(images')
  <2>1. Len(images') \in Nat
    BY ImagesGrow, LenProperties
  <2>2. run' = [run EXCEPT !.image = Len(images')]
    BY <1>4 DEF BuildImage
  <2>3. QED
    BY <1>1, <1>4, <2>1, <2>2 DEF FieldsKept, RunStates
<1>5. ASSUME ReadMode
      PROVE  /\ FieldsKept /\ run' \in RunStates
             /\ run'.prevVersion = IF mode = "alias" THEN live ELSE run.prevVersion
  BY <1>1, <1>5 DEF ReadMode, FieldsKept, RunStates
<1>6. ASSUME UpdateFunction
      PROVE  /\ FieldsKept /\ run' \in RunStates
             /\ run'.prevImage = fn.image /\ run'.updating
  BY <1>1, <1>6 DEF UpdateFunction, FieldsKept, RunStates
<1>7. ASSUME ReuseVersion
      PROVE  /\ FieldsKept /\ run' \in RunStates
             /\ run'.candidate = run.restored.version
  <2>1. run.restored.version \in Nat
    BY <1>1, <1>7 DEF ReuseVersion, Reusable
  <2>2. QED
    BY <1>1, <1>7, <2>1 DEF ReuseVersion, FieldsKept, RunStates
<1>8. ASSUME PublishVersion
      PROVE  /\ FieldsKept /\ run' \in RunStates
             /\ \/ run' = run /\ pc' # "check"
                \/ /\ pc' = "check"
                   /\ run'.candidate \in DOMAIN versions' \ gone
                   /\ versions'[run'.candidate] =
                        [image |-> run.image, config |-> fn.config]
  <2>1. PICK v \in 1..Len(versions) + 1 :
          /\ Published(v)
          /\ \/ /\ fn.image = run.image /\ pc' = "check"
                /\ run' = [run EXCEPT !.candidate = v]
             \/ run' = run /\ pc' # "check"
    BY <1>8 DEF PublishVersion, Failing, Step
  <2>2. /\ v \in DOMAIN versions' \ gone /\ v \in Nat
        /\ versions'[v] = [image |-> fn.image, config |-> fn.config]
    BY <1>1, <2>1, PublishedIsThere
  <2>3. CASE run' = run /\ pc' # "check"
    BY <1>1, <2>3 DEF FieldsKept
  <2>4. CASE fn.image = run.image /\ pc' = "check" /\ run' = [run EXCEPT !.candidate = v]
    <3>1. FieldsKept /\ run' \in RunStates /\ run'.candidate = v
      BY <1>1, <1>8, <2>2, <2>4 DEF FieldsKept, RunStates
    <3>2. QED
      BY <2>2, <2>4, <3>1
  <2>5. QED
    BY <2>1, <2>3, <2>4
<1>9. ASSUME DeployCheck
      PROVE  FieldsKept /\ run' \in RunStates /\ run'.served \in Predictions
  BY <1>1, <1>9 DEF DeployCheck, FieldsKept, RunStates
<1>10. ASSUME RecordVerified
       PROVE  FieldsKept /\ run' \in RunStates /\ run'.deployment = Candidate
  <2>1. Candidate \in Deployments
    BY <1>10, CandidateTyped DEF RecordVerified, Step
  <2>2. QED
    BY <1>1, <1>10, <2>1 DEF RecordVerified, FieldsKept, RunStates
<1>11. ASSUME MoveAlias \/ MoveFails
       PROVE  FieldsKept /\ run' \in RunStates /\ run'.aliasMoved
  <2>1. run' = [run EXCEPT !.aliasMoved = TRUE]
    BY <1>11 DEF MoveAlias, MoveFails
  <2>2. QED
    BY <1>1, <1>11, <2>1 DEF FieldsKept, RunStates
<1>12. ASSUME RestoreFails \/ AliasBackFails
       PROVE  FieldsKept /\ run' \in RunStates /\ run'.stuck
  <2>1. run' = [run EXCEPT !.stuck = TRUE]
    BY <1>12 DEF RestoreFails, AliasBackFails
  <2>2. QED
    BY <1>1, <1>12, <2>1 DEF FieldsKept, RunStates
<1>13. ASSUME ImageRestored
       PROVE  /\ FieldsKept /\ run' \in RunStates
              /\ run'.stuck = (fn.status # "Successful" \/ fn.image # run.prevImage)
  <2> DEFINE failed == fn.status # "Successful" \/ fn.image # run.prevImage
  <2>1. run' = [run EXCEPT !.stuck = failed]
    BY <1>13 DEF ImageRestored
  <2>2. failed \in BOOLEAN
    OBVIOUS
  <2> HIDE DEF failed
  <2>3. FieldsKept /\ run' \in RunStates /\ run'.stuck = failed
    BY <1>1, <1>13, <2>1, <2>2 DEF FieldsKept, RunStates
  <2>4. QED
    BY <2>3 DEF failed
<1>14. FieldsKept /\ run' \in RunStates
  BY <1>2, <1>3, <1>4, <1>5, <1>6, <1>7, <1>8, <1>9, <1>10, <1>11, <1>12, <1>13 DEF Writing
<1>15. QED
  BY <1>2, <1>3, <1>4, <1>5, <1>6, <1>7, <1>8, <1>9, <1>10, <1>11, <1>12, <1>13, <1>14
     DEF Written

\* Where a run can come from into each of its steps.
LEMMA EnteredFrom ==
  ASSUME Next, pc' # pc
  PROVE  /\ pc' = "idle" => Ending
         /\ pc' = "record" => Starting
         /\ pc' = "build" => RecordServing /\ run.restored = None
         /\ pc' = "pin" => \/ RecordServing /\ run.restored # None
                           \/ ReuseImage \/ BuildImage
         /\ pc' = "mode" => PinImages /\ pc = "pin"
         /\ pc' = "update" => ReadMode /\ mode # "alias"
         /\ pc' = "settle" => UpdateFunction
         /\ pc' = "publish" => ReadMode /\ mode = "alias"
         /\ pc' = "published" => UpdateCandidate /\ pc = "publish"
         /\ pc' = "check" => \/ UpdateSettled /\ pc = "settle"
                             \/ ReuseVersion
                             \/ PublishVersion /\ fn.image = run.image
         /\ pc' = "put" => DeployCheck
         /\ pc' = "move" => RecordVerified /\ Moves
         /\ pc' = "url" => (RecordVerified /\ ~Moves) \/ MoveAlias
BY DEF Next, Starting, Ending, Step, Failing, Recovering, RunEnds,
   Select, ChangeCode, ChangeConfig, DeleteVersion, Expire, UpdateEnds,
   StartBuild, StartRestore, StartRefused, RecordServing, ReuseImage, BuildImage,
   PinImages, PinRefused, PinStops, ReadMode, UpdateRefused, UpdateFunction,
   UpdateSettled, ReuseVersion, PublishRefused, UpdateCandidate, PublishVersion,
   PublishFailed, Deadline, DeployCheck, RecordVerified, RecordRefused, RecordUnseen,
   MoveAlias, MoveFails, CheckUrl, StepFails, KeepPins, KeepPinsFails, Activate,
   ActivateFails, NothingToRestore, RestoreImage, ImageRestored, RestoreFails,
   AliasBack, AliasBackFails, PinsBack, PinsBackFails, RecordFailed,
   RecordFailedFails, Cancel

LEMMA LeftFrom ==
  ASSUME Next, pc' # pc
  PROVE  /\ pc' = "keep" => CheckUrl /\ pc = "url"
         /\ pc' = "activate" => (KeepPins \/ KeepPinsFails) /\ pc = "keep"
         /\ pc' = "restore" => pc \in ForwardSteps \ {"keep", "activate"}
         /\ pc' = "restored" => RestoreImage /\ pc = "restore"
         /\ pc' = "aliasBack" => \/ NothingToRestore /\ pc = "restore"
                                 \/ ImageRestored \/ RestoreFails
         /\ pc' = "pinsBack" => (AliasBack /\ pc = "aliasBack") \/ AliasBackFails
         /\ pc' = "recordFailed" => (PinsBack \/ PinsBackFails) /\ pc = "pinsBack"
         /\ pc' \in Steps
BY DEF Next, Step, Failing, Recovering, RunEnds, Steps, ForwardSteps, RecoverySteps,
   BuiltSteps, PinnedSteps, ChosenSteps, VerifiedSteps, LiveSteps,
   Select, ChangeCode, ChangeConfig, DeleteVersion, Expire, UpdateEnds,
   StartBuild, StartRestore, StartRefused, RecordServing, ReuseImage, BuildImage,
   PinImages, PinRefused, PinStops, ReadMode, UpdateRefused, UpdateFunction,
   UpdateSettled, ReuseVersion, PublishRefused, UpdateCandidate, PublishVersion,
   PublishFailed, Deadline, DeployCheck, RecordVerified, RecordRefused, RecordUnseen,
   MoveAlias, MoveFails, CheckUrl, StepFails, KeepPins, KeepPinsFails, Activate,
   ActivateFails, NothingToRestore, RestoreImage, ImageRestored, RestoreFails,
   AliasBack, AliasBackFails, PinsBack, PinsBackFails, RecordFailed,
   RecordFailedFails, Cancel

\* A step that leaves the run where it is, is none of the run's.
LEMMA Waiting ==
  ASSUME Next, pc' = pc
  PROVE  /\ \/ Select \/ ChangeCode \/ ChangeConfig \/ DeleteVersion \/ Expire
            \/ UpdateEnds \/ StartRefused
         /\ ~Writing /\ UNCHANGED <<run, ledger, liveJson, lost, passed, target>>
BY DEF Next, Writing, ledgers, history, Step, Failing, Recovering, RunEnds,
   Select, ChangeCode, ChangeConfig, DeleteVersion, Expire, UpdateEnds,
   StartBuild, StartRestore, StartRefused, RecordServing, ReuseImage, BuildImage,
   PinImages, PinRefused, PinStops, ReadMode, UpdateRefused, UpdateFunction,
   UpdateSettled, ReuseVersion, PublishRefused, UpdateCandidate, PublishVersion,
   PublishFailed, Deadline, DeployCheck, RecordVerified, RecordRefused, RecordUnseen,
   MoveAlias, MoveFails, CheckUrl, StepFails, KeepPins, KeepPinsFails, Activate,
   ActivateFails, NothingToRestore, RestoreImage, ImageRestored, RestoreFails,
   AliasBack, AliasBackFails, PinsBack, PinsBackFails, RecordFailed,
   RecordFailedFails, Cancel

\* The environment of the next state: a new run's, none, what it was, or one
\* step's writing.
LEMMA EnvironmentStep ==
  ASSUME TypedInv, Next
  PROVE  \/ Starting
         \/ Ending
         \/ /\ UNCHANGED run /\ FieldsKept /\ ~Writing /\ ~Starting /\ ~Ending
            /\ (pc' = "idle" <=> pc = "idle")
         \/ Writing /\ FieldsKept /\ Written /\ pc # "idle" /\ pc' # "idle"
<1>1. CASE ~Starting /\ ~Ending /\ ~Writing
  <2>1. UNCHANGED run
    BY <1>1, EnvironmentWrites
  <2>2. FieldsKept
    BY <2>1 DEF FieldsKept
  <2>3. pc' = "idle" <=> pc = "idle"
    BY <1>1, BetweenRuns
  <2>4. QED
    BY <1>1, <2>1, <2>2, <2>3
<1>2. CASE Writing
  BY <1>2, WritingWrites, BetweenRuns
<1>3. QED
  BY <1>1, <1>2

LEMMA RunStaysTyped ==
  ASSUME TypedInv, Next
  PROVE  RunOK'
<1>1. /\ RunOK /\ CloudOK'
      /\ DOMAIN ledger \subseteq DOMAIN ledger'
      /\ DOMAIN images \subseteq DOMAIN images'
      /\ DOMAIN versions \subseteq DOMAIN versions'
      /\ gone \subseteq DOMAIN versions
      /\ pc # "idle" => gone' = gone
  BY CloudTyped, LedgerStaysTyped, ImagesGrow, VersionsGrow, GoneGrowsBetweenRuns
     DEF TypedInv, CloudOK
<1>2. pc' \in Steps
  BY LeftFrom DEF TypedInv, RunOK
<1>3. runs' \in 0..MaxRuns
  <2>1. runs \in 0..MaxRuns /\ MaxRuns \in Nat
    BY DeployAssumption DEF TypedInv, RunOK
  <2>2. CASE StartBuild \/ StartRestore \/ StartRefused
    <3>1. runs < MaxRuns /\ runs' = runs + 1
      BY <2>2 DEF StartBuild, StartRestore, StartRefused
    <3>2. QED
      BY <2>1, <3>1
  <2>3. QED
    BY <2>1, <2>2, RunsWrites
<1>4. CASE Starting
  <2>1. /\ run' \in RunStates
        /\ run'.restored \in DOMAIN ledger \cup {None}
        /\ {run'.liveImage, run'.prevVersion, run'.prevImage, run'.candidate,
            run'.served, run'.deployment} = {None}
        /\ run'.image \in DOMAIN images \cup {None}
    BY <1>4, StartsTyped DEF Starting
  <2>2. QED
    BY <1>1, <1>2, <1>3, <2>1 DEF RunOK
<1>5. CASE Ending
  <2>1. run' = NoRun
    BY <1>5, BetweenRuns
  <2>2. QED
    BY <1>2, <1>3, <2>1, NothingAtHand DEF RunOK, NoRun
<1>6. CASE UNCHANGED run /\ (pc' = "idle" <=> pc = "idle")
  <2>1. CASE pc = "idle"
    <3>1. run' = NoRun
      BY <1>6, <2>1 DEF TypedInv, FoundOK
    <3>2. QED
      BY <1>2, <1>3, <3>1, NothingAtHand DEF RunOK, NoRun
  <2>2. CASE pc # "idle"
    BY <1>1, <1>2, <1>3, <1>6, <2>2 DEF RunOK
  <2>3. QED
    BY <2>1, <2>2
<1>7. CASE Writing /\ FieldsKept /\ Written /\ pc # "idle"
  <2>1. run' \in RunStates
    BY <1>7 DEF Written
  <2>2. run'.restored \in DOMAIN ledger' \cup {None}
    BY <1>1, <1>7 DEF FieldsKept, RunOK
  <2>3. run'.deployment \in DOMAIN ledger' \cup {None}
    <3>1. CASE RecordVerified
      <4>1. Candidate \in DOMAIN ledger'
        BY <3>1 DEF RecordVerified, Put, Recorded
      <4>2. QED
        BY <1>7, <3>1, <4>1 DEF Written
    <3>2. QED
      BY <1>1, <1>7, <3>1 DEF FieldsKept, RunOK
  <2>4. run'.image \in DOMAIN images' \cup {None}
    <3>1. ReuseImage => run'.image \in DOMAIN images
      BY <1>7, Numbers DEF Written, Tagged
    <3>2. BuildImage => run'.image \in DOMAIN images'
      BY <1>7, ImagesGrow DEF Written
    <3>3. QED
      BY <1>1, <1>7, <3>1, <3>2 DEF FieldsKept, RunOK
  <2>5. run'.liveImage \in DOMAIN images' \cup {None}
    BY <1>1, <1>7, Numbers DEF FieldsKept, Written, RunOK
  <2>6. run'.prevImage \in DOMAIN images' \cup {None}
    BY <1>1, <1>7, Numbers DEF FieldsKept, Written, RunOK
  <2>7. run'.prevVersion \in (DOMAIN versions' \ gone') \cup {None}
    BY <1>1, <1>7, Numbers DEF FieldsKept, Written, RunOK
  <2>8. run'.candidate \in (DOMAIN versions' \ gone') \cup {None}
    <3>1. ReuseVersion => run.restored.version \in DOMAIN versions \ gone
      BY DEF ReuseVersion, Reusable
    <3>2. QED
      BY <1>1, <1>7, <3>1 DEF FieldsKept, Written, RunOK
  <2>9. QED
    BY <1>2, <1>3, <2>1, <2>2, <2>3, <2>4, <2>5, <2>6, <2>7, <2>8 DEF RunOK
<1>8. QED
  BY <1>4, <1>5, <1>6, <1>7, EnvironmentStep

LEMMA FoundStays ==
  ASSUME TypedInv, Next
  PROVE  FoundOK'
<1>1. FoundOK /\ None \notin Nat /\ None \notin Predictions /\ None \notin Deployments
  BY DeployAssumption DEF TypedInv
<1>2. CASE Starting
  <2>1. /\ run'.release \in Releases
        /\ run'.restored # None =>
             run'.image = run'.restored.image /\ run'.release = run'.restored.release
        /\ run'.restored = None <=> run'.image = None
        /\ {run'.liveImage, run'.prevVersion, run'.prevImage, run'.candidate,
            run'.served, run'.deployment} = {None}
        /\ ~run'.updating /\ ~run'.aliasMoved
    BY <1>2, StartsTyped DEF Starting
  <2>2. None \notin Releases
    BY DeployAssumption
  <2>3. pc' = "record"
    BY <1>2, BetweenRuns
  <2>4. QED
    BY <2>1, <2>2, <2>3 DEF FoundOK, BuiltSteps, PinnedSteps, ChosenSteps, VerifiedSteps,
       LiveSteps
<1>3. CASE run' = NoRun /\ pc' = "idle"
  BY <1>3 DEF FoundOK, NoRun, BuiltSteps, PinnedSteps, ChosenSteps, VerifiedSteps, LiveSteps

<1>4. CASE UNCHANGED run /\ ~Writing /\ ~Starting /\ ~Ending
  <2>1. CASE pc' = pc
    BY <1>1, <1>4, <2>1 DEF FoundOK
  <2>2. CASE pc' # pc
    <3>1. pc' \in {"mode", "check", "published", "url", "keep", "activate"} \cup RecoverySteps
      BY <1>4, <2>2, EnteredFrom, LeftFrom DEF Writing, Steps, ForwardSteps, BuiltSteps, PinnedSteps,
         ChosenSteps, VerifiedSteps, LiveSteps
    <3>2. /\ pc' = "mode" => pc = "pin"
          /\ pc' = "check" => pc = "settle"
          /\ pc' = "published" => pc = "publish"
          /\ pc' = "keep" => pc = "url"
          /\ pc' = "activate" => pc = "keep"
          /\ pc' # "url"
      BY <1>4, <2>2, EnteredFrom, LeftFrom DEF Writing, CheckUrl
    <3>3. pc # "idle"
      BY <1>4, <2>2, BetweenRuns
    <3>4. QED
      BY <1>1, <1>4, <3>1, <3>2, <3>3 DEF FoundOK, BuiltSteps, PinnedSteps, ChosenSteps, VerifiedSteps,
         LiveSteps, RecoverySteps
  <2>3. QED
    BY <2>1, <2>2
<1>5. CASE Writing /\ FieldsKept /\ Written /\ pc # "idle" /\ pc' # "idle"
  <2>1. CASE pc \in RecoverySteps
    <3>1. /\ ImageRestored \/ RestoreFails \/ AliasBackFails
          /\ pc' \in RecoverySteps
      BY <1>5, <2>1, OneWriter DEF RecoverySteps, Writing
    <3>2. QED
      BY <1>1, <1>5, <2>1, <3>1, OneWriter DEF FoundOK, FieldsKept, RecoverySteps, Writing, BuiltSteps,
         PinnedSteps, ChosenSteps, VerifiedSteps, LiveSteps
  <2>2. CASE pc \notin RecoverySteps
    <3>0. /\ RecordVerified => Candidate # None
          /\ ReuseImage \/ BuildImage => run'.image # None
          /\ ~Starting
      <4>1. \A i \in Tagged(run.release) : i # None
        BY Numbers DEF Tagged
      <4>2. Len(images') # None
        BY <1>1, ImagesGrow, LenProperties
      <4>3. RecordVerified => Candidate # None
        BY <1>1, OneWriter, CandidateTyped
      <4>4. QED
        BY <1>5, <4>1, <4>2, <4>3, BetweenRuns DEF Written
    <3>1. run'.release # None /\ run'.restored = run.restored /\ pc' # "record" /\ pc' # pc
      BY <1>1, <1>5, <2>2, <3>0, Numbers, OneWriter, EnteredFrom, LeftFrom
         DEF FoundOK, FieldsKept, Written, Writing, Steps, ForwardSteps, BuiltSteps, PinnedSteps,
         ChosenSteps, VerifiedSteps, LiveSteps, RecoverySteps
    <3>2. run'.restored # None =>
            run'.image = run'.restored.image /\ run'.release = run'.restored.release
      BY <1>1, <1>5, <2>2, <3>0, Numbers, OneWriter, EnteredFrom, LeftFrom
         DEF FoundOK, FieldsKept, Written, Writing, Steps, ForwardSteps, BuiltSteps, PinnedSteps,
         ChosenSteps, VerifiedSteps, LiveSteps, RecoverySteps
    <3>3. pc' = "build" => run'.restored = None /\ run'.image = None
      BY <1>1, <1>5, <2>2, <3>0, Numbers, OneWriter, EnteredFrom, LeftFrom
         DEF FoundOK, FieldsKept, Written, Writing, Steps, ForwardSteps, BuiltSteps, PinnedSteps,
         ChosenSteps, VerifiedSteps, LiveSteps, RecoverySteps
    <3>4. run'.liveImage # None
      BY <1>1, <1>5, <2>2, <3>0, Numbers, OneWriter, EnteredFrom, LeftFrom
         DEF FoundOK, FieldsKept, Written, Writing, Steps, ForwardSteps, BuiltSteps, PinnedSteps,
         ChosenSteps, VerifiedSteps, LiveSteps, RecoverySteps
    <3>5. pc' \in BuiltSteps => run'.image # None
      BY <1>1, <1>5, <2>2, <3>0, Numbers, OneWriter, EnteredFrom, LeftFrom
         DEF FoundOK, FieldsKept, Written, Writing, Steps, ForwardSteps, BuiltSteps, PinnedSteps,
         ChosenSteps, VerifiedSteps, LiveSteps, RecoverySteps
    <3>6. run'.updating <=> run'.prevImage # None
      BY <1>1, <1>5, <2>2, <3>0, Numbers, OneWriter, EnteredFrom, LeftFrom
         DEF FoundOK, FieldsKept, Written, Writing, Steps, ForwardSteps, BuiltSteps, PinnedSteps,
         ChosenSteps, VerifiedSteps, LiveSteps, RecoverySteps
    <3>7. pc' = "put" => run'.served # None
      BY <1>1, <1>5, <2>2, <3>0, Numbers, OneWriter, EnteredFrom, LeftFrom
         DEF FoundOK, FieldsKept, Written, Writing, Steps, ForwardSteps, BuiltSteps, PinnedSteps,
         ChosenSteps, VerifiedSteps, LiveSteps, RecoverySteps
    <3>8. pc' \in VerifiedSteps => run'.deployment # None
      BY <1>1, <1>5, <2>2, <3>0, Numbers, OneWriter, EnteredFrom, LeftFrom
         DEF FoundOK, FieldsKept, Written, Writing, Steps, ForwardSteps, BuiltSteps, PinnedSteps,
         ChosenSteps, VerifiedSteps, LiveSteps, RecoverySteps
    <3>9. QED
      BY <1>5, <3>1, <3>2, <3>3, <3>4, <3>5, <3>6, <3>7, <3>8 DEF FoundOK
  <2>3. QED
    BY <2>1, <2>2
<1>6. QED
  BY <1>2, <1>3, <1>4, <1>5, BetweenRuns, EnvironmentStep

LEMMA ModeStays ==
  ASSUME TypedInv, Next
  PROVE  ModeOK'
<1>1. ModeOK /\ UNCHANGED mode /\ None \notin Nat /\ FoundOK
  BY DeployAssumption, InputsKept DEF TypedInv
<1>2. CASE Starting
  BY <1>2, StartsTyped, BetweenRuns
     DEF ModeOK, Starting, PinnedSteps, ChosenSteps, VerifiedSteps, LiveSteps
<1>3. CASE run' = NoRun /\ pc' = "idle"
  BY <1>3 DEF ModeOK, NoRun, PinnedSteps, ChosenSteps, VerifiedSteps, LiveSteps
<1>4. CASE FieldsKept /\ (UNCHANGED run \/ Written) /\ ~Starting /\ ~Ending
  <2>1. ASSUME mode = "latest"
        PROVE  /\ run'.prevVersion = None /\ run'.candidate = None /\ ~run'.aliasMoved
               /\ pc' \notin {"publish", "published", "move"}
    <3>1. pc' \notin {"publish", "published", "move"}
      BY <1>1, <2>1, EnteredFrom DEF ModeOK, Moves
    <3>2. run'.prevVersion = None
      BY <1>1, <1>4, <2>1 DEF ModeOK, FieldsKept, Written
    <3>3. run'.candidate = None /\ ~run'.aliasMoved
      BY <1>1, <1>4, <2>1, OneWriter DEF ModeOK, FieldsKept
    <3>4. QED
      BY <3>1, <3>2, <3>3
  <2>2. ASSUME mode = "alias"
        PROVE  ~run'.updating /\ pc' \notin {"update", "settle", "restored"}
    BY <1>1, <1>4, <2>2, EnteredFrom, LeftFrom, OneWriter
       DEF ModeOK, FieldsKept, RestoreImage, MustRestore
  <2>3. ASSUME mode = "alias", pc' \in PinnedSteps \ {"mode"}
        PROVE  run'.prevVersion # None
    <3>1. CASE ReadMode
      BY <1>1, <2>3, <3>1, Numbers, WritingWrites DEF Written, Writing
    <3>2. CASE ~ReadMode
      <4>1. pc \in PinnedSteps \ {"mode"}
        BY <2>3, <3>2, EnteredFrom, LeftFrom, OneWriter
           DEF PinnedSteps, ChosenSteps, VerifiedSteps, LiveSteps, CheckUrl
      <4>2. QED
        BY <1>1, <1>4, <2>3, <3>2, <4>1 DEF ModeOK, FieldsKept
    <3>3. QED
      BY <3>1, <3>2
  <2>4. ASSUME mode = "alias", pc' \in ChosenSteps
        PROVE  run'.candidate # None
    <3>1. CASE pc \in ChosenSteps
      BY <1>1, <1>4, <2>4, <3>1, OneWriter
         DEF ModeOK, FieldsKept, ChosenSteps, VerifiedSteps, LiveSteps
    <3>2. CASE pc \notin ChosenSteps
      <4>1. pc' = "check" /\ (ReuseVersion \/ PublishVersion)
        BY <1>1, <2>4, <3>2, EnteredFrom, LeftFrom, OneWriter
           DEF ModeOK, ChosenSteps, VerifiedSteps, LiveSteps
      <4>2. run'.candidate \in Nat
        BY <1>1, <1>4, <4>1, WritingWrites, VersionsGrow, Numbers DEF Written, Writing, ReuseVersion, Reusable
      <4>3. QED
        BY <1>1, <4>2
    <3>3. QED
      BY <3>1, <3>2
  <2>5. QED
    BY <1>1, <2>1, <2>2, <2>3, <2>4 DEF ModeOK
<1>5. QED
  BY <1>2, <1>3, <1>4, EnvironmentStep, BetweenRuns

\* The alias only moves in alias mode, to a version that was chosen.
LEMMA ModeInMove ==
  ASSUME TypedInv, pc = "move"
  PROVE  mode = "alias" /\ run.candidate # None
BY DeployAssumption DEF TypedInv, InputsOK, ModeOK, ChosenSteps, VerifiedSteps

LEMMA CandidateStays ==
  ASSUME TypedInv, Next
  PROVE  CandidateOK'
<1>1. /\ CandidateOK /\ RunOK /\ FoundOK /\ UNCHANGED mode /\ None \notin Nat
      /\ \A v \in DOMAIN versions : versions'[v] = versions[v]
  BY DeployAssumption, InputsKept, VersionsGrow DEF TypedInv
<1>2. CASE Starting
  BY <1>2, StartsTyped, BetweenRuns DEF CandidateOK, Starting
<1>3. CASE run' = NoRun /\ pc' = "idle"
  BY <1>3 DEF CandidateOK, NoRun, ForwardSteps, BuiltSteps, PinnedSteps, ChosenSteps,
     VerifiedSteps, LiveSteps
<1>4. CASE /\ FieldsKept /\ ~Starting /\ ~Ending
           /\ \/ UNCHANGED run /\ ~Writing
              \/ Writing /\ Written
  <2>1. pc' \in ForwardSteps \ ChosenSteps => pc \in ForwardSteps \ ChosenSteps
    BY <1>4, EnteredFrom, LeftFrom, OneWriter DEF ForwardSteps, BuiltSteps, PinnedSteps,
       ChosenSteps, VerifiedSteps, LiveSteps
  <2>2. pc' \in ForwardSteps \ VerifiedSteps => pc \in ForwardSteps \ VerifiedSteps
    BY <1>4, EnteredFrom, LeftFrom, OneWriter DEF ForwardSteps, BuiltSteps, PinnedSteps,
       ChosenSteps, VerifiedSteps, LiveSteps
  <2>3. pc' \in ForwardSteps \ ChosenSteps => run'.candidate = None
    BY <1>1, <1>4, <2>1, OneWriter
       DEF CandidateOK, FieldsKept, Written, Writing, ChosenSteps
  <2>4. pc' \in ForwardSteps \ VerifiedSteps => run'.deployment = None
    BY <1>1, <1>4, <2>2, OneWriter
       DEF CandidateOK, FieldsKept, VerifiedSteps, LiveSteps
  <2>5. run'.candidate # None => versions'[run'.candidate].image = run'.image
    <3>1. CASE (ReuseVersion \/ PublishVersion) /\ run'.candidate # run.candidate
      <4>1. run'.image = run.image
        BY <1>4, <3>1, OneWriter DEF FieldsKept
      <4>2. QED
        BY <1>1, <1>4, <3>1, <4>1, Numbers DEF Written, Writing, ReuseVersion, Reusable
    <3>2. CASE ReuseImage \/ BuildImage
      BY <1>1, <1>4, <3>2, OneWriter DEF CandidateOK, FieldsKept, ForwardSteps, ChosenSteps,
         VerifiedSteps, LiveSteps
    <3>3. CASE run'.candidate = run.candidate /\ run'.image = run.image
      BY <1>1, <3>3 DEF CandidateOK, RunOK
    <3>4. QED
      BY <1>4, <3>1, <3>2, <3>3 DEF FieldsKept
  <2>6. run'.deployment # None =>
          /\ run'.deployment.release = run'.release
          /\ run'.deployment.image = run'.image
          /\ run'.deployment.version = run'.candidate
    <3>1. CASE RecordVerified
      BY <1>4, <3>1, OneWriter DEF FieldsKept, Written, Writing, Candidate
    <3>2. CASE pc \in ForwardSteps \ VerifiedSteps /\ ~RecordVerified
      BY <1>1, <1>4, <3>2 DEF CandidateOK, FieldsKept
    <3>3. CASE pc \notin ForwardSteps \ VerifiedSteps
      BY <1>1, <1>4, <3>3, OneWriter DEF CandidateOK, FieldsKept, ForwardSteps, BuiltSteps,
         PinnedSteps, ChosenSteps, VerifiedSteps, LiveSteps
    <3>4. QED
      BY <3>1, <3>2, <3>3
  <2>7. ASSUME pc' = "move"
        PROVE  /\ run'.deployment.config = versions'[run'.candidate].config
               /\ ledger'[run'.deployment].events[Len(ledger'[run'.deployment].events)].event
                    = "verified"
    <3>1. CASE pc = "move"
      <4>1. ~Writing /\ UNCHANGED ledger /\ UNCHANGED run
        BY <2>7, <3>1, Waiting
      <4>2. run.candidate \in DOMAIN versions
        BY <1>1, <3>1, ModeInMove DEF RunOK
      <4>3. QED
        BY <1>1, <2>7, <3>1, <4>1, <4>2 DEF CandidateOK
    <3>2. CASE pc # "move"
      <4>1. RecordVerified /\ Moves /\ pc = "put"
        BY <2>7, <3>2, EnteredFrom, OneWriter
      <4>2. /\ run'.deployment = Candidate /\ run'.candidate = run.candidate
            /\ run.candidate # None /\ run.candidate \in DOMAIN versions
        <5>1. mode = "alias"
          BY <4>1 DEF Moves
        <5>2. run.candidate # None
          BY <4>1, <5>1 DEF TypedInv, ModeOK, ChosenSteps
        <5>3. run'.deployment = Candidate
          BY <1>4, <4>1 DEF Written, Writing
        <5>4. run'.candidate = run.candidate
          BY <1>4, <4>1, OneWriter DEF FieldsKept
        <5>5. QED
          BY <1>1, <5>2, <5>3, <5>4 DEF RunOK
      <4>3. Candidate.config = versions'[run'.candidate].config
        BY <1>1, <4>2 DEF Candidate
      <4>4. EventAdded(ledger, ledger', Candidate, "verified")
        <5>1. ledger' = Put(ledger, Candidate, run.served)
          BY <4>1 DEF RecordVerified
        <5>2. Candidate \in Deployments
          BY <4>1, CandidateTyped
        <5>3. run.served \in Predictions /\ LedgerTyped(ledger)
          BY <1>1, <4>1 DEF FoundOK, RunOK, RunStates, TypedInv, LedgerOK
        <5>4. QED
          BY <5>1, <5>2, <5>3, PutAdds
      <4>5. QED
        BY <4>2, <4>3, <4>4 DEF EventAdded
    <3>3. QED
      BY <3>1, <3>2
  <2>8. QED
    BY <2>3, <2>4, <2>5, <2>6, <2>7 DEF CandidateOK
<1>5. \/ Starting
      \/ Ending
      \/ UNCHANGED run /\ FieldsKept /\ ~Writing /\ ~Starting /\ ~Ending
      \/ Writing /\ FieldsKept /\ Written /\ ~Starting /\ ~Ending
  <2>1. Writing => ~Starting /\ ~Ending
    BY BetweenRuns
  <2>2. QED
    BY <2>1, EnvironmentStep
<1>6. Ending => run' = NoRun /\ pc' = "idle"
  BY BetweenRuns
<1>7. QED
  BY <1>2, <1>3, <1>4, <1>5, <1>6

LEMMA InitTyped ==
  ASSUME Init
  PROVE  TypedInv
<1>1. PICK m \in Models, c \in Codes, k \in Configs :
        /\ selected = [version |-> m, previous |-> None, action |-> "promote"]
        /\ code = c
        /\ fn = [image |-> 1, config |-> k, status |-> "Successful", pending |-> None]
        /\ images = <<[release |-> [model |-> m, code |-> c], fresh |-> FALSE]>>
        /\ versions = <<[image |-> 1, config |-> k]>>
        /\ StartingLedger(m, c, k)
  BY DEF Init
<1>2. /\ mode \in Modes /\ present = {1} /\ pins \subseteq {1} /\ gone = {} /\ live = 1
      /\ pc = "idle" /\ run = NoRun /\ runs = 0
  BY DEF Init
<1>3. [model |-> m, code |-> c] \in Releases
  BY DEF Releases
<1>4. InputsOK
  BY <1>1, <1>2 DEF InputsOK
<1>5. CloudOK
  <2>1. images \in Seq([release : Releases, fresh : BOOLEAN]) /\ DOMAIN images = {1}
    BY <1>1, <1>3
  <2>2. versions \in Seq([image : DOMAIN images, config : Configs]) /\ DOMAIN versions = {1}
    BY <1>1, <2>1
  <2>3. QED
    BY <1>1, <1>2, <2>1, <2>2 DEF CloudOK
<1>6. LedgerOK
  <2> DEFINE d == [release |-> [model |-> m, code |-> c], image |-> 1,
                   version |-> IF mode = "alias" THEN 1 ELSE None, config |-> k]
             empty == [x \in {} |-> None]
  <2>1. LedgerTyped(empty)
    BY DEF LedgerTyped
  <2>2. CASE ledger = empty /\ liveJson = None
    BY <2>1, <2>2 DEF LedgerOK
  <2>3. ASSUME NEW p \in Predictions, liveJson = d,
               ledger = Event(Put(empty, d, p), d, "activated")
        PROVE  LedgerOK
    <3>1. d \in Deployments
      BY <1>3 DEF Deployments
    <3>2. EventAdded(empty, Put(empty, d, p), d, "verified")
      BY <2>1, <3>1, PutAdds
    <3>3. EventAdded(Put(empty, d, p), ledger, d, "activated")
      <4> DEFINE l == Put(empty, d, p)
      <4>1. ledger = Event(l, d, "activated")
        BY <2>3
      <4> HIDE DEF d, empty, l
      <4>2. LedgerTyped(l) /\ d \in DOMAIN l
        BY <3>2 DEF EventAdded, l
      <4>3. EventAdded(l, ledger, d, "activated")
        BY <4>1, <4>2, EventAdds DEF Events
      <4>4. QED
        BY <4>3 DEF l
    <3>4. QED
      BY <2>3, <3>3 DEF EventAdded, LedgerOK
  <2>4. QED
    BY <1>1, <2>2, <2>3 DEF StartingLedger
<1>7. RunOK /\ FoundOK /\ ModeOK /\ CandidateOK
  BY <1>2, NothingAtHand, DeployAssumption DEF RunOK, FoundOK, ModeOK, CandidateOK, NoRun, Steps, ForwardSteps,
     BuiltSteps, PinnedSteps, ChosenSteps, VerifiedSteps, LiveSteps
<1>8. QED
  BY <1>4, <1>5, <1>6, <1>7 DEF TypedInv

LEMMA NothingChanged ==
  ASSUME UNCHANGED vars
  PROVE  /\ UNCHANGED <<mode, selected, code, edits>>
         /\ UNCHANGED <<images, present, pins, fn, versions, gone, live>>
         /\ UNCHANGED <<ledger, liveJson, lost, passed, target, pc, run, runs, faults>>
BY DEF vars, inputs, cloud, ledgers, history

LEMMA TypedStays ==
  ASSUME TypedInv, [Next]_vars
  PROVE  TypedInv'
<1>1. CASE Next
  BY <1>1, InputsTyped, CloudTyped, LedgerStaysTyped, RunStaysTyped, FoundStays, ModeStays,
     CandidateStays DEF TypedInv
<1>2. CASE UNCHANGED vars
  <2>1. InputsOK' /\ CloudOK'
    BY <1>2, NothingChanged DEF TypedInv, InputsOK, CloudOK
  <2>2. LedgerOK'
    BY <1>2, NothingChanged DEF TypedInv, LedgerOK, LedgerTyped
  <2>3. RunOK' /\ FoundOK' /\ ModeOK'
    BY <1>2, NothingChanged DEF TypedInv, RunOK, FoundOK, ModeOK
  <2>4. CandidateOK'
    BY <1>2, NothingChanged DEF TypedInv, CandidateOK
  <2>5. QED
    BY <2>1, <2>2, <2>3, <2>4 DEF TypedInv
<1>3. QED
  BY <1>1, <1>2

LEMMA AlwaysTyped == Spec => []TypedInv
<1>1. Init => TypedInv
  BY InitTyped
<1>2. TypedInv /\ [Next]_vars => TypedInv'
  BY TypedStays
<1>3. QED
  BY <1>1, <1>2, PTL DEF Spec

\* Type correctness: main, the function and its versions, the ledger and the
\* run's environment only ever hold what they are meant to hold, what a run
\* names is recorded, and a run is in progress exactly when it has an
\* environment.
THEOREM DeployTypeCorrect == Spec => []TypeOK
<1>1. TypedInv => TypeOK
  <2> SUFFICES ASSUME TypedInv PROVE TypeOK
    OBVIOUS
  <2>1. ASSUME NEW d \in DOMAIN ledger
        PROVE  /\ ledger[d].served \in Predictions /\ ledger[d].events # <<>>
               /\ EventsOf(ledger[d]) \subseteq [event : Events, at : Nat]
    <3>1. ledger[d] \in Records /\ ledger[d].events # <<>>
      BY DEF TypedInv, LedgerOK, LedgerTyped
    <3>2. \A e \in EventsOf(ledger[d]) : e \in [event : Events, at : Nat]
      BY TimesAreTyped DEF TypedInv, LedgerOK
    <3>3. QED
      BY <3>1, <3>2 DEF Records
  <2>2. pc = "idle" <=> run = NoRun
    BY DEF TypedInv, FoundOK, NoRun
  <2>3. QED
    BY <2>1, <2>2 DEF TypeOK, TypedInv, InputsOK, CloudOK, LedgerOK, LedgerTyped, RunOK,
       Recorded
<1>2. QED
  BY <1>1, AlwaysTyped, PTL

-----------------------------------------------------------------------------
(* What goes live *)

\* The step that moves the alias moves it to the candidate, which is recorded.
LEMMA GoesLiveRecorded ==
  ASSUME TypedInv, Next, pc = "move", live' # live
  PROVE  /\ live' = run.candidate
         /\ run.deployment \in DOMAIN ledger
         /\ run.deployment.version = live'
         /\ versions[live'] = [image |-> run.deployment.image,
                               config |-> run.deployment.config]
         /\ ledger[run.deployment].events[Len(ledger[run.deployment].events)].event
              = "verified"
<1>1. live' = run.candidate
  BY CloudWrites DEF MoveAlias, MoveFails, AliasBack, AliasBackFails, Recovering
<1>2. run.candidate # None /\ run.candidate \in DOMAIN versions
  BY ModeInMove DEF TypedInv, RunOK
<1>3. run.deployment # None /\ run.deployment \in DOMAIN ledger
  BY DEF TypedInv, FoundOK, RunOK, VerifiedSteps
<1>4. versions[run.candidate] \in Versions
  <2>1. versions \in Seq(Versions)
    BY DEF TypedInv, CloudOK, Versions
  <2>2. QED
    BY <1>2, <2>1, ElementOfSeq, LenProperties
<1>5. QED
  BY <1>1, <1>2, <1>3, <1>4 DEF TypedInv, CandidateOK, Versions

\* "A deployment that cannot be recorded cannot be rolled back to, so it does
\* not go live": in every behaviour, whatever fails, the alias only moves to a
\* version recorded as verified with the image and configuration it has, or
\* back to where the run found it.
THEOREM NothingUnrecordedGoesLive == Spec => OnlyVerifiedGoLive
<1> DEFINE Goes ==
      live' # live =>
        \/ pc = "aliasBack" /\ live' = run.prevVersion
        \/ \E d \in Recorded(ledger) :
             /\ d.version = live'
             /\ versions[live'] = [image |-> d.image, config |-> d.config]
             /\ ledger[d].events[Len(ledger[d].events)].event = "verified"
<1>1. TypedInv /\ [Next]_vars => [Goes]_vars
  <2> SUFFICES ASSUME TypedInv, Next, live' # live
               PROVE  \/ pc = "aliasBack" /\ live' = run.prevVersion
                      \/ \E d \in Recorded(ledger) :
                           /\ d.version = live'
                           /\ versions[live'] = [image |-> d.image, config |-> d.config]
                           /\ ledger[d].events[Len(ledger[d].events)].event = "verified"
    OBVIOUS
  <2>1. CASE MoveAlias \/ MoveFails
    <3>1. pc = "move"
      BY <2>1, OneWriter
    <3>2. QED
      BY <3>1, GoesLiveRecorded DEF Recorded
  <2>2. CASE AliasBack \/ AliasBackFails
    BY <2>2 DEF AliasBack, AliasBackFails, Recovering
  <2>3. QED
    BY <2>1, <2>2, CloudWrites
<1>2. QED
  BY <1>1, AlwaysTyped, PTL DEF Spec, OnlyVerifiedGoLive

-----------------------------------------------------------------------------
(* What serves *)

\* While a run is in progress its environment changes field by field.
LEMMA InProgress ==
  ASSUME TypedInv, Next, pc' # "idle", pc # "idle"
  PROVE  /\ FieldsKept /\ ~Starting /\ ~Ending /\ UNCHANGED lost
         /\ \/ UNCHANGED run /\ ~Writing
            \/ Writing /\ Written
<1>1. ~Starting /\ ~Ending /\ (Writing => ~Starting /\ ~Ending)
  BY BetweenRuns
<1>2. UNCHANGED lost
  BY <1>1, RecordWrites DEF Ending
<1>3. QED
  BY <1>1, <1>2, EnvironmentStep

\* Between runs nothing but the environment of the workflow takes a step.
LEMMA StaysIdle ==
  ASSUME Next, pc = "idle", pc' = "idle"
  PROVE  UNCHANGED <<run, ledger, liveJson, lost, passed, target, live, versions>>
BY Waiting, CloudWrites
   DEF MoveAlias, MoveFails, AliasBack, AliasBackFails, PublishVersion, Step, Failing, Recovering

LEMMA AliasMovesAndReturns ==
  ASSUME TypedInv, AliasInv, Next, mode = "alias", pc # "idle", pc' # "idle"
  PROVE  /\ live' \in {run'.before.version, run'.candidate}
         /\ ~run'.aliasMoved => live' = run'.before.version
         /\ run'.aliasMoved => run'.prevVersion # None
         /\ pc' \in ForwardSteps \ LiveSteps => ~run'.aliasMoved
         /\ pc' \in LiveSteps => live' = run'.candidate
         /\ pc' \in {"pinsBack", "recordFailed"} /\ ~run'.stuck =>
              live' = run'.before.version
<1>1. /\ FieldsKept /\ None \notin Nat
      /\ \/ UNCHANGED run /\ ~Writing
         \/ Writing /\ Written
  BY InProgress, Numbers
<1>2. /\ run.prevVersion \in {None, run.before.version}
      /\ live \in {run.before.version, run.candidate}
      /\ ~run.aliasMoved => live = run.before.version
      /\ run.aliasMoved => run.prevVersion # None
      /\ pc \in ForwardSteps \ LiveSteps => ~run.aliasMoved
      /\ pc \in LiveSteps => live = run.candidate
      /\ pc \in {"pinsBack", "recordFailed"} /\ ~run.stuck => live = run.before.version
  BY DEF AliasInv
<1>3. run.before = run'.before
  BY <1>1 DEF FieldsKept
<1>4. CASE MoveAlias \/ MoveFails
  <2>1. /\ pc = "move" /\ pc' \in {"url", "restore"} /\ run'.aliasMoved
        /\ live' \in {live, run.candidate}
        /\ pc' = "url" => live' = run.candidate
    BY <1>1, <1>4 DEF MoveAlias, MoveFails, Step, Failing, Written, Writing
  <2>2. run'.candidate = run.candidate /\ run'.prevVersion = run.prevVersion
    BY <1>1, <2>1, OneWriter DEF FieldsKept
  <2>3. run.prevVersion # None
    BY <2>1 DEF TypedInv, ModeOK, PinnedSteps, ChosenSteps, VerifiedSteps
  <2>4. QED
    BY <1>2, <1>3, <2>1, <2>2, <2>3 DEF LiveSteps, ForwardSteps, BuiltSteps, PinnedSteps, ChosenSteps,
       VerifiedSteps
<1>5. CASE AliasBack \/ AliasBackFails
  <2>1. pc = "aliasBack" /\ pc' = "pinsBack"
    BY <1>5 DEF AliasBack, AliasBackFails, Recovering
  <2>2. /\ run'.candidate = run.candidate /\ run'.prevVersion = run.prevVersion
        /\ run'.aliasMoved = run.aliasMoved
    BY <1>1, <2>1, OneWriter DEF FieldsKept
  <2>3. live' \in {live, run.before.version}
    BY <1>2, <1>5 DEF AliasBack, AliasBackFails, MustMoveBack
  <2>4. ~run'.stuck => live' = run.before.version
    <3>1. CASE AliasBackFails
      BY <1>1, <3>1 DEF Written, Writing
    <3>2. CASE AliasBack
      BY <1>2, <3>2 DEF AliasBack, MustMoveBack
    <3>3. QED
      BY <1>5, <3>1, <3>2
  <2>5. QED
    BY <1>2, <1>3, <2>1, <2>2, <2>3, <2>4 DEF LiveSteps, ForwardSteps, BuiltSteps, PinnedSteps,
       ChosenSteps, VerifiedSteps
<1>6. CASE /\ ~(MoveAlias \/ MoveFails) /\ ~(AliasBack \/ AliasBackFails)
  <2>1. live' = live /\ run'.aliasMoved = run.aliasMoved
    BY <1>1, <1>6, CloudWrites DEF FieldsKept
  <2>2. CASE pc' = pc
    <3>1. run' = run
      BY <2>2, Waiting
    <3>2. QED
      BY <1>2, <2>1, <2>2, <3>1
  <2>3. CASE pc' # pc
    <3>1. run'.candidate # run.candidate => live = run.before.version
      <4>1. ASSUME run'.candidate # run.candidate
            PROVE  pc \in {"publish", "published"}
        BY <1>1, <4>1, OneWriter DEF FieldsKept
      <4>2. QED
        BY <1>2, <4>1 DEF LiveSteps, ForwardSteps, BuiltSteps, PinnedSteps, ChosenSteps,
           VerifiedSteps
    <3>2. run'.aliasMoved => run'.prevVersion # None
      <4>1. CASE ReadMode
        BY <1>2, <2>1, <4>1, OneWriter DEF LiveSteps, ForwardSteps, BuiltSteps, PinnedSteps,
           ChosenSteps, VerifiedSteps
      <4>2. CASE ~ReadMode
        BY <1>1, <1>2, <2>1, <4>2 DEF FieldsKept
      <4>3. QED
        BY <4>1, <4>2
    <3>3. pc' \in ForwardSteps \ LiveSteps => pc \in ForwardSteps \ LiveSteps
      BY <2>3, EnteredFrom, LeftFrom, OneWriter, InProgress
         DEF ForwardSteps, BuiltSteps, PinnedSteps, ChosenSteps, VerifiedSteps, LiveSteps
    <3>4. pc' \in LiveSteps => live' = run'.candidate
      <4>1. CASE pc' = "url"
        <5>1. RecordVerified /\ ~Moves /\ pc = "put"
          BY <1>6, <2>3, <4>1, EnteredFrom, OneWriter
        <5>2. run.candidate = run.prevVersion /\ run'.candidate = run.candidate
          BY <1>1, <5>1, OneWriter DEF Moves, FieldsKept
        <5>3. run.prevVersion # None /\ live = run.before.version
          BY <1>2, <5>1 DEF TypedInv, ModeOK, LiveSteps, ForwardSteps, BuiltSteps, PinnedSteps,
             ChosenSteps, VerifiedSteps
        <5>4. QED
          BY <1>2, <2>1, <5>2, <5>3
      <4>2. CASE pc' \in {"keep", "activate"}
        <5>1. pc \in {"url", "keep"}
          BY <2>3, <4>2, LeftFrom
        <5>2. run'.candidate = run.candidate
          BY <1>1, <5>1, OneWriter DEF FieldsKept
        <5>3. QED
          BY <1>2, <2>1, <5>1, <5>2 DEF LiveSteps
      <4>3. QED
        BY <4>1, <4>2 DEF LiveSteps
    <3>5. pc' \in {"pinsBack", "recordFailed"} /\ ~run'.stuck => live' = run.before.version
      BY <1>1, <1>2, <1>6, <2>1, <2>3, LeftFrom, OneWriter DEF FieldsKept
    <3>6. QED
      BY <1>2, <1>3, <2>1, <3>1, <3>2, <3>3, <3>4, <3>5
  <2>4. QED
    BY <2>2, <2>3
<1>7. QED
  BY <1>4, <1>5, <1>6

LEMMA AliasStays ==
  ASSUME TypedInv, AliasInv, Next
  PROVE  AliasInv'
<1> SUFFICES ASSUME mode = "alias", pc' # "idle"
             PROVE  AliasInv'
  BY InputsKept DEF AliasInv
<1>1. DOMAIN versions \subseteq DOMAIN versions' /\ UNCHANGED mode
  BY VersionsGrow, InputsKept
<1>2. CASE pc = "idle"
  <2>1. Starting /\ pc' = "record"
    BY <1>2, BetweenRuns
  <2>2. UNCHANGED <<live, versions>>
    BY <2>1 DEF Starting, StartBuild, StartRestore, cloud
  <2>3. /\ run'.before = [image |-> versions[live].image, version |-> live]
        /\ run'.prevVersion = None /\ ~run'.aliasMoved
    BY <2>1, StartsTyped DEF Starting, Serving
  <2>4. live \in DOMAIN versions
    BY Numbers
  <2>5. QED
    BY <1>1, <2>1, <2>2, <2>3, <2>4 DEF AliasInv, LiveSteps
<1>3. CASE pc # "idle"
  <2>1. /\ run'.before = run.before
        /\ run'.prevVersion \in {None, run.before.version}
    <3>1. FieldsKept
      BY <1>3, InProgress
    <3>2. CASE ReadMode
      <4>1. run'.prevVersion = live
        BY <3>2, WritingWrites DEF Writing, Written
      <4>2. live = run.before.version
        BY <1>3, <3>2, OneWriter
           DEF AliasInv, ForwardSteps, BuiltSteps, PinnedSteps, ChosenSteps, VerifiedSteps, LiveSteps
      <4>3. QED
        BY <3>1, <4>1, <4>2 DEF FieldsKept
    <3>3. CASE ~ReadMode
      BY <1>3, <3>1, <3>3 DEF AliasInv, FieldsKept
    <3>4. QED
      BY <3>2, <3>3
  <2>2. /\ run.before.version \in DOMAIN versions
        /\ run.before = [image |-> versions[run.before.version].image,
                         version |-> run.before.version]
    BY <1>3 DEF AliasInv
  <2>3. versions'[run.before.version] = versions[run.before.version]
    BY <2>2, VersionsGrow
  <2>4. QED
    BY <1>1, <1>3, <2>1, <2>2, <2>3, AliasMovesAndReturns DEF AliasInv
<1>4. QED
  BY <1>2, <1>3

\* What a step does to the function.
LEMMA FunctionSteps ==
  ASSUME TypedInv, Next
  PROVE  \/ fn' = fn
         \/ ChangeConfig /\ fn' = [fn EXCEPT !.config = fn'.config] /\ pc' = pc
         \/ /\ UpdateEnds /\ pc' = pc
            /\ \/ fn' = [fn EXCEPT !.status = "Successful", !.image = fn.pending, !.pending = None]
               \/ fn' = [fn EXCEPT !.status = "Failed", !.pending = None]
         \/ /\ UpdateFunction /\ pc = "update" /\ pc' = "settle"
            /\ fn' = Updated(run.image)
         \/ UpdateCandidate /\ pc = "publish" /\ fn' = Updated(run.image)
         \/ RestoreImage /\ pc = "restore" /\ pc' = "restored" /\ fn' = Updated(run.prevImage)
<1>1. CASE ChangeConfig
  <2>1. PICK k \in Configs : fn' = [fn EXCEPT !.config = k]
    BY <1>1 DEF ChangeConfig
  <2>2. fn'.config = k
    BY <2>1 DEF TypedInv, CloudOK
  <2>3. QED
    BY <1>1, <2>1, <2>2 DEF ChangeConfig
<1>2. CASE UpdateEnds
  BY <1>2 DEF UpdateEnds
<1>3. CASE UpdateFunction
  BY <1>3 DEF UpdateFunction, Step, Failing
<1>4. CASE UpdateCandidate
  BY <1>4 DEF UpdateCandidate, Step
<1>5. CASE RestoreImage
  BY <1>5 DEF RestoreImage, Recovering
<1>6. QED
  BY <1>1, <1>2, <1>3, <1>4, <1>5, CloudWrites

\* The parts of the function an update changes.
LEMMA FunctionParts ==
  ASSUME TypedInv, NEW i \in DOMAIN images
  PROVE  /\ Updated(i).image = fn.image /\ Updated(i).pending = i
         /\ Updated(i).status = "InProgress"
         /\ \A k : LET f == [fn EXCEPT !.config = k]
                   IN f.image = fn.image /\ f.pending = fn.pending /\ f.status = fn.status
         /\ LET f == [fn EXCEPT !.status = "Successful", !.image = fn.pending, !.pending = None]
            IN f.image = fn.pending /\ f.pending = None
         /\ LET f == [fn EXCEPT !.status = "Failed", !.pending = None]
            IN f.image = fn.image /\ f.pending = None
BY DEF Updated, TypedInv, CloudOK

\* In latest mode only the run's own update, and putting it back, reach the
\* function; an update that ends does what was asked for, or nothing.
LEMMA FunctionMoves ==
  ASSUME TypedInv, Next, mode = "latest"
  PROVE  \/ /\ UNCHANGED <<fn.image, fn.pending, fn.status>>
         \/ /\ fn.status = "InProgress" /\ fn.pending # None /\ pc' = pc
            /\ fn'.image \in {fn.image, fn.pending} /\ fn'.pending = None
         \/ /\ UpdateFunction /\ pc = "update" /\ pc' = "settle"
            /\ fn'.image = fn.image /\ fn'.pending = run.image
         \/ /\ RestoreImage /\ pc = "restore" /\ pc' = "restored" /\ MustRestore
            /\ fn'.image = fn.image /\ fn'.pending = run.prevImage
<1>1. fn.image \in DOMAIN images /\ None \notin Nat
  BY Numbers
<1>2. CASE ChangeConfig /\ fn' = [fn EXCEPT !.config = fn'.config]
  <2>1. /\ fn'.image = [fn EXCEPT !.config = fn'.config].image
        /\ fn'.pending = [fn EXCEPT !.config = fn'.config].pending
        /\ fn'.status = [fn EXCEPT !.config = fn'.config].status
    BY <1>2, Zenon
  <2>2. QED
    BY <1>1, <2>1, FunctionParts
<1>3. CASE UpdateEnds
  BY <1>1, <1>3, FunctionSteps, FunctionParts DEF UpdateEnds, TypedInv, CloudOK
<1>4. CASE UpdateFunction /\ pc = "update" /\ pc' = "settle" /\ fn' = Updated(run.image)
  <2>1. run.image \in DOMAIN images
    BY <1>4 DEF TypedInv, RunOK, FoundOK, BuiltSteps, PinnedSteps
  <2>2. QED
    BY <1>4, <2>1, FunctionParts
<1>5. CASE RestoreImage
  <2>1. MustRestore
    BY <1>5 DEF RestoreImage
  <2>2. run.prevImage \in DOMAIN images
    BY <2>1 DEF TypedInv, RunOK, FoundOK, MustRestore
  <2>3. QED
    BY <1>5, <2>1, <2>2, FunctionParts DEF RestoreImage, Recovering
<1>6. CASE pc = "publish"
  BY <1>6 DEF TypedInv, ModeOK
<1>7. QED
  BY <1>2, <1>3, <1>4, <1>5, <1>6, FunctionSteps

\* What an update of the run leaves of what ran before.
UpdateOK ==
  IF run.updating
  THEN /\ run.prevImage = run.before.image
       /\ fn.image \in {run.before.image, run.image}
       /\ fn.pending \in {None, run.before.image, run.image}
  ELSE FnBack

LEMMA FunctionAsTheStepsSay ==
  ASSUME TypedInv, LatestInv, Next, mode = "latest", pc # "idle", pc' # "idle"
  PROVE  /\ pc' \in ChosenSteps => fn'.status = "Successful" /\ fn'.image = run'.image
         /\ pc' \in ForwardSteps \ ({"settle"} \cup ChosenSteps) => ~run'.updating
         /\ pc' \in {"settle", "restored"} => run'.updating
<1>1. /\ FieldsKept
      /\ \/ UNCHANGED run /\ ~Writing
         \/ Writing /\ Written
  BY InProgress
<1>2. /\ pc \in ChosenSteps => fn.status = "Successful" /\ fn.image = run.image
      /\ pc \in ForwardSteps \ ({"settle"} \cup ChosenSteps) => ~run.updating
      /\ pc \in {"settle", "restored"} => run.updating
  BY DEF LatestInv
<1>3. CASE pc' = pc
  BY <1>2, <1>3, Waiting, FunctionMoves DEF ChosenSteps, VerifiedSteps, LiveSteps
<1>4. CASE pc' # pc
  <2>1. pc' \in ChosenSteps => fn'.status = "Successful" /\ fn'.image = run'.image
    <3>1. CASE pc \in ChosenSteps /\ pc' \in ChosenSteps
      <4>1. run'.image = run.image
        BY <1>1, <3>1, OneWriter DEF FieldsKept, ChosenSteps, VerifiedSteps, LiveSteps
      <4>2. UNCHANGED <<fn.image, fn.pending, fn.status>>
        BY <1>4, <3>1, FunctionMoves DEF ChosenSteps, VerifiedSteps, LiveSteps
      <4>3. QED
        BY <1>2, <3>1, <4>1, <4>2
    <3>2. CASE pc \notin ChosenSteps /\ pc' \in ChosenSteps
      <4>1. UpdateSettled /\ pc = "settle" /\ pc' = "check"
        <5>1. mode = "latest" => pc \notin {"publish", "published"}
          BY DEF TypedInv, ModeOK
        <5>2. QED
          BY <1>4, <3>2, <5>1, EnteredFrom, LeftFrom, OneWriter DEF ChosenSteps, VerifiedSteps, LiveSteps
      <4>2. fn.status = "Successful" /\ fn.image = run.image /\ UNCHANGED <<fn, run>>
        BY <4>1 DEF UpdateSettled, Failing, Step, cloud
      <4>3. QED
        BY <4>2
    <3>3. QED
      BY <3>1, <3>2
  <2>2. pc' \in ForwardSteps \ ({"settle"} \cup ChosenSteps) => ~run'.updating
    <3>1. pc' \in ForwardSteps \ ({"settle"} \cup ChosenSteps) =>
            pc \in ForwardSteps \ ({"settle"} \cup ChosenSteps) /\ ~UpdateFunction
      BY <1>4, EnteredFrom, LeftFrom, OneWriter, InProgress
         DEF ForwardSteps, BuiltSteps, PinnedSteps, ChosenSteps, VerifiedSteps, LiveSteps,
         UpdateFunction, Step, Failing
    <3>2. QED
      BY <1>1, <1>2, <3>1 DEF FieldsKept
  <2>3. pc' \in {"settle", "restored"} => run'.updating
    <3>1. pc' = "settle" => run'.updating
      BY <1>4, EnteredFrom, WritingWrites DEF Writing, Written
    <3>2. pc' = "restored" => run.updating /\ ~UpdateFunction
      BY <1>4, LeftFrom, OneWriter DEF RestoreImage, MustRestore
    <3>3. QED
      BY <1>1, <3>1, <3>2 DEF FieldsKept
  <2>4. QED
    BY <2>1, <2>2, <2>3
<1>5. QED
  BY <1>3, <1>4

LEMMA UpdateStaysKnown ==
  ASSUME TypedInv, LatestInv, Next, mode = "latest", pc # "idle", pc' # "idle", ~lost
  PROVE  UpdateOK'
<1>1. FieldsKept /\ UpdateOK /\ UNCHANGED run.before
  BY InProgress DEF LatestInv, UpdateOK, FieldsKept
<1>2. pc \in ForwardSteps \ ({"settle"} \cup ChosenSteps) => ~run.updating
  BY DEF LatestInv
<1>3. CASE UpdateFunction
  <2>1. run'.prevImage = fn.image /\ run'.updating
    BY <1>3, WritingWrites DEF Writing, Written
  <2>2. FnBack /\ run'.image = run.image
    BY <1>1, <1>2, <1>3, OneWriter
       DEF UpdateOK, FieldsKept, ForwardSteps, BuiltSteps, PinnedSteps, ChosenSteps, VerifiedSteps, LiveSteps
  <2>3. fn'.image = fn.image /\ fn'.pending \in {fn.pending, run.image}
    <3>1. pc = "update" /\ pc' \in {"settle", "restore"}
      BY <1>3 DEF UpdateFunction, Step, Failing
    <3>2. QED
      BY <3>1, FunctionMoves
  <2>4. QED
    BY <1>1, <2>1, <2>2, <2>3 DEF UpdateOK, FnBack
<1>4. CASE ~UpdateFunction
  <2>1. run'.prevImage = run.prevImage /\ run'.updating = run.updating
    BY <1>1, <1>4 DEF FieldsKept
  <2>2. run.updating => run'.image = run.image
    <3>1. ReuseImage \/ BuildImage => ~run.updating
      BY <1>2, OneWriter DEF ForwardSteps, BuiltSteps, PinnedSteps, ChosenSteps, VerifiedSteps, LiveSteps
    <3>2. QED
      BY <1>1, <3>1 DEF FieldsKept
  <2>3. CASE run.updating
    BY <1>1, <1>4, <2>1, <2>2, <2>3, FunctionMoves DEF UpdateOK
  <2>4. CASE ~run.updating
    BY <1>1, <1>4, <2>1, <2>4, FunctionMoves DEF UpdateOK, FnBack, MustRestore
  <2>5. QED
    BY <2>3, <2>4
<1>5. QED
  BY <1>3, <1>4

\* The recovery of a run that gave nothing up ends with the function as it was.
LEMMA RecoveryPutsBack ==
  ASSUME TypedInv, LatestInv, Next, mode = "latest", pc # "idle", ~lost,
         pc' \in {"aliasBack", "pinsBack", "recordFailed"}, ~run'.stuck
  PROVE  FnBack'
<1>1. /\ FieldsKept /\ UpdateOK
      /\ \/ UNCHANGED run /\ ~Writing
         \/ Writing /\ Written
  BY InProgress DEF LatestInv, UpdateOK
<1>2. run'.before = run.before
  BY <1>1 DEF FieldsKept
<1>3. CASE pc \in {"aliasBack", "pinsBack", "recordFailed"}
  <2>1. run'.stuck = run.stuck \/ run'.stuck
    BY <1>1, <1>3, OneWriter DEF FieldsKept, Written
  <2>2. FnBack
    <3>1. ~run.stuck
      BY <1>1, <1>3, <2>1, OneWriter DEF FieldsKept, Written
    <3>2. QED
      BY <1>3, <3>1 DEF LatestInv
  <2>3. QED
    BY <1>2, <1>3, <2>2, FunctionMoves DEF FnBack
<1>4. CASE NothingToRestore /\ pc = "restore"
  <2>1. UNCHANGED <<fn, run>> /\ (~MustRestore \/ (fn.status = "Successful" /\ fn.image = run.prevImage))
    BY <1>4 DEF NothingToRestore, cloud
  <2>2. FnBack
    <3>1. fn.status = "Successful" => fn.pending = None
      BY DEF TypedInv, CloudOK
    <3>2. QED
      BY <1>1, <2>1, <3>1 DEF UpdateOK, FnBack, MustRestore
  <2>3. QED
    BY <2>1, <2>2 DEF FnBack
<1>5. CASE ImageRestored
  <2>1. fn.status = "Successful" /\ fn.image = run.prevImage
    BY <1>5, WritingWrites DEF Writing, Written
  <2>2. run.updating /\ fn.pending = None
    BY <1>5, <2>1, OneWriter DEF LatestInv, TypedInv, CloudOK
  <2>3. FnBack /\ UNCHANGED fn
    BY <1>1, <1>5, <2>1, <2>2 DEF UpdateOK, FnBack, ImageRestored, cloud
  <2>4. QED
    BY <1>2, <2>3 DEF FnBack
<1>6. CASE RestoreFails
  BY <1>6, WritingWrites DEF Writing, Written
<1>7. QED
  BY <1>3, <1>4, <1>5, <1>6, LeftFrom, OneWriter

LEMMA LatestStays ==
  ASSUME TypedInv, LatestInv, Next
  PROVE  LatestInv'
<1> SUFFICES ASSUME mode = "latest"
             PROVE  LatestInv'
  BY InputsKept DEF LatestInv
<1>1. fn.status # "InProgress" => fn.pending = None
  BY DEF TypedInv, CloudOK
<1>2. CASE pc = "idle" /\ pc' = "idle"
  <2>1. ~lost' => fn'.pending \in {None, fn'.image}
    BY <1>2, StaysIdle, FunctionMoves DEF LatestInv, UpdateFunction, RestoreImage
  <2>2. QED
    BY <1>2, <2>1 DEF LatestInv, ForwardSteps, BuiltSteps, PinnedSteps, ChosenSteps, VerifiedSteps, LiveSteps
<1>3. CASE pc = "idle" /\ pc' # "idle"
  <2>1. Starting /\ pc' = "record" /\ UNCHANGED <<mode, lost>>
    BY <1>3, BetweenRuns
  <2>2. UNCHANGED fn
    BY <2>1 DEF Starting, StartBuild, StartRestore, cloud
  <2>3. run'.before = [image |-> fn.image, version |-> None] /\ ~run'.updating
    BY <2>1, StartsTyped DEF Starting, Serving
  <2>4. QED
    BY <1>3, <2>1, <2>2, <2>3 DEF LatestInv, FnBack, ForwardSteps, BuiltSteps, PinnedSteps, ChosenSteps, VerifiedSteps, LiveSteps
<1>4. CASE pc # "idle" /\ pc' = "idle"
  <2>1. Ending
    BY <1>4, BetweenRuns
  <2>2. UNCHANGED fn
    BY <2>1, CloudWrites DEF Ending, Activate, ActivateFails, RecordFailed, RecordFailedFails, Cancel, cloud
  <2>3. ~lost' => fn.pending \in {None, fn.image}
    <3>1. CASE Activate
      BY <1>1, <3>1 DEF Activate, LatestInv, ChosenSteps, VerifiedSteps, LiveSteps
    <3>2. CASE ActivateFails
      BY <3>2 DEF ActivateFails
    <3>3. CASE RecordFailed \/ RecordFailedFails
      BY <3>3 DEF RecordFailed, RecordFailedFails, LatestInv, FnBack
    <3>4. CASE Cancel
      BY <1>1, <3>4 DEF Cancel
    <3>5. QED
      BY <2>1, <3>1, <3>2, <3>3, <3>4 DEF Ending
  <2>4. QED
    BY <1>4, <2>2, <2>3 DEF LatestInv, ForwardSteps, BuiltSteps, PinnedSteps, ChosenSteps, VerifiedSteps, LiveSteps
<1>5. CASE pc # "idle" /\ pc' # "idle"
  <2>1. run'.before = [image |-> run'.before.image, version |-> None] /\ lost' = lost
    BY <1>5, InProgress DEF FieldsKept, LatestInv
  <2>2. ~lost' => UpdateOK'
    BY <1>5, <2>1, UpdateStaysKnown
  <2>3. ~lost' /\ pc' \in {"aliasBack", "pinsBack", "recordFailed"} /\ ~run'.stuck => FnBack'
    BY <1>5, <2>1, RecoveryPutsBack
  <2>4. QED
    BY <1>5, <2>1, <2>2, <2>3, FunctionAsTheStepsSay DEF LatestInv, UpdateOK
<1>6. QED
  BY <1>2, <1>3, <1>4, <1>5

\* What serves stays what it is between runs and at the last recovery step.
LEMMA ServingStays ==
  ASSUME TypedInv, Next, pc \in {"idle", "recordFailed"} \/ Ending,
         mode = "latest" => fn.pending \in {None, fn.image}
  PROVE  Serving' = Serving
<1>1. pc \in {"idle", "recordFailed", "activate"} \/ Cancel
  BY DEF Ending, Activate, ActivateFails, RecordFailed, RecordFailedFails
<1>2. UNCHANGED <<live, mode>>
  BY <1>1, CloudWrites, InputsKept DEF MoveAlias, MoveFails, AliasBack, AliasBackFails, Step, Failing,
     Recovering, Cancel, cloud
<1>3. live \in DOMAIN versions /\ versions'[live] = versions[live]
  BY Numbers, VersionsGrow
<1>4. mode = "latest" => fn'.image = fn.image
  <2>1. CASE Cancel
    BY <2>1 DEF Cancel, cloud
  <2>2. CASE ~Cancel
    BY <1>1, <2>2, FunctionMoves
  <2>3. QED
    BY <2>1, <2>2
<1>5. mode \in {"alias", "latest"}
  BY DeployAssumption DEF TypedInv, InputsOK
<1>6. QED
  BY <1>2, <1>3, <1>4, <1>5 DEF Serving

\* The function or the alias is back: that is what served before.
LEMMA BackIsBefore ==
  ASSUME TypedInv, AliasInv, LatestInv, pc = "recordFailed", ~run.stuck, ~lost
  PROVE  Serving = run.before
<1>1. CASE mode = "alias"
  BY <1>1 DEF AliasInv, Serving
<1>2. CASE mode = "latest"
  BY <1>2 DEF LatestInv, FnBack, Serving
<1>3. QED
  BY <1>1, <1>2, DeployAssumption DEF TypedInv, InputsOK

\* What is activated is what serves.
LEMMA ActivatedServes ==
  ASSUME TypedInv, AliasInv, LatestInv, pc = "activate"
  PROVE  Serving = [image |-> run.deployment.image, version |-> run.deployment.version]
<1>1. run.deployment # None
  BY DEF TypedInv, FoundOK, VerifiedSteps, LiveSteps
<1>2. run.deployment.image = run.image /\ run.deployment.version = run.candidate
  BY <1>1 DEF TypedInv, CandidateOK
<1>3. CASE mode = "alias"
  <2>1. live = run.candidate /\ run.candidate # None
    BY <1>3 DEF AliasInv, LiveSteps, TypedInv, ModeOK, ChosenSteps, VerifiedSteps
  <2>2. QED
    BY <1>2, <1>3, <2>1 DEF TypedInv, CandidateOK, Serving
<1>4. CASE mode = "latest"
  BY <1>2, <1>4 DEF LatestInv, ChosenSteps, VerifiedSteps, LiveSteps, TypedInv, ModeOK, Serving
<1>5. QED
  BY <1>3, <1>4, DeployAssumption DEF TypedInv, InputsOK

LEMMA LiveJsonStays ==
  ASSUME TypedInv, ServesInv, Next
  PROVE  LiveJsonInv'
<1> SUFFICES ASSUME ~lost', liveJson' # None
             PROVE  (IF pc' = "idle" THEN Serving' ELSE run'.before)
                      = [image |-> liveJson'.image, version |-> liveJson'.version]
  BY DEF LiveJsonInv
<1>1. AliasInv /\ LatestInv /\ LiveJsonInv
  BY DEF ServesInv
<1>2. CASE pc = "idle" /\ pc' = "idle"
  <2>1. UNCHANGED <<liveJson, lost>>
    BY <1>2, StaysIdle
  <2>2. Serving' = Serving
    BY <1>1, <1>2, <2>1, ServingStays DEF LatestInv
  <2>3. QED
    BY <1>1, <1>2, <2>1, <2>2 DEF LiveJsonInv
<1>3. CASE pc = "idle" /\ pc' # "idle"
  <2>1. Starting /\ UNCHANGED <<lost, liveJson>>
    BY <1>3, BetweenRuns
  <2>2. run'.before = Serving
    BY <2>1, StartsTyped DEF Starting
  <2>3. QED
    BY <1>1, <1>3, <2>1, <2>2 DEF LiveJsonInv
<1>4. CASE pc # "idle" /\ pc' # "idle"
  <2>1. FieldsKept /\ ~Ending /\ UNCHANGED lost
    BY <1>4, InProgress
  <2>2. UNCHANGED liveJson
    BY <2>1, RecordWrites DEF Ending
  <2>3. QED
    BY <1>1, <1>4, <2>1, <2>2 DEF LiveJsonInv, FieldsKept
<1>5. CASE pc # "idle" /\ pc' = "idle"
  <2>1. Ending
    BY <1>5, BetweenRuns
  <2>2. UNCHANGED fn
    BY <2>1 DEF Ending, Activate, ActivateFails, RecordFailed, RecordFailedFails, Cancel, cloud
  <2>3. UNCHANGED <<live, versions, mode>>
    BY <2>1 DEF Ending, Activate, ActivateFails, RecordFailed, RecordFailedFails, Cancel, cloud, RunEnds, inputs
  <2>4. Serving' = Serving
    BY <2>2, <2>3 DEF Serving
  <2>5. CASE Activate
    BY <1>1, <1>5, <2>4, <2>5, ActivatedServes DEF Activate
  <2>6. CASE ~Activate
    <3>1. UNCHANGED liveJson
      BY <2>6, RecordWrites
    <3>2. ~lost /\ Serving = run.before
      <4>1. CASE ActivateFails
        BY <4>1 DEF ActivateFails
      <4>2. CASE RecordFailed \/ RecordFailedFails
        BY <1>1, <4>2, BackIsBefore DEF RecordFailed, RecordFailedFails
      <4>3. CASE Cancel
        BY <4>3 DEF Cancel
      <4>4. QED
        BY <2>1, <2>6, <4>1, <4>2, <4>3 DEF Ending
    <3>3. QED
      BY <1>1, <1>5, <2>4, <3>1, <3>2 DEF LiveJsonInv
  <2>7. QED
    BY <2>5, <2>6
<1>6. QED
  BY <1>2, <1>3, <1>4, <1>5

LEMMA ServesInitially ==
  ASSUME Init
  PROVE  ServesInv
<1>1. PICK m \in Models, c \in Codes, k \in Configs :
        /\ fn = [image |-> 1, config |-> k, status |-> "Successful", pending |-> None]
        /\ versions = <<[image |-> 1, config |-> k]>>
        /\ StartingLedger(m, c, k)
  BY DEF Init
<1>2. pc = "idle" /\ live = 1 /\ mode \in {"alias", "latest"}
  BY DeployAssumption DEF Init
<1>3. Serving.image = 1 /\ Serving = [image |-> 1, version |-> IF mode = "alias" THEN 1 ELSE None]
  BY <1>1, <1>2 DEF Serving
<1>4. liveJson # None =>
        liveJson.image = 1 /\ liveJson.version = IF mode = "alias" THEN 1 ELSE None
  BY <1>1 DEF StartingLedger
<1>5. AliasInv /\ LatestInv
  BY <1>1, <1>2 DEF AliasInv, LatestInv, ForwardSteps, BuiltSteps, PinnedSteps, ChosenSteps,
     VerifiedSteps, LiveSteps
<1>6. LiveJsonInv
  BY <1>2, <1>3, <1>4 DEF LiveJsonInv
<1>7. QED
  BY <1>5, <1>6 DEF ServesInv

LEMMA ServesStays ==
  ASSUME TypedInv, ServesInv, [Next]_vars
  PROVE  ServesInv'
<1>1. CASE Next
  BY <1>1, AliasStays, LatestStays, LiveJsonStays DEF ServesInv
<1>2. CASE UNCHANGED vars
  <2>1. AliasInv'
    BY <1>2, NothingChanged DEF ServesInv, AliasInv
  <2>2. LatestInv'
    BY <1>2, NothingChanged DEF ServesInv, LatestInv, FnBack
  <2>3. LiveJsonInv'
    BY <1>2, NothingChanged DEF ServesInv, LiveJsonInv, Serving
  <2>4. QED
    BY <2>1, <2>2, <2>3 DEF ServesInv
<1>3. QED
  BY <1>1, <1>2

LEMMA AlwaysServes == Spec => []ServesInv
<1>1. Init => ServesInv
  BY ServesInitially
<1>2. TypedInv /\ ServesInv /\ [Next]_vars => ServesInv'
  BY ServesStays
<1>3. QED
  BY <1>1, <1>2, AlwaysTyped, PTL DEF Spec

\* "live.json keeps naming what still serves": between runs, unless a run was
\* lost half way, the deployment that live.json names is what callers reach, in
\* either mode and whatever failed or was cancelled before.
THEOREM LiveJsonNamesWhatServes == Spec => []DeployedIsLive
<1>1. ServesInv => DeployedIsLive
  BY DEF ServesInv, LiveJsonInv, DeployedIsLive
<1>2. QED
  BY <1>1, AlwaysServes, PTL

\* A failed run whose recovery steps did their work leaves production serving
\* what it served when the run began, wherever it failed: also when the alias
\* call failed with an unknown outcome, or an update ended after the deadline.
THEOREM FailedRunGoesBack == Spec => FailedDeployGoesBack
<1> DEFINE Back == pc = "recordFailed" /\ ~run.stuck /\ ~lost => Serving' = run.before
<1>1. TypedInv /\ ServesInv /\ [Next]_vars => [Back]_vars
  <2> SUFFICES ASSUME TypedInv, ServesInv, Next, pc = "recordFailed", ~run.stuck, ~lost
               PROVE  Serving' = run.before
    OBVIOUS
  <2>1. Serving = run.before
    BY BackIsBefore DEF ServesInv
  <2>2. Serving' = Serving
    BY ServingStays DEF ServesInv, LatestInv, FnBack
  <2>3. QED
    BY <2>1, <2>2
<1>2. QED
  BY <1>1, AlwaysTyped, AlwaysServes, PTL DEF Spec, FailedDeployGoesBack

-----------------------------------------------------------------------------
(* What a rollback restores *)

LEMMA PassedInitially ==
  ASSUME Init
  PROVE  PassedInv
<1> DEFINE empty == [e \in {} |-> None]
<1>1. PICK m \in Models, c \in Codes, k \in Configs : StartingLedger(m, c, k)
  BY DEF Init
<1> DEFINE d == [release |-> [model |-> m, code |-> c], image |-> 1,
                 version |-> IF mode = "alias" THEN 1 ELSE None, config |-> k]
<1>2. TypedInv /\ pc = "idle"
  BY InitTyped DEF Init
<1>3. CASE ledger = empty
  BY <1>2, <1>3 DEF PassedInv
<1>4. ASSUME NEW p \in Predictions, passed = {d},
             ledger = Event(Put(empty, d, p), d, "activated")
      PROVE  PassedInv
  <2>1. DOMAIN ledger \subseteq {d}
    BY <1>4 DEF Event, Put, Recorded
  <2>2. QED
    BY <1>2, <1>4, <2>1 DEF PassedInv
<1>5. QED
  BY <1>1, <1>3, <1>4 DEF StartingLedger

LEMMA PassedStays ==
  ASSUME TypedInv, PassedInv, Next
  PROVE  PassedInv'
<1>1. passed \subseteq passed'
  BY RecordWrites DEF CheckUrl
<1>2. pc' \in {"keep", "activate"} => run'.deployment \in passed'
  <2>1. CASE pc' = pc
    BY <1>1, <2>1, Waiting DEF PassedInv
  <2>2. CASE pc' # pc
    BY <1>1, <2>2, LeftFrom DEF PassedInv, CheckUrl, KeepPins, KeepPinsFails
  <2>3. QED
    BY <2>1, <2>2
<1>3. ASSUME NEW d \in DOMAIN ledger', NEW i \in DOMAIN ledger'[d].events,
             ledger'[d].events[i].event = "activated"
      PROVE  d \in passed'
  <2>1. CASE UNCHANGED ledger
    BY <1>1, <1>3, <2>1 DEF PassedInv
  <2>2. ASSUME NEW x, NEW event, event # "activated" \/ x \in passed,
               EventAdded(ledger, ledger', x, event)
        PROVE  d \in passed'
    BY <1>1, <1>3, <2>2 DEF PassedInv, EventAdded
  <2>3. CASE Activate \/ ActivateFails
    <3>1. run.deployment \in passed
      BY <2>3 DEF Activate, ActivateFails, PassedInv
    <3>2. QED
      BY <2>1, <2>2, <3>1, LedgerSteps
  <2>4. CASE ~(Activate \/ ActivateFails)
    BY <2>1, <2>2, <2>4, LedgerSteps
  <2>5. QED
    BY <2>3, <2>4
<1>4. QED
  BY <1>2, <1>3 DEF PassedInv

\* "A candidate from a failed deploy is never picked by default": in every
\* behaviour, the deployment that a rollback restores by default passed every
\* check on production.
THEOREM RollbackRestoresWhatPassed == Spec => []DefaultRestoreServed
<1>1. Init => PassedInv
  BY PassedInitially
<1>2. TypedInv /\ PassedInv /\ [Next]_vars => PassedInv'
  <2>1. ASSUME PassedInv, UNCHANGED vars PROVE PassedInv'
    BY <2>1, NothingChanged DEF PassedInv
  <2>2. QED
    BY <2>1, PassedStays
<1>3. TypedInv /\ PassedInv => DefaultRestoreServed
  <2> SUFFICES ASSUME TypedInv, PassedInv, NEW m \in Models, Find(ledger, m) # None
               PROVE  Find(ledger, m) \in passed
    BY DEF DefaultRestoreServed
  <2> DEFINE D == {d \in DOMAIN ledger : d.release.model = m}
  <2>1. LatestActivated(ledger, D) = Find(ledger, m)
    BY DEF Find, Recorded
  <2>2. LedgerTyped(ledger) /\ D \subseteq DOMAIN ledger
    BY DEF TypedInv, LedgerOK
  <2> HIDE DEF D
  <2>3. /\ Find(ledger, m) \in D
        /\ \E i \in DOMAIN ledger[Find(ledger, m)].events :
             ledger[Find(ledger, m)].events[i].event = "activated"
    BY <2>1, <2>2, LatestIsActivated
  <2>4. QED
    BY <2>2, <2>3 DEF PassedInv
<1>4. QED
  BY <1>1, <1>2, <1>3, AlwaysTyped, PTL DEF Spec

LEMMA VersionsInitially ==
  ASSUME Init
  PROVE  VersionsInv
<1>1. PICK m \in Models, c \in Codes, k \in Configs :
        StartingLedger(m, c, k) /\ versions = <<[image |-> 1, config |-> k]>>
  BY DEF Init
<1> DEFINE d == [release |-> [model |-> m, code |-> c], image |-> 1,
                 version |-> IF mode = "alias" THEN 1 ELSE None, config |-> k]
<1>2. DOMAIN ledger \subseteq {d}
  BY <1>1 DEF StartingLedger, Event, Put, Recorded
<1>3. QED
  BY <1>1, <1>2 DEF VersionsInv

LEMMA VersionsStay ==
  ASSUME TypedInv, VersionsInv, Next
  PROVE  VersionsInv'
<1>1. /\ DOMAIN versions \subseteq DOMAIN versions'
      /\ \A v \in DOMAIN versions : versions'[v] = versions[v]
  BY VersionsGrow
<1>2. ASSUME NEW d \in DOMAIN ledger', d \notin DOMAIN ledger, d.version # None
      PROVE  /\ d.version \in DOMAIN versions
             /\ versions[d.version] = [image |-> d.image, config |-> d.config]
  <2>1. d = Candidate /\ pc = "put"
    BY <1>2, LedgerSteps, OneWriter DEF EventAdded, RecordUnseen, Failing, Step
  <2>2. run.candidate # None /\ run.candidate \in DOMAIN versions
    BY <1>2, <2>1 DEF Candidate, TypedInv, RunOK
  <2>3. versions[run.candidate] \in Versions
    <3>1. versions \in Seq(Versions)
      BY DEF TypedInv, CloudOK, Versions
    <3>2. QED
      BY <2>2, <3>1, ElementOfSeq, LenProperties
  <2>4. versions[run.candidate].image = run.image
    BY <2>2 DEF TypedInv, CandidateOK
  <2>5. QED
    BY <2>1, <2>2, <2>3, <2>4 DEF Candidate, Versions
<1>3. ASSUME NEW d \in DOMAIN ledger', d.version # None
      PROVE  /\ d.version \in DOMAIN versions
             /\ versions[d.version] = [image |-> d.image, config |-> d.config]
  BY <1>2, <1>3 DEF VersionsInv
<1>4. QED
  BY <1>1, <1>3 DEF VersionsInv

LEMMA RestoredStays ==
  ASSUME ConfigIsKept, TypedInv, VersionsInv, RestoredInv, Next
  PROVE  RestoredInv'
<1> SUFFICES ASSUME run'.restored # None
             PROVE  /\ pc' = "published" => fn'.config = run'.restored.config
                    /\ run'.candidate # None =>
                         versions'[run'.candidate].config = run'.restored.config
  BY DEF RestoredInv
<1>1. CASE pc' = "idle"
  <2>1. run' = NoRun
    BY <1>1, FoundStays DEF FoundOK
  <2>2. QED
    BY <2>1 DEF NoRun
<1>2. CASE pc = "idle" /\ pc' # "idle"
  BY <1>2, BetweenRuns, StartsTyped DEF Starting
<1>3. CASE pc # "idle" /\ pc' # "idle"
  <2>1. /\ FieldsKept
        /\ \/ UNCHANGED run /\ ~Writing
           \/ Writing /\ Written
    BY <1>3, InProgress
  <2>2. /\ run'.restored = run.restored /\ run.restored # None
        /\ pc = "published" => fn.config = run.restored.config
        /\ run.candidate # None => versions[run.candidate].config = run.restored.config
    BY <2>1 DEF FieldsKept, RestoredInv
  <2>3. pc' = "published" => fn'.config = run.restored.config
    <3>1. CASE UpdateCandidate
      BY <2>2, <3>1 DEF UpdateCandidate, ConfigDiffers, Updated, TypedInv, CloudOK
    <3>2. CASE pc = "published" /\ pc' = pc
      <4>1. ~ChangeConfig
        BY <1>3 DEF ConfigIsKept, ChangeConfig
      <4>2. fn' = fn \/ UpdateEnds
        BY <3>2, <4>1, FunctionSteps
      <4>3. QED
        BY <2>2, <3>2, <4>2 DEF UpdateEnds, TypedInv, CloudOK
    <3>3. QED
      BY <3>1, <3>2, EnteredFrom
  <2>4. run'.candidate # None => versions'[run'.candidate].config = run.restored.config
    <3>1. CASE run'.candidate = run.candidate
      BY <2>2, <3>1, VersionsGrow DEF TypedInv, RunOK
    <3>2. CASE ReuseVersion
      <4>1. run'.candidate = run.restored.version /\ run.restored.version # None
        BY <2>1, <3>2 DEF Written, Writing, ReuseVersion, Reusable
      <4>2. run.restored \in DOMAIN ledger
        BY <2>2 DEF TypedInv, RunOK
      <4>3. /\ run.restored.version \in DOMAIN versions
            /\ versions[run.restored.version].config = run.restored.config
        <5>1. /\ run.restored.version \in DOMAIN versions
              /\ versions[run.restored.version] =
                   [image |-> run.restored.image, config |-> run.restored.config]
          BY <4>1, <4>2, Zenon DEF VersionsInv
        <5>2. QED
          BY <5>1
      <4>4. versions'[run.restored.version] = versions[run.restored.version]
        BY <4>3, VersionsGrow
      <4>5. QED
        BY <4>1, <4>3, <4>4
    <3>3. CASE PublishVersion /\ run'.candidate # run.candidate
      <4>1. pc = "published" /\ versions'[run'.candidate] = [image |-> run.image, config |-> fn.config]
        BY <2>1, <3>3, OneWriter DEF Written, Writing
      <4>2. QED
        BY <2>2, <4>1
    <3>4. QED
      BY <2>1, <3>1, <3>2, <3>3 DEF FieldsKept
  <2>5. QED
    BY <2>2, <2>3, <2>4
<1>4. QED
  BY <1>1, <1>2, <1>3

\* A restore that goes live is the recorded image under the recorded
\* configuration, also when its version had to be published again: if lambda.sh
\* is not run while a deploy is in progress (the workflow cannot see to that;
\* without it the property does not hold).
THEOREM RestoreIsAsRecorded == ASSUME ConfigIsKept PROVE Spec => RestoredAsRecorded
<1> DEFINE As ==
      pc = "move" /\ live' # live /\ run.restored # None =>
        versions[live'] = [image |-> run.restored.image, config |-> run.restored.config]
<1>1. Init => VersionsInv /\ RestoredInv
  <2>1. Init => run = NoRun
    BY DEF Init
  <2>2. QED
    BY <2>1, VersionsInitially DEF RestoredInv, NoRun
<1>2. TypedInv /\ VersionsInv /\ RestoredInv /\ [Next]_vars => VersionsInv' /\ RestoredInv'
  <2>1. ASSUME VersionsInv, RestoredInv, UNCHANGED vars PROVE VersionsInv' /\ RestoredInv'
    BY <2>1, NothingChanged DEF VersionsInv, RestoredInv
  <2>2. QED
    BY <2>1, VersionsStay, RestoredStays
<1>3. TypedInv /\ RestoredInv /\ [Next]_vars => [As]_vars
  <2> SUFFICES ASSUME TypedInv, RestoredInv, Next, pc = "move", live' # live,
                      run.restored # None
               PROVE  versions[live'] = [image |-> run.restored.image,
                                         config |-> run.restored.config]
    OBVIOUS
  <2>1. /\ live' = run.candidate
        /\ versions[live'] = [image |-> run.deployment.image, config |-> run.deployment.config]
    BY GoesLiveRecorded
  <2>2. run.candidate # None /\ run.deployment # None
    BY ModeInMove DEF TypedInv, FoundOK, VerifiedSteps
  <2>3. run.deployment.image = run.restored.image
    BY <2>2 DEF TypedInv, CandidateOK, FoundOK
  <2>4. run.deployment.config = run.restored.config
    BY <2>2 DEF TypedInv, CandidateOK, RestoredInv
  <2>5. QED
    BY <2>1, <2>3, <2>4
<1>4. QED
  BY <1>1, <1>2, <1>3, AlwaysTyped, PTL DEF Spec, RestoredAsRecorded

-----------------------------------------------------------------------------
(* The images that are kept *)

LEMMA ImagesAreFinite ==
  ASSUME TypedInv
  PROVE  IsFiniteSet(pins) /\ Cardinality(pins) \in Nat /\ pins \subseteq Nat
<1>1. Len(images) \in Nat /\ DOMAIN images = 1..Len(images) /\ pins \subseteq DOMAIN images
  BY LenProperties DEF TypedInv, CloudOK
<1>2. IsFiniteSet(1..Len(images))
  BY <1>1, FS_Interval
<1>3. IsFiniteSet(pins)
  BY <1>1, <1>2, FS_Subset
<1>4. QED
  BY <1>1, <1>3, FS_CardinalityType

\* The lifecycle policy keeps what is pinned while there are not too many pins.
LEMMA PinnedIsKept ==
  ASSUME TypedInv, PinsFit
  PROVE  Expired(present, pins) \cap pins = {}
<1>1. /\ IsFiniteSet(pins) /\ Cardinality(pins) \in Nat /\ pins \subseteq Nat
      /\ Cardinality(pins) <= MaxPins /\ MaxPins \in Nat
      /\ present \cap pins = pins
  BY ImagesAreFinite, RetentionAssumption DEF PinsFit, TypedInv, CloudOK
<1>2. ASSUME NEW i \in pins
      PROVE  Cardinality({j \in pins : j > i}) < MaxPins
  <2> DEFINE newer == {j \in pins : j > i}
  <2>1. newer \subseteq pins \ {i}
    BY <1>1
  <2>2. IsFiniteSet(pins \ {i}) /\ Cardinality(pins \ {i}) = Cardinality(pins) - 1
    BY <1>1, FS_RemoveElement
  <2>3. /\ Cardinality(newer) <= Cardinality(pins \ {i})
        /\ Cardinality(newer) \in Nat
    BY <2>1, <2>2, FS_Subset, FS_CardinalityType
  <2>4. QED
    BY <1>1, <2>2, <2>3
<1>3. pins \subseteq Newest(pins, MaxPins)
  BY <1>2 DEF Newest
<1>4. QED
  BY <1>1, <1>3 DEF Expired

\* Only keeping and putting back take pins away.
LEMMA PinsGrow ==
  ASSUME TypedInv, PinsFit, Next, ~(KeepPins \/ KeepPinsFails \/ PinsBack \/ PinsBackFails)
  PROVE  pins \subseteq pins'
<1>1. CASE Expire
  <2>1. pins' = pins \cap (present \ Expired(present, pins))
    BY <1>1 DEF Expire
  <2>2. pins \subseteq present
    BY Numbers
  <2>3. QED
    BY <2>1, <2>2, PinnedIsKept
<1>2. CASE PinImages \/ PinRefused \/ PinStops
  BY <1>2 DEF PinImages, PinRefused, PinStops
<1>3. QED
  BY <1>1, <1>2, CloudWrites

\* What the pins are after a deploy, and after a failed one.
LEMMA PinsKept ==
  ASSUME TypedInv, PinsInv, KeepPins \/ KeepPinsFails
  PROVE  /\ {run.image, run.liveImage} \subseteq pins'
         /\ target' \in pins' \cup {None}
<1>1. pc = "keep" /\ run.image # None /\ run.liveImage # None
  BY DEF KeepPins, KeepPinsFails, TypedInv, FoundOK, BuiltSteps, PinnedSteps, ChosenSteps,
     VerifiedSteps, LiveSteps
<1>2. /\ {run.image, run.liveImage} \subseteq pins
      /\ run.oldPins \subseteq pins /\ target \in run.oldPins \cup {None}
  BY <1>1 DEF PinsInv, PinnedSteps, ChosenSteps, VerifiedSteps, LiveSteps
<1>3. Keep \subseteq pins' \/ UNCHANGED pins
  BY DEF KeepPins, KeepPinsFails
<1>4. target' = IF run.image # run.liveImage THEN run.liveImage ELSE target
  BY DEF KeepPins, KeepPinsFails
<1>5. QED
  BY <1>2, <1>3, <1>4 DEF Keep, ReleasePins

LEMMA PinsPutBack ==
  ASSUME TypedInv, PinsInv, PinsBack \/ PinsBackFails
  PROVE  /\ UNCHANGED <<run, target, lost>>
         /\ target \in pins' \cup {None}
         /\ run.liveImage # None => run.oldPins \subseteq pins'
         /\ run.liveImage = None => UNCHANGED pins
<1>1. pc = "pinsBack" /\ UNCHANGED <<run, target, lost>>
  BY DEF PinsBack, PinsBackFails, Recovering, history
<1>2. /\ target \in pins \cup {None}
      /\ run.liveImage # None => run.oldPins \subseteq pins /\ target \in run.oldPins \cup {None}
  BY <1>1 DEF PinsInv
<1>3. CASE run.liveImage = None
  BY <1>1, <1>2, <1>3 DEF PinsBack, PinsBackFails
<1>4. CASE run.liveImage # None
  <2>1. OldPins \subseteq pins' \/ pins \subseteq pins'
    BY <1>4 DEF PinsBack, PinsBackFails
  <2>2. QED
    BY <1>1, <1>2, <1>4, <2>1 DEF OldPins
<1>5. QED
  BY <1>3, <1>4

\* The image that served before is still the one that serves when it is read.
LEMMA ServesBeforeIsRead ==
  ASSUME TypedInv, ServesInv, pc = "record", ~lost
  PROVE  Serving.image = run.before.image
<1>1. CASE mode = "alias"
  BY <1>1 DEF ServesInv, AliasInv, Serving, ForwardSteps, BuiltSteps, PinnedSteps, ChosenSteps,
     VerifiedSteps, LiveSteps
<1>2. CASE mode = "latest"
  BY <1>2 DEF ServesInv, LatestInv, FnBack, Serving, ForwardSteps, BuiltSteps, PinnedSteps,
     ChosenSteps, VerifiedSteps, LiveSteps
<1>3. QED
  BY <1>1, <1>2, DeployAssumption DEF TypedInv, InputsOK

\* Nothing is under way before the image of the run is pinned.
LEMMA NothingUnderWay ==
  ASSUME TypedInv, ServesInv, pc \in ForwardSteps \ ({"settle"} \cup ChosenSteps)
  PROVE  ~run.updating /\ ~run.aliasMoved
<1>1. pc # "idle"
  BY DEF ForwardSteps, BuiltSteps, PinnedSteps, ChosenSteps, VerifiedSteps, LiveSteps
<1>2. CASE mode = "alias"
  BY <1>1, <1>2 DEF ServesInv, AliasInv, TypedInv, ModeOK, ChosenSteps, VerifiedSteps
<1>3. CASE mode = "latest"
  BY <1>3 DEF ServesInv, LatestInv, TypedInv, ModeOK
<1>4. QED
  BY <1>2, <1>3, DeployAssumption DEF TypedInv, InputsOK

LEMMA PinsStayInRun ==
  ASSUME TypedInv, ServesInv, PinsInv, Next, pc # "idle", pc' # "idle", pins \subseteq pins',
         UNCHANGED target, ~(PinsBack \/ PinsBackFails), ~(KeepPins \/ KeepPinsFails)
  PROVE  PinsInv'
<1>1. /\ FieldsKept /\ UNCHANGED lost /\ None \notin Nat
      /\ \/ UNCHANGED run /\ ~Writing
         \/ Writing /\ Written
  BY InProgress, Numbers
<1>2. run'.liveImage # None /\ pc' # "activate" =>
        run'.oldPins \subseteq pins' /\ target' \in run'.oldPins \cup {None}
  <2>1. CASE RecordServing
    <3>1. run'.oldPins = pins
      BY <2>1, WritingWrites DEF Writing, Written
    <3>2. QED
      BY <3>1 DEF PinsInv
  <2>2. CASE ~RecordServing
    <3>1. run'.liveImage = run.liveImage /\ run'.oldPins = run.oldPins
      BY <1>1, <2>2 DEF FieldsKept
    <3>2. pc = "activate" => pc' = "activate"
      BY EnteredFrom, LeftFrom, OneWriter, InProgress DEF TypedInv, RunOK, Steps, ForwardSteps, BuiltSteps,
         PinnedSteps, ChosenSteps, VerifiedSteps, LiveSteps, RecoverySteps
    <3>3. QED
      BY <3>1, <3>2 DEF PinsInv
  <2>3. QED
    BY <2>1, <2>2
<1>3. pc' \in PinnedSteps => {run'.image, run'.liveImage} \subseteq pins'
  <2>1. CASE pc \in PinnedSteps
    <3>1. run'.image = run.image /\ run'.liveImage = run.liveImage
      BY <1>1, <2>1, OneWriter DEF FieldsKept, PinnedSteps, ChosenSteps, VerifiedSteps, LiveSteps
    <3>2. QED
      BY <2>1, <3>1 DEF PinsInv
  <2>2. CASE pc \notin PinnedSteps /\ pc' \in PinnedSteps
    <3>1. PinImages
      BY <2>2, EnteredFrom, LeftFrom, OneWriter DEF PinnedSteps, ChosenSteps, VerifiedSteps, LiveSteps
    <3>2. QED
      BY <3>1 DEF PinImages
  <2>3. QED
    BY <2>1, <2>2
<1>4. (run'.updating \/ run'.aliasMoved) /\ pc' # "recordFailed" => run'.image \in pins'
  <2>1. pc' # "recordFailed" => pc # "recordFailed"
    BY EnteredFrom, LeftFrom, OneWriter, InProgress DEF TypedInv, RunOK, Steps, ForwardSteps, BuiltSteps,
       PinnedSteps, ChosenSteps, VerifiedSteps, LiveSteps, RecoverySteps
  <2>2. CASE UpdateFunction \/ MoveAlias \/ MoveFails
    <3>1. run'.image = run.image /\ run.image \in pins
      BY <1>1, <2>2, OneWriter DEF FieldsKept, PinsInv, PinnedSteps, ChosenSteps, VerifiedSteps
    <3>2. QED
      BY <3>1
  <2>3. CASE ReuseImage \/ BuildImage
    <3>1. ~run'.updating /\ ~run'.aliasMoved
      BY <1>1, <2>3, OneWriter, NothingUnderWay DEF FieldsKept, ForwardSteps, BuiltSteps, PinnedSteps, ChosenSteps,
         VerifiedSteps, LiveSteps
    <3>2. QED
      BY <3>1
  <2>4. CASE ~(UpdateFunction \/ MoveAlias \/ MoveFails) /\ ~(ReuseImage \/ BuildImage)
    BY <1>1, <2>1, <2>4 DEF FieldsKept, PinsInv
  <2>5. QED
    BY <2>2, <2>3, <2>4
<1>5. ~lost' => /\ run'.before.image \in pins'
                /\ run'.liveImage # None => /\ run'.liveImage = run'.before.image
                                            /\ run'.liveImage \in run'.oldPins
  <2>1. run'.before = run.before /\ (~lost' => run.before.image \in pins)
    BY <1>1 DEF FieldsKept, PinsInv
  <2>2. CASE RecordServing
    BY <1>1, <2>1, <2>2, OneWriter, ServesBeforeIsRead, WritingWrites DEF Writing, Written
  <2>3. CASE ~RecordServing
    BY <1>1, <2>1, <2>3 DEF FieldsKept, PinsInv
  <2>4. QED
    BY <2>2, <2>3
<1>6. target' \in pins' \cup {None}
  BY DEF PinsInv
<1>7. QED
  BY <1>2, <1>3, <1>4, <1>5, <1>6 DEF PinsInv

\* How a run leaves what serves pinned.
LEMMA PinsAtTheEnd ==
  ASSUME TypedInv, ServesInv, PinsInv, Ending, ~lost'
  PROVE  Serving.image \in pins
<1>1. CASE Activate
  <2>1. Serving.image = run.image
    <3>1. Serving.image = run.deployment.image /\ run.deployment # None
      BY <1>1, ActivatedServes DEF ServesInv, Activate, TypedInv, FoundOK, VerifiedSteps, LiveSteps
    <3>2. QED
      BY <3>1 DEF TypedInv, CandidateOK
  <2>2. QED
    BY <1>1, <2>1 DEF Activate, PinsInv, PinnedSteps, ChosenSteps, VerifiedSteps, LiveSteps
<1>2. CASE ActivateFails
  BY <1>2 DEF ActivateFails
<1>3. CASE RecordFailed \/ RecordFailedFails
  BY <1>3, BackIsBefore DEF RecordFailed, RecordFailedFails, ServesInv, PinsInv
<1>4. CASE Cancel
  BY <1>4 DEF Cancel, PinsInv
<1>5. QED
  BY <1>1, <1>2, <1>3, <1>4 DEF Ending

LEMMA PinsStay ==
  ASSUME TypedInv, ServesInv, PinsFit, PinsInv, Next
  PROVE  PinsInv'
<1>1. CASE KeepPins \/ KeepPinsFails
  <2>1. /\ {run.image, run.liveImage} \subseteq pins' /\ target' \in pins' \cup {None}
        /\ pc = "keep" /\ pc' = "activate" /\ UNCHANGED <<run, lost>>
    BY <1>1, PinsKept DEF KeepPins, KeepPinsFails
  <2>2. run.liveImage # None
    BY <2>1 DEF TypedInv, FoundOK, BuiltSteps, PinnedSteps, ChosenSteps, VerifiedSteps, LiveSteps
  <2>3. QED
    BY <2>1, <2>2 DEF PinsInv
<1>2. CASE PinsBack \/ PinsBackFails
  <2>1. pc = "pinsBack" /\ pc' = "recordFailed"
    BY <1>2 DEF PinsBack, PinsBackFails, Recovering
  <2>2. QED
    BY <1>2, <2>1, PinsPutBack DEF PinsInv, PinnedSteps, ChosenSteps, VerifiedSteps, LiveSteps
<1>3. CASE ~(KeepPins \/ KeepPinsFails) /\ ~(PinsBack \/ PinsBackFails)
  <2>1. pins \subseteq pins' /\ UNCHANGED target
    BY <1>3, PinsGrow, RecordWrites
  <2>2. CASE pc # "idle" /\ pc' # "idle"
    BY <1>3, <2>1, <2>2, PinsStayInRun
  <2>3. CASE pc' = "idle"
    <3>1. run' = NoRun
      BY <2>3, FoundStays DEF FoundOK
    <3>2. ~lost' => Serving.image \in pins /\ Serving' = Serving
      <4>1. CASE pc = "idle"
        <5>1. UNCHANGED lost
          BY <2>3, <4>1, StaysIdle
        <5>2. ~lost => Serving' = Serving
          BY <4>1, ServingStays DEF ServesInv, LatestInv
        <5>3. QED
          BY <4>1, <5>1, <5>2 DEF PinsInv
      <4>2. CASE pc # "idle"
        <5>1. Ending
          BY <2>3, <4>2, BetweenRuns
        <5>2. UNCHANGED <<fn, live, versions, mode>>
          BY <5>1 DEF Ending, Activate, ActivateFails, RecordFailed, RecordFailedFails, Cancel, cloud,
             RunEnds, inputs
        <5>3. QED
          BY <5>1, <5>2, PinsAtTheEnd DEF Serving
      <4>3. QED
        BY <4>1, <4>2
    <3>3. QED
      BY <2>1, <2>3, <3>1, <3>2
         DEF PinsInv, NoRun, PinnedSteps, ChosenSteps, VerifiedSteps, LiveSteps
  <2>4. CASE pc = "idle" /\ pc' # "idle"
    <3>1. Starting /\ pc' = "record" /\ UNCHANGED lost
      BY <2>4, BetweenRuns
    <3>2. run'.before = Serving /\ run'.liveImage = None /\ ~run'.updating /\ ~run'.aliasMoved
      BY <3>1, StartsTyped DEF Starting
    <3>3. QED
      BY <2>1, <2>4, <3>1, <3>2
         DEF PinsInv, NoRun, PinnedSteps, ChosenSteps, VerifiedSteps, LiveSteps
  <2>5. QED
    BY <2>2, <2>3, <2>4
<1>4. QED
  BY <1>1, <1>2, <1>3

\* What serves, what a run may go back to and what it took over from is pinned.
LEMMA ServedIsPinned ==
  ASSUME TypedInv, ServesInv, PinsInv
  PROVE  ServingImageKept
<1> SUFFICES ASSUME ~lost, ~run.stuck
             PROVE  {Serving.image, run.prevImage, target} \ {None} \subseteq pins
  BY Numbers DEF ServingImageKept
<1>1. target \in pins \cup {None}
  BY DEF PinsInv
<1>2. CASE pc = "idle"
  <2>1. run.prevImage = None
    BY <1>2 DEF TypedInv, FoundOK, NoRun
  <2>2. QED
    BY <1>1, <1>2, <2>1 DEF PinsInv
<1>3. CASE pc # "idle"
  <2>1. run.before.image \in pins
    BY <1>3 DEF PinsInv
  <2>2. CASE mode = "alias"
    <3>1. run.prevImage = None
      BY <2>2 DEF TypedInv, ModeOK, FoundOK
    <3>2. Serving.image \in {run.before.image, run.image}
      <4>1. CASE live = run.before.version
        BY <1>3, <2>2, <4>1 DEF ServesInv, AliasInv, Serving
      <4>2. CASE live # run.before.version
        <5>1. live = run.candidate /\ live \in DOMAIN versions
          BY <1>3, <2>2, <4>2, Numbers DEF ServesInv, AliasInv
        <5>2. live # None
          BY <5>1, Numbers
        <5>3. QED
          BY <2>2, <5>1, <5>2 DEF TypedInv, CandidateOK, Serving
      <4>3. QED
        BY <4>1, <4>2
    <3>3. Serving.image \in pins
      <4>1. CASE live = run.before.version
        BY <1>3, <2>1, <2>2, <4>1 DEF ServesInv, AliasInv, Serving
      <4>2. CASE live # run.before.version
        <5>1. run.aliasMoved /\ pc # "recordFailed"
          BY <1>3, <2>2, <4>2 DEF ServesInv, AliasInv
        <5>2. run.image \in pins
          BY <5>1 DEF PinsInv
        <5>3. QED
          BY <2>1, <3>2, <5>2
      <4>3. QED
        BY <4>1, <4>2
    <3>4. QED
      BY <1>1, <3>1, <3>3
  <2>3. CASE mode = "latest"
    <3>1. Serving.image = fn.image
      BY <2>3 DEF Serving
    <3>2. CASE run.updating
      <4>1. run.prevImage = run.before.image /\ fn.image \in {run.before.image, run.image}
        BY <1>3, <2>3, <3>2 DEF ServesInv, LatestInv
      <4>2. CASE pc = "recordFailed"
        BY <1>1, <2>1, <2>3, <3>1, <4>1, <4>2 DEF ServesInv, LatestInv, FnBack
      <4>3. CASE pc # "recordFailed"
        BY <1>1, <2>1, <3>1, <3>2, <4>1, <4>3 DEF PinsInv
      <4>4. QED
        BY <4>2, <4>3
    <3>3. CASE ~run.updating
      <4>1. run.prevImage = None
        BY <3>3 DEF TypedInv, FoundOK
      <4>2. fn.image = run.before.image
        BY <1>3, <2>3, <3>3 DEF ServesInv, LatestInv, FnBack
      <4>3. QED
        BY <1>1, <2>1, <3>1, <4>1, <4>2
    <3>4. QED
      BY <3>2, <3>3
  <2>4. QED
    BY <2>2, <2>3, DeployAssumption DEF TypedInv, InputsOK
<1>4. QED
  BY <1>2, <1>3

LEMMA PinsInitially ==
  ASSUME Init
  PROVE  PinsInv
<1>1. PICK k \in Configs :
        /\ fn = [image |-> 1, config |-> k, status |-> "Successful", pending |-> None]
        /\ versions = <<[image |-> 1, config |-> k]>>
  BY DEF Init
<1>2. live = 1 /\ pins = {1} /\ target = None /\ pc = "idle" /\ run = NoRun
  BY DEF Init
<1>3. Serving.image = 1
  BY <1>1, <1>2 DEF Serving
<1>4. QED
  BY <1>2, <1>3 DEF PinsInv, NoRun, PinnedSteps, ChosenSteps, VerifiedSteps, LiveSteps

\* The image that serves, the one a run may have to go back to and the one the
\* live image took over from stay in the repository, whatever AWS expires and
\* wherever runs fail or are cancelled: as long as there are never more pinned
\* images than the lifecycle policy's first rule keeps.
THEOREM ServedImagesStay == Spec /\ []PinsFit => []ServingImageKept
<1>1. Init => PinsInv
  BY PinsInitially
<1>2. TypedInv /\ ServesInv /\ PinsFit /\ PinsInv /\ [Next]_vars => PinsInv'
  <2>1. ASSUME PinsInv, UNCHANGED vars PROVE PinsInv'
    BY <2>1, NothingChanged DEF PinsInv, Serving
  <2>2. QED
    BY <2>1, PinsStay
<1>3. TypedInv /\ ServesInv /\ PinsInv => ServingImageKept
  BY ServedIsPinned
<1>4. QED
  BY <1>1, <1>2, <1>3, AlwaysTyped, AlwaysServes, PTL DEF Spec

-----------------------------------------------------------------------------
(* How many images are pinned *)

LEMMA OneMore ==
  ASSUME NEW S, IsFiniteSet(S), NEW a
  PROVE  /\ IsFiniteSet(S \cup {a})
         /\ Cardinality(S) \in Nat /\ Cardinality(S \cup {a}) \in Nat
         /\ Cardinality(S \cup {a}) <= Cardinality(S) + 1
<1> DEFINE U == S \cup {a}
<1>1. /\ IsFiniteSet(U)
      /\ Cardinality(U) = IF a \in S THEN Cardinality(S) ELSE Cardinality(S) + 1
  BY FS_AddElement
<1> HIDE DEF U
<1>2. Cardinality(S) \in Nat
  BY FS_CardinalityType
<1>3. Cardinality(U) \in Nat
  BY <1>1, FS_CardinalityType
<1>4. Cardinality(U) <= Cardinality(S) + 1
  BY <1>1, <1>2
<1>5. QED
  BY <1>1, <1>2, <1>3, <1>4 DEF U

LEMMA TwoMore ==
  ASSUME NEW S, IsFiniteSet(S), NEW a, NEW b, NEW T, T \subseteq S \cup {a, b}
  PROVE  /\ IsFiniteSet(T) /\ Cardinality(T) \in Nat /\ Cardinality(S) \in Nat
         /\ Cardinality(T) <= Cardinality(S) + 2
<1> DEFINE U == S \cup {a}
           V == U \cup {b}
<1>1. /\ IsFiniteSet(U) /\ Cardinality(S) \in Nat /\ Cardinality(U) \in Nat
      /\ Cardinality(U) <= Cardinality(S) + 1
  BY OneMore
<1>2. /\ IsFiniteSet(V) /\ Cardinality(V) \in Nat /\ Cardinality(V) <= Cardinality(U) + 1
  BY <1>1, OneMore
<1>3. T \subseteq V
  OBVIOUS
<1> HIDE DEF U, V
<1>4. IsFiniteSet(T) /\ Cardinality(T) <= Cardinality(V)
  BY <1>2, <1>3, FS_Subset
<1>5. Cardinality(T) \in Nat
  BY <1>4, FS_CardinalityType
<1>6. QED
  BY <1>1, <1>2, <1>4, <1>5

LEMMA FewerPins ==
  ASSUME NEW S, IsFiniteSet(S), NEW T, T \subseteq S
  PROVE  IsFiniteSet(T) /\ Cardinality(T) \in Nat /\ Cardinality(T) <= Cardinality(S)
BY FS_Subset, FS_CardinalityType

\* What goes wrong of itself is counted.
LEMMA FaultsCount ==
  ASSUME Next, faults \in 0..MaxFaults
  PROVE  /\ faults' \in 0..MaxFaults /\ faults' \in {faults, faults + 1}
         /\ (\/ PinStops \/ Deadline \/ RecordUnseen \/ MoveFails \/ StepFails
             \/ KeepPinsFails \/ ActivateFails \/ RestoreFails \/ AliasBackFails
             \/ PinsBackFails \/ RecordFailedFails \/ Cancel) => faults' = faults + 1
         /\ UpdateEnds /\ faults' = faults => fn' = [fn EXCEPT !.status = "Successful",
                                                     !.image = fn.pending, !.pending = None]
<1>1. MaxFaults \in Nat
  BY DeployAssumption
<1>2. /\ \/ faults' = faults
         \/ faults < MaxFaults /\ faults' = faults + 1
      /\ (\/ PinStops \/ Deadline \/ RecordUnseen \/ MoveFails \/ StepFails
          \/ KeepPinsFails \/ ActivateFails \/ RestoreFails \/ AliasBackFails
          \/ PinsBackFails \/ RecordFailedFails \/ Cancel) => faults' = faults + 1
  BY DEF Next, Fault,
     Select, ChangeCode, ChangeConfig, DeleteVersion, Expire, UpdateEnds,
     StartBuild, StartRestore, StartRefused, RecordServing, ReuseImage, BuildImage,
     PinImages, PinRefused, PinStops, ReadMode, UpdateRefused, UpdateFunction,
     UpdateSettled, ReuseVersion, PublishRefused, UpdateCandidate, PublishVersion,
     PublishFailed, Deadline, DeployCheck, RecordVerified, RecordRefused, RecordUnseen,
     MoveAlias, MoveFails, CheckUrl, StepFails, KeepPins, KeepPinsFails, Activate,
     ActivateFails, NothingToRestore, RestoreImage, ImageRestored, RestoreFails,
     AliasBack, AliasBackFails, PinsBack, PinsBackFails, RecordFailed,
     RecordFailedFails, Cancel
<1>3. UpdateEnds /\ faults' = faults => fn' = [fn EXCEPT !.status = "Successful",
                                               !.image = fn.pending, !.pending = None]
  BY <1>1 DEF UpdateEnds
<1>4. QED
  BY <1>1, <1>2, <1>3

\* In latest mode: the images that the function runs or is about to run.
LEMMA FnImagesMove ==
  ASSUME TypedInv, Next, mode = "latest"
  PROVE  \/ FnImages' \subseteq FnImages
         \/ /\ UpdateFunction /\ pc = "update" /\ pc' = "settle"
            /\ FnImages' \subseteq FnImages \cup {run.image}
         \/ /\ RestoreImage /\ pc = "restore" /\ pc' = "restored" /\ MustRestore
            /\ FnImages' \subseteq FnImages \cup {run.prevImage}
<1>1. fn.image # None
  BY Numbers
<1>2. QED
  BY <1>1, FunctionMoves DEF FnImages

\* AWS takes no pin away while the pins fit.
LEMMA ExpireKeepsPins ==
  ASSUME TypedInv, PinsFit, Expire
  PROVE  UNCHANGED <<pins, pc, run>>
<1>1. pins' = pins \cap (present \ Expired(present, pins)) /\ UNCHANGED <<pc, run>>
  BY DEF Expire
<1>2. pins \subseteq present
  BY Numbers
<1>3. QED
  BY <1>1, <1>2, PinnedIsKept

\* A failed run can put its pins back, unless it took none.
LEMMA CanPutBack ==
  ASSUME TypedInv, PinsInv, PinsFit, pc = "pinsBack", run.liveImage \in pins
  PROVE  CanPin(OldPins, present)
<1>1. OldPins \subseteq pins
  <2>1. run.liveImage # None
    BY Numbers
  <2>2. QED
    BY <2>1 DEF PinsInv, OldPins
<1>2. IsFiniteSet(pins) /\ pins \subseteq present
  BY ImagesAreFinite, Numbers
<1>3. /\ Cardinality(OldPins) \in Nat /\ Cardinality(OldPins) <= Cardinality(pins)
      /\ Cardinality(pins) \in Nat
  BY <1>1, <1>2, FewerPins, ImagesAreFinite
<1>4. QED
  BY <1>1, <1>2, <1>3, RetentionAssumption DEF CanPin, PinsFit

LEMMA PinSteps ==
  ASSUME TypedInv, PinsInv, PinsFit, Next, pc # "idle", pc' # "idle",
         NEW S \in SUBSET Nat, Within(S)
  PROVE  \/ /\ UNCHANGED pins
            /\ ~(KeepPins \/ KeepPinsFails) /\ ~(PinsBack \/ PinsBackFails)
         \/ /\ PinImages \/ PinRefused \/ PinStops
            /\ pc = "pin" /\ pc' \notin {"record", "build", "pin"} /\ UNCHANGED run
            /\ pins' \subseteq S \cup {run.image}
            /\ pins' \subseteq S \/ run.liveImage \in pins'
         \/ /\ KeepPins \/ KeepPinsFails
            /\ pc = "keep" /\ pc' = "activate" /\ UNCHANGED run
            /\ pins' \subseteq S \cup {run.image}
            /\ ~KeepPinsFails => pins' = Keep
         \/ /\ PinsBack \/ PinsBackFails
            /\ pc = "pinsBack" /\ pc' = "recordFailed" /\ UNCHANGED run
            /\ pins' \subseteq S \cup {run.image}
            /\ pins' \subseteq S \/ run.liveImage \in pins'
            /\ ~PinsBackFails => pins' \subseteq S
<1>1. CASE Expire /\ ~(KeepPins \/ KeepPinsFails) /\ ~(PinsBack \/ PinsBackFails)
  BY <1>1, ExpireKeepsPins
<1>2. CASE PinImages \/ PinRefused \/ PinStops
  <2>1. /\ pc = "pin" /\ pc' \in {"mode", "restore"} /\ UNCHANGED run
        /\ pins' \subseteq pins \cup {run.liveImage, run.image}
        /\ run.liveImage \in pins' \/ pins' \subseteq pins
    BY <1>2 DEF PinImages, PinRefused, PinStops, Step, Failing
  <2>2. pins \subseteq S /\ run.liveImage \in S
    <3>1. run.liveImage # None
      BY <2>1 DEF TypedInv, FoundOK, BuiltSteps
    <3>2. QED
      BY <2>1, <3>1 DEF Within, ForwardSteps, BuiltSteps, PinnedSteps, ChosenSteps, VerifiedSteps, LiveSteps
  <2>3. QED
    BY <1>2, <2>1, <2>2
<1>3. CASE KeepPins \/ KeepPinsFails
  <2>1. pc = "keep" /\ pc' = "activate" /\ UNCHANGED run
    BY <1>3 DEF KeepPins, KeepPinsFails
  <2>2. /\ {run.image, run.liveImage} \subseteq pins
        /\ run.oldPins \subseteq pins /\ run.image # None /\ run.liveImage # None
    BY <2>1 DEF PinsInv, TypedInv, FoundOK, BuiltSteps, PinnedSteps, ChosenSteps, VerifiedSteps, LiveSteps
  <2>3. run.liveImage \in S /\ run.oldPins \subseteq S /\ pins \subseteq S \cup {run.image}
    BY <2>1, <2>2 DEF Within
  <2>4. Keep \subseteq pins /\ Keep \subseteq S \cup {run.image}
    BY <2>2, <2>3 DEF Keep, ReleasePins
  <2>5. CanPin(Keep, present)
    <3>1. IsFiniteSet(pins) /\ Cardinality(pins) \in Nat /\ pins \subseteq present
      BY ImagesAreFinite, Numbers
    <3>2. Cardinality(Keep) \in Nat /\ Cardinality(Keep) <= Cardinality(pins)
      BY <2>4, <3>1, FewerPins
    <3>3. QED
      BY <2>4, <3>1, <3>2, RetentionAssumption DEF CanPin, PinsFit
  <2>6. KeepPins => pins' = Keep
    BY <2>5 DEF KeepPins
  <2>7. KeepPinsFails => pins' \subseteq Keep \cup pins
    BY DEF KeepPinsFails
  <2>8. QED
    BY <1>3, <2>1, <2>3, <2>4, <2>6, <2>7
<1>4. CASE PinsBack \/ PinsBackFails
  <2>1. pc = "pinsBack" /\ pc' = "recordFailed" /\ UNCHANGED run
    BY <1>4 DEF PinsBack, PinsBackFails, Recovering
  <2>2. /\ run.oldPins \subseteq S /\ run.liveImage \in S \cup {None}
        /\ pins \subseteq S \cup {run.image}
        /\ pins \subseteq S \/ run.liveImage \in pins
    BY <2>1 DEF Within
  <2>3. CASE run.liveImage = None
    <3>1. UNCHANGED pins /\ pins \subseteq S
      BY <1>4, <2>2, <2>3, PinsPutBack, Numbers
    <3>2. QED
      BY <1>4, <2>1, <3>1
  <2>4. CASE run.liveImage # None
    <3>1. OldPins \subseteq S /\ run.liveImage \in OldPins
      BY <2>2, <2>4 DEF OldPins
    <3>2. CASE PinsBackFails
      <4>1. \/ UNCHANGED pins
            \/ OldPins \subseteq pins' /\ pins' \subseteq OldPins \cup pins
        BY <3>2 DEF PinsBackFails
      <4>2. QED
        BY <2>1, <2>2, <3>1, <3>2, <4>1
    <3>3. CASE PinsBack
      <4>1. \/ pins' = OldPins
            \/ /\ ~CanPin(OldPins, present)
               /\ pins' = pins \cup ({run.liveImage} \cap present)
        BY <2>4, <3>3 DEF PinsBack
      <4>2. CASE pins' = OldPins
        BY <2>1, <3>1, <3>3, <4>2
      <4>3. CASE ~CanPin(OldPins, present) /\ pins' = pins \cup ({run.liveImage} \cap present)
        BY <2>1, <2>2, <2>4, <3>3, <4>3, CanPutBack
      <4>4. QED
        BY <4>1, <4>2, <4>3
    <3>4. QED
      BY <1>4, <3>2, <3>3
  <2>5. QED
    BY <2>3, <2>4
<1>5. QED
  BY <1>1, <1>2, <1>3, <1>4, CloudWrites

\* What a run reads of the function or the alias before it changes them.
LEMMA ReadWithin ==
  ASSUME TypedInv, ServesInv, pc \in {"record", "update"}, NEW S, Within(S)
  PROVE  Serving.image \in S /\ (mode = "latest" => fn.image \in S)
<1>1. pc # "idle" /\ pc # "activate" /\ pc \in ForwardSteps \ ({"settle"} \cup ChosenSteps)
  BY DEF ForwardSteps, BuiltSteps, PinnedSteps, ChosenSteps, VerifiedSteps, LiveSteps
<1>2. ~run.updating /\ ~run.aliasMoved
  BY <1>1, NothingUnderWay
<1>3. CASE mode = "alias"
  <2>1. Serving.image = run.before.image
    BY <1>1, <1>2, <1>3 DEF ServesInv, AliasInv, Serving
  <2>2. run.before.image \in S
    BY <1>1, <1>3 DEF Within
  <2>3. QED
    BY <1>3, <2>1, <2>2
<1>4. CASE mode = "latest"
  <2>1. fn.image \in FnImages /\ Serving.image = fn.image
    BY <1>4, Numbers DEF FnImages, Serving
  <2>2. FnImages \subseteq S
    BY <1>1, <1>2, <1>4 DEF Within
  <2>3. QED
    BY <2>1, <2>2
<1>5. QED
  BY <1>3, <1>4, DeployAssumption DEF TypedInv, InputsOK

LEMMA WithinStays ==
  ASSUME TypedInv, ServesInv, PinsInv, PinsFit, Next, pc # "idle", pc' # "idle",
         NEW S \in SUBSET Nat, Within(S)
  PROVE  Within(S)'
<1>1. /\ FieldsKept /\ UNCHANGED mode
      /\ \/ UNCHANGED run /\ ~Writing
         \/ Writing /\ Written
  BY InProgress, InputsKept
<1>2. \/ UNCHANGED pins
      \/ /\ UNCHANGED run /\ pc' \notin {"record", "build", "pin"}
         /\ pins' \subseteq S \cup {run.image}
         /\ pc' = "activate" \/ pins' \subseteq S \/ run.liveImage \in pins'
  BY PinSteps
<1>3. ReuseImage \/ BuildImage => /\ pc = "build" /\ ~run.updating /\ pins \subseteq S
                                  /\ mode = "latest" => FnImages \subseteq S
  <2>1. ReuseImage \/ BuildImage => pc = "build"
    BY OneWriter
  <2>2. pc = "build" => ~run.updating
    BY NothingUnderWay DEF ForwardSteps, BuiltSteps, PinnedSteps, ChosenSteps, VerifiedSteps, LiveSteps
  <2>3. QED
    BY <2>1, <2>2 DEF Within, ForwardSteps, BuiltSteps, PinnedSteps, ChosenSteps, VerifiedSteps, LiveSteps
<1>4. pc = "activate" => pc' = "activate"
  BY EnteredFrom, LeftFrom, OneWriter, InProgress DEF TypedInv, RunOK, Steps, ForwardSteps, BuiltSteps,
     PinnedSteps, ChosenSteps, VerifiedSteps, LiveSteps, RecoverySteps
<1>5. pins' \subseteq S \cup {run'.image}
  <2>1. CASE ReuseImage \/ BuildImage
    <3>1. UNCHANGED pins
      BY <2>1 DEF ReuseImage, BuildImage, cloud
    <3>2. QED
      BY <1>3, <2>1, <3>1
  <2>2. CASE ~(ReuseImage \/ BuildImage)
    BY <1>1, <1>2, <2>2 DEF FieldsKept, Within
  <2>3. QED
    BY <2>1, <2>2
<1>6. ASSUME mode = "latest"
      PROVE  FnImages' \subseteq S \cup {run'.image}
  <2>1. CASE ReuseImage \/ BuildImage
    <3>1. UNCHANGED FnImages
      BY <2>1 DEF ReuseImage, BuildImage, cloud, FnImages
    <3>2. QED
      BY <1>3, <1>6, <2>1, <3>1
  <2>2. CASE ~(ReuseImage \/ BuildImage)
    <3>1. run'.image = run.image /\ FnImages \subseteq S \cup {run.image}
      BY <1>1, <1>6, <2>2 DEF FieldsKept, Within
    <3>2. RestoreImage /\ pc = "restore" /\ MustRestore => run.prevImage \in S
      BY DEF Within, MustRestore, TypedInv, FoundOK
    <3>3. QED
      BY <1>6, <3>1, <3>2, FnImagesMove
  <2>3. QED
    BY <2>1, <2>2
<1>7. ASSUME pc' # "activate"
      PROVE  /\ run'.oldPins \subseteq S
             /\ {run'.liveImage, run'.prevImage} \subseteq S \cup {None}
             /\ pins' \subseteq S \/ run'.liveImage \in pins'
             /\ mode = "alias" => run'.before.image \in S
             /\ mode = "latest" /\ ~run'.updating => FnImages' \subseteq S
             /\ pc' \in ForwardSteps \ PinnedSteps => pins' \subseteq S
  <2>1. /\ run.oldPins \subseteq S
        /\ {run.liveImage, run.prevImage} \subseteq S \cup {None}
        /\ pins \subseteq S \/ run.liveImage \in pins
        /\ mode = "alias" => run.before.image \in S
        /\ mode = "latest" /\ ~run.updating => FnImages \subseteq S
        /\ pc \in ForwardSteps \ PinnedSteps => pins \subseteq S
    BY <1>4, <1>7 DEF Within
  <2>2. RecordServing => /\ run'.oldPins = pins /\ pins \subseteq S
                         /\ run'.liveImage = Serving.image /\ run'.liveImage \in S
    <3>1. RecordServing => pc = "record"
      BY OneWriter
    <3>2. RecordServing => run'.oldPins = pins /\ run'.liveImage = Serving.image
      BY WritingWrites DEF Writing, Written
    <3>3. QED
      BY <2>1, <3>1, <3>2, ReadWithin DEF ForwardSteps, BuiltSteps, PinnedSteps, ChosenSteps, VerifiedSteps, LiveSteps
  <2>3. run'.oldPins \subseteq S /\ run'.liveImage \in S \cup {None}
    BY <1>1, <2>1, <2>2 DEF FieldsKept
  <2>4. run'.prevImage \in S \cup {None}
    <3>1. CASE UpdateFunction
      <4>1. pc = "update" /\ mode = "latest"
        BY <3>1, OneWriter, DeployAssumption DEF TypedInv, ModeOK, InputsOK
      <4>2. run'.prevImage = fn.image
        BY <3>1, WritingWrites DEF Writing, Written
      <4>3. QED
        BY <4>1, <4>2, ReadWithin
    <3>2. CASE ~UpdateFunction
      BY <1>1, <2>1, <3>2 DEF FieldsKept
    <3>3. QED
      BY <3>1, <3>2
  <2>5. pins' \subseteq S \/ run'.liveImage \in pins'
    <3>1. CASE RecordServing
      <4>1. UNCHANGED pins
        BY <3>1 DEF RecordServing, cloud
      <4>2. QED
        BY <2>2, <3>1, <4>1
    <3>2. CASE ~RecordServing
      BY <1>1, <1>2, <1>7, <2>1, <3>2 DEF FieldsKept
    <3>3. QED
      BY <3>1, <3>2
  <2>6. mode = "alias" => run'.before.image \in S
    BY <1>1, <2>1 DEF FieldsKept
  <2>7. mode = "latest" /\ ~run'.updating => FnImages' \subseteq S
    <3>1. ~run'.updating => ~run.updating /\ ~UpdateFunction
      BY <1>1, WritingWrites DEF FieldsKept, Writing, Written
    <3>2. QED
      BY <2>1, <3>1, FnImagesMove DEF MustRestore
  <2>8. pc' \in ForwardSteps \ PinnedSteps => pins' \subseteq S
    <3>1. pc' \in ForwardSteps \ PinnedSteps => pc \in ForwardSteps \ PinnedSteps
      BY EnteredFrom, LeftFrom, OneWriter, InProgress
         DEF ForwardSteps, BuiltSteps, PinnedSteps, ChosenSteps, VerifiedSteps, LiveSteps
    <3>2. QED
      BY <1>2, <2>1, <3>1 DEF ForwardSteps, BuiltSteps, PinnedSteps, ChosenSteps, VerifiedSteps, LiveSteps
  <2>9. QED
    BY <2>3, <2>4, <2>5, <2>6, <2>7, <2>8
<1>8. QED
  BY <1>1, <1>5, <1>6, <1>7 DEF Within

LEMMA CleanStays ==
  ASSUME TypedInv, ServesInv, PinsInv, PinsFit, Next, pc # "idle", pc' # "idle",
         faults \in 0..MaxFaults, faults' = faults, NEW S \in SUBSET Nat, Within(S), Clean(S),
         KeepPins => run.image = run.liveImage
  PROVE  Clean(S)'
<1>1. /\ FieldsKept /\ UNCHANGED mode /\ None \notin Nat
      /\ \/ UNCHANGED run /\ ~Writing
         \/ Writing /\ Written
  BY InProgress, InputsKept, Numbers
<1>2. /\ ~PinStops /\ ~KeepPinsFails /\ ~RestoreFails /\ ~AliasBackFails /\ ~PinsBackFails
      /\ UpdateEnds => fn' = [fn EXCEPT !.status = "Successful", !.image = fn.pending,
                                        !.pending = None]
  <2>1. faults' # faults + 1
    BY DeployAssumption
  <2>2. QED
    BY <2>1, FaultsCount
<1>3. ASSUME pc \in {"restore", "restored"}, mode = "latest"
      PROVE  /\ run.updating => run.prevImage \in S
             /\ fn.status = "Successful" /\ fn.image = run.prevImage /\ run.updating =>
                  FnImages \subseteq S
             /\ ~MustRestore => FnImages \subseteq S
  <2>1. run.updating => run.prevImage \in S
    BY <1>3 DEF Within, TypedInv, FoundOK
  <2>2. fn.status = "Successful" => fn.pending = None
    BY DEF TypedInv, CloudOK
  <2>3. FnImages \subseteq S \cup {run.image} /\ (~run.updating => FnImages \subseteq S)
    BY <1>3 DEF Within
  <2>4. fn.status = "Successful" /\ fn.image = run.prevImage /\ run.updating =>
          FnImages \subseteq S
    BY <2>1, <2>2 DEF FnImages
  <2>5. QED
    BY <2>1, <2>3, <2>4 DEF MustRestore
<1>4. ImageRestored => fn.status = "Successful" /\ fn.image = run.prevImage /\ run.updating
  <2> SUFFICES ASSUME ImageRestored
               PROVE  fn.status = "Successful" /\ fn.image = run.prevImage /\ run.updating
    OBVIOUS
  <2>1. pc = "restored" /\ fn.status # "InProgress"
    BY DEF ImageRestored, Recovering
  <2>2. mode = "latest"
    BY <2>1, DeployAssumption DEF TypedInv, InputsOK, ModeOK
  <2>3. run.updating /\ run.prevImage # None /\ fn.pending = None
    BY <2>1, <2>2 DEF ServesInv, LatestInv, TypedInv, FoundOK, CloudOK
  <2>4. QED
    BY <2>1, <2>3 DEF Clean
<1>5. ~run'.stuck
  BY <1>1, <1>2, <1>4 DEF FieldsKept, Written, Clean
<1>6. ASSUME pc' = "restored"
      PROVE  \/ fn'.pending = run'.prevImage
             \/ fn'.status = "Successful" /\ fn'.image = run'.prevImage
  <2>1. run'.prevImage = run.prevImage
    BY <1>1, <1>6, LeftFrom, OneWriter DEF FieldsKept, UpdateFunction, Step, Failing
  <2>2. mode = "latest"
    BY <1>1, <1>6, ModeStays, DeployAssumption DEF TypedInv, InputsOK, ModeOK
  <2>3. CASE pc = "restored"
    <3>1. \/ fn.pending = run.prevImage
          \/ fn.status = "Successful" /\ fn.image = run.prevImage
      BY <2>3 DEF Clean
    <3>2. CASE UpdateEnds
      <4>1. fn.status = "InProgress"
        BY <3>2 DEF UpdateEnds
      <4>2. fn'.status = "Successful" /\ fn'.image = fn.pending
        BY <1>2, <3>2 DEF TypedInv, CloudOK
      <4>3. QED
        BY <2>1, <3>1, <4>1, <4>2
    <3>3. CASE ~UpdateEnds
      <4>1. fn' = fn \/ (ChangeConfig /\ fn' = [fn EXCEPT !.config = fn'.config])
        BY <1>6, <2>3, <3>3, FunctionSteps
      <4>2. fn'.pending = fn.pending /\ fn'.status = fn.status /\ fn'.image = fn.image
        BY <4>1 DEF ChangeConfig, TypedInv, CloudOK
      <4>3. QED
        BY <2>1, <3>1, <4>2
    <3>4. QED
      BY <3>2, <3>3
  <2>4. CASE pc # "restored"
    <3>1. RestoreImage
      BY <1>6, <2>4, LeftFrom
    <3>2. run.prevImage \in DOMAIN images
      BY <3>1 DEF RestoreImage, MustRestore, TypedInv, FoundOK, RunOK
    <3>3. fn'.pending = run.prevImage
      BY <3>1, <3>2, FunctionParts DEF RestoreImage
    <3>4. QED
      BY <2>1, <3>3
  <2>5. QED
    BY <2>3, <2>4
<1>7. ASSUME mode = "latest", pc' \in {"aliasBack", "pinsBack", "recordFailed"}
      PROVE  FnImages' \subseteq S
  <2>1. CASE pc \in {"aliasBack", "pinsBack", "recordFailed"}
    BY <1>7, <2>1, FnImagesMove DEF Clean
  <2>2. CASE NothingToRestore /\ pc = "restore"
    <3>1. FnImages \subseteq S
      BY <1>3, <1>7, <2>2 DEF NothingToRestore, MustRestore
    <3>2. UNCHANGED fn
      BY <2>2 DEF NothingToRestore, cloud
    <3>3. QED
      BY <3>1, <3>2 DEF FnImages
  <2>3. CASE ImageRestored
    <3>1. FnImages \subseteq S
      BY <1>3, <1>4, <1>7, <2>3, OneWriter
    <3>2. UNCHANGED fn
      BY <2>3 DEF ImageRestored, cloud
    <3>3. QED
      BY <3>1, <3>2 DEF FnImages
  <2>4. QED
    BY <1>2, <1>7, <2>1, <2>2, <2>3, LeftFrom, OneWriter
<1>8. ASSUME pc' \in {"activate", "recordFailed"}
      PROVE  pins' \subseteq S /\ (pc' = "activate" => run'.image \in S)
  <2>1. CASE pc' = pc
    <3>1. UNCHANGED <<pins, run>>
      BY <2>1, <1>8, PinSteps, Waiting
    <3>2. QED
      BY <1>8, <2>1, <3>1 DEF Clean
  <2>2. CASE pc' # pc /\ pc' = "activate"
    <3>1. KeepPins /\ pc = "keep"
      BY <1>2, <2>2, LeftFrom
    <3>2. pins' = Keep /\ UNCHANGED run
      BY <1>2, <3>1, PinSteps
    <3>3. run.image = run.liveImage /\ run.liveImage \in S /\ run.oldPins \subseteq S
      <4>1. run.liveImage # None
        BY <3>1 DEF TypedInv, FoundOK, BuiltSteps, PinnedSteps, ChosenSteps, VerifiedSteps, LiveSteps
      <4>2. QED
        BY <3>1, <4>1 DEF Within
    <3>4. QED
      BY <3>2, <3>3 DEF Keep, ReleasePins
  <2>3. CASE pc' # pc /\ pc' = "recordFailed"
    <3>1. PinsBack /\ pc = "pinsBack"
      BY <1>2, <2>3, LeftFrom
    <3>2. QED
      BY <1>2, <2>3, <3>1, PinSteps
  <2>4. QED
    BY <1>8, <2>1, <2>2, <2>3
<1>9. QED
  BY <1>1, <1>5, <1>6, <1>7, <1>8 DEF Clean

\* A deploy of another image keeps two images, and they are all that is in use.
LEMMA KeepsTwo ==
  ASSUME TypedInv, ServesInv, PinsInv, PinsFit, Next, KeepPins, ~KeepPinsFails,
         run.image # run.liveImage, NEW S \in SUBSET Nat, Within(S), Clean(S),
         NEW T \in SUBSET Nat, T = {run.image, run.liveImage}
  PROVE  Within(T)' /\ Clean(T)'
<1>1. pc = "keep" /\ pc' = "activate" /\ UNCHANGED <<run, fn, mode>>
  BY DEF KeepPins, inputs
<1>2. pins' = T
  BY <1>1, PinSteps DEF Keep, ReleasePins
<1>3. mode = "latest" => FnImages' \subseteq T
  <2>1. mode = "latest" => fn.image = run.image /\ fn.pending = None
    BY <1>1 DEF ServesInv, LatestInv, TypedInv, CloudOK, ChosenSteps, VerifiedSteps, LiveSteps
  <2>2. QED
    BY <1>1, <2>1 DEF FnImages
<1>4. ~run'.stuck
  BY <1>1 DEF Clean
<1>5. QED
  BY <1>1, <1>2, <1>3, <1>4 DEF Within, Clean

\* What the two are: images that were pinned.
LEMMA TwoImages ==
  ASSUME TypedInv, PinsInv, KeepPins
  PROVE  {run.image, run.liveImage} \in SUBSET Nat
<1>1. {run.image, run.liveImage} \subseteq pins
  BY DEF KeepPins, PinsInv, PinnedSteps, ChosenSteps, VerifiedSteps, LiveSteps
<1>2. QED
  BY <1>1, ImagesAreFinite

LEMMA InUseIsFinite ==
  ASSUME TypedInv
  PROVE  InUse \in SUBSET Nat /\ IsFiniteSet(InUse) /\ pins \subseteq InUse
<1>1. DOMAIN images \in SUBSET Nat /\ IsFiniteSet(DOMAIN images)
  <2>1. DOMAIN images = 1..Len(images) /\ Len(images) \in Nat
    BY LenProperties DEF TypedInv, CloudOK
  <2>2. QED
    BY <2>1, FS_Interval
<1>2. versions[live].image \in DOMAIN images
  <2>1. versions \in Seq(Versions) /\ live \in DOMAIN versions
    BY DEF TypedInv, CloudOK, Versions
  <2>2. DOMAIN versions = 1..Len(versions)
    BY <2>1, LenProperties
  <2>3. versions[live] \in Versions
    BY <2>1, <2>2, ElementOfSeq
  <2>4. QED
    BY <2>3 DEF Versions
<1>3. FnImages \subseteq DOMAIN images
  BY DEF TypedInv, CloudOK, FnImages
<1>4. InUse \subseteq DOMAIN images
  BY <1>2, <1>3 DEF InUse, TypedInv, CloudOK
<1>5. QED
  BY <1>1, <1>4, FS_Subset DEF InUse

\* Between runs no image comes into use.
LEMMA InUseShrinks ==
  ASSUME TypedInv, Next, pc = "idle", pc' = "idle"
  PROVE  InUse' \subseteq InUse
<1>1. pins' \subseteq pins
  <2>1. UNCHANGED pins \/ Expire
    BY CloudWrites DEF PinImages, PinRefused, PinStops, KeepPins, KeepPinsFails, PinsBack,
       PinsBackFails, Step, Failing, Recovering
  <2>2. QED
    BY <2>1 DEF Expire
<1>2. mode' = mode
  BY InputsKept
<1>3. versions'[live'].image = versions[live].image
  <2>1. UNCHANGED live
    BY CloudWrites DEF MoveAlias, MoveFails, AliasBack, AliasBackFails, Step, Failing, Recovering
  <2>2. QED
    BY <2>1, VersionsGrow DEF TypedInv, CloudOK
<1>4. mode = "latest" => FnImages' \subseteq FnImages
  BY FnImagesMove
<1>5. mode \in {"alias", "latest"}
  BY DeployAssumption DEF TypedInv, InputsOK
<1>6. QED
  BY <1>1, <1>2, <1>3, <1>4, <1>5 DEF InUse

\* A run starts with what is in use then.
LEMMA StartsFew ==
  ASSUME TypedInv, FewInUse, Next, pc = "idle", pc' # "idle"
  PROVE  \E S \in SUBSET Nat : Few(S)'
<1>1. PICK S \in SUBSET Nat : S = InUse
  BY InUseIsFinite
<1>2. /\ Starting /\ pc' = "record" /\ UNCHANGED <<mode, pins, fn>> /\ faults' = faults
      /\ run'.before = Serving /\ run'.oldPins = {} /\ run'.liveImage = None
      /\ run'.prevImage = None /\ run'.stuck = FALSE
  <2>1. Starting
    BY BetweenRuns
  <2>2. QED
    BY <2>1 DEF Starting, StartBuild, StartRestore, NoRun, inputs, cloud
<1>3. UNCHANGED FnImages
  BY <1>2 DEF FnImages
<1>4. mode = "alias" => run'.before.image \in S
  BY <1>1, <1>2 DEF Serving, InUse
<1>5. mode = "latest" => FnImages \subseteq S
  BY <1>1 DEF InUse
<1>6. Within(S)'
  BY <1>1, <1>2, <1>3, <1>4, <1>5 DEF Within, InUse
<1>7. Clean(S)'
  BY <1>2 DEF Clean
<1>8. IsFiniteSet(S) /\ Cardinality(S) <= 2 + faults'
  BY <1>1, <1>2, InUseIsFinite DEF FewInUse
<1>9. QED
  BY <1>6, <1>7, <1>8 DEF Few

\* Whatever a step of a run does, few images were in use.
LEMMA RunsWithFew ==
  ASSUME TypedInv, ServesInv, PinsInv, PinsFit, Next, pc # "idle", pc' # "idle",
         faults \in 0..MaxFaults, NEW S \in SUBSET Nat, Few(S)
  PROVE  \E T \in SUBSET Nat : Few(T)'
<1>1. /\ IsFiniteSet(S) /\ Within(S) /\ Cardinality(S) \in Nat
      /\ Cardinality(S) <= 1 + faults \/ (Cardinality(S) <= 2 + faults /\ Clean(S))
  BY FS_CardinalityType DEF Few
<1>2. faults' \in {faults, faults + 1} /\ faults \in Nat
  BY FaultsCount, DeployAssumption
<1>3. Within(S)'
  BY <1>1, WithinStays
<1>4. CASE Cardinality(S) <= 1 + faults \/ faults' = faults + 1
  <2>1. Cardinality(S) <= 1 + faults'
    BY <1>1, <1>2, <1>4
  <2>2. QED
    BY <1>1, <1>3, <2>1 DEF Few
<1>5. CASE faults' = faults /\ Clean(S) /\ Cardinality(S) <= 2 + faults
  <2>1. CASE KeepPins => run.image = run.liveImage
    <3>1. Clean(S)'
      BY <1>1, <1>5, <2>1, CleanStays
    <3>2. QED
      BY <1>1, <1>3, <1>5, <3>1 DEF Few
  <2>2. CASE KeepPins /\ run.image # run.liveImage
    <3>1. PICK T \in SUBSET Nat : T = {run.image, run.liveImage}
      BY <2>2, TwoImages
    <3>2. ~KeepPinsFails
      <4>1. faults' # faults + 1
        BY <1>2, <1>5
      <4>2. QED
        BY <4>1, FaultsCount
    <3>3. Within(T)' /\ Clean(T)'
      BY <1>1, <1>5, <2>2, <3>1, <3>2, KeepsTwo
    <3>4. IsFiniteSet(T) /\ Cardinality(T) \in Nat /\ Cardinality(T) <= 2
      <4>1. IsFiniteSet({}) /\ Cardinality({}) = 0
        BY FS_EmptySet
      <4>2. T \subseteq {} \cup {run.image, run.liveImage}
        BY <3>1
      <4>3. /\ IsFiniteSet(T) /\ Cardinality(T) \in Nat
            /\ Cardinality(T) <= Cardinality({}) + 2
        BY <4>1, <4>2, TwoMore
      <4>4. QED
        BY <4>1, <4>3
    <3>5. Cardinality(T) <= 2 + faults'
      BY <1>2, <1>5, <3>4
    <3>6. QED
      BY <3>3, <3>4, <3>5 DEF Few
  <2>3. QED
    BY <2>1, <2>2
<1>6. QED
  BY <1>1, <1>2, <1>4, <1>5

\* In use during a run: what was in use when it began, and the image of the run.
LEMMA InUseInRun ==
  ASSUME TypedInv, ServesInv, pc # "idle", NEW S \in SUBSET Nat, Within(S)
  PROVE  InUse \subseteq S \cup {run.image}
<1>1. CASE mode = "alias"
  <2>1. live \in DOMAIN versions /\ live # None
    BY <1>1, Numbers DEF TypedInv, CloudOK
  <2>2. live = run.candidate => versions[live].image = run.image
    BY <2>1 DEF TypedInv, CandidateOK
  <2>3. pc = "activate" => live = run.candidate
    BY <1>1 DEF ServesInv, AliasInv, LiveSteps
  <2>4. pc # "activate" /\ live # run.candidate => versions[live].image \in S
    BY <1>1 DEF ServesInv, AliasInv, Within
  <2>5. QED
    BY <1>1, <2>2, <2>3, <2>4 DEF InUse, Within
<1>2. CASE mode = "latest"
  BY <1>2 DEF InUse, Within
<1>3. QED
  BY <1>1, <1>2, DeployAssumption DEF TypedInv, InputsOK

\* A run that fails nothing of what it goes back with leaves nothing in use.
LEMMA EndsClean ==
  ASSUME TypedInv, ServesInv, Activate \/ RecordFailed,
         NEW S \in SUBSET Nat, Within(S), Clean(S)
  PROVE  InUse \subseteq S
<1>1. CASE Activate
  <2>1. pc = "activate" /\ pins \subseteq S /\ run.image \in S
    BY <1>1 DEF Activate, Clean
  <2>2. mode = "latest" => FnImages \subseteq S
    BY <2>1 DEF ServesInv, LatestInv, TypedInv, CloudOK, FnImages, ChosenSteps, VerifiedSteps,
       LiveSteps
  <2>3. mode = "alias" => versions[live].image \in S
    <3>1. live # None
      BY Numbers DEF TypedInv, CloudOK
    <3>2. QED
      BY <2>1, <3>1 DEF ServesInv, AliasInv, TypedInv, CandidateOK, LiveSteps
  <2>4. QED
    BY <2>1, <2>2, <2>3, DeployAssumption DEF InUse, TypedInv, InputsOK
<1>2. CASE RecordFailed
  <2>1. pc = "recordFailed" /\ pins \subseteq S /\ ~run.stuck
    BY <1>2 DEF RecordFailed, Clean
  <2>2. mode = "latest" => FnImages \subseteq S
    BY <2>1 DEF Clean
  <2>3. mode = "alias" => versions[live].image \in S
    <3>1. mode = "alias" => live = run.before.version /\ versions[live].image = run.before.image
      BY <2>1 DEF ServesInv, AliasInv
    <3>2. QED
      BY <2>1, <3>1 DEF Within
  <2>4. QED
    BY <2>1, <2>2, <2>3, DeployAssumption DEF InUse, TypedInv, InputsOK
<1>3. QED
  BY <1>1, <1>2

LEMMA EndsWithFew ==
  ASSUME TypedInv, ServesInv, Next, pc # "idle", pc' = "idle", faults \in 0..MaxFaults,
         NEW S \in SUBSET Nat, Few(S)
  PROVE  Cardinality(InUse)' <= 2 + faults'
<1>1. Ending /\ UNCHANGED InUse
  <2>1. Ending
    BY BetweenRuns
  <2>2. UNCHANGED <<mode, cloud>>
    BY <2>1 DEF Ending, Activate, ActivateFails, RecordFailed, RecordFailedFails, Cancel, RunEnds,
       inputs
  <2>3. QED
    BY <2>1, <2>2 DEF InUse, FnImages, cloud
<1>2. /\ IsFiniteSet(S) /\ Within(S) /\ Cardinality(S) \in Nat
      /\ Cardinality(S) <= 1 + faults \/ (Cardinality(S) <= 2 + faults /\ Clean(S))
  BY FS_CardinalityType DEF Few
<1>3. faults' \in {faults, faults + 1} /\ faults \in Nat
  BY FaultsCount, DeployAssumption
<1>4. Cardinality(InUse) \in Nat /\ Cardinality(InUse) <= Cardinality(S) + 1
  <2>1. InUse \subseteq S \cup {run.image}
    BY <1>2, InUseInRun
  <2>2. /\ IsFiniteSet(S \cup {run.image}) /\ Cardinality(S \cup {run.image}) \in Nat
        /\ Cardinality(S \cup {run.image}) <= Cardinality(S) + 1
    BY <1>2, OneMore
  <2>3. Cardinality(InUse) \in Nat /\ Cardinality(InUse) <= Cardinality(S \cup {run.image})
    BY <2>1, <2>2, FewerPins
  <2>4. QED
    BY <1>2, <2>2, <2>3
<1>5. CASE Cardinality(S) <= 1 + faults \/ faults' = faults + 1
  BY <1>1, <1>2, <1>3, <1>4, <1>5
<1>6. CASE faults' = faults /\ Clean(S) /\ Cardinality(S) <= 2 + faults
  <2>1. Activate \/ RecordFailed
    <3>1. faults' # faults + 1
      BY <1>3, <1>6
    <3>2. QED
      BY <1>1, <3>1, FaultsCount DEF Ending
  <2>2. InUse \subseteq S
    BY <1>2, <1>6, <2>1, EndsClean
  <2>3. Cardinality(InUse) <= Cardinality(S)
    BY <1>2, <2>2, FewerPins
  <2>4. QED
    BY <1>1, <1>2, <1>3, <1>4, <1>6, <2>3
<1>7. QED
  BY <1>2, <1>3, <1>5, <1>6

LEMMA FewStays ==
  ASSUME TypedInv, ServesInv, PinsInv, PinsFit, FewInUse, Next
  PROVE  FewInUse'
<1>1. faults \in 0..MaxFaults /\ faults' \in 0..MaxFaults /\ faults' \in {faults, faults + 1}
  BY FaultsCount DEF FewInUse
<1>2. CASE pc = "idle" /\ pc' = "idle"
  <2>1. InUse' \subseteq InUse
    BY <1>2, InUseShrinks
  <2>2. /\ Cardinality(InUse)' <= Cardinality(InUse)
        /\ Cardinality(InUse) \in Nat /\ Cardinality(InUse)' \in Nat
    BY <2>1, FewerPins, InUseIsFinite, FS_CardinalityType
  <2>3. Cardinality(InUse) <= 2 + faults
    BY <1>2 DEF FewInUse
  <2>4. Cardinality(InUse)' <= 2 + faults'
    BY <1>1, <2>2, <2>3, DeployAssumption
  <2>5. QED
    BY <1>1, <1>2, <2>4 DEF FewInUse
<1>3. CASE pc = "idle" /\ pc' # "idle"
  BY <1>1, <1>3, StartsFew DEF FewInUse
<1>4. CASE pc # "idle" /\ pc' # "idle"
  <2>1. PICK S \in SUBSET Nat : Few(S)
    BY <1>4 DEF FewInUse
  <2>2. \E T \in SUBSET Nat : Few(T)'
    BY <1>1, <1>4, <2>1, RunsWithFew
  <2>3. QED
    BY <1>1, <1>4, <2>2 DEF FewInUse
<1>5. CASE pc # "idle" /\ pc' = "idle"
  <2>1. PICK S \in SUBSET Nat : Few(S)
    BY <1>5 DEF FewInUse
  <2>2. Cardinality(InUse)' <= 2 + faults'
    BY <1>1, <1>5, <2>1, EndsWithFew
  <2>3. QED
    BY <1>1, <1>5, <2>2 DEF FewInUse
<1>6. QED
  BY <1>2, <1>3, <1>4, <1>5

\* So the pins fit: a run adds at most its own image to what was in use.
LEMMA FewFit ==
  ASSUME MaxFaults + 3 <= MaxPins, TypedInv, FewInUse
  PROVE  PinsFit
<1>1. MaxPins \in Nat /\ MaxFaults \in Nat /\ faults \in 0..MaxFaults
  BY RetentionAssumption, DeployAssumption DEF FewInUse
<1>2. CASE pc = "idle"
  <2>1. /\ Cardinality(pins) \in Nat /\ Cardinality(pins) <= Cardinality(InUse)
        /\ Cardinality(InUse) \in Nat
    BY InUseIsFinite, FewerPins, FS_CardinalityType
  <2>2. Cardinality(InUse) <= 2 + faults
    BY <1>2 DEF FewInUse
  <2>3. QED
    BY <1>1, <2>1, <2>2 DEF PinsFit
<1>3. CASE pc # "idle"
  <2>1. PICK S \in SUBSET Nat : Few(S)
    BY <1>3 DEF FewInUse
  <2>2. /\ IsFiniteSet(S) /\ Cardinality(S) \in Nat /\ Cardinality(S) <= 2 + faults
        /\ pins \subseteq S \cup {run.image}
    BY <1>1, <2>1, FS_CardinalityType DEF Few, Within
  <2>3. /\ IsFiniteSet(S \cup {run.image}) /\ Cardinality(S \cup {run.image}) \in Nat
        /\ Cardinality(S \cup {run.image}) <= Cardinality(S) + 1
    BY <2>2, OneMore
  <2>4. Cardinality(pins) \in Nat /\ Cardinality(pins) <= Cardinality(S \cup {run.image})
    BY <2>2, <2>3, FewerPins
  <2>5. QED
    BY <1>1, <2>2, <2>3, <2>4 DEF PinsFit
<1>4. QED
  BY <1>2, <1>3

LEMMA FewInitially ==
  ASSUME Init
  PROVE  FewInUse
<1>1. PICK k \in Configs :
        /\ fn = [image |-> 1, config |-> k, status |-> "Successful", pending |-> None]
        /\ versions = <<[image |-> 1, config |-> k]>>
  BY DEF Init
<1>2. live = 1 /\ pins = {1} /\ pc = "idle" /\ faults = 0
  BY DEF Init
<1>3. FnImages = {1}
  BY <1>1, DeployAssumption DEF FnImages
<1>4. InUse = {1}
  BY <1>1, <1>2, <1>3 DEF InUse
<1>5. Cardinality({1}) = 1
  BY FS_Singleton
<1>6. QED
  BY <1>2, <1>4, <1>5, DeployAssumption DEF FewInUse

\* With at most MaxFaults failed or cancelled steps, and any number of runs, the
\* images that serve or may have to serve again stay in the repository, when the
\* lifecycle policy's first rule keeps three pinned images more than that: every
\* fault leaves at most one image more in use, a run pins one of its own, and a
\* run that fails nothing of its recovery takes its pins away again.
THEOREM FewFaultsKeepServedImages ==
  ASSUME MaxFaults + 3 <= MaxPins
  PROVE  Spec => []ServingImageKept
<1>1. Init => FewInUse /\ PinsInv
  BY FewInitially, PinsInitially
<1>2. TypedInv /\ ServesInv /\ FewInUse /\ PinsInv /\ [Next]_vars => (FewInUse /\ PinsInv)'
  <2>1. ASSUME FewInUse, PinsInv, UNCHANGED vars PROVE FewInUse' /\ PinsInv'
    <3>1. PinsInv'
      BY <2>1, NothingChanged DEF PinsInv, Serving
    <3>2. UNCHANGED <<mode, pins, fn, versions, live, pc, run, faults>>
      BY <2>1 DEF vars, inputs, cloud
    <3>3. FewInUse'
      BY <2>1, <3>2 DEF FewInUse, InUse, FnImages, Few, Within, Clean
    <3>4. QED
      BY <3>1, <3>3
  <2>2. QED
    BY <2>1, FewFit, FewStays, PinsStay
<1>3. TypedInv /\ ServesInv /\ PinsInv => ServingImageKept
  BY ServedIsPinned
<1>4. QED
  BY <1>1, <1>2, <1>3, AlwaysTyped, AlwaysServes, PTL DEF Spec

=============================================================================
