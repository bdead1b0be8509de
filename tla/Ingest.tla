------------------------------- MODULE Ingest -------------------------------
(***************************************************************************)
(* The ingest stage (src/tripduration/ingest.py, raw_schema.py): monthly   *)
(* files are fetched byte for byte into quarantine, checked against the    *)
(* schema contract, and only then moved over the accepted snapshot; the    *)
(* provenance report follows the file.  A run is one call of main() with   *)
(* its list of months, or with --zones; the source may republish, withdraw *)
(* or fail between any two of its requests and the run may die at any      *)
(* step.  A file is its content: a content stands for its bytes, its md5   *)
(* and the ETag the source gives it, Names for its columns, Size for its   *)
(* length.                                                                 *)
(***************************************************************************)
EXTENDS Integers, Sequences

CONSTANTS
    Months,         \* the months TLC may publish, numbered on the calendar
    Zones,          \* the zone lookup, which is also the control object
    Contents,       \* the files the source may serve,
    Servable,       \*   Servable[i]: those it may serve for item i
    Names,          \* Names[c]: the column names of content c
    Size,           \* Size[c]: its length in bytes
    Columns,        \* configs/schema_raw.yaml: the canonical columns,
    Optional,       \*   those a file may lack,
    Variants,       \*   and the other spellings accepted for each
    ZoneColumns,    \*   and the header of the zone lookup
    Requests,       \* the lists of items main() is called with
    None,           \* no file, no report, no ETag
    Damaged,        \* a local file whose bytes are not any served content
    MaxLag,         \* MAX_PUBLICATION_LAG_MONTHS
    Retries,        \* RETRIES
    Source0,        \* what it may hold at the start
    Today0, MaxToday, MaxChanges, MaxFaults  \* bounds

Items == Months \cup {Zones}

ASSUME IngestAssumption ==
    /\ Months \subseteq Nat /\ Zones \notin Months
    /\ None \notin Contents /\ Damaged \notin Contents \cup {None}
    /\ Servable \in [Items -> SUBSET Contents]
    /\ DOMAIN Names = Contents /\ Size \in [Contents -> Nat]
    /\ Optional \subseteq Columns /\ DOMAIN Variants = Columns
    /\ \A r \in Requests : r \in Seq(Items) /\ r # <<>>
    /\ MaxLag \in Nat /\ Retries \in Nat /\ Today0 \in Nat /\ MaxToday \in Nat
    /\ MaxChanges \in Nat /\ MaxFaults \in Nat
    /\ Source0 \subseteq [Items -> Contents \cup {None}]
    /\ \A s \in Source0, i \in Items : s[i] \in Servable[i] \cup {None}

VARIABLES
    source,         \* what the source holds for an item, or None
    health,         \* "up", "denied" (403 for every key) or "down" (5xx, short reads)
    today,          \* the month of today's date
    raw,            \* data/raw, data/reference: the accepted snapshots
    report,         \* reports/ingest: the provenance of each, or None
    quarantine,     \* data/quarantine: what the run has downloaded and not installed
    pc,             \* where the run is, "idle" between runs
    todo,           \* the items it still has to do, the current one first
    force,          \* --force
    attempt,        \* failed attempts of the current request
    etag,           \* the ETag the HEAD of the current month returned
    verdict,        \* what the run last said of an item
    failed,         \* an item was refused, or an exception ended the run: exit 1
    moved,          \* history: the source changed since the HEAD that was refused
    served,         \* history: the contents the source has served for an item
    changes, faults \* how often the source may still change, and things may still fail

sourceVars == <<source, health, today>>
localVars  == <<raw, report, quarantine>>
runVars    == <<pc, todo, force, attempt, etag, verdict, failed>>
history    == <<moved, served>>
bounds     == <<changes, faults>>
vars       == <<sourceVars, localVars, runVars, history, bounds>>

item == Head(todo)

-----------------------------------------------------------------------------
(* The raw schema contract. *)

\* RawSchema.variant_map: every accepted spelling and its canonical name.
VariantMap ==
    [s \in Columns \cup UNION {Variants[c] : c \in Columns} |->
        CHOOSE c \in Columns : s = c \/ s \in Variants[c]]

\* check_schema: no unknown column, no required one missing.  It looks at names
\* only: a column under two spellings, or of a type or with values normalise
\* cannot cast, is let through, and fails in the first pipeline stage.
CheckSchema(names) ==
    /\ names \subseteq DOMAIN VariantMap
    /\ Columns \ Optional \subseteq {VariantMap[n] : n \in names}

\* Mutant: an unknown column is let through.
AcceptsUnknown(i, c) ==
    IF i = Zones THEN Names[c] = ZoneColumns ELSE Columns \ Optional \subseteq Names[c]

Accepts(i, c) == IF i = Zones THEN Names[c] = ZoneColumns ELSE CheckSchema(Names[c])

-----------------------------------------------------------------------------
(* What the source answers.  A 403/404 does not say which of the two it is. *)

Answers(i) == health = "up" /\ source[i] # None
Refuses(i) == health = "denied" \/ (health = "up" /\ source[i] = None)
Fails      == health = "down"

\* Mutant: the length is not compared.
UnchangedByTag(m, tag) ==
    /\ report[m] # None /\ ~force
    /\ tag # None /\ tag = report[m].etag

\* The HEAD shows what the report recorded, and the local bytes are the recorded ones.
Unchanged(m, tag) ==
    /\ report[m] # None
    /\ ~force
    /\ tag # None
    /\ tag = report[m].etag
    /\ Size[source[m]] = report[m].bytes

\* Mutant: the local file need only exist.
LocalExists(m) == raw[m] # None

LocalIntact(m) == raw[m] = report[m].md5

\* A missing month past the publication window is overdue, not pending.
Overdue(m) == today - m > MaxLag

\* verify_raw: the reported months whose file is missing or is not the recorded one.
VerifyFailures == {m \in Months : report[m] # None /\ raw[m] # report[m].md5}

-----------------------------------------------------------------------------
(* The run. *)

\* The step of the item at the head of a list: a month starts with its HEAD,
\* the zone lookup is fetched without one.
FirstStep(list) == IF list = <<>> THEN "idle" ELSE IF Head(list) = Zones THEN "get" ELSE "head"

\* The run goes on to its next item, or ends.
Done(v) ==
    /\ verdict' = v
    /\ failed' = (failed \/ v = "refused")
    /\ todo' = Tail(todo)
    /\ pc' = FirstStep(Tail(todo))
    /\ force' = (force /\ Tail(todo) # <<>>)
    /\ attempt' = 0
    /\ etag' = None

\* An exception main() does not catch: the months still to do are not tried.
Abort ==
    /\ failed' = TRUE /\ verdict' = "none"
    /\ pc' = "idle" /\ todo' = <<>> /\ force' = FALSE /\ attempt' = 0 /\ etag' = None

\* Mutant: one retry too many.
RetryOnceMore(giveUp) ==
    /\ Fails
    /\ \/ /\ attempt <= Retries
          /\ attempt' = attempt + 1
          /\ UNCHANGED <<pc, todo, force, etag, verdict, failed>>
       \/ attempt > Retries /\ giveUp

\* _with_retries: a transient failure is retried Retries times, then raised.
Retry(giveUp) ==
    /\ Fails
    /\ \/ /\ attempt < Retries
          /\ attempt' = attempt + 1
          /\ UNCHANGED <<pc, todo, force, etag, verdict, failed>>
       \/ attempt = Retries /\ giveUp

StartRun(request, f) ==
    /\ pc = "idle"
    /\ pc' = FirstStep(request)
    /\ todo' = request
    /\ force' = f
    /\ attempt' = 0
    /\ etag' = None
    /\ verdict' = "none"
    /\ failed' = FALSE
    /\ UNCHANGED <<sourceVars, localVars, history, bounds>>

\* HEAD of the month: skip it when nothing changed and the local file is
\* intact, otherwise download it.  A server may send no ETag.
HeadMonth ==
    /\ pc = "head" /\ Answers(item)
    /\ \E tag \in {source[item], None} :
          IF Unchanged(item, tag) /\ LocalIntact(item)
          THEN Done("held")
          ELSE /\ pc' = "get" /\ etag' = tag /\ attempt' = 0
               /\ UNCHANGED <<todo, force, verdict, failed>>
    /\ UNCHANGED <<sourceVars, localVars, history, bounds>>

\* Mutant: a 403/404 is read as "not published" at once.
HeadRefusedAtOnce ==
    /\ pc = "head" /\ Refuses(item)
    /\ Done(IF report[item] # None \/ Overdue(item) THEN "refused" ELSE "unpublished")
    /\ UNCHANGED <<sourceVars, localVars, history, bounds>>

\* HEAD answered 403/404 (_classify_absent): a month already ingested or
\* overdue is a source failure; otherwise the control object is asked.
HeadRefused ==
    /\ pc = "head" /\ Refuses(item)
    /\ IF report[item] # None \/ Overdue(item)
       THEN Done("refused")
       ELSE /\ pc' = "control" /\ attempt' = 0
            /\ UNCHANGED <<todo, force, etag, verdict, failed>>
    /\ UNCHANGED <<sourceVars, localVars, history, bounds>>

HeadFails ==
    /\ pc = "head" /\ Retry(Abort)
    /\ UNCHANGED <<sourceVars, localVars, history, bounds>>

\* The control object answers: the month is not published yet.  Any failure of
\* it, after the retries, is the source failing.
Control ==
    /\ pc = "control"
    /\ \/ Answers(Zones) /\ Done("unpublished")
       \/ Refuses(Zones) /\ Done("refused")
       \/ Retry(Done("refused"))
    /\ moved' = (moved /\ pc' = "control")
    /\ UNCHANGED <<sourceVars, localVars, served, bounds>>

\* download and _download_to_quarantine: a complete body reaches quarantine; a
\* refusal after the HEAD is an access failure; a failed or short read leaves
\* nothing behind and is retried.
Download ==
    /\ pc = "get"
    /\ \/ /\ Answers(item)
          /\ quarantine' = source[item]
          /\ pc' = "check"
          /\ UNCHANGED <<todo, force, attempt, etag, verdict, failed>>
       \/ Refuses(item) /\ Done("refused") /\ UNCHANGED quarantine
       \/ Retry(Abort) /\ UNCHANGED quarantine
    /\ UNCHANGED <<sourceVars, raw, report, history, bounds>>

\* check_schema on the quarantined file: a rejected one is left there, where no
\* later run reads it, and ends this one.
Check ==
    /\ pc = "check"
    /\ IF Accepts(item, quarantine)
       THEN pc' = "install" /\ UNCHANGED <<todo, force, attempt, etag, verdict, failed>>
       ELSE Abort
    /\ quarantine' = IF pc' = "install" THEN quarantine ELSE None
    /\ UNCHANGED <<sourceVars, raw, report, history, bounds>>

\* quarantine.replace(out_path)
Install ==
    /\ pc = "install"
    /\ raw' = [raw EXCEPT ![item] = quarantine]
    /\ quarantine' = None
    /\ pc' = "report"
    /\ UNCHANGED <<sourceVars, report, todo, force, attempt, etag, verdict, failed, history, bounds>>

\* Mutant: a month already reported keeps its report.
WriteReportOnce ==
    /\ pc = "report"
    /\ report' = [report EXCEPT ![item] =
          IF @ = None THEN [etag |-> etag, md5 |-> raw[item], bytes |-> Size[raw[item]]] ELSE @]
    /\ Done("held")
    /\ UNCHANGED <<sourceVars, raw, quarantine, history, bounds>>

\* _write_report: the ETag of the HEAD, the md5 and length of the GET.
WriteReport ==
    /\ pc = "report"
    /\ LET md5 == raw[item]
       IN  report' = [report EXCEPT ![item] =
              [etag |-> etag, md5 |-> md5, bytes |-> Size[md5]]]
    /\ Done("held")
    /\ UNCHANGED <<sourceVars, raw, quarantine, history, bounds>>

Crash ==
    /\ pc # "idle" /\ faults > 0
    /\ faults' = faults - 1
    /\ Abort
    /\ moved' = FALSE /\ quarantine' = None
    /\ UNCHANGED <<sourceVars, raw, report, served, changes>>

-----------------------------------------------------------------------------
(* The environment: TLC's site, the calendar, and the local disk between runs. *)

\* Publish, republish or withdraw an item.  A content served before comes back
\* only if no other content has its length: see SkipIsCurrent.
SourceChanges(i, c) ==
    /\ changes > 0 /\ c # source[i]
    /\ c \in served[i] => \A d \in Contents \ {c} : Size[d] # Size[c]
    /\ source' = [source EXCEPT ![i] = c]
    /\ changes' = changes - 1
    /\ moved' = (pc = "control")
    /\ served' = [served EXCEPT ![i] = @ \cup ({c} \ {None})]
    /\ UNCHANGED <<health, today, localVars, runVars, faults>>

Outage(kind) ==
    /\ health = "up" /\ faults > 0
    /\ health' = kind
    /\ faults' = faults - 1
    /\ moved' = (pc = "control")
    /\ UNCHANGED <<source, today, localVars, runVars, served, changes>>

Recover ==
    /\ health # "up"
    /\ health' = "up"
    /\ moved' = (pc = "control")
    /\ UNCHANGED <<source, today, localVars, runVars, served, bounds>>

NextMonth ==
    /\ today < MaxToday
    /\ today' = today + 1
    /\ UNCHANGED <<source, health, localVars, runVars, history, bounds>>

\* The local copy is deleted or altered by something else than ingest.
Damage(i, c) ==
    /\ pc = "idle" /\ faults > 0 /\ raw[i] # None /\ c # raw[i]
    /\ raw' = [raw EXCEPT ![i] = c]
    /\ faults' = faults - 1
    /\ UNCHANGED <<sourceVars, report, quarantine, runVars, history, changes>>

-----------------------------------------------------------------------------
Init ==
    /\ source \in Source0 /\ health = "up" /\ today = Today0
    /\ raw = [i \in Items |-> None]
    /\ report = [i \in Items |-> None]
    /\ quarantine = None
    /\ pc = "idle" /\ todo = <<>> /\ force = FALSE /\ attempt = 0 /\ etag = None
    /\ verdict = "none" /\ failed = FALSE
    /\ moved = FALSE
    /\ served = [i \in Items |-> {source[i]} \ {None}]
    /\ changes = MaxChanges /\ faults = MaxFaults

RunStep ==
    \/ HeadMonth \/ HeadRefused \/ HeadFails \/ Control
    \/ Download \/ Check \/ Install \/ WriteReport

Environment ==
    \/ \E i \in Items : \E c \in Servable[i] \cup {None} : SourceChanges(i, c)
    \/ \E kind \in {"denied", "down"} : Outage(kind)
    \/ Recover \/ NextMonth
    \/ \E i \in Items, c \in {None, Damaged} : Damage(i, c)

Next ==
    \/ \E request \in Requests, f \in BOOLEAN : StartRun(request, f)
    \/ RunStep \/ Crash \/ Environment

\* A started run goes on, an outage ends, and each request is made again and
\* again (the weekly workflow and its operators).
Fairness ==
    /\ WF_vars(RunStep)
    /\ WF_vars(Recover)
    /\ \A request \in Requests : SF_vars(StartRun(request, FALSE))

Spec == Init /\ [][Next]_vars
FairSpec == Spec /\ Fairness

-----------------------------------------------------------------------------
(* Properties. *)

Report == [etag : Contents \cup {None}, md5 : Contents, bytes : Nat]

TypeOK ==
    /\ source \in [Items -> Contents \cup {None}]
    /\ health \in {"up", "denied", "down"}
    /\ today \in Nat
    /\ raw \in [Items -> Contents \cup {None, Damaged}]
    /\ report \in [Items -> Report \cup {None}]
    /\ quarantine \in Contents \cup {None}
    /\ pc \in {"idle", "head", "control", "get", "check", "install", "report"}
    /\ todo \in Seq(Items) /\ (pc = "idle" <=> todo = <<>>)
    /\ force \in BOOLEAN /\ attempt \in 0..Retries
    /\ etag \in Contents \cup {None}
    /\ verdict \in {"none", "held", "unpublished", "refused"}
    /\ failed \in BOOLEAN
    /\ moved \in BOOLEAN /\ served \in [Items -> SUBSET Contents]
    /\ changes \in Nat /\ faults \in Nat

\* A content the source has served as item i, with the columns the contract wants.
Admissible(i, c) ==
    /\ c \in served[i]
    /\ IF i = Zones THEN Names[c] = ZoneColumns ELSE CheckSchema(Names[c])

\* Only checked files are accepted: an undamaged snapshot, and the bytes a
\* report vouches for, are a file the source served as that very item and the
\* contract admits, over republications, drifts, deaths at any step and retries.
\* "The accepted snapshot is only ever replaced by a checked one."
AcceptedIsChecked ==
    \A i \in Items :
        /\ raw[i] \notin {None, Damaged} => Admissible(i, raw[i])
        /\ report[i] # None => Admissible(i, report[i].md5)

\* A month is skipped only when the local file is what the source serves now,
\* although its report pairs the ETag of one request with the bytes of a later
\* one, and the file may have been lost, altered, or left by a run that died
\* before its report.
SkipIsCurrent ==
    [][ pc = "head" /\ todo' # todo /\ verdict' = "held"
           => raw[item] = source[item] ]_vars

\* "Not published yet" is said of a month only when the source lacks it: an
\* outage that answers 403 for every key is never read as an absent month,
\* unless the source itself changed between the HEAD and the control.
UnpublishedIsTrue ==
    [][ pc # "idle" /\ todo' = Tail(todo) /\ verdict' = "unpublished" /\ ~moved
           => source[item] = None ]_vars

\* A month a run says it holds, or says is not published, passes verify_raw at
\* that moment: no snapshot lost or altered behind its report goes by unseen.
AnsweredIsVerified ==
    [][ pc # "idle" /\ todo' = Tail(todo) /\ verdict' \in {"held", "unpublished"}
           => item \notin VerifyFailures' ]_vars

\* Once the source rests, the accepted snapshot of every acceptable item is what
\* it serves, and its report names those bytes, whatever crash, outage, damage
\* or republication came before.
Converges ==
    <>[](\A i \in Items :
            source[i] # None /\ Accepts(i, source[i])
                => /\ raw[i] = source[i]
                   /\ report[i] # None /\ report[i].md5 = source[i])
=============================================================================
