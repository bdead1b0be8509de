------------------------------ MODULE IngestProofs ------------------------------
(***************************************************************************)
(* Proofs about Ingest, for every set of months, contents, schemas and     *)
(* requests and any number of changes, faults and retries.                 *)
(***************************************************************************)
EXTENDS Ingest, SequenceTheorems, TLAPS

-----------------------------------------------------------------------------
(* Lists of items *)

LEMMA ItemToDo ==
  ASSUME NEW list \in Seq(Items), list # <<>>
  PROVE  /\ Head(list) \in Items /\ Tail(list) \in Seq(Items)
         /\ Tail(list) # list
<1>1. Len(Tail(list)) = Len(list) - 1 /\ Len(list) \in Nat
  BY HeadTailProperties, LenProperties
<1>2. Tail(list) # list
  <2>1. ASSUME Tail(list) = list PROVE FALSE
    <3>1. Len(list) = Len(list) - 1
      BY <1>1, <2>1
    <3>2. QED
      BY <1>1, <3>1
  <2>2. QED
    BY <2>1
<1>3. QED
  BY <1>2, HeadTailProperties

LEMMA FirstStepIs ==
  ASSUME NEW list \in Seq(Items)
  PROVE  /\ FirstStep(list) \in {"idle", "get", "head"}
         /\ FirstStep(list) = "idle" <=> list = <<>>
         /\ FirstStep(list) = "head" => Head(list) \in Months
<1>1. list # <<>> => Head(list) \in Months \cup {Zones}
  BY ItemToDo DEF Items
<1>2. QED
  BY <1>1 DEF FirstStep

\* What the run keeps: the conjuncts of TypeOK about it.
RunTyped(p, t, f, a, e, v, b) ==
  /\ p \in {"idle", "head", "control", "get", "check", "install", "report"}
  /\ t \in Seq(Items) /\ (p = "idle" <=> t = <<>>)
  /\ f \in BOOLEAN /\ a \in 0..Retries
  /\ e \in Contents \cup {None}
  /\ v \in {"none", "held", "unpublished", "refused"}
  /\ b \in BOOLEAN

LEMMA DoneKeepsType ==
  ASSUME TypeOK, todo # <<>>, NEW v \in {"none", "held", "unpublished", "refused"}, Done(v)
  PROVE  RunTyped(pc', todo', force', attempt', etag', verdict', failed')
<1>1. todo' \in Seq(Items) /\ pc' = FirstStep(todo')
  BY ItemToDo DEF Done, TypeOK
<1>2. /\ pc' \in {"idle", "get", "head"} /\ (pc' = "idle" <=> todo' = <<>>)
  BY <1>1, FirstStepIs
<1>3. force' \in BOOLEAN /\ failed' \in BOOLEAN
  BY DEF Done, TypeOK
<1>4. attempt' \in 0..Retries
  BY IngestAssumption DEF Done
<1>5. QED
  BY <1>1, <1>2, <1>3, <1>4 DEF Done, RunTyped

LEMMA AbortKeepsType ==
  ASSUME Abort
  PROVE  RunTyped(pc', todo', force', attempt', etag', verdict', failed')
<1>1. <<>> \in Seq(Items) /\ 0 \in 0..Retries
  BY IngestAssumption
<1>2. QED
  BY <1>1 DEF Abort, RunTyped

\* A request that fails is made again.
Again ==
  /\ attempt < Retries /\ attempt' = attempt + 1
  /\ UNCHANGED <<pc, todo, force, etag, verdict, failed>>

LEMMA AgainKeepsType ==
  ASSUME TypeOK, Again
  PROVE  RunTyped(pc', todo', force', attempt', etag', verdict', failed')
<1>1. attempt' \in 0..Retries
  BY IngestAssumption DEF TypeOK, Again
<1>2. QED
  BY <1>1 DEF TypeOK, Again, RunTyped

\* What a step does to the run, one of these.
Outcome ==
  \/ Again \/ Abort
  \/ \E v \in {"held", "unpublished", "refused"} : Done(v)
  \/ /\ pc' \in {"control", "get", "check", "install", "report"}
     /\ attempt' \in {0, attempt} /\ etag' \in Contents \cup {None}
     /\ UNCHANGED <<todo, force, verdict, failed>>

LEMMA OutcomeKeepsType ==
  ASSUME TypeOK, pc # "idle", Outcome
  PROVE  RunTyped(pc', todo', force', attempt', etag', verdict', failed')
<1>1. todo # <<>>
  BY DEF TypeOK
<1>2. CASE Again
  BY <1>2, AgainKeepsType
<1>3. CASE Abort
  BY <1>3, AbortKeepsType
<1>4. CASE \E v \in {"held", "unpublished", "refused"} : Done(v)
  BY <1>1, <1>4, DoneKeepsType
<1>5. CASE /\ pc' \in {"control", "get", "check", "install", "report"}
           /\ attempt' \in {0, attempt} /\ etag' \in Contents \cup {None}
           /\ UNCHANGED <<todo, force, verdict, failed>>
  <2>1. attempt' \in 0..Retries
    BY <1>5, IngestAssumption DEF TypeOK
  <2>2. QED
    BY <1>1, <1>5, <2>1 DEF TypeOK, RunTyped
<1>6. QED
  BY <1>2, <1>3, <1>4, <1>5 DEF Outcome

\* Each step of a run is one of them.
LEMMA RunStepOutcome ==
  ASSUME TypeOK, RunStep
  PROVE  Outcome /\ pc # "idle"
<1>1. etag \in Contents \cup {None}
  BY DEF TypeOK
<1>2. pc # "idle"
  BY DEF RunStep, HeadMonth, HeadRefused, HeadFails, Control, Download, Check, Install, WriteReport
<1>3. item \in Items
  BY <1>2, ItemToDo DEF TypeOK, item
<1>4. CASE HeadMonth
  <2>1. PICK tag \in {source[item], None} :
          \/ Done("held")
          \/ /\ pc' = "get" /\ etag' = tag /\ attempt' = 0
             /\ UNCHANGED <<todo, force, verdict, failed>>
    BY <1>4 DEF HeadMonth
  <2>2. tag \in Contents \cup {None}
    BY <1>3, <2>1 DEF TypeOK
  <2>3. QED
    BY <1>2, <2>1, <2>2 DEF Outcome
<1>5. CASE HeadRefused
  BY <1>1, <1>2, <1>5 DEF HeadRefused, Outcome
<1>6. CASE HeadFails
  BY <1>2, <1>6 DEF HeadFails, Retry, Again, Outcome
<1>7. CASE Control
  BY <1>2, <1>7 DEF Control, Retry, Again, Outcome
<1>8. CASE Download
  BY <1>1, <1>2, <1>8 DEF Download, Retry, Again, Outcome
<1>9. CASE Check
  BY <1>1, <1>2, <1>9 DEF Check, Outcome
<1>10. CASE Install
  BY <1>1, <1>2, <1>10 DEF Install, Outcome
<1>11. CASE WriteReport
  BY <1>2, <1>11 DEF WriteReport, Outcome
<1>12. QED
  BY <1>4, <1>5, <1>6, <1>7, <1>8, <1>9, <1>10, <1>11 DEF RunStep

-----------------------------------------------------------------------------
(* The inductive invariant *)

SourceOK == \A i \in Items :
  /\ source[i] \in Servable[i] \cup {None}
  /\ source[i] \in served[i] \cup {None}

\* The ETag e and the bytes d that one report pairs: they differ only if the
\* source has since left e, and it comes back to e only when e's length tells it
\* from every other content.
Paired(i, e, d) == e \notin {None, d} =>
  /\ e \in served[i]
  /\ source[i] = e => \A x \in Contents \ {e} : Size[x] # Size[e]

ReportsOK == \A i \in Items : report[i] # None =>
  /\ report[i].bytes = Size[report[i].md5]
  /\ Paired(i, report[i].etag, report[i].md5)

\* What the run has found out of its item so far.
RunOK ==
  /\ pc \in {"head", "control"} => item \in Months
  /\ pc = "control" =>
       report[item] = None /\ (moved \/ health = "denied" \/ source[item] = None)
  /\ pc = "get" => etag \in served[item] \cup {None}
  /\ pc \in {"check", "install"} =>
       /\ quarantine \in Servable[item] /\ quarantine \in served[item]
       /\ Paired(item, etag, quarantine)
  /\ pc = "install" => Accepts(item, quarantine)
  /\ pc = "report" => raw[item] \in Contents /\ Paired(item, etag, raw[item])

IInv == TypeOK /\ SourceOK /\ ReportsOK /\ RunOK /\ AcceptedIsChecked

LEMMA RunOver ==
  ASSUME TypeOK, pc # "idle", Abort \/ \E v \in {"held", "unpublished", "refused"} : Done(v)
  PROVE  RunOK'
<1>1. CASE Abort
  BY <1>1 DEF Abort, RunOK
<1>2. CASE \E v \in {"held", "unpublished", "refused"} : Done(v)
  <2>1. todo' \in Seq(Items) /\ pc' = FirstStep(todo') /\ etag' = None
    BY <1>2, ItemToDo DEF Done, TypeOK
  <2>2. /\ pc' \in {"idle", "get", "head"}
        /\ pc' = "head" => Head(todo') \in Months
    BY <2>1, FirstStepIs
  <2>3. QED
    BY <2>1, <2>2 DEF RunOK, item
<1>3. QED
  BY <1>1, <1>2

LEMMA CurrentItem ==
  ASSUME IInv, pc # "idle"
  PROVE  item \in Items /\ todo # <<>>
         /\ (item \in Months <=> item # Zones) /\ Servable[item] \subseteq Contents
<1>1. todo # <<>> /\ item \in Items
  BY ItemToDo DEF IInv, TypeOK, item
<1>2. QED
  BY <1>1, IngestAssumption DEF Items

\* The steps that change no snapshot and no report.
LEMMA AskingKeeps ==
  ASSUME IInv, HeadMonth \/ HeadRefused \/ HeadFails \/ Control
  PROVE  RunOK' /\ UNCHANGED <<sourceVars, localVars, served, bounds>> /\ moved' \in BOOLEAN
<1>1. pc # "idle" /\ item \in Items
  BY CurrentItem DEF HeadMonth, HeadRefused, HeadFails, Control
<1>2. UNCHANGED <<sourceVars, localVars, served, bounds>> /\ moved' \in BOOLEAN
  BY DEF HeadMonth, HeadRefused, HeadFails, Control, history, IInv, TypeOK
<1>3. CASE Abort \/ \E v \in {"held", "unpublished", "refused"} : Done(v)
  BY <1>1, <1>2, <1>3, RunOver DEF IInv
<1>4. CASE ~(Abort \/ \E v \in {"held", "unpublished", "refused"} : Done(v))
  <2>1. todo' = todo /\ item' = item
    BY <1>4 DEF HeadMonth, HeadRefused, HeadFails, Control, Retry, item
  <2>2. CASE HeadMonth
    <3>1. pc' = "get" /\ etag' \in {source[item], None}
      BY <1>4, <2>2 DEF HeadMonth
    <3>2. source[item] \in served[item] \cup {None}
      BY <1>1 DEF IInv, SourceOK
    <3>3. QED
      BY <1>2, <2>1, <3>1, <3>2 DEF RunOK
  <2>3. CASE HeadRefused
    <3>1. /\ pc' = "control" /\ report[item] = None /\ pc = "head"
          /\ (health = "denied" \/ source[item] = None)
      BY <1>4, <2>3 DEF HeadRefused, Refuses
    <3>2. item \in Months
      BY <3>1 DEF IInv, RunOK
    <3>3. QED
      BY <1>2, <2>1, <3>1, <3>2 DEF RunOK, sourceVars, localVars
  <2>4. CASE HeadFails
    <3>1. pc = "head" /\ pc' = "head"
      BY <1>4, <2>4 DEF HeadFails, Retry
    <3>2. item \in Months
      BY <3>1 DEF IInv, RunOK
    <3>3. QED
      BY <1>2, <2>1, <3>1, <3>2 DEF RunOK
  <2>5. CASE Control
    <3>1. pc = "control" /\ pc' = pc /\ moved' = moved
      BY <1>4, <2>5 DEF Control, Retry, IInv, TypeOK
    <3>2. QED
      BY <1>2, <2>1, <3>1 DEF IInv, RunOK, sourceVars, localVars
  <2>6. QED
    BY <2>2, <2>3, <2>4, <2>5
<1>5. QED
  BY <1>3, <1>4

\* The steps that change them.
LEMMA DownloadKeeps ==
  ASSUME IInv, Download \/ Check
  PROVE  /\ RunOK' /\ quarantine' \in Contents \cup {None}
         /\ UNCHANGED <<sourceVars, raw, report, history, bounds>>
<1>1. pc # "idle" /\ item \in Items /\ Servable[item] \subseteq Contents
  BY CurrentItem DEF Download, Check
<1>2. UNCHANGED <<sourceVars, raw, report, history, bounds>>
  BY DEF Download, Check
<1>3. quarantine' \in Contents \cup {None}
  BY <1>1 DEF Download, Check, IInv, TypeOK, Answers
<1>4. CASE Abort \/ \E v \in {"held", "unpublished", "refused"} : Done(v)
  BY <1>1, <1>4, RunOver, <1>2, <1>3 DEF IInv
<1>5. CASE ~(Abort \/ \E v \in {"held", "unpublished", "refused"} : Done(v))
  <2>1. todo' = todo /\ item' = item /\ etag' = etag
    BY <1>5 DEF Download, Check, Retry, item
  <2>2. CASE Download /\ quarantine' = source[item] /\ pc' = "check" /\ Answers(item)
    <3>1. /\ source[item] \in Servable[item] /\ source[item] \in served[item]
          /\ source' = source /\ served' = served
      BY <1>1, <1>2, <2>2 DEF IInv, SourceOK, Answers, sourceVars, history
    <3>2. etag \in served[item] \cup {None}
      BY <2>2 DEF Download, IInv, RunOK
    <3>3. Paired(item, etag, source[item])'
      BY <2>1, <3>1, <3>2 DEF Paired
    <3>4. /\ quarantine' \in Servable[item] /\ quarantine' \in served'[item]
          /\ Paired(item, etag, quarantine)'
      BY <2>1, <2>2, <3>1, <3>3 DEF Paired
    <3>5. QED
      BY <1>2, <1>3, <2>1, <2>2, <3>4 DEF RunOK
  <2>3. CASE Download /\ pc' = pc
    <3>1. pc = "get" /\ pc' = "get"
      BY <2>3 DEF Download
    <3>2. etag \in served[item] \cup {None} /\ served' = served
      BY <1>2, <3>1 DEF IInv, RunOK, history
    <3>3. QED
      BY <1>2, <1>3, <2>1, <3>1, <3>2 DEF RunOK
  <2>4. CASE Check
    <3>1. pc = "check" /\ pc' = "install" /\ Accepts(item, quarantine) /\ quarantine' = quarantine
      BY <1>5, <2>4 DEF Check
    <3>2. /\ quarantine \in Servable[item] /\ quarantine \in served[item]
          /\ Paired(item, etag, quarantine)
      BY <3>1 DEF IInv, RunOK
    <3>3. Paired(item, etag, quarantine)' /\ served' = served
      BY <1>2, <2>1, <3>1, <3>2 DEF Paired, sourceVars, history
    <3>4. Accepts(item, quarantine)'
      BY <2>1, <3>1 DEF Accepts
    <3>5. QED
      BY <1>2, <1>3, <2>1, <3>1, <3>2, <3>3, <3>4 DEF RunOK
  <2>5. QED
    BY <1>5, <2>2, <2>3, <2>4 DEF Download, Retry
<1>6. QED
  BY <1>2, <1>3, <1>4, <1>5

LEMMA InstallKeeps ==
  ASSUME IInv, Install
  PROVE  /\ RunOK' /\ AcceptedIsChecked' /\ quarantine' = None
         /\ raw' \in [Items -> Contents \cup {None, Damaged}]
         /\ UNCHANGED <<sourceVars, report, history, bounds>>
<1>1. /\ item \in Items /\ (item \in Months <=> item # Zones) /\ item' = item
      /\ Servable[item] \subseteq Contents
  BY CurrentItem DEF Install, item
<1>2. /\ quarantine \in Servable[item] /\ quarantine \in served[item]
      /\ Accepts(item, quarantine) /\ Paired(item, etag, quarantine)
  BY DEF Install, IInv, RunOK
<1>3. /\ raw' \in [Items -> Contents \cup {None, Damaged}] /\ raw'[item] = quarantine
      /\ \A i \in Items \ {item} : raw'[i] = raw[i]
  BY <1>1, <1>2 DEF Install, IInv, TypeOK
<1>4. Admissible(item, quarantine)
  BY <1>2 DEF Accepts, Admissible
<1>5. UNCHANGED <<sourceVars, report, history, bounds>> /\ quarantine' = None
  BY DEF Install
<1>6. AcceptedIsChecked'
  BY <1>3, <1>4, <1>5 DEF IInv, AcceptedIsChecked, Admissible, history
<1>7. RunOK'
  BY <1>1, <1>2, <1>3, <1>5 DEF Install, RunOK, Paired, sourceVars, history
<1>8. QED
  BY <1>3, <1>5, <1>6, <1>7

LEMMA WriteReportKeeps ==
  ASSUME IInv, WriteReport
  PROVE  /\ RunOK' /\ ReportsOK' /\ AcceptedIsChecked'
         /\ report' \in [Items -> Report \cup {None}]
         /\ report'[item].md5 = raw[item] /\ report'[item] \in Report
         /\ UNCHANGED <<sourceVars, raw, quarantine, history, bounds>>
<1>1. item \in Items
  BY CurrentItem DEF WriteReport
<1>2. raw[item] \in Contents /\ Paired(item, etag, raw[item])
  BY DEF WriteReport, IInv, RunOK
<1> DEFINE new == [etag |-> etag, md5 |-> raw[item], bytes |-> Size[raw[item]]]
<1>3. new \in Report
  BY <1>2, IngestAssumption DEF IInv, TypeOK, Report
<1>4. report' = [report EXCEPT ![item] = new]
  BY DEF WriteReport
<1>5. UNCHANGED <<sourceVars, raw, quarantine, history, bounds>> /\ Done("held")
  BY DEF WriteReport
<1>6. report' \in [Items -> Report \cup {None}] /\ report'[item] = new
  BY <1>1, <1>3, <1>4 DEF IInv, TypeOK
<1>7. ReportsOK'
  <2>1. ASSUME NEW i \in Items, report'[i] # None
        PROVE  /\ report'[i].bytes = Size[report'[i].md5]
               /\ Paired(i, report'[i].etag, report'[i].md5)
    <3>1. CASE i = item
      BY <1>2, <1>6, <3>1
    <3>2. CASE i # item
      <4>1. report'[i] = report[i]
        BY <1>1, <1>4, <2>1, <3>2 DEF IInv, TypeOK
      <4>2. QED
        BY <2>1, <4>1 DEF IInv, ReportsOK
    <3>3. QED
      BY <3>1, <3>2
  <2>2. QED
    BY <1>5, <2>1 DEF ReportsOK, Paired, sourceVars, history
<1>8. RunOK'
  <2>1. pc # "idle"
    BY DEF WriteReport
  <2>2. QED
    BY <1>5, <2>1, RunOver DEF IInv
<1>9. AcceptedIsChecked'
  <2>1. raw[item] \notin {None, Damaged}
    BY <1>2, IngestAssumption
  <2>2. Admissible(item, raw[item])
    BY <1>1, <2>1 DEF IInv, AcceptedIsChecked
  <2>3. ASSUME NEW i \in Items, report'[i] # None
        PROVE  Admissible(i, report'[i].md5)
    <3>1. CASE i = item
      BY <1>6, <2>2, <3>1
    <3>2. CASE i # item
      <4>1. report'[i] = report[i]
        BY <1>1, <1>4, <2>3, <3>2 DEF IInv, TypeOK
      <4>2. QED
        BY <2>3, <4>1 DEF IInv, AcceptedIsChecked
    <3>3. QED
      BY <3>1, <3>2
  <2>4. QED
    BY <1>5, <2>3 DEF IInv, AcceptedIsChecked, Admissible, history
<1>10. QED
  BY <1>3, <1>5, <1>6, <1>7, <1>8, <1>9

-----------------------------------------------------------------------------
(* The steps of the run, of its death and of the environment *)

LEMMA RunStepInvariant ==
  ASSUME IInv, RunStep
  PROVE  IInv'
<1>1. RunTyped(pc', todo', force', attempt', etag', verdict', failed')
  BY RunStepOutcome, OutcomeKeepsType DEF IInv
<1>2. CASE HeadMonth \/ HeadRefused \/ HeadFails \/ Control
  <2>1. RunOK' /\ UNCHANGED <<sourceVars, localVars, served, bounds>> /\ moved' \in BOOLEAN
    BY <1>2, AskingKeeps
  <2>2. QED
    BY <1>1, <2>1 DEF IInv, TypeOK, RunTyped, SourceOK, ReportsOK, Paired, AcceptedIsChecked, Admissible,
       sourceVars, localVars, bounds
<1>3. CASE Download \/ Check
  <2>1. /\ RunOK' /\ quarantine' \in Contents \cup {None}
        /\ UNCHANGED <<sourceVars, raw, report, history, bounds>>
    BY <1>3, DownloadKeeps
  <2>2. QED
    BY <1>1, <2>1 DEF IInv, TypeOK, RunTyped, SourceOK, ReportsOK, Paired, AcceptedIsChecked, Admissible,
       sourceVars, history, bounds
<1>4. CASE Install
  <2>1. /\ RunOK' /\ AcceptedIsChecked' /\ quarantine' = None
        /\ raw' \in [Items -> Contents \cup {None, Damaged}]
        /\ UNCHANGED <<sourceVars, report, history, bounds>>
    BY <1>4, InstallKeeps
  <2>2. QED
    BY <1>1, <2>1 DEF IInv, TypeOK, RunTyped, SourceOK, ReportsOK, Paired,
       sourceVars, history, bounds
<1>5. CASE WriteReport
  <2>1. /\ RunOK' /\ ReportsOK' /\ AcceptedIsChecked'
        /\ report' \in [Items -> Report \cup {None}]
        /\ UNCHANGED <<sourceVars, raw, quarantine, history, bounds>>
    BY <1>5, WriteReportKeeps
  <2>2. QED
    BY <1>1, <2>1 DEF IInv, TypeOK, RunTyped, SourceOK,
       sourceVars, history, bounds
<1>6. QED
  BY <1>2, <1>3, <1>4, <1>5 DEF RunStep

LEMMA CrashInvariant ==
  ASSUME IInv, Crash
  PROVE  IInv'
<1>1. pc # "idle" /\ Abort
  BY DEF Crash
<1>2. RunTyped(pc', todo', force', attempt', etag', verdict', failed') /\ RunOK'
  BY <1>1, AbortKeepsType, RunOver DEF IInv
<1>3. faults' \in Nat
  BY DEF Crash, IInv, TypeOK
<1>4. QED
  BY <1>2, <1>3 DEF Crash, IInv, TypeOK, RunTyped, SourceOK, ReportsOK, Paired,
     AcceptedIsChecked, Admissible, sourceVars

LEMMA StartRunInvariant ==
  ASSUME IInv, NEW request \in Requests, NEW f \in BOOLEAN, StartRun(request, f)
  PROVE  IInv'
<1>1. request \in Seq(Items) /\ request # <<>> /\ 0 \in 0..Retries
  BY IngestAssumption
<1>2. /\ pc' \in {"get", "head"} /\ (pc' = "head" => Head(request) \in Months)
      /\ todo' = request /\ etag' = None
  BY <1>1, FirstStepIs DEF StartRun
<1>3. RunTyped(pc', todo', force', attempt', etag', verdict', failed')
  BY <1>1, <1>2 DEF StartRun, RunTyped
<1>4. RunOK'
  BY <1>2 DEF RunOK, item
<1>5. QED
  BY <1>3, <1>4 DEF StartRun, IInv, TypeOK, RunTyped, SourceOK, ReportsOK, Paired,
     AcceptedIsChecked, Admissible, sourceVars, localVars, history, bounds

LEMMA SourceChangesInvariant ==
  ASSUME IInv, NEW i \in Items, NEW c \in Servable[i] \cup {None}, SourceChanges(i, c)
  PROVE  IInv'
<1>1. c \in Contents \cup {None} /\ Servable[i] \subseteq Contents
  BY IngestAssumption
<1>2. /\ source' \in [Items -> Contents \cup {None}] /\ source'[i] = c
      /\ \A j \in Items \ {i} : source'[j] = source[j]
  BY <1>1 DEF SourceChanges, IInv, TypeOK
<1>3. /\ served' \in [Items -> SUBSET Contents] /\ served'[i] = served[i] \cup ({c} \ {None})
      /\ \A j \in Items \ {i} : served'[j] = served[j]
  BY <1>1 DEF SourceChanges, IInv, TypeOK
<1>4. UNCHANGED <<health, today, localVars, runVars, faults>> /\ moved' = (pc = "control")
  BY DEF SourceChanges
<1>5. c \in served[i] => \A x \in Contents \ {c} : Size[x] # Size[c]
  BY DEF SourceChanges
<1>6. ASSUME NEW j \in Items, NEW e, NEW d, Paired(j, e, d)
      PROVE  Paired(j, e, d)'
  <2>1. CASE j = i
    BY <1>2, <1>3, <1>5, <1>6, <2>1 DEF Paired
  <2>2. CASE j # i
    BY <1>2, <1>3, <1>6, <2>2 DEF Paired
  <2>3. QED
    BY <2>1, <2>2
<1>7. ReportsOK'
  BY <1>4, <1>6 DEF IInv, ReportsOK, localVars
<1>8. SourceOK'
  <2>1. ASSUME NEW j \in Items
        PROVE  source'[j] \in Servable[j] \cup {None} /\ source'[j] \in served'[j] \cup {None}
    <3>1. CASE j = i
      BY <1>2, <1>3, <3>1
    <3>2. CASE j # i
      BY <1>2, <1>3, <3>2 DEF IInv, SourceOK
    <3>3. QED
      BY <3>1, <3>2
  <2>2. QED
    BY <2>1 DEF SourceOK
<1>9. RunOK'
  <2>1. pc # "idle" => item \in Items
    BY CurrentItem
  <2>2. item' = item /\ pc' = pc /\ etag' = etag /\ quarantine' = quarantine /\ raw' = raw /\ report' = report
    BY <1>4 DEF item, runVars, localVars
  <2>3. pc \in {"check", "install"} =>
          quarantine \in served'[item] /\ Paired(item, etag, quarantine)'
    BY <1>3, <1>6, <2>1, <2>2 DEF IInv, RunOK
  <2>4. pc = "report" => Paired(item, etag, raw[item])'
    BY <1>6, <2>1, <2>2 DEF IInv, RunOK
  <2>5. pc = "get" => etag \in served'[item] \cup {None}
    BY <1>3, <2>1 DEF IInv, RunOK
  <2>6. pc = "install" => Accepts(item, quarantine)'
    BY <2>2 DEF IInv, RunOK, Accepts
  <2>7. QED
    BY <1>4, <2>2, <2>3, <2>4, <2>5, <2>6 DEF IInv, RunOK
<1>10. changes' \in Nat
  BY DEF SourceChanges, IInv, TypeOK
<1>11. AcceptedIsChecked'
  <2>1. \A j \in Items : served[j] \subseteq served'[j]
    BY <1>3
  <2>2. QED
    BY <1>4, <2>1 DEF IInv, AcceptedIsChecked, Admissible, localVars
<1>12. QED
  BY <1>2, <1>3, <1>4, <1>7, <1>8, <1>9, <1>10, <1>11 DEF IInv, TypeOK, localVars, runVars

LEMMA RestInvariant ==
  ASSUME IInv,
         \/ \E kind \in {"denied", "down"} : Outage(kind)
         \/ Recover \/ NextMonth
         \/ \E i \in Items, c \in {None, Damaged} : Damage(i, c)
  PROVE  IInv'
<1>1. CASE (\E kind \in {"denied", "down"} : Outage(kind)) \/ Recover
  <2>1. /\ health' \in {"up", "denied", "down"} /\ faults' \in Nat /\ moved' = (pc = "control")
        /\ UNCHANGED <<source, today, localVars, runVars, served, changes>>
    BY <1>1 DEF Outage, Recover, bounds, IInv, TypeOK
  <2>2. item' = item
    BY <2>1 DEF item, runVars
  <2>3. RunOK'
    BY <2>1, <2>2 DEF IInv, RunOK, Paired, Accepts, runVars, localVars
  <2>4. QED
    BY <2>1, <2>3 DEF IInv, TypeOK, SourceOK, ReportsOK, Paired, AcceptedIsChecked, Admissible,
       runVars, localVars
<1>2. CASE NextMonth
  <2>1. today' \in Nat /\ UNCHANGED <<source, health, localVars, runVars, history, bounds>>
    BY <1>2 DEF NextMonth, IInv, TypeOK
  <2>2. item' = item
    BY <2>1 DEF item, runVars
  <2>3. RunOK'
    BY <2>1, <2>2 DEF IInv, RunOK, Paired, Accepts, runVars, localVars, history
  <2>4. QED
    BY <2>1, <2>3 DEF IInv, TypeOK, SourceOK, ReportsOK, Paired, AcceptedIsChecked, Admissible,
       runVars, localVars, history, bounds
<1>3. CASE \E i \in Items, c \in {None, Damaged} : Damage(i, c)
  <2>1. PICK i \in Items, c \in {None, Damaged} : Damage(i, c)
    BY <1>3
  <2>2. /\ raw' = [raw EXCEPT ![i] = c] /\ pc = "idle" /\ faults' \in Nat
        /\ UNCHANGED <<sourceVars, report, quarantine, runVars, history, changes>>
    BY <2>1 DEF Damage, IInv, TypeOK
  <2>3. RunOK'
    BY <2>2 DEF RunOK, runVars
  <2>4. AcceptedIsChecked' /\ raw' \in [Items -> Contents \cup {None, Damaged}]
    BY <2>2 DEF IInv, TypeOK, AcceptedIsChecked, Admissible, history
  <2>5. QED
    BY <2>2, <2>3, <2>4 DEF IInv, TypeOK, SourceOK, ReportsOK, Paired,
       sourceVars, runVars, history
<1>4. QED
  BY <1>1, <1>2, <1>3

LEMMA InitInvariant == Init => IInv
<1> SUFFICES ASSUME Init PROVE IInv
  OBVIOUS
<1>1. source \in [Items -> Contents \cup {None}]
  BY IngestAssumption DEF Init
<1>2. TypeOK
  <2>1. served \in [Items -> SUBSET Contents]
    BY <1>1 DEF Init
  <2>2. 0 \in 0..Retries /\ <<>> \in Seq(Items) /\ today \in Nat
    BY IngestAssumption DEF Init
  <2>3. changes \in Nat /\ faults \in Nat
    BY IngestAssumption DEF Init
  <2>4. QED
    BY <1>1, <2>1, <2>2, <2>3 DEF Init, TypeOK
<1>3. SourceOK
  BY IngestAssumption DEF Init, SourceOK
<1>4. ReportsOK /\ RunOK /\ AcceptedIsChecked
  BY DEF Init, ReportsOK, RunOK, AcceptedIsChecked
<1>5. QED
  BY <1>2, <1>3, <1>4 DEF IInv

-----------------------------------------------------------------------------
(* The theorems *)

\* The inductive invariant: what the run knows of its item, and what every report
\* pairs, however the source changes meanwhile.
THEOREM IngestInvariant == Spec => []IInv
<1>1. IInv /\ [Next]_vars => IInv'
  <2> SUFFICES ASSUME IInv, [Next]_vars PROVE IInv'
    OBVIOUS
  <2>1. CASE Next
    BY <2>1, RunStepInvariant, CrashInvariant, StartRunInvariant, SourceChangesInvariant,
       RestInvariant DEF Next, Environment
  <2>2. CASE UNCHANGED vars
    BY <2>2 DEF vars, sourceVars, localVars, runVars, history, bounds, IInv, TypeOK, SourceOK,
       ReportsOK, RunOK, Paired, Accepts, AcceptedIsChecked, Admissible, item
  <2>3. QED
    BY <2>1, <2>2
<1>2. QED
  BY <1>1, InitInvariant, PTL DEF Spec

\* Type correctness.
THEOREM IngestTypeCorrect == Spec => []TypeOK
<1>1. IInv => TypeOK
  BY DEF IInv
<1>2. QED
  BY <1>1, IngestInvariant, PTL

\* Every undamaged snapshot in data/raw and data/reference, and the bytes of every
\* report, are a file the source served as that item and the contract admits.
THEOREM OnlyCheckedFilesArrive == Spec => []AcceptedIsChecked
<1>1. IInv => AcceptedIsChecked
  BY DEF IInv
<1>2. QED
  BY <1>1, IngestInvariant, PTL

\* The list of a run gets shorter by an item only where the run is done with it.
LEMMA AnsweredOnlyWhenDone ==
  ASSUME IInv, Next, pc # "idle", todo' = Tail(todo), verdict' \in {"held", "unpublished"}
  PROVE  \/ HeadMonth /\ Done("held")
         \/ Control /\ Done("unpublished")
         \/ WriteReport
<1>1. todo' # todo
  BY ItemToDo DEF IInv, TypeOK
<1>2. RunStep
  BY <1>1 DEF Next, StartRun, Crash, Abort, Environment, SourceChanges, Outage, Recover,
     NextMonth, Damage, runVars
<1>3. ~Abort
  BY DEF Abort
<1>4. ~HeadRefused /\ ~HeadFails /\ ~Download /\ ~Check /\ ~Install
  BY <1>1, <1>3 DEF HeadRefused, HeadFails, Download, Check, Install, Retry, Done
<1>5. HeadMonth => Done("held")
  BY <1>1 DEF HeadMonth
<1>6. Control => Done("unpublished")
  BY <1>1, <1>3 DEF Control, Retry, Done
<1>7. QED
  BY <1>2, <1>4, <1>5, <1>6 DEF RunStep

\* A month that is skipped is what the source serves now.
THEOREM SkippedMonthsAreCurrent == Spec => SkipIsCurrent
<1>1. IInv /\ [Next]_vars =>
        [ pc = "head" /\ todo' # todo /\ verdict' = "held"
            => raw[item] = source[item] ]_vars
  <2> SUFFICES ASSUME IInv, Next, pc = "head", todo' # todo, verdict' = "held"
               PROVE  raw[item] = source[item]
    BY DEF vars
  <2>1. HeadMonth
    BY DEF Next, RunStep, HeadRefused, HeadFails, Retry, Control, Download, Check, Install,
       WriteReport, Done, Abort, StartRun, Crash, Environment, SourceChanges, Outage,
       Recover, NextMonth, Damage, runVars
  <2>2. PICK tag \in {source[item], None} : Unchanged(item, tag) /\ LocalIntact(item)
    BY <2>1 DEF HeadMonth
  <2>3. /\ report[item] # None /\ tag # None /\ tag = report[item].etag
        /\ Size[source[item]] = report[item].bytes /\ raw[item] = report[item].md5
    BY <2>2 DEF Unchanged, LocalIntact
  <2>4. item \in Items
    BY CurrentItem
  <2>5. report[item].bytes = Size[report[item].md5] /\ Paired(item, tag, report[item].md5)
    BY <2>3, <2>4 DEF IInv, ReportsOK
  <2>6. report[item].md5 \in Contents
    BY <2>3, <2>4 DEF IInv, TypeOK, Report
  <2>7. QED
    BY <2>2, <2>3, <2>5, <2>6 DEF Paired
<1>2. QED
  BY <1>1, IngestInvariant, PTL DEF Spec, SkipIsCurrent

\* An outage is never read as a month not yet published.
THEOREM UnpublishedMonthsAreAbsent == Spec => UnpublishedIsTrue
<1>1. IInv /\ [Next]_vars =>
        [ pc # "idle" /\ todo' = Tail(todo) /\ verdict' = "unpublished" /\ ~moved
            => source[item] = None ]_vars
  <2> SUFFICES ASSUME IInv, Next, pc # "idle", todo' = Tail(todo),
                      verdict' = "unpublished", ~moved
               PROVE  source[item] = None
    BY DEF vars
  <2>1. Control /\ Done("unpublished")
    BY AnsweredOnlyWhenDone DEF Done, WriteReport
  <2>2. todo' # todo
    BY ItemToDo DEF IInv, TypeOK
  <2>3. pc = "control" /\ Answers(Zones)
    BY <2>1, <2>2 DEF Control, Retry, Done
  <2>4. QED
    BY <2>3 DEF Answers, IInv, RunOK
<1>2. QED
  BY <1>1, IngestInvariant, PTL DEF Spec, UnpublishedIsTrue

\* A month that a run has answered for passes verify_raw at that moment.
THEOREM AnsweredMonthsPassVerification == Spec => AnsweredIsVerified
<1>1. IInv /\ [Next]_vars =>
        [ pc # "idle" /\ todo' = Tail(todo) /\ verdict' \in {"held", "unpublished"}
            => item \notin VerifyFailures' ]_vars
  <2> SUFFICES ASSUME IInv, Next, pc # "idle", todo' = Tail(todo),
                      verdict' \in {"held", "unpublished"}
               PROVE  item \notin VerifyFailures'
    BY DEF vars
  <2>1. \/ HeadMonth /\ Done("held")
        \/ Control /\ Done("unpublished")
        \/ WriteReport
    BY AnsweredOnlyWhenDone
  <2>2. CASE WriteReport
    BY <2>2, WriteReportKeeps DEF VerifyFailures
  <2>3. CASE HeadMonth /\ Done("held")
    <3>1. raw[item] = report[item].md5 /\ UNCHANGED localVars
      BY <2>3, ItemToDo DEF HeadMonth, LocalIntact, Done, IInv, TypeOK
    <3>2. QED
      BY <3>1 DEF VerifyFailures, localVars
  <2>4. CASE Control
    <3>1. report[item] = None /\ UNCHANGED localVars
      BY <2>4 DEF Control, IInv, RunOK
    <3>2. QED
      BY <3>1 DEF VerifyFailures, localVars
  <2>5. QED
    BY <2>1, <2>2, <2>3, <2>4
<1>2. QED
  BY <1>1, IngestInvariant, PTL DEF Spec, AnsweredIsVerified
=============================================================================
