---------------------------- MODULE DeployCheck ----------------------------
(***************************************************************************)
(* scripts/deploy_check.py against the service of module Serving, while    *)
(* other clients use it: one request after another, any error of the       *)
(* network or of AWS ends the run, the first failed check only fails it.   *)
(* With --cold the run starts with a request that must be the first of its *)
(* process, by the process's own count, and of its environment, by the     *)
(* platform's log; with --force-new-environment a probe variable is set    *)
(* before that request and removed after it.                               *)
(***************************************************************************)
EXTENDS Serving

CONSTANTS
    Checker,        \* the client that runs deploy_check.py
    Expected,       \* --expect-release
    Rows            \* bound: the rows of --expect-fixture that are replayed

ASSUME DeployCheckAssumption ==
    Checker \in Clients /\ Expected \in Releases /\ Rows \in Nat \ {0}

VARIABLES
    cold, force,    \* --cold, --force-new-environment
    variables,      \* the function's environment variables: "original" or "probe"
    step,           \* the check being made
    row,            \* how many rows of the fixture were replayed
    first,          \* the reply to the cold request
    raised,         \* an exception is on its way out
    passing,        \* no check has failed
    proven,         \* the platform's log was readable
    fault,          \* history: a call to AWS failed
    fresh           \* history: the cold request started an environment

checkVars == <<cold, force, variables, step, row, first, raised, passing, proven, fault, fresh>>
vars      == <<servingVars, checkVars>>

Over   == step = "over"
Passed == Over /\ passing /\ ~raised

-----------------------------------------------------------------------------
(* The cold request *)

Reconfigure(value) == variables' = value /\ generation' = generation + 1

\* An AWS call that raises before the try ends the run.
Raise == raised' = TRUE /\ step' = "over"

\* recycle_environments: the update and then the wait for it; either may raise.
Recycle ==
    /\ step = "recycle"
    /\ \/ Reconfigure("probe") /\ step' = "wait" /\ UNCHANGED <<raised, fault>>
       \/ Raise /\ fault' = TRUE /\ UNCHANGED <<variables, generation>>
    /\ UNCHANGED <<image, lambda, env, queue, req, latest, crashes, cold, force, row, first, passing, proven, fresh>>

Wait ==
    /\ step = "wait"
    /\ \/ step' = "first" /\ UNCHANGED <<raised, fault>>
       \/ Raise /\ fault' = TRUE
    /\ UNCHANGED <<servingVars, cold, force, variables, row, first, passing, proven, fresh>>

\* Mutant: the variables are restored after a request that was answered.
AfterFirstAnswered(exception) ==
    CASE force /\ ~exception -> "restore"
      [] ~exception /\ ~force -> "platform"
      [] OTHER -> "over"

\* What follows the cold request: the variables are restored in any case.
AfterFirst(exception) ==
    CASE force -> "restore"
      [] ~force /\ ~exception -> "platform"
      [] OTHER -> "over"

\* restore_environment, in the finally of the cold request.
Restore ==
    /\ step = "restore"
    /\ \/ /\ Reconfigure("original")
          /\ step' = IF raised THEN "over" ELSE "platform"
          /\ UNCHANGED <<raised, fault>>
       \/ Reconfigure("original") /\ Raise /\ fault' = TRUE      \* the waiter
       \/ Raise /\ fault' = TRUE /\ UNCHANGED <<variables, generation>>
    /\ UNCHANGED <<image, lambda, env, queue, req, latest, crashes, cold, force, row, first, passing, proven, fresh>>

\* Mutant: the process's own count is evidence enough.
ColdByCount(reply, readable) == reply.status = 200 /\ reply.index = 0

\* The cold checks: the process says it was its first request, and the
\* environment's log stream has no START before this one's.
Cold(reply, readable) ==
    /\ reply.status = 200 /\ reply.index = 0
    /\ readable => reply.before = 0

\* find_environment: a log that may not be read is a warning and skips the
\* check, as no function to look up does; a request not found there fails it.
Platform ==
    /\ step = "platform"
    /\ \E log \in IF lambda THEN {"read", "denied", "missing"} ELSE {"denied"} :
         /\ proven' = (log = "read")
         /\ passing' = (passing /\ log # "missing" /\ Cold(first, log = "read"))
    /\ step' = "live"
    /\ first' = None                    \* it goes to the evidence file
    /\ UNCHANGED <<servingVars, cold, force, variables, row, raised, fault, fresh>>

-----------------------------------------------------------------------------
(* The other checks: a request and what its reply must be. *)

Request ==
    [live |-> "live", version |-> "version", health |-> "health",
     ready |-> "ready", predict |-> "predict", malformed |-> "predict", fixture |-> "predict"]

Body(s) == IF s = "malformed" THEN "malformed" ELSE "valid"

\* Mutant: the release is not compared.
AcceptsAnyRelease(s, reply) ==
    CASE s = "malformed" -> reply.status = 422
      [] s = "health" -> reply.status = 200 /\ reply.health = "ok" /\ reply.version = "champion"
      [] s = "fixture" -> reply.status = 200 /\ reply.kind = "model"
      [] OTHER -> reply.status = 200

\* A fixture row matches when the model answers it: the table's answers are
\* taken to be further off than --fixture-tolerance.
Accepts(s, reply) ==
    CASE s = "version" -> reply.status = 200 /\ reply.release = Expected
      [] s = "malformed" -> reply.status = 422
      [] s = "health" -> reply.status = 200 /\ reply.health = "ok" /\ reply.version = "champion"
      [] s = "fixture" -> reply.status = 200 /\ reply.kind = "model"
      [] OTHER -> reply.status = 200

Following ==
    [live |-> "version", version |-> "health", health |-> "ready", ready |-> "predict",
     predict |-> "malformed", malformed |-> "fixture"]

\* first_request: the cold one, in an environment that may be warm.
AskFirst(e) ==
    /\ step = "first"
    /\ Send(Checker, e, "version", "valid")
    /\ fresh' = ~env[e].up
    /\ UNCHANGED <<cold, force, variables, step, row, first, raised, passing, proven, fault>>

Ask(e) ==
    /\ step \in DOMAIN Request
    /\ Send(Checker, e, Request[step], Body(step))
    /\ UNCHANGED <<cold, force, variables, step, row, first, raised, passing, proven, fault, fresh>>

Asking == step \in DOMAIN Request \cup {"first"}

Take ==
    /\ Asking /\ Receive(Checker)
    /\ LET reply == req[Checker].reply
       IN  /\ first' = IF step = "first" THEN reply ELSE first
           /\ passing' = (passing /\ (step = "first" \/ Accepts(step, reply)))
           /\ row' = IF step = "fixture" THEN row + 1 ELSE row
           /\ step' = CASE step = "first" -> AfterFirst(FALSE)
                        [] step = "fixture" -> IF row' < Rows THEN "fixture" ELSE "over"
                        [] OTHER -> Following[step]
    /\ UNCHANGED <<cold, force, variables, raised, proven, fault, fresh>>

\* A request times out, or its answer is lost: urllib or boto3 raises.
TimeOut ==
    /\ Asking /\ req[Checker].pc # "idle"
    /\ raised' = TRUE
    /\ step' = IF step = "first" THEN AfterFirst(TRUE) ELSE "over"
    /\ UNCHANGED <<servingVars, cold, force, variables, row, first, passing, proven, fault, fresh>>

-----------------------------------------------------------------------------
Init ==
    /\ ServingInit
    /\ cold \in BOOLEAN /\ force \in BOOLEAN
    /\ force => cold /\ lambda
    /\ variables = "original"
    /\ step = CASE force -> "recycle" [] cold /\ ~force -> "first" [] OTHER -> "live"
    /\ row = 0 /\ first = None /\ raised = FALSE /\ passing = TRUE /\ proven = FALSE
    /\ fault = FALSE /\ fresh = FALSE

\* Other clients ask for predictions until the check is over (a bound), and
\* take their answers.
Others ==
    \E c \in Clients \ {Checker} :
        \/ \E e \in Envs, body \in Bodies \ {"malformed"} : ~Over /\ Send(c, e, "predict", body)
        \/ Receive(c)

CheckStep == Recycle \/ Wait \/ Restore \/ Platform \/ (\E e \in Envs : AskFirst(e) \/ Ask(e)) \/ Take \/ TimeOut

Next ==
    \/ CheckStep
    \/ Others /\ UNCHANGED checkVars
    \/ ServerStep /\ UNCHANGED checkVars

Spec == Init /\ [][Next]_vars

\* A thread that runs goes on running, and anyio wakes the first in line when
\* a token is free.
FairSpec == Spec /\ \A c \in Clients : WF_vars(Handle(c) /\ UNCHANGED checkVars)

-----------------------------------------------------------------------------
(* Properties *)

Asked == {"unasked", "ok", "fails"}

ReplyType ==
    [path : Paths, status : {200, 413, 422, 502, 503},
     asked : [model : Asked, table : Asked], kind : {"model", "fallback", "none"},
     version : {"champion", "unregistered", "unavailable"}, release : Releases \cup {Absent},
     health : {"ok", "degraded", "unavailable"}, index : 0..MaxSeen, before : 0..MaxSeen]

TypeOK ==
    /\ image \in Images /\ lambda \in BOOLEAN /\ generation \in 0..2
    /\ env \in [Envs -> [up : BOOLEAN, generation : 0..2, invokes : 0..MaxSeen,
                         seen : 0..MaxSeen, failing : BOOLEAN]]
    /\ queue \in [Envs -> Seq(Clients)]
    /\ \A c \in Clients :
         \/ req[c] = Idle
         \/ req[c].pc = "answered" /\ req[c].env \in Envs /\ req[c].reply \in ReplyType
         \/ req[c].pc \in InServer /\ req[c].env \in Envs /\ req[c].path \in {"ready", "predict"}
    /\ latest \in [Envs -> {"ok", "fails"}] /\ crashes \in 0..MaxCrashes
    /\ cold \in BOOLEAN /\ force \in BOOLEAN /\ variables \in {"original", "probe"}
    /\ step \in {"recycle", "wait", "restore", "first", "platform", "over"} \cup DOMAIN Request
    /\ row \in 0..Rows /\ first \in ReplyType \cup {None}
    /\ {raised, passing, proven, fault, fresh} \subseteq BOOLEAN

\* The service says degraded exactly while the last prediction the model was
\* asked for failed: once recorded, a success does not hide a later failure.
StatusIsLatest ==
    \A e \in Envs :
        (\A c \in In(e) : req[c].pc # "computed") => (env[e].failing <=> latest[e] = "fails")

\* What computed the answer to a request, by what became of its asking.
AnsweredBy(asked) ==
    CASE asked.model = "ok" -> "model"
      [] asked.model # "ok" /\ asked.table = "ok" -> "fallback"
      [] OTHER -> "none"

HonestAnswer(i, r) ==
    LET by == AnsweredBy(r.asked)
    IN  /\ r.path = "predict" /\ r.status \in {200, 503} =>
             /\ r.kind = by /\ (r.status = 200 <=> by # "none")
             /\ Kind(i) = "model" /\ by # "model" => r.asked.model = "fails"
             /\ by # "none" =>
                  (r.version = "champion" <=> i.champion = "valid" /\ i[by] = "champion")
        /\ r.path = "ready" /\ r.status = 200 => by = "model"

\* An answer says what computed it, whatever failed for other requests before:
\* its kind is that of what answered this very request, its version the
\* champion's exactly when that file is.  While a model is loaded, the table's
\* answer and 503 mean that the model failed this request, 503 that the table
\* did too; ready means that the model has just answered.
AnswerIsHonest == \A c \in Clients : req[c].pc = "answered" => HonestAnswer(image, req[c].reply)

\* A passed check saw the release it expected, healthy when it asked, with the
\* champion's model in it, though processes died and requests came in between.
CheckedIsServed ==
    Passed =>
        /\ image.release = Expected /\ Kind(image) = "model" /\ ~ReleaseError(image)
        /\ ModelVersion(image) = "champion"

\* A cold start proven by both counts was one: the request started its
\* environment, though environments are reused and processes restarted in them.
ColdIsFirst == Passed /\ proven => fresh

\* The probe variable is gone when the run ends, even by an exception, unless a
\* call to AWS failed.
ProbeRemoved == Over /\ ~fault => variables = "original"

\* Every request that reaches the service is answered.
EveryRequestAnswered ==
    \A c \in Clients : req[c].pc \in InServer ~> req[c].pc \notin InServer
=============================================================================
