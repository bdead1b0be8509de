------------------------------ MODULE Serving ------------------------------
(***************************************************************************)
(* The service (api/main.py, api/middleware.py, api/deps.py): requests of  *)
(* several clients meet the processes of one image.  A prediction runs on  *)
(* a worker thread, at most PredictWorkers at once and first come first    *)
(* served; its outcome is computed without a lock and then recorded under  *)
(* one, so another thread, a health request or the death of the process    *)
(* may come in between.  On Lambda an environment takes one request at a   *)
(* time and there are several; elsewhere one process takes them all.       *)
(***************************************************************************)
EXTENDS Predictor, Sequences

CONSTANTS
    Images,         \* the images that may be deployed, a subset of Image
    Clients, Envs,  \* who asks, and where processes run
    None,
    PredictWorkers, \* params.yaml, api.predict_workers
    MaxSeen,        \* bound: the counters of requests stop there
    MaxCrashes      \* bound: how often a process dies

ASSUME ServingAssumption ==
    /\ Images \subseteq Image /\ IsFiniteSet(Clients)
    /\ PredictWorkers \in Nat \ {0} /\ MaxSeen \in Nat \ {0} /\ MaxCrashes \in Nat

Paths  == {"live", "version", "health", "ready", "predict"}
Bodies == {"valid", "malformed", "oversized", "cut"}

VARIABLES
    image,          \* the deployed image
    lambda,         \* whether it runs on Lambda
    generation,     \* the function's configuration, by its number
    env,            \* the execution environments and the process in each
    queue,          \* the capacity limiter's waiting line in each
    req,            \* the request of each client
    latest,         \* history: the outcome of the last model prediction in each
    crashes

servingVars == <<image, lambda, generation, env, queue, req, latest, crashes>>

InServer == {"queued", "running", "computed", "failed"}
In(e)      == {c \in Clients : req[c].env = e /\ req[c].pc \in InServer}
Working(e) == {c \in In(e) : req[c].pc # "queued"}

Count(n) == IF n < MaxSeen THEN n + 1 ELSE n

Idle == [pc |-> "idle", env |-> None]

Unasked == [model |-> "unasked", table |-> "unasked"]

\* A reply carries the fields a client looks at; `kind` is of the prediction in
\* it, "none" without one.  `asked` is history: what became of the model and of
\* the table when this very request asked them.
Reply(e, request, status, kind, asked) ==
    [path |-> request.path, status |-> status, kind |-> kind, asked |-> asked,
     version |-> CASE kind = "model" -> Label(image.model, image)
                   [] kind = "fallback" -> Label(image.fallback, image)
                   [] OTHER -> ModelVersion(image),
     release |-> ReleaseId(image), health |-> Status(image, env[e].failing),
     index |-> request.index, before |-> request.before]

\* health_ready: only the model's answer is ready.  Nothing to answer with is 503.
StatusOf(c, kind) ==
    IF kind = "model" \/ (kind = "fallback" /\ req[c].path # "ready") THEN 200 ELSE 503

\* A prediction carries its own kind and version; a readiness, those the
\* predictor was loaded with.
Answer(c, kind, asked) ==
    LET shown == IF req[c].path = "ready" THEN "none" ELSE kind
    IN  req' = [req EXCEPT ![c] =
                  [pc |-> "answered", env |-> req[c].env,
                   reply |-> Reply(req[c].env, req[c], StatusOf(c, kind), shown, asked)]]

\* The client has the reply.
Receive(c) ==
    /\ req[c].pc = "answered"
    /\ req' = [req EXCEPT ![c] = Idle]
    /\ UNCHANGED <<image, lambda, generation, env, queue, latest, crashes>>

-----------------------------------------------------------------------------
(* Environments *)

\* Who takes a request: on Lambda a free environment of the current
\* configuration, or a new one; elsewhere the one process there is.
Takes(e) ==
    /\ env[e].up => env[e].generation = generation
    /\ IF lambda THEN In(e) = {} ELSE \A f \in Envs \ {e} : ~env[f].up

Down == [up |-> FALSE, generation |-> 0, invokes |-> 0, seen |-> 0, failing |-> FALSE]

Process(e) ==
    IF env[e].up THEN env[e] ELSE [Down EXCEPT !.up = TRUE, !.generation = generation]

\* An idle environment is given up.
Reclaim(e) ==
    /\ env[e].up /\ lambda /\ In(e) = {}
    /\ env' = [env EXCEPT ![e] = Down]
    /\ latest' = [latest EXCEPT ![e] = "ok"]
    /\ UNCHANGED <<image, lambda, generation, queue, req, crashes>>

\* The process dies, and is started again in the same environment.
Crash(e) ==
    /\ env[e].up /\ crashes < MaxCrashes
    /\ crashes' = crashes + 1
    /\ env' = [env EXCEPT ![e].seen = 0, ![e].failing = FALSE]
    /\ queue' = [queue EXCEPT ![e] = <<>>]
    /\ latest' = [latest EXCEPT ![e] = "ok"]
    /\ req' = [c \in Clients |->
                 IF c \in In(e)
                 THEN [pc |-> "answered", env |-> e, reply |-> Reply(e, req[c], 502, "none", Unasked)]
                 ELSE req[c]]
    /\ UNCHANGED <<image, lambda, generation>>

-----------------------------------------------------------------------------
(* Requests *)

\* RequestContextMiddleware: the index of the request in its process; the path
\* of the adapter's readiness polls does not count.
Arriving(e, path) ==
    [pc |-> "queued", env |-> e, path |-> path,
     index |-> Process(e).seen, before |-> Process(e).invokes]

Enter(e, path) ==
    /\ Takes(e)
    /\ env' = [env EXCEPT ![e] =
                [Process(e) EXCEPT !.invokes = Count(@),
                                   !.seen = IF lambda /\ path = "live" THEN @ ELSE Count(@)]]

\* BodySizeLimitMiddleware: refused by the bytes received, before any parsing.
TooLarge(path, body) == path = "predict" /\ body = "oversized"

\* A body that is no PredictRequest, or a departure outside the accepted window.
Unprocessable(path, body) == path = "predict" /\ body = "malformed"

\* The requests that are answered on the event loop: the refused ones, the cheap
\* endpoints, and a readiness without a model.
Immediate(path, body) ==
    CASE TooLarge(path, body) -> 413
      [] Unprocessable(path, body) -> 422
      [] path = "ready" /\ Kind(image) # "model" -> 503
      [] path \in {"live", "version", "health"} -> 200
      [] OTHER -> 0

Send(c, e, path, body) ==
    /\ req[c].pc = "idle"
    /\ Enter(e, path)
    /\ LET r == Arriving(e, path)
           status == Immediate(path, body)
           failing == env[e].up /\ env[e].failing
       IN  IF status # 0
           THEN /\ req' = [req EXCEPT ![c] =
                             [pc |-> "answered", env |-> e,
                              reply |-> [Reply(e, r, status, "none", Unasked) EXCEPT
                                           !.health = Status(image, failing)]]]
                /\ UNCHANGED queue
           ELSE /\ req' = [req EXCEPT ![c] = IF body = "cut" THEN Idle ELSE r]
                /\ queue' = [queue EXCEPT ![e] = IF body = "cut" THEN @ ELSE Append(@, c)]
    /\ UNCHANGED <<image, lambda, generation, latest, crashes>>

\* Mutant: nothing limits the workers.
AdmitsAll(e) == TRUE

\* off_loop: a token of the capacity limiter is free.
Admits(e) == Cardinality(Working(e)) < PredictWorkers

Start(c) ==
    LET e == req[c].env
    IN  /\ req[c].pc = "queued" /\ Head(queue[e]) = c /\ Admits(e)
        /\ queue' = [queue EXCEPT ![e] = Tail(@)]
        /\ req' = [req EXCEPT ![c].pc = "running"]
        /\ UNCHANGED <<image, lambda, generation, env, latest, crashes>>

\* Predictor.predict: the model is asked, if there is one.  It may raise, or
\* return something that is not a prediction.
Predict(c, outcome) ==
    LET e == req[c].env
    IN  /\ req[c].pc = "running" /\ Kind(image) = "model"
        /\ latest' = [latest EXCEPT ![e] = outcome]
        /\ req' = [req EXCEPT ![c] =
                     [pc |-> "computed", env |-> e, path |-> @.path, index |-> @.index,
                      before |-> @.before, outcome |-> outcome]]
        /\ UNCHANGED <<image, lambda, generation, env, queue, crashes>>

\* The outcome is recorded under the lock; the model's answer is returned,
Record(c) ==
    LET e == req[c].env
        ok == req[c].outcome = "ok"
    IN  /\ req[c].pc = "computed"
        /\ env' = [env EXCEPT ![e].failing = ~ok]
        /\ IF ok THEN Answer(c, "model", [Unasked EXCEPT !.model = "ok"])
                 ELSE req' = [req EXCEPT ![c].pc = "failed"]
        /\ UNCHANGED <<image, lambda, generation, queue, latest, crashes>>

NeedsFallback(c) ==
    \/ req[c].pc = "failed"
    \/ req[c].pc = "running" /\ Kind(image) # "model"

\* What the request has asked when the table's turn has come and gone.
AskedBoth(c, ok) ==
    [model |-> IF req[c].pc = "failed" THEN req[c].outcome ELSE "unasked",
     table |-> IF ok THEN "ok" ELSE "fails"]

\* Mutant: without a table the request is left as it is.
AnswerFallbackOnly(c, ok) ==
    /\ NeedsFallback(c) /\ ok /\ Kind(image) # "none" /\ image.fallback # "bad"
    /\ Answer(c, "fallback", AskedBoth(c, ok))
    /\ UNCHANGED <<image, lambda, generation, env, queue, latest, crashes>>

\* Mutant: the answer is labelled with the predictor that was loaded.
AnswerFallbackAsLoaded(c, ok) ==
    /\ NeedsFallback(c)
    /\ ok => Kind(image) # "none" /\ image.fallback # "bad"
    /\ Answer(c, IF ok THEN Kind(image) ELSE "none", AskedBoth(c, ok))
    /\ UNCHANGED <<image, lambda, generation, env, queue, latest, crashes>>

\* or else the table's, or 503: it may be missing, or fail as well.
AnswerFallback(c, ok) ==
    /\ NeedsFallback(c)
    /\ ok => Kind(image) # "none" /\ image.fallback # "bad"
    /\ Answer(c, IF ok THEN "fallback" ELSE "none", AskedBoth(c, ok))
    /\ UNCHANGED <<image, lambda, generation, env, queue, latest, crashes>>

-----------------------------------------------------------------------------
ServingInit ==
    /\ image \in Images /\ lambda \in BOOLEAN
    /\ generation = 0
    /\ env = [e \in Envs |-> Down]
    /\ queue = [e \in Envs |-> <<>>]
    /\ req = [c \in Clients |-> Idle]
    /\ latest = [e \in Envs |-> "ok"]
    /\ crashes = 0

\* One step of the server.
Handle(c) ==
    \/ Start(c)
    \/ \E outcome \in {"ok", "fails"} : Predict(c, outcome)
    \/ Record(c)
    \/ \E ok \in BOOLEAN : AnswerFallback(c, ok)

ServerStep == (\E c \in Clients : Handle(c)) \/ (\E e \in Envs : Crash(e) \/ Reclaim(e))
=============================================================================
