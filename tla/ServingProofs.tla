--------------------------- MODULE ServingProofs ---------------------------
(***************************************************************************)
(* Proofs about DeployCheck, and so about Serving and Predictor: for every *)
(* set of images, clients and environments and any number of crashes.      *)
(***************************************************************************)
EXTENDS DeployCheck, SequenceTheorems, FiniteSetTheorems, TLAPS

Counter  == 0..MaxSeen
EnvType  == [up : BOOLEAN, generation : 0..2, invokes : Counter, seen : Counter, failing : BOOLEAN]
Outcomes == {"ok", "fails"}
Queued   == [pc : {"queued", "running"}, env : Envs, path : {"ready", "predict"},
             index : Counter, before : Counter]
Computed == [pc : {"computed", "failed"}, env : Envs, path : {"ready", "predict"},
             index : Counter, before : Counter, outcome : Outcomes]
Answered == [pc : {"answered"}, env : Envs, reply : ReplyType]
ReqType  == {Idle} \cup Queued \cup Computed \cup Answered

\* What a reply says of the image, whoever asked and whenever.
Honest(i, r) ==
    /\ HonestAnswer(i, r)
    /\ r.kind = "none" => r.version = ModelVersion(i)
    /\ r.release = ReleaseId(i)
    /\ r.health = "ok" => Kind(i) = "model" /\ ~ReleaseError(i)

ServingTyped ==
    /\ image \in Images /\ lambda \in BOOLEAN
    /\ env \in [Envs -> EnvType]
    /\ queue \in [Envs -> Seq(Clients)]
    /\ req \in [Clients -> ReqType]
    /\ latest \in [Envs -> Outcomes] /\ crashes \in 0..MaxCrashes

\* Who waits is in line.
Waits(c, line) == \E i \in 1..Len(line) : line[i] = c
InLine == \A c \in Clients : req[c].pc = "queued" => Waits(c, queue[req[c].env])

Answers ==
    \A c \in Clients :
        /\ req[c].pc = "answered" => Honest(image, req[c].reply)
        /\ req[c].pc \in {"computed", "failed"} => Kind(image) = "model"
        /\ req[c].pc = "failed" => req[c].outcome = "fails"

\* An environment that is up was invoked.
Invoked == \A e \in Envs : env[e].up => env[e].invokes > 0

ServingOK == ServingTyped /\ InLine /\ Answers /\ Invoked

-----------------------------------------------------------------------------
(* Requests and replies *)

LEMMA Bounds ==
  /\ 0 \in Counter /\ 0 \in 0..MaxCrashes
  /\ \A n \in Counter : Count(n) \in Counter /\ Count(n) > 0
  BY ServingAssumption DEF Counter, Count

LEMMA ReqFields ==
  ASSUME NEW r \in ReqType
  PROVE  /\ r.pc \in {"idle", "answered", "queued", "running", "computed", "failed"}
         /\ r.pc = "idle" => r = Idle
         /\ r.pc = "answered" => r \in Answered
         /\ r.pc \in {"queued", "running"} => r \in Queued
         /\ r.pc \in {"computed", "failed"} => r \in Computed
<1>1. CASE r = Idle
  BY <1>1 DEF Idle
<1>2. CASE r \in Queued
  BY <1>2 DEF Queued
<1>3. CASE r \in Computed
  BY <1>3 DEF Computed
<1>4. CASE r \in Answered
  BY <1>4 DEF Answered
<1>5. QED
  BY <1>1, <1>2, <1>3, <1>4 DEF ReqType

LEMMA KindIs ==
  ASSUME NEW i \in Image
  PROVE  /\ Kind(i) \in {"model", "fallback", "none"}
         /\ ModelVersion(i) \in {"champion", "unregistered", "unavailable"}
         /\ \A f : Label(f, i) \in {"champion", "unregistered"}
         /\ ReleaseId(i) \in Releases \cup {Absent}
<1>1. Kind(i) \in {"model", "fallback", "none"}
  BY DEF Kind
<1>2. \A f : Label(f, i) \in {"champion", "unregistered"}
  BY DEF Label
<1>3. QED
  BY <1>1, <1>2 DEF ModelVersion, ReleaseId

LEMMA StatusIs ==
  ASSUME NEW i \in Image, NEW b \in BOOLEAN
  PROVE  /\ Status(i, b) \in {"ok", "degraded", "unavailable"}
         /\ Status(i, b) = "ok" => Kind(i) = "model" /\ ~ReleaseError(i)
  BY KindIs DEF Status

AskedType == [model : Asked, table : Asked]

\* A reply of this status and kind, to a request that asked this, is honest.
Justified(path, status, kind, asked) ==
    LET by == AnsweredBy(asked)
    IN  /\ path = "predict" /\ status \in {200, 503} =>
             /\ kind = by /\ (status = 200 <=> by # "none")
             /\ Kind(image) = "model" /\ by # "model" => asked.model = "fails"
        /\ path = "ready" /\ status = 200 => by = "model"

\* What a reply holds, and that it is honest.
LEMMA ReplyIs ==
  ASSUME ServingTyped, NEW e \in Envs, NEW q, q.path \in Paths, q.index \in Counter,
         q.before \in Counter, NEW status \in {200, 413, 422, 502, 503},
         NEW kind \in {"model", "fallback", "none"}, NEW asked \in AskedType,
         Justified(q.path, status, kind, asked)
  PROVE  /\ Reply(e, q, status, kind, asked) \in ReplyType
         /\ Honest(image, Reply(e, q, status, kind, asked))
         /\ Reply(e, q, status, kind, asked).kind = kind
         /\ Reply(e, q, status, kind, asked).before = q.before
<1> DEFINE r == Reply(e, q, status, kind, asked)
           v == CASE kind = "model" -> Label(image.model, image)
                  [] kind = "fallback" -> Label(image.fallback, image)
                  [] OTHER -> ModelVersion(image)
<1>1. image \in Image /\ env[e].failing \in BOOLEAN
  BY ServingAssumption DEF ServingTyped, EnvType
<1>2. v \in {"champion", "unregistered", "unavailable"}
  BY <1>1, KindIs
<1>3. /\ kind = "model" => v = Label(image.model, image)
      /\ kind = "fallback" => v = Label(image.fallback, image)
      /\ kind = "none" => v = ModelVersion(image)
  OBVIOUS
<1>4. r = [path |-> q.path, status |-> status, kind |-> kind, asked |-> asked, version |-> v,
           release |-> ReleaseId(image), health |-> Status(image, env[e].failing),
           index |-> q.index, before |-> q.before]
  BY DEF Reply
<1> HIDE DEF v
<1>5. r \in ReplyType
  BY <1>1, <1>2, <1>4, KindIs, StatusIs DEF ReplyType, AskedType, Counter
<1>6. HonestAnswer(image, r)
  <2> DEFINE by == AnsweredBy(asked)
  <2>1. /\ r.path = q.path /\ r.status = status /\ r.kind = kind /\ r.asked = asked /\ r.version = v
    BY <1>4
  <2>2. by \in {"model", "fallback", "none"}
    BY DEF AnsweredBy
  <2>3. kind = by /\ by # "none" =>
          (v = "champion" <=> image.champion = "valid" /\ image[by] = "champion")
    BY <1>3, <2>2 DEF Label
  <2> HIDE DEF r
  <2>4. QED
    BY <2>1, <2>3 DEF Justified, HonestAnswer
<1>7. Honest(image, r)
  <2>1. /\ r.kind = kind /\ r.version = v /\ r.release = ReleaseId(image)
        /\ r.health = Status(image, env[e].failing)
    BY <1>4
  <2> HIDE DEF r
  <2>2. QED
    BY <1>1, <1>3, <1>6, <2>1, StatusIs DEF Honest
<1>8. QED
  BY <1>4, <1>5, <1>7

\* An answer that takes the place of a request.
LEMMA AnswerKeeps ==
  ASSUME ServingOK, NEW c \in Clients, NEW kind \in {"model", "fallback", "none"},
         NEW asked \in AskedType, req[c].pc \in InServer \ {"queued"}, Answer(c, kind, asked),
         kind = AnsweredBy(asked), Kind(image) = "model" /\ kind # "model" => asked.model = "fails"
  PROVE  /\ req' \in [Clients -> ReqType]
         /\ \A d \in Clients \ {c} : req'[d] = req[d]
         /\ req'[c].pc = "answered" /\ Honest(image, req'[c].reply)
<1>1. req[c] \in ReqType /\ req[c].pc \in {"running", "computed", "failed"}
  BY DEF ServingOK, ServingTyped, InServer
<1>2. /\ req[c].env \in Envs /\ req[c].index \in Counter /\ req[c].before \in Counter
      /\ req[c].path \in {"ready", "predict"}
  BY <1>1, ReqFields DEF Queued, Computed
<1> DEFINE shown == IF req[c].path = "ready" THEN "none" ELSE kind
           status == StatusOf(c, kind)
           r == Reply(req[c].env, req[c], status, shown, asked)
<1>3. /\ status \in {200, 503} /\ shown \in {"model", "fallback", "none"}
      /\ Justified(req[c].path, status, shown, asked)
  BY <1>2 DEF StatusOf, Justified
<1>4. r \in ReplyType /\ Honest(image, r)
  <2>1. req[c].path \in Paths /\ ServingTyped
    BY <1>2 DEF Paths, ServingOK
  <2> HIDE DEF shown, status
  <2>2. QED
    BY <1>2, <1>3, <2>1, ReplyIs
<1>5. req' = [req EXCEPT ![c] = [pc |-> "answered", env |-> req[c].env, reply |-> r]]
  BY DEF Answer
<1> HIDE DEF r
<1>6. [pc |-> "answered", env |-> req[c].env, reply |-> r] \in ReqType
  BY <1>2, <1>4 DEF ReqType, Answered
<1>7. QED
  BY <1>4, <1>5, <1>6 DEF ServingOK, ServingTyped

\* A reply to a request that is answered on the event loop: no prediction was
\* asked for, or the request was refused, or there is no model to be ready.
LEMMA ImmediateReply ==
  ASSUME ServingTyped, NEW e \in Envs, NEW q, q.path \in Paths, q.index \in Counter,
         q.before \in Counter, NEW status \in {200, 413, 422, 503}, NEW failing \in BOOLEAN,
         q.path = "predict" => status \in {413, 422}, q.path = "ready" => status = 503
  PROVE  LET r == [Reply(e, q, status, "none", Unasked) EXCEPT !.health = Status(image, failing)]
         IN  r \in ReplyType /\ Honest(image, r) /\ r.kind = "none" /\ r.before = q.before
<1> DEFINE o == Reply(e, q, status, "none", Unasked)
           r == [o EXCEPT !.health = Status(image, failing)]
<1>1. o \in ReplyType /\ Honest(image, o) /\ o.kind = "none" /\ o.before = q.before
  <2>1. Unasked \in AskedType
    BY DEF Unasked, AskedType, Asked
  <2>2. Justified(q.path, status, "none", Unasked)
    BY DEF Justified
  <2>3. QED
    BY <2>1, <2>2, ReplyIs
<1>2. /\ Status(image, failing) \in {"ok", "degraded", "unavailable"}
      /\ Status(image, failing) = "ok" => Kind(image) = "model" /\ ~ReleaseError(image)
  BY ServingAssumption, StatusIs DEF ServingTyped
<1> HIDE DEF o
<1>3. /\ r \in ReplyType /\ r.health = Status(image, failing)
      /\ r.path = o.path /\ r.asked = o.asked
      /\ r.kind = o.kind /\ r.status = o.status /\ r.version = o.version
      /\ r.release = o.release /\ r.before = o.before
  BY <1>1, <1>2 DEF ReplyType
<1> HIDE DEF r
<1>4. Honest(image, r)
  BY <1>1, <1>2, <1>3 DEF Honest, HonestAnswer
<1>5. QED
  BY <1>1, <1>3, <1>4 DEF r, o

LEMMA InLineKept ==
  ASSUME NEW S, NEW line \in Seq(S), NEW c \in S, NEW d
  PROVE  /\ Append(line, c) \in Seq(S) /\ Waits(c, Append(line, c))
         /\ Waits(d, line) => Waits(d, Append(line, c))
         /\ Waits(d, line) => line # <<>> /\ Tail(line) \in Seq(S)
         /\ Waits(d, line) /\ d # Head(line) => Waits(d, Tail(line))
<1>1. Len(line) \in Nat
  BY LenProperties
<1>2. /\ Append(line, c) \in Seq(S) /\ Len(Append(line, c)) = Len(line) + 1
      /\ \A i \in 1..Len(line) : Append(line, c)[i] = line[i]
      /\ Append(line, c)[Len(line) + 1] = c
  BY AppendProperties
<1>3. Waits(c, Append(line, c))
  BY <1>1, <1>2 DEF Waits
<1>4. Waits(d, line) => Waits(d, Append(line, c))
  <2>1. \A i \in 1..Len(line) : i \in 1..Len(Append(line, c))
    BY <1>1, <1>2
  <2>2. QED
    BY <1>2, <2>1 DEF Waits
<1>5. Waits(d, line) => line # <<>>
  <2>1. line = <<>> => Len(line) = 0
    OBVIOUS
  <2>2. QED
    BY <2>1 DEF Waits
<1>6. line # <<>> => /\ Tail(line) \in Seq(S) /\ Len(Tail(line)) = Len(line) - 1
                     /\ Head(line) = line[1] /\ \A i \in 1..Len(Tail(line)) : Tail(line)[i] = line[i + 1]
  BY HeadTailProperties
<1>7. Waits(d, line) /\ d # Head(line) => Waits(d, Tail(line))
  <2>1. SUFFICES ASSUME Waits(d, line), d # Head(line) PROVE Waits(d, Tail(line))
    OBVIOUS
  <2>2. PICK i \in 1..Len(line) : line[i] = d
    BY <2>1 DEF Waits
  <2>3. i # 1
    BY <1>5, <1>6, <2>1, <2>2
  <2>4. i - 1 \in 1..Len(Tail(line)) /\ Tail(line)[i - 1] = d
    BY <1>1, <1>5, <1>6, <2>1, <2>2, <2>3
  <2>5. QED
    BY <2>4 DEF Waits
<1>8. QED
  BY <1>2, <1>3, <1>4, <1>5, <1>6, <1>7

-----------------------------------------------------------------------------
(* The service keeps its invariant, whatever is asked of it. *)

LEMMA ReceiveKeeps ==
  ASSUME ServingOK, NEW c \in Clients, Receive(c)
  PROVE  ServingOK' /\ req'[c] = Idle /\ \A d \in Clients \ {c} : req'[d] = req[d]
<1>1. /\ req' \in [Clients -> ReqType] /\ req'[c] = Idle
      /\ \A d \in Clients \ {c} : req'[d] = req[d]
  BY DEF ServingOK, ServingTyped, ReqType, Receive
<1>2. Idle.pc = "idle"
  BY DEF Idle
<1>3. ServingTyped' /\ Invoked'
  BY <1>1 DEF ServingOK, ServingTyped, Receive, Invoked
<1>4. InLine'
  BY <1>1, <1>2 DEF ServingOK, InLine, Receive
<1>5. Answers'
  BY <1>1, <1>2 DEF ServingOK, Answers, Receive
<1>6. QED
  BY <1>1, <1>3, <1>4, <1>5 DEF ServingOK

LEMMA EnterKeeps ==
  ASSUME ServingOK, generation \in 0..2, NEW e \in Envs, NEW path, Enter(e, path)
  PROVE  /\ env' \in [Envs -> EnvType] /\ Invoked'
         /\ Process(e).seen \in Counter /\ Process(e).invokes \in Counter
         /\ Process(e).invokes = 0 => ~env[e].up
<1> DEFINE p == Process(e)
           seen == IF lambda /\ path = "live" THEN p.seen ELSE Count(p.seen)
<1>1. Down \in EnvType
  BY Bounds DEF Down, EnvType
<1>2. env[e] \in EnvType /\ env \in [Envs -> EnvType]
  BY DEF ServingOK, ServingTyped
<1>3. [Down EXCEPT !.up = TRUE, !.generation = generation] \in EnvType
  BY <1>1 DEF EnvType
<1>4. p \in EnvType
  BY <1>2, <1>3 DEF Process
<1>5. p.invokes = 0 => ~env[e].up
  BY DEF Process, ServingOK, Invoked
<1>6. env' = [env EXCEPT ![e] = [p EXCEPT !.invokes = Count(p.invokes), !.seen = seen]]
  BY DEF Enter
<1> HIDE DEF p
<1>7. /\ p.seen \in Counter /\ p.invokes \in Counter /\ seen \in Counter
      /\ Count(p.invokes) \in Counter /\ Count(p.invokes) > 0
  BY <1>4, Bounds DEF EnvType
<1> HIDE DEF seen
<1>8. /\ [p EXCEPT !.invokes = Count(p.invokes), !.seen = seen] \in EnvType
      /\ [p EXCEPT !.invokes = Count(p.invokes), !.seen = seen].invokes = Count(p.invokes)
  BY <1>4, <1>7 DEF EnvType
<1>9. env' \in [Envs -> EnvType] /\ Invoked'
  BY <1>2, <1>6, <1>7, <1>8 DEF ServingOK, Invoked
<1>10. QED
  BY <1>5, <1>7, <1>9 DEF p

LEMMA SendKeeps ==
  ASSUME ServingOK, generation \in 0..2, NEW c \in Clients, NEW e \in Envs,
         NEW path \in Paths, NEW body \in Bodies, Send(c, e, path, body)
  PROVE  /\ ServingOK' /\ \A d \in Clients \ {c} : req'[d] = req[d]
         /\ Immediate(path, body) # 0 =>
              /\ req'[c].pc = "answered" /\ req'[c].reply.kind = "none"
              /\ req'[c].reply.before = 0 => ~env[e].up
<1> DEFINE r == Arriving(e, path)
           status == Immediate(path, body)
           failing == env[e].up /\ env[e].failing
           reply == [Reply(e, r, status, "none", Unasked) EXCEPT !.health = Status(image, failing)]
<1>1. /\ env' \in [Envs -> EnvType] /\ Invoked'
      /\ Process(e).seen \in Counter /\ Process(e).invokes \in Counter
      /\ Process(e).invokes = 0 => ~env[e].up
  BY EnterKeeps DEF Send
<1>2. /\ r.path = path /\ r.index \in Counter /\ r.before \in Counter /\ r.pc = "queued" /\ r.env = e
      /\ r.before = 0 => ~env[e].up
  BY <1>1 DEF Arriving
<1>3. path \in {"ready", "predict"} => r \in ReqType
  BY <1>1 DEF Arriving, ReqType, Queued
<1>4. /\ status \in {0, 200, 413, 422, 503} /\ (status = 0 => path \in {"ready", "predict"})
      /\ path = "predict" => status \in {0, 413, 422}
      /\ path = "ready" => status \in {0, 503}
  BY DEF Immediate, Paths, TooLarge, Unprocessable
<1>5. failing \in BOOLEAN
  BY DEF ServingOK, ServingTyped, EnvType
<1>6. /\ req \in [Clients -> ReqType] /\ queue \in [Envs -> Seq(Clients)] /\ image' = image
      /\ \A d \in Clients : req[d].pc = "queued" => req[d].env \in Envs
  <2>1. \A d \in Clients : req[d].pc = "queued" => req[d].env \in Envs
    BY ReqFields DEF ServingOK, ServingTyped, Queued
  <2>2. QED
    BY <2>1 DEF ServingOK, ServingTyped, Send
<1>7. CASE status # 0
  <2>1. /\ reply \in ReplyType /\ Honest(image, reply) /\ reply.kind = "none" /\ reply.before = r.before
    <3>1. /\ status \in {200, 413, 422, 503} /\ ServingTyped /\ path \in Paths
          /\ path = "predict" => status \in {413, 422}
          /\ path = "ready" => status = 503
      BY <1>4, <1>7 DEF ServingOK
    <3> HIDE DEF r, status, failing
    <3>2. QED
      BY <1>2, <1>5, <3>1, ImmediateReply
  <2>2. /\ req' = [req EXCEPT ![c] = [pc |-> "answered", env |-> e, reply |-> reply]]
        /\ queue' = queue
    BY <1>7 DEF Send
  <2> HIDE DEF reply
  <2>3. [pc |-> "answered", env |-> e, reply |-> reply] \in ReqType
    BY <2>1 DEF ReqType, Answered
  <2>4. /\ req' \in [Clients -> ReqType] /\ \A d \in Clients \ {c} : req'[d] = req[d]
        /\ req'[c].pc = "answered" /\ req'[c].reply = reply
    BY <1>6, <2>2, <2>3
  <2>5. ServingTyped'
    BY <1>1, <2>2, <2>4 DEF ServingOK, ServingTyped, Send
  <2>6. InLine'
    BY <2>2, <2>4 DEF ServingOK, InLine
  <2>7. Answers'
    BY <1>6, <2>1, <2>4 DEF ServingOK, Answers
  <2>8. QED
    BY <1>1, <1>2, <2>1, <2>4, <2>5, <2>6, <2>7 DEF ServingOK
<1>8. CASE status = 0
  <2> DEFINE new == IF body = "cut" THEN Idle ELSE r
             line == IF body = "cut" THEN queue[e] ELSE Append(queue[e], c)
  <2>1. req' = [req EXCEPT ![c] = new] /\ queue' = [queue EXCEPT ![e] = line]
    BY <1>8 DEF Send
  <2>2. new \in ReqType /\ new.pc \in {"idle", "queued"} /\ (new.pc = "queued" => new = r /\ body # "cut")
    BY <1>2, <1>3, <1>4, <1>8 DEF ReqType, Idle
  <2>3. /\ line \in Seq(Clients) /\ (body # "cut" => Waits(c, line))
        /\ \A d : Waits(d, queue[e]) => Waits(d, line)
    BY <1>6, InLineKept
  <2> HIDE DEF new, line
  <2>4. /\ req' \in [Clients -> ReqType] /\ \A d \in Clients \ {c} : req'[d] = req[d]
        /\ req'[c] = new /\ queue' \in [Envs -> Seq(Clients)]
        /\ queue'[e] = line /\ \A f \in Envs \ {e} : queue'[f] = queue[f]
    BY <1>6, <2>1, <2>2, <2>3
  <2>5. ServingTyped'
    BY <1>1, <2>4 DEF ServingOK, ServingTyped, Send
  <2>6. ASSUME NEW d \in Clients, req'[d].pc = "queued" PROVE Waits(d, queue'[req'[d].env])
    <3>1. CASE d = c
      BY <1>2, <2>2, <2>3, <2>4, <2>6, <3>1
    <3>2. CASE d # c
      <4>1. req'[d] = req[d] /\ req[d].env \in Envs /\ Waits(d, queue[req[d].env])
        BY <1>6, <2>4, <2>6, <3>2 DEF ServingOK, InLine
      <4>2. QED
        BY <2>3, <2>4, <4>1
    <3>3. QED
      BY <3>1, <3>2
  <2>7. Answers'
    BY <1>6, <2>2, <2>4 DEF ServingOK, Answers
  <2>8. QED
    BY <1>1, <1>8, <2>4, <2>5, <2>6, <2>7 DEF ServingOK, InLine
<1>9. QED
  BY <1>7, <1>8

\* A request that is not in the server is not the server's to change.
SettledStay == \A d \in Clients : req[d].pc \in {"idle", "answered"} => req'[d] = req[d]

LEMMA InServerTyped ==
  ASSUME ServingOK, NEW c \in Clients, req[c].pc \in InServer
  PROVE  /\ req \in [Clients -> ReqType] /\ req[c] \in Queued \cup Computed
         /\ req[c].pc \in {"queued", "running"} => req[c] \in Queued
         /\ req[c].pc \in {"computed", "failed"} => req[c] \in Computed
         /\ req[c].env \in Envs /\ req[c].index \in Counter /\ req[c].before \in Counter
<1>1. req[c] \in ReqType /\ req \in [Clients -> ReqType]
  BY DEF ServingOK, ServingTyped
<1>2. QED
  BY <1>1, ReqFields DEF InServer, Queued, Computed

LEMMA StartKeeps ==
  ASSUME ServingOK, NEW c \in Clients, Start(c)
  PROVE  ServingOK' /\ SettledStay
<1> DEFINE e == req[c].env
<1>1. /\ req[c] \in Queued /\ e \in Envs /\ req[c].pc = "queued" /\ req \in [Clients -> ReqType]
  BY InServerTyped DEF Start, InServer
<1>2. [req[c] EXCEPT !.pc = "running"] \in ReqType /\ [req[c] EXCEPT !.pc = "running"].pc = "running"
  BY <1>1 DEF Queued, ReqType
<1>3. req' = [req EXCEPT ![c] = [req[c] EXCEPT !.pc = "running"]]
  BY DEF Start
<1>4. /\ req' \in [Clients -> ReqType] /\ req'[c].pc = "running"
      /\ \A d \in Clients \ {c} : req'[d] = req[d]
  BY <1>1, <1>2, <1>3
<1>5. Waits(c, queue[e]) /\ Head(queue[e]) = c /\ queue \in [Envs -> Seq(Clients)]
  BY <1>1 DEF ServingOK, ServingTyped, InLine, Start
<1>6. /\ Tail(queue[e]) \in Seq(Clients)
      /\ \A d \in Clients \ {c} : Waits(d, queue[e]) => Waits(d, Tail(queue[e]))
  BY <1>1, <1>5, InLineKept
<1>7. queue' = [queue EXCEPT ![e] = Tail(queue[e])]
  BY DEF Start
<1>8. /\ queue' \in [Envs -> Seq(Clients)]
      /\ \A f \in Envs, d \in Clients \ {c} : Waits(d, queue[f]) => Waits(d, queue'[f])
  BY <1>1, <1>5, <1>6, <1>7
<1>9. ServingTyped' /\ Invoked'
  BY <1>4, <1>8 DEF ServingOK, ServingTyped, Start, Invoked
<1>10. InLine'
  <2>1. SUFFICES ASSUME NEW d \in Clients, req'[d].pc = "queued" PROVE Waits(d, queue'[req'[d].env])
    BY DEF InLine
  <2>2. d # c /\ req'[d] = req[d] /\ Waits(d, queue[req[d].env])
    BY <1>4, <2>1 DEF ServingOK, InLine
  <2>3. req[d].env \in Envs
    BY <2>1, <2>2, InServerTyped DEF InServer
  <2>4. QED
    BY <1>8, <2>2, <2>3
<1>11. Answers'
  BY <1>4 DEF ServingOK, Answers, Start
<1>12. SettledStay
  BY <1>1, <1>4 DEF SettledStay
<1>13. QED
  BY <1>9, <1>10, <1>11, <1>12 DEF ServingOK

\* A request that runs becomes another one that is not in line.
LEMMA RunningKeeps ==
  ASSUME ServingOK, NEW c \in Clients, req[c].pc \in InServer \ {"queued"},
         UNCHANGED <<image, lambda, queue, crashes>>,
         env' \in [Envs -> EnvType], \A e \in Envs : env'[e].up = env[e].up /\ env'[e].invokes = env[e].invokes,
         latest' \in [Envs -> Outcomes],
         req' \in [Clients -> ReqType], \A d \in Clients \ {c} : req'[d] = req[d],
         req'[c].pc # "queued",
         req'[c].pc = "answered" => Honest(image, req'[c].reply),
         req'[c].pc \in {"computed", "failed"} => Kind(image) = "model",
         req'[c].pc = "failed" => req'[c].outcome = "fails"
  PROVE  ServingOK' /\ SettledStay
<1>1. ServingTyped'
  BY DEF ServingOK, ServingTyped
<1>2. InLine'
  BY DEF ServingOK, InLine
<1>3. Answers'
  BY DEF ServingOK, Answers
<1>4. Invoked'
  BY DEF ServingOK, Invoked
<1>5. SettledStay
  BY DEF SettledStay, InServer
<1>6. QED
  BY <1>1, <1>2, <1>3, <1>4, <1>5 DEF ServingOK

LEMMA PredictKeeps ==
  ASSUME ServingOK, NEW c \in Clients, NEW outcome \in Outcomes, Predict(c, outcome)
  PROVE  ServingOK' /\ SettledStay
<1> DEFINE e == req[c].env
           r == [pc |-> "computed", env |-> e, path |-> req[c].path, index |-> req[c].index,
                 before |-> req[c].before, outcome |-> outcome]
<1>1. /\ req[c].pc = "running" /\ req[c] \in Queued /\ e \in Envs /\ req \in [Clients -> ReqType]
      /\ Kind(image) = "model"
  BY InServerTyped DEF Predict, InServer
<1>2. r \in ReqType /\ r.pc = "computed"
  BY <1>1 DEF Queued, Computed, ReqType
<1>3. req' = [req EXCEPT ![c] = r] /\ latest' = [latest EXCEPT ![e] = outcome]
  BY DEF Predict
<1> HIDE DEF r, e
<1>4. /\ req' \in [Clients -> ReqType] /\ req'[c] = r /\ \A d \in Clients \ {c} : req'[d] = req[d]
      /\ latest' \in [Envs -> Outcomes]
  BY <1>1, <1>2, <1>3 DEF ServingOK, ServingTyped
<1>5. env' = env /\ UNCHANGED <<image, lambda, queue, crashes>> /\ env \in [Envs -> EnvType]
  BY DEF Predict, ServingOK, ServingTyped
<1>6. QED
  BY <1>1, <1>2, <1>4, <1>5, RunningKeeps DEF InServer

LEMMA RecordKeeps ==
  ASSUME ServingOK, NEW c \in Clients, Record(c)
  PROVE  ServingOK' /\ SettledStay
<1> DEFINE e == req[c].env
           ok == req[c].outcome = "ok"
<1>1. /\ req[c].pc = "computed" /\ req[c] \in Computed /\ e \in Envs /\ req \in [Clients -> ReqType]
      /\ Kind(image) = "model" /\ req[c].path \in {"ready", "predict"}
  BY InServerTyped DEF Record, InServer, Computed, ServingOK, Answers
<1>2. env' = [env EXCEPT ![e] = [env[e] EXCEPT !.failing = ~ok]] /\ ok \in BOOLEAN
  BY DEF Record
<1>3. /\ env' \in [Envs -> EnvType]
      /\ \A f \in Envs : env'[f].up = env[f].up /\ env'[f].invokes = env[f].invokes
  <2>1. env \in [Envs -> EnvType]
    BY DEF ServingOK, ServingTyped
  <2>2. [env[e] EXCEPT !.failing = ~ok] \in EnvType
    BY <1>1, <1>2, <2>1 DEF EnvType
  <2>3. QED
    BY <1>1, <1>2, <2>1, <2>2 DEF EnvType
<1>4. UNCHANGED <<image, lambda, queue, crashes>> /\ latest' \in [Envs -> Outcomes]
  BY DEF Record, ServingOK, ServingTyped
<1>5. CASE ok
  <2> DEFINE asked == [Unasked EXCEPT !.model = "ok"]
  <2>1. /\ Answer(c, "model", asked) /\ asked \in AskedType /\ AnsweredBy(asked) = "model"
    BY <1>1, <1>5 DEF Record, Unasked, AskedType, Asked, AnsweredBy
  <2> HIDE DEF asked
  <2>2. /\ req' \in [Clients -> ReqType] /\ \A d \in Clients \ {c} : req'[d] = req[d]
        /\ req'[c].pc = "answered" /\ Honest(image, req'[c].reply)
    BY <1>1, <2>1, AnswerKeeps DEF InServer
  <2>3. QED
    BY <1>1, <1>3, <1>4, <2>2, RunningKeeps DEF InServer
<1>6. CASE ~ok
  <2>1. req' = [req EXCEPT ![c] = [req[c] EXCEPT !.pc = "failed"]]
    BY <1>6 DEF Record
  <2>2. [req[c] EXCEPT !.pc = "failed"] \in ReqType /\ [req[c] EXCEPT !.pc = "failed"].pc = "failed"
    BY <1>1 DEF Computed, ReqType
  <2>3. /\ req' \in [Clients -> ReqType] /\ \A d \in Clients \ {c} : req'[d] = req[d]
        /\ req'[c].pc = "failed" /\ req'[c].outcome = "fails"
    BY <1>1, <1>6, <2>1, <2>2 DEF Computed, Outcomes
  <2>4. QED
    BY <1>1, <1>3, <1>4, <2>3, RunningKeeps DEF InServer
<1>7. QED
  BY <1>5, <1>6

LEMMA FallbackKeeps ==
  ASSUME ServingOK, NEW c \in Clients, NEW ok \in BOOLEAN, AnswerFallback(c, ok)
  PROVE  ServingOK' /\ SettledStay
<1>1. req[c].pc \in InServer \ {"queued"}
  BY DEF AnswerFallback, NeedsFallback, InServer
<1>2. /\ req' \in [Clients -> ReqType] /\ \A d \in Clients \ {c} : req'[d] = req[d]
      /\ req'[c].pc = "answered" /\ Honest(image, req'[c].reply)
  <2> DEFINE kind == IF ok THEN "fallback" ELSE "none"
             asked == AskedBoth(c, ok)
  <2>1. Answer(c, kind, asked) /\ kind \in {"model", "fallback", "none"}
    BY DEF AnswerFallback
  <2>2. asked \in AskedType /\ asked.model # "ok" /\ kind = AnsweredBy(asked)
    <3>1. req[c].pc = "failed" => req[c].outcome = "fails"
      BY DEF ServingOK, Answers
    <3>2. QED
      BY <3>1 DEF AskedBoth, AskedType, Asked, AnsweredBy
  <2>3. Kind(image) = "model" => asked.model = "fails"
    BY DEF AnswerFallback, NeedsFallback, AskedBoth, ServingOK, Answers
  <2> HIDE DEF kind, asked
  <2>4. QED
    BY <1>1, <2>1, <2>2, <2>3, AnswerKeeps
<1>3. /\ env' = env /\ latest' = latest /\ UNCHANGED <<image, lambda, queue, crashes>>
      /\ env \in [Envs -> EnvType] /\ latest \in [Envs -> Outcomes]
  BY DEF AnswerFallback, ServingOK, ServingTyped
<1>4. QED
  BY <1>1, <1>2, <1>3, RunningKeeps

LEMMA ReclaimKeeps ==
  ASSUME ServingOK, NEW e \in Envs, Reclaim(e)
  PROVE  ServingOK' /\ SettledStay
<1>1. Down \in EnvType /\ ~Down.up
  BY Bounds DEF Down, EnvType
<1>2. env' \in [Envs -> EnvType] /\ latest' \in [Envs -> Outcomes] /\ Invoked'
  BY <1>1 DEF ServingOK, ServingTyped, Reclaim, Invoked, Outcomes
<1>3. UNCHANGED <<image, lambda, queue, req, crashes>>
  BY DEF Reclaim
<1>4. ServingTyped' /\ InLine'
  BY <1>2, <1>3 DEF ServingOK, ServingTyped, InLine
<1>5. Answers'
  BY <1>3 DEF ServingOK, Answers
<1>6. QED
  BY <1>2, <1>3, <1>4, <1>5 DEF ServingOK, SettledStay

LEMMA CrashKeeps ==
  ASSUME ServingOK, NEW e \in Envs, Crash(e)
  PROVE  ServingOK' /\ SettledStay
<1>1. /\ env \in [Envs -> EnvType] /\ queue \in [Envs -> Seq(Clients)]
      /\ req \in [Clients -> ReqType] /\ latest \in [Envs -> Outcomes] /\ crashes \in 0..MaxCrashes
      /\ UNCHANGED <<image, lambda>>
  BY DEF ServingOK, ServingTyped, Crash
<1>2. /\ env' \in [Envs -> EnvType]
      /\ \A f \in Envs : env'[f].up = env[f].up /\ env'[f].invokes = env[f].invokes
  <2>1. env' = [env EXCEPT ![e] = [env[e] EXCEPT !.seen = 0, !.failing = FALSE]]
    BY DEF Crash
  <2>2. [env[e] EXCEPT !.seen = 0, !.failing = FALSE] \in EnvType
    BY <1>1, Bounds DEF EnvType
  <2>3. QED
    BY <1>1, <2>1, <2>2 DEF EnvType
<1>3. /\ queue' \in [Envs -> Seq(Clients)] /\ latest' \in [Envs -> Outcomes]
      /\ crashes' \in 0..MaxCrashes
      /\ \A f \in Envs \ {e} : queue'[f] = queue[f]
  <2>1. <<>> \in Seq(Clients)
    BY EmptySeq
  <2>2. QED
    BY <1>1, <2>1, ServingAssumption DEF Crash, Outcomes
<1>4. ASSUME NEW c \in Clients, c \in In(e)
      PROVE  /\ req'[c] \in ReqType /\ req'[c].pc = "answered" /\ Honest(image, req'[c].reply)
             /\ req[c].pc \in InServer
  <2>1. req[c].env = e /\ req[c].pc \in InServer
    BY <1>4 DEF In
  <2>2. req[c].index \in Counter /\ req[c].before \in Counter
    BY <2>1, InServerTyped
  <2> DEFINE r == Reply(e, req[c], 502, "none", Unasked)
  <2>3. r \in ReplyType /\ Honest(image, r)
    <3>1. /\ req[c].path \in Paths /\ Unasked \in AskedType /\ ServingTyped
          /\ Justified(req[c].path, 502, "none", Unasked)
      BY <2>1, InServerTyped DEF Queued, Computed, Paths, Unasked, AskedType, Asked, Justified, ServingOK
    <3>2. QED
      BY <2>2, <3>1, ReplyIs
  <2> HIDE DEF r
  <2>4. req'[c] = [pc |-> "answered", env |-> e, reply |-> r]
    BY <1>4 DEF Crash, r
  <2>5. QED
    BY <2>1, <2>3, <2>4 DEF ReqType, Answered
<1>5. \A c \in Clients \ In(e) : req'[c] = req[c]
  BY DEF Crash
<1>6. req' \in [Clients -> ReqType]
  <2>1. \A c \in Clients : req'[c] \in ReqType
    BY <1>1, <1>4, <1>5
  <2>2. \E f : req' = [c \in Clients |-> f[c]]
    <3>1. req' = [c \in Clients |-> req'[c]]
      BY DEF Crash
    <3>2. QED
      BY <3>1
  <2>3. QED
    BY <2>1, <2>2
<1>7. ServingTyped'
  BY <1>1, <1>2, <1>3, <1>6 DEF ServingOK, ServingTyped
<1>8. Invoked'
  BY <1>2 DEF ServingOK, Invoked
<1>9. InLine'
  <2>1. SUFFICES ASSUME NEW d \in Clients, req'[d].pc = "queued" PROVE Waits(d, queue'[req'[d].env])
    BY DEF InLine
  <2>2. d \notin In(e) /\ req'[d] = req[d]
    BY <1>4, <1>5, <2>1
  <2>3. req[d].env \in Envs /\ req[d].env # e
    BY <2>1, <2>2, InServerTyped DEF In, InServer
  <2>4. QED
    BY <1>3, <2>1, <2>2, <2>3 DEF ServingOK, InLine
<1>10. Answers'
  <2>1. ASSUME NEW c \in Clients
        PROVE  /\ req'[c].pc = "answered" => Honest(image, req'[c].reply)
               /\ req'[c].pc \in {"computed", "failed"} => Kind(image) = "model"
               /\ req'[c].pc = "failed" => req'[c].outcome = "fails"
    BY <1>4, <1>5 DEF ServingOK, Answers
  <2>2. QED
    BY <1>1, <2>1 DEF Answers
<1>11. SettledStay
  BY <1>4, <1>5 DEF SettledStay, InServer
<1>12. QED
  BY <1>7, <1>8, <1>9, <1>10, <1>11 DEF ServingOK

LEMMA ServerKeeps ==
  ASSUME ServingOK, ServerStep
  PROVE  ServingOK' /\ SettledStay /\ UNCHANGED generation
<1>1. CASE \E c \in Clients : Handle(c)
  <2>1. PICK c \in Clients : Handle(c)
    BY <1>1
  <2>2. CASE Start(c)
    BY <2>2, StartKeeps DEF Start
  <2>3. CASE \E outcome \in {"ok", "fails"} : Predict(c, outcome)
    <3>1. PICK outcome \in Outcomes : Predict(c, outcome)
      BY <2>3 DEF Outcomes
    <3>2. QED
      BY <3>1, PredictKeeps DEF Predict
  <2>4. CASE Record(c)
    BY <2>4, RecordKeeps DEF Record
  <2>5. CASE \E ok \in BOOLEAN : AnswerFallback(c, ok)
    <3>1. PICK ok \in BOOLEAN : AnswerFallback(c, ok)
      BY <2>5
    <3>2. QED
      BY <3>1, FallbackKeeps DEF AnswerFallback
  <2>6. QED
    BY <2>1, <2>2, <2>3, <2>4, <2>5 DEF Handle
<1>2. CASE \E e \in Envs : Crash(e) \/ Reclaim(e)
  <2>1. PICK e \in Envs : Crash(e) \/ Reclaim(e)
    BY <1>2
  <2>2. CASE Crash(e)
    BY <2>2, CrashKeeps DEF Crash
  <2>3. CASE Reclaim(e)
    BY <2>3, ReclaimKeeps DEF Reclaim
  <2>4. QED
    BY <2>1, <2>2, <2>3
<1>3. QED
  BY <1>1, <1>2 DEF ServerStep

-----------------------------------------------------------------------------
(* The check: what each of its steps may count on. *)

Steps  == {"recycle", "wait", "restore", "first", "platform", "over"} \cup DOMAIN Request
Probed == {"wait", "first", "restore"}

CheckTyped ==
    /\ generation \in 0..2 /\ cold \in BOOLEAN /\ force \in BOOLEAN
    /\ variables \in {"original", "probe"} /\ step \in Steps
    /\ row \in 0..Rows /\ first \in ReplyType \cup {None}
    /\ raised \in BOOLEAN /\ passing \in BOOLEAN /\ proven \in BOOLEAN
    /\ fault \in BOOLEAN /\ fresh \in BOOLEAN

\* The probe is set at most once, and taken back before anything else.
ProbeOK ==
    /\ step = "recycle" => generation = 0
    /\ step \in {"recycle", "wait"} => force
    /\ step \in Probed => generation <= 1
    /\ step # "over" => row < Rows
    /\ variables = "probe" /\ ~fault => force /\ step \in Probed

\* The reply to the cold request, on its way from the service to the evidence.
ColdReply(r) == r.before = 0 => fresh
ColdOK ==
    /\ step \in {"recycle", "wait", "platform"} => req[Checker].pc = "idle"
    /\ step = "first" =>
         req[Checker].pc \in {"idle", "answered"} /\ (req[Checker].pc = "answered" => ColdReply(req[Checker].reply))
    /\ step = "restore" /\ ~raised => req[Checker].pc = "idle" /\ ColdReply(first)
    /\ step = "platform" => ColdReply(first)
    /\ step \in Probed \cup {"recycle"} => ~proven
    /\ proven /\ passing => fresh

\* What a check that is still passing has seen.
AsExpected == image.release = Expected
Healthy    == Kind(image) = "model" /\ ~ReleaseError(image) /\ ModelVersion(image) = "champion"

SeenOK ==
    /\ step \in {"live", "version", "health"} =>
         req[Checker].pc \in {"idle", "answered"} /\ (req[Checker].pc = "answered" => req[Checker].reply.kind = "none")
    /\ passing /\ (step = "health" \/ (Over /\ ~raised) \/ step \in {"ready", "predict", "malformed", "fixture"})
         => AsExpected
    /\ passing /\ ((Over /\ ~raised) \/ step \in {"ready", "predict", "malformed", "fixture"})
         => Healthy

CheckOK == CheckTyped /\ ProbeOK /\ ColdOK /\ SeenOK

IInv == ServingOK /\ CheckOK

LEMMA RequestIs ==
  /\ DOMAIN Request = {"live", "version", "health", "ready", "predict", "malformed", "fixture"}
  /\ \A s \in DOMAIN Request : Request[s] \in Paths /\ Body(s) \in Bodies
  /\ \A s \in {"live", "version", "health"} : Immediate(Request[s], Body(s)) = 200
  BY DEF Request, Paths, Bodies, Body, Immediate, TooLarge, Unprocessable

\* What callers do to the service meanwhile leaves the check where it is.
LEMMA CheckWaits ==
  ASSUME CheckOK, UNCHANGED checkVars, generation' = generation, image' = image,
         req[Checker].pc \in {"idle", "answered"} => req'[Checker] = req[Checker]
  PROVE  CheckOK'
<1>1. CheckTyped'
  BY DEF CheckOK, CheckTyped, checkVars
<1>2. ProbeOK'
  BY DEF CheckOK, ProbeOK, checkVars
<1>3. ColdOK'
  BY DEF CheckOK, ColdOK, ColdReply, checkVars
<1>4. SeenOK'
  BY DEF CheckOK, SeenOK, AsExpected, Healthy, Over, checkVars
<1>5. QED
  BY <1>1, <1>2, <1>3, <1>4 DEF CheckOK

LEMMA OthersKeep ==
  ASSUME IInv, Others, UNCHANGED checkVars
  PROVE  IInv'
<1>1. PICK c \in Clients \ {Checker} :
        \/ \E e \in Envs, body \in Bodies \ {"malformed"} : ~Over /\ Send(c, e, "predict", body)
        \/ Receive(c)
  BY DEF Others
<1>2. Checker \in Clients /\ generation \in 0..2
  BY DeployCheckAssumption DEF IInv, CheckOK, CheckTyped
<1>3. CASE Receive(c)
  BY <1>2, <1>3, ReceiveKeeps, CheckWaits DEF IInv, Receive
<1>4. CASE \E e \in Envs, body \in Bodies \ {"malformed"} : Send(c, e, "predict", body)
  <2>1. PICK e \in Envs, body \in Bodies : Send(c, e, "predict", body)
    BY <1>4
  <2>2. "predict" \in Paths
    BY DEF Paths
  <2>3. ServingOK' /\ req'[Checker] = req[Checker]
    BY <1>2, <2>1, <2>2, SendKeeps DEF IInv
  <2>4. generation' = generation /\ image' = image
    BY <2>1 DEF Send
  <2>5. QED
    BY <2>3, <2>4, CheckWaits DEF IInv
<1>5. QED
  BY <1>1, <1>3, <1>4

LEMMA ServerKeepsCheck ==
  ASSUME IInv, ServerStep, UNCHANGED checkVars
  PROVE  IInv'
<1>1. ServingOK' /\ SettledStay /\ generation' = generation
  BY ServerKeeps DEF IInv
<1>2. image' = image
  BY DEF ServerStep, Handle, Start, Predict, Record, AnswerFallback, Crash, Reclaim
<1>3. QED
  BY <1>1, <1>2, CheckWaits, DeployCheckAssumption DEF IInv, SettledStay

LEMMA ServingUnchanged ==
  ASSUME ServingOK, UNCHANGED <<image, lambda, env, queue, req, latest, crashes>>
  PROVE  ServingOK'
  BY DEF ServingOK, ServingTyped, InLine, Answers, Invoked

LEMMA RecycleKeeps ==
  ASSUME IInv, Recycle \/ Wait
  PROVE  IInv'
<1>1. /\ ServingOK' /\ req' = req /\ image' = image
      /\ step \in {"recycle", "wait"} /\ step' \in {"wait", "first", "over"}
      /\ UNCHANGED <<cold, force, row, first, passing, proven, fresh>>
  BY ServingUnchanged DEF IInv, Recycle, Wait, Raise, servingVars
<1>2. CheckTyped'
  <2>1. /\ generation' \in 0..2 /\ variables' \in {"original", "probe"}
        /\ raised' \in BOOLEAN /\ fault' \in BOOLEAN
    <3>1. /\ generation \in 0..2 /\ variables \in {"original", "probe"}
          /\ raised \in BOOLEAN /\ fault \in BOOLEAN
          /\ step = "recycle" => generation = 0
      BY DEF IInv, CheckOK, CheckTyped, ProbeOK
    <3>2. CASE Recycle
      <4>1. CASE Reconfigure("probe") /\ UNCHANGED <<raised, fault>>
        BY <3>1, <3>2, <4>1 DEF Recycle, Reconfigure
      <4>2. CASE Raise /\ fault' = TRUE /\ UNCHANGED <<variables, generation>>
        BY <3>1, <4>2 DEF Raise
      <4>3. QED
        BY <3>2, <4>1, <4>2 DEF Recycle
    <3>3. CASE Wait
      BY <3>1, <3>3 DEF Wait, Raise, servingVars
    <3>4. QED
      BY <3>2, <3>3
  <2>2. QED
    BY <1>1, <2>1 DEF IInv, CheckOK, CheckTyped, Steps
<1>3. ProbeOK'
  <2>1. \/ Reconfigure("probe") /\ step = "recycle" /\ step' = "wait"
        \/ UNCHANGED <<variables, generation>> /\ (fault' \/ (step = "wait" /\ step' = "first" /\ fault' = fault))
    BY DEF Recycle, Wait, Raise, servingVars
  <2>2. force
    BY <1>1 DEF IInv, CheckOK, ProbeOK
  <2>3. QED
    BY <1>1, <2>1, <2>2 DEF IInv, CheckOK, CheckTyped, ProbeOK, Reconfigure, Probed
<1>4. ColdOK'
  BY <1>1 DEF IInv, CheckOK, ColdOK, ColdReply, Probed
<1>5. SeenOK'
  <2>1. step' = "over" => raised' = TRUE
    BY DEF Recycle, Wait, Raise
  <2>2. QED
    BY <1>1, <2>1 DEF SeenOK, Over
<1>6. QED
  BY <1>1, <1>2, <1>3, <1>4, <1>5 DEF IInv, CheckOK

LEMMA RestoreKeeps ==
  ASSUME IInv, Restore
  PROVE  IInv'
<1>1. /\ ServingOK' /\ req' = req /\ image' = image
      /\ step = "restore" /\ step' \in {"platform", "over"}
      /\ UNCHANGED <<cold, force, row, first, passing, proven, fresh>>
  BY ServingUnchanged DEF IInv, Restore, Raise
<1>2. /\ generation' \in {generation, generation + 1} /\ generation \in 0..2 /\ generation <= 1
      /\ variables' \in {"original", "probe"}
      /\ variables' = "probe" => fault'
      /\ raised' \in BOOLEAN /\ fault' \in BOOLEAN
      /\ step' = "over" => raised' = TRUE
      /\ step' = "platform" => ~raised
  BY <1>1 DEF IInv, CheckOK, CheckTyped, ProbeOK, Probed, Restore, Reconfigure, Raise
<1>3. CheckTyped' /\ ProbeOK'
  BY <1>1, <1>2 DEF IInv, CheckOK, CheckTyped, ProbeOK, Steps, Probed
<1>4. ColdOK'
  BY <1>1, <1>2 DEF IInv, CheckOK, ColdOK, ColdReply, Probed
<1>5. SeenOK'
  BY <1>1, <1>2 DEF SeenOK, Over
<1>6. QED
  BY <1>1, <1>3, <1>4, <1>5 DEF IInv, CheckOK

LEMMA PlatformKeeps ==
  ASSUME IInv, Platform
  PROVE  IInv'
<1>1. /\ ServingOK' /\ req' = req /\ image' = image /\ generation' = generation
      /\ step = "platform" /\ step' = "live" /\ first' = None
      /\ UNCHANGED <<cold, force, variables, row, raised, fault, fresh>>
  BY ServingUnchanged DEF IInv, Platform, servingVars
<1>2. /\ proven' \in BOOLEAN /\ passing' \in BOOLEAN
      /\ proven' /\ passing' => first.before = 0
  BY DEF IInv, CheckOK, CheckTyped, Platform, Cold
<1>3. CheckTyped' /\ ProbeOK'
  BY <1>1, <1>2, RequestIs DEF IInv, CheckOK, CheckTyped, ProbeOK, Steps, Probed
<1>4. ColdOK'
  BY <1>1, <1>2 DEF IInv, CheckOK, ColdOK, ColdReply, Probed
<1>5. SeenOK'
  BY <1>1 DEF IInv, CheckOK, ColdOK, SeenOK, Over
<1>6. QED
  BY <1>1, <1>3, <1>4, <1>5 DEF IInv, CheckOK

LEMMA AskFirstKeeps ==
  ASSUME IInv, NEW e \in Envs, AskFirst(e)
  PROVE  IInv'
<1>1. /\ step = "first" /\ Send(Checker, e, "version", "valid") /\ fresh' = ~env[e].up
      /\ UNCHANGED <<cold, force, variables, step, row, first, raised, passing, proven, fault>>
      /\ image' = image /\ generation' = generation
  BY DEF AskFirst, Send
<1>2. "version" \in Paths /\ "valid" \in Bodies /\ Immediate("version", "valid") # 0
  BY DEF Paths, Bodies, Immediate, TooLarge, Unprocessable
<1>3. /\ ServingOK' /\ req'[Checker].pc = "answered"
      /\ req'[Checker].reply.before = 0 => fresh'
  BY <1>1, <1>2, SendKeeps, DeployCheckAssumption DEF IInv, CheckOK, CheckTyped
<1>4. CheckTyped' /\ ProbeOK'
  BY <1>1 DEF IInv, CheckOK, CheckTyped, ProbeOK
<1>5. ColdOK'
  BY <1>1, <1>3 DEF IInv, CheckOK, ColdOK, ColdReply, Probed
<1>6. SeenOK'
  BY <1>1 DEF SeenOK, Over
<1>7. QED
  BY <1>3, <1>4, <1>5, <1>6 DEF IInv, CheckOK

LEMMA AskKeeps ==
  ASSUME IInv, NEW e \in Envs, Ask(e)
  PROVE  IInv'
<1>1. /\ step \in DOMAIN Request /\ Send(Checker, e, Request[step], Body(step))
      /\ UNCHANGED <<cold, force, variables, step, row, first, raised, passing, proven, fault, fresh>>
      /\ image' = image /\ generation' = generation
  BY DEF Ask, Send
<1>2. Request[step] \in Paths /\ Body(step) \in Bodies
  BY <1>1, RequestIs
<1>3. /\ ServingOK'
      /\ Immediate(Request[step], Body(step)) # 0 =>
           req'[Checker].pc = "answered" /\ req'[Checker].reply.kind = "none"
  BY <1>1, <1>2, SendKeeps, DeployCheckAssumption DEF IInv, CheckOK, CheckTyped
<1>4. CheckTyped' /\ ProbeOK'
  BY <1>1 DEF IInv, CheckOK, CheckTyped, ProbeOK
<1>5. ColdOK'
  BY <1>1, RequestIs DEF IInv, CheckOK, ColdOK, Probed
<1>6. SeenOK'
  BY <1>1, <1>3, RequestIs DEF IInv, CheckOK, SeenOK, Over, AsExpected, Healthy
<1>7. QED
  BY <1>3, <1>4, <1>5, <1>6 DEF IInv, CheckOK

\* What an accepted reply says of the image.
LEMMA AcceptedSays ==
  ASSUME ServingTyped, NEW r \in ReplyType, Honest(image, r)
  PROVE  /\ Accepts("version", r) => AsExpected
         /\ Accepts("health", r) /\ r.kind = "none" => Healthy
<1>1. Accepts("version", r) => r.release = Expected
  BY DEF Accepts
<1>2. r.release = ReleaseId(image) /\ Expected # Absent
  BY DeployCheckAssumption, PredictorAssumption DEF Honest
<1>3. Accepts("version", r) => AsExpected
  BY <1>1, <1>2 DEF ReleaseId, AsExpected
<1>4. Accepts("health", r) => r.health = "ok" /\ r.version = "champion"
  BY DEF Accepts
<1>5. QED
  BY <1>3, <1>4 DEF Honest, Healthy

LEMMA TakeKeeps ==
  ASSUME IInv, Take
  PROVE  IInv'
<1> DEFINE reply == req[Checker].reply
<1>1. /\ Asking /\ Receive(Checker) /\ Checker \in Clients /\ image' = image /\ generation' = generation
      /\ UNCHANGED <<cold, force, variables, raised, proven, fault, fresh>>
  BY DeployCheckAssumption DEF Take, Receive
<1>2. /\ ServingOK' /\ req'[Checker].pc = "idle" /\ req[Checker].pc = "answered"
  <2>1. ServingOK' /\ req'[Checker] = Idle
    BY <1>1, ReceiveKeeps DEF IInv
  <2>2. QED
    BY <1>1, <2>1 DEF Receive, Idle
<1>3. reply \in ReplyType /\ Honest(image, reply)
  <2>1. req[Checker] \in ReqType
    BY <1>1 DEF IInv, ServingOK, ServingTyped
  <2>2. QED
    BY <1>1, <1>2, <2>1, ReqFields DEF Answered, IInv, ServingOK, Answers
<1>4. /\ first' = IF step = "first" THEN reply ELSE first
      /\ passing' = (passing /\ (step = "first" \/ Accepts(step, reply)))
      /\ row' = IF step = "fixture" THEN row + 1 ELSE row
      /\ step' = CASE step = "first" -> AfterFirst(FALSE)
                   [] step = "fixture" -> IF row' < Rows THEN "fixture" ELSE "over"
                   [] OTHER -> Following[step]
  BY DEF Take
<1> HIDE DEF reply
<1>5. CASE step = "first"
  <2>1. /\ first' = reply /\ row' = row /\ (passing' = passing)
        /\ step' = IF force THEN "restore" ELSE "platform"
    BY <1>4, <1>5 DEF AfterFirst, IInv, CheckOK, CheckTyped
  <2>2. reply.before = 0 => fresh
    BY <1>2, <1>5 DEF IInv, CheckOK, ColdOK, ColdReply, reply
  <2>3. CheckTyped' /\ ProbeOK'
    BY <1>1, <1>3, <1>5, <2>1 DEF IInv, CheckOK, CheckTyped, ProbeOK, Steps, Probed
  <2>4. ColdOK'
    BY <1>1, <1>2, <1>5, <2>1, <2>2 DEF IInv, CheckOK, ColdOK, ColdReply, Probed
  <2>5. SeenOK'
    BY <2>1 DEF SeenOK, Over
  <2>6. QED
    BY <1>2, <2>3, <2>4, <2>5 DEF IInv, CheckOK
<1>6. CASE step \in DOMAIN Request
  <2>1. /\ first' = first /\ passing' \in BOOLEAN /\ (passing' => passing /\ Accepts(step, reply))
        /\ step # "first" /\ passing \in BOOLEAN
    BY <1>4, <1>6, RequestIs DEF IInv, CheckOK, CheckTyped
  <2>2. CASE step = "fixture"
    <3>1. /\ row' = row + 1 /\ row \in 0..Rows /\ row < Rows
          /\ step' = IF row + 1 < Rows THEN "fixture" ELSE "over"
      BY <1>4, <2>2 DEF IInv, CheckOK, CheckTyped, ProbeOK
    <3>2. CheckTyped' /\ ProbeOK'
      BY <1>1, <2>1, <2>2, <3>1, RequestIs, DeployCheckAssumption
         DEF IInv, CheckOK, CheckTyped, ProbeOK, Steps, Probed
    <3>3. ColdOK'
      BY <1>1, <2>1, <2>2, <3>1 DEF IInv, CheckOK, ColdOK, Probed
    <3>4. SeenOK'
      BY <1>1, <2>1, <2>2, <3>1 DEF IInv, CheckOK, SeenOK, Over, AsExpected, Healthy
    <3>5. QED
      BY <1>2, <3>2, <3>3, <3>4 DEF IInv, CheckOK
  <2>3. CASE step # "fixture"
    <3>1. /\ row' = row /\ step' = Following[step]
          /\ \/ step = "live" /\ step' = "version"
             \/ step = "version" /\ step' = "health"
             \/ step = "health" /\ step' = "ready"
             \/ step = "ready" /\ step' = "predict"
             \/ step = "predict" /\ step' = "malformed"
             \/ step = "malformed" /\ step' = "fixture"
      <4>1. row' = row /\ step' = Following[step]
        BY <1>4, <2>1, <2>3
      <4>2. QED
        BY <1>6, <2>3, <4>1, RequestIs DEF Following
    <3>2. CheckTyped' /\ ProbeOK'
      BY <1>1, <2>1, <3>1, RequestIs DEF IInv, CheckOK, CheckTyped, ProbeOK, Steps, Probed
    <3>3. ColdOK'
      BY <1>1, <2>1, <3>1 DEF IInv, CheckOK, ColdOK, Probed
    <3>4. step = "version" /\ passing' => AsExpected
      BY <1>3, <2>1, AcceptedSays DEF IInv, ServingOK
    <3>5. step = "health" /\ passing' => Healthy
      <4>1. step = "health" => reply.kind = "none"
        BY <1>2 DEF IInv, CheckOK, SeenOK, reply
      <4>2. QED
        BY <1>3, <2>1, <4>1, AcceptedSays DEF IInv, ServingOK
    <3>6. (AsExpected' <=> AsExpected) /\ (Healthy' <=> Healthy)
      BY <1>1 DEF AsExpected, Healthy
    <3>7. SeenOK'
      BY <1>1, <1>2, <2>1, <3>1, <3>4, <3>5, <3>6 DEF IInv, CheckOK, SeenOK, Over
    <3>8. QED
      BY <1>2, <3>2, <3>3, <3>7 DEF IInv, CheckOK
  <2>4. QED
    BY <2>2, <2>3
<1>7. QED
  BY <1>1, <1>5, <1>6 DEF Asking

LEMMA TimeOutKeeps ==
  ASSUME IInv, TimeOut
  PROVE  IInv'
<1>1. /\ ServingOK' /\ req' = req /\ image' = image /\ generation' = generation
      /\ Asking /\ raised' = TRUE
      /\ step' = IF step = "first" /\ force THEN "restore" ELSE "over"
      /\ UNCHANGED <<cold, force, variables, row, first, passing, proven, fault, fresh>>
  BY ServingUnchanged DEF IInv, TimeOut, AfterFirst, servingVars, CheckOK, CheckTyped
<1>2. step \in DOMAIN Request \cup {"first"}
  BY <1>1 DEF Asking
<1>3. CheckTyped' /\ ProbeOK'
  BY <1>1, <1>2, RequestIs DEF IInv, CheckOK, CheckTyped, ProbeOK, Steps, Probed
<1>4. ColdOK'
  BY <1>1 DEF IInv, CheckOK, ColdOK, Probed
<1>5. SeenOK'
  BY <1>1 DEF SeenOK, Over
<1>6. QED
  BY <1>1, <1>3, <1>4, <1>5 DEF IInv, CheckOK

-----------------------------------------------------------------------------
(* Theorems *)

LEMMA InitHolds ==
  ASSUME Init
  PROVE  IInv
<1>1. \A c \in Clients : req[c] = Idle
  BY DEF Init, ServingInit
<1>2. Idle \in ReqType /\ Idle.pc = "idle"
  BY DEF ReqType, Idle
<1>3. ServingTyped
  <2>1. Down \in EnvType
    BY Bounds DEF Down, EnvType
  <2>2. <<>> \in Seq(Clients)
    BY EmptySeq
  <2>3. QED
    BY <1>2, <2>1, <2>2, Bounds DEF Init, ServingInit, ServingTyped, Outcomes
<1>4. InLine /\ Answers /\ Invoked
  BY <1>1, <1>2 DEF InLine, Answers, Invoked, Init, ServingInit, Down
<1>5. step \in {"recycle", "first", "live"} /\ (step = "recycle" => force)
  BY DEF Init
<1>6. CheckTyped /\ ProbeOK
  <2>1. /\ generation = 0 /\ variables = "original" /\ row = 0 /\ first = None
        /\ cold \in BOOLEAN /\ force \in BOOLEAN
    BY DEF Init, ServingInit
  <2>2. raised \in BOOLEAN /\ passing \in BOOLEAN /\ proven \in BOOLEAN
        /\ fault \in BOOLEAN /\ fresh \in BOOLEAN
    BY DEF Init
  <2>3. step \in Steps /\ 0 < Rows /\ 0 \in 0..Rows
    BY <1>5, RequestIs, DeployCheckAssumption DEF Steps
  <2>4. CheckTyped
    BY <2>1, <2>2, <2>3 DEF CheckTyped
  <2>5. ProbeOK
    BY <1>5, <2>1, <2>3 DEF ProbeOK, Probed
  <2>6. QED
    BY <2>4, <2>5
<1>7. ColdOK /\ SeenOK
  BY <1>1, <1>2, <1>5, DeployCheckAssumption DEF ColdOK, SeenOK, Over, Probed, Init
<1>8. QED
  BY <1>3, <1>4, <1>6, <1>7 DEF IInv, ServingOK, CheckOK

LEMMA NextKeeps ==
  ASSUME IInv, [Next]_vars
  PROVE  IInv'
<1>1. CASE CheckStep
  <2>1. CASE Recycle \/ Wait
    BY <2>1, RecycleKeeps
  <2>2. CASE Restore \/ Platform \/ Take \/ TimeOut
    BY <2>2, RestoreKeeps, PlatformKeeps, TakeKeeps, TimeOutKeeps
  <2>3. CASE \E e \in Envs : AskFirst(e) \/ Ask(e)
    BY <2>3, AskFirstKeeps, AskKeeps
  <2>4. QED
    BY <1>1, <2>1, <2>2, <2>3 DEF CheckStep
<1>2. CASE Others /\ UNCHANGED checkVars
  BY <1>2, OthersKeep
<1>3. CASE ServerStep /\ UNCHANGED checkVars
  BY <1>3, ServerKeepsCheck
<1>4. CASE UNCHANGED vars
  <2>1. /\ ServingOK' /\ UNCHANGED checkVars
        /\ req' = req /\ image' = image /\ generation' = generation
    BY <1>4, ServingUnchanged DEF IInv, vars, servingVars
  <2>2. QED
    BY <2>1, CheckWaits DEF IInv
<1>5. QED
  BY <1>1, <1>2, <1>3, <1>4 DEF Next

\* The inductive invariant: replies are honest about the image, the check knows
\* where its own request is, and what passed so far was seen.
THEOREM ServingInvariant ==
  Spec => []IInv
<1>1. Init => IInv
  BY InitHolds
<1>2. IInv /\ [Next]_vars => IInv'
  BY NextKeeps
<1>3. QED
  BY <1>1, <1>2, PTL DEF Spec

\* Type correctness of the service and of its check (api/, deploy_check.py).
THEOREM ServingTypeCorrect ==
  Spec => []TypeOK
<1>1. IInv => TypeOK
  <2>1. SUFFICES ASSUME IInv PROVE TypeOK
    OBVIOUS
  <2>2. ASSUME NEW c \in Clients
        PROVE  \/ req[c] = Idle
               \/ req[c].pc = "answered" /\ req[c].env \in Envs /\ req[c].reply \in ReplyType
               \/ req[c].pc \in InServer /\ req[c].env \in Envs /\ req[c].path \in {"ready", "predict"}
    <3>1. req[c] \in ReqType
      BY <2>1 DEF IInv, ServingOK, ServingTyped
    <3>2. QED
      BY <3>1, ReqFields DEF Queued, Computed, Answered, InServer
  <2>3. QED
    BY <2>1, <2>2 DEF IInv, ServingOK, ServingTyped, CheckOK, CheckTyped, TypeOK, EnvType, Counter,
       Outcomes, Steps
<1>2. QED
  BY <1>1, ServingInvariant, PTL

\* api/deps.py, Predictor.predict: the kind and the version in every answer are
\* those of what computed it, and while a model is loaded the table's answer and
\* 503 follow its failure on that very request, whatever failed, died or was
\* asked in between.
THEOREM AnswersAreHonest ==
  Spec => []AnswerIsHonest
<1>1. IInv => AnswerIsHonest
  BY DEF IInv, ServingOK, Answers, Honest, AnswerIsHonest
<1>2. QED
  BY <1>1, ServingInvariant, PTL

\* scripts/deploy_check.py: a run that passed saw the expected release, healthy,
\* with the champion in it.
THEOREM PassedChecksSawTheRelease ==
  Spec => []CheckedIsServed
<1>1. IInv => CheckedIsServed
  <2>1. SUFFICES ASSUME IInv, Passed
        PROVE  /\ image.release = Expected /\ Kind(image) = "model" /\ ~ReleaseError(image)
               /\ ModelVersion(image) = "champion"
    BY DEF CheckedIsServed
  <2>2. AsExpected /\ Healthy
    BY <2>1 DEF IInv, CheckOK, SeenOK, Passed
  <2>3. QED
    BY <2>2 DEF AsExpected, Healthy
<1>2. QED
  BY <1>1, ServingInvariant, PTL

\* deploy_check.py --cold: both counts together prove a new environment, although
\* a restarted process and a reused environment each fool one of them.
THEOREM ColdStartsAreFirst ==
  Spec => []ColdIsFirst
<1>1. IInv => ColdIsFirst
  BY DEF IInv, CheckOK, ColdOK, ColdIsFirst, Passed
<1>2. QED
  BY <1>1, ServingInvariant, PTL

\* deploy_check.py --force-new-environment: whatever request or check fails, the
\* probe variable is removed unless a call to AWS failed.
THEOREM ProbesAreRemoved ==
  Spec => []ProbeRemoved
<1>1. IInv => ProbeRemoved
  BY DEF IInv, CheckOK, CheckTyped, ProbeOK, ProbeRemoved, Over, Probed
<1>2. QED
  BY <1>1, ServingInvariant, PTL

-----------------------------------------------------------------------------
(* With one worker the status is the latest outcome's. *)

Worked(r) == r.pc \in {"running", "computed", "failed"}

\* No outcome of e waits to be recorded.
Recorded(e) == \A c \in Clients : ~(req[c].pc = "computed" /\ req[c].env = e)

StatusOK ==
    /\ \A c \in Clients : req[c].pc \in InServer => env[req[c].env].up
    /\ \A c, d \in Clients : Worked(req[c]) /\ Worked(req[d]) /\ req[c].env = req[d].env => c = d
    /\ \A c \in Clients : req[c].pc = "computed" => latest[req[c].env] = req[c].outcome
    /\ \A e \in Envs : Recorded(e) => (env[e].failing <=> latest[e] = "fails")
    /\ \A e \in Envs : ~env[e].up => ~env[e].failing /\ latest[e] = "ok"

LEMMA StatusUnchanged ==
  ASSUME StatusOK, UNCHANGED <<env, req, latest>>
  PROVE  StatusOK'
  BY DEF StatusOK, Recorded, Worked

LEMMA ReceiveKeepsStatus ==
  ASSUME ServingOK, StatusOK, NEW c \in Clients, Receive(c)
  PROVE  StatusOK'
<1>1. /\ req'[c].pc = "idle" /\ req[c].pc = "answered" /\ env' = env /\ latest' = latest
      /\ \A d \in Clients \ {c} : req'[d] = req[d]
  BY DEF Receive, ServingOK, ServingTyped, Idle
<1>2. \A e \in Envs : Recorded(e)' => Recorded(e)
  BY <1>1 DEF Recorded
<1>3. QED
  BY <1>1, <1>2 DEF StatusOK, Worked, InServer

LEMMA SendKeepsStatus ==
  ASSUME ServingOK, generation \in 0..2, StatusOK, NEW c \in Clients, NEW e \in Envs,
         NEW path \in Paths, NEW body \in Bodies, Send(c, e, path, body)
  PROVE  StatusOK'
<1>1. /\ \A d \in Clients \ {c} : req'[d] = req[d]
      /\ latest' = latest /\ req[c].pc = "idle" /\ env \in [Envs -> EnvType]
      /\ req \in [Clients -> ReqType]
  BY SendKeeps DEF Send, ServingOK, ServingTyped
<1>2. req'[c].pc \in {"idle", "answered"} \/ (req'[c].pc = "queued" /\ req'[c].env = e)
  <2> DEFINE status == Immediate(path, body)
  <2>1. CASE status # 0
    BY <1>1, <2>1, SendKeeps
  <2>2. CASE status = 0
    <3>1. req'[c] = IF body = "cut" THEN Idle ELSE Arriving(e, path)
      BY <1>1, <2>2 DEF Send
    <3>2. QED
      BY <3>1 DEF Idle, Arriving
  <2>3. QED
    BY <2>1, <2>2
<1>3. /\ \A f \in Envs \ {e} : env'[f] = env[f]
      /\ env'[e].up = TRUE /\ (env'[e].failing <=> env[e].failing)
  <2> DEFINE p == Process(e)
             seen == IF lambda /\ path = "live" THEN p.seen ELSE Count(p.seen)
  <2>1. env' = [env EXCEPT ![e] = [p EXCEPT !.invokes = Count(p.invokes), !.seen = seen]]
    BY DEF Send, Enter
  <2>2. CASE env[e].up
    <3>1. p = env[e] /\ env[e] \in EnvType
      BY <1>1, <2>2 DEF Process
    <3> HIDE DEF p, seen
    <3>2. QED
      BY <1>1, <2>1, <2>2, <3>1 DEF EnvType
  <2>3. CASE ~env[e].up
    <3>1. p = [Down EXCEPT !.up = TRUE, !.generation = generation] /\ ~env[e].failing
      BY <2>3 DEF Process, StatusOK
    <3>2. p \in EnvType /\ p.up = TRUE /\ p.failing = FALSE
      BY <3>1, Bounds DEF Down, EnvType
    <3> HIDE DEF p, seen
    <3>3. QED
      BY <1>1, <2>1, <3>1, <3>2 DEF EnvType
  <2>4. QED
    BY <2>2, <2>3
<1>4. \A f \in Envs : Recorded(f)' => Recorded(f)
  BY <1>1 DEF Recorded
<1>5. \A d \in Clients : req[d].pc \in InServer => req[d].env \in Envs
  BY InServerTyped
<1>6. \A d \in Clients : req'[d].pc \in InServer => env'[req'[d].env].up
  BY <1>1, <1>2, <1>3, <1>5 DEF StatusOK, InServer
<1>7. \A d \in Clients : /\ Worked(req'[d]) => d # c /\ req'[d] = req[d]
                         /\ req'[d].pc = "computed" => d # c /\ req'[d] = req[d]
  BY <1>1, <1>2 DEF Worked
<1>8. \A f \in Envs : Recorded(f)' => (env'[f].failing <=> latest'[f] = "fails")
  BY <1>1, <1>3, <1>4 DEF StatusOK
<1>9. \A f \in Envs : ~env'[f].up => ~env'[f].failing /\ latest'[f] = "ok"
  BY <1>1, <1>3 DEF StatusOK
<1>10. QED
  BY <1>1, <1>6, <1>7, <1>8, <1>9 DEF StatusOK

LEMMA StartKeepsStatus ==
  ASSUME PredictWorkers = 1, ServingOK, StatusOK, NEW c \in Clients, Start(c)
  PROVE  StatusOK'
<1> DEFINE e == req[c].env
<1>1. /\ req[c] \in Queued /\ req[c].pc = "queued" /\ e \in Envs /\ req \in [Clients -> ReqType]
  BY InServerTyped DEF Start, InServer
<1>2. /\ req' = [req EXCEPT ![c] = [req[c] EXCEPT !.pc = "running"]]
      /\ env' = env /\ latest' = latest /\ Admits(e)
  BY DEF Start
<1>3. /\ req'[c].pc = "running" /\ req'[c].env = e /\ \A d \in Clients \ {c} : req'[d] = req[d]
  BY <1>1, <1>2 DEF Queued
<1>4. Working(e) = {}
  <2>1. IsFiniteSet(Working(e))
    <3>1. Working(e) \subseteq Clients
      BY DEF Working, In
    <3>2. QED
      BY <3>1, ServingAssumption, FS_Subset
  <2>2. Cardinality(Working(e)) \in Nat /\ Cardinality(Working(e)) < 1
    BY <1>2, <2>1, FS_CardinalityType DEF Admits
  <2>3. QED
    BY <2>1, <2>2, FS_EmptySet
<1>5. \A d \in Clients : ~(Worked(req[d]) /\ req[d].env = e)
  BY <1>4 DEF Working, In, Worked, InServer
<1>6. \A f \in Envs : Recorded(f)' => Recorded(f)
  BY <1>1, <1>3 DEF Recorded
<1>7. QED
  BY <1>1, <1>2, <1>3, <1>5, <1>6 DEF StatusOK, Worked, InServer

LEMMA PredictKeepsStatus ==
  ASSUME ServingOK, StatusOK, NEW c \in Clients, NEW outcome \in Outcomes, Predict(c, outcome)
  PROVE  StatusOK'
<1> DEFINE e == req[c].env
<1>1. /\ req[c].pc = "running" /\ e \in Envs /\ req \in [Clients -> ReqType]
      /\ latest \in [Envs -> Outcomes]
  BY InServerTyped DEF Predict, InServer, ServingOK, ServingTyped
<1>2. /\ env' = env /\ latest' = [latest EXCEPT ![e] = outcome]
      /\ req'[c].pc = "computed" /\ req'[c].env = e /\ req'[c].outcome = outcome
      /\ \A d \in Clients \ {c} : req'[d] = req[d]
  BY <1>1 DEF Predict
<1>3. \A d \in Clients \ {c} : Worked(req[d]) => req[d].env # e
  BY <1>1 DEF StatusOK, Worked
<1>4. \A d \in Clients \ {c} : req'[d].pc = "computed" => req[d].env # e /\ req[d].env \in Envs
  BY <1>2, <1>3, InServerTyped DEF Worked, InServer
<1>5. \A f \in Envs : Recorded(f)' => f # e /\ Recorded(f)
  BY <1>2 DEF Recorded
<1>6. /\ latest'[e] = outcome /\ \A f \in Envs \ {e} : latest'[f] = latest[f]
  BY <1>1, <1>2
<1>7. env[e].up
  BY <1>1 DEF StatusOK, InServer
<1>8. \A d \in Clients : req'[d].pc = "computed" => latest'[req'[d].env] = req'[d].outcome
  BY <1>1, <1>2, <1>4, <1>6 DEF StatusOK
<1>9. \A f \in Envs : Recorded(f)' => (env'[f].failing <=> latest'[f] = "fails")
  BY <1>2, <1>5, <1>6 DEF StatusOK
<1>10. \A f \in Envs : ~env'[f].up => ~env'[f].failing /\ latest'[f] = "ok"
  BY <1>2, <1>6, <1>7 DEF StatusOK
<1>11. QED
  BY <1>1, <1>2, <1>3, <1>7, <1>8, <1>9, <1>10 DEF StatusOK, Worked, InServer

\* A request whose outcome is recorded, or that has none, is answered or fails.
LEMMA AnswerKeepsStatus ==
  ASSUME ServingOK, StatusOK, NEW c \in Clients, NEW e \in Envs, req[c].env = e,
         Worked(req[c]), latest' = latest,
         \A d \in Clients \ {c} : req'[d] = req[d],
         req'[c].pc = "answered" \/ (req'[c].pc = "failed" /\ req'[c].env = e),
         \A f \in Envs \ {e} : env'[f] = env[f], env'[e].up = env[e].up,
         \/ req[c].pc = "computed" /\ (env'[e].failing <=> req[c].outcome = "fails")
         \/ req[c].pc # "computed" /\ env'[e].failing = env[e].failing
  PROVE  StatusOK'
<1>1. env[e].up
  BY DEF StatusOK, Worked, InServer
<1>2. \A d \in Clients \ {c} : Worked(req[d]) => req[d].env # e
  BY DEF StatusOK
<1>3. \A f \in Envs \ {e} : Recorded(f)' => Recorded(f)
  BY DEF Recorded
<1>4. \A d \in Clients : req'[d].pc = "computed" => d # c /\ req'[d] = req[d]
  OBVIOUS
<1>5. \A d \in Clients : Worked(req'[d]) => Worked(req[d]) /\ req'[d].env = req[d].env
  BY DEF Worked
<1>6. \A d \in Clients : req'[d].pc \in InServer => req[d].pc \in InServer /\ req'[d].env = req[d].env /\ req[d].env \in Envs
  BY InServerTyped DEF Worked, InServer
<1>7. env'[e].failing <=> latest'[e] = "fails"
  <2>1. CASE req[c].pc = "computed"
    BY <2>1 DEF StatusOK
  <2>2. CASE req[c].pc # "computed"
    <3>1. Recorded(e)
      BY <1>2, <2>2 DEF Recorded, Worked
    <3>2. QED
      BY <2>2, <3>1 DEF StatusOK
  <2>3. QED
    BY <2>1, <2>2
<1>8. \A f \in Envs : Recorded(f)' => (env'[f].failing <=> latest'[f] = "fails")
  BY <1>3, <1>7 DEF StatusOK
<1>9. \A f \in Envs : ~env'[f].up => ~env'[f].failing /\ latest'[f] = "ok"
  BY <1>1 DEF StatusOK
<1>10. \A d \in Clients : req'[d].pc \in InServer => env'[req'[d].env].up
  BY <1>6 DEF StatusOK
<1>11. QED
  BY <1>4, <1>5, <1>8, <1>9, <1>10 DEF StatusOK

LEMMA RecordKeepsStatus ==
  ASSUME ServingOK, StatusOK, NEW c \in Clients, Record(c)
  PROVE  StatusOK'
<1> DEFINE e == req[c].env
           ok == req[c].outcome = "ok"
<1>1. /\ req[c].pc = "computed" /\ req[c] \in Computed /\ e \in Envs /\ req \in [Clients -> ReqType]
      /\ env \in [Envs -> EnvType]
  BY InServerTyped DEF Record, InServer, ServingOK, ServingTyped
<1>2. /\ \A f \in Envs \ {e} : env'[f] = env[f]
      /\ env'[e].up = env[e].up /\ (env'[e].failing <=> ~ok)
  <2>1. env' = [env EXCEPT ![e] = [env[e] EXCEPT !.failing = ~ok]]
    BY DEF Record
  <2>2. env[e] \in EnvType
    BY <1>1
  <2>3. QED
    BY <1>1, <2>1, <2>2 DEF EnvType
<1>3. ~ok <=> req[c].outcome = "fails"
  BY <1>1 DEF Computed, Outcomes
<1>4. /\ \A d \in Clients \ {c} : req'[d] = req[d] /\ latest' = latest
      /\ req'[c].pc = "answered" \/ (req'[c].pc = "failed" /\ req'[c].env = e)
  <2>1. CASE ok
    BY <1>1, <2>1 DEF Record, Answer
  <2>2. CASE ~ok
    <3>1. req' = [req EXCEPT ![c] = [req[c] EXCEPT !.pc = "failed"]]
      BY <2>2 DEF Record
    <3>2. QED
      BY <1>1, <3>1 DEF Computed, Record
  <2>3. QED
    BY <2>1, <2>2
<1>5. Worked(req[c]) /\ latest' = latest
  BY <1>1 DEF Worked, Record
<1>6. QED
  BY <1>1, <1>2, <1>3, <1>4, <1>5, AnswerKeepsStatus

LEMMA FallbackKeepsStatus ==
  ASSUME ServingOK, StatusOK, NEW c \in Clients, NEW ok \in BOOLEAN, AnswerFallback(c, ok)
  PROVE  StatusOK'
<1>1. Worked(req[c]) /\ req[c].pc # "computed" /\ env' = env /\ latest' = latest
  BY DEF AnswerFallback, NeedsFallback, Worked
<1>2. req[c].env \in Envs /\ req \in [Clients -> ReqType]
  BY <1>1, InServerTyped DEF Worked, InServer
<1>3. /\ \A d \in Clients \ {c} : req'[d] = req[d]
      /\ req'[c].pc = "answered"
  BY <1>2 DEF AnswerFallback, Answer
<1>4. QED
  BY <1>1, <1>2, <1>3, AnswerKeepsStatus

LEMMA StopKeepsStatus ==
  ASSUME ServingOK, StatusOK, NEW e \in Envs, Crash(e) \/ Reclaim(e)
  PROVE  StatusOK'
<1>1. /\ env \in [Envs -> EnvType] /\ latest \in [Envs -> Outcomes]
      /\ \A d \in Clients : req[d].pc \in InServer => req[d].env \in Envs
  BY InServerTyped DEF ServingOK, ServingTyped
<1>2. /\ \A f \in Envs \ {e} : env'[f] = env[f]
      /\ ~env'[e].failing /\ \A f \in Envs \ {e} : latest'[f] = latest[f]
      /\ latest'[e] = "ok"
  <2>1. CASE Crash(e)
    <3>1. env' = [env EXCEPT ![e] = [env[e] EXCEPT !.seen = 0, !.failing = FALSE]]
          /\ latest' = [latest EXCEPT ![e] = "ok"] /\ env[e] \in EnvType
      BY <1>1, <2>1 DEF Crash
    <3>2. QED
      BY <1>1, <3>1 DEF EnvType
  <2>2. CASE Reclaim(e)
    BY <1>1, <2>2 DEF Reclaim, Down
  <2>3. QED
    BY <2>1, <2>2
<1>3. \A d \in Clients : \/ req'[d] = req[d] /\ ~(req[d].pc \in InServer /\ req[d].env = e)
                         \/ req'[d].pc = "answered"
  BY DEF Crash, Reclaim, In
<1>4. \A d \in Clients : req'[d].pc \in InServer => req'[d] = req[d] /\ req[d].env # e
  BY <1>3 DEF InServer
<1>5. \A f \in Envs \ {e} : Recorded(f)' => Recorded(f)
  <2>1. SUFFICES ASSUME NEW f \in Envs \ {e}, NEW d \in Clients, req[d].pc = "computed", req[d].env = f
                 PROVE  req'[d].pc = "computed" /\ req'[d].env = f
    BY DEF Recorded
  <2>2. d \notin In(e)
    BY <2>1 DEF In
  <2>3. req'[d] = req[d]
    BY <2>2 DEF Crash, Reclaim
  <2>4. QED
    BY <2>1, <2>3
<1>6. \A d \in Clients : req'[d].pc \in InServer => env'[req'[d].env].up
  BY <1>1, <1>2, <1>4 DEF StatusOK
<1>7. \A d \in Clients : Worked(req'[d]) => req'[d].pc \in InServer
  BY DEF Worked, InServer
<1>8. \A c, d \in Clients : Worked(req'[c]) /\ Worked(req'[d]) /\ req'[c].env = req'[d].env => c = d
  BY <1>4, <1>7 DEF StatusOK
<1>9. \A c \in Clients : req'[c].pc = "computed" => latest'[req'[c].env] = req'[c].outcome
  BY <1>1, <1>2, <1>4 DEF StatusOK, InServer
<1>10. \A f \in Envs : Recorded(f)' => (env'[f].failing <=> latest'[f] = "fails")
  BY <1>2, <1>5 DEF StatusOK
<1>11. \A f \in Envs : ~env'[f].up => ~env'[f].failing /\ latest'[f] = "ok"
  BY <1>2 DEF StatusOK
<1>12. QED
  BY <1>6, <1>8, <1>9, <1>10, <1>11 DEF StatusOK

LEMMA NextKeepsStatus ==
  ASSUME PredictWorkers = 1, IInv, StatusOK, [Next]_vars
  PROVE  StatusOK'
<1>1. ServingOK /\ generation \in 0..2 /\ Checker \in Clients
  BY DeployCheckAssumption DEF IInv, CheckOK, CheckTyped
<1>2. CASE Recycle \/ Wait \/ Restore \/ Platform \/ TimeOut \/ UNCHANGED vars
  BY <1>2, StatusUnchanged DEF Recycle, Wait, Restore, Platform, TimeOut, vars, servingVars
<1>3. CASE Take
  BY <1>1, <1>3, ReceiveKeepsStatus DEF Take
<1>4. CASE \E e \in Envs : AskFirst(e) \/ Ask(e)
  <2>1. PICK e \in Envs : AskFirst(e) \/ Ask(e)
    BY <1>4
  <2>2. CASE AskFirst(e)
    <3>1. "version" \in Paths /\ "valid" \in Bodies
      BY DEF Paths, Bodies
    <3>2. QED
      BY <1>1, <2>2, <3>1, SendKeepsStatus DEF AskFirst
  <2>3. CASE Ask(e)
    <3>1. Request[step] \in Paths /\ Body(step) \in Bodies
      BY <2>3, RequestIs DEF Ask
    <3>2. QED
      BY <1>1, <2>3, <3>1, SendKeepsStatus DEF Ask
  <2>4. QED
    BY <2>1, <2>2, <2>3
<1>5. CASE Others
  <2>1. PICK c \in Clients : \/ \E e \in Envs, body \in Bodies : Send(c, e, "predict", body)
                             \/ Receive(c)
    BY <1>5 DEF Others
  <2>2. "predict" \in Paths
    BY DEF Paths
  <2>3. QED
    BY <1>1, <2>1, <2>2, SendKeepsStatus, ReceiveKeepsStatus
<1>6. CASE ServerStep
  <2>1. CASE \E c \in Clients : Handle(c)
    <3>1. PICK c \in Clients : Handle(c)
      BY <2>1
    <3>2. QED
      BY <1>1, <3>1, StartKeepsStatus, PredictKeepsStatus, RecordKeepsStatus, FallbackKeepsStatus
         DEF Handle, Outcomes
  <2>2. CASE \E e \in Envs : Crash(e) \/ Reclaim(e)
    BY <1>1, <2>2, StopKeepsStatus
  <2>3. QED
    BY <1>6, <2>1, <2>2 DEF ServerStep
<1>7. QED
  BY <1>2, <1>3, <1>4, <1>5, <1>6 DEF Next, CheckStep

\* api/deps.py, with the one predict worker of params.yaml: /health says degraded
\* exactly while the last prediction the model was asked for failed.
THEOREM StatusIsOfTheLatest ==
  ASSUME PredictWorkers = 1
  PROVE  Spec => []StatusIsLatest
<1>1. Init => StatusOK
  <2>1. ASSUME Init PROVE StatusOK
    <3>1. /\ \A c \in Clients : req[c].pc = "idle"
          /\ \A e \in Envs : env[e].failing = FALSE /\ latest[e] = "ok"
      BY <2>1 DEF Init, ServingInit, Idle, Down
    <3>2. QED
      BY <3>1 DEF StatusOK, Worked, InServer
  <2>2. QED
    BY <2>1
<1>2. IInv /\ StatusOK /\ [Next]_vars => StatusOK'
  BY NextKeepsStatus
<1>3. StatusOK => StatusIsLatest
  BY DEF StatusOK, StatusIsLatest, In, InServer, Recorded
<1>4. QED
  BY <1>1, <1>2, <1>3, ServingInvariant, PTL DEF Spec
=============================================================================
