---------------------------- MODULE ServiceClient ----------------------------
(* The HTTP client of a managed service                                     *)
(* (internal/providers/managedservice/http): the calls of several           *)
(* goroutines, each of which may need the OpenAPI document and an OAuth2    *)
(* token first, the two mutexes around those caches, and the throttle gate  *)
(* that every request (also the two auxiliary ones) passes.  Clients of one *)
(* managed service share their gate through the process-wide registry.      *)
(* A call is a stack of requests: "resource" needs "openapi", and both may  *)
(* need "oauth2-token".                                                     *)
EXTENDS Integers, Sequences, FiniteSets

CONSTANTS
    Callers,         \* goroutines
    Clients,         \* Client objects of one managed service
    ClientOf,        \* the client a caller was built with
    Configs,         \* the requestThrottling settings the service may have
    AuthMode,        \* "oauth2" or "basic" (custom headers behave like basic)
    OpenAPISource,   \* "none", "file", "sameOrigin" or "crossOrigin"
    Lifetimes,       \* what a token answer may say in expires_in; 0: nothing
    DefaultLife,     \* the hour assumed when it says nothing
    AuthMargin,      \* the 30 seconds before its expiry a token is replaced
    MaxCalls, MaxTime, MaxFaults   \* bounds

VARIABLES
    caller,    \* per caller: the call it is making
    client,    \* per client: its mutexes and what they protect
    gates,     \* sharedRequestThrottles: one gate per settings
    server,    \* the managed service, and the source of its OpenAPI document
    clock,     \* the time
    budget     \* uses of the clients and faults left

clientVars == <<caller, client, gates, server, clock, budget>>

Nobody == "nobody"
Ops == {"get", "exists", "create", "delete", "token"}
Purposes == {"resource", "openapi", "oauth2-token"}
Categories == {"", "ok", "true", "false", "AuthError", "NotFoundError",
               "ConflictError", "ValidationError", "TransportError"}
NoToken == [id |-> 0, expires |-> 0]
TokenType == [id : Nat, expires : Nat]
CallerType == [op : Ops, stack : Seq(Purposes), token : Nat,
               pc : {"idle", "lock", "auth", "enter", "wait", "limit", "sent",
                     "done"},
               result : Categories, cause : {"", "full", "answer", "other"},
               absent : BOOLEAN]
ClientState == [config : Configs, oauthMu : Callers \cup {Nobody},
                token : TokenType, openapiMu : Callers \cup {Nobody},
                loaded : BOOLEAN]
GateType == [queue : SUBSET Callers, inFlight : SUBSET Callers, bucket : Nat]
ServerType == [exists : BOOLEAN, docUp : BOOLEAN, issued : Nat, valid : SUBSET Nat]
ConfigType == [max : Nat, queue : Nat, rps : Nat, burst : Nat]

\* What the code guarantees of the parameters: 0 stands for a limit that is not
\* set, and every goroutine uses one client.
ASSUME ClientAssumption ==
    /\ IsFiniteSet(Callers) /\ Nobody \notin Callers
    /\ ClientOf \in [Callers -> Clients]
    /\ Configs \subseteq ConfigType
    /\ OpenAPISource \in {"none", "file", "sameOrigin", "crossOrigin"}
    /\ Lifetimes \subseteq Nat
    /\ {DefaultLife, AuthMargin, MaxCalls, MaxTime, MaxFaults} \subseteq Nat

(***************************************************************************)
(* Construction.                                                           *)
(***************************************************************************)

\* A token bucket starts full; a rate without a burst has the rate as burst,
\* and at least one.
BurstOf(cfg) == IF cfg.burst > 0 THEN cfg.burst
                ELSE IF cfg.rps > 1 THEN cfg.rps ELSE 1

ClientTypeOK ==
    /\ caller \in [Callers -> CallerType]
    /\ client \in [Clients -> ClientState]
    /\ gates \in [Configs -> GateType]
    /\ \A cfg \in Configs : gates[cfg].bucket <= BurstOf(cfg)
    /\ server \in ServerType
    /\ clock \in 0..MaxTime
    /\ budget \in [calls : 0..MaxCalls, faults : 0..MaxFaults]

NewRequestThrottleGate(cfg) ==
    [queue |-> {}, inFlight |-> {},
     bucket |-> IF cfg.rps = 0 THEN 0 ELSE BurstOf(cfg)]

\* Settings buildRequestThrottle accepts: a queue needs a concurrency limit,
\* a burst a rate, and one of the two limits is there.
BuildRequestThrottle(cfg) ==
    /\ cfg.max > 0 \/ cfg.rps > 0
    /\ cfg.queue > 0 => cfg.max > 0
    /\ cfg.burst > 0 => cfg.rps > 0

NewClientState(cfg) ==
    [config |-> cfg, oauthMu |-> Nobody, token |-> NoToken,
     openapiMu |-> Nobody, loaded |-> FALSE]

Idle == [op |-> "get", stack |-> <<>>, token |-> 0, pc |-> "idle",
         result |-> "", cause |-> "", absent |-> FALSE]

ClientInit ==
    /\ caller = [c \in Callers |-> Idle]
    /\ client \in [Clients -> {NewClientState(cfg) : cfg \in
                               {d \in Configs : BuildRequestThrottle(d)}}]
    /\ \A k, l \in Clients : client[k].config = client[l].config
    /\ gates = [cfg \in Configs |-> NewRequestThrottleGate(cfg)]
    /\ server = [exists |-> FALSE, docUp |-> TRUE, issued |-> 0, valid |-> {}]
    /\ clock = 0
    /\ budget = [calls |-> MaxCalls, faults |-> MaxFaults]

----------------------------------------------------------------------------
Top(c) == caller[c].stack[Len(caller[c].stack)]
Popped(c) == SubSeq(caller[c].stack, 1, Len(caller[c].stack) - 1)
Cl(c) == client[ClientOf[c]]
Gate(c) == gates[Cl(c).config]
Busy(c) == caller[c].pc \notin {"idle", "done"}

\* Mutant of Released: the place in the queue is kept when the wait is cancelled.
ReleasedSlotOnly(c) ==
    [gates EXCEPT ![Cl(c).config].inFlight = @ \ {c}]

\* The slot and the place in the queue go back when the request ends, however
\* it ends (the deferred release and the receives from queue in acquire).
Released(c) ==
    [gates EXCEPT ![Cl(c).config].queue = @ \ {c},
                  ![Cl(c).config].inFlight = @ \ {c}]

\* Mutant of Unlocked: the unlock is missing on the error path.
UnlockedOAuthOnly(c) ==
    [client EXCEPT ![ClientOf[c]].oauthMu = IF @ = c THEN Nobody ELSE @]

\* Deferred unlocks: a call that ends holds neither mutex.
Unlocked(c) ==
    [client EXCEPT ![ClientOf[c]].oauthMu = IF @ = c THEN Nobody ELSE @,
                   ![ClientOf[c]].openapiMu = IF @ = c THEN Nobody ELSE @]

\* A token is used while more than the margin of its life is left.
Fresh(token) == token.id > 0 /\ clock < token.expires - AuthMargin

\* execute, oauthToken and loadOpenAPIDocument wrap what doRequest returns:
\* the caller sees a transport error whatever the gate's category was.
Wrapped(category) == "TransportError"

\* The category of a status of the resource request.
ClassifyStatusError(status) ==
    CASE status = "ok"           -> "ok"
      [] status = "unauthorized" -> "AuthError"
      [] status = "notFound"     -> "NotFoundError"
      [] status = "conflict"     -> "ConflictError"
      [] status = "clientError"  -> "ValidationError"
      [] OTHER                   -> "TransportError"

\* Exists turns success and a not-found answer of the resource request into a
\* Boolean; every other error is passed on.
Exists(category) == CASE category = "ok" -> "true"
                      [] category = "NotFoundError" -> "false"
                      [] OTHER -> category

ResultOf(op, category) == IF op = "exists" THEN Exists(category) ELSE category

\* The call ends here.
Finish(c, result, cause, absent) ==
    /\ caller' = [caller EXCEPT ![c] =
          [Idle EXCEPT !.op = caller[c].op, !.pc = "done", !.result = result,
                       !.cause = cause, !.absent = absent]]
    /\ gates' = Released(c)

\* Mutant of Fail: not found is false wherever it comes from.
FailExists(c, category, cause) ==
    /\ Finish(c, ResultOf(caller[c].op, category), cause, FALSE)
    /\ client' = Unlocked(c)

Fail(c, category, cause) ==
    Finish(c, category, cause, FALSE) /\ client' = Unlocked(c)

(***************************************************************************)
(* The steps of a call.                                                    *)
(***************************************************************************)

\* BuildRequestFromMetadata may refuse the payload; with an OpenAPI source it
\* needs the document first.
BuildRequestFromMetadata(c, op) ==
    IF OpenAPISource = "none"
    THEN [Idle EXCEPT !.op = op, !.stack = <<"resource">>, !.pc = "auth"]
    ELSE [Idle EXCEPT !.op = op, !.stack = <<"resource", "openapi">>,
                      !.pc = "lock"]

GetAccessToken(c) ==
    [Idle EXCEPT !.op = "token", !.stack = <<"oauth2-token">>, !.pc = "lock"]

Call(c, op) ==
    /\ ~Busy(c) /\ budget.calls > 0
    /\ op = "token" => AuthMode = "oauth2"
    /\ caller' = [caller EXCEPT ![c] = IF op = "token" THEN GetAccessToken(c)
                                       ELSE BuildRequestFromMetadata(c, op)]
    /\ budget' = [budget EXCEPT !.calls = @ - 1]
    /\ UNCHANGED <<client, gates, server, clock>>

RefusePayload(c) ==
    /\ caller[c].op = "create" /\ caller[c].stack = <<"resource">>
    /\ caller[c].pc = "auth"
    /\ Fail(c, "ValidationError", "other")
    /\ UNCHANGED <<server, clock, budget>>

\* openAPIDocument: the mutex is held while the document is loaded, and a
\* failed load leaves it to the next caller.
OpenAPIDocument(c) ==
    /\ caller[c].pc = "lock" /\ Top(c) = "openapi" /\ Cl(c).openapiMu = Nobody
    /\ \/ /\ Cl(c).loaded \/ (OpenAPISource = "file" /\ server.docUp)
          /\ client' = [client EXCEPT ![ClientOf[c]].loaded = TRUE]
          /\ caller' = [caller EXCEPT ![c].stack = Popped(c), ![c].pc = "auth"]
          /\ UNCHANGED gates
       \/ /\ ~Cl(c).loaded /\ OpenAPISource = "file" /\ ~server.docUp
          /\ Fail(c, "NotFoundError", "other")
       \/ /\ ~Cl(c).loaded /\ OpenAPISource \in {"sameOrigin", "crossOrigin"}
          /\ client' = [client EXCEPT ![ClientOf[c]].openapiMu = c]
          /\ caller' = [caller EXCEPT ![c].pc =
                IF OpenAPISource = "sameOrigin" THEN "auth" ELSE "enter"]
          /\ UNCHANGED gates
    /\ UNCHANGED <<server, clock, budget>>

\* applyAuth of the request on top of the stack.
ApplyAuth(c) ==
    /\ caller[c].pc = "auth"
    /\ caller' = [caller EXCEPT ![c] =
          IF AuthMode = "oauth2"
          THEN [caller[c] EXCEPT !.stack = Append(caller[c].stack, "oauth2-token"),
                                 !.pc = "lock"]
          ELSE [caller[c] EXCEPT !.pc = "enter"]]
    /\ UNCHANGED <<client, gates, server, clock, budget>>

\* The caller goes on with the token: with the request that needed it, or
\* with nothing more when it was GetAccessToken.
WithToken(c, id) ==
    IF Len(caller[c].stack) = 1
    THEN [Idle EXCEPT !.op = "token", !.pc = "done", !.result = "ok",
                      !.cause = "answer", !.token = id]
    ELSE [caller[c] EXCEPT !.stack = Popped(c), !.pc = "enter", !.token = id]

\* Mutant of OAuthToken: the mutex is released before the token is requested.
OAuthTokenUnlocked(c) ==
    /\ caller[c].pc = "lock" /\ Top(c) = "oauth2-token"
    /\ Cl(c).oauthMu = Nobody
    /\ caller' = [caller EXCEPT ![c] =
          IF Fresh(Cl(c).token) THEN WithToken(c, Cl(c).token.id)
          ELSE [@ EXCEPT !.pc = "enter"]]
    /\ UNCHANGED <<client, gates, server, clock, budget>>

\* oauthToken: under the mutex, the cached token or a request for one; the
\* mutex stays locked until that request has ended.
OAuthToken(c) ==
    /\ caller[c].pc = "lock" /\ Top(c) = "oauth2-token"
    /\ Cl(c).oauthMu = Nobody
    /\ \/ /\ Fresh(Cl(c).token)
          /\ caller' = [caller EXCEPT ![c] = WithToken(c, Cl(c).token.id)]
          /\ UNCHANGED client
       \/ /\ ~Fresh(Cl(c).token)
          /\ client' = [client EXCEPT ![ClientOf[c]].oauthMu = c]
          /\ caller' = [caller EXCEPT ![c].pc = "enter"]
    /\ UNCHANGED <<gates, server, clock, budget>>

----------------------------------------------------------------------------
\* acquire, first part: a place in the waiting room, or a refusal at once.
EnterQueue(c) ==
    /\ caller[c].pc = "enter"
    /\ \/ /\ Cl(c).config.queue = 0
          /\ caller' = [caller EXCEPT ![c].pc = "wait"]
          /\ UNCHANGED <<client, gates>>
       \/ /\ Cardinality(Gate(c).queue) < Cl(c).config.queue
          /\ gates' = [gates EXCEPT ![Cl(c).config].queue = @ \cup {c}]
          /\ caller' = [caller EXCEPT ![c].pc = "wait"]
          /\ UNCHANGED client
       \/ /\ Cl(c).config.queue > 0
          /\ Cardinality(Gate(c).queue) = Cl(c).config.queue
          /\ Fail(c, Wrapped("ConflictError"), "full")
    /\ UNCHANGED <<server, clock, budget>>

SlotFree(c) == \/ Cl(c).config.max = 0
               \/ Cardinality(Gate(c).inFlight) < Cl(c).config.max

\* acquire, second part: a slot, which gives the place in the queue back.
Acquire(c) ==
    /\ caller[c].pc = "wait" /\ SlotFree(c)
    /\ gates' = [gates EXCEPT
          ![Cl(c).config].queue = @ \ {c},
          ![Cl(c).config].inFlight = IF Cl(c).config.max = 0 THEN @
                                     ELSE @ \cup {c}]
    /\ caller' = [caller EXCEPT ![c].pc = "limit"]
    /\ UNCHANGED <<client, server, clock, budget>>

\* The rate limiter is waited for with the slot held; then the request goes
\* out.
LimiterWait(c) ==
    /\ caller[c].pc = "limit"
    /\ Cl(c).config.rps > 0 => Gate(c).bucket > 0
    /\ gates' = [gates EXCEPT ![Cl(c).config].bucket =
                    IF Cl(c).config.rps > 0 THEN @ - 1 ELSE @]
    /\ caller' = [caller EXCEPT ![c].pc = "sent"]
    /\ UNCHANGED <<client, server, clock, budget>>

\* The limiter refills.
Refill(cfg) ==
    /\ cfg.rps > 0 /\ gates[cfg].bucket < BurstOf(cfg)
    /\ gates' = [gates EXCEPT ![cfg].bucket = @ + 1]
    /\ UNCHANGED <<caller, client, server, clock, budget>>

\* The context is cancelled while the request waits, or the client's timeout
\* of thirty seconds ends it.
Cancel(c) ==
    /\ caller[c].pc \in {"wait", "limit", "sent"} /\ budget.faults > 0
    /\ budget' = [budget EXCEPT !.faults = @ - 1]
    /\ Fail(c, Wrapped("TransportError"), "other")
    /\ UNCHANGED <<server, clock>>

----------------------------------------------------------------------------
\* The token endpoint answers, and the token is cached with its expiry.
TokenAnswers(c, life) ==
    /\ caller[c].pc = "sent" /\ Top(c) = "oauth2-token"
    /\ LET id == server.issued + 1
           expires == clock + (IF life > 0 THEN life ELSE DefaultLife)
       IN /\ server' = [server EXCEPT !.issued = id, !.valid = @ \cup {id}]
          /\ client' = [Unlocked(c) EXCEPT
                ![ClientOf[c]].token = [id |-> id, expires |-> expires],
                ![ClientOf[c]].openapiMu = client[ClientOf[c]].openapiMu]
          /\ caller' = [caller EXCEPT ![c] = WithToken(c, id)]
    /\ gates' = Released(c)
    /\ UNCHANGED <<clock, budget>>

\* The OpenAPI document arrives and is kept for the life of the client.
DocumentAnswers(c) ==
    /\ caller[c].pc = "sent" /\ Top(c) = "openapi"
    /\ \/ /\ server.docUp
          /\ client' = [client EXCEPT ![ClientOf[c]].loaded = TRUE,
                                      ![ClientOf[c]].openapiMu = Nobody]
          /\ caller' = [caller EXCEPT ![c].stack = Popped(c), ![c].pc = "auth"]
          /\ gates' = Released(c)
       \/ /\ ~server.docUp
          /\ Fail(c, "NotFoundError", "other")
    /\ UNCHANGED <<server, clock, budget>>

\* What the service answers to the request itself.
StatusOf(c) ==
    CASE AuthMode = "oauth2" /\ caller[c].token \notin server.valid -> "unauthorized"
      [] caller[c].op \in {"get", "exists", "delete"} /\ ~server.exists -> "notFound"
      [] caller[c].op = "create" /\ server.exists -> "conflict"
      [] OTHER -> "ok"

ResourceAnswers(c) ==
    /\ caller[c].pc = "sent" /\ Top(c) = "resource"
    /\ LET status == StatusOf(c)
       IN /\ Finish(c, ResultOf(caller[c].op, ClassifyStatusError(status)), "answer",
                    status = "notFound")
          /\ server' = [server EXCEPT !.exists =
                IF status = "ok" /\ caller[c].op \in {"create", "delete"}
                THEN caller[c].op = "create" ELSE @]
    /\ client' = Unlocked(c)
    /\ UNCHANGED <<clock, budget>>

\* An answer with status 500, or none: of the token endpoint an
\* authentication error, of the others a transport error.
ServerFails(c) ==
    /\ caller[c].pc = "sent" /\ budget.faults > 0
    /\ budget' = [budget EXCEPT !.faults = @ - 1]
    /\ Fail(c, IF Top(c) = "oauth2-token" THEN "AuthError"
               ELSE ClassifyStatusError("serverError"), "other")
    /\ UNCHANGED <<server, clock>>

----------------------------------------------------------------------------
\* InvalidateAuthCache, by a caller between two calls.
InvalidateAuthCache(c) ==
    /\ ~Busy(c) /\ Cl(c).oauthMu = Nobody /\ Cl(c).token # NoToken
    /\ budget.calls > 0 /\ budget' = [budget EXCEPT !.calls = @ - 1]
    /\ client' = [client EXCEPT ![ClientOf[c]].token = NoToken]
    /\ UNCHANGED <<caller, gates, server, clock>>

\* NewClient: the next reconcile builds its client anew, with the settings
\* the object has by then; the gate is found by the settings.
NewClient(k, cfg) ==
    /\ \A c \in Callers : ClientOf[c] = k => ~Busy(c)
    /\ BuildRequestThrottle(cfg)
    /\ budget.calls > 0 /\ budget' = [budget EXCEPT !.calls = @ - 1]
    /\ client' = [client EXCEPT ![k] = NewClientState(cfg)]
    /\ UNCHANGED <<caller, gates, server, clock>>

Tick ==
    /\ clock < MaxTime
    /\ clock' = clock + 1
    /\ UNCHANGED <<caller, client, gates, server, budget>>

\* Others change the service: the resource, the document, the tokens.
ServerChanges ==
    /\ budget.faults > 0
    /\ budget' = [budget EXCEPT !.faults = @ - 1]
    /\ \/ server' = [server EXCEPT !.exists = ~@]
       \/ OpenAPISource # "none" /\ server' = [server EXCEPT !.docUp = ~@]
       \/ server.valid # {} /\ server' = [server EXCEPT !.valid = {}]
    /\ UNCHANGED <<caller, client, gates, clock>>

ClientNext ==
    \/ \E c \in Callers :
          \/ \E op \in Ops : Call(c, op)
          \/ RefusePayload(c)
          \/ OpenAPIDocument(c)
          \/ ApplyAuth(c)
          \/ OAuthToken(c)
          \/ EnterQueue(c)
          \/ Acquire(c)
          \/ LimiterWait(c)
          \/ Cancel(c)
          \/ \E life \in Lifetimes : TokenAnswers(c, life)
          \/ DocumentAnswers(c)
          \/ ResourceAnswers(c)
          \/ ServerFails(c)
          \/ InvalidateAuthCache(c)
    \/ \E k \in Clients, cfg \in Configs : NewClient(k, cfg)
    \/ \E cfg \in Configs : Refill(cfg)
    \/ Tick
    \/ ServerChanges

ClientSpec == ClientInit /\ [][ClientNext]_clientVars

Answer(c) == \/ \E life \in Lifetimes : TokenAnswers(c, life)
             \/ DocumentAnswers(c) \/ ResourceAnswers(c)

\* A goroutine that can go on does; sync.Mutex and the channels of the gate
\* hand over in the order of arrival; a request is answered or times out; the
\* limiter refills.
ClientFairSpec ==
    /\ ClientSpec
    /\ \A c \in Callers : /\ WF_clientVars(ApplyAuth(c))
                          /\ WF_clientVars(EnterQueue(c))
                          /\ WF_clientVars(Answer(c))
                          /\ SF_clientVars(LimiterWait(c))
                          /\ SF_clientVars(OpenAPIDocument(c))
                          /\ SF_clientVars(OAuthToken(c))
                          /\ SF_clientVars(Acquire(c))
    /\ \A cfg \in Configs : WF_clientVars(Refill(cfg))

(***************************************************************************)
(* Properties.                                                             *)
(***************************************************************************)

\* requestThrottleGate: no more requests are out, auxiliary ones included,
\* than the settings allow, over all clients that share the gate; and a slot
\* or a place in the queue is held exactly by a caller that is there, so that
\* a cancelled or failed request never keeps one.
GateHeldByWaiters ==
    \A cfg \in Configs :
       LET at(phase) == {c \in Callers : caller[c].pc \in phase
                                          /\ Cl(c).config = cfg}
       IN /\ gates[cfg].queue = IF cfg.queue = 0 THEN {} ELSE at({"wait"})
          /\ gates[cfg].inFlight = IF cfg.max = 0 THEN {}
                                   ELSE at({"limit", "sent"})
          /\ cfg.max > 0 => Cardinality(at({"sent"})) <= cfg.max

\* oauthToken holds its mutex while it asks for a token: a client never has
\* two token requests out, and it never asks while the token it has is good.
OneTokenRequest ==
    \A k \in Clients :
       LET asking == {c \in Callers : ClientOf[c] = k /\ Busy(c)
                        /\ Top(c) = "oauth2-token" /\ caller[c].pc # "lock"}
       IN /\ Cardinality(asking) <= 1
          /\ asking # {} => ~Fresh(client[k].token)

\* Exists answers false only when the service itself said that the resource is
\* not there; an OpenAPI document or a token that cannot be had is an error.
ExistsIsTruth ==
    \A c \in Callers : caller[c].result = "false" => caller[c].absent

\* The two mutexes, the queue and the slots are always taken in an order that
\* cannot close a circle, and are given back on every path: while a call is
\* under way, some call waits for none of them.
SomeoneCanGoOn ==
    (\E c \in Callers : Busy(c)) =>
       \E c \in Callers :
          \/ caller[c].pc \in {"auth", "enter", "limit", "sent"}
          \/ caller[c].pc = "wait" /\ SlotFree(c)
          \/ caller[c].pc = "lock" /\ Top(c) = "openapi"
                                  /\ Cl(c).openapiMu = Nobody
          \/ caller[c].pc = "lock" /\ Top(c) = "oauth2-token"
                                  /\ Cl(c).oauthMu = Nobody

\* Goroutines that share a client: no more requests are out than the throttle
\* allows and a place in it is held only by who is there; a client asks for one
\* token at a time; Exists is false only when the service said so; and mutexes,
\* queue and slots are taken in an order that closes no circle
\* (http_managed_service_client.go, request_throttle.go, auth.go, openapi_source.go).
ClientShared ==
    GateHeldByWaiters /\ OneTokenRequest /\ ExistsIsTruth /\ SomeoneCanGoOn

\* A call that is made returns.
EveryCallReturns == \A c \in Callers : Busy(c) ~> ~Busy(c)

\* agents/reference/managed-service.md:59, "Queue full -> `ConflictError`".
OverflowIsConflict ==
    \A c \in Callers : caller[c].cause = "full" => caller[c].result = "ConflictError"

\* agents/reference/managed-service.md:57, "OpenAPI/Swagger document
\* unavailable or invalid ... -> `ValidationError`": a not-found error of a get
\* is then the service's answer about the resource.
NotFoundMeansAbsent ==
    \A c \in Callers : caller[c].result = "NotFoundError" => caller[c].absent

\* agents/reference/managed-service.md:64, a "request fails fast with
\* `ConflictError` while two earlier requests are in-flight/queued": a request
\* is refused only when the slots are taken too.
RefusedOnlyWhenFull ==
    [][\A c \in Callers :
          caller'[c].cause = "full" /\ caller[c].cause # "full"
             => ~SlotFree(c)]_clientVars
============================================================================
