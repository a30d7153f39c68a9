--------------------------- MODULE GatewayFilters ---------------------------
(***************************************************************************)
(* The gateway process: requests that pass GatewayGuardFilter,             *)
(* GatewayJwtFilter and the CorsFilter bean in that order and are then      *)
(* routed to a service, on several worker threads at once, while time       *)
(* passes, the key set of the token issuer comes and goes, and the process *)
(* is restarted with another configuration.                                *)
(*                                                                         *)
(* A worker serves one request at a time and is reused for the next; a path *)
(* is the sequence of its segments; `trace' identifiers are fresh values of *)
(* a finite set (UUIDs in the program), recycled once no worker holds them.*)
(***************************************************************************)
EXTENDS HeaderView, JwtContract, SequencesExt

CONSTANTS
  Worker,          \* worker threads of the servlet container
  Segment,         \* path segments
  ClientRequest,   \* requests that clients send
  Configuration,   \* JWT configurations the operator may deploy
  InternalHeaders, \* moaje.gateway.guard.internal-headers (spellings)
  PublicEndpoints, \* moaje.gateway.jwt.public-endpoints: <<method, path>>
  Trace,           \* trace identifiers
  TokenOf,         \* the token in a value "Bearer <token>", NoToken otherwise
  NoToken,
  ValidKey,        \* values that match [A-Za-z0-9._:-]{1,100}
  MaxTime,         \* bound on the clock
  Nothing          \* an absent value, message, trace or reply code

TraceHeader    == "X-Trace-Id"
IdentityHeader == "X-Authenticated-User-Id"

ASSUME GatewayAssumption ==
  /\ {TraceHeader, IdentityHeader} \subseteq Spelling
  /\ InternalHeaders \subseteq Spelling
  /\ {"authorization", "idempotency-key"} \subseteq HeaderName
  /\ \A q \in ClientRequest :
       /\ q.view \in View /\ Coherent(q.view)
       /\ q.path \in Seq(Segment)
       /\ q.cors \in {"same", "cross", "preflight"}
  /\ {"docs", "api", "v1", "auth", "asset", "assets", "banking", "work", "openapi.json",
      "transfers"} \subseteq Segment
  /\ TokenOf \in [Value -> Token \cup {NoToken}]
  /\ NoToken \notin Token
  /\ ValidKey \subseteq Value
  /\ Subject \cup Trace \subseteq Value
  /\ Nothing \notin ClientRequest /\ Nothing \notin Value
  /\ Fold[TraceHeader] # Fold[IdentityHeader]
  /\ \A h \in {Fold[TraceHeader], Fold[IdentityHeader]} :
       h \notin {"authorization", "idempotency-key"}
  /\ "idempotency-key" \notin FoldAll(InternalHeaders)
  /\ MaxTime \in Nat

VARIABLES
  props,     \* the JWT configuration the process was started with
  decoder,   \* "starting", or what DecoderFor made of props
  keysUp,    \* the issuer's key-set address answers (external)
  keysCached,\* the decoder holds the key set (JWT library)
  now,       \* wall clock
  stage,     \* per worker: where its request is
  wire,      \* per worker: the request as the client sent it
  view,      \* per worker: the header view of the current wrapper
  traceId,   \* per worker: the trace header set on the response
  reply,     \* per worker: what the client was answered, or Nothing
  sent       \* per worker: the messages forwarded to a service

process == <<props, decoder>>
keySet  == <<keysUp, keysCached>>
request == <<stage, wire, view, traceId, reply, sent>>
vars    == <<props, decoder, keysUp, keysCached, now, stage, wire, view, traceId, reply, sent>>

Stages == {"idle", "guard", "jwt", "fetch", "cors", "route", "proxy", "done"}

Codes == {"MISSING_IDEMPOTENCY_KEY", "INVALID_IDEMPOTENCY_KEY", "UNAUTHENTICATED",
          "INVALID_TOKEN", "JWT_CONTRACT_NOT_CONFIGURED", Nothing}

Reply == [status : {200, 400, 401, 403, 404, 500, 503}, code : Codes, challenge : BOOLEAN]

Services == {"auth", "asset", "banking", "work"}

Idle(w) == stage[w] = "idle"

(***************************************************************************)
(* Routing table of application.yaml.  Route(p) is the service and the      *)
(* path it is asked for, or Nothing.                                       *)
(***************************************************************************)
Behind(prefix, p) == SubSeq(p, Len(prefix) + 1, Len(p))

\* Under /docs the prefix is cut off and whatever follows it is the path at the
\* service, its API included; of the API paths only those of Auth are rewritten.
ApiName(service) == IF service = "asset" THEN "assets" ELSE service

DocsRoute(service) ==
  [prefix |-> <<"docs", service>>, service |-> service, becomes |-> <<>>]

ApiRoute(service) ==
  [prefix  |-> <<"api", "v1", ApiName(service)>>,
   service |-> service,
   becomes |-> IF service = "auth" THEN <<"api", "auth">>
               ELSE <<"api", "v1", ApiName(service)>>]

RouteTable ==
  {DocsRoute(service) : service \in Services \ {"work"}} \cup
  {ApiRoute(service) : service \in Services}

WorkDocs == <<"docs", "work", "openapi.json">>

Matching(p) == {row \in RouteTable : IsPrefix(row.prefix, p)}

Target(row, p) == [service |-> row.service, path |-> row.becomes \o Behind(row.prefix, p)]

Routes(p) ==
  {Target(row, p) : row \in Matching(p)}
  \cup (IF p = WorkDocs THEN {[service |-> "work", path |-> <<"openapi.json">>]} ELSE {})

(***************************************************************************)
(* Start of the process                                                    *)
(***************************************************************************)
NoRequests ==
  [stage |-> [w \in Worker |-> "idle"],
   empty |-> [w \in Worker |-> Nothing],
   sent  |-> [w \in Worker |-> {}]]

Init ==
  /\ props \in Configuration
  /\ decoder = "starting"
  /\ keysUp \in BOOLEAN
  /\ keysCached = FALSE
  /\ now = 0
  /\ stage = NoRequests.stage
  /\ wire = NoRequests.empty
  /\ view = NoRequests.empty
  /\ traceId = NoRequests.empty
  /\ reply = NoRequests.empty
  /\ sent = NoRequests.sent

\* The beans are built.  A process whose decoder bean fails serves nothing.
Boot ==
  /\ decoder = "starting"
  /\ decoder' = DecoderFor(props)
  /\ UNCHANGED <<props, keySet, now, request>>

\* The process stops at any moment and every request in flight is lost; it
\* comes back with the configuration the operator gives it.
Restart ==
  /\ decoder # "starting"
  /\ decoder' = "starting"
  /\ props' \in Configuration
  /\ keysCached' = FALSE
  /\ stage' = NoRequests.stage
  /\ wire' = NoRequests.empty
  /\ view' = NoRequests.empty
  /\ traceId' = NoRequests.empty
  /\ reply' = NoRequests.empty
  /\ sent' = NoRequests.sent
  /\ UNCHANGED <<keysUp, now>>

Serving == decoder \in {"unconfigured", "hmac", "jwk"}

Receive(w, q) ==
  /\ Serving
  /\ Idle(w)
  /\ stage' = [stage EXCEPT ![w] = "guard"]
  /\ wire'  = [wire EXCEPT ![w] = q]
  /\ view'  = [view EXCEPT ![w] = q.view]
  /\ UNCHANGED <<process, keySet, now, traceId, reply, sent>>

\* The answer goes out and the worker's request is over.
Answer(w, status, code) ==
  /\ stage' = [stage EXCEPT ![w] = "done"]
  /\ reply' = [reply EXCEPT ![w] =
                 [status |-> status, code |-> code, challenge |-> status = 401]]

(***************************************************************************)
(* GatewayGuardFilter.  The idempotency key is read from the raw request,   *)
(* before the wrapper; the trace header is on the response either way.     *)
(***************************************************************************)
TransferPath == <<"api", "v1", "banking", "transfers">>

\* The path of the request as it came in, before any route rewrites it.
IsTransfer(q) == q.method = "POST" /\ q.path = TransferPath

Keys(q) == q.view.values["idempotency-key"]

\* Variant: firstOrNull() in place of singleOrNull().
FirstKeyValid(q) == Len(Keys(q)) > 0 /\ Keys(q)[1] \in ValidKey

SingleValidKey(q) == Len(Keys(q)) = 1 /\ Keys(q)[1] \in ValidKey

\* Variant: an identifier that another request may carry.
AnyTrace == Trace

FreshTraces == Trace \ {traceId[w] : w \in Worker}

\* Variant: the configured internal headers are not blocked.
GuardViewOwnOnly(v, t) ==
  Sanitized(v, {IdentityHeader, TraceHeader}, OneHeader(TraceHeader, t))

GuardView(v, t) ==
  Sanitized(v, InternalHeaders \cup {IdentityHeader, TraceHeader}, OneHeader(TraceHeader, t))

GuardPass(w) ==
  /\ stage[w] = "guard"
  /\ IsTransfer(wire[w]) => SingleValidKey(wire[w])
  /\ \E t \in FreshTraces :
       /\ traceId' = [traceId EXCEPT ![w] = t]
       /\ view' = [view EXCEPT ![w] = GuardView(view[w], t)]
  /\ stage' = [stage EXCEPT ![w] = "jwt"]
  /\ UNCHANGED <<process, keySet, now, wire, reply, sent>>

\* Variant: the wrong status.
GuardRejectWrongStatus(w) ==
  /\ stage[w] = "guard"
  /\ IsTransfer(wire[w]) /\ ~SingleValidKey(wire[w])
  /\ \E t \in FreshTraces : traceId' = [traceId EXCEPT ![w] = t]
  /\ Answer(w, 422, "INVALID_IDEMPOTENCY_KEY")
  /\ UNCHANGED <<process, keySet, now, wire, view, sent>>

GuardReject(w) ==
  /\ stage[w] = "guard"
  /\ IsTransfer(wire[w]) /\ ~SingleValidKey(wire[w])
  /\ \E t \in FreshTraces : traceId' = [traceId EXCEPT ![w] = t]
  /\ Answer(w, 400, IF Keys(wire[w]) = <<>> THEN "MISSING_IDEMPOTENCY_KEY"
                    ELSE "INVALID_IDEMPOTENCY_KEY")
  /\ UNCHANGED <<process, keySet, now, wire, view, sent>>

(***************************************************************************)
(* GatewayJwtFilter                                                        *)
(***************************************************************************)
Actuator(p) == p # <<>> /\ Head(p) = "actuator"
Docs(p)     == p # <<>> /\ Head(p) = "docs" /\ Len(p) > 1

ShouldNotFilter(q) ==
  \/ Actuator(q.path)
  \/ Docs(q.path)
  \/ <<q.method, q.path>> \in PublicEndpoints

\* The token of the single Authorization header, read through the wrapper.
BearerToken(v) ==
  LET headers == v.values["authorization"] IN
  IF Len(headers) = 1 THEN TokenOf[headers[1]] ELSE NoToken

JwtView(v, subject) ==
  Sanitized(v, {IdentityHeader}, OneHeader(IdentityHeader, subject))

JwtNotFiltered(w) ==
  /\ stage[w] = "jwt"
  /\ ShouldNotFilter(wire[w])
  /\ stage' = [stage EXCEPT ![w] = "cors"]
  /\ UNCHANGED <<process, keySet, now, wire, view, traceId, reply, sent>>

JwtUnauthenticated(w) ==
  /\ stage[w] = "jwt"
  /\ ~ShouldNotFilter(wire[w])
  /\ BearerToken(view[w]) = NoToken
  /\ Answer(w, 401, "UNAUTHENTICATED")
  /\ UNCHANGED <<process, keySet, now, wire, view, traceId, sent>>

HasToken(w) == ~ShouldNotFilter(wire[w]) /\ BearerToken(view[w]) # NoToken

JwtUnconfigured(w) ==
  /\ stage[w] = "jwt" /\ HasToken(w)
  /\ decoder = "unconfigured"
  /\ Answer(w, 503, "JWT_CONTRACT_NOT_CONFIGURED")
  /\ UNCHANGED <<process, keySet, now, wire, view, traceId, sent>>

\* decode() with the keys at hand: the identity header is put in front of
\* the guard's view, or the request ends.
Decoded(w) ==
  LET token == BearerToken(view[w]) IN
  IF Accepts(props, token, now)
  THEN /\ stage' = [stage EXCEPT ![w] = "cors"]
       /\ view'  = [view EXCEPT ![w] = JwtView(view[w], Claims[token].sub)]
       /\ UNCHANGED reply
  ELSE /\ Answer(w, 401, "INVALID_TOKEN")
       /\ UNCHANGED view

JwtDecode(w) ==
  /\ stage[w] = "jwt" /\ HasToken(w)
  /\ decoder = "hmac" \/ (decoder = "jwk" /\ keysCached)
  /\ Decoded(w)
  /\ UNCHANGED <<process, keySet, now, wire, traceId, sent>>

\* Without the key set the worker waits for it, at most for the connect and
\* read timeouts of jwkDecoder.
JwtFetchKeys(w) ==
  /\ stage[w] = "jwt" /\ HasToken(w)
  /\ decoder = "jwk" /\ ~keysCached
  /\ stage' = [stage EXCEPT ![w] = "fetch"]
  /\ UNCHANGED <<process, keySet, now, wire, view, traceId, reply, sent>>

JwtKeysArrive(w) ==
  /\ stage[w] = "fetch"
  /\ keysUp
  /\ keysCached' = TRUE
  /\ Decoded(w)
  /\ UNCHANGED <<process, keysUp, now, wire, traceId, sent>>

\* Variants: no timeouts; the request goes through.
JwtKeysNoTimeout(w) == FALSE

JwtKeysTimeoutAdmits(w) ==
  /\ stage[w] = "fetch"
  /\ ~keysUp
  /\ stage' = [stage EXCEPT ![w] = "cors"]
  /\ UNCHANGED <<process, keySet, now, wire, view, traceId, reply, sent>>

\* A key set that cannot be had is a JwtException like a bad token.
JwtKeysTimeout(w) ==
  /\ stage[w] = "fetch"
  /\ ~keysUp
  /\ Answer(w, 401, "INVALID_TOKEN")
  /\ UNCHANGED <<process, keySet, now, wire, view, traceId, sent>>

(***************************************************************************)
(* CorsFilter: a bean without an order, so behind the two ordered filters. *)
(* It answers every preflight itself and refuses a cross-origin request     *)
(* whose method CorsConfig does not list.  A preflight is refused if it asks *)
(* for such a method, or for headers none of which is listed (of others the *)
(* answer names those that are, and the browser decides).                  *)
(***************************************************************************)
AllowedHeaders == {"authorization", "content-type", "idempotency-key", "x-trace-id"}

HeadersAllowed(names) == names = {} \/ names \cap AllowedHeaders # {}

AllowedMethods == {"GET", "POST", "PUT", "PATCH", "DELETE", "OPTIONS"}

CorsPass(w) ==
  /\ stage[w] = "cors"
  /\ wire[w].cors # "preflight"
  /\ wire[w].cors = "cross" => wire[w].method \in AllowedMethods
  /\ stage' = [stage EXCEPT ![w] = "route"]
  /\ UNCHANGED <<process, keySet, now, wire, view, traceId, reply, sent>>

CorsPreflight(w) ==
  /\ stage[w] = "cors"
  /\ wire[w].cors = "preflight"
  /\ Answer(w, IF /\ wire[w].asks \in AllowedMethods
                 /\ HeadersAllowed(wire[w].wants)
               THEN 200 ELSE 403, Nothing)
  /\ UNCHANGED <<process, keySet, now, wire, view, traceId, sent>>

CorsRefuse(w) ==
  /\ stage[w] = "cors"
  /\ wire[w].cors = "cross" /\ wire[w].method \notin AllowedMethods
  /\ Answer(w, 403, Nothing)
  /\ UNCHANGED <<process, keySet, now, wire, view, traceId, sent>>

(***************************************************************************)
(* Routing and the proxied call.                                           *)
(***************************************************************************)
Forward(w) ==
  /\ stage[w] = "route"
  /\ \E r \in Routes(wire[w].path) :
       sent' = [sent EXCEPT ![w] =
                  @ \cup {[service |-> r.service, path |-> r.path, view |-> view[w]]}]
  /\ stage' = [stage EXCEPT ![w] = "proxy"]
  /\ UNCHANGED <<process, keySet, now, wire, view, traceId, reply>>

\* The management endpoints answer themselves; any other path is unknown.
ServeLocally(w) ==
  /\ stage[w] = "route"
  /\ Routes(wire[w].path) = {}
  /\ Answer(w, IF Actuator(wire[w].path) THEN 200 ELSE 404, Nothing)
  /\ UNCHANGED <<process, keySet, now, wire, view, traceId, sent>>

\* The service answers (whatever it answers) or the connection breaks.
ServiceAnswers(w) ==
  /\ stage[w] = "proxy"
  /\ \E status \in {200, 500} : Answer(w, status, Nothing)
  /\ UNCHANGED <<process, keySet, now, wire, view, traceId, sent>>

\* The response is out; the worker is free for another request.
Release(w) ==
  /\ stage[w] = "done"
  /\ stage'   = [stage EXCEPT ![w] = "idle"]
  /\ wire'    = [wire EXCEPT ![w] = Nothing]
  /\ view'    = [view EXCEPT ![w] = Nothing]
  /\ traceId' = [traceId EXCEPT ![w] = Nothing]
  /\ reply'   = [reply EXCEPT ![w] = Nothing]
  /\ sent'    = [sent EXCEPT ![w] = {}]
  /\ UNCHANGED <<process, keySet, now>>

(***************************************************************************)
(* The environment                                                         *)
(***************************************************************************)
Tick ==
  /\ now < MaxTime
  /\ now' = now + 1
  /\ UNCHANGED <<process, keySet, request>>

KeySetComesOrGoes ==
  /\ keysUp' = ~keysUp
  /\ UNCHANGED <<process, keysCached, now, request>>

KeyCacheExpires ==
  /\ keysCached
  /\ keysCached' = FALSE
  /\ UNCHANGED <<process, keysUp, now, request>>

GuardFilter(w) == GuardPass(w) \/ GuardReject(w)

JwtFilter(w) ==
  \/ JwtNotFiltered(w) \/ JwtUnauthenticated(w) \/ JwtUnconfigured(w)
  \/ JwtDecode(w) \/ JwtFetchKeys(w) \/ JwtKeysArrive(w) \/ JwtKeysTimeout(w)

CorsFilter(w) == CorsPass(w) \/ CorsPreflight(w) \/ CorsRefuse(w)

Dispatch(w) == Forward(w) \/ ServeLocally(w) \/ ServiceAnswers(w)

Next ==
  \/ Boot \/ Restart
  \/ \E w \in Worker :
       GuardFilter(w) \/ JwtFilter(w) \/ CorsFilter(w) \/ Dispatch(w) \/ Release(w)
  \/ \E w \in Worker, q \in ClientRequest : Receive(w, q)
  \/ Tick \/ KeySetComesOrGoes \/ KeyCacheExpires

(***************************************************************************)
(* A worker thread that can take a step of its own takes it.  A worker     *)
(* that waits for keys gets them or times out, whatever the key set does   *)
(* meanwhile: one of the two is always enabled.  Not fair: clients, the    *)
(* clock, the key set, the operator, and the services, for whose answers    *)
(* the proxy client waits without a timeout                                *)
(* (GatewayHttpClientConfiguration).                                       *)
(***************************************************************************)
OwnStep(w) ==
  GuardFilter(w) \/ JwtFilter(w) \/ CorsFilter(w) \/ Forward(w) \/ ServeLocally(w)

Fairness == \A w \in Worker : WF_vars(OwnStep(w))

Spec == Init /\ [][Next]_vars /\ Fairness
=============================================================================
