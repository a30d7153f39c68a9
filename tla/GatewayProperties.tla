------------------------- MODULE GatewayProperties --------------------------
(***************************************************************************)
(* What must hold of the gateway modelled in GatewayFilters.               *)
(***************************************************************************)
EXTENDS GatewayFilters

Protected(q) == ~ShouldNotFilter(q)

\* The decoder would accept the token at some time: everything but the clock.
Genuine(p, c) ==
  /\ SignatureValid(p, c) /\ TimesOrdered(c)
  /\ c.iss = p.issuer /\ AudienceValid(p, c) /\ IdentityClaimsValid(c)

\* The subject that the sender of the request can prove to be.
ProvenSubject(p, q) ==
  LET token == BearerToken(q.view) IN
  IF token # NoToken /\ Genuine(p, Claims[token]) THEN Claims[token].sub ELSE Nothing

(***************************************************************************)
(* Type invariant                                                          *)
(***************************************************************************)
Message == [service : Services, path : Seq(Segment), view : View]

\* Types of all variables; per worker, the request, its view and its trace
\* exist together from the guard filter on.
TypeOK ==
  /\ props \in Configuration
  /\ decoder \in DecoderKinds \cup {"starting"}
  /\ keysUp \in BOOLEAN /\ keysCached \in BOOLEAN
  /\ now \in 0..MaxTime
  /\ stage \in [Worker -> Stages]
  /\ wire \in [Worker -> ClientRequest \cup {Nothing}]
  /\ view \in [Worker -> View \cup {Nothing}]
  /\ traceId \in [Worker -> Trace \cup {Nothing}]
  /\ reply \in [Worker -> Reply \cup {Nothing}]
  /\ sent \in [Worker -> SUBSET Message]

(***************************************************************************)
(* Safety                                                                  *)
(***************************************************************************)
\* A service that needs an identity reads exactly one, the subject of the
\* single bearer token of that very request, and the token carries the
\* signature and the claims of the contract; a request that needs none
\* reaches the service without identity, whatever the client sent
\* (GatewayGuardFilter blocks the header, GatewayJwtFilter adds it).
IdentityVerified ==
  \A w \in Worker : \A m \in sent[w] :
    LET identity == m.view.values[Fold[IdentityHeader]]
        subject  == ProvenSubject(props, wire[w])
    IN  IF Protected(wire[w])
        THEN subject # Nothing /\ identity = <<subject>>
        ELSE identity = <<>>

\* No header of the internal list that a client sent survives the nested
\* wrappers: of these a service sees none but the verified identity.
InternalHeadersHidden ==
  \A w \in Worker : \A m \in sent[w] :
    \A h \in InternalHeaders :
      Fold[h] # Fold[IdentityHeader] /\ Fold[h] # Fold[TraceHeader] =>
        /\ m.view.values[Fold[h]] = <<>>
        /\ \A s \in m.view.names : Fold[s] # Fold[h]

\* Every header reaches the service once: the nested wrappers enumerate one
\* spelling for each header that has a value, and none for the others, even
\* when the client used another spelling of a header the gateway adds.
CopiedOnce ==
  \A w \in Worker : \A m \in sent[w] : Coherent(m.view)

\* The client and the services can correlate: the trace a service reads is
\* the one on the client's response, rejections carry one too, and no two
\* requests in flight share one.
TraceAgrees ==
  /\ \A w \in Worker : \A m \in sent[w] :
       m.view.values[Fold[TraceHeader]] = <<traceId[w]>>
  /\ \A w \in Worker : reply[w] # Nothing => traceId[w] # Nothing
  /\ \A w, x \in Worker : w # x /\ traceId[w] # Nothing => traceId[w] # traceId[x]

\* What Banking takes for a transfer: the method and the path it is sent.
TransferAtBanking(w, m) ==
  wire[w].method = "POST" /\ m.service = "banking" /\ m.path = TransferPath

ByBankingDocs(w) == IsPrefix(DocsRoute("banking").prefix, wire[w].path)

\* Banking decides on duplicates by the key alone (comment of
\* GatewayGuardFilter): what it is sent as a transfer carries one well-formed
\* key, the client's, unchanged by the wrappers, unless it came under
\* /docs/banking, whose rewriting is behind the filter and whose paths the
\* filter does not look at.  A client's transfer goes nowhere else, and does
\* not escape its key by another route or spelling.
TransferKeyed ==
  \A w \in Worker : \A m \in sent[w] :
    /\ IsTransfer(wire[w]) => TransferAtBanking(w, m)
    /\ TransferAtBanking(w, m) /\ ~ByBankingDocs(w) =>
         /\ m.view.values["idempotency-key"] = Keys(wire[w])
         /\ \E key \in ValidKey : Keys(wire[w]) = <<key>>

\* What the gateway refuses it has not forwarded and never forwards: the
\* client may repeat a refused request without fear of a double effect.
RefusedNotForwarded ==
  \A w \in Worker :
    reply[w] # Nothing /\ reply[w].status \in {400, 401, 403, 404, 503} => sent[w] = {}

(***************************************************************************)
(* The invariant behind these properties: what is true of a request at     *)
(* each stage.  Admitted says what the filters have established, and        *)
(* AdmittedView which nest of wrappers a request has once it is past them.  *)
(***************************************************************************)
Admitted(w) ==
  /\ Protected(wire[w]) => ProvenSubject(props, wire[w]) # Nothing
  /\ IsTransfer(wire[w]) => SingleValidKey(wire[w])

AdmittedView(w) ==
  IF Protected(wire[w])
  THEN JwtView(GuardView(wire[w].view, traceId[w]), ProvenSubject(props, wire[w]))
  ELSE GuardView(wire[w].view, traceId[w])

AtIdle(w) == wire[w] = Nothing /\ traceId[w] = Nothing

AtGuard(w) == wire[w] \in ClientRequest /\ view[w] = wire[w].view /\ traceId[w] = Nothing

AtJwt(w) ==
  /\ wire[w] \in ClientRequest
  /\ traceId[w] \in Trace
  /\ view[w] = GuardView(wire[w].view, traceId[w])
  /\ IsTransfer(wire[w]) => SingleValidKey(wire[w])

PastFilters(w) ==
  /\ wire[w] \in ClientRequest
  /\ traceId[w] \in Trace
  /\ view[w] = AdmittedView(w)
  /\ Admitted(w)

AtDone(w) ==
  /\ wire[w] \in ClientRequest
  /\ traceId[w] \in Trace
  /\ sent[w] # {} => PastFilters(w) /\ reply[w].status \in {200, 500}

StageInvariant(w) ==
  /\ stage[w] = "idle"  => AtIdle(w)
  /\ stage[w] = "guard" => AtGuard(w)
  /\ stage[w] \in {"jwt", "fetch"} => AtJwt(w)
  /\ stage[w] = "fetch" => HasToken(w)
  /\ stage[w] \in {"cors", "route", "proxy"} => PastFilters(w)
  /\ stage[w] = "done" => AtDone(w)
  /\ stage[w] # "done" => reply[w] = Nothing
  /\ stage[w] \notin {"proxy", "done"} => sent[w] = {}
  /\ stage[w] = "proxy" => sent[w] # {}
  /\ \A m \in sent[w] :
       m.view = view[w] /\ [service |-> m.service, path |-> m.path] \in Routes(wire[w].path)

TracesApart ==
  \A w, x \in Worker : w # x /\ traceId[w] # Nothing => traceId[w] # traceId[x]

GatewayInvariant == TypeOK /\ TracesApart /\ \A w \in Worker : StageInvariant(w)

(***************************************************************************)
(* Action properties                                                       *)
(***************************************************************************)
\* One answer per request: after it the worker neither answers again nor
\* forwards anything before it is released.
AnswerIsFinal ==
  [][\A w \in Worker :
       reply[w] # Nothing => reply'[w] = Nothing \/ (reply'[w] = reply[w] /\ sent'[w] = sent[w])]_vars

\* A token is judged when the keys are there, not when the request came in:
\* a token that expires while the worker waits for the key set is refused.
NotExpiredWhenAdmitted ==
  [][\A w \in Worker :
       stage[w] \in {"jwt", "fetch"} /\ stage'[w] = "cors" /\ Protected(wire[w]) =>
         TimestampValid(Claims[BearerToken(wire[w].view)], now)]_vars

(***************************************************************************)
(* Liveness                                                                *)
(***************************************************************************)
\* The gateway itself holds no request for ever: each is answered or on its
\* way to a service, unless the process goes down first.  Waiting for a key
\* set that never comes ends with the timeouts of jwkDecoder.
EveryRequestMovesOn ==
  \A w \in Worker : stage[w] = "guard" ~> stage[w] \in {"proxy", "done", "idle"}

(***************************************************************************)
(* The gateway implements IdentityBoundary.  A worker is a door.  The        *)
(* visitor knocks when the request is received, is in once the request is  *)
(* on its way to a service, and is away when it is answered without that.  *)
(***************************************************************************)
VisitOf(w) ==
  IF Idle(w) THEN "none"
  ELSE IF sent[w] # {} THEN "in"
  ELSE IF stage[w] = "done" THEN "away"
  ELSE "knocking"

\* The identity in the message that the worker forwarded.
AnnouncedOf(w) ==
  LET identities == {m.view.values[Fold[IdentityHeader]] : m \in sent[w]} IN
  IF \E who \in Subject : <<who>> \in identities
  THEN CHOOSE who \in Subject : <<who>> \in identities
  ELSE Nothing

Boundary == INSTANCE IdentityBoundary WITH
  Door       <- Worker,
  Person     <- Subject,
  Nobody     <- Nothing,
  visit      <- [w \in Worker |-> VisitOf(w)],
  needsProof <- [w \in Worker |-> wire[w] # Nothing /\ Protected(wire[w])],
  proven     <- [w \in Worker |->
                   IF wire[w] = Nothing THEN Nothing ELSE ProvenSubject(props, wire[w])],
  announced  <- [w \in Worker |-> AnnouncedOf(w)]

\* Refinement: every step of the filters is a step of the promise or none.
ImplementsBoundary == Boundary!BoundarySpec
=============================================================================
