---------------------------- MODULE GatewayProofs ---------------------------
(***************************************************************************)
(* The gateway's invariant for any number of workers, any requests, tokens *)
(* and configurations, the safety properties that follow from it, and that *)
(* the gateway keeps the promise of IdentityBoundary.                      *)
(***************************************************************************)
EXTENDS GatewayProperties, SequenceTheorems, TLAPS

-----------------------------------------------------------------------------
(***************************************************************************)
(* The header wrapper, for every set of spellings and values.              *)
(***************************************************************************)
\* The wrapper of a view is a view (SanitizedHeaderHttpServletRequest is a
\* request like the one it wraps).
LEMMA SanitizedType ==
  ASSUME NEW req \in View, NEW blocked \in SUBSET Spelling,
         NEW own, DOMAIN own \subseteq Spelling, \A s \in DOMAIN own : own[s] \in Value
  PROVE  Sanitized(req, blocked, own) \in View
<1>1. VisibleNames(req, blocked, own) \in SUBSET Spelling
  BY DEF VisibleNames, View
<1>2. ASSUME NEW n \in DOMAIN Added(own)
      PROVE  Added(own)[n] \in Value
  <2>1. PICK s \in DOMAIN own : Fold[s] = n
    BY <1>2 DEF Added, FoldAll
  <2>2. Added(own)[n] = own[CHOOSE t \in DOMAIN own : Fold[t] = n]
    BY <1>2 DEF Added
  <2> QED BY <2>1, <2>2
<1>3. ASSUME NEW n \in HeaderName
      PROVE  VisibleValues(req, blocked, own)[n] \in Seq(Value)
  <2>1. req.values[n] \in Seq(Value) BY DEF View
  <2>2. <<>> \in Seq(Value) OBVIOUS
  <2>3. n \in DOMAIN Added(own) => <<Added(own)[n]>> \in Seq(Value) BY <1>2
  <2> QED BY <2>1, <2>2, <2>3 DEF VisibleValues
<1>4. VisibleValues(req, blocked, own) \in [HeaderName -> Seq(Value)]
  BY <1>3 DEF VisibleValues
<1> QED BY <1>1, <1>4 DEF Sanitized, View

\* What one added header looks like through the map of lower-case names.
LEMMA AddedOneHeader ==
  ASSUME NEW h \in Spelling, NEW v
  PROVE  /\ DOMAIN OneHeader(h, v) = {h}
         /\ DOMAIN Added(OneHeader(h, v)) = {Fold[h]}
         /\ Added(OneHeader(h, v))[Fold[h]] = v
<1>1. DOMAIN OneHeader(h, v) = {h} /\ OneHeader(h, v)[h] = v BY DEF OneHeader
<1>2. FoldAll({h}) = {Fold[h]} BY DEF FoldAll
<1>3. (CHOOSE s \in {h} : Fold[s] = Fold[h]) = h OBVIOUS
<1> QED BY <1>1, <1>2, <1>3 DEF Added

\* What a reader of the wrapper sees: the added header with its one value,
\* nothing of the blocked ones, the rest as in the wrapped request.
THEOREM SanitizedValues ==
  ASSUME NEW req \in View, NEW blocked \in SUBSET Spelling,
         NEW h \in Spelling, NEW v \in Value, NEW n \in HeaderName
  PROVE  /\ n = Fold[h] => Sanitized(req, blocked, OneHeader(h, v)).values[n] = <<v>>
         /\ n # Fold[h] /\ n \in FoldAll(blocked) =>
              Sanitized(req, blocked, OneHeader(h, v)).values[n] = <<>>
         /\ n # Fold[h] /\ n \notin FoldAll(blocked) =>
              Sanitized(req, blocked, OneHeader(h, v)).values[n] = req.values[n]
<1> DEFINE own == OneHeader(h, v)
<1>1. DOMAIN Added(own) = {Fold[h]} /\ Added(own)[Fold[h]] = v
  BY AddedOneHeader
<1> HIDE DEF own
<1>2. Sanitized(req, blocked, own).values[n] = VisibleValues(req, blocked, own)[n]
  BY DEF Sanitized
<1>3. VisibleValues(req, blocked, own)[n] =
        IF n = Fold[h] THEN <<v>>
        ELSE IF n \in FoldAll(blocked) THEN <<>>
        ELSE req.values[n]
  BY <1>1 DEF VisibleValues
<1> QED BY <1>2, <1>3 DEF own

\* In particular the added header is read with its one value.
LEMMA SanitizedOwn ==
  ASSUME NEW req \in View, NEW blocked \in SUBSET Spelling,
         NEW h \in Spelling, NEW v \in Value, Fold[h] \in HeaderName
  PROVE  Sanitized(req, blocked, OneHeader(h, v)).values[Fold[h]] = <<v>>
<1> DEFINE n == Fold[h]
<1>1. n \in HeaderName /\ n = Fold[h] OBVIOUS
<1> HIDE DEF n
<1>2. n = Fold[h] => Sanitized(req, blocked, OneHeader(h, v)).values[n] = <<v>>
  BY <1>1, SanitizedValues
<1> QED BY <1>1, <1>2

\* No spelling of a blocked header is enumerated, except the added one.
LEMMA SanitizedNames ==
  ASSUME NEW req \in View, NEW blocked \in SUBSET Spelling,
         NEW h \in Spelling, NEW v \in Value, NEW s
  PROVE  s \in Sanitized(req, blocked, OneHeader(h, v)).names
           <=> s = h \/ (s \in req.names /\ Fold[s] \notin FoldAll(blocked))
<1> DEFINE own == OneHeader(h, v)
<1>1. DOMAIN own = {h} BY AddedOneHeader
<1> HIDE DEF own
<1>2. Sanitized(req, blocked, own).names = VisibleNames(req, blocked, own)
  BY DEF Sanitized
<1>3. s \in VisibleNames(req, blocked, own)
        <=> s = h \/ (s \in req.names /\ Fold[s] \notin FoldAll(blocked))
  BY <1>1 DEF VisibleNames
<1> QED BY <1>2, <1>3 DEF own

\* A wrapper that blocks the header it adds keeps a view coherent: nesting
\* such wrappers never loses a header and never shows one twice.
THEOREM SanitizedCoherent ==
  ASSUME NEW req \in View, Coherent(req), NEW blocked \in SUBSET Spelling,
         NEW h \in blocked, NEW v \in Value
  PROVE  Coherent(Sanitized(req, blocked, OneHeader(h, v)))
<1> DEFINE new == Sanitized(req, blocked, OneHeader(h, v))
<1>0. h \in Spelling OBVIOUS
<1>1. \A s : s \in new.names <=> s = h \/ (s \in req.names /\ Fold[s] \notin FoldAll(blocked))
  BY <1>0, SanitizedNames
<1>2. Fold[h] \in FoldAll(blocked) BY DEF FoldAll
<1>3. ASSUME NEW n \in HeaderName
      PROVE  /\ new.values[n] # <<>> <=> \E s \in new.names : Fold[s] = n
             /\ \A s, t \in new.names : Fold[s] = n /\ Fold[t] = n => s = t
  <2>0. /\ n = Fold[h] => new.values[n] = <<v>>
        /\ n # Fold[h] /\ n \in FoldAll(blocked) => new.values[n] = <<>>
        /\ n # Fold[h] /\ n \notin FoldAll(blocked) => new.values[n] = req.values[n]
    BY <1>0, SanitizedValues
  <2> HIDE DEF new
  <2>1. CASE n = Fold[h]
    <3>1. new.values[n] = <<v>> BY <2>1, <2>0
    <3>2. <<v>> # <<>> OBVIOUS
    <3>3. \A s \in new.names : Fold[s] = n => s = h BY <1>1, <1>2, <2>1
    <3> QED BY <3>1, <3>2, <3>3, <1>1, <2>1
  <2>2. CASE n # Fold[h] /\ n \in FoldAll(blocked)
    <3>1. new.values[n] = <<>> BY <2>2, <2>0
    <3>2. \A s \in new.names : Fold[s] # n BY <1>1, <2>2
    <3> QED BY <3>1, <3>2
  <2>3. CASE n # Fold[h] /\ n \notin FoldAll(blocked)
    <3>1. new.values[n] = req.values[n] BY <2>3, <2>0
    <3>2. \A s : s \in new.names /\ Fold[s] = n <=> s \in req.names /\ Fold[s] = n
      BY <1>1, <2>3
    <3> QED BY <3>1, <3>2 DEF Coherent
  <2> QED BY <2>1, <2>2, <2>3
<1> QED BY <1>3 DEF Coherent

-----------------------------------------------------------------------------
(***************************************************************************)
(* Views                                                                   *)
(***************************************************************************)
\* The guard's wrapper of a client's request is a view.
LEMMA GuardViewType ==
  ASSUME NEW v \in View, NEW t \in Trace
  PROVE  GuardView(v, t) \in View
<1> DEFINE own == OneHeader(TraceHeader, t)
<1>1. DOMAIN own = {TraceHeader} /\ own[TraceHeader] = t BY DEF OneHeader
<1>2. DOMAIN own \subseteq Spelling /\ \A s \in DOMAIN own : own[s] \in Value
  BY <1>1, GatewayAssumption
<1>3. InternalHeaders \cup {IdentityHeader, TraceHeader} \in SUBSET Spelling
  BY GatewayAssumption
<1> HIDE DEF own
<1>4. Sanitized(v, InternalHeaders \cup {IdentityHeader, TraceHeader}, own) \in View
  BY <1>2, <1>3, SanitizedType
<1> QED BY <1>4 DEF GuardView, own

\* And so is the JWT filter's wrapper of a view.
LEMMA JwtViewType ==
  ASSUME NEW v \in View, NEW who \in Subject
  PROVE  JwtView(v, who) \in View
<1> DEFINE own == OneHeader(IdentityHeader, who)
<1>1. DOMAIN own = {IdentityHeader} /\ own[IdentityHeader] = who BY DEF OneHeader
<1>2. DOMAIN own \subseteq Spelling /\ \A s \in DOMAIN own : own[s] \in Value
  BY <1>1, GatewayAssumption
<1>3. {IdentityHeader} \in SUBSET Spelling BY GatewayAssumption
<1> HIDE DEF own
<1>4. Sanitized(v, {IdentityHeader}, own) \in View BY <1>2, <1>3, SanitizedType
<1> QED BY <1>4 DEF JwtView, own

\* A token in a header is a token, and a subject that passed the contract
\* is one of Subject.
LEMMA BearerTokenType ==
  ASSUME NEW v \in View
  PROVE  BearerToken(v) \in Token \cup {NoToken}
<1>1. v.values["authorization"] \in Seq(Value)
  BY GatewayAssumption DEF View
<1>2. CASE Len(v.values["authorization"]) = 1
  <2>1. v.values["authorization"][1] \in Value BY <1>1, <1>2
  <2> QED BY <2>1, <1>2, GatewayAssumption DEF BearerToken
<1>3. CASE Len(v.values["authorization"]) # 1
  BY <1>3 DEF BearerToken
<1> QED BY <1>2, <1>3

\* The guard's wrapper shows the authorization header as the client sent it
\* or not at all.
LEMMA GuardKeepsBearer ==
  ASSUME NEW q \in ClientRequest, NEW t \in Trace,
         BearerToken(GuardView(q.view, t)) # NoToken
  PROVE  BearerToken(GuardView(q.view, t)) = BearerToken(q.view)
<1> DEFINE blocked == InternalHeaders \cup {IdentityHeader, TraceHeader}
           a == "authorization"
           g == GuardView(q.view, t)
<1>1. /\ q.view \in View /\ blocked \in SUBSET Spelling /\ TraceHeader \in Spelling
      /\ t \in Value /\ a \in HeaderName /\ a # Fold[TraceHeader]
  BY GatewayAssumption
<1>2. /\ a \in FoldAll(blocked) => g.values[a] = <<>>
      /\ a \notin FoldAll(blocked) => g.values[a] = q.view.values[a]
  <2>1. g = Sanitized(q.view, blocked, OneHeader(TraceHeader, t)) BY DEF GuardView
  <2> HIDE DEF blocked, a, g
  <2> QED BY <1>1, <2>1, SanitizedValues
<1>3. CASE a \in FoldAll(blocked)
  <2>1. g.values[a] = <<>> BY <1>2, <1>3
  <2>2. Len(<<>>) # 1 OBVIOUS
  <2> QED BY <2>1, <2>2 DEF BearerToken
<1>4. CASE a \notin FoldAll(blocked)
  BY <1>2, <1>4 DEF BearerToken
<1> QED BY <1>3, <1>4

(***************************************************************************)
(* The invariant                                                           *)
(***************************************************************************)
\* A request's stage invariant depends on its worker's variables alone.
LEMMA StageFrame ==
  ASSUME NEW x \in Worker, StageInvariant(x), props' = props,
         stage'[x] = stage[x], wire'[x] = wire[x], view'[x] = view[x],
         traceId'[x] = traceId[x], reply'[x] = reply[x], sent'[x] = sent[x]
  PROVE  StageInvariant(x)'
BY DEF StageInvariant, AtIdle, AtGuard, AtJwt, PastFilters, AtDone, HasToken,
       Admitted, AdmittedView

\* The invariant holds when the process is first started.
LEMMA InitInvariant == Init => GatewayInvariant
<1> SUFFICES ASSUME Init PROVE GatewayInvariant OBVIOUS
<1> USE GatewayAssumption DEF Init, NoRequests
<1>1. TypeOK
  <2>1. keysUp \in BOOLEAN /\ keysCached \in BOOLEAN OBVIOUS
  <2>2. now \in 0..MaxTime OBVIOUS
  <2>3. /\ props \in Configuration /\ decoder = "starting"
        /\ stage = [w \in Worker |-> "idle"]
        /\ wire = [w \in Worker |-> Nothing] /\ view = [w \in Worker |-> Nothing]
        /\ traceId = [w \in Worker |-> Nothing] /\ reply = [w \in Worker |-> Nothing]
        /\ sent = [w \in Worker |-> {}]
    OBVIOUS
  <2>4. stage \in [Worker -> Stages] BY <2>3 DEF Stages
  <2>5. sent \in [Worker -> SUBSET Message] BY <2>3
  <2> QED BY <2>1, <2>2, <2>3, <2>4, <2>5 DEF TypeOK
<1>2. TracesApart BY DEF TracesApart
<1>3. ASSUME NEW w \in Worker PROVE StageInvariant(w)
  BY <1>3 DEF StageInvariant, AtIdle
<1> QED BY <1>1, <1>2, <1>3 DEF GatewayInvariant

\* Every configuration makes one of the four kinds of decoder.
LEMMA DecoderForType == ASSUME NEW p PROVE DecoderFor(p) \in DecoderKinds
BY DEF DecoderFor, DecoderKinds, HmacDecoder, JwkDecoder, Algorithms, Blank

\* Starting, stopping and the environment keep the invariant.
LEMMA ProcessSteps ==
  ASSUME GatewayInvariant, Boot \/ Restart \/ Tick \/ KeySetComesOrGoes \/ KeyCacheExpires
  PROVE  GatewayInvariant'
<1> USE DEF GatewayInvariant
<1>1. CASE Boot
  <2>1. TypeOK' BY <1>1, DecoderForType DEF TypeOK, Boot, keySet, request
  <2>2. TracesApart' BY <1>1 DEF TracesApart, Boot, request
  <2>3. ASSUME NEW x \in Worker PROVE StageInvariant(x)'
    BY <1>1, StageFrame DEF Boot, request
  <2> QED BY <2>1, <2>2, <2>3
<1>2. CASE Restart
  <2> USE <1>2 DEF Restart, NoRequests
  <2>1. TypeOK' BY DEF TypeOK, Stages
  <2>2. TracesApart' BY DEF TracesApart
  <2>3. ASSUME NEW x \in Worker PROVE StageInvariant(x)'
    BY DEF StageInvariant, AtIdle
  <2> QED BY <2>1, <2>2, <2>3
<1>3. CASE Tick \/ KeySetComesOrGoes \/ KeyCacheExpires
  <2> USE <1>3 DEF Tick, KeySetComesOrGoes, KeyCacheExpires, process, keySet, request
  <2>1. TypeOK'
    <3>1. now' \in 0..MaxTime BY GatewayAssumption DEF TypeOK
    <3>2. keysUp' \in BOOLEAN /\ keysCached' \in BOOLEAN BY Zenon DEF TypeOK
    <3> QED BY <3>1, <3>2 DEF TypeOK
  <2>2. TracesApart' BY DEF TracesApart
  <2>3. ASSUME NEW x \in Worker PROVE StageInvariant(x)' BY StageFrame
  <2> QED BY <2>1, <2>2, <2>3
<1> QED BY <1>1, <1>2, <1>3

\* What a worker's step does not touch, and what an answer writes.
LEMMA AnswerType ==
  ASSUME TypeOK, NEW w \in Worker, NEW status \in {200, 400, 401, 403, 404, 500, 503},
         NEW code \in Codes, Answer(w, status, code)
  PROVE  /\ stage' \in [Worker -> Stages] /\ stage'[w] = "done"
         /\ reply' \in [Worker -> Reply \cup {Nothing}] /\ reply'[w].status = status
         /\ \A x \in Worker \ {w} : stage'[x] = stage[x] /\ reply'[x] = reply[x]
<1>1. [status |-> status, code |-> code, challenge |-> status = 401] \in Reply
  <2>1. (status = 401) \in BOOLEAN OBVIOUS
  <2> QED BY <2>1 DEF Reply
<1>2. "done" \in Stages BY DEF Stages
<1> QED BY <1>1, <1>2 DEF Answer, TypeOK

\* A step that only answers keeps the invariant, whoever answers: the
\* worker is past the guard and has forwarded nothing, or the service
\* answers.
LEMMA AnswerSteps ==
  ASSUME GatewayInvariant, NEW w \in Worker,
         NEW status \in {200, 400, 401, 403, 404, 500, 503}, NEW code \in Codes,
         Answer(w, status, code),
         stage[w] \notin {"idle", "guard"},
         sent[w] = {} \/ (stage[w] = "proxy" /\ status \in {200, 500}),
         UNCHANGED <<props, decoder, keysUp, now, wire, view, traceId, sent>>,
         keysCached' \in BOOLEAN
  PROVE  GatewayInvariant'
<1> USE DEF GatewayInvariant
<1>1. TypeOK' BY AnswerType DEF TypeOK
<1>2. TracesApart' BY DEF TracesApart
<1>3. ASSUME NEW x \in Worker \ {w} PROVE StageInvariant(x)'
  BY AnswerType, StageFrame
<1>4. StageInvariant(w)'
  <2>1. stage'[w] = "done" /\ reply'[w].status = status BY AnswerType
  <2>2. wire[w] \in ClientRequest /\ traceId[w] \in Trace
    BY DEF TypeOK, Stages, StageInvariant, AtJwt, PastFilters, AtDone
  <2>3. sent[w] # {} => PastFilters(w) BY DEF StageInvariant
  <2>4. PastFilters(w) => PastFilters(w)' BY DEF PastFilters, AdmittedView, Admitted
  <2>5. AtDone(w)' BY <2>1, <2>2, <2>3, <2>4 DEF AtDone
  <2> QED BY <2>1, <2>5 DEF StageInvariant
<1> QED BY <1>1, <1>2, <1>3, <1>4

\* Receiving a request and releasing a worker.
LEMMA ReceiveSteps ==
  ASSUME GatewayInvariant, NEW w \in Worker,
         (\E q \in ClientRequest : Receive(w, q)) \/ Release(w)
  PROVE  GatewayInvariant'
<1> USE DEF GatewayInvariant
<1>1. ASSUME NEW q \in ClientRequest, Receive(w, q) PROVE GatewayInvariant'
  <2> USE <1>1 DEF Receive, process, keySet
  <2>1. TypeOK' BY GatewayAssumption DEF TypeOK, Stages
  <2>2. TracesApart' BY DEF TracesApart
  <2>3. ASSUME NEW x \in Worker \ {w} PROVE StageInvariant(x)'
    BY StageFrame DEF TypeOK
  <2>4. StageInvariant(w)'
    BY DEF StageInvariant, AtIdle, AtGuard, Idle, TypeOK
  <2> QED BY <2>1, <2>2, <2>3, <2>4
<1>2. CASE Release(w)
  <2> USE <1>2 DEF Release, process, keySet
  <2>1. TypeOK' BY DEF TypeOK, Stages
  <2>2. TracesApart' BY DEF TracesApart, TypeOK
  <2>3. ASSUME NEW x \in Worker \ {w} PROVE StageInvariant(x)'
    BY StageFrame DEF TypeOK
  <2>4. StageInvariant(w)' BY DEF StageInvariant, AtIdle, TypeOK
  <2> QED BY <2>1, <2>2, <2>3, <2>4
<1> QED BY <1>1, <1>2

\* The guard filter: a fresh trace, and the wrapper or the 400.
LEMMA GuardSteps ==
  ASSUME GatewayInvariant, NEW w \in Worker, GuardFilter(w)
  PROVE  GatewayInvariant'
<1> USE DEF GatewayInvariant
<1>0. AtGuard(w) /\ sent[w] = {} /\ reply[w] = Nothing /\ stage[w] = "guard"
  BY DEF GuardFilter, GuardPass, GuardReject, StageInvariant
<1>1. PICK t \in FreshTraces : traceId' = [traceId EXCEPT ![w] = t]
  BY DEF GuardFilter, GuardPass, GuardReject
<1>2. t \in Trace /\ \A x \in Worker : traceId[x] # t BY <1>1 DEF FreshTraces
<1>3. TracesApart' BY <1>1, <1>2 DEF TracesApart, TypeOK
<1>4. CASE GuardPass(w)
  <2> USE <1>4 DEF GuardPass, process, keySet
  <2>1. PICK u \in FreshTraces : /\ traceId' = [traceId EXCEPT ![w] = u]
                                 /\ view' = [view EXCEPT ![w] = GuardView(view[w], u)]
    OBVIOUS
  <2>2. traceId'[w] = u /\ u \in Trace BY <2>1 DEF TypeOK, FreshTraces
  <2>3. view[w] \in View BY <1>0, GatewayAssumption DEF AtGuard
  <2>4. GuardView(view[w], u) \in View BY <2>2, <2>3, GuardViewType
  <2>5. TypeOK' BY <2>1, <2>2, <2>4 DEF TypeOK, Stages
  <2>6. ASSUME NEW x \in Worker \ {w} PROVE StageInvariant(x)'
    BY <2>1, StageFrame DEF TypeOK
  <2>7. AtJwt(w)' BY <1>0, <2>1, <2>2 DEF AtJwt, AtGuard, TypeOK
  <2>8. StageInvariant(w)' BY <1>0, <2>7 DEF StageInvariant, TypeOK
  <2> QED BY <1>3, <2>5, <2>6, <2>8
<1>5. CASE GuardReject(w)
  <2> USE <1>5 DEF GuardReject, process, keySet
  <2>1. PICK code \in Codes : Answer(w, 400, code)
    BY DEF Codes
  <2>2. TypeOK'
    <3>1. stage' \in [Worker -> Stages] /\ reply' \in [Worker -> Reply \cup {Nothing}]
      BY <2>1, AnswerType
    <3> QED BY <1>1, <1>2, <3>1 DEF TypeOK
  <2>3. ASSUME NEW x \in Worker \ {w} PROVE StageInvariant(x)'
    <3>1. stage'[x] = stage[x] /\ reply'[x] = reply[x] BY <2>1, AnswerType
    <3> QED BY <1>1, <3>1, StageFrame DEF TypeOK
  <2>4. StageInvariant(w)'
    <3>1. stage'[w] = "done" BY <2>1, AnswerType
    <3>2. traceId'[w] \in Trace BY <1>1, <1>2 DEF TypeOK
    <3> QED BY <1>0, <3>1, <3>2 DEF StageInvariant, AtDone, AtGuard
  <2> QED BY <1>3, <2>2, <2>3, <2>4
<1> QED BY <1>4, <1>5 DEF GuardFilter

\* A token that the decoder accepts proves its subject for the request the
\* client sent.
LEMMA AcceptedToken ==
  ASSUME GatewayInvariant, NEW w \in Worker, AtJwt(w), HasToken(w),
         Accepts(props, BearerToken(view[w]), now)
  PROVE  /\ Claims[BearerToken(view[w])].sub \in Subject
         /\ ProvenSubject(props, wire[w]) = Claims[BearerToken(view[w])].sub
         /\ ProvenSubject(props, wire[w]) # Nothing
<1> DEFINE token == BearerToken(view[w])
<1>1. token # NoToken BY DEF HasToken
<1>2. token = BearerToken(wire[w].view) BY <1>1, GuardKeepsBearer DEF AtJwt
<1>3. Genuine(props, Claims[token]) BY DEF Genuine, Accepts, ContractValid
<1>4. Claims[token].sub \in Subject BY <1>3 DEF Genuine, IdentityClaimsValid
<1>5. ProvenSubject(props, wire[w]) = Claims[token].sub
  BY <1>1, <1>2, <1>3 DEF ProvenSubject
<1>6. Claims[token].sub # Nothing BY <1>4, GatewayAssumption
<1> QED BY <1>4, <1>5, <1>6

\* decode(): the verified subject in front of the guard's view, or a 401.
LEMMA DecodedSteps ==
  ASSUME GatewayInvariant, NEW w \in Worker, stage[w] \in {"jwt", "fetch"}, HasToken(w),
         Decoded(w), keysCached' \in BOOLEAN,
         UNCHANGED <<props, decoder, keysUp, now, wire, traceId, sent>>
  PROVE  GatewayInvariant'
<1> USE DEF GatewayInvariant
<1>0. AtJwt(w) /\ sent[w] = {} /\ reply[w] = Nothing BY DEF StageInvariant
<1>1. CASE ~Accepts(props, BearerToken(view[w]), now)
  <2>1. Answer(w, 401, "INVALID_TOKEN") /\ UNCHANGED view BY <1>1 DEF Decoded
  <2>2. "INVALID_TOKEN" \in Codes BY DEF Codes
  <2> QED BY <1>0, <2>1, <2>2, AnswerSteps
<1>2. CASE Accepts(props, BearerToken(view[w]), now)
  <2> DEFINE who == Claims[BearerToken(view[w])].sub
  <2>1. /\ stage' = [stage EXCEPT ![w] = "cors"]
        /\ view' = [view EXCEPT ![w] = JwtView(view[w], who)]
        /\ UNCHANGED reply
    BY <1>2 DEF Decoded
  <2>2. /\ who \in Subject /\ ProvenSubject(props, wire[w]) = who
        /\ ProvenSubject(props, wire[w]) # Nothing
    BY <1>0, <1>2, AcceptedToken
  <2>3. view[w] \in View BY <1>0, GuardViewType, GatewayAssumption DEF AtJwt
  <2> HIDE DEF who
  <2>4. JwtView(view[w], who) \in View BY <2>2, <2>3, JwtViewType
  <2>5. TypeOK' BY <2>1, <2>4 DEF TypeOK, Stages
  <2>6. TracesApart' BY DEF TracesApart
  <2>7. ASSUME NEW x \in Worker \ {w} PROVE StageInvariant(x)'
    BY <2>1, StageFrame DEF TypeOK
  <2>8. PastFilters(w)'
    <3>1. view'[w] = JwtView(view[w], who) BY <2>1 DEF TypeOK
    <3>2. Protected(wire[w]) BY DEF HasToken, Protected
    <3>3. AdmittedView(w)' = JwtView(GuardView(wire[w].view, traceId[w]), who)
      BY <2>2, <3>2 DEF AdmittedView
    <3> QED BY <1>0, <2>2, <3>1, <3>3 DEF PastFilters, Admitted, AtJwt
  <2>9. StageInvariant(w)' BY <1>0, <2>1, <2>8 DEF StageInvariant, TypeOK
  <2> QED BY <2>5, <2>6, <2>7, <2>9
<1> QED BY <1>1, <1>2

\* The JWT filter, exit by exit.
LEMMA JwtSteps ==
  ASSUME GatewayInvariant, NEW w \in Worker, JwtFilter(w)
  PROVE  GatewayInvariant'
<1> USE DEF GatewayInvariant
<1>0. /\ AtJwt(w) /\ sent[w] = {} /\ reply[w] = Nothing
      /\ stage[w] \in {"jwt", "fetch"} /\ keysCached \in BOOLEAN
  BY DEF JwtFilter, JwtNotFiltered, JwtUnauthenticated, JwtUnconfigured, JwtDecode,
         JwtFetchKeys, JwtKeysArrive, JwtKeysTimeout, StageInvariant, TypeOK
<1>1. CASE JwtNotFiltered(w)
  <2> USE <1>1 DEF JwtNotFiltered, process, keySet
  <2>1. TypeOK' BY DEF TypeOK, Stages
  <2>2. TracesApart' BY DEF TracesApart
  <2>3. ASSUME NEW x \in Worker \ {w} PROVE StageInvariant(x)'
    BY StageFrame DEF TypeOK
  <2>4. PastFilters(w)' BY <1>0 DEF PastFilters, AdmittedView, Admitted, AtJwt, Protected
  <2>5. StageInvariant(w)' BY <1>0, <2>4 DEF StageInvariant, TypeOK
  <2> QED BY <2>1, <2>2, <2>3, <2>5
<1>2. CASE JwtFetchKeys(w)
  <2> USE <1>2 DEF JwtFetchKeys, process, keySet
  <2>1. TypeOK' BY DEF TypeOK, Stages
  <2>2. TracesApart' BY DEF TracesApart
  <2>3. ASSUME NEW x \in Worker \ {w} PROVE StageInvariant(x)'
    BY StageFrame DEF TypeOK
  <2>4. AtJwt(w)' /\ HasToken(w)' BY <1>0 DEF AtJwt, HasToken
  <2>5. StageInvariant(w)' BY <1>0, <2>4 DEF StageInvariant, TypeOK
  <2> QED BY <2>1, <2>2, <2>3, <2>5
<1>3. CASE JwtUnauthenticated(w) \/ JwtUnconfigured(w) \/ JwtKeysTimeout(w)
  <2>1. PICK status \in {401, 503}, code \in Codes : Answer(w, status, code)
    BY <1>3 DEF JwtUnauthenticated, JwtUnconfigured, JwtKeysTimeout, Codes
  <2>2. UNCHANGED <<props, decoder, keysUp, keysCached, now, wire, view, traceId, sent>>
    BY <1>3 DEF JwtUnauthenticated, JwtUnconfigured, JwtKeysTimeout, process, keySet
  <2> QED BY <1>0, <2>1, <2>2, AnswerSteps
<1>4. CASE JwtDecode(w)
  <2>1. UNCHANGED <<props, decoder, keysUp, keysCached, now, wire, traceId, sent>>
    BY <1>4 DEF JwtDecode, process, keySet
  <2> QED BY <1>0, <1>4, <2>1, DecodedSteps DEF JwtDecode
<1>5. CASE JwtKeysArrive(w)
  <2>1. UNCHANGED <<props, decoder, keysUp, now, wire, traceId, sent>> /\ keysCached' = TRUE
    BY <1>5 DEF JwtKeysArrive, process
  <2>2. HasToken(w) BY <1>5 DEF JwtKeysArrive, StageInvariant
  <2> QED BY <1>0, <1>5, <2>1, <2>2, DecodedSteps DEF JwtKeysArrive
<1> QED BY <1>1, <1>2, <1>3, <1>4, <1>5 DEF JwtFilter

\* The CORS filter changes nothing about a request but its stage.
LEMMA CorsSteps ==
  ASSUME GatewayInvariant, NEW w \in Worker, CorsFilter(w)
  PROVE  GatewayInvariant'
<1> USE DEF GatewayInvariant
<1>0. /\ PastFilters(w) /\ sent[w] = {} /\ reply[w] = Nothing
      /\ stage[w] = "cors" /\ keysCached \in BOOLEAN
  BY DEF CorsFilter, CorsPass, CorsPreflight, CorsRefuse, StageInvariant, TypeOK
<1>1. CASE CorsPass(w)
  <2> USE <1>1 DEF CorsPass, process, keySet
  <2>1. TypeOK' BY DEF TypeOK, Stages
  <2>2. TracesApart' BY DEF TracesApart
  <2>3. ASSUME NEW x \in Worker \ {w} PROVE StageInvariant(x)'
    BY StageFrame DEF TypeOK
  <2>4. PastFilters(w)' BY <1>0 DEF PastFilters, AdmittedView, Admitted
  <2>5. StageInvariant(w)' BY <1>0, <2>4 DEF StageInvariant, TypeOK
  <2> QED BY <2>1, <2>2, <2>3, <2>5
<1>2. CASE CorsPreflight(w) \/ CorsRefuse(w)
  <2>1. PICK status \in {200, 403}, code \in Codes : Answer(w, status, code)
    BY <1>2 DEF CorsPreflight, CorsRefuse, Codes
  <2>2. UNCHANGED <<props, decoder, keysUp, keysCached, now, wire, view, traceId, sent>>
    BY <1>2 DEF CorsPreflight, CorsRefuse, process, keySet
  <2> QED BY <1>0, <2>1, <2>2, AnswerSteps
<1> QED BY <1>1, <1>2 DEF CorsFilter

\* A route's answer is a service and a path.
LEMMA RoutesType ==
  ASSUME NEW q \in ClientRequest, NEW r \in Routes(q.path)
  PROVE  r \in [service : Services, path : Seq(Segment)]
<1>1. q.path \in Seq(Segment) BY GatewayAssumption
<1>2. CASE r = [service |-> "work", path |-> <<"openapi.json">>]
  <2>1. <<"openapi.json">> \in Seq(Segment) BY GatewayAssumption
  <2>2. "work" \in Services BY DEF Services
  <2> QED BY <1>2, <2>1, <2>2
<1>3. CASE \E row \in RouteTable : r = Target(row, q.path)
  <2>1. PICK row \in RouteTable : r = Target(row, q.path) BY <1>3
  <2>2. row.service \in Services /\ row.becomes \in Seq(Segment) /\ row.prefix \in Seq(Segment)
    <3>1. ASSUME NEW service \in Services
          PROVE  /\ service \in Segment /\ ApiName(service) \in Segment
                 /\ {"docs", "api", "v1", "auth"} \subseteq Segment
      BY GatewayAssumption DEF Services, ApiName
    <3>2. CASE \E service \in Services : row = DocsRoute(service)
      BY <3>1, <3>2 DEF DocsRoute
    <3>3. CASE \E service \in Services : row = ApiRoute(service)
      BY <3>1, <3>3 DEF ApiRoute
    <3> QED BY <3>2, <3>3 DEF RouteTable
  <2>3. Behind(row.prefix, q.path) \in Seq(Segment) BY <1>1, <2>2 DEF Behind
  <2> QED BY <2>1, <2>2, <2>3 DEF Target
<1> QED BY <1>2, <1>3 DEF Routes, Matching

\* Routing, the proxied call and local answers.
LEMMA DispatchSteps ==
  ASSUME GatewayInvariant, NEW w \in Worker, Dispatch(w)
  PROVE  GatewayInvariant'
<1> USE DEF GatewayInvariant
<1>0. /\ PastFilters(w) /\ reply[w] = Nothing
      /\ stage[w] \in {"route", "proxy"} /\ keysCached \in BOOLEAN
      /\ stage[w] = "route" => sent[w] = {}
  BY DEF Dispatch, Forward, ServeLocally, ServiceAnswers, StageInvariant, TypeOK
<1>1. CASE Forward(w)
  <2> USE <1>1 DEF Forward, process, keySet
  <2>1. PICK r \in Routes(wire[w].path) :
          sent' = [sent EXCEPT ![w] =
                     @ \cup {[service |-> r.service, path |-> r.path, view |-> view[w]]}]
    OBVIOUS
  <2>2. r \in [service : Services, path : Seq(Segment)]
    BY <1>0, RoutesType DEF PastFilters
  <2>3. view[w] \in View
    <3>1. CASE Protected(wire[w])
      <4>1. ProvenSubject(props, wire[w]) \in Subject
        BY <1>0, <3>1 DEF PastFilters, Admitted, ProvenSubject, Genuine, IdentityClaimsValid
      <4> QED BY <1>0, <3>1, <4>1, GuardViewType, JwtViewType, GatewayAssumption
              DEF PastFilters, AdmittedView
    <3>2. CASE ~Protected(wire[w])
      BY <1>0, <3>2, GuardViewType, GatewayAssumption DEF PastFilters, AdmittedView
    <3> QED BY <3>1, <3>2
  <2> DEFINE m == [service |-> r.service, path |-> r.path, view |-> view[w]]
  <2>4. m \in Message BY <2>2, <2>3 DEF Message
  <2>5. sent'[w] = {m} BY <1>0, <2>1 DEF TypeOK
  <2>6. r = [service |-> m.service, path |-> m.path] BY <2>2
  <2> HIDE DEF m
  <2>7. TypeOK'
    <3>1. sent' \in [Worker -> SUBSET Message] BY <2>1, <2>4 DEF TypeOK, m
    <3> QED BY <3>1 DEF TypeOK, Stages
  <2>8. TracesApart' BY DEF TracesApart
  <2>9. ASSUME NEW x \in Worker \ {w} PROVE StageInvariant(x)'
    BY <2>1, StageFrame DEF TypeOK
  <2>10. PastFilters(w)' BY <1>0 DEF PastFilters, AdmittedView, Admitted
  <2>11. StageInvariant(w)'
    <3>1. stage'[w] = "proxy" BY DEF TypeOK
    <3>2. m.view = view[w] BY DEF m
    <3> QED BY <1>0, <2>5, <2>6, <2>10, <3>1, <3>2 DEF StageInvariant
  <2> QED BY <2>7, <2>8, <2>9, <2>11
<1>2. CASE ServeLocally(w)
  <2>1. PICK status \in {200, 404}, code \in Codes : Answer(w, status, code)
    BY <1>2 DEF ServeLocally, Codes
  <2>2. UNCHANGED <<props, decoder, keysUp, keysCached, now, wire, view, traceId, sent>>
    BY <1>2 DEF ServeLocally, process, keySet
  <2> QED BY <1>0, <1>2, <2>1, <2>2, AnswerSteps DEF ServeLocally
<1>3. CASE ServiceAnswers(w)
  <2>1. PICK status \in {200, 500}, code \in Codes : Answer(w, status, code)
    BY <1>3 DEF ServiceAnswers, Codes
  <2>2. UNCHANGED <<props, decoder, keysUp, keysCached, now, wire, view, traceId, sent>>
    BY <1>3 DEF ServiceAnswers, process, keySet
  <2> QED BY <1>0, <1>3, <2>1, <2>2, AnswerSteps DEF ServiceAnswers
<1> QED BY <1>1, <1>2, <1>3 DEF Dispatch

\* Every step of the gateway keeps the invariant.
LEMMA NextInvariant == GatewayInvariant /\ [Next]_vars => GatewayInvariant'
<1> SUFFICES ASSUME GatewayInvariant, [Next]_vars PROVE GatewayInvariant' OBVIOUS
<1>1. CASE Boot \/ Restart \/ Tick \/ KeySetComesOrGoes \/ KeyCacheExpires
  BY <1>1, ProcessSteps
<1>2. ASSUME NEW w \in Worker,
             GuardFilter(w) \/ JwtFilter(w) \/ CorsFilter(w) \/ Dispatch(w) \/ Release(w)
      PROVE  GatewayInvariant'
  BY <1>2, GuardSteps, JwtSteps, CorsSteps, DispatchSteps, ReceiveSteps
<1>3. ASSUME NEW w \in Worker, NEW q \in ClientRequest, Receive(w, q)
      PROVE  GatewayInvariant'
  BY <1>3, ReceiveSteps
<1>4. CASE UNCHANGED vars
  <2> USE <1>4 DEF vars, GatewayInvariant
  <2>1. TypeOK' BY Zenon DEF TypeOK
  <2>2. TracesApart' BY DEF TracesApart
  <2>3. ASSUME NEW x \in Worker PROVE StageInvariant(x)' BY StageFrame
  <2> QED BY <2>1, <2>2, <2>3
<1> QED BY <1>1, <1>2, <1>3, <1>4 DEF Next

\* The gateway's invariant: types, and what each stage of a request means.
THEOREM GatewayInvariantHolds == Spec => []GatewayInvariant
<1>1. Init => GatewayInvariant BY InitInvariant
<1>2. GatewayInvariant /\ [Next]_vars => GatewayInvariant' BY NextInvariant
<1> QED BY <1>1, <1>2, PTL DEF Spec

(***************************************************************************)
(* What a service sees                                                     *)
(***************************************************************************)
\* The guard's wrapper, header by header: the fresh trace, nothing of the
\* blocked names, the rest as the client sent it; each header once.
LEMMA GuardViewShows ==
  ASSUME NEW v \in View, NEW t \in Trace
  PROVE  /\ GuardView(v, t).values[Fold[TraceHeader]] = <<t>>
         /\ GuardView(v, t).values[Fold[IdentityHeader]] = <<>>
         /\ \A h \in InternalHeaders : Fold[h] # Fold[TraceHeader] =>
              /\ GuardView(v, t).values[Fold[h]] = <<>>
              /\ \A s \in GuardView(v, t).names : Fold[s] # Fold[h]
         /\ GuardView(v, t).values["idempotency-key"] = v.values["idempotency-key"]
         /\ Coherent(v) => Coherent(GuardView(v, t))
<1> DEFINE blocked == InternalHeaders \cup {IdentityHeader, TraceHeader}
<1>1. /\ blocked \in SUBSET Spelling /\ TraceHeader \in blocked /\ IdentityHeader \in blocked
      /\ TraceHeader \in Spelling /\ t \in Value /\ InternalHeaders \subseteq blocked
      /\ \A s \in Spelling : Fold[s] \in HeaderName
      /\ "idempotency-key" \in HeaderName
  BY GatewayAssumption, FoldAssumption
<1>2. /\ \A s \in blocked : Fold[s] \in FoldAll(blocked)
      /\ "idempotency-key" \notin FoldAll(blocked)
  BY GatewayAssumption DEF FoldAll
<1>3. /\ Fold[TraceHeader] # Fold[IdentityHeader] /\ Fold[TraceHeader] # "idempotency-key"
  BY GatewayAssumption
<1>4. GuardView(v, t) = Sanitized(v, blocked, OneHeader(TraceHeader, t)) BY DEF GuardView
<1> HIDE DEF blocked
<1>5. GuardView(v, t).values[Fold[TraceHeader]] = <<t>>
  BY <1>1, <1>4, SanitizedValues
<1>6. ASSUME NEW s \in blocked, Fold[s] # Fold[TraceHeader]
      PROVE  GuardView(v, t).values[Fold[s]] = <<>>
  BY <1>1, <1>2, <1>4, <1>6, SanitizedValues
<1>7. ASSUME NEW h \in blocked, Fold[h] # Fold[TraceHeader], NEW s \in GuardView(v, t).names
      PROVE  Fold[s] # Fold[h]
  <2>1. s = TraceHeader \/ Fold[s] \notin FoldAll(blocked) BY <1>1, <1>4, SanitizedNames
  <2> QED BY <2>1, <1>2, <1>7
<1>8. GuardView(v, t).values["idempotency-key"] = v.values["idempotency-key"]
  BY <1>1, <1>2, <1>3, <1>4, SanitizedValues
<1>9. Coherent(v) => Coherent(GuardView(v, t)) BY <1>1, <1>4, SanitizedCoherent
<1>10. \A h \in InternalHeaders : Fold[h] # Fold[TraceHeader] =>
         /\ GuardView(v, t).values[Fold[h]] = <<>>
         /\ \A s \in GuardView(v, t).names : Fold[s] # Fold[h]
  BY <1>1, <1>6, <1>7
<1>11. GuardView(v, t).values[Fold[IdentityHeader]] = <<>> BY <1>1, <1>3, <1>6
<1> QED BY <1>5, <1>8, <1>9, <1>10, <1>11

\* The JWT filter's wrapper: the identity, and everything else as in the
\* guard's wrapper.
LEMMA JwtViewShows ==
  ASSUME NEW v \in View, NEW who \in Subject
  PROVE  /\ JwtView(v, who).values[Fold[IdentityHeader]] = <<who>>
         /\ \A n \in HeaderName : n # Fold[IdentityHeader] =>
              JwtView(v, who).values[n] = v.values[n]
         /\ \A s \in JwtView(v, who).names : s = IdentityHeader \/ s \in v.names
         /\ Coherent(v) => Coherent(JwtView(v, who))
<1> DEFINE blocked == {IdentityHeader}
<1>1. /\ blocked \in SUBSET Spelling /\ IdentityHeader \in blocked
      /\ IdentityHeader \in Spelling /\ who \in Value /\ Fold[IdentityHeader] \in HeaderName
  BY GatewayAssumption, FoldAssumption
<1>2. \A n : n # Fold[IdentityHeader] => n \notin FoldAll(blocked) BY DEF FoldAll
<1>3. JwtView(v, who) = Sanitized(v, blocked, OneHeader(IdentityHeader, who)) BY DEF JwtView
<1> HIDE DEF blocked
<1>4. JwtView(v, who).values[Fold[IdentityHeader]] = <<who>>
  <2>1. Sanitized(v, blocked, OneHeader(IdentityHeader, who)).values[Fold[IdentityHeader]] = <<who>>
    BY <1>1, SanitizedOwn
  <2> QED BY <1>3, <2>1
<1>5. ASSUME NEW n \in HeaderName, n # Fold[IdentityHeader]
      PROVE  JwtView(v, who).values[n] = v.values[n]
  BY <1>1, <1>2, <1>3, <1>5, SanitizedValues
<1>6. \A s \in JwtView(v, who).names : s = IdentityHeader \/ s \in v.names
  BY <1>1, <1>3, SanitizedNames
<1>7. Coherent(v) => Coherent(JwtView(v, who)) BY <1>1, <1>3, SanitizedCoherent
<1> QED BY <1>4, <1>5, <1>6, <1>7

\* A message to a service belongs to a request past the filters and shows
\* the view they left.
LEMMA MessageOfAdmitted ==
  ASSUME GatewayInvariant, NEW w \in Worker, NEW m \in sent[w]
  PROVE  /\ PastFilters(w) /\ m.view = AdmittedView(w)
         /\ wire[w].view \in View /\ Coherent(wire[w].view)
         /\ GuardView(wire[w].view, traceId[w]) \in View
         /\ Protected(wire[w]) => ProvenSubject(props, wire[w]) \in Subject
         /\ [service |-> m.service, path |-> m.path] \in Routes(wire[w].path)
<1>1. StageInvariant(w) /\ sent[w] # {} BY DEF GatewayInvariant
<1>2. PastFilters(w) BY <1>1 DEF StageInvariant, AtDone
<1>3. m.view = view[w] BY <1>1 DEF StageInvariant
<1>4. m.view = AdmittedView(w) BY <1>2, <1>3 DEF PastFilters
<1>5. wire[w].view \in View /\ Coherent(wire[w].view)
  BY <1>2, GatewayAssumption DEF PastFilters
<1>6. GuardView(wire[w].view, traceId[w]) \in View
  BY <1>2, <1>5, GuardViewType DEF PastFilters
<1>7. Protected(wire[w]) => ProvenSubject(props, wire[w]) \in Subject
  BY <1>2 DEF PastFilters, Admitted, ProvenSubject, Genuine, IdentityClaimsValid
<1>8. [service |-> m.service, path |-> m.path] \in Routes(wire[w].path)
  BY <1>1 DEF StageInvariant
<1> QED BY <1>2, <1>4, <1>5, <1>6, <1>7, <1>8

LEMMA InvariantImpliesIdentity == GatewayInvariant => IdentityVerified
<1> SUFFICES ASSUME GatewayInvariant, NEW w \in Worker, NEW m \in sent[w]
    PROVE  IF Protected(wire[w])
           THEN /\ ProvenSubject(props, wire[w]) # Nothing
                /\ m.view.values[Fold[IdentityHeader]] = <<ProvenSubject(props, wire[w])>>
           ELSE m.view.values[Fold[IdentityHeader]] = <<>>
  BY DEF IdentityVerified
<1> DEFINE who == ProvenSubject(props, wire[w])
           g   == GuardView(wire[w].view, traceId[w])
<1>1. /\ PastFilters(w) /\ m.view = AdmittedView(w) /\ g \in View
      /\ wire[w].view \in View /\ traceId[w] \in Trace
  BY MessageOfAdmitted DEF PastFilters
<1>2. CASE Protected(wire[w])
  <2>1. who \in Subject /\ who # Nothing
    BY <1>1, <1>2, MessageOfAdmitted DEF PastFilters, Admitted
  <2>2. m.view = JwtView(g, who) BY <1>1, <1>2 DEF AdmittedView
  <2> HIDE DEF g, who
  <2>3. m.view.values[Fold[IdentityHeader]] = <<who>> BY <1>1, <2>1, <2>2, JwtViewShows
  <2> QED BY <1>2, <2>1, <2>3 DEF who
<1>3. CASE ~Protected(wire[w])
  BY <1>1, <1>3, GuardViewShows DEF AdmittedView
<1> QED BY <1>2, <1>3

LEMMA InvariantImpliesHidden == GatewayInvariant => InternalHeadersHidden
<1> SUFFICES ASSUME GatewayInvariant, NEW w \in Worker, NEW m \in sent[w],
                    NEW h \in InternalHeaders,
                    Fold[h] # Fold[IdentityHeader], Fold[h] # Fold[TraceHeader]
    PROVE  m.view.values[Fold[h]] = <<>> /\ \A s \in m.view.names : Fold[s] # Fold[h]
  BY DEF InternalHeadersHidden
<1> DEFINE who == ProvenSubject(props, wire[w])
           g   == GuardView(wire[w].view, traceId[w])
<1>1. /\ PastFilters(w) /\ m.view = AdmittedView(w) /\ g \in View
      /\ wire[w].view \in View /\ traceId[w] \in Trace
      /\ Protected(wire[w]) => who \in Subject
  BY MessageOfAdmitted DEF PastFilters
<1>2. g.values[Fold[h]] = <<>> /\ \A s \in g.names : Fold[s] # Fold[h]
  BY <1>1, GuardViewShows
<1>3. Fold[h] \in HeaderName BY GatewayAssumption, FoldAssumption
<1>4. CASE Protected(wire[w])
  <2>1. m.view = JwtView(g, who) /\ who \in Subject BY <1>1, <1>4 DEF AdmittedView
  <2> HIDE DEF g, who
  <2>2. m.view.values[Fold[h]] = <<>> BY <1>1, <1>2, <1>3, <2>1, JwtViewShows
  <2>3. \A s \in m.view.names : s = IdentityHeader \/ s \in g.names
    BY <1>1, <2>1, JwtViewShows
  <2> QED BY <1>2, <2>2, <2>3
<1>5. CASE ~Protected(wire[w])
  BY <1>1, <1>2, <1>5 DEF AdmittedView
<1> QED BY <1>4, <1>5

LEMMA InvariantImpliesCopiedOnce == GatewayInvariant => CopiedOnce
<1> SUFFICES ASSUME GatewayInvariant, NEW w \in Worker, NEW m \in sent[w]
    PROVE  Coherent(m.view)
  BY DEF CopiedOnce
<1> DEFINE who == ProvenSubject(props, wire[w])
           g   == GuardView(wire[w].view, traceId[w])
<1>1. /\ m.view = AdmittedView(w) /\ g \in View /\ Coherent(wire[w].view)
      /\ wire[w].view \in View /\ traceId[w] \in Trace
      /\ Protected(wire[w]) => who \in Subject
  BY MessageOfAdmitted DEF PastFilters
<1>2. Coherent(g) BY <1>1, GuardViewShows
<1>3. CASE Protected(wire[w])
  <2>1. m.view = JwtView(g, who) /\ who \in Subject BY <1>1, <1>3 DEF AdmittedView
  <2> HIDE DEF g, who
  <2> QED BY <1>1, <1>2, <2>1, JwtViewShows
<1>4. CASE ~Protected(wire[w])
  BY <1>1, <1>2, <1>4 DEF AdmittedView
<1> QED BY <1>3, <1>4

LEMMA InvariantImpliesTrace == GatewayInvariant => TraceAgrees
<1> SUFFICES ASSUME GatewayInvariant PROVE TraceAgrees OBVIOUS
<1>1. ASSUME NEW w \in Worker, NEW m \in sent[w]
      PROVE  m.view.values[Fold[TraceHeader]] = <<traceId[w]>>
  <2> DEFINE who == ProvenSubject(props, wire[w])
             g   == GuardView(wire[w].view, traceId[w])
  <2>1. /\ m.view = AdmittedView(w) /\ g \in View
        /\ wire[w].view \in View /\ traceId[w] \in Trace
        /\ Protected(wire[w]) => who \in Subject
    BY <1>1, MessageOfAdmitted DEF PastFilters
  <2>2. g.values[Fold[TraceHeader]] = <<traceId[w]>> BY <2>1, GuardViewShows
  <2>3. Fold[TraceHeader] \in HeaderName /\ Fold[TraceHeader] # Fold[IdentityHeader]
    BY GatewayAssumption, FoldAssumption
  <2>4. CASE Protected(wire[w])
    <3>1. m.view = JwtView(g, who) /\ who \in Subject BY <2>1, <2>4 DEF AdmittedView
    <3> HIDE DEF g, who
    <3> QED BY <2>1, <2>2, <2>3, <3>1, JwtViewShows
  <2>5. CASE ~Protected(wire[w]) BY <2>1, <2>2, <2>5 DEF AdmittedView
  <2> QED BY <2>4, <2>5
<1>2. ASSUME NEW w \in Worker, reply[w] # Nothing PROVE traceId[w] # Nothing
  <2>1. traceId[w] \in Trace BY <1>2 DEF GatewayInvariant, StageInvariant, AtDone
  <2> QED BY <2>1, GatewayAssumption
<1> QED BY <1>1, <1>2 DEF TraceAgrees, GatewayInvariant, TracesApart

LEMMA InvariantImpliesRefused == GatewayInvariant => RefusedNotForwarded
<1> SUFFICES ASSUME GatewayInvariant, NEW w \in Worker, reply[w] # Nothing,
                    reply[w].status \in {400, 401, 403, 404, 503}
    PROVE  sent[w] = {}
  BY DEF RefusedNotForwarded
<1>1. StageInvariant(w) /\ stage[w] = "done" BY DEF GatewayInvariant, StageInvariant
<1>2. sent[w] # {} => reply[w].status \in {200, 500} BY <1>1 DEF StageInvariant, AtDone
<1> QED BY <1>2

\* A route that puts its own prefix back changes nothing.
LEMMA NotRewritten ==
  ASSUME NEW prefix \in Seq(Segment), NEW p \in Seq(Segment), IsPrefix(prefix, p)
  PROVE  prefix \o Behind(prefix, p) = p
<1> DEFINE n == Len(prefix)
           rest == SubSeq(p, n + 1, Len(p))
<1>1. n \in Nat /\ Len(p) \in Nat /\ n <= Len(p) /\ prefix = SubSeq(p, 1, n)
  BY DEF IsPrefix
<1>2. \A i \in 1..Len(p) : p[i] \in Segment BY ElementOfSeq
<1> HIDE DEF n
<1>3. /\ rest \in Seq(Segment) /\ Len(rest) = Len(p) - n
      /\ \A i \in 1..(Len(p) - n) : rest[i] = p[n + i]
  <2>1. \A i \in (n + 1)..Len(p) : p[i] \in Segment BY <1>1, <1>2
  <2>2. n + 1 \in Int /\ Len(p) \in Int BY <1>1
  <2>3. /\ rest \in Seq(Segment)
        /\ Len(rest) = IF n + 1 <= Len(p) THEN Len(p) - (n + 1) + 1 ELSE 0
        /\ \A i \in 1..(Len(p) - (n + 1) + 1) : rest[i] = p[n + 1 + i - 1]
    BY <2>1, <2>2, SubSeqProperties
  <2> HIDE DEF rest
  <2> QED BY <1>1, <2>3
<1>4. \A i \in 1..n : prefix[i] = p[i]
  <2>1. \A i \in 1..n : p[i] \in Segment BY <1>1, <1>2
  <2>2. \A i \in 1..(n - 1 + 1) : SubSeq(p, 1, n)[i] = p[1 + i - 1]
    BY <1>1, <2>1, SubSeqProperties
  <2> QED BY <1>1, <2>2
<1> HIDE DEF rest
<1>5. /\ prefix \o rest \in Seq(Segment) /\ Len(prefix \o rest) = n + Len(rest)
      /\ \A i \in 1..(n + Len(rest)) :
           (prefix \o rest)[i] = IF i <= n THEN prefix[i] ELSE rest[i - n]
  BY <1>3, ConcatProperties DEF n
<1>6. Len(prefix \o rest) = Len(p) BY <1>1, <1>3, <1>5
<1>7. \A i \in 1..Len(p) : (prefix \o rest)[i] = p[i]
  <2> SUFFICES ASSUME NEW i \in 1..Len(p) PROVE (prefix \o rest)[i] = p[i] OBVIOUS
  <2>1. CASE i <= n BY <1>1, <1>3, <1>4, <1>5, <2>1
  <2>2. CASE i > n
    <3>1. i - n \in 1..(Len(p) - n) /\ n + (i - n) = i BY <1>1, <2>2
    <3>2. rest[i - n] = p[i] BY <1>3, <3>1
    <3> QED BY <1>1, <1>3, <1>5, <2>2, <3>2
  <2>3. n \in Int /\ i \in Int BY <1>1
  <2>4. i <= n \/ i > n BY <2>3
  <2> QED BY <2>1, <2>2, <2>4
<1>8. prefix \o rest = p BY <1>5, <1>6, <1>7, SeqEqual
<1> QED BY <1>8 DEF rest, n, Behind

\* A transfer path is routed to Banking and nowhere else, and not rewritten.
LEMMA TransferRoute ==
  ASSUME NEW r \in Routes(TransferPath)
  PROVE  r.service = "banking" /\ r.path = TransferPath
<1> DEFINE p == <<"api", "v1", "banking", "transfers">>
<1>1. p # WorkDocs
  <2>1. Len(p) # Len(WorkDocs) BY DEF WorkDocs
  <2> QED BY <2>1
<1>2. PICK row \in RouteTable : IsPrefix(row.prefix, p) /\ r = Target(row, p)
  BY <1>1 DEF Routes, Matching, TransferPath
<1>3. CASE \E service \in Services \ {"work"} : row = DocsRoute(service)
  <2>1. row.prefix[1] = "docs" /\ Len(row.prefix) = 2 BY <1>3 DEF DocsRoute
  <2>2. row.prefix[1] = p[1] BY <1>2, <2>1 DEF IsPrefix
  <2> QED BY <2>1, <2>2
<1>4. CASE \E service \in Services : row = ApiRoute(service)
  <2>1. PICK service \in Services : row = ApiRoute(service) BY <1>4
  <2>2. row.prefix[3] = ApiName(service) /\ Len(row.prefix) = 3 BY <2>1 DEF ApiRoute
  <2>3. row.prefix[3] = p[3] BY <1>2, <2>2 DEF IsPrefix
  <2>4. ApiName(service) = "banking" BY <2>2, <2>3
  <2>5. service = "banking" BY <2>4 DEF ApiName, Services
  <2>6. row = [prefix |-> <<"api", "v1", "banking">>, service |-> "banking",
               becomes |-> <<"api", "v1", "banking">>]
    BY <2>1, <2>5 DEF ApiRoute, ApiName
  <2>7. {"api", "v1", "banking", "transfers"} \subseteq Segment BY GatewayAssumption
  <2>8. p \in Seq(Segment) /\ row.prefix \in Seq(Segment) BY <2>6, <2>7
  <2>9. row.prefix \o Behind(row.prefix, p) = p BY <1>2, <2>8, NotRewritten
  <2> QED BY <1>2, <2>6, <2>9 DEF Target, TransferPath
<1> QED BY <1>2, <1>3, <1>4 DEF RouteTable

\* What Banking is sent under a transfer path came in under that path, or was
\* rewritten from a path of its documents.
LEMMA TransferSource ==
  ASSUME NEW p \in Seq(Segment), NEW r \in Routes(p),
         r.service = "banking", r.path = TransferPath
  PROVE  p = TransferPath \/ IsPrefix(DocsRoute("banking").prefix, p)
<1>1. CASE p = WorkDocs /\ r = [service |-> "work", path |-> <<"openapi.json">>]
  BY <1>1
<1>2. CASE \E row \in RouteTable : IsPrefix(row.prefix, p) /\ r = Target(row, p)
  <2>1. PICK row \in RouteTable : IsPrefix(row.prefix, p) /\ r = Target(row, p) BY <1>2
  <2>2. row.service = "banking" BY <2>1 DEF Target
  <2>3. CASE \E service \in Services \ {"work"} : row = DocsRoute(service)
    BY <2>1, <2>2, <2>3 DEF DocsRoute
  <2>4. CASE \E service \in Services : row = ApiRoute(service)
    <3>1. row.prefix = <<"api", "v1", "banking">> /\ row.becomes = row.prefix
      BY <2>2, <2>4 DEF ApiRoute, ApiName
    <3>2. {"api", "v1", "banking"} \subseteq Segment BY GatewayAssumption
    <3>3. row.prefix \in Seq(Segment) BY <3>1, <3>2
    <3>4. row.prefix \o Behind(row.prefix, p) = p BY <2>1, <3>3, NotRewritten
    <3> QED BY <2>1, <3>1, <3>4 DEF Target
  <2> QED BY <2>1, <2>3, <2>4 DEF RouteTable
<1> QED BY <1>1, <1>2 DEF Routes, Matching

LEMMA InvariantImpliesTransfer == GatewayInvariant => TransferKeyed
<1> SUFFICES ASSUME GatewayInvariant, NEW w \in Worker, NEW m \in sent[w]
    PROVE  /\ IsTransfer(wire[w]) => TransferAtBanking(w, m)
           /\ TransferAtBanking(w, m) /\ ~ByBankingDocs(w) =>
                /\ m.view.values["idempotency-key"] = Keys(wire[w])
                /\ \E key \in ValidKey : Keys(wire[w]) = <<key>>
  BY DEF TransferKeyed
<1> DEFINE who == ProvenSubject(props, wire[w])
           g   == GuardView(wire[w].view, traceId[w])
           k   == "idempotency-key"
<1>1. /\ m.view = AdmittedView(w) /\ g \in View /\ PastFilters(w)
      /\ wire[w].view \in View /\ traceId[w] \in Trace /\ wire[w] \in ClientRequest
      /\ Protected(wire[w]) => who \in Subject
      /\ [service |-> m.service, path |-> m.path] \in Routes(wire[w].path)
  BY MessageOfAdmitted DEF PastFilters
<1>2. IsTransfer(wire[w]) => TransferAtBanking(w, m)
  BY <1>1, TransferRoute DEF IsTransfer, TransferAtBanking
<1>3. ASSUME TransferAtBanking(w, m), ~ByBankingDocs(w)
      PROVE  m.view.values[k] = Keys(wire[w]) /\ \E key \in ValidKey : Keys(wire[w]) = <<key>>
  <2>1. wire[w].path = TransferPath
    <3>1. wire[w].path \in Seq(Segment) BY <1>1, GatewayAssumption
    <3> QED BY <1>1, <1>3, <3>1, TransferSource DEF TransferAtBanking, ByBankingDocs
  <2>2. IsTransfer(wire[w]) BY <1>3, <2>1 DEF TransferAtBanking, IsTransfer
  <2>3. k \in HeaderName /\ k # Fold[IdentityHeader] BY GatewayAssumption
  <2>4. g.values[k] = Keys(wire[w]) BY <1>1, GuardViewShows DEF Keys
  <2>5. m.view.values[k] = Keys(wire[w])
    <3>1. CASE Protected(wire[w])
      <4>1. m.view = JwtView(g, who) /\ who \in Subject BY <1>1, <3>1 DEF AdmittedView
      <4> HIDE DEF g, who, k
      <4> QED BY <1>1, <2>3, <2>4, <4>1, JwtViewShows
    <3>2. CASE ~Protected(wire[w]) BY <1>1, <2>4, <3>2 DEF AdmittedView
    <3> QED BY <3>1, <3>2
  <2>6. Len(Keys(wire[w])) = 1 /\ Keys(wire[w])[1] \in ValidKey
    BY <1>1, <2>2 DEF PastFilters, Admitted, SingleValidKey
  <2>7. Keys(wire[w]) \in Seq(Value) BY <1>1, <2>3 DEF Keys, View
  <2>8. Keys(wire[w]) = <<Keys(wire[w])[1]>> BY <2>6, <2>7
  <2> QED BY <2>5, <2>6, <2>8
<1> QED BY <1>2, <1>3

(***************************************************************************)
(* The theorems                                                            *)
(***************************************************************************)
\* Types of the gateway's variables: what filters wrap, answer and forward.
THEOREM GatewayTypes == Spec => []TypeOK
<1>1. GatewayInvariant => TypeOK BY DEF GatewayInvariant
<1> QED BY <1>1, GatewayInvariantHolds, PTL

\* The services behind the gateway read a verified identity or none.
THEOREM IdentityIsVerified == Spec => []IdentityVerified
BY GatewayInvariantHolds, InvariantImpliesIdentity, PTL

\* No internal header of a client reaches a service.
THEOREM InternalHeadersAreHidden == Spec => []InternalHeadersHidden
BY GatewayInvariantHolds, InvariantImpliesHidden, PTL

\* No header reaches a service twice or gets lost between the wrappers.
THEOREM HeadersAreCopiedOnce == Spec => []CopiedOnce
BY GatewayInvariantHolds, InvariantImpliesCopiedOnce, PTL

\* Client and service read the same trace, and no two requests share one.
THEOREM TracesAgree == Spec => []TraceAgrees
BY GatewayInvariantHolds, InvariantImpliesTrace, PTL

\* What Banking is sent as a transfer carries the client's one well-formed key,
\* whichever route it took, except that of Banking's documents.
THEOREM TransfersAreKeyed == Spec => []TransferKeyed
BY GatewayInvariantHolds, InvariantImpliesTransfer, PTL

\* A refused request was not forwarded.
THEOREM RefusalsAreNotForwarded == Spec => []RefusedNotForwarded
BY GatewayInvariantHolds, InvariantImpliesRefused, PTL

\* An answer is final: only the worker's release or a restart follows it.
THEOREM AnswersAreFinal == Spec => AnswerIsFinal
<1> DEFINE Final(w) == reply[w] # Nothing =>
             reply'[w] = Nothing \/ (reply'[w] = reply[w] /\ sent'[w] = sent[w])
<1>1. ASSUME GatewayInvariant, [Next]_vars, NEW w \in Worker PROVE Final(w)
  <2> SUFFICES ASSUME reply[w] # Nothing
               PROVE  reply'[w] = Nothing \/ (reply'[w] = reply[w] /\ sent'[w] = sent[w])
    OBVIOUS
  <2>0. stage[w] = "done" /\ TypeOK
    BY <1>1 DEF GatewayInvariant, StageInvariant
  <2>1. CASE Boot \/ Tick \/ KeySetComesOrGoes \/ KeyCacheExpires \/ UNCHANGED vars
    BY <2>1 DEF Boot, Tick, KeySetComesOrGoes, KeyCacheExpires, vars, request
  <2>2. CASE Restart BY <2>2 DEF Restart, NoRequests
  <2>3. ASSUME NEW x \in Worker, NEW q \in ClientRequest, Receive(x, q)
        PROVE  reply'[w] = reply[w] /\ sent'[w] = sent[w]
    BY <2>3 DEF Receive
  <2>4. ASSUME NEW x \in Worker, Release(x)
        PROVE  reply'[w] = Nothing \/ (reply'[w] = reply[w] /\ sent'[w] = sent[w])
    BY <2>0, <2>4 DEF Release, TypeOK
  <2>5. ASSUME NEW x \in Worker, GuardFilter(x) \/ CorsFilter(x)
        PROVE  reply'[w] = reply[w] /\ sent'[w] = sent[w]
    BY <2>0, <2>5 DEF GuardFilter, GuardPass, GuardReject, CorsFilter, CorsPass,
                      CorsPreflight, CorsRefuse, Answer, TypeOK
  <2>6. ASSUME NEW x \in Worker, JwtFilter(x)
        PROVE  reply'[w] = reply[w] /\ sent'[w] = sent[w]
    BY <2>0, <2>6 DEF JwtFilter, JwtNotFiltered, JwtUnauthenticated, JwtUnconfigured,
                      JwtDecode, JwtFetchKeys, JwtKeysArrive, JwtKeysTimeout, Decoded,
                      Answer, TypeOK
  <2>7. ASSUME NEW x \in Worker, Dispatch(x)
        PROVE  reply'[w] = reply[w] /\ sent'[w] = sent[w]
    BY <2>0, <2>7 DEF Dispatch, Forward, ServeLocally, ServiceAnswers, Answer, TypeOK
  <2> QED BY <1>1, <2>1, <2>2, <2>3, <2>4, <2>5, <2>6, <2>7 DEF Next
<1>2. GatewayInvariant /\ [Next]_vars => [\A w \in Worker : Final(w)]_vars BY <1>1
<1> QED BY <1>2, GatewayInvariantHolds, PTL DEF Spec, AnswerIsFinal

\* A token is judged by the clock of the moment of admission.
THEOREM AdmissionIsTimely == Spec => NotExpiredWhenAdmitted
<1> DEFINE Timely(w) ==
      stage[w] \in {"jwt", "fetch"} /\ stage'[w] = "cors" /\ Protected(wire[w]) =>
        TimestampValid(Claims[BearerToken(wire[w].view)], now)
<1>1. ASSUME GatewayInvariant, [Next]_vars, NEW w \in Worker,
             stage[w] \in {"jwt", "fetch"}, stage'[w] = "cors", Protected(wire[w])
      PROVE  TimestampValid(Claims[BearerToken(wire[w].view)], now)
  <2>0. TypeOK /\ AtJwt(w) BY <1>1 DEF GatewayInvariant, StageInvariant
  <2>1. stage'[w] # stage[w] BY <1>1
  <2>2. ~(Boot \/ Restart \/ Tick \/ KeySetComesOrGoes \/ KeyCacheExpires \/ UNCHANGED vars)
    BY <1>1, <2>1 DEF Boot, Restart, NoRequests, Tick, KeySetComesOrGoes, KeyCacheExpires,
                      vars, request
  <2>3. ASSUME NEW x \in Worker, NEW q \in ClientRequest, Receive(x, q) PROVE FALSE
    BY <1>1, <2>0, <2>1, <2>3 DEF Receive, TypeOK
  <2>4. ASSUME NEW x \in Worker,
               GuardFilter(x) \/ CorsFilter(x) \/ Dispatch(x) \/ Release(x)
        PROVE  FALSE
    BY <1>1, <2>0, <2>1, <2>4
       DEF GuardFilter, GuardPass, GuardReject, CorsFilter, CorsPass, CorsPreflight,
           CorsRefuse, Dispatch, Forward, ServeLocally, ServiceAnswers, Release, Answer, TypeOK
  <2>5. PICK x \in Worker : JwtFilter(x) BY <1>1, <2>2, <2>3, <2>4 DEF Next
  <2>6. x = w
    BY <1>1, <2>0, <2>1, <2>5
       DEF JwtFilter, JwtNotFiltered, JwtUnauthenticated, JwtUnconfigured, JwtDecode,
           JwtFetchKeys, JwtKeysArrive, JwtKeysTimeout, Decoded, Answer, TypeOK
  <2>7. (JwtDecode(w) \/ JwtKeysArrive(w)) /\ Decoded(w)
    BY <1>1, <2>0, <2>5, <2>6
       DEF JwtFilter, JwtNotFiltered, JwtUnauthenticated, JwtUnconfigured, JwtDecode,
           JwtFetchKeys, JwtKeysArrive, JwtKeysTimeout, Answer, TypeOK, Protected
  <2>8. Accepts(props, BearerToken(view[w]), now)
    BY <1>1, <2>0, <2>7 DEF Decoded, Answer, TypeOK
  <2>9. BearerToken(view[w]) = BearerToken(wire[w].view)
    <3>1. HasToken(w) BY <1>1, <2>7 DEF JwtDecode, JwtKeysArrive, GatewayInvariant, StageInvariant
    <3> QED BY <2>0, <3>1, GuardKeepsBearer DEF AtJwt, HasToken
  <2> QED BY <2>8, <2>9 DEF Accepts, ContractValid
<1>2. GatewayInvariant /\ [Next]_vars => [\A w \in Worker : Timely(w)]_vars BY <1>1
<1> QED BY <1>2, GatewayInvariantHolds, PTL DEF Spec, NotExpiredWhenAdmitted

-----------------------------------------------------------------------------
(***************************************************************************)
(* The gateway implements IdentityBoundary: under the mapping of           *)
(* GatewayProperties each step of GatewayFilters is a step of the promise  *)
(* or leaves it unchanged.  First what makes a step of the promise, worker *)
(* by worker; then, action by action, which one the gateway takes.         *)
(***************************************************************************)
Needs(w)  == wire[w] # Nothing /\ Protected(wire[w])
Proves(w) == IF wire[w] = Nothing THEN Nothing ELSE ProvenSubject(props, wire[w])

\* The promise sees nothing of a step at worker x.
Calm(x) ==
  /\ VisitOf(x)' = VisitOf(x)
  /\ Needs(x)' = Needs(x)
  /\ Proves(x)' = Proves(x)
  /\ AnnouncedOf(x)' = AnnouncedOf(x)

LEMMA AllCalm ==
  ASSUME \A x \in Worker : Calm(x)
  PROVE  UNCHANGED Boundary!boundaryVars
BY DEF Calm, Boundary!boundaryVars, Needs, Proves

LEMMA IsKnock ==
  ASSUME NEW w \in Worker, \A x \in Worker \ {w} : Calm(x),
         VisitOf(w) = "none", VisitOf(w)' = "knocking",
         Proves(w)' \in Subject \cup {Nothing}, AnnouncedOf(w)' = AnnouncedOf(w)
  PROVE  Boundary!Knock(w)
<1>1. Needs(w)' \in BOOLEAN
  BY DEF Needs
<1>2. [x \in Worker |-> VisitOf(x)'] = [[x \in Worker |-> VisitOf(x)] EXCEPT ![w] = "knocking"]
  BY DEF Calm
<1>3. [x \in Worker |-> Needs(x)'] = [[x \in Worker |-> Needs(x)] EXCEPT ![w] = Needs(w)']
  BY DEF Calm
<1>4. [x \in Worker |-> Proves(x)'] = [[x \in Worker |-> Proves(x)] EXCEPT ![w] = Proves(w)']
  BY DEF Calm
<1>5. [x \in Worker |-> AnnouncedOf(x)'] = [x \in Worker |-> AnnouncedOf(x)]
  BY DEF Calm
<1>6. QED
  BY <1>1, <1>2, <1>3, <1>4, <1>5 DEF Boundary!Knock, Needs, Proves

LEMMA IsLetIn ==
  ASSUME NEW w \in Worker, \A x \in Worker \ {w} : Calm(x),
         VisitOf(w) = "knocking", VisitOf(w)' = "in",
         Needs(w)' = Needs(w), Proves(w)' = Proves(w),
         Needs(w) => Proves(w) # Nothing,
         AnnouncedOf(w)' = IF Needs(w) THEN Proves(w) ELSE Nothing
  PROVE  Boundary!LetIn(w)
<1>1. [x \in Worker |-> VisitOf(x)'] = [[x \in Worker |-> VisitOf(x)] EXCEPT ![w] = "in"]
  BY DEF Calm
<1>2. [x \in Worker |-> Needs(x)'] = [x \in Worker |-> Needs(x)]
  BY DEF Calm
<1>3. [x \in Worker |-> Proves(x)'] = [x \in Worker |-> Proves(x)]
  BY DEF Calm
<1>4. [x \in Worker |-> AnnouncedOf(x)'] =
        [[x \in Worker |-> AnnouncedOf(x)] EXCEPT ![w] = IF Needs(w) THEN Proves(w) ELSE Nothing]
  BY DEF Calm
<1>5. QED
  BY <1>1, <1>2, <1>3, <1>4 DEF Boundary!LetIn, Needs, Proves

LEMMA IsTurnAway ==
  ASSUME NEW w \in Worker, \A x \in Worker \ {w} : Calm(x),
         VisitOf(w) = "knocking", VisitOf(w)' = "away",
         Needs(w)' = Needs(w), Proves(w)' = Proves(w), AnnouncedOf(w)' = AnnouncedOf(w)
  PROVE  Boundary!TurnAway(w)
<1>1. [x \in Worker |-> VisitOf(x)'] = [[x \in Worker |-> VisitOf(x)] EXCEPT ![w] = "away"]
  BY DEF Calm
<1>2. [x \in Worker |-> Needs(x)'] = [x \in Worker |-> Needs(x)]
  BY DEF Calm
<1>3. [x \in Worker |-> Proves(x)'] = [x \in Worker |-> Proves(x)]
  BY DEF Calm
<1>4. [x \in Worker |-> AnnouncedOf(x)'] = [x \in Worker |-> AnnouncedOf(x)]
  BY DEF Calm
<1>5. QED
  BY <1>1, <1>2, <1>3, <1>4 DEF Boundary!TurnAway, Needs, Proves

\* A worker without a request is a door without a visit.
Vacant(x) ==
  /\ VisitOf(x)' = "none"
  /\ Needs(x)' = FALSE
  /\ Proves(x)' = Nothing
  /\ AnnouncedOf(x)' = Nothing

LEMMA IsLeave ==
  ASSUME NEW gone \in SUBSET Worker,
         \A x \in Worker \ gone : Calm(x), \A x \in gone : Vacant(x)
  PROVE  Boundary!Leave(gone)
<1>1. [x \in Worker |-> VisitOf(x)'] = [x \in Worker |-> IF x \in gone THEN "none" ELSE VisitOf(x)]
  BY DEF Calm, Vacant
<1>2. [x \in Worker |-> Needs(x)'] = [x \in Worker |-> IF x \in gone THEN FALSE ELSE Needs(x)]
  BY DEF Calm, Vacant
<1>3. [x \in Worker |-> Proves(x)'] = [x \in Worker |-> IF x \in gone THEN Nothing ELSE Proves(x)]
  BY DEF Calm, Vacant
<1>4. [x \in Worker |-> AnnouncedOf(x)'] =
        [x \in Worker |-> IF x \in gone THEN Nothing ELSE AnnouncedOf(x)]
  BY DEF Calm, Vacant
<1>5. QED
  BY <1>1, <1>2, <1>3, <1>4 DEF Boundary!Leave, Needs, Proves

-----------------------------------------------------------------------------
\* Whatever is not part of the mapping may change.
LEMMA CalmFrame ==
  ASSUME NEW x \in Worker, props' = props,
         stage'[x] = stage[x], wire'[x] = wire[x], sent'[x] = sent[x]
  PROVE  Calm(x)
BY DEF Calm, VisitOf, Idle, Needs, Proves, AnnouncedOf

\* Before anything is forwarded nobody is announced.
LEMMA Unannounced ==
  ASSUME NEW w \in Worker, sent[w] = {}
  PROVE  AnnouncedOf(w) = Nothing
BY DEF AnnouncedOf

LEMMA UnannouncedNext ==
  ASSUME NEW w \in Worker, sent'[w] = {}
  PROVE  AnnouncedOf(w)' = Nothing
BY DEF AnnouncedOf

\* A worker that passes a stage on the way to the service.
LEMMA CalmPassage ==
  ASSUME NEW w \in Worker, props' = props, wire'[w] = wire[w],
         sent[w] = {}, sent'[w] = {},
         stage[w] \notin {"idle", "done"}, stage'[w] \notin {"idle", "done"}
  PROVE  Calm(w)
<1>1. VisitOf(w) = "knocking" /\ VisitOf(w)' = "knocking"
  BY DEF VisitOf, Idle
<1>2. AnnouncedOf(w)' = AnnouncedOf(w)
  BY Unannounced, UnannouncedNext
<1>3. Needs(w)' = Needs(w) /\ Proves(w)' = Proves(w)
  BY DEF Needs, Proves
<1>4. QED
  BY <1>1, <1>2, <1>3 DEF Calm

\* A request that is answered without having been forwarded.
LEMMA AnsweredAway ==
  ASSUME NEW w \in Worker, \A x \in Worker \ {w} : Calm(x), props' = props,
         wire'[w] = wire[w], sent[w] = {}, sent'[w] = {},
         stage[w] \notin {"idle", "done"}, stage'[w] = "done"
  PROVE  Boundary!TurnAway(w)
<1>1. VisitOf(w) = "knocking" /\ VisitOf(w)' = "away"
  BY DEF VisitOf, Idle
<1>2. AnnouncedOf(w)' = AnnouncedOf(w)
  BY Unannounced, UnannouncedNext
<1>3. Needs(w)' = Needs(w) /\ Proves(w)' = Proves(w)
  BY DEF Needs, Proves
<1>4. QED
  BY <1>1, <1>2, <1>3, IsTurnAway

\* An action of one worker that goes on or answers, forwarding nothing.
BoundaryStep == [Boundary!BoundaryNext]_(Boundary!boundaryVars)

LEMMA QuietAction ==
  ASSUME GatewayInvariant, NEW w \in Worker, props' = props,
         \A x \in Worker \ {w} : stage'[x] = stage[x],
         wire' = wire, sent' = sent, sent[w] = {},
         stage[w] \notin {"idle", "done"}, stage'[w] # "idle"
  PROVE  BoundaryStep
<1>1. \A x \in Worker \ {w} : Calm(x)
  BY CalmFrame
<1>2. CASE stage'[w] = "done"
  <2>1. Boundary!TurnAway(w)
    BY <1>1, <1>2, AnsweredAway
  <2>2. QED
    BY <2>1 DEF BoundaryStep, Boundary!BoundaryNext
<1>3. CASE stage'[w] # "done"
  <2>1. Calm(w)
    BY <1>3, CalmPassage
  <2>2. UNCHANGED Boundary!boundaryVars
    BY <1>1, <2>1, AllCalm
  <2>3. QED
    BY <2>2 DEF BoundaryStep
<1>4. QED
  BY <1>2, <1>3

LEMMA FilterBoundary ==
  ASSUME GatewayInvariant, NEW w \in Worker,
         GuardFilter(w) \/ JwtFilter(w) \/ CorsFilter(w) \/ ServeLocally(w)
  PROVE  BoundaryStep
<1>1. stage \in [Worker -> Stages]
  BY DEF GatewayInvariant, TypeOK
<1>2. /\ stage[w] \in {"guard", "jwt", "fetch", "cors", "route"}
      /\ UNCHANGED <<props, wire, sent>>
  BY DEF GuardFilter, GuardPass, GuardReject, JwtFilter, JwtNotFiltered,
         JwtUnauthenticated, JwtUnconfigured, JwtDecode, JwtFetchKeys, JwtKeysArrive,
         JwtKeysTimeout, CorsFilter, CorsPass, CorsPreflight, CorsRefuse, ServeLocally,
         process
<1>3. \E to \in {"jwt", "fetch", "cors", "route", "done"} :
        stage' = [stage EXCEPT ![w] = to]
  BY DEF GuardFilter, GuardPass, GuardReject, JwtFilter, JwtNotFiltered,
         JwtUnauthenticated, JwtUnconfigured, JwtDecode, JwtFetchKeys, JwtKeysArrive,
         JwtKeysTimeout, Decoded, CorsFilter, CorsPass, CorsPreflight, CorsRefuse,
         ServeLocally, Answer
<1>4. sent[w] = {}
  BY <1>2 DEF GatewayInvariant, StageInvariant
<1>5. (\A x \in Worker \ {w} : stage'[x] = stage[x]) /\ stage'[w] # "idle"
  BY <1>1, <1>3
<1>6. QED
  BY <1>2, <1>4, <1>5, QuietAction

LEMMA ReceiveBoundary ==
  ASSUME GatewayInvariant, GatewayInvariant', NEW w \in Worker,
         NEW q \in ClientRequest, Receive(w, q)
  PROVE  BoundaryStep
<1>1. /\ stage[w] = "idle" /\ stage' = [stage EXCEPT ![w] = "guard"]
      /\ wire' = [wire EXCEPT ![w] = q]
      /\ UNCHANGED <<props, sent>>
  BY DEF Receive, Idle, process
<1>2. TypeOK /\ sent[w] = {}
  BY <1>1 DEF GatewayInvariant, StageInvariant
<1>3. \A x \in Worker \ {w} : Calm(x)
  BY <1>1, <1>2, CalmFrame DEF TypeOK
<1>4. VisitOf(w) = "none" /\ VisitOf(w)' = "knocking"
  BY <1>1, <1>2 DEF VisitOf, Idle, TypeOK
<1>5. AnnouncedOf(w)' = AnnouncedOf(w)
  BY <1>1, <1>2, Unannounced, UnannouncedNext
<1>6. Proves(w)' \in Subject \cup {Nothing}
  BY <1>1, <1>2 DEF Proves, ProvenSubject, Genuine, IdentityClaimsValid, TypeOK
<1>7. Boundary!Knock(w)
  BY <1>3, <1>4, <1>5, <1>6, IsKnock
<1>8. QED
  BY <1>7 DEF BoundaryStep, Boundary!BoundaryNext

\* The message carries the subject that the request proves, or none.
LEMMA ForwardAnnounces ==
  ASSUME GatewayInvariant, NEW w \in Worker, NEW m \in sent[w], sent[w] = {m}
  PROVE  /\ Needs(w) => Proves(w) # Nothing
         /\ AnnouncedOf(w) = IF Needs(w) THEN Proves(w) ELSE Nothing
<1>1. PastFilters(w) /\ (Protected(wire[w]) => ProvenSubject(props, wire[w]) \in Subject)
  BY MessageOfAdmitted
<1>2. wire[w] # Nothing
  BY <1>1, GatewayAssumption DEF PastFilters
<1> DEFINE identity == m.view.values[Fold[IdentityHeader]]
<1>3. IF Protected(wire[w])
      THEN /\ ProvenSubject(props, wire[w]) # Nothing
           /\ identity = <<ProvenSubject(props, wire[w])>>
      ELSE identity = <<>>
  BY InvariantImpliesIdentity DEF IdentityVerified
<1>4. {n.view.values[Fold[IdentityHeader]] : n \in sent[w]} = {identity}
  OBVIOUS
<1> HIDE DEF identity
<1>5. CASE Protected(wire[w])
  <2>1. PICK who \in Subject : who = ProvenSubject(props, wire[w])
    BY <1>1, <1>5
  <2>2. identity = <<who>> /\ who # Nothing
    BY <1>3, <1>5, <2>1
  <2>3. \A s \in Subject : <<s>> \in {identity} <=> s = who
    BY <2>2
  <2>4. AnnouncedOf(w) = who
    BY <1>4, <2>1, <2>3 DEF AnnouncedOf
  <2>5. QED
    BY <1>2, <1>5, <2>1, <2>2, <2>4 DEF Needs, Proves
<1>6. CASE ~Protected(wire[w])
  <2>1. \A s \in Subject : <<s>> \notin {identity}
    BY <1>3, <1>6
  <2>2. AnnouncedOf(w) = Nothing
    BY <1>4, <2>1 DEF AnnouncedOf
  <2>3. QED
    BY <1>6, <2>2 DEF Needs
<1>7. QED
  BY <1>5, <1>6

AnnouncesProven ==
  \A w \in Worker : \A m \in sent[w] : sent[w] = {m} =>
    /\ Needs(w) => Proves(w) # Nothing
    /\ AnnouncedOf(w) = IF Needs(w) THEN Proves(w) ELSE Nothing

LEMMA InvariantImpliesAnnounced == GatewayInvariant => AnnouncesProven
BY ForwardAnnounces DEF AnnouncesProven

LEMMA ForwardBoundary ==
  ASSUME GatewayInvariant, AnnouncesProven', NEW w \in Worker, Forward(w)
  PROVE  BoundaryStep
<1>1. PICK m : sent' = [sent EXCEPT ![w] = sent[w] \cup {m}]
  BY DEF Forward
<1>2. /\ stage[w] = "route" /\ stage' = [stage EXCEPT ![w] = "proxy"]
      /\ UNCHANGED <<props, wire>>
  BY DEF Forward, process
<1>3. TypeOK /\ sent[w] = {}
  BY <1>2 DEF GatewayInvariant, StageInvariant
<1>4. \A x \in Worker \ {w} : Calm(x)
  <2>1. ASSUME NEW x \in Worker \ {w}
        PROVE  stage'[x] = stage[x] /\ sent'[x] = sent[x] /\ wire'[x] = wire[x]
    BY <1>1, <1>2, <1>3 DEF TypeOK
  <2>2. QED
    BY <1>2, <2>1, CalmFrame
<1>5. sent'[w] = {m}
  BY <1>1, <1>3 DEF TypeOK
<1>6. VisitOf(w) = "knocking" /\ VisitOf(w)' = "in"
  BY <1>2, <1>3, <1>5 DEF VisitOf, Idle, TypeOK
<1>7. Needs(w)' = Needs(w) /\ Proves(w)' = Proves(w)
  BY <1>2 DEF Needs, Proves
<1>8. /\ Needs(w)' => Proves(w)' # Nothing
      /\ AnnouncedOf(w)' = IF Needs(w)' THEN Proves(w)' ELSE Nothing
  BY <1>5 DEF AnnouncesProven
<1>9. Boundary!LetIn(w)
  BY <1>4, <1>6, <1>7, <1>8, IsLetIn
<1>10. QED
  BY <1>9 DEF BoundaryStep, Boundary!BoundaryNext

\* The visit stays in while its answer comes back.
LEMMA AnswerBoundary ==
  ASSUME GatewayInvariant, NEW w \in Worker, ServiceAnswers(w)
  PROVE  BoundaryStep
<1>1. /\ stage[w] = "proxy" /\ stage' = [stage EXCEPT ![w] = "done"]
      /\ UNCHANGED <<props, wire, sent>>
  BY DEF ServiceAnswers, Answer, process
<1>2. TypeOK /\ sent[w] # {}
  BY <1>1 DEF GatewayInvariant, StageInvariant
<1>3. \A x \in Worker \ {w} : Calm(x)
  BY <1>1, <1>2, CalmFrame DEF TypeOK
<1>4. Calm(w)
  <2>1. VisitOf(w)' = VisitOf(w)
    BY <1>1, <1>2 DEF VisitOf, Idle, TypeOK
  <2>2. QED
    BY <1>1, <2>1 DEF Calm, Needs, Proves, AnnouncedOf
<1>5. QED
  BY <1>3, <1>4, AllCalm DEF BoundaryStep

LEMMA VacantWorker ==
  ASSUME NEW x \in Worker, stage'[x] = "idle", wire'[x] = Nothing, sent'[x] = {}
  PROVE  Vacant(x)
<1>1. VisitOf(x)' = "none"
  BY DEF VisitOf, Idle
<1>2. Needs(x)' = FALSE /\ Proves(x)' = Nothing
  BY DEF Needs, Proves
<1>3. QED
  BY <1>1, <1>2, UnannouncedNext DEF Vacant

LEMMA ReleaseBoundary ==
  ASSUME GatewayInvariant, NEW w \in Worker, Release(w)
  PROVE  BoundaryStep
<1>1. /\ stage' = [stage EXCEPT ![w] = "idle"] /\ wire' = [wire EXCEPT ![w] = Nothing]
      /\ sent' = [sent EXCEPT ![w] = {}] /\ props' = props
  BY DEF Release, process
<1>2. TypeOK
  BY DEF GatewayInvariant
<1>3. \A x \in Worker \ {w} : Calm(x)
  <2>1. ASSUME NEW x \in Worker \ {w}
        PROVE  stage'[x] = stage[x] /\ sent'[x] = sent[x] /\ wire'[x] = wire[x]
    BY <1>1, <1>2 DEF TypeOK
  <2>2. QED
    BY <1>1, <2>1, CalmFrame
<1>4. Vacant(w)
  BY <1>1, <1>2, VacantWorker DEF TypeOK
<1>5. Boundary!Leave({w})
  BY <1>3, <1>4, IsLeave
<1>6. {w} \in SUBSET Worker
  OBVIOUS
<1>7. QED
  BY <1>5, <1>6 DEF BoundaryStep, Boundary!BoundaryNext

LEMMA RestartBoundary ==
  ASSUME Restart
  PROVE  BoundaryStep
<1>1. \A x \in Worker : stage'[x] = "idle" /\ wire'[x] = Nothing /\ sent'[x] = {}
  BY DEF Restart, NoRequests
<1>2. \A x \in Worker : Vacant(x)
  BY <1>1, VacantWorker
<1>3. Worker \in SUBSET Worker
  OBVIOUS
<1>4. Boundary!Leave(Worker)
  BY <1>2, <1>3, IsLeave
<1>5. QED
  BY <1>3, <1>4 DEF BoundaryStep, Boundary!BoundaryNext

LEMMA UnseenBoundary ==
  ASSUME UNCHANGED <<props, stage, wire, sent>>
  PROVE  BoundaryStep
<1>1. \A x \in Worker : Calm(x)
  BY CalmFrame
<1>2. QED
  BY <1>1, AllCalm DEF BoundaryStep

LEMMA NextBoundary ==
  ASSUME GatewayInvariant, GatewayInvariant', AnnouncesProven', [Next]_vars
  PROVE  BoundaryStep
<1>1. CASE Restart
  BY <1>1, RestartBoundary
<1>2. CASE Boot \/ Tick \/ KeySetComesOrGoes \/ KeyCacheExpires \/ UNCHANGED vars
  BY <1>2, UnseenBoundary
     DEF Boot, Tick, KeySetComesOrGoes, KeyCacheExpires, vars, process, request
<1>3. ASSUME NEW w \in Worker,
             GuardFilter(w) \/ JwtFilter(w) \/ CorsFilter(w) \/ ServeLocally(w)
      PROVE  BoundaryStep
  BY <1>3, FilterBoundary
<1>4. ASSUME NEW w \in Worker, Forward(w) \/ ServiceAnswers(w) \/ Release(w)
      PROVE  BoundaryStep
  BY <1>4, ForwardBoundary, AnswerBoundary, ReleaseBoundary
<1>5. ASSUME NEW w \in Worker, NEW q \in ClientRequest, Receive(w, q)
      PROVE  BoundaryStep
  BY <1>5, ReceiveBoundary
<1>6. QED
  BY <1>1, <1>2, <1>3, <1>4, <1>5 DEF Next, Dispatch

LEMMA InitBoundary ==
  ASSUME Init
  PROVE  Boundary!BoundaryInit
<1>1. \A x \in Worker : stage[x] = "idle" /\ wire[x] = Nothing /\ sent[x] = {}
  BY DEF Init, NoRequests
<1>2. \A x \in Worker :
        /\ VisitOf(x) = "none" /\ Needs(x) = FALSE /\ Proves(x) = Nothing
        /\ AnnouncedOf(x) = Nothing
  BY <1>1, Unannounced DEF VisitOf, Idle, Needs, Proves
<1>3. QED
  BY <1>2 DEF Boundary!BoundaryInit, Needs, Proves

-----------------------------------------------------------------------------
\* The filters implement the promise: whatever they do with headers, tokens
\* and key sets, a service hears of exactly the subject that the visitor could
\* prove to be, and of nobody where the path needs no proof.
THEOREM GatewayImplementsBoundary == Spec => ImplementsBoundary
<1>1. Init => Boundary!BoundaryInit
  BY InitBoundary
<1>2. GatewayInvariant /\ GatewayInvariant' /\ AnnouncesProven' /\ [Next]_vars
        => [Boundary!BoundaryNext]_(Boundary!boundaryVars)
  BY NextBoundary DEF BoundaryStep
<1>3. QED
  BY <1>1, <1>2, GatewayInvariantHolds, InvariantImpliesAnnounced, PTL
     DEF Spec, ImplementsBoundary, Boundary!BoundarySpec
=============================================================================
