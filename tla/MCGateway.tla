----------------------------- MODULE MCGateway ------------------------------
(***************************************************************************)
(* Instances of the gateway for TLC: a wide one (one worker, every kind of *)
(* token, header, path and configuration) and a narrow one (several        *)
(* workers, few requests).                                                 *)
(***************************************************************************)
EXTENDS GatewayProperties

MCSpelling == {"X-Trace-Id", "x-trace-id", "X-Authenticated-User-Id",
               "x-authenticated-user-id", "X-User-Id", "x-user-id",
               "Authorization", "Idempotency-Key", "X-Other"}

MCFold ==
  [s \in MCSpelling |->
     CASE s \in {"X-Trace-Id", "x-trace-id"} -> "x-trace-id"
       [] s \in {"X-Authenticated-User-Id", "x-authenticated-user-id"} -> "x-authenticated-user-id"
       [] s \in {"X-User-Id", "x-user-id"} -> "x-user-id"
       [] s = "Authorization" -> "authorization"
       [] s = "Idempotency-Key" -> "idempotency-key"
       [] s = "X-Other" -> "x-other"]

MCHeaderName == {MCFold[s] : s \in MCSpelling}

MCInternalHeaders == {"X-User-Id", "X-Authenticated-User-Id"}

(***************************************************************************)
(* Tokens: one that Auth issues, and one for each way to miss the contract *)
(***************************************************************************)
Good == [alg |-> "HS256", signed |-> TRUE, iss |-> "moaje-auth", aud |-> {"moaje"},
         exp |-> 9, nbf |-> NoTime, iat |-> 0, jti |-> TRUE, typ |-> "access", sub |-> "7"]

MCClaims ==
  [t \in {"good", "rsa", "brief", "rsaBrief", "early", "noExp", "noIat", "backward",
          "forged", "otherAlg", "otherIss", "noAud", "noJti", "refresh", "oddSub"} |->
     CASE t = "good"     -> Good
       [] t = "rsa"      -> [Good EXCEPT !.alg = "RS256", !.sub = "8"]
       [] t = "brief"    -> [Good EXCEPT !.exp = 1]
       [] t = "rsaBrief" -> [Good EXCEPT !.alg = "RS256", !.exp = 1]
       [] t = "early"    -> [Good EXCEPT !.nbf = 2]
       [] t = "noExp"    -> [Good EXCEPT !.exp = NoTime]
       [] t = "noIat"    -> [Good EXCEPT !.iat = NoTime]
       [] t = "backward" -> [Good EXCEPT !.iat = 9]
       [] t = "forged"   -> [Good EXCEPT !.signed = FALSE]
       [] t = "otherAlg" -> [Good EXCEPT !.alg = "HS512"]
       [] t = "otherIss" -> [Good EXCEPT !.iss = "elsewhere"]
       [] t = "noAud"    -> [Good EXCEPT !.aud = {}]
       [] t = "noJti"    -> [Good EXCEPT !.jti = FALSE]
       [] t = "refresh"  -> [Good EXCEPT !.typ = "refresh"]
       [] t = "oddSub"   -> [Good EXCEPT !.sub = "abc"]]

MCToken == DOMAIN MCClaims
MCSubject == {"7", "8"}
MCOddSubject == {"abc"}

MCTrace == {"t1", "t2", "t3"}
MCValidKey == {"k1", "k2"}

\* A value "basic" or a blank "Bearer " carries no token; the value of a
\* bearer header is written like its token.
MCValue == MCToken \cup MCSubject \cup MCTrace \cup MCValidKey \cup {"basic", "k 3", "client"}
MCTokenOf == [v \in MCValue |-> IF v \in MCToken THEN v ELSE "noToken"]

(***************************************************************************)
(* Requests                                                                *)
(***************************************************************************)
\* The view of a request whose headers are given as a function of spellings.
Headers(h) ==
  [names |-> DOMAIN h,
   values |-> [n \in MCHeaderName |->
                 IF \E s \in DOMAIN h : MCFold[s] = n
                 THEN h[CHOOSE s \in DOMAIN h : MCFold[s] = n] ELSE <<>>]]

Request(method, path, h) ==
  [method |-> method, path |-> path, cors |-> "same", asks |-> "GET", wants |-> {},
   view |-> Headers(h)]

Accounts == <<"api", "v1", "banking", "accounts">>
Transfers == <<"api", "v1", "banking", "transfers">>
Login == <<"api", "v1", "auth", "login">>
Assets == <<"api", "v1", "assets">>

MCSegment ==
  {"docs", "api", "v1", "auth", "asset", "assets", "banking", "work", "openapi.json",
   "accounts", "transfers", "login", "profiles", "actuator", "health", "elsewhere", "x"}

MCPublicEndpoints == {<<"POST", Login>>}

NoHeaders == [s \in {} |-> <<>>]
Bearer(t) == "Authorization" :> <<t>>
ForgedIdentity == ("x-authenticated-user-id" :> <<"client", "8">>) @@ ("x-user-id" :> <<"8">>)
                  @@ ("x-trace-id" :> <<"client">>) @@ ("X-Other" :> <<"client">>)

TokenRequests == {Request("GET", Accounts, Bearer(t)) : t \in MCToken}

HeaderRequests ==
  {Request("GET", Accounts, NoHeaders),
   Request("GET", Accounts, Bearer("basic")),
   Request("GET", Accounts, "Authorization" :> <<"good", "good">>),
   Request("GET", Assets, Bearer("good") @@ ForgedIdentity),
   Request("GET", <<"api", "v1", "work", "profiles">>, Bearer("rsa") @@ ForgedIdentity),
   Request("POST", Login, ForgedIdentity),
   Request("POST", Login, Bearer("forged")),
   Request("GET", Login, NoHeaders),
   Request("GET", <<"docs", "work", "openapi.json">>, ForgedIdentity),
   Request("GET", <<"docs", "auth", "openapi.json">>, NoHeaders),
   Request("GET", <<"docs">>, NoHeaders),
   Request("GET", <<"actuator", "health">>, NoHeaders),
   Request("GET", <<"elsewhere">>, Bearer("good"))}

TransferRequests ==
  {Request("POST", Transfers, Bearer("good")),
   Request("POST", Transfers, Bearer("good") @@ ("Idempotency-Key" :> <<"k1">>)),
   Request("POST", Transfers, Bearer("rsa") @@ ("Idempotency-Key" :> <<"k2">>) @@ ForgedIdentity),
   Request("POST", Transfers, Bearer("good") @@ ("Idempotency-Key" :> <<"k1", "k1">>)),
   Request("POST", Transfers, Bearer("good") @@ ("Idempotency-Key" :> <<"k 3">>)),
   Request("POST", <<"docs", "banking">> \o Transfers, NoHeaders),
   Request("POST", <<"docs", "auth">> \o Transfers, NoHeaders),
   Request("POST", Transfers \o <<"x">>, Bearer("good")),
   Request("GET", Transfers, Bearer("good"))}

CorsRequests ==
  {[Request("OPTIONS", Accounts, NoHeaders) EXCEPT !.cors = "preflight"],
   [Request("OPTIONS", <<"docs", "auth">>, NoHeaders) EXCEPT !.cors = "preflight"],
   [Request("OPTIONS", <<"docs", "auth", "x">>, NoHeaders) EXCEPT !.cors = "preflight"],
   [Request("OPTIONS", <<"docs", "auth", "x">>, NoHeaders)
      EXCEPT !.cors = "preflight", !.asks = "HEAD"],
   [Request("OPTIONS", <<"docs", "auth", "x">>, NoHeaders)
      EXCEPT !.cors = "preflight", !.wants = {"x-other"}],
   [Request("OPTIONS", <<"docs", "auth", "x">>, NoHeaders)
      EXCEPT !.cors = "preflight", !.wants = {"x-other", "content-type"}],
   [Request("GET", Accounts, Bearer("good")) EXCEPT !.cors = "cross"],
   [Request("HEAD", Accounts, Bearer("good")) EXCEPT !.cors = "cross"]}

WideRequests == TokenRequests \cup HeaderRequests \cup TransferRequests \cup CorsRequests

NarrowRequests ==
  {Request("GET", Assets, Bearer("rsaBrief") @@ ForgedIdentity),
   Request("POST", Transfers, Bearer("rsa") @@ ("Idempotency-Key" :> <<"k1">>)),
   Request("POST", Transfers, Bearer("rsa"))}

(***************************************************************************)
(* Configurations                                                          *)
(***************************************************************************)
Hmac == [issuer |-> "moaje-auth", audience |-> Blank, upper |-> "HS256",
         secretKey |-> "long", jwkSetUri |-> Blank]
Jwk  == [Hmac EXCEPT !.upper = "RS256", !.secretKey = Blank, !.jwkSetUri = "https",
                     !.audience = "moaje"]

WideConfigurations ==
  {Hmac, Jwk,
   [Hmac EXCEPT !.audience = "moaje"],
   [Hmac EXCEPT !.issuer = Blank],
   [Hmac EXCEPT !.upper = Blank],
   [Hmac EXCEPT !.secretKey = Blank],
   [Hmac EXCEPT !.secretKey = "short"],
   [Hmac EXCEPT !.upper = "HS512"],
   [Jwk EXCEPT !.jwkSetUri = Blank],
   [Jwk EXCEPT !.jwkSetUri = "remoteHttp"],
   [Jwk EXCEPT !.jwkSetUri = "localHttp"]}

NarrowConfigurations == {Jwk}
=============================================================================
