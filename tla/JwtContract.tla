----------------------------- MODULE JwtContract ----------------------------
(***************************************************************************)
(* How the gateway builds its JWT decoder from the configuration, and which *)
(* tokens that decoder accepts (GatewayJwtConfiguration).                  *)
(*                                                                         *)
(* A token is opaque; Claims says what is in it.  Time is a number, NoTime *)
(* stands for an absent exp, nbf or iat.  Blank stands for a blank string. *)
(***************************************************************************)
EXTENDS Integers

CONSTANTS
  Token,      \* tokens that callers may present
  Claims,     \* what a token holds: [Token -> ClaimSet]
  Subject,    \* subjects of the form [0-9]{1,19}
  OddSubject, \* any other subject a token may carry
  Skew        \* the clock skew the timestamp validator allows (60 s by default)

NoTime == -1
Blank  == "blank"

Algorithms == {"HS256", "RS256", "RS384", "RS512", "ES256", "ES384", "ES512"}

\* GatewayJwtProperties.  upper is algorithm.uppercase(); a secret is blank,
\* shorter than 32 bytes or long enough; a key-set address is blank, https
\* or plain http to the local host, or plain http to another host.
JwtProperties ==
  [issuer    : STRING,
   audience  : STRING,
   upper     : STRING,
   secretKey : {Blank, "short", "long"},
   jwkSetUri : {Blank, "https", "localHttp", "remoteHttp"}]

ClaimSet ==
  [alg  : STRING,               \* algorithm the token is signed with
   signed : BOOLEAN,            \* signed with the key the gateway trusts
   iss  : STRING,
   aud  : SUBSET STRING,
   exp  : Nat \cup {NoTime},
   nbf  : Nat \cup {NoTime},
   iat  : Nat \cup {NoTime},
   jti  : BOOLEAN,              \* a jti that is not blank
   typ  : STRING,
   sub  : Subject \cup OddSubject]

ASSUME ClaimsAssumption == Claims \in [Token -> ClaimSet]
ASSUME SubjectAssumption == Subject \cap OddSubject = {}
ASSUME SkewAssumption == Skew \in Nat

(***************************************************************************)
(* What the configuration makes of the decoder.  "failed": a require()     *)
(* throws while the bean is built, so the process does not start.          *)
(* "unconfigured": every decode throws JwtContractNotConfigured.           *)
(***************************************************************************)
DecoderKinds == {"failed", "unconfigured", "hmac", "jwk"}

HmacDecoder(p) == IF p.secretKey = "short" THEN "failed" ELSE "hmac"
JwkDecoder(p)  == IF p.jwkSetUri = "remoteHttp" THEN "failed" ELSE "jwk"

DecoderFor(p) ==
  CASE p.issuer = Blank \/ p.upper = Blank            -> "unconfigured"
    [] /\ p.issuer # Blank /\ p.upper # Blank
       /\ p.upper \notin Algorithms                    -> "failed"
    [] /\ p.issuer # Blank /\ p.upper = "HS256"        ->
         IF p.secretKey = Blank THEN "unconfigured" ELSE HmacDecoder(p)
    [] /\ p.issuer # Blank
       /\ p.upper \in Algorithms \ {"HS256"}           ->
         IF p.jwkSetUri = Blank THEN "unconfigured" ELSE JwkDecoder(p)

(***************************************************************************)
(* Acceptance of a token at time now.  The parts are in the order in which *)
(* the decoder runs them; the first three belong to the JWT library.       *)
(***************************************************************************)
SignatureValid(p, c) == c.alg = p.upper /\ c.signed

\* The library refuses a token whose exp does not come after its iat.
TimesOrdered(c) == c.iat # NoTime /\ c.exp # NoTime => c.iat < c.exp

TimestampValid(c, now) ==
  /\ c.exp # NoTime => now - Skew <= c.exp
  /\ c.nbf # NoTime => c.nbf <= now + Skew

AudienceValid(p, c) == p.audience = Blank \/ p.audience \in c.aud

\* The gateway's own validator; the marker makes iat mandatory although the
\* library would supply one.
IdentityClaimsValid(c) ==
  /\ c.exp # NoTime
  /\ c.iat # NoTime
  /\ c.jti
  /\ c.typ = "access"
  /\ c.sub \in Subject

ContractValid(p, c, now) ==
  /\ TimestampValid(c, now)
  /\ c.iss = p.issuer
  /\ AudienceValid(p, c)
  /\ IdentityClaimsValid(c)

\* Variant: setJwtValidator is forgotten.
AcceptsUnvalidated(p, token, now) ==
  SignatureValid(p, Claims[token]) /\ TimesOrdered(Claims[token])

Accepts(p, token, now) ==
  /\ SignatureValid(p, Claims[token])
  /\ TimesOrdered(Claims[token])
  /\ ContractValid(p, Claims[token], now)
=============================================================================
