--------------------------- MODULE ComposeStartup ---------------------------
(***************************************************************************)
(* docker-compose.yaml, profile "apps": which services `docker compose up` *)
(* starts and on what each of them waits.  The conditions, health checks   *)
(* and restart policies are the repository's; what Compose and the Docker  *)
(* engine do with them is external.  Services of the other profiles wait   *)
(* for these or for nothing, and none of these waits for them.             *)
(***************************************************************************)
EXTENDS Integers, FiniteSets

CONSTANTS
  Stack,      \* the services that are looked at
  Retries,    \* failed health checks until a service is unhealthy (10..30)
  MaxUpsets   \* bound on crashes, slow checks, interventions of the operator

CertJob   == "grpc-cert-init"
Infra     == {"work-mysql", "auth-mysql", "asset-mysql", "banking-mysql",
              "redis", "kafka", "mock-redis"}
Service   == Infra \cup {"auth", "mock-banking", "asset", "banking", "work", "gateway", CertJob}
Certified == {"asset", "banking", "work"}
Checked   == Infra \cup {"auth", "work"}

VARIABLES
  phase,    \* per service: what its container does
  health,   \* per service: the engine's verdict
  misses,   \* per service: health checks failed in a row
  certs,    \* what is in the certificate folder
  command,  \* what the operator's command line is doing
  todo,     \* services `up` has not come to yet
  served,   \* services that have served since they were created
  upsets    \* what went wrong so far

container == <<phase, health, misses, served>>
vars      == <<phase, health, misses, certs, command, todo, served, upsets>>

Phases == {"absent", "booting", "serving", "done", "exited"}

\* What the job finds in the folder: whole sets are missing, beside a good
\* authority or none; everything is there and in order; a copy of the root is
\* half written, which the job does not see (other sets may be missing);
\* something the job refuses, as a set or the authority is incomplete; or it
\* has expired.
Folders == {"missing", "whole", "torn", "half", "expired"}

\* On what a service waits: until others are healthy, have completed, were started.
Wait(h, c, s) == [healthy |-> h, completed |-> c, started |-> s]

AuthNeeds    == Wait({"auth-mysql"}, {}, {})
MockNeeds    == Wait({"mock-redis"}, {}, {})
AssetWaitsForNoJob == Wait({"asset-mysql", "redis", "kafka"}, {}, {CertJob})
AssetNeeds   == Wait({"asset-mysql", "redis", "kafka"}, {CertJob}, {})
BankingNeeds == Wait({"banking-mysql", "redis", "kafka"}, {CertJob}, {"mock-banking"})
WorkNeeds    == Wait({"work-mysql", "redis", "kafka"}, {CertJob}, {"asset"})
GatewayWaitsForStarted == Wait({"auth"}, {}, {"asset", "banking", "work"})
GatewayNeeds == Wait({"auth", "work"}, {}, {"asset", "banking"})

Needs == [s \in Service |->
  CASE s = "auth" -> AuthNeeds
    [] s = "mock-banking" -> MockNeeds
    [] s = "asset" -> AssetNeeds
    [] s = "banking" -> BankingNeeds
    [] s = "work" -> WorkNeeds
    [] s = "gateway" -> GatewayNeeds
    [] OTHER -> Wait({}, {}, {})]

\* A stack may leave out databases, which are all waited for in the same way,
\* and whole branches, but not what a service it keeps is there for.
ASSUME StackAssumption ==
  /\ {CertJob, "asset", "work", "gateway"} \subseteq Stack
  /\ Stack \subseteq Service
  /\ \A n \in Stack \ {"gateway"} :
       \E s \in Stack : n \in Needs[s].healthy \cup Needs[s].completed \cup Needs[s].started
  /\ Retries \in Nat \ {0} /\ MaxUpsets \in Nat

HealthyFirst(s)   == Needs[s].healthy \cap Stack
CompletedFirst(s) == Needs[s].completed \cap Stack
StartedFirst(s)   == Needs[s].started \cap Stack

Running(s) == phase[s] \in {"booting", "serving"}

Init ==
  /\ phase = [s \in Stack |-> "absent"]
  /\ health = [s \in Stack |-> "none"]
  /\ misses = [s \in Stack |-> 0]
  /\ certs \in Folders
  /\ command = "idle" /\ todo = {} /\ served = {} /\ upsets = 0

Upset == upsets < MaxUpsets /\ upsets' = upsets + 1

-----------------------------------------------------------------------------
\* `docker compose up`: services in the order of their conditions.

Up ==
  /\ command = "idle"
  /\ command' = "up" /\ todo' = Stack
  /\ UNCHANGED <<container, certs, upsets>>

Met(s) ==
  /\ \A n \in HealthyFirst(s) : n \notin todo /\ Running(n) /\ health[n] = "healthy"
  /\ \A n \in CompletedFirst(s) : n \notin todo /\ phase[n] = "done"
  /\ \A n \in StartedFirst(s) : n \notin todo

ComesTo(s) ==
  /\ command = "up" /\ s \in todo /\ Met(s)
  /\ todo' = todo \ {s}
  /\ UNCHANGED <<certs, command, served, upsets>>

\* A container that is absent or has ended, the job's included, is started.
Launch(s) ==
  /\ ComesTo(s)
  /\ ~Running(s)
  /\ phase' = [phase EXCEPT ![s] = "booting"]
  /\ health' = [health EXCEPT ![s] = IF s \in Checked THEN "starting" ELSE "none"]
  /\ misses' = [misses EXCEPT ![s] = 0]

LeaveRunning(s) ==
  /\ ComesTo(s)
  /\ Running(s)
  /\ UNCHANGED <<phase, health, misses>>

\* A condition that cannot be met any more ends the command; what was started stays.
Hopeless(s) ==
  \/ \E n \in HealthyFirst(s) \ todo : ~Running(n) \/ health[n] = "unhealthy"
  \/ \E n \in CompletedFirst(s) \ todo : phase[n] = "exited"

EndUp ==
  /\ command' = "idle" /\ todo' = {}
  /\ UNCHANGED <<container, certs, upsets>>

UpFails == command = "up" /\ (\E s \in todo : Hopeless(s)) /\ EndUp
UpDone  == command = "up" /\ todo = {} /\ EndUp

-----------------------------------------------------------------------------
\* Containers.

\* A service reaches its databases when it boots, and reads the certificates
\* of its own folder: which of the folders is not in order is left open.
CanServe(s) == \A n \in HealthyFirst(s) \cap Infra : phase[n] = "serving"
MayFail(s)  == ~CanServe(s) \/ (s \in Certified /\ certs # "whole")

ComesUp(s) ==
  /\ s # CertJob /\ phase[s] = "booting" /\ CanServe(s)
  /\ phase' = [phase EXCEPT ![s] = "serving"]
  /\ served' = served \cup {s}
  /\ UNCHANGED <<health, misses, certs, command, todo, upsets>>

\* restart: "no" - a container that ends is not started again by the engine.
Ends(s) ==
  /\ phase' = [phase EXCEPT ![s] = "exited"]
  /\ health' = [health EXCEPT ![s] = "none"]
  /\ misses' = [misses EXCEPT ![s] = 0]
  /\ UNCHANGED <<command, todo, served>>

GivesUp(s) ==
  s # CertJob /\ phase[s] = "booting" /\ MayFail(s) /\ Ends(s) /\ UNCHANGED <<certs, upsets>>
Crash(s) == s # CertJob /\ Running(s) /\ Ends(s) /\ Upset /\ UNCHANGED certs

-----------------------------------------------------------------------------
\* The certificate job, by what its folder allows (step by step: CertInit).

JobRuns == phase[CertJob] = "booting"

\* It makes the sets that are missing, and looks at a root only for being there.
JobDone ==
  /\ JobRuns /\ certs \in {"missing", "whole", "torn"}
  /\ phase' = [phase EXCEPT ![CertJob] = "done"]
  /\ certs' = IF certs = "torn" THEN "torn" ELSE "whole"
  /\ UNCHANGED <<health, misses, command, todo, served, upsets>>

\* What is incomplete or has expired ends the job with an error.
JobRefuses ==
  /\ JobRuns /\ certs \in {"half", "expired"}
  /\ Ends(CertJob)
  /\ UNCHANGED <<certs, upsets>>

\* What a job leaves that is stopped anywhere.
Left(f) ==
  CASE f = "missing" -> {"missing", "half", "torn", "whole"}
    [] f = "torn"    -> {"torn", "half"}
    [] OTHER         -> {f}

JobStops == JobRuns /\ Ends(CertJob) /\ certs' \in Left(certs) /\ Upset

\* The authority is the oldest certificate and has no longer to live than others.
\* That nothing at all is there, and so cannot expire, is not told apart.
Expire ==
  /\ certs # "half" /\ certs' = "expired" /\ Upset
  /\ UNCHANGED <<container, command, todo>>

-----------------------------------------------------------------------------
\* Health checks.  A failure within the start period leaves no trace.

PassesThroughGateway(s) ==
  phase[s] = "serving" /\ (s = "work" => phase["asset"] = "serving" /\ phase["gateway"] = "serving")

\* Work is healthy only when it reaches Asset over mutual TLS, which may fail
\* with certificates that are not in order.
Passes(s) == phase[s] = "serving" /\ (s = "work" => phase["asset"] = "serving")
Fails(s)  == ~Passes(s) \/ (s = "work" /\ certs # "whole")

CheckPasses(s) ==
  /\ s \in Checked /\ Running(s) /\ Passes(s)
  /\ health' = [health EXCEPT ![s] = "healthy"]
  /\ misses' = [misses EXCEPT ![s] = 0]
  /\ UNCHANGED <<phase, certs, command, todo, served, upsets>>

MissOneMore(s) ==
  /\ health' = [health EXCEPT ![s] = IF misses[s] = Retries THEN "unhealthy" ELSE @]
  /\ misses' = [misses EXCEPT ![s] = IF @ = Retries THEN @ ELSE @ + 1]
  /\ UNCHANGED <<phase, certs, command, todo, served>>

MissUncounted(s) ==
  /\ misses' = [misses EXCEPT ![s] = IF @ < Retries - 1 THEN @ + 1 ELSE @]
  /\ UNCHANGED <<phase, health, certs, command, todo, served>>

\* The last of the retries makes the service unhealthy.
Miss(s) ==
  /\ health' = [health EXCEPT ![s] = IF misses[s] + 1 >= Retries THEN "unhealthy" ELSE @]
  /\ misses' = [misses EXCEPT ![s] = IF @ + 1 >= Retries THEN Retries - 1 ELSE @ + 1]
  /\ UNCHANGED <<phase, certs, command, todo, served>>

CheckFails(s) == s \in Checked /\ Running(s) /\ Fails(s) /\ Miss(s) /\ UNCHANGED upsets
SlowCheck(s)  == s \in Checked /\ Running(s) /\ Passes(s) /\ Miss(s) /\ Upset

-----------------------------------------------------------------------------
\* The operator.

Removed ==
  /\ command = "idle"
  /\ phase' = [s \in Stack |-> "absent"]
  /\ health' = [s \in Stack |-> "none"]
  /\ misses' = [s \in Stack |-> 0]
  /\ served' = {}
  /\ UNCHANGED <<command, todo>>

\* A job that is still running is stopped with the others.
Down ==
  /\ Removed /\ Upset
  /\ certs' \in IF JobRuns THEN Left(certs) ELSE {certs}

\* Certificates are renewed by removing folders while the stack is down: in
\* order (to rotate them), or because they are not.
Rotate == Removed /\ certs = "whole" /\ certs' = "missing" /\ Upset
Repair == Removed /\ certs \in {"torn", "half", "expired"} /\ certs' = "missing" /\ UNCHANGED upsets

Compose   == UpFails \/ UpDone \/ \E s \in Stack : Launch(s) \/ LeaveRunning(s)
Engine(s) == CheckPasses(s) \/ CheckFails(s)
JobEnds   == JobDone \/ JobRefuses
Operator  == Up \/ Down \/ Rotate \/ Repair

Next ==
  \/ Compose \/ Operator \/ JobEnds \/ JobStops \/ Expire
  \/ \E s \in Stack : Engine(s) \/ SlowCheck(s) \/ ComesUp(s) \/ GivesUp(s) \/ Crash(s)

Fairness == WF_vars(Compose) /\ WF_vars(JobEnds) /\ \A s \in Stack : WF_vars(Engine(s))

\* Services may hang for ever; nobody has to give a command.
Spec == Init /\ [][Next]_vars /\ Fairness

\* Services come up when they can; the operator repeats the command, and does
\* not forever leave a folder alone that is not in order.
Patience == WF_vars(Up) /\ SF_vars(Repair) /\ \A s \in Stack : WF_vars(ComesUp(s))
=============================================================================
