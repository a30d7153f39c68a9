------------------------- MODULE ComposeProperties -------------------------
(***************************************************************************)
(* What the start conditions of docker-compose.yaml are there for.         *)
(***************************************************************************)
EXTENDS ComposeStartup

\* The variables have their types; only a running container with a health
\* check has a verdict, and `up` has services to come to only while it runs.
TypeOK ==
  /\ phase \in [Stack -> Phases]
  /\ health \in [Stack -> {"none", "starting", "healthy", "unhealthy"}]
  /\ misses \in [Stack -> 0..(Retries - 1)]
  /\ certs \in Folders /\ command \in {"idle", "up"}
  /\ todo \subseteq Stack /\ (command = "idle" => todo = {})
  /\ served \subseteq Stack
  /\ upsets \in 0..MaxUpsets
  /\ \A s \in Stack : health[s] # "none" <=> (s \in Checked /\ Running(s))
  /\ \A s \in Stack : phase[s] = "done" => s = CertJob

\* The gateway, the only way in, is opened last: when its container exists so
\* do all others, and everything has served except what nothing looks at
\* (Banking, the mock bank).  Asset has no health check of its own; it has
\* served because Work, for which the gateway waits, reports the connection.
GatewayOpensLast ==
  phase["gateway"] # "absent" =>
    /\ \A s \in Stack : phase[s] # "absent"
    /\ Stack \ {CertJob, "mock-banking", "banking", "gateway"} \subseteq served

\* Asset, Banking and Work are started with every file of their certificates
\* in place, also when certificates were removed, or a job was stopped, since
\* the job last completed: the condition looks at the job's run of this `up`,
\* not at an earlier one.  What the job cannot see is not excluded: a root that
\* an earlier run has left half written, and what expires after it has looked.
CertsAtLaunch ==
  [][\A s \in Certified \cap Stack :
       phase[s] # "booting" /\ phase'[s] = "booting" => certs \in {"whole", "torn", "expired"}]_vars

\* `docker compose up` ends, even if a service hangs or Work never reaches
\* Asset: health checks give up.
UpEnds == command = "up" ~> command = "idle"

\* An operator who repeats `up`, and renews certificates that the job refuses
\* or that are torn, gets every service running in the end, if those come up
\* that can: no start condition or health check waits on what is started later.
Recovers == Patience => <>[](\A s \in Stack \ {CertJob} : phase[s] = "serving")
=============================================================================
