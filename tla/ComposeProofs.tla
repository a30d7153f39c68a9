--------------------------- MODULE ComposeProofs ---------------------------
(***************************************************************************)
(* What the start conditions guarantee, for every stack that holds the     *)
(* certificate job, Asset, Work and the gateway, any number of retries and *)
(* any number of failures.                                                 *)
(***************************************************************************)
EXTENDS ComposeProperties, TLAPS

\* What has served exists; what serves or is healthy has served.
Recorded ==
  /\ \A s \in served : phase[s] # "absent"
  /\ \A s \in Stack : phase[s] = "serving" => s \in served
  /\ \A s \in Stack : health[s] = "healthy" => s \in served
  /\ health["work"] = "healthy" => "asset" \in served

\* `up` leaves nothing behind that does not exist.
Visited == command = "up" => \A s \in Stack \ todo : phase[s] # "absent"

\* A container exists only after those it waits for.
After(s) ==
  /\ HealthyFirst(s) \subseteq served
  /\ \A n \in StartedFirst(s) \cup CompletedFirst(s) : phase[n] # "absent"
Ordered ==
  /\ \A s \in Stack : phase[s] # "absent" => After(s)
  /\ phase["gateway"] # "absent" => "asset" \in served

\* What a job that this `up` has started leaves when it is done.
Complete == {"whole", "torn", "expired"}
Fresh == command = "up" /\ CertJob \notin todo /\ phase[CertJob] = "done" => certs \in Complete

\* The inductive invariant.
ComposeInvariant == TypeOK /\ Recorded /\ Visited /\ Ordered /\ Fresh

-----------------------------------------------------------------------------
\* What the definitions say of the services.

\* The members of the stack that the properties name.
LEMMA Members ==
  /\ CertJob \in Stack /\ "asset" \in Stack /\ "work" \in Stack /\ "gateway" \in Stack
  /\ Stack \subseteq Service /\ CertJob \notin Checked
  /\ Retries \in Nat \ {0} /\ MaxUpsets \in Nat
  /\ Checked \subseteq Service /\ "work" \in Checked
BY StackAssumption DEF CertJob, Checked, Infra, Service

\* Conditions name members of the stack.
LEMMA NeedsInStack ==
  ASSUME NEW s \in Stack
  PROVE  /\ HealthyFirst(s) \subseteq Stack /\ CompletedFirst(s) \subseteq Stack
         /\ StartedFirst(s) \subseteq Stack
BY DEF HealthyFirst, CompletedFirst, StartedFirst

\* The conditions of the services on the way to the gateway.
LEMMA NeedsOfGateway ==
  /\ {"auth", "work"} \cap Stack \subseteq HealthyFirst("gateway")
  /\ {"asset", "banking"} \cap Stack \subseteq StartedFirst("gateway")
  /\ {"work-mysql", "redis", "kafka"} \cap Stack \subseteq HealthyFirst("work")
  /\ {"asset-mysql", "redis", "kafka"} \cap Stack \subseteq HealthyFirst("asset")
  /\ {"banking-mysql", "redis", "kafka"} \cap Stack \subseteq HealthyFirst("banking")
  /\ {"mock-banking"} \cap Stack \subseteq StartedFirst("banking")
  /\ {"auth-mysql"} \cap Stack \subseteq HealthyFirst("auth")
  /\ {"mock-redis"} \cap Stack \subseteq HealthyFirst("mock-banking")
  /\ CertJob \in CompletedFirst("asset")
<1>1. /\ Needs["gateway"] = GatewayNeeds /\ Needs["work"] = WorkNeeds
      /\ Needs["asset"] = AssetNeeds /\ Needs["banking"] = BankingNeeds
      /\ Needs["auth"] = AuthNeeds /\ Needs["mock-banking"] = MockNeeds
  BY DEF Needs, Service, Infra, CertJob
<1>2. CertJob \in Stack
  BY Members
<1> QED
  BY <1>1, <1>2 DEF HealthyFirst, StartedFirst, CompletedFirst, GatewayNeeds, WorkNeeds,
     AssetNeeds, BankingNeeds, AuthNeeds, MockNeeds, Wait

\* The services whose databases and the mock bank only they wait for.
LEMMA NeededBy ==
  /\ "auth-mysql" \in Stack => "auth" \in Stack
  /\ "banking-mysql" \in Stack => "banking" \in Stack
  /\ "mock-banking" \in Stack => "banking" \in Stack
  /\ "mock-redis" \in Stack => "mock-banking" \in Stack
<1>1. ASSUME NEW n \in {"auth-mysql", "banking-mysql", "mock-banking", "mock-redis"}, n \in Stack,
             NEW s \in Stack,
             n \in Needs[s].healthy \cup Needs[s].completed \cup Needs[s].started
      PROVE  /\ n = "auth-mysql" => s = "auth"
             /\ n \in {"banking-mysql", "mock-banking"} => s = "banking"
             /\ n = "mock-redis" => s = "mock-banking"
  <2>1. s \in Service
    BY Members
  <2>2. \/ s = "auth" /\ Needs[s] = AuthNeeds
        \/ s = "mock-banking" /\ Needs[s] = MockNeeds
        \/ s = "asset" /\ Needs[s] = AssetNeeds
        \/ s = "banking" /\ Needs[s] = BankingNeeds
        \/ s = "work" /\ Needs[s] = WorkNeeds
        \/ s = "gateway" /\ Needs[s] = GatewayNeeds
        \/ Needs[s] = Wait({}, {}, {})
    BY <2>1 DEF Needs
  <2> QED
    BY <1>1, <2>2 DEF AuthNeeds, MockNeeds, AssetNeeds, BankingNeeds, WorkNeeds, GatewayNeeds,
       Wait, CertJob
<1> QED
  BY <1>1, StackAssumption

\* Services with certificates wait for the job to complete.
LEMMA NeedsOfCertified ==
  ASSUME NEW s \in Certified \cap Stack
  PROVE  CertJob \in CompletedFirst(s)
<1>1. CASE s = "asset"
  <2>1. Needs[s] = AssetNeeds
    BY <1>1 DEF Needs, Service, Infra, CertJob
  <2> QED
    BY <2>1, Members DEF CompletedFirst, AssetNeeds, Wait
<1>2. CASE s = "banking"
  <2>1. Needs[s] = BankingNeeds
    BY <1>2 DEF Needs, Service, Infra, CertJob
  <2> QED
    BY <2>1, Members DEF CompletedFirst, BankingNeeds, Wait
<1>3. CASE s = "work"
  <2>1. Needs[s] = WorkNeeds
    BY <1>3 DEF Needs, Service, Infra, CertJob
  <2> QED
    BY <2>1, Members DEF CompletedFirst, WorkNeeds, Wait
<1> QED
  BY <1>1, <1>2, <1>3 DEF Certified

-----------------------------------------------------------------------------
\* Types.

\* Initial states have the types.
LEMMA TypeInit == Init => TypeOK
BY Members DEF Init, TypeOK, Phases, Running

\* Starting a container.
LEMMA TypeLaunch ==
  ASSUME TypeOK, NEW s \in Stack, Launch(s)
  PROVE  TypeOK'
<1>1. /\ phase' = [phase EXCEPT ![s] = "booting"]
      /\ health' = [health EXCEPT ![s] = IF s \in Checked THEN "starting" ELSE "none"]
      /\ misses' = [misses EXCEPT ![s] = 0]
      /\ todo' = todo \ {s} /\ UNCHANGED <<certs, command, served, upsets>>
  BY DEF Launch, ComesTo
<1>2. \A x \in Stack : health'[x] # "none" <=> (x \in Checked /\ Running(x)')
  BY <1>1 DEF TypeOK, Running
<1>3. \A x \in Stack : phase'[x] = "done" => x = CertJob
  BY <1>1 DEF TypeOK
<1> QED
  BY <1>1, <1>2, <1>3, Members DEF TypeOK, Phases

\* Steps of the command line that leave the containers alone.
LEMMA TypeCommand ==
  ASSUME TypeOK, Up \/ UpFails \/ UpDone \/ Expire \/ \E s \in Stack : LeaveRunning(s)
  PROVE  TypeOK'
<1>1. UNCHANGED <<phase, health, misses, served>>
  BY DEF Up, UpFails, UpDone, EndUp, Expire, LeaveRunning, ComesTo, container
<1>2. /\ certs' \in Folders /\ command' \in {"idle", "up"}
      /\ todo' \subseteq Stack /\ (command' = "idle" => todo' = {})
  BY DEF Up, UpFails, UpDone, EndUp, Expire, LeaveRunning, ComesTo, Folders, TypeOK
<1>3. upsets' \in 0..MaxUpsets
  BY Members DEF Up, UpFails, UpDone, EndUp, Expire, LeaveRunning, ComesTo, Upset, TypeOK
<1> QED
  BY <1>1, <1>2, <1>3 DEF TypeOK, Running

\* What a stopped job leaves is a folder.
LEMMA LeftFolders == \A f \in Folders : Left(f) \subseteq Folders
BY DEF Left, Folders

\* A container that ends.
LEMMA TypeEnds ==
  ASSUME TypeOK, NEW s \in Stack,
         GivesUp(s) \/ Crash(s) \/ (s = CertJob /\ (JobRefuses \/ JobStops))
  PROVE  TypeOK'
<1>1. Ends(s)
  BY DEF GivesUp, Crash, JobRefuses, JobStops
<1>2. upsets' \in 0..MaxUpsets
  BY Members DEF GivesUp, Crash, JobRefuses, JobStops, Upset, TypeOK
<1>3. certs' \in Folders
  BY LeftFolders DEF GivesUp, Crash, JobRefuses, JobStops, TypeOK
<1>4. \A x \in Stack : health'[x] # "none" <=> (x \in Checked /\ Running(x)')
  BY <1>1 DEF Ends, TypeOK, Running
<1> QED
  BY <1>1, <1>2, <1>3, <1>4, Members DEF Ends, TypeOK, Phases

\* A service that comes up, and the job that completes.
LEMMA TypeProgress ==
  ASSUME TypeOK, JobDone \/ \E s \in Stack : ComesUp(s)
  PROVE  TypeOK'
<1>1. CASE JobDone
  BY <1>1, Members DEF JobDone, JobRuns, TypeOK, Phases, Folders, Running
<1>2. ASSUME NEW s \in Stack, ComesUp(s) PROVE TypeOK'
  <2>1. \A x \in Stack : Running(x)' <=> Running(x)
    BY <1>2 DEF ComesUp, TypeOK, Running
  <2> QED
    BY <1>2, <2>1, Members DEF ComesUp, TypeOK, Phases
<1> QED
  BY <1>1, <1>2

\* Health checks.
LEMMA TypeCheck ==
  ASSUME TypeOK, NEW s \in Stack, Engine(s) \/ SlowCheck(s)
  PROVE  TypeOK'
<1>1. UNCHANGED <<phase, certs, command, todo, served>> /\ s \in Checked /\ Running(s)
  BY DEF Engine, CheckPasses, CheckFails, SlowCheck, Miss
<1>2. upsets' \in 0..MaxUpsets
  BY Members DEF Engine, CheckPasses, CheckFails, SlowCheck, Upset, TypeOK
<1>3. misses' \in [Stack -> 0..(Retries - 1)]
  <2>1. CASE CheckPasses(s)
    BY <2>1, Members DEF CheckPasses, TypeOK
  <2>2. CASE Miss(s)
    <3>1. misses[s] \in 0..(Retries - 1)
      BY DEF TypeOK
    <3>2. (IF misses[s] + 1 >= Retries THEN Retries - 1 ELSE misses[s] + 1) \in 0..(Retries - 1)
      BY <3>1, Members
    <3> QED
      BY <2>2, <3>2 DEF Miss, TypeOK
  <2> QED
    BY <2>1, <2>2 DEF Engine, CheckFails, SlowCheck
<1>4. /\ health' \in [Stack -> {"none", "starting", "healthy", "unhealthy"}]
      /\ \A x \in Stack \ {s} : health'[x] = health[x]
      /\ health'[s] # "none"
  <2>1. health[s] # "none"
    BY <1>1 DEF TypeOK
  <2>2. CASE CheckPasses(s)
    BY <2>2 DEF CheckPasses, TypeOK
  <2>3. CASE Miss(s)
    BY <2>1, <2>3 DEF Miss, TypeOK
  <2> QED
    BY <2>2, <2>3 DEF Engine, CheckFails, SlowCheck
<1> QED
  BY <1>1, <1>2, <1>3, <1>4 DEF TypeOK, Running

\* Removal of all containers.
LEMMA TypeRemoved ==
  ASSUME TypeOK, Down \/ Rotate \/ Repair
  PROVE  TypeOK'
<1>1. Removed
  BY DEF Down, Rotate, Repair
<1>2. certs' \in Folders
  BY LeftFolders DEF Down, Rotate, Repair, Folders, TypeOK
<1>3. upsets' \in 0..MaxUpsets
  BY Members DEF Down, Rotate, Repair, Upset, TypeOK
<1> QED
  BY <1>1, <1>2, <1>3, Members DEF Removed, TypeOK, Phases, Running

\* Every step keeps the types.
LEMMA TypeStep == TypeOK /\ [Next]_vars => TypeOK'
<1> SUFFICES ASSUME TypeOK, [Next]_vars PROVE TypeOK'
  OBVIOUS
<1>1. CASE Compose
  BY <1>1, TypeCommand, TypeLaunch DEF Compose
<1>2. CASE Operator
  BY <1>2, TypeCommand, TypeRemoved DEF Operator
<1>3. CASE JobEnds \/ JobStops \/ Expire
  BY <1>3, TypeProgress, TypeEnds, TypeCommand, Members DEF JobEnds
<1>4. CASE \E s \in Stack : Engine(s) \/ SlowCheck(s) \/ ComesUp(s) \/ GivesUp(s) \/ Crash(s)
  BY <1>4, TypeCheck, TypeProgress, TypeEnds
<1>5. CASE UNCHANGED vars
  BY <1>5 DEF vars, container, TypeOK, Running
<1> QED
  BY <1>1, <1>2, <1>3, <1>4, <1>5 DEF Next

-----------------------------------------------------------------------------
\* The order of the services.

\* Without a new container the order stays.
LEMMA OrderKept ==
  ASSUME ComposeInvariant, TypeOK', served \subseteq served',
         \A x \in Stack : phase'[x] # "absent" <=> phase[x] # "absent"
  PROVE  Ordered'
<1>1. ASSUME NEW x \in Stack, phase'[x] # "absent" PROVE After(x)'
  <2>1. After(x)
    BY <1>1 DEF ComposeInvariant, Ordered
  <2>2. StartedFirst(x) \cup CompletedFirst(x) \subseteq Stack
    BY NeedsInStack
  <2> QED
    BY <2>1, <2>2 DEF After, HealthyFirst, StartedFirst, CompletedFirst
<1>2. phase'["gateway"] # "absent" => "asset" \in served'
  BY Members DEF ComposeInvariant, Ordered
<1> QED
  BY <1>1, <1>2 DEF Ordered

\* Starting a container: its conditions are met, so what they name exists.
LEMMA LaunchKeeps ==
  ASSUME ComposeInvariant, TypeOK', NEW s \in Stack, Launch(s)
  PROVE  Recorded' /\ Visited' /\ Ordered' /\ Fresh'
<1> USE DEF ComposeInvariant
<1>1. /\ phase' = [phase EXCEPT ![s] = "booting"]
      /\ health' = [health EXCEPT ![s] = IF s \in Checked THEN "starting" ELSE "none"]
      /\ todo' = todo \ {s} /\ UNCHANGED <<certs, command, served>>
      /\ command = "up" /\ s \in todo /\ Met(s)
  BY DEF Launch, ComesTo
<1>2. /\ phase'[s] = "booting" /\ \A x \in Stack \ {s} : phase'[x] = phase[x]
      /\ health'[s] # "healthy" /\ \A x \in Stack \ {s} : health'[x] = health[x]
  BY <1>1 DEF TypeOK
<1>3. \A x \in Stack : phase[x] # "absent" => phase'[x] # "absent"
  BY <1>2
<1>4. Recorded'
  BY <1>1, <1>2, <1>3, Members DEF Recorded, TypeOK
<1>5. Visited'
  BY <1>1, <1>2, <1>3 DEF Visited
<1>6. Ordered'
  <2>1. After(s)'
    <3>1. HealthyFirst(s) \subseteq served
      BY <1>1, NeedsInStack DEF Met, Recorded
    <3>2. \A n \in StartedFirst(s) \cup CompletedFirst(s) : n \in Stack /\ n \notin todo
      BY <1>1, NeedsInStack DEF Met
    <3>3. \A n \in StartedFirst(s) \cup CompletedFirst(s) : phase'[n] # "absent"
      BY <1>1, <1>3, <3>2 DEF Visited
    <3> QED
      BY <1>1, <3>1, <3>3 DEF After, HealthyFirst, StartedFirst, CompletedFirst
  <2>2. ASSUME NEW x \in Stack \ {s}, phase'[x] # "absent" PROVE After(x)'
    <3>1. After(x)
      BY <1>2, <2>2 DEF Ordered
    <3>2. StartedFirst(x) \cup CompletedFirst(x) \subseteq Stack
      BY NeedsInStack
    <3> QED
      BY <1>1, <1>3, <3>1, <3>2 DEF After, HealthyFirst, StartedFirst, CompletedFirst
  <2>3. phase'["gateway"] # "absent" => "asset" \in served'
    <3>1. CASE s = "gateway"
      <4>1. health["work"] = "healthy"
        BY <1>1, <3>1, NeedsOfGateway, Members DEF Met
      <4> QED
        BY <1>1, <4>1 DEF Recorded
    <3>2. CASE s # "gateway"
      BY <1>1, <1>2, <3>2, Members DEF Ordered
    <3> QED
      BY <3>1, <3>2
  <2> QED
    BY <2>1, <2>2, <2>3 DEF Ordered
<1>7. Fresh'
  BY <1>1, <1>2, Members DEF Fresh
<1> QED
  BY <1>4, <1>5, <1>6, <1>7

\* The command line.
LEMMA CommandKeeps ==
  ASSUME ComposeInvariant, TypeOK',
         Up \/ UpFails \/ UpDone \/ Expire \/ \E s \in Stack : LeaveRunning(s)
  PROVE  Recorded' /\ Visited' /\ Ordered' /\ Fresh'
<1> USE DEF ComposeInvariant
<1>1. UNCHANGED <<phase, health, misses, served>>
  BY DEF Up, UpFails, UpDone, EndUp, Expire, LeaveRunning, ComesTo, container
<1>2. Recorded'
  BY <1>1 DEF Recorded
<1>3. Ordered'
  BY <1>1, OrderKept
<1>4. Visited' /\ Fresh'
  <2>1. CASE UpFails \/ UpDone \/ Expire
    BY <1>1, <2>1 DEF UpFails, UpDone, Expire, EndUp, Visited, Fresh, Complete
  <2>2. CASE Up
    BY <2>2, Members DEF Up, Visited, Fresh
  <2>3. ASSUME NEW s \in Stack, LeaveRunning(s) PROVE Visited' /\ Fresh'
    <3>1. /\ command = "up" /\ todo' = todo \ {s} /\ UNCHANGED <<certs, command>>
          /\ phase[s] \in {"booting", "serving"}
      BY <2>3 DEF LeaveRunning, ComesTo, Running
    <3> QED
      BY <1>1, <3>1 DEF Visited, Fresh
  <2> QED
    BY <2>1, <2>2, <2>3
<1> QED
  BY <1>2, <1>3, <1>4

\* A container that ends.
LEMMA EndsKeeps ==
  ASSUME ComposeInvariant, TypeOK', NEW s \in Stack,
         GivesUp(s) \/ Crash(s) \/ (s = CertJob /\ (JobRefuses \/ JobStops))
  PROVE  Recorded' /\ Visited' /\ Ordered' /\ Fresh'
<1> USE DEF ComposeInvariant
<1>1. Ends(s) /\ phase[s] # "absent" /\ (s = CertJob \/ UNCHANGED certs)
  BY DEF GivesUp, Crash, JobRefuses, JobStops, JobRuns, Running
<1>2. /\ phase'[s] = "exited" /\ health'[s] = "none" /\ UNCHANGED <<command, todo, served>>
      /\ \A x \in Stack \ {s} : phase'[x] = phase[x] /\ health'[x] = health[x]
  BY <1>1 DEF Ends, TypeOK
<1>3. \A x \in Stack : phase'[x] # "absent" <=> phase[x] # "absent"
  BY <1>1, <1>2
<1>4. Recorded'
  BY <1>2, <1>3, Members DEF Recorded, TypeOK
<1>5. Visited' /\ Fresh'
  BY <1>1, <1>2, <1>3, Members DEF Visited, Fresh
<1> QED
  BY <1>2, <1>3, <1>4, <1>5, OrderKept

\* A service that comes up.
LEMMA ComesUpKeeps ==
  ASSUME ComposeInvariant, TypeOK', NEW s \in Stack, ComesUp(s)
  PROVE  Recorded' /\ Visited' /\ Ordered' /\ Fresh'
<1> USE DEF ComposeInvariant
<1>1. /\ phase[s] = "booting" /\ phase'[s] = "serving" /\ served' = served \cup {s}
      /\ UNCHANGED <<health, certs, command, todo>> /\ s # CertJob
      /\ \A x \in Stack \ {s} : phase'[x] = phase[x]
  BY DEF ComesUp, TypeOK
<1>2. \A x \in Stack : phase'[x] # "absent" <=> phase[x] # "absent"
  BY <1>1
<1>3. Recorded'
  BY <1>1, <1>2 DEF Recorded, TypeOK
<1>4. Visited' /\ Fresh'
  BY <1>1, <1>2, Members DEF Visited, Fresh
<1> QED
  BY <1>1, <1>2, <1>3, <1>4, OrderKept

\* The job completes.
LEMMA JobKeeps ==
  ASSUME ComposeInvariant, TypeOK', JobDone
  PROVE  Recorded' /\ Visited' /\ Ordered' /\ Fresh'
<1> USE DEF ComposeInvariant
<1>1. /\ phase[CertJob] = "booting" /\ phase'[CertJob] = "done" /\ certs' \in Complete
      /\ UNCHANGED <<health, command, todo, served>>
      /\ \A x \in Stack \ {CertJob} : phase'[x] = phase[x]
  BY Members DEF JobDone, JobRuns, Complete, TypeOK
<1>2. \A x \in Stack : phase'[x] # "absent" <=> phase[x] # "absent"
  BY <1>1
<1>3. Recorded'
  BY <1>1, <1>2 DEF Recorded, TypeOK
<1>4. Visited' /\ Fresh'
  BY <1>1, <1>2 DEF Visited, Fresh
<1> QED
  BY <1>1, <1>2, <1>3, <1>4, OrderKept

\* Health checks: a verdict "healthy" comes from a service that serves, and
\* for Work from Asset serving too.
LEMMA CheckKeeps ==
  ASSUME ComposeInvariant, TypeOK', NEW s \in Stack, Engine(s) \/ SlowCheck(s)
  PROVE  Recorded' /\ Visited' /\ Ordered' /\ Fresh'
<1> USE DEF ComposeInvariant
<1>1. UNCHANGED <<phase, certs, command, todo, served>>
  BY DEF Engine, CheckPasses, CheckFails, SlowCheck, Miss
<1>2. /\ \A x \in Stack \ {s} : health'[x] = health[x]
      /\ health'[s] = "healthy" => health[s] = "healthy" \/ Passes(s)
  <2>1. CASE CheckPasses(s)
    BY <2>1 DEF CheckPasses, TypeOK
  <2>2. CASE Miss(s)
    BY <2>2 DEF Miss, TypeOK
  <2> QED
    BY <2>1, <2>2 DEF Engine, CheckFails, SlowCheck
<1>3. Recorded'
  <2>1. ASSUME NEW x \in Stack, health'[x] = "healthy" PROVE x \in served
    BY <1>2, <2>1 DEF Recorded, Passes
  <2>2. ASSUME health'["work"] = "healthy" PROVE "asset" \in served
    BY <1>2, <2>2, Members DEF Recorded, Passes
  <2> QED
    BY <1>1, <2>1, <2>2 DEF Recorded
<1>4. Visited' /\ Fresh'
  BY <1>1 DEF Visited, Fresh
<1> QED
  BY <1>1, <1>3, <1>4, OrderKept

\* All containers are removed while no command is running.
LEMMA RemovedKeeps ==
  ASSUME ComposeInvariant, TypeOK', Removed
  PROVE  Recorded' /\ Visited' /\ Ordered' /\ Fresh'
BY Members DEF ComposeInvariant, Removed, Recorded, Visited, Ordered, Fresh, TypeOK

\* Every step keeps the invariant.
LEMMA InvariantStep == ComposeInvariant /\ [Next]_vars => ComposeInvariant'
<1> SUFFICES ASSUME ComposeInvariant, [Next]_vars PROVE ComposeInvariant'
  OBVIOUS
<1>1. TypeOK'
  BY TypeStep DEF ComposeInvariant
<1>2. CASE Compose
  BY <1>1, <1>2, CommandKeeps, LaunchKeeps DEF Compose, ComposeInvariant
<1>3. CASE Operator
  BY <1>1, <1>3, CommandKeeps, RemovedKeeps DEF Operator, Down, Rotate, Repair, ComposeInvariant
<1>4. CASE JobEnds \/ JobStops \/ Expire
  BY <1>1, <1>4, JobKeeps, EndsKeeps, CommandKeeps, Members DEF JobEnds, ComposeInvariant
<1>5. CASE \E s \in Stack : Engine(s) \/ SlowCheck(s) \/ ComesUp(s) \/ GivesUp(s) \/ Crash(s)
  BY <1>1, <1>5, CheckKeeps, ComesUpKeeps, EndsKeeps DEF ComposeInvariant
<1>6. CASE UNCHANGED vars
  <2>1. UNCHANGED <<phase, health, misses, certs, command, todo, served, upsets>>
    BY <1>6 DEF vars, container
  <2> QED
    BY <1>1, <2>1, OrderKept DEF ComposeInvariant, Recorded, Visited, Fresh
<1> QED
  BY <1>2, <1>3, <1>4, <1>5, <1>6 DEF Next

\* Before the first command nothing exists.
LEMMA InvariantInit == Init => ComposeInvariant
BY TypeInit, Members DEF Init, ComposeInvariant, Recorded, Visited, Ordered, Fresh

-----------------------------------------------------------------------------
\* The theorems.

\* Whatever fails and whatever the operator does, containers exist only after
\* those they wait for.
THEOREM ComposeInvariantHolds == Spec => []ComposeInvariant
<1> QED
  BY InvariantInit, InvariantStep, PTL DEF Spec

\* Types of the stack's variables.
THEOREM ComposeTypes == Spec => []TypeOK
<1>1. ComposeInvariant => TypeOK
  BY DEF ComposeInvariant
<1> QED
  BY <1>1, ComposeInvariantHolds, PTL

\* The gateway is opened last.
THEOREM GatewayLast == Spec => []GatewayOpensLast
<1>1. ComposeInvariant => GatewayOpensLast
  <2> SUFFICES ASSUME ComposeInvariant, phase["gateway"] # "absent"
               PROVE  /\ \A s \in Stack : phase[s] # "absent"
                      /\ Stack \ {CertJob, "mock-banking", "banking", "gateway"} \subseteq served
    BY DEF GatewayOpensLast
  <2>1. \A s \in served : phase[s] # "absent"
    BY DEF ComposeInvariant, Recorded
  <2>2. \A s \in Stack : phase[s] # "absent" => After(s)
    BY DEF ComposeInvariant, Ordered
  <2>3. "asset" \in served
    BY DEF ComposeInvariant, Ordered
  <2>4. {"auth", "work"} \cap Stack \subseteq served /\ \A n \in {"banking"} \cap Stack : phase[n] # "absent"
    BY <2>2, NeedsOfGateway, Members DEF After
  <2>5. "mock-banking" \in Stack => phase["mock-banking"] # "absent"
    BY <2>2, <2>4, NeedsOfGateway, NeededBy DEF After
  <2>6. {"work-mysql", "asset-mysql", "redis", "kafka"} \cap Stack \subseteq served
    BY <2>1, <2>2, <2>3, <2>4, NeedsOfGateway, Members DEF After
  <2>7. {"auth-mysql", "banking-mysql", "mock-redis"} \cap Stack \subseteq served
    BY <2>1, <2>2, <2>4, <2>5, NeedsOfGateway, NeededBy DEF After
  <2>8. phase[CertJob] # "absent"
    BY <2>1, <2>2, <2>3, NeedsOfGateway, Members DEF After
  <2> QED
    BY <2>1, <2>3, <2>4, <2>5, <2>6, <2>7, <2>8, Members DEF Service, Infra
<1> QED
  BY <1>1, ComposeInvariantHolds, PTL

\* Services with certificates are started only after a job of this `up` that
\* has completed, and by then every file is there, whatever earlier jobs, the
\* operator and the clock have left; a root that an earlier job has half written
\* may be among them.
THEOREM CertsWhenLaunched == Spec => CertsAtLaunch
<1>1. ComposeInvariant /\ [Next]_vars =>
        [\A s \in Certified \cap Stack :
           phase[s] # "booting" /\ phase'[s] = "booting" => certs \in {"whole", "torn", "expired"}]_vars
  <2> SUFFICES ASSUME ComposeInvariant, Next, NEW s \in Certified \cap Stack,
                      phase[s] # "booting", phase'[s] = "booting"
               PROVE  certs \in Complete
    BY DEF Complete
  <2>1. Launch(s)
    <3>1. ASSUME NEW x \in Stack, Launch(x) PROVE x = s
      BY <3>1 DEF Launch, ComposeInvariant, TypeOK
    <3>2. ~(Up \/ UpFails \/ UpDone \/ Expire \/ \E x \in Stack : LeaveRunning(x))
      BY DEF Up, UpFails, UpDone, EndUp, Expire, LeaveRunning, container
    <3>3. ~(Down \/ Rotate \/ Repair)
      BY DEF Down, Rotate, Repair, Removed
    <3>4. ~ \E x \in Stack : Engine(x) \/ SlowCheck(x)
      BY DEF Engine, CheckPasses, CheckFails, SlowCheck, Miss
    <3>5. ~(JobEnds \/ JobStops)
      BY Members DEF JobEnds, JobDone, JobRefuses, JobStops, Ends, ComposeInvariant, TypeOK
    <3>6. ~ \E x \in Stack : ComesUp(x) \/ GivesUp(x) \/ Crash(x)
      BY DEF ComesUp, GivesUp, Crash, Ends, ComposeInvariant, TypeOK
    <3> QED
      BY <3>1, <3>2, <3>3, <3>4, <3>5, <3>6 DEF Next, Compose, Operator
  <2>2. command = "up" /\ CertJob \notin todo /\ phase[CertJob] = "done"
    BY <2>1, NeedsOfCertified DEF Launch, ComesTo, Met
  <2> QED
    BY <2>2 DEF ComposeInvariant, Fresh
<1> QED
  BY <1>1, ComposeInvariantHolds, PTL DEF Spec, CertsAtLaunch
=============================================================================
