# A verification project for moaje-infra

`moaje-infra` is the repository that assembles the MOAJE back end: a Kotlin/Spring API gateway
(`moajeGateway/`), the Docker Compose topology that starts the services, the shell job that issues
the certificates of the internal gRPC calls (`grpc/init-certs.sh`), a console that creates test
personas (`test-fixture-console/`), the program that writes the API guide for the front end
(`scripts/pdf/build_api_guide.py`), and the harness that drives the assembled system (`tests/`,
`scripts/`). The services themselves (Auth, Asset, Banking, Work, the mock bank) are other
repositories; here they appear only as what the code of this repository calls or waits for.

This directory holds TLA+ modules that model the parts of it that decide something, the TLC runs
that check them on small instances, and theorems about them that TLAPS checks.

    tlc -workers 2 -config gateway_contract.cfg MCGateway      # a run (PROJECT.json lists them)
    tlapm GatewayProofs.tla                                    # the proofs of a module

## Inventory

| Component | State it keeps | Operations | What is hard | What makes it correct |
|---|---|---|---|---|
| **Gateway filters** (`GatewayGuardFilter`, `GatewayJwtFilter`, `SanitizedHeaderHttpServletRequest`, `CorsConfig`) | Per request: trace, nested header wrappers, answer. No state between requests | Trace and key check, token check, CORS, forwarding | Many requests in parallel; three layers each add or hide headers; refusal at any layer | A service is told a verified subject or none; nothing refused is forwarded; one answer; what Banking is sent as a transfer has one key, its documents' route apart |
| **JWT decoder** (`GatewayJwtConfiguration`) | The configured algorithm; the cached key set | Boot, decode, fetch and cache keys | Incomplete configuration; key set unreachable or slow; time passes while a worker waits | Only tokens of the contract are accepted, judged when the keys are there; waiting ends |
| **Routing and proxy client** (`application.yaml`, `GatewayHttpClientConfiguration`) | Connection pool | Prefix rewriting, forwarding | A service that never answers | The request arrives at the service of its path with the headers the filters left |
| **Certificate job** (`grpc/init-certs.sh`) | Files of `certs/` | Keep, refuse or create the authority and each service's set | Stopped anywhere; folders removed; certificates expire; a second job in the same folder | Keys are never replaced; completed means matching and valid; a folder in order is not refused |
| **Persona tools** (`test-fixture-console/app.py`, `scripts/seed-monthly-cashflow-persona.sh`, `scripts/reset-local-test-data.sh`) | Nothing but the request's variables; the state is in Auth, Banking, the mock bank, Asset | Register, log in, open an account, seed, poll, refresh, read; reset | Threads; random phone numbers clash; a call times out after it took effect; the account event may never come | A reported persona is complete; nobody acts as another; nothing is seeded twice; requests end |
| **Compose topology** (`docker-compose.yaml`) | Containers, health verdicts, the certificate folder | up, down, health checks | Start conditions over several services; hanging and ending services; `restart: "no"`; stale success of the job | The gateway opens last; no service starts while a certificate file is missing; `up` ends; repeating it repairs, if certificates that are not in order are renewed |
| **API guide generator** (`scripts/pdf/build_api_guide.py`) | During a run: classes, the sections so far, the rows of the current one. Between runs: the guide and its counts, two files | Load and revise the manifest; a table of inputs and a table of response fields per API; save | A recursive walk over examples of any shape with two sources of types; a missing text anywhere; stopped between the two files; edits between runs | Every field has one row under its object, with the type of its class; nothing half made replaces a guide; counts are not of a newer guide |
| **Fault proxy** (`tests/e2e-proxy.py`) | A dictionary shared by the handlers: one-shot delay, flag, count | Pass on, count, hold back; control requests | A thread per request; the flags outlive a stage; only one kind of error is caught | The count is right; one answer is held back; it is not lost with the thread |
| **Transfer end-to-end flow** (`full-e2e.py`, `rerun-e2e.py`) | What the stages have seen | Send, repeat, kill, stop the broker, follow up | Lost and late answers, a killed Banking, a stopped broker, reconciliation beside a call in progress | Money moves once per key; COMPLETED is true, and FAILED once it has been looked up; every transfer that was sent ends or is left to people; a stage that passes has tested what it is for |
| **Integration fixture** (`tests/work-asset-integration.py`) | Rows of reserved ids in two databases and a cache; messages in Kafka | Pre-check, insert, inspect, send, wait, clean up | Failure between any two; Work's consumer and requests that outlive the caller | Own rows removed, foreign rows untouched |
| **Smoke tests** (`compose-smoke.ps1`, `work-smoke.sh`) | Swapped gateway configuration, stopped broker | Swap, check, restore | Failing steps in the clean-up | Configuration restored |
| **Other end-to-end checks** | None | Calls compared with expected answers; a scan over pages | The scan's cursor | Every row once; the scan ends |
| **Report generators, monitoring, static pages** | None | Layout | – | – |

How they interact. A client reaches only the gateway. The gateway's filters run in the order guard,
JWT, CORS, then the router forwards to Auth, Asset, Banking or Work with the headers the wrappers
show. Asset, Banking and Work trust each other by certificates the job issued; Compose starts them
when the job has completed and their databases are healthy, and the gateway when Work, whose health
check calls Asset, is healthy. The persona tools are clients of the gateway and of the mock bank;
Asset hears of an account by an event from Banking. The harness puts the fault proxy between Banking
and the mock bank; the fixture goes past the gateway, into the databases of Asset and Work and into
Kafka. The guide generator reads the manifest and the sources of Auth and talks to nobody.

## Plan

| Step | Modules | Status |
|---|---|---|
| 1 | `HeaderView`, `JwtContract`, `GatewayFilters` composed of both, `IdentityBoundary` (abstract), `GatewayProperties`, proofs | done |
| 2 | `CertInit`, `CertProperties`, `TrustCircle` (abstract), proofs of safety and of the refinement | done |
| 3 | `PersonaRun`, `PersonaProperties`, proofs | done |
| 4 | `ComposeStartup`, `ComposeProperties`, proofs | done |
| 5 | `ApiGuide`, `GuideProperties`, proofs of all their properties | done |
| 6 | `FaultProxy`, `TransferFlow` composed with it, `OneTransfer` (abstract), `TransferProperties`, proofs of its safety and of the refinement | done |
| 7 | `TransferDrill`: the timeout and the crash stage as programs over `TransferFlow`, proofs | done |
| 8 | `IntegrationFixture`, proof that it leaves the system as it found it | done |
| 9 | Stages of `full-e2e.py` on registration and on revisions of monthly sums | open |

The important behaviour of the system, what a service may believe about a caller, came first; then
what other components rely on (certificates, start order); then the tools, the guide and the tests.

## Modules

**Gateway.** `HeaderView` models a request as the servlet API shows it (names in the spelling that is
enumerated, values by case-insensitive name) and the wrapper that blocks and adds headers. `JwtContract` says
which decoder a configuration yields and which tokens it accepts: signature, issuer, audience, times with the
clock skew, and the identity claims. `GatewayFilters` is the program: a worker per request with the stages
`guard`, `jwt`, `fetch` (waiting for a key set), `cors`, `route`, `proxy`, `done`; an action per outcome of
each filter; `Boot`/`Restart`, the key set that comes and goes, the key cache, and the clock. Each route cuts
or puts back its prefix and keeps what follows it. The request line's path is one thing for the filters and
for the router, as it is for a path without encoded characters or parameters. Values of headers, paths and
tokens are members of small sets; JSON bodies and logging are left out. `IdentityBoundary` is the abstract
promise: visits knock, are let in or turned away, and are announced as exactly whom they proved to be.

**Certificates.** `CertInit` models each file of the folder as absent, torn, or holding a key or a certificate
(key, signer, end of validity), each command of the script as the steps that write its files one after
another, `set -e`, a stop at any step that may leave the file being written torn, the operator who removes a
folder, and the clock. Serial numbers (and `authority/ca.srl`, in which signing keeps them and which no test
of the script looks at), subjects and extensions are left out; existence tests are atomic. `TrustCircle` is
the abstract promise, that of the script's comment (lines 5 to 7): an authority is established only while
nobody is certified, it is preserved when a service joins, and everybody's certificate and root are of that
authority; only the operator takes anything away. A torn file counts as none.

**Persona tools.** In `PersonaRun` a run is a place in a plan of calls; each call succeeds, is
refused, takes effect but loses its answer, or is answered with something unreadable. The services
are what the calls need: who owns a phone number, who holds an account, how many transactions the
ledger has and how many of them Asset has collected. One month stands for the months of a request,
`None` for no user; the choice between status 400 and 502 is left out. A call may also find nobody
(`NoAnswer`), which ends a request even while it polls, as only HTTP errors are waited out there.

**Start-up.** `ComposeStartup` has a container phase and a health verdict per service, what `up` has still to
come to, and what is in the certificate folder (`Folders`): sets are missing, all is there and in order, a
copy of the root is torn, a set or the authority is incomplete, or it has expired. The job makes what is
missing (`JobDone`), does not see a torn root, refuses what is incomplete or expired (`JobRefuses`), and
leaves something in between when it is stopped (`JobStops`, `Left`); `CertInit` has the same job step by step.
The operator removes folders while the stack is down, to rotate certificates (`Rotate`) or to renew those that
are not in order (`Repair`). The conditions per service (`AssetNeeds`, `GatewayNeeds`, ...), the checks and
`restart: "no"` are those of `docker-compose.yaml`; how Compose waits, gives up and starts again containers
that have ended (the job's too) and how the engine counts failed checks are external. Nothing in the profile
`apps` waits for a service of another profile; those are left out. Which of the folders a service reads is not
in order is left open: with anything but a whole folder a service with certificates may come up or end, and
Work's check of Asset may fail or pass. Removing folders below a running stack is left out.

**API guide.** `ApiGuide` takes an example value as a tree of nodes; what the program writes about it
(texts, widths, fonts) is left out. `Load` reads and revises the manifest, one `OpenSection` per API
makes the table of inputs, `Document` writes one row of the response table, `Fail` is the `ValueError`
of a field without a text or a file that cannot be written, and the two files are opened and written in
steps of their own. `walk()`, which is recursive, is a stack machine: `todo` holds the calls it has still
to make with the schema each of them carries, so a step of the run is one field and the theorems hold for
any depth. Recursion over classes and request bodies is by recursive functions, and so is the selection from
a list (`Chosen`, the `if` of a comprehension). One dictionary laid over another is `Overriding`.
`ClassAssumption` is what Python and Kotlin guarantee of the classes read: they have names and none is its
own ancestor. `ApiAssumption` says that every API has a group, and that those in the four groups of the
guide have ids that differ; the manifest's entries of other groups, the internal mock API, have none.
`meaning()` is reduced to whether it finds a text (`Explained`). Files are edited between runs only.

**Transfers.** `FaultProxy` has a thread per request (`stage`), the lock's section as one action (`Enter`),
the answer each thread holds and what the mock bank has executed. The mock bank executes a transfer, refuses
it, or ends with a server error before or after it has executed it, which the proxy passes on. A request or
its answer may be lost (`Fail`): the thread ends without a reply, as the proxy catches error statuses only.
`TransferFlow` adds the calls with their keys, Banking's row, read timeout, reconciliation and outbox, Kafka,
and Asset's history, as external definitions: what the tests of this repository use of them and what
`docs/adr/ADR-002` to `ADR-005` say. A row is saved as `REQUESTED` (`Send`) before it is marked and sent
(`MarkProcessing`); no worker looks up one that is killed in between (`ADR-004:59`). Every answer that is not
a success, a 5xx included, is recorded as FAILED, and a broken connection is recorded as FAILED or as UNKNOWN
(`GiveUp`, `ADR-004:59`). Reconciliation looks a transfer up at most `MaxAttempts` times (`ADR-004:32`), and
the outbox may give up while Kafka is stopped (`Exhaust`, `ADR-003:19`); what is left then is for people. The
mock bank is *not* assumed to recognise a repeated transfer, so that a second request would move money twice.
`OneTransfer` is the promise: per key, money moves at most once while nothing is recorded, the record stays,
COMPLETED is true, and Asset shows only what is recorded as completed. FAILED is true of every transfer that
has been looked up, or whose own request ended with an answer other than an error; a transfer whose request
ended in an error or a broken connection is in doubt (`Doubtful`), and if it is recorded as FAILED at once,
the money may have moved. `TransferDrill` runs the stages `timeout` (`full-e2e.py:286`) and `crash`
(`rerun-e2e.py:224`) as a sequential program beside that system, the person who kills Banking included; `calm`
marks the behaviours in which nothing fails but what the stage makes fail. `Place` numbers the statements of
the two functions, which are left one after the other; `hit` remembers that the kill fell between the mock
bank's execution and Banking's save.

**Fixture.** `IntegrationFixture` has one place per statement of `main()` and a way to fail at each
(`Breaks`, and the failures after an effect); `owns` is `owns_data`. Rows are abstracted to who has rows
in a store: the fixture or others. Work's consumer writes rows before it commits, may crash in between,
and a request of a run that gave up may still write; it is assumed that this is over before the next run
begins, and that nobody else uses the reserved ids during a run.

Every definition that stands for code is in `PROJECT.json` under `map`, with its lines. Definitions
named as variants (`GuardViewOwnOnly`, `KeptWithoutRoot`, `LostAnswerRetried`, ...) are plausible
mistakes, used only to see that a property would notice them.

## Runs

| Run | Instance | What it shows |
|---|---|---|
| `gateway_contract` | 1 worker, 15 tokens (a good one of each algorithm and one for each way to miss the contract), 45 requests with repeated and internal headers in other spellings, 11 configurations | `IdentityVerified`, `InternalHeadersHidden`, `CopiedOnce`, `TransferKeyed`, and that the filters implement `IdentityBoundary` |
| `gateway_threads` | 2 workers, 3 requests, clock up to 3 | Traces stay apart and agree, no token is admitted that expired while its worker waited for keys, no request is held for ever |
| `certs_one_job` | 2 services, 9 keys, clock up to 2, validity 1 | The job's promises under stops, removals and expiry; the folder implements `TrustCircle` (`KeepsTrust`) |
| `certs_two_jobs` | 2 jobs in one folder | Violation: a key is replaced (finding 2) |
| `certs_torn_root` | 1 job | Violation: an incomplete set is accepted (finding 1) |
| `persona_runs` | 2 console requests, 1 script, 2 phone numbers, a reset | `OwnUserOnly`, `SeededOnce`, `MadeIsWhole`, and a console request ends |
| `compose_up` | 6 services, 2 retries, 2 failures, any folder of certificates at the start | `GatewayOpensLast`; no service is started while a certificate file is missing (`CertsAtLaunch`); `up` ends although services hang for ever; repeating it, and renewing certificates that are refused or torn, brings everything up (`Recovers`) |
| `guide` | Adjacent pairs of 9 APIs in both orders and one manifest of five; 3 runs, 1 edit | The saved guide (`TablesComplete`, `ParentsShown`, `IndexIsContents`, `NothingUnexplained`), the types in it (`TypesDeclared`), the guide and its counts (`CountsNotAhead`) |
| `transfer_once` | 3 calls, two with one key; slow mock bank, one armed delay, one kill | `MovedOnce`, `CountTells`, `HeldIsReconciled` |
| `transfer_settles` | A call and its repetition; mock bank answers within Banking's patience or not at all; a delay, two kills, an outage, two lookups | The flow implements `OneTransfer`; a transfer that was sent is shown, fails or is left to people (`EveryTransferEnds`) |
| `transfer_drill` | The four calls of the two stages, with and without further failures | `PassedMeansHit`, `NoFalseAlarm` |
| `fixture` | 4 messages in 2 topics, 3 runs, rows of others anywhere | `LeavesAsFound` |

Why the bounds are enough. The gateway's requests share nothing but traces, the decoder and the key cache, so
two workers show every interaction, and one is enough for what concerns a request alone; the theorems cover
any number. The clock needs the moments before, at and after an expiry plus the skew. Two services are the
least for which one can be kept while the other is made; three were checked once as well (2.5 million states).
Nine keys are never used up. Time 2 with validity 1 lets every certificate expire; the authority's and the
services' differ in when they were made. Two withdrawals for eight show a failure between two; two or three
questions for twenty show the first, the last and one in between. A stack leaves out databases that are waited
for in the same way as the ones it keeps; two retries for 10 to 30 show a failure that counts and the one that
decides. Two failures allow a crash, a stopped job, an expiry, a rotation or a `down` on top of another.
Tables and sections of the guide depend on one API and on the one before it (rows left over, order of groups),
so pairs show what any manifest can; three runs let a complete guide meet a newer one that is stopped, with an
edit before either. Calls of different keys share only the proxy's dictionary, so three calls show a pair of
one key and a bystander; a second kill adds one during recovery. Two attempts of reconciliation are one that
fails and the last one. The delay of 35 s against a read timeout of 30 s are the numbers of the code. Two
messages per topic let Work lag by one and repeat one; a third run meets what a failed one left that a killed
one began. Events are not
followed into Kafka in `transfer_once` (`EventsStay`): nothing its properties speak of depends on them.
In the transfer and fixture runs the system may stop: every call has been answered, or the last run
has ended.

Fairness. *Gateway*: weak fairness of each worker's own steps, as its thread runs them; time-outs of the key
fetch belong to them. Nothing is assumed of services (the proxy client has no read time-out), clients, the
clock, the key set or the operator. *Certificate job*: its steps, nothing of the environment; what is claimed
of it is safety and holds without. *Persona*: the console's steps, as `urlopen` has a time-out of 15 seconds;
not the script's, whose `curl` has none. *Start-up*: Compose, the engine's periodic checks and the job go on;
services may hang. `Recovers` assumes in addition (`Patience`, its premise) that a service comes up once it
can, that the operator gives the command again, and that certificates which are torn, incomplete or expired
are not left alone for ever: repeating the command alone does not repair these, as the job refuses or retains
them. A console request's progress (`GoesOn`) rests on answers and time-outs, not on calls that find nobody.
*Transfers*: the proxy's threads, Banking's and Asset's workers go on; what was killed or stopped is started
again, as the stages do. All of it is weak fairness, and nothing is assumed of the mock bank, each of whose
answers may be lost, nor of callers, kills or outages: a transfer that is never answered runs out of attempts
and is left to people, which is one of the ends that `EveryTransferEnds` allows. It says nothing of a row that
is only `REQUESTED`.

## Proofs

Theorems hold for all values of the constants that meet the named assumptions of the modules.

* `GatewayProofs`: what a header wrapper shows (`SanitizedValues`) and that it keeps names and values in
  agreement (`SanitizedCoherent`). Then the inductive invariant `GatewayInvariant` says of each stage which
  nest of wrappers the request has and what was established about it (`StageInvariant`). `IdentityVerified`
  alone is not inductive: it speaks of sent messages, whereas what makes it true was decided two filters
  before. One lemma per action; the types, the safety properties and two action properties follow, among
  them `RefusedNotForwarded` and `AnswerIsFinal`, which no run repeats. `TransfersAreKeyed` goes from the
  path that Banking is sent back to the path that the guard saw: no route but that of Banking's documents
  rewrites anything into a transfer (`TransferSource`). Every step of the filters is a step of
  `IdentityBoundary` or none (`GatewayImplementsBoundary`): each action is shown to let the worker's visit
  knock, be let in, be turned away, leave, or not to touch it.
* `CertProofs`: under `OneJob` (no two jobs in the folder), `CertInvariant` states what belongs together in
  the folder wherever a job stopped, what the running job's tests have shown and what it has still to write.
  From it: keys are never overwritten, completed sets match and are valid, and a folder in order is refused
  only if the clock moved. `FolderKeepsTrust` shows that the job implements `TrustCircle`, and
  `ServicesTrust` that any two services with whole files accept each other, in the middle of a run and after
  the authority's folder was removed as well. That is inductive only together with `TrustInvariant`: no root
  without a certificate (else a new authority could meet an old root, as the script looks only for keys and
  certificates) and one signer of all certificates. Without `OneJob` the claims are false (finding 2).
* `PersonaProofs`: `PersonaInvariant` says what each place in the plan implies about phone number, session,
  account, ledger and aggregates; it is needed for failed runs too, as their users stay.
* `ComposeProofs`: `ComposeInvariant` says that a container exists only after those it waits for, that what
  is healthy has served, that a healthy Work vouches for Asset, and that a job this `up` started and saw
  complete has left every certificate file in place (`Fresh`), which neither a job that was stopped or
  refused nor a removal of folders can undo while the command runs. A root that an earlier job left half
  written is not excluded: the job does not see it (finding 1). For every stack that holds the job, Asset,
  Work and the gateway, and nothing that nothing waits for.
* `GuideProofs`: `GuideInvariant` says what the rows so far and the calls still to make amount to
  (`Walked`): together they cover, once and in order, the fields of the example down to those that rows have
  opened. That nothing is listed twice needs `TreeAssumption`, that example values are trees: a field that
  `walk()` meets is of one object only, and deeper than it. `TablesComplete`, `NothingUnexplained` and
  `CountsNotAhead` follow, for examples of any depth and any number of runs. `GuideParentsShown` needs
  `ShapeAssumption` besides: what the program opens at a null is a `CategoryShareResponse`, which only reads
  as an object if the manifest has that class (it has). `GuideTypesDeclared` says that each row has the type
  of its field in the class of the object above it, inherited fields included. Two parts carry it: every
  call still to make holds the schema of the class its parent's row names (`SchemaInvariant`), and
  `fields()`, which calls itself for the base, is defined for every class although the classes are any
  finite or infinite set, because none of them is its own ancestor (`Grounded`). `GuideIndexIsContents` says
  that the index lists the sections in their order, although one is selected by audience from all APIs and
  the other by group and audience in turn. It rests on what `Chosen` does to any sequence (elements, order,
  concatenation, distinctness), each by induction over the length. Induction is stated for a set of lengths
  (`Naturals`, from the well-foundedness of finite sets), since the library's induction theorems take an
  operator. That `APIS` is sorted by group makes grouping it again change nothing (`IndexAsSections`);
  `IndexInvariant` follows the index from `Load` to the saved guide.
* `TransferProofs`: `TransferInvariant` has a part for two calls of one key (`OneSender`), one for a call
  and the thread that carries it, and one for a key and its lookup. `MovedOnce` is not inductive: the step
  that would break it is the mock bank's, and what excludes it is that the row was made by the only call
  that ever sends, and that this call's request has not been executed. A lookup's "absent" is true only
  while no request is on its way; if the mock bank answers within Banking's patience or not at all (`~Slow`)
  `Stale` guarantees that, which is what `KeepsThePromise` (the refinement of `OneTransfer`) needs. The
  doubt it allows is part of the promise: a FAILED without a lookup, after an error or a broken connection
  of the request, may be false. `MoneyMovesOnce`, `ToldIsTrue`, `HeldAreReconciled` and the types hold for a
  slow one too. `CountIsRight` proves `CountTells`, for finitely many calls: by `CountInvariant` the count
  is the number of transfers whose answer has come back to the proxy, a set between those it is compared
  with.
* `DrillProofs`: what a passed stage is worth (`PassedStagesHit`) and that no stage fails for nothing in a
  calm behaviour (`NoAlarmIsFalse`). The invariant says which calls have been made at each statement
  (`Course`), what the dictionary then holds and what each check has seen if all have passed (`Passing`),
  and, for calm behaviours, where the answers and Banking's rows can be while a statement waits
  (`CalmCalls`, `CalmAnswers`, `CalmRows`). Assumed: `~Slow`, without which the mock bank may answer later
  than Banking waits and either claim is false, and that both stages may arm the proxy (`DrillAssumption`).
  The number of kills, lookups and outages is arbitrary.
* `FixtureProofs`: `FixtureInvariant` says which stores a run has shown to be empty at each statement
  (`OwnershipInvariant`: nothing is deleted that was found), and what holds as long as no exception was
  raised (`SmoothInvariant`): all was sent, and from the wait on Work has committed to the end of every
  topic, so that nothing can bring rows back after they were deleted.

Only model-checked: the liveness properties (`EveryRequestMovesOn`, `EveryRequestEnds`, `UpEnds`,
`Recovers`, `EveryTransferEnds`), which rest on fairness and so are out of the provers' reach, and the two
violations. No module uses a `RECURSIVE` operator.

## Findings

1. `grpc/init-certs.sh:30` looks only at whether a service's `ca.crt` exists. A job stopped while `cp`
   writes it leaves a torn root that the next run retains and reports as success, against line 38's
   "Incomplete $service certificate set". Run `certs_torn_root`.
2. "keys will not be overwritten" (`grpc/init-certs.sh:12`, `:38`) does not hold for two jobs that share
   the folder, as two compose projects with the default folder do: both find it empty, the second
   replaces the first's key. Run `certs_two_jobs`; `docs/run-on-another-pc.md:103` asks for separate
   folders, nothing enforces it.

Observations that contradict no document and have no run: the CORS filter runs after the JWT filter, so a
preflight to a protected path is answered 401. The guard asks for an idempotency key on Banking's transfer
path as the client writes it (`ADR-002:13` limits the check to that path); a `POST` under `/docs/banking/` is
rewritten behind the filters to whatever follows, the transfer path included, and reaches Banking with neither
key nor identity checked here, so it is Banking's own check that decides: `TransferKeyed` is about what
Banking is sent, and names this route as its exception. A key set that cannot be reached is answered as an
invalid token (401), not as unavailable (503). The proxy client has neither connect nor read time-out, so a
silent service holds a worker. Compose gives Auth a default issuer and the gateway none: with the variable
unset the gateway answers 503 to tokens. The console answers 400 also when a service's answer was unreadable
after effects took place. A script in progress during a reset fails, as going down and up takes longer than
its pauses. Work's health verdict can be older than Asset's last crash, so a gateway that is started again may
open before Asset serves again: `GatewayOpensLast` promises only that Asset has served since its container was
created. Banking may never have served.

Of the guide: a class of Auth that is read anew has only the bases of the sources, so fields that it
inherited from a class known to the manifest alone lose their types; a class that Auth has removed
survives from the manifest; `Optional[list[X]]` is not resolved to X; an object nested in a request
body gets no rows for its fields; the folder of the guide is not created.

Of transfers: the crash stage's first check does not record whether its poll ever saw `forwarded`, so
`PassedMeansHit` has that as a premise. Three limitations that `docs/adr/ADR-004` names: if the mock bank
answers later than Banking waits, a lookup may find nothing, the transfer be recorded as FAILED, and the money
move afterwards (line 57), hence the refinement for `~Slow` only; a 5xx or a broken connection of the request
is recorded as FAILED although the money may have moved (line 59), hence `Doubtful` in the promise; a row that
is saved as `REQUESTED` when Banking is killed stays so (line 59), and its caller's repetition is told
PROCESSING for ever.

Of the fixture: after a run that failed before its messages were consumed, Work writes their rows later
and the next run refuses to start; snapshots are checked but never cleaned up; an exception in one step
of `finally` skips those after it; of two runs at once both may pass the pre-check, and the one whose
insert fails would then delete the rows of the other. In `tests/compose-smoke.ps1` an exception of the
first command of `finally` (line 172, Kafka) skips the restoration of the gateway's configuration that
line 87 promises.

## Not modelled

* The stages of `full-e2e.py` and `rerun-e2e.py` on registration, RPC, Work's API, revisions of monthly
  sums, dead letters and JWT: each calls the running services and compares answers, which other
  repositories give.
* The smoke tests: commands in a row, whose clean-up restores a configuration; a model would repeat
  their order.
* The scan over pages (`tests/account-pagination-e2e.py`): the cursors are Asset's, and the scan gives up
  after ten pages, so nothing here decides whether a row is missed.
* Generators of reports, monitoring, static pages: no state, nothing to order.
* Paths of the proxy other than transfers and their lookups: passed on without a trace.
* `CachedBodyHttpServletRequest.kt` and `ApiErrorResponse.kt`: nothing refers to them.
* Inside the services: other repositories. What they do for a call is marked external in the map. Of Banking,
  the leases of its workers (`ADR-004:63`) and transfers that are reversed later (`REVERSED`, `ADR-004:36` to
  `:40` and `:61`) are left out: the tests have one Banking and reverse nothing.
* In the topology: ports, memory limits, environment and volumes, the profiles `tools`, `monitoring`
  and `test-tools`, and the start period of the checks, within which a failure leaves no trace.
