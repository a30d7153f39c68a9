------------------------- MODULE IntegrationFixture -------------------------
(***************************************************************************)
(* tests/work-asset-integration.py: a test that puts rows of reserved      *)
(* users into a running system, lets Asset, Work and Kafka work on them,   *)
(* and takes them out again.  It runs inside Work's container, one run at  *)
(* a time.  Asset, Work and its consumer are external.                     *)
(***************************************************************************)
EXTENDS Naturals, Sequences

CONSTANTS
  Messages,  \* the topics of the events a run sends, in order
  MaxRuns    \* bound on the runs

Topic == {Messages[i] : i \in DOMAIN Messages}

ASSUME FixtureAssumption ==
  Messages \in Seq(Topic) /\ Messages # <<>> /\ MaxRuns \in Nat

\* Asset's tables of accounts and of snapshots, Work's tables and its cache.
Store == {"account", "snapshot", "work", "cache"}

VARIABLES
  content,    \* per store: who has rows of the reserved users in it
  step,       \* where the run is, 0 if there is none
  owns,       \* owns_data
  raised,     \* an exception is on its way through finally
  outcome,    \* how the last run ended
  sent,       \* messages this run has sent
  wanted,     \* per topic: the offset after the last of them
  log,        \* per topic: Kafka's end of the log
  written,    \* per topic: how far Work has written rows
  committed,  \* per topic: how far Work has committed
  asked,      \* Work is busy with a request nobody waits for
  found,      \* the stores as the run found them
  runs

kafka  == <<log, written, committed>>
locals == <<owns, raised, sent, wanted>>
vars   == <<content, step, owns, raised, outcome, sent, wanted, log, written, committed,
            asked, found, runs>>

\* The statements of main() in order; the first four are the checks of the
\* stores they are named after.
Place ==
  [account |-> 1, snapshot |-> 2, work |-> 3, cache |-> 4, insert |-> 5, rpc |-> 6, http |-> 7,
   send |-> 8, wait |-> 9, read |-> 10, look |-> 11, delete_work |-> 12, count_work |-> 13,
   delete_cache |-> 14, delete_account |-> 15]

At(s)   == step = Place[s]
Onward  == step' = step + 1 /\ UNCHANGED <<raised, outcome>>
Finally == Place.delete_work

Added(stores) ==
  content' = [s \in Store |-> IF s \in stores THEN content[s] \cup {"fixture"} ELSE content[s]]

Init ==
  /\ content \in [Store -> {{}, {"others"}}]
  /\ step = 0 /\ owns = FALSE /\ raised = FALSE /\ outcome = "none"
  /\ sent = 0 /\ wanted = [t \in Topic |-> 0]
  /\ log = [t \in Topic |-> 0] /\ written = log /\ committed = log
  /\ asked = FALSE /\ found = content /\ runs = 0

\* A run is started when what an earlier one has asked of Work has ended.
Begin ==
  /\ step = 0 /\ runs < MaxRuns /\ ~asked
  /\ runs' = runs + 1
  /\ step' = 1 /\ owns' = FALSE /\ raised' = FALSE /\ outcome' = "none"
  /\ sent' = 0 /\ wanted' = [t \in Topic |-> 0]
  /\ found' = content
  /\ UNCHANGED <<content, kafka, asked>>

Ends(how) == step' = 0 /\ outcome' = how

\* An exception: finally cleans up if the run owns the data, unless it is
\* finally that raised it.
Raise ==
  IF owns /\ step < Finally
  THEN step' = Finally /\ raised' = TRUE /\ UNCHANGED outcome
  ELSE Ends("failed") /\ UNCHANGED raised

\* A statement fails before it has an effect, or a deadline passes.
Breaks ==
  /\ step # 0
  /\ Raise
  /\ UNCHANGED <<content, owns, sent, wanted, kafka, asked, found, runs>>

(***************************************************************************)
(* try                                                                     *)
(***************************************************************************)
\* No rows of the reserved users anywhere; then the data is the run's own.
Check(s) ==
  /\ At(s)
  /\ IF content[s] = {} THEN Onward ELSE Raise
  /\ IF content[s] = {} /\ s = "cache" THEN owns' = TRUE ELSE UNCHANGED owns
  /\ UNCHANGED <<content, sent, wanted, kafka, asked, found, runs>>

\* Rows are committed one by one: some may be in when an insert fails.
Insert ==
  /\ At("insert")
  /\ Added({"account"})
  /\ Onward \/ Raise
  /\ UNCHANGED <<owns, sent, wanted, kafka, asked, found, runs>>

\* What a balance request must not do is to write snapshots.
InspectRpc ==
  /\ At("rpc")
  /\ \E wrote \in SUBSET {"snapshot"} : Added(wrote)
  /\ Onward \/ Raise
  /\ UNCHANGED <<owns, sent, wanted, kafka, asked, found, runs>>

\* Work may write rows and cache while it answers, or after the time is up.
InspectHttp ==
  /\ At("http")
  /\ \E wrote \in SUBSET {"work", "cache"} : Added(wrote)
  /\ \/ Onward /\ UNCHANGED asked
     \/ Raise /\ asked' \in BOOLEAN
  /\ UNCHANGED <<owns, sent, wanted, kafka, found, runs>>

\* send_and_wait; the message may be there though the answer is not.
Send ==
  /\ At("send")
  /\ LET t == Messages[sent + 1] IN
       /\ log' = [log EXCEPT ![t] = @ + 1]
       /\ wanted' = [wanted EXCEPT ![t] = log[t] + 1]
  /\ sent' = sent + 1
  /\ \/ /\ step' = IF sent' = Len(Messages) THEN step + 1 ELSE step
        /\ UNCHANGED <<raised, outcome>>
     \/ Raise
  /\ UNCHANGED <<content, owns, written, committed, asked, found, runs>>

\* Variant: until rows are there.
WaitedForRows == content["work"] # {}

Waited == \A t \in Topic : committed[t] >= wanted[t]

Wait ==
  /\ At("wait") /\ Waited
  /\ Onward
  /\ UNCHANGED <<content, owns, sent, wanted, kafka, asked, found, runs>>

\* The rows that Work made of the events, and no snapshots.
Read ==
  /\ \/ At("read") /\ (IF content["work"] # {} THEN Onward ELSE Raise)
     \/ At("look") /\ (IF content["snapshot"] = {} THEN Onward ELSE Raise)
  /\ UNCHANGED <<content, owns, sent, wanted, kafka, asked, found, runs>>

(***************************************************************************)
(* finally                                                                 *)
(***************************************************************************)
Emptied(s) == content' = [content EXCEPT ![s] = {}]

DeleteWork ==
  /\ At("delete_work") /\ Emptied("work")
  /\ Onward
  /\ UNCHANGED <<owns, sent, wanted, kafka, asked, found, runs>>

CountWork ==
  /\ At("count_work")
  /\ IF content["work"] = {} THEN Onward ELSE Raise
  /\ UNCHANGED <<content, owns, sent, wanted, kafka, asked, found, runs>>

DeleteCache ==
  /\ At("delete_cache") /\ Emptied("cache")
  /\ Onward
  /\ UNCHANGED <<owns, sent, wanted, kafka, asked, found, runs>>

DeleteAccount ==
  /\ At("delete_account") /\ Emptied("account")
  /\ Ends(IF raised THEN "cleaned" ELSE "passed")
  /\ UNCHANGED <<locals, kafka, asked, found, runs>>

(***************************************************************************)
(* Work meanwhile: rows first, the offset afterwards.                      *)
(***************************************************************************)
Process(t) ==
  /\ written[t] < log[t]
  /\ written' = [written EXCEPT ![t] = @ + 1]
  /\ Added({"work"})
  /\ UNCHANGED <<step, locals, outcome, log, committed, asked, found, runs>>

Commit(t) ==
  /\ committed[t] < written[t]
  /\ committed' = [committed EXCEPT ![t] = written[t]]
  /\ UNCHANGED <<content, step, locals, outcome, log, written, asked, found, runs>>

LateRequest ==
  /\ asked
  /\ \E wrote \in SUBSET {"work", "cache"} : Added(wrote)
  /\ asked' = FALSE
  /\ UNCHANGED <<step, locals, outcome, kafka, found, runs>>

\* Work's container stops, and the run with it; it starts again where it has
\* committed.
WorkRestarts ==
  /\ written' = committed /\ asked' = FALSE
  /\ IF step # 0 THEN Ends("killed") ELSE UNCHANGED <<step, outcome>>
  /\ UNCHANGED <<content, locals, log, committed, found, runs>>

Kill ==
  /\ step # 0
  /\ Ends("killed")
  /\ UNCHANGED <<content, locals, kafka, asked, found, runs>>

Run  == Begin \/ Breaks \/ Kill \/ (\E s \in Store : Check(s))
        \/ Insert \/ InspectRpc \/ InspectHttp \/ Send \/ Wait \/ Read
        \/ DeleteWork \/ CountWork \/ DeleteCache \/ DeleteAccount
Work == LateRequest \/ WorkRestarts \/ \E t \in Topic : Process(t) \/ Commit(t)

Next == Run \/ Work

Spec == Init /\ [][Next]_vars

\* The fixture leaves the system as it found it.  What was there before the
\* run, of others or of an earlier run that was stopped, is never deleted;
\* after a run that passes nothing is left, and no message that could still
\* bring something back; after one that has failed and cleaned up no account
\* is left.
LeavesAsFound ==
  /\ \A s \in Store : found[s] \subseteq content[s]
  /\ outcome = "passed" => content = found /\ written = log /\ committed = log
  /\ outcome = "cleaned" => content["account"] = found["account"]

(***************************************************************************)
(* The invariant behind it, by the places of a run.                        *)
(***************************************************************************)
Types ==
  /\ content \in [Store -> SUBSET {"fixture", "others"}]
  /\ found \in [Store -> SUBSET {"fixture", "others"}]
  /\ step \in 0..15 /\ owns \in BOOLEAN /\ raised \in BOOLEAN /\ asked \in BOOLEAN
  /\ outcome \in {"none", "failed", "killed", "cleaned", "passed"}
  /\ sent \in 0..Len(Messages) /\ runs \in 0..MaxRuns
  /\ wanted \in [Topic -> Nat] /\ log \in [Topic -> Nat]
  /\ written \in [Topic -> Nat] /\ committed \in [Topic -> Nat]

\* Kafka's order: rows of what was sent, commits of what has rows; and the
\* run waits for the end of the log, as nobody else sends.
LogInvariant ==
  /\ \A t \in Topic : committed[t] <= written[t] /\ written[t] <= log[t]
  /\ \A i \in 1..sent : wanted[Messages[i]] = log[Messages[i]]

\* What a check has shown of a store is known of what was found there.
OwnershipInvariant ==
  /\ \A s \in Store : found[s] \subseteq content[s]
  /\ step >= 2 => found["account"] = {}
  /\ step >= 3 => found["snapshot"] = {}
  /\ step >= 4 => found["work"] = {}
  /\ step >= 5 => found["cache"] = {}
  /\ step \in 1..4 => ~owns
  /\ step >= 5 => owns

\* A run that nothing has gone wrong with.
SmoothInvariant ==
  /\ step \in 1..11 => ~raised
  /\ step # 0 /\ ~raised =>
       /\ ~asked
       /\ step <= 7 => sent = 0
       /\ step = 8 => sent < Len(Messages)
       /\ step >= 9 => sent = Len(Messages)
       /\ step >= 10 => committed = log
       /\ step >= 12 => content["snapshot"] = {}
       /\ step >= 13 => content["work"] = {}
       /\ step >= 15 => content["cache"] = {}

EndInvariant ==
  /\ step # 0 => outcome = "none"
  /\ outcome = "passed" => content = found /\ committed = log /\ ~asked
  /\ outcome = "cleaned" => content["account"] = {} /\ found["account"] = {}

FixtureInvariant ==
  Types /\ LogInvariant /\ OwnershipInvariant /\ SmoothInvariant /\ EndInvariant
=============================================================================
