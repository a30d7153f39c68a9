---------------------------- MODULE TransferFlow ----------------------------
(***************************************************************************)
(* The way of a transfer that tests/full-e2e.py and tests/rerun-e2e.py     *)
(* follow: a call with an Idempotency-Key, Banking's row for the key, the  *)
(* mock bank behind the proxy of FaultProxy, reconciliation, Banking's     *)
(* outbox, Kafka and Asset's history.  Banking, Kafka and Asset are other  *)
(* repositories: they are modelled as the tests use them and as            *)
(* docs/adr/ADR-002 to ADR-005 describe them.                              *)
(***************************************************************************)
EXTENDS FaultProxy

CONSTANTS
  BodyOf,     \* what a call asks for, beside its key
  NoBody,
  Slow,       \* may the mock bank take longer than Banking waits?
  MaxAttempts, \* how often reconciliation looks a transfer up
  MaxArms,    \* bounds: how often a test arms the delay,
  MaxKills,   \*   Banking is killed,
  MaxOutages  \*   and Kafka stops

ASSUME FlowAssumption ==
  /\ \A c \in Call : BodyOf[c] # NoBody
  /\ Slow \in BOOLEAN
  /\ MaxAttempts \in Nat \ {0}
  /\ MaxArms \in Nat /\ MaxKills \in Nat /\ MaxOutages \in Nat

VARIABLES
  answer,  \* per call: what its caller knows
  alive,   \* Banking runs
  row,     \* Banking: status of the transfer of a key
  body,    \* Banking: what the call that made the row asked for
  attempts, \* Banking: how often reconciliation has looked a key up
  asks,    \* Banking: keys whose lookup it is waiting for
  outbox,  \* Banking: event of a key
  acked,   \* Banking: events the broker has, whose row is not yet marked
  broker,  \* Kafka runs
  topic,   \* Kafka: keys whose event it has
  shown,   \* Asset: keys whose transfer is in its history
  arms, kills, outages

bank == <<row, body, attempts, asks, outbox, acked>>
rest == <<broker, topic, shown, arms, kills, outages>>
vars == <<mode, stage, verdict, delay, moved, answer, alive, row, body, attempts,
          asks, outbox, acked, broker, topic, shown, arms, kills, outages>>

Answers  == {"none", "waiting", "COMPLETED", "FAILED", "PROCESSING", "CONFLICT", "ERROR"}
Statuses == {"none", "REQUESTED", "PROCESSING", "UNKNOWN", "SUCCEEDED", "FAILED"}
Outboxes == {"none", "PENDING", "PUBLISHED", "RETRY_EXHAUSTED"}

looked == {k \in Key : attempts[k] > 0}

Settled(k) == row[k] \in {"SUCCEEDED", "FAILED"}

Init ==
  /\ ProxyInit
  /\ answer = [c \in Call |-> "none"]
  /\ alive = TRUE
  /\ row = [k \in Key |-> "none"]
  /\ body = [k \in Key |-> NoBody]
  /\ attempts = [k \in Key |-> 0] /\ asks = {}
  /\ outbox = [k \in Key |-> "none"]
  /\ acked = {}
  /\ broker = TRUE /\ topic = {} /\ shown = {}
  /\ arms = 0 /\ kills = 0 /\ outages = 0

(***************************************************************************)
(* A call of the transfer API.                                             *)
(***************************************************************************)
Answered(c, a) == answer' = [answer EXCEPT ![c] = a]

\* The first call with a key makes the row, as REQUESTED.
Send(c) ==
  /\ answer[c] = "none" /\ alive /\ row[KeyOf[c]] = "none"
  /\ row' = [row EXCEPT ![KeyOf[c]] = "REQUESTED"]
  /\ body' = [body EXCEPT ![KeyOf[c]] = BodyOf[c]]
  /\ Answered(c, "waiting")
  /\ UNCHANGED <<proxy, alive, attempts, asks, outbox, acked, rest>>

\* It marks the row PROCESSING and sends the transfer.  (A kill between the
\* two is one of which the request is lost.)
MarkProcessing(c) ==
  /\ answer[c] = "waiting" /\ row[KeyOf[c]] = "REQUESTED"
  /\ row' = [row EXCEPT ![KeyOf[c]] = "PROCESSING"]
  /\ Take(c)
  /\ UNCHANGED <<answer, alive, body, attempts, asks, outbox, acked, rest>>

\* Status in the API for a status of the row.
ApiStatus(s) ==
  CASE s = "SUCCEEDED" -> "COMPLETED" [] s = "FAILED" -> "FAILED" [] OTHER -> "PROCESSING"

\* Any other call with the key is answered from the row.
SendAgain(c) ==
  /\ answer[c] = "none" /\ alive /\ row[KeyOf[c]] # "none"
  /\ Answered(c, IF body[KeyOf[c]] = BodyOf[c] THEN ApiStatus(row[KeyOf[c]]) ELSE "CONFLICT")
  /\ UNCHANGED <<proxy, alive, bank, rest>>

\* The gateway finds Banking gone.
SendInVain(c) ==
  /\ answer[c] = "none" /\ ~alive
  /\ Answered(c, "ERROR")
  /\ UNCHANGED <<proxy, alive, bank, rest>>

\* The result and its event are saved in one transaction.  Every answer that
\* is not a success, a server error included, is recorded as a failure.
Settle(k, v) ==
  /\ row' = [row EXCEPT ![k] = IF v = "moved" THEN "SUCCEEDED" ELSE "FAILED"]
  /\ outbox' = [outbox EXCEPT ![k] = "PENDING"]

\* Banking gets the reply while it still waits.
Save(c) ==
  /\ answer[c] = "waiting"
  /\ Reply(c)
  /\ Settle(KeyOf[c], verdict[c])
  /\ Answered(c, IF verdict[c] = "moved" THEN "COMPLETED" ELSE "FAILED")
  /\ UNCHANGED <<alive, body, attempts, asks, acked, rest>>

\* No answer within the read timeout, or the connection broke.  The answer
\* of a slow mock bank only is late before the proxy has it.
TooLate(c) ==
  \/ stage[c] = "dead"
  \/ stage[c] = "held" /\ HeldBack > ReadTimeout
  \/ stage[c] \in {"asking", "answered"} /\ Slow

\* The outcome is unknown; but some errors of the connection are taken for a
\* failure of the transfer (ADR-004, Known Limitations).
GiveUp(c) ==
  /\ answer[c] = "waiting"
  /\ TooLate(c)
  /\ \/ /\ row' = [row EXCEPT ![KeyOf[c]] = "UNKNOWN"]
        /\ Answered(c, "PROCESSING")
        /\ UNCHANGED outbox
     \/ /\ stage[c] = "dead"
        /\ Settle(KeyOf[c], "error")
        /\ Answered(c, "FAILED")
  /\ UNCHANGED <<proxy, alive, body, attempts, asks, acked, rest>>

\* The delay outlasts Banking's patience, if it is the longer one.
WakeLate(c) ==
  /\ HeldBack > ReadTimeout => answer[c] # "waiting"
  /\ Wake(c)
  /\ UNCHANGED <<answer, alive, bank, rest>>

\* A reply nobody waits for.
ReplyInVain(h) ==
  /\ IF h \in Call THEN answer[h] # "waiting" ELSE h \notin asks
  /\ Reply(h)
  /\ UNCHANGED <<answer, alive, bank, rest>>

Proxy(h) ==
  /\ Answer(h) \/ Fail(h) \/ Enter(h)
  /\ UNCHANGED <<answer, alive, bank, rest>>

(***************************************************************************)
(* Reconciliation looks a transfer up, whose outcome is unknown or whose   *)
(* row has been PROCESSING for 120 s: longer than any call waits and than  *)
(* the proxy (60 s) keeps a request open.  After its last attempt the row  *)
(* is left to people.                                                      *)
(***************************************************************************)
\* Variants: any row that is PROCESSING; only rows that are UNKNOWN.
StaleAtOnce(k) == row[k] = "PROCESSING"
StaleNever(k)  == FALSE

Stale(k) ==
  /\ row[k] = "PROCESSING"
  /\ \A c \in Call : KeyOf[c] = k =>
       answer[c] # "waiting" /\ stage[c] \notin {"asking", "answered"}

Lookup(k) ==
  /\ alive /\ k \notin asks /\ attempts[k] < MaxAttempts
  /\ row[k] = "UNKNOWN" \/ Stale(k)
  /\ Take(k)
  /\ attempts' = [attempts EXCEPT ![k] = @ + 1]
  /\ asks' = asks \cup {k}
  /\ UNCHANGED <<answer, alive, row, body, outbox, acked, rest>>

Resolve(k) ==
  /\ k \in asks
  /\ Reply(k)
  /\ Settle(k, verdict[k])
  /\ asks' = asks \ {k}
  /\ UNCHANGED <<answer, alive, body, attempts, acked, rest>>

\* A lookup that fails settles nothing; it has cost an attempt.
LookupFails(k) ==
  /\ k \in asks
  /\ stage[k] = "dead"
  /\ asks' = asks \ {k}
  /\ UNCHANGED <<proxy, answer, alive, row, body, attempts, outbox, acked, rest>>

(***************************************************************************)
(* The outbox: the broker's ack first, the row afterwards.  Asset shows a  *)
(* completed transfer once, however often it gets the event.               *)
(***************************************************************************)
Publish(k) ==
  /\ alive /\ broker /\ outbox[k] = "PENDING" /\ k \notin acked
  /\ topic' = topic \cup {k}
  /\ acked' = acked \cup {k}
  /\ UNCHANGED <<proxy, answer, alive, row, body, attempts, asks, outbox,
                 broker, shown, arms, kills, outages>>

\* The last of the outbox's attempts has failed: the event is left to people.
Exhaust(k) ==
  /\ alive /\ ~broker /\ outbox[k] = "PENDING" /\ k \notin acked
  /\ outbox' = [outbox EXCEPT ![k] = "RETRY_EXHAUSTED"]
  /\ UNCHANGED <<proxy, answer, alive, row, body, attempts, asks, acked, rest>>

MarkPublished(k) ==
  /\ alive /\ k \in acked
  /\ outbox' = [outbox EXCEPT ![k] = "PUBLISHED"]
  /\ acked' = acked \ {k}
  /\ UNCHANGED <<proxy, answer, alive, row, body, attempts, asks, rest>>

Consume(k) ==
  /\ broker /\ k \in topic /\ k \notin shown /\ row[k] = "SUCCEEDED"
  /\ shown' = shown \cup {k}
  /\ UNCHANGED <<proxy, answer, alive, bank, broker, topic, arms, kills, outages>>

(***************************************************************************)
(* What the tests do to the system.                                        *)
(***************************************************************************)
Arm ==
  /\ arms < MaxArms
  /\ Control(Armed(mode))
  /\ arms' = arms + 1
  /\ UNCHANGED <<answer, alive, bank, broker, topic, shown, kills, outages>>

\* What Banking has not saved is lost, and whoever waits gets an error.
Kill ==
  /\ alive /\ kills < MaxKills
  /\ alive' = FALSE
  /\ kills' = kills + 1
  /\ answer' = [c \in Call |-> IF answer[c] = "waiting" THEN "ERROR" ELSE answer[c]]
  /\ asks' = {} /\ acked' = {}
  /\ UNCHANGED <<proxy, row, body, attempts, outbox, broker, topic, shown, arms, outages>>

Restart ==
  /\ ~alive
  /\ alive' = TRUE
  /\ UNCHANGED <<proxy, answer, bank, rest>>

StopKafka ==
  /\ broker /\ outages < MaxOutages
  /\ broker' = FALSE
  /\ outages' = outages + 1
  /\ UNCHANGED <<proxy, answer, alive, bank, topic, shown, arms, kills>>

StartKafka ==
  /\ ~broker
  /\ broker' = TRUE
  /\ UNCHANGED <<proxy, answer, alive, bank, topic, shown, arms, kills, outages>>

Calls  == \E c \in Call : Send(c) \/ SendAgain(c) \/ SendInVain(c)
Serves == \/ \E c \in Call : MarkProcessing(c) \/ Save(c) \/ GiveUp(c) \/ WakeLate(c)
          \/ \E h \in Handler : Proxy(h) \/ ReplyInVain(h)
          \/ \E k \in Key : \/ Lookup(k) \/ Resolve(k) \/ LookupFails(k)
                            \/ Publish(k) \/ Exhaust(k) \/ MarkPublished(k) \/ Consume(k)
Drives == Arm \/ Kill \/ Restart \/ StopKafka \/ StartKafka

Next == Calls \/ Serves \/ Drives

Spec == Init /\ [][Next]_vars

\* The threads of the proxy and the workers of Banking and Asset go on, and
\* what was stopped is started again.  Nothing is assumed of the mock bank:
\* each of its answers may be lost.
Fairness ==
  /\ \A c \in Call : WF_vars(MarkProcessing(c) \/ Save(c) \/ GiveUp(c) \/ WakeLate(c))
  /\ \A h \in Handler : WF_vars(Proxy(h)) /\ WF_vars(ReplyInVain(h))
  /\ \A k \in Key : /\ WF_vars(Lookup(k)) /\ WF_vars(Resolve(k)) /\ WF_vars(LookupFails(k))
                    /\ WF_vars(Publish(k)) /\ WF_vars(MarkPublished(k)) /\ WF_vars(Consume(k))
  /\ WF_vars(Restart) /\ WF_vars(StartKafka)

FairSpec == Spec /\ Fairness
=============================================================================
