------------------------- MODULE TransferProperties -------------------------
(***************************************************************************)
(* What the end-to-end tests claim of TransferFlow and of their proxy.     *)
(***************************************************************************)
EXTENDS TransferFlow, FiniteSets

\* Types of all variables.
TypeOK ==
  /\ mode \in [delay_once : BOOLEAN, forwarded : BOOLEAN, transfer_posts : Nat,
               ready_to_kill : BOOLEAN]
  /\ stage \in [Handler -> Stages] /\ verdict \in [Handler -> Verdicts]
  /\ delay \in [Handler -> BOOLEAN]
  /\ moved \in [Key -> Nat]
  /\ answer \in [Call -> Answers] /\ alive \in BOOLEAN
  /\ row \in [Key -> Statuses]
  /\ body \in [Key -> {BodyOf[c] : c \in Call} \cup {NoBody}]
  /\ attempts \in [Key -> 0..MaxAttempts] /\ asks \subseteq Key
  /\ outbox \in [Key -> Outboxes] /\ acked \subseteq Key
  /\ broker \in BOOLEAN /\ topic \subseteq Key /\ shown \subseteq Key
  /\ arms \in 0..MaxArms /\ kills \in 0..MaxKills /\ outages \in 0..MaxOutages

\* The money of a key moves once, though the mock bank would move it for
\* every request: neither parallel calls, nor a retry after a lost answer or
\* a crash, nor reconciliation sends the transfer again (rerun-e2e.py,
\* financial and crash: no further POST).
MovedOnce == \A k \in Key : moved[k] <= 1

\* Whoever is told that its transfer is completed asked for what the money
\* was moved for.
ToldTrue ==
  \A c \in Call : answer[c] = "COMPLETED" =>
    moved[KeyOf[c]] = 1 /\ body[KeyOf[c]] = BodyOf[c]

\* The count that the tests read counts a transfer whose outcome Banking has
\* told, and no transfer that was never sent: so a count that has not grown
\* between two settled calls means that nothing was sent.
Sent    == {c \in Call : stage[c] # "idle"}
Settler == {c \in Sent : row[KeyOf[c]] = "SUCCEEDED" /\ KeyOf[c] \notin looked}

CountTells ==
  Cardinality(Settler) <= mode.transfer_posts /\ mode.transfer_posts <= Cardinality(Sent)

\* A transfer whose answer is held back is never settled by that answer: by
\* the time it comes, only reconciliation settles (full-e2e.py, timeout: the
\* attempt count is positive).
HeldIsReconciled ==
  \A c \in Call : delay[c] /\ Settled(KeyOf[c]) => KeyOf[c] \in looked

(***************************************************************************)
(* The invariant behind the properties that are proved: of the one call    *)
(* that sends, of a call, and of a key.                                    *)
(***************************************************************************)
Sends(c) == answer[c] = "waiting" \/ stage[c] # "idle"

OneSender ==
  \A c, d \in Call : KeyOf[c] = KeyOf[d] /\ Sends(c) /\ Sends(d) => c = d

Holds(h) == stage[h] \in {"answered", "held", "replying"}
Unsent(k) == row[k] \in {"none", "REQUESTED"}

CallInvariant(c) ==
  LET k == KeyOf[c] IN
  /\ answer[c] = "none" => stage[c] = "idle"
  /\ answer[c] = "waiting" =>
       /\ k \notin looked /\ k \notin asks /\ body[k] = BodyOf[c]
       /\ row[k] = IF stage[c] = "idle" THEN "REQUESTED" ELSE "PROCESSING"
  /\ answer[c] = "COMPLETED" => row[k] # "none" /\ moved[k] = 1 /\ body[k] = BodyOf[c]
  /\ stage[c] # "idle" => ~Unsent(k)
  /\ stage[c] = "asking" => moved[k] = 0
  /\ stage[c] = "asking" /\ ~Slow =>
       row[k] = "PROCESSING" /\ k \notin asks /\ stage[k] = "idle"
  /\ Holds(c) => \/ verdict[c] = "moved" /\ moved[k] = 1
                 \/ verdict[c] = "refused" /\ moved[k] = 0
                 \/ verdict[c] = "error"
  /\ verdict[c] = "error" => Holds(c) \/ stage[c] = "done"
  /\ delay[c] => stage[c] \in {"held", "replying", "done"}
  /\ delay[c] /\ stage[c] # "held" => answer[c] # "waiting"
  /\ stage[c] = "held" => delay[c]
  /\ Settled(k) /\ (delay[c] \/ stage[c] \in {"asking", "answered"}) => k \in looked
  /\ row[k] = "SUCCEEDED" /\ stage[c] = "dead" => k \in looked

KeyInvariant(k) ==
  /\ moved[k] <= 1
  /\ Unsent(k) => moved[k] = 0 /\ stage[k] = "idle" /\ k \notin looked
  /\ row[k] = "SUCCEEDED" => moved[k] = 1
  /\ k \in asks => k \in looked /\ row[k] \in {"UNKNOWN", "PROCESSING"} /\ stage[k] # "idle"
  /\ Holds(k) => \/ verdict[k] = "moved" /\ moved[k] = 1
                 \/ verdict[k] = "absent"
  /\ Holds(k) /\ verdict[k] = "absent" /\ ~Slow => moved[k] = 0
  /\ ~delay[k]

\* The transfers whose answer has come to the proxy are those it has counted.
Passed == {c \in Call : stage[c] \in {"held", "replying", "done"}}

CountInvariant == mode.transfer_posts = Cardinality(Passed)

TransferInvariant ==
  /\ TypeOK
  /\ OneSender
  /\ \A c \in Call : CallInvariant(c)
  /\ \A k \in Key : KeyInvariant(k)

\* The system keeps the promise of OneTransfer: what Banking has recorded is
\* what has happened to the money, but for a transfer whose own request ended
\* in an error or a broken connection and that was recorded as FAILED at once,
\* without a lookup.
Money == [k \in Key |-> CASE moved[k] = 0 -> "still"
                          [] moved[k] = 1 -> "moved"
                          [] OTHER -> "moved twice"]

Outcome == [k \in Key |-> CASE row[k] = "SUCCEEDED" -> "COMPLETED"
                            [] row[k] = "FAILED" -> "FAILED"
                            [] OTHER -> "open"]

Broke(c)    == stage[c] = "dead" \/ verdict[c] = "error"
Doubtful    == {k \in Key : k \notin looked /\ \E c \in Call : KeyOf[c] = k /\ Broke(c)}

Promise == INSTANCE OneTransfer WITH money <- Money, outcome <- Outcome, doubtful <- Doubtful

ImplementsOneTransfer == Promise!Spec

\* A transfer that has been sent does not stay undecided, whatever is killed,
\* stopped or lost: money that has moved is shown in Asset in the end, or the
\* transfer has failed (truly, unless its own request broke), or it is left
\* to people, after the last attempt of reconciliation or of the outbox.  Of
\* a row that is only REQUESTED nothing is said: it stays if Banking is
\* killed before it sends.
LeftToPeople(k) ==
  \/ row[k] \in {"PROCESSING", "UNKNOWN"} /\ attempts[k] = MaxAttempts /\ k \notin asks
  \/ outbox[k] = "RETRY_EXHAUSTED"

EveryTransferEnds ==
  \A k \in Key : row[k] \in {"PROCESSING", "UNKNOWN"} ~>
    \/ k \in shown
    \/ row[k] = "FAILED" /\ (moved[k] = 0 \/ k \in Doubtful)
    \/ LeftToPeople(k)
=============================================================================
