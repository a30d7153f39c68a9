--------------------------- MODULE TransferDrill ---------------------------
(***************************************************************************)
(* Two stages of the end-to-end tests, one after the other, over the       *)
(* system of TransferFlow: the answer that is held back (full-e2e.py,      *)
(* timeout) and Banking that is killed (rerun-e2e.py, crash, and its       *)
(* second half after the restart).  Each check is recorded and the test    *)
(* goes on.  A person kills Banking when the proxy's dictionary says        *)
(* ready_to_kill (once, if nothing else fails), and starts it again after  *)
(* the first half.                                                         *)
(***************************************************************************)
EXTENDS TransferProperties

CONSTANTS
  lost,     \* the call of the timeout stage
  sending,  \* the call during which Banking is killed,
  retry,    \*   its repetition meanwhile
  after     \*   and after recovery

ASSUME DrillAssumption ==
  /\ Call = {lost, sending, retry, after}
  /\ sending \notin {retry, after} /\ retry # after
  /\ KeyOf[lost] # KeyOf[sending]
  /\ \A c \in {retry, after} : KeyOf[c] = KeyOf[sending] /\ BodyOf[c] = BodyOf[sending]
  /\ MaxArms >= 2

VARIABLES
  step,   \* where the test is
  fine,   \* no check has failed
  first,  \* the dictionary as the test reads it before the repetition
  before, \* the count as it reads it after recovery
  calm,   \* nothing fails but what the test makes fail, nobody waits too long
  hit     \* Banking was killed between the mock bank's execution and its save

test      == <<step, fine, first, before, calm, hit>>
drillVars == <<mode, stage, verdict, delay, moved, answer, alive, row, body, attempts,
               asks, outbox, acked, broker, topic, shown, arms, kills, outages,
               step, fine, first, before, calm, hit>>

\* The statements of timeout() and of crash() in order.
Place ==
  [arm |-> 1, lost |-> 2, told |-> 3, recovered |-> 4, published |-> 5,
   arm_kill |-> 6, sending |-> 7, forwarded |-> 8, retry |-> 9, compare |-> 10, row |-> 11,
   ready |-> 12, killed |-> 13,
   recovered_after |-> 14, count |-> 15, after |-> 16, no_more |-> 17, shown |-> 18, done |-> 19]

At(s)   == step = Place[s]
Past(s) == step > Place[s]
Onward  == step' = step + 1 /\ UNCHANGED fine
OnwardWith(ok) ==
  /\ step' = step + 1
  /\ IF ok THEN UNCHANGED fine ELSE fine' = FALSE

Heard(c) == answer[c] \notin {"none", "waiting"}
Crashed  == KeyOf[sending]
Delayed  == KeyOf[lost]

DrillInit ==
  /\ Init
  /\ step = 1 /\ fine = TRUE /\ first = mode /\ before = 0 /\ hit = FALSE
  /\ calm \in BOOLEAN

\* poll: until the condition holds, or the time is up; then the test goes on
\* with what it saw last.
Polled(condition) == condition \/ ~calm

(***************************************************************************)
(* The timeout stage.                                                      *)
(***************************************************************************)
ArmDelay ==
  /\ At("arm") /\ Control(Armed(mode)) /\ Onward
  /\ arms' = arms + 1
  /\ UNCHANGED <<answer, alive, bank, broker, topic, shown, kills, outages,
                 first, before, calm, hit>>

SeeTimeout ==
  /\ \/ At("lost") /\ Onward
     \/ /\ At("told") /\ Heard(lost)
        /\ OnwardWith(answer[lost] # "ERROR" /\ row[Delayed] \in {"UNKNOWN", "SUCCEEDED"})
     \/ /\ At("recovered") /\ Polled(row[Delayed] = "SUCCEEDED")
        /\ OnwardWith(row[Delayed] = "SUCCEEDED" /\ Delayed \in looked)
     \/ /\ At("published") /\ Polled(outbox[Delayed] = "PUBLISHED")
        /\ OnwardWith(outbox[Delayed] = "PUBLISHED")
  /\ UNCHANGED <<vars, first, before, calm, hit>>

(***************************************************************************)
(* The crash stage.  The call is started as a task and goes on beside it.  *)
(***************************************************************************)
ArmKill ==
  /\ At("arm_kill") /\ Control(KillArmed(mode)) /\ Onward
  /\ arms' = arms + 1
  /\ UNCHANGED <<answer, alive, bank, broker, topic, shown, kills, outages,
                 first, before, calm, hit>>

SeeForwarded ==
  /\ At("forwarded") /\ Polled(mode.forwarded)
  /\ first' = mode
  /\ Onward
  /\ UNCHANGED <<vars, before, calm, hit>>

SeeInProgress ==
  /\ \/ At("sending") /\ Onward
     \/ At("retry") /\ Onward
     \/ /\ At("compare") /\ Heard(retry)
        /\ OnwardWith(answer[retry] = "PROCESSING" /\ mode.transfer_posts = first.transfer_posts)
     \/ /\ At("row")
        /\ OnwardWith(row[Crashed] = "PROCESSING" /\ Crashed \notin looked)
     \/ At("killed") /\ Heard(sending) /\ OnwardWith(answer[sending] = "ERROR")
  /\ UNCHANGED <<vars, first, before, calm, hit>>

SayReady ==
  /\ At("ready") /\ Control(Ready(mode)) /\ Onward
  /\ UNCHANGED <<answer, alive, bank, rest, first, before, calm, hit>>

\* After the restart: the rest only if the transfer has recovered.
SeeRecovery ==
  /\ \/ /\ At("recovered_after") /\ alive /\ Polled(row[Crashed] = "SUCCEEDED")
        /\ IF row[Crashed] = "SUCCEEDED" /\ Crashed \in looked
           THEN Onward
           ELSE fine' = FALSE /\ step' = Place.done
     \/ At("after") /\ Onward
     \/ /\ At("no_more") /\ Heard(after)
        /\ OnwardWith(answer[after] \notin {"ERROR", "CONFLICT"} /\ mode.transfer_posts = before)
     \/ /\ At("shown") /\ Polled(outbox[Crashed] = "PUBLISHED" /\ Crashed \in shown)
        /\ OnwardWith(outbox[Crashed] = "PUBLISHED" /\ Crashed \in shown)
  /\ UNCHANGED <<vars, first, before, calm, hit>>

ReadCount ==
  /\ At("count")
  /\ before' = mode.transfer_posts
  /\ Onward
  /\ UNCHANGED <<vars, first, calm, hit>>

Test == \/ ArmDelay \/ SeeTimeout \/ ArmKill \/ SeeForwarded \/ SeeInProgress
        \/ SayReady \/ SeeRecovery \/ ReadCount

(***************************************************************************)
(* The system meanwhile, and the person at the console.                    *)
(***************************************************************************)
Smooth ==
  calm => /\ \A h \in Handler : stage'[h] # "dead" /\ verdict'[h] \notin {"refused", "error"}
          /\ answer'[sending] # "PROCESSING"

Started(c) ==
  Past(CASE c = lost -> "lost" [] c = sending -> "sending" [] c = retry -> "retry"
         [] OTHER -> "after")

System ==
  /\ \/ \E c \in Call : Started(c) /\ (Send(c) \/ SendAgain(c) \/ SendInVain(c))
     \/ Serves /\ Smooth
     \/ Restart /\ Past("killed")
  /\ UNCHANGED test

KillWhenReady ==
  /\ mode.ready_to_kill
  /\ calm => kills = 0
  /\ Kill
  /\ IF moved[Crashed] = 1 /\ row[Crashed] = "PROCESSING" THEN hit' = TRUE ELSE UNCHANGED hit
  /\ UNCHANGED <<step, fine, first, before, calm>>

DrillNext == Test \/ System \/ KillWhenReady

DrillSpec == DrillInit /\ [][DrillNext]_drillVars

(***************************************************************************)
(* What the stages are worth.                                              *)
(***************************************************************************)
\* A test that passes has tested what it is for: Banking was killed after the
\* mock bank had executed the transfer and before it was saved.  (Provided
\* the poll saw the flag; that it did is not recorded.)
PassedMeansHit == At("done") /\ fine /\ first.forwarded => hit

\* The test fails only for a reason: as long as nothing fails but what it
\* makes fail, each of its checks passes in every order of events.
NoFalseAlarm == calm => fine

(***************************************************************************)
(* The invariants behind the two, if the mock bank is never slow: of any   *)
(* course of the stages, of one in which every check has passed, and of    *)
(* one in which nothing else fails.                                        *)
(***************************************************************************)
Through(c) == stage[c] \in {"held", "replying", "done"}

Course ==
  /\ step \in 1..Place.done
  /\ arms <= IF Past("arm_kill") THEN 2 ELSE IF Past("arm") THEN 1 ELSE 0
  /\ ~Past("ready") =>
       alive /\ kills = 0 /\ ~mode.ready_to_kill /\ \A c \in Call : answer[c] # "ERROR"
  /\ \A c \in Call : ~Started(c) => answer[c] = "none"
  /\ answer[lost] = "none" => row[Delayed] = "none"
  /\ answer[lost] \notin {"none", "waiting", "ERROR"} =>
       (Through(lost) \/ stage[lost] = "dead") /\ row[Delayed] \notin {"none", "REQUESTED", "PROCESSING"}

\* Nothing of the timeout stage is on its way any more when the crash stage
\* begins, so the flag it sees is that of its own transfer.
Passing ==
  /\ fine /\ Past("told") => answer[lost] \notin {"none", "waiting", "ERROR"}
  /\ fine /\ Past("arm_kill") /\ ~Past("forwarded") /\ mode.forwarded => Through(sending)
  /\ fine /\ Past("forwarded") /\ first.forwarded =>
       Through(sending) /\ (answer[sending] = "ERROR" => hit \/ moved[Crashed] = 0)
  /\ fine /\ Past("killed") => answer[sending] = "ERROR"
  /\ fine /\ Past("recovered_after") => moved[Crashed] = 1

\* The calls: the one that is armed for is held back, the repetitions send
\* nothing.
CalmCalls ==
  /\ \A c \in Call : stage[c] # "dead" /\ verdict[c] \notin {"refused", "error"}
  /\ \A c \in Call : Through(c) \/ stage[c] = "answered" => moved[KeyOf[c]] = 1
  /\ stage[retry] = "idle" /\ stage[after] = "idle"
  /\ Past("forwarded") => Through(sending)
  /\ Past("arm") /\ ~Through(lost) => mode.delay_once
  /\ Past("arm_kill") /\ ~Through(sending) => mode.delay_once
  /\ \A c \in {lost, sending} : Through(c) => delay[c]
  /\ stage[sending] # "idle" => body[Crashed] = BodyOf[sending]

\* What has been answered.
CalmAnswers ==
  /\ answer[sending] \in {"none", "waiting", "ERROR"}
  /\ answer[sending] = "ERROR" => kills > 0
  /\ answer[retry] \notin {"waiting", "ERROR", "CONFLICT"}
  /\ answer[after] \notin {"waiting", "ERROR", "CONFLICT"}
  /\ ~Past("ready") => answer[retry] \in {"none", "PROCESSING"}
  /\ Past("compare") => answer[retry] # "none"
  /\ Past("killed") => kills > 0
  /\ Past("recovered_after") => alive

\* Rows, lookups and the count.
CalmRows ==
  /\ \A k \in Key : row[k] # "none" => \E c \in {lost, sending} : KeyOf[c] = k /\ Sends(c)
  /\ \A k \in Key : row[k] # "FAILED" /\ (row[k] = "UNKNOWN" \/ k \in asks => moved[k] = 1)
  /\ Crashed \in looked => answer[sending] = "ERROR"
  /\ Past("forwarded") => mode.transfer_posts = first.transfer_posts
  /\ Past("count") => mode.transfer_posts = before

DrillInvariant ==
  /\ TransferInvariant
  /\ Course
  /\ Passing
  /\ calm => fine /\ CalmCalls /\ CalmAnswers /\ CalmRows
=============================================================================
