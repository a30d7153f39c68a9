----------------------------- MODULE FaultProxy -----------------------------
(***************************************************************************)
(* tests/e2e-proxy.py: the proxy that the end-to-end tests put between     *)
(* Banking and the mock bank, with the mock bank behind it.  It passes on  *)
(* transfers (POST /api/transfers) and lookups of a transfer (GET), each    *)
(* in a thread of its own, counts the transfers, and holds back the answer *)
(* of one transfer when a test has armed it.                               *)
(*                                                                         *)
(* A handler is named after what it serves: a transfer after the call that *)
(* caused it, a lookup after the key of the transfer it asks for.          *)
(***************************************************************************)
EXTENDS Integers

CONSTANTS
  Call,   \* calls of Banking's transfer API; the handler of the POST they cause
  Key,    \* transfers (their idempotency keys); the handler of their lookups
  KeyOf   \* the key a call carries

Handler == Call \cup Key

ASSUME ProxyAssumption == Call \cap Key = {} /\ KeyOf \in [Call -> Key]

VARIABLES
  mode,     \* the proxy's shared dictionary
  stage,    \* per handler: how far it is
  verdict,  \* per handler: the mock bank's answer it holds
  delay,    \* per handler: is its answer held back?
  moved     \* mock bank: how often it has executed a transfer

proxy == <<mode, stage, verdict, delay, moved>>

Stages   == {"idle", "asking", "answered", "held", "replying", "done", "dead"}
Verdicts == {"none", "moved", "refused", "error", "absent"}

\* The seconds an answer is held back, and those Banking waits for it (its
\* configured read timeout).
HeldBackShort == 25
HeldBack      == 35
ReadTimeout   == 30

\* ready_to_kill is not in the dictionary before a test has set it; nobody
\* reads it by then.
ProxyInit ==
  /\ mode = [delay_once |-> FALSE, forwarded |-> FALSE, transfer_posts |-> 0,
             ready_to_kill |-> FALSE]
  /\ stage = [h \in Handler |-> "idle"]
  /\ verdict = [h \in Handler |-> "none"]
  /\ delay = [h \in Handler |-> FALSE]
  /\ moved = [k \in Key |-> 0]

(***************************************************************************)
(* /__control: a POST merges its body into the dictionary, under the lock. *)
(***************************************************************************)
\* Variants: the body replaces the dictionary; the flag of an earlier
\* transfer is left.
ArmedReplaces(m)  == [delay_once |-> TRUE, forwarded |-> FALSE]
ArmedLeavesFlag(m) == [m EXCEPT !.delay_once = TRUE]

Armed(m)     == [m EXCEPT !.delay_once = TRUE, !.forwarded = FALSE]
KillArmed(m) == [Armed(m) EXCEPT !.ready_to_kill = FALSE]
Ready(m)     == [m EXCEPT !.ready_to_kill = TRUE]

Control(m) == mode' = m /\ UNCHANGED <<stage, verdict, delay, moved>>

(***************************************************************************)
(* A request to be passed on.                                              *)
(***************************************************************************)
Serving(h) == stage[h] \in {"asking", "answered", "held", "replying"}

\* The handler has read the request and opens the one to the mock bank.
Take(h) ==
  /\ ~Serving(h)
  /\ stage' = [stage EXCEPT ![h] = "asking"]
  /\ verdict' = [verdict EXCEPT ![h] = "none"]
  /\ delay' = [delay EXCEPT ![h] = FALSE]
  /\ UNCHANGED <<mode, moved>>

\* The mock bank executes a transfer, refuses it, or ends with a server error
\* (a 5xx, passed on like any answer), before or after it has executed it; it
\* answers a lookup by what it has executed (a lookup that ends with an error
\* is one without an answer).  It is not assumed to recognise a transfer it
\* has seen before.
Executes(h, v) ==
  IF h \in Call
  THEN \/ v \in {"moved", "error"} /\ moved' = [moved EXCEPT ![KeyOf[h]] = @ + 1]
       \/ v \in {"refused", "error"} /\ UNCHANGED moved
  ELSE /\ v = IF moved[h] > 0 THEN "moved" ELSE "absent"
       /\ UNCHANGED moved

Answer(h) ==
  /\ stage[h] = "asking"
  /\ \E v \in Verdicts : Executes(h, v) /\ verdict' = [verdict EXCEPT ![h] = v]
  /\ stage' = [stage EXCEPT ![h] = "answered"]
  /\ UNCHANGED <<mode, delay>>

\* The request is lost, or the mock bank's answer to it.
Lost(h) ==
  \/ UNCHANGED moved
  \/ \E v \in Verdicts : Executes(h, v)

\* Variant: the request is sent again.
FailRetries(h) ==
  /\ stage[h] = "asking"
  /\ Lost(h)
  /\ UNCHANGED <<mode, stage, verdict, delay>>

\* No answer.  Only an error status is caught: the thread ends here, without
\* a reply.
Fail(h) ==
  /\ stage[h] = "asking"
  /\ Lost(h)
  /\ stage' = [stage EXCEPT ![h] = "dead"]
  /\ UNCHANGED <<mode, verdict, delay>>

\* Variant: the transfer is not counted.
NotCounted(m) == [m EXCEPT !.forwarded = TRUE, !.delay_once = FALSE]

Counted(m) == [m EXCEPT !.forwarded = TRUE, !.transfer_posts = @ + 1, !.delay_once = FALSE]

IsTransfer(h) == h \in Call

\* The section under the lock.  One transfer takes the delay.
Enter(h) ==
  /\ stage[h] = "answered"
  /\ IF IsTransfer(h)
     THEN /\ delay' = [delay EXCEPT ![h] = mode.delay_once]
          /\ mode' = Counted(mode)
     ELSE UNCHANGED <<delay, mode>>
  /\ stage' = [stage EXCEPT ![h] = IF delay'[h] THEN "held" ELSE "replying"]
  /\ UNCHANGED <<verdict, moved>>

\* The end of the delay.
Wake(h) ==
  /\ stage[h] = "held"
  /\ stage' = [stage EXCEPT ![h] = "replying"]
  /\ UNCHANGED <<mode, verdict, delay, moved>>

\* The reply is written; a broken pipe is ignored.
Reply(h) ==
  /\ stage[h] = "replying"
  /\ stage' = [stage EXCEPT ![h] = "done"]
  /\ UNCHANGED <<mode, verdict, delay, moved>>
=============================================================================
