----------------------------- MODULE PersonaRun -----------------------------
(***************************************************************************)
(* The two tools that make a test persona by calling the running system:   *)
(* test-fixture-console/app.py (create_persona, one thread per request) and *)
(* scripts/seed-monthly-cashflow-persona.sh.  Both register a user under a *)
(* random phone number, log in, open an account, put transactions into the *)
(* mock bank's ledger, wait for Asset to know the account, refresh it and  *)
(* read the aggregates.  They differ in how they seed: the console in one   *)
(* call, the script in one withdrawal after the other, once it has found   *)
(* the account in the mock bank and has a token.                           *)
(*                                                                         *)
(* A call may be refused, may lose its answer after it took effect, or may *)
(* be answered with something the tool cannot read.  Users are named after *)
(* the run that registered them, accounts after the run that opened them.  *)
(***************************************************************************)
EXTENDS Integers, Sequences

CONSTANTS
  Console,      \* requests to the console
  Script,       \* runs of the script
  Phone,        \* phone numbers that may be drawn
  Withdrawals,  \* withdrawals of the script (8)
  MaxTries,     \* questions for the account in Asset (20)
  MaxResets,    \* bound on resets of the stack
  None          \* nobody; no phone

Run == Console \cup Script

ASSUME PersonaAssumption ==
  /\ Console \cap Script = {} /\ None \notin Run \cup Phone
  /\ Withdrawals \in Nat \ {0} /\ MaxTries \in Nat \ {0} /\ MaxResets \in Nat

VARIABLES
  stage,    \* per run: the call it makes next, or how it ended
  phone,    \* per run: its phone number
  session,  \* per run: the user it is logged in as
  tries,    \* per run: questions asked for the account
  shown,    \* per run: transactions in the aggregates it has read
  owner,    \* Auth: the user of a phone number
  holder,   \* Banking: the user who holds an account
  ledger,   \* mock bank: number of seeded transactions of an account
  known,    \* Asset: accounts it has a row for
  synced,   \* Asset: transactions it has collected of an account
  resets    \* resets of the stack so far

tool  == <<stage, phone, session, tries, shown>>
stack == <<owner, holder, ledger, known, synced>>
vars  == <<stage, phone, session, tries, shown, owner, holder, ledger, known, synced, resets>>

\* The calls in their order; one month stands for the months of the request.
ConsoleCalls ==
  <<"register", "login", "account", "seed", "poll", "refresh", "monthly", "category">>
ScriptOpens == <<"register", "login", "account", "find", "token">>
ScriptReads == <<"poll", "refresh", "monthly", "category">>

Call(r, i) ==
  IF r \in Console THEN ConsoleCalls[i]
  ELSE IF i <= 5 THEN ScriptOpens[i]
  ELSE IF i <= 5 + Withdrawals THEN "seed"
  ELSE ScriptReads[i - 5 - Withdrawals]

Calls == {"register", "login", "account", "find", "token", "seed",
          "poll", "refresh", "monthly", "category"}

\* Past the last call the persona is made.
Made(r) == IF r \in Console THEN 9 ELSE 10 + Withdrawals

Seeds(r) == IF r \in Console THEN 1 ELSE Withdrawals

\* The stage is the number of the call that is made next.  The status of a
\* failed request (400 or 502) is left out.
Waiting == 0
Failed  == -1
InPlan(r)   == stage[r] \in 1..(Made(r) - 1)
At(r, call) == InPlan(r) /\ Call(r, stage[r]) = call
Ended(r)    == stage[r] \in {Made(r), Failed}

Init ==
  /\ stage = [r \in Run |-> Waiting]
  /\ phone = [r \in Run |-> None]
  /\ session = [r \in Run |-> None]
  /\ tries = [r \in Run |-> 0]
  /\ shown = [r \in Run |-> 0]
  /\ owner = [p \in Phone |-> None]
  /\ holder = [r \in Run |-> None]
  /\ ledger = [r \in Run |-> 0]
  /\ known = {}
  /\ synced = [r \in Run |-> 0]
  /\ resets = 0

\* A request whose persona and months pass the checks, and a script that finds
\* all services running, draws a phone number.
Start(r) ==
  /\ stage[r] = Waiting
  /\ \E p \in Phone : phone' = [phone EXCEPT ![r] = p]
  /\ stage' = [stage EXCEPT ![r] = 1]
  /\ UNCHANGED <<session, tries, shown, stack, resets>>

Reject(r) ==
  /\ stage[r] = Waiting
  /\ stage' = [stage EXCEPT ![r] = Failed]
  /\ UNCHANGED <<phone, session, tries, shown, stack, resets>>

(***************************************************************************)
(* What the services do with a call (external), and when they accept it.   *)
(***************************************************************************)
Accepts(r, call) ==
  CASE call = "register" -> owner[phone[r]] = None
    [] call = "login"    -> owner[phone[r]] # None
    [] call = "account"  -> TRUE
    [] call \in {"find", "seed"} -> holder[r] # None
    [] call \in {"poll", "refresh"} -> r \in known
    [] OTHER -> TRUE

Effect(r, call) ==
  /\ owner'  = IF call = "register" THEN [owner EXCEPT ![phone[r]] = r] ELSE owner
  /\ holder' = IF call = "account" THEN [holder EXCEPT ![r] = session[r]] ELSE holder
  /\ ledger' = IF call = "seed" THEN [ledger EXCEPT ![r] = @ + 1] ELSE ledger
  /\ synced' = IF call = "refresh" THEN [synced EXCEPT ![r] = ledger[r]] ELSE synced
  /\ UNCHANGED known

\* The account's opening event reaches Asset, at some time or never.
Project(r) ==
  /\ holder[r] # None /\ r \notin known
  /\ known' = known \cup {r}
  /\ UNCHANGED <<tool, owner, holder, ledger, synced, resets>>

(***************************************************************************)
(* What the tool does with the answer                                      *)
(***************************************************************************)
Answered(r, call) ==
  /\ stage' = [stage EXCEPT ![r] = @ + 1]
  /\ session' = IF call = "login" THEN [session EXCEPT ![r] = owner[phone[r]]] ELSE session
  /\ shown' = IF call \in {"monthly", "category"} THEN [shown EXCEPT ![r] = synced[r]] ELSE shown
  /\ UNCHANGED <<phone, tries, resets>>

Fails(r) ==
  /\ stage' = [stage EXCEPT ![r] = Failed]
  /\ UNCHANGED <<phone, session, tries, shown, resets>>

\* Variant: the aggregates are asked for as soon as the account is known.
SucceedsWithoutRefresh(r) ==
  \E call \in Calls :
    /\ At(r, call) /\ Accepts(r, call)
    /\ Effect(r, IF call = "refresh" THEN "poll" ELSE call)
    /\ Answered(r, call)

Succeeds(r) ==
  \E call \in Calls :
    /\ At(r, call) /\ Accepts(r, call)
    /\ Effect(r, call)
    /\ Answered(r, call)

\* Variant: a refused registration is taken for one that was made before.
RefusedRegistersAnyway(r) ==
  /\ InPlan(r) /\ ~At(r, "poll")
  /\ IF At(r, "register") THEN Answered(r, "register") ELSE Fails(r)
  /\ UNCHANGED stack

\* An HTTP error, for whatever reason.  Only the polling goes on after one.
Refused(r) ==
  /\ InPlan(r) /\ ~At(r, "poll")
  /\ Fails(r)
  /\ UNCHANGED stack

\* Variant: the call is repeated, as curl --retry would.
LostAnswerRetried(r) ==
  \E call \in Calls :
    /\ At(r, call) /\ Accepts(r, call)
    /\ ledger[r] <= Seeds(r)
    /\ Effect(r, call)
    /\ UNCHANGED <<tool, resets>>

\* The call took effect, but the answer is late (urlopen timeout), broken or
\* unreadable: no call is repeated.
LostAnswer(r) ==
  \E call \in Calls :
    /\ At(r, call) /\ Accepts(r, call)
    /\ Effect(r, call)
    /\ Fails(r)

\* No answer at all (refused connection, time-out, unreadable text) while the
\* call took no effect: the polling goes on only after an HTTP error.
NoAnswer(r) == InPlan(r) /\ Fails(r) /\ UNCHANGED stack

\* Variant: the questions are not counted.
PollUncounted(r) == At(r, "poll") /\ UNCHANGED <<tool, stack, resets>>

\* Variant: one question too many.
PollOneMore(r) ==
  /\ At(r, "poll")
  /\ tries' = [tries EXCEPT ![r] = @ + 1]
  /\ IF tries[r] < MaxTries
     THEN UNCHANGED <<stage, phone, session, shown, resets>>
     ELSE stage' = [stage EXCEPT ![r] = Failed] /\ UNCHANGED <<phone, session, shown, resets>>
  /\ UNCHANGED stack

PollAgain(r) ==
  /\ At(r, "poll")
  /\ IF tries[r] + 1 < MaxTries
     THEN /\ tries' = [tries EXCEPT ![r] = @ + 1]
          /\ UNCHANGED <<stage, phone, session, shown, resets>>
     ELSE Fails(r)
  /\ UNCHANGED stack

\* scripts/reset-local-test-data.sh --yes --restart: the volumes are deleted,
\* the console is removed with its requests, and the next call of a script
\* finds no gateway (going down and up again outlasts its pauses).
Reset ==
  /\ resets < MaxResets
  /\ resets' = resets + 1
  /\ owner' = [p \in Phone |-> None]
  /\ holder' = [r \in Run |-> None]
  /\ ledger' = [r \in Run |-> 0]
  /\ known' = {}
  /\ synced' = [r \in Run |-> 0]
  /\ stage' = [r \in Run |-> IF InPlan(r) THEN Failed ELSE stage[r]]
  /\ UNCHANGED <<phone, session, tries, shown>>

Step(r) == Succeeds(r) \/ Refused(r) \/ LostAnswer(r) \/ NoAnswer(r) \/ PollAgain(r)

Done == (\A r \in Run : Ended(r)) /\ UNCHANGED vars

Next ==
  \/ \E r \in Run : Start(r) \/ Reject(r) \/ Step(r) \/ Project(r)
  \/ Reset \/ Done

\* A call of the console returns or times out (urlopen, timeout=15), so its
\* requests go on, and their end does not rest on calls that find nobody
\* (NoAnswer).  The script's curl has no time limit: nothing is assumed of it,
\* nor of a user, nor of the event that Asset waits for.
GoesOn(r) == Succeeds(r) \/ Refused(r) \/ LostAnswer(r) \/ PollAgain(r)

Spec == Init /\ [][Next]_vars /\ \A r \in Console : WF_vars(GoesOn(r))
=============================================================================
