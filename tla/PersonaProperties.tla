-------------------------- MODULE PersonaProperties --------------------------
(***************************************************************************)
(* What a persona that PersonaRun reports as made is good for.             *)
(***************************************************************************)
EXTENDS PersonaRun

\* Types of all variables.
TypeOK ==
  /\ stage \in [Run -> Int] /\ \A r \in Run : stage[r] \in -1..Made(r)
  /\ phone \in [Run -> Phone \cup {None}]
  /\ session \in [Run -> Run \cup {None}]
  /\ tries \in [Run -> 0..(MaxTries - 1)]
  /\ shown \in [Run -> Nat] /\ ledger \in [Run -> Nat] /\ synced \in [Run -> Nat]
  /\ owner \in [Phone -> Run \cup {None}]
  /\ holder \in [Run -> Run \cup {None}]
  /\ known \subseteq Run
  /\ resets \in 0..MaxResets

\* The phone number and PIN of the answer log in to the user this very run
\* registered, that user holds the account, all transactions were seeded,
\* and the aggregates the run printed contain every one of them: Asset was
\* refreshed after the last was written and before the first was read.
Whole(r) ==
  /\ owner[phone[r]] = r
  /\ holder[r] = r
  /\ ledger[r] = Seeds(r)
  /\ shown[r] = Seeds(r)

MadeIsWhole ==
  [][\A r \in Run : stage[r] # Made(r) /\ stage'[r] = Made(r) => Whole(r)']_vars

\* Two runs can draw the same phone number, and all personas have the same
\* PIN: still no run ever acts as the user of another.
OwnUserOnly ==
  \A r \in Run : session[r] \in {None, r} /\ holder[r] \in {None, r}

\* No run seeds a transaction twice, though it never learns whether a call
\* whose answer it lost took effect.
SeededOnce == \A r \in Run : ledger[r] <= Seeds(r)

\* Every request ends, also when Asset never learns of the account: the page
\* disables its button until the answer comes (index.html, finally).
EveryRequestEnds == \A r \in Console : InPlan(r) ~> Ended(r)
=============================================================================
