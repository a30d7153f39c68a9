---------------------------- MODULE OneTransfer ----------------------------
(***************************************************************************)
(* What the system promises of a transfer that is asked for under one key, *)
(* however often it is asked for and whatever fails: the money moves at    *)
(* most once, a recorded outcome is never changed, COMPLETED is always     *)
(* true, and Asset shows nothing else.  FAILED is true as well, unless the *)
(* request itself ended in an error or a broken connection and nobody has  *)
(* checked since: once the transfer has been looked up, what is recorded   *)
(* is what has happened to the money.                                      *)
(***************************************************************************)
CONSTANT Key

VARIABLES
  money,    \* per key: "still" or "moved"
  outcome,  \* per key: "open", or what Banking has recorded for good
  doubtful, \* keys whose request ended in an error, and that nobody has checked
  shown     \* keys whose transfer Asset shows

vars == <<money, outcome, doubtful, shown>>

Init ==
  /\ money = [k \in Key |-> "still"]
  /\ outcome = [k \in Key |-> "open"]
  /\ doubtful = {}
  /\ shown = {}

\* The money may move in a request that ends in an error.
Move(k) ==
  /\ outcome[k] = "open" /\ money[k] = "still"
  /\ money' = [money EXCEPT ![k] = "moved"]
  /\ doubtful' \in {doubtful, doubtful \cup {k}}
  /\ UNCHANGED <<outcome, shown>>

Doubt(k) ==
  /\ outcome[k] = "open"
  /\ doubtful' = doubtful \cup {k}
  /\ UNCHANGED <<money, outcome, shown>>

Check(k) ==
  /\ outcome[k] = "open"
  /\ doubtful' = doubtful \ {k}
  /\ UNCHANGED <<money, outcome, shown>>

Complete(k) ==
  /\ outcome[k] = "open" /\ money[k] = "moved"
  /\ outcome' = [outcome EXCEPT ![k] = "COMPLETED"]
  /\ UNCHANGED <<money, doubtful, shown>>

Fail(k) ==
  /\ outcome[k] = "open"
  /\ money[k] = "still" \/ k \in doubtful
  /\ outcome' = [outcome EXCEPT ![k] = "FAILED"]
  /\ UNCHANGED <<money, doubtful, shown>>

Show(k) ==
  /\ outcome[k] = "COMPLETED"
  /\ shown' = shown \cup {k}
  /\ UNCHANGED <<money, outcome, doubtful>>

Next ==
  \E k \in Key : Move(k) \/ Doubt(k) \/ Check(k) \/ Complete(k) \/ Fail(k) \/ Show(k)

Spec == Init /\ [][Next]_vars
=============================================================================
