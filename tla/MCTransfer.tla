----------------------------- MODULE MCTransfer -----------------------------
(***************************************************************************)
(* Instances of TransferFlow: a call, one with the same key that asks for  *)
(* the same or for something else, and one with another key.               *)
(***************************************************************************)
EXTENDS TransferProperties, TLC

CONSTANTS first, again, second, k1, k2

TwoKeys     == (first :> k1) @@ (again :> k1) @@ (second :> k2)
AskedOther  == (first :> 1) @@ (again :> 2) @@ (second :> 1)
OneKey      == (first :> k1) @@ (again :> k1)
AskedAgain  == (first :> 1) @@ (again :> 1)

\* What Kafka and Asset make of an event touches nothing that the invariants
\* of Banking and the proxy speak of.
EventsStay == topic = {}
=============================================================================
