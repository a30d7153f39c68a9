----------------------------- MODULE MCFixture -----------------------------
(***************************************************************************)
(* An instance of IntegrationFixture: the events a run sends.              *)
(***************************************************************************)
EXTENDS IntegrationFixture

TwoTopics == <<"transaction", "transaction", "monthly", "monthly">>
=============================================================================
