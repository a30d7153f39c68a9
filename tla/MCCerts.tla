------------------------------ MODULE MCCerts -------------------------------
(***************************************************************************)
(* CertInit for TLC: two of the three services are one that is there and   *)
(* one that is new.                                                        *)
(***************************************************************************)
EXTENDS CertProperties

TwoServices == <<"banking", "work">>
=============================================================================
