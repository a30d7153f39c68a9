---------------------------- MODULE TrustCircle ----------------------------
(***************************************************************************)
(* What the certificate folder promises to the services that call each     *)
(* other, without files, jobs and crashes: an authority is established     *)
(* only while nobody is certified, is preserved when a member joins, and   *)
(* whoever is certified is vouched for by the authority of all the others. *)
(* Only the operator takes anything away.                                  *)
(***************************************************************************)
CONSTANTS
  Member,
  Key,
  None     \* not a key

VARIABLES
  anchor,    \* the key of the authority, or None
  identity,  \* per member: the key it is certified for, or None
  voucher,   \* per member: the key that signed its certificate, or None
  root       \* per member: the authority it accepts others from, or None

vars == <<anchor, identity, voucher, root>>

Init ==
  /\ anchor   = None
  /\ identity = [m \in Member |-> None]
  /\ voucher  = [m \in Member |-> None]
  /\ root     = [m \in Member |-> None]

Establish(k) ==
  /\ anchor = None
  /\ \A m \in Member : identity[m] = None /\ root[m] = None
  /\ anchor' = k
  /\ UNCHANGED <<identity, voucher, root>>

Certify(m, k) ==
  /\ anchor # None /\ identity[m] = None
  /\ identity' = [identity EXCEPT ![m] = k]
  /\ voucher'  = [voucher EXCEPT ![m] = anchor]
  /\ UNCHANGED <<anchor, root>>

Admit(m) ==
  /\ anchor # None /\ identity[m] # None /\ root[m] = None
  /\ root' = [root EXCEPT ![m] = anchor]
  /\ UNCHANGED <<anchor, identity, voucher>>

Retire ==
  /\ anchor' = None
  /\ UNCHANGED <<identity, voucher, root>>

Withdraw(m) ==
  /\ identity' = [identity EXCEPT ![m] = None]
  /\ voucher'  = [voucher EXCEPT ![m] = None]
  /\ root'     = [root EXCEPT ![m] = None]
  /\ UNCHANGED anchor

Next ==
  \/ \E k \in Key : Establish(k)
  \/ \E m \in Member, k \in Key : Certify(m, k)
  \/ \E m \in Member : Admit(m) \/ Withdraw(m)
  \/ Retire

Spec == Init /\ [][Next]_vars
=============================================================================
