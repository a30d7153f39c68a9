-------------------------- MODULE IdentityBoundary --------------------------
(***************************************************************************)
(* What the gateway promises to the services behind it, without filters,   *)
(* wrappers, tokens or key sets.                                           *)
(*                                                                         *)
(* A visit comes in through a door (a connection the gateway serves).  It  *)
(* is open to everybody, or it needs an identity and whoever knocks can    *)
(* prove to be one subject or nobody.  The gateway lets the visit in or    *)
(* turns it away; whom it lets in is announced to the service as exactly   *)
(* the subject it proved to be, or as nobody.                              *)
(***************************************************************************)
CONSTANTS
  Door,
  Person,
  Nobody    \* not a person

VARIABLES
  visit,       \* per door: "none", "knocking", "in" or "away"
  needsProof,  \* per door: the visit needs an identity
  proven,      \* per door: the subject the visitor can prove to be
  announced    \* per door: the identity the service is told

boundaryVars == <<visit, needsProof, proven, announced>>

BoundaryInit ==
  /\ visit      = [d \in Door |-> "none"]
  /\ needsProof = [d \in Door |-> FALSE]
  /\ proven     = [d \in Door |-> Nobody]
  /\ announced  = [d \in Door |-> Nobody]

Knock(d) ==
  /\ visit[d] = "none"
  /\ visit' = [visit EXCEPT ![d] = "knocking"]
  /\ \E open \in BOOLEAN : needsProof' = [needsProof EXCEPT ![d] = open]
  /\ \E who \in Person \cup {Nobody} : proven' = [proven EXCEPT ![d] = who]
  /\ UNCHANGED announced

LetIn(d) ==
  /\ visit[d] = "knocking"
  /\ needsProof[d] => proven[d] # Nobody
  /\ visit' = [visit EXCEPT ![d] = "in"]
  /\ announced' = [announced EXCEPT ![d] = IF needsProof[d] THEN proven[d] ELSE Nobody]
  /\ UNCHANGED <<needsProof, proven>>

TurnAway(d) ==
  /\ visit[d] = "knocking"
  /\ visit' = [visit EXCEPT ![d] = "away"]
  /\ UNCHANGED <<needsProof, proven, announced>>

\* A set of visits ends: one connection closes, or the process goes down.
Leave(gone) ==
  /\ visit'      = [d \in Door |-> IF d \in gone THEN "none" ELSE visit[d]]
  /\ needsProof' = [d \in Door |-> IF d \in gone THEN FALSE ELSE needsProof[d]]
  /\ proven'     = [d \in Door |-> IF d \in gone THEN Nobody ELSE proven[d]]
  /\ announced'  = [d \in Door |-> IF d \in gone THEN Nobody ELSE announced[d]]

BoundaryNext ==
  \/ \E d \in Door : Knock(d) \/ LetIn(d) \/ TurnAway(d)
  \/ \E gone \in SUBSET Door : Leave(gone)

BoundarySpec == BoundaryInit /\ [][BoundaryNext]_boundaryVars
=============================================================================
