--------------------------- MODULE CertProperties ---------------------------
(***************************************************************************)
(* What the certificate job of CertInit must keep.                         *)
(***************************************************************************)
EXTENDS CertInit

\* Types of all variables.
TypeOK ==
  /\ file \in [Path -> Content]
  /\ pc \in [Job -> Running \cup Ended]
  /\ turn \in [Job -> 1..(Len(Order) + 1)]
  /\ fresh \in [Job -> Key \cup {Absent}]
  /\ begun \in [Job -> [at : 0..MaxTime, healthy : BOOLEAN]]
  /\ now \in 0..MaxTime

Completes(j) == pc[j] # "ok" /\ pc'[j] = "ok"
Refuses(j)   == pc[j] \in Running /\ pc'[j] \in {"refused", "failed"}

\* Asset, Banking and Work wait for the job to complete
\* (service_completed_successfully): from then on every service has a root
\* file, its certificate belongs to its own private key, and the CA that is
\* in the folder signed it, however many crashes, removals of folders and
\* earlier runs lie behind.
Matches(s) ==
  /\ Has(Root(s))
  /\ file[CaCrt] \in Cert /\ file[ServiceCrt(s)] \in Cert
  /\ file[ServiceKey(s)] = file[ServiceCrt(s)].key
  /\ file[ServiceCrt(s)].signer = file[CaCrt].key

CompletedSetsMatch == [][\A j \in Job : Completes(j) => \A s \in Service : Matches(s)]_vars

\* No certificate and no root that a completed run leaves had expired when
\* the run began (-checkend, openssl verify).
CompletedSetsValid ==
  [][\A j \in Job : Completes(j) =>
       \A s \in Service : \A p \in {CaCrt, ServiceCrt(s)} :
         file[p] \in Cert /\ begun[j].at < file[p].until]_vars

\* "keys will not be overwritten": a private key or a certificate, complete
\* or torn, changes only when the operator removes it.
Precious == {CaKey, CaCrt} \cup UNION {{ServiceKey(s), ServiceCrt(s)} : s \in Service}
NeverOverwritten == [][\A p \in Precious : Has(p) => file'[p] \in {file[p], Absent}]_vars

\* The same promise for two jobs that share the folder: no private key is
\* replaced by another.
KeysNotReplaced ==
  [][\A p \in Precious : file[p] \in Key => file'[p] \in {file[p], Absent, Torn}]_vars

\* The job does not give up on a folder that is in order, such as one whose
\* CA serves two services and a third is new; only the clock may spoil it.
RefusesOnlyBroken ==
  [][\A j \in Job : Refuses(j) => ~begun[j].healthy \/ begun[j].at < now]_vars

(***************************************************************************)
(* The invariant behind the safety properties, for one job at a time.  Of  *)
(* the folder: what belongs together, whatever stopped where.  Of the job: *)
(* what its tests have shown, which of its files it still has to write, and *)
(* that a folder that was in order stays so for the services still to come.*)
(***************************************************************************)
FolderInvariant ==
  /\ file[CaCrt] \in Cert /\ Has(CaKey) => file[CaKey] = file[CaCrt].key
  /\ \A s \in Service : file[ServiceCrt(s)] \in Cert =>
       /\ file[ServiceKey(s)] = file[ServiceCrt(s)].key
       /\ file[CaCrt] \in Cert => file[ServiceCrt(s)].signer = file[CaCrt].key

ValidThen(j, p) == file[p] \in Cert /\ begun[j].at < file[p].until

InOrder(s) == (\A p \in Folder(s) : ~Has(p)) \/ (Complete(s) /\ Verifies(s))

InAuthority(j) ==
  /\ ~Has(CaCrt) /\ NoServiceKeys
  /\ pc[j] = "ca.key" => ~Has(CaKey)
  /\ pc[j] = "ca.crt" => fresh[j] \in Key /\ file[CaKey] = fresh[j]

InServices(j) ==
  /\ Has(CaKey) /\ ValidThen(j, CaCrt)
  /\ \A i \in 1..Len(Order) : i < turn[j] =>
       Matches(Order[i]) /\ ValidThen(j, ServiceCrt(Order[i]))

StillInOrder(j) ==
  begun[j].healthy /\ begun[j].at = now =>
    /\ pc[j] = "authority" => Healthy
    /\ \A i \in 1..Len(Order) :
         \/ pc[j] \in {"service", "ca.key", "ca.crt"} /\ turn[j] <= i
         \/ pc[j] \in {"key", "csr", "crt", "root"} /\ turn[j] < i /\ Order[i] # Cur(j)
         => InOrder(Order[i])

AtCurrent(j) ==
  /\ turn[j] <= Len(Order)
  /\ pc[j] \in {"key", "csr", "crt"} => ~Has(ServiceCrt(Cur(j)))
  /\ pc[j] = "key" => ~Has(ServiceKey(Cur(j)))
  /\ pc[j] = "csr" => fresh[j] \in Key /\ file[ServiceKey(Cur(j))] = fresh[j]
  /\ pc[j] = "crt" =>
       file[Request(Cur(j))] \in Key /\ file[ServiceKey(Cur(j))] = file[Request(Cur(j))]
  /\ pc[j] = "root" => ValidThen(j, ServiceCrt(Cur(j)))

InLoop == {"service", "key", "csr", "crt", "root"}

JobInvariant(j) ==
  /\ pc[j] \notin InLoop => turn[j] = 1
  /\ pc[j] \in Running => begun[j].at <= now /\ StillInOrder(j)
  /\ pc[j] \in {"ca.key", "ca.crt"} => InAuthority(j)
  /\ pc[j] \in InLoop => InServices(j)
  /\ pc[j] \in {"key", "csr", "crt", "root"} => AtCurrent(j)

CertInvariant == TypeOK /\ FolderInvariant /\ \A j \in Job : JobInvariant(j)

(***************************************************************************)
(* Trust between the services.                                             *)
(***************************************************************************)
\* "Replacing the CA because Work is added breaks the trust between Banking
\* and Asset, so the CA is preserved and only what is missing is issued":
\* wherever runs stop, whatever the operator removes, the folder is a circle
\* of services that are certified by one authority.
KeyIn(p)    == IF file[p] \in Cert THEN file[p].key ELSE Absent
SignerIn(p) == IF file[p] \in Cert THEN file[p].signer ELSE Absent

Trust == INSTANCE TrustCircle WITH
  Member   <- Service,
  None     <- Absent,
  anchor   <- KeyIn(CaCrt),
  identity <- [s \in Service |-> KeyIn(ServiceCrt(s))],
  voucher  <- [s \in Service |-> SignerIn(ServiceCrt(s))],
  root     <- [s \in Service |-> KeyIn(Root(s))]

KeepsTrust == Trust!Spec

\* Each service accepts every service, also in the middle of a run and while
\* the authority's folder is gone.
MutualTrust ==
  \A s, t \in Service :
    file[Root(s)] \in Cert /\ file[ServiceCrt(t)] \in Cert =>
      file[ServiceCrt(t)].signer = file[Root(s)].key

\* What it rests on: nobody has a root without a certificate, all
\* certificates are of one authority, be it in the folder or removed, and a
\* job that issues a set has not copied the root yet.
NoBareRoot == \A s \in Service : file[Root(s)] \in Cert => file[ServiceCrt(s)] \in Cert

OneSigner ==
  \A s, t \in Service :
    file[ServiceCrt(s)] \in Cert /\ file[ServiceCrt(t)] \in Cert =>
      file[ServiceCrt(s)].signer = file[ServiceCrt(t)].signer

RootMissing(j) == pc[j] \in {"key", "csr", "crt", "root"} => ~Has(Root(Cur(j)))

TrustInvariant == MutualTrust /\ NoBareRoot /\ OneSigner /\ \A j \in Job : RootMissing(j)

\* An incomplete set is found ("Incomplete $service certificate set"): after
\* a completed run each service has the whole root of its CA.
CompletedRootsWhole ==
  [][\A j \in Job : Completes(j) => \A s \in Service : file[Root(s)] = file[CaCrt]]_vars
=============================================================================
