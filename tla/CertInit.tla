------------------------------ MODULE CertInit ------------------------------
(***************************************************************************)
(* grpc/init-certs.sh: the job that fills the certificate folder.  Jobs of *)
(* one folder are the runs of the compose service grpc-cert-init; a step   *)
(* is a test of the script or a file that openssl or cp writes.  A job may *)
(* stop at any step and leave the file it was writing torn.  Serial        *)
(* numbers (and authority/ca.srl, in which signing keeps them: no test of  *)
(* the script looks at it), subjects and extensions are left out.          *)
(***************************************************************************)
EXTENDS Integers, Sequences

CONSTANTS
  Job,            \* runs of the script that may share the folder
  Order,          \* the services in the order of the two loops
  Key,            \* private keys; a certificate shows the key it belongs to
  Life,           \* validity of a new certificate, in clock units
  MaxTime,        \* bound on the clock
  Absent, Torn    \* contents of a file that is missing, or half written

Service == {Order[i] : i \in 1..Len(Order)}
Cert    == [key : Key, signer : Key, until : Nat]
Content == Key \cup Cert \cup {Absent, Torn}

ASSUME CertAssumption ==
  /\ Order \in Seq(STRING) /\ "authority" \notin Service
  /\ Absent # Torn /\ {Absent, Torn} \cap (Key \cup Cert) = {} /\ Key \cap Cert = {}
  /\ Life \in Nat \ {0} /\ MaxTime \in Nat

\* A file is known by whom it is of and by what it is.  The signing requests
\* of the services are in the authority's folder.
CaKey         == <<"authority", "key">>
CaCrt         == <<"authority", "crt">>
ServiceKey(s) == <<s, "key">>
ServiceCrt(s) == <<s, "crt">>
Request(s)    == <<s, "csr">>
Root(s)       == <<s, "ca.crt">>
Folder(d)     == IF d = "authority" THEN {CaKey, CaCrt} \cup {Request(s) : s \in Service}
                 ELSE {ServiceKey(d), ServiceCrt(d), Root(d)}
Path          == {CaKey, CaCrt} \cup (Service \X {"key", "crt", "csr", "ca.crt"})

VARIABLES
  file,   \* contents of the folder
  pc,     \* per job: what it does next, or how it ended
  turn,   \* per job: position of the current service in Order
  fresh,  \* per job: the key openssl has just made
  begun,  \* per job: when it began and in what folder (history)
  now     \* clock

vars == <<file, pc, turn, fresh, begun, now>>

Writing == {"ca.key", "ca.crt", "key", "csr", "crt", "root"}
Running == Writing \cup {"authority", "service"}
Ended   == {"off", "ok", "refused", "failed"}

Has(p)     == file[p] # Absent
Cur(j)     == Order[turn[j]]
Valid(p)   == file[p] \in Cert /\ now < file[p].until

Goes(j, to)  == pc' = [pc EXCEPT ![j] = to]
Tests(j, to) == Goes(j, to) /\ UNCHANGED <<file, turn, fresh, begun, now>>

\* The process is gone, and with it what it knew.
NeverBegun == [at |-> 0, healthy |-> FALSE]
Ends(j, how) ==
  /\ Goes(j, how)
  /\ turn'  = [turn EXCEPT ![j] = 1]
  /\ fresh' = [fresh EXCEPT ![j] = Absent]
  /\ begun' = [begun EXCEPT ![j] = NeverBegun]
  /\ UNCHANGED now
Quits(j, how) == Ends(j, how) /\ UNCHANGED file

InUse == {file[p] : p \in Path} \cup {fresh[j] : j \in Job}
           \cup {file[p].key : p \in {q \in Path : file[q] \in Cert}}
           \cup {file[p].signer : p \in {q \in Path : file[q] \in Cert}}

\* Keys differ only in being different: any unused one stands for them all.
NewKey == CHOOSE k \in Key : k \notin InUse

\* Variants of the script's tests and of its loop, for comparison.
KeptWithoutRoot(s)  == Has(ServiceKey(s)) /\ Has(ServiceCrt(s))
UntouchedCrt(s)     == ~Has(ServiceCrt(s))
UntouchedRequest(s) == ~(\E p \in Folder(s) \cup {Request(s)} : Has(p))

Complete(s)  == \A p \in Folder(s) : Has(p)
Untouched(s) == \A p \in Folder(s) : ~Has(p)

\* openssl verify: the service's certificate under the authority's.
Verifies(s) ==
  /\ Valid(CaCrt) /\ Valid(ServiceCrt(s))
  /\ file[ServiceCrt(s)].signer = file[CaCrt].key

\* Variant: only the first service is looked at.
NoKeysOfFirst == ~Has(ServiceKey(Order[1])) /\ ~Has(ServiceCrt(Order[1]))

NoServiceKeys == \A s \in Service : ~Has(ServiceKey(s)) /\ ~Has(ServiceCrt(s))

\* A folder the script can work with: empty, or a valid CA and services that
\* are complete or not there.
Healthy ==
  /\ \/ ~Has(CaKey) /\ ~Has(CaCrt) /\ NoServiceKeys
     \/ Has(CaKey) /\ Valid(CaCrt)
  /\ \A s \in Service : (\A p \in Folder(s) : ~Has(p)) \/ (Complete(s) /\ Verifies(s))

Init ==
  /\ file = [p \in Path |-> Absent]
  /\ pc = [j \in Job |-> "off"]
  /\ turn = [j \in Job |-> 1]
  /\ fresh = [j \in Job |-> Absent]
  /\ begun = [j \in Job |-> NeverBegun]
  /\ now = 0

\* docker compose up: the job has restart "no", so it starts only like this.
Begin(j) ==
  /\ pc[j] \in Ended
  /\ Goes(j, "authority")
  /\ begun' = [begun EXCEPT ![j] = [at |-> now, healthy |-> Healthy]]
  /\ UNCHANGED <<file, turn, fresh, now>>

\* Variant: no -checkend.
CaKeptUnchecked(j) ==
  /\ pc[j] = "authority" /\ Has(CaKey) /\ Has(CaCrt)
  /\ Tests(j, "service")

CaKept(j) ==
  /\ pc[j] = "authority" /\ Has(CaKey) /\ Has(CaCrt)
  /\ IF Valid(CaCrt) THEN Tests(j, "service") ELSE Quits(j, "failed")

CaRefused(j) ==
  /\ pc[j] = "authority" /\ ~(Has(CaKey) /\ Has(CaCrt))
  /\ Has(CaKey) \/ Has(CaCrt) \/ ~NoServiceKeys
  /\ Quits(j, "refused")

CaMissing(j) ==
  /\ pc[j] = "authority" /\ ~Has(CaKey) /\ ~Has(CaCrt) /\ NoServiceKeys
  /\ Tests(j, "ca.key")

Writes(j, p, content, to) ==
  /\ file' = [file EXCEPT ![p] = content]
  /\ Goes(j, to)
  /\ UNCHANGED <<turn, begun, now>>

\* openssl req makes a key, writes it, and then what it made with the key.
MakeKey(j, at, p, to) ==
  /\ pc[j] = at
  /\ Key \ InUse # {}
  /\ Writes(j, p, NewKey, to)
  /\ fresh' = [fresh EXCEPT ![j] = NewKey]

MakeCaKey(j) == MakeKey(j, "ca.key", CaKey, "ca.crt")

MakeCaCrt(j) ==
  /\ pc[j] = "ca.crt"
  /\ Writes(j, CaCrt, [key |-> fresh[j], signer |-> fresh[j], until |-> now + Life], "service")
  /\ fresh' = [fresh EXCEPT ![j] = Absent]

Advance(j) ==
  /\ Goes(j, "service")
  /\ turn' = [turn EXCEPT ![j] = @ + 1]
  /\ UNCHANGED <<fresh, begun, now>>

ServiceKept(j) ==
  /\ pc[j] = "service" /\ turn[j] <= Len(Order) /\ Complete(Cur(j))
  /\ IF Verifies(Cur(j)) THEN Advance(j) /\ UNCHANGED file ELSE Quits(j, "failed")

ServiceRefused(j) ==
  /\ pc[j] = "service" /\ turn[j] <= Len(Order)
  /\ ~Complete(Cur(j)) /\ ~Untouched(Cur(j))
  /\ Quits(j, "refused")

ServiceMissing(j) ==
  /\ pc[j] = "service" /\ turn[j] <= Len(Order) /\ ~Complete(Cur(j)) /\ Untouched(Cur(j))
  /\ Tests(j, "key")

MakeServiceKey(j) == MakeKey(j, "key", ServiceKey(Cur(j)), "csr")

MakeRequest(j) ==
  /\ pc[j] = "csr"
  /\ Writes(j, Request(Cur(j)), fresh[j], "crt")
  /\ fresh' = [fresh EXCEPT ![j] = Absent]

\* openssl x509 -req refuses a CA certificate that is not the CA key's.
CanSign(s) ==
  file[Request(s)] \in Key /\ file[CaCrt] \in Cert /\ file[CaKey] = file[CaCrt].key

Sign(j) ==
  /\ pc[j] = "crt"
  /\ IF CanSign(Cur(j))
     THEN Writes(j, ServiceCrt(Cur(j)),
                 [key |-> file[Request(Cur(j))], signer |-> file[CaKey],
                  until |-> now + Life], "root") /\ UNCHANGED fresh
     ELSE Quits(j, "failed")

CopyRoot(j) ==
  /\ pc[j] = "root"
  /\ file' = [file EXCEPT ![Root(Cur(j))] = file[CaCrt]]
  /\ Advance(j)

Finish(j) ==
  /\ pc[j] = "service" /\ turn[j] > Len(Order)
  /\ Quits(j, "ok")

\* The file that the job writes next.
Target(j) ==
  CASE pc[j] = "ca.key" -> CaKey
    [] pc[j] = "ca.crt" -> CaCrt
    [] pc[j] = "key"    -> ServiceKey(Cur(j))
    [] pc[j] = "csr"    -> Request(Cur(j))
    [] pc[j] = "crt"    -> ServiceCrt(Cur(j))
    [] pc[j] = "root"   -> Root(Cur(j))

\* The container is killed, or openssl or cp fails: set -e ends the script.
Stop(j) ==
  /\ pc[j] \in Running
  /\ Ends(j, "off")
  /\ \/ UNCHANGED file
     \/ pc[j] \in Writing /\ file' = [file EXCEPT ![Target(j)] = Torn]

\* The operator rotates or cleans up: one folder, while no job runs.
Remove(d) ==
  /\ \A j \in Job : pc[j] \in Ended
  /\ file' = [p \in Path |-> IF p \in Folder(d) THEN Absent ELSE file[p]]
  /\ UNCHANGED <<pc, turn, fresh, begun, now>>

Tick == now < MaxTime /\ now' = now + 1 /\ UNCHANGED <<file, pc, turn, fresh, begun>>

Authority(j) == CaKept(j) \/ CaRefused(j) \/ CaMissing(j) \/ MakeCaKey(j) \/ MakeCaCrt(j)
Services(j)  == \/ ServiceKept(j) \/ ServiceRefused(j) \/ ServiceMissing(j)
                \/ MakeServiceKey(j) \/ MakeRequest(j) \/ Sign(j) \/ CopyRoot(j) \/ Finish(j)

Next ==
  \/ \E j \in Job : Begin(j) \/ Authority(j) \/ Services(j) \/ Stop(j)
  \/ \E d \in Service \cup {"authority"} : Remove(d)
  \/ Tick

\* A running script goes on; nobody has to start, stop or clean up anything.
Spec == Init /\ [][Next]_vars /\ \A j \in Job : WF_vars(Authority(j) \/ Services(j))
=============================================================================
