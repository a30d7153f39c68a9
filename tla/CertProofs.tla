----------------------------- MODULE CertProofs -----------------------------
(***************************************************************************)
(* Theorems about CertInit for one job at a time, whatever the services,   *)
(* the keys, the lifetimes and the crashes.                                *)
(***************************************************************************)
EXTENDS CertProperties, TLAPS

OneJob == \A i, j \in Job : i = j

\* The files of the folder are different files.
LEMMA Paths ==
  /\ CaKey \in Path /\ CaCrt \in Path /\ CaKey # CaCrt
  /\ \A s \in Service :
       /\ Folder(s) = {ServiceKey(s), ServiceCrt(s), Root(s)}
       /\ {ServiceKey(s), ServiceCrt(s), Root(s), Request(s)} \subseteq Path \ {CaKey, CaCrt}
       /\ ServiceKey(s) # ServiceCrt(s) /\ ServiceKey(s) # Root(s) /\ ServiceCrt(s) # Root(s)
       /\ Request(s) \notin Folder(s)
  /\ \A s, t \in Service : s # t => Folder(s) \cap (Folder(t) \cup {Request(t)}) = {}
<1>1. \A s \in Service : s # "authority" BY CertAssumption
<1>2. \A s \in Service : Folder(s) = {ServiceKey(s), ServiceCrt(s), Root(s)}
  BY <1>1 DEF Folder
<1>3. CaKey \in Path /\ CaCrt \in Path /\ CaKey # CaCrt BY DEF CaKey, CaCrt, Path
<1>4. ASSUME NEW s \in Service
      PROVE  /\ {ServiceKey(s), ServiceCrt(s), Root(s), Request(s)} \subseteq Path \ {CaKey, CaCrt}
             /\ ServiceKey(s) # ServiceCrt(s) /\ ServiceKey(s) # Root(s)
             /\ ServiceCrt(s) # Root(s) /\ Request(s) \notin Folder(s)
  BY <1>1, <1>2 DEF ServiceKey, ServiceCrt, Root, Request, Path, CaKey, CaCrt
<1>5. ASSUME NEW s \in Service, NEW t \in Service, s # t
      PROVE  Folder(s) \cap (Folder(t) \cup {Request(t)}) = {}
  BY <1>2, <1>5 DEF ServiceKey, ServiceCrt, Root, Request
<1> QED BY <1>2, <1>3, <1>4, <1>5

\* A key, a certificate, a missing and a torn file are different contents.
LEMMA Contents ==
  /\ Absent \notin Key /\ Absent \notin Cert /\ Torn \notin Key /\ Torn \notin Cert
  /\ Torn # Absent /\ Key \cap Cert = {}
  /\ \A k, l \in Key, u \in Nat : [key |-> k, signer |-> l, until |-> u] \in Cert
  /\ \A c \in Cert : c.key \in Key /\ c.signer \in Key /\ c.until \in Nat
BY CertAssumption DEF Cert

\* The current service is one of the services.
LEMMA Current ==
  ASSUME TypeOK, NEW j \in Job, turn[j] <= Len(Order)
  PROVE  /\ turn[j] \in 1..Len(Order) /\ Cur(j) \in Service
<1>1. turn[j] \in 1..(Len(Order) + 1) /\ Len(Order) \in Nat
  BY CertAssumption DEF TypeOK
<1>2. turn[j] \in 1..Len(Order) BY <1>1
<1> QED BY <1>2 DEF Cur, Service

LEMMA InitCert == Init => CertInvariant
<1> SUFFICES ASSUME Init PROVE CertInvariant OBVIOUS
<1>1. Absent \in Content BY DEF Content
<1>2. Len(Order) \in Nat BY CertAssumption
<1>3. TypeOK BY <1>1, <1>2, CertAssumption DEF Init, TypeOK, Ended, NeverBegun
<1>4. FolderInvariant BY Paths, Contents DEF Init, FolderInvariant
<1>5. ASSUME NEW j \in Job PROVE JobInvariant(j)
  BY DEF Init, JobInvariant, Running, Writing, InLoop
<1> QED BY <1>3, <1>4, <1>5 DEF CertInvariant

(***************************************************************************)
(* Steps that only end a run                                               *)
(***************************************************************************)
\* A run that ends needs nothing any more: what is left to show is the folder.
LEMMA EndKeeps ==
  ASSUME CertInvariant, OneJob, NEW j \in Job, NEW how \in Ended, Ends(j, how),
         file' \in [Path -> Content], FolderInvariant'
  PROVE  CertInvariant'
<1>1. 1 \in 1..(Len(Order) + 1) BY CertAssumption
<1>2. TypeOK' BY <1>1, CertAssumption DEF CertInvariant, TypeOK, Ends, Goes, NeverBegun
<1>3. ASSUME NEW i \in Job PROVE JobInvariant(i)'
  <2>1. i = j BY DEF OneJob
  <2>2. pc'[j] = how /\ turn'[j] = 1 BY DEF Ends, Goes, CertInvariant, TypeOK
  <2> QED BY <2>1, <2>2 DEF JobInvariant, Ended, Running, Writing, InLoop
<1> QED BY <1>2, <1>3 DEF CertInvariant

LEMMA QuitKeeps ==
  ASSUME CertInvariant, OneJob, NEW j \in Job, NEW how \in Ended, Quits(j, how)
  PROVE  CertInvariant'
<1>1. Ends(j, how) /\ file' = file BY DEF Quits
<1>2. file' \in [Path -> Content] BY <1>1 DEF CertInvariant, TypeOK
<1>3. FolderInvariant' BY <1>1 DEF CertInvariant, FolderInvariant, Has
<1> QED BY <1>1, <1>2, <1>3, EndKeeps

\* A torn file never makes a certificate look whole, and the key of a whole
\* certificate is not the file being written.
LEMMA StopKeeps ==
  ASSUME CertInvariant, OneJob, NEW j \in Job, Stop(j)
  PROVE  CertInvariant'
<1>1. "off" \in Ended /\ Ends(j, "off") BY DEF Stop, Ended
<1>2. CASE UNCHANGED file BY <1>1, <1>2, QuitKeeps DEF Quits
<1>3. CASE pc[j] \in Writing /\ file' = [file EXCEPT ![Target(j)] = Torn]
  <2> DEFINE p == Target(j)
  <2>1. pc[j] \notin {"ca.key", "ca.crt"} => turn[j] <= Len(Order) /\ Cur(j) \in Service
    <3>1. TypeOK BY DEF CertInvariant
    <3>2. pc[j] \notin {"ca.key", "ca.crt"} => turn[j] <= Len(Order)
      BY <1>3 DEF CertInvariant, JobInvariant, AtCurrent, Writing
    <3> QED BY <3>1, <3>2, Current
  <2>2. /\ pc[j] = "ca.key" => p = CaKey
        /\ pc[j] = "ca.crt" => p = CaCrt
        /\ pc[j] = "key" => p = ServiceKey(Cur(j))
        /\ pc[j] = "csr" => p = Request(Cur(j))
        /\ pc[j] = "crt" => p = ServiceCrt(Cur(j))
        /\ pc[j] = "root" => p = Root(Cur(j))
    BY DEF Target
  <2>3. p \in Path BY <1>3, <2>1, <2>2, Paths DEF Writing
  <2> HIDE DEF p
  <2>4. file' = [file EXCEPT ![p] = Torn] BY <1>3 DEF p
  <2>5. file \in [Path -> Content] /\ Torn \in Content BY DEF CertInvariant, TypeOK, Content
  <2>6. file' \in [Path -> Content] /\ file'[p] = Torn BY <2>3, <2>4, <2>5
  <2>7. \A q \in Path : q # p => file'[q] = file[q] BY <2>4, <2>5
  <2>8. FolderInvariant'
    <3>1. FolderInvariant BY DEF CertInvariant
    <3>2. \A q \in Path : file'[q] \in Cert => q # p /\ file'[q] = file[q]
      BY <2>6, <2>7, Contents
    <3>3. file'[CaCrt] \in Cert /\ Has(CaKey)' => file'[CaKey] = file'[CaCrt].key
      <4>1. SUFFICES ASSUME file'[CaCrt] \in Cert PROVE Has(CaKey)' => file'[CaKey] = file'[CaCrt].key
        OBVIOUS
      <4>2. file[CaCrt] \in Cert /\ file'[CaCrt] = file[CaCrt] BY <3>2, <4>1, Paths
      <4>3. pc[j] # "ca.key"
        BY <4>2, Contents DEF CertInvariant, JobInvariant, InAuthority, Has
      <4>4. p # CaKey BY <1>3, <2>1, <2>2, <4>3, Paths DEF Writing
      <4> QED BY <2>7, <3>1, <4>2, <4>4, Paths DEF FolderInvariant, Has
    <3>4. ASSUME NEW s \in Service, file'[ServiceCrt(s)] \in Cert
          PROVE  /\ file'[ServiceKey(s)] = file'[ServiceCrt(s)].key
                 /\ file'[CaCrt] \in Cert => file'[ServiceCrt(s)].signer = file'[CaCrt].key
      <4>1. file[ServiceCrt(s)] \in Cert /\ file'[ServiceCrt(s)] = file[ServiceCrt(s)]
        BY <3>2, <3>4, Paths
      <4>2. p # ServiceKey(s)
        <5>1. CASE pc[j] = "key"
          <6>1. ~Has(ServiceCrt(Cur(j))) BY <5>1 DEF CertInvariant, JobInvariant, AtCurrent
          <6>2. s # Cur(j) BY <4>1, <6>1, Contents DEF Has
          <6> QED BY <2>1, <2>2, <5>1, <6>2, Paths
        <5>2. CASE pc[j] # "key"
          <6>1. CASE pc[j] \in {"ca.key", "ca.crt"} BY <2>2, <6>1, Paths
          <6>2. CASE pc[j] \in {"csr", "crt", "root"}
            <7>1. CASE s = Cur(j) BY <2>1, <2>2, <6>2, <7>1, Paths
            <7>2. CASE s # Cur(j) BY <2>1, <2>2, <6>2, <7>2, Paths
            <7> QED BY <7>1, <7>2
          <6> QED BY <1>3, <5>2, <6>1, <6>2 DEF Writing
        <5> QED BY <5>1, <5>2
      <4> QED BY <2>7, <3>1, <3>2, <4>1, <4>2, Paths DEF FolderInvariant
    <3> QED BY <3>3, <3>4 DEF FolderInvariant
  <2> QED BY <1>1, <2>6, <2>8, EndKeeps
<1> QED BY <1>2, <1>3 DEF Stop

\* Removing a folder removes a service's certificate with its key.
LEMMA RemoveKeeps ==
  ASSUME CertInvariant, NEW d \in Service \cup {"authority"}, Remove(d)
  PROVE  CertInvariant'
<1>1. file' = [p \in Path |-> IF p \in Folder(d) THEN Absent ELSE file[p]]
      /\ UNCHANGED <<pc, turn, fresh, begun, now>>
  BY DEF Remove
<1>2. TypeOK' BY <1>1 DEF CertInvariant, TypeOK, Content
<1>3. ASSUME NEW j \in Job PROVE JobInvariant(j)'
  BY <1>1 DEF CertInvariant, Remove, JobInvariant, Ended, Running, Writing, InLoop
<1>4. FolderInvariant'
  <2>1. FolderInvariant BY DEF CertInvariant
  <2>2. \A p \in Path : /\ p \in Folder(d) => file'[p] = Absent
                        /\ p \notin Folder(d) => file'[p] = file[p]
    BY <1>1
  <2>3. file'[CaCrt] \in Cert /\ Has(CaKey)' => file'[CaKey] = file'[CaCrt].key
    BY <2>1, <2>2, Paths, Contents DEF FolderInvariant, Has
  <2>4. ASSUME NEW s \in Service, file'[ServiceCrt(s)] \in Cert
        PROVE  /\ file'[ServiceKey(s)] = file'[ServiceCrt(s)].key
               /\ file'[CaCrt] \in Cert => file'[ServiceCrt(s)].signer = file'[CaCrt].key
    <3>1. ServiceCrt(s) \notin Folder(d) /\ file'[ServiceCrt(s)] = file[ServiceCrt(s)]
      BY <2>2, <2>4, Paths, Contents
    <3>2. d # s BY <3>1, Paths
    <3>3. ServiceKey(s) \notin Folder(d)
      <4>1. CASE d \in Service BY <3>2, <4>1, Paths
      <4>2. CASE d = "authority"
        <5>1. Folder(d) = {CaKey, CaCrt} \cup {Request(t) : t \in Service} BY <4>2 DEF Folder
        <5>2. \A t \in Service : ServiceKey(s) # Request(t) BY DEF ServiceKey, Request
        <5> QED BY <5>1, <5>2, Paths
      <4> QED BY <4>1, <4>2
    <3>4. file'[ServiceKey(s)] = file[ServiceKey(s)] BY <2>2, <3>3, Paths
    <3>5. file'[CaCrt] \in Cert => file'[CaCrt] = file[CaCrt] BY <2>2, Paths, Contents
    <3> QED BY <2>1, <2>4, <3>1, <3>4, <3>5 DEF FolderInvariant
  <2> QED BY <2>3, <2>4 DEF FolderInvariant
<1> QED BY <1>2, <1>3, <1>4 DEF CertInvariant

LEMMA TickKeeps ==
  ASSUME CertInvariant, Tick
  PROVE  CertInvariant'
<1>1. UNCHANGED <<file, pc, turn, fresh, begun>> /\ now' = now + 1 /\ now < MaxTime
  BY DEF Tick
<1>2. now \in Nat /\ MaxTime \in Nat BY CertAssumption DEF CertInvariant, TypeOK
<1>3. now' \in 0..MaxTime BY <1>1, <1>2
<1>4. TypeOK' BY <1>1, <1>3 DEF CertInvariant, TypeOK
<1>5. FolderInvariant' BY <1>1 DEF CertInvariant, FolderInvariant, Has
<1>6. ASSUME NEW j \in Job PROVE JobInvariant(j)'
  <2>1. JobInvariant(j) BY DEF CertInvariant
  <2>2. begun[j].at \in Nat BY DEF CertInvariant, TypeOK
  <2>3. pc[j] \in Running => begun'[j].at <= now' /\ StillInOrder(j)'
    <3>1. pc[j] \in Running => begun'[j].at <= now' /\ begun'[j].at # now'
      BY <1>1, <1>2, <2>1, <2>2 DEF JobInvariant
    <3> QED BY <3>1 DEF StillInOrder
  <2>4. pc[j] \in {"ca.key", "ca.crt"} => InAuthority(j)'
    BY <1>1, <2>1 DEF JobInvariant, InAuthority, Has, NoServiceKeys
  <2>5. pc[j] \in InLoop => InServices(j)'
    BY <1>1, <2>1 DEF JobInvariant, InServices, Has, ValidThen, Matches
  <2>6. pc[j] \in {"key", "csr", "crt", "root"} => AtCurrent(j)'
    BY <1>1, <2>1 DEF JobInvariant, AtCurrent, Has, ValidThen, Cur
  <2>7. pc[j] \notin InLoop => turn[j] = 1 BY <2>1 DEF JobInvariant
  <2> QED BY <1>1, <2>3, <2>4, <2>5, <2>6, <2>7 DEF JobInvariant, InLoop
<1> QED BY <1>4, <1>5, <1>6 DEF CertInvariant

(***************************************************************************)
(* Steps that only test                                                    *)
(***************************************************************************)
\* A step that leaves the folder alone keeps its invariant, and the types
\* are those of the new program counter, position and history.
LEMMA TestFrame ==
  ASSUME CertInvariant, NEW j \in Job, NEW to \in Running, Tests(j, to)
  PROVE  /\ TypeOK' /\ FolderInvariant' /\ pc'[j] = to
         /\ file' = file /\ now' = now
         /\ turn'[j] = turn[j] /\ fresh'[j] = fresh[j] /\ begun'[j] = begun[j]
<1>1. UNCHANGED <<file, turn, fresh, begun, now>> /\ pc' = [pc EXCEPT ![j] = to]
  BY DEF Tests, Goes
<1>2. TypeOK' /\ pc'[j] = to BY <1>1 DEF CertInvariant, TypeOK
<1>3. FolderInvariant' BY <1>1 DEF CertInvariant, FolderInvariant, Has
<1> QED BY <1>1, <1>2, <1>3

LEMMA OneIsAll ==
  ASSUME OneJob, NEW j \in Job, JobInvariant(j)', TypeOK', FolderInvariant'
  PROVE  CertInvariant'
<1>1. \A i \in Job : i = j BY DEF OneJob
<1> QED BY <1>1 DEF CertInvariant

LEMMA BeginKeeps ==
  ASSUME CertInvariant, OneJob, NEW j \in Job, Begin(j)
  PROVE  CertInvariant'
<1>1. /\ pc' = [pc EXCEPT ![j] = "authority"]
      /\ begun' = [begun EXCEPT ![j] = [at |-> now, healthy |-> Healthy]]
      /\ UNCHANGED <<file, turn, fresh, now>>
  BY DEF Begin, Goes
<1>2. Healthy \in BOOLEAN
  BY DEF Healthy, Has, Valid, NoServiceKeys
<1>3. TypeOK'
  <2>1. [at |-> now, healthy |-> Healthy] \in [at : 0..MaxTime, healthy : BOOLEAN]
    BY <1>2 DEF CertInvariant, TypeOK
  <2>2. begun' \in [Job -> [at : 0..MaxTime, healthy : BOOLEAN]]
    BY <1>1, <2>1 DEF CertInvariant, TypeOK
  <2>3. pc' \in [Job -> Running \cup Ended] BY <1>1 DEF CertInvariant, TypeOK, Running
  <2> QED BY <1>1, <2>2, <2>3 DEF CertInvariant, TypeOK
<1>4. FolderInvariant' BY <1>1 DEF CertInvariant, FolderInvariant, Has
<1>5. pc'[j] = "authority" /\ begun'[j].at = now /\ (begun'[j].healthy <=> Healthy)
  BY <1>1, <1>2 DEF CertInvariant, TypeOK
<1>6. Healthy => Healthy'
  BY <1>1 DEF Healthy, Has, Valid, NoServiceKeys, Complete, Verifies
<1>7. now <= now' BY <1>1, CertAssumption DEF CertInvariant, TypeOK
<1>8. StillInOrder(j)' BY <1>5, <1>6 DEF StillInOrder
<1>9. turn'[j] = 1 BY <1>1 DEF Begin, CertInvariant, JobInvariant, InLoop, Ended
<1>10. JobInvariant(j)' BY <1>5, <1>7, <1>8, <1>9 DEF JobInvariant, InLoop
<1> QED BY <1>3, <1>4, <1>10, OneIsAll

\* The tests at the top: the CA is there, or nothing is.
LEMMA AuthorityTests ==
  ASSUME CertInvariant, OneJob, NEW j \in Job, CaKept(j) \/ CaRefused(j) \/ CaMissing(j)
  PROVE  CertInvariant'
<1> USE DEF InLoop
<1>0. JobInvariant(j) /\ pc[j] = "authority" /\ turn[j] = 1 /\ begun[j].at <= now
  BY DEF CertInvariant, JobInvariant, CaKept, CaRefused, CaMissing, Running
<1>1. CASE Quits(j, "failed") \/ Quits(j, "refused") BY <1>1, QuitKeeps DEF Ended
<1>2. CASE Tests(j, "service") /\ Valid(CaCrt) /\ Has(CaKey)
  <2>1. /\ TypeOK' /\ FolderInvariant' /\ pc'[j] = "service"
        /\ file' = file /\ now' = now
        /\ turn'[j] = 1 /\ begun'[j] = begun[j]
    BY <1>0, <1>2, TestFrame DEF Running
  <2>2. StillInOrder(j) BY <1>0 DEF JobInvariant, Running
  <2>3. StillInOrder(j)'
    <3>1. Healthy => \A i \in 1..Len(Order) : InOrder(Order[i]) BY DEF Healthy, InOrder, Service
    <3>2. \A s : InOrder(s) => InOrder(s)'
      BY <2>1 DEF InOrder, Has, Complete, Verifies, Valid
    <3> QED BY <1>0, <2>1, <2>2, <3>1, <3>2 DEF StillInOrder
  <2>4. file[CaCrt] \in Cert /\ begun[j].at < file[CaCrt].until
    BY <1>0, <1>2, Contents, CertAssumption DEF Valid, CertInvariant, TypeOK
  <2>5. InServices(j)' BY <1>2, <2>1, <2>4 DEF InServices, Has, ValidThen
  <2>6. JobInvariant(j)' BY <1>0, <2>1, <2>3, <2>5 DEF JobInvariant
  <2> QED BY <2>1, <2>6, OneIsAll
<1>3. CASE CaMissing(j)
  <2>1. /\ TypeOK' /\ FolderInvariant' /\ pc'[j] = "ca.key"
        /\ file' = file /\ now' = now
        /\ turn'[j] = 1 /\ begun'[j] = begun[j]
    BY <1>0, <1>3, TestFrame DEF CaMissing, Running, Writing
  <2>2. StillInOrder(j) BY <1>0 DEF JobInvariant, Running
  <2>3. StillInOrder(j)'
    <3>1. Healthy => \A i \in 1..Len(Order) : InOrder(Order[i]) BY DEF Healthy, InOrder, Service
    <3>2. \A s : InOrder(s) => InOrder(s)'
      BY <2>1 DEF InOrder, Has, Complete, Verifies, Valid
    <3> QED BY <1>0, <2>1, <2>2, <3>1, <3>2 DEF StillInOrder
  <2>4. InAuthority(j)' BY <1>3, <2>1 DEF CaMissing, InAuthority, Has, NoServiceKeys
  <2>5. JobInvariant(j)' BY <1>0, <2>1, <2>3, <2>4 DEF JobInvariant
  <2> QED BY <2>1, <2>5, OneIsAll
<1> QED BY <1>1, <1>2, <1>3 DEF CaKept, CaRefused, CaMissing

\* The tests in the loop: the service's set is complete, or missing.
LEMMA ServiceTests ==
  ASSUME CertInvariant, OneJob, NEW j \in Job,
         ServiceKept(j) \/ ServiceRefused(j) \/ ServiceMissing(j) \/ Finish(j)
  PROVE  CertInvariant'
<1> USE DEF InLoop
<1>0. /\ JobInvariant(j) /\ pc[j] = "service" /\ begun[j].at <= now
      /\ InServices(j) /\ StillInOrder(j)
  BY DEF CertInvariant, JobInvariant, ServiceKept, ServiceRefused, ServiceMissing, Finish, Running
<1>1. CASE Quits(j, "failed") \/ Quits(j, "refused") \/ Quits(j, "ok")
  BY <1>1, QuitKeeps DEF Ended
<1>2. CASE /\ turn[j] <= Len(Order) /\ Complete(Cur(j)) /\ Verifies(Cur(j))
           /\ Advance(j) /\ UNCHANGED file
  <2>1. turn[j] \in 1..Len(Order) /\ Cur(j) \in Service
    BY <1>2, Current DEF CertInvariant
  <2>2. /\ turn' = [turn EXCEPT ![j] = @ + 1] /\ pc' = [pc EXCEPT ![j] = "service"]
        /\ UNCHANGED <<file, fresh, begun, now>>
    BY <1>2 DEF Advance, Goes
  <2>3. turn'[j] = turn[j] + 1 /\ pc'[j] = "service"
    BY <2>2 DEF CertInvariant, TypeOK
  <2>4. TypeOK'
    <3>1. turn[j] + 1 \in 1..(Len(Order) + 1) BY <2>1, CertAssumption
    <3>2. turn' \in [Job -> 1..(Len(Order) + 1)] BY <2>2, <3>1 DEF CertInvariant, TypeOK
    <3>3. pc' \in [Job -> Running \cup Ended] BY <2>2 DEF CertInvariant, TypeOK, Running
    <3> QED BY <2>2, <3>2, <3>3 DEF CertInvariant, TypeOK
  <2>5. FolderInvariant' BY <2>2 DEF CertInvariant, FolderInvariant, Has
  <2>6. Matches(Cur(j)) /\ ValidThen(j, ServiceCrt(Cur(j)))
    <3>1. Has(Root(Cur(j))) BY <1>2, <2>1, Paths DEF Complete
    <3>2. /\ file[CaCrt] \in Cert /\ file[ServiceCrt(Cur(j))] \in Cert
          /\ now < file[ServiceCrt(Cur(j))].until
      BY <1>2 DEF Verifies, Valid
    <3>3. begun[j].at < file[ServiceCrt(Cur(j))].until
      BY <1>0, <3>2, Contents, CertAssumption DEF CertInvariant, TypeOK
    <3> QED BY <2>1, <3>1, <3>2, <3>3 DEF CertInvariant, FolderInvariant, Matches, ValidThen
  <2>7. InServices(j)'
    <3>1. \A i \in 1..Len(Order) : i < turn[j] + 1 => i < turn[j] \/ Order[i] = Cur(j)
      BY <2>1, CertAssumption DEF Cur
    <3>2. \A i \in 1..Len(Order) : i < turn'[j] =>
            Matches(Order[i]) /\ ValidThen(j, ServiceCrt(Order[i]))
      BY <1>0, <2>3, <2>6, <3>1 DEF InServices
    <3> QED BY <1>0, <2>2, <3>2 DEF InServices, Has, ValidThen, Matches
  <2>8. StillInOrder(j)'
    <3>1. \A s : InOrder(s) => InOrder(s)'
      BY <2>2 DEF InOrder, Has, Complete, Verifies, Valid
    <3>2. \A i \in 1..Len(Order) : turn'[j] <= i => turn[j] <= i
      BY <2>1, <2>3, CertAssumption
    <3> QED BY <1>0, <2>2, <2>3, <3>1, <3>2 DEF StillInOrder
  <2>9. JobInvariant(j)' BY <1>0, <2>2, <2>3, <2>7, <2>8 DEF JobInvariant
  <2> QED BY <2>4, <2>5, <2>9, OneIsAll
<1>3. CASE ServiceMissing(j)
  <2>1. /\ TypeOK' /\ FolderInvariant' /\ pc'[j] = "key"
        /\ file' = file /\ now' = now
        /\ turn'[j] = turn[j] /\ begun'[j] = begun[j]
    BY <1>0, <1>3, TestFrame DEF ServiceMissing, Running, Writing
  <2>2. turn[j] \in 1..Len(Order) /\ Cur(j) \in Service /\ turn[j] <= Len(Order)
    BY <1>3, Current DEF CertInvariant, ServiceMissing
  <2>3. StillInOrder(j)'
    <3>1. \A s : InOrder(s) => InOrder(s)'
      BY <2>1 DEF InOrder, Has, Complete, Verifies, Valid
    <3>2. \A i \in 1..Len(Order) : turn[j] < i => turn[j] <= i BY <2>2, CertAssumption
    <3> QED BY <1>0, <2>1, <3>1, <3>2 DEF StillInOrder
  <2>4. InServices(j)' BY <1>0, <2>1 DEF InServices, Has, ValidThen, Matches
  <2>5. AtCurrent(j)'
    BY <1>3, <2>1, <2>2, Paths DEF ServiceMissing, Untouched, AtCurrent, Has, Cur
  <2>6. JobInvariant(j)' BY <1>0, <2>1, <2>3, <2>4, <2>5 DEF JobInvariant
  <2> QED BY <2>1, <2>6, OneIsAll
<1> QED BY <1>1, <1>2, <1>3 DEF ServiceKept, ServiceRefused, ServiceMissing, Finish

(***************************************************************************)
(* Steps that write one file                                               *)
(***************************************************************************)
LEMMA WriteFrame ==
  ASSUME CertInvariant, NEW j \in Job, NEW p \in Path, NEW c \in Content, NEW to \in Running,
         Writes(j, p, c, to), fresh' \in [Job -> Key \cup {Absent}]
  PROVE  /\ TypeOK' /\ file'[p] = c /\ \A q \in Path : q # p => file'[q] = file[q]
         /\ pc'[j] = to /\ now' = now /\ turn'[j] = turn[j] /\ begun'[j] = begun[j]
<1>1. /\ file' = [file EXCEPT ![p] = c] /\ pc' = [pc EXCEPT ![j] = to]
      /\ UNCHANGED <<turn, begun, now>>
  BY DEF Writes, Goes
<1>2. file \in [Path -> Content] /\ pc \in [Job -> Running \cup Ended]
  BY DEF CertInvariant, TypeOK
<1>3. file' \in [Path -> Content] /\ pc' \in [Job -> Running \cup Ended] BY <1>1, <1>2
<1> QED BY <1>1, <1>2, <1>3 DEF CertInvariant, TypeOK

\* What a set needs does not change when files outside the set and outside
\* the authority's key and certificate are written.
LEMMA SetFrame ==
  ASSUME NEW j \in Job, NEW s \in Service, \A q \in Folder(s) \cup {CaCrt} : file'[q] = file[q],
         now' = now, begun'[j] = begun[j]
  PROVE  /\ InOrder(s) => InOrder(s)'
         /\ Matches(s) => Matches(s)'
         /\ ValidThen(j, ServiceCrt(s)) => ValidThen(j, ServiceCrt(s))'
         /\ ValidThen(j, CaCrt) => ValidThen(j, CaCrt)'
<1>1. Folder(s) = {ServiceKey(s), ServiceCrt(s), Root(s)} BY Paths
<1> QED BY <1>1 DEF InOrder, Matches, ValidThen, Has, Complete, Verifies, Valid

LEMMA MakeCaKeyKeeps ==
  ASSUME CertInvariant, OneJob, NEW j \in Job, MakeCaKey(j)
  PROVE  CertInvariant'
<1> DEFINE k == NewKey
<1>1. pc[j] = "ca.key" /\ Key \ InUse # {} /\ Writes(j, CaKey, k, "ca.crt")
      /\ fresh' = [fresh EXCEPT ![j] = k]
  BY DEF MakeCaKey, MakeKey
<1>2. k \in Key BY <1>1 DEF NewKey
<1> HIDE DEF k
<1>3. JobInvariant(j) /\ fresh \in [Job -> Key \cup {Absent}] BY DEF CertInvariant, TypeOK
<1>4. fresh' \in [Job -> Key \cup {Absent}] /\ fresh'[j] = k BY <1>1, <1>2, <1>3
<1>5. k \in Content /\ "ca.crt" \in Running BY <1>2 DEF Content, Running, Writing
<1>6. /\ TypeOK' /\ file'[CaKey] = k /\ \A q \in Path : q # CaKey => file'[q] = file[q]
      /\ pc'[j] = "ca.crt" /\ now' = now /\ turn'[j] = turn[j] /\ begun'[j] = begun[j]
  BY <1>1, <1>4, <1>5, Paths, WriteFrame
<1>7. InAuthority(j) /\ StillInOrder(j) /\ begun[j].at <= now /\ turn[j] = 1
  BY <1>1, <1>3 DEF JobInvariant, Running, Writing, InLoop
<1>8. \A s \in Service : \A q \in Folder(s) \cup {CaCrt} : file'[q] = file[q] BY <1>6, Paths
<1>9. FolderInvariant'
  <2>1. file'[CaCrt] = Absent BY <1>7, <1>8, <1>6, Paths DEF InAuthority, Has
  <2>2. \A s \in Service : file'[ServiceCrt(s)] = Absent
    BY <1>7, <1>8, Paths DEF InAuthority, Has, NoServiceKeys
  <2> QED BY <2>1, <2>2, Contents DEF FolderInvariant
<1>10. InAuthority(j)'
  <2>1. ~Has(CaCrt)' BY <1>6, <1>7, Paths DEF InAuthority, Has
  <2>2. NoServiceKeys' BY <1>7, <1>8, Paths DEF InAuthority, Has, NoServiceKeys
  <2> QED BY <2>1, <2>2, <1>2, <1>4, <1>6 DEF InAuthority
<1>11. StillInOrder(j)'
  <2>1. \A i \in 1..Len(Order) : InOrder(Order[i]) => InOrder(Order[i])'
    BY <1>6, <1>8, SetFrame DEF Service
  <2> QED BY <1>1, <1>6, <1>7, <2>1 DEF StillInOrder
<1>12. JobInvariant(j)' BY <1>6, <1>7, <1>10, <1>11 DEF JobInvariant, InLoop
<1> QED BY <1>6, <1>9, <1>12, OneIsAll

LEMMA MakeCaCrtKeeps ==
  ASSUME CertInvariant, OneJob, NEW j \in Job, MakeCaCrt(j)
  PROVE  CertInvariant'
<1> DEFINE k == fresh[j]
           c == [key |-> k, signer |-> k, until |-> now + Life]
<1>1. pc[j] = "ca.crt" /\ Writes(j, CaCrt, c, "service") /\ fresh' = [fresh EXCEPT ![j] = Absent]
  BY DEF MakeCaCrt
<1>2. JobInvariant(j) /\ fresh \in [Job -> Key \cup {Absent}] BY DEF CertInvariant, TypeOK
<1>3. InAuthority(j) /\ StillInOrder(j) /\ begun[j].at <= now /\ turn[j] = 1
  BY <1>1, <1>2 DEF JobInvariant, Running, Writing, InLoop
<1>4. k \in Key /\ file[CaKey] = k BY <1>1, <1>3 DEF InAuthority
<1>5. now \in Nat /\ begun[j].at \in Nat /\ now + Life \in Nat /\ begun[j].at < now + Life
  BY <1>3, CertAssumption DEF CertInvariant, TypeOK
<1>6. c \in Cert /\ c.key = k /\ c.until = now + Life BY <1>4, <1>5, Contents
<1> HIDE DEF c, k
<1>7. c \in Content /\ "service" \in Running /\ fresh' \in [Job -> Key \cup {Absent}]
  BY <1>1, <1>2, <1>6 DEF Content, Running
<1>8. /\ TypeOK' /\ file'[CaCrt] = c /\ \A q \in Path : q # CaCrt => file'[q] = file[q]
      /\ pc'[j] = "service" /\ now' = now /\ turn'[j] = turn[j] /\ begun'[j] = begun[j]
  BY <1>1, <1>7, Paths, WriteFrame
<1>9. \A s \in Service : \A q \in Folder(s) : file'[q] = file[q] BY <1>8, Paths
<1>10. \A s \in Service : ~Has(ServiceCrt(s)) BY <1>3 DEF InAuthority, NoServiceKeys
<1>11. file'[CaKey] = k BY <1>4, <1>8, Paths
<1>12. FolderInvariant'
  <2>1. \A s \in Service : file'[ServiceCrt(s)] = Absent BY <1>9, <1>10, Paths DEF Has
  <2> QED BY <1>6, <1>8, <1>11, <2>1, Contents DEF FolderInvariant
<1>13. InServices(j)'
  <2>1. Has(CaKey)' BY <1>4, <1>11, Contents DEF Has
  <2>2. ValidThen(j, CaCrt)' BY <1>5, <1>6, <1>8 DEF ValidThen
  <2>3. \A i \in 1..Len(Order) : ~(i < turn'[j]) BY <1>3, <1>8, CertAssumption
  <2> QED BY <2>1, <2>2, <2>3 DEF InServices
<1>14. StillInOrder(j)'
  <2>1. ASSUME NEW i \in 1..Len(Order), InOrder(Order[i]) PROVE InOrder(Order[i])'
    <3>1. Order[i] \in Service BY DEF Service
    <3>2. \A q \in Folder(Order[i]) : ~Has(q)
      BY <1>10, <2>1, <3>1, Paths DEF InOrder, Complete
    <3> QED BY <1>9, <3>1, <3>2 DEF InOrder, Has
  <2> QED BY <1>1, <1>3, <1>8, <2>1 DEF StillInOrder
<1>15. JobInvariant(j)' BY <1>3, <1>8, <1>13, <1>14 DEF JobInvariant
<1> QED BY <1>8, <1>12, <1>15, OneIsAll

\* Writing a file of the current service other than its certificate leaves
\* alone what the loop has shown of the authority and of the services before
\* and after, because the current one is none of those shown complete.
LEMMA LoopFrame ==
  ASSUME CertInvariant, NEW j \in Job, pc[j] \in {"key", "csr", "crt", "root"},
         pc[j] \in {"key", "csr", "crt"} \/ file'[ServiceCrt(Cur(j))] = file[ServiceCrt(Cur(j))],
         \A q \in Path : q \notin Folder(Cur(j)) \cup {Request(Cur(j))} => file'[q] = file[q],
         now' = now, turn'[j] = turn[j], begun'[j] = begun[j]
  PROVE  /\ Cur(j) \in Service /\ turn[j] \in 1..Len(Order) /\ Cur(j)' = Cur(j)
         /\ file'[CaKey] = file[CaKey] /\ file'[CaCrt] = file[CaCrt]
         /\ \A s \in Service : s # Cur(j) => \A q \in Folder(s) : file'[q] = file[q]
         /\ \A i \in 1..Len(Order) : turn[j] < i /\ Order[i] # Cur(j) /\ StillInOrder(j)
              /\ begun[j].healthy /\ begun[j].at = now => InOrder(Order[i])'
<1>1. Cur(j) \in Service /\ turn[j] \in 1..Len(Order)
  BY Current DEF CertInvariant, JobInvariant, AtCurrent
<1>2. Cur(j)' = Cur(j) BY DEF Cur
<1>3. file'[CaKey] = file[CaKey] /\ file'[CaCrt] = file[CaCrt] BY <1>1, Paths
<1>4. ASSUME NEW s \in Service, s # Cur(j), NEW q \in Folder(s) PROVE file'[q] = file[q]
  BY <1>1, <1>4, Paths
<1>5. ASSUME NEW i \in 1..Len(Order), turn[j] < i, Order[i] # Cur(j), StillInOrder(j),
             begun[j].healthy, begun[j].at = now
      PROVE  InOrder(Order[i])'
  <2>1. Order[i] \in Service BY DEF Service
  <2>2. InOrder(Order[i]) BY <1>5 DEF StillInOrder
  <2> QED BY <1>3, <1>4, <1>5, <2>1, <2>2, SetFrame
<1> QED BY <1>1, <1>2, <1>3, <1>4, <1>5

\* The services before the current one keep their sets; if the current one
\* occurred before, it is complete, so nothing of it is being written.
LEMMA LoopServices ==
  ASSUME CertInvariant, NEW j \in Job, pc[j] \in {"key", "csr", "crt"},
         \A q \in Path : q \notin Folder(Cur(j)) \cup {Request(Cur(j))} => file'[q] = file[q],
         now' = now, turn'[j] = turn[j], begun'[j] = begun[j]
  PROVE  InServices(j)'
<1>1. JobInvariant(j) BY DEF CertInvariant
<1>2. InServices(j) /\ AtCurrent(j) BY <1>1 DEF JobInvariant, InLoop
<1>3. /\ Cur(j) \in Service /\ turn[j] \in 1..Len(Order) /\ Cur(j)' = Cur(j)
      /\ file'[CaKey] = file[CaKey] /\ file'[CaCrt] = file[CaCrt]
      /\ \A s \in Service : s # Cur(j) => \A q \in Folder(s) : file'[q] = file[q]
  BY LoopFrame
<1>4. ASSUME NEW i \in 1..Len(Order), i < turn[j]
      PROVE  Matches(Order[i])' /\ ValidThen(j, ServiceCrt(Order[i]))'
  <2>1. Order[i] \in Service BY DEF Service
  <2>2. Matches(Order[i]) /\ ValidThen(j, ServiceCrt(Order[i])) BY <1>2, <1>4 DEF InServices
  <2>3. Order[i] # Cur(j) BY <1>2, <2>2, Contents DEF AtCurrent, Matches, Has
  <2> QED BY <1>3, <2>1, <2>2, <2>3, SetFrame
<1>5. Has(CaKey)' /\ ValidThen(j, CaCrt)' BY <1>2, <1>3 DEF InServices, Has, ValidThen
<1> QED BY <1>4, <1>5 DEF InServices

LEMMA MakeServiceKeyKeeps ==
  ASSUME CertInvariant, OneJob, NEW j \in Job, MakeServiceKey(j)
  PROVE  CertInvariant'
<1> DEFINE k == NewKey
           s == Cur(j)
<1>1. pc[j] = "key" /\ Key \ InUse # {} /\ Writes(j, ServiceKey(s), k, "csr")
      /\ fresh' = [fresh EXCEPT ![j] = k]
  BY DEF MakeServiceKey, MakeKey
<1>2. k \in Key BY <1>1 DEF NewKey
<1> HIDE DEF k
<1>3. JobInvariant(j) /\ fresh \in [Job -> Key \cup {Absent}] BY DEF CertInvariant, TypeOK
<1>4. fresh' \in [Job -> Key \cup {Absent}] /\ fresh'[j] = k BY <1>1, <1>2, <1>3
<1>5. k \in Content /\ "csr" \in Running BY <1>2 DEF Content, Running, Writing
<1>6. AtCurrent(j) /\ StillInOrder(j) /\ begun[j].at <= now /\ turn[j] <= Len(Order)
  BY <1>1, <1>3 DEF JobInvariant, Running, Writing, AtCurrent
<1>7. s \in Service BY <1>6, Current DEF CertInvariant
<1>8. /\ TypeOK' /\ file'[ServiceKey(s)] = k
      /\ \A q \in Path : q # ServiceKey(s) => file'[q] = file[q]
      /\ pc'[j] = "csr" /\ now' = now /\ turn'[j] = turn[j] /\ begun'[j] = begun[j]
  BY <1>1, <1>4, <1>5, <1>7, Paths, WriteFrame
<1>9. \A q \in Path : q \notin Folder(s) \cup {Request(s)} => file'[q] = file[q]
  BY <1>7, <1>8, Paths
<1>10. InServices(j)' BY <1>1, <1>8, <1>9, LoopServices
<1>11. /\ Cur(j)' = s /\ file'[CaKey] = file[CaKey] /\ file'[CaCrt] = file[CaCrt]
       /\ \A t \in Service : t # s => \A q \in Folder(t) : file'[q] = file[q]
       /\ \A i \in 1..Len(Order) : turn[j] < i /\ Order[i] # s /\ StillInOrder(j)
            /\ begun[j].healthy /\ begun[j].at = now => InOrder(Order[i])'
  BY <1>1, <1>8, <1>9, LoopFrame
<1>12. file'[ServiceCrt(s)] = Absent
  BY <1>1, <1>6, <1>7, <1>8, Paths DEF AtCurrent, Has
<1> HIDE DEF s
<1>13. FolderInvariant'
  <2>1. FolderInvariant BY DEF CertInvariant
  <2>2. ASSUME NEW t \in Service, t # s
        PROVE  file'[ServiceKey(t)] = file[ServiceKey(t)] /\ file'[ServiceCrt(t)] = file[ServiceCrt(t)]
    BY <1>11, <2>2, Paths
  <2> QED BY <1>11, <1>12, <2>1, <2>2, Contents DEF FolderInvariant, Has
<1>14. AtCurrent(j)'
  BY <1>2, <1>4, <1>6, <1>8, <1>11, <1>12 DEF AtCurrent, Has
<1>15. StillInOrder(j)' BY <1>6, <1>8, <1>11 DEF StillInOrder
<1>16. JobInvariant(j)' BY <1>6, <1>8, <1>10, <1>14, <1>15 DEF JobInvariant, InLoop
<1> QED BY <1>8, <1>13, <1>16, OneIsAll

LEMMA MakeRequestKeeps ==
  ASSUME CertInvariant, OneJob, NEW j \in Job, MakeRequest(j)
  PROVE  CertInvariant'
<1> DEFINE k == fresh[j]
           s == Cur(j)
<1>1. pc[j] = "csr" /\ Writes(j, Request(s), k, "crt") /\ fresh' = [fresh EXCEPT ![j] = Absent]
  BY DEF MakeRequest
<1>2. JobInvariant(j) /\ fresh' \in [Job -> Key \cup {Absent}] BY <1>1 DEF CertInvariant, TypeOK
<1>3. AtCurrent(j) /\ StillInOrder(j) /\ begun[j].at <= now /\ turn[j] <= Len(Order)
  BY <1>1, <1>2 DEF JobInvariant, Running, Writing, AtCurrent
<1>4. k \in Key /\ file[ServiceKey(s)] = k BY <1>1, <1>3 DEF AtCurrent
<1>5. k \in Content /\ "crt" \in Running BY <1>4 DEF Content, Running, Writing
<1>6. s \in Service BY <1>3, Current DEF CertInvariant
<1>7. /\ TypeOK' /\ file'[Request(s)] = k
      /\ \A q \in Path : q # Request(s) => file'[q] = file[q]
      /\ pc'[j] = "crt" /\ now' = now /\ turn'[j] = turn[j] /\ begun'[j] = begun[j]
  BY <1>1, <1>2, <1>5, <1>6, Paths, WriteFrame
<1>8. \A q \in Path : q \notin Folder(s) \cup {Request(s)} => file'[q] = file[q]
  BY <1>6, <1>7, Paths
<1>9. InServices(j)' BY <1>1, <1>7, <1>8, LoopServices
<1>10. /\ Cur(j)' = s /\ file'[CaKey] = file[CaKey] /\ file'[CaCrt] = file[CaCrt]
       /\ \A t \in Service : t # s => \A q \in Folder(t) : file'[q] = file[q]
       /\ \A i \in 1..Len(Order) : turn[j] < i /\ Order[i] # s /\ StillInOrder(j)
            /\ begun[j].healthy /\ begun[j].at = now => InOrder(Order[i])'
  BY <1>1, <1>7, <1>8, LoopFrame
<1>11. \A q \in Folder(s) : file'[q] = file[q] BY <1>6, <1>7, Paths
<1>12. file'[ServiceCrt(s)] = Absent /\ file'[ServiceKey(s)] = k
  BY <1>1, <1>3, <1>4, <1>6, <1>11, Paths DEF AtCurrent, Has
<1> HIDE DEF s, k
<1>13. FolderInvariant'
  <2>1. FolderInvariant BY DEF CertInvariant
  <2>2. ASSUME NEW t \in Service, t # s
        PROVE  file'[ServiceKey(t)] = file[ServiceKey(t)] /\ file'[ServiceCrt(t)] = file[ServiceCrt(t)]
    BY <1>10, <2>2, Paths
  <2> QED BY <1>10, <1>12, <2>1, <2>2, Contents DEF FolderInvariant, Has
<1>14. AtCurrent(j)' BY <1>3, <1>4, <1>7, <1>10, <1>12 DEF AtCurrent, Has
<1>15. StillInOrder(j)' BY <1>3, <1>7, <1>10 DEF StillInOrder
<1>16. JobInvariant(j)' BY <1>3, <1>7, <1>9, <1>14, <1>15 DEF JobInvariant, InLoop
<1> QED BY <1>7, <1>13, <1>16, OneIsAll

\* The CA key and certificate in the folder always belong together, so
\* openssl never refuses to sign.
LEMMA SignPossible ==
  ASSUME CertInvariant, NEW j \in Job, pc[j] = "crt"
  PROVE  CanSign(Cur(j))
<1>1. InServices(j) /\ AtCurrent(j)
  BY DEF CertInvariant, JobInvariant, InLoop
<1> QED BY <1>1 DEF InServices, AtCurrent, ValidThen, CanSign, CertInvariant, FolderInvariant

LEMMA SignKeeps ==
  ASSUME CertInvariant, OneJob, NEW j \in Job, Sign(j)
  PROVE  CertInvariant'
<1> DEFINE s == Cur(j)
           c == [key |-> file[Request(s)], signer |-> file[CaKey], until |-> now + Life]
<1>0. pc[j] = "crt" BY DEF Sign
<1>1. CanSign(s) /\ Writes(j, ServiceCrt(s), c, "root") /\ UNCHANGED fresh
  BY <1>0, SignPossible DEF Sign
<1>2. JobInvariant(j) /\ fresh' \in [Job -> Key \cup {Absent}] BY <1>1 DEF CertInvariant, TypeOK
<1>3. AtCurrent(j) /\ StillInOrder(j) /\ begun[j].at <= now /\ turn[j] <= Len(Order)
  BY <1>0, <1>2 DEF JobInvariant, Running, Writing, AtCurrent
<1>4. now \in Nat /\ begun[j].at \in Nat /\ now + Life \in Nat /\ begun[j].at < now + Life
  BY <1>3, CertAssumption DEF CertInvariant, TypeOK
<1>5. file[Request(s)] \in Key /\ file[CaCrt] \in Cert /\ file[CaKey] = file[CaCrt].key
      /\ file[CaKey] \in Key
  BY <1>1, Contents DEF CanSign
<1>6. /\ c \in Cert /\ c.key = file[Request(s)] /\ c.signer = file[CaKey]
      /\ c.until = now + Life
  BY <1>4, <1>5, Contents
<1>7. c \in Content /\ "root" \in Running BY <1>6 DEF Content, Running, Writing
<1>8. s \in Service BY <1>3, Current DEF CertInvariant
<1> HIDE DEF c
<1>9. /\ TypeOK' /\ file'[ServiceCrt(s)] = c
      /\ \A q \in Path : q # ServiceCrt(s) => file'[q] = file[q]
      /\ pc'[j] = "root" /\ now' = now /\ turn'[j] = turn[j] /\ begun'[j] = begun[j]
  BY <1>1, <1>2, <1>7, <1>8, Paths, WriteFrame
<1>10. \A q \in Path : q \notin Folder(s) \cup {Request(s)} => file'[q] = file[q]
  BY <1>8, <1>9, Paths
<1>11. InServices(j)' BY <1>0, <1>9, <1>10, LoopServices
<1>12. /\ Cur(j)' = s /\ file'[CaKey] = file[CaKey] /\ file'[CaCrt] = file[CaCrt]
       /\ \A t \in Service : t # s => \A q \in Folder(t) : file'[q] = file[q]
       /\ \A i \in 1..Len(Order) : turn[j] < i /\ Order[i] # s /\ StillInOrder(j)
            /\ begun[j].healthy /\ begun[j].at = now => InOrder(Order[i])'
  BY <1>0, <1>9, <1>10, LoopFrame
<1>13. file'[ServiceKey(s)] = c.key
  BY <1>0, <1>3, <1>6, <1>8, <1>9, Paths DEF AtCurrent
<1> HIDE DEF s
<1>14. FolderInvariant'
  <2>1. FolderInvariant BY DEF CertInvariant
  <2>2. ASSUME NEW t \in Service, t # s
        PROVE  file'[ServiceKey(t)] = file[ServiceKey(t)] /\ file'[ServiceCrt(t)] = file[ServiceCrt(t)]
    BY <1>12, <2>2, Paths
  <2>3. ASSUME NEW t \in Service, file'[ServiceCrt(t)] \in Cert
        PROVE  /\ file'[ServiceKey(t)] = file'[ServiceCrt(t)].key
               /\ file'[CaCrt] \in Cert => file'[ServiceCrt(t)].signer = file'[CaCrt].key
    <3>1. CASE t = s BY <3>1, <1>5, <1>6, <1>9, <1>12, <1>13
    <3>2. CASE t # s BY <3>2, <1>12, <2>1, <2>2, <2>3 DEF FolderInvariant
    <3> QED BY <3>1, <3>2
  <2> QED BY <1>12, <2>1, <2>3 DEF FolderInvariant, Has
<1>15. AtCurrent(j)'
  BY <1>3, <1>4, <1>6, <1>9, <1>12 DEF AtCurrent, ValidThen
<1>16. StillInOrder(j)' BY <1>0, <1>3, <1>9, <1>12 DEF StillInOrder
<1>17. JobInvariant(j)' BY <1>3, <1>9, <1>11, <1>15, <1>16 DEF JobInvariant, InLoop
<1> QED BY <1>9, <1>14, <1>17, OneIsAll

\* The copy completes the set of the current service, wherever in the order
\* that service occurs.
LEMMA CopyRootKeeps ==
  ASSUME CertInvariant, OneJob, NEW j \in Job, CopyRoot(j)
  PROVE  CertInvariant'
<1> DEFINE c == file[CaCrt]
<1>0. pc[j] = "root" /\ turn[j] <= Len(Order) /\ TypeOK
  BY DEF CopyRoot, CertInvariant, JobInvariant, AtCurrent
<1>s. PICK s \in Service : s = Cur(j) BY <1>0, Current
<1>1. /\ pc[j] = "root" /\ file' = [file EXCEPT ![Root(s)] = c]
      /\ pc' = [pc EXCEPT ![j] = "service"] /\ turn' = [turn EXCEPT ![j] = @ + 1]
      /\ UNCHANGED <<fresh, begun, now>>
  BY <1>s DEF CopyRoot, Advance, Goes
<1>2. JobInvariant(j) BY DEF CertInvariant
<1>3. /\ AtCurrent(j) /\ InServices(j) /\ StillInOrder(j) /\ begun[j].at <= now
      /\ turn[j] <= Len(Order)
  BY <1>1, <1>2 DEF JobInvariant, Running, Writing, AtCurrent, InLoop
<1>4. turn[j] \in 1..Len(Order) BY <1>0, Current
<1>5. c \in Cert /\ c \in Content /\ file \in [Path -> Content]
  BY <1>3 DEF InServices, ValidThen, Content, CertInvariant, TypeOK
<1>6. /\ file' \in [Path -> Content] /\ file'[Root(s)] = c
      /\ \A q \in Path : q # Root(s) => file'[q] = file[q]
  BY <1>1, <1>4, <1>5, Paths
<1>7. pc'[j] = "service" /\ turn'[j] = turn[j] + 1 /\ begun'[j] = begun[j] /\ now' = now
  BY <1>1 DEF CertInvariant, TypeOK
<1>8. TypeOK'
  <2>1. turn[j] + 1 \in 1..(Len(Order) + 1) BY <1>4, CertAssumption
  <2>2. turn' \in [Job -> 1..(Len(Order) + 1)] BY <1>1, <2>1 DEF CertInvariant, TypeOK
  <2>3. pc' \in [Job -> Running \cup Ended] BY <1>1 DEF CertInvariant, TypeOK, Running
  <2> QED BY <1>1, <1>6, <2>2, <2>3 DEF CertInvariant, TypeOK
<1> HIDE DEF c
<1>9. /\ file'[CaKey] = file[CaKey] /\ file'[CaCrt] = file[CaCrt]
      /\ file'[ServiceCrt(s)] = file[ServiceCrt(s)] /\ file'[ServiceKey(s)] = file[ServiceKey(s)]
      /\ \A t \in Service : t # s => \A q \in Folder(t) : file'[q] = file[q]
  <2>1. \A t \in Service : t # s => Root(s) \notin Folder(t) BY <1>4, Paths
  <2>2. \A t \in Service : \A q \in Folder(t) : q \in Path BY Paths
  <2> QED BY <1>4, <1>6, <2>1, <2>2, Paths
<1>10. ValidThen(j, ServiceCrt(s)) BY <1>1, <1>3, <1>s DEF AtCurrent
<1>11. FolderInvariant BY DEF CertInvariant
<1>12. /\ file[ServiceKey(s)] = file[ServiceCrt(s)].key
       /\ file[ServiceCrt(s)].signer = file[CaCrt].key
  BY <1>3, <1>4, <1>10, <1>11 DEF FolderInvariant, ValidThen, InServices
<1>13. Matches(s)' /\ ValidThen(j, ServiceCrt(s))'
  <2>1. Has(Root(s))' BY <1>5, <1>6, Contents DEF Has
  <2>2. file[CaCrt] \in Cert BY <1>3 DEF InServices, ValidThen
  <2>3. file[ServiceCrt(s)] \in Cert /\ begun[j].at < file[ServiceCrt(s)].until
    BY <1>10 DEF ValidThen
  <2> QED BY <1>7, <1>9, <1>12, <2>1, <2>2, <2>3 DEF Matches, ValidThen
<1>14. \A t \in Service : t # s =>
         /\ InOrder(t) => InOrder(t)'
         /\ Matches(t) => Matches(t)'
         /\ ValidThen(j, ServiceCrt(t)) => ValidThen(j, ServiceCrt(t))'
  BY <1>7, <1>9, SetFrame
<1>15. FolderInvariant'
  <2>1. ASSUME NEW t \in Service
        PROVE  file'[ServiceKey(t)] = file[ServiceKey(t)] /\ file'[ServiceCrt(t)] = file[ServiceCrt(t)]
    BY <1>9, Paths
  <2> QED BY <1>9, <1>11, <2>1 DEF FolderInvariant, Has
<1>16. InServices(j)'
  <2>1. ASSUME NEW i \in 1..Len(Order), i < turn'[j]
        PROVE  Matches(Order[i])' /\ ValidThen(j, ServiceCrt(Order[i]))'
    <3>1. Order[i] \in Service BY DEF Service
    <3>2. CASE Order[i] = s BY <1>13, <3>2
    <3>3. CASE Order[i] # s
      <4>1. i < turn[j]
        BY <1>4, <1>7, <1>s, <2>1, <3>3, CertAssumption DEF Cur
      <4> QED BY <1>3, <1>14, <3>1, <3>3, <4>1 DEF InServices
    <3> QED BY <3>2, <3>3
  <2>2. Has(CaKey)' /\ ValidThen(j, CaCrt)'
    BY <1>3, <1>7, <1>9 DEF InServices, Has, ValidThen
  <2> QED BY <2>1, <2>2 DEF InServices
<1>17. ASSUME begun[j].at = now PROVE InOrder(s)'
  <2>1. Complete(s)'
    <3>1. file[ServiceKey(s)] \in Key BY <1>10, <1>12, Contents DEF ValidThen
    <3>2. Has(ServiceKey(s))' /\ Has(ServiceCrt(s))' /\ Has(Root(s))'
      BY <1>5, <1>6, <1>9, <1>10, <3>1, Contents DEF Has, ValidThen
    <3> QED BY <3>2, Paths DEF Complete
  <2>2. Verifies(s)'
    BY <1>3, <1>7, <1>9, <1>10, <1>12, <1>17 DEF Verifies, Valid, InServices, ValidThen
  <2> QED BY <2>1, <2>2 DEF InOrder
<1>18. StillInOrder(j)'
  <2>1. SUFFICES ASSUME begun[j].healthy, begun[j].at = now, NEW i \in 1..Len(Order), turn[j] + 1 <= i
                 PROVE  InOrder(Order[i])'
    BY <1>7 DEF StillInOrder
  <2>2. Order[i] \in Service BY DEF Service
  <2>3. turn[j] < i BY <1>4, <2>1, CertAssumption
  <2>4. CASE Order[i] = s BY <1>17, <2>1, <2>4
  <2>5. CASE Order[i] # s BY <1>1, <1>3, <1>14, <1>s, <2>1, <2>2, <2>3, <2>5 DEF StillInOrder
  <2> QED BY <2>4, <2>5
<1>19. JobInvariant(j)' BY <1>3, <1>7, <1>16, <1>18 DEF JobInvariant, InLoop
<1> QED BY <1>8, <1>15, <1>19, OneIsAll

(***************************************************************************)
(* The theorems                                                            *)
(***************************************************************************)
\* Every step keeps the invariant: one lemma per kind of step.
LEMMA NextKeeps == OneJob /\ CertInvariant /\ [Next]_vars => CertInvariant'
<1> SUFFICES ASSUME OneJob, CertInvariant, [Next]_vars PROVE CertInvariant' OBVIOUS
<1>1. ASSUME NEW j \in Job, Begin(j) PROVE CertInvariant' BY <1>1, BeginKeeps
<1>2. ASSUME NEW j \in Job, Authority(j) PROVE CertInvariant'
  BY <1>2, AuthorityTests, MakeCaKeyKeeps, MakeCaCrtKeeps DEF Authority
<1>3. ASSUME NEW j \in Job, Services(j) PROVE CertInvariant'
  BY <1>3, ServiceTests, MakeServiceKeyKeeps, MakeRequestKeeps, SignKeeps, CopyRootKeeps
  DEF Services
<1>4. ASSUME NEW j \in Job, Stop(j) PROVE CertInvariant' BY <1>4, StopKeeps
<1>5. ASSUME NEW d \in Service \cup {"authority"}, Remove(d) PROVE CertInvariant'
  BY <1>5, RemoveKeeps
<1>6. CASE Tick BY <1>6, TickKeeps
<1>7. CASE UNCHANGED vars
  <2>1. UNCHANGED <<file, pc, turn, fresh, begun, now>> BY <1>7 DEF vars
  <2>2. TypeOK' BY <2>1 DEF CertInvariant, TypeOK
  <2>3. FolderInvariant' BY <2>1 DEF CertInvariant, FolderInvariant, Has
  <2>4. ASSUME NEW j \in Job PROVE JobInvariant(j)'
    <3>1. JobInvariant(j) BY DEF CertInvariant
    <3> QED BY <2>1, <3>1 DEF JobInvariant, StillInOrder, InOrder, InAuthority, InServices,
         AtCurrent, Healthy, Has, Complete, Verifies, Valid, NoServiceKeys, ValidThen, Matches, Cur
  <2> QED BY <2>2, <2>3, <2>4 DEF CertInvariant
<1> QED BY <1>1, <1>2, <1>3, <1>4, <1>5, <1>6, <1>7 DEF Next

\* With one job at a time the folder and the job are always as the
\* invariant says (grpc/init-certs.sh as a whole).
THEOREM CertInvariantHolds == ASSUME OneJob PROVE Spec => []CertInvariant
<1>1. CertInvariant /\ [Next]_vars => CertInvariant' BY NextKeeps
<1> QED BY <1>1, InitCert, PTL DEF Spec

\* Types of the folder's files and of the job's variables.
THEOREM CertTypes == ASSUME OneJob PROVE Spec => []TypeOK
<1>1. CertInvariant => TypeOK BY DEF CertInvariant
<1> QED BY <1>1, CertInvariantHolds, PTL

\* Only the last step of the loop completes a run, and by then the loop has
\* shown or written every set.
LEMMA Completion ==
  ASSUME CertInvariant, [Next]_vars, NEW j \in Job, Completes(j)
  PROVE  Finish(j)
<1>1. pc \in [Job -> Running \cup Ended] BY DEF CertInvariant, TypeOK
<1>2. pc'[j] = "ok" /\ pc[j] # "ok" BY DEF Completes
<1>3. ASSUME NEW i \in Job, NEW to, Goes(i, to), to # "ok" PROVE FALSE
  BY <1>1, <1>2, <1>3 DEF Goes
<1>4. ASSUME NEW i \in Job, Authority(i) PROVE FALSE
  BY <1>3, <1>4 DEF Authority, CaKept, CaRefused, CaMissing, MakeCaKey, MakeKey, MakeCaCrt,
     Tests, Quits, Ends, Writes
<1>5. ASSUME NEW i \in Job, Services(i) PROVE i = j /\ Finish(j)
  <2>1. Finish(i)
    BY <1>3, <1>5 DEF Services, ServiceKept, ServiceRefused, ServiceMissing, MakeServiceKey,
       MakeKey, MakeRequest, Sign, CopyRoot, Advance, Tests, Quits, Ends, Writes
  <2>2. i = j BY <1>1, <1>2, <2>1 DEF Finish, Quits, Ends, Goes
  <2> QED BY <2>1, <2>2
<1>6. ASSUME NEW i \in Job, Begin(i) PROVE FALSE BY <1>3, <1>6 DEF Begin
<1>7. ASSUME NEW i \in Job, Stop(i) PROVE FALSE BY <1>3, <1>7 DEF Stop, Ends
<1>8. pc' # pc BY <1>2
<1>9. ~Tick /\ ~UNCHANGED vars /\ ~(\E d \in Service \cup {"authority"} : Remove(d))
  BY <1>8 DEF Tick, vars, Remove
<1> QED BY <1>4, <1>5, <1>6, <1>7, <1>9 DEF Next

LEMMA CompletedSets ==
  ASSUME CertInvariant, [Next]_vars, NEW j \in Job, Completes(j), NEW s \in Service
  PROVE  Matches(s) /\ ValidThen(j, CaCrt) /\ ValidThen(j, ServiceCrt(s))
<1>1. Finish(j) BY Completion
<1>2. pc[j] = "service" /\ turn[j] > Len(Order) BY <1>1 DEF Finish
<1>3. InServices(j) BY <1>2 DEF CertInvariant, JobInvariant, InLoop
<1>4. PICK i \in 1..Len(Order) : Order[i] = s BY DEF Service
<1>5. turn[j] \in Nat /\ Len(Order) \in Nat BY CertAssumption DEF CertInvariant, TypeOK
<1>6. i < turn[j] BY <1>2, <1>4, <1>5
<1> QED BY <1>3, <1>4, <1>6 DEF InServices

\* A completed run leaves every service a certificate of its own key, signed
\* by the CA in the folder: what Asset, Banking and Work start with.
THEOREM SetsMatch == ASSUME OneJob PROVE Spec => CompletedSetsMatch
<1>1. CertInvariant /\ [Next]_vars =>
        [\A j \in Job : Completes(j) => \A s \in Service : Matches(s)]_vars
  BY CompletedSets
<1> QED BY <1>1, CertInvariantHolds, PTL DEF CompletedSetsMatch, Spec

\* A completed run leaves no certificate that had expired when it began.
THEOREM SetsValid == ASSUME OneJob PROVE Spec => CompletedSetsValid
<1>1. CertInvariant /\ [Next]_vars =>
        [\A j \in Job : Completes(j) =>
           \A s \in Service : \A p \in {CaCrt, ServiceCrt(s)} :
             file[p] \in Cert /\ begun[j].at < file[p].until]_vars
  BY CompletedSets DEF ValidThen
<1> QED BY <1>1, CertInvariantHolds, PTL DEF CompletedSetsValid, Spec

\* The file a job is about to write is missing, unless it is a signing
\* request or a root; this is what the tests are for.
LEMMA TargetMissing ==
  ASSUME CertInvariant, NEW j \in Job, pc[j] \in Writing
  PROVE  Target(j) \in Path /\ (Target(j) \in Precious => ~Has(Target(j)))
<1>1. JobInvariant(j) BY DEF CertInvariant
<1>2. /\ pc[j] \in {"ca.key", "ca.crt"} => InAuthority(j)
      /\ pc[j] \in {"key", "csr", "crt", "root"} => AtCurrent(j) /\ Cur(j) \in Service
  BY <1>1, Current DEF JobInvariant, AtCurrent, CertInvariant
<1>3. /\ pc[j] = "ca.key" => Target(j) = CaKey
      /\ pc[j] = "ca.crt" => Target(j) = CaCrt
      /\ pc[j] = "key" => Target(j) = ServiceKey(Cur(j))
      /\ pc[j] = "csr" => Target(j) = Request(Cur(j))
      /\ pc[j] = "crt" => Target(j) = ServiceCrt(Cur(j))
      /\ pc[j] = "root" => Target(j) = Root(Cur(j))
  BY DEF Target
<1>4. \A s \in Service : Request(s) \notin Precious /\ Root(s) \notin Precious
  <2>1. ASSUME NEW s \in Service, NEW t \in Service
        PROVE  {Request(s), Root(s)} \cap {ServiceKey(t), ServiceCrt(t)} = {}
    BY DEF Request, Root, ServiceKey, ServiceCrt
  <2> QED BY <2>1, Paths DEF Precious
<1>5. CASE pc[j] \in {"ca.key", "ca.crt"} BY <1>2, <1>3, <1>5, Paths DEF InAuthority
<1>6. CASE pc[j] \in {"key", "crt"} BY <1>2, <1>3, <1>6, Paths DEF AtCurrent
<1>7. CASE pc[j] \in {"csr", "root"} BY <1>2, <1>3, <1>4, <1>7, Paths
<1> QED BY <1>5, <1>6, <1>7 DEF Writing

LEMMA WritesTarget ==
  ASSUME CertInvariant, NEW j \in Job, Authority(j) \/ Services(j) \/ Stop(j)
  PROVE  \/ file' = file
         \/ pc[j] \in Writing /\ \A q \in Path : q # Target(j) => file'[q] = file[q]
<1> USE DEF Writing
<1>0. file \in [Path -> Content] BY DEF CertInvariant, TypeOK
<1>1. CASE MakeCaKey(j) \/ MakeCaCrt(j) \/ MakeServiceKey(j) \/ MakeRequest(j)
  <2>1. \/ pc[j] = "ca.key" /\ file' = [file EXCEPT ![CaKey] = NewKey]
        \/ pc[j] = "ca.crt" /\ file' = [file EXCEPT ![CaCrt] =
             [key |-> fresh[j], signer |-> fresh[j], until |-> now + Life]]
        \/ pc[j] = "key" /\ file' = [file EXCEPT ![ServiceKey(Cur(j))] = NewKey]
        \/ pc[j] = "csr" /\ file' = [file EXCEPT ![Request(Cur(j))] = fresh[j]]
    BY <1>1 DEF MakeCaKey, MakeCaCrt, MakeServiceKey, MakeRequest, MakeKey, Writes
  <2>2. /\ pc[j] = "ca.key" => Target(j) = CaKey
        /\ pc[j] = "ca.crt" => Target(j) = CaCrt
        /\ pc[j] = "key" => Target(j) = ServiceKey(Cur(j))
        /\ pc[j] = "csr" => Target(j) = Request(Cur(j))
    BY DEF Target
  <2>3. CASE pc[j] = "ca.key" BY <1>0, <2>1, <2>2, <2>3
  <2>4. CASE pc[j] = "ca.crt" BY <1>0, <2>1, <2>2, <2>4
  <2>5. CASE pc[j] = "key" BY <1>0, <2>1, <2>2, <2>5
  <2>6. CASE pc[j] = "csr" BY <1>0, <2>1, <2>2, <2>6
  <2> QED BY <2>1, <2>3, <2>4, <2>5, <2>6
<1>2. CASE Sign(j)
  <2>1. CASE CanSign(Cur(j))
    <3>1. PICK c : pc[j] = "crt" /\ file' = [file EXCEPT ![ServiceCrt(Cur(j))] = c]
      BY <1>2, <2>1 DEF Sign, Writes
    <3>2. Target(j) = ServiceCrt(Cur(j)) BY <3>1 DEF Target
    <3> QED BY <1>0, <3>1, <3>2
  <2>2. CASE ~CanSign(Cur(j)) BY <1>2, <2>2 DEF Sign, Quits
  <2> QED BY <2>1, <2>2
<1>3. CASE CopyRoot(j)
  <2>1. pc[j] = "root" /\ file' = [file EXCEPT ![Root(Cur(j))] = file[CaCrt]]
    BY <1>3 DEF CopyRoot
  <2>2. Target(j) = Root(Cur(j)) BY <2>1 DEF Target
  <2> QED BY <1>0, <2>1, <2>2
<1>4. CASE Stop(j) BY <1>0, <1>4 DEF Stop
<1>5. CASE CaKept(j) \/ CaRefused(j) \/ CaMissing(j) \/ ServiceKept(j) \/ ServiceRefused(j)
           \/ ServiceMissing(j) \/ Finish(j)
  BY <1>5 DEF CaKept, CaRefused, CaMissing, ServiceKept, ServiceRefused, ServiceMissing, Finish,
     Tests, Quits
<1> QED BY <1>1, <1>2, <1>3, <1>4, <1>5 DEF Authority, Services

\* "keys will not be overwritten": no step of the job, stopped or not,
\* changes a private key or a certificate that is there.
THEOREM KeysKept == ASSUME OneJob PROVE Spec => NeverOverwritten
<1>1. ASSUME CertInvariant, [Next]_vars, NEW p \in Precious, Has(p)
      PROVE  file'[p] \in {file[p], Absent}
  <2>1. p \in Path BY Paths DEF Precious
  <2>2. ASSUME NEW j \in Job, Authority(j) \/ Services(j) \/ Stop(j) PROVE file'[p] = file[p]
    BY <1>1, <2>1, <2>2, WritesTarget, TargetMissing
  <2>3. ASSUME NEW d \in Service \cup {"authority"}, Remove(d)
        PROVE  file'[p] \in {file[p], Absent}
    BY <2>1, <2>3 DEF Remove
  <2>4. (\E j \in Job : Begin(j)) \/ Tick \/ UNCHANGED vars => file' = file
    BY DEF Begin, Tick, vars
  <2> QED BY <1>1, <2>2, <2>3, <2>4 DEF Next
<1>2. CertInvariant /\ [Next]_vars =>
        [\A p \in Precious : Has(p) => file'[p] \in {file[p], Absent}]_vars
  BY <1>1
<1> QED BY <1>2, CertInvariantHolds, PTL DEF NeverOverwritten, Spec

\* A folder in order is never refused, unless the clock moved during the run.
THEOREM OrderNotRefused == ASSUME OneJob PROVE Spec => RefusesOnlyBroken
<1>1. ASSUME CertInvariant, [Next]_vars, NEW j \in Job, Refuses(j), begun[j].healthy,
             ~(begun[j].at < now)
      PROVE  FALSE
  <2>1. begun[j].at \in Nat /\ now \in Nat /\ turn[j] \in Nat /\ Len(Order) \in Nat
    BY <1>1, CertAssumption DEF CertInvariant, TypeOK
  <2>2. JobInvariant(j) /\ pc \in [Job -> Running \cup Ended] BY <1>1 DEF CertInvariant, TypeOK
  <2>3. pc[j] \in Running /\ pc'[j] \in {"refused", "failed"} BY <1>1 DEF Refuses
  <2>4. begun[j].at = now /\ StillInOrder(j) BY <1>1, <2>1, <2>2, <2>3 DEF JobInvariant
  <2>5. pc[j] = "authority" => Healthy BY <1>1, <2>4 DEF StillInOrder
  <2>6. pc[j] = "service" /\ turn[j] <= Len(Order) => InOrder(Cur(j))
    BY <1>1, <2>4, Current DEF StillInOrder, Cur, CertInvariant
  <2>7. pc[j] = "service" /\ turn[j] <= Len(Order) => Cur(j) \in Service
    BY Current, <1>1 DEF CertInvariant
  <2>8. ASSUME NEW i \in Job, NEW to, Goes(i, to), to \notin {"refused", "failed"} PROVE FALSE
    <3>1. i # j => pc'[j] = pc[j] BY <2>2, <2>8 DEF Goes
    <3>2. i = j => pc'[j] = to BY <2>2, <2>8 DEF Goes
    <3> QED BY <2>3, <2>8, <3>1, <3>2 DEF Running, Writing
  <2>9. ASSUME NEW i \in Job, i # j, NEW to, Goes(i, to) PROVE FALSE
    <3>1. pc'[j] = pc[j] BY <2>2, <2>9 DEF Goes
    <3> QED BY <2>3, <3>1 DEF Running, Writing
  <2>10. ~CaKept(j)
    <3>1. Healthy => Valid(CaCrt) \/ ~Has(CaKey) BY DEF Healthy
    <3> QED BY <2>5, <2>8, <3>1 DEF CaKept, Tests
  <2>11. ~CaRefused(j)
    <3>1. Valid(CaCrt) => Has(CaCrt) BY Contents DEF Valid, Has
    <3> QED BY <2>5, <3>1 DEF CaRefused, Healthy
  <2>12. ~ServiceKept(j)
    <3>1. SUFFICES ASSUME ServiceKept(j) PROVE FALSE OBVIOUS
    <3>2. InOrder(Cur(j)) /\ Complete(Cur(j)) /\ Cur(j) \in Service
      BY <2>6, <2>7, <3>1 DEF ServiceKept
    <3>3. Verifies(Cur(j)) BY <3>2, Paths DEF InOrder, Complete
    <3> QED BY <2>8, <3>1, <3>3 DEF ServiceKept, Advance
  <2>13. ~ServiceRefused(j) BY <2>6 DEF ServiceRefused, InOrder, Complete, Untouched
  <2>14. ~Sign(j)
    <3>1. SUFFICES ASSUME Sign(j) PROVE FALSE OBVIOUS
    <3>2. CanSign(Cur(j)) BY <1>1, <3>1, SignPossible DEF Sign
    <3> QED BY <2>8, <3>1, <3>2 DEF Sign, Writes
  <2>15. ASSUME NEW i \in Job, Authority(i) \/ Services(i) PROVE FALSE
    <3>1. CASE i = j
      BY <2>8, <2>10, <2>11, <2>12, <2>13, <2>14, <2>15, <3>1
      DEF Authority, Services, CaMissing, MakeCaKey, MakeCaCrt, ServiceMissing, MakeServiceKey,
          MakeKey, MakeRequest, CopyRoot, Advance, Finish, Tests, Quits, Ends, Writes
    <3>2. CASE i # j
      BY <2>9, <2>15, <3>2
      DEF Authority, Services, CaKept, CaRefused, CaMissing, MakeCaKey, MakeCaCrt, ServiceKept,
          ServiceRefused, ServiceMissing, MakeServiceKey, MakeKey, MakeRequest, Sign, CopyRoot,
          Advance, Finish, Tests, Quits, Ends, Writes
    <3> QED BY <3>1, <3>2
  <2>16. ASSUME NEW i \in Job, Begin(i) \/ Stop(i) PROVE FALSE
    BY <2>8, <2>16 DEF Begin, Stop, Ends
  <2>17. (\E d \in Service \cup {"authority"} : Remove(d)) \/ Tick \/ UNCHANGED vars => FALSE
    <3>1. pc' # pc BY <2>3 DEF Running, Writing
    <3> QED BY <3>1 DEF Remove, Tick, vars
  <2> QED BY <1>1, <2>15, <2>16, <2>17 DEF Next
<1>2. CertInvariant /\ [Next]_vars =>
        [\A j \in Job : Refuses(j) => ~begun[j].healthy \/ begun[j].at < now]_vars
  BY <1>1
<1> QED BY <1>2, CertInvariantHolds, PTL DEF RefusesOnlyBroken, Spec

(***************************************************************************)
(* Trust                                                                   *)
(***************************************************************************)
\* What makes a circle of the services: the CA's certificate, theirs, and
\* the roots by which they accept others.
Seen == {CaCrt} \cup {ServiceCrt(s) : s \in Service} \cup {Root(s) : s \in Service}

\* A step after which each of these is what it was, or still no certificate.
SameCircle ==
  \A p \in Seen : file'[p] = file[p] \/ (file[p] \notin Cert /\ file'[p] \notin Cert)

\* Files of the circle are files, and none is taken for another.
LEMMA SeenFiles ==
  /\ Seen \subseteq Path
  /\ CaKey \notin Seen /\ CaCrt \in Seen
  /\ \A s \in Service : /\ ServiceCrt(s) \in Seen /\ Root(s) \in Seen
                        /\ ServiceKey(s) \notin Seen /\ Request(s) \notin Seen
                        /\ ServiceCrt(s) # CaCrt /\ Root(s) # CaCrt
  /\ \A s, t \in Service : /\ ServiceCrt(s) # Root(t)
                           /\ s # t => ServiceCrt(s) # ServiceCrt(t) /\ Root(s) # Root(t)
<1>1. \A s \in Service : s # "authority" BY CertAssumption
<1> QED BY <1>1 DEF Seen, Path, CaKey, CaCrt, ServiceKey, ServiceCrt, Request, Root

\* Then nobody's certificate, signer or root has changed.
LEMMA SameCircleKeeps ==
  ASSUME SameCircle
  PROVE  /\ KeyIn(CaCrt)' = KeyIn(CaCrt)
         /\ \A s \in Service : /\ KeyIn(ServiceCrt(s))' = KeyIn(ServiceCrt(s))
                               /\ SignerIn(ServiceCrt(s))' = SignerIn(ServiceCrt(s))
                               /\ KeyIn(Root(s))' = KeyIn(Root(s))
<1>1. ASSUME NEW p \in Seen
      PROVE  IF file'[p] \in Cert THEN file'[p] = file[p] /\ file[p] \in Cert ELSE file[p] \notin Cert
  BY DEF SameCircle
<1>2. ASSUME NEW p \in Seen PROVE KeyIn(p)' = KeyIn(p) /\ SignerIn(p)' = SignerIn(p)
  BY <1>1 DEF KeyIn, SignerIn
<1> QED BY <1>2, SeenFiles DEF CaCrt, ServiceCrt, Root

\* A step of a job changes the circle in one of three ways, or not at all: a
\* file that it writes, or leaves torn, has not been a certificate.
LEMMA JobSteps ==
  ASSUME CertInvariant, TrustInvariant, NEW j \in Job, Authority(j) \/ Services(j) \/ Stop(j)
  PROVE  SameCircle \/ MakeCaCrt(j) \/ Sign(j) \/ CopyRoot(j)
<1>1. CASE file' = file BY <1>1 DEF SameCircle
<1>2. CASE pc[j] \in Writing /\ \A q \in Path : q # Target(j) => file'[q] = file[q]
  <2>1. /\ pc[j] = "ca.key" => Target(j) = CaKey
        /\ pc[j] = "ca.crt" => Target(j) = CaCrt
        /\ pc[j] = "key" => Target(j) = ServiceKey(Cur(j))
        /\ pc[j] = "csr" => Target(j) = Request(Cur(j))
        /\ pc[j] = "crt" => Target(j) = ServiceCrt(Cur(j))
        /\ pc[j] = "root" => Target(j) = Root(Cur(j))
    BY DEF Target
  <2>2. pc[j] \in {"key", "csr", "crt", "root"} => Cur(j) \in Service
    BY Current DEF CertInvariant, JobInvariant, AtCurrent
  <2>3. CASE pc[j] \in {"ca.key", "key", "csr"}
    <3>1. Target(j) \notin Seen BY <2>1, <2>2, <2>3, SeenFiles
    <3> QED BY <1>2, <3>1, SeenFiles DEF SameCircle
  <2>4. CASE pc[j] \in {"ca.crt", "crt", "root"}
    <3>1. file[Target(j)] = Absent
      <4>1. CASE pc[j] \in {"ca.crt", "crt"}
        <5>1. Target(j) \in Precious BY <2>1, <2>2, <4>1 DEF Precious
        <5> QED BY <1>2, <5>1, TargetMissing DEF Has
      <4>2. CASE pc[j] = "root" BY <2>1, <4>2 DEF TrustInvariant, RootMissing, Has
      <4> QED BY <2>4, <4>1, <4>2
    <3>2. CASE Stop(j)
      <4>1. Target(j) \in Path /\ file \in [Path -> Content]
        BY <1>2, TargetMissing DEF CertInvariant, TypeOK
      <4>2. file' = file \/ file' = [file EXCEPT ![Target(j)] = Torn] BY <3>2 DEF Stop
      <4>3. file'[Target(j)] \in {Absent, Torn} BY <3>1, <4>1, <4>2
      <4> QED BY <1>2, <3>1, <4>3, SeenFiles, Contents DEF SameCircle
    <3>3. CASE Authority(j)
      BY <2>4, <3>3 DEF Authority, CaKept, CaRefused, CaMissing, MakeCaKey, MakeKey
    <3>4. CASE Services(j)
      BY <2>4, <3>4 DEF Services, ServiceKept, ServiceRefused, ServiceMissing, MakeServiceKey,
         MakeKey, MakeRequest, Finish
    <3> QED BY <3>2, <3>3, <3>4
  <2> QED BY <1>2, <2>3, <2>4 DEF Writing
<1> QED BY <1>1, <1>2, WritesTarget

\* What the three write.
LEMMA MakeCaCrtDoes ==
  ASSUME CertInvariant, NEW j \in Job, MakeCaCrt(j)
  PROVE  /\ file[CaCrt] \notin Cert /\ file'[CaCrt] \in Cert
         /\ \A s \in Service : file[ServiceCrt(s)] \notin Cert
         /\ \A p \in Path : p # CaCrt => file'[p] = file[p]
<1>1. pc[j] = "ca.crt" /\ file' = [file EXCEPT ![CaCrt] =
        [key |-> fresh[j], signer |-> fresh[j], until |-> now + Life]]
  BY DEF MakeCaCrt, Writes
<1>2. InAuthority(j) BY <1>1 DEF CertInvariant, JobInvariant
<1>3. fresh[j] \in Key /\ now + Life \in Nat /\ file \in [Path -> Content]
  BY <1>1, <1>2, CertAssumption DEF InAuthority, CertInvariant, TypeOK
<1>4. [key |-> fresh[j], signer |-> fresh[j], until |-> now + Life] \in Cert BY <1>3, Contents
<1>5. file'[CaCrt] \in Cert /\ \A p \in Path : p # CaCrt => file'[p] = file[p]
  BY <1>1, <1>3, <1>4, Paths
<1> QED BY <1>2, <1>5, Contents DEF InAuthority, NoServiceKeys, Has

LEMMA SignDoes ==
  ASSUME CertInvariant, NEW j \in Job, Sign(j)
  PROVE  \E s \in Service :
           /\ file[CaCrt] \in Cert /\ file[ServiceCrt(s)] \notin Cert
           /\ file'[ServiceCrt(s)] \in Cert /\ file'[ServiceCrt(s)].signer = file[CaCrt].key
           /\ \A p \in Path : p # ServiceCrt(s) => file'[p] = file[p]
<1>1. pc[j] = "crt" BY DEF Sign
<1>2. AtCurrent(j) /\ CanSign(Cur(j))
  BY <1>1, SignPossible DEF CertInvariant, JobInvariant
<1>3. PICK s \in Service : s = Cur(j) BY <1>2, Current DEF AtCurrent, CertInvariant
<1> DEFINE c == [key |-> file[Request(s)], signer |-> file[CaKey], until |-> now + Life]
<1>4. file' = [file EXCEPT ![ServiceCrt(s)] = c] BY <1>2, <1>3 DEF Sign, Writes
<1>5. /\ file[Request(s)] \in Key /\ file[CaCrt] \in Cert /\ file[CaKey] = file[CaCrt].key
      /\ file[CaKey] \in Key /\ now + Life \in Nat /\ file \in [Path -> Content]
  BY <1>2, <1>3, Contents, CertAssumption DEF CanSign, CertInvariant, TypeOK
<1>6. c \in Cert /\ c.signer = file[CaCrt].key BY <1>5, Contents
<1>7. file[ServiceCrt(s)] \notin Cert BY <1>1, <1>2, <1>3, Contents DEF AtCurrent, Has
<1> HIDE DEF c
<1>8. file'[ServiceCrt(s)] = c /\ \A p \in Path : p # ServiceCrt(s) => file'[p] = file[p]
  BY <1>4, <1>5, SeenFiles
<1> QED BY <1>5, <1>6, <1>7, <1>8

LEMMA CopyRootDoes ==
  ASSUME CertInvariant, TrustInvariant, NEW j \in Job, CopyRoot(j)
  PROVE  \E s \in Service :
           /\ file[CaCrt] \in Cert /\ file[ServiceCrt(s)] \in Cert /\ file[Root(s)] \notin Cert
           /\ file'[Root(s)] = file[CaCrt]
           /\ \A p \in Path : p # Root(s) => file'[p] = file[p]
<1>1. pc[j] = "root" BY DEF CopyRoot
<1>2. AtCurrent(j) /\ InServices(j)
  BY <1>1 DEF CertInvariant, JobInvariant, InLoop
<1>3. PICK s \in Service : s = Cur(j) BY <1>2, Current DEF AtCurrent, CertInvariant
<1>4. file' = [file EXCEPT ![Root(s)] = file[CaCrt]] /\ file \in [Path -> Content]
  BY <1>3 DEF CopyRoot, CertInvariant, TypeOK
<1>5. file[CaCrt] \in Cert /\ file[ServiceCrt(s)] \in Cert
  BY <1>1, <1>2, <1>3 DEF InServices, AtCurrent, ValidThen
<1>6. file[Root(s)] \notin Cert BY <1>1, <1>3, Contents DEF TrustInvariant, RootMissing, Has
<1>7. file'[Root(s)] = file[CaCrt] /\ \A p \in Path : p # Root(s) => file'[p] = file[p]
  BY <1>4, SeenFiles
<1> QED BY <1>5, <1>6, <1>7

\* A removed folder is gone from the circle as a whole.
LEMMA RemoveDoes ==
  ASSUME NEW d \in Service \cup {"authority"}, Remove(d)
  PROVE  /\ d = "authority" =>
              /\ file'[CaCrt] = Absent
              /\ \A s \in Service : /\ file'[ServiceCrt(s)] = file[ServiceCrt(s)]
                                    /\ file'[Root(s)] = file[Root(s)]
         /\ d \in Service =>
              /\ file'[CaCrt] = file[CaCrt]
              /\ file'[ServiceCrt(d)] = Absent /\ file'[Root(d)] = Absent
              /\ \A s \in Service \ {d} : /\ file'[ServiceCrt(s)] = file[ServiceCrt(s)]
                                          /\ file'[Root(s)] = file[Root(s)]
<1>1. \A p \in Path : file'[p] = IF p \in Folder(d) THEN Absent ELSE file[p]
  BY DEF Remove
<1>2. CASE d = "authority"
  <2>1. Folder(d) = {CaKey, CaCrt} \cup {Request(s) : s \in Service} BY <1>2 DEF Folder
  <2>2. ASSUME NEW s \in Service PROVE ServiceCrt(s) \notin Folder(d) /\ Root(s) \notin Folder(d)
    <3>1. \A t \in Service : Request(t) \notin Seen BY SeenFiles
    <3> QED BY <2>1, <3>1, SeenFiles
  <2>3. d \notin Service BY <1>2, CertAssumption
  <2> QED BY <1>1, <1>2, <2>1, <2>2, <2>3, SeenFiles
<1>3. CASE d \in Service
  <2>1. Folder(d) = {ServiceKey(d), ServiceCrt(d), Root(d)} /\ d # "authority"
    BY <1>3, Paths, CertAssumption
  <2>2. CaCrt \notin Folder(d) BY <1>3, <2>1, Paths
  <2>3. ASSUME NEW s \in Service \ {d}
        PROVE  ServiceCrt(s) \notin Folder(d) /\ Root(s) \notin Folder(d)
    BY <1>3, Paths
  <2> QED BY <1>1, <1>3, <2>1, <2>2, <2>3, SeenFiles
<1> QED BY <1>2, <1>3

\* The steps that do not touch the folder.
LEMMA IdleSteps ==
  ASSUME (\E j \in Job : Begin(j)) \/ Tick \/ UNCHANGED vars
  PROVE  SameCircle
BY DEF Begin, Tick, vars, SameCircle

LEMMA TrustStep ==
  ASSUME CertInvariant, TrustInvariant, [Next]_vars
  PROVE  MutualTrust' /\ NoBareRoot' /\ OneSigner'
<1> DEFINE crt(s) == file[ServiceCrt(s)]
           root(s) == file[Root(s)]
           Kept ==
             /\ \A s, t \in Service : root(s)' \in Cert /\ crt(t)' \in Cert => crt(t)'.signer = root(s)'.key
             /\ \A s \in Service : root(s)' \in Cert => crt(s)' \in Cert
             /\ \A s, t \in Service : crt(s)' \in Cert /\ crt(t)' \in Cert => crt(s)'.signer = crt(t)'.signer
<1>1. /\ \A s, t \in Service : root(s) \in Cert /\ crt(t) \in Cert => crt(t).signer = root(s).key
      /\ \A s \in Service : root(s) \in Cert => crt(s) \in Cert
      /\ \A s, t \in Service : crt(s) \in Cert /\ crt(t) \in Cert => crt(s).signer = crt(t).signer
  BY DEF TrustInvariant, MutualTrust, NoBareRoot, OneSigner
<1>2. \A s \in Service : crt(s) \in Cert /\ file[CaCrt] \in Cert => crt(s).signer = file[CaCrt].key
  BY DEF CertInvariant, FolderInvariant
<1>3. SUFFICES Kept
  BY DEF MutualTrust, NoBareRoot, OneSigner
<1>4. CASE SameCircle
  <2>1. \A s \in Service : /\ crt(s)' \in Cert <=> crt(s) \in Cert
                           /\ crt(s)' \in Cert => crt(s)' = crt(s)
                           /\ root(s)' \in Cert <=> root(s) \in Cert
                           /\ root(s)' \in Cert => root(s)' = root(s)
    BY <1>4, SeenFiles DEF SameCircle
  <2> HIDE DEF crt, root
  <2> QED BY <1>1, <2>1
<1>5. ASSUME NEW j \in Job, MakeCaCrt(j) PROVE Kept
  <2>1. \A s \in Service : crt(s) \notin Cert /\ crt(s)' = crt(s) /\ root(s)' = root(s)
    BY <1>5, MakeCaCrtDoes, SeenFiles
  <2> HIDE DEF crt, root
  <2> QED BY <1>1, <2>1
<1>6. ASSUME NEW j \in Job, Sign(j) PROVE Kept
  <2>1. PICK s \in Service :
           /\ file[CaCrt] \in Cert /\ crt(s) \notin Cert
           /\ crt(s)' \in Cert /\ crt(s)'.signer = file[CaCrt].key
           /\ \A p \in Path : p # ServiceCrt(s) => file'[p] = file[p]
    BY <1>6, SignDoes
  <2>2. /\ \A t \in Service : root(t)' = root(t)
        /\ \A t \in Service \ {s} : crt(t)' = crt(t)
    BY <2>1, SeenFiles
  <2> HIDE DEF crt, root
  <2>3. \A t \in Service : crt(t)' \in Cert => crt(t)'.signer = file[CaCrt].key
    BY <1>2, <2>1, <2>2
  <2>4. \A t \in Service : root(t)' \in Cert => crt(t)' \in Cert /\ root(t)'.key = file[CaCrt].key
    BY <1>1, <1>2, <2>1, <2>2
  <2> QED BY <2>3, <2>4
<1>7. ASSUME NEW j \in Job, CopyRoot(j) PROVE Kept
  <2>1. PICK s \in Service :
           /\ file[CaCrt] \in Cert /\ crt(s) \in Cert
           /\ root(s)' = file[CaCrt]
           /\ \A p \in Path : p # Root(s) => file'[p] = file[p]
    BY <1>7, CopyRootDoes
  <2>2. /\ \A t \in Service : crt(t)' = crt(t)
        /\ \A t \in Service \ {s} : root(t)' = root(t)
    BY <2>1, SeenFiles
  <2> HIDE DEF crt, root
  <2> QED BY <1>1, <1>2, <2>1, <2>2
<1>8. ASSUME NEW d \in Service \cup {"authority"}, Remove(d) PROVE Kept
  <2>1. \A s \in Service : /\ crt(s)' = crt(s) \/ crt(s)' \notin Cert
                           /\ root(s)' = root(s) \/ root(s)' \notin Cert
                           /\ crt(s)' \notin Cert => crt(s)' = crt(s) \/ root(s)' \notin Cert
    <3>1. CASE d = "authority" BY <1>8, <3>1, RemoveDoes
    <3>2. CASE d \in Service BY <1>8, <3>2, RemoveDoes, Contents
    <3> QED BY <3>1, <3>2
  <2> HIDE DEF crt, root
  <2> QED BY <1>1, <2>1
<1>9. ASSUME NEW j \in Job, Authority(j) \/ Services(j) \/ Stop(j) PROVE Kept
  BY <1>4, <1>5, <1>6, <1>7, <1>9, JobSteps
<1> HIDE DEF Kept
<1> QED BY <1>4, <1>8, <1>9, IdleSteps DEF Next

\* A set that is issued begins with none of its files there; the root is the
\* last of them.
LEMMA RootStep ==
  ASSUME CertInvariant, TrustInvariant, OneJob, [Next]_vars, NEW j \in Job
  PROVE  RootMissing(j)'
<1> DEFINE Issuing == {"key", "csr", "crt", "root"}
<1>1. /\ pc \in [Job -> Running \cup Ended] /\ file \in [Path -> Content]
      /\ RootMissing(j) /\ \A i \in Job : i = j
  BY DEF CertInvariant, TypeOK, TrustInvariant, OneJob
<1>2. ASSUME NEW to, Goes(j, to), to \notin Issuing PROVE RootMissing(j)'
  BY <1>1, <1>2 DEF Goes, RootMissing
<1>3. pc[j] \in Issuing => Cur(j) \in Service
  BY Current DEF CertInvariant, JobInvariant, AtCurrent
<1>4. CASE Begin(j) \/ Stop(j) BY <1>2, <1>4 DEF Begin, Stop, Ends
<1>5. CASE Authority(j)
  BY <1>2, <1>5 DEF Authority, CaKept, CaRefused, CaMissing, MakeCaKey, MakeKey, MakeCaCrt,
     Tests, Quits, Ends, Writes
<1>6. CASE ServiceKept(j) \/ ServiceRefused(j) \/ Finish(j) \/ CopyRoot(j)
  BY <1>2, <1>6 DEF ServiceKept, ServiceRefused, Finish, CopyRoot, Advance, Quits, Ends
<1>7. CASE ServiceMissing(j)
  <2>1. Untouched(Cur(j)) /\ turn' = turn /\ file' = file /\ Cur(j) \in Service
    BY <1>7, Current DEF ServiceMissing, Tests, CertInvariant
  <2>2. ~Has(Root(Cur(j))) BY <2>1, Paths DEF Untouched
  <2> QED BY <2>1, <2>2 DEF RootMissing, Has, Cur, Root
<1>8. CASE MakeServiceKey(j) \/ MakeRequest(j) \/ Sign(j)
  <2>1. pc[j] \in {"key", "csr", "crt"}
    BY <1>8 DEF MakeServiceKey, MakeKey, MakeRequest, Sign
  <2>2. PICK s \in Service : s = Cur(j) BY <1>3, <2>1
  <2>3. \A q \in Path : q # Target(j) => file'[q] = file[q]
    BY <1>8, <2>1, WritesTarget DEF Services
  <2>4. Target(j) # Root(s)
    <3>1. Target(j) \in {ServiceKey(s), Request(s), ServiceCrt(s)} BY <2>1, <2>2 DEF Target
    <3> QED BY <3>1, SeenFiles
  <2>5. file'[Root(s)] = file[Root(s)] BY <2>3, <2>4, SeenFiles
  <2>6. file[Root(s)] = Absent BY <1>1, <2>1, <2>2 DEF RootMissing, Has
  <2>7. turn' = turn \/ pc'[j] = "failed"
    BY <1>1, <1>8 DEF MakeServiceKey, MakeKey, MakeRequest, Sign, Writes, Quits, Ends, Goes
  <2> QED BY <2>2, <2>5, <2>6, <2>7 DEF RootMissing, Has, Cur, Root
<1>9. ASSUME NEW d \in Service \cup {"authority"}, Remove(d) PROVE RootMissing(j)'
  BY <1>9 DEF Remove, RootMissing, Ended
<1>10. CASE Tick \/ UNCHANGED vars
  BY <1>1, <1>10 DEF Tick, vars, RootMissing, Has, Cur, Root
<1> QED BY <1>1, <1>4, <1>5, <1>6, <1>7, <1>8, <1>9, <1>10 DEF Next, Services

LEMMA InitTrust == Init => TrustInvariant
BY SeenFiles, Contents DEF Init, TrustInvariant, MutualTrust, NoBareRoot, OneSigner, RootMissing

\* Trust is never divided, with one job at a time.
THEOREM TrustInvariantHolds == ASSUME OneJob PROVE Spec => []TrustInvariant
<1>1. CertInvariant /\ TrustInvariant /\ [Next]_vars => TrustInvariant'
  BY TrustStep, RootStep DEF TrustInvariant
<1> QED BY <1>1, InitTrust, CertInvariantHolds, PTL DEF Spec

\* All services accept each other, wherever a run of init-certs.sh is or was
\* stopped and whatever the operator has removed.
THEOREM ServicesTrust == ASSUME OneJob PROVE Spec => []MutualTrust
<1>1. TrustInvariant => MutualTrust BY DEF TrustInvariant
<1> QED BY <1>1, TrustInvariantHolds, PTL

(***************************************************************************)
(* The folder implements the circle of trust                               *)
(***************************************************************************)
LEMMA InitCircle == Init => Trust!Init
<1> SUFFICES ASSUME Init PROVE Trust!Init OBVIOUS
<1>1. \A p \in Path : file[p] \notin Cert BY Contents DEF Init
<1>2. \A p \in Seen : KeyIn(p) = Absent /\ SignerIn(p) = Absent
  BY <1>1, SeenFiles DEF KeyIn, SignerIn
<1> QED BY <1>2, SeenFiles DEF Trust!Init

LEMMA CircleSame ==
  ASSUME SameCircle
  PROVE  UNCHANGED Trust!vars
BY SameCircleKeeps DEF Trust!vars

LEMMA CircleEstablished ==
  ASSUME CertInvariant, TrustInvariant, NEW j \in Job, MakeCaCrt(j)
  PROVE  Trust!Next
<1> DEFINE k == file'[CaCrt].key
<1>1. /\ file[CaCrt] \notin Cert /\ file'[CaCrt] \in Cert
      /\ \A s \in Service : file[ServiceCrt(s)] \notin Cert
      /\ \A p \in Path : p # CaCrt => file'[p] = file[p]
  BY MakeCaCrtDoes
<1>2. \A s \in Service : file[Root(s)] \notin Cert
  BY <1>1 DEF TrustInvariant, NoBareRoot
<1>3. KeyIn(CaCrt) = Absent /\ KeyIn(CaCrt)' = k /\ k \in Key
  BY <1>1, Contents DEF KeyIn, CaCrt
<1>4. \A s \in Service : KeyIn(ServiceCrt(s)) = Absent /\ KeyIn(Root(s)) = Absent
  BY <1>1, <1>2 DEF KeyIn
<1>5. \A s \in Service : file'[ServiceCrt(s)] = file[ServiceCrt(s)] /\ file'[Root(s)] = file[Root(s)]
  BY <1>1, SeenFiles
<1>6. \A s \in Service : /\ KeyIn(ServiceCrt(s))' = KeyIn(ServiceCrt(s))
                         /\ SignerIn(ServiceCrt(s))' = SignerIn(ServiceCrt(s))
                         /\ KeyIn(Root(s))' = KeyIn(Root(s))
  BY <1>5 DEF KeyIn, SignerIn, ServiceCrt, Root
<1> HIDE DEF k
<1>7. Trust!Establish(k) BY <1>3, <1>4, <1>6 DEF Trust!Establish
<1> QED BY <1>3, <1>7 DEF Trust!Next

LEMMA CircleGrows ==
  ASSUME CertInvariant, NEW j \in Job, Sign(j)
  PROVE  Trust!Next
<1>1. PICK s \in Service :
        /\ file[CaCrt] \in Cert /\ file[ServiceCrt(s)] \notin Cert
        /\ file'[ServiceCrt(s)] \in Cert /\ file'[ServiceCrt(s)].signer = file[CaCrt].key
        /\ \A p \in Path : p # ServiceCrt(s) => file'[p] = file[p]
  BY SignDoes
<1> DEFINE k == file'[ServiceCrt(s)].key
<1>2. file'[CaCrt] = file[CaCrt] /\ (\A t \in Service : file'[Root(t)] = file[Root(t)])
      /\ \A t \in Service \ {s} : file'[ServiceCrt(t)] = file[ServiceCrt(t)]
  BY <1>1, SeenFiles
<1>3. KeyIn(CaCrt) # Absent /\ KeyIn(CaCrt) = file[CaCrt].key /\ KeyIn(CaCrt)' = KeyIn(CaCrt)
  BY <1>1, <1>2, Contents DEF KeyIn, CaCrt
<1>4. /\ KeyIn(ServiceCrt(s)) = Absent /\ k \in Key
      /\ KeyIn(ServiceCrt(s))' = k /\ SignerIn(ServiceCrt(s))' = KeyIn(CaCrt)
  BY <1>1, <1>3, Contents DEF KeyIn, SignerIn, ServiceCrt
<1>5. /\ \A t \in Service : KeyIn(Root(t))' = KeyIn(Root(t))
      /\ \A t \in Service \ {s} : /\ KeyIn(ServiceCrt(t))' = KeyIn(ServiceCrt(t))
                                  /\ SignerIn(ServiceCrt(t))' = SignerIn(ServiceCrt(t))
  BY <1>2 DEF KeyIn, SignerIn, ServiceCrt, Root
<1> HIDE DEF k
<1>6. Trust!Certify(s, k)
  <2>1. [t \in Service |-> KeyIn(ServiceCrt(t))]'
          = [[t \in Service |-> KeyIn(ServiceCrt(t))] EXCEPT ![s] = k]
    BY <1>4, <1>5
  <2>2. [t \in Service |-> SignerIn(ServiceCrt(t))]'
          = [[t \in Service |-> SignerIn(ServiceCrt(t))] EXCEPT ![s] = KeyIn(CaCrt)]
    BY <1>4, <1>5
  <2>3. [t \in Service |-> KeyIn(Root(t))]' = [t \in Service |-> KeyIn(Root(t))] BY <1>5
  <2> QED BY <1>3, <1>4, <2>1, <2>2, <2>3 DEF Trust!Certify
<1> QED BY <1>4, <1>6 DEF Trust!Next

LEMMA CircleAdmits ==
  ASSUME CertInvariant, TrustInvariant, NEW j \in Job, CopyRoot(j)
  PROVE  Trust!Next
<1>1. PICK s \in Service :
        /\ file[CaCrt] \in Cert /\ file[ServiceCrt(s)] \in Cert /\ file[Root(s)] \notin Cert
        /\ file'[Root(s)] = file[CaCrt]
        /\ \A p \in Path : p # Root(s) => file'[p] = file[p]
  BY CopyRootDoes
<1>2. file'[CaCrt] = file[CaCrt] /\ (\A t \in Service : file'[ServiceCrt(t)] = file[ServiceCrt(t)])
      /\ \A t \in Service \ {s} : file'[Root(t)] = file[Root(t)]
  BY <1>1, SeenFiles
<1>3. KeyIn(CaCrt) # Absent /\ KeyIn(CaCrt)' = KeyIn(CaCrt)
  BY <1>1, <1>2, Contents DEF KeyIn, CaCrt
<1>4. /\ KeyIn(ServiceCrt(s)) # Absent /\ KeyIn(Root(s)) = Absent
      /\ KeyIn(Root(s))' = KeyIn(CaCrt)
  BY <1>1, Contents DEF KeyIn, Root
<1>5. /\ \A t \in Service : /\ KeyIn(ServiceCrt(t))' = KeyIn(ServiceCrt(t))
                            /\ SignerIn(ServiceCrt(t))' = SignerIn(ServiceCrt(t))
      /\ \A t \in Service \ {s} : KeyIn(Root(t))' = KeyIn(Root(t))
  BY <1>2 DEF KeyIn, SignerIn, ServiceCrt, Root
<1>6. Trust!Admit(s)
  <2>1. [t \in Service |-> KeyIn(Root(t))]'
          = [[t \in Service |-> KeyIn(Root(t))] EXCEPT ![s] = KeyIn(CaCrt)]
    BY <1>4, <1>5
  <2>2. [t \in Service |-> KeyIn(ServiceCrt(t))]' = [t \in Service |-> KeyIn(ServiceCrt(t))]
    BY <1>5
  <2>3. [t \in Service |-> SignerIn(ServiceCrt(t))]' = [t \in Service |-> SignerIn(ServiceCrt(t))]
    BY <1>5
  <2> QED BY <1>3, <1>4, <2>1, <2>2, <2>3 DEF Trust!Admit
<1> QED BY <1>6 DEF Trust!Next

LEMMA CircleRemoves ==
  ASSUME NEW d \in Service \cup {"authority"}, Remove(d)
  PROVE  Trust!Next
<1>1. CASE d = "authority"
  <2>1. /\ file'[CaCrt] = Absent
        /\ \A s \in Service : file'[ServiceCrt(s)] = file[ServiceCrt(s)] /\ file'[Root(s)] = file[Root(s)]
    BY <1>1, RemoveDoes
  <2>2. KeyIn(CaCrt)' = Absent BY <2>1, Contents DEF KeyIn, CaCrt
  <2>3. \A s \in Service : /\ KeyIn(ServiceCrt(s))' = KeyIn(ServiceCrt(s))
                           /\ SignerIn(ServiceCrt(s))' = SignerIn(ServiceCrt(s))
                           /\ KeyIn(Root(s))' = KeyIn(Root(s))
    BY <2>1 DEF KeyIn, SignerIn, ServiceCrt, Root
  <2>4. Trust!Retire BY <2>2, <2>3 DEF Trust!Retire
  <2> QED BY <2>4 DEF Trust!Next
<1>2. CASE d \in Service
  <2>1. /\ file'[CaCrt] = file[CaCrt]
        /\ file'[ServiceCrt(d)] = Absent /\ file'[Root(d)] = Absent
        /\ \A s \in Service \ {d} : /\ file'[ServiceCrt(s)] = file[ServiceCrt(s)]
                                    /\ file'[Root(s)] = file[Root(s)]
    BY <1>2, RemoveDoes
  <2>2. /\ KeyIn(CaCrt)' = KeyIn(CaCrt)
        /\ KeyIn(ServiceCrt(d))' = Absent /\ SignerIn(ServiceCrt(d))' = Absent
        /\ KeyIn(Root(d))' = Absent
    BY <2>1, Contents DEF KeyIn, SignerIn, CaCrt, ServiceCrt, Root
  <2>3. \A s \in Service \ {d} : /\ KeyIn(ServiceCrt(s))' = KeyIn(ServiceCrt(s))
                                 /\ SignerIn(ServiceCrt(s))' = SignerIn(ServiceCrt(s))
                                 /\ KeyIn(Root(s))' = KeyIn(Root(s))
    BY <2>1 DEF KeyIn, SignerIn, ServiceCrt, Root
  <2>4. Trust!Withdraw(d)
    <3>1. [t \in Service |-> KeyIn(ServiceCrt(t))]'
            = [[t \in Service |-> KeyIn(ServiceCrt(t))] EXCEPT ![d] = Absent]
      BY <1>2, <2>2, <2>3
    <3>2. [t \in Service |-> SignerIn(ServiceCrt(t))]'
            = [[t \in Service |-> SignerIn(ServiceCrt(t))] EXCEPT ![d] = Absent]
      BY <1>2, <2>2, <2>3
    <3>3. [t \in Service |-> KeyIn(Root(t))]'
            = [[t \in Service |-> KeyIn(Root(t))] EXCEPT ![d] = Absent]
      BY <1>2, <2>2, <2>3
    <3> QED BY <2>2, <3>1, <3>2, <3>3 DEF Trust!Withdraw
  <2> QED BY <1>2, <2>4 DEF Trust!Next
<1> QED BY <1>1, <1>2

LEMMA CircleStep ==
  ASSUME CertInvariant, TrustInvariant, [Next]_vars
  PROVE  Trust!Next \/ UNCHANGED Trust!vars
<1>1. ASSUME NEW j \in Job, Authority(j) \/ Services(j) \/ Stop(j)
      PROVE  Trust!Next \/ UNCHANGED Trust!vars
  BY <1>1, JobSteps, CircleSame, CircleEstablished, CircleGrows, CircleAdmits
<1>2. CASE (\E j \in Job : Begin(j)) \/ Tick \/ UNCHANGED vars
  BY <1>2, IdleSteps, CircleSame
<1> QED BY <1>1, <1>2, CircleRemoves DEF Next

\* init-certs.sh "preserves the CA and issues only what is missing", so that
\* Banking and Asset go on trusting each other when Work is added: whatever
\* stops and whatever is removed, the folder is a circle of trust.
THEOREM FolderKeepsTrust == ASSUME OneJob PROVE Spec => KeepsTrust
<1>1. Init => Trust!Init BY InitCircle
<1>2. CertInvariant /\ TrustInvariant /\ [Next]_vars => [Trust!Next]_(Trust!vars)
  BY CircleStep
<1> QED BY <1>1, <1>2, CertInvariantHolds, TrustInvariantHolds, PTL
     DEF Spec, KeepsTrust, Trust!Spec
=============================================================================
