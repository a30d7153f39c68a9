---------------------------- MODULE PersonaProofs ----------------------------
(***************************************************************************)
(* Proofs of what PersonaProperties says of a persona, for any number of   *)
(* requests, scripts, phone numbers, withdrawals and resets.                *)
(***************************************************************************)
EXTENDS PersonaProperties, TLAPS

\* The refresh of the plan, and the seedings before its i-th call.
RefreshAt(r) == IF r \in Console THEN 6 ELSE 7 + Withdrawals

SeedsBefore(r, i) ==
  IF r \in Console THEN IF i > 4 THEN 1 ELSE 0
  ELSE IF i <= 6 THEN 0
  ELSE IF i <= 5 + Withdrawals THEN i - 6
  ELSE Withdrawals

\* What a run has reached before its next call: the services still know it.
Reached(r) ==
  /\ phone[r] \in Phone
  /\ stage[r] >= 2 => owner[phone[r]] = r
  /\ stage[r] >= 3 => session[r] = r
  /\ stage[r] >= 4 => holder[r] = r
  /\ ledger[r] = SeedsBefore(r, stage[r])
  /\ stage[r] > RefreshAt(r) => synced[r] = Seeds(r)
  /\ stage[r] > RefreshAt(r) + 1 => shown[r] = Seeds(r)

\* Also a failed run has only done its own.
OwnOnly(r) ==
  /\ session[r] \in {None, r}
  /\ holder[r] \in {None, r}
  /\ ledger[r] <= Seeds(r)
  /\ stage[r] = Waiting => ledger[r] = 0

PersonaInvariant ==
  /\ TypeOK
  /\ \A r \in Run : OwnOnly(r) /\ (InPlan(r) => Reached(r))

-----------------------------------------------------------------------------
\* Where each call stands in the plan.
LEMMA CallsInOrder ==
  ASSUME NEW r \in Run, NEW i \in 1..(Made(r) - 1)
  PROVE  /\ Call(r, i) = "register" => i = 1
         /\ Call(r, i) = "login" => i = 2
         /\ Call(r, i) = "account" => i = 3
         /\ i = 1 => Call(r, i) = "register"
         /\ i = 2 => Call(r, i) = "login"
         /\ i = 3 => Call(r, i) = "account"
         /\ Call(r, i) = "refresh" <=> i = RefreshAt(r)
         /\ Call(r, i) \in {"monthly", "category"} <=> i > RefreshAt(r)
         /\ Call(r, i) = "seed" => SeedsBefore(r, i + 1) = SeedsBefore(r, i) + 1
         /\ Call(r, i) # "seed" => SeedsBefore(r, i + 1) = SeedsBefore(r, i)
         /\ Call(r, i) \in Calls
         /\ SeedsBefore(r, i + 1) <= Seeds(r)
         /\ SeedsBefore(r, 1) = 0
         /\ i >= RefreshAt(r) => SeedsBefore(r, i) = Seeds(r)
<1>1. CASE r \in Console
  <2>1. i \in 1..8
    BY <1>1 DEF Made
  <2>2. \/ i = 1 \/ i = 2 \/ i = 3 \/ i = 4
        \/ i = 5 \/ i = 6 \/ i = 7 \/ i = 8
    BY <2>1
  <2>3. Call(r, i) = ConsoleCalls[i]
    BY <1>1 DEF Call
  <2>4. QED
    BY <1>1, <2>2, <2>3 DEF ConsoleCalls, Calls, RefreshAt, SeedsBefore, Seeds
<1>2. CASE r \notin Console
  <2>1. Withdrawals \in Nat \ {0} /\ i \in 1..(9 + Withdrawals)
    BY <1>2, PersonaAssumption DEF Made
  <2>2. CASE i <= 5
    <3>1. i = 1 \/ i = 2 \/ i = 3 \/ i = 4 \/ i = 5
      BY <2>1, <2>2
    <3>2. Call(r, i) = ScriptOpens[i]
      BY <1>2, <2>2 DEF Call
    <3>3. QED
      BY <1>2, <2>1, <3>1, <3>2 DEF ScriptOpens, Calls, RefreshAt, SeedsBefore, Seeds
  <2>3. CASE i > 5 /\ i <= 5 + Withdrawals
    <3>1. Call(r, i) = "seed"
      BY <1>2, <2>1, <2>3 DEF Call
    <3>2. QED
      BY <1>2, <2>1, <2>3, <3>1 DEF Calls, RefreshAt, SeedsBefore, Seeds
  <2>4. CASE i > 5 + Withdrawals
    <3>1. PICK j \in 1..4 : i = j + 5 + Withdrawals
      <4>1. i - 5 - Withdrawals \in 1..4 /\ i = (i - 5 - Withdrawals) + 5 + Withdrawals
        BY <2>1, <2>4
      <4>2. QED
        BY <4>1
    <3>2. Call(r, i) = ScriptReads[j]
      <4>1. i - 5 - Withdrawals = j
        BY <2>1, <3>1
      <4>2. Call(r, i) = ScriptReads[i - 5 - Withdrawals]
        BY <1>2, <2>1, <2>4 DEF Call
      <4>3. QED
        BY <4>1, <4>2
    <3>3. j = 1 \/ j = 2 \/ j = 3 \/ j = 4
      BY <3>1
    <3>4. QED
      BY <1>2, <2>1, <3>1, <3>2, <3>3
         DEF ScriptReads, Calls, RefreshAt, SeedsBefore, Seeds
  <2>5. QED
    BY <2>1, <2>2, <2>3, <2>4
<1>3. QED
  BY <1>1, <1>2

-----------------------------------------------------------------------------
\* What a call that takes effect does to the data of its own run.
LEMMA EffectOnOwn ==
  ASSUME PersonaInvariant, NEW q \in Run, NEW call \in Calls,
         At(q, call), Accepts(q, call), Effect(q, call)
  PROVE  /\ owner'[phone[q]] = q
         /\ stage[q] >= 3 => holder'[q] = q
         /\ holder'[q] \in {None, q}
         /\ ledger'[q] = SeedsBefore(q, stage[q] + 1)
         /\ stage[q] >= RefreshAt(q) => synced'[q] = Seeds(q)
<1>1. /\ stage[q] \in 1..(Made(q) - 1) /\ Call(q, stage[q]) = call
      /\ Reached(q) /\ OwnOnly(q)
  BY DEF At, InPlan, PersonaInvariant
<1> PICK i \in 1..(Made(q) - 1) : i = stage[q]
  BY <1>1
<1>2. /\ call = "register" => i = 1
      /\ call = "login" => i = 2
      /\ call = "account" => i = 3
      /\ i = 1 => call = "register"
      /\ i = 2 => call = "login"
      /\ i = 3 => call = "account"
      /\ call = "refresh" <=> i = RefreshAt(q)
      /\ call = "seed" => SeedsBefore(q, i + 1) = SeedsBefore(q, i) + 1
      /\ call # "seed" => SeedsBefore(q, i + 1) = SeedsBefore(q, i)
      /\ i >= RefreshAt(q) => SeedsBefore(q, i) = Seeds(q)
  BY <1>1, CallsInOrder
<1>3. i \in Int /\ i >= 1 /\ RefreshAt(q) \in Int
  <2>1. Withdrawals \in Nat
    BY PersonaAssumption
  <2>2. Made(q) \in Int
    BY <2>1 DEF Made
  <2>3. QED
    BY <2>1, <2>2 DEF RefreshAt
<1>4. owner'[phone[q]] = q
  <2>1. CASE call = "register"
    BY <1>1, <2>1 DEF Effect, PersonaInvariant, TypeOK, Reached
  <2>2. CASE call # "register"
    BY <1>1, <1>2, <1>3, <2>2 DEF Effect, Reached
  <2>3. QED
    BY <2>1, <2>2
<1>5. (stage[q] >= 3 => holder'[q] = q) /\ holder'[q] \in {None, q}
  <2>1. CASE call = "account"
    BY <1>1, <1>2, <1>3, <2>1 DEF Effect, PersonaInvariant, TypeOK, Reached
  <2>2. CASE call # "account"
    BY <1>1, <1>2, <1>3, <2>2 DEF Effect, Reached, OwnOnly
  <2>3. QED
    BY <2>1, <2>2
<1>6. ledger'[q] = SeedsBefore(q, stage[q] + 1)
  BY <1>1, <1>2 DEF Effect, PersonaInvariant, TypeOK, Reached
<1>7. stage[q] >= RefreshAt(q) => synced'[q] = Seeds(q)
  <2>1. CASE call = "refresh"
    BY <1>1, <1>2, <1>3, <2>1 DEF Effect, PersonaInvariant, TypeOK, Reached
  <2>2. CASE call # "refresh"
    BY <1>1, <1>2, <1>3, <2>2 DEF Effect, Reached
  <2>3. QED
    BY <2>1, <2>2
<1>8. QED
  BY <1>4, <1>5, <1>6, <1>7

\* The data of the other runs stay as they are, and so do the phone numbers of
\* those that have registered.
LEMMA EffectOnOthers ==
  ASSUME PersonaInvariant, NEW q \in Run, NEW call \in Calls,
         At(q, call), Accepts(q, call), Effect(q, call),
         NEW r \in Run, r # q
  PROVE  /\ holder'[r] = holder[r] /\ ledger'[r] = ledger[r] /\ synced'[r] = synced[r]
         /\ InPlan(r) /\ stage[r] >= 2 => owner'[phone[r]] = r
<1>1. holder'[r] = holder[r] /\ ledger'[r] = ledger[r] /\ synced'[r] = synced[r]
  BY DEF Effect, PersonaInvariant, TypeOK
<1>2. ASSUME InPlan(r), stage[r] >= 2
      PROVE  owner'[phone[r]] = r
  <2>1. phone[r] \in Phone /\ owner[phone[r]] = r
    BY <1>2 DEF PersonaInvariant, Reached
  <2>2. CASE call = "register"
    <3>1. owner[phone[q]] = None /\ None \notin Run
      BY <2>2, PersonaAssumption DEF Accepts
    <3>2. phone[r] # phone[q]
      BY <2>1, <3>1
    <3>3. QED
      BY <2>1, <2>2, <3>2 DEF Effect, PersonaInvariant, TypeOK
  <2>3. CASE call # "register"
    BY <2>1, <2>3 DEF Effect
  <2>4. QED
    BY <2>2, <2>3
<1>3. QED
  BY <1>1, <1>2

\* The services keep their types.
LEMMA EffectTypes ==
  ASSUME PersonaInvariant, NEW q \in Run, NEW call \in Calls,
         At(q, call), Effect(q, call)
  PROVE  /\ owner' \in [Phone -> Run \cup {None}]
         /\ holder' \in [Run -> Run \cup {None}]
         /\ ledger' \in [Run -> Nat] /\ synced' \in [Run -> Nat]
         /\ known' \subseteq Run
<1>1. /\ owner \in [Phone -> Run \cup {None}] /\ holder \in [Run -> Run \cup {None}]
      /\ ledger \in [Run -> Nat] /\ synced \in [Run -> Nat]
      /\ session[q] \in Run \cup {None} /\ known \subseteq Run
  BY DEF PersonaInvariant, TypeOK
<1>2. owner' = [owner EXCEPT ![phone[q]] = q] \/ owner' = owner
  BY DEF Effect
<1>3. holder' = [holder EXCEPT ![q] = session[q]] \/ holder' = holder
  BY DEF Effect
<1>4. ledger' = [ledger EXCEPT ![q] = ledger[q] + 1] \/ ledger' = ledger
  BY DEF Effect
<1>5. synced' = [synced EXCEPT ![q] = ledger[q]] \/ synced' = synced
  BY DEF Effect
<1>6. owner' \in [Phone -> Run \cup {None}]
  BY <1>1, <1>2
<1>7. holder' \in [Run -> Run \cup {None}]
  BY <1>1, <1>3
<1>8. ledger' \in [Run -> Nat] /\ synced' \in [Run -> Nat]
  BY <1>1, <1>4, <1>5
<1>9. known' \subseteq Run
  BY <1>1 DEF Effect
<1>10. QED
  BY <1>6, <1>7, <1>8, <1>9

-----------------------------------------------------------------------------
LEMMA PersonaInit == Init => PersonaInvariant
<1> SUFFICES ASSUME Init PROVE PersonaInvariant
  OBVIOUS
<1>1. \A r \in Run : Made(r) \in Nat /\ Seeds(r) \in Nat
  BY PersonaAssumption DEF Made, Seeds
<1>2. TypeOK
  BY <1>1, PersonaAssumption DEF Init, TypeOK, Waiting
<1>3. \A r \in Run : OwnOnly(r) /\ ~InPlan(r)
  BY <1>1 DEF Init, OwnOnly, InPlan, Waiting
<1>4. QED
  BY <1>2, <1>3 DEF PersonaInvariant

LEMMA PersonaStart ==
  ASSUME PersonaInvariant, NEW q \in Run, Start(q)
  PROVE  PersonaInvariant'
<1>1. PICK p \in Phone : phone' = [phone EXCEPT ![q] = p]
  BY DEF Start
<1>2. /\ stage[q] = 0 /\ stage' = [stage EXCEPT ![q] = 1]
      /\ UNCHANGED <<session, tries, shown, owner, holder, ledger, known, synced, resets>>
  BY DEF Start, stack, Waiting
<1>3. TypeOK
  BY DEF PersonaInvariant
<1>4. Made(q) \in Nat /\ Made(q) > 1 /\ 1 \in 1..(Made(q) - 1)
  BY PersonaAssumption DEF Made
<1>5. TypeOK'
  <2>1. stage' \in [Run -> Int] /\ \A r \in Run : stage'[r] \in -1..Made(r)
    BY <1>2, <1>3, <1>4 DEF TypeOK
  <2>2. phone' \in [Run -> Phone \cup {None}]
    BY <1>1, <1>3 DEF TypeOK
  <2>3. QED
    BY <1>2, <1>3, <2>1, <2>2 DEF TypeOK, Made
<1>6. ASSUME NEW r \in Run
      PROVE  OwnOnly(r)' /\ (InPlan(r)' => Reached(r)')
  <2>1. CASE r = q
    <3>1. OwnOnly(q) /\ ledger[q] = 0
      BY <1>2 DEF PersonaInvariant, OwnOnly, Waiting
    <3>2. stage'[q] = 1 /\ phone'[q] \in Phone
      BY <1>1, <1>2, <1>3 DEF TypeOK
    <3>3. SeedsBefore(q, 1) = 0 /\ RefreshAt(q) > 1 /\ RefreshAt(q) \in Int
      BY PersonaAssumption DEF SeedsBefore, RefreshAt
    <3>4. OwnOnly(q)'
      BY <1>2, <3>1, <3>2 DEF OwnOnly, Waiting, Seeds
    <3>5. Reached(q)'
      BY <1>2, <3>1, <3>2, <3>3 DEF Reached, SeedsBefore, RefreshAt
    <3>6. QED
      BY <2>1, <3>4, <3>5
  <2>2. CASE r # q
    <3>1. stage'[r] = stage[r] /\ phone'[r] = phone[r]
      BY <1>1, <1>2, <1>3, <2>2 DEF TypeOK
    <3>2. QED
      BY <1>2, <3>1 DEF PersonaInvariant, OwnOnly, InPlan, Reached, Made, Seeds,
                        SeedsBefore, RefreshAt
  <2>3. QED
    BY <2>1, <2>2
<1>7. QED
  BY <1>5, <1>6 DEF PersonaInvariant

\* A run that fails needs to have reached nothing.
LEMMA PersonaFails ==
  ASSUME PersonaInvariant, NEW q \in Run, TypeOK',
         stage' = [stage EXCEPT ![q] = Failed], UNCHANGED <<phone, session, shown>>,
         holder'[q] \in {None, q}, ledger'[q] <= Seeds(q),
         \A r \in Run \ {q} :
            /\ holder'[r] = holder[r] /\ ledger'[r] = ledger[r] /\ synced'[r] = synced[r]
            /\ InPlan(r) /\ stage[r] >= 2 => owner'[phone[r]] = r
  PROVE  PersonaInvariant'
<1>1. ASSUME NEW r \in Run
      PROVE  OwnOnly(r)' /\ (InPlan(r)' => Reached(r)')
  <2>1. CASE r = q
    <3>1. stage'[q] = -1 /\ session'[q] \in {None, q}
      BY DEF PersonaInvariant, TypeOK, OwnOnly, Failed
    <3>2. ~InPlan(q)'
      BY <3>1 DEF InPlan
    <3>3. OwnOnly(q)'
      BY <3>1 DEF OwnOnly, Waiting, Seeds
    <3>4. QED
      BY <2>1, <3>2, <3>3
  <2>2. CASE r # q
    <3>1. stage'[r] = stage[r]
      BY <2>2 DEF PersonaInvariant, TypeOK
    <3>2. /\ holder'[r] = holder[r] /\ ledger'[r] = ledger[r] /\ synced'[r] = synced[r]
          /\ InPlan(r) /\ stage[r] >= 2 => owner'[phone[r]] = r
      BY <2>2
    <3>3. OwnOnly(r)'
      BY <3>1, <3>2 DEF PersonaInvariant, OwnOnly, Waiting, Seeds
    <3>4. InPlan(r)' => Reached(r)'
      BY <3>1, <3>2 DEF PersonaInvariant, InPlan, Reached, Made, Seeds, SeedsBefore, RefreshAt
    <3>5. QED
      BY <3>3, <3>4
  <2>3. QED
    BY <2>1, <2>2
<1>2. QED
  BY <1>1 DEF PersonaInvariant

LEMMA PersonaReject ==
  ASSUME PersonaInvariant, NEW q \in Run, Reject(q)
  PROVE  PersonaInvariant'
<1>1. /\ stage' = [stage EXCEPT ![q] = Failed]
      /\ UNCHANGED <<phone, session, tries, shown, owner, holder, ledger, known, synced, resets>>
  BY DEF Reject, stack
<1>2. TypeOK'
  BY <1>1, PersonaAssumption DEF PersonaInvariant, TypeOK, Made, Failed
<1>3. OwnOnly(q) /\ \A r \in Run : InPlan(r) => Reached(r)
  BY DEF PersonaInvariant
<1>4. QED
  BY <1>1, <1>2, <1>3, PersonaFails DEF OwnOnly, Reached

LEMMA PersonaRefused ==
  ASSUME PersonaInvariant, NEW q \in Run, Fails(q), UNCHANGED stack
  PROVE  PersonaInvariant'
<1>1. /\ stage' = [stage EXCEPT ![q] = Failed]
      /\ UNCHANGED <<phone, session, tries, shown, owner, holder, ledger, known, synced, resets>>
  BY DEF Fails, stack
<1>2. TypeOK'
  BY <1>1, PersonaAssumption DEF PersonaInvariant, TypeOK, Made, Failed
<1>3. OwnOnly(q) /\ \A r \in Run : InPlan(r) => Reached(r)
  BY DEF PersonaInvariant
<1>4. QED
  BY <1>1, <1>2, <1>3, PersonaFails DEF OwnOnly, Reached

LEMMA PersonaLostAnswer ==
  ASSUME PersonaInvariant, NEW q \in Run, LostAnswer(q)
  PROVE  PersonaInvariant'
<1>1. PICK call \in Calls :
        At(q, call) /\ Accepts(q, call) /\ Effect(q, call) /\ Fails(q)
  BY DEF LostAnswer
<1>2. /\ stage' = [stage EXCEPT ![q] = Failed]
      /\ UNCHANGED <<phone, session, tries, shown, resets>>
  BY <1>1 DEF Fails
<1>3. PICK i \in 1..(Made(q) - 1) : i = stage[q]
  BY <1>1 DEF At, InPlan
<1>4. holder'[q] \in {None, q} /\ ledger'[q] = SeedsBefore(q, i + 1)
  BY <1>1, <1>3, EffectOnOwn
<1>5. ledger'[q] <= Seeds(q)
  BY <1>4, CallsInOrder
<1>6. TypeOK'
  <2>1. TypeOK
    BY DEF PersonaInvariant
  <2>2. /\ owner' \in [Phone -> Run \cup {None}]
        /\ holder' \in [Run -> Run \cup {None}]
        /\ ledger' \in [Run -> Nat] /\ synced' \in [Run -> Nat]
        /\ known' \subseteq Run
    BY <1>1, EffectTypes
  <2>3. stage' \in [Run -> Int] /\ \A r \in Run : stage'[r] \in -1..Made(r)
    BY <1>2, <2>1, PersonaAssumption DEF TypeOK, Made, Failed
  <2>4. QED
    BY <1>2, <2>1, <2>2, <2>3 DEF TypeOK, Made
<1>7. \A r \in Run \ {q} :
            /\ holder'[r] = holder[r] /\ ledger'[r] = ledger[r] /\ synced'[r] = synced[r]
            /\ InPlan(r) /\ stage[r] >= 2 => owner'[phone[r]] = r
  BY <1>1, EffectOnOthers
<1>8. QED
  BY <1>2, <1>4, <1>5, <1>6, <1>7, PersonaFails

LEMMA PersonaSucceeds ==
  ASSUME PersonaInvariant, NEW q \in Run, NEW call \in Calls,
         At(q, call), Accepts(q, call), Effect(q, call), Answered(q, call)
  PROVE  /\ PersonaInvariant'
         /\ stage'[q] = Made(q) => Whole(q)'
<1>1. /\ stage' = [stage EXCEPT ![q] = stage[q] + 1]
      /\ UNCHANGED <<phone, tries, resets>>
      /\ session' = IF call = "login" THEN [session EXCEPT ![q] = owner[phone[q]]] ELSE session
      /\ shown' = IF call \in {"monthly", "category"}
                  THEN [shown EXCEPT ![q] = synced[q]] ELSE shown
  BY DEF Answered
<1>2. TypeOK /\ OwnOnly(q) /\ Reached(q)
  BY DEF PersonaInvariant, At
<1>3. PICK i \in 1..(Made(q) - 1) : i = stage[q] /\ Call(q, i) = call
  BY DEF At, InPlan
<1>4. /\ Made(q) \in Nat /\ i \in Int /\ i >= 1 /\ RefreshAt(q) \in Int
      /\ RefreshAt(q) > 3 /\ Made(q) = RefreshAt(q) + 3
  BY <1>3, PersonaAssumption DEF Made, RefreshAt
<1>5. /\ stage'[q] = i + 1 /\ phone'[q] = phone[q]
      /\ \A r \in Run \ {q} : stage'[r] = stage[r] /\ session'[r] = session[r] /\ shown'[r] = shown[r]
  BY <1>1, <1>2, <1>3 DEF TypeOK
<1>6. /\ call = "login" => i = 2
      /\ i = 2 => call = "login"
      /\ call \in {"monthly", "category"} <=> i > RefreshAt(q)
      /\ SeedsBefore(q, i + 1) <= Seeds(q)
  BY <1>3, CallsInOrder
<1>7. /\ owner'[phone[q]] = q
      /\ i >= 3 => holder'[q] = q
      /\ holder'[q] \in {None, q}
      /\ ledger'[q] = SeedsBefore(q, i + 1)
      /\ i >= RefreshAt(q) => synced'[q] = Seeds(q)
  BY <1>3, EffectOnOwn
<1>8. (i >= 2 => session'[q] = q) /\ session'[q] \in {None, q}
  <2>1. CASE i = 2
    BY <1>1, <1>2, <1>3, <1>4, <1>6, <2>1 DEF Reached, TypeOK
  <2>2. CASE i # 2
    BY <1>1, <1>2, <1>3, <1>4, <1>6, <2>2 DEF Reached, OwnOnly
  <2>3. QED
    BY <2>1, <2>2
<1>9. i > RefreshAt(q) => shown'[q] = Seeds(q)
  BY <1>1, <1>2, <1>3, <1>6 DEF Reached, TypeOK
<1>10. phone[q] \in Phone
  BY <1>2 DEF Reached
<1>11. Reached(q)'
  <2>1. /\ stage'[q] >= 2 => owner'[phone'[q]] = q
        /\ stage'[q] >= 3 => session'[q] = q
        /\ stage'[q] >= 4 => holder'[q] = q
    BY <1>4, <1>5, <1>7, <1>8
  <2>2. ledger'[q] = SeedsBefore(q, stage'[q])
    BY <1>5, <1>7
  <2>3. /\ stage'[q] > RefreshAt(q) => synced'[q] = Seeds(q)
        /\ stage'[q] > RefreshAt(q) + 1 => shown'[q] = Seeds(q)
    BY <1>4, <1>5, <1>7, <1>9
  <2>4. QED
    BY <1>5, <1>10, <2>1, <2>2, <2>3 DEF Reached, Seeds, SeedsBefore, RefreshAt
<1>12. OwnOnly(q)'
  BY <1>4, <1>5, <1>6, <1>7, <1>8 DEF OwnOnly, Waiting, Seeds
<1>13. TypeOK'
  <2>1. /\ owner' \in [Phone -> Run \cup {None}]
        /\ holder' \in [Run -> Run \cup {None}]
        /\ ledger' \in [Run -> Nat] /\ synced' \in [Run -> Nat]
        /\ known' \subseteq Run
    BY EffectTypes
  <2>2. stage' \in [Run -> Int] /\ \A r \in Run : stage'[r] \in -1..Made(r)
    <3>1. i + 1 \in -1..Made(q) /\ stage[q] = i
      BY <1>3, <1>4
    <3>2. stage \in [Run -> Int] /\ \A r \in Run : stage[r] \in -1..Made(r)
      BY <1>2 DEF TypeOK
    <3>3. QED
      BY <1>1, <1>4, <3>1, <3>2
  <2>3. session' \in [Run -> Run \cup {None}]
    BY <1>1, <1>2, <1>10 DEF TypeOK
  <2>4. shown' \in [Run -> Nat]
    BY <1>1, <1>2 DEF TypeOK
  <2>5. QED
    BY <1>1, <1>2, <2>1, <2>2, <2>3, <2>4 DEF TypeOK, Made
<1>14. ASSUME NEW r \in Run, r # q
       PROVE  OwnOnly(r)' /\ (InPlan(r)' => Reached(r)')
  <2>1. stage'[r] = stage[r] /\ session'[r] = session[r] /\ shown'[r] = shown[r]
    BY <1>5, <1>14
  <2>2. /\ holder'[r] = holder[r] /\ ledger'[r] = ledger[r] /\ synced'[r] = synced[r]
        /\ InPlan(r) /\ stage[r] >= 2 => owner'[phone[r]] = r
    BY <1>14, EffectOnOthers
  <2>3. OwnOnly(r)'
    BY <2>1, <2>2 DEF PersonaInvariant, OwnOnly, Waiting, Seeds
  <2>4. InPlan(r)' => Reached(r)'
    BY <1>1, <2>1, <2>2 DEF PersonaInvariant, InPlan, Reached, Made, Seeds, SeedsBefore, RefreshAt
  <2>5. QED
    BY <2>3, <2>4
<1>15. stage'[q] = Made(q) => Whole(q)'
  <2>1. SUFFICES ASSUME stage'[q] = Made(q)
                 PROVE  Whole(q)'
    OBVIOUS
  <2>2. i > RefreshAt(q) /\ i >= 3 /\ i + 1 = Made(q)
    BY <1>4, <1>5, <2>1
  <2>3. SeedsBefore(q, i + 1) = Seeds(q)
    BY <2>2, PersonaAssumption DEF SeedsBefore, Seeds, Made
  <2>4. QED
    BY <1>5, <1>7, <1>9, <2>2, <2>3 DEF Whole, Seeds
<1>16. QED
  BY <1>11, <1>12, <1>13, <1>14, <1>15 DEF PersonaInvariant

LEMMA PersonaPollAgain ==
  ASSUME PersonaInvariant, NEW q \in Run, PollAgain(q)
  PROVE  PersonaInvariant'
<1>1. CASE tries[q] + 1 < MaxTries
  <2>1. /\ tries' = [tries EXCEPT ![q] = tries[q] + 1]
        /\ UNCHANGED <<stage, phone, session, shown, owner, holder, ledger, known, synced, resets>>
    BY <1>1 DEF PollAgain, stack
  <2>2. tries' \in [Run -> 0..(MaxTries - 1)]
    BY <1>1, <2>1, PersonaAssumption DEF PersonaInvariant, TypeOK
  <2>3. TypeOK'
    BY <2>1, <2>2 DEF PersonaInvariant, TypeOK, Made
  <2>4. QED
    BY <2>1, <2>3 DEF PersonaInvariant, OwnOnly, InPlan, Reached, Made, Seeds,
                      SeedsBefore, RefreshAt
<1>2. CASE ~(tries[q] + 1 < MaxTries)
  BY <1>2, PersonaRefused DEF PollAgain
<1>3. QED
  BY <1>1, <1>2

LEMMA PersonaProject ==
  ASSUME PersonaInvariant, NEW q \in Run, Project(q)
  PROVE  PersonaInvariant'
<1>1. /\ known' = known \cup {q}
      /\ UNCHANGED <<stage, phone, session, tries, shown, owner, holder, ledger, synced, resets>>
  BY DEF Project, tool
<1>2. QED
  BY <1>1 DEF PersonaInvariant, TypeOK, OwnOnly, InPlan, Reached, Made, Seeds,
              SeedsBefore, RefreshAt

LEMMA PersonaReset ==
  ASSUME PersonaInvariant, Reset
  PROVE  PersonaInvariant'
<1>1. TypeOK
  BY DEF PersonaInvariant
<1>2. TypeOK'
  BY <1>1, PersonaAssumption DEF Reset, TypeOK, Made, Failed
<1>3. ASSUME NEW r \in Run
      PROVE  OwnOnly(r)' /\ ~InPlan(r)'
  <2>1. holder'[r] = None /\ ledger'[r] = 0 /\ session'[r] = session[r]
    BY DEF Reset
  <2>2. ~InPlan(r)'
    BY PersonaAssumption DEF Reset, InPlan, Failed, Made
  <2>3. Seeds(r) \in Nat
    BY PersonaAssumption DEF Seeds
  <2>4. QED
    BY <2>1, <2>2, <2>3 DEF PersonaInvariant, OwnOnly, Seeds
<1>4. QED
  BY <1>2, <1>3 DEF PersonaInvariant

\* An unchanged state satisfies what it did.
LEMMA PersonaStutter ==
  ASSUME PersonaInvariant, UNCHANGED vars
  PROVE  PersonaInvariant'
BY DEF vars, PersonaInvariant, TypeOK, OwnOnly, InPlan, Reached, Made, Seeds,
       SeedsBefore, RefreshAt

LEMMA PersonaStep ==
  ASSUME PersonaInvariant, NEW q \in Run, Step(q)
  PROVE  PersonaInvariant'
<1>1. CASE Succeeds(q)
  BY <1>1, PersonaSucceeds DEF Succeeds
<1>2. CASE Refused(q)
  BY <1>2, PersonaRefused DEF Refused
<1>3. CASE LostAnswer(q)
  BY <1>3, PersonaLostAnswer
<1>4. CASE NoAnswer(q)
  BY <1>4, PersonaRefused DEF NoAnswer
<1>5. CASE PollAgain(q)
  BY <1>5, PersonaPollAgain
<1>6. QED
  BY <1>1, <1>2, <1>3, <1>4, <1>5 DEF Step

LEMMA PersonaNext ==
  ASSUME PersonaInvariant, [Next]_vars
  PROVE  PersonaInvariant'
<1>1. ASSUME NEW q \in Run, Start(q) \/ Reject(q) \/ Step(q) \/ Project(q)
      PROVE  PersonaInvariant'
  BY <1>1, PersonaStart, PersonaReject, PersonaStep, PersonaProject
<1>2. CASE Reset
  BY <1>2, PersonaReset
<1>3. CASE Done
  BY <1>3, PersonaStutter DEF Done
<1>4. CASE UNCHANGED vars
  BY <1>4, PersonaStutter
<1>5. QED
  BY <1>1, <1>2, <1>3, <1>4 DEF Next

\* Only a call that was answered makes a persona.
LEMMA OnlyAnswersMake ==
  ASSUME PersonaInvariant, [Next]_vars, NEW r \in Run,
         stage[r] # Made(r), stage'[r] = Made(r)
  PROVE  Whole(r)'
<1>1. stage \in [Run -> Int] /\ Made(r) \in Nat /\ Made(r) > 1
  BY PersonaAssumption DEF PersonaInvariant, TypeOK, Made
<1>2. PICK q \in Run : Start(q) \/ Reject(q) \/ Step(q) \/ Project(q) \/ Reset
  BY <1>1 DEF Next, Done, vars
<1>3. /\ ~(\E p \in Run : Start(p) \/ Reject(p) \/ Project(p) \/ Refused(p)
                         \/ LostAnswer(p) \/ NoAnswer(p) \/ PollAgain(p))
      /\ ~Reset
  BY <1>1 DEF Start, Reject, Project, Refused, LostAnswer, NoAnswer, PollAgain, Fails, Reset,
              Failed, tool
<1>4. PICK call \in Calls :
        At(q, call) /\ Accepts(q, call) /\ Effect(q, call) /\ Answered(q, call)
  BY <1>2, <1>3 DEF Step, Succeeds
<1>5. q = r
  BY <1>1, <1>4 DEF Answered
<1>6. QED
  BY <1>4, <1>5, PersonaSucceeds

-----------------------------------------------------------------------------
\* Whatever calls fail and whatever numbers clash, each run has done what its
\* place in the plan says and nothing else: the inductive invariant.
THEOREM PersonaInvariantHolds == Spec => []PersonaInvariant
<1>1. Init => PersonaInvariant
  BY PersonaInit
<1>2. PersonaInvariant /\ [Next]_vars => PersonaInvariant'
  BY PersonaNext
<1>3. QED
  BY <1>1, <1>2, PTL DEF Spec

\* Types of all variables.
THEOREM PersonaTypes == Spec => []TypeOK
<1>1. PersonaInvariant => TypeOK
  BY DEF PersonaInvariant
<1>2. QED
  BY <1>1, PersonaInvariantHolds, PTL

\* No run acts as the user another run registered, though phone numbers may
\* clash and PINs are all the same.
THEOREM NobodyElse == Spec => []OwnUserOnly
<1>1. PersonaInvariant => OwnUserOnly
  BY DEF PersonaInvariant, OwnOnly, OwnUserOnly
<1>2. QED
  BY <1>1, PersonaInvariantHolds, PTL

\* No run seeds more than its plan says, whichever answers are lost.
THEOREM NoDoubleSeeding == Spec => []SeededOnce
<1>1. PersonaInvariant => SeededOnce
  BY DEF PersonaInvariant, OwnOnly, SeededOnce
<1>2. QED
  BY <1>1, PersonaInvariantHolds, PTL

\* A persona is reported only when it is complete and its aggregates contain
\* all of its transactions.
THEOREM MadeMeansWhole == Spec => MadeIsWhole
<1>1. PersonaInvariant /\ [Next]_vars =>
        [\A r \in Run : stage[r] # Made(r) /\ stage'[r] = Made(r) => Whole(r)']_vars
  BY OnlyAnswersMake
<1>2. QED
  BY <1>1, PersonaInvariantHolds, PTL DEF Spec, MadeIsWhole
=============================================================================
