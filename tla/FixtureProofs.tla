---------------------------- MODULE FixtureProofs ---------------------------
(***************************************************************************)
(* Proof that the fixture of IntegrationFixture leaves the system as it    *)
(* found it, for any messages and any number of runs.                      *)
(***************************************************************************)
EXTENDS IntegrationFixture, TLAPS

-----------------------------------------------------------------------------
(***************************************************************************)
(* What statements have in common.                                         *)
(***************************************************************************)
LEMMA Messaging ==
  Len(Messages) \in Nat \ {0} /\ \A i \in 1..Len(Messages) : Messages[i] \in Topic
BY FixtureAssumption DEF Topic

LEMMA AddedGrows ==
  ASSUME Types, NEW stores, Added(stores)
  PROVE  /\ content' \in [Store -> SUBSET {"fixture", "others"}]
         /\ \A s \in Store : content[s] \subseteq content'[s]
         /\ \A s \in Store : s \notin stores => content'[s] = content[s]
BY DEF Types, Added

\* An exception in a statement that only adds rows and messages.
LEMMA RaiseKeeps ==
  ASSUME FixtureInvariant, step # 0, Raise,
         UNCHANGED <<owns, written, committed, found, runs>>,
         content' \in [Store -> SUBSET {"fixture", "others"}],
         \A s \in Store : content[s] \subseteq content'[s],
         sent' \in 0..Len(Messages), wanted' \in [Topic -> Nat], log' \in [Topic -> Nat],
         asked' \in BOOLEAN, LogInvariant'
  PROVE  FixtureInvariant'
<1> USE DEF FixtureInvariant
<1>1. \A s \in Store : found'[s] \subseteq content'[s]
  BY DEF OwnershipInvariant
<1>2. CASE owns /\ step < Finally
  <2>1. step' = 12 /\ raised' = TRUE /\ UNCHANGED outcome /\ step \in 5..11
    BY <1>2 DEF Raise, Finally, Place, OwnershipInvariant, Types
  <2>2. Types'
    BY <2>1 DEF Types
  <2>3. OwnershipInvariant'
    BY <1>1, <1>2, <2>1 DEF OwnershipInvariant
  <2>4. SmoothInvariant' /\ EndInvariant'
    BY <2>1 DEF SmoothInvariant, EndInvariant
  <2> QED BY <2>2, <2>3, <2>4
<1>3. CASE ~(owns /\ step < Finally)
  <2>1. step' = 0 /\ outcome' = "failed" /\ UNCHANGED raised
    BY <1>3 DEF Raise, Ends
  <2>2. Types'
    BY <2>1 DEF Types
  <2>3. OwnershipInvariant'
    BY <1>1, <2>1 DEF OwnershipInvariant
  <2>4. SmoothInvariant' /\ EndInvariant'
    BY <2>1 DEF SmoothInvariant, EndInvariant
  <2> QED BY <2>2, <2>3, <2>4
<1> QED BY <1>2, <1>3

\* A statement of the owner that succeeds.
LEMMA OnwardKeeps ==
  ASSUME FixtureInvariant, step \in 5..14, step' = step \/ step' = step + 1,
         UNCHANGED <<raised, outcome, owns, written, committed, asked, found, runs>>,
         content' \in [Store -> SUBSET {"fixture", "others"}],
         \A s \in Store : found[s] \subseteq content'[s],
         sent' \in 0..Len(Messages), wanted' \in [Topic -> Nat], log' \in [Topic -> Nat],
         LogInvariant', SmoothInvariant'
  PROVE  FixtureInvariant'
<1> USE DEF FixtureInvariant
<1>1. step' \in 5..15 /\ step # 0 /\ step' # 0
  OBVIOUS
<1>2. Types'
  BY <1>1 DEF Types
<1>3. OwnershipInvariant'
  BY <1>1 DEF OwnershipInvariant
<1>4. EndInvariant'
  BY <1>1 DEF EndInvariant
<1> QED BY <1>2, <1>3, <1>4

-----------------------------------------------------------------------------
(***************************************************************************)
(* The statements of a run.                                                *)
(***************************************************************************)
LEMMA InitInvariant ==
  ASSUME Init
  PROVE  FixtureInvariant
<1>1. Len(Messages) \in Nat
  BY FixtureAssumption
<1>2. Types
  <2>1. {{}, {"others"}} \subseteq SUBSET {"fixture", "others"}
    OBVIOUS
  <2>2. content \in [Store -> SUBSET {"fixture", "others"}] /\ found = content
    BY <2>1 DEF Init
  <2>3. /\ wanted \in [Topic -> Nat] /\ log \in [Topic -> Nat]
        /\ written \in [Topic -> Nat] /\ committed \in [Topic -> Nat]
    BY DEF Init
  <2>4. sent \in 0..Len(Messages) /\ runs \in 0..MaxRuns
    BY <1>1, FixtureAssumption DEF Init
  <2>5. owns \in BOOLEAN /\ raised \in BOOLEAN /\ asked \in BOOLEAN
    BY DEF Init
  <2>6. step \in 0..15 /\ outcome \in {"none", "failed", "killed", "cleaned", "passed"}
    BY DEF Init
  <2> QED BY <2>2, <2>3, <2>4, <2>5, <2>6 DEF Types
<1>3. LogInvariant
  BY DEF Init, LogInvariant
<1>4. OwnershipInvariant /\ SmoothInvariant /\ EndInvariant
  BY DEF Init, OwnershipInvariant, SmoothInvariant, EndInvariant
<1> QED BY <1>2, <1>3, <1>4 DEF FixtureInvariant

LEMMA ChecksKeep ==
  ASSUME FixtureInvariant, NEW s \in Store, Check(s)
  PROVE  FixtureInvariant'
<1> USE DEF FixtureInvariant
<1>0. /\ UNCHANGED <<content, sent, wanted, log, written, committed, asked, found, runs>>
      /\ step \in 1..4 /\ ~owns
  BY DEF Check, At, Place, Store, kafka, OwnershipInvariant
<1>1. CASE content[s] = {}
  <2>1. step' = step + 1 /\ UNCHANGED <<raised, outcome>>
    BY <1>1 DEF Check, Onward
  <2>2. found[s] = {} /\ step = Place[s] /\ \A r \in Store : found[r] \subseteq content[r]
    BY <1>1 DEF OwnershipInvariant, Check, At
  <2>3. Types'
    <3>1. owns' \in BOOLEAN
      BY DEF Check, Types
    <3>2. step' \in 0..15
      BY <1>0, <2>1
    <3> QED BY <1>0, <2>1, <3>1, <3>2 DEF Types
  <2>4. LogInvariant'
    BY <1>0 DEF LogInvariant
  <2>5. OwnershipInvariant'
    <3>1. CASE s = "account"
      <4>1. step = 1 /\ ~owns' /\ found["account"] = {}
        BY <1>0, <2>2, <3>1 DEF Check, Place
      <4> QED BY <1>0, <2>1, <2>2, <4>1 DEF OwnershipInvariant
    <3>2. CASE s = "snapshot"
      <4>1. step = 2 /\ ~owns' /\ found["snapshot"] = {}
        BY <1>0, <2>2, <3>2 DEF Check, Place
      <4> QED BY <1>0, <2>1, <2>2, <4>1 DEF OwnershipInvariant
    <3>3. CASE s = "work"
      <4>1. step = 3 /\ ~owns' /\ found["work"] = {}
        BY <1>0, <2>2, <3>3 DEF Check, Place
      <4> QED BY <1>0, <2>1, <2>2, <4>1 DEF OwnershipInvariant
    <3>4. CASE s = "cache"
      <4>1. step = 4 /\ owns' /\ found["cache"] = {}
        BY <1>1, <2>2, <3>4 DEF Check, Place
      <4> QED BY <1>0, <2>1, <2>2, <4>1 DEF OwnershipInvariant
    <3> QED BY <3>1, <3>2, <3>3, <3>4 DEF Store
  <2>6. SmoothInvariant' /\ EndInvariant'
    BY <1>0, <2>1 DEF SmoothInvariant, EndInvariant
  <2> QED BY <2>3, <2>4, <2>5, <2>6
<1>2. CASE content[s] # {}
  <2>1. step' = 0 /\ outcome' = "failed" /\ raised' = raised /\ owns' = owns
    BY <1>0, <1>2 DEF Check, Raise, Ends
  <2>2. Types'
    BY <1>0, <2>1 DEF Types
  <2>3. LogInvariant'
    BY <1>0 DEF LogInvariant
  <2>4. OwnershipInvariant' /\ SmoothInvariant' /\ EndInvariant'
    BY <1>0, <2>1 DEF OwnershipInvariant, SmoothInvariant, EndInvariant
  <2> QED BY <2>2, <2>3, <2>4
<1> QED BY <1>1, <1>2

LEMMA BeginKeeps ==
  ASSUME FixtureInvariant, Begin
  PROVE  FixtureInvariant'
<1>1. Types'
  <2>1. sent' \in 0..Len(Messages) /\ runs' \in 0..MaxRuns
    BY FixtureAssumption DEF FixtureInvariant, Types, Begin
  <2>2. wanted' \in [Topic -> Nat]
    BY DEF Begin
  <2>3. owns' \in BOOLEAN /\ raised' \in BOOLEAN
    BY DEF Begin
  <2>4. step' \in 0..15 /\ outcome' \in {"none", "failed", "killed", "cleaned", "passed"}
    BY DEF Begin
  <2>5. UNCHANGED <<content, log, written, committed, asked>> /\ found' = content
    BY DEF Begin, kafka
  <2> QED BY <2>1, <2>2, <2>3, <2>4, <2>5 DEF FixtureInvariant, Types
<1>2. LogInvariant'
  BY DEF FixtureInvariant, LogInvariant, Begin, kafka
<1>3. OwnershipInvariant' /\ SmoothInvariant' /\ EndInvariant'
  BY DEF FixtureInvariant, OwnershipInvariant, SmoothInvariant, EndInvariant, Begin, kafka
<1> QED BY <1>1, <1>2, <1>3 DEF FixtureInvariant

LEMMA BreaksKeeps ==
  ASSUME FixtureInvariant, Breaks
  PROVE  FixtureInvariant'
<1>1. Types /\ LogInvariant
  BY DEF FixtureInvariant
<1>2. UNCHANGED <<content, owns, sent, wanted, log, written, committed, asked, found, runs>>
  BY DEF Breaks, kafka
<1>3. LogInvariant'
  BY <1>1, <1>2 DEF LogInvariant
<1> QED BY <1>1, <1>2, <1>3, RaiseKeeps DEF Breaks, Types

LEMMA InsertKeeps ==
  ASSUME FixtureInvariant, Insert
  PROVE  FixtureInvariant'
<1>1. Types /\ LogInvariant /\ SmoothInvariant /\ OwnershipInvariant
  BY DEF FixtureInvariant
<1>2. /\ UNCHANGED <<owns, sent, wanted, log, written, committed, asked, found, runs>>
      /\ step = 5
  BY DEF Insert, kafka, At, Place
<1>3. LogInvariant'
  BY <1>1, <1>2 DEF LogInvariant
<1>4. /\ content' \in [Store -> SUBSET {"fixture", "others"}]
      /\ \A s \in Store : content[s] \subseteq content'[s]
  BY <1>1, AddedGrows DEF Insert
<1>5. CASE Onward
  <2>1. SmoothInvariant'
    BY <1>1, <1>2, <1>5 DEF SmoothInvariant, Onward
  <2>2. \A s \in Store : found[s] \subseteq content'[s]
    BY <1>1, <1>4 DEF OwnershipInvariant
  <2> QED BY <1>1, <1>2, <1>3, <1>4, <1>5, <2>1, <2>2, OnwardKeeps DEF Onward, Types
<1>6. CASE Raise
  BY <1>1, <1>2, <1>3, <1>4, <1>6, RaiseKeeps DEF Types
<1> QED BY <1>5, <1>6 DEF Insert

LEMMA InspectRpcKeeps ==
  ASSUME FixtureInvariant, InspectRpc
  PROVE  FixtureInvariant'
<1>1. Types /\ LogInvariant /\ SmoothInvariant /\ OwnershipInvariant
  BY DEF FixtureInvariant
<1>2. /\ UNCHANGED <<owns, sent, wanted, log, written, committed, asked, found, runs>>
      /\ step = 6
  BY DEF InspectRpc, kafka, At, Place
<1>3. LogInvariant'
  BY <1>1, <1>2 DEF LogInvariant
<1>4. /\ content' \in [Store -> SUBSET {"fixture", "others"}]
      /\ \A s \in Store : content[s] \subseteq content'[s]
  BY <1>1, AddedGrows DEF InspectRpc
<1>5. CASE Onward
  <2>1. SmoothInvariant'
    BY <1>1, <1>2, <1>5 DEF SmoothInvariant, Onward
  <2>2. \A s \in Store : found[s] \subseteq content'[s]
    BY <1>1, <1>4 DEF OwnershipInvariant
  <2> QED BY <1>1, <1>2, <1>3, <1>4, <1>5, <2>1, <2>2, OnwardKeeps DEF Onward, Types
<1>6. CASE Raise
  BY <1>1, <1>2, <1>3, <1>4, <1>6, RaiseKeeps DEF Types
<1> QED BY <1>5, <1>6 DEF InspectRpc

LEMMA InspectHttpKeeps ==
  ASSUME FixtureInvariant, InspectHttp
  PROVE  FixtureInvariant'
<1>1. Types /\ LogInvariant /\ SmoothInvariant /\ OwnershipInvariant
  BY DEF FixtureInvariant
<1>2. /\ UNCHANGED <<owns, sent, wanted, log, written, committed, found, runs>>
      /\ step = 7
  BY DEF InspectHttp, kafka, At, Place
<1>3. LogInvariant'
  BY <1>1, <1>2 DEF LogInvariant
<1>4. /\ content' \in [Store -> SUBSET {"fixture", "others"}]
      /\ \A s \in Store : content[s] \subseteq content'[s]
  BY <1>1, AddedGrows DEF InspectHttp
<1>5. CASE Onward /\ UNCHANGED asked
  <2>1. SmoothInvariant'
    BY <1>1, <1>2, <1>5, Messaging DEF SmoothInvariant, Onward
  <2>2. \A s \in Store : found[s] \subseteq content'[s]
    BY <1>1, <1>4 DEF OwnershipInvariant
  <2> QED BY <1>1, <1>2, <1>3, <1>4, <1>5, <2>1, <2>2, OnwardKeeps DEF Onward, Types
<1>6. CASE Raise /\ asked' \in BOOLEAN
  BY <1>1, <1>2, <1>3, <1>4, <1>6, RaiseKeeps DEF Types
<1> QED BY <1>5, <1>6 DEF InspectHttp

LEMMA SendKeeps ==
  ASSUME FixtureInvariant, Send
  PROVE  FixtureInvariant'
<1> DEFINE t == Messages[sent + 1]
<1>1. Types /\ LogInvariant /\ SmoothInvariant /\ OwnershipInvariant
  BY DEF FixtureInvariant
<1>2. /\ UNCHANGED <<content, owns, written, committed, asked, found, runs>>
      /\ step = 8 /\ ~raised /\ sent' = sent + 1
      /\ log' = [log EXCEPT ![t] = @ + 1] /\ wanted' = [wanted EXCEPT ![t] = log[t] + 1]
  BY <1>1 DEF Send, At, Place, SmoothInvariant
<1>3. sent \in Nat /\ sent < Len(Messages) /\ t \in Topic /\ sent' \in 0..Len(Messages)
  BY <1>1, <1>2, Messaging DEF SmoothInvariant, Types
<1>4. wanted' \in [Topic -> Nat] /\ log' \in [Topic -> Nat]
  BY <1>1, <1>2, <1>3 DEF Types
<1>5. LogInvariant'
  <2>1. \A u \in Topic : log[u] \in Nat /\ log'[u] \in Nat /\ log'[u] >= log[u]
    BY <1>1, <1>2, <1>3 DEF Types
  <2>2. \A u \in Topic : written[u] \in Nat
    BY <1>1 DEF Types
  <2>3. \A u \in Topic : committed'[u] <= written'[u] /\ written'[u] <= log'[u]
    BY <1>1, <1>2, <2>1, <2>2 DEF LogInvariant
  <2>4. ASSUME NEW i \in 1..sent'
        PROVE  wanted'[Messages[i]] = log'[Messages[i]]
    <3>1. Messages[i] \in Topic
      BY <1>3, Messaging
    <3>2. CASE Messages[i] = t
      BY <1>1, <1>2, <1>3, <3>2 DEF Types
    <3>3. CASE Messages[i] # t
      <4>1. i \in 1..sent
        BY <1>2, <1>3, <3>3
      <4> QED BY <1>1, <1>2, <3>1, <3>3, <4>1 DEF LogInvariant, Types
    <3> QED BY <3>2, <3>3
  <2> QED BY <2>3, <2>4 DEF LogInvariant
<1>6. CASE /\ step' = (IF sent' = Len(Messages) THEN step + 1 ELSE step)
           /\ UNCHANGED <<raised, outcome>>
  <2>1. SmoothInvariant'
    BY <1>1, <1>2, <1>3, <1>6, Messaging DEF SmoothInvariant
  <2>2. \A s \in Store : found[s] \subseteq content'[s]
    BY <1>1, <1>2 DEF OwnershipInvariant
  <2>3. step' = step \/ step' = step + 1
    BY <1>6
  <2> QED BY <1>1, <1>2, <1>3, <1>4, <1>5, <1>6, <2>1, <2>2, <2>3, OnwardKeeps DEF Types
<1>7. CASE Raise
  BY <1>1, <1>2, <1>3, <1>4, <1>5, <1>7, RaiseKeeps DEF Types
<1> QED BY <1>6, <1>7 DEF Send

LEMMA WaitKeeps ==
  ASSUME FixtureInvariant, Wait
  PROVE  FixtureInvariant'
<1>1. Types /\ LogInvariant /\ SmoothInvariant /\ OwnershipInvariant
  BY DEF FixtureInvariant
<1>2. /\ UNCHANGED <<content, owns, sent, wanted, log, written, committed, asked, found, runs>>
      /\ step = 9 /\ step' = 10 /\ ~raised /\ UNCHANGED <<raised, outcome>>
  BY <1>1 DEF Wait, Onward, kafka, At, Place, SmoothInvariant
<1>3. LogInvariant'
  BY <1>1, <1>2 DEF LogInvariant
<1>4. \A s \in Store : found[s] \subseteq content'[s]
  BY <1>1, <1>2 DEF OwnershipInvariant
\* Everything was sent, so every topic is waited for.
<1>5. committed = log
  <2>1. sent = Len(Messages)
    BY <1>1, <1>2 DEF SmoothInvariant
  <2>2. ASSUME NEW t \in Topic
        PROVE  committed[t] = log[t]
    <3>1. PICK i \in 1..Len(Messages) : t = Messages[i]
      BY FixtureAssumption DEF Topic
    <3>2. wanted[t] = log[t]
      BY <1>1, <2>1, <3>1 DEF LogInvariant
    <3>3. committed[t] >= wanted[t]
      BY DEF Wait, Waited
    <3>4. committed[t] \in Nat /\ written[t] \in Nat /\ log[t] \in Nat
      BY <1>1 DEF Types
    <3>5. committed[t] <= written[t] /\ written[t] <= log[t]
      BY <1>1 DEF LogInvariant
    <3> QED BY <3>2, <3>3, <3>4, <3>5
  <2> QED BY <1>1, <2>2 DEF Types
<1>6. SmoothInvariant'
  BY <1>1, <1>2, <1>5 DEF SmoothInvariant
<1> QED BY <1>1, <1>2, <1>3, <1>4, <1>6, OnwardKeeps DEF Types

LEMMA ReadKeeps ==
  ASSUME FixtureInvariant, Read
  PROVE  FixtureInvariant'
<1>1. Types /\ LogInvariant /\ SmoothInvariant /\ OwnershipInvariant
  BY DEF FixtureInvariant
<1>2. /\ UNCHANGED <<content, owns, sent, wanted, log, written, committed, asked, found, runs>>
      /\ step = 10 \/ step = 11
  BY DEF Read, kafka, At, Place
<1>3. LogInvariant'
  BY <1>1, <1>2 DEF LogInvariant
<1>4. \A s \in Store : found[s] \subseteq content'[s]
  BY <1>1, <1>2 DEF OwnershipInvariant
<1>5. CASE Onward /\ (step = 11 => content["snapshot"] = {})
  <2>1. SmoothInvariant'
    BY <1>1, <1>2, <1>5 DEF SmoothInvariant, Onward
  <2> QED BY <1>1, <1>2, <1>3, <1>4, <1>5, <2>1, OnwardKeeps DEF Onward, Types
<1>6. CASE Raise
  BY <1>1, <1>2, <1>3, <1>6, RaiseKeeps DEF Types
<1> QED BY <1>5, <1>6 DEF Read, At, Place

-----------------------------------------------------------------------------
(***************************************************************************)
(* The clean-up.  What it empties was empty when the run came.             *)
(***************************************************************************)
LEMMA EmptiedKeepsFound ==
  ASSUME Types, OwnershipInvariant, NEW s \in Store, Emptied(s), found[s] = {}
  PROVE  /\ content' \in [Store -> SUBSET {"fixture", "others"}]
         /\ \A r \in Store : found[r] \subseteq content'[r]
         /\ content'[s] = {} /\ \A r \in Store : r # s => content'[r] = content[r]
<1>1. /\ content' \in [Store -> SUBSET {"fixture", "others"}]
      /\ content'[s] = {} /\ \A r \in Store : r # s => content'[r] = content[r]
  BY DEF Types, Emptied
<1>2. \A r \in Store : found[r] \subseteq content[r]
  BY DEF OwnershipInvariant
<1> QED BY <1>1, <1>2

LEMMA DeleteWorkKeeps ==
  ASSUME FixtureInvariant, DeleteWork
  PROVE  FixtureInvariant'
<1>1. Types /\ LogInvariant /\ SmoothInvariant /\ OwnershipInvariant
  BY DEF FixtureInvariant
<1>2. /\ UNCHANGED <<owns, sent, wanted, log, written, committed, asked, found, runs>>
      /\ step = 12 /\ step' = 13 /\ UNCHANGED <<raised, outcome>>
  BY DEF DeleteWork, Onward, kafka, At, Place
<1>3. found["work"] = {}
  BY <1>1, <1>2 DEF OwnershipInvariant
<1>4. /\ content' \in [Store -> SUBSET {"fixture", "others"}]
      /\ \A r \in Store : found[r] \subseteq content'[r]
      /\ content'["work"] = {} /\ content'["snapshot"] = content["snapshot"]
  BY <1>1, <1>3, EmptiedKeepsFound DEF DeleteWork, Store
<1>5. LogInvariant'
  BY <1>1, <1>2 DEF LogInvariant
<1>6. SmoothInvariant'
  BY <1>1, <1>2, <1>4 DEF SmoothInvariant
<1> QED BY <1>1, <1>2, <1>4, <1>5, <1>6, OnwardKeeps DEF Types

LEMMA CountWorkKeeps ==
  ASSUME FixtureInvariant, CountWork
  PROVE  FixtureInvariant'
<1>1. Types /\ LogInvariant /\ SmoothInvariant /\ OwnershipInvariant
  BY DEF FixtureInvariant
<1>2. /\ UNCHANGED <<content, owns, sent, wanted, log, written, committed, asked, found, runs>>
      /\ step = 13
  BY DEF CountWork, kafka, At, Place
<1>3. LogInvariant'
  BY <1>1, <1>2 DEF LogInvariant
<1>4. \A s \in Store : found[s] \subseteq content'[s]
  BY <1>1, <1>2 DEF OwnershipInvariant
<1>5. CASE Onward
  <2>1. SmoothInvariant'
    BY <1>1, <1>2, <1>5 DEF SmoothInvariant, Onward
  <2> QED BY <1>1, <1>2, <1>3, <1>4, <1>5, <2>1, OnwardKeeps DEF Onward, Types
<1>6. CASE Raise
  BY <1>1, <1>2, <1>3, <1>6, RaiseKeeps DEF Types
<1> QED BY <1>5, <1>6 DEF CountWork

LEMMA DeleteCacheKeeps ==
  ASSUME FixtureInvariant, DeleteCache
  PROVE  FixtureInvariant'
<1>1. Types /\ LogInvariant /\ SmoothInvariant /\ OwnershipInvariant
  BY DEF FixtureInvariant
<1>2. /\ UNCHANGED <<owns, sent, wanted, log, written, committed, asked, found, runs>>
      /\ step = 14 /\ step' = 15 /\ UNCHANGED <<raised, outcome>>
  BY DEF DeleteCache, Onward, kafka, At, Place
<1>3. found["cache"] = {}
  BY <1>1, <1>2 DEF OwnershipInvariant
<1>4. /\ content' \in [Store -> SUBSET {"fixture", "others"}]
      /\ \A r \in Store : found[r] \subseteq content'[r]
      /\ content'["cache"] = {} /\ content'["snapshot"] = content["snapshot"]
      /\ content'["work"] = content["work"]
  BY <1>1, <1>3, EmptiedKeepsFound DEF DeleteCache, Store
<1>5. LogInvariant'
  BY <1>1, <1>2 DEF LogInvariant
<1>6. SmoothInvariant'
  BY <1>1, <1>2, <1>4 DEF SmoothInvariant
<1> QED BY <1>1, <1>2, <1>4, <1>5, <1>6, OnwardKeeps DEF Types

LEMMA DeleteAccountKeeps ==
  ASSUME FixtureInvariant, DeleteAccount
  PROVE  FixtureInvariant'
<1>1. Types /\ LogInvariant /\ SmoothInvariant /\ OwnershipInvariant
  BY DEF FixtureInvariant
<1>2. /\ UNCHANGED <<owns, raised, sent, wanted, log, written, committed, asked, found, runs>>
      /\ step = 15 /\ step' = 0 /\ outcome' = IF raised THEN "cleaned" ELSE "passed"
  BY DEF DeleteAccount, Ends, kafka, locals, At, Place
<1>3. /\ found["account"] = {} /\ found["snapshot"] = {}
      /\ found["work"] = {} /\ found["cache"] = {}
  BY <1>1, <1>2 DEF OwnershipInvariant
<1>4. /\ content' \in [Store -> SUBSET {"fixture", "others"}]
      /\ \A r \in Store : found[r] \subseteq content'[r]
      /\ content'["account"] = {} /\ \A r \in Store : r # "account" => content'[r] = content[r]
  BY <1>1, <1>3, EmptiedKeepsFound DEF DeleteAccount, Store
<1>5. LogInvariant'
  BY <1>1, <1>2 DEF LogInvariant
<1>6. ~raised => content' = found /\ committed = log /\ ~asked
  <2>1. ~raised => committed = log /\ ~asked /\ content["snapshot"] = {}
                   /\ content["work"] = {} /\ content["cache"] = {}
    BY <1>1, <1>2 DEF SmoothInvariant
  <2>2. ~raised => \A r \in Store : content'[r] = found[r]
    BY <1>3, <1>4, <2>1 DEF Store
  <2> QED BY <1>1, <1>4, <2>1, <2>2 DEF Types
<1>7. Types'
  <2>1. step' \in 0..15 /\ outcome' \in {"none", "failed", "killed", "cleaned", "passed"}
    BY <1>2
  <2> QED BY <1>1, <1>2, <1>4, <2>1 DEF Types
<1>8. OwnershipInvariant' /\ SmoothInvariant'
  BY <1>2, <1>4 DEF OwnershipInvariant, SmoothInvariant
<1>9. EndInvariant'
  BY <1>2, <1>3, <1>4, <1>6 DEF EndInvariant
<1> QED BY <1>5, <1>7, <1>8, <1>9 DEF FixtureInvariant

LEMMA KillKeeps ==
  ASSUME FixtureInvariant, Kill
  PROVE  FixtureInvariant'
<1> USE DEF FixtureInvariant
<1>1. /\ UNCHANGED <<content, owns, raised, sent, wanted, log, written, committed, asked, found,
                     runs>>
      /\ step' = 0 /\ outcome' = "killed"
  BY DEF Kill, Ends, kafka, locals
<1>2. Types'
  BY <1>1 DEF Types
<1>3. LogInvariant'
  BY <1>1 DEF LogInvariant
<1>4. OwnershipInvariant' /\ SmoothInvariant' /\ EndInvariant'
  BY <1>1 DEF OwnershipInvariant, SmoothInvariant, EndInvariant
<1> QED BY <1>2, <1>3, <1>4

-----------------------------------------------------------------------------
(***************************************************************************)
(* Work.  It writes only where something is left to write: a message       *)
(* without rows, or a request nobody waits for.                            *)
(***************************************************************************)
LEMMA MeanwhileKeeps ==
  ASSUME FixtureInvariant,
         UNCHANGED <<step, owns, raised, outcome, sent, wanted, log, found, runs>>,
         content' \in [Store -> SUBSET {"fixture", "others"}],
         \A s \in Store : content[s] \subseteq content'[s],
         written' \in [Topic -> Nat], committed' \in [Topic -> Nat],
         asked' \in BOOLEAN, LogInvariant',
         asked' => asked,
         committed = log => committed' = log,
         (~asked /\ committed = log) => content' = content,
         content'["snapshot"] = content["snapshot"], content'["account"] = content["account"]
  PROVE  FixtureInvariant'
<1> USE DEF FixtureInvariant
<1>1. Types'
  BY DEF Types
<1>2. OwnershipInvariant'
  BY DEF OwnershipInvariant
<1>3. SmoothInvariant'
  <2>1. step \in 0..15
    BY DEF Types
  <2>2. (step \in 1..11 => ~raised) /\ (step # 0 /\ ~raised => ~asked)
    BY DEF SmoothInvariant
  <2>3. step >= 10 /\ ~raised => committed = log /\ content' = content
    BY <2>1, <2>2 DEF SmoothInvariant
  <2> QED BY <2>1, <2>2, <2>3 DEF SmoothInvariant
<1>4. EndInvariant'
  BY DEF EndInvariant
<1> QED BY <1>1, <1>2, <1>3, <1>4

LEMMA ProcessKeeps ==
  ASSUME FixtureInvariant, NEW t \in Topic, Process(t)
  PROVE  FixtureInvariant'
<1>1. Types /\ LogInvariant
  BY DEF FixtureInvariant
<1>2. /\ UNCHANGED <<step, owns, raised, outcome, sent, wanted, log, committed, asked, found,
                     runs>>
      /\ written[t] < log[t] /\ written' = [written EXCEPT ![t] = @ + 1] /\ Added({"work"})
  BY DEF Process, locals
<1>3. /\ content' \in [Store -> SUBSET {"fixture", "others"}]
      /\ \A s \in Store : content[s] \subseteq content'[s]
      /\ content'["snapshot"] = content["snapshot"] /\ content'["account"] = content["account"]
  BY <1>1, <1>2, AddedGrows DEF Store
<1>4. \A u \in Topic : written[u] \in Nat /\ log[u] \in Nat /\ committed[u] \in Nat
  BY <1>1 DEF Types
<1>5. written' \in [Topic -> Nat]
  BY <1>1, <1>2, <1>4 DEF Types
<1>6. LogInvariant'
  <2>1. \A u \in Topic : written'[u] = IF u = t THEN written[u] + 1 ELSE written[u]
    BY <1>1, <1>2 DEF Types
  <2> QED BY <1>1, <1>2, <1>4, <2>1 DEF LogInvariant
<1>7. committed # log
  BY <1>1, <1>2, <1>4 DEF LogInvariant
<1> QED BY <1>1, <1>2, <1>3, <1>5, <1>6, <1>7, MeanwhileKeeps DEF Types

LEMMA CommitKeeps ==
  ASSUME FixtureInvariant, NEW t \in Topic, Commit(t)
  PROVE  FixtureInvariant'
<1>1. Types /\ LogInvariant
  BY DEF FixtureInvariant
<1>2. /\ UNCHANGED <<content, step, owns, raised, outcome, sent, wanted, log, written, asked, found,
                     runs>>
      /\ committed[t] < written[t] /\ committed' = [committed EXCEPT ![t] = written[t]]
  BY DEF Commit, locals
<1>3. \A u \in Topic : written[u] \in Nat /\ log[u] \in Nat /\ committed[u] \in Nat
  BY <1>1 DEF Types
<1>4. committed' \in [Topic -> Nat]
  BY <1>1, <1>2, <1>3 DEF Types
<1>5. LogInvariant'
  <2>1. \A u \in Topic : committed'[u] = IF u = t THEN written[u] ELSE committed[u]
    BY <1>1, <1>2 DEF Types
  <2> QED BY <1>1, <1>2, <1>3, <2>1 DEF LogInvariant
<1>6. committed # log
  BY <1>1, <1>2, <1>3 DEF LogInvariant
<1> QED BY <1>1, <1>2, <1>4, <1>5, <1>6, MeanwhileKeeps DEF Types

LEMMA LateRequestKeeps ==
  ASSUME FixtureInvariant, LateRequest
  PROVE  FixtureInvariant'
<1>1. Types /\ LogInvariant
  BY DEF FixtureInvariant
<1>2. /\ UNCHANGED <<step, owns, raised, outcome, sent, wanted, log, written, committed, found,
                     runs>>
      /\ asked /\ asked' = FALSE
  BY DEF LateRequest, locals, kafka
<1>3. /\ content' \in [Store -> SUBSET {"fixture", "others"}]
      /\ \A s \in Store : content[s] \subseteq content'[s]
      /\ content'["snapshot"] = content["snapshot"] /\ content'["account"] = content["account"]
  <2>1. PICK wrote \in SUBSET {"work", "cache"} : Added(wrote)
    BY DEF LateRequest
  <2>2. "snapshot" \notin wrote /\ "account" \notin wrote
    BY <2>1
  <2> QED BY <1>1, <2>1, <2>2, AddedGrows DEF Store
<1>4. LogInvariant'
  BY <1>1, <1>2 DEF LogInvariant
<1> QED BY <1>1, <1>2, <1>3, <1>4, MeanwhileKeeps DEF Types

LEMMA WorkRestartsKeeps ==
  ASSUME FixtureInvariant, WorkRestarts
  PROVE  FixtureInvariant'
<1> USE DEF FixtureInvariant
<1>1. /\ UNCHANGED <<content, owns, raised, sent, wanted, log, committed, found, runs>>
      /\ written' = committed /\ asked' = FALSE
  BY DEF WorkRestarts, locals
<1>2. step' = 0 /\ (outcome' = "killed" \/ outcome' = outcome)
  BY DEF WorkRestarts, Ends
<1>3. Types'
  <2>1. outcome' \in {"none", "failed", "killed", "cleaned", "passed"}
    BY <1>2 DEF Types
  <2>2. step' \in 0..15
    BY <1>2
  <2>3. asked' \in BOOLEAN
    BY <1>1
  <2> QED BY <1>1, <2>1, <2>2, <2>3 DEF Types
<1>4. LogInvariant'
  <2>1. \A t \in Topic : committed[t] \in Nat /\ written[t] \in Nat /\ log[t] \in Nat
    BY DEF Types
  <2> QED BY <1>1, <2>1 DEF LogInvariant
<1>5. OwnershipInvariant' /\ SmoothInvariant' /\ EndInvariant'
  BY <1>1, <1>2 DEF OwnershipInvariant, SmoothInvariant, EndInvariant
<1> QED BY <1>3, <1>4, <1>5

-----------------------------------------------------------------------------
(***************************************************************************)
(* The invariant, and what follows.                                        *)
(***************************************************************************)
LEMMA NextKeeps ==
  ASSUME FixtureInvariant, [Next]_vars
  PROVE  FixtureInvariant'
<1>1. CASE Run
  BY <1>1, BeginKeeps, BreaksKeeps, KillKeeps, ChecksKeep, InsertKeeps, InspectRpcKeeps,
     InspectHttpKeeps, SendKeeps, WaitKeeps, ReadKeeps, DeleteWorkKeeps, CountWorkKeeps,
     DeleteCacheKeeps, DeleteAccountKeeps DEF Run
<1>2. CASE Work
  BY <1>2, LateRequestKeeps, WorkRestartsKeeps, ProcessKeeps, CommitKeeps DEF Work
<1>3. CASE UNCHANGED vars
  BY <1>3 DEF vars, FixtureInvariant, Types, LogInvariant, OwnershipInvariant, SmoothInvariant,
              EndInvariant
<1> QED BY <1>1, <1>2, <1>3 DEF Next

LEMMA InvariantHolds == Spec => []FixtureInvariant
<1>1. Init => FixtureInvariant
  BY InitInvariant
<1>2. FixtureInvariant /\ [Next]_vars => FixtureInvariant'
  BY NextKeeps
<1> QED BY <1>1, <1>2, PTL DEF Spec

\* The test of Work and Asset leaves the system as it found it: it deletes
\* nobody else's rows, and when it passes its own rows and messages are gone,
\* whatever the number of messages, topics and runs.
THEOREM FixtureIsClean == Spec => []LeavesAsFound
<1>1. FixtureInvariant => LeavesAsFound
  <2> SUFFICES ASSUME FixtureInvariant
               PROVE  LeavesAsFound
    OBVIOUS
  <2>1. Types /\ LogInvariant /\ OwnershipInvariant /\ EndInvariant
    BY DEF FixtureInvariant
  <2>2. committed = log => written = log
    <3>1. \A t \in Topic : committed[t] \in Nat /\ written[t] \in Nat /\ log[t] \in Nat
      BY <2>1 DEF Types
    <3>2. committed = log => \A t \in Topic : written[t] = log[t]
      BY <2>1, <3>1 DEF LogInvariant
    <3> QED BY <2>1, <3>2 DEF Types
  <2> QED BY <2>1, <2>2 DEF LeavesAsFound, OwnershipInvariant, EndInvariant
<1> QED BY <1>1, InvariantHolds, PTL
=============================================================================
