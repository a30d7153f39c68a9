--------------------------- MODULE TransferProofs ---------------------------
(***************************************************************************)
(* Proofs of what TransferProperties says of the way of a transfer, for    *)
(* any calls, keys, kills and outages.                                     *)
(***************************************************************************)
EXTENDS TransferProperties, FiniteSetTheorems, TLAPS

LEMMA Handlers ==
  /\ \A c \in Call : KeyOf[c] \in Key /\ c \in Handler
  /\ \A k \in Key : k \in Handler
  /\ \A c \in Call, k \in Key : c # k
BY ProxyAssumption DEF Handler

-----------------------------------------------------------------------------
(***************************************************************************)
(* Steps that leave the proxy and the rows alone.                          *)
(***************************************************************************)
LEMMA Quiet ==
  ASSUME OneSender, \A c \in Call : CallInvariant(c), \A k \in Key : KeyInvariant(k),
         UNCHANGED <<stage, verdict, delay, moved, row, body, looked>>,
         asks' \subseteq asks,
         \A c \in Call : \/ answer'[c] = answer[c]
                         \/ /\ answer'[c] \notin {"none", "waiting"}
                            /\ answer'[c] = "COMPLETED" =>
                                 row[KeyOf[c]] # "none" /\ moved[KeyOf[c]] = 1
                                 /\ body[KeyOf[c]] = BodyOf[c]
  PROVE  OneSender' /\ (\A c \in Call : CallInvariant(c)') /\ (\A k \in Key : KeyInvariant(k)')
<1>1. OneSender'
  BY DEF OneSender, Sends
<1>2. ASSUME NEW c \in Call PROVE CallInvariant(c)'
  BY <1>2, Handlers DEF CallInvariant, Holds, Unsent, Settled
<1>3. ASSUME NEW k \in Key PROVE KeyInvariant(k)'
  BY <1>3 DEF KeyInvariant, Holds, Unsent
<1> QED BY <1>1, <1>2, <1>3

-----------------------------------------------------------------------------
(***************************************************************************)
(* What a step leaves alone.                                               *)
(***************************************************************************)
\* A call, and a key, nothing of which has changed.
LEMMA SameCall ==
  ASSUME NEW d \in Call, CallInvariant(d),
         stage'[d] = stage[d], verdict'[d] = verdict[d], delay'[d] = delay[d],
         answer'[d] = answer[d],
         moved'[KeyOf[d]] = moved[KeyOf[d]], row'[KeyOf[d]] = row[KeyOf[d]],
         body'[KeyOf[d]] = body[KeyOf[d]],
         stage'[KeyOf[d]] = stage[KeyOf[d]],
         KeyOf[d] \in asks' => KeyOf[d] \in asks,
         KeyOf[d] \in looked' <=> KeyOf[d] \in looked
  PROVE  CallInvariant(d)'
BY DEF CallInvariant, Holds, Settled, Unsent

LEMMA SameKey ==
  ASSUME NEW k \in Key, KeyInvariant(k),
         stage'[k] = stage[k], verdict'[k] = verdict[k], delay'[k] = delay[k],
         moved'[k] = moved[k], row'[k] = row[k], k \in asks' => k \in asks,
         k \in looked' <=> k \in looked
  PROVE  KeyInvariant(k)'
BY DEF KeyInvariant, Holds, Unsent

\* A call that sends nothing any more.
LEMMA IdleCall ==
  ASSUME NEW d \in Call, CallInvariant(d), ~Sends(d),
         stage'[d] = stage[d], verdict'[d] = verdict[d], delay'[d] = delay[d], answer'[d] = answer[d],
         answer[d] = "COMPLETED" =>
           row'[KeyOf[d]] # "none" /\ moved'[KeyOf[d]] = 1 /\ body'[KeyOf[d]] = body[KeyOf[d]]
  PROVE  CallInvariant(d)'
BY DEF CallInvariant, Holds, Settled, Unsent, Sends

\* A step of one call that has sent: what is left to show is of it and its key.
LEMMA CallStep ==
  ASSUME TransferInvariant, NEW c \in Call,
         stage[c] # "idle", stage'[c] # "idle",
         \A h \in Handler \ {c} :
           stage'[h] = stage[h] /\ verdict'[h] = verdict[h] /\ delay'[h] = delay[h],
         \A d \in Call \ {c} : answer'[d] = answer[d],
         \A k \in Key \ {KeyOf[c]} : moved'[k] = moved[k] /\ row'[k] = row[k],
         UNCHANGED <<body, asks, looked>>,
         row'[KeyOf[c]] # "none",
         moved'[KeyOf[c]] = moved[KeyOf[c]] \/ moved[KeyOf[c]] = 0,
         CallInvariant(c)', KeyInvariant(KeyOf[c])'
  PROVE  OneSender' /\ (\A d \in Call : CallInvariant(d)') /\ (\A k \in Key : KeyInvariant(k)')
<1>1. \A d \in Call : d # c /\ KeyOf[d] = KeyOf[c] => ~Sends(d)
  BY DEF TransferInvariant, OneSender, Sends
<1>2. OneSender'
  BY <1>1, Handlers DEF TransferInvariant, OneSender, Sends
<1>3. ASSUME NEW d \in Call, d # c PROVE CallInvariant(d)'
  <2>1. /\ stage'[d] = stage[d] /\ verdict'[d] = verdict[d] /\ delay'[d] = delay[d]
        /\ answer'[d] = answer[d] /\ CallInvariant(d)
        /\ KeyOf[d] \in Key /\ KeyOf[d] # c /\ stage'[KeyOf[d]] = stage[KeyOf[d]]
    BY <1>3, Handlers DEF TransferInvariant
  <2>2. CASE KeyOf[d] # KeyOf[c]
    <3>1. /\ moved'[KeyOf[d]] = moved[KeyOf[d]] /\ row'[KeyOf[d]] = row[KeyOf[d]]
          /\ body'[KeyOf[d]] = body[KeyOf[d]]
      BY <2>1, <2>2
    <3> QED BY <2>1, <3>1, SameCall
  <2>3. CASE KeyOf[d] = KeyOf[c]
    <3>1. ~Sends(d)
      BY <1>1, <1>3, <2>3
    <3>2. answer[d] = "COMPLETED" =>
            row'[KeyOf[d]] # "none" /\ moved'[KeyOf[d]] = 1 /\ body'[KeyOf[d]] = body[KeyOf[d]]
      BY <2>1, <2>3 DEF CallInvariant
    <3> QED BY <2>1, <3>1, <3>2, IdleCall
  <2> QED BY <2>2, <2>3
<1>4. ASSUME NEW k \in Key, k # KeyOf[c] PROVE KeyInvariant(k)'
  <2>1. /\ stage'[k] = stage[k] /\ verdict'[k] = verdict[k] /\ delay'[k] = delay[k]
        /\ moved'[k] = moved[k] /\ row'[k] = row[k] /\ KeyInvariant(k)
    BY <1>4, Handlers DEF TransferInvariant
  <2> QED BY <2>1, SameKey
<1> QED BY <1>2, <1>3, <1>4

\* A step of a lookup: what is left to show is of its key and of its calls.
LEMMA KeyStep ==
  ASSUME TransferInvariant, NEW k \in Key,
         \A h \in Handler \ {k} :
           stage'[h] = stage[h] /\ verdict'[h] = verdict[h] /\ delay'[h] = delay[h],
         UNCHANGED <<moved, answer, body>>,
         \A j \in Key \ {k} :
           row'[j] = row[j] /\ (j \in asks' => j \in asks) /\ (j \in looked' <=> j \in looked),
         KeyInvariant(k)', \A d \in Call : KeyOf[d] = k => CallInvariant(d)'
  PROVE  OneSender' /\ (\A d \in Call : CallInvariant(d)') /\ (\A j \in Key : KeyInvariant(j)')
<1>1. OneSender'
  BY Handlers DEF TransferInvariant, OneSender, Sends
<1>2. ASSUME NEW d \in Call, KeyOf[d] # k PROVE CallInvariant(d)'
  <2>1. /\ stage'[d] = stage[d] /\ verdict'[d] = verdict[d] /\ delay'[d] = delay[d]
        /\ CallInvariant(d) /\ KeyOf[d] \in Key
        /\ stage'[KeyOf[d]] = stage[KeyOf[d]]
        /\ row'[KeyOf[d]] = row[KeyOf[d]] /\ (KeyOf[d] \in asks' => KeyOf[d] \in asks)
        /\ (KeyOf[d] \in looked' <=> KeyOf[d] \in looked)
    BY <1>2, Handlers DEF TransferInvariant
  <2> QED BY <2>1, SameCall
<1>3. ASSUME NEW j \in Key, j # k PROVE KeyInvariant(j)'
  <2>1. /\ stage'[j] = stage[j] /\ verdict'[j] = verdict[j] /\ delay'[j] = delay[j]
        /\ row'[j] = row[j] /\ (j \in asks' => j \in asks)
        /\ (j \in looked' <=> j \in looked) /\ KeyInvariant(j)
    BY <1>3, Handlers DEF TransferInvariant
  <2> QED BY <2>1, SameKey
<1> QED BY <1>1, <1>2, <1>3

-----------------------------------------------------------------------------
(***************************************************************************)
(* A call makes the row and sends the transfer.                            *)
(***************************************************************************)
LEMMA SendTypes ==
  ASSUME TypeOK, NEW c \in Call, Send(c) \/ MarkProcessing(c)
  PROVE  TypeOK'
<1>1. CASE Send(c)
  BY <1>1, Handlers DEF TypeOK, Send, proxy, rest, Answered, Answers, Statuses
<1>2. CASE MarkProcessing(c)
  BY <1>2, Handlers DEF TypeOK, MarkProcessing, Take, rest, Stages, Verdicts, Statuses
<1> QED BY <1>1, <1>2

LEMMA SendFacts ==
  ASSUME TransferInvariant, NEW c \in Call, Send(c)
  PROVE  /\ answer[c] = "none" /\ row[KeyOf[c]] = "none" /\ stage[c] = "idle" /\ KeyOf[c] \in Key
         /\ row' = [row EXCEPT ![KeyOf[c]] = "REQUESTED"]
         /\ body' = [body EXCEPT ![KeyOf[c]] = BodyOf[c]]
         /\ answer' = [answer EXCEPT ![c] = "waiting"]
         /\ UNCHANGED <<mode, stage, verdict, delay, moved, attempts, looked, asks>>
BY Handlers DEF Send, proxy, rest, looked, Answered, TransferInvariant, CallInvariant

LEMMA SendKeeps ==
  ASSUME TransferInvariant, NEW c \in Call, Send(c)
  PROVE  OneSender' /\ (\A d \in Call : CallInvariant(d)') /\ (\A k \in Key : KeyInvariant(k)')
<1> DEFINE K == KeyOf[c]
<1>1. /\ row[K] = "none" /\ stage[c] = "idle" /\ K \in Key
      /\ UNCHANGED <<stage, verdict, delay, moved, looked, asks>>
  BY SendFacts
<1>2. /\ row'[K] = "REQUESTED" /\ \A k \in Key \ {K} : row'[k] = row[k]
      /\ body'[K] = BodyOf[c] /\ \A k \in Key \ {K} : body'[k] = body[k]
      /\ answer'[c] = "waiting" /\ \A d \in Call \ {c} : answer'[d] = answer[d]
  BY SendFacts DEF TransferInvariant, TypeOK
<1>3. \A d \in Call : KeyOf[d] = K => ~Sends(d)
  BY <1>1 DEF TransferInvariant, CallInvariant, Sends, Unsent
<1>4. OneSender'
  BY <1>1, <1>2, <1>3 DEF TransferInvariant, OneSender, Sends
<1>5. KeyInvariant(K) /\ K \notin looked /\ K \notin asks /\ moved[K] = 0 /\ stage[K] = "idle"
  BY <1>1 DEF TransferInvariant, KeyInvariant, Unsent
<1>6. ASSUME NEW d \in Call PROVE CallInvariant(d)'
  <2>0. CallInvariant(d) /\ KeyOf[d] \in Key
    BY Handlers DEF TransferInvariant
  <2>1. CASE KeyOf[d] # K
    <3>1. /\ answer'[d] = answer[d] /\ row'[KeyOf[d]] = row[KeyOf[d]]
          /\ body'[KeyOf[d]] = body[KeyOf[d]]
      BY <1>2, <2>0, <2>1
    <3> QED BY <1>1, <2>0, <3>1, SameCall
  <2>2. CASE KeyOf[d] = K /\ d # c
    BY <1>1, <1>2, <1>3, <1>5, <2>0, <2>2 DEF CallInvariant, Sends, Holds, Settled, Unsent
  <2>3. CASE d = c
    BY <1>1, <1>2, <1>5, <2>0, <2>3 DEF CallInvariant, Holds, Settled, Unsent
  <2> QED BY <2>1, <2>2, <2>3
<1>7. ASSUME NEW k \in Key PROVE KeyInvariant(k)'
  <2>1. CASE k # K
    BY <1>1, <1>2, <2>1, SameKey DEF TransferInvariant
  <2>2. CASE k = K
    BY <1>1, <1>2, <1>5, <2>2 DEF KeyInvariant, Holds, Unsent
  <2> QED BY <2>1, <2>2
<1> QED BY <1>4, <1>6, <1>7

\* The call marks its row and sends.
LEMMA MarkFacts ==
  ASSUME TransferInvariant, NEW c \in Call, MarkProcessing(c)
  PROVE  /\ answer[c] = "waiting" /\ row[KeyOf[c]] = "REQUESTED" /\ stage[c] = "idle"
         /\ KeyOf[c] \in Key /\ c \in Handler /\ verdict[c] # "error"
         /\ row' = [row EXCEPT ![KeyOf[c]] = "PROCESSING"]
         /\ stage' = [stage EXCEPT ![c] = "asking"]
         /\ verdict' = [verdict EXCEPT ![c] = "none"]
         /\ delay' = [delay EXCEPT ![c] = FALSE]
         /\ UNCHANGED <<mode, moved, answer, body, attempts, looked, asks>>
BY Handlers DEF MarkProcessing, Take, rest, looked, TransferInvariant, CallInvariant, Holds, Unsent

LEMMA MarkKeeps ==
  ASSUME TransferInvariant, NEW c \in Call, MarkProcessing(c)
  PROVE  OneSender' /\ (\A d \in Call : CallInvariant(d)') /\ (\A k \in Key : KeyInvariant(k)')
<1> DEFINE K == KeyOf[c]
<1>1. /\ answer[c] = "waiting" /\ row[K] = "REQUESTED" /\ K \in Key
      /\ UNCHANGED <<moved, answer, body, looked, asks>>
  BY MarkFacts
<1>2. /\ row'[K] = "PROCESSING" /\ \A k \in Key \ {K} : row'[k] = row[k]
      /\ stage'[c] = "asking" /\ ~delay'[c] /\ verdict'[c] = "none"
      /\ \A h \in Handler \ {c} :
           stage'[h] = stage[h] /\ verdict'[h] = verdict[h] /\ delay'[h] = delay[h]
  BY MarkFacts DEF TransferInvariant, TypeOK
<1>3. \A d \in Call : d # c /\ KeyOf[d] = K => ~Sends(d)
  BY <1>1 DEF TransferInvariant, OneSender, Sends
<1>4. OneSender'
  BY <1>1, <1>2, <1>3, Handlers DEF TransferInvariant, OneSender, Sends
<1>5. /\ KeyInvariant(K) /\ K \notin looked /\ K \notin asks /\ moved[K] = 0 /\ stage[K] = "idle"
      /\ c # K /\ c \in Handler /\ K \in Handler
  BY <1>1, Handlers DEF TransferInvariant, KeyInvariant, Unsent
<1>6. ASSUME NEW d \in Call PROVE CallInvariant(d)'
  <2>0. CallInvariant(d) /\ KeyOf[d] \in Key /\ d \in Handler /\ KeyOf[d] # c /\ KeyOf[d] \in Handler
    BY Handlers DEF TransferInvariant
  <2>1. CASE KeyOf[d] # K
    <3>1. /\ stage'[d] = stage[d] /\ verdict'[d] = verdict[d] /\ delay'[d] = delay[d]
          /\ row'[KeyOf[d]] = row[KeyOf[d]] /\ stage'[KeyOf[d]] = stage[KeyOf[d]]
      BY <1>2, <2>0, <2>1
    <3> QED BY <1>1, <2>0, <3>1, SameCall
  <2>2. CASE KeyOf[d] = K /\ d # c
    <3>1. /\ ~Sends(d) /\ stage'[d] = stage[d] /\ verdict'[d] = verdict[d] /\ delay'[d] = delay[d]
          /\ row'[K] # "none"
      BY <1>2, <1>3, <2>0, <2>2
    <3>2. answer[d] = "COMPLETED" => moved'[K] = 1 /\ body'[K] = body[K]
      BY <1>1, <2>0, <2>2 DEF CallInvariant
    <3> QED BY <1>1, <2>0, <2>2, <3>1, <3>2, IdleCall
  <2>3. CASE d = c
    BY <1>1, <1>2, <1>5, <2>0, <2>3 DEF CallInvariant, Holds, Settled, Unsent
  <2> QED BY <2>1, <2>2, <2>3
<1>7. ASSUME NEW k \in Key PROVE KeyInvariant(k)'
  <2>0. /\ stage'[k] = stage[k] /\ verdict'[k] = verdict[k] /\ delay'[k] = delay[k]
        /\ KeyInvariant(k)
    BY <1>2, Handlers DEF TransferInvariant
  <2>1. CASE k # K
    BY <1>1, <1>2, <2>0, <2>1, SameKey
  <2>2. CASE k = K
    BY <1>1, <1>2, <1>5, <2>0, <2>2 DEF KeyInvariant, Holds, Unsent
  <2> QED BY <2>1, <2>2
<1> QED BY <1>4, <1>6, <1>7

-----------------------------------------------------------------------------
(***************************************************************************)
(* The handler of a transfer, and the call that waits for it.              *)
(***************************************************************************)
LEMMA AnswerTypes ==
  ASSUME TypeOK, NEW h \in Handler, Answer(h) \/ Fail(h)
  PROVE  /\ stage' \in [Handler -> Stages] /\ verdict' \in [Handler -> Verdicts]
         /\ moved' \in [Key -> Nat] /\ UNCHANGED <<mode, delay>>
<1>1. \A v \in Verdicts : Executes(h, v) => moved' \in [Key -> Nat]
  BY Handlers DEF TypeOK, Executes
<1>2. CASE Answer(h)
  BY <1>1, <1>2 DEF TypeOK, Answer, Stages
<1>3. CASE Fail(h)
  BY <1>1, <1>3 DEF TypeOK, Fail, Lost, Stages
<1> QED BY <1>2, <1>3

LEMMA AnswerOfCall ==
  ASSUME TransferInvariant, NEW c \in Call, Answer(c),
         UNCHANGED <<answer, alive, bank, rest>>
  PROVE  OneSender' /\ (\A d \in Call : CallInvariant(d)') /\ (\A k \in Key : KeyInvariant(k)')
<1> DEFINE K == KeyOf[c]
<1>1. /\ stage[c] = "asking" /\ K \in Key /\ c # K /\ c \in Handler /\ K \in Handler
      /\ moved[K] = 0 /\ ~Unsent(K)
      /\ UNCHANGED <<delay, answer, row, body, looked, asks>>
      /\ stage' = [stage EXCEPT ![c] = "answered"]
  BY Handlers DEF looked, Answer, bank, TransferInvariant, CallInvariant
<1>2. PICK v \in Verdicts : Executes(c, v) /\ verdict' = [verdict EXCEPT ![c] = v]
  BY DEF Answer
<1>3. /\ v \in {"moved", "refused", "error"}
      /\ \/ v # "refused" /\ moved' = [moved EXCEPT ![K] = 1]
         \/ v # "moved" /\ moved' = moved
  BY <1>1, <1>2 DEF Executes
<1>4. /\ \A h \in Handler \ {c} : stage'[h] = stage[h] /\ verdict'[h] = verdict[h] /\ delay'[h] = delay[h]
      /\ \A k \in Key \ {K} : moved'[k] = moved[k]
      /\ stage'[c] = "answered" /\ verdict'[c] = v
      /\ \/ v # "refused" /\ moved'[K] = 1
         \/ v # "moved" /\ moved'[K] = 0
  <2>1. /\ stage \in [Handler -> Stages] /\ verdict \in [Handler -> Verdicts]
        /\ moved \in [Key -> Nat]
    BY DEF TransferInvariant, TypeOK
  <2>2. /\ \A h \in Handler \ {c} : stage'[h] = stage[h] /\ verdict'[h] = verdict[h] /\ delay'[h] = delay[h]
        /\ stage'[c] = "answered" /\ verdict'[c] = v
    BY <1>1, <1>2, <2>1
  <2>3. /\ \A k \in Key \ {K} : moved'[k] = moved[k]
        /\ \/ v # "refused" /\ moved'[K] = 1
           \/ v # "moved" /\ moved'[K] = 0
    BY <1>1, <1>3, <2>1
  <2> QED BY <2>2, <2>3
<1>5. CallInvariant(c)'
  <2>1. CallInvariant(c)
    BY DEF TransferInvariant
  <2>2. /\ UNCHANGED <<asks, looked>> /\ answer'[c] = answer[c] /\ delay'[c] = delay[c]
        /\ row'[K] = row[K] /\ body'[K] = body[K]
        /\ stage'[c] = "answered" /\ verdict'[c] = v
    BY <1>1, <1>4, <2>1 DEF CallInvariant
  <2> QED BY <1>1, <1>3, <1>4, <2>1, <2>2 DEF CallInvariant, Holds, Unsent, Settled
<1>6. KeyInvariant(K)'
  <2>1. /\ stage'[K] = stage[K] /\ verdict'[K] = verdict[K] /\ delay'[K] = delay[K]
        /\ row'[K] = row[K] /\ (K \in asks' => K \in asks)
    BY <1>1, <1>4
  <2>2. KeyInvariant(K) /\ (~Slow => stage[K] = "idle")
    BY <1>1 DEF TransferInvariant, CallInvariant
  <2>3. ~Unsent(K) /\ row[K] # "SUCCEEDED"
    BY <1>1, <2>2 DEF KeyInvariant
  <2>4. Holds(K) => verdict[K] = "absent"
    BY <1>1, <2>2 DEF KeyInvariant
  <2> QED BY <1>1, <1>4, <2>1, <2>2, <2>3, <2>4 DEF KeyInvariant, Holds, Unsent
<1>7. /\ stage[c] # "idle" /\ stage'[c] # "idle"
      /\ \A d \in Call \ {c} : answer'[d] = answer[d]
      /\ \A k \in Key \ {K} : moved'[k] = moved[k] /\ row'[k] = row[k]
      /\ UNCHANGED <<body, asks, looked>> /\ row'[K] # "none"
  BY <1>1, <1>4 DEF Unsent
<1> QED BY <1>1, <1>4, <1>5, <1>6, <1>7, CallStep

LEMMA FailOfCall ==
  ASSUME TransferInvariant, NEW c \in Call, Fail(c),
         UNCHANGED <<answer, alive, bank, rest>>
  PROVE  OneSender' /\ (\A d \in Call : CallInvariant(d)') /\ (\A k \in Key : KeyInvariant(k)')
<1> DEFINE K == KeyOf[c]
<1>1. /\ stage[c] = "asking" /\ K \in Key /\ c # K /\ c \in Handler /\ K \in Handler
      /\ moved[K] = 0 /\ ~Unsent(K)
      /\ UNCHANGED <<verdict, delay, answer, row, body, looked, asks>>
      /\ stage' = [stage EXCEPT ![c] = "dead"]
  BY Handlers DEF looked, Fail, bank, TransferInvariant, CallInvariant
<1>2. moved' = [moved EXCEPT ![K] = 1] \/ moved' = moved
  BY <1>1 DEF Fail, Lost, Executes
<1>3. /\ \A h \in Handler \ {c} : stage'[h] = stage[h] /\ verdict'[h] = verdict[h] /\ delay'[h] = delay[h]
      /\ \A k \in Key \ {K} : moved'[k] = moved[k]
      /\ stage'[c] = "dead" /\ moved'[K] \in {0, 1}
  <2>1. stage \in [Handler -> Stages] /\ moved \in [Key -> Nat]
    BY DEF TransferInvariant, TypeOK
  <2>2. /\ \A h \in Handler \ {c} : stage'[h] = stage[h] /\ verdict'[h] = verdict[h] /\ delay'[h] = delay[h]
        /\ stage'[c] = "dead"
    BY <1>1, <2>1
  <2>3. (\A k \in Key \ {K} : moved'[k] = moved[k]) /\ moved'[K] \in {0, 1}
    BY <1>1, <1>2, <2>1
  <2> QED BY <2>2, <2>3
<1>4. CallInvariant(c)'
  BY <1>1, <1>3 DEF TransferInvariant, CallInvariant, Holds, Unsent, Settled
<1>5. KeyInvariant(K)'
  <2>1. /\ stage'[K] = stage[K] /\ verdict'[K] = verdict[K] /\ delay'[K] = delay[K]
        /\ row'[K] = row[K] /\ (K \in asks' => K \in asks)
    BY <1>1, <1>3
  <2>2. KeyInvariant(K) /\ (~Slow => stage[K] = "idle")
    BY <1>1 DEF TransferInvariant, CallInvariant
  <2>3. ~Unsent(K) /\ row[K] # "SUCCEEDED"
    BY <1>1, <2>2 DEF KeyInvariant
  <2>4. Holds(K) => verdict[K] = "absent"
    BY <1>1, <2>2 DEF KeyInvariant
  <2> QED BY <1>1, <1>3, <2>1, <2>2, <2>3, <2>4 DEF KeyInvariant, Holds, Unsent
<1>6. /\ stage[c] # "idle" /\ stage'[c] # "idle"
      /\ \A d \in Call \ {c} : answer'[d] = answer[d]
      /\ \A k \in Key \ {K} : moved'[k] = moved[k] /\ row'[k] = row[k]
      /\ UNCHANGED <<body, asks, looked>> /\ row'[K] # "none"
  BY <1>1, <1>3 DEF Unsent
<1> QED BY <1>1, <1>3, <1>4, <1>5, <1>6, CallStep

LEMMA EnterTypes ==
  ASSUME TypeOK, NEW h \in Handler, Enter(h)
  PROVE  /\ stage' \in [Handler -> Stages] /\ delay' \in [Handler -> BOOLEAN]
         /\ mode' \in [delay_once : BOOLEAN, forwarded : BOOLEAN, transfer_posts : Nat,
                         ready_to_kill : BOOLEAN]
         /\ UNCHANGED <<verdict, moved>>
<1>1. Counted(mode) \in [delay_once : BOOLEAN, forwarded : BOOLEAN, transfer_posts : Nat,
                          ready_to_kill : BOOLEAN]
  <2>1. /\ mode \in [delay_once : BOOLEAN, forwarded : BOOLEAN, transfer_posts : Nat,
                    ready_to_kill : BOOLEAN]
        /\ mode.transfer_posts + 1 \in Nat
    BY DEF TypeOK
  <2> QED BY <2>1, Zenon DEF Counted
<1>2. mode.delay_once \in BOOLEAN
  BY DEF TypeOK
<1>3. delay' \in [Handler -> BOOLEAN]
  BY <1>2 DEF TypeOK, Enter
<1>4. stage' \in [Handler -> Stages]
  BY DEF TypeOK, Enter, Stages
<1> QED BY <1>1, <1>3, <1>4 DEF TypeOK, Enter

LEMMA EnterOfCall ==
  ASSUME TransferInvariant, NEW c \in Call, Enter(c),
         UNCHANGED <<answer, alive, bank, rest>>
  PROVE  OneSender' /\ (\A d \in Call : CallInvariant(d)') /\ (\A k \in Key : KeyInvariant(k)')
<1> DEFINE K == KeyOf[c]
<1>1. /\ stage[c] = "answered" /\ K \in Key /\ c # K /\ c \in Handler /\ K \in Handler
      /\ ~Unsent(K)
      /\ UNCHANGED <<verdict, moved, answer, row, body, looked, asks>>
  BY Handlers DEF looked, Enter, bank, TransferInvariant, CallInvariant
<1>2. /\ \A h \in Handler \ {c} : stage'[h] = stage[h] /\ verdict'[h] = verdict[h] /\ delay'[h] = delay[h]
      /\ \/ stage'[c] = "held" /\ delay'[c]
         \/ stage'[c] = "replying" /\ ~delay'[c]
  <2>1. /\ stage \in [Handler -> Stages] /\ delay \in [Handler -> BOOLEAN]
        /\ delay' = [delay EXCEPT ![c] = mode.delay_once]
        /\ stage' = [stage EXCEPT ![c] = IF delay'[c] THEN "held" ELSE "replying"]
    BY DEF TransferInvariant, TypeOK, Enter, IsTransfer
  <2> QED BY <1>1, <2>1
<1>3. CallInvariant(c)'
  BY <1>1, <1>2 DEF TransferInvariant, CallInvariant, Holds, Unsent, Settled
<1>4. KeyInvariant(K)'
  <2>1. /\ stage'[K] = stage[K] /\ verdict'[K] = verdict[K] /\ delay'[K] = delay[K]
        /\ moved'[K] = moved[K] /\ row'[K] = row[K] /\ (K \in asks' => K \in asks)
        /\ (K \in looked' <=> K \in looked) /\ KeyInvariant(K)
    BY <1>1, <1>2 DEF TransferInvariant
  <2> QED BY <1>1, <2>1, SameKey
<1>5. /\ stage[c] # "idle" /\ stage'[c] # "idle"
      /\ \A d \in Call \ {c} : answer'[d] = answer[d]
      /\ \A k \in Key \ {K} : moved'[k] = moved[k] /\ row'[k] = row[k]
      /\ UNCHANGED <<body, asks, looked>> /\ row'[K] # "none" /\ moved'[K] = moved[K]
  BY <1>1, <1>2 DEF Unsent
<1> QED BY <1>1, <1>2, <1>3, <1>4, <1>5, CallStep

LEMMA WakeOfCall ==
  ASSUME TransferInvariant, NEW c \in Call, WakeLate(c)
  PROVE  OneSender' /\ (\A d \in Call : CallInvariant(d)') /\ (\A k \in Key : KeyInvariant(k)')
<1> DEFINE K == KeyOf[c]
<1>1. /\ stage[c] = "held" /\ answer[c] # "waiting" /\ K \in Key /\ c # K
      /\ c \in Handler /\ K \in Handler /\ ~Unsent(K)
      /\ UNCHANGED <<verdict, delay, moved, answer, row, body, looked, asks>>
      /\ stage' = [stage EXCEPT ![c] = "replying"]
  BY Handlers DEF looked, WakeLate, Wake, HeldBack, ReadTimeout, bank, TransferInvariant, CallInvariant
<1>2. /\ \A h \in Handler \ {c} : stage'[h] = stage[h] /\ verdict'[h] = verdict[h] /\ delay'[h] = delay[h]
      /\ stage'[c] = "replying"
  <2>1. stage \in [Handler -> Stages]
    BY DEF TransferInvariant, TypeOK
  <2> QED BY <1>1, <2>1
<1>3. CallInvariant(c)'
  BY <1>1, <1>2 DEF TransferInvariant, CallInvariant, Holds, Unsent, Settled
<1>4. KeyInvariant(K)'
  <2>1. /\ stage'[K] = stage[K] /\ verdict'[K] = verdict[K] /\ delay'[K] = delay[K]
        /\ moved'[K] = moved[K] /\ row'[K] = row[K] /\ (K \in asks' => K \in asks)
        /\ (K \in looked' <=> K \in looked) /\ KeyInvariant(K)
    BY <1>1, <1>2 DEF TransferInvariant
  <2> QED BY <1>1, <2>1, SameKey
<1>5. /\ stage[c] # "idle" /\ stage'[c] # "idle"
      /\ \A d \in Call \ {c} : answer'[d] = answer[d]
      /\ \A k \in Key \ {K} : moved'[k] = moved[k] /\ row'[k] = row[k]
      /\ UNCHANGED <<body, asks, looked>> /\ row'[K] # "none" /\ moved'[K] = moved[K]
  BY <1>1, <1>2 DEF Unsent
<1> QED BY <1>1, <1>2, <1>3, <1>4, <1>5, CallStep

LEMMA ReplyOfCallInVain ==
  ASSUME TransferInvariant, NEW c \in Call, ReplyInVain(c)
  PROVE  OneSender' /\ (\A d \in Call : CallInvariant(d)') /\ (\A k \in Key : KeyInvariant(k)')
<1> DEFINE K == KeyOf[c]
<1>1. /\ stage[c] = "replying" /\ answer[c] # "waiting" /\ K \in Key /\ c # K
      /\ c \in Handler /\ K \in Handler /\ ~Unsent(K)
      /\ UNCHANGED <<verdict, delay, moved, answer, row, body, looked, asks>>
      /\ stage' = [stage EXCEPT ![c] = "done"]
  BY Handlers DEF looked, ReplyInVain, Reply, bank, TransferInvariant, CallInvariant
<1>2. /\ \A h \in Handler \ {c} : stage'[h] = stage[h] /\ verdict'[h] = verdict[h] /\ delay'[h] = delay[h]
      /\ stage'[c] = "done"
  <2>1. stage \in [Handler -> Stages]
    BY DEF TransferInvariant, TypeOK
  <2> QED BY <1>1, <2>1
<1>3. CallInvariant(c)'
  BY <1>1, <1>2 DEF TransferInvariant, CallInvariant, Holds, Unsent, Settled
<1>4. KeyInvariant(K)'
  <2>1. /\ stage'[K] = stage[K] /\ verdict'[K] = verdict[K] /\ delay'[K] = delay[K]
        /\ moved'[K] = moved[K] /\ row'[K] = row[K] /\ (K \in asks' => K \in asks)
        /\ (K \in looked' <=> K \in looked) /\ KeyInvariant(K)
    BY <1>1, <1>2 DEF TransferInvariant
  <2> QED BY <1>1, <2>1, SameKey
<1>5. /\ stage[c] # "idle" /\ stage'[c] # "idle"
      /\ \A d \in Call \ {c} : answer'[d] = answer[d]
      /\ \A k \in Key \ {K} : moved'[k] = moved[k] /\ row'[k] = row[k]
      /\ UNCHANGED <<body, asks, looked>> /\ row'[K] # "none" /\ moved'[K] = moved[K]
  BY <1>1, <1>2 DEF Unsent
<1> QED BY <1>1, <1>2, <1>3, <1>4, <1>5, CallStep

\* What holds when Banking saves the answer of the mock bank.
LEMMA SaveFacts ==
  ASSUME TransferInvariant, NEW c \in Call, Save(c)
  PROVE  /\ stage[c] = "replying" /\ answer[c] = "waiting" /\ KeyOf[c] \in Key /\ c # KeyOf[c]
         /\ c \in Handler /\ KeyOf[c] \in Handler /\ ~delay[c]
         /\ row[KeyOf[c]] = "PROCESSING" /\ KeyOf[c] \notin asks /\ KeyOf[c] \notin looked
         /\ body[KeyOf[c]] = BodyOf[c]
         /\ \/ verdict[c] = "moved" /\ moved[KeyOf[c]] = 1
            \/ verdict[c] = "refused" /\ moved[KeyOf[c]] = 0
            \/ verdict[c] = "error"
         /\ UNCHANGED <<mode, verdict, delay, moved, alive, body, attempts, looked, asks, acked, rest>>
         /\ stage' = [stage EXCEPT ![c] = "done"]
         /\ row' = [row EXCEPT ![KeyOf[c]] = IF verdict[c] = "moved" THEN "SUCCEEDED" ELSE "FAILED"]
         /\ outbox' = [outbox EXCEPT ![KeyOf[c]] = "PENDING"]
         /\ answer' = [answer EXCEPT ![c] = IF verdict[c] = "moved" THEN "COMPLETED" ELSE "FAILED"]
<1>1. /\ stage[c] = "replying" /\ answer[c] = "waiting" /\ KeyOf[c] \in Key /\ c # KeyOf[c]
      /\ c \in Handler /\ KeyOf[c] \in Handler /\ CallInvariant(c)
  BY Handlers DEF Save, Reply, TransferInvariant
<1>2. /\ ~delay[c] /\ row[KeyOf[c]] = "PROCESSING" /\ KeyOf[c] \notin asks
      /\ KeyOf[c] \notin looked
      /\ body[KeyOf[c]] = BodyOf[c]
      /\ \/ verdict[c] = "moved" /\ moved[KeyOf[c]] = 1
         \/ verdict[c] = "refused" /\ moved[KeyOf[c]] = 0
         \/ verdict[c] = "error"
  BY <1>1 DEF CallInvariant, Holds, Unsent
<1> QED BY <1>1, <1>2 DEF Save, Reply, Settle, Answered, looked

LEMMA SaveKeeps ==
  ASSUME TransferInvariant, NEW c \in Call, Save(c)
  PROVE  OneSender' /\ (\A d \in Call : CallInvariant(d)') /\ (\A k \in Key : KeyInvariant(k)')
<1> DEFINE K == KeyOf[c]
<1>1. /\ stage[c] = "replying" /\ K \in Key /\ c # K /\ c \in Handler /\ K \in Handler
      /\ ~delay[c] /\ K \notin asks /\ body[K] = BodyOf[c]
      /\ \/ verdict[c] = "moved" /\ moved[K] = 1
         \/ verdict[c] = "refused" /\ moved[K] = 0
         \/ verdict[c] = "error"
      /\ UNCHANGED <<verdict, delay, moved, body, looked, asks>>
  BY SaveFacts
<1>2. /\ \A h \in Handler \ {c} : stage'[h] = stage[h] /\ verdict'[h] = verdict[h] /\ delay'[h] = delay[h]
      /\ stage'[c] = "done"
  <2>1. stage \in [Handler -> Stages]
    BY DEF TransferInvariant, TypeOK
  <2> QED BY <1>1, <2>1, SaveFacts
<1>3. /\ \A k \in Key \ {K} : row'[k] = row[k]
      /\ row'[K] = IF verdict[c] = "moved" THEN "SUCCEEDED" ELSE "FAILED"
  <2>1. row \in [Key -> Statuses]
    BY DEF TransferInvariant, TypeOK
  <2> QED BY <1>1, <2>1, SaveFacts
<1>4. /\ \A d \in Call \ {c} : answer'[d] = answer[d]
      /\ answer'[c] = IF verdict[c] = "moved" THEN "COMPLETED" ELSE "FAILED"
  <2>1. answer \in [Call -> Answers]
    BY DEF TransferInvariant, TypeOK
  <2> QED BY <2>1, SaveFacts
<1>5. CallInvariant(c)'
  BY <1>1, <1>2, <1>3, <1>4 DEF TransferInvariant, CallInvariant, Holds, Unsent, Settled
<1>6. KeyInvariant(K)'
  <2>1. /\ stage'[K] = stage[K] /\ verdict'[K] = verdict[K] /\ delay'[K] = delay[K]
        /\ moved'[K] = moved[K] /\ KeyInvariant(K)
    BY <1>1, <1>2 DEF TransferInvariant
  <2> QED BY <1>1, <1>3, <2>1 DEF KeyInvariant, Holds, Unsent
<1>7. /\ stage[c] # "idle" /\ stage'[c] # "idle"
      /\ \A k \in Key \ {K} : moved'[k] = moved[k] /\ row'[k] = row[k]
      /\ UNCHANGED <<body, asks, looked>> /\ row'[K] # "none" /\ moved'[K] = moved[K]
  BY <1>1, <1>2, <1>3
<1> QED BY <1>1, <1>2, <1>4, <1>5, <1>6, <1>7, CallStep

LEMMA GiveUpKeeps ==
  ASSUME TransferInvariant, NEW c \in Call, GiveUp(c)
  PROVE  OneSender' /\ (\A d \in Call : CallInvariant(d)') /\ (\A k \in Key : KeyInvariant(k)')
<1> DEFINE K == KeyOf[c]
<1>1. /\ answer[c] = "waiting" /\ K \in Key /\ c # K /\ c \in Handler /\ K \in Handler
      /\ CallInvariant(c) /\ KeyInvariant(K)
      /\ UNCHANGED <<stage, verdict, delay, moved, body, looked, asks>>
  BY Handlers DEF GiveUp, proxy, looked, TransferInvariant
<1>2. /\ stage[c] # "idle" /\ row[K] = "PROCESSING" /\ K \notin asks
      /\ stage[c] = "asking" => Slow
  BY <1>1 DEF CallInvariant, GiveUp, TooLate
<1>3. (\A k \in Key \ {K} : row'[k] = row[k]) /\ row'[K] \in {"UNKNOWN", "FAILED"}
      /\ (row'[K] = "FAILED" => stage[c] = "dead" /\ answer'[c] = "FAILED")
  <2>1. row \in [Key -> Statuses]
    BY DEF TransferInvariant, TypeOK
  <2>2. answer \in [Call -> Answers]
    BY DEF TransferInvariant, TypeOK
  <2> QED BY <1>1, <2>1, <2>2 DEF GiveUp, Settle, Answered
<1>4. (\A d \in Call \ {c} : answer'[d] = answer[d]) /\ answer'[c] \in {"PROCESSING", "FAILED"}
  <2>1. answer \in [Call -> Answers]
    BY DEF TransferInvariant, TypeOK
  <2> QED BY <2>1 DEF GiveUp, Answered
<1>5. CallInvariant(c)'
  BY <1>1, <1>2, <1>3, <1>4 DEF CallInvariant, Holds, Unsent, Settled
<1>6. KeyInvariant(K)'
  BY <1>1, <1>2, <1>3 DEF KeyInvariant, Holds, Unsent
<1>7. /\ stage'[c] # "idle"
      /\ \A h \in Handler \ {c} :
           stage'[h] = stage[h] /\ verdict'[h] = verdict[h] /\ delay'[h] = delay[h]
      /\ \A k \in Key \ {K} : moved'[k] = moved[k] /\ row'[k] = row[k]
      /\ UNCHANGED <<body, asks, looked>> /\ row'[K] # "none" /\ moved'[K] = moved[K]
  BY <1>1, <1>2, <1>3
<1> QED BY <1>2, <1>4, <1>5, <1>6, <1>7, CallStep

-----------------------------------------------------------------------------
(***************************************************************************)
(* The handler of a lookup, and reconciliation that waits for it.          *)
(***************************************************************************)
\* A call of a key whose lookup has begun does not see it go on.
LEMMA CallOfLooked ==
  ASSUME NEW d \in Call, CallInvariant(d), stage[KeyOf[d]] # "idle",
         stage'[d] = stage[d], verdict'[d] = verdict[d], delay'[d] = delay[d],
         UNCHANGED <<answer, moved, row, body, looked, asks>>
  PROVE  CallInvariant(d)'
BY DEF CallInvariant, Holds, Unsent, Settled

\* A step of the proxy for a lookup, in which Banking has no part.
LEMMA HandlerOfKey ==
  ASSUME TransferInvariant, NEW k \in Key, NEW s \in Stages, stage[k] # "idle",
         stage' = [stage EXCEPT ![k] = s],
         \A h \in Handler \ {k} : verdict'[h] = verdict[h],
         UNCHANGED <<delay, moved, answer, row, body, looked, asks>>,
         KeyInvariant(k)'
  PROVE  OneSender' /\ (\A d \in Call : CallInvariant(d)') /\ (\A j \in Key : KeyInvariant(j)')
<1>1. \A h \in Handler \ {k} :
        stage'[h] = stage[h] /\ verdict'[h] = verdict[h] /\ delay'[h] = delay[h]
  BY DEF TransferInvariant, TypeOK
<1>2. ASSUME NEW d \in Call, KeyOf[d] = k PROVE CallInvariant(d)'
  <2>1. /\ stage'[d] = stage[d] /\ verdict'[d] = verdict[d] /\ delay'[d] = delay[d]
        /\ CallInvariant(d) /\ stage[KeyOf[d]] # "idle"
        /\ UNCHANGED <<answer, moved, row, body, looked, asks>>
    BY <1>1, <1>2, Handlers DEF TransferInvariant
  <2> QED BY <2>1, CallOfLooked
<1>3. \A j \in Key \ {k} :
        row'[j] = row[j] /\ (j \in asks' => j \in asks) /\ (j \in looked' <=> j \in looked)
  OBVIOUS
<1> QED BY <1>1, <1>2, <1>3, KeyStep

LEMMA AnswerOfKey ==
  ASSUME TransferInvariant, NEW k \in Key, Answer(k),
         UNCHANGED <<answer, alive, bank, rest>>
  PROVE  OneSender' /\ (\A d \in Call : CallInvariant(d)') /\ (\A j \in Key : KeyInvariant(j)')
<1>1. /\ stage[k] = "asking" /\ k \in Handler /\ k \notin Call
      /\ UNCHANGED <<delay, answer, row, body, looked, asks>>
      /\ stage' = [stage EXCEPT ![k] = "answered"]
      /\ KeyInvariant(k) /\ moved[k] \in Nat
  BY Handlers DEF looked, Answer, bank, TransferInvariant, TypeOK
<1>2. PICK v \in Verdicts : Executes(k, v) /\ verdict' = [verdict EXCEPT ![k] = v]
  BY DEF Answer
<1>3. /\ v = IF moved[k] > 0 THEN "moved" ELSE "absent"
      /\ moved' = moved
  BY <1>1, <1>2 DEF Executes
<1>4. /\ \A h \in Handler \ {k} : verdict'[h] = verdict[h]
      /\ verdict'[k] = v /\ stage'[k] = "answered"
  <2>1. stage \in [Handler -> Stages] /\ verdict \in [Handler -> Verdicts]
    BY DEF TransferInvariant, TypeOK
  <2> QED BY <1>1, <1>2, <2>1
<1>5. KeyInvariant(k)'
  BY <1>1, <1>3, <1>4 DEF KeyInvariant, Holds, Unsent
<1>6. "answered" \in Stages /\ stage[k] # "idle"
  BY <1>1 DEF Stages
<1> QED BY <1>1, <1>3, <1>4, <1>5, <1>6, HandlerOfKey

LEMMA FailOfKey ==
  ASSUME TransferInvariant, NEW k \in Key, Fail(k),
         UNCHANGED <<answer, alive, bank, rest>>
  PROVE  OneSender' /\ (\A d \in Call : CallInvariant(d)') /\ (\A j \in Key : KeyInvariant(j)')
<1>1. /\ stage[k] = "asking" /\ k \in Handler /\ k \notin Call
      /\ UNCHANGED <<verdict, delay, answer, row, body, looked, asks>>
      /\ stage' = [stage EXCEPT ![k] = "dead"]
      /\ KeyInvariant(k)
  BY Handlers DEF looked, Fail, bank, TransferInvariant
<1>2. moved' = moved
  BY <1>1 DEF Fail, Lost, Executes
<1>3. stage'[k] = "dead"
  BY <1>1 DEF TransferInvariant, TypeOK
<1>4. KeyInvariant(k)'
  BY <1>1, <1>2, <1>3 DEF KeyInvariant, Holds, Unsent
<1>5. "dead" \in Stages /\ stage[k] # "idle" /\ \A h \in Handler \ {k} : verdict'[h] = verdict[h]
  BY <1>1 DEF Stages
<1> QED BY <1>1, <1>2, <1>4, <1>5, HandlerOfKey

LEMMA EnterOfKey ==
  ASSUME TransferInvariant, NEW k \in Key, Enter(k),
         UNCHANGED <<answer, alive, bank, rest>>
  PROVE  OneSender' /\ (\A d \in Call : CallInvariant(d)') /\ (\A j \in Key : KeyInvariant(j)')
<1>1. /\ stage[k] = "answered" /\ k \in Handler /\ k \notin Call /\ ~delay[k]
      /\ UNCHANGED <<verdict, delay, moved, answer, row, body, looked, asks>>
      /\ KeyInvariant(k)
  BY Handlers DEF looked, Enter, IsTransfer, bank, TransferInvariant, KeyInvariant
<1>2. stage' = [stage EXCEPT ![k] = "replying"]
  BY <1>1 DEF Enter
<1>3. stage'[k] = "replying"
  BY <1>1, <1>2 DEF TransferInvariant, TypeOK
<1>4. KeyInvariant(k)'
  BY <1>1, <1>3 DEF KeyInvariant, Holds, Unsent
<1>5. "replying" \in Stages /\ stage[k] # "idle" /\ \A h \in Handler \ {k} : verdict'[h] = verdict[h]
  BY <1>1 DEF Stages
<1> QED BY <1>1, <1>2, <1>4, <1>5, HandlerOfKey

LEMMA ReplyOfKeyInVain ==
  ASSUME TransferInvariant, NEW k \in Key, ReplyInVain(k)
  PROVE  OneSender' /\ (\A d \in Call : CallInvariant(d)') /\ (\A j \in Key : KeyInvariant(j)')
<1>1. /\ stage[k] = "replying" /\ k \in Handler /\ k \notin asks
      /\ UNCHANGED <<verdict, delay, moved, answer, row, body, looked, asks>>
      /\ stage' = [stage EXCEPT ![k] = "done"]
      /\ KeyInvariant(k)
  BY Handlers DEF looked, ReplyInVain, Reply, bank, TransferInvariant
<1>2. stage'[k] = "done"
  BY <1>1 DEF TransferInvariant, TypeOK
<1>3. KeyInvariant(k)'
  BY <1>1, <1>2 DEF KeyInvariant, Holds, Unsent
<1>4. "done" \in Stages /\ stage[k] # "idle" /\ \A h \in Handler \ {k} : verdict'[h] = verdict[h]
  BY <1>1 DEF Stages
<1> QED BY <1>1, <1>3, <1>4, HandlerOfKey

\* The keys that have been looked up.
LEMMA LookedUp ==
  ASSUME TypeOK, NEW k \in Key, Lookup(k)
  PROVE  looked' = looked \cup {k}
<1>1. /\ attempts \in [Key -> 0..MaxAttempts] /\ MaxAttempts \in Nat
      /\ attempts' = [attempts EXCEPT ![k] = attempts[k] + 1]
  BY FlowAssumption DEF TypeOK, Lookup
<1>2. \A j \in Key : attempts'[j] > 0 <=> attempts[j] > 0 \/ j = k
  BY <1>1
<1> QED BY <1>2 DEF looked

LEMMA LookupKeeps ==
  ASSUME TransferInvariant, NEW k \in Key, Lookup(k)
  PROVE  OneSender' /\ (\A d \in Call : CallInvariant(d)') /\ (\A j \in Key : KeyInvariant(j)')
<1>1. /\ k \in Handler /\ row[k] \in {"UNKNOWN", "PROCESSING"}
      /\ row[k] = "PROCESSING" =>
           \A d \in Call : KeyOf[d] = k => answer[d] # "waiting" /\ stage[d] # "asking"
      /\ UNCHANGED <<moved, answer, row, body>>
      /\ stage' = [stage EXCEPT ![k] = "asking"]
      /\ verdict' = [verdict EXCEPT ![k] = "none"]
      /\ delay' = [delay EXCEPT ![k] = FALSE]
      /\ asks' = asks \cup {k} /\ KeyInvariant(k)
  BY Handlers DEF Lookup, Stale, Take, TransferInvariant
<1>0. looked' = looked \cup {k}
  BY LookedUp DEF TransferInvariant
<1>2. /\ \A h \in Handler \ {k} :
           stage'[h] = stage[h] /\ verdict'[h] = verdict[h] /\ delay'[h] = delay[h]
      /\ stage'[k] = "asking" /\ ~delay'[k]
  BY <1>1 DEF TransferInvariant, TypeOK
<1>3. KeyInvariant(k)'
  BY <1>0, <1>1, <1>2 DEF KeyInvariant, Holds, Unsent
<1>4. ASSUME NEW d \in Call, KeyOf[d] = k PROVE CallInvariant(d)'
  <2>1. /\ stage'[d] = stage[d] /\ verdict'[d] = verdict[d] /\ delay'[d] = delay[d]
        /\ CallInvariant(d)
    BY <1>2, <1>4, Handlers DEF TransferInvariant
  <2>2. answer[d] # "waiting" /\ (stage[d] = "asking" => Slow)
    BY <1>1, <1>4, <2>1 DEF CallInvariant
  <2> QED BY <1>0, <1>1, <1>4, <2>1, <2>2 DEF CallInvariant, Holds, Unsent, Settled
<1>5. /\ \A j \in Key \ {k} : row'[j] = row[j] /\ (j \in asks' => j \in asks)
           /\ (j \in looked' <=> j \in looked)
      /\ UNCHANGED <<moved, answer, body>>
  BY <1>0, <1>1
<1> QED BY <1>2, <1>3, <1>4, <1>5, KeyStep

\* What holds when Banking settles by the answer of a lookup.
LEMMA ResolveFacts ==
  ASSUME TransferInvariant, NEW k \in Key, Resolve(k)
  PROVE  /\ k \in asks /\ k \in looked /\ stage[k] = "replying" /\ k \in Handler
         /\ row[k] \in {"UNKNOWN", "PROCESSING"}
         /\ \/ verdict[k] = "moved" /\ moved[k] = 1
            \/ verdict[k] = "absent" /\ (~Slow => moved[k] = 0)
         /\ UNCHANGED <<mode, verdict, delay, moved, answer, alive, body, attempts, looked, acked, rest>>
         /\ stage' = [stage EXCEPT ![k] = "done"]
         /\ row' = [row EXCEPT ![k] = IF verdict[k] = "moved" THEN "SUCCEEDED" ELSE "FAILED"]
         /\ outbox' = [outbox EXCEPT ![k] = "PENDING"]
         /\ asks' = asks \ {k}
<1>1. k \in asks /\ stage[k] = "replying" /\ k \in Handler /\ KeyInvariant(k)
  BY Handlers DEF Resolve, Reply, TransferInvariant
<1>2. /\ k \in looked /\ row[k] \in {"UNKNOWN", "PROCESSING"}
      /\ \/ verdict[k] = "moved" /\ moved[k] = 1
         \/ verdict[k] = "absent" /\ (~Slow => moved[k] = 0)
  BY <1>1 DEF KeyInvariant, Holds, Unsent
<1> QED BY <1>1, <1>2 DEF Resolve, Reply, Settle, looked

LEMMA ResolveKeeps ==
  ASSUME TransferInvariant, NEW k \in Key, Resolve(k)
  PROVE  OneSender' /\ (\A d \in Call : CallInvariant(d)') /\ (\A j \in Key : KeyInvariant(j)')
<1>1. /\ k \in asks /\ k \in looked /\ stage[k] = "replying" /\ k \in Handler
      /\ \/ verdict[k] = "moved" /\ moved[k] = 1
         \/ verdict[k] = "absent"
      /\ UNCHANGED <<verdict, delay, moved, answer, body, looked>>
      /\ asks' = asks \ {k} /\ KeyInvariant(k)
  BY ResolveFacts DEF TransferInvariant
<1>2. /\ \A h \in Handler \ {k} :
           stage'[h] = stage[h] /\ verdict'[h] = verdict[h] /\ delay'[h] = delay[h]
      /\ stage'[k] = "done"
  <2>1. stage \in [Handler -> Stages] /\ stage' = [stage EXCEPT ![k] = "done"]
    BY ResolveFacts DEF TransferInvariant, TypeOK
  <2> QED BY <1>1, <2>1
<1>3. /\ \A j \in Key \ {k} : row'[j] = row[j]
      /\ row'[k] = IF verdict[k] = "moved" THEN "SUCCEEDED" ELSE "FAILED"
  <2>1. /\ row \in [Key -> Statuses]
        /\ row' = [row EXCEPT ![k] = IF verdict[k] = "moved" THEN "SUCCEEDED" ELSE "FAILED"]
    BY ResolveFacts DEF TransferInvariant, TypeOK
  <2> QED BY <2>1
<1>4. KeyInvariant(k)'
  BY <1>1, <1>2, <1>3 DEF KeyInvariant, Holds, Unsent
<1>5. ASSUME NEW d \in Call, KeyOf[d] = k PROVE CallInvariant(d)'
  <2>1. /\ stage'[d] = stage[d] /\ verdict'[d] = verdict[d] /\ delay'[d] = delay[d]
        /\ CallInvariant(d)
    BY <1>2, <1>5, Handlers DEF TransferInvariant
  <2>2. answer[d] # "waiting" /\ (stage[d] = "asking" => Slow)
    BY <1>1, <1>5, <2>1 DEF CallInvariant
  <2> QED BY <1>1, <1>3, <1>5, <2>1, <2>2 DEF CallInvariant, Holds, Unsent, Settled
<1>6. /\ \A j \in Key \ {k} : row'[j] = row[j] /\ (j \in asks' => j \in asks)
           /\ (j \in looked' <=> j \in looked)
  BY <1>1, <1>3
<1> QED BY <1>1, <1>2, <1>4, <1>5, <1>6, KeyStep

-----------------------------------------------------------------------------
(***************************************************************************)
(* Types.                                                                  *)
(***************************************************************************)
LEMMA RepliesTypes ==
  ASSUME TypeOK, NEW h \in Handler, Wake(h) \/ Reply(h)
  PROVE  stage' \in [Handler -> Stages] /\ UNCHANGED <<mode, verdict, delay, moved>>
BY DEF TypeOK, Wake, Reply, Stages

LEMMA CallTypes ==
  ASSUME TypeOK, NEW c \in Call, SendAgain(c) \/ SendInVain(c)
  PROVE  TypeOK'
<1>1. answer' \in [Call -> Answers]
  BY DEF TypeOK, SendAgain, SendInVain, Answered, ApiStatus, Answers
<1>2. UNCHANGED <<mode, stage, verdict, delay, moved, alive, row, body, attempts, asks, outbox,
                  acked, broker, topic, shown, arms, kills, outages>>
  BY DEF looked, SendAgain, SendInVain, proxy, bank, rest
<1> QED BY <1>1, <1>2 DEF TypeOK

LEMMA ServeCallTypes ==
  ASSUME TypeOK, NEW c \in Call, Save(c) \/ GiveUp(c) \/ WakeLate(c)
  PROVE  TypeOK'
<1>0. c \in Handler /\ KeyOf[c] \in Key
  BY Handlers
<1>1. CASE Save(c)
  <2>1. stage' \in [Handler -> Stages] /\ UNCHANGED <<mode, verdict, delay, moved>>
    BY <1>0, <1>1, RepliesTypes DEF Save
  <2>2. /\ row' \in [Key -> Statuses] /\ outbox' \in [Key -> Outboxes]
        /\ answer' \in [Call -> Answers]
    BY <1>0, <1>1 DEF TypeOK, Save, Settle, Answered, Statuses, Answers, Outboxes
  <2>3. UNCHANGED <<alive, body, attempts, asks, acked, broker, topic, shown, arms, kills, outages>>
    BY <1>1 DEF Save, rest
  <2> QED BY <2>1, <2>2, <2>3 DEF TypeOK
<1>2. CASE GiveUp(c)
  <2>1. /\ row' \in [Key -> Statuses] /\ answer' \in [Call -> Answers]
        /\ outbox' \in [Key -> Outboxes]
    BY <1>0, <1>2 DEF TypeOK, GiveUp, Settle, Answered, Statuses, Answers, Outboxes
  <2>2. UNCHANGED <<mode, stage, verdict, delay, moved, alive, body, attempts, asks, acked,
                    broker, topic, shown, arms, kills, outages>>
    BY <1>2 DEF GiveUp, proxy, rest
  <2> QED BY <2>1, <2>2 DEF TypeOK
<1>3. CASE WakeLate(c)
  <2>1. stage' \in [Handler -> Stages] /\ UNCHANGED <<mode, verdict, delay, moved>>
    BY <1>0, <1>3, RepliesTypes DEF WakeLate
  <2>2. UNCHANGED <<answer, alive, row, body, attempts, asks, outbox, acked, broker, topic, shown,
                    arms, kills, outages>>
    BY <1>3 DEF WakeLate, bank, rest
  <2> QED BY <2>1, <2>2 DEF TypeOK
<1> QED BY <1>1, <1>2, <1>3

LEMMA ProxyTypes ==
  ASSUME TypeOK, NEW h \in Handler, Proxy(h) \/ ReplyInVain(h)
  PROVE  TypeOK'
<1>1. UNCHANGED <<answer, alive, row, body, attempts, asks, outbox, acked, broker, topic, shown,
                  arms, kills, outages>>
  BY DEF looked, Proxy, ReplyInVain, bank, rest
<1>2. CASE Proxy(h) /\ (Answer(h) \/ Fail(h))
  <2>1. /\ stage' \in [Handler -> Stages] /\ verdict' \in [Handler -> Verdicts]
        /\ moved' \in [Key -> Nat] /\ UNCHANGED <<mode, delay>>
    BY <1>2, AnswerTypes
  <2> QED BY <1>1, <2>1 DEF TypeOK
<1>3. CASE Proxy(h) /\ Enter(h)
  <2>1. /\ stage' \in [Handler -> Stages] /\ delay' \in [Handler -> BOOLEAN]
        /\ mode' \in [delay_once : BOOLEAN, forwarded : BOOLEAN, transfer_posts : Nat,
                        ready_to_kill : BOOLEAN]
        /\ UNCHANGED <<verdict, moved>>
    BY <1>3, EnterTypes
  <2> QED BY <1>1, <2>1 DEF TypeOK
<1>4. CASE ReplyInVain(h)
  <2>1. stage' \in [Handler -> Stages] /\ UNCHANGED <<mode, verdict, delay, moved>>
    BY <1>4, RepliesTypes DEF ReplyInVain
  <2> QED BY <1>1, <2>1 DEF TypeOK
<1> QED BY <1>2, <1>3, <1>4 DEF Proxy

LEMMA KeyTypes ==
  ASSUME TypeOK, NEW k \in Key,
         \/ Lookup(k) \/ Resolve(k) \/ LookupFails(k)
         \/ Publish(k) \/ Exhaust(k) \/ MarkPublished(k) \/ Consume(k)
  PROVE  TypeOK'
<1>0. k \in Handler
  BY Handlers
<1>1. CASE Lookup(k)
  <2>1. /\ stage' \in [Handler -> Stages] /\ verdict' \in [Handler -> Verdicts]
        /\ asks' \subseteq Key /\ UNCHANGED <<mode, moved>>
    BY <1>0, <1>1 DEF TypeOK, Lookup, Take, Stages, Verdicts
  <2>4. attempts' \in [Key -> 0..MaxAttempts]
    <3>1. /\ attempts \in [Key -> 0..MaxAttempts] /\ attempts[k] < MaxAttempts /\ MaxAttempts \in Nat
          /\ attempts' = [attempts EXCEPT ![k] = attempts[k] + 1]
      BY <1>1, FlowAssumption DEF TypeOK, Lookup
    <3> QED BY <3>1
  <2>2. delay' \in [Handler -> BOOLEAN]
    BY <1>0, <1>1 DEF TypeOK, Lookup, Take
  <2>3. UNCHANGED <<answer, alive, row, body, outbox, acked, broker, topic, shown, arms, kills, outages>>
    BY <1>1 DEF Lookup, rest
  <2> QED BY <2>1, <2>2, <2>3, <2>4 DEF TypeOK
<1>2. CASE Resolve(k)
  <2>1. stage' \in [Handler -> Stages] /\ UNCHANGED <<mode, verdict, delay, moved>>
    BY <1>0, <1>2, RepliesTypes DEF Resolve
  <2>2. /\ row' \in [Key -> Statuses] /\ outbox' \in [Key -> Outboxes]
        /\ asks' \subseteq Key
    BY <1>2 DEF TypeOK, Resolve, Settle, Statuses, Outboxes
  <2>3. UNCHANGED <<answer, alive, body, attempts, acked, broker, topic, shown, arms, kills, outages>>
    BY <1>2 DEF Resolve, rest
  <2> QED BY <2>1, <2>2, <2>3 DEF TypeOK
<1>3. CASE LookupFails(k)
  BY <1>3 DEF TypeOK, LookupFails, proxy, rest
<1>4. CASE Publish(k)
  BY <1>4 DEF TypeOK, Publish, proxy
<1>5. CASE MarkPublished(k) \/ Exhaust(k)
  BY <1>5 DEF TypeOK, MarkPublished, Exhaust, Outboxes, proxy, rest
<1>6. CASE Consume(k)
  BY <1>6 DEF TypeOK, Consume, proxy, bank
<1> QED BY <1>1, <1>2, <1>3, <1>4, <1>5, <1>6

LEMMA DriveTypes ==
  ASSUME TypeOK, Arm \/ Kill \/ Restart \/ StopKafka \/ StartKafka
  PROVE  TypeOK'
<1>1. CASE Arm
  <2>1. mode' \in [delay_once : BOOLEAN, forwarded : BOOLEAN, transfer_posts : Nat,
                     ready_to_kill : BOOLEAN]
    <3>1. mode \in [delay_once : BOOLEAN, forwarded : BOOLEAN, transfer_posts : Nat,
                    ready_to_kill : BOOLEAN]
      BY DEF TypeOK
    <3>2. mode' = Armed(mode)
      BY <1>1 DEF Arm, Control
    <3> QED BY <3>1, <3>2, Zenon DEF Armed
  <2>2. arms' \in 0..MaxArms
    BY <1>1, FlowAssumption DEF TypeOK, Arm
  <2>3. UNCHANGED <<stage, verdict, delay, moved, answer, alive, row, body, attempts, asks, outbox,
                    acked, broker, topic, shown, kills, outages>>
    BY <1>1 DEF Arm, Control, bank
  <2> QED BY <2>1, <2>2, <2>3 DEF TypeOK
<1>2. CASE Kill
  <2>1. /\ answer' \in [Call -> Answers] /\ alive' \in BOOLEAN
        /\ asks' \subseteq Key /\ acked' \subseteq Key
    BY <1>2 DEF TypeOK, Kill, Answers
  <2>3. kills' \in 0..MaxKills
    <3>1. kills \in 0..MaxKills /\ MaxKills \in Nat /\ kills < MaxKills /\ kills' = kills + 1
      BY <1>2, FlowAssumption DEF TypeOK, Kill
    <3> QED BY <3>1
  <2>2. UNCHANGED <<mode, stage, verdict, delay, moved, row, body, attempts, outbox,
                    broker, topic, shown, arms, outages>>
    BY <1>2 DEF Kill, proxy
  <2> QED BY <2>1, <2>2, <2>3 DEF TypeOK
<1>3. CASE Restart
  BY <1>3 DEF TypeOK, Restart, proxy, bank, rest
<1>4. CASE StopKafka
  <2>1. broker' \in BOOLEAN
    BY <1>4 DEF StopKafka
  <2>3. outages' \in 0..MaxOutages
    <3>1. /\ outages \in 0..MaxOutages /\ MaxOutages \in Nat /\ outages < MaxOutages
          /\ outages' = outages + 1
      BY <1>4, FlowAssumption DEF TypeOK, StopKafka
    <3> QED BY <3>1
  <2>2. UNCHANGED <<mode, stage, verdict, delay, moved, answer, alive, row, body, attempts, asks,
                    outbox, acked, topic, shown, arms, kills>>
    BY <1>4 DEF StopKafka, proxy, bank
  <2> QED BY <2>1, <2>2, <2>3 DEF TypeOK
<1>5. CASE StartKafka
  BY <1>5 DEF TypeOK, StartKafka, proxy, bank
<1> QED BY <1>1, <1>2, <1>3, <1>4, <1>5

-----------------------------------------------------------------------------
(***************************************************************************)
(* The invariant.                                                          *)
(***************************************************************************)
LEMMA InitHolds == Init => TransferInvariant
<1> SUFFICES ASSUME Init PROVE TransferInvariant
  OBVIOUS
<1>1. /\ stage = [h \in Handler |-> "idle"] /\ verdict = [h \in Handler |-> "none"]
      /\ delay = [h \in Handler |-> FALSE] /\ moved = [k \in Key |-> 0]
      /\ answer = [c \in Call |-> "none"] /\ row = [k \in Key |-> "none"]
      /\ attempts = [k \in Key |-> 0] /\ asks = {}
  BY DEF Init, ProxyInit
<1>2. TypeOK
  <2>1. /\ stage \in [Handler -> Stages] /\ verdict \in [Handler -> Verdicts]
        /\ delay \in [Handler -> BOOLEAN] /\ moved \in [Key -> Nat]
        /\ answer \in [Call -> Answers] /\ row \in [Key -> Statuses]
        /\ attempts \in [Key -> 0..MaxAttempts] /\ asks \subseteq Key
    BY <1>1, FlowAssumption DEF Stages, Verdicts, Answers, Statuses
  <2>2. mode \in [delay_once : BOOLEAN, forwarded : BOOLEAN, transfer_posts : Nat,
                  ready_to_kill : BOOLEAN]
    BY DEF Init, ProxyInit
  <2>3. /\ body \in [Key -> {BodyOf[c] : c \in Call} \cup {NoBody}] /\ alive \in BOOLEAN
        /\ outbox \in [Key -> Outboxes] /\ acked \subseteq Key
        /\ broker \in BOOLEAN /\ topic \subseteq Key /\ shown \subseteq Key
        /\ arms \in 0..MaxArms /\ kills \in 0..MaxKills /\ outages \in 0..MaxOutages
    BY FlowAssumption DEF Init, Outboxes
  <2> QED BY <2>1, <2>2, <2>3 DEF TypeOK
<1>3. OneSender
  BY <1>1, Handlers DEF OneSender, Sends
<1>4. ASSUME NEW c \in Call PROVE CallInvariant(c)
  <2>1. /\ stage[c] = "idle" /\ ~delay[c] /\ answer[c] = "none" /\ verdict[c] = "none"
    BY <1>1, Handlers
  <2> QED BY <2>1 DEF CallInvariant, Holds, Unsent
<1>5. ASSUME NEW k \in Key PROVE KeyInvariant(k)
  <2>1. stage[k] = "idle" /\ ~delay[k] /\ moved[k] = 0 /\ row[k] = "none" /\ k \notin asks
        /\ k \notin looked
    BY <1>1, Handlers DEF looked
  <2> QED BY <2>1 DEF KeyInvariant, Holds, Unsent
<1> QED BY <1>2, <1>3, <1>4, <1>5 DEF TransferInvariant

\* The steps in which neither the proxy's handlers nor a row takes part.
QuietStep ==
  \/ \E c \in Call : SendAgain(c) \/ SendInVain(c)
  \/ \E k \in Key : LookupFails(k) \/ Publish(k) \/ Exhaust(k) \/ MarkPublished(k) \/ Consume(k)
  \/ Drives

LEMMA QuietSteps ==
  ASSUME TransferInvariant, QuietStep
  PROVE  OneSender' /\ (\A c \in Call : CallInvariant(c)') /\ (\A k \in Key : KeyInvariant(k)')
<1>1. UNCHANGED <<stage, verdict, delay, moved, row, body, looked>>
  BY DEF looked, QuietStep, SendAgain, SendInVain, LookupFails, Publish, Exhaust, MarkPublished,
         Consume, Drives, Arm, Control, Kill, Restart, StopKafka, StartKafka, proxy, bank
<1>2. asks' \subseteq asks
  BY DEF QuietStep, SendAgain, SendInVain, LookupFails, Publish, Exhaust, MarkPublished, Consume, Drives,
         Arm, Kill, Restart, StopKafka, StartKafka, bank
<1>3. ASSUME NEW c \in Call
      PROVE  \/ answer'[c] = answer[c]
             \/ /\ answer'[c] \notin {"none", "waiting"}
                /\ answer'[c] = "COMPLETED" =>
                     row[KeyOf[c]] # "none" /\ moved[KeyOf[c]] = 1 /\ body[KeyOf[c]] = BodyOf[c]
  <2>0. answer \in [Call -> Answers] /\ KeyOf[c] \in Key /\ KeyInvariant(KeyOf[c])
    BY Handlers DEF TransferInvariant, TypeOK
  <2>1. CASE \E d \in Call : SendAgain(d)
    <3>1. PICK d \in Call : SendAgain(d)
      BY <2>1
    <3>2. CASE c = d
      <4>1. answer'[c] = IF body[KeyOf[c]] = BodyOf[c] THEN ApiStatus(row[KeyOf[c]]) ELSE "CONFLICT"
        BY <2>0, <3>1, <3>2 DEF SendAgain, Answered
      <4>2. ApiStatus(row[KeyOf[c]]) \in {"COMPLETED", "FAILED", "PROCESSING"}
            /\ (ApiStatus(row[KeyOf[c]]) = "COMPLETED" => row[KeyOf[c]] = "SUCCEEDED")
        BY DEF ApiStatus
      <4> QED BY <2>0, <4>1, <4>2 DEF KeyInvariant
    <3>3. CASE c # d
      BY <2>0, <3>1, <3>3 DEF SendAgain, Answered
    <3> QED BY <3>2, <3>3
  <2>2. CASE \E d \in Call : SendInVain(d)
    BY <2>0, <2>2 DEF SendInVain, Answered
  <2>3. CASE Kill
    BY <2>0, <2>3 DEF Kill
  <2>4. CASE \/ \E k \in Key : LookupFails(k) \/ Publish(k) \/ Exhaust(k) \/ MarkPublished(k) \/ Consume(k)
             \/ Arm \/ Restart \/ StopKafka \/ StartKafka
    BY <2>4 DEF LookupFails, Publish, Exhaust, MarkPublished, Consume, Arm, Restart, StopKafka, StartKafka
  <2> QED BY <2>1, <2>2, <2>3, <2>4 DEF QuietStep, Drives
<1> QED BY <1>1, <1>2, <1>3, Quiet DEF TransferInvariant

LEMMA NextStep ==
  ASSUME TransferInvariant, [Next]_vars
  PROVE  TransferInvariant'
<1> DEFINE Keeps == /\ TypeOK' /\ OneSender'
                    /\ (\A c \in Call : CallInvariant(c)') /\ (\A k \in Key : KeyInvariant(k)')
<1>0. TypeOK
  BY DEF TransferInvariant
<1>1. ASSUME NEW c \in Call, Send(c) \/ MarkProcessing(c) PROVE Keeps
  BY <1>0, <1>1, SendTypes, SendKeeps, MarkKeeps
<1>2. ASSUME NEW c \in Call, SendAgain(c) \/ SendInVain(c) PROVE Keeps
  <2>1. TypeOK' /\ QuietStep
    BY <1>0, <1>2, CallTypes DEF QuietStep
  <2> QED BY <2>1, QuietSteps
<1>3. ASSUME NEW c \in Call, Save(c) \/ GiveUp(c) \/ WakeLate(c) PROVE Keeps
  BY <1>0, <1>3, ServeCallTypes, SaveKeeps, GiveUpKeeps, WakeOfCall
<1>4. ASSUME NEW h \in Handler, Proxy(h) \/ ReplyInVain(h) PROVE Keeps
  <2>1. TypeOK'
    BY <1>0, <1>4, ProxyTypes
  <2>2. CASE h \in Call
    BY <1>4, <2>1, <2>2, AnswerOfCall, FailOfCall, EnterOfCall, ReplyOfCallInVain DEF Proxy
  <2>3. CASE h \in Key
    BY <1>4, <2>1, <2>3, AnswerOfKey, FailOfKey, EnterOfKey, ReplyOfKeyInVain DEF Proxy
  <2> QED BY <2>2, <2>3 DEF Handler
<1>5. ASSUME NEW k \in Key, Lookup(k) \/ Resolve(k) PROVE Keeps
  BY <1>0, <1>5, KeyTypes, LookupKeeps, ResolveKeeps
<1>6. ASSUME NEW k \in Key, LookupFails(k) \/ Publish(k) \/ Exhaust(k) \/ MarkPublished(k) \/ Consume(k)
      PROVE  Keeps
  <2>1. TypeOK' /\ QuietStep
    BY <1>0, <1>6, KeyTypes DEF QuietStep
  <2> QED BY <2>1, QuietSteps
<1>7. ASSUME Drives PROVE Keeps
  <2>1. TypeOK' /\ QuietStep
    BY <1>0, <1>7, DriveTypes DEF Drives, QuietStep
  <2> QED BY <2>1, QuietSteps
<1>8. CASE UNCHANGED vars
  BY <1>8 DEF vars, TransferInvariant, TypeOK, OneSender, Sends, looked, CallInvariant, KeyInvariant, Holds, Unsent, Settled
<1>9. ASSUME Next PROVE Keeps
  <2> HIDE DEF Keeps
  <2> QED BY <1>1, <1>2, <1>3, <1>4, <1>5, <1>6, <1>7, <1>9 DEF Next, Calls, Serves
<1> QED BY <1>8, <1>9 DEF TransferInvariant

\* The invariant holds throughout.
THEOREM TransferInvariantHolds == Spec => []TransferInvariant
<1>1. TransferInvariant /\ [Next]_vars => TransferInvariant'
  BY NextStep
<1> QED BY <1>1, InitHolds, PTL DEF Spec

\* The variables have their types, whatever is killed, stopped or held back.
THEOREM TransferTypes == Spec => []TypeOK
<1>1. TransferInvariant => TypeOK
  BY DEF TransferInvariant
<1> QED BY <1>1, TransferInvariantHolds, PTL

\* The mock bank executes the transfer of a key at most once, for any number
\* of calls with the key, kills, delays and lookups: a row is made once, by
\* the only call that sends.
THEOREM MoneyMovesOnce == Spec => []MovedOnce
<1>1. TransferInvariant => MovedOnce
  BY DEF TransferInvariant, KeyInvariant, MovedOnce
<1> QED BY <1>1, TransferInvariantHolds, PTL

\* A caller that is told COMPLETED, at once or after a repetition, asked for
\* the transfer that was executed.
THEOREM ToldIsTrue == Spec => []ToldTrue
<1>1. TransferInvariant => ToldTrue
  BY DEF TransferInvariant, CallInvariant, ToldTrue
<1> QED BY <1>1, TransferInvariantHolds, PTL

\* A transfer whose answer the proxy has held back is settled by a lookup.
THEOREM HeldAreReconciled == Spec => []HeldIsReconciled
<1>1. TransferInvariant => HeldIsReconciled
  BY DEF TransferInvariant, CallInvariant, HeldIsReconciled
<1> QED BY <1>1, TransferInvariantHolds, PTL

-----------------------------------------------------------------------------
(***************************************************************************)
(* The count of the proxy.                                                 *)
(***************************************************************************)
LEMMA CountInit == Init => CountInvariant
<1> SUFFICES ASSUME Init PROVE CountInvariant
  OBVIOUS
<1>1. mode.transfer_posts = 0 /\ stage = [h \in Handler |-> "idle"]
  BY DEF Init, ProxyInit
<1>2. Passed = {}
  BY <1>1, Handlers DEF Passed
<1> QED BY <1>1, <1>2, FS_EmptySet DEF CountInvariant

\* The step in which a transfer is counted.
LEMMA CountEnter ==
  ASSUME IsFiniteSet(Call), TransferInvariant, CountInvariant, NEW c \in Call, Enter(c)
  PROVE  CountInvariant'
<1>1. /\ stage[c] = "answered" /\ c \in Handler
      /\ mode' = Counted(mode) /\ stage'[c] \in {"held", "replying"}
      /\ \A h \in Handler \ {c} : stage'[h] = stage[h]
  BY Handlers DEF Enter, IsTransfer, TransferInvariant, TypeOK
<1>2. c \notin Passed /\ Passed' = Passed \cup {c}
  BY <1>1, Handlers DEF Passed
<1>3. IsFiniteSet(Passed)
  BY FS_Subset DEF Passed
<1>4. Cardinality(Passed') = Cardinality(Passed) + 1
  BY <1>2, <1>3, FS_AddElement
<1>5. mode'.transfer_posts = mode.transfer_posts + 1
  BY <1>1 DEF Counted, TransferInvariant, TypeOK
<1> QED BY <1>4, <1>5 DEF CountInvariant

\* Any other step of the handlers leaves alone who has passed.
LEMMA CountSame ==
  ASSUME CountInvariant, mode'.transfer_posts = mode.transfer_posts,
         \A c \in Call : c \in Passed <=> stage'[c] \in {"held", "replying", "done"}
  PROVE  CountInvariant'
<1>1. Passed' = Passed
  BY DEF Passed
<1> QED BY <1>1 DEF CountInvariant

LEMMA CountStep ==
  ASSUME IsFiniteSet(Call), TransferInvariant, CountInvariant, [Next]_vars
  PROVE  CountInvariant'
<1>0. stage \in [Handler -> Stages]
  BY DEF TransferInvariant, TypeOK
<1>1. ASSUME NEW c \in Call, MarkProcessing(c) PROVE CountInvariant'
  <2>1. /\ mode' = mode /\ c \in Handler /\ stage[c] = "idle"
        /\ stage' = [stage EXCEPT ![c] = "asking"]
    BY <1>1, MarkFacts
  <2>2. \A d \in Call : d \in Passed <=> stage'[d] \in {"held", "replying", "done"}
    BY <1>0, <2>1, Handlers DEF Passed
  <2> QED BY <2>1, <2>2, CountSame
<1>2. ASSUME NEW h \in Handler, (Proxy(h) /\ (Answer(h) \/ Fail(h))) \/ ReplyInVain(h)
      PROVE  CountInvariant'
  <2>1. /\ mode' = mode
        /\ \/ stage[h] = "asking" /\ stage' = [stage EXCEPT ![h] = "answered"]
           \/ stage[h] = "asking" /\ stage' = [stage EXCEPT ![h] = "dead"]
           \/ stage[h] = "replying" /\ stage' = [stage EXCEPT ![h] = "done"]
    BY <1>2 DEF Answer, Fail, ReplyInVain, Reply
  <2>2. \A d \in Call : d \in Passed <=> stage'[d] \in {"held", "replying", "done"}
    BY <1>0, <2>1, Handlers DEF Passed
  <2> QED BY <2>1, <2>2, CountSame
<1>3. ASSUME NEW k \in Key, Proxy(k) /\ Enter(k) PROVE CountInvariant'
  <2>1. mode' = mode /\ \A d \in Call : stage'[d] = stage[d]
    BY <1>0, <1>3, Handlers DEF Enter, IsTransfer
  <2> QED BY <2>1, CountSame DEF Passed
<1>4. ASSUME NEW c \in Call, Save(c) \/ WakeLate(c) PROVE CountInvariant'
  <2>1. /\ mode' = mode /\ c \in Handler
        /\ \/ stage[c] = "replying" /\ stage' = [stage EXCEPT ![c] = "done"]
           \/ stage[c] = "held" /\ stage' = [stage EXCEPT ![c] = "replying"]
    BY <1>4, Handlers DEF Save, Reply, WakeLate, Wake
  <2>2. \A d \in Call : d \in Passed <=> stage'[d] \in {"held", "replying", "done"}
    BY <1>0, <2>1, Handlers DEF Passed
  <2> QED BY <2>1, <2>2, CountSame
<1>5. ASSUME NEW k \in Key, Lookup(k) \/ Resolve(k) PROVE CountInvariant'
  <2>1. mode' = mode /\ \A d \in Call : stage'[d] = stage[d]
    BY <1>0, <1>5, Handlers DEF Lookup, Take, Resolve, Reply
  <2> QED BY <2>1, CountSame DEF Passed
<1>6. ASSUME \/ \E c \in Call : Send(c) \/ SendAgain(c) \/ SendInVain(c) \/ GiveUp(c)
             \/ \E k \in Key : LookupFails(k) \/ Publish(k) \/ Exhaust(k) \/ MarkPublished(k) \/ Consume(k)
             \/ Kill \/ Restart \/ StopKafka \/ StartKafka
             \/ UNCHANGED vars
      PROVE  CountInvariant'
  <2>1. UNCHANGED <<mode, stage>>
    BY <1>6 DEF Send, SendAgain, SendInVain, GiveUp, LookupFails, Publish, Exhaust, MarkPublished, Consume,
         Kill, Restart, StopKafka, StartKafka, proxy, vars
  <2> QED BY <2>1, CountSame DEF Passed
<1>7. ASSUME Arm PROVE CountInvariant'
  <2>1. mode' = Armed(mode) /\ stage' = stage
    BY <1>7 DEF Arm, Control
  <2>2. mode'.transfer_posts = mode.transfer_posts
    BY <2>1 DEF Armed, TransferInvariant, TypeOK
  <2> QED BY <2>1, <2>2, CountSame DEF Passed
<1>8. ASSUME NEW h \in Handler, Proxy(h) PROVE CountInvariant'
  BY <1>2, <1>3, <1>8, CountEnter DEF Proxy, Handler
<1> QED
  BY <1>1, <1>2, <1>4, <1>5, <1>6, <1>7, <1>8 DEF Next, Calls, Serves, Drives

\* A transfer that Banking has settled without a lookup has passed the proxy.
LEMMA CountFacts ==
  ASSUME IsFiniteSet(Call), TransferInvariant, CountInvariant
  PROVE  CountTells
<1>1. Settler \subseteq Passed
  <2> SUFFICES ASSUME NEW c \in Settler PROVE c \in Passed
    OBVIOUS
  <2>1. /\ c \in Call /\ stage[c] # "idle" /\ stage[c] \in Stages
        /\ row[KeyOf[c]] = "SUCCEEDED" /\ KeyOf[c] \notin looked /\ CallInvariant(c)
    BY Handlers DEF Settler, Sent, TransferInvariant, TypeOK
  <2>2. stage[c] \notin {"asking", "answered", "dead"}
    BY <2>1 DEF CallInvariant, Settled
  <2> QED BY <2>1, <2>2 DEF Passed, Stages
<1>2. Passed \subseteq Sent
  BY DEF Passed, Sent
<1>3. IsFiniteSet(Sent) /\ IsFiniteSet(Passed)
  BY FS_Subset DEF Sent, Passed
<1>4. Cardinality(Settler) <= Cardinality(Passed) /\ Cardinality(Passed) <= Cardinality(Sent)
  BY <1>1, <1>2, <1>3, FS_Subset
<1> QED BY <1>4 DEF CountInvariant, CountTells

\* The count that the tests read lies between the transfers whose outcome was
\* told and those that were sent, however the proxy's threads overlap.
THEOREM CountIsRight ==
  ASSUME IsFiniteSet(Call)
  PROVE  Spec => []CountTells
<1>1. CountInvariant /\ TransferInvariant /\ [Next]_vars => CountInvariant'
  BY CountStep
<1>2. CountInvariant /\ TransferInvariant => CountTells
  BY CountFacts
<1> QED BY <1>1, <1>2, CountInit, TransferInvariantHolds, PTL DEF Spec

-----------------------------------------------------------------------------
(***************************************************************************)
(* The promise of OneTransfer, if the mock bank is never slow.             *)
(***************************************************************************)
LEMMA MoneyIs ==
  ASSUME NEW k \in Key
  PROVE  /\ moved[k] = 0 => Money[k] = "still"
         /\ moved[k] = 1 => Money[k] = "moved"
BY DEF Money

LEMMA OutcomeIs ==
  ASSUME NEW k \in Key
  PROVE  /\ row[k] = "SUCCEEDED" => Outcome[k] = "COMPLETED"
         /\ row[k] = "FAILED" => Outcome[k] = "FAILED"
         /\ ~Settled(k) => Outcome[k] = "open"
BY DEF Outcome, Settled

\* The keys in doubt change with a request that breaks and with a lookup.
LEMMA SameDoubts ==
  ASSUME looked' = looked, \A c \in Call : Broke(c)' <=> Broke(c)
  PROVE  Doubtful' = Doubtful
BY DEF Doubtful

LEMMA MoreDoubts ==
  ASSUME NEW c \in Call, looked' = looked, Broke(c)', ~Broke(c),
         \A d \in Call \ {c} : Broke(d)' <=> Broke(d)
  PROVE  Doubtful' \in {Doubtful, Doubtful \cup {KeyOf[c]}}
<1>1. \A k \in Key \ {KeyOf[c]} : k \in Doubtful' <=> k \in Doubtful
  BY DEF Doubtful
<1>2. Doubtful \subseteq Doubtful' /\ Doubtful \subseteq Key /\ Doubtful' \subseteq Key
  BY DEF Doubtful
<1>3. KeyOf[c] \in Key
  BY Handlers
<1> QED BY <1>1, <1>2, <1>3

\* A step that neither moves money nor settles nor shows nor breaks.
LEMMA Stutters ==
  ASSUME UNCHANGED <<moved, shown, Doubtful>>,
         \A k \in Key : row'[k] = row[k] \/ (~Settled(k) /\ ~Settled(k)')
  PROVE  UNCHANGED Promise!vars
<1>1. Money' = Money
  BY DEF Money
<1>2. ASSUME NEW k \in Key
      PROVE  (CASE row[k] = "SUCCEEDED" -> "COMPLETED" [] row[k] = "FAILED" -> "FAILED" [] OTHER -> "open")'
             = CASE row[k] = "SUCCEEDED" -> "COMPLETED" [] row[k] = "FAILED" -> "FAILED" [] OTHER -> "open"
  BY <1>2 DEF Settled
<1>3. Outcome' = Outcome
  BY <1>2 DEF Outcome
<1> QED BY <1>1, <1>3 DEF Promise!vars

\* The mock bank executes a transfer that is still undecided.
LEMMA Moves ==
  ASSUME NEW k \in Key, moved \in [Key -> Nat], moved[k] = 0, ~Settled(k),
         moved' = [moved EXCEPT ![k] = 1], UNCHANGED <<row, shown>>,
         Doubtful' \in {Doubtful, Doubtful \cup {k}}
  PROVE  Promise!Move(k)
<1>1. Outcome[k] = "open" /\ Money[k] = "still"
  BY MoneyIs, OutcomeIs
<1>2. Money' = [Money EXCEPT ![k] = "moved"]
  <2>1. moved'[k] = 1 /\ \A j \in Key \ {k} : moved'[j] = moved[j]
    OBVIOUS
  <2>2. \A j \in Key \ {k} : Money'[j] = Money[j]
    BY <2>1 DEF Money
  <2>3. Money'[k] = "moved"
    BY <2>1 DEF Money
  <2>4. Money = [j \in Key |-> Money[j]] /\ Money' = [j \in Key |-> Money'[j]]
    BY DEF Money
  <2> HIDE DEF Money
  <2> QED BY <2>2, <2>3, <2>4
<1>3. UNCHANGED <<Outcome, shown>>
  BY DEF Outcome
<1> QED BY <1>1, <1>2, <1>3 DEF Promise!Move

\* Its request breaks, or is answered by an error, and the money stays.
LEMMA Doubts ==
  ASSUME NEW k \in Key, ~Settled(k), UNCHANGED <<moved, row, shown>>,
         Doubtful' \in {Doubtful, Doubtful \cup {k}}
  PROVE  Promise!Doubt(k) \/ UNCHANGED Promise!vars
<1>1. Outcome[k] = "open" /\ UNCHANGED <<Money, Outcome, shown>>
  BY OutcomeIs DEF Money, Outcome
<1> QED BY <1>1 DEF Promise!Doubt, Promise!vars

\* Banking records what has happened to the money, or a failure in doubt.
LEMMA Records ==
  ASSUME NEW k \in Key, row \in [Key -> Statuses], ~Settled(k), NEW v,
         \/ v = "moved" /\ moved[k] = 1
         \/ v # "moved" /\ (moved[k] = 0 \/ k \in Doubtful),
         row' = [row EXCEPT ![k] = IF v = "moved" THEN "SUCCEEDED" ELSE "FAILED"],
         UNCHANGED <<moved, shown, Doubtful>>
  PROVE  Promise!Complete(k) \/ Promise!Fail(k)
<1>1. Outcome[k] = "open" /\ UNCHANGED <<Money, shown, Doubtful>>
  BY OutcomeIs DEF Money
<1>2. CASE v = "moved"
  <2>1. Money[k] = "moved"
    BY <1>2, MoneyIs
  <2>2. Outcome' = [Outcome EXCEPT ![k] = "COMPLETED"]
    BY <1>2 DEF Outcome
  <2> QED BY <1>1, <2>1, <2>2 DEF Promise!Complete
<1>3. CASE v # "moved"
  <2>1. Money[k] = "still" \/ k \in Doubtful
    BY <1>3, MoneyIs
  <2>2. Outcome' = [Outcome EXCEPT ![k] = "FAILED"]
    BY <1>3 DEF Outcome
  <2> QED BY <1>1, <2>1, <2>2 DEF Promise!Fail
<1> QED BY <1>2, <1>3

LEMMA PromiseInit == Init => Promise!Init
<1> SUFFICES ASSUME Init PROVE Promise!Init
  OBVIOUS
<1>1. /\ moved = [k \in Key |-> 0] /\ row = [k \in Key |-> "none"] /\ shown = {}
      /\ stage = [h \in Handler |-> "idle"] /\ verdict = [h \in Handler |-> "none"]
  BY DEF Init, ProxyInit
<1>2. Money = [k \in Key |-> "still"]
  BY <1>1 DEF Money
<1>3. Outcome = [k \in Key |-> "open"]
  BY <1>1 DEF Outcome
<1>4. Doubtful = {}
  BY <1>1, Handlers DEF Doubtful, Broke
<1> QED BY <1>1, <1>2, <1>3, <1>4 DEF Promise!Init

\* A step of the mock bank for a transfer: it executes it, or it does not.
LEMMA PromiseAnswer ==
  ASSUME TransferInvariant, ~Slow, NEW c \in Call, Answer(c) \/ Fail(c), UNCHANGED <<bank, rest>>
  PROVE  Promise!Move(KeyOf[c]) \/ Promise!Doubt(KeyOf[c]) \/ UNCHANGED Promise!vars
<1>1. /\ KeyOf[c] \in Key /\ c \in Handler /\ stage[c] = "asking" /\ CallInvariant(c)
      /\ moved \in [Key -> Nat] /\ UNCHANGED <<row, shown, looked>>
      /\ stage \in [Handler -> Stages] /\ verdict \in [Handler -> Verdicts]
  BY Handlers DEF Answer, Fail, TransferInvariant, TypeOK, looked, bank, rest
<1>2. moved[KeyOf[c]] = 0 /\ ~Settled(KeyOf[c]) /\ ~Broke(c)
  BY <1>1 DEF CallInvariant, Settled, Broke, Holds
<1>3. moved' = [moved EXCEPT ![KeyOf[c]] = 1] \/ moved' = moved
  BY <1>1, <1>2 DEF Answer, Fail, Lost, Executes
<1>4. \A d \in Call \ {c} : Broke(d)' <=> Broke(d)
  <2>1. \A d \in Call \ {c} : stage'[d] = stage[d] /\ verdict'[d] = verdict[d]
    BY <1>1, Handlers DEF Answer, Fail
  <2> QED BY <2>1 DEF Broke
<1>5. Doubtful' \in {Doubtful, Doubtful \cup {KeyOf[c]}}
  <2>1. CASE Broke(c)'
    BY <1>1, <1>2, <1>4, <2>1, MoreDoubts
  <2>2. CASE ~Broke(c)'
    <3>1. Doubtful' = Doubtful
      BY <1>1, <1>2, <1>4, <2>2, SameDoubts
    <3> QED BY <3>1
  <2> QED BY <2>1, <2>2
<1> QED BY <1>1, <1>2, <1>3, <1>5, Moves, Doubts

\* The other steps of the handlers break nothing.
LEMMA NothingBreaks ==
  ASSUME TransferInvariant, looked' = looked,
         \/ UNCHANGED <<stage, verdict>>
         \/ \E h \in Handler : Enter(h) \/ Wake(h) \/ Reply(h)
         \/ \E k \in Key : Answer(k) \/ Fail(k)
         \/ \E c \in Call : MarkProcessing(c)
  PROVE  Doubtful' = Doubtful
<1>0. stage \in [Handler -> Stages] /\ verdict \in [Handler -> Verdicts]
  BY DEF TransferInvariant, TypeOK
<1>1. CASE UNCHANGED <<stage, verdict>>
  BY <1>1, SameDoubts DEF Broke
<1>2. ASSUME NEW h \in Handler, Enter(h) \/ Wake(h) \/ Reply(h)
      PROVE  Doubtful' = Doubtful
  <2>1. \A c \in Call : verdict'[c] = verdict[c] /\ (stage'[c] = "dead" <=> stage[c] = "dead")
    BY <1>0, <1>2, Handlers DEF Enter, Wake, Reply
  <2> QED BY <2>1, SameDoubts DEF Broke
<1>3. ASSUME NEW k \in Key, Answer(k) \/ Fail(k)
      PROVE  Doubtful' = Doubtful
  <2>1. \A c \in Call : verdict'[c] = verdict[c] /\ stage'[c] = stage[c]
    BY <1>0, <1>3, Handlers DEF Answer, Fail
  <2> QED BY <2>1, SameDoubts DEF Broke
<1>4. ASSUME NEW d \in Call, MarkProcessing(d)
      PROVE  Doubtful' = Doubtful
  <2>1. /\ d \in Handler /\ stage[d] = "idle" /\ verdict[d] # "error"
        /\ stage' = [stage EXCEPT ![d] = "asking"] /\ verdict' = [verdict EXCEPT ![d] = "none"]
    BY <1>4, MarkFacts
  <2>2. \A c \in Call : Broke(c)' <=> Broke(c)
    BY <1>0, <2>1, Handlers DEF Broke
  <2> QED BY <2>2, SameDoubts
<1> QED BY <1>1, <1>2, <1>3, <1>4

LEMMA PromiseStep ==
  ASSUME TransferInvariant, ~Slow, [Next]_vars
  PROVE  [Promise!Next]_(Promise!vars)
<1> DEFINE Keeps == Promise!Next \/ UNCHANGED Promise!vars
<1>0. row \in [Key -> Statuses]
  BY DEF TransferInvariant, TypeOK
<1>1. ASSUME NEW c \in Call, Send(c) \/ MarkProcessing(c) PROVE Keeps
  <2>1. /\ UNCHANGED <<moved, shown, looked>> /\ KeyOf[c] \in Key /\ ~Settled(KeyOf[c])
        /\ \/ row' = [row EXCEPT ![KeyOf[c]] = "REQUESTED"]
           \/ row' = [row EXCEPT ![KeyOf[c]] = "PROCESSING"]
    BY <1>1, SendFacts, MarkFacts DEF Send, MarkProcessing, rest, Settled
  <2>2. \A k \in Key : row'[k] = row[k] \/ (~Settled(k) /\ ~Settled(k)')
    BY <1>0, <2>1 DEF Settled
  <2>3. Doubtful' = Doubtful
    BY <1>1, <2>1, NothingBreaks DEF Send, proxy
  <2> QED BY <2>1, <2>2, <2>3, Stutters
<1>2. ASSUME NEW c \in Call, Save(c) PROVE Keeps
  <2>1. /\ KeyOf[c] \in Key /\ ~Settled(KeyOf[c]) /\ UNCHANGED <<moved, shown>>
        /\ row' = [row EXCEPT ![KeyOf[c]] = IF verdict[c] = "moved" THEN "SUCCEEDED" ELSE "FAILED"]
        /\ looked' = looked /\ KeyOf[c] \notin looked
        /\ \/ verdict[c] = "moved" /\ moved[KeyOf[c]] = 1
           \/ verdict[c] # "moved" /\ (moved[KeyOf[c]] = 0 \/ Broke(c))
    BY <1>2, SaveFacts DEF Settled, Broke, rest
  <2>2. Broke(c) => KeyOf[c] \in Doubtful
    BY <2>1 DEF Doubtful
  <2>3. Doubtful' = Doubtful
    <3>1. \E h \in Handler : Reply(h)
      BY <1>2, Handlers DEF Save
    <3> QED BY <2>1, <3>1, NothingBreaks
  <2>4. Promise!Complete(KeyOf[c]) \/ Promise!Fail(KeyOf[c])
    <3>1. PICK v : v = verdict[c]
      OBVIOUS
    <3>2. /\ \/ v = "moved" /\ moved[KeyOf[c]] = 1
             \/ v # "moved" /\ (moved[KeyOf[c]] = 0 \/ KeyOf[c] \in Doubtful)
          /\ row' = [row EXCEPT ![KeyOf[c]] = IF v = "moved" THEN "SUCCEEDED" ELSE "FAILED"]
          /\ UNCHANGED <<moved, shown, Doubtful>>
      BY <2>1, <2>2, <2>3, <3>1
    <3> QED BY <1>0, <2>1, <3>2, Records
  <2> QED BY <2>1, <2>4 DEF Promise!Next
<1>3. ASSUME NEW c \in Call, GiveUp(c) PROVE Keeps
  <2>1. /\ UNCHANGED <<moved, shown, looked, stage, verdict>> /\ KeyOf[c] \in Key
        /\ row[KeyOf[c]] = "PROCESSING" /\ KeyOf[c] \notin looked
    BY <1>3, Handlers DEF GiveUp, TooLate, proxy, rest, looked, TransferInvariant, CallInvariant
  <2>2. Doubtful' = Doubtful
    BY <2>1, NothingBreaks
  <2>3. CASE row' = [row EXCEPT ![KeyOf[c]] = "UNKNOWN"]
    <3>1. \A k \in Key : row'[k] = row[k] \/ (~Settled(k) /\ ~Settled(k)')
      BY <1>0, <2>1, <2>3 DEF Settled
    <3> QED BY <2>1, <2>2, <3>1, Stutters
  <2>4. CASE stage[c] = "dead" /\ row' = [row EXCEPT ![KeyOf[c]] = "FAILED"]
    <3>1. KeyOf[c] \in Doubtful /\ ~Settled(KeyOf[c])
      BY <2>1, <2>4 DEF Doubtful, Broke, Settled
    <3>2. Promise!Complete(KeyOf[c]) \/ Promise!Fail(KeyOf[c])
      BY <1>0, <2>1, <2>2, <2>4, <3>1, Records
    <3> QED BY <2>1, <3>2 DEF Promise!Next
  <2> QED BY <1>3, <2>3, <2>4 DEF GiveUp, Settle
<1>4. ASSUME NEW h \in Handler, Proxy(h) PROVE Keeps
  <2>1. UNCHANGED <<bank, rest>>
    BY <1>4 DEF Proxy
  <2>2. CASE h \in Call /\ (Answer(h) \/ Fail(h))
    <3>1. Promise!Move(KeyOf[h]) \/ Promise!Doubt(KeyOf[h]) \/ UNCHANGED Promise!vars
      BY <2>1, <2>2, PromiseAnswer
    <3> QED BY <2>2, <3>1, Handlers DEF Promise!Next
  <2>3. CASE (h \notin Call /\ (Answer(h) \/ Fail(h))) \/ Enter(h)
    <3>1. UNCHANGED <<moved, shown, row, looked>>
      BY <2>1, <2>3 DEF Answer, Fail, Lost, Executes, Enter, bank, rest, looked
    <3>2. Doubtful' = Doubtful
      BY <2>3, <3>1, NothingBreaks DEF Handler
    <3> QED BY <3>1, <3>2, Stutters
  <2> QED BY <1>4, <2>2, <2>3 DEF Proxy
<1>5. ASSUME NEW k \in Key, Resolve(k) PROVE Keeps
  <2>1. /\ ~Settled(k) /\ UNCHANGED <<moved, shown, looked>>
        /\ row' = [row EXCEPT ![k] = IF verdict[k] = "moved" THEN "SUCCEEDED" ELSE "FAILED"]
        /\ \/ verdict[k] = "moved" /\ moved[k] = 1
           \/ verdict[k] # "moved" /\ moved[k] = 0
    BY <1>5, ResolveFacts DEF Settled, rest
  <2>2. Doubtful' = Doubtful
    BY <1>5, <2>1, NothingBreaks, Handlers DEF Resolve
  <2>3. Promise!Complete(k) \/ Promise!Fail(k)
    BY <1>0, <2>1, <2>2, Records
  <2> QED BY <2>3 DEF Promise!Next
<1>6. ASSUME NEW k \in Key, Consume(k) PROVE Keeps
  <2>1. /\ row[k] = "SUCCEEDED" /\ shown' = shown \cup {k}
        /\ UNCHANGED <<moved, row, looked, stage, verdict>>
    BY <1>6 DEF Consume, proxy, bank, looked
  <2>2. Outcome[k] = "COMPLETED" /\ UNCHANGED <<Money, Outcome>>
    BY <2>1, OutcomeIs DEF Money, Outcome
  <2>3. Doubtful' = Doubtful
    BY <2>1, NothingBreaks
  <2>4. Promise!Show(k)
    BY <2>1, <2>2, <2>3 DEF Promise!Show
  <2> QED BY <2>4 DEF Promise!Next
<1>7. ASSUME NEW k \in Key, Lookup(k) PROVE Keeps
  <2>1. /\ UNCHANGED <<moved, row, shown>> /\ looked' = looked \cup {k} /\ ~Settled(k)
        /\ \A c \in Call : stage'[c] = stage[c] /\ verdict'[c] = verdict[c]
    <3>1. stage \in [Handler -> Stages] /\ verdict \in [Handler -> Verdicts] /\ TypeOK
      BY DEF TransferInvariant, TypeOK
    <3>2. looked' = looked \cup {k}
      BY <1>7, <3>1, LookedUp
    <3> QED BY <1>7, <3>1, <3>2, Handlers DEF Lookup, Take, Stale, Settled, rest
  <2>2. \A c \in Call : Broke(c)' <=> Broke(c)
    BY <2>1 DEF Broke
  <2>3. Doubtful' = Doubtful \ {k}
    BY <2>1, <2>2 DEF Doubtful
  <2>4. Outcome[k] = "open" /\ UNCHANGED <<Money, Outcome, shown>>
    BY <2>1, OutcomeIs DEF Money, Outcome
  <2>5. Promise!Check(k)
    BY <2>3, <2>4 DEF Promise!Check
  <2> QED BY <2>5 DEF Promise!Next
<1>8. ASSUME \/ \E c \in Call : WakeLate(c)
             \/ \E h \in Handler : ReplyInVain(h)
             \/ QuietStep /\ ~\E k \in Key : Consume(k)
             \/ UNCHANGED vars
      PROVE  Keeps
  <2>1. UNCHANGED <<moved, row, shown, looked>>
    BY <1>8 DEF QuietStep, SendAgain, SendInVain, WakeLate, Wake, ReplyInVain, Reply, LookupFails,
         Publish, Exhaust, MarkPublished, Drives, Arm, Control, Kill, Restart, StopKafka,
         StartKafka, proxy, bank, rest, vars, looked
  <2>2. \/ UNCHANGED <<stage, verdict>>
        \/ \E h \in Handler : Wake(h) \/ Reply(h)
    BY <1>8, Handlers DEF QuietStep, SendAgain, SendInVain, WakeLate, ReplyInVain, LookupFails,
         Publish, Exhaust, MarkPublished, Drives, Arm, Control, Kill, Restart, StopKafka,
         StartKafka, proxy, vars
  <2>3. Doubtful' = Doubtful
    BY <2>1, <2>2, NothingBreaks
  <2> QED BY <2>1, <2>3, Stutters
<1>9. Keeps
  <2>1. CASE QuietStep
    BY <1>6, <1>8, <2>1
  <2> HIDE DEF Keeps
  <2> QED BY <1>1, <1>2, <1>3, <1>4, <1>5, <1>7, <1>8, <2>1 DEF Next, Calls, Serves, QuietStep
<1> QED BY <1>9

\* If the mock bank answers within Banking's patience or not at all, the
\* system keeps the promise: COMPLETED is always true, FAILED is true unless
\* the request itself broke or was answered by an error and nobody has looked
\* it up since, and what a lookup decides is what has happened to the money.
THEOREM KeepsThePromise ==
  ASSUME ~Slow
  PROVE  Spec => ImplementsOneTransfer
<1>1. TransferInvariant /\ [Next]_vars => [Promise!Next]_(Promise!vars)
  BY PromiseStep
<1> QED BY <1>1, PromiseInit, TransferInvariantHolds, PTL DEF Spec, ImplementsOneTransfer, Promise!Spec
=============================================================================
