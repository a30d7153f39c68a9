---------------------------- MODULE DrillProofs ----------------------------
(***************************************************************************)
(* Proofs of what the timeout and the crash stage are worth, if the mock   *)
(* bank is never slow: for any bounds and any other keys.                  *)
(***************************************************************************)
EXTENDS TransferDrill, TransferProofs

LEMMA Names ==
  /\ lost \in Call /\ sending \in Call /\ retry \in Call /\ after \in Call
  /\ \A c \in Call : c \in {lost, sending, retry, after}
  /\ lost # sending /\ lost # retry /\ lost # after
  /\ sending # retry /\ sending # after /\ retry # after
  /\ Delayed \in Key /\ Crashed \in Key /\ Delayed # Crashed
  /\ KeyOf[lost] = Delayed /\ KeyOf[sending] = Crashed
  /\ KeyOf[retry] = Crashed /\ KeyOf[after] = Crashed
  /\ BodyOf[retry] = BodyOf[sending] /\ BodyOf[after] = BodyOf[sending]
BY DrillAssumption, ProxyAssumption DEF Delayed, Crashed

LEMMA Places ==
  /\ Place["arm"] = 1 /\ Place["lost"] = 2 /\ Place["told"] = 3 /\ Place["recovered"] = 4
  /\ Place["published"] = 5 /\ Place["arm_kill"] = 6 /\ Place["sending"] = 7
  /\ Place["forwarded"] = 8 /\ Place["retry"] = 9 /\ Place["compare"] = 10 /\ Place["row"] = 11
  /\ Place["ready"] = 12 /\ Place["killed"] = 13 /\ Place["recovered_after"] = 14
  /\ Place["count"] = 15 /\ Place["after"] = 16 /\ Place["no_more"] = 17
  /\ Place["shown"] = 18 /\ Place["done"] = 19
BY DEF Place

LEMMA Starts ==
  ASSUME NEW c \in Call
  PROVE  /\ c = lost => (Started(c) <=> step > 2)
         /\ c = sending => (Started(c) <=> step > 7)
         /\ c = retry => (Started(c) <=> step > 9)
         /\ c = after => (Started(c) <=> step > 16)
BY Names, Places DEF Started, Past

LEMMA StartsThen ==
  ASSUME NEW c \in Call
  PROVE  /\ c = lost => (Started(c)' <=> step' > 2)
         /\ c = sending => (Started(c)' <=> step' > 7)
         /\ c = retry => (Started(c)' <=> step' > 9)
         /\ c = after => (Started(c)' <=> step' > 16)
BY Names, Places DEF Started, Past

-----------------------------------------------------------------------------
(***************************************************************************)
(* What a step of the system does, call by call.                           *)
(***************************************************************************)
\* A step of call c leaves the other calls and the other keys alone.
Others(c) ==
  /\ \A d \in Call \ {c} : /\ stage'[d] = stage[d] /\ verdict'[d] = verdict[d]
                           /\ delay'[d] = delay[d] /\ answer'[d] = answer[d]
  /\ \A k \in Key \ {KeyOf[c]} : moved'[k] = moved[k] /\ row'[k] = row[k] /\ body'[k] = body[k]
  /\ UNCHANGED <<alive, arms, kills, looked, asks>>

LEMMA Functions ==
  ASSUME TypeOK
  PROVE  /\ stage \in [Handler -> Stages] /\ verdict \in [Handler -> Verdicts]
         /\ delay \in [Handler -> BOOLEAN] /\ moved \in [Key -> Nat]
         /\ answer \in [Call -> Answers] /\ row \in [Key -> Statuses]
         /\ body \in [Key -> {BodyOf[c] : c \in Call} \cup {NoBody}]
         /\ mode \in [delay_once : BOOLEAN, forwarded : BOOLEAN, transfer_posts : Nat,
                      ready_to_kill : BOOLEAN]
BY DEF TypeOK

LEMMA SendDoes ==
  ASSUME TransferInvariant, NEW c \in Call, Send(c)
  PROVE  /\ Others(c) /\ UNCHANGED <<mode, stage, verdict, delay, moved>>
         /\ answer[c] = "none" /\ stage[c] = "idle" /\ row[KeyOf[c]] = "none" /\ alive
         /\ answer'[c] = "waiting"
         /\ row'[KeyOf[c]] = "REQUESTED" /\ body'[KeyOf[c]] = BodyOf[c]
<1>1. TypeOK /\ KeyOf[c] \in Key
  BY Handlers DEF TransferInvariant
<1>2. /\ answer[c] = "none" /\ stage[c] = "idle" /\ row[KeyOf[c]] = "none" /\ alive
      /\ UNCHANGED <<mode, stage, verdict, delay, moved, looked, asks, alive, arms, kills>>
      /\ answer' = [answer EXCEPT ![c] = "waiting"]
      /\ row' = [row EXCEPT ![KeyOf[c]] = "REQUESTED"]
      /\ body' = [body EXCEPT ![KeyOf[c]] = BodyOf[c]]
  BY SendFacts DEF Send, rest
<1> QED BY <1>1, <1>2, Functions DEF Others

LEMMA MarkDoes ==
  ASSUME TransferInvariant, NEW c \in Call, MarkProcessing(c)
  PROVE  /\ Others(c) /\ UNCHANGED <<mode, moved, answer, body>>
         /\ answer[c] = "waiting" /\ stage[c] = "idle" /\ row[KeyOf[c]] = "REQUESTED"
         /\ stage'[c] = "asking" /\ verdict'[c] = "none" /\ ~delay'[c]
         /\ row'[KeyOf[c]] = "PROCESSING"
<1>1. TypeOK /\ KeyOf[c] \in Key /\ Call \subseteq Handler
  BY Handlers DEF TransferInvariant
<1>2. /\ answer[c] = "waiting" /\ stage[c] = "idle" /\ row[KeyOf[c]] = "REQUESTED"
      /\ UNCHANGED <<mode, moved, answer, body, looked, asks, alive, arms, kills>>
      /\ row' = [row EXCEPT ![KeyOf[c]] = "PROCESSING"]
      /\ stage' = [stage EXCEPT ![c] = "asking"]
      /\ verdict' = [verdict EXCEPT ![c] = "none"]
      /\ delay' = [delay EXCEPT ![c] = FALSE]
  BY MarkFacts DEF MarkProcessing, rest
<1> QED BY <1>1, <1>2, Functions DEF Others

LEMMA SendAgainDoes ==
  ASSUME TransferInvariant, NEW c \in Call, SendAgain(c)
  PROVE  /\ Others(c) /\ UNCHANGED <<mode, stage, verdict, delay, moved, row, body>>
         /\ answer[c] = "none" /\ stage[c] = "idle" /\ row[KeyOf[c]] # "none" /\ alive
         /\ answer'[c] \in {"COMPLETED", "FAILED", "PROCESSING", "CONFLICT"}
         /\ answer'[c] = "CONFLICT" => body[KeyOf[c]] # BodyOf[c]
         /\ row[KeyOf[c]] = "PROCESSING" => answer'[c] \in {"PROCESSING", "CONFLICT"}
<1>1. TypeOK /\ CallInvariant(c) /\ KeyOf[c] \in Key
  BY Handlers DEF TransferInvariant
<1>2. /\ ApiStatus(row[KeyOf[c]]) \in {"COMPLETED", "FAILED", "PROCESSING"}
      /\ row[KeyOf[c]] = "PROCESSING" => ApiStatus(row[KeyOf[c]]) = "PROCESSING"
  BY DEF ApiStatus
<1>3. answer'[c] = IF body[KeyOf[c]] = BodyOf[c] THEN ApiStatus(row[KeyOf[c]]) ELSE "CONFLICT"
  BY <1>1, Functions DEF SendAgain, Answered
<1>4. Others(c) /\ UNCHANGED <<mode, stage, verdict, delay, moved, row, body>>
  BY <1>1, Functions DEF SendAgain, Answered, Others, looked, proxy, bank, rest
<1> QED BY <1>1, <1>2, <1>3, <1>4 DEF SendAgain, CallInvariant

LEMMA SendInVainDoes ==
  ASSUME TransferInvariant, NEW c \in Call, SendInVain(c)
  PROVE  /\ Others(c) /\ UNCHANGED <<mode, stage, verdict, delay, moved, row, body>>
         /\ answer[c] = "none" /\ stage[c] = "idle" /\ ~alive /\ answer'[c] = "ERROR"
<1>1. TypeOK /\ CallInvariant(c)
  BY DEF TransferInvariant
<1> QED BY <1>1, Functions DEF SendInVain, Answered, Others, looked, proxy, bank, rest, CallInvariant

LEMMA AnswerDoes ==
  ASSUME TransferInvariant, NEW c \in Call, Answer(c), UNCHANGED <<answer, alive, bank, rest>>
  PROVE  /\ Others(c) /\ UNCHANGED <<mode, delay, answer, row, body>>
         /\ stage[c] = "asking" /\ stage'[c] = "answered" /\ moved[KeyOf[c]] = 0
         /\ \/ verdict'[c] = "moved" /\ moved'[KeyOf[c]] = 1
            \/ verdict'[c] = "refused" /\ moved'[KeyOf[c]] = 0
            \/ verdict'[c] = "error" /\ moved'[KeyOf[c]] \in 0..1
<1>1. TypeOK /\ CallInvariant(c) /\ KeyOf[c] \in Key /\ Call \subseteq Handler
  BY Handlers DEF TransferInvariant
<1>2. stage[c] = "asking" /\ moved[KeyOf[c]] = 0
  BY <1>1 DEF Answer, CallInvariant
<1>3. PICK v \in Verdicts : Executes(c, v) /\ verdict' = [verdict EXCEPT ![c] = v]
  BY DEF Answer
<1>4. \/ v = "moved" /\ moved' = [moved EXCEPT ![KeyOf[c]] = 1]
      \/ v = "refused" /\ moved' = moved
      \/ v = "error" /\ (moved' = [moved EXCEPT ![KeyOf[c]] = 1] \/ moved' = moved)
  BY <1>2, <1>3 DEF Executes
<1>5. /\ \A k \in Key \ {KeyOf[c]} : moved'[k] = moved[k]
      /\ \/ v = "moved" /\ moved'[KeyOf[c]] = 1
         \/ v = "refused" /\ moved'[KeyOf[c]] = 0
         \/ v = "error" /\ moved'[KeyOf[c]] \in 0..1
  BY <1>1, <1>2, <1>4, Functions
<1>6. /\ \A d \in Call \ {c} : stage'[d] = stage[d] /\ verdict'[d] = verdict[d]
      /\ stage'[c] = "answered" /\ verdict'[c] = v
  BY <1>1, <1>3, Functions DEF Answer
<1> QED BY <1>2, <1>5, <1>6 DEF Answer, Others, looked, bank, rest

LEMMA FailDoes ==
  ASSUME TransferInvariant, NEW c \in Call, Fail(c), UNCHANGED <<answer, alive, bank, rest>>
  PROVE  /\ Others(c) /\ UNCHANGED <<mode, verdict, delay, answer, row, body>>
         /\ stage[c] = "asking" /\ stage'[c] = "dead" /\ moved[KeyOf[c]] = 0
<1>1. TypeOK /\ CallInvariant(c) /\ KeyOf[c] \in Key /\ Call \subseteq Handler
  BY Handlers DEF TransferInvariant
<1>2. stage[c] = "asking" /\ moved[KeyOf[c]] = 0
  BY <1>1 DEF Fail, CallInvariant
<1>3. moved' = [moved EXCEPT ![KeyOf[c]] = 1] \/ moved' = moved
  BY <1>2 DEF Fail, Lost, Executes
<1>4. \A k \in Key \ {KeyOf[c]} : moved'[k] = moved[k]
  BY <1>1, <1>3, Functions
<1>5. (\A d \in Call \ {c} : stage'[d] = stage[d]) /\ stage'[c] = "dead"
  BY <1>1, Functions DEF Fail
<1> QED BY <1>2, <1>4, <1>5 DEF Fail, Others, looked, bank, rest

LEMMA EnterDoes ==
  ASSUME TransferInvariant, NEW c \in Call, Enter(c), UNCHANGED <<answer, alive, bank, rest>>
  PROVE  /\ Others(c) /\ UNCHANGED <<verdict, moved, answer, row, body>>
         /\ stage[c] = "answered"
         /\ \/ mode.delay_once /\ delay'[c] /\ stage'[c] = "held"
            \/ ~mode.delay_once /\ ~delay'[c] /\ stage'[c] = "replying"
         /\ mode'.forwarded /\ mode'.ready_to_kill = mode.ready_to_kill
<1>1. TypeOK /\ Call \subseteq Handler /\ mode.delay_once \in BOOLEAN
  BY Handlers DEF TransferInvariant, TypeOK
<1>2. /\ stage[c] = "answered" /\ delay' = [delay EXCEPT ![c] = mode.delay_once]
      /\ stage' = [stage EXCEPT ![c] = IF delay'[c] THEN "held" ELSE "replying"]
      /\ mode' = Counted(mode)
  BY DEF Enter, IsTransfer
<1>3. /\ \A d \in Call \ {c} : stage'[d] = stage[d] /\ delay'[d] = delay[d]
      /\ delay'[c] = mode.delay_once
      /\ stage'[c] = IF delay'[c] THEN "held" ELSE "replying"
  BY <1>1, <1>2, Functions
<1>4. mode'.forwarded /\ mode'.ready_to_kill = mode.ready_to_kill
  BY <1>1, <1>2, Functions DEF Counted
<1>5. UNCHANGED <<verdict, moved, answer, row, body, alive, arms, kills, looked, asks>>
  BY DEF Enter, looked, bank, rest
<1>6. Others(c)
  BY <1>3, <1>5 DEF Others
<1>7. \/ mode.delay_once /\ delay'[c] /\ stage'[c] = "held"
      \/ ~mode.delay_once /\ ~delay'[c] /\ stage'[c] = "replying"
  BY <1>1, <1>3
<1> QED BY <1>2, <1>4, <1>5, <1>6, <1>7

LEMMA WakeDoes ==
  ASSUME TransferInvariant, NEW c \in Call, WakeLate(c) \/ ReplyInVain(c)
  PROVE  /\ Others(c) /\ UNCHANGED <<mode, verdict, delay, moved, answer, row, body>>
         /\ answer[c] # "waiting"
         /\ \/ stage[c] = "held" /\ stage'[c] = "replying"
            \/ stage[c] = "replying" /\ stage'[c] = "done"
<1>1. TypeOK /\ Call \subseteq Handler
  BY Handlers DEF TransferInvariant
<1>2. CASE WakeLate(c)
  BY <1>1, <1>2, Functions
     DEF WakeLate, Wake, HeldBack, ReadTimeout, Others, looked, bank, rest
<1>3. CASE ReplyInVain(c)
  BY <1>1, <1>3, Functions DEF ReplyInVain, Reply, Others, looked, bank, rest
<1> QED BY <1>2, <1>3

LEMMA SaveDoes ==
  ASSUME TransferInvariant, NEW c \in Call, Save(c)
  PROVE  /\ Others(c) /\ UNCHANGED <<mode, verdict, delay, moved, body>>
         /\ stage[c] = "replying" /\ stage'[c] = "done" /\ ~delay[c] /\ answer[c] = "waiting"
         /\ \/ verdict[c] = "moved" /\ answer'[c] = "COMPLETED" /\ row'[KeyOf[c]] = "SUCCEEDED"
            \/ verdict[c] \in {"refused", "error"} /\ answer'[c] = "FAILED" /\ row'[KeyOf[c]] = "FAILED"
<1>1. TypeOK /\ Call \subseteq Handler /\ KeyOf[c] \in Key
  BY Handlers DEF TransferInvariant
<1>2. /\ stage[c] = "replying" /\ ~delay[c] /\ answer[c] = "waiting"
      /\ verdict[c] \in {"moved", "refused", "error"}
      /\ UNCHANGED <<mode, verdict, delay, moved, alive, body, looked, asks, acked, rest>>
      /\ stage' = [stage EXCEPT ![c] = "done"]
      /\ row' = [row EXCEPT ![KeyOf[c]] = IF verdict[c] = "moved" THEN "SUCCEEDED" ELSE "FAILED"]
      /\ answer' = [answer EXCEPT ![c] = IF verdict[c] = "moved" THEN "COMPLETED" ELSE "FAILED"]
  BY SaveFacts
<1>3. UNCHANGED <<arms, kills>>
  BY <1>2 DEF rest
<1>4. Others(c) /\ stage'[c] = "done"
  BY <1>1, <1>2, <1>3, Functions DEF Others
<1>5. /\ row'[KeyOf[c]] = IF verdict[c] = "moved" THEN "SUCCEEDED" ELSE "FAILED"
      /\ answer'[c] = IF verdict[c] = "moved" THEN "COMPLETED" ELSE "FAILED"
  BY <1>1, <1>2, Functions
<1> QED BY <1>2, <1>4, <1>5

LEMMA GiveUpDoes ==
  ASSUME TransferInvariant, ~Slow, NEW c \in Call, GiveUp(c)
  PROVE  /\ Others(c) /\ UNCHANGED <<mode, stage, verdict, delay, moved, body>>
         /\ stage[c] \in {"dead", "held"} /\ answer[c] = "waiting"
         /\ \/ answer'[c] = "PROCESSING" /\ row'[KeyOf[c]] = "UNKNOWN"
            \/ stage[c] = "dead" /\ answer'[c] = "FAILED" /\ row'[KeyOf[c]] = "FAILED"
<1>1. TypeOK /\ KeyOf[c] \in Key
  BY Handlers DEF TransferInvariant
<1>2. /\ UNCHANGED <<mode, stage, verdict, delay, moved, body, alive, looked, asks, arms, kills>>
      /\ stage[c] \in {"dead", "held"} /\ answer[c] = "waiting"
      /\ \/ /\ row' = [row EXCEPT ![KeyOf[c]] = "UNKNOWN"]
            /\ answer' = [answer EXCEPT ![c] = "PROCESSING"]
         \/ /\ stage[c] = "dead"
            /\ row' = [row EXCEPT ![KeyOf[c]] = "FAILED"]
            /\ answer' = [answer EXCEPT ![c] = "FAILED"]
  BY DEF GiveUp, TooLate, Settle, Answered, looked, proxy, rest
<1> QED BY <1>1, <1>2, Functions DEF Others

\* A step that none of the calls notices.
Unnoticed ==
  /\ \A d \in Call : /\ stage'[d] = stage[d] /\ verdict'[d] = verdict[d] /\ delay'[d] = delay[d]
  /\ UNCHANGED <<mode, moved, answer, alive, body, arms, kills>>

LEMMA LookupDoes ==
  ASSUME TransferInvariant, NEW k \in Key, Lookup(k)
  PROVE  /\ Unnoticed /\ UNCHANGED row
         /\ looked' = looked \cup {k} /\ asks' = asks \cup {k}
         /\ \/ row[k] = "UNKNOWN"
            \/ /\ row[k] = "PROCESSING"
               /\ \A c \in Call : KeyOf[c] = k =>
                    answer[c] # "waiting" /\ stage[c] \notin {"asking", "answered"}
<1>1. TypeOK /\ \A d \in Call : d \in Handler /\ d # k
  BY Handlers DEF TransferInvariant
<1> QED BY <1>1, Functions, LookedUp DEF Lookup, Stale, Take, rest, Unnoticed

LEMMA ResolveDoes ==
  ASSUME TransferInvariant, ~Slow, NEW k \in Key, Resolve(k)
  PROVE  /\ Unnoticed /\ UNCHANGED looked
         /\ asks' \subseteq asks /\ k \in asks
         /\ \A j \in Key \ {k} : row'[j] = row[j]
         /\ row[k] \in {"UNKNOWN", "PROCESSING"}
         /\ \/ row'[k] = "SUCCEEDED" /\ moved[k] = 1
            \/ row'[k] = "FAILED" /\ moved[k] = 0
<1>1. TypeOK /\ \A d \in Call : d \in Handler /\ d # k
  BY Handlers DEF TransferInvariant
<1>2. /\ k \in asks /\ row[k] \in {"UNKNOWN", "PROCESSING"}
      /\ \/ verdict[k] = "moved" /\ moved[k] = 1
         \/ verdict[k] = "absent" /\ moved[k] = 0
      /\ UNCHANGED <<mode, verdict, delay, moved, answer, alive, body, looked, acked, rest>>
      /\ stage' = [stage EXCEPT ![k] = "done"]
      /\ row' = [row EXCEPT ![k] = IF verdict[k] = "moved" THEN "SUCCEEDED" ELSE "FAILED"]
      /\ asks' = asks \ {k}
  BY ResolveFacts
<1>3. UNCHANGED <<arms, kills>>
  BY <1>2 DEF rest
<1>4. Unnoticed
  BY <1>1, <1>2, <1>3, Functions DEF Unnoticed
<1>5. /\ \A j \in Key \ {k} : row'[j] = row[j]
      /\ row'[k] = IF verdict[k] = "moved" THEN "SUCCEEDED" ELSE "FAILED"
  BY <1>1, <1>2, Functions
<1> QED BY <1>2, <1>4, <1>5

LEMMA RestDoes ==
  ASSUME TransferInvariant,
         \/ \E k \in Key : \/ Proxy(k) \/ ReplyInVain(k) \/ LookupFails(k)
                           \/ Publish(k) \/ Exhaust(k) \/ MarkPublished(k) \/ Consume(k)
  PROVE  Unnoticed /\ UNCHANGED <<row, looked>> /\ asks' \subseteq asks
<1>1. TypeOK
  BY DEF TransferInvariant
<1>2. ASSUME NEW k \in Key, Proxy(k) \/ ReplyInVain(k)
      PROVE  Unnoticed /\ UNCHANGED <<row, looked, asks>>
  <2>1. k \in Handler /\ k \notin Call /\ \A d \in Call : d \in Handler /\ d # k
    BY Handlers
  <2>2. UNCHANGED <<answer, alive, bank, rest>>
    BY <1>2 DEF Proxy, ReplyInVain
  <2>3. UNCHANGED <<mode, moved, delay>>
    BY <1>2, <2>1 DEF Proxy, ReplyInVain, Answer, Fail, Lost, Executes, Enter, IsTransfer, Reply
  <2>4. \A d \in Call : stage'[d] = stage[d] /\ verdict'[d] = verdict[d]
    BY <1>1, <1>2, <2>1, Functions DEF Proxy, ReplyInVain, Answer, Fail, Enter, Reply
  <2> QED BY <2>2, <2>3, <2>4 DEF Unnoticed, looked, bank, rest
<1>3. ASSUME NEW k \in Key, \/ LookupFails(k) \/ Publish(k) \/ Exhaust(k)
                            \/ MarkPublished(k) \/ Consume(k)
      PROVE  Unnoticed /\ UNCHANGED <<row, looked>> /\ asks' \subseteq asks
  BY <1>3 DEF LookupFails, Publish, Exhaust, MarkPublished, Consume, Unnoticed, looked, proxy, bank, rest
<1> QED BY <1>2, <1>3

-----------------------------------------------------------------------------
(***************************************************************************)
(* The invariants of the drill: steps of the system.                       *)
(***************************************************************************)
Calmly == fine /\ CalmCalls /\ CalmAnswers /\ CalmRows

Kept == Course' /\ Passing' /\ (calm' => Calmly')

\* What a call is worth to the invariant, by its name.
LEMMA WhoseCall ==
  ASSUME NEW c \in Call
  PROVE  \/ c = lost /\ KeyOf[c] = Delayed
         \/ c = sending /\ KeyOf[c] = Crashed
         \/ c = retry /\ KeyOf[c] = Crashed
         \/ c = after /\ KeyOf[c] = Crashed
BY Names

\* In a calm course the killed call has made the row of its key before its
\* repetitions are sent.
LEMMA CalmSender ==
  ASSUME DrillInvariant, calm
  PROVE  /\ answer[sending] = "none" => row[Crashed] = "none"
         /\ stage[sending] # "idle" => row[Crashed] # "none"
         /\ Past("forwarded") => row[Crashed] # "none" /\ body[Crashed] = BodyOf[sending]
         /\ Past("forwarded") /\ ~Past("ready") =>
              answer[sending] = "waiting" /\ row[Crashed] = "PROCESSING"
<1>1. TransferInvariant /\ Course /\ CalmCalls /\ CalmAnswers /\ CalmRows
  BY DEF DrillInvariant
<1>2. CallInvariant(sending)
  BY <1>1, Names DEF TransferInvariant
<1>3. answer[sending] = "none" => row[Crashed] = "none"
  BY <1>1, <1>2, Names DEF CalmRows, CallInvariant, Sends
<1>4. stage[sending] # "idle" => row[Crashed] # "none"
  BY <1>2, Names DEF CallInvariant, Unsent
<1>5. Past("forwarded") => Through(sending) /\ body[Crashed] = BodyOf[sending]
  BY <1>1 DEF CalmCalls, Through
<1>6. ~Past("ready") => answer[sending] # "ERROR"
  BY <1>1, Names DEF Course
<1>7. /\ Past("forwarded") /\ ~Past("ready") => answer[sending] = "waiting"
      /\ Past("forwarded") /\ answer[sending] = "waiting" => row[Crashed] = "PROCESSING"
  BY <1>1, <1>2, <1>5, <1>6, Names DEF CallInvariant, CalmAnswers, Through
<1> QED BY <1>3, <1>4, <1>5, <1>7 DEF Through

LEMMA SendKept ==
  ASSUME DrillInvariant, NEW c \in Call, Started(c), Send(c), UNCHANGED test
  PROVE  Kept
<1>1. /\ TransferInvariant /\ Course /\ Passing /\ (calm => Calmly)
      /\ UNCHANGED <<step, fine, first, before, calm, hit>>
  BY DEF DrillInvariant, test, Calmly
<1>2. /\ Others(c) /\ UNCHANGED <<mode, stage, verdict, delay, moved>>
      /\ answer[c] = "none" /\ stage[c] = "idle" /\ row[KeyOf[c]] = "none" /\ alive
      /\ answer'[c] = "waiting"
      /\ row'[KeyOf[c]] = "REQUESTED" /\ body'[KeyOf[c]] = BodyOf[c]
  BY <1>1, SendDoes
<1>3. Course'
  BY <1>1, <1>2, Names, Places, Starts, StartsThen DEF Course, Others, Past, Through
<1>4. Passing'
  BY <1>1, <1>2, Names, Places DEF Passing, Others, Past, Through
<1>5. ASSUME calm' PROVE fine' /\ CalmCalls' /\ CalmAnswers' /\ CalmRows'
  <2>0. fine /\ CalmCalls /\ CalmAnswers /\ CalmRows
    BY <1>1, <1>5 DEF Calmly
  <2>1. c = lost \/ c = sending
    <3>1. stage[sending] # "idle" => row[Crashed] # "none"
      BY <1>1, Names DEF TransferInvariant, CallInvariant, Unsent
    <3>2. step > 8 => Through(sending)
      BY <2>0, Places DEF CalmCalls, Past
    <3>3. step > 8 => row[Crashed] # "none"
      BY <3>1, <3>2 DEF Through
    <3>4. c = retry \/ c = after => step > 8 /\ KeyOf[c] = Crashed
      BY <1>1, Names, Starts, Places DEF Course
    <3> QED BY <1>2, <3>3, <3>4, Names
  <2>2. CalmCalls'
    BY <1>1, <1>2, <2>0, <2>1, Names, Places DEF CalmCalls, Others, Past, Through
  <2>3. CalmAnswers'
    BY <1>1, <1>2, <2>0, <2>1, Names, Places DEF CalmAnswers, Others, Past, Through
  <2>4. CalmRows'
    BY <1>1, <1>2, <2>0, <2>1, Names, Places DEF CalmRows, Others, Past, Sends
  <2> QED BY <1>1, <2>0, <2>2, <2>3, <2>4
<1> QED BY <1>3, <1>4, <1>5 DEF Kept, Calmly

LEMMA MarkKept ==
  ASSUME DrillInvariant, NEW c \in Call, MarkProcessing(c), Smooth, UNCHANGED test
  PROVE  Kept
<1>1. /\ TransferInvariant /\ Course /\ Passing /\ (calm => Calmly)
      /\ UNCHANGED <<step, fine, first, before, calm, hit>>
  BY DEF DrillInvariant, test, Calmly
<1>2. /\ Others(c) /\ UNCHANGED <<mode, moved, answer, body>>
      /\ answer[c] = "waiting" /\ stage[c] = "idle" /\ row[KeyOf[c]] = "REQUESTED"
      /\ stage'[c] = "asking" /\ verdict'[c] = "none" /\ ~delay'[c]
      /\ row'[KeyOf[c]] = "PROCESSING"
  BY <1>1, MarkDoes
<1>3. Course'
  BY <1>1, <1>2, Names, Places, Starts, StartsThen DEF Course, Others, Past, Through
<1>4. Passing'
  BY <1>1, <1>2, Names, Places DEF Passing, Others, Past, Through
<1>5. ASSUME calm' PROVE fine' /\ CalmCalls' /\ CalmAnswers' /\ CalmRows'
  <2>0. fine /\ CalmCalls /\ CalmAnswers /\ CalmRows
    BY <1>1, <1>5 DEF Calmly
  <2>1. (c = lost \/ c = sending) /\ (c = sending => body[Crashed] = BodyOf[sending])
    <3>1. c # retry /\ c # after
      BY <1>2, <2>0 DEF CalmAnswers
    <3>2. body[KeyOf[c]] = BodyOf[c]
      BY <1>1, <1>2 DEF TransferInvariant, CallInvariant
    <3> QED BY <3>1, <3>2, Names
  <2>2. CalmCalls'
    BY <1>1, <1>2, <2>0, <2>1, Names, Places DEF CalmCalls, Others, Past, Through
  <2>3. CalmAnswers'
    BY <1>1, <1>2, <2>0, <2>1, Names, Places DEF CalmAnswers, Others, Past, Through
  <2>4. CalmRows'
    BY <1>1, <1>2, <2>0, <2>1, Names, Places DEF CalmRows, Others, Past, Sends
  <2> QED BY <1>1, <2>0, <2>2, <2>3, <2>4
<1> QED BY <1>3, <1>4, <1>5 DEF Kept, Calmly

LEMMA SendAgainKept ==
  ASSUME DrillInvariant, NEW c \in Call, Started(c), SendAgain(c), UNCHANGED test
  PROVE  Kept
<1>1. /\ TransferInvariant /\ Course /\ Passing /\ (calm => Calmly)
      /\ UNCHANGED <<step, fine, first, before, calm, hit>>
  BY DEF DrillInvariant, test, Calmly
<1>2. /\ Others(c) /\ UNCHANGED <<mode, stage, verdict, delay, moved, row, body>>
      /\ answer[c] = "none" /\ stage[c] = "idle" /\ row[KeyOf[c]] # "none" /\ alive
      /\ answer'[c] \in {"COMPLETED", "FAILED", "PROCESSING", "CONFLICT"}
      /\ answer'[c] = "CONFLICT" => body[KeyOf[c]] # BodyOf[c]
      /\ row[KeyOf[c]] = "PROCESSING" => answer'[c] \in {"PROCESSING", "CONFLICT"}
  BY <1>1, SendAgainDoes
<1>3. c # lost
  BY <1>1, <1>2, Names DEF Course
<1>4. Course'
  BY <1>1, <1>2, <1>3, Names, Places, Starts, StartsThen DEF Course, Others, Past, Through
<1>5. Passing'
  BY <1>1, <1>2, <1>3, Names, Places DEF Passing, Others, Past, Through
<1>6. ASSUME calm' PROVE fine' /\ CalmCalls' /\ CalmAnswers' /\ CalmRows'
  <2>1. calm /\ fine /\ CalmCalls /\ CalmAnswers /\ CalmRows
    BY <1>1, <1>6 DEF Calmly
  <2>2. (c = retry \/ c = after) /\ Past("forwarded")
    BY <1>1, <1>2, <1>3, <2>1, CalmSender, Names, Starts, Places DEF Course, Past
  <2>3. answer'[c] # "CONFLICT" /\ (~Past("ready") => answer'[c] = "PROCESSING")
    BY <1>2, <2>1, <2>2, CalmSender, Names
  <2>4. CalmCalls'
    BY <1>1, <1>2, <2>1, Names, Places DEF CalmCalls, Others, Past, Through
  <2>5. CalmAnswers'
    BY <1>1, <1>2, <2>1, <2>2, <2>3, Names, Places DEF CalmAnswers, Others, Past
  <2>6. CalmRows'
    BY <1>1, <1>2, <2>1, <2>2, Names, Places DEF CalmRows, Sends, Others, Past
  <2> QED BY <1>1, <2>1, <2>4, <2>5, <2>6
<1> QED BY <1>4, <1>5, <1>6 DEF Kept, Calmly

LEMMA SendInVainKept ==
  ASSUME DrillInvariant, NEW c \in Call, Started(c), SendInVain(c), UNCHANGED test
  PROVE  Kept
<1>1. /\ TransferInvariant /\ Course /\ Passing /\ (calm => Calmly)
      /\ UNCHANGED <<step, fine, first, before, calm, hit>>
  BY DEF DrillInvariant, test, Calmly
<1>2. /\ Others(c) /\ UNCHANGED <<mode, stage, verdict, delay, moved, row, body>>
      /\ answer[c] = "none" /\ stage[c] = "idle" /\ ~alive /\ answer'[c] = "ERROR"
  BY <1>1, SendInVainDoes
<1>3. Course'
  BY <1>1, <1>2, Names, Places, Starts, StartsThen DEF Course, Others, Past, Through
<1>4. Passing'
  BY <1>1, <1>2, Names, Places DEF Passing, Others, Past, Through
<1>5. ASSUME calm' PROVE fine' /\ CalmCalls' /\ CalmAnswers' /\ CalmRows'
  <2>1. calm /\ fine /\ CalmCalls /\ CalmAnswers /\ CalmRows
    BY <1>1, <1>5 DEF Calmly
  <2>2. c # sending
    BY <1>1, <1>2, <2>1, Names, Places DEF Course, CalmCalls, Past, Through
  <2>3. c # retry /\ c # after
    BY <1>1, <1>2, <2>1, Names, Starts, Places DEF Course, CalmAnswers, Past
  <2>4. c # lost
    BY <1>1, <1>2, <2>1, Names, Places DEF Course, Passing, Past
  <2> QED BY <2>2, <2>3, <2>4, Names
<1> QED BY <1>3, <1>4, <1>5 DEF Kept, Calmly

LEMMA AnswerKept ==
  ASSUME DrillInvariant, NEW c \in Call, Answer(c), UNCHANGED <<answer, alive, bank, rest>>, Smooth, UNCHANGED test
  PROVE  Kept
<1>1. /\ TransferInvariant /\ Course /\ Passing /\ (calm => Calmly)
      /\ UNCHANGED <<step, fine, first, before, calm, hit>>
  BY DEF DrillInvariant, test, Calmly
<1>2. /\ Others(c) /\ UNCHANGED <<mode, delay, answer, row, body>>
      /\ stage[c] = "asking" /\ stage'[c] = "answered" /\ moved[KeyOf[c]] = 0
      /\ \/ verdict'[c] = "moved" /\ moved'[KeyOf[c]] = 1
         \/ verdict'[c] = "refused" /\ moved'[KeyOf[c]] = 0
         \/ verdict'[c] = "error" /\ moved'[KeyOf[c]] \in 0..1
  BY <1>1, AnswerDoes
<1>3. \A d \in Call : KeyOf[d] = KeyOf[c] /\ d # c => stage[d] = "idle"
  BY <1>1, <1>2 DEF TransferInvariant, OneSender, Sends
<1>4. Course'
  BY <1>1, <1>2, <1>3, Names, Places, Starts, StartsThen DEF Course, Others, Past, Through
<1>5. Passing'
  BY <1>1, <1>2, <1>3, Names, Places DEF Passing, Others, Past, Through
<1>6. ASSUME calm' PROVE fine' /\ CalmCalls' /\ CalmAnswers' /\ CalmRows'
  <2>1. calm /\ fine /\ CalmCalls /\ CalmAnswers /\ CalmRows
    BY <1>1, <1>6 DEF Calmly
  <2>2. stage'[c] # "dead" /\ verdict'[c] \notin {"refused", "error"} /\ answer'[sending] # "PROCESSING"
    BY <2>1, Handlers DEF Smooth
  <2>3. CalmCalls'
    BY <1>1, <1>2, <1>3, <2>1, <2>2, Names, Places DEF CalmCalls, Others, Past, Through
  <2>4. CalmAnswers'
    BY <1>1, <1>2, <1>3, <2>1, <2>2, Names, Places DEF CalmAnswers, Others, Past, Through
  <2>5. CalmRows'
    BY <1>1, <1>2, <1>3, <2>1, <2>2, Names, Places DEF CalmRows, Sends, Others, Past, Through
  <2> QED BY <1>1, <2>1, <2>3, <2>4, <2>5
<1> QED BY <1>4, <1>5, <1>6 DEF Kept, Calmly

LEMMA FailKept ==
  ASSUME DrillInvariant, NEW c \in Call, Fail(c), UNCHANGED <<answer, alive, bank, rest>>, Smooth, UNCHANGED test
  PROVE  Kept
<1>1. /\ TransferInvariant /\ Course /\ Passing /\ (calm => Calmly)
      /\ UNCHANGED <<step, fine, first, before, calm, hit>>
  BY DEF DrillInvariant, test, Calmly
<1>2. /\ Others(c) /\ UNCHANGED <<mode, verdict, delay, answer, row, body>>
      /\ stage[c] = "asking" /\ stage'[c] = "dead" /\ moved[KeyOf[c]] = 0
  BY <1>1, FailDoes
<1>3. \A d \in Call : KeyOf[d] = KeyOf[c] /\ d # c => stage[d] = "idle"
  BY <1>1, <1>2 DEF TransferInvariant, OneSender, Sends
<1>4. Course'
  BY <1>1, <1>2, <1>3, Names, Places, Starts, StartsThen DEF Course, Others, Past, Through
<1>5. Passing'
  BY <1>1, <1>2, <1>3, Names, Places DEF Passing, Others, Past, Through
<1>6. ASSUME calm' PROVE fine' /\ CalmCalls' /\ CalmAnswers' /\ CalmRows'
  <2>1. calm /\ fine /\ CalmCalls /\ CalmAnswers /\ CalmRows
    BY <1>1, <1>6 DEF Calmly
  <2>2. stage'[c] # "dead" /\ verdict'[c] \notin {"refused", "error"} /\ answer'[sending] # "PROCESSING"
    BY <2>1, Handlers DEF Smooth
  <2>3. CalmCalls'
    BY <1>1, <1>2, <1>3, <2>1, <2>2, Names, Places DEF CalmCalls, Others, Past, Through
  <2>4. CalmAnswers'
    BY <1>1, <1>2, <1>3, <2>1, <2>2, Names, Places DEF CalmAnswers, Others, Past, Through
  <2>5. CalmRows'
    BY <1>1, <1>2, <1>3, <2>1, <2>2, Names, Places DEF CalmRows, Sends, Others, Past, Through
  <2> QED BY <1>1, <2>1, <2>3, <2>4, <2>5
<1> QED BY <1>4, <1>5, <1>6 DEF Kept, Calmly

LEMMA EnterKept ==
  ASSUME DrillInvariant, NEW c \in Call, Enter(c), UNCHANGED <<answer, alive, bank, rest>>, Smooth, UNCHANGED test
  PROVE  Kept
<1>1. /\ TransferInvariant /\ Course /\ Passing /\ (calm => Calmly)
      /\ UNCHANGED <<step, fine, first, before, calm, hit>>
  BY DEF DrillInvariant, test, Calmly
<1>2. /\ Others(c) /\ UNCHANGED <<verdict, moved, answer, row, body>>
      /\ stage[c] = "answered"
      /\ \/ mode.delay_once /\ delay'[c] /\ stage'[c] = "held"
         \/ ~mode.delay_once /\ ~delay'[c] /\ stage'[c] = "replying"
      /\ mode'.forwarded /\ mode'.ready_to_kill = mode.ready_to_kill
  BY <1>1, EnterDoes
<1>3. answer[c] # "none"
  BY <1>1, <1>2 DEF TransferInvariant, CallInvariant
<1>4. step > 2 /\ (c # lost => step > 7)
  BY <1>1, <1>3, Names, Starts DEF Course
<1>5. c # lost /\ c # sending => step > 9
  BY <1>1, <1>3, Names, Starts DEF Course
<1>6. fine /\ step > 3 => c # lost
  BY <1>1, <1>2, Names, Places DEF Course, Passing, Past, Through
<1>7. Course'
  BY <1>1, <1>2, <1>3, <1>4, <1>5, <1>6, Names, Places, Starts, StartsThen DEF Course, Others, Past, Through
<1>8. Passing'
  <2>1. fine /\ step \in 7..8 => c = sending
    BY <1>1, <1>4, <1>5, <1>6 DEF Course
  <2>2. stage[c] # "idle" /\ ~Through(c) /\ Through(c)'
    BY <1>2 DEF Through
  <2>3. fine' /\ Past("arm_kill")' /\ ~Past("forwarded")' => Through(sending)'
    BY <1>1, <2>1, <2>2, Places DEF Course, Past
  <2>4. Through(sending) => Through(sending)'
    BY <1>2, <2>2, Names DEF Others, Through
  <2> QED BY <1>1, <1>2, <2>3, <2>4, Names, Places DEF Passing, Past
<1>9. ASSUME calm' PROVE fine' /\ CalmCalls' /\ CalmAnswers' /\ CalmRows'
  <2>1. calm /\ fine /\ CalmCalls /\ CalmAnswers /\ CalmRows
    BY <1>1, <1>9 DEF Calmly
  <2>2. (c = lost /\ step = 3) \/ (c = sending /\ step <= 8 /\ step > 7)
    BY <1>1, <1>2, <1>4, <1>6, <2>1, Names, Places DEF Course, CalmCalls, Past, Through
  <2>3. delay'[c] /\ stage'[c] = "held"
    BY <1>1, <1>2, <2>1, <2>2, Names, Places DEF Course, CalmCalls, Past, Through
  <2>4. c = sending => Through(lost)
    BY <1>1, <2>1, <2>2, Names, Places DEF Course, Passing, CalmCalls, Past
  <2>5. CalmCalls'
    <3>1. /\ UNCHANGED <<moved, body, verdict>> /\ Through(c)' /\ delay'[c]
          /\ \A d \in Call \ {c} :
               stage'[d] = stage[d] /\ delay'[d] = delay[d] /\ (Through(d)' <=> Through(d))
      BY <1>2, <2>3 DEF Others, Through
    <3>2. /\ Past("arm")' => Through(lost)'
          /\ ~Past("arm_kill")' \/ Through(sending)'
          /\ Past("forwarded")' => Through(sending)'
      BY <1>1, <2>2, <2>4, <3>1, Names, Places DEF Past
    <3> QED BY <1>2, <2>1, <2>2, <2>3, <3>1, <3>2, Names DEF CalmCalls
  <2>6. CalmAnswers'
    BY <1>1, <1>2, <2>1, <2>2, Names, Places DEF CalmAnswers, Others, Past
  <2>7. CalmRows'
    <3>1. ~Past("forwarded")' /\ ~Past("count")'
      BY <1>1, <2>2, Places DEF Course, Past
    <3>2. /\ UNCHANGED <<row, moved, looked, asks, answer>>
          /\ \A d \in Call : stage[d] # "idle" => stage'[d] # "idle"
      BY <1>2, <2>3 DEF Others
    <3> QED BY <2>1, <3>1, <3>2, Names DEF CalmRows, Sends
  <2> QED BY <1>1, <2>1, <2>5, <2>6, <2>7
<1> QED BY <1>7, <1>8, <1>9 DEF Kept, Calmly

LEMMA WakeKept ==
  ASSUME DrillInvariant, NEW c \in Call, WakeLate(c) \/ ReplyInVain(c), Smooth, UNCHANGED test
  PROVE  Kept
<1>1. /\ TransferInvariant /\ Course /\ Passing /\ (calm => Calmly)
      /\ UNCHANGED <<step, fine, first, before, calm, hit>>
  BY DEF DrillInvariant, test, Calmly
<1>2. /\ Others(c) /\ UNCHANGED <<mode, verdict, delay, moved, answer, row, body>>
      /\ answer[c] # "waiting"
      /\ \/ stage[c] = "held" /\ stage'[c] = "replying"
         \/ stage[c] = "replying" /\ stage'[c] = "done"
  BY <1>1, WakeDoes
<1>3. Course'
  BY <1>1, <1>2, Names, Places, Starts, StartsThen DEF Course, Others, Past, Through
<1>4. Passing'
  BY <1>1, <1>2, Names, Places DEF Passing, Others, Past, Through
<1>5. ASSUME calm' PROVE fine' /\ CalmCalls' /\ CalmAnswers' /\ CalmRows'
  <2>1. calm /\ fine /\ CalmCalls /\ CalmAnswers /\ CalmRows
    BY <1>1, <1>5 DEF Calmly
  <2>2. stage'[c] # "dead" /\ verdict'[c] \notin {"refused", "error"} /\ answer'[sending] # "PROCESSING"
    BY <2>1, Handlers DEF Smooth
  <2>3. CalmCalls'
    BY <1>1, <1>2, <2>1, <2>2, Names, Places DEF CalmCalls, Others, Past, Through
  <2>4. CalmAnswers'
    BY <1>1, <1>2, <2>1, <2>2, Names, Places DEF CalmAnswers, Others, Past, Through
  <2>5. CalmRows'
    BY <1>1, <1>2, <2>1, <2>2, Names, Places DEF CalmRows, Sends, Others, Past, Through
  <2> QED BY <1>1, <2>1, <2>3, <2>4, <2>5
<1> QED BY <1>3, <1>4, <1>5 DEF Kept, Calmly

LEMMA SaveKept ==
  ASSUME DrillInvariant, NEW c \in Call, Save(c), Smooth, UNCHANGED test
  PROVE  Kept
<1>1. /\ TransferInvariant /\ Course /\ Passing /\ (calm => Calmly)
      /\ UNCHANGED <<step, fine, first, before, calm, hit>>
  BY DEF DrillInvariant, test, Calmly
<1>2. /\ Others(c) /\ UNCHANGED <<mode, verdict, delay, moved, body>>
      /\ stage[c] = "replying" /\ stage'[c] = "done" /\ ~delay[c] /\ answer[c] = "waiting"
      /\ \/ verdict[c] = "moved" /\ answer'[c] = "COMPLETED" /\ row'[KeyOf[c]] = "SUCCEEDED"
         \/ verdict[c] \in {"refused", "error"} /\ answer'[c] = "FAILED" /\ row'[KeyOf[c]] = "FAILED"
  BY <1>1, SaveDoes
<1>3. Course'
  BY <1>1, <1>2, Names, Places, Starts, StartsThen DEF Course, Others, Past, Through
<1>4. Passing'
  BY <1>1, <1>2, Names, Places DEF Passing, Others, Past, Through
<1>5. ASSUME calm' PROVE fine' /\ CalmCalls' /\ CalmAnswers' /\ CalmRows'
  <2>1. calm /\ fine /\ CalmCalls /\ CalmAnswers /\ CalmRows
    BY <1>1, <1>5 DEF Calmly
  <2> QED BY <1>2, <2>1, Names DEF CalmCalls, Through
<1> QED BY <1>3, <1>4, <1>5 DEF Kept, Calmly

LEMMA GiveUpKept ==
  ASSUME DrillInvariant, ~Slow, NEW c \in Call, GiveUp(c), Smooth, UNCHANGED test
  PROVE  Kept
<1>1. /\ TransferInvariant /\ Course /\ Passing /\ (calm => Calmly)
      /\ UNCHANGED <<step, fine, first, before, calm, hit>>
  BY DEF DrillInvariant, test, Calmly
<1>2. /\ Others(c) /\ UNCHANGED <<mode, stage, verdict, delay, moved, body>>
      /\ stage[c] \in {"dead", "held"} /\ answer[c] = "waiting"
      /\ \/ answer'[c] = "PROCESSING" /\ row'[KeyOf[c]] = "UNKNOWN"
         \/ stage[c] = "dead" /\ answer'[c] = "FAILED" /\ row'[KeyOf[c]] = "FAILED"
  BY <1>1, GiveUpDoes
<1>3. Course'
  BY <1>1, <1>2, Names, Places, Starts, StartsThen DEF Course, Others, Past, Through
<1>4. Passing'
  BY <1>1, <1>2, Names, Places DEF Passing, Others, Past, Through
<1>5. ASSUME calm' PROVE fine' /\ CalmCalls' /\ CalmAnswers' /\ CalmRows'
  <2>1. calm /\ fine /\ CalmCalls /\ CalmAnswers /\ CalmRows
    BY <1>1, <1>5 DEF Calmly
  <2>2. /\ c = lost /\ stage[c] = "held" /\ moved[Delayed] = 1
        /\ answer'[c] = "PROCESSING" /\ row'[KeyOf[c]] = "UNKNOWN"
    <3>1. answer'[sending] # "PROCESSING"
      BY <2>1 DEF Smooth
    <3>2. c = lost /\ stage[c] = "held"
      BY <1>2, <2>1, <3>1, Names DEF CalmCalls
    <3>3. moved[Delayed] = 1
      BY <2>1, <3>2, Names DEF CalmCalls, Through
    <3> QED BY <1>2, <3>2, <3>3
  <2>3. CalmCalls'
    BY <1>1, <1>2, <2>1, <2>2, Names, Places DEF CalmCalls, Others, Past, Through
  <2>4. CalmAnswers'
    BY <1>1, <1>2, <2>1, <2>2, Names, Places DEF CalmAnswers, Others, Past
  <2>5. CalmRows'
    BY <1>1, <1>2, <2>1, <2>2, Names, Places DEF CalmRows, Sends, Others, Past
  <2> QED BY <1>1, <2>1, <2>3, <2>4, <2>5
<1> QED BY <1>3, <1>4, <1>5 DEF Kept, Calmly

\* A step that none of the calls notices leaves all but the rows as it was.
LEMMA UnnoticedKept ==
  ASSUME DrillInvariant, Unnoticed, UNCHANGED test,
         row[Delayed] = "none" => row'[Delayed] = "none",
         row'[Delayed] = row[Delayed] \/ row'[Delayed] \notin {"none", "REQUESTED", "PROCESSING"}
  PROVE  Course' /\ Passing' /\ (calm' => fine' /\ CalmCalls' /\ CalmAnswers')
<1>1. /\ Course /\ Passing /\ (calm => Calmly)
      /\ UNCHANGED <<step, fine, first, before, calm, hit, mode, moved, answer, alive, body, arms, kills>>
      /\ \A d \in Call : stage'[d] = stage[d] /\ verdict'[d] = verdict[d] /\ delay'[d] = delay[d]
  BY DEF DrillInvariant, test, Calmly, Unnoticed
<1>2. Course'
  BY <1>1, Names, Places, Starts, StartsThen DEF Course, Past, Through
<1>3. Passing'
  BY <1>1, Names, Places DEF Passing, Past, Through
<1>4. ASSUME calm' PROVE fine' /\ CalmCalls' /\ CalmAnswers'
  <2>1. fine /\ CalmCalls /\ CalmAnswers
    BY <1>1, <1>4 DEF Calmly
  <2>2. CalmCalls'
    BY <1>1, <2>1, Names, Places DEF CalmCalls, Past, Through
  <2>3. CalmAnswers'
    BY <1>1, <2>1, Names, Places DEF CalmAnswers, Past
  <2> QED BY <1>1, <2>1, <2>2, <2>3
<1> QED BY <1>2, <1>3, <1>4

LEMMA LookupKept ==
  ASSUME DrillInvariant, NEW k \in Key, Lookup(k), UNCHANGED test
  PROVE  Kept
<1>1. /\ TransferInvariant /\ (calm => Calmly)
      /\ UNCHANGED <<step, fine, first, before, calm, hit>>
  BY DEF DrillInvariant, test, Calmly
<1>2. /\ Unnoticed /\ UNCHANGED row
      /\ looked' = looked \cup {k} /\ asks' = asks \cup {k}
      /\ \/ row[k] = "UNKNOWN"
         \/ /\ row[k] = "PROCESSING"
            /\ \A c \in Call : KeyOf[c] = k =>
                 answer[c] # "waiting" /\ stage[c] \notin {"asking", "answered"}
  BY <1>1, LookupDoes
<1>3. Course' /\ Passing' /\ (calm' => fine' /\ CalmCalls' /\ CalmAnswers')
  <2>1. Unnoticed /\ row'[Delayed] = row[Delayed]
    BY <1>2
  <2> QED BY <2>1, UnnoticedKept
<1>4. ASSUME calm' PROVE CalmRows'
  <2>1. CalmCalls /\ CalmAnswers /\ CalmRows
    BY <1>1, <1>4 DEF Calmly
  <2>2. PICK c \in {lost, sending} : KeyOf[c] = k /\ Sends(c)
    BY <1>2, <2>1 DEF CalmRows
  <2>3. moved[k] = 1
    <3>1. CASE row[k] = "UNKNOWN"
      BY <2>1, <3>1 DEF CalmRows
    <3>2. CASE row[k] = "PROCESSING"
      <4>1. stage[c] \notin {"idle", "asking", "answered", "dead"} /\ stage[c] \in Stages
        BY <1>1, <1>2, <2>1, <2>2, <3>2, Names, Handlers DEF CalmCalls, Sends, TransferInvariant, TypeOK
      <4> QED BY <2>1, <2>2, <4>1, Names DEF CalmCalls, Through, Stages
    <3> QED BY <1>2, <3>1, <3>2
  <2>4. k = Crashed => answer[sending] = "ERROR"
    <3> SUFFICES ASSUME k = Crashed PROVE answer[sending] = "ERROR"
      OBVIOUS
    <3>1. c = sending /\ CallInvariant(sending)
      BY <1>1, <2>2, Names DEF TransferInvariant
    <3>2. answer[sending] # "none"
      BY <2>2, <3>1 DEF CallInvariant, Sends
    <3>3. answer[sending] # "waiting"
      BY <1>2, <3>1, Names DEF CallInvariant
    <3> QED BY <2>1, <3>2, <3>3 DEF CalmAnswers
  <2> QED BY <1>1, <1>2, <2>1, <2>3, <2>4, Names, Places DEF CalmRows, Sends, Unnoticed, Past
<1> QED BY <1>1, <1>3, <1>4 DEF Kept, Calmly

LEMMA ResolveKept ==
  ASSUME DrillInvariant, ~Slow, NEW k \in Key, Resolve(k), UNCHANGED test
  PROVE  Kept
<1>1. /\ TransferInvariant /\ (calm => Calmly)
      /\ UNCHANGED <<step, fine, first, before, calm, hit>>
  BY DEF DrillInvariant, test, Calmly
<1>2. /\ Unnoticed /\ UNCHANGED looked
      /\ asks' \subseteq asks /\ k \in asks
      /\ \A j \in Key \ {k} : row'[j] = row[j]
      /\ row[k] \in {"UNKNOWN", "PROCESSING"}
      /\ \/ row'[k] = "SUCCEEDED" /\ moved[k] = 1
         \/ row'[k] = "FAILED" /\ moved[k] = 0
  BY <1>1, ResolveDoes
<1>3. Course' /\ Passing' /\ (calm' => fine' /\ CalmCalls' /\ CalmAnswers')
  <2>1. /\ row[Delayed] = "none" => row'[Delayed] = "none"
        /\ row'[Delayed] = row[Delayed] \/ row'[Delayed] \notin {"none", "REQUESTED", "PROCESSING"}
    BY <1>2, Names
  <2> QED BY <1>2, <2>1, UnnoticedKept
<1>4. ASSUME calm' PROVE CalmRows'
  <2>1. CalmRows
    BY <1>1, <1>4 DEF Calmly
  <2> QED BY <1>1, <1>2, <2>1, Names, Places DEF CalmRows, Sends, Unnoticed, Past
<1> QED BY <1>1, <1>3, <1>4 DEF Kept, Calmly

LEMMA RestKept ==
  ASSUME DrillInvariant, UNCHANGED test,
         \/ \E k \in Key : \/ Proxy(k) \/ ReplyInVain(k) \/ LookupFails(k)
                           \/ Publish(k) \/ Exhaust(k) \/ MarkPublished(k) \/ Consume(k)
  PROVE  Kept
<1>1. /\ TransferInvariant /\ (calm => Calmly)
      /\ UNCHANGED <<step, fine, first, before, calm, hit>>
  BY DEF DrillInvariant, test, Calmly
<1>2. Unnoticed /\ UNCHANGED <<row, looked>> /\ asks' \subseteq asks
  BY <1>1, RestDoes
<1>3. Course' /\ Passing' /\ (calm' => fine' /\ CalmCalls' /\ CalmAnswers')
  <2>1. Unnoticed /\ row'[Delayed] = row[Delayed]
    BY <1>2
  <2> QED BY <2>1, UnnoticedKept
<1>4. ASSUME calm' PROVE CalmRows'
  <2>1. CalmRows
    BY <1>1, <1>4 DEF Calmly
  <2> QED BY <1>1, <1>2, <2>1, Names, Places DEF CalmRows, Sends, Unnoticed, Past
<1> QED BY <1>1, <1>3, <1>4 DEF Kept, Calmly

-----------------------------------------------------------------------------
(***************************************************************************)
(* Banking is killed and started again.                                    *)
(***************************************************************************)
LEMMA RestartKept ==
  ASSUME DrillInvariant, Restart, Past("killed"), UNCHANGED test
  PROVE  Kept
<1>1. /\ Course /\ Passing /\ (calm => Calmly)
      /\ UNCHANGED <<step, fine, first, before, calm, hit>>
      /\ UNCHANGED <<mode, stage, verdict, delay, moved, answer, row, body, looked, asks, arms, kills>>
      /\ alive'
  BY DEF DrillInvariant, test, Calmly, Restart, looked, proxy, bank, rest
<1>2. Course'
  BY <1>1, Names, Places, Starts, StartsThen DEF Course, Past, Through
<1>3. Passing'
  BY <1>1, Names, Places DEF Passing, Past, Through
<1>4. ASSUME calm' PROVE fine' /\ CalmCalls' /\ CalmAnswers' /\ CalmRows'
  <2>1. fine /\ CalmCalls /\ CalmAnswers /\ CalmRows
    BY <1>1, <1>4 DEF Calmly
  <2>2. CalmCalls'
    BY <1>1, <2>1, Names, Places DEF CalmCalls, Past, Through
  <2>3. CalmAnswers'
    BY <1>1, <2>1, Names, Places DEF CalmAnswers, Past
  <2>4. CalmRows'
    BY <1>1, <2>1, Names, Places DEF CalmRows, Sends, Past
  <2> QED BY <1>1, <2>1, <2>2, <2>3, <2>4
<1> QED BY <1>2, <1>3, <1>4 DEF Kept, Calmly

\* A kill finds the call waiting, its row PROCESSING: so it hits, unless the
\* money has not moved.
LEMMA KillKept ==
  ASSUME DrillInvariant, KillWhenReady
  PROVE  Kept
<1>1. /\ TransferInvariant /\ Course /\ Passing /\ (calm => Calmly)
      /\ UNCHANGED <<step, fine, first, before, calm>>
  BY DEF DrillInvariant, Calmly, KillWhenReady
<1>2. /\ UNCHANGED <<mode, stage, verdict, delay, moved, row, body, looked, arms>>
      /\ ~alive' /\ asks' = {} /\ kills' = kills + 1
      /\ \A c \in Call : answer'[c] = IF answer[c] = "waiting" THEN "ERROR" ELSE answer[c]
      /\ moved[Crashed] = 1 /\ row[Crashed] = "PROCESSING" => hit'
      /\ hit => hit'
  BY DEF KillWhenReady, Kill, looked, proxy
<1>3. step > 12 /\ kills \in Nat /\ (calm => kills = 0)
  BY <1>1, Places DEF KillWhenReady, Course, Past, TransferInvariant, TypeOK
<1>4. CallInvariant(sending) /\ KeyInvariant(Crashed) /\ moved[Crashed] \in Nat
  BY <1>1, Names DEF TransferInvariant, TypeOK
<1>5. answer[sending] = "waiting" => hit' \/ moved[Crashed] = 0
  BY <1>2, <1>4, Names DEF CallInvariant, KeyInvariant, Unsent
<1>6. Course'
  BY <1>1, <1>2, <1>3, Names, Places, Starts, StartsThen DEF Course, Past, Through
<1>7. Passing'
  BY <1>1, <1>2, <1>5, Names, Places DEF Passing, Past, Through
<1>8. ASSUME calm' PROVE fine' /\ CalmCalls' /\ CalmAnswers' /\ CalmRows'
  <2>1. fine /\ CalmCalls /\ CalmAnswers /\ CalmRows /\ kills = 0
    BY <1>1, <1>3, <1>8 DEF Calmly
  <2>2. CalmCalls'
    BY <1>1, <1>2, <2>1, Names, Places DEF CalmCalls, Past, Through
  <2>3. CalmAnswers'
    BY <1>1, <1>2, <1>3, <2>1, Names, Places DEF Course, CalmAnswers, Past
  <2>4. CalmRows'
    <3>1. stage[sending] # "idle" /\ answer[lost] # "waiting"
      BY <1>1, <1>3, <2>1, Places DEF Course, Passing, CalmCalls, Past, Through
    <3>2. \A c \in {lost, sending} : Sends(c) => Sends(c)'
      BY <1>2, <3>1, Names DEF Sends
    <3>3. UNCHANGED <<mode, moved, row, looked, step, first, before>> /\ asks' = {}
      BY <1>1, <1>2
    <3>4. answer[sending] = "ERROR" => answer'[sending] = "ERROR"
      BY <1>2, Names
    <3> QED BY <2>1, <3>2, <3>3, <3>4 DEF CalmRows, Past
  <2> QED BY <1>1, <2>1, <2>2, <2>3, <2>4
<1> QED BY <1>6, <1>7, <1>8 DEF Kept, Calmly

-----------------------------------------------------------------------------
(***************************************************************************)
(* The steps of the test.                                                  *)
(***************************************************************************)
\* What a step of the test leaves alone.
Watched ==
  UNCHANGED <<stage, verdict, delay, moved, answer, alive, row, body, looked, asks, kills, calm, hit>>

ModeType == [delay_once : BOOLEAN, forwarded : BOOLEAN, transfer_posts : Nat,
             ready_to_kill : BOOLEAN]

LEMMA ControlKeeps ==
  ASSUME TransferInvariant, NEW m \in ModeType, Control(m), arms' \in 0..MaxArms,
         UNCHANGED <<answer, alive, bank, broker, topic, shown, kills, outages>>
  PROVE  TransferInvariant'
<1>1. TypeOK'
  BY DEF TransferInvariant, TypeOK, Control, bank, ModeType
<1>2. OneSender' /\ (\A c \in Call : CallInvariant(c)') /\ (\A k \in Key : KeyInvariant(k)')
  BY Quiet DEF TransferInvariant, Control, looked, bank
<1> QED BY <1>1, <1>2 DEF TransferInvariant

LEMMA ArmedIs ==
  ASSUME TypeOK
  PROVE  /\ mode.transfer_posts \in Nat /\ mode \in ModeType
         /\ Armed(mode) \in ModeType /\ KillArmed(mode) \in ModeType /\ Ready(mode) \in ModeType
         /\ Armed(mode).delay_once /\ KillArmed(mode).delay_once
         /\ ~Armed(mode).forwarded /\ ~KillArmed(mode).forwarded
         /\ Armed(mode).ready_to_kill = mode.ready_to_kill /\ ~KillArmed(mode).ready_to_kill
         /\ Ready(mode).transfer_posts = mode.transfer_posts
         /\ Ready(mode).delay_once = mode.delay_once
         /\ Ready(mode).forwarded = mode.forwarded
<1>1. mode \in ModeType /\ mode.transfer_posts \in Nat
  BY DEF TypeOK, ModeType
<1>2. Armed(mode) \in ModeType
  BY <1>1, Zenon DEF ModeType, Armed
<1>3. KillArmed(mode) \in ModeType
  BY <1>2, Zenon DEF ModeType, KillArmed
<1>4. Ready(mode) \in ModeType
  BY <1>1, Zenon DEF ModeType, Ready
<1>5. /\ Armed(mode).delay_once /\ KillArmed(mode).delay_once
      /\ ~Armed(mode).forwarded /\ ~KillArmed(mode).forwarded
      /\ Armed(mode).ready_to_kill = mode.ready_to_kill /\ ~KillArmed(mode).ready_to_kill
      /\ Ready(mode).transfer_posts = mode.transfer_posts
      /\ Ready(mode).delay_once = mode.delay_once
      /\ Ready(mode).forwarded = mode.forwarded
  BY <1>1 DEF ModeType, Armed, KillArmed, Ready
<1> QED BY <1>1, <1>2, <1>3, <1>4, <1>5

LEMMA ArmDelayKept ==
  ASSUME DrillInvariant, ArmDelay
  PROVE  TransferInvariant' /\ Kept
<1>1. /\ TransferInvariant /\ TypeOK /\ Course /\ Passing /\ (calm => Calmly)
      /\ Watched /\ UNCHANGED <<fine, first, before>>
      /\ step = 1 /\ step' = 2 /\ mode' = Armed(mode) /\ arms' = arms + 1
  BY Places DEF DrillInvariant, TransferInvariant, Calmly, ArmDelay, At, Onward, Control, Watched, looked, bank
<1>2. arms' \in 0..MaxArms /\ arms' <= 1
  BY <1>1, Places, DrillAssumption, FlowAssumption DEF Course, Past, TypeOK
<1>3. TransferInvariant'
  BY <1>1, <1>2, ArmedIs, ControlKeeps DEF ArmDelay
<1>4. Course'
  BY <1>1, <1>2, ArmedIs, Names, Places, Starts, StartsThen DEF Course, Past, Through, Watched
<1>5. Passing'
  BY <1>1, Places DEF Passing, Past, Watched
<1>6. ASSUME calm' PROVE fine' /\ CalmCalls' /\ CalmAnswers' /\ CalmRows'
  <2>1. fine /\ CalmCalls /\ CalmAnswers /\ CalmRows
    BY <1>1, <1>6 DEF Calmly, Watched
  <2>2. CalmCalls'
    BY <1>1, <2>1, ArmedIs, Places DEF CalmCalls, Past, Through, Watched
  <2>3. CalmAnswers'
    BY <1>1, <2>1, Places DEF CalmAnswers, Past, Watched
  <2>4. CalmRows'
    BY <1>1, <2>1, Places DEF CalmRows, Sends, Past, Watched
  <2> QED BY <1>1, <2>1, <2>2, <2>3, <2>4
<1> QED BY <1>3, <1>4, <1>5, <1>6 DEF Kept, Calmly

LEMMA ArmKillKept ==
  ASSUME DrillInvariant, ArmKill
  PROVE  TransferInvariant' /\ Kept
<1>1. /\ TransferInvariant /\ TypeOK /\ Course /\ Passing /\ (calm => Calmly)
      /\ Watched /\ UNCHANGED <<fine, first, before>>
      /\ step = 6 /\ step' = 7 /\ mode' = KillArmed(mode) /\ arms' = arms + 1
  BY Places DEF DrillInvariant, TransferInvariant, Calmly, ArmKill, At, Onward, Control, Watched, looked, bank
<1>2. arms' \in 0..MaxArms /\ arms' <= 2
  BY <1>1, Places, DrillAssumption, FlowAssumption DEF Course, Past, TypeOK
<1>3. TransferInvariant'
  BY <1>1, <1>2, ArmedIs, ControlKeeps DEF ArmKill
<1>4. Course'
  BY <1>1, <1>2, ArmedIs, Names, Places, Starts, StartsThen DEF Course, Past, Through, Watched
<1>5. Passing'
  <2>1. ~mode'.forwarded
    BY <1>1, ArmedIs
  <2> QED BY <1>1, <2>1, Places DEF Passing, Past, Watched
<1>6. ASSUME calm' PROVE fine' /\ CalmCalls' /\ CalmAnswers' /\ CalmRows'
  <2>1. fine /\ CalmCalls /\ CalmAnswers /\ CalmRows
    BY <1>1, <1>6 DEF Calmly, Watched
  <2>2. CalmCalls'
    BY <1>1, <2>1, ArmedIs, Places DEF CalmCalls, Past, Through, Watched
  <2>3. CalmAnswers'
    BY <1>1, <2>1, Places DEF CalmAnswers, Past, Watched
  <2>4. CalmRows'
    BY <1>1, <2>1, Places DEF CalmRows, Sends, Past, Watched
  <2> QED BY <1>1, <2>1, <2>2, <2>3, <2>4
<1> QED BY <1>3, <1>4, <1>5, <1>6 DEF Kept, Calmly

LEMMA SayReadyKept ==
  ASSUME DrillInvariant, SayReady
  PROVE  TransferInvariant' /\ Kept
<1>1. /\ TransferInvariant /\ TypeOK /\ Course /\ Passing /\ (calm => Calmly)
      /\ Watched /\ UNCHANGED <<fine, first, before, arms>>
      /\ step = 12 /\ step' = 13 /\ mode' = Ready(mode)
  BY Places DEF DrillInvariant, TransferInvariant, Calmly, SayReady, At, Onward, Control, Watched, looked, bank, rest
<1>2. arms' \in 0..MaxArms
  BY <1>1 DEF TypeOK
<1>3. TransferInvariant'
  BY <1>1, <1>2, ArmedIs, ControlKeeps DEF SayReady, rest
<1>4. Course'
  BY <1>1, <1>2, ArmedIs, Names, Places, Starts, StartsThen DEF Course, Past, Through, Watched
<1>5. Passing'
  <2>1. /\ ~(Past("arm_kill")' /\ ~Past("forwarded")')
        /\ Past("told") /\ Past("forwarded") /\ ~Past("killed")' /\ ~Past("recovered_after")'
    BY <1>1, Places DEF Past
  <2>2. Passing /\ UNCHANGED <<fine, answer, stage, first, hit, moved>>
    BY <1>1 DEF Watched
  <2> QED BY <2>1, <2>2 DEF Passing, Through
<1>6. ASSUME calm' PROVE fine' /\ CalmCalls' /\ CalmAnswers' /\ CalmRows'
  <2>1. fine /\ CalmCalls /\ CalmAnswers /\ CalmRows
    BY <1>1, <1>6 DEF Calmly, Watched
  <2>2. CalmCalls'
    BY <1>1, <2>1, ArmedIs, Places DEF CalmCalls, Past, Through, Watched
  <2>3. CalmAnswers'
    BY <1>1, <2>1, Places DEF CalmAnswers, Past, Watched
  <2>4. CalmRows'
    BY <1>1, <2>1, ArmedIs, Places DEF CalmRows, Sends, Past, Watched
  <2> QED BY <1>1, <2>1, <2>2, <2>3, <2>4
<1> QED BY <1>3, <1>4, <1>5, <1>6 DEF Kept, Calmly

\* A step of the test that changes nothing of the system: what it records
\* and how far it is.
LEMMA SeesTypes ==
  ASSUME TransferInvariant, UNCHANGED vars
  PROVE  TransferInvariant'
BY NextStep DEF vars

LEMMA SeeTimeoutKept ==
  ASSUME DrillInvariant, SeeTimeout
  PROVE  TransferInvariant' /\ Kept
<1>1. /\ TransferInvariant /\ Course /\ Passing /\ (calm => Calmly)
      /\ Watched /\ UNCHANGED <<first, before, arms, mode>> /\ UNCHANGED vars
  BY DEF DrillInvariant, Calmly, SeeTimeout, Watched, looked, vars
<1>2. step \in 2..5 /\ step' = step + 1 /\ (fine' => fine)
  BY Places DEF SeeTimeout, At, Onward, OnwardWith
<1>3. step = 3 /\ fine' => answer[lost] \notin {"none", "waiting", "ERROR"}
  <2>1. step = 3 => Heard(lost) /\ OnwardWith(answer[lost] # "ERROR" /\ row[Delayed] \in {"UNKNOWN", "SUCCEEDED"})
    BY Places DEF SeeTimeout, At
  <2> QED BY <2>1 DEF Heard, OnwardWith
<1>4. Course'
  BY <1>1, <1>2, Names, Places, Starts, StartsThen DEF Course, Past, Through, Watched
<1>5. Passing'
  BY <1>1, <1>2, <1>3, Places DEF Passing, Past, Watched
<1>6. ASSUME calm' PROVE fine' /\ CalmCalls' /\ CalmAnswers' /\ CalmRows'
  <2>1. calm /\ fine /\ CalmCalls /\ CalmAnswers /\ CalmRows
    BY <1>1, <1>6 DEF Calmly, Watched
  <2>2. fine'
    <3>1. CASE step = 3
      <4>1. answer[lost] \notin {"none", "waiting", "ERROR"}
        BY <1>1, <3>1, Names, Places DEF SeeTimeout, At, Heard, Course, Past
      <4>2. row[Delayed] \in {"UNKNOWN", "SUCCEEDED"}
        BY <1>1, <2>1, <4>1, Names DEF Course, CalmRows, TransferInvariant, TypeOK, Statuses
      <4>3. OnwardWith(answer[lost] # "ERROR" /\ row[Delayed] \in {"UNKNOWN", "SUCCEEDED"})
        BY <3>1, Places DEF SeeTimeout, At
      <4> QED BY <2>1, <4>1, <4>2, <4>3 DEF OnwardWith
    <3>2. CASE step = 4
      <4>1. row[Delayed] = "SUCCEEDED"
        BY <2>1, <3>2, Places DEF SeeTimeout, At, Polled
      <4>2. delay[lost]
        BY <1>1, <2>1, <3>2, Names, Places DEF Course, Passing, CalmCalls, Past
      <4>3. Delayed \in looked
        BY <1>1, <4>1, <4>2, Names DEF TransferInvariant, CallInvariant, Settled
      <4> QED BY <2>1, <3>2, <4>1, <4>3, Places DEF SeeTimeout, At, OnwardWith
    <3>3. CASE step = 2
      <4>1. Onward
        BY <3>3, Places DEF SeeTimeout, At
      <4> QED BY <2>1, <4>1 DEF Onward
    <3>4. CASE step = 5
      <4>1. /\ Polled(outbox[Delayed] = "PUBLISHED")
            /\ OnwardWith(outbox[Delayed] = "PUBLISHED")
        BY <3>4, Places DEF SeeTimeout, At
      <4> QED BY <2>1, <4>1 DEF Polled, OnwardWith
    <3> QED BY <1>2, <3>1, <3>2, <3>3, <3>4
  <2>3. CalmCalls'
    BY <1>1, <1>2, <2>1, Places DEF CalmCalls, Past, Through, Watched
  <2>4. CalmAnswers'
    BY <1>1, <1>2, <2>1, Places DEF CalmAnswers, Past, Watched
  <2>5. CalmRows'
    BY <1>1, <1>2, <2>1, Places DEF CalmRows, Sends, Past, Watched
  <2> QED BY <2>2, <2>3, <2>4, <2>5
<1>7. TransferInvariant'
  BY <1>1, SeesTypes
<1> QED BY <1>4, <1>5, <1>6, <1>7 DEF Kept, Calmly

LEMMA SeeForwardedKept ==
  ASSUME DrillInvariant, SeeForwarded
  PROVE  TransferInvariant' /\ Kept
<1>1. /\ TransferInvariant /\ Course /\ Passing /\ (calm => Calmly)
      /\ Watched /\ UNCHANGED <<fine, before, arms, mode>> /\ UNCHANGED vars
      /\ step = 8 /\ step' = 9 /\ first' = mode
  BY Places DEF DrillInvariant, Calmly, SeeForwarded, Watched, looked, vars, At, Onward
<1>2. calm => mode.forwarded
  BY DEF SeeForwarded, Polled
<1>3. fine /\ mode.forwarded => Through(sending)
  BY <1>1, Places DEF Passing, Past
<1>4. answer[sending] # "ERROR"
  BY <1>1, Names, Places DEF Course, Past
<1>5. Course'
  BY <1>1, Names, Places, Starts, StartsThen DEF Course, Past, Through, Watched
<1>6. Passing'
  BY <1>1, <1>3, <1>4, Places DEF Passing, Past, Through, Watched
<1>7. ASSUME calm' PROVE fine' /\ CalmCalls' /\ CalmAnswers' /\ CalmRows'
  <2>1. fine /\ CalmCalls /\ CalmAnswers /\ CalmRows /\ Through(sending)
    BY <1>1, <1>2, <1>3, <1>7 DEF Calmly, Watched
  <2>2. CalmCalls'
    BY <1>1, <2>1, Places DEF CalmCalls, Past, Through, Watched
  <2>3. CalmAnswers'
    BY <1>1, <2>1, Places DEF CalmAnswers, Past, Watched
  <2>4. CalmRows'
    BY <1>1, <2>1, Places DEF CalmRows, Sends, Past, Watched
  <2> QED BY <1>1, <2>1, <2>2, <2>3, <2>4
<1>8. TransferInvariant'
  BY <1>1, SeesTypes
<1> QED BY <1>5, <1>6, <1>7, <1>8 DEF Kept, Calmly

LEMMA SeeInProgressKept ==
  ASSUME DrillInvariant, SeeInProgress
  PROVE  TransferInvariant' /\ Kept
<1>1. /\ TransferInvariant /\ Course /\ Passing /\ (calm => Calmly)
      /\ Watched /\ UNCHANGED <<first, before, arms, mode>> /\ UNCHANGED vars
  BY DEF DrillInvariant, Calmly, SeeInProgress, Watched, looked, vars
<1>2. step \in {7, 9, 10, 11, 13} /\ step' = step + 1 /\ (fine' => fine)
  BY Places DEF SeeInProgress, At, Onward, OnwardWith
<1>3. step = 13 =>
        Heard(sending) /\ OnwardWith(answer[sending] = "ERROR")
  BY Places DEF SeeInProgress, At
<1>4. step = 13 /\ fine' => answer[sending] = "ERROR"
  BY <1>3 DEF OnwardWith
<1>5. Course'
  BY <1>1, <1>2, Names, Places, Starts, StartsThen DEF Course, Past, Through, Watched
<1>6. Passing'
  BY <1>1, <1>2, <1>4, Places DEF Passing, Past, Through, Watched
<1>7. ASSUME calm' PROVE fine' /\ CalmCalls' /\ CalmAnswers' /\ CalmRows'
  <2>1. calm /\ fine /\ CalmCalls /\ CalmAnswers /\ CalmRows
    BY <1>1, <1>7 DEF Calmly, Watched
  <2>2. fine'
    <3>1. CASE step \in {7, 9}
      <4>1. Onward
        BY <3>1, Places DEF SeeInProgress, At
      <4> QED BY <2>1, <4>1 DEF Onward
    <3>2. CASE step = 10
      <4>1. /\ Heard(retry)
            /\ OnwardWith(answer[retry] = "PROCESSING" /\ mode.transfer_posts = first.transfer_posts)
        BY <3>2, Places DEF SeeInProgress, At
      <4>2. answer[retry] = "PROCESSING"
        BY <2>1, <3>2, <4>1, Places DEF CalmAnswers, Past, Heard
      <4>3. mode.transfer_posts = first.transfer_posts
        BY <2>1, <3>2, Places DEF CalmRows, Sends, Past
      <4> QED BY <2>1, <4>1, <4>2, <4>3 DEF OnwardWith
    <3>3. CASE step = 11
      <4>1. OnwardWith(row[Crashed] = "PROCESSING" /\ Crashed \notin looked)
        BY <3>3, Places DEF SeeInProgress, At
      <4>2. answer[sending] = "waiting" /\ row[Crashed] = "PROCESSING"
        BY <2>1, <3>3, CalmSender, Places DEF Past
      <4>3. Crashed \notin looked
        BY <2>1, <4>2 DEF CalmRows
      <4> QED BY <2>1, <4>1, <4>2, <4>3 DEF OnwardWith
    <3>4. CASE step = 13
      <4>1. answer[sending] = "ERROR"
        BY <1>3, <2>1, <3>4 DEF CalmAnswers, Heard
      <4> QED BY <1>3, <2>1, <3>4, <4>1 DEF OnwardWith
    <3> QED BY <1>2, <3>1, <3>2, <3>3, <3>4
  <2>3. CalmCalls'
    BY <1>1, <1>2, <2>1, Places DEF CalmCalls, Past, Through, Watched
  <2>4. CalmAnswers'
    <3>1. step = 10 => answer[retry] # "none"
      BY Places DEF SeeInProgress, At, Heard
    <3>2. step = 13 => kills > 0
      BY <1>3, <2>1 DEF CalmAnswers, Heard
    <3> QED BY <1>1, <1>2, <2>1, <3>1, <3>2, Places DEF CalmAnswers, Past, Watched
  <2>5. CalmRows'
    BY <1>1, <1>2, <2>1, Places DEF CalmRows, Sends, Past, Watched
  <2> QED BY <2>2, <2>3, <2>4, <2>5
<1>8. TransferInvariant'
  BY <1>1, SeesTypes
<1> QED BY <1>5, <1>6, <1>7, <1>8 DEF Kept, Calmly

LEMMA ReadCountKept ==
  ASSUME DrillInvariant, ReadCount
  PROVE  TransferInvariant' /\ Kept
<1>1. /\ TransferInvariant /\ Course /\ Passing /\ (calm => Calmly)
      /\ Watched /\ UNCHANGED <<fine, first, arms, mode>> /\ UNCHANGED vars
      /\ step = 15 /\ step' = 16 /\ before' = mode.transfer_posts
  BY Places DEF DrillInvariant, Calmly, ReadCount, Watched, looked, vars, At, Onward
<1>2. Course'
  BY <1>1, Names, Places, Starts, StartsThen DEF Course, Past, Through, Watched
<1>3. Passing'
  BY <1>1, Places DEF Passing, Past, Through, Watched
<1>4. ASSUME calm' PROVE fine' /\ CalmCalls' /\ CalmAnswers' /\ CalmRows'
  <2>1. fine /\ CalmCalls /\ CalmAnswers /\ CalmRows
    BY <1>1, <1>4 DEF Calmly, Watched
  <2>2. CalmCalls'
    BY <1>1, <2>1, Places DEF CalmCalls, Past, Through, Watched
  <2>3. CalmAnswers'
    BY <1>1, <2>1, Places DEF CalmAnswers, Past, Watched
  <2>4. CalmRows'
    BY <1>1, <2>1, Places DEF CalmRows, Sends, Past, Watched
  <2> QED BY <1>1, <2>1, <2>2, <2>3, <2>4
<1>5. TransferInvariant'
  BY <1>1, SeesTypes
<1> QED BY <1>2, <1>3, <1>4, <1>5 DEF Kept, Calmly

LEMMA SeeRecoveryKept ==
  ASSUME DrillInvariant, SeeRecovery
  PROVE  TransferInvariant' /\ Kept
<1>1. /\ TransferInvariant /\ Course /\ Passing /\ (calm => Calmly)
      /\ Watched /\ UNCHANGED <<first, before, arms, mode>> /\ UNCHANGED vars
  BY DEF DrillInvariant, Calmly, SeeRecovery, Watched, looked, vars
<1>2. step = 14 =>
        /\ alive /\ Polled(row[Crashed] = "SUCCEEDED")
        /\ IF row[Crashed] = "SUCCEEDED" /\ Crashed \in looked
           THEN Onward
           ELSE fine' = FALSE /\ step' = Place.done
  BY Places DEF SeeRecovery, At
<1>3. /\ step \in {14, 16, 17, 18}
      /\ fine' => fine
      /\ \/ step' = step + 1
         \/ step = 14 /\ step' = 19 /\ ~fine'
  <2>1. step \in {14, 16, 17, 18}
    BY Places DEF SeeRecovery, At
  <2>2. CASE step = 14
    BY <1>2, <2>2, Places DEF Onward
  <2>3. CASE step # 14
    BY <2>1, <2>3, Places DEF SeeRecovery, At, Onward, OnwardWith
  <2> QED BY <2>1, <2>2, <2>3
<1>4. step = 14 /\ fine' => moved[Crashed] = 1
  <2>1. step = 14 /\ fine' => row[Crashed] = "SUCCEEDED"
    BY <1>2
  <2>2. KeyInvariant(Crashed)
    BY <1>1, Names DEF TransferInvariant
  <2> QED BY <2>1, <2>2 DEF KeyInvariant
<1>5. Course'
  BY <1>1, <1>3, Names, Places, Starts, StartsThen DEF Course, Past, Through, Watched
<1>6. Passing'
  BY <1>1, <1>3, <1>4, Places DEF Passing, Past, Through, Watched
<1>7. ASSUME calm' PROVE fine' /\ CalmCalls' /\ CalmAnswers' /\ CalmRows'
  <2>1. calm /\ fine /\ CalmCalls /\ CalmAnswers /\ CalmRows
    BY <1>1, <1>7 DEF Calmly, Watched
  <2>2. fine'
    <3>1. CASE step = 14
      <4>1. row[Crashed] = "SUCCEEDED"
        BY <1>2, <2>1, <3>1 DEF Polled
      <4>2. Through(sending) /\ delay[sending]
        BY <2>1, <3>1, Names, Places DEF CalmCalls, Past
      <4>3. Crashed \in looked
        BY <1>1, <4>1, <4>2, Names DEF TransferInvariant, CallInvariant, Settled
      <4> QED BY <1>2, <2>1, <3>1, <4>1, <4>3 DEF Onward
    <3>2. CASE step = 16
      <4>1. Onward
        BY <3>2, Places DEF SeeRecovery, At
      <4> QED BY <2>1, <4>1 DEF Onward
    <3>3. CASE step = 17
      <4>1. /\ Heard(after)
            /\ OnwardWith(answer[after] \notin {"ERROR", "CONFLICT"} /\ mode.transfer_posts = before)
        BY <3>3, Places DEF SeeRecovery, At
      <4>2. answer[after] \notin {"ERROR", "CONFLICT"}
        BY <2>1 DEF CalmAnswers
      <4>3. mode.transfer_posts = before
        BY <2>1, <3>3, Places DEF CalmRows, Sends, Past
      <4> QED BY <2>1, <4>1, <4>2, <4>3 DEF OnwardWith
    <3>4. CASE step = 18
      <4>1. /\ Polled(outbox[Crashed] = "PUBLISHED" /\ Crashed \in shown)
            /\ OnwardWith(outbox[Crashed] = "PUBLISHED" /\ Crashed \in shown)
        BY <3>4, Places DEF SeeRecovery, At
      <4> QED BY <2>1, <4>1 DEF Polled, OnwardWith
    <3> QED BY <1>3, <3>1, <3>2, <3>3, <3>4
  <2>3. step' = step + 1
    BY <1>3, <2>2
  <2>4. CalmCalls'
    BY <1>1, <1>3, <2>1, <2>3, Places DEF CalmCalls, Past, Through, Watched
  <2>5. CalmAnswers'
    <3>1. step = 14 => alive
      BY <1>2
    <3> QED BY <1>1, <1>3, <2>1, <2>3, <3>1, Places DEF CalmAnswers, Past, Watched
  <2>6. CalmRows'
    BY <1>1, <1>3, <2>1, <2>3, Places DEF CalmRows, Sends, Past, Watched
  <2> QED BY <2>2, <2>4, <2>5, <2>6
<1>8. TransferInvariant'
  BY <1>1, SeesTypes
<1> QED BY <1>5, <1>6, <1>7, <1>8 DEF Kept, Calmly

-----------------------------------------------------------------------------
(***************************************************************************)
(* The invariant holds.                                                    *)
(***************************************************************************)
LEMMA TestKept ==
  ASSUME DrillInvariant, Test
  PROVE  TransferInvariant' /\ Kept
BY ArmDelayKept, SeeTimeoutKept, ArmKillKept, SeeForwardedKept, SeeInProgressKept,
   SayReadyKept, SeeRecoveryKept, ReadCountKept DEF Test

LEMMA ServesKept ==
  ASSUME DrillInvariant, ~Slow, Serves, Smooth, UNCHANGED test
  PROVE  Kept
<1>1. ASSUME NEW c \in Call, MarkProcessing(c) \/ Save(c) \/ GiveUp(c) \/ WakeLate(c)
      PROVE  Kept
  BY <1>1, MarkKept, SaveKept, GiveUpKept, WakeKept
<1>2. ASSUME NEW h \in Handler, Proxy(h) \/ ReplyInVain(h) PROVE Kept
  <2>1. CASE h \in Key
    BY <1>2, <2>1, RestKept
  <2>2. CASE h \in Call
    <3>1. CASE ReplyInVain(h)
      BY <2>2, <3>1, WakeKept
    <3>2. CASE Proxy(h)
      BY <2>2, <3>2, AnswerKept, FailKept, EnterKept DEF Proxy
    <3> QED BY <1>2, <3>1, <3>2
  <2> QED BY <2>1, <2>2 DEF Handler
<1>3. ASSUME NEW k \in Key, \/ Lookup(k) \/ Resolve(k) \/ LookupFails(k)
                            \/ Publish(k) \/ Exhaust(k) \/ MarkPublished(k) \/ Consume(k)
      PROVE  Kept
  BY <1>3, LookupKept, ResolveKept, RestKept
<1> QED BY <1>1, <1>2, <1>3 DEF Serves

LEMMA SystemKept ==
  ASSUME DrillInvariant, ~Slow, System
  PROVE  TransferInvariant' /\ Kept
<1>1. UNCHANGED test
  BY DEF System
<1>2. ASSUME NEW c \in Call, Started(c), Send(c) \/ SendAgain(c) \/ SendInVain(c)
      PROVE  Kept
  BY <1>1, <1>2, SendKept, SendAgainKept, SendInVainKept
<1>3. Kept
  BY <1>1, <1>2, ServesKept, RestartKept DEF System
<1>4. Next
  BY DEF System, Next, Calls, Drives
<1> QED BY <1>3, <1>4, NextStep DEF DrillInvariant

LEMMA DrillInitHolds == DrillInit => DrillInvariant
<1> SUFFICES ASSUME DrillInit PROVE DrillInvariant
  OBVIOUS
<1>1. TransferInvariant /\ TypeOK
  BY InitHolds DEF DrillInit, TransferInvariant
<1>2. /\ step = 1 /\ fine /\ ~mode.ready_to_kill
      /\ \A c \in Call : stage[c] = "idle" /\ verdict[c] = "none" /\ answer[c] = "none"
      /\ \A k \in Key : row[k] = "none"
      /\ looked = {} /\ asks = {} /\ alive /\ kills = 0 /\ arms = 0
  <2>1. step = 1 /\ fine /\ ~mode.ready_to_kill
    BY DEF DrillInit, Init, ProxyInit
  <2>2. \A c \in Call : stage[c] = "idle" /\ verdict[c] = "none" /\ answer[c] = "none"
    BY DEF DrillInit, Init, ProxyInit, Handler
  <2>3. (\A k \in Key : row[k] = "none") /\ looked = {} /\ asks = {}
    BY DEF DrillInit, Init, looked
  <2>4. alive /\ kills = 0 /\ arms = 0
    BY DEF DrillInit, Init
  <2> QED BY <2>1, <2>2, <2>3, <2>4
<1>3. Course
  BY <1>2, Names, Places DEF Course, Past
<1>4. Passing
  BY <1>2, Places DEF Passing, Past
<1>5. CalmCalls
  BY <1>2, Names, Places DEF CalmCalls, Past, Through
<1>6. CalmAnswers
  BY <1>2, Names, Places DEF CalmAnswers, Past
<1>7. CalmRows
  BY <1>2, Names, Places DEF CalmRows, Sends, Past
<1> QED BY <1>1, <1>2, <1>3, <1>4, <1>5, <1>6, <1>7 DEF DrillInvariant

LEMMA DrillStutters ==
  ASSUME DrillInvariant, UNCHANGED drillVars
  PROVE  DrillInvariant'
<1>1. TransferInvariant'
  BY NextStep DEF DrillInvariant, drillVars, vars
<1>2. Course' /\ Passing'
  BY DEF DrillInvariant, drillVars, Course, Passing, Past, Started, Through
<1>3. calm' => fine' /\ CalmCalls' /\ CalmAnswers' /\ CalmRows'
  BY DEF DrillInvariant, drillVars, CalmCalls, CalmAnswers, CalmRows, Sends, looked, Past, Through
<1> QED BY <1>1, <1>2, <1>3 DEF DrillInvariant

LEMMA DrillStep ==
  ASSUME DrillInvariant, ~Slow, [DrillNext]_drillVars
  PROVE  DrillInvariant'
<1>1. CASE Test
  BY <1>1, TestKept DEF Kept, Calmly, DrillInvariant
<1>2. CASE System
  BY <1>2, SystemKept DEF Kept, Calmly, DrillInvariant
<1>3. CASE KillWhenReady
  <2>1. Next
    BY <1>3 DEF KillWhenReady, Next, Drives
  <2>2. TransferInvariant'
    BY <2>1, NextStep DEF DrillInvariant
  <2> QED BY <1>3, <2>2, KillKept DEF Kept, Calmly, DrillInvariant
<1>4. CASE UNCHANGED drillVars
  BY <1>4, DrillStutters
<1> QED BY <1>1, <1>2, <1>3, <1>4 DEF DrillNext

\* With a mock bank that answers in time the stages run as Course says; a
\* course in which every check has passed is as Passing says; one in which
\* nothing but the kill fails finds the calls and rows as the Calm parts say.
THEOREM DrillInvariantHolds ==
  ASSUME ~Slow
  PROVE  DrillSpec => []DrillInvariant
<1>1. DrillInvariant /\ [DrillNext]_drillVars => DrillInvariant'
  BY DrillStep
<1> QED BY <1>1, DrillInitHolds, PTL DEF DrillSpec

\* A crash stage all of whose checks have passed (and which saw the
\* forwarded flag) has killed Banking between the mock bank's execution of
\* the transfer and its save: rerun-e2e.py, crash.
THEOREM PassedStagesHit ==
  ASSUME ~Slow
  PROVE  DrillSpec => []PassedMeansHit
<1>1. DrillInvariant => PassedMeansHit
  BY Names, Places DEF DrillInvariant, Passing, PassedMeansHit, At, Past
<1> QED BY <1>1, DrillInvariantHolds, PTL

\* As long as nothing fails but what the test makes fail, none of its checks
\* fails, in whatever order the calls, the proxy's threads, reconciliation
\* and the test's own reads come: full-e2e.py, timeout; rerun-e2e.py, crash.
THEOREM NoAlarmIsFalse ==
  ASSUME ~Slow
  PROVE  DrillSpec => []NoFalseAlarm
<1>1. DrillInvariant => NoFalseAlarm
  BY DEF DrillInvariant, NoFalseAlarm
<1> QED BY <1>1, DrillInvariantHolds, PTL
=============================================================================
