--------------------------- MODULE ExchangeProofs ---------------------------
(***************************************************************************)
(* Proofs about Exchange, for any requests, services, bounds and number of *)
(* retries.                                                                *)
(***************************************************************************)
EXTENDS Exchange, TLAPS

-----------------------------------------------------------------------------
(***************************************************************************)
(* Types.                                                                  *)
(***************************************************************************)
\* Appending to a sequence, and what is then in it.
LEMMA AppendParts ==
  ASSUME NEW S, NEW s \in Seq(S), NEW e \in S, NEW t, t = Append(s, e)
  PROVE  /\ t \in Seq(S)
         /\ \A i \in 1 .. Len(t) : t[i] = e \/ (i \in 1 .. Len(s) /\ t[i] = s[i])
OBVIOUS

\* Sending leaves an empty queue, and what the module owes grows by at most
\* the request that was sent.
LEMMA SendStep ==
  ASSUME TypeOK, NEW r \in Requests, Send(r)
  PROVE  /\ queue' = <<>>
         /\ owed' \in Seq(Requests)
         /\ \A i \in 1 .. Len(owed') :
              owed'[i] = r \/ (i \in 1 .. Len(owed) /\ owed'[i] = owed[i])
<1>1. queue' = <<>> /\ owed' \in Taken(r)
  BY DEF Send, Cleared
<1>2. owed' = owed \/ owed' = Append(owed, r)
  <2>1. CASE Len(owed) < MaxOwed
    BY <1>1, <2>1 DEF Taken
  <2>2. CASE ~(Len(owed) < MaxOwed)
    BY <1>1, <2>2 DEF Taken
  <2>3. QED BY <2>1, <2>2
<1>3. owed \in Seq(Requests)
  BY DEF TypeOK
<1>4. CASE owed' = owed
  BY <1>1, <1>3, <1>4
<1>5. CASE owed' = Append(owed, r)
  BY <1>1, <1>3, <1>5, AppendParts
<1>6. QED BY <1>2, <1>4, <1>5

\* Before anything has been asked the types hold.
LEMMA TypeInit == Init => TypeOK
<1> SUFFICES ASSUME Init PROVE TypeOK
  OBVIOUS
<1>1. (CHOOSE a \in Asks : TRUE) \in Asks
  BY ExchangeAssumption
<1>2. current \in Requests
  BY <1>1 DEF Init, Requests
<1>3. outcome \in [status : Statuses, to : Requests]
  BY <1>2 DEF Init, Statuses
<1>4. queue \in Seq(Replies) /\ owed \in Seq(Requests)
  BY DEF Init
<1>5. QED BY <1>2, <1>3, <1>4 DEF Init, TypeOK

\* Every step keeps the types.
LEMMA TypeStep == TypeOK /\ [Next]_vars => TypeOK'
<1> SUFFICES ASSUME TypeOK, [Next]_vars PROVE TypeOK'
  OBVIOUS
<1>1. ASSUME NEW a \in Asks, Ask(a) PROVE TypeOK'
  <2> DEFINE r == [n |-> current.n + 1, ask |-> a]
  <2>1. r \in Requests
    BY DEF TypeOK, Requests
  <2>2. Send(r)
    BY <1>1 DEF Ask
  <2>3. queue' = <<>> /\ owed' \in Seq(Requests)
    BY <2>1, <2>2, SendStep
  <2>4. quiet' \in Nat
    BY <1>1, <2>1 DEF Ask, TypeOK, Requests
  <2>5. QED BY <1>1, <2>1, <2>3, <2>4 DEF Ask, TypeOK, Statuses
<1>2. ASSUME NEW kind \in Kinds, Reply(kind) PROVE queue' \in Seq(Replies)
  <2>1. Head(owed) \in Requests
    BY <1>2 DEF Reply, TypeOK
  <2>2. QED BY <1>2, <2>1 DEF Reply, TypeOK, Replies
<1>3. CASE Module
  <2>1. CASE Answer
    BY <1>2, <2>1 DEF Answer, Reply, TypeOK, clientVars, historyVars
  <2>2. CASE Pending
    BY <1>2, <2>2 DEF Pending, Kinds, TypeOK, clientVars
  <2>3. CASE Ignore
    BY <2>3 DEF Ignore, TypeOK, clientVars, historyVars
  <2>4. QED BY <1>3, <2>1, <2>2, <2>3 DEF Module
<1>4. ASSUME queue # <<>> PROVE Head(queue) \in Replies /\ Tail(queue) \in Seq(Replies)
  BY <1>4 DEF TypeOK
<1>5. CASE Receive
  <2>1. CASE AskAgain
    <3>1. queue' = <<>> /\ owed' \in Seq(Requests)
      BY <2>1, SendStep DEF AskAgain, TypeOK
    <3>2. QED BY <2>1, <3>1 DEF AskAgain, Counted, TypeOK, historyVars
  <2>2. CASE TakeRefusal
    BY <1>4, <2>2 DEF TakeRefusal, Refused, Conclude, TypeOK, Replies, Statuses, historyVars
  <2>3. CASE TakeAnswer
    BY <1>4, <2>3 DEF TakeAnswer, Conclude, TypeOK, Replies, Statuses, historyVars
  <2>4. QED BY <1>5, <2>1, <2>2, <2>3 DEF Receive
<1>6. CASE Timeout
  BY <1>6 DEF Timeout, Conclude, TypeOK, Statuses, lineVars
<1>7. CASE UNCHANGED vars
  BY <1>7 DEF vars, clientVars, lineVars, historyVars, TypeOK
<1>8. QED BY <1>1, <1>3, <1>5, <1>6, <1>7 DEF Next

\* The state of an exchange keeps its types.
THEOREM TypeCorrect == Spec => []TypeOK
<1>1. QED BY TypeInit, TypeStep, PTL DEF Spec

-----------------------------------------------------------------------------
(***************************************************************************)
(* Nothing on the line is older than the last request on a quiet line.     *)
(***************************************************************************)
\* The requests that the module owes an answer to, the replies on their way
\* and the outcome all date from `quiet' or later. A request sent when the
\* module owes nothing moves `quiet' up to itself: it can do so because the
\* receive queue has just been cleared.
SinceQuiet ==
  /\ current.n >= quiet
  /\ \A i \in 1 .. Len(owed) : owed[i].n \in quiet .. current.n
  /\ \A i \in 1 .. Len(queue) : queue[i].to.n \in quiet .. current.n
  /\ outcome.to.n \in quiet .. current.n

QuietInv == TypeOK /\ SinceQuiet

\* Every step keeps what is on the line that young.
LEMMA QuietStep == QuietInv /\ [Next]_vars => SinceQuiet'
<1> SUFFICES ASSUME QuietInv, [Next]_vars PROVE SinceQuiet'
  OBVIOUS
<1>1. TypeOK
  BY DEF QuietInv
<1>2. ASSUME NEW a \in Asks, Ask(a) PROVE SinceQuiet'
  <2> DEFINE r == [n |-> current.n + 1, ask |-> a]
  <2>1. r \in Requests
    BY <1>1 DEF TypeOK, Requests
  <2>2. /\ queue' = <<>>
        /\ \A i \in 1 .. Len(owed') :
             owed'[i] = r \/ (i \in 1 .. Len(owed) /\ owed'[i] = owed[i])
    BY <1>1, <1>2, <2>1, SendStep DEF Ask
  <2>3. current' = r /\ outcome'.to = r /\ r.n = current.n + 1 /\ current.n \in Nat
    BY <1>1, <1>2 DEF Ask, TypeOK, Requests
  <2>4. quiet' \in Nat /\ quiet' <= r.n
    BY <1>1, <1>2, <2>3 DEF Ask, QuietInv, SinceQuiet, TypeOK
  <2>5. \A i \in 1 .. Len(owed') : owed'[i].n \in quiet' .. r.n
    <3>1. CASE owed = <<>>
      BY <2>2, <2>3, <2>4, <3>1
    <3>2. CASE owed # <<>>
      <4>1. quiet' = quiet
        BY <1>2, <3>2 DEF Ask
      <4>2. \A i \in 1 .. Len(owed) : owed[i].n \in quiet .. r.n
        BY <1>1, <2>3 DEF QuietInv, SinceQuiet, TypeOK
      <4>3. QED BY <2>2, <2>3, <2>4, <4>1, <4>2
    <3>3. QED BY <3>1, <3>2
  <2>6. QED BY <2>2, <2>3, <2>4, <2>5 DEF SinceQuiet
<1>3. ASSUME NEW kind \in Kinds, Reply(kind)
      PROVE  \A i \in 1 .. Len(queue') : queue'[i].to.n \in quiet .. current.n
  BY <1>1, <1>3 DEF Reply, QuietInv, SinceQuiet, TypeOK
<1>4. ASSUME owed # <<>>, owed' = Tail(owed)
      PROVE  \A i \in 1 .. Len(owed') : owed'[i].n \in quiet .. current.n
  BY <1>1, <1>4 DEF QuietInv, SinceQuiet, TypeOK
<1>5. CASE Module
  <2>1. CASE Answer
    BY <1>3, <1>4, <2>1 DEF Answer, Reply, QuietInv, SinceQuiet, clientVars, historyVars
  <2>2. CASE Pending
    BY <1>3, <2>2 DEF Pending, Kinds, QuietInv, SinceQuiet, clientVars
  <2>3. CASE Ignore
    BY <1>4, <2>3 DEF Ignore, QuietInv, SinceQuiet, clientVars, historyVars
  <2>4. QED BY <1>5, <2>1, <2>2, <2>3 DEF Module
<1>6. ASSUME queue # <<>>, queue' = Tail(queue)
      PROVE  /\ \A i \in 1 .. Len(queue') : queue'[i].to.n \in quiet .. current.n
             /\ Head(queue).to.n \in quiet .. current.n
  BY <1>1, <1>6 DEF QuietInv, SinceQuiet, TypeOK
<1>7. CASE Receive
  <2>1. CASE AskAgain
    <3>1. current \in Requests /\ Send(current)
      BY <1>1, <2>1 DEF AskAgain, TypeOK
    <3>2. /\ queue' = <<>>
          /\ \A i \in 1 .. Len(owed') :
               owed'[i] = current \/ (i \in 1 .. Len(owed) /\ owed'[i] = owed[i])
      BY <1>1, <3>1, SendStep
    <3>3. current.n \in quiet .. current.n
      BY <1>1, <3>1 DEF QuietInv, SinceQuiet, TypeOK, Requests
    <3>4. \A i \in 1 .. Len(owed') : owed'[i].n \in quiet .. current.n
      BY <3>2, <3>3 DEF QuietInv, SinceQuiet
    <3>5. QED BY <2>1, <3>2, <3>4 DEF AskAgain, QuietInv, SinceQuiet, historyVars
  <2>2. CASE TakeRefusal
    BY <1>6, <2>2 DEF TakeRefusal, Conclude, QuietInv, SinceQuiet, historyVars
  <2>3. CASE TakeAnswer
    BY <1>6, <2>3 DEF TakeAnswer, Conclude, QuietInv, SinceQuiet, historyVars
  <2>4. QED BY <1>7, <2>1, <2>2, <2>3 DEF Receive
<1>8. CASE Timeout
  BY <1>1, <1>8 DEF Timeout, Conclude, QuietInv, SinceQuiet, TypeOK, Requests, lineVars
<1>9. CASE UNCHANGED vars
  BY <1>9 DEF vars, clientVars, lineVars, historyVars, QuietInv, SinceQuiet
<1>10. QED BY <1>2, <1>5, <1>7, <1>8, <1>9 DEF Next

\* An answer is never older than the last request sent on a quiet line
\* (what discarding the queue before each request achieves).
THEOREM BackInStep == Spec => []AnswerIsSinceQuiet
<1>1. Init => QuietInv
  BY TypeInit DEF Init, QuietInv, SinceQuiet
<1>2. QuietInv /\ [Next]_vars => QuietInv'
  BY TypeStep, QuietStep DEF QuietInv
<1>3. QuietInv => AnswerIsSinceQuiet
  BY DEF QuietInv, SinceQuiet, AnswerIsSinceQuiet
<1>4. QED BY <1>1, <1>2, <1>3, PTL DEF Spec
-----------------------------------------------------------------------------
(***************************************************************************)
(* Without a timeout and without 0x78 the client and the module stay in    *)
(* step.                                                                   *)
(***************************************************************************)
\* There is at most one thing on the line, the module's debt or its reply; it
\* belongs to the current request, and there is nothing when nobody waits.
OneOnTheLine ==
  /\ \A i \in 1 .. Len(owed) : owed[i] = current
  /\ \A i \in 1 .. Len(queue) : queue[i].to = current /\ queue[i].kind # "pending"
  /\ Len(owed) + Len(queue) <= (IF phase = "idle" THEN 0 ELSE 1)
  /\ outcome.to = current

StepInv == TypeOK /\ (~timedOut /\ ~pended => OneOnTheLine)

\* Every step leaves at most one thing on the line.
LEMMA LineStep == StepInv /\ [Next]_vars /\ ~timedOut' /\ ~pended' => OneOnTheLine'
<1> SUFFICES ASSUME StepInv, [Next]_vars, ~timedOut', ~pended' PROVE OneOnTheLine'
  OBVIOUS
<1>1. ~timedOut /\ ~pended
  BY DEF Next, Ask, Module, Answer, Pending, Ignore, Receive, AskAgain, TakeRefusal,
         TakeAnswer, Timeout, Conclude, vars, clientVars, lineVars, historyVars, StepInv, TypeOK
<1>2. TypeOK /\ OneOnTheLine
  BY <1>1 DEF StepInv
<1>3. Len(owed) \in Nat /\ Len(queue) \in Nat
  BY <1>2 DEF TypeOK
<1>4. ASSUME NEW a \in Asks, Ask(a) PROVE OneOnTheLine'
  <2> DEFINE r == [n |-> current.n + 1, ask |-> a]
  <2>1. r \in Requests
    BY <1>2 DEF TypeOK, Requests
  <2>2. owed = <<>>
    BY <1>2, <1>3, <1>4 DEF Ask, OneOnTheLine, TypeOK
  <2>3. queue' = <<>> /\ (owed' = <<>> \/ owed' = <<r>>)
    BY <1>4, <2>2 DEF Ask, Send, Cleared, Taken
  <2>4. current' = r /\ outcome'.to = r /\ phase' = "waiting"
    BY <1>4 DEF Ask
  <2>5. QED BY <2>3, <2>4 DEF OneOnTheLine
<1>5. ASSUME owed # <<>>, queue # <<>> PROVE FALSE
  BY <1>2, <1>3, <1>5 DEF OneOnTheLine, TypeOK
<1>6. CASE Module
  <2>1. CASE Answer
    <3>1. PICK kind \in Kinds \ {"pending"} : Reply(kind)
      BY <2>1 DEF Answer
    <3> DEFINE m == [to |-> Head(owed), kind |-> kind]
    <3>2. queue = <<>> /\ owed # <<>> /\ queue' = <<m>>
      <4>1. owed # <<>> /\ queue' = Append(queue, m)
        BY <3>1 DEF Reply
      <4>2. queue = <<>>
        BY <1>5, <4>1
      <4>3. Append(<<>>, m) = <<m>>
        OBVIOUS
      <4>4. QED BY <4>1, <4>2, <4>3
    <3>3. Head(owed) = current /\ owed' = <<>> /\ phase # "idle"
      BY <1>2, <1>3, <2>1, <3>2 DEF Answer, OneOnTheLine, TypeOK
    <3>4. QED BY <1>2, <2>1, <3>1, <3>2, <3>3 DEF Answer, OneOnTheLine, clientVars
  <2>2. CASE Ignore
    <3>1. owed' = <<>> /\ queue' = <<>>
      BY <1>2, <1>3, <1>5, <2>2 DEF Ignore, OneOnTheLine, TypeOK
    <3>2. QED BY <1>2, <2>2, <3>1 DEF Ignore, OneOnTheLine, clientVars, TypeOK
  <2>3. CASE Pending
    BY <2>3 DEF Pending
  <2>4. QED BY <1>6, <2>1, <2>2, <2>3 DEF Module
<1>7. ASSUME queue # <<>>
      PROVE  /\ Head(queue).to = current /\ Head(queue).kind # "pending"
             /\ owed = <<>> /\ Tail(queue) = <<>>
  BY <1>2, <1>3, <1>5, <1>7 DEF OneOnTheLine, TypeOK
<1>8. CASE Receive
  <2>1. CASE AskAgain
    BY <1>7, <2>1 DEF AskAgain, WaitsAgain
  <2>2. CASE TakeRefusal
    <3>1. /\ queue' = <<>> /\ owed' = <<>>
          /\ outcome'.to = current /\ current' = current
      BY <1>7, <2>2 DEF TakeRefusal, Conclude
    <3>2. QED BY <3>1 DEF OneOnTheLine
  <2>3. CASE TakeAnswer
    <3>1. /\ queue' = <<>> /\ owed' = <<>>
          /\ outcome'.to = current /\ current' = current
      BY <1>7, <2>3 DEF TakeAnswer, Conclude
    <3>2. QED BY <3>1 DEF OneOnTheLine
  <2>4. QED BY <1>8, <2>1, <2>2, <2>3 DEF Receive
<1>9. CASE Timeout
  BY <1>9 DEF Timeout
<1>10. CASE UNCHANGED vars
  BY <1>2, <1>10 DEF vars, clientVars, lineVars, OneOnTheLine
<1>11. QED BY <1>4, <1>6, <1>8, <1>9, <1>10 DEF Next

\* As long as nothing has timed out and no module has asked for time, every
\* request gets its own answer, whether the caller compares identifiers or not.
THEOREM StaysInStep == Spec => []InStep
<1>1. Init => StepInv
  BY TypeInit DEF Init, StepInv, OneOnTheLine
<1>2. StepInv /\ [Next]_vars => StepInv'
  BY TypeStep, LineStep DEF StepInv
<1>3. ASSUME StepInv PROVE InStep
  <2>1. CASE ~timedOut /\ ~pended
    <3>1. TypeOK /\ OneOnTheLine
      BY <1>3, <2>1 DEF StepInv
    <3>2. phase = "idle" => queue = <<>> /\ owed = <<>>
      BY <3>1 DEF OneOnTheLine, TypeOK
    <3>3. QED BY <3>1, <3>2 DEF InStep, OneOnTheLine
  <2>2. CASE ~(~timedOut /\ ~pended)
    BY <2>2 DEF InStep
  <2>3. QED BY <2>1, <2>2
<1>4. QED BY <1>1, <1>2, <1>3, PTL DEF Spec
=============================================================================
