--------------------------- MODULE SharingProofs ----------------------------
(***************************************************************************)
(* For any limits, modules and ranges, and any mix of silence, garbled     *)
(* replies, refusals and values: an identifier sweep gives up after just   *)
(* as many unanswered requests in a row as its limits say; what an address *)
(* sweep finds answered it, but for late answers and other traffic; and of *)
(* what is published, no value read from the car is a part. Interrupted    *)
(* and resumed, an identifier sweep is as one that was not.                *)
(***************************************************************************)
EXTENDS Sharing, SequenceTheorems, WellFoundedInduction, TLAPS

\* The report is a record and its rows are a sequence.
ReportShape ==
  /\ scan = [pair |-> scan.pair, todo |-> scan.todo, rows |-> scan.rows, errors |-> scan.errors,
             silence |-> scan.silence, aborted |-> scan.aborted, vin |-> scan.vin,
             runs |-> scan.runs]
  /\ scan.rows \in Seq({scan.rows[i] : i \in DOMAIN scan.rows})
  /\ scan.errors \in Nat /\ scan.silence \in Nat

\* The counter of silence is the length of the unanswered end of the rows, and that of errors
\* is never ahead of it: what makes the property inductive.
SilenceIsTheEnd ==
  /\ scan.errors <= scan.silence /\ scan.silence <= Len(scan.rows)
  /\ \A i \in Len(scan.rows) - scan.silence + 1 .. Len(scan.rows) : ~Answered(scan.rows[i])
  /\ scan.silence < Len(scan.rows) => Answered(scan.rows[Len(scan.rows) - scan.silence])

\* Why it gave up, if it did.
LimitsKept ==
  /\ scan.aborted = "no" => scan.errors < MaxErrors /\ scan.silence < MaxSilence
  /\ scan.aborted = "errors" => scan.errors >= MaxErrors
  /\ scan.aborted = "silence" => scan.silence >= MaxSilence

CountInv == ReportShape /\ SilenceIsTheEnd /\ LimitsKept

LEMMA CountInit == SharingInit => CountInv
BY SweepAssumption DEF SharingInit, Init, NoScan, CountInv, ReportShape, SilenceIsTheEnd, LimitsKept

LEMMA CountStutters == CountInv /\ UNCHANGED scan => CountInv'
BY DEF CountInv, ReportShape, SilenceIsTheEnd, LimitsKept, Answered

\* A sweep begins with no rows.
LEMMA CountBegun ==
  ASSUME NEW pair, NEW vin, NEW skip, Begun(pair, vin, skip)
  PROVE  CountInv'
<1>1. scan' = [pair |-> pair, todo |-> Iterate(skip), rows |-> <<>>, errors |-> 0, silence |-> 0,
               aborted |-> "no", vin |-> vin, runs |-> scan.runs + 1]
  BY DEF Begun, NoScan
<1>2. QED BY <1>1, SweepAssumption DEF CountInv, ReportShape, SilenceIsTheEnd, LimitsKept

\* One more row: the unanswered end grows by it, or is gone.
LEMMA CountCounted ==
  ASSUME CountInv, NEW row, Counted(row)
  PROVE  CountInv'
<1> DEFINE e == IF row.status = "error" THEN scan.errors + 1 ELSE 0
           s == IF Answered(row) THEN 0 ELSE scan.silence + 1
           a == IF e >= MaxErrors THEN "errors" ELSE IF s >= MaxSilence THEN "silence" ELSE "no"
           r == Append(scan.rows, row)
           n == Len(scan.rows)
<1>1. /\ scan.errors \in Nat /\ scan.silence \in Nat
      /\ scan.errors <= scan.silence /\ scan.silence <= n
      /\ \A i \in n - scan.silence + 1 .. n : ~Answered(scan.rows[i])
      /\ scan.silence < n => Answered(scan.rows[n - scan.silence])
  BY DEF CountInv, ReportShape, SilenceIsTheEnd
<1>2. scan' = [scan EXCEPT !.todo = Tail(@), !.rows = r, !.errors = e, !.silence = s, !.aborted = a]
  BY DEF Counted
<1> HIDE DEF r, e, s, a
<1>3. scan' = [pair |-> scan.pair, todo |-> Tail(scan.todo), rows |-> r, errors |-> e,
               silence |-> s, aborted |-> a, vin |-> scan.vin, runs |-> scan.runs]
  <2>1. scan = [pair |-> scan.pair, todo |-> scan.todo, rows |-> scan.rows,
                errors |-> scan.errors, silence |-> scan.silence, aborted |-> scan.aborted,
                vin |-> scan.vin, runs |-> scan.runs]
    BY DEF CountInv, ReportShape
  <2> QED BY <1>2, <2>1
<1>4. /\ n \in Nat /\ Len(r) = n + 1 /\ r[n + 1] = row
      /\ \A i \in 1 .. n : r[i] = scan.rows[i]
      /\ r \in Seq({r[i] : i \in DOMAIN r})
  <2> DEFINE S == {scan.rows[i] : i \in DOMAIN scan.rows}
             T == S \cup {row}
  <2>1. scan.rows \in Seq(S)
    BY DEF CountInv, ReportShape
  <2> HIDE DEF S
  <2>2. scan.rows \in Seq(T)
    BY <2>1
  <2> HIDE DEF T
  <2>3. row \in T
    BY DEF T
  <2>4. n \in Nat /\ r \in Seq(T) /\ Len(r) = n + 1 /\ r[n + 1] = row
        /\ \A i \in 1 .. n : r[i] = scan.rows[i]
    BY <2>2, <2>3 DEF r
  <2>5. DOMAIN r = 1 .. Len(r) /\ r = [i \in 1 .. Len(r) |-> r[i]]
    BY <2>4
  <2>6. r \in Seq({r[i] : i \in DOMAIN r})
    BY <2>4, <2>5
  <2> QED BY <2>4, <2>6
<1>5. /\ e \in Nat /\ s \in Nat /\ e <= s /\ s <= n + 1
      /\ s = 0 \/ s = scan.silence + 1
      /\ s = 0 <=> Answered(row)
  <2>1. CASE Answered(row)
    BY <2>1, <1>4 DEF e, s, Answered
  <2>2. CASE ~Answered(row)
    BY <2>2, <1>1, <1>4 DEF e, s
  <2> QED BY <2>1, <2>2
<1>6. \A i \in n + 1 - s + 1 .. n + 1 : ~Answered(r[i])
  <2> SUFFICES ASSUME NEW i \in n + 1 - s + 1 .. n + 1 PROVE ~Answered(r[i])
    OBVIOUS
  <2>1. s = scan.silence + 1 /\ ~Answered(row)
    BY <1>4, <1>5
  <2>2. CASE i = n + 1
    BY <2>1, <2>2, <1>4
  <2>3. CASE i # n + 1
    <3>1. i \in n - scan.silence + 1 .. n /\ i \in 1 .. n
      <4> DEFINE k == scan.silence
      <4>1. n \in Nat /\ k \in Nat /\ k <= n /\ s = k + 1
        BY <2>1, <1>1, <1>4
      <4> HIDE DEF k, n
      <4>2. i \in n - k + 1 .. n /\ i \in 1 .. n
        BY <4>1, <2>3
      <4> QED BY <4>2 DEF k, n
    <3> QED BY <3>1, <1>1, <1>4
  <2> QED BY <2>2, <2>3
<1>7. s < n + 1 => Answered(r[n + 1 - s])
  <2> SUFFICES ASSUME s < n + 1 PROVE Answered(r[n + 1 - s])
    OBVIOUS
  <2>1. CASE s = 0
    BY <2>1, <1>4, <1>5
  <2>2. CASE s = scan.silence + 1
    <3>1. n + 1 - s = n - scan.silence /\ n - scan.silence \in 1 .. n /\ scan.silence < n
      <4> DEFINE k == scan.silence
      <4>1. n \in Nat /\ k \in Nat /\ k <= n /\ s = k + 1
        BY <2>2, <1>1, <1>4
      <4> HIDE DEF k, n
      <4>2. n + 1 - s = n - k /\ n - k \in 1 .. n /\ k < n
        BY <4>1
      <4> QED BY <4>2 DEF k, n
    <3> QED BY <3>1, <1>1, <1>4
  <2> QED BY <2>1, <2>2, <1>5
<1>8. /\ a = "no" => e < MaxErrors /\ s < MaxSilence
      /\ a = "errors" => e >= MaxErrors
      /\ a = "silence" => s >= MaxSilence
  BY <1>5, SweepAssumption DEF a
<1>9. ReportShape'
  BY <1>3, <1>4, <1>5 DEF ReportShape
<1>10. SilenceIsTheEnd'
  <2>1. scan'.rows = r /\ scan'.errors = e /\ scan'.silence = s /\ Len(scan'.rows) = n + 1
    BY <1>3, <1>4
  <2>2. scan'.errors <= scan'.silence /\ scan'.silence <= Len(scan'.rows)
    BY <2>1, <1>4, <1>5
  <2>3. ASSUME NEW i \in Len(scan'.rows) - scan'.silence + 1 .. Len(scan'.rows)
        PROVE  ~Answered(scan'.rows[i])
    <3>1. i \in n + 1 - s + 1 .. n + 1 /\ scan'.rows[i] = r[i]
      BY <2>1, <1>4, <1>5
    <3>2. ~Answered(r[i])
      BY <3>1, <1>6
    <3> QED BY <3>1, <3>2
  <2>4. ASSUME scan'.silence < Len(scan'.rows)
        PROVE  Answered(scan'.rows[Len(scan'.rows) - scan'.silence])
    <3>1. Len(scan'.rows) - scan'.silence = n + 1 - s /\ s < n + 1
      <4> DEFINE k == scan'.silence
                 m == Len(scan'.rows)
      <4>1. k = s /\ m = n + 1 /\ k < m /\ s \in Nat /\ n \in Nat
        BY <2>1, <2>4, <1>4, <1>5
      <4> HIDE DEF k, m
      <4>2. m - k = n + 1 - s /\ s < n + 1
        BY <4>1
      <4> QED BY <4>2 DEF k, m
    <3>2. Answered(r[n + 1 - s])
      BY <3>1, <1>7
    <3>3. scan'.rows[Len(scan'.rows) - scan'.silence] = r[n + 1 - s]
      BY <3>1, <2>1
    <3> QED BY <3>2, <3>3
  <2> QED BY <2>2, <2>3, <2>4 DEF SilenceIsTheEnd, Answered
<1>11. LimitsKept'
  BY <1>3, <1>8 DEF LimitsKept
<1> QED BY <1>9, <1>10, <1>11 DEF CountInv

LEMMA CountStep == CountInv /\ [SharingNext]_allvars => CountInv'
<1> SUFFICES ASSUME CountInv, [SharingNext]_allvars PROVE CountInv' OBVIOUS
<1>1. CASE AddressNext
  <2>1. UNCHANGED scan
    BY <1>1 DEF AddressNext, Listen, Skip, ProbeFails, PassOver, Book, Close, EndSweep, Stop, Probe,
      Arrive, Noise
  <2> QED BY <2>1, CountStutters
<1>2. ASSUME NEW m, NEW vin, Begin(m, vin) PROVE CountInv'
  BY <1>2, CountBegun DEF Begin
<1>3. ASSUME NEW vin, Resume(vin) PROVE CountInv'
  BY <1>3, CountBegun DEF Resume
<1>4. CASE AskAnswered \/ AskUnanswered \/ AskGarbled
  BY <1>4, CountCounted DEF AskAnswered, AskUnanswered, AskGarbled, Observed
<1>5. CASE Halt
  BY <1>5 DEF Halt, CountInv, ReportShape, SilenceIsTheEnd, LimitsKept, Answered
<1>6. CASE Finish \/ Kill
  BY <1>6, CountStutters DEF Finish, Kill
<1>7. ASSUME NEW state, LineTurns(state) PROVE CountInv'
  BY <1>7, CountStutters DEF LineTurns
<1>8. ASSUME NEW vin, Again(vin) PROVE CountInv'
  BY <1>8, CountBegun DEF Again
<1>9. ASSUME WriteReport \/ Share \/ (\E anonymise \in BOOLEAN : Write(anonymise))
      PROVE  CountInv'
  BY <1>9, CountStutters DEF WriteReport, Share, Write, vars
<1>10. CASE UNCHANGED allvars
  BY <1>10, CountStutters DEF allvars, vars
<1> QED BY <1>1, <1>2, <1>3, <1>4, <1>5, <1>6, <1>7, <1>8, <1>9, <1>10 DEF SharingNext, DidNext

LEMMA CountInvariant == Spec => []CountInv
BY CountInit, CountStep, PTL DEF Spec

\* It gives up neither before its limits nor after them (didscan.py:257-286).
THEOREM GivesUpTheorem == Spec => []GivesUpInTime
<1>1. CountInv => GivesUpInTime
  <2> SUFFICES ASSUME CountInv PROVE GivesUpInTime OBVIOUS
  <2> USE DEF CountInv, ReportShape, SilenceIsTheEnd, LimitsKept, Unanswered
  <2>0. MaxErrors \in Nat \ {0} /\ MaxSilence \in Nat \ {0} BY SweepAssumption
  <2>1. scan.aborted = "silence" => Unanswered(MaxSilence) BY <2>0
  <2>2. scan.aborted = "errors" => Unanswered(MaxErrors) BY <2>0
  <2>3. ASSUME scan.aborted = "no", Unanswered(MaxSilence) PROVE FALSE
    <3> DEFINE i == Len(scan.rows) - scan.silence
    <3>1. i \in Len(scan.rows) - MaxSilence + 1 .. Len(scan.rows) /\ Answered(scan.rows[i])
      BY <2>0, <2>3
    <3> QED BY <3>1, <2>3
  <2> QED BY <2>1, <2>2, <2>3 DEF GivesUpInTime
<1> QED BY <1>1, CountInvariant, PTL

-----------------------------------------------------------------------------
(* What the address sweep finds. *)

\* Frames of a module, in answer to a probe of its own address; and other traffic.
Genuine(f, n) == f.id = Response[n] /\ ~f.ext /\ f.probe = Request[n]
Answer(f)     == \E n \in Modules : Genuine(f, n)
Foreign(f)    == \E b \in Broadcast : f.id = b.id /\ f.ext = b.ext

\* What the sender is handed of its own probe is not waiting for anything.
AnswersWaiting == {heard[i].id : i \in {j \in DOMAIN heard : heard[j].probe # 0}}
Booked(n) == \E m \in modules : m.req = Request[n] /\ m.rsp = Response[n]
Excused(n) == Response[n] \in overdue \cup missed \cup AnswersWaiting \cup {f.id : f \in coming}

FrameType == [id : Ids, ext : BOOLEAN, negative : BOOLEAN, probe : {0} \cup Low .. High]

SweepOK ==
  /\ stage \in {"listen", "probe", "window", "swept", "scan", "killed", "scanned", "written", "shared"}
  /\ next \in Low .. High + 1 /\ stopped \in BOOLEAN
  /\ ambient \subseteq Ids /\ overdue \subseteq Ids /\ missed \subseteq Ids
  /\ coming \subseteq UNION {Answers(a) : a \in Low .. High}
  /\ heard \in Seq(FrameType)
  /\ modules \subseteq [req : Low .. High, rsp : Ids, negative : BOOLEAN]

\* When a window is open, what was on its way to it is accounted for, and what was heard in it is
\* the probe itself, an answer to it, an overdue answer, or other traffic.
WindowOpen ==
  stage = "window" =>
    /\ Window \in Low .. High \ Skipped
    /\ \A f \in coming : f.probe = Window \/ f.id \in overdue
    /\ \A i \in DOMAIN heard :
         \/ heard[i].id = Window /\ heard[i].probe = 0
         \/ Foreign(heard[i]) /\ heard[i].probe = 0
         \/ Answer(heard[i]) /\ (heard[i].probe = Window \/ heard[i].id \in overdue)

\* Whoever was probed was booked or has an excuse.
ProbedFound ==
  \A n \in Modules : Request[n] # Functional /\ Request[n] < next => Booked(n) \/ Excused(n)

Stages ==
  /\ stage = "listen" => next = Low /\ coming = {} /\ heard = <<>> /\ modules = {}
  /\ stage = "swept" => stopped \/ next > High
  /\ stage \notin {"listen", "probe", "window", "swept"} => next = Low /\ modules = {}

SweepInv ==
  /\ SweepOK /\ (\A f \in coming : Answer(f)) /\ WindowOpen /\ ProbedFound /\ Stages
  /\ ambient \subseteq {b.id : b \in Broadcast}
  /\ \A m \in modules : Right(m) \/ m.rsp \in overdue \/ m.rsp \in Unheard

LEMMA AddressFacts ==
  /\ Low \in Nat \ {0} /\ High \in Nat /\ Functional \in Low .. High
  /\ \A n \in Modules : Request[n] \in Low .. High /\ Response[n] \in Ids /\ Response[n] # Request[n]
  /\ \A m, n \in Modules : Response[m] = Response[n] => m = n
  /\ \A b \in Broadcast : b.id \in Ids /\ b.ext \in BOOLEAN /\ \A n \in Modules : b.id # Response[n]
BY SweepAssumption DEF Ids

\* What the modules answer to a probe, which is not sent to the broadcast address.
LEMMA AnswersAre ==
  ASSUME NEW a \in Low .. High \ Skipped
  PROVE  /\ \A f \in Answers(a) : f \in FrameType /\ Answer(f) /\ f.probe = a
         /\ \A n \in Modules : Request[n] = a => \E f \in Answers(a) : f.id = Response[n]
<1>1. a # Functional BY DEF Skipped
<1>2. ASSUME NEW f \in Answers(a) PROVE f \in FrameType /\ Answer(f) /\ f.probe = a
  <2>1. PICK m \in Answerers(a) : f = [id |-> Response[m], ext |-> FALSE, negative |-> m \in Refusing, probe |-> a]
    BY DEF Answers
  <2>2. m \in Modules /\ Request[m] = a BY <1>1 DEF Answerers
  <2> QED BY <2>1, <2>2, AddressFacts DEF FrameType, Answer, Genuine
<1>3. ASSUME NEW n \in Modules, Request[n] = a PROVE \E f \in Answers(a) : f.id = Response[n]
  <2>1. n \in Answerers(a) BY <1>3 DEF Answerers
  <2> DEFINE f == [id |-> Response[n], ext |-> FALSE, negative |-> n \in Refusing, probe |-> a]
  <2>2. f \in Answers(a) BY <2>1 DEF Answers
  <2> QED BY <2>2
<1> QED BY <1>2, <1>3

LEMMA ComingType ==
  ASSUME coming \subseteq UNION {Answers(a) : a \in Low .. High}
  PROVE  \A f \in coming : f \in FrameType
<1> SUFFICES ASSUME NEW f \in coming PROVE f \in FrameType OBVIOUS
<1>1. PICK a \in Low .. High : f \in Answers(a) OBVIOUS
<1>2. PICK m \in Answerers(a) : f = [id |-> Response[m], ext |-> FALSE, negative |-> m \in Refusing, probe |-> a]
  BY <1>1 DEF Answers
<1>3. m \in Modules BY DEF Answerers
<1> QED BY <1>2, <1>3, AddressFacts DEF FrameType

\* What a module is booked for is its own, or overdue.
LEMMA RspIsMine ==
  ASSUME SweepInv, NEW n \in Modules, NEW m \in modules, m.rsp = Response[n]
  PROVE  Booked(n) \/ Response[n] \in overdue
<1>1. Right(m) \/ m.rsp \in overdue \/ m.rsp \in Unheard BY DEF SweepInv
<1>2. m.rsp \notin Unheard BY AddressFacts DEF Unheard
<1>3. ASSUME Right(m) PROVE Booked(n)
  <2>1. PICK k \in Modules : Pair(k) = [req |-> m.req, rsp |-> m.rsp] BY <1>3 DEF Right
  <2>2. Request[k] = m.req /\ Response[k] = m.rsp BY <2>1 DEF Pair
  <2>3. k = n BY <2>2, AddressFacts
  <2> QED BY <2>2, <2>3 DEF Booked
<1> QED BY <1>1, <1>2, <1>3

LEMMA SweepInit == SharingInit => SweepInv
<1> SUFFICES ASSUME SharingInit PROVE SweepInv OBVIOUS
<1> USE DEF SharingInit, Init
<1>0. Low \in Low .. High + 1 /\ <<>> \in Seq(FrameType) BY AddressFacts, EmptySeq
<1>1. SweepOK BY <1>0 DEF SweepOK
<1>2. WindowOpen /\ Stages BY DEF WindowOpen, Stages
<1>3. ProbedFound BY AddressFacts DEF ProbedFound
<1> QED BY <1>1, <1>2, <1>3 DEF SweepInv

\* A step that leaves the bus alone.
LEMMA BusStutters ==
  ASSUME SweepInv, UNCHANGED bus, stopped' \in BOOLEAN, stage' # "window" \/ stage = "window", Stages',
         stage' \in {"listen", "probe", "window", "swept", "scan", "killed", "scanned", "written", "shared"}
  PROVE  SweepInv'
<1> USE DEF SweepInv, bus
<1>1. SweepOK' BY DEF SweepOK
<1>2. WindowOpen' BY DEF WindowOpen, Window, Answer, Genuine, Foreign
<1>3. ProbedFound' BY DEF ProbedFound, Booked, Excused, AnswersWaiting
<1>4. \A f \in coming' : Answer(f) OBVIOUS
<1>5. \A m \in modules' : Right(m) \/ m.rsp \in overdue' \/ m.rsp \in Unheard' BY DEF Unheard
<1> QED BY <1>1, <1>2, <1>3, <1>4, <1>5

\* Frames join the reader: none of the answers in it is lost.
LEMMA HeardMore ==
  ASSUME SweepOK, NEW f \in FrameType, heard' = Append(heard, f)
  PROVE  /\ heard' \in Seq(FrameType)
         /\ \A i \in DOMAIN heard' : heard'[i] = f \/ \E j \in DOMAIN heard : heard'[i] = heard[j]
         /\ AnswersWaiting' = AnswersWaiting \cup (IF f.probe # 0 THEN {f.id} ELSE {})
<1> DEFINE n == Len(heard)
<1>1. heard \in Seq(FrameType) BY DEF SweepOK
<1>2. /\ heard' \in Seq(FrameType) /\ Len(heard') = n + 1 /\ n \in Nat
      /\ \A i \in 1 .. n : heard'[i] = heard[i]
      /\ heard'[n + 1] = f
      /\ DOMAIN heard = 1 .. n /\ DOMAIN heard' = 1 .. n + 1
  BY <1>1, AppendProperties
<1> HIDE DEF n
<1>3. \A i \in 1 .. n + 1 : i \in 1 .. n \/ i = n + 1 BY <1>2
<1>4. \A i \in 1 .. n : i \in 1 .. n + 1 BY <1>2
<1>5. n + 1 \in 1 .. n + 1 BY <1>2
<1>6. \A i \in DOMAIN heard' : heard'[i] = f \/ \E j \in DOMAIN heard : heard'[i] = heard[j]
  BY <1>2, <1>3
<1>7. AnswersWaiting' = AnswersWaiting \cup (IF f.probe # 0 THEN {f.id} ELSE {})
  <2>1. AnswersWaiting' = {heard'[i].id : i \in {j \in 1 .. n + 1 : heard'[j].probe # 0}}
    BY <1>2 DEF AnswersWaiting
  <2>2. AnswersWaiting = {heard[i].id : i \in {j \in 1 .. n : heard[j].probe # 0}}
    BY <1>2 DEF AnswersWaiting
  <2>3. ASSUME NEW x \in AnswersWaiting' PROVE x \in AnswersWaiting \cup (IF f.probe # 0 THEN {f.id} ELSE {})
    BY <2>1, <2>2, <1>2, <1>3
  <2>4. ASSUME NEW x \in AnswersWaiting PROVE x \in AnswersWaiting'
    BY <2>1, <2>2, <1>2, <1>4
  <2>5. f.probe # 0 => f.id \in AnswersWaiting' BY <2>1, <1>2, <1>5
  <2> QED BY <2>3, <2>4, <2>5
<1> QED BY <1>2, <1>6, <1>7

\* The first frame is looked at.
LEMMA HeardLess ==
  ASSUME SweepOK, heard # <<>>, heard' = Tail(heard)
  PROVE  /\ heard' \in Seq(FrameType) /\ Head(heard) \in FrameType
         /\ \E k \in DOMAIN heard : Head(heard) = heard[k]
         /\ \A i \in DOMAIN heard' : \E j \in DOMAIN heard : heard'[i] = heard[j]
         /\ AnswersWaiting \subseteq AnswersWaiting' \cup (IF Head(heard).probe # 0 THEN {Head(heard).id} ELSE {})
<1> DEFINE n == Len(heard)
           l == Len(heard')
<1>1. heard \in Seq(FrameType) BY DEF SweepOK
<1>2. /\ heard' \in Seq(FrameType) /\ Head(heard) \in FrameType /\ Head(heard) = heard[1]
      /\ n \in Nat \ {0} /\ l = n - 1
      /\ \A i \in 1 .. l : heard'[i] = heard[i + 1]
      /\ DOMAIN heard = 1 .. n /\ DOMAIN heard' = 1 .. l
  BY <1>1, HeadTailProperties, EmptySeq
<1> HIDE DEF n, l
<1>3. 1 \in 1 .. n /\ \A i \in 1 .. l : i + 1 \in 1 .. n BY <1>2
<1>4. \A i \in 1 .. n : i = 1 \/ (i - 1 \in 1 .. l /\ heard'[i - 1] = heard[i])
  <2> TAKE i \in 1 .. n
  <2>1. i # 1 => i - 1 \in 1 .. l /\ i - 1 + 1 = i BY <1>2
  <2> QED BY <2>1, <1>2
<1>5. ASSUME NEW x \in AnswersWaiting
      PROVE x \in AnswersWaiting' \cup (IF Head(heard).probe # 0 THEN {Head(heard).id} ELSE {})
  <2>1. PICK i \in 1 .. n : heard[i].probe # 0 /\ x = heard[i].id BY <1>2 DEF AnswersWaiting
  <2>2. CASE i = 1 BY <2>1, <2>2, <1>2
  <2>3. CASE i # 1
    <3>1. i - 1 \in DOMAIN heard' /\ heard'[i - 1] = heard[i] BY <2>3, <1>2, <1>4
    <3> QED BY <3>1, <2>1 DEF AnswersWaiting
  <2> QED BY <2>2, <2>3
<1> QED BY <1>2, <1>3, <1>5

LEMMA SweepListen ==
  ASSUME SweepInv, NEW ids \in SUBSET {b.id : b \in Broadcast}, Listen(ids)
  PROVE  SweepInv'
<1> USE DEF SweepInv, Listen, Stages
<1>1. SweepOK' BY AddressFacts DEF SweepOK
<1>2. WindowOpen' BY DEF WindowOpen
<1>3. ProbedFound' BY AddressFacts DEF ProbedFound
<1> QED BY <1>1, <1>2, <1>3

LEMMA SweepSkip ==
  ASSUME SweepInv, Skip
  PROVE  SweepInv'
<1> USE DEF SweepInv, Skip, Stages
<1>1. SweepOK' BY AddressFacts DEF SweepOK
<1>2. WindowOpen' BY DEF WindowOpen
<1>3. ProbedFound'
  <2> SUFFICES ASSUME NEW n \in Modules, Request[n] # Functional, Request[n] < next'
               PROVE  Booked(n)' \/ Excused(n)'
    BY DEF ProbedFound
  <2>1. Request[n] < next BY AddressFacts DEF Skipped
  <2> QED BY <2>1 DEF ProbedFound, Booked, Excused, AnswersWaiting
<1>4. \A m \in modules' : Right(m) \/ m.rsp \in overdue' \/ m.rsp \in Unheard' BY DEF Unheard
<1> QED BY <1>1, <1>2, <1>3, <1>4

LEMMA SweepProbe ==
  ASSUME SweepInv, NEW echo \in BOOLEAN, Probe(echo)
  PROVE  SweepInv'
<1> USE DEF SweepInv
<1>0. /\ stage = "probe" /\ next \in Low .. High \ Skipped
      /\ heard' = Sent(echo) /\ coming' = coming \cup Answers(next)
      /\ overdue' = overdue \cup {f.id : f \in coming} /\ missed' = missed \cup Waiting
      /\ next' = next + 1 /\ stage' = "window"
      /\ UNCHANGED <<stopped, ambient, modules>>
  BY DEF Probe
<1>1. \A f \in coming : f \in FrameType BY ComingType DEF SweepOK
<1>2. Window' = next BY <1>0, AddressFacts DEF Window
<1>3. /\ heard' \in Seq(FrameType)
      /\ \A i \in DOMAIN heard' : heard'[i].id = next /\ heard'[i].probe = 0
  <2> DEFINE f == [id |-> next, ext |-> FALSE, negative |-> FALSE, probe |-> 0]
  <2>1. f \in FrameType /\ f.id = next /\ f.probe = 0 BY <1>0 DEF FrameType, Ids
  <2> HIDE DEF f
  <2>2. heard' = <<>> \/ heard' = <<f>> BY <1>0 DEF Sent, f
  <2>3. CASE heard' = <<>> BY <2>3, EmptySeq
  <2>4. CASE heard' = <<f>>
    <3>1. <<f>> \in Seq(FrameType) /\ DOMAIN <<f>> = {1} /\ <<f>>[1] = f BY <2>1
    <3> QED BY <3>1, <2>1, <2>4
  <2> QED BY <2>2, <2>3, <2>4
<1>4. SweepOK'
  <2>1. next + 1 \in Low .. High + 1 BY <1>0, AddressFacts
  <2>2. {f.id : f \in coming} \subseteq Ids BY <1>1 DEF FrameType
  <2>3. Waiting \subseteq Ids
    <3>1. heard \in Seq(FrameType) BY DEF SweepOK
    <3>2. \A i \in DOMAIN heard : heard[i] \in FrameType BY <3>1
    <3> QED BY <3>2 DEF Waiting, FrameType
  <2>4. Answers(next) \subseteq UNION {Answers(a) : a \in Low .. High} BY <1>0
  <2> QED BY <1>0, <1>3, <2>1, <2>2, <2>3, <2>4 DEF SweepOK
<1>5. WindowOpen' BY <1>0, <1>2, <1>3, AnswersAre DEF WindowOpen
<1>6. ProbedFound'
  <2> SUFFICES ASSUME NEW n \in Modules, Request[n] # Functional, Request[n] < next'
               PROVE  Booked(n)' \/ Excused(n)'
    BY DEF ProbedFound
  <2>1. CASE Request[n] = next
    <3>1. \E f \in Answers(next) : f.id = Response[n] BY <1>0, <2>1, AnswersAre
    <3> QED BY <3>1, <1>0 DEF Excused
  <2>2. CASE Request[n] # next
    <3>1. Request[n] < next BY <2>2, <1>0, AddressFacts
    <3>2. Booked(n) \/ Excused(n) BY <3>1 DEF ProbedFound
    <3>3. AnswersWaiting \subseteq Waiting BY DEF AnswersWaiting, Waiting
    <3>4. Excused(n) => Excused(n)' BY <1>0, <3>3 DEF Excused
    <3>5. Booked(n) => Booked(n)' BY <1>0 DEF Booked
    <3> QED BY <3>2, <3>4, <3>5
  <2> QED BY <2>1, <2>2
<1>7. \A f \in coming' : Answer(f) BY <1>0, AnswersAre
<1>8. \A m \in modules' : Right(m) \/ m.rsp \in overdue' \/ m.rsp \in Unheard' BY <1>0 DEF Unheard
<1>9. Stages' BY <1>0 DEF Stages
<1> QED BY <1>0, <1>4, <1>5, <1>6, <1>7, <1>8, <1>9

LEMMA SweepProbeFails ==
  ASSUME SweepInv, ProbeFails
  PROVE  SweepInv'
<1> USE DEF SweepInv
<1>0. /\ stage = "probe" /\ next \in Low .. High \ Skipped
      /\ heard' = <<>> /\ next' = next + 1 /\ stage' = stage
      /\ missed' = missed \cup Waiting \cup {Response[m] : m \in Answerers(next)}
      /\ UNCHANGED <<stopped, ambient, coming, modules, overdue>>
  BY DEF ProbeFails
<1>1. SweepOK'
  <2>1. next + 1 \in Low .. High + 1 BY <1>0, AddressFacts
  <2>2. <<>> \in Seq(FrameType) BY EmptySeq
  <2>3. Waiting \subseteq Ids
    <3>1. heard \in Seq(FrameType) BY DEF SweepOK
    <3>2. \A i \in DOMAIN heard : heard[i] \in FrameType BY <3>1
    <3> QED BY <3>2 DEF Waiting, FrameType
  <2>4. {Response[m] : m \in Answerers(next)} \subseteq Ids BY AddressFacts DEF Answerers
  <2> QED BY <1>0, <2>1, <2>2, <2>3, <2>4 DEF SweepOK
<1>2. ProbedFound'
  <2> SUFFICES ASSUME NEW n \in Modules, Request[n] # Functional, Request[n] < next'
               PROVE  Booked(n)' \/ Excused(n)'
    BY DEF ProbedFound
  <2>1. CASE Request[n] = next
    <3>1. n \in Answerers(next) BY <2>1 DEF Answerers
    <3> QED BY <3>1, <1>0 DEF Excused
  <2>2. CASE Request[n] # next
    <3>1. Request[n] < next BY <2>2, <1>0, AddressFacts
    <3>2. Booked(n) \/ Excused(n) BY <3>1 DEF ProbedFound
    <3>3. AnswersWaiting \subseteq Waiting BY DEF AnswersWaiting, Waiting
    <3>4. Excused(n) => Excused(n)' BY <1>0, <3>3 DEF Excused
    <3>5. Booked(n) => Booked(n)' BY <1>0 DEF Booked
    <3> QED BY <3>2, <3>4, <3>5
  <2> QED BY <2>1, <2>2
<1>3. WindowOpen' BY <1>0 DEF WindowOpen
<1>4. \A m \in modules' : Right(m) \/ m.rsp \in overdue' \/ m.rsp \in Unheard' BY <1>0 DEF Unheard
<1>5. Stages' BY <1>0 DEF Stages
<1> QED BY <1>0, <1>1, <1>2, <1>3, <1>4, <1>5

LEMMA SweepArrive ==
  ASSUME SweepInv, NEW f \in coming, Arrive(f)
  PROVE  SweepInv'
<1> USE DEF SweepInv
<1>0. /\ stage \in {"probe", "window"} /\ coming' = coming \ {f} /\ heard' = Append(heard, f)
      /\ UNCHANGED <<stage, next, stopped, ambient, modules, overdue, missed>>
  BY DEF Arrive
<1>1. f \in FrameType /\ Answer(f) BY ComingType DEF SweepOK
<1>2. f.probe # 0 BY <1>1, AddressFacts DEF Answer, Genuine
<1>3. /\ heard' \in Seq(FrameType)
      /\ \A i \in DOMAIN heard' : heard'[i] = f \/ \E j \in DOMAIN heard : heard'[i] = heard[j]
      /\ AnswersWaiting' = AnswersWaiting \cup {f.id}
  BY <1>0, <1>1, <1>2, HeardMore
<1>4. SweepOK' BY <1>0, <1>3 DEF SweepOK
<1>5. WindowOpen'
  <2> SUFFICES ASSUME stage = "window" PROVE WindowOpen' BY <1>0 DEF WindowOpen
  <2>1. Window' = Window BY <1>0 DEF Window
  <2>2. f.probe = Window \/ f.id \in overdue BY DEF WindowOpen
  <2> QED BY <1>0, <1>1, <1>3, <2>1, <2>2 DEF WindowOpen, Answer, Genuine, Foreign
<1>6. ProbedFound'
  <2> SUFFICES ASSUME NEW n \in Modules, Request[n] # Functional, Request[n] < next
               PROVE  Booked(n)' \/ Excused(n)'
    BY <1>0 DEF ProbedFound
  <2>1. Booked(n) \/ Excused(n) BY DEF ProbedFound
  <2>2. Excused(n) => Excused(n)' BY <1>0, <1>3 DEF Excused
  <2>3. Booked(n) => Booked(n)' BY <1>0 DEF Booked
  <2> QED BY <2>1, <2>2, <2>3
<1>7. Stages' BY <1>0 DEF Stages
<1>8. \A m \in modules' : Right(m) \/ m.rsp \in overdue' \/ m.rsp \in Unheard' BY <1>0 DEF Unheard
<1> QED BY <1>0, <1>4, <1>5, <1>6, <1>7, <1>8

LEMMA SweepNoise ==
  ASSUME SweepInv, NEW b \in Broadcast, Noise(b)
  PROVE  SweepInv'
<1> USE DEF SweepInv
<1> DEFINE f == [id |-> b.id, ext |-> b.ext, negative |-> FALSE, probe |-> 0]
<1>0. /\ stage \in {"probe", "window"} /\ heard' = Append(heard, f)
      /\ UNCHANGED <<stage, next, stopped, ambient, coming, modules, overdue, missed>>
  BY DEF Noise
<1>1. f \in FrameType /\ Foreign(f) /\ f.probe = 0 BY AddressFacts DEF FrameType, Foreign
<1> HIDE DEF f
<1>2. /\ heard' \in Seq(FrameType)
      /\ \A i \in DOMAIN heard' : heard'[i] = f \/ \E j \in DOMAIN heard : heard'[i] = heard[j]
      /\ AnswersWaiting' = AnswersWaiting
  BY <1>0, <1>1, HeardMore
<1>3. SweepOK' BY <1>0, <1>2 DEF SweepOK
<1>4. WindowOpen'
  <2>1. Window' = Window BY <1>0 DEF Window
  <2> QED BY <1>0, <1>1, <1>2, <2>1 DEF WindowOpen
<1>5. ProbedFound' BY <1>0, <1>2 DEF ProbedFound, Booked, Excused
<1>6. Stages' BY <1>0 DEF Stages
<1>7. \A m \in modules' : Right(m) \/ m.rsp \in overdue' \/ m.rsp \in Unheard' BY <1>0 DEF Unheard
<1> QED BY <1>0, <1>3, <1>4, <1>5, <1>6, <1>7

\* Whose frame is passed over is booked, or is overdue.
LEMMA SweepPassOver ==
  ASSUME SweepInv, PassOver
  PROVE  SweepInv'
<1> USE DEF SweepInv
<1> DEFINE f == Head(heard)
<1>0. /\ stage = "window" /\ heard # <<>> /\ Ignored(f) /\ heard' = Tail(heard)
      /\ UNCHANGED <<stage, next, stopped, ambient, coming, modules, overdue, missed>>
  BY DEF PassOver
<1>1. /\ heard' \in Seq(FrameType) /\ f \in FrameType
      /\ \E k \in DOMAIN heard : f = heard[k]
      /\ \A i \in DOMAIN heard' : \E j \in DOMAIN heard : heard'[i] = heard[j]
      /\ AnswersWaiting \subseteq AnswersWaiting' \cup (IF f.probe # 0 THEN {f.id} ELSE {})
  BY <1>0, HeardLess
<1> HIDE DEF f
<1>2. SweepOK' BY <1>0, <1>1 DEF SweepOK
<1>3. WindowOpen'
  <2>1. Window' = Window BY <1>0 DEF Window
  <2> QED BY <1>0, <1>1, <2>1 DEF WindowOpen
<1>4. ASSUME f.probe # 0, NEW n \in Modules, f.id = Response[n]
      PROVE  Booked(n) \/ Response[n] \in overdue
  <2>1. PICK k \in Modules : Genuine(f, k) /\ (f.probe = Window \/ f.id \in overdue)
    BY <1>0, <1>1, <1>4 DEF WindowOpen, Answer
  <2>2. k = n /\ f.probe = Request[n] /\ ~f.ext BY <2>1, <1>4, AddressFacts DEF Genuine
  <2>3. CASE f.id \in overdue BY <2>3, <1>4
  <2>4. CASE f.probe = Window
    <3>1. f.id # Window BY <2>2, <2>4, <1>4, AddressFacts
    <3>2. f.id \notin ambient BY <1>4, AddressFacts
    <3>3. \E m \in modules : m.rsp = Response[n] BY <3>1, <3>2, <2>2, <1>0, <1>4 DEF Ignored
    <3> QED BY <3>3, RspIsMine
  <2> QED BY <2>1, <2>3, <2>4
<1>5. ProbedFound'
  <2> SUFFICES ASSUME NEW n \in Modules, Request[n] # Functional, Request[n] < next
               PROVE  Booked(n)' \/ Excused(n)'
    BY <1>0 DEF ProbedFound
  <2>1. Booked(n) \/ Excused(n) BY DEF ProbedFound
  <2>2. Booked(n) => Booked(n)' BY <1>0 DEF Booked
  <2>3. Excused(n) => Excused(n)' \/ (f.probe # 0 /\ f.id = Response[n]) BY <1>0, <1>1 DEF Excused
  <2>4. Response[n] \in overdue => Excused(n)' BY <1>0 DEF Excused
  <2> QED BY <2>1, <2>2, <2>3, <2>4, <1>4
<1>6. Stages' BY <1>0 DEF Stages
<1>7. \A m \in modules' : Right(m) \/ m.rsp \in overdue' \/ m.rsp \in Unheard' BY <1>0 DEF Unheard
<1> QED BY <1>0, <1>2, <1>3, <1>5, <1>6, <1>7

\* Whatever is booked answered this probe, or is overdue, or is traffic not heard beforehand.
LEMMA SweepBook ==
  ASSUME SweepInv, Book
  PROVE  SweepInv'
<1> USE DEF SweepInv
<1> DEFINE f == Head(heard)
           m == [req |-> Window, rsp |-> f.id, negative |-> f.negative]
<1>0. /\ stage = "window" /\ heard # <<>> /\ ~Ignored(f) /\ heard' = Tail(heard)
      /\ modules' = modules \cup {m} /\ stage' = "probe"
      /\ UNCHANGED <<next, stopped, ambient, coming, overdue, missed>>
  BY DEF Book
<1>1. /\ heard' \in Seq(FrameType) /\ f \in FrameType
      /\ \E k \in DOMAIN heard : f = heard[k]
      /\ \A i \in DOMAIN heard' : \E j \in DOMAIN heard : heard'[i] = heard[j]
      /\ AnswersWaiting \subseteq AnswersWaiting' \cup (IF f.probe # 0 THEN {f.id} ELSE {})
  BY <1>0, HeardLess
<1> HIDE DEF f
<1>2. f.id # Window /\ f.id \notin ambient /\ ~f.ext BY <1>0 DEF Ignored
<1>3. \/ Foreign(f) /\ f.probe = 0
      \/ Answer(f) /\ (f.probe = Window \/ f.id \in overdue)
  BY <1>0, <1>1, <1>2 DEF WindowOpen
<1>4. m.req = Window /\ m.rsp = f.id /\ Window \in Low .. High /\ f.id \in Ids /\ f.negative \in BOOLEAN
  BY <1>0, <1>1 DEF WindowOpen, FrameType
<1>5. SweepOK'
  <2>1. m \in [req : Low .. High, rsp : Ids, negative : BOOLEAN] BY <1>4
  <2> HIDE DEF m
  <2> QED BY <1>0, <1>1, <2>1 DEF SweepOK
<1>6. Right(m) \/ m.rsp \in overdue \/ m.rsp \in Unheard
  <2>1. CASE Foreign(f) BY <2>1, <1>2, <1>4 DEF Foreign, Unheard
  <2>2. CASE Answer(f) /\ f.probe = Window
    <3>1. PICK n \in Modules : Genuine(f, n) BY <2>2 DEF Answer
    <3>2. Pair(n) = [req |-> m.req, rsp |-> m.rsp] BY <3>1, <2>2, <1>4 DEF Genuine, Pair
    <3> QED BY <3>2 DEF Right
  <2> QED BY <1>3, <1>4, <2>1, <2>2
<1>7. ASSUME f.probe # 0, NEW n \in Modules, f.id = Response[n]
      PROVE  Booked(n)' \/ Response[n] \in overdue
  <2>1. PICK k \in Modules : Genuine(f, k) /\ (f.probe = Window \/ f.id \in overdue)
    BY <1>3, <1>7 DEF Answer
  <2>2. k = n /\ f.probe = Request[n] BY <2>1, <1>7, AddressFacts DEF Genuine
  <2>3. f.probe = Window => m.req = Request[n] /\ m.rsp = Response[n] BY <2>2, <1>4, <1>7
  <2>4. m \in modules' BY <1>0
  <2> HIDE DEF m
  <2>5. f.probe = Window => Booked(n)' BY <2>3, <2>4 DEF Booked
  <2> QED BY <2>1, <2>5, <1>7
<1> HIDE DEF m
<1>8. ProbedFound'
  <2> SUFFICES ASSUME NEW n \in Modules, Request[n] # Functional, Request[n] < next
               PROVE  Booked(n)' \/ Excused(n)'
    BY <1>0 DEF ProbedFound
  <2>1. Booked(n) \/ Excused(n) BY DEF ProbedFound
  <2>2. Booked(n) => Booked(n)' BY <1>0 DEF Booked
  <2>3. Excused(n) => Excused(n)' \/ (f.probe # 0 /\ f.id = Response[n]) BY <1>0, <1>1 DEF Excused
  <2>4. Response[n] \in overdue => Excused(n)' BY <1>0 DEF Excused
  <2> QED BY <2>1, <2>2, <2>3, <2>4, <1>7
<1>9. Stages' /\ WindowOpen' BY <1>0 DEF Stages, WindowOpen
<1>10. \A k \in modules' : Right(k) \/ k.rsp \in overdue' \/ k.rsp \in Unheard'
  BY <1>0, <1>6 DEF Unheard
<1> QED BY <1>0, <1>5, <1>8, <1>9, <1>10

\* An identifier sweep begins: nothing of the address sweep is left.
LEMMA SweepBegin ==
  ASSUME SweepInv, NEW m, NEW vin, Begin(m, vin)
  PROVE  SweepInv'
<1> USE DEF SweepInv
<1>0. /\ stage' = "scan" /\ stopped' = FALSE /\ next' = Low /\ ambient' = {} /\ coming' = {}
      /\ heard' = <<>> /\ modules' = {} /\ overdue' = {} /\ missed' = {}
  BY DEF Begin, Begun
<1>1. Low \in Low .. High + 1 /\ <<>> \in Seq(FrameType) BY AddressFacts, EmptySeq
<1>2. SweepOK' BY <1>0, <1>1 DEF SweepOK
<1>3. WindowOpen' /\ Stages' BY <1>0 DEF WindowOpen, Stages
<1>4. ProbedFound' BY <1>0, AddressFacts DEF ProbedFound
<1> QED BY <1>0, <1>2, <1>3, <1>4

LEMMA SweepStep == SweepInv /\ [SharingNext]_allvars => SweepInv'
<1> SUFFICES ASSUME SweepInv, [SharingNext]_allvars PROVE SweepInv' OBVIOUS
<1>0. SweepOK /\ Stages BY DEF SweepInv
<1>1. ASSUME NEW ids \in SUBSET {b.id : b \in Broadcast}, Listen(ids) PROVE SweepInv'
  BY <1>1, SweepListen
<1>2. CASE Skip \/ ProbeFails \/ PassOver \/ Book
  BY <1>2, SweepSkip, SweepProbeFails, SweepPassOver, SweepBook
<1>3. ASSUME NEW echo \in BOOLEAN, Probe(echo) PROVE SweepInv' BY <1>3, SweepProbe
<1>4. ASSUME NEW f \in coming, Arrive(f) PROVE SweepInv' BY <1>4, SweepArrive
<1>5. ASSUME NEW b \in Broadcast, Noise(b) PROVE SweepInv' BY <1>5, SweepNoise
<1>6. CASE Close BY <1>0, <1>6, BusStutters DEF Close, Stages, SweepOK, bus
<1>7. CASE EndSweep BY <1>0, <1>7, BusStutters DEF EndSweep, Stages, SweepOK, bus
<1>8. CASE Stop BY <1>0, <1>8, BusStutters DEF Stop, Stages, SweepOK, bus
<1>9. ASSUME NEW m, NEW vin, Begin(m, vin) PROVE SweepInv' BY <1>9, SweepBegin
<1>10. ASSUME NEW vin, Resume(vin) \/ Again(vin) PROVE SweepInv'
  BY <1>0, <1>10, BusStutters DEF Resume, Again, Begun, Stages, SweepOK, bus
<1>11. CASE AskAnswered \/ AskUnanswered \/ AskGarbled
  BY <1>0, <1>11, BusStutters DEF AskAnswered, AskUnanswered, AskGarbled, Observed, Stages, SweepOK, bus
<1>12. CASE Halt \/ Finish \/ Kill
  BY <1>0, <1>12, BusStutters DEF Halt, Finish, Kill, Stages, SweepOK, bus
<1>13. ASSUME NEW state, LineTurns(state) PROVE SweepInv'
  BY <1>0, <1>13, BusStutters DEF LineTurns, Stages, SweepOK, bus
<1>14. ASSUME Share \/ (\E anonymise \in BOOLEAN : Write(anonymise)) PROVE SweepInv'
  BY <1>0, <1>14, BusStutters DEF Share, Write, Stages, SweepOK, bus
<1>15. CASE WriteReport \/ UNCHANGED allvars
  BY <1>0, <1>15, BusStutters DEF WriteReport, allvars, vars, Stages, SweepOK, bus
<1> QED BY <1>1, <1>2, <1>3, <1>4, <1>5, <1>6, <1>7, <1>8, <1>9, <1>10, <1>11, <1>12, <1>13, <1>14,
          <1>15 DEF SharingNext, AddressNext, DidNext

LEMMA SweepInvariant == Spec => []SweepInv
BY SweepInit, SweepStep, PTL DEF Spec

\* The sweep finds who answered in time, and books under a wrong address only whose answer was
\* late (discovery.py:284-340, 384-419).
THEOREM FoundTheorem == Spec => []FoundAreTheModules
<1>1. SweepInv => FoundAreTheModules
  <2> SUFFICES ASSUME SweepInv PROVE FoundAreTheModules OBVIOUS
  <2> USE DEF SweepInv
  <2>1. ASSUME stage = "swept", ~stopped, NEW n \in Modules, Request[n] # Functional, InWindow(n)
        PROVE  Booked(n)
    <3>1. next > High BY <2>1 DEF Stages
    <3>2. Request[n] < next BY <3>1, AddressFacts DEF SweepOK
    <3>3. Booked(n) \/ Excused(n) BY <2>1, <3>2 DEF ProbedFound
    <3>4. AnswersWaiting \subseteq Waiting BY DEF AnswersWaiting, Waiting
    <3> QED BY <2>1, <3>3, <3>4 DEF InWindow, Excused
  <2> QED BY <2>1 DEF FoundAreTheModules, Booked
<1> QED BY <1>1, SweepInvariant, PTL
-----------------------------------------------------------------------------
(* What is told of it. *)

\* The bounds of the model are kept, and a pair that is asked is one that was found.
BoundsKept ==
  /\ spent = [noise |-> spent.noise, failures |-> spent.failures, faults |-> spent.faults]
  /\ spent.noise \in 0 .. MaxNoise /\ spent.failures \in 0 .. MaxFailures
  /\ spent.faults \in 0 .. MaxFaults
  /\ scan.pair \in Pairs /\ scan.errors \in 0 .. MaxErrors /\ scan.silence \in 0 .. MaxSilence
  /\ scan.aborted \in {"no", "errors", "silence", "stopped"} /\ scan.runs \in 0 .. MaxRuns
  /\ line \in {"good", "gone", "garbled"}

\* A row holds a value that Content tells of, or none.
RowsOK == \A i \in DOMAIN scan.rows : scan.rows[i].value \in {0} \cup Values

\* A sweep's document: an entry whose VIN is to be hidden does not have it. And a report.
Entries(doc) ==
  /\ doc.entries \in Seq({doc.entries[i] : i \in DOMAIN doc.entries})
  /\ \A i \in DOMAIN doc.entries :
       LET e == doc.entries[i]
       IN  /\ e = [did |-> e.did, status |-> e.status, raw |-> e.raw, text |-> e.text]
           /\ e.raw \in {Redacted, 0} \cup Values
           /\ doc.anonymised /\ doc.known /\ e.raw \in Values => ~Content[e.raw].vin
SweepDoc(doc) ==
  /\ doc = [schema |-> "didscan", module |-> doc.module, vin |-> doc.vin,
            anonymised |-> doc.anonymised, known |-> doc.known, entries |-> doc.entries]
  /\ Entries(doc)
ReportDoc(doc) ==
  doc = [schema |-> "inspection", module |-> doc.module, vin |-> TRUE, anonymised |-> FALSE,
         known |-> TRUE, readings |-> Named, facts |-> Numbers]
DocOK(doc) ==
  \/ doc.schema = "didscan" /\ SweepDoc(doc)
  \/ doc.schema = "inspection" /\ ReportDoc(doc)

DocsOK ==
  /\ docs \in Seq({docs[i] : i \in DOMAIN docs}) /\ Len(docs) <= MaxDocuments
  /\ \A i \in DOMAIN docs : DocOK(docs[i])
  /\ stage = "shared" => shared = Observe(docs)
  /\ shared = Nothing \/ (\E ds : shared = Observe(ds))

DocsInv == BoundsKept /\ RowsOK /\ DocsOK
LEMMA BoundFacts ==
  /\ MaxErrors \in Nat \ {0} /\ MaxSilence \in Nat \ {0} /\ MaxNoise \in Nat /\ MaxFailures \in Nat
  /\ MaxFaults \in Nat /\ MaxRuns \in Nat /\ [req |-> Low, rsp |-> Low] \in Pairs
  /\ MaxDocuments \in Nat
BY SweepAssumption, SharingAssumption, AddressFacts DEF Pairs, Ids

\* The bounds are the same and the rows too.
LEMMA BoundsStutter ==
  ASSUME BoundsKept, RowsOK, UNCHANGED <<spent, scan, line>>
  PROVE  BoundsKept' /\ RowsOK'
BY DEF BoundsKept, RowsOK

LEMMA BoundsBegun ==
  ASSUME BoundsKept, NEW pair \in Pairs, NEW vin, NEW skip, Begun(pair, vin, skip),
         UNCHANGED <<spent, line>>
  PROVE  BoundsKept' /\ RowsOK'
<1>1. scan' = [pair |-> pair, todo |-> Iterate(skip), rows |-> <<>>, errors |-> 0, silence |-> 0,
               aborted |-> "no", vin |-> vin, runs |-> scan.runs + 1]
  BY DEF Begun, NoScan
<1>2. scan.runs + 1 \in 0 .. MaxRuns BY BoundFacts DEF Begun, BoundsKept
<1>3. RowsOK' BY <1>1 DEF RowsOK
<1> QED BY <1>1, <1>2, <1>3, BoundFacts DEF BoundsKept

\* One more fault, or none.
LEMMA Faulty ==
  ASSUME BoundsKept, spent.faults < MaxFaults, spent' = [spent EXCEPT !.faults = @ + 1]
  PROVE  /\ spent' = [noise |-> spent.noise, failures |-> spent.failures, faults |-> spent.faults + 1]
         /\ spent.faults + 1 \in 0 .. MaxFaults
BY BoundFacts DEF BoundsKept

\* One more row, before the sweep has given up: no counter is past its limit.
LEMMA BoundsCounted ==
  ASSUME BoundsKept, RowsOK, CountInv, scan.aborted = "no", NEW row, row.value \in {0} \cup Values,
         Counted(row), UNCHANGED line,
         \/ UNCHANGED spent
         \/ spent.faults < MaxFaults /\ spent' = [spent EXCEPT !.faults = @ + 1]
  PROVE  BoundsKept' /\ RowsOK'
<1> DEFINE e == IF row.status = "error" THEN scan.errors + 1 ELSE 0
           s == IF Answered(row) THEN 0 ELSE scan.silence + 1
           a == IF e >= MaxErrors THEN "errors" ELSE IF s >= MaxSilence THEN "silence" ELSE "no"
           r == Append(scan.rows, row)
<1>1. scan = [pair |-> scan.pair, todo |-> scan.todo, rows |-> scan.rows,
              errors |-> scan.errors, silence |-> scan.silence, aborted |-> scan.aborted,
              vin |-> scan.vin, runs |-> scan.runs]
  BY DEF CountInv, ReportShape
<1>2. scan' = [scan EXCEPT !.todo = Tail(@), !.rows = r, !.errors = e, !.silence = s, !.aborted = a]
  BY DEF Counted
<1>3. scan.errors < MaxErrors /\ scan.silence < MaxSilence /\ scan.errors \in Nat /\ scan.silence \in Nat
  BY DEF CountInv, LimitsKept, ReportShape
<1>4. e \in 0 .. MaxErrors /\ s \in 0 .. MaxSilence BY <1>3, BoundFacts
<1>5. a \in {"no", "errors", "silence", "stopped"} OBVIOUS
<1> HIDE DEF e, s, a, r
<1>6. scan' = [pair |-> scan.pair, todo |-> Tail(scan.todo), rows |-> r, errors |-> e,
               silence |-> s, aborted |-> a, vin |-> scan.vin, runs |-> scan.runs]
  BY <1>1, <1>2
<1>7. RowsOK'
  <2> DEFINE S == {scan.rows[i] : i \in DOMAIN scan.rows}
             n == Len(scan.rows)
  <2>1. scan.rows \in Seq(S) BY DEF CountInv, ReportShape
  <2> HIDE DEF S
  <2>2. scan.rows \in Seq(S \cup {row}) BY <2>1
  <2>3. /\ DOMAIN scan.rows = 1 .. n /\ DOMAIN r = 1 .. n + 1 /\ n \in Nat
        /\ \A i \in 1 .. n : r[i] = scan.rows[i]
        /\ r[n + 1] = row
    BY <2>2, AppendProperties DEF r
  <2> HIDE DEF n
  <2>4. ASSUME NEW i \in 1 .. n + 1 PROVE r[i].value \in {0} \cup Values
    <3>1. CASE i = n + 1 BY <3>1, <2>3
    <3>2. CASE i # n + 1
      <4>1. i \in 1 .. n BY <3>2, <2>3
      <4> QED BY <4>1, <2>3 DEF RowsOK
    <3> QED BY <3>1, <3>2
  <2> QED BY <2>3, <2>4, <1>6 DEF RowsOK
<1>8. BoundsKept'
  <2>1. CASE UNCHANGED spent BY <2>1, <1>4, <1>5, <1>6 DEF BoundsKept
  <2>2. CASE spent.faults < MaxFaults /\ spent' = [spent EXCEPT !.faults = @ + 1]
    BY <2>2, Faulty, <1>4, <1>5, <1>6 DEF BoundsKept
  <2> QED BY <2>1, <2>2
<1> QED BY <1>7, <1>8

\* What a module says has a value that Content tells of.
LEMMA SaidValues ==
  ASSUME NEW pair, NEW d, NEW said \in Said(pair, d)
  PROVE  said.value \in {0} \cup Values
BY SharingAssumption DEF Said

LEMMA BoundsStep ==
  ASSUME BoundsKept, RowsOK, CountInv, SweepInv, [SharingNext]_allvars
  PROVE  BoundsKept' /\ RowsOK'
<1>1. CASE ProbeFails
  <2>1. spent' = [noise |-> spent.noise, failures |-> spent.failures + 1, faults |-> spent.faults]
    BY <1>1 DEF ProbeFails, BoundsKept
  <2>2. spent.failures + 1 \in 0 .. MaxFailures BY <1>1, BoundFacts DEF ProbeFails, BoundsKept
  <2>3. UNCHANGED <<scan, line>> BY <1>1 DEF ProbeFails
  <2> QED BY <2>1, <2>2, <2>3 DEF BoundsKept, RowsOK
<1>2. ASSUME NEW b, Noise(b) PROVE BoundsKept' /\ RowsOK'
  <2>1. spent' = [noise |-> spent.noise + 1, failures |-> spent.failures, faults |-> spent.faults]
    BY <1>2 DEF Noise, BoundsKept
  <2>2. spent.noise + 1 \in 0 .. MaxNoise BY <1>2, BoundFacts DEF Noise, BoundsKept
  <2>3. UNCHANGED <<scan, line>> BY <1>2 DEF Noise
  <2> QED BY <2>1, <2>2, <2>3 DEF BoundsKept, RowsOK
<1>3. CASE Skip \/ PassOver \/ Book \/ Close \/ EndSweep \/ Stop
  BY <1>3, BoundsStutter DEF Skip, PassOver, Book, Close, EndSweep, Stop
<1>4. ASSUME \/ \E ids \in SUBSET {b.id : b \in Broadcast} : Listen(ids)
             \/ \E echo \in BOOLEAN : Probe(echo)
             \/ \E f \in coming : Arrive(f)
      PROVE  BoundsKept' /\ RowsOK'
  BY <1>4, BoundsStutter DEF Listen, Probe, Arrive
<1>5. ASSUME NEW m \in modules, NEW vin, Begin(m, vin) PROVE BoundsKept' /\ RowsOK'
  <2>1. [req |-> m.req, rsp |-> m.rsp] \in Pairs BY DEF SweepInv, SweepOK, Pairs
  <2> QED BY <1>5, <2>1, BoundsBegun DEF Begin
<1>6. ASSUME NEW vin, Resume(vin) \/ Again(vin) PROVE BoundsKept' /\ RowsOK'
  <2>1. scan.pair \in Pairs BY DEF BoundsKept
  <2> QED BY <1>6, <2>1, BoundsBegun DEF Resume, Again
<1>7. CASE AskAnswered
  <2>1. PICK said \in Said(scan.pair, Head(scan.todo)) : Counted(Row(Head(scan.todo), said))
    BY <1>7 DEF AskAnswered, Observed
  <2>2. Row(Head(scan.todo), said).value \in {0} \cup Values BY SaidValues DEF Row
  <2> QED BY <1>7, <2>1, <2>2, BoundsCounted DEF AskAnswered, Asking, Observed
<1>8. CASE AskUnanswered
  <2>1. Silent(Head(scan.todo)).value \in {0} \cup Values BY DEF Silent
  <2> QED BY <1>8, <2>1, BoundsCounted DEF AskUnanswered, Asking, Observed
<1>9. CASE AskGarbled
  <2>1. Garbled(Head(scan.todo)).value \in {0} \cup Values BY DEF Garbled
  <2> QED BY <1>9, <2>1, BoundsCounted DEF AskGarbled, Asking, Observed
<1>10. CASE Halt
  <2>1. scan' = [pair |-> scan.pair, todo |-> scan.todo, rows |-> scan.rows,
                 errors |-> scan.errors, silence |-> scan.silence, aborted |-> "stopped",
                 vin |-> scan.vin, runs |-> scan.runs]
    BY <1>10 DEF Halt, CountInv, ReportShape
  <2> QED BY <1>10, <2>1 DEF Halt, BoundsKept, RowsOK
<1>11. CASE Finish \/ Kill BY <1>11, BoundsStutter DEF Finish, Kill
<1>12. ASSUME NEW state \in {"good", "gone", "garbled"}, LineTurns(state) PROVE BoundsKept' /\ RowsOK'
  <2>1. UNCHANGED scan /\ line' \in {"good", "gone", "garbled"} BY <1>12 DEF LineTurns
  <2> QED BY <1>12, <2>1, Faulty DEF LineTurns, BoundsKept, RowsOK
<1>13. CASE WriteReport \/ Share \/ (\E anonymise \in BOOLEAN : Write(anonymise))
  BY <1>13, BoundsStutter DEF WriteReport, Share, Write, vars
<1>14. CASE UNCHANGED allvars BY <1>14, BoundsStutter DEF allvars, vars
<1> QED BY <1>1, <1>2, <1>3, <1>4, <1>5, <1>6, <1>7, <1>8, <1>9, <1>10, <1>11, <1>12, <1>13, <1>14
    DEF SharingNext, AddressNext, DidNext
\* An entry of a document that is to tell nothing of the VIN.
LEMMA EntryIs ==
  ASSUME NEW row, row.value \in {0} \cup Values, NEW redact
  PROVE  LET e == Entry(row, redact)
         IN  /\ e = [did |-> e.did, status |-> e.status, raw |-> e.raw, text |-> e.text]
             /\ e.raw \in {Redacted, 0} \cup Values
             /\ redact /\ e.raw \in Values => ~Content[e.raw].vin
<1>1. Len(Content) \in Nat BY SharingAssumption
<1>2. 0 \notin Values /\ Redacted \notin Values BY <1>1 DEF Values, Redacted
<1>3. CASE redact /\ row.value # 0 /\ Content[row.value].vin
  <2>1. Entry(row, redact).raw = Redacted BY <1>3 DEF Entry
  <2> QED BY <2>1, <1>2 DEF Entry
<1>4. CASE ~(redact /\ row.value # 0 /\ Content[row.value].vin)
  <2>1. Entry(row, redact).raw = row.value BY <1>4 DEF Entry
  <2> QED BY <2>1, <1>2, <1>4 DEF Entry
<1> QED BY <1>3, <1>4

LEMMA DocumentIs ==
  ASSUME RowsOK, CountInv, NEW anonymise
  PROVE  DocOK(Document(anonymise))
<1> DEFINE doc == Document(anonymise)
           redact == anonymise /\ scan.vin
           E(i) == Entry(scan.rows[i], redact)
<1>1. doc = [schema |-> "didscan", module |-> doc.module, vin |-> doc.vin,
             anonymised |-> doc.anonymised, known |-> doc.known, entries |-> doc.entries]
  BY DEF Document
<1>2. /\ doc.schema = "didscan" /\ doc.anonymised = anonymise /\ doc.known = scan.vin
      /\ doc.entries = [i \in DOMAIN scan.rows |-> E(i)]
  BY DEF Document
<1>3. ASSUME NEW i \in DOMAIN scan.rows
      PROVE  /\ E(i) = [did |-> E(i).did, status |-> E(i).status, raw |-> E(i).raw, text |-> E(i).text]
             /\ E(i).raw \in {Redacted, 0} \cup Values
             /\ redact /\ E(i).raw \in Values => ~Content[E(i).raw].vin
  <2>1. scan.rows[i].value \in {0} \cup Values BY DEF RowsOK
  <2> QED BY <2>1, EntryIs
<1> HIDE DEF doc, E
<1>4. DOMAIN scan.rows = 1 .. Len(scan.rows) /\ Len(scan.rows) \in Nat BY DEF CountInv, ReportShape
<1>5. doc.entries \in Seq({doc.entries[i] : i \in DOMAIN doc.entries})
  <2>1. \A i \in 1 .. Len(scan.rows) : E(i) \in {doc.entries[j] : j \in DOMAIN doc.entries} BY <1>2, <1>4
  <2> QED BY <1>2, <1>4, <2>1
<1>6. ASSUME NEW i \in DOMAIN doc.entries
      PROVE  LET e == doc.entries[i]
             IN  /\ e = [did |-> e.did, status |-> e.status, raw |-> e.raw, text |-> e.text]
                 /\ e.raw \in {Redacted, 0} \cup Values
                 /\ doc.anonymised /\ doc.known /\ e.raw \in Values => ~Content[e.raw].vin
  <2>1. i \in DOMAIN scan.rows /\ doc.entries[i] = E(i) BY <1>2
  <2>2. doc.anonymised /\ doc.known => redact BY <1>2
  <2> QED BY <2>1, <2>2, <1>3
<1>7. Entries(doc) BY <1>5, <1>6 DEF Entries
<1> QED BY <1>1, <1>2, <1>7 DEF SweepDoc, DocOK, doc

\* One more document.
LEMMA DocsMore ==
  ASSUME DocsOK, NEW doc, docs' = Append(docs, doc), Len(docs) < MaxDocuments, stage' # "shared",
         UNCHANGED shared, DocOK(doc)
  PROVE  DocsOK'
<1> DEFINE S == {docs[i] : i \in DOMAIN docs} \cup {doc}
           n == Len(docs)
<1>1. docs \in Seq(S)
  <2> DEFINE T == {docs[i] : i \in DOMAIN docs}
  <2>1. docs \in Seq(T) BY DEF DocsOK
  <2> HIDE DEF T
  <2>2. docs \in Seq(T \cup {doc}) BY <2>1
  <2> QED BY <2>2 DEF T
<1> HIDE DEF S
<1>2. /\ docs' \in Seq(S) /\ Len(docs') = n + 1 /\ DOMAIN docs = 1 .. n /\ DOMAIN docs' = 1 .. n + 1
      /\ n \in Nat /\ \A i \in 1 .. n : docs'[i] = docs[i]
      /\ docs'[n + 1] = doc
  <2>1. doc \in S BY DEF S
  <2> QED BY <1>1, <2>1, AppendProperties
<1>3. \A i \in 1 .. n : DocOK(docs[i]) BY <1>2 DEF DocsOK
<1>4. n < MaxDocuments OBVIOUS
<1> HIDE DEF n
<1>5. Len(docs') <= MaxDocuments BY <1>2, <1>4, BoundFacts
<1>6. \A i \in 1 .. n + 1 : i \in 1 .. n \/ i = n + 1 BY <1>2
<1>7. docs' \in Seq({docs'[i] : i \in DOMAIN docs'})
  <2>1. docs' \in [1 .. Len(docs') -> S] BY <1>2, LenProperties
  <2>2. docs' \in [1 .. n + 1 -> S] BY <2>1, <1>2
  <2>3. docs' = [i \in 1 .. n + 1 |-> docs'[i]] BY <2>2
  <2>4. n + 1 \in Nat BY <1>2
  <2> QED BY <2>3, <2>4, <1>2
<1>8. \A i \in DOMAIN docs' : DocOK(docs'[i]) BY <1>2, <1>3, <1>6
<1>9. \A i \in DOMAIN docs' : DocOK(docs[i])' BY <1>8 DEF DocOK, SweepDoc, ReportDoc, Entries
<1>10. shared' = Nothing \/ (\E ds : shared' = Observe(ds)) BY DEF DocsOK
<1> QED BY <1>5, <1>7, <1>9, <1>10 DEF DocsOK

LEMMA DocsStutter ==
  ASSUME DocsOK, UNCHANGED <<docs, shared>>, stage' = "shared" => stage = "shared"
  PROVE  DocsOK'
<1>1. ASSUME NEW i \in DOMAIN docs PROVE DocOK(docs[i])'
  BY DEF DocsOK, DocOK, SweepDoc, ReportDoc, Entries
<1> QED BY <1>1 DEF DocsOK

LEMMA DocsStep ==
  ASSUME DocsInv, CountInv, SweepInv, [SharingNext]_allvars
  PROVE  DocsInv'
<1>1. BoundsKept' /\ RowsOK' BY BoundsStep DEF DocsInv
<1>2. DocsOK /\ RowsOK BY DEF DocsInv
<1>3. CASE AddressNext /\ UNCHANGED <<docs, shared>>
  <2>1. stage' # "shared" \/ stage' = stage
    BY <1>3 DEF AddressNext, Listen, Skip, ProbeFails, PassOver, Book, Close, EndSweep, Stop, Probe,
      Arrive, Noise
  <2> QED BY <1>1, <1>2, <1>3, <2>1, DocsStutter DEF DocsInv
<1>4. CASE DidNext /\ UNCHANGED <<docs, shared>>
  <2>1. stage' # "shared" \/ stage' = stage
    BY <1>4 DEF DidNext, Begin, Resume, Begun, AskAnswered, AskUnanswered, AskGarbled, Observed, Halt,
      Finish, Kill, LineTurns
  <2> QED BY <1>1, <1>2, <1>4, <2>1, DocsStutter DEF DocsInv
<1>5. CASE WriteReport
  <2>1. DocOK(Report) BY DEF Report, ReportDoc, DocOK
  <2>2. DocsOK' BY <1>2, <1>5, <2>1, DocsMore DEF WriteReport, vars
  <2> QED BY <1>1, <2>2 DEF DocsInv
<1>6. ASSUME NEW anonymise \in BOOLEAN, Write(anonymise) PROVE DocsInv'
  <2>1. DocOK(Document(anonymise)) BY <1>2, DocumentIs
  <2>2. DocsOK' BY <1>2, <1>6, <2>1, DocsMore DEF Write
  <2> QED BY <1>1, <2>2 DEF DocsInv
<1>7. ASSUME NEW vin, Again(vin) PROVE DocsInv'
  <2>1. stage' # "shared" /\ UNCHANGED <<docs, shared>> BY <1>7 DEF Again, Begun
  <2> QED BY <1>1, <1>2, <2>1, DocsStutter DEF DocsInv
<1>8. CASE Share
  <2>1. shared' = Observe(docs) /\ UNCHANGED docs BY <1>8 DEF Share
  <2>2. shared' = Observe(docs') BY <2>1
  <2>3. ASSUME NEW i \in DOMAIN docs PROVE DocOK(docs[i])'
    BY <1>2, <2>1 DEF DocsOK, DocOK, SweepDoc, ReportDoc, Entries
  <2>4. DocsOK' BY <1>2, <2>1, <2>2, <2>3 DEF DocsOK
  <2> QED BY <1>1, <2>4 DEF DocsInv
<1>9. CASE UNCHANGED allvars
  <2>1. UNCHANGED <<docs, shared, stage>> BY <1>9 DEF allvars, vars
  <2> QED BY <1>1, <1>2, <2>1, DocsStutter DEF DocsInv
<1> QED BY <1>3, <1>4, <1>5, <1>6, <1>7, <1>8, <1>9 DEF SharingNext

LEMMA DocsInit == SharingInit => DocsInv
<1> SUFFICES ASSUME SharingInit PROVE DocsInv OBVIOUS
<1> USE DEF SharingInit, Init
<1>1. BoundsKept BY BoundFacts DEF NoScan, BoundsKept
<1>2. RowsOK BY DEF NoScan, RowsOK
<1>3. docs = <<>> /\ shared = Nothing /\ stage = "listen" OBVIOUS
<1>4. DocsOK BY <1>3, EmptySeq, BoundFacts DEF DocsOK
<1> QED BY <1>1, <1>2, <1>4 DEF DocsInv

LEMMA DocsInvariant == Spec => []DocsInv
<1>1. CountInv /\ SweepInv /\ DocsInv /\ [SharingNext]_allvars => DocsInv' BY DocsStep
<1> QED BY <1>1, CountInvariant, SweepInvariant, DocsInit, PTL DEF Spec

\* The sweeps keep their bounds, ask only pairs that an address sweep found, and stop counting at
\* their limits.
THEOREM TypeTheorem == Spec => []TypeOK
<1>1. SweepInv /\ DocsInv => TypeOK
  <2> SUFFICES ASSUME SweepInv, DocsInv PROVE TypeOK OBVIOUS
  <2>1. \A i \in DOMAIN heard : heard[i].id \in Ids /\ heard[i].probe \in {0} \cup Low .. High
    <3>1. heard \in Seq(FrameType) BY DEF SweepInv, SweepOK
    <3>2. \A i \in DOMAIN heard : heard[i] \in FrameType BY <3>1
    <3> QED BY <3>2 DEF FrameType
  <2>2. shared.refused \in BOOLEAN
    <3>1. CASE shared = Nothing BY <3>1 DEF Nothing
    <3>2. ASSUME NEW ds, shared = Observe(ds) PROVE shared.refused \in BOOLEAN
      BY <3>2 DEF Observe, Reduced, Nothing
    <3> QED BY <3>1, <3>2 DEF DocsInv, DocsOK
  <2> QED BY <2>1, <2>2 DEF TypeOK, SweepInv, SweepOK, DocsInv, BoundsKept, DocsOK
<1> QED BY <1>1, SweepInvariant, DocsInvariant, PTL
-----------------------------------------------------------------------------
(* What is published does not depend on the values. *)

\* Of some positions of a sequence, one is the last.
LEMMA LastExists ==
  ASSUME NEW n \in Nat, NEW I \in SUBSET (1 .. n), I # {}
  PROVE  \E i \in I : \A j \in I : j <= i
<1> DEFINE D == {n - i : i \in I}
<1>1. D \subseteq Nat /\ D # {}
  <2>1. \A i \in I : n - i \in Nat OBVIOUS
  <2> QED BY <2>1
<1>2. PICK x \in D : \A y \in D : <<y, x>> \notin OpToRel(<, Nat)
  <2> HIDE DEF D
  <2> QED BY <1>1, NatLessThanWellFounded, WFMin
<1>3. \A y \in D : ~(y < x)
  <2> HIDE DEF D
  <2> QED BY <1>1, <1>2 DEF OpToRel
<1>4. PICK i \in I : x = n - i OBVIOUS
<1>5. ASSUME NEW j \in I PROVE j <= i
  <2>1. n - j \in D /\ i \in 1 .. n /\ j \in 1 .. n OBVIOUS
  <2>2. ~(n - j < n - i) BY <2>1, <1>3, <1>4
  <2> QED BY <2>1, <2>2
<1> QED BY <1>5

\* A value and the first of its shape are taken for the same.
LEMMA SubstituteIs ==
  ASSUME NEW v \in {Redacted, 0} \cup Values
  PROVE  /\ IsHex(Substitute(v)) <=> IsHex(v)
         /\ IsHex(v) => Content[Substitute(v)].length = Content[v].length
<1>1. Len(Content) \in Nat /\ DOMAIN Content = Values BY SharingAssumption DEF Values
<1>2. CASE v \in Values
  <2>1. v > 0 /\ v \in DOMAIN Content BY <1>1, <1>2 DEF Values
  <2>2. SameShape(v, v) BY DEF SameShape
  <2> DEFINE w == CHOOSE w \in DOMAIN Content : SameShape(v, w)
  <2>3. w \in DOMAIN Content /\ SameShape(v, w) BY <2>1, <2>2
  <2>4. Substitute(v) = w BY <2>1 DEF Substitute
  <2> HIDE DEF w
  <2>5. w > 0 BY <2>3, <1>1 DEF Values
  <2> QED BY <2>1, <2>3, <2>4, <2>5 DEF SameShape, IsHex
<1>3. CASE v \in {Redacted, 0}
  <2>1. ~(v > 0) BY <1>3 DEF Redacted
  <2>2. Substitute(v) = v BY <2>1 DEF Substitute
  <2> QED BY <2>1, <2>2 DEF IsHex
<1> QED BY <1>2, <1>3

\* The shape of an entry is not changed by another value of the same shape.
LEMMA ShapeKept ==
  ASSUME NEW e, e = [did |-> e.did, status |-> e.status, raw |-> e.raw, text |-> e.text],
         e.raw \in {Redacted, 0} \cup Values
  PROVE  Shape([e EXCEPT !.raw = Substitute(@)]) = Shape(e)
<1> DEFINE f == [e EXCEPT !.raw = Substitute(@)]
<1>1. f.did = e.did /\ f.status = e.status /\ f.text = e.text /\ f.raw = Substitute(e.raw) OBVIOUS
<1>2. IsHex(f.raw) <=> IsHex(e.raw) BY <1>1, SubstituteIs
<1>3. IsHex(e.raw) => Content[f.raw].length = Content[e.raw].length BY <1>1, SubstituteIs
<1> HIDE DEF f
<1>4. With(IsHex(f.raw), "length", Content[f.raw].length)
        = With(IsHex(e.raw), "length", Content[e.raw].length)
  BY <1>2, <1>3 DEF With
<1>5. With(IsHex(f.raw), "type", IF f.text THEN "ascii" ELSE "uint")
        = With(IsHex(e.raw), "type", IF e.text THEN "ascii" ELSE "uint")
  BY <1>1, <1>2 DEF With
<1>6. Shape(f) = Shape(e) BY <1>1, <1>4, <1>5 DEF Shape
<1> QED BY <1>6 DEF f

\* Nor is what a document tells.
LEMMA ToldKept ==
  ASSUME NEW doc, DocOK(doc)
  PROVE  Told(Blanked(doc)) = Told(doc) /\ Blanked(doc).vin = doc.vin
<1>1. CASE doc.schema = "didscan" /\ SweepDoc(doc)
  <2> DEFINE es == doc.entries
             fs == [i \in DOMAIN es |-> [es[i] EXCEPT !.raw = Substitute(@)]]
             b  == Blanked(doc)
  <2>1. b = [schema |-> "didscan", module |-> doc.module, vin |-> doc.vin,
             anonymised |-> doc.anonymised, known |-> doc.known, entries |-> fs]
    <3>1. doc = [schema |-> "didscan", module |-> doc.module, vin |-> doc.vin,
                 anonymised |-> doc.anonymised, known |-> doc.known, entries |-> es]
      BY <1>1 DEF SweepDoc
    <3>2. b = [doc EXCEPT !.entries = fs] BY <1>1 DEF Blanked, BlankedEntries
    <3> HIDE DEF fs, b
    <3> QED BY <3>1, <3>2
  <2>2. /\ b.schema = "didscan" /\ b.module = doc.module /\ b.vin = doc.vin /\ b.entries = fs
    BY <2>1
  <2>3. ASSUME NEW i \in DOMAIN es
        PROVE  fs[i].did = es[i].did /\ fs[i].status = es[i].status /\ Shape(fs[i]) = Shape(es[i])
    <3>1. /\ es[i] = [did |-> es[i].did, status |-> es[i].status, raw |-> es[i].raw, text |-> es[i].text]
          /\ es[i].raw \in {Redacted, 0} \cup Values
      BY <1>1 DEF SweepDoc, Entries
    <3>2. fs[i] = [es[i] EXCEPT !.raw = Substitute(@)] OBVIOUS
    <3>3. Shape(fs[i]) = Shape(es[i]) BY <3>1, <3>2, ShapeKept
    <3>4. fs[i].did = es[i].did /\ fs[i].status = es[i].status BY <3>1, <3>2
    <3> QED BY <3>3, <3>4
  <2>4. DOMAIN fs = DOMAIN es OBVIOUS
  <2>5. es \in Seq({es[i] : i \in DOMAIN es}) BY <1>1 DEF SweepDoc, Entries
  <2>6. DOMAIN es = 1 .. Len(es) /\ Len(es) \in Nat BY <2>5, LenProperties
  <2> HIDE DEF es, fs, b
  <2>7. ASSUME NEW i \in DOMAIN es PROVE Exists(fs[i]) <=> Exists(es[i])
    BY <2>3 DEF Exists
  <2> DEFINE J == {i \in DOMAIN es : Exists(es[i])}
             I(d) == {i \in DOMAIN es : es[i].did = d /\ Exists(es[i])}
  <2>8. {i \in DOMAIN fs : Exists(fs[i])} = J BY <2>4, <2>7
  <2>9. \A d : {i \in DOMAIN fs : fs[i].did = d /\ Exists(fs[i])} = I(d) BY <2>3, <2>4, <2>7
  <2>10. {fs[i].did : i \in {j \in DOMAIN fs : Exists(fs[j])}} = {es[i].did : i \in J}
    <3>1. \A i \in J : fs[i].did = es[i].did BY <2>3
    <3> HIDE DEF J
    <3> QED BY <2>8, <3>1
  <2>11. ASSUME NEW d \in {es[i].did : i \in J} PROVE Shape(LastOn(b, d)) = Shape(LastOn(doc, d))
    <3> DEFINE l == CHOOSE i \in I(d) : \A j \in I(d) : j <= i
    <3>1. I(d) \in SUBSET (1 .. Len(es)) /\ I(d) # {} BY <2>6
    <3>2. l \in I(d)
      <4> HIDE DEF I
      <4>1. \E i \in I(d) : \A j \in I(d) : j <= i BY <3>1, <2>6, LastExists
      <4> QED BY <4>1
    <3>3. LastOn(doc, d) = es[l] BY DEF LastOn, es
    <3>4. LastOn(b, d) = fs[l]
      <4> HIDE DEF I
      <4> QED BY <2>2, <2>9 DEF LastOn
    <3>5. l \in DOMAIN es BY <3>2
    <3> HIDE DEF l
    <3> QED BY <3>3, <3>4, <3>5, <2>3
  <2>12. Swept(b) = Swept(doc)
    <3> DEFINE D == {es[i].did : i \in J}
    <3>1. Swept(doc) = [d \in D |-> Shape(LastOn(doc, d))] BY DEF Swept, es
    <3>2. Swept(b) = [d \in D |-> Shape(LastOn(b, d))] BY <2>2, <2>10 DEF Swept
    <3>3. \A d \in D : Shape(LastOn(b, d)) = Shape(LastOn(doc, d)) BY <2>11
    <3> HIDE DEF D
    <3> QED BY <3>1, <3>2, <3>3
  <2>13. Told(b) = Told(doc) BY <1>1, <2>2, <2>12 DEF Told, Canonical
  <2> QED BY <2>2, <2>13 DEF b
<1>2. CASE doc.schema = "inspection" /\ ReportDoc(doc)
  <2> DEFINE rs == [n \in DOMAIN Named |-> Substitute(Named[n])]
             b  == Blanked(doc)
  <2>1. doc.readings = Named /\ doc.vin = TRUE BY <1>2 DEF ReportDoc
  <2>2. b = [doc EXCEPT !.readings = rs, !.facts = {}] BY <1>2, <2>1 DEF Blanked, BlankedReadings
  <2> HIDE DEF rs, b
  <2>3. b = [schema |-> "inspection", module |-> doc.module, vin |-> TRUE, anonymised |-> FALSE,
             known |-> TRUE, readings |-> rs, facts |-> {}]
    <3> DEFINE at == doc.module
    <3>1. doc = [schema |-> "inspection", module |-> at, vin |-> TRUE, anonymised |-> FALSE,
                 known |-> TRUE, readings |-> Named, facts |-> Numbers]
      BY <1>2 DEF ReportDoc
    <3> HIDE DEF at
    <3>2. b = [schema |-> "inspection", module |-> at, vin |-> TRUE, anonymised |-> FALSE,
               known |-> TRUE, readings |-> rs, facts |-> {}]
      BY <2>2, <3>1
    <3> QED BY <3>2 DEF at
  <2>4. b.schema = "inspection" /\ b.module = doc.module /\ b.vin = doc.vin /\ b.readings = rs
    BY <2>1, <2>3
  <2>5. DOMAIN rs = DOMAIN Named BY DEF rs
  <2>6. Reported(b) = Reported(doc) BY <2>1, <2>4, <2>5 DEF Reported
  <2>7. Told(b) = Told(doc) BY <1>2, <2>4, <2>6 DEF Told, Canonical
  <2> QED BY <2>4, <2>7 DEF b
<1> QED BY <1>1, <1>2 DEF DocOK

\* What is made of documents that are not refused is made of any that tell the same.
LEMMA ReducedKept ==
  ASSUME DocsOK
  PROVE  Reduced(docs) = Reduced([i \in DOMAIN docs |-> Blanked(docs[i])])
<1> DEFINE bs == [i \in DOMAIN docs |-> Blanked(docs[i])]
           T(ds) == [i \in DOMAIN ds |-> Told(ds[i])]
           Fold(told) == FoldLeft(Gathered, <<>>, told)
<1>1. \A i \in DOMAIN docs : Told(bs[i]) = Told(docs[i]) /\ bs[i].vin = docs[i].vin
  BY ToldKept DEF DocsOK
<1>2. DOMAIN bs = DOMAIN docs OBVIOUS
<1> HIDE DEF bs
<1>3. T(bs) = T(docs) BY <1>1, <1>2
<1>4. (\E i \in DOMAIN bs : bs[i].vin) <=> (\E i \in DOMAIN docs : docs[i].vin) BY <1>1, <1>2
<1>5. /\ Reduced(bs) = [refused |-> FALSE, prefix |-> \E i \in DOMAIN bs : bs[i].vin, modules |-> Fold(T(bs))]
      /\ Reduced(docs) = [refused |-> FALSE, prefix |-> \E i \in DOMAIN docs : docs[i].vin, modules |-> Fold(T(docs))]
  BY DEF Reduced
<1> HIDE DEF T, Fold
<1>6. Fold(T(bs)) = Fold(T(docs)) BY <1>3
<1>7. Reduced(bs) = Reduced(docs) BY <1>4, <1>5, <1>6
<1> QED BY <1>7 DEF bs

\* Nothing that is published depends on what a module's values are, only on their shapes, and what
\* is written to be shared does not hold the VIN (candidates.py:283-298 and 395-477,
\* didscan.py:153-170).
THEOREM SharedTheorem == Spec => []SharedTellsNoCar
<1>1. DocsInv => SharedTellsNoCar
  <2> SUFFICES ASSUME DocsOK PROVE SharedTellsNoCar BY DEF DocsInv
  <2>1. ASSUME stage = "shared", ~shared.refused
        PROVE  shared = Reduced([i \in DOMAIN docs |-> Blanked(docs[i])])
    <3>1. shared = Observe(docs) BY <2>1 DEF DocsOK
    <3>2. shared = Reduced(docs) BY <2>1, <3>1 DEF Observe, Nothing
    <3> QED BY <3>2, ReducedKept
  <2>2. ASSUME NEW i \in DOMAIN docs, docs[i].anonymised /\ docs[i].known,
               NEW j \in DOMAIN docs[i].entries, IsHex(docs[i].entries[j].raw)
        PROVE  ~Content[docs[i].entries[j].raw].vin
    <3>1. DocOK(docs[i]) BY DEF DocsOK
    <3>2. SweepDoc(docs[i]) BY <2>2, <3>1 DEF DocOK, ReportDoc
    <3> DEFINE e == docs[i].entries[j]
    <3>3. e.raw \in {Redacted, 0} \cup Values /\ (e.raw \in Values => ~Content[e.raw].vin)
      BY <2>2, <3>2 DEF SweepDoc, Entries
    <3>4. e.raw \notin {Redacted, 0} BY <2>2 DEF IsHex, Redacted
    <3> QED BY <3>3, <3>4
  <2> QED BY <2>1, <2>2 DEF SharedTellsNoCar
<1> QED BY <1>1, DocsInvariant, PTL

-----------------------------------------------------------------------------
(* Interrupted and resumed: what is left to sweep is the rest of the list. *)

\* The ranges as they are by default: no identifier is in two of them.
RangesApart ==
  /\ Ranges \in Seq(Nat \X Nat)
  /\ \A i, j \in DOMAIN Ranges, d \in Nat :
       Ranges[i][1] <= d /\ d <= Ranges[i][2] /\ Ranges[j][1] <= d /\ d <= Ranges[j][2] => i = j

LEMMA LeastExists ==
  ASSUME NEW D \in SUBSET Nat, D # {}
  PROVE  \E x \in D : \A y \in D : x <= y
<1>1. PICK x \in D : \A y \in D : <<y, x>> \notin OpToRel(<, Nat)
  BY NatLessThanWellFounded, WFMin
<1>2. \A y \in D : ~(y < x)
  BY <1>1 DEF OpToRel
<1> QED BY <1>2

\* What holds at the beginning and after each step holds up to n: the steps are in a set.
LEMMA UpTo ==
  ASSUME NEW n \in Nat, NEW Good \in SUBSET Nat, 0 \in Good,
         \A i \in 1 .. n : i - 1 \in Good => i \in Good
  PROVE  \A i \in 0 .. n : i \in Good
<1> DEFINE Bad == {i \in 0 .. n : i \notin Good}
<1>1. SUFFICES ASSUME Bad # {} PROVE FALSE OBVIOUS
<1>2. PICK i \in Bad : \A j \in Bad : i <= j
  <2>1. Bad \in SUBSET Nat OBVIOUS
  <2> HIDE DEF Bad
  <2> QED BY <1>1, <2>1, LeastExists
<1>3. i \in 1 .. n /\ i - 1 \in 0 .. n /\ i - 1 \notin Bad
  <2>1. i # 0 /\ i \in 0 .. n BY <1>2
  <2> HIDE DEF Bad
  <2> QED BY <1>2, <2>1
<1> QED BY <1>2, <1>3

\* Steps from a value to the next one make a function.
Steps(f, n, S, b, g) ==
  f \in [0 .. n -> S] /\ f[0] = b /\ \A i \in 1 .. n : f[i] = g[<<i, f[i - 1]>>]
LEMMA StepsExist ==
  ASSUME NEW n \in Nat, NEW S, NEW b \in S, NEW g \in [(1 .. n) \X S -> S]
  PROVE  \E f : Steps(f, n, S, b, g)
<1> DEFINE Fits(f, k) == Steps(f, k, S, b, g)
           Good == {k \in 0 .. n : \E f : Fits(f, k)}
<1> USE DEF Steps
<1>1. 0 \in Good
  <2>1. Fits([i \in 0 .. 0 |-> b], 0) OBVIOUS
  <2> HIDE DEF Fits
  <2> QED BY <2>1
<1>2. ASSUME NEW k \in 1 .. n, k - 1 \in Good PROVE k \in Good
  <2>0. \E f : Fits(f, k - 1)
    <3> HIDE DEF Fits
    <3> QED BY <1>2
  <2>1. PICK f : Fits(f, k - 1) BY <2>0
  <2> DEFINE h == [i \in 0 .. k |-> IF i < k THEN f[i] ELSE g[<<k, f[k - 1]>>]]
  <2>2. f[k - 1] \in S /\ g[<<k, f[k - 1]>>] \in S BY <2>1
  <2>3. h \in [0 .. k -> S] BY <2>1, <2>2
  <2>4. h[0] = b BY <2>1
  <2>5. ASSUME NEW i \in 1 .. k PROVE h[i] = g[<<i, h[i - 1]>>]
    <3>1. h[i - 1] = f[i - 1] OBVIOUS
    <3>2. CASE i = k
      <4>1. h[i] = g[<<k, f[k - 1]>>] BY <3>2
      <4> QED BY <3>1, <3>2, <4>1
    <3>3. CASE i # k
      <4>1. i \in 1 .. k - 1 /\ h[i] = f[i] BY <3>3
      <4> QED BY <2>1, <3>1, <4>1
    <3> QED BY <3>2, <3>3
  <2>6. Fits(h, k) BY <2>3, <2>4, <2>5
  <2> HIDE DEF Fits, h
  <2> QED BY <2>6
<1> HIDE DEF Fits
<1>3. Good \in SUBSET Nat OBVIOUS
<1> HIDE DEF Good
<1>4. \A i \in 0 .. n : i \in Good BY <1>1, <1>2, <1>3, UpTo
<1>5. \E f : Fits(f, n) BY <1>4 DEF Good
<1> QED BY <1>5 DEF Fits

LEMMA RangeIs ==
  ASSUME RangesApart, NEW i \in 1 .. Len(Ranges)
  PROVE  /\ Identifiers(i) \in Seq(Nat)
         /\ \A k \in 1 .. Len(Identifiers(i)) :
              /\ Identifiers(i)[k] = Ranges[i][1] + k - 1
              /\ Ranges[i][1] <= Identifiers(i)[k] /\ Identifiers(i)[k] <= Ranges[i][2]
<1> DEFINE low == Ranges[i][1]
           high == Ranges[i][2]
           s == Identifiers(i)
<1>1. low \in Nat /\ high \in Nat BY DEF RangesApart
<1>2. s = [k \in 1 .. high - low + 1 |-> low + k - 1] BY DEF Identifiers
<1> HIDE DEF low, high, s
<1>3. CASE high - low + 1 \in Nat
  <2>1. s \in [1 .. high - low + 1 -> Nat] BY <1>1, <1>2
  <2>2. s \in Seq(Nat) /\ Len(s) = high - low + 1 BY <2>1, <1>3
  <2>3. \A k \in 1 .. Len(s) : s[k] = low + k - 1 /\ low <= s[k] /\ s[k] <= high
    <3>1. \A k \in 1 .. high - low + 1 : s[k] = low + k - 1 BY <1>2
    <3>2. \A k \in 1 .. high - low + 1 : low <= low + k - 1 /\ low + k - 1 <= high BY <1>1, <1>3
    <3> QED BY <2>2, <3>1, <3>2
  <2> QED BY <2>2, <2>3 DEF low, high, s
<1>4. CASE high - low + 1 \notin Nat
  <2>1. 1 .. high - low + 1 = 1 .. 0 BY <1>1, <1>4
  <2>2. s = [k \in 1 .. 0 |-> low + k - 1] BY <1>2, <2>1
  <2>3. s = <<>> BY <2>2
  <2> QED BY <2>3 DEF s
<1> QED BY <1>3, <1>4

LEMMA UpToRangeIs ==
  ASSUME RangesApart
  PROVE  /\ UpToRange \in [0 .. Len(Ranges) -> Seq(Nat)]
         /\ UpToRange[0] = <<>>
         /\ \A i \in 1 .. Len(Ranges) : UpToRange[i] = UpToRange[i - 1] \o Identifiers(i)
<1> DEFINE n == Len(Ranges)
           Is(f) == f = [i \in 0 .. n |-> IF i = 0 THEN <<>> ELSE f[i - 1] \o Identifiers(i)]
           g == [x \in (1 .. n) \X Seq(Nat) |-> x[2] \o Identifiers(x[1])]
<1>1. n \in Nat BY DEF RangesApart
<1>2. \A i \in 1 .. n : Identifiers(i) \in Seq(Nat) BY RangeIs
<1>3. g \in [(1 .. n) \X Seq(Nat) -> Seq(Nat)]
  <2>1. ASSUME NEW x \in (1 .. n) \X Seq(Nat) PROVE x[2] \o Identifiers(x[1]) \in Seq(Nat)
    <3>1. x[2] \in Seq(Nat) /\ Identifiers(x[1]) \in Seq(Nat) BY <1>2
    <3> QED BY <3>1
  <2> QED BY <2>1
<1>4. ASSUME NEW i \in 1 .. n, NEW s \in Seq(Nat) PROVE g[<<i, s>>] = s \o Identifiers(i)
  <2> DEFINE x == <<i, s>>
  <2>1. x \in (1 .. n) \X Seq(Nat) /\ x[1] = i /\ x[2] = s OBVIOUS
  <2> HIDE DEF x
  <2> QED BY <2>1
<1> HIDE DEF g
<1>5. <<>> \in Seq(Nat) OBVIOUS
<1>6. PICK f \in [0 .. n -> Seq(Nat)] : f[0] = <<>> /\ \A i \in 1 .. n : f[i] = g[<<i, f[i - 1]>>]
  <2> DEFINE S == Seq(Nat)
             b == <<>>
  <2>1. b \in S /\ g \in [(1 .. n) \X S -> S] BY <1>3, <1>5
  <2> HIDE DEF n, S, b
  <2>2. \E f : Steps(f, n, S, b, g) BY <1>1, <2>1, StepsExist
  <2> QED BY <2>2 DEF S, b, Steps
<1>7. \A i \in 1 .. n : f[i] = f[i - 1] \o Identifiers(i)
  <2> SUFFICES ASSUME NEW i \in 1 .. n PROVE f[i] = f[i - 1] \o Identifiers(i) OBVIOUS
  <2>1. f[i - 1] \in Seq(Nat) BY <1>1, <1>6
  <2> QED BY <1>4, <1>6, <2>1
<1>8. Is(f)
  <2> HIDE DEF n
  <2>1. f = [i \in 0 .. n |-> f[i]] BY <1>6
  <2>2. \A i \in 0 .. n : f[i] = IF i = 0 THEN <<>> ELSE f[i - 1] \o Identifiers(i)
    <3>1. f[0] = <<>> BY <1>6
    <3>2. \A i \in 0 .. n : i # 0 => i \in 1 .. n BY <1>1
    <3> QED BY <1>7, <3>1, <3>2
  <2> QED BY <2>1, <2>2
<1>9. UpToRange = CHOOSE h : Is(h) BY DEF UpToRange
<1>10. Is(UpToRange) BY <1>8, <1>9
<1> DEFINE u == UpToRange
<1> HIDE DEF u
<1>11. Is(u) BY <1>10 DEF u
<1>12. u[0] = <<>> /\ \A i \in 1 .. n : u[i] = u[i - 1] \o Identifiers(i)
  <2> HIDE DEF n
  <2>1. \A i \in 0 .. n : u[i] = IF i = 0 THEN <<>> ELSE u[i - 1] \o Identifiers(i) BY <1>11
  <2>2. 0 \in 0 .. n /\ \A i \in 1 .. n : i \in 0 .. n /\ i # 0 BY <1>1
  <2> QED BY <2>1, <2>2
<1> DEFINE Good == {i \in Nat : i <= n => u[i] = f[i]}
<1>13. 0 \in Good BY <1>6, <1>12
<1>14. ASSUME NEW i \in 1 .. n, i - 1 \in Good PROVE i \in Good
  <2> HIDE DEF n
  <2>1. u[i - 1] = f[i - 1] /\ i \in Nat BY <1>1, <1>14
  <2>2. u[i] = f[i] BY <1>7, <1>12, <2>1
  <2> QED BY <2>1, <2>2
<1>15. \A i \in 0 .. n : i \in Good
  <2> HIDE DEF Good, n
  <2>1. Good \in SUBSET Nat BY DEF Good
  <2> QED BY <1>1, <1>13, <1>14, <2>1, UpTo
<1>16. u = f
  <2> HIDE DEF n
  <2>1. DOMAIN u = 0 .. n /\ u = [i \in 0 .. n |-> u[i]] BY <1>11
  <2>2. \A i \in 0 .. n : u[i] = f[i] BY <1>1, <1>15
  <2> QED BY <1>6, <2>1, <2>2
<1> QED BY <1>6, <1>12, <1>16 DEF u

\* The list has no identifier twice.
Distinct(s) == \A j, k \in 1 .. Len(s) : s[j] = s[k] => j = k
LEMMA ToSweepIs ==
  ASSUME RangesApart
  PROVE  ToSweep \in Seq(Nat) /\ Distinct(ToSweep)
<1> DEFINE n == Len(Ranges)
           u == UpToRange
           Within(s, i) == \A k \in 1 .. Len(s) : \E j \in 1 .. i :
                             Ranges[j][1] <= s[k] /\ s[k] <= Ranges[j][2]
           Good == {i \in 0 .. n : Distinct(u[i]) /\ Within(u[i], i)}
<1>1. /\ n \in Nat /\ u \in [0 .. n -> Seq(Nat)] /\ u[0] = <<>>
      /\ \A i \in 1 .. n : u[i] = u[i - 1] \o Identifiers(i)
  BY UpToRangeIs DEF RangesApart
<1> HIDE DEF u
<1>2. 0 \in Good BY <1>1 DEF Distinct
<1>3. ASSUME NEW i \in 1 .. n, i - 1 \in Good PROVE i \in Good
  <2> DEFINE a == u[i - 1]
             r == Identifiers(i)
             c == a \o r
  <2>1. a \in Seq(Nat) /\ u[i] = c
    <3>1. i - 1 \in 0 .. n BY <1>1
    <3> QED BY <1>1, <3>1
  <2>2. r \in Seq(Nat)
        /\ \A k \in 1 .. Len(r) : /\ r[k] = Ranges[i][1] + k - 1
                                  /\ Ranges[i][1] <= r[k] /\ r[k] <= Ranges[i][2]
    BY RangeIs
  <2>3. Distinct(a) /\ Within(a, i - 1) BY <1>3
  <2>4. Ranges[i][1] \in Nat BY DEF RangesApart
  <2> HIDE DEF a, r
  <2>5. /\ c \in Seq(Nat) /\ Len(c) = Len(a) + Len(r)
        /\ \A k \in 1 .. Len(a) : c[k] = a[k]
        /\ \A k \in Len(a) + 1 .. Len(c) : k - Len(a) \in 1 .. Len(r) /\ c[k] = r[k - Len(a)]
    BY <2>1, <2>2
  <2> HIDE DEF c
  <2>6. \A k \in 1 .. Len(a) : \E j \in 1 .. i - 1 : Ranges[j][1] <= c[k] /\ c[k] <= Ranges[j][2]
    BY <2>3, <2>5
  <2>7. \A k \in Len(a) + 1 .. Len(c) : Ranges[i][1] <= c[k] /\ c[k] <= Ranges[i][2]
    BY <2>2, <2>5
  <2>8. Within(c, i)
    <3> SUFFICES ASSUME NEW k \in 1 .. Len(c)
                 PROVE  \E j \in 1 .. i : Ranges[j][1] <= c[k] /\ c[k] <= Ranges[j][2]
      OBVIOUS
    <3>1. CASE k \in 1 .. Len(a) BY <2>6, <3>1
    <3>2. CASE k \in Len(a) + 1 .. Len(c) BY <2>7, <3>2
    <3> QED BY <2>1, <2>2, <2>5, <3>1, <3>2
  <2>9. \A j, k \in 1 .. Len(a) : c[j] = c[k] => j = k BY <2>3, <2>5 DEF Distinct
  <2>10. \A j, k \in Len(a) + 1 .. Len(c) : c[j] = c[k] => j = k
    <3> SUFFICES ASSUME NEW j \in Len(a) + 1 .. Len(c), NEW k \in Len(a) + 1 .. Len(c), c[j] = c[k]
                 PROVE  j = k
      OBVIOUS
    <3>1. r[j - Len(a)] = r[k - Len(a)] BY <2>5
    <3>2. j - Len(a) \in 1 .. Len(r) /\ k - Len(a) \in 1 .. Len(r) BY <2>5
    <3>3. Ranges[i][1] + (j - Len(a)) - 1 = Ranges[i][1] + (k - Len(a)) - 1 BY <2>2, <3>1, <3>2
    <3>4. Len(a) \in Nat BY <2>1
    <3> QED BY <2>4, <3>3, <3>4
  <2>11. \A j \in 1 .. Len(a), k \in Len(a) + 1 .. Len(c) : c[j] # c[k]
    <3> SUFFICES ASSUME NEW j \in 1 .. Len(a), NEW k \in Len(a) + 1 .. Len(c), c[j] = c[k]
                 PROVE  FALSE
      OBVIOUS
    <3>1. PICK g \in 1 .. i - 1 : Ranges[g][1] <= c[j] /\ c[j] <= Ranges[g][2] BY <2>6
    <3>2. Ranges[i][1] <= c[j] /\ c[j] <= Ranges[i][2] BY <2>7
    <3>3. c[j] \in Nat
      <4>1. j \in 1 .. Len(c) BY <2>1, <2>2, <2>5
      <4> QED BY <2>5, <4>1
    <3>4. g \in DOMAIN Ranges /\ i \in DOMAIN Ranges /\ g # i BY <1>1 DEF RangesApart
    <3> QED BY <3>1, <3>2, <3>3, <3>4 DEF RangesApart
  <2>12. Distinct(c)
    <3> SUFFICES ASSUME NEW j \in 1 .. Len(c), NEW k \in 1 .. Len(c), c[j] = c[k] PROVE j = k
      BY DEF Distinct
    <3>1. \A x \in 1 .. Len(c) : x \in 1 .. Len(a) \/ x \in Len(a) + 1 .. Len(c)
      BY <2>1, <2>2, <2>5
    <3> QED BY <2>9, <2>10, <2>11, <3>1
  <2> HIDE DEF Within
  <2> QED BY <1>1, <2>1, <2>8, <2>12
<1> HIDE DEF Within
<1>4. Good \in SUBSET Nat BY <1>1
<1>5. \A i \in 0 .. n : i \in Good
  <2> HIDE DEF Good, n
  <2> QED BY <1>1, <1>2, <1>3, <1>4, UpTo
<1>6. ToSweep = u[n] BY DEF ToSweep, u
<1> QED BY <1>1, <1>5, <1>6

\* The function that leaves out what is skipped exists.
LEMMA LeftIs ==
  ASSUME RangesApart, NEW skip
  PROVE  /\ Left(skip) \in [0 .. Len(ToSweep) -> Seq(Nat)]
         /\ Left(skip)[0] = <<>>
         /\ \A i \in 1 .. Len(ToSweep) :
              Left(skip)[i] = IF ToSweep[i] \in skip THEN Left(skip)[i - 1]
                              ELSE Append(Left(skip)[i - 1], ToSweep[i])
<1> DEFINE n == Len(ToSweep)
           t == ToSweep
           Next(s, i) == IF t[i] \in skip THEN s ELSE Append(s, t[i])
           Is(f) == f = [i \in 0 .. n |-> IF i = 0 THEN <<>> ELSE Next(f[i - 1], i)]
           g == [x \in (1 .. n) \X Seq(Nat) |-> Next(x[2], x[1])]
<1>1. n \in Nat /\ \A i \in 1 .. n : t[i] \in Nat BY ToSweepIs
<1>2. \A i \in 1 .. n, s \in Seq(Nat) : Next(s, i) \in Seq(Nat) BY <1>1
<1> HIDE DEF n, Next
<1>3. g \in [(1 .. n) \X Seq(Nat) -> Seq(Nat)]
  <2>1. \A x \in (1 .. n) \X Seq(Nat) : Next(x[2], x[1]) \in Seq(Nat) BY <1>2
  <2> QED BY <2>1
<1>4. ASSUME NEW i \in 1 .. n, NEW s \in Seq(Nat) PROVE g[<<i, s>>] = Next(s, i)
  <2> DEFINE x == <<i, s>>
  <2>1. x \in (1 .. n) \X Seq(Nat) /\ x[1] = i /\ x[2] = s OBVIOUS
  <2> HIDE DEF x
  <2> QED BY <2>1
<1> HIDE DEF g
<1>5. <<>> \in Seq(Nat) OBVIOUS
<1>6. PICK f : f \in [0 .. n -> Seq(Nat)] /\ f[0] = <<>> /\ \A i \in 1 .. n : f[i] = g[<<i, f[i - 1]>>]
  <2> DEFINE S == Seq(Nat)
             b == <<>>
  <2>1. b \in S /\ g \in [(1 .. n) \X S -> S] BY <1>3, <1>5
  <2> HIDE DEF S, b
  <2>2. \E f : Steps(f, n, S, b, g) BY <1>1, <2>1, StepsExist
  <2> QED BY <2>2 DEF S, b, Steps
<1>7. \A i \in 1 .. n : f[i] = Next(f[i - 1], i)
  <2> SUFFICES ASSUME NEW i \in 1 .. n PROVE f[i] = Next(f[i - 1], i) OBVIOUS
  <2>1. f[i - 1] \in Seq(Nat) BY <1>1, <1>6
  <2> QED BY <1>4, <1>6, <2>1
<1>8. Is(f)
  <2>1. f = [i \in 0 .. n |-> f[i]] BY <1>6
  <2>2. \A i \in 0 .. n : f[i] = IF i = 0 THEN <<>> ELSE Next(f[i - 1], i)
    <3>1. f[0] = <<>> BY <1>6
    <3>2. \A i \in 0 .. n : i # 0 => i \in 1 .. n BY <1>1
    <3> QED BY <1>7, <3>1, <3>2
  <2> QED BY <2>1, <2>2
<1>9. Left(skip) = CHOOSE h : Is(h) BY DEF Left, Next, n
<1> DEFINE u == Left(skip)
<1> HIDE DEF u
<1>10. Is(u) BY <1>8, <1>9 DEF u
<1>11. u[0] = <<>> /\ \A i \in 1 .. n : u[i] = Next(u[i - 1], i)
  <2>1. \A i \in 0 .. n : u[i] = IF i = 0 THEN <<>> ELSE Next(u[i - 1], i) BY <1>10
  <2>2. 0 \in 0 .. n /\ \A i \in 1 .. n : i \in 0 .. n /\ i # 0 BY <1>1
  <2> QED BY <2>1, <2>2
<1> DEFINE Good == {i \in 0 .. n : u[i] \in Seq(Nat)}
<1>12. 0 \in Good
  <2>1. 0 \in 0 .. n /\ u[0] \in Seq(Nat) BY <1>1, <1>5, <1>11
  <2> QED BY <2>1
<1>13. ASSUME NEW i \in 1 .. n, i - 1 \in Good PROVE i \in Good
  <2>1. u[i - 1] \in Seq(Nat) /\ i \in 0 .. n BY <1>1, <1>13
  <2>2. Next(u[i - 1], i) \in Seq(Nat) BY <1>2, <2>1
  <2> QED BY <1>11, <2>1, <2>2
<1>14. \A i \in 0 .. n : i \in Good
  <2>1. Good \in SUBSET Nat OBVIOUS
  <2> HIDE DEF Good
  <2> QED BY <1>1, <1>12, <1>13, <2>1, UpTo
<1>15. u = [i \in 0 .. n |-> u[i]] BY <1>10
<1>16. u \in [0 .. n -> Seq(Nat)]
  <2>1. \A i \in 0 .. n : u[i] \in Seq(Nat) BY <1>14
  <2> QED BY <1>15, <2>1
<1> QED BY <1>11, <1>16 DEF u, n, Next

\* With the first n of the list skipped, the rest of it is left, in its order.
Rest(s, n) ==
  /\ s \in Seq(Nat) /\ Len(s) = Len(ToSweep) - n
  /\ \A j \in 1 .. Len(s) : s[j] = ToSweep[n + j]
LEMMA RestIs ==
  ASSUME RangesApart, NEW n \in 0 .. Len(ToSweep), NEW skip,
         skip = {ToSweep[k] : k \in 1 .. n}
  PROVE  Rest(Iterate(skip), n)
<1> DEFINE t == ToSweep
           N == Len(t)
           l == Left(skip)
           Good == {k \in 0 .. N : /\ Len(l[k]) = (IF k <= n THEN 0 ELSE k - n)
                                   /\ \A j \in 1 .. Len(l[k]) : l[k][j] = t[n + j]}
<1>1. t \in Seq(Nat) /\ N \in Nat /\ n \in Nat BY ToSweepIs
<1>2. \A k \in 1 .. N : t[k] \in skip <=> k <= n
  <2>1. \A j, k \in 1 .. N : t[j] = t[k] => j = k BY ToSweepIs DEF Distinct
  <2>2. \A k \in 1 .. n : k \in 1 .. N BY <1>1
  <2>3. \A k \in 1 .. N : k <= n => k \in 1 .. n BY <1>1
  <2> QED BY <2>1, <2>2, <2>3
<1>3. /\ l \in [0 .. N -> Seq(Nat)] /\ l[0] = <<>>
      /\ \A k \in 1 .. N : l[k] = IF t[k] \in skip THEN l[k - 1] ELSE Append(l[k - 1], t[k])
  BY LeftIs
<1> HIDE DEF t, N, l
<1>4. 0 \in Good BY <1>1, <1>3
<1>5. ASSUME NEW k \in 1 .. N, k - 1 \in Good PROVE k \in Good
  <2> DEFINE p == l[k - 1]
             q == l[k]
  <2>1. p \in Seq(Nat) /\ t[k] \in Nat
    <3>1. k - 1 \in 0 .. N BY <1>1
    <3>2. k \in 1 .. Len(t) BY DEF N
    <3>3. t[k] \in Nat BY <1>1, <3>2
    <3> QED BY <1>3, <3>1, <3>3
  <2>2. q = IF k <= n THEN p ELSE Append(p, t[k]) BY <1>2, <1>3
  <2>3. /\ Len(p) = (IF k - 1 <= n THEN 0 ELSE k - 1 - n)
        /\ \A j \in 1 .. Len(p) : p[j] = t[n + j]
    BY <1>5
  <2> HIDE DEF p, q
  <2>4. CASE k <= n
    <3>1. Len(q) = 0 BY <1>1, <2>2, <2>3, <2>4
    <3> QED BY <1>1, <2>4, <3>1 DEF q
  <2>5. CASE ~(k <= n)
    <3>1. Len(p) = k - 1 - n BY <1>1, <2>3, <2>5
    <3>2. q = Append(p, t[k]) BY <2>2, <2>5
    <3>3. Len(q) = k - n /\ q[k - n] = t[k] /\ \A j \in 1 .. k - 1 - n : q[j] = p[j]
      BY <1>1, <2>1, <3>1, <3>2
    <3>4. \A j \in 1 .. k - n : q[j] = t[n + j]
      <4> SUFFICES ASSUME NEW j \in 1 .. k - n PROVE q[j] = t[n + j] OBVIOUS
      <4>1. CASE j = k - n
        <5>1. n + j = k BY <1>1, <4>1
        <5> QED BY <3>3, <4>1, <5>1
      <4>2. CASE j # k - n
        <5>1. j \in 1 .. k - 1 - n BY <1>1, <4>2
        <5> QED BY <2>3, <3>1, <3>3, <5>1
      <4> QED BY <4>1, <4>2
    <3>5. Len(q) = IF k <= n THEN 0 ELSE k - n BY <2>5, <3>3
    <3>6. \A j \in 1 .. Len(q) : q[j] = t[n + j] BY <3>3, <3>4
    <3>7. k \in 0 .. N BY <1>1
    <3> QED BY <3>5, <3>6, <3>7 DEF q
  <2> QED BY <2>4, <2>5
<1>6. \A k \in 0 .. N : k \in Good
  <2>1. Good \in SUBSET Nat OBVIOUS
  <2> HIDE DEF Good
  <2> QED BY <1>1, <1>4, <1>5, <2>1, UpTo
<1>7. l[N] \in Seq(Nat) /\ Len(l[N]) = (IF N <= n THEN 0 ELSE N - n)
      /\ \A j \in 1 .. Len(l[N]) : l[N][j] = t[n + j]
  BY <1>1, <1>3, <1>6
<1>8. Len(l[N]) = N - n BY <1>1, <1>7 DEF N, t
<1> QED BY <1>7, <1>8 DEF Rest, Iterate, l, N, t

\* What was handed out is the beginning of the list, and a sweep under way has the rest of it
\* to do; before the first sweep nothing is handed out.
SeamInv ==
  RangesApart =>
    /\ \E S : log \in Seq(S)
    /\ Len(log) <= Len(ToSweep)
    /\ \A i \in 1 .. Len(log) : log[i].did = ToSweep[i]
    /\ stage \in {"listen", "probe", "window", "swept"} => log = <<>>
    /\ stage = "scan" => Rest(scan.todo, Len(log))

LEMMA SeamStutters ==
  ASSUME SeamInv, UNCHANGED log, stage' = "scan" => stage = "scan" /\ scan'.todo = scan.todo,
         stage' \in {"listen", "probe", "window", "swept"} =>
           stage \in {"listen", "probe", "window", "swept"}
  PROVE  SeamInv'
BY DEF SeamInv, Rest

\* A sweep begins with the rest of the list, given what was handed out.
LEMMA SeamBegun ==
  ASSUME NEW pair, NEW vin, NEW skip, Begun(pair, vin, skip), SeamInv,
         (log' = <<>> /\ skip = {}) \/ (log' = log /\ skip = Logged)
  PROVE  SeamInv'
<1> SUFFICES ASSUME RangesApart PROVE SeamInv' BY DEF SeamInv, RangesApart
<1>1. scan'.todo = Iterate(skip) /\ stage' = "scan" BY DEF Begun, NoScan
<1>2. /\ \E S : log' \in Seq(S)
      /\ Len(log') <= Len(ToSweep)
      /\ \A i \in 1 .. Len(log') : log'[i].did = ToSweep[i]
  <2>1. CASE log' = <<>>
    <3>1. ToSweep \in Seq(Nat) BY ToSweepIs
    <3> QED BY <2>1, <3>1
  <2>2. CASE log' = log BY <2>2 DEF SeamInv
  <2> QED BY <2>1, <2>2
<1>3. Len(log') \in 0 .. Len(ToSweep)
  <2>1. Len(log') \in Nat BY <1>2
  <2>2. Len(ToSweep) \in Nat BY ToSweepIs
  <2> QED BY <1>2, <2>1, <2>2
<1>4. skip = {ToSweep[k] : k \in 1 .. Len(log')}
  <2>1. CASE log' = <<>> /\ skip = {}
    <3>1. 1 .. Len(log') = {} BY <2>1
    <3> QED BY <2>1, <3>1
  <2>2. CASE log' = log /\ skip = Logged
    <3>1. DOMAIN log = 1 .. Len(log) BY DEF SeamInv
    <3>2. skip = {log[i].did : i \in 1 .. Len(log)} BY <2>2, <3>1 DEF Logged
    <3> QED BY <2>2, <3>2 DEF SeamInv
  <2> QED BY <2>1, <2>2
<1>5. Rest(Iterate(skip), Len(log')) BY <1>3, <1>4, RestIs
<1> QED BY <1>1, <1>2, <1>5 DEF SeamInv, Rest

\* One more is handed out: the first of the rest.
LEMMA SeamObserved ==
  ASSUME SeamInv, stage = "scan", scan.todo # <<>>, NEW row, row.did = Head(scan.todo), Observed(row),
         ReportShape
  PROVE  SeamInv'
<1> SUFFICES ASSUME RangesApart PROVE SeamInv' BY DEF SeamInv, RangesApart
<1> DEFINE t == ToSweep
           n == Len(log)
           s == scan.todo
           e == Append(log, row)
<1>1. log' = e /\ stage' = stage BY DEF Observed
<1>2. scan'.todo = Tail(s) BY DEF Observed, Counted, ReportShape
<1>3. PICK S : log \in Seq(S) BY DEF SeamInv
<1>4. /\ t \in Seq(Nat) /\ n \in Nat /\ s \in Seq(Nat) /\ Len(s) = Len(t) - n
      /\ \A j \in 1 .. Len(s) : s[j] = t[n + j]
      /\ \A i \in 1 .. n : log[i].did = t[i]
  <2>1. t \in Seq(Nat) BY ToSweepIs
  <2>2. n \in Nat BY <1>3
  <2>3. Rest(s, n) /\ \A i \in 1 .. n : log[i].did = t[i] BY DEF SeamInv
  <2> QED BY <2>1, <2>2, <2>3 DEF Rest
<1> HIDE DEF t, n, s
<1>5. Len(s) \in Nat \ {0} /\ Head(s) = s[1]
  <2>1. s # <<>> BY DEF s
  <2> QED BY <1>4, <2>1
<1>6. /\ e \in Seq(S \cup {row}) /\ Len(e) = n + 1 /\ e[n + 1] = row
      /\ \A i \in 1 .. n : e[i] = log[i]
  <2>1. log \in Seq(S \cup {row}) BY <1>3
  <2> DEFINE R == S \cup {row}
  <2>2. row \in R OBVIOUS
  <2> HIDE DEF R
  <2> QED BY <2>1, <2>2 DEF n, R
<1>7. n + 1 <= Len(t) BY <1>4, <1>5
<1>8. row.did = t[n + 1] BY <1>4, <1>5 DEF s
<1> HIDE DEF e
<1>9. \A i \in 1 .. n + 1 : e[i].did = t[i]
  <2> SUFFICES ASSUME NEW i \in 1 .. n + 1 PROVE e[i].did = t[i] OBVIOUS
  <2>1. i = n + 1 \/ i \in 1 .. n BY <1>4
  <2> QED BY <1>4, <1>6, <1>8, <2>1
<1> DEFINE r == Tail(s)
<1>10. r \in Seq(Nat) /\ Len(r) = Len(s) - 1 /\ \A j \in 1 .. Len(r) : r[j] = s[j + 1]
  BY <1>4, <1>5
<1> HIDE DEF r
<1>11. \A j \in 1 .. Len(r) : r[j] = t[(n + 1) + j]
  <2> SUFFICES ASSUME NEW j \in 1 .. Len(r) PROVE r[j] = t[(n + 1) + j] OBVIOUS
  <2>1. j + 1 \in 1 .. Len(s) /\ n + (j + 1) = (n + 1) + j BY <1>4, <1>5, <1>10
  <2> QED BY <1>4, <1>10, <2>1
<1>12. Len(r) = Len(t) - (n + 1) BY <1>4, <1>5, <1>10
<1>13. Rest(r, n + 1) BY <1>10, <1>11, <1>12 DEF Rest, t
<1>14. (\E Q : log' \in Seq(Q)) /\ Len(log') = n + 1 BY <1>1, <1>6
<1>15. scan'.todo = r BY <1>2 DEF r
<1>17. \A i \in 1 .. Len(log') : log'[i].did = ToSweep[i] BY <1>1, <1>9, <1>14 DEF t
<1>18. Len(log') <= Len(ToSweep) BY <1>7, <1>14 DEF t
<1> QED BY <1>1, <1>13, <1>14, <1>15, <1>17, <1>18 DEF SeamInv, Rest

LEMMA SeamStep ==
  ASSUME SeamInv, CountInv, [SharingNext]_allvars
  PROVE  SeamInv'
<1>1. CASE AddressNext
  <2>1. /\ UNCHANGED <<log, scan>>
        /\ stage' = "scan" => stage = "scan"
        /\ stage' = stage \/ stage \in {"listen", "probe", "window", "swept"}
    BY <1>1 DEF AddressNext, Listen, Skip, ProbeFails, PassOver, Book, Close, EndSweep, Stop, Probe,
      Arrive, Noise
  <2> QED BY <2>1, SeamStutters
<1>2. ASSUME NEW m, NEW vin, Begin(m, vin) PROVE SeamInv'
  <2>1. RangesApart => log = <<>> BY <1>2 DEF Begin, SeamInv
  <2>2. log' = log BY <1>2 DEF Begin
  <2>3. CASE RangesApart
    <3> DEFINE skip == {}
    <3>1. log' = <<>> /\ skip = {} BY <2>1, <2>2, <2>3
    <3>2. Begun([req |-> m.req, rsp |-> m.rsp], vin, skip) BY <1>2 DEF Begin
    <3> HIDE DEF skip
    <3> QED BY <3>1, <3>2, SeamBegun
  <2>4. CASE ~RangesApart BY <2>4 DEF SeamInv, RangesApart
  <2> QED BY <2>3, <2>4
<1>3. ASSUME NEW vin, Resume(vin) PROVE SeamInv'
  BY <1>3, SeamBegun DEF Resume
<1>4. CASE AskAnswered \/ AskUnanswered \/ AskGarbled
  <2>1. \E row : row.did = Head(scan.todo) /\ Observed(row)
    BY <1>4 DEF AskAnswered, AskUnanswered, AskGarbled, Row, Silent, Garbled
  <2>2. stage = "scan" /\ scan.todo # <<>>
    BY <1>4 DEF AskAnswered, AskUnanswered, AskGarbled, Asking
  <2>3. ReportShape BY DEF CountInv
  <2> QED BY <2>1, <2>2, <2>3, SeamObserved
<1>5. CASE Halt
  <2>1. scan'.todo = scan.todo BY <1>5 DEF Halt, CountInv, ReportShape
  <2> QED BY <1>5, <2>1, SeamStutters DEF Halt
<1>6. CASE Finish \/ Kill
  BY <1>6, SeamStutters DEF Finish, Kill
<1>7. ASSUME NEW state, LineTurns(state) PROVE SeamInv'
  BY <1>7, SeamStutters DEF LineTurns
<1>8. ASSUME NEW vin, Again(vin) PROVE SeamInv'
  <2> DEFINE skip == {}
  <2>1. log' = <<>> /\ skip = {} /\ Begun(scan.pair, vin, skip) BY <1>8 DEF Again
  <2> HIDE DEF skip
  <2> QED BY <2>1, SeamBegun
<1>9. ASSUME WriteReport \/ Share \/ (\E anonymise \in BOOLEAN : Write(anonymise))
      PROVE  SeamInv'
  BY <1>9, SeamStutters DEF WriteReport, Share, Write, vars
<1>10. CASE UNCHANGED allvars
  BY <1>10, SeamStutters DEF allvars, vars
<1> QED BY <1>1, <1>2, <1>3, <1>4, <1>5, <1>6, <1>7, <1>8, <1>9, <1>10 DEF SharingNext, DidNext

LEMMA SeamInit == SharingInit => SeamInv
<1> SUFFICES ASSUME SharingInit, RangesApart PROVE SeamInv BY DEF SeamInv
<1>1. log = <<>> /\ stage = "listen" BY DEF SharingInit, Init
<1>2. ToSweep \in Seq(Nat) BY ToSweepIs
<1>3. log \in Seq(Nat) /\ Len(log) = 0 BY <1>1
<1> QED BY <1>1, <1>2, <1>3 DEF SeamInv

\* Killed or given up, and taken up again, a sweep hands out each identifier of its ranges
\* once and in their order: all runs together are one (didscan.py:210-255). Where the
\* operator lets two ranges overlap, an uninterrupted sweep asks for an identifier twice,
\* a resumed one does not.
THEOREM SeamlessTheorem == Spec => [](RangesApart => ResumeIsSeamless)
<1>1. SeamInv => (RangesApart => ResumeIsSeamless)
  <2> SUFFICES ASSUME SeamInv, RangesApart PROVE ResumeIsSeamless OBVIOUS
  <2> DEFINE t == ToSweep
             s == Iterate({})
             n == Len(log)
  <2>1. t \in Seq(Nat) BY ToSweepIs
  <2>2. Rest(s, 0)
    <3> DEFINE skip == {}
    <3>1. skip = {ToSweep[k] : k \in 1 .. 0} OBVIOUS
    <3>2. 0 \in 0 .. Len(ToSweep) BY <2>1
    <3> HIDE DEF skip
    <3>3. Rest(Iterate(skip), 0) BY <3>1, <3>2, RestIs
    <3> QED BY <3>3 DEF skip
  <2>3. s \in Seq(Nat) /\ Len(s) = Len(t) /\ \A j \in 1 .. Len(s) : s[j] = t[j]
    BY <2>1, <2>2 DEF Rest
  <2>4. DOMAIN log = 1 .. n /\ n \in Nat BY DEF SeamInv
  <2>5. n <= Len(t) /\ \A i \in 1 .. n : log[i].did = t[i] BY DEF SeamInv
  <2> HIDE DEF s, n, t
  <2>6. SubSeq(s, 1, n) = [i \in 1 .. n |-> s[i]]
    <3>1. Len(s) \in Nat /\ n <= Len(s) BY <2>3, <2>5
    <3>2. SubSeq(s, 1, n) \in Seq(Nat) /\ Len(SubSeq(s, 1, n)) = n
          /\ \A i \in 1 .. n : SubSeq(s, 1, n)[i] = s[i]
      BY <2>3, <2>4, <3>1
    <3> QED BY <3>2
  <2>7. \A i \in 1 .. n : log[i].did = s[i] BY <2>3, <2>4, <2>5
  <2>8. [i \in DOMAIN log |-> log[i].did] = [i \in 1 .. n |-> s[i]] BY <2>4, <2>7
  <2> QED BY <2>6, <2>8 DEF ResumeIsSeamless, s, n
<1> QED BY <1>1, SeamInit, SeamStep, CountInvariant, PTL DEF Spec
=============================================================================
