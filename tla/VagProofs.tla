----------------------------- MODULE VagProofs -----------------------------
(***************************************************************************)
(* What the commands of module Vag report, for every set of modules and    *)
(* groups and every list of addresses. All modules answer on one           *)
(* identifier: the argument is about what may still be on its way when a   *)
(* request is made. Each queue only loses its first elements, except that  *)
(* the module that is asked adds its answer to its own, two if it puts it off*)
(* the answer off.                                                         *)
(***************************************************************************)
EXTENDS Vag, SequenceTheorems, TLAPS

(***************************************************************************)
(* Queues.                                                                 *)
(***************************************************************************)
\* t is what is left of s when its first k elements are gone.
Left(t, s, k) ==
  /\ Len(t) = Len(s) - k
  /\ \A i \in 1 .. Len(t) : t[i] = s[i + k]

\* What a drain of the reader leaves of a queue.
LEMMA DrainLeaves ==
  ASSUME NEW S, NEW s \in Seq(S), NEW k \in Nat
  PROVE  /\ SubSeq(s, k + 1, Len(s)) \in Seq(S)
         /\ \E j \in Nat : Left(SubSeq(s, k + 1, Len(s)), s, j)
<1> DEFINE n == Len(s)
           t == SubSeq(s, k + 1, n)
<1>1. n \in Nat /\ k \in Nat
  BY LenProperties
<1> HIDE DEF n
<1>2. s \in Seq(S) /\ n = Len(s)
  BY DEF n
<1>3. \A i \in (k + 1) .. n : s[i] \in S
  <2> TAKE i \in (k + 1) .. n
  <2>1. i \in 1 .. Len(s)
    BY <1>1, <1>2
  <2> QED
    BY <2>1, <1>2, ElementOfSeq
<1>4. t \in Seq(S) /\ Len(t) = (IF k + 1 <= n THEN n - (k + 1) + 1 ELSE 0)
      /\ \A i \in 1 .. n - (k + 1) + 1 : t[i] = s[k + 1 + i - 1]
  BY <1>1, <1>3, SubSeqProperties
<1>5. CASE k <= n
  <2>1. Len(t) = n - k
    BY <1>4, <1>1, <1>5
  <2>2. \A i \in 1 .. Len(t) : t[i] = s[i + k]
    <3> TAKE i \in 1 .. Len(t)
    <3>1. i \in 1 .. n - (k + 1) + 1 /\ k + 1 + i - 1 = i + k
      BY <1>1, <2>1
    <3> QED
      BY <3>1, <1>4
  <2> QED
    BY <1>1, <1>2, <1>4, <2>1, <2>2 DEF Left, n
<1>6. CASE ~(k <= n)
  <2>1. Len(t) = 0
    BY <1>4, <1>1, <1>6
  <2>2. Left(t, s, n)
    BY <2>1, <1>1, <1>2 DEF Left
  <2> QED
    BY <1>1, <1>2, <1>4, <2>2 DEF n
<1> QED
  BY <1>5, <1>6

\* What is left when the first reply is taken.
LEMMA TailLeaves ==
  ASSUME NEW S, NEW s \in Seq(S), s # <<>>
  PROVE  /\ Head(s) \in S /\ Head(s) = s[1] /\ 1 \in 1 .. Len(s)
         /\ Tail(s) \in Seq(S) /\ Left(Tail(s), s, 1)
BY HeadTailProperties, EmptySeq, LenProperties DEF Left

-----------------------------------------------------------------------------
(***************************************************************************)
(* Types. What a wait ends with is one of the courses below.               *)
(***************************************************************************)
Fails == {"locked", "refused", "aborted"}

Course ==
  \/ request = "session" /\ SessionOver
  \/ request = "ident" /\ \E reply \in Replies \cup {None} : IdentOver(reply)
  \/ request = "dtcs" /\ \E reply \in Replies : Listed(reply)
  \/ request = "dtcs" /\ Abort
  \/ request \in Groups /\ \E result \in Fails : GroupFails(result)
  \/ request \in Groups /\ \E reply \in Replies : ReadGroup(reply)

TaskOK ==
  /\ pc \in {"open", "ask", "wait", "over"}
  /\ todo \in Seq(Modules) /\ mod \in Modules /\ groups \in Seq(Groups)
  /\ request \in Requests /\ attempt \in 0 .. 2
  /\ ident \in Replies \cup {None} /\ found \in Seq(Entries) /\ blocks \subseteq Blocks
  /\ report \in Reports

LEMMA GroupsOnly == TypeOK /\ groups # <<>> => Head(groups) \in Groups /\ Tail(groups) \in Seq(Groups)
BY HeadTailProperties DEF TypeOK

LEMMA EndType == ASSUME TypeOK, NEW result \in Reports, End(result), UNCHANGED resultVars PROVE TaskOK'
BY DEF TypeOK, TaskOK, End, callVars, taskVars, resultVars

LEMMA NextGroupType ==
  ASSUME TypeOK, NEW read, NextGroup(read), UNCHANGED <<ident, found>>, blocks' \subseteq Blocks
  PROVE  TaskOK'
<1>1. CASE groups = <<>>
  <2>1. PICK result \in {"nothing", "blocks"} : End(result)
    BY <1>1 DEF NextGroup
  <2> QED
    BY <2>1 DEF TypeOK, TaskOK, End, callVars, taskVars, Reports
<1>2. CASE groups # <<>>
  <2>1. /\ pc' = "ask" /\ request' = Head(groups) /\ groups' = Tail(groups) /\ attempt' = 0
        /\ todo' = todo /\ mod' = mod /\ report' = report
    BY <1>2 DEF NextGroup
  <2>2. Head(groups) \in Groups /\ Tail(groups) \in Seq(Groups)
    BY <1>2, GroupsOnly
  <2>3. request' \in Requests /\ groups' \in Seq(Groups)
    BY <2>1, <2>2 DEF Requests
  <2> QED
    BY <2>1, <2>3 DEF TypeOK, TaskOK
<1> QED
  BY <1>1, <1>2

LEMMA NextRequestType ==
  ASSUME TypeOK, NEW r \in Services, NextRequest(r), UNCHANGED <<found, blocks>>,
         ident' \in Replies \cup {None}
  PROVE  TaskOK'
BY DEF TypeOK, TaskOK, NextRequest, taskVars, Requests

LEMMA ListedType == ASSUME TypeOK, NEW reply \in Replies, Listed(reply) PROVE TaskOK'
<1>1. CASE ident \in Replies \cup {None}
  <2> DEFINE e == [module |-> mod, ident |-> ident, dtcs |-> reply]
  <2>1. e \in Entries
    BY DEF TypeOK, Entries
  <2>2. found' \in Seq(Entries)
    BY <2>1, AppendProperties DEF Listed, TypeOK
  <2> QED
    BY <2>2 DEF TypeOK, TaskOK, Listed, callVars, taskVars
<1> QED
  BY <1>1 DEF TypeOK

LEMMA CourseType == ASSUME TypeOK, Course PROVE TaskOK'
<1>1. CASE request = "session" /\ SessionOver
  <2>1. CASE cmd = "modules"
    <3>1. NextRequest("ident") /\ UNCHANGED resultVars
      BY <1>1, <2>1 DEF SessionOver
    <3> QED
      BY <3>1, NextRequestType DEF Services, resultVars, TypeOK
  <2>2. CASE cmd # "modules"
    <3>1. NextGroup({}) /\ UNCHANGED resultVars
      BY <1>1, <2>2 DEF SessionOver
    <3> QED
      BY <3>1, NextGroupType DEF resultVars, TypeOK
  <2> QED
    BY <2>1, <2>2
<1>2. ASSUME NEW reply \in Replies \cup {None}, IdentOver(reply) PROVE TaskOK'
  BY <1>2, NextRequestType DEF IdentOver, Services
<1>3. ASSUME NEW reply \in Replies, Listed(reply) PROVE TaskOK'
  BY <1>3, ListedType
<1>4. CASE Abort
  BY <1>4, EndType DEF Abort, Reports
<1>5. ASSUME NEW result \in Fails, GroupFails(result) PROVE TaskOK'
  <2>1. UNCHANGED resultVars /\ (End(result) \/ NextGroup(blocks)) /\ result \in Reports
    BY <1>5 DEF GroupFails, Fails, Reports
  <2>2. CASE End(result)
    BY <2>1, <2>2, EndType
  <2>3. CASE NextGroup(blocks)
    BY <2>1, <2>3, NextGroupType DEF resultVars, TypeOK
  <2> QED
    BY <2>1, <2>2, <2>3
<1>6. ASSUME request \in Groups, NEW reply \in Replies, ReadGroup(reply) PROVE TaskOK'
  <2>1. blocks' \subseteq Blocks
    BY <1>6 DEF ReadGroup, Blocks, TypeOK
  <2>2. CASE End("value")
    BY <1>6, <2>1, <2>2 DEF ReadGroup, End, TypeOK, TaskOK, callVars, taskVars, Reports
  <2>3. CASE NextGroup(blocks')
    BY <1>6, <2>1, <2>3, NextGroupType DEF ReadGroup
  <2> QED
    BY <1>6, <2>2, <2>3 DEF ReadGroup
<1> QED
  BY <1>1, <1>2, <1>3, <1>4, <1>5, <1>6 DEF Course

-----------------------------------------------------------------------------
(***************************************************************************)
(* What a step does to the queues.                                         *)
(***************************************************************************)
\* Each queue keeps its order and only loses what comes first.
Shrinks == air' \in [Modules -> Seq(Replies)] /\ \A m \in Modules : \E k \in Nat : Left(air'[m], air[m], k)

\* A reply is added to the queue of mod.
Joined(f, a) == [f EXCEPT ![mod] = Append(f[mod], a)]

LEMMA HandleSays ==
  ASSUME NEW m \in Modules, NEW r \in Requests, NEW says \in Handle(m, r)
  PROVE  says \in {"yes"} \cup Refusals
BY VagAssumption DEF Handle, ReadLocal, ReadDtcs, Refusals, Requests, Services

LEMMA Unchanged == TypeOK /\ UNCHANGED air => Shrinks
<1> SUFFICES ASSUME TypeOK, UNCHANGED air, NEW m \in Modules
             PROVE  Left(air'[m], air[m], 0)
  BY DEF TypeOK, Shrinks
<1>1. air[m] \in Seq(Replies) /\ air' = air
  BY DEF TypeOK
<1> DEFINE n == Len(air[m])
<1>2. n \in Nat
  BY <1>1, LenProperties
<1> HIDE DEF n
<1>3. n = n - 0 /\ \A i \in 1 .. n : i + 0 = i
  BY <1>2
<1> QED
  BY <1>1, <1>3 DEF Left, n

LEMMA TakeShrinks ==
  ASSUME TypeOK, NEW m \in Modules, Take(m)
  PROVE  /\ Shrinks /\ Head(air[m]) \in Replies
         /\ Head(air[m]) = air[m][1] /\ 1 \in 1 .. Len(air[m])
<1>1. air \in [Modules -> Seq(Replies)] /\ air[m] \in Seq(Replies) /\ air[m] # <<>>
      /\ air' = [air EXCEPT ![m] = Tail(air[m])]
  BY DEF TypeOK, Take
<1>2. /\ Head(air[m]) \in Replies /\ Head(air[m]) = air[m][1] /\ 1 \in 1 .. Len(air[m])
      /\ Tail(air[m]) \in Seq(Replies) /\ Left(Tail(air[m]), air[m], 1)
  BY <1>1, TailLeaves
<1>3. air' \in [Modules -> Seq(Replies)]
  BY <1>1, <1>2
<1>4. ASSUME NEW x \in Modules PROVE \E k \in Nat : Left(air'[x], air[x], k)
  <2>1. CASE x = m
    BY <1>1, <1>2, <2>1
  <2>2. CASE x # m
    <3>1. air'[x] = air[x] /\ air[x] \in Seq(Replies)
      BY <1>1, <2>2
    <3> DEFINE n == Len(air[x])
    <3>2. n \in Nat
      BY <3>1, LenProperties
    <3> HIDE DEF n
    <3>3. n = n - 0 /\ \A i \in 1 .. n : i + 0 = i
      BY <3>2
    <3>4. Left(air'[x], air[x], 0)
      BY <3>1, <3>3 DEF Left, n
    <3> QED
      BY <3>4
  <2> QED
    BY <2>1, <2>2
<1> QED
  BY <1>2, <1>3, <1>4 DEF Shrinks

LEMMA JoinedIs ==
  ASSUME mod \in Modules, NEW f \in [Modules -> Seq(Replies)], NEW a \in Replies
  PROVE  /\ Joined(f, a) \in [Modules -> Seq(Replies)]
         /\ \A m \in Modules : m # mod => Joined(f, a)[m] = f[m]
         /\ Len(f[mod]) \in Nat /\ Len(Joined(f, a)[mod]) = Len(f[mod]) + 1
         /\ \A i \in 1 .. Len(f[mod]) : Joined(f, a)[mod][i] = f[mod][i]
         /\ Joined(f, a)[mod][Len(f[mod]) + 1] = a
<1> DEFINE q == Append(f[mod], a)
<1>1. f[mod] \in Seq(Replies)
  OBVIOUS
<1>2. /\ q \in Seq(Replies) /\ Len(q) = Len(f[mod]) + 1 /\ Len(f[mod]) \in Nat
      /\ \A i \in 1 .. Len(f[mod]) : q[i] = f[mod][i]
      /\ q[Len(f[mod]) + 1] = a
  BY <1>1, AppendProperties, LenProperties
<1>3. Joined(f, a) = [f EXCEPT ![mod] = q]
  BY DEF Joined
<1> HIDE DEF q
<1>4. Joined(f, a) \in [Modules -> Seq(Replies)] /\ Joined(f, a)[mod] = q
      /\ \A m \in Modules : m # mod => Joined(f, a)[m] = f[m]
  BY <1>2, <1>3
<1> QED
  BY <1>2, <1>4

\* A request: every queue is drained, and mod's may get the answer, or the notice
\* that it is put off and the answer after it.
LEMMA AskAnswers ==
  ASSUME TypeOK, Ask
  PROVE  \E late \in [Modules -> Seq(Replies)] :
           /\ \A m \in Modules : \E k \in Nat : Left(late[m], air[m], k)
           /\ \/ air' = late /\ denied' = denied
              \/ \E says \in Handle(mod, request) :
                   /\ Answer(says) \in Replies /\ air' = Joined(late, Answer(says))
                   /\ denied' = (denied \/ (request \in {"session", "ident"} /\ says # "yes"))
              \/ \E says \in Handle(mod, request) :
                   /\ Answer(says) \in Replies /\ Answer("pending") \in Replies
                   /\ air' = Joined(Joined(late, Answer("pending")), Answer(says))
                   /\ denied' = (denied \/ request \in Services)
<1>1. air \in [Modules -> Seq(Replies)] /\ mod \in Modules /\ request \in Requests
  BY DEF TypeOK
<1>2. PICK k \in [Modules -> UNION {0 .. Len(air[m]) : m \in Modules}] :
        LET late == [m \in Modules |-> SubSeq(air[m], k[m] + 1, Len(air[m]))]
        IN \/ air' = late /\ UNCHANGED denied
           \/ \E says \in Handle(mod, request) :
                /\ air' = [late EXCEPT ![mod] = Append(@, Answer(says))]
                /\ denied' = (denied \/ (request \in {"session", "ident"} /\ says # "yes"))
           \/ \E says \in Handle(mod, request) \ {"pending"} :
                /\ air' = [late EXCEPT ![mod] = Append(Append(@, Answer("pending")), Answer(says))]
                /\ denied' = (denied \/ request \in Services)
  BY DEF Ask
<1> DEFINE late == [m \in Modules |-> SubSeq(air[m], k[m] + 1, Len(air[m]))]
<1>3. ASSUME NEW m \in Modules
      PROVE  late[m] \in Seq(Replies) /\ \E j \in Nat : Left(late[m], air[m], j)
  <2>1. k[m] \in Nat /\ air[m] \in Seq(Replies)
    <3>1. \A x \in Modules : 0 .. Len(air[x]) \subseteq Nat
      OBVIOUS
    <3> QED
      BY <1>1, <1>2, <3>1
  <2>2. late[m] = SubSeq(air[m], k[m] + 1, Len(air[m]))
    OBVIOUS
  <2> QED
    BY <2>1, <2>2, DrainLeaves
<1>4. late \in [Modules -> Seq(Replies)]
  BY <1>3
<1>5. \/ air' = late /\ denied' = denied
      \/ \E says \in Handle(mod, request) :
           /\ air' = [late EXCEPT ![mod] = Append(late[mod], Answer(says))]
           /\ denied' = (denied \/ (request \in {"session", "ident"} /\ says # "yes"))
      \/ \E says \in Handle(mod, request) :
           /\ air' = [late EXCEPT ![mod] = Append(Append(late[mod], Answer("pending")), Answer(says))]
           /\ denied' = (denied \/ request \in Services)
  BY <1>2
<1> HIDE DEF late
<1>6. ASSUME NEW says \in {"yes"} \cup Refusals PROVE Answer(says) \in Replies
  BY <1>1 DEF Answer, Replies
<1>7. \A says \in Handle(mod, request) : Answer(says) \in Replies
  BY <1>1, <1>6, HandleSays
<1>8. Answer("pending") \in Replies
  BY <1>6 DEF Refusals
<1>9. ASSUME NEW a, NEW b
      PROVE  Joined(Joined(late, a), b) = [late EXCEPT ![mod] = Append(Append(late[mod], a), b)]
  BY <1>1, <1>4 DEF Joined
<1> QED
  BY <1>3, <1>4, <1>5, <1>7, <1>8, <1>9 DEF Joined

-----------------------------------------------------------------------------
LEMMA WaitEnds ==
  ASSUME TypeOK, Silence \/ \E m \in Modules : TakeRefusal(m) \/ TakeMisfit(m) \/ TakeAnswer(m)
  PROVE  Course /\ pc = "wait" /\ UNCHANGED <<cmd, silent, denied>>
<1>1. CASE Silence
  BY <1>1 DEF Silence, Course, DtcsFail, Fails
<1>2. ASSUME NEW m \in Modules, TakeRefusal(m) PROVE Course /\ pc = "wait" /\ UNCHANGED <<cmd, silent, denied>>
  <2>1. Head(air[m]) \in Replies /\ Take(m)
    BY <1>2, TakeShrinks DEF TakeRefusal
  <2> QED
    BY <1>2, <2>1 DEF TakeRefusal, Take, Course, DtcsFail, Fails
<1>3. ASSUME NEW m \in Modules, TakeMisfit(m) PROVE Course /\ pc = "wait" /\ UNCHANGED <<cmd, silent, denied>>
  BY <1>3 DEF TakeMisfit, Take, Course, DtcsFail, Fails
<1>4. ASSUME NEW m \in Modules, TakeAnswer(m) PROVE Course /\ pc = "wait" /\ UNCHANGED <<cmd, silent, denied>>
  <2>1. Head(air[m]) \in Replies /\ Take(m)
    BY <1>4, TakeShrinks DEF TakeAnswer
  <2> QED
    BY <1>4, <2>1 DEF TakeAnswer, Take, Course, Fails
<1> QED
  BY <1>1, <1>2, <1>3, <1>4

LEMMA InitType == Init => TypeOK
<1> SUFFICES ASSUME Init PROVE TypeOK OBVIOUS
<1>1. todo \in Seq(Modules) /\ mod \in Modules
  BY VagAssumption DEF Init
<1>2. groups \in Seq(Groups)
  <2>1. \A g \in Groups : <<g>> \in Seq(Groups)
    OBVIOUS
  <2>2. groups = <<>> \/ groups = Asked \/ \E g \in Groups : groups = <<g>>
    BY DEF Init
  <2> QED
    BY <2>1, <2>2, EmptySeq, VagAssumption
<1>3. air \in [Modules -> Seq(Replies)] /\ found \in Seq(Entries)
  BY EmptySeq DEF Init
<1>4. blocks \subseteq Blocks /\ silent \subseteq Modules
  BY DEF Init
<1>5. cmd \in {"modules", "blocks", "read"} /\ pc = "open" /\ request = "session" /\ attempt = 0
      /\ ident = None /\ report = "running"
  BY DEF Init
<1>6. request \in Requests /\ report \in Reports /\ attempt \in 0 .. 2
  BY <1>5 DEF Requests, Services, Reports
<1>7. denied \in BOOLEAN
  BY DEF Init
<1> QED
  BY <1>1, <1>2, <1>3, <1>4, <1>5, <1>6, <1>7 DEF TypeOK

LEMMA StepType == TypeOK /\ [Next]_vars => TypeOK'
<1> SUFFICES ASSUME TypeOK, [Next]_vars PROVE TypeOK' OBVIOUS
<1>1. CASE OpenFails
  <2>1. CASE cmd = "modules"
    <3>1. todo' = Tail(todo) /\ todo # <<>> /\ UNCHANGED <<pc, report, callVars, mod, groups>>
      BY <1>1, <2>1 DEF OpenFails
    <3>2. todo' \in Seq(Modules) /\ Head(todo) \in Modules
      BY <3>1, HeadTailProperties DEF TypeOK
    <3> QED
      BY <1>1, <3>1, <3>2 DEF OpenFails, TypeOK, callVars, resultVars
  <2>2. CASE cmd # "modules"
    <3>1. End("aborted") /\ todo # <<>>
      BY <1>1, <2>2 DEF OpenFails
    <3>2. Head(todo) \in Modules
      BY <3>1, HeadTailProperties DEF TypeOK
    <3> QED
      BY <1>1, <3>1, <3>2 DEF OpenFails, End, TypeOK, callVars, taskVars, resultVars, Reports
  <2> QED
    BY <2>1, <2>2
<1>2. CASE Opened
  <2>1. Head(todo) \in Modules /\ Tail(todo) \in Seq(Modules)
    BY <1>2, HeadTailProperties DEF Opened, TypeOK
  <2> QED
    BY <1>2, <2>1 DEF Opened, TypeOK, Requests, Services
<1>3. CASE ShowListing
  BY <1>3 DEF ShowListing, End, TypeOK, callVars, taskVars, resultVars, Reports
<1>4. CASE Ask
  <2>1. PICK late \in [Modules -> Seq(Replies)] :
             \/ air' = late /\ denied' = denied
             \/ \E says \in Handle(mod, request) :
                  /\ Answer(says) \in Replies /\ air' = Joined(late, Answer(says))
                  /\ denied' = (denied \/ (request \in {"session", "ident"} /\ says # "yes"))
             \/ \E says \in Handle(mod, request) :
                  /\ Answer(says) \in Replies /\ Answer("pending") \in Replies
                  /\ air' = Joined(Joined(late, Answer("pending")), Answer(says))
                  /\ denied' = (denied \/ request \in Services)
    BY <1>4, AskAnswers
  <2>2. denied' \in BOOLEAN
    BY <2>1 DEF TypeOK
  <2>3. air' \in [Modules -> Seq(Replies)]
    <3>1. mod \in Modules
      BY DEF TypeOK
    <3>2. \A f \in [Modules -> Seq(Replies)], a \in Replies : Joined(f, a) \in [Modules -> Seq(Replies)]
      BY <3>1, JoinedIs
    <3> QED
      BY <2>1, <3>2
  <2> QED
    BY <1>4, <2>2, <2>3 DEF Ask, TypeOK, callVars, taskVars, resultVars
<1>5. ASSUME NEW m \in Modules, TakePending(m) PROVE TypeOK'
  <2>1. air' \in [Modules -> Seq(Replies)]
    BY <1>5, TakeShrinks DEF TakePending, Shrinks
  <2>2. attempt' \in 0 .. 2
    <3>1. attempt \in 0 .. 2 /\ attempt < 2 /\ attempt' = attempt + 1
      BY <1>5 DEF TakePending, PutOff, Counted, TypeOK
    <3> QED
      BY <3>1
  <2> QED
    BY <1>5, <2>1, <2>2 DEF TakePending, Take, TypeOK, taskVars, resultVars
<1>6. CASE Silence \/ \E m \in Modules : TakeRefusal(m) \/ TakeMisfit(m) \/ TakeAnswer(m)
  <2>1. TaskOK' /\ UNCHANGED <<cmd, silent, denied>>
    BY <1>6, WaitEnds, CourseType
  <2>2. air' \in [Modules -> Seq(Replies)]
    <3>1. CASE Silence
      BY <3>1 DEF Silence, TypeOK
    <3>2. ASSUME NEW m \in Modules, Take(m) PROVE air' \in [Modules -> Seq(Replies)]
      BY <3>2, TakeShrinks DEF Shrinks
    <3> QED
      BY <1>6, <3>1, <3>2 DEF TakeRefusal, TakeMisfit, TakeAnswer
  <2> QED
    BY <2>1, <2>2 DEF TaskOK, TypeOK
<1>7. CASE BusFails
  BY <1>7 DEF BusFails, Abort, End, TypeOK, callVars, taskVars, resultVars, Reports
<1>8. CASE UNCHANGED vars
  BY <1>8 DEF vars, callVars, taskVars, resultVars, TypeOK
<1> QED
  BY <1>1, <1>2, <1>3, <1>4, <1>5, <1>6, <1>7, <1>8 DEF Next, Receive

\* Every state has its types: in particular a request is put off twice at most,
\* and what is listed is a reply.
THEOREM TypeTheorem == Spec => []TypeOK
<1>1. Init => TypeOK
  BY InitType
<1>2. TypeOK /\ [Next]_vars => TypeOK'
  BY StepType
<1> QED
  BY <1>1, <1>2, PTL DEF Spec

-----------------------------------------------------------------------------
(***************************************************************************)
(* `vag blocks' and `vag read'. Every reply on its way is one that its     *)
(* module gives to the request it answers, and of one module only; `vag    *)
(* read' makes two requests, so that a refusal that is not of the session  *)
(* is of the identifier.                                                   *)
(***************************************************************************)
Pending(m) == {air[m][i] : i \in 1 .. Len(air[m])}

\* What module m may have said: of a group what ReadLocal says of it.
Given(m, a) ==
  /\ a.from = m
  /\ a.to \in Groups => a.says \in {"pending"} \cup ReadLocal(m, a.to)
  /\ ~denied /\ a.to \in {"session", "ident"} => a.says = "yes"

Sound == \A m \in Modules : \A a \in Pending(m) : Given(m, a)

OneModule == cmd # "modules" =>
  /\ request \notin {"ident", "dtcs"}
  /\ pc = "open" => todo = <<mod>> /\ \A m \in Modules : Pending(m) = {}
  /\ \A m \in Modules : Pending(m) # {} => m = mod

Listing == cmd = "modules" => request \in Services /\ blocks = {}

TwoRequests == cmd = "read" =>
  \A m \in Modules : \A a \in Pending(m) : a.to = "session" \/ (request \in Groups /\ a.to = request)

Ended == report = "running" <=> pc # "over"

Ways == OneModule /\ Listing /\ TwoRequests /\ Ended

Fewer == \A m \in Modules : Pending(m)' \subseteq Pending(m)

LEMMA LeftFewer ==
  ASSUME NEW S, NEW s \in Seq(S), NEW t \in Seq(S), NEW k \in Nat, Left(t, s, k), NEW i \in 1 .. Len(t)
  PROVE  i + k \in 1 .. Len(s) /\ t[i] = s[i + k]
<1> DEFINE n == Len(s)
           l == Len(t)
<1>1. n \in Nat /\ l \in Nat
  BY LenProperties
<1>2. l = n - k /\ i \in 1 .. l /\ t[i] = s[i + k]
  BY DEF Left
<1> HIDE DEF n, l
<1>3. i + k \in 1 .. n
  BY <1>1, <1>2
<1> QED
  BY <1>2, <1>3 DEF n

LEMMA ShrinksFewer == TypeOK /\ Shrinks => Fewer
<1> SUFFICES ASSUME TypeOK, Shrinks, NEW m \in Modules, NEW i \in 1 .. Len(air'[m])
             PROVE  air'[m][i] \in Pending(m)
  BY DEF Fewer, Pending
<1>1. PICK k \in Nat : Left(air'[m], air[m], k)
  BY DEF Shrinks
<1>2. air[m] \in Seq(Replies) /\ air'[m] \in Seq(Replies)
  BY DEF TypeOK, Shrinks
<1>3. i + k \in 1 .. Len(air[m]) /\ air'[m][i] = air[m][i + k]
  BY <1>1, <1>2, LeftFewer
<1> QED
  BY <1>3 DEF Pending

Airs == [Modules -> Seq(Replies)]

\* What is on its way from f's queues is still so when a is added.
LEMMA JoinedFrom ==
  ASSUME mod \in Modules, NEW f \in Airs, NEW a \in Replies,
         NEW g, g = Joined(f, a), NEW m \in Modules, NEW i \in 1 .. Len(g[m])
  PROVE  \/ i \in 1 .. Len(f[m]) /\ g[m][i] = f[m][i]
         \/ m = mod /\ g[m][i] = a
<1> DEFINE n == Len(f[mod])
<1>1. CASE m # mod
  BY <1>1, JoinedIs DEF Airs
<1>2. CASE m = mod
  <2>1. n \in Nat /\ Len(Joined(f, a)[mod]) = n + 1
    BY JoinedIs DEF Airs
  <2>2. (\A j \in 1 .. n : Joined(f, a)[mod][j] = f[mod][j]) /\ Joined(f, a)[mod][n + 1] = a
    BY JoinedIs DEF Airs
  <2>3. n = Len(f[m]) /\ i \in 1 .. Len(Joined(f, a)[mod])
    BY <1>2
  <2> HIDE DEF n
  <2>4. i \in 1 .. n \/ i = n + 1
    BY <2>1, <2>3
  <2> QED
    BY <1>2, <2>2, <2>3, <2>4
<1> QED
  BY <1>1, <1>2

LEMMA AskOne ==
  ASSUME TypeOK, Ask
  PROVE  \/ Fewer /\ denied' = denied
         \/ \E says \in Handle(mod, request), more \in {{}, {Answer("pending")}} :
              /\ \A m \in Modules :
                   Pending(m)' \subseteq Pending(m) \cup (IF m = mod THEN {Answer(says)} \cup more ELSE {})
              /\ denied' = (\/ denied \/ (request \in {"session", "ident"} /\ says # "yes")
                            \/ (more # {} /\ request \in Services))
<1>1. PICK late \in [Modules -> Seq(Replies)] :
           /\ \A m \in Modules : \E k \in Nat : Left(late[m], air[m], k)
           /\ \/ air' = late /\ denied' = denied
              \/ \E says \in Handle(mod, request) :
                   /\ Answer(says) \in Replies /\ air' = Joined(late, Answer(says))
                   /\ denied' = (denied \/ (request \in {"session", "ident"} /\ says # "yes"))
              \/ \E says \in Handle(mod, request) :
                   /\ Answer(says) \in Replies /\ Answer("pending") \in Replies
                   /\ air' = Joined(Joined(late, Answer("pending")), Answer(says))
                   /\ denied' = (denied \/ request \in Services)
  BY AskAnswers
<1>2. mod \in Modules /\ air \in [Modules -> Seq(Replies)]
  BY DEF TypeOK
<1>3. ASSUME NEW m \in Modules, NEW i \in 1 .. Len(late[m]) PROVE late[m][i] \in Pending(m)
  <2>1. PICK k \in Nat : Left(late[m], air[m], k)
    BY <1>1
  <2>2. air[m] \in Seq(Replies) /\ late[m] \in Seq(Replies)
    BY <1>2
  <2>3. i + k \in 1 .. Len(air[m]) /\ late[m][i] = air[m][i + k]
    BY <2>1, <2>2, LeftFewer
  <2> QED
    BY <2>3 DEF Pending
<1>4. CASE air' = late /\ denied' = denied
  BY <1>3, <1>4 DEF Fewer, Pending
<1>5. ASSUME NEW a \in Replies, NEW m \in Modules, NEW i \in 1 .. Len(Joined(late, a)[m])
      PROVE  Joined(late, a)[m][i] \in Pending(m) \cup (IF m = mod THEN {a} ELSE {})
  <2> DEFINE g == Joined(late, a)
  <2>0. i \in 1 .. Len(g[m]) /\ g = Joined(late, a)
    BY <1>5
  <2>2. late \in Airs
    BY DEF Airs
  <2> HIDE DEF g
  <2>1. \/ i \in 1 .. Len(late[m]) /\ g[m][i] = late[m][i]
        \/ m = mod /\ g[m][i] = a
    BY <1>2, <2>0, <2>2, JoinedFrom
  <2> QED
    BY <1>3, <2>1 DEF g
<1>6. ASSUME NEW says \in Handle(mod, request), Answer(says) \in Replies, air' = Joined(late, Answer(says)),
             denied' = (denied \/ (request \in {"session", "ident"} /\ says # "yes"))
      PROVE  \E more \in {{}, {Answer("pending")}} :
              /\ \A m \in Modules :
                   Pending(m)' \subseteq Pending(m) \cup (IF m = mod THEN {Answer(says)} \cup more ELSE {})
              /\ denied' = (\/ denied \/ (request \in {"session", "ident"} /\ says # "yes")
                            \/ (more # {} /\ request \in Services))
  <2>1. \A m \in Modules :
          Pending(m)' \subseteq Pending(m) \cup (IF m = mod THEN {Answer(says)} \cup {} ELSE {})
    <3> SUFFICES ASSUME NEW m \in Modules, NEW i \in 1 .. Len(air'[m])
                 PROVE  air'[m][i] \in Pending(m) \cup (IF m = mod THEN {Answer(says)} ELSE {})
      BY DEF Pending
    <3> DEFINE a == Answer(says)
    <3>1. a \in Replies /\ air' = Joined(late, a)
      BY <1>6
    <3> HIDE DEF a
    <3>2. air'[m][i] \in Pending(m) \cup (IF m = mod THEN {a} ELSE {})
      BY <1>5, <3>1
    <3> QED
      BY <3>2 DEF a
  <2> QED
    BY <1>6, <2>1
<1>7. ASSUME NEW says \in Handle(mod, request), Answer(says) \in Replies, Answer("pending") \in Replies,
             air' = Joined(Joined(late, Answer("pending")), Answer(says)),
             denied' = (denied \/ request \in Services)
      PROVE  \E more \in {{}, {Answer("pending")}} :
              /\ \A m \in Modules :
                   Pending(m)' \subseteq Pending(m) \cup (IF m = mod THEN {Answer(says)} \cup more ELSE {})
              /\ denied' = (\/ denied \/ (request \in {"session", "ident"} /\ says # "yes")
                            \/ (more # {} /\ request \in Services))
  <2> DEFINE p == Answer("pending")
             f == Joined(late, p)
  <2>1. f \in Airs
    BY <1>2, <1>7, JoinedIs DEF Airs
  <2>2. ASSUME NEW m \in Modules, NEW i \in 1 .. Len(f[m])
        PROVE  f[m][i] \in Pending(m) \cup (IF m = mod THEN {p} ELSE {})
    BY <1>5, <1>7
  <2> HIDE DEF f
  <2>3. air' = Joined(f, Answer(says))
    BY <1>7 DEF f
  <2>4. ASSUME NEW m \in Modules, NEW i \in 1 .. Len(air'[m])
        PROVE  air'[m][i] \in Pending(m) \cup (IF m = mod THEN {Answer(says)} \cup {p} ELSE {})
    <3> DEFINE a == Answer(says)
    <3>0. a \in Replies /\ air' = Joined(f, a)
      BY <1>7, <2>3
    <3> HIDE DEF a
    <3>1. \/ i \in 1 .. Len(f[m]) /\ air'[m][i] = f[m][i]
          \/ m = mod /\ air'[m][i] = a
      BY <1>2, <2>1, <2>4, <3>0, JoinedFrom
    <3> USE DEF a
    <3> QED
      BY <2>2, <3>1
  <2>5. \A m \in Modules :
          Pending(m)' \subseteq Pending(m) \cup (IF m = mod THEN {Answer(says)} \cup {p} ELSE {})
    BY <2>4 DEF Pending
  <2>6. request \in {"session", "ident"} => request \in Services
    BY DEF Services
  <2> WITNESS {p} \in {{}, {Answer("pending")}}
  <2> QED
    BY <1>7, <2>5, <2>6
<1> QED
  BY <1>1, <1>4, <1>6, <1>7

\* What a request adds is an answer to it, of the module that is asked.
LEMMA AskTo ==
  ASSUME TypeOK, Ask, NEW m \in Modules, NEW a \in Pending(m)'
  PROVE  a \in Pending(m) \/ (m = mod /\ a.to = request)
<1>1. CASE Fewer
  BY <1>1 DEF Fewer
<1>2. ASSUME NEW says, NEW more \in {{}, {Answer("pending")}},
             Pending(m)' \subseteq Pending(m) \cup (IF m = mod THEN {Answer(says)} \cup more ELSE {})
      PROVE  a \in Pending(m) \/ (m = mod /\ a.to = request)
  <2>1. a \in Pending(m) \/ (m = mod /\ (a = Answer(says) \/ a = Answer("pending")))
    BY <1>2
  <2> QED
    BY <2>1 DEF Answer
<1> QED
  BY <1>1, <1>2, AskOne

LEMMA SoundFewer == ASSUME Sound, Fewer, denied' = denied PROVE Sound'
<1> SUFFICES ASSUME NEW m \in Modules, NEW a \in Pending(m)' PROVE Given(m, a)'
  BY DEF Sound
<1>1. Given(m, a)
  BY DEF Sound, Fewer
<1> QED
  BY <1>1 DEF Given

LEMMA SoundAsk == ASSUME TypeOK, Sound, Ask PROVE Sound'
<1>1. CASE Fewer /\ denied' = denied
  BY <1>1, SoundFewer
<1>2. ASSUME NEW says \in Handle(mod, request), NEW more \in {{}, {Answer("pending")}},
             \A m \in Modules :
               Pending(m)' \subseteq Pending(m) \cup (IF m = mod THEN {Answer(says)} \cup more ELSE {}),
             denied' = (\/ denied \/ (request \in {"session", "ident"} /\ says # "yes")
                        \/ (more # {} /\ request \in Services))
      PROVE  Sound'
  <2> SUFFICES ASSUME NEW m \in Modules, NEW a \in Pending(m)' PROVE Given(m, a)'
    BY DEF Sound
  <2>1. CASE a \in Pending(m)
    <3>1. Given(m, a)
      BY <2>1 DEF Sound
    <3> QED
      BY <3>1, <1>2 DEF Given
  <2>2. CASE m = mod /\ a = Answer(says)
    <3>1. a.from = mod /\ a.to = request /\ a.says = says
      BY <2>2 DEF Answer
    <3>2. request \in Groups => says \in {"pending"} \cup ReadLocal(mod, request)
      BY VagAssumption DEF Handle, Services
    <3> QED
      BY <3>1, <3>2, <2>2, <1>2 DEF Given
  <2>3. CASE m = mod /\ a \in more
    <3>1. a.from = mod /\ a.to = request /\ a.says = "pending" /\ more # {}
      BY <1>2, <2>3 DEF Answer
    <3>2. request \in {"session", "ident"} => denied'
      BY <1>2, <3>1 DEF Services
    <3> QED
      BY <3>1, <3>2, <2>3 DEF Given
  <2> QED
    BY <1>2, <2>1, <2>2, <2>3
<1> QED
  BY <1>1, <1>2, AskOne

LEMMA EndWays == ASSUME Ways, Fewer, cmd' = cmd, blocks' = blocks, NEW result \in Reports \ {"running"}, End(result)
                 PROVE  Ways'
BY DEF Ways, OneModule, Listing, TwoRequests, Ended, Fewer, End, callVars, taskVars

\* A group is never asked for before the session is over, nor in a listing.
LEMMA NextGroupWays ==
  ASSUME TypeOK, Ways, Fewer, UNCHANGED cmd, NEW read, NextGroup(read), pc = "wait", cmd # "modules",
         cmd = "read" => request = "session"
  PROVE  Ways'
<1>1. CASE groups = <<>>
  <2>1. PICK result \in {"nothing", "blocks"} : End(result)
    BY <1>1 DEF NextGroup
  <2> QED
    BY <2>1 DEF Ways, OneModule, Listing, TwoRequests, Ended, Fewer, End, callVars, taskVars
<1>2. CASE groups # <<>>
  <2>1. request' \in Groups /\ pc' = "ask" /\ mod' = mod /\ todo' = todo /\ report' = report
    BY <1>2, GroupsOnly DEF NextGroup
  <2>2. request' \notin {"ident", "dtcs"} /\ "session" \notin Groups
    BY <2>1, VagAssumption DEF Services
  <2>3. OneModule'
    BY <2>1, <2>2 DEF Ways, OneModule, Fewer
  <2>4. TwoRequests'
    BY <2>1, <2>2 DEF Ways, TwoRequests, Fewer
  <2> QED
    BY <2>1, <2>3, <2>4 DEF Ways, Listing, Ended
<1> QED
  BY <1>1, <1>2

LEMMA CourseWays == ASSUME TypeOK, Ways, Course, Fewer, cmd' = cmd, pc = "wait" PROVE Ways'
<1>0. Groups \cap {"session", "ident", "dtcs"} = {}
  BY VagAssumption DEF Services
<1>1. CASE request = "session" /\ SessionOver
  <2>1. CASE cmd = "modules"
    <3>1. NextRequest("ident") /\ UNCHANGED resultVars
      BY <1>1, <2>1 DEF SessionOver
    <3> QED
      BY <3>1, <2>1 DEF NextRequest, Ways, OneModule, Listing, TwoRequests, Ended, Services, taskVars, resultVars
  <2>2. CASE cmd # "modules"
    BY <1>1, <2>2, NextGroupWays DEF SessionOver
  <2> QED
    BY <2>1, <2>2
<1>2. ASSUME request = "ident", NEW reply, IdentOver(reply) PROVE Ways'
  <2>1. cmd = "modules"
    BY <1>2 DEF Ways, OneModule
  <2> QED
    BY <1>2, <2>1 DEF IdentOver, NextRequest, Ways, OneModule, Listing, TwoRequests, Ended, Services, taskVars
<1>3. ASSUME request = "dtcs", NEW reply, Listed(reply) PROVE Ways'
  <2>1. cmd = "modules"
    BY <1>3 DEF Ways, OneModule
  <2> QED
    BY <1>3, <2>1 DEF Listed, Ways, OneModule, Listing, TwoRequests, Ended, Services, callVars, taskVars
<1>4. CASE Abort
  BY <1>4, EndWays DEF Abort, resultVars, Reports
<1>5. ASSUME request \in Groups, NEW result \in Fails, GroupFails(result) PROVE Ways'
  <2>1. cmd # "modules" /\ request # "session"
    BY <1>5, <1>0 DEF Ways, Listing, Services
  <2>2. CASE cmd = "read"
    BY <1>5, <2>2, EndWays DEF GroupFails, resultVars, Reports, Fails
  <2>3. CASE cmd # "read"
    BY <1>5, <2>1, <2>3, NextGroupWays DEF GroupFails
  <2> QED
    BY <2>2, <2>3
<1>6. ASSUME request \in Groups, NEW reply, ReadGroup(reply) PROVE Ways'
  <2>1. cmd # "modules" /\ request # "session"
    BY <1>6, <1>0 DEF Ways, Listing, Services
  <2>2. CASE cmd = "read"
    BY <1>6, <2>1, <2>2 DEF ReadGroup, End, Ways, OneModule, Listing, TwoRequests, Ended, Fewer, callVars, taskVars
  <2>3. CASE cmd # "read"
    BY <1>6, <2>1, <2>3, NextGroupWays DEF ReadGroup
  <2> QED
    BY <2>2, <2>3
<1> QED
  BY <1>1, <1>2, <1>3, <1>4, <1>5, <1>6 DEF Course

LEMMA InitWays == Init => Ways /\ Sound
<1> SUFFICES ASSUME Init PROVE Ways /\ Sound OBVIOUS
<1>1. \A m \in Modules : Pending(m) = {}
  <2>1. \A m \in Modules : air[m] = <<>>
    BY DEF Init
  <2>2. 1 .. Len(<<>>) = {}
    OBVIOUS
  <2> QED
    BY <2>1, <2>2 DEF Pending
<1> QED
  BY <1>1 DEF Init, Ways, Sound, OneModule, Listing, TwoRequests, Ended, Services

\* What comes in, or does not, when a reply is waited for.
LEMMA WaitFewer ==
  ASSUME TypeOK, Silence \/ \E m \in Modules : Take(m)
  PROVE  Fewer
BY Unchanged, TakeShrinks, ShrinksFewer DEF Silence

LEMMA StepWays ==
  ASSUME TypeOK, Ways, Sound, [Next]_vars
  PROVE  Ways' /\ Sound'
<1>1. CASE OpenFails
  <2>1. Fewer /\ denied' = denied /\ cmd' = cmd /\ blocks' = blocks
    BY <1>1, Unchanged, ShrinksFewer DEF OpenFails, resultVars
  <2>2. CASE cmd = "modules"
    BY <1>1, <2>1, <2>2, SoundFewer DEF OpenFails, Ways, OneModule, Listing, TwoRequests, Ended, callVars
  <2>3. CASE cmd # "modules"
    BY <1>1, <2>1, <2>3, SoundFewer, EndWays DEF OpenFails, Reports
  <2> QED
    BY <2>2, <2>3
<1>2. CASE Opened
  <2>1. Fewer /\ denied' = denied
    BY <1>2, Unchanged, ShrinksFewer DEF Opened
  <2>2. cmd # "modules" => mod' = mod /\ \A m \in Modules : Pending(m)' = {}
    BY <1>2, <2>1 DEF Opened, Ways, OneModule, Fewer
  <2>3. cmd' = cmd /\ blocks' = blocks /\ report' = report /\ pc' = "ask" /\ pc = "open" /\ request' = "session"
    BY <1>2 DEF Opened
  <2>4. OneModule' /\ TwoRequests'
    BY <2>2, <2>3 DEF OneModule, TwoRequests
  <2>5. Listing' /\ Ended'
    BY <2>3 DEF Ways, Listing, Ended, Services
  <2> QED
    BY <2>1, <2>4, <2>5, SoundFewer DEF Ways
<1>3. CASE ShowListing
  BY <1>3, Unchanged, ShrinksFewer, SoundFewer, EndWays DEF ShowListing, resultVars, Reports
<1>4. CASE Ask
  <2>1. Sound'
    BY <1>4, SoundAsk
  <2>2. \A m \in Modules : \A a \in Pending(m)' : a \in Pending(m) \/ (m = mod /\ a.to = request)
    BY <1>4, AskTo
  <2>3. UNCHANGED <<cmd, request, todo, mod, blocks, report>> /\ pc = "ask" /\ pc' = "wait"
    BY <1>4 DEF Ask, callVars, taskVars, resultVars
  <2>4. OneModule'
    BY <2>2, <2>3 DEF Ways, OneModule
  <2>5. TwoRequests'
    <3> SUFFICES ASSUME cmd = "read", NEW m \in Modules, NEW a \in Pending(m)'
                 PROVE  a.to = "session" \/ (request \in Groups /\ a.to = request)
      BY <2>3 DEF TwoRequests
    <3>1. a \in Pending(m) \/ a.to = request
      BY <2>2
    <3>2. request \in Groups \cup {"session"}
      BY DEF Ways, OneModule, TypeOK, Requests, Services
    <3> QED
      BY <3>1, <3>2 DEF Ways, TwoRequests
  <2> QED
    BY <2>1, <2>3, <2>4, <2>5 DEF Ways, Listing, Ended
<1>5. ASSUME NEW m \in Modules, TakePending(m) PROVE Ways' /\ Sound'
  <2>1. Fewer /\ denied' = denied
    BY <1>5, WaitFewer DEF TakePending, Take
  <2>2. Sound'
    BY <2>1, SoundFewer
  <2> QED
    BY <1>5, <2>1, <2>2 DEF TakePending, Take, Ways, OneModule, Listing, TwoRequests, Ended, Fewer, taskVars, resultVars
<1>6. CASE Silence \/ \E m \in Modules : TakeRefusal(m) \/ TakeMisfit(m) \/ TakeAnswer(m)
  <2>1. Course /\ pc = "wait" /\ UNCHANGED <<cmd, silent, denied>>
    BY <1>6, WaitEnds
  <2>2. Fewer
    BY <1>6, WaitFewer DEF TakeRefusal, TakeMisfit, TakeAnswer
  <2> QED
    BY <2>1, <2>2, SoundFewer, CourseWays
<1>7. CASE BusFails
  BY <1>7, Unchanged, ShrinksFewer, SoundFewer, EndWays DEF BusFails, Abort, resultVars, Reports
<1>8. CASE UNCHANGED vars
  <2>1. Fewer /\ denied' = denied
    BY <1>8, Unchanged, ShrinksFewer DEF vars
  <2> QED
    BY <1>8, <2>1, SoundFewer DEF vars, callVars, taskVars, resultVars, Ways, OneModule, Listing, TwoRequests, Ended, Fewer
<1> QED
  BY <1>1, <1>2, <1>3, <1>4, <1>5, <1>6, <1>7, <1>8 DEF Next, Receive

-----------------------------------------------------------------------------
\* The reply that a refused identifier is reported by is a refusal of it.
LEMMA LockedIsSo ==
  ASSUME TypeOK, Ways, Sound, NEW m \in Modules, Take(m), request \in Groups, cmd = "read",
         Head(air[m]).says = "protected", ~denied
  PROVE  request \in Locked[mod]
<1>1. Head(air[m]) \in Pending(m)
  BY TakeShrinks DEF Pending
<1>2. m = mod /\ Given(m, Head(air[m]))
  BY <1>1 DEF Ways, OneModule, Sound
<1>3. Head(air[m]).to = request
  BY <1>1, <1>2 DEF Ways, TwoRequests, Given
<1> QED
  BY <1>2, <1>3 DEF Given, ReadLocal

\* A group that is read is read from its module, which gives it.
LEMMA ValueIsSo ==
  ASSUME TypeOK, Ways, Sound, NEW m \in Modules, Take(m), request \in Groups,
         Fits(Head(air[m])), Echoes(Head(air[m]))
  PROVE  Head(air[m]).from = mod /\ Head(air[m]).to = request /\ request \in Holds[mod] \ Locked[mod]
<1>1. Head(air[m]) \in Pending(m)
  BY TakeShrinks DEF Pending
<1>2. m = mod /\ Given(m, Head(air[m]))
  BY <1>1, VagAssumption DEF Ways, Listing, OneModule, Sound, Services
<1> QED
  BY <1>2 DEF Given, ReadLocal, Fits, Echoes

\* The properties hold of what is reported, when it is reported and from then on.
ReadInv == Ways /\ Sound /\ ReadIsTrue

Report == <<blocks, report, request, mod>>

LEMMA InitRead == Init => ReadInv
BY InitWays DEF Init, ReadInv, ReadIsTrue

LEMMA StepRead ==
  ASSUME TypeOK, ReadInv, [Next]_vars
  PROVE  ReadIsTrue'
<1> USE DEF ReadInv
<1>0. pc # "over" => report = "running"
  BY DEF Ways, Ended
<1>1. ASSUME report' \notin {"locked", "value"} PROVE ReadIsTrue'
  BY <1>1 DEF ReadIsTrue
<1>2. CASE OpenFails
  <2>1. report' \in {"running", "aborted"}
    BY <1>0, <1>2 DEF OpenFails, End
  <2> QED
    BY <2>1, <1>1
<1>3. CASE Opened
  BY <1>0, <1>1, <1>3 DEF Opened
<1>4. CASE ShowListing
  BY <1>1, <1>4 DEF ShowListing, End, taskVars, resultVars
<1>5. CASE Ask
  BY <1>0, <1>1, <1>5 DEF Ask, taskVars, resultVars
<1>6. CASE BusFails
  BY <1>1, <1>6 DEF BusFails, Abort, End, taskVars, resultVars
<1>7. ASSUME NEW m \in Modules, TakePending(m) PROVE ReadIsTrue'
  BY <1>0, <1>1, <1>7 DEF TakePending, Take, taskVars, resultVars
<1>8. ASSUME pc = "wait", NEW r, NextGroup(r) PROVE mod' = mod /\ report' \notin {"locked", "value"}
  BY <1>0, <1>8 DEF NextGroup, End, taskVars
<1>9. ASSUME pc = "wait", SessionOver PROVE ReadIsTrue'
  <2>1. report' \notin {"locked", "value"}
    BY <1>0, <1>8, <1>9 DEF SessionOver, NextRequest, taskVars, resultVars
  <2> QED
    BY <1>1, <2>1
<1>10. ASSUME pc = "wait", NEW a, IdentOver(a) \/ Listed(a) \/ DtcsFail PROVE ReadIsTrue'
  BY <1>0, <1>1, <1>10 DEF IdentOver, Listed, DtcsFail, Abort, NextRequest, End, taskVars, resultVars
<1>11. ASSUME pc = "wait", NEW result \in {"refused", "aborted"}, GroupFails(result)
       PROVE  ReadIsTrue'
  <2>1. report' \notin {"locked", "value"}
    BY <1>8, <1>11 DEF GroupFails, End, taskVars, resultVars
  <2> QED
    BY <1>1, <2>1
<1>12. CASE Silence
  BY <1>9, <1>10, <1>11, <1>12 DEF Silence
<1>13. ASSUME NEW m \in Modules, TakeMisfit(m) PROVE ReadIsTrue'
  BY <1>9, <1>10, <1>11, <1>13 DEF TakeMisfit, Take
<1>14. ASSUME NEW m \in Modules, TakeRefusal(m) PROVE ReadIsTrue'
  <2>1. CASE request \in Groups /\ Head(air[m]).says \in Protected /\ GroupFails("locked")
    <3>1. CASE cmd # "read"
      <4>1. report' \notin {"locked", "value"}
        BY <1>8, <1>14, <2>1, <3>1 DEF GroupFails, TakeRefusal, Take, resultVars
      <4> QED
        BY <1>1, <4>1
    <3>2. CASE cmd = "read"
      <4>1. /\ blocks' = blocks /\ mod' = mod /\ request' = request /\ report' = "locked"
            /\ denied' = denied
        BY <1>14, <2>1, <3>2 DEF GroupFails, End, TakeRefusal, Take, resultVars, taskVars, callVars
      <4>2. ~denied => request \in Locked[mod]
        BY <1>14, <2>1, <3>2, LockedIsSo DEF TakeRefusal, Protected
      <4> QED
        BY <4>1, <4>2 DEF ReadIsTrue
    <3> QED
      BY <3>1, <3>2
  <2>2. CASE request \in Groups /\ GroupFails("refused")
    BY <1>11, <1>14, <2>2 DEF TakeRefusal, Take
  <2> QED
    BY <1>9, <1>10, <1>14, <2>1, <2>2 DEF TakeRefusal, Take
<1>15. ASSUME NEW m \in Modules, TakeAnswer(m) PROVE ReadIsTrue'
  <2>1. CASE request \in Groups /\ Echoes(Head(air[m])) /\ ReadGroup(Head(air[m]))
    <3>1. /\ Head(air[m]).from = mod /\ Head(air[m]).to = request
          /\ request \in Holds[mod] \ Locked[mod]
      BY <1>15, <2>1, ValueIsSo DEF TakeAnswer
    <3>2. report' # "locked" /\ mod' = mod /\ (report' = "value" => request' = request)
      BY <1>8, <1>15, <2>1 DEF ReadGroup, End, TakeAnswer, Take, taskVars, callVars
    <3> QED
      BY <3>1, <3>2 DEF ReadIsTrue
  <2> QED
    BY <1>9, <1>10, <1>11, <1>15, <2>1 DEF TakeAnswer, Take
<1>16. CASE UNCHANGED vars
  BY <1>16 DEF vars, callVars, taskVars, resultVars, ReadIsTrue
<1> QED
  BY <1>2, <1>3, <1>4, <1>5, <1>6, <1>7, <1>12, <1>13, <1>14, <1>15, <1>16 DEF Next, Receive

\* What `vag read' says of an identifier, that it is locked or that this is its
\* value, is so in the module.
THEOREM ReadTheorem == Spec => []ReadIsTrue
<1>1. Init => TypeOK /\ ReadInv
  BY InitType, InitRead
<1>2. TypeOK /\ ReadInv /\ [Next]_vars => (TypeOK /\ ReadInv)'
  BY StepType, StepWays, StepRead DEF ReadInv
<1>3. ReadInv => ReadIsTrue
  BY DEF ReadInv
<1> QED
  BY <1>1, <1>2, <1>3, PTL DEF Spec

-----------------------------------------------------------------------------
(***************************************************************************)
(* `vag modules'. While no session and no identification is refused or put *)
(* off, what is on its way are answers of the module whose turn it is, in  *)
(* the order of the requests, and the answer to the last one comes last.   *)
(* The scan goes on to the next module only with that answer, so nothing   *)
(* is left of this one.                                                    *)
(***************************************************************************)
Earlier(r) == {q \in Services : (q = "session" /\ r # "session") \/ (q = "ident" /\ r = "dtcs")}

\* A queue ends with the answer to r, if it has it.
LastOnly(s, r) == \A i \in 1 .. Len(s) : s[i].to = r => i = Len(s)

InTurn == cmd = "modules" /\ ~denied /\ pc # "over" =>
  /\ \A m \in Modules : Pending(m) # {} => m = mod /\ pc # "open"
  /\ \A m \in Modules : \A a \in Pending(m) : a.to \in Earlier(request) \/ (pc = "wait" /\ a.to = request)
  /\ LastOnly(air[mod], request)
  /\ request = "dtcs" /\ pc # "open" /\ ident # None => ident.from = mod /\ ident.to = "ident"

OwnInv == Ways /\ Sound /\ InTurn /\ ListedIsItsOwn /\ (cmd # "modules" => found = <<>>)

LEMMA LastLeft ==
  ASSUME NEW S, NEW s \in Seq(S), NEW t \in Seq(S), NEW k \in Nat, Left(t, s, k), NEW r, LastOnly(s, r)
  PROVE  LastOnly(t, r)
<1> SUFFICES ASSUME NEW i \in 1 .. Len(t), t[i].to = r PROVE i = Len(t)
  BY DEF LastOnly
<1>1. i + k \in 1 .. Len(s) /\ t[i] = s[i + k]
  BY LeftFewer
<1>2. i + k = Len(s)
  BY <1>1 DEF LastOnly
<1> DEFINE n == Len(s)
           l == Len(t)
<1>3. n \in Nat /\ l \in Nat /\ l = n - k /\ i \in 1 .. l /\ i + k = n
  BY <1>2, LenProperties DEF Left
<1> HIDE DEF n, l
<1>4. i = l
  BY <1>3
<1> QED
  BY <1>4 DEF l

LEMMA ShrinksLast == TypeOK /\ Shrinks /\ LastOnly(air[mod], request) => LastOnly(air'[mod], request)
BY LastLeft DEF TypeOK, Shrinks

\* When the answer to the last request is taken, nothing is left.
LEMMA TakeLastOne ==
  ASSUME TypeOK, NEW m \in Modules, Take(m), LastOnly(air[m], request), Head(air[m]).to = request
  PROVE  Pending(m)' = {} /\ LastOnly(air'[m], request)
<1>1. /\ Shrinks /\ Head(air[m]) = air[m][1] /\ 1 \in 1 .. Len(air[m])
      /\ air[m] \in Seq(Replies) /\ air[m] # <<>>
  BY TakeShrinks DEF Take, TypeOK
<1>2. 1 = Len(air[m])
  BY <1>1 DEF LastOnly
<1>3. air'[m] = Tail(air[m])
  BY DEF Take, TypeOK
<1>4. Len(Tail(air[m])) = Len(air[m]) - 1
  BY <1>1, HeadTailProperties
<1>5. Len(air'[m]) = 0
  BY <1>2, <1>3, <1>4
<1>6. 1 .. 0 = {}
  OBVIOUS
<1> QED
  BY <1>5, <1>6 DEF Pending, LastOnly

\* The answers on their way, in a turn: of mod, and of no later request.
LEMMA TurnFacts ==
  ASSUME TypeOK, Ways, Sound, InTurn, cmd = "modules", ~denied, NEW m \in Modules, Take(m)
  PROVE  /\ m = mod /\ request \in Services /\ LastOnly(air[mod], request)
         /\ Head(air[m]) \in Replies /\ Head(air[m]).from = mod
         /\ Head(air[m]).to \in Earlier(request) \cup {request}
         /\ Head(air[m]).says # "yes" => Head(air[m]).to = "dtcs" /\ request = "dtcs"
         /\ Fits(Head(air[m])) => Head(air[m]).to = request
<1>1. Head(air[m]) \in Pending(m) /\ Head(air[m]) \in Replies
  BY TakeShrinks DEF Pending
<1>2. pc = "wait"
  BY DEF Take
<1>3. /\ m = mod /\ LastOnly(air[mod], request) /\ request \in Services
      /\ Head(air[m]).to \in Earlier(request) \cup {request}
  BY <1>1, <1>2 DEF InTurn, Ways, Listing
<1>4. Given(m, Head(air[m]))
  BY <1>1 DEF Sound
<1>5. Head(air[m]).says # "yes" => Head(air[m]).to = "dtcs" /\ request = "dtcs"
  BY <1>3, <1>4 DEF Given, Earlier, Services
<1>6. Head(air[m]).to \in Services
  BY <1>3 DEF Earlier
<1>7. Fits(Head(air[m])) => Head(air[m]).to = request
  BY <1>3, <1>6, VagAssumption DEF Fits, Service
<1> QED
  BY <1>1, <1>3, <1>4, <1>5, <1>7 DEF Given

LEMMA AskTurn ==
  ASSUME TypeOK, Ways, InTurn, Ask, cmd = "modules", ~denied'
  PROVE  InTurn'
<1>1. UNCHANGED <<cmd, request, mod, ident>> /\ pc = "ask" /\ pc' = "wait"
  BY DEF Ask, callVars, taskVars, resultVars
<1>2. ~denied
  BY AskOne
<1>3. \A m \in Modules : Pending(m) # {} => m = mod
  BY <1>1, <1>2 DEF InTurn
<1>4. \A m \in Modules : \A a \in Pending(m) : a.to \in Earlier(request) /\ a.to # request
  BY <1>1, <1>2 DEF InTurn, Earlier
<1>5. \A m \in Modules : \A a \in Pending(m)' : a \in Pending(m) \/ (m = mod /\ a.to = request)
  BY AskTo
<1>6. LastOnly(air'[mod], request)
  <2>1. PICK late \in [Modules -> Seq(Replies)] :
             /\ \A m \in Modules : \E k \in Nat : Left(late[m], air[m], k)
             /\ \/ air' = late
                \/ \E says \in Handle(mod, request) : Answer(says) \in Replies /\ air' = Joined(late, Answer(says))
    <3>1. request \in Services
      BY DEF Ways, Listing
    <3> QED
      BY <3>1, AskAnswers
  <2>2. mod \in Modules /\ air[mod] \in Seq(Replies) /\ late[mod] \in Seq(Replies)
    BY DEF TypeOK
  <2>3. ASSUME NEW i \in 1 .. Len(late[mod]) PROVE late[mod][i].to # request
    <3>1. PICK k \in Nat : Left(late[mod], air[mod], k)
      BY <2>1, <2>2
    <3>2. i + k \in 1 .. Len(air[mod]) /\ late[mod][i] = air[mod][i + k]
      BY <2>2, <3>1, LeftFewer
    <3>3. late[mod][i] \in Pending(mod)
      BY <3>2 DEF Pending
    <3> QED
      BY <1>4, <2>2, <3>3
  <2>4. CASE air' = late
    BY <2>3, <2>4 DEF LastOnly
  <2>5. ASSUME NEW says \in Handle(mod, request), Answer(says) \in Replies,
               air' = Joined(late, Answer(says))
        PROVE  LastOnly(air'[mod], request)
    <3> DEFINE q == air'[mod]
               n == Len(late[mod])
    <3>1. n \in Nat /\ Len(q) = n + 1 /\ \A j \in 1 .. n : q[j] = late[mod][j]
      BY <2>2, <2>5, JoinedIs
    <3>2. \A j \in 1 .. n : late[mod][j].to # request
      BY <2>3
    <3> HIDE DEF q, n
    <3>3. \A i \in 1 .. n + 1 : q[i].to = request => i = n + 1
      <4> SUFFICES ASSUME NEW i \in 1 .. n + 1, i # n + 1 PROVE q[i].to # request
        OBVIOUS
      <4>1. i \in 1 .. n
        BY <3>1
      <4> QED
        BY <4>1, <3>1, <3>2
    <3> QED
      BY <3>1, <3>3 DEF LastOnly, q
  <2> QED
    BY <2>1, <2>4, <2>5
<1>7. request = "dtcs" /\ ident # None => ident.from = mod /\ ident.to = "ident"
  BY <1>1, <1>2 DEF InTurn
<1>8. \A m \in Modules : Pending(m)' # {} => m = mod
  BY <1>3, <1>5
<1>9. \A m \in Modules : \A a \in Pending(m)' : a.to \in Earlier(request) \/ a.to = request
  BY <1>4, <1>5
<1> QED
  BY <1>1, <1>6, <1>7, <1>8, <1>9 DEF InTurn, Earlier

\* The next request of a turn: what is on its way is of the ones before it.
LEMMA NextInTurn ==
  ASSUME TypeOK, InTurn, Fewer, cmd = "modules", ~denied, UNCHANGED cmd, pc = "wait",
         NEW r \in Services, NextRequest(r), {request} \cup Earlier(request) \subseteq Earlier(r),
         r = "dtcs" /\ ident' # None => ident'.from = mod /\ ident'.to = "ident"
  PROVE  InTurn'
<1>1. pc' = "ask" /\ request' = r /\ mod' = mod
  BY DEF NextRequest, taskVars
<1>2. \A m \in Modules : \A a \in Pending(m)' : a \in Pending(m)
  BY DEF Fewer
<1>3. \A m \in Modules : \A a \in Pending(m)' : a.to \in Earlier(r) /\ a.to # r
  BY <1>2 DEF InTurn, Earlier
<1>4. \A m \in Modules : Pending(m)' # {} => m = mod
  BY <1>2 DEF InTurn
<1>5. LastOnly(air'[mod], r)
  BY <1>3 DEF LastOnly, Pending, TypeOK
<1> QED
  BY <1>1, <1>3, <1>4, <1>5 DEF InTurn

\* An entry is of its module when it is made.
LEMMA ListedOwn ==
  ASSUME TypeOK, InTurn, ListedIsItsOwn, cmd = "modules", ~denied, pc = "wait", request = "dtcs",
         NEW reply \in Replies, Listed(reply), reply.from = mod, reply.to = "dtcs"
  PROVE  \A i \in 1 .. Len(found') :
           LET e == found'[i]
           IN /\ e.ident # None => e.ident.from = e.module /\ e.ident.to = "ident"
              /\ e.dtcs.from = e.module /\ e.dtcs.to = "dtcs"
<1> DEFINE e == [module |-> mod, ident |-> ident, dtcs |-> reply]
           n == Len(found)
<1>1. e \in Entries /\ found \in Seq(Entries)
  <2>1. ident \in Replies \cup {None} /\ mod \in Modules /\ found \in Seq(Entries)
    BY DEF TypeOK
  <2> QED
    BY <2>1 DEF Entries
<1>2. found' = Append(found, e)
  BY DEF Listed
<1>3. e.module = mod /\ e.ident = ident /\ e.dtcs = reply
  OBVIOUS
<1> HIDE DEF e
<1>4. /\ Len(Append(found, e)) = n + 1 /\ Append(found, e)[n + 1] = e
      /\ \A i \in 1 .. n : Append(found, e)[i] = found[i]
  BY <1>1, AppendProperties
<1>5. n \in Nat
  BY <1>1, LenProperties
<1>6. ident # None => ident.from = mod /\ ident.to = "ident"
  BY DEF InTurn
<1>7. \A i \in 1 .. n :
        /\ found[i].ident # None => found[i].ident.from = found[i].module /\ found[i].ident.to = "ident"
        /\ found[i].dtcs.from = found[i].module /\ found[i].dtcs.to = "dtcs"
  BY DEF ListedIsItsOwn
<1> HIDE DEF n
<1> SUFFICES ASSUME NEW i \in 1 .. n + 1
             PROVE  /\ found'[i].ident # None =>
                         found'[i].ident.from = found'[i].module /\ found'[i].ident.to = "ident"
                    /\ found'[i].dtcs.from = found'[i].module /\ found'[i].dtcs.to = "dtcs"
  BY <1>2, <1>4
<1>8. CASE i \in 1 .. n
  BY <1>2, <1>4, <1>7, <1>8
<1>9. CASE i = n + 1
  BY <1>2, <1>3, <1>4, <1>6, <1>9
<1> QED
  BY <1>5, <1>8, <1>9

\* What a wait ends with, in a turn.
TurnEnds ==
  \/ request = "session" /\ NextRequest("ident") /\ UNCHANGED resultVars
  \/ /\ request = "ident" /\ NextRequest("dtcs") /\ UNCHANGED <<found, blocks>>
     /\ ident' # None => ident'.from = mod /\ ident'.to = "ident"
  \/ /\ request = "dtcs" /\ \E reply \in Replies : Listed(reply) /\ reply.from = mod /\ reply.to = "dtcs"
     /\ \A m \in Modules : Pending(m)' = {}
  \/ Abort

LEMMA WaitTurn ==
  ASSUME TypeOK, Ways, Sound, InTurn, cmd = "modules", ~denied,
         Silence \/ \E m \in Modules : TakeRefusal(m) \/ TakeMisfit(m) \/ TakeAnswer(m)
  PROVE  TurnEnds
<1>0. request \in Services /\ request \notin Groups
  BY VagAssumption DEF Ways, Listing
<1>1. CASE Silence
  BY <1>0, <1>1 DEF Silence, SessionOver, IdentOver, DtcsFail, TurnEnds
<1>2. ASSUME NEW m \in Modules, TakeMisfit(m) PROVE TurnEnds
  BY <1>0, <1>2 DEF TakeMisfit, SessionOver, IdentOver, DtcsFail, TurnEnds
<1>3. ASSUME NEW m \in Modules, Take(m), Head(air[m]).to = request, request = "dtcs", Listed(Head(air[m]))
      PROVE  TurnEnds
  <2>1. Head(air[m]) \in Replies /\ Head(air[m]).from = mod /\ m = mod /\ LastOnly(air[m], request)
    BY <1>3, TurnFacts
  <2>2. Pending(m)' = {}
    BY <1>3, <2>1, TakeLastOne
  <2>3. \A x \in Modules : Pending(x)' = {}
    <3>1. Fewer /\ pc = "wait"
      BY <1>3, WaitFewer DEF Take
    <3> QED
      BY <2>1, <2>2, <3>1 DEF Fewer, InTurn
  <2> QED
    BY <1>3, <2>1, <2>3 DEF TurnEnds
<1>4. ASSUME NEW m \in Modules, TakeRefusal(m) PROVE TurnEnds
  <2>1. Take(m) /\ Head(air[m]).says \in Refusals
    BY <1>4 DEF TakeRefusal
  <2>2. Head(air[m]).to = "dtcs" /\ request = "dtcs"
    BY <2>1, TurnFacts DEF Refusals
  <2>3. Listed(Head(air[m])) \/ DtcsFail
    BY <1>0, <1>4, <2>2 DEF TakeRefusal
  <2> QED
    BY <1>3, <2>1, <2>2, <2>3 DEF DtcsFail, TurnEnds
<1>5. ASSUME NEW m \in Modules, TakeAnswer(m) PROVE TurnEnds
  <2>1. Take(m) /\ Head(air[m]).to = request /\ Head(air[m]).from = mod
    BY <1>5, TurnFacts DEF TakeAnswer
  <2>2. CASE request = "session" /\ SessionOver
    BY <2>2 DEF SessionOver, TurnEnds
  <2>3. CASE request = "ident" /\ IdentOver(Head(air[m]))
    BY <2>1, <2>3 DEF IdentOver, TurnEnds
  <2>4. CASE request = "dtcs" /\ Listed(Head(air[m]))
    BY <1>3, <2>1, <2>4
  <2> QED
    BY <1>0, <1>5, <2>2, <2>3, <2>4 DEF TakeAnswer
<1> QED
  BY <1>1, <1>2, <1>4, <1>5

LEMMA InitOwn == Init => OwnInv
<1> SUFFICES ASSUME Init PROVE OwnInv OBVIOUS
<1>1. Ways /\ Sound
  BY InitWays
<1>2. 1 .. Len(<<>>) = {}
  OBVIOUS
<1>3. air = [m \in Modules |-> <<>>] /\ found = <<>> /\ request = "session" /\ mod \in Modules
  BY DEF Init
<1>4. (\A m \in Modules : Pending(m) = {}) /\ LastOnly(air[mod], request)
  BY <1>2, <1>3 DEF Pending, LastOnly
<1>5. InTurn
  BY <1>3, <1>4 DEF InTurn
<1>6. ListedIsItsOwn
  BY <1>2, <1>3 DEF ListedIsItsOwn
<1> QED
  BY <1>1, <1>3, <1>5, <1>6 DEF OwnInv

\* The other commands list nothing.
LEMMA NoListing ==
  ASSUME TypeOK, Ways, [Next]_vars, cmd # "modules"
  PROVE  found' = found /\ cmd' = cmd
<1>1. CASE Silence \/ \E m \in Modules : TakeRefusal(m) \/ TakeMisfit(m) \/ TakeAnswer(m)
  <2>1. Course /\ request \notin {"ident", "dtcs"} /\ cmd' = cmd
    BY <1>1, WaitEnds DEF Ways, OneModule
  <2> QED
    BY <2>1 DEF Course, SessionOver, GroupFails, ReadGroup, resultVars
<1>2. CASE Ask \/ OpenFails \/ Opened \/ ShowListing \/ BusFails \/ UNCHANGED vars
  BY <1>2 DEF Ask, OpenFails, Opened, ShowListing, BusFails, Abort, vars, resultVars
<1>3. ASSUME NEW m \in Modules, TakePending(m) PROVE found' = found /\ cmd' = cmd
  BY <1>3 DEF TakePending, Take, resultVars
<1> QED
  BY <1>1, <1>2, <1>3 DEF Next, Receive

LEMMA StepTurn ==
  ASSUME TypeOK, OwnInv, [Next]_vars
  PROVE  InTurn' /\ ListedIsItsOwn'
<1> USE DEF OwnInv
<1>0. (denied => denied') /\ cmd' = cmd
  <2>1. CASE Ask
    <3>1. denied => denied'
      BY <2>1, AskOne
    <3> QED
      BY <2>1, <3>1 DEF Ask
  <2>2. CASE Silence \/ \E m \in Modules : TakeRefusal(m) \/ TakeMisfit(m) \/ TakeAnswer(m)
    BY <2>2, WaitEnds
  <2>3. ASSUME NEW m \in Modules, TakePending(m) PROVE (denied => denied') /\ cmd' = cmd
    BY <2>3 DEF TakePending, Take
  <2> QED
    BY <2>1, <2>2, <2>3 DEF Next, Receive, OpenFails, Opened, ShowListing, BusFails, vars
<1>1. ASSUME found' = found, pc' = "over" PROVE InTurn' /\ ListedIsItsOwn'
  BY <1>0, <1>1 DEF InTurn, ListedIsItsOwn
<1>2. ASSUME found' = found, InTurn' PROVE InTurn' /\ ListedIsItsOwn'
  BY <1>0, <1>2 DEF ListedIsItsOwn
<1>3. ASSUME cmd # "modules" PROVE InTurn' /\ ListedIsItsOwn'
  BY <1>0, <1>2, <1>3, NoListing DEF InTurn
<1>4. ASSUME denied' PROVE InTurn' /\ ListedIsItsOwn'
  BY <1>4 DEF InTurn, ListedIsItsOwn
<1> SUFFICES ASSUME cmd = "modules", ~denied' PROVE InTurn' /\ ListedIsItsOwn'
  BY <1>3, <1>4
<1>5. ~denied
  BY <1>0
<1>6. ASSUME pc = "open", pc' = "open" \/ (pc' = "ask" /\ request' = "session"), UNCHANGED air
      PROVE  InTurn'
  <2>1. Fewer
    BY <1>6, Unchanged, ShrinksFewer
  <2>2. \A m \in Modules : Pending(m)' = {}
    BY <1>5, <1>6, <2>1 DEF InTurn, Fewer
  <2>3. mod' \in Modules
    BY StepType DEF TypeOK
  <2>4. LastOnly(air'[mod'], request')
    BY <2>2, <2>3 DEF LastOnly, Pending
  <2> QED
    BY <2>4, <1>6, <2>2, <2>3 DEF InTurn
<1>7. CASE OpenFails
  BY <1>2, <1>6, <1>7 DEF OpenFails, resultVars
<1>8. CASE Opened
  BY <1>2, <1>6, <1>8 DEF Opened
<1>9. CASE ShowListing
  BY <1>1, <1>9 DEF ShowListing, End, resultVars
<1>10. CASE Ask
  BY <1>2, <1>10, AskTurn DEF Ask, resultVars
<1>11. CASE BusFails
  BY <1>1, <1>11 DEF BusFails, Abort, End, resultVars
<1>12. ASSUME NEW m \in Modules, TakePending(m) PROVE InTurn' /\ ListedIsItsOwn'
  <2>1. Take(m) /\ Head(air[m]).says = "pending" /\ pc = "wait"
    BY <1>12 DEF TakePending, PutOff, Take
  <2>2. m = mod /\ Head(air[m]).to = "dtcs" /\ request = "dtcs" /\ LastOnly(air[m], request)
    BY <1>5, <2>1, TurnFacts
  <2>3. Pending(m)' = {} /\ LastOnly(air'[m], request)
    BY <2>1, <2>2, TakeLastOne
  <2>4. \A x \in Modules : Pending(x)' = {}
    BY <1>5, <2>1, <2>2, <2>3, WaitFewer DEF Fewer, InTurn
  <2>5. UNCHANGED <<mod, request, ident, found>> /\ pc' = "ask"
    BY <1>12 DEF TakePending, taskVars, resultVars
  <2>6. InTurn'
    BY <1>5, <2>1, <2>2, <2>3, <2>4, <2>5 DEF InTurn
  <2> QED
    BY <1>2, <2>5, <2>6
<1>13. CASE Silence \/ \E m \in Modules : TakeRefusal(m) \/ TakeMisfit(m) \/ TakeAnswer(m)
  <2>1. TurnEnds /\ pc = "wait" /\ Fewer
    BY <1>5, <1>13, WaitTurn, WaitEnds, WaitFewer DEF TakeRefusal, TakeMisfit, TakeAnswer
  <2>2. CASE request = "session" /\ NextRequest("ident") /\ UNCHANGED resultVars
    <3>1. InTurn'
      BY <1>0, <1>5, <2>1, <2>2, NextInTurn DEF Earlier, Services
    <3> QED
      BY <1>2, <2>2, <3>1 DEF resultVars
  <2>3. CASE /\ request = "ident" /\ NextRequest("dtcs") /\ UNCHANGED <<found, blocks>>
             /\ ident' # None => ident'.from = mod /\ ident'.to = "ident"
    <3>1. InTurn'
      BY <1>0, <1>5, <2>1, <2>3, NextInTurn DEF Earlier, Services
    <3> QED
      BY <1>2, <2>3, <3>1
  <2>4. ASSUME request = "dtcs", NEW reply \in Replies, Listed(reply), reply.from = mod, reply.to = "dtcs",
               \A m \in Modules : Pending(m)' = {}
        PROVE  InTurn' /\ ListedIsItsOwn'
    <3>1. ListedIsItsOwn'
      BY <1>5, <2>1, <2>4, ListedOwn DEF ListedIsItsOwn
    <3>2. pc' = "open" /\ mod' \in Modules
      BY <2>4, StepType DEF Listed, TypeOK
    <3>3. LastOnly(air'[mod'], request')
      BY <2>4, <3>2 DEF LastOnly, Pending
    <3> QED
      BY <2>4, <3>1, <3>2, <3>3 DEF InTurn
  <2>5. CASE Abort
    BY <1>1, <2>5 DEF Abort, End, resultVars
  <2> QED
    BY <2>1, <2>2, <2>3, <2>4, <2>5 DEF TurnEnds
<1>14. CASE UNCHANGED vars
  <2>1. UNCHANGED <<pc, request, mod, ident, found, air>>
    BY <1>14 DEF vars, callVars, taskVars, resultVars
  <2>2. \A m \in Modules : Pending(m)' = Pending(m)
    BY <2>1 DEF Pending
  <2>3. LastOnly(air[mod], request)' = LastOnly(air[mod], request)
    BY <2>1 DEF LastOnly
  <2>4. Earlier(request)' = Earlier(request)
    BY <2>1 DEF Earlier
  <2>5. InTurn'
    BY <1>0, <1>5, <2>1, <2>2, <2>3, <2>4 DEF InTurn
  <2> QED
    BY <1>2, <2>1, <2>5
<1> QED
  BY <1>7, <1>8, <1>9, <1>10, <1>11, <1>12, <1>13, <1>14 DEF Next, Receive

LEMMA StepOwn == TypeOK /\ OwnInv /\ [Next]_vars => OwnInv'
<1> SUFFICES ASSUME TypeOK, OwnInv, [Next]_vars PROVE OwnInv' OBVIOUS
<1>1. Ways' /\ Sound'
  BY StepWays DEF OwnInv
<1>2. InTurn' /\ ListedIsItsOwn'
  BY StepTurn
<1>3. cmd # "modules" => found' = found /\ cmd' = cmd
  BY NoListing DEF OwnInv
<1>4. cmd' = cmd
  <2>1. CASE Silence \/ \E m \in Modules : TakeRefusal(m) \/ TakeMisfit(m) \/ TakeAnswer(m)
    BY <2>1, WaitEnds
  <2>2. ASSUME NEW m \in Modules, TakePending(m) PROVE cmd' = cmd
    BY <2>2 DEF TakePending, Take
  <2> QED
    BY <2>1, <2>2 DEF Next, Receive, Ask, OpenFails, Opened, ShowListing, BusFails, vars
<1> QED
  BY <1>1, <1>2, <1>3, <1>4 DEF OwnInv

\* The listing attributes nothing to a module that another one answered, or
\* the same one to another request, while no session and no identification
\* was refused or put off.
THEOREM OwnTheorem == Spec => []ListedIsItsOwn
<1>1. Init => TypeOK /\ OwnInv
  BY InitType, InitOwn
<1>2. TypeOK /\ OwnInv /\ [Next]_vars => (TypeOK /\ OwnInv)'
  BY StepType, StepOwn
<1>3. OwnInv => ListedIsItsOwn
  BY DEF OwnInv
<1> QED
  BY <1>1, <1>2, <1>3, PTL DEF Spec

-----------------------------------------------------------------------------
(***************************************************************************)
(* An address leaves the list of those to try for the list of those that   *)
(* nobody answers at, or for a turn; and a turn ends with an entry, or     *)
(* without a listing.                                                      *)
(***************************************************************************)
ToTry == {todo[i] : i \in 1 .. Len(todo)}
Names == {found[i].module : i \in 1 .. Len(found)}

Covered == \A i \in 1 .. Len(Wanted) :
  \/ Wanted[i] \in ToTry \cup silent \cup Names
  \/ pc \in {"ask", "wait"} /\ Wanted[i] = mod

WholeInv ==
  /\ Ways /\ Sound
  /\ cmd = "modules" /\ report # "aborted" => Covered
  /\ report = "listed" => cmd = "modules" /\ pc = "over" /\ todo = <<>>

\* The next address to try is the first one.
LEMMA TryNext ==
  ASSUME TypeOK, todo # <<>>, todo' = Tail(todo)
  PROVE  ToTry \subseteq {Head(todo)} \cup ToTry'
<1> SUFFICES ASSUME NEW i \in 1 .. Len(todo) PROVE todo[i] \in {Head(todo)} \cup ToTry'
  BY DEF ToTry
<1> DEFINE n == Len(todo)
           t == Tail(todo)
<1>1. /\ todo \in Seq(Modules) /\ Head(todo) = todo[1] /\ Len(t) = n - 1
      /\ \A j \in 1 .. Len(t) : t[j] = todo[j + 1]
  BY HeadTailProperties, TailLeaves DEF TypeOK
<1>2. n \in Nat /\ i \in 1 .. n
  BY <1>1, LenProperties
<1> HIDE DEF n, t
<1>3. CASE i = 1
  BY <1>1, <1>3
<1>4. CASE i # 1
  <2>1. i - 1 \in 1 .. Len(t) /\ (i - 1) + 1 = i
    BY <1>1, <1>2, <1>4
  <2>2. t[i - 1] = todo[i]
    BY <1>1, <2>1
  <2>3. t = todo'
    BY DEF t
  <2> QED
    BY <2>1, <2>2, <2>3 DEF ToTry
<1> QED
  BY <1>3, <1>4

\* A turn that ends with an entry.
LEMMA ListedName ==
  ASSUME TypeOK, NEW reply \in Replies, Listed(reply)
  PROVE  Names \cup {mod} \subseteq Names'
<1> DEFINE e == [module |-> mod, ident |-> ident, dtcs |-> reply]
           n == Len(found)
<1>1. e \in Entries /\ found \in Seq(Entries) /\ e.module = mod
  <2>1. ident \in Replies \cup {None} /\ mod \in Modules /\ found \in Seq(Entries)
    BY DEF TypeOK
  <2> QED
    BY <2>1 DEF Entries
<1>2. found' = Append(found, e)
  BY DEF Listed
<1> HIDE DEF e
<1>3. /\ Len(Append(found, e)) = n + 1 /\ Append(found, e)[n + 1] = e
      /\ \A i \in 1 .. n : Append(found, e)[i] = found[i]
  BY <1>1, AppendProperties
<1>4. n \in Nat
  BY <1>1, LenProperties
<1>5. Names = {found[i].module : i \in 1 .. n}
  BY DEF Names, n
<1> HIDE DEF n
<1>6. Names' = {found'[i].module : i \in 1 .. n + 1}
  BY <1>2, <1>3 DEF Names
<1>7. n + 1 \in 1 .. n + 1 /\ \A i \in 1 .. n : i \in 1 .. n + 1
  BY <1>4
<1>8. mod \in Names'
  BY <1>1, <1>2, <1>3, <1>6, <1>7
<1>9. ASSUME NEW i \in 1 .. n PROVE found[i].module \in Names'
  BY <1>2, <1>3, <1>6, <1>7
<1> QED
  BY <1>5, <1>8, <1>9

LEMMA InitWhole == Init => WholeInv
<1> SUFFICES ASSUME Init PROVE WholeInv OBVIOUS
<1>1. Ways /\ Sound
  BY InitWays
<1>2. cmd = "modules" => todo = Wanted
  BY DEF Init
<1>3. cmd = "modules" => Covered
  BY <1>2 DEF Covered, ToTry
<1> QED
  BY <1>1, <1>3 DEF Init, WholeInv

LEMMA StepWhole == TypeOK /\ WholeInv /\ [Next]_vars => WholeInv'
<1> SUFFICES ASSUME TypeOK, WholeInv, [Next]_vars PROVE WholeInv' OBVIOUS
<1>1. Ways' /\ Sound'
  BY StepWays DEF WholeInv
<1>2. pc # "over" => report = "running"
  BY DEF WholeInv, Ways, Ended
<1>3. ASSUME report' = "aborted" PROVE WholeInv'
  BY <1>1, <1>3 DEF WholeInv
<1>4. ASSUME UNCHANGED <<cmd, report, silent, found, todo, mod>>, pc \in {"ask", "wait"}, pc' \in {"ask", "wait"}
      PROVE  WholeInv'
  BY <1>1, <1>2, <1>4 DEF WholeInv, Covered, ToTry, Names
<1>5. ASSUME cmd # "modules", report' # "listed", cmd' = cmd PROVE WholeInv'
  BY <1>1, <1>5 DEF WholeInv
<1>6. CASE OpenFails
  <2>1. CASE cmd = "modules"
    <3>1. /\ todo' = Tail(todo) /\ todo # <<>> /\ silent' = silent \cup {Head(todo)}
          /\ UNCHANGED <<cmd, pc, report, found>> /\ pc = "open"
      BY <1>6, <2>1 DEF OpenFails, resultVars
    <3>2. ToTry \subseteq {Head(todo)} \cup ToTry' /\ Names' = Names
      BY <3>1, TryNext DEF Names
    <3>3. Covered'
      BY <1>2, <2>1, <3>1, <3>2 DEF Covered, WholeInv
    <3> QED
      BY <1>1, <1>2, <3>1, <3>3 DEF WholeInv
  <2>2. CASE cmd # "modules"
    BY <1>3, <1>6, <2>2 DEF OpenFails, End
  <2> QED
    BY <2>1, <2>2
<1>7. CASE Opened
  <2>1. /\ todo' = Tail(todo) /\ todo # <<>> /\ mod' = Head(todo) /\ pc = "open" /\ pc' = "ask"
        /\ UNCHANGED <<cmd, silent, report, found>>
    BY <1>7 DEF Opened
  <2>2. ToTry \subseteq {Head(todo)} \cup ToTry' /\ Names' = Names
    BY <2>1, TryNext DEF Names
  <2>3. cmd = "modules" => Covered'
    BY <1>2, <2>1, <2>2 DEF Covered, WholeInv
  <2> QED
    BY <1>1, <1>2, <2>1, <2>3 DEF WholeInv
<1>8. CASE ShowListing
  <2>1. /\ todo = <<>> /\ todo' = todo /\ pc = "open" /\ pc' = "over" /\ report' = "listed"
        /\ UNCHANGED <<cmd, silent, found>>
    BY <1>8 DEF ShowListing, End, taskVars, resultVars
  <2>2. cmd = "modules"
    BY <2>1 DEF WholeInv, Ways, OneModule
  <2>3. Covered'
    BY <1>2, <2>1, <2>2 DEF WholeInv, Covered, ToTry, Names
  <2> QED
    BY <1>1, <2>1, <2>2, <2>3 DEF WholeInv
<1>9. CASE Ask
  BY <1>4, <1>9 DEF Ask, taskVars, resultVars
<1>10. CASE BusFails
  BY <1>3, <1>10 DEF BusFails, Abort, End
<1>11. ASSUME NEW m \in Modules, TakePending(m) PROVE WholeInv'
  BY <1>4, <1>11 DEF TakePending, Take, taskVars, resultVars
<1>12. CASE Silence \/ \E m \in Modules : TakeRefusal(m) \/ TakeMisfit(m) \/ TakeAnswer(m)
  <2>1. Course /\ pc = "wait" /\ UNCHANGED <<cmd, silent>> /\ report = "running"
    BY <1>2, <1>12, WaitEnds
  <2>2. CASE cmd # "modules"
    <3>1. request \notin {"ident", "dtcs"}
      BY <2>2 DEF WholeInv, Ways, OneModule
    <3>2. report' # "listed"
      BY <2>1, <2>2, <3>1 DEF Course, SessionOver, GroupFails, ReadGroup, NextGroup, End, Fails
    <3> QED
      BY <1>5, <2>1, <2>2, <3>2
  <2>3. CASE cmd = "modules"
    <3>1. request \notin Groups
      BY <2>3, VagAssumption DEF WholeInv, Ways, Listing
    <3>2. CASE request = "session" /\ SessionOver
      BY <1>4, <2>1, <2>3, <3>2 DEF SessionOver, NextRequest, taskVars, resultVars
    <3>3. ASSUME NEW reply, IdentOver(reply) PROVE WholeInv'
      BY <1>4, <2>1, <3>3 DEF IdentOver, NextRequest, taskVars
    <3>4. ASSUME NEW reply \in Replies, Listed(reply) PROVE WholeInv'
      <4>1. UNCHANGED <<report, todo, mod>> /\ pc' = "open"
        BY <3>4 DEF Listed, taskVars
      <4>2. Names \cup {mod} \subseteq Names' /\ ToTry' = ToTry
        BY <3>4, <4>1, ListedName DEF ToTry
      <4>3. Covered'
        BY <2>1, <2>3, <4>1, <4>2 DEF WholeInv, Covered
      <4> QED
        BY <1>1, <2>1, <4>1, <4>3 DEF WholeInv
    <3>5. CASE Abort
      BY <1>3, <3>5 DEF Abort, End
    <3> QED
      BY <2>1, <3>1, <3>2, <3>3, <3>4, <3>5 DEF Course
  <2> QED
    BY <2>2, <2>3
<1>13. CASE UNCHANGED vars
  BY <1>1, <1>13 DEF vars, callVars, taskVars, resultVars, WholeInv, Covered, ToTry, Names
<1> QED
  BY <1>6, <1>7, <1>8, <1>9, <1>10, <1>11, <1>12, <1>13 DEF Next, Receive

\* A listing that is printed accounts for every address that was asked for.
THEOREM WholeTheorem == Spec => []ListingIsWhole
<1>1. Init => TypeOK /\ WholeInv
  BY InitType, InitWhole
<1>2. TypeOK /\ WholeInv /\ [Next]_vars => (TypeOK /\ WholeInv)'
  BY StepType, StepWhole
<1>3. WholeInv => ListingIsWhole
  <2> SUFFICES ASSUME WholeInv, report = "listed", NEW i \in 1 .. Len(Wanted)
               PROVE  Wanted[i] \in silent \/ \E j \in 1 .. Len(found) : found[j].module = Wanted[i]
    BY DEF ListingIsWhole
  <2>1. Covered /\ todo = <<>> /\ pc = "over"
    BY DEF WholeInv
  <2>2. ToTry = {}
    <3>1. 1 .. Len(<<>>) = {}
      OBVIOUS
    <3> QED
      BY <2>1, <3>1 DEF ToTry
  <2>3. Wanted[i] \in silent \cup Names
    BY <2>1, <2>2 DEF Covered
  <2> QED
    BY <2>3 DEF Names
<1> QED
  BY <1>1, <1>2, <1>3, PTL DEF Spec
=============================================================================
