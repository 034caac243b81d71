----------------------------- MODULE Tp20Proofs -----------------------------
(***************************************************************************)
(* For any modules, lengths, losses and timeouts: the reader is attached   *)
(* exactly while there is a channel, DISCONNECT is the last thing that a   *)
(* closed channel sends, the state is well typed, and a request that       *)
(* starts from a quiet bus and loses no first part concludes with the      *)
(* whole reply to it or with no value.                                     *)
(***************************************************************************)
EXTENDS Tp20, SequenceTheorems, TLAPS

\* A channel in use has not said goodbye, and the keepalive thread lives
\* inside it: what makes the two properties inductive.
InUse == pc # "idle" => mod \notin parted

ThreadInside ==
  keepalive \in {"waiting", "sending"} => pc \in {"open", "sending", "ack", "reply", "joining"}

IInv == ReaderFollowsChannel /\ InUse /\ ThreadInside

\* Only DISCONNECT makes a module one that was parted from, and anything that
\* is sent to it later undoes that.
LEMMA SendSignal ==
  ASSUME NEW m, NEW s \in Signals \ {"disconnect"}, Send(m, Signal(s))
  PROVE  parted' = parted \ {m}
<1>1. ~IsSignal(Signal(s), "disconnect") BY DEF IsSignal, Signal
<1> QED BY <1>1 DEF Send

LEMMA SendAPart ==
  ASSUME NEW m, NEW message, NEW i, Send(m, Part(message, i))
  PROVE  parted' = parted \ {m}
<1>1. ~IsSignal(Part(message, i), "disconnect") BY DEF IsSignal, IsPart, Part
<1> QED BY <1>1 DEF Send

LEMMA SendEnd ==
  ASSUME NEW m, Send(m, Signal("disconnect"))
  PROVE  parted' = parted \cup {m}
<1>1. IsSignal(Signal("disconnect"), "disconnect") BY DEF IsSignal, IsPart, Signal
<1> QED BY <1>1 DEF Send

LEMMA InitIInv == Init => IInv
BY DEF Init, IInv, ReaderFollowsChannel, InUse, ThreadInside

\* What a request concludes with leaves the channel open.
LEMMA ConcludeOpen ==
  ASSUME NEW parts, NEW size, Reassemble(parts, size)
  PROVE  pc' = "open"
BY DEF Reassemble, Conclude

LEMMA StepIInv == IInv /\ [Next]_vars => IInv'
<1> SUFFICES ASSUME IInv, [Next]_vars PROVE IInv' OBVIOUS
<1> USE DEF IInv, ReaderFollowsChannel, InUse, ThreadInside
<1>1. ASSUME NEW m \in Modules, Open(m) PROVE IInv'
  <2>1. parted' = parted \ {m} BY <1>1, SendSignal DEF Open, Signals
  <2> QED BY <1>1, <2>1 DEF Open
<1>2. CASE Propose
  <2>1. parted' = parted \ {mod} BY <1>2, SendSignal DEF Propose, Signals
  <2> QED BY <1>2, <2>1 DEF Propose, threadVars
<1>3. CASE Ask
  BY <1>3 DEF Ask, threadVars
<1>4. CASE SendPart
  <2>1. parted' = parted \ {mod} BY <1>4, SendAPart DEF SendPart
  <2> QED BY <1>4, <2>1 DEF SendPart, threadVars
<1>5. CASE SendFails
  BY <1>5 DEF SendFails, Take, Conclude, threadVars, moduleVars
<1>6. CASE TakeSetup \/ TakeParams \/ TakeAck
  BY <1>6 DEF TakeSetup, TakeParams, TakeAck, Take, threadVars, moduleVars
<1>7. CASE TakePart
  BY <1>7 DEF TakePart, Take, threadVars
<1>8. CASE TakeLastPart
  <2>1. pc' = "open" /\ parted' = parted BY <1>8, ConcludeOpen DEF TakeLastPart, Take
  <2> QED BY <1>8, <2>1 DEF TakeLastPart, threadVars
<1>9. CASE DropFrame
  BY <1>9 DEF DropFrame, Take, threadVars
<1>10. CASE Tick \/ Timeout
  BY <1>10 DEF Tick, Timeout, Conclude, threadVars, moduleVars
<1>11. CASE OpenFails
  BY <1>11 DEF OpenFails, GiveUp, Take, threadVars, moduleVars
<1>12. CASE Close
  BY <1>12 DEF Close, moduleVars
<1>13. CASE Disconnect
  BY <1>13 DEF Disconnect, Join, GiveUp, moduleVars
<1>14. CASE StartKeepalive \/ KeepaliveWake \/ KeepaliveFails
  BY <1>14 DEF StartKeepalive, KeepaliveWake, KeepaliveFails, testerVars, moduleVars, stop
<1>15. CASE KeepaliveSend
  <2>1. parted' = parted \ {mod} BY <1>15, SendSignal DEF KeepaliveSend, Signals
  <2> QED BY <1>15, <2>1 DEF KeepaliveSend, testerVars
<1>16. ASSUME NEW m \in Modules, OrphanSends(m) PROVE IInv'
  <2>1. parted' = parted \ {m} BY <1>16, SendSignal DEF OrphanSends, Signals
  <2> QED BY <1>16, <2>1 DEF OrphanSends, testerVars
<1>17. ASSUME NEW m \in Modules, Bus(m) PROVE IInv'
  BY <1>17 DEF Bus, PassBy, LoseReply, testerVars, threadVars
<1>18. CASE UNCHANGED vars
  BY <1>18 DEF vars, testerVars, threadVars, moduleVars
<1> QED BY <1>1, <1>2, <1>3, <1>4, <1>5, <1>6, <1>7, <1>8, <1>9, <1>10, <1>11, <1>12, <1>13,
           <1>14, <1>15, <1>16, <1>17, <1>18 DEF Next, Tester, Thread, Receive, Expire

LEMMA Inductive == Spec => []IInv
BY InitIInv, StepIInv, PTL DEF Spec

\* On every path out of open_tp20_channel and of close the reader is
\* detached, and while a channel is negotiated or open there is one.
THEOREM ReaderTheorem == Spec => []ReaderFollowsChannel
BY Inductive, PTL DEF IInv

\* A step that sends to a module that was parted from is the setup of a new
\* channel to it, or a keepalive that close did not wait for.
LEMMA LastStep ==
  ASSUME IInv, [Next]_vars, NEW m \in parted \ parted'
  PROVE  m \in orphans \/ (pc = "idle" /\ pc' = "setup" /\ mod' = m)
<1> USE DEF IInv, InUse, ThreadInside
<1>1. ASSUME NEW x \in Modules, Open(x) PROVE m = x /\ pc = "idle" /\ pc' = "setup" /\ mod' = m
  <2>1. parted' = parted \ {x} BY <1>1, SendSignal DEF Open, Signals
  <2> QED BY <1>1, <2>1 DEF Open
<1>2. ASSUME Propose \/ SendPart \/ KeepaliveSend PROVE FALSE
  <2>1. parted' = parted \ {mod}
    BY <1>2, SendSignal, SendAPart DEF Propose, SendPart, KeepaliveSend, Signals
  <2> QED BY <1>2, <2>1 DEF Propose, SendPart, KeepaliveSend
<1>3. ASSUME NEW x \in Modules, OrphanSends(x) PROVE m \in orphans
  <2>1. parted' = parted \ {x} BY <1>3, SendSignal DEF OrphanSends, Signals
  <2> QED BY <1>3, <2>1 DEF OrphanSends
<1>4. ASSUME Disconnect PROVE FALSE
  BY <1>4, SendEnd DEF Disconnect, moduleVars
<1>5. ASSUME Ask \/ SendFails \/ Receive \/ Tick \/ Expire \/ Close PROVE FALSE
  BY <1>5 DEF Ask, SendFails, Receive, TakeSetup, TakeParams, TakeAck, TakePart, TakeLastPart,
    DropFrame, Take, Tick, Expire, OpenFails, Timeout, Close, moduleVars
<1>6. ASSUME StartKeepalive \/ KeepaliveWake \/ KeepaliveFails PROVE FALSE
  BY <1>6 DEF StartKeepalive, KeepaliveWake, KeepaliveFails, moduleVars
<1>7. ASSUME NEW x \in Modules, Bus(x) PROVE FALSE
  BY <1>7 DEF Bus, PassBy, LoseReply
<1>8. ASSUME UNCHANGED vars PROVE FALSE
  BY <1>8 DEF vars, moduleVars
<1> QED BY <1>1, <1>2, <1>3, <1>4, <1>5, <1>6, <1>7, <1>8 DEF Next, Tester, Thread

\* DISCONNECT is the last frame of a channel (the thread is joined before it
\* is sent), whatever is lost and whenever the thread wakes.
THEOREM DisconnectTheorem == Spec => DisconnectIsLast
<1>1. IInv /\ [Next]_vars =>
        [\A m \in parted \ parted' : m \in orphans \/ (pc = "idle" /\ pc' = "setup" /\ mod' = m)]_vars
  BY LastStep
<1> QED BY <1>1, Inductive, PTL DEF Spec, DisconnectIsLast

-----------------------------------------------------------------------------
(* Types. *)

LEMMA FrameKinds ==
  /\ \A f \in Parts : IsPart(f) /\ f.of \in Messages /\ f.i \in Nat \ {0} /\ f \in Frames
  /\ \A f \in Frames : IsPart(f) => f \in Parts
  /\ \A s \in Signals : Signal(s) \in Frames /\ ~IsPart(Signal(s)) /\ Signal(s).signal = s
  /\ \A R \in Messages, i \in Nat \ {0} : Part(R, i) \in Parts /\ Part(R, i).of = R /\ Part(R, i).i = i
  /\ \A R \in Messages : R.n \in Nat /\ R.size \in Nat \ {0}
<1>1. \A f \in Parts : IsPart(f) /\ f.of \in Messages /\ f.i \in Nat \ {0} /\ f \in Frames
  BY DEF Parts, Frames, IsPart
<1>2. ASSUME NEW f \in Frames, IsPart(f) PROVE f \in Parts
  <2>1. CASE f \in [signal : Signals]
    <3>1. DOMAIN f = {"signal"} BY <2>1
    <3> QED BY <3>1, <1>2 DEF IsPart
  <2> QED BY <2>1 DEF Frames
<1>3. \A s \in Signals : Signal(s) \in Frames /\ ~IsPart(Signal(s)) /\ Signal(s).signal = s
  BY DEF Signal, Frames, IsPart
<1>4. \A R \in Messages, i \in Nat \ {0} : Part(R, i) \in Parts /\ Part(R, i).of = R /\ Part(R, i).i = i
  BY DEF Part, Parts
<1>5. \A R \in Messages : R.n \in Nat /\ R.size \in Nat \ {0} BY DEF Messages
<1> QED BY <1>1, <1>2, <1>3, <1>4, <1>5

\* What a module and the bus have.
BusOK ==
  /\ out \in [Modules -> Seq(Frames)] /\ partial \in [Modules -> Seq(Parts)]
  /\ parted \subseteq Modules
  /\ losses \in Nat /\ clean \in BOOLEAN

LEMMA AllPartsType ==
  ASSUME NEW R \in Messages
  PROVE  /\ AllParts(R) \in Seq(Parts) /\ AllParts(R) \in Seq(Frames)
         /\ Len(AllParts(R)) = R.size
         /\ \A i \in 1 .. R.size : AllParts(R)[i] = Part(R, i)
<1>1. R.size \in Nat /\ \A i \in 1 .. R.size : Part(R, i) \in Parts BY FrameKinds
<1>2. \A i \in 1 .. R.size : Part(R, i) \in Frames BY <1>1, FrameKinds
<1> QED BY <1>1, <1>2 DEF AllParts

LEMMA EmitType ==
  ASSUME BusOK, NEW m \in Modules, NEW frames \in Seq(Frames), Emit(m, frames)
  PROVE  out' \in [Modules -> Seq(Frames)]
<1>1. out[m] \o frames \in Seq(Frames) BY ConcatProperties DEF BusOK
<1> QED BY <1>1 DEF Emit, BusOK

LEMMA HandleType ==
  ASSUME NEW n \in Nat, NEW reply \in Handle(n)
  PROVE  /\ reply \in Seq(Frames)
         /\ reply = <<>> \/ \E R \in Messages : R.n = n /\ reply = AllParts(R)
<1>1. CASE reply = <<>> BY <1>1
<1>2. CASE reply # <<>>
  <2>1. PICK s \in ReplyParts : reply = AllParts([n |-> n, size |-> s]) BY <1>2 DEF Handle
  <2>2. [n |-> n, size |-> s] \in Messages BY Tp20Assumption DEF Messages
  <2> QED BY <2>1, <2>2, AllPartsType
<1> QED BY <1>1, <1>2

LEMMA TakeType ==
  ASSUME BusOK, NEW m \in Modules, out[m] # <<>>
  PROVE  /\ Head(out[m]) \in Frames /\ Head(out[m]) = out[m][1]
         /\ [out EXCEPT ![m] = Tail(@)] \in [Modules -> Seq(Frames)]
<1>1. out[m] \in Seq(Frames) BY DEF BusOK
<1>2. Head(out[m]) \in Frames /\ Tail(out[m]) \in Seq(Frames) BY <1>1, HeadTailProperties
<1> QED BY <1>1, <1>2 DEF BusOK

\* What is sent leaves the modules and the bus well typed.
LEMMA SendType ==
  ASSUME BusOK, NEW m \in Modules,
         NEW f \in Parts \cup {Signal(s) : s \in {"setup", "params", "test", "disconnect"}},
         Send(m, f)
  PROVE  BusOK'
<1> USE DEF BusOK
<1>1. parted' \subseteq Modules BY DEF Send
<1>2. CASE UNCHANGED <<partial, out>> /\ losses' = losses + 1 /\ clean' = (clean /\ ~IsPart(f))
  BY <1>1, <1>2
<1>3. CASE Feed(m, f) /\ UNCHANGED <<losses, clean>>
  <2>0. <<>> \in Seq(Parts) BY EmptySeq
  <2>1. CASE f \in Parts
    <3> DEFINE parts == Append(partial[m], f)
    <3>1. IsPart(f) BY <2>1, FrameKinds
    <3>2. parts \in Seq(Parts) /\ parts[1] \in Parts
      BY <2>1, AppendProperties
    <3>3. CASE f.i = f.of.size
      <4>1. Understood(parts) \in Nat BY <3>2, FrameKinds DEF Understood
      <4>2. PICK reply \in Handle(Understood(parts)) : Emit(m, <<Signal("ack")>> \o reply)
        BY <1>3, <3>1, <3>3 DEF Feed, FeedPart
      <4>3. <<Signal("ack")>> \o reply \in Seq(Frames)
        BY <4>1, HandleType, FrameKinds DEF Signals
      <4>4. partial' = [partial EXCEPT ![m] = <<>>] BY <1>3, <3>1, <3>3 DEF Feed, FeedPart
      <4>5. out' \in [Modules -> Seq(Frames)] BY <4>2, <4>3, EmitType
      <4>6. partial' \in [Modules -> Seq(Parts)] BY <4>4, <2>0
      <4> QED BY <1>1, <1>3, <4>5, <4>6
    <3>4. CASE f.i # f.of.size
      <4>1. partial' = [partial EXCEPT ![m] = parts] /\ out' = out
        BY <1>3, <3>1, <3>4 DEF Feed, FeedPart
      <4> HIDE DEF parts
      <4> QED BY <1>1, <1>3, <3>2, <4>1
    <3> QED BY <3>3, <3>4
  <2>2. CASE f \in {Signal(s) : s \in {"setup", "params", "test", "disconnect"}}
    <3>1. PICK s \in {"setup", "params", "test", "disconnect"} : f = Signal(s) BY <2>2
    <3>2. ~IsPart(f) /\ f.signal = s BY <3>1, FrameKinds DEF Signals
    <3>3. \A x \in Signals : <<Signal(x)>> \in Seq(Frames) BY FrameKinds
    <3>4. out' \in [Modules -> Seq(Frames)]
      <4>1. UNCHANGED out \/ \E x \in Signals : Emit(m, <<Signal(x)>>)
        BY <1>3, <3>2 DEF Feed, FeedSetup, Signals
      <4> QED BY <4>1, <3>3, EmitType
    <3>5. partial' \in [Modules -> Seq(Parts)]
      <4>1. UNCHANGED partial \/ partial' = [partial EXCEPT ![m] = <<>>]
        BY <1>3, <3>2 DEF Feed, FeedSetup
      <4> QED BY <4>1, <2>0
    <3> QED BY <1>1, <1>3, <3>4, <3>5
  <2> QED BY <2>1, <2>2
<1> QED BY <1>2, <1>3 DEF Send

\* What TypeOK says of the tester and its thread.
TesterOK ==
  /\ pc \in Phases /\ mod \in Modules
  /\ readers \in Int
  /\ left \in 0 .. Patience
  /\ current \in Messages /\ next \in Nat \ {0}
  /\ collected \in Seq(Parts)
  /\ outcome \in [status : {"none", "value", "silence", "error"}, value : Seq(Parts)]
  /\ keepalive \in {"none", "waiting", "sending", "ended"}
  /\ orphans \subseteq Modules
  /\ opens \in Nat

LEMMA TypeParts == TypeOK <=> TesterOK /\ BusOK
BY DEF TypeOK, TesterOK, BusOK

LEMMA InitType == Init => TypeOK
<1> SUFFICES ASSUME Init PROVE TypeOK OBVIOUS
<1>1. <<>> \in Seq(Parts) /\ <<>> \in Seq(Frames) BY EmptySeq
<1>2. [n |-> 0, size |-> 1] \in Messages BY DEF Messages
<1>3. TesterOK BY <1>1, <1>2, Tp20Assumption DEF Init, TesterOK, Phases, Waits, Nothing
<1>4. BusOK BY <1>1 DEF Init, BusOK
<1> QED BY <1>3, <1>4, TypeParts

\* The parts of a request.
LEMMA PartsOfRequest ==
  ASSUME TesterOK
  PROVE  Part(current, next) \in Parts
BY FrameKinds DEF TesterOK

LEMMA TypeBus ==
  ASSUME BusOK, TesterOK, [Next]_vars
  PROVE  BusOK'
<1> DEFINE Sent == Parts \cup {Signal(s) : s \in {"setup", "params", "test", "disconnect"}}
<1>1. ASSUME NEW m \in Modules, NEW f \in Sent, Send(m, f) PROVE BusOK' BY <1>1, SendType
<1>2. Part(current, next) \in Sent /\ mod \in Modules BY PartsOfRequest DEF TesterOK
<1> HIDE DEF Sent
<1>3. \A s \in {"setup", "params", "test", "disconnect"} : Signal(s) \in Sent BY DEF Sent
<1>4. ASSUME NEW m \in Modules, out[m] # <<>>, out' = [out EXCEPT ![m] = Tail(@)],
             UNCHANGED <<partial, parted>>, losses' \in Nat, clean' \in BOOLEAN
      PROVE BusOK'
  BY <1>4, TakeType DEF BusOK
<1>5. ASSUME UNCHANGED moduleVars, losses' \in Nat, clean' \in BOOLEAN PROVE BusOK'
  BY <1>5 DEF BusOK, moduleVars
<1>6. losses \in Nat /\ losses + 1 \in Nat /\ clean \in BOOLEAN BY DEF BusOK
<1>7. ASSUME NEW m \in Modules, Open(m) PROVE BusOK' BY <1>7, <1>1, <1>3 DEF Open
<1>8. CASE Propose BY <1>8, <1>1, <1>2, <1>3 DEF Propose
<1>9. CASE Ask
  <2>1. PICK k \in [Modules -> UNION {0 .. Len(out[m]) : m \in Modules}] :
          out' = [m \in Modules |-> SubSeq(out[m], k[m] + 1, Len(out[m]))]
    BY <1>9 DEF Ask, Drained
  <2>2. ASSUME NEW m \in Modules PROVE SubSeq(out[m], k[m] + 1, Len(out[m])) \in Seq(Frames)
    <3>1. out[m] \in Seq(Frames) /\ Len(out[m]) \in Nat BY DEF BusOK
    <3>2. k[m] \in Nat
      <4>1. \A x \in Modules : Len(out[x]) \in Nat BY DEF BusOK
      <4> QED BY <4>1, <2>1
    <3> QED BY <3>1, <3>2, SubSeqProperties
  <2>3. clean' \in BOOLEAN BY <1>9 DEF Ask, Quiet
  <2> QED BY <1>9, <2>1, <2>2, <2>3 DEF Ask, BusOK
<1>10. CASE SendPart BY <1>10, <1>1, <1>2 DEF SendPart
<1>11. CASE SendFails
  BY <1>11, <1>4, <1>5, <1>6 DEF SendFails, Take
<1>12. CASE TakeSetup \/ TakeAck \/ TakePart \/ TakeLastPart \/ DropFrame
  BY <1>12, <1>4, <1>6, <1>2 DEF TakeSetup, TakeAck, TakePart, TakeLastPart, DropFrame, Take
<1>13. CASE TakeParams \/ OpenFails
  BY <1>13, <1>2, <1>4, <1>5, <1>6 DEF TakeParams, OpenFails, Take
<1>14. CASE Tick \/ Timeout \/ Close \/ StartKeepalive \/ KeepaliveWake \/ KeepaliveFails
  BY <1>14, <1>5, <1>6 DEF Tick, Timeout, Close, StartKeepalive, KeepaliveWake, KeepaliveFails
<1>15. CASE Disconnect BY <1>15, <1>1, <1>2, <1>3, <1>5, <1>6 DEF Disconnect
<1>16. CASE KeepaliveSend BY <1>16, <1>1, <1>2, <1>3 DEF KeepaliveSend
<1>17. ASSUME NEW m \in Modules, OrphanSends(m) PROVE BusOK' BY <1>17, <1>1, <1>3 DEF OrphanSends
<1>18. ASSUME NEW m \in Modules, Bus(m) PROVE BusOK'
  BY <1>18, <1>4, <1>6 DEF Bus, PassBy, LoseReply
<1>19. CASE UNCHANGED vars BY <1>19, <1>5, <1>6 DEF vars
<1> QED BY <1>7, <1>8, <1>9, <1>10, <1>11, <1>12, <1>13, <1>14, <1>15, <1>16, <1>17, <1>18, <1>19
  DEF Next, Tester, Thread, Receive, Expire

LEMMA TypeTester ==
  ASSUME BusOK, TesterOK, [Next]_vars
  PROVE  TesterOK'
<1> USE DEF TesterOK
<1>a. /\ Phases = {"setup", "params", "ack", "reply", "idle", "open", "proposing", "sending", "joining"}
      /\ 0 \in 0 .. Patience /\ Patience \in 0 .. Patience
      /\ <<>> \in Seq(Parts)
      /\ Nothing \in [status : {"none", "value", "silence", "error"}, value : Seq(Parts)]
  BY Tp20Assumption, EmptySeq DEF Phases, Waits, Nothing
<1>b. ASSUME NEW m \in Modules, out[m] # <<>>, IsPart(Head(out[m]))
      PROVE Head(out[m]) \in Parts /\ Append(collected, Head(out[m])) \in Seq(Parts)
  <2>1. Head(out[m]) \in Parts BY <1>b, TakeType, FrameKinds
  <2> QED BY <2>1, AppendProperties
<1>c. ASSUME NEW status \in {"value", "silence", "error"}, NEW value \in Seq(Parts),
             Conclude(status, value),
             UNCHANGED <<mod, readers, current, opens, threadVars>>
      PROVE TesterOK'
  BY <1>c, <1>a DEF Conclude, threadVars
<1>1. ASSUME NEW m \in Modules, Open(m) PROVE TesterOK'
  BY <1>1, <1>a DEF Open
<1>2. CASE Propose \/ TakeSetup \/ TakeParams \/ TakeAck
  BY <1>2, <1>a DEF Propose, TakeSetup, TakeParams, TakeAck, threadVars
<1>3. CASE Ask
  <2>1. current' \in Messages
    <3>1. PICK size \in RequestParts : current' = [n |-> current.n + 1, size |-> size] BY <1>3 DEF Ask
    <3>2. current.n + 1 \in Nat /\ size \in Nat \ {0} BY FrameKinds, Tp20Assumption
    <3> QED BY <3>1, <3>2 DEF Messages
  <2> QED BY <1>3, <2>1, <1>a DEF Ask, threadVars
<1>4. CASE SendPart
  BY <1>4, <1>a DEF SendPart, threadVars
<1>5. CASE SendFails \/ Timeout
  BY <1>5, <1>a, <1>c DEF SendFails, Timeout
<1>6. CASE TakePart
  BY <1>6, <1>a, <1>b DEF TakePart, Take, threadVars
<1>7. CASE TakeLastPart
  <2>1. PICK m \in Modules : /\ out[m] # <<>> /\ IsPart(Head(out[m]))
          /\ \E size \in Announced(Append(collected, Head(out[m]))) :
               Reassemble(Append(collected, Head(out[m])), size)
    BY <1>7 DEF TakeLastPart, Take
  <2> DEFINE parts == Append(collected, Head(out[m]))
  <2>2. parts \in Seq(Parts) BY <2>1, <1>b
  <2>3. parts[1] \in Parts BY <2>1, <1>b, AppendProperties
  <2> HIDE DEF parts
  <2>4. PICK size \in Announced(parts) : Reassemble(parts, size) BY <2>1 DEF parts
  <2>5. Len(parts) \in Nat BY <2>2
  <2>6. size \in Int BY <2>3, <2>4, <2>5, FrameKinds DEF Announced
  <2>7. size <= Len(parts) => SubSeq(parts, 1, size) \in Seq(Parts)
    BY <2>2, <2>5, <2>6, SubSeqProperties
  <2>8. CASE Len(parts) < size BY <1>7, <2>4, <2>8, <1>a, <1>c DEF TakeLastPart, Reassemble
  <2>9. CASE ~(Len(parts) < size)
    <3>1. SubSeq(parts, 1, size) \in Seq(Parts)
      <4> DEFINE n == Len(parts)
      <4>1. n \in Nat /\ ~(n < size) BY <2>5, <2>9
      <4> HIDE DEF n
      <4>2. size <= n BY <4>1, <2>6
      <4> QED BY <4>2, <2>7 DEF n
    <3>2. Conclude("value", SubSeq(parts, 1, size)) BY <2>4, <2>9 DEF Reassemble
    <3> QED BY <1>7, <3>1, <3>2, <1>c DEF TakeLastPart
  <2> QED BY <2>8, <2>9
<1>8. CASE DropFrame
  BY <1>8, <1>a DEF DropFrame, DeadlineStays, threadVars
<1>9. CASE Tick
  <2>1. left - 1 \in 0 .. Patience BY <1>9, Tp20Assumption DEF Tick
  <2> QED BY <1>9, <2>1 DEF Tick, threadVars
<1>10. CASE OpenFails
  BY <1>10, <1>a DEF OpenFails, GiveUp, threadVars
<1>11. CASE Close
  BY <1>11, <1>a DEF Close
<1>12. CASE Disconnect
  BY <1>12, <1>a DEF Disconnect, Join, GiveUp
<1>13. CASE StartKeepalive \/ KeepaliveWake \/ KeepaliveFails \/ KeepaliveSend
  BY <1>13 DEF StartKeepalive, KeepaliveWake, KeepaliveFails, KeepaliveSend, testerVars
<1>14. ASSUME NEW m \in Modules, OrphanSends(m) PROVE TesterOK'
  BY <1>14 DEF OrphanSends, testerVars
<1>15. ASSUME NEW m \in Modules, Bus(m) PROVE TesterOK'
  BY <1>15 DEF Bus, PassBy, LoseReply, testerVars, threadVars
<1>16. CASE UNCHANGED vars
  BY <1>16 DEF vars, testerVars, threadVars
<1> QED BY <1>1, <1>2, <1>3, <1>4, <1>5, <1>6, <1>7, <1>8, <1>9, <1>10, <1>11, <1>12, <1>13,
           <1>14, <1>15, <1>16 DEF Next, Tester, Thread, Receive, Expire

LEMMA StepType == TypeOK /\ [Next]_vars => TypeOK'
<1>1. TypeOK' <=> TesterOK' /\ BusOK' BY DEF TypeOK, TesterOK, BusOK
<1> QED BY <1>1, TypeParts, TypeBus, TypeTester

\* The types of the state, with whatever frames are lost, late or mixed.
THEOREM TypeTheorem == Spec => []TypeOK
BY InitType, StepType, PTL DEF Spec

-----------------------------------------------------------------------------
(* The reply to a request. *)

NoParts(s) == \A i \in 1 .. Len(s) : ~IsPart(s[i])
NoAcks(s)  == \A i \in 1 .. Len(s) : ~IsSignal(s[i], "ack")

\* The parts among the frames are parts of the message R beyond the k-th, in order.
InOrder(s, R, k) ==
  /\ \A i \in 1 .. Len(s) : IsPart(s[i]) => s[i].of = R /\ s[i].i > k /\ s[i].i <= R.size
  /\ \A i, j \in 1 .. Len(s) : i < j /\ IsPart(s[i]) /\ IsPart(s[j]) => s[i].i < s[j].i

\* No part comes before the first one.
FromFirst(s) == \A j \in 1 .. Len(s) :
  IsPart(s[j]) /\ s[j].i # 1 => \E i \in 1 .. j - 1 : IsPart(s[i]) /\ s[i].i = 1

\* What was collected of R: from its first part on, in order. As long as the last of it has its
\* own place nothing is missing; this takes the place of a count of what is missing.
Collected(c, R) ==
  /\ \A j \in 1 .. Len(c) : c[j].of = R /\ c[j].i >= j /\ c[j].i <= R.size
  /\ c # <<>> => c[1].i = 1
  /\ c # <<>> /\ c[Len(c)].i = Len(c) => \A j \in 1 .. Len(c) : c[j].i = j
LastOf(c) == IF c = <<>> THEN 0 ELSE c[Len(c)].i

\* Where a request stands on its way, if nothing was on its way when it was made and neither a
\* part of it nor a first part was lost since.
CleanSending ==
  /\ \A m \in Modules : NoParts(out[m]) /\ NoAcks(out[m]) /\ (m # mod => partial[m] = <<>>)
  /\ partial[mod] = [i \in 1 .. next - 1 |-> Part(current, i)]

\* Once the acknowledgement is on its way, the whole reply comes after it.
Acked(s, R) == \A p \in 1 .. Len(s) : IsSignal(s[p], "ack") =>
  /\ \A i \in 1 .. p - 1 : ~IsPart(s[i])
  /\ InOrder(s, R, 0) /\ FromFirst(s)

CleanAck(R) ==
  /\ \A m \in Modules : m # mod => NoParts(out[m]) /\ NoAcks(out[m])
  /\ Acked(out[mod], R)

CleanReply(R) ==
  /\ \A m \in Modules : m # mod => NoParts(out[m])
  /\ InOrder(out[mod], R, LastOf(collected)) /\ Collected(collected, R)
  /\ collected = <<>> => FromFirst(out[mod])

Replies == {R \in Messages : R.n = current.n}
CleanInv ==
  /\ clean /\ pc = "sending" => CleanSending
  /\ clean /\ pc = "ack" => \E R \in Replies : CleanAck(R)
  /\ clean /\ pc = "reply" => \E R \in Replies : CleanReply(R)

\* How far the request, the reply and the outcome go together with what the tester is at.
RequestShape ==
  /\ pc = "sending" => next <= current.size
  /\ pc # "sending" => next = 1
  /\ pc # "reply" => collected = <<>>
  /\ outcome.status = "value" => pc \in {"open", "joining", "idle"}

ReplyInv == TypeOK /\ RequestShape /\ CleanInv /\ ValueIsTheReply

\* A frame less: what is left is as it was, and what is to come after the first one follows it.
LEMMA TailIndex ==
  ASSUME NEW s \in Seq(Frames), s # <<>>
  PROVE  /\ Tail(s) \in Seq(Frames) /\ Len(s) \in Nat \ {0} /\ Len(Tail(s)) = Len(s) - 1
         /\ \A i \in 1 .. Len(Tail(s)) : i + 1 \in 2 .. Len(s) /\ Tail(s)[i] = s[i + 1]
BY HeadTailProperties, EmptySeq

LEMMA TailKeeps ==
  ASSUME NEW s \in Seq(Frames), s # <<>>
  PROVE  /\ NoParts(s) => NoParts(Tail(s))
         /\ NoAcks(s) => NoAcks(Tail(s))
         /\ \A R, k : InOrder(s, R, k) => InOrder(Tail(s), R, k)
         /\ \A R, k : InOrder(s, R, k) /\ IsPart(s[1]) => InOrder(Tail(s), R, s[1].i)
         /\ FromFirst(s) /\ ~IsPart(s[1]) => FromFirst(Tail(s))
         /\ \A R : Acked(s, R) => Acked(Tail(s), R)
<1> DEFINE n == Len(s)
           t == Tail(s)
           l == Len(t)
<1>0. /\ n \in Nat \ {0} /\ l \in Nat /\ l = n - 1
      /\ \A i \in 1 .. l : i + 1 \in 2 .. n /\ t[i] = s[i + 1]
  BY TailIndex
<1>1. NoParts(s) <=> \A i \in 1 .. n : ~IsPart(s[i]) BY DEF NoParts
<1>2. NoParts(t) <=> \A i \in 1 .. l : ~IsPart(t[i]) BY DEF NoParts
<1>3. NoAcks(s) <=> \A i \in 1 .. n : ~IsSignal(s[i], "ack") BY DEF NoAcks
<1>4. NoAcks(t) <=> \A i \in 1 .. l : ~IsSignal(t[i], "ack") BY DEF NoAcks
<1>5. ASSUME NEW R, NEW k PROVE InOrder(s, R, k) <=>
        /\ \A i \in 1 .. n : IsPart(s[i]) => s[i].of = R /\ s[i].i > k /\ s[i].i <= R.size
        /\ \A i, j \in 1 .. n : i < j /\ IsPart(s[i]) /\ IsPart(s[j]) => s[i].i < s[j].i
  BY DEF InOrder
<1>6. ASSUME NEW R, NEW k PROVE InOrder(t, R, k) <=>
        /\ \A i \in 1 .. l : IsPart(t[i]) => t[i].of = R /\ t[i].i > k /\ t[i].i <= R.size
        /\ \A i, j \in 1 .. l : i < j /\ IsPart(t[i]) /\ IsPart(t[j]) => t[i].i < t[j].i
  BY DEF InOrder
<1>7. FromFirst(s) <=> \A j \in 1 .. n :
        IsPart(s[j]) /\ s[j].i # 1 => \E i \in 1 .. j - 1 : IsPart(s[i]) /\ s[i].i = 1
  BY DEF FromFirst
<1>8. FromFirst(t) <=> \A j \in 1 .. l :
        IsPart(t[j]) /\ t[j].i # 1 => \E i \in 1 .. j - 1 : IsPart(t[i]) /\ t[i].i = 1
  BY DEF FromFirst
<1>9. ASSUME NEW R PROVE Acked(s, R) <=> \A p \in 1 .. n : IsSignal(s[p], "ack") =>
        (\A i \in 1 .. p - 1 : ~IsPart(s[i])) /\ InOrder(s, R, 0) /\ FromFirst(s)
  BY DEF Acked
<1>10. ASSUME NEW R PROVE Acked(t, R) <=> \A p \in 1 .. l : IsSignal(t[p], "ack") =>
        (\A i \in 1 .. p - 1 : ~IsPart(t[i])) /\ InOrder(t, R, 0) /\ FromFirst(t)
  BY DEF Acked
<1> HIDE DEF n, t, l
<1>11. NoParts(s) => NoParts(t) BY <1>0, <1>1, <1>2
<1>12. NoAcks(s) => NoAcks(t) BY <1>0, <1>3, <1>4
<1>13. ASSUME NEW R, NEW k, InOrder(s, R, k) PROVE InOrder(t, R, k)
  BY <1>0, <1>5, <1>6, <1>13
<1>14. ASSUME NEW R, NEW k, InOrder(s, R, k), IsPart(s[1]) PROVE InOrder(t, R, s[1].i)
  <2>1. ASSUME NEW i \in 1 .. l, IsPart(t[i]) PROVE t[i].i > s[1].i
    <3>1. 1 \in 1 .. n /\ i + 1 \in 1 .. n /\ 1 < i + 1 /\ t[i] = s[i + 1] BY <1>0
    <3>2. s[1].i < s[i + 1].i BY <3>1, <2>1, <1>14, <1>5
    <3> QED BY <3>1, <3>2
  <2>2. InOrder(t, R, k) BY <1>13, <1>14
  <2> QED BY <2>1, <2>2, <1>6
<1>15. ASSUME FromFirst(s), ~IsPart(s[1]) PROVE FromFirst(t)
  <2>1. ASSUME NEW j \in 1 .. l, IsPart(t[j]), t[j].i # 1
        PROVE \E i \in 1 .. j - 1 : IsPart(t[i]) /\ t[i].i = 1
    <3>1. j + 1 \in 1 .. n /\ t[j] = s[j + 1] BY <1>0
    <3>2. PICK i \in 1 .. j : IsPart(s[i]) /\ s[i].i = 1 BY <3>1, <2>1, <1>15, <1>7
    <3>3. i # 1 BY <3>2, <1>15
    <3>4. i - 1 \in 1 .. j - 1 /\ i - 1 \in 1 .. l /\ t[i - 1] = s[i] BY <3>3, <1>0
    <3> QED BY <3>2, <3>4
  <2> QED BY <2>1, <1>8
<1>16. ASSUME NEW R, Acked(s, R) PROVE Acked(t, R)
  <2>1. ASSUME NEW p \in 1 .. l, IsSignal(t[p], "ack")
        PROVE (\A i \in 1 .. p - 1 : ~IsPart(t[i])) /\ InOrder(t, R, 0) /\ FromFirst(t)
    <3>1. p + 1 \in 1 .. n /\ t[p] = s[p + 1] BY <1>0
    <3>2. (\A i \in 1 .. p : ~IsPart(s[i])) /\ InOrder(s, R, 0) /\ FromFirst(s)
      BY <3>1, <2>1, <1>9, <1>16
    <3>3. \A i \in 1 .. p - 1 : ~IsPart(t[i]) BY <3>2, <1>0
    <3> QED BY <3>2, <3>3, <1>13, <1>15
  <2> QED BY <2>1, <1>10
<1> QED BY <1>11, <1>12, <1>13, <1>14, <1>15, <1>16 DEF t

\* A frame more that is neither a part nor an acknowledgement changes nothing of this.
LEMMA EchoKeeps ==
  ASSUME NEW s \in Seq(Frames), NEW f \in Frames, ~IsPart(f), ~IsSignal(f, "ack"),
         NEW t, t = s \o <<f>>
  PROVE  /\ NoParts(s) => NoParts(t)
         /\ NoAcks(s) => NoAcks(t)
         /\ \A R, k : InOrder(s, R, k) => InOrder(t, R, k)
         /\ FromFirst(s) => FromFirst(t)
         /\ \A R : Acked(s, R) => Acked(t, R)
<1> DEFINE n == Len(s)
           l == Len(t)
<1>0. /\ n \in Nat /\ l = n + 1
      /\ \A i \in 1 .. n : t[i] = s[i]
      /\ t[l] = f
  BY ConcatProperties
<1>a. \A i \in 1 .. l : i \in 1 .. n \/ i = l
  <2> HIDE DEF n, l
  <2> QED BY <1>0
<1>b. (\A i \in 1 .. n : i \in 1 .. l) /\ (\A i \in 1 .. n : \A j \in 1 .. i - 1 : j \in 1 .. n)
  <2> HIDE DEF n, l
  <2> QED BY <1>0
<1>c. \A i \in 1 .. l : IsPart(t[i]) \/ IsSignal(t[i], "ack") => i \in 1 .. n
  BY <1>0, <1>a
<1>1. NoParts(s) <=> \A i \in 1 .. n : ~IsPart(s[i]) BY DEF NoParts
<1>2. NoParts(t) <=> \A i \in 1 .. l : ~IsPart(t[i]) BY DEF NoParts
<1>3. NoAcks(s) <=> \A i \in 1 .. n : ~IsSignal(s[i], "ack") BY DEF NoAcks
<1>4. NoAcks(t) <=> \A i \in 1 .. l : ~IsSignal(t[i], "ack") BY DEF NoAcks
<1>5. ASSUME NEW R, NEW k PROVE InOrder(s, R, k) <=>
        /\ \A i \in 1 .. n : IsPart(s[i]) => s[i].of = R /\ s[i].i > k /\ s[i].i <= R.size
        /\ \A i, j \in 1 .. n : i < j /\ IsPart(s[i]) /\ IsPart(s[j]) => s[i].i < s[j].i
  BY DEF InOrder
<1>6. ASSUME NEW R, NEW k PROVE InOrder(t, R, k) <=>
        /\ \A i \in 1 .. l : IsPart(t[i]) => t[i].of = R /\ t[i].i > k /\ t[i].i <= R.size
        /\ \A i, j \in 1 .. l : i < j /\ IsPart(t[i]) /\ IsPart(t[j]) => t[i].i < t[j].i
  BY DEF InOrder
<1>7. FromFirst(s) <=> \A j \in 1 .. n :
        IsPart(s[j]) /\ s[j].i # 1 => \E i \in 1 .. j - 1 : IsPart(s[i]) /\ s[i].i = 1
  BY DEF FromFirst
<1>8. FromFirst(t) <=> \A j \in 1 .. l :
        IsPart(t[j]) /\ t[j].i # 1 => \E i \in 1 .. j - 1 : IsPart(t[i]) /\ t[i].i = 1
  BY DEF FromFirst
<1>9. ASSUME NEW R PROVE Acked(s, R) <=> \A p \in 1 .. n : IsSignal(s[p], "ack") =>
        (\A i \in 1 .. p - 1 : ~IsPart(s[i])) /\ InOrder(s, R, 0) /\ FromFirst(s)
  BY DEF Acked
<1>10. ASSUME NEW R PROVE Acked(t, R) <=> \A p \in 1 .. l : IsSignal(t[p], "ack") =>
        (\A i \in 1 .. p - 1 : ~IsPart(t[i])) /\ InOrder(t, R, 0) /\ FromFirst(t)
  BY DEF Acked
<1> HIDE DEF n, l
<1>11. NoParts(s) => NoParts(t) BY <1>0, <1>a, <1>1, <1>2
<1>12. NoAcks(s) => NoAcks(t) BY <1>0, <1>a, <1>3, <1>4
<1>13. ASSUME NEW R, NEW k, InOrder(s, R, k) PROVE InOrder(t, R, k)
  <2>1. ASSUME NEW i \in 1 .. l, IsPart(t[i])
        PROVE i \in 1 .. n /\ t[i] = s[i]
    BY <2>1, <1>0, <1>c
  <2>2. ASSUME NEW i \in 1 .. l, IsPart(t[i])
        PROVE t[i].of = R /\ t[i].i > k /\ t[i].i <= R.size
    BY <2>1, <2>2, <1>5, <1>13
  <2>3. ASSUME NEW i \in 1 .. l, NEW j \in 1 .. l, i < j, IsPart(t[i]), IsPart(t[j])
        PROVE t[i].i < t[j].i
    <3>1. i \in 1 .. n /\ t[i] = s[i] /\ j \in 1 .. n /\ t[j] = s[j] BY <2>1, <2>3
    <3>2. IsPart(s[i]) /\ IsPart(s[j]) BY <3>1, <2>3
    <3>3. s[i].i < s[j].i BY <3>1, <3>2, <2>3, <1>5, <1>13
    <3> QED BY <3>1, <3>3
  <2> QED BY <2>2, <2>3, <1>6
<1>14. ASSUME FromFirst(s) PROVE FromFirst(t)
  <2>1. ASSUME NEW j \in 1 .. l, IsPart(t[j]), t[j].i # 1
        PROVE \E i \in 1 .. j - 1 : IsPart(t[i]) /\ t[i].i = 1
    <3>1. j \in 1 .. n /\ t[j] = s[j] BY <2>1, <1>0, <1>c
    <3>2. PICK i \in 1 .. j - 1 : IsPart(s[i]) /\ s[i].i = 1 BY <3>1, <2>1, <1>7, <1>14
    <3>3. t[i] = s[i] BY <3>1, <1>0, <1>b
    <3> QED BY <3>2, <3>3
  <2> QED BY <2>1, <1>8
<1>15. ASSUME NEW R, Acked(s, R) PROVE Acked(t, R)
  <2>1. ASSUME NEW p \in 1 .. l, IsSignal(t[p], "ack")
        PROVE (\A i \in 1 .. p - 1 : ~IsPart(t[i])) /\ InOrder(t, R, 0) /\ FromFirst(t)
    <3>1. p \in 1 .. n /\ t[p] = s[p] BY <2>1, <1>0, <1>c
    <3>2. (\A i \in 1 .. p - 1 : ~IsPart(s[i])) /\ InOrder(s, R, 0) /\ FromFirst(s)
      BY <3>1, <2>1, <1>9, <1>15
    <3>3. \A i \in 1 .. p - 1 : t[i] = s[i] BY <3>1, <1>0, <1>b
    <3> QED BY <3>2, <3>3, <1>13, <1>14
  <2> QED BY <2>1, <1>10
<1> QED BY <1>11, <1>12, <1>13, <1>14, <1>15

\* The answer of a module to the last part of a request: the acknowledgement and then the reply.
LEMMA ReplySent ==
  ASSUME NEW s \in Seq(Frames), NoParts(s), NoAcks(s),
         NEW R \in Messages, NEW reply, reply = <<>> \/ reply = AllParts(R),
         NEW t, t = s \o (<<Signal("ack")>> \o reply)
  PROVE  Acked(t, R)
<1> DEFINE n == Len(s)
           l == Len(t)
           r == Len(reply)
           ack == Signal("ack")
<1>0. reply \in Seq(Frames) /\ r \in Nat /\ n \in Nat /\ <<ack>> \in Seq(Frames)
  <2>1. reply \in Seq(Frames) BY AllPartsType, EmptySeq
  <2> QED BY <2>1, FrameKinds DEF Signals
<1>1. /\ l = n + 1 + r
      /\ \A i \in 1 .. n : t[i] = s[i]
      /\ t[n + 1] = ack
      /\ \A i \in 1 .. r : t[n + 1 + i] = reply[i]
  BY <1>0, ConcatProperties
<1>2. \A i \in 1 .. r : reply[i] = Part(R, i) /\ r = R.size
  BY AllPartsType
<1>3. \A i \in 1 .. r : IsPart(reply[i]) /\ reply[i].of = R /\ reply[i].i = i /\ i <= R.size
  BY <1>0, <1>2, FrameKinds
<1>4. ~IsPart(ack) BY FrameKinds DEF Signals
<1>5. (\A i \in 1 .. n : ~IsPart(s[i]) /\ ~IsSignal(s[i], "ack")) BY DEF NoParts, NoAcks
<1>6. \A j \in 1 .. r : ~IsSignal(reply[j], "ack") BY <1>3 DEF IsSignal
<1>7. \A i \in 1 .. l : i <= n + 1 \/ i - n - 1 \in 1 .. r
  <2> HIDE DEF n, l, r
  <2> QED BY <1>0, <1>1
<1>8. InOrder(t, R, 0) <=>
        /\ \A i \in 1 .. l : IsPart(t[i]) => t[i].of = R /\ t[i].i > 0 /\ t[i].i <= R.size
        /\ \A i, j \in 1 .. l : i < j /\ IsPart(t[i]) /\ IsPart(t[j]) => t[i].i < t[j].i
  BY DEF InOrder
<1>9. FromFirst(t) <=> \A j \in 1 .. l :
        IsPart(t[j]) /\ t[j].i # 1 => \E i \in 1 .. j - 1 : IsPart(t[i]) /\ t[i].i = 1
  BY DEF FromFirst
<1>10. Acked(t, R) <=> \A p \in 1 .. l : IsSignal(t[p], "ack") =>
        (\A i \in 1 .. p - 1 : ~IsPart(t[i])) /\ InOrder(t, R, 0) /\ FromFirst(t)
  BY DEF Acked
<1> HIDE DEF n, l, r, ack
<1>11. ASSUME NEW i \in 1 .. l, IsPart(t[i])
       PROVE i > n + 1 /\ t[i].of = R /\ t[i].i = i - n - 1 /\ t[i].i <= R.size
  <2>1. i - n - 1 \in 1 .. r
    <3>0. i <= n => i \in 1 .. n BY <1>0
    <3>1. i <= n => ~IsPart(t[i]) BY <3>0, <1>1, <1>5
    <3>2. i = n + 1 => ~IsPart(t[i]) BY <1>1, <1>4
    <3>3. ~(i <= n) /\ i # n + 1 BY <3>1, <3>2, <1>11
    <3> QED BY <3>3, <1>0, <1>7
  <2>2. t[i] = reply[i - n - 1]
    <3> DEFINE j == i - n - 1
    <3>1. j \in 1 .. r /\ i = n + 1 + j BY <2>1, <1>0
    <3> HIDE DEF j
    <3>2. t[n + 1 + j] = reply[j] BY <3>1, <1>1
    <3> QED BY <3>1, <3>2 DEF j
  <2>3. reply[i - n - 1].of = R /\ reply[i - n - 1].i = i - n - 1 /\ i - n - 1 <= R.size
    BY <2>1, <1>3
  <2>4. i > n + 1 BY <2>1, <1>0
  <2> QED BY <2>2, <2>3, <2>4
<1>12. InOrder(t, R, 0)
  <2>1. ASSUME NEW i \in 1 .. l, IsPart(t[i]) PROVE t[i].of = R /\ t[i].i > 0 /\ t[i].i <= R.size
    <3>1. i > n + 1 /\ t[i].of = R /\ t[i].i = i - n - 1 /\ t[i].i <= R.size BY <2>1, <1>11
    <3>2. i - n - 1 > 0 BY <3>1, <1>0
    <3> QED BY <3>1, <3>2
  <2>2. ASSUME NEW i \in 1 .. l, NEW j \in 1 .. l, i < j, IsPart(t[i]), IsPart(t[j])
        PROVE t[i].i < t[j].i
    <3>1. t[i].i = i - n - 1 /\ t[j].i = j - n - 1 BY <2>2, <1>11
    <3>2. i - n - 1 < j - n - 1 BY <2>2, <1>0
    <3> QED BY <3>1, <3>2
  <2> QED BY <2>1, <2>2, <1>8
<1>13. FromFirst(t)
  <2>1. ASSUME NEW j \in 1 .. l, IsPart(t[j]), t[j].i # 1
        PROVE \E i \in 1 .. j - 1 : IsPart(t[i]) /\ t[i].i = 1
    <3>0. j > n + 1 /\ t[j].i = j - n - 1 BY <2>1, <1>11
    <3>1. j - n - 1 \in 1 .. r /\ j > n + 2
      <4>1. j - n - 1 # 1 BY <3>0, <2>1
      <4> QED BY <3>0, <4>1, <1>0, <1>7
    <3>2. 1 \in 1 .. r BY <3>1, <1>0
    <3>3. t[n + 1 + 1] = reply[1] BY <3>2, <1>1
    <3>4. n + 1 + 1 \in 1 .. j - 1 BY <3>1, <1>0
    <3> QED BY <3>2, <3>3, <3>4, <1>3
  <2> QED BY <2>1, <1>9
<1>14. ASSUME NEW p \in 1 .. l, IsSignal(t[p], "ack") PROVE \A i \in 1 .. p - 1 : ~IsPart(t[i])
  <2>1. ~IsPart(t[p]) BY <1>14 DEF IsSignal
  <2>2. ~(p - n - 1 \in 1 .. r)
    <3> SUFFICES ASSUME p - n - 1 \in 1 .. r PROVE FALSE OBVIOUS
    <3> DEFINE j == p - n - 1
    <3>1. j \in 1 .. r /\ p = n + 1 + j BY <1>0
    <3> HIDE DEF j
    <3>2. t[p] = reply[j] BY <3>1, <1>1
    <3> QED BY <3>1, <3>2, <1>3, <2>1
  <2>3. p <= n + 1 BY <2>2, <1>7
  <2>4. ASSUME NEW i \in 1 .. p - 1 PROVE i \in 1 .. n BY <2>3, <1>0
  <2> QED BY <2>4, <1>1, <1>5
<1> QED BY <1>10, <1>12, <1>13, <1>14

\* A further part of the reply is collected.
LEMMA CollectMore ==
  ASSUME NEW c \in Seq(Parts), NEW R \in Messages, Collected(c, R),
         NEW f \in Parts, f.of = R, f.i > LastOf(c), f.i <= R.size, c = <<>> => f.i = 1
  PROVE  LET d == Append(c, f)
         IN d \in Seq(Parts) /\ d # <<>> /\ Collected(d, R) /\ LastOf(d) = f.i
<1> DEFINE d == Append(c, f)
           n == Len(c)
           l == Len(d)
<1>1. /\ d \in Seq(Parts) /\ n \in Nat /\ l = n + 1
      /\ \A i \in 1 .. n : d[i] = c[i]
      /\ d[l] = f
  BY AppendProperties
<1>2. d # <<>> BY <1>1
<1>3. c = <<>> <=> n = 0 BY EmptySeq
<1>4. f.i \in Nat \ {0} /\ \A i \in 1 .. n : c[i].i \in Nat BY FrameKinds
<1>5. (n = 0 => LastOf(c) = 0) /\ (n # 0 => LastOf(c) = c[n].i) BY <1>3 DEF LastOf
<1>6. /\ \A j \in 1 .. n : c[j].of = R /\ c[j].i >= j /\ c[j].i <= R.size
      /\ n # 0 => c[1].i = 1
      /\ n # 0 /\ c[n].i = n => \A j \in 1 .. n : c[j].i = j
  BY <1>3 DEF Collected
<1>7. Collected(d, R) <=>
      /\ \A j \in 1 .. l : d[j].of = R /\ d[j].i >= j /\ d[j].i <= R.size
      /\ d[1].i = 1
      /\ d[l].i = l => \A j \in 1 .. l : d[j].i = j
  BY <1>2 DEF Collected
<1>8. LastOf(d) = f.i BY <1>1, <1>2 DEF LastOf
<1>9. n = 0 => f.i = 1 BY <1>3
<1> HIDE DEF d, n, l
<1> DEFINE x == f.i
           y == c[n].i
<1>10. n # 0 => x > y /\ y >= n /\ n \in 1 .. n BY <1>1, <1>5, <1>6
<1>11. x \in Nat /\ (n # 0 => y \in Nat) BY <1>4, <1>10
<1>12. x >= l /\ (n # 0 /\ x = l => y = n)
  <2> HIDE DEF x, y
  <2> QED BY <1>1, <1>4, <1>9, <1>10, <1>11 DEF x
<1>13. \A j \in 1 .. l : j \in 1 .. n \/ j = l BY <1>1
<1>14. \A j \in 1 .. l : d[j].of = R /\ d[j].i >= j /\ d[j].i <= R.size
  BY <1>1, <1>6, <1>12, <1>13
<1>15. d[1].i = 1
  <2>1. CASE n = 0 BY <2>1, <1>1, <1>9
  <2>2. CASE n # 0
    <3>1. 1 \in 1 .. n BY <2>2, <1>1
    <3> QED BY <2>2, <3>1, <1>1, <1>6
  <2> QED BY <2>1, <2>2
<1>16. d[l].i = l => \A j \in 1 .. l : d[j].i = j
  BY <1>1, <1>6, <1>12, <1>13
<1>17. Collected(d, R) BY <1>7, <1>14, <1>15, <1>16
<1> QED BY <1>1, <1>2, <1>8, <1>17 DEF d

\* A reply that has its last part and as many as announced is complete.
LEMMA WholeReply ==
  ASSUME NEW c \in Seq(Parts), NEW R \in Messages, Collected(c, R), c # <<>>,
         LastOf(c) = R.size, ~(Len(c) < R.size)
  PROVE  SubSeq(c, 1, R.size) = AllParts(R)
<1> DEFINE n == Len(c)
           z == R.size
<1>1. n \in Nat \ {0} /\ z \in Nat \ {0} /\ ~(n < z) BY EmptySeq, FrameKinds
<1>2. c[n].i = z BY DEF LastOf
<1>3. /\ \A j \in 1 .. n : c[j].of = R /\ c[j].i >= j
      /\ c[n].i = n => \A j \in 1 .. n : c[j].i = j
  BY DEF Collected
<1>4. n = z
  <2> HIDE DEF n, z
  <2> QED BY <1>1, <1>2, <1>3
<1>5. \A j \in 1 .. z : c[j].i = j /\ c[j].of = R BY <1>2, <1>3, <1>4
<1>6. \A j \in 1 .. z : c[j] = Part(R, j)
  <2>1. \A j \in 1 .. z : c[j] \in Parts BY <1>1, <1>4
  <2> QED BY <2>1, <1>5 DEF Parts, Part
<1>7. /\ SubSeq(c, 1, z) \in Seq(Parts) /\ Len(SubSeq(c, 1, z)) = z
      /\ \A i \in 1 .. z : SubSeq(c, 1, z)[i] = c[i]
  BY <1>1, <1>4, SubSeqProperties
<1> QED BY <1>6, <1>7, AllPartsType, SeqEqual

LEMMA ShapeStep ==
  ASSUME TypeOK, RequestShape, [Next]_vars
  PROVE  RequestShape'
<1> USE DEF RequestShape
<1>0. next \in Nat /\ current.size \in Nat \ {0} /\ current \in Messages BY FrameKinds DEF TypeOK
<1>a. ASSUME NEW status, NEW value, Conclude(status, value) PROVE RequestShape'
  BY <1>a DEF Conclude
<1>1. ASSUME NEW m \in Modules, Open(m) PROVE RequestShape' BY <1>1 DEF Open, Nothing
<1>2. CASE Propose \/ TakeSetup \/ TakeParams \/ TakeAck
  BY <1>2 DEF Propose, TakeSetup, TakeParams, TakeAck
<1>3. CASE Ask
  <2>1. PICK size \in RequestParts : current' = [n |-> current.n + 1, size |-> size] BY <1>3 DEF Ask
  <2>2. current'.size = size /\ size \in Nat \ {0} BY <2>1, Tp20Assumption
  <2>3. next' = 1 /\ next' <= current'.size BY <1>3, <2>2 DEF Ask
  <2> QED BY <1>3, <2>3 DEF Ask, Nothing
<1>4. CASE SendPart
  <2>1. CASE next = current.size BY <1>4, <2>1 DEF SendPart
  <2>2. CASE next # current.size
    <3> DEFINE z == current.size
    <3>1. next <= z /\ next # z /\ z \in Nat /\ next \in Nat BY <1>4, <2>2, <1>0 DEF SendPart
    <3>2. next' = next + 1 /\ current' = current BY <1>4, <2>2 DEF SendPart
    <3> HIDE DEF z
    <3>3. next' <= z BY <3>1, <3>2
    <3> QED BY <1>4, <2>2, <3>2, <3>3 DEF SendPart, z
  <2> QED BY <2>1, <2>2
<1>5. CASE SendFails \/ Timeout BY <1>5, <1>a DEF SendFails, Timeout
<1>6. CASE TakePart BY <1>6 DEF TakePart
<1>7. CASE TakeLastPart BY <1>7, <1>a DEF TakeLastPart, Reassemble
<1>8. CASE DropFrame BY <1>8 DEF DropFrame
<1>9. CASE Tick \/ OpenFails \/ Close \/ Disconnect
  BY <1>9 DEF Tick, OpenFails, Close, Disconnect, GiveUp
<1>10. CASE StartKeepalive \/ KeepaliveWake \/ KeepaliveFails \/ KeepaliveSend
  BY <1>10 DEF StartKeepalive, KeepaliveWake, KeepaliveFails, KeepaliveSend, testerVars
<1>11. ASSUME NEW m \in Modules, OrphanSends(m) PROVE RequestShape' BY <1>11 DEF OrphanSends, testerVars
<1>12. ASSUME NEW m \in Modules, Bus(m) PROVE RequestShape'
  BY <1>12 DEF Bus, PassBy, LoseReply, testerVars
<1>13. CASE UNCHANGED vars BY <1>13 DEF vars, testerVars
<1> QED BY <1>1, <1>2, <1>3, <1>4, <1>5, <1>6, <1>7, <1>8, <1>9, <1>10, <1>11, <1>12, <1>13
  DEF Next, Tester, Thread, Receive, Expire

\* A step that leaves the request where it is and keeps what CleanInv says of every channel.
LEMMA CleanKept ==
  ASSUME CleanInv, UNCHANGED <<pc, mod, current, next, collected, partial>>, clean' => clean,
         mod \in Modules,
         \A m \in Modules :
           /\ NoParts(out[m]) => NoParts(out'[m])
           /\ NoAcks(out[m]) => NoAcks(out'[m])
           /\ \A R, k : InOrder(out[m], R, k) => InOrder(out'[m], R, k)
           /\ \A R : Acked(out[m], R) => Acked(out'[m], R)
           /\ pc = "reply" /\ clean' /\ FromFirst(out[m]) => FromFirst(out'[m])
  PROVE  CleanInv'
<1>1. ASSUME clean', pc' = "sending" PROVE CleanSending'
  <2>1. CleanSending BY <1>1 DEF CleanInv
  <2> QED BY <2>1 DEF CleanSending
<1>2. ASSUME clean', pc' = "ack" PROVE \E R \in Replies' : CleanAck(R)'
  <2>1. PICK R \in Replies : CleanAck(R) BY <1>2 DEF CleanInv
  <2>2. CleanAck(R)' BY <2>1 DEF CleanAck
  <2>3. R \in Replies' BY <2>1 DEF Replies
  <2> QED BY <2>2, <2>3
<1>3. ASSUME clean', pc' = "reply" PROVE \E R \in Replies' : CleanReply(R)'
  <2>1. PICK R \in Replies : CleanReply(R) BY <1>3 DEF CleanInv
  <2>2. CleanReply(R)' BY <2>1, <1>3 DEF CleanReply
  <2>3. R \in Replies' BY <2>1 DEF Replies
  <2> QED BY <2>2, <2>3
<1> QED BY <1>1, <1>2, <1>3 DEF CleanInv

\* A frame leaves a channel: one that is no part, or, if it is lost, no first part.
LEMMA FrameGoes ==
  ASSUME TypeOK, CleanInv, UNCHANGED <<pc, mod, current, next, collected, partial>>, clean' => clean,
         NEW m \in Modules, out[m] # <<>>, out' = [out EXCEPT ![m] = Tail(@)],
         pc # "reply" \/ ~IsPart(Head(out[m])) \/ (clean' => Head(out[m]).i # 1)
  PROVE  CleanInv'
<1>1. mod \in Modules /\ \A x \in Modules : out[x] \in Seq(Frames) BY DEF TypeOK
<1>2. \A x \in Modules : out'[x] = IF x = m THEN Tail(out[m]) ELSE out[x] BY DEF TypeOK
<1>3. Head(out[m]) = out[m][1] BY <1>1, HeadTailProperties
<1>4. ASSUME pc = "reply", clean', FromFirst(out[m]) PROVE FromFirst(Tail(out[m]))
  <2>1. ~IsPart(out[m][1])
    <3>1. ~IsPart(out[m][1]) \/ out[m][1].i # 1 BY <1>3, <1>4
    <3>2. 1 \in 1 .. Len(out[m]) BY <1>1, TailIndex
    <3>3. ~(\E i \in 1 .. 1 - 1 : TRUE) OBVIOUS
    <3> QED BY <3>1, <3>2, <3>3, <1>4 DEF FromFirst
  <2> QED BY <2>1, <1>1, <1>4, TailKeeps
<1>5. /\ NoParts(out[m]) => NoParts(Tail(out[m]))
      /\ NoAcks(out[m]) => NoAcks(Tail(out[m]))
      /\ \A R, k : InOrder(out[m], R, k) => InOrder(Tail(out[m]), R, k)
      /\ \A R : Acked(out[m], R) => Acked(Tail(out[m]), R)
  BY <1>1, TailKeeps
<1>6. \A x \in Modules :
           /\ NoParts(out[x]) => NoParts(out'[x])
           /\ NoAcks(out[x]) => NoAcks(out'[x])
           /\ \A R, k : InOrder(out[x], R, k) => InOrder(out'[x], R, k)
           /\ \A R : Acked(out[x], R) => Acked(out'[x], R)
           /\ pc = "reply" /\ clean' /\ FromFirst(out[x]) => FromFirst(out'[x])
  BY <1>2, <1>4, <1>5
<1> QED BY <1>1, <1>6, CleanKept

\* The echo of a keepalive comes into a channel, or the test is lost.
LEMMA EchoComes ==
  ASSUME TypeOK, CleanInv, UNCHANGED <<pc, mod, current, next, collected>>,
         NEW m \in Modules, Send(m, Signal("test"))
  PROVE  CleanInv'
<1> DEFINE f == Signal("test")
<1>0. f \in Frames /\ ~IsPart(f) /\ f.signal = "test" /\ ~IsSignal(f, "ack")
  BY FrameKinds DEF Signals, IsSignal
<1>1. mod \in Modules /\ \A x \in Modules : out[x] \in Seq(Frames) BY DEF TypeOK
<1>2. partial' = partial /\ (clean' => clean) /\ (out' = out \/ out' = [out EXCEPT ![m] = @ \o <<f>>])
  <2>1. Feed(m, f) => Emit(m, <<f>>) /\ UNCHANGED partial
    <3>1. f.signal # "setup" /\ f.signal # "params" /\ f.signal # "disconnect" BY <1>0
    <3>2. Signal("test") = f OBVIOUS
    <3> HIDE DEF f
    <3> QED BY <1>0, <3>1, <3>2 DEF Feed
  <2>2. \/ Feed(m, f) /\ clean' = clean
        \/ clean' = (clean /\ ~IsPart(f)) /\ UNCHANGED <<partial, out>>
    BY DEF Send
  <2>3. CASE Feed(m, f) /\ clean' = clean BY <2>1, <2>3 DEF Emit
  <2>4. CASE clean' = (clean /\ ~IsPart(f)) /\ UNCHANGED <<partial, out>> BY <2>4, <1>0
  <2> QED BY <2>2, <2>3, <2>4
<1>3. CASE out' = out BY <1>1, <1>2, <1>3, CleanKept
<1>4. CASE out' = [out EXCEPT ![m] = @ \o <<f>>]
  <2>1. \A x \in Modules : out'[x] = IF x = m THEN out[m] \o <<f>> ELSE out[x] BY <1>4 DEF TypeOK
  <2> HIDE DEF f
  <2>2. \A x \in Modules :
           /\ NoParts(out[x]) => NoParts(out'[x])
           /\ NoAcks(out[x]) => NoAcks(out'[x])
           /\ \A R, k : InOrder(out[x], R, k) => InOrder(out'[x], R, k)
           /\ \A R : Acked(out[x], R) => Acked(out'[x], R)
           /\ pc = "reply" /\ clean' /\ FromFirst(out[x]) => FromFirst(out'[x])
    BY <1>0, <1>1, <2>1, EchoKeeps
  <2> QED BY <1>1, <1>2, <2>2, CleanKept
<1> QED BY <1>2, <1>3, <1>4

\* A request is made: if it is quiet, nothing else is on its way.
LEMMA AskClean ==
  ASSUME TypeOK, RequestShape, Ask
  PROVE  CleanInv'
<1>1. ASSUME clean' PROVE CleanSending'
  <2>1. Quiet(out') /\ mod' = mod /\ partial' = partial /\ next' = 1 /\ mod \in Modules
    BY <1>1 DEF Ask, Drained, RequestShape, TypeOK
  <2>2. out' \in [Modules -> Seq(Frames)]
    <3>1. TypeOK' BY StepType DEF Next, Tester
    <3> QED BY <3>1 DEF TypeOK
  <2>3. ASSUME NEW m \in Modules PROVE NoParts(out'[m]) /\ NoAcks(out'[m]) /\ partial[m] = <<>>
    <3>1. out'[m] \in Seq(Frames) BY <2>2
    <3>2. \A i \in 1 .. Len(out'[m]) : out'[m][i] \in ToSet(out'[m]) BY <3>1 DEF ToSet
    <3>3. \A f \in ToSet(out'[m]) : ~IsPart(f) /\ f.signal # "ack" BY <2>1 DEF Quiet
    <3>4. partial[m] = <<>> BY <2>1 DEF Quiet
    <3> QED BY <3>2, <3>3, <3>4 DEF NoParts, NoAcks, IsSignal
  <2>4. [i \in 1 .. next' - 1 |-> Part(current', i)] = <<>>
    <3>1. 1 .. next' - 1 = {} BY <2>1
    <3>2. [i \in {} |-> Part(current', i)] = <<>> OBVIOUS
    <3> QED BY <3>1, <3>2
  <2> QED BY <2>1, <2>3, <2>4 DEF CleanSending
<1>2. pc' = "sending" BY DEF Ask
<1> QED BY <1>1, <1>2 DEF CleanInv

\* A part of the request is sent; the last one is what the module answers to.
LEMMA SendPartClean ==
  ASSUME TypeOK, RequestShape, CleanInv, SendPart
  PROVE  CleanInv'
<1> DEFINE f == Part(current, next)
<1>0. /\ mod \in Modules /\ current \in Messages /\ next \in Nat \ {0} /\ mod' = mod /\ current' = current
      /\ out \in [Modules -> Seq(Frames)] /\ partial \in [Modules -> Seq(Parts)]
      /\ pc = "sending" /\ collected' = collected /\ collected = <<>>
      /\ next <= current.size
  BY DEF TypeOK, SendPart, RequestShape
<1>1. f \in Parts /\ IsPart(f) /\ f.of = current /\ f.i = next /\ current.n \in Nat /\ current.size \in Nat \ {0}
  BY <1>0, FrameKinds
<1>2. Send(mod, f) BY DEF SendPart
<1> HIDE DEF f
<1> SUFFICES ASSUME clean' PROVE CleanInv' BY DEF CleanInv
<1>3. FeedPart(mod, f) /\ clean BY <1>1, <1>2 DEF Send, Feed
<1>4. CleanSending BY <1>0, <1>3 DEF CleanInv
<1> DEFINE parts == Append(partial[mod], f)
           sent == [i \in 1 .. next |-> Part(current, i)]
<1>5. parts = sent
  <2>1. partial[mod] = [i \in 1 .. next - 1 |-> Part(current, i)] BY <1>4 DEF CleanSending
  <2>2. \A i \in 1 .. next - 1 : Part(current, i) \in Parts BY <1>0, FrameKinds
  <2>3. Len(partial[mod]) = next - 1 BY <1>0, <2>1, <2>2
  <2>4. /\ parts \in Seq(Parts) /\ Len(parts) = next /\ parts[next] = f
        /\ \A i \in 1 .. next - 1 : parts[i] = Part(current, i)
    <3>1. partial[mod] \in Seq(Parts) BY <1>0
    <3>2. /\ parts \in Seq(Parts) /\ Len(parts) = Len(partial[mod]) + 1
          /\ \A i \in 1 .. Len(partial[mod]) : parts[i] = partial[mod][i]
          /\ parts[Len(partial[mod]) + 1] = f
      BY <1>1, <3>1, AppendProperties
    <3>3. \A i \in 1 .. next - 1 : partial[mod][i] = Part(current, i) BY <2>1
    <3>4. next - 1 + 1 = next BY <1>0
    <3> HIDE DEF parts
    <3> QED BY <2>3, <3>2, <3>3, <3>4
  <2>5. /\ sent \in Seq(Parts) /\ Len(sent) = next
        /\ \A i \in 1 .. next : sent[i] = Part(current, i)
    BY <1>0, FrameKinds
  <2>6. \A i \in 1 .. next : parts[i] = sent[i]
    <3>1. \A i \in 1 .. next : i \in 1 .. next - 1 \/ i = next BY <1>0
    <3> HIDE DEF parts, sent
    <3> QED BY <3>1, <2>4, <2>5 DEF f
  <2> HIDE DEF parts, sent
  <2> QED BY <2>4, <2>5, <2>6, SeqEqual
<1>6. CASE next # current.size
  <2>1. /\ partial' = [partial EXCEPT ![mod] = parts] /\ out' = out
        /\ next' = next + 1 /\ pc' = "sending"
    BY <1>0, <1>1, <1>3, <1>6 DEF FeedPart, SendPart
  <2>2. next' - 1 = next BY <1>0, <2>1
  <2>3. partial'[mod] = [i \in 1 .. next' - 1 |-> Part(current, i)] BY <1>0, <1>5, <2>1, <2>2
  <2>4. \A m \in Modules : m # mod => partial'[m] = <<>> BY <1>0, <1>4, <2>1 DEF CleanSending
  <2> HIDE DEF parts, sent
  <2>5. CleanSending' BY <1>0, <1>4, <2>1, <2>3, <2>4 DEF CleanSending
  <2> QED BY <2>1, <2>5 DEF CleanInv
<1>7. CASE next = current.size
  <2>1. parts = AllParts(current) BY <1>5, <1>7 DEF AllParts
  <2>2. parts[1].of = current
    <3>1. 1 \in 1 .. current.size BY <1>1
    <3>2. parts[1] = Part(current, 1) BY <1>0, <2>1, <3>1, AllPartsType
    <3> HIDE DEF parts
    <3> QED BY <3>2, <1>0, FrameKinds
  <2>3. Understood(parts) = current.n BY <2>1, <2>2 DEF Understood
  <2>4. pc' = "ack" BY <1>7 DEF SendPart
  <2> HIDE DEF parts, sent
  <2>5. PICK reply \in Handle(current.n) : Emit(mod, <<Signal("ack")>> \o reply)
    BY <1>1, <1>3, <1>7, <2>3 DEF FeedPart, parts
  <2>6. PICK R \in Messages : R.n = current.n /\ (reply = <<>> \/ reply = AllParts(R))
    <3>1. CASE reply = <<>> BY <1>0, <3>1
    <3> QED BY <3>1, <1>1, <2>5, HandleType
  <2>7. /\ \A m \in Modules : NoParts(out[m]) /\ NoAcks(out[m])
        /\ \A m \in Modules : out[m] \in Seq(Frames)
    BY <1>0, <1>4 DEF CleanSending
  <2>8. /\ out'[mod] = out[mod] \o (<<Signal("ack")>> \o reply)
        /\ \A m \in Modules : m # mod => out'[m] = out[m]
    BY <1>0, <2>5 DEF Emit
  <2>9. Acked(out'[mod], R) BY <1>0, <2>6, <2>7, <2>8, ReplySent
  <2>10. CleanAck(R)' BY <1>0, <2>7, <2>8, <2>9 DEF CleanAck
  <2>11. R \in Replies' BY <1>0, <2>6 DEF Replies
  <2> QED BY <2>4, <2>10, <2>11 DEF CleanInv
<1> QED BY <1>6, <1>7

\* After the acknowledgement comes the reply.
LEMMA TakeAckClean ==
  ASSUME TypeOK, RequestShape, CleanInv, TakeAck
  PROVE  CleanInv'
<1> SUFFICES ASSUME clean' PROVE \E R \in Replies' : CleanReply(R)' BY DEF CleanInv, TakeAck
<1>1. PICK m \in Modules : Take(m) /\ IsSignal(Head(out[m]), "ack") BY DEF TakeAck
<1>2. PICK R \in Replies : CleanAck(R) BY DEF CleanInv, TakeAck
<1>3. /\ out[m] # <<>> /\ out' = [out EXCEPT ![m] = Tail(@)] /\ mod' = mod /\ current' = current
      /\ collected' = collected /\ collected = <<>>
  BY <1>1 DEF Take, TakeAck, RequestShape
<1>4. out \in [Modules -> Seq(Frames)] /\ mod \in Modules /\ out[m] \in Seq(Frames) BY DEF TypeOK
<1>5. 1 \in 1 .. Len(out[m]) /\ IsSignal(out[m][1], "ack")
  BY <1>1, <1>3, <1>4, TailIndex, HeadTailProperties
<1>6. m = mod BY <1>2, <1>5 DEF CleanAck, NoAcks
<1>7. InOrder(out[mod], R, 0) /\ FromFirst(out[mod]) /\ ~IsPart(out[mod][1])
  BY <1>2, <1>5, <1>6 DEF CleanAck, Acked, IsSignal
<1>8. InOrder(Tail(out[mod]), R, 0) /\ FromFirst(Tail(out[mod])) BY <1>3, <1>4, <1>6, <1>7, TailKeeps
<1>9. out'[mod] = Tail(out[mod]) /\ \A x \in Modules : x # mod => out'[x] = out[x]
  BY <1>3, <1>4, <1>6
<1>10. Collected(<<>>, R) /\ LastOf(<<>>) = 0 BY DEF Collected, LastOf
<1>11. CleanReply(R)' BY <1>2, <1>3, <1>8, <1>9, <1>10 DEF CleanReply, CleanAck
<1>12. R \in Replies' BY <1>3 DEF Replies
<1> QED BY <1>11, <1>12

\* A part is taken, and nothing has been lost: it is a later one of the reply.
LEMMA TakenPart ==
  ASSUME TypeOK, CleanInv, pc = "reply", clean, NEW m \in Modules, Take(m), IsPart(Head(out[m]))
  PROVE  /\ m = mod
         /\ \E R \in Replies : LET f == Head(out[m])
                                   c == Append(collected, f)
                               IN /\ f.of = R /\ c \in Seq(Parts) /\ c # <<>>
                                  /\ Collected(c, R) /\ LastOf(c) = f.i
                                  /\ InOrder(Tail(out[m]), R, f.i) /\ CleanReply(R)
<1> DEFINE f == Head(out[m])
<1>1. PICK R \in Replies : CleanReply(R) BY DEF CleanInv
<1>2. out[m] # <<>> /\ out[m] \in Seq(Frames) /\ collected \in Seq(Parts) BY DEF TypeOK, Take
<1>3. f = out[m][1] /\ 1 \in 1 .. Len(out[m]) /\ f \in Frames BY <1>2, TailIndex, HeadTailProperties
<1>4. f \in Parts BY <1>3, FrameKinds
<1> HIDE DEF f
<1>5. m = mod BY <1>1, <1>3 DEF CleanReply, NoParts, f
<1>6. IsPart(f) BY DEF f
<1>7. InOrder(out[m], R, LastOf(collected)) /\ Collected(collected, R)
      /\ (collected = <<>> => FromFirst(out[m]))
  BY <1>1, <1>5 DEF CleanReply
<1>8. f.of = R /\ f.i > LastOf(collected) /\ f.i <= R.size BY <1>3, <1>6, <1>7 DEF InOrder
<1>9. collected = <<>> => f.i = 1
  <2>1. ~(\E i \in 1 .. 1 - 1 : TRUE) OBVIOUS
  <2> QED BY <1>3, <1>6, <1>7, <2>1 DEF FromFirst
<1>10. InOrder(Tail(out[m]), R, f.i) BY <1>2, <1>3, <1>6, <1>7, TailKeeps
<1>11. R \in Messages BY DEF Replies
<1> QED BY <1>1, <1>2, <1>4, <1>5, <1>7, <1>8, <1>9, <1>10, <1>11, CollectMore DEF f

LEMMA TakePartClean ==
  ASSUME TypeOK, CleanInv, TakePart
  PROVE  CleanInv'
<1> SUFFICES ASSUME clean' PROVE \E R \in Replies' : CleanReply(R)' BY DEF CleanInv, TakePart
<1>1. PICK m \in Modules : /\ Take(m) /\ IsPart(Head(out[m]))
                            /\ collected' = Append(collected, Head(out[m]))
  BY DEF TakePart
<1>2. pc = "reply" /\ clean /\ mod' = mod /\ current' = current BY DEF TakePart
<1> DEFINE f == Head(out[m])
           c == Append(collected, f)
<1>3. m = mod BY <1>1, <1>2, TakenPart
<1>4. PICK R \in Replies :
        /\ f.of = R /\ c \in Seq(Parts) /\ c # <<>>
        /\ Collected(c, R) /\ LastOf(c) = f.i
        /\ InOrder(Tail(out[m]), R, f.i) /\ CleanReply(R)
  BY <1>1, <1>2, TakenPart
<1>5. collected' = c BY <1>1
<1> HIDE DEF c, f
<1>6. out'[mod] = Tail(out[m]) /\ \A x \in Modules : x # mod => out'[x] = out[x]
  BY <1>1, <1>3 DEF Take, TypeOK
<1>7. CleanReply(R)' BY <1>2, <1>4, <1>5, <1>6 DEF CleanReply
<1>8. R \in Replies' BY <1>2 DEF Replies
<1> QED BY <1>7, <1>8

\* The last part concludes the request with the whole reply, or with an error.
LEMMA TakeLastClean ==
  ASSUME TypeOK, CleanInv, TakeLastPart
  PROVE  CleanInv' /\ ValueIsTheReply'
<1>1. PICK m \in Modules : /\ Take(m) /\ IsPart(Head(out[m])) /\ Head(out[m]).i = Head(out[m]).of.size
                            /\ \E size \in Announced(Append(collected, Head(out[m]))) :
                                 Reassemble(Append(collected, Head(out[m])), size)
  BY DEF TakeLastPart
<1> DEFINE f == Head(out[m])
           c == Append(collected, f)
<1>2. pc' = "open" /\ current' = current /\ clean' = clean /\ pc = "reply"
  BY <1>1, ConcludeOpen DEF TakeLastPart
<1>3. CleanInv' BY <1>2 DEF CleanInv
<1>4. ASSUME clean, outcome'.status = "value"
      PROVE  /\ outcome'.value # <<>>
             /\ outcome'.value[1].of.n = current.n
             /\ outcome'.value = AllParts(outcome'.value[1].of)
  <2>1. PICK R \in Replies :
          f.of = R /\ c \in Seq(Parts) /\ c # <<>> /\ Collected(c, R) /\ LastOf(c) = f.i
    BY <1>1, <1>2, <1>4, TakenPart
  <2>2. PICK size \in Announced(c) : Reassemble(c, size) BY <1>1
  <2>3. f.i = f.of.size BY <1>1
  <2> HIDE DEF c, f
  <2>4. R \in Messages /\ R.n = current.n /\ R.size \in Nat \ {0} BY FrameKinds DEF Replies
  <2>5. c[1].i = 1 /\ c[1].of = R
    <3>1. 1 \in 1 .. Len(c)
      <4>1. Len(c) \in Nat \ {0} BY <2>1, EmptySeq
      <4> QED BY <4>1
    <3> QED BY <2>1, <3>1 DEF Collected
  <2>6. size = R.size BY <2>2, <2>5 DEF Announced
  <2>7. ~(Len(c) < R.size) /\ outcome'.value = SubSeq(c, 1, R.size)
    <3>1. Len(c) < R.size => outcome'.status = "error" BY <2>2, <2>6 DEF Reassemble, Conclude
    <3>2. ~(Len(c) < R.size) => outcome'.value = SubSeq(c, 1, R.size)
      BY <2>2, <2>6 DEF Reassemble, Conclude
    <3> QED BY <3>1, <3>2, <1>4
  <2>8. outcome'.value = AllParts(R) BY <2>1, <2>3, <2>4, <2>7, WholeReply
  <2>9. 1 \in 1 .. R.size BY <2>4
  <2>10. AllParts(R) # <<>> /\ AllParts(R)[1].of = R
    <3>1. Len(AllParts(R)) = R.size /\ AllParts(R)[1] = Part(R, 1) BY <2>4, <2>9, AllPartsType
    <3>2. Len(AllParts(R)) # 0 BY <3>1, <2>4
    <3> QED BY <3>1, <3>2, <2>4, FrameKinds
  <2> QED BY <2>4, <2>8, <2>10
<1> QED BY <1>2, <1>3, <1>4 DEF ValueIsTheReply

\* What a step of the keepalive, of the clock or of the bus leaves of the request.
LEMMA OtherStepsClean ==
  ASSUME TypeOK, IInv, CleanInv, [Next]_vars,
         ~Ask, ~SendPart, ~TakeAck, ~TakePart, ~TakeLastPart
  PROVE  CleanInv'
<1>0. mod \in Modules BY DEF TypeOK
<1>a. ASSUME pc' \notin {"sending", "ack", "reply"} PROVE CleanInv' BY <1>a DEF CleanInv
<1>b. ASSUME UNCHANGED <<pc, mod, current, next, collected, partial, out>>, clean' => clean PROVE CleanInv'
  BY <1>0, <1>b, CleanKept
<1>1. ASSUME NEW m \in Modules, Open(m) PROVE CleanInv' BY <1>1, <1>a DEF Open
<1>2. CASE Propose \/ TakeSetup \/ TakeParams \/ OpenFails \/ Close \/ Disconnect \/ SendFails \/ Timeout
  BY <1>2, <1>a DEF Propose, TakeSetup, TakeParams, OpenFails, GiveUp, Close, Disconnect, SendFails,
    Timeout, Conclude
<1>3. CASE DropFrame
  <2>1. PICK m \in Modules : Take(m) /\ ~Wanted(m, Head(out[m])) BY <1>3 DEF DropFrame
  <2>2. /\ out[m] # <<>> /\ out' = [out EXCEPT ![m] = Tail(@)]
        /\ UNCHANGED <<pc, mod, current, next, collected, partial, clean>>
    BY <1>3, <2>1 DEF DropFrame, Take
  <2>3. pc # "reply" \/ ~IsPart(Head(out[m])) BY <2>1 DEF Wanted
  <2> QED BY <2>2, <2>3, FrameGoes
<1>4. CASE Tick BY <1>4, <1>b DEF Tick, moduleVars
<1>5. CASE StartKeepalive \/ KeepaliveWake \/ KeepaliveFails
  BY <1>5, <1>b DEF StartKeepalive, KeepaliveWake, KeepaliveFails, testerVars, moduleVars
<1>6. CASE KeepaliveSend BY <1>6, <1>0, EchoComes DEF KeepaliveSend, testerVars
<1>7. ASSUME NEW m \in Modules, OrphanSends(m) PROVE CleanInv'
  BY <1>7, EchoComes DEF OrphanSends, testerVars
<1>8. ASSUME NEW m \in Modules, PassBy(m) PROVE CleanInv'
  <2>1. pc = "idle" BY <1>8 DEF PassBy, IInv, ReaderFollowsChannel
  <2> QED BY <1>8, <2>1, <1>a DEF PassBy, testerVars
<1>9. ASSUME NEW m \in Modules, LoseReply(m) PROVE CleanInv'
  <2>1. clean' => ~IsPart(Head(out[m])) \/ Head(out[m]).i # 1 BY <1>9 DEF LoseReply
  <2>2. CASE ~clean' BY <2>2 DEF CleanInv
  <2>3. CASE clean'
    BY <1>9, <2>1, <2>3, FrameGoes DEF LoseReply, testerVars
  <2> QED BY <2>2, <2>3
<1>10. CASE UNCHANGED vars BY <1>10, <1>b DEF vars, testerVars, moduleVars
<1> QED BY <1>1, <1>2, <1>3, <1>4, <1>5, <1>6, <1>7, <1>8, <1>9, <1>10
  DEF Next, Tester, Thread, Receive, Expire, Bus

\* A value stays what it was concluded as, until the next request or channel.
LEMMA OtherStepsValue ==
  ASSUME RequestShape, ValueIsTheReply, [Next]_vars, ~TakeLastPart
  PROVE  ValueIsTheReply'
<1>a. ASSUME outcome'.status # "value" PROVE ValueIsTheReply' BY <1>a DEF ValueIsTheReply
<1>b. ASSUME UNCHANGED <<outcome, current>>, clean' => clean PROVE ValueIsTheReply'
  BY <1>b DEF ValueIsTheReply
<1>c. ASSUME UNCHANGED <<outcome, current>>, pc \notin {"open", "joining", "idle"} PROVE ValueIsTheReply'
  BY <1>c, <1>a DEF RequestShape
<1>d. ASSUME NEW m, NEW f, Send(m, f) PROVE clean' => clean BY <1>d DEF Send
<1>1. ASSUME NEW m \in Modules, Open(m) PROVE ValueIsTheReply'
  BY <1>1, <1>a DEF Open, Nothing
<1>2. CASE Ask BY <1>2, <1>a DEF Ask, Nothing
<1>3. CASE SendFails \/ Timeout BY <1>3, <1>a DEF SendFails, Timeout, Conclude
<1>4. CASE Propose \/ SendPart \/ TakeSetup \/ TakeParams \/ TakeAck \/ TakePart
  BY <1>4, <1>c DEF Propose, SendPart, TakeSetup, TakeParams, TakeAck, TakePart
<1>5. CASE DropFrame \/ Tick \/ OpenFails \/ Close
  BY <1>5, <1>b DEF DropFrame, Tick, OpenFails, Close
<1>6. CASE Disconnect BY <1>6, <1>b, <1>d DEF Disconnect
<1>7. CASE StartKeepalive \/ KeepaliveWake \/ KeepaliveFails
  BY <1>7, <1>b DEF StartKeepalive, KeepaliveWake, KeepaliveFails, testerVars
<1>8. CASE KeepaliveSend BY <1>8, <1>b, <1>d DEF KeepaliveSend, testerVars
<1>9. ASSUME NEW m \in Modules, OrphanSends(m) PROVE ValueIsTheReply'
  BY <1>9, <1>b, <1>d DEF OrphanSends, testerVars
<1>10. ASSUME NEW m \in Modules, Bus(m) PROVE ValueIsTheReply'
  <2>1. CASE PassBy(m) BY <2>1, <1>b DEF PassBy, testerVars
  <2>2. CASE LoseReply(m)
    <3>1. clean' => clean BY <2>2 DEF LoseReply
    <3> QED BY <2>2, <3>1, <1>b DEF LoseReply, testerVars
  <2> QED BY <1>10, <2>1, <2>2 DEF Bus
<1>11. CASE UNCHANGED vars BY <1>11, <1>b DEF vars, testerVars
<1> QED BY <1>1, <1>2, <1>3, <1>4, <1>5, <1>6, <1>7, <1>8, <1>9, <1>10, <1>11
  DEF Next, Tester, Thread, Receive, Expire

LEMMA InitReply == Init => ReplyInv
<1> SUFFICES ASSUME Init PROVE ReplyInv OBVIOUS
<1>1. TypeOK BY InitType
<1>2. RequestShape BY DEF Init, RequestShape, Nothing
<1>3. CleanInv BY DEF Init, CleanInv
<1>4. ValueIsTheReply BY DEF Init, ValueIsTheReply
<1> QED BY <1>1, <1>2, <1>3, <1>4 DEF ReplyInv

LEMMA StepReply == ReplyInv /\ IInv /\ [Next]_vars => ReplyInv'
<1> SUFFICES ASSUME ReplyInv, IInv, [Next]_vars PROVE ReplyInv' OBVIOUS
<1>1. TypeOK /\ RequestShape /\ CleanInv /\ ValueIsTheReply BY DEF ReplyInv
<1>2. TypeOK' BY <1>1, StepType
<1>3. RequestShape' BY <1>1, ShapeStep
<1>4. CleanInv'
  BY <1>1, AskClean, SendPartClean, TakeAckClean, TakePartClean, TakeLastClean, OtherStepsClean
<1>5. ValueIsTheReply' BY <1>1, TakeLastClean, OtherStepsValue
<1> QED BY <1>2, <1>3, <1>4, <1>5 DEF ReplyInv

\* If nothing was on its way when a request was made, and no first part and no part of the
\* request is lost, then a value is the whole reply to that request: whatever the lengths, the
\* other losses, the keepalives in between and the modules that talk.
THEOREM ReplyTheorem == Spec => []ValueIsTheReply
<1>1. Spec => []ReplyInv BY InitReply, StepReply, Inductive, PTL DEF Spec
<1>2. ReplyInv => ValueIsTheReply BY DEF ReplyInv
<1> QED BY <1>1, <1>2, PTL
=============================================================================
