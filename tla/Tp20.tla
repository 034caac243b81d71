-------------------------------- MODULE Tp20 --------------------------------
(***************************************************************************)
(* The tester's side of a TP2.0 conversation, VW's own transport           *)
(* (src/src/carpi/core/transport/tp20.py), with its keepalive thread, and  *)
(* the modules it talks to (src/src/carpi/sim/tp20.py; a real module may   *)
(* also refuse a channel, not negotiate, or stay silent).                  *)
(*                                                                         *)
(* One channel is open at a time, but every channel receives on the same   *)
(* identifier, 0x300: frames of a module whose channel was closed and that *)
(* are still on their way are not told from those of the next one. Frames  *)
(* of one module stay in order. A message is sent in parts of one frame;   *)
(* the first one announces how many there are, and no part says which      *)
(* message it is of: that is kept here to state what should not be mixed.  *)
(* Sequence numbers are sent and never compared, on either side: left out. *)
(***************************************************************************)
EXTENDS Integers, Sequences, SequencesExt

CONSTANTS
  Modules,       \* modules that a channel may be opened to
  RequestParts,  \* how many frames a request may take
  ReplyParts,    \* how many frames a reply may take
  Kept,          \* those that a command keeps the channel of alive ("vag blocks")
  Patience,      \* a timeout, in ticks
  MaxOpens,      \* bound: channels opened
  MaxRequests,   \* bound: requests made
  MaxLosses      \* bound: frames lost on the bus

ASSUME Tp20Assumption ==
  /\ Kept \subseteq Modules
  /\ RequestParts \subseteq Nat \ {0} /\ RequestParts # {}
  /\ ReplyParts \subseteq Nat \ {0} /\ ReplyParts # {}
  /\ Patience \in Nat /\ MaxOpens \in Nat /\ MaxRequests \in Nat /\ MaxLosses \in Nat

\* A message of `size' parts: the request n, or the reply to it (n = 0: to
\* something that was never sent).
Messages == [n : Nat, size : Nat \ {0}]
Signals  == {"setup", "setupOk", "setupNo", "params", "paramsOk", "test", "ack", "disconnect"}
Parts    == [of : Messages, i : Nat \ {0}]
Frames   == [signal : Signals] \cup Parts

VARIABLES
  pc,        \* what the tester is at; "ack" and "reply" are the waits of request
  mod,       \* the module of its channel
  readers,   \* listeners attached to the link
  left,      \* ticks to the deadline
  current,   \* the request made last
  next,      \* the part of it to send next
  collected, \* parts of the reply
  outcome,   \* of the request: its status and the parts of a value
  keepalive, \* the thread: "none", "waiting", "sending" or "ended"
  orphans,   \* modules whose keepalive thread outlived the join of close
  partial,   \* the request parts that each module has
  out,       \* frames from each that are in the reader or on their way to it
  parted,    \* history: modules that the last thing sent to was DISCONNECT
  opens,     \* bound: channels opened so far
  losses,    \* bound: frames lost so far
  clean      \* history: nothing was on its way when the current request was
             \* made, and no first part or request part is lost since

testerVars == <<pc, mod, readers, left, current, next, collected, outcome, opens>>
threadVars == <<keepalive, orphans>>
moduleVars == <<partial, out, parted>>
vars == <<testerVars, threadVars, moduleVars, losses, clean>>

Waits  == {"setup", "params", "ack", "reply"}
Phases == Waits \cup {"idle", "open", "proposing", "sending", "joining"}

TypeOK ==
  /\ pc \in Phases /\ mod \in Modules
  /\ readers \in Int
  /\ left \in 0 .. Patience
  /\ current \in Messages /\ next \in Nat \ {0}
  /\ collected \in Seq(Parts)
  /\ outcome \in [status : {"none", "value", "silence", "error"}, value : Seq(Parts)]
  /\ keepalive \in {"none", "waiting", "sending", "ended"}
  /\ orphans \subseteq Modules
  /\ out \in [Modules -> Seq(Frames)] /\ partial \in [Modules -> Seq(Parts)]
  /\ parted \subseteq Modules
  /\ opens \in Nat /\ losses \in Nat /\ clean \in BOOLEAN

Nothing == [status |-> "none", value |-> <<>>]

Init ==
  /\ pc = "idle" /\ mod \in Modules /\ readers = 0 /\ left = 0
  /\ current = [n |-> 0, size |-> 1] /\ next = 1 /\ collected = <<>> /\ outcome = Nothing
  /\ keepalive = "none" /\ orphans = {}
  /\ out = [m \in Modules |-> <<>>] /\ partial = out /\ parted = {}
  /\ opens = 0 /\ losses = 0 /\ clean = FALSE

Signal(s) == [signal |-> s]
Part(message, i) == [of |-> message, i |-> i]
IsPart(f) == "of" \in DOMAIN f
IsSignal(f, s) == ~IsPart(f) /\ f.signal = s
AllParts(message) == [i \in 1 .. message.size |-> Part(message, i)]

-----------------------------------------------------------------------------
(***************************************************************************)
(* A module: Tp20Responder and its _Channel. It takes what it has          *)
(* collected up to a last part for the request. The time that a frame, the *)
(* module and its answer take is all put into the way back.                *)
(***************************************************************************)
Emit(m, frames) == out' = [out EXCEPT ![m] = @ \o frames]

\* The replies to a request: none, or one of some number of parts.
Handle(n) == {<<>>} \cup {AllParts([n |-> n, size |-> s]) : s \in ReplyParts}

\* handle gets the request that was sent, or bytes of several.
Understood(parts) == IF parts = AllParts(parts[1].of) THEN parts[1].of.n ELSE 0

\* _channel_setup makes a new channel: half a request is forgotten. A module
\* that is not fitted is silent.
FeedSetup(m) ==
  \/ /\ \E s \in {"setupOk", "setupNo"} : Emit(m, <<Signal(s)>>)
     /\ partial' = [partial EXCEPT ![m] = <<>>]
  \/ UNCHANGED <<out, partial>>

FeedPart(m, f) ==
  LET parts == Append(partial[m], f)
  IN IF f.i = f.of.size
     THEN /\ \E reply \in Handle(Understood(parts)) : Emit(m, <<Signal("ack")>> \o reply)
          /\ partial' = [partial EXCEPT ![m] = <<>>]
     ELSE partial' = [partial EXCEPT ![m] = parts] /\ UNCHANGED out

\* The channel test is echoed; parameters are answered, or not; the end of
\* the channel is ignored.
Feed(m, f) ==
  IF IsPart(f) THEN FeedPart(m, f)
  ELSE CASE f.signal = "setup"  -> FeedSetup(m)
         [] f.signal = "params" -> (Emit(m, <<Signal("paramsOk")>>) \/ UNCHANGED out) /\ UNCHANGED partial
         [] f.signal = "test"   -> Emit(m, <<Signal("test")>>) /\ UNCHANGED partial
         [] f.signal = "disconnect" -> UNCHANGED <<out, partial>>

\* A frame that the tester sends reaches the module or is lost.
Send(m, f) ==
  /\ \/ Feed(m, f) /\ UNCHANGED <<losses, clean>>
     \/ /\ losses < MaxLosses /\ losses' = losses + 1
        /\ clean' = (clean /\ ~IsPart(f))
        /\ UNCHANGED <<partial, out>>
  /\ parted' = IF IsSignal(f, "disconnect") THEN parted \cup {m} ELSE parted \ {m}

-----------------------------------------------------------------------------
(***************************************************************************)
(* open_tp20_channel: channel setup, then negotiation of parameters. What  *)
(* a module says of its timing is not kept; without an answer to the       *)
(* second the channel is opened with defaults.                             *)
(***************************************************************************)
Open(m) ==
  /\ pc = "idle" /\ opens < MaxOpens
  /\ mod' = m /\ opens' = opens + 1
  /\ readers' = readers + 1
  /\ Send(m, Signal("setup"))
  /\ pc' = "setup" /\ left' = Patience /\ outcome' = Nothing
  /\ keepalive' = "none"
  /\ UNCHANGED <<current, next, collected, orphans>>

\* Mutant: the exception path leaves the reader attached.
LeaveReader ==
  /\ pc' = "idle"
  /\ UNCHANGED readers

\* The exception path: the reader is detached and the error goes to the caller.
GiveUp ==
  /\ pc' = "idle"
  /\ readers' = readers - 1

\* The next frame of m is taken from the reader, before the deadline. A setup
\* reply has an identifier of its own for each module; what comes after it is
\* all on 0x300.
Take(m) ==
  /\ left > 0
  /\ out[m] # <<>> /\ out' = [out EXCEPT ![m] = Tail(@)]
  /\ UNCHANGED <<partial, parted>>

\* Silence, a refusal, a reply that is too short, or an error of the bus when
\* the parameters are sent.
OpenFails ==
  /\ \/ pc = "setup" /\ left = 0 /\ UNCHANGED <<moduleVars, losses>>
     \/ pc = "setup" /\ Take(mod) /\ IsSignal(Head(out[mod]), "setupNo") /\ UNCHANGED losses
     \/ /\ pc = "proposing" /\ losses < MaxLosses
        /\ losses' = losses + 1 /\ UNCHANGED moduleVars
  /\ GiveUp /\ left' = 0
  /\ UNCHANGED <<mod, current, next, collected, outcome, opens, threadVars, clean>>

TakeSetup ==
  /\ pc = "setup" /\ Take(mod) /\ IsSignal(Head(out[mod]), "setupOk")
  /\ pc' = "proposing" /\ left' = 0
  /\ UNCHANGED <<mod, readers, current, next, collected, outcome, opens, threadVars, losses, clean>>

Propose ==
  /\ pc = "proposing"
  /\ Send(mod, Signal("params"))
  /\ pc' = "params" /\ left' = Patience
  /\ UNCHANGED <<mod, readers, current, next, collected, outcome, opens, threadVars>>

\* An answer to it, from whoever sends one, or none.
TakeParams ==
  /\ pc = "params"
  /\ \/ \E m \in Modules : Take(m) /\ IsSignal(Head(out[m]), "paramsOk")
     \/ left = 0 /\ UNCHANGED moduleVars
  /\ pc' = "open" /\ left' = 0
  /\ UNCHANGED <<mod, readers, current, next, collected, outcome, opens, threadVars, losses, clean>>

-----------------------------------------------------------------------------
(***************************************************************************)
(* request: what is in the reader is discarded, the parts are sent, then   *)
(* the acknowledgement and the reply are waited for. A caller may go on    *)
(* with the next request after an error.                                   *)
(***************************************************************************)
\* Mutant: the reader is not drained.
NotDrained(transit) == out

\* What is left of the frames: those that have not come in yet.
Drained(transit) == transit

\* No part and no acknowledgement is on its way, and no module has half a
\* request. What is in the reader does not count.
Quiet(transit) == \A m \in Modules :
  /\ partial[m] = <<>>
  /\ \A f \in ToSet(transit[m]) : ~IsPart(f) /\ f.signal # "ack"

Ask ==
  /\ pc = "open" /\ current.n < MaxRequests
  /\ \E size \in RequestParts : current' = [n |-> current.n + 1, size |-> size]
  /\ \E k \in [Modules -> UNION {0 .. Len(out[m]) : m \in Modules}] :
       LET transit == [m \in Modules |-> SubSeq(out[m], k[m] + 1, Len(out[m]))]
       IN out' = Drained(transit) /\ clean' = Quiet(transit)
  /\ collected' = <<>> /\ outcome' = Nothing
  /\ pc' = "sending"
  /\ UNCHANGED <<mod, readers, left, next, opens, threadVars, partial, parted, losses>>

\* _send_message: frames are paced, so others come in between.
SendPart ==
  /\ pc = "sending"
  /\ Send(mod, Part(current, next))
  /\ IF next = current.size
     THEN pc' = "ack" /\ left' = Patience /\ next' = 1
     ELSE next' = next + 1 /\ UNCHANGED <<pc, left>>
  /\ UNCHANGED <<mod, readers, current, collected, outcome, opens, threadVars>>

Conclude(status, value) ==
  /\ outcome' = [status |-> status, value |-> value]
  /\ pc' = "open" /\ collected' = <<>> /\ left' = 0 /\ next' = 1

\* The bus refuses the frame, a part of the request or the acknowledgement of a
\* part of the reply: Tp20Error, with the parts before it sent.
SendFails ==
  /\ \/ pc = "sending" /\ UNCHANGED moduleVars
     \/ pc = "reply" /\ \E m \in Modules : Take(m) /\ IsPart(Head(out[m]))
  /\ losses < MaxLosses /\ losses' = losses + 1
  /\ Conclude("error", <<>>)
  /\ UNCHANGED <<mod, readers, current, opens, threadVars, clean>>

\* _await_ack.
TakeAck ==
  /\ pc = "ack"
  /\ \E m \in Modules : Take(m) /\ IsSignal(Head(out[m]), "ack")
  /\ pc' = "reply" /\ left' = Patience
  /\ UNCHANGED <<mod, readers, current, next, collected, outcome, opens, threadVars, losses, clean>>

\* _receive_message: a part, which puts off the deadline.
TakePart ==
  /\ pc = "reply"
  /\ \E m \in Modules :
       LET f == Head(out[m])
       IN Take(m) /\ IsPart(f) /\ f.i # f.of.size /\ collected' = Append(collected, f)
  /\ left' = Patience
  /\ UNCHANGED <<pc, mod, readers, current, next, outcome, opens, threadVars, losses, clean>>

\* What the first part announces; any part may be taken for a first one, and
\* what it announces is then whatever its payload spells.
Announced(parts) == IF parts[1].i = 1 THEN {parts[1].of.size} ELSE 1 .. 1 + Len(parts)

\* Shorter than announced: an error. What is over is cut off.
Reassemble(parts, size) ==
  IF Len(parts) < size THEN Conclude("error", <<>>) ELSE Conclude("value", SubSeq(parts, 1, size))

TakeLastPart ==
  /\ pc = "reply"
  /\ \E m \in Modules :
       LET f == Head(out[m])
           parts == Append(collected, f)
       IN /\ Take(m) /\ IsPart(f) /\ f.i = f.of.size
          /\ \E size \in Announced(parts) : Reassemble(parts, size)
  /\ UNCHANGED <<mod, readers, current, opens, threadVars, losses, clean>>

\* Mutant: any frame puts off the deadline.
DeadlinePutOff == Patience

\* A frame that is not waited for is dropped, the deadline stays.
DeadlineStays == left

\* What the waits of _await_id, _await_ack and _receive_message look for.
Wanted(m, f) ==
  CASE pc = "setup"  -> m = mod /\ (IsSignal(f, "setupOk") \/ IsSignal(f, "setupNo"))
    [] pc = "params" -> IsSignal(f, "paramsOk")
    [] pc = "ack"    -> IsSignal(f, "ack")
    [] pc = "reply"  -> IsPart(f)

DropFrame ==
  /\ pc \in Waits
  /\ \E m \in Modules : Take(m) /\ ~Wanted(m, Head(out[m]))
  /\ left' = DeadlineStays
  /\ UNCHANGED <<pc, mod, readers, current, next, collected, outcome, opens, threadVars, losses, clean>>

Tick ==
  /\ pc \in Waits /\ left > 0
  /\ left' = left - 1
  /\ UNCHANGED <<pc, mod, readers, current, next, collected, outcome, opens, threadVars,
                 moduleVars, losses, clean>>

\* NoResponse.
Timeout ==
  /\ pc \in {"ack", "reply"} /\ left = 0
  /\ Conclude("silence", <<>>)
  /\ UNCHANGED <<mod, readers, current, opens, threadVars, moduleVars, losses, clean>>

-----------------------------------------------------------------------------
(***************************************************************************)
(* The keepalive thread, and close, which waits for it.                    *)
(***************************************************************************)
StartKeepalive ==
  /\ pc = "open" /\ keepalive = "none" /\ mod \in Kept
  /\ keepalive' = "waiting"
  /\ UNCHANGED <<testerVars, orphans, moduleVars, losses, clean>>

\* _keepalive_stop is set when close begins.
stop == pc \in {"joining", "idle"}

\* The interval is over, or the event is set. (One test frame at a time on
\* its way: the interval is longer than a frame.)
KeepaliveWake ==
  /\ keepalive = "waiting"
  /\ \/ /\ ~stop /\ Signal("test") \notin ToSet(out[mod])
        /\ keepalive' = "sending"
     \/ stop /\ keepalive' = "ended"
  /\ UNCHANGED <<testerVars, orphans, moduleVars, losses, clean>>

KeepaliveSend ==
  /\ keepalive = "sending"
  /\ keepalive' = "waiting" /\ Send(mod, Signal("test"))
  /\ UNCHANGED <<testerVars, orphans>>

\* An error of the bus ends the thread.
KeepaliveFails ==
  /\ keepalive = "sending" /\ losses < MaxLosses
  /\ keepalive' = "ended" /\ losses' = losses + 1
  /\ UNCHANGED <<testerVars, orphans, moduleVars, clean>>

\* A thread that close did not wait for: its frame goes out, then it ends.
OrphanSends(m) ==
  /\ m \in orphans
  /\ orphans' = orphans \ {m} /\ Send(m, Signal("test"))
  /\ UNCHANGED <<testerVars, keepalive>>

Close ==
  /\ pc = "open"
  /\ pc' = "joining"
  /\ UNCHANGED <<mod, readers, left, current, next, collected, outcome, opens, keepalive,
                 orphans, moduleVars, losses, clean>>

\* Mutant: close does not wait for the thread.
NoJoin == UNCHANGED <<keepalive, orphans>>

\* join(timeout=1.0): the thread has ended, or hangs in a send.
Join ==
  /\ keepalive' = "none"
  /\ \/ keepalive \in {"none", "ended"} /\ UNCHANGED orphans
     \/ keepalive = "sending" /\ orphans' = orphans \cup {mod}

\* The module is told, or the bus refuses; the reader is detached in any case.
Disconnect ==
  /\ pc = "joining"
  /\ Join
  /\ \/ Send(mod, Signal("disconnect"))
     \/ losses < MaxLosses /\ losses' = losses + 1 /\ UNCHANGED <<moduleVars, clean>>
  /\ GiveUp
  /\ UNCHANGED <<mod, left, current, next, collected, outcome, opens>>

-----------------------------------------------------------------------------
(***************************************************************************)
(* The bus: without a reader a frame goes by, and any may be lost.         *)
(***************************************************************************)
PassBy(m) ==
  /\ readers = 0 /\ out[m] # <<>>
  /\ out' = [out EXCEPT ![m] = Tail(@)]
  /\ UNCHANGED <<testerVars, threadVars, partial, parted, losses, clean>>

LoseReply(m) ==
  /\ out[m] # <<>> /\ losses < MaxLosses
  /\ losses' = losses + 1
  /\ clean' = (clean /\ ~(IsPart(Head(out[m])) /\ Head(out[m]).i = 1))
  /\ out' = [out EXCEPT ![m] = Tail(@)]
  /\ UNCHANGED <<testerVars, threadVars, partial, parted>>

-----------------------------------------------------------------------------
Receive == TakeSetup \/ TakeParams \/ TakeAck \/ TakePart \/ TakeLastPart \/ DropFrame
Expire  == OpenFails \/ Timeout
Tester  == (\E m \in Modules : Open(m)) \/ Propose \/ Ask \/ SendPart \/ SendFails \/ Receive \/ Tick \/ Expire
           \/ Close \/ Disconnect
Thread  == StartKeepalive \/ KeepaliveWake \/ KeepaliveSend \/ KeepaliveFails
           \/ \E m \in Modules : OrphanSends(m)
Bus(m)  == PassBy(m) \/ LoseReply(m)

Next == Tester \/ Thread \/ \E m \in Modules : Bus(m)

Spec == Init /\ [][Next]_vars

(***************************************************************************)
(* The tester's thread runs and its clock advances; a frame it has is      *)
(* taken. Nothing is assumed of the bus and of the modules. That the       *)
(* replies of the model are finite is an assumption: a module that never   *)
(* sends a last part puts off the deadline for ever.                       *)
(***************************************************************************)
FairSpec ==
  /\ Spec
  /\ WF_vars(Tick) /\ WF_vars(Expire \/ Receive) /\ WF_vars(Propose \/ SendPart)
  /\ WF_vars(Disconnect) /\ WF_vars(KeepaliveWake)

-----------------------------------------------------------------------------
(***************************************************************************)
(* Properties.                                                             *)
(***************************************************************************)
\* If nothing was on its way when a request was made (what is in the reader
\* is drained, tp20.py:244), and no first part and no part of the request is
\* lost, then a value is the whole reply to that request, however many other
\* frames are lost or come in between.
ValueIsTheReply ==
  outcome.status = "value" /\ clean =>
    /\ outcome.value # <<>>
    /\ outcome.value[1].of.n = current.n
    /\ outcome.value = AllParts(outcome.value[1].of)

\* One reader while a channel is negotiated or open, none when it is not:
\* "a leaked listener keeps receiving frames from whatever runs next"
\* (tp20.py:151), on every path out of open_tp20_channel and of close.
ReaderFollowsChannel == readers = IF pc = "idle" THEN 0 ELSE 1

\* Nothing is sent to a module after its channel is closed, except the one
\* frame of a keepalive that hung in a send for the whole of close's join.
DisconnectIsLast == [][\A m \in parted \ parted' :
  m \in orphans \/ (pc = "idle" /\ pc' = "setup" /\ mod' = m)]_vars

\* Every wait ends, although the keepalive's echoes come in for ever: only a
\* part of the reply puts off the deadline.
EveryWaitEnds == pc \notin {"idle", "open"} ~> pc \in {"idle", "open"}
=============================================================================
