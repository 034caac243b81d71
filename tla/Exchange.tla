------------------------------ MODULE Exchange ------------------------------
(***************************************************************************)
(* One diagnostic request after the other on the ISO-TP channel of one     *)
(* module: IsoTpChannel.request and the _exchange of the OBD-II and UDS     *)
(* clients (src/src/carpi/core/transport/canbus.py, core/protocol). The    *)
(* KWP2000 client has the same _exchange over a TP2.0 channel, which is    *)
(* not this one.                                                           *)
(*                                                                         *)
(* The module is outside the code: it takes requests in order, may miss    *)
(* one, may stay silent, and takes its time: an answer may come after the  *)
(* client has given up. A reply carries no request number, only a service  *)
(* and, for some services, an identifier. Replies are numbered here to     *)
(* tell which request they answer; the code cannot see it.                 *)
(***************************************************************************)
EXTENDS Integers, Sequences

CONSTANTS
  Asks,         \* what a caller asks for: a service and an identifier
  Services,     \* the services that these belong to
  Service,      \* the service of each
  Echoed,       \* those whose caller compares the identifier in the reply
  Lists,        \* those whose caller takes "unsupported" as an empty list
  Retries,      \* how often 0x78 is waited out: 1 (OBD-II), 2 (UDS, KWP2000)
  MaxRequests,  \* bound: requests made
  MaxOwed,      \* requests that a module keeps while it is busy
  MaxQueue      \* bound: replies received and not taken

ASSUME ExchangeAssumption ==
  /\ Asks # {} /\ Service \in [Asks -> Services]
  /\ Echoed \subseteq Asks /\ Lists \subseteq Asks
  /\ Retries \in Nat /\ MaxRequests \in Nat /\ MaxOwed \in Nat /\ MaxQueue \in Nat

Requests == [n : Nat, ask : Asks]
Kinds    == {"value", "malformed", "unsupported", "refused", "pending"}
Replies  == [to : Requests, kind : Kinds]
Statuses == {"none", "value", "nothing", "refused", "error", "silence"}

VARIABLES
  phase,     \* the client is "idle" or "waiting" in recv
  current,   \* the request it waits for, or made last
  attempt,   \* _exchange's attempt
  outcome,   \* what the caller gets, and the request that it really answers
  queue,     \* replies received by the stack and not taken
  owed,      \* requests the module has and has not dealt with
  quiet,     \* history: the last request sent when the module owed nothing
  timedOut,  \* history: a request has timed out
  pended     \* history: the module has sent 0x78

clientVars  == <<phase, current, attempt, outcome>>
lineVars    == <<queue, owed>>
historyVars == <<quiet, timedOut, pended>>
vars == <<clientVars, lineVars, historyVars>>

TypeOK ==
  /\ phase \in {"idle", "waiting"}
  /\ current \in Requests
  /\ attempt \in Nat
  /\ outcome \in [status : Statuses, to : Requests]
  /\ queue \in Seq(Replies)
  /\ owed \in Seq(Requests)
  /\ quiet \in Nat
  /\ timedOut \in BOOLEAN /\ pended \in BOOLEAN

Init ==
  /\ phase = "idle"
  /\ current = [n |-> 0, ask |-> CHOOSE a \in Asks : TRUE]
  /\ attempt = 0
  /\ outcome = [status |-> "none", to |-> current]
  /\ queue = <<>> /\ owed = <<>>
  /\ quiet = 0 /\ timedOut = FALSE /\ pended = FALSE

-----------------------------------------------------------------------------
(***************************************************************************)
(* IsoTpChannel.request: what is still queued is discarded, then the       *)
(* request is sent.                                                        *)
(***************************************************************************)
\* Mutant: the receive queue is not cleared.
NotCleared == queue

Cleared == <<>>

\* Mutant: a request goes out twice, for modules that miss the first one.
TakenTwice(r) == {owed} \cup
  (IF Len(owed) < MaxOwed THEN {Append(owed, r), owed \o <<r, r>>} ELSE {})

\* The module takes the request, or misses it.
Taken(r) == {owed} \cup (IF Len(owed) < MaxOwed THEN {Append(owed, r)} ELSE {})

Send(r) == queue' = Cleared /\ owed' \in Taken(r)

Ask(a) ==
  /\ phase = "idle" /\ current.n < MaxRequests
  /\ LET r == [n |-> current.n + 1, ask |-> a]
     IN /\ current' = r
        /\ outcome' = [status |-> "none", to |-> r]
        /\ quiet' = IF owed = <<>> THEN r.n ELSE quiet
        /\ Send(r)
  /\ phase' = "waiting" /\ attempt' = 0
  /\ UNCHANGED <<timedOut, pended>>

-----------------------------------------------------------------------------
(***************************************************************************)
(* The module.                                                             *)
(***************************************************************************)
Reply(kind) ==
  /\ owed # <<>> /\ Len(queue) < MaxQueue
  /\ queue' = Append(queue, [to |-> Head(owed), kind |-> kind])

Answer ==
  /\ \E kind \in Kinds \ {"pending"} : Reply(kind)
  /\ owed' = Tail(owed)
  /\ UNCHANGED <<clientVars, historyVars>>

\* 0x78: it is still at it.
Pending ==
  /\ Reply("pending")
  /\ pended' = TRUE
  /\ UNCHANGED <<clientVars, owed, quiet, timedOut>>

Ignore ==
  /\ owed # <<>>
  /\ owed' = Tail(owed)
  /\ UNCHANGED <<clientVars, queue, historyVars>>

-----------------------------------------------------------------------------
(***************************************************************************)
(* _exchange, and the caller's comparison of the identifier.               *)
(***************************************************************************)
Conclude(status, to) ==
  /\ phase' = "idle"
  /\ outcome' = [status |-> status, to |-> to]
  /\ UNCHANGED <<current, attempt>>

WaitsAgain(m) == m.kind = "pending" /\ attempt < Retries

\* Mutant: the attempt is started anew with every reply.
NotCounted == 0

Counted == attempt + 1

\* 0x78: "waiting again" sends the request again.
AskAgain ==
  /\ phase = "waiting" /\ queue # <<>>
  /\ WaitsAgain(Head(queue))
  /\ Send(current)
  /\ attempt' = Counted
  /\ UNCHANGED <<phase, current, outcome, historyVars>>

\* What the caller makes of a refusal: an error, or an empty list.
Refused(kind) ==
  IF kind = "unsupported" /\ current.ask \in Lists THEN "nothing" ELSE "refused"

\* A negative response; the service it names is not compared.
TakeRefusal ==
  /\ phase = "waiting" /\ queue # <<>>
  /\ LET m == Head(queue)
     IN /\ m.kind \in {"unsupported", "refused", "pending"} /\ ~WaitsAgain(m)
        /\ Conclude(Refused(m.kind), m.to)
  /\ queue' = Tail(queue)
  /\ UNCHANGED <<owed, historyVars>>

\* The reply to `a' looks like one to the current request.
Fits(a) ==
  /\ Service[a] = Service[current.ask]
  /\ current.ask \in Echoed => a = current.ask

\* A positive response, or one that is empty, truncated or too short.
TakeAnswer ==
  /\ phase = "waiting" /\ queue # <<>>
  /\ LET m == Head(queue)
     IN /\ m.kind \in {"value", "malformed"}
        /\ Conclude(IF m.kind = "value" /\ Fits(m.to.ask) THEN "value" ELSE "error", m.to)
  /\ queue' = Tail(queue)
  /\ UNCHANGED <<owed, historyVars>>

\* recv returned nothing: NoResponse.
Timeout ==
  /\ phase = "waiting" /\ queue = <<>>
  /\ Conclude("silence", current)
  /\ timedOut' = TRUE
  /\ UNCHANGED <<lineVars, quiet, pended>>

Receive == AskAgain \/ TakeRefusal \/ TakeAnswer
Module  == Answer \/ Pending \/ Ignore

Next == (\E a \in Asks : Ask(a)) \/ Module \/ Receive \/ Timeout

Spec == Init /\ [][Next]_vars

(***************************************************************************)
(* The waiting thread is scheduled, and recv has a timeout. Nothing is     *)
(* assumed of the module.                                                  *)
(***************************************************************************)
FairSpec == Spec /\ WF_vars(Receive) /\ WF_vars(Timeout)

-----------------------------------------------------------------------------
(***************************************************************************)
(* Properties.                                                             *)
(***************************************************************************)
Answered == outcome.status \in {"value", "nothing", "refused", "error"}

\* What a caller gets is never older than the last request that was sent
\* when the module owed nothing: a pause after a timeout is enough to be back
\* in step (what clear_rx_queue is for, canbus.py:113-115).
AnswerIsSinceQuiet == Answered => outcome.to.n \in quiet .. current.n

\* As long as nothing has timed out and no module has asked for time, every
\* request gets its own answer, echo or no echo, and leaves nothing behind.
InStep == ~timedOut /\ ~pended =>
  /\ Answered => outcome.to = current
  /\ phase = "idle" => queue = <<>> /\ owed = <<>>

\* Every request comes to an end, although a module may ask for time for ever.
EveryRequestEnds == phase = "waiting" ~> phase = "idle"
=============================================================================
