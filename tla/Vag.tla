-------------------------------- MODULE Vag --------------------------------
(***************************************************************************)
(* The commands that read a car of the KWP2000 era: `carpi vag modules',   *)
(* `vag blocks' and `vag read' (src/src/carpi/cli/vag.py), with the        *)
(* requests of KwpClient (src/src/carpi/core/protocol/kwp2000.py) and the  *)
(* modules that answer them (src/src/carpi/sim/tp20.py; a real module may  *)
(* also refuse, put off or not answer any of them).                        *)
(*                                                                         *)
(* The channel below is module Tp20 with its messages taken whole: every   *)
(* module answers on the same identifier, the answers of one stay in       *)
(* order, what has come in is discarded before a request is sent, and what *)
(* comes in after that is taken for its answer, whichever request it is of.*)
(* (Tp20 drops an answer that comes before the acknowledgement of the next *)
(* request; here it may always be taken, which allows more.) A request     *)
(* that is put off (0x78) is sent again while the module still owes the    *)
(* answer it announced, so two answers may come to one request. A process  *)
(* runs one command: nothing is on its way when it starts.                 *)
(***************************************************************************)
EXTENDS Integers, Sequences

CONSTANTS
  Modules,   \* module addresses
  Groups,    \* what service 0x21 reads: measuring blocks and local identifiers
  Wanted,    \* the addresses that `vag modules' tries, in order
  Asked,     \* the groups that `vag blocks' reads, in order
  Holds,     \* the groups that each module has ...
  Locked,    \* ... and those of them that want a login first
  Tracks,    \* modules that have a list of faults
  Declines,  \* how a module may refuse a session or its identification
  Backlog    \* bound: answers of one module that are on their way

Services == {"session", "ident", "dtcs"}

\* A negative response by its code: not supported (0x11, 0x12, 0x31, 0x80),
\* locked (0x33, 0x35, 0x36), pending (0x78), or any other.
Refusals == {"unsupported", "protected", "pending", "other"}

ASSUME VagAssumption ==
  /\ Groups \cap Services = {}
  /\ Wanted \in Seq(Modules) /\ Asked \in Seq(Groups)
  /\ Holds \in [Modules -> SUBSET Groups] /\ Locked \in [Modules -> SUBSET Groups]
  /\ \A m \in Modules : Locked[m] \subseteq Holds[m]
  /\ Tracks \subseteq Modules /\ Declines \subseteq Refusals /\ Backlog \in Nat

\* A request names its service; one of 0x21 is the group it asks for.
Requests == Services \cup Groups
Service(request) == IF request \in Groups THEN "local" ELSE request

Replies == [from : Modules, to : Requests, says : {"yes"} \cup Refusals]

None == [says |-> "nothing"]

\* An entry of the listing and a block: what was read for what.
Entries == [module : Modules, ident : Replies \cup {None}, dtcs : Replies]
Blocks  == [group : Groups, reply : Replies]

VARIABLES
  cmd,      \* the command: "modules", "blocks" or "read"
  pc,       \* "open", "ask" (a request), "wait" (for its reply) or "over"
  todo,     \* modules that are still to be opened
  mod,      \* the module of the channel
  groups,   \* groups that are still to be read
  request,  \* the request that is made
  attempt,  \* how often it was put off
  ident,    \* the identification of mod
  found,    \* the listing
  blocks,   \* the measuring blocks
  report,   \* how the command ended
  air,      \* replies that are on their way from each module
  silent,   \* history: modules that no channel could be opened to
  denied    \* history: a session or an identification was refused or put off, or
            \* a fault list put off that came after all

callVars   == <<request, attempt>>
resultVars == <<ident, found, blocks>>
taskVars   == <<todo, mod, groups>>
vars == <<cmd, pc, callVars, taskVars, resultVars, report, air, silent, denied>>

Reports == {"running", "listed", "blocks", "nothing", "value", "locked", "refused", "aborted"}

TypeOK ==
  /\ cmd \in {"modules", "blocks", "read"} /\ pc \in {"open", "ask", "wait", "over"}
  /\ todo \in Seq(Modules) /\ mod \in Modules /\ groups \in Seq(Groups)
  /\ request \in Requests /\ attempt \in 0 .. 2
  /\ ident \in Replies \cup {None} /\ found \in Seq(Entries) /\ blocks \subseteq Blocks
  /\ report \in Reports
  /\ air \in [Modules -> Seq(Replies)]
  /\ silent \subseteq Modules /\ denied \in BOOLEAN

\* `vag blocks' and `vag read' are given one module; the latter one identifier.
Init ==
  /\ cmd \in {"modules", "blocks", "read"}
  /\ mod \in Modules
  /\ todo = IF cmd = "modules" THEN Wanted ELSE <<mod>>
  /\ \/ cmd = "modules" /\ groups = <<>>
     \/ cmd = "blocks" /\ groups = Asked
     \/ cmd = "read" /\ \E g \in Groups : groups = <<g>>
  /\ pc = "open" /\ request = "session" /\ attempt = 0
  /\ ident = None /\ found = <<>> /\ blocks = {} /\ report = "running"
  /\ air = [m \in Modules |-> <<>>] /\ silent = {} /\ denied = FALSE

-----------------------------------------------------------------------------
(***************************************************************************)
(* A module: SimulatedTp20Module.handle. It opens a session and identifies *)
(* itself, and refuses what it does not have; any answer may be put off.   *)
(***************************************************************************)
ReadLocal(m, g) ==
  IF g \in Locked[m] THEN {"protected"} ELSE IF g \in Holds[m] THEN {"yes"} ELSE {"unsupported"}

\* A list, or "busy"; without the service a refusal.
ReadDtcs(m) == IF m \in Tracks THEN {"yes", "other"} ELSE {"unsupported"}

Handle(m, r) == {"pending"} \cup
  CASE r \in {"session", "ident"} -> {"yes"} \cup Declines
    [] r = "dtcs"                 -> ReadDtcs(m)
    [] r \in Groups               -> ReadLocal(m, r)

-----------------------------------------------------------------------------
(***************************************************************************)
(* The course of a command. Whatever ends it, and whatever ends the work   *)
(* on a module, the channel is closed ("finally").                         *)
(***************************************************************************)
End(result) ==
  /\ pc' = "over" /\ report' = result
  /\ UNCHANGED <<callVars, taskVars>>

\* Nobody answers, the module refuses the channel, or the bus fails.
OpenFails ==
  /\ pc = "open" /\ todo # <<>>
  /\ silent' = silent \cup {Head(todo)}
  /\ IF cmd = "modules"
     THEN todo' = Tail(todo) /\ UNCHANGED <<pc, report, callVars, mod, groups>>
     ELSE End("aborted")
  /\ UNCHANGED <<cmd, resultVars, air, denied>>

\* The channel is open; start_session comes first.
Opened ==
  /\ pc = "open" /\ todo # <<>>
  /\ mod' = Head(todo) /\ todo' = Tail(todo)
  /\ pc' = "ask" /\ request' = "session" /\ attempt' = 0 /\ ident' = None
  /\ UNCHANGED <<cmd, groups, found, blocks, report, air, silent, denied>>

\* The listing is printed when every address was tried.
ShowListing ==
  /\ pc = "open" /\ todo = <<>>
  /\ End("listed")
  /\ UNCHANGED <<cmd, resultVars, air, silent, denied>>

\* What comes after a session, answered or not, and after a group.
NextGroup(read) ==
  IF groups = <<>>
  THEN End(IF read = {} THEN "nothing" ELSE "blocks")
  ELSE /\ pc' = "ask" /\ request' = Head(groups) /\ groups' = Tail(groups) /\ attempt' = 0
       /\ UNCHANGED <<todo, mod, report>>

NextRequest(r) ==
  /\ pc' = "ask" /\ request' = r /\ attempt' = 0
  /\ UNCHANGED <<taskVars, report>>

SessionOver ==
  /\ IF cmd = "modules" THEN NextRequest("ident") ELSE NextGroup({})
  /\ UNCHANGED resultVars

\* identification: what was read, or {}.
IdentOver(reply) ==
  /\ ident' = reply
  /\ NextRequest("dtcs")
  /\ UNCHANGED <<found, blocks>>

\* The entry is listed and the next module's turn has come.
Listed(reply) ==
  /\ found' = Append(found, [module |-> mod, ident |-> ident, dtcs |-> reply])
  /\ pc' = "open"
  /\ UNCHANGED <<ident, blocks, report, callVars, taskVars>>

\* An exception that nothing on the way out catches.
Abort == End("aborted") /\ UNCHANGED resultVars

\* Mutant: a fault list that fails costs the module its place, not the scan.
SkipModule == pc' = "open" /\ UNCHANGED <<resultVars, report, callVars, taskVars>>

DtcsFail == Abort

\* read_measuring_blocks skips a group, vag_read ends with a message.
GroupFails(result) ==
  /\ IF cmd = "read" THEN End(result) ELSE NextGroup(blocks)
  /\ UNCHANGED resultVars

-----------------------------------------------------------------------------
(***************************************************************************)
(* KwpClient._exchange: the request, again if it is put off, twice at most.*)
(***************************************************************************)
\* The module's answer to the request that is made.
Answer(says) == [from |-> mod, to |-> request, says |-> says]

\* What has come in from each module is discarded. The module's answer or the
\* request is lost, or it answers, or it puts the answer off and then gives it.
Ask ==
  /\ pc = "ask" /\ pc' = "wait"
  /\ \E k \in [Modules -> UNION {0 .. Len(air[m]) : m \in Modules}] :
       LET late == [m \in Modules |-> SubSeq(air[m], k[m] + 1, Len(air[m]))]
       IN \/ air' = late /\ UNCHANGED denied
          \/ \E says \in Handle(mod, request) :
               /\ air' = [late EXCEPT ![mod] = Append(@, Answer(says))]
               /\ denied' = (denied \/ (request \in {"session", "ident"} /\ says # "yes"))
          \/ \E says \in Handle(mod, request) \ {"pending"} :
               /\ air' = [late EXCEPT ![mod] = Append(Append(@, Answer("pending")), Answer(says))]
               /\ denied' = (denied \/ request \in Services)
  /\ Len(air'[mod]) <= Len(air[mod]) \/ Len(air'[mod]) <= Backlog
  /\ UNCHANGED <<cmd, callVars, taskVars, resultVars, report, silent>>

\* Mutants: how often it was put off is not counted; one that is not there
\* counts as locked.
NoCount == 0
LockedOrAbsent == {"protected", "unsupported"}

Counted == attempt + 1

PutOff(reply) == reply.says = "pending" /\ attempt < 2
Fits(reply)   == reply.says = "yes" /\ Service(reply.to) = Service(request)

\* read_measuring_block and read_local_identifier compare what is echoed.
Echoes(reply) == reply.to = request

\* KwpNegativeResponse.is_protected.
Protected == {"protected"}

\* The next reply that comes in, from any module and to any request.
Take(m) ==
  /\ pc = "wait" /\ air[m] # <<>>
  /\ air' = [air EXCEPT ![m] = Tail(@)]
  /\ UNCHANGED <<cmd, silent, denied>>

TakePending(m) ==
  /\ Take(m) /\ PutOff(Head(air[m]))
  /\ pc' = "ask" /\ attempt' = Counted
  /\ UNCHANGED <<request, taskVars, resultVars, report>>

\* A refusal, which is not asked what it refuses.
TakeRefusal(m) ==
  LET reply == Head(air[m])
  IN /\ Take(m) /\ reply.says \in Refusals /\ ~PutOff(reply)
     /\ \/ request = "session" /\ SessionOver
        \/ request = "ident" /\ IdentOver(None)
        \/ /\ request = "dtcs"
           /\ IF reply.says = "unsupported" THEN Listed(reply) ELSE DtcsFail
        \/ request \in Groups /\ GroupFails(IF reply.says \in Protected THEN "locked" ELSE "refused")

\* A reply to another service: KwpError.
TakeMisfit(m) ==
  LET reply == Head(air[m])
  IN /\ Take(m) /\ reply.says = "yes" /\ ~Fits(reply)
     /\ \/ request = "session" /\ SessionOver
        \/ request = "ident" /\ IdentOver(None)
        \/ request = "dtcs" /\ DtcsFail
        \/ request \in Groups /\ GroupFails("refused")

ReadGroup(reply) ==
  /\ blocks' = blocks \cup {[group |-> request, reply |-> reply]}
  /\ IF cmd = "read" THEN End("value") ELSE NextGroup(blocks')
  /\ UNCHANGED <<ident, found>>

TakeAnswer(m) ==
  LET reply == Head(air[m])
  IN /\ Take(m) /\ Fits(reply)
     /\ \/ request = "session" /\ SessionOver
        \/ request = "ident" /\ IdentOver(reply)
        \/ request = "dtcs" /\ Listed(reply)
        \/ request \in Groups /\ Echoes(reply) /\ ReadGroup(reply)
        \/ request \in Groups /\ ~Echoes(reply) /\ GroupFails("refused")

\* NoResponse: vag_read and read_dtcs do not catch it.
Silence ==
  /\ pc = "wait"
  /\ \/ request = "session" /\ SessionOver
     \/ request = "ident" /\ IdentOver(None)
     \/ request = "dtcs" /\ DtcsFail
     \/ request \in Groups /\ GroupFails("aborted")
  /\ UNCHANGED <<cmd, air, silent, denied>>

\* Tp20Error, which is neither of the errors that are caught.
BusFails ==
  /\ pc \in {"ask", "wait"}
  /\ Abort
  /\ UNCHANGED <<cmd, air, silent, denied>>

-----------------------------------------------------------------------------
Receive(m) == TakePending(m) \/ TakeRefusal(m) \/ TakeMisfit(m) \/ TakeAnswer(m)

Next == OpenFails \/ Opened \/ ShowListing \/ Ask \/ Silence \/ BusFails \/ \E m \in Modules : Receive(m)

Spec == Init /\ [][Next]_vars

\* The process runs, and each wait ends (Tp20!EveryWaitEnds).
FairSpec == Spec /\ WF_vars(Next)

-----------------------------------------------------------------------------
(***************************************************************************)
(* Properties.                                                             *)
(***************************************************************************)
\* What `vag modules' lists for a module is what that module answered to the
\* request in question, although all modules answer on one identifier, answers
\* come late, and the session and the identification may go unanswered
\* (kwp2000.py:280, 296): a fault list that fails ends the scan (vag.py:135),
\* and an answer that was awaited in vain with it. Two ways remain for an answer
\* to outlive its request, and the property is of the scans where neither was
\* met: a session or an identification is refused or put off, which the next
\* request may take for its own refusal, or a fault list is put off and asked
\* for again (kwp2000.py:247), whose second answer may come in the next turn.
ListedIsItsOwn == ~denied =>
  \A i \in 1 .. Len(found) :
    LET e == found[i]
    IN /\ e.ident # None => e.ident.from = e.module /\ e.ident.to = "ident"
       /\ e.dtcs.from = e.module /\ e.dtcs.to = "dtcs"

\* A listing that is printed leaves no address out: each is listed, or nobody
\* could be reached there (vag.py:128).
ListingIsWhole == report = "listed" =>
  \A i \in 1 .. Len(Wanted) :
    Wanted[i] \in silent \/ \E j \in 1 .. Len(found) : found[j].module = Wanted[i]

\* What `vag read' says of an identifier is so: "exists but is locked behind a
\* login ... That is a positive finding" (vag.py:222), while the session before
\* it was not refused or put off.
ReadIsTrue ==
  /\ report = "locked" /\ ~denied => request \in Locked[mod]
  /\ report = "value" => request \in Holds[mod] \ Locked[mod]

\* Every command ends, however often a module puts off its answer.
CommandEnds == <>(pc = "over")
=============================================================================
