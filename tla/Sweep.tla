------------------------------- MODULE Sweep --------------------------------
(***************************************************************************)
(* Finding the modules of a car that generic OBD-II does not reach         *)
(* (src/src/carpi/core/discovery.py), and asking one of them for every     *)
(* identifier of some ranges (src/src/carpi/core/didscan.py).              *)
(*                                                                         *)
(* The address sweep sends one probe to each address and books whoever     *)
(* answers next on an identifier that is not yet accounted for. The        *)
(* identifier sweep asks a pair of addresses found that way; it may be     *)
(* stopped, cut off or killed, and resumed from the observations that were *)
(* handed out while it ran.                                                *)
(***************************************************************************)
EXTENDS Integers, FiniteSets, SequencesExt

CONSTANTS Low, High,       \* the addresses probed
          Functional,      \* the broadcast address, which every module of Obd answers
          Modules, Obd, Refusing,
          Request, Response,   \* where a module listens, and where it answers
          Broadcast,       \* identifiers of other traffic: set of [id, ext]
          Holds,           \* what a module says of an identifier
          Ranges, VinDid,
          MaxErrors, MaxSilence,                  \* when the identifier sweep gives up
          MaxNoise, MaxFailures, MaxFaults, MaxRuns  \* bounds of the model

Ids  == Low .. High \cup {Response[m] : m \in Modules} \cup {b.id : b \in Broadcast}
Pair(m) == [req |-> Request[m], rsp |-> Response[m]]
Pairs == [req : Low .. High, rsp : Ids]

\* What the probe's own frame is told by: no module answers on the identifier that it listens on.
ASSUME SweepAssumption ==
  /\ Low \in Nat \ {0} /\ High \in Nat /\ Broadcast \subseteq [id : Nat, ext : BOOLEAN]
  /\ Request \in [Modules -> Low .. High] /\ Functional \in Low .. High
  /\ \A m, n \in Modules : Response[m] = Response[n] => m = n
  /\ \A m \in Modules : Response[m] \in Nat /\ Response[m] # Request[m]
  /\ \A b \in Broadcast, m \in Modules : b.id # Response[m]
  /\ {MaxErrors, MaxSilence} \subseteq Nat \ {0}
  /\ {MaxNoise, MaxFailures, MaxFaults, MaxRuns} \subseteq Nat

VARIABLES stage,     \* "listen", "probe", "window", "swept", "scan", "killed" or "scanned"
          next,      \* the address to be probed next
          stopped,   \* the caller's stop event
          ambient,   \* identifiers heard before anything was sent
          coming,    \* answers on their way: the identifier, and the address that was probed
          heard,     \* what the reader holds: the same, 0 for no probe
          modules,   \* what the sweep has booked
          overdue,   \* whose answer was still on its way when the next probe was sent
          missed,    \* whose answer came in time, but was not looked at in its window
          spent,     \* frames of other traffic, failed probes and faults so far
          scan,      \* the identifier sweep under way
          line,      \* "good", "gone" or "garbled": how the module is heard
          log        \* the observations handed out, of all runs

vars == <<stage, next, stopped, ambient, coming, heard, modules, overdue, missed, spent, scan, line, log>>
bus == <<next, ambient, coming, heard, modules, overdue, missed>>

NoScan == [pair |-> [req |-> Low, rsp |-> Low], todo |-> <<>>, rows |-> <<>>,
           errors |-> 0, silence |-> 0, aborted |-> "no", vin |-> FALSE, runs |-> 0]

Init ==
  /\ stage = "listen" /\ next = Low /\ stopped = FALSE
  /\ ambient = {} /\ coming = {} /\ heard = <<>> /\ modules = {} /\ overdue = {} /\ missed = {}
  /\ spent = [noise |-> 0, failures |-> 0, faults |-> 0]
  /\ scan = NoScan /\ line = "good" /\ log = <<>>

-----------------------------------------------------------------------------
(* The address sweep. *)

\* Broadcasts on the functional addresses are not modules, and are never probed.
Skipped == {Functional}
Answerers(a) == {m \in Modules : Request[m] = a \/ (a = Functional /\ m \in Obd)}
Answers(a) == {[id |-> Response[m], ext |-> FALSE, negative |-> m \in Refusing, probe |-> a] :
                 m \in Answerers(a)}

\* Whatever is on the bus for a moment before the first probe is no answer to one.
Listen(ids) ==
  /\ stage = "listen" /\ ids \subseteq {b.id : b \in Broadcast}
  /\ ambient' = ids /\ stage' = "probe"
  /\ UNCHANGED <<next, stopped, coming, heard, modules, overdue, missed, spent, scan, line, log>>

Skip ==
  /\ stage = "probe" /\ ~stopped /\ next \in Low .. High \cap Skipped
  /\ next' = next + 1
  /\ UNCHANGED <<stage, stopped, ambient, coming, heard, modules, overdue, missed, spent, scan, line, log>>

\* What came in since the last window is thrown away, and the probe is sent. Some
\* interfaces hand a sender its own frame.
Sent(echo) == IF echo THEN <<[id |-> next, ext |-> FALSE, negative |-> FALSE, probe |-> 0]>> ELSE <<>>
Waiting == {heard[i].id : i \in DOMAIN heard}
\* Mutant: what came in since the last window is kept.
ProbeOnTop(echo) ==
  /\ stage = "probe" /\ ~stopped /\ next \in Low .. High \ Skipped
  /\ heard' = heard \o Sent(echo)
  /\ coming' = coming \cup Answers(next)
  /\ overdue' = overdue \cup {f.id : f \in coming}
  /\ missed' = missed \cup Waiting
  /\ next' = next + 1 /\ stage' = "window"
  /\ UNCHANGED <<stopped, ambient, modules, spent, scan, line, log>>
Probe(echo) ==
  /\ stage = "probe" /\ ~stopped /\ next \in Low .. High \ Skipped
  /\ heard' = Sent(echo)
  /\ coming' = coming \cup Answers(next)
  /\ overdue' = overdue \cup {f.id : f \in coming}
  /\ missed' = missed \cup Waiting
  /\ next' = next + 1 /\ stage' = "window"
  /\ UNCHANGED <<stopped, ambient, modules, spent, scan, line, log>>

\* An address that cannot be probed does not end the sweep.
ProbeFails ==
  /\ stage = "probe" /\ ~stopped /\ next \in Low .. High \ Skipped
  /\ spent.failures < MaxFailures
  /\ heard' = <<>> /\ next' = next + 1
  /\ missed' = missed \cup Waiting \cup {Response[m] : m \in Answerers(next)}
  /\ spent' = [spent EXCEPT !.failures = @ + 1]
  /\ UNCHANGED <<stage, stopped, ambient, coming, modules, overdue, scan, line, log>>

Arrive(f) ==
  /\ stage \in {"probe", "window"} /\ f \in coming
  /\ coming' = coming \ {f} /\ heard' = Append(heard, f)
  /\ UNCHANGED <<stage, next, stopped, ambient, modules, overdue, missed, spent, scan, line, log>>

Noise(b) ==
  /\ stage \in {"probe", "window"} /\ b \in Broadcast /\ spent.noise < MaxNoise
  /\ heard' = Append(heard, [id |-> b.id, ext |-> b.ext, negative |-> FALSE, probe |-> 0])
  /\ spent' = [spent EXCEPT !.noise = @ + 1]
  /\ UNCHANGED <<stage, next, stopped, ambient, coming, modules, overdue, missed, scan, line, log>>

\* The frame that is looked at is no answer: the probe itself, other traffic, a module
\* that has been booked before, or an identifier of the other width.
Window == next - 1
Ignored(f) ==
  f.id = Window \/ f.id \in ambient \/ (\E m \in modules : m.rsp = f.id) \/ f.ext
PassOver ==
  /\ stage = "window" /\ heard # <<>> /\ Ignored(Head(heard))
  /\ heard' = Tail(heard)
  /\ UNCHANGED <<stage, next, stopped, ambient, coming, modules, overdue, missed, spent, scan, line, log>>

\* The first other frame is: a refusal is as good as an acceptance.
Book ==
  /\ stage = "window" /\ heard # <<>> /\ ~Ignored(Head(heard))
  /\ modules' = modules \cup
       {[req |-> Window, rsp |-> Head(heard).id, negative |-> Head(heard).negative]}
  /\ heard' = Tail(heard) /\ stage' = "probe"
  /\ UNCHANGED <<next, stopped, ambient, coming, overdue, missed, spent, scan, line, log>>

\* The window closes, whatever is still to be looked at.
Close ==
  /\ stage = "window" /\ stage' = "probe"
  /\ UNCHANGED <<bus, stopped, spent, scan, line, log>>

EndSweep ==
  /\ stage = "probe" /\ (stopped \/ next > High)
  /\ stage' = "swept"
  /\ UNCHANGED <<bus, stopped, spent, scan, line, log>>

\* The stop event, which either sweep looks at before each request.
Stop ==
  /\ ~stopped /\ stage \in {"probe", "window", "scan"}
  /\ stopped' = TRUE
  /\ UNCHANGED <<stage, bus, spent, scan, line, log>>

-----------------------------------------------------------------------------
(* The identifier sweep. *)

\* Every identifier of the ranges, in their order.
Identifiers(i) == [k \in 1 .. Ranges[i][2] - Ranges[i][1] + 1 |-> Ranges[i][1] + k - 1]
UpToRange[i \in 0 .. Len(Ranges)] ==
  IF i = 0 THEN <<>> ELSE UpToRange[i - 1] \o Identifiers(i)
ToSweep == UpToRange[Len(Ranges)]

\* The same, but those to be skipped.
Left(skip) ==
  LET f[k \in 0 .. Len(ToSweep)] ==
        IF k = 0 THEN <<>>
        ELSE IF ToSweep[k] \in skip THEN f[k - 1] ELSE Append(f[k - 1], ToSweep[k])
  IN  f
Iterate(skip) == Left(skip)[Len(ToSweep)]
\* Mutant: only what was found is taken for done.
LoggedFound == {log[i].did : i \in {j \in DOMAIN log : log[j].status \in {"data", "protected"}}}
Logged == {log[i].did : i \in DOMAIN log}

\* What a request for identifier d on a pair of addresses draws: a wrong pair, or a module
\* that has nothing to say of it, nothing.
Said(pair, d) == {Holds[m][d] : m \in {n \in Modules : Pair(n) = pair /\ d \in DOMAIN Holds[n]}}

Silent(d)  == [did |-> d, status |-> "unsupported", nrc |-> FALSE, value |-> 0]
Garbled(d) == [did |-> d, status |-> "error", nrc |-> FALSE, value |-> 0]
Row(d, said) == [did |-> d, status |-> said.status, nrc |-> said.status # "data", value |-> said.value]

\* Whether anything came back: a refusal carries its code, silence does not.
Answered(row) == row.status # "error" /\ (row.status # "unsupported" \/ row.nrc)
Exists(row) == row.status \in {"data", "protected"}

\* The sweep begins: what the module says its VIN is is kept, if it says so. The locals
\* of the address sweep are gone.
Begun(pair, vin, skip) ==
  /\ scan.runs < MaxRuns
  /\ vin => \E said \in Said(pair, VinDid) : said.status = "data" /\ line = "good"
  /\ scan' = [NoScan EXCEPT !.pair = pair, !.todo = Iterate(skip), !.vin = vin,
                            !.runs = scan.runs + 1]
  /\ stage' = "scan" /\ stopped' = FALSE
Begin(m, vin) ==
  /\ stage = "swept" /\ m \in modules
  /\ Begun([req |-> m.req, rsp |-> m.rsp], vin, {})
  /\ next' = Low /\ ambient' = {} /\ coming' = {} /\ heard' = <<>> /\ modules' = {} /\ overdue' = {}
  /\ missed' = {}
  /\ UNCHANGED <<spent, line, log>>

\* A sweep that did not get to its end is taken up again: what was handed out is skipped.
Resume(vin) ==
  /\ stage = "killed" \/ (stage = "scanned" /\ scan.aborted # "no")
  /\ Begun(scan.pair, vin, Logged)
  /\ UNCHANGED <<bus, spent, line, log>>

\* Mutant: only what cannot be understood is counted, silence is not.
CountErrors(row) ==
  LET errors == IF row.status = "error" THEN scan.errors + 1 ELSE 0
  IN  scan' = [scan EXCEPT !.todo = Tail(@), !.rows = Append(@, row), !.errors = errors,
                           !.aborted = IF errors >= MaxErrors THEN "errors" ELSE "no"]
\* One observation: handed out first, counted after.
Counted(row) ==
  LET errors  == IF row.status = "error" THEN scan.errors + 1 ELSE 0
      silence == IF Answered(row) THEN 0 ELSE scan.silence + 1
  IN  scan' = [scan EXCEPT !.todo = Tail(@), !.rows = Append(@, row),
                           !.errors = errors, !.silence = silence,
                           !.aborted = IF errors >= MaxErrors THEN "errors"
                                       ELSE IF silence >= MaxSilence THEN "silence" ELSE "no"]

Asking == stage = "scan" /\ ~stopped /\ scan.aborted = "no" /\ scan.todo # <<>>
Observed(row) ==
  /\ Counted(row)
  /\ log' = Append(log, row)
  /\ UNCHANGED <<stage, bus, stopped, line>>

AskAnswered ==
  /\ Asking /\ line = "good"
  /\ \E said \in Said(scan.pair, Head(scan.todo)) : Observed(Row(Head(scan.todo), said))
  /\ UNCHANGED spent

\* No reply: of a wrong pair, of a module that is gone, or of one that lost this one.
AskUnanswered ==
  /\ Asking
  /\ IF line = "gone" \/ Said(scan.pair, Head(scan.todo)) = {} THEN UNCHANGED spent
     ELSE spent.faults < MaxFaults /\ spent' = [spent EXCEPT !.faults = @ + 1]
  /\ Observed(Silent(Head(scan.todo)))

AskGarbled ==
  /\ Asking /\ line = "garbled" /\ Said(scan.pair, Head(scan.todo)) # {}
  /\ Observed(Garbled(Head(scan.todo)))
  /\ UNCHANGED spent

\* The line to the module fails or comes back.
LineTurns(state) ==
  /\ stage = "scan" /\ state # line /\ spent.faults < MaxFaults
  /\ line' = state /\ spent' = [spent EXCEPT !.faults = @ + 1]
  /\ UNCHANGED <<stage, bus, stopped, scan, log>>

Halt ==
  /\ stage = "scan" /\ stopped /\ scan.aborted = "no" /\ scan.todo # <<>>
  /\ scan' = [scan EXCEPT !.aborted = "stopped"]
  /\ UNCHANGED <<stage, bus, stopped, spent, line, log>>

Finish ==
  /\ stage = "scan" /\ (scan.aborted # "no" \/ scan.todo = <<>>)
  /\ stage' = "scanned"
  /\ UNCHANGED <<bus, stopped, spent, scan, line, log>>

\* The process is killed: the report is lost, not what was handed out.
Kill ==
  /\ stage = "scan"
  /\ stage' = "killed"
  /\ UNCHANGED <<bus, stopped, spent, scan, line, log>>

-----------------------------------------------------------------------------
AddressNext ==
  \/ \E ids \in SUBSET {b.id : b \in Broadcast} : Listen(ids)
  \/ Skip \/ ProbeFails \/ PassOver \/ Book \/ Close \/ EndSweep \/ Stop
  \/ \E echo \in BOOLEAN : Probe(echo)
  \/ \E f \in coming : Arrive(f)
  \/ \E b \in Broadcast : Noise(b)

DidNext ==
  \/ \E m \in modules, vin \in BOOLEAN : Begin(m, vin)
  \/ \E vin \in BOOLEAN : Resume(vin)
  \/ AskAnswered \/ AskUnanswered \/ AskGarbled \/ Halt \/ Finish \/ Kill
  \/ \E state \in {"good", "gone", "garbled"} : LineTurns(state)

-----------------------------------------------------------------------------
(* Properties. *)

\* A module is booked under another address than its own only if its answer came after
\* its window; whatever else is booked is traffic that was not heard beforehand. And when
\* the sweep is over, a module that was probed and whose answer was taken in its window is
\* among what was found, unless one was booked for it by mistake or took its window. The
\* window, the drain, the functional address and the ambient traffic of sweep_addresses
\* and _collect_reply (discovery.py:284-340, 384-419).
Unheard == {b.id : b \in {c \in Broadcast : ~c.ext}} \ ambient
Right(m) == \E n \in Modules : Pair(n) = [req |-> m.req, rsp |-> m.rsp]
InWindow(n) ==
  Response[n] \notin overdue \cup missed \cup Waiting \cup {f.id : f \in coming}
FoundAreTheModules ==
  /\ \A m \in modules : Right(m) \/ m.rsp \in overdue \/ m.rsp \in Unheard
  /\ stage = "swept" /\ ~stopped =>
       \A n \in Modules : Request[n] # Functional /\ InWindow(n) =>
         \E m \in modules : m.req = Request[n] /\ m.rsp = Response[n]

\* Interrupted and resumed, the observations handed out are those of an uninterrupted
\* sweep up to where it has come: none is missing, none is asked for twice
\* (didscan.py:234-255, "those results can be fed back as skip to resume").
ResumeIsSeamless ==
  [i \in DOMAIN log |-> log[i].did] = SubSeq(Iterate({}), 1, Len(log))

\* A sweep gives up only after the module said nothing for as long as the limits say,
\* and never goes on for longer, whatever the mix of silence and garbled replies
\* (didscan.py:257-286).
Unanswered(n) ==
  /\ n <= Len(scan.rows)
  /\ \A i \in Len(scan.rows) - n + 1 .. Len(scan.rows) : ~Answered(scan.rows[i])
GivesUpInTime ==
  /\ scan.aborted = "silence" => Unanswered(MaxSilence)
  /\ scan.aborted = "errors" => Unanswered(MaxErrors)
  /\ scan.aborted = "no" => ~Unanswered(MaxSilence)
=============================================================================
