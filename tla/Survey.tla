------------------------------- MODULE Survey -------------------------------
(***************************************************************************)
(* A vehicle scan, request by request (src/src/carpi/core/scan.py with     *)
(* core/protocol/obd2.py, core/protocol/uds.py and core/vehicles.py), over *)
(* modules that answer as src/src/carpi/sim/ecu.py does, and the verdicts  *)
(* of the inspection rules on what it brought home.                        *)
(*                                                                         *)
(* A module may also stay silent, refuse, ask for more time, reply with    *)
(* nothing after the service or with the late answer to a request before   *)
(* this one, and the link may fail: at most Failures[car] times in a scan. *)
(* What is asked again after "response pending" is answered twice.         *)
(* The steps of one module, in order:                                      *)
(*   supported; walk, pids; stored, pending, permanent; walk6, tests;      *)
(*   info, items; walk2, frames (only with a fault); moduleVin             *)
(* and then, outside OBD-II, each module of the profile that the VIN       *)
(* selects (present, session, reads) and each that an address sweep finds  *)
(* (open, identify).                                                       *)
(***************************************************************************)
EXTENDS Codec, Rules, FiniteSets, TLC

CONSTANTS
  Cars,      \* cars that may be scanned; each as Car below
  Failures,  \* bound: requests of a scan that may go wrong, for each car
  Engine,    \* the module at 0x7E8
  Profiles,  \* vehicle profiles of the database
  Discovers  \* whether the scan sweeps for modules outside OBD-II

VARIABLES
  car,      \* the car
  step,     \* what is asked next
  left,     \* addresses of modules still to scan, the one in hand first
  queue,    \* then: modules outside OBD-II still to read
  base,     \* of the bitmap to ask for
  walked,   \* what the bitmaps so far list
  todo,     \* what a loop has still to ask for
  attempt,  \* times that this request was answered "response pending"
  due,      \* answers that modules still owe to requests before this one
  slow,     \* history: modules that put a request for the results of a monitor off
  scan,     \* EcuScan of the module in hand
  scans,    \* of the modules done
  reading,  \* ModuleReading of the module in hand
  readings, \* of the modules done
  session,  \* the diagnostic session that each module is in
  verdicts, \* of the rules, at the end
  trouble,  \* bound: requests that went wrong
  lost      \* history: those that were not answered as the car would

vars == <<car, step, left, queue, base, walked, todo, attempt, due, slow, scan,
          scans, reading, readings, session, verdicts, trouble, lost>>

-----------------------------------------------------------------------------
(* The modules. *)

VinDid == 61840                    \* 0xF190
Request(svc, id) == [svc |-> svc, id |-> id]
Positive(req) ==
  CASE req.svc \in {3, 7, 10, 6} -> <<req.svc + 64>>
    [] req.svc = 34 -> <<98, req.id \div 256, req.id % 256>>
    [] req.svc = 2  -> <<66, req.id, 0>>
    [] OTHER        -> <<req.svc + 64, req.id>>
Refusal(req, nrc) == <<127, req.svc, nrc>>

Trims == {7, 9}                   \* long-term fuel trim of either bank
Words == {31, 33, 49, 66}         \* run time, two distances, supply voltage
Width == [pid \in {0, 1, 5, 32, 64, 96, 128, 160, 166, 192} \cup Trims \cup Words |->
            CASE pid \in {5} \cup Trims -> 1 [] pid \in Words -> 2 [] OTHER -> 4]
KnownPids == {pid \in DOMAIN Width : pid % 32 # 0}
EncodePid(pid, v) ==
  CASE pid = 1 -> EncodeMonitors(v)
    [] pid = 5 -> Temperature(v)
    [] pid \in Trims -> TrimPercent(v)
    [] pid \in Words -> Unsigned16(v)
    [] pid = 166 -> LongBytes(10 * v)
DecodePid(pid, d) ==
  CASE pid = 1 -> DecodeMonitors(d)
    [] pid = 5 -> DecodeTemperature(d)
    [] pid \in Trims -> DecodeTrim(d)
    [] pid \in Words -> Word(d)
    [] pid = 166 -> Long(d) \div 10

ItemWidth == [id \in {2, 4, 6, 10} |->
                CASE id = 2 -> 17 [] id = 4 -> 16 [] id = 6 -> 4 [] id = 10 -> 20]
Pad(text, width) == [i \in 1 .. width |-> IF i <= Len(text) THEN text[i] ELSE 0]
Strip(text) ==
  LET kept == {i \in DOMAIN text : text[i] \notin {0, 32}}
  IN  IF kept = {} THEN <<>> ELSE SubSeq(text, Min(kept), Max(kept))

\* A car: the modules that answer OBD-II in the order of their identifiers, those that only an
\* address reaches, and what the seller says. A module is as EcuSpec of sim/scenarios.py has it,
\* with values that the encodings hold, and a profile as vehicle.schema.json admits it.
KmLimit == 429496729              \* what four bytes hold of tenths of a kilometre
InRange(pid, v) ==
  CASE pid = 1 -> /\ v.mil \in BOOLEAN /\ v.count \in 0 .. 127
                  /\ v.ignition \in {"spark", "compression"}
                  /\ v.supported \subseteq MonitorNames(v.ignition)
    [] pid = 5 -> v \in -40 .. 215
    [] pid \in Trims -> v \in -100 .. 99
    [] pid \in Words -> v \in Nat
    [] pid = 166 -> v \in 0 .. KmLimit
Trimmed(text) == text # <<>> => text[1] \notin {0, 32} /\ text[Len(text)] \notin {0, 32}
Listable(id) == id % 32 # 0 /\ id < 224      \* the last bitmap of ecu.py ends there
Tests == [monitor : {id \in Byte : Listable(id)}, test : Byte,
          value : 0 .. WordMax, min : 0 .. WordMax, max : 0 .. WordMax]
IsModule(m) ==
  /\ \A field \in {"pids", "frame"} :
       DOMAIN m[field] \subseteq KnownPids /\ \A pid \in DOMAIN m[field] : InRange(pid, m[field][pid])
  /\ \A mode \in {"stored", "pending", "permanent"} : m[mode] \in Seq(Codes \ {Padding})
  /\ m.tests \in Seq(Tests)
  /\ DOMAIN m.info \subseteq DOMAIN ItemWidth
  /\ \A id \in DOMAIN m.info :
       /\ m.info[id] \in Seq(Seq(Byte)) /\ m.info[id] # <<>>
       /\ \A text \in Range(m.info[id]) :
            IF id = 6 THEN Len(text) = 4 ELSE Len(text) <= ItemWidth[id] /\ Trimmed(text)
  /\ DOMAIN m.dids \subseteq 0 .. WordMax /\ \A did \in DOMAIN m.dids : m.dids[did] \in Seq(Byte)
IsProfile(p) ==
  /\ \A prefix \in p.prefixes : prefix \in Seq(Byte) /\ Len(prefix) \in 1 .. 17
  /\ p.modules \in Seq(Range(p.modules))
  /\ \A g \in Range(p.modules) :
       /\ g.kind = "profile" /\ g.session \in {1, 3} /\ g.reads # <<>> /\ g.reads \in Seq(Range(g.reads))
       /\ \A read \in Range(g.reads) : read.did \in 0 .. WordMax /\ read.length \in Nat \ {0}
ASSUME SurveyAssumption ==
  /\ Failures \in [Cars -> Nat] /\ Discovers \in BOOLEAN
  /\ \A c \in Cars :
       /\ DOMAIN c = {"obd", "others", "spec", "claimed"}
       /\ c.obd \in Seq(DOMAIN c.spec) /\ \A i, j \in DOMAIN c.obd : c.obd[i] = c.obd[j] => i = j
       /\ c.others \subseteq DOMAIN c.spec /\ IsFiniteSet(c.others)
       /\ \A name \in DOMAIN c.spec : IsModule(c.spec[name])
  /\ \A p \in Profiles : IsProfile(p)

\* A bitmap, or the bytes that `coded' has for an item; silence for anything else.
Table(coded, req) ==
  LET bases == BitmapBases(DOMAIN coded)
  IN  CASE req.id \in bases -> Positive(req) \o SupportBitmap(DOMAIN coded \cup bases, req.id)
        [] req.id \in DOMAIN coded \ bases -> Positive(req) \o coded[req.id]
        [] OTHER -> <<>>
Coded(values) == [pid \in DOMAIN values |-> EncodePid(pid, values[pid])]
\* The items of vehicle information: a count, then each padded to its width.
Padded(items, id) == [i \in DOMAIN items |-> Pad(items[i], ItemWidth[id])]
CodedInfo(info) ==
  [id \in DOMAIN info |-> <<Len(info[id])>> \o Joined(Padded(info[id], id), ItemWidth[id])]

\* Test results: a bitmap of the monitors that have some, or those of one monitor.
OfMonitor(m, id) == {t \in Range(m.tests) : t.monitor = id}
MonitorIds(m) == {t.monitor : t \in Range(m.tests)}
TestReply(m, id) ==
  LET groups == Kept(m.tests, OfMonitor(m, id))
      bases  == BitmapBases(MonitorIds(m))
  IN  IF MonitorIds(m) # {} /\ id \in bases
      THEN <<70, id>> \o SupportBitmap(MonitorIds(m) \cup bases, id)
      ELSE IF groups = <<>> THEN <<>>
      ELSE <<70>> \o Joined([i \in DOMAIN groups |-> TestBytes(groups[i])], 9)

DidReply(m, extended, req) ==
  CASE req.id \in m.protected -> Refusal(req, 51)
    [] req.id \in m.extended \ m.protected /\ ~extended -> Refusal(req, 127)
    [] req.id \in DOMAIN m.dids \ m.protected /\ (extended \/ req.id \notin m.extended) ->
         Positive(req) \o m.dids[req.id]
    [] OTHER -> Refusal(req, 49)

\* VirtualEcu.handle; <<>> is silence.
Handle(m, extended, req) ==
  CASE req.svc = 1  -> Table(Coded(m.pids), req)
    [] req.svc = 2  -> IF DOMAIN m.frame = {} THEN <<>> ELSE Table(Coded(m.frame), req)
    [] req.svc = 3  -> DtcResponse(3, m.stored)
    [] req.svc = 7  -> DtcResponse(7, m.pending)
    [] req.svc = 10 -> DtcResponse(10, m.permanent)
    [] req.svc = 6  -> TestReply(m, req.id)
    [] req.svc = 9  -> IF req.id = 0 THEN <<73, 0>> \o SupportBitmap(DOMAIN m.info, 0)
                       ELSE Table(CodedInfo(m.info), req)
    [] req.svc = 62 -> <<126, 0>>
    [] req.svc = 16 -> <<80, req.id, 0, 50, 1, 244>>
    [] req.svc = 34 -> DidReply(m, extended, req)

-----------------------------------------------------------------------------
(* The request in hand, and what may come back. *)

Module == IF left # <<>> THEN Head(left) ELSE Head(queue).name

Uds == {"moduleVin", "present", "session", "open", "reads", "identify"}
ObdRequest ==
  CASE step \in {"supported", "walk"} -> Request(1, base)
    [] step = "pids"      -> Request(1, Min(todo))
    [] step = "stored"    -> Request(3, 0)
    [] step = "pending"   -> Request(7, 0)
    [] step = "permanent" -> Request(10, 0)
    [] step = "walk6"     -> Request(6, base)
    [] step = "tests"     -> Request(6, Min(todo))
    [] step = "info"      -> Request(9, 0)
    [] step = "items"     -> Request(9, Min(todo))
    [] step = "walk2"     -> Request(2, base)
    [] step = "frames"    -> Request(2, Min(todo))
UdsRequest ==
  CASE step = "moduleVin" -> Request(34, VinDid)
    [] step = "present"   -> Request(62, 0)
    [] step \in {"session", "open"} -> Request(16, Head(queue).session)
    [] step = "reads"     -> Request(34, Head(queue).reads[Min(todo)].did)
    [] step = "identify"  -> Request(34, Min(todo))
Current == IF step \in Uds THEN UdsRequest ELSE ObdRequest

Retries == IF step \in Uds THEN 2 ELSE 1

Answer(req) ==
  IF Module \in DOMAIN car.spec THEN Handle(car.spec[Module], session[Module] = 3, req) ELSE <<>>
Bytes(data) == [how |-> IF data = <<>> THEN "silence" ELSE "bytes", data |-> data]

\* The request in hand, as one that still has an answer to come. Those of one module have
\* different numbers, and come in their order.
Debt ==
  IF Answer(Current) = <<>> THEN {} ELSE {[at |-> Module, req |-> Current, nth |-> trouble]}
\* The answers that the module owes to requests before this one, which was first sent when
\* trouble was this much.
Late == {b \in due : b.at = Module /\ b.nth < trouble - attempt}

\* What may come instead of the answer.
Failing ==
  {[how |-> "fault", data |-> <<>>], Bytes(<<>>), Bytes(<<Current.svc + 64>>)}
    \cup {Bytes(Refusal(Current, nrc)) : nrc \in {17, 34}}

\* _exchange: a reply to this service, or how the request ends otherwise.
Exchanged(r) ==
  IF r.how # "bytes" THEN r.how
  ELSE IF r.data[1] = 127
  THEN CASE r.data[3] \in {17, 18, 49} -> "unsupported"
         [] r.data[3] \in {51, 52} -> "protected"
         [] OTHER -> "refused"
  ELSE IF r.data[1] = Current.svc + 64 THEN "reply" ELSE "broken"
\* Mutant: the echo is not compared.
EchoedAny(r, n) == Exchanged(r) = "reply" /\ Len(r.data) >= Len(Positive(Current)) + n
\* A reply that echoes what was asked for, with at least n bytes after it.
Echoed(r, n) ==
  LET header == Positive(Current)
  IN  Exchanged(r) = "reply" /\ Len(r.data) >= Len(header) + n
        /\ SubSeq(r.data, 1, Len(header)) = header
Data(r) == SubSeq(r.data, Len(Positive(Current)) + 1, Len(r.data))

\* The reply r is taken. The answer to the request itself comes after all earlier ones. What
\* comes instead leaves it owed; trouble is counted, and what is lost noted.
InTurn(r) ==
  r = Bytes(Answer(Current)) /\ due' = due \ Late /\ UNCHANGED <<trouble, lost>>
Instead(r) ==
  /\ trouble < Failures[car] /\ trouble' = trouble + 1
  /\ \/ r \in Failing \ {Bytes(Answer(Current))} /\ due' = due \cup Debt
     \/ \E b \in Late : /\ r = Bytes(Answer(b.req))
                      /\ due' = (due \ {x \in Late : x.nth <= b.nth}) \cup Debt
  /\ lost' = lost \cup {l \in {[at |-> Module, step |-> step, id |-> Current.id, how |-> r.how]} :
                          r # Bytes(Answer(Current))}
Taken(r) == (InTurn(r) \/ Instead(r)) /\ attempt' = 0 /\ UNCHANGED <<car, slow>>
Replies ==
  {Bytes(Answer(Current))} \cup
    (IF trouble < Failures[car] THEN Failing \cup {Bytes(Answer(b.req)) : b \in Late} ELSE {})

-----------------------------------------------------------------------------
(* One module on OBD-II: scan_ecu. *)

NewScan(name) ==
  [name |-> name, supported |-> {}, readings |-> <<>>, stored |-> <<>>, pending |-> <<>>,
   permanent |-> <<>>, frame |-> <<>>, tests |-> <<>>, info |-> <<>>, moduleVin |-> <<>>,
   unsupported |-> {}, errors |-> {}]
NewReading(name) ==
  [name |-> name, reached |-> FALSE, values |-> <<>>, protected |-> {}, unavailable |-> {},
   implausible |-> {}]

\* The values f, with v for x.
With(f, x, v) == [y \in DOMAIN f \cup {x} |-> IF y = x THEN v ELSE f[y]]

\* On to step s, with the items ids to ask for.
Go(s, ids) == step' = s /\ todo' = ids /\ base' = 0 /\ walked' = {}

After(s) ==
  CASE s = "pids" -> "stored"
    [] s = "tests" -> "info"
    [] s = "items" -> IF scan.stored # <<>> \/ scan.permanent # <<>> THEN "walk2" ELSE "moduleVin"
    [] s = "frames" -> "moduleVin"
\* A loop over ids: left at once when there are none.
Wanted(s) == IF s = "info" THEN DOMAIN ItemWidth ELSE {}
\* Mutant: an empty loop is entered.
LoopAnyway(s, ids) == Go(s, ids)
Loop(s, ids) == IF ids = {} THEN Go(After(s), Wanted(After(s))) ELSE Go(s, ids)

\* What `attempt' of scan_ecu notes of a step that failed as a whole.
Noted(r) ==
  LET label == IF step \in {"info", "items"} THEN <<"items", Min(todo)>> ELSE <<step, 0>>
  IN  IF Exchanged(r) = "silence" THEN [scan EXCEPT !.unsupported = @ \cup {label}]
      ELSE [scan EXCEPT !.errors = @ \cup {label}]

surveyRest == <<left, queue, scans, reading, readings, session, verdicts>>

\* The module asks for more time: it is asked again, a few times, and owes an answer to each.
Pending ==
  /\ step \notin {"discover", "done", "aborted"} /\ attempt < Retries /\ trouble < Failures[car]
  /\ attempt' = attempt + 1 /\ trouble' = trouble + 1 /\ due' = due \cup Debt
  /\ slow' = slow \cup {name \in {Module} : step = "tests"}
  /\ UNCHANGED <<car, step, left, queue, base, walked, todo, scan, scans, reading,
                 readings, session, verdicts, lost>>

\* A support bitmap: the next one exists if its last bit says so. Whatever goes wrong
\* but the link ends the walk with what it has; in mode 06, silence loses it all.
Listed(r) == walked \cup {base + n : n \in Offsets(Data(r))}
Further(r) == r.how # "fault" /\ Echoed(r, 4) /\ base + 32 \in Listed(r) /\ base + 32 <= 192
Ended(r) == IF Echoed(r, 4) THEN Listed(r) ELSE walked
NextBitmap(found) == base' = base + 32 /\ walked' = found /\ UNCHANGED <<step, todo, scan>>

Supported(r) ==
  /\ step = "supported" /\ Taken(r) /\ UNCHANGED surveyRest
  /\ IF Further(r) THEN NextBitmap(Listed(r))
     ELSE /\ Go("walk", {})
          /\ scan' = IF r.how = "fault" THEN Noted(r) ELSE [scan EXCEPT !.supported = Ended(r)]

\* A walk for the items of a loop: a fault of the link costs the loop.
WalkFor(r, loop) ==
  IF r.how = "fault" THEN Go(After(loop), {}) /\ scan' = Noted(r)
  ELSE IF Further(r) THEN NextBitmap(Listed(r))
  ELSE Loop(loop, Ended(r) \cap KnownPids) /\ UNCHANGED scan
Walk(r) == step = "walk" /\ Taken(r) /\ UNCHANGED surveyRest /\ WalkFor(r, "pids")

\* One parameter. A module that mishandles it costs only that one; a fault of the link
\* costs all of the readings.
Readings(field) == IF field = "frame" THEN scan.frame ELSE scan.readings
\* Mutant: any failure ends the readings.
GuardAll(r, s, field) ==
  /\ step = s /\ Taken(r) /\ UNCHANGED surveyRest
  /\ LET pid == Min(todo)
     IN  IF ~Echoed(r, Width[pid]) THEN Go(After(s), {}) /\ scan' = Noted(r)
         ELSE /\ IF todo = {pid} THEN Go(After(s), {})
                 ELSE todo' = todo \ {pid} /\ UNCHANGED <<step, base, walked>>
              /\ scan' = [scan EXCEPT ![field] = With(@, pid, DecodePid(pid, Data(r)))]
ReadPid(r, s, field) ==
  /\ step = s /\ Taken(r) /\ UNCHANGED surveyRest
  /\ LET pid == Min(todo)
         value == DecodePid(pid, Data(r))
     IN  IF r.how = "fault"
         THEN Go(After(s), {}) /\ scan' = [Noted(r) EXCEPT ![field] = <<>>]
         ELSE /\ IF todo = {pid} THEN Go(After(s), {})
                 ELSE todo' = todo \ {pid} /\ UNCHANGED <<step, base, walked>>
              /\ scan' = IF Echoed(r, Width[pid])
                         THEN [scan EXCEPT ![field] = With(@, pid, value)] ELSE scan
ReadLive(r)  == ReadPid(r, "pids", "readings")
ReadFrame(r) == ReadPid(r, "frames", "frame")

\* Fault codes. A module that says it has no such mode has no such codes.
ReadCodes(r) ==
  /\ step \in {"stored", "pending", "permanent"} /\ Taken(r) /\ UNCHANGED surveyRest
  /\ Go(CASE step = "stored" -> "pending" [] step = "pending" -> "permanent" [] OTHER -> "walk6",
        {})
  /\ scan' = CASE Exchanged(r) = "reply" -> [scan EXCEPT ![step] = ParseDtcs(r.data)]
               [] Exchanged(r) = "unsupported" -> scan
               [] OTHER -> Noted(r)

WalkTests(r) ==
  LET found == walked \cup {base + n : n \in Offsets(SubSeq(r.data, 3, Len(r.data)))}
      Monitors(ids) == Loop("tests", {id \in ids : id % 32 # 0})
  IN  /\ step = "walk6" /\ Taken(r) /\ UNCHANGED surveyRest
      /\ CASE r.how = "fault" -> Go("info", DOMAIN ItemWidth) /\ scan' = Noted(r)
           [] r.how # "fault" /\ Exchanged(r) # "reply" -> Go("info", DOMAIN ItemWidth) /\ UNCHANGED scan
           [] Exchanged(r) = "reply" /\ (Len(r.data) < 6 \/ r.data[2] # base) ->
                Monitors(walked) /\ UNCHANGED scan
           [] OTHER ->
                IF base + 32 \in found /\ base + 32 <= 224 THEN NextBitmap(found)
                ELSE Monitors(found) /\ UNCHANGED scan

\* The results of one monitor; each says which monitor it is of.
ReadTest(r) ==
  /\ step = "tests" /\ Taken(r) /\ UNCHANGED surveyRest
  /\ IF r.how = "fault" THEN Go("info", DOMAIN ItemWidth) /\ scan' = [Noted(r) EXCEPT !.tests = <<>>]
     ELSE /\ LET rest == todo \ {Min(todo)}
             IN  IF rest = {} THEN Go("info", DOMAIN ItemWidth)
                 ELSE todo' = rest /\ UNCHANGED <<step, base, walked>>
          /\ scan' = IF Exchanged(r) = "reply"
                     THEN [scan EXCEPT !.tests = @ \o TestGroups(r.data)] ELSE scan

\* Which items of vehicle information there are; all are tried if that is not known. A
\* fault of the link costs the item that was wanted, and this is asked again for the next.
ReadItemSupport(r) ==
  LET rest  == todo \ {Min(todo)}
      items == IF Echoed(r, 4) THEN todo \cap Offsets(Data(r)) ELSE todo
  IN  /\ step = "info" /\ Taken(r) /\ UNCHANGED surveyRest
      /\ IF r.how # "fault" THEN Loop("items", items) /\ UNCHANGED scan
         ELSE /\ IF rest = {} THEN Go(After("items"), {}) ELSE Go("info", rest)
              /\ scan' = Noted(r)

ReadItem(r) ==
  /\ step = "items" /\ Taken(r) /\ UNCHANGED surveyRest
  /\ LET id == Min(todo)
         items == InfoItems(Data(r), ItemWidth[id])
         text == [i \in DOMAIN items |-> IF id = 6 THEN items[i] ELSE Strip(items[i])]
     IN  /\ Loop("items", todo \ {id})
         /\ scan' = IF Echoed(r, 0) /\ items # <<>> THEN [scan EXCEPT !.info = With(@, id, text)]
                    ELSE IF Exchanged(r) = "unsupported" THEN scan ELSE Noted(r)

WalkFrame(r) == step = "walk2" /\ Taken(r) /\ UNCHANGED surveyRest /\ WalkFor(r, "frames")

-----------------------------------------------------------------------------
(* What the rules see: build_facts. *)

Only(there, facts) == IF there THEN facts ELSE <<>>
Total(seq, F(_)) == FoldLeft(LAMBDA sum, x : sum + F(x), 0, seq)
\* The first that all the others do not exceed.
Largest(seq, F(_)) ==
  seq[Min({i \in DOMAIN seq : \A j \in DOMAIN seq : F(seq[j]) <= F(seq[i])})]

Primary(ss) ==
  LET engines == SelectSeq(ss, LAMBDA s : s.name = Engine)
  IN  IF engines # <<>> THEN Head(engines)
      ELSE Largest(ss, LAMBDA s : Cardinality(DOMAIN s.readings))

\* The VIN of the car, and that of every module that reports one.
VinOf(ss) ==
  LET known == SelectSeq(ss, LAMBDA s : 2 \in DOMAIN s.info /\ s.info[2][1] # <<>>)
  IN  IF known = <<>> THEN <<>> ELSE Head(known).info[2][1]
ModuleVins(ss, rs) ==
  LET own   == SelectSeq(ss, LAMBDA s : s.moduleVin # <<>>)
      others == SelectSeq(rs, LAMBDA x : "vin" \in DOMAIN x.values /\ x.values["vin"] # <<>>)
  IN  [i \in DOMAIN own |-> own[i].moduleVin] \o [i \in DOMAIN others |-> others[i].values["vin"]]

Odometers(rs) == SelectSeq(rs, LAMBDA x : "odometer_km" \in DOMAIN x.values)

PidName == (5 :> "pid.coolant_temp") @@ (7 :> "pid.ltft_bank1") @@ (9 :> "pid.ltft_bank2")
  @@ (31 :> "pid.run_time_since_start") @@ (33 :> "pid.distance_with_mil_on")
  @@ (49 :> "pid.distance_since_codes_cleared") @@ (66 :> "pid.control_module_voltage")
  @@ (166 :> "pid.odometer")

\* Of the ranges of mode01-pids.yaml only that of the trims, to 99.2 percent, leaves out a value
\* that the encoding has. What is out of range is no fact.
Inside(pid, v) == pid \in Trims => 10 * v <= 992 * 128
Facts(ss, rs) ==
  LET status == SelectSeq(ss, LAMBDA s : 1 \in DOMAIN s.readings)
      Of(i)  == status[i].readings[1]
      monitors == UNION {Of(i).supported : i \in DOMAIN status}
      complete == {name \in monitors : \A i \in DOMAIN status :
                     name \in Of(i).supported => name \in Of(i).complete}
      pids == IF ss = <<>> THEN <<>> ELSE Primary(ss).readings
      vins == ModuleVins(ss, rs)
      vin  == IF VinOf(ss) # <<>> THEN VinOf(ss) ELSE Head(vins)
      odo  == Odometers(rs)
      Km(x) == x.values["odometer_km"]
  IN  ("vehicle.ecu_count" :> Len(ss))
   @@ ("dtc.stored_count" :> Total(ss, LAMBDA s : Len(s.stored)))
   @@ ("dtc.pending_count" :> Total(ss, LAMBDA s : Len(s.pending)))
   @@ ("dtc.permanent_count" :> Total(ss, LAMBDA s : Len(s.permanent)))
   @@ ("mode06.failing_count" :> Total(ss, LAMBDA s : Len(SelectSeq(s.tests, LAMBDA t : ~Passed(t)))))
   @@ Only(status # <<>>,
        ("status.dtc_count" :> Total(status, LAMBDA s : s.readings[1].count))
        @@ ("status.mil_on" :> Truth(\E i \in DOMAIN status : Of(i).mil)))
   @@ Only(monitors # {},
        ("readiness.supported_count" :> Cardinality(monitors))
        @@ ("readiness.incomplete_count" :> Cardinality(monitors \ complete)))
   @@ [name \in {PidName[p] : p \in {q \in DOMAIN pids \cap DOMAIN PidName : Inside(q, pids[q])}} |->
         pids[CHOOSE p \in DOMAIN PidName : PidName[p] = name]]
   @@ Only(car.claimed # {}, "vehicle.claimed_odometer_km" :> Min(car.claimed))
   @@ Only(vins # <<>>,
        "uds.vin_mismatch_count" :> Len(SelectSeq(vins, LAMBDA v : v # vin)))
   @@ Only(Len(odo) >= 2,
        "vehicle.odometer_spread_km" :>
          Km(Largest(odo, Km)) - Km(Largest(odo, LAMBDA x : -Km(x))))

-----------------------------------------------------------------------------
(* After the modules on OBD-II: the profile, and what a sweep finds. *)

\* The profile with the longest prefix of the VIN; a fictional one never applies.
Matching(p, vin) ==
  {prefix \in p.prefixes : ~p.fictional /\ SubSeq(vin, 1, Len(prefix)) = prefix}
ProfileFor(vin) ==
  LET candidates == {p \in Profiles : vin # <<>> /\ Matching(p, vin) # {}}
      Longest(p) == Max({Len(prefix) : prefix \in p.prefixes})
  IN  IF candidates = {} THEN <<>>
      ELSE (CHOOSE p \in candidates : \A q \in candidates : Longest(q) <= Longest(p)).modules

\* Modules that a sweep adds: not on OBD-II, and not in the profile.
FoundBySweep(described) ==
  LET found == {name \in car.others : \A i \in DOMAIN described : described[i].name # name}
  IN  IF Discovers THEN [i \in 1 .. Cardinality(found) |->
                           [name |-> SetToSeq(found)[i], kind |-> "found", session |-> 3]]
      ELSE <<>>

\* On to the next module of q, or to the verdicts.
Advance(q, ss, rs) ==
  /\ left' = <<>> /\ queue' = q /\ readings' = rs
  /\ IF q = <<>>
     THEN /\ Go("done", {}) /\ verdicts' = Evaluate(Facts(ss, rs))
          /\ UNCHANGED reading
     ELSE /\ Go(IF Head(q).kind = "profile" THEN "present" ELSE "open", {})
          /\ reading' = NewReading(Head(q).name)
          /\ UNCHANGED verdicts

\* Nothing on OBD-II is left: the profile is chosen by the VIN, which is known now.
Outside(ss) == LET plan == ProfileFor(VinOf(ss)) IN Advance(plan \o FoundBySweep(plan), ss, <<>>)

\* The modules that the broadcast finds: once each, in the order of their identifiers;
\* one may miss it.
Answering(missing) == Kept(car.obd, {name \in Range(car.obd) : \A i \in missing : car.obd[i] # name})
Discover ==
  /\ step = "discover"
  /\ \E missing \in SUBSET {i \in DOMAIN car.obd : trouble < Failures[car]} :
       LET found == Answering(missing)
       IN  /\ Cardinality(missing) + trouble <= Failures[car]
           /\ trouble' = trouble + Cardinality(missing)
           /\ lost' = {[at |-> car.obd[i], step |-> "discover", id |-> 0, how |-> "silence"] :
                         i \in missing}
           /\ IF found = <<>> THEN Outside(<<>>) /\ UNCHANGED scan
              ELSE /\ left' = found /\ scan' = NewScan(Head(found)) /\ Go("supported", {})
                   /\ UNCHANGED <<queue, reading, readings, verdicts>>
  /\ UNCHANGED <<car, attempt, due, slow, scans, session>>

\* The VIN that the module itself holds; whatever goes wrong, it has none. Then the next.
ReadModuleVin(r) ==
  /\ step = "moduleVin" /\ Taken(r)
  /\ LET vin  == IF Echoed(r, 0) THEN Strip(Data(r)) ELSE <<>>
         done == Append(scans, [scan EXCEPT !.moduleVin = vin])
     IN  /\ scans' = done
         /\ IF Len(left) > 1
            THEN /\ left' = Tail(left) /\ scan' = NewScan(left[2]) /\ Go("supported", {})
                 /\ UNCHANGED <<queue, reading, readings, verdicts>>
            ELSE Outside(done) /\ UNCHANGED scan
  /\ UNCHANGED session

\* A module of the profile: does it answer at all? A fault of the link ends the scan.
Abort == Go("aborted", {}) /\ UNCHANGED <<left, queue, reading, readings, verdicts>>
Present(r) ==
  /\ step = "present" /\ Taken(r) /\ UNCHANGED <<scan, scans, session>>
  /\ CASE r.how = "fault" -> Abort
       [] r.how # "fault" /\ Exchanged(r) \in {"silence", "broken"} ->
            Advance(Tail(queue), scans, Append(readings, reading))
       [] OTHER -> /\ reading' = [reading EXCEPT !.reached = TRUE] /\ Go("session", {})
                   /\ UNCHANGED <<left, queue, readings, verdicts>>

\* The module may have switched although its answer did not come.
Switched(r) ==
  LET to == [session EXCEPT ![Module] = Head(queue).session]
  IN  session' \in IF Module \notin DOMAIN car.spec THEN {session}
                   ELSE IF r = Bytes(Answer(Current)) THEN {to} ELSE {session, to}
StartSession(r) ==
  /\ step = "session" /\ Taken(r) /\ Switched(r) /\ UNCHANGED <<scan, scans>>
  /\ IF r.how = "fault" THEN Abort
     ELSE /\ Go("reads", DOMAIN Head(queue).reads)
          /\ UNCHANGED <<left, queue, reading, readings, verdicts>>

\* One read of the profile: what does not fit its definition is kept out of the values.
Number(d) == FoldLeft(LAMBDA n, b : 256 * n + b, 0, d)
Decoded(read, d) ==
  IF read.type = "ascii" THEN Strip(d) ELSE Number(SubSeq(d, 1, read.length))
\* Mutant: an identifier that cannot be read is taken for zero.
ReadZero(r) ==
  LET read  == Head(queue).reads[Min(todo)]
      value == IF Echoed(r, read.length) THEN Decoded(read, Data(r))
               ELSE IF read.type = "ascii" THEN <<>> ELSE 0
      after == [reading EXCEPT !.values = With(@, read.id, value)]
  IN  /\ step = "reads" /\ Taken(r) /\ UNCHANGED <<scan, scans, session>>
      /\ IF r.how = "fault" THEN Abort
         ELSE IF todo = {Min(todo)} THEN Advance(Tail(queue), scans, Append(readings, after))
         ELSE /\ todo' = todo \ {Min(todo)} /\ reading' = after
              /\ UNCHANGED <<step, base, walked, left, queue, readings, verdicts>>
Read(r) ==
  LET read  == Head(queue).reads[Min(todo)]
      value == Decoded(read, Data(r))
      Into(field) == [reading EXCEPT ![field] = @ \cup {read.id}]
      after ==
        CASE Exchanged(r) = "protected" -> Into("protected")
          [] Exchanged(r) # "protected" /\ ~Echoed(r, read.length) -> Into("unavailable")
          [] Echoed(r, read.length) /\ (read.type = "ascii" \/ value <= read.max) ->
               [reading EXCEPT !.values = With(@, read.id, value)]
          [] OTHER -> Into("implausible")
  IN  /\ step = "reads" /\ Taken(r) /\ UNCHANGED <<scan, scans, session>>
      /\ IF r.how = "fault" THEN Abort
         ELSE IF todo = {Min(todo)} THEN Advance(Tail(queue), scans, Append(readings, after))
         ELSE /\ todo' = todo \ {Min(todo)} /\ reading' = after
              /\ UNCHANGED <<step, base, walked, left, queue, readings, verdicts>>

\* A module that the sweep found: it is left out when the link fails, or when it
\* identifies itself by nothing.
StandardDids ==
  [did \in {61831, VinDid} |-> IF did = VinDid THEN "vin" ELSE "manufacturer_spare_part_number"]
Open(r) ==
  /\ step = "open" /\ Taken(r) /\ Switched(r) /\ UNCHANGED <<scan, scans>>
  /\ IF r.how = "fault" THEN Advance(Tail(queue), scans, readings)
     ELSE /\ Go("identify", DOMAIN StandardDids)
          /\ UNCHANGED <<left, queue, reading, readings, verdicts>>
Identify(r) ==
  LET name  == StandardDids[Min(todo)]
      after == IF Echoed(r, 0)
               THEN [reading EXCEPT !.reached = TRUE, !.values = With(@, name, Strip(Data(r)))]
               ELSE reading
      kept  == IF DOMAIN after.values = {} THEN readings ELSE Append(readings, after)
  IN  /\ step = "identify" /\ Taken(r) /\ UNCHANGED <<scan, scans, session>>
      /\ IF r.how = "fault" THEN Advance(Tail(queue), scans, readings)
         ELSE IF todo = {Min(todo)} THEN Advance(Tail(queue), scans, kept)
         ELSE /\ todo' = todo \ {Min(todo)} /\ reading' = after
              /\ UNCHANGED <<step, base, walked, left, queue, readings, verdicts>>

-----------------------------------------------------------------------------

Init ==
  /\ car \in Cars /\ step = "discover"
  /\ left = <<>> /\ queue = <<>> /\ base = 0 /\ walked = {} /\ todo = {}
  /\ attempt = 0 /\ due = {} /\ slow = {}
  /\ scan = <<>> /\ scans = <<>> /\ reading = <<>> /\ readings = <<>>
  /\ session = [name \in DOMAIN car.spec |-> 1]
  /\ verdicts = <<>> /\ trouble = 0 /\ lost = {}

Asking == step \notin {"discover", "done", "aborted"}
Reply(r) ==
  \/ Supported(r) \/ Walk(r) \/ ReadLive(r) \/ ReadCodes(r) \/ WalkTests(r) \/ ReadTest(r)
  \/ ReadItemSupport(r) \/ ReadItem(r) \/ WalkFrame(r) \/ ReadFrame(r) \/ ReadModuleVin(r)
  \/ Present(r) \/ StartSession(r) \/ Read(r) \/ Open(r) \/ Identify(r)

Next == Discover \/ Pending \/ (Asking /\ \E r \in Replies : Reply(r))

Spec == Init /\ [][Next]_vars

-----------------------------------------------------------------------------
(* What the car would say of itself, without a scan. *)

\* A value as a decoder gives it: a distance saturates at 16 bits, and a trim is the nearest
\* step.
NearestTrim(v) == CHOOSE t \in {100 * k : k \in -128 .. 127} : t - 128 * v \in -50 .. 50
Shown(pid, v) ==
  CASE pid = 1 -> [mil |-> v.mil, count |-> v.count, ignition |-> v.ignition,
                   supported |-> v.supported, complete |-> v.supported \ v.incomplete]
    [] pid \in Words -> Clamp(v, 0, WordMax)
    [] pid \in Trims -> NearestTrim(v)
    [] OTHER -> v

Own == [i \in DOMAIN car.obd |-> car.spec[car.obd[i]]]
Flat(field) == FlattenSeq([i \in DOMAIN Own |-> Own[i][field]])
TrueVin(m) == IF 2 \in DOMAIN m.info THEN m.info[2][1] ELSE <<>>
\* A read of the profile that the module can answer with a plausible value, in some session.
Plausible(m, read) ==
  /\ read.did \in DOMAIN m.dids \ m.protected
  /\ Len(m.dids[read.did]) >= read.length
  /\ read.type = "ascii" \/ Number(SubSeq(m.dids[read.did], 1, read.length)) <= read.max
Readable(m, x, read) == Plausible(m, read) /\ (x.session = 3 \/ read.did \notin m.extended)
CarVins == SelectSeq([i \in DOMAIN Own |-> TrueVin(Own[i])], LAMBDA v : v # <<>>)
TruePlan == IF CarVins = <<>> THEN <<>> ELSE ProfileFor(CarVins[1])
TrueOdometers ==
  UNION {{[at |-> TruePlan[i].name,
           km |-> Number(SubSeq(car.spec[TruePlan[i].name].dids[read.did], 1, read.length))] :
            read \in {x \in Range(TruePlan[i].reads) : x.id = "odometer_km" /\
                        TruePlan[i].name \in DOMAIN car.spec /\
                        Readable(car.spec[TruePlan[i].name], TruePlan[i], x)}} :
         i \in DOMAIN TruePlan}
\* Modules that a VIN is asked of: those on OBD-II and those that a sweep adds.
TrueVins ==
  {Strip(car.spec[name].dids[VinDid]) :
     name \in {n \in Range(car.obd) \cup
                    (IF Discovers THEN car.others \ {TruePlan[i].name : i \in DOMAIN TruePlan}
                     ELSE {}) : VinDid \in DOMAIN car.spec[n].dids \ car.spec[n].protected}}

Judged(known, bad) == IF ~known THEN "skipped" ELSE IF bad THEN "found" ELSE "passed"
Expected ==
  LET engine == car.spec[Engine].pids
      On(pid) == /\ Engine \in Range(car.obd) /\ pid \in DOMAIN engine
                 /\ pid \in Trims => engine[pid] # 99
      counting == SelectSeq(Own, LAMBDA m : 1 \in DOMAIN m.pids)
      counted == FoldLeft(LAMBDA n, m : n + m.pids[1].count, 0, counting)
      status == {m.pids[1] : m \in {x \in Range(Own) : 1 \in DOMAIN x.pids}}
      monitors == UNION {m.supported : m \in status}
      undone == UNION {m.supported \cap m.incomplete : m \in status}
      stored == Len(Flat("stored"))
  IN  [permanent_dtcs_present |-> Judged(TRUE, Flat("permanent") # <<>>),
       recent_code_clear |-> Judged(monitors # {} /\ On(49),
         Cardinality(undone) >= 2 /\ stored = 0 /\ engine[49] < 80),
       monitors_incomplete |-> Judged(monitors # {} /\ On(49), undone # {} /\ engine[49] >= 80),
       dtc_count_disagreement |-> Judged(status # {},
         counted # stored),
       mil_off_but_faults_stored |-> Judged(status # {},
         (\A m \in status : ~m.mil) /\ stored > 0),
       mil_on |-> Judged(status # {}, \E m \in status : m.mil),
       mil_driven_far |-> Judged(On(33), engine[33] > 500),
       pending_dtcs_present |-> Judged(TRUE, Flat("pending") # <<>>),
       fuel_trim_excessive_bank1 |-> Judged(On(7), engine[7] \notin -10 .. 10),
       fuel_trim_excessive_bank2 |-> Judged(On(9), engine[9] \notin -10 .. 10),
       fuel_trim_banks_diverge |-> Judged(On(7) /\ On(9), engine[7] - engine[9] \notin -10 .. 10),
       coolant_not_reaching_temperature |->
         Judged(On(31) /\ On(5), engine[31] > 600 /\ engine[5] < 70),
       control_module_voltage_low |->
         Judged(On(31) /\ On(66), engine[31] > 30 /\ engine[66] < 13000),
       control_module_voltage_high |->
         Judged(On(31) /\ On(66), engine[31] > 30 /\ engine[66] > 15200),
       cross_ecu_odometer_mismatch |-> Judged(Cardinality(TrueOdometers) > 1,
         \E x, y \in TrueOdometers : x.km - y.km > 1000),
       module_vin_mismatch |-> Judged(TrueVins # {},
         \E v, w \in TrueVins \cup {CarVins[i] : i \in DOMAIN CarVins \cap {1}} : v # w),
       odometer_disagrees_with_advertised |-> Judged(On(166) /\ car.claimed # {},
         \E km \in car.claimed : km - engine[166] \notin -1000 .. 1000)]

-----------------------------------------------------------------------------
(* Properties. *)

TypeOK ==
  /\ car \in Cars /\ Range(left) \subseteq DOMAIN car.spec
  /\ base \in {32 * i : i \in 0 .. 7} /\ walked \subseteq 1 .. 255
  /\ attempt \in 0 .. 2 /\ trouble \in 0 .. Failures[car]
  /\ \A name \in DOMAIN session : session[name] \in {1, 3}
  /\ step \in {"walk", "pids", "walk6", "tests", "info", "items", "walk2", "frames"} => left # <<>>
  /\ step \in {"pids", "tests", "items", "frames", "reads", "identify", "info"} => todo # {}

\* Whatever goes wrong, a scan holds nothing that the car would not have said: every
\* value, code, test result and identifier is that module's own, under its own name, and a list
\* of codes is whole or empty. A late answer is never taken for the answer to another request
\* (obd2.py:238-241 and uds.py:356-358 compare the echo for this), or, in mode 06, which
\* does not compare (obd2.py:355-359), it counts for what it says it is. There no result is
\* taken twice, unless the module put such a request off: it is then asked again
\* (obd2.py:204-207), answers twice, and the second answer may be taken for the next monitor's.
OwnValues(values, pids) ==
  \A pid \in DOMAIN values : pid \in DOMAIN pids /\ values[pid] = Shown(pid, pids[pid])
ScanIsOwn(spec, s) ==
  LET m == spec[s.name]
  IN  /\ OwnValues(s.readings, m.pids) /\ OwnValues(s.frame, m.frame)
      /\ \A mode \in {"stored", "pending", "permanent"} : s[mode] \in {<<>>, m[mode]}
      /\ Range(s.tests) \subseteq Range(m.tests)
      /\ \A id \in DOMAIN s.info : id \in DOMAIN m.info /\ s.info[id] = m.info[id]
      /\ s.moduleVin # <<>> =>
           VinDid \in DOMAIN m.dids \ m.protected /\ s.moduleVin = Strip(m.dids[VinDid])
OnceEach(m, s) ==
  \A id \in MonitorIds(m) :
    Kept(s.tests, OfMonitor(m, id)) \in {<<>>, Kept(m.tests, OfMonitor(m, id))}
ByProfile(m, name, id, value) ==
  \E p \in Profiles : \E g \in Range(p.modules) : \E read \in Range(g.reads) :
    g.name = name /\ read.id = id /\ Plausible(m, read) /\ value = Decoded(read, m.dids[read.did])
ByStandard(m, id, value) ==
  \E did \in DOMAIN StandardDids \cap (DOMAIN m.dids \ m.protected) :
    StandardDids[did] = id /\ value = Strip(m.dids[did])
ReadingIsOwn(spec, x) ==
  \A id \in DOMAIN x.values :
    /\ x.name \in DOMAIN spec
    /\ \/ ByProfile(spec[x.name], x.name, id, x.values[id])
       \/ ByStandard(spec[x.name], id, x.values[id])
NothingInvented ==
  /\ \A s \in Range(scans) :
       ScanIsOwn(car.spec, s) /\ (s.name \notin slow => OnceEach(car.spec[s.name], s))
  /\ \A x \in Range(readings) : ReadingIsOwn(car.spec, x)


\* A module holds another VIN than the car or another module: also one of the profile, of
\* which a scan reads only what the profile lists.
ForeignPart ==
  LET vins == {Strip(m.dids[VinDid]) : m \in {x \in Range(car.spec) : VinDid \in DOMAIN x.dids}}
  IN  \E v, w \in vins \cup Range(CarVins) : v # w

\* Whatever was not answered, no rule but three finds fault with a car that has none.
\* The three compare two answers: one of a pair that is missing may mislead them.
Comparing == {"dtc_count_disagreement", "recent_code_clear", "mil_off_but_faults_stored"}
FindingsAreDeserved ==
  step = "done" => \A id \in DOMAIN verdicts \ Comparing :
                     verdicts[id] = "found" =>
                       Expected[id] = "found" \/ (id = "module_vin_mismatch" /\ ForeignPart)

\* A request that was not answered costs what it asks for, and little else: a bitmap
\* costs what it lists, in mode 06 all results; a fault of the link costs all readings,
\* or all results, of the module in hand.
Trouble(name, s, ids) == \E l \in lost : l.at = name /\ l.step = s /\ l.id \in ids
Fault(name, s) == \E l \in lost : l.at = name /\ l.step = s /\ l.how = "fault"
LossIsLocal ==
  step = "done" =>
    /\ \A name \in Range(car.obd) :
         ~Trouble(name, "discover", {0}) => \E s \in Range(scans) : s.name = name
    /\ \A s \in Range(scans) :
         LET m == car.spec[s.name]
         IN  /\ \A pid \in DOMAIN m.pids :
                  \/ pid \in DOMAIN s.readings
                  \/ Trouble(s.name, "pids", {pid}) \/ Trouble(s.name, "walk", 0 .. pid)
                  \/ Fault(s.name, "pids") \/ Fault(s.name, "walk")
             /\ \A mode \in {"stored", "pending", "permanent"} :
                  s[mode] = m[mode] \/ Trouble(s.name, mode, {0})
             /\ \A i \in DOMAIN m.tests :
                  \/ m.tests[i] \in Range(s.tests)
                  \/ Trouble(s.name, "tests", {m.tests[i].monitor}) \/ Trouble(s.name, "walk6", 0 .. 255)
                  \/ Fault(s.name, "tests")
             /\ \A id \in DOMAIN m.info :
                  id \in DOMAIN s.info \/ Trouble(s.name, "items", {id}) \/ Fault(s.name, "info")

\* inspection.yaml:10-12, rules.py:3-7: "A car that refuses to answer must never be
\* reported as healthy on the strength of that silence." A rule about fault codes that
\* passed, though the mode it is about was not answered by some module, does just that.
SilenceIsNotHealth ==
  step = "done" =>
    /\ verdicts["permanent_dtcs_present"] = "passed" => ~\E l \in lost : l.step = "permanent"
    /\ verdicts["pending_dtcs_present"] = "passed" => ~\E l \in lost : l.step = "pending"
=============================================================================
