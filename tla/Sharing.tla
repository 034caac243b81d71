------------------------------ MODULE Sharing -------------------------------
(***************************************************************************)
(* What leaves the house: the documents that sweeps are written to, with   *)
(* the VIN taken out on request (DidScanReport.as_dict in                  *)
(* src/src/carpi/core/didscan.py), and the observation that several of     *)
(* them are reduced to before anything is offered for publication          *)
(* (observe in src/src/carpi/core/candidates.py). The values a module      *)
(* holds are numbered; Content says what is to be told about each.         *)
(***************************************************************************)
EXTENDS Sweep

CONSTANTS Content,   \* of a value: its length, whether it is printable, and whether it holds the VIN
          Standard,  \* identifiers that have a name in ISO 14229
          Named,     \* what an inspection report says of a module: names, and their values
          IsoNames,  \* which of the names are those of ISO 14229
          Numbers,   \* the numbers among the facts of that report
          MaxDocuments

\* The values that a module holds are those that Content tells of; 0 is none.
Values == 1 .. Len(Content)

ASSUME SharingAssumption ==
  /\ Content \in Seq([length : Nat, text : BOOLEAN, vin : BOOLEAN]) /\ MaxDocuments \in Nat
  /\ \A m \in Modules : \A d \in DOMAIN Holds[m] : Holds[m][d].value \in {0} \cup Values

VARIABLES docs,      \* the documents written so far
          shared     \* what observe made of them

allvars == <<vars, docs, shared>>

Nothing == [refused |-> FALSE, prefix |-> FALSE, modules |-> <<>>]
SharingInit == Init /\ docs = <<>> /\ shared = Nothing

-----------------------------------------------------------------------------
(* The documents. *)

Redacted == -1

\* With the VIN known, a payload that contains it is redacted, bytes and text.
Entry(row, redact) ==
  LET hidden == redact /\ row.value # 0 /\ Content[row.value].vin
  IN  [did |-> row.did, status |-> row.status, raw |-> IF hidden THEN Redacted ELSE row.value,
       text |-> row.value # 0 /\ ~hidden /\ Content[row.value].text]
Document(anonymise) ==
  [schema |-> "didscan", module |-> [spelled |-> "label", pair |-> scan.pair],
   vin |-> scan.vin /\ ~anonymise, anonymised |-> anonymise, known |-> scan.vin,
   entries |-> [i \in DOMAIN scan.rows |-> Entry(scan.rows[i], anonymise /\ scan.vin)]]

\* The report of a whole scan names the same module by its two identifiers.
Report ==
  [schema |-> "inspection", module |-> [spelled |-> "identifiers", pair |-> scan.pair],
   vin |-> TRUE, anonymised |-> FALSE, known |-> TRUE, readings |-> Named, facts |-> Numbers]

-----------------------------------------------------------------------------
(* The observation. *)

IsHex(raw) == raw > 0

\* The structure of an identifier and none of its contents.
With(present, field, what) == IF present THEN [x \in {field} |-> what] ELSE <<>>
\* Mutant: what a short payload holds is kept.
ShapeAndValue(e) ==
  With(TRUE, "status", e.status)
    @@ With(IsHex(e.raw), "length", Content[e.raw].length)
    @@ With(IsHex(e.raw) /\ Content[e.raw].length < 3, "raw", e.raw)
    @@ With(IsHex(e.raw), "type", IF e.text THEN "ascii" ELSE "uint")
    @@ With(e.did \in Standard, "standard_name", e.did)
Shape(e) ==
  With(TRUE, "status", e.status)
    @@ With(IsHex(e.raw), "length", Content[e.raw].length)
    @@ With(IsHex(e.raw), "type", IF e.text THEN "ascii" ELSE "uint")
    @@ With(e.did \in Standard, "standard_name", e.did)

\* A sweep tells of what exists, by number; the last word on a number counts.
LastOn(doc, d) ==
  LET I == {i \in DOMAIN doc.entries : doc.entries[i].did = d /\ Exists(doc.entries[i])}
  IN  doc.entries[CHOOSE i \in I : \A j \in I : j <= i]
Swept(doc) ==
  [d \in {doc.entries[i].did : i \in {j \in DOMAIN doc.entries : Exists(doc.entries[j])}} |->
     Shape(LastOn(doc, d))]

\* A report tells of names, which are ISO's or the definition file's own.
Reported(doc) ==
  [n \in DOMAIN doc.readings |->
     With(TRUE, "status", "data")
       @@ With(TRUE, IF n \in IsoNames THEN "standard_name" ELSE "read_id", n)]

\* Both spellings of a pair of addresses are the same module.
Canonical(module) == module.pair

Told(doc) ==
  [at |-> Canonical(doc.module),
   dids  |-> IF doc.schema = "didscan" THEN Swept(doc) ELSE <<>>,
   names |-> IF doc.schema = "didscan" THEN <<>> ELSE Reported(doc)]

\* What a later sweep says of a number replaces what is there; a report only adds.
Gathered(sofar, told) ==
  LET old == IF told.at \in DOMAIN sofar THEN sofar[told.at] ELSE [dids |-> <<>>, names |-> <<>>]
      new == [dids |-> told.dids @@ old.dids, names |-> old.names @@ told.names]
  IN  [x \in {told.at} |-> new] @@ sofar
Reduced(documents) ==
  [refused |-> FALSE, prefix |-> \E i \in DOMAIN documents : documents[i].vin,
   modules |-> FoldLeft(Gathered, <<>>, [i \in DOMAIN documents |-> Told(documents[i])])]

-----------------------------------------------------------------------------
(* The last check: does a value of the sources occur in the observation?   *)
(* Short ones are not looked for, since they would be found by chance.     *)

\* Identifiers are written with four digits here; a number is found where its digits are.
Payloads(documents) ==
  UNION {{documents[i].entries[j].raw : j \in DOMAIN documents[i].entries} :
           i \in {k \in DOMAIN documents : documents[k].schema = "didscan"}}
    \cup UNION {{documents[i].readings[n] : n \in DOMAIN documents[i].readings} :
           i \in {k \in DOMAIN documents : documents[k].schema = "inspection"}}
Needles(documents) ==
  {v \in Payloads(documents) : IsHex(v) /\ Content[v].length >= (IF Content[v].text THEN 4 ELSE 3)}
FactNeedles(documents) ==
  UNION {{n \in documents[i].facts : n >= 1000} :
           i \in {k \in DOMAIN documents : documents[k].schema = "inspection"}}

Fields == {"status", "length", "type", "standard_name", "read_id"}
ShapesOf(m) == {m.dids[d] : d \in DOMAIN m.dids}
Carried(observation) ==
  UNION {UNION {{s[f] : f \in DOMAIN s \ Fields} : s \in ShapesOf(observation.modules[at])} :
           at \in DOMAIN observation.modules}
Digits(observation) == UNION {DOMAIN observation.modules[at].dids : at \in DOMAIN observation.modules}
Leaks(observation, documents) ==
  \/ Carried(observation) \cap Needles(documents) # {}
  \/ Digits(observation) \cap FactNeedles(documents) # {}

Observe(documents) ==
  LET observation == Reduced(documents)
  IN  IF Leaks(observation, documents) THEN [Nothing EXCEPT !.refused = TRUE] ELSE observation

-----------------------------------------------------------------------------
Write(anonymise) ==
  /\ stage = "scanned" /\ Len(docs) < MaxDocuments
  /\ docs' = Append(docs, Document(anonymise))
  /\ stage' = "written"
  /\ UNCHANGED <<bus, stopped, spent, scan, line, log, shared>>

WriteReport ==
  /\ stage = "written" /\ Len(docs) < MaxDocuments
  /\ docs' = Append(docs, Report)
  /\ UNCHANGED <<vars, shared>>

\* Another sweep of the same module, from the beginning.
Again(vin) ==
  /\ stage = "written" /\ Len(docs) < MaxDocuments
  /\ Begun(scan.pair, vin, {}) /\ log' = <<>>
  /\ UNCHANGED <<bus, spent, line, docs, shared>>

Share ==
  /\ stage = "written"
  /\ shared' = Observe(docs)
  /\ stage' = "shared"
  /\ UNCHANGED <<bus, stopped, spent, scan, line, log, docs>>

SharingNext ==
  \/ (AddressNext \/ DidNext) /\ UNCHANGED <<docs, shared>>
  \/ WriteReport \/ Share
  \/ \E anonymise \in BOOLEAN : Write(anonymise)
  \/ \E vin \in BOOLEAN : Again(vin)

Spec == SharingInit /\ [][SharingNext]_allvars

TypeOK ==
  /\ stage \in {"listen", "probe", "window", "swept", "scan", "killed", "scanned", "written", "shared"}
  /\ next \in Low .. High + 1 /\ stopped \in BOOLEAN
  /\ ambient \subseteq Ids /\ overdue \subseteq Ids /\ missed \subseteq Ids
  /\ coming \subseteq UNION {Answers(a) : a \in Low .. High}
  /\ \A i \in DOMAIN heard : heard[i].id \in Ids /\ heard[i].probe \in {0} \cup Low .. High
  /\ modules \subseteq [req : Low .. High, rsp : Ids, negative : BOOLEAN]
  /\ spent.noise \in 0 .. MaxNoise /\ spent.failures \in 0 .. MaxFailures
  /\ spent.faults \in 0 .. MaxFaults
  /\ scan.pair \in Pairs /\ scan.errors \in 0 .. MaxErrors /\ scan.silence \in 0 .. MaxSilence
  /\ scan.aborted \in {"no", "errors", "silence", "stopped"} /\ scan.runs \in 0 .. MaxRuns
  /\ line \in {"good", "gone", "garbled"}
  /\ Len(docs) <= MaxDocuments /\ shared.refused \in BOOLEAN

-----------------------------------------------------------------------------
\* What is published is the same for any two cars of a platform whose modules hold
\* identifiers of the same shape: no value makes a difference to an observation that is
\* not refused, not even a short one, which the last check does not look for. And a sweep
\* written to be shared holds the VIN nowhere, if the sweep had been told it
\* (candidates.py:283-298 and 395-477, didscan.py:153-170).
SameShape(v, w) ==
  Content[v].length = Content[w].length /\ Content[v].text = Content[w].text
Substitute(v) == IF v > 0 THEN CHOOSE w \in DOMAIN Content : SameShape(v, w) ELSE v
BlankedEntries(entries) == [i \in DOMAIN entries |-> [entries[i] EXCEPT !.raw = Substitute(@)]]
BlankedReadings(readings) == [n \in DOMAIN readings |-> Substitute(readings[n])]
Blanked(doc) ==
  IF doc.schema = "didscan"
  THEN [doc EXCEPT !.entries = BlankedEntries(doc.entries)]
  ELSE [doc EXCEPT !.readings = BlankedReadings(doc.readings), !.facts = {}]
SharedTellsNoCar ==
  /\ stage = "shared" /\ ~shared.refused =>
       shared = Reduced([i \in DOMAIN docs |-> Blanked(docs[i])])
  /\ \A i \in DOMAIN docs : docs[i].anonymised /\ docs[i].known =>
       \A j \in DOMAIN docs[i].entries :
         IsHex(docs[i].entries[j].raw) => ~Content[docs[i].entries[j].raw].vin
=============================================================================
