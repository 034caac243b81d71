---------------------------- MODULE CodingProofs ----------------------------
(***************************************************************************)
(* Theorems about Coding for every set of targets and values, every length *)
(* limit and every number of commands and seconds.                         *)
(***************************************************************************)
EXTENDS Coding, TLAPS, SequenceTheorems

-----------------------------------------------------------------------------
(* Type correctness. *)

\* What a read returns is a value: used for CodingPlan.previous.
LEMMA ReadingType ==
  ASSUME NEW v \in Bytes, NEW r \in Readings(v)
  PROVE  r \in Bytes
<1>1. <<0>> \in Seq(Nat)
  OBVIOUS
<1>2. v \o <<0>> \in Seq(Nat)
  BY <1>1, ConcatProperties DEF Bytes
<1>3. QED BY <1>2 DEF Readings, Bytes

\* The parts of the command in progress, and the restore point of its plan.
LEMMA CommandParts ==
  ASSUME TypeOK
  PROVE  /\ target \in Targets /\ intended \in Bytes
         /\ \A time \in Times :
              [stamp |-> time, target |-> target, previous |-> previous,
               intended |-> intended] \in RestorePoints
BY DEF TypeOK, Commands, RestorePoints, target, intended

\* A step of any kind keeps the types.
LEMMA TypeStep == TypeOK /\ [Next]_vars => TypeOK'
<1> SUFFICES ASSUME TypeOK, [Next]_vars PROVE TypeOK'
  OBVIOUS
<1> USE DEF Steps, Results
<1>1. CASE Tick
  BY <1>1, CodingAssumption DEF TypeOK, Tick, Times, carVars, diskVars, planVars, historyVars
<1>2. CASE StoreLate
  BY <1>2 DEF TypeOK, StoreLate, diskVars, planVars
<1>3. ASSUME NEW c \in Commands, Start(c) PROVE TypeOK'
  <2>1. commands' \in 0 .. MaxCommands
    BY <1>3, CodingAssumption DEF TypeOK, Start
  <2>2. QED BY <1>3, <2>1 DEF TypeOK, Start, carVars, diskVars
<1>4. CASE StartNew
  <2>1. PICK k \in {"plan", "apply"}, t \in Targets, v \in Values :
          Start([kind |-> k, target |-> t, intended |-> v])
    BY <1>4 DEF StartNew
  <2>2. [kind |-> k, target |-> t, intended |-> v] \in Commands
    BY CodingAssumption DEF Commands, Kinds
  <2>3. QED BY <2>1, <2>2, <1>3
<1>5. CASE StartRestore
  <2>1. PICK p \in archive :
          Start([kind |-> "restore", target |-> p.target, intended |-> p.previous])
    BY <1>5 DEF StartRestore
  <2>2. [kind |-> "restore", target |-> p.target, intended |-> p.previous] \in Commands
    BY DEF TypeOK, Commands, Kinds, RestorePoints
  <2>3. QED BY <2>1, <2>2, <1>3
<1>6. CASE Login
  BY <1>6 DEF TypeOK, Login, End, carVars, diskVars, historyVars
<1>7. CASE CheckLocally
  BY <1>7 DEF TypeOK, CheckLocally, End, carVars, diskVars, historyVars
<1>8. CASE ReadCurrent
  <2>1. \A r \in Readings(held[target]) : r \in Bytes
    BY ReadingType, CommandParts DEF TypeOK
  <2>2. QED BY <1>8, <2>1
            DEF TypeOK, ReadCurrent, ReadFails, End, carVars, diskVars, historyVars
<1>9. CASE Confirm
  BY <1>9 DEF TypeOK, Confirm, End, carVars, diskVars, historyVars
<1>10. CASE OpenArchive
  <2>1. /\ stamp' \in Times
        /\ archive' \in SUBSET RestorePoints
        /\ opens' \in [Times \X Targets -> Nat]
    <3>1. archive' = archive \/ archive' \subseteq archive
      BY <1>10 DEF OpenArchive, diskVars
    <3>2. CASE opens' = [opens EXCEPT ![<<now, target>>] = @ + 1]
      BY <1>10, <3>1, <3>2, CommandParts DEF TypeOK, OpenArchive, ArchiveFails, End
    <3>3. CASE UNCHANGED <<opens, stamp>>
      BY <3>1, <3>3 DEF TypeOK
    <3>4. QED BY <1>10, <3>2, <3>3 DEF OpenArchive, diskVars
  <2>2. QED BY <1>10, <2>1 DEF TypeOK, OpenArchive, ArchiveFails, End, carVars, historyVars
<1>11. CASE SaveArchive
  <2>1. archive' \in SUBSET RestorePoints
    BY <1>11, CommandParts DEF TypeOK, SaveArchive, Point
  <2>2. QED BY <1>11, <2>1 DEF TypeOK, SaveArchive, ArchiveFails, End, carVars, historyVars
<1>12. CASE WriteRaw
  <2>1. sends' \in SUBSET RestorePoints
    BY <1>12, CommandParts DEF TypeOK, WriteRaw
  <2>2. held' \in [Targets -> Bytes]
    BY <1>12, CommandParts DEF TypeOK, WriteRaw
  <2>3. late' \in SUBSET [target : Targets, value : Bytes]
    BY <1>12, CommandParts DEF TypeOK, WriteRaw
  <2>4. written' \in BOOLEAN
    BY <1>12 DEF WriteRaw, Sendable, TypeOK
  <2>5. QED BY <1>12, <2>1, <2>2, <2>3, <2>4
            DEF TypeOK, WriteRaw, WriteRaises, End, planVars, diskVars
<1>13. CASE Verify
  BY <1>13 DEF TypeOK, Verify, End, carVars, diskVars, historyVars
<1>14. CASE Crash
  BY <1>14 DEF TypeOK, Crash, End, carVars, diskVars, historyVars
<1>15. CASE UNCHANGED vars
  BY <1>15 DEF TypeOK, vars, carVars, diskVars, planVars, historyVars
<1>16. QED
  BY <1>1, <1>2, <1>4, <1>5, <1>6, <1>7, <1>8, <1>9, <1>10, <1>11, <1>12, <1>13,
     <1>14, <1>15 DEF Next

\* The initial state is well typed.
LEMMA TypeInit == Init => TypeOK
<1> SUFFICES ASSUME Init PROVE TypeOK
  OBVIOUS
<1>1. command \in Commands
  <2>1. (CHOOSE t \in Targets : TRUE) \in Targets
    BY CodingAssumption
  <2>2. <<>> \in Bytes
    BY DEF Bytes
  <2>3. QED BY <2>1, <2>2 DEF Init, Commands, Kinds
<1>2. now \in Times /\ stamp \in Times /\ commands \in 0 .. MaxCommands
  BY CodingAssumption DEF Init, Times
<1>3. opens \in [Times \X Targets -> Nat]
  BY DEF Init
<1>4. held \in [Targets -> Bytes] /\ previous \in Bytes
  BY CodingAssumption DEF Init, Bytes
<1>5. QED BY <1>1, <1>2, <1>3, <1>4 DEF Init, TypeOK, Steps, Results

\* Type correctness: whatever the module answers and wherever a command is
\* killed, the plan, the archive and the car stay within their types.
THEOREM TypeCorrect == Spec => []TypeOK
BY TypeInit, TypeStep, PTL DEF Spec

-----------------------------------------------------------------------------
(***************************************************************************)
(* The inductive invariant: what a command has established by the time it  *)
(* reaches a step, and what is on disk for the writes that were sent.      *)
(***************************************************************************)
PastCheck   == {"reading", "prompting", "archiving", "saving", "writing", "verifying"}
PastPrompt  == {"archiving", "saving", "writing", "verifying"}
HasReading  == {"prompting", "archiving", "saving", "writing"}

\* The gates a command has passed.
GatesPassed ==
  /\ pc \in PastCheck => target \notin Critical
  /\ pc \in HasReading \cup PastPrompt => command.kind # "plan"
  /\ pc \in PastPrompt => loggedIn /\ confirmed /\ previous # intended

\* A command has no result before it ends, and `written' only after its write.
ResultInStep ==
  /\ pc # "idle" => result = "none"
  /\ pc \notin {"idle", "verifying"} => ~written
  /\ pc = "idle" /\ result = "refused" => ~written

\* What is pending never belongs to a safety-critical module.
LateAllowed == \A w \in late : w.target \notin Critical

\* The file of this plan has been opened, and when it is written it is there.
PlanOnDisk ==
  /\ pc \in {"saving", "writing"} => opens[<<stamp, target>>] > 0
  /\ pc = "writing" => [stamp |-> stamp, target |-> target, previous |-> previous,
                         intended |-> intended] \in archive

\* The file of every write that was sent has been opened.
SendsOpened == \A p \in sends : opens[<<p.stamp, p.target>>] > 0

CodingInv ==
  /\ TypeOK /\ GatesPassed /\ ResultInStep /\ LateAllowed
  /\ PlanOnDisk /\ SendsOpened
  /\ CriticalUntouched /\ WritesStayUndoable

\* The disk invariants survive a step that leaves the disk, the sent writes
\* and the plan's file alone.
LEMMA DiskStays ==
  ASSUME CodingInv, UNCHANGED <<archive, opens, sends>>,
         pc' \notin {"saving", "writing"}
  PROVE  PlanOnDisk' /\ SendsOpened' /\ WritesStayUndoable'
BY DEF CodingInv, PlanOnDisk, SendsOpened, WritesStayUndoable

\* A command that ends, for whatever reason but a refusal after its write,
\* keeps the invariant as far as the car and the disk are left alone.
LEMMA EndStep ==
  ASSUME CodingInv, TypeOK',
         NEW outcome, End(outcome), outcome = "refused" => ~written',
         UNCHANGED <<carVars, archive, opens, sends>>
  PROVE  CodingInv'
<1>1. GatesPassed' /\ ResultInStep' /\ PlanOnDisk'
  BY DEF End, GatesPassed, ResultInStep, PlanOnDisk, PastCheck, PastPrompt, HasReading
<1>2. LateAllowed' /\ CriticalUntouched' /\ SendsOpened' /\ WritesStayUndoable'
  BY DEF CodingInv, LateAllowed, CriticalUntouched, SendsOpened, WritesStayUndoable, carVars
<1>3. QED BY <1>1, <1>2 DEF CodingInv

\* A command starts with nothing but its arguments.
LEMMA StartStep ==
  ASSUME CodingInv, TypeOK', NEW c, Start(c)
  PROVE  CodingInv'
<1>1. GatesPassed' /\ ResultInStep'
  BY DEF Start, GatesPassed, ResultInStep, PastCheck, PastPrompt, HasReading
<1>2. PlanOnDisk' /\ SendsOpened' /\ WritesStayUndoable'
  BY DiskStays DEF Start, diskVars
<1>3. LateAllowed' /\ CriticalUntouched'
  BY DEF Start, CodingInv, LateAllowed, CriticalUntouched, carVars
<1>4. QED BY <1>1, <1>2, <1>3 DEF CodingInv

\* Opening the restore file drops what it held; whoever had a write backed by
\* it has seen the file opened twice.
LEMMA OpenStep == CodingInv /\ TypeOK' /\ OpenArchive => CodingInv'
<1> SUFFICES ASSUME CodingInv, TypeOK', OpenArchive PROVE CodingInv'
  OBVIOUS
<1> DEFINE here == <<now, target>>
<1>1. CASE ArchiveFails /\ UNCHANGED <<diskVars, stamp>>
  <2>1. ~written'
    BY DEF OpenArchive, CodingInv, ResultInStep, historyVars
  <2>2. QED BY <1>1, <2>1, EndStep DEF OpenArchive, ArchiveFails, diskVars, historyVars
<1>2. CASE /\ stamp' = now
           /\ archive' = {p \in archive : ~SameFile(p, now, target)}
           /\ opens' = [opens EXCEPT ![here] = @ + 1]
           /\ pc' = "saving"
           /\ UNCHANGED <<command, loggedIn, previous, confirmed, result>>
  <2>1. here \in Times \X Targets
    BY CommandParts DEF CodingInv, TypeOK
  <2>2. \A f \in Times \X Targets : opens'[f] = IF f = here THEN opens[f] + 1 ELSE opens[f]
    BY <1>2, <2>1 DEF CodingInv, TypeOK
  <2>3. \A f \in Times \X Targets : opens[f] \in Nat
    BY DEF CodingInv, TypeOK
  <2>4. \A p \in sends : <<p.stamp, p.target>> \in Times \X Targets
    BY DEF CodingInv, TypeOK, RestorePoints
  <2>5. GatesPassed' /\ ResultInStep'
    BY <1>2 DEF OpenArchive, CodingInv, GatesPassed, ResultInStep, PastCheck, PastPrompt,
                HasReading, historyVars, target, intended
  <2>6. LateAllowed' /\ CriticalUntouched'
    BY DEF OpenArchive, CodingInv, LateAllowed, CriticalUntouched, carVars
  <2>7. PlanOnDisk'
    <3>1. opens'[here] > 0
      BY <2>1, <2>2, <2>3
    <3>2. <<stamp', target'>> = here
      BY <1>2 DEF target
    <3>3. QED BY <1>2, <3>1, <3>2 DEF PlanOnDisk
  <2>8. SendsOpened'
    <3> SUFFICES ASSUME NEW p \in sends PROVE opens'[<<p.stamp, p.target>>] > 0
      BY DEF OpenArchive, SendsOpened, historyVars
    <3> DEFINE file == <<p.stamp, p.target>>
    <3>1. file \in Times \X Targets /\ opens[file] > 0
      BY <2>4 DEF CodingInv, SendsOpened
    <3> HIDE DEF file, here
    <3>2. opens'[file] > 0
      BY <2>2, <2>3, <3>1
    <3>3. QED BY <3>2 DEF file
  <2>9. WritesStayUndoable'
    <3> SUFFICES ASSUME NEW p \in sends, opens'[<<p.stamp, p.target>>] = 1
                 PROVE  p \in archive'
      BY DEF OpenArchive, WritesStayUndoable, historyVars
    <3>1. <<p.stamp, p.target>> # here
      BY <2>1, <2>2, <2>3 DEF CodingInv, SendsOpened
    <3>2. p \in archive
      BY <2>2, <2>4, <3>1 DEF CodingInv, WritesStayUndoable
    <3>3. QED BY <1>2, <3>1, <3>2 DEF SameFile
  <2>10. QED BY <2>5, <2>6, <2>7, <2>8, <2>9 DEF CodingInv
<1>3. QED BY <1>1, <1>2 DEF OpenArchive

\* The plan's restore point reaches the disk before the write is sent.
LEMMA SaveStep == CodingInv /\ TypeOK' /\ SaveArchive => CodingInv'
<1> SUFFICES ASSUME CodingInv, TypeOK', SaveArchive PROVE CodingInv'
  OBVIOUS
<1>1. CASE ArchiveFails /\ UNCHANGED archive
  <2>1. ~written'
    BY DEF SaveArchive, CodingInv, ResultInStep, historyVars
  <2>2. QED BY <1>1, <2>1, EndStep DEF SaveArchive, ArchiveFails, historyVars
<1>2. CASE /\ archive' = archive \cup {Point}
           /\ pc' = "writing"
           /\ UNCHANGED <<command, loggedIn, previous, confirmed, result>>
  <2>1. GatesPassed' /\ ResultInStep'
    BY <1>2 DEF SaveArchive, CodingInv, GatesPassed, ResultInStep, PastCheck, PastPrompt,
                HasReading, historyVars, target, intended
  <2>2. LateAllowed' /\ CriticalUntouched'
    BY DEF SaveArchive, CodingInv, LateAllowed, CriticalUntouched, carVars
  <2>3. PlanOnDisk'
    BY <1>2 DEF SaveArchive, CodingInv, PlanOnDisk, Point, target, intended
  <2>4. SendsOpened' /\ WritesStayUndoable'
    BY <1>2 DEF SaveArchive, CodingInv, SendsOpened, WritesStayUndoable, historyVars
  <2>5. QED BY <2>1, <2>2, <2>3, <2>4 DEF CodingInv
<1>3. QED BY <1>1, <1>2 DEF SaveArchive

\* The write: the value changes only at the plan's target, which passed the
\* gates, and its restore point is on disk.
LEMMA WriteStep == CodingInv /\ TypeOK' /\ WriteRaw => CodingInv'
<1> SUFFICES ASSUME CodingInv, TypeOK', WriteRaw PROVE CodingInv'
  OBVIOUS
<1> USE DEF CodingInv
<1>1. target \notin Critical
  BY DEF WriteRaw, GatesPassed, PastCheck
<1>2. CriticalUntouched'
  BY <1>1, CodingAssumption DEF WriteRaw, CriticalUntouched, TypeOK
<1>3. LateAllowed'
  BY <1>1 DEF WriteRaw, LateAllowed
<1>4. GatesPassed' /\ ResultInStep'
  BY DEF WriteRaw, WriteRaises, End, GatesPassed, ResultInStep, PastCheck, PastPrompt,
         HasReading, planVars, target, intended
<1>5. PlanOnDisk' /\ SendsOpened' /\ WritesStayUndoable'
  BY DEF WriteRaw, WriteRaises, End, PlanOnDisk, SendsOpened, WritesStayUndoable, diskVars
<1>6. QED BY <1>2, <1>3, <1>4, <1>5

\* Every step keeps the invariant.
LEMMA CodingStep == CodingInv /\ [Next]_vars => CodingInv'
<1> SUFFICES ASSUME CodingInv, [Next]_vars PROVE CodingInv'
  OBVIOUS
<1>0. TypeOK'
  BY TypeStep DEF CodingInv
<1>1. CASE Tick
  BY <1>0, <1>1 DEF Tick, CodingInv, GatesPassed, ResultInStep, LateAllowed, PlanOnDisk,
     SendsOpened, CriticalUntouched, WritesStayUndoable, carVars, diskVars, planVars,
     historyVars, target, intended
<1>2. CASE StoreLate
  <2>1. CriticalUntouched' /\ LateAllowed'
    BY <1>2, CodingAssumption DEF StoreLate, CodingInv, CriticalUntouched, LateAllowed, TypeOK
  <2>2. QED BY <1>0, <1>2, <2>1 DEF StoreLate, CodingInv, GatesPassed, ResultInStep, PlanOnDisk,
     SendsOpened, WritesStayUndoable, diskVars, planVars, target, intended
<1>3. CASE StartNew
  BY <1>0, <1>3, StartStep DEF StartNew
<1>4. CASE StartRestore
  BY <1>0, <1>4, StartStep DEF StartRestore
<1>5. CASE Login
  <2>1. CASE End("error")
    BY <1>0, <1>5, <2>1, EndStep DEF Login, diskVars, historyVars
  <2>2. CASE pc' = "checking" /\ UNCHANGED result
    <3>1. GatesPassed' /\ ResultInStep'
      BY <1>5, <2>2 DEF Login, CodingInv, GatesPassed, ResultInStep, PastCheck, PastPrompt,
         HasReading, historyVars
    <3>2. PlanOnDisk' /\ SendsOpened' /\ WritesStayUndoable'
      BY <1>5, <2>2, DiskStays DEF Login, diskVars, historyVars
    <3>3. QED BY <1>0, <1>5, <3>1, <3>2 DEF Login, CodingInv, LateAllowed, CriticalUntouched, carVars
  <2>3. QED BY <1>5, <2>1, <2>2 DEF Login
<1>6. CASE CheckLocally
  <2>1. CASE End("refused")
    <3>1. ~written'
      BY <1>6 DEF CheckLocally, CodingInv, ResultInStep, historyVars
    <3>2. QED BY <1>0, <1>6, <2>1, <3>1, EndStep DEF CheckLocally, diskVars, historyVars
  <2>2. CASE /\ target \notin Critical /\ pc' = "reading"
             /\ UNCHANGED <<command, loggedIn, previous, confirmed, stamp, result>>
    <3>1. GatesPassed' /\ ResultInStep'
      BY <1>6, <2>2 DEF CheckLocally, CodingInv, GatesPassed, ResultInStep, PastCheck, PastPrompt,
         HasReading, historyVars, target, intended
    <3>2. PlanOnDisk' /\ SendsOpened' /\ WritesStayUndoable'
      BY <1>6, <2>2, DiskStays DEF CheckLocally, diskVars, historyVars
    <3>3. QED BY <1>0, <1>6, <3>1, <3>2
             DEF CheckLocally, CodingInv, LateAllowed, CriticalUntouched, carVars
  <2>3. QED BY <1>6, <2>1, <2>2 DEF CheckLocally, SafetyCritical
<1>7. CASE ReadCurrent
  <2>1. ASSUME NEW outcome \in {"refused", "error"}, ReadFails(outcome) PROVE CodingInv'
    <3>1. ~written'
      BY <1>7 DEF ReadCurrent, CodingInv, ResultInStep, historyVars
    <3>2. QED BY <1>0, <1>7, <2>1, <3>1, EndStep DEF ReadCurrent, ReadFails, diskVars, historyVars
  <2>2. CASE /\ \/ pc' = "idle" /\ result' = "planned"
                \/ pc' = "prompting" /\ command.kind # "plan" /\ UNCHANGED result
             /\ UNCHANGED <<command, confirmed, stamp>>
    <3>1. GatesPassed' /\ ResultInStep'
      BY <1>7, <2>2 DEF ReadCurrent, CodingInv, GatesPassed, ResultInStep, PastCheck, PastPrompt,
         HasReading, historyVars, target, intended
    <3>2. PlanOnDisk' /\ SendsOpened' /\ WritesStayUndoable'
      BY <1>7, <2>2, DiskStays DEF ReadCurrent, diskVars, historyVars
    <3>3. QED BY <1>0, <1>7, <3>1, <3>2
             DEF ReadCurrent, CodingInv, LateAllowed, CriticalUntouched, carVars
  <2>3. QED BY <1>7, <2>1, <2>2 DEF ReadCurrent
<1>8. CASE Confirm
  <2>1. CASE End("refused")
    <3>1. ~written'
      BY <1>8 DEF Confirm, CodingInv, ResultInStep, historyVars
    <3>2. QED BY <1>0, <1>8, <2>1, <3>1, EndStep DEF Confirm, diskVars, historyVars
  <2>2. CASE \E phraseMatches \in BOOLEAN :
               /\ MayProceed(phraseMatches)
               /\ pc' = "archiving" /\ confirmed' = phraseMatches
               /\ UNCHANGED <<command, loggedIn, previous, stamp, result>>
    <3>1. GatesPassed' /\ ResultInStep'
      BY <1>8, <2>2 DEF Confirm, MayProceed, SafetyCritical, CodingInv, GatesPassed, ResultInStep,
         PastCheck, PastPrompt, HasReading, historyVars, target, intended
    <3>2. PlanOnDisk' /\ SendsOpened' /\ WritesStayUndoable'
      BY <1>8, <2>2, DiskStays DEF Confirm, diskVars, historyVars
    <3>3. QED BY <1>0, <1>8, <3>1, <3>2
             DEF Confirm, CodingInv, LateAllowed, CriticalUntouched, carVars
  <2>3. QED BY <1>8, <2>1, <2>2 DEF Confirm
<1>9. CASE OpenArchive
  BY <1>0, <1>9, OpenStep
<1>10. CASE SaveArchive
  BY <1>0, <1>10, SaveStep
<1>11. CASE WriteRaw
  BY <1>0, <1>11, WriteStep
<1>12. CASE Verify
  BY <1>0, <1>12, EndStep DEF Verify, diskVars, historyVars
<1>13. CASE Crash
  BY <1>0, <1>13, EndStep DEF Crash, diskVars, historyVars
<1>14. CASE UNCHANGED vars
  BY <1>0, <1>14 DEF vars, CodingInv, GatesPassed, ResultInStep, LateAllowed, PlanOnDisk,
     SendsOpened, CriticalUntouched, WritesStayUndoable, carVars, diskVars, planVars,
     historyVars, target, intended
<1>15. QED
  BY <1>1, <1>2, <1>3, <1>4, <1>5, <1>6, <1>7, <1>8, <1>9, <1>10, <1>11, <1>12, <1>13,
     <1>14 DEF Next

LEMMA CodingInit == Init => CodingInv
BY TypeInit DEF Init, CodingInv, GatesPassed, ResultInStep, LateAllowed, PlanOnDisk,
   SendsOpened, CriticalUntouched, WritesStayUndoable, PastCheck, PastPrompt, HasReading

\* The invariant holds in every state of every behaviour.
LEMMA CodingInvariant == Spec => []CodingInv
BY CodingInit, CodingStep, PTL DEF Spec

\* No value is replaced before a restore point of it is on disk.
THEOREM WriteBacked == Spec => []WriteIsBacked
<1>1. CodingInv => WriteIsBacked
  BY DEF CodingInv, PlanOnDisk, WriteIsBacked
<1>2. QED BY <1>1, CodingInvariant, PTL

\* Safety-critical modules are never written, by any sequence of commands.
THEOREM CriticalSafe == Spec => []CriticalUntouched
<1>1. CodingInv => CriticalUntouched
  BY DEF CodingInv
<1>2. QED BY <1>1, CodingInvariant, PTL

\* A command that ends with CodingRefused has not sent its write.
THEOREM RefusedUntouched == Spec => []RefusedMeansUntouched
<1>1. CodingInv => RefusedMeansUntouched
  BY DEF CodingInv, ResultInStep, RefusedMeansUntouched
<1>2. QED BY <1>1, CodingInvariant, PTL

\* The restore point of every write that was sent stays readable until its
\* file is opened a second time.
THEOREM Undoable == Spec => []WritesStayUndoable
<1>1. CodingInv => WritesStayUndoable
  BY DEF CodingInv
<1>2. QED BY <1>1, CodingInvariant, PTL

\* Module values change only through confirmed writes, and pending ones.
THEOREM ConfirmedWrites == Spec => OnlyConfirmedWrites
<1> DEFINE Allowed == \A t \in Targets : held'[t] # held[t] =>
       \/ /\ pc = "writing" /\ t = target /\ held'[t] = intended
          /\ confirmed /\ loggedIn /\ command.kind # "plan" /\ previous # intended
       \/ \E w \in late : w.target = t /\ w.value = held'[t]
<1>1. CodingInv /\ [Next]_vars => [Allowed]_vars
  <2> SUFFICES ASSUME CodingInv, Next, NEW t \in Targets, held'[t] # held[t]
               PROVE  \/ /\ pc = "writing" /\ t = target /\ held'[t] = intended
                         /\ confirmed /\ loggedIn /\ command.kind # "plan"
                         /\ previous # intended
                      \/ \E w \in late : w.target = t /\ w.value = held'[t]
    OBVIOUS
  <2>1. StoreLate \/ WriteRaw
    BY DEF Next, Tick, StartNew, StartRestore, Start, Login, CheckLocally, ReadCurrent,
           Confirm, OpenArchive, SaveArchive, Verify, Crash, carVars
  <2>2. CASE StoreLate
    BY <2>2 DEF StoreLate, CodingInv, TypeOK
  <2>3. CASE WriteRaw
    <3>1. t = target /\ held'[t] = intended
      BY <2>3 DEF WriteRaw, CodingInv, TypeOK
    <3>2. QED BY <2>3, <3>1 DEF WriteRaw, CodingInv, GatesPassed, PastPrompt, HasReading
  <2>4. QED BY <2>1, <2>2, <2>3
<1>2. QED BY <1>1, CodingInvariant, PTL DEF Spec, OnlyConfirmedWrites

-----------------------------------------------------------------------------
(***************************************************************************)
(* Readings: the archived value and the verified one.                      *)
(***************************************************************************)
\* A prefix, element by element.
LEMMA PrefixElements ==
  ASSUME NEW s \in Bytes, NEW t \in Bytes
  PROVE  IsPrefix(s, t) <=> /\ Len(s) <= Len(t)
                            /\ \A i \in 1 .. Len(s) : s[i] = t[i]
<1>1. Len(s) \in Nat /\ Len(t) \in Nat
  BY LenProperties DEF Bytes
<1>2. SubSeq(s, 1, Len(s)) = s
  BY SubSeqProperties, LenProperties, SeqEqual, <1>1 DEF Bytes
<1>3. ASSUME Len(s) <= Len(t)
      PROVE  /\ SubSeq(t, 1, Len(s)) \in Seq(Nat)
             /\ Len(SubSeq(t, 1, Len(s))) = Len(s)
             /\ \A i \in 1 .. Len(s) : SubSeq(t, 1, Len(s))[i] = t[i]
  BY <1>1, <1>3 DEF Bytes
<1>4. ASSUME Len(s) <= Len(t), \A i \in 1 .. Len(s) : s[i] = t[i]
      PROVE  s = SubSeq(t, 1, Len(s))
  BY <1>1, <1>3, <1>4, SeqEqual DEF Bytes
<1>5. QED BY <1>2, <1>3, <1>4 DEF IsPrefix

\* A reading starts with what the module holds.
LEMMA ReadingPrefix ==
  ASSUME NEW v \in Bytes, NEW r \in Readings(v)
  PROVE  IsPrefix(v, r)
<1>1. r \in Bytes
  BY ReadingType
<1>2. CASE r = v
  BY <1>2, PrefixElements, LenProperties DEF Bytes
<1>3. CASE r = v \o <<0>>
  <2>1. /\ Len(r) = Len(v) + 1
        /\ \A i \in 1 .. Len(v) : r[i] = v[i]
    BY <1>3 DEF Bytes
  <2>2. Len(v) \in Nat
    BY LenProperties DEF Bytes
  <2>3. QED BY <1>1, <2>1, <2>2, PrefixElements
<1>4. QED BY <1>2, <1>3 DEF Readings

\* Whatever agrees with a reading agrees with what the module holds.
LEMMA AgreeReading ==
  ASSUME NEW v \in Bytes, NEW r \in Readings(v), NEW w \in Bytes, Agree(w, r)
  PROVE  Agree(v, w)
<1>1. r \in Bytes /\ IsPrefix(v, r)
  BY ReadingType, ReadingPrefix
<1>2. Len(v) \in Nat /\ Len(r) \in Nat /\ Len(w) \in Nat
  BY <1>1, LenProperties DEF Bytes
<1>3. Len(v) <= Len(r) /\ \A i \in 1 .. Len(v) : v[i] = r[i]
  BY <1>1, PrefixElements
<1>4. CASE IsPrefix(w, r)
  <2>1. Len(w) <= Len(r) /\ \A i \in 1 .. Len(w) : w[i] = r[i]
    BY <1>1, <1>4, PrefixElements
  <2>2. CASE Len(w) <= Len(v)
    <3>1. \A i \in 1 .. Len(w) : w[i] = v[i]
      BY <1>2, <1>3, <2>1, <2>2
    <3>2. QED BY <2>2, <3>1, PrefixElements DEF Agree
  <2>3. CASE Len(v) <= Len(w)
    <3>1. \A i \in 1 .. Len(v) : v[i] = w[i]
      BY <1>2, <1>3, <2>1, <2>3
    <3>2. QED BY <2>3, <3>1, PrefixElements DEF Agree
  <2>4. QED BY <1>2, <2>2, <2>3
<1>5. CASE IsPrefix(r, w)
  <2>1. Len(r) <= Len(w) /\ \A i \in 1 .. Len(r) : r[i] = w[i]
    BY <1>1, <1>5, PrefixElements
  <2>2. Len(v) <= Len(w) /\ \A i \in 1 .. Len(v) : v[i] = w[i]
    BY <1>2, <1>3, <2>1
  <2>3. QED BY <2>2, PrefixElements DEF Agree
<1>6. QED BY <1>4, <1>5 DEF Agree

\* A value as long as the one that a reading of it agrees with is that one.
LEMMA SameLength ==
  ASSUME NEW v \in Bytes, NEW r \in Readings(v), NEW w \in Bytes, Agree(w, r), Len(v) = Len(w)
  PROVE  v = w
<1>1. Agree(v, w)
  BY AgreeReading
<1>2. \A i \in 1 .. Len(v) : v[i] = w[i]
  BY <1>1, PrefixElements DEF Agree
<1>3. QED BY <1>2, SeqEqual DEF Bytes

\* The plan's `previous' is a reading of what the module still holds, and a
\* verified value one that the module holds: unless a late write landed.
PlanIsCurrent ==
  pc \in HasReading /\ ~landed => previous \in Readings(held[target])

ReadingInv == CodingInv /\ PlanIsCurrent /\ VerifiedMeansTaken

LEMMA ReadingStep == ReadingInv /\ [Next]_vars => ReadingInv'
<1> SUFFICES ASSUME ReadingInv, [Next]_vars PROVE ReadingInv'
  OBVIOUS
<1>0. CodingInv'
  BY CodingStep DEF ReadingInv
<1> USE DEF ReadingInv, PlanIsCurrent, VerifiedMeansTaken, HasReading, target, intended
<1>1. CASE Tick
  BY <1>0, <1>1 DEF Tick, carVars, planVars, historyVars
<1>2. CASE StoreLate
  BY <1>0, <1>2 DEF StoreLate
<1>3. CASE StartNew \/ StartRestore
  BY <1>0, <1>3 DEF StartNew, StartRestore, Start
<1>4. CASE Login
  <2>1. result' # "verified" /\ pc' \notin HasReading
    BY <1>4 DEF Login, End, CodingInv, ResultInStep
  <2>2. QED BY <1>0, <2>1
<1>5. CASE CheckLocally
  <2>1. result' # "verified" /\ pc' \notin HasReading
    BY <1>5 DEF CheckLocally, End, CodingInv, ResultInStep
  <2>2. QED BY <1>0, <2>1
<1>6. CASE ReadCurrent
  <2>1. result' # "verified"
    BY <1>6 DEF ReadCurrent, ReadFails, End, CodingInv, ResultInStep
  <2>2. PlanIsCurrent'
    BY <1>6 DEF ReadCurrent, ReadFails, End, carVars
  <2>3. QED BY <1>0, <2>1, <2>2
<1>7. CASE Confirm
  BY <1>0, <1>7 DEF Confirm, End, CodingInv, ResultInStep, carVars, historyVars
<1>8. CASE OpenArchive
  BY <1>0, <1>8 DEF OpenArchive, ArchiveFails, End, CodingInv, ResultInStep, carVars, historyVars
<1>9. CASE SaveArchive
  BY <1>0, <1>9 DEF SaveArchive, ArchiveFails, End, CodingInv, ResultInStep, carVars, historyVars
<1>10. CASE WriteRaw
  BY <1>0, <1>10 DEF WriteRaw, WriteRaises, End, CodingInv, ResultInStep, planVars
<1>11. CASE Verify
  <2>1. pc' = "idle" /\ UNCHANGED <<command, held>>
    BY <1>11 DEF Verify, End, carVars
  <2>2. ASSUME result' = "verified", Len(held[target]) = Len(intended) PROVE held[target] = intended
    <3>1. PICK reading \in Readings(held[target]) : Took(reading)
      BY <1>11, <2>2 DEF Verify, End
    <3>2. held[target] \in Bytes /\ intended \in Bytes
      BY CommandParts DEF CodingInv, TypeOK
    <3>3. QED BY <2>2, <3>1, <3>2, SameLength DEF Took
  <2>3. QED BY <1>0, <2>1, <2>2
<1>12. CASE Crash
  BY <1>0, <1>12 DEF Crash, End
<1>13. CASE UNCHANGED vars
  BY <1>0, <1>13 DEF vars, carVars, planVars, historyVars
<1>14. QED
  BY <1>1, <1>2, <1>3, <1>4, <1>5, <1>6, <1>7, <1>8, <1>9, <1>10, <1>11, <1>12, <1>13
     DEF Next

LEMMA ReadingInvariant == Spec => []ReadingInv
<1>1. Init => ReadingInv
  BY CodingInit DEF Init, ReadingInv, PlanIsCurrent, VerifiedMeansTaken, HasReading
<1>2. QED BY <1>1, ReadingStep, PTL DEF Spec

\* The restore point that backs a write holds what the module holds then.
THEOREM WayBack == Spec => []WayBackIsTrue
<1>1. ReadingInv => WayBackIsTrue
  <2> SUFFICES ASSUME ReadingInv, pc = "writing", ~landed
               PROVE  \E p \in archive : p.target = target /\ p.stamp = stamp
                                         /\ IsPrefix(held[target], p.previous)
    BY DEF WayBackIsTrue
  <2> DEFINE point == [stamp |-> stamp, target |-> target, previous |-> previous,
                       intended |-> intended]
  <2>1. point \in archive
    BY DEF ReadingInv, CodingInv, PlanOnDisk
  <2>2. previous \in Readings(held[target]) /\ held[target] \in Bytes
    BY CommandParts DEF ReadingInv, CodingInv, TypeOK, PlanIsCurrent, HasReading
  <2>3. IsPrefix(held[target], previous)
    BY <2>2, ReadingPrefix
  <2>4. QED BY <2>1, <2>3
<1>2. QED BY <1>1, ReadingInvariant, PTL

\* "Written and verified" is said of a value of the module's own length only if
\* the module holds it, whatever it pads a reading with.
THEOREM Verified == Spec => []VerifiedMeansTaken
<1>1. ReadingInv => VerifiedMeansTaken
  BY DEF ReadingInv
<1>2. QED BY <1>1, ReadingInvariant, PTL
=============================================================================
