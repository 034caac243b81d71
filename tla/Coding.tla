------------------------------- MODULE Coding -------------------------------
(***************************************************************************)
(* Coding a VAG module: `carpi coding plan | apply | restore'              *)
(* (src/src/carpi/cli/vag.py) on top of carpi.coding, the restore points   *)
(* on disk, and the module itself, which is outside the code.              *)
(*                                                                         *)
(* One operator runs one command after the other. A command is a sequence  *)
(* of steps, and between any two of them the clock may advance, the        *)
(* process may be killed, or the module may at last store a write that an  *)
(* earlier command was told is still pending.                              *)
(***************************************************************************)
EXTENDS Integers, Sequences, FiniteSets, SequencesExt

CONSTANTS
  Targets,      \* module and identifier pairs that an operator may name
  Critical,     \* the targets inside SAFETY_CRITICAL_MODULES
  Values,       \* values that an operator may ask for
  Factory,      \* what each target held before car-pi was ever used
  MaxLength,    \* build_plan's limit on the length of a value (32)
  MaxCommands,  \* bound: commands run
  MaxTime       \* bound: seconds on the clock

Bytes == Seq(Nat)
Times == 0 .. MaxTime
Kinds == {"plan", "apply", "restore"}

ASSUME CodingAssumption ==
  /\ Targets # {} /\ Critical \subseteq Targets
  /\ Values \subseteq Bytes /\ Factory \in [Targets -> Bytes]
  /\ MaxLength \in Nat /\ MaxCommands \in Nat /\ MaxTime \in Nat

VARIABLES
  now,       \* datetime.now, to the second
  held,      \* what each module holds
  late,      \* writes a module answered with "pending" and has not stored yet
  archive,   \* the readable restore points on disk
  opens,     \* history: how often each restore file was opened for writing
  sends,     \* history: the restore point of every write that was sent
  commands,  \* commands run so far
  pc,        \* where the command stands
  command,   \* its kind, target and intended value
  loggedIn,  \* CodingSession._logged_in
  previous,  \* CodingPlan.previous
  confirmed, \* the operator typed the module's name
  stamp,     \* RestorePoint.created_at
  written,   \* history: this command has sent its write
  landed,    \* history: a late write was stored since this command started
  result     \* how the command ended

carVars     == <<held, late>>
diskVars    == <<archive, opens>>
planVars    == <<command, loggedIn, previous, confirmed, stamp>>
historyVars == <<sends, written, landed>>
vars == <<now, carVars, diskVars, planVars, historyVars, commands, pc, result>>

Steps   == {"idle", "login", "checking", "reading", "prompting", "archiving",
            "saving", "writing", "verifying"}
Results == {"none", "planned", "verified", "differs", "refused", "error", "killed"}
Commands      == [kind : Kinds, target : Targets, intended : Bytes]
RestorePoints == [stamp : Times, target : Targets, previous : Bytes, intended : Bytes]

TypeOK ==
  /\ now \in Times
  /\ held \in [Targets -> Bytes]
  /\ late \in SUBSET [target : Targets, value : Bytes]
  /\ archive \in SUBSET RestorePoints
  /\ opens \in [Times \X Targets -> Nat]
  /\ sends \in SUBSET RestorePoints
  /\ commands \in 0 .. MaxCommands
  /\ pc \in Steps
  /\ command \in Commands
  /\ loggedIn \in BOOLEAN /\ confirmed \in BOOLEAN
  /\ previous \in Bytes
  /\ stamp \in Times
  /\ written \in BOOLEAN /\ landed \in BOOLEAN
  /\ result \in Results

Init ==
  /\ now = 0
  /\ held = Factory /\ late = {}
  /\ archive = {} /\ opens = [f \in Times \X Targets |-> 0]
  /\ sends = {} /\ written = FALSE /\ landed = FALSE
  /\ commands = 0 /\ pc = "idle" /\ result = "none"
  /\ command = [kind |-> "plan", target |-> CHOOSE t \in Targets : TRUE,
                intended |-> <<>>]
  /\ loggedIn = FALSE /\ confirmed = FALSE
  /\ previous = <<>> /\ stamp = 0

target   == command.target
intended == command.intended

-----------------------------------------------------------------------------
(***************************************************************************)
(* The clock and the module.                                               *)
(***************************************************************************)
Tick ==
  /\ now < MaxTime
  /\ now' = now + 1
  /\ UNCHANGED <<carVars, diskVars, planVars, historyVars, commands, pc, result>>

\* A module that answered 0x78 stores the value when it gets to it.
StoreLate ==
  /\ \E w \in late :
       /\ held' = [held EXCEPT ![w.target] = w.value]
       /\ late' = late \ {w}
  /\ landed' = TRUE
  /\ UNCHANGED <<now, diskVars, planVars, sends, written, commands, pc, result>>

\* Mutant: bytes are taken as signed numbers, and padding is 0xFF.
ReadingsSigned(v) == {v, v \o <<-1>>}

\* "Modules pad differently on read and write": what a read may return.
Readings(v) == {v, v \o <<0>>}

-----------------------------------------------------------------------------
(***************************************************************************)
(* A command starts, and ends: its session is closed whatever happened.    *)
(***************************************************************************)
Start(c) ==
  /\ pc = "idle" /\ commands < MaxCommands
  /\ commands' = commands + 1
  /\ pc' = "login" /\ command' = c /\ result' = "none"
  /\ written' = FALSE /\ landed' = FALSE
  /\ UNCHANGED <<now, carVars, diskVars, loggedIn, previous, confirmed,
                 stamp, sends>>

StartNew == \E k \in {"plan", "apply"}, t \in Targets, v \in Values :
  Start([kind |-> k, target |-> t, intended |-> v])

\* load_restore_point, and the archived value as the one to write.
StartRestore == \E p \in archive :
  Start([kind |-> "restore", target |-> p.target, intended |-> p.previous])

End(outcome) ==
  /\ pc' = "idle" /\ result' = outcome
  /\ loggedIn' = FALSE /\ confirmed' = FALSE
  /\ UNCHANGED <<command, previous, stamp>>

\* The module answers the login; `plan' may do without one. A module that
\* refuses or is silent, or a channel that cannot be opened, ends the command.
Login ==
  /\ pc = "login"
  /\ \/ loggedIn' = TRUE /\ pc' = "checking" /\ UNCHANGED <<result, confirmed>>
     \/ /\ command.kind = "plan"
        /\ pc' = "checking" /\ UNCHANGED <<result, loggedIn, confirmed>>
     \/ End("error")
  /\ UNCHANGED <<now, carVars, diskVars, historyVars, commands, command, previous, stamp>>

-----------------------------------------------------------------------------
(***************************************************************************)
(* build_plan.                                                             *)
(***************************************************************************)
\* Mutant: apply has a flag that overrides the list.
SafetyCriticalUnlessForced(t) == t \in Critical /\ command.kind = "plan"

SafetyCritical(t) == t \in Critical
Writable(v) == v # <<>> /\ Len(v) <= MaxLength

\* What the operator passes for --voltage; `restore' has no such option, and
\* no command passes vehicle_speed.
Voltages == IF command.kind = "restore" THEN {"none"} ELSE {"none", "good", "bad"}

CheckLocally ==
  /\ pc = "checking"
  /\ \E voltage \in Voltages :
       IF SafetyCritical(target) \/ ~Writable(intended) \/ voltage = "bad"
       THEN End("refused")
       ELSE /\ pc' = "reading"
            /\ UNCHANGED <<command, loggedIn, previous, confirmed, stamp, result>>
  /\ UNCHANGED <<now, carVars, diskVars, historyVars, commands>>

\* Mutant: a value that cannot be read is taken to be empty.
ReadCarriesOn(outcome) == pc' = "prompting" /\ previous' = <<>>
  /\ UNCHANGED <<command, loggedIn, confirmed, stamp, result>>

\* A refusal or a malformed reply is a CodingRefused, silence is raised as
\* it is; either way there is no plan.
ReadFails(outcome) == End(outcome)

\* The value is read; `plan' prints it and is done, and so is a `restore'
\* that has nothing to change.
ReadCurrent ==
  /\ pc = "reading"
  /\ \/ \E reading \in Readings(held[target]) :
          /\ previous' = reading
          /\ IF \/ command.kind = "plan"
                \/ command.kind = "restore" /\ reading = intended
             THEN /\ pc' = "idle" /\ result' = "planned"
                  /\ loggedIn' = FALSE
             ELSE pc' = "prompting" /\ UNCHANGED <<loggedIn, result>>
          /\ UNCHANGED <<command, confirmed, stamp>>
     \/ \E outcome \in {"refused", "error"} : ReadFails(outcome)
  /\ UNCHANGED <<now, carVars, diskVars, historyVars, commands>>

-----------------------------------------------------------------------------
(***************************************************************************)
(* apply_plan.                                                             *)
(***************************************************************************)
\* The four gates: not a no-op, the name typed back, not safety-critical,
\* logged in.
MayProceed(phraseMatches) ==
  previous # intended /\ phraseMatches /\ ~SafetyCritical(target) /\ loggedIn

Confirm ==
  /\ pc = "prompting"
  /\ \E phraseMatches \in BOOLEAN :
       IF MayProceed(phraseMatches)
       THEN /\ pc' = "archiving" /\ confirmed' = phraseMatches
            /\ UNCHANGED <<command, loggedIn, previous, stamp, result>>
       ELSE End("refused")
  /\ UNCHANGED <<now, carVars, diskVars, historyVars, commands>>

\* Mutant: two restore points of one second share a file, whatever they are of.
SameFileAnyTarget(p, time, t) == p.stamp = time

\* RestorePoint.filename: the second, the module and the identifier.
SameFile(p, time, t) == p.stamp = time /\ p.target = t

\* Mutant: an archive that cannot be written is logged and ignored.
ArchiveFailureIgnored ==
  pc' = "writing" /\ UNCHANGED <<command, loggedIn, previous, confirmed, result>>

\* OSError becomes CodingRefused.
ArchiveFails == End("refused")

\* write_private: the file is opened and truncated, so whatever restore
\* point it held is gone.
OpenArchive ==
  /\ pc = "archiving"
  /\ \/ /\ stamp' = now
        /\ archive' = {p \in archive : ~SameFile(p, now, target)}
        /\ opens' = [opens EXCEPT ![<<now, target>>] = @ + 1]
        /\ pc' = "saving"
        /\ UNCHANGED <<command, loggedIn, previous, confirmed, result>>
     \/ ArchiveFails /\ UNCHANGED <<diskVars, stamp>>
  /\ UNCHANGED <<now, carVars, historyVars, commands>>

\* plan.restore_point()
Point == [stamp |-> stamp, target |-> target, previous |-> previous,
          intended |-> intended]

\* ... and then written; a full disk leaves the truncated file behind.
SaveArchive ==
  /\ pc = "saving"
  /\ \/ /\ archive' = archive \cup {Point}
        /\ pc' = "writing"
        /\ UNCHANGED <<command, loggedIn, previous, confirmed, result>>
     \/ ArchiveFails /\ UNCHANGED archive
  /\ UNCHANGED <<now, carVars, opens, stamp, historyVars, commands>>

\* Mutant: a failed write is reported like an unmet precondition.
WriteRaisesRefused == End("refused")

\* KwpNegativeResponse, NoResponse and a malformed reply are not caught:
\* the command ends without a read-back.
WriteRaises == End("error")

\* write_raw sends nothing without a login or without a value.
Sendable == loggedIn /\ intended # <<>>

\* write_raw. The module stores the value or not, and answers or not; 0x78
\* is raised as a refusal although the value is stored later.
WriteRaw ==
  /\ pc = "writing"
  /\ written' = Sendable
  /\ sends' = IF Sendable
              THEN sends \cup {[stamp |-> stamp, target |-> target,
                                previous |-> previous, intended |-> intended]}
              ELSE sends
  /\ \/ /\ Sendable
        /\ held' \in {held, [held EXCEPT ![target] = intended]}
        /\ pc' = "verifying"
        /\ UNCHANGED <<late, planVars, result>>
     \/ /\ \/ UNCHANGED held
           \/ Sendable /\ held' = [held EXCEPT ![target] = intended]
        /\ WriteRaises
        /\ UNCHANGED late
     \/ /\ Sendable
        /\ late' = {w \in late : w.target # target}
                   \cup {[target |-> target, value |-> intended]}
        /\ WriteRaises
        /\ UNCHANGED held
  /\ UNCHANGED <<now, diskVars, landed, commands>>

\* The prefix that both have is the same.
Agree(a, b) == IsPrefix(a, b) \/ IsPrefix(b, a)

\* Mutant: a positive response is taken for success.
TookOnAck(reading) == TRUE

\* CodingSession.verify
Took(reading) == Agree(intended, reading)

\* A read-back that fails counts as "differs"; silence is raised.
Verify ==
  /\ pc = "verifying"
  /\ \/ \E reading \in Readings(held[target]) :
          End(IF Took(reading) THEN "verified" ELSE "differs")
     \/ \E outcome \in {"differs", "error"} : End(outcome)
  /\ UNCHANGED <<now, carVars, diskVars, historyVars, commands>>

\* The process is killed. A file that was being written stays truncated, a
\* module keeps what it has.
Crash ==
  /\ pc # "idle"
  /\ End("killed")
  /\ UNCHANGED <<now, carVars, diskVars, historyVars, commands>>

-----------------------------------------------------------------------------
Next ==
  \/ Tick \/ StoreLate
  \/ StartNew \/ StartRestore \/ Login
  \/ CheckLocally \/ ReadCurrent
  \/ Confirm \/ OpenArchive \/ SaveArchive \/ WriteRaw \/ Verify
  \/ Crash

Spec == Init /\ [][Next]_vars

-----------------------------------------------------------------------------
(***************************************************************************)
(* Properties.                                                             *)
(***************************************************************************)
\* When the write is sent, the way back is on disk: a readable restore point
\* of this plan.
WriteIsBacked == pc = "writing" =>
  \E p \in archive : p.target = target /\ p.stamp = stamp
                     /\ p.previous = previous /\ p.intended = intended

\* And what it says is what the module holds at that moment, however long
\* the operator took to confirm (padding aside), unless the module has since
\* stored a write that it kept an earlier command waiting for.
WayBackIsTrue == pc = "writing" /\ ~landed =>
  \E p \in archive : p.target = target /\ p.stamp = stamp
                     /\ IsPrefix(held[target], p.previous)

\* A safety-critical module holds what it held before car-pi was used: no
\* sequence of plans, applies, restores, failures and crashes writes to it.
CriticalUntouched == \A t \in Critical : held[t] = Factory[t]

\* A module changes only by a write that was confirmed, in a logged-in
\* session, by a command that is allowed to write, to the value asked for and
\* in place of another one - or by one of those that it kept pending.
OnlyConfirmedWrites ==
  [][\A t \in Targets : held'[t] # held[t] =>
       \/ /\ pc = "writing" /\ t = target /\ held'[t] = intended
          /\ confirmed /\ loggedIn /\ command.kind # "plan" /\ previous # intended
       \/ \E w \in late : w.target = t /\ w.value = held'[t]]_vars

\* "Reading back is what establishes the value actually changed" (session.py:149):
\* of a value as long as the one asked for, "written and verified" means that the
\* module holds it, byte for byte, until it stores a pending write or a new command
\* starts. Of a shorter or a longer one only the common beginning is compared, and
\* then a write that silently did not happen may be called verified.
VerifiedMeansTaken ==
  result = "verified" /\ ~landed /\ Len(held[target]) = Len(intended)
    => held[target] = intended

\* CodingRefused: "A precondition was not met. The vehicle was not touched."
RefusedMeansUntouched == result = "refused" => ~written

\* Every write ever sent stays undoable - across later commands, full disks
\* and crashes - as long as its own file is not opened again.
WritesStayUndoable == \A p \in sends :
  opens[<<p.stamp, p.target>>] = 1 => p \in archive

\* "Every `apply` leaves a restore point" (docs/coding.md): also when another
\* follows it within the second.
EveryWriteIsUndoable == sends \subseteq archive
=============================================================================
