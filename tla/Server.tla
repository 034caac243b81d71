------------------------------- MODULE Server -------------------------------
(***************************************************************************)
(* The web server of car-pi: one vehicle interface, an asyncio event loop, *)
(* and worker threads (src/src/carpi/server).                              *)
(*                                                                         *)
(* Handlers run on the event loop; between two awaits a handler is alone   *)
(* on the loop, so such a stretch is one action. The exception is          *)
(* VehicleGateway.claim: its steps share the lock and _activity with the   *)
(* worker threads of running scans, so each of them is an action, and      *)
(* while a handler is inside them `loop' names it and no other handler     *)
(* runs. A scan's claim runs in a worker thread and never holds the loop.  *)
(***************************************************************************)
EXTENDS Integers, Sequences, FiniteSets, SequencesExt

CONSTANTS
  MaxScans,     \* bound: scans ever accepted
  MaxProgress,  \* bound: progress messages of one scan
  History,      \* create_app's history: scans kept in the store
  Preflights,   \* clients that ask for /api/preflight, one request at a time
  Lives,        \* clients of /ws/live, one socket at a time
  Watchers,     \* sockets on /ws/scans/{id}
  NoOne         \* no holder, no activity, no handler on the loop

Scans == 1 .. MaxScans
Claimants == Scans \cup Preflights \cup Lives

ASSUME ServerAssumption ==
  /\ MaxScans \in Nat /\ MaxProgress \in Nat /\ History \in Nat
  /\ NoOne \notin Claimants
  /\ Preflights \cap Lives = {}
  /\ Scans \cap (Preflights \cup Lives) = {}

VARIABLES
  lock,      \* VehicleGateway._lock: its holder
  activity,  \* VehicleGateway._activity
  loop,      \* the handler that is inside claim() on the event loop
  pc,        \* where each claimant stands
  online,    \* the live clients whose socket is still connected
  outcome,   \* what a scan's worker thread came back with
  jobState,  \* ScanJob.state ("none": not accepted yet)
  events,    \* ScanJob._events
  store,     \* JobStore._jobs, oldest first
  wpc,       \* where each progress socket stands
  watched,   \* the job a progress socket follows (0: none)
  index,     \* the socket handler's index into the events
  batch,     \* events it has taken and not sent yet
  received   \* messages it has sent

gateVars  == <<lock, activity, loop, pc, online>>
jobVars   == <<outcome, jobState, events, store>>
watchVars == <<wpc, watched, index, batch, received>>
vars      == <<gateVars, jobVars, watchVars>>

Messages  == {"queued", "progress", "complete", "failed"}
JobStates == {"none", "queued", "running", "done", "failed"}
UseStates == {"opening", "scanning", "listening", "discovering", "preparing",
              "sampling", "sending", "closing"}
PcStates  == {"idle", "created", "claiming", "acquired", "cleared", "released",
              "refused", "finished"} \cup UseStates

TypeOK ==
  /\ lock \in Claimants \cup {NoOne}
  /\ activity \in Claimants \cup {NoOne}
  /\ loop \in Preflights \cup Lives \cup {NoOne}
  /\ pc \in [Claimants -> PcStates]
  /\ online \in SUBSET Lives
  /\ outcome \in [Scans -> {"none", "ok", "failed"}]
  /\ jobState \in [Scans -> JobStates]
  /\ events \in [Scans -> Seq(Messages)]
  /\ store \in Seq(Scans)
  /\ wpc \in [Watchers -> {"idle", "polling", "sending", "finishing", "closed", "gone"}]
  /\ watched \in [Watchers -> Scans \cup {0}]
  /\ index \in [Watchers -> Nat]
  /\ batch \in [Watchers -> Seq(Messages)]
  /\ received \in [Watchers -> Seq(Messages)]

Init ==
  /\ lock = NoOne /\ activity = NoOne /\ loop = NoOne
  /\ pc = [c \in Claimants |-> "idle"]
  /\ online = {}
  /\ outcome = [j \in Scans |-> "none"]
  /\ jobState = [j \in Scans |-> "none"]
  /\ events = [j \in Scans |-> <<>>]
  /\ store = <<>>
  /\ wpc = [w \in Watchers |-> "idle"]
  /\ watched = [w \in Watchers |-> 0]
  /\ index = [w \in Watchers |-> 0]
  /\ batch = [w \in Watchers |-> <<>>]
  /\ received = [w \in Watchers |-> <<>>]

-----------------------------------------------------------------------------
(***************************************************************************)
(* VehicleGateway.claim, step by step.                                     *)
(***************************************************************************)
GoTo(c, place) == pc' = [pc EXCEPT ![c] = place]

\* A claimant takes its next step in claim(): a scan in its thread at any
\* time, a handler while it is the one on the loop.
Runs(c) == c \in Scans \/ loop = c

\* The handler reaches an await (or returns): the loop is free again.
LeaveLoop(c) == loop' = IF loop = c THEN NoOne ELSE loop

\* Where a claimant goes once it has the link.
FirstUse(c) == IF c \in Scans THEN "scanning"
               ELSE IF c \in Preflights THEN "listening" ELSE "discovering"

\* Non-blocking acquire. Held by somebody else: BusBusy, which ends a
\* preflight (409) and a live socket ("busy") and fails a scan.
Acquire(c) ==
  \/ /\ lock = NoOne
     /\ lock' = c
     /\ GoTo(c, "acquired")
     /\ UNCHANGED loop
  \/ /\ lock # NoOne
     /\ GoTo(c, IF c \in Scans THEN "refused" ELSE "idle")
     /\ LeaveLoop(c)
     /\ UNCHANGED lock

TryAcquire(c) ==
  /\ pc[c] = "claiming" /\ Runs(c)
  /\ Acquire(c)
  /\ UNCHANGED <<activity, online, jobVars, watchVars>>

MarkActivity(c) ==
  /\ pc[c] = "acquired" /\ Runs(c)
  /\ activity' = c
  /\ GoTo(c, "opening")
  /\ UNCHANGED <<lock, loop, online, jobVars, watchVars>>

\* An exception inside the claim: a scan's thread will hand it to its task.
RecordFailure(c) ==
  outcome' = IF c \in Scans THEN [outcome EXCEPT ![c] = "failed"] ELSE outcome

\* Mutant: the interface is opened outside the try, so nothing is undone.
OpenOutsideTry(c) ==
  GoTo(c, IF c \in Scans THEN "released" ELSE "idle") /\ LeaveLoop(c)

\* The finally clause is entered with the handler still on the loop.
OpenRaises(c) == GoTo(c, "closing") /\ UNCHANGED loop

\* provider.session(): the link opens, or opening it raises.
OpenSession(c) ==
  /\ pc[c] = "opening" /\ Runs(c)
  /\ \/ GoTo(c, FirstUse(c)) /\ LeaveLoop(c) /\ UNCHANGED outcome
     \/ OpenRaises(c) /\ RecordFailure(c)
  /\ UNCHANGED <<lock, activity, online, jobState, events, store, watchVars>>

\* Mutant: the lock is released before the activity is forgotten.
UnclaimLockFirst(c) ==
  \/ /\ pc[c] = "closing"
     /\ lock' = NoOne
     /\ GoTo(c, "cleared")
     /\ UNCHANGED <<activity, loop>>
  \/ /\ pc[c] = "cleared"
     /\ activity' = NoOne
     /\ GoTo(c, IF c \in Scans THEN "released" ELSE "idle")
     /\ LeaveLoop(c)
     /\ UNCHANGED lock

\* After the link is closed: forget the activity, then release the lock.
Unclaim(c) ==
  \/ /\ pc[c] = "closing"
     /\ activity' = NoOne
     /\ GoTo(c, "cleared")
     /\ UNCHANGED <<lock, loop>>
  \/ /\ pc[c] = "cleared"
     /\ lock' = NoOne
     /\ GoTo(c, IF c \in Scans THEN "released" ELSE "idle")
     /\ LeaveLoop(c)
     /\ UNCHANGED activity

EndClaim(c) ==
  /\ Runs(c)
  /\ Unclaim(c)
  /\ UNCHANGED <<online, jobVars, watchVars>>

\* A handler resumes on the loop because its claim is over, and leaves it.
ResumeClosing(c) == GoTo(c, "closing") /\ loop' = c

Claim(c) == TryAcquire(c) \/ MarkActivity(c) \/ OpenSession(c) \/ EndClaim(c)

-----------------------------------------------------------------------------
(***************************************************************************)
(* Preflight and the live stream: they claim on the loop, and leave it     *)
(* while a thread listens, discovers or samples, or a send is awaited.     *)
(***************************************************************************)
EnterClaim(c) == GoTo(c, "claiming") /\ loop' = c

PreflightRequest(p) ==
  /\ loop = NoOne /\ pc[p] = "idle"
  /\ EnterClaim(p)
  /\ UNCHANGED <<lock, activity, online, jobVars, watchVars>>

\* check_bus has returned or raised.
PreflightListened(p) ==
  /\ loop = NoOne /\ pc[p] = "listening"
  /\ ResumeClosing(p)
  /\ UNCHANGED <<lock, activity, online, jobVars, watchVars>>

LiveConnect(l) ==
  /\ loop = NoOne /\ pc[l] = "idle"
  /\ EnterClaim(l)
  /\ online' = online \cup {l}
  /\ UNCHANGED <<lock, activity, jobVars, watchVars>>

\* The phone is locked, the tab is closed: nobody tells the handler.
LiveDisconnect(l) ==
  /\ l \in online
  /\ online' = online \ {l}
  /\ UNCHANGED <<lock, activity, loop, pc, jobVars, watchVars>>

\* A thread's work is back: discovery (its failure or an empty list ends the
\* claim), the poller's preparation, or a sample.
LiveThreadDone(l) ==
  /\ loop = NoOne
  /\ \/ pc[l] = "discovering" /\ GoTo(l, "preparing") /\ UNCHANGED loop
     \/ pc[l] \in {"preparing", "sampling"} /\ GoTo(l, "sending") /\ UNCHANGED loop
     \/ pc[l] \in {"discovering", "preparing", "sampling"} /\ ResumeClosing(l)
  /\ UNCHANGED <<lock, activity, online, jobVars, watchVars>>

\* Mutant: a send to a closed socket is swallowed and sampling goes on.
SendIgnoringDisconnect(l) == GoTo(l, "sampling") /\ UNCHANGED loop

\* send_json raises WebSocketDisconnect on a closed socket: the only place
\* where the handler learns of the disconnect.
SendLive(l) ==
  \/ l \in online /\ GoTo(l, "sampling") /\ UNCHANGED loop
  \/ l \notin online /\ ResumeClosing(l)

LiveSend(l) ==
  /\ loop = NoOne /\ pc[l] = "sending"
  /\ SendLive(l)
  /\ UNCHANGED <<lock, activity, online, jobVars, watchVars>>

Live(l) == LiveConnect(l) \/ LiveThreadDone(l) \/ LiveSend(l)

-----------------------------------------------------------------------------
(***************************************************************************)
(* Scans: POST /api/scans, the task _run_scan, the thread _perform_scan.   *)
(***************************************************************************)
Accepted == {j \in Scans : jobState[j] # "none"}
Finished(j) == jobState[j] \in {"done", "failed"}
Capacity == IF History > 1 THEN History ELSE 1

\* Mutant: the newest entry is dropped when the store is full.
EvictNewest(s) == SubSeq(s, 1, IF Len(s) > Capacity THEN Capacity ELSE Len(s))

\* popitem(last=False) until the history fits.
Evict(s) == IF Len(s) > Capacity THEN SubSeq(s, Len(s) - Capacity + 1, Len(s)) ELSE s

\* The `busy' flag is read, the job is stored with its first event, and its
\* task is scheduled: no await in between.
StartScan(j) ==
  /\ loop = NoOne
  /\ activity = NoOne
  /\ jobState[j] = "none" /\ 1 .. (j - 1) \subseteq Accepted
  /\ store' = Evict(Append(store, j))
  /\ events' = [events EXCEPT ![j] = Append(@, "queued")]
  /\ jobState' = [jobState EXCEPT ![j] = "queued"]
  /\ GoTo(j, "created")
  /\ UNCHANGED <<lock, activity, loop, online, outcome, watchVars>>

RunScan(j) ==
  /\ loop = NoOne /\ pc[j] = "created"
  /\ jobState' = [jobState EXCEPT ![j] = "running"]
  /\ GoTo(j, "claiming")
  /\ UNCHANGED <<lock, activity, loop, online, outcome, events, store, watchVars>>

\* on_progress = job.add_event, called in the worker thread.
ScanProgress(j) ==
  /\ pc[j] = "scanning" /\ Len(events[j]) <= MaxProgress
  /\ events' = [events EXCEPT ![j] = Append(@, "progress")]
  /\ UNCHANGED <<gateVars, outcome, jobState, store, watchVars>>

\* scan_vehicle returns or raises, in the worker thread.
ScanReturns(j) ==
  /\ pc[j] = "scanning"
  /\ \E o \in {"ok", "failed"} : outcome' = [outcome EXCEPT ![j] = o]
  /\ GoTo(j, "closing")
  /\ UNCHANGED <<lock, activity, loop, online, jobState, events, store, watchVars>>

\* Mutant: a busy interface is concluded, and the task falls through to the
\* conclusion of the scan.
ConcludeFallsThrough(j, state, message) ==
  /\ jobState' = [jobState EXCEPT ![j] = state]
  /\ events' = [events EXCEPT ![j] = Append(@, message)]
  /\ GoTo(j, IF pc[j] = "refused" THEN "released" ELSE "finished")

\* The job's last word: its state and the event that announces it.
Conclude(j, state, message) ==
  /\ jobState' = [jobState EXCEPT ![j] = state]
  /\ events' = [events EXCEPT ![j] = Append(@, message)]
  /\ GoTo(j, "finished")

\* The worker thread has ended, with a result or an exception.
ThreadOver(j) == pc[j] \in {"released", "refused"}

\* Mutant: only BusBusy is caught; another exception ends the task silently.
ConcludeUncaught(j) ==
  \/ outcome[j] = "ok" /\ Conclude(j, "done", "complete")
  \/ pc[j] = "refused" /\ Conclude(j, "failed", "failed")

\* mark_done, or mark_failed for BusBusy, for a scan that raised, and for an
\* evaluation that raised.
ConcludeScan(j) ==
  \/ outcome[j] = "ok" /\ Conclude(j, "done", "complete")
  \/ Conclude(j, "failed", "failed")

FinishScan(j) ==
  /\ loop = NoOne /\ ThreadOver(j)
  /\ ConcludeScan(j)
  /\ UNCHANGED <<lock, activity, loop, online, outcome, store, watchVars>>

ScanThread(j) == ScanProgress(j) \/ ScanReturns(j)
ScanTask(j) == RunScan(j) \/ FinishScan(j)

-----------------------------------------------------------------------------
(***************************************************************************)
(* /ws/scans/{id}: progress, then the result.                              *)
(***************************************************************************)
\* Mutant: the new index is not handed back.
EventsAgain(j, i) ==
  [index |-> i, batch |-> SubSeq(events[j], i + 1, Len(events[j]))]

EventsSince(j, i) ==
  [index |-> Len(events[j]), batch |-> SubSeq(events[j], i + 1, Len(events[j]))]

\* The job is looked up once: an eviction later does not end the stream.
WatchOpen(w) ==
  /\ loop = NoOne /\ wpc[w] = "idle"
  /\ \E j \in Accepted :
       /\ watched' = [watched EXCEPT ![w] = j]
       /\ wpc' = [wpc EXCEPT ![w] = IF j \in ToSet(store) THEN "polling" ELSE "gone"]
  /\ UNCHANGED <<gateVars, jobVars, index, batch, received>>

\* Mutant: a failed scan does not count as finished.
AfterEventsDoneOnly(j) == IF jobState[j] = "done" THEN "finishing" ELSE "polling"

\* Everything taken has been sent: "finished" is sent, or the handler sleeps.
AfterEvents(j) == IF Finished(j) THEN "finishing" ELSE "polling"

WatchPoll(w) ==
  /\ loop = NoOne /\ wpc[w] = "polling"
  /\ LET since == EventsSince(watched[w], index[w])
     IN /\ index' = [index EXCEPT ![w] = since.index]
        /\ batch' = [batch EXCEPT ![w] = since.batch]
        /\ wpc' = [wpc EXCEPT ![w] = IF since.batch # <<>> THEN "sending"
                                     ELSE AfterEvents(watched[w])]
  /\ UNCHANGED <<gateVars, jobVars, watched, received>>

\* One awaited send is over; after the last one `finished' is read.
WatchSent(w) ==
  /\ loop = NoOne /\ wpc[w] = "sending"
  /\ received' = [received EXCEPT ![w] = Append(@, Head(batch[w]))]
  /\ batch' = [batch EXCEPT ![w] = Tail(@)]
  /\ wpc' = [wpc EXCEPT ![w] = IF Len(batch[w]) > 1 THEN "sending"
                               ELSE AfterEvents(watched[w])]
  /\ UNCHANGED <<gateVars, jobVars, watched, index>>

\* The "finished" message is out: the socket is closed.
WatchClose(w) ==
  /\ loop = NoOne /\ wpc[w] = "finishing"
  /\ wpc' = [wpc EXCEPT ![w] = "closed"]
  /\ UNCHANGED <<gateVars, jobVars, watched, index, batch, received>>

\* A send finds the socket gone.
WatchLost(w) ==
  /\ loop = NoOne /\ wpc[w] \in {"sending", "finishing"}
  /\ wpc' = [wpc EXCEPT ![w] = "gone"]
  /\ UNCHANGED <<gateVars, jobVars, watched, index, batch, received>>

Watch(w) == WatchPoll(w) \/ WatchSent(w) \/ WatchClose(w)

-----------------------------------------------------------------------------
Next ==
  \/ \E c \in Claimants : Claim(c)
  \/ \E p \in Preflights : PreflightRequest(p) \/ PreflightListened(p)
  \/ \E l \in Lives : Live(l) \/ LiveDisconnect(l)
  \/ \E j \in Scans : StartScan(j) \/ ScanTask(j) \/ ScanThread(j)
  \/ \E w \in Watchers : WatchOpen(w) \/ Watch(w) \/ WatchLost(w)

Spec == Init /\ [][Next]_vars

(***************************************************************************)
(* Threads are scheduled (WF). The loop serves ready callbacks in order,   *)
(* so a handler that is ready again and again gets its turn (SF); no       *)
(* request and no disconnect has to happen. A scan, a listen and a thread  *)
(* call end: each of their waits has a timeout.                            *)
(***************************************************************************)
Fairness ==
  /\ \A c \in Claimants : WF_vars(Claim(c))
  /\ \A p \in Preflights : SF_vars(PreflightListened(p))
  /\ \A l \in Lives : SF_vars(LiveThreadDone(l)) /\ SF_vars(LiveSend(l))
  /\ \A j \in Scans : SF_vars(RunScan(j)) /\ SF_vars(FinishScan(j))
                      /\ WF_vars(ScanReturns(j))
  /\ \A w \in Watchers : SF_vars(Watch(w))

FairSpec == Spec /\ Fairness

-----------------------------------------------------------------------------
(***************************************************************************)
(* Properties.                                                             *)
(***************************************************************************)
UsesBus(c) == pc[c] \in UseStates
Holds(c) == pc[c] \in UseStates \cup {"acquired", "cleared"}

\* Two parties never talk on the bus at once: replies could not be told
\* apart (the reason VehicleGateway exists).
OneUser == \A c, d \in Claimants : UsesBus(c) /\ UsesBus(d) => c = d

\* The lock is held by exactly the claimant that is between its acquire and
\* its release: no failure to open, to scan, to listen or to send leaks it.
LockFollowsHolder == \A c \in Claimants : lock = c <=> Holds(c)

\* What a progress socket has sent and is about to send is what the job
\* recorded, in order, nothing twice and nothing skipped.
ProgressInOrder == \A w \in Watchers :
  watched[w] # 0 => IsPrefix(received[w] \o batch[w], events[watched[w]])

\* A scan that was accepted can be looked up until `Capacity' later ones
\* have been accepted, whatever state it is in.
AcceptedStaysRetrievable == \A j \in Accepted :
  j \in ToSet(store) <=> Cardinality(Accepted) - j < Capacity

\* A finished scan is final: no late worker, retry or second conclusion
\* changes its state, its events or what the reports are built from.
FinishedIsFinal ==
  [][\A j \in Scans : Finished(j) =>
       /\ jobState'[j] = jobState[j]
       /\ events'[j] = events[j]
       /\ outcome'[j] = outcome[j]]_vars

\* The gateway implements the abstract exclusive interface: `users' are the
\* claimants between _activity set and _activity cleared.
Abstract == INSTANCE ExclusiveInterface WITH
              users <- {c \in Claimants : UsesBus(c)}, shown <- activity
InterfaceIsExclusive == Abstract!Spec

\* The stream delivers every event before it says "finished"
\* ("Stream one scan's progress, then its result", app.py:278).
StreamIsComplete == \A w \in Watchers :
  wpc[w] \in {"finishing", "closed"} => received[w] = events[watched[w]]

\* Every accepted scan is concluded, also when its thread raises or the
\* interface is taken from under it.
EveryScanConcludes == \A j \in Scans : jobState[j] = "queued" ~> Finished(j)

\* Whoever holds the interface gives it back, a live stream once its client
\* is gone.
InterfaceComesFree == \A c \in Claimants :
  (lock = c /\ c \notin online) ~> lock # c

\* A progress socket is closed in the end, whichever way the scan ends.
EveryStreamEnds == \A w \in Watchers :
  wpc[w] = "polling" ~> wpc[w] \in {"closed", "gone"}
=============================================================================
