--------------------------------- MODULE Ui ---------------------------------
(***************************************************************************)
(* The page in the phone (src/src/carpi/server/static/app.js): a scan that *)
(* is started and followed over a socket or, when that fails, by polling;  *)
(* the start button, which follows the interface's state as the server     *)
(* reports it every few seconds; and the live values. The page runs one    *)
(* handler at a time; between an await and its answer anything else may    *)
(* happen. The server is reduced to what the page asks it, the module      *)
(* Server has the rest. Progress messages are left out.                    *)
(***************************************************************************)
EXTENDS Integers, FiniteSets

CONSTANTS GiveUp,     \* failures in a row after which polling stops
          MaxScans, MaxLives, MaxDrops, MaxClaims, MaxAsked   \* bounds of the model

ASSUME UiAssumption == {GiveUp, MaxScans, MaxLives, MaxDrops, MaxClaims, MaxAsked} \subseteq Nat \ {0}

Scans == 1 .. MaxScans
Lives == 1 .. MaxLives

VARIABLES job,       \* on the server: "none", "running", "done" or "failed"
          claims,    \* how often another client took the interface; held now, or not
          drops,     \* requests and sockets that failed
          starter,   \* the click handler: "idle", "posting" or "following", and which scan
          disabled,  \* the start button
          socket,    \* of a scan: "none", "connecting", "open", "told" or "closed"
          loading,   \* scans whose report the socket's handler is waiting for
          poll,      \* of a scan: where pollScan is, and its failures in a row
          health,    \* answers to api/health under way: how many unserved, busy and free
          live,      \* of a live socket: "none", "connecting", "open", "closing" or "closed"
          liveSocket,\* the one the page knows, or 0
          seen,      \* scans whose outcome was put on the page
          lost       \* scans whose report did not get through to the socket's handler

vars == <<job, claims, drops, starter, disabled, socket, loading, poll, health,
          live, liveSocket, seen, lost>>

Idle == [pc |-> "idle", scan |-> 0]

Init ==
  /\ job = [i \in Scans |-> "none"] /\ claims = [n |-> 0, held |-> FALSE] /\ drops = 0
  /\ starter = Idle /\ disabled = FALSE
  /\ socket = [i \in Scans |-> "none"] /\ loading = {}
  /\ poll = [i \in Scans |-> [pc |-> "none", failures |-> 0]]
  /\ health = [asked |-> 1, busy |-> 0, free |-> 0]
  /\ live = [l \in Lives |-> "none"] /\ liveSocket = 0
  /\ seen = {} /\ lost = {}

scanning == starter.pc # "idle"
Busy == claims.held \/ (\E i \in Scans : job[i] = "running") \/ (\E l \in Lives : live[l] = "open")
Ended(i) == job[i] \in {"done", "failed"}

\* A request or a socket fails: the hotspot comes and goes.
Dropped == drops < MaxDrops /\ drops' = drops + 1

-----------------------------------------------------------------------------
(* The server. *)

JobEnds(i, state) ==
  /\ job[i] = "running" /\ job' = [job EXCEPT ![i] = state]
  /\ UNCHANGED <<claims, drops, starter, disabled, socket, loading, poll, health,
                 live, liveSocket, seen, lost>>

OtherClaims ==
  /\ ~Busy /\ claims.n < MaxClaims
  /\ claims' = [n |-> claims.n + 1, held |-> TRUE]
  /\ UNCHANGED <<job, drops, starter, disabled, socket, loading, poll, health,
                 live, liveSocket, seen, lost>>
OtherReleases ==
  /\ claims.held /\ claims' = [claims EXCEPT !.held = FALSE]
  /\ UNCHANGED <<job, drops, starter, disabled, socket, loading, poll, health,
                 live, liveSocket, seen, lost>>

-----------------------------------------------------------------------------
(* Starting a scan. *)

\* The handler's `finally': the scan is over for the page, and health is read again.
Over ==
  /\ starter' = Idle
  /\ health' = [health EXCEPT !.asked = @ + 1]

\* The report area is rewritten: by showError or by renderReport.
Shows(i) == seen' = seen \cup {i}

Start ==
  /\ ~disabled /\ ~scanning /\ \E i \in Scans : job[i] = "none"
  /\ disabled' = TRUE
  /\ starter' = [pc |-> "posting", scan |-> 0]
  /\ UNCHANGED <<job, claims, drops, socket, loading, poll, health, live, liveSocket, seen, lost>>

\* The server takes the scan, and the page opens a socket to follow it.
NewJob == CHOOSE i \in Scans : job[i] = "none"
Accepted ==
  /\ starter.pc = "posting" /\ ~Busy
  /\ job' = [job EXCEPT ![NewJob] = "running"]
  /\ starter' = [pc |-> "following", scan |-> NewJob]
  /\ socket' = [socket EXCEPT ![NewJob] = "connecting"]
  /\ UNCHANGED <<claims, drops, disabled, loading, poll, health, live, liveSocket, seen, lost>>

\* 409: the interface is taken.
Refused ==
  /\ starter.pc = "posting" /\ Busy
  /\ Over
  /\ UNCHANGED <<job, claims, drops, disabled, socket, loading, poll, live, liveSocket, seen, lost>>

\* The request or its answer is lost; the scan may have begun.
PostDropped(taken) ==
  /\ starter.pc = "posting" /\ Dropped
  /\ job' = IF taken /\ ~Busy THEN [job EXCEPT ![NewJob] = "running"] ELSE job
  /\ Over
  /\ UNCHANGED <<claims, disabled, socket, loading, poll, live, liveSocket, seen, lost>>

-----------------------------------------------------------------------------
(* Following it over a socket. *)

\* The promise that the click handler waits for is settled at most once.
Finish(i) ==
  IF starter = [pc |-> "following", scan |-> i] THEN Over ELSE UNCHANGED <<starter, health>>

SocketOpens(i) ==
  /\ socket[i] = "connecting" /\ socket' = [socket EXCEPT ![i] = "open"]
  /\ UNCHANGED <<job, claims, drops, starter, disabled, loading, poll, health,
                 live, liveSocket, seen, lost>>

\* "finished": a failed scan is shown as such at once; for the report of another, a
\* request is sent.
SocketTells(i) ==
  /\ socket[i] = "open" /\ Ended(i)
  /\ IF job[i] = "failed"
     THEN /\ Shows(i) /\ Finish(i)
          /\ socket' = [socket EXCEPT ![i] = "closed"] /\ UNCHANGED loading
     ELSE /\ loading' = loading \cup {i} /\ socket' = [socket EXCEPT ![i] = "told"]
          /\ UNCHANGED <<seen, starter, health>>
  /\ UNCHANGED <<job, claims, drops, disabled, poll, live, liveSocket, lost>>

\* The server closes a socket as soon as it has said "finished".
SocketCloses(i) ==
  /\ socket[i] = "told" /\ socket' = [socket EXCEPT ![i] = "closed"]
  /\ Finish(i)
  /\ UNCHANGED <<job, claims, drops, disabled, loading, poll, live, liveSocket, seen, lost>>

ReportArrives(i) ==
  /\ i \in loading /\ loading' = loading \ {i}
  /\ Shows(i) /\ Finish(i)
  /\ socket' = [socket EXCEPT ![i] = "closed"]
  /\ UNCHANGED <<job, claims, drops, disabled, poll, live, liveSocket, lost>>

\* Nobody handles a report that cannot be fetched.
ReportDropped(i) ==
  /\ i \in loading /\ Dropped
  /\ loading' = loading \ {i} /\ lost' = lost \cup {i}
  /\ UNCHANGED <<job, claims, starter, disabled, socket, poll, health, live, liveSocket, seen>>

\* A socket that fails sets off polling; and it closes, which is the end of the scan for
\* the click handler, although polling goes on.
SocketFails(i) ==
  /\ socket[i] \in {"connecting", "open"} /\ Dropped
  /\ poll' = [poll EXCEPT ![i].pc = "asking"]
  /\ socket' = [socket EXCEPT ![i] = "closed"]
  /\ Finish(i)
  /\ UNCHANGED <<job, claims, disabled, loading, live, liveSocket, seen, lost>>

-----------------------------------------------------------------------------
(* Polling. *)

PollAnswered(i) ==
  /\ poll[i].pc = "asking"
  /\ poll' = [poll EXCEPT ![i] = [pc |-> IF Ended(i) THEN "loading" ELSE "waiting", failures |-> 0]]
  /\ UNCHANGED <<job, claims, drops, starter, disabled, socket, loading, health,
                 live, liveSocket, seen, lost>>

\* Mutant: polling ends with the first request that fails.
PollFailsOnce(i) ==
  /\ poll[i].pc \in {"asking", "loading"} /\ Dropped
  /\ poll' = [poll EXCEPT ![i].pc = "ended"]
  /\ UNCHANGED seen
  /\ UNCHANGED <<job, claims, starter, disabled, socket, loading, health, live, liveSocket, lost>>
\* One failed request is no reason to give up; several in a row are.
PollFails(i) ==
  /\ poll[i].pc \in {"asking", "loading"} /\ Dropped
  /\ IF poll[i].failures + 1 >= GiveUp
     THEN /\ poll' = [poll EXCEPT ![i] = [pc |-> "ended", failures |-> GiveUp]]
          /\ Shows(i)
     ELSE /\ poll' = [poll EXCEPT ![i] = [pc |-> "waiting", failures |-> @.failures + 1]]
          /\ UNCHANGED seen
  /\ UNCHANGED <<job, claims, starter, disabled, socket, loading, health, live, liveSocket, lost>>

PollAgain(i) ==
  /\ poll[i].pc = "waiting" /\ poll' = [poll EXCEPT ![i].pc = "asking"]
  /\ UNCHANGED <<job, claims, drops, starter, disabled, socket, loading, health,
                 live, liveSocket, seen, lost>>

PollLoads(i) ==
  /\ poll[i].pc = "loading" /\ poll' = [poll EXCEPT ![i].pc = "ended"]
  /\ Shows(i)
  /\ UNCHANGED <<job, claims, drops, starter, disabled, socket, loading, health, live, liveSocket, lost>>

-----------------------------------------------------------------------------
(* The start button: every few seconds, and after every scan, the page     *)
(* asks whether the interface is taken. Answers may overtake each other.   *)

\* Mutant: a disabled button is not asked about.
AskWhenEnabled ==
  /\ ~disabled /\ health.asked + health.busy + health.free < MaxAsked
  /\ health' = [health EXCEPT !.asked = @ + 1]
  /\ UNCHANGED <<job, claims, drops, starter, disabled, socket, loading, poll,
                 live, liveSocket, seen, lost>>
AskHealth ==
  /\ health.asked + health.busy + health.free < MaxAsked
  /\ health' = [health EXCEPT !.asked = @ + 1]
  /\ UNCHANGED <<job, claims, drops, starter, disabled, socket, loading, poll,
                 live, liveSocket, seen, lost>>

HealthServed ==
  /\ health.asked > 0
  /\ health' = [health EXCEPT !.asked = @ - 1, !.busy = @ + (IF Busy THEN 1 ELSE 0),
                              !.free = @ + (IF Busy THEN 0 ELSE 1)]
  /\ UNCHANGED <<job, claims, drops, starter, disabled, socket, loading, poll,
                 live, liveSocket, seen, lost>>

\* While a scan of its own goes on, the page leaves the button alone.
HealthArrives(busy) ==
  /\ health[busy] > 0 /\ health' = [health EXCEPT ![busy] = @ - 1]
  /\ disabled' = IF scanning THEN disabled ELSE busy = "busy"
  /\ UNCHANGED <<job, claims, drops, starter, socket, loading, poll, live, liveSocket, seen, lost>>

HealthFails ==
  /\ health.asked > 0 /\ Dropped
  /\ health' = [health EXCEPT !.asked = @ - 1]
  /\ disabled' = IF scanning THEN disabled ELSE FALSE
  /\ UNCHANGED <<job, claims, starter, socket, loading, poll, live, liveSocket, seen, lost>>

-----------------------------------------------------------------------------
(* Live values. *)

NewLive == CHOOSE l \in Lives : live[l] = "none"
\* Mutant: the page forgets the socket when it asks for its end.
ForgetLive ==
  \/ /\ liveSocket # 0 /\ liveSocket' = 0
     /\ live' = [live EXCEPT ![liveSocket] = "closing"]
     /\ UNCHANGED <<job, claims, drops, starter, disabled, socket, loading, poll, health, seen, lost>>
  \/ /\ liveSocket = 0 /\ \E l \in Lives : live[l] = "none"
     /\ live' = [live EXCEPT ![NewLive] = "connecting"] /\ liveSocket' = NewLive
     /\ UNCHANGED <<job, claims, drops, starter, disabled, socket, loading, poll, health, seen, lost>>
\* The button closes the socket there is, or opens one.
ToggleLive ==
  \/ /\ liveSocket # 0 /\ live[liveSocket] # "closed"
     /\ live' = [live EXCEPT ![liveSocket] = "closing"]
     /\ UNCHANGED <<job, claims, drops, starter, disabled, socket, loading, poll, health,
                    liveSocket, seen, lost>>
  \/ /\ liveSocket = 0 /\ \E l \in Lives : live[l] = "none"
     /\ live' = [live EXCEPT ![NewLive] = "connecting"] /\ liveSocket' = NewLive
     /\ UNCHANGED <<job, claims, drops, starter, disabled, socket, loading, poll, health, seen, lost>>

\* The server streams, unless the interface is taken: then it says so and closes.
LiveServed(l) ==
  /\ live[l] = "connecting"
  /\ live' = [live EXCEPT ![l] = IF Busy THEN "closing" ELSE "open"]
  /\ UNCHANGED <<job, claims, drops, starter, disabled, socket, loading, poll, health,
                 liveSocket, seen, lost>>
LiveFails(l) ==
  /\ live[l] \in {"connecting", "open"} /\ Dropped
  /\ live' = [live EXCEPT ![l] = "closing"]
  /\ UNCHANGED <<job, claims, starter, disabled, socket, loading, poll, health,
                 liveSocket, seen, lost>>
LiveCloses(l) ==
  /\ live[l] = "closing"
  /\ live' = [live EXCEPT ![l] = "closed"] /\ liveSocket' = 0
  /\ UNCHANGED <<job, claims, drops, starter, disabled, socket, loading, poll, health, seen, lost>>

-----------------------------------------------------------------------------
Following(i) ==
  SocketOpens(i) \/ SocketTells(i) \/ SocketCloses(i) \/ ReportArrives(i)
Polling(i) == PollAnswered(i) \/ PollAgain(i) \/ PollLoads(i)

Next ==
  \/ OtherClaims \/ OtherReleases \/ Start \/ Accepted \/ Refused
  \/ AskHealth \/ HealthServed \/ HealthFails \/ ToggleLive
  \/ \E taken \in BOOLEAN : PostDropped(taken)
  \/ \E busy \in {"busy", "free"} : HealthArrives(busy)
  \/ \E i \in Scans :
       \/ Following(i) \/ Polling(i)
       \/ SocketFails(i) \/ ReportDropped(i) \/ PollFails(i)
       \/ \E state \in {"done", "failed"} : JobEnds(i, state)
  \/ \E l \in Lives : LiveServed(l) \/ LiveFails(l) \/ LiveCloses(l)

\* The server answers, scans end and other clients leave; the browser's timers fire. Users
\* need do nothing, but a live stream ends with its socket, which may last.
Fairness ==
  /\ WF_vars(OtherReleases) /\ WF_vars(Accepted \/ Refused)
  /\ WF_vars(AskHealth) /\ WF_vars(HealthServed)
  /\ WF_vars(HealthArrives("busy")) /\ WF_vars(HealthArrives("free"))
  /\ \A i \in Scans : /\ WF_vars(Following(i)) /\ WF_vars(Polling(i))
                      /\ WF_vars(\E state \in {"done", "failed"} : JobEnds(i, state))
  /\ \A l \in Lives : WF_vars(LiveServed(l)) /\ WF_vars(LiveCloses(l))

FairSpec == Init /\ [][Next]_vars /\ Fairness

TypeOK ==
  /\ job \in [Scans -> {"none", "running", "done", "failed"}]
  /\ claims \in [n : 0 .. MaxClaims, held : BOOLEAN] /\ drops \in 0 .. MaxDrops
  /\ starter \in [pc : {"idle", "posting", "following"}, scan : {0} \cup Scans]
  /\ disabled \in BOOLEAN
  /\ socket \in [Scans -> {"none", "connecting", "open", "told", "closed"}]
  /\ loading \subseteq Scans
  /\ poll \in [Scans -> [pc : {"none", "asking", "waiting", "loading", "ended"}, failures : 0 .. GiveUp]]
  /\ \A i \in Scans : poll[i].pc # "ended" => poll[i].failures < GiveUp
  /\ health \in [{"asked", "busy", "free"} -> 0 .. MaxAsked + 1]
  /\ live \in [Lives -> {"none", "connecting", "open", "closing", "closed"}]
  /\ liveSocket \in {0} \cup Lives
  /\ seen \subseteq Scans /\ lost \subseteq Scans

-----------------------------------------------------------------------------
\* The page never has two streams, and never forgets one that is open: the close handler,
\* which clears whatever liveSocket is, only ever clears its own (app.js:789-846).
LiveIsOne ==
  \A l \in Lives : live[l] \in {"connecting", "open", "closing"} => liveSocket = l

\* A scan that is followed is shown in the end, as a report or an error, whatever becomes
\* of its socket and however many single requests of the polling fail - but for a report
\* that was asked for after the socket's last message and did not get through
\* (app.js:280-360).
FollowedIsShown == \A i \in Scans : socket[i] = "connecting" ~> i \in seen \cup lost

\* The start button is never stranded: not by a health answer that is older than the
\* next, not by one that is lost, nor by one that arrives while a scan is starting
\* (app.js:99-130, 266-271). A stream of live values keeps the interface taken.
StartComesBack == disabled ~> ~disabled \/ \E l \in Lives : live[l] = "open"
=============================================================================
