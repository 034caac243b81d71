------------------------------ MODULE UiProofs ------------------------------
(***************************************************************************)
(* The page has one live stream at a time, however many it opens; polling  *)
(* is given up after GiveUp failures in a row and not later, and answers   *)
(* about the interface do not pile up.                                     *)
(***************************************************************************)
EXTENDS Ui, TLAPS

LiveStates == {"none", "connecting", "open", "closing", "closed"}
LiveInv == live \in [Lives -> LiveStates] /\ LiveIsOne

LEMMA LiveInit == Init => LiveInv
BY DEF Init, LiveInv, LiveIsOne, LiveStates

\* What any step but those of the live values leaves alone.
LEMMA LiveStutters == LiveInv /\ UNCHANGED <<live, liveSocket>> => LiveInv'
BY DEF LiveInv, LiveIsOne

\* The button: there is a socket, and it is told to close; or there is none, and so nothing
\* is under way when one is opened.
LEMMA LiveToggled ==
  ASSUME LiveInv, ToggleLive
  PROVE  LiveInv'
<1>1. CASE liveSocket # 0
  <2>1. liveSocket' = liveSocket /\ live' = [live EXCEPT ![liveSocket] = "closing"]
    BY <1>1 DEF ToggleLive
  <2>2. live' \in [Lives -> LiveStates]
    BY <2>1 DEF LiveInv, LiveStates
  <2>3. \A l \in Lives : l # liveSocket => live'[l] = live[l]
    BY <2>1 DEF LiveInv
  <2> QED BY <2>1, <2>2, <2>3 DEF LiveInv, LiveIsOne
<1>2. CASE liveSocket = 0
  <2>1. liveSocket' = NewLive /\ live' = [live EXCEPT ![NewLive] = "connecting"]
    BY <1>2 DEF ToggleLive
  <2>2. live' \in [Lives -> LiveStates]
    BY <2>1 DEF LiveInv, LiveStates
  <2>3. \A l \in Lives : live[l] \notin {"connecting", "open", "closing"}
    BY <1>2 DEF LiveInv, LiveIsOne, Lives
  <2>4. \A l \in Lives : l # NewLive => live'[l] = live[l]
    BY <2>1 DEF LiveInv
  <2> QED BY <2>1, <2>2, <2>3, <2>4 DEF LiveInv, LiveIsOne
<1> QED BY <1>1, <1>2

\* The close handler clears whatever socket the page knows, and that is its own.
LEMMA LiveStepped ==
  ASSUME LiveInv, NEW l \in Lives, LiveServed(l) \/ LiveFails(l) \/ LiveCloses(l)
  PROVE  LiveInv'
<1>1. CASE LiveServed(l)
  <2>1. liveSocket = l /\ liveSocket' = l
    BY <1>1 DEF LiveServed, LiveInv, LiveIsOne
  <2>2. live' \in [Lives -> LiveStates] /\ \A k \in Lives : k # l => live'[k] = live[k]
    BY <1>1 DEF LiveServed, LiveInv, LiveStates
  <2> QED BY <2>1, <2>2 DEF LiveInv, LiveIsOne
<1>2. CASE LiveFails(l)
  <2>1. liveSocket = l /\ liveSocket' = l
    BY <1>2 DEF LiveFails, LiveInv, LiveIsOne
  <2>2. live' \in [Lives -> LiveStates] /\ \A k \in Lives : k # l => live'[k] = live[k]
    BY <1>2 DEF LiveFails, LiveInv, LiveStates
  <2> QED BY <2>1, <2>2 DEF LiveInv, LiveIsOne
<1>3. CASE LiveCloses(l)
  <2>1. liveSocket = l
    BY <1>3 DEF LiveCloses, LiveInv, LiveIsOne
  <2>2. live' \in [Lives -> LiveStates] /\ live'[l] = "closed"
    BY <1>3 DEF LiveCloses, LiveInv, LiveStates
  <2>3. \A k \in Lives : k # l => live'[k] = live[k]
    BY <1>3 DEF LiveCloses, LiveInv
  <2> QED BY <2>1, <2>2, <2>3 DEF LiveInv, LiveIsOne
<1> QED BY <1>1, <1>2, <1>3

\* Whatever the page, the server, the network and the user do, there is at most one live
\* stream, and the page knows it (app.js:789-846).
THEOREM LiveTheorem == FairSpec => []LiveIsOne
<1>1. LiveInv /\ [Next]_vars => LiveInv'
  <2> SUFFICES ASSUME LiveInv, [Next]_vars PROVE LiveInv'
    OBVIOUS
  <2>1. CASE ToggleLive
    BY <2>1, LiveToggled
  <2>2. CASE \E l \in Lives : LiveServed(l) \/ LiveFails(l) \/ LiveCloses(l)
    BY <2>2, LiveStepped
  <2>3. CASE UNCHANGED vars
    BY <2>3, LiveStutters DEF vars
  <2>4. CASE OtherClaims \/ OtherReleases \/ Start \/ Accepted \/ Refused
    BY <2>4, LiveStutters DEF OtherClaims, OtherReleases, Start, Accepted, Refused
  <2>5. CASE AskHealth \/ HealthServed \/ HealthFails
             \/ \E busy \in {"busy", "free"} : HealthArrives(busy)
    BY <2>5, LiveStutters DEF AskHealth, HealthServed, HealthFails, HealthArrives
  <2>6. CASE \E taken \in BOOLEAN : PostDropped(taken)
    BY <2>6, LiveStutters DEF PostDropped
  <2>7. ASSUME NEW i \in Scans, Following(i) PROVE LiveInv'
    BY <2>7, LiveStutters
       DEF Following, SocketOpens, SocketTells, SocketCloses, ReportArrives
  <2>8. ASSUME NEW i \in Scans, Polling(i) \/ PollFails(i) PROVE LiveInv'
    BY <2>8, LiveStutters DEF Polling, PollAnswered, PollAgain, PollLoads, PollFails
  <2>9. ASSUME NEW i \in Scans, SocketFails(i) \/ ReportDropped(i) PROVE LiveInv'
    BY <2>9, LiveStutters DEF SocketFails, ReportDropped
  <2>10. ASSUME NEW i \in Scans, \E state \in {"done", "failed"} : JobEnds(i, state)
         PROVE  LiveInv'
    BY <2>10, LiveStutters DEF JobEnds
  <2> QED BY <2>1, <2>2, <2>3, <2>4, <2>5, <2>6, <2>7, <2>8, <2>9, <2>10 DEF Next
<1>2. LiveInv => LiveIsOne
  BY DEF LiveInv
<1> QED BY <1>1, <1>2, LiveInit, PTL DEF FairSpec

-----------------------------------------------------------------------------
(* Types: polling starts once, from nothing, and of the questions about the  *)
(* interface there is never more than the timer's and one of the last scan.  *)

\* A scan is posted only if there is one left, and holds the button meanwhile; a socket
\* belongs to a scan that has begun, and polling begins when it closes.
Fresh ==
  /\ starter.pc = "posting" => \E i \in Scans : job[i] = "none"
  /\ scanning => disabled
  /\ \A i \in Scans : job[i] = "none" => socket[i] = "none" /\ i \notin loading
  /\ \A i \in Scans : socket[i] # "closed" => poll[i] = [pc |-> "none", failures |-> 0]

\* A scan that ends asks once more; but to start one, the button had to be enabled, and that
\* took an answer.
Started == IF scanning \/ ~disabled THEN 1 ELSE 0
AskedOnce == health.asked + health.busy + health.free + Started <= MaxAsked + 1

UiInv == TypeOK /\ Fresh /\ AskedOnce

LEMMA UiInit == Init => UiInv
<1> SUFFICES ASSUME Init PROVE UiInv OBVIOUS
<1>0. MaxAsked \in Nat \ {0} /\ GiveUp \in Nat \ {0} /\ MaxClaims \in Nat /\ MaxDrops \in Nat
  BY UiAssumption
<1>1. TypeOK
  <2>1. /\ poll \in [Scans -> [pc : {"none", "asking", "waiting", "loading", "ended"}, failures : 0 .. GiveUp]]
        /\ \A i \in Scans : poll[i].failures < GiveUp
    BY <1>0 DEF Init
  <2>2. health \in [{"asked", "busy", "free"} -> 0 .. MaxAsked + 1] BY <1>0 DEF Init
  <2>3. claims \in [n : 0 .. MaxClaims, held : BOOLEAN] /\ drops \in 0 .. MaxDrops BY <1>0 DEF Init
  <2> QED BY <2>1, <2>2, <2>3 DEF Init, TypeOK, Idle
<1>2. Fresh BY DEF Init, Fresh, Idle, scanning
<1>3. AskedOnce BY <1>0 DEF Init, AskedOnce, Started, Idle, scanning
<1> QED BY <1>1, <1>2, <1>3 DEF UiInv

\* Where the questions are: what they may become without there being more of them.
LEMMA HealthOK ==
  ASSUME TypeOK,
         health' \in [{"asked", "busy", "free"} -> Nat],
         AskedOnce'
  PROVE  health' \in [{"asked", "busy", "free"} -> 0 .. MaxAsked + 1]
<1>1. MaxAsked \in Nat BY UiAssumption
<1>2. Started' \in {0, 1} BY DEF Started
<1> DEFINE a == health'.asked
           b == health'.busy
           c == health'.free
<1>3. a \in Nat /\ b \in Nat /\ c \in Nat OBVIOUS
<1>4. a + b + c + Started' <= MaxAsked + 1 BY DEF AskedOnce
<1>5. a \in 0 .. MaxAsked + 1 /\ b \in 0 .. MaxAsked + 1 /\ c \in 0 .. MaxAsked + 1
  <2> HIDE DEF a, b, c
  <2> DEFINE t == Started'
  <2>1. t \in {0, 1} /\ a + b + c + t <= MaxAsked + 1 BY <1>2, <1>4
  <2> HIDE DEF t
  <2> QED BY <1>1, <1>3, <2>1
<1> QED BY <1>5

\* A question is answered, or fails, or the scan that the button began is over.
LEMMA HealthSteps ==
  ASSUME UiInv
  PROVE  /\ health \in [{"asked", "busy", "free"} -> Nat] /\ Started \in {0, 1} /\ MaxAsked \in Nat \ {0}
         /\ UNCHANGED health /\ Started' <= Started => AskedOnce'
         /\ Over /\ scanning /\ UNCHANGED disabled => AskedOnce' /\ health' \in [{"asked", "busy", "free"} -> Nat]
<1>0. health \in [{"asked", "busy", "free"} -> Nat] /\ Started \in {0, 1} /\ MaxAsked \in Nat \ {0}
  BY UiAssumption DEF UiInv, TypeOK, Started
<1>1. ASSUME UNCHANGED health, Started' <= Started PROVE AskedOnce'
  <2>1. Started' \in {0, 1} BY DEF Started
  <2>2. health.asked \in Nat /\ health.busy \in Nat /\ health.free \in Nat BY <1>0
  <2> QED BY <1>0, <1>1, <2>1, <2>2 DEF AskedOnce, UiInv
<1>2. ASSUME Over, scanning, UNCHANGED disabled
      PROVE AskedOnce' /\ health' \in [{"asked", "busy", "free"} -> Nat]
  <2>1. health' = [health EXCEPT !.asked = @ + 1] /\ starter' = Idle BY <1>2 DEF Over
  <2>2. Started = 1 /\ Started' = 0 BY <1>2, <2>1 DEF Started, scanning, Idle, UiInv, Fresh
  <2>3. health.asked \in Nat /\ health.busy \in Nat /\ health.free \in Nat BY <1>0
  <2>4. health'.asked = health.asked + 1 /\ health'.busy = health.busy /\ health'.free = health.free
    BY <1>0, <2>1
  <2> QED BY <1>0, <2>1, <2>2, <2>3, <2>4 DEF AskedOnce, UiInv
<1> QED BY <1>0, <1>1, <1>2

LEMMA AskedStep ==
  ASSUME UiInv, [Next]_vars
  PROVE  AskedOnce' /\ health' \in [{"asked", "busy", "free"} -> Nat]
<1> DEFINE Goal == AskedOnce' /\ health' \in [{"asked", "busy", "free"} -> Nat]
<1>0. /\ health \in [{"asked", "busy", "free"} -> Nat] /\ Started \in {0, 1} /\ MaxAsked \in Nat \ {0}
      /\ health.asked \in Nat /\ health.busy \in Nat /\ health.free \in Nat
      /\ health.asked + health.busy + health.free + Started <= MaxAsked + 1
  BY HealthSteps DEF UiInv, AskedOnce
<1>a. ASSUME UNCHANGED <<health, starter, disabled>> PROVE Goal
  BY <1>a, HealthSteps DEF Started, scanning
<1>b. ASSUME Over, scanning, UNCHANGED disabled PROVE Goal BY <1>b, HealthSteps
<1>c. ASSUME NEW i \in Scans, Finish(i), UNCHANGED disabled PROVE Goal
  <2>1. CASE starter = [pc |-> "following", scan |-> i] BY <1>b, <1>c, <2>1 DEF Finish, scanning
  <2>2. CASE starter # [pc |-> "following", scan |-> i] BY <1>a, <1>c, <2>2 DEF Finish
  <2> QED BY <2>1, <2>2
<1> HIDE DEF Goal
<1>1. CASE OtherClaims \/ OtherReleases \/ ToggleLive
  BY <1>1, <1>a DEF OtherClaims, OtherReleases, ToggleLive, Goal
<1>2. CASE Start \/ Accepted
  <2>1. health' = health /\ Started = 1 BY <1>2 DEF Start, Accepted, Started, scanning
  <2>2. Started' \in {0, 1} BY DEF Started
  <2>3. Started' <= Started BY <2>1, <2>2
  <2> QED BY <2>1, <2>3, HealthSteps DEF Goal
<1>3. CASE Refused BY <1>3, <1>b DEF Refused, scanning, Goal
<1>4. CASE \E taken \in BOOLEAN : PostDropped(taken) BY <1>4, <1>b DEF PostDropped, scanning, Goal
<1>5. CASE AskHealth
  <2>1. /\ health' = [health EXCEPT !.asked = @ + 1] /\ Started' = Started
        /\ health.asked + health.busy + health.free < MaxAsked
    BY <1>5 DEF AskHealth, Started, scanning
  <2>2. health' \in [{"asked", "busy", "free"} -> Nat] BY <1>0, <2>1
  <2>3. health'.asked = health.asked + 1 /\ health'.busy = health.busy /\ health'.free = health.free
    BY <1>0, <2>1
  <2> QED BY <1>0, <2>1, <2>2, <2>3 DEF Goal, AskedOnce
<1>6. CASE HealthServed
  <2>1. Started' = Started /\ health.asked > 0 BY <1>6 DEF HealthServed, Started, scanning
  <2>2. PICK b \in {0, 1} : health' = [health EXCEPT !.asked = @ - 1, !.busy = @ + b, !.free = @ + (1 - b)]
    <3>1. CASE Busy BY <1>6, <3>1 DEF HealthServed
    <3>2. CASE ~Busy BY <1>6, <3>2 DEF HealthServed
    <3> QED BY <3>1, <3>2
  <2>3. health'.asked = health.asked - 1 /\ health'.busy = health.busy + b /\ health'.free = health.free + (1 - b)
    BY <1>0, <2>2
  <2>4. health' \in [{"asked", "busy", "free"} -> Nat]
    <3>1. health.asked - 1 \in Nat /\ health.busy + b \in Nat /\ health.free + (1 - b) \in Nat BY <1>0, <2>1
    <3>2. health' = [x \in {"asked", "busy", "free"} |-> health'[x]] BY <1>0, <2>2
    <3> QED BY <2>3, <3>1, <3>2
  <2> QED BY <1>0, <2>1, <2>3, <2>4 DEF Goal, AskedOnce
<1>7. ASSUME NEW busy \in {"busy", "free"}, HealthArrives(busy) PROVE Goal
  <2>1. health' = [health EXCEPT ![busy] = @ - 1] /\ health[busy] > 0 BY <1>7 DEF HealthArrives
  <2>2. Started' \in {0, 1} BY DEF Started
  <2>3. scanning => Started' = Started BY <1>7 DEF HealthArrives, Started, scanning
  <2>4. health' \in [{"asked", "busy", "free"} -> Nat] BY <1>0, <2>1
  <2>5. health'.asked + health'.busy + health'.free = health.asked + health.busy + health.free - 1
    <3>1. CASE busy = "busy"
      <4>1. health'.busy = health.busy - 1 /\ health'.asked = health.asked /\ health'.free = health.free
        BY <1>0, <2>1, <3>1
      <4> QED BY <4>1, <1>0
    <3>2. CASE busy = "free"
      <4>1. health'.free = health.free - 1 /\ health'.asked = health.asked /\ health'.busy = health.busy
        BY <1>0, <2>1, <3>2
      <4> QED BY <4>1, <1>0
    <3> QED BY <3>1, <3>2
  <2>6. Started' <= Started + 1 BY <1>0, <2>2
  <2> QED BY <1>0, <2>2, <2>4, <2>5, <2>6 DEF Goal, AskedOnce
<1>8. CASE HealthFails
  <2>1. health' = [health EXCEPT !.asked = @ - 1] /\ health.asked > 0 BY <1>8 DEF HealthFails
  <2>2. Started' \in {0, 1} BY DEF Started
  <2>4. health' \in [{"asked", "busy", "free"} -> Nat] BY <1>0, <2>1
  <2>5. health'.asked = health.asked - 1 /\ health'.busy = health.busy /\ health'.free = health.free
    BY <1>0, <2>1
  <2> QED BY <1>0, <2>2, <2>4, <2>5 DEF Goal, AskedOnce
<1>9. ASSUME NEW i \in Scans, Following(i) \/ SocketFails(i) PROVE Goal
  <2>1. CASE SocketOpens(i) BY <2>1, <1>a DEF SocketOpens
  <2>2. CASE SocketTells(i)
    <3>1. Finish(i) \/ UNCHANGED <<starter, health>> BY <2>2 DEF SocketTells
    <3> QED BY <3>1, <2>2, <1>a, <1>c DEF SocketTells
  <2>3. CASE SocketCloses(i) \/ ReportArrives(i) \/ SocketFails(i)
    BY <2>3, <1>c DEF SocketCloses, ReportArrives, SocketFails
  <2> QED BY <1>9, <2>1, <2>2, <2>3 DEF Following
<1>10. ASSUME NEW i \in Scans, Polling(i) \/ PollFails(i) \/ ReportDropped(i) PROVE Goal
  BY <1>10, <1>a DEF Polling, PollAnswered, PollAgain, PollLoads, PollFails, ReportDropped
<1>11. ASSUME NEW i \in Scans, NEW state, JobEnds(i, state) PROVE Goal BY <1>11, <1>a DEF JobEnds
<1>12. ASSUME NEW l \in Lives, LiveServed(l) \/ LiveFails(l) \/ LiveCloses(l) PROVE Goal
  BY <1>12, <1>a DEF LiveServed, LiveFails, LiveCloses
<1>13. CASE UNCHANGED vars BY <1>13, <1>a DEF vars, Goal
<1> QED BY <1>1, <1>2, <1>3, <1>4, <1>5, <1>6, <1>7, <1>8, <1>9, <1>10, <1>11, <1>12, <1>13 DEF Next, Goal

LEMMA FreshStep ==
  ASSUME UiInv, [Next]_vars
  PROVE  Fresh'
<1> USE DEF Fresh
<1>0. /\ job \in [Scans -> {"none", "running", "done", "failed"}]
      /\ socket \in [Scans -> {"none", "connecting", "open", "told", "closed"}]
      /\ poll \in [Scans -> [pc : {"none", "asking", "waiting", "loading", "ended"}, failures : 0 .. GiveUp]]
      /\ Fresh
  BY DEF UiInv, TypeOK
<1>a. ASSUME UNCHANGED <<job, socket, poll, starter, disabled, loading>> PROVE Fresh' BY <1>0, <1>a DEF scanning
<1>b. ASSUME NEW i \in Scans, job[i] # "none", socket' = [socket EXCEPT ![i] = "closed"],
             UNCHANGED <<job, disabled>>, loading' \subseteq loading, starter' = starter \/ starter' = Idle,
             poll' = poll \/ poll' = [poll EXCEPT ![i].pc = "asking"]
      PROVE Fresh'
  BY <1>0, <1>b DEF scanning, Idle
<1>c. ASSUME NEW i, Finish(i) PROVE starter' = starter \/ starter' = Idle BY <1>c DEF Finish, Over
<1>1. CASE OtherClaims \/ OtherReleases \/ ToggleLive \/ AskHealth \/ HealthServed
  BY <1>1, <1>a DEF OtherClaims, OtherReleases, ToggleLive, AskHealth, HealthServed
<1>2. CASE Start BY <1>0, <1>2 DEF Start, scanning
<1>3. CASE Accepted
  <2>1. NewJob \in Scans /\ job[NewJob] = "none" BY <1>0, <1>3 DEF Accepted, NewJob
  <2> QED BY <1>0, <1>3, <2>1 DEF Accepted, scanning
<1>4. CASE Refused BY <1>0, <1>4 DEF Refused, Over, Idle, scanning
<1>5. CASE \E taken \in BOOLEAN : PostDropped(taken)
  <2>1. NewJob \in Scans /\ job[NewJob] = "none" BY <1>0, <1>5 DEF PostDropped, NewJob
  <2>2. job' = job \/ job' = [job EXCEPT ![NewJob] = "running"] BY <1>5 DEF PostDropped
  <2>3. starter' = Idle /\ UNCHANGED <<socket, poll, loading>> BY <1>5 DEF PostDropped, Over
  <2> QED BY <1>0, <2>1, <2>2, <2>3 DEF Idle, scanning
<1>6. ASSUME NEW busy \in {"busy", "free"}, HealthArrives(busy) PROVE Fresh'
  BY <1>0, <1>6 DEF HealthArrives, scanning
<1>7. CASE HealthFails BY <1>0, <1>7 DEF HealthFails, scanning
<1>8. ASSUME NEW i \in Scans, SocketOpens(i) PROVE Fresh' BY <1>0, <1>8 DEF SocketOpens, scanning
<1>9. ASSUME NEW i \in Scans, SocketTells(i) PROVE Fresh'
  <2>1. CASE job[i] = "failed" BY <1>0, <1>9, <1>b, <1>c, <2>1 DEF SocketTells
  <2>2. CASE job[i] # "failed" BY <1>0, <1>9, <2>2 DEF SocketTells, Ended, scanning
  <2> QED BY <2>1, <2>2
<1>10. ASSUME NEW i \in Scans, SocketCloses(i) \/ SocketFails(i) PROVE Fresh'
  <2>1. job[i] # "none" BY <1>0, <1>10 DEF SocketCloses, SocketFails
  <2> QED BY <1>10, <1>b, <1>c, <2>1 DEF SocketCloses, SocketFails
<1>11. ASSUME NEW i \in Scans, ReportArrives(i) PROVE Fresh'
  BY <1>0, <1>11, <1>b, <1>c DEF ReportArrives
<1>12. ASSUME NEW i \in Scans, Polling(i) \/ PollFails(i) PROVE Fresh'
  <2>1. socket[i] = "closed" BY <1>0, <1>12 DEF Polling, PollAnswered, PollAgain, PollLoads, PollFails
  <2>2. /\ \A k \in Scans : k # i => poll'[k] = poll[k]
        /\ UNCHANGED <<job, socket, starter, disabled, loading>>
    BY <1>0, <1>12 DEF Polling, PollAnswered, PollAgain, PollLoads, PollFails
  <2>3. \A k \in Scans : socket'[k] # "closed" => poll'[k] = [pc |-> "none", failures |-> 0]
    BY <1>0, <2>1, <2>2
  <2> QED BY <1>0, <2>2, <2>3 DEF scanning
<1>13. ASSUME NEW i \in Scans, ReportDropped(i) PROVE Fresh' BY <1>0, <1>13 DEF ReportDropped, scanning
<1>14. ASSUME NEW i \in Scans, NEW state \in {"done", "failed"}, JobEnds(i, state) PROVE Fresh'
  BY <1>0, <1>14 DEF JobEnds, scanning
<1>15. ASSUME NEW l \in Lives, LiveServed(l) \/ LiveFails(l) \/ LiveCloses(l) PROVE Fresh'
  BY <1>15, <1>a DEF LiveServed, LiveFails, LiveCloses
<1>16. CASE UNCHANGED vars BY <1>16, <1>a DEF vars
<1> QED BY <1>1, <1>2, <1>3, <1>4, <1>5, <1>6, <1>7, <1>8, <1>9, <1>10, <1>11, <1>12, <1>13,
           <1>14, <1>15, <1>16 DEF Next, Following

\* TypeOK but for what is counted across actions: drops, claims and the questions.
PageOK ==
  /\ job \in [Scans -> {"none", "running", "done", "failed"}]
  /\ starter \in [pc : {"idle", "posting", "following"}, scan : {0} \cup Scans]
  /\ disabled \in BOOLEAN
  /\ socket \in [Scans -> {"none", "connecting", "open", "told", "closed"}]
  /\ loading \subseteq Scans
  /\ poll \in [Scans -> [pc : {"none", "asking", "waiting", "loading", "ended"}, failures : 0 .. GiveUp]]
  /\ \A i \in Scans : poll[i].pc # "ended" => poll[i].failures < GiveUp
  /\ live \in [Lives -> {"none", "connecting", "open", "closing", "closed"}]
  /\ liveSocket \in {0} \cup Lives
  /\ seen \subseteq Scans /\ lost \subseteq Scans

LEMMA PageStep ==
  ASSUME PageOK, Fresh, [Next]_vars
  PROVE  PageOK'
<1> USE DEF PageOK
<1>0. GiveUp \in Nat \ {0} BY UiAssumption
<1>a. ASSUME NEW i \in Scans, Finish(i) PROVE starter' \in [pc : {"idle", "posting", "following"}, scan : {0} \cup Scans]
  BY <1>a DEF Finish, Over, Idle
<1>b. ASSUME NEW i \in Scans, NEW pc \in {"asking", "waiting", "loading"}, NEW n \in 0 .. GiveUp,
             n < GiveUp, poll' = [poll EXCEPT ![i] = [pc |-> pc, failures |-> n]]
      PROVE  /\ poll' \in [Scans -> [pc : {"none", "asking", "waiting", "loading", "ended"}, failures : 0 .. GiveUp]]
             /\ \A k \in Scans : poll'[k].pc # "ended" => poll'[k].failures < GiveUp
  BY <1>b
<1>c. ASSUME NEW i \in Scans, poll' = [poll EXCEPT ![i].pc = "asking"], poll[i].pc # "ended"
      PROVE  /\ poll' \in [Scans -> [pc : {"none", "asking", "waiting", "loading", "ended"}, failures : 0 .. GiveUp]]
             /\ \A k \in Scans : poll'[k].pc # "ended" => poll'[k].failures < GiveUp
  BY <1>c
<1>1. CASE OtherClaims \/ OtherReleases \/ AskHealth \/ HealthServed \/ HealthFails \/ UNCHANGED vars
  BY <1>1 DEF OtherClaims, OtherReleases, AskHealth, HealthServed, HealthFails, vars
<1>2. CASE ToggleLive
  <2>1. CASE liveSocket # 0 BY <1>2, <2>1 DEF ToggleLive
  <2>2. CASE liveSocket = 0
    <3>1. NewLive \in Lives BY <1>2, <2>2 DEF ToggleLive, NewLive
    <3> QED BY <1>2, <2>2, <3>1 DEF ToggleLive
  <2> QED BY <2>1, <2>2
<1>3. CASE Start \/ Refused
  <2>1. CASE Start BY <2>1 DEF Start
  <2>2. CASE Refused BY <2>2 DEF Refused, Over, Idle
  <2> QED BY <1>3, <2>1, <2>2
<1>4. CASE Accepted
  <2>1. NewJob \in Scans BY <1>4 DEF Accepted, NewJob, Fresh
  <2> QED BY <1>4, <2>1 DEF Accepted
<1>5. CASE \E taken \in BOOLEAN : PostDropped(taken)
  <2>1. NewJob \in Scans BY <1>5 DEF PostDropped, NewJob, Fresh
  <2> QED BY <1>5, <2>1 DEF PostDropped, Over, Idle
<1>6. ASSUME NEW busy \in {"busy", "free"}, HealthArrives(busy) PROVE PageOK' BY <1>6 DEF HealthArrives
<1>7. ASSUME NEW i \in Scans, SocketOpens(i) PROVE PageOK' BY <1>7 DEF SocketOpens
<1>8. ASSUME NEW i \in Scans, SocketTells(i) PROVE PageOK'
  BY <1>8, <1>a DEF SocketTells, Shows
<1>9. ASSUME NEW i \in Scans, SocketCloses(i) \/ ReportArrives(i) PROVE PageOK'
  BY <1>9, <1>a DEF SocketCloses, ReportArrives, Shows
<1>10. ASSUME NEW i \in Scans, SocketFails(i) PROVE PageOK'
  <2>1. poll[i].pc # "ended" BY <1>10 DEF SocketFails, Fresh
  <2> QED BY <1>10, <2>1, <1>a, <1>c DEF SocketFails
<1>11. ASSUME NEW i \in Scans, ReportDropped(i) PROVE PageOK' BY <1>11 DEF ReportDropped
<1>12. ASSUME NEW i \in Scans, PollAnswered(i) PROVE PageOK'
  <2>1. PICK pc \in {"waiting", "loading"} : poll' = [poll EXCEPT ![i] = [pc |-> pc, failures |-> 0]]
    BY <1>12 DEF PollAnswered
  <2> QED BY <1>0, <1>12, <2>1, <1>b DEF PollAnswered
<1>13. ASSUME NEW i \in Scans, PollAgain(i) PROVE PageOK' BY <1>13, <1>c DEF PollAgain
<1>14. ASSUME NEW i \in Scans, PollLoads(i) PROVE PageOK' BY <1>14 DEF PollLoads, Shows
<1>15. ASSUME NEW i \in Scans, PollFails(i) PROVE PageOK'
  <2> DEFINE n == poll[i].failures
  <2>1. n \in 0 .. GiveUp OBVIOUS
  <2>2. CASE n + 1 >= GiveUp
    <3>1. poll' = [poll EXCEPT ![i] = [pc |-> "ended", failures |-> GiveUp]] BY <1>15, <2>2 DEF PollFails
    <3> QED BY <1>0, <1>15, <3>1 DEF PollFails, Shows
  <2>3. CASE ~(n + 1 >= GiveUp)
    <3>1. poll' = [poll EXCEPT ![i] = [pc |-> "waiting", failures |-> n + 1]] BY <1>15, <2>3 DEF PollFails
    <3>2. n + 1 \in 0 .. GiveUp /\ n + 1 < GiveUp
      <4> HIDE DEF n
      <4> QED BY <1>0, <2>1, <2>3
    <3> HIDE DEF n
    <3> QED BY <1>0, <1>15, <2>1, <3>1, <3>2, <1>b DEF PollFails, Shows
  <2> QED BY <2>2, <2>3
<1>16. ASSUME NEW i \in Scans, NEW state \in {"done", "failed"}, JobEnds(i, state) PROVE PageOK'
  BY <1>16 DEF JobEnds
<1>17. ASSUME NEW l \in Lives, LiveServed(l) \/ LiveFails(l) \/ LiveCloses(l) PROVE PageOK'
  BY <1>17 DEF LiveServed, LiveFails, LiveCloses
<1> QED BY <1>1, <1>2, <1>3, <1>4, <1>5, <1>6, <1>7, <1>8, <1>9, <1>10, <1>11, <1>12, <1>13,
           <1>14, <1>15, <1>16, <1>17 DEF Next, Following, Polling

LEMMA TypeStep ==
  ASSUME UiInv, [Next]_vars
  PROVE  TypeOK'
<1>0. TypeOK /\ Fresh /\ GiveUp \in Nat \ {0} /\ MaxClaims \in Nat /\ MaxDrops \in Nat
  BY UiAssumption DEF UiInv
<1>1. health' \in [{"asked", "busy", "free"} -> 0 .. MaxAsked + 1] BY <1>0, AskedStep, HealthOK
<1>2. drops' \in 0 .. MaxDrops
  <2>1. drops' = drops \/ Dropped
    <3>1. ASSUME NEW i \in Scans, Following(i) \/ Polling(i) \/ SocketFails(i) \/ ReportDropped(i) \/ PollFails(i)
          PROVE drops' = drops \/ Dropped
      BY <3>1 DEF Following, SocketOpens, SocketTells, SocketCloses, ReportArrives, Polling, PollAnswered,
        PollAgain, PollLoads, SocketFails, ReportDropped, PollFails
    <3>2. ASSUME NEW l \in Lives, LiveServed(l) \/ LiveFails(l) \/ LiveCloses(l) PROVE drops' = drops \/ Dropped
      BY <3>2 DEF LiveServed, LiveFails, LiveCloses
    <3> QED BY <3>1, <3>2 DEF Next, OtherClaims, OtherReleases, Start, Accepted, Refused, AskHealth,
        HealthServed, HealthFails, ToggleLive, PostDropped, HealthArrives, JobEnds, vars
  <2> QED BY <1>0, <2>1 DEF Dropped, TypeOK
<1>3. claims' \in [n : 0 .. MaxClaims, held : BOOLEAN]
  <2>0. claims \in [n : 0 .. MaxClaims, held : BOOLEAN] BY <1>0 DEF TypeOK
  <2>1. CASE OtherClaims
    <3>1. claims.n \in 0 .. MaxClaims /\ claims.n < MaxClaims /\ claims' = [n |-> claims.n + 1, held |-> TRUE]
      BY <2>0, <2>1 DEF OtherClaims
    <3>2. claims.n + 1 \in 0 .. MaxClaims BY <1>0, <3>1
    <3> QED BY <3>1, <3>2
  <2>2. CASE OtherReleases BY <2>0, <2>2 DEF OtherReleases
  <2>3. CASE UNCHANGED claims BY <2>0, <2>3
  <2>4. ASSUME NEW i \in Scans, Following(i) \/ Polling(i) \/ SocketFails(i) \/ ReportDropped(i) \/ PollFails(i)
        PROVE UNCHANGED claims
    BY <2>4 DEF Following, SocketOpens, SocketTells, SocketCloses, ReportArrives, Polling, PollAnswered,
        PollAgain, PollLoads, SocketFails, ReportDropped, PollFails
  <2>5. ASSUME NEW l \in Lives, LiveServed(l) \/ LiveFails(l) \/ LiveCloses(l) PROVE UNCHANGED claims
    BY <2>5 DEF LiveServed, LiveFails, LiveCloses
  <2> QED BY <2>1, <2>2, <2>3, <2>4, <2>5 DEF Next, Start, Accepted, Refused, AskHealth,
        HealthServed, HealthFails, ToggleLive, PostDropped, HealthArrives, JobEnds, vars
<1>4. PageOK'
  <2>1. PageOK BY <1>0 DEF TypeOK, PageOK
  <2> QED BY <1>0, <2>1, PageStep
<1> QED BY <1>1, <1>2, <1>3, <1>4 DEF TypeOK, PageOK

\* The types of the state, with what they say of the polling: as long as it goes on it has
\* failed fewer than GiveUp times in a row (app.js:337-344).
THEOREM TypeTheorem == FairSpec => []TypeOK
<1>1. UiInv /\ [Next]_vars => UiInv'
  BY AskedStep, FreshStep, TypeStep DEF UiInv
<1>2. UiInv => TypeOK BY DEF UiInv
<1> QED BY <1>1, <1>2, UiInit, PTL DEF FairSpec
=============================================================================
