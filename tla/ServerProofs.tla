---------------------------- MODULE ServerProofs ----------------------------
(***************************************************************************)
(* Theorems about Server for every number of scans, clients and messages.  *)
(***************************************************************************)
EXTENDS Server, TLAPS, SequenceTheorems, FiniteSetTheorems

-----------------------------------------------------------------------------
(* Type correctness. *)

\* A socket past its lookup follows a job, and one that is sending has
\* something to send: what the type of `received' and `batch' rests on.
WatchShape == \A w \in Watchers :
  /\ wpc[w] # "idle" => watched[w] \in Scans
  /\ wpc[w] = "sending" => batch[w] # <<>>

TypeInv == TypeOK /\ WatchShape

\* A part of a sequence that lies within it is a sequence over the same set:
\* used for the events a socket takes and for the store's eviction.
LEMMA SubSeqType ==
  ASSUME NEW S, NEW s \in Seq(S), NEW m \in Nat
  PROVE  SubSeq(s, m + 1, Len(s)) \in Seq(S)
<1>1. CASE m + 1 <= Len(s)
  BY <1>1, SubSeqProperties
<1>2. CASE m + 1 > Len(s)
  BY <1>2, SubSeqProperties
<1>3. QED BY <1>1, <1>2, LenProperties

\* Eviction leaves a store of jobs.
LEMMA EvictType ==
  ASSUME NEW s \in Seq(Scans)
  PROVE  Evict(s) \in Seq(Scans)
<1>1. Capacity \in Nat \ {0}
  BY ServerAssumption DEF Capacity
<1>2. CASE Len(s) > Capacity
  <2>1. Len(s) - Capacity \in Nat
    BY <1>1, <1>2, LenProperties
  <2>2. SubSeq(s, Len(s) - Capacity + 1, Len(s)) \in Seq(Scans)
    BY <2>1, SubSeqType
  <2>3. QED BY <1>2, <2>2 DEF Evict
<1>3. CASE ~(Len(s) > Capacity)
  BY <1>3 DEF Evict
<1>4. QED BY <1>2, <1>3

\* The first of a batch of events and the rest of it: used for a send.
LEMMA HeadTailType ==
  ASSUME NEW S, NEW s \in Seq(S), s # <<>>
  PROVE  /\ Head(s) \in S
         /\ Tail(s) \in Seq(S)
         /\ Len(s) > 1 => Tail(s) # <<>>
<1>1. Head(s) \in S /\ Tail(s) \in Seq(S) /\ Len(Tail(s)) = Len(s) - 1
  BY HeadTailProperties
<1>2. Len(s) \in Nat
  BY LenProperties
<1>3. Len(s) > 1 => Len(Tail(s)) # 0
  BY <1>1, <1>2
<1>4. Len(<<>>) = 0
  BY EmptySeq
<1>5. QED BY <1>1, <1>3, <1>4

\* Every step keeps the types and the shape of the sockets.
LEMMA TypeInvariant == Spec => []TypeInv
<1>1. Init => TypeInv
  BY ServerAssumption DEF Init, TypeInv, TypeOK, WatchShape, PcStates, UseStates, JobStates
<1>2. TypeInv /\ [Next]_vars => TypeInv'
  <2> SUFFICES ASSUME TypeInv, [Next]_vars PROVE TypeInv'
    OBVIOUS
  <2> USE DEF TypeInv
  <2>1. ASSUME NEW c \in Claimants, Claim(c) PROVE TypeInv'
    <3> USE DEF TypeOK, WatchShape, PcStates, UseStates, GoTo, LeaveLoop, Runs,
              jobVars, watchVars
    <3>1. CASE TryAcquire(c)
      BY <3>1 DEF TryAcquire, Acquire
    <3>2. CASE MarkActivity(c)
      BY <3>2 DEF MarkActivity
    <3>3. CASE OpenSession(c)
      BY <3>3 DEF OpenSession, FirstUse, OpenRaises, RecordFailure
    <3>4. CASE EndClaim(c)
      BY <3>4 DEF EndClaim, Unclaim
    <3>5. QED BY <2>1, <3>1, <3>2, <3>3, <3>4 DEF Claim
  <2>2. ASSUME NEW p \in Preflights, PreflightRequest(p) \/ PreflightListened(p)
        PROVE  TypeInv'
    BY <2>2 DEF PreflightRequest, PreflightListened, EnterClaim, ResumeClosing, GoTo,
                Claimants, TypeOK, WatchShape, PcStates, UseStates, jobVars, watchVars
  <2>3. ASSUME NEW l \in Lives, Live(l) \/ LiveDisconnect(l)
        PROVE  TypeInv'
    BY <2>3 DEF Live, LiveConnect, LiveThreadDone, LiveSend, SendLive, LiveDisconnect,
                EnterClaim, ResumeClosing, GoTo, Claimants, TypeOK, WatchShape,
                PcStates, UseStates, jobVars, watchVars
  <2>4. ASSUME NEW j \in Scans, StartScan(j) PROVE TypeInv'
    <3>1. Evict(Append(store, j)) \in Seq(Scans)
      BY EvictType, AppendProperties DEF TypeOK
    <3>2. Append(events[j], "queued") \in Seq(Messages)
      BY AppendProperties DEF TypeOK, Messages
    <3>3. QED
      BY <2>4, <3>1, <3>2 DEF StartScan, GoTo, Claimants, TypeOK, WatchShape, PcStates,
                              JobStates, watchVars
  <2>5. ASSUME NEW j \in Scans, ScanTask(j) PROVE TypeInv'
    <3>1. CASE RunScan(j)
      BY <3>1 DEF RunScan, GoTo, Claimants, TypeOK, WatchShape, PcStates, JobStates, watchVars
    <3>2. CASE FinishScan(j)
      <4>1. PICK state \in {"done", "failed"}, message \in {"complete", "failed"} :
              Conclude(j, state, message)
        BY <3>2 DEF FinishScan, ConcludeScan
      <4>2. Append(events[j], message) \in Seq(Messages)
        BY AppendProperties DEF TypeOK, Messages
      <4>3. events' \in [Scans -> Seq(Messages)]
        BY <4>1, <4>2 DEF Conclude, TypeOK
      <4>4. jobState' \in [Scans -> JobStates]
        BY <4>1 DEF Conclude, TypeOK, JobStates
      <4>5. pc' \in [Claimants -> PcStates]
        BY <4>1 DEF Conclude, GoTo, Claimants, TypeOK, PcStates
      <4>6. UNCHANGED <<lock, activity, loop, online, outcome, store, watchVars>>
        BY <3>2 DEF FinishScan
      <4>7. QED BY <4>3, <4>4, <4>5, <4>6 DEF TypeOK, WatchShape, watchVars
    <3>3. QED BY <2>5, <3>1, <3>2 DEF ScanTask
  <2>6. ASSUME NEW j \in Scans, ScanThread(j) PROVE TypeInv'
    <3>1. Append(events[j], "progress") \in Seq(Messages)
      BY AppendProperties DEF TypeOK, Messages
    <3>2. CASE ScanProgress(j)
      <4>1. /\ events' = [events EXCEPT ![j] = Append(@, "progress")]
            /\ UNCHANGED <<gateVars, outcome, jobState, store, watchVars>>
        BY <3>2 DEF ScanProgress
      <4>2. events' \in [Scans -> Seq(Messages)]
        BY <3>1, <4>1 DEF TypeOK
      <4>3. QED BY <4>1, <4>2 DEF TypeOK, WatchShape, gateVars, watchVars
    <3>3. CASE ScanReturns(j)
      BY <3>3 DEF ScanReturns, GoTo, Claimants, TypeOK, WatchShape, PcStates, UseStates,
                  watchVars
    <3>4. QED BY <2>6, <3>2, <3>3 DEF ScanThread
  <2>7. ASSUME NEW w \in Watchers, WatchOpen(w) PROVE TypeInv'
    BY <2>7 DEF WatchOpen, Accepted, TypeOK, WatchShape, gateVars, jobVars
  <2>8. ASSUME NEW w \in Watchers, WatchPoll(w) PROVE TypeInv'
    <3> DEFINE evs == events[watched[w]]
               next == SubSeq(evs, index[w] + 1, Len(evs))
    <3>1. watched[w] \in Scans /\ evs \in Seq(Messages)
      BY <2>8 DEF WatchPoll, WatchShape, TypeOK
    <3>2. Len(evs) \in Nat
      BY <3>1, LenProperties
    <3>3. next \in Seq(Messages)
      BY <3>1, SubSeqType DEF TypeOK
    <3>4. /\ index' = [index EXCEPT ![w] = Len(evs)]
          /\ batch' = [batch EXCEPT ![w] = next]
          /\ wpc' = [wpc EXCEPT ![w] = IF next # <<>> THEN "sending"
                                       ELSE AfterEvents(watched[w])]
          /\ UNCHANGED <<gateVars, jobVars, watched, received>>
      BY <2>8 DEF WatchPoll, EventsSince
    <3>5. AfterEvents(watched[w]) \in {"finishing", "polling"}
      BY DEF AfterEvents
    <3> HIDE DEF next, evs
    <3>6. TypeOK'
      BY <3>2, <3>3, <3>4, <3>5 DEF TypeOK, gateVars, jobVars
    <3>7. WatchShape'
      BY <3>1, <3>4, <3>5 DEF WatchShape, TypeOK
    <3>8. QED BY <3>6, <3>7
  <2>9. ASSUME NEW w \in Watchers, WatchSent(w) PROVE TypeInv'
    <3>1. /\ batch[w] \in Seq(Messages) /\ batch[w] # <<>>
          /\ watched[w] \in Scans /\ received[w] \in Seq(Messages)
      BY <2>9 DEF WatchSent, WatchShape, TypeOK
    <3>2. /\ Head(batch[w]) \in Messages
          /\ Tail(batch[w]) \in Seq(Messages)
          /\ Len(batch[w]) > 1 => Tail(batch[w]) # <<>>
      BY <3>1, HeadTailType
    <3>3. Append(received[w], Head(batch[w])) \in Seq(Messages)
      BY <3>1, <3>2, AppendProperties
    <3>4. AfterEvents(watched[w]) \in {"finishing", "polling"}
      BY DEF AfterEvents
    <3>5. TypeOK'
      BY <2>9, <3>2, <3>3, <3>4 DEF WatchSent, TypeOK, gateVars, jobVars
    <3>6. WatchShape'
      BY <2>9, <3>1, <3>2, <3>4 DEF WatchSent, WatchShape, TypeOK
    <3>7. QED BY <3>5, <3>6
  <2>10. ASSUME NEW w \in Watchers, WatchClose(w) \/ WatchLost(w) PROVE TypeInv'
    BY <2>10 DEF WatchClose, WatchLost, TypeOK, WatchShape, gateVars, jobVars
  <2>11. CASE UNCHANGED vars
    BY <2>11 DEF vars, gateVars, jobVars, watchVars, TypeOK, WatchShape
  <2>12. QED
    BY <2>1, <2>2, <2>3, <2>4, <2>5, <2>6, <2>7, <2>8, <2>9, <2>10, <2>11
    DEF Next, Watch
<1>3. QED BY <1>1, <1>2, PTL DEF Spec

\* Every behaviour of the server keeps the lock, the activity, the jobs, the store and the
\* sockets within their types.
THEOREM TypeCorrect == Spec => []TypeOK
BY TypeInvariant, PTL DEF TypeInv

-----------------------------------------------------------------------------
(* The progress of a scan as its followers see it. *)

\* What a socket has sent and what it has taken are two adjacent stretches of the events, up to
\* its index; while it polls it has taken nothing. Each position is spelled out: the
\* concatenation in ProgressInOrder says nothing of where the batch begins.
FollowsEvents(w) ==
  LET evs == events[watched[w]]
  IN  /\ Len(received[w]) + Len(batch[w]) = index[w]
      /\ index[w] <= Len(evs)
      /\ \A i \in 1 .. Len(received[w]) : received[w][i] = evs[i]
      /\ \A i \in 1 .. Len(batch[w]) : batch[w][i] = evs[Len(received[w]) + i]
StreamInv == \A w \in Watchers :
  /\ watched[w] \in Scans => FollowsEvents(w)
  /\ wpc[w] = "idle" => watched[w] = 0 /\ index[w] = 0 /\ received[w] = <<>> /\ batch[w] = <<>>
  /\ wpc[w] = "polling" => batch[w] = <<>>
  /\ watched[w] = 0 => wpc[w] = "idle"

\* What a socket has seen stays what the job recorded when the job records more.
LEMMA MoreEvents ==
  ASSUME TypeInv, StreamInv, NEW j \in Scans, NEW message \in Messages,
         events' = [events EXCEPT ![j] = Append(@, message)], UNCHANGED watchVars
  PROVE  StreamInv'
<1>1. ASSUME NEW k \in Scans
      PROVE  /\ Len(events[k]) \in Nat /\ Len(events[k]) <= Len(events'[k])
             /\ \A i \in 1 .. Len(events[k]) : events'[k][i] = events[k][i]
  <2>1. events[k] \in Seq(Messages)
    BY DEF TypeInv, TypeOK
  <2>2. events'[k] = IF k = j THEN Append(events[k], message) ELSE events[k]
    BY DEF TypeInv, TypeOK
  <2> QED BY <2>1, <2>2, AppendProperties, LenProperties
<1>2. ASSUME NEW w \in Watchers, watched[w] \in Scans
      PROVE  FollowsEvents(w)'
  <2>1. /\ received[w] \in Seq(Messages) /\ batch[w] \in Seq(Messages)
        /\ Len(received[w]) \in Nat /\ Len(batch[w]) \in Nat
    BY LenProperties DEF TypeInv, TypeOK
  <2>2. FollowsEvents(w) /\ UNCHANGED <<watched[w], received[w], batch[w], index[w]>>
    BY <1>2 DEF StreamInv, watchVars
  <2> DEFINE evs == events[watched[w]]
             more == events'[watched[w]]
  <2>3. /\ Len(evs) \in Nat /\ Len(more) \in Nat /\ Len(evs) <= Len(more)
        /\ \A i \in 1 .. Len(evs) : more[i] = evs[i]
    <3>1. Len(more) \in Nat
      BY <1>2, AppendProperties, LenProperties DEF TypeInv, TypeOK
    <3> QED BY <1>1, <1>2, <3>1
  <2>4. /\ Len(received[w]) + Len(batch[w]) = index[w] /\ index[w] <= Len(evs)
        /\ \A i \in 1 .. Len(received[w]) : received[w][i] = evs[i]
        /\ \A i \in 1 .. Len(batch[w]) : batch[w][i] = evs[Len(received[w]) + i]
    BY <2>2 DEF FollowsEvents
  <2> HIDE DEF evs, more
  <2>5. /\ Len(received[w]) + Len(batch[w]) = index[w] /\ index[w] <= Len(more)
        /\ \A i \in 1 .. Len(received[w]) : received[w][i] = more[i]
        /\ \A i \in 1 .. Len(batch[w]) : batch[w][i] = more[Len(received[w]) + i]
    <3> DEFINE m == Len(received[w])
               n == Len(batch[w])
               k == Len(evs)
               l == Len(more)
               x == index[w]
    <3>1. m \in Nat /\ n \in Nat /\ k \in Nat /\ l \in Nat /\ m + n = x /\ x <= k /\ k <= l
      BY <2>1, <2>3, <2>4
    <3> HIDE DEF m, n, k, l, x
    <3>2. x <= l
      BY <3>1
    <3>3. \A i \in 1 .. m : i \in 1 .. k
      BY <3>1
    <3>4. \A i \in 1 .. n : m + i \in 1 .. k
      BY <3>1
    <3> QED BY <3>1, <3>2, <3>3, <3>4, <2>3, <2>4 DEF m, n, k, l, x
  <2> QED BY <2>2, <2>5 DEF FollowsEvents, evs, more
<1> QED BY <1>2 DEF StreamInv, watchVars

\* A poll takes everything the socket has not taken yet.
LEMMA PollFollows ==
  ASSUME TypeInv, StreamInv, NEW w \in Watchers, WatchPoll(w)
  PROVE  StreamInv'
<1> DEFINE evs == events[watched[w]]
           next == SubSeq(evs, index[w] + 1, Len(evs))
<1>1. /\ wpc[w] = "polling" /\ watched[w] \in Scans
      /\ index' = [index EXCEPT ![w] = Len(evs)]
      /\ batch' = [batch EXCEPT ![w] = next]
      /\ wpc' = [wpc EXCEPT ![w] = IF next # <<>> THEN "sending" ELSE AfterEvents(watched[w])]
      /\ UNCHANGED <<events, watched, received>>
  BY DEF WatchPoll, EventsSince, TypeInv, WatchShape, jobVars
<1>2. /\ evs \in Seq(Messages) /\ Len(evs) \in Nat
      /\ received[w] \in Seq(Messages) /\ Len(received[w]) \in Nat
  BY <1>1, LenProperties DEF TypeInv, TypeOK
<1>3. /\ index[w] = Len(received[w]) /\ index[w] <= Len(evs)
      /\ \A i \in 1 .. Len(received[w]) : received[w][i] = evs[i]
  <2>1. batch[w] = <<>> /\ FollowsEvents(w)
    BY <1>1 DEF StreamInv
  <2> QED BY <1>2, <2>1, EmptySeq DEF FollowsEvents
<1>4. /\ Len(next) = Len(evs) - index[w]
      /\ \A i \in 1 .. Len(next) : next[i] = evs[Len(received[w]) + i]
  <2>1. \A i \in index[w] + 1 .. Len(evs) : evs[i] \in Messages
    BY <1>2, <1>3, ElementOfSeq
  <2>2. /\ Len(next) = IF index[w] + 1 <= Len(evs) THEN Len(evs) - (index[w] + 1) + 1 ELSE 0
        /\ \A i \in 1 .. Len(evs) - (index[w] + 1) + 1 : next[i] = evs[index[w] + 1 + i - 1]
    <3>1. index[w] + 1 \in Int /\ Len(evs) \in Int
      BY <1>2, <1>3
    <3> QED BY <2>1, <3>1, SubSeqProperties
  <2> DEFINE k == index[w]
             n == Len(evs)
  <2>3. k \in Nat /\ n \in Nat /\ k <= n /\ k = Len(received[w])
    BY <1>2, <1>3
  <2>4. Len(next) = IF k + 1 <= n THEN n - (k + 1) + 1 ELSE 0
    BY <2>2
  <2> DEFINE m == Len(next)
  <2> HIDE DEF next, evs, k, n, m
  <2>6. m = n - k
    <3>1. m = IF k + 1 <= n THEN n - (k + 1) + 1 ELSE 0
      BY <2>4 DEF m
    <3>2. CASE k + 1 <= n
      BY <2>3, <3>1, <3>2
    <3>3. CASE ~(k + 1 <= n)
      BY <2>3, <3>1, <3>3
    <3> QED BY <3>2, <3>3
  <2>5. ASSUME NEW i \in 1 .. Len(next) PROVE next[i] = evs[Len(received[w]) + i]
    <3>1. i \in 1 .. n - (k + 1) + 1 /\ k + 1 + i - 1 = k + i
      BY <2>3, <2>6 DEF m
    <3> QED BY <3>1, <2>2, <2>3 DEF k, n
  <2> QED BY <2>6, <2>5 DEF k, n, m
<1>5. AfterEvents(watched[w]) \in {"finishing", "polling"}
  BY DEF AfterEvents
<1>6. FollowsEvents(w)'
  <2> HIDE DEF evs, next
  <2>1. batch'[w] = next /\ index'[w] = Len(evs)
    BY <1>1 DEF TypeInv, TypeOK
  <2>2. Len(received[w]) + Len(next) = Len(evs)
    BY <1>2, <1>3, <1>4
  <2>3. received'[w] = received[w] /\ events'[watched'[w]] = evs
    BY <1>1 DEF evs
  <2>4. Len(evs) <= Len(evs)
    BY <1>2
  <2> QED BY <1>3, <1>4, <2>1, <2>2, <2>3, <2>4 DEF FollowsEvents
<1> HIDE DEF next, evs
<1>7. ASSUME NEW v \in Watchers, v # w PROVE watched[v] \in Scans => FollowsEvents(v)'
  BY <1>1, <1>7 DEF StreamInv, FollowsEvents, TypeInv, TypeOK
<1> QED BY <1>1, <1>5, <1>6, <1>7 DEF StreamInv, TypeInv, TypeOK

\* A send moves the first event of the batch to the end of what was sent.
LEMMA SendFollows ==
  ASSUME TypeInv, StreamInv, NEW w \in Watchers, WatchSent(w)
  PROVE  StreamInv'
<1> DEFINE evs == events[watched[w]]
           b == batch[w]
           r == received[w]
<1>1. /\ wpc[w] = "sending" /\ watched[w] \in Scans /\ b # <<>>
      /\ received' = [received EXCEPT ![w] = Append(r, Head(b))]
      /\ batch' = [batch EXCEPT ![w] = Tail(b)]
      /\ wpc' = [wpc EXCEPT ![w] = IF Len(b) > 1 THEN "sending" ELSE AfterEvents(watched[w])]
      /\ UNCHANGED <<events, watched, index>>
  BY DEF WatchSent, TypeInv, WatchShape, jobVars
<1>2. b \in Seq(Messages) /\ r \in Seq(Messages) /\ Len(r) \in Nat /\ Len(b) \in Nat \ {0}
  BY <1>1, LenProperties, EmptySeq DEF TypeInv, TypeOK
<1>3. /\ Head(b) \in Messages /\ Tail(b) \in Seq(Messages) /\ Len(Tail(b)) = Len(b) - 1
      /\ \A i \in 1 .. Len(Tail(b)) : Tail(b)[i] = b[i + 1]
      /\ Head(b) = b[1]
  BY <1>1, <1>2, HeadTailProperties
<1>4. /\ Len(Append(r, Head(b))) = Len(r) + 1
      /\ \A i \in 1 .. Len(r) : Append(r, Head(b))[i] = r[i]
      /\ Append(r, Head(b))[Len(r) + 1] = Head(b)
  BY <1>2, <1>3, AppendProperties
<1>5. /\ Len(r) + Len(b) = index[w] /\ index[w] <= Len(evs)
      /\ \A i \in 1 .. Len(r) : r[i] = evs[i]
      /\ \A i \in 1 .. Len(b) : b[i] = evs[Len(r) + i]
  BY <1>1 DEF StreamInv, FollowsEvents
<1>6. FollowsEvents(w)'
  <2> DEFINE r2 == Append(r, Head(b))
             b2 == Tail(b)
  <2> HIDE DEF b, r, evs, r2, b2
  <2>1. Len(r2) + Len(b2) = index[w]
    BY <1>2, <1>3, <1>4, <1>5 DEF r2, b2
  <2>2. \A i \in 1 .. Len(r2) : r2[i] = evs[i]
    <3> SUFFICES ASSUME NEW i \in 1 .. Len(r2) PROVE r2[i] = evs[i]
      OBVIOUS
    <3>1. CASE i \in 1 .. Len(r)
      BY <3>1, <1>4, <1>5 DEF r2
    <3>2. CASE i = Len(r) + 1
      <4>1. 1 \in 1 .. Len(b)
        BY <1>2
      <4> QED BY <3>2, <4>1, <1>3, <1>4, <1>5 DEF r2
    <3> QED BY <3>1, <3>2, <1>2, <1>4 DEF r2
  <2>3. \A i \in 1 .. Len(b2) : b2[i] = evs[Len(r2) + i]
    <3> SUFFICES ASSUME NEW i \in 1 .. Len(b2) PROVE b2[i] = evs[Len(r2) + i]
      OBVIOUS
    <3>1. i + 1 \in 1 .. Len(b) /\ Len(r) + (i + 1) = Len(r2) + i
      BY <1>2, <1>3, <1>4 DEF r2, b2
    <3> QED BY <3>1, <1>3, <1>5 DEF b2
  <2>4. received'[w] = r2 /\ batch'[w] = b2
    BY <1>1 DEF TypeInv, TypeOK, r2, b2
  <2> QED BY <1>1, <1>5, <2>1, <2>2, <2>3, <2>4 DEF FollowsEvents, evs
<1>7. Len(b) = 1 => Tail(b) = <<>>
  <2> HIDE DEF b
  <2>1. Len(b) = 1 => Len(Tail(b)) = 0
    BY <1>2, <1>3
  <2> QED BY <1>3, <2>1, EmptySeq
<1> HIDE DEF evs, b, r
<1>8. AfterEvents(watched[w]) \in {"finishing", "polling"} /\ (Len(b) > 1 \/ Len(b) = 1)
  <2>1. AfterEvents(watched[w]) \in {"finishing", "polling"}
    BY DEF AfterEvents
  <2> DEFINE n == Len(b)
  <2>2. n \in Nat \ {0}
    BY <1>2
  <2> HIDE DEF n
  <2>3. n > 1 \/ n = 1
    BY <2>2
  <2> QED BY <2>1, <2>3 DEF n
<1>9. ASSUME NEW v \in Watchers, v # w PROVE watched[v] \in Scans => FollowsEvents(v)'
  BY <1>1, <1>9 DEF StreamInv, FollowsEvents, TypeInv, TypeOK
<1>10. wpc'[w] = "polling" => batch'[w] = <<>>
  BY <1>1, <1>7, <1>8 DEF TypeInv, TypeOK
<1>11. wpc'[w] # "idle"
  BY <1>1, <1>8 DEF TypeInv, TypeOK
<1> QED BY <1>1, <1>6, <1>9, <1>10, <1>11 DEF StreamInv, TypeInv, TypeOK

\* Every step leaves every socket in step with the events it follows.
LEMMA StreamStep == TypeInv /\ StreamInv /\ [Next]_vars => StreamInv'
<1> SUFFICES ASSUME TypeInv, StreamInv, [Next]_vars PROVE StreamInv'
  OBVIOUS
<1>1. CASE UNCHANGED <<events, watchVars>>
  BY <1>1 DEF StreamInv, FollowsEvents, watchVars
<1>2. ASSUME NEW c \in Claimants, Claim(c) PROVE UNCHANGED <<events, watchVars>>
  BY <1>2 DEF Claim, TryAcquire, MarkActivity, OpenSession, EndClaim, jobVars
<1>3. ASSUME NEW p \in Preflights, PreflightRequest(p) \/ PreflightListened(p)
      PROVE  UNCHANGED <<events, watchVars>>
  BY <1>3 DEF PreflightRequest, PreflightListened, jobVars
<1>4. ASSUME NEW l \in Lives, Live(l) \/ LiveDisconnect(l) PROVE UNCHANGED <<events, watchVars>>
  BY <1>4 DEF Live, LiveConnect, LiveThreadDone, LiveSend, LiveDisconnect, jobVars
<1>5. ASSUME NEW j \in Scans, StartScan(j) PROVE StreamInv'
  BY <1>5, MoreEvents DEF StartScan, Messages
<1>6. ASSUME NEW j \in Scans, RunScan(j) \/ ScanReturns(j) PROVE UNCHANGED <<events, watchVars>>
  BY <1>6 DEF RunScan, ScanReturns
<1>7. ASSUME NEW j \in Scans, FinishScan(j) PROVE StreamInv'
  BY <1>7, MoreEvents DEF FinishScan, ConcludeScan, Conclude, Messages
<1>8. ASSUME NEW j \in Scans, ScanProgress(j) PROVE StreamInv'
  BY <1>8, MoreEvents DEF ScanProgress, Messages
<1>9. ASSUME NEW w \in Watchers, WatchOpen(w) PROVE StreamInv'
  <2>1. PICK j \in Scans :
          /\ watched' = [watched EXCEPT ![w] = j]
          /\ wpc' = [wpc EXCEPT ![w] = IF j \in ToSet(store) THEN "polling" ELSE "gone"]
    BY <1>9 DEF WatchOpen, Accepted
  <2>2. /\ index[w] = 0 /\ received[w] = <<>> /\ batch[w] = <<>>
        /\ UNCHANGED <<events, index, received, batch>>
    BY <1>9 DEF WatchOpen, StreamInv, jobVars
  <2>3. Len(events[j]) \in Nat /\ Len(<<>>) = 0
    BY LenProperties, EmptySeq DEF TypeInv, TypeOK
  <2>4. FollowsEvents(w)'
    BY <2>1, <2>2, <2>3 DEF FollowsEvents, TypeInv, TypeOK
  <2>5. ASSUME NEW v \in Watchers, v # w PROVE watched[v] \in Scans => FollowsEvents(v)'
    BY <2>1, <2>2, <2>5 DEF StreamInv, FollowsEvents, TypeInv, TypeOK
  <2>6. j # 0
    BY ServerAssumption DEF Scans
  <2> QED BY <2>1, <2>2, <2>4, <2>5, <2>6 DEF StreamInv, TypeInv, TypeOK
<1>10. ASSUME NEW w \in Watchers, WatchPoll(w) PROVE StreamInv'
  BY <1>10, PollFollows
<1>11. ASSUME NEW w \in Watchers, WatchSent(w) PROVE StreamInv'
  BY <1>11, SendFollows
<1>12. ASSUME NEW w \in Watchers, WatchClose(w) \/ WatchLost(w) PROVE StreamInv'
  <2>1. PICK place \in {"closed", "gone"} : wpc' = [wpc EXCEPT ![w] = place]
    BY <1>12 DEF WatchClose, WatchLost
  <2>2. wpc[w] # "idle" /\ UNCHANGED <<events, watched, index, batch, received>>
    BY <1>12 DEF WatchClose, WatchLost, jobVars
  <2>3. \A v \in Watchers : watched[v] \in Scans => FollowsEvents(v)'
    BY <2>2 DEF StreamInv, FollowsEvents
  <2> QED BY <2>1, <2>2, <2>3 DEF StreamInv, TypeInv, TypeOK
<1>13. CASE UNCHANGED vars
  BY <1>13, <1>1 DEF vars, jobVars
<1> QED
  BY <1>1, <1>2, <1>3, <1>4, <1>5, <1>6, <1>7, <1>8, <1>9, <1>10, <1>11, <1>12, <1>13
  DEF Next, Watch, ScanTask, ScanThread

\* A progress socket sends what the job recorded, in order, nothing twice and nothing skipped.
THEOREM ProgressCorrect == Spec => []ProgressInOrder
<1>1. Init => StreamInv
  BY ServerAssumption DEF Init, StreamInv, Scans
<1>2. TypeInv /\ StreamInv => ProgressInOrder
  <2> SUFFICES ASSUME TypeInv, StreamInv, NEW w \in Watchers, watched[w] # 0
               PROVE  IsPrefix(received[w] \o batch[w], events[watched[w]])
    BY DEF ProgressInOrder
  <2> DEFINE evs == events[watched[w]]
             r == received[w]
             b == batch[w]
             s == r \o b
  <2>1. watched[w] \in Scans /\ FollowsEvents(w)
    BY DEF TypeInv, TypeOK, StreamInv
  <2>2. evs \in Seq(Messages) /\ r \in Seq(Messages) /\ b \in Seq(Messages)
    BY <2>1 DEF TypeInv, TypeOK
  <2>3. Len(evs) \in Nat /\ Len(r) \in Nat /\ Len(b) \in Nat
    BY <2>2, LenProperties
  <2>4. /\ s \in Seq(Messages) /\ Len(s) = Len(r) + Len(b)
        /\ \A i \in 1 .. Len(s) : s[i] = IF i <= Len(r) THEN r[i] ELSE b[i - Len(r)]
    BY <2>2, ConcatProperties
  <2>5. /\ Len(r) + Len(b) <= Len(evs)
        /\ \A i \in 1 .. Len(r) : r[i] = evs[i]
        /\ \A i \in 1 .. Len(b) : b[i] = evs[Len(r) + i]
    BY <2>1 DEF FollowsEvents
  <2> HIDE DEF s, r, b, evs
  <2>6. \A i \in 1 .. Len(s) : s[i] = evs[i]
    <3> SUFFICES ASSUME NEW i \in 1 .. Len(s) PROVE s[i] = evs[i]
      OBVIOUS
    <3>1. CASE i <= Len(r)
      BY <3>1, <2>3, <2>4, <2>5
    <3>2. CASE i > Len(r)
      <4>1. i - Len(r) \in 1 .. Len(b) /\ Len(r) + (i - Len(r)) = i
        BY <3>2, <2>3, <2>4
      <4>2. s[i] = b[i - Len(r)]
        BY <3>2, <2>3, <2>4
      <4> QED BY <4>1, <4>2, <2>5
    <3> QED BY <3>1, <3>2, <2>3, <2>4
  <2>7. Len(s) \in Nat /\ Len(s) <= Len(evs)
    BY <2>3, <2>4, <2>5
  <2>8. SubSeq(s, 1, Len(s)) = SubSeq(evs, 1, Len(s))
    <3>1. /\ SubSeq(s, 1, Len(s)) \in Seq(Messages)
          /\ Len(SubSeq(s, 1, Len(s))) = Len(s)
          /\ \A i \in 1 .. Len(s) : SubSeq(s, 1, Len(s))[i] = s[i]
      <4>1. \A i \in 1 .. Len(s) : s[i] \in Messages
        BY <2>4, ElementOfSeq
      <4> QED BY <4>1, <2>4, <2>7, SubSeqProperties, SubSeqFull
    <3>2. /\ SubSeq(evs, 1, Len(s)) \in Seq(Messages)
          /\ Len(SubSeq(evs, 1, Len(s))) = Len(s)
          /\ \A i \in 1 .. Len(s) : SubSeq(evs, 1, Len(s))[i] = evs[i]
      <4>1. \A i \in 1 .. Len(s) : evs[i] \in Messages
        BY <2>2, <2>3, <2>7, ElementOfSeq
      <4> QED BY <4>1, <2>3, <2>7, SubSeqProperties
    <3> QED BY <3>1, <3>2, <2>6, SeqEqual
  <2> QED BY <2>7, <2>8 DEF IsPrefix, s, r, b, evs
<1> QED BY <1>1, <1>2, StreamStep, TypeInvariant, PTL DEF Spec

-----------------------------------------------------------------------------
(* Exclusive use of the interface. *)

\* The activity is set exactly while somebody uses the bus: with the lock
\* following its holder, this is what makes the use exclusive. It is
\* inductive only together with LockFollowsHolder.
ActivityNamesUser == \A c \in Claimants : activity = c <=> UsesBus(c)

\* A job that was never accepted has no task yet, and one that is finished
\* has no task any more.
JobsInStep == \A j \in Scans :
  /\ jobState[j] = "none" => pc[j] = "idle"
  /\ Finished(j) => pc[j] = "finished"

\* The lock and the activity as they are where pc says: the inductive
\* invariant behind every statement about the interface.
GateInv == TypeOK /\ LockFollowsHolder /\ ActivityNamesUser /\ JobsInStep

\* Before anything has happened nobody holds or uses the interface.
LEMMA GateInit == Init => GateInv
<1>1. Init => TypeOK
  BY ServerAssumption DEF Init, TypeOK, PcStates, UseStates, JobStates
<1>2. Init => LockFollowsHolder /\ ActivityNamesUser
  BY ServerAssumption DEF Init, LockFollowsHolder, ActivityNamesUser, Holds, UsesBus, UseStates
<1>3. Init => JobsInStep
  BY DEF Init, JobsInStep, Finished, Claimants
<1>4. QED BY <1>1, <1>2, <1>3 DEF GateInv

\* A claimant's own step keeps the lock with its holder and the activity
\* with its user.
LEMMA ClaimStep ==
  ASSUME GateInv, NEW c \in Claimants, Claim(c)
  PROVE  LockFollowsHolder' /\ ActivityNamesUser'
<1> USE DEF GateInv, LockFollowsHolder, ActivityNamesUser, Holds, UsesBus, UseStates, GoTo, TypeOK
<1>1. CASE TryAcquire(c)
  BY <1>1, ServerAssumption DEF TryAcquire, Acquire
<1>2. CASE MarkActivity(c)
  BY <1>2, ServerAssumption DEF MarkActivity
<1>3. CASE OpenSession(c)
  BY <1>3 DEF OpenSession, OpenRaises, FirstUse
<1>4. CASE EndClaim(c)
  <2>1. CASE pc[c] = "closing"
    <3>1. pc' = [pc EXCEPT ![c] = "cleared"] /\ activity' = NoOne /\ lock' = lock
      BY <1>4, <2>1 DEF EndClaim, Unclaim
    <3>2. NoOne \notin Claimants
      BY ServerAssumption
    <3>3. LockFollowsHolder'
      BY <2>1, <3>1
    <3>4. \A d \in Claimants : ~UsesBus(d)'
      BY <2>1, <3>1
    <3>5. QED BY <3>1, <3>2, <3>3, <3>4
  <2>2. CASE pc[c] = "cleared"
    BY <1>4, <2>2, ServerAssumption DEF EndClaim, Unclaim
  <2>3. QED BY <1>4, <2>1, <2>2 DEF EndClaim, Unclaim
<1>5. QED BY <1>1, <1>2, <1>3, <1>4 DEF Claim

\* Outside claim() a task or a thread only moves between places on the same
\* side of the lock and of the activity.
LEMMA MoveStep ==
  ASSUME GateInv, NEW c \in Claimants, NEW place,
         GoTo(c, place), UNCHANGED <<lock, activity>>,
         pc[c] \in UseStates <=> place \in UseStates,
         pc[c] \notin {"acquired", "cleared"}, place \notin {"acquired", "cleared"}
  PROVE  LockFollowsHolder' /\ ActivityNamesUser'
BY DEF GateInv, LockFollowsHolder, ActivityNamesUser, Holds, UsesBus, GoTo, TypeOK

\* Every step keeps the lock with its holder and the activity with its user.
LEMMA GateStep == GateInv /\ [Next]_vars => LockFollowsHolder' /\ ActivityNamesUser'
<1> SUFFICES ASSUME GateInv, [Next]_vars
             PROVE  LockFollowsHolder' /\ ActivityNamesUser'
  OBVIOUS
<1>1. ASSUME NEW c \in Claimants, Claim(c)
      PROVE  LockFollowsHolder' /\ ActivityNamesUser'
  BY <1>1, ClaimStep
<1>2. ASSUME NEW p \in Preflights, PreflightRequest(p) \/ PreflightListened(p)
      PROVE  LockFollowsHolder' /\ ActivityNamesUser'
  <2>1. CASE PreflightRequest(p)
    BY <2>1, MoveStep DEF PreflightRequest, EnterClaim, UseStates, Claimants
  <2>2. CASE PreflightListened(p)
    BY <2>2, MoveStep DEF PreflightListened, ResumeClosing, UseStates, Claimants
  <2>3. QED BY <1>2, <2>1, <2>2
<1>3. ASSUME NEW l \in Lives, LiveConnect(l) \/ LiveThreadDone(l) \/ LiveSend(l)
      PROVE  LockFollowsHolder' /\ ActivityNamesUser'
  <2>1. CASE LiveConnect(l)
    BY <2>1, MoveStep DEF LiveConnect, EnterClaim, UseStates, Claimants
  <2>2. CASE LiveThreadDone(l)
    BY <2>2, MoveStep DEF LiveThreadDone, ResumeClosing, UseStates, Claimants
  <2>3. CASE LiveSend(l)
    BY <2>3, MoveStep DEF LiveSend, SendLive, ResumeClosing, UseStates, Claimants
  <2>4. QED BY <1>3, <2>1, <2>2, <2>3
<1>4. ASSUME NEW j \in Scans, StartScan(j)
      PROVE  LockFollowsHolder' /\ ActivityNamesUser'
  <2>1. pc[j] = "idle"
    BY <1>4 DEF StartScan, GateInv, JobsInStep
  <2>2. QED
    BY <1>4, <2>1, MoveStep DEF StartScan, UseStates, Claimants
<1>5. ASSUME NEW j \in Scans, ScanTask(j) \/ ScanReturns(j)
      PROVE  LockFollowsHolder' /\ ActivityNamesUser'
  <2>1. CASE RunScan(j)
    BY <2>1, MoveStep DEF RunScan, UseStates, Claimants
  <2>2. CASE FinishScan(j)
    BY <2>2, MoveStep DEF FinishScan, ThreadOver, ConcludeScan, Conclude, UseStates, Claimants
  <2>3. CASE ScanReturns(j)
    BY <2>3, MoveStep DEF ScanReturns, UseStates, Claimants
  <2>4. QED BY <1>5, <2>1, <2>2, <2>3 DEF ScanTask
<1>6. CASE UNCHANGED <<lock, activity, pc>>
  BY <1>6 DEF GateInv, LockFollowsHolder, ActivityNamesUser, Holds, UsesBus
<1>7. ASSUME NEW l \in Lives, LiveDisconnect(l)
      PROVE  UNCHANGED <<lock, activity, pc>>
  BY <1>7 DEF LiveDisconnect
<1>8. ASSUME NEW j \in Scans, ScanProgress(j)
      PROVE  UNCHANGED <<lock, activity, pc>>
  BY <1>8 DEF ScanProgress, gateVars
<1>9. ASSUME NEW w \in Watchers, WatchOpen(w) \/ Watch(w) \/ WatchLost(w)
      PROVE  UNCHANGED <<lock, activity, pc>>
  BY <1>9 DEF WatchOpen, Watch, WatchPoll, WatchSent, WatchClose, WatchLost, gateVars
<1>10. UNCHANGED vars => UNCHANGED <<lock, activity, pc>>
  BY DEF vars, gateVars
<1>11. QED
  BY <1>1, <1>2, <1>3, <1>4, <1>5, <1>6, <1>7, <1>8, <1>9, <1>10 DEF Next, Live, ScanThread

\* A finished job is left alone: no task or thread of it takes a step.
LEMMA FinishedStep ==
  ASSUME GateInv, TypeOK', [Next]_vars
  PROVE  /\ JobsInStep'
         /\ \A j \in Scans : Finished(j) =>
              /\ jobState'[j] = jobState[j]
              /\ events'[j] = events[j]
              /\ outcome'[j] = outcome[j]
<1> DEFINE Kept == /\ JobsInStep'
                   /\ \A j \in Scans : Finished(j) =>
                        /\ jobState'[j] = jobState[j]
                        /\ events'[j] = events[j]
                        /\ outcome'[j] = outcome[j]
<1> SUFFICES Kept
  OBVIOUS
<1> USE DEF GateInv, JobsInStep, Finished, TypeOK, Claimants
<1>1. ASSUME NEW c \in Claimants, Claim(c) PROVE Kept
  <2>1. CASE OpenSession(c)
    BY <2>1 DEF OpenSession, OpenRaises, RecordFailure, FirstUse, GoTo
  <2>2. CASE TryAcquire(c) \/ MarkActivity(c) \/ EndClaim(c)
    BY <2>2 DEF TryAcquire, Acquire, MarkActivity, EndClaim, Unclaim, GoTo, jobVars
  <2>3. QED BY <1>1, <2>1, <2>2 DEF Claim
<1>2. ASSUME NEW p \in Preflights, PreflightRequest(p) \/ PreflightListened(p) PROVE Kept
  BY <1>2, ServerAssumption DEF PreflightRequest, PreflightListened, EnterClaim,
     ResumeClosing, GoTo, jobVars
<1>3. ASSUME NEW l \in Lives, Live(l) \/ LiveDisconnect(l) PROVE Kept
  BY <1>3, ServerAssumption DEF Live, LiveConnect, LiveThreadDone, LiveSend, SendLive,
     LiveDisconnect, EnterClaim, ResumeClosing, GoTo, jobVars
<1>4. ASSUME NEW j \in Scans, StartScan(j) PROVE Kept
  BY <1>4 DEF StartScan, GoTo
<1>5. ASSUME NEW j \in Scans, ScanTask(j) PROVE Kept
  <2>1. CASE RunScan(j)
    BY <1>5, <2>1 DEF RunScan, GoTo
  <2>2. CASE FinishScan(j)
    <3>1. ~Finished(j)
      BY <2>2 DEF FinishScan, ThreadOver
    <3>2. PICK state \in {"done", "failed"}, message \in {"complete", "failed"} :
            Conclude(j, state, message)
      BY <2>2 DEF FinishScan, ConcludeScan
    <3>3. UNCHANGED outcome
      BY <2>2 DEF FinishScan
    <3>4. QED BY <3>1, <3>2, <3>3 DEF Conclude, GoTo
  <2>3. QED BY <1>5, <2>1, <2>2 DEF ScanTask
<1>6. ASSUME NEW j \in Scans, ScanThread(j) PROVE Kept
  BY <1>6 DEF ScanThread, ScanProgress, ScanReturns, GoTo, gateVars
<1>7. ASSUME NEW w \in Watchers, WatchOpen(w) \/ Watch(w) \/ WatchLost(w) PROVE Kept
  BY <1>7 DEF WatchOpen, Watch, WatchPoll, WatchSent, WatchClose, WatchLost, gateVars, jobVars
<1>8. CASE UNCHANGED vars
  BY <1>8 DEF vars, gateVars, jobVars
<1>9. QED
  BY <1>1, <1>2, <1>3, <1>4, <1>5, <1>6, <1>7, <1>8 DEF Next

\* The interface invariant holds in every behaviour.
THEOREM GateCorrect == Spec => []GateInv
<1>1. GateInv /\ TypeOK' /\ [Next]_vars => GateInv'
  BY GateStep, FinishedStep DEF GateInv
<1>2. QED BY <1>1, GateInit, TypeCorrect, PTL DEF Spec

\* The lock is never leaked and never held by two: whoever is between its
\* acquire and its release, and nobody else, is the holder.
THEOREM LockCorrect == Spec => []LockFollowsHolder
BY GateCorrect, PTL DEF GateInv

\* Two parties never use the bus at once.
THEOREM MutualExclusion == Spec => []OneUser
<1>1. GateInv => OneUser
  BY DEF GateInv, ActivityNamesUser, OneUser
<1>2. QED BY <1>1, GateCorrect, PTL

\* A finished scan never changes again.
THEOREM FinishedForGood == Spec => FinishedIsFinal
<1>1. GateInv /\ TypeOK' /\ [Next]_vars =>
        [\A j \in Scans : Finished(j) =>
           /\ jobState'[j] = jobState[j]
           /\ events'[j] = events[j]
           /\ outcome'[j] = outcome[j]]_vars
  BY FinishedStep
<1>2. QED BY <1>1, GateCorrect, TypeCorrect, PTL DEF Spec, FinishedIsFinal

-----------------------------------------------------------------------------
(* The store. *)

\* The store holds the newest scans, in the order of their numbers.
Newest(s, k) ==
  /\ Len(s) = IF k > Capacity THEN Capacity ELSE k
  /\ \A i \in 1 .. Len(s) : s[i] = k - Len(s) + i
StoreInv == \E k \in Nat : Accepted = 1 .. k /\ Newest(store, k)

\* One more scan: it goes to the end, and the oldest leaves a full store.
LEMMA EvictNewestKept ==
  ASSUME NEW s \in Seq(Scans), NEW k \in Nat, k + 1 \in Scans, Newest(s, k)
  PROVE  Newest(Evict(Append(s, k + 1)), k + 1)
<1> DEFINE a == Append(s, k + 1)
           n == Len(s)
           c == Capacity
           m == Len(a)
<1>1. c \in Nat \ {0}
  BY ServerAssumption DEF Capacity
<1>2. /\ a \in Seq(Scans) /\ m = n + 1 /\ n \in Nat
      /\ \A i \in 1 .. n : a[i] = s[i]
      /\ a[n + 1] = k + 1
  BY AppendProperties, LenProperties
<1>3. n = (IF k > c THEN c ELSE k) /\ \A i \in 1 .. n : s[i] = k - n + i
  BY DEF Newest
<1> HIDE DEF a, n, c, m
<1>4. \A i \in 1 .. n + 1 : a[i] = k - n + i
  <2> SUFFICES ASSUME NEW i \in 1 .. n + 1 PROVE a[i] = k - n + i
    OBVIOUS
  <2>1. CASE i \in 1 .. n
    BY <2>1, <1>2, <1>3
  <2>2. CASE i = n + 1
    BY <2>2, <1>2
  <2> QED BY <2>1, <2>2, <1>2
<1>5. CASE m > c
  <2>1. n = c /\ k >= c
    BY <1>1, <1>2, <1>3, <1>5
  <2> DEFINE e == SubSeq(a, m - c + 1, m)
  <2>2. m - c + 1 = 2 /\ m = c + 1
    BY <1>1, <1>2, <2>1
  <2>3. \A i \in 2 .. c + 1 : a[i] \in Scans
    BY <1>1, <1>2, <2>1, <2>2, ElementOfSeq DEF m
  <2>4. Len(e) = c /\ \A i \in 1 .. c : e[i] = a[i + 1]
    <3>1. SubSeq(a, 2, c + 1) = e
      BY <2>2
    <3>2. /\ Len(SubSeq(a, 2, c + 1)) = IF 2 <= c + 1 THEN c + 1 - 2 + 1 ELSE 0
          /\ \A i \in 1 .. c + 1 - 2 + 1 : SubSeq(a, 2, c + 1)[i] = a[2 + i - 1]
      BY <1>1, <2>3, SubSeqProperties
    <3>3. 2 <= c + 1 /\ c + 1 - 2 + 1 = c /\ \A i \in 1 .. c : 2 + i - 1 = i + 1
      BY <1>1
    <3> HIDE DEF e
    <3> QED BY <3>1, <3>2, <3>3
  <2> HIDE DEF e
  <2>5. \A i \in 1 .. c : e[i] = k + 1 - c + i
    <3> SUFFICES ASSUME NEW i \in 1 .. c PROVE e[i] = k + 1 - c + i
      OBVIOUS
    <3>1. i + 1 \in 1 .. n + 1 /\ k - n + (i + 1) = k + 1 - c + i
      BY <1>1, <2>1
    <3> QED BY <3>1, <2>4, <1>4
  <2>6. k + 1 > c
    BY <1>1, <2>1
  <2>7. Evict(a) = e
    BY <1>5 DEF Evict, e, m, c
  <2>8. /\ Len(e) = IF k + 1 > c THEN c ELSE k + 1
        /\ \A i \in 1 .. Len(e) : e[i] = k + 1 - Len(e) + i
    BY <2>4, <2>5, <2>6
  <2>9. Newest(e, k + 1)
    BY <2>8 DEF Newest, c
  <2> QED BY <2>7, <2>9 DEF a
<1>6. CASE ~(m > c)
  <2>1. n = k /\ ~(k + 1 > c) /\ m = k + 1
    BY <1>1, <1>2, <1>3, <1>6
  <2>2. Evict(a) = a
    BY <1>6 DEF Evict, m, c
  <2>3. \A i \in 1 .. k + 1 : a[i] = k + 1 - (k + 1) + i
    BY <1>4, <2>1
  <2>4. Len(a) = k + 1
    BY <2>1 DEF m
  <2>5. Newest(a, k + 1)
    BY <2>1, <2>3, <2>4 DEF Newest, c
  <2> QED BY <2>2, <2>5 DEF a
<1> QED BY <1>5, <1>6 DEF a

\* Only a new scan changes what is accepted and what is stored.
LEMMA StoreStep == TypeInv /\ GateInv /\ StoreInv /\ [Next]_vars => StoreInv'
<1> SUFFICES ASSUME TypeInv, GateInv, StoreInv, [Next]_vars PROVE StoreInv'
  OBVIOUS
<1>1. ASSUME NEW j \in Scans, StartScan(j) PROVE StoreInv'
  <2>1. PICK k \in Nat : Accepted = 1 .. k /\ Newest(store, k)
    BY DEF StoreInv
  <2>2. /\ j \notin Accepted /\ 1 .. (j - 1) \subseteq Accepted
        /\ store' = Evict(Append(store, j))
        /\ jobState' = [jobState EXCEPT ![j] = "queued"]
    BY <1>1 DEF StartScan, Accepted
  <2>3. j = k + 1
    <3>1. j \in Nat \ {0}
      BY ServerAssumption DEF Scans
    <3>2. j > k
      BY <2>1, <2>2, <3>1
    <3>3. j - 1 <= k
      BY <2>1, <2>2, <3>1
    <3> QED BY <3>1, <3>2, <3>3
  <2>4. Accepted' = Accepted \cup {j}
    BY <2>2 DEF Accepted, TypeInv, TypeOK
  <2>5. Accepted' = 1 .. k + 1
    BY <2>1, <2>3, <2>4
  <2>6. Newest(store', k + 1)
    BY <2>1, <2>2, <2>3, EvictNewestKept DEF TypeInv, TypeOK
  <2> QED BY <2>5, <2>6 DEF StoreInv, Newest, Capacity
<1>2. CASE UNCHANGED store /\ Accepted' = Accepted
  BY <1>2 DEF StoreInv, Newest, Capacity
<1>3. ASSUME NEW j \in Scans, RunScan(j) \/ FinishScan(j) \/ ScanReturns(j) \/ ScanProgress(j)
      PROVE  UNCHANGED store /\ Accepted' = Accepted
  <2>1. pc[j] # "idle" /\ UNCHANGED store
    BY <1>3 DEF RunScan, FinishScan, ThreadOver, ScanReturns, ScanProgress
  <2>2. jobState[j] # "none"
    BY <2>1 DEF GateInv, JobsInStep
  <2>3. \/ UNCHANGED jobState
        \/ \E state \in {"running", "done", "failed"} : jobState' = [jobState EXCEPT ![j] = state]
    BY <1>3 DEF RunScan, FinishScan, ConcludeScan, Conclude, ScanReturns, ScanProgress
  <2> QED BY <2>1, <2>2, <2>3 DEF Accepted, TypeInv, TypeOK
<1>4. ASSUME NEW c \in Claimants, Claim(c) PROVE UNCHANGED <<store, jobState>>
  BY <1>4 DEF Claim, TryAcquire, MarkActivity, OpenSession, EndClaim, jobVars
<1>5. ASSUME NEW p \in Preflights, PreflightRequest(p) \/ PreflightListened(p)
      PROVE  UNCHANGED <<store, jobState>>
  BY <1>5 DEF PreflightRequest, PreflightListened, jobVars
<1>6. ASSUME NEW l \in Lives, Live(l) \/ LiveDisconnect(l) PROVE UNCHANGED <<store, jobState>>
  BY <1>6 DEF Live, LiveConnect, LiveThreadDone, LiveSend, LiveDisconnect, jobVars
<1>7. ASSUME NEW w \in Watchers, WatchOpen(w) \/ Watch(w) \/ WatchLost(w)
      PROVE  UNCHANGED <<store, jobState>>
  BY <1>7 DEF WatchOpen, Watch, WatchPoll, WatchSent, WatchClose, WatchLost, jobVars
<1>8. UNCHANGED vars => UNCHANGED <<store, jobState>>
  BY DEF vars, jobVars
<1>9. UNCHANGED <<store, jobState>> => UNCHANGED store /\ Accepted' = Accepted
  BY DEF Accepted
<1> QED
  BY <1>1, <1>2, <1>3, <1>4, <1>5, <1>6, <1>7, <1>8, <1>9 DEF Next, ScanTask, ScanThread

\* A scan can be looked up until `Capacity' later ones were accepted, and no longer.
THEOREM StoreCorrect == Spec => []AcceptedStaysRetrievable
<1>1. Init => StoreInv
  <2> SUFFICES ASSUME Init PROVE StoreInv
    OBVIOUS
  <2>1. Accepted = 1 .. 0 /\ store = <<>>
    BY DEF Init, Accepted
  <2>2. Newest(<<>>, 0)
    BY EmptySeq, ServerAssumption DEF Newest, Capacity
  <2> QED BY <2>1, <2>2 DEF StoreInv
<1>2. TypeInv /\ StoreInv => AcceptedStaysRetrievable
  <2> SUFFICES ASSUME TypeInv, StoreInv, NEW j \in Accepted
               PROVE  j \in ToSet(store) <=> Cardinality(Accepted) - j < Capacity
    BY DEF AcceptedStaysRetrievable
  <2>1. PICK k \in Nat : Accepted = 1 .. k /\ Newest(store, k)
    BY DEF StoreInv
  <2>2. Cardinality(Accepted) = k
    BY <2>1, FS_Interval
  <2> DEFINE n == Len(store)
             c == Capacity
  <2>3. c \in Nat \ {0} /\ n \in Nat /\ j \in 1 .. k
    BY <2>1, ServerAssumption, LenProperties DEF Capacity, TypeInv, TypeOK
  <2>4. n = (IF k > c THEN c ELSE k) /\ \A i \in 1 .. n : store[i] = k - n + i
    BY <2>1 DEF Newest
  <2>5. ToSet(store) = {store[i] : i \in 1 .. n}
    BY LenProperties DEF ToSet, TypeInv, TypeOK
  <2> HIDE DEF n, c
  <2>6. ToSet(store) = {k - n + i : i \in 1 .. n}
    BY <2>4, <2>5
  <2>7. j \in ToSet(store) <=> j > k - n
    <3>1. j > k - n => j - (k - n) \in 1 .. n /\ k - n + (j - (k - n)) = j
      BY <2>3
    <3>2. \A i \in 1 .. n : k - n + i > k - n
      BY <2>3
    <3> QED BY <2>6, <3>1, <3>2
  <2>8. j > k - n <=> k - j < c
    BY <2>3, <2>4
  <2> QED BY <2>2, <2>7, <2>8 DEF c
<1> QED BY <1>1, <1>2, StoreStep, TypeInvariant, GateCorrect, PTL DEF Spec

-----------------------------------------------------------------------------
(* Refinement. *)

\* The activity never passes from one party to another without being
\* cleared in between.
LEMMA ActivityStep ==
  ASSUME GateInv, [Next]_vars, activity' # activity
  PROVE  activity = NoOne \/ activity' = NoOne
<1> USE DEF GateInv, LockFollowsHolder, ActivityNamesUser, Holds, UsesBus, UseStates, TypeOK
<1>1. ASSUME NEW c \in Claimants, Claim(c)
      PROVE  activity = NoOne \/ activity' = NoOne
  <2>1. CASE MarkActivity(c)
    BY <2>1, ServerAssumption DEF MarkActivity
  <2>2. CASE TryAcquire(c) \/ OpenSession(c)
    BY <2>2 DEF TryAcquire, OpenSession
  <2>3. CASE EndClaim(c)
    BY <2>3 DEF EndClaim, Unclaim
  <2>4. QED BY <1>1, <2>1, <2>2, <2>3 DEF Claim
<1>2. (\E c \in Claimants : Claim(c)) \/ UNCHANGED activity
  BY DEF Next, PreflightRequest, PreflightListened, Live, LiveConnect, LiveThreadDone,
         LiveSend, LiveDisconnect, StartScan, ScanTask, RunScan, FinishScan, ScanThread,
         ScanProgress, ScanReturns, WatchOpen, Watch, WatchPoll, WatchSent, WatchClose,
         WatchLost, vars, gateVars
<1>3. QED BY <1>1, <1>2

\* The gateway implements the abstract exclusive interface: MarkActivity is
\* Begin, clearing the activity is End, everything else stutters.
THEOREM Refinement == Spec => InterfaceIsExclusive
<1> DEFINE users == {c \in Claimants : UsesBus(c)}
<1>1. Init => Abstract!Init
  BY DEF Init, Abstract!Init, UsesBus, UseStates
<1>2. GateInv /\ GateInv' /\ [Next]_vars => [Abstract!Next]_<<users, activity>>
  <2> SUFFICES ASSUME GateInv, GateInv', [Next]_vars,
                      ~ UNCHANGED <<users, activity>>
               PROVE  Abstract!Next
    OBVIOUS
  <2>1. NoOne \notin Claimants
    BY ServerAssumption
  <2>2. activity # NoOne => users = {activity}
    BY DEF GateInv, ActivityNamesUser, TypeOK
  <2>3. activity = NoOne => users = {}
    BY <2>1 DEF GateInv, ActivityNamesUser
  <2>4. activity' # NoOne => users' = {activity'}
    BY DEF GateInv, ActivityNamesUser, TypeOK, UsesBus
  <2>5. activity' = NoOne => users' = {}
    BY <2>1 DEF GateInv, ActivityNamesUser, UsesBus
  <2>6. activity' # activity
    <3>1. activity' = activity => users' = users
      BY <2>2, <2>3, <2>4, <2>5
    <3>2. QED BY <3>1
  <2>7. activity \in Claimants \cup {NoOne} /\ activity' \in Claimants \cup {NoOne}
    BY DEF GateInv, TypeOK
  <2>8. activity' = NoOne \/ activity = NoOne
    BY <2>6, ActivityStep
  <2>9. CASE activity' = NoOne
    BY <2>2, <2>5, <2>6, <2>7, <2>9 DEF Abstract!Next, Abstract!End
  <2>10. CASE activity = NoOne
    BY <2>3, <2>4, <2>6, <2>7, <2>10 DEF Abstract!Next, Abstract!Begin
  <2>11. QED BY <2>8, <2>9, <2>10
<1>3. QED
  BY <1>1, <1>2, GateCorrect, PTL DEF Spec, InterfaceIsExclusive, Abstract!Spec
=============================================================================
