--------------------------- MODULE SSPModelProofs ---------------------------
(***************************************************************************)
(* Proofs about SSPModel for every set of threads and keys, every          *)
(* staleness and all bounds.                                               *)
(***************************************************************************)
EXTENDS SSPModel, ServerProofs

\* What PendingBuffer::Push keeps of a buffer, and what it adds.
LEMMA AppendToBucket ==
  ASSUME NEW b, IsBuffer(b), NEW clock \in Int, NEW msg \in GetMsg, NEW p,
         DOMAIN p = DOMAIN b \cup {clock},
         p[clock] = Append(Bucket(b, clock), msg),
         \A c \in DOMAIN b : c # clock => p[c] = b[c]
  PROVE  /\ IsBuffer(p)
         /\ \A c \in DOMAIN p : p[c] # <<>> \/ (c # clock /\ b[c] = <<>>)
         /\ \A c \in DOMAIN p : \A i \in DOMAIN p[c] :
              \/ p[c][i] = msg
              \/ c \in DOMAIN b /\ i \in DOMAIN b[c] /\ p[c][i] = b[c][i]
<1>1. /\ Bucket(b, clock) \in Seq(GetMsg)
      /\ clock \in DOMAIN b => Bucket(b, clock) = b[clock]
      /\ clock \notin DOMAIN b => Bucket(b, clock) = <<>>
  BY DEF Bucket, IsBuffer
<1>2. /\ p[clock] \in Seq(GetMsg)
      /\ p[clock] # <<>>
      /\ \A i \in DOMAIN p[clock] :
           \/ p[clock][i] = msg
           \/ i \in DOMAIN Bucket(b, clock) /\ p[clock][i] = Bucket(b, clock)[i]
  BY <1>1
<1>3. \A c \in DOMAIN p : \A i \in DOMAIN p[c] :
        \/ p[c][i] = msg
        \/ c \in DOMAIN b /\ i \in DOMAIN b[c] /\ p[c][i] = b[c][i]
  BY <1>1, <1>2
<1>4. QED
  BY <1>2, <1>3, Zenon DEF IsBuffer

\* A message of a bucket or of Clock's loop names a thread as its sender.
LEMMA MsgSender ==
  ASSUME NEW s \in Seq(GetMsg), NEW i \in DOMAIN s
  PROVE  s[i] \in GetMsg /\ s[i].sender \in Tid
<1>1. s[i] \in GetMsg
  OBVIOUS
<1>2. QED
  BY <1>1, Zenon DEF GetMsg

\* The part of SSPInv about the state SSPModel::Get can change.
GetInv ==
  /\ IsBuffer(buffer)
  /\ IsVals(storage)
  /\ reply_queue \in Seq({reply_queue[i] : i \in DOMAIN reply_queue})
  /\ \A i \in DOMAIN reply_queue : IsReply(reply_queue[i])
  /\ PendingAhead
  /\ \A c \in DOMAIN buffer : \A i \in DOMAIN buffer[c] :
       CheckThreadValid(progress_tracker, buffer[c][i].sender)
  /\ HistoryAgrees

\* SSPModel::Get (ssp_model.cpp) keeps the invariant, whether Main or the
\* loop of Clock calls it.
LEMMA HandleGetKeepsInv ==
  ASSUME SSPInv, NEW m \in GetMsg, CheckThreadValid(progress_tracker, m.sender),
         HandleGet(m), UNCHANGED <<progress_tracker, adds, clocked>>
  PROVE  GetInv'
<1> DEFINE t == progress_tracker
           w == m.sender
<1>1. /\ t \in Tracker
      /\ w \in Registered(t)
      /\ m.sender \in Tid /\ m.id \in Nat /\ m.keys \in SUBSET Key
  BY Zenon DEF SSPInv, TypeOK, GetMsg, Registered, Keys
<1>2. t.min_clock \in Nat /\ t.progresses[w] \in Nat /\ t.min_clock <= t.progresses[w]
  BY <1>1, MinClockBound, RegisteredProgress, Zenon DEF SSPInv, MinClockIsSlowest
<1>3. CASE TooFarAhead(w)
  <2>1. /\ buffer' = Push(buffer, BarrierClock(w), m)
        /\ UNCHANGED <<storage, reply_queue>>
    BY <1>3, Zenon DEF HandleGet
  <2>2. BarrierClock(w) \in Int /\ BarrierClock(w) > t.min_clock
    BY <1>2, <1>3, SSPAssumption DEF TooFarAhead, BarrierClock, GetProgress, GetMinClock
  <2>3. /\ DOMAIN buffer' = DOMAIN buffer \cup {BarrierClock(w)}
        /\ IsBuffer(buffer')
        /\ \A c \in DOMAIN buffer' : buffer'[c] # <<>> \/ (c # BarrierClock(w) /\ buffer[c] = <<>>)
        /\ \A c \in DOMAIN buffer' : \A i \in DOMAIN buffer'[c] :
             \/ buffer'[c][i] = m
             \/ c \in DOMAIN buffer /\ i \in DOMAIN buffer[c] /\ buffer'[c][i] = buffer[c][i]
    <3>1. IsBuffer(buffer)
      BY Zenon DEF SSPInv, TypeOK
    <3>2. /\ DOMAIN buffer' = DOMAIN buffer \cup {BarrierClock(w)}
          /\ buffer'[BarrierClock(w)] = Append(Bucket(buffer, BarrierClock(w)), m)
          /\ \A c \in DOMAIN buffer : c # BarrierClock(w) => buffer'[c] = buffer[c]
      BY <2>1, Zenon DEF Push
    <3>3. QED
      BY <2>2, <3>1, <3>2, AppendToBucket
  <2>4. PendingAhead'
    BY <2>2, <2>3, Zenon DEF PendingAhead, SSPInv, GetMinClock
  <2>5. \A c \in DOMAIN buffer' : \A i \in DOMAIN buffer'[c] :
          CheckThreadValid(progress_tracker', buffer'[c][i].sender)
    BY <2>3, Zenon DEF SSPInv, WaitersRegistered
  <2>6. HistoryAgrees'
    BY <2>1, Zenon DEF SSPInv, HistoryAgrees
  <2>7. QED
    BY <2>1, <2>2, <2>3, <2>4, <2>5, <2>6, Zenon DEF GetInv, SSPInv, TypeOK
<1>4. CASE ~TooFarAhead(w)
  <2> DEFINE r == GetReply(storage, m)
  <2>1. /\ storage' = AfterGet(storage, m.keys)
        /\ reply_queue' = Append(reply_queue, r)
        /\ UNCHANGED buffer
    BY <1>4, Zenon DEF HandleGet
  <2>2. IsVals(SubGet(storage, m.keys)) /\ IsVals(storage')
    BY <1>1, <2>1, Zenon DEF SSPInv, TypeOK, IsVals, SubGet, AfterGet, Zero, Value
  <2>3. IsReply(r)
    BY <1>1, <2>2, Zenon DEF IsReply, GetReply
  <2>4. /\ reply_queue' \in Seq({reply_queue'[i] : i \in DOMAIN reply_queue'})
        /\ \A i \in DOMAIN reply_queue' : IsReply(reply_queue'[i])
    <3> HIDE DEF r
    <3>1. reply_queue \in Seq({reply_queue[i] : i \in DOMAIN reply_queue})
      BY Zenon DEF SSPInv, TypeOK
    <3>2. \A i \in DOMAIN reply_queue' :
            reply_queue'[i] = r \/ (i \in DOMAIN reply_queue /\ reply_queue'[i] = reply_queue[i])
      BY <2>1, <3>1, AppendIsSeq
    <3>3. reply_queue' \in Seq({reply_queue'[i] : i \in DOMAIN reply_queue'})
      BY <2>1, <3>1, AppendIsSeq
    <3>4. QED
      BY <2>3, <3>2, <3>3, Zenon DEF SSPInv, TypeOK
  <2>5. PendingAhead'
    BY <2>1, Zenon DEF PendingAhead, SSPInv, GetMinClock
  <2>6. HistoryAgrees'
    <3>1. \A k \in Key, x \in Tid :
            (IF k \in DOMAIN storage' THEN storage'[k][x] ELSE 0)
              = (IF k \in DOMAIN storage THEN storage[k][x] ELSE 0)
      BY <1>1, <2>1, Zenon DEF AfterGet, Zero
    <3>2. QED
      BY <3>1, Zenon DEF SSPInv, HistoryAgrees
  <2>7. QED
    BY <2>1, <2>2, <2>4, <2>5, <2>6, Zenon DEF GetInv, SSPInv, TypeOK, WaitersRegistered
<1>5. QED
  BY <1>3, <1>4, Zenon

\* The state SSPModel's constructor leaves satisfies the invariant, whatever
\* the uninitialised min_clock_ holds.
LEMMA InitEstablishesInv == Init => SSPInv
<1> SUFFICES ASSUME Init PROVE SSPInv
  BY Zenon
<1>1. PICK g \in Int : progress_tracker = Fresh(g)
  BY SSPAssumption, Zenon DEF Init
<1>2. progress_tracker \in Tracker /\ Registered(progress_tracker) = {}
  BY <1>1, Zenon DEF Fresh, Tracker, Registered, CheckThreadValid
<1>3. TypeOK
  BY <1>2 DEF Init, TypeOK, IsBuffer, EmptyBuffer, IsVals, EmptyStorage
<1>4. MinClockIsSlowest
  BY <1>2, Zenon DEF MinClockIsSlowest, SlowestProgress
<1>5. PendingAhead /\ WaitersRegistered
  BY DEF Init, PendingAhead, WaitersRegistered, EmptyBuffer
<1>6. HistoryAgrees
  BY <1>2 DEF Init, HistoryAgrees, EmptyStorage
<1>7. QED
  BY <1>3, <1>4, <1>5, <1>6, Zenon DEF SSPInv

\* A Get that ServerThread::Main hands to SSPModel::Get keeps the invariant.
LEMMA GetKeepsInv ==
  ASSUME SSPInv, NEW w \in Tid, NEW keys \in Keys, Get(w, keys)
  PROVE  SSPInv'
<1> DEFINE m == [sender |-> w, id |-> gets[w] + 1, keys |-> keys]
<1>1. /\ m \in GetMsg /\ m.sender = w
      /\ gets' \in [Tid -> Nat]
  BY DEF SSPInv, TypeOK, GetMsg, Get
<1>2. /\ CheckThreadValid(progress_tracker, w)
      /\ HandleGet(m)
      /\ UNCHANGED <<progress_tracker, pending_msgs, adds, clocked, resets>>
  BY Zenon DEF Get
<1> HIDE DEF m
<1>3. GetInv'
  BY <1>1, <1>2, HandleGetKeepsInv, Zenon
<1>4. QED
  BY <1>1, <1>2, <1>3, Zenon
     DEF SSPInv, GetInv, TypeOK, MinClockIsSlowest, WaitersRegistered

\* A turn of the loop of SSPModel::Clock keeps the invariant.
LEMMA ServeKeepsInv ==
  ASSUME SSPInv, Serve
  PROVE  SSPInv'
<1> DEFINE m == Head(pending_msgs)
<1>1. /\ pending_msgs \in Seq(GetMsg)
      /\ pending_msgs # <<>>
      /\ pending_msgs' = Tail(pending_msgs)
  BY Zenon DEF SSPInv, TypeOK, Serve, Idle
<1>2. /\ m \in GetMsg /\ m = pending_msgs[1] /\ 1 \in DOMAIN pending_msgs
      /\ pending_msgs' \in Seq(GetMsg)
      /\ \A i \in DOMAIN pending_msgs' :
           i + 1 \in DOMAIN pending_msgs /\ pending_msgs'[i] = pending_msgs[i + 1]
  BY <1>1
<1>3. /\ CheckThreadValid(progress_tracker, m.sender)
      /\ HandleGet(m)
      /\ UNCHANGED <<progress_tracker, gets, adds, clocked, resets>>
  BY <1>2, Zenon DEF SSPInv, WaitersRegistered, Serve, history
<1> HIDE DEF m
<1>4. GetInv'
  BY <1>2, <1>3, HandleGetKeepsInv, Zenon
<1>5. \A i \in DOMAIN pending_msgs' : CheckThreadValid(progress_tracker', pending_msgs'[i].sender)
  BY <1>2, <1>3, Zenon DEF SSPInv, WaitersRegistered
<1>6. QED
  BY <1>2, <1>3, <1>4, <1>5, Zenon
     DEF SSPInv, GetInv, TypeOK, MinClockIsSlowest, WaitersRegistered

\* SSPModel::Add keeps the invariant: the storage grows by exactly the
\* update the history records.
LEMMA AddKeepsInv ==
  ASSUME SSPInv, NEW w \in Tid, NEW keys \in Keys, Add(w, keys)
  PROVE  SSPInv'
<1>1. /\ storage' = SubAdd(storage, keys, Unit(w))
      /\ adds' = [adds EXCEPT ![w] = [k \in Key |-> @[k] + (IF k \in keys THEN 1 ELSE 0)]]
      /\ UNCHANGED <<progress_tracker, buffer, reply_queue, pending_msgs, gets, clocked, resets>>
  BY Zenon DEF Add
<1>2. adds' \in [Tid -> [Key -> Nat]]
  BY <1>1 DEF SSPInv, TypeOK
<1>3. Unit(w) \in Value /\ keys \subseteq Key
  BY Zenon DEF Unit, Value, Keys
<1>4. /\ DOMAIN storage' = DOMAIN storage \cup keys
      /\ \A k \in DOMAIN storage' :
           storage'[k] = IF k \notin keys THEN storage[k]
                         ELSE IF k \in DOMAIN storage THEN Plus(storage[k], Unit(w)) ELSE Unit(w)
  BY <1>1, Zenon DEF SubAdd
<1>5. \A k \in DOMAIN storage : Plus(storage[k], Unit(w)) \in Value
  BY <1>3 DEF Plus, Value, SSPInv, TypeOK, IsVals
<1>6. IsVals(storage')
  BY <1>3, <1>4, <1>5, Zenon DEF IsVals, SSPInv, TypeOK
<1>7. TypeOK'
  BY <1>1, <1>2, <1>6 DEF SSPInv, TypeOK
<1>8. HistoryAgrees'
  <2>1. \A x \in Tid, k \in Key :
          adds'[x][k] = adds[x][k] + (IF x = w /\ k \in keys THEN 1 ELSE 0)
    BY <1>1 DEF SSPInv, TypeOK
  <2>2. \A x \in Tid : Unit(w)[x] = IF x = w THEN 1 ELSE 0
    BY Zenon DEF Unit
  <2>3. \A x \in Tid, k \in DOMAIN storage :
          Plus(storage[k], Unit(w))[x] = storage[k][x] + (IF x = w THEN 1 ELSE 0)
    BY <2>2, Zenon DEF Plus
  <2>4. \A x \in Tid, k \in Key :
          adds'[x][k] = IF k \in DOMAIN storage' THEN storage'[k][x] ELSE 0
    BY <1>4, <2>1, <2>2, <2>3 DEF SSPInv, HistoryAgrees, TypeOK, IsVals, Value
  <2>5. \A x \in Tid, k \in Key : \A i \in DOMAIN clocked[x] : clocked[x][i][k] <= adds'[x][k]
    <3> SUFFICES ASSUME NEW x \in Tid, NEW k \in Key, NEW i \in DOMAIN clocked[x]
                 PROVE  clocked[x][i][k] <= adds'[x][k]
      BY Zenon
    <3>1. adds[x][k] \in Nat /\ clocked[x] \in Seq([Key -> Nat])
      BY Zenon DEF SSPInv, TypeOK
    <3>2. clocked[x][i] \in [Key -> Nat]
      BY <3>1
    <3>3. clocked[x][i][k] <= adds[x][k]
      BY Zenon DEF SSPInv, HistoryAgrees
    <3>4. QED
      BY <2>1, <3>1, <3>2, <3>3
  <2>6. QED
    BY <1>1, <2>4, <2>5, Zenon DEF SSPInv, HistoryAgrees
<1>9. QED
  BY <1>1, <1>7, <1>8, Zenon
     DEF SSPInv, MinClockIsSlowest, PendingAhead, WaitersRegistered, GetMinClock

\* SSPModel::Clock up to its loop keeps the invariant: the one bucket that
\* the new minimum reaches leaves the buffer.
LEMMA ClockKeepsInv ==
  ASSUME SSPInv, NEW w \in Tid, Clock(w)
  PROVE  SSPInv'
<1> DEFINE t == progress_tracker
           c == ChangedMinClock(t, w)
<1>1. /\ t \in Tracker /\ SlowestProgress(t)
      /\ t' = Advance(t, w)
      /\ UNCHANGED <<storage, reply_queue, gets, adds, resets>>
      /\ pending_msgs = <<>>
  BY Zenon DEF SSPInv, TypeOK, MinClockIsSlowest, Clock, Idle
<1>2. t' \in Tracker /\ SlowestProgress(t') /\ Registered(t') = Registered(t)
  BY <1>1, AdvanceKeepsSlowest, Zenon
<1>3. \A x \in Tid : CheckThreadValid(t', x) <=> CheckThreadValid(t, x)
  BY <1>2, Zenon DEF Registered
<1>4. /\ IsBuffer(buffer')
      /\ pending_msgs' \in Seq(GetMsg)
      /\ PendingAhead'
      /\ \A d \in DOMAIN buffer' : d \in DOMAIN buffer /\ buffer'[d] = buffer[d]
      /\ pending_msgs' # <<>> => \E d \in DOMAIN buffer : pending_msgs' = buffer[d]
  <2>1. /\ IsBuffer(buffer)
        /\ \A d \in DOMAIN buffer : d > t.min_clock /\ buffer[d] # <<>>
        /\ t.min_clock \in Int
    BY <1>1, Zenon DEF SSPInv, TypeOK, PendingAhead, GetMinClock, Tracker
  <2>2. CASE c <= -1
    <3>1. UNCHANGED <<buffer, pending_msgs>>
      BY <2>2, <1>1, ChangedMinClockIsNewMin DEF Clock
    <3>2. t'.min_clock = t.min_clock
      BY <2>2, <1>1, ChangedMinClockIsNewMin
    <3>3. QED
      BY <1>1, <2>1, <3>1, <3>2 DEF PendingAhead, GetMinClock
  <2>3. CASE c > -1
    <3>1. pending_msgs' = Popped(buffer, c) /\ buffer' = Pop(buffer, c)
      BY <2>3, <1>1, ChangedMinClockIsNewMin DEF Clock
    <3>2. t'.min_clock = c /\ c = t.min_clock + 1 /\ c \in Nat
      BY <2>3, <1>1, ChangedMinClockIsNewMin
    <3>3. DOMAIN buffer' = DOMAIN buffer \ {c} /\ \A d \in DOMAIN buffer' : buffer'[d] = buffer[d]
      BY <3>1, Zenon DEF Pop
    <3>4. \A d \in DOMAIN buffer' : d > t'.min_clock
      BY <2>1, <3>2, <3>3 DEF IsBuffer
    <3>5. QED
      BY <2>1, <3>1, <3>3, <3>4 DEF PendingAhead, GetMinClock, IsBuffer, Popped, Bucket
  <2>4. QED
    BY <1>1, <2>2, <2>3, ChangedMinClockIsNewMin
<1>5. WaitersRegistered'
  <2>1. \A d \in DOMAIN buffer : \A i \in DOMAIN buffer[d] :
          CheckThreadValid(t', buffer[d][i].sender)
    BY <1>3, MsgSender, Zenon DEF SSPInv, TypeOK, IsBuffer, WaitersRegistered
  <2>2. \A d \in DOMAIN buffer' : \A i \in DOMAIN buffer'[d] :
          CheckThreadValid(t', buffer'[d][i].sender)
    BY <1>4, <2>1, Zenon
  <2>3. \A i \in DOMAIN pending_msgs' : CheckThreadValid(t', pending_msgs'[i].sender)
    BY <1>4, <2>1
  <2>4. QED
    BY <2>2, <2>3, Zenon DEF WaitersRegistered
<1>6. CASE ~CheckThreadValid(t, w)
  <2>1. t' = t /\ clocked' = clocked
    BY <1>1, <1>6, Zenon DEF Advance, Clock
  <2>2. TypeOK' /\ MinClockIsSlowest'
    BY <1>1, <1>2, <1>4, <2>1, Zenon DEF SSPInv, TypeOK, MinClockIsSlowest
  <2>3. HistoryAgrees'
    BY <1>1, <2>1, Zenon DEF SSPInv, HistoryAgrees
  <2>4. QED
    BY <1>4, <1>5, <2>2, <2>3, Zenon DEF SSPInv
<1>7. CASE CheckThreadValid(t, w)
  <2>1. clocked' = [clocked EXCEPT ![w] = Append(clocked[w], adds[w])]
    BY <1>7, Zenon DEF Clock
  <2>2. /\ clocked \in [Tid -> Seq([Key -> Nat])]
        /\ adds \in [Tid -> [Key -> Nat]]
    BY Zenon DEF SSPInv, TypeOK
  <2>3. /\ clocked' \in [Tid -> Seq([Key -> Nat])]
        /\ Len(clocked'[w]) = Len(clocked[w]) + 1
        /\ \A i \in DOMAIN clocked'[w] :
             \/ clocked'[w][i] = adds[w]
             \/ i \in DOMAIN clocked[w] /\ clocked'[w][i] = clocked[w][i]
        /\ \A x \in Tid : x # w => clocked'[x] = clocked[x]
    <3> DEFINE s == Append(clocked[w], adds[w])
    <3>1. clocked[w] \in Seq([Key -> Nat]) /\ adds[w] \in [Key -> Nat]
      BY <2>2, Zenon
    <3>2. /\ s \in Seq([Key -> Nat]) /\ Len(s) = Len(clocked[w]) + 1
          /\ \A i \in DOMAIN s : \/ s[i] = adds[w]
                                 \/ i \in DOMAIN clocked[w] /\ s[i] = clocked[w][i]
      BY <3>1
    <3> HIDE DEF s
    <3>3. clocked'[w] = s /\ clocked' = [clocked EXCEPT ![w] = s]
      BY <2>1, <2>2, Zenon DEF s
    <3>4. QED
      BY <2>2, <3>2, <3>3, Zenon
  <2>4. \A x \in Tid : t'.progresses[x] = IF x = w THEN t.progresses[x] + 1 ELSE t.progresses[x]
    BY <1>1, <1>7, Zenon DEF Advance, Tracker
  <2>5. \A x \in Registered(t') : Len(clocked'[x]) = GetProgress(t', x)
    BY <1>2, <2>3, <2>4, Zenon DEF SSPInv, HistoryAgrees, GetProgress, Registered
  <2>6. \A x \in Tid, k \in Key : \A i \in DOMAIN clocked'[x] : clocked'[x][i][k] <= adds[x][k]
    <3> SUFFICES ASSUME NEW x \in Tid, NEW k \in Key, NEW i \in DOMAIN clocked'[x]
                 PROVE  clocked'[x][i][k] <= adds[x][k]
      BY Zenon
    <3>1. adds[x][k] \in Nat
      BY <2>2, Zenon
    <3>2. \A j \in DOMAIN clocked[x] : clocked[x][j][k] <= adds[x][k]
      BY Zenon DEF SSPInv, HistoryAgrees
    <3>3. \/ clocked'[x][i] = adds[x]
          \/ i \in DOMAIN clocked[x] /\ clocked'[x][i] = clocked[x][i]
      BY <2>3, Zenon
    <3>4. QED
      BY <3>1, <3>2, <3>3
  <2>7. HistoryAgrees'
    BY <1>1, <2>5, <2>6, Zenon DEF SSPInv, HistoryAgrees
  <2>8. QED
    BY <1>1, <1>2, <1>4, <1>5, <2>3, <2>7, Zenon DEF SSPInv, TypeOK, MinClockIsSlowest
<1>8. QED
  BY <1>6, <1>7, Zenon

\* SSPModel::ResetWorker keeps the invariant.  It restarts min_clock_ at 0
\* while requests may be pending; they wait for clocks above the old
\* minimum, which a waiting thread shows to be at least 0.
LEMMA ResetWorkerKeepsInv ==
  ASSUME SSPInv, NEW tids \in SUBSET Tid, NEW sender \in Tid, ResetWorker(tids, sender)
  PROVE  SSPInv'
<1> DEFINE t == progress_tracker
           r == [flag |-> "kResetWorkerInModel", recver |-> sender]
<1>1. /\ t \in Tracker /\ tids # {}
      /\ t' = InitTids(t, tids)
      /\ reply_queue' = Append(reply_queue, r)
      /\ clocked' = [w \in Tid |-> IF w \in tids THEN <<>> ELSE clocked[w]]
      /\ resets' = resets + 1
      /\ UNCHANGED <<buffer, storage, pending_msgs, gets, adds>>
  BY Zenon DEF SSPInv, TypeOK, ResetWorker
<1>2. /\ t' \in Tracker /\ SlowestProgress(t')
      /\ Registered(t') = Registered(t) \cup tids
      /\ t'.min_clock = 0
  BY <1>1, InitTidsKeepsSlowest, Zenon
<1>3. \A w \in Tid : CheckThreadValid(t, w) => CheckThreadValid(t', w)
  BY <1>2, Zenon DEF Registered
<1>4. /\ reply_queue' \in Seq({reply_queue'[i] : i \in DOMAIN reply_queue'})
      /\ \A i \in DOMAIN reply_queue' : IsReply(reply_queue'[i])
  <2>1. IsReply(r)
    BY Zenon DEF IsReply
  <2>2. /\ reply_queue \in Seq({reply_queue[i] : i \in DOMAIN reply_queue})
        /\ \A i \in DOMAIN reply_queue : IsReply(reply_queue[i])
    BY Zenon DEF SSPInv, TypeOK
  <2>3. reply_queue' = Append(reply_queue, r)
    BY <1>1, Zenon
  <2> HIDE DEF r
  <2>4. /\ reply_queue' \in Seq({reply_queue'[i] : i \in DOMAIN reply_queue'})
        /\ DOMAIN reply_queue' = 1 .. Len(reply_queue) + 1
        /\ reply_queue'[Len(reply_queue) + 1] = r
        /\ \A i \in DOMAIN reply_queue : reply_queue'[i] = reply_queue[i]
    BY <2>2, <2>3, AppendIsSeq
  <2>5. \A i \in DOMAIN reply_queue' : i = Len(reply_queue) + 1 \/ i \in DOMAIN reply_queue
    BY <2>2, <2>4
  <2>6. QED
    BY <2>1, <2>2, <2>4, <2>5, Zenon
<1>5. clocked' \in [Tid -> Seq([Key -> Nat])]
  BY <1>1 DEF SSPInv, TypeOK
<1>6. TypeOK'
  <2>1. resets' \in Nat
    BY <1>1 DEF SSPInv, TypeOK
  <2>2. QED
    BY <1>1, <1>2, <1>4, <1>5, <2>1, Zenon DEF SSPInv, TypeOK
<1>7. PendingAhead'
  <2> SUFFICES ASSUME NEW c \in DOMAIN buffer PROVE c > 0 /\ buffer[c] # <<>>
    BY <1>1, <1>2, Zenon DEF PendingAhead, GetMinClock
  <2>1. c \in Int /\ buffer[c] \in Seq(GetMsg) /\ c > t.min_clock /\ buffer[c] # <<>>
    BY Zenon DEF SSPInv, TypeOK, IsBuffer, PendingAhead, GetMinClock
  <2>2. 1 \in DOMAIN buffer[c] /\ buffer[c][1].sender \in Tid
    <3>1. 1 \in DOMAIN buffer[c]
      BY <2>1
    <3>2. QED
      BY <2>1, <3>1, MsgSender, Zenon
  <2>3. buffer[c][1].sender \in Registered(t)
    BY <2>2, Zenon DEF SSPInv, WaitersRegistered, Registered
  <2>4. t.min_clock \in Nat
    BY <1>1, <2>3, MinClockBound, Zenon DEF SSPInv, MinClockIsSlowest
  <2>5. QED
    BY <2>1, <2>4
<1>8. WaitersRegistered'
  <2>1. \A c \in DOMAIN buffer : \A i \in DOMAIN buffer[c] :
          CheckThreadValid(t', buffer[c][i].sender)
    BY <1>3, MsgSender, Zenon DEF SSPInv, TypeOK, IsBuffer, WaitersRegistered
  <2>2. \A i \in DOMAIN pending_msgs : CheckThreadValid(t', pending_msgs[i].sender)
    BY <1>3, MsgSender, Zenon DEF SSPInv, TypeOK, WaitersRegistered
  <2>3. QED
    BY <1>1, <2>1, <2>2, Zenon DEF WaitersRegistered
<1>9. HistoryAgrees'
  <2>1. ASSUME NEW w \in Registered(t')  PROVE Len(clocked'[w]) = GetProgress(t', w)
    <3>1. w \in Tid
      BY Zenon DEF Registered
    <3>2. CASE w \in tids
      BY <1>1, <3>1, <3>2, Zenon DEF InitTids, GetProgress
    <3>3. CASE w \notin tids
      <4>1. w \in Registered(t) /\ clocked'[w] = clocked[w]
        BY <1>1, <1>2, <3>1, <3>3, Zenon
      <4>2. GetProgress(t', w) = GetProgress(t, w)
        BY <1>1, <3>1, <3>3, Zenon DEF InitTids, GetProgress
      <4>3. QED
        BY <4>1, <4>2, Zenon DEF SSPInv, HistoryAgrees
    <3>4. QED
      BY <3>2, <3>3, Zenon
  <2>2. ASSUME NEW w \in Tid, NEW k \in Key
        PROVE  /\ adds'[w][k] = IF k \in DOMAIN storage' THEN storage'[k][w] ELSE 0
               /\ \A i \in DOMAIN clocked'[w] : clocked'[w][i][k] <= adds'[w][k]
    <3>1. clocked'[w] = <<>> \/ clocked'[w] = clocked[w]
      BY <1>1, Zenon
    <3>2. QED
      BY <1>1, <3>1 DEF SSPInv, HistoryAgrees
  <2>3. QED
    BY <2>1, <2>2, Zenon DEF HistoryAgrees
<1>10. QED
  BY <1>2, <1>6, <1>7, <1>8, <1>9, Zenon DEF SSPInv, MinClockIsSlowest

\* Every state of SSPModel satisfies the inductive invariant: types, the
\* slowest thread's clock, pending requests ahead of it, storage = updates.
THEOREM Invariance == Spec => []SSPInv
<1>1. Init => SSPInv
  BY InitEstablishesInv, Zenon
<1>2. SSPInv /\ [Next]_vars => SSPInv'
  <2> SUFFICES ASSUME SSPInv, [Next]_vars PROVE SSPInv'
    BY Zenon
  <2>1. ASSUME NEW w \in Tid, NEW keys \in Keys, Get(w, keys) PROVE SSPInv'
    BY <2>1, GetKeepsInv, Zenon
  <2>2. ASSUME NEW w \in Tid, NEW keys \in Keys, Add(w, keys) PROVE SSPInv'
    BY <2>2, AddKeepsInv, Zenon
  <2>3. ASSUME NEW w \in Tid, Clock(w) PROVE SSPInv'
    BY <2>3, ClockKeepsInv, Zenon
  <2>4. CASE Serve
    BY <2>4, ServeKeepsInv, Zenon
  <2>5. ASSUME NEW tids \in SUBSET Tid, NEW sender \in Tid, ResetWorker(tids, sender)
        PROVE  SSPInv'
    BY <2>5, ResetWorkerKeepsInv, Zenon
  <2>6. CASE UNCHANGED vars
    BY <2>6, Zenon DEF vars, SSPInv, TypeOK, MinClockIsSlowest, PendingAhead,
                WaitersRegistered, HistoryAgrees
  <2>7. QED
    BY <2>1, <2>2, <2>3, <2>4, <2>5, <2>6, Zenon DEF Next
<1>3. QED
  BY <1>1, <1>2, PTL DEF Spec

\* GetMinClock is "the progress of the slowest worker" in every state, for
\* any set of threads.
THEOREM MinClockCorrect == Spec => []MinClockIsSlowest
<1>1. SSPInv => MinClockIsSlowest
  BY Zenon DEF SSPInv
<1>2. QED
  BY <1>1, Invariance, PTL

\* No request that SSPModel::Get buffers is left behind by the clock.
THEOREM NothingStranded == Spec => []PendingAhead
<1>1. SSPInv => PendingAhead
  BY Zenon DEF SSPInv
<1>2. QED
  BY <1>1, Invariance, PTL

\* The reply SSPModel::Get pushes is fresh enough, whoever calls it.
LEMMA HandleGetIsFresh ==
  ASSUME SSPInv, NEW m \in GetMsg, CheckThreadValid(progress_tracker, m.sender),
         HandleGet(m), reply_queue' # reply_queue
  PROVE  FreshEnough(reply_queue'[Len(reply_queue')])
<1> DEFINE t == progress_tracker
           p == m.sender
           c == GetProgress(t, p) - Staleness
           r == GetReply(storage, m)
<1>1. /\ t \in Tracker /\ SlowestProgress(t) /\ p \in Registered(t)
      /\ m.keys \in SUBSET Key
  BY Zenon DEF SSPInv, TypeOK, MinClockIsSlowest, GetMsg, Registered, Keys
<1>2. ~TooFarAhead(p) /\ reply_queue' = Append(reply_queue, r)
  BY Zenon DEF HandleGet
<1>3. reply_queue'[Len(reply_queue')] = r
  <2>1. reply_queue \in Seq({reply_queue[i] : i \in DOMAIN reply_queue})
    BY Zenon DEF SSPInv, TypeOK
  <2>2. Append(reply_queue, r)[Len(Append(reply_queue, r))] = r
    <3> HIDE DEF r
    <3> QED  BY <2>1, AppendLast, Zenon
  <2>3. QED
    BY <1>2, <2>2, Zenon
<1>4. /\ t.min_clock \in Nat /\ t.progresses[p] \in Nat
      /\ c \in Int /\ c <= t.min_clock
  <2>1. t.min_clock \in Nat /\ t.progresses[p] \in Nat
    BY <1>1, MinClockBound, RegisteredProgress, Zenon
  <2>2. ~(t.progresses[p] - t.min_clock > Staleness)
    BY <1>2, Zenon DEF TooFarAhead, GetProgress, GetMinClock
  <2>3. c = t.progresses[p] - Staleness
    BY Zenon DEF GetProgress
  <2> HIDE DEF c, t, p
  <2>4. QED
    BY <2>1, <2>2, <2>3, SSPAssumption
<1>5. ASSUME c >= 1, NEW w \in Registered(t)
      PROVE  /\ Len(clocked[w]) >= c
             /\ \A k \in m.keys : SubGet(storage, m.keys)[k][w] >= clocked[w][c][k]
  <2>1. w \in Tid /\ t.progresses[w] \in Nat /\ t.min_clock <= t.progresses[w]
    BY <1>1, MinClockBound, RegisteredProgress, Zenon DEF Registered
  <2>2. Len(clocked[w]) = t.progresses[w] /\ clocked[w] \in Seq([Key -> Nat])
    BY <2>1, Zenon DEF SSPInv, TypeOK, HistoryAgrees, GetProgress
  <2>3. Len(clocked[w]) >= c /\ c \in DOMAIN clocked[w]
    BY <1>4, <1>5, <2>1, <2>2
  <2>4. clocked[w][c] \in [Key -> Nat]
    BY <2>2, <2>3
  <2>5. \A k \in m.keys : SubGet(storage, m.keys)[k][w] = adds[w][k]
    BY <1>1, <2>1, Zenon DEF SSPInv, HistoryAgrees, SubGet, Zero
  <2>6. \A k \in Key : clocked[w][c][k] <= adds[w][k] /\ adds[w][k] \in Nat
    BY <2>1, <2>3, Zenon DEF SSPInv, TypeOK, HistoryAgrees
  <2>7. QED
    BY <1>1, <2>3, <2>4, <2>5, <2>6, Zenon
<1>6. r.recver = p /\ r.vals = SubGet(storage, m.keys) /\ DOMAIN r.vals = m.keys
  BY Zenon DEF SubGet, GetReply
<1>7. FreshEnough(r)
  BY <1>5, <1>6, Zenon DEF FreshEnough
<1>8. QED
  BY <1>3, <1>7, Zenon

\* The bound of Stale Synchronous Parallel: an answer of SSPModel::Get misses
\* no Add older than the staleness, for every staleness, number of threads
\* and keys, and however resets interleave with clocks.
THEOREM StalenessBound == Spec => BoundedStaleness
<1>1. SSPInv /\ [Next]_vars => [FreshReply]_vars
  <2> SUFFICES ASSUME SSPInv, Next, reply_queue' # reply_queue, LastReply'.flag = "kGet"
               PROVE  FreshEnough(LastReply')
    BY Zenon DEF vars, FreshReply
  <2>1. ASSUME NEW w \in Tid, NEW keys \in Keys, Get(w, keys) PROVE FreshEnough(LastReply')
    <3> DEFINE m == [sender |-> w, id |-> gets[w] + 1, keys |-> keys]
    <3>1. m \in GetMsg /\ CheckThreadValid(progress_tracker, m.sender) /\ HandleGet(m)
      BY <2>1 DEF SSPInv, TypeOK, GetMsg, Get
    <3> HIDE DEF m
    <3>2. QED
      BY <3>1, HandleGetIsFresh, Zenon DEF LastReply
  <2>2. ASSUME Serve PROVE FreshEnough(LastReply')
    <3> DEFINE m == Head(pending_msgs)
    <3>1. pending_msgs \in Seq(GetMsg) /\ pending_msgs # <<>> /\ HandleGet(m)
      BY <2>2, Zenon DEF SSPInv, TypeOK, Serve, Idle
    <3>2. m \in GetMsg /\ m = pending_msgs[1] /\ 1 \in DOMAIN pending_msgs
      BY <3>1
    <3>3. CheckThreadValid(progress_tracker, m.sender)
      BY <3>2, Zenon DEF SSPInv, WaitersRegistered
    <3> HIDE DEF m
    <3>4. QED
      BY <3>1, <3>2, <3>3, HandleGetIsFresh, Zenon DEF LastReply
  <2>3. ASSUME NEW tids \in SUBSET Tid, NEW sender \in Tid, ResetWorker(tids, sender)
        PROVE  FALSE
    <3> DEFINE e == [flag |-> "kResetWorkerInModel", recver |-> sender]
    <3>1. /\ reply_queue \in Seq({reply_queue[i] : i \in DOMAIN reply_queue})
          /\ reply_queue' = Append(reply_queue, e)
      BY <2>3, Zenon DEF SSPInv, TypeOK, ResetWorker
    <3>2. LastReply' = e
      BY <3>1, AppendLast, Zenon DEF LastReply
    <3>3. QED
      BY <3>2, Zenon
  <2>4. ASSUME NEW w \in Tid, Clock(w) PROVE FALSE
    BY <2>4, Zenon DEF Clock
  <2>5. ASSUME NEW w \in Tid, NEW keys \in Keys, Add(w, keys) PROVE FALSE
    BY <2>5, Zenon DEF Add
  <2>6. QED
    BY <2>1, <2>2, <2>3, <2>4, <2>5, Zenon DEF Next
<1>2. QED
  BY <1>1, Invariance, PTL DEF Spec, BoundedStaleness

-----------------------------------------------------------------------------
(* SSPModel implements TableService.                                       *)

\* Every Get is in one place at most: in one slot of buffer_, or in Clock's
\* loop; and all were received.
Apart(b) ==
  \A c, d \in DOMAIN b : \A i \in DOMAIN b[c], j \in DOMAIN b[d] :
    b[c][i] = b[d][j] => c = d /\ i = j

GetsApart ==
  /\ Apart(buffer)
  /\ \A i, j \in DOMAIN pending_msgs : pending_msgs[i] = pending_msgs[j] => i = j
  /\ Buffered(buffer) \cap InLoop = {}
  /\ \A m \in Buffered(buffer) \cup InLoop : m.id <= gets[m.sender]
  /\ \A a \in AnswersOf(reply_queue) : a.id <= gets[a.sender]

\* What is in a buffer, by clock and position.
LEMMA BufferedDef ==
  ASSUME NEW b, NEW m
  PROVE  m \in Buffered(b) <=> \E c \in DOMAIN b : \E i \in DOMAIN b[c] : m = b[c][i]
BY DEF Buffered

\* Messages in a buffer are messages.
LEMMA BufferedType ==
  ASSUME NEW b, IsBuffer(b), NEW m \in Buffered(b)
  PROVE  m \in GetMsg
<1>1. PICK c \in DOMAIN b : \E i \in DOMAIN b[c] : m = b[c][i]
  BY BufferedDef
<1>2. b[c] \in Seq(GetMsg)
  BY Zenon DEF IsBuffer
<1>3. QED
  BY <1>1, <1>2, MsgSender, Zenon

\* PendingBuffer::Push adds a new message and moves no other.
LEMMA PushApart ==
  ASSUME NEW b, IsBuffer(b), Apart(b), NEW clock \in Int, NEW msg \in GetMsg,
         msg \notin Buffered(b)
  PROVE  /\ Apart(Push(b, clock, msg))
         /\ Buffered(Push(b, clock, msg)) = Buffered(b) \cup {msg}
<1> DEFINE p == Push(b, clock, msg)
           old == Bucket(b, clock)
           n == Len(old) + 1
<1>1. /\ DOMAIN p = DOMAIN b \cup {clock}
      /\ p[clock] = Append(old, msg)
      /\ \A c \in DOMAIN b : c # clock => p[c] = b[c]
  BY Zenon DEF Push
<1>2. /\ old \in Seq(GetMsg)
      /\ clock \in DOMAIN b => old = b[clock]
      /\ clock \notin DOMAIN b => old = <<>>
  BY DEF Bucket, IsBuffer
<1> HIDE DEF p, old
<1>3. /\ DOMAIN p[clock] = DOMAIN old \cup {n}
      /\ n \notin DOMAIN old
      /\ p[clock][n] = msg
      /\ \A i \in DOMAIN old : p[clock][i] = old[i]
  BY <1>1, <1>2
<1> HIDE DEF n
<1>4. \A c \in DOMAIN p : \A i \in DOMAIN p[c] :
        \/ c = clock /\ i = n /\ p[c][i] = msg
        \/ c \in DOMAIN b /\ i \in DOMAIN b[c] /\ p[c][i] = b[c][i]
  BY <1>1, <1>2, <1>3
<1>5. \A c \in DOMAIN b : \A i \in DOMAIN b[c] : c \in DOMAIN p /\ i \in DOMAIN p[c] /\ p[c][i] = b[c][i]
  BY <1>1, <1>2, <1>3, Zenon
<1>6. \A c \in DOMAIN b : \A i \in DOMAIN b[c] : b[c][i] # msg
  BY BufferedDef, Zenon
<1>7. Apart(p)
  BY <1>4, <1>6 DEF Apart
<1>8. clock \in DOMAIN p /\ n \in DOMAIN p[clock]
  BY <1>1, <1>3, Zenon
<1>9. ASSUME NEW m PROVE m \in Buffered(p) <=> m \in Buffered(b) \cup {msg}
  <2>1. m \in Buffered(p) => m \in Buffered(b) \cup {msg}
    BY <1>4, BufferedDef
  <2>2. m \in Buffered(b) => m \in Buffered(p)
    BY <1>5, BufferedDef
  <2>3. msg \in Buffered(p)
    BY <1>3, <1>8, BufferedDef, Zenon
  <2>4. QED
    BY <2>1, <2>2, <2>3, Zenon
<1>10. QED
  BY <1>7, <1>9, Zenon DEF p

\* PendingBuffer::Pop hands out the messages of one clock and keeps the others.
LEMMA PopApart ==
  ASSUME NEW b, IsBuffer(b), Apart(b), NEW clock, NEW s, s = Popped(b, clock)
  PROVE  /\ Apart(Pop(b, clock))
         /\ \A i, j \in DOMAIN s : s[i] = s[j] => i = j
         /\ Buffered(Pop(b, clock)) \cap {s[i] : i \in DOMAIN s} = {}
         /\ Buffered(Pop(b, clock)) \cup {s[i] : i \in DOMAIN s} = Buffered(b)
<1> DEFINE p == Pop(b, clock)
           S == {s[i] : i \in DOMAIN s}
<1>1. DOMAIN p = DOMAIN b \ {clock} /\ \A c \in DOMAIN p : p[c] = b[c]
  BY Zenon DEF Pop
<1>2. /\ clock \in DOMAIN b => s = b[clock]
      /\ clock \notin DOMAIN b => s = <<>>
  BY Zenon DEF Popped, Bucket
<1> HIDE DEF p
<1>3. Apart(p)
  BY <1>1 DEF Apart
<1>4. clock \notin DOMAIN b => DOMAIN s = {}
  BY <1>2
<1>5. \A i, j \in DOMAIN s : s[i] = s[j] => i = j
  BY <1>2, <1>4 DEF Apart
<1>6. ASSUME NEW m PROVE m \in S <=> clock \in DOMAIN b /\ \E i \in DOMAIN b[clock] : m = b[clock][i]
  BY <1>2, <1>4, Zenon
<1> HIDE DEF S
<1>7. \A m : m \in Buffered(p) <=> \E c \in DOMAIN b : c # clock /\ \E i \in DOMAIN b[c] : m = b[c][i]
  <2> SUFFICES ASSUME NEW m
               PROVE  m \in Buffered(p) <=> \E c \in DOMAIN b : c # clock /\ \E i \in DOMAIN b[c] : m = b[c][i]
    BY Zenon
  <2>1. m \in Buffered(p) <=> \E c \in DOMAIN p : \E i \in DOMAIN p[c] : m = p[c][i]
    BY BufferedDef
  <2>2. QED
    BY <1>1, <2>1, Zenon
<1>8. Buffered(p) \cap S = {}
  BY <1>6, <1>7 DEF Apart
<1>9. Buffered(p) \cup S = Buffered(b)
  BY <1>6, <1>7, BufferedDef
<1>10. QED
  BY <1>3, <1>5, <1>8, <1>9, Zenon DEF p, S

\* The loop of Clock takes its messages one by one.
LEMMA TailApart ==
  ASSUME NEW s \in Seq(GetMsg), s # <<>>, \A i, j \in DOMAIN s : s[i] = s[j] => i = j
  PROVE  /\ Head(s) \in GetMsg /\ Tail(s) \in Seq(GetMsg)
         /\ Head(s) \in {s[i] : i \in DOMAIN s}
         /\ {Tail(s)[i] : i \in DOMAIN Tail(s)} = {s[i] : i \in DOMAIN s} \ {Head(s)}
         /\ \A i, j \in DOMAIN Tail(s) : Tail(s)[i] = Tail(s)[j] => i = j
<1> DEFINE t == Tail(s)
           h == Head(s)
<1>1. /\ h \in GetMsg /\ t \in Seq(GetMsg) /\ h = s[1]
      /\ Len(s) \in Nat /\ Len(s) >= 1
      /\ DOMAIN s = 1 .. Len(s) /\ DOMAIN t = 1 .. Len(s) - 1
      /\ \A i \in 1 .. Len(s) - 1 : t[i] = s[i + 1]
  OBVIOUS
<1> HIDE DEF t, h
<1>2. \A i \in DOMAIN t : i + 1 \in DOMAIN s /\ i + 1 # 1 /\ t[i] = s[i + 1]
  BY <1>1
<1>3. \A j \in DOMAIN s : j = 1 \/ (j - 1 \in DOMAIN t /\ t[j - 1] = s[j])
  BY <1>1
<1>4. 1 \in DOMAIN s
  BY <1>1
<1>5. {t[i] : i \in DOMAIN t} = {s[i] : i \in DOMAIN s} \ {h}
  <2>1. \A i \in DOMAIN t : t[i] # h
    BY <1>1, <1>2, <1>4, Zenon
  <2>2. \A i \in DOMAIN t : \E j \in DOMAIN s : t[i] = s[j]
    BY <1>2, Zenon
  <2>3. \A j \in DOMAIN s : s[j] = h \/ \E i \in DOMAIN t : s[j] = t[i]
    BY <1>1, <1>3, Zenon
  <2>4. QED
    BY <2>1, <2>2, <2>3
<1>6. \A i, j \in DOMAIN t : t[i] = t[j] => i = j
  BY <1>1, <1>2
<1>7. QED
  BY <1>1, <1>4, <1>5, <1>6, Zenon DEF t, h

\* SSPModel::Get either buffers a Get, or answers it with the values of its
\* keys; no value changes.
LEMMA HandleGetMaps ==
  ASSUME SSPInv, Apart(buffer), NEW m \in GetMsg, m \notin Buffered(buffer), HandleGet(m),
         CheckThreadValid(progress_tracker, m.sender)
  PROVE  /\ ValuesOf(storage') = ValuesOf(storage)
         /\ Apart(buffer')
         /\ \/ /\ Buffered(buffer') = Buffered(buffer) \cup {m}
               /\ AnswersOf(reply_queue') = AnswersOf(reply_queue)
            \/ /\ Buffered(buffer') = Buffered(buffer)
               /\ AnswersOf(reply_queue') = AnswersOf(reply_queue) \cup {Service!AnswerTo(m)}
<1>1. /\ IsBuffer(buffer) /\ IsVals(storage) /\ IsReplies(reply_queue)
      /\ m.sender \in Tid /\ m.keys \in SUBSET Key
  BY Zenon DEF SSPInv, TypeOK, IsReplies, GetMsg, Keys
<1>2. CASE TooFarAhead(m.sender)
  <2>1. buffer' = Push(buffer, BarrierClock(m.sender), m) /\ UNCHANGED <<storage, reply_queue>>
    BY <1>2, Zenon DEF HandleGet
  <2>2. BarrierClock(m.sender) \in Int
    <3>1. progress_tracker \in Tracker /\ m.sender \in Registered(progress_tracker)
      BY <1>1, Zenon DEF SSPInv, TypeOK, Registered
    <3>2. QED
      BY <3>1, RegisteredProgress, SSPAssumption DEF BarrierClock, GetProgress
  <2>3. /\ Apart(buffer') /\ Buffered(buffer') = Buffered(buffer) \cup {m}
    BY <1>1, <2>1, <2>2, PushApart, Zenon
  <2>4. QED
    BY <2>1, <2>3, Zenon
<1>3. CASE ~TooFarAhead(m.sender)
  <2> DEFINE e == GetReply(storage, m)
  <2>1. /\ storage' = AfterGet(storage, m.keys)
        /\ reply_queue' = Append(reply_queue, e)
        /\ UNCHANGED buffer
    BY <1>3, Zenon DEF HandleGet
  <2>2. /\ e.flag = "kGet" /\ e.recver = m.sender /\ e.id = m.id
        /\ e.vals = SubGet(storage, m.keys)
    BY Zenon DEF GetReply
  <2> HIDE DEF e
  <2>3. ValuesOf(storage') = ValuesOf(storage)
    BY <1>1, <2>1, ValuesAfterGet, Zenon
  <2>4. SubGet(storage, m.keys) = [k \in m.keys |-> ValuesOf(storage)[k]]
    BY <1>1, ValuesAfterGet, Zenon
  <2>5. AnswersOf(Append(reply_queue, e))
          = AnswersOf(reply_queue) \cup {[sender |-> e.recver, id |-> e.id, vals |-> e.vals]}
    BY <1>1, <2>2, AnswersAfterPush, Zenon
  <2>6. [sender |-> e.recver, id |-> e.id, vals |-> e.vals] = Service!AnswerTo(m)
    BY <2>2, <2>4, Zenon DEF Service!AnswerTo
  <2>7. QED
    BY <2>1, <2>3, <2>5, <2>6, Zenon
<1>4. QED
  BY <1>2, <1>3, Zenon

\* SSPModel::Get as ServerThread::Main calls it is Ask or AskAndAnswer.
LEMMA GetImplements ==
  ASSUME SSPInv, GetsApart, NEW w \in Tid, NEW keys \in Keys, Get(w, keys)
  PROVE  GetsApart' /\ [Service!Next]_(Service!vars)
<1> DEFINE m == [sender |-> w, id |-> gets[w] + 1, keys |-> keys]
           W == Buffered(buffer)
           A == AnswersOf(reply_queue)
<1>1. /\ pending_msgs = <<>> /\ pending_msgs' = <<>>
      /\ CheckThreadValid(progress_tracker, w)
      /\ gets[w] < MaxGets
      /\ gets' = [gets EXCEPT ![w] = @ + 1]
      /\ HandleGet(m)
  BY Zenon DEF Get, Idle
<1>2. gets \in [Tid -> Nat] /\ IsBuffer(buffer) /\ IsReplies(reply_queue)
  BY Zenon DEF SSPInv, TypeOK, IsReplies
<1>3. m \in GetMsg /\ m.sender = w /\ m.id = gets[w] + 1 /\ m.id \in 1 .. MaxGets
  BY <1>1, <1>2, SSPAssumption DEF GetMsg
<1>4. InLoop = {} /\ InLoop' = {}
  BY <1>1 DEF InLoop
<1>5. /\ \A x \in W : x.sender \in Tid /\ x.id \in Nat /\ x.id <= gets[x.sender]
      /\ \A x \in A : x.sender \in Tid /\ x.id \in Nat /\ x.id <= gets[x.sender]
  <2>1. \A x \in W : x \in GetMsg
    BY <1>2, BufferedType, Zenon
  <2>2. \A x \in W : x.sender \in Tid /\ x.id \in Nat
    BY <2>1, Zenon DEF GetMsg
  <2>3. \A x \in A : x.sender \in Tid /\ x.id \in Nat
    BY <1>2, AnswersType, Zenon
  <2>4. QED
    BY <2>2, <2>3, Zenon DEF GetsApart
<1> HIDE DEF W, A
<1>6. \A x \in W \cup A : ~(x.sender = m.sender /\ x.id = m.id)
  BY <1>2, <1>3, <1>5
<1>7. m \notin W
  BY <1>6, Zenon
<1>8. /\ ValuesOf(storage') = ValuesOf(storage)
      /\ Apart(buffer')
      /\ \/ /\ Buffered(buffer') = W \cup {m}
            /\ AnswersOf(reply_queue') = A
         \/ /\ Buffered(buffer') = W
            /\ AnswersOf(reply_queue') = A \cup {Service!AnswerTo(m)}
  <2>1. Apart(buffer) /\ CheckThreadValid(progress_tracker, m.sender)
    BY <1>1, Zenon DEF GetsApart
  <2> HIDE DEF m
  <2>2. QED
    BY <1>1, <1>3, <1>7, <2>1, HandleGetMaps, Zenon DEF W, A
<1>9. Service!AnswerTo(m).sender = w /\ Service!AnswerTo(m).id = gets[w] + 1
  BY Zenon DEF Service!AnswerTo
<1>10. GetsApart'
  <2>1. \A x \in Tid : gets[x] <= gets'[x]
    BY <1>1, <1>2
  <2>2. gets'[w] = gets[w] + 1
    BY <1>1, <1>2, Zenon
  <2>3. gets' \in [Tid -> Nat]
    BY <1>1, <1>2
  <2>4. \A x \in W \cup A : x.id <= gets'[x.sender]
    BY <1>2, <1>5, <2>1, <2>3
  <2>5. m.id <= gets'[m.sender] /\ Service!AnswerTo(m).id <= gets'[Service!AnswerTo(m).sender]
    BY <1>2, <1>3, <1>9, <2>2
  <2> HIDE DEF m
  <2>6. \A x \in Buffered(buffer') \cup InLoop' : x.id <= gets'[x.sender]
    BY <1>4, <1>8, <2>4, <2>5, Zenon
  <2>7. \A x \in AnswersOf(reply_queue') : x.id <= gets'[x.sender]
    BY <1>8, <2>4, <2>5, Zenon
  <2>8. \A i, j \in DOMAIN pending_msgs' : pending_msgs'[i] = pending_msgs'[j] => i = j
    BY <1>1
  <2>9. QED
    BY <1>4, <1>8, <2>6, <2>7, <2>8, Zenon DEF GetsApart
<1>11. Service!New(m)
  BY <1>4, <1>6, Zenon DEF Service!New, W, A
<1>12. Service!Ask(m) \/ Service!AskAndAnswer(m)
  <2> HIDE DEF m
  <2>1. QED
    BY <1>4, <1>8, <1>11, Zenon DEF Service!Ask, Service!AskAndAnswer, W, A
<1>13. Service!Next
  <2>1. gets[w] + 1 \in 1 .. MaxGets
    BY <1>3, Zenon
  <2>2. QED
    BY <1>12, <2>1, Zenon DEF Service!Next, Service!Keys, Keys
<1>14. QED
  BY <1>10, <1>13, Zenon

\* A turn of Clock's loop is Answer, or no step when it puts the Get back.
LEMMA ServeImplements ==
  ASSUME SSPInv, GetsApart, Serve
  PROVE  GetsApart' /\ [Service!Next]_(Service!vars)
<1> DEFINE m == Head(pending_msgs)
           W == Buffered(buffer)
           A == AnswersOf(reply_queue)
<1>1. /\ pending_msgs # <<>> /\ pending_msgs' = Tail(pending_msgs)
      /\ HandleGet(m)
      /\ gets' = gets
  BY Zenon DEF Serve, Idle, history
<1>2. /\ gets \in [Tid -> Nat] /\ IsReplies(reply_queue)
      /\ pending_msgs \in Seq(GetMsg)
      /\ \A i, j \in DOMAIN pending_msgs : pending_msgs[i] = pending_msgs[j] => i = j
  BY Zenon DEF SSPInv, TypeOK, IsReplies, GetsApart
<1>3. /\ m \in GetMsg /\ m \in InLoop
      /\ InLoop' = InLoop \ {m}
      /\ \A i, j \in DOMAIN pending_msgs' : pending_msgs'[i] = pending_msgs'[j] => i = j
  <2>1. /\ m \in GetMsg
        /\ m \in {pending_msgs[i] : i \in DOMAIN pending_msgs}
        /\ {Tail(pending_msgs)[i] : i \in DOMAIN Tail(pending_msgs)}
             = {pending_msgs[i] : i \in DOMAIN pending_msgs} \ {m}
        /\ \A i, j \in DOMAIN Tail(pending_msgs) :
             Tail(pending_msgs)[i] = Tail(pending_msgs)[j] => i = j
    BY <1>1, <1>2, TailApart, Zenon
  <2> HIDE DEF m
  <2>2. QED
    BY <1>1, <2>1, Zenon DEF InLoop
<1>4. m.sender \in Tid /\ CheckThreadValid(progress_tracker, m.sender)
  <2>1. m = pending_msgs[1] /\ 1 \in DOMAIN pending_msgs
    BY <1>1, <1>2
  <2>2. QED
    BY <1>2, <2>1, MsgSender, Zenon DEF SSPInv, WaitersRegistered
<1> HIDE DEF m
<1>5. m \notin W /\ Apart(buffer)
  BY <1>3, Zenon DEF GetsApart
<1>6. /\ ValuesOf(storage') = ValuesOf(storage)
      /\ Apart(buffer')
      /\ \/ /\ Buffered(buffer') = W \cup {m}
            /\ AnswersOf(reply_queue') = A
         \/ /\ Buffered(buffer') = W
            /\ AnswersOf(reply_queue') = A \cup {Service!AnswerTo(m)}
  BY <1>1, <1>3, <1>4, <1>5, HandleGetMaps, Zenon
<1>7. m.id <= gets[m.sender] /\ \A x \in W \cup InLoop \cup A : x.id <= gets[x.sender]
  BY <1>3, Zenon DEF GetsApart
<1>8. W \cap InLoop = {}
  BY Zenon DEF GetsApart
<1> HIDE DEF W, A
<1>9. Service!AnswerTo(m).sender = m.sender /\ Service!AnswerTo(m).id = m.id
  BY Zenon DEF Service!AnswerTo
<1>10. GetsApart'
  <2>1. \A x \in Buffered(buffer') \cup InLoop' : x.id <= gets[x.sender]
    BY <1>3, <1>6, <1>7, Zenon
  <2>2. \A x \in AnswersOf(reply_queue') : x.id <= gets[x.sender]
    BY <1>6, <1>7, <1>9, Zenon
  <2>3. Buffered(buffer') \cap InLoop' = {}
    BY <1>3, <1>6, <1>8, Zenon
  <2>4. QED
    BY <1>1, <1>3, <1>6, <2>1, <2>2, <2>3, Zenon DEF GetsApart
<1>11. CASE Buffered(buffer') = W \cup {m} /\ AnswersOf(reply_queue') = A
  <2>1. Buffered(buffer') \cup InLoop' = W \cup InLoop
    BY <1>3, <1>11, Zenon
  <2>2. UNCHANGED Service!vars
    BY <1>6, <1>11, <2>1, Zenon DEF Service!vars, W, A
  <2>3. QED
    BY <1>10, <2>2, Zenon
<1>12. CASE Buffered(buffer') = W /\ AnswersOf(reply_queue') = A \cup {Service!AnswerTo(m)}
  <2>1. Buffered(buffer') \cup InLoop' = (W \cup InLoop) \ {m} /\ m \in W \cup InLoop
    BY <1>3, <1>5, <1>12, Zenon DEF W
  <2>2. Service!Answer(m)
    BY <1>6, <1>12, <2>1, Zenon DEF Service!Answer, W, A
  <2>3. Service!Next
    BY <2>1, <2>2, Zenon DEF Service!Next, W
  <2>4. QED
    BY <1>10, <2>3, Zenon
<1>13. QED
  BY <1>6, <1>11, <1>12, Zenon

\* SSPModel::Clock moves Gets from buffer_ into its loop: no step of the
\* service.
LEMMA ClockImplements ==
  ASSUME SSPInv, GetsApart, NEW w \in Tid, Clock(w)
  PROVE  GetsApart' /\ UNCHANGED Service!vars
<1> DEFINE c == ChangedMinClock(progress_tracker, w)
<1>1. /\ pending_msgs = <<>> /\ UNCHANGED <<storage, reply_queue, gets>>
      /\ \/ UNCHANGED <<buffer, pending_msgs>>
         \/ pending_msgs' = Popped(buffer, c) /\ buffer' = Pop(buffer, c)
  BY Zenon DEF Clock, Idle
<1>2. InLoop = {}
  BY <1>1 DEF InLoop
<1>3. CASE UNCHANGED <<buffer, pending_msgs>>
  BY <1>1, <1>3 DEF GetsApart, Apart, InLoop, Service!vars
<1>4. CASE pending_msgs' = Popped(buffer, c) /\ buffer' = Pop(buffer, c)
  <2>1. IsBuffer(buffer) /\ Apart(buffer)
    BY Zenon DEF SSPInv, TypeOK, GetsApart
  <2> HIDE DEF c
  <2>2. /\ Apart(buffer')
        /\ \A i, j \in DOMAIN pending_msgs' : pending_msgs'[i] = pending_msgs'[j] => i = j
        /\ Buffered(buffer') \cap {pending_msgs'[i] : i \in DOMAIN pending_msgs'} = {}
        /\ Buffered(buffer') \cup {pending_msgs'[i] : i \in DOMAIN pending_msgs'} = Buffered(buffer)
    BY <1>4, <2>1, PopApart
  <2>3. /\ Buffered(buffer') \cap InLoop' = {}
        /\ Buffered(buffer') \cup InLoop' = Buffered(buffer) \cup InLoop
    <3>1. InLoop' = {pending_msgs'[i] : i \in DOMAIN pending_msgs'}
      BY Zenon DEF InLoop
    <3>2. QED
      BY <1>2, <2>2, <3>1, Zenon
  <2>4. GetsApart'
    BY <1>1, <2>2, <2>3, Zenon DEF GetsApart
  <2>5. UNCHANGED Service!vars
    BY <1>1, <2>3, Zenon DEF Service!vars
  <2>6. QED
    BY <2>4, <2>5, Zenon
<1>5. QED
  BY <1>1, <1>3, <1>4, Zenon

\* SSPModel::Add is Update.
LEMMA AddImplements ==
  ASSUME SSPInv, GetsApart, NEW w \in Tid, NEW keys \in Keys, Add(w, keys)
  PROVE  GetsApart' /\ [Service!Next]_(Service!vars)
<1>1. /\ storage' = SubAdd(storage, keys, Unit(w))
      /\ UNCHANGED <<buffer, reply_queue, pending_msgs, gets>>
  BY Zenon DEF Add
<1>2. GetsApart'
  BY <1>1 DEF GetsApart, Apart, InLoop
<1>3. ValuesOf(storage') = [k \in Key |-> IF k \in keys THEN [ValuesOf(storage)[k] EXCEPT ![w] = @ + 1]
                                          ELSE ValuesOf(storage)[k]]
  <2>1. IsVals(storage) /\ keys \in SUBSET Key
    BY Zenon DEF SSPInv, TypeOK, Keys
  <2>2. QED
    BY <1>1, <2>1, ValuesAfterAdd
<1>4. UNCHANGED <<Buffered(buffer) \cup InLoop, AnswersOf(reply_queue)>>
  BY <1>1, Zenon DEF InLoop
<1>5. Service!Update(w, keys)
  BY <1>3, <1>4, Zenon DEF Service!Update
<1>6. QED
  BY <1>2, <1>5, Zenon DEF Service!Next, Service!Keys, Keys

\* ResetWorker's reply is no answer to a Get.
LEMMA ResetWorkerImplements ==
  ASSUME SSPInv, GetsApart, NEW tids \in SUBSET Tid, NEW sender \in Tid,
         ResetWorker(tids, sender)
  PROVE  GetsApart' /\ UNCHANGED Service!vars
<1> DEFINE e == [flag |-> "kResetWorkerInModel", recver |-> sender]
<1>1. /\ reply_queue' = Append(reply_queue, e)
      /\ UNCHANGED <<buffer, storage, pending_msgs, gets>>
  BY Zenon DEF ResetWorker
<1>2. AnswersOf(reply_queue') = AnswersOf(reply_queue)
  <2>1. e.flag # "kGet" /\ IsReplies(reply_queue)
    BY Zenon DEF SSPInv, TypeOK, IsReplies
  <2> HIDE DEF e
  <2>2. QED
    BY <1>1, <2>1, AnswersAfterPush, Zenon
<1>3. QED
  BY <1>1, <1>2 DEF GetsApart, Apart, InLoop, Service!vars

\* GetsApart holds in every state, whatever handlers run.
LEMMA StepImplements ==
  ASSUME SSPInv, GetsApart, [Next]_vars
  PROVE  GetsApart' /\ [Service!Next]_(Service!vars)
<1>1. ASSUME NEW w \in Tid, NEW keys \in Keys, Get(w, keys)
      PROVE  GetsApart' /\ [Service!Next]_(Service!vars)
  BY <1>1, GetImplements, Zenon
<1>2. ASSUME NEW w \in Tid, NEW keys \in Keys, Add(w, keys)
      PROVE  GetsApart' /\ [Service!Next]_(Service!vars)
  BY <1>2, AddImplements, Zenon
<1>3. ASSUME NEW w \in Tid, Clock(w) PROVE GetsApart' /\ [Service!Next]_(Service!vars)
  BY <1>3, ClockImplements, Zenon
<1>4. CASE Serve
  BY <1>4, ServeImplements, Zenon
<1>5. ASSUME NEW tids \in SUBSET Tid, NEW sender \in Tid, ResetWorker(tids, sender)
      PROVE  GetsApart' /\ [Service!Next]_(Service!vars)
  BY <1>5, ResetWorkerImplements, Zenon
<1>6. CASE UNCHANGED vars
  BY <1>6 DEF vars, GetsApart, Apart, InLoop, Service!vars
<1>7. QED
  BY <1>1, <1>2, <1>3, <1>4, <1>5, <1>6, Zenon DEF Next

\* SSPModel keeps the promise of a table for any threads, keys, staleness
\* and bounds: Get, buffer_ and Clock's loop lose no Get, answer none twice,
\* and answer each with the values at one moment.
THEOREM ServiceImplemented == Spec => ImplementsService
<1>1. Init => GetsApart /\ Service!Init
  <2> SUFFICES ASSUME Init PROVE GetsApart /\ Service!Init
    BY Zenon
  <2>1. DOMAIN buffer = {} /\ DOMAIN storage = {} /\ pending_msgs = <<>> /\ reply_queue = <<>>
    BY Zenon DEF Init, EmptyBuffer, EmptyStorage
  <2>2. Buffered(buffer) = {} /\ InLoop = {} /\ AnswersOf(reply_queue) = {}
    BY <2>1 DEF Buffered, InLoop, AnswersOf
  <2>3. GetsApart
    BY <2>1, <2>2 DEF GetsApart, Apart
  <2>4. ValuesOf(storage) = [k \in Key |-> [w \in Tid |-> 0]]
    BY <2>1, Zenon DEF ValuesOf, Zero
  <2>5. QED
    BY <2>2, <2>3, <2>4, Zenon DEF Service!Init
<1>2. SSPInv /\ GetsApart /\ [Next]_vars => GetsApart' /\ [Service!Next]_(Service!vars)
  BY StepImplements, Zenon
<1>3. QED
  BY <1>1, <1>2, Invariance, PTL DEF Spec, ImplementsService, Service!Spec
=============================================================================
