---------------------------- MODULE MailboxProofs ----------------------------
(***************************************************************************)
(* Mailbox::Barrier separates any number of nodes, requests find their     *)
(* tables, and Engine::StopEverything loses no message that matters.       *)
(***************************************************************************)
EXTENDS Mailbox, FiniteSetTheorems, TLAPS

Msg == DataMsg \cup {Exit} \cup BarrierMsg

\* The types that the steps below rely on.
CountTypes ==
  /\ bar \in [Node -> {"outside", "sending", "checking", "asleep"}]
  /\ unsent \in [Node -> SUBSET Node]
  /\ barrier_count \in [Node -> Int]
  /\ entered \in [Node -> Nat]
  /\ passed \in [Node -> Nat]
  /\ collected \in [Node -> SUBSET (Node \X Nat)]

QueueTypes ==
  /\ main \in [Node -> Stage]
  /\ channel \in [Node -> [Node -> Seq(Msg)]]
  /\ send_queue \in [Node -> Seq(DataMsg \cup {Exit})]
  /\ work_queue \in [Node -> Seq(RequestMsg \cup {Exit})]

\* Position i of a queue holds a barrier message.
IsBarrier(q, i) == i \in 1 .. Len(q) /\ q[i].flag = "kBarrier"

\* A message of m for n that carries round r has been sent.
SentRound(m, n, r) ==
  r \in Nat \ {0} /\ r <= entered[m] /\ (n \in unsent[m] => r < entered[m])

\* Every round of a node is on its way to another at most once, and not after it was collected.
InFlight ==
  \A m, n \in Node :
    /\ \A i \in Nat :
         IsBarrier(channel[m][n], i) =>
           /\ SentRound(m, n, channel[m][n][i].round)
           /\ <<m, channel[m][n][i].round>> \notin collected[n]
    /\ \A i, k \in Nat :
         IsBarrier(channel[m][n], i) /\ IsBarrier(channel[m][n], k)
           /\ channel[m][n][i].round = channel[m][n][k].round => i = k

CollectedSent == \A m, n \in Node : \A r \in Nat : <<m, r>> \in collected[n] => SentRound(m, n, r)

\* barrier_count_ counts the messages collected, less N for each barrier passed.
CountIsCollected ==
  \A n \in Node : /\ IsFiniteSet(collected[n])
                  /\ barrier_count[n] = Cardinality(collected[n]) - NumNodes * passed[n]

\* A node is in at most one barrier.
OneAhead ==
  \A n \in Node : /\ entered[n] = IF bar[n] = "outside" THEN passed[n] ELSE passed[n] + 1
                  /\ unsent[n] # {} => bar[n] = "sending"

BarrierPart ==
  CountTypes /\ InFlight /\ CollectedSent /\ CountIsCollected /\ OneAhead /\ BarrierSafe

BarrierInv == QueueTypes /\ BarrierPart

-----------------------------------------------------------------------------
(* Queues.                                                                 *)

\* What Append does to a queue (Mailbox::Send, ThreadsafeQueue::Push).
LEMMA Appended ==
  ASSUME NEW S, NEW q \in Seq(S), NEW x \in S
  PROVE  /\ Append(q, x) \in Seq(S)
         /\ Len(Append(q, x)) = Len(q) + 1
         /\ \A i \in 1 .. Len(q) : Append(q, x)[i] = q[i]
         /\ Append(q, x)[Len(q) + 1] = x
  OBVIOUS

\* What Head and Tail do to a queue (Mailbox::Recv, ThreadsafeQueue::WaitAndPop).
LEMMA Popped ==
  ASSUME NEW S, NEW q \in Seq(S), q # <<>>
  PROVE  /\ Tail(q) \in Seq(S)
         /\ Len(Tail(q)) = Len(q) - 1
         /\ \A i \in 1 .. Len(Tail(q)) : Tail(q)[i] = q[i + 1]
         /\ Len(q) \in Nat \ {0}
         /\ Head(q) = q[1]
         /\ Head(q) \in S
  OBVIOUS

\* The messages of tasks are not barrier messages and name a node.
LEMMA DataIsRouted ==
  ASSUME NEW msg \in DataMsg
  PROVE  msg.flag # "kBarrier" /\ msg.to \in Node
  BY MailboxAssumption, Zenon DEF DataMsg, RequestMsg, ReplyMsg

\* The nodes are finitely many.
LEMMA NumNodesNat == NumNodes \in Nat
  BY MailboxAssumption, FS_CardinalityType, Zenon DEF NumNodes

-----------------------------------------------------------------------------
(* Steps that touch neither the barrier nor a channel.                     *)

\* What is in flight does not depend on bar and passed.
LEMMA SameInFlight ==
  ASSUME InFlight, CollectedSent, UNCHANGED <<unsent, channel, entered, collected>>
  PROVE  InFlight' /\ CollectedSent'
<1>1. InFlight'  BY DEF InFlight, SentRound, IsBarrier
<1>2. CollectedSent'  BY Zenon DEF CollectedSent, SentRound
<1> QED  BY <1>1, <1>2, Zenon

\* Whatever leaves the barrier and the channels alone keeps the barrier's part.
LEMMA Undisturbed ==
  ASSUME BarrierPart, UNCHANGED <<barrier, channel>>
  PROVE  BarrierPart'
  BY SameInFlight, Zenon DEF BarrierPart, barrier, CountTypes, CountIsCollected, OneAhead, BarrierSafe

\* A message that is no barrier message is appended to a channel.
LEMMA DataSent ==
  ASSUME QueueTypes, InFlight, NEW m \in Node, NEW n \in Node, NEW msg \in Msg, msg.flag # "kBarrier",
         Sent(m, n, msg), UNCHANGED <<entered, unsent, collected>>
  PROVE  InFlight' /\ channel' \in [Node -> [Node -> Seq(Msg)]]
<1>1. channel[m][n] \in Seq(Msg)  BY Zenon DEF QueueTypes
<1>2. channel' \in [Node -> [Node -> Seq(Msg)]]  BY <1>1, Appended, Zenon DEF QueueTypes, Sent
<1>3. ASSUME NEW a \in Node, NEW b \in Node, NEW i \in Nat, IsBarrier(channel'[a][b], i)
      PROVE  IsBarrier(channel[a][b], i) /\ channel'[a][b][i] = channel[a][b][i]
  <2>1. CASE a = m /\ b = n
    <3>1. channel'[a][b] = Append(channel[m][n], msg)  BY <2>1, Zenon DEF QueueTypes, Sent
    <3>2. i \in 1 .. Len(channel[m][n])  BY <1>1, <1>3, <3>1, Appended DEF IsBarrier
    <3> QED  BY <1>1, <1>3, <2>1, <3>1, <3>2, Appended DEF IsBarrier
  <2>2. CASE ~(a = m /\ b = n)
    <3>1. channel'[a][b] = channel[a][b]  BY <2>2, Zenon DEF QueueTypes, Sent
    <3> QED  BY <1>3, <3>1, Zenon
  <2> QED  BY <2>1, <2>2, Zenon
<1>4. ASSUME NEW a \in Node, NEW b \in Node, NEW i \in Nat, IsBarrier(channel'[a][b], i)
      PROVE  /\ SentRound(a, b, channel[a][b][i].round)'
             /\ <<a, channel'[a][b][i].round>> \notin collected'[b]
  <2>1. IsBarrier(channel[a][b], i) /\ channel'[a][b][i] = channel[a][b][i]  BY <1>3, <1>4, Zenon
  <2> QED  BY <2>1, Zenon DEF InFlight, SentRound
<1>5. ASSUME NEW a \in Node, NEW b \in Node, NEW i \in Nat, NEW k \in Nat,
             IsBarrier(channel'[a][b], i), IsBarrier(channel'[a][b], k),
             channel'[a][b][i].round = channel'[a][b][k].round
      PROVE  i = k
  BY <1>3, <1>5 DEF InFlight
<1>6. InFlight'  BY <1>4, <1>5, Zenon DEF InFlight
<1> QED  BY <1>2, <1>6, Zenon

\* The barrier message at position i of a channel was at position k before the step.
WasAt(m, n, i, k) == IsBarrier(channel[m][n], k) /\ channel'[m][n][i] = channel[m][n][k]

\* A message is taken from a channel.
LEMMA ChannelPopped ==
  ASSUME QueueTypes, NEW m \in Node, NEW n \in Node, channel[m][n] # <<>>,
         channel' = [channel EXCEPT ![m][n] = Tail(@)]
  PROVE  /\ channel' \in [Node -> [Node -> Seq(Msg)]]
         /\ Recv(m, n) \in Msg
         /\ Recv(m, n) = channel[m][n][1] /\ Len(channel[m][n]) \in Nat \ {0}
         /\ \A a, b \in Node : \A i \in Nat :
              IsBarrier(channel'[a][b], i) => WasAt(a, b, i, IF a = m /\ b = n THEN i + 1 ELSE i)
<1>1. channel[m][n] \in Seq(Msg)  BY Zenon DEF QueueTypes
<1>2. channel' \in [Node -> [Node -> Seq(Msg)]]  BY <1>1, Popped, Zenon DEF QueueTypes
<1>3. /\ Recv(m, n) \in Msg
      /\ Recv(m, n) = channel[m][n][1] /\ Len(channel[m][n]) \in Nat \ {0}
  BY <1>1, Popped, Zenon DEF Recv
<1>5. PICK t \in Seq(Msg) :
        /\ t = Tail(channel[m][n])
        /\ Len(t) = Len(channel[m][n]) - 1
        /\ \A i \in 1 .. Len(t) : t[i] = channel[m][n][i + 1]
  BY <1>1, Popped, Zenon
<1>4. ASSUME NEW a \in Node, NEW b \in Node, NEW i \in Nat, IsBarrier(channel'[a][b], i)
      PROVE  WasAt(a, b, i, IF a = m /\ b = n THEN i + 1 ELSE i)
  <2>1. CASE a = m /\ b = n
    <3>1. channel'[a][b] = t  BY <1>5, <2>1, Zenon DEF QueueTypes
    <3>2. i \in 1 .. Len(t) /\ t[i].flag = "kBarrier"  BY <1>4, <3>1, Zenon DEF IsBarrier
    <3>3. Len(t) = Len(channel[m][n]) - 1 /\ t[i] = channel[m][n][i + 1]  BY <1>5, <3>2, Zenon
    <3>4. i + 1 \in 1 .. Len(channel[m][n])  BY <1>3, <3>2, <3>3
    <3> QED  BY <2>1, <3>1, <3>2, <3>3, <3>4, Zenon DEF IsBarrier, WasAt
  <2>2. CASE ~(a = m /\ b = n)
    <3>1. channel'[a][b] = channel[a][b]  BY <2>2, Zenon DEF QueueTypes
    <3> QED  BY <1>4, <2>2, <3>1, Zenon DEF WasAt
  <2> QED  BY <2>1, <2>2, Zenon
<1> QED  BY <1>2, <1>3, <1>4, Zenon

-----------------------------------------------------------------------------
(* The steps of Mailbox::Barrier.                                          *)

\* Entering keeps the invariant: what was sent before belongs to earlier rounds.
LEMMA EnterBarrierKeepsInv ==
  ASSUME BarrierInv, NEW n \in Node, EnterBarrier(n)
  PROVE  BarrierInv'
<1> USE DEF BarrierInv, BarrierPart
<1>1. CountTypes' /\ QueueTypes'
  <2>1. CountTypes'  BY DEF CountTypes, EnterBarrier
  <2>2. QueueTypes'  BY Zenon DEF QueueTypes, EnterBarrier, queues, Stage
  <2> QED  BY <2>1, <2>2, Zenon
<1>2. /\ \A m \in Node : entered'[m] = IF m = n THEN entered[m] + 1 ELSE entered[m]
      /\ \A m \in Node : unsent'[m] = IF m = n THEN Node ELSE unsent[m]
      /\ \A m \in Node : bar'[m] = IF m = n THEN "sending" ELSE bar[m]
      /\ UNCHANGED <<channel, collected, barrier_count, passed>>
  BY Zenon DEF CountTypes, EnterBarrier
<1>3. \A m, k \in Node : \A r \in Nat : SentRound(m, k, r) => SentRound(m, k, r)'
  BY <1>2 DEF SentRound, CountTypes
<1>4. InFlight'  
  <2>1. \A a, b \in Node : \A i \in Nat : IsBarrier(channel[a][b], i) => channel[a][b][i].round \in Nat
    BY Zenon DEF InFlight, SentRound
  <2> QED  BY <1>2, <1>3, <2>1 DEF InFlight
<1>5. CollectedSent'  BY <1>2, <1>3, Zenon DEF CollectedSent
<1>6. CountIsCollected'  BY <1>2, Zenon DEF CountIsCollected
<1>7. OneAhead'  BY <1>2 DEF OneAhead, EnterBarrier, CountTypes
<1>8. BarrierSafe'  BY <1>2 DEF BarrierSafe, CountTypes
<1> QED  BY <1>1, <1>4, <1>5, <1>6, <1>7, <1>8, Zenon

\* The message of a barrier carries a round that is neither on its way nor collected.
LEMMA SendBarrierKeepsInv ==
  ASSUME BarrierInv, NEW n \in Node, NEW to \in Node, SendBarrier(n, to)
  PROVE  BarrierInv'
<1> DEFINE msg == [flag |-> "kBarrier", round |-> entered[n]]
<1> USE DEF BarrierInv, BarrierPart
<1>0. channel[n][to] \in Seq(Msg)  BY Zenon DEF QueueTypes
<1>1. msg \in Msg /\ msg.flag = "kBarrier" /\ msg.round = entered[n]  BY Zenon DEF CountTypes, Msg, BarrierMsg
<1> HIDE DEF msg
<1>2. /\ channel' = [channel EXCEPT ![n][to] = Append(@, msg)]
      /\ \A m \in Node : unsent'[m] = IF m = n THEN unsent[m] \ {to} ELSE unsent[m]
      /\ to \in unsent[n] /\ bar[n] = "sending"
      /\ UNCHANGED <<entered, collected, barrier_count, passed, bar>>
  BY Zenon DEF CountTypes, SendBarrier, Sent, msg
<1>3. CountTypes' /\ QueueTypes'
  <2>1. CountTypes'  BY Zenon DEF CountTypes, SendBarrier
  <2>2. channel' \in [Node -> [Node -> Seq(Msg)]]  BY <1>0, <1>1, <1>2, Appended, Zenon DEF QueueTypes
  <2>3. QueueTypes'  BY <2>2, Zenon DEF QueueTypes, SendBarrier, queues
  <2> QED  BY <2>1, <2>3, Zenon
<1>4. \A m, k \in Node : \A r \in Nat : SentRound(m, k, r) => SentRound(m, k, r)'
  BY <1>2, Zenon DEF SentRound, CountTypes
<1>5. SentRound(n, to, entered[n])'
  <2>0. passed[n] \in Nat /\ entered[n] = passed[n] + 1  BY <1>2, Zenon DEF OneAhead, CountTypes
  <2>1. entered[n] \in Nat \ {0}  BY <2>0
  <2>2. to \notin unsent'[n] /\ entered' = entered  BY <1>2, Zenon
  <2> QED  BY <2>1, <2>2 DEF SentRound
<1>6. InFlight'
  <2>1. /\ \A a, b \in Node : ~(a = n /\ b = to) => channel'[a][b] = channel[a][b]
        /\ channel'[n][to] = Append(channel[n][to], msg)
    BY <1>2, Zenon DEF QueueTypes
  <2>2. \A i \in Nat : IsBarrier(channel'[n][to], i) =>
          \/ IsBarrier(channel[n][to], i) /\ channel'[n][to][i] = channel[n][to][i]
          \/ i = Len(channel[n][to]) + 1 /\ channel'[n][to][i] = msg
    BY <1>0, <1>1, <2>1, Appended DEF IsBarrier
  <2>3. \A i \in Nat : IsBarrier(channel[n][to], i) => channel[n][to][i].round < entered[n]
    BY <1>2, Zenon DEF InFlight, SentRound
  <2>4. \A a, b \in Node : \A i \in Nat : IsBarrier(channel[a][b], i) => channel[a][b][i].round \in Nat
    BY Zenon DEF InFlight, SentRound
  <2>5. <<n, entered[n]>> \notin collected[to]
    BY <1>2 DEF CollectedSent, SentRound, CountTypes
  <2>6. ASSUME NEW a \in Node, NEW b \in Node, NEW i \in Nat, IsBarrier(channel'[a][b], i)
        PROVE  /\ SentRound(a, b, channel[a][b][i].round)'
               /\ <<a, channel'[a][b][i].round>> \notin collected'[b]
    <3>1. CASE a = n /\ b = to
      BY <1>1, <1>2, <1>4, <1>5, <2>2, <2>4, <2>5, <2>6, <3>1, ZenonT(60) DEF InFlight
    <3>2. CASE ~(a = n /\ b = to)
      <4>1. IsBarrier(channel[a][b], i) /\ channel'[a][b][i] = channel[a][b][i]  BY <2>1, <2>6, <3>2, Zenon
      <4>2. PICK r \in Nat : r = channel[a][b][i].round  BY <2>4, <4>1, Zenon
      <4>3. SentRound(a, b, r) /\ <<a, r>> \notin collected[b]  BY <4>1, <4>2, Zenon DEF InFlight
      <4>4. SentRound(a, b, r)' /\ <<a, r>> \notin collected'[b]  BY <1>2, <1>4, <4>3, Zenon
      <4> QED  BY <4>1, <4>2, <4>4, Zenon DEF SentRound
    <3> QED  BY <3>1, <3>2, Zenon
  <2>7. ASSUME NEW a \in Node, NEW b \in Node, NEW i \in Nat, NEW k \in Nat,
               IsBarrier(channel'[a][b], i), IsBarrier(channel'[a][b], k),
               channel'[a][b][i].round = channel'[a][b][k].round
        PROVE  i = k
    <3>1. CASE a = n /\ b = to
      <4>1. entered[n] \in Nat /\ msg.round = entered[n]  BY <1>1, Zenon DEF CountTypes
      <4>2. \A j \in Nat : IsBarrier(channel[n][to], j) => channel[n][to][j].round # msg.round
        BY <2>3, <2>4, <4>1
      <4>3. \A j \in {i, k} : \/ IsBarrier(channel[n][to], j) /\ channel'[n][to][j] = channel[n][to][j]
                              \/ j = Len(channel[n][to]) + 1 /\ channel'[n][to][j] = msg
        BY <2>2, <2>7, <3>1, Zenon
      <4>4. CASE IsBarrier(channel[n][to], i) /\ IsBarrier(channel[n][to], k)
        <5>1. channel'[n][to][i] = channel[n][to][i] \/ channel'[n][to][i] = msg  BY <4>3, Zenon
        <5>2. channel'[n][to][k] = channel[n][to][k] \/ channel'[n][to][k] = msg  BY <4>3, Zenon
        <5>3. channel[n][to][i].round # msg.round /\ channel[n][to][k].round # msg.round  BY <4>2, <4>4, Zenon
        <5>4. i = Len(channel[n][to]) + 1 /\ k = Len(channel[n][to]) + 1 => i = k  BY Zenon
        <5>5. channel[n][to][i].round = channel[n][to][k].round \/ i = k
          BY <2>7, <3>1, <4>3, <5>3, <5>4, Zenon
        <5> QED  BY <4>4, <5>5, Zenon DEF InFlight
      <4>5. CASE ~IsBarrier(channel[n][to], i) \/ ~IsBarrier(channel[n][to], k)
        BY <2>7, <3>1, <4>2, <4>3, <4>5, Zenon
      <4> QED  BY <4>4, <4>5, Zenon
    <3>2. CASE ~(a = n /\ b = to)
      BY <2>1, <2>7, <3>2, Zenon DEF InFlight
    <3> QED  BY <3>1, <3>2, Zenon
  <2> QED  BY <2>6, <2>7, Zenon DEF InFlight, SentRound
<1>7. CollectedSent'  BY <1>2, <1>4, Zenon DEF CollectedSent
<1>8. CountIsCollected'  BY <1>2, Zenon DEF CountIsCollected
<1>9. OneAhead'  BY <1>2, Zenon DEF OneAhead, CountTypes
<1>10. BarrierSafe'  BY <1>2, Zenon DEF BarrierSafe
<1> QED  BY <1>3, <1>6, <1>7, <1>8, <1>9, <1>10, Zenon

\* Going to sleep and waking changes nothing but bar.
LEMMA WaitingKeepsInv ==
  ASSUME BarrierInv, NEW n \in Node, StartWaiting(n) \/ Sleep(n) \/ WakeSpuriously(n)
  PROVE  BarrierInv'
<1> USE DEF BarrierInv, BarrierPart
<1>1. /\ bar' \in [Node -> {"outside", "sending", "checking", "asleep"}]
      /\ \A m \in Node : bar'[m] = "outside" <=> bar[m] = "outside"
      /\ \A m \in Node : bar[m] = "sending" /\ bar'[m] # "sending" => unsent[m] = {}
      /\ UNCHANGED <<main, unsent, barrier_count, channel, send_queue, work_queue, entered, passed, collected>>
  BY Zenon DEF StartWaiting, Sleep, WakeSpuriously, CountTypes, queues
<1>2. CountTypes' /\ QueueTypes'  BY <1>1, Zenon DEF CountTypes, QueueTypes
<1>3. InFlight' /\ CollectedSent'  BY <1>1, SameInFlight, Zenon
<1>4. CountIsCollected' /\ BarrierSafe'  BY <1>1, Zenon DEF CountIsCollected, BarrierSafe
<1>5. OneAhead'  BY <1>1, Zenon DEF OneAhead, CountTypes
<1> QED  BY <1>2, <1>3, <1>4, <1>5, Zenon

(***************************************************************************)
(* The heart of the proof.  N messages beyond those of the k barriers a    *)
(* node has passed, none of a later round than k + 1: N * (k + 1) of them  *)
(* are all there are.                                                      *)
(***************************************************************************)
LEMMA CollectedRound ==
  ASSUME BarrierInv, NEW n \in Node, Collected(n), \A m \in Node : entered[m] <= passed[n] + 1
  PROVE  \A m \in Node : <<m, passed[n] + 1>> \in collected[n]
<1> DEFINE k == passed[n] + 1
           all == Node \X (1 .. k)
<1> USE DEF BarrierInv, BarrierPart
<1>1. k \in Nat \ {0}  BY DEF CountTypes
<1>2. collected[n] \subseteq all
  <2>1. ASSUME NEW p \in collected[n]  PROVE p \in all
    <3>1. PICK m \in Node, r \in Nat : p = <<m, r>>  BY <2>1 DEF CountTypes
    <3>2. r \in 1 .. entered[m]  BY <2>1, <3>1 DEF CollectedSent, SentRound
    <3> QED  BY <1>1, <3>1, <3>2 DEF CountTypes
  <2> QED  BY <2>1, Zenon
<1>3. IsFiniteSet(1 .. k) /\ Cardinality(1 .. k) = k  BY <1>1, FS_Interval, SMTT(30)
<1>4. IsFiniteSet(all) /\ Cardinality(all) = NumNodes * k
  BY <1>3, MailboxAssumption, FS_Product, Zenon DEF NumNodes
<1>5. Cardinality(collected[n]) >= NumNodes * k
  <2>1. barrier_count[n] = Cardinality(collected[n]) - NumNodes * passed[n]  BY Zenon DEF CountIsCollected
  <2>2. Cardinality(collected[n]) \in Nat  BY FS_CardinalityType, Zenon DEF CountIsCollected
  <2>3. barrier_count[n] >= NumNodes  BY Zenon DEF Collected
  <2>4. NumNodes * k = NumNodes * passed[n] + NumNodes  BY NumNodesNat DEF CountTypes
  <2>5. NumNodes * passed[n] \in Nat  BY NumNodesNat DEF CountTypes
  <2> HIDE DEF k
  <2> QED  BY <2>1, <2>2, <2>3, <2>4, <2>5, NumNodesNat
<1>6. Cardinality(collected[n]) <= Cardinality(all) /\ (Cardinality(all) = Cardinality(collected[n]) => all = collected[n])
  BY <1>2, <1>4, FS_Subset, Zenon
<1>7. collected[n] = all
  <2>1. Cardinality(collected[n]) \in Nat  BY FS_CardinalityType, Zenon DEF CountIsCollected
  <2>2. NumNodes * k \in Nat  BY <1>1, NumNodesNat
  <2> HIDE DEF k, all
  <2> QED  BY <1>4, <1>5, <1>6, <2>1, <2>2
<1> QED  BY <1>1, <1>7

\* So a node that leaves a barrier has messages of it from all nodes: either
\* some node is two barriers ahead, which by BarrierSafe it can be only after
\* all have entered this one, or it has collected the round of all.
LEMMA CollectedFromAll ==
  ASSUME BarrierInv, NEW n \in Node, bar[n] # "outside", Collected(n)
  PROVE  \A m \in Node : passed[n] + 1 <= entered[m]
<1> DEFINE k == passed[n] + 1
<1> USE DEF BarrierInv, BarrierPart
<1>1. k \in Nat \ {0}  BY DEF CountTypes
<1>2. CASE \E m \in Node : entered[m] >= k + 1
  <2>1. PICK m \in Node : entered[m] >= k + 1  BY <1>2, Zenon
  <2>2. passed[m] >= k  BY <2>1 DEF OneAhead, CountTypes
  <2> QED  BY <1>1, <2>2 DEF BarrierSafe, CountTypes
<1>3. CASE \A m \in Node : entered[m] <= k
  <2>1. ASSUME NEW m \in Node  PROVE k <= entered[m]
    <3>1. <<m, k>> \in collected[n]  BY <1>3, CollectedRound, Zenon
    <3> QED  BY <1>1, <3>1, Zenon DEF CollectedSent, SentRound, CountTypes
  <2> QED  BY <2>1, Zenon
<1> QED  BY <1>1, <1>2, <1>3 DEF CountTypes

\* Passing keeps the invariant.
LEMMA PassBarrierKeepsInv ==
  ASSUME BarrierInv, NEW n \in Node, PassBarrier(n)
  PROVE  BarrierInv'
<1> USE DEF BarrierInv, BarrierPart
<1>1. /\ \A m \in Node : bar'[m] = IF m = n THEN "outside" ELSE bar[m]
      /\ \A m \in Node : passed'[m] = IF m = n THEN passed[m] + 1 ELSE passed[m]
      /\ \A m \in Node : barrier_count'[m] = IF m = n THEN barrier_count[m] - NumNodes ELSE barrier_count[m]
      /\ bar[n] = "checking"
      /\ UNCHANGED <<unsent, channel, entered, collected>>
  BY Zenon DEF PassBarrier, CountLeft, CountTypes
<1>2. CountTypes' /\ QueueTypes'
  <2>1. CountTypes'  BY NumNodesNat DEF CountTypes, PassBarrier, CountLeft
  <2>2. QueueTypes'  BY Zenon DEF QueueTypes, PassBarrier, queues
  <2> QED  BY <2>1, <2>2, Zenon
<1>3. InFlight' /\ CollectedSent'  BY <1>1, SameInFlight, Zenon
<1>4. CountIsCollected'
  <2>1. ASSUME NEW m \in Node
        PROVE  barrier_count'[m] = Cardinality(collected[m]) - NumNodes * passed'[m]
    <3>1. Cardinality(collected[m]) \in Nat  BY FS_CardinalityType, Zenon DEF CountIsCollected
    <3>2. NumNodes * (passed[m] + 1) = NumNodes * passed[m] + NumNodes  BY NumNodesNat DEF CountTypes
    <3>3. NumNodes * passed[m] \in Nat  BY NumNodesNat DEF CountTypes
    <3> QED  BY <1>1, <3>1, <3>2, <3>3, NumNodesNat DEF CountIsCollected
  <2> QED  BY <1>1, <2>1, Zenon DEF CountIsCollected
<1>5. OneAhead'  BY <1>1, Zenon DEF OneAhead, CountTypes
<1>6. BarrierSafe'
  <2>1. \A m \in Node : passed[n] + 1 <= entered[m]
    BY <1>1, CollectedFromAll, Zenon DEF PassBarrier
  <2> QED  BY <1>1, <2>1, Zenon DEF BarrierSafe, CountTypes
<1> QED  BY <1>2, <1>3, <1>4, <1>5, <1>6, Zenon

-----------------------------------------------------------------------------
(* The steps of the other threads.                                         *)

\* Receiving a barrier message collects its round, which is new.
LEMMA ReceiveKeepsInv ==
  ASSUME BarrierInv, NEW n \in Node, NEW m \in Node, Receive(n, m)
  PROVE  BarrierInv'
<1> DEFINE msg == Recv(m, n)
<1> USE DEF BarrierInv, BarrierPart
<1>1. /\ channel[m][n] # <<>>
      /\ channel' = [channel EXCEPT ![m][n] = Tail(@)]
      /\ UNCHANGED <<main, unsent, entered, passed, send_queue>>
  BY Zenon DEF Receive
<1>2. /\ channel' \in [Node -> [Node -> Seq(Msg)]]
      /\ msg \in Msg
      /\ msg = channel[m][n][1] /\ Len(channel[m][n]) \in Nat \ {0}
  BY <1>1, ChannelPopped, Zenon
<1>3. ASSUME NEW a \in Node, NEW b \in Node, NEW i \in Nat, IsBarrier(channel'[a][b], i)
      PROVE  WasAt(a, b, i, IF a = m /\ b = n THEN i + 1 ELSE i)
  BY <1>1, <1>3, ChannelPopped, Zenon
<1>4. \A a, b \in Node : \A r \in Nat : SentRound(a, b, r)' <=> SentRound(a, b, r)
  BY <1>1, Zenon DEF SentRound
<1>5. \A a, b \in Node : \A i \in Nat : IsBarrier(channel[a][b], i) => channel[a][b][i].round \in Nat
  BY Zenon DEF InFlight, SentRound
<1>6. BarrierSafe'  BY <1>1, Zenon DEF BarrierSafe
<1>7. ASSUME NEW a \in Node, NEW b \in Node, NEW i \in Nat, NEW j \in Nat,
             IsBarrier(channel'[a][b], i), IsBarrier(channel'[a][b], j),
             channel'[a][b][i].round = channel'[a][b][j].round
      PROVE  i = j
  <2>1. CASE a = m /\ b = n
    <3>1. /\ IsBarrier(channel[a][b], i + 1) /\ channel'[a][b][i] = channel[a][b][i + 1]
          /\ IsBarrier(channel[a][b], j + 1) /\ channel'[a][b][j] = channel[a][b][j + 1]
      BY <1>3, <1>7, <2>1, Zenon DEF WasAt
    <3>2. i + 1 = j + 1  BY <1>7, <3>1 DEF InFlight
    <3> QED  BY <3>2
  <2>2. CASE ~(a = m /\ b = n)
    <3>1. /\ IsBarrier(channel[a][b], i) /\ channel'[a][b][i] = channel[a][b][i]
          /\ IsBarrier(channel[a][b], j) /\ channel'[a][b][j] = channel[a][b][j]
      BY <1>3, <1>7, <2>2, Zenon DEF WasAt
    <3> QED  BY <1>7, <3>1, Zenon DEF InFlight
  <2> QED  BY <2>1, <2>2, Zenon
<1> HIDE DEF msg
<1>8. CASE msg.flag = "kBarrier"
  <2>1. /\ \A a \in Node : barrier_count'[a] = IF a = n THEN barrier_count[a] + 1 ELSE barrier_count[a]
        /\ \A a \in Node : collected'[a] = IF a = n THEN collected[a] \cup {<<m, msg.round>>} ELSE collected[a]
        /\ \A a \in Node : bar'[a] = bar[a] \/ (bar[a] = "asleep" /\ bar'[a] = "checking")
        /\ bar' \in [Node -> {"outside", "sending", "checking", "asleep"}]
        /\ collected' = [collected EXCEPT ![n] = @ \cup {<<m, msg.round>>}]
        /\ barrier_count' = [barrier_count EXCEPT ![n] = @ + 1]
        /\ UNCHANGED work_queue
    BY <1>8, MailboxAssumption, ZenonT(60) DEF Receive, CountTypes, queues, msg
  <2>2. IsBarrier(channel[m][n], 1)  BY <1>2, <1>8 DEF IsBarrier
  <2>3. SentRound(m, n, msg.round) /\ <<m, msg.round>> \notin collected[n] /\ msg.round \in Nat
    BY <1>2, <1>5, <2>2, Zenon DEF InFlight
  <2>4. CountTypes' /\ QueueTypes'
    <3>1. collected[n] \cup {<<m, msg.round>>} \in SUBSET (Node \X Nat)  BY <2>3 DEF CountTypes
    <3>2. collected' \in [Node -> SUBSET (Node \X Nat)]  BY <2>1, <3>1, Zenon DEF CountTypes
    <3>0. barrier_count' \in [Node -> Int]  BY <2>1 DEF CountTypes
    <3>3. CountTypes'  BY <1>1, <2>1, <3>0, <3>2, Zenon DEF CountTypes
    <3>4. QueueTypes'  BY <1>1, <1>2, <2>1, SMTT(30) DEF QueueTypes
    <3> QED  BY <3>3, <3>4, Zenon
  <2>5. InFlight'
    <3>1. ASSUME NEW a \in Node, NEW b \in Node, NEW i \in Nat, IsBarrier(channel'[a][b], i)
          PROVE  /\ SentRound(a, b, channel[a][b][i].round)'
                 /\ <<a, channel'[a][b][i].round>> \notin collected'[b]
      <4> DEFINE k == IF a = m /\ b = n THEN i + 1 ELSE i
      <4>1. k \in Nat /\ IsBarrier(channel[a][b], k) /\ channel'[a][b][i] = channel[a][b][k]
        BY <1>3, <3>1 DEF WasAt
      <4>2. /\ SentRound(a, b, channel[a][b][k].round) /\ channel[a][b][k].round \in Nat
            /\ <<a, channel[a][b][k].round>> \notin collected[b]
        BY <1>5, <4>1, Zenon DEF InFlight
      <4>3. a = m /\ b = n => channel[a][b][k].round # msg.round
        <5>1. SUFFICES ASSUME a = m, b = n  PROVE channel[m][n][k].round # msg.round
          BY <5>1, Zenon
        <5>2. k # 1 /\ IsBarrier(channel[m][n], k)  BY <3>1, <4>1, <5>1 DEF IsBarrier
        <5> QED  BY <1>2, <2>2, <4>1, <5>2, Zenon DEF InFlight
      <4> HIDE DEF k
      <4>4. SentRound(a, b, channel[a][b][i].round)'  BY <1>4, <4>1, <4>2, Zenon
      <4>5. <<a, channel[a][b][k].round>> \notin collected'[b]
        <5>1. CASE b = n
          <6>1. collected'[b] = collected[b] \cup {<<m, msg.round>>}  BY <2>1, <5>1, Zenon
          <6> QED  BY <4>2, <4>3, <5>1, <6>1, Zenon
        <5>2. CASE b # n  BY <2>1, <4>2, <5>2, Zenon
        <5> QED  BY <5>1, <5>2, Zenon
      <4> QED  BY <4>1, <4>4, <4>5, Zenon
    <3> QED  BY <1>7, <3>1, Zenon DEF InFlight
  <2>6. CollectedSent'
    <3>1. ASSUME NEW a \in Node, NEW b \in Node, NEW r \in Nat, <<a, r>> \in collected'[b]
          PROVE  SentRound(a, b, r)
      BY <2>1, <2>3, <3>1 DEF CollectedSent
    <3> QED  BY <1>4, <3>1, Zenon DEF CollectedSent
  <2>7. CountIsCollected'
    <3>1. /\ IsFiniteSet(collected[n] \cup {<<m, msg.round>>})
          /\ Cardinality(collected[n] \cup {<<m, msg.round>>}) = Cardinality(collected[n]) + 1
      BY <2>3, FS_AddElement, Zenon DEF CountIsCollected
    <3>2. Cardinality(collected[n]) \in Nat  BY FS_CardinalityType, Zenon DEF CountIsCollected
    <3>3. NumNodes * passed[n] \in Nat  BY NumNodesNat DEF CountTypes
    <3>4. barrier_count'[n] = Cardinality(collected'[n]) - NumNodes * passed'[n]
      <4>1. barrier_count[n] = Cardinality(collected[n]) - NumNodes * passed[n]  BY Zenon DEF CountIsCollected
      <4>2. barrier_count'[n] = barrier_count[n] + 1 /\ passed'[n] = passed[n]  BY <1>1, <2>1, Zenon
      <4>3. Cardinality(collected'[n]) = Cardinality(collected[n]) + 1  BY <2>1, <3>1, Zenon
      <4> QED  BY <3>2, <3>3, <4>1, <4>2, <4>3
    <3>5. ASSUME NEW a \in Node, a # n
          PROVE  /\ IsFiniteSet(collected'[a])
                 /\ barrier_count'[a] = Cardinality(collected'[a]) - NumNodes * passed'[a]
      BY <1>1, <2>1, <3>5 DEF CountIsCollected
    <3>6. IsFiniteSet(collected'[n])  BY <2>1, <3>1, Zenon
    <3> QED  BY <3>4, <3>5, <3>6, Zenon DEF CountIsCollected
  <2>8. OneAhead'  BY <1>1, <2>1, Zenon DEF OneAhead, CountTypes
  <2> QED  BY <1>6, <2>4, <2>5, <2>6, <2>7, <2>8, Zenon
<1>9. CASE msg.flag # "kBarrier"
  <2>1. UNCHANGED <<bar, barrier_count, collected>>
    BY <1>9, Zenon DEF Receive, msg
  <2>2. work_queue' \in [Node -> Seq(RequestMsg \cup {Exit})]
    <3>1. CASE msg.flag \in Request /\ work_queue' = Pushed(work_queue, n, msg)
      <4>1. msg \in RequestMsg
        BY <1>2, <3>1, MailboxAssumption, SMTT(30) DEF Msg, DataMsg, RequestMsg, ReplyMsg, BarrierMsg, Exit
      <4>2. Append(work_queue[n], msg) \in Seq(RequestMsg \cup {Exit})
        BY <4>1, Appended, Zenon DEF QueueTypes
      <4> QED  BY <3>1, <4>2, Zenon DEF QueueTypes, Pushed
    <3>2. CASE work_queue' = work_queue  BY <3>2, Zenon DEF QueueTypes
    <3> QED  BY <1>9, <3>1, <3>2, Zenon DEF Receive, msg, queues
  <2>3. CountTypes' /\ QueueTypes'  BY <1>1, <1>2, <2>1, <2>2, Zenon DEF CountTypes, QueueTypes
  <2>4. InFlight'
    <3>1. ASSUME NEW a \in Node, NEW b \in Node, NEW i \in Nat, IsBarrier(channel'[a][b], i)
          PROVE  /\ SentRound(a, b, channel[a][b][i].round)'
                 /\ <<a, channel'[a][b][i].round>> \notin collected'[b]
      <4> DEFINE k == IF a = m /\ b = n THEN i + 1 ELSE i
      <4>1. k \in Nat /\ IsBarrier(channel[a][b], k) /\ channel'[a][b][i] = channel[a][b][k]
        BY <1>3, <3>1 DEF WasAt
      <4> HIDE DEF k
      <4> QED  BY <1>4, <1>5, <2>1, <4>1, Zenon DEF InFlight
    <3> QED  BY <1>7, <3>1, Zenon DEF InFlight
  <2>5. CollectedSent' /\ CountIsCollected' /\ OneAhead'
    BY <1>1, <1>4, <2>1, SMTT(30) DEF CollectedSent, CountIsCollected, OneAhead
  <2> QED  BY <1>6, <2>3, <2>4, <2>5, Zenon
<1> QED  BY <1>8, <1>9, Zenon

\* Sender::Send moves messages of tasks only.
LEMMA SenderKeepsInv ==
  ASSUME BarrierInv, NEW n \in Node, SenderStep(n)
  PROVE  BarrierInv'
<1> DEFINE msg == Head(send_queue[n])
<1> USE DEF BarrierInv, BarrierPart
<1>1. send_queue[n] \in Seq(DataMsg \cup {Exit}) /\ send_queue[n] # <<>>  BY Zenon DEF QueueTypes, SenderStep
<1>2. msg \in DataMsg \cup {Exit} /\ Tail(send_queue[n]) \in Seq(DataMsg \cup {Exit})
  BY <1>1, Popped, Zenon
<1>3. send_queue' \in [Node -> Seq(DataMsg \cup {Exit})] /\ UNCHANGED <<main, barrier, work_queue>>
  BY <1>2, Zenon DEF QueueTypes, SenderStep, queues
<1> HIDE DEF msg
<1>4. CASE UNCHANGED channel
  BY <1>3, <1>4, Undisturbed, Zenon DEF QueueTypes
<1>5. CASE msg # Exit /\ Sent(n, msg.to, msg)
  <2>1. msg \in DataMsg  BY <1>2, <1>5, Zenon
  <2>2. msg \in Msg /\ msg.flag # "kBarrier" /\ msg.to \in Node  BY <2>1, DataIsRouted, Zenon DEF Msg
  <2>3. InFlight' /\ channel' \in [Node -> [Node -> Seq(Msg)]]
    BY <1>3, <1>5, <2>2, DataSent, Zenon DEF barrier
  <2>4. QueueTypes'  BY <1>3, <2>3, Zenon DEF QueueTypes
  <2>5. CountTypes' /\ CollectedSent' /\ CountIsCollected' /\ OneAhead' /\ BarrierSafe'
    BY <1>3, Zenon DEF barrier, CountTypes, CollectedSent, SentRound, CountIsCollected, OneAhead, BarrierSafe
  <2> QED  BY <2>3, <2>4, <2>5, Zenon
<1> QED  BY <1>4, <1>5, Zenon DEF SenderStep, msg

\* The kExit that Mailbox::StopReceiving sends to its own node is no barrier message.
LEMMA StopReceivingKeepsInv ==
  ASSUME BarrierInv, NEW n \in Node, StopReceiving(n)
  PROVE  BarrierInv'
<1> USE DEF BarrierInv, BarrierPart
<1>1. Exit \in Msg /\ Exit.flag # "kBarrier"  BY Zenon DEF Exit, Msg
<1>2. /\ Sent(n, n, Exit) /\ UNCHANGED <<barrier, send_queue, work_queue>>
      /\ main' \in [Node -> Stage]
  BY Zenon DEF StopReceiving, queues, Goto, QueueTypes, Stage
<1>3. InFlight' /\ channel' \in [Node -> [Node -> Seq(Msg)]]  BY <1>1, <1>2, DataSent, Zenon DEF barrier
<1>4. QueueTypes'  BY <1>2, <1>3, Zenon DEF QueueTypes
<1>5. CountTypes' /\ CollectedSent' /\ CountIsCollected' /\ OneAhead' /\ BarrierSafe'
  BY <1>2, Zenon DEF barrier, CountTypes, CollectedSent, SentRound, CountIsCollected, OneAhead, BarrierSafe
<1> QED  BY <1>3, <1>4, <1>5, Zenon

\* All other steps leave barriers and channels alone.
LEMMA OthersKeepInv ==
  ASSUME BarrierInv, NEW n \in Node,
         \/ StopSender(n) \/ JoinSender(n) \/ JoinReceiver(n) \/ KillThreads(n) \/ Linger(n)
         \/ JoinServer(n) \/ StopWorkerThreads(n) \/ JoinHelper(n)
         \/ \E to \in Node, flag \in Request : PushRequest(n, to, flag)
         \/ ServerStep(n) \/ HelperStep(n)
  PROVE  BarrierInv'
<1> USE DEF BarrierInv, BarrierPart
<1>1. SUFFICES QueueTypes' /\ UNCHANGED <<barrier, channel>>
  BY Undisturbed, Zenon
<1>2. ASSUME NEW q \in Seq(DataMsg \cup {Exit})  PROVE Append(q, Exit) \in Seq(DataMsg \cup {Exit})
  BY Appended, Zenon
<1>3. ASSUME NEW q \in Seq(RequestMsg \cup {Exit})  PROVE Append(q, Exit) \in Seq(RequestMsg \cup {Exit})
  BY Appended, Zenon
<1>4. CASE StopSender(n)
  BY <1>2, <1>4, Zenon DEF StopSender, Goto, Pushed, QueueTypes, Stage, barrier, queues
<1>5. CASE KillThreads(n)
  BY <1>3, <1>5, Zenon DEF KillThreads, Goto, Pushed, QueueTypes, Stage, barrier
<1>6. CASE JoinSender(n) \/ JoinReceiver(n) \/ Linger(n) \/ JoinServer(n) \/ StopWorkerThreads(n) \/ JoinHelper(n)
  BY <1>6, Zenon DEF JoinSender, JoinReceiver, Linger, JoinServer, StopWorkerThreads, JoinHelper,
              Goto, QueueTypes, Stage, barrier, queues
<1>7. ASSUME NEW to \in Node, NEW flag \in Request, PushRequest(n, to, flag)
      PROVE  QueueTypes' /\ UNCHANGED <<barrier, channel>>
  <2> DEFINE msg == [flag |-> flag, from |-> n, to |-> to]
  <2>1. msg \in DataMsg \cup {Exit}  BY SMTT(30) DEF DataMsg, RequestMsg
  <2>2. Append(send_queue[n], msg) \in Seq(DataMsg \cup {Exit})  BY <2>1, Appended, Zenon DEF QueueTypes
  <2> QED  BY <1>7, <2>2, Zenon DEF PushRequest, Pushed, QueueTypes, barrier, queues
<1>8. CASE ServerStep(n)
  <2> DEFINE msg == Head(work_queue[n])
             reply == [flag |-> "reply", of |-> msg.flag, to |-> msg.from]
  <2>1. work_queue[n] \in Seq(RequestMsg \cup {Exit}) /\ work_queue[n] # <<>>
    BY <1>8, Zenon DEF ServerStep, QueueTypes
  <2>2. msg \in RequestMsg \cup {Exit} /\ Tail(work_queue[n]) \in Seq(RequestMsg \cup {Exit})
    BY <2>1, Popped, Zenon
  <2>3. msg # Exit => reply \in DataMsg \cup {Exit}  BY <2>2, SMTT(30) DEF RequestMsg, ReplyMsg, DataMsg
  <2>4. msg # Exit => Append(send_queue[n], reply) \in Seq(DataMsg \cup {Exit})
    BY <2>3, Appended, Zenon DEF QueueTypes
  <2>5. work_queue' \in [Node -> Seq(RequestMsg \cup {Exit})]  BY <1>8, <2>2, Zenon DEF ServerStep, QueueTypes
  <2>6. send_queue' \in [Node -> Seq(DataMsg \cup {Exit})]  BY <1>8, <2>4, Zenon DEF ServerStep, QueueTypes, Pushed
  <2> QED  BY <1>8, <2>5, <2>6, Zenon DEF ServerStep, QueueTypes, barrier
<1>9. CASE HelperStep(n)
  BY <1>9, Zenon DEF HelperStep, QueueTypes, barrier
<1> QED  BY <1>4, <1>5, <1>6, <1>7, <1>8, <1>9, Zenon

-----------------------------------------------------------------------------
\* The invariant holds at first.
LEMMA InitHasInv == Init => BarrierInv
<1> SUFFICES ASSUME Init  PROVE BarrierInv  BY Zenon
<1>1. QueueTypes /\ CountTypes
  <2>1. QueueTypes  BY DEF Init, QueueTypes, Stage
  <2>2. CountTypes  BY DEF Init, CountTypes
  <2> QED  BY <2>1, <2>2, Zenon
<1>2. \A m, n \in Node : \A i \in Nat : ~IsBarrier(channel[m][n], i)
  BY DEF Init, IsBarrier
<1>3. InFlight  BY <1>2, Zenon DEF InFlight
<1>4. CollectedSent  BY Zenon DEF Init, CollectedSent
<1>5. CountIsCollected
  BY FS_EmptySet, NumNodesNat DEF Init, CountIsCollected
<1>6. OneAhead /\ BarrierSafe  BY DEF Init, OneAhead, BarrierSafe
<1> QED  BY <1>1, <1>3, <1>4, <1>5, <1>6, Zenon DEF BarrierInv, BarrierPart

\* Every step keeps it.
LEMMA NextKeepsInv == BarrierInv /\ [Next]_vars => BarrierInv'
<1> SUFFICES ASSUME BarrierInv, [Next]_vars  PROVE BarrierInv'  BY Zenon
<1>1. CASE UNCHANGED vars
  <2>1. UNCHANGED <<barrier, channel>> /\ QueueTypes'  BY <1>1, Zenon DEF vars, barrier, BarrierInv, QueueTypes
  <2> QED  BY <2>1, Undisturbed, Zenon DEF BarrierInv, BarrierPart
<1>2. ASSUME NEW n \in Node, MainStep(n)  PROVE BarrierInv'
  BY <1>2, EnterBarrierKeepsInv, SendBarrierKeepsInv, WaitingKeepsInv, PassBarrierKeepsInv,
     StopReceivingKeepsInv, OthersKeepInv, Zenon DEF MainStep, InBarrier, Stopping
<1>3. ASSUME NEW n \in Node, WakeSpuriously(n)  PROVE BarrierInv'
  BY <1>3, WaitingKeepsInv, Zenon
<1>4. ASSUME NEW n \in Node,
             \/ \E to \in Node, flag \in Request : PushRequest(n, to, flag)
             \/ ServerStep(n) \/ HelperStep(n)
      PROVE  BarrierInv'
  BY <1>4, OthersKeepInv, Zenon
<1>5. ASSUME NEW n \in Node, SenderStep(n) \/ ReceiverStep(n)  PROVE BarrierInv'
  BY <1>5, SenderKeepsInv, ReceiveKeepsInv, Zenon DEF ReceiverStep
<1> QED  BY <1>1, <1>2, <1>3, <1>4, <1>5, Zenon DEF Next

(***************************************************************************)
(* Mailbox::Barrier is a barrier for any number of nodes and of calls: no  *)
(* node passes a barrier that some node has not entered.                   *)
(***************************************************************************)
THEOREM BarrierCorrect == Spec => []BarrierSafe
<1>1. BarrierInv => BarrierSafe  BY Zenon DEF BarrierInv, BarrierPart
<1> QED  BY <1>1, InitHasInv, NextKeepsInv, PTL DEF Spec

-----------------------------------------------------------------------------
(* Requests find their tables: none is on its way before some node has     *)
(* passed its first barrier, and by then all have entered theirs.          *)

SomePassed == \E n \in Node : passed[n] >= 1

\* A node in StopEverything has entered a barrier, and has passed one after StopSender.
Stopped ==
  \A n \in Node : /\ main[n] # "app" => entered[n] >= 1
                  /\ main[n] \notin {"app", "StopSender"} => passed[n] >= 1

\* Nothing but barrier messages is on its way.
Quiet ==
  \A n \in Node : /\ send_queue[n] = <<>>
                  /\ work_queue[n] = <<>>
                  /\ \A m \in Node : \A i \in 1 .. Len(channel[n][m]) : channel[n][m][i].flag = "kBarrier"

TableInv == BarrierInv /\ Stopped /\ (~SomePassed => Quiet)

\* The stages of StopEverything come after barriers.
LEMMA NextKeepsStopped ==
  ASSUME BarrierInv, Stopped, [Next]_vars
  PROVE  Stopped'
<1> USE DEF BarrierInv, BarrierPart
<1>1. \A n \in Node : entered[n] \in Nat /\ passed[n] \in Nat  BY Zenon DEF CountTypes
<1>2. CASE UNCHANGED <<main, entered, passed>>  BY <1>2, Zenon DEF Stopped
<1>3. ASSUME NEW n \in Node, EnterBarrier(n)  PROVE Stopped'
  <2>1. /\ \A m \in Node : m # n => main'[m] = main[m] /\ entered'[m] = entered[m]
        /\ entered'[n] = entered[n] + 1 /\ passed' = passed
        /\ main'[n] \in {"app", "StopSender"} \/ main[n] = "StopMailbox"
    BY <1>3, Zenon DEF EnterBarrier, CountTypes, QueueTypes
  <2> QED  BY <1>1, <2>1 DEF Stopped
<1>4. ASSUME NEW n \in Node, PassBarrier(n)  PROVE Stopped'
  <2>1. /\ \A m \in Node : m # n => passed'[m] = passed[m]
        /\ passed'[n] = passed[n] + 1 /\ UNCHANGED <<main, entered>>
    BY <1>4, Zenon DEF PassBarrier, CountTypes
  <2> QED  BY <1>1, <2>1 DEF Stopped
<1>5. ASSUME NEW n \in Node, StopSender(n)  PROVE Stopped'
  <2>1. passed[n] >= 1  BY <1>1, <1>5, Zenon DEF StopSender, Goto, Stopped, OneAhead
  <2>2. /\ \A m \in Node : m # n => main'[m] = main[m]
        /\ UNCHANGED <<entered, passed>> /\ entered[n] >= 1
    BY <1>5, Zenon DEF StopSender, Goto, QueueTypes, barrier, Stopped
  <2> QED  BY <2>1, <2>2, Zenon DEF Stopped
<1>6. ASSUME NEW n \in Node, Stopping(n), ~StopSender(n)  PROVE Stopped'
  <2>1. /\ main[n] \notin {"app", "StopSender"}
        /\ \A m \in Node : m # n => main'[m] = main[m]
        /\ UNCHANGED <<entered, passed>>
    BY <1>6, Zenon DEF Stopping, JoinSender, StopReceiving, JoinReceiver, KillThreads, Linger, JoinServer,
                StopWorkerThreads, JoinHelper, Goto, QueueTypes, barrier
  <2> QED  BY <2>1, Zenon DEF Stopped
<1>7. ASSUME NEW n \in Node,
             \/ \E to \in Node : SendBarrier(n, to)
             \/ StartWaiting(n) \/ Sleep(n) \/ WakeSpuriously(n)
             \/ \E to \in Node, flag \in Request : PushRequest(n, to, flag)
             \/ SenderStep(n) \/ ReceiverStep(n) \/ ServerStep(n) \/ HelperStep(n)
      PROVE  UNCHANGED <<main, entered, passed>>
  BY <1>7, Zenon DEF SendBarrier, StartWaiting, Sleep, WakeSpuriously, PushRequest, SenderStep, ReceiverStep,
              Receive, ServerStep, HelperStep, barrier
<1>8. CASE UNCHANGED vars  BY <1>2, <1>8, Zenon DEF vars
<1> QED  BY <1>2, <1>3, <1>4, <1>5, <1>6, <1>7, <1>8, Zenon DEF Next, MainStep, InBarrier

\* Before the first barrier is passed, only barrier messages are sent.
LEMMA QuietBeforeFirst ==
  ASSUME TableInv, [Next]_vars, ~SomePassed'
  PROVE  Quiet'
<1> USE DEF TableInv, BarrierInv, BarrierPart
<1>1. \A n \in Node : passed[n] \in Nat  BY Zenon DEF CountTypes
<1>2. ~SomePassed
  <2>1. \A n \in Node : passed'[n] >= passed[n]
    <3>1. CASE UNCHANGED passed  BY <1>1, <3>1
    <3>2. ASSUME NEW n \in Node, PassBarrier(n)  PROVE \A m \in Node : passed'[m] >= passed[m]
      BY <1>1, <3>2 DEF PassBarrier, CountTypes
    <3>3. ASSUME NEW n \in Node, Stopping(n)  PROVE UNCHANGED passed
      BY <3>3, Zenon DEF Stopping, StopSender, JoinSender, StopReceiving, JoinReceiver, KillThreads, Linger,
                  JoinServer, StopWorkerThreads, JoinHelper, barrier
    <3>4. ASSUME NEW n \in Node,
                 \/ EnterBarrier(n) \/ \E to \in Node : SendBarrier(n, to)
                 \/ StartWaiting(n) \/ Sleep(n) \/ WakeSpuriously(n)
                 \/ \E to \in Node, flag \in Request : PushRequest(n, to, flag)
                 \/ SenderStep(n) \/ ReceiverStep(n) \/ ServerStep(n) \/ HelperStep(n)
          PROVE  UNCHANGED passed
      BY <3>4, Zenon DEF EnterBarrier, SendBarrier, StartWaiting, Sleep, WakeSpuriously, PushRequest, SenderStep,
                  ReceiverStep, Receive, ServerStep, HelperStep, barrier
    <3>5. CASE UNCHANGED vars  BY <3>1, <3>5, Zenon DEF vars
    <3> QED  BY <3>1, <3>2, <3>3, <3>4, <3>5, Zenon DEF Next, MainStep, InBarrier
  <2>2. \A n \in Node : passed'[n] \in Nat  BY NextKeepsInv, Zenon DEF CountTypes
  <2> QED  BY <1>1, <2>1, <2>2 DEF SomePassed
<1>3. Quiet /\ \A n \in Node : passed[n] = 0  BY <1>1, <1>2 DEF SomePassed
<1>4. \A n \in Node : main[n] \in {"app", "StopSender"}  BY <1>3 DEF Stopped
<1>5. CASE UNCHANGED <<send_queue, work_queue, channel>>  BY <1>3, <1>5, Zenon DEF Quiet
<1>6. ASSUME NEW n \in Node, NEW to \in Node, SendBarrier(n, to)  PROVE Quiet'
  <2> DEFINE msg == [flag |-> "kBarrier", round |-> entered[n]]
  <2>1. msg \in Msg /\ msg.flag = "kBarrier"  BY Zenon DEF CountTypes, Msg, BarrierMsg
  <2>2. UNCHANGED <<send_queue, work_queue>> /\ channel' = [channel EXCEPT ![n][to] = Append(@, msg)]
    BY <1>6, Zenon DEF SendBarrier, Sent, queues
  <2> HIDE DEF msg
  <2>3. channel[n][to] \in Seq(Msg)  BY Zenon DEF QueueTypes
  <2>4. ASSUME NEW a \in Node, NEW b \in Node, NEW i \in 1 .. Len(channel'[a][b])
        PROVE  channel'[a][b][i].flag = "kBarrier"
    <3>1. CASE a = n /\ b = to
      <4>1. channel'[a][b] = Append(channel[n][to], msg)  BY <2>2, <3>1, Zenon DEF QueueTypes
      <4>2. i \in 1 .. Len(channel[n][to]) + 1  BY <2>1, <2>3, <2>4, <4>1, Appended
      <4>3. Len(channel[n][to]) \in Nat  BY <2>3
      <4>4. CASE i = Len(channel[n][to]) + 1  BY <2>1, <2>3, <4>1, <4>4, Appended
      <4>5. CASE i \in 1 .. Len(channel[n][to])
        <5>1. channel'[a][b][i] = channel[n][to][i]  BY <2>1, <2>3, <4>1, <4>5, Appended
        <5> QED  BY <1>3, <4>5, <5>1 DEF Quiet
      <4> QED  BY <4>2, <4>3, <4>4, <4>5
    <3>2. CASE ~(a = n /\ b = to)
      <4>1. channel'[a][b] = channel[a][b]  BY <2>2, <3>2, Zenon DEF QueueTypes
      <4> QED  BY <1>3, <2>4, <4>1 DEF Quiet
    <3> QED  BY <3>1, <3>2, Zenon
  <2> QED  BY <1>3, <2>2, <2>4, Zenon DEF Quiet
<1>7. ASSUME NEW n \in Node, NEW m \in Node, Receive(n, m)  PROVE Quiet'
  <2>1. /\ channel[m][n] # <<>> /\ channel' = [channel EXCEPT ![m][n] = Tail(@)]
        /\ UNCHANGED send_queue
    BY <1>7, Zenon DEF Receive
  <2>2. channel[m][n] \in Seq(Msg)  BY Zenon DEF QueueTypes
  <2>3. Len(channel[m][n]) \in Nat \ {0} /\ Recv(m, n) = channel[m][n][1]  BY <2>1, <2>2, Popped, Zenon DEF Recv
  <2>4. Recv(m, n).flag = "kBarrier"  BY <1>3, <2>3 DEF Quiet
  <2>5. UNCHANGED work_queue  BY <1>7, <2>4, MailboxAssumption, Zenon DEF Receive, queues
  <2>6. PICK t \in Seq(Msg) :
          /\ t = Tail(channel[m][n])
          /\ Len(t) = Len(channel[m][n]) - 1
          /\ \A i \in 1 .. Len(t) : t[i] = channel[m][n][i + 1]
    BY <2>1, <2>2, Popped, Zenon
  <2>7. ASSUME NEW a \in Node, NEW b \in Node, NEW i \in 1 .. Len(channel'[a][b])
        PROVE  channel'[a][b][i].flag = "kBarrier"
    <3>1. CASE a = m /\ b = n
      <4>1. channel'[a][b] = t  BY <2>1, <2>6, <3>1, Zenon DEF QueueTypes
      <4>2. t[i] = channel[m][n][i + 1] /\ i + 1 \in 1 .. Len(channel[m][n])
        BY <2>3, <2>6, <2>7, <4>1
      <4> QED  BY <1>3, <4>1, <4>2 DEF Quiet
    <3>2. CASE ~(a = m /\ b = n)
      <4>1. channel'[a][b] = channel[a][b]  BY <2>1, <3>2, Zenon DEF QueueTypes
      <4> QED  BY <1>3, <2>7, <4>1 DEF Quiet
    <3> QED  BY <3>1, <3>2, Zenon
  <2> QED  BY <1>3, <2>1, <2>5, <2>7, Zenon DEF Quiet
<1>8. ASSUME NEW n \in Node  PROVE ~SenderStep(n) /\ ~ServerStep(n)
  BY <1>3, Zenon DEF Quiet, SenderStep, ServerStep
<1>9. ASSUME NEW n \in Node, NEW to \in Node, NEW flag \in Request  PROVE ~PushRequest(n, to, flag)
  BY <1>3 DEF PushRequest
<1>10. ASSUME NEW n \in Node  PROVE ~Stopping(n)
  <2>1. ~StopSender(n)
    <3>1. main[n] = "StopSender" => entered[n] >= 1  BY Zenon DEF Stopped
    <3>2. bar[n] = "outside" => ~(entered[n] >= 1)  BY <1>3, SMTT(30) DEF OneAhead
    <3> QED  BY <3>1, <3>2, Zenon DEF StopSender, Goto
  <2> QED  BY <1>4, <2>1, Zenon DEF Stopping, JoinSender, StopReceiving, JoinReceiver, KillThreads, Linger, JoinServer,
              StopWorkerThreads, JoinHelper, Goto
<1>11. ASSUME NEW n \in Node,
              \/ EnterBarrier(n) \/ StartWaiting(n) \/ Sleep(n) \/ PassBarrier(n)
              \/ WakeSpuriously(n) \/ HelperStep(n)
       PROVE  UNCHANGED <<send_queue, work_queue, channel>>
  BY <1>11, Zenon DEF EnterBarrier, StartWaiting, Sleep, PassBarrier, WakeSpuriously, HelperStep, queues
<1>12. CASE UNCHANGED vars  BY <1>5, <1>12, Zenon DEF vars
<1> QED  BY <1>5, <1>6, <1>7, <1>8, <1>9, <1>10, <1>11, <1>12, Zenon DEF Next, MainStep, InBarrier, ReceiverStep

(***************************************************************************)
(* On any number of nodes, what reaches the queue of a server thread does  *)
(* so after that node has entered its first barrier, so after it has       *)
(* created its tables.                                                     *)
(***************************************************************************)
THEOREM TablesCreated == Spec => []TableCreated
<1>1. Init => TableInv
  BY InitHasInv DEF Init, TableInv, Stopped, Quiet
<1>2. TableInv /\ [Next]_vars => TableInv'
  BY NextKeepsInv, NextKeepsStopped, QuietBeforeFirst, Zenon DEF TableInv
<1>3. TableInv => TableCreated
  <2> SUFFICES ASSUME TableInv, NEW n \in Node, work_queue[n] # <<>>  PROVE entered[n] >= 1
    BY Zenon DEF TableCreated
  <2>1. PICK m \in Node : passed[m] >= 1  BY Zenon DEF TableInv, Quiet, SomePassed
  <2>2. passed[m] \in Nat /\ entered[n] \in Nat  BY Zenon DEF TableInv, BarrierInv, BarrierPart, CountTypes
  <2>3. passed[m] <= entered[n]  BY Zenon DEF TableInv, BarrierInv, BarrierPart, BarrierSafe
  <2> QED  BY <2>1, <2>2, <2>3
<1> QED  BY <1>1, <1>2, <1>3, PTL DEF Spec

-----------------------------------------------------------------------------
(* Shutting down loses nothing.  First, what push and pop do to the        *)
(* contents of a queue.                                                    *)

Elems(q) == {q[i] : i \in 1 .. Len(q)}

\* A message that comes once at most, as the last of the queue.
OnlyLast(q, x) == \A i \in 1 .. Len(q) : q[i] = x => i = Len(q)

\* No request follows a kExit.
NoneAfterExit(q) == \A i, k \in 1 .. Len(q) : i < k /\ q[i] = Exit => q[k] \notin RequestMsg

\* The contents after a push.
LEMMA ElemsPushed ==
  ASSUME NEW S, NEW q \in Seq(S), NEW x \in S
  PROVE  Elems(Append(q, x)) = Elems(q) \cup {x}
<1> DEFINE p == Append(q, x)
<1>1. /\ Len(p) = Len(q) + 1 /\ Len(q) \in Nat
      /\ \A i \in 1 .. Len(q) : p[i] = q[i]
      /\ p[Len(q) + 1] = x
  BY Appended
<1> HIDE DEF p
<1>2. 1 .. Len(p) = (1 .. Len(q)) \cup {Len(q) + 1}  BY <1>1
<1>3. Elems(p) \subseteq Elems(q) \cup {x}  BY <1>1, <1>2, Zenon DEF Elems
<1>4. Elems(q) \subseteq Elems(p)  BY <1>1, <1>2, Zenon DEF Elems
<1>5. x \in Elems(p)  BY <1>1, <1>2, Zenon DEF Elems
<1> QED  BY <1>3, <1>4, <1>5, Zenon DEF p

\* The contents after a pop.
LEMMA ElemsPopped ==
  ASSUME NEW S, NEW q \in Seq(S), q # <<>>
  PROVE  Elems(q) = Elems(Tail(q)) \cup {Head(q)}
<1> DEFINE p == Tail(q)
<1>1. /\ Len(p) = Len(q) - 1 /\ Len(q) \in Nat \ {0}
      /\ \A i \in 1 .. Len(p) : p[i] = q[i + 1]
      /\ Head(q) = q[1]
  BY Popped
<1> HIDE DEF p
<1>2. Elems(p) \cup {q[1]} \subseteq Elems(q)  BY <1>1 DEF Elems
<1>3. ASSUME NEW i \in 1 .. Len(q)  PROVE q[i] \in Elems(p) \cup {q[1]}
  <2>1. CASE i = 1  BY <2>1, Zenon
  <2>2. CASE i # 1
    <3>1. i - 1 \in 1 .. Len(p) /\ q[i] = p[i - 1]  BY <1>1, <2>2
    <3> QED  BY <3>1, Zenon DEF Elems
  <2> QED  BY <2>1, <2>2, Zenon
<1>4. Elems(q) \subseteq Elems(p) \cup {q[1]}  BY <1>3, Zenon DEF Elems
<1> QED  BY <1>1, <1>2, <1>4, Zenon DEF p

\* The contents are of the queue's type; an empty queue has none.
LEMMA ElemsType ==
  ASSUME NEW S, NEW q \in Seq(S)
  PROVE  Elems(q) \subseteq S /\ (q = <<>> <=> Elems(q) = {})
<1>1. Elems(q) \subseteq S  BY DEF Elems
<1>2. q = <<>> => Elems(q) = {}  BY DEF Elems
<1>3. q # <<>> => Elems(q) # {}  BY ElemsPopped, Zenon
<1> QED  BY <1>1, <1>2, <1>3, Zenon

\* What comes at most last stays so when messages are taken, and when one is
\* pushed behind others.
LEMMA OnlyLastKept ==
  ASSUME NEW S, NEW q \in Seq(S), NEW x, OnlyLast(q, x)
  PROVE  /\ q # <<>> => OnlyLast(Tail(q), x)
         /\ q # <<>> /\ Head(q) = x => Tail(q) = <<>>
         /\ \A y \in S : x \notin Elems(q) => OnlyLast(Append(q, y), x)
<1>1. ASSUME q # <<>>  PROVE OnlyLast(Tail(q), x) /\ (Head(q) = x => Tail(q) = <<>>)
  BY <1>1 DEF OnlyLast
<1>2. ASSUME NEW y \in S, x \notin Elems(q)  PROVE OnlyLast(Append(q, y), x)
  BY <1>2 DEF OnlyLast, Elems
<1> QED  BY <1>1, <1>2, Zenon

\* The order of requests and kExit in the queue of the sender.
LEMMA NoneAfterExitKept ==
  ASSUME NEW S, NEW q \in Seq(S), NoneAfterExit(q)
  PROVE  /\ q # <<>> => NoneAfterExit(Tail(q))
         /\ q # <<>> /\ Head(q) = Exit => \A y \in Elems(Tail(q)) : y \notin RequestMsg
         /\ \A y \in S : y \notin RequestMsg \/ Exit \notin Elems(q) => NoneAfterExit(Append(q, y))
<1>1. ASSUME q # <<>>  PROVE NoneAfterExit(Tail(q))
  BY <1>1 DEF NoneAfterExit
<1>2. ASSUME q # <<>>, Head(q) = Exit, NEW y \in Elems(Tail(q))  PROVE y \notin RequestMsg
  BY <1>2 DEF NoneAfterExit, Elems
<1>3. ASSUME NEW y \in S, y \notin RequestMsg \/ Exit \notin Elems(q)  PROVE NoneAfterExit(Append(q, y))
  BY <1>3 DEF NoneAfterExit, Elems
<1> QED  BY <1>1, <1>2, <1>3, Zenon

-----------------------------------------------------------------------------
(* All queues and channels together, and the Gets in them.                 *)

Loc == {"channel", "send", "work", "helper"} \X Node \X Node

Contents(c, s, w, h) ==
  [l \in Loc |-> IF l[1] = "channel" THEN c[l[2]][l[3]]
                 ELSE IF l[2] # l[3] THEN <<>>
                 ELSE IF l[1] = "send" THEN s[l[2]]
                 ELSE IF l[1] = "work" THEN w[l[2]] ELSE h[l[2]]]

Queue == Contents(channel, send_queue, work_queue, helper_queue)

Push(Q, l, x) == [Q EXCEPT ![l] = Append(@, x)]
Pop(Q, l) == [Q EXCEPT ![l] = Tail(@)]

\* A message of a Get that the tasks of node n wait for: the request or the reply.
GetOf(msg, n) ==
  \/ msg.flag = "kGet" /\ msg.from = n
  \/ msg.flag = "reply" /\ msg.of = "kGet" /\ msg.to = n

\* Where the messages of Gets of node n are.
Gets(Q, n) == {p \in Loc \X Nat : p[2] \in 1 .. Len(Q[p[1]]) /\ GetOf(Q[p[1]][p[2]], n)}

Counted(Q, n, c) == IsFiniteSet(Gets(Q, n)) /\ Cardinality(Gets(Q, n)) = c

\* Push and pop keep the types of the queues.
LEMMA QueueTyped ==
  ASSUME NEW Q \in [Loc -> Seq(Msg)], NEW l \in Loc
  PROVE  /\ \A x \in Msg : Push(Q, l, x) \in [Loc -> Seq(Msg)]
         /\ Q[l] # <<>> => Pop(Q, l) \in [Loc -> Seq(Msg)] /\ Head(Q[l]) \in Msg
<1>1. Q[l] \in Seq(Msg)  BY Zenon
<1>2. ASSUME NEW x \in Msg  PROVE Push(Q, l, x) \in [Loc -> Seq(Msg)]
  <2>1. Append(Q[l], x) \in Seq(Msg)  BY <1>1, Appended, Zenon
  <2> QED  BY <2>1, Zenon DEF Push
<1>3. ASSUME Q[l] # <<>>  PROVE Pop(Q, l) \in [Loc -> Seq(Msg)] /\ Head(Q[l]) \in Msg
  <2>1. Tail(Q[l]) \in Seq(Msg) /\ Head(Q[l]) \in Msg  BY <1>1, <1>3, Popped, Zenon
  <2> QED  BY <2>1, Zenon DEF Pop
<1> QED  BY <1>2, <1>3, Zenon

\* A push adds the position of the message, if it is one of a Get of n.
LEMMA CountPush ==
  ASSUME NEW Q \in [Loc -> Seq(Msg)], NEW l \in Loc, NEW x \in Msg, NEW n, NEW c \in Nat, Counted(Q, n, c)
  PROVE  Counted(Push(Q, l, x), n, IF GetOf(x, n) THEN c + 1 ELSE c)
<1> DEFINE R == Push(Q, l, x)
           p == <<l, Len(Q[l]) + 1>>
<1>1. Q[l] \in Seq(Msg)  BY Zenon
<1>2. R[l] = Append(Q[l], x) /\ \A k \in Loc : k # l => R[k] = Q[k]  BY Zenon DEF Push
<1>3. /\ Len(R[l]) = Len(Q[l]) + 1 /\ Len(Q[l]) \in Nat
      /\ \A i \in 1 .. Len(Q[l]) : R[l][i] = Q[l][i]
      /\ R[l][Len(Q[l]) + 1] = x
  BY <1>1, <1>2, Appended
<1> HIDE DEF R
<1>4. p \in Loc \X Nat /\ p \notin Gets(Q, n)
  <2>1. Len(Q[l]) + 1 \in Nat /\ Len(Q[l]) + 1 \notin 1 .. Len(Q[l])  BY <1>3
  <2> QED  BY <2>1, Zenon DEF Gets
<1>5. Gets(R, n) = IF GetOf(x, n) THEN Gets(Q, n) \cup {p} ELSE Gets(Q, n)
  <2>1. ASSUME NEW k \in Loc, NEW i \in Nat
        PROVE  (i \in 1 .. Len(R[k]) /\ GetOf(R[k][i], n)) <=>
                 \/ i \in 1 .. Len(Q[k]) /\ GetOf(Q[k][i], n)
                 \/ k = l /\ i = Len(Q[l]) + 1 /\ GetOf(x, n)
    <3>1. CASE k # l  BY <1>2, <3>1, Zenon
    <3>2. CASE k = l
      <4>1. i \in 1 .. Len(R[l]) <=> i \in 1 .. Len(Q[l]) \/ i = Len(Q[l]) + 1  BY <1>3
      <4>2. ~(Len(Q[l]) + 1 \in 1 .. Len(Q[l]))  BY <1>3
      <4> QED  BY <1>3, <3>2, <4>1, <4>2, Zenon
    <3> QED  BY <3>1, <3>2, Zenon
  <2>2. ASSUME NEW k \in Loc, NEW i \in Nat
        PROVE  /\ <<k, i>> \in Gets(R, n) <=> i \in 1 .. Len(R[k]) /\ GetOf(R[k][i], n)
               /\ <<k, i>> \in Gets(Q, n) <=> i \in 1 .. Len(Q[k]) /\ GetOf(Q[k][i], n)
               /\ <<k, i>> = p <=> k = l /\ i = Len(Q[l]) + 1
    BY Zenon DEF Gets
  <2>3. \A k \in Loc, i \in Nat :
          <<k, i>> \in Gets(R, n) <=> <<k, i>> \in Gets(Q, n) \/ (GetOf(x, n) /\ <<k, i>> = p)
    BY <2>1, <2>2, Zenon
  <2>4. Gets(R, n) \subseteq Loc \X Nat /\ Gets(Q, n) \subseteq Loc \X Nat  BY Zenon DEF Gets
  <2>5. ASSUME NEW z \in Loc \X Nat  PROVE \E k \in Loc, i \in Nat : z = <<k, i>>  OBVIOUS
  <2> HIDE DEF p
  <2>6. \A z \in Loc \X Nat : z \in Gets(R, n) <=> z \in Gets(Q, n) \/ (GetOf(x, n) /\ z = p)
    <3> TAKE z \in Loc \X Nat
    <3>1. PICK k \in Loc, i \in Nat : z = <<k, i>>  BY <2>5, Zenon
    <3> QED  BY <2>3, <3>1, Zenon
  <2> QED  BY <1>4, <2>4, <2>6, Zenon
<1>6. CASE GetOf(x, n)
  <2>1. IsFiniteSet(Gets(Q, n) \cup {p}) /\ Cardinality(Gets(Q, n) \cup {p}) = c + 1
    BY <1>4, FS_AddElement, Zenon DEF Counted
  <2> QED  BY <1>5, <1>6, <2>1, Zenon DEF Counted, R
<1>7. CASE ~GetOf(x, n)  BY <1>5, <1>7, Zenon DEF Counted, R
<1> QED  BY <1>6, <1>7, Zenon

\* A pop moves the messages behind the first by one, and takes the first.
LEMMA CountPop ==
  ASSUME NEW Q \in [Loc -> Seq(Msg)], NEW l \in Loc, Q[l] # <<>>, NEW n, NEW c \in Nat, Counted(Q, n, c)
  PROVE  /\ Counted(Pop(Q, l), n, IF GetOf(Head(Q[l]), n) THEN c - 1 ELSE c)
         /\ GetOf(Head(Q[l]), n) => c - 1 \in Nat
<1> DEFINE R == Pop(Q, l)
           p == <<l, 1>>
           S == Gets(Q, n) \ {p}
           T == Gets(R, n)
           f == [z \in S |-> IF z[1] = l THEN <<l, z[2] - 1>> ELSE z]
<1>1. Q[l] \in Seq(Msg)  BY Zenon
<1>2. R[l] = Tail(Q[l]) /\ \A k \in Loc : k # l => R[k] = Q[k]  BY Zenon DEF Pop
<1>3. /\ Len(R[l]) = Len(Q[l]) - 1 /\ Len(Q[l]) \in Nat \ {0}
      /\ \A i \in 1 .. Len(R[l]) : R[l][i] = Q[l][i + 1]
      /\ Head(Q[l]) = Q[l][1]
  BY <1>1, <1>2, Popped
<1> HIDE DEF R
<1>4. ASSUME NEW k \in Loc, NEW i \in Nat
      PROVE  /\ <<k, i>> \in T <=> i \in 1 .. Len(R[k]) /\ GetOf(R[k][i], n)
             /\ <<k, i>> \in S <=> i \in 1 .. Len(Q[k]) /\ GetOf(Q[k][i], n) /\ ~(k = l /\ i = 1)
             /\ p \in Gets(Q, n) <=> 1 \in 1 .. Len(Q[l]) /\ GetOf(Q[l][1], n)
  BY Zenon DEF Gets
<1>5. T \subseteq Loc \X Nat /\ S \subseteq Loc \X Nat  BY Zenon DEF Gets
<1>6. ASSUME NEW z \in Loc \X Nat  PROVE \E k \in Loc, i \in Nat : z = <<k, i>>  OBVIOUS
<1>7. ASSUME NEW k \in Loc, k # l, NEW i \in Nat
      PROVE  (<<k, i>> \in S <=> <<k, i>> \in T) /\ (<<k, i>> \in S => f[<<k, i>>] = <<k, i>>)
  BY <1>2, <1>4, <1>7, Zenon
<1>8. ASSUME NEW i \in Nat
      PROVE  /\ <<l, i>> \in S => i - 1 \in Nat /\ <<l, i - 1>> \in T /\ f[<<l, i>>] = <<l, i - 1>>
             /\ <<l, i>> \in T => i + 1 \in Nat /\ <<l, i + 1>> \in S /\ f[<<l, i + 1>>] = <<l, i>>
  <2>1. ASSUME <<l, i>> \in S
        PROVE  i - 1 \in Nat /\ <<l, i - 1>> \in T /\ f[<<l, i>>] = <<l, i - 1>>
    <3>1. i \in 1 .. Len(Q[l]) /\ i # 1 /\ GetOf(Q[l][i], n)  BY <1>4, <2>1, Zenon
    <3>2. i - 1 \in Nat /\ i - 1 \in 1 .. Len(R[l]) /\ R[l][i - 1] = Q[l][i]  BY <1>3, <3>1
    <3>3. <<l, i - 1>> \in T  BY <1>4, <3>1, <3>2, Zenon
    <3> QED  BY <2>1, <3>2, <3>3, Zenon
  <2>2. ASSUME <<l, i>> \in T
        PROVE  i + 1 \in Nat /\ <<l, i + 1>> \in S /\ f[<<l, i + 1>>] = <<l, i>>
    <3>1. i \in 1 .. Len(R[l]) /\ GetOf(R[l][i], n)  BY <1>4, <2>2, Zenon
    <3>2. i + 1 \in Nat /\ i + 1 \in 1 .. Len(Q[l]) /\ i + 1 # 1 /\ R[l][i] = Q[l][i + 1] /\ i + 1 - 1 = i
      BY <1>3, <3>1
    <3>3. <<l, i + 1>> \in S  BY <1>4, <3>1, <3>2, Zenon
    <3>4. PICK j : j = i + 1  BY Zenon
    <3>5. f[<<l, j>>] = <<l, j - 1>>  BY <3>3, <3>4, Zenon
    <3>6. j - 1 = i  BY <3>4
    <3>7. f[<<l, j>>] = <<l, i>>  BY <3>5, <3>6, Zenon
    <3> QED  BY <3>2, <3>3, <3>4, <3>7, Zenon
  <2> QED  BY <2>1, <2>2, Zenon
<1> HIDE DEF S, T, f
<1>9. f \in Bijection(S, T)
  <2>1. f \in [S -> T]
    <3>1. ASSUME NEW z \in S  PROVE f[z] \in T
      <4>1. PICK k \in Loc, i \in Nat : z = <<k, i>>  BY <1>5, <1>6, Zenon
      <4> QED  BY <1>7, <1>8, <4>1, Zenon
    <3> QED  BY <3>1, Zenon DEF f
  <2>2. ASSUME NEW y \in S, NEW z \in S, f[y] = f[z]  PROVE y = z
    <3>1. PICK k \in Loc, i \in Nat : y = <<k, i>>  BY <1>5, <1>6, Zenon
    <3>2. PICK m \in Loc, j \in Nat : z = <<m, j>>  BY <1>5, <1>6, Zenon
    <3>3. CASE k = l /\ m = l
      <4>1. <<l, i - 1>> = <<l, j - 1>>  BY <1>8, <2>2, <3>1, <3>2, <3>3, Zenon
      <4>2. i - 1 = j - 1  BY <4>1, Zenon
      <4>3. i = j  BY <4>2
      <4> QED  BY <3>1, <3>2, <3>3, <4>3, Zenon
    <3>4. CASE k = l /\ m # l
      <4>1. f[y] = <<l, i - 1>>  BY <1>8, <3>1, <3>4, Zenon
      <4>2. f[z] = <<m, j>>  BY <1>7, <3>2, <3>4, Zenon
      <4>3. <<l, i - 1>> = <<m, j>>  BY <2>2, <4>1, <4>2, Zenon
      <4> QED  BY <3>4, <4>3, Zenon
    <3>5. CASE k # l /\ m = l
      <4>1. f[y] = <<k, i>>  BY <1>7, <3>1, <3>5, Zenon
      <4>2. f[z] = <<l, j - 1>>  BY <1>8, <3>2, <3>5, Zenon
      <4>3. <<k, i>> = <<l, j - 1>>  BY <2>2, <4>1, <4>2, Zenon
      <4> QED  BY <3>5, <4>3, Zenon
    <3>6. CASE k # l /\ m # l  BY <1>7, <2>2, <3>1, <3>2, <3>6, Zenon
    <3> QED  BY <3>3, <3>4, <3>5, <3>6, Zenon
  <2>3. ASSUME NEW z \in T  PROVE \E y \in S : f[y] = z
    <3>1. PICK k \in Loc, i \in Nat : z = <<k, i>>  BY <1>5, <1>6, Zenon
    <3> QED  BY <1>7, <1>8, <3>1, Zenon
  <2> QED  BY <2>1, <2>2, <2>3, Zenon DEF Bijection, Injection, Surjection, IsInjective
<1>10. IsFiniteSet(S) /\ Cardinality(S) = IF p \in Gets(Q, n) THEN c - 1 ELSE c
  BY FS_RemoveElement, Zenon DEF Counted, S
<1>11. IsFiniteSet(T) /\ Cardinality(T) = Cardinality(S)
  BY <1>9, <1>10, FS_Bijection, Zenon DEF ExistsBijection
<1>12. p \in Gets(Q, n) <=> GetOf(Head(Q[l]), n)
  <2>1. 1 \in 1 .. Len(Q[l])  BY <1>3
  <2>2. p \in Gets(Q, n) <=> GetOf(Q[l][1], n)  BY <1>4, <2>1, Zenon
  <2> QED  BY <1>3, <2>2, Zenon
<1>13. Cardinality(S) \in Nat  BY <1>10, FS_CardinalityType, Zenon
<1> QED  BY <1>10, <1>11, <1>12, <1>13, Zenon DEF Counted, T, R

\* A message that moves from one queue to another is still counted.
LEMMA CountMove ==
  ASSUME NEW Q \in [Loc -> Seq(Msg)], NEW l \in Loc, Q[l] # <<>>, NEW k \in Loc, NEW y \in Msg,
         NEW n, NEW c \in Nat, Counted(Q, n, c), GetOf(y, n) <=> GetOf(Head(Q[l]), n)
  PROVE  Counted(Push(Pop(Q, l), k, y), n, c)
<1> DEFINE R == Pop(Q, l)
<1>1. R \in [Loc -> Seq(Msg)]  BY QueueTyped, Zenon
<1>2. CASE GetOf(y, n)
  <2>1. c - 1 \in Nat /\ Counted(R, n, c - 1)  BY <1>2, CountPop, Zenon
  <2>2. Counted(Push(R, k, y), n, c - 1 + 1)  BY <1>1, <1>2, <2>1, CountPush, Zenon
  <2>3. c - 1 + 1 = c  OBVIOUS
  <2> QED  BY <2>2, <2>3, Zenon
<1>3. CASE ~GetOf(y, n)
  <2>1. Counted(R, n, c)  BY <1>3, CountPop, Zenon
  <2> QED  BY <1>1, <1>3, <2>1, CountPush, Zenon
<1> QED  BY <1>2, <1>3, Zenon

\* When none is counted there is none.
LEMMA CountZero ==
  ASSUME NEW Q \in [Loc -> Seq(Msg)], NEW n, Counted(Q, n, 0), NEW l \in Loc, NEW x \in Elems(Q[l])
  PROVE  ~GetOf(x, n)
<1>1. Gets(Q, n) = {}  BY FS_EmptySet, Zenon DEF Counted
<1>2. PICK i \in 1 .. Len(Q[l]) : x = Q[l][i]  BY Zenon DEF Elems
<1>3. i \in Nat  BY <1>2
<1>4. GetOf(x, n) => <<l, i>> \in Gets(Q, n)  BY <1>2, <1>3, Zenon DEF Gets
<1> QED  BY <1>1, <1>4, Zenon

\* Push and pop of a queue, seen in Contents.
Shaped(c, s, w, h) ==
  /\ DOMAIN c = Node /\ \A a \in Node : DOMAIN c[a] = Node
  /\ DOMAIN s = Node /\ DOMAIN w = Node /\ DOMAIN h = Node

SentTo(c, m, n, x) == [c EXCEPT ![m][n] = Append(@, x)]
TakenFrom(c, m, n) == [c EXCEPT ![m][n] = Tail(@)]
Taken(q, n) == [q EXCEPT ![n] = Tail(@)]

AtChannel(m, n) == <<"channel", m, n>>
AtSend(n) == <<"send", n, n>>
AtWork(n) == <<"work", n, n>>
AtHelper(n) == <<"helper", n, n>>

\* Where the queues are in Contents.
LEMMA ContentsAt ==
  ASSUME NEW c, NEW s, NEW w, NEW h
  PROVE  /\ \A n \in Node : /\ AtSend(n) \in Loc /\ Contents(c, s, w, h)[AtSend(n)] = s[n]
                            /\ AtWork(n) \in Loc /\ Contents(c, s, w, h)[AtWork(n)] = w[n]
                            /\ AtHelper(n) \in Loc /\ Contents(c, s, w, h)[AtHelper(n)] = h[n]
         /\ \A m, n \in Node : AtChannel(m, n) \in Loc /\ Contents(c, s, w, h)[AtChannel(m, n)] = c[m][n]
  BY DEF Contents, Loc, AtChannel, AtSend, AtWork, AtHelper

\* A location has three parts.
LEMMA LocParts ==
  ASSUME NEW l \in Loc
  PROVE  \E k \in {"channel", "send", "work", "helper"}, a \in Node, b \in Node :
           l = <<k, a, b>> /\ l[1] = k /\ l[2] = a /\ l[3] = b
  BY DEF Loc

\* Mailbox::Send and Mailbox::Recv change one channel.
LEMMA ChannelMoved ==
  ASSUME NEW c, NEW s, NEW w, NEW h, Shaped(c, s, w, h), NEW m \in Node, NEW n \in Node
  PROVE  /\ \A x : Contents(SentTo(c, m, n, x), s, w, h) = Push(Contents(c, s, w, h), AtChannel(m, n), x)
         /\ Contents(TakenFrom(c, m, n), s, w, h) = Pop(Contents(c, s, w, h), AtChannel(m, n))
<1>1. PICK Q : Q = Contents(c, s, w, h)  BY Zenon
<1>2. AtChannel(m, n) \in Loc /\ Q[AtChannel(m, n)] = c[m][n]  BY <1>1, ContentsAt
<1>3. ASSUME NEW y  PROVE Contents([c EXCEPT ![m][n] = y], s, w, h) = [Q EXCEPT ![AtChannel(m, n)] = y]
  <2>1. ASSUME NEW l \in Loc  PROVE Contents([c EXCEPT ![m][n] = y], s, w, h)[l] = [Q EXCEPT ![AtChannel(m, n)] = y][l]
    BY <1>1, LocParts DEF Contents, Shaped, AtChannel
  <2> QED  BY <1>1, <2>1, Zenon DEF Contents
<1>4. \A x : Push(Q, AtChannel(m, n), x) = [Q EXCEPT ![AtChannel(m, n)] = Append(c[m][n], x)]  BY <1>1, <1>2, Zenon DEF Push
<1>5. Pop(Q, AtChannel(m, n)) = [Q EXCEPT ![AtChannel(m, n)] = Tail(c[m][n])]  BY <1>1, <1>2, Zenon DEF Pop
<1> QED  BY <1>1, <1>3, <1>4, <1>5, Zenon DEF SentTo, TakenFrom, Taken, Pushed

\* The sender's queue.
LEMMA SendMoved ==
  ASSUME NEW c, NEW s, NEW w, NEW h, Shaped(c, s, w, h), NEW n \in Node
  PROVE  /\ \A x : Contents(c, Pushed(s, n, x), w, h) = Push(Contents(c, s, w, h), AtSend(n), x)
         /\ Contents(c, Taken(s, n), w, h) = Pop(Contents(c, s, w, h), AtSend(n))
<1>1. PICK Q : Q = Contents(c, s, w, h)  BY Zenon
<1>2. AtSend(n) \in Loc /\ Q[AtSend(n)] = s[n]  BY <1>1, ContentsAt
<1>3. ASSUME NEW y  PROVE Contents(c, [s EXCEPT ![n] = y], w, h) = [Q EXCEPT ![AtSend(n)] = y]
  <2>1. ASSUME NEW l \in Loc  PROVE Contents(c, [s EXCEPT ![n] = y], w, h)[l] = [Q EXCEPT ![AtSend(n)] = y][l]
    BY <1>1, LocParts DEF Contents, Shaped, AtSend
  <2> QED  BY <1>1, <2>1, Zenon DEF Contents
<1>4. \A x : Push(Q, AtSend(n), x) = [Q EXCEPT ![AtSend(n)] = Append(s[n], x)]  BY <1>1, <1>2, Zenon DEF Push
<1>5. Pop(Q, AtSend(n)) = [Q EXCEPT ![AtSend(n)] = Tail(s[n])]  BY <1>1, <1>2, Zenon DEF Pop
<1> QED  BY <1>1, <1>3, <1>4, <1>5, Zenon DEF SentTo, TakenFrom, Taken, Pushed

\* The queue of a server thread.
LEMMA WorkMoved ==
  ASSUME NEW c, NEW s, NEW w, NEW h, Shaped(c, s, w, h), NEW n \in Node
  PROVE  /\ \A x : Contents(c, s, Pushed(w, n, x), h) = Push(Contents(c, s, w, h), AtWork(n), x)
         /\ Contents(c, s, Taken(w, n), h) = Pop(Contents(c, s, w, h), AtWork(n))
<1>1. PICK Q : Q = Contents(c, s, w, h)  BY Zenon
<1>2. AtWork(n) \in Loc /\ Q[AtWork(n)] = w[n]  BY <1>1, ContentsAt
<1>3. ASSUME NEW y  PROVE Contents(c, s, [w EXCEPT ![n] = y], h) = [Q EXCEPT ![AtWork(n)] = y]
  <2>1. ASSUME NEW l \in Loc  PROVE Contents(c, s, [w EXCEPT ![n] = y], h)[l] = [Q EXCEPT ![AtWork(n)] = y][l]
    BY <1>1, LocParts DEF Contents, Shaped, AtWork
  <2> QED  BY <1>1, <2>1, Zenon DEF Contents
<1>4. \A x : Push(Q, AtWork(n), x) = [Q EXCEPT ![AtWork(n)] = Append(w[n], x)]  BY <1>1, <1>2, Zenon DEF Push
<1>5. Pop(Q, AtWork(n)) = [Q EXCEPT ![AtWork(n)] = Tail(w[n])]  BY <1>1, <1>2, Zenon DEF Pop
<1> QED  BY <1>1, <1>3, <1>4, <1>5, Zenon DEF SentTo, TakenFrom, Taken, Pushed

\* The queue of a helper thread.
LEMMA HelperMoved ==
  ASSUME NEW c, NEW s, NEW w, NEW h, Shaped(c, s, w, h), NEW n \in Node
  PROVE  /\ \A x : Contents(c, s, w, Pushed(h, n, x)) = Push(Contents(c, s, w, h), AtHelper(n), x)
         /\ Contents(c, s, w, Taken(h, n)) = Pop(Contents(c, s, w, h), AtHelper(n))
<1>1. PICK Q : Q = Contents(c, s, w, h)  BY Zenon
<1>2. AtHelper(n) \in Loc /\ Q[AtHelper(n)] = h[n]  BY <1>1, ContentsAt
<1>3. ASSUME NEW y  PROVE Contents(c, s, w, [h EXCEPT ![n] = y]) = [Q EXCEPT ![AtHelper(n)] = y]
  <2>1. ASSUME NEW l \in Loc  PROVE Contents(c, s, w, [h EXCEPT ![n] = y])[l] = [Q EXCEPT ![AtHelper(n)] = y][l]
    BY <1>1, LocParts DEF Contents, Shaped, AtHelper
  <2> QED  BY <1>1, <2>1, Zenon DEF Contents
<1>4. \A x : Push(Q, AtHelper(n), x) = [Q EXCEPT ![AtHelper(n)] = Append(h[n], x)]  BY <1>1, <1>2, Zenon DEF Push
<1>5. Pop(Q, AtHelper(n)) = [Q EXCEPT ![AtHelper(n)] = Tail(h[n])]  BY <1>1, <1>2, Zenon DEF Pop
<1> QED  BY <1>1, <1>3, <1>4, <1>5, Zenon DEF SentTo, TakenFrom, Taken, Pushed

\* The four together.
Moves(c, s, w, h) ==
  /\ \A m, n \in Node : \A x : Contents(SentTo(c, m, n, x), s, w, h) = Push(Contents(c, s, w, h), AtChannel(m, n), x)
  /\ \A m, n \in Node : Contents(TakenFrom(c, m, n), s, w, h) = Pop(Contents(c, s, w, h), AtChannel(m, n))
  /\ \A n \in Node : \A x : Contents(c, Pushed(s, n, x), w, h) = Push(Contents(c, s, w, h), AtSend(n), x)
  /\ \A n \in Node : Contents(c, Taken(s, n), w, h) = Pop(Contents(c, s, w, h), AtSend(n))
  /\ \A n \in Node : \A x : Contents(c, s, Pushed(w, n, x), h) = Push(Contents(c, s, w, h), AtWork(n), x)
  /\ \A n \in Node : Contents(c, s, Taken(w, n), h) = Pop(Contents(c, s, w, h), AtWork(n))
  /\ \A n \in Node : \A x : Contents(c, s, w, Pushed(h, n, x)) = Push(Contents(c, s, w, h), AtHelper(n), x)
  /\ \A n \in Node : Contents(c, s, w, Taken(h, n)) = Pop(Contents(c, s, w, h), AtHelper(n))

\* Every push and pop of a queue is one of Contents.
LEMMA AllMoved ==
  ASSUME NEW c, NEW s, NEW w, NEW h, Shaped(c, s, w, h)
  PROVE  Moves(c, s, w, h)
<1>1. ASSUME NEW m \in Node, NEW n \in Node
      PROVE  /\ \A x : Contents(SentTo(c, m, n, x), s, w, h) = Push(Contents(c, s, w, h), AtChannel(m, n), x)
             /\ Contents(TakenFrom(c, m, n), s, w, h) = Pop(Contents(c, s, w, h), AtChannel(m, n))
  BY <1>1, ChannelMoved
<1>2. ASSUME NEW n \in Node
      PROVE  /\ \A x : Contents(c, Pushed(s, n, x), w, h) = Push(Contents(c, s, w, h), AtSend(n), x)
             /\ Contents(c, Taken(s, n), w, h) = Pop(Contents(c, s, w, h), AtSend(n))
  BY <1>2, SendMoved
<1>3. ASSUME NEW n \in Node
      PROVE  /\ \A x : Contents(c, s, Pushed(w, n, x), h) = Push(Contents(c, s, w, h), AtWork(n), x)
             /\ Contents(c, s, Taken(w, n), h) = Pop(Contents(c, s, w, h), AtWork(n))
  BY <1>3, WorkMoved
<1>4. ASSUME NEW n \in Node
      PROVE  /\ \A x : Contents(c, s, w, Pushed(h, n, x)) = Push(Contents(c, s, w, h), AtHelper(n), x)
             /\ Contents(c, s, w, Taken(h, n)) = Pop(Contents(c, s, w, h), AtHelper(n))
  BY <1>4, HelperMoved
<1> QED  BY <1>1, <1>2, <1>3, <1>4, Zenon DEF Moves

-----------------------------------------------------------------------------
(* The inductive invariant.                                                *)

\* Types of what barriers do not touch.
ShutTypes ==
  /\ helper_queue \in [Node -> Seq(ReplyMsg \cup {Exit})]
  /\ awaited \in [Node -> Int]
  /\ receiving \in [Node -> BOOLEAN]
  /\ sending \in [Node -> BOOLEAN]
  /\ serving \in [Node -> BOOLEAN]
  /\ helping \in [Node -> BOOLEAN]

\* The barrier of StopReceiving, and its message.
LastRound == NumBarriers + 2
LastBarrier == [flag |-> "kBarrier", round |-> LastRound]

\* Stages before Sender::Stop, after Mailbox::StopReceiving and after the
\* threads were killed.
Working == {"app", "StopSender"}
Killed == {"linger", "StopServerThreads", "StopWorkerThreads", "join_helper", "stopped"}
Ended == {"join_receiver", "CloseSockets"} \cup Killed

\* Data goes to the node it names.
Routed ==
  \A n \in Node : /\ \A m \in Node : \A x \in Elems(channel[m][n]) : x \in DataMsg => x.to = n
                  /\ \A x \in Elems(helper_queue[n]) : x # Exit => x.to = n

\* A node waits for as many Gets as have a message somewhere.
GetsCounted == \A n \in Node : awaited[n] \in Nat /\ Counted(Queue, n, awaited[n])

\* How far a node is in StopEverything, by the barriers it has entered and the
\* threads it has joined; it left its tasks with no Get unanswered.
StageRight(n) ==
  /\ main[n] = "app" => entered[n] <= NumBarriers
  /\ main[n] # "app" => awaited[n] = 0
  /\ main[n] \in {"StopSender", "join_sender", "StopMailbox"} => entered[n] = NumBarriers + 1
  /\ main[n] \in {"StopReceiving"} \cup Ended => entered[n] = LastRound
  /\ main[n] \in {"join_sender", "StopMailbox"} \cup Ended => bar[n] = "outside"
  /\ main[n] \notin {"app", "StopSender", "join_sender"} => ~sending[n]
  /\ main[n] \in {"CloseSockets"} \cup Killed => ~receiving[n]
  /\ ~receiving[n] => main[n] \in Ended

SenderRight(n) ==
  /\ ~sending[n] => main[n] \notin Working /\ \A x \in Elems(send_queue[n]) : x \notin RequestMsg
  /\ Exit \in Elems(send_queue[n]) => main[n] \notin Working
  /\ NoneAfterExit(send_queue[n])

ServerRight(n) ==
  /\ ~serving[n] => main[n] \in Killed /\ work_queue[n] = <<>>
  /\ Exit \in Elems(work_queue[n]) => main[n] \in Killed
  /\ OnlyLast(work_queue[n], Exit)

HelperRight(n) == ~helping[n] \/ Exit \in Elems(helper_queue[n]) => main[n] \in Killed

\* The message of the last barrier is the last one of m to n, but for the
\* kExit of n to itself: who has it has everything.
ChannelRight(m, n) ==
  /\ passed[n] = LastRound => <<m, LastRound>> \in collected[n]
  /\ main[n] \notin Ended => /\ <<m, LastRound>> \in collected[n] => channel[m][n] = <<>>
                             /\ Exit \notin Elems(channel[m][n])
  /\ main[n] \in Ended => channel[m][n] = IF m = n /\ receiving[n] THEN <<Exit>> ELSE <<>>
  /\ OnlyLast(channel[m][n], LastBarrier)

NodeRight(n) == StageRight(n) /\ SenderRight(n) /\ ServerRight(n) /\ HelperRight(n)

ShutInv ==
  /\ BarrierInv /\ ShutTypes /\ Routed /\ GetsCounted /\ \A n \in Node : NodeRight(n)
  /\ \A m, n \in Node : ChannelRight(m, n)

\* The queues, as parts of Queue.
LEMMA QueueIs ==
  ASSUME QueueTypes, ShutTypes
  PROVE  /\ Queue \in [Loc -> Seq(Msg)]
         /\ Shaped(channel, send_queue, work_queue, helper_queue)
         /\ \A m, n \in Node : AtChannel(m, n) \in Loc /\ Queue[AtChannel(m, n)] = channel[m][n]
         /\ \A n \in Node : /\ AtSend(n) \in Loc /\ Queue[AtSend(n)] = send_queue[n]
                            /\ AtWork(n) \in Loc /\ Queue[AtWork(n)] = work_queue[n]
                            /\ AtHelper(n) \in Loc /\ Queue[AtHelper(n)] = helper_queue[n]
<1>1. Shaped(channel, send_queue, work_queue, helper_queue)  BY Zenon DEF QueueTypes, ShutTypes, Shaped
<1>2. /\ \A m, n \in Node : AtChannel(m, n) \in Loc /\ Queue[AtChannel(m, n)] = channel[m][n]
      /\ \A n \in Node : /\ AtSend(n) \in Loc /\ Queue[AtSend(n)] = send_queue[n]
                         /\ AtWork(n) \in Loc /\ Queue[AtWork(n)] = work_queue[n]
                         /\ AtHelper(n) \in Loc /\ Queue[AtHelper(n)] = helper_queue[n]
  BY ContentsAt DEF Queue
<1>3. \A m, n \in Node : /\ channel[m][n] \in Seq(Msg) /\ send_queue[n] \in Seq(Msg)
                         /\ work_queue[n] \in Seq(Msg) /\ helper_queue[n] \in Seq(Msg)
  <2>1. ASSUME NEW S, S \subseteq Msg, NEW q \in Seq(S)  PROVE q \in Seq(Msg)
    BY <2>1
  <2>2. /\ DataMsg \cup {Exit} \subseteq Msg /\ RequestMsg \cup {Exit} \subseteq Msg
        /\ ReplyMsg \cup {Exit} \subseteq Msg
    BY Zenon DEF Msg, DataMsg
  <2>3. TAKE m, n \in Node
  <2>4. /\ channel[m][n] \in Seq(Msg) /\ send_queue[n] \in Seq(DataMsg \cup {Exit})
        /\ work_queue[n] \in Seq(RequestMsg \cup {Exit}) /\ helper_queue[n] \in Seq(ReplyMsg \cup {Exit})
    BY Zenon DEF QueueTypes, ShutTypes
  <2> QED  BY <2>1, <2>2, <2>4, Zenon
<1>4. \A m \in Node : <<>> \in Seq(Msg)  OBVIOUS
<1>5. ASSUME NEW l \in Loc  PROVE Queue[l] \in Seq(Msg)
  <2>1. l[2] \in Node /\ l[3] \in Node  BY DEF Loc
  <2> QED  BY <1>3, <1>4, <2>1, Zenon DEF Queue, Contents
<1>6. Queue \in [Loc -> Seq(Msg)]  BY <1>5, Zenon DEF Queue, Contents
<1> QED  BY <1>1, <1>2, <1>6, Zenon

\* Messages by their flags.
LEMMA FlagOf ==
  ASSUME NEW msg \in Msg
  PROVE  /\ msg.flag \in Request <=> msg \in RequestMsg
         /\ msg.flag = "reply" <=> msg \in ReplyMsg
         /\ msg.flag = "kExit" <=> msg = Exit
         /\ msg.flag = "kBarrier" <=> msg \in BarrierMsg
         /\ ~(msg \in RequestMsg /\ msg \in ReplyMsg)
<1>1. "reply" \notin Request /\ "kExit" \notin Request /\ "kBarrier" \notin Request  BY MailboxAssumption, Zenon
<1>2. /\ \A x \in RequestMsg : x.flag \in Request
      /\ \A x \in ReplyMsg : x.flag = "reply"
      /\ \A x \in BarrierMsg : x.flag = "kBarrier"
      /\ Exit.flag = "kExit"
  BY Zenon DEF RequestMsg, ReplyMsg, BarrierMsg, Exit
<1>3. msg \in RequestMsg \/ msg \in ReplyMsg \/ msg \in BarrierMsg \/ msg = Exit  BY Zenon DEF Msg, DataMsg
<1>4. "reply" # "kExit" /\ "reply" # "kBarrier" /\ "kExit" # "kBarrier"  BY Zenon
<1> QED  BY <1>1, <1>2, <1>3, <1>4, Zenon

\* kExit and barrier messages are no data.
LEMMA NoData ==
  /\ Exit \in Msg /\ Exit \notin DataMsg
  /\ \A x \in BarrierMsg : x \in Msg /\ x \notin DataMsg /\ x # Exit
<1>1. Exit \in Msg /\ \A x \in BarrierMsg : x \in Msg  BY Zenon DEF Msg
<1>2. Exit.flag = "kExit" /\ \A x \in BarrierMsg : x.flag = "kBarrier"  BY Zenon DEF Exit, BarrierMsg
<1>3. ASSUME NEW x \in DataMsg  PROVE x.flag # "kExit" /\ x.flag # "kBarrier"
  BY MailboxAssumption, Zenon DEF DataMsg, RequestMsg, ReplyMsg
<1>4. "kExit" # "kBarrier"  BY Zenon
<1> QED  BY <1>1, <1>2, <1>3, <1>4, Zenon

\* What Mailbox::Receiving does with a message, by its flag.
LEMMA ReceiveCases ==
  ASSUME QueueTypes, NEW n \in Node, NEW m \in Node, Receive(n, m)
  PROVE  /\ Recv(m, n) \in Msg /\ channel[m][n] # <<>> /\ receiving[n]
         /\ channel' = TakenFrom(channel, m, n)
         /\ UNCHANGED <<main, unsent, entered, passed, send_queue, sending, serving, helping, awaited, pushed>>
         /\ \/ /\ Recv(m, n) = Exit
               /\ receiving' = [receiving EXCEPT ![n] = FALSE]
               /\ UNCHANGED <<bar, collected, work_queue, helper_queue>>
            \/ /\ Recv(m, n) \in BarrierMsg
               /\ collected' = [collected EXCEPT ![n] = @ \cup {<<m, Recv(m, n).round>>}]
               /\ UNCHANGED <<receiving, work_queue, helper_queue>>
            \/ /\ Recv(m, n) \in RequestMsg
               /\ work_queue' = Pushed(work_queue, n, Recv(m, n))
               /\ UNCHANGED <<bar, collected, receiving, helper_queue>>
            \/ /\ Recv(m, n) \in ReplyMsg
               /\ helper_queue' = Pushed(helper_queue, n, Recv(m, n))
               /\ UNCHANGED <<bar, collected, receiving, work_queue>>
<1>1. /\ channel[m][n] # <<>> /\ receiving[n] /\ channel' = TakenFrom(channel, m, n)
      /\ UNCHANGED <<main, unsent, entered, passed, send_queue, sending, serving, helping, awaited, pushed>>
  BY Zenon DEF Receive, tasks, TakenFrom
<1>2. Recv(m, n) \in Msg  BY <1>1, ChannelPopped, Zenon DEF TakenFrom
<1>3. PICK msg : msg = Recv(m, n)  BY Zenon
<1> QED  BY <1>1, <1>2, <1>3, FlagOf, Zenon DEF Receive, queues

\* A reply goes to the helper thread.
LEMMA ReceiveHelper ==
  ASSUME QueueTypes, NEW n \in Node, NEW m \in Node, Receive(n, m)
  PROVE  \/ helper_queue' = helper_queue
         \/ Recv(m, n) \in ReplyMsg /\ helper_queue' = Pushed(helper_queue, n, Recv(m, n))
<1>1. Recv(m, n) \in Msg  BY ReceiveCases, Zenon
<1>2. PICK msg : msg = Recv(m, n)  BY Zenon
<1> QED  BY <1>1, <1>2, FlagOf, Zenon DEF Receive, queues

\* What Sender::Send does with a message.
LEMMA SenderCases ==
  ASSUME QueueTypes, NEW n \in Node, SenderStep(n)
  PROVE  /\ sending[n] /\ send_queue[n] # <<>> /\ Head(send_queue[n]) \in Msg
         /\ send_queue' = Taken(send_queue, n)
         /\ UNCHANGED <<main, barrier, receiving, work_queue, helper_queue, serving, helping, awaited, pushed>>
         /\ \/ /\ Head(send_queue[n]) = Exit
               /\ sending' = [sending EXCEPT ![n] = FALSE] /\ channel' = channel
            \/ /\ Head(send_queue[n]) \in DataMsg /\ Head(send_queue[n]).to \in Node
               /\ channel' = SentTo(channel, n, Head(send_queue[n]).to, Head(send_queue[n]))
               /\ sending' = sending
<1>1. send_queue[n] \in Seq(DataMsg \cup {Exit}) /\ send_queue[n] # <<>>  BY Zenon DEF QueueTypes, SenderStep
<1>2. PICK msg : msg = Head(send_queue[n])  BY Zenon
<1>3. msg \in DataMsg \cup {Exit}  BY <1>1, <1>2, Popped, Zenon
<1>4. msg # Exit => msg \in DataMsg /\ msg.to \in Node  BY <1>3, DataIsRouted, Zenon
<1> QED  BY <1>1, <1>2, <1>3, <1>4, Zenon DEF SenderStep, Sent, SentTo, Taken, Msg, queues, tasks

\* What ServerThread::Main does with a message.
LEMMA ServerCases ==
  ASSUME QueueTypes, NEW n \in Node, ServerStep(n)
  PROVE  \E msg, reply :
         /\ serving[n] /\ work_queue[n] # <<>> /\ msg = Head(work_queue[n]) /\ msg \in Msg
         /\ work_queue' = Taken(work_queue, n)
         /\ UNCHANGED <<main, barrier, channel, receiving, sending, helper_queue, helping, awaited, pushed>>
         /\ \/ /\ msg = Exit
               /\ serving' = [serving EXCEPT ![n] = FALSE] /\ send_queue' = send_queue
            \/ /\ msg \in RequestMsg /\ msg.flag = "kAdd"
               /\ serving' = serving /\ send_queue' = send_queue
            \/ /\ msg \in RequestMsg
               /\ reply \in ReplyMsg /\ reply.flag = "reply" /\ reply.of = msg.flag /\ reply.to = msg.from
               /\ serving' = serving /\ send_queue' = Pushed(send_queue, n, reply)
<1>1. work_queue[n] \in Seq(RequestMsg \cup {Exit}) /\ work_queue[n] # <<>>  BY Zenon DEF QueueTypes, ServerStep
<1>2. PICK msg : msg = Head(work_queue[n])  BY Zenon
<1>3. msg \in RequestMsg \cup {Exit}  BY <1>1, <1>2, Popped, Zenon
<1>4. PICK reply : reply = [flag |-> "reply", of |-> msg.flag, to |-> msg.from]  BY Zenon
<1>5. msg # Exit => reply \in ReplyMsg  BY <1>3, <1>4, Zenon DEF RequestMsg, ReplyMsg
<1>6. reply.flag = "reply" /\ reply.of = msg.flag /\ reply.to = msg.from  BY <1>4, Zenon
<1>7. msg \in Msg  BY <1>3, Zenon DEF Msg, DataMsg
<1>8. serving[n] /\ work_queue' = Taken(work_queue, n)
      /\ UNCHANGED <<main, barrier, channel, receiving, sending, helper_queue, helping, awaited, pushed>>
  BY Zenon DEF ServerStep, tasks, Taken
<1>9. \/ /\ msg = Exit
         /\ serving' = [serving EXCEPT ![n] = FALSE] /\ send_queue' = send_queue
      \/ /\ msg # Exit /\ serving' = serving
         /\ send_queue' = IF msg.flag = "kAdd" THEN send_queue ELSE Pushed(send_queue, n, reply)
  BY <1>2, <1>4, Zenon DEF ServerStep
<1> QED  BY <1>1, <1>2, <1>3, <1>5, <1>6, <1>7, <1>8, <1>9, Zenon

\* What WorkerHelperThread::Main does with a message.
LEMMA HelperCases ==
  ASSUME ShutTypes, NEW n \in Node, HelperStep(n)
  PROVE  /\ helping[n] /\ helper_queue[n] # <<>> /\ Head(helper_queue[n]) \in Msg
         /\ Head(helper_queue[n]) \in ReplyMsg \cup {Exit}
         /\ helper_queue' = Taken(helper_queue, n)
         /\ UNCHANGED <<main, barrier, channel, receiving, send_queue, sending, work_queue, serving, pushed>>
         /\ \/ /\ Head(helper_queue[n]) = Exit
               /\ helping' = [helping EXCEPT ![n] = FALSE] /\ awaited' = awaited
            \/ /\ Head(helper_queue[n]) \in ReplyMsg
               /\ helping' = helping
               /\ awaited' = [awaited EXCEPT ![n] = IF Head(helper_queue[n]).of = "kGet" THEN @ - 1 ELSE @]
<1>1. helper_queue[n] \in Seq(ReplyMsg \cup {Exit}) /\ helper_queue[n] # <<>>  BY Zenon DEF ShutTypes, HelperStep
<1>2. Head(helper_queue[n]) \in ReplyMsg \cup {Exit}  BY <1>1, Popped, Zenon
<1> QED  BY <1>1, <1>2, Zenon DEF HelperStep, Taken, Msg, DataMsg

\* Which messages are those of a Get.
LEMMA GetOfKinds ==
  ASSUME NEW k
  PROVE  /\ ~GetOf(Exit, k)
         /\ \A x \in BarrierMsg : ~GetOf(x, k)
         /\ \A x \in RequestMsg : GetOf(x, k) <=> x.flag = "kGet" /\ x.from = k
         /\ \A x \in ReplyMsg : GetOf(x, k) <=> x.of = "kGet" /\ x.to = k
<1>1. "reply" \notin Request  BY MailboxAssumption, Zenon
<1>2. /\ \A x \in RequestMsg : x.flag # "reply"
      /\ \A x \in ReplyMsg : x.flag = "reply"
      /\ \A x \in BarrierMsg : x.flag = "kBarrier"
      /\ Exit.flag = "kExit"
  BY <1>1, Zenon DEF RequestMsg, ReplyMsg, BarrierMsg, Exit
<1>3. "kGet" # "reply" /\ "kGet" # "kBarrier" /\ "kGet" # "kExit" /\ "reply" # "kBarrier" /\ "reply" # "kExit"  BY Zenon
<1> QED  BY <1>2, <1>3, Zenon DEF GetOf

\* Every step moves the message of a Get on, or answers it.
LEMMA NextKeepsCount ==
  ASSUME BarrierInv, ShutTypes, Routed, GetsCounted, [Next]_vars
  PROVE  GetsCounted'
<1> QueueTypes /\ CountTypes  BY Zenon DEF BarrierInv, BarrierPart
<1>1. PICK Q : Q = Queue  BY Zenon
<1>2. Q \in [Loc -> Seq(Msg)]  BY <1>1, QueueIs, Zenon
<1>3. \A k \in Node : awaited[k] \in Nat /\ Counted(Q, k, awaited[k])  BY <1>1, Zenon DEF GetsCounted
<1>4. /\ Shaped(channel, send_queue, work_queue, helper_queue) /\ awaited \in [Node -> Int]
      /\ Moves(channel, send_queue, work_queue, helper_queue)
  BY QueueIs, AllMoved, Zenon DEF ShutTypes
<1>5. /\ \A m, n \in Node : AtChannel(m, n) \in Loc /\ Q[AtChannel(m, n)] = channel[m][n]
      /\ \A n \in Node : AtSend(n) \in Loc /\ Q[AtSend(n)] = send_queue[n]
      /\ \A n \in Node : AtWork(n) \in Loc /\ Q[AtWork(n)] = work_queue[n]
      /\ \A n \in Node : AtHelper(n) \in Loc /\ Q[AtHelper(n)] = helper_queue[n]
  BY <1>1, QueueIs, Zenon
<1>6. Q = Contents(channel, send_queue, work_queue, helper_queue)
      /\ Queue' = Contents(channel', send_queue', work_queue', helper_queue')
  BY <1>1, Zenon DEF Queue
<1>7. ASSUME NEW R, Queue' = R, \A k \in Node : awaited'[k] \in Nat /\ Counted(R, k, awaited'[k])
      PROVE  GetsCounted'
  BY <1>7, Zenon DEF GetsCounted
<1>8. ASSUME NEW l \in Loc, NEW x \in Msg, \A k \in Node : ~GetOf(x, k), Queue' = Push(Q, l, x), awaited' = awaited
      PROVE  GetsCounted'
  <2>1. \A k \in Node : awaited[k] \in Nat /\ Counted(Push(Q, l, x), k, awaited[k])  BY <1>2, <1>3, <1>8, CountPush, Zenon
  <2> QED  BY <1>7, <1>8, <2>1, Zenon
<1>9. ASSUME NEW l \in Loc, NEW msg, Q[l] # <<>>, msg = Head(Q[l]), \A k \in Node : ~GetOf(msg, k),
             Queue' = Pop(Q, l), awaited' = awaited
      PROVE  GetsCounted'
  <2>1. \A k \in Node : awaited[k] \in Nat /\ Counted(Pop(Q, l), k, awaited[k])  BY <1>2, <1>3, <1>9, CountPop, Zenon
  <2> QED  BY <1>7, <1>9, <2>1, Zenon
<1>10. ASSUME NEW l \in Loc, NEW msg, Q[l] # <<>>, msg = Head(Q[l]), NEW j \in Loc, NEW y \in Msg,
              \A k \in Node : GetOf(y, k) <=> GetOf(msg, k), Queue' = Push(Pop(Q, l), j, y), awaited' = awaited
       PROVE  GetsCounted'
  <2>1. \A k \in Node : awaited[k] \in Nat /\ Counted(Push(Pop(Q, l), j, y), k, awaited[k])
    BY <1>2, <1>3, <1>10, CountMove, Zenon
  <2> QED  BY <1>7, <1>10, <2>1, Zenon
<1>11. Exit \in Msg /\ (\A k : ~GetOf(Exit, k)) /\ (\A k : \A x \in BarrierMsg : ~GetOf(x, k))
  BY GetOfKinds, Zenon DEF Msg
<1>12. CASE UNCHANGED <<channel, send_queue, work_queue, helper_queue, awaited>>
  BY <1>3, <1>6, <1>7, <1>12, Zenon
<1>13. ASSUME NEW n \in Node, NEW to \in Node, SendBarrier(n, to)  PROVE GetsCounted'
  <2>1. PICK x : x = [flag |-> "kBarrier", round |-> entered[n]]  BY Zenon
  <2>2. /\ channel' = SentTo(channel, n, to, x)
        /\ UNCHANGED <<send_queue, work_queue, helper_queue, awaited>>
    BY <1>13, <2>1, Zenon DEF SendBarrier, Sent, SentTo, queues, tasks
  <2>3. Queue' = Push(Q, AtChannel(n, to), x)  BY <1>4, <1>6, <2>2, Zenon DEF Moves
  <2>4. x \in Msg /\ \A k \in Node : ~GetOf(x, k)
    <3>1. entered[n] \in Nat  BY Zenon DEF CountTypes
    <3>2. x \in BarrierMsg  BY <2>1, <3>1, Zenon DEF BarrierMsg
    <3> QED  BY <1>11, <3>2, Zenon DEF Msg
  <2> QED  BY <1>5, <1>8, <2>2, <2>3, <2>4, Zenon
<1>14. ASSUME NEW n \in Node, StopReceiving(n)  PROVE GetsCounted'
  <2>1. /\ channel' = SentTo(channel, n, n, Exit)
        /\ UNCHANGED <<send_queue, work_queue, helper_queue, awaited>>
    BY <1>14, Zenon DEF StopReceiving, Sent, SentTo, queues, tasks
  <2>2. Queue' = Push(Q, AtChannel(n, n), Exit)  BY <1>4, <1>6, <2>1, Zenon DEF Moves
  <2> QED  BY <1>5, <1>8, <1>11, <2>1, <2>2, Zenon
<1>15. ASSUME NEW n \in Node, StopSender(n)  PROVE GetsCounted'
  <2>1. /\ send_queue' = Pushed(send_queue, n, Exit)
        /\ UNCHANGED <<channel, work_queue, helper_queue, awaited>>
    BY <1>15, Zenon DEF StopSender, queues, tasks
  <2>2. Queue' = Push(Q, AtSend(n), Exit)  BY <1>4, <1>6, <2>1, Zenon DEF Moves
  <2> QED  BY <1>5, <1>8, <1>11, <2>1, <2>2, Zenon
<1>16. ASSUME NEW n \in Node, StopWorkerThreads(n)  PROVE GetsCounted'
  <2>1. /\ helper_queue' = Pushed(helper_queue, n, Exit)
        /\ UNCHANGED <<channel, send_queue, work_queue, awaited>>
    BY <1>16, Zenon DEF StopWorkerThreads, tasks
  <2>2. Queue' = Push(Q, AtHelper(n), Exit)  BY <1>4, <1>6, <2>1, Zenon DEF Moves
  <2> QED  BY <1>5, <1>8, <1>11, <2>1, <2>2, Zenon
<1>17. ASSUME NEW n \in Node, KillThreads(n)  PROVE GetsCounted'
  <2>1. /\ work_queue' = Pushed(work_queue, n, Exit)
        /\ helper_queue' = Pushed(helper_queue, n, Exit) \/ helper_queue' = helper_queue
        /\ UNCHANGED <<channel, send_queue, awaited>>
    BY <1>17, Zenon DEF KillThreads, tasks
  <2>2. PICK R : R = Push(Q, AtWork(n), Exit)  BY Zenon
  <2>3. Contents(channel, send_queue, work_queue', helper_queue) = R  BY <1>4, <1>6, <2>1, <2>2, Zenon DEF Moves
  <2>4. \A k \in Node : awaited[k] \in Nat /\ Counted(R, k, awaited[k])
    BY <1>2, <1>3, <1>5, <1>11, <2>2, CountPush, Zenon
  <2>5. R \in [Loc -> Seq(Msg)]  BY <1>2, <1>5, <1>11, <2>2, QueueTyped, Zenon
  <2>6. CASE helper_queue' = helper_queue  BY <1>6, <1>7, <2>1, <2>3, <2>4, <2>6, Zenon
  <2>7. CASE helper_queue' = Pushed(helper_queue, n, Exit)
    <3>1. Shaped(channel, send_queue, work_queue', helper_queue)  BY <1>4, <2>1, Zenon DEF Shaped, Pushed
    <3>0. Moves(channel, send_queue, work_queue', helper_queue)  BY <3>1, AllMoved, Zenon
    <3>2. Queue' = Push(R, AtHelper(n), Exit)  BY <1>6, <2>1, <2>3, <2>7, <3>0, Zenon DEF Moves
    <3>3. \A k \in Node : awaited[k] \in Nat /\ Counted(Push(R, AtHelper(n), Exit), k, awaited[k])
      BY <1>5, <1>11, <2>4, <2>5, CountPush, Zenon
    <3> QED  BY <1>7, <2>1, <3>2, <3>3, Zenon
  <2> QED  BY <2>1, <2>6, <2>7, Zenon
<1>18. ASSUME NEW n \in Node, NEW to \in Node, NEW flag \in Request, PushRequest(n, to, flag)  PROVE GetsCounted'
  <2>1. PICK x : x = [flag |-> flag, from |-> n, to |-> to]  BY Zenon
  <2>2. /\ send_queue' = Pushed(send_queue, n, x)
        /\ awaited' = [awaited EXCEPT ![n] = IF flag = "kGet" THEN @ + 1 ELSE @]
        /\ UNCHANGED <<channel, work_queue, helper_queue>>
    BY <1>18, <2>1, Zenon DEF PushRequest, queues
  <2>3. Queue' = Push(Q, AtSend(n), x)  BY <1>4, <1>6, <2>2, Zenon DEF Moves
  <2>4. x \in RequestMsg /\ x.flag = flag /\ x.from = n  BY <2>1, Zenon DEF RequestMsg
  <2>5. x \in Msg  BY <2>4, Zenon DEF Msg, DataMsg
  <2>6. ASSUME NEW k \in Node  PROVE awaited'[k] = IF GetOf(x, k) THEN awaited[k] + 1 ELSE awaited[k]
    <3>1. GetOf(x, k) <=> flag = "kGet" /\ k = n  BY <2>4, GetOfKinds, Zenon
    <3> QED  BY <1>4, <2>2, <3>1, Zenon
  <2>7. ASSUME NEW k \in Node  PROVE awaited'[k] \in Nat /\ Counted(Queue', k, awaited'[k])
    <3>1. awaited'[k] \in Nat  BY <1>3, <2>6
    <3> QED  BY <1>2, <1>3, <1>5, <2>3, <2>5, <2>6, <3>1, CountPush, Zenon
  <2> QED  BY <1>7, <2>7, Zenon
<1>19. ASSUME NEW n \in Node, SenderStep(n)  PROVE GetsCounted'
  <2>1. PICK msg : msg = Head(send_queue[n])  BY Zenon
  <2>2. /\ send_queue[n] # <<>> /\ msg \in Msg
        /\ send_queue' = Taken(send_queue, n)
        /\ UNCHANGED <<work_queue, helper_queue, awaited>>
        /\ \/ msg = Exit /\ channel' = channel
           \/ msg.to \in Node /\ channel' = SentTo(channel, n, msg.to, msg)
    BY <1>19, <2>1, SenderCases, Zenon
  <2>3. PICK R : R = Pop(Q, AtSend(n))  BY Zenon
  <2>4. Contents(channel, send_queue', work_queue, helper_queue) = R  BY <1>4, <1>6, <2>2, <2>3, Zenon DEF Moves
  <2>5. CASE msg = Exit /\ channel' = channel
    <3>1. AtSend(n) \in Loc /\ Q[AtSend(n)] # <<>> /\ msg = Head(Q[AtSend(n)])  BY <1>5, <2>1, <2>2, Zenon
    <3>2. Queue' = Pop(Q, AtSend(n)) /\ awaited' = awaited  BY <1>6, <2>2, <2>3, <2>4, <2>5, Zenon
    <3> QED  BY <1>9, <1>11, <2>5, <3>1, <3>2, Zenon
  <2>6. CASE msg.to \in Node /\ channel' = SentTo(channel, n, msg.to, msg)
    <3>1. Shaped(channel, send_queue', work_queue, helper_queue)  BY <1>4, <2>2, Zenon DEF Shaped, Taken
    <3>0. Moves(channel, send_queue', work_queue, helper_queue)  BY <3>1, AllMoved, Zenon
    <3>5. Contents(SentTo(channel, n, msg.to, msg), send_queue', work_queue, helper_queue)
            = Push(Contents(channel, send_queue', work_queue, helper_queue), AtChannel(n, msg.to), msg)
      BY <2>6, <3>0, Zenon DEF Moves
    <3>2. Queue' = Push(R, AtChannel(n, msg.to), msg)  BY <1>6, <2>2, <2>4, <2>6, <3>5, Zenon
    <3>3. Queue' = Push(Pop(Q, AtSend(n)), AtChannel(n, msg.to), msg)  BY <2>3, <3>2, Zenon
    <3>4. AtSend(n) \in Loc /\ Q[AtSend(n)] # <<>> /\ msg = Head(Q[AtSend(n)]) /\ AtChannel(n, msg.to) \in Loc
      BY <1>5, <2>1, <2>2, <2>6, Zenon
    <3> QED  BY <1>10, <2>2, <3>3, <3>4, Zenon
  <2> QED  BY <2>2, <2>5, <2>6, Zenon
<1>20. ASSUME NEW n \in Node, NEW m \in Node, Receive(n, m)  PROVE GetsCounted'
  <2>1. PICK msg : msg = Head(channel[m][n]) /\ msg = Recv(m, n)  BY Zenon DEF Recv
  <2>2. /\ channel[m][n] # <<>> /\ msg \in Msg
        /\ channel' = TakenFrom(channel, m, n)
        /\ UNCHANGED <<send_queue, awaited>>
        /\ \/ (msg = Exit \/ msg \in BarrierMsg) /\ UNCHANGED <<work_queue, helper_queue>>
           \/ work_queue' = Pushed(work_queue, n, msg) /\ UNCHANGED helper_queue
           \/ helper_queue' = Pushed(helper_queue, n, msg) /\ UNCHANGED work_queue
    BY <1>20, <2>1, ReceiveCases, Zenon
  <2>3. PICK R : R = Pop(Q, AtChannel(m, n))  BY Zenon
  <2>4. Contents(channel', send_queue, work_queue, helper_queue) = R  BY <1>4, <1>6, <2>2, <2>3, Zenon DEF Moves
  <2>5. Moves(channel', send_queue, work_queue, helper_queue)
    <3>1. Shaped(channel', send_queue, work_queue, helper_queue)  BY <1>4, <2>2, Zenon DEF Shaped, TakenFrom
    <3> QED  BY <3>1, AllMoved, Zenon
  <2>9. AtChannel(m, n) \in Loc /\ Q[AtChannel(m, n)] # <<>> /\ msg = Head(Q[AtChannel(m, n)])  BY <1>5, <2>1, <2>2, Zenon
  <2>6. CASE (msg = Exit \/ msg \in BarrierMsg) /\ UNCHANGED <<work_queue, helper_queue>>
    <3>1. Queue' = Pop(Q, AtChannel(m, n)) /\ awaited' = awaited  BY <1>6, <2>2, <2>3, <2>4, <2>6, Zenon
    <3> QED  BY <1>9, <1>11, <2>6, <2>9, <3>1, Zenon
  <2>7. CASE work_queue' = Pushed(work_queue, n, msg) /\ UNCHANGED helper_queue
    <3>2. Queue' = Push(R, AtWork(n), msg)  BY <1>6, <2>2, <2>4, <2>5, <2>7, Zenon DEF Moves
    <3>3. Queue' = Push(Pop(Q, AtChannel(m, n)), AtWork(n), msg)  BY <2>3, <3>2, Zenon
    <3> QED  BY <1>5, <1>10, <2>2, <2>9, <3>3, Zenon
  <2>8. CASE helper_queue' = Pushed(helper_queue, n, msg) /\ UNCHANGED work_queue
    <3>2. Queue' = Push(R, AtHelper(n), msg)  BY <1>6, <2>2, <2>4, <2>5, <2>8, Zenon DEF Moves
    <3>3. Queue' = Push(Pop(Q, AtChannel(m, n)), AtHelper(n), msg)  BY <2>3, <3>2, Zenon
    <3> QED  BY <1>5, <1>10, <2>2, <2>9, <3>3, Zenon
  <2> QED  BY <2>2, <2>6, <2>7, <2>8, Zenon
<1>21. ASSUME NEW n \in Node, ServerStep(n)  PROVE GetsCounted'
  <2>1. PICK msg, reply :
          /\ serving[n] /\ work_queue[n] # <<>> /\ msg = Head(work_queue[n]) /\ msg \in Msg
          /\ work_queue' = Taken(work_queue, n)
          /\ UNCHANGED <<channel, helper_queue, awaited>>
          /\ \/ msg = Exit /\ send_queue' = send_queue
             \/ msg \in RequestMsg /\ msg.flag = "kAdd" /\ send_queue' = send_queue
             \/ /\ msg \in RequestMsg
                /\ reply \in ReplyMsg /\ reply.flag = "reply" /\ reply.of = msg.flag /\ reply.to = msg.from
                /\ send_queue' = Pushed(send_queue, n, reply)
    BY <1>21, ServerCases, SMT DEF barrier
  <2>2. PICK R : R = Pop(Q, AtWork(n))  BY Zenon
  <2>3. Contents(channel, send_queue, work_queue', helper_queue) = R  BY <1>4, <1>6, <2>1, <2>2, Zenon DEF Moves
  <2>8. AtWork(n) \in Loc /\ Q[AtWork(n)] # <<>> /\ msg = Head(Q[AtWork(n)])  BY <1>5, <2>1, Zenon
  <2>4. ASSUME send_queue' = send_queue, \A k \in Node : ~GetOf(msg, k)  PROVE GetsCounted'
    <3>1. Queue' = Pop(Q, AtWork(n)) /\ awaited' = awaited  BY <1>6, <2>1, <2>2, <2>3, <2>4, Zenon
    <3> QED  BY <1>9, <2>4, <2>8, <3>1, Zenon
  <2>5. CASE /\ msg \in RequestMsg
             /\ reply \in ReplyMsg /\ reply.flag = "reply" /\ reply.of = msg.flag /\ reply.to = msg.from
             /\ send_queue' = Pushed(send_queue, n, reply)
    <3>2. Shaped(channel, send_queue, work_queue', helper_queue)  BY <1>4, <2>1, Zenon DEF Shaped, Taken
    <3>1. Moves(channel, send_queue, work_queue', helper_queue)  BY <3>2, AllMoved, Zenon
    <3>3. Queue' = Push(R, AtSend(n), reply)  BY <1>6, <2>1, <2>3, <2>5, <3>1, Zenon DEF Moves
    <3>4. Queue' = Push(Pop(Q, AtWork(n)), AtSend(n), reply)  BY <2>2, <3>3, Zenon
    <3>5. \A k \in Node : GetOf(reply, k) <=> GetOf(msg, k)  BY <2>5, GetOfKinds, Zenon
    <3>6. reply \in Msg  BY <2>5, Zenon DEF Msg, DataMsg
    <3> QED  BY <1>5, <1>10, <2>1, <2>8, <3>4, <3>5, <3>6, Zenon
  <2>6. CASE send_queue' = send_queue /\ msg = Exit
    <3>1. \A k \in Node : ~GetOf(msg, k)  BY <1>11, <2>6, Zenon
    <3> QED  BY <2>4, <2>6, <3>1, Zenon
  <2>7. CASE send_queue' = send_queue /\ msg \in RequestMsg /\ msg.flag = "kAdd"
    <3>1. "kAdd" # "kGet"  BY Zenon
    <3>2. \A k \in Node : ~GetOf(msg, k)  BY <2>7, <3>1, GetOfKinds, Zenon
    <3> QED  BY <2>4, <2>7, <3>2, Zenon
  <2> QED  BY <2>1, <2>5, <2>6, <2>7, Zenon
<1>22. ASSUME NEW n \in Node, HelperStep(n)  PROVE GetsCounted'
  <2>1. PICK msg : msg = Head(helper_queue[n])  BY Zenon
  <2>2. /\ helper_queue[n] # <<>>
        /\ helper_queue' = Taken(helper_queue, n)
        /\ UNCHANGED <<channel, send_queue, work_queue>>
        /\ \/ msg = Exit /\ awaited' = awaited
           \/ /\ msg \in ReplyMsg
              /\ awaited' = [awaited EXCEPT ![n] = IF msg.of = "kGet" THEN @ - 1 ELSE @]
    BY <1>22, <2>1, HelperCases, Zenon
  <2>3. Queue' = Pop(Q, AtHelper(n))  BY <1>4, <1>6, <2>2, Zenon DEF Moves
  <2>4. CASE msg = Exit /\ awaited' = awaited
    <3>1. AtHelper(n) \in Loc /\ Q[AtHelper(n)] # <<>> /\ msg = Head(Q[AtHelper(n)])  BY <1>5, <2>1, <2>2, Zenon
    <3> QED  BY <1>9, <1>11, <2>3, <2>4, <3>1, Zenon
  <2>5. CASE /\ msg \in ReplyMsg
             /\ awaited' = [awaited EXCEPT ![n] = IF msg.of = "kGet" THEN @ - 1 ELSE @]
    <3>1. msg \in Elems(helper_queue[n])
      <4>1. helper_queue[n] \in Seq(ReplyMsg \cup {Exit})  BY Zenon DEF ShutTypes
      <4> QED  BY <2>1, <2>2, <4>1, ElemsPopped, Zenon
    <3>2. msg.to = n
      <4>1. msg # Exit  BY <2>5, FlagOf, Zenon DEF Msg, DataMsg
      <4> QED  BY <3>1, <4>1, Zenon DEF Routed
    <3>3. ASSUME NEW k \in Node  PROVE awaited'[k] = IF GetOf(msg, k) THEN awaited[k] - 1 ELSE awaited[k]
      <4>1. GetOf(msg, k) <=> msg.of = "kGet" /\ k = n  BY <2>5, <3>2, GetOfKinds, Zenon
      <4> QED  BY <1>4, <2>5, <4>1, Zenon
    <3>4. ASSUME NEW k \in Node  PROVE awaited'[k] \in Nat /\ Counted(Queue', k, awaited'[k])
      <4>1. /\ Counted(Pop(Q, AtHelper(n)), k, IF GetOf(msg, k) THEN awaited[k] - 1 ELSE awaited[k])
            /\ GetOf(msg, k) => awaited[k] - 1 \in Nat
        BY <1>2, <1>3, <1>5, <2>1, <2>2, CountPop, Zenon
      <4> QED  BY <1>3, <2>3, <3>3, <4>1, Zenon
    <3> QED  BY <1>7, <3>4, Zenon
  <2> QED  BY <2>2, <2>4, <2>5, Zenon
<1>23. ASSUME NEW n \in Node,
              \/ EnterBarrier(n) \/ StartWaiting(n) \/ Sleep(n) \/ WakeSpuriously(n) \/ PassBarrier(n)
              \/ JoinSender(n) \/ JoinReceiver(n) \/ Linger(n) \/ JoinServer(n) \/ JoinHelper(n)
       PROVE  UNCHANGED <<channel, send_queue, work_queue, helper_queue, awaited>>
  BY <1>23, Zenon DEF EnterBarrier, StartWaiting, Sleep, WakeSpuriously, PassBarrier, JoinSender, JoinReceiver, Linger,
                      JoinServer, JoinHelper, queues, tasks
<1>24. CASE UNCHANGED vars  BY <1>12, <1>24, Zenon DEF vars
<1> QED  BY <1>12, <1>13, <1>14, <1>15, <1>16, <1>17, <1>18, <1>19, <1>20, <1>21, <1>22, <1>23, <1>24, Zenon
         DEF Next, MainStep, InBarrier, Stopping, ReceiverStep

-----------------------------------------------------------------------------
(* What a step does to the contents of the queues.                         *)

Queues(q, S) == q \in [Node -> Seq(S)]

\* A push to the queue of one node.
LEMMA PushedQueue ==
  ASSUME NEW S, NEW q, Queues(q, S), NEW n \in Node, NEW x \in S, NEW p, p = Pushed(q, n, x)
  PROVE  /\ Queues(p, S) /\ p[n] = Append(q[n], x) /\ Elems(p[n]) = Elems(q[n]) \cup {x}
         /\ \A k \in Node : k # n => p[k] = q[k]
<1>1. q[n] \in Seq(S)  BY Zenon DEF Queues
<1>2. Append(q[n], x) \in Seq(S) /\ Elems(Append(q[n], x)) = Elems(q[n]) \cup {x}  BY <1>1, Appended, ElemsPushed
<1> QED  BY <1>2, Zenon DEF Queues, Pushed

\* A pop from the queue of one node.
LEMMA TakenQueue ==
  ASSUME NEW S, NEW q, Queues(q, S), NEW n \in Node, q[n] # <<>>, NEW p, p = Taken(q, n)
  PROVE  /\ Queues(p, S) /\ p[n] = Tail(q[n]) /\ Elems(q[n]) = Elems(p[n]) \cup {Head(q[n])}
         /\ \A k \in Node : k # n => p[k] = q[k]
<1>1. q[n] \in Seq(S)  BY Zenon DEF Queues
<1>2. Tail(q[n]) \in Seq(S) /\ Elems(q[n]) = Elems(Tail(q[n])) \cup {Head(q[n])}  BY <1>1, Popped, ElemsPopped, Zenon
<1> QED  BY <1>2, Zenon DEF Queues, Taken

\* A push to the queue of a sender.
LEMMA SendPushed ==
  ASSUME QueueTypes, NEW n \in Node, NEW x, x \in DataMsg \cup {Exit}, send_queue' = Pushed(send_queue, n, x)
  PROVE  /\ send_queue'[n] = Append(send_queue[n], x) /\ Elems(send_queue'[n]) = Elems(send_queue[n]) \cup {x}
         /\ \A k \in Node : k # n => send_queue'[k] = send_queue[k]
<1>1. send_queue[n] \in Seq(DataMsg \cup {Exit}) /\ send_queue \in [Node -> Seq(DataMsg \cup {Exit})]  BY Zenon DEF QueueTypes
<1>2. Elems(Append(send_queue[n], x)) = Elems(send_queue[n]) \cup {x}  BY <1>1, ElemsPushed
<1> QED  BY <1>1, <1>2, Zenon DEF Pushed

\* A pop from the queue of a sender.
LEMMA SendTaken ==
  ASSUME QueueTypes, NEW n \in Node, send_queue[n] # <<>>, send_queue' = Taken(send_queue, n)
  PROVE  /\ send_queue'[n] = Tail(send_queue[n]) /\ Elems(send_queue[n]) = Elems(send_queue'[n]) \cup {Head(send_queue[n])}
         /\ \A k \in Node : k # n => send_queue'[k] = send_queue[k]
<1>1. send_queue[n] \in Seq(DataMsg \cup {Exit}) /\ send_queue \in [Node -> Seq(DataMsg \cup {Exit})]  BY Zenon DEF QueueTypes
<1>2. Elems(send_queue[n]) = Elems(Tail(send_queue[n])) \cup {Head(send_queue[n])}  BY <1>1, ElemsPopped, Zenon
<1> QED  BY <1>1, <1>2, Zenon DEF Taken

\* A push to the queue of a server thread.
LEMMA WorkPushed ==
  ASSUME QueueTypes, NEW n \in Node, NEW x, x \in RequestMsg \cup {Exit}, work_queue' = Pushed(work_queue, n, x)
  PROVE  /\ work_queue'[n] = Append(work_queue[n], x) /\ Elems(work_queue'[n]) = Elems(work_queue[n]) \cup {x}
         /\ \A k \in Node : k # n => work_queue'[k] = work_queue[k]
<1>1. work_queue[n] \in Seq(RequestMsg \cup {Exit}) /\ work_queue \in [Node -> Seq(RequestMsg \cup {Exit})]  BY Zenon DEF QueueTypes
<1>2. Elems(Append(work_queue[n], x)) = Elems(work_queue[n]) \cup {x}  BY <1>1, ElemsPushed
<1> QED  BY <1>1, <1>2, Zenon DEF Pushed

\* A pop from the queue of a server thread.
LEMMA WorkTaken ==
  ASSUME QueueTypes, NEW n \in Node, work_queue[n] # <<>>, work_queue' = Taken(work_queue, n)
  PROVE  /\ work_queue'[n] = Tail(work_queue[n]) /\ Elems(work_queue[n]) = Elems(work_queue'[n]) \cup {Head(work_queue[n])}
         /\ \A k \in Node : k # n => work_queue'[k] = work_queue[k]
<1>1. work_queue[n] \in Seq(RequestMsg \cup {Exit}) /\ work_queue \in [Node -> Seq(RequestMsg \cup {Exit})]  BY Zenon DEF QueueTypes
<1>2. Elems(work_queue[n]) = Elems(Tail(work_queue[n])) \cup {Head(work_queue[n])}  BY <1>1, ElemsPopped, Zenon
<1> QED  BY <1>1, <1>2, Zenon DEF Taken

\* A push to the queue of a helper thread.
LEMMA HelperPushed ==
  ASSUME ShutTypes, NEW n \in Node, NEW x, x \in ReplyMsg \cup {Exit}, helper_queue' = Pushed(helper_queue, n, x)
  PROVE  /\ helper_queue'[n] = Append(helper_queue[n], x) /\ Elems(helper_queue'[n]) = Elems(helper_queue[n]) \cup {x}
         /\ \A k \in Node : k # n => helper_queue'[k] = helper_queue[k]
<1>1. helper_queue[n] \in Seq(ReplyMsg \cup {Exit}) /\ helper_queue \in [Node -> Seq(ReplyMsg \cup {Exit})]  BY Zenon DEF ShutTypes
<1>2. Elems(Append(helper_queue[n], x)) = Elems(helper_queue[n]) \cup {x}  BY <1>1, ElemsPushed
<1> QED  BY <1>1, <1>2, Zenon DEF Pushed

\* A pop from the queue of a helper thread.
LEMMA HelperTaken ==
  ASSUME ShutTypes, NEW n \in Node, helper_queue[n] # <<>>, helper_queue' = Taken(helper_queue, n)
  PROVE  /\ helper_queue'[n] = Tail(helper_queue[n]) /\ Elems(helper_queue[n]) = Elems(helper_queue'[n]) \cup {Head(helper_queue[n])}
         /\ \A k \in Node : k # n => helper_queue'[k] = helper_queue[k]
<1>1. helper_queue[n] \in Seq(ReplyMsg \cup {Exit}) /\ helper_queue \in [Node -> Seq(ReplyMsg \cup {Exit})]  BY Zenon DEF ShutTypes
<1>2. Elems(helper_queue[n]) = Elems(Tail(helper_queue[n])) \cup {Head(helper_queue[n])}  BY <1>1, ElemsPopped, Zenon
<1> QED  BY <1>1, <1>2, Zenon DEF Taken

\* A message is sent to a channel.
LEMMA SentChannel ==
  ASSUME QueueTypes, NEW m \in Node, NEW n \in Node, NEW x \in Msg, channel' = SentTo(channel, m, n, x)
  PROVE  /\ channel'[m][n] = Append(channel[m][n], x) /\ Elems(channel'[m][n]) = Elems(channel[m][n]) \cup {x}
         /\ channel[m][n] \in Seq(Msg)
         /\ \A a, b \in Node : a # m \/ b # n => channel'[a][b] = channel[a][b]
<1>1. channel[m][n] \in Seq(Msg)  BY Zenon DEF QueueTypes
<1>2. Elems(Append(channel[m][n], x)) = Elems(channel[m][n]) \cup {x}  BY <1>1, ElemsPushed
<1>3. channel'[m][n] = Append(channel[m][n], x)  BY Zenon DEF SentTo, QueueTypes
<1>4. \A a, b \in Node : a # m \/ b # n => channel'[a][b] = channel[a][b]  BY Zenon DEF SentTo, QueueTypes
<1> QED  BY <1>1, <1>2, <1>3, <1>4, Zenon

\* A message is received from a channel.
LEMMA TakenChannel ==
  ASSUME QueueTypes, NEW m \in Node, NEW n \in Node, channel[m][n] # <<>>, channel' = TakenFrom(channel, m, n)
  PROVE  /\ channel'[m][n] = Tail(channel[m][n])
         /\ Elems(channel[m][n]) = Elems(channel'[m][n]) \cup {Recv(m, n)}
         /\ channel[m][n] \in Seq(Msg)
         /\ \A a, b \in Node : a # m \/ b # n => channel'[a][b] = channel[a][b]
<1>1. channel[m][n] \in Seq(Msg)  BY Zenon DEF QueueTypes
<1>2. Elems(channel[m][n]) = Elems(Tail(channel[m][n])) \cup {Recv(m, n)}  BY <1>1, ElemsPopped, Zenon DEF Recv
<1>3. channel'[m][n] = Tail(channel[m][n])  BY Zenon DEF TakenFrom, QueueTypes
<1>4. \A a, b \in Node : a # m \/ b # n => channel'[a][b] = channel[a][b]  BY Zenon DEF TakenFrom, QueueTypes
<1> QED  BY <1>1, <1>2, <1>3, <1>4, Zenon

\* Types are kept.
LEMMA NextKeepsTypes ==
  ASSUME QueueTypes, ShutTypes, [Next]_vars
  PROVE  ShutTypes'
<1>1. CASE UNCHANGED <<helper_queue, awaited, receiving, sending, serving, helping>>  BY <1>1, Zenon DEF ShutTypes
<1>2. ASSUME NEW n \in Node, NEW p, NEW x \in ReplyMsg \cup {Exit}, p = Pushed(helper_queue, n, x)
      PROVE  p \in [Node -> Seq(ReplyMsg \cup {Exit})]
  <2>1. Queues(helper_queue, ReplyMsg \cup {Exit})  BY Zenon DEF ShutTypes, Queues
  <2>2. Queues(p, ReplyMsg \cup {Exit})  BY <1>2, <2>1, PushedQueue, Zenon
  <2> QED  BY <2>2, Zenon DEF Queues
<1>3. ASSUME NEW n \in Node, KillThreads(n) \/ StopWorkerThreads(n)  PROVE ShutTypes'
  <2>1. helper_queue' = Pushed(helper_queue, n, Exit) \/ helper_queue' = helper_queue
    BY <1>3, Zenon DEF KillThreads, StopWorkerThreads
  <2>2. helper_queue' \in [Node -> Seq(ReplyMsg \cup {Exit})]  BY <1>2, <2>1, Zenon DEF ShutTypes
  <2>3. UNCHANGED <<awaited, receiving, sending, serving, helping>>
    BY <1>3, Zenon DEF KillThreads, StopWorkerThreads, threads, tasks
  <2> QED  BY <2>2, <2>3, Zenon DEF ShutTypes
<1>4. ASSUME NEW n \in Node, SenderStep(n)  PROVE ShutTypes'
  BY <1>4, SenderCases, Zenon DEF ShutTypes
<1>5. ASSUME NEW n \in Node, NEW m \in Node, Receive(n, m)  PROVE ShutTypes'
  <2>1. UNCHANGED <<sending, serving, helping, awaited>>  BY <1>5, ReceiveCases, Zenon
  <2>2. receiving' \in [Node -> BOOLEAN]  BY <1>5, ReceiveCases, Zenon DEF ShutTypes
  <2>3. helper_queue' \in [Node -> Seq(ReplyMsg \cup {Exit})]
    <3>1. helper_queue' = helper_queue \/ (Recv(m, n) \in ReplyMsg /\ helper_queue' = Pushed(helper_queue, n, Recv(m, n)))
      BY <1>5, ReceiveHelper, Zenon
    <3> QED  BY <1>2, <3>1, Zenon DEF ShutTypes
  <2> QED  BY <2>1, <2>2, <2>3, Zenon DEF ShutTypes
<1>6. ASSUME NEW n \in Node, ServerStep(n)  PROVE ShutTypes'
  <2>1. UNCHANGED <<receiving, sending, helper_queue, helping, awaited>>  BY <1>6, Zenon DEF ServerStep, tasks
  <2>2. serving' \in [Node -> BOOLEAN]  BY <1>6, Zenon DEF ServerStep, ShutTypes
  <2> QED  BY <2>1, <2>2, Zenon DEF ShutTypes
<1>7. ASSUME NEW n \in Node, HelperStep(n)  PROVE ShutTypes'
  <2>1. /\ helper_queue[n] # <<>> /\ helper_queue' = Taken(helper_queue, n)
        /\ UNCHANGED <<receiving, sending, serving>>
        /\ helping' \in [Node -> BOOLEAN]
        /\ awaited' = awaited \/ awaited' = [awaited EXCEPT ![n] = @ - 1] \/ awaited' = [awaited EXCEPT ![n] = @]
    BY <1>7, HelperCases, Zenon DEF ShutTypes
  <2>2. helper_queue' \in [Node -> Seq(ReplyMsg \cup {Exit})]  
    <3>1. Queues(helper_queue, ReplyMsg \cup {Exit})  BY Zenon DEF ShutTypes, Queues
    <3>2. Queues(helper_queue', ReplyMsg \cup {Exit})  BY <2>1, <3>1, TakenQueue, Zenon
    <3> QED  BY <3>2, Zenon DEF Queues
  <2>3. awaited' \in [Node -> Int]
    <3>1. awaited[n] - 1 \in Int  BY DEF ShutTypes
    <3> QED  BY <2>1, <3>1, Zenon DEF ShutTypes
  <2> QED  BY <2>1, <2>2, <2>3, Zenon DEF ShutTypes
<1>8. ASSUME NEW n \in Node, NEW to \in Node, NEW flag \in Request, PushRequest(n, to, flag)  PROVE ShutTypes'
  <2>1. awaited[n] + 1 \in Int  BY DEF ShutTypes
  <2> QED  BY <1>8, <2>1, Zenon DEF PushRequest, ShutTypes, threads, queues
<1>9. ASSUME NEW n \in Node,
             \/ EnterBarrier(n) \/ (\E to \in Node : SendBarrier(n, to)) \/ StartWaiting(n) \/ Sleep(n)
             \/ WakeSpuriously(n) \/ PassBarrier(n) \/ StopSender(n) \/ JoinSender(n) \/ StopReceiving(n)
             \/ JoinReceiver(n) \/ Linger(n) \/ JoinServer(n) \/ JoinHelper(n)
      PROVE  UNCHANGED <<helper_queue, awaited, receiving, sending, serving, helping>>
  BY <1>9, Zenon DEF EnterBarrier, SendBarrier, StartWaiting, Sleep, WakeSpuriously, PassBarrier, StopSender, JoinSender,
                     StopReceiving, JoinReceiver, Linger, JoinServer, JoinHelper, threads, queues, tasks
<1>10. CASE UNCHANGED vars  BY <1>1, <1>10, Zenon DEF vars
<1> QED  BY <1>1, <1>3, <1>4, <1>5, <1>6, <1>7, <1>8, <1>9, <1>10, Zenon
         DEF Next, MainStep, InBarrier, Stopping, ReceiverStep

\* Data is sent and handed on to the node it names.
LEMMA NextKeepsRouted ==
  ASSUME BarrierInv, ShutTypes, Routed, [Next]_vars
  PROVE  Routed'
<1> QueueTypes /\ CountTypes  BY Zenon DEF BarrierInv, BarrierPart
<1>1. CASE UNCHANGED <<channel, helper_queue>>  BY <1>1, Zenon DEF Routed
<1>2. ASSUME \A m, n \in Node : \A x \in Elems(channel'[m][n]) : x \in Elems(channel[m][n]) \/ (x \in DataMsg => x.to = n),
             \A n \in Node : \A x \in Elems(helper_queue'[n]) : x \in Elems(helper_queue[n]) \/ x = Exit \/ x.to = n
      PROVE  Routed'
  <2>1. ASSUME NEW m \in Node, NEW n \in Node, NEW x \in Elems(channel'[m][n]), x \in DataMsg  PROVE x.to = n
    <3>1. x \in Elems(channel[m][n]) \/ x.to = n  BY <1>2, <2>1, Zenon
    <3> QED  BY <2>1, <3>1, Zenon DEF Routed
  <2>2. ASSUME NEW n \in Node, NEW x \in Elems(helper_queue'[n]), x # Exit  PROVE x.to = n
    BY <1>2, <2>2, Zenon DEF Routed
  <2> QED  BY <2>1, <2>2, Zenon DEF Routed
<1>4. ASSUME NEW n \in Node, KillThreads(n) \/ StopWorkerThreads(n)  PROVE Routed'
  <2>1. /\ helper_queue' = Pushed(helper_queue, n, Exit) \/ helper_queue' = helper_queue
        /\ channel' = channel
    BY <1>4, Zenon DEF KillThreads, StopWorkerThreads
  <2>2. CASE helper_queue' = Pushed(helper_queue, n, Exit)
    <3>1. Exit \in ReplyMsg \cup {Exit}  BY Zenon
    <3>2. /\ Elems(helper_queue'[n]) = Elems(helper_queue[n]) \cup {Exit}
          /\ \A k \in Node : k # n => helper_queue'[k] = helper_queue[k]
      BY <2>2, <3>1, HelperPushed, Zenon
    <3> QED  BY <1>2, <2>1, <3>2, Zenon
  <2> QED  BY <1>1, <2>1, <2>2, Zenon
<1>5. ASSUME NEW n \in Node, NEW to \in Node, NEW x \in Msg, x \in DataMsg => x.to = to,
             channel' = SentTo(channel, n, to, x), UNCHANGED helper_queue
      PROVE  Routed'
  <2>1. /\ channel'[n][to] = Append(channel[n][to], x) /\ Elems(channel'[n][to]) = Elems(channel[n][to]) \cup {x}
        /\ channel[n][to] \in Seq(Msg)
        /\ \A a, b \in Node : a # n \/ b # to => channel'[a][b] = channel[a][b]
    <3>1. x \in Msg /\ channel' = SentTo(channel, n, to, x)  BY <1>5, Zenon
    <3> QED  BY <3>1, SentChannel, Zenon
  <2> QED  BY <1>2, <1>5, <2>1, Zenon
<1>6. Exit \in Msg /\ Exit \notin DataMsg /\ \A x \in BarrierMsg : x \in Msg /\ x \notin DataMsg  BY NoData, Zenon
<1>7. ASSUME NEW n \in Node, NEW to \in Node, SendBarrier(n, to)  PROVE Routed'
  <2>1. PICK x : x = [flag |-> "kBarrier", round |-> entered[n]]  BY Zenon
  <2>2. channel' = SentTo(channel, n, to, x) /\ UNCHANGED helper_queue
    BY <1>7, <2>1, Zenon DEF SendBarrier, Sent, SentTo, queues
  <2>3. entered[n] \in Nat  BY Zenon DEF CountTypes
  <2>4. x \in BarrierMsg  BY <2>1, <2>3, Zenon DEF BarrierMsg
  <2> QED  BY <1>5, <1>6, <2>2, <2>4, Zenon
<1>8. ASSUME NEW n \in Node, StopReceiving(n)  PROVE Routed'
  <2>1. channel' = SentTo(channel, n, n, Exit) /\ UNCHANGED helper_queue
    BY <1>8, Zenon DEF StopReceiving, Sent, SentTo, queues
  <2> QED  BY <1>5, <1>6, <2>1, Zenon
<1>9. ASSUME NEW n \in Node, SenderStep(n)  PROVE Routed'
  <2>1. PICK x : x = Head(send_queue[n])  BY Zenon
  <2>2. /\ x \in Msg /\ UNCHANGED helper_queue
        /\ channel' = channel \/ (x.to \in Node /\ channel' = SentTo(channel, n, x.to, x))
    BY <1>9, <2>1, SenderCases, Zenon
  <2> QED  BY <1>1, <1>5, <2>2, Zenon
<1>10. ASSUME NEW n \in Node, NEW m \in Node, Receive(n, m)  PROVE Routed'
  <2>1. /\ channel[m][n] # <<>> /\ channel' = TakenFrom(channel, m, n)
        /\ helper_queue' = helper_queue \/ (Recv(m, n) \in ReplyMsg /\ helper_queue' = Pushed(helper_queue, n, Recv(m, n)))
    BY <1>10, ReceiveCases, ReceiveHelper, Zenon
  <2>2. /\ Elems(channel[m][n]) = Elems(channel'[m][n]) \cup {Recv(m, n)}
        /\ \A a, b \in Node : a # m \/ b # n => channel'[a][b] = channel[a][b]
    BY <2>1, TakenChannel, Zenon
  <2>3. \A a, b \in Node : \A x \in Elems(channel'[a][b]) : x \in Elems(channel[a][b])  BY <2>2, Zenon
  <2>4. CASE helper_queue' = helper_queue  BY <1>2, <2>3, <2>4, Zenon
  <2>5. CASE Recv(m, n) \in ReplyMsg /\ helper_queue' = Pushed(helper_queue, n, Recv(m, n))
    <3>1. Recv(m, n).to = n
      <4>1. Recv(m, n) \in DataMsg /\ Recv(m, n) \in Elems(channel[m][n])  BY <2>2, <2>5, Zenon DEF DataMsg
      <4> QED  BY <4>1, Zenon DEF Routed
    <3>2. Recv(m, n) \in ReplyMsg \cup {Exit}  BY <2>5, Zenon
    <3>3. /\ Elems(helper_queue'[n]) = Elems(helper_queue[n]) \cup {Recv(m, n)}
          /\ \A k \in Node : k # n => helper_queue'[k] = helper_queue[k]
      BY <2>5, <3>2, HelperPushed, Zenon
    <3> QED  BY <1>2, <2>3, <3>1, <3>3, Zenon
  <2> QED  BY <2>1, <2>4, <2>5, Zenon
<1>11. ASSUME NEW n \in Node, HelperStep(n)  PROVE Routed'
  <2>1. helper_queue[n] # <<>> /\ helper_queue' = Taken(helper_queue, n) /\ channel' = channel
    BY <1>11, HelperCases, Zenon
  <2>2. /\ Elems(helper_queue[n]) = Elems(helper_queue'[n]) \cup {Head(helper_queue[n])}
        /\ \A k \in Node : k # n => helper_queue'[k] = helper_queue[k]
    BY <2>1, HelperTaken, Zenon
  <2> QED  BY <1>2, <2>1, <2>2, Zenon
<1>12. ASSUME NEW n \in Node,
             \/ EnterBarrier(n) \/ StartWaiting(n) \/ Sleep(n) \/ WakeSpuriously(n) \/ PassBarrier(n) \/ StopSender(n)
             \/ JoinSender(n) \/ JoinReceiver(n) \/ Linger(n) \/ JoinServer(n) \/ JoinHelper(n)
             \/ (\E to \in Node, flag \in Request : PushRequest(n, to, flag)) \/ ServerStep(n)
      PROVE  UNCHANGED <<channel, helper_queue>>
  BY <1>12, Zenon DEF EnterBarrier, StartWaiting, Sleep, WakeSpuriously, PassBarrier, StopSender, JoinSender,
                      JoinReceiver, Linger, JoinServer, JoinHelper, PushRequest, ServerStep, queues
<1>13. CASE UNCHANGED vars  BY <1>1, <1>13, Zenon DEF vars
<1> QED  BY <1>1, <1>4, <1>7, <1>8, <1>9, <1>10, <1>11, <1>12, <1>13, Zenon
         DEF Next, MainStep, InBarrier, Stopping, ReceiverStep

-----------------------------------------------------------------------------
(* The threads of one node.                                                *)

SameThreads(k) ==
  /\ receiving'[k] = receiving[k] /\ sending'[k] = sending[k] /\ serving'[k] = serving[k] /\ helping'[k] = helping[k]

SameQueues(k) ==
  send_queue'[k] = send_queue[k] /\ work_queue'[k] = work_queue[k] /\ helper_queue'[k] = helper_queue[k]

SameMain(k) ==
  main'[k] = main[k] /\ bar'[k] = bar[k] /\ entered'[k] = entered[k] /\ awaited'[k] = awaited[k]

\* A step leaves the other nodes as they are.
LEMMA SameNode ==
  ASSUME NEW k \in Node, NodeRight(k), SameThreads(k), SameQueues(k), SameMain(k)
  PROVE  NodeRight(k)'
<1> USE DEF SameThreads, SameQueues, SameMain
<1>1. StageRight(k)'  BY Zenon DEF NodeRight, StageRight
<1>2. SenderRight(k)'  BY Zenon DEF NodeRight, SenderRight, NoneAfterExit, Elems
<1>3. ServerRight(k)'  BY Zenon DEF NodeRight, ServerRight, OnlyLast, Elems
<1>4. HelperRight(k)'  BY Zenon DEF NodeRight, HelperRight, Elems
<1> QED  BY <1>1, <1>2, <1>3, <1>4, Zenon DEF NodeRight

\* StopEverything goes on and leaves the threads alone.
LEMMA MovedOn ==
  ASSUME NEW k \in Node, NodeRight(k), SameThreads(k), SameQueues(k),
         main'[k] \in Working => main[k] \in Working, main[k] \in Killed => main'[k] \in Killed
  PROVE  SenderRight(k)' /\ ServerRight(k)' /\ HelperRight(k)'
<1> USE DEF SameThreads, SameQueues
<1>1. SenderRight(k)'  BY Zenon DEF NodeRight, SenderRight, NoneAfterExit, Elems
<1>2. ServerRight(k)'  BY Zenon DEF NodeRight, ServerRight, OnlyLast, Elems
<1>3. HelperRight(k)'  BY Zenon DEF NodeRight, HelperRight, Elems
<1> QED  BY <1>1, <1>2, <1>3, Zenon

\* Mailbox::Barrier is entered from the three places that call it.
LEMMA EnterBarrierKeepsNodes ==
  ASSUME ShutInv, NEW n \in Node, EnterBarrier(n)
  PROVE  \A k \in Node : NodeRight(k)'
<1> QueueTypes /\ CountTypes /\ ShutTypes /\ \A k \in Node : NodeRight(k)
  BY Zenon DEF ShutInv, BarrierInv, BarrierPart
<1>1. /\ \A k \in Node : SameThreads(k) /\ SameQueues(k)
      /\ \A k \in Node : k # n => SameMain(k)
      /\ entered'[n] = entered[n] + 1 /\ awaited'[n] = awaited[n]
      /\ receiving'[n] = receiving[n] /\ sending'[n] = sending[n]
  BY Zenon DEF EnterBarrier, SameThreads, SameQueues, SameMain, threads, queues, tasks, QueueTypes, CountTypes
<1>2. entered[n] \in Nat /\ NumBarriers \in Nat  BY MailboxAssumption, Zenon DEF CountTypes
<1>3. CASE main[n] = "app" /\ awaited[n] = 0 /\ entered[n] < NumBarriers /\ main'[n] = "app"
  <2>1. entered'[n] <= NumBarriers  BY <1>1, <1>2, <1>3
  <2>2. StageRight(n)'  BY <1>1, <1>3, <2>1, Zenon DEF StageRight, NodeRight, Ended, Killed
  <2>3. SenderRight(n)' /\ ServerRight(n)' /\ HelperRight(n)'  BY <1>1, <1>3, MovedOn, Zenon DEF Working, Killed
  <2> QED  BY <1>1, <2>2, <2>3, SameNode, Zenon DEF NodeRight
<1>4. CASE main[n] = "app" /\ awaited[n] = 0 /\ ~(entered[n] < NumBarriers) /\ main'[n] = "StopSender"
  <2>1. entered[n] <= NumBarriers  BY <1>4, Zenon DEF StageRight, NodeRight
  <2>2. entered'[n] = NumBarriers + 1  BY <1>1, <1>2, <1>4, <2>1
  <2>3. StageRight(n)'  BY <1>1, <1>4, <2>2, Zenon DEF StageRight, NodeRight, Ended, Killed
  <2>4. SenderRight(n)' /\ ServerRight(n)' /\ HelperRight(n)'  BY <1>1, <1>4, MovedOn, Zenon DEF Working, Killed
  <2> QED  BY <1>1, <2>3, <2>4, SameNode, Zenon DEF NodeRight
<1>5. CASE main[n] = "StopMailbox" /\ main'[n] = "StopReceiving"
  <2>1. entered[n] = NumBarriers + 1  BY <1>5, Zenon DEF StageRight, NodeRight
  <2>2. entered'[n] = LastRound  BY <1>1, <1>2, <2>1 DEF LastRound
  <2>3. StageRight(n)'  BY <1>1, <1>5, <2>2, Zenon DEF StageRight, NodeRight, Ended, Killed
  <2>4. SenderRight(n)' /\ ServerRight(n)' /\ HelperRight(n)'  BY <1>1, <1>5, MovedOn, Zenon DEF Working, Killed
  <2> QED  BY <1>1, <2>3, <2>4, SameNode, Zenon DEF NodeRight
<1> QED  BY <1>3, <1>4, <1>5, Zenon DEF EnterBarrier, QueueTypes

\* The steps inside Mailbox::Barrier, and a message that wakes it.
LEMMA InBarrierKeepsNodes ==
  ASSUME ShutInv, NEW n \in Node,
         (\E to \in Node : SendBarrier(n, to)) \/ StartWaiting(n) \/ Sleep(n) \/ WakeSpuriously(n) \/ PassBarrier(n)
  PROVE  \A k \in Node : NodeRight(k)'
<1> QueueTypes /\ CountTypes /\ ShutTypes /\ \A k \in Node : NodeRight(k)
  BY Zenon DEF ShutInv, BarrierInv, BarrierPart
<1>1. /\ \A k \in Node : SameThreads(k) /\ SameQueues(k)
      /\ \A k \in Node : k # n => SameMain(k)
      /\ UNCHANGED <<main, entered, awaited, receiving, sending>>
      /\ bar[n] # "outside"
  BY Zenon DEF SendBarrier, StartWaiting, Sleep, WakeSpuriously, PassBarrier, SameThreads, SameQueues, SameMain,
               threads, queues, tasks, QueueTypes, CountTypes
<1>2. main[n] \notin {"join_sender", "StopMailbox"} \cup Ended  BY <1>1, Zenon DEF NodeRight, StageRight
<1>3. StageRight(n)'  BY <1>1, <1>2, Zenon DEF StageRight, NodeRight
<1>4. SenderRight(n)' /\ ServerRight(n)' /\ HelperRight(n)'  BY <1>1, MovedOn, Zenon
<1> QED  BY <1>1, <1>3, <1>4, SameNode, Zenon DEF NodeRight

\* The steps of StopEverything that only wait for a thread or for the peers.
LEMMA JoinsKeepNodes ==
  ASSUME ShutInv, NEW n \in Node,
         \/ JoinSender(n) \/ StopReceiving(n) \/ JoinReceiver(n) \/ Linger(n) \/ JoinServer(n) \/ JoinHelper(n)
  PROVE  \A k \in Node : NodeRight(k)'
<1> QueueTypes /\ CountTypes /\ ShutTypes /\ \A k \in Node : NodeRight(k)
  BY Zenon DEF ShutInv, BarrierInv, BarrierPart
<1>1. /\ \A k \in Node : SameThreads(k) /\ SameQueues(k)
      /\ \A k \in Node : k # n => SameMain(k)
      /\ UNCHANGED <<bar, entered, awaited, receiving, sending>>
  BY Zenon DEF JoinSender, StopReceiving, JoinReceiver, Linger, JoinServer, JoinHelper, Goto, SameThreads, SameQueues,
               SameMain, barrier, threads, queues, tasks, QueueTypes
<1>2. \/ main[n] = "join_sender" /\ main'[n] = "StopMailbox" /\ ~sending[n]
      \/ main[n] = "StopReceiving" /\ main'[n] = "join_receiver" /\ bar[n] = "outside"
      \/ main[n] = "join_receiver" /\ main'[n] = "CloseSockets" /\ ~receiving[n]
      \/ main[n] = "linger" /\ main'[n] = "StopServerThreads"
      \/ main[n] = "StopServerThreads" /\ main'[n] = "StopWorkerThreads"
      \/ main[n] = "join_helper" /\ main'[n] = "stopped"
  BY Zenon DEF JoinSender, StopReceiving, JoinReceiver, Linger, JoinServer, JoinHelper, Goto, QueueTypes
<1>3. StageRight(n)'  BY <1>1, <1>2, Zenon DEF StageRight, NodeRight, Ended, Killed
<1>4. SenderRight(n)' /\ ServerRight(n)' /\ HelperRight(n)'
  <2>1. (main'[n] \in Working => main[n] \in Working) /\ (main[n] \in Killed => main'[n] \in Killed)
    BY <1>2, Zenon DEF Working, Killed
  <2> QED  BY <1>1, <2>1, MovedOn, Zenon
<1> QED  BY <1>1, <1>3, <1>4, SameNode, Zenon DEF NodeRight

\* Sender::Stop and the kExit for the registered threads.
LEMMA StopsKeepNodes ==
  ASSUME ShutInv, NEW n \in Node, StopSender(n) \/ KillThreads(n) \/ StopWorkerThreads(n)
  PROVE  \A k \in Node : NodeRight(k)'
<1> QueueTypes /\ CountTypes /\ ShutTypes /\ \A k \in Node : NodeRight(k)
  BY Zenon DEF ShutInv, BarrierInv, BarrierPart
<1> USE DEF SameThreads, SameQueues, SameMain
<1>1. /\ \A k \in Node : SameThreads(k)
      /\ \A k \in Node : k # n => SameMain(k)
      /\ UNCHANGED <<bar, entered, awaited, receiving, sending>>
  BY Zenon DEF StopSender, KillThreads, StopWorkerThreads, Goto, barrier, threads, queues, tasks, QueueTypes
<1>2. Exit \in DataMsg \cup {Exit} /\ Exit \in RequestMsg \cup {Exit} /\ Exit \in ReplyMsg \cup {Exit}  BY Zenon
<1>3. Exit \notin RequestMsg  BY MailboxAssumption, Zenon DEF Exit, RequestMsg
<1>4. CASE StopSender(n)
  <2>1. /\ main[n] = "StopSender" /\ main'[n] = "join_sender" /\ bar[n] = "outside"
        /\ send_queue' = Pushed(send_queue, n, Exit) /\ UNCHANGED <<work_queue, helper_queue>>
    BY <1>4, Zenon DEF StopSender, Goto, QueueTypes, queues
  <2>2. /\ send_queue'[n] = Append(send_queue[n], Exit)
        /\ \A k \in Node : k # n => send_queue'[k] = send_queue[k]
    BY <1>2, <2>1, SendPushed, Zenon
  <2>3. StageRight(n)'  BY <1>1, <2>1, Zenon DEF StageRight, NodeRight, Ended, Killed
  <2>4. SenderRight(n)'
    <3>1. sending[n] /\ main'[n] \notin Working  BY <2>1, Zenon DEF NodeRight, SenderRight, Working
    <3>2. NoneAfterExit(Append(send_queue[n], Exit))
      <4>1. send_queue[n] \in Seq(DataMsg \cup {Exit})  BY Zenon DEF QueueTypes
      <4>2. NoneAfterExit(send_queue[n])  BY Zenon DEF NodeRight, SenderRight
      <4> QED  BY <1>2, <1>3, <4>1, <4>2, NoneAfterExitKept, Zenon
    <3> QED  BY <1>1, <2>2, <3>1, <3>2, Zenon DEF SenderRight, NoneAfterExit
  <2>5. ServerRight(n)' /\ HelperRight(n)'
    <3>1. serving[n] /\ Exit \notin Elems(work_queue[n]) /\ helping[n] /\ Exit \notin Elems(helper_queue[n])
      BY <2>1, Zenon DEF NodeRight, ServerRight, HelperRight, Killed
    <3> QED  BY <1>1, <2>1, <3>1, Zenon DEF NodeRight, ServerRight, HelperRight, OnlyLast, Elems
  <2> QED  BY <1>1, <2>1, <2>2, <2>3, <2>4, <2>5, SameNode, Zenon DEF NodeRight
<1>5. CASE KillThreads(n) \/ StopWorkerThreads(n)
  <2>1. /\ \/ main[n] = "CloseSockets" /\ main'[n] = "linger"
           \/ main[n] = "StopWorkerThreads" /\ main'[n] = "join_helper"
        /\ main'[n] \in Killed
    BY <1>5, Zenon DEF KillThreads, StopWorkerThreads, Goto, QueueTypes, Killed
  <2>2. send_queue' = send_queue /\ \A k \in Node : k # n => work_queue'[k] = work_queue[k] /\ helper_queue'[k] = helper_queue[k]
    BY <1>5, Zenon DEF KillThreads, StopWorkerThreads, Pushed, QueueTypes, ShutTypes
  <2>3. StageRight(n)'  BY <1>1, <2>1, Zenon DEF StageRight, NodeRight, Ended, Killed
  <2>4. HelperRight(n)'  BY <2>1, Zenon DEF HelperRight
  <2>5. SenderRight(n)'
    <3>1. main'[n] \notin Working  BY <2>1, Zenon DEF Working
    <3> QED  BY <1>1, <2>2, <3>1, Zenon DEF NodeRight, SenderRight, NoneAfterExit, Elems
  <2>6. ServerRight(n)'
    <3>1. CASE KillThreads(n)
      <4>1. main[n] = "CloseSockets" /\ work_queue' = Pushed(work_queue, n, Exit)  BY <3>1, Zenon DEF KillThreads, Goto
      <4>2. serving[n] /\ Exit \notin Elems(work_queue[n]) /\ OnlyLast(work_queue[n], Exit)
        BY <4>1, Zenon DEF NodeRight, ServerRight, Killed
      <4>3. work_queue'[n] = Append(work_queue[n], Exit)  BY <1>2, <4>1, WorkPushed, Zenon
      <4>4. work_queue[n] \in Seq(RequestMsg \cup {Exit})  BY Zenon DEF QueueTypes
      <4>5. OnlyLast(Append(work_queue[n], Exit), Exit)  BY <1>2, <4>2, <4>4, OnlyLastKept, Zenon
      <4> QED  BY <1>1, <2>1, <4>2, <4>3, <4>5, Zenon DEF ServerRight, OnlyLast
    <3>2. CASE StopWorkerThreads(n)
      <4>1. work_queue' = work_queue  BY <3>2, Zenon DEF StopWorkerThreads
      <4> QED  BY <1>1, <2>1, <4>1, Zenon DEF NodeRight, ServerRight, OnlyLast, Elems
    <3> QED  BY <1>5, <3>1, <3>2, Zenon
  <2> QED  BY <1>1, <2>2, <2>3, <2>4, <2>5, <2>6, SameNode, Zenon DEF NodeRight
<1> QED  BY <1>4, <1>5, Zenon

\* A request is pushed by a task, so before Sender::Stop.
LEMMA PushRequestKeepsNodes ==
  ASSUME ShutInv, NEW n \in Node, NEW to \in Node, NEW flag \in Request, PushRequest(n, to, flag)
  PROVE  \A k \in Node : NodeRight(k)'
<1> QueueTypes /\ CountTypes /\ ShutTypes /\ \A k \in Node : NodeRight(k)
  BY Zenon DEF ShutInv, BarrierInv, BarrierPart
<1> USE DEF SameThreads, SameQueues, SameMain
<1>1. PICK x : x = [flag |-> flag, from |-> n, to |-> to]  BY Zenon
<1>2. /\ \A k \in Node : SameThreads(k)
      /\ \A k \in Node : k # n => SameMain(k)
      /\ UNCHANGED <<main, bar, entered, receiving, sending, serving, helping, work_queue, helper_queue>>
      /\ main[n] = "app" /\ send_queue' = Pushed(send_queue, n, x)
  BY <1>1, Zenon DEF PushRequest, barrier, threads, queues, ShutTypes
<1>3. x \in RequestMsg  BY <1>1, Zenon DEF RequestMsg
<1>4. x \in DataMsg \cup {Exit} /\ x # Exit  BY <1>3, NoData, Zenon DEF DataMsg
<1>5. /\ send_queue'[n] = Append(send_queue[n], x) /\ Elems(send_queue'[n]) = Elems(send_queue[n]) \cup {x}
      /\ \A k \in Node : k # n => send_queue'[k] = send_queue[k]
  BY <1>2, <1>4, SendPushed, Zenon
<1>6. StageRight(n)'  BY <1>2, Zenon DEF StageRight, NodeRight, Ended, Killed
<1>7. SenderRight(n)'
  <2>1. sending[n] /\ Exit \notin Elems(send_queue[n]) /\ NoneAfterExit(send_queue[n])
    BY <1>2, Zenon DEF NodeRight, SenderRight, Working
  <2>2. send_queue[n] \in Seq(DataMsg \cup {Exit})  BY Zenon DEF QueueTypes
  <2>3. NoneAfterExit(Append(send_queue[n], x))  BY <1>4, <2>1, <2>2, NoneAfterExitKept, Zenon
  <2>4. NoneAfterExit(send_queue'[n])  BY <1>5, <2>3, Zenon
  <2>5. sending'[n] /\ Exit \notin Elems(send_queue'[n])  BY <1>2, <1>4, <1>5, <2>1, Zenon
  <2> QED  BY <2>4, <2>5, Zenon DEF SenderRight, NoneAfterExit
<1>8. ServerRight(n)' /\ HelperRight(n)'
  <2>1. UNCHANGED <<main, serving, helping, work_queue, helper_queue>>  BY <1>2, Zenon
  <2> QED  BY <2>1, Zenon DEF NodeRight, ServerRight, HelperRight, OnlyLast, Elems
<1> QED  BY <1>2, <1>5, <1>6, <1>7, <1>8, SameNode, Zenon DEF NodeRight

\* Sender::Send takes its queue in order, and ends at the kExit of Sender::Stop.
LEMMA SenderKeepsNodes ==
  ASSUME ShutInv, NEW n \in Node, SenderStep(n)
  PROVE  \A k \in Node : NodeRight(k)'
<1> QueueTypes /\ CountTypes /\ ShutTypes /\ \A k \in Node : NodeRight(k)
  BY Zenon DEF ShutInv, BarrierInv, BarrierPart
<1> USE DEF SameThreads, SameQueues, SameMain
<1>1. PICK msg : msg = Head(send_queue[n])  BY Zenon
<1>2. /\ sending[n] /\ send_queue[n] # <<>> /\ send_queue' = Taken(send_queue, n)
      /\ UNCHANGED <<main, bar, entered, receiving, work_queue, helper_queue, serving, helping, awaited>>
      /\ \/ msg = Exit /\ sending' = [sending EXCEPT ![n] = FALSE]
         \/ sending' = sending
  BY <1>1, SenderCases, Zenon DEF barrier
<1>3. /\ send_queue'[n] = Tail(send_queue[n]) /\ Elems(send_queue[n]) = Elems(send_queue'[n]) \cup {msg}
      /\ \A k \in Node : k # n => send_queue'[k] = send_queue[k]
  BY <1>1, <1>2, SendTaken, Zenon
<1>4. \A k \in Node : k # n => sending'[k] = sending[k]  BY <1>2, Zenon DEF ShutTypes
<1>5. send_queue[n] \in Seq(DataMsg \cup {Exit}) /\ NoneAfterExit(send_queue[n])
  BY Zenon DEF QueueTypes, NodeRight, SenderRight
<1>6. /\ NoneAfterExit(Tail(send_queue[n]))
      /\ Head(send_queue[n]) = Exit => \A y \in Elems(Tail(send_queue[n])) : y \notin RequestMsg
  BY <1>2, <1>5, NoneAfterExitKept, Zenon
<1>7. NoneAfterExit(send_queue'[n])  BY <1>3, <1>6, Zenon
<1>8. StageRight(n)'
  <2>1. main[n] \in {"app", "StopSender", "join_sender"}  BY <1>2, Zenon DEF NodeRight, StageRight
  <2> QED  BY <1>2, <2>1, Zenon DEF NodeRight, StageRight
<1>9. ServerRight(n)' /\ HelperRight(n)'
  BY <1>2, Zenon DEF NodeRight, ServerRight, HelperRight, OnlyLast, Elems
<1>10. SenderRight(n)'
  <2>1. Exit \in Elems(send_queue[n]) => main[n] \notin Working  BY Zenon DEF NodeRight, SenderRight
  <2>2. Exit \in Elems(send_queue'[n]) => main'[n] \notin Working  BY <1>2, <1>3, <2>1, Zenon
  <2>3. ~sending'[n] => main'[n] \notin Working /\ \A x \in Elems(send_queue'[n]) : x \notin RequestMsg
    <3>1. ~sending'[n] => msg = Exit  BY <1>2, Zenon
    <3>2. msg \in Elems(send_queue[n])  BY <1>3, Zenon
    <3> QED  BY <1>1, <1>2, <1>3, <1>6, <2>1, <3>1, <3>2, Zenon
  <2> QED  BY <1>7, <2>2, <2>3, Zenon DEF SenderRight, NoneAfterExit
<1> QED  BY <1>2, <1>3, <1>4, <1>8, <1>9, <1>10, SameNode, Zenon DEF NodeRight

\* Mailbox::Receiving hands messages on while the threads still run, and ends
\* at the kExit of Mailbox::StopReceiving.
LEMMA ReceiveKeepsNodes ==
  ASSUME ShutInv, NEW n \in Node, NEW m \in Node, Receive(n, m)
  PROVE  \A k \in Node : NodeRight(k)'
<1> QueueTypes /\ CountTypes /\ ShutTypes /\ (\A k \in Node : NodeRight(k)) /\ ChannelRight(m, n)
  BY Zenon DEF ShutInv, BarrierInv, BarrierPart
<1> USE DEF SameThreads, SameQueues, SameMain
<1>1. PICK msg : msg = Recv(m, n)  BY Zenon
<1>2. /\ UNCHANGED <<main, entered, send_queue, sending, serving, helping, awaited>>
      /\ receiving[n] /\ channel[m][n] # <<>> /\ channel' = TakenFrom(channel, m, n)
  BY ReceiveCases, Zenon
<1>3. msg \in Elems(channel[m][n])  BY <1>1, <1>2, TakenChannel
<1>4. /\ \A k \in Node : k # n => bar'[k] = bar[k] /\ receiving'[k] = receiving[k]
                                  /\ work_queue'[k] = work_queue[k] /\ helper_queue'[k] = helper_queue[k]
      /\ bar[n] = "outside" => bar'[n] = bar[n]
  <2>1. \A k \in Node : k # n => bar'[k] = bar[k]  BY Zenon DEF Receive, CountTypes
  <2>2. \A k \in Node : k # n => receiving'[k] = receiving[k]  BY Zenon DEF Receive, ShutTypes
  <2>3. \A k \in Node : k # n => work_queue'[k] = work_queue[k] /\ helper_queue'[k] = helper_queue[k]
    BY Zenon DEF Receive, ShutTypes, QueueTypes, Pushed, queues
  <2>4. bar[n] = "outside" => bar'[n] = bar[n]  BY Zenon DEF Receive, CountTypes
  <2> QED  BY <2>1, <2>2, <2>3, <2>4, Zenon
<1>5. \A k \in Node : k # n => NodeRight(k)'  BY <1>2, <1>4, SameNode, Zenon
<1>6. main[n] \notin Killed  BY <1>2, Zenon DEF NodeRight, StageRight
<1>7. /\ serving[n] /\ Exit \notin Elems(work_queue[n]) /\ OnlyLast(work_queue[n], Exit)
      /\ helping[n] /\ Exit \notin Elems(helper_queue[n])
  BY <1>6, Zenon DEF NodeRight, ServerRight, HelperRight
<1>8. SenderRight(n)'  BY <1>2, Zenon DEF NodeRight, SenderRight, NoneAfterExit, Elems
<1>9. \/ msg = Exit /\ work_queue' = work_queue
      \/ receiving' = receiving /\ work_queue' = work_queue
      \/ msg \in RequestMsg /\ receiving' = receiving /\ work_queue' = Pushed(work_queue, n, msg)
  BY <1>1, ReceiveCases, Zenon
<1>10. StageRight(n)'
  <2>1. ~receiving'[n] => main[n] \in Ended
    <3>1. ~receiving'[n] => msg = Exit  BY <1>2, <1>9, Zenon
    <3> QED  BY <1>3, <3>1, Zenon DEF ChannelRight
  <2>2. main[n] \notin {"CloseSockets"} \cup Killed  BY <1>2, Zenon DEF NodeRight, StageRight
  <2> QED  BY <1>2, <1>4, <2>1, <2>2, Zenon DEF NodeRight, StageRight
<1>11. ServerRight(n)'
  <2>1. CASE work_queue' = work_queue
    BY <1>2, <1>7, <2>1, Zenon DEF ServerRight, OnlyLast, Elems
  <2>2. CASE msg \in RequestMsg /\ work_queue' = Pushed(work_queue, n, msg)
    <3>1. msg \in RequestMsg \cup {Exit} /\ msg # Exit  BY <2>2, NoData, Zenon DEF DataMsg
    <3>2. work_queue'[n] = Append(work_queue[n], msg) /\ Elems(work_queue'[n]) = Elems(work_queue[n]) \cup {msg}
      BY <2>2, <3>1, WorkPushed, Zenon
    <3>3. work_queue[n] \in Seq(RequestMsg \cup {Exit})  BY Zenon DEF QueueTypes
    <3>4. OnlyLast(Append(work_queue[n], msg), Exit)  BY <1>7, <3>1, <3>3, OnlyLastKept, Zenon
    <3>5. OnlyLast(work_queue'[n], Exit) /\ Exit \notin Elems(work_queue'[n]) /\ serving'[n]
      BY <1>2, <1>7, <3>1, <3>2, <3>4, Zenon
    <3> QED  BY <3>5, Zenon DEF ServerRight, OnlyLast
  <2> QED  BY <1>9, <2>1, <2>2, Zenon
<1>12. HelperRight(n)'
  <2>1. CASE helper_queue' = helper_queue  BY <1>2, <1>7, <2>1, Zenon DEF HelperRight, Elems
  <2>2. CASE Recv(m, n) \in ReplyMsg /\ helper_queue' = Pushed(helper_queue, n, Recv(m, n))
    <3>1. msg \in ReplyMsg \cup {Exit} /\ msg # Exit /\ helper_queue' = Pushed(helper_queue, n, msg)
      BY <1>1, <2>2, NoData, Zenon DEF DataMsg
    <3>2. Elems(helper_queue'[n]) = Elems(helper_queue[n]) \cup {msg}  BY <3>1, HelperPushed, Zenon
    <3>3. Exit \notin Elems(helper_queue'[n]) /\ helping'[n]  BY <1>2, <1>7, <3>1, <3>2, Zenon
    <3> QED  BY <3>3, Zenon DEF HelperRight, Elems
  <2> QED  BY <2>1, <2>2, ReceiveHelper, Zenon
<1> QED  BY <1>5, <1>8, <1>10, <1>11, <1>12, Zenon DEF NodeRight

\* ServerThread::Main replies, and ends at its kExit with nothing behind it.
LEMMA ServerKeepsNodes ==
  ASSUME ShutInv, NEW n \in Node, ServerStep(n)
  PROVE  \A k \in Node : NodeRight(k)'
<1> QueueTypes /\ CountTypes /\ ShutTypes /\ \A k \in Node : NodeRight(k)
  BY Zenon DEF ShutInv, BarrierInv, BarrierPart
<1> USE DEF SameThreads, SameQueues, SameMain
<1>1. PICK msg, reply :
         /\ serving[n] /\ work_queue[n] # <<>> /\ msg = Head(work_queue[n]) /\ msg \in Msg
         /\ work_queue' = Taken(work_queue, n)
         /\ UNCHANGED <<main, barrier, channel, receiving, sending, helper_queue, helping, awaited, pushed>>
         /\ \/ /\ msg = Exit
               /\ serving' = [serving EXCEPT ![n] = FALSE] /\ send_queue' = send_queue
            \/ /\ msg \in RequestMsg /\ msg.flag = "kAdd"
               /\ serving' = serving /\ send_queue' = send_queue
            \/ /\ msg \in RequestMsg
               /\ reply \in ReplyMsg /\ reply.flag = "reply" /\ reply.of = msg.flag /\ reply.to = msg.from
               /\ serving' = serving /\ send_queue' = Pushed(send_queue, n, reply)
  BY ServerCases, Zenon
<1>2. /\ work_queue'[n] = Tail(work_queue[n]) /\ Elems(work_queue[n]) = Elems(work_queue'[n]) \cup {msg}
      /\ \A k \in Node : k # n => work_queue'[k] = work_queue[k]
  BY <1>1, WorkTaken, Zenon
<1>3. /\ UNCHANGED <<main, bar, entered, receiving, sending, helper_queue, helping, awaited>>
      /\ \A k \in Node : k # n => serving'[k] = serving[k]
  BY <1>1, Zenon DEF barrier, ShutTypes
<1>4. StageRight(n)'  BY <1>3, Zenon DEF NodeRight, StageRight
<1>5. HelperRight(n)'  BY <1>3, Zenon DEF NodeRight, HelperRight, Elems
<1>6. ServerRight(n)'
  <2>1. work_queue[n] \in Seq(RequestMsg \cup {Exit}) /\ OnlyLast(work_queue[n], Exit)
    BY Zenon DEF QueueTypes, NodeRight, ServerRight
  <2>2. OnlyLast(Tail(work_queue[n]), Exit) /\ (Head(work_queue[n]) = Exit => Tail(work_queue[n]) = <<>>)
    BY <1>1, <2>1, OnlyLastKept, Zenon
  <2>3. OnlyLast(work_queue'[n], Exit) /\ (msg = Exit => work_queue'[n] = <<>>)  BY <1>1, <1>2, <2>2, Zenon
  <2>4. Exit \in Elems(work_queue[n]) => main[n] \in Killed  BY Zenon DEF NodeRight, ServerRight
  <2>5. Exit \in Elems(work_queue'[n]) => main'[n] \in Killed  BY <1>2, <1>3, <2>4, Zenon
  <2>6. ~serving'[n] => msg = Exit  BY <1>1, Zenon
  <2>7. ~serving'[n] => main'[n] \in Killed /\ work_queue'[n] = <<>>
    BY <1>2, <1>3, <2>3, <2>4, <2>6, Zenon
  <2> QED  BY <2>3, <2>5, <2>7, Zenon DEF ServerRight, OnlyLast, Elems
<1>7. SenderRight(n)' /\ \A k \in Node : k # n => send_queue'[k] = send_queue[k]
  <2>1. CASE send_queue' = send_queue
    BY <1>3, <2>1, Zenon DEF NodeRight, SenderRight, NoneAfterExit, Elems
  <2>2. CASE reply \in ReplyMsg /\ send_queue' = Pushed(send_queue, n, reply)
    <3>1. reply \in DataMsg \cup {Exit} /\ reply # Exit  BY <2>2, NoData, Zenon DEF DataMsg
    <3>2. reply \notin RequestMsg  BY <2>2, FlagOf, Zenon DEF Msg, DataMsg
    <3>3. /\ send_queue'[n] = Append(send_queue[n], reply) /\ Elems(send_queue'[n]) = Elems(send_queue[n]) \cup {reply}
          /\ \A k \in Node : k # n => send_queue'[k] = send_queue[k]
      BY <2>2, <3>1, SendPushed, Zenon
    <3>4. send_queue[n] \in Seq(DataMsg \cup {Exit}) /\ NoneAfterExit(send_queue[n])
      BY Zenon DEF QueueTypes, NodeRight, SenderRight
    <3>5. NoneAfterExit(Append(send_queue[n], reply))  BY <3>1, <3>2, <3>4, NoneAfterExitKept, Zenon
    <3>6. NoneAfterExit(send_queue'[n])  BY <3>3, <3>5, Zenon
    <3>7. /\ ~sending[n] => main[n] \notin Working /\ \A x \in Elems(send_queue[n]) : x \notin RequestMsg
          /\ Exit \in Elems(send_queue[n]) => main[n] \notin Working
      BY Zenon DEF NodeRight, SenderRight
    <3>8. /\ ~sending'[n] => main'[n] \notin Working /\ \A x \in Elems(send_queue'[n]) : x \notin RequestMsg
          /\ Exit \in Elems(send_queue'[n]) => main'[n] \notin Working
      BY <1>3, <3>1, <3>2, <3>3, <3>7, Zenon
    <3> QED  BY <3>3, <3>6, <3>8, Zenon DEF SenderRight, NoneAfterExit, Elems
  <2> QED  BY <1>1, <2>1, <2>2, Zenon
<1> QED  BY <1>2, <1>3, <1>4, <1>5, <1>6, <1>7, SameNode, Zenon DEF NodeRight

\* WorkerHelperThread::Main has no Get to answer once the tasks have ended.
LEMMA HelperKeepsNodes ==
  ASSUME ShutInv, GetsCounted', NEW n \in Node, HelperStep(n)
  PROVE  \A k \in Node : NodeRight(k)'
<1> QueueTypes /\ CountTypes /\ ShutTypes /\ \A k \in Node : NodeRight(k)
  BY Zenon DEF ShutInv, BarrierInv, BarrierPart
<1> USE DEF SameThreads, SameQueues, SameMain
<1>1. PICK msg : msg = Head(helper_queue[n])  BY Zenon
<1>2. /\ helper_queue[n] # <<>> /\ helper_queue' = Taken(helper_queue, n)
      /\ UNCHANGED <<main, barrier, receiving, send_queue, sending, work_queue, serving>>
      /\ \/ msg = Exit /\ helping' = [helping EXCEPT ![n] = FALSE] /\ awaited' = awaited
         \/ helping' = helping /\ awaited' = [awaited EXCEPT ![n] = IF msg.of = "kGet" THEN @ - 1 ELSE @]
  BY <1>1, HelperCases, Zenon
<1>3. /\ Elems(helper_queue[n]) = Elems(helper_queue'[n]) \cup {msg}
      /\ \A k \in Node : k # n => helper_queue'[k] = helper_queue[k]
  BY <1>1, <1>2, HelperTaken, Zenon
<1>4. /\ UNCHANGED <<main, bar, entered, receiving, send_queue, sending, work_queue, serving>>
      /\ \A k \in Node : k # n => helping'[k] = helping[k] /\ awaited'[k] = awaited[k]
      /\ awaited'[n] = awaited[n] \/ awaited'[n] = awaited[n] - 1
      /\ ~helping'[n] => ~helping[n] \/ msg = Exit
  BY <1>2, Zenon DEF barrier, ShutTypes
<1>5. awaited[n] = 0 => awaited'[n] = 0
  <2>1. awaited'[n] \in Nat  BY Zenon DEF GetsCounted
  <2>2. 0 - 1 \notin Nat  OBVIOUS
  <2> QED  BY <1>4, <2>1, <2>2, Zenon
<1>6. StageRight(n)'  BY <1>4, <1>5, Zenon DEF NodeRight, StageRight
<1>7. SenderRight(n)' /\ ServerRight(n)'
  <2>1. SenderRight(n)'  BY <1>4, Zenon DEF NodeRight, SenderRight, NoneAfterExit, Elems
  <2>2. ServerRight(n)'  BY <1>4, Zenon DEF NodeRight, ServerRight, OnlyLast, Elems
  <2> QED  BY <2>1, <2>2, Zenon
<1>8. HelperRight(n)'
  <2>1. ~helping[n] \/ Exit \in Elems(helper_queue[n]) => main[n] \in Killed  BY Zenon DEF NodeRight, HelperRight
  <2>2. ~helping'[n] \/ Exit \in Elems(helper_queue'[n]) => main'[n] \in Killed  BY <1>3, <1>4, <2>1, Zenon
  <2> QED  BY <2>2, Zenon DEF HelperRight, Elems
<1> QED  BY <1>3, <1>4, <1>6, <1>7, <1>8, SameNode, Zenon DEF NodeRight

\* Every step keeps the threads of every node in order.
LEMMA NextKeepsNodes ==
  ASSUME ShutInv, GetsCounted', [Next]_vars
  PROVE  \A k \in Node : NodeRight(k)'
<1>1. CASE UNCHANGED vars
  <2>1. \A k \in Node : NodeRight(k)  BY Zenon DEF ShutInv
  <2>2. \A k \in Node : SameThreads(k) /\ SameQueues(k) /\ SameMain(k)
    BY <1>1, Zenon DEF vars, SameThreads, SameQueues, SameMain
  <2> QED  BY <2>1, <2>2, SameNode, Zenon
<1>2. ASSUME NEW n \in Node, MainStep(n) \/ WakeSpuriously(n)  PROVE \A k \in Node : NodeRight(k)'
  BY <1>2, EnterBarrierKeepsNodes, InBarrierKeepsNodes, JoinsKeepNodes, StopsKeepNodes, Zenon
     DEF MainStep, InBarrier, Stopping
<1>3. ASSUME NEW n \in Node, NEW to \in Node, NEW flag \in Request, PushRequest(n, to, flag)
      PROVE  \A k \in Node : NodeRight(k)'
  BY <1>3, PushRequestKeepsNodes, Zenon
<1>4. ASSUME NEW n \in Node, SenderStep(n) \/ ReceiverStep(n) \/ ServerStep(n) \/ HelperStep(n)
      PROVE  \A k \in Node : NodeRight(k)'
  BY <1>4, SenderKeepsNodes, ReceiveKeepsNodes, ServerKeepsNodes, HelperKeepsNodes, Zenon DEF ReceiverStep
<1> QED  BY <1>1, <1>2, <1>3, <1>4, Zenon DEF Next

-----------------------------------------------------------------------------
(* The channels.                                                           *)

\* There is no barrier after that of StopReceiving; a node that has sent the
\* kExit for its receiver has passed it, and a sender runs before it.
LEMMA Rounds ==
  ASSUME ShutInv, NEW n \in Node
  PROVE  /\ LastRound \in Nat \ {0} /\ entered[n] \in Nat /\ passed[n] \in Nat
         /\ entered[n] <= LastRound
         /\ main[n] = "StopReceiving" /\ bar[n] = "outside" => passed[n] = LastRound
         /\ main[n] \in Ended => passed[n] = LastRound
         /\ sending[n] => entered[n] < LastRound
<1>1. QueueTypes /\ CountTypes /\ NodeRight(n) /\ OneAhead  BY Zenon DEF ShutInv, BarrierInv, BarrierPart
<1>2. LastRound \in Nat \ {0} /\ NumBarriers \in Nat /\ LastRound = NumBarriers + 2  BY MailboxAssumption DEF LastRound
<1>3. entered[n] \in Nat /\ passed[n] \in Nat  BY <1>1, Zenon DEF CountTypes
<1>4. main[n] \in Stage  BY <1>1, Zenon DEF QueueTypes
<1>5. main[n] \in {"app", "StopSender", "join_sender", "StopMailbox"} \/ main[n] \in {"StopReceiving"} \cup Ended
  BY <1>4, Zenon DEF Stage, Ended, Killed
<1>6. /\ main[n] = "app" => entered[n] <= NumBarriers
      /\ main[n] \in {"StopSender", "join_sender", "StopMailbox"} => entered[n] = NumBarriers + 1
      /\ main[n] \in {"StopReceiving"} \cup Ended => entered[n] = LastRound
      /\ main[n] \in Ended => bar[n] = "outside"
      /\ sending[n] => main[n] \in {"app", "StopSender", "join_sender"}
  BY <1>1, Zenon DEF NodeRight, StageRight
<1>7. bar[n] = "outside" => entered[n] = passed[n]  BY <1>1, Zenon DEF OneAhead
<1>8. main[n] \in {"app", "StopSender", "join_sender", "StopMailbox"} => entered[n] < LastRound  BY <1>2, <1>3, <1>6
<1>9. entered[n] <= LastRound
  <2>1. CASE main[n] \in {"app", "StopSender", "join_sender", "StopMailbox"}  BY <1>2, <1>3, <1>8, <2>1
  <2>2. CASE main[n] \in {"StopReceiving"} \cup Ended
    <3>1. entered[n] = LastRound  BY <1>6, <2>2, Zenon
    <3> QED  BY <1>3, <3>1
  <2> QED  BY <1>5, <2>1, <2>2, Zenon
<1> QED  BY <1>2, <1>3, <1>6, <1>7, <1>8, <1>9, Zenon

\* Before a node has sent its message of the last barrier to another, that one
\* has not passed it, and no such message is on its way.
LEMMA NotYetSent ==
  ASSUME ShutInv, NEW m \in Node, NEW n \in Node, entered[m] < LastRound \/ n \in unsent[m]
  PROVE  /\ <<m, LastRound>> \notin collected[n] /\ main[n] \notin Ended
         /\ LastBarrier \notin Elems(channel[m][n])
<1>1. InFlight /\ CollectedSent /\ QueueTypes /\ ChannelRight(m, n)  BY Zenon DEF ShutInv, BarrierInv, BarrierPart
<1>2. LastRound \in Nat /\ entered[m] \in Nat /\ entered[m] <= LastRound /\ (main[n] \in Ended => passed[n] = LastRound)
  BY Rounds, Zenon
<1>3. ~SentRound(m, n, LastRound)  BY <1>2 DEF SentRound
<1>4. <<m, LastRound>> \notin collected[n]  BY <1>1, <1>2, <1>3, Zenon DEF CollectedSent
<1>5. main[n] \notin Ended  BY <1>1, <1>2, <1>4, Zenon DEF ChannelRight
<1>6. ASSUME NEW i \in 1 .. Len(channel[m][n]), channel[m][n][i] = LastBarrier  PROVE FALSE
  <2>1. channel[m][n] \in Seq(Msg)  BY <1>1, Zenon DEF QueueTypes
  <2>2. i \in Nat  BY <1>6, <2>1
  <2>3. LastBarrier.flag = "kBarrier" /\ LastBarrier.round = LastRound  BY Zenon DEF LastBarrier
  <2>4. IsBarrier(channel[m][n], i)  BY <1>6, <2>3, Zenon DEF IsBarrier
  <2>5. SentRound(m, n, channel[m][n][i].round)  BY <1>1, <2>2, <2>4, Zenon DEF InFlight
  <2> QED  BY <1>3, <1>6, <2>3, <2>5, Zenon
<1>7. LastBarrier \notin Elems(channel[m][n])  BY <1>6, Zenon DEF Elems
<1> QED  BY <1>4, <1>5, <1>7, Zenon

\* A channel that a step leaves alone.
LEMMA SameChannel ==
  ASSUME NEW m \in Node, NEW n \in Node, ChannelRight(m, n),
         channel'[m][n] = channel[m][n], receiving'[n] = receiving[n], main'[n] \in Ended <=> main[n] \in Ended,
         passed'[n] = LastRound => <<m, LastRound>> \in collected'[n],
         <<m, LastRound>> \in collected'[n] => <<m, LastRound>> \in collected[n]
  PROVE  ChannelRight(m, n)'
<1>1. OnlyLast(channel[m][n], LastBarrier)'  BY Zenon DEF ChannelRight, OnlyLast, LastBarrier
<1>2. (Exit \notin Elems(channel[m][n])) => (Exit \notin Elems(channel[m][n]))'  BY Zenon DEF Elems
<1>4. (main[n] \in Ended => channel[m][n] = IF m = n /\ receiving[n] THEN <<Exit>> ELSE <<>>)'
  BY Zenon DEF ChannelRight
<1>5. (main[n] \notin Ended => /\ <<m, LastRound>> \in collected[n] => channel[m][n] = <<>>
                               /\ Exit \notin Elems(channel[m][n]))'
  BY <1>2, Zenon DEF ChannelRight
<1> QED  BY <1>1, <1>4, <1>5, Zenon DEF ChannelRight

\* A message is sent that may still be: by a sender, or in a barrier.
LEMMA SendKeepsChannels ==
  ASSUME ShutInv, NEW a \in Node, NEW to \in Node, NEW x \in Msg, x # Exit,
         entered[a] < LastRound \/ to \in unsent[a],
         channel' = SentTo(channel, a, to, x), UNCHANGED <<main, passed, collected, receiving>>
  PROVE  \A m, n \in Node : ChannelRight(m, n)'
<1>1. QueueTypes /\ \A m, n \in Node : ChannelRight(m, n)  BY Zenon DEF ShutInv, BarrierInv
<1>2. /\ channel'[a][to] = Append(channel[a][to], x) /\ Elems(channel'[a][to]) = Elems(channel[a][to]) \cup {x}
      /\ channel[a][to] \in Seq(Msg)
      /\ \A m, n \in Node : m # a \/ n # to => channel'[m][n] = channel[m][n]
  BY <1>1, SentChannel, Zenon
<1>3. <<a, LastRound>> \notin collected[to] /\ main[to] \notin Ended /\ LastBarrier \notin Elems(channel[a][to])
  BY NotYetSent, Zenon
<1>4. ASSUME NEW m \in Node, NEW n \in Node, m # a \/ n # to  PROVE ChannelRight(m, n)'
  <2>1. channel'[m][n] = channel[m][n]  BY <1>2, <1>4, Zenon
  <2>2. ChannelRight(m, n)  BY <1>1, Zenon
  <2> QED  BY <2>1, <2>2, SameChannel, Zenon DEF ChannelRight
<1>5. ChannelRight(a, to)'
  <2>1. OnlyLast(channel[a][to], LastBarrier) /\ (passed[to] = LastRound => <<a, LastRound>> \in collected[to])
        /\ Exit \notin Elems(channel[a][to])
    BY <1>1, <1>3, Zenon DEF ChannelRight
  <2>2. OnlyLast(Append(channel[a][to], x), LastBarrier)  BY <1>2, <1>3, <2>1, OnlyLastKept, Zenon
  <2>3. OnlyLast(channel'[a][to], LastBarrier) /\ Exit \notin Elems(channel'[a][to])  BY <1>2, <2>1, <2>2, Zenon
  <2> QED  BY <1>3, <2>1, <2>3, Zenon DEF ChannelRight, OnlyLast, Elems, LastBarrier
<1> QED  BY <1>4, <1>5, Zenon

\* Mailbox::StopReceiving sends its kExit when nothing is on its way to the node.
LEMMA StopReceivingKeepsChannels ==
  ASSUME ShutInv, NEW a \in Node, StopReceiving(a)
  PROVE  \A m, n \in Node : ChannelRight(m, n)'
<1>1. QueueTypes /\ NodeRight(a) /\ \A m, n \in Node : ChannelRight(m, n)  BY Zenon DEF ShutInv, BarrierInv
<1>2. /\ main[a] = "StopReceiving" /\ bar[a] = "outside"
      /\ channel' = SentTo(channel, a, a, Exit) /\ UNCHANGED <<passed, collected, receiving>>
      /\ main'[a] = "join_receiver" /\ \A k \in Node : k # a => main'[k] = main[k]
  BY <1>1, Zenon DEF StopReceiving, Goto, Sent, SentTo, barrier, threads, QueueTypes
<1>3. main[a] \notin Ended /\ main'[a] \in Ended  BY <1>2, Zenon DEF Ended, Killed
<1>4. receiving[a]  BY <1>1, <1>3, Zenon DEF NodeRight, StageRight
<1>5. passed[a] = LastRound  BY <1>2, Rounds, Zenon
<1>6. \A m \in Node : channel[m][a] = <<>> /\ <<m, LastRound>> \in collected[a]  BY <1>1, <1>3, <1>5, Zenon DEF ChannelRight
<1>7. /\ channel'[a][a] = Append(channel[a][a], Exit)
      /\ \A m, n \in Node : m # a \/ n # a => channel'[m][n] = channel[m][n]
  <2>1. Exit \in Msg  BY NoData, Zenon
  <2> QED  BY <1>1, <1>2, <2>1, SentChannel, Zenon
<1>8. channel'[a][a] = <<Exit>>
  <2>1. \A x : Append(<<>>, x) = <<x>>  OBVIOUS
  <2> QED  BY <1>6, <1>7, <2>1, Zenon
<1>9. ASSUME NEW m \in Node, NEW n \in Node, n # a  PROVE ChannelRight(m, n)'
  <2>1. ChannelRight(m, n) /\ channel'[m][n] = channel[m][n] /\ receiving'[n] = receiving[n] /\ main'[n] = main[n]
        /\ passed'[n] = passed[n] /\ collected'[n] = collected[n]
    BY <1>1, <1>2, <1>7, <1>9, Zenon
  <2> QED  BY <2>1, SameChannel, Zenon DEF ChannelRight
<1>10. ASSUME NEW m \in Node  PROVE ChannelRight(m, a)'
  <2>1. channel'[m][a] = IF m = a THEN <<Exit>> ELSE <<>>  BY <1>6, <1>7, <1>8, Zenon
  <2>2. OnlyLast(channel'[m][a], LastBarrier)  BY <2>1 DEF OnlyLast
  <2>3. OnlyLast(channel[m][a], LastBarrier)'  BY <2>2, Zenon DEF OnlyLast, LastBarrier
  <2>4. channel'[m][a] = IF m = a /\ receiving'[a] THEN <<Exit>> ELSE <<>>  BY <1>2, <1>4, <2>1, Zenon
  <2> QED  BY <1>2, <1>3, <1>6, <2>3, <2>4, Zenon DEF ChannelRight
<1> QED  BY <1>9, <1>10, Zenon

\* The last message of a round comes last; kExit comes when it is the only one.
LEMMA ReceiveKeepsChannels ==
  ASSUME ShutInv, NEW a \in Node, NEW b \in Node, Receive(a, b)
  PROVE  \A m, n \in Node : ChannelRight(m, n)'
<1>1. QueueTypes /\ CountTypes /\ ShutTypes /\ \A m, n \in Node : ChannelRight(m, n)
  BY Zenon DEF ShutInv, BarrierInv, BarrierPart
<1>2. PICK msg : msg = Recv(b, a)  BY Zenon
<1>3. /\ msg \in Msg /\ channel[b][a] # <<>> /\ receiving[a] /\ channel' = TakenFrom(channel, b, a)
      /\ UNCHANGED <<main, passed>>
      /\ \/ /\ msg = Exit
            /\ receiving' = [receiving EXCEPT ![a] = FALSE] /\ UNCHANGED collected
         \/ /\ msg \in BarrierMsg /\ receiving' = receiving
            /\ collected' = [collected EXCEPT ![a] = @ \cup {<<b, msg.round>>}]
         \/ /\ msg \in DataMsg /\ receiving' = receiving /\ UNCHANGED collected
  BY <1>1, <1>2, ReceiveCases, Zenon DEF DataMsg
<1>4. /\ channel'[b][a] = Tail(channel[b][a]) /\ Elems(channel[b][a]) = Elems(channel'[b][a]) \cup {msg}
      /\ channel[b][a] \in Seq(Msg)
      /\ \A m, n \in Node : m # b \/ n # a => channel'[m][n] = channel[m][n]
  BY <1>1, <1>2, <1>3, TakenChannel
<1>5. ASSUME NEW m \in Node, NEW n \in Node, n # a  PROVE ChannelRight(m, n)'
  <2>1. ChannelRight(m, n) /\ channel'[m][n] = channel[m][n] /\ main'[n] = main[n] /\ passed'[n] = passed[n]
    BY <1>1, <1>3, <1>4, <1>5, Zenon
  <2>2. receiving'[n] = receiving[n]  BY <1>1, <1>3, <1>5, Zenon DEF ShutTypes
  <2>3. collected'[n] = collected[n]  BY <1>1, <1>3, <1>5, Zenon DEF CountTypes
  <2> QED  BY <2>1, <2>2, <2>3, SameChannel, Zenon DEF ChannelRight
<1>7. CASE msg = Exit
  <2>1. main[a] \in Ended
    <3>1. Exit \in Elems(channel[b][a])  BY <1>4, <1>7, Zenon
    <3> QED  BY <1>1, <3>1, Zenon DEF ChannelRight
  <2>2. \A m \in Node : channel[m][a] = IF m = a /\ receiving[a] THEN <<Exit>> ELSE <<>>
    BY <1>1, <2>1, Zenon DEF ChannelRight
  <2>3. b = a /\ channel[a][a] = <<Exit>>  BY <1>3, <2>2, Zenon
  <2>4. channel'[a][a] = <<>>  BY <1>4, <2>3
  <2>5. /\ \A m \in Node : m # a => channel'[m][a] = <<>>
        /\ collected' = collected
    <3>1. collected' = collected
      <4>1. msg \notin BarrierMsg /\ msg \notin DataMsg  BY <1>7, NoData, Zenon
      <4> QED  BY <1>3, <4>1, Zenon
    <3> QED  BY <1>4, <2>2, <2>3, <3>1, Zenon
  <2>6. ~receiving'[a]
    <3>1. msg \notin BarrierMsg /\ msg \notin DataMsg  BY <1>7, NoData, Zenon
    <3> QED  BY <1>1, <1>3, <3>1, Zenon DEF ShutTypes
  <2>7. ASSUME NEW m \in Node  PROVE ChannelRight(m, a)'
    <3>1. channel'[m][a] = <<>>  BY <2>4, <2>5, Zenon
    <3>2. OnlyLast(channel'[m][a], LastBarrier)  BY <3>1 DEF OnlyLast
    <3>3. OnlyLast(channel[m][a], LastBarrier)'  BY <3>2, Zenon DEF OnlyLast, LastBarrier
    <3>4. passed[a] = LastRound => <<m, LastRound>> \in collected[a]  BY <1>1, Zenon DEF ChannelRight
    <3> QED  BY <1>3, <2>1, <2>5, <2>6, <3>1, <3>3, <3>4, Zenon DEF ChannelRight
  <2> QED  BY <1>5, <2>7, Zenon
<1>8. CASE msg # Exit
  <2>1. main[a] \notin Ended
    <3>1. ASSUME main[a] \in Ended  PROVE FALSE
      <4>1. channel[b][a] = <<Exit>>
        <5>1. channel[b][a] = IF b = a /\ receiving[a] THEN <<Exit>> ELSE <<>>  BY <1>1, <3>1, Zenon DEF ChannelRight
        <5> QED  BY <1>3, <5>1, Zenon
      <4> QED  BY <1>2, <1>8, <4>1 DEF Recv
    <3> QED  BY <3>1, Zenon
  <2>2. /\ <<b, LastRound>> \notin collected[a] /\ Exit \notin Elems(channel[b][a]) /\ OnlyLast(channel[b][a], LastBarrier)
        /\ passed[a] = LastRound => <<b, LastRound>> \in collected[a]
    BY <1>1, <1>3, <2>1, Zenon DEF ChannelRight
  <2>3. receiving' = receiving
    BY <1>3, <1>8, Zenon
  <2>4. /\ OnlyLast(Tail(channel[b][a]), LastBarrier)
        /\ Head(channel[b][a]) = LastBarrier => Tail(channel[b][a]) = <<>>
    BY <1>3, <1>4, <2>2, OnlyLastKept, Zenon
  <2>5. <<b, LastRound>> \in collected'[a] => channel'[b][a] = <<>>
    <3>1. ASSUME <<b, LastRound>> \in collected'[a]  PROVE msg = LastBarrier
      <4>1. msg \in BarrierMsg /\ collected'[a] = collected[a] \cup {<<b, msg.round>>}
        BY <1>1, <1>3, <1>8, <2>2, <3>1, Zenon DEF CountTypes
      <4>2. <<b, LastRound>> = <<b, msg.round>>  BY <2>2, <3>1, <4>1, Zenon
      <4>3. msg.round = LastRound  BY <4>2
      <4> QED  BY <4>1, <4>3 DEF BarrierMsg, LastBarrier
    <3> QED  BY <1>2, <1>4, <2>4, <3>1, Zenon DEF Recv
  <2>6. ChannelRight(b, a)'
    <3>1. OnlyLast(channel'[b][a], LastBarrier) /\ Exit \notin Elems(channel'[b][a])  BY <1>4, <2>2, <2>4, Zenon
    <3>2. OnlyLast(channel[b][a], LastBarrier)'  BY <3>1, Zenon DEF OnlyLast, LastBarrier
    <3>3. (Exit \notin Elems(channel[b][a]))'  BY <3>1, Zenon DEF Elems
    <3>4. passed[a] # LastRound  BY <2>2, Zenon
    <3> QED  BY <1>3, <2>1, <2>5, <3>2, <3>3, <3>4, Zenon DEF ChannelRight
  <2>7. ASSUME NEW m \in Node, m # b  PROVE ChannelRight(m, a)'
    <3>1. ChannelRight(m, a) /\ channel'[m][a] = channel[m][a] /\ receiving'[a] = receiving[a] /\ main'[a] = main[a]
          /\ passed'[a] = passed[a]
      BY <1>1, <1>3, <1>4, <2>3, <2>7, Zenon
    <3>2. <<m, LastRound>> \in collected'[a] <=> <<m, LastRound>> \in collected[a]
      <4>1. \A r : <<m, LastRound>> # <<b, r>>  BY <2>7
      <4>2. collected' = collected \/ collected'[a] = collected[a] \cup {<<b, msg.round>>}
        BY <1>1, <1>3, Zenon DEF CountTypes
      <4> QED  BY <4>1, <4>2, Zenon
    <3>3. passed'[a] = LastRound => <<m, LastRound>> \in collected'[a]  BY <3>1, <3>2, Zenon DEF ChannelRight
    <3> QED  BY <3>1, <3>2, <3>3, SameChannel, Zenon
  <2> QED  BY <1>5, <2>6, <2>7, Zenon
<1> QED  BY <1>7, <1>8, Zenon

\* The node that passes the last barrier has its message from all nodes.
LEMMA PassKeepsChannels ==
  ASSUME ShutInv, NEW a \in Node, PassBarrier(a)
  PROVE  \A m, n \in Node : ChannelRight(m, n)'
<1>1. BarrierInv /\ CountTypes /\ \A m, n \in Node : ChannelRight(m, n)  BY Zenon DEF ShutInv, BarrierInv, BarrierPart
<1>2. /\ Collected(a) /\ UNCHANGED <<main, channel, receiving, collected>>
      /\ passed'[a] = passed[a] + 1 /\ \A k \in Node : k # a => passed'[k] = passed[k]
  BY <1>1, Zenon DEF PassBarrier, threads, CountTypes
<1>3. ASSUME passed'[a] = LastRound  PROVE \A m \in Node : <<m, LastRound>> \in collected[a]
  <2>1. \A m \in Node : entered[m] <= passed[a] + 1  BY <1>2, <1>3, Rounds, Zenon
  <2> QED  BY <1>1, <1>2, <1>3, <2>1, CollectedRound, Zenon
<1>4. ASSUME NEW m \in Node, NEW n \in Node  PROVE ChannelRight(m, n)'
  <2>1. ChannelRight(m, n) /\ channel'[m][n] = channel[m][n] /\ receiving'[n] = receiving[n] /\ main'[n] = main[n]
        /\ collected'[n] = collected[n]
    BY <1>1, <1>2, Zenon
  <2>2. passed'[n] = LastRound => <<m, LastRound>> \in collected'[n]  BY <1>2, <1>3, <2>1, Zenon DEF ChannelRight
  <2> QED  BY <2>1, <2>2, SameChannel, Zenon
<1> QED  BY <1>4, Zenon

\* Every step keeps the order of the channels.
LEMMA NextKeepsChannels ==
  ASSUME ShutInv, [Next]_vars
  PROVE  \A m, n \in Node : ChannelRight(m, n)'
<1>1. QueueTypes /\ CountTypes /\ \A m, n \in Node : ChannelRight(m, n)  BY Zenon DEF ShutInv, BarrierInv, BarrierPart
<1>2. ASSUME UNCHANGED <<channel, receiving, passed, collected>>, \A k \in Node : main'[k] \in Ended <=> main[k] \in Ended
      PROVE  \A m, n \in Node : ChannelRight(m, n)'
  <2>1. ASSUME NEW m \in Node, NEW n \in Node  PROVE ChannelRight(m, n)'
    <3>1. ChannelRight(m, n) /\ channel'[m][n] = channel[m][n] /\ receiving'[n] = receiving[n]
          /\ passed'[n] = passed[n] /\ collected'[n] = collected[n]
      BY <1>1, <1>2, Zenon
    <3> QED  BY <1>2, <3>1, SameChannel, Zenon DEF ChannelRight
  <2> QED  BY <2>1, Zenon
<1>3. ASSUME NEW n \in Node, NEW to \in Node, SendBarrier(n, to)  PROVE \A a, b \in Node : ChannelRight(a, b)'
  <2>1. PICK x : x = [flag |-> "kBarrier", round |-> entered[n]]  BY Zenon
  <2>2. /\ channel' = SentTo(channel, n, to, x) /\ to \in unsent[n]
        /\ UNCHANGED <<main, passed, collected, receiving>>
    BY <1>3, <2>1, Zenon DEF SendBarrier, Sent, SentTo, threads
  <2>3. entered[n] \in Nat  BY <1>1, Zenon DEF CountTypes
  <2>4. x \in Msg /\ x # Exit
    <3>1. x \in BarrierMsg  BY <2>1, <2>3, Zenon DEF BarrierMsg
    <3> QED  BY <3>1, NoData, Zenon
  <2> QED  BY <2>2, <2>4, SendKeepsChannels, Zenon
<1>4. ASSUME NEW n \in Node, SenderStep(n)  PROVE \A a, b \in Node : ChannelRight(a, b)'
  <2>1. PICK x : x = Head(send_queue[n])  BY Zenon
  <2>2. /\ x \in Msg /\ sending[n] /\ UNCHANGED <<main, passed, collected, receiving>>
        /\ channel' = channel \/ (x \in DataMsg /\ x.to \in Node /\ channel' = SentTo(channel, n, x.to, x))
    BY <1>1, <1>4, <2>1, SenderCases, Zenon DEF barrier
  <2>3. CASE channel' = channel  BY <1>2, <2>2, <2>3, Zenon
  <2>4. CASE x \in DataMsg /\ x.to \in Node /\ channel' = SentTo(channel, n, x.to, x)
    <3>1. x # Exit  BY <2>4, NoData, Zenon
    <3>2. entered[n] < LastRound  BY <2>2, Rounds, Zenon
    <3> QED  BY <2>2, <2>4, <3>1, <3>2, SendKeepsChannels, Zenon
  <2> QED  BY <2>2, <2>3, <2>4, Zenon
<1>5. ASSUME NEW n \in Node, ReceiverStep(n)  PROVE \A a, b \in Node : ChannelRight(a, b)'
  BY <1>5, ReceiveKeepsChannels, Zenon DEF ReceiverStep
<1>6. ASSUME NEW n \in Node, StopReceiving(n) \/ PassBarrier(n)  PROVE \A a, b \in Node : ChannelRight(a, b)'
  BY <1>6, StopReceivingKeepsChannels, PassKeepsChannels, Zenon
<1>7. ASSUME NEW n \in Node,
             \/ EnterBarrier(n) \/ StartWaiting(n) \/ Sleep(n) \/ WakeSpuriously(n) \/ StopSender(n) \/ JoinSender(n)
             \/ JoinReceiver(n) \/ KillThreads(n) \/ Linger(n) \/ JoinServer(n) \/ StopWorkerThreads(n) \/ JoinHelper(n)
      PROVE  \A a, b \in Node : ChannelRight(a, b)'
  <2>1. UNCHANGED <<channel, receiving, passed, collected>>
    BY <1>7, Zenon DEF EnterBarrier, StartWaiting, Sleep, WakeSpuriously, StopSender, JoinSender, JoinReceiver,
                       KillThreads, Linger, JoinServer, StopWorkerThreads, JoinHelper, barrier, threads
  <2>2. \A k \in Node : k # n => main'[k] = main[k]
    BY <1>1, <1>7, Zenon DEF EnterBarrier, StartWaiting, Sleep, WakeSpuriously, StopSender, JoinSender, JoinReceiver,
                       KillThreads, Linger, JoinServer, StopWorkerThreads, JoinHelper, Goto, QueueTypes
  <2>3. main'[n] \in Ended <=> main[n] \in Ended
    <3>1. CASE StartWaiting(n) \/ Sleep(n) \/ WakeSpuriously(n)
      <4>1. main' = main  BY <3>1, Zenon DEF StartWaiting, Sleep, WakeSpuriously
      <4> QED  BY <4>1, Zenon
    <3>2. CASE EnterBarrier(n) \/ StopSender(n) \/ JoinSender(n)
      <4>1. main'[n] \in {"app", "StopSender", "join_sender", "StopMailbox", "StopReceiving"}
            /\ main[n] \in {"app", "StopSender", "join_sender", "StopMailbox", "StopReceiving"}
        BY <1>1, <3>2, Zenon DEF EnterBarrier, StopSender, JoinSender, Goto, QueueTypes
      <4> QED  BY <4>1, Zenon DEF Ended, Killed
    <3>3. CASE JoinReceiver(n) \/ KillThreads(n) \/ Linger(n) \/ JoinServer(n) \/ StopWorkerThreads(n) \/ JoinHelper(n)
      <4>1. main[n] \in Ended /\ main'[n] \in Ended
        BY <1>1, <3>3, Zenon DEF JoinReceiver, KillThreads, Linger, JoinServer, StopWorkerThreads, JoinHelper, Goto,
                                 QueueTypes, Ended, Killed
      <4> QED  BY <4>1, Zenon
    <3> QED  BY <1>7, <3>1, <3>2, <3>3, Zenon
  <2> QED  BY <1>2, <2>1, <2>2, <2>3, Zenon
<1>8. ASSUME NEW n \in Node,
             (\E to \in Node, flag \in Request : PushRequest(n, to, flag)) \/ ServerStep(n) \/ HelperStep(n)
      PROVE  \A a, b \in Node : ChannelRight(a, b)'
  <2>1. UNCHANGED <<main, channel, receiving, passed, collected>>
    BY <1>8, Zenon DEF PushRequest, ServerStep, HelperStep, barrier, threads
  <2> QED  BY <1>2, <2>1, Zenon
<1>9. CASE UNCHANGED vars  BY <1>2, <1>9, Zenon DEF vars
<1> QED  BY <1>3, <1>4, <1>5, <1>6, <1>7, <1>8, <1>9, Zenon DEF Next, MainStep, InBarrier, Stopping

-----------------------------------------------------------------------------
(* Nothing is lost.                                                        *)

\* The invariant holds at first: all queues are empty, no Get is awaited.
LEMMA InitHasShut == Init => ShutInv
<1> SUFFICES ASSUME Init  PROVE ShutInv  BY Zenon
<1>1. BarrierInv  BY InitHasInv, Zenon
<1>2. ShutTypes  BY DEF Init, ShutTypes
<1>3. /\ \A n \in Node : /\ main[n] = "app" /\ bar[n] = "outside" /\ awaited[n] = 0 /\ entered[n] = 0 /\ passed[n] = 0
                         /\ receiving[n] /\ sending[n] /\ serving[n] /\ helping[n]
                         /\ send_queue[n] = <<>> /\ work_queue[n] = <<>> /\ helper_queue[n] = <<>>
                         /\ collected[n] = {}
      /\ \A m, n \in Node : channel[m][n] = <<>>
  BY Zenon DEF Init
<1>4. Elems(<<>>) = {} /\ \A i : i \notin 1 .. Len(<<>>)  BY DEF Elems
<1>5. Routed  BY <1>3, <1>4, Zenon DEF Routed
<1>6. ASSUME NEW n \in Node  PROVE Counted(Queue, n, 0)
  <2>1. \A l \in Loc : Queue[l] = <<>>
    <3>1. TAKE l \in Loc
    <3>2. l[2] \in Node /\ l[3] \in Node  BY DEF Loc
    <3>3. Queue[l] = IF l[1] = "channel" THEN channel[l[2]][l[3]]
                     ELSE IF l[2] # l[3] THEN <<>>
                     ELSE IF l[1] = "send" THEN send_queue[l[2]]
                     ELSE IF l[1] = "work" THEN work_queue[l[2]] ELSE helper_queue[l[2]]
      BY Zenon DEF Queue, Contents
    <3>4. channel[l[2]][l[3]] = <<>> /\ send_queue[l[2]] = <<>> /\ work_queue[l[2]] = <<>> /\ helper_queue[l[2]] = <<>>
      BY <1>3, <3>2, Zenon
    <3> QED  BY <3>3, <3>4
  <2>2. Gets(Queue, n) = {}  BY <1>4, <2>1, Zenon DEF Gets
  <2> QED  BY <2>2, FS_EmptySet, Zenon DEF Counted
<1>7. GetsCounted
  <2>1. 0 \in Nat  OBVIOUS
  <2> QED  BY <1>3, <1>6, <2>1, Zenon DEF GetsCounted
<1>8. ASSUME NEW n \in Node  PROVE NodeRight(n)
  <2>1. /\ main[n] \notin {"StopSender", "join_sender", "StopMailbox"} /\ main[n] \notin {"StopReceiving"} \cup Ended
        /\ main[n] \in {"app", "StopSender", "join_sender"} /\ main[n] \notin {"CloseSockets"} \cup Killed
        /\ main[n] \notin {"join_sender", "StopMailbox"} \cup Ended
    BY <1>3, Zenon DEF Ended, Killed
  <2>2. 0 <= NumBarriers  BY MailboxAssumption
  <2>3. StageRight(n)  BY <1>3, <2>1, <2>2, Zenon DEF StageRight
  <2>4. SenderRight(n) /\ ServerRight(n) /\ HelperRight(n)
    BY <1>3, <1>4, Zenon DEF SenderRight, ServerRight, HelperRight, NoneAfterExit, OnlyLast
  <2> QED  BY <2>3, <2>4, Zenon DEF NodeRight
<1>9. ASSUME NEW m \in Node, NEW n \in Node  PROVE ChannelRight(m, n)
  <2>1. main[n] \notin Ended  BY <1>3, Zenon DEF Ended, Killed
  <2>2. passed[n] # LastRound  BY <1>3, MailboxAssumption DEF LastRound
  <2> QED  BY <1>3, <1>4, <2>1, <2>2, Zenon DEF ChannelRight, OnlyLast
<1> QED  BY <1>1, <1>2, <1>5, <1>7, <1>8, <1>9, Zenon DEF ShutInv

\* Every step keeps it.
LEMMA NextKeepsShut == ShutInv /\ [Next]_vars => ShutInv'
<1> SUFFICES ASSUME ShutInv, [Next]_vars  PROVE ShutInv'  BY Zenon
<1>1. BarrierInv /\ QueueTypes /\ ShutTypes /\ Routed /\ GetsCounted  BY Zenon DEF ShutInv, BarrierInv
<1>2. BarrierInv'  BY <1>1, NextKeepsInv, Zenon
<1>3. ShutTypes' /\ Routed' /\ GetsCounted'
  BY <1>1, NextKeepsTypes, NextKeepsRouted, NextKeepsCount, Zenon
<1>4. \A n \in Node : NodeRight(n)'  BY <1>3, NextKeepsNodes, Zenon
<1>5. \A m, n \in Node : ChannelRight(m, n)'  BY NextKeepsChannels, Zenon
<1> QED  BY <1>2, <1>3, <1>4, <1>5, Zenon DEF ShutInv

\* Once a node has passed the barrier before Sender::Stop no node waits for a
\* Get, and no message of one is left.
LEMMA NoGetsLate ==
  ASSUME ShutInv, NEW n \in Node, main[n] \notin Working
  PROVE  \A k \in Node : \A l \in Loc : \A x \in Elems(Queue[l]) : ~GetOf(x, k)
<1>1. /\ QueueTypes /\ ShutTypes /\ CountTypes /\ OneAhead /\ BarrierSafe /\ GetsCounted
      /\ \A k \in Node : NodeRight(k)
  BY Zenon DEF ShutInv, BarrierInv, BarrierPart
<1>2. NumBarriers \in Nat /\ LastRound = NumBarriers + 2  BY MailboxAssumption DEF LastRound
<1>3. passed[n] >= NumBarriers + 1
  <2>1. passed[n] \in Nat /\ entered[n] \in Nat /\ main[n] \in Stage  BY <1>1, Zenon DEF CountTypes, QueueTypes
  <2>2. /\ bar[n] = "outside" => entered[n] = passed[n]
        /\ bar[n] # "outside" => entered[n] = passed[n] + 1
    BY <1>1, Zenon DEF OneAhead
  <2>3. main[n] \in {"join_sender", "StopMailbox"} \/ main[n] \in {"StopReceiving"} \cup Ended
    BY <2>1, Zenon DEF Stage, Working, Ended, Killed
  <2>4. CASE main[n] \in {"join_sender", "StopMailbox"}
    <3>1. entered[n] = NumBarriers + 1 /\ bar[n] = "outside"  BY <1>1, <2>4, Zenon DEF NodeRight, StageRight
    <3> QED  BY <1>2, <2>1, <2>2, <3>1
  <2>5. CASE main[n] \in {"StopReceiving"} \cup Ended
    <3>1. entered[n] = LastRound  BY <1>1, <2>5, Zenon DEF NodeRight, StageRight
    <3> QED  BY <1>2, <2>1, <2>2, <3>1
  <2> QED  BY <2>3, <2>4, <2>5, Zenon
<1>4. ASSUME NEW k \in Node  PROVE awaited[k] = 0
  <2>1. passed[n] <= entered[k] /\ entered[k] \in Nat /\ passed[n] \in Nat  BY <1>1, Zenon DEF BarrierSafe, CountTypes
  <2>2. ~(entered[k] <= NumBarriers)  BY <1>2, <1>3, <2>1
  <2> QED  BY <1>1, <2>2, Zenon DEF NodeRight, StageRight
<1>5. Queue \in [Loc -> Seq(Msg)] /\ \A k \in Node : Counted(Queue, k, 0)
  BY <1>1, <1>4, QueueIs, Zenon DEF GetsCounted
<1> QED  BY <1>5, CountZero, Zenon

\* The invariant implies that nothing is lost.
LEMMA ShutImplies == ShutInv => NothingLost
<1> SUFFICES ASSUME ShutInv, NEW n \in Node
             PROVE  /\ ~sending[n] => \A i \in DOMAIN send_queue[n] : ~Matters(send_queue[n][i])
                    /\ ~serving[n] => \A i \in DOMAIN work_queue[n] : ~Matters(work_queue[n][i])
                    /\ ~helping[n] => \A i \in DOMAIN helper_queue[n] : ~Matters(helper_queue[n][i])
                    /\ ~receiving[n] => \A m \in Node : channel[m][n] = <<>>
  BY Zenon DEF NothingLost
<1>1. QueueTypes /\ ShutTypes /\ NodeRight(n) /\ \A m \in Node : ChannelRight(m, n)
  BY Zenon DEF ShutInv, BarrierInv
<1>2. ASSUME NEW x \in Msg, x \notin RequestMsg, \A k \in Node : ~GetOf(x, k)  PROVE ~Matters(x)
  <2>1. x.flag \notin Request  BY <1>2, FlagOf, Zenon
  <2>2. ~(x.flag = "reply" /\ x.of = "kGet")
    <3>1. SUFFICES ASSUME x \in ReplyMsg, x.of = "kGet"  PROVE FALSE  BY FlagOf, Zenon
    <3>2. x.to \in Node  BY <3>1, Zenon DEF ReplyMsg
    <3> QED  BY <1>2, <3>1, <3>2, GetOfKinds, Zenon
  <2> QED  BY <2>1, <2>2, Zenon DEF Matters
<1>3. ASSUME ~sending[n], NEW i \in DOMAIN send_queue[n]  PROVE ~Matters(send_queue[n][i])
  <2>1. main[n] \notin Working /\ \A x \in Elems(send_queue[n]) : x \notin RequestMsg
    BY <1>1, <1>3, Zenon DEF NodeRight, SenderRight
  <2>2. send_queue[n] \in Seq(DataMsg \cup {Exit})  BY <1>1, Zenon DEF QueueTypes
  <2>3. send_queue[n][i] \in Elems(send_queue[n]) /\ send_queue[n][i] \in DataMsg \cup {Exit}
    BY <1>3, <2>2 DEF Elems
  <2>4. \A k \in Node : ~GetOf(send_queue[n][i], k)
    <3>1. AtSend(n) \in Loc /\ Queue[AtSend(n)] = send_queue[n]  BY <1>1, QueueIs, Zenon
    <3> QED  BY <2>1, <2>3, <3>1, NoGetsLate, Zenon
  <2> QED  BY <1>2, <2>1, <2>3, <2>4, Zenon DEF Msg
<1>4. ASSUME ~serving[n]  PROVE \A i \in DOMAIN work_queue[n] : ~Matters(work_queue[n][i])
  <2>1. work_queue[n] = <<>>  BY <1>1, <1>4, Zenon DEF NodeRight, ServerRight
  <2>2. \A i : i \notin DOMAIN <<>>  OBVIOUS
  <2> QED  BY <2>1, <2>2, Zenon
<1>5. ASSUME ~helping[n], NEW i \in DOMAIN helper_queue[n]  PROVE ~Matters(helper_queue[n][i])
  <2>1. main[n] \notin Working  BY <1>1, <1>5, Zenon DEF NodeRight, HelperRight, Killed, Working
  <2>2. helper_queue[n] \in Seq(ReplyMsg \cup {Exit})  BY <1>1, Zenon DEF ShutTypes
  <2>3. helper_queue[n][i] \in Elems(helper_queue[n]) /\ helper_queue[n][i] \in ReplyMsg \cup {Exit}
    BY <1>5, <2>2 DEF Elems
  <2>4. \A k \in Node : ~GetOf(helper_queue[n][i], k)
    <3>1. AtHelper(n) \in Loc /\ Queue[AtHelper(n)] = helper_queue[n]  BY <1>1, QueueIs, Zenon
    <3> QED  BY <2>1, <2>3, <3>1, NoGetsLate, Zenon
  <2>5. helper_queue[n][i] \in Msg  BY <2>3, Zenon DEF Msg, DataMsg
  <2>6. helper_queue[n][i] \notin RequestMsg  BY <2>3, <2>5, FlagOf, NoData, Zenon DEF DataMsg
  <2> QED  BY <1>2, <2>4, <2>5, <2>6, Zenon
<1>6. ASSUME ~receiving[n], NEW m \in Node  PROVE channel[m][n] = <<>>
  <2>1. main[n] \in Ended  BY <1>1, <1>6, Zenon DEF NodeRight, StageRight
  <2> QED  BY <1>1, <1>6, <2>1, Zenon DEF ChannelRight
<1> QED  BY <1>3, <1>4, <1>5, <1>6, Zenon

(***************************************************************************)
(* Engine::StopEverything loses nothing that matters, for any number of    *)
(* nodes, of barriers and of requests: a sender, server or helper thread   *)
(* that has ended leaves no request and no reply to a Get in its queue,    *)
(* and nothing is on its way to a node whose Mailbox::Receiving has ended. *)
(***************************************************************************)
THEOREM NothingIsLost == Spec => []NothingLost
<1>1. Init => ShutInv  BY InitHasShut
<1>2. ShutInv /\ [Next]_vars => ShutInv'  BY NextKeepsShut
<1>3. ShutInv => NothingLost  BY ShutImplies
<1> QED  BY <1>1, <1>2, <1>3, PTL DEF Spec
=============================================================================
