---------------------------- MODULE KVClientProofs ----------------------------
(***************************************************************************)
(* KVClientTable::Get for any number of threads, servers, keys and calls:  *)
(* its handler writes to a live frame, it returns when it is complete, and *)
(* a thread reads its own updates.                                         *)
(***************************************************************************)
EXTENDS KVClient, FiniteSetTheorems, TLAPS

Preparing == {"RegisterRecvHandle", "RegisterRecvFinishHandle", "NewRequest"}
Waiting == {"send", "WaitRequest", "asleep"}

Message == Reply \cup OtherReply

-----------------------------------------------------------------------------
(* What a queue holds.                                                     *)

LastIsGet(q) == q # <<>> /\ q[Len(q)].flag = "kGet"

GetsLast(q) == \A i \in 1 .. Len(q) - 1 : q[i].flag # "kGet"

UpdatesOf(q) == UNION {q[i].updates : i \in {j \in 1 .. Len(q) : q[j].flag = "kAdd"}}

ClocksOf(q) == {q[i].clock : i \in {j \in 1 .. Len(q) : q[j].flag = "kClock"}}

RepliesIn(w) == {w[i] : i \in {j \in 1 .. Len(w) : w[j].flag = "kGet"}}

\* At most one reply of a server.
Distinct(w) ==
  \A i, j \in 1 .. Len(w) :
    w[i].flag = "kGet" /\ w[j].flag = "kGet" /\ w[i].server = w[j].server => i = j

-----------------------------------------------------------------------------
(* The invariant, for one thread.                                          *)

\* Replies that are not counted yet.
Handling(t) == IF helper[t] = Polling THEN {} ELSE {helper[t].msg}
Coming(t) == RepliesIn(work_queue[t]) \cup Handling(t)

\* Servers whose part of the Get is not counted yet.
Open(t) ==
  unsent[t] \cup {s \in Server : LastIsGet(channel[t][s])} \cup {m.server : m \in Coming(t)}

Done(t) == DOMAIN Sliced(t) \ Open(t)

\* Servers whose reply is in the map of the Get.
Written(t) == Done(t) \cup (IF helper[t].at = "count" THEN {helper[t].msg.server} ELSE {})

\* A reply is to the Get in progress and has the values that Get is to return.
Answers(t, m) ==
  /\ pc[t] \in Waiting
  /\ m.get = op[t]
  /\ m.server \in DOMAIN Sliced(t) \ unsent[t]
  /\ m.keys = SliceKeys(t, m.server)
  /\ m.vals = {u \in added[t] : u[1] \in m.keys}
  /\ m.clocks = clocked[t]

RequestsRight(t) ==
  \A s \in Server :
    /\ GetsLast(channel[t][s])
    /\ LastIsGet(channel[t][s]) =>
         LET m == channel[t][s][Len(channel[t][s])]
         IN  /\ pc[t] \in Waiting
             /\ s \in DOMAIN Sliced(t) \ unsent[t]
             /\ m.get = op[t] /\ m.keys = SliceKeys(t, s)

RepliesRight(t) ==
  /\ \A m \in Coming(t) : Answers(t, m) /\ ~LastIsGet(channel[t][m.server])
  /\ Distinct(work_queue[t])
  /\ \A m \in RepliesIn(work_queue[t]), h \in Handling(t) : m.server # h.server

PhaseRight(t) ==
  /\ pc[t] \in {"RegisterRecvFinishHandle", "NewRequest"} \cup Waiting => recv_handles[t] = op[t]
  /\ unsent[t] \subseteq DOMAIN Sliced(t)
  /\ pc[t] \in Preparing => unsent[t] = DOMAIN Sliced(t)
  /\ pc[t] \in Places \ (Preparing \cup {"send"}) => unsent[t] = {}
  /\ pc[t] \in Preparing \cup {"user_code"} => DOMAIN cache[t] = {}

CountRight(t) ==
  pc[t] \in Waiting =>
    /\ tracker[t].expected = Cardinality(DOMAIN Sliced(t))
    /\ tracker[t].received = Cardinality(Done(t))

CacheRight(t) ==
  pc[t] \in Waiting \cup {"return"} =>
    /\ DOMAIN cache[t] = UNION {SliceKeys(t, s) : s \in Written(t)}
    /\ \A k \in DOMAIN cache[t] :
         /\ cache[t][k].get = op[t]
         /\ cache[t][k].val = {u \in added[t] : u[1] = k}
         /\ cache[t][k].clocks = clocked[t]

\* What a thread sent to a server was received or is in the channel.
SentRight(t) ==
  \A s \in Server :
    /\ {u \in added[t] : ServerOf(partition_manager, u[1]) = s}
         = storage[t][s] \cup UpdatesOf(channel[t][s])
    /\ clocked[t] = progress[t][s] \cup ClocksOf(channel[t][s])

ThreadInv(t) ==
  /\ RequestsRight(t) /\ RepliesRight(t) /\ PhaseRight(t) /\ CountRight(t)
  /\ CacheRight(t) /\ SentRight(t)

KVInv == TypeOK /\ \A t \in Thread : ThreadInv(t)

-----------------------------------------------------------------------------
(* Queues.                                                                 *)

\* What Append does to a queue (ThreadsafeQueue::Push).
LEMMA Appended ==
  ASSUME NEW S, NEW q \in Seq(S), NEW x \in S
  PROVE  /\ Append(q, x) \in Seq(S)
         /\ Len(q) \in Nat
         /\ Len(Append(q, x)) = Len(q) + 1
         /\ \A i \in 1 .. Len(q) : Append(q, x)[i] = q[i]
         /\ Append(q, x)[Len(q) + 1] = x
  OBVIOUS

\* What Head and Tail do to a queue (ThreadsafeQueue::WaitAndPop).
LEMMA Popped ==
  ASSUME NEW S, NEW q \in Seq(S), q # <<>>
  PROVE  /\ Tail(q) \in Seq(S)
         /\ Len(q) \in Nat \ {0}
         /\ Len(Tail(q)) = Len(q) - 1
         /\ \A i \in 1 .. Len(q) - 1 : Tail(q)[i] = q[i + 1]
         /\ Head(q) = q[1]
         /\ Head(q) \in S
  OBVIOUS

\* A thread sends a message to a server after which no Get is waiting there.
LEMMA RequestAppended ==
  ASSUME NEW q \in Seq(Request), NEW x \in Request, ~LastIsGet(q), GetsLast(q)
  PROVE  /\ Append(q, x) \in Seq(Request)
         /\ GetsLast(Append(q, x))
         /\ LastIsGet(Append(q, x)) <=> x.flag = "kGet"
         /\ Append(q, x)[Len(Append(q, x))] = x
         /\ UpdatesOf(Append(q, x)) = UpdatesOf(q) \cup (IF x.flag = "kAdd" THEN x.updates ELSE {})
         /\ ClocksOf(Append(q, x)) = ClocksOf(q) \cup (IF x.flag = "kClock" THEN {x.clock} ELSE {})
<1> DEFINE a == Append(q, x)
<1>1. /\ a \in Seq(Request) /\ Len(q) \in Nat /\ Len(a) = Len(q) + 1
      /\ \A i \in 1 .. Len(q) : a[i] = q[i]
      /\ a[Len(q) + 1] = x
  BY Appended
<1>2. a # <<>>  BY <1>1
<1> HIDE DEF a
<1>3. \A i \in 1 .. Len(q) : q[i].flag = "kGet" => i = Len(q) /\ q # <<>>
  BY <1>1 DEF GetsLast
<1>4. \A i \in 1 .. Len(q) : q[i].flag # "kGet"  BY <1>3, Zenon DEF LastIsGet
<1>5. GetsLast(a)  BY <1>1, <1>4 DEF GetsLast
<1>6. (LastIsGet(a) <=> x.flag = "kGet") /\ a[Len(a)] = x  BY <1>1, <1>2, Zenon DEF LastIsGet
<1>7. 1 .. Len(a) = (1 .. Len(q)) \cup {Len(q) + 1}  BY <1>1
<1>8. UpdatesOf(a) = UpdatesOf(q) \cup (IF x.flag = "kAdd" THEN x.updates ELSE {})
  <2>1. \A u : u \in UpdatesOf(a) <=> \E i \in 1 .. Len(a) : a[i].flag = "kAdd" /\ u \in a[i].updates
    BY Zenon DEF UpdatesOf
  <2>2. \A u : u \in UpdatesOf(q) <=> \E i \in 1 .. Len(q) : q[i].flag = "kAdd" /\ u \in q[i].updates
    BY Zenon DEF UpdatesOf
  <2>3. \A u : u \in UpdatesOf(a) <=> u \in UpdatesOf(q) \/ (x.flag = "kAdd" /\ u \in x.updates)
    BY <2>1, <2>2, <1>1, <1>7, Zenon
  <2> QED  BY <2>3, Zenon
<1>9. ClocksOf(a) = ClocksOf(q) \cup (IF x.flag = "kClock" THEN {x.clock} ELSE {})
  <2>1. \A n : n \in ClocksOf(a) <=> \E i \in 1 .. Len(a) : a[i].flag = "kClock" /\ n = a[i].clock
    BY Zenon DEF ClocksOf
  <2>2. \A n : n \in ClocksOf(q) <=> \E i \in 1 .. Len(q) : q[i].flag = "kClock" /\ n = q[i].clock
    BY Zenon DEF ClocksOf
  <2>3. \A n : n \in ClocksOf(a) <=> n \in ClocksOf(q) \/ (x.flag = "kClock" /\ n = x.clock)
    BY <2>1, <2>2, <1>1, <1>7
  <2> QED  BY <2>3, Zenon
<1> QED  BY <1>1, <1>5, <1>6, <1>8, <1>9, Zenon DEF a

\* A server takes the next message of a thread.
LEMMA RequestPopped ==
  ASSUME NEW q \in Seq(Request), q # <<>>, GetsLast(q)
  PROVE  /\ Tail(q) \in Seq(Request) /\ Head(q) \in Request
         /\ GetsLast(Tail(q))
         /\ Head(q).flag = "kGet" => Tail(q) = <<>> /\ LastIsGet(q) /\ Head(q) = q[Len(q)]
         /\ Head(q).flag # "kGet" => (LastIsGet(Tail(q)) <=> LastIsGet(q))
         /\ LastIsGet(Tail(q)) => Tail(q)[Len(Tail(q))] = q[Len(q)]
         /\ UpdatesOf(q) = UpdatesOf(Tail(q)) \cup (IF Head(q).flag = "kAdd" THEN Head(q).updates ELSE {})
         /\ ClocksOf(q) = ClocksOf(Tail(q)) \cup (IF Head(q).flag = "kClock" THEN {Head(q).clock} ELSE {})
<1> DEFINE b == Tail(q)  x == Head(q)
<1>1. /\ b \in Seq(Request) /\ Len(q) \in Nat \ {0} /\ Len(b) = Len(q) - 1
      /\ \A i \in 1 .. Len(q) - 1 : b[i] = q[i + 1]
      /\ x = q[1] /\ x \in Request
  BY Popped, Zenon
<1> HIDE DEF b, x
<1>2. b = <<>> <=> Len(b) = 0  BY <1>1
<1>3. GetsLast(b)
  <2>1. SUFFICES ASSUME NEW i \in 1 .. Len(b) - 1  PROVE b[i].flag # "kGet"  BY Zenon DEF GetsLast
  <2>2. i \in 1 .. Len(q) - 1 /\ i + 1 \in 1 .. Len(q) - 1  BY <1>1
  <2> QED  BY <1>1, <2>2, Zenon DEF GetsLast
<1>4. x.flag = "kGet" => Len(q) = 1
  <2>1. Len(q) # 1 => 1 \in 1 .. Len(q) - 1  BY <1>1
  <2> QED  BY <1>1, <2>1, Zenon DEF GetsLast
<1>5. x.flag = "kGet" => b = <<>> /\ LastIsGet(q) /\ x = q[Len(q)]  BY <1>1, <1>2, <1>4 DEF LastIsGet
<1>6. Len(q) # 1 => b # <<>> /\ b[Len(b)] = q[Len(q)]
  <2> SUFFICES ASSUME Len(q) # 1  PROVE b # <<>> /\ b[Len(b)] = q[Len(q)]  BY Zenon
  <2>1. Len(b) # 0 /\ Len(b) \in 1 .. Len(q) - 1 /\ Len(b) + 1 = Len(q)  BY <1>1
  <2> QED  BY <1>1, <1>2, <2>1, Zenon
<1>7. Len(q) = 1 => b = <<>> /\ (LastIsGet(q) <=> x.flag = "kGet")  BY <1>1, <1>2 DEF LastIsGet
<1>8. x.flag # "kGet" => (LastIsGet(b) <=> LastIsGet(q))  BY <1>6, <1>7, Zenon DEF LastIsGet
<1>9. LastIsGet(b) => b[Len(b)] = q[Len(q)]  BY <1>6, <1>7, Zenon DEF LastIsGet
<1>10. \A i \in 1 .. Len(q) : i = 1 \/ (i - 1 \in 1 .. Len(b) /\ q[i] = b[i - 1])
  <2> SUFFICES ASSUME NEW i \in 1 .. Len(q), i # 1  PROVE i - 1 \in 1 .. Len(b) /\ q[i] = b[i - 1]
    BY Zenon
  <2>1. i - 1 \in 1 .. Len(q) - 1 /\ (i - 1) + 1 = i  BY <1>1
  <2> QED  BY <1>1, <2>1, Zenon
<1>11. \A i \in 1 .. Len(b) : i + 1 \in 1 .. Len(q) /\ b[i] = q[i + 1]  BY <1>1
<1>12. 1 \in 1 .. Len(q)  BY <1>1
<1>13. UpdatesOf(q) = UpdatesOf(b) \cup (IF x.flag = "kAdd" THEN x.updates ELSE {})
  <2>1. \A u : u \in UpdatesOf(b) <=> \E i \in 1 .. Len(b) : b[i].flag = "kAdd" /\ u \in b[i].updates
    BY Zenon DEF UpdatesOf
  <2>2. \A u : u \in UpdatesOf(q) <=> \E i \in 1 .. Len(q) : q[i].flag = "kAdd" /\ u \in q[i].updates
    BY Zenon DEF UpdatesOf
  <2>3. \A u : u \in UpdatesOf(q) => u \in UpdatesOf(b) \/ (x.flag = "kAdd" /\ u \in x.updates)
    BY <2>1, <2>2, <1>1, <1>10
  <2>4. \A u : u \in UpdatesOf(b) \/ (x.flag = "kAdd" /\ u \in x.updates) => u \in UpdatesOf(q)
    BY <2>1, <2>2, <1>1, <1>11, <1>12, Zenon
  <2> QED  BY <2>3, <2>4, Zenon
<1>14. ClocksOf(q) = ClocksOf(b) \cup (IF x.flag = "kClock" THEN {x.clock} ELSE {})
  <2>1. \A n : n \in ClocksOf(b) <=> \E i \in 1 .. Len(b) : b[i].flag = "kClock" /\ n = b[i].clock
    BY Zenon DEF ClocksOf
  <2>2. \A n : n \in ClocksOf(q) <=> \E i \in 1 .. Len(q) : q[i].flag = "kClock" /\ n = q[i].clock
    BY Zenon DEF ClocksOf
  <2>3. \A n : n \in ClocksOf(q) => n \in ClocksOf(b) \/ (x.flag = "kClock" /\ n = x.clock)
    BY <2>1, <2>2, <1>1, <1>10
  <2>4. \A n : n \in ClocksOf(b) \/ (x.flag = "kClock" /\ n = x.clock) => n \in ClocksOf(q)
    BY <2>1, <2>2, <1>1, <1>11, <1>12
  <2> QED  BY <2>3, <2>4, Zenon
<1> QED  BY <1>1, <1>3, <1>5, <1>8, <1>9, <1>13, <1>14, Zenon DEF b, x

\* The mailbox pushes a reply on the queue of a helper.
LEMMA ReplyAppended ==
  ASSUME NEW w \in Seq(Message), NEW m \in Message, Distinct(w),
         m.flag = "kGet" => \A r \in RepliesIn(w) : r.server # m.server
  PROVE  /\ Append(w, m) \in Seq(Message)
         /\ RepliesIn(Append(w, m)) = RepliesIn(w) \cup (IF m.flag = "kGet" THEN {m} ELSE {})
         /\ Distinct(Append(w, m))
<1> DEFINE a == Append(w, m)
<1>1. /\ a \in Seq(Message) /\ Len(w) \in Nat /\ Len(a) = Len(w) + 1
      /\ \A i \in 1 .. Len(w) : a[i] = w[i]
      /\ a[Len(w) + 1] = m
  BY Appended
<1> HIDE DEF a
<1>2. 1 .. Len(a) = (1 .. Len(w)) \cup {Len(w) + 1}  BY <1>1
<1>3. RepliesIn(a) = RepliesIn(w) \cup (IF m.flag = "kGet" THEN {m} ELSE {})
  <2>1. \A r : r \in RepliesIn(a) <=> \E i \in 1 .. Len(a) : a[i].flag = "kGet" /\ r = a[i]
    BY Zenon DEF RepliesIn
  <2>2. \A r : r \in RepliesIn(w) <=> \E i \in 1 .. Len(w) : w[i].flag = "kGet" /\ r = w[i]
    BY Zenon DEF RepliesIn
  <2>3. \A r : r \in RepliesIn(a) <=> r \in RepliesIn(w) \/ (m.flag = "kGet" /\ r = m)
    BY <2>1, <2>2, <1>1, <1>2
  <2> QED  BY <2>3
<1>4. \A i \in 1 .. Len(w) : w[i].flag = "kGet" => w[i] \in RepliesIn(w)  BY Zenon DEF RepliesIn
<1>5. Distinct(a)
  <2> SUFFICES ASSUME NEW i \in 1 .. Len(a), NEW j \in 1 .. Len(a), a[i].flag = "kGet",
                      a[j].flag = "kGet", a[i].server = a[j].server
               PROVE  i = j
    BY Zenon DEF Distinct
  <2>1. CASE i \in 1 .. Len(w) /\ j \in 1 .. Len(w)  BY <1>1, <2>1, Zenon DEF Distinct
  <2>2. CASE i \in 1 .. Len(w) /\ j = Len(w) + 1  BY <1>1, <1>4, <2>2, Zenon
  <2>3. CASE i = Len(w) + 1 /\ j \in 1 .. Len(w)  BY <1>1, <1>4, <2>3, Zenon
  <2> QED  BY <1>2, <2>1, <2>2, <2>3, Zenon
<1> QED  BY <1>1, <1>3, <1>5, Zenon DEF a

\* A helper takes the next message.
LEMMA ReplyPopped ==
  ASSUME NEW w \in Seq(Message), w # <<>>, Distinct(w)
  PROVE  /\ Tail(w) \in Seq(Message) /\ Head(w) \in Message
         /\ RepliesIn(w) = RepliesIn(Tail(w)) \cup (IF Head(w).flag = "kGet" THEN {Head(w)} ELSE {})
         /\ Distinct(Tail(w))
         /\ Head(w).flag = "kGet" => \A r \in RepliesIn(Tail(w)) : r.server # Head(w).server
<1> DEFINE b == Tail(w)  m == Head(w)
<1>1. /\ b \in Seq(Message) /\ Len(w) \in Nat \ {0} /\ Len(b) = Len(w) - 1
      /\ \A i \in 1 .. Len(w) - 1 : b[i] = w[i + 1]
      /\ m = w[1] /\ m \in Message
  BY Popped, Zenon
<1> HIDE DEF b, m
<1>2. \A i \in 1 .. Len(w) : i = 1 \/ (i - 1 \in 1 .. Len(b) /\ w[i] = b[i - 1])
  <2> SUFFICES ASSUME NEW i \in 1 .. Len(w), i # 1  PROVE i - 1 \in 1 .. Len(b) /\ w[i] = b[i - 1]
    BY Zenon
  <2>1. i - 1 \in 1 .. Len(w) - 1 /\ (i - 1) + 1 = i  BY <1>1
  <2> QED  BY <1>1, <2>1, Zenon
<1>3. \A i \in 1 .. Len(b) : i + 1 \in 1 .. Len(w) /\ i + 1 # 1 /\ b[i] = w[i + 1]  BY <1>1
<1>4. 1 \in 1 .. Len(w)  BY <1>1
<1>5. RepliesIn(w) = RepliesIn(b) \cup (IF m.flag = "kGet" THEN {m} ELSE {})
  <2>1. \A r : r \in RepliesIn(b) <=> \E i \in 1 .. Len(b) : b[i].flag = "kGet" /\ r = b[i]
    BY Zenon DEF RepliesIn
  <2>2. \A r : r \in RepliesIn(w) <=> \E i \in 1 .. Len(w) : w[i].flag = "kGet" /\ r = w[i]
    BY Zenon DEF RepliesIn
  <2>3. \A r : r \in RepliesIn(w) => r \in RepliesIn(b) \/ (m.flag = "kGet" /\ r = m)
    BY <2>1, <2>2, <1>1, <1>2
  <2>4. \A r : r \in RepliesIn(b) \/ (m.flag = "kGet" /\ r = m) => r \in RepliesIn(w)
    BY <2>1, <2>2, <1>1, <1>3, <1>4
  <2> QED  BY <2>3, <2>4, Zenon
<1>6. Distinct(b)
  <2> SUFFICES ASSUME NEW i \in 1 .. Len(b), NEW j \in 1 .. Len(b), b[i].flag = "kGet",
                      b[j].flag = "kGet", b[i].server = b[j].server
               PROVE  i = j
    BY Zenon DEF Distinct
  <2>1. i + 1 = j + 1  BY <1>3, Zenon DEF Distinct
  <2> QED  BY <2>1
<1>7. m.flag = "kGet" => \A r \in RepliesIn(b) : r.server # m.server
  <2> SUFFICES ASSUME m.flag = "kGet", NEW i \in 1 .. Len(b), b[i].flag = "kGet"
               PROVE  b[i].server # m.server
    BY Zenon DEF RepliesIn
  <2> QED  BY <1>1, <1>3, <1>4, Zenon DEF Distinct
<1> QED  BY <1>1, <1>5, <1>6, <1>7, Zenon DEF b, m

-----------------------------------------------------------------------------
(* Slicing.                                                                *)

\* Both partition managers place a key on one of the servers.
LEMMA ServerOfKey ==
  ASSUME NEW manager, NEW k \in Key
  PROVE  ServerOf(manager, k) \in Server
<1> DEFINE n == Len(server_thread_ids)
<1>1. n \in Nat \ {0} /\ \A i \in 1 .. n : server_thread_ids[i] \in Server
  <2>1. server_thread_ids \in Seq(Server) /\ server_thread_ids # <<>>  BY PartitionAssumption, Zenon
  <2> QED  BY <2>1
<1>2. HashServer(k) \in Server
  <2>1. k \in Nat  BY KVClientAssumption, Zenon
  <2>2. (k % n) + 1 \in 1 .. n  BY <1>1, <2>1
  <2> QED  BY <1>1, <2>2, Zenon DEF HashServer
<1>3. RangeServer(k) \in Server
  <2>1. PICK i \in DOMAIN ranges : InRange(i, k)  BY KVClientAssumption, Zenon DEF Held
  <2>2. DOMAIN ranges = 1 .. n  BY PartitionAssumption
  <2>3. ASSUME NEW j \in 1 .. i - 1  PROVE ~InRange(j, k)
    <3>1. j \in DOMAIN ranges /\ j # i  BY <2>2
    <3>2. /\ ranges[i] \in Nat \X Nat /\ ranges[j] \in Nat \X Nat
          /\ (ranges[i][2] <= ranges[j][1] \/ ranges[j][2] <= ranges[i][1])
      BY <3>1, PartitionAssumption
    <3>3. k \in Nat  BY KVClientAssumption, Zenon
    <3> QED  BY <2>1, <3>2, <3>3 DEF InRange
  <2>4. \E l \in DOMAIN ranges : InRange(l, k) /\ \A j \in 1 .. l - 1 : ~InRange(j, k)
    BY <2>1, <2>3, Zenon
  <2> DEFINE first == CHOOSE l \in DOMAIN ranges : InRange(l, k) /\ \A j \in 1 .. l - 1 : ~InRange(j, k)
  <2>5. first \in DOMAIN ranges  BY <2>4, Zenon
  <2> QED  BY <1>1, <2>2, <2>5, Zenon DEF RangeServer
<1> QED  BY <1>2, <1>3, Zenon DEF ServerOf

\* Every key is in exactly the slice of its server.
LEMMA SliceExact ==
  ASSUME NEW manager, NEW ks \in Seq(Key)
  PROVE  /\ DOMAIN Slice(manager, ks) \subseteq Server
         /\ IsFiniteSet(DOMAIN Slice(manager, ks))
         /\ \A i \in DOMAIN ks : ServerOf(manager, ks[i]) \in DOMAIN Slice(manager, ks)
         /\ \A s \in DOMAIN Slice(manager, ks) : \A i :
              i \in Slice(manager, ks)[s] <=> i \in DOMAIN ks /\ ServerOf(manager, ks[i]) = s
<1> DEFINE D == {ServerOf(manager, ks[i]) : i \in DOMAIN ks}
           f == [i \in DOMAIN ks |-> ServerOf(manager, ks[i])]
<1>1. DOMAIN Slice(manager, ks) = D  BY Zenon DEF Slice
<1>2. D \subseteq Server  BY ServerOfKey
<1>3. DOMAIN ks = 1 .. Len(ks) /\ Len(ks) \in Nat  OBVIOUS
<1>4. IsFiniteSet(DOMAIN ks)  BY <1>3, FS_Interval
<1>5. f \in Surjection(DOMAIN ks, D)  BY Zenon DEF Surjection
<1>6. IsFiniteSet(D)  BY <1>4, <1>5, FS_Surjection, Zenon DEF ExistsSurjection
<1>7. \A s \in D : \A i :
        i \in Slice(manager, ks)[s] <=> i \in DOMAIN ks /\ ServerOf(manager, ks[i]) = s
  BY Zenon DEF Slice
<1> QED  BY <1>1, <1>2, <1>6, <1>7, Zenon

\* Every key of a slice belongs to the server of the slice.
LEMMA SliceOwn ==
  ASSUME NEW manager, NEW ks \in Seq(Key), NEW s \in DOMAIN Slice(manager, ks),
         NEW i \in Slice(manager, ks)[s]
  PROVE  ServerOf(manager, ks[i]) = s
  BY SliceExact

\* So it is with the pairs of an Add.
LEMMA SameSlices ==
  ASSUME NEW manager, NEW kvs  PROVE SliceKVs(manager, kvs) = Slice(manager, kvs)
  BY Zenon DEF SliceKVs, Slice

-----------------------------------------------------------------------------
(* Types.                                                                  *)

\* The messages of an Add.
LEMMA AddTypes ==
  ASSUME NEW kvs \in Seq(Key), NEW n \in Nat, NEW positions \in SUBSET DOMAIN kvs
  PROVE  At(kvs, n, positions) \in SUBSET Update
<1>1. \A i \in DOMAIN kvs : kvs[i] \in Key /\ i \in Nat  OBVIOUS
<1> QED  BY <1>1 DEF At, Update

\* The slices of a Get are finitely many and hold keys.
LEMMA SliceTypes ==
  ASSUME TypeOK, NEW t \in Thread
  PROVE  /\ IsFiniteSet(DOMAIN Sliced(t)) /\ Cardinality(DOMAIN Sliced(t)) \in Nat
         /\ \A s \in DOMAIN Sliced(t) : s \in Server /\ SliceKeys(t, s) \in SUBSET Key
<1>1. keys[t] \in Seq(Key)  BY Zenon DEF TypeOK
<1>2. /\ DOMAIN Sliced(t) \subseteq Server /\ IsFiniteSet(DOMAIN Sliced(t))
      /\ \A s \in DOMAIN Sliced(t) : Sliced(t)[s] \subseteq DOMAIN keys[t]
  BY <1>1, SliceExact, Zenon DEF Sliced
<1>3. \A i \in DOMAIN keys[t] : keys[t][i] \in Key  BY <1>1
<1> QED  BY <1>2, <1>3, FS_CardinalityType, Zenon DEF SliceKeys

\* The calls of a worker thread.
LEMMA ThreadTypes ==
  ASSUME TypeOK, NEW t \in Thread, PhaseRight(t),
         \/ Environment(t) \/ (\E kvs \in Updates : Add(t, kvs)) \/ Clock(t) \/ ThreadStep(t)
  PROVE  TypeOK'
<1> USE DEF Goto, frame, blocker, server, history, elsewhere, MayPush
<1>1. CASE \E asked \in Asked[t] : CallGet(t, asked) /\ UNCHANGED elsewhere
  <2>1. PICK asked \in Asked[t] : CallGet(t, asked) /\ UNCHANGED elsewhere  BY <1>1, Zenon
  <2>2. asked \in Seq(Key)  BY KVClientAssumption, Zenon
  <2>3. DOMAIN Slice(partition_manager, asked) \subseteq Server  BY <2>2, SliceExact, Zenon
  <2>4. op[t] + 1 \in Nat  BY DEF TypeOK
  <2> QED  BY <2>1, <2>2, <2>3, <2>4, Zenon DEF CallGet, TypeOK, Places
<1>2. CASE WakeSpuriously(t) /\ UNCHANGED elsewhere
  BY <1>2, Zenon DEF WakeSpuriously, TypeOK, Places
<1>3. CASE \E kvs \in Updates : Add(t, kvs)
  <2>1. PICK kvs \in Updates : Add(t, kvs)  BY <1>3, Zenon
  <2>2. kvs \in Seq(Key)  BY KVClientAssumption, Zenon
  <2> DEFINE sliced == SliceKVs(partition_manager, kvs)
             msg(s) == [flag |-> "kAdd", updates |-> At(kvs, pushes[t], sliced[s])]
             sent == [s \in Server |->
                IF s \in DOMAIN sliced THEN Append(channel[t][s], msg(s)) ELSE channel[t][s]]
  <2>3. pushes[t] \in Nat /\ pushes[t] + 1 \in Nat  BY DEF TypeOK
  <2>4. ASSUME NEW s \in DOMAIN sliced  PROVE msg(s) \in Request
    <3>1. sliced[s] \in SUBSET DOMAIN kvs  BY <2>2, SliceExact, SameSlices, Zenon
    <3>2. At(kvs, pushes[t], sliced[s]) \in SUBSET Update  BY <2>2, <2>3, <3>1, AddTypes, Zenon
    <3> QED  BY <3>2, Zenon DEF Request
  <2>5. sent \in [Server -> Seq(Request)]
    <3>1. \A s \in Server : channel[t][s] \in Seq(Request)  BY DEF TypeOK
    <3> HIDE DEF msg
    <3>2. \A s \in DOMAIN sliced : s \in Server => Append(channel[t][s], msg(s)) \in Seq(Request)
      BY <2>4, <3>1, Appended, Zenon
    <3> QED  BY <3>1, <3>2, Zenon
  <2>6. channel' = [channel EXCEPT ![t] = sent]  BY <2>1, Zenon DEF Add
  <2> HIDE DEF sent
  <2>7. channel' \in [Thread -> [Server -> Seq(Request)]]  BY <2>5, <2>6, Zenon DEF TypeOK
  <2>8. At(kvs, pushes[t], DOMAIN kvs) \in SUBSET Update  BY <2>2, <2>3, AddTypes, Zenon
  <2>9. added' \in [Thread -> SUBSET Update]  BY <2>1, <2>8, Zenon DEF Add, TypeOK
  <2>10. pushes' \in [Thread -> Nat]  BY <2>1, <2>3, Zenon DEF Add, TypeOK
  <2> QED  BY <2>1, <2>7, <2>9, <2>10, Zenon DEF Add, TypeOK
<1>4. CASE Clock(t)
  <2> DEFINE msg == [flag |-> "kClock", clock |-> pushes[t]]
             sent == [s \in Server |-> Append(channel[t][s], msg)]
  <2>1. pushes[t] \in Nat /\ pushes[t] + 1 \in Nat  BY DEF TypeOK
  <2>2. msg \in Request  BY <2>1, Zenon DEF Request
  <2>3. sent \in [Server -> Seq(Request)]
    <3>1. \A s \in Server : channel[t][s] \in Seq(Request)  BY DEF TypeOK
    <3> HIDE DEF msg
    <3> QED  BY <2>2, <3>1, Appended, Zenon
  <2>4. channel' = [channel EXCEPT ![t] = sent]  BY <1>4, Zenon DEF Clock
  <2> HIDE DEF sent
  <2>5. channel' \in [Thread -> [Server -> Seq(Request)]]  BY <2>3, <2>4, Zenon DEF TypeOK
  <2>6. clocked' \in [Thread -> SUBSET Nat]  BY <1>4, <2>1, Zenon DEF Clock, TypeOK
  <2>7. pushes' \in [Thread -> Nat]  BY <1>4, <2>1, Zenon DEF Clock, TypeOK
  <2> QED  BY <1>4, <2>5, <2>6, <2>7, Zenon DEF Clock, TypeOK
<1>5. CASE RegisterRecvHandle(t) /\ UNCHANGED elsewhere
  BY <1>5, Zenon DEF RegisterRecvHandle, TypeOK, Places
<1>6. CASE RegisterRecvFinishHandle(t) /\ UNCHANGED elsewhere
  BY <1>6, Zenon DEF RegisterRecvFinishHandle, TypeOK, Places
<1>7. CASE NewRequest(t) /\ UNCHANGED elsewhere
  BY <1>7, SliceTypes, Zenon DEF NewRequest, TypeOK, Places
<1>8. CASE \E s \in Server : SendSlice(t, s) /\ UNCHANGED elsewhere
  <2>1. PICK s \in Server : SendSlice(t, s) /\ UNCHANGED elsewhere  BY <1>8, Zenon
  <2> DEFINE msg == [flag |-> "kGet", get |-> op[t], keys |-> SliceKeys(t, s)]
  <2>2. msg \in Request
    <3>1. SliceKeys(t, s) \in SUBSET Key  BY <2>1, SliceTypes, Zenon DEF SendSlice, PhaseRight
    <3> QED  BY <3>1, Zenon DEF Request, TypeOK
  <2>3. channel' = [channel EXCEPT ![t][s] = Append(@, msg)]  BY <2>1, Zenon DEF SendSlice
  <2> HIDE DEF msg
  <2>4. channel[t][s] \in Seq(Request)  BY DEF TypeOK
  <2>5. Append(channel[t][s], msg) \in Seq(Request)  BY <2>2, <2>4
  <2>6. channel' \in [Thread -> [Server -> Seq(Request)]]  BY <2>3, <2>5, Zenon DEF TypeOK
  <2> QED  BY <2>1, <2>6, Zenon DEF SendSlice, TypeOK
<1>9. CASE SendDone(t) /\ UNCHANGED elsewhere  BY <1>9, Zenon DEF SendDone, TypeOK, Places
<1>10. CASE WaitRequest(t) /\ UNCHANGED elsewhere  BY <1>10, Zenon DEF WaitRequest, TypeOK, Places
<1>11. CASE ReturnFromGet(t) /\ UNCHANGED elsewhere
  <2>1. DOMAIN EmptyMap = {}  BY Zenon DEF EmptyMap
  <2>2. DOMAIN cache' = Thread /\ \A u \in Thread : DOMAIN cache'[u] \subseteq Key
    BY <1>11, <2>1, Zenon DEF ReturnFromGet, TypeOK
  <2>3. keys' \in [Thread -> Seq(Key)]
    <3>1. <<>> \in Seq(Key)  OBVIOUS
    <3>2. keys' = [keys EXCEPT ![t] = <<>>] /\ keys \in [Thread -> Seq(Key)]
      BY <1>11, Zenon DEF ReturnFromGet, TypeOK
    <3> QED  BY <3>1, <3>2, Zenon
  <2> QED  BY <1>11, <2>2, <2>3, Zenon DEF ReturnFromGet, TypeOK, Places
<1> QED  BY <1>1, <1>2, <1>3, <1>4, <1>5, <1>6, <1>7, <1>8, <1>9, <1>10, <1>11, Zenon
         DEF Environment, ThreadStep

\* The messages that the servers handle.
LEMMA ServerTypes ==
  ASSUME TypeOK, NEW t \in Thread, NEW s \in Server, ServerStep(t, s)
  PROVE  TypeOK'
<1> DEFINE q == channel[t][s]  m == Head(q)
<1> USE DEF frame, blocker, server, history
<1>1. q \in Seq(Request)  BY DEF TypeOK
<1>2. q # <<>>  BY Zenon DEF ServerStep, HandleAdd, HandleClock, Answer, Pop
<1>3. Tail(q) \in Seq(Request) /\ m \in Request  BY <1>1, <1>2, Popped, Zenon
<1>4. channel' = [channel EXCEPT ![t][s] = Tail(q)]
  BY Zenon DEF ServerStep, HandleAdd, HandleClock, Answer, Pop
<1> HIDE DEF m
<1>5. channel' \in [Thread -> [Server -> Seq(Request)]]  BY <1>3, <1>4, Zenon DEF TypeOK
<1>6. CASE HandleAdd(t, s) /\ UNCHANGED <<partition_manager, history>>
  <2>1. m.flag = "kAdd" /\ storage' = [storage EXCEPT ![t][s] = @ \cup m.updates]
    BY <1>6, Zenon DEF HandleAdd, Pop, m
  <2>2. m.updates \in SUBSET Update  BY <1>3, <2>1, Zenon DEF Request
  <2>3. storage' \in [Thread -> [Server -> SUBSET Update]]  BY <2>1, <2>2 DEF TypeOK
  <2> QED  BY <1>5, <1>6, <2>3, Zenon DEF HandleAdd, TypeOK
<1>7. CASE HandleClock(t, s) /\ UNCHANGED <<partition_manager, history>>
  <2>1. m.flag = "kClock" /\ progress' = [progress EXCEPT ![t][s] = @ \cup {m.clock}]
    BY <1>7, Zenon DEF HandleClock, Pop, m
  <2>2. m.clock \in Nat  BY <1>3, <2>1, Zenon DEF Request
  <2>3. progress' \in [Thread -> [Server -> SUBSET Nat]]  BY <2>1, <2>2 DEF TypeOK
  <2> QED  BY <1>5, <1>7, <2>3, Zenon DEF HandleClock, TypeOK
<1>8. CASE Answer(t, s) /\ UNCHANGED <<partition_manager, history>>
  <2> DEFINE r == ReplyTo(m, t, s)
  <2>1. m.flag = "kGet" /\ work_queue' = [work_queue EXCEPT ![t] = Append(@, r)]
    BY <1>8, Zenon DEF Answer, Pop, m
  <2>2. m.get \in Nat /\ m.keys \in SUBSET Key  BY <1>3, <2>1, Zenon DEF Request
  <2>3. storage[t][s] \in SUBSET Update /\ progress[t][s] \in SUBSET Nat  BY DEF TypeOK
  <2>4. r \in Reply  BY <2>2, <2>3, Zenon DEF ReplyTo, Reply
  <2> HIDE DEF r
  <2>5. work_queue[t] \in Seq(Reply \cup OtherReply)  BY Zenon DEF TypeOK
  <2>6. Append(work_queue[t], r) \in Seq(Reply \cup OtherReply)  BY <2>4, <2>5
  <2>7. work_queue' \in [Thread -> Seq(Reply \cup OtherReply)]  BY <2>1, <2>6, Zenon DEF TypeOK
  <2> QED  BY <1>5, <1>8, <2>7, Zenon DEF Answer, TypeOK
<1> QED  BY <1>6, <1>7, <1>8, Zenon DEF ServerStep

\* The reply to a reset.
LEMMA ResetTypes ==
  ASSUME TypeOK, AnswerReset, UNCHANGED <<partition_manager, history>>
  PROVE  TypeOK'
<1> DEFINE r == [flag |-> "kResetWorkerInModel"]
<1> USE DEF frame, blocker, server, history
<1>1. r \in OtherReply  BY Zenon DEF OtherReply
<1>2. work_queue' = [work_queue EXCEPT ![First] = Append(@, r)]  BY Zenon DEF AnswerReset
<1> HIDE DEF r
<1>3. First \in Thread  BY KVClientAssumption, Zenon
<1>4. work_queue[First] \in Seq(Reply \cup OtherReply)  BY <1>3, Zenon DEF TypeOK
<1>5. Append(work_queue[First], r) \in Seq(Reply \cup OtherReply)  BY <1>1, <1>4
<1>6. work_queue' \in [Thread -> Seq(Reply \cup OtherReply)]  BY <1>2, <1>5, Zenon DEF TypeOK
<1>7. others' \in 0 .. MaxOther  BY KVClientAssumption DEF AnswerReset, TypeOK
<1> QED  BY <1>6, <1>7, Zenon DEF AnswerReset, TypeOK

\* The messages that the helpers handle.
LEMMA HelperTypes ==
  ASSUME TypeOK, NEW t \in Thread, HelperStep(t)
  PROVE  TypeOK'
<1> DEFINE h == helper[t]
<1> USE DEF frame, blocker, server, history, elsewhere
<1>1. h \in HelperState  BY Zenon DEF TypeOK
<1>2. CASE WaitAndPop(t) /\ UNCHANGED elsewhere
  <2> DEFINE w == work_queue[t]  m == Head(w)
  <2>1. w \in Seq(Reply \cup OtherReply) /\ w # <<>>  BY <1>2, Zenon DEF WaitAndPop, TypeOK
  <2>2. Tail(w) \in Seq(Reply \cup OtherReply) /\ m \in Reply \cup OtherReply  BY <2>1, Popped, Zenon
  <2>3. work_queue' = [work_queue EXCEPT ![t] = Tail(w)]  BY <1>2, Zenon DEF WaitAndPop
  <2>4. work_queue' \in [Thread -> Seq(Reply \cup OtherReply)]  BY <2>2, <2>3, Zenon DEF TypeOK
  <2>5. helper' = [helper EXCEPT ![t] =
          IF IsResponse(m) THEN [at |-> "AddResponse", msg |-> m] ELSE Polling]
    BY <1>2, Zenon DEF WaitAndPop
  <2> HIDE DEF m
  <2>6. m.flag = "kGet" => m \in Reply  BY <2>2, Zenon DEF OtherReply
  <2>7. helper' \in [Thread -> HelperState]  BY <2>5, <2>6, Zenon DEF TypeOK, IsResponse, HelperState
  <2> QED  BY <1>2, <2>4, <2>7, Zenon DEF WaitAndPop, TypeOK
<1>3. CASE CheckFinish(t) /\ UNCHANGED elsewhere
  <2>1. h.at = "AddResponse"  BY <1>3, Zenon DEF CheckFinish
  <2>2. h.msg \in Reply  BY <1>1, <2>1 DEF HelperState, Polling
  <2>3. helper' \in [Thread -> HelperState]  BY <1>3, <2>2, Zenon DEF CheckFinish, TypeOK, HelperState
  <2> QED  BY <1>3, <2>3, Zenon DEF CheckFinish, TypeOK
<1>4. CASE RunHandler(t) /\ UNCHANGED elsewhere
  <2>1. h.at = "recv_handle"  BY <1>4, Zenon DEF RunHandler
  <2>2. h \in [at : {"recv_handle", "count"}, msg : Reply, recv_finish : BOOLEAN]
    BY <1>1, <2>1 DEF HelperState, Polling
  <2>3. [h EXCEPT !.at = "count"] \in HelperState  BY <2>2, Zenon DEF HelperState
  <2>4. helper' \in [Thread -> HelperState]  BY <1>4, <2>3, Zenon DEF RunHandler, TypeOK
  <2>5. h.msg.keys \subseteq Key  BY <2>2, Zenon DEF Reply
  <2>6. DOMAIN cache' = Thread /\ \A u \in Thread : DOMAIN cache'[u] \subseteq Key
    BY <1>4, <2>5, Zenon DEF RunHandler, TypeOK
  <2> QED  BY <1>4, <2>4, <2>6, Zenon DEF RunHandler, TypeOK
<1>5. CASE CountResponse(t) /\ UNCHANGED elsewhere
  <2>1. tracker[t].received + 1 \in Nat  BY DEF TypeOK
  <2>2. tracker' \in [Thread -> [expected : Nat, received : Nat]]
    BY <1>5, <2>1, ZenonT(40) DEF CountResponse, TypeOK
  <2>3. pc' \in [Thread -> Places]
    <3>1. pc' = pc \/ pc' = [u \in Thread |-> IF pc[u] = "asleep" THEN "WaitRequest" ELSE pc[u]]
      BY <1>5, Zenon DEF CountResponse, NotifyAll
    <3>2. pc \in [Thread -> Places] /\ "WaitRequest" \in Places  BY Zenon DEF TypeOK, Places
    <3> QED  BY <3>1, <3>2, Zenon
  <2>4. helper' \in [Thread -> HelperState]  BY <1>5, Zenon DEF CountResponse, TypeOK, HelperState
  <2> QED  BY <1>5, <2>2, <2>3, <2>4, Zenon DEF CountResponse, TypeOK
<1> QED  BY <1>2, <1>3, <1>4, <1>5, Zenon DEF HelperStep

-----------------------------------------------------------------------------
(* The invariant of a thread that does not take the step.                  *)

\* All of a thread's state but where it is and the other messages of its queue.
View(t) ==
  <<op[t], keys[t], unsent[t], cache[t], recv_handles[t], tracker[t], channel[t], storage[t],
    progress[t], RepliesIn(work_queue[t]), helper[t], added[t], clocked[t]>>

\* A position of a queue is the last one or before it.
LEMMA LastOrBefore ==
  ASSUME NEW S, NEW q \in Seq(S), NEW i \in 1 .. Len(q)
  PROVE  q # <<>> /\ (i = Len(q) \/ i \in 1 .. Len(q) - 1)
  OBVIOUS

\* The requests of a thread to a server, in the order it pushed them.
LEMMA ChannelRight ==
  ASSUME TypeOK, NEW t \in Thread, NEW s \in Server, ThreadInv(t)
  PROVE  /\ channel[t][s] \in Seq(Request) /\ GetsLast(channel[t][s])
         /\ Len(channel[t][s]) \in Nat /\ DOMAIN channel[t][s] = 1 .. Len(channel[t][s])
<1>1. channel[t][s] \in Seq(Request)
  <2>1. channel \in [Thread -> [Server -> Seq(Request)]]  BY Zenon DEF TypeOK
  <2> QED  BY <2>1, Zenon
<1>2. GetsLast(channel[t][s])  BY Zenon DEF ThreadInv, RequestsRight
<1> QED  BY <1>1, <1>2

\* What the handler wrote stays right as long as it is left alone.
LEMMA CacheKept ==
  ASSUME NEW t, CacheRight(t),
         pc'[t] \in Waiting \cup {"return"} => pc[t] \in Waiting \cup {"return"},
         cache'[t] = cache[t], op'[t] = op[t], added'[t] = added[t], clocked'[t] = clocked[t],
         \A s : SliceKeys(t, s)' = SliceKeys(t, s), Written(t)' = Written(t)
  PROVE  CacheRight(t)'
<1>1. {SliceKeys(t, s)' : s \in Written(t)'} = {SliceKeys(t, s) : s \in Written(t)}  BY Zenon
<1> QED  BY <1>1, Zenon DEF CacheRight

\* A thread keeps its invariant when its state does not change, or when it
\* only moves within the wait of its Get.
LEMMA SameThread ==
  ASSUME NEW t \in Thread, ThreadInv(t), UNCHANGED partition_manager, UNCHANGED View(t),
         Distinct(work_queue[t])',
         pc'[t] = pc[t] \/ (pc[t] \in Waiting /\ pc'[t] \in Waiting /\ PhaseRight(t)')
  PROVE  ThreadInv(t)'
<1>1. /\ op'[t] = op[t] /\ keys'[t] = keys[t] /\ unsent'[t] = unsent[t] /\ cache'[t] = cache[t]
      /\ recv_handles'[t] = recv_handles[t] /\ tracker'[t] = tracker[t]
      /\ channel'[t] = channel[t] /\ storage'[t] = storage[t] /\ progress'[t] = progress[t]
      /\ RepliesIn(work_queue'[t]) = RepliesIn(work_queue[t]) /\ helper'[t] = helper[t]
      /\ added'[t] = added[t] /\ clocked'[t] = clocked[t]
  BY Zenon DEF View
<1>2. Sliced(t)' = Sliced(t) /\ \A s : SliceKeys(t, s)' = SliceKeys(t, s)
  BY <1>1, Zenon DEF Sliced, SliceKeys
<1>3. Handling(t)' = Handling(t) /\ Coming(t)' = Coming(t)  BY <1>1, Zenon DEF Handling, Coming
<1>4. Open(t)' = Open(t) /\ Done(t)' = Done(t) /\ Written(t)' = Written(t)
  BY <1>1, <1>2, <1>3, Zenon DEF Open, Done, Written
<1>5. RequestsRight(t)'  BY <1>1, <1>2, Zenon DEF ThreadInv, RequestsRight
<1>6. RepliesRight(t)'
  <2>1. \A m : Answers(t, m) => Answers(t, m)'  BY <1>1, <1>2, Zenon DEF Answers
  <2> QED  BY <1>1, <1>3, <2>1, Zenon DEF ThreadInv, RepliesRight
<1>7. PhaseRight(t)'  BY <1>1, <1>2, Zenon DEF ThreadInv, PhaseRight
<1>8. CountRight(t)'  BY <1>1, <1>2, <1>4, Zenon DEF ThreadInv, CountRight
<1>9. CacheRight(t)'  BY <1>1, <1>2, <1>4 DEF ThreadInv, CacheRight
<1>10. SentRight(t)'  BY <1>1, ZenonT(40) DEF ThreadInv, SentRight
<1> QED  BY <1>5, <1>6, <1>7, <1>8, <1>9, <1>10, Zenon DEF ThreadInv

-----------------------------------------------------------------------------
(* A thread outside the wait of a Get: nothing of a Get is on its way.     *)

\* All replies to a Get are for a thread that waits for them.
LEMMA Idle ==
  ASSUME NEW t \in Thread, ThreadInv(t), pc[t] \notin Waiting
  PROVE  /\ \A s \in Server : ~LastIsGet(channel[t][s])
         /\ RepliesIn(work_queue[t]) = {} /\ helper[t] = Polling /\ Coming(t) = {}
<1>1. \A s \in Server : ~LastIsGet(channel[t][s])  BY Zenon DEF ThreadInv, RequestsRight
<1>2. Coming(t) = {}  BY Zenon DEF ThreadInv, RepliesRight, Answers
<1>3. RepliesIn(work_queue[t]) = {} /\ Handling(t) = {}  BY <1>2, Zenon DEF Coming
<1>4. helper[t] = Polling  BY <1>3, Zenon DEF Handling
<1> QED  BY <1>1, <1>2, <1>3, <1>4, Zenon

\* A step of such a thread that sends nothing.
LEMMA IdleStep ==
  ASSUME NEW t \in Thread, ThreadInv(t), pc[t] \notin Waiting,
         UNCHANGED <<partition_manager, channel, server, work_queue, helper, history>>
  PROVE  RequestsRight(t)' /\ RepliesRight(t)' /\ SentRight(t)' /\ Coming(t)' = {}
<1> USE DEF server, history
<1>1. RequestsRight(t)'  BY Idle, Zenon DEF ThreadInv, RequestsRight
<1>2. Handling(t)' = {} /\ Coming(t)' = {}  BY Idle, Zenon DEF Handling, Coming
<1>3. RepliesRight(t)'  BY <1>2, Zenon DEF ThreadInv, RepliesRight
<1>4. SentRight(t)'  BY Zenon DEF ThreadInv, SentRight
<1> QED  BY <1>1, <1>2, <1>3, <1>4, Zenon

\* Get begins with a new vector of keys and nothing sent.
LEMMA CallGetStep ==
  ASSUME TypeOK, NEW t \in Thread, ThreadInv(t), NEW asked \in Asked[t], CallGet(t, asked),
         UNCHANGED elsewhere
  PROVE  ThreadInv(t)'
<1> USE DEF frame, blocker, server, history, elsewhere, CallGet, Goto
<1>1. pc[t] \notin Waiting /\ pc'[t] = "RegisterRecvHandle"  BY Zenon DEF Waiting, TypeOK
<1>2. RequestsRight(t)' /\ RepliesRight(t)' /\ SentRight(t)'  BY <1>1, IdleStep, Zenon
<1>3. keys'[t] = asked /\ unsent'[t] = DOMAIN Sliced(t)'  BY Zenon DEF TypeOK, Sliced
<1>4. DOMAIN cache'[t] = {}  BY Zenon DEF ThreadInv, PhaseRight
<1>5. PhaseRight(t)'  BY <1>1, <1>3, <1>4, Zenon DEF PhaseRight, Preparing, Waiting
<1>6. CountRight(t)' /\ CacheRight(t)'  BY <1>1, Zenon DEF CountRight, CacheRight, Waiting
<1> QED  BY <1>2, <1>5, <1>6, Zenon DEF ThreadInv

\* Get registers its handlers before it sends anything.
LEMMA RegisterStep ==
  ASSUME TypeOK, NEW t \in Thread, ThreadInv(t),
         RegisterRecvHandle(t) \/ RegisterRecvFinishHandle(t), UNCHANGED elsewhere
  PROVE  ThreadInv(t)'
<1> USE DEF frame, blocker, server, history, elsewhere, RegisterRecvHandle,
            RegisterRecvFinishHandle, Goto
<1>1. pc[t] \in Preparing /\ pc'[t] \in Preparing  BY Zenon DEF Preparing, TypeOK
<1>2. \A p \in Preparing : p \notin Waiting /\ p # "return" /\ p # "send"  BY Zenon DEF Preparing, Waiting
<1>3. RequestsRight(t)' /\ RepliesRight(t)' /\ SentRight(t)'  BY <1>1, <1>2, IdleStep, Zenon
<1>4. Sliced(t)' = Sliced(t)  BY Zenon DEF Sliced
<1>5. PhaseRight(t)'
  <2>1. recv_handles'[t] = op'[t]  BY ZenonT(40) DEF ThreadInv, PhaseRight, TypeOK
  <2> QED  BY <1>1, <1>4, <2>1, Zenon DEF ThreadInv, PhaseRight, Preparing
<1>6. CountRight(t)' /\ CacheRight(t)'  BY <1>1, <1>2, Zenon DEF CountRight, CacheRight
<1> QED  BY <1>3, <1>5, <1>6, Zenon DEF ThreadInv

\* Get returns and its frame goes away.
LEMMA ReturnStep ==
  ASSUME TypeOK, NEW t \in Thread, ThreadInv(t), ReturnFromGet(t), UNCHANGED elsewhere
  PROVE  ThreadInv(t)'
<1> USE DEF frame, blocker, server, history, elsewhere, ReturnFromGet, Goto
<1>1. pc[t] = "return" /\ pc[t] \notin Waiting /\ pc'[t] = "user_code"  BY Zenon DEF Waiting, TypeOK
<1>2. RequestsRight(t)' /\ RepliesRight(t)' /\ SentRight(t)'  BY <1>1, IdleStep, Zenon
<1>3. unsent'[t] = {}  BY <1>1, Zenon DEF ThreadInv, PhaseRight, Places, Preparing
<1>4. DOMAIN cache'[t] = {}
  <2>1. DOMAIN EmptyMap = {}  BY Zenon DEF EmptyMap
  <2> QED  BY <2>1, Zenon DEF TypeOK
<1>5. PhaseRight(t)'  BY <1>1, <1>3, <1>4, Zenon DEF PhaseRight, Preparing, Waiting
<1>6. CountRight(t)' /\ CacheRight(t)'  BY <1>1, Zenon DEF CountRight, CacheRight, Waiting
<1> QED  BY <1>2, <1>5, <1>6, Zenon DEF ThreadInv

\* NewRequest starts to count before any reply can come.
LEMMA NewRequestStep ==
  ASSUME TypeOK, NEW t \in Thread, ThreadInv(t), NewRequest(t), UNCHANGED elsewhere
  PROVE  ThreadInv(t)'
<1> USE DEF frame, blocker, server, history, elsewhere, NewRequest, Goto
<1>1. pc[t] = "NewRequest" /\ pc[t] \notin Waiting /\ pc'[t] = "send"  BY Zenon DEF Waiting, TypeOK
<1>2. RequestsRight(t)' /\ RepliesRight(t)' /\ SentRight(t)'  BY <1>1, IdleStep, Zenon
<1>3. Sliced(t)' = Sliced(t) /\ unsent'[t] = DOMAIN Sliced(t) /\ DOMAIN cache'[t] = {}
  BY <1>1, Zenon DEF ThreadInv, PhaseRight, Preparing, Sliced
<1>4. PhaseRight(t)'  BY <1>1, <1>3, Zenon DEF ThreadInv, PhaseRight, Preparing
<1>5. Done(t)' = {}  BY <1>3, Zenon DEF Done, Open
<1>6. CountRight(t)'
  <2>1. tracker'[t].expected = Cardinality(DOMAIN Sliced(t)) /\ tracker'[t].received = 0
    BY Zenon DEF TypeOK
  <2> QED  BY <1>3, <1>5, <2>1, FS_EmptySet, Zenon DEF CountRight
<1>7. Written(t)' = {}
  <2>1. helper'[t] = Polling  BY <1>1, Idle, Zenon
  <2> QED  BY <1>5, <2>1, SMTT(30) DEF Written, Polling
<1>8. CacheRight(t)'  BY <1>3, <1>7, Zenon DEF CacheRight
<1> QED  BY <1>2, <1>4, <1>6, <1>8, Zenon DEF ThreadInv

\* A thread outside Get sends to some servers (Add, Clock).
LEMMA PushStep ==
  ASSUME TypeOK, NEW t \in Thread, ThreadInv(t), pc[t] = "user_code",
         UNCHANGED <<partition_manager, pc, frame, blocker, work_queue, helper>>,
         RequestsRight(t)', SentRight(t)'
  PROVE  ThreadInv(t)'
<1> USE DEF frame, blocker
<1>1. pc[t] \notin Waiting /\ pc[t] # "return"  BY Zenon DEF Waiting
<1>2. Handling(t)' = {} /\ Coming(t)' = {}  BY <1>1, Idle, Zenon DEF Handling, Coming
<1>3. RepliesRight(t)'  BY <1>2, Zenon DEF ThreadInv, RepliesRight
<1>4. PhaseRight(t)'  BY Zenon DEF ThreadInv, PhaseRight, Sliced
<1>5. CountRight(t)' /\ CacheRight(t)'  BY <1>1, Zenon DEF CountRight, CacheRight
<1> QED  BY <1>3, <1>4, <1>5, Zenon DEF ThreadInv

\* Clock sends to every server.
LEMMA ClockStep ==
  ASSUME TypeOK, NEW t \in Thread, ThreadInv(t), Clock(t)
  PROVE  ThreadInv(t)'
<1> USE DEF frame, blocker, server, MayPush
<1> DEFINE x == [flag |-> "kClock", clock |-> pushes[t]]
<1>1. pc[t] = "user_code" /\ pc[t] \notin Waiting  BY Zenon DEF Clock, Waiting
<1>2. x \in Request /\ x.flag = "kClock" /\ x.clock = pushes[t]  BY Zenon DEF Request, TypeOK
<1>3. \A s \in Server : channel'[t][s] = Append(channel[t][s], x)  BY Zenon DEF Clock, TypeOK
<1>4. clocked'[t] = clocked[t] \cup {pushes[t]}  BY Zenon DEF Clock, TypeOK
<1> HIDE DEF x
<1>5. ASSUME NEW s \in Server
      PROVE  /\ GetsLast(channel'[t][s]) /\ ~LastIsGet(channel'[t][s])
             /\ UpdatesOf(channel'[t][s]) = UpdatesOf(channel[t][s])
             /\ ClocksOf(channel'[t][s]) = ClocksOf(channel[t][s]) \cup {pushes[t]}
  <2>1. channel[t][s] \in Seq(Request)  BY DEF TypeOK
  <2>2. ~LastIsGet(channel[t][s]) /\ GetsLast(channel[t][s])
    BY <1>1, Idle, Zenon DEF ThreadInv, RequestsRight
  <2> DEFINE q == channel[t][s]  a == Append(q, x)
  <2>3. /\ GetsLast(a) /\ (LastIsGet(a) <=> x.flag = "kGet")
        /\ UpdatesOf(a) = UpdatesOf(q) \cup (IF x.flag = "kAdd" THEN x.updates ELSE {})
        /\ ClocksOf(a) = ClocksOf(q) \cup (IF x.flag = "kClock" THEN {x.clock} ELSE {})
    BY <1>2, <2>1, <2>2, RequestAppended, Zenon
  <2>4. channel'[t][s] = a  BY <1>3, Zenon
  <2> HIDE DEF q, a
  <2>5. channel[t][s] = q  BY Zenon DEF q
  <2> QED  BY <1>2, <2>3, <2>4, <2>5, Zenon
<1>6. RequestsRight(t)'  BY <1>5, Zenon DEF RequestsRight
<1>7. SentRight(t)'
  <2>1. added' = added /\ storage' = storage /\ progress' = progress /\ partition_manager' = partition_manager
    BY Zenon DEF Clock
  <2> QED  BY <1>4, <1>5, <2>1, Zenon DEF ThreadInv, SentRight
<1> QED  BY <1>1, <1>6, <1>7, PushStep, Zenon DEF Clock

\* Add sends to each server the updates of its keys.
LEMMA AddStep ==
  ASSUME TypeOK, NEW t \in Thread, ThreadInv(t), NEW kvs \in Updates, Add(t, kvs)
  PROVE  ThreadInv(t)'
<1> USE DEF frame, blocker, server, MayPush
<1> DEFINE sliced == SliceKVs(partition_manager, kvs)
           n == pushes[t]
           x(s) == [flag |-> "kAdd", updates |-> At(kvs, n, sliced[s])]
           part(s) == IF s \in DOMAIN sliced THEN At(kvs, n, sliced[s]) ELSE {}
<1>1. pc[t] = "user_code" /\ pc[t] \notin Waiting  BY Zenon DEF Add, Waiting
<1>2. kvs \in Seq(Key)  BY KVClientAssumption, Zenon
<1>3. /\ \A i \in DOMAIN kvs : ServerOf(partition_manager, kvs[i]) \in DOMAIN sliced
      /\ \A s \in DOMAIN sliced : \A i :
           i \in sliced[s] <=> i \in DOMAIN kvs /\ ServerOf(partition_manager, kvs[i]) = s
  BY <1>2, SliceExact, SameSlices, SMTT(30)
<1>4. \A s \in Server : channel'[t][s] =
        IF s \in DOMAIN sliced THEN Append(channel[t][s], x(s)) ELSE channel[t][s]
  BY Zenon DEF Add, TypeOK
<1>5. added'[t] = added[t] \cup At(kvs, n, DOMAIN kvs)  BY Zenon DEF Add, TypeOK
<1> HIDE DEF sliced
<1>6. ASSUME NEW s \in Server
      PROVE  {u \in At(kvs, n, DOMAIN kvs) : ServerOf(partition_manager, u[1]) = s} = part(s)
  <2>1. \A i : <<kvs[i], n, i>>[1] = kvs[i]  BY Zenon
  <2> QED  BY <1>3, <2>1, SMTT(30) DEF At
<1>7. ASSUME NEW s \in DOMAIN sliced
      PROVE  x(s) \in Request /\ x(s).flag = "kAdd" /\ x(s).updates = part(s)
  <2>1. sliced[s] \in SUBSET DOMAIN kvs  BY <1>3, Zenon
  <2>2. n \in Nat  BY Zenon DEF TypeOK
  <2>3. At(kvs, n, sliced[s]) \in SUBSET Update  BY <1>2, <2>1, <2>2, AddTypes, Zenon
  <2> QED  BY <2>3, Zenon DEF Request
<1> HIDE DEF x, part
<1>8. ASSUME NEW s \in Server
      PROVE  /\ GetsLast(channel'[t][s]) /\ ~LastIsGet(channel'[t][s])
             /\ UpdatesOf(channel'[t][s]) = UpdatesOf(channel[t][s]) \cup part(s)
             /\ ClocksOf(channel'[t][s]) = ClocksOf(channel[t][s])
  <2>1. channel[t][s] \in Seq(Request)  BY DEF TypeOK
  <2>2. ~LastIsGet(channel[t][s]) /\ GetsLast(channel[t][s])
    BY <1>1, Idle, Zenon DEF ThreadInv, RequestsRight
  <2>3. CASE s \in DOMAIN sliced
    <3> DEFINE q == channel[t][s]  a == Append(q, x(s))
    <3>1. /\ x(s) \in Request /\ x(s).flag = "kAdd" /\ x(s).updates = part(s)  BY <1>7, <2>3, Zenon
    <3>2. /\ GetsLast(a) /\ (LastIsGet(a) <=> x(s).flag = "kGet")
          /\ UpdatesOf(a) = UpdatesOf(q) \cup (IF x(s).flag = "kAdd" THEN x(s).updates ELSE {})
          /\ ClocksOf(a) = ClocksOf(q) \cup (IF x(s).flag = "kClock" THEN {x(s).clock} ELSE {})
      BY <2>1, <2>2, <3>1, RequestAppended, Zenon
    <3>3. channel'[t][s] = a  BY <1>4, <2>3, Zenon
    <3> HIDE DEF q, a
    <3>4. channel[t][s] = q  BY Zenon DEF q
    <3> QED  BY <3>1, <3>2, <3>3, <3>4, Zenon
  <2>4. CASE s \notin DOMAIN sliced  BY <1>4, <2>2, <2>4, Zenon DEF part
  <2> QED  BY <2>3, <2>4, Zenon
<1>9. RequestsRight(t)'  BY <1>8, Zenon DEF RequestsRight
<1>10. SentRight(t)'
  <2>1. clocked' = clocked /\ storage' = storage /\ progress' = progress /\ partition_manager' = partition_manager
    BY Zenon DEF Add
  <2> SUFFICES ASSUME NEW s \in Server
               PROVE  /\ {u \in added'[t] : ServerOf(partition_manager, u[1]) = s}
                           = storage[t][s] \cup UpdatesOf(channel'[t][s])
                      /\ clocked[t] = progress[t][s] \cup ClocksOf(channel'[t][s])
    BY <2>1, Zenon DEF SentRight
  <2>2. {u \in added[t] : ServerOf(partition_manager, u[1]) = s}
          = storage[t][s] \cup UpdatesOf(channel[t][s])
    BY Zenon DEF ThreadInv, SentRight
  <2>3. {u \in added'[t] : ServerOf(partition_manager, u[1]) = s}
          = {u \in added[t] : ServerOf(partition_manager, u[1]) = s} \cup part(s)
    BY <1>5, <1>6, Zenon
  <2>4. clocked[t] = progress[t][s] \cup ClocksOf(channel[t][s])  BY Zenon DEF ThreadInv, SentRight
  <2> QED  BY <1>8, <2>2, <2>3, <2>4, Zenon
<1> QED  BY <1>1, <1>9, <1>10, PushStep, Zenon DEF Add

-----------------------------------------------------------------------------
(* The loop and the wait of a Get.                                         *)

\* A slice that is sent moves from unsent to the channel.
LEMMA SendStep ==
  ASSUME TypeOK, NEW t \in Thread, ThreadInv(t), NEW s \in Server, SendSlice(t, s),
         UNCHANGED elsewhere
  PROVE  ThreadInv(t)'
<1> USE DEF frame, blocker, server, history, elsewhere
<1> DEFINE x == [flag |-> "kGet", get |-> op[t], keys |-> SliceKeys(t, s)]
           q == channel[t][s]
           a == Append(q, x)
<1>1. pc[t] = "send" /\ pc'[t] = "send" /\ pc[t] \in Waiting  BY Zenon DEF SendSlice, Waiting
<1>2. s \in unsent[t] /\ s \in DOMAIN Sliced(t)  BY Zenon DEF SendSlice, ThreadInv, PhaseRight
<1>3. x \in Request /\ x.flag = "kGet" /\ x.get = op[t] /\ x.keys = SliceKeys(t, s)
  <2>1. SliceKeys(t, s) \in SUBSET Key  BY <1>2, SliceTypes, Zenon
  <2> QED  BY <2>1, Zenon DEF Request, TypeOK
<1>4. q \in Seq(Request) /\ GetsLast(q) /\ ~LastIsGet(q)
  <2>1. ~LastIsGet(q)  BY <1>2, Zenon DEF ThreadInv, RequestsRight
  <2> QED  BY <2>1, ChannelRight, Zenon
<1>5. channel'[t][s] = a /\ \A z \in Server : z # s => channel'[t][z] = channel[t][z]
  BY Zenon DEF SendSlice, TypeOK
<1> HIDE DEF x
<1>6. /\ GetsLast(a) /\ (LastIsGet(a) <=> x.flag = "kGet") /\ a[Len(a)] = x
      /\ UpdatesOf(a) = UpdatesOf(q) \cup (IF x.flag = "kAdd" THEN x.updates ELSE {})
      /\ ClocksOf(a) = ClocksOf(q) \cup (IF x.flag = "kClock" THEN {x.clock} ELSE {})
  BY <1>3, <1>4, RequestAppended, Zenon
<1> HIDE DEF a
<1>7. /\ op'[t] = op[t] /\ keys'[t] = keys[t] /\ cache'[t] = cache[t]
      /\ work_queue'[t] = work_queue[t] /\ helper'[t] = helper[t]
      /\ added'[t] = added[t] /\ clocked'[t] = clocked[t]
      /\ recv_handles'[t] = recv_handles[t] /\ tracker'[t] = tracker[t]
  BY Zenon DEF SendSlice
<1>8. unsent'[t] = unsent[t] \ {s}  BY Zenon DEF SendSlice, TypeOK
<1>9. Sliced(t)' = Sliced(t) /\ \A z : SliceKeys(t, z)' = SliceKeys(t, z)
  BY <1>7, Zenon DEF Sliced, SliceKeys
<1>10. Handling(t)' = Handling(t) /\ Coming(t)' = Coming(t)  BY <1>7, Zenon DEF Handling, Coming
<1>11. {z \in Server : LastIsGet(channel'[t][z])} = {z \in Server : LastIsGet(channel[t][z])} \cup {s}
  BY <1>3, <1>5, <1>6, Zenon
<1>12. Open(t)' = Open(t)
  <2>1. Open(t)' = (unsent[t] \ {s}) \cup ({z \in Server : LastIsGet(channel[t][z])} \cup {s})
                     \cup {m.server : m \in Coming(t)}
    BY <1>8, <1>10, <1>11, Zenon DEF Open
  <2> QED  BY <1>2, <2>1, Zenon DEF Open
<1>13. Done(t)' = Done(t) /\ Written(t)' = Written(t)  BY <1>7, <1>9, <1>12, Zenon DEF Done, Written
<1>14. RequestsRight(t)'
  <2> SUFFICES ASSUME NEW z \in Server
               PROVE  /\ GetsLast(channel'[t][z])
                      /\ LastIsGet(channel'[t][z]) =>
                           /\ pc'[t] \in Waiting
                           /\ z \in DOMAIN Sliced(t)' \ unsent'[t]
                           /\ channel'[t][z][Len(channel'[t][z])].get = op'[t]
                           /\ channel'[t][z][Len(channel'[t][z])].keys = SliceKeys(t, z)'
    BY Zenon DEF RequestsRight
  <2>1. CASE z = s  BY <1>1, <1>2, <1>3, <1>5, <1>6, <1>7, <1>8, <1>9, <2>1, Zenon
  <2>2. CASE z # s  BY <1>1, <1>5, <1>7, <1>8, <1>9, <2>2, Zenon DEF ThreadInv, RequestsRight
  <2> QED  BY <2>1, <2>2, Zenon
<1>15. RepliesRight(t)'
  <2> SUFFICES ASSUME NEW m \in Coming(t)
               PROVE  Answers(t, m)' /\ ~LastIsGet(channel'[t][m.server])
    BY <1>7, <1>10, Zenon DEF ThreadInv, RepliesRight
  <2>1. Answers(t, m) /\ ~LastIsGet(channel[t][m.server])  BY Zenon DEF ThreadInv, RepliesRight
  <2>2. m.server # s /\ m.server \in Server  BY <1>2, <2>1, SliceTypes, Zenon DEF Answers
  <2>3. Answers(t, m)'  BY <1>1, <1>7, <1>8, <1>9, <2>1, Zenon DEF Answers
  <2> QED  BY <1>5, <2>1, <2>2, <2>3, Zenon
<1>16. PhaseRight(t)'  BY <1>1, <1>7, <1>8, <1>9, Zenon DEF ThreadInv, PhaseRight, Preparing
<1>17. CountRight(t)'  BY <1>1, <1>7, <1>9, <1>13, Zenon DEF ThreadInv, CountRight
<1>18. CacheRight(t)'  BY <1>1, <1>7, <1>9, <1>13, CacheKept, Zenon DEF ThreadInv
<1>19. SentRight(t)'
  <2>1. \A z \in Server : /\ UpdatesOf(channel'[t][z]) = UpdatesOf(channel[t][z])
                          /\ ClocksOf(channel'[t][z]) = ClocksOf(channel[t][z])
    BY <1>3, <1>5, <1>6, Zenon
  <2> QED  BY <1>7, <2>1, Zenon DEF ThreadInv, SentRight
<1> QED  BY <1>14, <1>15, <1>16, <1>17, <1>18, <1>19, Zenon DEF ThreadInv

\* As many replies as servers: every server has answered.
LEMMA AllAnswered ==
  ASSUME TypeOK, NEW t \in Thread, ThreadInv(t), pc[t] = "WaitRequest", Completed(t)
  PROVE  Open(t) = {}
<1> DEFINE D == DOMAIN Sliced(t)
<1>1. Cardinality(D) = Cardinality(Done(t))
  BY Zenon DEF ThreadInv, CountRight, Waiting, Completed
<1>2. IsFiniteSet(D)  BY SliceTypes, Zenon
<1>3. Done(t) \in SUBSET D  BY Zenon DEF Done
<1>4. Done(t) = D  BY <1>1, <1>2, <1>3, FS_Subset, Zenon
<1>5. unsent[t] \subseteq D  BY Zenon DEF ThreadInv, PhaseRight
<1>6. \A s \in Server : LastIsGet(channel[t][s]) => s \in D  BY Zenon DEF ThreadInv, RequestsRight
<1>7. \A m \in Coming(t) : m.server \in D  BY Zenon DEF ThreadInv, RepliesRight, Answers
<1>8. Open(t) \subseteq D  BY <1>5, <1>6, <1>7, Zenon DEF Open
<1> QED  BY <1>4, <1>8, Zenon DEF Done

\* The wait ends when every server has answered, not before.
LEMMA WaitStep ==
  ASSUME TypeOK, NEW t \in Thread, ThreadInv(t),
         SendDone(t) \/ WaitRequest(t) \/ WakeSpuriously(t), UNCHANGED elsewhere
  PROVE  ThreadInv(t)'
<1> USE DEF frame, blocker, server, history, elsewhere, Goto
<1>1. UNCHANGED <<partition_manager, frame, blocker, channel, work_queue, helper, server, history>>
  BY Zenon DEF SendDone, WaitRequest, WakeSpuriously
<1>2. UNCHANGED View(t) /\ Distinct(work_queue[t])'  BY <1>1, Zenon DEF View, ThreadInv, RepliesRight
<1>3. pc[t] \in Waiting  BY Zenon DEF SendDone, WaitRequest, WakeSpuriously, Waiting
<1>4. unsent'[t] = {}
  <2>1. unsent[t] = {}
    BY Zenon DEF SendDone, WaitRequest, WakeSpuriously, ThreadInv, PhaseRight, Places, Preparing
  <2> QED  BY <1>1, <2>1, Zenon
<1>5. recv_handles'[t] = op'[t]  BY <1>1, <1>3, Zenon DEF ThreadInv, PhaseRight
<1>6. pc'[t] \in {"WaitRequest", "asleep", "return"}
  BY Zenon DEF SendDone, WaitRequest, WakeSpuriously, TypeOK
<1>7. PhaseRight(t)'  BY <1>4, <1>5, <1>6, Zenon DEF PhaseRight, Preparing
<1>8. CASE pc'[t] # "return"
  <2>1. pc'[t] \in Waiting  BY <1>6, <1>8, Zenon DEF Waiting
  <2> QED  BY <1>1, <1>2, <1>3, <1>7, <2>1, SameThread, Zenon
<1>9. CASE pc'[t] = "return"
  <2>1. pc[t] = "WaitRequest" /\ Completed(t)
    BY <1>9, Zenon DEF SendDone, WaitRequest, WakeSpuriously, TypeOK
  <2>2. Open(t) = {}  BY <2>1, AllAnswered, Zenon
  <2>3. Coming(t) = {} /\ \A s \in Server : ~LastIsGet(channel[t][s])  BY <2>2, Zenon DEF Open
  <2>4. /\ Sliced(t)' = Sliced(t) /\ \A s : SliceKeys(t, s)' = SliceKeys(t, s)
        /\ Handling(t)' = Handling(t) /\ Coming(t)' = Coming(t) /\ Written(t)' = Written(t)
    BY <1>1, Zenon DEF Sliced, SliceKeys, Handling, Coming, Written, Done, Open
  <2>5. RequestsRight(t)'  BY <1>1, <2>3, Zenon DEF ThreadInv, RequestsRight
  <2>6. RepliesRight(t)'  BY <1>1, <2>3, <2>4, Zenon DEF ThreadInv, RepliesRight
  <2>7. CountRight(t)'  BY <1>9, Zenon DEF CountRight, Waiting
  <2>8. CacheRight(t)'  BY <1>1, <1>3, <2>4, CacheKept, Zenon DEF ThreadInv
  <2>9. SentRight(t)'  BY <1>1, ZenonT(40) DEF ThreadInv, SentRight
  <2> QED  BY <1>7, <2>5, <2>6, <2>7, <2>8, <2>9, Zenon DEF ThreadInv
<1> QED  BY <1>8, <1>9, Zenon

-----------------------------------------------------------------------------
(* The servers.                                                            *)

\* What is empty holds nothing.
LEMMA EmptyQueue ==
  ~LastIsGet(<<>>) /\ GetsLast(<<>>) /\ UpdatesOf(<<>>) = {} /\ ClocksOf(<<>>) = {}
<1>1. 1 .. Len(<<>>) = {} /\ 1 .. Len(<<>>) - 1 = {}  OBVIOUS
<1> QED  BY <1>1, Zenon DEF LastIsGet, GetsLast, UpdatesOf, ClocksOf

\* A server applies an update or counts a Clock.
LEMMA HandleStep ==
  ASSUME TypeOK, NEW t \in Thread, ThreadInv(t), NEW s \in Server,
         HandleAdd(t, s) \/ HandleClock(t, s), UNCHANGED <<partition_manager, history>>
  PROVE  ThreadInv(t)'
<1> USE DEF frame, blocker, history
<1> DEFINE q == channel[t][s]  x == Head(q)  b == Tail(q)
<1>1. q \in Seq(Request) /\ GetsLast(q)  BY ChannelRight, Zenon
<1>2. q # <<>> /\ x.flag # "kGet"  BY Zenon DEF HandleAdd, HandleClock, Pop
<1>3. channel'[t][s] = b /\ \A z \in Server : z # s => channel'[t][z] = channel[t][z]
  <2>1. channel' = [channel EXCEPT ![t][s] = b]  BY Zenon DEF HandleAdd, HandleClock, Pop
  <2>2. channel \in [Thread -> [Server -> Seq(Request)]]  BY Zenon DEF TypeOK
  <2> HIDE DEF b
  <2> QED  BY <2>1, <2>2, Zenon
<1>4. /\ x.flag = "kAdd" \/ x.flag = "kClock"
      /\ storage'[t][s] = storage[t][s] \cup (IF x.flag = "kAdd" THEN x.updates ELSE {})
      /\ progress'[t][s] = progress[t][s] \cup (IF x.flag = "kClock" THEN {x.clock} ELSE {})
      /\ \A z \in Server : z # s => storage'[t][z] = storage[t][z] /\ progress'[t][z] = progress[t][z]
  <2>1. CASE HandleAdd(t, s)  BY <2>1, ZenonT(40) DEF HandleAdd, Pop, TypeOK
  <2>2. CASE HandleClock(t, s)  BY <2>2, ZenonT(40) DEF HandleClock, Pop, TypeOK
  <2> QED  BY <2>1, <2>2, Zenon
<1>5. /\ GetsLast(b)
      /\ x.flag # "kGet" => (LastIsGet(b) <=> LastIsGet(q))
      /\ LastIsGet(b) => b[Len(b)] = q[Len(q)]
      /\ UpdatesOf(q) = UpdatesOf(b) \cup (IF x.flag = "kAdd" THEN x.updates ELSE {})
      /\ ClocksOf(q) = ClocksOf(b) \cup (IF x.flag = "kClock" THEN {x.clock} ELSE {})
  BY <1>1, <1>2, RequestPopped, Zenon
<1>6. /\ UNCHANGED <<pc, op, keys, unsent, cache, recv_handles, tracker, work_queue, helper>>
      /\ added'[t] = added[t] /\ clocked'[t] = clocked[t]
  BY Zenon DEF HandleAdd, HandleClock
<1> HIDE DEF b, x
<1>7. \A z \in Server : LastIsGet(channel'[t][z]) <=> LastIsGet(channel[t][z])  BY <1>2, <1>3, <1>5, Zenon
<1>8. \A z \in Server : LastIsGet(channel'[t][z]) =>
        channel'[t][z][Len(channel'[t][z])] = channel[t][z][Len(channel[t][z])]
  BY <1>2, <1>3, <1>5, Zenon
<1>9. Sliced(t)' = Sliced(t) /\ \A z : SliceKeys(t, z)' = SliceKeys(t, z)
  BY <1>6, Zenon DEF Sliced, SliceKeys
<1>10. Handling(t)' = Handling(t) /\ Coming(t)' = Coming(t)  BY <1>6, Zenon DEF Handling, Coming
<1>11. Open(t)' = Open(t)
  <2>1. {z \in Server : LastIsGet(channel'[t][z])} = {z \in Server : LastIsGet(channel[t][z])}
    BY <1>7, Zenon
  <2> QED  BY <1>6, <1>10, <2>1, Zenon DEF Open
<1>12. Done(t)' = Done(t) /\ Written(t)' = Written(t)  BY <1>6, <1>9, <1>11, Zenon DEF Done, Written
<1>13. RequestsRight(t)'
  <2>1. \A z \in Server : GetsLast(channel'[t][z])  BY <1>3, <1>5, Zenon DEF ThreadInv, RequestsRight
  <2> QED  BY <1>6, <1>7, <1>8, <1>9, <2>1, Zenon DEF ThreadInv, RequestsRight
<1>14. RepliesRight(t)'
  <2> SUFFICES ASSUME NEW m \in Coming(t)
               PROVE  Answers(t, m)' /\ ~LastIsGet(channel'[t][m.server])
    BY <1>6, <1>10, Zenon DEF ThreadInv, RepliesRight
  <2>1. Answers(t, m) /\ ~LastIsGet(channel[t][m.server])  BY Zenon DEF ThreadInv, RepliesRight
  <2>2. m.server \in Server  BY <2>1, SliceTypes, Zenon DEF Answers
  <2>3. Answers(t, m)'  BY <1>6, <1>9, <2>1, Zenon DEF Answers
  <2> QED  BY <1>7, <2>1, <2>2, <2>3, Zenon
<1>15. PhaseRight(t)'  BY <1>6, <1>9, Zenon DEF ThreadInv, PhaseRight
<1>16. CountRight(t)'  BY <1>6, <1>9, <1>12, Zenon DEF ThreadInv, CountRight
<1>17. CacheRight(t)'  BY <1>6, <1>9, <1>12, CacheKept, Zenon DEF ThreadInv
<1>18. SentRight(t)'
  <2> SUFFICES ASSUME NEW z \in Server
               PROVE  /\ storage'[t][z] \cup UpdatesOf(channel'[t][z])
                           = storage[t][z] \cup UpdatesOf(channel[t][z])
                      /\ progress'[t][z] \cup ClocksOf(channel'[t][z])
                           = progress[t][z] \cup ClocksOf(channel[t][z])
    BY <1>6, Zenon DEF ThreadInv, SentRight
  <2>1. CASE z = s
    <3>1. storage'[t][s] \cup UpdatesOf(b) = storage[t][s] \cup UpdatesOf(q)  BY <1>4, <1>5, Zenon
    <3>2. progress'[t][s] \cup ClocksOf(b) = progress[t][s] \cup ClocksOf(q)  BY <1>4, <1>5, Zenon
    <3> QED  BY <1>3, <2>1, <3>1, <3>2, Zenon
  <2>2. CASE z # s  BY <1>3, <1>4, <2>2, Zenon
  <2> QED  BY <2>1, <2>2, Zenon
<1> QED  BY <1>13, <1>14, <1>15, <1>16, <1>17, <1>18, Zenon DEF ThreadInv

\* A server answers the Get: the request was the last one in the channel, so
\* all the updates of the thread that the server is to have are applied.
LEMMA AnswerStep ==
  ASSUME TypeOK, NEW t \in Thread, ThreadInv(t), NEW s \in Server,
         Answer(t, s), UNCHANGED <<partition_manager, history>>
  PROVE  ThreadInv(t)'
<1> USE DEF frame, blocker, server, history
<1> DEFINE q == channel[t][s]  x == Head(q)  w == work_queue[t]  r == ReplyTo(x, t, s)
<1>1. q \in Seq(Request) /\ GetsLast(q)  BY ChannelRight, Zenon
<1>2. q # <<>> /\ x.flag = "kGet"  BY Zenon DEF Answer, Pop
<1>3. /\ x.flag = "kGet" => Tail(q) = <<>> /\ LastIsGet(q) /\ x = q[Len(q)]
      /\ x \in Request
      /\ UpdatesOf(q) = UpdatesOf(Tail(q)) \cup (IF x.flag = "kAdd" THEN x.updates ELSE {})
      /\ ClocksOf(q) = ClocksOf(Tail(q)) \cup (IF x.flag = "kClock" THEN {x.clock} ELSE {})
  BY <1>1, <1>2, RequestPopped, Zenon
<1>4. channel'[t][s] = <<>> /\ \A z \in Server : z # s => channel'[t][z] = channel[t][z]
  <2>1. channel' = [channel EXCEPT ![t][s] = <<>>]  BY <1>2, <1>3, Zenon DEF Answer, Pop
  <2>2. channel \in [Thread -> [Server -> Seq(Request)]]  BY Zenon DEF TypeOK
  <2> QED  BY <2>1, <2>2, Zenon
<1>5. work_queue'[t] = Append(w, r)  BY Zenon DEF Answer, TypeOK
<1>6. /\ UNCHANGED <<pc, op, keys, unsent, cache, recv_handles, tracker, storage, progress, helper>>
      /\ added'[t] = added[t] /\ clocked'[t] = clocked[t]
  BY Zenon DEF Answer
<1> HIDE DEF x
<1>7. /\ r.flag = "kGet" /\ r.get = x.get /\ r.server = s /\ r.keys = x.keys
      /\ r.vals = {u \in storage[t][s] : u[1] \in x.keys} /\ r.clocks = progress[t][s]
  BY Zenon DEF ReplyTo
<1>8. UpdatesOf(q) = {} /\ ClocksOf(q) = {}  BY <1>2, <1>3, EmptyQueue, Zenon
<1>9. /\ pc[t] \in Waiting /\ s \in DOMAIN Sliced(t) \ unsent[t]
      /\ x.get = op[t] /\ x.keys = SliceKeys(t, s)
  BY <1>2, <1>3, Zenon DEF ThreadInv, RequestsRight
<1>10. \A k \in SliceKeys(t, s) : ServerOf(partition_manager, k) = s
  <2>1. keys[t] \in Seq(Key)  BY Zenon DEF TypeOK
  <2>2. \A i \in Sliced(t)[s] : ServerOf(partition_manager, keys[t][i]) = s
    <3>1. \A z \in DOMAIN Slice(partition_manager, keys[t]) :
            \A i \in Slice(partition_manager, keys[t])[z] : ServerOf(partition_manager, keys[t][i]) = z
      BY <2>1, SliceOwn, Zenon
    <3> QED  BY <1>9, <3>1, Zenon DEF Sliced
  <2> QED  BY <2>2, Zenon DEF SliceKeys
<1>11. r.vals = {u \in added[t] : u[1] \in x.keys} /\ r.clocks = clocked[t]
  <2>1. /\ {u \in added[t] : ServerOf(partition_manager, u[1]) = s} = storage[t][s]
        /\ clocked[t] = progress[t][s]
    BY <1>8, Zenon DEF ThreadInv, SentRight
  <2>2. storage[t][s] \subseteq added[t]  BY <2>1, Zenon
  <2>3. \A u \in added[t] : u[1] \in x.keys => u \in storage[t][s]  BY <1>9, <1>10, <2>1, Zenon
  <2> QED  BY <1>7, <2>1, <2>2, <2>3, Zenon
<1>12. Answers(t, r)  BY <1>7, <1>9, <1>11, Zenon DEF Answers
<1>13. \A m \in Coming(t) : m.server # s  BY <1>2, <1>3, Zenon DEF ThreadInv, RepliesRight
<1>14. r \in Message
  <2>1. x.get \in Nat /\ x.keys \in SUBSET Key  BY <1>2, <1>3, Zenon DEF Request
  <2>2. storage[t][s] \in SUBSET Update /\ progress[t][s] \in SUBSET Nat  BY DEF TypeOK
  <2> QED  BY <2>1, <2>2, Zenon DEF ReplyTo, Reply, Message
<1> HIDE DEF r
<1>15. /\ RepliesIn(Append(w, r)) = RepliesIn(w) \cup (IF r.flag = "kGet" THEN {r} ELSE {})
       /\ Distinct(Append(w, r))
  <2>1. w \in Seq(Message) /\ Distinct(w)  BY Zenon DEF TypeOK, Message, ThreadInv, RepliesRight
  <2>2. \A m \in RepliesIn(w) : m.server # r.server  BY <1>7, <1>13, Zenon DEF Coming
  <2> HIDE DEF w
  <2> QED  BY <1>14, <2>1, <2>2, ReplyAppended, Zenon
<1>16. Sliced(t)' = Sliced(t) /\ \A z : SliceKeys(t, z)' = SliceKeys(t, z)
  BY <1>6, Zenon DEF Sliced, SliceKeys
<1>17. /\ RepliesIn(work_queue'[t]) = RepliesIn(w) \cup {r}
       /\ Handling(t)' = Handling(t) /\ Coming(t)' = Coming(t) \cup {r}
  BY <1>5, <1>6, <1>7, <1>15, Zenon DEF Handling, Coming
<1>18. \A z \in Server : LastIsGet(channel'[t][z]) <=> LastIsGet(channel[t][z]) /\ z # s
  BY <1>4, EmptyQueue, Zenon
<1>19. Open(t)' = Open(t)
  <2>1. LastIsGet(channel[t][s])  BY <1>2, <1>3, Zenon
  <2>2. {z \in Server : LastIsGet(channel'[t][z])} = {z \in Server : LastIsGet(channel[t][z])} \ {s}
    BY <1>18, Zenon
  <2>3. {m.server : m \in Coming(t)'} = {m.server : m \in Coming(t)} \cup {s}  BY <1>7, <1>17, Zenon
  <2>4. Open(t)' = unsent[t] \cup ({z \in Server : LastIsGet(channel[t][z])} \ {s})
                    \cup ({m.server : m \in Coming(t)} \cup {s})
    BY <1>6, <2>2, <2>3, Zenon DEF Open
  <2> QED  BY <2>1, <2>4, Zenon DEF Open
<1>20. Done(t)' = Done(t) /\ Written(t)' = Written(t)  BY <1>6, <1>16, <1>19, Zenon DEF Done, Written
<1>21. RequestsRight(t)'
  <2> SUFFICES ASSUME NEW z \in Server
               PROVE  /\ GetsLast(channel'[t][z])
                      /\ LastIsGet(channel'[t][z]) =>
                           /\ pc'[t] \in Waiting
                           /\ z \in DOMAIN Sliced(t)' \ unsent'[t]
                           /\ channel'[t][z][Len(channel'[t][z])].get = op'[t]
                           /\ channel'[t][z][Len(channel'[t][z])].keys = SliceKeys(t, z)'
    BY Zenon DEF RequestsRight
  <2>1. CASE z = s  BY <1>4, <2>1, EmptyQueue, Zenon
  <2>2. CASE z # s  BY <1>4, <1>6, <1>16, <2>2, Zenon DEF ThreadInv, RequestsRight
  <2> QED  BY <2>1, <2>2, Zenon
<1>22. RepliesRight(t)'
  <2>1. \A m : Answers(t, m) => Answers(t, m)'  BY <1>6, <1>16, Zenon DEF Answers
  <2>2. ASSUME NEW m \in Coming(t)'
        PROVE  Answers(t, m)' /\ ~LastIsGet(channel'[t][m.server])
    <3>1. Answers(t, m)  BY <1>12, <1>17, Zenon DEF ThreadInv, RepliesRight
    <3>2. m.server \in Server  BY <3>1, SliceTypes, Zenon DEF Answers
    <3>3. m = r \/ ~LastIsGet(channel[t][m.server])  BY <1>17, Zenon DEF ThreadInv, RepliesRight
    <3> QED  BY <1>7, <1>18, <2>1, <3>1, <3>2, <3>3, Zenon
  <2>3. \A h \in Handling(t) : r.server # h.server  BY <1>7, <1>13, Zenon DEF Coming
  <2>4. \A m \in RepliesIn(work_queue'[t]), h \in Handling(t)' : m.server # h.server
    BY <1>17, <2>3, Zenon DEF ThreadInv, RepliesRight
  <2> QED  BY <1>5, <1>15, <2>2, <2>4, Zenon DEF RepliesRight
<1>23. PhaseRight(t)'  BY <1>6, <1>16, Zenon DEF ThreadInv, PhaseRight
<1>24. CountRight(t)'  BY <1>6, <1>16, <1>20, Zenon DEF ThreadInv, CountRight
<1>25. CacheRight(t)'  BY <1>6, <1>16, <1>20, CacheKept, Zenon DEF ThreadInv
<1>26. SentRight(t)'
  <2>1. \A z \in Server : /\ UpdatesOf(channel'[t][z]) = UpdatesOf(channel[t][z])
                          /\ ClocksOf(channel'[t][z]) = ClocksOf(channel[t][z])
    BY <1>4, <1>8, EmptyQueue, Zenon
  <2> QED  BY <1>6, <2>1, Zenon DEF ThreadInv, SentRight
<1> QED  BY <1>21, <1>22, <1>23, <1>24, <1>25, <1>26, Zenon DEF ThreadInv

\* The reply to a reset adds no reply to a Get.
LEMMA ResetStep ==
  ASSUME TypeOK, AnswerReset, UNCHANGED <<partition_manager, history>>,
         NEW t \in Thread, ThreadInv(t)
  PROVE  ThreadInv(t)'
<1> USE DEF frame, blocker, server, history
<1> DEFINE r == [flag |-> "kResetWorkerInModel"]  w == work_queue[t]
<1>1. r \in Message /\ r.flag # "kGet"  BY Zenon DEF Message, OtherReply
<1>2. w \in Seq(Message) /\ Distinct(w)  BY Zenon DEF TypeOK, Message, ThreadInv, RepliesRight
<1>3. work_queue' = [work_queue EXCEPT ![First] = Append(@, r)]  BY Zenon DEF AnswerReset
<1> HIDE DEF r
<1>4. work_queue'[t] = w \/ work_queue'[t] = Append(w, r)  BY <1>3, Zenon DEF TypeOK
<1>5. /\ RepliesIn(Append(w, r)) = RepliesIn(w) \cup (IF r.flag = "kGet" THEN {r} ELSE {})
      /\ Distinct(Append(w, r))
  BY <1>1, <1>2, ReplyAppended, Zenon
<1>6. RepliesIn(work_queue'[t]) = RepliesIn(w) /\ Distinct(work_queue'[t])
  BY <1>1, <1>2, <1>4, <1>5, Zenon
<1>7. UNCHANGED View(t) /\ UNCHANGED pc  BY <1>6, Zenon DEF AnswerReset, View
<1> QED  BY <1>6, <1>7, SameThread, Zenon

-----------------------------------------------------------------------------
(* The helper.                                                             *)

\* The helper takes a reply from its queue; messages that are no reply to a
\* Get are dropped.
LEMMA PopStep ==
  ASSUME TypeOK, NEW t \in Thread, ThreadInv(t), WaitAndPop(t), UNCHANGED elsewhere
  PROVE  ThreadInv(t)'
<1> USE DEF frame, blocker, server, history, elsewhere
<1> DEFINE w == work_queue[t]  m == Head(w)
<1>1. w \in Seq(Message) /\ w # <<>> /\ Distinct(w)
  BY Zenon DEF WaitAndPop, TypeOK, Message, ThreadInv, RepliesRight
<1>2. helper[t] = Polling  BY Zenon DEF WaitAndPop
<1>3. work_queue'[t] = Tail(w)  BY Zenon DEF WaitAndPop, TypeOK
<1>4. helper'[t] = IF IsResponse(m) THEN [at |-> "AddResponse", msg |-> m] ELSE Polling
  BY Zenon DEF WaitAndPop, TypeOK
<1>5. UNCHANGED <<partition_manager, pc, op, keys, unsent, cache, recv_handles, tracker, channel,
                  storage, progress, added, clocked>>
  BY Zenon DEF WaitAndPop
<1>6. /\ RepliesIn(w) = RepliesIn(Tail(w)) \cup (IF m.flag = "kGet" THEN {m} ELSE {})
      /\ Distinct(Tail(w))
      /\ m.flag = "kGet" => \A r \in RepliesIn(Tail(w)) : r.server # m.server
  BY <1>1, ReplyPopped, Zenon
<1> HIDE DEF m
<1>7. CASE ~IsResponse(m)
  <2>1. RepliesIn(work_queue'[t]) = RepliesIn(w)  BY <1>3, <1>6, <1>7, Zenon DEF IsResponse
  <2>2. UNCHANGED View(t)  BY <1>2, <1>4, <1>5, <1>7, <2>1, Zenon DEF View
  <2> QED  BY <1>3, <1>5, <1>6, <2>2, SameThread, Zenon
<1>8. CASE IsResponse(m)
  <2>1. helper'[t] # Polling /\ helper'[t].msg = m /\ helper'[t].at = "AddResponse" /\ helper[t].at # "count"
    BY <1>2, <1>4, <1>8, SMTT(30) DEF Polling
  <2>2. RepliesIn(w) = RepliesIn(work_queue'[t]) \cup {m}  BY <1>3, <1>6, <1>8, Zenon DEF IsResponse
  <2>3. Handling(t) = {} /\ Handling(t)' = {m}  BY <1>2, <2>1, Zenon DEF Handling
  <2>4. Coming(t)' = Coming(t)  BY <2>2, <2>3, Zenon DEF Coming
  <2>5. Sliced(t)' = Sliced(t) /\ \A z : SliceKeys(t, z)' = SliceKeys(t, z)
    BY <1>5, Zenon DEF Sliced, SliceKeys
  <2>6. Open(t)' = Open(t) /\ Done(t)' = Done(t) /\ Written(t)' = Written(t)
    BY <1>5, <2>1, <2>4, <2>5, Zenon DEF Open, Done, Written
  <2>7. RequestsRight(t)'  BY <1>5, <2>5, Zenon DEF ThreadInv, RequestsRight
  <2>8. RepliesRight(t)'
    <3>1. \A r : Answers(t, r) => Answers(t, r)'  BY <1>5, <2>5, Zenon DEF Answers
    <3>2. \A r \in RepliesIn(work_queue'[t]), h \in Handling(t)' : r.server # h.server
      BY <1>3, <1>6, <1>8, <2>3, Zenon DEF IsResponse
    <3> QED  BY <1>3, <1>5, <1>6, <2>4, <3>1, <3>2, Zenon DEF ThreadInv, RepliesRight
  <2>9. PhaseRight(t)'  BY <1>5, <2>5, Zenon DEF ThreadInv, PhaseRight
  <2>10. CountRight(t)'  BY <1>5, <2>5, <2>6, Zenon DEF ThreadInv, CountRight
  <2>11. CacheRight(t)'  BY <1>5, <2>5, <2>6, CacheKept, Zenon DEF ThreadInv
  <2>12. SentRight(t)'  BY <1>5, ZenonT(40) DEF ThreadInv, SentRight
  <2> QED  BY <2>7, <2>8, <2>9, <2>10, <2>11, <2>12, Zenon DEF ThreadInv
<1> QED  BY <1>7, <1>8, Zenon

\* AddResponse finds out whether the reply is the last one.
LEMMA CheckFinishStep ==
  ASSUME TypeOK, NEW t \in Thread, ThreadInv(t), CheckFinish(t), UNCHANGED elsewhere
  PROVE  ThreadInv(t)'
<1> USE DEF frame, blocker, server, history, elsewhere
<1>1. helper[t].at = "AddResponse" /\ helper'[t].at = "recv_handle" /\ helper'[t].msg = helper[t].msg
  BY Zenon DEF CheckFinish, TypeOK
<1>2. helper[t] # Polling /\ helper'[t] # Polling  BY <1>1, SMTT(30) DEF Polling
<1>3. UNCHANGED <<partition_manager, pc, op, keys, unsent, cache, recv_handles, tracker, channel,
                  storage, progress, added, clocked, work_queue>>
  BY Zenon DEF CheckFinish
<1>4. Handling(t)' = Handling(t) /\ Coming(t)' = Coming(t)  BY <1>1, <1>2, <1>3, Zenon DEF Handling, Coming
<1>5. Sliced(t)' = Sliced(t) /\ \A z : SliceKeys(t, z)' = SliceKeys(t, z)
  BY <1>3, Zenon DEF Sliced, SliceKeys
<1>6. Open(t)' = Open(t) /\ Done(t)' = Done(t) /\ Written(t)' = Written(t)
  BY <1>1, <1>3, <1>4, <1>5, Zenon DEF Open, Done, Written
<1>7. RequestsRight(t)'  BY <1>3, <1>5, Zenon DEF ThreadInv, RequestsRight
<1>8. RepliesRight(t)'
  <2>1. \A r : Answers(t, r) => Answers(t, r)'  BY <1>3, <1>5, Zenon DEF Answers
  <2> QED  BY <1>3, <1>4, <2>1, Zenon DEF ThreadInv, RepliesRight
<1>9. PhaseRight(t)'  BY <1>3, <1>5, Zenon DEF ThreadInv, PhaseRight
<1>10. CountRight(t)'  BY <1>3, <1>5, <1>6, Zenon DEF ThreadInv, CountRight
<1>11. CacheRight(t)'  BY <1>3, <1>5, <1>6, CacheKept, Zenon DEF ThreadInv
<1>12. SentRight(t)'  BY <1>3, ZenonT(40) DEF ThreadInv, SentRight
<1> QED  BY <1>7, <1>8, <1>9, <1>10, <1>11, <1>12, Zenon DEF ThreadInv

\* A reply that the helper has taken answers the Get in progress.
LEMMA InHand ==
  ASSUME NEW t \in Thread, ThreadInv(t), helper[t] # Polling
  PROVE  /\ Answers(t, helper[t].msg) /\ ~LastIsGet(channel[t][helper[t].msg.server])
         /\ \A m \in RepliesIn(work_queue[t]) : m.server # helper[t].msg.server
         /\ helper[t].msg.server \in Open(t)
         /\ Handling(t) = {helper[t].msg}
<1>1. Handling(t) = {helper[t].msg}  BY Zenon DEF Handling
<1>2. helper[t].msg \in Coming(t)  BY <1>1, Zenon DEF Coming
<1> QED  BY <1>1, <1>2, Zenon DEF ThreadInv, RepliesRight, Open

\* The keys of the slices of some servers and of one more.
LEMMA UnionWith ==
  ASSUME NEW t, NEW D, NEW x
  PROVE  UNION {SliceKeys(t, z) : z \in D \cup {x}}
           = SliceKeys(t, x) \cup UNION {SliceKeys(t, z) : z \in D}
  BY Zenon

\* The handler writes the slice of the reply to the map of the Get.
LEMMA RunHandlerStep ==
  ASSUME TypeOK, NEW t \in Thread, ThreadInv(t), RunHandler(t), UNCHANGED elsewhere
  PROVE  ThreadInv(t)'
<1> USE DEF frame, blocker, server, history, elsewhere
<1> DEFINE m == helper[t].msg
<1>1. helper[t].at = "recv_handle" /\ helper[t] # Polling  BY DEF RunHandler, Polling
<1>2. helper'[t].at = "count" /\ helper'[t].msg = m
  <2>1. helper[t] \in [at : {"recv_handle", "count"}, msg : Reply, recv_finish : BOOLEAN]
    BY <1>1, Zenon DEF TypeOK, HelperState
  <2>2. helper'[t] = [helper[t] EXCEPT !.at = "count"]  BY Zenon DEF RunHandler, TypeOK
  <2> QED  BY <2>1, <2>2, Zenon
<1>3. helper'[t] # Polling  BY <1>2, SMTT(30) DEF Polling
<1>4. UNCHANGED <<partition_manager, pc, op, keys, unsent, recv_handles, tracker, channel,
                  storage, progress, added, clocked, work_queue>>
  BY Zenon DEF RunHandler
<1>5. Answers(t, m)  BY <1>1, InHand, Zenon
<1>6. Handling(t)' = Handling(t) /\ Coming(t)' = Coming(t)  BY <1>1, <1>2, <1>3, <1>4, Zenon DEF Handling, Coming
<1>7. Sliced(t)' = Sliced(t) /\ \A z : SliceKeys(t, z)' = SliceKeys(t, z)
  BY <1>4, Zenon DEF Sliced, SliceKeys
<1>8. Open(t)' = Open(t) /\ Done(t)' = Done(t)  BY <1>4, <1>6, <1>7, Zenon DEF Open, Done
<1>9. Written(t) = Done(t) /\ Written(t)' = Done(t) \cup {m.server}  BY <1>1, <1>2, <1>8, Zenon DEF Written
<1>10. RequestsRight(t)'  BY <1>4, <1>7, Zenon DEF ThreadInv, RequestsRight
<1>11. RepliesRight(t)'
  <2>1. \A r : Answers(t, r) => Answers(t, r)'  BY <1>4, <1>7, Zenon DEF Answers
  <2> QED  BY <1>4, <1>6, <2>1, Zenon DEF ThreadInv, RepliesRight
<1>12. PhaseRight(t)'
  <2>1. pc[t] \notin Preparing \cup {"user_code"}  BY <1>5, Zenon DEF Answers, Preparing, Waiting
  <2> QED  BY <1>4, <1>7, <2>1, Zenon DEF ThreadInv, PhaseRight
<1>13. CountRight(t)'  BY <1>4, <1>7, <1>8, Zenon DEF ThreadInv, CountRight
<1>14. CacheRight(t)'
  <2>1. cache'[t] = [k \in DOMAIN cache[t] \cup m.keys |->
          IF k \in m.keys THEN [val |-> {u \in m.vals : u[1] = k}, get |-> m.get, clocks |-> m.clocks]
          ELSE cache[t][k]]
    BY Zenon DEF RunHandler, TypeOK
  <2>2. CacheRight(t) /\ pc[t] \in Waiting  BY <1>5, Zenon DEF ThreadInv, Answers
  <2>3. DOMAIN cache'[t] = UNION {SliceKeys(t, z) : z \in Written(t)'}
    <3>1. DOMAIN cache'[t] = DOMAIN cache[t] \cup m.keys  BY <2>1, Zenon
    <3>2. DOMAIN cache[t] = UNION {SliceKeys(t, z) : z \in Done(t)}  BY <1>9, <2>2, Zenon DEF CacheRight
    <3>3. m.keys = SliceKeys(t, m.server)  BY <1>5, Zenon DEF Answers
    <3>4. UNION {SliceKeys(t, z) : z \in Done(t) \cup {m.server}}
            = SliceKeys(t, m.server) \cup UNION {SliceKeys(t, z) : z \in Done(t)}
      BY UnionWith, Zenon
    <3> QED  BY <1>9, <3>1, <3>2, <3>3, <3>4, Zenon
  <2>4. ASSUME NEW k \in DOMAIN cache'[t]
        PROVE  /\ cache'[t][k].get = op[t]
               /\ cache'[t][k].val = {u \in added[t] : u[1] = k}
               /\ cache'[t][k].clocks = clocked[t]
    <3>1. CASE k \in m.keys
      <4>1. cache'[t][k] = [val |-> {u \in m.vals : u[1] = k}, get |-> m.get, clocks |-> m.clocks]
        BY <2>1, <3>1, Zenon
      <4>2. {u \in m.vals : u[1] = k} = {u \in added[t] : u[1] = k}  BY <1>5, <3>1, Zenon DEF Answers
      <4> QED  BY <1>5, <4>1, <4>2, SMTT(30) DEF Answers
    <3>2. CASE k \notin m.keys
      <4>1. k \in DOMAIN cache[t] /\ cache'[t][k] = cache[t][k]  BY <2>1, <3>2, Zenon
      <4> QED  BY <2>2, <4>1, Zenon DEF CacheRight
    <3> QED  BY <3>1, <3>2, Zenon
  <2> QED  BY <1>4, <1>7, <2>3, <2>4, SMTT(30) DEF CacheRight
<1>15. SentRight(t)'  BY <1>4, ZenonT(40) DEF ThreadInv, SentRight
<1> QED  BY <1>10, <1>11, <1>12, <1>13, <1>14, <1>15, Zenon DEF ThreadInv

\* The reply is counted: its server is done.
LEMMA CountStep ==
  ASSUME TypeOK, NEW t \in Thread, ThreadInv(t), CountResponse(t), UNCHANGED elsewhere
  PROVE  ThreadInv(t)'
<1> USE DEF frame, blocker, server, history, elsewhere
<1> DEFINE m == helper[t].msg
<1>1. helper[t].at = "count" /\ helper[t] # Polling  BY DEF CountResponse, Polling
<1>2. helper'[t] = Polling /\ helper'[t].at # "count"  BY Zenon DEF CountResponse, TypeOK, Polling
<1>3. UNCHANGED <<partition_manager, op, keys, unsent, cache, recv_handles, channel,
                  storage, progress, added, clocked, work_queue>>
  BY Zenon DEF CountResponse
<1>4. /\ Answers(t, m) /\ ~LastIsGet(channel[t][m.server])
      /\ \A r \in RepliesIn(work_queue[t]) : r.server # m.server
      /\ m.server \in Open(t) /\ Handling(t) = {m}
  BY <1>1, InHand, Zenon
<1>5. pc[t] \in Waiting /\ pc'[t] \in Waiting /\ (pc'[t] = pc[t] \/ (pc[t] = "asleep" /\ pc'[t] = "WaitRequest"))
  <2>1. pc' = pc \/ pc' = [u \in Thread |-> IF pc[u] = "asleep" THEN "WaitRequest" ELSE pc[u]]
    BY Zenon DEF CountResponse, NotifyAll
  <2> QED  BY <1>4, <2>1, Zenon DEF Answers, Waiting
<1>6. Handling(t)' = {} /\ Coming(t)' = RepliesIn(work_queue[t]) /\ Coming(t) = Coming(t)' \cup {m}
  BY <1>2, <1>3, <1>4, Zenon DEF Handling, Coming
<1>7. Sliced(t)' = Sliced(t) /\ \A z : SliceKeys(t, z)' = SliceKeys(t, z)
  BY <1>3, Zenon DEF Sliced, SliceKeys
<1>8. Open(t)' = Open(t) \ {m.server}
  <2>1. {r.server : r \in Coming(t)'} = {r.server : r \in Coming(t)} \ {m.server}  BY <1>4, <1>6, Zenon
  <2>2. m.server \notin unsent[t]  BY <1>4, Zenon DEF Answers
  <2>3. Open(t)' = unsent[t] \cup {z \in Server : LastIsGet(channel[t][z])}
                     \cup ({r.server : r \in Coming(t)} \ {m.server})
    BY <1>3, <2>1, Zenon DEF Open
  <2> QED  BY <1>4, <2>2, <2>3, Zenon DEF Open
<1>9. Done(t)' = Done(t) \cup {m.server} /\ m.server \notin Done(t)
  BY <1>4, <1>7, <1>8, Zenon DEF Done, Answers
<1>10. Written(t)' = Written(t)  BY <1>1, <1>2, <1>9, Zenon DEF Written
<1>11. RequestsRight(t)'  BY <1>3, <1>5, <1>7, Zenon DEF ThreadInv, RequestsRight
<1>12. RepliesRight(t)'
  <2>1. \A r : Answers(t, r) => Answers(t, r)'  BY <1>3, <1>5, <1>7, Zenon DEF Answers
  <2> QED  BY <1>3, <1>6, <2>1, Zenon DEF ThreadInv, RepliesRight
<1>13. PhaseRight(t)'
  <2>1. pc'[t] = "send" => pc[t] = "send"  BY <1>5, Zenon
  <2>2. pc'[t] \notin Preparing \cup {"user_code"}  BY <1>5, Zenon DEF Preparing, Waiting
  <2>3. pc[t] \in Places \ (Preparing \cup {"send"}) \/ pc[t] = "send"
    BY <1>5, Zenon DEF Preparing, Waiting, Places
  <2> QED  BY <1>3, <1>5, <1>7, <2>1, <2>2, <2>3, Zenon DEF ThreadInv, PhaseRight
<1>14. CountRight(t)'
  <2>1. IsFiniteSet(Done(t))  BY SliceTypes, FS_Subset, Zenon DEF Done
  <2>2. Cardinality(Done(t) \cup {m.server}) = Cardinality(Done(t)) + 1
    BY <1>9, <2>1, FS_AddElement, Zenon
  <2>3. tracker'[t].expected = tracker[t].expected /\ tracker'[t].received = tracker[t].received + 1
    BY ZenonT(40) DEF CountResponse, TypeOK
  <2> QED  BY <1>5, <1>7, <1>9, <2>2, <2>3, Zenon DEF ThreadInv, CountRight
<1>15. CacheRight(t)'  BY <1>3, <1>5, <1>7, <1>10, CacheKept, Zenon DEF ThreadInv
<1>16. SentRight(t)'  BY <1>3, ZenonT(40) DEF ThreadInv, SentRight
<1> QED  BY <1>11, <1>12, <1>13, <1>14, <1>15, <1>16, Zenon DEF ThreadInv

-----------------------------------------------------------------------------
(* All steps.                                                              *)

\* What a step of thread t leaves alone of another thread: all but that
\* NotifyAll may wake it.
LEMMA OtherThread ==
  ASSUME TypeOK, NEW t \in Thread, NEW u \in Thread, u # t, ThreadInv(u),
         \/ Environment(t) \/ (\E kvs \in Updates : Add(t, kvs)) \/ Clock(t)
         \/ ThreadStep(t) \/ HelperStep(t) \/ \E s \in Server : ServerStep(t, s)
  PROVE  ThreadInv(u)'
<1> USE DEF frame, blocker, server, history, elsewhere, MayPush, Goto, Pop
<1>1. UNCHANGED partition_manager
  BY Zenon DEF Environment, Add, Clock, ThreadStep, HelperStep, ServerStep
<1>2. /\ op'[u] = op[u] /\ keys'[u] = keys[u] /\ unsent'[u] = unsent[u] /\ cache'[u] = cache[u]
      /\ recv_handles'[u] = recv_handles[u] /\ tracker'[u] = tracker[u]
      /\ channel'[u] = channel[u] /\ storage'[u] = storage[u] /\ progress'[u] = progress[u]
      /\ work_queue'[u] = work_queue[u] /\ helper'[u] = helper[u]
      /\ added'[u] = added[u] /\ clocked'[u] = clocked[u]
      /\ pc'[u] = pc[u] \/ (pc[u] = "asleep" /\ pc'[u] = "WaitRequest")
  <2>1. CASE Environment(t)  BY <2>1, Zenon DEF Environment, CallGet, WakeSpuriously, TypeOK
  <2>2. CASE \E kvs \in Updates : Add(t, kvs)  BY <2>2, Zenon DEF Add, TypeOK
  <2>3. CASE Clock(t)  BY <2>3, Zenon DEF Clock, TypeOK
  <2>4. CASE ThreadStep(t)
    <3>1. CASE \E s \in Server : SendSlice(t, s)  BY <2>4, <3>1, Zenon DEF ThreadStep, SendSlice, TypeOK
    <3>2. CASE ~\E s \in Server : SendSlice(t, s)
      BY <2>4, <3>2, Zenon DEF ThreadStep, RegisterRecvHandle, RegisterRecvFinishHandle, NewRequest,
                        SendDone, WaitRequest, ReturnFromGet, TypeOK
    <3> QED  BY <3>1, <3>2, Zenon
  <2>5. CASE HelperStep(t)
    <3>1. CASE CountResponse(t)
      <4>1. pc' = pc \/ pc' = [v \in Thread |-> IF pc[v] = "asleep" THEN "WaitRequest" ELSE pc[v]]
        BY <3>1, Zenon DEF CountResponse, NotifyAll
      <4>2. pc'[u] = pc[u] \/ (pc[u] = "asleep" /\ pc'[u] = "WaitRequest")  BY <4>1, Zenon
      <4> QED  BY <2>5, <3>1, <4>2, Zenon DEF HelperStep, CountResponse, TypeOK
    <3>2. CASE WaitAndPop(t)  BY <2>5, <3>2, Zenon DEF HelperStep, WaitAndPop, TypeOK
    <3>3. CASE CheckFinish(t)  BY <2>5, <3>3, Zenon DEF HelperStep, CheckFinish, TypeOK
    <3>4. CASE RunHandler(t)  BY <2>5, <3>4, Zenon DEF HelperStep, RunHandler, TypeOK
    <3> QED  BY <2>5, <3>1, <3>2, <3>3, <3>4, Zenon DEF HelperStep
  <2>6. CASE \E s \in Server : ServerStep(t, s)
    <3>1. PICK s \in Server : ServerStep(t, s)  BY <2>6, Zenon
    <3>2. CASE HandleAdd(t, s)  BY <3>1, <3>2, Zenon DEF ServerStep, HandleAdd, TypeOK
    <3>3. CASE HandleClock(t, s)  BY <3>1, <3>3, Zenon DEF ServerStep, HandleClock, TypeOK
    <3>4. CASE Answer(t, s)  BY <3>1, <3>4, Zenon DEF ServerStep, Answer, TypeOK
    <3> QED  BY <3>1, <3>2, <3>3, <3>4, Zenon DEF ServerStep
  <2> QED  BY <2>1, <2>2, <2>3, <2>4, <2>5, <2>6, Zenon
<1>3. UNCHANGED View(u) /\ Distinct(work_queue[u])'  BY <1>2, Zenon DEF View, ThreadInv, RepliesRight
<1>4. CASE pc'[u] = pc[u]  BY <1>1, <1>3, <1>4, SameThread, Zenon
<1>5. CASE pc[u] = "asleep" /\ pc'[u] = "WaitRequest"
  <2>1. pc[u] \in Waiting /\ pc'[u] \in Waiting  BY <1>5, Zenon DEF Waiting
  <2>2. Sliced(u)' = Sliced(u)  BY <1>1, <1>2, Zenon DEF Sliced
  <2>3. PhaseRight(u)'  BY <1>2, <1>5, <2>1, <2>2, Zenon DEF ThreadInv, PhaseRight, Preparing, Places
  <2> QED  BY <1>1, <1>3, <2>1, <2>3, SameThread, Zenon
<1> QED  BY <1>2, <1>4, <1>5, Zenon

\* The invariant holds when the tables are new.
LEMMA InitialThread == Init => KVInv
<1> SUFFICES ASSUME Init  PROVE KVInv  BY Zenon
<1>1. TypeOK
  <2>1. DOMAIN EmptyMap = {}  BY Zenon DEF EmptyMap
  <2>2. /\ <<>> \in Seq(Key) /\ <<>> \in Seq(Request) /\ <<>> \in Seq(Reply \cup OtherReply)
        /\ Polling \in HelperState /\ "user_code" \in Places
    BY DEF HelperState, Places
  <2>3. others \in 0 .. MaxOther
    <3>1. others = 0  BY Zenon DEF Init
    <3> QED  BY <3>1, KVClientAssumption
  <2> QED  BY <2>1, <2>2, <2>3, Zenon DEF Init, TypeOK
<1>2. ASSUME NEW t \in Thread  PROVE ThreadInv(t)
  <2>1. /\ pc[t] = "user_code" /\ unsent[t] = {} /\ keys[t] = <<>>
        /\ work_queue[t] = <<>> /\ helper[t] = Polling /\ added[t] = {} /\ clocked[t] = {}
        /\ \A s \in Server : channel[t][s] = <<>> /\ storage[t][s] = {} /\ progress[t][s] = {}
    BY Zenon DEF Init
  <2>2. cache[t] = EmptyMap /\ DOMAIN EmptyMap = {}  BY Zenon DEF Init, EmptyMap
  <2>3. RequestsRight(t)  BY <2>1, EmptyQueue, Zenon DEF RequestsRight
  <2>4. RepliesIn(<<>>) = {} /\ Distinct(<<>>)
    <3>1. 1 .. Len(<<>>) = {}  OBVIOUS
    <3> QED  BY <3>1, Zenon DEF RepliesIn, Distinct
  <2>5. Coming(t) = {} /\ Handling(t) = {}  BY <2>1, <2>4, Zenon DEF Coming, Handling
  <2>6. RepliesRight(t)  BY <2>1, <2>4, <2>5, Zenon DEF RepliesRight
  <2>7. PhaseRight(t)  BY <2>1, <2>2, Zenon DEF PhaseRight, Preparing, Waiting
  <2>8. CountRight(t) /\ CacheRight(t)  BY <2>1, Zenon DEF CountRight, CacheRight, Waiting
  <2>9. SentRight(t)  BY <2>1, EmptyQueue, Zenon DEF SentRight
  <2> QED  BY <2>3, <2>6, <2>7, <2>8, <2>9, Zenon DEF ThreadInv
<1> QED  BY <1>1, <1>2, Zenon DEF KVInv

\* Every step keeps the invariant of every thread.
LEMMA ThreadsStep == KVInv /\ [Next]_vars => KVInv'
<1> SUFFICES ASSUME KVInv, [Next]_vars  PROVE KVInv'  BY Zenon
<1>1. TypeOK /\ \A t \in Thread : ThreadInv(t) /\ PhaseRight(t)  BY Zenon DEF KVInv, ThreadInv
<1>2. CASE UNCHANGED vars
  <2>1. TypeOK'  BY <1>1, <1>2, Zenon DEF vars, frame, blocker, server, history, TypeOK
  <2>2. ASSUME NEW u \in Thread  PROVE ThreadInv(u)'
    <3>1. UNCHANGED View(u) /\ UNCHANGED <<partition_manager, pc, work_queue>>
      BY <1>2, Zenon DEF vars, frame, blocker, server, history, View
    <3>2. Distinct(work_queue[u])'  BY <1>1, <3>1, Zenon DEF ThreadInv, RepliesRight
    <3> QED  BY <1>1, <3>1, <3>2, SameThread, Zenon
  <2> QED  BY <2>1, <2>2, Zenon DEF KVInv
<1>3. CASE AnswerReset /\ UNCHANGED <<partition_manager, history>>
  <2>1. TypeOK'  BY <1>1, <1>3, ResetTypes, Zenon
  <2>2. \A u \in Thread : ThreadInv(u)'  BY <1>1, <1>3, ResetStep, Zenon
  <2> QED  BY <2>1, <2>2, Zenon DEF KVInv
<1>4. ASSUME NEW t \in Thread,
             \/ Environment(t) \/ (\E kvs \in Updates : Add(t, kvs)) \/ Clock(t)
             \/ ThreadStep(t) \/ HelperStep(t) \/ \E s \in Server : ServerStep(t, s)
      PROVE  KVInv'
  <2>1. TypeOK'  BY <1>1, <1>4, ThreadTypes, HelperTypes, ServerTypes, Zenon
  <2>2. ThreadInv(t)'
    <3>1. CASE Environment(t)  BY <1>1, <3>1, CallGetStep, WaitStep, Zenon DEF Environment
    <3>2. CASE \E kvs \in Updates : Add(t, kvs)  BY <1>1, <3>2, AddStep, Zenon
    <3>3. CASE Clock(t)  BY <1>1, <3>3, ClockStep, Zenon
    <3>4. CASE ThreadStep(t)
      BY <1>1, <3>4, RegisterStep, NewRequestStep, SendStep, WaitStep, ReturnStep, Zenon DEF ThreadStep
    <3>5. CASE HelperStep(t)
      BY <1>1, <3>5, PopStep, CheckFinishStep, RunHandlerStep, CountStep, Zenon DEF HelperStep
    <3>6. CASE \E s \in Server : ServerStep(t, s)
      BY <1>1, <3>6, HandleStep, AnswerStep, Zenon DEF ServerStep
    <3> QED  BY <1>4, <3>1, <3>2, <3>3, <3>4, <3>5, <3>6, Zenon
  <2>3. ASSUME NEW u \in Thread, u # t  PROVE ThreadInv(u)'  BY <1>1, <1>4, <2>3, OtherThread, Zenon
  <2> QED  BY <2>1, <2>2, <2>3, Zenon DEF KVInv
<1> QED  BY <1>2, <1>3, <1>4, Zenon DEF Next

\* The invariant of every thread, in every state.
THEOREM ThreadsInvariant == Spec => []KVInv
  BY InitialThread, ThreadsStep, PTL DEF Spec

\* The handler that AddResponse calls without a lock never writes to the
\* frame of a Get that has returned.
THEOREM HandlersSafe == Spec => []HandlerFrameLive
<1>1. KVInv => HandlerFrameLive
  <2> SUFFICES ASSUME KVInv, NEW t \in Thread, helper[t].at = "recv_handle"
               PROVE  /\ pc[t] \in {"send", "WaitRequest", "asleep"}
                      /\ recv_handles[t] = op[t] /\ helper[t].msg.get = op[t]
    BY Zenon DEF HandlerFrameLive
  <2>1. ThreadInv(t) /\ helper[t] # Polling  BY DEF KVInv, Polling
  <2>2. Answers(t, helper[t].msg)  BY <2>1, InHand, Zenon
  <2> QED  BY <2>1, <2>2, Zenon DEF Answers, Waiting, ThreadInv, PhaseRight
<1> QED  BY <1>1, ThreadsInvariant, PTL

\* In the return of a Get all slices are written and nothing of it is left
\* on the way.
LEMMA AllWritten ==
  ASSUME KVInv, NEW t \in Thread, pc[t] = "return"
  PROVE  DOMAIN cache[t] = {keys[t][i] : i \in DOMAIN keys[t]}
<1>1. TypeOK /\ ThreadInv(t) /\ pc[t] \notin Waiting  BY Zenon DEF KVInv, Waiting
<1>2. unsent[t] = {}  BY <1>1, Zenon DEF ThreadInv, PhaseRight, Places, Preparing
<1>3. Open(t) = {}  BY <1>1, <1>2, Idle, Zenon DEF Open
<1>4. Written(t) = DOMAIN Sliced(t)
  <2>1. helper[t].at # "count"  BY <1>1, Idle, SMTT(30) DEF Polling
  <2> QED  BY <1>3, <2>1, Zenon DEF Written, Done
<1>5. DOMAIN cache[t] = UNION {SliceKeys(t, s) : s \in DOMAIN Sliced(t)}
  BY <1>1, <1>4, Zenon DEF ThreadInv, CacheRight
<1>6. keys[t] \in Seq(Key)  BY <1>1, Zenon DEF TypeOK
<1>7. /\ \A i \in DOMAIN keys[t] : ServerOf(partition_manager, keys[t][i]) \in DOMAIN Sliced(t)
      /\ \A s \in DOMAIN Sliced(t) : \A i :
           i \in Sliced(t)[s] <=> i \in DOMAIN keys[t] /\ ServerOf(partition_manager, keys[t][i]) = s
  BY <1>6, SliceExact, SMTT(30) DEF Sliced
<1>8. \A s \in DOMAIN Sliced(t) : \A k \in SliceKeys(t, s) : \E i \in DOMAIN keys[t] : k = keys[t][i]
  BY <1>7, Zenon DEF SliceKeys
<1>9. \A i \in DOMAIN keys[t] : \E s \in DOMAIN Sliced(t) : keys[t][i] \in SliceKeys(t, s)
  BY <1>7, SMTT(30) DEF SliceKeys
<1> QED  BY <1>5, <1>8, <1>9, SMTT(30)

\* WaitRequest lets a Get go on only when it has all its values, and no reply
\* is left over for a later Get.
THEOREM GetComplete == Spec => []CompleteOnReturn
<1>1. KVInv => CompleteOnReturn
  <2> SUFFICES ASSUME KVInv, NEW t \in Thread, pc[t] = "return"
               PROVE  /\ DOMAIN cache[t] = {keys[t][i] : i \in DOMAIN keys[t]}
                      /\ \A k \in DOMAIN cache[t] : cache[t][k].get = op[t]
                      /\ \A s \in Server : \A i \in DOMAIN channel[t][s] : channel[t][s][i].flag # "kGet"
                      /\ \A i \in DOMAIN work_queue[t] : work_queue[t][i].flag # "kGet"
    BY Zenon DEF CompleteOnReturn
  <2>1. TypeOK /\ ThreadInv(t) /\ pc[t] \notin Waiting  BY Zenon DEF KVInv, Waiting
  <2>2. DOMAIN cache[t] = {keys[t][i] : i \in DOMAIN keys[t]}  BY AllWritten, Zenon
  <2>3. \A k \in DOMAIN cache[t] : cache[t][k].get = op[t]  BY <2>1, Zenon DEF ThreadInv, CacheRight
  <2>4. ASSUME NEW s \in Server, NEW i \in DOMAIN channel[t][s]
        PROVE  channel[t][s][i].flag # "kGet"
    <3> DEFINE q == channel[t][s]
    <3>1. q \in Seq(Request) /\ GetsLast(q) /\ ~LastIsGet(q)
      BY <2>1, Idle, ChannelRight, Zenon
    <3>2. i \in 1 .. Len(q) /\ Len(q) \in Nat  BY <2>1, ChannelRight, Zenon
    <3>3. q # <<>> /\ (i = Len(q) \/ i \in 1 .. Len(q) - 1)  BY <3>1, <3>2, LastOrBefore, Zenon
    <3> QED  BY <3>1, <3>2, <3>3, Zenon DEF GetsLast, LastIsGet
  <2>5. ASSUME NEW i \in DOMAIN work_queue[t]  PROVE work_queue[t][i].flag # "kGet"
    <3>1. work_queue[t] \in Seq(Reply \cup OtherReply) /\ RepliesIn(work_queue[t]) = {}
      BY <2>1, Idle, Zenon DEF TypeOK
    <3>2. i \in 1 .. Len(work_queue[t])  BY <3>1, SMTT(30)
    <3> QED  BY <3>1, <3>2, Zenon DEF RepliesIn
  <2> QED  BY <2>2, <2>3, <2>4, <2>5, Zenon
<1> QED  BY <1>1, ThreadsInvariant, PTL

\* A thread reads its own writes, with either partition manager.
THEOREM OwnWritesRead == Spec => []ReadsOwnWrites
<1>1. KVInv => ReadsOwnWrites
  <2> SUFFICES ASSUME KVInv, NEW t \in Thread, pc[t] = "return", NEW i \in DOMAIN keys[t]
               PROVE  /\ cache[t][keys[t][i]].val = {u \in added[t] : u[1] = keys[t][i]}
                      /\ cache[t][keys[t][i]].clocks = clocked[t]
    BY Zenon DEF ReadsOwnWrites
  <2>1. keys[t][i] \in DOMAIN cache[t]  BY AllWritten, Zenon
  <2>2. CacheRight(t)  BY Zenon DEF KVInv, ThreadInv
  <2> QED  BY <2>1, <2>2, Zenon DEF CacheRight
<1> QED  BY <1>1, ThreadsInvariant, PTL
=============================================================================
