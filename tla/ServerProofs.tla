---------------------------- MODULE ServerProofs ----------------------------
(***************************************************************************)
(* Lemmas about what the three consistency models are built from, for      *)
(* every set of threads and keys: what the operations of ProgressTracker   *)
(* preserve, what SubAdd and SubGet of MapStorage do to the updates a      *)
(* value contains, and what a push does to the queue of replies.  The      *)
(* proofs of the models cite these lemmas and never look inside again.     *)
(***************************************************************************)
EXTENDS ProgressTracker, MapStorage, Sequences, FiniteSetTheorems, TLAPS

\* A registered thread's progress is a natural number.
LEMMA RegisteredProgress ==
  ASSUME NEW t \in Tracker, NEW tid \in Registered(t)
  PROVE  t.progresses[tid] \in Nat
BY Zenon DEF Tracker, Registered, CheckThreadValid

\* With a registered thread, the clock of the slowest is a natural number
\* and no thread is behind it: a Get never meets a negative difference.
LEMMA MinClockBound ==
  ASSUME NEW t \in Tracker, SlowestProgress(t), NEW tid \in Registered(t)
  PROVE  t.min_clock \in Nat /\ t.min_clock <= t.progresses[tid]
BY RegisteredProgress, Zenon DEF SlowestProgress

\* Init (progress_tracker.cpp): entering at least one thread at progress 0
\* makes 0 the progress of the slowest, whatever the map held before.
LEMMA InitTidsKeepsSlowest ==
  ASSUME NEW t \in Tracker, NEW tids \in SUBSET Tid, tids # {}
  PROVE  /\ InitTids(t, tids) \in Tracker
         /\ SlowestProgress(InitTids(t, tids))
         /\ Registered(InitTids(t, tids)) = Registered(t) \cup tids
         /\ InitTids(t, tids).min_clock = 0
<1> DEFINE u == InitTids(t, tids)
<1>1. u \in Tracker
  BY DEF InitTids, Tracker
<1>2. /\ Registered(u) = Registered(t) \cup tids
      /\ u.min_clock = 0
  BY DEF InitTids, Tracker, Registered, CheckThreadValid, Absent
<1>3. \A tid \in Registered(u) : u.min_clock <= u.progresses[tid]
  BY <1>1, <1>2, RegisteredProgress
<1>4. \E tid \in Registered(u) : u.min_clock = u.progresses[tid]
  BY <1>2, Zenon DEF InitTids
<1>5. QED
  BY <1>1, <1>2, <1>3, <1>4, Zenon DEF SlowestProgress

\* IsUniqueMin (progress_tracker.cpp) holds exactly of a thread that is
\* alone at the clock of the slowest.
LEMMA UniqueMinIsAlone ==
  ASSUME NEW t \in Tracker, SlowestProgress(t), NEW tid \in Tid
  PROVE  IsUniqueMin(t, tid) <=> AtMinClock(t) = {tid}
<1>1. IsFiniteSet(AtMinClock(t))
  BY IdAssumption, FS_Subset, Zenon DEF AtMinClock, Registered
<1>2. ASSUME IsUniqueMin(t, tid)
      PROVE  AtMinClock(t) = {tid}
  <2>1. tid \in AtMinClock(t)
    BY <1>2, MinClockBound, RegisteredProgress
       DEF IsUniqueMin, AtMinClock, Registered, GetProgress
  <2>2. Cardinality(AtMinClock(t)) = 1
    BY <1>2, Zenon DEF IsUniqueMin
  <2>3. \E x : AtMinClock(t) = {x}
    BY <1>1, <2>2, FS_Singleton, Zenon
  <2>4. QED
    BY <2>1, <2>3, Zenon
<1>3. ASSUME AtMinClock(t) = {tid}
      PROVE  IsUniqueMin(t, tid)
  <2>1. Cardinality(AtMinClock(t)) = 1
    BY <1>3, FS_Singleton, Zenon
  <2>2. tid \in Registered(t) /\ t.progresses[tid] = t.min_clock
    BY <1>3, Zenon DEF AtMinClock
  <2>3. QED
    BY <2>1, <2>2, MinClockBound, Zenon DEF IsUniqueMin, Registered, GetProgress
<1>4. QED
  BY <1>2, <1>3, Zenon

\* AdvanceAndGetChangedMinClock (progress_tracker.cpp): incrementing one
\* thread, and min_clock_ only when that thread was alone at the minimum,
\* keeps min_clock_ the progress of the slowest.
LEMMA AdvanceKeepsSlowest ==
  ASSUME NEW t \in Tracker, SlowestProgress(t), NEW w \in Tid
  PROVE  /\ Advance(t, w) \in Tracker
         /\ SlowestProgress(Advance(t, w))
         /\ Registered(Advance(t, w)) = Registered(t)
<1>1. CASE ~CheckThreadValid(t, w)
  BY <1>1, Zenon DEF Advance
<1>2. CASE CheckThreadValid(t, w)
  <2> DEFINE u == Advance(t, w)
  <2>1. /\ u.progresses = [t.progresses EXCEPT ![w] = @ + 1]
        /\ u.min_clock = IF IsUniqueMin(t, w) THEN t.min_clock + 1 ELSE t.min_clock
        /\ u = [progresses |-> u.progresses, min_clock |-> u.min_clock]
    BY <1>2, Zenon DEF Advance
  <2>2. w \in Registered(t) /\ t.progresses[w] \in Nat
    BY <1>2, RegisteredProgress, Zenon DEF Registered
  <2>3. u \in Tracker
    BY <2>1, <2>2 DEF Tracker
  <2>4. Registered(u) = Registered(t)
    BY <2>1, <2>2 DEF Registered, CheckThreadValid, Tracker, Absent
  <2>5. \A x \in Registered(t) : /\ t.progresses[x] \in Nat
                                 /\ t.min_clock \in Nat
                                 /\ t.min_clock <= t.progresses[x]
                                 /\ u.progresses[x] = IF x = w THEN t.progresses[x] + 1
                                                      ELSE t.progresses[x]
    BY <2>1, RegisteredProgress, MinClockBound, Zenon DEF Tracker, Registered
  <2>6. CASE IsUniqueMin(t, w)
    <3>1. AtMinClock(t) = {w}
      BY <2>6, UniqueMinIsAlone, Zenon
    <3>2. \A x \in Registered(t) : x # w => t.progresses[x] # t.min_clock
      BY <3>1, Zenon DEF AtMinClock
    <3>3. t.progresses[w] = t.min_clock
      BY <3>1, Zenon DEF AtMinClock
    <3>4. QED
      BY <2>1, <2>2, <2>3, <2>4, <2>5, <2>6, <3>2, <3>3 DEF SlowestProgress
  <2>7. CASE ~IsUniqueMin(t, w)
    <3>1. PICK x \in Registered(t) : t.progresses[x] = t.min_clock /\ x # w
      <4>1. AtMinClock(t) # {w}
        BY <2>7, UniqueMinIsAlone, Zenon
      <4>2. \E y \in Registered(t) : y \in AtMinClock(t)
        BY <2>2, Zenon DEF SlowestProgress, AtMinClock
      <4>3. QED
        BY <4>1, <4>2, Zenon DEF AtMinClock
    <3>2. u.progresses[x] = u.min_clock
      BY <2>1, <2>5, <2>7, <3>1, Zenon
    <3>3. QED
      BY <2>1, <2>3, <2>4, <2>5, <2>7, <3>2 DEF SlowestProgress
  <2>8. QED
    BY <2>6, <2>7, Zenon
<1>3. QED
  BY <1>1, <1>2, Zenon

\* The answer of AdvanceAndGetChangedMinClock is -1 or the new minimum, and
\* the minimum moves by at most one.
LEMMA ChangedMinClockIsNewMin ==
  ASSUME NEW t \in Tracker, SlowestProgress(t), NEW w \in Tid
  PROVE  \/ /\ ChangedMinClock(t, w) = -1
            /\ Advance(t, w).min_clock = t.min_clock
         \/ /\ ChangedMinClock(t, w) = t.min_clock + 1
            /\ ChangedMinClock(t, w) \in Nat
            /\ Advance(t, w).min_clock = t.min_clock + 1
<1>1. CASE IsUniqueMin(t, w)
  <2>1. w \in Registered(t)
    BY <1>1, Zenon DEF IsUniqueMin, Registered
  <2>2. t.min_clock \in Nat
    BY <2>1, MinClockBound, Zenon
  <2>3. QED
    BY <1>1, <2>2 DEF ChangedMinClock, Advance, IsUniqueMin
<1>2. CASE ~IsUniqueMin(t, w)
  BY <1>2, Zenon DEF ChangedMinClock, Advance
<1>3. QED
  BY <1>1, <1>2, Zenon

\* The updates of thread w that storage_ contains for key k.
Stored(s, k, w) == IF k \in DOMAIN s THEN s[k][w] ELSE 0

\* What storage_ contains of a thread is a count.
LEMMA StoredIsNat ==
  ASSUME NEW s, IsVals(s), NEW k, NEW w \in Tid
  PROVE  Stored(s, k, w) \in Nat
BY Zenon DEF Stored, IsVals, Value

\* MapStorage::SubAdd adds one update of the sender to each key of the Add,
\* whether the key was stored before or not, and touches nothing else.
LEMMA SubAddCounts ==
  ASSUME NEW s, IsVals(s), NEW keys \in SUBSET Key, NEW w \in Tid
  PROVE  /\ IsVals(SubAdd(s, keys, Unit(w)))
         /\ \A k \in Key, x \in Tid :
              Stored(SubAdd(s, keys, Unit(w)), k, x)
                = Stored(s, k, x) + (IF x = w /\ k \in keys THEN 1 ELSE 0)
<1> DEFINE u == SubAdd(s, keys, Unit(w))
<1>1. /\ DOMAIN u = DOMAIN s \cup keys
      /\ \A k \in DOMAIN u :
           u[k] = IF k \notin keys THEN s[k]
                  ELSE IF k \in DOMAIN s THEN Plus(s[k], Unit(w)) ELSE Unit(w)
  BY Zenon DEF SubAdd
<1>2. Unit(w) \in Value /\ \A x \in Tid : Unit(w)[x] = IF x = w THEN 1 ELSE 0
  BY Zenon DEF Unit, Value
<1>3. \A k \in DOMAIN s : /\ s[k] \in Value
                          /\ Plus(s[k], Unit(w)) \in Value
                          /\ \A x \in Tid : Plus(s[k], Unit(w))[x] = s[k][x] + Unit(w)[x]
  BY <1>2 DEF Plus, Value, IsVals
<1> HIDE DEF u
<1>4. IsVals(u)
  BY <1>1, <1>2, <1>3, Zenon DEF IsVals
<1>5. ASSUME NEW k \in Key, NEW x \in Tid
      PROVE  Stored(u, k, x) = Stored(s, k, x) + (IF x = w /\ k \in keys THEN 1 ELSE 0)
  <2>1. k \in DOMAIN s => s[k][x] \in Nat
    BY <1>3, Zenon DEF Value
  <2>2. QED
    BY <1>1, <1>2, <1>3, <2>1 DEF Stored
<1>6. QED
  BY <1>4, <1>5, Zenon DEF u

\* MapStorage::SubGet answers the updates stored for each key, and the zeros
\* it leaves behind for new keys change no count.
LEMMA SubGetCounts ==
  ASSUME NEW s, IsVals(s), NEW keys \in SUBSET Key
  PROVE  /\ IsVals(AfterGet(s, keys)) /\ IsVals(SubGet(s, keys))
         /\ DOMAIN AfterGet(s, keys) = DOMAIN s \cup keys
         /\ DOMAIN SubGet(s, keys) = keys
         /\ \A k, x : x \in Tid => Stored(AfterGet(s, keys), k, x) = Stored(s, k, x)
         /\ \A k \in keys, x \in Tid : SubGet(s, keys)[k][x] = Stored(s, k, x)
<1>1. Zero \in Value /\ \A x \in Tid : Zero[x] = 0
  BY Zenon DEF Zero, Value
<1>2. /\ DOMAIN AfterGet(s, keys) = DOMAIN s \cup keys
      /\ \A k \in DOMAIN s \cup keys :
           AfterGet(s, keys)[k] = IF k \in DOMAIN s THEN s[k] ELSE Zero
  BY Zenon DEF AfterGet
<1>3. /\ DOMAIN SubGet(s, keys) = keys
      /\ \A k \in keys : SubGet(s, keys)[k] = IF k \in DOMAIN s THEN s[k] ELSE Zero
  BY Zenon DEF SubGet
<1>4. IsVals(AfterGet(s, keys)) /\ IsVals(SubGet(s, keys))
  BY <1>1, <1>2, <1>3, Zenon DEF IsVals
<1>5. \A k, x : x \in Tid => Stored(AfterGet(s, keys), k, x) = Stored(s, k, x)
  BY <1>1, <1>2, Zenon DEF Stored
<1>6. \A k \in keys, x \in Tid : SubGet(s, keys)[k][x] = Stored(s, k, x)
  BY <1>1, <1>3, Zenon DEF Stored
<1>7. QED
  BY <1>2, <1>3, <1>4, <1>5, <1>6, Zenon

\* Pushing on reply_queue_ (ThreadsafeQueue::Push) adds one last element and
\* keeps all others: the sequence is typed by its own elements.
LEMMA AppendIsSeq ==
  ASSUME NEW s, s \in Seq({s[i] : i \in DOMAIN s}), NEW e
  PROVE  /\ Append(s, e) \in Seq({Append(s, e)[i] : i \in DOMAIN Append(s, e)})
         /\ DOMAIN Append(s, e) = 1 .. Len(s) + 1
         /\ Len(Append(s, e)) = Len(s) + 1
         /\ Append(s, e)[Len(s) + 1] = e
         /\ Append(s, e) # s
         /\ \A i \in DOMAIN s : Append(s, e)[i] = s[i]
<1> DEFINE T == {s[i] : i \in DOMAIN s} \cup {e}
<1>1. s \in Seq(T) /\ e \in T
  <2>1. \A i \in 1 .. Len(s) : s[i] \in T
    OBVIOUS
  <2>2. QED
    BY <2>1
<1> HIDE DEF T
<1>2. /\ Append(s, e) \in Seq(T)
      /\ Len(Append(s, e)) = Len(s) + 1
      /\ DOMAIN Append(s, e) = 1 .. Len(s) + 1
      /\ Append(s, e)[Len(s) + 1] = e
      /\ \A i \in 1 .. Len(s) : Append(s, e)[i] = s[i]
  BY <1>1
<1>3. Append(s, e) \in Seq({Append(s, e)[i] : i \in DOMAIN Append(s, e)})
  BY <1>2
<1>4. DOMAIN s = 1 .. Len(s)
  BY <1>1
<1>5. Append(s, e) # s
  <2>1. Len(s) \in Nat
    BY <1>1
  <2>2. Len(Append(s, e)) # Len(s)
    BY <1>2, <2>1
  <2>3. QED
    BY <2>2, Zenon
<1>6. QED
  BY <1>2, <1>3, <1>4, <1>5, Zenon

\* The reply that was pushed last on reply_queue_ is the last element.
LEMMA AppendLast ==
  ASSUME NEW s, s \in Seq({s[i] : i \in DOMAIN s}), NEW e
  PROVE  Append(s, e)[Len(Append(s, e))] = e
<1>1. Len(Append(s, e)) = Len(s) + 1 /\ Append(s, e)[Len(s) + 1] = e
  BY AppendIsSeq, Zenon
<1>2. QED
  BY <1>1, Zenon

\* Everything on reply_queue_ is a reply.
IsReplies(q) == q \in Seq({q[i] : i \in DOMAIN q}) /\ \A i \in DOMAIN q : IsReply(q[i])

\* A reply pushed on reply_queue_ leaves it a queue of replies.
LEMMA PushReply ==
  ASSUME NEW q, IsReplies(q), NEW e, IsReply(e)
  PROVE  IsReplies(Append(q, e))
<1>1. /\ Append(q, e) \in Seq({Append(q, e)[i] : i \in DOMAIN Append(q, e)})
      /\ DOMAIN Append(q, e) = 1 .. Len(q) + 1
      /\ Append(q, e)[Len(q) + 1] = e
      /\ DOMAIN q = 1 .. Len(q) /\ Len(q) \in Nat
      /\ \A i \in DOMAIN q : Append(q, e)[i] = q[i]
  BY AppendIsSeq DEF IsReplies
<1>2. \A i \in 1 .. Len(q) + 1 : i = Len(q) + 1 \/ i \in DOMAIN q
  BY <1>1
<1>3. QED
  BY <1>1, <1>2, Zenon DEF IsReplies

-----------------------------------------------------------------------------
(* The state of a table as its users see it.                               *)

\* MapStorage::SubGet changes no value a user can see, and answers the values
\* of the keys.
LEMMA ValuesAfterGet ==
  ASSUME NEW s, IsVals(s), NEW keys \in SUBSET Key
  PROVE  /\ ValuesOf(AfterGet(s, keys)) = ValuesOf(s)
         /\ SubGet(s, keys) = [k \in keys |-> ValuesOf(s)[k]]
<1>1. \A k \in keys : k \in Key
  BY Zenon
<1>2. ValuesOf(AfterGet(s, keys)) = ValuesOf(s)
  <2>1. /\ DOMAIN AfterGet(s, keys) = DOMAIN s \cup keys
        /\ \A k \in DOMAIN s \cup keys :
             AfterGet(s, keys)[k] = IF k \in DOMAIN s THEN s[k] ELSE Zero
    BY Zenon DEF AfterGet
  <2>2. QED
    BY <2>1, Zenon DEF ValuesOf
<1>3. QED
  BY <1>1, <1>2, Zenon DEF SubGet, ValuesOf

\* MapStorage::SubAdd counts one more update of the sender in each key.
LEMMA ValuesAfterAdd ==
  ASSUME NEW s, IsVals(s), NEW keys \in SUBSET Key, NEW w \in Tid
  PROVE  ValuesOf(SubAdd(s, keys, Unit(w)))
           = [k \in Key |-> IF k \in keys THEN [ValuesOf(s)[k] EXCEPT ![w] = @ + 1]
                            ELSE ValuesOf(s)[k]]
<1> DEFINE u == SubAdd(s, keys, Unit(w))
<1>1. /\ DOMAIN u = DOMAIN s \cup keys
      /\ \A k \in DOMAIN u :
           u[k] = IF k \notin keys THEN s[k]
                  ELSE IF k \in DOMAIN s THEN Plus(s[k], Unit(w)) ELSE Unit(w)
  BY Zenon DEF SubAdd
<1>2. Unit(w) = [Zero EXCEPT ![w] = @ + 1]
  BY DEF Unit, Zero
<1>3. \A k \in DOMAIN s : Plus(s[k], Unit(w)) = [s[k] EXCEPT ![w] = @ + 1]
  <2> SUFFICES ASSUME NEW k \in DOMAIN s
               PROVE  Plus(s[k], Unit(w)) = [s[k] EXCEPT ![w] = @ + 1]
    BY Zenon
  <2>1. s[k] \in [Tid -> Nat]
    BY Zenon DEF IsVals, Value
  <2> DEFINE v == s[k]
             p == Plus(v, Unit(w))
             e == [v EXCEPT ![w] = @ + 1]
  <2>2. v \in [Tid -> Nat]
    BY <2>1, Zenon
  <2> HIDE DEF u, v
  <2>3. p = [x \in Tid |-> v[x] + (IF x = w THEN 1 ELSE 0)]
    BY Zenon DEF Plus, Unit
  <2>4. \A x \in Tid : v[x] + (IF x = w THEN 1 ELSE 0) = e[x]
    BY <2>2
  <2>5. e = [x \in Tid |-> e[x]]
    BY <2>2, Zenon
  <2>6. p = e
    BY <2>3, <2>4, <2>5, Zenon
  <2>7. QED
    BY <2>6, Zenon DEF v
<1>4. /\ DOMAIN ValuesOf(s) = Key
      /\ \A k \in Key : ValuesOf(s)[k] = IF k \in DOMAIN s THEN s[k] ELSE Zero
  BY Zenon DEF ValuesOf
<1> HIDE DEF u
<1>5. \A k \in Key : (IF k \in DOMAIN u THEN u[k] ELSE Zero)
                       = IF k \in keys THEN [ValuesOf(s)[k] EXCEPT ![w] = @ + 1] ELSE ValuesOf(s)[k]
  BY <1>1, <1>2, <1>3, <1>4, Zenon
<1>6. ValuesOf(u) = [k \in Key |-> IF k \in DOMAIN u THEN u[k] ELSE Zero]
  BY Zenon DEF ValuesOf
<1>7. QED
  BY <1>5, <1>6, Zenon DEF u

\* A reply pushed on reply_queue_ is one more answer, if it is one of a Get.
LEMMA AnswersAfterPush ==
  ASSUME NEW q, IsReplies(q), NEW e
  PROVE  /\ e.flag = "kGet" =>
              AnswersOf(Append(q, e))
                = AnswersOf(q) \cup {[sender |-> e.recver, id |-> e.id, vals |-> e.vals]}
         /\ e.flag # "kGet" => AnswersOf(Append(q, e)) = AnswersOf(q)
<1> DEFINE a == Append(q, e)
           n == Len(q) + 1
           Gets(r) == {j \in DOMAIN r : r[j].flag = "kGet"}
<1>1. /\ DOMAIN a = DOMAIN q \cup {n}
      /\ n \notin DOMAIN q
      /\ a[n] = e
      /\ \A i \in DOMAIN q : a[i] = q[i]
  <2>1. /\ DOMAIN a = 1 .. Len(q) + 1 /\ a[n] = e /\ \A i \in DOMAIN q : a[i] = q[i]
        /\ DOMAIN q = 1 .. Len(q) /\ Len(q) \in Nat
    BY AppendIsSeq DEF IsReplies
  <2> HIDE DEF a
  <2>2. QED
    BY <2>1
<1> HIDE DEF a, n
<1>2. Gets(a) = IF e.flag = "kGet" THEN Gets(q) \cup {n} ELSE Gets(q)
  BY <1>1, Zenon
<1>3. \A i \in Gets(q) : a[i] = q[i]
  BY <1>1, Zenon
<1> HIDE DEF Gets
<1>4. /\ AnswersOf(a) = {[sender |-> a[i].recver, id |-> a[i].id, vals |-> a[i].vals] : i \in Gets(a)}
      /\ AnswersOf(q) = {[sender |-> q[i].recver, id |-> q[i].id, vals |-> q[i].vals] : i \in Gets(q)}
  BY Zenon DEF AnswersOf, Gets
<1>5. CASE e.flag = "kGet"
  <2>1. AnswersOf(a) = AnswersOf(q) \cup {[sender |-> e.recver, id |-> e.id, vals |-> e.vals]}
    BY <1>1, <1>2, <1>3, <1>4, <1>5
  <2>2. QED
    BY <1>5, <2>1, Zenon DEF a
<1>6. CASE e.flag # "kGet"
  <2>1. AnswersOf(a) = AnswersOf(q)
    BY <1>2, <1>3, <1>4, <1>6
  <2>2. QED
    BY <1>6, <2>1, Zenon DEF a
<1>7. QED
  BY <1>5, <1>6, Zenon

\* An answer names the thread and the number of its Get.
LEMMA AnswersType ==
  ASSUME NEW q, IsReplies(q), NEW a \in AnswersOf(q)
  PROVE  a.sender \in Tid /\ a.id \in Nat
<1>1. PICK i \in DOMAIN q : /\ q[i].flag = "kGet"
                            /\ a = [sender |-> q[i].recver, id |-> q[i].id, vals |-> q[i].vals]
  BY Zenon DEF AnswersOf
<1>2. IsReply(q[i])
  BY Zenon DEF IsReplies
<1>3. q[i].recver \in Tid /\ q[i].id \in Nat
  BY <1>1, <1>2, Zenon DEF IsReply
<1>4. QED
  BY <1>1, <1>3, Zenon
=============================================================================
