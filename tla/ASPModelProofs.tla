--------------------------- MODULE ASPModelProofs ---------------------------
(***************************************************************************)
(* Proofs about ASPModel for every set of threads and keys and all bounds: *)
(* the replies of Get belong to one history of the table, and the model    *)
(* implements the service of a table.                                      *)
(***************************************************************************)
EXTENDS ASPModel, ServerProofs

\* No value is ahead of the storage.
Below(v, s) == \A k \in DOMAIN v, w \in Tid : v[k][w] <= Stored(s, k, w)

\* The inductive invariant of ASPModel: every answer read counts that are
\* still below those of the storage, and its Get was received.
ASPInv ==
  /\ IsVals(storage) /\ IsReplies(reply_queue) /\ gets \in [Tid -> Nat]
  /\ \A i \in GetReplies : Below(reply_queue[i].vals, storage)
  /\ RepliesOneHistory
  /\ \A a \in AnswersOf(reply_queue) : a.id <= gets[a.sender]

\* ASPModel::Add only raises counts.
LEMMA AddKeepsInv ==
  ASSUME ASPInv, NEW w \in Tid, NEW keys \in Keys, Add(w, keys)
  PROVE  ASPInv'
<1>1. IsVals(storage) /\ keys \in SUBSET Key /\ IsReplies(reply_queue) /\ gets \in [Tid -> Nat]
  BY Zenon DEF ASPInv, Keys
<1>2. storage' = SubAdd(storage, keys, Unit(w)) /\ UNCHANGED <<reply_queue, gets>>
  BY Zenon DEF Add
<1>3. /\ IsVals(storage')
      /\ \A k \in Key, x \in Tid : Stored(storage, k, x) <= Stored(storage', k, x)
  <2>1. /\ IsVals(storage')
        /\ \A k \in Key, x \in Tid :
             Stored(storage', k, x) = Stored(storage, k, x) + (IF x = w /\ k \in keys THEN 1 ELSE 0)
    BY <1>1, <1>2, SubAddCounts
  <2>2. \A k \in Key, x \in Tid : Stored(storage, k, x) \in Nat
    BY <1>1, StoredIsNat, Zenon
  <2>3. QED
    BY <2>1, <2>2
<1>4. GetReplies' = GetReplies /\ (RepliesOneHistory => RepliesOneHistory')
  BY <1>2 DEF GetReplies, RepliesOneHistory
<1>5. ASSUME NEW i \in GetReplies PROVE Below(reply_queue[i].vals, storage')
  <2> DEFINE v == reply_queue[i].vals
  <2>1. Below(v, storage) /\ IsVals(v)
    BY <1>1, Zenon DEF ASPInv, GetReplies, IsReplies, IsReply
  <2> HIDE DEF v
  <2>2. ASSUME NEW k \in DOMAIN v, NEW x \in Tid PROVE v[k][x] <= Stored(storage', k, x)
    <3>1. k \in Key /\ v[k][x] \in Nat /\ v[k][x] <= Stored(storage, k, x)
      BY <2>1, Zenon DEF Below, IsVals, Value
    <3>2. Stored(storage, k, x) \in Nat /\ Stored(storage', k, x) \in Nat
      BY <1>1, <1>3, StoredIsNat, Zenon
    <3>3. QED
      BY <1>3, <3>1, <3>2
  <2>3. QED
    BY <2>2, Zenon DEF Below, v
<1>6. QED
  BY <1>1, <1>2, <1>3, <1>4, <1>5, Zenon DEF ASPInv

\* ASPModel::Get answers the counts of this moment: no answer given before is
\* ahead of them.
LEMMA GetKeepsInv ==
  ASSUME ASPInv, NEW w \in Tid, NEW keys \in Keys, Get(w, keys)
  PROVE  ASPInv'
<1> DEFINE q == reply_queue
           m == [sender |-> w, id |-> gets[w] + 1, keys |-> keys]
           e == GetReply(storage, m)
           n == Len(q) + 1
<1>1. IsVals(storage) /\ keys \in SUBSET Key /\ IsReplies(q) /\ gets \in [Tid -> Nat]
  BY Zenon DEF ASPInv, Keys
<1>2. /\ gets' = [gets EXCEPT ![w] = @ + 1]
      /\ storage' = AfterGet(storage, keys)
      /\ reply_queue' = Append(q, e)
  BY Zenon DEF Get
<1>3. e.flag = "kGet" /\ e.recver = w /\ e.id = gets[w] + 1 /\ e.vals = SubGet(storage, keys)
  BY Zenon DEF GetReply
<1> HIDE DEF e
<1>4. /\ IsVals(storage') /\ IsVals(e.vals)
      /\ DOMAIN e.vals = keys
      /\ \A k, x : x \in Tid => Stored(storage', k, x) = Stored(storage, k, x)
      /\ \A k \in keys, x \in Tid : e.vals[k][x] = Stored(storage, k, x)
  <2>1. /\ IsVals(AfterGet(storage, keys)) /\ IsVals(SubGet(storage, keys))
        /\ DOMAIN SubGet(storage, keys) = keys
        /\ \A k, x : x \in Tid => Stored(AfterGet(storage, keys), k, x) = Stored(storage, k, x)
        /\ \A k \in keys, x \in Tid : SubGet(storage, keys)[k][x] = Stored(storage, k, x)
    BY <1>1, SubGetCounts, Zenon
  <2>2. QED
    BY <1>2, <1>3, <2>1, Zenon
<1>5. IsReply(e)
  BY <1>1, <1>3, <1>4 DEF IsReply
<1>6. IsReplies(reply_queue')
  BY <1>1, <1>2, <1>5, PushReply, Zenon
<1>7. /\ DOMAIN q = 1 .. Len(q) /\ Len(q) \in Nat
      /\ DOMAIN reply_queue' = 1 .. n
      /\ reply_queue'[n] = e
      /\ \A i \in DOMAIN q : reply_queue'[i] = q[i]
  BY <1>1, <1>2, AppendIsSeq DEF IsReplies
<1>8. /\ GetReplies' = GetReplies \cup {n}
      /\ \A i \in GetReplies : i \in DOMAIN q /\ i < n /\ reply_queue'[i] = q[i]
  BY <1>3, <1>7 DEF GetReplies
<1>9. \A i \in GetReplies' : Below(reply_queue'[i].vals, storage')
  <2>1. ASSUME NEW i \in GetReplies PROVE Below(reply_queue'[i].vals, storage')
    <3>1. Below(q[i].vals, storage) /\ reply_queue'[i] = q[i]
      BY <1>8, Zenon DEF ASPInv
    <3>2. QED
      BY <1>4, <3>1, ZenonT(60) DEF Below
  <2>2. Below(e.vals, storage')
    <3>1. \A k \in keys, x \in Tid : Stored(storage, k, x) \in Nat
      BY <1>1, StoredIsNat, Zenon
    <3>2. QED
      BY <1>4, <3>1 DEF Below
  <2>3. QED
    BY <1>7, <1>8, <2>1, <2>2, Zenon
<1>10. RepliesOneHistory'
  <2>1. ASSUME NEW i \in GetReplies', NEW j \in GetReplies', i < j,
               NEW k \in DOMAIN reply_queue'[i].vals \cap DOMAIN reply_queue'[j].vals, NEW x \in Tid
        PROVE  reply_queue'[i].vals[k][x] <= reply_queue'[j].vals[k][x]
    <3>1. i \in GetReplies
      BY <1>7, <1>8, <2>1 DEF GetReplies
    <3>2. CASE j \in GetReplies
      BY <1>8, <2>1, <3>1, <3>2, Zenon DEF ASPInv, RepliesOneHistory
    <3>3. CASE j = n
      <4>1. reply_queue'[i].vals[k][x] <= Stored(storage, k, x)
        BY <1>8, <3>1, Zenon DEF ASPInv, Below
      <4>2. reply_queue'[j] = e
        BY <1>7, <3>3, Zenon
      <4>3. reply_queue'[j].vals[k][x] = Stored(storage, k, x)
        BY <1>4, <4>2, Zenon
      <4>4. QED
        BY <4>1, <4>3, Zenon
    <3>4. QED
      BY <1>8, <3>2, <3>3, Zenon
  <2>2. QED
    BY <2>1, Zenon DEF RepliesOneHistory
<1>11. gets' \in [Tid -> Nat]
  BY <1>1, <1>2
<1>12. \A a \in AnswersOf(reply_queue') : a.id <= gets'[a.sender]
  <2> DEFINE new == [sender |-> w, id |-> gets[w] + 1, vals |-> e.vals]
  <2>1. AnswersOf(reply_queue') = AnswersOf(q) \cup {new}
    <3>1. AnswersOf(Append(q, e))
            = AnswersOf(q) \cup {[sender |-> e.recver, id |-> e.id, vals |-> e.vals]}
      BY <1>1, <1>3, AnswersAfterPush, Zenon
    <3>2. QED
      BY <1>2, <1>3, <3>1, Zenon
  <2>2. new.sender = w /\ new.id = gets[w] + 1
    BY Zenon
  <2> HIDE DEF new
  <2>3. \A a \in AnswersOf(q) : a.sender \in Tid /\ a.id \in Nat /\ a.id <= gets[a.sender]
    BY <1>1, AnswersType, Zenon DEF ASPInv
  <2>4. \A x \in Tid : gets'[x] = gets[x] + (IF x = w THEN 1 ELSE 0) /\ gets[x] \in Nat
    BY <1>1, <1>2
  <2>5. QED
    BY <2>1, <2>2, <2>3, <2>4
<1>13. QED
  BY <1>4, <1>6, <1>9, <1>10, <1>11, <1>12, Zenon DEF ASPInv

\* The reply of ResetWorker answers no Get.
LEMMA ResetKeepsInv ==
  ASSUME ASPInv, NEW tids \in SUBSET Tid, NEW sender \in Tid, ResetWorker(tids, sender)
  PROVE  ASPInv' /\ AnswersOf(reply_queue') = AnswersOf(reply_queue)
<1> DEFINE q == reply_queue
           e == [flag |-> "kResetWorkerInModel", recver |-> sender]
           n == Len(q) + 1
<1>1. IsVals(storage) /\ IsReplies(q) /\ gets \in [Tid -> Nat]
  BY Zenon DEF ASPInv
<1>2. reply_queue' = Append(q, e) /\ storage' = storage /\ gets' = gets
  BY Zenon DEF ResetWorker
<1>3. e.flag # "kGet" /\ IsReply(e)
  BY Zenon DEF IsReply
<1> HIDE DEF e
<1>4. IsReplies(reply_queue') /\ AnswersOf(reply_queue') = AnswersOf(q)
  BY <1>1, <1>2, <1>3, PushReply, AnswersAfterPush, Zenon
<1>5. /\ DOMAIN q = 1 .. Len(q) /\ Len(q) \in Nat
      /\ DOMAIN reply_queue' = 1 .. n
      /\ reply_queue'[n] = e
      /\ \A i \in DOMAIN q : reply_queue'[i] = q[i]
  BY <1>1, <1>2, AppendIsSeq DEF IsReplies
<1>6. GetReplies' = GetReplies /\ \A i \in GetReplies : reply_queue'[i] = q[i]
  BY <1>3, <1>5 DEF GetReplies
<1>7. RepliesOneHistory'
  BY <1>6, ZenonT(60) DEF ASPInv, RepliesOneHistory
<1>8. QED
  BY <1>1, <1>2, <1>4, <1>6, <1>7, Zenon DEF ASPInv

\* ASPInv holds in every state, and every step is one of the service of a
\* table: what an Add or a Get does to the values and to the answers.
LEMMA StepImplements ==
  ASSUME ASPInv, [Next]_vars
  PROVE  ASPInv' /\ [Service!Next]_(Service!vars)
<1> DEFINE S == ValuesOf(storage)
           A == AnswersOf(reply_queue)
<1>1. /\ S = ValuesOf(storage) /\ S' = ValuesOf(storage')
      /\ A = AnswersOf(reply_queue) /\ A' = AnswersOf(reply_queue')
  BY Zenon
<1>2. IsVals(storage) /\ IsReplies(reply_queue) /\ gets \in [Tid -> Nat]
  BY Zenon DEF ASPInv
<1>3. ASSUME UNCHANGED <<storage, reply_queue, gets>>
      PROVE  ASPInv' /\ UNCHANGED Service!vars
  BY <1>3 DEF ASPInv, GetReplies, RepliesOneHistory, Service!vars
<1>4. ASSUME NEW w \in Tid, NEW keys \in Keys, Add(w, keys)
      PROVE  ASPInv' /\ Service!Next
  <2>1. ASPInv'
    BY <1>4, AddKeepsInv, Zenon
  <2>2. keys \in SUBSET Key /\ storage' = SubAdd(storage, keys, Unit(w))
    BY <1>4, Zenon DEF Add, Keys
  <2>3. S' = [k \in Key |-> IF k \in keys THEN [S[k] EXCEPT ![w] = @ + 1] ELSE S[k]]
    <3>1. ValuesOf(SubAdd(storage, keys, Unit(w)))
            = [k \in Key |-> IF k \in keys THEN [ValuesOf(storage)[k] EXCEPT ![w] = @ + 1]
                             ELSE ValuesOf(storage)[k]]
      <4>1. IsVals(storage) /\ keys \in SUBSET Key
        BY <1>2, <2>2, Zenon
      <4>2. QED
        BY <4>1, ValuesAfterAdd
    <3> HIDE DEF S
    <3>2. QED
      BY <1>1, <2>2, <3>1, Zenon
  <2>4. A' = A
    BY <1>1, <1>4, Zenon DEF Add
  <2>5. Service!Update(w, keys)
    BY <2>3, <2>4, Zenon DEF Service!Update
  <2>6. QED
    BY <2>1, <2>5, Zenon DEF Service!Next, Service!Keys, Keys
<1>5. ASSUME NEW w \in Tid, NEW keys \in Keys, Get(w, keys)
      PROVE  ASPInv' /\ Service!Next
  <2> DEFINE m == [sender |-> w, id |-> gets[w] + 1, keys |-> keys]
             e == GetReply(storage, m)
  <2>1. ASPInv'
    BY <1>5, GetKeepsInv, Zenon
  <2>2. /\ keys \in SUBSET Key /\ storage' = AfterGet(storage, keys)
        /\ reply_queue' = Append(reply_queue, e)
        /\ e.flag = "kGet" /\ e.recver = w /\ e.id = gets[w] + 1 /\ e.vals = SubGet(storage, keys)
        /\ gets[w] + 1 \in 1 .. MaxGets
    BY <1>2, <1>5, ASPAssumption DEF Get, GetReply, Keys
  <2> HIDE DEF e
  <2>3. S' = S /\ e.vals = [k \in keys |-> S[k]]
    <3>1. /\ ValuesOf(AfterGet(storage, keys)) = ValuesOf(storage)
          /\ SubGet(storage, keys) = [k \in keys |-> ValuesOf(storage)[k]]
      BY <1>2, <2>2, ValuesAfterGet, Zenon
    <3> HIDE DEF S
    <3>2. QED
      BY <1>1, <2>2, <3>1, Zenon
  <2>4. A' = A \cup {[sender |-> e.recver, id |-> e.id, vals |-> e.vals]}
    BY <1>1, <1>2, <2>2, AnswersAfterPush, Zenon
  <2>5. [sender |-> e.recver, id |-> e.id, vals |-> e.vals] = Service!AnswerTo(m)
    BY <2>2, <2>3, Zenon DEF Service!AnswerTo
  <2>6. Service!New(m)
    <3>1. \A a \in A : a.sender \in Tid /\ a.id \in Nat /\ a.id <= gets[a.sender]
      BY <1>1, <1>2, AnswersType, Zenon DEF ASPInv
    <3>2. m.sender = w /\ m.id = gets[w] + 1
      BY Zenon
    <3> HIDE DEF m, A
    <3>3. \A a \in A : ~(a.sender = m.sender /\ a.id = m.id)
      BY <1>2, <3>1, <3>2
    <3>4. QED
      BY <3>3, Zenon DEF Service!New, A
  <2>7. Service!AskAndAnswer(m)
    BY <2>3, <2>4, <2>5, <2>6, Zenon DEF Service!AskAndAnswer
  <2>8. QED
    BY <2>1, <2>2, <2>7, Zenon DEF Service!Next, Service!Keys, Keys
<1>6. ASSUME NEW tids \in SUBSET Tid, NEW sender \in Tid, ResetWorker(tids, sender)
      PROVE  ASPInv' /\ UNCHANGED Service!vars
  <2>1. ASPInv' /\ A' = A /\ S' = S
    BY <1>1, <1>6, ResetKeepsInv, Zenon DEF ResetWorker
  <2>2. QED
    BY <2>1, Zenon DEF Service!vars
<1>7. ASSUME NEW w \in Tid, Clock(w) PROVE UNCHANGED <<storage, reply_queue, gets>>
  BY <1>7, Zenon DEF Clock
<1>8. CASE UNCHANGED vars
  BY <1>3, <1>8, Zenon DEF vars
<1>9. QED
  BY <1>3, <1>4, <1>5, <1>6, <1>7, <1>8, Zenon DEF Next

\* ASPInv holds in every reachable state of ASPModel.
THEOREM Invariance == Spec => []ASPInv
<1>1. Init => ASPInv
  <2> SUFFICES ASSUME Init PROVE ASPInv
    BY Zenon
  <2>1. DOMAIN storage = {} /\ reply_queue = <<>> /\ gets \in [Tid -> Nat]
    BY Zenon DEF Init, EmptyStorage
  <2>2. IsVals(storage) /\ IsReplies(reply_queue)
    BY <2>1 DEF IsVals, IsReplies
  <2>3. GetReplies = {} /\ AnswersOf(reply_queue) = {}
    BY <2>1 DEF GetReplies, AnswersOf
  <2>4. QED
    BY <2>1, <2>2, <2>3, Zenon DEF ASPInv, RepliesOneHistory
<1>2. ASPInv /\ [Next]_vars => ASPInv'
  BY StepImplements, Zenon
<1>3. QED
  BY <1>1, <1>2, PTL DEF Spec

\* All replies of ASPModel::Get belong to one history of the table, for any
\* number of threads, keys, Gets and Adds.
THEOREM OneHistory == Spec => []RepliesOneHistory
<1>1. ASPInv => RepliesOneHistory
  BY Zenon DEF ASPInv
<1>2. QED
  BY <1>1, Invariance, PTL

\* ASPModel keeps the promise of a table for any threads, keys and bounds.
THEOREM ServiceImplemented == Spec => ImplementsService
<1>1. Init => Service!Init
  <2> SUFFICES ASSUME Init PROVE Service!Init
    BY Zenon
  <2>1. DOMAIN storage = {} /\ reply_queue = <<>>
    BY Zenon DEF Init, EmptyStorage
  <2>2. AnswersOf(reply_queue) = {}
    BY <2>1 DEF AnswersOf
  <2>3. ValuesOf(storage) = [k \in Key |-> [w \in Tid |-> 0]]
    BY <2>1, Zenon DEF ValuesOf, Zero
  <2>4. QED
    BY <2>2, <2>3, Zenon DEF Service!Init
<1>2. ASPInv /\ [Next]_vars => [Service!Next]_(Service!vars)
  BY StepImplements, Zenon
<1>3. QED
  BY <1>1, <1>2, Invariance, PTL DEF Spec, ImplementsService, Service!Spec
=============================================================================
