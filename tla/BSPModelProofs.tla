--------------------------- MODULE BSPModelProofs ---------------------------
(***************************************************************************)
(* Proofs about BSPModel for every set of threads and keys and all bounds: *)
(* no accepted update is lost or applied twice, and a Get reads the        *)
(* updates of the iterations before and no others.                         *)
(***************************************************************************)
EXTENDS BSPModel, ServerProofs

-----------------------------------------------------------------------------
(* The inductive invariant.                                                *)

\* Clock's iterators are past the first message when their loops run.
LoopOK ==
  /\ loop.over = "none" => loop = NoLoop
  /\ loop.over # "none" => loop.it >= 1

\* A thread has clocked as often as its progress says, and one that no reset
\* has named has had no update accepted.
ClockedAgrees ==
  /\ \A w \in Registered(progress_tracker) :
       Len(clocked[w]) = GetProgress(progress_tracker, w)
  /\ \A w \in Tid \ Registered(progress_tracker) : \A k \in Key : accepted[w][k] = 0

\* Updates to key k in the first n iterations of a thread, by its history.
UpTo(clocks, k, n) == IF n = 0 THEN 0 ELSE clocks[n][k]

\* What the storage has of a thread, once the loop over add_buffer_ is done.
Visible(w, k) == IF loop.over = "add_buffer" THEN accepted[w][k] ELSE Stored(storage, k, w)

\* A thread ahead of the slowest has had nothing accepted since it clocked the
\* current iteration; the updates that are visible, or are being made so, are
\* those of the iterations all threads have finished.
IterationsApart ==
  \A w \in Registered(progress_tracker) :
    /\ \A n \in GetMinClock(progress_tracker) + 1 .. GetProgress(progress_tracker, w) :
         clocked[w][n] = accepted[w]
    /\ \A k \in Key : Visible(w, k) = UpTo(clocked[w], k, GetMinClock(progress_tracker))

BSPInv ==
  /\ TypeOK
  /\ SlowestProgress(progress_tracker)
  /\ LoopOK
  /\ UpdatesConserved
  /\ ClockedAgrees
  /\ ~late => IterationsApart

-----------------------------------------------------------------------------
(* Counting the updates that wait in add_buffer_.                          *)

\* Positions of add_buffer_ that still hold an update of thread w to key k.
Unapplied(w, k) == {i \in ToApply : add_buffer[i].sender = w /\ k \in add_buffer[i].keys}

\* UpdatesConserved, in terms of the two counts.
Conserved(w, k) == accepted[w][k] = Stored(storage, k, w) + Cardinality(Unapplied(w, k))

\* The property in these terms.
LEMMA ConservedDef == UpdatesConserved <=> \A w \in Tid, k \in Key : Conserved(w, k)
BY Zenon DEF UpdatesConserved, Conserved, Stored, Unapplied

\* The updates that wait are finitely many.
LEMMA UnappliedFinite ==
  ASSUME TypeOK, NEW w, NEW k
  PROVE  IsFiniteSet(Unapplied(w, k)) /\ Cardinality(Unapplied(w, k)) \in Nat
<1>1. DOMAIN add_buffer = 1 .. Len(add_buffer) /\ Len(add_buffer) \in Nat
  BY DEF TypeOK
<1>2. IsFiniteSet(1 .. Len(add_buffer))
  BY <1>1, FS_Interval
<1>3. Unapplied(w, k) \subseteq 1 .. Len(add_buffer)
  BY <1>1, Zenon DEF Unapplied, ToApply
<1>4. QED
  BY <1>2, <1>3, FS_Subset, FS_CardinalityType, Zenon

-----------------------------------------------------------------------------
(* One lemma for each action.                                              *)

\* BSPModel's constructor establishes the invariant, whatever the
\* uninitialised min_clock_ holds.
LEMMA InitEstablishesInv == Init => BSPInv
<1> SUFFICES ASSUME Init PROVE BSPInv
  BY Zenon
<1>1. PICK g \in Int : progress_tracker = Fresh(g)
  BY BSPAssumption, Zenon DEF Init
<1>2. progress_tracker \in Tracker /\ Registered(progress_tracker) = {}
  BY <1>1, Zenon DEF Fresh, Tracker, Registered, CheckThreadValid
<1>3. TypeOK
  <2>1. IsVals(storage) /\ loop \in [over : {"none", "add_buffer", "get_buffer"}, it : Nat]
    BY Zenon DEF Init, IsVals, EmptyStorage, NoLoop
  <2>2. /\ reply_queue \in Seq({reply_queue[i] : i \in DOMAIN reply_queue})
        /\ \A i \in DOMAIN reply_queue : IsReply(reply_queue[i])
        /\ add_buffer \in Seq(AddMsg) /\ get_buffer \in Seq(GetMsg)
    BY DEF Init
  <2>3. /\ gets \in [Tid -> Nat] /\ accepted \in [Tid -> [Key -> Nat]]
        /\ clocked \in [Tid -> Seq([Key -> Nat])] /\ resets \in Nat
    BY DEF Init
  <2>4. late \in BOOLEAN
    BY Zenon DEF Init
  <2>5. QED
    BY <1>2, <2>1, <2>2, <2>3, <2>4, Zenon DEF TypeOK
<1>4. SlowestProgress(progress_tracker)
  BY <1>2, Zenon DEF SlowestProgress
<1>5. LoopOK
  BY Zenon DEF Init, LoopOK, NoLoop
<1>6. \A w \in Tid, k \in Key : Conserved(w, k)
  <2> SUFFICES ASSUME NEW w \in Tid, NEW k \in Key PROVE Conserved(w, k)
    BY Zenon
  <2>1. accepted[w][k] = 0 /\ Stored(storage, k, w) = 0
    BY Zenon DEF Init, Stored, EmptyStorage
  <2>2. Unapplied(w, k) = {}
    BY DEF Init, Unapplied, ToApply
  <2>3. QED
    BY <2>1, <2>2, FS_EmptySet DEF Conserved
<1>7. ClockedAgrees /\ IterationsApart
  BY <1>2, Zenon DEF Init, ClockedAgrees, IterationsApart
<1>8. QED
  BY <1>3, <1>4, <1>5, <1>6, <1>7, ConservedDef, Zenon DEF BSPInv

\* BSPModel::Clock up to its loops keeps the invariant.  When the slowest
\* thread clocks, all others have clocked the iteration before, and what was
\* accepted from them since is what their last Clock recorded: everything
\* in add_buffer_ is of the iteration that ends.
LEMMA ClockKeepsInv ==
  ASSUME BSPInv, NEW w \in Tid, Clock(w)
  PROVE  BSPInv'
<1> DEFINE t == progress_tracker
           min == t.min_clock
<1>1. /\ t \in Tracker /\ SlowestProgress(t)
      /\ t' = Advance(t, w)
      /\ loop = NoLoop
      /\ loop' = IF ChangedMinClock(t, w) <= -1 THEN NoLoop ELSE [over |-> "add_buffer", it |-> 1]
      /\ UNCHANGED <<storage, add_buffer, get_buffer, reply_queue, gets, accepted, resets, late>>
  BY Zenon DEF BSPInv, TypeOK, Clock, Idle
<1>2. t' \in Tracker /\ SlowestProgress(t') /\ Registered(t') = Registered(t)
  BY <1>1, AdvanceKeepsSlowest, Zenon
<1>3. /\ accepted \in [Tid -> [Key -> Nat]]
      /\ clocked \in [Tid -> Seq([Key -> Nat])]
  BY Zenon DEF BSPInv, TypeOK
<1>4. LoopOK' /\ loop' \in [over : {"none", "add_buffer", "get_buffer"}, it : Nat]
  BY <1>1 DEF LoopOK, NoLoop
<1>5. UpdatesConserved'
  <2>1. loop.over # "add_buffer" /\ loop'.over = "add_buffer" => loop'.it = 1
    BY <1>1, Zenon DEF NoLoop
  <2>2. \A i \in DOMAIN add_buffer : i >= 1
    BY DEF BSPInv, TypeOK
  <2>3. ToApply' = ToApply
    BY <1>1, <2>1, <2>2, Zenon DEF ToApply, NoLoop
  <2>4. QED
    BY <1>1, <2>3 DEF BSPInv, UpdatesConserved
<1>6. CASE ~CheckThreadValid(t, w)
  <2>1. t' = t /\ clocked' = clocked /\ loop' = NoLoop
    BY <1>1, <1>6 DEF Advance, Clock, ChangedMinClock, IsUniqueMin
  <2>2. TypeOK'
    BY <1>1, <1>4, <2>1, Zenon DEF BSPInv, TypeOK
  <2>3. ClockedAgrees' /\ (~late' => IterationsApart')
    BY <1>1, <2>1 DEF BSPInv, ClockedAgrees, IterationsApart, Visible, UpTo
  <2>4. QED
    BY <1>2, <1>4, <1>5, <2>2, <2>3, Zenon DEF BSPInv
<1>7. CASE CheckThreadValid(t, w)
  <2>1. w \in Registered(t)
    BY <1>7, Zenon DEF Registered
  <2>2. clocked' = [clocked EXCEPT ![w] = Append(clocked[w], accepted[w])]
    BY <1>7, Zenon DEF Clock
  <2>3. /\ clocked' \in [Tid -> Seq([Key -> Nat])]
        /\ Len(clocked'[w]) = Len(clocked[w]) + 1
        /\ clocked'[w][Len(clocked[w]) + 1] = accepted[w]
        /\ \A i \in 1 .. Len(clocked[w]) : clocked'[w][i] = clocked[w][i]
        /\ \A x \in Tid : x # w => clocked'[x] = clocked[x]
    <3> DEFINE s == Append(clocked[w], accepted[w])
    <3>1. clocked[w] \in Seq([Key -> Nat]) /\ accepted[w] \in [Key -> Nat]
      BY <1>3, Zenon
    <3>2. /\ s \in Seq([Key -> Nat]) /\ Len(s) = Len(clocked[w]) + 1
          /\ s[Len(clocked[w]) + 1] = accepted[w]
          /\ \A i \in 1 .. Len(clocked[w]) : s[i] = clocked[w][i]
      BY <3>1
    <3> HIDE DEF s
    <3>3. clocked'[w] = s /\ clocked' = [clocked EXCEPT ![w] = s]
      BY <1>3, <2>2, Zenon DEF s
    <3>4. QED
      BY <1>3, <3>2, <3>3, Zenon
  <2>4. \A x \in Tid : t'.progresses[x] = IF x = w THEN t.progresses[x] + 1 ELSE t.progresses[x]
    BY <1>1, <1>7, Zenon DEF Advance, Tracker
  <2>5. \A x \in Registered(t) : Len(clocked[x]) = t.progresses[x] /\ x \in Tid
    BY Zenon DEF BSPInv, ClockedAgrees, GetProgress, Registered
  <2>6. \A x \in Registered(t) : Len(clocked'[x]) = t'.progresses[x]
    BY <2>1, <2>3, <2>4, <2>5, Zenon
  <2>7. ClockedAgrees'
    BY <1>1, <1>2, <2>6, Zenon DEF BSPInv, ClockedAgrees, GetProgress
  <2>8. TypeOK'
    BY <1>1, <1>2, <1>4, <2>3 DEF BSPInv, TypeOK
  <2>9. ASSUME ~late, NEW x \in Registered(t)
        PROVE  /\ \A n \in t'.min_clock + 1 .. t'.progresses[x] : clocked'[x][n] = accepted[x]
               /\ \A k \in Key : Visible(x, k)' = UpTo(clocked'[x], k, t'.min_clock)
    <3>1. /\ \A n \in min + 1 .. t.progresses[x] : clocked[x][n] = accepted[x]
          /\ \A k \in Key : Stored(storage, k, x) = UpTo(clocked[x], k, min)
      BY <1>1, <2>9, Zenon DEF BSPInv, IterationsApart, Visible, NoLoop, GetMinClock, GetProgress
    <3>2. /\ min \in Nat /\ t.progresses[x] \in Nat /\ min <= t.progresses[x]
          /\ t.progresses[w] \in Nat /\ min <= t.progresses[w]
      BY <1>1, <2>1, MinClockBound, RegisteredProgress, Zenon
    <3>3. x \in Tid /\ Len(clocked[x]) = t.progresses[x] /\ Len(clocked[w]) = t.progresses[w]
      BY <2>1, <2>5, Zenon
    <3>4. \A n \in 1 .. t.progresses[x] : clocked'[x][n] = clocked[x][n]
      BY <2>3, <3>3, Zenon
    <3>5. \A n \in min + 1 .. t'.progresses[x] : clocked'[x][n] = accepted[x]
      <4>1. CASE x # w
        BY <2>4, <3>1, <3>2, <3>3, <3>4, <4>1
      <4>2. CASE x = w
        <5>1. ASSUME NEW n \in min + 1 .. t'.progresses[x] PROVE clocked'[x][n] = accepted[x]
          <6>1. n = t.progresses[x] + 1 \/ n \in min + 1 .. t.progresses[x]
            BY <2>4, <3>2, <3>3, <4>2
          <6>2. QED
            BY <2>3, <3>1, <3>2, <3>3, <3>4, <4>2, <6>1
        <5>2. QED
          BY <5>1, Zenon
      <4>3. QED
        BY <4>1, <4>2, Zenon
    <3>6. CASE ChangedMinClock(t, w) = -1 /\ t'.min_clock = min
      <4>1. loop' = NoLoop
        BY <1>1, <3>6
      <4>2. \A k \in Key : UpTo(clocked'[x], k, min) = UpTo(clocked[x], k, min)
        BY <3>2, <3>4, <3>6 DEF UpTo
      <4>3. \A k \in Key : Visible(x, k)' = Stored(storage, k, x)
        BY <1>1, <4>1 DEF Visible, NoLoop
      <4>4. QED
        BY <3>1, <3>5, <3>6, <4>2, <4>3, Zenon
    <3>7. CASE ChangedMinClock(t, w) = min + 1 /\ t'.min_clock = min + 1
      <4>1. loop'.over = "add_buffer"
        BY <1>1, <3>2, <3>7
      <4>2. t'.min_clock <= t'.progresses[x]
        BY <1>2, MinClockBound, Zenon
      <4>3. clocked'[x][min + 1] = accepted[x]
        BY <3>2, <3>5, <3>7, <4>2, <2>4
      <4>4. \A k \in Key : Visible(x, k)' = accepted[x][k]
        BY <1>1, <4>1, Zenon DEF Visible
      <4>5. \A k \in Key : UpTo(clocked'[x], k, t'.min_clock) = accepted[x][k]
        BY <3>2, <3>7, <4>3 DEF UpTo
      <4>6. \A n \in t'.min_clock + 1 .. t'.progresses[x] : n \in min + 1 .. t'.progresses[x]
        BY <3>2, <3>7
      <4>7. QED
        BY <3>5, <4>4, <4>5, <4>6, Zenon
    <3>8. QED
      BY <1>1, <3>6, <3>7, ChangedMinClockIsNewMin, Zenon
  <2>10. ~late' => IterationsApart'
    BY <1>1, <1>2, <2>9, Zenon DEF IterationsApart, GetMinClock, GetProgress
  <2>11. QED
    BY <1>2, <1>4, <1>5, <2>7, <2>8, <2>10, Zenon DEF BSPInv
<1>8. QED
  BY <1>6, <1>7, Zenon

\* A turn of the loop over add_buffer_ moves one update of each of its keys
\* from the buffer to the storage.
LEMMA ApplyAddKeepsInv ==
  ASSUME BSPInv, ApplyAdd
  PROVE  BSPInv'
<1> DEFINE m == add_buffer[loop.it]
<1>1. /\ loop.over = "add_buffer" /\ loop.it <= Len(add_buffer)
      /\ storage' = SubAdd(storage, m.keys, Unit(m.sender))
      /\ loop' = [loop EXCEPT !.it = @ + 1]
      /\ UNCHANGED <<progress_tracker, add_buffer, get_buffer, reply_queue,
                     gets, accepted, clocked, resets, late>>
  BY Zenon DEF ApplyAdd, history
<1>2. /\ add_buffer \in Seq(AddMsg) /\ IsVals(storage)
      /\ loop \in [over : {"none", "add_buffer", "get_buffer"}, it : Nat]
      /\ loop.it >= 1
  BY <1>1, Zenon DEF BSPInv, TypeOK, LoopOK
<1>3. /\ loop' \in [over : {"none", "add_buffer", "get_buffer"}, it : Nat]
      /\ loop'.over = "add_buffer" /\ loop'.it = loop.it + 1
  BY <1>1, <1>2
<1>4. loop.it \in DOMAIN add_buffer /\ m \in AddMsg
  BY <1>1, <1>2
<1>5. m.sender \in Tid /\ m.keys \in SUBSET Key
  BY <1>4, Zenon DEF AddMsg, Keys
<1> HIDE DEF m
<1>6. /\ IsVals(storage')
      /\ \A k \in Key, x \in Tid :
           Stored(storage', k, x)
             = Stored(storage, k, x) + (IF x = m.sender /\ k \in m.keys THEN 1 ELSE 0)
  <2> DEFINE w == m.sender
             ks == m.keys
             u == SubAdd(storage, ks, Unit(w))
  <2>0. w \in Tid /\ ks \in SUBSET Key /\ IsVals(storage)
    BY <1>2, <1>5, Zenon
  <2> HIDE DEF w, ks
  <2>1. /\ IsVals(u)
        /\ \A k \in Key, x \in Tid :
             Stored(u, k, x) = Stored(storage, k, x) + (IF x = w /\ k \in ks THEN 1 ELSE 0)
    BY <2>0, SubAddCounts
  <2>2. QED
    BY <1>1, <2>1, Zenon DEF w, ks
<1>7. TypeOK'
  BY <1>1, <1>3, <1>6 DEF BSPInv, TypeOK
<1>8. LoopOK'
  BY <1>2, <1>3 DEF LoopOK
<1>9. ASSUME NEW x \in Tid, NEW k \in Key PROVE Conserved(x, k)'
  <2>1. ToApply' = ToApply \ {loop.it}
    <3>1. \A i \in DOMAIN add_buffer : i >= loop.it + 1 <=> (i >= loop.it /\ i # loop.it)
      BY <1>2
    <3>2. QED
      BY <1>1, <1>3, <3>1, Zenon DEF ToApply
  <2>2. loop.it \in ToApply
    BY <1>2, <1>4 DEF ToApply
  <2>3. Unapplied(x, k)' = Unapplied(x, k) \ {loop.it}
    BY <1>1, <2>1, Zenon DEF Unapplied
  <2>4. loop.it \in Unapplied(x, k) <=> x = m.sender /\ k \in m.keys
    BY <2>2, Zenon DEF Unapplied, m
  <2>5. IsFiniteSet(Unapplied(x, k)) /\ Cardinality(Unapplied(x, k)) \in Nat
    BY UnappliedFinite, Zenon DEF BSPInv
  <2>6. Cardinality(Unapplied(x, k)') =
          IF loop.it \in Unapplied(x, k) THEN Cardinality(Unapplied(x, k)) - 1
          ELSE Cardinality(Unapplied(x, k))
    BY <2>3, <2>5, FS_RemoveElement, Zenon
  <2>7. accepted[x][k] = Stored(storage, k, x) + Cardinality(Unapplied(x, k))
    BY ConservedDef, Zenon DEF BSPInv, Conserved
  <2>8. Stored(storage, k, x) \in Nat
    BY <1>2, StoredIsNat, Zenon
  <2>9. QED
    BY <1>1, <1>6, <2>4, <2>5, <2>6, <2>7, <2>8 DEF Conserved
<1>10. UpdatesConserved'
  BY <1>9, Zenon DEF UpdatesConserved, Conserved, Unapplied, Stored
<1>11. ClockedAgrees' /\ SlowestProgress(progress_tracker)'
  BY <1>1, Zenon DEF BSPInv, ClockedAgrees
<1>12. ~late' => IterationsApart'
  BY <1>1, <1>3, Zenon DEF BSPInv, IterationsApart, Visible
<1>13. QED
  BY <1>7, <1>8, <1>10, <1>11, <1>12, Zenon DEF BSPInv

\* When the loop is through, nothing is left to apply, and add_buffer_ can
\* be cleared: the storage has all that was accepted.
LEMMA AddsAppliedKeepsInv ==
  ASSUME BSPInv, AddsApplied
  PROVE  BSPInv'
<1>1. /\ loop.over = "add_buffer" /\ loop.it > Len(add_buffer)
      /\ add_buffer' = <<>>
      /\ loop' = [over |-> "get_buffer", it |-> 1]
      /\ UNCHANGED <<progress_tracker, storage, get_buffer, reply_queue,
                     gets, accepted, clocked, resets, late>>
  BY Zenon DEF AddsApplied, history
<1>2. /\ add_buffer \in Seq(AddMsg) /\ IsVals(storage)
      /\ loop \in [over : {"none", "add_buffer", "get_buffer"}, it : Nat]
  BY Zenon DEF BSPInv, TypeOK
<1>3. TypeOK' /\ LoopOK'
  BY <1>1 DEF BSPInv, TypeOK, LoopOK
<1>4. ToApply = {} /\ ToApply' = {}
  BY <1>1, <1>2 DEF ToApply
<1>5. \A x \in Tid, k \in Key : accepted[x][k] = Stored(storage, k, x)
  <2> SUFFICES ASSUME NEW x \in Tid, NEW k \in Key
               PROVE  accepted[x][k] = Stored(storage, k, x)
    BY Zenon
  <2>1. Unapplied(x, k) = {}
    BY <1>4, Zenon DEF Unapplied
  <2>2. accepted[x][k] = Stored(storage, k, x) + Cardinality(Unapplied(x, k))
    BY ConservedDef, Zenon DEF BSPInv, Conserved
  <2>3. QED
    BY <1>2, <2>1, <2>2, FS_EmptySet, StoredIsNat
<1>6. ASSUME NEW x \in Tid, NEW k \in Key PROVE Conserved(x, k)'
  <2>1. Unapplied(x, k)' = {}
    BY <1>4, Zenon DEF Unapplied
  <2>2. Stored(storage, k, x) \in Nat
    BY <1>2, StoredIsNat, Zenon
  <2>3. QED
    BY <1>1, <1>5, <2>1, <2>2, FS_EmptySet DEF Conserved
<1>7. UpdatesConserved'
  BY <1>6, Zenon DEF UpdatesConserved, Conserved, Unapplied, Stored
<1>8. ClockedAgrees' /\ SlowestProgress(progress_tracker)'
  BY <1>1, Zenon DEF BSPInv, ClockedAgrees
<1>9. ~late' => IterationsApart'
  <2>1. \A x \in Tid, k \in Key : Visible(x, k)' = Visible(x, k)
    BY <1>1, <1>5, Zenon DEF Visible
  <2>2. QED
    BY <1>1, <2>1, Zenon DEF BSPInv, IterationsApart, Registered
<1>10. QED
  BY <1>3, <1>7, <1>8, <1>9, Zenon DEF BSPInv

\* A step that changes no count, no buffered update and nothing of the
\* tracker or the history the invariant speaks of keeps those parts of it.
LEMMA CountsKept ==
  ASSUME BSPInv, IsVals(storage'), \A k \in Key, x \in Tid : Stored(storage', k, x) = Stored(storage, k, x),
         UNCHANGED <<progress_tracker, add_buffer, accepted, clocked, late>>,
         loop.over # "add_buffer", loop'.over # "add_buffer"
  PROVE  /\ SlowestProgress(progress_tracker)' /\ UpdatesConserved' /\ ClockedAgrees'
         /\ ~late' => IterationsApart'
<1>1. ToApply' = ToApply
  BY Zenon DEF ToApply
<1>2. \A x \in Tid, k \in Key : Conserved(x, k)'
  <2> SUFFICES ASSUME NEW x \in Tid, NEW k \in Key PROVE Conserved(x, k)'
    BY Zenon
  <2>1. Conserved(x, k)
    BY ConservedDef, Zenon DEF BSPInv
  <2>2. Unapplied(x, k)' = Unapplied(x, k)
    BY <1>1, Zenon DEF Unapplied
  <2>3. QED
    BY <2>1, <2>2, Zenon DEF Conserved
<1>3. UpdatesConserved'
  BY <1>2, Zenon DEF UpdatesConserved, Conserved, Unapplied, Stored
<1>4. \A x \in Tid, k \in Key : Visible(x, k)' = Visible(x, k)
  BY Zenon DEF Visible
<1>5. ~late' => IterationsApart'
  BY <1>4, Zenon DEF BSPInv, IterationsApart, Registered
<1>6. ClockedAgrees' /\ SlowestProgress(progress_tracker)'
  BY Zenon DEF BSPInv, ClockedAgrees
<1>7. QED
  BY <1>3, <1>5, <1>6, Zenon

\* A turn of the loop over get_buffer_ leaves zeros for new keys only.
LEMMA ReadForGetKeepsInv ==
  ASSUME BSPInv, ReadForGet
  PROVE  BSPInv'
<1> DEFINE ks == get_buffer[loop.it].keys
<1>1. /\ loop.over = "get_buffer" /\ loop.it <= Len(get_buffer)
      /\ storage' = AfterGet(storage, ks)
      /\ loop' = [loop EXCEPT !.it = @ + 1]
      /\ UNCHANGED <<progress_tracker, add_buffer, get_buffer, reply_queue,
                     gets, accepted, clocked, resets, late>>
  BY Zenon DEF ReadForGet, history
<1>2. /\ get_buffer \in Seq(GetMsg) /\ IsVals(storage)
      /\ loop \in [over : {"none", "add_buffer", "get_buffer"}, it : Nat]
      /\ loop.it >= 1
  BY <1>1, Zenon DEF BSPInv, TypeOK, LoopOK
<1>3. /\ loop' \in [over : {"none", "add_buffer", "get_buffer"}, it : Nat]
      /\ loop'.over = "get_buffer" /\ loop'.it = loop.it + 1
  BY <1>1, <1>2
<1>4. get_buffer[loop.it] \in GetMsg
  BY <1>1, <1>2
<1>5. ks \in SUBSET Key
  BY <1>4, Zenon DEF GetMsg, Keys
<1> HIDE DEF ks
<1>6. /\ IsVals(storage')
      /\ \A k \in Key, x \in Tid : Stored(storage', k, x) = Stored(storage, k, x)
  <2>1. /\ IsVals(AfterGet(storage, ks))
        /\ \A k, x : x \in Tid => Stored(AfterGet(storage, ks), k, x) = Stored(storage, k, x)
    BY <1>2, <1>5, SubGetCounts, Zenon
  <2>2. QED
    BY <1>1, <2>1, Zenon
<1>7. TypeOK'
  BY <1>1, <1>3, <1>6, ZenonT(60) DEF BSPInv, TypeOK
<1>8. LoopOK'
  BY <1>2, <1>3 DEF LoopOK
<1>9. /\ SlowestProgress(progress_tracker)' /\ UpdatesConserved' /\ ClockedAgrees'
      /\ ~late' => IterationsApart'
  BY <1>1, <1>3, <1>6, CountsKept, Zenon
<1>10. QED
  BY <1>7, <1>8, <1>9, Zenon DEF BSPInv

\* Clearing get_buffer_ ends Clock.
LEMMA GetsReadKeepsInv ==
  ASSUME BSPInv, GetsRead
  PROVE  BSPInv'
<1>1. /\ loop.over = "get_buffer"
      /\ get_buffer' = <<>>
      /\ loop' = NoLoop
      /\ UNCHANGED <<progress_tracker, storage, add_buffer, reply_queue,
                     gets, accepted, clocked, resets, late>>
  BY Zenon DEF GetsRead, history
<1>2. TypeOK' /\ LoopOK' /\ loop'.over # "add_buffer"
  BY <1>1 DEF BSPInv, TypeOK, LoopOK, NoLoop
<1>3. IsVals(storage') /\ \A k \in Key, x \in Tid : Stored(storage', k, x) = Stored(storage, k, x)
  BY <1>1, Zenon DEF BSPInv, TypeOK
<1>4. /\ SlowestProgress(progress_tracker)' /\ UpdatesConserved' /\ ClockedAgrees'
      /\ ~late' => IterationsApart'
  BY <1>1, <1>2, <1>3, CountsKept, Zenon
<1>5. QED
  BY <1>2, <1>4, Zenon DEF BSPInv

\* BSPModel::Get keeps the invariant, buffered or answered.
LEMMA GetKeepsInv ==
  ASSUME BSPInv, NEW w \in Tid, NEW keys \in Keys, Get(w, keys)
  PROVE  BSPInv'
<1> DEFINE m == [sender |-> w, id |-> gets[w] + 1, keys |-> keys]
<1>1. /\ loop = NoLoop
      /\ gets' = [gets EXCEPT ![w] = @ + 1]
      /\ \/ /\ get_buffer' = Append(get_buffer, m)
            /\ UNCHANGED <<storage, reply_queue>>
         \/ /\ storage' = AfterGet(storage, keys)
            /\ reply_queue' = Append(reply_queue, GetReply(storage, m))
            /\ UNCHANGED get_buffer
      /\ UNCHANGED <<progress_tracker, add_buffer, loop, accepted, clocked, resets, late>>
  BY Zenon DEF Get, Idle
<1>2. /\ gets \in [Tid -> Nat] /\ get_buffer \in Seq(GetMsg) /\ IsVals(storage)
      /\ reply_queue \in Seq({reply_queue[i] : i \in DOMAIN reply_queue})
      /\ \A i \in DOMAIN reply_queue : IsReply(reply_queue[i])
  BY Zenon DEF BSPInv, TypeOK
<1>3. m \in GetMsg /\ m.sender = w /\ m.id \in Nat /\ m.keys = keys /\ keys \in SUBSET Key
  BY <1>2 DEF GetMsg, Keys
<1>4. gets' \in [Tid -> Nat]
  BY <1>1, <1>2
<1> HIDE DEF m
<1>5. /\ IsVals(SubGet(storage, keys)) /\ IsVals(AfterGet(storage, keys))
      /\ \A k, x : x \in Tid => Stored(AfterGet(storage, keys), k, x) = Stored(storage, k, x)
  BY <1>2, <1>3, SubGetCounts, Zenon
<1>6. IsReply(GetReply(storage, m))
  BY <1>3, <1>5, Zenon DEF IsReply, GetReply
<1>7. get_buffer' \in Seq(GetMsg)
  <2>1. Append(get_buffer, m) \in Seq(GetMsg)
    BY <1>2, <1>3
  <2>2. QED
    BY <1>1, <1>2, <2>1, Zenon DEF m
<1>8. /\ reply_queue' \in Seq({reply_queue'[i] : i \in DOMAIN reply_queue'})
      /\ \A i \in DOMAIN reply_queue' : IsReply(reply_queue'[i])
  <2>1. IsReplies(reply_queue)
    BY <1>2, Zenon DEF IsReplies
  <2>2. IsReplies(Append(reply_queue, GetReply(storage, m)))
    BY <1>6, <2>1, PushReply, Zenon
  <2>3. IsReplies(reply_queue')
    BY <1>1, <2>1, <2>2, Zenon DEF m
  <2>4. QED
    BY <2>3, Zenon DEF IsReplies
<1>9. /\ IsVals(storage')
      /\ \A k \in Key, x \in Tid : Stored(storage', k, x) = Stored(storage, k, x)
  BY <1>1, <1>2, <1>5, Zenon
<1>10. TypeOK'
  BY <1>1, <1>4, <1>7, <1>8, <1>9, Zenon DEF BSPInv, TypeOK
<1>11. LoopOK' /\ loop.over # "add_buffer" /\ loop'.over # "add_buffer"
  BY <1>1, Zenon DEF BSPInv, LoopOK, NoLoop
<1>12. /\ SlowestProgress(progress_tracker)' /\ UpdatesConserved' /\ ClockedAgrees'
       /\ ~late' => IterationsApart'
  BY <1>1, <1>9, <1>11, CountsKept, Zenon
<1>13. QED
  BY <1>10, <1>11, <1>12, Zenon DEF BSPInv

\* BSPModel::Add keeps the invariant: an accepted update waits in add_buffer_,
\* and is accepted only from a thread in the current iteration.
LEMMA AddKeepsInv ==
  ASSUME BSPInv, NEW w \in Tid, NEW keys \in Keys, Add(w, keys)
  PROVE  BSPInv'
<1> DEFINE t == progress_tracker
           m == [sender |-> w, keys |-> keys]
<1>1. /\ loop = NoLoop /\ CheckThreadValid(t, w)
      /\ UNCHANGED <<progress_tracker, storage, get_buffer, reply_queue, loop,
                     gets, clocked, resets, late>>
  BY Zenon DEF Add, Idle
<1>2. /\ add_buffer \in Seq(AddMsg) /\ IsVals(storage)
      /\ accepted \in [Tid -> [Key -> Nat]]
      /\ loop.over = "none" /\ loop'.over = "none"
  BY <1>1, Zenon DEF BSPInv, TypeOK, NoLoop
<1>3. CASE ~InCurrentIter(w)
  <2>1. UNCHANGED <<add_buffer, accepted>>
    BY <1>3, Zenon DEF Add
  <2>2. UNCHANGED vars
    BY <1>1, <2>1, Zenon DEF vars
  <2>3. QED
    BY <2>2 DEF vars, BSPInv, TypeOK, LoopOK, UpdatesConserved, ToApply, ClockedAgrees,
                IterationsApart, Visible
<1>4. CASE InCurrentIter(w)
  <2>1. /\ add_buffer' = Append(add_buffer, m)
        /\ accepted' = [accepted EXCEPT ![w] =
                          [k \in Key |-> @[k] + (IF k \in keys THEN 1 ELSE 0)]]
    BY <1>4, Zenon DEF Add
  <2>2. m \in AddMsg /\ m.sender = w /\ m.keys = keys
    BY Zenon DEF AddMsg
  <2>3. /\ accepted' \in [Tid -> [Key -> Nat]]
        /\ \A x \in Tid, k \in Key :
             accepted'[x][k] = accepted[x][k] + (IF x = w /\ k \in keys THEN 1 ELSE 0)
    BY <1>2, <2>1
  <2>4. \A x \in Tid : x # w => accepted'[x] = accepted[x]
    BY <1>2, <2>1, Zenon
  <2> HIDE DEF m
  <2>5. /\ add_buffer' \in Seq(AddMsg)
        /\ DOMAIN add_buffer = 1 .. Len(add_buffer) /\ Len(add_buffer) \in Nat
        /\ DOMAIN add_buffer' = 1 .. Len(add_buffer) + 1
        /\ add_buffer'[Len(add_buffer) + 1] = m
        /\ \A i \in 1 .. Len(add_buffer) : add_buffer'[i] = add_buffer[i]
    BY <1>2, <2>1, <2>2
  <2>6. TypeOK'
    BY <1>1, <2>3, <2>5 DEF BSPInv, TypeOK
  <2>7. ASSUME NEW x \in Tid, NEW k \in Key PROVE Conserved(x, k)'
    <3> DEFINE new == Len(add_buffer) + 1
    <3>1. ToApply = 1 .. Len(add_buffer) /\ ToApply' = 1 .. Len(add_buffer) + 1
      BY <1>2, <2>5, Zenon DEF ToApply
    <3>2. new \notin ToApply /\ ToApply' = ToApply \cup {new}
      BY <2>5, <3>1
    <3>3. \A i \in ToApply : add_buffer'[i] = add_buffer[i]
      BY <2>5, <3>1, Zenon
    <3>4. add_buffer'[new] = m
      BY <2>5, Zenon
    <3> HIDE DEF new
    <3>5. Unapplied(x, k)' = IF x = w /\ k \in keys THEN Unapplied(x, k) \cup {new} ELSE Unapplied(x, k)
      BY <2>2, <3>2, <3>3, <3>4, Zenon DEF Unapplied
    <3>6. new \notin Unapplied(x, k)
      BY <3>2, Zenon DEF Unapplied
    <3>7. IsFiniteSet(Unapplied(x, k)) /\ Cardinality(Unapplied(x, k)) \in Nat
      BY UnappliedFinite, Zenon DEF BSPInv
    <3>8. Cardinality(Unapplied(x, k) \cup {new}) = Cardinality(Unapplied(x, k)) + 1
      BY <3>6, <3>7, FS_AddElement, Zenon
    <3>9. accepted[x][k] = Stored(storage, k, x) + Cardinality(Unapplied(x, k))
      BY ConservedDef, Zenon DEF BSPInv, Conserved
    <3>10. Stored(storage, k, x) \in Nat
      BY <1>2, StoredIsNat, Zenon
    <3>11. QED
      BY <1>1, <2>3, <3>5, <3>7, <3>8, <3>9, <3>10 DEF Conserved
  <2>8. UpdatesConserved'
    BY <2>7, Zenon DEF UpdatesConserved, Conserved, Unapplied, Stored
  <2>9. w \in Registered(t) /\ t.progresses[w] = t.min_clock /\ t.progresses[w] \in Nat
    <3>1. w \in Registered(t)
      BY <1>1, Zenon DEF Registered
    <3>2. QED
      BY <1>4, <3>1, RegisteredProgress, Zenon DEF InCurrentIter, GetProgress, GetMinClock, BSPInv, TypeOK
  <2>10. ClockedAgrees'
    BY <1>1, <2>4, <2>9 DEF BSPInv, ClockedAgrees
  <2>11. ASSUME ~late, NEW x \in Registered(t)
         PROVE  /\ \A n \in GetMinClock(t) + 1 .. GetProgress(t, x) : clocked[x][n] = accepted'[x]
                /\ \A k \in Key : Visible(x, k)' = UpTo(clocked[x], k, GetMinClock(t))
    <3>1. /\ \A n \in GetMinClock(t) + 1 .. GetProgress(t, x) : clocked[x][n] = accepted[x]
          /\ \A k \in Key : Visible(x, k) = UpTo(clocked[x], k, GetMinClock(t))
      BY <2>11, Zenon DEF BSPInv, IterationsApart
    <3>2. \A k \in Key : Visible(x, k)' = Visible(x, k)
      BY <1>1, <1>2, Zenon DEF Visible
    <3>3. CASE x = w
      <4>1. GetMinClock(t) + 1 .. GetProgress(t, x) = {}
        BY <2>9, <3>3 DEF GetMinClock, GetProgress
      <4>2. QED
        BY <3>1, <3>2, <4>1, Zenon
    <3>4. CASE x # w
      BY <2>4, <3>1, <3>2, <3>4, Zenon DEF Registered
    <3>5. QED
      BY <3>3, <3>4, Zenon
  <2>12. ~late' => IterationsApart'
    BY <1>1, <2>11, Zenon DEF IterationsApart
  <2>13. QED
    BY <1>1, <2>6, <2>8, <2>10, <2>12, Zenon DEF BSPInv, LoopOK
<1>5. QED
  BY <1>3, <1>4, Zenon

\* BSPModel::ResetWorker keeps the invariant.  Before any thread has clocked
\* the storage is still empty of updates, so that a thread which starts at 0
\* finds what it should.
LEMMA ResetWorkerKeepsInv ==
  ASSUME BSPInv, NEW tids \in SUBSET Tid, NEW sender \in Tid, ResetWorker(tids, sender)
  PROVE  BSPInv'
<1> DEFINE t == progress_tracker
           r == [flag |-> "kResetWorkerInModel", recver |-> sender]
<1>1. /\ t \in Tracker /\ tids # {} /\ loop = NoLoop
      /\ t' = InitTids(t, tids)
      /\ reply_queue' = Append(reply_queue, r)
      /\ clocked' = [w \in Tid |-> IF w \in tids THEN <<>> ELSE clocked[w]]
      /\ resets' = resets + 1
      /\ late' = (late \/ \E w \in Tid : GetProgress(t, w) > 0)
      /\ UNCHANGED <<storage, add_buffer, get_buffer, loop, gets, accepted>>
  BY Zenon DEF BSPInv, TypeOK, ResetWorker, Idle
<1>2. /\ t' \in Tracker /\ SlowestProgress(t')
      /\ Registered(t') = Registered(t) \cup tids
      /\ t'.min_clock = 0
  BY <1>1, InitTidsKeepsSlowest, Zenon
<1>3. \A x \in Tid : t'.progresses[x] = IF x \in tids THEN 0 ELSE t.progresses[x]
  BY <1>1, Zenon DEF InitTids
<1>4. IsReply(r)
  BY Zenon DEF IsReply
<1>5. /\ reply_queue' \in Seq({reply_queue'[i] : i \in DOMAIN reply_queue'})
      /\ \A i \in DOMAIN reply_queue' : IsReply(reply_queue'[i])
  <2> HIDE DEF r
  <2>1. /\ reply_queue \in Seq({reply_queue[i] : i \in DOMAIN reply_queue})
        /\ \A i \in DOMAIN reply_queue : IsReply(reply_queue[i])
    BY Zenon DEF BSPInv, TypeOK
  <2>2. IsReplies(reply_queue)
    BY <2>1, Zenon DEF IsReplies
  <2>3. IsReplies(Append(reply_queue, r))
    BY <1>4, <2>2, PushReply, Zenon
  <2>4. QED
    BY <1>1, <2>3, Zenon DEF IsReplies
<1>6. clocked' \in [Tid -> Seq([Key -> Nat])]
  BY <1>1 DEF BSPInv, TypeOK
<1>7. TypeOK'
  <2>1. resets' \in Nat /\ late' \in BOOLEAN
    BY <1>1 DEF BSPInv, TypeOK
  <2>2. QED
    BY <1>1, <1>2, <1>5, <1>6, <2>1, Zenon DEF BSPInv, TypeOK
<1>8. LoopOK' /\ UpdatesConserved' /\ loop'.over = "none"
  BY <1>1 DEF BSPInv, LoopOK, UpdatesConserved, ToApply, NoLoop
<1>9. ClockedAgrees'
  <2>1. ASSUME NEW x \in Registered(t') PROVE Len(clocked'[x]) = GetProgress(t', x)
    <3>1. x \in Tid
      BY Zenon DEF Registered
    <3>2. CASE x \in tids
      BY <1>1, <1>3, <3>1, <3>2, Zenon DEF GetProgress
    <3>3. CASE x \notin tids
      <4>1. x \in Registered(t) /\ clocked'[x] = clocked[x] /\ GetProgress(t', x) = GetProgress(t, x)
        BY <1>1, <1>2, <1>3, <3>1, <3>3, Zenon DEF GetProgress
      <4>2. QED
        BY <4>1, Zenon DEF BSPInv, ClockedAgrees
    <3>4. QED
      BY <3>2, <3>3, Zenon
  <2>2. QED
    BY <1>1, <1>2, <2>1, Zenon DEF BSPInv, ClockedAgrees
<1>10. ASSUME ~late', NEW x \in Registered(t'), NEW k \in Key
       PROVE  Stored(storage, k, x) = 0
  <2>1. ~late /\ x \in Tid /\ \A y \in Tid : ~(t.progresses[y] > 0)
    BY <1>1, <1>10, Zenon DEF Registered, GetProgress
  <2>2. CASE x \in Registered(t)
    <3>1. \E y \in Registered(t) : t.min_clock = t.progresses[y]
      BY <2>2, Zenon DEF BSPInv, SlowestProgress
    <3>2. t.min_clock = 0
      BY <1>1, <2>1, <3>1, RegisteredProgress DEF Registered
    <3>3. Visible(x, k) = UpTo(clocked[x], k, 0)
      BY <2>1, <2>2, <3>2, Zenon DEF BSPInv, IterationsApart, GetMinClock
    <3>4. QED
      BY <1>1, <3>3, Zenon DEF Visible, UpTo, NoLoop
  <2>3. CASE x \notin Registered(t)
    <3>1. accepted[x][k] = 0
      BY <2>1, <2>3, Zenon DEF BSPInv, ClockedAgrees
    <3>2. accepted[x][k] = Stored(storage, k, x) + Cardinality(Unapplied(x, k))
      BY <2>1, ConservedDef, Zenon DEF BSPInv, Conserved
    <3>3. Stored(storage, k, x) \in Nat /\ Cardinality(Unapplied(x, k)) \in Nat
      BY <2>1, StoredIsNat, UnappliedFinite, Zenon DEF BSPInv, TypeOK
    <3>4. QED
      BY <3>1, <3>2, <3>3
  <2>4. QED
    BY <2>2, <2>3, Zenon
<1>11. ~late' => IterationsApart'
  <2> SUFFICES ASSUME ~late', NEW x \in Registered(t')
               PROVE  /\ \A n \in t'.min_clock + 1 .. t'.progresses[x] : clocked'[x][n] = accepted[x]
                      /\ \A k \in Key : Visible(x, k)' = UpTo(clocked'[x], k, t'.min_clock)
    BY <1>1 DEF IterationsApart, GetMinClock, GetProgress
  <2>1. t'.progresses[x] = 0
    <3>1. x \in Tid /\ t'.progresses[x] \in Nat
      BY <1>2, RegisteredProgress, Zenon DEF Registered
    <3>2. ~(t.progresses[x] > 0)
      BY <1>1, <3>1, Zenon DEF GetProgress
    <3>3. QED
      BY <1>3, <3>1, <3>2
  <2>2. t'.min_clock + 1 .. t'.progresses[x] = {}
    BY <1>2, <2>1
  <2>3. \A k \in Key : Visible(x, k)' = 0
    BY <1>1, <1>8, <1>10, Zenon DEF Visible
  <2>4. \A k \in Key : UpTo(clocked'[x], k, t'.min_clock) = 0
    BY <1>2, Zenon DEF UpTo
  <2>5. QED
    BY <2>2, <2>3, <2>4, Zenon
<1>12. QED
  BY <1>2, <1>7, <1>8, <1>9, <1>11, Zenon DEF BSPInv

-----------------------------------------------------------------------------
\* Every state of BSPModel satisfies the inductive invariant.
THEOREM Invariance == Spec => []BSPInv
<1>1. Init => BSPInv
  BY InitEstablishesInv, Zenon
<1>2. BSPInv /\ [Next]_vars => BSPInv'
  <2> SUFFICES ASSUME BSPInv, [Next]_vars PROVE BSPInv'
    BY Zenon
  <2>1. ASSUME NEW w \in Tid, NEW keys \in Keys, Get(w, keys) PROVE BSPInv'
    BY <2>1, GetKeepsInv, Zenon
  <2>2. ASSUME NEW w \in Tid, NEW keys \in Keys, Add(w, keys) PROVE BSPInv'
    BY <2>2, AddKeepsInv, Zenon
  <2>3. ASSUME NEW w \in Tid, Clock(w) PROVE BSPInv'
    BY <2>3, ClockKeepsInv, Zenon
  <2>4. CASE ApplyAdd \/ AddsApplied
    BY <2>4, ApplyAddKeepsInv, AddsAppliedKeepsInv, Zenon
  <2>5. CASE ReadForGet \/ GetsRead
    BY <2>5, ReadForGetKeepsInv, GetsReadKeepsInv, Zenon
  <2>6. ASSUME NEW tids \in SUBSET Tid, NEW sender \in Tid, ResetWorker(tids, sender)
        PROVE  BSPInv'
    BY <2>6, ResetWorkerKeepsInv, Zenon
  <2>7. CASE UNCHANGED vars
    BY <2>7 DEF vars, BSPInv, TypeOK, LoopOK, UpdatesConserved, ToApply, ClockedAgrees,
                IterationsApart, Visible
  <2>8. QED
    BY <2>1, <2>2, <2>3, <2>4, <2>5, <2>6, <2>7, Zenon DEF Next
<1>3. QED
  BY <1>1, <1>2, PTL DEF Spec

\* No update that BSPModel::Add accepts is lost, and none is applied twice by
\* the loop of BSPModel::Clock, for any number of threads, keys and resets.
THEOREM NoUpdateLost == Spec => []UpdatesConserved
<1>1. BSPInv => UpdatesConserved
  BY Zenon DEF BSPInv
<1>2. QED
  BY <1>1, Invariance, PTL

\* The promise of BSP for any number of threads and keys: when all threads
\* were registered before the first clocked, an answer of BSPModel::Get has
\* exactly the updates of the iterations before.
THEOREM SnapshotCorrect == Spec => IterationSnapshot
<1>1. BSPInv /\ [Next]_vars => [SnapshotReply]_vars
  <2> SUFFICES ASSUME BSPInv, Next, reply_queue' # reply_queue, LastReply'.flag = "kGet", ~late
               PROVE  IterationOf(LastReply')
    BY Zenon DEF vars, SnapshotReply
  <2> DEFINE t == progress_tracker
  <2>1. reply_queue \in Seq({reply_queue[i] : i \in DOMAIN reply_queue})
    BY Zenon DEF BSPInv, TypeOK
  <2>2. ASSUME NEW w \in Tid, NEW keys \in Keys, Get(w, keys) PROVE IterationOf(LastReply')
    <3> DEFINE m == [sender |-> w, id |-> gets[w] + 1, keys |-> keys]
               e == GetReply(storage, m)
    <3>1. /\ loop = NoLoop /\ CheckThreadValid(t, w)
          /\ GetProgress(t, w) <= GetMinClock(t)
          /\ reply_queue' = Append(reply_queue, e)
      BY <2>2, Zenon DEF Get, Idle
    <3>2. e.recver = w /\ e.vals = SubGet(storage, keys)
      BY Zenon DEF GetReply
    <3> HIDE DEF m, e
    <3>3. LastReply' = e
      BY <2>1, <3>1, AppendLast, Zenon DEF LastReply
    <3>4. w \in Registered(t) /\ t \in Tracker /\ IsVals(storage) /\ keys \in SUBSET Key
      BY <3>1, Zenon DEF Registered, BSPInv, TypeOK, Keys
    <3>5. t.min_clock \in Nat /\ t.progresses[w] = t.min_clock
      BY <3>1, <3>4, MinClockBound, RegisteredProgress DEF BSPInv, GetProgress, GetMinClock
    <3>6. ASSUME NEW x \in Registered(t)
          PROVE  /\ Len(clocked[x]) >= t.min_clock
                 /\ \A k \in keys : SubGet(storage, keys)[k][x] = UpTo(clocked[x], k, t.min_clock)
      <4>1. x \in Tid /\ t.min_clock <= t.progresses[x] /\ t.progresses[x] \in Nat
        BY <3>4, MinClockBound, RegisteredProgress, Zenon DEF BSPInv, Registered
      <4>2. Len(clocked[x]) = t.progresses[x]
        BY Zenon DEF BSPInv, ClockedAgrees, GetProgress
      <4>3. \A k \in Key : Stored(storage, k, x) = UpTo(clocked[x], k, t.min_clock)
        BY <3>1, Zenon DEF BSPInv, IterationsApart, Visible, NoLoop, GetMinClock
      <4>4. \A k \in keys : SubGet(storage, keys)[k][x] = Stored(storage, k, x)
        BY <3>4, <4>1, SubGetCounts, Zenon
      <4>5. QED
        BY <3>4, <3>5, <4>1, <4>2, <4>3, <4>4, Zenon
    <3>7. DOMAIN SubGet(storage, keys) = keys
      BY Zenon DEF SubGet
    <3>8. QED
      BY <3>2, <3>3, <3>5, <3>6, <3>7 DEF IterationOf, GetProgress, UpTo
  <2>3. ASSUME NEW tids \in SUBSET Tid, NEW sender \in Tid, ResetWorker(tids, sender)
        PROVE  FALSE
    <3> DEFINE e == [flag |-> "kResetWorkerInModel", recver |-> sender]
    <3>1. reply_queue' = Append(reply_queue, e)
      BY <2>3, Zenon DEF ResetWorker
    <3>2. LastReply' = e
      BY <2>1, <3>1, AppendLast, Zenon DEF LastReply
    <3>3. QED
      BY <3>2, Zenon
  <2>4. ASSUME NEW w \in Tid, NEW keys \in Keys, Add(w, keys) PROVE FALSE
    BY <2>4, Zenon DEF Add
  <2>5. ASSUME NEW w \in Tid, Clock(w) PROVE FALSE
    BY <2>5, Zenon DEF Clock
  <2>6. ~ApplyAdd /\ ~AddsApplied /\ ~ReadForGet /\ ~GetsRead
    BY Zenon DEF ApplyAdd, AddsApplied, ReadForGet, GetsRead
  <2>7. QED
    BY <2>2, <2>3, <2>4, <2>5, <2>6, Zenon DEF Next
<1>2. QED
  BY <1>1, Invariance, PTL DEF Spec, IterationSnapshot
=============================================================================
