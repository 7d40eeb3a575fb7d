--------------------------- MODULE ProgressTracker ---------------------------
(***************************************************************************)
(* The clock of one model on one server thread                             *)
(* (server/util/progress_tracker.{hpp,cpp}): the progress of every         *)
(* registered worker thread and the progress of the slowest one.           *)
(*                                                                         *)
(* A tracker is a record.  The std::map progresses_ is a function on Tid;  *)
(* a tid that is not in the map has the value -1, which is also what       *)
(* GetProgress answers for it.  Progresses in the map are never negative.  *)
(***************************************************************************)
EXTENDS Message

Absent == -1

Tracker == [progresses : [Tid -> Nat \cup {Absent}], min_clock : Int]

CheckThreadValid(t, tid) == t.progresses[tid] # Absent

GetProgress(t, tid) == t.progresses[tid]

GetMinClock(t) == t.min_clock

Registered(t) == {tid \in Tid : CheckThreadValid(t, tid)}

AtMinClock(t) == {tid \in Registered(t) : t.progresses[tid] = t.min_clock}

IsUniqueMin(t, tid) ==
  /\ CheckThreadValid(t, tid)
  /\ GetProgress(t, tid) <= t.min_clock
  /\ Cardinality(AtMinClock(t)) = 1

(***************************************************************************)
(* A tracker that no Init has touched: the map is empty and min_clock_,    *)
(* which has no initialiser, holds whatever value was in memory.           *)
(***************************************************************************)
Fresh(garbage) ==
  [progresses |-> [tid \in Tid |-> Absent], min_clock |-> garbage]

(***************************************************************************)
(* Init enters the given threads with progress 0 and restarts min_clock_.  *)
(* It keeps the entries of all other threads: progresses_.clear() is       *)
(* commented out in the code.                                              *)
(***************************************************************************)
InitTids(t, tids) ==
  [progresses |-> [tid \in Tid |-> IF tid \in tids THEN 0 ELSE t.progresses[tid]],
   min_clock  |-> 0]

(***************************************************************************)
(* AdvanceAndGetChangedMinClock: the tracker it leaves, and its answer.    *)
(***************************************************************************)
AdvanceAnyMin(t, tid) ==        \* mutant: forgets that the minimum must be unique
  IF ~CheckThreadValid(t, tid) THEN t
  ELSE [progresses |-> [t.progresses EXCEPT ![tid] = @ + 1],
        min_clock  |-> IF GetProgress(t, tid) <= t.min_clock
                       THEN t.min_clock + 1 ELSE t.min_clock]

Advance(t, tid) ==
  IF ~CheckThreadValid(t, tid) THEN t
  ELSE [progresses |-> [t.progresses EXCEPT ![tid] = @ + 1],
        min_clock  |-> IF IsUniqueMin(t, tid) THEN t.min_clock + 1 ELSE t.min_clock]

ChangedMinClock(t, tid) ==
  IF IsUniqueMin(t, tid) THEN t.min_clock + 1 ELSE -1

(***************************************************************************)
(* What the header promises of GetMinClock, "the progress of the slowest   *)
(* worker": once threads are registered, min_clock_ is a lower bound of    *)
(* their progresses and one of them has it.                                *)
(***************************************************************************)
SlowestProgress(t) ==
  Registered(t) # {} => /\ \A tid \in Registered(t) : t.min_clock <= t.progresses[tid]
                        /\ \E tid \in Registered(t) : t.min_clock = t.progresses[tid]
=============================================================================
