------------------------------ MODULE BSPModel ------------------------------
(***************************************************************************)
(* One table with Bulk Synchronous Parallel consistency on one server      *)
(* thread (server/consistency/bsp_model.{hpp,cpp}), called by              *)
(* ServerThread::Main with one message at a time.                          *)
(*                                                                         *)
(* Updates wait in add_buffer_ until every thread has clocked; a Get of a  *)
(* thread that is ahead waits in get_buffer_.  The two loops of Clock are  *)
(* steps of their own, one per turn, as in SSPModel.                       *)
(***************************************************************************)
EXTENDS ProgressTracker, MapStorage, Sequences

CONSTANTS Garbage,     \* values min_clock_ may hold before the first Init
          MaxClock,    \* bound: clocks of a thread
          MaxGets,     \* bound: Gets of a thread
          MaxAdds,     \* bound: accepted Adds of a thread to a key
          MaxResets    \* bound: ResetWorker messages

ASSUME BSPAssumption == /\ Garbage \subseteq Int
                        /\ MaxGets \in Nat

VARIABLES
  progress_tracker, storage, add_buffer, get_buffer,
  reply_queue,     \* everything pushed on reply_queue_ so far
  loop,            \* the loop Clock is in, if any, and its iterator
  gets,            \* history: Gets received from each thread
  accepted,        \* history: Adds of each thread, for each key, that were not ignored
  clocked,         \* history: accepted of a thread at each Clock since its last reset
  resets,          \* history: resets handled
  late             \* history: a reset came after some thread had clocked

vars == <<progress_tracker, storage, add_buffer, get_buffer, reply_queue, loop,
          gets, accepted, clocked, resets, late>>

history == <<gets, accepted, clocked, resets, late>>

AddMsg == [sender : Tid, keys : Keys]

NoLoop == [over |-> "none", it |-> 0]

Init ==
  /\ \E g \in Garbage : progress_tracker = Fresh(g)
  /\ storage = EmptyStorage
  /\ add_buffer = <<>>
  /\ get_buffer = <<>>
  /\ reply_queue = <<>>
  /\ loop = NoLoop
  /\ gets = [w \in Tid |-> 0]
  /\ accepted = [w \in Tid |-> [k \in Key |-> 0]]
  /\ clocked = [w \in Tid |-> <<>>]
  /\ resets = 0
  /\ late = FALSE

Idle == loop = NoLoop

(***************************************************************************)
(* Clock advances the sender; when that moves the minimum it applies all   *)
(* of add_buffer_, empties it, and then reads the keys of get_buffer_ and  *)
(* empties that.  The message storage_->Get makes for a buffered Get is    *)
(* discarded: only the zeros that SubGet leaves for new keys remain.       *)
(***************************************************************************)
Clock(w) ==
  /\ Idle
  /\ GetProgress(progress_tracker, w) < MaxClock
  /\ progress_tracker' = Advance(progress_tracker, w)
  /\ loop' = IF ChangedMinClock(progress_tracker, w) <= -1 THEN NoLoop
             ELSE [over |-> "add_buffer", it |-> 1]
  /\ clocked' = IF CheckThreadValid(progress_tracker, w)
                THEN [clocked EXCEPT ![w] = Append(@, accepted[w])] ELSE clocked
  /\ UNCHANGED <<storage, add_buffer, get_buffer, reply_queue, gets, accepted, resets, late>>

ApplyAdd ==
  /\ loop.over = "add_buffer" /\ loop.it <= Len(add_buffer)
  /\ LET m == add_buffer[loop.it]
     IN  storage' = SubAdd(storage, m.keys, Unit(m.sender))
  /\ loop' = [loop EXCEPT !.it = @ + 1]
  /\ UNCHANGED <<progress_tracker, add_buffer, get_buffer, reply_queue, history>>

AddsNotCleared ==        \* mutant: forgets add_buffer_.clear()
  /\ loop.over = "add_buffer" /\ loop.it > Len(add_buffer)
  /\ loop' = [over |-> "get_buffer", it |-> 1]
  /\ UNCHANGED <<progress_tracker, storage, add_buffer, get_buffer, reply_queue, history>>

AddsApplied ==
  /\ loop.over = "add_buffer" /\ loop.it > Len(add_buffer)
  /\ add_buffer' = <<>>
  /\ loop' = [over |-> "get_buffer", it |-> 1]
  /\ UNCHANGED <<progress_tracker, storage, get_buffer, reply_queue, history>>

ReadForGet ==
  /\ loop.over = "get_buffer" /\ loop.it <= Len(get_buffer)
  /\ storage' = AfterGet(storage, get_buffer[loop.it].keys)
  /\ loop' = [loop EXCEPT !.it = @ + 1]
  /\ UNCHANGED <<progress_tracker, add_buffer, get_buffer, reply_queue, history>>

GetsRead ==
  /\ loop.over = "get_buffer" /\ loop.it > Len(get_buffer)
  /\ get_buffer' = <<>>
  /\ loop' = NoLoop
  /\ UNCHANGED <<progress_tracker, storage, add_buffer, reply_queue, history>>

\* An Add of a thread that is ahead of the slowest is ignored.
InCurrentIterAlways(w) == TRUE      \* mutant: buffers every Add

InCurrentIter(w) == GetProgress(progress_tracker, w) = GetMinClock(progress_tracker)

Add(w, keys) ==
  /\ Idle
  /\ CheckThreadValid(progress_tracker, w)
  /\ \A k \in keys : accepted[w][k] < MaxAdds
  /\ \/ /\ InCurrentIter(w)
        /\ add_buffer' = Append(add_buffer, [sender |-> w, keys |-> keys])
        /\ accepted' = [accepted EXCEPT ![w] =
                          [k \in Key |-> @[k] + (IF k \in keys THEN 1 ELSE 0)]]
     \/ /\ ~InCurrentIter(w)
        /\ UNCHANGED <<add_buffer, accepted>>
  /\ UNCHANGED <<progress_tracker, storage, get_buffer, reply_queue, loop,
                 gets, clocked, resets, late>>

Get(w, keys) ==
  LET msg == [sender |-> w, id |-> gets[w] + 1, keys |-> keys]
  IN  /\ Idle
      /\ CheckThreadValid(progress_tracker, w)
      /\ gets[w] < MaxGets
      /\ gets' = [gets EXCEPT ![w] = @ + 1]
      /\ \/ /\ GetProgress(progress_tracker, w) > GetMinClock(progress_tracker)
            /\ get_buffer' = Append(get_buffer, msg)
            /\ UNCHANGED <<storage, reply_queue>>
         \/ /\ GetProgress(progress_tracker, w) <= GetMinClock(progress_tracker)
            /\ storage' = AfterGet(storage, keys)
            /\ reply_queue' = Append(reply_queue, GetReply(storage, msg))
            /\ UNCHANGED get_buffer
      /\ UNCHANGED <<progress_tracker, add_buffer, loop, accepted, clocked, resets, late>>

\* ResetWorker; InitTable names at least one thread, and is the first of them.
ResetWorker(tids, sender) ==
  /\ Idle
  /\ resets < MaxResets
  /\ sender \in tids
  /\ progress_tracker' = InitTids(progress_tracker, tids)
  /\ reply_queue' = Append(reply_queue, [flag |-> "kResetWorkerInModel", recver |-> sender])
  /\ clocked' = [w \in Tid |-> IF w \in tids THEN <<>> ELSE clocked[w]]
  /\ resets' = resets + 1
  /\ late' = (late \/ \E w \in Tid : GetProgress(progress_tracker, w) > 0)
  /\ UNCHANGED <<storage, add_buffer, get_buffer, loop, gets, accepted>>

Next ==
  \/ \E w \in Tid, keys \in Keys : Get(w, keys) \/ Add(w, keys)
  \/ \E w \in Tid : Clock(w)
  \/ ApplyAdd \/ AddsApplied \/ ReadForGet \/ GetsRead
  \/ \E tids \in SUBSET Tid, sender \in Tid : ResetWorker(tids, sender)

Spec == Init /\ [][Next]_vars

-----------------------------------------------------------------------------
TypeOK ==
  /\ progress_tracker \in Tracker
  /\ IsVals(storage)
  /\ add_buffer \in Seq(AddMsg)
  /\ get_buffer \in Seq(GetMsg)
  /\ reply_queue \in Seq({reply_queue[i] : i \in DOMAIN reply_queue})
  /\ \A i \in DOMAIN reply_queue : IsReply(reply_queue[i])
  /\ loop \in [over : {"none", "add_buffer", "get_buffer"}, it : Nat]
  /\ gets \in [Tid -> Nat]
  /\ accepted \in [Tid -> [Key -> Nat]]
  /\ clocked \in [Tid -> Seq([Key -> Nat])]
  /\ resets \in Nat
  /\ late \in BOOLEAN

(***************************************************************************)
(* No update that BSPModel::Add accepts is lost or applied twice by the    *)
(* loop of BSPModel::Clock: it is either still to be applied or in the     *)
(* storage, however resets, clocks and reads interleave.                   *)
(***************************************************************************)
ToApply == {i \in DOMAIN add_buffer : loop.over = "add_buffer" => i >= loop.it}

UpdatesConserved ==
  \A w \in Tid, k \in Key :
    accepted[w][k] = (IF k \in DOMAIN storage THEN storage[k][w] ELSE 0)
      + Cardinality({i \in ToApply : add_buffer[i].sender = w /\ k \in add_buffer[i].keys})

(***************************************************************************)
(* The promise of BSP, "can only read after all updated": when             *)
(* BSPModel::Get answers a thread in iteration p, the values contain every *)
(* update accepted from any thread in its first p iterations, and none of  *)
(* a later one.  The threads must all be registered before the first of    *)
(* them clocks: a late reset restarts min_clock_, and updates of a running *)
(* iteration become visible with the next step of the slowest thread.      *)
(***************************************************************************)
IterationOf(r) ==
  LET p == GetProgress(progress_tracker, r.recver)
  IN  \A w \in Registered(progress_tracker) :
        /\ Len(clocked[w]) >= p
        /\ \A k \in DOMAIN r.vals :
             r.vals[k][w] = IF p = 0 THEN 0 ELSE clocked[w][p][k]

LastReply == reply_queue[Len(reply_queue)]

SnapshotReply ==
  (reply_queue' # reply_queue /\ LastReply'.flag = "kGet" /\ ~late) => IterationOf(LastReply')

IterationSnapshot == [][SnapshotReply]_vars

(***************************************************************************)
(* A Get that BSPModel::Get takes is answered or still waiting.            *)
(***************************************************************************)
Waiting(w, n) == \E i \in DOMAIN get_buffer : get_buffer[i].sender = w /\ get_buffer[i].id = n

Answered(w, n) == \E i \in DOMAIN reply_queue : /\ reply_queue[i].flag = "kGet"
                                                /\ reply_queue[i].recver = w
                                                /\ reply_queue[i].id = n

GetsAnswered == \A w \in Tid : \A n \in 1 .. gets[w] : Waiting(w, n) \/ Answered(w, n)
=============================================================================
