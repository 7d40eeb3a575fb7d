------------------------------ MODULE SSPModel ------------------------------
(***************************************************************************)
(* One table with Stale Synchronous Parallel consistency on one server     *)
(* thread (server/consistency/ssp_model.{hpp,cpp}), called by              *)
(* ServerThread::Main with one message at a time.                          *)
(*                                                                         *)
(* Messages come from any worker thread in any order.  The only order the  *)
(* model relies on is that a thread's requests follow the reset that       *)
(* registers it: Engine::Run pushes both on the same sender queue, in that *)
(* order.  A thread may clock while a Get of its own is pending, which     *)
(* KVClientTable never does but the interface of the class allows.         *)
(***************************************************************************)
EXTENDS ProgressTracker, PendingBuffer, MapStorage

CONSTANTS Staleness,   \* staleness_
          Garbage,     \* values min_clock_ may hold before the first Init
          MaxClock,    \* bound: clocks of a thread
          MaxGets,     \* bound: Gets of a thread
          MaxAdds,     \* bound: Adds of a thread to a key
          MaxResets    \* bound: ResetWorker messages

ASSUME SSPAssumption == /\ Staleness \in Nat
                        /\ Garbage \subseteq Int
                        /\ MaxGets \in Nat

VARIABLES
  progress_tracker, buffer, storage,
  reply_queue,     \* everything pushed on reply_queue_ so far
  pending_msgs,    \* rest of the local vector Clock is iterating over
  gets,            \* history: Gets received from each thread
  adds,            \* history: Adds received from each thread, for each key
  clocked,         \* history: adds of a thread at each Clock since its last reset
  resets           \* history: resets handled

vars == <<progress_tracker, buffer, storage, reply_queue, pending_msgs,
          gets, adds, clocked, resets>>

history == <<gets, adds, clocked, resets>>

Init ==
  /\ \E g \in Garbage : progress_tracker = Fresh(g)
  /\ buffer = EmptyBuffer
  /\ storage = EmptyStorage
  /\ reply_queue = <<>>
  /\ pending_msgs = <<>>
  /\ gets = [w \in Tid |-> 0]
  /\ adds = [w \in Tid |-> [k \in Key |-> 0]]
  /\ clocked = [w \in Tid |-> <<>>]
  /\ resets = 0

\* ServerThread::Main takes the next message when the last handler is done.
Idle == pending_msgs = <<>>

(***************************************************************************)
(* worker_progress - min_clock > staleness_ is a comparison of unsigned    *)
(* values, staleness_ being uint32_t: a negative difference wraps around   *)
(* to a value above every staleness.                                       *)
(***************************************************************************)
TooFarOffByOne(w) ==     \* mutant: >= for >
  LET ahead == GetProgress(progress_tracker, w) - GetMinClock(progress_tracker)
  IN  ahead < 0 \/ ahead >= Staleness

TooFarLenient(w) ==      \* mutant: lets a thread one clock further ahead
  LET ahead == GetProgress(progress_tracker, w) - GetMinClock(progress_tracker)
  IN  ahead < 0 \/ ahead > Staleness + 1

TooFarAhead(w) ==
  LET ahead == GetProgress(progress_tracker, w) - GetMinClock(progress_tracker)
  IN  ahead < 0 \/ ahead > Staleness

BarrierClock(w) == GetProgress(progress_tracker, w) - Staleness

\* SSPModel::Get, called by Main and by the loop of Clock.
HandleGet(m) ==
  \/ /\ TooFarAhead(m.sender)
     /\ buffer' = Push(buffer, BarrierClock(m.sender), m)
     /\ UNCHANGED <<storage, reply_queue>>
  \/ /\ ~TooFarAhead(m.sender)
     /\ storage' = AfterGet(storage, m.keys)
     /\ reply_queue' = Append(reply_queue, GetReply(storage, m))
     /\ UNCHANGED buffer

Get(w, keys) ==
  /\ Idle
  /\ CheckThreadValid(progress_tracker, w)
  /\ gets[w] < MaxGets
  /\ gets' = [gets EXCEPT ![w] = @ + 1]
  /\ HandleGet([sender |-> w, id |-> gets[w] + 1, keys |-> keys])
  /\ UNCHANGED <<progress_tracker, pending_msgs, adds, clocked, resets>>

Add(w, keys) ==
  /\ Idle
  /\ CheckThreadValid(progress_tracker, w)
  /\ \A k \in keys : adds[w][k] < MaxAdds
  /\ storage' = SubAdd(storage, keys, Unit(w))
  /\ adds' = [adds EXCEPT ![w] = [k \in Key |-> @[k] + (IF k \in keys THEN 1 ELSE 0)]]
  /\ UNCHANGED <<progress_tracker, buffer, reply_queue, pending_msgs, gets, clocked, resets>>

(***************************************************************************)
(* Clock advances the sender and takes the requests that wait for the new  *)
(* minimum out of the buffer; Serve is one turn of its loop over them.     *)
(* The server thread handles no other message before the loop is over;     *)
(* only the sender thread, draining reply_queue_, runs in between.  The    *)
(* loop calls Add on a kAdd message, but only Get ever pushes on buffer_.  *)
(***************************************************************************)
Clock(w) ==
  LET min_clock == ChangedMinClock(progress_tracker, w)
  IN  /\ Idle
      /\ GetProgress(progress_tracker, w) < MaxClock
      /\ progress_tracker' = Advance(progress_tracker, w)
      /\ \/ /\ min_clock <= -1
            /\ UNCHANGED <<buffer, pending_msgs>>
         \/ /\ min_clock > -1
            /\ pending_msgs' = Popped(buffer, min_clock)
            /\ buffer' = Pop(buffer, min_clock)
      /\ clocked' = IF CheckThreadValid(progress_tracker, w)
                    THEN [clocked EXCEPT ![w] = Append(@, adds[w])] ELSE clocked
      /\ UNCHANGED <<storage, reply_queue, gets, adds, resets>>

Serve ==
  /\ ~Idle
  /\ pending_msgs' = Tail(pending_msgs)
  /\ HandleGet(Head(pending_msgs))
  /\ UNCHANGED <<progress_tracker, history>>

\* ResetWorker; InitTable names at least one thread, and is the first of them.
ResetWorker(tids, sender) ==
  /\ Idle
  /\ resets < MaxResets
  /\ sender \in tids
  /\ progress_tracker' = InitTids(progress_tracker, tids)
  /\ reply_queue' = Append(reply_queue, [flag |-> "kResetWorkerInModel", recver |-> sender])
  /\ clocked' = [w \in Tid |-> IF w \in tids THEN <<>> ELSE clocked[w]]
  /\ resets' = resets + 1
  /\ UNCHANGED <<buffer, storage, pending_msgs, gets, adds>>

Next ==
  \/ \E w \in Tid, keys \in Keys : Get(w, keys) \/ Add(w, keys)
  \/ \E w \in Tid : Clock(w)
  \/ Serve
  \/ \E tids \in SUBSET Tid, sender \in Tid : ResetWorker(tids, sender)

Spec == Init /\ [][Next]_vars

-----------------------------------------------------------------------------
IsBuffer(b) == DOMAIN b \subseteq Int /\ \A c \in DOMAIN b : b[c] \in Seq(GetMsg)

TypeOK ==
  /\ progress_tracker \in Tracker
  /\ IsBuffer(buffer)
  /\ IsVals(storage)
  /\ reply_queue \in Seq({reply_queue[i] : i \in DOMAIN reply_queue})
  /\ \A i \in DOMAIN reply_queue : IsReply(reply_queue[i])
  /\ pending_msgs \in Seq(GetMsg)
  /\ gets \in [Tid -> Nat]
  /\ adds \in [Tid -> [Key -> Nat]]
  /\ clocked \in [Tid -> Seq([Key -> Nat])]
  /\ resets \in Nat

(***************************************************************************)
(* min_clock_ is the progress of the slowest registered thread at every    *)
(* moment, however resets, clocks of registered and of unknown threads     *)
(* interleave (ProgressTracker::GetMinClock).                              *)
(***************************************************************************)
MinClockIsSlowest == SlowestProgress(progress_tracker)

(***************************************************************************)
(* No request is stranded: every clock a bucket of buffer_ waits for is    *)
(* still ahead of min_clock_, which Clock raises one by one, so the Pop of *)
(* SSPModel::Clock will come by every bucket.                              *)
(***************************************************************************)
PendingAhead ==
  \A c \in DOMAIN buffer : c > GetMinClock(progress_tracker) /\ buffer[c] # <<>>

(***************************************************************************)
(* Inductive strengthening.  Whoever waits is registered, so that its      *)
(* progress is a clock and not -1.  The history agrees with the code's     *)
(* state: a thread has clocked as often as its progress says, and the      *)
(* storage holds the updates received and no others.                       *)
(***************************************************************************)
WaitersRegistered ==
  /\ \A c \in DOMAIN buffer : \A i \in DOMAIN buffer[c] :
       CheckThreadValid(progress_tracker, buffer[c][i].sender)
  /\ \A i \in DOMAIN pending_msgs :
       CheckThreadValid(progress_tracker, pending_msgs[i].sender)

HistoryAgrees ==
  /\ \A w \in Registered(progress_tracker) :
       Len(clocked[w]) = GetProgress(progress_tracker, w)
  /\ \A w \in Tid, k \in Key :
       /\ adds[w][k] = IF k \in DOMAIN storage THEN storage[k][w] ELSE 0
       /\ \A i \in DOMAIN clocked[w] : clocked[w][i][k] <= adds[w][k]

\* The inductive invariant behind MinClockIsSlowest, PendingAhead and
\* BoundedStaleness: what every handler of SSPModel relies on and keeps.
SSPInv ==
  /\ TypeOK
  /\ MinClockIsSlowest
  /\ PendingAhead
  /\ WaitersRegistered
  /\ HistoryAgrees

(***************************************************************************)
(* SSPModel implements the service of a table.  In particular Get, buffer_ *)
(* and the loop of Clock together lose no Get and answer none twice, even  *)
(* when the loop puts a request back because its thread has clocked again. *)
(***************************************************************************)
Buffered(b) == UNION {{b[c][i] : i \in DOMAIN b[c]} : c \in DOMAIN b}

InLoop == {pending_msgs[i] : i \in DOMAIN pending_msgs}

Service == INSTANCE TableService WITH
  GetId   <- 1 .. MaxGets,
  values  <- ValuesOf(storage),
  waiting <- Buffered(buffer) \cup InLoop,
  answers <- AnswersOf(reply_queue)

ImplementsService == Service!Spec

(***************************************************************************)
(* The promise of SSP: when SSPModel::Get answers a thread at clock p, the *)
(* values contain every Add that each registered thread made in its first  *)
(* p - staleness clocks; in particular every thread has got that far.      *)
(***************************************************************************)
FreshEnough(r) ==
  LET c == GetProgress(progress_tracker, r.recver) - Staleness
  IN  c >= 1 => \A w \in Registered(progress_tracker) :
                  /\ Len(clocked[w]) >= c
                  /\ \A k \in DOMAIN r.vals : r.vals[k][w] >= clocked[w][c][k]

LastReply == reply_queue[Len(reply_queue)]

FreshReply ==
  (reply_queue' # reply_queue /\ LastReply'.flag = "kGet") => FreshEnough(LastReply')

BoundedStaleness == [][FreshReply]_vars
=============================================================================
