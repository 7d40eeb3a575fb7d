------------------------------ MODULE ASPModel ------------------------------
(***************************************************************************)
(* One table with Asynchronous Parallel consistency on one server thread   *)
(* (server/consistency/asp_model.{hpp,cpp}): no request ever waits.  The   *)
(* tracker is kept, but nothing is decided by it.                          *)
(***************************************************************************)
EXTENDS ProgressTracker, MapStorage, Sequences

CONSTANTS Garbage,     \* values min_clock_ may hold before the first Init
          MaxClock,    \* bound: clocks of a thread
          MaxGets,     \* bound: Gets of a thread
          MaxAdds,     \* bound: Adds of a thread to a key
          MaxResets    \* bound: ResetWorker messages

ASSUME ASPAssumption == /\ Garbage \subseteq Int
                        /\ MaxGets \in Nat

VARIABLES
  progress_tracker, storage,
  reply_queue,     \* everything pushed on reply_queue_ so far
  gets,            \* history: Gets received from each thread
  adds,            \* history: Adds received from each thread, for each key
  resets           \* history: resets handled

vars == <<progress_tracker, storage, reply_queue, gets, adds, resets>>

Init ==
  /\ \E g \in Garbage : progress_tracker = Fresh(g)
  /\ storage = EmptyStorage
  /\ reply_queue = <<>>
  /\ gets = [w \in Tid |-> 0]
  /\ adds = [w \in Tid |-> [k \in Key |-> 0]]
  /\ resets = 0

Clock(w) ==
  /\ GetProgress(progress_tracker, w) < MaxClock
  /\ progress_tracker' = Advance(progress_tracker, w)
  /\ UNCHANGED <<storage, reply_queue, gets, adds, resets>>

Add(w, keys) ==
  /\ CheckThreadValid(progress_tracker, w)
  /\ \A k \in keys : adds[w][k] < MaxAdds
  /\ storage' = SubAdd(storage, keys, Unit(w))
  /\ adds' = [adds EXCEPT ![w] = [k \in Key |-> @[k] + (IF k \in keys THEN 1 ELSE 0)]]
  /\ UNCHANGED <<progress_tracker, reply_queue, gets, resets>>

Get(w, keys) ==
  /\ CheckThreadValid(progress_tracker, w)
  /\ gets[w] < MaxGets
  /\ gets' = [gets EXCEPT ![w] = @ + 1]
  /\ storage' = AfterGet(storage, keys)
  /\ reply_queue' = Append(reply_queue,
       GetReply(storage, [sender |-> w, id |-> gets[w] + 1, keys |-> keys]))
  /\ UNCHANGED <<progress_tracker, adds, resets>>

\* ResetWorker; InitTable names at least one thread, and is the first of them.
ResetWorker(tids, sender) ==
  /\ resets < MaxResets
  /\ sender \in tids
  /\ progress_tracker' = InitTids(progress_tracker, tids)
  /\ reply_queue' = Append(reply_queue, [flag |-> "kResetWorkerInModel", recver |-> sender])
  /\ resets' = resets + 1
  /\ UNCHANGED <<storage, gets, adds>>

Next ==
  \/ \E w \in Tid, keys \in Keys : Get(w, keys) \/ Add(w, keys)
  \/ \E w \in Tid : Clock(w)
  \/ \E tids \in SUBSET Tid, sender \in Tid : ResetWorker(tids, sender)

Spec == Init /\ [][Next]_vars

-----------------------------------------------------------------------------
TypeOK ==
  /\ progress_tracker \in Tracker
  /\ IsVals(storage)
  /\ reply_queue \in Seq({reply_queue[i] : i \in DOMAIN reply_queue})
  /\ \A i \in DOMAIN reply_queue : IsReply(reply_queue[i])
  /\ gets \in [Tid -> Nat]
  /\ adds \in [Tid -> [Key -> Nat]]
  /\ resets \in Nat

(***************************************************************************)
(* The replies of ASPModel::Get are snapshots of one history of the table: *)
(* of two replies, the later contains every update the earlier contains,   *)
(* key by key, whoever asked for them.                                     *)
(***************************************************************************)
GetReplies == {i \in DOMAIN reply_queue : reply_queue[i].flag = "kGet"}

RepliesOneHistory ==
  \A i, j \in GetReplies : i < j =>
    LET u == reply_queue[i].vals
        v == reply_queue[j].vals
    IN  \A k \in DOMAIN u \cap DOMAIN v : \A w \in Tid : u[k][w] <= v[k][w]

(***************************************************************************)
(* ASPModel implements the service of a table: Add and Get of storage_     *)
(* change and read the values once, all keys of a request together.        *)
(***************************************************************************)
Service == INSTANCE TableService WITH
  GetId   <- 1 .. MaxGets,
  values  <- ValuesOf(storage),
  waiting <- {},
  answers <- AnswersOf(reply_queue)

ImplementsService == Service!Spec
=============================================================================
