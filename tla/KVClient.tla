------------------------------- MODULE KVClient -------------------------------
(***************************************************************************)
(* The table as worker threads of a node see it: Get, which blocks, Add    *)
(* and Clock, which do not (worker/kv_client_table.hpp), and what          *)
(* completes a Get: the AppBlocker all worker threads of the node share    *)
(* (worker/app_blocker.hpp) and the helper thread that each worker thread  *)
(* has to itself (worker/worker_helper_thread.cpp).                        *)
(*                                                                         *)
(* A section of code under AppBlocker::mu_ is one step; so is what a       *)
(* thread does between two of them.  Of a value the model keeps which of   *)
(* the thread's own updates it contains.  The numbers of Gets, Adds and    *)
(* Clocks are not in the code, which cannot tell the replies of two Gets   *)
(* apart.                                                                  *)
(*                                                                         *)
(* The queue of the sender, the sockets and the queue of a server thread   *)
(* are a channel from each worker thread to each server thread: they keep  *)
(* the order of a thread's messages to a server.  The table is ASP or SSP: *)
(* updates are applied as they are received, a Get may wait.               *)
(***************************************************************************)
EXTENDS Partition

CONSTANTS Thread,      \* worker threads of the node
          First,       \* worker_ids[0] of Engine::InitTable
          Key,
          Asked,       \* vectors of keys that each thread asks for
          Updates,     \* vectors of keys that they update
          MaxGets,     \* bound: Gets of each thread
          MaxPushes,   \* bound: Adds and Clocks of each thread
          MaxOther     \* bound: replies that answer no Get

ASSUME KVClientAssumption ==
  /\ First \in Thread
  /\ MaxGets \in [Thread -> Nat] /\ MaxPushes \in [Thread -> Nat] /\ MaxOther \in Nat
  /\ Key \subseteq Nat /\ \A k \in Key : Held(k)
  /\ \A t \in Thread : Asked[t] \subseteq Seq(Key)
  /\ Updates \subseteq Seq(Key)

VARIABLES
  partition_manager,
  pc,              \* where each worker thread is in KVClientTable::Get
  op,              \* number of the last Get of each thread
  keys,            \* what it asks for
  unsent,          \* servers the loop of Get has not come to
  cache,           \* the map on the stack of the Get
  recv_handles,    \* AppBlocker: whose Get the handler of a thread writes to
  tracker,         \* AppBlocker: expected and received responses of a thread
  channel,         \* messages of a thread on their way to a server or waiting there
  storage,         \* updates of a thread that a server has applied
  progress,        \* Clocks of a thread that a server has counted
  work_queue,      \* queue of each thread's helper
  helper,          \* what each helper is doing
  added, clocked,  \* history: updates and Clocks that each thread made
  pushes, others   \* history: calls of Add and Clock, replies that answer no Get

frame == <<op, keys, unsent, cache>>
blocker == <<recv_handles, tracker>>
server == <<storage, progress>>
history == <<added, clocked, pushes>>

vars == <<partition_manager, pc, frame, blocker, channel, server, work_queue, helper,
          history, others>>

EmptyMap == [k \in {} |-> 0]

Polling == [at |-> "WaitAndPop"]

Init ==
  /\ partition_manager \in {"HashPartitionManager", "RangePartitionManager"}
  /\ pc = [t \in Thread |-> "user_code"]
  /\ op = [t \in Thread |-> 0]
  /\ keys = [t \in Thread |-> <<>>]
  /\ unsent = [t \in Thread |-> {}]
  /\ cache = [t \in Thread |-> EmptyMap]
  /\ recv_handles = [t \in Thread |-> 0]
  /\ tracker = [t \in Thread |-> [expected |-> 0, received |-> 0]]
  /\ channel = [t \in Thread |-> [s \in Server |-> <<>>]]
  /\ storage = [t \in Thread |-> [s \in Server |-> {}]]
  /\ progress = [t \in Thread |-> [s \in Server |-> {}]]
  /\ work_queue = [t \in Thread |-> <<>>]
  /\ helper = [t \in Thread |-> Polling]
  /\ added = [t \in Thread |-> {}]
  /\ clocked = [t \in Thread |-> {}]
  /\ pushes = [t \in Thread |-> 0]
  /\ others = 0

Goto(t, from, to) == pc[t] = from /\ pc' = [pc EXCEPT ![t] = to]

-----------------------------------------------------------------------------
(* KVClientTable::Add and Clock.  They push a message for each slice or    *)
(* server and return; nobody can tell in how many steps.                   *)

MayPush(t) ==
  /\ pc[t] = "user_code" /\ pushes[t] < MaxPushes[t]
  /\ pushes' = [pushes EXCEPT ![t] = @ + 1]

\* The updates at some positions of the vectors of keys and values of an Add.
At(kvs, n, positions) == {<<kvs[i], n, i>> : i \in positions}

Add(t, kvs) ==
  LET sliced == SliceKVs(partition_manager, kvs)
  IN  /\ MayPush(t)
      /\ channel' = [channel EXCEPT ![t] = [s \in Server |->
           IF s \in DOMAIN sliced
           THEN Append(@[s], [flag |-> "kAdd", updates |-> At(kvs, pushes[t], sliced[s])])
           ELSE @[s]]]
      /\ added' = [added EXCEPT ![t] = @ \cup At(kvs, pushes[t], DOMAIN kvs)]
      /\ UNCHANGED <<partition_manager, pc, frame, blocker, server, work_queue, helper, clocked, others>>

Clock(t) ==
  /\ MayPush(t)
  /\ channel' = [channel EXCEPT ![t] = [s \in Server |-> Append(@[s], [flag |-> "kClock", clock |-> pushes[t]])]]
  /\ clocked' = [clocked EXCEPT ![t] = @ \cup {pushes[t]}]
  /\ UNCHANGED <<partition_manager, pc, frame, blocker, server, work_queue, helper, added, others>>

-----------------------------------------------------------------------------
(* KVClientTable::Get, in the order of its statements.  Slicing an empty   *)
(* vector of keys gives no slice.                                          *)

Sliced(t) == Slice(partition_manager, keys[t])

SliceKeys(t, s) == {keys[t][i] : i \in Sliced(t)[s]}

CallGet(t, asked) ==
  /\ Goto(t, "user_code", "RegisterRecvHandle")
  /\ op[t] < MaxGets[t]
  /\ op' = [op EXCEPT ![t] = @ + 1]
  /\ keys' = [keys EXCEPT ![t] = asked]
  /\ unsent' = [unsent EXCEPT ![t] = DOMAIN Slice(partition_manager, asked)]
  /\ UNCHANGED <<cache, blocker, channel, work_queue, helper, others>>

RegisterRecvHandle(t) ==
  /\ Goto(t, "RegisterRecvHandle", "RegisterRecvFinishHandle")
  /\ recv_handles' = [recv_handles EXCEPT ![t] = op[t]]
  /\ UNCHANGED <<frame, tracker, channel, work_queue, helper, others>>

\* The handler it registers does nothing.
RegisterRecvFinishHandle(t) ==
  /\ Goto(t, "RegisterRecvFinishHandle", "NewRequest")
  /\ UNCHANGED <<frame, blocker, channel, work_queue, helper, others>>

NewRequestKeepsCount(t) ==     \* mutant: restarts only the number expected
  /\ Goto(t, "NewRequest", "send")
  /\ tracker' = [tracker EXCEPT ![t].expected = Cardinality(DOMAIN Sliced(t))]
  /\ UNCHANGED <<frame, recv_handles, channel, work_queue, helper, others>>

NewRequest(t) ==
  /\ Goto(t, "NewRequest", "send")
  /\ tracker' = [tracker EXCEPT ![t] = [expected |-> Cardinality(DOMAIN Sliced(t)), received |-> 0]]
  /\ UNCHANGED <<frame, recv_handles, channel, work_queue, helper, others>>

SendSlice(t, s) ==
  /\ pc[t] = "send"
  /\ s \in unsent[t]
  /\ unsent' = [unsent EXCEPT ![t] = @ \ {s}]
  /\ channel' = [channel EXCEPT ![t][s] =
       Append(@, [flag |-> "kGet", get |-> op[t], keys |-> SliceKeys(t, s)])]
  /\ UNCHANGED <<pc, op, keys, cache, blocker, work_queue, helper, others>>

SendDone(t) ==
  /\ unsent[t] = {}
  /\ Goto(t, "send", "WaitRequest")
  /\ UNCHANGED <<frame, blocker, channel, work_queue, helper, others>>

\* The predicate of WaitRequest, evaluated under mu_ before every wait.
CompletedEarly(t) == tracker[t].expected <= tracker[t].received + 1   \* mutant: off by one

Completed(t) == tracker[t].expected = tracker[t].received

WaitRequest(t) ==
  /\ Goto(t, "WaitRequest", IF Completed(t) THEN "return" ELSE "asleep")
  /\ UNCHANGED <<frame, blocker, channel, work_queue, helper, others>>

WakeSpuriously(t) ==
  /\ Goto(t, "asleep", "WaitRequest")
  /\ UNCHANGED <<frame, blocker, channel, work_queue, helper, others>>

\* Get copies the values from cache to the user's vector; its stack frame goes away.
ReturnFromGet(t) ==
  /\ Goto(t, "return", "user_code")
  /\ keys' = [keys EXCEPT ![t] = <<>>]
  /\ cache' = [cache EXCEPT ![t] = EmptyMap]
  /\ UNCHANGED <<op, unsent, blocker, channel, work_queue, helper, others>>

-----------------------------------------------------------------------------
(* The other nodes: a server thread handles the next message of a worker   *)
(* thread, and the mailbox pushes the reply on the queue of the worker's   *)
(* helper.  The replies to Engine::InitTable go to the first thread of the *)
(* task.                                                                   *)

Pop(t, s, flag) ==
  /\ channel[t][s] # <<>> /\ Head(channel[t][s]).flag = flag
  /\ channel' = [channel EXCEPT ![t][s] = Tail(@)]

HandleAdd(t, s) ==
  /\ Pop(t, s, "kAdd")
  /\ storage' = [storage EXCEPT ![t][s] = @ \cup Head(channel[t][s]).updates]
  /\ UNCHANGED <<pc, frame, blocker, progress, work_queue, helper, others>>

HandleClock(t, s) ==
  /\ Pop(t, s, "kClock")
  /\ progress' = [progress EXCEPT ![t][s] = @ \cup {Head(channel[t][s]).clock}]
  /\ UNCHANGED <<pc, frame, blocker, storage, work_queue, helper, others>>

ReplyTo(m, t, s) ==
  [flag |-> "kGet", get |-> m.get, server |-> s, keys |-> m.keys,
   vals |-> {u \in storage[t][s] : u[1] \in m.keys}, clocks |-> progress[t][s]]

Answer(t, s) ==
  /\ Pop(t, s, "kGet")
  /\ work_queue' = [work_queue EXCEPT ![t] = Append(@, ReplyTo(Head(channel[t][s]), t, s))]
  /\ UNCHANGED <<pc, frame, blocker, server, helper, others>>

AnswerReset ==
  /\ others < MaxOther
  /\ others' = others + 1
  /\ work_queue' = [work_queue EXCEPT ![First] = Append(@, [flag |-> "kResetWorkerInModel"])]
  /\ UNCHANGED <<pc, frame, blocker, channel, server, helper>>

-----------------------------------------------------------------------------
(* WorkerHelperThread::Main and the AppBlocker::AddResponse it calls.      *)

IsResponse(m) == m.flag = "kGet"

WaitAndPop(t) ==
  LET m == Head(work_queue[t])
  IN  /\ helper[t] = Polling
      /\ work_queue[t] # <<>>
      /\ work_queue' = [work_queue EXCEPT ![t] = Tail(@)]
      /\ helper' = [helper EXCEPT ![t] =
                      IF IsResponse(m) THEN [at |-> "AddResponse", msg |-> m] ELSE Polling]
      /\ UNCHANGED <<pc, frame, blocker, channel, others>>

CheckFinish(t) ==
  /\ helper[t].at = "AddResponse"
  /\ helper' = [helper EXCEPT ![t] =
       [at |-> "recv_handle", msg |-> @.msg,
        recv_finish |-> (tracker[t].expected = tracker[t].received + 1)]]
  /\ UNCHANGED <<pc, frame, blocker, channel, work_queue, others>>

\* The handler writes to the map of the Get that registered it.  The finish
\* handler, called next when recv_finish, does nothing.
RunHandler(t) ==
  LET m == helper[t].msg
  IN  /\ helper[t].at = "recv_handle"
      /\ cache' = [cache EXCEPT ![t] = [k \in DOMAIN @ \cup m.keys |->
           IF k \in m.keys
           THEN [val |-> {u \in m.vals : u[1] = k}, get |-> m.get, clocks |-> m.clocks]
           ELSE @[k]]]
      /\ helper' = [helper EXCEPT ![t].at = "count"]
      /\ UNCHANGED <<pc, op, keys, unsent, blocker, channel, work_queue, others>>

\* Which threads a notification of cond_ wakes.
NotifyNone(finish) == {pc}                            \* mutant: no notify_all

NotifyAll(finish) ==
  {IF finish THEN [t \in Thread |-> IF pc[t] = "asleep" THEN "WaitRequest" ELSE pc[t]]
   ELSE pc}

CountResponse(t) ==
  /\ helper[t].at = "count"
  /\ tracker' = [tracker EXCEPT ![t].received = @ + 1]
  /\ pc' \in NotifyAll(helper[t].recv_finish)
  /\ helper' = [helper EXCEPT ![t] = Polling]
  /\ UNCHANGED <<frame, recv_handles, channel, work_queue, others>>

-----------------------------------------------------------------------------
elsewhere == <<partition_manager, server, history>>

ThreadStep(t) ==
  /\ \/ RegisterRecvHandle(t) \/ RegisterRecvFinishHandle(t) \/ NewRequest(t)
     \/ \E s \in Server : SendSlice(t, s)
     \/ SendDone(t) \/ WaitRequest(t) \/ ReturnFromGet(t)
  /\ UNCHANGED elsewhere

HelperStep(t) ==
  /\ WaitAndPop(t) \/ CheckFinish(t) \/ RunHandler(t) \/ CountResponse(t)
  /\ UNCHANGED elsewhere

ServerStep(t, s) ==
  /\ HandleAdd(t, s) \/ HandleClock(t, s) \/ Answer(t, s)
  /\ UNCHANGED <<partition_manager, history>>

Environment(t) ==
  /\ (\E asked \in Asked[t] : CallGet(t, asked)) \/ WakeSpuriously(t)
  /\ UNCHANGED elsewhere

Next ==
  \/ \E t \in Thread :
       \/ Environment(t) \/ (\E kvs \in Updates : Add(t, kvs)) \/ Clock(t)
       \/ ThreadStep(t) \/ HelperStep(t)
       \/ \E s \in Server : ServerStep(t, s)
  \/ AnswerReset /\ UNCHANGED <<partition_manager, history>>

(***************************************************************************)
(* Threads and helpers are operating system threads, which run when they   *)
(* can; the servers handle every message.  Nothing makes a thread call Get *)
(* again, and no wakeup without a notification is assumed to come.         *)
(***************************************************************************)
Fairness ==
  /\ \A t \in Thread : WF_vars(ThreadStep(t)) /\ WF_vars(HelperStep(t))
  /\ \A t \in Thread, s \in Server : WF_vars(ServerStep(t, s))

Spec == Init /\ [][Next]_vars /\ Fairness

-----------------------------------------------------------------------------
Places == {"user_code", "RegisterRecvHandle", "RegisterRecvFinishHandle", "NewRequest",
           "send", "WaitRequest", "asleep", "return"}

Update == Key \X Nat \X Nat

Request ==
       [flag : {"kGet"}, get : Nat, keys : SUBSET Key]
  \cup [flag : {"kAdd"}, updates : SUBSET Update]
  \cup [flag : {"kClock"}, clock : Nat]

Reply == [flag : {"kGet"}, get : Nat, server : Server, keys : SUBSET Key,
          vals : SUBSET Update, clocks : SUBSET Nat]

OtherReply == [flag : {"kResetWorkerInModel"}]

HelperState ==
       {Polling}
  \cup [at : {"AddResponse"}, msg : Reply]
  \cup [at : {"recv_handle", "count"}, msg : Reply, recv_finish : BOOLEAN]

TypeOK ==
  /\ partition_manager \in {"HashPartitionManager", "RangePartitionManager"}
  /\ pc \in [Thread -> Places]
  /\ op \in [Thread -> Nat]
  /\ keys \in [Thread -> Seq(Key)]
  /\ unsent \in [Thread -> SUBSET Server]
  /\ DOMAIN cache = Thread /\ \A t \in Thread : DOMAIN cache[t] \subseteq Key
  /\ recv_handles \in [Thread -> Nat]
  /\ tracker \in [Thread -> [expected : Nat, received : Nat]]
  /\ channel \in [Thread -> [Server -> Seq(Request)]]
  /\ storage \in [Thread -> [Server -> SUBSET Update]]
  /\ progress \in [Thread -> [Server -> SUBSET Nat]]
  /\ work_queue \in [Thread -> Seq(Reply \cup OtherReply)]
  /\ helper \in [Thread -> HelperState]
  /\ added \in [Thread -> SUBSET Update]
  /\ clocked \in [Thread -> SUBSET Nat]
  /\ pushes \in [Thread -> Nat]
  /\ others \in 0 .. MaxOther

(***************************************************************************)
(* The handler that AppBlocker::AddResponse calls without a lock writes to *)
(* a map on the stack of KVClientTable::Get.  Whenever it is called, that  *)
(* Get has not returned, and the reply answers that very Get.              *)
(***************************************************************************)
HandlerFrameLive ==
  \A t \in Thread : helper[t].at = "recv_handle" =>
    /\ pc[t] \in {"send", "WaitRequest", "asleep"}
    /\ recv_handles[t] = op[t]
    /\ helper[t].msg.get = op[t]

(***************************************************************************)
(* "Return when the request is completed": when WaitRequest lets a Get go  *)
(* on, the map has a value for each of its keys, from replies to this Get, *)
(* and no reply is left over that a later Get could take for its own.      *)
(***************************************************************************)
CompleteOnReturn ==
  \A t \in Thread : pc[t] = "return" =>
    /\ DOMAIN cache[t] = {keys[t][i] : i \in DOMAIN keys[t]}
    /\ \A k \in DOMAIN cache[t] : cache[t][k].get = op[t]
    /\ \A s \in Server : \A i \in DOMAIN channel[t][s] : channel[t][s][i].flag # "kGet"
    /\ \A i \in DOMAIN work_queue[t] : work_queue[t][i].flag # "kGet"

(***************************************************************************)
(* A thread reads what it wrote: whichever partition manager the table has *)
(* and however Add and Get slice their vectors, each value that Get        *)
(* returns contains exactly the updates the thread made before, repeated   *)
(* keys included, and comes from a server that has seen all its Clocks.    *)
(***************************************************************************)
ReadsOwnWrites ==
  \A t \in Thread : pc[t] = "return" =>
    \A i \in DOMAIN keys[t] :
      LET k == keys[t][i]
      IN  /\ cache[t][k].val = {u \in added[t] : u[1] = k}
          /\ cache[t][k].clocks = clocked[t]

(***************************************************************************)
(* Every Get returns: the one notification of AddResponse, sent with the   *)
(* last reply to a condition variable that all threads of the node share,  *)
(* is never missed.                                                        *)
(***************************************************************************)
GetReturns == \A t \in Thread : pc[t] # "user_code" ~> pc[t] = "user_code"
=============================================================================
