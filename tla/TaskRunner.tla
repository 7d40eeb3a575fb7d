----------------------------- MODULE TaskRunner -----------------------------
(***************************************************************************)
(* The engine of one node running tasks one after the other                *)
(* (driver/engine.cpp: Run, AllocateWorkers, InitTable), with the thread   *)
(* ids it allocates (driver/simple_id_mapper.cpp) and the specification of *)
(* a task's workers (driver/worker_spec.cpp).                              *)
(*                                                                         *)
(* Every node has an id mapper of its own and allocates ids for itself     *)
(* only, so one engine, on any node, is the whole system here.  The        *)
(* worker threads of a task free their ids concurrently; each operation on *)
(* a container is one step.                                                *)
(***************************************************************************)
EXTENDS Integers, Sequences, FiniteSetsExt

CONSTANTS NumNodes,               \* node ids are 0 .. NumNodes - 1
          NumServers,             \* num_server_threads_per_node
          kMaxThreadsPerNode, kMaxBgThreadsPerNode, kWorkerHelperThreadId,
          Allocs,                 \* worker allocations of tasks
          MaxTasks                \* bound: calls of Engine::Run

Node == 0 .. NumNodes - 1

ASSUME TaskRunnerAssumption ==
  /\ NumNodes \in Nat \ {0}
  /\ {kMaxThreadsPerNode, kMaxBgThreadsPerNode, kWorkerHelperThreadId} \subseteq Nat
  /\ NumServers \in 1 .. kWorkerHelperThreadId
  /\ kWorkerHelperThreadId < kMaxBgThreadsPerNode
  /\ kMaxBgThreadsPerNode < kMaxThreadsPerNode
  /\ Allocs \subseteq Seq([node_id : Node, num_workers : Nat])

VARIABLES
  node,            \* node_ of the engine
  node2worker,     \* ids allocated to worker threads of this node
  worker2helper,
  queue_map,       \* Mailbox: the helper whose queue is registered for a worker id
  main,            \* where the main thread is in Engine::Run
  alloc,           \* worker allocation of the task
  spec,            \* WorkerSpec of the task
  next,            \* entry of the allocation that WorkerSpec::Init is at
  todo,            \* workers to allocate, later threads to start
  threads,         \* what each worker thread that was started does
  resets,          \* reset messages pushed for the task
  ran,             \* history: <<worker, thread>> started for the task
  tasks            \* history: tasks so far

vars == <<node, node2worker, worker2helper, queue_map, main, alloc, spec, next, todo,
          threads, resets, ran, tasks>>

-----------------------------------------------------------------------------
(* SimpleIdMapper: the ids of a node.                                      *)

IdBase(n) == kMaxThreadsPerNode * n

GetNodeIdForThread(tid) == tid \div kMaxThreadsPerNode

ServerThreads(n) == IdBase(n) .. IdBase(n) + NumServers - 1

HelperThreads(n) == IdBase(n) + kWorkerHelperThreadId .. IdBase(n) + kMaxBgThreadsPerNode - 1

WorkerIdsOverlap(n) ==          \* mutant: counts from the first helper
  IdBase(n) + kWorkerHelperThreadId .. IdBase(n + 1) - 1

WorkerIds(n) == IdBase(n) + kMaxBgThreadsPerNode .. IdBase(n + 1) - 1

FreeIds == WorkerIds(node) \ node2worker

FreeHelpersAll == HelperThreads(node)      \* mutant: does not look who is occupied

FreeHelpers == HelperThreads(node) \ Range(worker2helper)

-----------------------------------------------------------------------------
(* WorkerSpec.  A second entry for a node replaces the workers of the      *)
(* first in node_to_workers.                                               *)

NoWorkers ==
  [node_to_workers |-> [n \in Node |-> <<>>], worker_to_node |-> [w \in {} |-> 0],
   node_to_threads |-> [n \in Node |-> <<>>], num_workers |-> 0]

EntryFromZero(s, entry) ==      \* mutant: counts from 0 in every entry
  [s EXCEPT !.node_to_workers = [@ EXCEPT ![entry.node_id] =
                                   [i \in 1 .. entry.num_workers |-> i - 1]],
            !.worker_to_node = [w \in DOMAIN @ \cup 0 .. entry.num_workers - 1 |->
                                  IF w < entry.num_workers THEN entry.node_id ELSE @[w]],
            !.num_workers = @ + entry.num_workers]

Entry(s, entry) ==
  LET sum == s.num_workers + entry.num_workers
      workers == [i \in 1 .. entry.num_workers |-> s.num_workers + i - 1]
  IN  [node_to_workers |-> [s.node_to_workers EXCEPT ![entry.node_id] = workers],
       worker_to_node  |-> [w \in 0 .. sum - 1 |-> IF w < s.num_workers THEN s.worker_to_node[w]
                                                   ELSE entry.node_id],
       node_to_threads |-> s.node_to_threads,
       num_workers     |-> sum]

InsertWorkerIdThreadId(s, worker, tid) ==
  LET thread_ids == [s.node_to_threads EXCEPT ![s.worker_to_node[worker]] = Append(@, tid)]
  IN  [s EXCEPT !.node_to_threads = thread_ids]

-----------------------------------------------------------------------------
EmptyMap == [x \in {} |-> 0]

Init ==
  /\ node \in Node
  /\ node2worker = {}
  /\ worker2helper = EmptyMap
  /\ queue_map = EmptyMap
  /\ main = "idle"
  /\ alloc = <<>>
  /\ spec = NoWorkers
  /\ next = 1
  /\ todo = <<>>
  /\ threads = EmptyMap
  /\ resets = {}
  /\ ran = {}
  /\ tasks = 0

Put(f, x, y) == [z \in DOMAIN f \cup {x} |-> IF z = x THEN y ELSE f[z]]

Run(allocs) ==
  /\ main = "idle"
  /\ tasks < MaxTasks
  /\ main' = "WorkerSpec"
  /\ alloc' = allocs
  /\ spec' = NoWorkers
  /\ next' = 1
  /\ tasks' = tasks + 1
  /\ resets' = {}
  /\ ran' = {}
  /\ UNCHANGED <<node, node2worker, worker2helper, queue_map, todo, threads>>

\* WorkerSpec::Init, one turn of its loop; then the loop of AllocateWorkers
\* over the workers of this node begins.
NextEntry ==
  /\ main = "WorkerSpec" /\ next <= Len(alloc)
  /\ spec' = Entry(spec, alloc[next])
  /\ next' = next + 1
  /\ UNCHANGED <<node, node2worker, worker2helper, queue_map, main, alloc, todo, threads,
                 resets, ran, tasks>>

SpecDone ==
  /\ main = "WorkerSpec" /\ next > Len(alloc)
  /\ main' = "AllocateWorkers"
  /\ todo' = spec.node_to_workers[node]
  /\ UNCHANGED <<node, node2worker, worker2helper, queue_map, alloc, spec, next, threads,
                 resets, ran, tasks>>

\* The loop of AllocateWorkers: AllocateWorkerThread takes the smallest free id
\* and the first free helper, whose queue is registered for the id.
BindWorker ==
  LET tid == Min(FreeIds)
      helper == Min(FreeHelpers)
  IN  /\ main = "AllocateWorkers" /\ todo # <<>>
      /\ FreeIds # {} /\ FreeHelpers # {}
      /\ worker2helper' = Put(worker2helper, tid, helper)
      /\ node2worker' = node2worker \cup {tid}
      /\ spec' = InsertWorkerIdThreadId(spec, Head(todo), tid)
      /\ todo' = Tail(todo)
      /\ \/ /\ tid \notin DOMAIN queue_map
            /\ queue_map' = Put(queue_map, tid, helper)
            /\ UNCHANGED main
         \/ /\ tid \in DOMAIN queue_map        \* the CHECK of RegisterQueue fails
            /\ main' = "terminated"
            /\ UNCHANGED queue_map
      /\ UNCHANGED <<node, alloc, next, threads, resets, ran, tasks>>

\* No id is left: AllocateWorkerThread answers -1, and AllocateWorkers throws.
NoFreeId ==
  /\ main = "AllocateWorkers" /\ todo # <<>>
  /\ FreeIds = {}
  /\ main' = "terminated"
  /\ UNCHANGED <<node, node2worker, worker2helper, queue_map, alloc, spec, next, todo,
                 threads, resets, ran, tasks>>

(***************************************************************************)
(* No helper is left: AllocateHelperForWorker ends without a return, and   *)
(* its caller sees some value.  If that is -1, AllocateWorkers throws;     *)
(* otherwise the id is allocated, and no queue is registered for it.       *)
(***************************************************************************)
NoFreeHelper ==
  /\ main = "AllocateWorkers" /\ todo # <<>>
  /\ FreeIds # {} /\ FreeHelpers = {}
  /\ \/ /\ main' = "terminated"
        /\ UNCHANGED <<node2worker, spec, todo>>
     \/ /\ node2worker' = node2worker \cup {Min(FreeIds)}
        /\ spec' = InsertWorkerIdThreadId(spec, Head(todo), Min(FreeIds))
        /\ todo' = Tail(todo)
        /\ UNCHANGED main
  /\ UNCHANGED <<node, worker2helper, queue_map, alloc, next, threads, resets, ran, tasks>>

\* InitTable names the local threads to the server threads of all nodes.
InitTableLocal(thread_ids) ==       \* mutant: only to the servers of this node
  {[recver |-> s, tids |-> Range(thread_ids)] : s \in ServerThreads(node)}

InitTable(thread_ids) ==
  {[recver |-> s, tids |-> Range(thread_ids)] : s \in UNION {ServerThreads(n) : n \in Node}}

WorkersAllocated ==
  LET thread_ids == spec.node_to_threads[node]
  IN  /\ main = "AllocateWorkers" /\ todo = <<>>
      /\ \/ /\ spec.node_to_workers[node] = <<>>        \* ~HasLocalWorkers
            /\ main' = "idle"
            /\ UNCHANGED <<resets, todo>>
         \/ /\ spec.node_to_workers[node] # <<>>
            /\ main' = "start"
            /\ resets' = InitTable(thread_ids)
            /\ todo' = thread_ids
      /\ UNCHANGED <<node, node2worker, worker2helper, queue_map, alloc, spec, next, threads,
                     ran, tasks>>

\* Thread i of the node runs worker i of the node.
StartThread ==
  LET workers == spec.node_to_workers[node]
      i == Len(workers) - Len(todo) + 1
  IN  /\ main = "start" /\ todo # <<>>
      /\ threads' = Put(threads, Head(todo), "lambda")
      /\ ran' = ran \cup {<<workers[i], Head(todo)>>}
      /\ todo' = Tail(todo)
      /\ UNCHANGED <<node, node2worker, worker2helper, queue_map, main, alloc, spec, next,
                     resets, tasks>>

\* A worker thread is done with the UDF, and frees its id and its helper
\* (DeallocateWorkerThread).
FreeId(t) ==
  /\ threads[t] = "lambda"
  /\ threads' = [threads EXCEPT ![t] = IF t \in node2worker THEN "free_helper" ELSE "done"]
  /\ node2worker' = node2worker \ {t}
  /\ UNCHANGED <<node, worker2helper, queue_map, main, alloc, spec, next, todo,
                 resets, ran, tasks>>

FreeHelperKeeps(t) ==           \* mutant: no worker2helper_.erase
  /\ threads[t] = "free_helper"
  /\ threads' = [threads EXCEPT ![t] = "done"]
  /\ UNCHANGED <<node, node2worker, worker2helper, queue_map, main, alloc, spec, next, todo,
                 resets, ran, tasks>>

FreeHelper(t) ==
  /\ threads[t] = "free_helper"
  /\ threads' = [threads EXCEPT ![t] = "done"]
  /\ worker2helper' = [u \in DOMAIN worker2helper \ {t} |-> worker2helper[u]]
  /\ UNCHANGED <<node, node2worker, queue_map, main, alloc, spec, next, todo, resets, ran, tasks>>

JoinThreads ==
  /\ main = "start" /\ todo = <<>>
  /\ \A t \in DOMAIN threads : threads[t] = "done"
  /\ main' = "idle"
  /\ threads' = EmptyMap
  /\ UNCHANGED <<node, node2worker, worker2helper, queue_map, alloc, spec, next, todo,
                 resets, ran, tasks>>

Next ==
  \/ \E allocs \in Allocs : Run(allocs)
  \/ NextEntry \/ SpecDone
  \/ BindWorker \/ NoFreeId \/ NoFreeHelper \/ WorkersAllocated \/ StartThread \/ JoinThreads
  \/ \E t \in DOMAIN threads : FreeId(t) \/ FreeHelper(t)

Spec == Init /\ [][Next]_vars

-----------------------------------------------------------------------------
Running == {t \in DOMAIN threads : threads[t] = "lambda"}

TypeOK ==
  /\ node \in Node
  /\ node2worker \subseteq Nat
  /\ DOMAIN worker2helper \subseteq Nat /\ Range(worker2helper) \subseteq HelperThreads(node)
  /\ DOMAIN queue_map \subseteq Nat /\ Range(queue_map) \subseteq HelperThreads(node)
  /\ main \in {"idle", "WorkerSpec", "AllocateWorkers", "start", "terminated"}
  /\ alloc \in Allocs \cup {<<>>}
  /\ spec \in [node_to_workers : [Node -> Seq(Nat)], node_to_threads : [Node -> Seq(Nat)],
               worker_to_node : [0 .. spec.num_workers - 1 -> Node], num_workers : Nat]
  /\ next \in 1 .. Len(alloc) + 1
  /\ todo \in Seq(Nat)
  /\ DOMAIN threads \subseteq Nat /\ Range(threads) \subseteq {"lambda", "free_helper", "done"}
  /\ ran \subseteq Nat \X Nat
  /\ tasks \in Nat

(***************************************************************************)
(* Replies reach the right thread: a running worker thread that has a      *)
(* helper has it to itself, and the queue that the mailbox knows for its   *)
(* id (AllocateWorkers, RegisterQueue) is the queue of that helper, also   *)
(* while other threads of the task are giving their helpers back.          *)
(***************************************************************************)
RepliesRouted ==
  \A t \in Running \cap DOMAIN worker2helper :
    /\ queue_map[t] = worker2helper[t]
    /\ \A u \in DOMAIN worker2helper \ {t} : worker2helper[u] # worker2helper[t]

(***************************************************************************)
(* When Engine::Run returns, every id and every helper is free again       *)
(* ("free worker thread id"), in whatever order the threads ended.         *)
(***************************************************************************)
IdsFreed == main = "idle" => node2worker = {} /\ DOMAIN worker2helper = {}

(***************************************************************************)
(* An allocated id belongs to this node, by which Mailbox::Send finds its  *)
(* way back, and is the id of no server thread and of no helper.           *)
(***************************************************************************)
IdsOfNode ==
  \A t \in node2worker :
    /\ GetNodeIdForThread(t) = node
    /\ t \notin ServerThreads(node) \cup HelperThreads(node)

(***************************************************************************)
(* Every worker of a task runs exactly once on the node it was allocated   *)
(* to: when all threads of a node are started, each has a worker of its    *)
(* own, and the workers are those which counting through the entries of    *)
(* the allocation gives to the node (WorkerSpec::Init, Run).  The latter   *)
(* needs an allocation with one entry per node, as all applications have:  *)
(* a second entry takes the place of the first.                            *)
(***************************************************************************)
OneEntryPerNode(allocs) ==
  \A i, j \in DOMAIN allocs : allocs[i].node_id = allocs[j].node_id => i = j

\* before[i] is the number of workers in the entries before entry i.
CountsWorkers(before) ==
  /\ before[1] = 0
  /\ \A i \in DOMAIN alloc : before[i + 1] = before[i] + alloc[i].num_workers

WorkersOf(n, before) ==
  UNION {before[i] .. before[i + 1] - 1 : i \in {j \in DOMAIN alloc : alloc[j].node_id = n}}

WorkersRunOnce ==
  (main = "start" /\ todo = <<>>) =>
    /\ \A x, y \in ran : x[1] = y[1] \/ x[2] = y[2] => x = y
    /\ OneEntryPerNode(alloc) =>
         \E before \in [1 .. Len(alloc) + 1 -> 0 .. spec.num_workers] :
           CountsWorkers(before) /\ {x[1] : x \in ran} = WorkersOf(node, before)

(***************************************************************************)
(* A thread runs only after a reset that names it was pushed for every     *)
(* server thread of every node (InitTable): its requests, pushed on the    *)
(* same queue, find it registered, as the consistency models need it.      *)
(***************************************************************************)
ResetBeforeRun ==
  \A t \in Running : \A n \in Node : \A s \in ServerThreads(n) :
    \E r \in resets : r.recver = s /\ t \in r.tids

(***************************************************************************)
(* "Allocated helper_id if success, otherwise -1": a worker thread is only *)
(* started when AllocateHelperForWorker found a helper for it.             *)
(***************************************************************************)
HelperForAll == Running \subseteq DOMAIN queue_map

(***************************************************************************)
(* "Deallocates the worker thread and free the id it occupies": a task     *)
(* can be run with the ids that an earlier one gave back.                  *)
(***************************************************************************)
TasksRun == main # "terminated"
=============================================================================
