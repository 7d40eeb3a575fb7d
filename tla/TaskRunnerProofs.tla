-------------------------- MODULE TaskRunnerProofs --------------------------
(***************************************************************************)
(* Proofs about TaskRunner for any number of nodes, servers, helpers and   *)
(* ids, any allocations and any number of tasks.                           *)
(***************************************************************************)
EXTENDS TaskRunner, SequenceTheorems, WellFoundedInduction, TLAPS

-----------------------------------------------------------------------------
(* The inductive invariant.                                                *)

Workers == spec.node_to_workers[node]

Threads == spec.node_to_threads[node]

Distinct(s) == \A i, j \in DOMAIN s : s[i] = s[j] => i = j

\* WorkerSpec: the workers of this node are those that the last entry for it
\* takes, counting through the entries, and worker_to_node_ says so.
Counts(before) ==
  /\ before[1] = 0 /\ before[next] = spec.num_workers
  /\ \A i \in 1 .. next - 1 : before[i + 1] = before[i] + alloc[i].num_workers

EntriesHere == {i \in 1 .. next - 1 : alloc[i].node_id = node}

WorkersFrom(before) ==
  /\ EntriesHere = {} => Workers = <<>>
  /\ EntriesHere # {} => \E j \in EntriesHere :
       /\ \A i \in EntriesHere : i <= j
       /\ Workers = [i \in 1 .. alloc[j].num_workers |-> before[j] + i - 1]

SpecRight ==
  /\ \E before \in [1 .. next -> 0 .. spec.num_workers] : Counts(before) /\ WorkersFrom(before)
  /\ \A i \in DOMAIN Workers : /\ Workers[i] \in 0 .. spec.num_workers - 1
                               /\ spec.worker_to_node[Workers[i]] = node
  /\ Distinct(Workers)
  /\ main # "WorkerSpec" => next = Len(alloc) + 1

\* A helper serves one thread, and until a CHECK fails the mailbox knows its
\* queue under the id of that thread.
HelpersRight ==
  /\ \A t, u \in DOMAIN worker2helper : worker2helper[t] = worker2helper[u] => t = u
  /\ main # "terminated" =>
       \A t \in DOMAIN worker2helper : t \in DOMAIN queue_map /\ queue_map[t] = worker2helper[t]

\* Between two tasks, and until AllocateWorkers begins, all is free.
FreeRight ==
  main \in {"idle", "WorkerSpec"} =>
    /\ node2worker = {} /\ DOMAIN worker2helper = {} /\ DOMAIN threads = {}
    /\ main = "WorkerSpec" => Threads = <<>> /\ ran = {}

\* AllocateWorkers has given a thread to the first workers of this node.
AllocateRight ==
  main = "AllocateWorkers" =>
    /\ DOMAIN threads = {} /\ ran = {}
    /\ Distinct(Threads) /\ node2worker = Range(Threads)
    /\ DOMAIN worker2helper \subseteq node2worker
    /\ Len(Threads) + Len(todo) = Len(Workers)
    /\ \A j \in DOMAIN todo : todo[j] = Workers[Len(Threads) + j]

\* Run has started the first threads.  An id is given back by its own thread
\* alone, and its helper after it.
Started == Len(Threads) - Len(todo)

StartRight ==
  main = "start" =>
    /\ Distinct(Threads) /\ Len(Threads) = Len(Workers) /\ Len(todo) <= Len(Threads)
    /\ \A j \in DOMAIN todo : todo[j] = Threads[Started + j]
    /\ DOMAIN threads = {Threads[j] : j \in 1 .. Started}
    /\ node2worker = {Threads[j] : j \in Started + 1 .. Len(Threads)} \cup Running
    /\ \A t \in DOMAIN worker2helper \ node2worker :
         t \in DOMAIN threads /\ threads[t] = "free_helper"
    /\ ran = {<<Workers[j], Threads[j]>> : j \in 1 .. Started}
    /\ resets = InitTable(Threads)

TaskInv ==
  /\ TypeOK
  /\ node2worker \subseteq WorkerIds(node)
  /\ SpecRight
  /\ HelpersRight
  /\ FreeRight
  /\ AllocateRight
  /\ StartRight
  /\ main = "terminated" => DOMAIN threads = {}

-----------------------------------------------------------------------------
(* Lemmas about the operators of the model.                                *)

\* The order of the natural numbers, which is well-founded.
Less == {p \in Nat \X Nat : p[1] < p[2]}

\* A set of ids that is not empty has a least id: what the loops of
\* AllocateWorkerThread and AllocateHelperForWorker find first.
LEMMA MinIsLeast ==
  ASSUME NEW S, S \in SUBSET Nat, S # {}
  PROVE  Min(S) \in S /\ \A y \in S : Min(S) <= y
<1>1. IsWellFoundedOn(Less, Nat)
  BY NatLessThanWellFounded, Zenon DEF OpToRel, Less
<1>2. PICK x \in S : \A y \in S : ~(<<y, x>> \in Less)
  BY <1>1, WFMin, Zenon
<1>3. ASSUME NEW y \in S PROVE x <= y
  <2>1. x \in Nat /\ y \in Nat
    BY Zenon
  <2>2. <<y, x>> \in Nat \X Nat /\ ~(<<y, x>> \in Less)
    BY <1>2, <2>1, Zenon
  <2>3. ~(y < x)
    BY <2>2, Zenon DEF Less
  <2>4. QED
    BY <2>1, <2>3
<1>4. QED
  BY <1>3, Zenon DEF Min

\* The ids of a node: GetNodeIdForThread inverts the numbering of
\* AllocateWorkerThread, and worker ids are neither servers nor helpers.
LEMMA IdsApart ==
  ASSUME NEW n \in Node
  PROVE  /\ WorkerIds(n) \subseteq Nat /\ HelperThreads(n) \subseteq Nat
         /\ \A t \in WorkerIds(n) : /\ GetNodeIdForThread(t) = n
                                    /\ t \notin ServerThreads(n) \cup HelperThreads(n)
<1> DEFINE K == kMaxThreadsPerNode
           b == IdBase(n)
<1>1. /\ n \in Nat /\ K \in Nat /\ kMaxBgThreadsPerNode \in Nat /\ kWorkerHelperThreadId \in Nat
      /\ NumServers \in Nat
      /\ NumServers <= kWorkerHelperThreadId /\ kWorkerHelperThreadId < kMaxBgThreadsPerNode
      /\ kMaxBgThreadsPerNode < K
  BY TaskRunnerAssumption DEF Node
<1>2. b = K * n /\ b \in Nat /\ IdBase(n + 1) = K * (n + 1) /\ IdBase(n + 1) = b + K
  BY <1>1 DEF IdBase
<1>3. WorkerIds(n) \subseteq Nat /\ HelperThreads(n) \subseteq Nat
  BY <1>1, <1>2 DEF WorkerIds, HelperThreads
<1>4. ASSUME NEW t \in WorkerIds(n)
      PROVE  GetNodeIdForThread(t) = n /\ t \notin ServerThreads(n) \cup HelperThreads(n)
  <2>1. t \in Nat /\ b + kMaxBgThreadsPerNode <= t /\ t <= b + K - 1
    BY <1>1, <1>2, <1>3 DEF WorkerIds
  <2>2. t \div K = n
    <3> HIDE DEF K, b
    <3>1. K * n + kMaxBgThreadsPerNode <= t /\ t <= K * (n + 1) - 1
      BY <1>1, <1>2, <2>1
    <3>2. QED
      BY <1>1, <2>1, <3>1
  <2> HIDE DEF b
  <2>3. t \notin IdBase(n) .. IdBase(n) + NumServers - 1
    BY <1>1, <1>2, <2>1 DEF b
  <2>4. t \notin IdBase(n) + kWorkerHelperThreadId .. IdBase(n) + kMaxBgThreadsPerNode - 1
    BY <1>1, <1>2, <2>1 DEF b
  <2>5. QED
    BY <2>2, <2>3, <2>4, Zenon DEF GetNodeIdForThread, ServerThreads, HelperThreads
<1>5. QED
  BY <1>3, <1>4, Zenon

\* g is f with x mapped to y.
IsPut(f, x, y, g) ==
  /\ DOMAIN g = DOMAIN f \cup {x}
  /\ g[x] = y
  /\ \A z \in DOMAIN f : z # x => g[z] = f[z]
  /\ Range(g) \subseteq Range(f) \cup {y}

\* Inserting in a map.
LEMMA PutMaps ==
  ASSUME NEW f, NEW x, NEW y
  PROVE  IsPut(f, x, y, Put(f, x, y))
<1>1. /\ DOMAIN Put(f, x, y) = DOMAIN f \cup {x}
      /\ \A z \in DOMAIN f \cup {x} : Put(f, x, y)[z] = IF z = x THEN y ELSE f[z]
  BY Zenon DEF Put
<1>2. QED
  BY <1>1, Zenon DEF Range, IsPut

\* Appending an element that is new.
LEMMA AppendDistinct ==
  ASSUME NEW s \in Seq(Nat), Distinct(s), NEW t \in Nat, t \notin Range(s)
  PROVE  Distinct(Append(s, t)) /\ Range(Append(s, t)) = Range(s) \cup {t}
<1> DEFINE a == Append(s, t)
           n == Len(s) + 1
<1>1. /\ DOMAIN a = DOMAIN s \cup {n} /\ n \notin DOMAIN s
      /\ a[n] = t /\ \A i \in DOMAIN s : a[i] = s[i]
  OBVIOUS
<1> HIDE DEF a, n
<1>2. \A i \in DOMAIN s : s[i] # t
  BY Zenon DEF Range
<1>3. Distinct(a)
  BY <1>1, <1>2, Zenon DEF Distinct
<1>4. Range(a) = Range(s) \cup {t}
  BY <1>1 DEF Range
<1>5. QED
  BY <1>3, <1>4, Zenon DEF a

\* The type of a WorkerSpec.
IsSpec(s) ==
  s \in [node_to_workers : [Node -> Seq(Nat)], node_to_threads : [Node -> Seq(Nat)],
         worker_to_node : [0 .. s.num_workers - 1 -> Node], num_workers : Nat]

\* z is s with one more entry: the next num_workers workers go to its node.
OneMoreEntry(s, e, z) ==
  /\ IsSpec(z)
  /\ z.num_workers = s.num_workers + e.num_workers
  /\ z.node_to_threads = s.node_to_threads
  /\ z.node_to_workers[e.node_id] = [i \in 1 .. e.num_workers |-> s.num_workers + i - 1]
  /\ \A n \in Node \ {e.node_id} : z.node_to_workers[n] = s.node_to_workers[n]
  /\ \A w \in 0 .. s.num_workers - 1 : z.worker_to_node[w] = s.worker_to_node[w]
  /\ \A w \in s.num_workers .. s.num_workers + e.num_workers - 1 : z.worker_to_node[w] = e.node_id

\* What one turn of the loop of WorkerSpec::Init does.
LEMMA EntryCounts ==
  ASSUME NEW s, IsSpec(s), NEW e \in [node_id : Node, num_workers : Nat]
  PROVE  OneMoreEntry(s, e, Entry(s, e))
<1> DEFINE sum == s.num_workers + e.num_workers
           ws == [i \in 1 .. e.num_workers |-> s.num_workers + i - 1]
           to == [w \in 0 .. sum - 1 |-> IF w < s.num_workers THEN s.worker_to_node[w] ELSE e.node_id]
           z == Entry(s, e)
<1>1. /\ s.num_workers \in Nat /\ e.num_workers \in Nat /\ e.node_id \in Node
      /\ s.node_to_workers \in [Node -> Seq(Nat)] /\ s.node_to_threads \in [Node -> Seq(Nat)]
      /\ s.worker_to_node \in [0 .. s.num_workers - 1 -> Node]
  BY Zenon DEF IsSpec
<1>2. sum \in Nat /\ ws \in Seq(Nat) /\ to \in [0 .. sum - 1 -> Node]
  <2>1. sum \in Nat /\ \A i \in 1 .. e.num_workers : s.num_workers + i - 1 \in Nat
    BY <1>1
  <2>2. to \in [0 .. sum - 1 -> Node]
    BY <1>1
  <2>3. ws \in Seq(Nat)
    <3>1. ws \in [1 .. e.num_workers -> Nat]
      BY <2>1, Zenon
    <3> HIDE DEF ws
    <3>2. ws \in UNION {[1 .. n -> Nat] : n \in Nat}
      BY <1>1, <3>1, Zenon
    <3>3. QED
      BY <3>2, SeqDef, Zenon
  <2>4. QED
    BY <2>1, <2>2, <2>3, Zenon
<1>3. z = [node_to_workers |-> [s.node_to_workers EXCEPT ![e.node_id] = ws],
           node_to_threads |-> s.node_to_threads, worker_to_node |-> to, num_workers |-> sum]
  BY <1>1, Zenon DEF Entry, IsSpec
<1> HIDE DEF ws, sum, to, z
<1>4. /\ z.node_to_workers = [s.node_to_workers EXCEPT ![e.node_id] = ws]
      /\ z.node_to_threads = s.node_to_threads
      /\ z.worker_to_node = to
      /\ z.num_workers = sum
  BY <1>3, Zenon
<1>5. [s.node_to_workers EXCEPT ![e.node_id] = ws] \in [Node -> Seq(Nat)]
  BY <1>1, <1>2, Zenon
<1>6. IsSpec(z)
  BY <1>1, <1>2, <1>3, <1>4, <1>5, Zenon DEF IsSpec
<1>7. /\ z.node_to_workers[e.node_id] = ws
      /\ \A n \in Node \ {e.node_id} : z.node_to_workers[n] = s.node_to_workers[n]
  BY <1>1, <1>4, Zenon
<1>8. /\ \A w \in 0 .. s.num_workers - 1 : to[w] = s.worker_to_node[w]
      /\ \A w \in s.num_workers .. s.num_workers + e.num_workers - 1 : to[w] = e.node_id
  BY <1>1 DEF to, sum
<1>9. QED
  BY <1>4, <1>6, <1>7, <1>8, Zenon DEF OneMoreEntry, z, ws, sum

\* InsertWorkerIdThreadId adds the thread to those of the worker's node.
LEMMA InsertAppends ==
  ASSUME NEW s, IsSpec(s), NEW w \in 0 .. s.num_workers - 1, NEW tid \in Nat,
         NEW n \in Node, s.worker_to_node[w] = n
  PROVE  /\ IsSpec(InsertWorkerIdThreadId(s, w, tid))
         /\ InsertWorkerIdThreadId(s, w, tid).num_workers = s.num_workers
         /\ InsertWorkerIdThreadId(s, w, tid).node_to_workers = s.node_to_workers
         /\ InsertWorkerIdThreadId(s, w, tid).worker_to_node = s.worker_to_node
         /\ InsertWorkerIdThreadId(s, w, tid).node_to_threads[n]
              = Append(s.node_to_threads[n], tid)
<1> DEFINE z == InsertWorkerIdThreadId(s, w, tid)
           th == [s.node_to_threads EXCEPT ![n] = Append(@, tid)]
<1>1. /\ s.num_workers \in Nat
      /\ s.node_to_workers \in [Node -> Seq(Nat)] /\ s.node_to_threads \in [Node -> Seq(Nat)]
      /\ s.worker_to_node \in [0 .. s.num_workers - 1 -> Node]
  BY Zenon DEF IsSpec
<1>2. z = [s EXCEPT !.node_to_threads = th]
  BY Zenon DEF InsertWorkerIdThreadId
<1>3. th \in [Node -> Seq(Nat)] /\ th[n] = Append(s.node_to_threads[n], tid)
  BY <1>1
<1> HIDE DEF z, th
<1>4. /\ z.num_workers = s.num_workers /\ z.node_to_workers = s.node_to_workers
      /\ z.worker_to_node = s.worker_to_node /\ z.node_to_threads = th
  BY <1>2, Zenon DEF IsSpec
<1>5. IsSpec(z)
  BY <1>1, <1>2, <1>3, <1>4, Zenon DEF IsSpec
<1>6. QED
  BY <1>3, <1>4, <1>5, Zenon DEF z

-----------------------------------------------------------------------------
(* Every step keeps the invariant.                                         *)

\* The type of the specification, as a fact about its fields.
LEMMA SpecTypes ==
  ASSUME TypeOK
  PROVE  /\ IsSpec(spec) /\ node \in Node
         /\ Workers \in Seq(Nat) /\ Threads \in Seq(Nat)
         /\ spec.num_workers \in Nat
<1>1. IsSpec(spec) /\ node \in Node
  BY Zenon DEF TypeOK, IsSpec
<1>2. spec.node_to_workers \in [Node -> Seq(Nat)] /\ spec.node_to_threads \in [Node -> Seq(Nat)]
      /\ spec.num_workers \in Nat
  BY <1>1, Zenon DEF IsSpec
<1>3. QED
  BY <1>1, <1>2, Zenon DEF Workers, Threads

\* The empty WorkerSpec has nothing on any node.
LEMMA NoWorkersRight ==
  /\ IsSpec(NoWorkers)
  /\ NoWorkers.num_workers = 0
  /\ \A n \in Node : NoWorkers.node_to_workers[n] = <<>> /\ NoWorkers.node_to_threads[n] = <<>>
<1>1. [w \in {} |-> 0] \in [0 .. 0 - 1 -> Node]
  OBVIOUS
<1>2. QED
  BY <1>1 DEF NoWorkers, IsSpec

EmptySpec ==
  node \in Node /\ spec = NoWorkers /\ next = 1 /\ (main # "WorkerSpec" => next = Len(alloc) + 1)

\* A specification without entries read yet is right (WorkerSpec's constructor).
LEMMA EmptySpecRight == EmptySpec => SpecRight
<1> SUFFICES ASSUME EmptySpec PROVE SpecRight
  BY Zenon
<1> USE DEF EmptySpec
<1>1. Workers = <<>> /\ spec.num_workers = 0
  BY NoWorkersRight, Zenon DEF Workers
<1>2. DOMAIN Workers = {}
  BY <1>1
<1> DEFINE b == [i \in 1 .. 1 |-> 0]
<1>3. b \in [1 .. next -> 0 .. spec.num_workers] /\ b[1] = 0
  BY <1>1
<1>4. EntriesHere = {} /\ 1 .. next - 1 = {}
  BY DEF EntriesHere
<1> HIDE DEF b
<1>5. Counts(b) /\ WorkersFrom(b)
  BY <1>1, <1>3, <1>4, Zenon DEF Counts, WorkersFrom
<1>6. QED
  BY <1>2, <1>3, <1>5, Zenon DEF SpecRight, Distinct

\* What AllocateWorkers, Run and the threads do after WorkerSpec::Init leaves
\* the workers of the specification alone.
LEMMA SpecRightKept ==
  ASSUME SpecRight, UNCHANGED <<node, alloc, next>>,
         spec'.node_to_workers = spec.node_to_workers,
         spec'.worker_to_node = spec.worker_to_node,
         spec'.num_workers = spec.num_workers,
         main' # "WorkerSpec", main # "WorkerSpec" \/ next = Len(alloc) + 1
  PROVE  SpecRight'
<1>1. Workers' = Workers /\ EntriesHere' = EntriesHere
  BY Zenon DEF Workers, EntriesHere
<1>2. \A b : Counts(b) /\ WorkersFrom(b) => Counts(b)' /\ WorkersFrom(b)'
  BY <1>1, Zenon DEF Counts, WorkersFrom
<1>3. \E before \in [1 .. next -> 0 .. spec.num_workers] :
        Counts(before)' /\ WorkersFrom(before)'
  BY <1>2, Zenon DEF SpecRight
<1>4. (\E before \in [1 .. next -> 0 .. spec.num_workers] : Counts(before) /\ WorkersFrom(before))'
  BY <1>3, Zenon
<1>5. next' = Len(alloc') + 1
  BY Zenon DEF SpecRight
<1>6. QED
  BY <1>1, <1>4, <1>5, Zenon DEF SpecRight, Distinct

\* The first state: nothing is allocated.
LEMMA InitEstablishesInv == Init => TaskInv
<1> SUFFICES ASSUME Init PROVE TaskInv
  BY Zenon
<1>1. /\ node \in Node /\ node2worker = {} /\ DOMAIN worker2helper = {} /\ DOMAIN queue_map = {}
      /\ main = "idle" /\ alloc = <<>> /\ spec = NoWorkers /\ next = 1 /\ todo = <<>>
      /\ DOMAIN threads = {} /\ ran = {} /\ tasks = 0
  BY Zenon DEF Init, EmptyMap
<1>2. TypeOK
  <2>1. IsSpec(spec)
    BY <1>1, NoWorkersRight, Zenon
  <2>2. Range(worker2helper) = {} /\ Range(queue_map) = {} /\ Range(threads) = {}
    BY <1>1, Zenon DEF Range
  <2>3. QED
    BY <1>1, <2>1, <2>2 DEF TypeOK, IsSpec
<1>3. SpecRight
  BY <1>1, EmptySpecRight DEF EmptySpec
<1>4. QED
  BY <1>1, <1>2, <1>3, Zenon DEF TaskInv, HelpersRight, FreeRight, AllocateRight, StartRight

\* Engine::Run begins with a new WorkerSpec.
LEMMA RunKeepsInv ==
  ASSUME TaskInv, NEW allocs \in Allocs, Run(allocs)
  PROVE  TaskInv'
<1>1. /\ main = "idle" /\ main' = "WorkerSpec" /\ alloc' = allocs /\ spec' = NoWorkers /\ next' = 1
      /\ tasks' = tasks + 1 /\ ran' = {}
      /\ UNCHANGED <<node, node2worker, worker2helper, queue_map, todo, threads>>
  BY Zenon DEF Run
<1>2. TypeOK /\ node \in Node /\ allocs \in Seq([node_id : Node, num_workers : Nat])
  BY TaskRunnerAssumption, Zenon DEF TaskInv, TypeOK
<1>3. TypeOK'
  <2>1. IsSpec(spec')
    BY <1>1, NoWorkersRight, Zenon
  <2>2. next' \in 1 .. Len(alloc') + 1
    BY <1>1, <1>2
  <2>3. /\ node' \in Node /\ node2worker' \subseteq Nat
        /\ DOMAIN worker2helper' \subseteq Nat /\ Range(worker2helper') \subseteq HelperThreads(node')
        /\ DOMAIN queue_map' \subseteq Nat /\ Range(queue_map') \subseteq HelperThreads(node')
        /\ todo' \in Seq(Nat)
        /\ DOMAIN threads' \subseteq Nat /\ Range(threads') \subseteq {"lambda", "free_helper", "done"}
    BY <1>1, <1>2, Zenon DEF TypeOK
  <2>4. tasks' \in Nat /\ ran' \subseteq Nat \X Nat
    BY <1>1, <1>2 DEF TypeOK
  <2>5. QED
    BY <1>1, <2>1, <2>2, <2>3, <2>4, Zenon DEF TypeOK, IsSpec
<1>4. SpecRight'
  <2>1. EmptySpec'
    BY <1>1, <1>2, Zenon DEF EmptySpec
  <2>2. QED
    BY <2>1, EmptySpecRight, PTL
<1>5. Threads' = <<>>
  BY <1>1, <1>2, NoWorkersRight, Zenon DEF Threads
<1>6. (node2worker \subseteq WorkerIds(node))' /\ HelpersRight'
  BY <1>1, Zenon DEF TaskInv, HelpersRight
<1>7. FreeRight' /\ AllocateRight' /\ StartRight'
  BY <1>1, <1>5, Zenon DEF TaskInv, FreeRight, AllocateRight, StartRight
<1>8. QED
  BY <1>1, <1>3, <1>4, <1>6, <1>7, Zenon DEF TaskInv

\* One turn of the loop of WorkerSpec::Init.
LEMMA NextEntryKeepsInv ==
  ASSUME TaskInv, NextEntry
  PROVE  TaskInv'
<1> DEFINE e == alloc[next]
           n == spec.num_workers
<1>1. /\ main = "WorkerSpec" /\ main' = "WorkerSpec" /\ next <= Len(alloc)
      /\ spec' = Entry(spec, e) /\ next' = next + 1
      /\ UNCHANGED <<node, node2worker, worker2helper, queue_map, alloc, todo, threads,
                     resets, ran, tasks>>
  BY Zenon DEF NextEntry
<1>2. /\ IsSpec(spec) /\ node \in Node /\ Workers \in Seq(Nat) /\ n \in Nat
      /\ alloc \in Seq([node_id : Node, num_workers : Nat]) /\ next \in 1 .. Len(alloc) + 1
  <2>1. TypeOK
    BY Zenon DEF TaskInv
  <2>2. /\ alloc \in Seq([node_id : Node, num_workers : Nat]) /\ next \in 1 .. Len(alloc) + 1
    <3>1. alloc \in Allocs \cup {<<>>} /\ next \in 1 .. Len(alloc) + 1
      BY <2>1, Zenon DEF TypeOK
    <3>2. <<>> \in Seq([node_id : Node, num_workers : Nat])
      OBVIOUS
    <3>3. QED
      BY <3>1, <3>2, TaskRunnerAssumption, Zenon
  <2>3. QED
    BY <2>1, <2>2, SpecTypes, Zenon
<1>3. e \in [node_id : Node, num_workers : Nat] /\ next \in Nat /\ next \in DOMAIN alloc /\ next >= 1
  <2>1. next \in 1 .. Len(alloc)
    BY <1>1, <1>2
  <2>2. e \in [node_id : Node, num_workers : Nat]
    BY <1>2, <2>1, ElementOfSeq, Zenon
  <2>3. next \in Nat /\ next >= 1 /\ next \in DOMAIN alloc
    BY <1>2, <2>1
  <2>4. QED
    BY <2>2, <2>3, Zenon
<1> HIDE DEF e
<1>4. /\ IsSpec(spec')
      /\ spec'.num_workers = n + e.num_workers
      /\ spec'.node_to_threads = spec.node_to_threads
      /\ spec'.node_to_workers[e.node_id] = [i \in 1 .. e.num_workers |-> n + i - 1]
      /\ \A x \in Node \ {e.node_id} : spec'.node_to_workers[x] = spec.node_to_workers[x]
      /\ \A w \in 0 .. n - 1 : spec'.worker_to_node[w] = spec.worker_to_node[w]
      /\ \A w \in n .. n + e.num_workers - 1 : spec'.worker_to_node[w] = e.node_id
  <2>1. IsSpec(spec) /\ spec' = Entry(spec, e)
    BY <1>1, <1>2, Zenon
  <2>2. OneMoreEntry(spec, e, spec')
    BY <1>3, <2>1, EntryCounts, Zenon
  <2>3. QED
    BY <2>2, Zenon DEF OneMoreEntry
<1>5. e.node_id \in Node /\ e.num_workers \in Nat
  BY <1>3, Zenon
<1> HIDE DEF n
<1>6. TypeOK'
  <2>1. next' \in 1 .. Len(alloc') + 1
    BY <1>1, <1>2
  <2>2. QED
    BY <1>1, <1>4, <2>1, Zenon DEF TaskInv, TypeOK, IsSpec
<1>7. SpecRight'
  <2>1. PICK b \in [1 .. next -> 0 .. n] : Counts(b) /\ WorkersFrom(b)
    BY Zenon DEF TaskInv, SpecRight, n
  <2>0. PICK c : c = [i \in 1 .. next + 1 |-> IF i = next + 1 THEN n + e.num_workers ELSE b[i]]
    BY Zenon
  <2>2. /\ c \in [1 .. next' -> 0 .. spec'.num_workers]
        /\ \A i \in 1 .. next : c[i] = b[i]
        /\ c[next + 1] = n + e.num_workers
    <3>1. \A i \in 1 .. next + 1 : i = next + 1 \/ i \in 1 .. next
      BY <1>3
    <3>2. \A i \in 1 .. next : b[i] \in 0 .. n + e.num_workers /\ i # next + 1
      BY <1>2, <1>3, <1>5
    <3>3. n + e.num_workers \in 0 .. n + e.num_workers
      BY <1>2, <1>5
    <3>4. next + 1 \in 1 .. next + 1 /\ \A i \in 1 .. next : i \in 1 .. next + 1
      BY <1>3
    <3>5. QED
      BY <1>1, <1>4, <2>0, <3>1, <3>2, <3>3, <3>4, Zenon
  <2>3. /\ b[1] = 0 /\ b[next] = n
        /\ \A i \in 1 .. next - 1 : b[i + 1] = b[i] + alloc[i].num_workers
    BY <2>1, Zenon DEF Counts, n
  <2>4. Counts(c)'
    <3>1. c[1] = 0 /\ c[next'] = spec'.num_workers
      BY <1>1, <1>3, <1>4, <2>2, <2>3
    <3>2. ASSUME NEW i \in 1 .. next PROVE c[i + 1] = c[i] + alloc[i].num_workers
      <4>1. CASE i = next
        BY <1>3, <2>2, <2>3, <4>1, Zenon DEF e
      <4>2. CASE i \in 1 .. next - 1
        <5>1. i + 1 \in 1 .. next
          BY <1>3, <4>2
        <5>2. QED
          BY <2>2, <2>3, <4>2, <5>1, Zenon
      <4>3. QED
        BY <1>3, <4>1, <4>2
    <3>3. next' - 1 = next
      BY <1>1, <1>3
    <3>4. QED
      BY <1>1, <3>1, <3>2, <3>3, Zenon DEF Counts
  <2>5. WorkersFrom(c)'
    <3>1. EntriesHere' = IF e.node_id = node THEN EntriesHere \cup {next} ELSE EntriesHere
      BY <1>1, <1>3 DEF EntriesHere, e
    <3>2. CASE e.node_id = node
      <4>1. next \in EntriesHere' /\ \A i \in EntriesHere' : i <= next
        BY <1>1, <1>3, <3>2 DEF EntriesHere, e
      <4>2. Workers' = [i \in 1 .. e.num_workers |-> n + i - 1]
        BY <1>1, <1>4, <3>2, Zenon DEF Workers
      <4>3. c[next] = n
        BY <1>3, <2>2, <2>3
      <4>4. Workers' = [i \in 1 .. alloc'[next].num_workers |-> c[next] + i - 1]
        BY <1>1, <4>2, <4>3, Zenon DEF e
      <4>5. QED
        BY <4>1, <4>4, Zenon DEF WorkersFrom
    <3>3. CASE e.node_id # node
      <4>1. Workers' = Workers /\ EntriesHere' = EntriesHere
        BY <1>1, <1>2, <1>4, <3>1, <3>3, Zenon DEF Workers
      <4>2. CASE EntriesHere = {}
        BY <2>1, <4>1, <4>2, Zenon DEF WorkersFrom
      <4>3. CASE EntriesHere # {}
        <5>1. PICK j \in EntriesHere :
                /\ \A i \in EntriesHere : i <= j
                /\ Workers = [i \in 1 .. alloc[j].num_workers |-> b[j] + i - 1]
          BY <2>1, <4>3, Zenon DEF WorkersFrom
        <5>2. c[j] = b[j]
          BY <1>3, <2>2 DEF EntriesHere
        <5>3. Workers' = [i \in 1 .. alloc'[j].num_workers |-> c[j] + i - 1]
          BY <1>1, <4>1, <5>1, <5>2, Zenon
        <5>4. QED
          BY <4>1, <4>3, <5>1, <5>3, Zenon DEF WorkersFrom
      <4>4. QED
        BY <4>2, <4>3, Zenon
    <3>4. QED
      BY <3>2, <3>3, Zenon
  <2>6. /\ \A i \in DOMAIN Workers' : /\ Workers'[i] \in 0 .. spec'.num_workers - 1
                                      /\ spec'.worker_to_node[Workers'[i]] = node
        /\ Distinct(Workers)'
    <3>1. CASE e.node_id = node
      <4>1. Workers' = [i \in 1 .. e.num_workers |-> n + i - 1]
        BY <1>1, <1>4, <3>1, Zenon DEF Workers
      <4>2. \A i \in 1 .. e.num_workers : n + i - 1 \in n .. n + e.num_workers - 1
        BY <1>2, <1>5
      <4>3. \A i \in 1 .. e.num_workers : n + i - 1 \in 0 .. spec'.num_workers - 1
        BY <1>2, <1>4, <1>5
      <4>4. \A i, j \in 1 .. e.num_workers : n + i - 1 = n + j - 1 => i = j
        BY <1>2, <1>5
      <4>5. DOMAIN Workers' = 1 .. e.num_workers /\ \A i \in 1 .. e.num_workers : Workers'[i] = n + i - 1
        BY <4>1, Zenon
      <4>6. \A i \in 1 .. e.num_workers : spec'.worker_to_node[n + i - 1] = node
        BY <1>4, <3>1, <4>2, Zenon
      <4>7. Distinct(Workers)'
        BY <4>4, <4>5, Zenon DEF Distinct
      <4>8. QED
        BY <4>3, <4>5, <4>6, <4>7, Zenon
    <3>2. CASE e.node_id # node
      <4>1. Workers' = Workers
        BY <1>1, <1>2, <1>4, <3>2, Zenon DEF Workers
      <4>2. \A i \in DOMAIN Workers : /\ Workers[i] \in 0 .. n - 1
                                      /\ spec.worker_to_node[Workers[i]] = node
        BY Zenon DEF TaskInv, SpecRight, n
      <4>3. \A i \in DOMAIN Workers : /\ Workers[i] \in 0 .. spec'.num_workers - 1
                                      /\ spec'.worker_to_node[Workers[i]] = node
        <5>1. \A w \in 0 .. n - 1 : w \in 0 .. spec'.num_workers - 1
          BY <1>2, <1>4, <1>5
        <5>2. QED
          BY <1>4, <4>2, <5>1, Zenon
      <4>4. Distinct(Workers)
        BY Zenon DEF TaskInv, SpecRight
      <4>5. QED
        BY <4>1, <4>3, <4>4, Zenon DEF Distinct
    <3>3. QED
      BY <3>1, <3>2, Zenon
  <2>7. QED
    BY <1>1, <2>2, <2>4, <2>5, <2>6, Zenon DEF SpecRight
<1>8. Threads' = Threads
  BY <1>1, <1>4, Zenon DEF Threads
<1>9. (node2worker \subseteq WorkerIds(node))' /\ HelpersRight'
  BY <1>1, Zenon DEF TaskInv, HelpersRight
<1>10. FreeRight' /\ AllocateRight' /\ StartRight'
  BY <1>1, <1>8, Zenon DEF TaskInv, FreeRight, AllocateRight, StartRight
<1>11. QED
  BY <1>1, <1>6, <1>7, <1>9, <1>10, Zenon DEF TaskInv

\* WorkerSpec::Init is done, and AllocateWorkers begins.
LEMMA SpecDoneKeepsInv ==
  ASSUME TaskInv, SpecDone
  PROVE  TaskInv'
<1>1. /\ main = "WorkerSpec" /\ main' = "AllocateWorkers" /\ next > Len(alloc)
      /\ todo' = Workers
      /\ UNCHANGED <<node, node2worker, worker2helper, queue_map, alloc, spec, next, threads,
                     resets, ran, tasks>>
  BY Zenon DEF SpecDone, Workers
<1>2. /\ TypeOK /\ Workers \in Seq(Nat) /\ Threads = <<>>
      /\ node2worker = {} /\ DOMAIN worker2helper = {} /\ DOMAIN threads = {} /\ ran = {}
  BY <1>1, SpecTypes, Zenon DEF TaskInv, FreeRight
<1>3. TypeOK'
  BY <1>1, <1>2, Zenon DEF TypeOK
<1>4. SpecRight'
  <2>1. next = Len(alloc) + 1
    BY <1>1, <1>2 DEF TypeOK
  <2>2. QED
    BY <1>1, <2>1, SpecRightKept, Zenon DEF TaskInv
<1>5. Threads' = <<>> /\ Workers' = Workers
  BY <1>1, <1>2, Zenon DEF Threads, Workers
<1>6. AllocateRight'
  <2>1. Distinct(Threads)' /\ node2worker' = Range(Threads')
    BY <1>1, <1>2, <1>5 DEF Distinct, Range
  <2>2. Len(Threads') = 0 /\ Len(Threads') + Len(todo') = Len(Workers')
    BY <1>1, <1>2, <1>5
  <2>3. \A j \in DOMAIN todo' : todo'[j] = Workers'[Len(Threads') + j]
    <3>1. DOMAIN todo' = 1 .. Len(Workers) /\ Len(Workers) \in Nat
      BY <1>1, <1>2
    <3>2. \A j \in 1 .. Len(Workers) : Len(Threads') + j = j
      BY <2>2, <3>1
    <3>3. QED
      BY <1>1, <1>5, <3>1, <3>2, Zenon
  <2>4. QED
    BY <1>1, <1>2, <2>1, <2>2, <2>3, Zenon DEF AllocateRight
<1>7. (node2worker \subseteq WorkerIds(node))' /\ HelpersRight'
  BY <1>1, <1>2, Zenon DEF HelpersRight
<1>8. FreeRight' /\ StartRight'
  BY <1>1, Zenon DEF FreeRight, StartRight
<1>9. QED
  BY <1>1, <1>3, <1>4, <1>6, <1>7, <1>8, Zenon DEF TaskInv

\* A turn of AllocateWorkers' loop gives the next worker of this node a thread.
ThreadForNext(tid) ==
  /\ main = "AllocateWorkers" /\ todo # <<>>
  /\ tid \in FreeIds
  /\ spec' = InsertWorkerIdThreadId(spec, Head(todo), tid)
  /\ todo' = Tail(todo)
  /\ node2worker' = node2worker \cup {tid}
  /\ UNCHANGED <<node, alloc, next, threads, resets, ran, tasks>>

\* Such a turn keeps the threads apart and in the order of the workers.
LEMMA ThreadForNextRight ==
  ASSUME TaskInv, NEW tid, ThreadForNext(tid), DOMAIN worker2helper' \subseteq node2worker'
  PROVE  /\ tid \in Nat /\ tid \notin node2worker
         /\ IsSpec(spec') /\ todo' \in Seq(Nat) /\ node2worker' \subseteq Nat
         /\ (node2worker \subseteq WorkerIds(node))'
         /\ main' # "WorkerSpec" => SpecRight'
         /\ AllocateRight'
<1>1. /\ main = "AllocateWorkers" /\ todo # <<>> /\ tid \in WorkerIds(node) \ node2worker
      /\ spec' = InsertWorkerIdThreadId(spec, Head(todo), tid)
      /\ todo' = Tail(todo)
      /\ node2worker' = node2worker \cup {tid}
      /\ UNCHANGED <<node, alloc, next, threads, resets, ran, tasks>>
  BY Zenon DEF ThreadForNext, FreeIds
<1>2. /\ TypeOK /\ IsSpec(spec) /\ node \in Node /\ todo \in Seq(Nat)
      /\ Workers \in Seq(Nat) /\ Threads \in Seq(Nat)
  BY SpecTypes, Zenon DEF TaskInv, TypeOK
<1>3. tid \in Nat /\ node2worker \subseteq Nat
  BY <1>1, <1>2, IdsApart, Zenon DEF TypeOK
<1>4. /\ DOMAIN threads = {} /\ ran = {}
      /\ Distinct(Threads) /\ node2worker = Range(Threads)
      /\ Len(Threads) + Len(todo) = Len(Workers)
      /\ \A j \in DOMAIN todo : todo[j] = Workers[Len(Threads) + j]
  BY <1>1, Zenon DEF TaskInv, AllocateRight
<1>5. /\ Len(todo) \in Nat /\ Len(todo) > 0 /\ DOMAIN todo = 1 .. Len(todo)
      /\ Len(Threads) \in Nat /\ Len(Workers) \in Nat /\ DOMAIN Workers = 1 .. Len(Workers)
      /\ DOMAIN Threads = 1 .. Len(Threads)
      /\ Head(todo) = todo[1]
      /\ Tail(todo) \in Seq(Nat) /\ Len(Tail(todo)) = Len(todo) - 1
      /\ DOMAIN Tail(todo) = 1 .. Len(todo) - 1
      /\ \A j \in 1 .. Len(todo) - 1 : Tail(todo)[j] = todo[j + 1]
  BY <1>1, <1>2
<1>6. /\ Head(todo) \in 0 .. spec.num_workers - 1
      /\ spec.worker_to_node[Head(todo)] = node
  <2>1. Head(todo) = Workers[Len(Threads) + 1] /\ Len(Threads) + 1 \in DOMAIN Workers
    BY <1>4, <1>5
  <2>2. QED
    BY <2>1, Zenon DEF TaskInv, SpecRight
<1>7. /\ IsSpec(spec')
      /\ spec'.num_workers = spec.num_workers
      /\ spec'.node_to_workers = spec.node_to_workers
      /\ spec'.worker_to_node = spec.worker_to_node
      /\ spec'.node_to_threads[node] = Append(Threads, tid)
  <2> DEFINE h == Head(todo)
  <2>1. h \in 0 .. spec.num_workers - 1 /\ spec.worker_to_node[h] = node
    BY <1>6, Zenon
  <2> HIDE DEF h
  <2>2. /\ IsSpec(InsertWorkerIdThreadId(spec, h, tid))
        /\ InsertWorkerIdThreadId(spec, h, tid).num_workers = spec.num_workers
        /\ InsertWorkerIdThreadId(spec, h, tid).node_to_workers = spec.node_to_workers
        /\ InsertWorkerIdThreadId(spec, h, tid).worker_to_node = spec.worker_to_node
        /\ InsertWorkerIdThreadId(spec, h, tid).node_to_threads[node]
             = Append(spec.node_to_threads[node], tid)
    BY <1>2, <1>3, <2>1, InsertAppends, Zenon
  <2>3. spec' = InsertWorkerIdThreadId(spec, h, tid)
    BY <1>1, Zenon DEF h
  <2>4. QED
    BY <2>2, <2>3, Zenon DEF Threads
<1>8. Workers' = Workers /\ Threads' = Append(Threads, tid)
  BY <1>1, <1>7, Zenon DEF Workers, Threads
<1>9. /\ DOMAIN Threads' = 1 .. Len(Threads) + 1 /\ Len(Threads') = Len(Threads) + 1
      /\ Threads'[Len(Threads) + 1] = tid
      /\ \A j \in 1 .. Len(Threads) : Threads'[j] = Threads[j]
  BY <1>2, <1>3, <1>8
<1>10. main' # "WorkerSpec" => SpecRight'
  BY <1>1, <1>7, SpecRightKept, Zenon DEF TaskInv
<1>11. (node2worker \subseteq WorkerIds(node))'
  BY <1>1, Zenon DEF TaskInv
<1>12. Distinct(Threads') /\ node2worker' = Range(Threads')
  <2>1. Distinct(Append(Threads, tid)) /\ Range(Append(Threads, tid)) = Range(Threads) \cup {tid}
    BY <1>1, <1>2, <1>3, <1>4, AppendDistinct, Zenon
  <2>2. QED
    BY <1>1, <1>4, <1>8, <2>1, Zenon
<1>13. /\ Len(Threads') + Len(todo') = Len(Workers')
       /\ \A j \in DOMAIN todo' : todo'[j] = Workers'[Len(Threads') + j]
  <2>1. Len(Threads') + Len(todo') = Len(Workers')
    BY <1>1, <1>4, <1>5, <1>8, <1>9
  <2>2. ASSUME NEW j \in DOMAIN todo' PROVE todo'[j] = Workers'[Len(Threads') + j]
    <3>1. j \in 1 .. Len(todo) - 1 /\ todo'[j] = todo[j + 1]
      BY <1>1, <1>5, Zenon
    <3>2. j + 1 \in DOMAIN todo /\ Len(Threads) + (j + 1) = Len(Threads') + j
      <4>1. j \in Nat /\ Len(Threads') = Len(Threads) + 1
        BY <1>9, <3>1
      <4>2. Len(Threads) + (j + 1) = Len(Threads') + j
        BY <1>5, <4>1
      <4>3. QED
        BY <1>5, <3>1, <4>1, <4>2
    <3>3. QED
      BY <1>4, <1>8, <3>1, <3>2, Zenon
  <2>3. QED
    BY <2>1, <2>2, Zenon
<1>14. AllocateRight'
  BY <1>1, <1>4, <1>12, <1>13, Zenon DEF AllocateRight, Distinct
<1>15. QED
  BY <1>1, <1>3, <1>5, <1>7, <1>10, <1>11, <1>14, Zenon

\* TypeOK of what a turn of AllocateWorkers' loop changes.
LEMMA AllocateTypes ==
  ASSUME TypeOK, IsSpec(spec'), todo' \in Seq(Nat), node2worker' \subseteq Nat,
         main' \in {"AllocateWorkers", "terminated"},
         (/\ DOMAIN worker2helper \subseteq Nat /\ Range(worker2helper) \subseteq HelperThreads(node))',
         (/\ DOMAIN queue_map \subseteq Nat /\ Range(queue_map) \subseteq HelperThreads(node))',
         UNCHANGED <<node, alloc, next, threads, resets, ran, tasks>>
  PROVE  TypeOK'
BY Zenon DEF TypeOK, IsSpec

\* AllocateWorkerThread finds an id and a helper, whose queue RegisterQueue
\* accepts or not.
LEMMA BindWorkerKeepsInv ==
  ASSUME TaskInv, BindWorker
  PROVE  TaskInv'
<1> DEFINE tid == Min(FreeIds)
           helper == Min(FreeHelpers)
<1>1. /\ main = "AllocateWorkers" /\ FreeIds # {} /\ FreeHelpers # {} /\ todo # <<>>
      /\ worker2helper' = Put(worker2helper, tid, helper)
      /\ node2worker' = node2worker \cup {tid}
      /\ spec' = InsertWorkerIdThreadId(spec, Head(todo), tid)
      /\ todo' = Tail(todo)
      /\ \/ tid \notin DOMAIN queue_map /\ queue_map' = Put(queue_map, tid, helper) /\ main' = main
         \/ main' = "terminated" /\ queue_map' = queue_map
      /\ UNCHANGED <<node, alloc, next, threads, resets, ran, tasks>>
  BY Zenon DEF BindWorker
<1>2. TypeOK /\ node \in Node
  BY Zenon DEF TaskInv, TypeOK
<1>3. tid \in FreeIds /\ helper \in FreeHelpers
  <2>1. FreeIds \in SUBSET Nat /\ FreeHelpers \in SUBSET Nat
    BY <1>2, IdsApart, Zenon DEF FreeIds, FreeHelpers
  <2>2. QED
    BY <1>1, <2>1, MinIsLeast, Zenon
<1>4. /\ helper \in HelperThreads(node) /\ helper \notin Range(worker2helper)
      /\ DOMAIN worker2helper \subseteq node2worker /\ DOMAIN threads = {}
  BY <1>1, <1>3, Zenon DEF FreeHelpers, TaskInv, AllocateRight
<1> HIDE DEF tid, helper
<1>5. ThreadForNext(tid)
  BY <1>1, <1>3, Zenon DEF ThreadForNext
<1>6. /\ DOMAIN worker2helper' = DOMAIN worker2helper \cup {tid}
      /\ worker2helper'[tid] = helper
      /\ \A t \in DOMAIN worker2helper : t # tid => worker2helper'[t] = worker2helper[t]
      /\ Range(worker2helper') \subseteq Range(worker2helper) \cup {helper}
  <2>1. IsPut(worker2helper, tid, helper, worker2helper')
    BY <1>1, PutMaps, Zenon
  <2>2. QED
    BY <2>1, Zenon DEF IsPut
<1>7. /\ tid \in Nat /\ tid \notin node2worker
      /\ IsSpec(spec') /\ todo' \in Seq(Nat) /\ node2worker' \subseteq Nat
      /\ (node2worker \subseteq WorkerIds(node))'
      /\ main' # "WorkerSpec" => SpecRight'
      /\ AllocateRight'
  <2>1. DOMAIN worker2helper' \subseteq node2worker'
    BY <1>1, <1>4, <1>6, Zenon
  <2>2. QED
    BY <1>5, <2>1, ThreadForNextRight, Zenon
<1>8. main' \in {"AllocateWorkers", "terminated"}
  BY <1>1, Zenon
<1>9. queue_map' # queue_map => /\ tid \notin DOMAIN queue_map
                                /\ DOMAIN queue_map' = DOMAIN queue_map \cup {tid}
                                /\ queue_map'[tid] = helper
                                /\ \A t \in DOMAIN queue_map : t # tid => queue_map'[t] = queue_map[t]
                                /\ Range(queue_map') \subseteq Range(queue_map) \cup {helper}
  <2>1. queue_map' # queue_map =>
          tid \notin DOMAIN queue_map /\ IsPut(queue_map, tid, helper, queue_map')
    BY <1>1, PutMaps, Zenon
  <2>2. QED
    BY <2>1, Zenon DEF IsPut
<1>10. TypeOK'
  <2>1. /\ DOMAIN worker2helper \subseteq Nat /\ Range(worker2helper) \subseteq HelperThreads(node)
        /\ DOMAIN queue_map \subseteq Nat /\ Range(queue_map) \subseteq HelperThreads(node)
    BY <1>2, Zenon DEF TypeOK
  <2>2. (/\ DOMAIN worker2helper \subseteq Nat /\ Range(worker2helper) \subseteq HelperThreads(node))'
    BY <1>1, <1>4, <1>6, <1>7, <2>1, Zenon
  <2>3. (/\ DOMAIN queue_map \subseteq Nat /\ Range(queue_map) \subseteq HelperThreads(node))'
    BY <1>1, <1>4, <1>7, <1>9, <2>1, Zenon
  <2>4. QED
    BY <1>1, <1>2, <1>7, <1>8, <2>2, <2>3, AllocateTypes, Zenon
<1>11. HelpersRight'
  <2>1. tid \notin DOMAIN worker2helper
    BY <1>4, <1>7, Zenon
  <2>2. \A t \in DOMAIN worker2helper : worker2helper[t] # helper
    BY <1>4, Zenon DEF Range
  <2>3. \A t, u \in DOMAIN worker2helper' : worker2helper'[t] = worker2helper'[u] => t = u
    BY <1>6, <2>1, <2>2, Zenon DEF TaskInv, HelpersRight
  <2>4. ASSUME main' # "terminated", NEW t \in DOMAIN worker2helper'
        PROVE  t \in DOMAIN queue_map' /\ queue_map'[t] = worker2helper'[t]
    <3>1. /\ tid \notin DOMAIN queue_map /\ DOMAIN queue_map' = DOMAIN queue_map \cup {tid}
          /\ queue_map'[tid] = helper
          /\ \A x \in DOMAIN queue_map : x # tid => queue_map'[x] = queue_map[x]
      <4>1. tid \notin DOMAIN queue_map /\ IsPut(queue_map, tid, helper, queue_map')
        BY <1>1, <2>4, PutMaps, Zenon
      <4>2. QED
        BY <4>1, Zenon DEF IsPut
    <3>2. \A x \in DOMAIN worker2helper : x \in DOMAIN queue_map /\ queue_map[x] = worker2helper[x]
      BY <1>1, Zenon DEF TaskInv, HelpersRight
    <3>3. CASE t = tid
      BY <1>6, <3>1, <3>3, Zenon
    <3>4. CASE t # tid
      BY <1>6, <3>1, <3>2, <3>4, Zenon
    <3>5. QED
      BY <3>3, <3>4, Zenon
  <2>5. QED
    BY <2>3, <2>4, Zenon DEF HelpersRight
<1>12. FreeRight' /\ StartRight'
  BY <1>8, Zenon DEF FreeRight, StartRight
<1>13. SpecRight' /\ DOMAIN threads' = {}
  BY <1>1, <1>4, <1>7, <1>8, Zenon
<1>14. QED
  BY <1>7, <1>10, <1>11, <1>12, <1>13, Zenon DEF TaskInv

\* AllocateWorkerThread finds no id.
LEMMA NoFreeIdKeepsInv ==
  ASSUME TaskInv, NoFreeId
  PROVE  TaskInv'
<1>1. /\ main = "AllocateWorkers" /\ main' = "terminated"
      /\ UNCHANGED <<node, node2worker, worker2helper, queue_map, alloc, spec, next, todo,
                     threads, resets, ran, tasks>>
  BY Zenon DEF NoFreeId
<1>2. TypeOK'
  BY <1>1, Zenon DEF TaskInv, TypeOK
<1>3. SpecRight'
  BY <1>1, SpecRightKept, Zenon DEF TaskInv
<1>4. (node2worker \subseteq WorkerIds(node))' /\ HelpersRight' /\ DOMAIN threads' = {}
  BY <1>1, Zenon DEF TaskInv, HelpersRight, AllocateRight
<1>5. FreeRight' /\ AllocateRight' /\ StartRight'
  BY <1>1, Zenon DEF FreeRight, AllocateRight, StartRight
<1>6. QED
  BY <1>2, <1>3, <1>4, <1>5, Zenon DEF TaskInv

\* AllocateHelperForWorker finds no helper, and answers anything.
LEMMA NoFreeHelperKeepsInv ==
  ASSUME TaskInv, NoFreeHelper
  PROVE  TaskInv'
<1> DEFINE tid == Min(FreeIds)
<1>1. /\ main = "AllocateWorkers" /\ FreeIds # {} /\ todo # <<>>
      /\ UNCHANGED <<node, worker2helper, queue_map, alloc, next, threads, resets, ran, tasks>>
  BY Zenon DEF NoFreeHelper
<1>2. CASE main' = "terminated" /\ UNCHANGED <<node2worker, spec, todo>>
  <2>1. TypeOK'
    BY <1>1, <1>2, Zenon DEF TaskInv, TypeOK
  <2>2. SpecRight'
    BY <1>1, <1>2, SpecRightKept, Zenon DEF TaskInv
  <2>3. (node2worker \subseteq WorkerIds(node))' /\ HelpersRight' /\ DOMAIN threads' = {}
    BY <1>1, <1>2, Zenon DEF TaskInv, HelpersRight, AllocateRight
  <2>4. FreeRight' /\ AllocateRight' /\ StartRight'
    BY <1>2, Zenon DEF FreeRight, AllocateRight, StartRight
  <2>5. QED
    BY <2>1, <2>2, <2>3, <2>4, Zenon DEF TaskInv
<1>3. CASE /\ node2worker' = node2worker \cup {tid}
           /\ spec' = InsertWorkerIdThreadId(spec, Head(todo), tid)
           /\ todo' = Tail(todo) /\ main' = main
  <2>1. TypeOK /\ node \in Node /\ DOMAIN worker2helper \subseteq node2worker
    BY <1>1, Zenon DEF TaskInv, TypeOK, AllocateRight
  <2>2. tid \in FreeIds
    <3>1. FreeIds \in SUBSET Nat
      BY <2>1, IdsApart, Zenon DEF FreeIds
    <3>2. QED
      BY <1>1, <3>1, MinIsLeast, Zenon
  <2> HIDE DEF tid
  <2>3. ThreadForNext(tid) /\ DOMAIN worker2helper' \subseteq node2worker'
    BY <1>1, <1>3, <2>1, <2>2, Zenon DEF ThreadForNext
  <2>4. /\ IsSpec(spec') /\ todo' \in Seq(Nat) /\ node2worker' \subseteq Nat
        /\ (node2worker \subseteq WorkerIds(node))'
        /\ main' # "WorkerSpec" => SpecRight'
        /\ AllocateRight'
    BY <2>3, ThreadForNextRight, Zenon
  <2>5. TypeOK'
    <3>1. /\ (DOMAIN worker2helper \subseteq Nat /\ Range(worker2helper) \subseteq HelperThreads(node))'
          /\ (DOMAIN queue_map \subseteq Nat /\ Range(queue_map) \subseteq HelperThreads(node))'
          /\ main' \in {"AllocateWorkers", "terminated"}
      BY <1>1, <1>3, <2>1, Zenon DEF TypeOK
    <3>2. QED
      BY <1>1, <2>1, <2>4, <3>1, AllocateTypes, Zenon
  <2>6. HelpersRight' /\ DOMAIN threads' = {}
    BY <1>1, <1>3, Zenon DEF TaskInv, HelpersRight, AllocateRight
  <2>7. FreeRight' /\ StartRight' /\ main' # "WorkerSpec"
    BY <1>1, <1>3, Zenon DEF FreeRight, StartRight
  <2>8. QED
    BY <2>4, <2>5, <2>6, <2>7, Zenon DEF TaskInv
<1>4. QED
  BY <1>2, <1>3, Zenon DEF NoFreeHelper

\* AllocateWorkers is done: Run returns, or pushes the reset messages and
\* begins to start threads.
LEMMA WorkersAllocatedKeepsInv ==
  ASSUME TaskInv, WorkersAllocated
  PROVE  TaskInv'
<1>1. /\ main = "AllocateWorkers" /\ todo = <<>>
      /\ \/ Workers = <<>> /\ main' = "idle" /\ UNCHANGED <<resets, todo>>
         \/ Workers # <<>> /\ main' = "start" /\ resets' = InitTable(Threads) /\ todo' = Threads
      /\ UNCHANGED <<node, node2worker, worker2helper, queue_map, alloc, spec, next, threads,
                     ran, tasks>>
  BY Zenon DEF WorkersAllocated, Workers, Threads
<1>2. /\ TypeOK /\ Workers \in Seq(Nat) /\ Threads \in Seq(Nat)
      /\ DOMAIN threads = {} /\ ran = {}
      /\ Distinct(Threads) /\ node2worker = Range(Threads)
      /\ DOMAIN worker2helper \subseteq node2worker
      /\ Len(Threads) + Len(todo) = Len(Workers)
  BY <1>1, SpecTypes, Zenon DEF TaskInv, AllocateRight
<1>3. Len(Threads) = Len(Workers) /\ Len(Threads) \in Nat /\ DOMAIN Threads = 1 .. Len(Threads)
  BY <1>1, <1>2
<1>4. Workers' = Workers /\ Threads' = Threads /\ InitTable(Threads)' = InitTable(Threads)
  BY <1>1, Zenon DEF Workers, Threads, InitTable, Node, ServerThreads, IdBase
<1>5. TypeOK'
  BY <1>1, <1>2, Zenon DEF TypeOK
<1>6. SpecRight'
  BY <1>1, SpecRightKept, Zenon DEF TaskInv
<1>7. (node2worker \subseteq WorkerIds(node))' /\ HelpersRight'
  BY <1>1, Zenon DEF TaskInv, HelpersRight
<1>8. CASE Workers = <<>> /\ main' = "idle"
  <2>1. Threads = <<>>
    BY <1>2, <1>3, <1>8
  <2>2. node2worker = {} /\ DOMAIN worker2helper = {}
    <3>1. DOMAIN Threads = {}
      BY <2>1
    <3>2. Range(Threads) = {}
      BY <3>1, Zenon DEF Range
    <3>3. QED
      BY <1>2, <3>2, Zenon
  <2>3. FreeRight' /\ AllocateRight' /\ StartRight'
    BY <1>1, <1>2, <1>8, <2>2, Zenon DEF FreeRight, AllocateRight, StartRight
  <2>4. QED
    BY <1>5, <1>6, <1>7, <1>8, <2>3, Zenon DEF TaskInv
<1>9. CASE main' = "start" /\ resets' = InitTable(Threads) /\ todo' = Threads
  <2>1. Len(todo') = Len(Threads) /\ Started' = 0
    BY <1>3, <1>4, <1>9 DEF Started
  <2>2. \A j \in DOMAIN todo' : todo'[j] = Threads'[Started' + j]
    <3>1. DOMAIN todo' = 1 .. Len(Threads) /\ \A j \in 1 .. Len(Threads) : Started' + j = j
      BY <1>3, <1>9, <2>1
    <3>2. QED
      BY <1>4, <1>9, <3>1, Zenon
  <2>3. DOMAIN threads' = {Threads'[j] : j \in 1 .. Started'} /\ Running' = {}
    BY <1>1, <1>2, <2>1 DEF Running
  <2>4. node2worker' = {Threads'[j] : j \in Started' + 1 .. Len(Threads')} \cup Running'
    <3>1. Range(Threads) = {Threads[j] : j \in 1 .. Len(Threads)}
      BY <1>3, Zenon DEF Range
    <3>2. Started' + 1 = 1
      BY <2>1
    <3>3. QED
      BY <1>1, <1>2, <1>4, <2>3, <3>1, <3>2, Zenon
  <2>5. ran' = {<<Workers'[j], Threads'[j]>> : j \in 1 .. Started'}
    BY <1>1, <1>2, <2>1
  <2>6. Distinct(Threads)' /\ Len(Threads') = Len(Workers') /\ Len(todo') <= Len(Threads')
    BY <1>2, <1>3, <1>4, <2>1 DEF Distinct
  <2>7. \A t \in DOMAIN worker2helper' \ node2worker' :
          t \in DOMAIN threads' /\ threads'[t] = "free_helper"
    BY <1>1, <1>2, Zenon
  <2>8. StartRight'
    BY <1>4, <1>9, <2>2, <2>3, <2>4, <2>5, <2>6, <2>7, Zenon DEF StartRight
  <2>9. FreeRight' /\ AllocateRight'
    BY <1>9, Zenon DEF FreeRight, AllocateRight
  <2>10. QED
    BY <1>5, <1>6, <1>7, <1>9, <2>8, <2>9, Zenon DEF TaskInv
<1>10. QED
  BY <1>1, <1>8, <1>9, Zenon

\* Run starts the thread of the next worker.
LEMMA StartThreadKeepsInv ==
  ASSUME TaskInv, StartThread
  PROVE  TaskInv'
<1> DEFINE t == Head(todo)
           k == Started + 1
<1>1. /\ main = "start" /\ todo # <<>>
      /\ threads' = Put(threads, t, "lambda")
      /\ ran' = ran \cup {<<Workers[Len(Workers) - Len(todo) + 1], t>>}
      /\ todo' = Tail(todo)
      /\ UNCHANGED <<node, node2worker, worker2helper, queue_map, main, alloc, spec, next,
                     resets, tasks>>
  BY Zenon DEF StartThread, Workers
<1>2. /\ TypeOK /\ Workers \in Seq(Nat) /\ Threads \in Seq(Nat) /\ todo \in Seq(Nat)
      /\ Distinct(Threads) /\ Len(Threads) = Len(Workers) /\ Len(todo) <= Len(Threads)
      /\ \A j \in DOMAIN todo : todo[j] = Threads[Started + j]
      /\ DOMAIN threads = {Threads[j] : j \in 1 .. Started}
      /\ node2worker = {Threads[j] : j \in Started + 1 .. Len(Threads)} \cup Running
      /\ \A x \in DOMAIN worker2helper \ node2worker :
           x \in DOMAIN threads /\ threads[x] = "free_helper"
      /\ ran = {<<Workers[j], Threads[j]>> : j \in 1 .. Started}
      /\ resets = InitTable(Threads)
  <2>1. TypeOK /\ todo \in Seq(Nat)
    BY Zenon DEF TaskInv, TypeOK
  <2>2. QED
    BY <1>1, <2>1, SpecTypes, Zenon DEF TaskInv, StartRight
<1>3. /\ Len(todo) \in Nat /\ Len(todo) >= 1 /\ DOMAIN todo = 1 .. Len(todo) /\ t = todo[1] /\ t \in Nat
      /\ Len(Threads) \in Nat /\ Started \in Nat /\ k \in 1 .. Len(Threads)
      /\ DOMAIN Threads = 1 .. Len(Threads) /\ DOMAIN Workers = 1 .. Len(Threads)
      /\ Tail(todo) \in Seq(Nat) /\ Len(Tail(todo)) = Len(todo) - 1
      /\ DOMAIN Tail(todo) = 1 .. Len(todo) - 1
      /\ \A j \in 1 .. Len(todo) - 1 : Tail(todo)[j] = todo[j + 1]
  <2>1. /\ todo \in Seq(Nat) /\ Threads \in Seq(Nat) /\ Workers \in Seq(Nat) /\ todo # <<>>
        /\ Len(Threads) = Len(Workers) /\ Len(todo) <= Len(Threads)
    BY <1>1, <1>2, Zenon
  <2>2. /\ Len(todo) \in Nat /\ Len(todo) >= 1 /\ DOMAIN todo = 1 .. Len(todo) /\ t = todo[1] /\ t \in Nat
        /\ Len(Threads) \in Nat /\ DOMAIN Threads = 1 .. Len(Threads) /\ DOMAIN Workers = 1 .. Len(Threads)
        /\ Tail(todo) \in Seq(Nat) /\ Len(Tail(todo)) = Len(todo) - 1
        /\ DOMAIN Tail(todo) = 1 .. Len(todo) - 1
        /\ \A j \in 1 .. Len(todo) - 1 : Tail(todo)[j] = todo[j + 1]
    BY <2>1
  <2>3. Started \in Nat /\ k \in 1 .. Len(Threads)
    BY <2>1, <2>2 DEF Started
  <2>4. QED
    BY <2>2, <2>3, Zenon
<1>4. t = Threads[k] /\ Len(Workers) - Len(todo) + 1 = k
  <2>1. 1 \in DOMAIN todo /\ \A j \in DOMAIN todo : todo[j] = Threads[Started + j]
    BY <1>2, <1>3
  <2>2. Len(Workers) - Len(todo) + 1 = k
    BY <1>2, <1>3, Zenon DEF Started
  <2>3. QED
    BY <1>3, <2>1, <2>2, Zenon
<1> HIDE DEF t
<1>5. Workers' = Workers /\ Threads' = Threads /\ InitTable(Threads)' = InitTable(Threads)
  BY <1>1, Zenon DEF Workers, Threads, InitTable, Node, ServerThreads, IdBase
<1>6. Started' = k /\ Started' \in Nat
  BY <1>1, <1>3, <1>5 DEF Started
<1> HIDE DEF k
<1>7. /\ DOMAIN threads' = DOMAIN threads \cup {t}
      /\ threads'[t] = "lambda"
      /\ \A z \in DOMAIN threads : z # t => threads'[z] = threads[z]
      /\ Range(threads') \subseteq Range(threads) \cup {"lambda"}
  <2>1. IsPut(threads, t, "lambda", threads')
    BY <1>1, PutMaps, Zenon
  <2>2. QED
    BY <2>1, Zenon DEF IsPut
<1>8. t \notin DOMAIN threads
  <2>1. ASSUME NEW j \in 1 .. Started PROVE Threads[j] # t
    <3>1. j \in DOMAIN Threads /\ k \in DOMAIN Threads /\ j # k
      BY <1>3 DEF k
    <3>2. QED
      BY <1>2, <1>4, <3>1, Zenon DEF Distinct
  <2>2. QED
    BY <1>2, <2>1, Zenon
<1>9. Running' = Running \cup {t}
  BY <1>7, <1>8, Zenon DEF Running
<1>10. 1 .. k = 1 .. Started \cup {k} /\ Started + 1 .. Len(Threads) = {k} \cup (k + 1 .. Len(Threads))
  BY <1>3 DEF k
<1>11. TypeOK'
  <2>1. ran' \subseteq Nat \X Nat
    <3>1. Workers[k] \in Nat
      <4>1. Workers \in Seq(Nat) /\ k \in DOMAIN Workers
        BY <1>2, <1>3, Zenon
      <4>2. QED
        BY <4>1
    <3>2. ran \subseteq Nat \X Nat
      BY <1>2, Zenon DEF TypeOK
    <3>3. ran' = ran \cup {<<Workers[k], t>>}
      BY <1>1, <1>4, Zenon
    <3>4. QED
      BY <1>3, <3>1, <3>2, <3>3
  <2>2. /\ DOMAIN threads' \subseteq Nat /\ Range(threads') \subseteq {"lambda", "free_helper", "done"}
    BY <1>2, <1>3, <1>7, Zenon DEF TypeOK
  <2>3. todo' \in Seq(Nat)
    BY <1>1, <1>3, Zenon
  <2>4. QED
    BY <1>1, <1>2, <2>1, <2>2, <2>3, Zenon DEF TypeOK
<1>12. SpecRight'
  BY <1>1, SpecRightKept, Zenon DEF TaskInv
<1>13. (node2worker \subseteq WorkerIds(node))' /\ HelpersRight'
  BY <1>1, Zenon DEF TaskInv, HelpersRight
<1>14. StartRight'
  <2>1. \A j \in DOMAIN todo' : todo'[j] = Threads'[Started' + j]
    <3>1. ASSUME NEW j \in DOMAIN todo' PROVE todo'[j] = Threads'[Started' + j]
      <4>1. j \in 1 .. Len(todo) - 1 /\ todo'[j] = todo[j + 1]
        BY <1>1, <1>3, Zenon
      <4>2. j + 1 \in DOMAIN todo /\ Started + (j + 1) = Started' + j
        <5>1. j \in Nat /\ Started' = Started + 1
          BY <1>6, <4>1 DEF k
        <5>2. Started + (j + 1) = Started' + j
          BY <1>3, <5>1
        <5>3. Len(todo) \in Nat /\ DOMAIN todo = 1 .. Len(todo)
          BY <1>3
        <5>4. j + 1 \in 1 .. Len(todo)
          BY <4>1, <5>3
        <5>5. QED
          BY <5>2, <5>3, <5>4, Zenon
      <4>3. QED
        BY <1>2, <1>5, <4>1, <4>2, Zenon
    <3>2. QED
      BY <3>1, Zenon
  <2>2. DOMAIN threads' = {Threads'[j] : j \in 1 .. Started'}
    <3>1. {Threads[j] : j \in 1 .. k} = {Threads[j] : j \in 1 .. Started} \cup {t}
      BY <1>4, <1>10, Zenon
    <3>2. DOMAIN threads' = {Threads[j] : j \in 1 .. Started} \cup {t}
      BY <1>2, <1>7, Zenon
    <3>3. QED
      BY <1>5, <1>6, <3>1, <3>2, Zenon
  <2>3. node2worker' = {Threads'[j] : j \in Started' + 1 .. Len(Threads')} \cup Running'
    <3>1. {Threads[j] : j \in Started + 1 .. Len(Threads)} = {Threads[j] : j \in k + 1 .. Len(Threads)} \cup {t}
      BY <1>4, <1>10, Zenon
    <3>2. QED
      BY <1>1, <1>2, <1>5, <1>6, <1>9, <3>1, ZenonT(60)
  <2>4. ran' = {<<Workers'[j], Threads'[j]>> : j \in 1 .. Started'}
    <3>1. ran' = ran \cup {<<Workers[k], Threads[k]>>}
      BY <1>1, <1>4, Zenon
    <3>2. {<<Workers[j], Threads[j]>> : j \in 1 .. k}
            = {<<Workers[j], Threads[j]>> : j \in 1 .. Started} \cup {<<Workers[k], Threads[k]>>}
      BY <1>10, Zenon
    <3>3. QED
      BY <1>2, <1>5, <1>6, <3>1, <3>2, ZenonT(60)
  <2>5. \A x \in DOMAIN worker2helper' \ node2worker' :
          x \in DOMAIN threads' /\ threads'[x] = "free_helper"
    BY <1>1, <1>2, <1>7, <1>8, Zenon
  <2>6. Distinct(Threads)' /\ Len(Threads') = Len(Workers') /\ Len(todo') <= Len(Threads')
    BY <1>1, <1>2, <1>3, <1>5 DEF Distinct
  <2>7. resets' = InitTable(Threads)'
    BY <1>1, <1>2, <1>5, Zenon
  <2>8. QED
    BY <1>1, <2>1, <2>2, <2>3, <2>4, <2>5, <2>6, <2>7, Zenon DEF StartRight
<1>15. FreeRight' /\ AllocateRight'
  BY <1>1, Zenon DEF FreeRight, AllocateRight
<1>16. QED
  BY <1>1, <1>11, <1>12, <1>13, <1>14, <1>15, Zenon DEF TaskInv

\* Threads exist only while Run is starting or joining them.
LEMMA ThreadsWhileStarted ==
  ASSUME TaskInv, DOMAIN threads # {}
  PROVE  main = "start"
BY Zenon DEF TaskInv, TypeOK, FreeRight, AllocateRight

\* The end of a thread touches neither the threads to start nor what ran.
LEMMA StartRightKept ==
  ASSUME main = "start", StartRight,
         UNCHANGED <<node, main, spec, todo, resets, ran>>,
         DOMAIN threads' = DOMAIN threads,
         node2worker' = {Threads[j] : j \in Started + 1 .. Len(Threads)} \cup Running',
         \A x \in DOMAIN worker2helper' \ node2worker' :
           x \in DOMAIN threads' /\ threads'[x] = "free_helper"
  PROVE  StartRight'
<1>1. Workers' = Workers /\ Threads' = Threads
      /\ InitTable(Threads)' = InitTable(Threads)
  BY Zenon DEF Workers, Threads, InitTable, Node, ServerThreads, IdBase
<1>2. Started' = Started
  BY <1>1, Zenon DEF Started
<1>3. \A j \in DOMAIN todo' : todo'[j] = Threads'[Started' + j]
  BY <1>1, <1>2, Zenon DEF StartRight
<1>4. DOMAIN threads' = {Threads'[j] : j \in 1 .. Started'}
  BY <1>1, <1>2, ZenonT(60) DEF StartRight
<1>5. node2worker' = {Threads'[j] : j \in Started' + 1 .. Len(Threads')} \cup Running'
  BY <1>1, <1>2, Zenon
<1>6. Distinct(Threads)' /\ Len(Threads') = Len(Workers') /\ Len(todo') <= Len(Threads')
  BY <1>1, Zenon DEF StartRight, Distinct
<1>7. ran' = {<<Workers'[j], Threads'[j]>> : j \in 1 .. Started'}
  BY <1>1, <1>2, Zenon DEF StartRight
<1>8. resets' = InitTable(Threads)'
  BY <1>1, Zenon DEF StartRight
<1>9. QED
  BY <1>3, <1>4, <1>5, <1>6, <1>7, <1>8, Zenon DEF StartRight

\* A thread gives back its own id, which no thread still to start has.
LEMMA FreeIdKeepsInv ==
  ASSUME TaskInv, NEW t \in DOMAIN threads, FreeId(t)
  PROVE  TaskInv'
<1>1. /\ threads[t] = "lambda"
      /\ threads' = [threads EXCEPT ![t] = IF t \in node2worker THEN "free_helper" ELSE "done"]
      /\ node2worker' = node2worker \ {t}
      /\ UNCHANGED <<node, worker2helper, queue_map, main, alloc, spec, next, todo,
                     resets, ran, tasks>>
  BY Zenon DEF FreeId
<1>2. main = "start"
  BY ThreadsWhileStarted, Zenon
<1>3. /\ TypeOK /\ Threads \in Seq(Nat) /\ todo \in Seq(Nat)
      /\ Distinct(Threads) /\ Len(todo) <= Len(Threads)
      /\ DOMAIN threads = {Threads[j] : j \in 1 .. Started}
      /\ node2worker = {Threads[j] : j \in Started + 1 .. Len(Threads)} \cup Running
      /\ \A x \in DOMAIN worker2helper \ node2worker :
           x \in DOMAIN threads /\ threads[x] = "free_helper"
  <2>1. TypeOK /\ todo \in Seq(Nat)
    BY Zenon DEF TaskInv, TypeOK
  <2>2. Threads \in Seq(Nat)
    BY <2>1, SpecTypes, Zenon
  <2>3. QED
    BY <1>2, <2>1, <2>2, Zenon DEF TaskInv, StartRight
<1>4. t \in node2worker
  BY <1>1, <1>3, Zenon DEF Running
<1>5. /\ DOMAIN threads' = DOMAIN threads
      /\ threads'[t] = "free_helper"
      /\ \A x \in DOMAIN threads : x # t => threads'[x] = threads[x]
  BY <1>1, <1>4, Zenon
<1>7. Running' = Running \ {t}
  BY <1>5, Zenon DEF Running
<1>8. t \notin {Threads[j] : j \in Started + 1 .. Len(Threads)}
  <2>1. PICK i \in 1 .. Started : t = Threads[i]
    BY <1>3, Zenon
  <2>2. /\ Len(Threads) \in Nat /\ Len(todo) \in Nat /\ DOMAIN Threads = 1 .. Len(Threads)
    BY <1>3
  <2> DEFINE n == Len(Threads)
             m == Len(todo)
             s == Started
  <2>3. n \in Nat /\ m \in Nat /\ m <= n /\ s = n - m /\ i \in 1 .. s
    BY <1>3, <2>2, Zenon DEF Started
  <2>4. ASSUME NEW j \in Started + 1 .. Len(Threads) PROVE Threads[j] # t
    <3>1. j \in s + 1 .. n /\ DOMAIN Threads = 1 .. n
      BY <2>2, Zenon
    <3> HIDE DEF n, m, s
    <3>2. i \in 1 .. n /\ j \in 1 .. n /\ i # j
      BY <2>3, <3>1
    <3>3. i \in DOMAIN Threads /\ j \in DOMAIN Threads /\ i # j
      BY <3>1, <3>2, Zenon
    <3>4. QED
      BY <1>3, <2>1, <3>3, Zenon DEF Distinct
  <2>5. QED
    BY <2>4, Zenon
<1>9. TypeOK'
  <2>1. node2worker' \subseteq Nat /\ DOMAIN threads' \subseteq Nat
    BY <1>1, <1>3, <1>5, Zenon DEF TypeOK
  <2>2. Range(threads') \subseteq {"lambda", "free_helper", "done"}
    <3>1. \A x \in DOMAIN threads : threads[x] \in {"lambda", "free_helper", "done"}
      BY <1>3, Zenon DEF TypeOK, Range
    <3>2. \A x \in DOMAIN threads' : threads'[x] \in {"lambda", "free_helper", "done"}
      BY <1>5, <3>1, Zenon
    <3>3. QED
      BY <3>2, Zenon DEF Range
  <2>3. QED
    BY <1>1, <1>3, <2>1, <2>2, Zenon DEF TypeOK
<1>10. SpecRight'
  BY <1>1, <1>2, SpecRightKept, Zenon DEF TaskInv
<1>11. (node2worker \subseteq WorkerIds(node))' /\ HelpersRight'
  BY <1>1, Zenon DEF TaskInv, HelpersRight
<1>12. StartRight'
  <2>1. node2worker' = {Threads[j] : j \in Started + 1 .. Len(Threads)} \cup Running'
    BY <1>1, <1>3, <1>7, <1>8, Zenon
  <2>2. \A x \in DOMAIN worker2helper' \ node2worker' :
          x \in DOMAIN threads' /\ threads'[x] = "free_helper"
    BY <1>1, <1>3, <1>4, <1>5, Zenon
  <2>3. QED
    BY <1>1, <1>2, <1>5, <2>1, <2>2, StartRightKept, Zenon DEF TaskInv
<1>13. FreeRight' /\ AllocateRight'
  BY <1>1, <1>2, Zenon DEF FreeRight, AllocateRight
<1>14. QED
  BY <1>1, <1>2, <1>9, <1>10, <1>11, <1>12, <1>13, Zenon DEF TaskInv

\* A thread gives back its helper.
LEMMA FreeHelperKeepsInv ==
  ASSUME TaskInv, NEW t \in DOMAIN threads, FreeHelper(t)
  PROVE  TaskInv'
<1>1. /\ threads[t] = "free_helper"
      /\ threads' = [threads EXCEPT ![t] = "done"]
      /\ worker2helper' = [u \in DOMAIN worker2helper \ {t} |-> worker2helper[u]]
      /\ UNCHANGED <<node, node2worker, queue_map, main, alloc, spec, next, todo, resets, ran, tasks>>
  BY Zenon DEF FreeHelper
<1>2. main = "start"
  BY ThreadsWhileStarted, Zenon
<1>3. /\ DOMAIN threads' = DOMAIN threads /\ threads'[t] = "done"
      /\ \A x \in DOMAIN threads : x # t => threads'[x] = threads[x]
  BY <1>1, Zenon
<1>4. /\ DOMAIN worker2helper' = DOMAIN worker2helper \ {t}
      /\ \A x \in DOMAIN worker2helper' : worker2helper'[x] = worker2helper[x]
  BY <1>1, Zenon
<1>6. Running' = Running
  BY <1>1, <1>3, Zenon DEF Running
<1>7. TypeOK'
  <2>1. TypeOK
    BY Zenon DEF TaskInv
  <2>2. Range(threads') \subseteq {"lambda", "free_helper", "done"} /\ DOMAIN threads' \subseteq Nat
    <3>1. \A x \in DOMAIN threads : threads[x] \in {"lambda", "free_helper", "done"}
      BY <2>1, Zenon DEF TypeOK, Range
    <3>2. \A x \in DOMAIN threads' : threads'[x] \in {"lambda", "free_helper", "done"}
      BY <1>3, <3>1, Zenon
    <3>3. QED
      BY <1>3, <2>1, <3>2, Zenon DEF Range, TypeOK
  <2>3. DOMAIN worker2helper' \subseteq Nat /\ Range(worker2helper') \subseteq Range(worker2helper)
    BY <1>4, <2>1, Zenon DEF TypeOK, Range
  <2>4. QED
    BY <1>1, <2>1, <2>2, <2>3, Zenon DEF TypeOK
<1>8. SpecRight'
  BY <1>1, <1>2, SpecRightKept, Zenon DEF TaskInv
<1>9. (node2worker \subseteq WorkerIds(node))'
  BY <1>1, Zenon DEF TaskInv
<1>10. HelpersRight'
  BY <1>1, <1>4, Zenon DEF TaskInv, HelpersRight
<1>11. StartRight'
  <2>1. \A x \in DOMAIN worker2helper' \ node2worker' :
          x \in DOMAIN threads' /\ threads'[x] = "free_helper"
    BY <1>1, <1>2, <1>3, <1>4, Zenon DEF TaskInv, StartRight
  <2>2. node2worker = {Threads[j] : j \in Started + 1 .. Len(Threads)} \cup Running
    BY <1>2, Zenon DEF TaskInv, StartRight
  <2>3. QED
    BY <1>1, <1>2, <1>3, <1>6, <2>1, <2>2, StartRightKept, Zenon DEF TaskInv
<1>12. FreeRight' /\ AllocateRight'
  BY <1>1, <1>2, Zenon DEF FreeRight, AllocateRight
<1>13. QED
  BY <1>1, <1>2, <1>7, <1>8, <1>9, <1>10, <1>11, <1>12, Zenon DEF TaskInv

\* When all threads are joined, all ids and helpers were given back.
LEMMA JoinThreadsKeepsInv ==
  ASSUME TaskInv, JoinThreads
  PROVE  TaskInv'
<1>1. /\ main = "start" /\ todo = <<>> /\ main' = "idle"
      /\ \A t \in DOMAIN threads : threads[t] = "done"
      /\ DOMAIN threads' = {}
      /\ UNCHANGED <<node, node2worker, worker2helper, queue_map, alloc, spec, next, todo,
                     resets, ran, tasks>>
  BY Zenon DEF JoinThreads, EmptyMap
<1>2. Threads \in Seq(Nat) /\ TypeOK
  BY SpecTypes, Zenon DEF TaskInv
<1>3. Running = {} /\ {Threads[j] : j \in Started + 1 .. Len(Threads)} = {}
  <2>1. Running = {}
    BY <1>1, Zenon DEF Running
  <2>2. Len(Threads) \in Nat /\ Started = Len(Threads)
    BY <1>1, <1>2 DEF Started
  <2>3. Started + 1 .. Len(Threads) = {}
    BY <2>2
  <2>4. QED
    BY <2>1, <2>3, Zenon
<1>4. node2worker = {} /\ DOMAIN worker2helper = {}
  <2>1. node2worker = {}
    BY <1>1, <1>3, Zenon DEF TaskInv, StartRight
  <2>2. \A t \in DOMAIN worker2helper : threads[t] = "free_helper" /\ threads[t] = "done"
    BY <1>1, <2>1, Zenon DEF TaskInv, StartRight
  <2>3. QED
    BY <2>1, <2>2, Zenon
<1>5. TypeOK'
  <2>1. Range(threads') = {}
    BY <1>1, Zenon DEF Range
  <2>2. DOMAIN threads' \subseteq Nat /\ Range(threads') \subseteq {"lambda", "free_helper", "done"}
    BY <1>1, <2>1, Zenon
  <2>3. QED
    BY <1>1, <1>2, <2>2, Zenon DEF TypeOK
<1>6. SpecRight'
  BY <1>1, SpecRightKept, Zenon DEF TaskInv
<1>7. (node2worker \subseteq WorkerIds(node))' /\ HelpersRight'
  BY <1>1, <1>4, Zenon DEF HelpersRight
<1>8. FreeRight' /\ AllocateRight' /\ StartRight'
  BY <1>1, <1>4, Zenon DEF FreeRight, AllocateRight, StartRight
<1>9. QED
  BY <1>1, <1>5, <1>6, <1>7, <1>8, Zenon DEF TaskInv

\* Nothing of the invariant changes in a step that changes no variable.
LEMMA StutterKeepsInv ==
  ASSUME TaskInv, UNCHANGED vars
  PROVE  TaskInv'
<1>1. UNCHANGED <<node, node2worker, worker2helper, queue_map, main, alloc, spec, next, todo,
                  threads, resets, ran, tasks>>
  BY Zenon DEF vars
<1>2. TypeOK' /\ HelpersRight' /\ (node2worker \subseteq WorkerIds(node))'
      /\ (main = "terminated" => DOMAIN threads = {})'
  BY <1>1, Zenon DEF TaskInv, TypeOK, HelpersRight
<1>3. SpecRight'
  <2>1. Workers' = Workers /\ EntriesHere' = EntriesHere
    BY <1>1, Zenon DEF Workers, EntriesHere
  <2>2. \A b : Counts(b) /\ WorkersFrom(b) => Counts(b)' /\ WorkersFrom(b)'
    BY <1>1, <2>1, Zenon DEF Counts, WorkersFrom
  <2>3. (\E before \in [1 .. next -> 0 .. spec.num_workers] : Counts(before) /\ WorkersFrom(before))'
    BY <1>1, <2>2, Zenon DEF TaskInv, SpecRight
  <2>4. QED
    BY <1>1, <2>1, <2>3, Zenon DEF TaskInv, SpecRight, Distinct
<1>4. Workers' = Workers /\ Threads' = Threads /\ Running' = Running
  BY <1>1, Zenon DEF Workers, Threads, Running
<1>5. FreeRight' /\ AllocateRight'
  BY <1>1, <1>4, Zenon DEF TaskInv, FreeRight, AllocateRight, Distinct
<1>6. StartRight'
  <2>1. CASE main # "start"
    BY <1>1, <2>1, Zenon DEF StartRight
  <2>2. CASE main = "start"
    BY <1>1, <1>4, <2>2, StartRightKept, Zenon DEF TaskInv, StartRight
  <2>3. QED
    BY <2>1, <2>2, Zenon
<1>7. QED
  BY <1>2, <1>3, <1>5, <1>6, Zenon DEF TaskInv

\* Every step of Engine::Run and of its threads keeps the invariant.
LEMMA StepKeepsInv ==
  ASSUME TaskInv, [Next]_vars
  PROVE  TaskInv'
<1>1. ASSUME NEW allocs \in Allocs, Run(allocs) PROVE TaskInv'
  BY <1>1, RunKeepsInv, Zenon
<1>2. ASSUME NEW t \in DOMAIN threads, FreeId(t) PROVE TaskInv'
  BY <1>2, FreeIdKeepsInv, Zenon
<1>3. ASSUME NEW t \in DOMAIN threads, FreeHelper(t) PROVE TaskInv'
  BY <1>3, FreeHelperKeepsInv, Zenon
<1>4. CASE NextEntry
  BY <1>4, NextEntryKeepsInv, Zenon
<1>5. CASE SpecDone
  BY <1>5, SpecDoneKeepsInv, Zenon
<1>6. CASE BindWorker
  BY <1>6, BindWorkerKeepsInv, Zenon
<1>7. CASE NoFreeId
  BY <1>7, NoFreeIdKeepsInv, Zenon
<1>8. CASE NoFreeHelper
  BY <1>8, NoFreeHelperKeepsInv, Zenon
<1>9. CASE WorkersAllocated
  BY <1>9, WorkersAllocatedKeepsInv, Zenon
<1>10. CASE StartThread
  BY <1>10, StartThreadKeepsInv, Zenon
<1>11. CASE JoinThreads
  BY <1>11, JoinThreadsKeepsInv, Zenon
<1>12. CASE UNCHANGED vars
  BY <1>12, StutterKeepsInv, Zenon
<1>13. QED
  BY <1>1, <1>2, <1>3, <1>4, <1>5, <1>6, <1>7, <1>8, <1>9, <1>10, <1>11, <1>12, Zenon DEF Next

-----------------------------------------------------------------------------
(* What the invariant says of the tasks.                                   *)

\* The invariant holds in every state of Engine::Run and its threads.
THEOREM Invariance == Spec => []TaskInv
<1>1. Init => TaskInv
  BY InitEstablishesInv, Zenon
<1>2. TaskInv /\ [Next]_vars => TaskInv'
  BY StepKeepsInv, Zenon
<1>3. QED
  BY <1>1, <1>2, PTL DEF Spec

\* The variables keep their types, whatever allocations the tasks bring.
THEOREM TypesKept == Spec => []TypeOK
<1>1. TaskInv => TypeOK
  BY Zenon DEF TaskInv
<1>2. QED
  BY <1>1, Invariance, PTL

\* A running thread's replies reach the queue of its own helper, and no other
\* thread has that helper (AllocateHelperForWorker, RegisterQueue).
THEOREM RoutingCorrect == Spec => []RepliesRouted
<1>1. ASSUME TaskInv PROVE RepliesRouted
  <2>1. SUFFICES ASSUME NEW t \in Running \cap DOMAIN worker2helper
                 PROVE  /\ queue_map[t] = worker2helper[t]
                        /\ \A u \in DOMAIN worker2helper \ {t} : worker2helper[u] # worker2helper[t]
    BY Zenon DEF RepliesRouted
  <2>2. DOMAIN threads # {}
    BY Zenon DEF Running
  <2>3. main = "start"
    BY <1>1, <2>2, ThreadsWhileStarted, Zenon
  <2>4. QED
    BY <1>1, <2>3, Zenon DEF TaskInv, HelpersRight
<1>2. QED
  BY <1>1, Invariance, PTL

\* When Run returns, the threads have given back every id and every helper
\* (DeallocateWorkerThread, DeallocateHelperForWorker).
THEOREM AllFreed == Spec => []IdsFreed
<1>1. TaskInv => IdsFreed
  BY Zenon DEF TaskInv, FreeRight, IdsFreed
<1>2. QED
  BY <1>1, Invariance, PTL

\* Worker ids belong to their node and are no server's and no helper's
\* (AllocateWorkerThread, GetNodeIdForThread).
THEOREM IdsRight == Spec => []IdsOfNode
<1>1. ASSUME TaskInv PROVE IdsOfNode
  <2>1. node \in Node /\ node2worker \subseteq WorkerIds(node)
    BY <1>1, Zenon DEF TaskInv, TypeOK
  <2>2. \A t \in WorkerIds(node) : /\ GetNodeIdForThread(t) = node
                                   /\ t \notin ServerThreads(node) \cup HelperThreads(node)
    BY <2>1, IdsApart, Zenon
  <2>3. QED
    BY <2>1, <2>2, Zenon DEF IdsOfNode
<1>2. QED
  BY <1>1, Invariance, PTL

\* Every server thread is told of a thread before it runs (InitTable).
THEOREM ResetFirst == Spec => []ResetBeforeRun
<1>1. ASSUME TaskInv PROVE ResetBeforeRun
  <2>1. SUFFICES ASSUME NEW t \in Running, NEW n \in Node, NEW s \in ServerThreads(n)
                 PROVE  \E r \in resets : r.recver = s /\ t \in r.tids
    BY Zenon DEF ResetBeforeRun
  <2>2. t \in DOMAIN threads /\ DOMAIN threads # {}
    BY Zenon DEF Running
  <2>3. main = "start"
    BY <1>1, <2>2, ThreadsWhileStarted, Zenon
  <2>4. /\ resets = InitTable(Threads) /\ Len(todo) <= Len(Threads)
        /\ DOMAIN threads = {Threads[j] : j \in 1 .. Started}
    BY <1>1, <2>3, Zenon DEF TaskInv, StartRight
  <2>5. t \in Range(Threads)
    <3>1. Threads \in Seq(Nat) /\ todo \in Seq(Nat)
      BY <1>1, SpecTypes, Zenon DEF TaskInv, TypeOK
    <3>2. 1 .. Started \subseteq DOMAIN Threads
      BY <2>4, <3>1 DEF Started
    <3>3. QED
      BY <2>2, <2>4, <3>2, Zenon DEF Range
  <2>6. [recver |-> s, tids |-> Range(Threads)] \in resets
    BY <2>4, Zenon DEF InitTable
  <2>7. QED
    BY <2>5, <2>6, Zenon
<1>2. QED
  BY <1>1, Invariance, PTL

\* Every worker of a task runs exactly once on the node it was allocated to
\* (WorkerSpec::Init, Engine::Run).
THEOREM RunsOnce == Spec => []WorkersRunOnce
<1>1. ASSUME TaskInv PROVE WorkersRunOnce
  <2>1. SUFFICES ASSUME main = "start", todo = <<>>
                 PROVE  /\ \A x, y \in ran : x[1] = y[1] \/ x[2] = y[2] => x = y
                        /\ OneEntryPerNode(alloc) =>
                             \E before \in [1 .. Len(alloc) + 1 -> 0 .. spec.num_workers] :
                               CountsWorkers(before) /\ {x[1] : x \in ran} = WorkersOf(node, before)
    BY Zenon DEF WorkersRunOnce
  <2>2. /\ Distinct(Threads) /\ Distinct(Workers) /\ Len(Threads) = Len(Workers)
        /\ ran = {<<Workers[j], Threads[j]>> : j \in 1 .. Started}
        /\ next = Len(alloc) + 1
    BY <1>1, <2>1, Zenon DEF TaskInv, StartRight, SpecRight
  <2>3. Workers \in Seq(Nat) /\ Threads \in Seq(Nat) /\ alloc \in Seq([node_id : Node, num_workers : Nat])
    <3>1. TypeOK
      BY <1>1, Zenon DEF TaskInv
    <3>2. alloc \in Allocs \cup {<<>>} /\ <<>> \in Seq([node_id : Node, num_workers : Nat])
      BY <3>1 DEF TypeOK
    <3>3. alloc \in Seq([node_id : Node, num_workers : Nat])
      BY <3>2, TaskRunnerAssumption, Zenon
    <3>4. QED
      BY <3>1, <3>3, SpecTypes, Zenon
  <2>4. Started = Len(Workers) /\ DOMAIN Workers = 1 .. Started /\ DOMAIN Threads = 1 .. Started
    BY <2>1, <2>2, <2>3 DEF Started
  <2>5. ASSUME NEW x \in ran, NEW y \in ran, x[1] = y[1] \/ x[2] = y[2] PROVE x = y
    <3>1. PICK i \in 1 .. Started : x = <<Workers[i], Threads[i]>>
      BY <2>2, Zenon
    <3>2. PICK j \in 1 .. Started : y = <<Workers[j], Threads[j]>>
      BY <2>2, Zenon
    <3>3. Workers[i] = Workers[j] \/ Threads[i] = Threads[j]
      BY <2>5, <3>1, <3>2, Zenon
    <3>4. i = j
      BY <2>2, <2>4, <3>3, Zenon DEF Distinct
    <3>5. QED
      BY <3>1, <3>2, <3>4, Zenon
  <2>6. ASSUME OneEntryPerNode(alloc)
        PROVE  \E before \in [1 .. Len(alloc) + 1 -> 0 .. spec.num_workers] :
                 CountsWorkers(before) /\ {x[1] : x \in ran} = WorkersOf(node, before)
    <3>1. PICK before \in [1 .. next -> 0 .. spec.num_workers] : Counts(before) /\ WorkersFrom(before)
      BY <1>1, Zenon DEF TaskInv, SpecRight
    <3>2. DOMAIN alloc = 1 .. next - 1 /\ Len(alloc) \in Nat
      BY <2>2, <2>3
    <3>3. CountsWorkers(before)
      BY <3>1, <3>2, Zenon DEF Counts, CountsWorkers
    <3>4. {x[1] : x \in ran} = Range(Workers)
      <4>1. \A j \in 1 .. Started : /\ <<Workers[j], Threads[j]>> \in ran
                                    /\ <<Workers[j], Threads[j]>>[1] = Workers[j]
        BY <2>2, Zenon
      <4>2. \A x \in ran : \E j \in 1 .. Started : x[1] = Workers[j]
        BY <2>2
      <4>3. ASSUME NEW w PROVE w \in {x[1] : x \in ran} <=> \E j \in 1 .. Started : w = Workers[j]
        <5>1. ASSUME NEW j \in 1 .. Started, w = Workers[j] PROVE w \in {x[1] : x \in ran}
          <6>1. PICK x \in ran : x[1] = w
            BY <4>1, <5>1, Zenon
          <6>2. QED
            BY <6>1, Zenon
        <5>2. ASSUME NEW x \in ran, w = x[1] PROVE \E j \in 1 .. Started : w = Workers[j]
          BY <4>2, <5>2, Zenon
        <5>3. QED
          BY <5>1, <5>2, Zenon
      <4>4. \A w : w \in Range(Workers) <=> \E j \in 1 .. Started : w = Workers[j]
        BY <2>4, Zenon DEF Range
      <4>5. QED
        BY <4>3, <4>4, Zenon
    <3>5. WorkersOf(node, before) = Range(Workers)
      <4>1. EntriesHere = {j \in DOMAIN alloc : alloc[j].node_id = node}
        BY <3>2, Zenon DEF EntriesHere
      <4>2. WorkersOf(node, before) = UNION {before[i] .. before[i + 1] - 1 : i \in EntriesHere}
        BY <4>1, Zenon DEF WorkersOf
      <4>3. CASE EntriesHere = {}
        <5>1. Workers = <<>>
          BY <3>1, <4>3, Zenon DEF WorkersFrom
        <5>2. Range(Workers) = {}
          BY <5>1, <2>4, <2>3 DEF Range
        <5>3. QED
          BY <4>2, <4>3, <5>2
      <4>4. CASE EntriesHere # {}
        <5>1. PICK j \in EntriesHere : Workers = [i \in 1 .. alloc[j].num_workers |-> before[j] + i - 1]
          BY <3>1, <4>4, Zenon DEF WorkersFrom
        <5>2. EntriesHere = {j}
          BY <2>6, <4>1, Zenon DEF OneEntryPerNode
        <5>3. WorkersOf(node, before) = before[j] .. before[j + 1] - 1
          BY <4>2, <5>2, Zenon
        <5>4. /\ before[j] \in Nat /\ alloc[j].num_workers \in Nat
              /\ before[j + 1] = before[j] + alloc[j].num_workers
          <6>1. j \in 1 .. next - 1 /\ next \in Nat
            BY <2>2, <3>2 DEF EntriesHere
          <6>2. before[j + 1] = before[j] + alloc[j].num_workers
            BY <3>1, <6>1, Zenon DEF Counts
          <6>3. alloc[j] \in [node_id : Node, num_workers : Nat]
            <7>1. j \in 1 .. Len(alloc)
              BY <2>2, <3>2, <6>1
            <7>2. QED
              BY <2>3, <7>1, ElementOfSeq, Zenon
          <6>4. spec.num_workers \in Nat
            BY <1>1, SpecTypes, Zenon DEF TaskInv
          <6>5. before[j] \in Nat
            BY <3>1, <6>1, <6>4
          <6>6. QED
            BY <6>2, <6>3, <6>5, Zenon
        <5> DEFINE b == before[j]
                   n == alloc[j].num_workers
        <5>5. Range(Workers) = {b + i - 1 : i \in 1 .. n}
          BY <5>1, Zenon DEF Range
        <5>6. before[j + 1] = b + n /\ b \in Nat /\ n \in Nat
              /\ WorkersOf(node, before) = b .. before[j + 1] - 1
          BY <5>3, <5>4, Zenon
        <5> HIDE DEF b, n
        <5>7. {b + i - 1 : i \in 1 .. n} = b .. b + n - 1
          <6>1. \A x \in b .. b + n - 1 : x - b + 1 \in 1 .. n /\ x = b + (x - b + 1) - 1
            BY <5>6
          <6>2. \A i \in 1 .. n : b + i - 1 \in b .. b + n - 1
            BY <5>6
          <6>3. QED
            BY <6>1, <6>2, Zenon
        <5>8. QED
          BY <5>5, <5>6, <5>7
      <4>5. QED
        BY <4>3, <4>4, Zenon
    <3>6. QED
      BY <2>2, <3>1, <3>3, <3>4, <3>5, Zenon
  <2>7. QED
    BY <2>5, <2>6, Zenon
<1>2. QED
  BY <1>1, Invariance, PTL
=============================================================================
