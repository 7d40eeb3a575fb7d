# A TLA+ model of the csci5570 parameter server

The repository is a parameter server in C++: worker threads on several nodes
train a model whose parameters are kept in tables on server threads. This
directory specifies its concurrent and distributed parts in TLA+, and the linter
that is kept with it, checks them with TLC on small instances, and proves with
TLAPS, for instances of every size, all safety properties of the server that the
runs check.

`PROJECT.json` lists the components, the runs, the source lines every
definition stands for, the hazards, and the theorems.

## 1. The system

### Parts and interactions

| part | source | state | operations |
|---|---|---|---|
| ProgressTracker | `server/util/progress_tracker.*` | `progresses_`, `min_clock_` | Init, AdvanceAndGetChangedMinClock, IsUniqueMin, getters |
| PendingBuffer | `server/util/pending_buffer.*` | requests per clock | Push, Pop, Size |
| MapStorage | `server/map_storage.hpp`, `server/abstract_storage.hpp` | value per key | Add, Get |
| SSP-, BSP-, ASPModel | `server/consistency/*` | a tracker, a storage, buffers | Clock, Add, Get, ResetWorker |
| ServerThread | `server/server_thread.cpp` | work queue, models by id | Main loop, RegisterModel |
| KVClientTable | `worker/kv_client_table.hpp` | none | Get (blocks), Add, Clock |
| AppBlocker | `worker/app_blocker.hpp` | handlers and counters per worker thread | Register*, NewRequest, WaitRequest, AddResponse |
| WorkerHelperThread | `worker/worker_helper_thread.cpp` | work queue | Main loop |
| Sender | `comm/sender.cpp` | send queue | send loop, Stop |
| Mailbox | `comm/mailbox.cpp` | sockets, `barrier_count_`, queue map | Send, Recv, Receiving, Barrier, Stop |
| Engine | `driver/engine.cpp` | owns all of the above | StartEverything, CreateTable, Barrier, Run, StopEverything |
| SimpleIdMapper, WorkerSpec | `driver/` | thread ids of nodes, of a task | allocation, release, lookup |
| partition managers | `base/*_partition_manager.hpp` | ranges of servers | Slice |
| HDFSBlockAssigner, Coordinator | `io/` | blocks per host, exits | block requests, exit protocol |
| HDFSFileSplitter, LineInputFormat | `io/` | buffer, position | next block, next line |
| cpplint | `scripts/cpplint.py` | filters, suppressions, nesting, includes, functions | main, ProcessFile, ProcessLine and its checks |

A worker thread calls `KVClientTable::Get`, which slices the keys by server and
pushes one request per server on the queue of the node's Sender. The Sender
thread writes to the ZeroMQ socket of the destination. There the Mailbox's
receiver thread pushes the message on the queue of the server thread, which
calls the consistency model of the table. The model answers at once, or keeps
the request until the slowest worker thread has advanced. The answer travels
back the same way to the helper thread of the worker thread, whose
`AddResponse` runs the handler that `Get` registered, counts, and wakes the
worker thread when the last server has answered. `Add` and `Clock` send and do
not wait. `Engine::Barrier` synchronises the nodes with messages of its own.
Before that, the loaders of the nodes ask the assigner on the master for blocks of
the data and cut them into lines. The linter is a program of its own.

### What makes it hard

- The minimum of the clocks is maintained incrementally, survives the reset of
  a subset of the threads, and decides about every Get. It starts uninitialised.
- Requests wait for one exact clock and are looked up only when the minimum
  becomes that clock.
- Clock handles the requests it releases by calling Get again, which may put
  them back.
- AppBlocker releases its mutex around a call that writes to the stack of
  another thread. It is shared by all worker threads and knows only thread ids.
- Barrier messages have no round number and no acknowledgement, are counted in
  a single integer, and overtake the messages of tasks.
- Shutting down joins four kinds of threads in an order that must not lose
  what is still queued.
- Thread ids and helpers are freed by the worker threads themselves, and handed
  out again to the next task.
- Blocks of a file are listed at every host with a replica, and must be given
  to one loader only.
- Blocks are cut without regard to lines. The readers of two neighbouring blocks,
  which never speak to each other, must agree who reads the line between them.
- The linter keeps its state in globals from line to line and from file to file.

The hazards, each at its line, are in `PROJECT.json` with the properties that
would show them going wrong. A hazard that no property covers says why.

## 2. The modules

```
Message <- ProgressTracker <-+- SSPModel <- SSPModelProofs
        <- MapStorage      <-+- BSPModel <- BSPModelProofs
           PendingBuffer   <-+- ASPModel <- ASPModelProofs
                                (all three proofs also on ServerProofs)
        <- TableService  ..... implemented by SSPModel and ASPModel
Partition <- KVClient          KVClientTable + AppBlocker + WorkerHelperThread
             <- KVClientProofs
Mailbox                        Mailbox + Sender + Engine::Barrier + StopEverything
  <- MailboxProofs
TaskRunner                     Engine::Run + SimpleIdMapper + WorkerSpec
  <- TaskRunnerProofs
BlockAssigner                  HDFSBlockAssigner + Coordinator + the data loader
  <- LineInput                 HDFSFileSplitter + LineInputFormat
     <- LoadingProofs
LintState <- NestingState <-+- IncludeState  <-+- Cpplint
Expressions <-              +- FunctionState <-+  (also CleansedLines, HeaderGuard)
MC*                            instances for TLC
```

**Values.** The consistency models promise something about *which updates* an
answer contains. A value is therefore a function that counts, for each worker
thread, the updates of that thread summed in it. An Add of thread `w` carries
one update of `w` for each of its keys. A lost update, a repeated one and one
that is visible too early are all distinguishable.

**ProgressTracker, PendingBuffer, MapStorage** are operators on records and
functions, one per method. A thread that is not in `progresses_` has the value
-1, which is also what `GetProgress` returns for it. Before the first Init,
`min_clock_` is any value of the constant `Garbage`.

**SSPModel, BSPModel, ASPModel** each specify one table on one server thread:
one action per handler. A loop inside Clock is unrolled into steps of its own,
during which no other handler can start, as `ServerThread::Main` is sequential.
Resets may come at any time and for any subset of the threads, because
`Engine::InitTable` sends one per node without waiting for the others, and each
task sends new ones. A thread sends Get and Add only after the reset that
registers it (same sender queue, same channel); Clock is also tried for unknown
threads. Two details are kept from the code: the comparison with `staleness_`
is unsigned, and `SubGet` inserts a zero for a key that is not stored. History
variables (`gets`, `adds`, `clocked`, `accepted`, `resets`, `late`) exist for the
properties and the bounds; no handler decides by them.

**TableService** is the abstract specification: an Add changes the values once,
a Get is answered at most once, after it was asked, with the values of all its
keys at one moment. The refinement mapping takes `values` from `storage` (a key
that is not stored is zero), `waiting` from the pending buffer and from the rest
of the vector Clock iterates over, and `answers` from the reply queue.

**KVClient** is one worker node. A section under `AppBlocker::mu_` is one step,
and so is the unlocked call of the handlers. Add and Clock push their messages in
one step each. The keys of a request are sliced by `Partition`, for a hash or for a
range partition, the empty vector of keys included. Between a thread and a server
messages keep their order; different servers answer in any order, and replies to
resets arrive between the others, at the first thread of the task only, as
`Engine::InitTable` names it as the sender. Condition variables may wake without
reason. Of a value the model keeps which of the thread's own updates it contains.
The map on the stack of `Get` maps each key to the value written and the Get it
was asked by.

**Mailbox** is all nodes from their first barrier to the end of
`StopEverything`. Each has a main, a sender, a receiver, a server and a helper thread.
ZeroMQ is external: a FIFO channel for each pair of nodes that loses nothing and
is never full. This is what `Mailbox` relies on: a send that fails is logged and
the message dropped (`mailbox.cpp:180-181`), and no caller looks at the result of
`Send`. Closing a socket waits for what it still has to deliver (`linger = -1`).

**TaskRunner** is the engine of one node that runs tasks one after the other. The
loop of `AllocateWorkers`, the start of each thread and the two erasures of
`DeallocateWorkerThread` are steps. `AllocateHelperForWorker` has no return for
the case that no helper is free; its caller then sees any value, which is a
choice between -1 and another one. The CHECK of `Mailbox::RegisterQueue` and the
exception of `AllocateWorkers` end the process (`main = "terminated"`).

**BlockAssigner** is the load of one data set: the assigner on the master and a
loader on every node. HDFS is external and given by the hosts that hold each
block, chosen in the initial state, a block without a host being one that does
not exist; so an empty directory is among the inputs, and so is a name node
that cannot be reached.

**LineInput** extends it by what a loader does with a block. `next` is one action for
each of its exits: a line inside the block, the last line, which may go on in the
blocks after, the end of the block at a newline, the rest after the block. A record is the interval of the file that `next` returned. The loaders interleave with each
other and with the assigner. All files have one block size, and `hdfsRead` does not fail.

The properties about lines are stated for files in which every block but the first
has a newline and none has exactly one byte (`WellFormed`). The code does something else on the
others: without a newline in a later block `find_next` gives `npos`, the
position becomes 0, and a piece of the line is returned ("what if not found",
`line_input_format.hpp:74`); the line of a file of one byte is not returned. In the
files considered an empty record may come at the end of the file, when the only
newline of the last block is its last byte; the properties are about
the other records. The block size is at least 2, as a block of one byte is taken
for one that is used up. Those of HDFS are multiples of 512.

**The linter** is `Cpplint` (command line, configuration files, the order of the checks of
a file, exit status) over modules for its parts: `CleansedLines` removes comments
and strings, `Expressions` matches brackets forward and backward, `NestingState`
follows blocks and preprocessor branches, `IncludeState` the order and the repetition of includes,
`FunctionState` the length of functions, `HeaderGuard` the guard, `LintState` filters,
NOLINT comments and what is finally reported. A line is a sequence of tokens, and
each module tells apart the tokens its code tells apart. Checks that keep no state are
tokens that raise an error (`Flaw`).

## 3. The runs

| run | module / cfg | checks | states |
|---|---|---|---|
| `ssp` | MCSSP | MinClockIsSlowest, PendingAhead, SSPInv, BoundedStaleness, ImplementsService | 608,397 |
| `bsp` | MCBSP | UpdatesConserved, IterationSnapshot | 231,906 |
| `bsp_gets` | MCBSP / MCBSPGets.cfg | GetsAnswered (violated) | |
| `asp` | MCASP | RepliesOneHistory, ImplementsService | 35,310 |
| `kvclient` | MCKVClient | HandlerFrameLive, CompleteOnReturn, ReadsOwnWrites, GetReturns | 160,032 |
| `mailbox` | MCMailbox | BarrierSafe, TableCreated, NothingLost, Terminates | 294,872 |
| `tasks` | MCTaskRunner | TypeOK, RepliesRouted, IdsFreed, IdsOfNode, WorkersRunOnce, ResetBeforeRun | 8,674 |
| `helpers` | MCTaskRunner / MCHelpers.cfg | HelperForAll (violated) | |
| `second_task` | MCTaskRunner / MCTasks.cfg | TasksRun (violated) | |
| `assigner` | MCLineInput | TypeOK, BlockGivenOnce, NoneLeftOut, NotStoppedEarly, LinesReadOnce, NoLineLost, AssignerEnds | 354,708 |
| `assigner_host` | MCBlockAssigner / MCBlockAssignerHost.cfg | AssignerEnds (violated) | |
| `lint` | MCCpplint | ReportedExactly, CodeIsElided, ExpressionsClose, ExpressionsReverse, FirstBranchCounts, BracesCounted, IncludeOrderExact, IncludesRemembered, BranchesForgotten, LongFunctionsReported | 385,666 |

What they show:

- **ssp.** The minimum is the slowest progress at every moment
  (`MinClockIsSlowest`). Every bucket of the pending buffer is still ahead of it
  (`PendingAhead`). An answer to a thread at clock *p* contains every update each
  registered thread made in its first *p - staleness* clocks (`BoundedStaleness`).
  No Get is lost or answered twice (`ImplementsService`). `SSPInv` is the
  inductive invariant of the proofs.
- **bsp.** Accepted updates are applied exactly once (`UpdatesConserved`). The
  answer to a thread in iteration *p* contains exactly the updates of the first
  *p* iterations (`IterationSnapshot`). The second holds when all threads are
  registered before the first of them clocks: a reset that comes later restarts
  the minimum in the middle of an iteration, and the history variable `late`
  excludes those behaviours from it. `UpdatesConserved` includes them.
- **bsp_gets.** A Get of a thread that is ahead is buffered. When the iteration
  ends, `BSPModel::Clock` reads the values for it, discards the reply and clears
  the buffer (`bsp_model.cpp:25-28`). The Get is never answered and its thread
  waits for ever. The trace is: reset both threads, Clock of one, Get of that
  thread, Clock of the other.
- **asp.** Answers are snapshots of one growing history, all keys of a request
  together.
- **kvclient.** A handler runs only while the Get it belongs to is
  blocked. A Get returns with a value for each of its keys, from its own replies,
  and leaves none behind. The values contain all updates its thread made before
  (`ReadsOwnWrites`): the slices of Add and Get agree, and the order of the channels is
  enough. The one notification for the shared condition variable always
  reaches the thread it is for.
- **mailbox.** No node passes barrier *k* before all have
  entered it, although messages of barrier *k+1* may be counted first. Requests
  find their table. Shutting down loses no request and no answer to a Get:
  barrier messages overtake queued ones, and only the second barrier of the
  shutdown, after the sender is joined, ensures that everything has arrived.
  All threads end.
- **tasks.** Whatever the allocation, and in whatever order the threads of a task
  end: a worker runs once, under an id of its node that is no server's and no
  helper's, with a helper of its own whose queue the mailbox knows, and after the
  resets that name it were pushed for all servers of all nodes. When `Run`
  returns, all ids and helpers are free. Where the allocation has two entries
  for a node the second replaces the first in `WorkerSpec::Init`, and only
  its workers run; `WorkersRunOnce` says that all workers run for allocations
  with one entry per node.
- **helpers.** With more workers on a node than helpers, `AllocateHelperForWorker`
  ends without a return (`simple_id_mapper.cpp:75`). If its caller happens to see
  something else than -1, a thread runs for which no queue is registered. Its
  replies are never delivered.
- **second_task.** `RegisterQueue` aborts when an id is registered again. Nothing
  deregisters an id, and the next task is given the smallest free one, which is
  one the last task used (`engine.cpp:116`, `mailbox.cpp:118`). An engine can
  run workers on a node in one task only.
- **assigner.** Every block is given to exactly one loader, before any loader is
  told that there are no more, and the assigner ends after the last loader has
  left. Every line is read by exactly one loader, and whole, wherever the blocks
  cut it (`LinesReadOnce`, `NoLineLost`). The nodes are on hosts of their own.
- **assigner_host.** `handle_exit` counts host names. With two nodes on one host all
  loaders leave and the assigner waits for ever, and with it the master, which
  joins its thread (`hdfs_assigner.cpp:59`).
- **lint.** Of the errors that the checks raise about a file, those are written
  that the filters and the NOLINT comments leave, and which these are depends on
  that file, the command line and the configuration of its directories alone
  (`ReportedExactly`). Which errors are raised may depend on an earlier file, by
  `linelength` (section 5). Each scanner agrees with a
  definition that looks at the whole file: the code outside comments and strings
  (`CodeIsElided`), the nesting of brackets (`ExpressionsClose`, and
  `ExpressionsReverse` for the scanner that goes backward), the blocks of the
  first branches of conditionals (`FirstBranchCounts`, `BracesCounted`), the order of includes
  and which are remembered or, in another branch, forgotten (`IncludeOrderExact`,
  `IncludesRemembered`, `BranchesForgotten`), and the lengths of functions
  (`LongFunctionsReported`). Some agree with exceptions that the properties state and the
  inputs reach; section 5 lists them.

**Bounds.** `MaxClock`, `MaxGets`, `MaxAdds`, `MaxResets`, `MaxPushes`, `MaxOther`,
`MaxTasks` and `MaxData` cap counters that have no limit in the code. In `ssp`, staleness 1
with three clocks and two threads lets a thread be served, be exactly at the
limit, and be two clocks beyond it. With two Gets a bucket holds several
requests, and a request that is released can be put back. Two resets give
a reset while requests wait. In `bsp` two iterations are needed for an update
to be applied late or twice. In `kvclient` two Gets of a thread are needed for a reply to
reach the wrong one, an Add or a Clock between them for a value to miss it, and
two threads for a notification to wake the wrong one; the keys belong to two servers,
and one of them is named twice in an update.
In `mailbox` each node passes three barriers (one of the application, two of
the shutdown), so that the count carries over twice. With three nodes a fast
node can be a barrier ahead of a slow one while the third is between them; that
case, like all larger ones, is covered by the proof. The requests of `mailbox` are a Get, whose reply is
awaited, and a reset, whose reply is not; an Add is a request without a reply. In
`tasks` a node has three ids for workers and two helpers, so that allocations of
one or two entries with up to four workers each run out of either; two tasks reuse what was freed.
In `assigner` there are two loaders, two hosts and one file of up to five bytes in
blocks of two, so that there are up to three blocks, with replicas on either host or on
both: a line may lie in a block, cross one or two of their ends, or begin or end exactly
at one. `assigner_host` has three loaders, as the master cannot
share its host: each process there would start an assigner. Two keys matter only where requests of several keys are
compared (`asp`). In `lint` each family of inputs has the tokens that one part of the
linter tells apart, in all texts up to a length at which its cases meet
(`MCCpplint` lists them), and one family has pairs of files with
configurations and NOLINT comments. Brackets also come with operator functions and `>=`, and
heads of classes and namespaces in files of lines on which one head waits inside another. The triggers for
the length of functions are 2 and 3 lines in place of 250 and 400, so that the quotient is rounded, and bodies
are up to 13 lines long, which is beyond the trigger of every verbosity in use; the width of a line is 3 in place of 80. Symmetry is used only in runs without liveness.

Deadlock is not checked, since every bounded system may stop: the applications
end, and the bounds end them earlier. That the system stops only where it
should is what `GetReturns`, `Terminates` and `AssignerEnds` say.

**Fairness.** Weak fairness of each operating system thread, which runs when it
can: worker threads inside a Get, helper threads, the five threads of a node, loaders, and the assigner for the
message of each loader, since a ROUTER socket queues fairly.
In `KVClient` the servers answer every request, which is an assumption about the
consistency model (SSP and ASP; the run `bsp_gets` shows that BSP does not keep
it). No fairness is assumed for spurious wakeups, for a thread to call Get
again, or for a task to push another request.

## 4. The proofs

Every safety invariant and action property of the server that a passing run checks
is also a theorem, for every value of the constants. TLC evaluates the
named assumptions on each run; they are what the code has: finitely many threads,
nodes and loaders, at least one barrier, ids cut by constants in the right order,
ranges of servers that do not overlap and hold all keys in use, blocks of at least
two bytes, and bounds that are natural numbers (of any size). No theorem uses fairness.

### Server (`ServerProofs`, `SSPModelProofs`, `BSPModelProofs`, `ASPModelProofs`)

`ServerProofs` has the lemmas on the tracker and the storage: Init and Advance keep
`min_clock_` equal to the slowest progress, a thread is the unique
minimum exactly when it is the only one at it, the answer of
AdvanceAndGetChangedMinClock is -1 or the new minimum, one more than the old, and an
Add changes the counts of its sender only.

**SSP**: `Invariance`, `MinClockCorrect`, `NothingStranded`, `StalenessBound`,
`ServiceImplemented`, for every staleness and every initial content of `min_clock_`.
None of the properties is inductive alone. `PendingAhead` needs
`MinClockIsSlowest`: a request is pushed for clock `progress - staleness`, which is
ahead of the minimum only if the unsigned difference did not wrap around, that
is, if the minimum is no larger than the progress. The requests in the loop of
Clock are handled against the present tracker, so whoever waits must still be
registered (`WaitersRegistered`). `BoundedStaleness` also needs that the
storage is the sum of the Adds received and that a thread has clocked as often
as its progress says (`HistoryAgrees`). `SSPInv` is the conjunction, with one
lemma per action. That SSPModel implements `TableService` needs one more
invariant: a Get is in one bucket or in the vector Clock iterates over, once
(`GetsApart`). Each handler is then a step of the abstract table or a stutter.

**BSP**: `Invariance`, `NoUpdateLost`, `SnapshotCorrect`. Conservation is a
count: what was accepted of a thread for a key is what the storage has plus the
positions of `add_buffer_` that are not applied yet, and a turn of Clock's loop moves one. For
the snapshot, when the slowest thread clocks it is alone at the minimum, so all others have
clocked the iteration, and have had nothing accepted since (`IterationsApart`, as long as no
reset is `late`).

**ASP**: `OneHistory`, `ServiceImplemented`. All counts in an answer are still below those of
the storage, so any two answers are ordered by the moments they were read at.

### Client (`KVClientProofs`)

`HandlersSafe`, `GetComplete`, `OwnWritesRead`, for any number of threads and servers, any
vectors of keys and both partition managers. The
invariant `KVInv` is one statement per thread: a request of the Get in progress is the last in its
channel (`RequestsRight`); replies on their way answer that Get, one per server
(`RepliesRight`); the counter of AppBlocker is the number of servers whose part is
done (`CountRight`); the map holds exactly the slices of these (`CacheRight`); and
what a thread sent to a server was applied or is in the channel before the Get
(`SentRight`). A Get can go on only when no part is open, so no handler can find it
gone. Other threads touch only what `View` leaves out.

### Barriers and shutdown (`MailboxProofs`)

`BarrierCorrect`, `TablesCreated`, `NothingIsLost`, for any number of nodes and barriers. Barrier messages carry
no round in the code; the model's have one, which no action reads. `collected` is the
history of the rounds a node received. `barrier_count_` is its cardinality less
the number of nodes for each barrier passed (`CountIsCollected`). Each round of a node
reaches another node once. While some node has not entered barrier *k* nobody has
passed it, so nobody has entered *k+1*: each node contributes at most *k* rounds to a
count, and that one fewer, which is less than a full count stands for. Before the first barrier nothing but barrier messages is on
its way (`Quiet`), hence tables are created first.

`NothingLost` needs the stages of `StopEverything` tied to what is in the queues
(`ShutInv`):

- a node waits for as many Gets as have a message, request or reply, in some queue
  (`GetsCounted`). A message that moves from one queue to another, or is
  replaced by its reply, keeps that number, which is shown with a bijection
  between the positions before and after. A task ends only when the number is 0;
- no request follows the exit message in a sender's queue, and a sender has sent
  everything before it ends (`SenderRight`);
- the message of the last barrier is pushed after the sender is joined, so it is the last
  in its channel, and who has it has everything (`ChannelRight`);
- the server and helper threads are sent their exit after the receiver is
  joined, so it is the last in the server's queue (`ServerRight`, `HelperRight`).

### Tasks (`TaskRunnerProofs`)

`TypesKept`, `RoutingCorrect`, `AllFreed`, `IdsRight`, `RunsOnce`, `ResetFirst`, for any number of
nodes, ids and helpers, all allocations and any number of tasks. `TaskInv` says for each phase of
`Engine::Run` who holds what: nothing between tasks (`FreeRight`), a thread for each of the
first workers while AllocateWorkers loops (`AllocateRight`), and once threads start,
an id that only its own thread gives back, its helper after it (`StartRight`). `SpecRight` says
what WorkerSpec has counted, with a prefix sum as witness. That the smallest free id exists is by
well-foundedness of the natural numbers.

### Loading (`LoadingProofs`)

`GivenOnce`, `AllBlocksGiven`, `ServesToTheEnd`, `AssignerTypes` on the assigner: its
dictionary lists exactly the blocks that are not given, at all their replicas
(`Dictionary`); once a block is given the rejections stay below the requests, so that the dictionary
is never built again (`Rejections`); `finished_workers_` is the hosts of those that left (`ExitInv`).
`ReadsAsAssigned` shows that LineInput takes only steps of BlockAssigner, and
`BlocksReadOnce` carries the first two results over.

`LinesOnce` and `LinesKept` are about the lines, for files of any length. The block with the
newline before a line owns it (`Owns`), the first block the line at position 0. A line is
due while the loader that was given its block has not come to it (`Due`), and reached
afterwards. The invariant (`LineInv`) says that the records of a loader are lines that it has reached
(`RecordsRight`), that all lines it has reached are among its records (`LinesRight`), and that no record
comes twice. Since a block is given once and owns its lines alone, two loaders never
return the same line. Each step of `next` makes exactly one line reached, or none: the lemmas
`LineInBlock`, `LineBeyondBlock` and `LineAfterBlock` show, for a line that ends in the
block, goes on after it and begins after it, that nothing due is skipped between the
position before and the one after. When all loaders are done, all
blocks are given and nothing is due, so all lines are reached.
`LineInv` was found with TLC, on the instance of the run `assigner`, before it was proved.

### What is only model-checked

- Liveness (`GetReturns`, `Terminates`, `AssignerEnds`): TLAPS does not prove
  properties that need fairness or ENABLED.
- The linter: its scanners are recursive operators, and what a recursion computes
  for every text needs an induction over data that the provers cannot do.
- The four violations are traces of TLC.

## 5. What is not modelled

Connecting and binding sockets, error returns of ZeroMQ, serialisation and the
vendored `SArray` (no protocol state); parsing of samples (text); the
numeric loops of the applications; several tables on one server thread, which
share nothing but the queue; tasks of several nodes at once; channels that are full. Data races inside `std::map` (`recv_handles_`,
`queue_map_`, the containers of SimpleIdMapper) are listed as hazards and not modelled: what a corrupted tree
does is not in the code. Integers are unbounded where the code has 32 bits,
except in the comparison of SSP; a run would need 2^31 clocks to tell.

Of HDFS: read errors, files that cannot be opened, and files with different
block sizes.

Of the linter: the regular expressions of the checks that keep no state (tokens stand for
their errors), `CheckBegin` and `CheckEnd` of blocks, `CheckForBadCharacters`, character literals and
escapes, output formats, `--root` and the listing of categories. The model
keeps what the code does where that may surprise, and the properties are stated accordingly: of two
`filter=` lines in one configuration file the first has the last word; the error
for a comment that does not end is raised before NOLINT comments are read;
a NOLINT in a comment of several lines is lost; the header guard ignores NOLINTNEXTLINE; and
`linelength` of a configuration file stays in force for the files after. Further:

- On `a < b >= c` `CloseExpression` takes the `>` of `>=` for the end of a list that
  `<` begins (`cpplint.py:1515`); `ReverseCloseExpression` passes over it
  (`cpplint.py:1611`). They also disagree about `operator<` and `operator>`.
  `ExpressionsReverse` excepts expressions in `< >` with one of these in them, and no others.
- The comment at `cpplint.py:4454` lists the file's own header, in its deprecated
  location, as type 4 and other headers as type 5, and says that a lower type after a
  higher one is complained about. The code puts both into one section (`cpplint.py:797`)
  and never complains about the file's own header. `IncludeOrderExact` has the five types
  and says so.
- `#else` empties the last list of includes. After `#if`, an include, and an inner `#if`
  and `#endif`, that is the list of the inner conditional (`cpplint.py:724`), and the same
  include after `#else` is called a duplicate. `BranchesForgotten` excepts this case.
- A `}` takes away the entry of a class or namespace that still waits for its brace, and after
  `namespace` all is skipped up to the next `{` of the line, a `}` included
  (`cpplint.py:2514`). `BracesCounted` is about code without these (`HeadsComplete`).
- The usage text gives `FOO` as a filter, with the meaning of `-FOO` (`cpplint.py:91`).
  `AddFilters` raises ValueError for a filter without a sign (`cpplint.py:876`), and so does the
  model; no property is about it.
