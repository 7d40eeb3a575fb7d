------------------------------- MODULE Mailbox -------------------------------
(***************************************************************************)
(* The communication of the nodes (comm/mailbox.cpp, comm/sender.cpp) and  *)
(* how Engine uses it from the first barrier to the end of StopEverything  *)
(* (driver/engine.cpp).                                                    *)
(*                                                                         *)
(* Every node has a main thread, a sender thread, a receiver thread, one   *)
(* server thread and one helper thread.  The main thread creates its       *)
(* tables, calls Engine::Barrier NumBarriers times, and runs tasks after   *)
(* the first; a task pushes requests on the sender's queue, and            *)
(* Engine::Run returns when all its Gets are answered.  Then it calls      *)
(* StopEverything.                                                         *)
(* Barrier and kExit messages go to the sockets directly; all others pass  *)
(* through the sender's queue.  A step is one section under Mailbox::mu_   *)
(* or one operation of a ThreadsafeQueue.  ZeroMQ keeps the order of the   *)
(* messages of one node to another and loses none; its high-water mark is  *)
(* never reached.                                                          *)
(*                                                                         *)
(* A barrier message has no contents in the code.  Its field round is      *)
(* history, like collected: the barrier of its sender, which no step reads *)
(* but to record it.                                                       *)
(***************************************************************************)
EXTENDS Integers, Sequences, FiniteSets

CONSTANTS Node,
          NumBarriers,   \* calls of Engine::Barrier before StopEverything
          MaxData,       \* bound: requests of the tasks of one node
          Request        \* flags of the requests of tasks

ASSUME MailboxAssumption ==
  /\ IsFiniteSet(Node)
  /\ NumBarriers \in Nat \ {0}
  /\ Request \subseteq {"kAdd", "kGet", "kResetWorkerInModel"}

VARIABLES
  main,            \* what the main thread of each node does
  bar,             \* where it is in Mailbox::Barrier, if it is in it
  unsent,          \* nodes the loop of Barrier has not sent to yet
  barrier_count,
  channel,         \* channel[m][n]: sent by m to n and not received
  receiving,       \* the receiver thread runs
  send_queue,      \* send_message_queue_ of the sender
  sending,         \* the sender thread runs
  work_queue,      \* queue of the server thread
  serving,         \* the server thread runs
  helper_queue,    \* queue of the helper thread
  helping,         \* the helper thread runs
  awaited,         \* Gets of a node's tasks that are not answered
  pushed,          \* history: requests pushed by a node's tasks
  entered, passed, \* history: barriers entered and passed by a node
  collected        \* history: sender and round of the barrier messages a node has received

vars == <<main, bar, unsent, barrier_count, channel, receiving, send_queue, sending,
          work_queue, serving, helper_queue, helping, awaited, pushed, entered, passed, collected>>

barrier == <<bar, unsent, barrier_count, entered, passed, collected>>
threads == <<receiving, sending, serving, helping>>
queues == <<work_queue, helper_queue>>
tasks == <<awaited, pushed>>

NumNodes == Cardinality(Node)

Exit == [flag |-> "kExit"]

Init ==
  /\ main = [n \in Node |-> "app"]
  /\ bar = [n \in Node |-> "outside"]
  /\ unsent = [n \in Node |-> {}]
  /\ barrier_count = [n \in Node |-> 0]
  /\ channel = [m \in Node |-> [n \in Node |-> <<>>]]
  /\ receiving = [n \in Node |-> TRUE]
  /\ send_queue = [n \in Node |-> <<>>]
  /\ sending = [n \in Node |-> TRUE]
  /\ work_queue = [n \in Node |-> <<>>]
  /\ serving = [n \in Node |-> TRUE]
  /\ helper_queue = [n \in Node |-> <<>>]
  /\ helping = [n \in Node |-> TRUE]
  /\ awaited = [n \in Node |-> 0]
  /\ pushed = [n \in Node |-> 0]
  /\ entered = [n \in Node |-> 0]
  /\ passed = [n \in Node |-> 0]
  /\ collected = [n \in Node |-> {}]

Goto(n, from, to) == main[n] = from /\ main' = [main EXCEPT ![n] = to]

\* Mailbox::Send and Mailbox::Recv move whole messages, meta and data frames.
Sent(m, n, msg) == channel' = [channel EXCEPT ![m][n] = Append(@, msg)]

Recv(m, n) == Head(channel[m][n])

Pushed(queue, n, msg) == [queue EXCEPT ![n] = Append(@, msg)]

-----------------------------------------------------------------------------
(* Mailbox::Barrier, called by Engine::Barrier, StopSender and             *)
(* StopReceiving.  The main thread enters it with all Gets of its tasks    *)
(* answered: Run has joined the worker threads.                            *)

EnterBarrier(n) ==
  /\ bar[n] = "outside"
  /\ \/ /\ main[n] = "app" /\ awaited[n] = 0
        /\ main' = [main EXCEPT ![n] = IF entered[n] < NumBarriers THEN "app" ELSE "StopSender"]
     \/ /\ main[n] = "StopMailbox"
        /\ main' = [main EXCEPT ![n] = "StopReceiving"]
  /\ bar' = [bar EXCEPT ![n] = "sending"]
  /\ unsent' = [unsent EXCEPT ![n] = Node]
  /\ entered' = [entered EXCEPT ![n] = @ + 1]
  /\ UNCHANGED <<barrier_count, channel, threads, send_queue, queues, tasks, passed, collected>>

SendBarrier(n, to) ==
  /\ bar[n] = "sending"
  /\ to \in unsent[n]
  /\ unsent' = [unsent EXCEPT ![n] = @ \ {to}]
  /\ Sent(n, to, [flag |-> "kBarrier", round |-> entered[n]])
  /\ UNCHANGED <<main, bar, barrier_count, threads, send_queue, queues, tasks,
                 entered, passed, collected>>

StartWaiting(n) ==
  /\ bar[n] = "sending"
  /\ unsent[n] = {}
  /\ bar' = [bar EXCEPT ![n] = "checking"]
  /\ UNCHANGED <<main, unsent, barrier_count, channel, threads, send_queue, queues,
                 tasks, entered, passed, collected>>

\* The predicate of barrier_cond_.wait.
CollectedEarly(n) == barrier_count[n] >= NumNodes - 1     \* mutant: not waiting for the last

CollectedLate(n) == barrier_count[n] > NumNodes           \* mutant: > for >=

Collected(n) == barrier_count[n] >= NumNodes

\* What is left of barrier_count_ for the next barrier.
CountLeft(n) == barrier_count[n] - NumNodes

Sleep(n) ==
  /\ bar[n] = "checking"
  /\ ~Collected(n)
  /\ bar' = [bar EXCEPT ![n] = "asleep"]
  /\ UNCHANGED <<main, unsent, barrier_count, channel, threads, send_queue, queues,
                 tasks, entered, passed, collected>>

WakeSpuriously(n) ==
  /\ bar[n] = "asleep"
  /\ bar' = [bar EXCEPT ![n] = "checking"]
  /\ UNCHANGED <<main, unsent, barrier_count, channel, threads, send_queue, queues,
                 tasks, entered, passed, collected>>

PassBarrier(n) ==
  /\ bar[n] = "checking"
  /\ Collected(n)
  /\ barrier_count' = [barrier_count EXCEPT ![n] = CountLeft(n)]
  /\ bar' = [bar EXCEPT ![n] = "outside"]
  /\ passed' = [passed EXCEPT ![n] = @ + 1]
  /\ UNCHANGED <<main, unsent, channel, threads, send_queue, queues, tasks, entered, collected>>

-----------------------------------------------------------------------------
(* The rest of Engine::StopEverything.                                     *)

StopSender(n) ==
  /\ bar[n] = "outside"
  /\ Goto(n, "StopSender", "join_sender")
  /\ send_queue' = Pushed(send_queue, n, Exit)
  /\ UNCHANGED <<barrier, channel, threads, queues, tasks>>

JoinSenderNotWaiting(n) ==     \* mutant: no sender_thread_.join()
  /\ Goto(n, "join_sender", "StopMailbox")
  /\ UNCHANGED <<barrier, channel, threads, send_queue, queues, tasks>>

JoinSender(n) ==
  /\ ~sending[n]
  /\ Goto(n, "join_sender", "StopMailbox")
  /\ UNCHANGED <<barrier, channel, threads, send_queue, queues, tasks>>

StopReceiving(n) ==
  /\ bar[n] = "outside"
  /\ Goto(n, "StopReceiving", "join_receiver")
  /\ Sent(n, n, Exit)
  /\ UNCHANGED <<barrier, threads, send_queue, queues, tasks>>

JoinReceiver(n) ==
  /\ ~receiving[n]
  /\ Goto(n, "join_receiver", "CloseSockets")
  /\ UNCHANGED <<barrier, channel, threads, send_queue, queues, tasks>>

\* Kills the registered threads; the helper is one of them, under the id of a
\* worker thread, if a task ran on the node.
KillThreads(n) ==
  /\ Goto(n, "CloseSockets", "linger")
  /\ work_queue' = Pushed(work_queue, n, Exit)
  /\ helper_queue' = IF pushed[n] > 0 THEN Pushed(helper_queue, n, Exit) ELSE helper_queue
  /\ UNCHANGED <<barrier, channel, threads, send_queue, tasks>>

\* linger = -1: waits until the peers have all that was sent to them.
Linger(n) ==
  /\ \A m \in Node : channel[n][m] = <<>>
  /\ Goto(n, "linger", "StopServerThreads")
  /\ UNCHANGED <<barrier, channel, threads, send_queue, queues, tasks>>

JoinServer(n) ==
  /\ ~serving[n]
  /\ Goto(n, "StopServerThreads", "StopWorkerThreads")
  /\ UNCHANGED <<barrier, channel, threads, send_queue, queues, tasks>>

StopWorkerThreads(n) ==
  /\ Goto(n, "StopWorkerThreads", "join_helper")
  /\ helper_queue' = Pushed(helper_queue, n, Exit)
  /\ UNCHANGED <<barrier, channel, threads, send_queue, work_queue, tasks>>

JoinHelper(n) ==
  /\ ~helping[n]
  /\ Goto(n, "join_helper", "stopped")
  /\ UNCHANGED <<barrier, channel, threads, send_queue, queues, tasks>>

-----------------------------------------------------------------------------
\* A worker thread of a task pushes a request to the server thread of a node.
PushRequest(n, to, flag) ==
  /\ main[n] = "app" /\ bar[n] = "outside"
  /\ passed[n] >= 1
  /\ pushed[n] < MaxData
  /\ pushed' = [pushed EXCEPT ![n] = @ + 1]
  /\ awaited' = [awaited EXCEPT ![n] = IF flag = "kGet" THEN @ + 1 ELSE @]
  /\ send_queue' = Pushed(send_queue, n, [flag |-> flag, from |-> n, to |-> to])
  /\ UNCHANGED <<main, barrier, channel, threads, queues>>

\* Sender::Send, one turn.
SenderStep(n) ==
  LET msg == Head(send_queue[n])
  IN  /\ sending[n]
      /\ send_queue[n] # <<>>
      /\ send_queue' = [send_queue EXCEPT ![n] = Tail(@)]
      /\ \/ /\ msg = Exit
            /\ sending' = [sending EXCEPT ![n] = FALSE]
            /\ UNCHANGED channel
         \/ /\ msg # Exit
            /\ Sent(n, msg.to, msg)
            /\ UNCHANGED sending
      /\ UNCHANGED <<main, barrier, receiving, queues, serving, helping, tasks>>

(***************************************************************************)
(* Mailbox::Receiving, one turn, for a message that came from node m: a    *)
(* request goes to the server thread, a reply to the helper thread.        *)
(***************************************************************************)
Receive(n, m) ==
  LET msg == Recv(m, n)
  IN  /\ receiving[n]
      /\ channel[m][n] # <<>>
      /\ channel' = [channel EXCEPT ![m][n] = Tail(@)]
      /\ \/ /\ msg.flag = "kExit"
            /\ receiving' = [receiving EXCEPT ![n] = FALSE]
            /\ UNCHANGED <<bar, barrier_count, collected, queues>>
         \/ /\ msg.flag = "kBarrier"
            /\ barrier_count' = [barrier_count EXCEPT ![n] = @ + 1]
            /\ collected' = [collected EXCEPT ![n] = @ \cup {<<m, msg.round>>}]
            /\ bar' = IF barrier_count'[n] = NumNodes /\ bar[n] = "asleep"
                      THEN [bar EXCEPT ![n] = "checking"] ELSE bar
            /\ UNCHANGED <<receiving, queues>>
         \/ /\ msg.flag \in Request
            /\ work_queue' = Pushed(work_queue, n, msg)
            /\ UNCHANGED <<bar, barrier_count, collected, receiving, helper_queue>>
         \/ /\ msg.flag = "reply"
            /\ helper_queue' = Pushed(helper_queue, n, msg)
            /\ UNCHANGED <<bar, barrier_count, collected, receiving, work_queue>>
      /\ UNCHANGED <<main, unsent, entered, passed, send_queue, sending, serving, helping, tasks>>

\* ServerThread::Main, one turn: a Get and a reset are answered.
ServerStep(n) ==
  LET msg == Head(work_queue[n])
  IN  /\ serving[n]
      /\ work_queue[n] # <<>>
      /\ work_queue' = [work_queue EXCEPT ![n] = Tail(@)]
      /\ \/ /\ msg = Exit
            /\ serving' = [serving EXCEPT ![n] = FALSE]
            /\ UNCHANGED send_queue
         \/ /\ msg # Exit
            /\ send_queue' = IF msg.flag = "kAdd" THEN send_queue
                             ELSE Pushed(send_queue, n,
                                    [flag |-> "reply", of |-> msg.flag, to |-> msg.from])
            /\ UNCHANGED serving
      /\ UNCHANGED <<main, barrier, channel, receiving, sending, helper_queue, helping, tasks>>

\* WorkerHelperThread::Main, one turn: a reply to a Get wakes the worker thread.
HelperStep(n) ==
  LET msg == Head(helper_queue[n])
  IN  /\ helping[n]
      /\ helper_queue[n] # <<>>
      /\ helper_queue' = [helper_queue EXCEPT ![n] = Tail(@)]
      /\ \/ /\ msg = Exit
            /\ helping' = [helping EXCEPT ![n] = FALSE]
            /\ UNCHANGED awaited
         \/ /\ msg # Exit
            /\ awaited' = [awaited EXCEPT ![n] = IF msg.of = "kGet" THEN @ - 1 ELSE @]
            /\ UNCHANGED helping
      /\ UNCHANGED <<main, barrier, channel, receiving, send_queue, sending, work_queue,
                     serving, pushed>>

-----------------------------------------------------------------------------
InBarrier(n) == (\E to \in Node : SendBarrier(n, to)) \/ StartWaiting(n) \/ Sleep(n) \/ PassBarrier(n)

Stopping(n) ==
  \/ StopSender(n) \/ JoinSender(n) \/ StopReceiving(n) \/ JoinReceiver(n)
  \/ KillThreads(n) \/ Linger(n) \/ JoinServer(n) \/ StopWorkerThreads(n) \/ JoinHelper(n)

MainStep(n) == EnterBarrier(n) \/ InBarrier(n) \/ Stopping(n)

ReceiverStep(n) == \E m \in Node : Receive(n, m)

Next ==
  \E n \in Node :
    \/ MainStep(n) \/ WakeSpuriously(n)
    \/ \E to \in Node, flag \in Request : PushRequest(n, to, flag)
    \/ SenderStep(n) \/ ReceiverStep(n) \/ ServerStep(n) \/ HelperStep(n)

(***************************************************************************)
(* All five threads of a node run when they can; the main thread goes on   *)
(* to the next barrier and to StopEverything once its tasks are done.      *)
(***************************************************************************)
Fairness ==
  \A n \in Node : /\ WF_vars(MainStep(n))
                  /\ WF_vars(SenderStep(n))
                  /\ WF_vars(ReceiverStep(n))
                  /\ WF_vars(ServerStep(n))
                  /\ WF_vars(HelperStep(n))

Spec == Init /\ [][Next]_vars /\ Fairness

-----------------------------------------------------------------------------
RequestMsg == [flag : Request, from : Node, to : Node]
ReplyMsg == [flag : {"reply"}, of : Request, to : Node]
DataMsg == RequestMsg \cup ReplyMsg
BarrierMsg == [flag : {"kBarrier"}, round : Nat]

Stage == {"app", "StopSender", "join_sender", "StopMailbox", "StopReceiving", "join_receiver",
          "CloseSockets", "linger", "StopServerThreads", "StopWorkerThreads", "join_helper", "stopped"}

TypeOK ==
  /\ main \in [Node -> Stage]
  /\ bar \in [Node -> {"outside", "sending", "checking", "asleep"}]
  /\ unsent \in [Node -> SUBSET Node]
  /\ barrier_count \in [Node -> Nat]
  /\ channel \in [Node -> [Node -> Seq(DataMsg \cup {Exit} \cup BarrierMsg)]]
  /\ send_queue \in [Node -> Seq(DataMsg \cup {Exit})]
  /\ work_queue \in [Node -> Seq(RequestMsg \cup {Exit})]
  /\ helper_queue \in [Node -> Seq(ReplyMsg \cup {Exit})]
  /\ receiving \in [Node -> BOOLEAN]
  /\ sending \in [Node -> BOOLEAN]
  /\ serving \in [Node -> BOOLEAN]
  /\ helping \in [Node -> BOOLEAN]
  /\ awaited \in [Node -> Nat]
  /\ pushed \in [Node -> Nat]
  /\ entered \in [Node -> Nat]
  /\ passed \in [Node -> Nat]
  /\ collected \in [Node -> SUBSET (Node \X Nat)]

(***************************************************************************)
(* Mailbox::Barrier is a barrier, although its messages carry no round and *)
(* barrier_count_ may already hold messages of the next one: no node gets  *)
(* past barrier k before every node has entered barrier k.                 *)
(***************************************************************************)
BarrierSafe == \A m, n \in Node : passed[n] <= entered[m]

(***************************************************************************)
(* A request finds its table: what reaches the queue of a server thread    *)
(* does so after that node has created its tables, which it does before    *)
(* its first barrier (ServerThread::GetModel answers nullptr otherwise).   *)
(***************************************************************************)
TableCreated ==
  \A n \in Node : work_queue[n] # <<>> => entered[n] >= 1

(***************************************************************************)
(* StopEverything loses nothing that matters: a thread that has ended has  *)
(* no request and no reply to a Get left in its queue, and nothing at all  *)
(* is on its way to a node whose receiver has ended, where it would be     *)
(* lost, or keep a peer from closing its sockets.                          *)
(***************************************************************************)
Matters(msg) == msg.flag \in Request \/ (msg.flag = "reply" /\ msg.of = "kGet")

NothingLost ==
  \A n \in Node :
    /\ ~sending[n] => \A i \in DOMAIN send_queue[n] : ~Matters(send_queue[n][i])
    /\ ~serving[n] => \A i \in DOMAIN work_queue[n] : ~Matters(work_queue[n][i])
    /\ ~helping[n] => \A i \in DOMAIN helper_queue[n] : ~Matters(helper_queue[n][i])
    /\ ~receiving[n] => \A m \in Node : channel[m][n] = <<>>

(***************************************************************************)
(* Every node gets through all its barriers and StopEverything returns:    *)
(* barrier_cond_ is notified only when barrier_count_ equals the number of *)
(* nodes, and no thread is joined that still waits.                        *)
(***************************************************************************)
Terminates == <>(\A n \in Node : main[n] = "stopped")
=============================================================================
