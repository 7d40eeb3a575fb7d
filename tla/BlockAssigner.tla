---------------------------- MODULE BlockAssigner ----------------------------
(***************************************************************************)
(* Loading a data set from HDFS: the block assigner on the master          *)
(* (io/hdfs_assigner.cpp) and one loading thread on every node, which asks *)
(* it for blocks through its Coordinator (io/coordinator.cpp,              *)
(* io/hdfs_file_splitter.cpp) until there are none, and then sends kExit   *)
(* (lib/svm_loader.hpp).                                                   *)
(*                                                                         *)
(* A loader has at most one message on its way, since ask_master waits for *)
(* the answer; ZeroMQ keeps the messages of one socket in order.  HDFS     *)
(* itself is given by the hosts that hold a replica of each block.         *)
(***************************************************************************)
EXTENDS Integers, FiniteSets

CONSTANTS Loader,        \* nodes, with one loading thread each
          Host,          \* host names
          HostOf,        \* worker_host of each loader
          Block          \* blocks that files under the url may have

\* num_threads of the loader.
NumThreads == 1

\* The answer without a file name.
NoBlock == <<"", 0>>

ASSUME BlockAssignerAssumption ==
  /\ IsFiniteSet(Loader) /\ Loader # {}
  /\ HostOf \in [Loader -> Host]
  /\ NoBlock \notin Block

VARIABLES
  connected,             \* init_hdfs found the name node
  replicas,              \* HDFS: hosts with a replica of each block, none if there is no such block
  running,
  browsed,               \* the url is in files_locality_multi_dict_
  files_locality,        \* blocks under the url that each host still offers
  finish,                \* finish_multi_dict_[id][url].second
  num_workers_alive,
  finished_workers,
  loader,                \* what each loader does
  answer,                \* the answer that is on its way to a loader
  given                  \* history: who was given each block

vars == <<connected, replicas, running, browsed, files_locality, finish, num_workers_alive,
          finished_workers, loader, answer, given>>

hdfs == <<connected, replicas>>
assigner == <<running, browsed, files_locality, finish, num_workers_alive, finished_workers>>

Init ==
  /\ connected \in BOOLEAN
  /\ replicas \in [Block -> SUBSET Host]
  /\ running = TRUE
  /\ browsed = FALSE
  /\ files_locality = [h \in Host |-> {}]
  /\ finish = 0
  /\ num_workers_alive = 0
  /\ finished_workers = {}
  /\ loader = [l \in Loader |-> "reading"]
  /\ answer = [l \in Loader |-> NoBlock]
  /\ given = [b \in Block |-> {}]

-----------------------------------------------------------------------------
(* A loader.                                                               *)

\* fetch_block(false) asks for the next block; ask_master sends the question.
AskMaster(l) ==
  /\ loader[l] = "reading"
  /\ loader' = [loader EXCEPT ![l] = "asked"]
  /\ UNCHANGED <<hdfs, assigner, answer, given>>

\* The answer arrives: the loader reads the block, or is done.
TakeAnswer(l) ==
  /\ loader[l] = "answered"
  /\ loader' = [loader EXCEPT ![l] = IF answer[l] = NoBlock THEN "finished" ELSE "reading"]
  /\ UNCHANGED <<hdfs, assigner, answer, given>>

NotifyMaster(l) ==
  /\ loader[l] = "finished"
  /\ loader' = [loader EXCEPT ![l] = "exit sent"]
  /\ UNCHANGED <<hdfs, assigner, answer, given>>

-----------------------------------------------------------------------------
(* The assigner, HDFSBlockAssigner::Serve, handles one message at a time.  *)

\* browse_hdfs, called for a url that is not in the dictionary.
Locality ==
  IF browsed THEN files_locality
  ELSE [h \in Host |-> {b \in Block : h \in replicas[b]}]

\* Hosts a block may be taken from: the loader's own, if it has one.
SelectedLocalOnly(host) ==      \* mutant: does not look at the other hosts
  IF Locality[host] # {} THEN {host} ELSE {}

Selected(host) ==
  IF Locality[host] # {} THEN {host} ELSE {h \in Host : Locality[h] # {}}

RemoveFromSelected(b, host) ==  \* mutant: keeps the replicas on other hosts
  [Locality EXCEPT ![host] = @ \ {b}]

RemoveReplicas(b, host) == [h \in Host |-> Locality[h] \ {b}]

WorkersAliveUncounted == num_workers_alive      \* mutant: requests are not counted

WorkersAlive == num_workers_alive + NumThreads

(***************************************************************************)
(* handle_block_request: num_workers_alive_ grows with every request, also *)
(* of threads that are counted already.  Of the hosts with blocks left the *)
(* code takes the first one by name, and of its blocks any one.            *)
(***************************************************************************)
GiveBlock(l, host, b) ==
  /\ running /\ loader[l] = "asked"
  /\ connected
  /\ host \in Selected(HostOf[l])
  /\ b \in Locality[host]
  /\ num_workers_alive' = WorkersAlive
  /\ browsed' = TRUE
  /\ finish' = IF browsed THEN finish ELSE 0
  /\ files_locality' = RemoveReplicas(b, host)
  /\ answer' = [answer EXCEPT ![l] = b]
  /\ loader' = [loader EXCEPT ![l] = "answered"]
  /\ given' = [given EXCEPT ![b] = @ \cup {<<l, num_workers_alive>>}]
  /\ UNCHANGED <<hdfs, running, finished_workers>>

\* All blocks are given: the loader is told so, and the url is forgotten when
\* the rejections are as many as the threads.
Reject(l) ==
  /\ running /\ loader[l] = "asked"
  /\ connected
  /\ Selected(HostOf[l]) = {}
  /\ num_workers_alive' = WorkersAlive
  /\ finish' = (IF browsed THEN finish ELSE 0) + 1
  /\ browsed' = (finish' # num_workers_alive')
  /\ files_locality' = Locality
  /\ answer' = [answer EXCEPT ![l] = NoBlock]
  /\ loader' = [loader EXCEPT ![l] = "answered"]
  /\ UNCHANGED <<hdfs, running, finished_workers, given>>

\* Without a connection to HDFS every answer is empty.
RejectUnconnected(l) ==
  /\ running /\ loader[l] = "asked"
  /\ ~connected
  /\ num_workers_alive' = WorkersAlive
  /\ answer' = [answer EXCEPT ![l] = NoBlock]
  /\ loader' = [loader EXCEPT ![l] = "answered"]
  /\ UNCHANGED <<hdfs, running, browsed, files_locality, finish, finished_workers, given>>

\* handle_exit; total_nodes_ is the number of nodes.
AllFinishedEarly(names) ==      \* mutant: does not wait for the last one
  Cardinality(names) + 1 >= Cardinality(Loader)

AllFinishedNever(names) ==      \* mutant: > for ==
  Cardinality(names) > Cardinality(Loader)

AllFinished(names) == Cardinality(names) = Cardinality(Loader)

HandleExit(l) ==
  /\ running /\ loader[l] = "exit sent"
  /\ finished_workers' = finished_workers \cup {HostOf[l]}
  /\ running' = ~AllFinished(finished_workers')
  /\ loader' = [loader EXCEPT ![l] = "gone"]
  /\ UNCHANGED <<hdfs, browsed, files_locality, finish, num_workers_alive, answer, given>>

-----------------------------------------------------------------------------
LoaderStep(l) == AskMaster(l) \/ TakeAnswer(l) \/ NotifyMaster(l)

Serve(l) ==
  \/ \E host \in Host, b \in Block : GiveBlock(l, host, b)
  \/ Reject(l) \/ RejectUnconnected(l) \/ HandleExit(l)

Next == \E l \in Loader : LoaderStep(l) \/ Serve(l)

\* Threads run when they can, and the socket of the assigner queues fairly.
Fairness == \A l \in Loader : WF_vars(LoaderStep(l)) /\ WF_vars(Serve(l))

Spec == Init /\ [][Next]_vars /\ Fairness

-----------------------------------------------------------------------------
TypeOK ==
  /\ connected \in BOOLEAN
  /\ replicas \in [Block -> SUBSET Host]
  /\ running \in BOOLEAN /\ browsed \in BOOLEAN
  /\ files_locality \in [Host -> SUBSET Block]
  /\ finish \in 0 .. num_workers_alive
  /\ finished_workers \subseteq Host
  /\ loader \in [Loader -> {"reading", "asked", "answered", "finished", "exit sent", "gone"}]
  /\ answer \in [Loader -> Block \cup {NoBlock}]
  /\ given \in [Block -> SUBSET (Loader \X Nat)]

(***************************************************************************)
(* No block is loaded twice, although it is listed at every host that has  *)
(* a replica and the dictionary may be built again (answer, browse_hdfs).  *)
(***************************************************************************)
BlockGivenOnce == \A b \in Block : Cardinality(given[b]) <= 1

(***************************************************************************)
(* No block is left out: once a loader was told that there is no more, all *)
(* blocks are given, wherever their replicas are (if HDFS was reached).    *)
(***************************************************************************)
NoneLeftOut ==
  (connected /\ \E l \in Loader : loader[l] \in {"finished", "exit sent", "gone"})
    => \A b \in Block : replicas[b] # {} => given[b] # {}

(***************************************************************************)
(* The assigner serves as long as it is needed: it does not stop while a   *)
(* loader still waits for an answer or is going to ask (handle_exit).      *)
(***************************************************************************)
NotStoppedEarly == ~running => \A l \in Loader : loader[l] = "gone"

(***************************************************************************)
(* "Handle worker exit, terminate when all workers exit": the assigner     *)
(* ends, and with it the load of the master, which joins its thread.       *)
(***************************************************************************)
AssignerEnds == <>(~running)
=============================================================================
