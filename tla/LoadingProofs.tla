---------------------------- MODULE LoadingProofs ----------------------------
(***************************************************************************)
(* The block assigner gives every block exactly once, and serves until all *)
(* loaders have left, for any number of loaders, hosts and blocks; loaders *)
(* that read lines ask it as BlockAssigner says, so that the same holds of *)
(* them.  Together they then read every line of the files once, for files  *)
(* of any length and any size of block.                                    *)
(***************************************************************************)
EXTENDS LineInput, FiniteSetTheorems, WellFoundedInduction, TLAPS

Types ==
  /\ files_locality \in [Host -> SUBSET Block]
  /\ replicas \in [Block -> SUBSET Host]
  /\ finish \in Nat
  /\ num_workers_alive \in Nat
  /\ loader \in [Loader -> {"reading", "asked", "answered", "finished", "exit sent", "gone"}]
  /\ answer \in [Loader -> Block \cup {NoBlock}]
  /\ given \in [Block -> SUBSET (Loader \X Nat)]

SomeGiven == \E b \in Block : given[b] # {}

\* The dictionary lists the blocks that are not given, at all their replicas.
Dictionary ==
  browsed => \A h \in Host, b \in Block : b \in files_locality[h] <=> (h \in replicas[b] /\ given[b] = {})

\* The rejections never catch up with the requests once a block was given, so
\* that the dictionary is not built again.
Rejections ==
  /\ finish <= num_workers_alive
  /\ SomeGiven => browsed /\ finish < num_workers_alive

\* A loader that is told that there is no more finds all blocks given.
Told(l) == loader[l] \in {"finished", "exit sent", "gone"} \/ (loader[l] = "answered" /\ answer[l] = NoBlock)

AllGiven == \A b \in Block : replicas[b] # {} => given[b] # {}

ToldLast == connected => \A l \in Loader : Told(l) => AllGiven

AssignerInv == Types /\ Dictionary /\ Rejections /\ BlockGivenOnce /\ ToldLast

-----------------------------------------------------------------------------
\* What a request finds in the dictionary, built before or now.
LEMMA LocalityExact ==
  ASSUME AssignerInv
  PROVE  /\ Locality \in [Host -> SUBSET Block]
         /\ \A h \in Host, b \in Block : b \in Locality[h] <=> (h \in replicas[b] /\ given[b] = {})
<1>1. CASE browsed
  BY <1>1, Zenon DEF AssignerInv, Types, Dictionary, Locality
<1>2. CASE ~browsed
  <2>1. \A b \in Block : given[b] = {}  BY <1>2, Zenon DEF AssignerInv, Rejections, SomeGiven
  <2> QED  BY <1>2, <2>1, Zenon DEF Locality
<1> QED  BY <1>1, <1>2, Zenon

\* A block is given: none of its replicas is offered again.
LEMMA GiveBlockKeepsInv ==
  ASSUME AssignerInv, NEW l \in Loader, NEW host \in Host, NEW b \in Block, GiveBlock(l, host, b)
  PROVE  AssignerInv'
<1> USE DEF AssignerInv
<1> DEFINE p == <<l, num_workers_alive>>
<1>1. given[b] = {} /\ replicas[b] # {}  BY LocalityExact, Zenon DEF GiveBlock
<1>2. /\ \A c \in Block : given'[c] = IF c = b THEN {p} ELSE given[c]
      /\ given' \in [Block -> SUBSET (Loader \X Nat)]
  <2>1. p \in Loader \X Nat  BY Zenon DEF Types
  <2>2. given' = [given EXCEPT ![b] = @ \cup {p}]  BY Zenon DEF GiveBlock
  <2> QED  BY <1>1, <2>1, <2>2, Zenon DEF Types
<1>3. /\ num_workers_alive' = num_workers_alive + 1
      /\ finish' = finish \/ finish' = 0
      /\ browsed' /\ UNCHANGED <<connected, replicas>>
      /\ files_locality' = [h \in Host |-> Locality[h] \ {b}]
      /\ answer' = [answer EXCEPT ![l] = b]
      /\ loader' = [loader EXCEPT ![l] = "answered"]
  BY Zenon DEF GiveBlock, WorkersAlive, NumThreads, hdfs, RemoveReplicas
<1>4. Types'
  <2>1. files_locality' \in [Host -> SUBSET Block]  BY <1>3, LocalityExact, Zenon
  <2>2. finish' \in Nat /\ num_workers_alive' \in Nat
    <3>1. finish \in Nat /\ num_workers_alive \in Nat  BY Zenon DEF Types
    <3> QED  BY <1>3, <3>1
  <2>3. answer' \in [Loader -> Block \cup {NoBlock}]  BY <1>3, Zenon DEF Types
  <2>4. loader' \in [Loader -> {"reading", "asked", "answered", "finished", "exit sent", "gone"}]
    BY <1>3, Zenon DEF Types
  <2> QED  BY <1>2, <1>3, <2>1, <2>2, <2>3, <2>4, Zenon DEF Types
<1>5. Dictionary'
  <2>1. ASSUME NEW h \in Host, NEW c \in Block
        PROVE  c \in files_locality'[h] <=> (h \in replicas[c] /\ given'[c] = {})
    BY <1>2, <1>3, LocalityExact, Zenon
  <2> QED  BY <1>3, <2>1, Zenon DEF Dictionary
<1>6. Rejections'
  <2>1. finish \in Nat /\ num_workers_alive \in Nat /\ finish <= num_workers_alive  BY Zenon DEF Types, Rejections
  <2>2. finish' < num_workers_alive' /\ finish' <= num_workers_alive'  BY <1>3, <2>1
  <2> QED  BY <1>3, <2>2, Zenon DEF Rejections
<1>7. BlockGivenOnce'
  <2>1. Cardinality({p}) = 1  BY FS_Singleton, Zenon
  <2>2. ASSUME NEW c \in Block  PROVE Cardinality(given'[c]) <= 1
    BY <1>2, <2>1 DEF BlockGivenOnce
  <2> QED  BY <2>2, Zenon DEF BlockGivenOnce
<1>8. ToldLast'
  <2>1. ASSUME NEW m \in Loader, Told(m)', connected  PROVE AllGiven'
    <3>1. m # l  BY <1>3, <2>1, BlockAssignerAssumption, Zenon DEF Told, Types
    <3>2. Told(m)  BY <1>3, <2>1, <3>1, Zenon DEF Told, Types
    <3>3. AllGiven  BY <2>1, <3>2, Zenon DEF ToldLast
    <3> QED  BY <1>2, <1>3, <3>3, Zenon DEF AllGiven
  <2> QED  BY <1>3, <2>1, Zenon DEF ToldLast
<1> QED  BY <1>4, <1>5, <1>6, <1>7, <1>8, Zenon

\* A loader is rejected only when all blocks are given.
LEMMA RejectKeepsInv ==
  ASSUME AssignerInv, NEW l \in Loader, Reject(l)
  PROVE  AssignerInv'
<1> USE DEF AssignerInv
<1>1. \A h \in Host : Locality[h] = {}
  <2>1. HostOf[l] \in Host  BY BlockAssignerAssumption, Zenon
  <2> QED  BY <2>1, Zenon DEF Reject, Selected
<1>2. AllGiven
  <2>1. SUFFICES ASSUME NEW b \in Block, replicas[b] # {}  PROVE given[b] # {}
    BY Zenon DEF AllGiven
  <2>2. PICK h \in Host : h \in replicas[b]  BY <2>1, Zenon DEF Types
  <2> QED  BY <1>1, <2>2, LocalityExact, Zenon
<1>3. /\ num_workers_alive' = num_workers_alive + 1
      /\ finish' = finish + 1 \/ finish' = 0 + 1
      /\ browsed => finish' = finish + 1
      /\ finish' # num_workers_alive' => browsed'
      /\ files_locality' = Locality
      /\ answer' = [answer EXCEPT ![l] = NoBlock]
      /\ loader' = [loader EXCEPT ![l] = "answered"]
      /\ UNCHANGED <<connected, replicas, given>>
  BY Zenon DEF Reject, WorkersAlive, NumThreads, hdfs
<1>4. Types'
  <2>1. finish' \in Nat /\ num_workers_alive' \in Nat
    <3>1. finish \in Nat /\ num_workers_alive \in Nat  BY Zenon DEF Types
    <3> QED  BY <1>3, <3>1
  <2>2. answer' \in [Loader -> Block \cup {NoBlock}]  BY <1>3, Zenon DEF Types
  <2>3. loader' \in [Loader -> {"reading", "asked", "answered", "finished", "exit sent", "gone"}]
    BY <1>3, Zenon DEF Types
  <2> QED  BY <1>3, <2>1, <2>2, <2>3, LocalityExact, Zenon DEF Types
<1>5. Dictionary'  BY <1>3, LocalityExact, Zenon DEF Dictionary
<1>6. Rejections'
  <2>1. finish \in Nat /\ num_workers_alive \in Nat  BY Zenon DEF Types
  <2>2. finish' <= num_workers_alive'  BY <1>3, <2>1 DEF Rejections
  <2>3. SomeGiven' => SomeGiven  BY <1>3, Zenon DEF SomeGiven
  <2>4. SomeGiven => finish' < num_workers_alive'
    <3>1. SUFFICES ASSUME SomeGiven  PROVE finish' < num_workers_alive'  BY Zenon
    <3>2. finish' = finish + 1 /\ finish < num_workers_alive  BY <1>3, <3>1, Zenon DEF Rejections
    <3> QED  BY <1>3, <2>1, <3>2
  <2>5. finish' < num_workers_alive' => browsed'
    <3>1. finish' \in Nat /\ num_workers_alive' \in Nat  BY <1>4, Zenon DEF Types
    <3>2. finish' < num_workers_alive' => finish' # num_workers_alive'  BY <3>1
    <3> QED  BY <1>3, <3>2, Zenon
  <2> QED  BY <2>2, <2>3, <2>4, <2>5, Zenon DEF Rejections
<1>7. BlockGivenOnce'  BY <1>3, Zenon DEF BlockGivenOnce
<1>8. ToldLast'  BY <1>2, <1>3, Zenon DEF ToldLast, AllGiven
<1> QED  BY <1>4, <1>5, <1>6, <1>7, <1>8, Zenon

\* The other steps neither give a block nor tell a loader that there is none.
LEMMA OthersKeepInv ==
  ASSUME AssignerInv, NEW l \in Loader,
         \/ AskMaster(l) \/ TakeAnswer(l) \/ NotifyMaster(l) \/ RejectUnconnected(l) \/ HandleExit(l)
  PROVE  AssignerInv'
<1> USE DEF AssignerInv
<1>1. /\ UNCHANGED <<connected, replicas, browsed, files_locality, finish, given>>
      /\ num_workers_alive' \in {num_workers_alive, num_workers_alive + 1}
      /\ answer' \in [Loader -> Block \cup {NoBlock}]
  BY Zenon DEF Types, AskMaster, TakeAnswer, NotifyMaster, RejectUnconnected, HandleExit, hdfs, assigner,
         WorkersAlive, NumThreads
<1>2. loader' \in [Loader -> {"reading", "asked", "answered", "finished", "exit sent", "gone"}]
  BY Zenon DEF Types, AskMaster, TakeAnswer, NotifyMaster, RejectUnconnected, HandleExit
<1>3. ASSUME NEW m \in Loader, connected, Told(m)'  PROVE Told(m)
  BY <1>3, Zenon DEF Told, Types, AskMaster, TakeAnswer, NotifyMaster, RejectUnconnected, HandleExit, hdfs
<1>4. Types'
  <2>1. num_workers_alive' \in Nat
    <3>1. num_workers_alive \in Nat  BY Zenon DEF Types
    <3> QED  BY <1>1, <3>1
  <2> QED  BY <1>1, <1>2, <2>1, Zenon DEF Types
<1>5. Dictionary' /\ BlockGivenOnce'  BY <1>1, Zenon DEF Dictionary, BlockGivenOnce
<1>6. Rejections'
  <2>1. finish \in Nat /\ num_workers_alive \in Nat  BY Zenon DEF Types
  <2>2. /\ finish <= num_workers_alive => finish' <= num_workers_alive'
        /\ finish < num_workers_alive => finish' < num_workers_alive'
    BY <1>1, <2>1
  <2>3. SomeGiven' => SomeGiven  BY <1>1, Zenon DEF SomeGiven
  <2> QED  BY <1>1, <2>2, <2>3, Zenon DEF Rejections
<1>7. ToldLast'  BY <1>1, <1>3, Zenon DEF ToldLast, AllGiven
<1> QED  BY <1>4, <1>5, <1>6, <1>7, Zenon

\* The invariant holds at first.
LEMMA InitHasInv == Init => AssignerInv
<1> SUFFICES ASSUME Init  PROVE AssignerInv  BY Zenon
<1>1. Types  BY Zenon DEF Init, Types
<1>2. Dictionary /\ Rejections  BY DEF Init, Dictionary, Rejections, SomeGiven
<1>3. BlockGivenOnce  BY FS_EmptySet DEF Init, BlockGivenOnce
<1>4. ToldLast  BY Zenon DEF Init, ToldLast, Told
<1> QED  BY <1>1, <1>2, <1>3, <1>4, Zenon DEF AssignerInv

\* Every step keeps it.
LEMMA NextKeepsInv == AssignerInv /\ [Next]_vars => AssignerInv'
<1> SUFFICES ASSUME AssignerInv, [Next]_vars  PROVE AssignerInv'  BY Zenon
<1>1. CASE UNCHANGED vars
  BY <1>1, Zenon DEF vars, AssignerInv, Types, Dictionary, Rejections, SomeGiven, BlockGivenOnce, ToldLast, Told, AllGiven
<1>2. ASSUME NEW l \in Loader, LoaderStep(l)  PROVE AssignerInv'
  BY <1>2, OthersKeepInv, Zenon DEF LoaderStep
<1>3. ASSUME NEW l \in Loader, Serve(l)  PROVE AssignerInv'
  BY <1>3, GiveBlockKeepsInv, RejectKeepsInv, OthersKeepInv, Zenon DEF Serve
<1> QED  BY <1>1, <1>2, <1>3, Zenon DEF Next

(***************************************************************************)
(* However many loaders and replicas there are, HDFSBlockAssigner::answer  *)
(* gives no block twice.                                                   *)
(***************************************************************************)
THEOREM GivenOnce == Spec => []BlockGivenOnce
<1>1. AssignerInv => BlockGivenOnce  BY Zenon DEF AssignerInv
<1> QED  BY <1>1, InitHasInv, NextKeepsInv, PTL DEF Spec

(***************************************************************************)
(* However many loaders and replicas there are, no loader is done before   *)
(* HDFSBlockAssigner::answer has given every block.                        *)
(***************************************************************************)
THEOREM AllBlocksGiven == Spec => []NoneLeftOut
<1>1. AssignerInv => NoneLeftOut  BY Zenon DEF AssignerInv, NoneLeftOut, ToldLast, Told, AllGiven
<1> QED  BY <1>1, InitHasInv, NextKeepsInv, PTL DEF Spec

-----------------------------------------------------------------------------
(* The end of the assigner.                                                *)

Gone == {l \in Loader : loader[l] = "gone"}

\* finished_workers_ has the hosts of the loaders that left; it is full when it
\* has as many elements as there are loaders.
ExitInv ==
  /\ loader \in [Loader -> {"reading", "asked", "answered", "finished", "exit sent", "gone"}]
  /\ finished_workers = {HostOf[l] : l \in Gone}
  /\ NotStoppedEarly

\* Counting host names can only count too few loaders.
LEMMA FullMeansAll ==
  ASSUME NEW G \in SUBSET Loader, AllFinished({HostOf[l] : l \in G})
  PROVE  G = Loader
<1> DEFINE f == [l \in G |-> HostOf[l]]
           names == {HostOf[l] : l \in G}
<1>1. IsFiniteSet(Loader) /\ IsFiniteSet(G)
  BY BlockAssignerAssumption, FS_Subset, Zenon
<1>2. f \in Surjection(G, names)  BY Zenon DEF Surjection
<1>3. Cardinality(names) <= Cardinality(G)  BY <1>1, <1>2, FS_Surjection, Zenon
<1>4. Cardinality(names) = Cardinality(Loader)  BY Zenon DEF AllFinished
<1>5. Cardinality(G) <= Cardinality(Loader) /\ (Cardinality(Loader) = Cardinality(G) => Loader = G)
  BY <1>1, FS_Subset, Zenon
<1>6. Cardinality(G) \in Nat /\ Cardinality(Loader) \in Nat  BY <1>1, FS_CardinalityType, Zenon
<1> QED  BY <1>3, <1>4, <1>5, <1>6

\* Every step keeps it.
LEMMA NextKeepsExitInv == ExitInv /\ [Next]_vars => ExitInv'
<1> SUFFICES ASSUME ExitInv, [Next]_vars  PROVE ExitInv'  BY Zenon
<1> USE DEF ExitInv
<1>1. CASE UNCHANGED vars  BY <1>1, Zenon DEF vars, NotStoppedEarly, Gone
<1>2. ASSUME NEW l \in Loader, HandleExit(l)  PROVE ExitInv'
  <2>1. /\ loader' = [loader EXCEPT ![l] = "gone"]
        /\ finished_workers' = finished_workers \cup {HostOf[l]}
        /\ running' = ~AllFinished(finished_workers')
    BY <1>2, Zenon DEF HandleExit
  <2>2. Gone' = Gone \cup {l}  BY <2>1, Zenon DEF Gone
  <2>3. finished_workers' = {HostOf[m] : m \in Gone'}  BY <2>1, <2>2, Zenon
  <2>4. ~running' => Gone' = Loader
    <3>1. SUFFICES ASSUME AllFinished({HostOf[m] : m \in Gone'})  PROVE Gone' = Loader
      BY <2>1, <2>3, Zenon
    <3>2. Gone' \in SUBSET Loader  BY Zenon DEF Gone
    <3> QED  BY <3>1, <3>2, FullMeansAll, Zenon
  <2>5. NotStoppedEarly'  BY <2>4, Zenon DEF NotStoppedEarly, Gone
  <2> QED  BY <2>1, <2>3, <2>5, Zenon
<1>3. ASSUME NEW l \in Loader, LoaderStep(l) \/ (Serve(l) /\ ~HandleExit(l))  PROVE ExitInv'
  <2>1. /\ UNCHANGED <<running, finished_workers>>
        /\ loader' \in [Loader -> {"reading", "asked", "answered", "finished", "exit sent", "gone"}]
        /\ \A m \in Loader : loader'[m] = "gone" <=> loader[m] = "gone"
    BY <1>3, Zenon DEF LoaderStep, Serve, AskMaster, TakeAnswer, NotifyMaster, GiveBlock, Reject, RejectUnconnected, assigner
  <2>2. Gone' = Gone  BY <2>1, Zenon DEF Gone
  <2> QED  BY <2>1, <2>2, Zenon DEF NotStoppedEarly
<1> QED  BY <1>1, <1>2, <1>3, Zenon DEF Next, Serve

(***************************************************************************)
(* HDFSBlockAssigner::handle_exit never stops the assigner while a loader  *)
(* still needs it, on whatever hosts the loaders are.                      *)
(***************************************************************************)
THEOREM ServesToTheEnd == Spec => []NotStoppedEarly
<1>1. Init => ExitInv  BY Zenon DEF Init, ExitInv, NotStoppedEarly, Gone
<1>2. ExitInv => NotStoppedEarly  BY Zenon DEF ExitInv
<1> QED  BY <1>1, <1>2, NextKeepsExitInv, PTL DEF Spec

-----------------------------------------------------------------------------
(* The types, which need a little more of the state.                       *)

OtherTypes ==
  /\ connected \in BOOLEAN /\ running \in BOOLEAN /\ browsed \in BOOLEAN
  /\ finished_workers \subseteq Host

\* What the assigner writes to its flags and to finished_workers_ has their types.
LEMMA NextKeepsOtherTypes == AssignerInv /\ OtherTypes /\ [Next]_vars => OtherTypes'
<1> SUFFICES ASSUME OtherTypes, [Next]_vars  PROVE OtherTypes'  BY Zenon
<1>1. CASE UNCHANGED vars  BY <1>1, Zenon DEF vars, OtherTypes
<1>2. ASSUME NEW l \in Loader, LoaderStep(l)  PROVE OtherTypes'
  BY <1>2, Zenon DEF LoaderStep, AskMaster, TakeAnswer, NotifyMaster, hdfs, assigner, OtherTypes
<1>3. ASSUME NEW l \in Loader, NEW host \in Host, NEW b \in Block, GiveBlock(l, host, b)  PROVE OtherTypes'
  BY <1>3, Zenon DEF GiveBlock, hdfs, OtherTypes
<1>4. ASSUME NEW l \in Loader, Reject(l)  PROVE OtherTypes'
  <2>1. browsed' \in BOOLEAN  BY <1>4, Zenon DEF Reject
  <2> QED  BY <1>4, <2>1, Zenon DEF Reject, hdfs, OtherTypes
<1>5. ASSUME NEW l \in Loader, RejectUnconnected(l)  PROVE OtherTypes'
  BY <1>5, Zenon DEF RejectUnconnected, hdfs, OtherTypes
<1>6. ASSUME NEW l \in Loader, HandleExit(l)  PROVE OtherTypes'
  <2>1. running' \in BOOLEAN  BY <1>6, Zenon DEF HandleExit
  <2>2. HostOf[l] \in Host  BY BlockAssignerAssumption, Zenon
  <2> QED  BY <1>6, <2>1, <2>2, Zenon DEF HandleExit, hdfs, OtherTypes
<1> QED  BY <1>1, <1>2, <1>3, <1>4, <1>5, <1>6, Zenon DEF Next, Serve

(***************************************************************************)
(* The variables keep their types; finish, which handle_block_request      *)
(* compares with num_workers_alive_ by equality, never passes it.          *)
(***************************************************************************)
THEOREM AssignerTypes == Spec => []TypeOK
<1>1. Init => OtherTypes  BY Zenon DEF Init, OtherTypes
<1>2. ASSUME AssignerInv, OtherTypes  PROVE TypeOK
  <2>1. finish \in Nat /\ num_workers_alive \in Nat /\ finish <= num_workers_alive
    BY <1>2, Zenon DEF AssignerInv, Types, Rejections
  <2>2. finish \in 0 .. num_workers_alive  BY <2>1
  <2> QED  BY <1>2, <2>2, Zenon DEF AssignerInv, Types, OtherTypes, TypeOK
<1> QED  BY <1>1, <1>2, InitHasInv, NextKeepsInv, NextKeepsOtherTypes, PTL DEF Spec

-----------------------------------------------------------------------------
(* Loaders that read lines.                                                *)

\* A step of LineInputFormat::next asks the master as a loader of BlockAssigner or is its own.
LEMMA StepRefines == [LoadNext]_loadVars => [Next]_vars
<1> SUFFICES ASSUME [LoadNext]_loadVars  PROVE [Next]_vars  BY Zenon
<1>1. CASE UNCHANGED loadVars  BY <1>1, Zenon DEF loadVars
<1>2. ASSUME NEW l \in Loader, ReaderStep(l)  PROVE [Next]_vars
  <2>1. CASE NextBlock(l) \/ NextAtEnd(l)
    BY <2>1, Zenon DEF NextBlock, NextAtEnd, LoaderStep, Next
  <2>2. CASE NextFromRest(l) \/ NextLine(l) \/ NextLastLine(l)
    BY <2>2, Zenon DEF NextFromRest, NextLine, NextLastLine
  <2>3. CASE TakeBlock(l) \/ NotifyMaster(l)
    BY <2>3, Zenon DEF TakeBlock, LoaderStep, Next
  <2> QED  BY <1>2, <2>1, <2>2, <2>3, Zenon DEF ReaderStep
<1>3. ASSUME NEW l \in Loader, Serve(l)  PROVE [Next]_vars  BY <1>3, Zenon DEF Next
<1> QED  BY <1>1, <1>2, <1>3, Zenon DEF LoadNext

(***************************************************************************)
(* Loaders that read lines (LineInputFormat::next) behave to the assigner  *)
(* as those of BlockAssigner.                                              *)
(***************************************************************************)
THEOREM ReadsAsAssigned == LoadSpec => Init /\ [][Next]_vars
<1>1. LoadInit => Init  BY Zenon DEF LoadInit
<1> QED  BY <1>1, StepRefines, PTL DEF LoadSpec

(***************************************************************************)
(* Whatever the files hold and whoever reads them, no block is read twice  *)
(* and no loader is done before every block was given.                     *)
(***************************************************************************)
THEOREM BlocksReadOnce == LoadSpec => [](BlockGivenOnce /\ NoneLeftOut)
<1>1. AssignerInv => BlockGivenOnce /\ NoneLeftOut
  BY Zenon DEF AssignerInv, NoneLeftOut, ToldLast, Told, AllGiven
<1> QED  BY <1>1, ReadsAsAssigned, InitHasInv, NextKeepsInv, PTL

-----------------------------------------------------------------------------
(* Newlines, lines and blocks.                                             *)

Less == {p \in Nat \X Nat : p[1] < p[2]}

\* A set of positions that is not empty has a least one.
LEMMA MinIsLeast ==
  ASSUME NEW S, S \in SUBSET Nat, S # {}
  PROVE  Min(S) \in S /\ \A y \in S : Min(S) <= y
<1>1. IsWellFoundedOn(Less, Nat)  BY NatLessThanWellFounded, Zenon DEF OpToRel, Less
<1>2. PICK x \in S : \A y \in S : ~(<<y, x>> \in Less)  BY <1>1, WFMin, Zenon
<1>3. ASSUME NEW y \in S  PROVE x <= y
  <2>1. x \in Nat /\ y \in Nat  BY Zenon
  <2>2. <<y, x>> \in Nat \X Nat /\ ~(<<y, x>> \in Less)  BY <1>2, <2>1, Zenon
  <2>3. ~(y < x)  BY <2>2, Zenon DEF Less
  <2> QED  BY <2>1, <2>3
<1> QED  BY <1>3, Zenon DEF Min

\* find_next finds the first newline.
LEMMA FirstFound ==
  ASSUME NEW s \in Seq(Byte), NEW from \in Nat
  PROVE  /\ \/ FindNext(s, from) = NPos
            \/ /\ FindNext(s, from) \in Nat /\ from <= FindNext(s, from) /\ FindNext(s, from) < Len(s)
               /\ s[FindNext(s, from) + 1] = NL
         /\ \A i \in Nat : from <= i /\ i < Len(s) /\ (FindNext(s, from) = NPos \/ i < FindNext(s, from))
                           => s[i + 1] # NL
<1> DEFINE hits == {i \in from .. Len(s) - 1 : s[i + 1] = NL}
<1>1. Len(s) \in Nat  OBVIOUS
<1>2. hits \in SUBSET Nat  BY <1>1
<1>3. \A i : i \in hits <=> i \in Nat /\ from <= i /\ i < Len(s) /\ s[i + 1] = NL  BY <1>1
<1>4. FindNext(s, from) = IF hits = {} THEN NPos ELSE Min(hits)  BY Zenon DEF FindNext
<1> HIDE DEF hits
<1>5. CASE hits = {}  BY <1>3, <1>4, <1>5, Zenon
<1>6. CASE hits # {}
  <2>1. Min(hits) \in hits /\ \A y \in hits : Min(hits) <= y  BY <1>2, <1>6, MinIsLeast, Zenon
  <2>2. Min(hits) \in Nat  BY <1>2, <2>1, Zenon
  <2>3. Min(hits) # NPos  BY <2>2 DEF NPos
  <2>4. FindNext(s, from) = Min(hits)  BY <1>4, <1>6, Zenon
  <2>5. ASSUME NEW i \in Nat, from <= i, i < Len(s), i < Min(hits)  PROVE s[i + 1] # NL
    <3>1. i \notin hits  BY <2>1, <2>2, <2>5
    <3> QED  BY <1>3, <2>5, <3>1, Zenon
  <2> QED  BY <1>3, <2>1, <2>3, <2>4, <2>5, Zenon
<1> QED  BY <1>5, <1>6, Zenon

\* Where a line that begins at position a ends.
LineEnd(s, a) == IF FindNext(s, a) = NPos THEN Len(s) ELSE FindNext(s, a)

LineOf(f, a, e) ==
  /\ a \in Nat /\ e \in Nat /\ a < e /\ e <= Len(data[f])
  /\ a = 0 \/ data[f][a] = NL
  /\ e = Len(data[f]) \/ data[f][e + 1] = NL
  /\ \A i \in Nat : a < i /\ i <= e => data[f][i] # NL

\* What a line is.
LEMMA LineParts ==
  ASSUME data \in [File -> Seq(Byte)]
  PROVE  /\ \A f \in File, a, e \in Nat : LineOf(f, a, e) => <<f, a, e>> \in Lines
         /\ \A x \in Lines : x = <<x[1], x[2], x[3]>> /\ x[1] \in File /\ LineOf(x[1], x[2], x[3])
<1>1. ASSUME NEW f \in File, NEW a \in Nat, NEW e \in Nat, LineOf(f, a, e)  PROVE <<f, a, e>> \in Lines
  <2>1. Len(data[f]) \in Nat  OBVIOUS
  <2>2. a \in 0 .. Len(data[f]) - 1 /\ e \in 1 .. Len(data[f])  BY <1>1, <2>1 DEF LineOf
  <2>3. (a = 0 \/ data[f][a] = NL) /\ (e = Len(data[f]) \/ data[f][e + 1] = NL)  BY <1>1, Zenon DEF LineOf
  <2>4. <<f, a, e>> \in LinesOf(f)  BY <2>2, <2>3 DEF LinesOf
  <2>5. \A i \in a + 1 .. e : data[f][i] # NL
    <3>1. \A i \in a + 1 .. e : i \in Nat /\ a < i /\ i <= e  OBVIOUS
    <3> QED  BY <1>1, <3>1, Zenon DEF LineOf
  <2>6. a < e  BY <1>1, Zenon DEF LineOf
  <2> QED  BY <2>4, <2>5, <2>6 DEF Lines
<1>2. ASSUME NEW x \in Lines  PROVE x = <<x[1], x[2], x[3]>> /\ x[1] \in File /\ LineOf(x[1], x[2], x[3])
  <2>1. PICK f \in File : x \in LinesOf(f)  BY Zenon DEF Lines
  <2>2. PICK a \in 0 .. Len(data[f]) - 1, e \in 1 .. Len(data[f]) :
          x = <<f, a, e>> /\ (a = 0 \/ data[f][a] = NL) /\ (e = Len(data[f]) \/ data[f][e + 1] = NL)
    BY <2>1 DEF LinesOf
  <2>3. x[1] = f /\ x[2] = a /\ x[3] = e  BY <2>2
  <2>4. a < e /\ \A i \in a + 1 .. e : data[f][i] # NL  BY <2>3, Zenon DEF Lines
  <2>5. Len(data[f]) \in Nat  OBVIOUS
  <2>6. a \in Nat /\ e \in Nat /\ e <= Len(data[f])  BY <2>5
  <2>7. \A i \in Nat : a < i /\ i <= e => data[f][i] # NL  BY <2>4, <2>6
  <2> QED  BY <2>2, <2>3, <2>4, <2>6, <2>7, Zenon DEF LineOf
<1> QED  BY <1>1, <1>2, Zenon

\* The line that begins at a position, if there is one, ends at LineEnd.
LEMMA LineEnds ==
  ASSUME data \in [File -> Seq(Byte)], NEW f \in File, NEW a \in Nat, a <= Len(data[f]), a = 0 \/ data[f][a] = NL
  PROVE  /\ LineEnd(data[f], a) \in Nat /\ a <= LineEnd(data[f], a)
         /\ a < LineEnd(data[f], a) => LineOf(f, a, LineEnd(data[f], a))
         /\ \A e : LineOf(f, a, e) => e = LineEnd(data[f], a)
<1> DEFINE s == data[f]
           h == FindNext(s, a)
           z == LineEnd(s, a)
<1>1. s \in Seq(Byte) /\ Len(s) \in Nat  OBVIOUS
<1>2. /\ h = NPos \/ (h \in Nat /\ a <= h /\ h < Len(s) /\ s[h + 1] = NL)
      /\ \A i \in Nat : a <= i /\ i < Len(s) /\ (h = NPos \/ i < h) => s[i + 1] # NL
  BY <1>1, FirstFound, Zenon
<1>3. z = IF h = NPos THEN Len(s) ELSE h  BY Zenon DEF LineEnd
<1> HIDE DEF h, s, z
<1>4. /\ z \in Nat /\ a <= z /\ z <= Len(s) /\ (z = Len(s) \/ s[z + 1] = NL)
      /\ \A i \in Nat : a <= i /\ i < z => s[i + 1] # NL
  <2>1. CASE h = NPos  BY <1>1, <1>2, <1>3, <2>1 DEF s
  <2>2. CASE h # NPos
    <3>1. z = h /\ h \in Nat /\ a <= h /\ h < Len(s) /\ s[h + 1] = NL  BY <1>2, <1>3, <2>2, Zenon
    <3>2. \A i \in Nat : i < z => i < Len(s)  BY <1>1, <3>1
    <3>3. z <= Len(s)  BY <1>1, <3>1
    <3> QED  BY <1>2, <3>1, <3>2, <3>3, Zenon
  <2> QED  BY <2>1, <2>2, Zenon
<1>5. \A i \in Nat : a < i /\ i <= z => s[i] # NL
  <2>1. TAKE i \in Nat
  <2>2. HAVE a < i /\ i <= z
  <2>3. i - 1 \in Nat /\ a <= i - 1 /\ i - 1 < z /\ (i - 1) + 1 = i  BY <1>4, <2>2
  <2> QED  BY <1>4, <2>3, Zenon
<1>6. a < z => LineOf(f, a, z)  BY <1>4, <1>5, Zenon DEF LineOf, s
<1>7. ASSUME NEW e, LineOf(f, a, e)  PROVE e = z
  <2>1. /\ e \in Nat /\ a < e /\ e <= Len(s) /\ (e = Len(s) \/ s[e + 1] = NL)
        /\ \A i \in Nat : a < i /\ i <= e => s[i] # NL
    BY <1>7, Zenon DEF LineOf, s
  <2>2. ASSUME e < z  PROVE FALSE
    <3>1. a <= e /\ e # Len(s)  BY <1>1, <1>4, <2>1, <2>2
    <3>2. s[e + 1] # NL  BY <1>4, <2>1, <2>2, <3>1, Zenon
    <3> QED  BY <2>1, <3>1, <3>2, Zenon
  <2>3. ASSUME z < e  PROVE FALSE
    <3>1. z # Len(s) /\ z + 1 \in Nat /\ a < z + 1 /\ z + 1 <= e  BY <1>1, <1>4, <2>1, <2>3
    <3>2. s[z + 1] # NL  BY <2>1, <3>1, Zenon
    <3> QED  BY <1>4, <3>1, <3>2, Zenon
  <2> QED  BY <1>4, <2>1, <2>2, <2>3
<1> QED  BY <1>4, <1>6, <1>7, Zenon DEF s, z

\* The assumption on files and blocks, in parts.
LEMMA InputFacts ==
  /\ BlockSize \in Nat \ {0, 1} /\ Contents \subseteq [File -> Seq(Byte)] /\ Cardinality(Block) \in Nat
  /\ \A d \in Contents : \A f \in File : \A k \in 0 .. Len(d[f]) :
       k * BlockSize < Len(d[f]) => <<f, k * BlockSize>> \in Block
<1>1. IsFiniteSet(Block)  BY LineInputAssumption
<1>2. Cardinality(Block) \in Nat  BY <1>1, FS_CardinalityType, Zenon
<1> QED  BY <1>2, LineInputAssumption

\* Blocks begin at multiples of the block size.
LEMMA BlockParts ==
  ASSUME NEW b \in Block
  PROVE  /\ b = <<b[1], b[2]>> /\ b[1] \in File /\ b[2] \in Nat
         /\ \E k \in Nat : b[2] = k * BlockSize
<1>1. Cardinality(Block) \in Nat  BY InputFacts, Zenon
<1>2. b \in {<<f, k * BlockSize>> : f \in File, k \in 0 .. Cardinality(Block)}  BY LineInputAssumption
<1>3. PICK f \in File, k \in 0 .. Cardinality(Block) : b = <<f, k * BlockSize>>  BY <1>2
<1>4. k \in Nat  BY <1>1
<1>5. k * BlockSize \in Nat  BY <1>4, LineInputAssumption
<1> QED  BY <1>3, <1>4, <1>5

\* Multiples of the block size are at least a block apart.
LEMMA Multiples ==
  ASSUME NEW j \in Nat, NEW k \in Nat, j * BlockSize < k * BlockSize
  PROVE  j * BlockSize + BlockSize <= k * BlockSize
<1> DEFINE B == BlockSize
<1>1. B \in Nat /\ B >= 2  BY LineInputAssumption
<1> HIDE DEF B
<1>2. \A x, y \in Nat : x <= y => x * B <= y * B  BY <1>1
<1>3. j < k  BY <1>1, <1>2 DEF B
<1>4. (j + 1) * B = j * B + B  BY <1>1
<1>5. j + 1 \in Nat /\ j + 1 <= k  BY <1>3
<1>6. (j + 1) * B <= k * B  BY <1>2, <1>5
<1> QED  BY <1>4, <1>6 DEF B

\* Every position is in a block.
LEMMA InSomeBlock ==
  ASSUME NEW p \in Nat
  PROVE  \E k \in Nat : k * BlockSize <= p /\ p < k * BlockSize + BlockSize /\ k <= p
<1> DEFINE B == BlockSize
           S == {k \in Nat : p < k * B + B}
           m == Min(S)
<1>1. B \in Nat /\ B >= 2  BY LineInputAssumption
<1> HIDE DEF B
<1>2. p * B \in Nat /\ p * B >= p  BY <1>1
<1>3. p \in S  BY <1>1, <1>2
<1>4. m \in S /\ \A y \in S : m <= y  BY <1>3, MinIsLeast, Zenon
<1> HIDE DEF m
<1>5. m \in Nat /\ p < m * B + B /\ m <= p  BY <1>3, <1>4
<1>6. m * B <= p
  <2>1. CASE m = 0  BY <1>1, <2>1
  <2>2. CASE m # 0
    <3>1. m - 1 \in Nat /\ ~(m <= m - 1)  BY <1>5, <2>2
    <3>2. m - 1 \notin S  BY <1>4, <3>1, Zenon
    <3>3. ~(p < (m - 1) * B + B)  BY <3>1, <3>2, Zenon
    <3>4. (m - 1) * B + B = m * B /\ m * B \in Nat  BY <1>1, <1>5
    <3> QED  BY <3>3, <3>4
  <2> QED  BY <2>1, <2>2, Zenon
<1> QED  BY <1>5, <1>6, Zenon DEF B

\* The reader of block b is the one to read the line that begins at a: the
\* newline before it is in the block.
Owns(b, a) == IF a = 0 THEN b[2] = 0 ELSE b[2] < a /\ a <= b[2] + BlockSize

\* There is one reader for a line.
LEMMA OneOwner ==
  ASSUME NEW b \in Block, NEW c \in Block, b[1] = c[1], NEW a \in Nat, Owns(b, a), Owns(c, a)
  PROVE  b = c
<1>1. /\ b = <<b[1], b[2]>> /\ c = <<c[1], c[2]>> /\ b[2] \in Nat /\ c[2] \in Nat
      /\ \E k \in Nat : b[2] = k * BlockSize
      /\ \E k \in Nat : c[2] = k * BlockSize
  BY BlockParts, Zenon
<1>2. /\ b[2] < c[2] => b[2] + BlockSize <= c[2]
      /\ c[2] < b[2] => c[2] + BlockSize <= b[2]
  BY <1>1, Multiples, Zenon
<1>3. BlockSize \in Nat  BY InputFacts
<1>4. b[2] = c[2]  BY <1>1, <1>2, <1>3 DEF Owns
<1> QED  BY <1>1, <1>4, Zenon

\* There is a reader for every line.
LEMMA SomeOwner ==
  ASSUME data \in Contents, NEW x \in Lines
  PROVE  \E b \in Block : b[1] = x[1] /\ Owns(b, x[2]) /\ b[2] < Len(data[b[1]])
<1> DEFINE f == x[1]
           a == x[2]
           n == Len(data[f])
<1>1. data \in [File -> Seq(Byte)] /\ BlockSize \in Nat  BY InputFacts
<1>2. f \in File /\ LineOf(f, a, x[3])  BY <1>1, LineParts, Zenon
<1>3. a \in Nat /\ n \in Nat /\ a < n
  <2>1. n \in Nat  BY <1>1, <1>2
  <2>2. a \in Nat /\ x[3] \in Nat /\ a < x[3] /\ x[3] <= n  BY <1>2, Zenon DEF LineOf
  <2> QED  BY <2>1, <2>2
<1> HIDE DEF f, a, n
<1>4. PICK k \in Nat : k <= n /\ k * BlockSize < n /\ Owns(<<f, k * BlockSize>>, a)
  <2>1. CASE a = 0
    <3>1. 0 * BlockSize = 0 /\ 0 \in Nat /\ 0 <= n /\ 0 < n  BY <1>1, <1>3, <2>1
    <3>2. Owns(<<f, 0 * BlockSize>>, a)  BY <2>1, <3>1 DEF Owns
    <3> QED  BY <3>1, <3>2
  <2>2. CASE a # 0
    <3>1. a - 1 \in Nat  BY <1>3, <2>2
    <3>2. PICK k \in Nat : k * BlockSize <= a - 1 /\ a - 1 < k * BlockSize + BlockSize /\ k <= a - 1
      BY <3>1, InSomeBlock, Zenon
    <3>3. k * BlockSize \in Nat  BY <1>1, <3>2
    <3>4. k <= n /\ k * BlockSize < n /\ k * BlockSize < a /\ a <= k * BlockSize + BlockSize
      BY <1>1, <1>3, <3>2, <3>3
    <3>5. Owns(<<f, k * BlockSize>>, a)  BY <2>2, <3>4 DEF Owns
    <3> QED  BY <3>4, <3>5, Zenon
  <2> QED  BY <2>1, <2>2, Zenon
<1>5. k \in 0 .. Len(data[f])  BY <1>3, <1>4 DEF n
<1>6. <<f, k * BlockSize>> \in Block  BY <1>2, <1>4, <1>5, InputFacts, Zenon DEF f, n
<1>7. <<f, k * BlockSize>>[1] = f /\ <<f, k * BlockSize>>[2] = k * BlockSize  OBVIOUS
<1> QED  BY <1>4, <1>6, <1>7, Zenon DEF f, a, n

\* What read_block reads of a block.
LEMMA BlockBytesAre ==
  ASSUME data \in Contents, NEW b \in Block, b[2] < Len(data[b[1]])
  PROVE  /\ BlockBytes(b) \in Seq(Byte) /\ Len(BlockBytes(b)) \in Nat \ {0} /\ Len(data[b[1]]) \in Nat
         /\ b[2] + Len(BlockBytes(b)) <= Len(data[b[1]]) /\ Len(BlockBytes(b)) <= BlockSize
         /\ b[2] + Len(BlockBytes(b)) < Len(data[b[1]]) => Len(BlockBytes(b)) = BlockSize
         /\ \A i \in Nat \ {0} : i <= Len(BlockBytes(b)) => BlockBytes(b)[i] = data[b[1]][b[2] + i]
<1> DEFINE s == data[b[1]]
           o == b[2]
           e == Min({o + BlockSize, Len(s)})
<1>1. data \in [File -> Seq(Byte)] /\ BlockSize \in Nat \ {0, 1}  BY InputFacts, Zenon
<1>2. b[1] \in File /\ o \in Nat  BY BlockParts, Zenon
<1>3. s \in Seq(Byte) /\ Len(s) \in Nat  BY <1>1, <1>2
<1>4. o < Len(s)  OBVIOUS
<1>5. e \in {o + BlockSize, Len(s)} /\ e <= o + BlockSize /\ e <= Len(s)
  <2>1. {o + BlockSize, Len(s)} \in SUBSET Nat /\ {o + BlockSize, Len(s)} # {}  BY <1>1, <1>2, <1>3
  <2> QED  BY <2>1, MinIsLeast, Zenon
<1>6. BlockBytes(b) = SubSeq(s, o + 1, e)  BY Zenon DEF BlockBytes
<1> HIDE DEF e, s, o
<1>7. e \in Nat /\ o < e /\ e <= Len(s) /\ e <= o + BlockSize /\ (e < Len(s) => e = o + BlockSize)
  BY <1>1, <1>2, <1>3, <1>4, <1>5
<1>8. /\ SubSeq(s, o + 1, e) \in Seq(Byte) /\ Len(SubSeq(s, o + 1, e)) = e - o
      /\ \A i \in 1 .. e - o : SubSeq(s, o + 1, e)[i] = s[o + i]
  BY <1>2, <1>3, <1>7
<1>9. BlockBytes(b) \in Seq(Byte) /\ Len(BlockBytes(b)) = e - o /\ \A i \in 1 .. e - o : BlockBytes(b)[i] = s[o + i]
  BY <1>6, <1>8, Zenon
<1>10. \A i \in Nat \ {0} : i <= Len(BlockBytes(b)) => i \in 1 .. e - o  BY <1>2, <1>7, <1>9
<1>11. /\ Len(BlockBytes(b)) \in Nat \ {0} /\ o + Len(BlockBytes(b)) <= Len(s) /\ Len(BlockBytes(b)) <= BlockSize
       /\ o + Len(BlockBytes(b)) < Len(s) => Len(BlockBytes(b)) = BlockSize
  BY <1>1, <1>2, <1>3, <1>7, <1>9
<1> QED  BY <1>3, <1>9, <1>10, <1>11, Zenon DEF s, o

\* In well-formed files a block that is not the first has a newline, and only
\* such a block, at the end of the file, has one byte.
LEMMA WellFormedBlocks ==
  ASSUME data \in Contents, WellFormed(data), NEW b \in Block, b[2] < Len(data[b[1]])
  PROVE  /\ b[2] # 0 => \E i \in Nat \ {0} : i <= Len(BlockBytes(b)) /\ BlockBytes(b)[i] = NL
         /\ Len(BlockBytes(b)) = 1 => b[2] # 0 /\ b[2] + 1 = Len(data[b[1]])
<1> DEFINE s == data[b[1]]
           o == b[2]
           n == Len(BlockBytes(b))
<1>1. BlockSize \in Nat \ {0, 1}  BY InputFacts, Zenon
<1>2. b[1] \in File /\ o \in Nat /\ \E k \in Nat : o = k * BlockSize  BY BlockParts, Zenon
<1>3. /\ n \in Nat \ {0} /\ Len(s) \in Nat /\ o + n <= Len(s) /\ (o + n < Len(s) => n = BlockSize) /\ n <= BlockSize
      /\ \A i \in Nat \ {0} : i <= n => BlockBytes(b)[i] = s[o + i]
  BY BlockBytesAre, Zenon
<1>4. Len(s) # 1 /\ \A k \in 1 .. Len(s) :
        k * BlockSize < Len(s) => \E i \in k * BlockSize + 1 .. Min({(k + 1) * BlockSize, Len(s)}) : s[i] = NL
  BY <1>2, Zenon DEF WellFormed
<1>5. o < Len(s)  OBVIOUS
<1> HIDE DEF s, o, n
<1>6. n = 1 => o # 0 /\ o + 1 = Len(s)
  <2>1. Len(s) # 1  BY <1>4, Zenon
  <2>2. o \in Nat /\ Len(s) \in Nat /\ o + n <= Len(s) /\ (o + n < Len(s) => n = BlockSize)  BY <1>2, <1>3, Zenon
  <2>3. BlockSize # 1  BY <1>1
  <2>4. ASSUME n = 1  PROVE o # 0 /\ o + 1 = Len(s)
    <3>1. ~(o + n < Len(s))  BY <2>2, <2>3, <2>4, Zenon
    <3>2. n \in Nat  BY <1>3
    <3>3. o + n = Len(s)  BY <2>2, <3>1, <3>2
    <3> QED  BY <2>1, <2>2, <2>4, <3>3
  <2> QED  BY <2>4, Zenon
<1>7. ASSUME o # 0  PROVE \E i \in Nat \ {0} : i <= n /\ BlockBytes(b)[i] = NL
  <2>1. PICK k \in Nat : o = k * BlockSize  BY <1>2, Zenon
  <2>2. k # 0  BY <1>1, <1>7, <2>1
  <2>3. k <= k * BlockSize  BY <1>1, <2>1
  <2>4. k \in 1 .. Len(s)  BY <1>2, <1>3, <1>5, <2>1, <2>2, <2>3
  <2>5. (k + 1) * BlockSize = o + BlockSize  BY <1>1, <2>1
  <2>6. PICK i \in o + 1 .. Min({o + BlockSize, Len(s)}) : s[i] = NL  BY <1>4, <1>5, <2>1, <2>4, <2>5, Zenon
  <2>7. /\ Min({o + BlockSize, Len(s)}) \in {o + BlockSize, Len(s)}
        /\ Min({o + BlockSize, Len(s)}) <= Len(s) /\ Min({o + BlockSize, Len(s)}) <= o + BlockSize
    <3>1. {o + BlockSize, Len(s)} \in SUBSET Nat  BY <1>1, <1>2, <1>3
    <3> QED  BY <3>1, MinIsLeast, Zenon
  <2>8. Min({o + BlockSize, Len(s)}) <= o + n  BY <1>1, <1>2, <1>3, <2>7
  <2>9. i - o \in Nat \ {0} /\ i - o <= n /\ o + (i - o) = i  BY <1>1, <1>2, <1>3, <2>6, <2>7, <2>8
  <2> QED  BY <1>3, <2>6, <2>9
<1> QED  BY <1>6, <1>7, Zenon DEF s, o, n

-----------------------------------------------------------------------------
(* The lines that were read.                                               *)

GivenTo(b, l) == \E n \in Nat : <<l, n>> \in given[b]

\* Loader l has a block and has not yet come to position a of its file.
Pending(l, a) == loader[l] = "answered" \/ (buffer[l] # <<>> /\ (r[l] = 0 \/ a > answer[l][2] + r[l]))

Due(l, b, a) == answer[l] = b /\ Pending(l, a)

\* Loader l was given block b, and has come to position a.
Reached(l, b, a) == GivenTo(b, l) /\ ~Due(l, b, a)

Files ==
  /\ data \in Contents
  /\ \A b \in Block : (replicas[b] # {}) <=> b[2] < Len(data[b[1]])
  /\ \A b \in Block : \A p, q \in given[b] : p = q

Record == File \X Nat \X Nat

ReaderTypes ==
  /\ buffer \in [Loader -> Seq(Byte)]
  /\ r \in [Loader -> Nat]
  /\ at \in [Loader -> {"check", "scan"}]
  /\ records \in [Loader -> Seq(Record)]

\* The buffer holds the block that was given last; r is at a newline of it.
BufferRight(l) ==
  /\ loader[l] # "reading" => buffer[l] = <<>>
  /\ buffer[l] = <<>> => r[l] = 0
  /\ buffer[l] # <<>> => answer[l] \in Block /\ buffer[l] = BlockBytes(answer[l])
  /\ (loader[l] = "answered" \/ buffer[l] # <<>>) /\ answer[l] # NoBlock =>
       GivenTo(answer[l], l) /\ answer[l][2] < Len(data[answer[l][1]])
  /\ r[l] # 0 => r[l] < Len(buffer[l]) /\ buffer[l][r[l] + 1] = NL
  /\ at[l] = "scan" => r[l] = 0

\* A record is a line that the loader was to read and has come to.
RecordsRight(l) ==
  \A i \in NonEmpty(l) : \E x \in Lines :
    records[l][i] = x /\ \E b \in Block : b[1] = x[1] /\ Owns(b, x[2]) /\ Reached(l, b, x[2])

\* A line that the loader was to read and has come to is one of its records.
LinesRight(l) ==
  \A b \in Block : \A x \in Lines :
    x[1] = b[1] /\ Owns(b, x[2]) /\ Reached(l, b, x[2]) => \E i \in NonEmpty(l) : records[l][i] = x

NoneTwice ==
  \A l, m \in Loader : \A i \in NonEmpty(l), k \in NonEmpty(m) :
    records[m][k] = records[l][i] => m = l /\ k = i

RecordPart == NoneTwice /\ \A l \in Loader : RecordsRight(l) /\ LinesRight(l)

ReaderPart == ReaderTypes /\ \A l \in Loader : BufferRight(l)

LineInv == AssignerInv /\ Files /\ (WellFormed(data) => ReaderPart /\ RecordPart)

\* A step that returns no record, and comes to no position where a line begins
\* that the loader was to read.
LEMMA NoRecordKeeps ==
  ASSUME RecordPart, UNCHANGED <<data, records>>,
         \A m \in Loader, b \in Block, a \in Nat : Reached(m, b, a) => Reached(m, b, a)',
         \A m \in Loader, b \in Block, x \in Lines :
           x[1] = b[1] /\ Owns(b, x[2]) /\ Reached(m, b, x[2])' => Reached(m, b, x[2]),
         data \in Contents
  PROVE  RecordPart'
<1>1. data \in [File -> Seq(Byte)]  BY InputFacts, Zenon
<1>2. Lines' = Lines /\ \A m \in Loader : NonEmpty(m)' = NonEmpty(m)
  <2>1. Lines' = Lines  BY DEF Lines, LinesOf
  <2>2. ASSUME NEW m \in Loader  PROVE NonEmpty(m)' = NonEmpty(m)  BY Zenon DEF NonEmpty
  <2> QED  BY <2>1, <2>2, Zenon
<1>3. NoneTwice'
  <2>1. SUFFICES ASSUME NEW l \in Loader, NEW m \in Loader, NEW i \in NonEmpty(l)', NEW k \in NonEmpty(m)',
                        records'[m][k] = records'[l][i]
                 PROVE  m = l /\ k = i
    BY Zenon DEF NoneTwice
  <2>2. i \in NonEmpty(l) /\ k \in NonEmpty(m) /\ records[m][k] = records[l][i]  BY <1>2, <2>1, Zenon
  <2> QED  BY <2>2, Zenon DEF RecordPart, NoneTwice
<1>4. ASSUME NEW m \in Loader  PROVE RecordsRight(m)'
  <2>1. RecordsRight(m)  BY Zenon DEF RecordPart
  <2>2. SUFFICES ASSUME NEW i \in NonEmpty(m)
                 PROVE  \E x \in Lines : /\ records[m][i] = x
                                         /\ \E b \in Block : b[1] = x[1] /\ Owns(b, x[2]) /\ Reached(m, b, x[2])'
    BY <1>2, Zenon DEF RecordsRight
  <2>3. PICK x \in Lines : /\ records[m][i] = x
                           /\ \E b \in Block : b[1] = x[1] /\ Owns(b, x[2]) /\ Reached(m, b, x[2])
    BY <2>1, <2>2, Zenon DEF RecordsRight
  <2>4. x[2] \in Nat  BY <1>1, LineParts, Zenon DEF LineOf
  <2> QED  BY <2>3, <2>4, Zenon
<1>5. ASSUME NEW m \in Loader  PROVE LinesRight(m)'
  <2>1. LinesRight(m)  BY Zenon DEF RecordPart
  <2> QED  BY <1>2, <2>1, Zenon DEF LinesRight
<1> QED  BY <1>3, <1>4, <1>5, Zenon DEF RecordPart

\* What a returned record adds to the records with something in them.
LEMMA RecordsGrow ==
  ASSUME ReaderTypes, NEW l \in Loader, NEW x \in Record,
         records' = [records EXCEPT ![l] = Append(@, x)]
  PROVE  /\ records' \in [Loader -> Seq(Record)]
         /\ \A m \in Loader : \A i \in NonEmpty(m) : i \in NonEmpty(m)' /\ records'[m][i] = records[m][i]
         /\ \A m \in Loader : \A i \in NonEmpty(m)' :
              \/ i \in NonEmpty(m)
              \/ m = l /\ i = Len(records[l]) + 1 /\ records'[m][i] = x
         /\ x[2] < x[3] => Len(records[l]) + 1 \in NonEmpty(l)' /\ records'[l][Len(records[l]) + 1] = x
<1>1. records \in [Loader -> Seq(Record)]  BY Zenon DEF ReaderTypes
<1>2. PICK q : q = records[l]  BY Zenon
<1>3. q \in Seq(Record)  BY <1>1, <1>2, Zenon
<1>4. records'[l] = Append(q, x) /\ \A m \in Loader : m # l => records'[m] = records[m]  BY <1>1, <1>2, Zenon
<1>5. /\ Append(q, x) \in Seq(Record) /\ DOMAIN Append(q, x) = DOMAIN q \cup {Len(q) + 1}
      /\ Len(q) + 1 \notin DOMAIN q
      /\ Append(q, x)[Len(q) + 1] = x /\ \A i \in DOMAIN q : Append(q, x)[i] = q[i]
  BY <1>3
<1>6. records' \in [Loader -> Seq(Record)]  BY <1>1, <1>2, <1>5, Zenon
<1>7. ASSUME NEW m \in Loader, NEW i \in NonEmpty(m)  PROVE i \in NonEmpty(m)' /\ records'[m][i] = records[m][i]
  <2>1. CASE m # l  BY <1>4, <1>7, <2>1, Zenon DEF NonEmpty
  <2>2. CASE m = l
    <3>1. i \in DOMAIN q /\ q[i][2] < q[i][3]  BY <1>2, <1>7, <2>2, Zenon DEF NonEmpty
    <3>2. i \in DOMAIN records'[l] /\ records'[l][i] = q[i]  BY <1>4, <1>5, <3>1, Zenon
    <3> QED  BY <1>2, <2>2, <3>1, <3>2, Zenon DEF NonEmpty
  <2> QED  BY <2>1, <2>2, Zenon
<1>8. ASSUME NEW m \in Loader, NEW i \in NonEmpty(m)'
      PROVE  i \in NonEmpty(m) \/ (m = l /\ i = Len(q) + 1 /\ records'[m][i] = x)
  <2>1. CASE m # l  BY <1>4, <1>8, <2>1, Zenon DEF NonEmpty
  <2>2. CASE m = l
    <3>1. i \in DOMAIN records'[l] /\ records'[l][i][2] < records'[l][i][3]  BY <1>8, <2>2, Zenon DEF NonEmpty
    <3>2. i \in DOMAIN q \/ i = Len(q) + 1  BY <1>4, <1>5, <3>1, Zenon
    <3>3. CASE i \in DOMAIN q  BY <1>2, <1>4, <1>5, <2>2, <3>1, <3>3, Zenon DEF NonEmpty
    <3>4. CASE i = Len(q) + 1  BY <1>4, <1>5, <2>2, <3>4, Zenon
    <3> QED  BY <3>2, <3>3, <3>4, Zenon
  <2> QED  BY <2>1, <2>2, Zenon
<1>9. x[2] < x[3] => Len(q) + 1 \in NonEmpty(l)' /\ records'[l][Len(q) + 1] = x
  <2>1. Len(q) + 1 \in DOMAIN records'[l] /\ records'[l][Len(q) + 1] = x  BY <1>4, <1>5, Zenon
  <2> QED  BY <2>1, Zenon DEF NonEmpty
<1> QED  BY <1>2, <1>6, <1>7, <1>8, <1>9, Zenon

\* A step that returns the record from a to the end of the line, of the block b
\* that the loader reads: it comes to position a, and to no other where a line
\* begins that the loader was to read.
LEMMA RecordKeeps ==
  ASSUME LineInv, WellFormed(data), NEW l \in Loader, NEW b \in Block, NEW a \in Nat, NEW e,
         answer[l] = b, buffer[l] # <<>>,
         UNCHANGED <<answer, given, data>>, Returned(l, a, e),
         \A m \in Loader : m # l => \A c \in Block, p \in Nat : Due(m, c, p)' <=> Due(m, c, p),
         Owns(b, a), a <= Len(data[b[1]]), a = 0 \/ data[b[1]][a] = NL, e = LineEnd(data[b[1]], a),
         Due(l, b, a), ~Due(l, b, a)',
         \A p \in Nat : Due(l, b, p)' => Due(l, b, p),
         \A x \in Lines : x[1] = b[1] /\ Owns(b, x[2]) /\ Due(l, b, x[2]) => x[2] = a \/ Due(l, b, x[2])'
  PROVE  RecordPart' /\ records' \in [Loader -> Seq(Record)]
<1> DEFINE f == b[1]
           x == <<f, a, e>>
<1>1. /\ data \in Contents /\ ReaderTypes /\ RecordPart /\ BufferRight(l)
      /\ \A c \in Block : \A p, q \in given[c] : p = q
  BY Zenon DEF LineInv, Files, ReaderPart
<1>2. data \in [File -> Seq(Byte)] /\ f \in File  BY <1>1, InputFacts, BlockParts, Zenon
<1>3. e \in Nat /\ (a < e => LineOf(f, a, e)) /\ \A z : LineOf(f, a, z) => z = e  BY <1>2, LineEnds, Zenon
<1>4. x \in Record /\ x[1] = f /\ x[2] = a /\ x[3] = e  BY <1>2, <1>3 DEF Record
<1>5. records' = [records EXCEPT ![l] = Append(@, x)]  BY Zenon DEF Returned, CurrentFile
<1>6. GivenTo(b, l)
  <2>1. b # NoBlock  BY BlockAssignerAssumption, Zenon
  <2> QED  BY <1>1, <2>1, Zenon DEF BufferRight
<1> HIDE DEF x
<1>7. Lines' = Lines  BY DEF Lines, LinesOf
<1>8. \A m, c : GivenTo(c, m)' <=> GivenTo(c, m)  BY Zenon DEF GivenTo
<1>9. ASSUME NEW m \in Loader, NEW c \in Block, NEW p \in Nat, Reached(m, c, p)  PROVE Reached(m, c, p)'
  BY <1>8, <1>9, Zenon DEF Reached, Due
<1>10. PICK n : n = Len(records[l]) + 1  BY Zenon
<1>11. /\ records' \in [Loader -> Seq(Record)]
       /\ \A m \in Loader : \A i \in NonEmpty(m) : i \in NonEmpty(m)' /\ records'[m][i] = records[m][i]
       /\ \A m \in Loader : \A i \in NonEmpty(m)' : i \in NonEmpty(m) \/ (m = l /\ i = n /\ records'[m][i] = x)
       /\ a < e => n \in NonEmpty(l)' /\ records'[l][n] = x
  <2>1. /\ records' \in [Loader -> Seq(Record)]
        /\ \A m \in Loader : \A i \in NonEmpty(m) : i \in NonEmpty(m)' /\ records'[m][i] = records[m][i]
        /\ \A m \in Loader : \A i \in NonEmpty(m)' :
             i \in NonEmpty(m) \/ (m = l /\ i = Len(records[l]) + 1 /\ records'[m][i] = x)
        /\ x[2] < x[3] => Len(records[l]) + 1 \in NonEmpty(l)' /\ records'[l][Len(records[l]) + 1] = x
    BY <1>1, <1>4, <1>5, RecordsGrow, Zenon
  <2> QED  BY <1>4, <1>10, <2>1, Zenon
<1>12. ASSUME NEW m \in Loader, NEW i \in NonEmpty(m), records[m][i] = x  PROVE FALSE
  <2>1. PICK c \in Block : c[1] = f /\ Owns(c, a) /\ Reached(m, c, a)
    <3>1. \E y \in Lines : /\ records[m][i] = y
                           /\ \E c \in Block : c[1] = y[1] /\ Owns(c, y[2]) /\ Reached(m, c, y[2])
      BY <1>1, <1>12, Zenon DEF RecordPart, RecordsRight
    <3> QED  BY <1>4, <1>12, <3>1, Zenon
  <2>2. c = b  BY <2>1, OneOwner, Zenon
  <2>3. m = l
    <3>1. PICK j \in Nat, k \in Nat : <<m, j>> \in given[b] /\ <<l, k>> \in given[b]
      BY <1>6, <2>1, <2>2, Zenon DEF Reached, GivenTo
    <3>2. <<m, j>> = <<l, k>>  BY <1>1, <3>1, Zenon
    <3> QED  BY <3>2
  <2> QED  BY <2>1, <2>2, <2>3, Zenon DEF Reached
<1>13. ASSUME NEW m \in Loader, NEW i \in NonEmpty(m)', i \notin NonEmpty(m)
       PROVE  m = l /\ i = n /\ records'[m][i] = x /\ a < e
  <2>1. m = l /\ i = n /\ records'[m][i] = x  BY <1>11, <1>13, Zenon
  <2>2. records'[m][i][2] < records'[m][i][3]  BY <1>13, Zenon DEF NonEmpty
  <2> QED  BY <1>4, <2>1, <2>2, Zenon
<1>14. NoneTwice'
  <2>1. SUFFICES ASSUME NEW k \in Loader, NEW m \in Loader, NEW i \in NonEmpty(k)', NEW j \in NonEmpty(m)',
                        records'[m][j] = records'[k][i]
                 PROVE  m = k /\ j = i
    BY Zenon DEF NoneTwice
  <2>2. CASE i \in NonEmpty(k) /\ j \in NonEmpty(m)
    <3>1. records[m][j] = records[k][i]  BY <1>11, <2>1, <2>2, Zenon
    <3> QED  BY <1>1, <2>2, <3>1, Zenon DEF RecordPart, NoneTwice
  <2>3. CASE i \in NonEmpty(k) /\ j \notin NonEmpty(m)
    <3>1. records[k][i] = x  BY <1>11, <1>13, <2>1, <2>3, Zenon
    <3> QED  BY <1>12, <2>3, <3>1, Zenon
  <2>4. CASE i \notin NonEmpty(k) /\ j \in NonEmpty(m)
    <3>1. records[m][j] = x  BY <1>11, <1>13, <2>1, <2>4, Zenon
    <3> QED  BY <1>12, <2>4, <3>1, Zenon
  <2>5. CASE i \notin NonEmpty(k) /\ j \notin NonEmpty(m)  BY <1>13, <2>1, <2>5, Zenon
  <2> QED  BY <2>2, <2>3, <2>4, <2>5, Zenon
<1>15. ASSUME NEW m \in Loader  PROVE RecordsRight(m)'
  <2>1. SUFFICES ASSUME NEW i \in NonEmpty(m)'
                 PROVE  \E y \in Lines : /\ records'[m][i] = y
                                         /\ \E c \in Block : c[1] = y[1] /\ Owns(c, y[2]) /\ Reached(m, c, y[2])'
    BY <1>7, Zenon DEF RecordsRight
  <2>2. CASE i \in NonEmpty(m)
    <3>1. PICK y \in Lines : /\ records[m][i] = y
                             /\ \E c \in Block : c[1] = y[1] /\ Owns(c, y[2]) /\ Reached(m, c, y[2])
      BY <1>1, <2>2, Zenon DEF RecordPart, RecordsRight
    <3>2. y[2] \in Nat  BY <1>2, LineParts, Zenon DEF LineOf
    <3>3. records'[m][i] = y  BY <1>11, <2>2, <3>1, Zenon
    <3> QED  BY <1>9, <3>1, <3>2, <3>3, Zenon
  <2>3. CASE i \notin NonEmpty(m)
    <3>1. m = l /\ records'[m][i] = x /\ a < e  BY <1>13, <2>1, <2>3, Zenon
    <3>2. x \in Lines  BY <1>2, <1>3, <3>1, LineParts, Zenon DEF x
    <3>3. Reached(l, b, a)'  BY <1>6, <1>8, Zenon DEF Reached
    <3> QED  BY <1>4, <3>1, <3>2, <3>3, Zenon
  <2> QED  BY <2>2, <2>3, Zenon
<1>16. ASSUME NEW m \in Loader  PROVE LinesRight(m)'
  <2>1. SUFFICES ASSUME NEW c \in Block, NEW y \in Lines, y[1] = c[1], Owns(c, y[2]), Reached(m, c, y[2])'
                 PROVE  \E i \in NonEmpty(m)' : records'[m][i] = y
    BY <1>7, Zenon DEF LinesRight
  <2>2. CASE Reached(m, c, y[2])
    <3>1. PICK i \in NonEmpty(m) : records[m][i] = y  BY <1>1, <2>1, <2>2, Zenon DEF RecordPart, LinesRight
    <3> QED  BY <1>11, <3>1, Zenon
  <2>3. CASE ~Reached(m, c, y[2])
    <3>1. y = <<y[1], y[2], y[3]>> /\ LineOf(y[1], y[2], y[3]) /\ y[2] \in Nat  BY <1>2, LineParts, Zenon DEF LineOf
    <3>2. Due(m, c, y[2]) /\ ~Due(m, c, y[2])'  BY <1>8, <2>1, <2>3, Zenon DEF Reached
    <3>3. m = l /\ c = b  BY <3>1, <3>2, Zenon DEF Due
    <3>4. y[2] = a /\ y[1] = f  BY <2>1, <3>2, <3>3, Zenon
    <3>5. y[3] = e /\ a < e  BY <1>3, <3>1, <3>4, Zenon DEF LineOf
    <3>6. y = x  BY <3>1, <3>4, <3>5, Zenon DEF x
    <3> QED  BY <1>11, <3>3, <3>5, <3>6, Zenon
  <2> QED  BY <2>2, <2>3, Zenon
<1> QED  BY <1>11, <1>14, <1>15, <1>16, Zenon DEF RecordPart

-----------------------------------------------------------------------------
(* The steps of next.                                                      *)

\* What a loader has when it reads a block: the buffer is the block at o of
\* file s, and r is 0 or at a newline.
BlockOf(s, o, buf, pos) ==
  /\ s \in Seq(Byte) /\ buf \in Seq(Byte) /\ Len(s) \in Nat /\ Len(buf) \in Nat \ {0} /\ o \in Nat
  /\ o + Len(buf) <= Len(s) /\ Len(buf) <= BlockSize
  /\ o + Len(buf) < Len(s) => Len(buf) = BlockSize
  /\ \A i \in Nat \ {0} : i <= Len(buf) => buf[i] = s[o + i]
  /\ o # 0 => \E i \in Nat \ {0} : i <= Len(buf) /\ buf[i] = NL
  /\ Len(buf) = 1 => o # 0 /\ o + 1 = Len(s)
  /\ pos \in Nat
  /\ pos # 0 => pos < Len(buf) /\ buf[pos + 1] = NL

\* The buffer of a loader is such a block.
LEMMA ReadsBlock ==
  ASSUME LineInv, WellFormed(data), NEW l \in Loader, buffer[l] # <<>>
  PROVE  /\ answer[l] \in Block /\ answer[l][1] \in File /\ loader[l] = "reading"
         /\ BlockOf(data[answer[l][1]], answer[l][2], buffer[l], r[l])
<1>1. data \in Contents /\ ReaderTypes /\ BufferRight(l)  BY Zenon DEF LineInv, Files, ReaderPart
<1>2. answer[l] \in Block /\ buffer[l] = BlockBytes(answer[l]) /\ loader[l] = "reading"  BY <1>1, Zenon DEF BufferRight
<1>3. answer[l] # NoBlock  BY <1>2, BlockAssignerAssumption, Zenon
<1>4. answer[l][2] < Len(data[answer[l][1]])  BY <1>1, <1>3, Zenon DEF BufferRight
<1>5. answer[l][1] \in File /\ answer[l][2] \in Nat  BY <1>2, BlockParts, Zenon
<1>6. data \in [File -> Seq(Byte)]  BY <1>1, InputFacts, Zenon
<1>7. data[answer[l][1]] \in Seq(Byte)  BY <1>5, <1>6, Zenon
<1>8. r[l] \in Nat /\ (r[l] # 0 => r[l] < Len(buffer[l]) /\ buffer[l][r[l] + 1] = NL)
  BY <1>1, Zenon DEF ReaderTypes, BufferRight
<1> QED  BY <1>1, <1>2, <1>4, <1>5, <1>7, <1>8, BlockBytesAre, WellFormedBlocks, Zenon DEF BlockOf

\* Where next begins to read (Left).
LeftOf(o, buf, pos) ==
  IF o = 0 /\ pos = 0 THEN (IF buf[1] = NL THEN 1 ELSE 0) ELSE FindNext(buf, pos) + 1

\* It is the beginning of a line, and no line before it is left that begins at
\* or after r.
BeginsAt(s, o, buf, pos, left) ==
  /\ left \in Nat /\ left <= Len(buf) /\ (pos # 0 => left = pos + 1)
  /\ left = 0 => o = 0 /\ pos = 0 /\ buf[1] # NL
  /\ o + left = 0 \/ s[o + left] = NL
  /\ \A a \in Nat : /\ a = 0 \/ s[a] = NL
                    /\ a = 0 => o = 0 /\ s[1] # NL
                    /\ a # 0 => o < a
                    /\ pos = 0 \/ a > o + pos
                    => o + left <= a

\* next begins to read there.
LEMMA LeftFound ==
  ASSUME NEW s, NEW o, NEW buf, NEW pos, BlockOf(s, o, buf, pos)
  PROVE  BeginsAt(s, o, buf, pos, LeftOf(o, buf, pos))
<1> DEFINE left == LeftOf(o, buf, pos)
<1>0. left = IF o = 0 /\ pos = 0 THEN (IF buf[1] = NL THEN 1 ELSE 0) ELSE FindNext(buf, pos) + 1  BY Zenon DEF LeftOf
<1> SUFFICES BeginsAt(s, o, buf, pos, left)  OBVIOUS
<1> HIDE DEF left
<1>1. /\ s \in Seq(Byte) /\ buf \in Seq(Byte) /\ Len(s) \in Nat /\ Len(buf) \in Nat /\ Len(buf) >= 1 /\ o \in Nat
      /\ o + Len(buf) <= Len(s) /\ pos \in Nat
      /\ \A i \in Nat \ {0} : i <= Len(buf) => buf[i] = s[o + i]
      /\ pos # 0 => pos < Len(buf) /\ buf[pos + 1] = NL
      /\ o # 0 => \E i \in Nat \ {0} : i <= Len(buf) /\ buf[i] = NL
  <2>1. \A k \in Nat \ {0} : k >= 1  OBVIOUS
  <2>2. \A k \in Nat \ {0} : k \in Nat  OBVIOUS
  <2> QED  BY <2>1, <2>2, Zenon DEF BlockOf
<1>2. PICK h : h = FindNext(buf, pos)  BY Zenon
<1>3. /\ h = NPos \/ (h \in Nat /\ pos <= h /\ h < Len(buf) /\ buf[h + 1] = NL)
      /\ \A i \in Nat : pos <= i /\ i < Len(buf) /\ (h = NPos \/ i < h) => buf[i + 1] # NL
  BY <1>1, <1>2, FirstFound, Zenon
<1>4. 1 \in Nat \ {0} /\ 1 <= Len(buf) /\ buf[1] = s[o + 1]
  <2>1. 1 \in Nat \ {0} /\ 1 <= Len(buf)  BY <1>1
  <2> QED  BY <1>1, <2>1, Zenon
<1>5. CASE o = 0 /\ pos = 0
  <2>1. buf[1] = s[1]  BY <1>4, <1>5
  <2>2. CASE buf[1] = NL
    <3>1. left = 1 /\ o + left = 1  BY <1>0, <1>5, <2>2
    <3>2. \A a \in Nat : a # 0 => 1 <= a  OBVIOUS
    <3>3. 1 \in Nat /\ 1 # 0  OBVIOUS
    <3> QED  BY <1>4, <1>5, <2>1, <2>2, <3>1, <3>2, <3>3, Zenon DEF BeginsAt
  <2>3. CASE buf[1] # NL
    <3>1. left = 0 /\ o + left = 0  BY <1>0, <1>5, <2>3
    <3>2. \A a \in Nat : 0 <= a  OBVIOUS
    <3>3. 0 \in Nat /\ 0 <= Len(buf)  BY <1>1
    <3> QED  BY <1>5, <2>3, <3>1, <3>2, <3>3, Zenon DEF BeginsAt
  <2> QED  BY <2>2, <2>3, Zenon
<1>6. CASE ~(o = 0 /\ pos = 0)
  <2>1. h # NPos
    <3>1. SUFFICES ASSUME h = NPos  PROVE FALSE  BY Zenon
    <3>2. CASE pos # 0
      <4>1. pos <= pos /\ pos < Len(buf) /\ buf[pos + 1] = NL  BY <1>1, <3>2
      <4> QED  BY <1>1, <1>3, <3>1, <4>1, Zenon
    <3>3. CASE pos = 0
      <4>1. PICK i \in Nat \ {0} : i <= Len(buf) /\ buf[i] = NL  BY <1>1, <1>6, <3>3, Zenon
      <4>2. i - 1 \in Nat /\ pos <= i - 1 /\ i - 1 < Len(buf) /\ (i - 1) + 1 = i  BY <1>1, <3>3, <4>1
      <4> QED  BY <1>3, <3>1, <4>1, <4>2, Zenon
    <3> QED  BY <3>2, <3>3, Zenon
  <2>2. h \in Nat /\ pos <= h /\ h < Len(buf) /\ buf[h + 1] = NL /\ left = h + 1  BY <1>0, <1>2, <1>3, <1>6, <2>1, Zenon
  <2>3. left \in Nat /\ left <= Len(buf) /\ left # 0 /\ left \in Nat \ {0}  BY <1>1, <2>2
  <2>4. s[o + left] = NL  BY <1>1, <2>2, <2>3, Zenon
  <2>5. pos # 0 => left = pos + 1
    <3>1. SUFFICES ASSUME pos # 0, h # pos  PROVE FALSE  BY <2>2, Zenon
    <3>2. pos <= pos /\ pos < h /\ pos < Len(buf) /\ buf[pos + 1] = NL  BY <1>1, <2>2, <3>1
    <3> QED  BY <1>1, <1>3, <3>2, Zenon
  <2>6. ASSUME NEW a \in Nat, a = 0 \/ s[a] = NL, a = 0 => o = 0 /\ s[1] # NL, a # 0 => o < a, pos = 0 \/ a > o + pos
        PROVE  o + left <= a
    <3>1. CASE pos # 0  BY <1>1, <2>3, <2>5, <2>6, <3>1
    <3>2. CASE pos = 0
      <4>1. o # 0 /\ o < a /\ s[a] = NL  BY <1>1, <1>6, <2>6, <3>2
      <4>2. SUFFICES ASSUME a < o + left  PROVE FALSE  BY <1>1, <2>3
      <4>3. PICK i \in Nat : i = a - o - 1  BY <1>1, <4>1
      <4>4. pos <= i /\ i < h /\ i < Len(buf) /\ i + 1 \in Nat \ {0} /\ i + 1 <= Len(buf) /\ o + (i + 1) = a
        BY <1>1, <2>2, <3>2, <4>1, <4>2, <4>3
      <4>5. buf[i + 1] # NL  BY <1>3, <4>4, Zenon
      <4>6. buf[i + 1] = s[a]
        <5>1. buf[i + 1] = s[o + (i + 1)]  BY <1>1, <4>4, Zenon
        <5> QED  BY <4>4, <5>1, Zenon
      <4> QED  BY <4>1, <4>5, <4>6, Zenon
    <3> QED  BY <3>1, <3>2, Zenon
  <2> QED  BY <2>3, <2>4, <2>5, <2>6, Zenon DEF BeginsAt
<1> QED  BY <1>5, <1>6, Zenon

\* find_next is determined by what it finds.
LEMMA FirstIs ==
  ASSUME NEW s \in Seq(Byte), NEW from \in Nat, NEW h \in Nat, from <= h, h < Len(s), s[h + 1] = NL,
         \A i \in Nat : from <= i /\ i < h => s[i + 1] # NL
  PROVE  FindNext(s, from) = h
<1>1. PICK g : g = FindNext(s, from)  BY Zenon
<1>2. /\ g = NPos \/ (g \in Nat /\ from <= g /\ g < Len(s) /\ s[g + 1] = NL)
      /\ \A i \in Nat : from <= i /\ i < Len(s) /\ (g = NPos \/ i < g) => s[i + 1] # NL
  BY <1>1, FirstFound, Zenon
<1>3. g # NPos  BY <1>2, Zenon
<1>4. g \in Nat /\ from <= g /\ s[g + 1] = NL  BY <1>2, <1>3, Zenon
<1>5. ~(h < g) /\ ~(g < h)  BY <1>2, <1>4, Zenon
<1>6. g = h  BY <1>4, <1>5
<1> QED  BY <1>1, <1>6, Zenon

\* find_next may skip what has no newline.
LEMMA LineGoesOn ==
  ASSUME NEW s \in Seq(Byte), NEW from \in Nat, NEW mid \in Nat, from <= mid, mid <= Len(s),
         \A i \in Nat : from <= i /\ i < mid => s[i + 1] # NL
  PROVE  LineEnd(s, from) = LineEnd(s, mid)
<1>1. PICK h : h = FindNext(s, mid)  BY Zenon
<1>2. /\ h = NPos \/ (h \in Nat /\ mid <= h /\ h < Len(s) /\ s[h + 1] = NL)
      /\ \A i \in Nat : mid <= i /\ i < Len(s) /\ (h = NPos \/ i < h) => s[i + 1] # NL
  BY <1>1, FirstFound, Zenon
<1>3. \A i \in Nat : i < mid \/ mid <= i  OBVIOUS
<1>4. CASE h = NPos
  <2>1. PICK g : g = FindNext(s, from)  BY Zenon
  <2>2. g = NPos \/ (g \in Nat /\ from <= g /\ g < Len(s) /\ s[g + 1] = NL)  BY <2>1, FirstFound, Zenon
  <2>3. g = NPos  BY <1>2, <1>3, <1>4, <2>2, Zenon
  <2> QED  BY <1>1, <1>4, <2>1, <2>3, Zenon DEF LineEnd
<1>5. CASE h # NPos
  <2>1. h \in Nat /\ mid <= h /\ h < Len(s) /\ s[h + 1] = NL  BY <1>2, <1>5, Zenon
  <2>2. from <= h /\ \A i \in Nat : i < h => i < Len(s)  BY <2>1
  <2>3. \A i \in Nat : from <= i /\ i < h => s[i + 1] # NL  BY <1>2, <1>3, <2>2, Zenon
  <2>4. FindNext(s, from) = h  BY <2>1, <2>2, <2>3, FirstIs, Zenon
  <2> QED  BY <1>1, <2>4, Zenon DEF LineEnd
<1> QED  BY <1>4, <1>5, Zenon

\* A line of file s that the reader of the block at o has to read and has not
\* come to begins at a.
DueAt(s, o, pos, a) ==
  /\ a \in Nat /\ a < Len(s)
  /\ a = 0 \/ s[a] = NL
  /\ a = 0 => o = 0 /\ s[1] # NL
  /\ a # 0 => o < a /\ a <= o + BlockSize
  /\ pos = 0 \/ a > o + pos

\* The line that next returns ends in the block: it is the first that is due.
LEMMA LineInBlock ==
  ASSUME NEW s, NEW o, NEW buf, NEW pos, BlockOf(s, o, buf, pos), NEW left,
         left = LeftOf(o, buf, pos),
         NEW right, right = FindNext(buf, left), right # NPos
  PROVE  /\ right \in Nat /\ right # 0 /\ right < Len(buf) /\ buf[right + 1] = NL
         /\ left \in Nat /\ left <= right /\ LineEnd(s, o + left) = o + right
         /\ \A a : DueAt(s, o, pos, a) => a = o + left \/ a > o + right
<1>1. /\ s \in Seq(Byte) /\ buf \in Seq(Byte) /\ Len(s) \in Nat /\ Len(buf) \in Nat /\ o \in Nat
      /\ o + Len(buf) <= Len(s)
      /\ \A i \in Nat \ {0} : i <= Len(buf) => buf[i] = s[o + i]
  BY Zenon DEF BlockOf
<1>2. /\ left \in Nat /\ left <= Len(buf)
      /\ left = 0 => o = 0 /\ pos = 0 /\ buf[1] # NL
      /\ o + left = 0 \/ s[o + left] = NL
      /\ \A a \in Nat : /\ a = 0 \/ s[a] = NL
                        /\ a = 0 => o = 0 /\ s[1] # NL
                        /\ a # 0 => o < a
                        /\ pos = 0 \/ a > o + pos
                        => o + left <= a
  <2>1. BeginsAt(s, o, buf, pos, left)  BY LeftFound, Zenon
  <2> QED  BY <2>1, Zenon DEF BeginsAt
<1>3. /\ right \in Nat /\ left <= right /\ right < Len(buf) /\ buf[right + 1] = NL
      /\ \A i \in Nat : left <= i /\ i < Len(buf) /\ i < right => buf[i + 1] # NL
  BY <1>1, <1>2, FirstFound, Zenon
<1>4. right # 0
  <2>1. SUFFICES ASSUME right = 0  PROVE FALSE  BY Zenon
  <2>2. left = 0 /\ buf[1] = NL  BY <1>2, <1>3, <2>1
  <2> QED  BY <1>2, <2>2, Zenon
<1>5. \A i \in Nat : i < Len(buf) => buf[i + 1] = s[(o + i) + 1]
  <2>1. ASSUME NEW i \in Nat, i < Len(buf)  PROVE buf[i + 1] = s[(o + i) + 1]
    <3>1. i + 1 \in Nat \ {0} /\ i + 1 <= Len(buf) /\ o + (i + 1) = (o + i) + 1  BY <1>1, <2>1
    <3>2. buf[i + 1] = s[o + (i + 1)]  BY <1>1, <3>1, Zenon
    <3> QED  BY <3>1, <3>2, Zenon
  <2> QED  BY <2>1, Zenon
<1>6. ASSUME NEW j \in Nat, o + left <= j, j < o + right  PROVE s[j + 1] # NL
  <2>1. PICK i \in Nat : i = j - o  BY <1>1, <1>2, <1>6
  <2>0. o \in Nat /\ left \in Nat /\ right \in Nat /\ Len(buf) \in Nat /\ right < Len(buf)  BY <1>1, <1>2, <1>3, Zenon
  <2>2. left <= i /\ i < Len(buf) /\ i < right /\ o + i = j  BY <1>6, <2>0, <2>1
  <2>3. buf[i + 1] # NL /\ buf[i + 1] = s[(o + i) + 1]  BY <1>3, <1>5, <2>2, Zenon
  <2> QED  BY <2>2, <2>3, Zenon
<1>7. LineEnd(s, o + left) = o + right
  <2>1. o + left \in Nat /\ o + right \in Nat /\ o + left <= o + right /\ o + right < Len(s) /\ o + right # NPos
    BY <1>1, <1>2, <1>3 DEF NPos
  <2>2. s[(o + right) + 1] = NL  BY <1>3, <1>5, Zenon
  <2>3. FindNext(s, o + left) = o + right  BY <1>1, <1>6, <2>1, <2>2, FirstIs, Zenon
  <2> QED  BY <2>1, <2>3, Zenon DEF LineEnd
<1>8. ASSUME NEW a, DueAt(s, o, pos, a)  PROVE a = o + left \/ a > o + right
  <2>1. a \in Nat /\ o + left <= a /\ (a = 0 \/ s[a] = NL)  BY <1>2, <1>8, Zenon DEF DueAt
  <2>2. SUFFICES ASSUME o + left < a, a <= o + right  PROVE FALSE  BY <1>1, <1>2, <1>3, <2>1
  <2>3. PICK j \in Nat : j = a - 1  BY <1>1, <1>2, <2>1, <2>2
  <2>0. o \in Nat /\ left \in Nat /\ right \in Nat  BY <1>1, <1>2, <1>3, Zenon
  <2>4. o + left <= j /\ j < o + right /\ j + 1 = a /\ a # 0  BY <2>0, <2>1, <2>2, <2>3
  <2>5. s[j + 1] # NL  BY <1>6, <2>4, Zenon
  <2> QED  BY <2>1, <2>4, <2>5, Zenon
<1> QED  BY <1>2, <1>3, <1>4, <1>7, <1>8, Zenon

\* The line that next returns goes on after the block: no other is due.
LEMMA LineBeyondBlock ==
  ASSUME NEW s, NEW o, NEW buf, NEW pos, BlockOf(s, o, buf, pos), NEW left,
         left = LeftOf(o, buf, pos),
         FindNext(buf, left) = NPos
  PROVE  /\ LineEnd(s, o + left) = LineEnd(s, o + Len(buf))
         /\ \A a : DueAt(s, o, pos, a) => a = o + left
<1>1. /\ s \in Seq(Byte) /\ buf \in Seq(Byte) /\ Len(s) \in Nat /\ Len(buf) \in Nat /\ o \in Nat
      /\ o + Len(buf) <= Len(s) /\ (o + Len(buf) < Len(s) => Len(buf) = BlockSize)
      /\ \A i \in Nat \ {0} : i <= Len(buf) => buf[i] = s[o + i]
  BY Zenon DEF BlockOf
<1>2. /\ left \in Nat /\ left <= Len(buf)
      /\ \A a \in Nat : /\ a = 0 \/ s[a] = NL
                        /\ a = 0 => o = 0 /\ s[1] # NL
                        /\ a # 0 => o < a
                        /\ pos = 0 \/ a > o + pos
                        => o + left <= a
  <2>1. BeginsAt(s, o, buf, pos, left)  BY LeftFound, Zenon
  <2> QED  BY <2>1, Zenon DEF BeginsAt
<1>3. \A i \in Nat : left <= i /\ i < Len(buf) => buf[i + 1] # NL  BY <1>1, <1>2, FirstFound, Zenon
<1>4. ASSUME NEW j \in Nat, o + left <= j, j < o + Len(buf)  PROVE s[j + 1] # NL
  <2>1. PICK i \in Nat : i = j - o  BY <1>1, <1>2, <1>4
  <2>2. left <= i /\ i < Len(buf) /\ i + 1 \in Nat \ {0} /\ i + 1 <= Len(buf) /\ o + (i + 1) = j + 1
    BY <1>1, <1>2, <1>4, <2>1
  <2>3. buf[i + 1] # NL /\ buf[i + 1] = s[o + (i + 1)]  BY <1>1, <1>3, <2>2, Zenon
  <2> QED  BY <2>2, <2>3, Zenon
<1>5. LineEnd(s, o + left) = LineEnd(s, o + Len(buf))
  <2>1. o + left \in Nat /\ o + Len(buf) \in Nat /\ o + left <= o + Len(buf)  BY <1>1, <1>2
  <2> QED  BY <1>1, <1>4, <2>1, LineGoesOn, Zenon
<1>6. BlockSize \in Nat  BY InputFacts
<1>7. ASSUME NEW a, DueAt(s, o, pos, a)  PROVE a = o + left
  <2>1. a \in Nat /\ o + left <= a /\ (a = 0 \/ s[a] = NL) /\ a < Len(s) /\ (a # 0 => a <= o + BlockSize)
    BY <1>2, <1>7, Zenon DEF DueAt
  <2>2. SUFFICES ASSUME o + left < a  PROVE FALSE  BY <1>1, <1>2, <2>1
  <2>3. PICK j \in Nat : j = a - 1  BY <1>1, <1>2, <2>1, <2>2
  <2>4. o + left <= j /\ j < o + Len(buf) /\ j + 1 = a /\ a # 0  BY <1>1, <1>2, <1>6, <2>1, <2>2, <2>3
  <2>5. s[j + 1] # NL  BY <1>4, <2>4, Zenon
  <2> QED  BY <2>1, <2>4, <2>5, Zenon
<1> QED  BY <1>5, <1>7, Zenon

\* The last line of the block ended with it: the next line begins after it, if
\* the file goes on.
LEMMA LineAfterBlock ==
  ASSUME NEW s, NEW o, NEW buf, NEW pos, BlockOf(s, o, buf, pos), pos = Len(buf) - 1
  PROVE  /\ o + Len(buf) # Len(s) =>
              /\ Len(buf) = BlockSize /\ pos # 0 /\ s[o + Len(buf)] = NL
              /\ \A a : DueAt(s, o, pos, a) => a = o + Len(buf)
         /\ o + Len(buf) = Len(s) => \A a : ~DueAt(s, o, pos, a)
<1>1. /\ Len(s) \in Nat /\ Len(buf) \in Nat \ {0} /\ o \in Nat /\ pos \in Nat
      /\ o + Len(buf) <= Len(s) /\ (o + Len(buf) < Len(s) => Len(buf) = BlockSize)
      /\ \A i \in Nat \ {0} : i <= Len(buf) => buf[i] = s[o + i]
      /\ Len(buf) = 1 => o # 0 /\ o + 1 = Len(s)
      /\ pos # 0 => pos < Len(buf) /\ buf[pos + 1] = NL
  BY Zenon DEF BlockOf
<1>2. BlockSize \in Nat \ {0, 1}  BY InputFacts, Zenon
<1>3. ASSUME o + Len(buf) # Len(s)
      PROVE  /\ Len(buf) = BlockSize /\ pos # 0 /\ s[o + Len(buf)] = NL
             /\ \A a : DueAt(s, o, pos, a) => a = o + Len(buf)
  <2>1. Len(buf) = BlockSize /\ pos # 0 /\ pos + 1 = Len(buf) /\ Len(buf) <= Len(buf)  BY <1>1, <1>2, <1>3
  <2>2. s[o + Len(buf)] = NL  BY <1>1, <2>1, Zenon
  <2>3. ASSUME NEW a, DueAt(s, o, pos, a)  PROVE a = o + Len(buf)
    <3>1. a \in Nat /\ (a # 0 => a <= o + BlockSize) /\ a > o + pos  BY <2>1, <2>3, Zenon DEF DueAt
    <3> QED  BY <1>1, <1>2, <2>1, <3>1
  <2> QED  BY <2>1, <2>2, <2>3, Zenon
<1>4. ASSUME o + Len(buf) = Len(s), NEW a, DueAt(s, o, pos, a)  PROVE FALSE
  <2>1. a \in Nat /\ a < Len(s) /\ (a = 0 => o = 0) /\ (a # 0 => o < a) /\ (pos = 0 \/ a > o + pos)
    BY <1>4, Zenon DEF DueAt
  <2>2. CASE pos = 0  BY <1>1, <1>4, <2>1, <2>2
  <2>3. CASE pos # 0  BY <1>1, <1>4, <2>1, <2>3
  <2> QED  BY <2>2, <2>3, Zenon
<1> QED  BY <1>3, <1>4, Zenon

\* A line that the loader has to read and has not come to is due in its block.
LEMMA DueLine ==
  ASSUME LineInv, WellFormed(data), NEW l \in Loader, buffer[l] # <<>>,
         NEW x \in Lines, x[1] = answer[l][1], Owns(answer[l], x[2]), Due(l, answer[l], x[2])
  PROVE  DueAt(data[answer[l][1]], answer[l][2], r[l], x[2])
<1>1. answer[l][1] \in File /\ loader[l] = "reading" /\ BlockOf(data[answer[l][1]], answer[l][2], buffer[l], r[l])
  BY ReadsBlock, Zenon
<1>2. data \in [File -> Seq(Byte)]  BY InputFacts, Zenon DEF LineInv, Files
<1>3. PICK f, a, e : f = x[1] /\ a = x[2] /\ e = x[3] /\ LineOf(f, a, e)  BY <1>2, LineParts, Zenon
<1>4. /\ a \in Nat /\ e \in Nat /\ a < e /\ e <= Len(data[f]) /\ (a = 0 \/ data[f][a] = NL)
      /\ \A i \in Nat : a < i /\ i <= e => data[f][i] # NL
  BY <1>3, Zenon DEF LineOf
<1>5. Len(data[f]) \in Nat  BY <1>1, <1>3, Zenon DEF BlockOf
<1>6. a < Len(data[f]) /\ (a = 0 => 1 \in Nat /\ a < 1 /\ 1 <= e)  BY <1>4, <1>5
<1>7. a = 0 => data[f][1] # NL  BY <1>4, <1>6, Zenon
<1>8. loader[l] # "answered"  BY <1>1
<1>9. r[l] = 0 \/ a > answer[l][2] + r[l]  BY <1>3, <1>8, Zenon DEF Due, Pending
<1>10. IF a = 0 THEN answer[l][2] = 0 ELSE answer[l][2] < a /\ a <= answer[l][2] + BlockSize  BY <1>3, Zenon DEF Owns
<1> QED  BY <1>3, <1>4, <1>6, <1>7, <1>9, <1>10, Zenon DEF DueAt

\* What a step of another loader leaves as it is.
LEMMA OtherKeeps ==
  ASSUME NEW m \in Loader, BufferRight(m), data' = data,
         loader'[m] = loader[m], answer'[m] = answer[m], buffer'[m] = buffer[m], r'[m] = r[m], at'[m] = at[m],
         \A b : GivenTo(b, m) /\ answer[m] = b => GivenTo(b, m)'
  PROVE  BufferRight(m)' /\ \A c, p : Due(m, c, p)' <=> Due(m, c, p)
<1>1. \A c, p : Due(m, c, p)' <=> Due(m, c, p)  BY Zenon DEF Due, Pending
<1>2. GivenTo(answer[m], m) => GivenTo(answer[m], m)'  BY Zenon DEF GivenTo
<1>3. BlockBytes(answer[m])' = BlockBytes(answer[m])  BY Zenon DEF BlockBytes
<1> QED  BY <1>1, <1>2, <1>3, Zenon DEF BufferRight

\* The line that next returns ends in the block: the loader goes on after it.
LEMMA NextLineKeeps ==
  ASSUME LineInv, WellFormed(data), NEW l \in Loader, NextLine(l)
  PROVE  ReaderPart' /\ RecordPart'
<1>1. PICK b, o, s, buf, pos : b = answer[l] /\ o = b[2] /\ s = data[b[1]] /\ buf = buffer[l] /\ pos = r[l]  BY Zenon
<1>2. PICK left : left = LeftOf(o, buf, pos)  BY Zenon
<1>3. PICK right : right = FindNext(buf, left)  BY Zenon
<1>4. Left(l) = left /\ Offset(l) = o  BY <1>1, <1>2, Zenon DEF Left, LeftOf, Offset
<1>5. PICK a, e : a = o + left /\ e = o + right  BY Zenon
<1>6. /\ buf # <<>> /\ right # NPos /\ Returned(l, a, e)
      /\ r' = [r EXCEPT ![l] = right] /\ at' = [at EXCEPT ![l] = "check"]
      /\ UNCHANGED <<loader, answer, given, data, buffer>>
  BY <1>1, <1>3, <1>4, <1>5, Zenon DEF NextLine, Scans, InBlock, vars
<1>7. ReaderTypes /\ \A m \in Loader : BufferRight(m)  BY Zenon DEF LineInv, ReaderPart
<1>8. b \in Block /\ loader[l] = "reading" /\ BlockOf(s, o, buf, pos)  BY <1>1, <1>6, ReadsBlock, Zenon
<1>9. BeginsAt(s, o, buf, pos, left)  BY <1>2, <1>8, LeftFound, Zenon
<1>10. /\ right \in Nat /\ right # 0 /\ right < Len(buf) /\ buf[right + 1] = NL
       /\ left \in Nat /\ left <= right /\ LineEnd(s, a) = e
       /\ \A p : DueAt(s, o, pos, p) => p = a \/ p > e
  BY <1>2, <1>3, <1>5, <1>6, <1>8, LineInBlock
<1>11. /\ o \in Nat /\ Len(s) \in Nat /\ Len(buf) \in Nat /\ o + Len(buf) <= Len(s) /\ Len(buf) <= BlockSize /\ pos \in Nat
       /\ pos # 0 => pos < Len(buf)
  BY <1>8, Zenon DEF BlockOf
<1>12. (left = 0 => o = 0) /\ (a = 0 \/ s[a] = NL) /\ (pos # 0 => left = pos + 1)  BY <1>5, <1>9, Zenon DEF BeginsAt
<1>13. BlockSize \in Nat /\ pos <= right  BY <1>10, <1>11, <1>12, InputFacts
<1>14. /\ a \in Nat /\ a <= Len(s) /\ (a = 0 => o = 0) /\ (a # 0 => o < a /\ a <= o + BlockSize)
       /\ (pos = 0 \/ a > o + pos) /\ ~(a > e)
       /\ \A p \in Nat : p > e => p > o + pos
  <2>1. left \in Nat /\ right \in Nat /\ left <= right /\ right < Len(buf)  BY <1>10, Zenon
  <2>2. a \in Nat /\ a <= Len(s) /\ (a = 0 => o = 0) /\ (a # 0 => o < a) /\ a <= o + BlockSize
    BY <1>5, <1>11, <1>12, <1>13, <2>1
  <2>3. pos = 0 \/ a > o + pos  BY <1>5, <1>11, <1>12, <2>1
  <2>4. ~(a > e) /\ \A p \in Nat : p > e => p > o + pos  BY <1>5, <1>11, <1>13, <2>1
  <2> QED  BY <2>2, <2>3, <2>4, Zenon
<1>15. r'[l] = right /\ right # 0 /\ loader[l] # "answered"
  <2>1. loader[l] # "answered"  BY <1>8
  <2> QED  BY <1>6, <1>7, <1>10, <2>1, Zenon DEF ReaderTypes
<1>16. \A p : Due(l, b, p)' <=> p > e  BY <1>1, <1>5, <1>6, <1>15, Zenon DEF Due, Pending
<1>17. \A p : Due(l, b, p) <=> (pos = 0 \/ p > o + pos)  BY <1>1, <1>6, <1>15, Zenon DEF Due, Pending
<1>18. ASSUME NEW m \in Loader, m # l
       PROVE  BufferRight(m)' /\ \A c, p : Due(m, c, p)' <=> Due(m, c, p)
  <2>1. r'[m] = r[m] /\ at'[m] = at[m]  BY <1>6, <1>7, <1>18, Zenon DEF ReaderTypes
  <2>2. \A c : GivenTo(c, m)' <=> GivenTo(c, m)  BY <1>6, Zenon DEF GivenTo
  <2> QED  BY <1>6, <1>7, <2>1, <2>2, OtherKeeps, Zenon
<1>19. ASSUME NEW x \in Lines, x[1] = b[1], Owns(b, x[2]), Due(l, b, x[2])
       PROVE  x[2] = a \/ x[2] > e
  <2>1. DueAt(s, o, pos, x[2])  BY <1>1, <1>6, <1>19, DueLine, Zenon
  <2> QED  BY <1>10, <2>1, Zenon
<1>20. RecordPart' /\ records' \in [Loader -> Seq(Record)]
  <2>1. Owns(b, a)  BY <1>1, <1>14, Zenon DEF Owns
  <2>2. \A x \in Lines : x[1] = b[1] /\ Owns(b, x[2]) /\ Due(l, b, x[2]) => x[2] = a \/ Due(l, b, x[2])'
    <3>1. SUFFICES ASSUME NEW x \in Lines, x[1] = b[1], Owns(b, x[2]), Due(l, b, x[2])
                   PROVE  x[2] = a \/ Due(l, b, x[2])'
      BY Zenon
    <3>2. x[2]' = x[2]  BY <1>6
    <3> QED  BY <1>16, <1>19, <3>1, <3>2, Zenon
  <2>3. /\ Due(l, b, a) /\ ~Due(l, b, a)'
        /\ \A p \in Nat : Due(l, b, p)' => Due(l, b, p)
    BY <1>14, <1>16, <1>17, Zenon
  <2> QED  BY <1>1, <1>6, <1>8, <1>10, <1>12, <1>14, <1>18, <2>1, <2>2, <2>3, RecordKeeps, Zenon
<1>21. ReaderTypes'  BY <1>6, <1>7, <1>10, <1>20, Zenon DEF ReaderTypes
<1>22. BufferRight(l)'
  <2>1. at'[l] = "check"  BY <1>6, <1>7, Zenon DEF ReaderTypes
  <2>2. at'[l] # "scan"  BY <2>1
  <2>3. GivenTo(answer[l], l)' <=> GivenTo(answer[l], l)  BY <1>6, Zenon DEF GivenTo
  <2>4. BlockBytes(answer[l])' = BlockBytes(answer[l])  BY <1>6, Zenon DEF BlockBytes
  <2> QED  BY <1>1, <1>6, <1>7, <1>10, <1>15, <2>2, <2>3, <2>4, Zenon DEF BufferRight
<1> QED  BY <1>18, <1>20, <1>21, <1>22, Zenon DEF ReaderPart

\* The last record of a block.
LEMMA LastRecordKeeps ==
  ASSUME LineInv, WellFormed(data), NEW l \in Loader, buffer[l] # <<>>,
         UNCHANGED <<loader, answer, given, data>>, ClearBuffer(l),
         at' \in [Loader -> {"check", "scan"}], \A m \in Loader : m # l => at'[m] = at[m],
         NEW b, NEW o, NEW s, NEW pos, b = answer[l], o = b[2], s = data[b[1]], pos = r[l],
         NEW a \in Nat, Returned(l, a, LineEnd(s, a)), Owns(b, a), a <= Len(s), a = 0 \/ s[a] = NL,
         pos = 0 \/ a > o + pos, \A p : DueAt(s, o, pos, p) => p = a
  PROVE  ReaderPart' /\ RecordPart'
<1>1. ReaderTypes /\ \A m \in Loader : BufferRight(m)  BY Zenon DEF LineInv, ReaderPart
<1>2. b \in Block /\ loader[l] = "reading"  BY ReadsBlock, Zenon
<1>3. /\ buffer' = [buffer EXCEPT ![l] = <<>>] /\ r' = [r EXCEPT ![l] = 0]  BY Zenon DEF ClearBuffer
<1>4. buffer'[l] = <<>> /\ r'[l] = 0  BY <1>1, <1>3, Zenon DEF ReaderTypes
<1>5. loader[l] # "answered"  BY <1>2
<1>6. \A p : ~Due(l, b, p)'  BY <1>4, <1>5, Zenon DEF Due, Pending
<1>7. \A p : Due(l, b, p) <=> (pos = 0 \/ p > o + pos)  BY <1>5, Zenon DEF Due, Pending
<1>8. ASSUME NEW m \in Loader, m # l
      PROVE  BufferRight(m)' /\ \A c, p : Due(m, c, p)' <=> Due(m, c, p)
  <2>1. buffer'[m] = buffer[m] /\ r'[m] = r[m] /\ at'[m] = at[m]  BY <1>1, <1>3, <1>8, Zenon DEF ReaderTypes
  <2>2. \A c : GivenTo(c, m)' <=> GivenTo(c, m)  BY Zenon DEF GivenTo
  <2> QED  BY <1>1, <2>1, <2>2, OtherKeeps, Zenon
<1>9. ASSUME NEW x \in Lines, x[1] = b[1], Owns(b, x[2]), Due(l, b, x[2])  PROVE x[2] = a
  <2>1. DueAt(s, o, pos, x[2])  BY <1>9, DueLine, Zenon
  <2> QED  BY <2>1, Zenon
<1>10. RecordPart' /\ records' \in [Loader -> Seq(Record)]
  <2>1. PICK e : e = LineEnd(s, a)  BY Zenon
  <2>2. Returned(l, a, e) /\ Due(l, b, a) /\ ~Due(l, b, a)'  BY <1>6, <1>7, <2>1, Zenon
  <2>3. /\ answer[l] = b /\ a <= Len(data[b[1]]) /\ (a = 0 \/ data[b[1]][a] = NL) /\ e = LineEnd(data[b[1]], a)
        /\ \A p \in Nat : Due(l, b, p)' => Due(l, b, p)
        /\ \A x \in Lines : x[1] = b[1] /\ Owns(b, x[2]) /\ Due(l, b, x[2]) => x[2] = a \/ Due(l, b, x[2])'
    BY <1>6, <1>9, <2>1, Zenon
  <2>4. \A m \in Loader : m # l => \A c \in Block, p \in Nat : Due(m, c, p)' <=> Due(m, c, p)  BY <1>8, Zenon
  <2> QED  BY <1>2, <2>2, <2>3, <2>4, RecordKeeps, Zenon
<1>11. ReaderTypes'
  <2>1. <<>> \in Seq(Byte) /\ 0 \in Nat  OBVIOUS
  <2> QED  BY <1>1, <1>3, <1>10, <2>1, Zenon DEF ReaderTypes
<1>12. BufferRight(l)'  BY <1>4, <1>5, Zenon DEF BufferRight
<1> QED  BY <1>8, <1>10, <1>11, <1>12, Zenon DEF ReaderPart

\* RestEnd is where the line ends that goes on after the block.
LEMMA RestIsLine ==
  ASSUME NEW l \in Loader
  PROVE  RestEnd(l) = LineEnd(data[answer[l][1]], answer[l][2] + Len(buffer[l]))
BY Zenon DEF RestEnd, LineEnd, BlockEnd, Offset, CurrentFile

\* The line that next returns ends after the block.
LEMMA NextLastLineKeeps ==
  ASSUME LineInv, WellFormed(data), NEW l \in Loader, NextLastLine(l)
  PROVE  ReaderPart' /\ RecordPart'
<1>1. PICK b, o, s, buf, pos : b = answer[l] /\ o = b[2] /\ s = data[b[1]] /\ buf = buffer[l] /\ pos = r[l]  BY Zenon
<1>2. PICK left : left = LeftOf(o, buf, pos)  BY Zenon
<1>3. Left(l) = left /\ Offset(l) = o  BY <1>1, <1>2, Zenon DEF Left, LeftOf, Offset
<1>4. PICK a : a = o + left  BY Zenon
<1>5. /\ buf # <<>> /\ FindNext(buf, left) = NPos /\ Returned(l, a, RestEnd(l))
      /\ ClearBuffer(l) /\ at' = [at EXCEPT ![l] = "check"]
      /\ UNCHANGED <<loader, answer, given, data>>
  BY <1>1, <1>3, <1>4, Zenon DEF NextLastLine, Scans, InBlock, vars
<1>6. BlockOf(s, o, buf, pos)  BY <1>1, <1>5, ReadsBlock, Zenon
<1>7. BeginsAt(s, o, buf, pos, left)  BY <1>2, <1>6, LeftFound, Zenon
<1>8. /\ LineEnd(s, a) = LineEnd(s, o + Len(buf))
      /\ \A p : DueAt(s, o, pos, p) => p = a
  BY <1>2, <1>4, <1>5, <1>6, LineBeyondBlock
<1>9. Returned(l, a, LineEnd(s, a))  BY <1>1, <1>5, <1>8, RestIsLine, Zenon
<1>10. /\ o \in Nat /\ Len(s) \in Nat /\ Len(buf) \in Nat /\ o + Len(buf) <= Len(s) /\ Len(buf) <= BlockSize /\ pos \in Nat
  BY <1>6, Zenon DEF BlockOf
<1>11. /\ left \in Nat /\ left <= Len(buf) /\ (left = 0 => o = 0) /\ (a = 0 \/ s[a] = NL) /\ (pos # 0 => left = pos + 1)
  BY <1>4, <1>7, Zenon DEF BeginsAt
<1>12. BlockSize \in Nat  BY InputFacts
<1>13. /\ a \in Nat /\ a <= Len(s) /\ (a = 0 => o = 0) /\ (a # 0 => o < a /\ a <= o + BlockSize)
       /\ (pos = 0 \/ a > o + pos)
  <2>1. a \in Nat /\ a <= Len(s) /\ (a = 0 => o = 0) /\ (a # 0 => o < a) /\ a <= o + BlockSize  BY <1>4, <1>10, <1>11, <1>12
  <2>2. pos = 0 \/ a > o + pos  BY <1>4, <1>10, <1>11
  <2> QED  BY <2>1, <2>2, Zenon
<1>14. Owns(b, a)  BY <1>1, <1>13, Zenon DEF Owns
<1>15. at' \in [Loader -> {"check", "scan"}] /\ \A m \in Loader : m # l => at'[m] = at[m]
  BY <1>5, Zenon DEF LineInv, ReaderPart, ReaderTypes
<1>16. /\ buffer[l] # <<>> /\ a \in Nat /\ a <= Len(s) /\ (a = 0 \/ s[a] = NL) /\ (pos = 0 \/ a > o + pos)
       /\ \A p : DueAt(s, o, pos, p) => p = a
  BY <1>1, <1>5, <1>8, <1>11, <1>13, Zenon
<1>17. ClearBuffer(l) /\ UNCHANGED <<loader, answer, given, data>>  BY <1>5, Zenon
<1> QED  BY <1>1, <1>9, <1>14, <1>15, <1>16, <1>17, LastRecordKeeps, SMT

\* The line that next returns begins after the block.
LEMMA NextFromRestKeeps ==
  ASSUME LineInv, WellFormed(data), NEW l \in Loader, NextFromRest(l)
  PROVE  ReaderPart' /\ RecordPart'
<1>1. PICK b, o, s, buf, pos : b = answer[l] /\ o = b[2] /\ s = data[b[1]] /\ buf = buffer[l] /\ pos = r[l]  BY Zenon
<1>2. PICK a : a = o + Len(buf)  BY Zenon
<1>3. BlockEnd(l) = a  BY <1>1, <1>2, Zenon DEF BlockEnd, Offset
<1>4. /\ buf # <<>> /\ pos = Len(buf) - 1 /\ a # Len(s) /\ Returned(l, a, RestEnd(l))
      /\ ClearBuffer(l) /\ UNCHANGED <<loader, answer, given, data, at>>
  BY <1>1, <1>3, Zenon DEF NextFromRest, BlockDone, InBlock, NoRest, CurrentFile, vars
<1>5. BlockOf(s, o, buf, pos)  BY <1>1, <1>4, ReadsBlock, Zenon
<1>6. Len(buf) = BlockSize /\ pos # 0 /\ s[a] = NL /\ \A p : DueAt(s, o, pos, p) => p = a
  <2>1. o + Len(buf) # Len(s)  BY <1>2, <1>4, Zenon
  <2> QED  BY <1>2, <1>4, <1>5, <2>1, LineAfterBlock, Zenon
<1>7. Returned(l, a, LineEnd(s, a))  BY <1>1, <1>2, <1>4, RestIsLine, Zenon
<1>8. /\ o \in Nat /\ Len(s) \in Nat /\ Len(buf) \in Nat \ {0} /\ o + Len(buf) <= Len(s) /\ pos \in Nat
  BY <1>5, Zenon DEF BlockOf
<1>9. /\ a \in Nat /\ a <= Len(s) /\ a # 0 /\ o < a /\ a <= o + BlockSize /\ a > o + pos
  BY <1>2, <1>4, <1>6, <1>8
<1>10. Owns(b, a)  BY <1>1, <1>9, Zenon DEF Owns
<1>11. at' \in [Loader -> {"check", "scan"}] /\ \A m \in Loader : m # l => at'[m] = at[m]
  BY <1>4, Zenon DEF LineInv, ReaderPart, ReaderTypes
<1> QED  BY <1>1, <1>4, <1>6, <1>7, <1>9, <1>10, <1>11, LastRecordKeeps, Zenon

-----------------------------------------------------------------------------
(* Steps that return no record.                                            *)

\* The other loaders, in a step of loader l.
LEMMA OthersKeep ==
  ASSUME LineInv, WellFormed(data), NEW l \in Loader, data' = data,
         \A m \in Loader : m # l => /\ loader'[m] = loader[m] /\ answer'[m] = answer[m]
                                    /\ buffer'[m] = buffer[m] /\ r'[m] = r[m] /\ at'[m] = at[m],
         \A m \in Loader, b \in Block : m # l => (GivenTo(b, m)' <=> GivenTo(b, m)),
         NEW m \in Loader, m # l
  PROVE  BufferRight(m)' /\ \A c \in Block, p \in Nat : Reached(m, c, p)' <=> Reached(m, c, p)
<1>1. BufferRight(m) /\ answer \in [Loader -> Block \cup {NoBlock}]
  BY Zenon DEF LineInv, ReaderPart, AssignerInv, Types
<1>2. \A c, p : Due(m, c, p)' <=> Due(m, c, p)  BY Zenon DEF Due, Pending
<1>3. \A c \in Block, p \in Nat : Reached(m, c, p)' <=> Reached(m, c, p)  BY <1>2, Zenon DEF Reached
<1>4. BufferRight(m)'
  <2>1. answer[m] = answer'[m] /\ (answer[m] # NoBlock => answer[m] \in Block)  BY <1>1, Zenon
  <2>2. answer[m] # NoBlock /\ GivenTo(answer[m], m) => GivenTo(answer[m], m)'  BY <2>1, Zenon DEF GivenTo
  <2>3. BlockBytes(answer[m])' = BlockBytes(answer[m])  BY Zenon DEF BlockBytes
  <2> QED  BY <1>1, <2>2, <2>3, Zenon DEF BufferRight
<1> QED  BY <1>3, <1>4, Zenon

\* A step of loader l that returns no record and comes to no new position.
LEMMA QuietKeeps ==
  ASSUME LineInv, WellFormed(data), NEW l \in Loader, UNCHANGED <<data, records>>,
         \A m \in Loader : m # l => /\ loader'[m] = loader[m] /\ answer'[m] = answer[m]
                                    /\ buffer'[m] = buffer[m] /\ r'[m] = r[m] /\ at'[m] = at[m],
         \A m \in Loader, b \in Block : m # l => (GivenTo(b, m)' <=> GivenTo(b, m)),
         buffer' \in [Loader -> Seq(Byte)], r' \in [Loader -> Nat], at' \in [Loader -> {"check", "scan"}],
         BufferRight(l)',
         \A c \in Block, p \in Nat : Reached(l, c, p) => Reached(l, c, p)',
         \A c \in Block, x \in Lines :
           x[1] = c[1] /\ Owns(c, x[2]) /\ Reached(l, c, x[2])' => Reached(l, c, x[2])
  PROVE  ReaderPart' /\ RecordPart'
<1>1. data \in Contents /\ RecordPart /\ ReaderTypes  BY Zenon DEF LineInv, Files, ReaderPart
<1>2. data \in [File -> Seq(Byte)]  BY <1>1, InputFacts, Zenon
<1>3. \A m \in Loader : m # l =>
        BufferRight(m)' /\ \A c \in Block, p \in Nat : Reached(m, c, p)' <=> Reached(m, c, p)
  BY OthersKeep, Zenon
<1>4. \A m \in Loader, c \in Block, p \in Nat : Reached(m, c, p) => Reached(m, c, p)'  BY <1>3, Zenon
<1>5. ASSUME NEW m \in Loader, NEW c \in Block, NEW x \in Lines, x[1] = c[1], Owns(c, x[2]), Reached(m, c, x[2])'
      PROVE  Reached(m, c, x[2])
  <2>1. PICK p \in Nat : p = x[2]  BY <1>2, LineParts, Zenon DEF LineOf
  <2>2. CASE m = l  BY <1>5, <2>2, Zenon
  <2>3. CASE m # l  BY <1>3, <1>5, <2>1, <2>3, Zenon
  <2> QED  BY <2>2, <2>3, Zenon
<1>6. RecordPart'  BY <1>1, <1>4, <1>5, NoRecordKeeps, Zenon
<1>7. ReaderTypes'  BY <1>1, Zenon DEF ReaderTypes
<1> QED  BY <1>3, <1>6, <1>7, Zenon DEF ReaderPart

\* At the end of the file nothing of the block is left.
LEMMA NextAtEndKeeps ==
  ASSUME LineInv, WellFormed(data), NEW l \in Loader, NextAtEnd(l)
  PROVE  ReaderPart' /\ RecordPart'
<1>1. PICK b, o, s, buf, pos : b = answer[l] /\ o = b[2] /\ s = data[b[1]] /\ buf = buffer[l] /\ pos = r[l]  BY Zenon
<1>2. /\ buf # <<>> /\ pos = Len(buf) - 1 /\ o + Len(buf) = Len(s)
      /\ loader' = [loader EXCEPT ![l] = "asked"]
      /\ buffer' = [buffer EXCEPT ![l] = <<>>] /\ r' = [r EXCEPT ![l] = 0] /\ at' = [at EXCEPT ![l] = "scan"]
      /\ UNCHANGED <<answer, given, data, records>>
  BY <1>1, Zenon DEF NextAtEnd, BlockDone, InBlock, NoRest, BlockEnd, Offset, CurrentFile, AskMaster, ClearBuffer
<1>3. ReaderTypes /\ loader \in [Loader -> {"reading", "asked", "answered", "finished", "exit sent", "gone"}]
  BY Zenon DEF LineInv, ReaderPart, AssignerInv, Types
<1>4. BlockOf(s, o, buf, pos)  BY <1>1, <1>2, ReadsBlock, Zenon
<1>5. \A p : ~DueAt(s, o, pos, p)  BY <1>2, <1>4, LineAfterBlock, Zenon
<1>6. loader'[l] = "asked" /\ buffer'[l] = <<>> /\ r'[l] = 0 /\ at'[l] = "scan"  BY <1>2, <1>3, Zenon DEF ReaderTypes
<1>7. loader'[l] # "answered"  BY <1>6
<1>8. \A c, p : ~Due(l, c, p)'  BY <1>6, <1>7, Zenon DEF Due, Pending
<1>9. \A m, c : GivenTo(c, m)' <=> GivenTo(c, m)  BY <1>2, Zenon DEF GivenTo
<1>10. \A c \in Block, p \in Nat : Reached(l, c, p) => Reached(l, c, p)'  BY <1>8, <1>9, Zenon DEF Reached
<1>11. ASSUME NEW c \in Block, NEW x \in Lines, x[1] = c[1], Owns(c, x[2]), Reached(l, c, x[2])'
       PROVE  Reached(l, c, x[2])
  <2>1. SUFFICES ASSUME Due(l, c, x[2])  PROVE FALSE  BY <1>9, <1>11, Zenon DEF Reached
  <2>2. c = b  BY <1>1, <2>1, Zenon DEF Due
  <2>3. DueAt(s, o, pos, x[2])  BY <1>1, <1>2, <1>11, <2>1, <2>2, DueLine, Zenon
  <2> QED  BY <1>5, <2>3, Zenon
<1>12. buffer' \in [Loader -> Seq(Byte)] /\ r' \in [Loader -> Nat] /\ at' \in [Loader -> {"check", "scan"}]
  <2>1. <<>> \in Seq(Byte) /\ 0 \in Nat  OBVIOUS
  <2> QED  BY <1>2, <1>3, <2>1, Zenon DEF ReaderTypes
<1>13. BufferRight(l)'  BY <1>6, <1>7, Zenon DEF BufferRight
<1>14. \A m \in Loader : m # l => /\ loader'[m] = loader[m] /\ answer'[m] = answer[m]
                                  /\ buffer'[m] = buffer[m] /\ r'[m] = r[m] /\ at'[m] = at[m]
  BY <1>2, <1>3, Zenon DEF ReaderTypes
<1> QED  BY <1>2, <1>9, <1>10, <1>11, <1>12, <1>13, <1>14, QuietKeeps, Zenon

\* A loader without a block that goes on: it asks, or leaves.
LEMMA IdleKeeps ==
  ASSUME LineInv, WellFormed(data), NEW l \in Loader, NEW v, v # "answered", v # "reading",
         loader[l] # "answered", loader[l] = "reading" => buffer[l] = <<>>,
         loader' = [loader EXCEPT ![l] = v], UNCHANGED <<answer, given, input>>
  PROVE  ReaderPart' /\ RecordPart'
<1>1. /\ ReaderTypes /\ loader \in [Loader -> {"reading", "asked", "answered", "finished", "exit sent", "gone"}]
      /\ BufferRight(l)
  BY Zenon DEF LineInv, ReaderPart, AssignerInv, Types
<1>2. UNCHANGED <<data, buffer, r, at, records>>  BY Zenon DEF input
<1>3. buffer[l] = <<>> /\ r[l] = 0  BY <1>1, Zenon DEF BufferRight
<1>4. loader'[l] = v /\ \A m \in Loader : m # l => loader'[m] = loader[m]  BY <1>1, Zenon
<1>5. \A c, p : ~Due(l, c, p) /\ ~Due(l, c, p)'  BY <1>2, <1>3, <1>4, Zenon DEF Due, Pending
<1>6. \A m, c : GivenTo(c, m)' <=> GivenTo(c, m)  BY Zenon DEF GivenTo
<1>7. \A c, p : Reached(l, c, p)' <=> Reached(l, c, p)  BY <1>5, <1>6, Zenon DEF Reached
<1>8. \A c \in Block, x \in Lines : Reached(l, c, x[2])' => Reached(l, c, x[2])  BY <1>7, Zenon
<1>9. BufferRight(l)'  BY <1>2, <1>3, <1>4, Zenon DEF BufferRight
<1>10. buffer' \in [Loader -> Seq(Byte)] /\ r' \in [Loader -> Nat] /\ at' \in [Loader -> {"check", "scan"}]
  BY <1>1, <1>2, Zenon DEF ReaderTypes
<1>11. \A m \in Loader : m # l => /\ loader'[m] = loader[m] /\ answer'[m] = answer[m]
                                  /\ buffer'[m] = buffer[m] /\ r'[m] = r[m] /\ at'[m] = at[m]
  BY <1>2, <1>4, Zenon
<1> QED  BY <1>2, <1>6, <1>7, <1>8, <1>9, <1>10, <1>11, QuietKeeps, Zenon

\* The loader has the answer: all lines of the block are still due.
LEMMA TakeBlockKeeps ==
  ASSUME LineInv, WellFormed(data), NEW l \in Loader, TakeBlock(l)
  PROVE  ReaderPart' /\ RecordPart'
<1>1. /\ ReaderTypes /\ loader \in [Loader -> {"reading", "asked", "answered", "finished", "exit sent", "gone"}]
      /\ BufferRight(l) /\ data \in Contents /\ answer \in [Loader -> Block \cup {NoBlock}]
  BY Zenon DEF LineInv, ReaderPart, AssignerInv, Types, Files
<1>2. PICK b : b = answer[l]  BY Zenon
<1>3. /\ loader[l] = "answered" /\ loader' = [loader EXCEPT ![l] = IF b = NoBlock THEN "finished" ELSE "reading"]
      /\ buffer' = IF b = NoBlock THEN buffer ELSE [buffer EXCEPT ![l] = BlockBytes(b)]
      /\ UNCHANGED <<answer, given, data, r, at, records>>
  BY <1>2, Zenon DEF TakeBlock, TakeAnswer
<1>4. loader[l] # "reading"  BY <1>3
<1>5. buffer[l] = <<>> /\ r[l] = 0  BY <1>1, <1>4, Zenon DEF BufferRight
<1>6. \A m, c : GivenTo(c, m)' <=> GivenTo(c, m)  BY <1>3, Zenon DEF GivenTo
<1>7. CASE b = NoBlock
  <2>1. b \notin Block  BY <1>7, BlockAssignerAssumption, Zenon
  <2>2. loader'[l] = "finished" /\ buffer' = buffer  BY <1>1, <1>3, <1>7, Zenon
  <2>3. loader'[l] # "answered" /\ loader'[l] # "reading"  BY <2>2
  <2>4. \A c \in Block : \A p : ~Due(l, c, p) /\ ~Due(l, c, p)'  BY <1>2, <1>3, <2>1, Zenon DEF Due
  <2>5. \A c \in Block : \A p : Reached(l, c, p)' <=> Reached(l, c, p)  BY <1>6, <2>4, Zenon DEF Reached
  <2>6. \A c \in Block, x \in Lines : Reached(l, c, x[2])' => Reached(l, c, x[2])  BY <2>5, Zenon
  <2>7. BufferRight(l)'  BY <1>3, <1>5, <2>2, <2>3, Zenon DEF BufferRight
  <2>8. buffer' \in [Loader -> Seq(Byte)] /\ r' \in [Loader -> Nat] /\ at' \in [Loader -> {"check", "scan"}]
    BY <1>1, <1>3, <2>2, Zenon DEF ReaderTypes
  <2>9. \A m \in Loader : m # l => /\ loader'[m] = loader[m] /\ answer'[m] = answer[m]
                                   /\ buffer'[m] = buffer[m] /\ r'[m] = r[m] /\ at'[m] = at[m]
    BY <1>1, <1>3, <2>2, Zenon
  <2> QED  BY <1>3, <1>6, <2>5, <2>6, <2>7, <2>8, <2>9, QuietKeeps, Zenon
<1>8. CASE b # NoBlock
  <2>1. b \in Block  BY <1>1, <1>2, <1>8, Zenon
  <2>2. GivenTo(b, l) /\ b[2] < Len(data[b[1]])  BY <1>1, <1>2, <1>3, <1>8, Zenon DEF BufferRight
  <2>3. BlockBytes(b) \in Seq(Byte) /\ Len(BlockBytes(b)) \in Nat \ {0}  BY <1>1, <2>1, <2>2, BlockBytesAre, Zenon
  <2>4. BlockBytes(b) # <<>>  BY <2>3
  <2>5. loader'[l] = "reading" /\ buffer'[l] = BlockBytes(b) /\ r'[l] = 0 /\ answer'[l] = b
    BY <1>1, <1>2, <1>3, <1>5, <1>8, Zenon DEF ReaderTypes
  <2>6. \A c, p : Due(l, c, p)' <=> Due(l, c, p)  BY <1>2, <1>3, <2>4, <2>5, Zenon DEF Due, Pending
  <2>7. \A c, p : Reached(l, c, p)' <=> Reached(l, c, p)  BY <1>6, <2>6, Zenon DEF Reached
  <2>8. \A c \in Block, x \in Lines : Reached(l, c, x[2])' => Reached(l, c, x[2])  BY <2>7, Zenon
  <2>9. BufferRight(l)'
    <3>1. BlockBytes(answer[l])' = BlockBytes(b)  BY <1>3, <2>5, Zenon DEF BlockBytes
    <3>2. GivenTo(answer[l], l)'  BY <1>3, <2>2, <2>5, Zenon DEF GivenTo
    <3>3. answer'[l][2] < Len(data'[answer'[l][1]])  BY <1>3, <2>2, <2>5, Zenon
    <3> QED  BY <2>1, <2>4, <2>5, <3>1, <3>2, <3>3, Zenon DEF BufferRight
  <2>10. buffer' \in [Loader -> Seq(Byte)] /\ r' \in [Loader -> Nat] /\ at' \in [Loader -> {"check", "scan"}]
    BY <1>1, <1>3, <1>8, <2>3, Zenon DEF ReaderTypes
  <2>11. \A m \in Loader : m # l => /\ loader'[m] = loader[m] /\ answer'[m] = answer[m]
                                    /\ buffer'[m] = buffer[m] /\ r'[m] = r[m] /\ at'[m] = at[m]
    BY <1>1, <1>3, <1>8, Zenon DEF ReaderTypes
  <2> QED  BY <1>3, <1>6, <2>7, <2>8, <2>9, <2>10, <2>11, QuietKeeps, Zenon
<1> QED  BY <1>7, <1>8, Zenon

\* A loader is given a block that nobody was given: all its lines are due.
LEMMA GiveBlockKeeps ==
  ASSUME LineInv, NEW l \in Loader, NEW h \in Host, NEW b \in Block, GiveBlock(l, h, b), UNCHANGED input
  PROVE  Files' /\ (WellFormed(data) => ReaderPart' /\ RecordPart')
<1>1. /\ loader \in [Loader -> {"reading", "asked", "answered", "finished", "exit sent", "gone"}]
      /\ Files /\ answer \in [Loader -> Block \cup {NoBlock}] /\ given \in [Block -> SUBSET (Loader \X Nat)]
      /\ num_workers_alive \in Nat /\ AssignerInv /\ replicas \in [Block -> SUBSET Host]
  BY Zenon DEF LineInv, AssignerInv, Types
<1>2. PICK n : n = num_workers_alive  BY Zenon
<1>3. /\ loader[l] = "asked" /\ h \in Selected(HostOf[l]) /\ b \in Locality[h]
      /\ answer' = [answer EXCEPT ![l] = b]
      /\ loader' = [loader EXCEPT ![l] = "answered"]
      /\ given' = [given EXCEPT ![b] = @ \cup {<<l, n>>}]
      /\ UNCHANGED <<replicas, data, buffer, r, at, records>>
  BY <1>2, Zenon DEF GiveBlock, hdfs, input
<1>4. h \in replicas[b] /\ given[b] = {}  BY <1>1, <1>3, LocalityExact, Zenon
<1>5. b[2] < Len(data[b[1]])  BY <1>1, <1>4, Zenon DEF Files
<1>6. given'[b] = {<<l, n>>} /\ \A c \in Block : c # b => given'[c] = given[c]
  <2>1. given'[b] = given[b] \cup {<<l, n>>} /\ \A c \in Block : c # b => given'[c] = given[c]  BY <1>1, <1>3, Zenon
  <2> QED  BY <1>4, <2>1, Zenon
<1>7. Files'  BY <1>1, <1>3, <1>6, Zenon DEF Files
<1>8. ASSUME WellFormed(data)  PROVE ReaderPart' /\ RecordPart'
  <2>1. ReaderTypes /\ BufferRight(l)  BY <1>8, Zenon DEF LineInv, ReaderPart
  <2>2. loader[l] # "reading" /\ loader[l] # "answered"  BY <1>3
  <2>3. buffer[l] = <<>> /\ r[l] = 0  BY <2>1, <2>2, Zenon DEF BufferRight
  <2>4. \A m \in Loader, c \in Block : m # l => (GivenTo(c, m)' <=> GivenTo(c, m))
    <3>1. SUFFICES ASSUME NEW m \in Loader, NEW c \in Block, m # l  PROVE GivenTo(c, m)' <=> GivenTo(c, m)  BY Zenon
    <3>2. CASE c = b
      <4>1. \A k : <<m, k>> # <<l, n>>  BY <3>1
      <4> QED  BY <1>4, <1>6, <3>2, <4>1, Zenon DEF GivenTo
    <3>3. CASE c # b  BY <1>6, <3>3, Zenon DEF GivenTo
    <3> QED  BY <3>2, <3>3, Zenon
  <2>5. loader'[l] = "answered" /\ answer'[l] = b  BY <1>1, <1>3, Zenon
  <2>6. GivenTo(b, l)' /\ ~GivenTo(b, l)  BY <1>1, <1>2, <1>4, <1>6, Zenon DEF GivenTo
  <2>7. \A c, p : ~Due(l, c, p)  BY <2>2, <2>3, Zenon DEF Due, Pending
  <2>8. /\ \A p : Due(l, b, p)'
        /\ \A c, p : c # b => ~Due(l, c, p)'
    BY <2>5, Zenon DEF Due, Pending
  <2>9. \A c \in Block : \A p : Reached(l, c, p)' <=> Reached(l, c, p)
    <3>1. \A c \in Block : c # b => (GivenTo(c, l)' <=> GivenTo(c, l))  BY <1>6, Zenon DEF GivenTo
    <3>2. \A p : ~Reached(l, b, p)' /\ ~Reached(l, b, p)  BY <2>6, <2>8, Zenon DEF Reached
    <3>3. ASSUME NEW c \in Block, c # b, NEW p  PROVE Reached(l, c, p)' <=> Reached(l, c, p)
      <4>1. ~Due(l, c, p)' /\ ~Due(l, c, p)  BY <2>7, <2>8, <3>3, Zenon
      <4>2. GivenTo(c, l)' <=> GivenTo(c, l)  BY <3>1, <3>3, Zenon
      <4> QED  BY <4>1, <4>2, Zenon DEF Reached
    <3> QED  BY <3>2, <3>3, Zenon
  <2>10. \A c \in Block, x \in Lines : Reached(l, c, x[2])' => Reached(l, c, x[2])  BY <2>9, Zenon
  <2>11. BufferRight(l)'
    <3>1. GivenTo(answer[l], l)'  BY <2>5, <2>6, Zenon DEF GivenTo
    <3>2. answer'[l][2] < Len(data'[answer'[l][1]])  BY <1>3, <1>5, <2>5, Zenon
    <3> QED  BY <1>3, <2>3, <2>5, <3>1, <3>2, Zenon DEF BufferRight
  <2>12. buffer' \in [Loader -> Seq(Byte)] /\ r' \in [Loader -> Nat] /\ at' \in [Loader -> {"check", "scan"}]
    BY <1>3, <2>1, Zenon DEF ReaderTypes
  <2>13. \A m \in Loader : m # l => /\ loader'[m] = loader[m] /\ answer'[m] = answer[m]
                                    /\ buffer'[m] = buffer[m] /\ r'[m] = r[m] /\ at'[m] = at[m]
    BY <1>1, <1>3, Zenon
  <2> QED  BY <1>3, <1>8, <2>4, <2>9, <2>10, <2>11, <2>12, <2>13, QuietKeeps, Zenon
<1> QED  BY <1>7, <1>8, Zenon

\* A loader is told that there are no more blocks.
LEMMA RejectKeeps ==
  ASSUME LineInv, WellFormed(data), NEW l \in Loader, loader[l] = "asked",
         answer' = [answer EXCEPT ![l] = NoBlock], loader' = [loader EXCEPT ![l] = "answered"],
         UNCHANGED <<given, input>>
  PROVE  ReaderPart' /\ RecordPart'
<1>1. /\ ReaderTypes /\ loader \in [Loader -> {"reading", "asked", "answered", "finished", "exit sent", "gone"}]
      /\ BufferRight(l) /\ answer \in [Loader -> Block \cup {NoBlock}]
  BY Zenon DEF LineInv, ReaderPart, AssignerInv, Types
<1>2. UNCHANGED <<data, buffer, r, at, records>>  BY Zenon DEF input
<1>3. loader[l] # "reading" /\ loader[l] # "answered" /\ "answered" # "reading"  OBVIOUS
<1>4. buffer[l] = <<>> /\ r[l] = 0  BY <1>1, <1>3, Zenon DEF BufferRight
<1>5. loader'[l] = "answered" /\ answer'[l] = NoBlock  BY <1>1, Zenon
<1>6. \A m, c : GivenTo(c, m)' <=> GivenTo(c, m)  BY Zenon DEF GivenTo
<1>7. NoBlock \notin Block  BY BlockAssignerAssumption, Zenon
<1>8. \A c \in Block : \A p : ~Due(l, c, p) /\ ~Due(l, c, p)'  BY <1>3, <1>4, <1>5, <1>7, Zenon DEF Due, Pending
<1>9. \A c \in Block : \A p : Reached(l, c, p)' <=> Reached(l, c, p)  BY <1>6, <1>8, Zenon DEF Reached
<1>10. \A c \in Block, x \in Lines : Reached(l, c, x[2])' => Reached(l, c, x[2])  BY <1>9, Zenon
<1>11. BufferRight(l)'  BY <1>2, <1>3, <1>4, <1>5, Zenon DEF BufferRight
<1>12. buffer' \in [Loader -> Seq(Byte)] /\ r' \in [Loader -> Nat] /\ at' \in [Loader -> {"check", "scan"}]
  BY <1>1, <1>2, Zenon DEF ReaderTypes
<1>13. \A m \in Loader : m # l => /\ loader'[m] = loader[m] /\ answer'[m] = answer[m]
                                  /\ buffer'[m] = buffer[m] /\ r'[m] = r[m] /\ at'[m] = at[m]
  BY <1>1, <1>2, Zenon
<1> QED  BY <1>2, <1>6, <1>9, <1>10, <1>11, <1>12, <1>13, QuietKeeps, Zenon

-----------------------------------------------------------------------------
\* The invariant holds when nothing is read.
LEMMA InitHasLineInv == LoadInit => LineInv
<1> SUFFICES ASSUME LoadInit  PROVE LineInv  BY Zenon
<1>1. /\ Init /\ data \in Contents
      /\ \A b \in Block : (replicas[b] # {}) <=> b[2] < Len(data[b[1]])
      /\ buffer = [l \in Loader |-> <<>>] /\ r = [l \in Loader |-> 0]
      /\ at = [l \in Loader |-> "check"] /\ records = [l \in Loader |-> <<>>]
  BY Zenon DEF LoadInit
<1>2. AssignerInv  BY <1>1, InitHasInv, Zenon
<1>3. \A b \in Block : given[b] = {}  BY <1>1, Zenon DEF Init
<1>4. Files  BY <1>1, <1>3, Zenon DEF Files
<1>5. ReaderTypes
  <2>1. <<>> \in Seq(Byte) /\ <<>> \in Seq(Record) /\ 0 \in Nat  OBVIOUS
  <2> QED  BY <1>1, <2>1, Zenon DEF ReaderTypes
<1>6. ASSUME NEW l \in Loader  PROVE BufferRight(l) /\ RecordsRight(l) /\ LinesRight(l) /\ NonEmpty(l) = {}
  <2>1. buffer[l] = <<>> /\ r[l] = 0 /\ loader[l] = "reading" /\ records[l] = <<>>  BY <1>1, Zenon DEF Init
  <2>2. loader[l] # "answered"  BY <2>1
  <2>3. BufferRight(l)  BY <2>1, <2>2, Zenon DEF BufferRight
  <2>4. NonEmpty(l) = {}
    <3>1. DOMAIN records[l] = {}  BY <2>1
    <3> QED  BY <3>1, Zenon DEF NonEmpty
  <2>5. \A b \in Block : \A a : ~Reached(l, b, a)  BY <1>3, Zenon DEF Reached, GivenTo
  <2> QED  BY <2>3, <2>4, <2>5, Zenon DEF RecordsRight, LinesRight
<1>7. NoneTwice  BY <1>6, Zenon DEF NoneTwice
<1> QED  BY <1>2, <1>4, <1>5, <1>6, <1>7, Zenon DEF LineInv, ReaderPart, RecordPart

\* All steps keep it.
LEMMA NextKeepsLineInv == LineInv /\ [LoadNext]_loadVars => LineInv'
<1> SUFFICES ASSUME LineInv, [LoadNext]_loadVars  PROVE LineInv'  BY Zenon
<1>1. AssignerInv'  BY StepRefines, NextKeepsInv, Zenon DEF LineInv
<1>2. SUFFICES Files' /\ data' = data /\ (WellFormed(data) => ReaderPart' /\ RecordPart')
  BY <1>1, Zenon DEF LineInv, WellFormed
<1>3. Files  BY Zenon DEF LineInv
<1>4. ASSUME UNCHANGED <<replicas, given, data>>  PROVE Files'  BY <1>3, <1>4, Zenon DEF Files
<1>5. CASE UNCHANGED loadVars
  <2>1. UNCHANGED <<replicas, given, loader, answer, data, buffer, r, at, records>>
    BY <1>5, Zenon DEF loadVars, vars, input
  <2>2. Files'  BY <1>4, <2>1, Zenon
  <2>3. ASSUME WellFormed(data)  PROVE ReaderPart' /\ RecordPart'
    <3>1. ReaderPart /\ RecordPart  BY <2>3, Zenon DEF LineInv
    <3>2. \A m \in Loader : BufferRight(m)'
      <4>1. ASSUME NEW m \in Loader  PROVE BufferRight(m)'
        <5>1. BufferRight(m)  BY <3>1, Zenon DEF ReaderPart
        <5>2. \A c : GivenTo(c, m)' <=> GivenTo(c, m)  BY <2>1, Zenon DEF GivenTo
        <5> QED  BY <2>1, <5>1, <5>2, OtherKeeps, Zenon
      <4> QED  BY <4>1, Zenon
    <3>3. ReaderTypes'  BY <2>1, <3>1, Zenon DEF ReaderPart, ReaderTypes
    <3>4. \A m, b, a : Reached(m, b, a)' <=> Reached(m, b, a)  BY <2>1, Zenon DEF Reached, GivenTo, Due, Pending
    <3>5. RecordPart'  BY <1>3, <2>1, <3>1, <3>4, NoRecordKeeps, Zenon DEF Files
    <3> QED  BY <3>2, <3>3, <3>5, Zenon DEF ReaderPart
  <2> QED  BY <2>1, <2>2, <2>3, Zenon
<1>6. ASSUME NEW l \in Loader, ReaderStep(l)
      PROVE  Files' /\ data' = data /\ (WellFormed(data) => ReaderPart' /\ RecordPart')
  <2>1. UNCHANGED <<replicas, given, data>>
    BY <1>6, Zenon DEF ReaderStep, NextBlock, NextAtEnd, NextFromRest, NextLine, NextLastLine, TakeBlock,
       AskMaster, TakeAnswer, NotifyMaster, input, hdfs, vars
  <2>2. Files'  BY <1>4, <2>1, Zenon
  <2>3. ASSUME WellFormed(data)  PROVE ReaderPart' /\ RecordPart'
    <3>1. CASE NextBlock(l)
      <4>1. "asked" # "answered" /\ "asked" # "reading"  OBVIOUS
      <4>2. /\ loader[l] = "reading" /\ buffer[l] = <<>> /\ loader' = [loader EXCEPT ![l] = "asked"]
            /\ UNCHANGED <<answer, given, input>>
        BY <3>1, Zenon DEF NextBlock, AskMaster
      <4>3. loader[l] # "answered"  BY <4>2
      <4> QED  BY <2>3, <4>1, <4>2, <4>3, IdleKeeps, Zenon
    <3>2. CASE NotifyMaster(l) /\ UNCHANGED input
      <4>1. /\ loader[l] = "finished" /\ loader' = [loader EXCEPT ![l] = "exit sent"]
            /\ UNCHANGED <<answer, given, input>>
        BY <3>2, Zenon DEF NotifyMaster
      <4>2. loader[l] # "answered" /\ loader[l] # "reading"  BY <4>1, Zenon
      <4>3. "exit sent" # "answered" /\ "exit sent" # "reading"  BY Zenon
      <4> QED  BY <2>3, <4>1, <4>2, <4>3, IdleKeeps, Zenon
    <3> QED  BY <1>6, <2>3, <3>1, <3>2, NextAtEndKeeps, NextFromRestKeeps, NextLineKeeps, NextLastLineKeeps,
                TakeBlockKeeps, Zenon DEF ReaderStep
  <2> QED  BY <2>1, <2>2, <2>3, Zenon
<1>7. ASSUME NEW l \in Loader, Serve(l), UNCHANGED input
      PROVE  Files' /\ data' = data /\ (WellFormed(data) => ReaderPart' /\ RecordPart')
  <2>1. data' = data  BY <1>7, Zenon DEF input
  <2>2. ASSUME NEW h \in Host, NEW b \in Block, GiveBlock(l, h, b)
        PROVE  Files' /\ (WellFormed(data) => ReaderPart' /\ RecordPart')
    BY <1>7, <2>2, GiveBlockKeeps, Zenon
  <2>3. CASE Reject(l) \/ RejectUnconnected(l)
    <3>1. /\ loader[l] = "asked" /\ answer' = [answer EXCEPT ![l] = NoBlock] /\ loader' = [loader EXCEPT ![l] = "answered"]
          /\ UNCHANGED <<replicas, given>>
      BY <2>3, Zenon DEF Reject, RejectUnconnected, hdfs
    <3> QED  BY <1>4, <1>7, <2>1, <3>1, RejectKeeps, Zenon
  <2>4. CASE HandleExit(l)
    <3>1. loader[l] = "exit sent" /\ loader' = [loader EXCEPT ![l] = "gone"] /\ UNCHANGED <<replicas, answer, given>>
      BY <2>4, Zenon DEF HandleExit, hdfs
    <3>2. loader[l] # "answered" /\ loader[l] # "reading"  BY <3>1, Zenon
    <3>3. "gone" # "answered" /\ "gone" # "reading"  OBVIOUS
    <3> QED  BY <1>4, <1>7, <2>1, <3>1, <3>2, <3>3, IdleKeeps, Zenon
  <2> QED  BY <1>7, <2>1, <2>2, <2>3, <2>4, Zenon DEF Serve
<1> QED  BY <1>5, <1>6, <1>7, Zenon DEF LoadNext

\* Lines of the files, and every one once.
LEMMA InvReadsOnce == LineInv => LinesReadOnce
<1> SUFFICES ASSUME LineInv, WellFormed(data), NEW l \in Loader, NEW i \in NonEmpty(l)
             PROVE  /\ records[l][i] \in Lines
                    /\ \A m \in Loader : \A k \in NonEmpty(m) : records[m][k] = records[l][i] => <<m, k>> = <<l, i>>
  BY Zenon DEF LinesReadOnce
<1>1. NoneTwice /\ RecordsRight(l)  BY Zenon DEF LineInv, RecordPart
<1>2. records[l][i] \in Lines  BY <1>1, Zenon DEF RecordsRight
<1>3. ASSUME NEW m \in Loader, NEW k \in NonEmpty(m), records[m][k] = records[l][i]  PROVE <<m, k>> = <<l, i>>
  <2>1. m = l /\ k = i  BY <1>1, <1>3, Zenon DEF NoneTwice
  <2> QED  BY <2>1, Zenon
<1> QED  BY <1>2, <1>3, Zenon

\* A block is given to a loader.
LEMMA SomeLoader == \A p \in Loader \X Nat : \E l \in Loader, n \in Nat : p = <<l, n>>
OBVIOUS

\* When all loaders are done every line was due in a block that was given, and
\* nothing is due any more.
LEMMA InvLosesNone == LineInv => NoLineLost
<1> SUFFICES ASSUME LineInv, WellFormed(data), connected,
                    \A l \in Loader : loader[l] \in {"finished", "exit sent", "gone"}, NEW x \in Lines
             PROVE  \E l \in Loader : \E i \in NonEmpty(l) : records[l][i] = x
  BY Zenon DEF NoLineLost
<1>1. AssignerInv /\ Files /\ ReaderPart /\ RecordPart  BY Zenon DEF LineInv
<1>2. PICK b \in Block : b[1] = x[1] /\ Owns(b, x[2]) /\ b[2] < Len(data[b[1]])  BY <1>1, SomeOwner, Zenon DEF Files
<1>3. replicas[b] # {}  BY <1>1, <1>2, Zenon DEF Files
<1>4. given[b] # {}
  <2>1. PICK l \in Loader : TRUE  BY BlockAssignerAssumption, Zenon
  <2> QED  BY <1>1, <1>3, <2>1, Zenon DEF AssignerInv, ToldLast, Told, AllGiven
<1>5. PICK l \in Loader, n \in Nat : <<l, n>> \in given[b]
  <2>1. given[b] \subseteq Loader \X Nat  BY <1>1, Zenon DEF AssignerInv, Types
  <2>2. PICK p \in Loader \X Nat : p \in given[b]  BY <1>4, <2>1, Zenon
  <2> QED  BY <2>2, SomeLoader, Zenon
<1>6. loader[l] # "answered" /\ loader[l] # "reading"
  <2>1. loader[l] \in {"finished", "exit sent", "gone"}  BY Zenon
  <2> QED  BY <2>1, Zenon
<1>7. buffer[l] = <<>>  BY <1>1, <1>6, Zenon DEF ReaderPart, BufferRight
<1>8. Reached(l, b, x[2])  BY <1>5, <1>6, <1>7, Zenon DEF Reached, GivenTo, Due, Pending
<1> QED  BY <1>1, <1>2, <1>8, Zenon DEF RecordPart, LinesRight

(***************************************************************************)
(* Whatever the well-formed files hold, however many loaders read them,    *)
(* and in whatever order the blocks are given: LineInputFormat::next       *)
(* returns lines of the files, whole, and no line twice.                   *)
(***************************************************************************)
THEOREM LinesOnce == LoadSpec => []LinesReadOnce
<1> QED  BY InitHasLineInv, NextKeepsLineInv, InvReadsOnce, PTL DEF LoadSpec

(***************************************************************************)
(* When all loaders are done, every line of the well-formed files was      *)
(* returned by LineInputFormat::next to one of them.                       *)
(***************************************************************************)
THEOREM LinesKept == LoadSpec => []NoLineLost
<1> QED  BY InitHasLineInv, NextKeepsLineInv, InvLosesNone, PTL DEF LoadSpec
=============================================================================
