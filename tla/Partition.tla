------------------------------ MODULE Partition ------------------------------
(***************************************************************************)
(* Which server thread holds a key, and the slicing of requests            *)
(* (base/hash_partition_manager.hpp, base/range_partition_manager.hpp).    *)
(*                                                                         *)
(* A slice keeps the order of the vector it is cut from, so it is given by *)
(* the positions it takes from it.                                         *)
(***************************************************************************)
EXTENDS Integers, Sequences, FiniteSets

CONSTANTS server_thread_ids,   \* the server threads, in the order of the vector
          ranges               \* ranges_: one <<begin, end>> for each server thread

Server == {server_thread_ids[i] : i \in DOMAIN server_thread_ids}

(***************************************************************************)
(* Each server thread has a range, and the ranges do not overlap.          *)
(***************************************************************************)
ASSUME PartitionAssumption ==
  /\ server_thread_ids \in Seq(Server) /\ server_thread_ids # <<>>
  /\ ranges \in Seq(Nat \X Nat) /\ Len(ranges) = Len(server_thread_ids)
  /\ \A i, j \in DOMAIN ranges :
       i # j => ranges[i][2] <= ranges[j][1] \/ ranges[j][2] <= ranges[i][1]

InRange(i, key) == ranges[i][1] <= key /\ key < ranges[i][2]

\* Past the last range, GetServerIdForKey would read past the end of
\* server_thread_ids_.
Held(key) == \E i \in DOMAIN ranges : InRange(i, key)

HashServer(key) == server_thread_ids[(key % Len(server_thread_ids)) + 1]

RangeServer(key) ==
  server_thread_ids[CHOOSE i \in DOMAIN ranges : InRange(i, key) /\ \A j \in 1 .. i - 1 : ~InRange(j, key)]

ServerOf(manager, key) ==
  IF manager = "HashPartitionManager" THEN HashServer(key) ELSE RangeServer(key)

\* Slice of a vector of keys.
Slice(manager, keys) ==
  [s \in {ServerOf(manager, keys[i]) : i \in DOMAIN keys} |->
     {i \in DOMAIN keys : ServerOf(manager, keys[i]) = s}]

\* Slice of key-value pairs, given by their keys.
SliceKVsByPosition(manager, kvs) ==      \* mutant: the server of i, not of key i
  [s \in {ServerOf(manager, i - 1) : i \in DOMAIN kvs} |->
     {i \in DOMAIN kvs : ServerOf(manager, i - 1) = s}]

SliceKVs(manager, kvs) ==
  [s \in {ServerOf(manager, kvs[i]) : i \in DOMAIN kvs} |->
     {i \in DOMAIN kvs : ServerOf(manager, kvs[i]) = s}]
=============================================================================
