------------------------------- MODULE Message -------------------------------
(***************************************************************************)
(* The messages a server thread exchanges with worker threads about one    *)
(* table (base/message.hpp).  recver of a request and sender of a reply    *)
(* are this server thread and are left out; model_id is always the id of   *)
(* the model, by which ServerThread::Main chose the model to call.  The    *)
(* field "id" is not in the code: it numbers the Gets of a thread, so that *)
(* the properties can tell one Get from the next.                          *)
(***************************************************************************)
EXTENDS Integers, FiniteSets

CONSTANTS Tid,        \* worker thread ids that may ever use the table
          Key         \* keys of the table stored on this server thread

ASSUME IdAssumption == IsFiniteSet(Tid)

\* The set of keys a request names: a slice of the user's keys, never empty.
Keys == SUBSET Key \ {{}}

\* A value counts, for each thread, the updates of that thread summed in it.
Value == [Tid -> Nat]

GetMsg == [sender : Tid, id : Nat, keys : Keys]

\* The values of a set of keys, as a function on the keys.
IsVals(f) == DOMAIN f \subseteq Key /\ \A k \in DOMAIN f : f[k] \in Value

IsReply(r) ==
  \/ /\ r.flag = "kGet"
     /\ r.recver \in Tid /\ r.id \in Nat /\ IsVals(r.vals)
  \/ /\ r.flag = "kResetWorkerInModel"
     /\ r.recver \in Tid
=============================================================================
