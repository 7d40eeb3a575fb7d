----------------------------- MODULE MapStorage -----------------------------
(***************************************************************************)
(* The key-value store of a model on one server thread                     *)
(* (server/map_storage.hpp behind server/abstract_storage.hpp).            *)
(*                                                                         *)
(* Values are abstracted to what the consistency models promise about      *)
(* them: which updates they contain.  The value of a key counts, for each  *)
(* worker thread, the updates of that thread summed into it; an Add of     *)
(* thread w carries the unit value of w for each of its keys.  A lost      *)
(* update and an update applied twice are then both visible.               *)
(***************************************************************************)
EXTENDS Message

EmptyStorage == [k \in {} |-> 0]

Zero == [tid \in Tid |-> 0]

Unit(w) == [tid \in Tid |-> IF tid = w THEN 1 ELSE 0]

Plus(u, v) == [tid \in Tid |-> u[tid] + v[tid]]

(***************************************************************************)
(* SubAdd: insert the value of a key that is not stored, += otherwise.     *)
(***************************************************************************)
SubAddAssign(s, keys, val) ==   \* mutant: = where the code has +=
  [k \in DOMAIN s \cup keys |-> IF k \in keys THEN val ELSE s[k]]

SubAdd(s, keys, val) ==
  [k \in DOMAIN s \cup keys |->
     IF k \notin keys THEN s[k]
     ELSE IF k \in DOMAIN s THEN Plus(s[k], val) ELSE val]

(***************************************************************************)
(* SubGet answers the values of the keys, and leaves a 0 behind for a key  *)
(* that was not stored.                                                    *)
(***************************************************************************)
SubGet(s, keys) == [k \in keys |-> IF k \in DOMAIN s THEN s[k] ELSE Zero]

AfterGetResets(s, keys) ==      \* mutant: leaves a 0 behind for every key read
  [k \in DOMAIN s \cup keys |-> IF k \in keys THEN Zero ELSE s[k]]

AfterGet(s, keys) ==
  [k \in DOMAIN s \cup keys |-> IF k \in DOMAIN s THEN s[k] ELSE Zero]

\* The message AbstractStorage::Get makes for a Get.
GetReply(s, m) ==
  [flag |-> "kGet", recver |-> m.sender, id |-> m.id, vals |-> SubGet(s, m.keys)]

-----------------------------------------------------------------------------
(* What the users of the table see of its state (TableService).            *)

\* A key that is not stored reads as 0.
ValuesOf(s) == [k \in Key |-> IF k \in DOMAIN s THEN s[k] ELSE Zero]

\* The Gets that the replies q answer.
AnswersOf(q) ==
  {[sender |-> q[i].recver, id |-> q[i].id, vals |-> q[i].vals] :
     i \in {j \in DOMAIN q : q[j].flag = "kGet"}}
=============================================================================
