---------------------------- MODULE PendingBuffer ----------------------------
(***************************************************************************)
(* Requests that wait for the clock of a model to reach a value            *)
(* (server/util/pending_buffer.{hpp,cpp}): a std::map from clock to a      *)
(* vector of messages, here a function whose DOMAIN is the set of keys of  *)
(* the map.                                                                *)
(***************************************************************************)
EXTENDS Integers, Sequences

EmptyBuffer == [clock \in {} |-> <<>>]

Bucket(b, clock) == IF clock \in DOMAIN b THEN b[clock] ELSE <<>>

\* What Pop(clock) returns, and the buffer it leaves.
Popped(b, clock) == Bucket(b, clock)

Pop(b, clock) == [c \in DOMAIN b \ {clock} |-> b[c]]

PushOverwrite(b, clock, msg) ==    \* mutant: a new vector for every push
  [c \in DOMAIN b \cup {clock} |-> IF c = clock THEN <<msg>> ELSE b[c]]

Push(b, clock, msg) ==
  [c \in DOMAIN b \cup {clock} |->
     IF c = clock THEN Append(Bucket(b, clock), msg) ELSE b[c]]

\* Size(progress), what SSPModel::GetPendingSize reports.
Size(b, clock) == Len(Bucket(b, clock))
=============================================================================
