---------------------------- MODULE TableService ----------------------------
(***************************************************************************)
(* What a table on one server thread promises to its users, whatever its   *)
(* consistency model (the interface of server/abstract_model.hpp, seen     *)
(* through the replies): every Add changes the values once, and every Get  *)
(* is answered at most once, at one moment after it was asked, with the    *)
(* values of all its keys at that moment.  When a Get is answered is up to *)
(* the consistency model.                                                  *)
(***************************************************************************)
EXTENDS Message

CONSTANT GetId       \* numbers for the Gets of a thread

VARIABLES values,    \* the value of every key
          waiting,   \* Gets asked and not answered
          answers    \* Gets answered, with the values they were given

vars == <<values, waiting, answers>>

Init ==
  /\ values = [k \in Key |-> [w \in Tid |-> 0]]
  /\ waiting = {}
  /\ answers = {}

New(m) == \A x \in waiting \cup answers : ~(x.sender = m.sender /\ x.id = m.id)

AnswerTo(m) ==
  [sender |-> m.sender, id |-> m.id, vals |-> [k \in m.keys |-> values[k]]]

Ask(m) ==
  /\ New(m)
  /\ waiting' = waiting \cup {m}
  /\ UNCHANGED <<values, answers>>

AskAndAnswer(m) ==
  /\ New(m)
  /\ answers' = answers \cup {AnswerTo(m)}
  /\ UNCHANGED <<values, waiting>>

Answer(m) ==
  /\ m \in waiting
  /\ waiting' = waiting \ {m}
  /\ answers' = answers \cup {AnswerTo(m)}
  /\ UNCHANGED values

Update(w, keys) ==
  /\ values' = [k \in Key |-> IF k \in keys THEN [values[k] EXCEPT ![w] = @ + 1]
                              ELSE values[k]]
  /\ UNCHANGED <<waiting, answers>>

Next ==
  \/ \E w \in Tid, id \in GetId, keys \in Keys :
       LET m == [sender |-> w, id |-> id, keys |-> keys]
       IN  Ask(m) \/ AskAndAnswer(m)
  \/ \E m \in waiting : Answer(m)
  \/ \E w \in Tid, keys \in Keys : Update(w, keys)

Spec == Init /\ [][Next]_vars
=============================================================================
