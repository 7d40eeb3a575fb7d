------------------------------ MODULE MCKVClient ------------------------------
(* A small instance of KVClient for TLC. *)
EXTENDS KVClient

CONSTANTS s1, s2

Servers == <<s1, s2>>
Ranges == <<<<0, 1>>, <<1, 3>>>>

\* The first thread asks for nothing or for keys of both servers; the
\* others for one key.
KeyVectors == [t \in Thread |-> IF t = First THEN {<<>>, <<2, 0, 1>>} ELSE {<<1>>}]

\* An update of keys of both servers, one of them twice.
UpdateVectors == {<<2, 1, 2>>}

\* The first thread calls Get twice and updates; the others call it once.
Gets == [t \in Thread |-> IF t = First THEN 2 ELSE 1]
Pushes == [t \in Thread |-> IF t = First THEN 1 ELSE 0]
=============================================================================
