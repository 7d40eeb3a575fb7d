----------------------------- MODULE MCLineInput -----------------------------
(* A small instance of LineInput for TLC. *)
EXTENDS LineInput, TLC

CONSTANTS l1, l2, h1, h2, f1, Other, MaxLength

\* Two nodes on hosts of their own.
OwnHosts == l1 :> h1 @@ l2 :> h2

FileBlocks == {<<f1, 0>>, <<f1, BlockSize>>, <<f1, 2 * BlockSize>>}

\* All well-formed files of less than MaxLength bytes, and those of MaxLength
\* bytes that do not begin with a newline.
SmallFiles ==
  {d \in UNION {[{f1} -> [1 .. n -> {NL, Other}]] : n \in 0 .. MaxLength} :
     WellFormed(d) /\ (Len(d[f1]) = MaxLength => d[f1][1] = Other)}
=============================================================================
