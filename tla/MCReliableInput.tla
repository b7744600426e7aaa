-------------------------- MODULE MCReliableInput --------------------------
(***************************************************************************)
(* Instances of ReliableInput for TLC: two or three pages, two payloads.   *)
(***************************************************************************)
EXTENDS ReliableInput, TLC

CONSTANTS s1, s2, s3, d1, d2

MCStreams2 == {s1, s2}
MCStreams3 == {s1, s2, s3}
MCData == {d1, d2}

\* Pages are interchangeable, and so are payloads.
MCSymmetry == Permutations(MCStreams3) \cup Permutations(MCData)
=============================================================================
