---------------------------- MODULE MCFileCache ----------------------------
(* Two requests for FileCache that have one document in common.               *)
EXTENDS FileCache

CONSTANTS a, b, d1, d2, d3

MCBlocks == [r \in Requests |-> IF r = a THEN <<d1, d2>> ELSE <<d3, d1>>]
=============================================================================
