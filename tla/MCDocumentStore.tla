--------------------------- MODULE MCDocumentStore ---------------------------
(* Small instances of DocumentStore for TLC. *)
EXTENDS DocumentStore, TLC

CONSTANTS short, long

(* One content of a single chunk and one of two. *)
MCChunks == [c \in Content |-> IF c = short THEN 1 ELSE 2]

SessionSymmetry == Permutations(Session)
=============================================================================
