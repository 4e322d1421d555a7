--------------------------- MODULE MCConversations ---------------------------
(* Small instances of Conversations for TLC. *)
EXTENDS Conversations, TLC

TurnSymmetry == Permutations(Turn)
=============================================================================
