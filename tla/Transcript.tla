----------------------------- MODULE Transcript -----------------------------
(***************************************************************************)
(* What a conversation promises to whoever reads it: an ordered history    *)
(* that grows by whole turns, a question and the answer to it, the answer  *)
(* made from the most recent messages before the question (settings.py:113 *)
(* "Number of most-recent messages (both roles) sent to the LLM").  No     *)
(* sessions, no sequence numbers.                                          *)
(***************************************************************************)
EXTENDS Naturals, Sequences

CONSTANTS
  Turn,     \* the turns that may be taken; a conversation bears the name of its first
  Window    \* settings.chat.history_window

VARIABLE transcript   \* transcript[c]: the messages of conversation c

Question(t)     == [turn |-> t, role |-> "user", seen |-> <<>>]
Answer(t, seen) == [turn |-> t, role |-> "assistant", seen |-> seen]

(* Whose messages a history is made of. *)
Heads(s) == [i \in DOMAIN s |-> <<s[i].turn, s[i].role>>]

MostRecent(s) ==
  IF Len(s) <= Window THEN s ELSE SubSeq(s, Len(s) - Window + 1, Len(s))

Taken(t) == \E c \in Turn : \E i \in DOMAIN transcript[c] : transcript[c][i].turn = t

TranscriptInit == transcript = [c \in Turn |-> <<>>]

(* The first turn of a conversation starts it. *)
TakeTurn(c, t) ==
  /\ ~Taken(t)
  /\ c = t \/ transcript[c] # <<>>
  /\ transcript' =
       [transcript EXCEPT ![c] =
          @ \o <<Question(t), Answer(t, Heads(MostRecent(@)))>>]

TranscriptNext == \E c, t \in Turn : TakeTurn(c, t)

TranscriptSpec == TranscriptInit /\ [][TranscriptNext]_transcript
=============================================================================
