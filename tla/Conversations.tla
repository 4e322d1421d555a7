---------------------------- MODULE Conversations ----------------------------
(***************************************************************************)
(* The turns of a chat: AnswerQuestionUseCase in the session of a request, *)
(* and the conversations and conversation_messages tables it reads and     *)
(* writes.  The conversation is loaded before the model is asked and is    *)
(* written back after it has answered, seconds later; another turn of the  *)
(* same conversation may come in between.                                  *)
(*                                                                         *)
(* An answer is what it was made from: the messages the model was given.   *)
(* The context found by the search is left out.                            *)
(***************************************************************************)
EXTENDS Naturals, Sequences, FiniteSets

CONSTANTS
  Turn,     \* chat requests; a conversation bears the name of the turn that creates it
  Window,   \* settings.chat.history_window
  MaxOpen   \* bound: turns in progress at the same time

ASSUME TurnAssumption    == IsFiniteSet(Turn)
ASSUME WindowAssumption  == Window \in Nat
ASSUME MaxOpenAssumption == MaxOpen \in Nat

VARIABLES
  conversations,  \* committed rows of conversations
  rows,           \* committed rows of conversation_messages
  pc,             \* pc[t]: how far the turn has come
  conv,           \* conv[t]: its conversation
  messages,       \* messages[t]: Conversation.messages in its memory
  existing,       \* existing[t]: the messages its update() has found stored
  pending,        \* pending[t]: the rows its session has inserted
  told            \* conversations a response has named

vars == <<conversations, rows, pc, conv, messages, existing, pending, told>>

Stages == {"new", "loaded", "answered", "compared", "inserted", "told", "done", "refused"}

MaxLen == 2 * Cardinality(Turn)

Heading == Turn \X {"user", "assistant"}

(* At most Window messages, or all of them when it is 0. *)
Histories ==
  UNION {[1 .. n -> Heading] : n \in 0 .. IF Window = 0 THEN MaxLen ELSE Window}

Message == [ turn : Turn, role : {"user", "assistant"}, seen : Histories ]

IsRow(r) ==
  /\ DOMAIN r = {"conversation", "seq", "message"}
  /\ r.conversation \in Turn /\ r.seq \in 0 .. MaxLen - 1 /\ r.message \in Message

ConversationTypeOK ==
  /\ conversations \subseteq told /\ told \subseteq Turn
  /\ \A r \in rows : IsRow(r)
  /\ pc \in [Turn -> Stages]
  /\ conv \in [Turn -> Turn]
  /\ \A t \in Turn :
       /\ Len(messages[t]) <= MaxLen
       /\ \A i \in DOMAIN messages[t] : messages[t][i] \in Message
       /\ existing[t] \subseteq Message
       /\ \A r \in pending[t] : IsRow(r)

ConversationInit ==
  /\ conversations = {}
  /\ rows     = {}
  /\ pc       = [t \in Turn |-> "new"]
  /\ conv     = [t \in Turn |-> t]
  /\ messages = [t \in Turn |-> <<>>]
  /\ existing = [t \in Turn |-> {}]
  /\ pending  = [t \in Turn |-> {}]
  /\ told     = {}

-----------------------------------------------------------------------------

RowsOf(c) == {r \in rows : r.conversation = c}

Earlier(r, R) == {q \in R : q.seq < r.seq}

(* SELECT ... ORDER BY seq *)
InOrder(R) ==
  [i \in 1 .. Cardinality(R) |->
     (CHOOSE r \in R : Cardinality(Earlier(r, R)) = i - 1).message]

(* messages[-history_window:], which is the whole list for 0. *)
History(s) ==
  IF Window = 0 \/ Len(s) <= Window THEN s ELSE SubSeq(s, Len(s) - Window + 1, Len(s))

Heads(s) == [i \in DOMAIN s |-> <<s[i].turn, s[i].role>>]

Open(t) == pc[t] \notin {"new", "done", "refused"}

Goto(t, stage) == pc' = [pc EXCEPT ![t] = stage]

Begin(t) ==
  /\ pc[t] = "new"
  /\ Cardinality({u \in Turn : Open(u)}) < MaxOpen
  /\ Goto(t, "loaded")

(* No conversation_id: a new conversation, in memory only. *)
StartConversation(t) ==
  /\ Begin(t)
  /\ conv' = [conv EXCEPT ![t] = t]
  /\ UNCHANGED <<conversations, rows, messages, existing, pending, told>>

(* conversations.get *)
LoadConversation(t, c) ==
  /\ Begin(t)
  /\ c \in conversations
  /\ conv'     = [conv EXCEPT ![t] = c]
  /\ messages' = [messages EXCEPT ![t] = InOrder(RowsOf(c))]
  /\ UNCHANGED <<conversations, rows, existing, pending, told>>

(* EntityNotFoundError: the client names a conversation it has been told   *)
(* of, and there is no such row.                                           *)
RefuseUnknown(t, c) ==
  /\ pc[t] = "new"
  /\ c \in told \ conversations
  /\ Goto(t, "refused")
  /\ UNCHANGED <<conversations, rows, conv, messages, existing, pending, told>>

\* mutant: the model is given the whole conversation
AnswerFromAll(t) ==
  /\ pc[t] = "loaded"
  /\ messages' = [messages EXCEPT ![t] = @ \o
       << [turn |-> t, role |-> "user", seen |-> <<>>],
          [turn |-> t, role |-> "assistant", seen |-> Heads(@)] >>]
  /\ Goto(t, "answered")
  /\ UNCHANGED <<conversations, rows, conv, existing, pending, told>>

(* The model is asked with the history, and question and answer are        *)
(* appended to the conversation in memory.                                 *)
AnswerQuestion(t) ==
  /\ pc[t] = "loaded"
  /\ messages' = [messages EXCEPT ![t] = @ \o
       << [turn |-> t, role |-> "user", seen |-> <<>>],
          [turn |-> t, role |-> "assistant", seen |-> Heads(History(@))] >>]
  /\ Goto(t, "answered")
  /\ UNCHANGED <<conversations, rows, conv, existing, pending, told>>

(* update(): the ids stored by now.  A new conversation is added instead,  *)
(* where nothing can be stored yet.                                        *)
CompareStored(t) ==
  /\ pc[t] = "answered"
  /\ existing' = [existing EXCEPT ![t] = {r.message : r \in RowsOf(conv[t])}]
  /\ Goto(t, "compared")
  /\ UNCHANGED <<conversations, rows, conv, messages, pending, told>>

\* mutant: new messages are numbered after those stored by now
NewRowsAppended(t) ==
  LET new == {k \in DOMAIN messages[t] : messages[t][k] \notin existing[t]}
  IN  {[ conversation |-> conv[t],
         seq          |-> Cardinality(existing[t]) + Cardinality({k \in new : k < i}),
         message      |-> messages[t][i] ] : i \in new}

(* enumerate(conversation.messages): a message not stored gets its place   *)
(* in memory as its number.                                                *)
NewRows(t) ==
  {[conversation |-> conv[t], seq |-> i - 1, message |-> messages[t][i]] :
     i \in {k \in DOMAIN messages[t] : messages[t][k] \notin existing[t]}}

\* mutant: two messages of a conversation may bear the same number
SeqUnchecked(t) == NewRows(t) # {}

(* The unique index ix_messages_conversation_seq: an INSERT of a taken     *)
(* number waits for the session that inserted it; if that one commits,     *)
(* IntegrityError aborts the turn.                                         *)
SeqFree(t) ==
  \A r \in NewRows(t), q \in rows \cup UNION {pending[u] : u \in Turn} :
    r.conversation = q.conversation => r.seq # q.seq

InsertMessages(t) ==
  /\ pc[t] = "compared"
  /\ SeqFree(t)
  /\ pending' = [pending EXCEPT ![t] = NewRows(t)]
  /\ Goto(t, "inserted")
  /\ UNCHANGED <<conversations, rows, conv, messages, existing, told>>

Forget(t) ==
  /\ Goto(t, "done")
  /\ messages' = [messages EXCEPT ![t] = <<>>]
  /\ existing' = [existing EXCEPT ![t] = {}]
  /\ pending'  = [pending EXCEPT ![t] = {}]
  /\ conv'     = [conv EXCEPT ![t] = t]

(* The response names the conversation.  It is sent before the dependency  *)
(* get_session goes on after its yield, which is where the session commits *)
(* (FastAPI since 0.118; uv.lock has 0.139).                               *)
Respond(t) ==
  /\ pc[t] = "inserted"
  /\ told' = told \cup {conv[t]}
  /\ Goto(t, "told")
  /\ UNCHANGED <<conversations, rows, conv, messages, existing, pending>>

CommitTurn(t) ==
  /\ pc[t] = "told"
  /\ conversations' = conversations \cup {conv[t]}
  /\ rows' = rows \cup pending[t]
  /\ Forget(t)
  /\ UNCHANGED told

(* The search or the model raises (a rate limit), the insert is refused,   *)
(* or the process is lost.                                                 *)
AbortTurn(t) ==
  /\ Open(t)
  /\ Forget(t)
  /\ UNCHANGED <<conversations, rows, told>>

ConversationNext ==
  \E t \in Turn :
    \/ StartConversation(t)
    \/ \E c \in Turn : LoadConversation(t, c) \/ RefuseUnknown(t, c)
    \/ AnswerQuestion(t)
    \/ CompareStored(t)
    \/ InsertMessages(t)
    \/ Respond(t)
    \/ CommitTurn(t)
    \/ AbortTurn(t)

ConversationSpec == ConversationInit /\ [][ConversationNext]_vars

-----------------------------------------------------------------------------
(* Properties *)

(* The messages of a conversation are numbered 0, 1, ... without a gap or  *)
(* a repetition, whichever turns overlapped and whichever of them failed.  *)
NumberedWithoutGaps ==
  \A c \in Turn : {r.seq : r \in RowsOf(c)} = 0 .. Cardinality(RowsOf(c)) - 1

(* Read in order, the committed conversations grow by whole turns, each    *)
(* answer made from the messages right before its question: turns that     *)
(* overlap look as if they had come one after the other.                   *)
Promise ==
  INSTANCE Transcript WITH transcript <- [c \in Turn |-> InOrder(RowsOf(c))]

TurnsSerialize == Promise!TranscriptSpec

-----------------------------------------------------------------------------
(* What the repository says and the code does not do *)

(* The session commits when the request ends, and then the response is     *)
(* sent (ARQUITECTURA.md:121-131, 718-724): a client that was told of a    *)
(* conversation can go on with it.  It cannot while the commit is pending, *)
(* nor after the commit has failed.                                        *)
ToldIsFound == \A t \in Turn : pc[t] # "refused"
=============================================================================
