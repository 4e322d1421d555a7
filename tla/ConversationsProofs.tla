------------------------- MODULE ConversationsProofs -------------------------
(***************************************************************************)
(* Theorems about Conversations for any number of turns and conversations, *)
(* any overlap of turns and any history window.                            *)
(***************************************************************************)
EXTENDS Conversations, FiniteSetTheorems, SequenceTheorems, TLAPS

(* The row of message m, numbered n, of conversation c. *)
Row(c, n, m) == [conversation |-> c, seq |-> n, message |-> m]

RowRecord == [conversation : Turn, seq : Nat, message : Message]

(* The rows of a conversation whose messages are s. *)
RowSet(c, s) == {Row(c, i - 1, s[i]) : i \in DOMAIN s}

(* The committed messages of conversation c, read in order. *)
Thread(c) == InOrder(RowsOf(c))

(* What turn t has read of its conversation: the messages in its memory    *)
(* but for the question and the answer it has appended.                    *)
Read(t) ==
  IF pc[t] = "loaded" THEN messages[t] ELSE SubSeq(messages[t], 1, Len(messages[t]) - 2)

Question(t)     == [turn |-> t, role |-> "user", seen |-> <<>>]
Answer(t, seen) == [turn |-> t, role |-> "assistant", seen |-> seen]
Exchange(t, s)  == <<Question(t), Answer(t, Heads(History(s)))>>

Answered == {"answered", "compared", "inserted", "told"}
Inserted == {"inserted", "told"}

-----------------------------------------------------------------------------
(* The inductive invariant *)

Shapes ==
  /\ conversations \subseteq told /\ told \subseteq Turn
  /\ rows     \subseteq RowRecord
  /\ pc       \in [Turn -> Stages]
  /\ conv     \in [Turn -> Turn]
  /\ messages \in [Turn -> Seq(Message)]
  /\ existing \in [Turn -> SUBSET Message]
  /\ pending  \in [Turn -> SUBSET RowRecord]

(* The rows of a conversation are its messages, numbered from 0. *)
ThreadInv ==
  \A c \in Turn : Thread(c) \in Seq(Message) /\ RowsOf(c) = RowSet(c, Thread(c))

(* Only turns that are over have messages stored, one in each role. *)
RowsInv ==
  /\ \A r \in rows : pc[r.message.turn] = "done" /\ r.conversation \in conversations
  /\ \A q, r \in rows :
       q.message.turn = r.message.turn /\ q.message.role = r.message.role => q = r
  /\ \A c \in conversations : pc[c] = "done" /\ RowsOf(c) # {}

(* What a turn has read is stored still; what it inserts comes right after *)
(* everything stored, since the unique index admits nothing else.          *)
TurnInv(t) ==
  /\ ~Open(t) => messages[t] = <<>>
  /\ Open(t) =>
       /\ Read(t) \in Seq(Message)
       /\ RowSet(conv[t], Read(t)) \subseteq rows
       /\ \/ conv[t] = t /\ Read(t) = <<>>
          \/ conv[t] \in conversations /\ Read(t) # <<>>
  /\ pc[t] \in Answered => messages[t] = Read(t) \o Exchange(t, Read(t))
  /\ pc[t] = "compared" => \A i \in DOMAIN Read(t) : Read(t)[i] \in existing[t]
  /\ \A m \in existing[t] : pc[m.turn] = "done"
  /\ pc[t] \in Inserted =>
       /\ Thread(conv[t]) = Read(t)
       /\ pending[t] = {Row(conv[t], Len(Read(t)), Question(t)),
                        Row(conv[t], Len(Read(t)) + 1, Answer(t, Heads(History(Read(t)))))}
  /\ pc[t] \notin Inserted => pending[t] = {}
  /\ pc[t] = "told" => conv[t] \in told

(* One turn at a time has rows of a conversation inserted. *)
PendingInv ==
  \A t, u \in Turn : pc[t] \in Inserted /\ pc[u] \in Inserted /\ conv[t] = conv[u] => t = u

IInv == Shapes /\ ThreadInv /\ RowsInv /\ (\A t \in Turn : TurnInv(t)) /\ PendingInv

-----------------------------------------------------------------------------
(* The rows of a sequence of messages *)

(* The rows of the first n messages. *)
FirstRows(c, s, n) == {Row(c, i - 1, s[i]) : i \in 1 .. n}

LEMMA PrefixCardinality ==
  ASSUME NEW c, NEW s, NEW n \in Nat
  PROVE  Cardinality(FirstRows(c, s, n)) = n
<1> DEFINE R == FirstRows(c, s, n)
           f == [i \in 1 .. n |-> Row(c, i - 1, s[i])]
<1>1. f \in Bijection(1 .. n, R)
  <2>1. f \in [1 .. n -> R] /\ \A r \in R : \E i \in 1 .. n : f[i] = r
    BY DEF FirstRows
  <2>2. ASSUME NEW i \in 1 .. n, NEW j \in 1 .. n, f[i] = f[j]
        PROVE  i = j
    <3>1. f[i].seq = i - 1 /\ f[j].seq = j - 1
      BY DEF Row
    <3>2. QED
      BY <2>2, <3>1
  <2>3. QED
    BY <2>1, <2>2 DEF Bijection, Injection, Surjection, IsInjective
<1>2. IsFiniteSet(1 .. n) /\ Cardinality(1 .. n) = n
  BY FS_Interval
<1>3. ExistsBijection(1 .. n, R)
  BY <1>1 DEF ExistsBijection
<1>4. QED
  BY <1>2, <1>3, FS_Bijection

(* Counting the rows before it gives back the place of a message, so that  *)
(* reading the rows in order gives back the messages.                      *)
LEMMA RowSetFacts ==
  ASSUME NEW c, NEW S, NEW s \in Seq(S)
  PROVE  /\ Cardinality(RowSet(c, s)) = Len(s)
         /\ InOrder(RowSet(c, s)) = s
<1> DEFINE R == RowSet(c, s)
           place(i) == Row(c, i - 1, s[i])
<1>1. Len(s) \in Nat /\ DOMAIN s = 1 .. Len(s) /\ s = [i \in 1 .. Len(s) |-> s[i]]
  BY LenProperties
<1>2. R = FirstRows(c, s, Len(s)) /\ R = {place(i) : i \in 1 .. Len(s)}
  BY <1>1 DEF RowSet, FirstRows
<1>3. Cardinality(R) = Len(s)
  BY <1>1, <1>2, PrefixCardinality
<1>4. ASSUME NEW i \in 1 .. Len(s)
      PROVE  Cardinality(Earlier(place(i), R)) = i - 1
  <2>1. i - 1 \in Nat
    BY <1>1
  <2>2. Earlier(place(i), R) = FirstRows(c, s, i - 1)
    <3>1. \A k \in 1 .. Len(s) : place(k).seq = k - 1
      BY DEF Row
    <3>2. Earlier(place(i), R) = {q \in R : q.seq < i - 1}
      BY <3>1 DEF Earlier
    <3>3. QED
      BY <1>1, <1>2, <3>1, <3>2 DEF FirstRows
  <2>3. QED
    BY <2>1, <2>2, PrefixCardinality
<1>5. ASSUME NEW i \in 1 .. Len(s)
      PROVE  (CHOOSE r \in R : Cardinality(Earlier(r, R)) = i - 1).message = s[i]
  <2>1. ASSUME NEW r \in R, Cardinality(Earlier(r, R)) = i - 1
        PROVE  r = place(i)
    <3>1. PICK k \in 1 .. Len(s) : r = place(k)
      BY <1>2
    <3>2. Cardinality(Earlier(place(k), R)) = k - 1
      BY <1>4
    <3>3. k = i
      BY <1>1, <2>1, <3>1, <3>2
    <3>4. QED
      BY <3>1, <3>3
  <2>2. place(i) \in R /\ Cardinality(Earlier(place(i), R)) = i - 1
    BY <1>2, <1>4
  <2>3. (CHOOSE r \in R : Cardinality(Earlier(r, R)) = i - 1) = place(i)
    BY <2>1, <2>2
  <2>4. place(i).message = s[i]
    BY DEF Row
  <2>5. QED
    BY <2>3, <2>4
<1>6. InOrder(R) = [i \in 1 .. Len(s) |-> s[i]]
  BY <1>3, <1>5 DEF InOrder
<1>7. QED
  BY <1>1, <1>3, <1>6

(* An exchange adds two rows, numbered after the others. *)
LEMMA RowSetGrows ==
  ASSUME NEW c, NEW S, NEW s \in Seq(S), NEW a \in S, NEW b \in S
  PROVE  RowSet(c, s \o <<a, b>>) =
           RowSet(c, s) \cup {Row(c, Len(s), a), Row(c, Len(s) + 1, b)}
<1> DEFINE n == Len(s)
           t == s \o <<a, b>>
<1>1. /\ n \in Nat /\ DOMAIN s = 1 .. n
      /\ DOMAIN t = 1 .. n + 2
      /\ t[n + 1] = a /\ t[n + 2] = b
      /\ \A i \in 1 .. n : t[i] = s[i]
  <2>1. n \in Nat /\ DOMAIN s = 1 .. n /\ <<a, b>> \in Seq(S) /\ Len(<<a, b>>) = 2
    BY LenProperties
  <2>2. t \in Seq(S) /\ Len(t) = n + 2
        /\ \A i \in 1 .. n + 2 : t[i] = IF i <= n THEN s[i] ELSE <<a, b>>[i - n]
    BY <2>1, ConcatProperties
  <2>3. t[n + 1] = <<a, b>>[1] /\ t[n + 2] = <<a, b>>[2]
    BY <2>1, <2>2
  <2>4. DOMAIN t = 1 .. n + 2
    BY <2>2, LenProperties
  <2>5. QED
    BY <2>1, <2>2, <2>3, <2>4
<1> HIDE DEF t
<1>2. 1 .. n + 2 = (1 .. n) \cup {n + 1, n + 2}
  BY <1>1
<1>3. n + 1 - 1 = n /\ n + 2 - 1 = n + 1
  BY <1>1
<1>4. ASSUME NEW r
      PROVE  r \in RowSet(c, t) <=>
               r \in RowSet(c, s) \/ r = Row(c, n, a) \/ r = Row(c, n + 1, b)
  <2>1. r \in RowSet(c, t) <=>
          \/ \E i \in 1 .. n : r = Row(c, i - 1, t[i])
          \/ r = Row(c, n + 1 - 1, t[n + 1]) \/ r = Row(c, n + 2 - 1, t[n + 2])
    BY <1>1, <1>2 DEF RowSet
  <2>2. r \in RowSet(c, s) <=> \E i \in 1 .. n : r = Row(c, i - 1, t[i])
    BY <1>1 DEF RowSet
  <2>3. QED
    BY <1>1, <1>3, <2>1, <2>2
<1>5. QED
  BY <1>4 DEF t

(* Messages that are all stored begin the conversation, and are all of it  *)
(* if the number that comes next is not taken.                             *)
LEMMA PrefixIsAll ==
  ASSUME NEW c, NEW S, NEW s \in Seq(S), NEW t \in Seq(S),
         RowSet(c, s) \subseteq RowSet(c, t),
         \A r \in RowSet(c, t) : r.seq # Len(s)
  PROVE  s = t
<1>1. /\ Len(s) \in Nat /\ DOMAIN s = 1 .. Len(s)
      /\ Len(t) \in Nat /\ DOMAIN t = 1 .. Len(t)
  BY LenProperties
<1>2. ASSUME NEW i \in 1 .. Len(s)
      PROVE  i \in 1 .. Len(t) /\ s[i] = t[i]
  <2>1. Row(c, i - 1, s[i]) \in RowSet(c, t)
    BY <1>1 DEF RowSet
  <2>2. PICK j \in 1 .. Len(t) : Row(c, i - 1, s[i]) = Row(c, j - 1, t[j])
    BY <1>1, <2>1 DEF RowSet
  <2>3. i - 1 = j - 1 /\ s[i] = t[j]
    BY <2>2 DEF Row
  <2>4. QED
    BY <1>1, <2>3
<1>3. Len(t) <= Len(s)
  <2> SUFFICES ASSUME Len(s) < Len(t) PROVE FALSE
    BY <1>1
  <2>1. Len(s) + 1 \in DOMAIN t /\ Len(s) + 1 - 1 = Len(s)
    BY <1>1
  <2>2. Row(c, Len(s) + 1 - 1, t[Len(s) + 1]) \in RowSet(c, t)
    BY <2>1 DEF RowSet
  <2>3. Row(c, Len(s), t[Len(s) + 1]).seq = Len(s)
    BY DEF Row
  <2>4. QED
    BY <2>2, <2>3
<1>4. Len(s) <= Len(t)
  <2>1. CASE Len(s) = 0
    BY <1>1, <2>1
  <2>2. CASE Len(s) # 0
    <3>1. Len(s) \in 1 .. Len(s)
      BY <1>1, <2>2
    <3>2. QED
      BY <1>1, <1>2, <3>1
  <2>3. QED
    BY <2>1, <2>2
<1>5. \A m, n \in Nat : m <= n /\ n <= m => m = n
  OBVIOUS
<1>6. QED
  BY <1>1, <1>2, <1>3, <1>4, <1>5, SeqEqual

-----------------------------------------------------------------------------
(* How long a conversation may be *)

HeadsDiffer(s) ==
  \A i, j \in DOMAIN s : s[i].turn = s[j].turn /\ s[i].role = s[j].role => i = j

LEMMA MaxLenType == MaxLen \in Nat
BY TurnAssumption, FS_CardinalityType DEF MaxLen

(* Two messages of each turn at most. *)
LEMMA HeadsBound ==
  ASSUME NEW s \in Seq(Message), HeadsDiffer(s)
  PROVE  Len(s) \in 0 .. MaxLen
<1> DEFINE n == Len(s)
           f == [i \in 1 .. n |-> <<s[i].turn, s[i].role>>]
<1>1. n \in Nat /\ DOMAIN s = 1 .. n /\ \A i \in 1 .. n : s[i] \in Message
  BY LenProperties, ElementOfSeq
<1>2. f \in Injection(1 .. n, Heading)
  <2>1. f \in [1 .. n -> Heading]
    BY <1>1 DEF Heading, Message
  <2>2. ASSUME NEW i \in 1 .. n, NEW j \in 1 .. n, f[i] = f[j]
        PROVE  i = j
    BY <1>1, <2>2 DEF HeadsDiffer
  <2>3. QED
    BY <2>1, <2>2 DEF Injection, IsInjective
<1>3. IsFiniteSet(Heading) /\ Cardinality(Heading) = MaxLen
  <2>1. /\ IsFiniteSet({"user"}) /\ Cardinality({"user"}) = 1
        /\ {"user", "assistant"} = {"user"} \cup {"assistant"}
    BY FS_Singleton
  <2>2. /\ IsFiniteSet({"user"} \cup {"assistant"})
        /\ Cardinality({"user"} \cup {"assistant"}) = 1 + 1
    BY <2>1, FS_AddElement
  <2>3. /\ IsFiniteSet(Heading)
        /\ Cardinality(Heading) = Cardinality(Turn) * Cardinality({"user", "assistant"})
    BY <2>1, <2>2, FS_Product, TurnAssumption DEF Heading
  <2>4. Cardinality(Turn) \in Nat
    BY TurnAssumption, FS_CardinalityType
  <2>5. QED
    BY <2>1, <2>2, <2>3, <2>4 DEF MaxLen
<1>4. Cardinality(1 .. n) <= MaxLen /\ Cardinality(1 .. n) = n
  <2>1. Cardinality(1 .. n) <= Cardinality(Heading)
    BY <1>2, <1>3, FS_Injection
  <2>2. Cardinality(1 .. n) = n
    <3>1. Cardinality(1 .. n) = IF 1 > n THEN 0 ELSE n - 1 + 1
      BY <1>1, FS_Interval
    <3>2. QED
      BY <1>1, <3>1
  <2>3. QED
    BY <1>3, <2>1, <2>2
<1>5. QED
  BY <1>1, <1>4, MaxLenType

(* What is stored of a conversation has a row for each message.            *)
LEMMA StoredHeadsDiffer ==
  ASSUME IInv, NEW c, NEW s \in Seq(Message), RowSet(c, s) \subseteq rows
  PROVE  HeadsDiffer(s) /\ \A i \in DOMAIN s : pc[s[i].turn] = "done"
<1>1. ASSUME NEW i \in DOMAIN s
      PROVE  Row(c, i - 1, s[i]) \in rows
  BY DEF RowSet
<1>2. \A i : Row(c, i - 1, s[i]).message = s[i] /\ Row(c, i - 1, s[i]).seq = i - 1
  BY DEF Row
<1>3. ASSUME NEW i \in DOMAIN s, NEW j \in DOMAIN s,
             s[i].turn = s[j].turn, s[i].role = s[j].role
      PROVE  i = j
  <2>1. Row(c, i - 1, s[i]) = Row(c, j - 1, s[j])
    BY <1>1, <1>2, <1>3 DEF IInv, RowsInv
  <2>2. i - 1 = j - 1 /\ i \in Int /\ j \in Int
    BY <1>2, <2>1, LenProperties
  <2>3. QED
    BY <2>2
<1>4. QED
  BY <1>1, <1>2, <1>3 DEF HeadsDiffer, IInv, RowsInv

(* The model is given whole messages, Window of them at most.              *)
LEMMA ExchangeFacts ==
  ASSUME NEW t \in Turn, NEW s \in Seq(Message), Len(s) \in 0 .. MaxLen
  PROVE  Question(t) \in Message /\ Answer(t, Heads(History(s))) \in Message
<1>1. Len(s) \in Nat /\ DOMAIN s = 1 .. Len(s) /\ \A i \in 1 .. Len(s) : s[i] \in Message
  BY LenProperties, ElementOfSeq
<1> DEFINE h == History(s)
           most == IF Window = 0 THEN MaxLen ELSE Window
<1>2. h \in Seq(Message) /\ Len(h) \in 0 .. most
  <2>1. CASE Window = 0 \/ Len(s) <= Window
    BY <1>1, <2>1, WindowAssumption DEF History
  <2>2. CASE ~(Window = 0 \/ Len(s) <= Window)
    <3>1. h = SubSeq(s, Len(s) - Window + 1, Len(s))
      BY <2>2 DEF History
    <3>2. /\ Len(s) - Window + 1 \in Int /\ Len(s) \in Int
          /\ Len(s) - Window + 1 <= Len(s)
          /\ Len(s) - (Len(s) - Window + 1) + 1 = Window
          /\ \A i \in Len(s) - Window + 1 .. Len(s) : s[i] \in Message
      BY <1>1, <2>2, WindowAssumption
    <3>3. h \in Seq(Message) /\ Len(h) = Window
      BY <3>1, <3>2, SubSeqProperties
    <3>4. QED
      BY <2>2, <3>3, WindowAssumption
  <2>3. QED
    BY <2>1, <2>2
<1>3. DOMAIN h = 1 .. Len(h) /\ \A i \in 1 .. Len(h) : h[i] \in Message
  BY <1>2, LenProperties, ElementOfSeq
<1>4. \A i \in 1 .. Len(h) : <<h[i].turn, h[i].role>> \in Heading
  BY <1>3 DEF Message, Heading
<1>5. Heads(h) \in [1 .. Len(h) -> Heading]
  BY <1>3, <1>4 DEF Heads
<1>6. Heads(h) \in Histories
  BY <1>2, <1>5 DEF Histories
<1>7. <<>> \in Histories
  <2>1. <<>> \in [1 .. 0 -> Heading]
    BY EmptySeq, LenProperties
  <2>2. 0 \in 0 .. most
    BY <1>1, WindowAssumption, MaxLenType
  <2>3. QED
    BY <2>1, <2>2 DEF Histories
<1>8. QED
  BY <1>6, <1>7 DEF Question, Answer, Message

-----------------------------------------------------------------------------
(* The other turns *)

(* Only turn t moves. *)
OthersRest(t) ==
  \A u \in Turn \ {t} :
    /\ pc'[u] = pc[u] /\ conv'[u] = conv[u] /\ messages'[u] = messages[u]
    /\ existing'[u] = existing[u] /\ pending'[u] = pending[u]

(* What another turn knows is so still, as long as nothing is added to the *)
(* conversation while it has rows of its own inserted there.               *)
LEMMA OthersKeep ==
  ASSUME IInv, NEW t \in Turn, pc[t] # "done", OthersRest(t),
         rows \subseteq rows', conversations \subseteq conversations', told \subseteq told',
         NEW u \in Turn \ {t},
         pc[u] \in Inserted =>
           \A c \in Turn : c = conv[u] => Thread(c)' = Thread(c)
  PROVE  TurnInv(u)'
<1>1. /\ pc'[u] = pc[u] /\ conv'[u] = conv[u] /\ messages'[u] = messages[u]
      /\ existing'[u] = existing[u] /\ pending'[u] = pending[u]
  BY DEF OthersRest
<1>2. PICK c \in Turn : c = conv[u]
  BY DEF IInv, Shapes
<1>3. PICK s : s = Read(u)
  OBVIOUS
<1>4. Read(u)' = s
  BY <1>1, <1>3 DEF Read
<1>5. TurnInv(u)
  BY DEF IInv
<1>6. Open(u)' <=> Open(u)
  BY <1>1 DEF Open
<1>7. \A m \in existing[u] : pc'[m.turn] = "done"
  <2>1. ASSUME NEW m \in existing[u] PROVE pc'[m.turn] = "done"
    <3>1. pc[m.turn] = "done" /\ m.turn \in Turn
      BY <1>5 DEF TurnInv, IInv, Shapes, Message
    <3>2. QED
      BY <3>1 DEF OthersRest
  <2>2. QED
    BY <2>1
<1>8. Open(u) => /\ s \in Seq(Message) /\ RowSet(c, s) \subseteq rows'
                 /\ \/ c = u /\ s = <<>>
                    \/ c \in conversations' /\ s # <<>>
  BY <1>2, <1>3, <1>5 DEF TurnInv
<1>9. /\ ~Open(u) => messages[u] = <<>>
      /\ pc[u] \in Answered => messages[u] = s \o Exchange(u, s)
      /\ pc[u] = "compared" => \A i \in DOMAIN s : s[i] \in existing[u]
      /\ pc[u] \notin Inserted => pending[u] = {}
      /\ pc[u] = "told" => c \in told'
  BY <1>2, <1>3, <1>5 DEF TurnInv
<1>10. pc[u] \in Inserted =>
         /\ Thread(c)' = s
         /\ pending[u] = {Row(c, Len(s), Question(u)),
                          Row(c, Len(s) + 1, Answer(u, Heads(History(s))))}
  <2>1. pc[u] \in Inserted =>
          /\ Thread(c) = s
          /\ pending[u] = {Row(c, Len(s), Question(u)),
                           Row(c, Len(s) + 1, Answer(u, Heads(History(s))))}
    BY <1>2, <1>3, <1>5 DEF TurnInv
  <2>2. pc[u] \in Inserted => Thread(c)' = Thread(c)
    BY <1>2
  <2>3. QED
    BY <2>1, <2>2
<1>11. conv'[u] = c
  BY <1>1, <1>2
<1>12. pc'[u] \in Inserted => Thread(conv[u])' = s
  BY <1>1, <1>10, <1>11 DEF Thread, RowsOf
<1>13. QED
  BY <1>1, <1>4, <1>6, <1>7, <1>8, <1>9, <1>10, <1>11, <1>12 DEF TurnInv

(* A step of a turn that commits nothing. *)
LEMMA StillKeepsIInv ==
  ASSUME IInv, NEW t \in Turn, pc[t] # "done", OthersRest(t),
         rows' = rows, conversations' = conversations, told \subseteq told',
         Shapes', TurnInv(t)',
         pc'[t] \in Inserted =>
           \/ pc[t] \in Inserted /\ conv'[t] = conv[t]
           \/ \A u \in Turn \ {t} : pc[u] \in Inserted => conv[u] # conv'[t]
  PROVE  IInv'
<1> USE DEF IInv
<1>1. \A c \in Turn : RowsOf(c)' = RowsOf(c) /\ Thread(c)' = Thread(c)
  BY DEF RowsOf, Thread
<1>2. ThreadInv'
  <2>1. ASSUME NEW c \in Turn
        PROVE  Thread(c)' \in Seq(Message) /\ RowsOf(c)' = RowSet(c, Thread(c)')
    BY <1>1 DEF ThreadInv
  <2>2. ASSUME NEW c \in Turn
        PROVE  (Thread(c) \in Seq(Message) /\ RowsOf(c) = RowSet(c, Thread(c)))'
    BY <2>1 DEF RowSet, Row
  <2>3. QED
    BY <2>2 DEF ThreadInv
<1>3. RowsInv'
  <2>1. \A u \in Turn : pc[u] = "done" => pc'[u] = "done"
    BY DEF OthersRest
  <2>2. \A r \in rows : r.message.turn \in Turn
    BY DEF Shapes, RowRecord, Message
  <2>3. \A r \in rows : pc'[r.message.turn] = "done" /\ r.conversation \in conversations
    BY <2>1, <2>2 DEF RowsInv
  <2>4. \A c \in conversations : pc'[c] = "done" /\ RowsOf(c)' # {}
    BY <1>1, <2>1 DEF RowsInv, Shapes
  <2>5. QED
    BY <2>3, <2>4 DEF RowsInv
<1>4. \A u \in Turn \ {t} : TurnInv(u)'
  BY <1>1, OthersKeep
<1>5. PendingInv'
  BY DEF PendingInv, OthersRest
<1>6. QED
  BY <1>2, <1>3, <1>4, <1>5

-----------------------------------------------------------------------------
(* The steps of a turn *)

LEMMA StartKeepsIInv ==
  ASSUME IInv, NEW t \in Turn, StartConversation(t)
  PROVE  IInv'
<1> USE DEF IInv
<1>1. /\ pc[t] = "new" /\ pc' = [pc EXCEPT ![t] = "loaded"] /\ conv' = [conv EXCEPT ![t] = t]
      /\ UNCHANGED <<conversations, rows, messages, existing, pending, told>>
  BY DEF StartConversation, Begin, Goto
<1>2. OthersRest(t) /\ pc'[t] = "loaded" /\ conv'[t] = t
  BY <1>1 DEF OthersRest, Shapes
<1>3. Shapes'
  BY <1>1 DEF Shapes, Stages
<1>4. messages[t] = <<>> /\ pending[t] = {} /\ \A m \in existing[t] : pc[m.turn] = "done"
  BY <1>1 DEF TurnInv, Open, Inserted
<1>5. TurnInv(t)'
  <2>1. Read(t)' = <<>>
    BY <1>1, <1>2, <1>4 DEF Read
  <2>2. <<>> \in Seq(Message) /\ \A c : RowSet(c, <<>>) = {}
    BY DEF RowSet
  <2>3. \A m \in existing[t] : pc'[m.turn] = "done"
    BY <1>1, <1>2, <1>4 DEF OthersRest, Shapes, Message
  <2>4. QED
    BY <1>1, <1>2, <1>4, <2>1, <2>2, <2>3 DEF TurnInv, Open, Answered, Inserted
<1>6. QED
  BY <1>1, <1>2, <1>3, <1>5, StillKeepsIInv DEF Inserted

LEMMA LoadKeepsIInv ==
  ASSUME IInv, NEW t \in Turn, NEW c \in Turn, LoadConversation(t, c)
  PROVE  IInv'
<1> USE DEF IInv
<1> DEFINE s == Thread(c)
<1>1. /\ pc[t] = "new" /\ pc' = [pc EXCEPT ![t] = "loaded"] /\ conv' = [conv EXCEPT ![t] = c]
      /\ messages' = [messages EXCEPT ![t] = s] /\ c \in conversations
      /\ UNCHANGED <<conversations, rows, existing, pending, told>>
  BY DEF LoadConversation, Begin, Goto, Thread
<1>2. s \in Seq(Message) /\ RowsOf(c) = RowSet(c, s) /\ RowsOf(c) # {}
  BY <1>1 DEF ThreadInv, RowsInv
<1>3. OthersRest(t) /\ pc'[t] = "loaded" /\ conv'[t] = c /\ messages'[t] = s
  BY <1>1 DEF OthersRest, Shapes
<1>4. Shapes'
  BY <1>1, <1>2 DEF Shapes, Stages
<1>5. pending[t] = {} /\ \A m \in existing[t] : pc[m.turn] = "done"
  BY <1>1 DEF TurnInv, Inserted
<1> HIDE DEF s
<1>6. TurnInv(t)'
  <2>1. Read(t)' = s
    BY <1>3 DEF Read
  <2>2. RowSet(c, s) \subseteq rows
    BY <1>2 DEF RowsOf
  <2>3. s # <<>>
    BY <1>2 DEF RowSet
  <2>4. \A m \in existing[t] : pc'[m.turn] = "done"
    BY <1>1, <1>3, <1>5 DEF OthersRest, Shapes, Message
  <2>5. QED
    BY <1>1, <1>2, <1>3, <1>5, <2>1, <2>2, <2>3, <2>4 DEF TurnInv, Open, Answered, Inserted
<1>7. QED
  BY <1>1, <1>3, <1>4, <1>6, StillKeepsIInv DEF Inserted

(* A turn that ends without a commit. *)
LEMMA EndKeepsIInv ==
  ASSUME IInv, NEW t \in Turn, AbortTurn(t) \/ \E c \in Turn : RefuseUnknown(t, c)
  PROVE  IInv'
<1> USE DEF IInv
<1>1. PICK stage \in {"done", "refused"} :
        /\ pc[t] # "done" /\ pc' = [pc EXCEPT ![t] = stage]
        /\ \/ /\ messages' = [messages EXCEPT ![t] = <<>>]
              /\ existing' = [existing EXCEPT ![t] = {}]
              /\ pending'  = [pending EXCEPT ![t] = {}]
              /\ conv'     = [conv EXCEPT ![t] = t]
           \/ pc[t] = "new" /\ UNCHANGED <<messages, existing, pending, conv>>
        /\ UNCHANGED <<conversations, rows, told>>
  BY DEF AbortTurn, Forget, RefuseUnknown, Goto, Open
<1>2. OthersRest(t) /\ pc'[t] = stage
  BY <1>1 DEF OthersRest, Shapes
<1>3. Shapes'
  <2>1. pc' \in [Turn -> Stages] /\ conv' \in [Turn -> Turn]
    BY <1>1 DEF Shapes, Stages
  <2>2. messages' \in [Turn -> Seq(Message)]
    <3>1. <<>> \in Seq(Message)
      BY EmptySeq
    <3>2. QED
      BY <1>1, <3>1 DEF Shapes
  <2>3. existing' \in [Turn -> SUBSET Message] /\ pending' \in [Turn -> SUBSET RowRecord]
    BY <1>1 DEF Shapes
  <2>4. QED
    BY <1>1, <2>1, <2>2, <2>3 DEF Shapes
<1>4. messages'[t] = <<>> /\ pending'[t] = {} /\ existing'[t] \subseteq existing[t]
  <2>1. pc[t] = "new" => messages[t] = <<>> /\ pending[t] = {}
    BY DEF TurnInv, Open, Inserted
  <2>2. QED
    BY <1>1, <2>1 DEF Shapes
<1>5. \A m \in existing'[t] : pc'[m.turn] = "done"
  <2>1. ASSUME NEW m \in existing'[t] PROVE pc'[m.turn] = "done"
    <3>1. m \in existing[t] /\ m.turn \in Turn
      BY <1>4 DEF Shapes, Message
    <3>2. pc[m.turn] = "done"
      BY <3>1 DEF TurnInv
    <3>3. QED
      BY <1>1, <1>2, <3>1, <3>2 DEF OthersRest
  <2>2. QED
    BY <2>1
<1>6. TurnInv(t)'
  BY <1>2, <1>4, <1>5 DEF TurnInv, Open, Answered, Inserted
<1>7. QED
  BY <1>1, <1>2, <1>3, <1>6, StillKeepsIInv DEF Inserted

(* Taking the exchange away gives back what was read. *)
LEMMA ReadBack ==
  ASSUME NEW s \in Seq(Message), NEW a \in Message, NEW b \in Message
  PROVE  /\ s \o <<a, b>> \in Seq(Message)
         /\ Len(s \o <<a, b>>) = Len(s) + 2
         /\ SubSeq(s \o <<a, b>>, 1, Len(s \o <<a, b>>) - 2) = s
<1> DEFINE e == <<a, b>>
           n == Len(s)
<1>1. e \in Seq(Message) /\ Len(e) = 2 /\ n \in Nat
  BY LenProperties
<1>2. /\ s \o e \in Seq(Message) /\ Len(s \o e) = n + 2
      /\ \A i \in 1 .. n : (s \o e)[i] = s[i] /\ s[i] \in Message
  BY <1>1, ConcatProperties, ElementOfSeq
<1>3. /\ SubSeq(s \o e, 1, n) \in Seq(Message)
      /\ Len(SubSeq(s \o e, 1, n)) = n
      /\ \A i \in 1 .. n : SubSeq(s \o e, 1, n)[i] = s[i]
  BY <1>1, <1>2, SubSeqProperties
<1>4. SubSeq(s \o e, 1, n) = s
  BY <1>3, SeqEqual
<1>5. Len(s \o e) - 2 = n
  BY <1>1, <1>2
<1>6. QED
  BY <1>2, <1>4, <1>5

LEMMA AnswerKeepsIInv ==
  ASSUME IInv, NEW t \in Turn, AnswerQuestion(t)
  PROVE  IInv'
<1> USE DEF IInv
<1>1. PICK s \in Seq(Message) : s = Read(t) /\ s = messages[t]
  BY DEF AnswerQuestion, Read, Shapes
<1>2. /\ pc[t] = "loaded" /\ pc' = [pc EXCEPT ![t] = "answered"]
      /\ messages' = [messages EXCEPT ![t] = s \o Exchange(t, s)]
      /\ UNCHANGED <<conversations, rows, conv, existing, pending, told>>
  BY <1>1 DEF AnswerQuestion, Goto, Exchange, Question, Answer, Shapes
<1>3. OthersRest(t) /\ pc'[t] = "answered" /\ messages'[t] = s \o Exchange(t, s)
  BY <1>2 DEF OthersRest, Shapes
<1>4. RowSet(conv[t], s) \subseteq rows
  BY <1>1, <1>2 DEF TurnInv, Open
<1>5. Question(t) \in Message /\ Answer(t, Heads(History(s))) \in Message
  BY <1>4, StoredHeadsDiffer, HeadsBound, ExchangeFacts
<1>6. s \o Exchange(t, s) \in Seq(Message)
      /\ SubSeq(s \o Exchange(t, s), 1, Len(s \o Exchange(t, s)) - 2) = s
  BY <1>5, ReadBack DEF Exchange
<1>7. Shapes'
  BY <1>2, <1>6 DEF Shapes, Stages
<1>8. TurnInv(t)'
  <2>1. Read(t)' = s
    BY <1>3, <1>6 DEF Read
  <2>2. /\ \/ conv[t] = t /\ s = <<>>
           \/ conv[t] \in conversations /\ s # <<>>
        /\ pending[t] = {} /\ \A m \in existing[t] : pc[m.turn] = "done"
    <3>1. TurnInv(t) /\ Open(t) /\ pc[t] \notin Inserted
      BY <1>2 DEF Open, Inserted
    <3>2. QED
      BY <1>1, <3>1 DEF TurnInv
  <2>3. \A m \in existing[t] : pc'[m.turn] = "done"
    BY <1>2, <1>3, <2>2 DEF OthersRest, Shapes, Message
  <2>4. QED
    BY <1>2, <1>3, <1>4, <2>1, <2>2, <2>3 DEF TurnInv, Open, Answered, Inserted
<1>9. QED
  BY <1>2, <1>3, <1>7, <1>8, StillKeepsIInv DEF Inserted

LEMMA CompareKeepsIInv ==
  ASSUME IInv, NEW t \in Turn, CompareStored(t)
  PROVE  IInv'
<1> USE DEF IInv
<1>1. PICK s : s = Read(t)
  OBVIOUS
<1>2. PICK c \in Turn : c = conv[t]
  BY DEF Shapes
<1>3. /\ pc[t] = "answered" /\ pc' = [pc EXCEPT ![t] = "compared"]
      /\ existing' = [existing EXCEPT ![t] = {r.message : r \in RowsOf(c)}]
      /\ UNCHANGED <<conversations, rows, conv, messages, pending, told>>
  BY <1>2 DEF CompareStored, Goto
<1>4. OthersRest(t) /\ pc'[t] = "compared" /\ existing'[t] = {r.message : r \in RowsOf(c)}
  BY <1>3 DEF OthersRest, Shapes
<1>5. Shapes'
  <2>1. {r.message : r \in RowsOf(c)} \subseteq Message
    BY DEF RowsOf, Shapes, RowRecord
  <2>2. QED
    BY <1>3, <2>1 DEF Shapes, Stages
<1>6. /\ s \in Seq(Message) /\ RowSet(c, s) \subseteq rows
      /\ \/ c = t /\ s = <<>>
         \/ c \in conversations /\ s # <<>>
      /\ messages[t] = s \o Exchange(t, s) /\ pending[t] = {}
  <2>1. TurnInv(t) /\ Open(t) /\ pc[t] \in Answered /\ pc[t] \notin Inserted
    BY <1>3 DEF Open, Answered, Inserted
  <2>2. QED
    BY <1>1, <1>2, <2>1 DEF TurnInv
<1>7. ASSUME NEW i \in DOMAIN s PROVE s[i] \in existing'[t]
  <2>1. Row(c, i - 1, s[i]) \in RowsOf(c) /\ Row(c, i - 1, s[i]).message = s[i]
    BY <1>6 DEF RowSet, RowsOf, Row
  <2>2. QED
    BY <1>4, <2>1
<1>8. \A m \in existing'[t] : pc'[m.turn] = "done"
  <2>1. \A r \in rows : r.message.turn \in Turn /\ pc[r.message.turn] = "done"
    BY DEF RowsInv, Shapes, RowRecord, Message
  <2>2. \A r \in rows : pc'[r.message.turn] = "done"
    BY <1>3, <1>4, <2>1 DEF OthersRest
  <2>3. QED
    BY <1>4, <2>2 DEF RowsOf
<1>9. TurnInv(t)'
  <2>1. Read(t)' = s
    BY <1>1, <1>3, <1>4 DEF Read
  <2>2. QED
    BY <1>2, <1>3, <1>4, <1>6, <1>7, <1>8, <2>1 DEF TurnInv, Open, Answered, Inserted
<1>10. QED
  BY <1>3, <1>4, <1>5, <1>9, StillKeepsIInv DEF Inserted

(* Only the exchange is new: the rest was stored when the turn began.      *)
LEMMA NewRowsFacts ==
  ASSUME IInv, NEW t \in Turn, pc[t] = "compared",
         NEW c \in Turn, c = conv[t], NEW s \in Seq(Message), s = Read(t)
  PROVE  NewRows(t) = {Row(c, Len(s), Question(t)),
                       Row(c, Len(s) + 1, Answer(t, Heads(History(s))))}
<1> DEFINE n == Len(s)
           a == Question(t)
           b == Answer(t, Heads(History(s)))
           m == messages[t]
<1>1. /\ m = s \o <<a, b>>
      /\ \A i \in DOMAIN s : s[i] \in existing[t]
      /\ \A e \in existing[t] : pc[e.turn] = "done"
      /\ RowSet(c, s) \subseteq rows
  <2>1. TurnInv(t) /\ Open(t) /\ pc[t] \in Answered
    BY DEF IInv, Open, Answered
  <2>2. QED
    BY <2>1 DEF TurnInv, Exchange
<1>2. a \in Message /\ b \in Message
  BY <1>1, StoredHeadsDiffer, HeadsBound, ExchangeFacts
<1>3. a \notin existing[t] /\ b \notin existing[t]
  BY <1>1 DEF Question, Answer
<1>4. /\ n \in Nat /\ DOMAIN s = 1 .. n /\ DOMAIN m = 1 .. n + 2
      /\ m[n + 1] = a /\ m[n + 2] = b /\ \A i \in 1 .. n : m[i] = s[i]
  <2>1. <<a, b>> \in Seq(Message) /\ Len(<<a, b>>) = 2 /\ n \in Nat /\ DOMAIN s = 1 .. n
    BY <1>2, LenProperties
  <2>2. /\ s \o <<a, b>> \in Seq(Message) /\ Len(s \o <<a, b>>) = n + 2
        /\ \A i \in 1 .. n + 2 : (s \o <<a, b>>)[i] = IF i <= n THEN s[i] ELSE <<a, b>>[i - n]
    BY <2>1, ConcatProperties
  <2>3. (s \o <<a, b>>)[n + 1] = <<a, b>>[1] /\ (s \o <<a, b>>)[n + 2] = <<a, b>>[2]
    BY <2>1, <2>2
  <2>4. DOMAIN (s \o <<a, b>>) = 1 .. n + 2
    BY <2>2, LenProperties
  <2>5. QED
    BY <1>1, <2>1, <2>2, <2>3, <2>4
<1> HIDE DEF a, b, m
<1>5. {k \in DOMAIN m : m[k] \notin existing[t]} = {n + 1, n + 2}
  BY <1>1, <1>3, <1>4
<1>6. NewRows(t) = {Row(c, i - 1, m[i]) : i \in {n + 1, n + 2}}
  BY <1>5 DEF NewRows, Row, m
<1>7. n + 1 - 1 = n /\ n + 2 - 1 = n + 1
  BY <1>4
<1>8. NewRows(t) = {Row(c, n, a), Row(c, n + 1, b)}
  BY <1>4, <1>6, <1>7
<1>9. QED
  BY <1>8 DEF a, b

(* The next number is free only if everything stored had been read, and    *)
(* if no other turn has inserted its exchange after the same messages.     *)
LEMMA InsertKeepsIInv ==
  ASSUME IInv, NEW t \in Turn, InsertMessages(t)
  PROVE  IInv'
<1> USE DEF IInv
<1>1. PICK s : s = Read(t)
  OBVIOUS
<1>2. PICK c \in Turn : c = conv[t]
  BY DEF Shapes
<1> DEFINE a == Question(t)
           b == Answer(t, Heads(History(s)))
           new == {Row(c, Len(s), a), Row(c, Len(s) + 1, b)}
<1>3. pc[t] = "compared"
  BY DEF InsertMessages
<1>4. /\ s \in Seq(Message) /\ RowSet(c, s) \subseteq rows
      /\ \/ c = t /\ s = <<>>
         \/ c \in conversations /\ s # <<>>
      /\ messages[t] = s \o Exchange(t, s)
      /\ \A m \in existing[t] : pc[m.turn] = "done"
  <2>1. TurnInv(t) /\ Open(t) /\ pc[t] \in Answered
    BY <1>3 DEF Open, Answered
  <2>2. QED
    BY <1>1, <1>2, <2>1 DEF TurnInv
<1>5. NewRows(t) = new
  BY <1>1, <1>2, <1>3, <1>4, NewRowsFacts
<1>6. /\ pc' = [pc EXCEPT ![t] = "inserted"] /\ pending' = [pending EXCEPT ![t] = new]
      /\ \A q \in rows \cup UNION {pending[u] : u \in Turn} :
           q.conversation = c => q.seq # Len(s)
      /\ UNCHANGED <<conversations, rows, conv, messages, existing, told>>
  <2>1. Row(c, Len(s), a) \in NewRows(t)
    BY <1>5
  <2>2. Row(c, Len(s), a).conversation = c /\ Row(c, Len(s), a).seq = Len(s)
    BY DEF Row
  <2>3. QED
    BY <1>5, <2>1, <2>2 DEF InsertMessages, SeqFree, Goto
<1>7. OthersRest(t) /\ pc'[t] = "inserted" /\ pending'[t] = new
  BY <1>6 DEF OthersRest, Shapes
<1>8. Shapes'
  <2>1. a \in Message /\ b \in Message /\ Len(s) \in Nat
    BY <1>4, StoredHeadsDiffer, HeadsBound, ExchangeFacts, LenProperties
  <2>2. new \subseteq RowRecord
    BY <2>1 DEF Row, RowRecord
  <2>3. QED
    BY <1>6, <2>2 DEF Shapes, Stages
<1>9. Thread(c) = s
  <2>1. PICK u \in Seq(Message) : u = Thread(c) /\ RowsOf(c) = RowSet(c, u)
    BY DEF ThreadInv
  <2>2. RowSet(c, s) \subseteq RowSet(c, u)
    BY <1>4, <2>1 DEF RowsOf, RowSet, Row
  <2>3. \A r \in RowSet(c, u) : r.seq # Len(s)
    BY <1>6, <2>1 DEF RowsOf
  <2>4. s = u
    BY <1>4, <2>2, <2>3, PrefixIsAll
  <2>5. QED
    BY <2>1, <2>4
<1>10. \A u \in Turn \ {t} : pc[u] \in Inserted => conv[u] # c
  <2>1. ASSUME NEW u \in Turn \ {t}, pc[u] \in Inserted, conv[u] = c
        PROVE  FALSE
    <3>1. /\ Thread(c) = Read(u)
          /\ Row(c, Len(Read(u)), Question(u)) \in pending[u]
      BY <2>1 DEF TurnInv
    <3>2. Row(c, Len(s), Question(u)) \in pending[u]
      BY <1>9, <3>1
    <3>3. Row(c, Len(s), Question(u)).conversation = c /\ Row(c, Len(s), Question(u)).seq = Len(s)
      BY DEF Row
    <3>4. QED
      BY <1>6, <3>2, <3>3
  <2>2. QED
    BY <2>1
<1>11. TurnInv(t)'
  <2>1. Read(t)' = s
    BY <1>1, <1>3, <1>6, <1>7 DEF Read
  <2>2. Thread(c)' = s
    BY <1>6, <1>9 DEF Thread, RowsOf
  <2>3. \A m \in existing[t] : pc'[m.turn] = "done"
    BY <1>3, <1>4, <1>7 DEF OthersRest, Shapes, Message
  <2>4. conv'[t] = c
    BY <1>2, <1>6
  <2>5. Thread(conv[t])' = s
    BY <2>2, <2>4 DEF Thread, RowsOf
  <2>6. QED
    BY <1>4, <1>6, <1>7, <2>1, <2>3, <2>4, <2>5 DEF TurnInv, Open, Answered, Inserted
<1>12. conv'[t] = c
  BY <1>2, <1>6
<1>13. QED
  BY <1>3, <1>6, <1>7, <1>8, <1>10, <1>11, <1>12, StillKeepsIInv

LEMMA RespondKeepsIInv ==
  ASSUME IInv, NEW t \in Turn, Respond(t)
  PROVE  IInv'
<1> USE DEF IInv
<1>1. PICK s : s = Read(t)
  OBVIOUS
<1>2. PICK c \in Turn : c = conv[t]
  BY DEF Shapes
<1>3. /\ pc[t] = "inserted" /\ pc' = [pc EXCEPT ![t] = "told"] /\ told' = told \cup {c}
      /\ UNCHANGED <<conversations, rows, conv, messages, existing, pending>>
  BY <1>2 DEF Respond, Goto
<1>4. OthersRest(t) /\ pc'[t] = "told" /\ conv'[t] = c
  BY <1>2, <1>3 DEF OthersRest, Shapes
<1>5. Shapes'
  BY <1>3 DEF Shapes, Stages
<1>6. /\ s \in Seq(Message) /\ RowSet(c, s) \subseteq rows
      /\ \/ c = t /\ s = <<>>
         \/ c \in conversations /\ s # <<>>
      /\ messages[t] = s \o Exchange(t, s)
      /\ Thread(c) = s
      /\ pending[t] = {Row(c, Len(s), Question(t)),
                       Row(c, Len(s) + 1, Answer(t, Heads(History(s))))}
      /\ \A m \in existing[t] : pc[m.turn] = "done"
  <2>1. TurnInv(t) /\ Open(t) /\ pc[t] \in Answered /\ pc[t] \in Inserted
    BY <1>3 DEF Open, Answered, Inserted
  <2>2. QED
    BY <1>1, <1>2, <2>1 DEF TurnInv
<1>7. TurnInv(t)'
  <2>1. Read(t)' = s
    BY <1>1, <1>3, <1>4 DEF Read
  <2>2. Thread(c)' = s
    BY <1>3, <1>6 DEF Thread, RowsOf
  <2>3. Thread(conv[t])' = s
    BY <1>4, <2>2 DEF Thread, RowsOf
  <2>4. \A m \in existing[t] : pc'[m.turn] = "done"
    BY <1>3, <1>4, <1>6 DEF OthersRest, Shapes, Message
  <2>5. QED
    BY <1>3, <1>4, <1>6, <2>1, <2>3, <2>4 DEF TurnInv, Open, Answered, Inserted
<1>8. QED
  BY <1>2, <1>3, <1>4, <1>5, <1>7, StillKeepsIInv DEF Inserted

(* A commit adds an exchange to one conversation, made from all of it.     *)
LEMMA CommitFacts ==
  ASSUME IInv, NEW t \in Turn, CommitTurn(t),
         NEW c \in Turn, c = conv[t], NEW s, s = Read(t)
  PROVE  /\ s \in Seq(Message) /\ Thread(c) = s
         /\ Question(t) \in Message /\ Answer(t, Heads(History(s))) \in Message
         /\ pending[t] = {Row(c, Len(s), Question(t)),
                          Row(c, Len(s) + 1, Answer(t, Heads(History(s))))}
         /\ c = t \/ (c \in conversations /\ s # <<>>)
         /\ RowsOf(c)' = RowSet(c, s \o Exchange(t, s))
         /\ Thread(c)' = s \o Exchange(t, s)
         /\ \A d \in Turn \ {c} : RowsOf(d)' = RowsOf(d) /\ Thread(d)' = Thread(d)
<1> USE DEF IInv
<1> DEFINE a == Question(t)
           b == Answer(t, Heads(History(s)))
<1>1. pc[t] = "told" /\ rows' = rows \cup pending[t]
  BY DEF CommitTurn
<1>2. /\ s \in Seq(Message) /\ RowSet(c, s) \subseteq rows
      /\ Thread(c) = s
      /\ pending[t] = {Row(c, Len(s), a), Row(c, Len(s) + 1, b)}
      /\ \/ c = t /\ s = <<>>
         \/ c \in conversations /\ s # <<>>
  <2>1. TurnInv(t) /\ Open(t) /\ pc[t] \in Inserted
    BY <1>1 DEF Open, Inserted
  <2>2. QED
    BY <2>1 DEF TurnInv
<1>3. a \in Message /\ b \in Message
  BY <1>2, StoredHeadsDiffer, HeadsBound, ExchangeFacts
<1>4. RowsOf(c) = RowSet(c, s)
  BY <1>2 DEF ThreadInv
<1>5. RowsOf(c)' = RowsOf(c) \cup pending[t]
  BY <1>1, <1>2 DEF RowsOf, Row
<1>6. RowsOf(c)' = RowSet(c, s \o Exchange(t, s))
  BY <1>2, <1>3, <1>4, <1>5, RowSetGrows DEF Exchange
<1>7. Thread(c)' = s \o Exchange(t, s)
  <2>1. s \o Exchange(t, s) \in Seq(Message)
    BY <1>2, <1>3, ReadBack DEF Exchange
  <2>2. InOrder(RowsOf(c)') = s \o Exchange(t, s)
    BY <1>6, <2>1, RowSetFacts
  <2>3. QED
    BY <2>2 DEF Thread, InOrder, Earlier
<1>8. ASSUME NEW d \in Turn \ {c}
      PROVE  RowsOf(d)' = RowsOf(d) /\ Thread(d)' = Thread(d)
  <2>1. RowsOf(d)' = RowsOf(d)
    BY <1>1, <1>2 DEF RowsOf, Row
  <2>2. InOrder(RowsOf(d)') = InOrder(RowsOf(d))
    BY <2>1
  <2>3. QED
    BY <2>1, <2>2 DEF Thread, InOrder, Earlier
<1>9. QED
  BY <1>2, <1>3, <1>6, <1>7, <1>8

LEMMA CommitKeepsIInv ==
  ASSUME IInv, NEW t \in Turn, CommitTurn(t)
  PROVE  IInv'
<1> USE DEF IInv
<1>1. PICK s : s = Read(t)
  OBVIOUS
<1>2. PICK c \in Turn : c = conv[t]
  BY DEF Shapes
<1> DEFINE a == Question(t)
           b == Answer(t, Heads(History(s)))
           n == Len(s)
           whole == s \o Exchange(t, s)
<1>3. /\ s \in Seq(Message) /\ Thread(c) = s /\ a \in Message /\ b \in Message
      /\ pending[t] = {Row(c, n, a), Row(c, n + 1, b)}
      /\ c = t \/ (c \in conversations /\ s # <<>>)
      /\ RowsOf(c)' = RowSet(c, whole) /\ Thread(c)' = whole
      /\ \A d \in Turn \ {c} : RowsOf(d)' = RowsOf(d) /\ Thread(d)' = Thread(d)
  BY <1>1, <1>2, CommitFacts
<1>4. /\ pc[t] = "told" /\ pc' = [pc EXCEPT ![t] = "done"]
      /\ messages' = [messages EXCEPT ![t] = <<>>]
      /\ existing' = [existing EXCEPT ![t] = {}]
      /\ pending'  = [pending EXCEPT ![t] = {}]
      /\ conv'     = [conv EXCEPT ![t] = t]
      /\ conversations' = conversations \cup {c}
      /\ rows' = rows \cup {Row(c, n, a), Row(c, n + 1, b)}
      /\ told' = told
  BY <1>2, <1>3 DEF CommitTurn, Forget, Goto
<1>5. OthersRest(t) /\ pc'[t] = "done"
  BY <1>4 DEF OthersRest, Shapes
<1>6. c \in told
  BY <1>2, <1>4 DEF TurnInv
<1>7. whole \in Seq(Message) /\ n \in Nat
  BY <1>3, ReadBack, LenProperties DEF Exchange
<1>8. Shapes'
  <2>1. rows' \subseteq RowRecord
    BY <1>3, <1>4, <1>7 DEF Shapes, RowRecord, Row
  <2>2. messages' \in [Turn -> Seq(Message)]
    <3>1. <<>> \in Seq(Message)
      BY EmptySeq
    <3>2. QED
      BY <1>4, <3>1 DEF Shapes
  <2>3. existing' \in [Turn -> SUBSET Message] /\ pending' \in [Turn -> SUBSET RowRecord]
    BY <1>4 DEF Shapes
  <2>4. QED
    BY <1>4, <1>6, <2>1, <2>2, <2>3 DEF Shapes, Stages
<1> HIDE DEF a, b, n, whole
<1>9. ThreadInv'
  <2>1. ASSUME NEW d \in Turn
        PROVE  (Thread(d) \in Seq(Message) /\ RowsOf(d) = RowSet(d, Thread(d)))'
    <3>1. CASE d = c
      BY <1>3, <1>7, <3>1 DEF RowSet, Row
    <3>2. CASE d # c
      <4>1. Thread(d) \in Seq(Message) /\ RowsOf(d) = RowSet(d, Thread(d))
        BY DEF ThreadInv
      <4>2. RowsOf(d)' = RowsOf(d) /\ Thread(d)' = Thread(d)
        BY <1>3, <3>2
      <4>3. QED
        BY <4>1, <4>2 DEF RowSet, Row
    <3>3. QED
      BY <3>1, <3>2
  <2>2. QED
    BY <2>1 DEF ThreadInv
<1>10. RowsInv'
  <2>1. \A u \in Turn : pc[u] = "done" => pc'[u] = "done"
    BY <1>4 DEF Shapes
  <2>2. \A r \in rows : /\ r.message.turn \in Turn /\ r.message.turn # t
                        /\ pc'[r.message.turn] = "done" /\ r.conversation \in conversations'
    BY <1>4, <2>1 DEF RowsInv, Shapes, RowRecord, Message
  <2>3. /\ Row(c, n, a).message.turn = t /\ Row(c, n, a).message.role = "user"
        /\ Row(c, n + 1, b).message.turn = t /\ Row(c, n + 1, b).message.role = "assistant"
        /\ Row(c, n, a).conversation = c /\ Row(c, n + 1, b).conversation = c
    BY DEF Row, Question, Answer, a, b
  <2>4. \A r \in rows' : pc'[r.message.turn] = "done" /\ r.conversation \in conversations'
    BY <1>4, <1>5, <2>2, <2>3
  <2>5. ASSUME NEW q \in rows', NEW r \in rows',
               q.message.turn = r.message.turn, q.message.role = r.message.role
        PROVE  q = r
    <3>1. CASE q \in rows /\ r \in rows
      BY <2>5, <3>1 DEF RowsInv
    <3>2. CASE q \in rows /\ r \notin rows
      BY <1>4, <2>2, <2>3, <2>5, <3>2
    <3>3. CASE q \notin rows /\ r \in rows
      BY <1>4, <2>2, <2>3, <2>5, <3>3
    <3>4. CASE q \notin rows /\ r \notin rows
      BY <1>4, <2>3, <2>5, <3>4
    <3>5. QED
      BY <3>1, <3>2, <3>3, <3>4
  <2>6. ASSUME NEW d \in conversations'
        PROVE  pc'[d] = "done" /\ RowsOf(d)' # {}
    <3>1. pc'[d] = "done"
      BY <1>3, <1>4, <1>5, <2>1 DEF RowsInv, Shapes
    <3>2. CASE d = c
      <4>1. Row(c, n, a) \in rows' /\ Row(c, n, a).conversation = c
        BY <1>4, <2>3
      <4>2. QED
        BY <3>1, <3>2, <4>1 DEF RowsOf
    <3>3. CASE d # c
      BY <1>3, <1>4, <3>1, <3>3 DEF RowsInv, Shapes
    <3>4. QED
      BY <3>2, <3>3
  <2>7. QED
    BY <2>4, <2>5, <2>6 DEF RowsInv
<1>11. \A u \in Turn : TurnInv(u)'
  <2>1. TurnInv(t)'
    BY <1>4, <1>5 DEF TurnInv, Open, Answered, Inserted, Shapes
  <2>2. ASSUME NEW u \in Turn \ {t} PROVE TurnInv(u)'
    <3>1. pc[u] \in Inserted => conv[u] # c
      BY <1>2, <1>4 DEF PendingInv, Inserted
    <3>2. pc[u] \in Inserted => \A d \in Turn : d = conv[u] => Thread(d)' = Thread(d)
      BY <1>3, <3>1
    <3>3. /\ pc[t] # "done" /\ rows \subseteq rows' /\ conversations \subseteq conversations'
          /\ told \subseteq told'
      BY <1>4
    <3>4. QED
      BY <1>5, <3>2, <3>3, OthersKeep
  <2>3. QED
    BY <2>1, <2>2
<1>12. PendingInv'
  BY <1>5 DEF PendingInv, OthersRest, Inserted
<1>13. QED
  BY <1>8, <1>9, <1>10, <1>11, <1>12

-----------------------------------------------------------------------------
(* The invariant *)

LEMMA InitIInv == ConversationInit => IInv
<1> SUFFICES ASSUME ConversationInit PROVE IInv
  OBVIOUS
<1> USE DEF ConversationInit
<1>1. <<>> \in Seq(Message) /\ \A c : RowSet(c, <<>>) = {}
  BY EmptySeq DEF RowSet
<1>2. Shapes
  BY <1>1 DEF Shapes, Stages
<1>3. \A c \in Turn : RowsOf(c) = {}
  BY DEF RowsOf
<1>4. ThreadInv
  <2>1. ASSUME NEW c \in Turn
        PROVE  Thread(c) \in Seq(Message) /\ RowsOf(c) = RowSet(c, Thread(c))
    <3>1. InOrder(RowSet(c, <<>>)) = <<>>
      BY <1>1, RowSetFacts
    <3>2. Thread(c) = <<>>
      BY <1>1, <1>3, <3>1 DEF Thread
    <3>3. QED
      BY <1>1, <1>3, <3>2
  <2>2. QED
    BY <2>1 DEF ThreadInv
<1>5. RowsInv /\ PendingInv
  BY DEF RowsInv, PendingInv, Inserted
<1>6. \A t \in Turn : TurnInv(t)
  BY DEF TurnInv, Open, Answered, Inserted
<1>7. QED
  BY <1>2, <1>4, <1>5, <1>6 DEF IInv

LEMMA NextIInv == IInv /\ [ConversationNext]_vars => IInv'
<1> SUFFICES ASSUME IInv, [ConversationNext]_vars PROVE IInv'
  OBVIOUS
<1>1. CASE UNCHANGED vars
  <2> USE <1>1 DEF vars, IInv
  <2>1. Shapes' /\ PendingInv'
    BY DEF Shapes, PendingInv
  <2>2. \A c \in Turn : RowsOf(c)' = RowsOf(c) /\ Thread(c)' = Thread(c)
    BY DEF RowsOf, Thread
  <2>3. ThreadInv'
    BY DEF ThreadInv, RowsOf, Thread
  <2>4. RowsInv'
    BY DEF RowsInv, RowsOf
  <2>5. ASSUME NEW u \in Turn PROVE TurnInv(u)'
    <3>1. TurnInv(u)
      OBVIOUS
    <3>2. Read(u)' = Read(u) /\ Thread(conv[u])' = Thread(conv[u])
      BY DEF Read, Thread, RowsOf
    <3>3. QED
      BY <3>1, <3>2 DEF TurnInv, Open
  <2>6. QED
    BY <2>1, <2>3, <2>4, <2>5
<1>2. CASE ConversationNext
  BY <1>2, StartKeepsIInv, LoadKeepsIInv, EndKeepsIInv, AnswerKeepsIInv, CompareKeepsIInv,
     InsertKeepsIInv, RespondKeepsIInv, CommitKeepsIInv DEF ConversationNext
<1>3. QED
  BY <1>1, <1>2

(* The invariant holds in every reachable state, whichever turns overlap,  *)
(* fail or are refused.                                                    *)
THEOREM Invariance == ConversationSpec => []IInv
BY InitIInv, NextIInv, PTL DEF ConversationSpec

-----------------------------------------------------------------------------
(* What follows from it *)

(* The variables have their types; no conversation and no history that the *)
(* model is given grows beyond two messages for each turn.                 *)
THEOREM TypeCorrect == ConversationSpec => []ConversationTypeOK
<1>1. IInv => ConversationTypeOK
  <2> SUFFICES ASSUME IInv PROVE ConversationTypeOK
    OBVIOUS
  <2> USE DEF IInv
  <2>1. ASSUME NEW c, NEW s \in Seq(Message), Len(s) \in 0 .. MaxLen,
               c \in Turn, NEW r \in RowSet(c, s)
        PROVE  IsRow(r)
    <3>1. PICK i \in 1 .. Len(s) : r = Row(c, i - 1, s[i])
      BY LenProperties DEF RowSet
    <3>2. s[i] \in Message /\ i - 1 \in 0 .. MaxLen - 1
      BY <2>1, ElementOfSeq, MaxLenType
    <3>3. QED
      BY <2>1, <3>1, <3>2 DEF IsRow, Row
  <2>2. \A r \in rows : IsRow(r)
    <3>1. ASSUME NEW r \in rows PROVE IsRow(r)
      <4>1. PICK c \in Turn : c = r.conversation
        BY DEF Shapes, RowRecord
      <4>2. /\ Thread(c) \in Seq(Message) /\ RowsOf(c) = RowSet(c, Thread(c))
            /\ r \in RowsOf(c) /\ RowsOf(c) \subseteq rows
        BY <4>1 DEF ThreadInv, RowsOf
      <4>3. Len(Thread(c)) \in 0 .. MaxLen
        BY <4>2, StoredHeadsDiffer, HeadsBound
      <4>4. QED
        BY <2>1, <4>2, <4>3
    <3>2. QED
      BY <3>1
  <2>3. ASSUME NEW t \in Turn
        PROVE  /\ Len(messages[t]) \in 0 .. MaxLen
               /\ \A r \in pending[t] : IsRow(r)
    <3>1. PICK c \in Turn : c = conv[t]
      BY DEF Shapes
    <3>2. PICK s : s = Read(t)
      OBVIOUS
    <3>3. TurnInv(t) /\ pc[t] \in Stages
      BY DEF Shapes
    <3>4. CASE ~Open(t)
      <4>1. messages[t] = <<>> /\ pending[t] = {}
        BY <3>3, <3>4 DEF TurnInv, Open, Inserted
      <4>2. HeadsDiffer(<<>>) /\ <<>> \in Seq(Message)
        BY EmptySeq DEF HeadsDiffer
      <4>3. Len(<<>>) \in 0 .. MaxLen
        BY <4>2, HeadsBound
      <4>4. QED
        BY <4>1, <4>3
    <3>5. ASSUME Open(t)
          PROVE  s \in Seq(Message) /\ RowSet(c, s) \subseteq rows /\ Len(s) \in 0 .. MaxLen
      <4>1. s \in Seq(Message) /\ RowSet(c, s) \subseteq rows
        BY <3>1, <3>2, <3>3, <3>5 DEF TurnInv
      <4>2. QED
        BY <4>1, StoredHeadsDiffer, HeadsBound
    <3>6. CASE pc[t] = "loaded"
      <4>1. messages[t] = s /\ pending[t] = {} /\ Open(t)
        BY <3>2, <3>3, <3>6 DEF TurnInv, Read, Open, Inserted
      <4>2. QED
        BY <3>5, <4>1
    <3>7. CASE pc[t] \in Answered
      <4> DEFINE a == Question(t)
                 b == Answer(t, Heads(History(s)))
                 m == s \o <<a, b>>
      <4>1. Open(t) /\ messages[t] = m
        BY <3>2, <3>3, <3>7 DEF TurnInv, Answered, Open, Exchange
      <4>2. /\ s \in Seq(Message) /\ RowSet(c, s) \subseteq rows
            /\ a \in Message /\ b \in Message
        BY <3>5, <4>1, ExchangeFacts
      <4>3. Len(s) \in Nat /\ DOMAIN s = 1 .. Len(s)
        BY <4>2, LenProperties
      <4>4. /\ m \in Seq(Message) /\ DOMAIN m = 1 .. Len(s) + 2
            /\ \A i \in 1 .. Len(s) : m[i] = s[i]
            /\ m[Len(s) + 1] = a /\ m[Len(s) + 2] = b
        <5>1. <<a, b>> \in Seq(Message) /\ Len(<<a, b>>) = 2
          BY <4>2
        <5>2. /\ m \in Seq(Message) /\ Len(m) = Len(s) + 2
              /\ \A i \in 1 .. Len(s) + 2 : m[i] = IF i <= Len(s) THEN s[i]
                                                   ELSE <<a, b>>[i - Len(s)]
          BY <4>2, <5>1, ConcatProperties
        <5>3. m[Len(s) + 1] = <<a, b>>[1] /\ m[Len(s) + 2] = <<a, b>>[2]
          BY <4>3, <5>2
        <5>4. DOMAIN m = 1 .. Len(s) + 2
          BY <5>2, LenProperties
        <5>5. QED
          BY <4>3, <5>2, <5>3, <5>4
      <4>5. HeadsDiffer(s) /\ \A i \in DOMAIN s : s[i].turn # t
        BY <3>7, <4>2, StoredHeadsDiffer DEF Answered
      <4>6. /\ a.turn = t /\ a.role = "user" /\ b.turn = t /\ b.role = "assistant"
        BY DEF Question, Answer
      <4> HIDE DEF a, b, m
      <4>7. HeadsDiffer(m)
        <5>1. ASSUME NEW i \in DOMAIN m, NEW j \in DOMAIN m,
                     m[i].turn = m[j].turn, m[i].role = m[j].role
              PROVE  i = j
          <6>1. \A k \in DOMAIN m : k \in 1 .. Len(s) \/ k = Len(s) + 1 \/ k = Len(s) + 2
            BY <4>3, <4>4
          <6>2. CASE i \in 1 .. Len(s) /\ j \in 1 .. Len(s)
            BY <4>3, <4>4, <4>5, <5>1, <6>2 DEF HeadsDiffer
          <6>3. CASE ~(i \in 1 .. Len(s)) \/ ~(j \in 1 .. Len(s))
            BY <4>3, <4>4, <4>5, <4>6, <5>1, <6>1, <6>3
          <6>4. QED
            BY <6>2, <6>3
        <5>2. QED
          BY <5>1 DEF HeadsDiffer
      <4>8. Len(m) \in 0 .. MaxLen
        BY <4>4, <4>7, HeadsBound
      <4>9. \A r \in RowSet(c, m) : IsRow(r)
        BY <2>1, <4>4, <4>8
      <4>10. pending[t] \subseteq RowSet(c, m)
        <5>1. RowSet(c, m) = RowSet(c, s) \cup {Row(c, Len(s), a), Row(c, Len(s) + 1, b)}
          BY <4>2, RowSetGrows DEF m
        <5>2. pending[t] \subseteq {Row(c, Len(s), a), Row(c, Len(s) + 1, b)}
          BY <3>1, <3>2, <3>3 DEF TurnInv, a, b
        <5>3. QED
          BY <5>1, <5>2
      <4>11. QED
        BY <4>1, <4>8, <4>9, <4>10
    <3>8. Open(t) => pc[t] = "loaded" \/ pc[t] \in Answered
      BY <3>3 DEF Open, Stages, Answered
    <3>9. QED
      BY <3>4, <3>6, <3>7, <3>8
  <2>4. ASSUME NEW t \in Turn
        PROVE  /\ Len(messages[t]) <= MaxLen
               /\ \A i \in DOMAIN messages[t] : messages[t][i] \in Message
               /\ existing[t] \subseteq Message
    <3>1. messages[t] \in Seq(Message) /\ existing[t] \subseteq Message
      BY DEF Shapes
    <3>2. \A i \in DOMAIN messages[t] : messages[t][i] \in Message
      BY <3>1, LenProperties, ElementOfSeq
    <3>3. QED
      BY <2>3, <3>1, <3>2
  <2>5. QED
    BY <2>2, <2>3, <2>4 DEF ConversationTypeOK, Shapes
<1>2. QED
  BY <1>1, Invariance, PTL

(* A conversation's messages are numbered 0, 1, ... without a gap or a     *)
(* repetition, whichever turns overlapped and whichever of them failed.    *)
THEOREM NumberedWithoutGapsHolds == ConversationSpec => []NumberedWithoutGaps
<1>1. IInv => NumberedWithoutGaps
  <2> SUFFICES ASSUME IInv, NEW c \in Turn
               PROVE  {r.seq : r \in RowsOf(c)} = 0 .. Cardinality(RowsOf(c)) - 1
    BY DEF NumberedWithoutGaps
  <2>1. PICK s \in Seq(Message) : RowsOf(c) = RowSet(c, s)
    BY DEF IInv, ThreadInv
  <2>2. Cardinality(RowsOf(c)) = Len(s)
    BY <2>1, RowSetFacts
  <2>3. Len(s) \in Nat /\ DOMAIN s = 1 .. Len(s)
    BY LenProperties
  <2>4. \A i : Row(c, i - 1, s[i]).seq = i - 1
    BY DEF Row
  <2>5. {r.seq : r \in RowSet(c, s)} = {i - 1 : i \in 1 .. Len(s)}
    BY <2>3, <2>4 DEF RowSet
  <2>6. ASSUME NEW k \in 0 .. Len(s) - 1
        PROVE  \E i \in 1 .. Len(s) : k = i - 1
    <3>1. k + 1 \in 1 .. Len(s) /\ k = k + 1 - 1
      BY <2>3
    <3>2. QED
      BY <3>1
  <2>7. {i - 1 : i \in 1 .. Len(s)} = 0 .. Len(s) - 1
    <3>1. \A i \in 1 .. Len(s) : i - 1 \in 0 .. Len(s) - 1
      BY <2>3
    <3>2. \A k : k \in {i - 1 : i \in 1 .. Len(s)} <=> k \in 0 .. Len(s) - 1
      BY <2>6, <3>1
    <3>3. QED
      BY <3>2
  <2>8. QED
    BY <2>1, <2>2, <2>5, <2>7
<1>2. QED
  BY <1>1, Invariance, PTL

(* A history is sent: with a window of 0 the code sends the whole          *)
(* conversation, which is not what the setting says.                       *)
HistoryIsSent == Window > 0

(* Committed conversations grow by whole turns, each answer made from the  *)
(* messages right before its question: the turns that commit look as if    *)
(* they had come one after the other.                                      *)
THEOREM ImplementsTranscript ==
  ASSUME HistoryIsSent
  PROVE  ConversationSpec => TurnsSerialize
<1> DEFINE threads == [c \in Turn |-> InOrder(RowsOf(c))]
<1>1. ConversationInit => Promise!TranscriptInit
  <2> SUFFICES ASSUME ConversationInit PROVE threads = [c \in Turn |-> <<>>]
    BY DEF Promise!TranscriptInit
  <2>1. \A c \in Turn : RowsOf(c) = {}
    BY DEF ConversationInit, RowsOf
  <2>2. InOrder({}) = <<>>
    <3>1. <<>> \in Seq(Message) /\ RowSet(0, <<>>) = {}
      BY EmptySeq DEF RowSet
    <3>2. QED
      BY <3>1, RowSetFacts
  <2>3. QED
    BY <2>1, <2>2
<1>2. IInv /\ [ConversationNext]_vars => [Promise!TranscriptNext]_threads
  <2> SUFFICES ASSUME IInv, [ConversationNext]_vars
               PROVE  Promise!TranscriptNext \/ threads' = threads
    OBVIOUS
  <2>1. CASE rows' = rows
    BY <2>1 DEF RowsOf
  <2>2. CASE \E t \in Turn : CommitTurn(t)
    <3>1. PICK t \in Turn : CommitTurn(t)
      BY <2>2
    <3>2. PICK c \in Turn : c = conv[t]
      BY DEF IInv, Shapes
    <3>3. PICK s : s = Read(t)
      OBVIOUS
    <3>4. /\ s \in Seq(Message) /\ InOrder(RowsOf(c)) = s
          /\ c = t \/ (c \in conversations /\ s # <<>>)
          /\ InOrder(RowsOf(c))' = s \o Exchange(t, s)
          /\ \A d \in Turn \ {c} : InOrder(RowsOf(d))' = InOrder(RowsOf(d))
      BY <3>1, <3>2, <3>3, CommitFacts DEF Thread
    <3>5. Exchange(t, s) =
            <<Promise!Question(t), Promise!Answer(t, Promise!Heads(Promise!MostRecent(s)))>>
      <4>1. History(s) = Promise!MostRecent(s)
        BY WindowAssumption DEF HistoryIsSent, History, Promise!MostRecent
      <4>2. Heads(History(s)) = Promise!Heads(Promise!MostRecent(s))
        BY <4>1 DEF Heads, Promise!Heads
      <4>3. QED
        BY <4>2 DEF Exchange, Question, Answer, Promise!Question, Promise!Answer
    <3>6. ~Promise!Taken(t)
      <4>1. ASSUME NEW d \in Turn, NEW i \in DOMAIN threads[d], threads[d][i].turn = t
            PROVE  FALSE
        <5>1. /\ Thread(d) \in Seq(Message) /\ RowSet(d, Thread(d)) \subseteq rows
              /\ threads[d] = Thread(d)
          BY DEF IInv, ThreadInv, RowsOf, Thread
        <5>2. pc[t] = "done"
          BY <4>1, <5>1, StoredHeadsDiffer
        <5>3. QED
          BY <3>1, <5>2 DEF CommitTurn
      <4>2. QED
        BY <4>1 DEF Promise!Taken
    <3>7. threads' = [threads EXCEPT ![c] =
                        @ \o <<Promise!Question(t),
                               Promise!Answer(t, Promise!Heads(Promise!MostRecent(@)))>>]
      BY <3>4, <3>5
    <3>8. threads[c] = s
      BY <3>4
    <3>9. Promise!TakeTurn(c, t)
      BY <3>4, <3>6, <3>7, <3>8 DEF Promise!TakeTurn
    <3>10. QED
      BY <3>9 DEF Promise!TranscriptNext
  <2>3. rows' = rows \/ \E t \in Turn : CommitTurn(t)
    BY DEF ConversationNext, StartConversation, LoadConversation, RefuseUnknown,
           AnswerQuestion, CompareStored, InsertMessages, Respond, AbortTurn, vars
  <2>4. QED
    BY <2>1, <2>2, <2>3
<1>3. QED
  BY <1>1, <1>2, Invariance, PTL
     DEF ConversationSpec, TurnsSerialize, Promise!TranscriptSpec
=============================================================================
