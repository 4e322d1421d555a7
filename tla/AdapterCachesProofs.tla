------------------------- MODULE AdapterCachesProofs -------------------------
(***************************************************************************)
(* Theorems about AdapterCaches for any number of processes, calls,        *)
(* tenants and restarts of the broker.                                     *)
(***************************************************************************)
EXTENDS AdapterCaches, FiniteSetTheorems, SequenceTheorems, TLAPS

EnqueueCall == [kind : {"enqueue"}, process : Process]
VectorCall  == [kind : {"index", "search"}, process : Process, tenant : Tenant]

Shapes ==
  /\ pc        \in [Call -> Stages]
  /\ call      \in [Call -> {NoWork} \cup EnqueueCall \cup VectorCall]
  /\ channel   \in [Call -> 0 .. Len(channels)]
  /\ lock      \in [Process -> Call \cup {NoCall}]
  /\ channels  \in Seq([process : Process, address : Address, open : BOOLEAN])
  /\ cached    \in [Process -> 0 .. Len(channels)]
  /\ declared  \in [Process -> SUBSET Address]
  /\ queue     \in {"none", "durable"}
  /\ restarts  \in Nat
  /\ ensured   \subseteq Process
  /\ collection \in BOOLEAN
  /\ points    \subseteq Call
  /\ hits      \in [Call -> SUBSET Call]
  /\ preceding \in [Call -> [collection : BOOLEAN, indexed : SUBSET Call]]

QueueStages  == {"lock", "connect", "open", "declare", "publish"}
VectorStages == {"embed", "exists", "create", "use"}

(* What is awaited under the lock. *)
LockedStages == {"connect", "open"}

(* A call awaits only what its kind awaits; an enqueueing that has ended   *)
(* is forgotten, the other calls are not.                                  *)
KindInv ==
  \A c \in Call :
    /\ pc[c] = "new" => call[c] = NoWork
    /\ pc[c] \in QueueStages <=> call[c] \in EnqueueCall
    /\ pc[c] \in VectorStages => call[c] \in VectorCall
    /\ pc[c] \in {"declare", "publish"} => channel[c] # 0
    /\ hits[c] # {} => pc[c] = "done" /\ call[c] \in VectorCall
    /\ Cardinality(hits[c]) <= Limit

-----------------------------------------------------------------------------
(* RabbitMQJobQueue *)

ChannelsOf(p) == {ch \in DOMAIN channels : channels[ch].process = p}

(* Process p may open a channel: it has lost every one it had.             *)
HasLostAll(p) == Cardinality(ChannelsOf(p)) <= restarts

ChannelInv ==
  /\ \A p \in Process :
       /\ Cardinality(ChannelsOf(p)) <= 1 + restarts
       /\ ~IsOpen(cached[p]) => HasLostAll(p)
  /\ \A c \in Call :
       pc[c] \in LockedStages => lock[ProcessOf(c)] = c /\ HasLostAll(ProcessOf(c))

(* A queue once declared stays, since it is durable.                       *)
QueueInv ==
  /\ \A p \in Process : declared[p] # {} => queue = "durable"
  /\ \A c \in Call : pc[c] = "publish" => queue = "durable"

-----------------------------------------------------------------------------
(* QdrantVectorRepository *)

(* What was so when a call began is so still.                              *)
CollectionInv ==
  /\ ensured # {} => collection
  /\ \A c \in Call : preceding[c].collection => collection /\ pc[c] # "create"

PointsInv ==
  /\ Indexed \subseteq points
  /\ \A d \in points : call[d] \in VectorCall
  /\ \A c \in Call : \A d \in preceding[c].indexed :
       call[c] \in VectorCall /\ d \in Searched(c)

IInv ==
  Shapes /\ KindInv /\ ChannelInv /\ QueueInv /\ CollectionInv /\ PointsInv /\ IndexedIsFound

-----------------------------------------------------------------------------
(* Facts of every state *)

ChannelRecord == [process : Process, address : Address, open : BOOLEAN]

LEMMA ChannelsFacts ==
  ASSUME Shapes
  PROVE  /\ channels \in Seq(ChannelRecord)
         /\ Len(channels) \in Nat
         /\ DOMAIN channels = 1 .. Len(channels)
         /\ \A ch \in 1 .. Len(channels) : channels[ch] \in ChannelRecord
BY LenProperties, ElementOfSeq DEF Shapes, ChannelRecord

(* The two kinds of calls have nothing in common.                          *)
LEMMA KindsDiffer ==
  /\ NoWork \notin EnqueueCall \cup VectorCall
  /\ EnqueueCall \cap VectorCall = {}
  /\ \A w \in EnqueueCall : w.kind = "enqueue" /\ w.process \in Process
  /\ \A w \in VectorCall : w.kind \in {"index", "search"} /\ w.process \in Process
<1>1. \A w \in EnqueueCall : w.kind = "enqueue" /\ w.process \in Process
  BY DEF EnqueueCall
<1>2. \A w \in VectorCall : w.kind \in {"index", "search"} /\ w.process \in Process
  BY DEF VectorCall
<1>3. NoWork.kind = "none"
  BY DEF NoWork
<1>4. QED
  BY <1>1, <1>2, <1>3

(* Only call c moves.                                                      *)
OthersRest(c) ==
  \A d \in Call \ {c} :
    /\ pc'[d] = pc[d] /\ call'[d] = call[d] /\ channel'[d] = channel[d]
    /\ hits'[d] = hits[d] /\ preceding'[d] = preceding[d]

(* The enqueueing of a job does not touch what the vector calls know.      *)
LEMMA EnqueueKeepsVectorInv ==
  ASSUME IInv, NEW c \in Call, OthersRest(c), UNCHANGED <<vectorVars, preceding>>,
         call[c] \in {NoWork} \cup EnqueueCall, call'[c] \in {NoWork} \cup EnqueueCall,
         pc'[c] # "create"
  PROVE  CollectionInv' /\ PointsInv' /\ IndexedIsFound'
<1> USE DEF IInv
<1>1. UNCHANGED <<ensured, collection, points, hits, preceding>>
  BY DEF vectorVars
<1>2. call[c].kind \notin {"index", "search"} /\ call'[c].kind \notin {"index", "search"}
  BY KindsDiffer DEF NoWork
<1>3. call[c] \notin VectorCall
  BY KindsDiffer
<1>4. CollectionInv'
  BY <1>1 DEF CollectionInv, OthersRest
<1>5. Indexed' = Indexed
  BY <1>2 DEF Indexed, OthersRest
<1>6. PointsInv'
  <2>1. c \notin points
    BY <1>3 DEF PointsInv
  <2>2. ASSUME NEW d \in Call, NEW e \in preceding[d].indexed
        PROVE  call'[d] \in VectorCall /\ e \in Searched(d)'
    <3>1. call[d] \in VectorCall /\ e \in Searched(d)
      BY DEF PointsInv
    <3>2. d # c /\ e # c /\ e \in Call
      BY <1>3, <2>1, <3>1 DEF Searched, Shapes
    <3>3. QED
      BY <1>1, <3>1, <3>2 DEF Searched, OthersRest
  <2>3. \A d \in points : call'[d] \in VectorCall
    BY <2>1 DEF PointsInv, OthersRest, Shapes
  <2>4. QED
    BY <1>1, <1>5, <2>2, <2>3 DEF PointsInv
<1>7. IndexedIsFound'
  BY <1>1, <1>2 DEF IndexedIsFound, OthersRest
<1>8. QED
  BY <1>4, <1>6, <1>7

(* Nor does a vector call touch the channels and the queue.                *)
LEMMA VectorCallKeepsQueueInv ==
  ASSUME IInv, NEW c \in Call, OthersRest(c), UNCHANGED channelVars,
         pc'[c] \notin LockedStages \cup {"publish"}
  PROVE  ChannelInv' /\ QueueInv'
<1> USE DEF IInv, LockedStages
<1>1. UNCHANGED <<channel, lock, channels, cached, declared, queue, restarts>>
  BY DEF channelVars
<1>2. \A p \in Process : IsOpen(cached[p])' = IsOpen(cached[p])
                         /\ HasLostAll(p)' = HasLostAll(p) /\ ChannelsOf(p)' = ChannelsOf(p)
  BY <1>1 DEF IsOpen, HasLostAll, ChannelsOf
<1>3. ASSUME NEW d \in Call, pc'[d] \in LockedStages
      PROVE  lock'[ProcessOf(d)'] = d /\ HasLostAll(ProcessOf(d))'
  <2>1. d # c /\ pc[d] \in LockedStages /\ call'[d] = call[d]
    BY <1>3 DEF OthersRest
  <2>2. lock[ProcessOf(d)] = d /\ HasLostAll(ProcessOf(d))
    BY <2>1 DEF ChannelInv
  <2>3. QED
    BY <1>1, <2>1, <2>2 DEF ProcessOf, HasLostAll, ChannelsOf
<1>4. ChannelInv'
  BY <1>1, <1>2, <1>3 DEF ChannelInv
<1>5. QueueInv'
  BY <1>1 DEF QueueInv, OthersRest
<1>6. QED
  BY <1>4, <1>5

(* What a call is and awaits, when one call has moved.                     *)
LEMMA MoveKeepsKindInv ==
  ASSUME IInv, NEW c \in Call, OthersRest(c),
         pc'[c] # "new",
         pc'[c] \in QueueStages <=> call'[c] \in EnqueueCall,
         pc'[c] \in VectorStages => call'[c] \in VectorCall,
         pc'[c] \in {"declare", "publish"} => channel'[c] # 0,
         hits'[c] # {} => pc'[c] = "done" /\ call'[c] \in VectorCall,
         Cardinality(hits'[c]) <= Limit
  PROVE  KindInv'
BY DEF IInv, KindInv, OthersRest

-----------------------------------------------------------------------------
(* The enqueueing of a job, step by step *)

(* A queue that is declared over a channel of this address is there.       *)
LEMMA ProceedMoves ==
  ASSUME IInv, NEW c \in Call, NEW p \in Process, NEW ch \in Nat \ {0}, NEW a,
         Proceed(c, p, ch, a)
  PROVE  /\ pc' \in [Call -> Stages]
         /\ channel' = [channel EXCEPT ![c] = ch] /\ channel'[c] = ch
         /\ pc'[c] \in {"declare", "publish"}
         /\ pc'[c] = "publish" => queue = "durable"
         /\ \A d \in Call \ {c} : pc'[d] = pc[d] /\ channel'[d] = channel[d]
BY DEF Proceed, Goto, IInv, Shapes, Stages, QueueInv

LEMMA OpenChannelExists ==
  ASSUME Shapes, NEW p \in Process, IsOpen(cached[p])
  PROVE  cached[p] \in 1 .. Len(channels) /\ cached[p] \in Nat \ {0}
BY ChannelsFacts DEF Shapes, IsOpen

LEMMA EnqueueKeepsIInv ==
  ASSUME IInv, NEW c \in Call, NEW p \in Process, Enqueue(c, p)
  PROVE  IInv'
<1> USE DEF IInv, LockedStages
<1>1. /\ pc[c] = "new" /\ call' = [call EXCEPT ![c] = [kind |-> "enqueue", process |-> p]]
      /\ UNCHANGED <<preceding, lock, channels, cached, declared, queue, restarts>>
      /\ UNCHANGED <<ensured, collection, points, hits>>
      /\ IF IsOpen(cached[p]) THEN Reuse(c, p)
                              ELSE pc' = [pc EXCEPT ![c] = "lock"] /\ channel' = channel
  BY DEF Enqueue, Begin, Goto, vectorVars
<1>2. call[c] = NoWork /\ call'[c] \in EnqueueCall /\ ProcessOf(c)' = p
  BY <1>1 DEF KindInv, Shapes, EnqueueCall, ProcessOf
<1>3. /\ pc' \in [Call -> Stages] /\ channel' \in [Call -> 0 .. Len(channels)]
      /\ pc'[c] \in {"lock", "declare", "publish"}
      /\ pc'[c] = "publish" => queue = "durable"
      /\ pc'[c] \in {"declare", "publish"} => channel'[c] # 0
      /\ \A d \in Call \ {c} : pc'[d] = pc[d] /\ channel'[d] = channel[d]
  <2>1. CASE IsOpen(cached[p])
    <3>1. cached[p] \in 1 .. Len(channels) /\ cached[p] \in Nat \ {0}
      BY <2>1, OpenChannelExists
    <3>2. Proceed(c, p, cached[p], channels[cached[p]].address)
      BY <1>1, <2>1 DEF Reuse
    <3>3. /\ pc' \in [Call -> Stages] /\ channel' = [channel EXCEPT ![c] = cached[p]]
          /\ channel'[c] = cached[p] /\ pc'[c] \in {"declare", "publish"}
          /\ pc'[c] = "publish" => queue = "durable"
          /\ \A d \in Call \ {c} : pc'[d] = pc[d] /\ channel'[d] = channel[d]
      BY <3>1, <3>2, ProceedMoves
    <3>4. channel' \in [Call -> 0 .. Len(channels)]
      BY <3>1, <3>3 DEF Shapes
    <3>5. QED
      BY <1>1, <2>1, <3>1, <3>3, <3>4 DEF Shapes
  <2>2. CASE ~IsOpen(cached[p])
    BY <1>1, <2>2 DEF Shapes, Stages
  <2>3. QED
    BY <2>1, <2>2
<1>4. OthersRest(c)
  BY <1>1, <1>3 DEF OthersRest, Shapes
<1>5. Shapes'
  BY <1>1, <1>2, <1>3 DEF Shapes
<1>6. KindInv'
  BY <1>1, <1>2, <1>3, <1>4, MoveKeepsKindInv DEF KindInv, QueueStages, VectorStages
<1>7. ChannelInv' /\ QueueInv'
  <2>1. \A q \in Process : IsOpen(cached[q])' = IsOpen(cached[q]) /\ HasLostAll(q)' = HasLostAll(q)
                           /\ ChannelsOf(q)' = ChannelsOf(q)
    BY <1>1 DEF IsOpen, HasLostAll, ChannelsOf
  <2>2. ASSUME NEW d \in Call, pc'[d] \in LockedStages
        PROVE  lock'[ProcessOf(d)'] = d /\ HasLostAll(ProcessOf(d))'
    <3>1. d # c /\ pc[d] \in LockedStages /\ call'[d] = call[d]
      BY <1>3, <1>4, <2>2 DEF OthersRest
    <3>2. lock[ProcessOf(d)] = d /\ HasLostAll(ProcessOf(d))
      BY <3>1 DEF ChannelInv
    <3>3. QED
      BY <1>1, <3>1, <3>2 DEF ProcessOf, HasLostAll, ChannelsOf
  <2>3. QED
    BY <1>1, <1>3, <2>1, <2>2 DEF ChannelInv, QueueInv
<1>8. CollectionInv' /\ PointsInv' /\ IndexedIsFound'
  BY <1>1, <1>2, <1>3, <1>4, EnqueueKeepsVectorInv DEF vectorVars
<1>9. QED
  BY <1>5, <1>6, <1>7, <1>8

LEMMA TakeLockKeepsIInv ==
  ASSUME IInv, NEW c \in Call, TakeLock(c)
  PROVE  IInv'
<1> USE DEF IInv, LockedStages
<1>1. PICK p \in Process : p = ProcessOf(c)
  BY KindsDiffer DEF TakeLock, KindInv, QueueStages, ProcessOf
<1>2. /\ pc[c] = "lock" /\ lock[p] = NoCall
      /\ UNCHANGED <<call, preceding, channels, cached, declared, queue, restarts>>
      /\ UNCHANGED <<ensured, collection, points, hits>>
      /\ IF IsOpen(cached[p])
           THEN Reuse(c, p) /\ lock' = lock
           ELSE pc' = [pc EXCEPT ![c] = "connect"] /\ lock' = [lock EXCEPT ![p] = c] /\ channel' = channel
  BY <1>1 DEF TakeLock, Goto, vectorVars
<1>3. call[c] \in EnqueueCall /\ NoCall \notin Call
  BY <1>2 DEF KindInv, QueueStages, NoCall, Call
<1>4. /\ pc' \in [Call -> Stages] /\ channel' \in [Call -> 0 .. Len(channels)]
      /\ lock' \in [Process -> Call \cup {NoCall}]
      /\ pc'[c] \in {"connect", "declare", "publish"}
      /\ pc'[c] = "publish" => queue = "durable"
      /\ pc'[c] \in {"declare", "publish"} => channel'[c] # 0
      /\ pc'[c] = "connect" => lock'[p] = c /\ ~IsOpen(cached[p])
      /\ \A q \in Process : lock'[q] = lock[q] \/ (q = p /\ lock[q] = NoCall)
      /\ \A d \in Call \ {c} : pc'[d] = pc[d] /\ channel'[d] = channel[d]
  <2>1. CASE IsOpen(cached[p])
    <3>1. cached[p] \in 1 .. Len(channels) /\ cached[p] \in Nat \ {0}
      BY <2>1, OpenChannelExists
    <3>2. Proceed(c, p, cached[p], channels[cached[p]].address)
      BY <1>2, <2>1 DEF Reuse
    <3>3. /\ pc' \in [Call -> Stages] /\ channel' = [channel EXCEPT ![c] = cached[p]]
          /\ channel'[c] = cached[p] /\ pc'[c] \in {"declare", "publish"}
          /\ pc'[c] = "publish" => queue = "durable"
          /\ \A d \in Call \ {c} : pc'[d] = pc[d] /\ channel'[d] = channel[d]
      BY <3>1, <3>2, ProceedMoves
    <3>4. channel' \in [Call -> 0 .. Len(channels)]
      BY <3>1, <3>3 DEF Shapes
    <3>5. QED
      BY <1>2, <2>1, <3>1, <3>3, <3>4 DEF Shapes
  <2>2. CASE ~IsOpen(cached[p])
    <3>1. pc' = [pc EXCEPT ![c] = "connect"] /\ lock' = [lock EXCEPT ![p] = c]
          /\ channel' = channel
      BY <1>2, <2>2
    <3>2. /\ pc \in [Call -> Stages] /\ lock \in [Process -> Call \cup {NoCall}]
          /\ channel \in [Call -> 0 .. Len(channels)] /\ "connect" \in Stages
      BY DEF Shapes, Stages
    <3>3. pc' \in [Call -> Stages] /\ lock' \in [Process -> Call \cup {NoCall}]
      BY <3>1, <3>2
    <3>4. pc'[c] = "connect" /\ lock'[p] = c
      BY <3>1, <3>2
    <3>5. /\ \A q \in Process : lock'[q] = lock[q] \/ (q = p /\ lock[q] = NoCall)
          /\ \A d \in Call \ {c} : pc'[d] = pc[d] /\ channel'[d] = channel[d]
      BY <1>2, <3>1, <3>2
    <3>6. QED
      BY <2>2, <3>1, <3>2, <3>3, <3>4, <3>5
  <2>3. QED
    BY <2>1, <2>2
<1>5. OthersRest(c)
  BY <1>2, <1>4 DEF OthersRest, Shapes
<1>6. Shapes'
  BY <1>2, <1>4 DEF Shapes
<1>7. KindInv'
  BY <1>2, <1>3, <1>4, <1>5, MoveKeepsKindInv DEF KindInv, QueueStages, VectorStages
<1>8. ChannelInv' /\ QueueInv'
  <2>1. \A q \in Process : IsOpen(cached[q])' = IsOpen(cached[q]) /\ HasLostAll(q)' = HasLostAll(q)
                           /\ ChannelsOf(q)' = ChannelsOf(q)
    BY <1>2 DEF IsOpen, HasLostAll, ChannelsOf
  <2>2. ASSUME NEW d \in Call, pc'[d] \in LockedStages
        PROVE  lock'[ProcessOf(d)'] = d /\ HasLostAll(ProcessOf(d))'
    <3>1. CASE d = c
      <4>1. HasLostAll(p)' /\ lock'[p] = c
        BY <1>4, <2>1, <2>2, <3>1 DEF ChannelInv
      <4>2. ProcessOf(d)' = p
        BY <1>1, <1>2, <3>1 DEF ProcessOf
      <4>3. QED
        BY <3>1, <4>1, <4>2 DEF HasLostAll, ChannelsOf
    <3>2. CASE d # c
      <4>1. pc[d] \in LockedStages /\ call'[d] = call[d]
        BY <1>5, <2>2, <3>2 DEF OthersRest
      <4>2. lock[ProcessOf(d)] = d /\ HasLostAll(ProcessOf(d)) /\ ProcessOf(d) \in Process
        BY <4>1, KindsDiffer DEF ChannelInv, KindInv, QueueStages, ProcessOf
      <4>3. lock'[ProcessOf(d)] = d
        BY <1>3, <1>4, <4>2
      <4>4. QED
        BY <1>2, <4>1, <4>2, <4>3 DEF ProcessOf, HasLostAll, ChannelsOf
    <3>3. QED
      BY <3>1, <3>2
  <2>3. QED
    BY <1>2, <1>4, <2>1, <2>2 DEF ChannelInv, QueueInv
<1>9. CollectionInv' /\ PointsInv' /\ IndexedIsFound'
  BY <1>2, <1>3, <1>4, <1>5, EnqueueKeepsVectorInv DEF vectorVars
<1>10. QED
  BY <1>6, <1>7, <1>8, <1>9

(* The connection is there, the lock is kept.                              *)
LEMMA ConnectKeepsIInv ==
  ASSUME IInv, NEW c \in Call, Connect(c)
  PROVE  IInv'
<1> USE DEF IInv, LockedStages
<1>1. /\ pc[c] = "connect" /\ pc' = [pc EXCEPT ![c] = "open"]
      /\ UNCHANGED <<call, preceding, channel, lock, channels, cached, declared, queue, restarts>>
      /\ UNCHANGED <<ensured, collection, points, hits>>
  BY DEF Connect, Goto, channelVars, vectorVars
<1>2. call[c] \in EnqueueCall
  BY <1>1 DEF KindInv, QueueStages
<1>3. pc'[c] = "open" /\ OthersRest(c)
  BY <1>1 DEF Shapes, OthersRest
<1>4. Shapes'
  BY <1>1 DEF Shapes, Stages
<1>5. KindInv'
  BY <1>1, <1>2, <1>3, KindsDiffer, MoveKeepsKindInv DEF KindInv, QueueStages, VectorStages
<1>6. ChannelInv'
  <2>1. \A q \in Process : IsOpen(cached[q])' = IsOpen(cached[q]) /\ HasLostAll(q)' = HasLostAll(q)
                           /\ ChannelsOf(q)' = ChannelsOf(q)
    BY <1>1 DEF IsOpen, HasLostAll, ChannelsOf
  <2>2. ASSUME NEW d \in Call, pc'[d] \in LockedStages
        PROVE  lock'[ProcessOf(d)'] = d /\ HasLostAll(ProcessOf(d))'
    <3>1. pc[d] \in LockedStages
      BY <1>1, <1>3, <2>2 DEF OthersRest
    <3>2. lock[ProcessOf(d)] = d /\ HasLostAll(ProcessOf(d))
      BY <3>1 DEF ChannelInv
    <3>3. QED
      BY <1>1, <3>2 DEF ProcessOf, HasLostAll, ChannelsOf
  <2>3. QED
    BY <1>1, <2>1, <2>2 DEF ChannelInv
<1>7. QueueInv'
  BY <1>1, <1>3 DEF QueueInv, OthersRest
<1>8. CollectionInv' /\ PointsInv' /\ IndexedIsFound'
  BY <1>1, <1>2, <1>3, EnqueueKeepsVectorInv DEF vectorVars
<1>9. QED
  BY <1>4, <1>5, <1>6, <1>7, <1>8

(* A process that connects has lost every channel it had, and no other of  *)
(* its calls connects: the new channel is the one it may open.             *)
LEMMA OpenChannelKeepsIInv ==
  ASSUME IInv, NEW c \in Call, OpenChannel(c)
  PROVE  IInv'
<1> USE DEF IInv, LockedStages
<1> DEFINE n == Len(channels) + 1
<1>1. PICK p \in Process : p = ProcessOf(c)
  BY KindsDiffer DEF OpenChannel, KindInv, QueueStages, ProcessOf
<1>2. /\ pc[c] = "open"
      /\ cached' = [cached EXCEPT ![p] = n] /\ lock' = [lock EXCEPT ![p] = NoCall]
      /\ UNCHANGED <<call, preceding, declared, queue, restarts>>
      /\ UNCHANGED <<ensured, collection, points, hits>>
  BY <1>1 DEF OpenChannel, vectorVars
<1>3. PICK a \in Address :
        /\ channels' = Append(channels, [process |-> p, address |-> a, open |-> TRUE])
        /\ Proceed(c, p, n, a)
  BY <1>1 DEF OpenChannel, NewAddresses
<1>4. /\ Len(channels) \in Nat /\ n \in Nat \ {0}
      /\ channels \in Seq(ChannelRecord) /\ DOMAIN channels = 1 .. Len(channels)
  BY ChannelsFacts
<1>5. /\ channels' \in Seq(ChannelRecord) /\ Len(channels') = n
      /\ DOMAIN channels' = 1 .. n
      /\ channels'[n] = [process |-> p, address |-> a, open |-> TRUE]
      /\ \A ch \in 1 .. Len(channels) : channels'[ch] = channels[ch]
  BY <1>3, <1>4 DEF ChannelRecord
<1>6. /\ pc' \in [Call -> Stages] /\ channel' = [channel EXCEPT ![c] = n]
      /\ channel'[c] = n /\ pc'[c] \in {"declare", "publish"}
      /\ pc'[c] = "publish" => queue = "durable"
      /\ \A d \in Call \ {c} : pc'[d] = pc[d] /\ channel'[d] = channel[d]
  BY <1>3, <1>4, ProceedMoves
<1>7. call[c] \in EnqueueCall
  BY <1>2 DEF KindInv, QueueStages
<1>8. OthersRest(c)
  BY <1>2, <1>6 DEF OthersRest, Shapes
<1>9. Shapes'
  <2>1. channel' \in [Call -> 0 .. n] /\ cached' \in [Process -> 0 .. n]
    BY <1>2, <1>4, <1>6 DEF Shapes
  <2>2. lock' \in [Process -> Call \cup {NoCall}]
    BY <1>2 DEF Shapes
  <2>3. QED
    BY <1>2, <1>5, <1>6, <2>1, <2>2 DEF Shapes, ChannelRecord
<1>10. KindInv'
  BY <1>2, <1>4, <1>6, <1>7, <1>8, MoveKeepsKindInv DEF KindInv, QueueStages, VectorStages
<1>11. \A q \in Process \ {p} : ChannelsOf(q)' = ChannelsOf(q)
  BY <1>4, <1>5 DEF ChannelsOf
<1>12. ChannelInv'
  <2>1. ASSUME NEW q \in Process
        PROVE  /\ Cardinality(ChannelsOf(q)') <= 1 + restarts'
               /\ ~IsOpen(cached[q])' => HasLostAll(q)'
    <3>1. CASE q = p
      <4>1. ChannelsOf(q)' = ChannelsOf(q) \cup {n}
        BY <1>4, <1>5, <3>1 DEF ChannelsOf
      <4>2. IsFiniteSet(ChannelsOf(q)) /\ n \notin ChannelsOf(q)
        <5>1. ChannelsOf(q) \subseteq 1 .. Len(channels)
          BY <1>4 DEF ChannelsOf
        <5>2. IsFiniteSet(1 .. Len(channels))
          BY <1>4, FS_Interval
        <5>3. QED
          BY <1>4, <5>1, <5>2, FS_Subset
      <4>3. Cardinality(ChannelsOf(q)') = Cardinality(ChannelsOf(q)) + 1
            /\ Cardinality(ChannelsOf(q)) \in Nat
        BY <4>1, <4>2, FS_AddElement, FS_CardinalityType
      <4>4. Cardinality(ChannelsOf(q)) <= restarts
        BY <1>1, <1>2, <3>1 DEF ChannelInv, HasLostAll
      <4>5. IsOpen(cached[q])'
        BY <1>2, <1>4, <1>5, <3>1 DEF IsOpen, Shapes
      <4>6. QED
        BY <1>2, <4>3, <4>4, <4>5 DEF Shapes
    <3>2. CASE q # p
      <4>1. cached'[q] = cached[q] /\ IsOpen(cached[q])' = IsOpen(cached[q])
        BY <1>2, <1>4, <1>5, <3>2 DEF Shapes, IsOpen
      <4>2. HasLostAll(q)' = HasLostAll(q)
        BY <1>2, <1>11, <3>2 DEF HasLostAll
      <4>3. QED
        BY <1>2, <1>11, <3>2, <4>1, <4>2 DEF ChannelInv
    <3>3. QED
      BY <3>1, <3>2
  <2>2. ASSUME NEW d \in Call, pc'[d] \in LockedStages
        PROVE  lock'[ProcessOf(d)'] = d /\ HasLostAll(ProcessOf(d))'
    <3>1. d # c /\ pc[d] \in LockedStages /\ call'[d] = call[d]
      BY <1>6, <1>8, <2>2 DEF OthersRest
    <3>2. PICK q \in Process : q = ProcessOf(d)
      BY <3>1, KindsDiffer DEF KindInv, QueueStages, ProcessOf
    <3>3. lock[q] = d /\ Cardinality(ChannelsOf(q)) <= restarts /\ lock[p] = c
      BY <1>1, <1>2, <3>1, <3>2 DEF ChannelInv, HasLostAll
    <3>4. q # p /\ ProcessOf(d)' = q
      BY <3>1, <3>2, <3>3 DEF ProcessOf
    <3>5. lock'[q] = d /\ Cardinality(ChannelsOf(q)') <= restarts'
      BY <1>2, <1>11, <3>3, <3>4 DEF Shapes
    <3>6. QED
      BY <3>4, <3>5 DEF HasLostAll, ChannelsOf
  <2>3. QED
    BY <2>1, <2>2 DEF ChannelInv
<1>13. QueueInv'
  BY <1>2, <1>6 DEF QueueInv
<1>14. CollectionInv' /\ PointsInv' /\ IndexedIsFound'
  BY <1>2, <1>6, <1>7, <1>8, EnqueueKeepsVectorInv DEF vectorVars
<1>15. QED
  BY <1>9, <1>10, <1>12, <1>13, <1>14

(* An enqueueing that has its channel, or ends without one.                *)
LEMMA PublishingKeepsIInv ==
  ASSUME IInv, NEW c \in Call,
         ConnectFails(c) \/ DeclareQueue(c) \/ Publish(c) \/ ChannelFails(c)
  PROVE  IInv'
<1> USE DEF IInv, LockedStages
<1>1. PICK p \in Process : p = ProcessOf(c)
  BY KindsDiffer DEF ConnectFails, DeclareQueue, Publish, ChannelFails, KindInv, QueueStages,
     ProcessOf
<1>2. /\ pc[c] \in {"connect", "open", "declare", "publish"}
      /\ UNCHANGED <<preceding, channels, cached, restarts>>
      /\ UNCHANGED <<ensured, collection, points, hits>>
      /\ \/ /\ End(c, "failed") \/ End(c, "done")
            /\ UNCHANGED <<declared, queue>>
         \/ /\ pc[c] = "declare" /\ IsOpen(channel[c]) /\ queue' = "durable"
            /\ declared' = [declared EXCEPT ![p] = @ \cup {channels[channel[c]].address}]
            /\ pc' = [pc EXCEPT ![c] = "publish"]
            /\ UNCHANGED <<call, channel>>
      /\ \/ lock' = lock
         \/ pc[c] \in LockedStages /\ lock' = [lock EXCEPT ![p] = NoCall]
  BY <1>1 DEF ConnectFails, DeclareQueue, Publish, ChannelFails, Goto, vectorVars
<1>3. call[c] \in EnqueueCall
  BY <1>2 DEF KindInv, QueueStages
<1>4. /\ pc' \in [Call -> Stages] /\ channel' \in [Call -> 0 .. Len(channels)]
      /\ \/ call'[c] = NoWork /\ pc'[c] \in {"failed", "done"}
         \/ call'[c] \in EnqueueCall /\ pc'[c] = "publish" /\ channel'[c] # 0
      /\ pc'[c] = "publish" => queue' = "durable"
      /\ call' \in [Call -> {NoWork} \cup EnqueueCall \cup VectorCall]
      /\ OthersRest(c)
  <2>1. Len(channels) \in Nat
    BY ChannelsFacts
  <2>2. CASE End(c, "failed") \/ End(c, "done")
    <3>1. PICK stage \in {"failed", "done"} : End(c, stage)
      BY <2>2
    <3>2. /\ pc' = [pc EXCEPT ![c] = stage] /\ call' = [call EXCEPT ![c] = NoWork]
          /\ channel' = [channel EXCEPT ![c] = 0]
      BY <3>1 DEF End, Goto
    <3>3. pc' \in [Call -> Stages] /\ channel' \in [Call -> 0 .. Len(channels)]
      BY <2>1, <3>2 DEF Shapes, Stages
    <3>4. pc'[c] = stage /\ call'[c] = NoWork
      BY <3>2 DEF Shapes
    <3>5. call' \in [Call -> {NoWork} \cup EnqueueCall \cup VectorCall]
      BY <3>2 DEF Shapes
    <3>6. OthersRest(c)
      BY <1>2, <3>2 DEF Shapes, OthersRest
    <3>7. QED
      BY <3>3, <3>4, <3>5, <3>6
  <2>3. CASE pc[c] = "declare" /\ pc' = [pc EXCEPT ![c] = "publish"] /\ UNCHANGED <<call, channel>>
               /\ queue' = "durable"
    BY <1>2, <1>3, <2>3 DEF Shapes, Stages, KindInv, OthersRest
  <2>4. QED
    BY <1>2, <2>2, <2>3
<1>5. /\ declared' \in [Process -> SUBSET Address] /\ queue' \in {"none", "durable"}
      /\ queue = "durable" => queue' = "durable"
      /\ \A q \in Process : declared'[q] # declared[q] => queue' = "durable"
  <2>1. CASE UNCHANGED <<declared, queue>>
    BY <2>1 DEF Shapes
  <2>2. CASE /\ pc[c] = "declare" /\ IsOpen(channel[c]) /\ queue' = "durable"
             /\ declared' = [declared EXCEPT ![p] = @ \cup {channels[channel[c]].address}]
    <3>1. channels[channel[c]] \in ChannelRecord
      BY <2>2, ChannelsFacts DEF IsOpen, Shapes
    <3>2. channels[channel[c]].address \in Address
      BY <3>1 DEF ChannelRecord
    <3>3. QED
      BY <2>2, <3>2 DEF Shapes
  <2>3. QED
    BY <1>2, <2>1, <2>2
<1>6. Shapes'
  BY <1>2, <1>4, <1>5 DEF Shapes
<1>7. KindInv'
  BY <1>2, <1>3, <1>4, KindsDiffer, MoveKeepsKindInv DEF KindInv, QueueStages, VectorStages
<1>8. ChannelInv'
  <2>1. \A q \in Process : IsOpen(cached[q])' = IsOpen(cached[q]) /\ HasLostAll(q)' = HasLostAll(q)
                           /\ ChannelsOf(q)' = ChannelsOf(q)
    BY <1>2 DEF IsOpen, HasLostAll, ChannelsOf
  <2>2. ASSUME NEW d \in Call, pc'[d] \in LockedStages
        PROVE  lock'[ProcessOf(d)'] = d /\ HasLostAll(ProcessOf(d))'
    <3>1. d # c /\ pc[d] \in LockedStages /\ call'[d] = call[d]
      BY <1>4, <2>2 DEF OthersRest
    <3>2. PICK q \in Process : q = ProcessOf(d)
      BY <3>1, KindsDiffer DEF KindInv, QueueStages, ProcessOf
    <3>3. lock[q] = d /\ Cardinality(ChannelsOf(q)) <= restarts
      BY <3>1, <3>2 DEF ChannelInv, HasLostAll
    <3>4. lock'[q] = d
      <4>1. pc[c] \in LockedStages => lock[p] = c
        BY <1>1 DEF ChannelInv
      <4>2. QED
        BY <1>2, <3>1, <3>3, <4>1 DEF Shapes
    <3>5. ProcessOf(d)' = q
      BY <3>1, <3>2 DEF ProcessOf
    <3>6. Cardinality(ChannelsOf(q)') <= restarts'
      BY <1>2, <2>1, <3>3
    <3>7. QED
      BY <3>4, <3>5, <3>6 DEF HasLostAll, ChannelsOf
  <2>3. QED
    BY <1>2, <2>1, <2>2 DEF ChannelInv
<1>9. QueueInv'
  BY <1>4, <1>5 DEF QueueInv, OthersRest
<1>10. CollectionInv' /\ PointsInv' /\ IndexedIsFound'
  BY <1>2, <1>3, <1>4, EnqueueKeepsVectorInv DEF vectorVars
<1>11. QED
  BY <1>6, <1>7, <1>8, <1>9, <1>10

-----------------------------------------------------------------------------
(* The indexing of a chunk and a search, step by step *)

LEMMA BeginVectorCallKeepsIInv ==
  ASSUME IInv, NEW c \in Call, NEW kind \in {"index", "search"}, NEW p \in Process,
         NEW t \in Tenant, BeginVectorCall(c, kind, p, t)
  PROVE  IInv'
<1> USE DEF IInv
<1> DEFINE known == {d \in Indexed : call[d].tenant = t}
<1>1. /\ pc[c] = "new" /\ pc' = [pc EXCEPT ![c] = "embed"]
      /\ call' = [call EXCEPT ![c] = [kind |-> kind, process |-> p, tenant |-> t]]
      /\ preceding' = [preceding EXCEPT ![c] = [collection |-> collection, indexed |-> known]]
      /\ UNCHANGED <<channel, lock, channels, cached, declared, queue, restarts>>
      /\ UNCHANGED <<ensured, collection, points, hits>>
  BY DEF BeginVectorCall, Begin, Goto, channelVars, vectorVars
<1>2. call[c] = NoWork /\ hits[c] = {}
  BY <1>1 DEF KindInv
<1>3. /\ pc'[c] = "embed" /\ call'[c] \in VectorCall /\ call'[c].tenant = t
      /\ preceding'[c].collection = collection /\ preceding'[c].indexed = known
      /\ OthersRest(c)
  BY <1>1 DEF Shapes, VectorCall, OthersRest
<1>4. Shapes'
  BY <1>1, <1>3 DEF Shapes, Stages, Indexed
<1>5. KindInv'
  BY <1>1, <1>2, <1>3, KindsDiffer, MoveKeepsKindInv DEF KindInv, QueueStages, VectorStages
<1>6. ChannelInv' /\ QueueInv'
  BY <1>1, <1>3, VectorCallKeepsQueueInv DEF channelVars, LockedStages
<1>7. CollectionInv'
  BY <1>1, <1>3 DEF CollectionInv, OthersRest
<1>8. PointsInv'
  <2>1. c \notin points
    BY <1>2, KindsDiffer DEF PointsInv
  <2>2. Indexed' = Indexed
    BY <1>1, <1>3 DEF Indexed, OthersRest
  <2>3. \A d \in points : call'[d] \in VectorCall /\ call'[d] = call[d]
    BY <1>3, <2>1 DEF PointsInv, OthersRest, Shapes
  <2>4. ASSUME NEW d \in Call, NEW e \in preceding'[d].indexed
        PROVE  call'[d] \in VectorCall /\ e \in Searched(d)'
    <3>1. CASE d = c
      <4>1. e \in points /\ call'[e].tenant = t
        BY <1>3, <2>3, <2>4, <3>1 DEF PointsInv
      <4>2. QED
        BY <1>1, <1>3, <3>1, <4>1 DEF Searched
    <3>2. CASE d # c
      <4>1. e \in preceding[d].indexed
        BY <1>3, <2>4, <3>2 DEF OthersRest
      <4>2. call[d] \in VectorCall /\ e \in Searched(d) /\ call'[d] = call[d]
        BY <1>3, <3>2, <4>1 DEF PointsInv, OthersRest
      <4>3. QED
        BY <1>1, <2>3, <4>2 DEF Searched
    <3>3. QED
      BY <3>1, <3>2
  <2>5. QED
    BY <1>1, <2>2, <2>3, <2>4 DEF PointsInv
<1>9. IndexedIsFound'
  BY <1>1, <1>3 DEF IndexedIsFound, OthersRest
<1>10. QED
  BY <1>4, <1>5, <1>6, <1>7, <1>8, <1>9

(* The collection, once it exists, is neither recreated nor asked for by   *)
(* a call that began later.                                                *)
LEMMA EnsureKeepsIInv ==
  ASSUME IInv, NEW c \in Call, Embed(c) \/ CollectionExists(c) \/ CreateCollection(c)
  PROVE  IInv'
<1> USE DEF IInv
<1>1. PICK stage \in {"exists", "create", "use", "failed"} :
        /\ pc' = [pc EXCEPT ![c] = stage]
        /\ stage = "create" => ~collection
        /\ ensured' = ensured \/ (ensured' = ensured \cup {ProcessOf(c)} /\ collection')
        /\ collection' \in BOOLEAN /\ (collection => collection')
        /\ pc[c] \in {"embed", "exists", "create"}
        /\ UNCHANGED <<call, preceding, channel, lock, channels, cached, declared, queue, restarts>>
        /\ UNCHANGED <<points, hits>>
  <2>1. CASE Embed(c)
    BY <2>1 DEF Embed, Goto, channelVars, vectorVars, Shapes
  <2>2. CASE CollectionExists(c)
    BY <2>2 DEF CollectionExists, Goto, channelVars, Shapes
  <2>3. CASE CreateCollection(c)
    BY <2>3 DEF CreateCollection, Goto, channelVars, Shapes
  <2>4. QED
    BY <2>1, <2>2, <2>3
<1>2. call[c] \in VectorCall /\ ProcessOf(c) \in Process
  BY <1>1, KindsDiffer DEF KindInv, VectorStages, ProcessOf
<1>3. pc'[c] = stage /\ OthersRest(c)
  BY <1>1 DEF Shapes, OthersRest
<1>4. Shapes'
  BY <1>1, <1>2 DEF Shapes, Stages
<1>5. KindInv'
  BY <1>1, <1>2, <1>3, KindsDiffer, MoveKeepsKindInv DEF KindInv, QueueStages, VectorStages
<1>6. ChannelInv' /\ QueueInv'
  BY <1>1, <1>3, VectorCallKeepsQueueInv DEF channelVars, LockedStages
<1>7. CollectionInv'
  BY <1>1, <1>3 DEF CollectionInv, OthersRest
<1>8. Indexed' = Indexed
  BY <1>1, <1>3 DEF Indexed, OthersRest
<1>9. PointsInv'
  BY <1>1, <1>8 DEF PointsInv, Searched
<1>10. IndexedIsFound'
  BY <1>1, <1>3 DEF IndexedIsFound, OthersRest
<1>11. QED
  BY <1>4, <1>5, <1>6, <1>7, <1>9, <1>10

(* A call that ends may have left its point, or found what it searched.    *)
LEMMA UseKeepsIInv ==
  ASSUME IInv, NEW c \in Call, IndexChunk(c) \/ VectorCallFails(c)
  PROVE  IInv'
<1> USE DEF IInv
<1>1. PICK stage \in {"done", "failed"} :
        /\ pc' = [pc EXCEPT ![c] = stage]
        /\ pc[c] \in {"exists", "create", "use"}
        /\ stage = "done" => call[c].kind = "index" /\ c \in points'
        /\ points' = points \/ points' = points \cup {c}
        /\ collection' \in BOOLEAN /\ (collection => collection')
        /\ UNCHANGED <<call, preceding, channel, lock, channels, cached, declared, queue, restarts>>
        /\ UNCHANGED <<ensured, hits>>
  <2>1. CASE IndexChunk(c)
    BY <2>1 DEF IndexChunk, Goto, channelVars, Shapes
  <2>2. CASE VectorCallFails(c)
    <3>1. points' = points \/ points' = points \cup {c}
      BY <2>2 DEF VectorCallFails
    <3>2. collection' \in BOOLEAN /\ (collection => collection')
      BY <2>2 DEF VectorCallFails, Shapes
    <3>3. QED
      BY <2>2, <3>1, <3>2 DEF VectorCallFails, Goto, channelVars
  <2>3. QED
    BY <2>1, <2>2
<1>2. call[c] \in VectorCall
  BY <1>1 DEF KindInv, VectorStages
<1>3. pc'[c] = stage /\ OthersRest(c)
  BY <1>1 DEF Shapes, OthersRest
<1>4. Shapes'
  BY <1>1 DEF Shapes, Stages
<1>5. KindInv'
  BY <1>1, <1>2, <1>3, KindsDiffer, MoveKeepsKindInv DEF KindInv, QueueStages, VectorStages
<1>6. ChannelInv' /\ QueueInv'
  BY <1>1, <1>3, VectorCallKeepsQueueInv DEF channelVars, LockedStages
<1>7. CollectionInv'
  BY <1>1, <1>3 DEF CollectionInv, OthersRest
<1>8. PointsInv'
  <2>1. Indexed' \subseteq points'
    BY <1>1, <1>3 DEF Indexed, PointsInv, OthersRest
  <2>2. \A d \in Call : Searched(d) \subseteq Searched(d)'
    BY <1>1 DEF Searched
  <2>3. QED
    BY <1>1, <1>2, <2>1, <2>2 DEF PointsInv
<1>9. IndexedIsFound'
  BY <1>1, <1>2, <1>3 DEF IndexedIsFound, OthersRest
<1>10. QED
  BY <1>4, <1>5, <1>6, <1>7, <1>8, <1>9

(* A search that returns fewer points than its limit returns all of its    *)
(* tenant.                                                                 *)
LEMMA NearestFacts ==
  ASSUME Shapes, NEW c \in Call, NEW H \in Nearest(c)
  PROVE  /\ H \subseteq Searched(c) /\ H \subseteq Call
         /\ Cardinality(H) <= Limit
         /\ Cardinality(H) < Limit => H = Searched(c)
<1> DEFINE n == Cardinality(Searched(c))
<1>1. IsFiniteSet(Call)
  BY CallsAssumption, FS_Interval DEF Call
<1>2. Searched(c) \subseteq Call
  BY DEF Searched, Shapes
<1>3. IsFiniteSet(Searched(c)) /\ n \in Nat
  BY <1>1, <1>2, FS_Subset, FS_CardinalityType
<1>4. /\ H \subseteq Searched(c)
      /\ Cardinality(H) = IF n < Limit THEN n ELSE Limit
  BY DEF Nearest, kSubset
<1>5. Cardinality(H) <= Limit /\ (Cardinality(H) < Limit => Cardinality(H) = n)
  BY <1>3, <1>4, LimitAssumption
<1>6. Cardinality(H) = n => H = Searched(c)
  BY <1>3, <1>4, FS_Subset
<1>7. QED
  BY <1>2, <1>4, <1>5, <1>6

LEMMA SearchKeepsIInv ==
  ASSUME IInv, NEW c \in Call, Search(c)
  PROVE  IInv'
<1> USE DEF IInv
<1>1. /\ pc[c] = "use" /\ call[c].kind = "search"
      /\ UNCHANGED <<call, preceding, channel, lock, channels, cached, declared, queue, restarts>>
      /\ UNCHANGED <<ensured, collection, points>>
      /\ \/ pc' = [pc EXCEPT ![c] = "failed"] /\ hits' = hits
         \/ /\ pc' = [pc EXCEPT ![c] = "done"]
            /\ \E H \in Nearest(c) : hits' = [hits EXCEPT ![c] = H]
  BY DEF Search, Goto, channelVars
<1>2. call[c] \in VectorCall /\ hits[c] = {}
  BY <1>1 DEF KindInv, VectorStages
<1>3. /\ pc' \in [Call -> Stages] /\ hits' \in [Call -> SUBSET Call]
      /\ OthersRest(c)
      /\ Cardinality(hits'[c]) <= Limit
      /\ \/ pc'[c] = "failed" /\ hits'[c] = {}
         \/ pc'[c] = "done" /\ (Cardinality(hits'[c]) < Limit => hits'[c] = Searched(c))
  <2>1. CASE pc' = [pc EXCEPT ![c] = "failed"] /\ hits' = hits
    BY <1>1, <1>2, <2>1 DEF Shapes, Stages, OthersRest, KindInv
  <2>2. CASE /\ pc' = [pc EXCEPT ![c] = "done"]
             /\ \E H \in Nearest(c) : hits' = [hits EXCEPT ![c] = H]
    <3>1. PICK H \in Nearest(c) : hits' = [hits EXCEPT ![c] = H]
      BY <2>2
    <3>2. H \subseteq Call /\ Cardinality(H) <= Limit /\ (Cardinality(H) < Limit => H = Searched(c))
      BY NearestFacts
    <3>3. hits'[c] = H /\ hits' \in [Call -> SUBSET Call]
      BY <3>1, <3>2 DEF Shapes
    <3>4. QED
      BY <1>1, <2>2, <3>1, <3>2, <3>3 DEF Shapes, Stages, OthersRest
  <2>3. QED
    BY <1>1, <2>1, <2>2
<1>4. Shapes'
  BY <1>1, <1>3 DEF Shapes
<1>5. KindInv'
  BY <1>1, <1>2, <1>3, KindsDiffer, MoveKeepsKindInv DEF KindInv, QueueStages, VectorStages
<1>6. ChannelInv' /\ QueueInv'
  BY <1>1, <1>3, VectorCallKeepsQueueInv DEF channelVars, LockedStages
<1>7. CollectionInv'
  BY <1>1, <1>3 DEF CollectionInv, OthersRest
<1>8. Indexed' = Indexed
  BY <1>1, <1>3 DEF Indexed, OthersRest
<1>9. PointsInv'
  BY <1>1, <1>8 DEF PointsInv, Searched
<1>10. IndexedIsFound'
  <2>1. preceding[c].indexed \subseteq Searched(c)
    BY DEF PointsInv
  <2>2. QED
    BY <1>1, <1>3, <2>1 DEF IndexedIsFound, OthersRest
<1>11. QED
  BY <1>4, <1>5, <1>6, <1>7, <1>9, <1>10

-----------------------------------------------------------------------------
(* The broker *)

(* The calls and the vector store do not notice the broker: what they know *)
(* depends on nothing that it changes.                                     *)
LEMMA BrokerKeepsCalls ==
  ASSUME IInv, UNCHANGED <<pc, call, preceding, channel, vectorVars>>
  PROVE  KindInv' /\ CollectionInv' /\ PointsInv' /\ IndexedIsFound'
<1> USE DEF IInv
<1>1. UNCHANGED <<pc, call, preceding, channel, ensured, collection, points, hits>>
  BY DEF vectorVars
<1>2. KindInv'
  BY <1>1 DEF KindInv
<1>3. CollectionInv'
  BY <1>1 DEF CollectionInv
<1>4. PointsInv'
  BY <1>1 DEF PointsInv, Indexed, Searched
<1>5. IndexedIsFound'
  BY <1>1 DEF IndexedIsFound
<1>6. QED
  BY <1>2, <1>3, <1>4, <1>5

(* A restart loses every channel: each process may open one more.          *)
LEMMA BrokerRestartKeepsIInv ==
  ASSUME IInv, BrokerRestart
  PROVE  IInv'
<1> USE DEF IInv, LockedStages
<1>1. /\ restarts' = restarts + 1
      /\ channels' = [ch \in DOMAIN channels |-> [channels[ch] EXCEPT !.open = FALSE]]
      /\ UNCHANGED <<pc, call, preceding, channel, lock, cached, declared>>
      /\ UNCHANGED <<ensured, collection, points, hits>>
      /\ queue' = queue
  BY DEF BrokerRestart, callVars, vectorVars, Shapes
<1>2. /\ Len(channels) \in Nat /\ DOMAIN channels = 1 .. Len(channels)
      /\ \A ch \in 1 .. Len(channels) : channels[ch] \in ChannelRecord
  BY ChannelsFacts
<1>3. /\ channels' \in [1 .. Len(channels) -> ChannelRecord]
      /\ \A ch \in 1 .. Len(channels) : channels'[ch].process = channels[ch].process
  BY <1>1, <1>2 DEF ChannelRecord
<1>4. channels' \in Seq(ChannelRecord)
  BY <1>2, <1>3, SeqDef
<1>5. Len(channels') = Len(channels) /\ DOMAIN channels' = DOMAIN channels
  BY <1>2, <1>3, <1>4, LenProperties
<1>6. Shapes'
  BY <1>1, <1>4, <1>5 DEF Shapes, ChannelRecord
<1>7. \A p \in Process : ChannelsOf(p)' = ChannelsOf(p)
  BY <1>2, <1>3, <1>5 DEF ChannelsOf
<1>8. \A p \in Process : Cardinality(ChannelsOf(p)) \in Nat
  <2>1. ASSUME NEW p \in Process PROVE Cardinality(ChannelsOf(p)) \in Nat
    <3>1. ChannelsOf(p) \subseteq 1 .. Len(channels)
      BY <1>2 DEF ChannelsOf
    <3>2. IsFiniteSet(1 .. Len(channels))
      BY <1>2, FS_Interval
    <3>3. QED
      BY <3>1, <3>2, FS_Subset, FS_CardinalityType
  <2>2. QED
    BY <2>1
<1>9. \A p \in Process : /\ Cardinality(ChannelsOf(p)') <= restarts'
                         /\ Cardinality(ChannelsOf(p)') <= 1 + restarts'
  BY <1>1, <1>7, <1>8 DEF ChannelInv, Shapes
<1>10. \A p \in Process : HasLostAll(p)'
  BY <1>9 DEF HasLostAll
<1>11. ASSUME NEW d \in Call, pc'[d] \in LockedStages
       PROVE  lock'[ProcessOf(d)'] = d /\ HasLostAll(ProcessOf(d))'
  <2>1. PICK q \in Process : q = ProcessOf(d)
    BY <1>1, <1>11, KindsDiffer DEF KindInv, QueueStages, ProcessOf
  <2>2. lock[q] = d
    BY <1>1, <1>11, <2>1 DEF ChannelInv
  <2>3. ProcessOf(d)' = q
    BY <1>1, <2>1 DEF ProcessOf
  <2>4. Cardinality(ChannelsOf(q)') <= restarts'
    BY <1>9
  <2>5. QED
    BY <1>1, <2>2, <2>3, <2>4 DEF HasLostAll, ChannelsOf
<1>12. ChannelInv'
  BY <1>9, <1>10, <1>11 DEF ChannelInv
<1>13. QueueInv'
  BY <1>1 DEF QueueInv
<1>14. QED
  BY <1>1, <1>6, <1>12, <1>13, BrokerKeepsCalls DEF vectorVars

(* A channel that recovers is one the process has, not one more.           *)
LEMMA RecoverKeepsIInv ==
  ASSUME IInv, NEW ch, Recover(ch)
  PROVE  IInv'
<1> USE DEF IInv, LockedStages
<1>1. /\ ch \in DOMAIN channels /\ channels' = [channels EXCEPT ![ch].open = TRUE]
      /\ UNCHANGED <<pc, call, preceding, channel, lock, cached, declared, queue, restarts>>
      /\ UNCHANGED <<ensured, collection, points, hits>>
  BY DEF Recover, callVars, vectorVars
<1>2. /\ Len(channels) \in Nat /\ DOMAIN channels = 1 .. Len(channels)
      /\ \A n \in 1 .. Len(channels) : channels[n] \in ChannelRecord
      /\ channels \in Seq(ChannelRecord)
  BY ChannelsFacts
<1>3. /\ channels' \in [1 .. Len(channels) -> ChannelRecord]
      /\ \A n \in 1 .. Len(channels) : /\ channels'[n].process = channels[n].process
                                       /\ channels[n].open => channels'[n].open
  <2>1. channels = [n \in 1 .. Len(channels) |-> channels[n]]
    BY <1>2, LenProperties
  <2>2. channels' = [n \in 1 .. Len(channels) |->
                       IF n = ch THEN [channels[n] EXCEPT !.open = TRUE] ELSE channels[n]]
    BY <1>1, <1>2, <2>1
  <2>3. QED
    BY <1>2, <2>2 DEF ChannelRecord
<1>4. channels' \in Seq(ChannelRecord)
  BY <1>2, <1>3, SeqDef
<1>5. Len(channels') = Len(channels) /\ DOMAIN channels' = DOMAIN channels
  BY <1>2, <1>3, <1>4, LenProperties
<1>6. Shapes'
  BY <1>1, <1>4, <1>5 DEF Shapes, ChannelRecord
<1>7. \A p \in Process : ChannelsOf(p)' = ChannelsOf(p)
  BY <1>2, <1>3, <1>5 DEF ChannelsOf
<1>8. \A p \in Process : HasLostAll(p)' = HasLostAll(p)
  BY <1>1, <1>7 DEF HasLostAll
<1>9. ASSUME NEW p \in Process, ~IsOpen(cached[p])'
      PROVE  ~IsOpen(cached[p])
  <2>1. cached[p] \in 0 .. Len(channels)
    BY DEF Shapes
  <2>2. QED
    BY <1>1, <1>2, <1>3, <1>9, <2>1 DEF IsOpen
<1>10. ASSUME NEW d \in Call, pc'[d] \in LockedStages
       PROVE  lock'[ProcessOf(d)'] = d /\ HasLostAll(ProcessOf(d))'
  <2>1. PICK q \in Process : q = ProcessOf(d)
    BY <1>1, <1>10, KindsDiffer DEF KindInv, QueueStages, ProcessOf
  <2>2. lock[q] = d /\ Cardinality(ChannelsOf(q)) <= restarts
    BY <1>1, <1>10, <2>1 DEF ChannelInv, HasLostAll
  <2>3. ProcessOf(d)' = q
    BY <1>1, <2>1 DEF ProcessOf
  <2>4. Cardinality(ChannelsOf(q)') <= restarts'
    BY <1>1, <1>7, <2>2
  <2>5. QED
    BY <1>1, <2>2, <2>3, <2>4 DEF HasLostAll, ChannelsOf
<1>11. ChannelInv'
  BY <1>1, <1>7, <1>8, <1>9, <1>10 DEF ChannelInv
<1>12. QueueInv'
  BY <1>1 DEF QueueInv
<1>13. QED
  BY <1>1, <1>6, <1>11, <1>12, BrokerKeepsCalls DEF vectorVars

(* A declared queue is durable, whether or not the reply arrives.          *)
LEMMA BrokerDeclaresKeepsIInv ==
  ASSUME IInv, NEW c \in Call, BrokerDeclares(c)
  PROVE  IInv'
<1> USE DEF IInv
<1>1. /\ queue' = "durable"
      /\ UNCHANGED <<pc, call, preceding, channel, lock, channels, cached, declared, restarts>>
      /\ UNCHANGED <<ensured, collection, points, hits>>
  BY DEF BrokerDeclares, callVars, vectorVars
<1>2. Shapes'
  BY <1>1 DEF Shapes
<1>3. ChannelInv' /\ QueueInv'
  BY <1>1 DEF ChannelInv, QueueInv, HasLostAll, ChannelsOf, IsOpen, ProcessOf
<1>4. QED
  BY <1>1, <1>2, <1>3, BrokerKeepsCalls DEF vectorVars

-----------------------------------------------------------------------------
(* The invariant *)

LEMMA InitIInv == CachesInit => IInv
<1> SUFFICES ASSUME CachesInit PROVE IInv
  OBVIOUS
<1> USE DEF CachesInit
<1>1. channels \in Seq(ChannelRecord) /\ Len(channels) = 0 /\ DOMAIN channels = {}
  OBVIOUS
<1>2. Shapes
  <2>1. /\ pc \in [Call -> Stages] /\ call \in [Call -> {NoWork} \cup EnqueueCall \cup VectorCall]
        /\ channel \in [Call -> 0 .. Len(channels)] /\ hits \in [Call -> SUBSET Call]
    BY <1>1 DEF Stages
  <2>2. preceding \in [Call -> [collection : BOOLEAN, indexed : SUBSET Call]]
    OBVIOUS
  <2>3. /\ lock \in [Process -> Call \cup {NoCall}] /\ cached \in [Process -> 0 .. Len(channels)]
        /\ declared \in [Process -> SUBSET Address]
    BY <1>1
  <2>4. QED
    BY <1>1, <2>1, <2>2, <2>3 DEF Shapes, ChannelRecord
<1>3. Cardinality({}) = 0
  BY FS_EmptySet
<1>4. KindInv
  BY <1>3, KindsDiffer, LimitAssumption DEF KindInv, QueueStages, VectorStages
<1>5. \A p \in Process : ChannelsOf(p) = {}
  BY <1>1 DEF ChannelsOf
<1>6. ChannelInv
  <2>1. \A p \in Process : Cardinality(ChannelsOf(p)) = 0
    BY <1>3, <1>5
  <2>2. \A p \in Process : HasLostAll(p)
    BY <2>1 DEF HasLostAll
  <2>3. QED
    BY <2>1, <2>2 DEF ChannelInv, LockedStages
<1>7. QueueInv /\ CollectionInv /\ PointsInv /\ IndexedIsFound
  BY DEF QueueInv, CollectionInv, PointsInv, Indexed, IndexedIsFound
<1>8. QED
  BY <1>2, <1>4, <1>6, <1>7 DEF IInv

LEMMA CallStepKeepsIInv ==
  ASSUME IInv, NEW c \in Call, CallStep(c)
  PROVE  IInv'
<1>1. CASE TakeLock(c)
  BY <1>1, TakeLockKeepsIInv
<1>2. CASE Connect(c) \/ OpenChannel(c)
  BY <1>2, ConnectKeepsIInv, OpenChannelKeepsIInv
<1>3. CASE ConnectFails(c) \/ DeclareQueue(c) \/ Publish(c) \/ ChannelFails(c)
  BY <1>3, PublishingKeepsIInv
<1>4. CASE Embed(c) \/ CollectionExists(c) \/ CreateCollection(c)
  BY <1>4, EnsureKeepsIInv
<1>5. CASE IndexChunk(c) \/ VectorCallFails(c)
  BY <1>5, UseKeepsIInv
<1>6. CASE Search(c)
  BY <1>6, SearchKeepsIInv
<1>7. QED
  BY <1>1, <1>2, <1>3, <1>4, <1>5, <1>6 DEF CallStep

LEMMA NextIInv == IInv /\ [CachesNext]_vars => IInv'
<1> SUFFICES ASSUME IInv, [CachesNext]_vars PROVE IInv'
  OBVIOUS
<1>1. CASE UNCHANGED vars
  <2>1. UNCHANGED callVars /\ UNCHANGED channelVars /\ UNCHANGED vectorVars
    BY <1>1 DEF vars
  <2>2. Shapes' /\ KindInv'
    BY <2>1 DEF callVars, channelVars, vectorVars, IInv, Shapes, KindInv
  <2>3. ChannelInv' /\ QueueInv'
    BY <2>1 DEF callVars, channelVars, IInv, ChannelInv, QueueInv, HasLostAll, ChannelsOf,
                IsOpen, ProcessOf
  <2>4. CollectionInv' /\ PointsInv' /\ IndexedIsFound'
    BY <2>1 DEF callVars, vectorVars, IInv, CollectionInv, PointsInv, IndexedIsFound,
                Indexed, Searched
  <2>5. QED
    BY <2>2, <2>3, <2>4 DEF IInv
<1>2. CASE \E c \in Call : CallStep(c)
  BY <1>2, CallStepKeepsIInv
<1>3. CASE \E c \in Call, p \in Process : Enqueue(c, p)
  BY <1>3, EnqueueKeepsIInv
<1>4. CASE \E c \in Call, t \in Tenant : BeginVectorCall(c, "index", Worker, t)
  BY <1>4, BeginVectorCallKeepsIInv, WorkerAssumption
<1>5. CASE \E c \in Call, t \in Tenant, p \in Process \ {Worker} :
             BeginVectorCall(c, "search", p, t)
  BY <1>5, BeginVectorCallKeepsIInv
<1>6. CASE BrokerRestart
  BY <1>6, BrokerRestartKeepsIInv
<1>7. CASE \E ch \in 1 .. Len(channels) : Recover(ch)
  BY <1>7, RecoverKeepsIInv
<1>8. CASE \E c \in Call : BrokerDeclares(c)
  BY <1>8, BrokerDeclaresKeepsIInv
<1>9. QED
  BY <1>1, <1>2, <1>3, <1>4, <1>5, <1>6, <1>7, <1>8 DEF CachesNext

(* In every reachable state, however the calls of all processes interleave *)
(* and whenever the broker restarts, the invariant holds.                  *)
THEOREM Invariance == CachesSpec => []IInv
BY InitIInv, NextIInv, PTL DEF CachesSpec

-----------------------------------------------------------------------------
(* What follows from it *)

(* The variables have their types, and a call awaits what its kind awaits. *)
THEOREM TypeCorrect == CachesSpec => []CachesTypeOK
<1>1. IInv => CachesTypeOK
  <2> SUFFICES ASSUME IInv PROVE CachesTypeOK
    OBVIOUS
  <2> USE DEF IInv
  <2>1. ASSUME NEW c \in Call
        PROVE  \/ call[c] = NoWork /\ pc[c] \in {"new", "done", "failed"}
               \/ call[c] \in [kind : {"enqueue"}, process : Process] /\ Active(c)
               \/ call[c] \in [kind : {"index", "search"}, process : Process, tenant : Tenant]
    <3>1. pc[c] \in Stages /\ call[c] \in {NoWork} \cup EnqueueCall \cup VectorCall
      BY DEF Shapes
    <3>2. CASE call[c] = NoWork
      BY <3>1, <3>2, KindsDiffer DEF KindInv, Stages, QueueStages, VectorStages
    <3>3. CASE call[c] \in EnqueueCall
      BY <3>3 DEF KindInv, Active, QueueStages, EnqueueCall
    <3>4. QED
      BY <3>1, <3>2, <3>3 DEF VectorCall
  <2>2. \A c \in Call : Cardinality(hits[c]) <= Limit /\ (hits[c] # {} => pc[c] = "done")
    BY DEF KindInv
  <2>3. QED
    BY <2>1, <2>2 DEF CachesTypeOK, Shapes
<1>2. QED
  BY <1>1, Invariance, PTL

(* "They all share one AMQP connection": a process opens one channel, and  *)
(* one more at most for each restart of the broker, because a call that    *)
(* connects holds the lock and has found every earlier channel lost.       *)
THEOREM OneChannelPerLossHolds == CachesSpec => []OneChannelPerLoss
<1>1. IInv => OneChannelPerLoss
  BY DEF IInv, ChannelInv, ChannelsOf, OneChannelPerLoss
<1>2. QED
  BY <1>1, Invariance, PTL

(* No job is published to a queue the broker does not have, although the   *)
(* cache of declared queues outlives channels and restarts.                *)
THEOREM PublishedToAQueueHolds == CachesSpec => []PublishedToAQueue
<1>1. IInv => PublishedToAQueue
  BY DEF IInv, QueueInv, PublishedToAQueue
<1>2. QED
  BY <1>1, Invariance, PTL

(* No process takes a collection for existing that does not, whatever      *)
(* replies of the vector store were lost.                                  *)
THEOREM EnsuredExistsHolds == CachesSpec => []EnsuredExists
<1>1. IInv => EnsuredExists
  BY DEF IInv, CollectionInv, EnsuredExists
<1>2. QED
  BY <1>1, Invariance, PTL

(* No call that began after the collection was created asks for its        *)
(* creation, which would be refused.                                       *)
THEOREM RefusedOnlyInRaceHolds == CachesSpec => []RefusedOnlyInRace
<1>1. IInv => RefusedOnlyInRace
  BY DEF IInv, CollectionInv, RefusedOnlyInRace
<1>2. QED
  BY <1>1, Invariance, PTL

(* A search finds every chunk of its tenant indexed before it began,       *)
(* unless it returns as many as it may.                                    *)
THEOREM IndexedIsFoundHolds == CachesSpec => []IndexedIsFound
<1>1. IInv => IndexedIsFound
  BY DEF IInv
<1>2. QED
  BY <1>1, Invariance, PTL
=============================================================================
