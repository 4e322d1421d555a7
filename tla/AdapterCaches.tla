---------------------------- MODULE AdapterCaches ----------------------------
(***************************************************************************)
(* The module-level caches of the adapters, which the calls of a process   *)
(* share and each process has its own of: the AMQP channel and the queues  *)
(* declared over it (rabbitmq_job_queue.py), the collections known to      *)
(* exist (qdrant_repository.py).  The calls run on one event loop: each    *)
(* action is what one does from an await to the next one.                  *)
(*                                                                         *)
(* Three kinds of calls use them: the enqueueing of a job, the indexing of *)
(* a chunk and a search.  The broker may restart, which loses its          *)
(* connections and the queues that are not durable.  A lost channel        *)
(* recovers (connect_robust) or does not; while it has not the adapter     *)
(* takes it for closed.                                                    *)
(***************************************************************************)
EXTENDS Naturals, Sequences, FiniteSets, FiniteSetsExt

CONSTANTS
  Process,      \* the processes that hold caches
  Worker,       \* the process that does one thing at a time
  MaxCalls,     \* bound: calls that are made
  Tenant,
  Limit,        \* top_k of a search
  MaxRestarts   \* bound: restarts of the broker

ASSUME WorkerAssumption == Worker \in Process
ASSUME CallsAssumption  == MaxCalls \in Nat
ASSUME LimitAssumption  == Limit \in Nat \ {0}

VARIABLES
  pc,          \* pc[c]: what the call awaits
  call,        \* call[c]: what it is, in which process, for which tenant
  channel,     \* channel[c]: the channel it was given, 0 before
  lock,        \* lock[p]: _lock, the call that holds it, or none
  channels,    \* every channel opened, in the order they were
  cached,      \* cached[p]: _channel_cache, 0 when empty
  declared,    \* declared[p]: _declared_queues, the ids of their channels
  queue,       \* the broker's queue: "none", "durable" or "transient"
  restarts,    \* how often the broker has restarted
  ensured,     \* the processes whose _ensured_collections has the collection
  collection,  \* whether the collection exists
  points,      \* the points in it, each named after the call that indexed it
  hits,        \* hits[c]: the points the search returned
  preceding    \* preceding[c]: what was so when the call began

callVars    == <<pc, call, preceding>>
channelVars == <<channel, lock, channels, cached, declared, queue, restarts>>
vectorVars  == <<ensured, collection, points, hits>>
vars        == <<callVars, channelVars, vectorVars>>

(* The calls, numbered as they begin. *)
Call   == 1 .. MaxCalls
NoCall == 0
NoWork == [kind |-> "none"]

(* What id() of a channel may be, numbered as a process meets them. *)
Address == 1 .. MaxRestarts + 1

Stages == {"new", "lock", "connect", "open", "declare", "publish", "embed", "exists",
           "create", "use", "done", "failed"}

Active(c) == pc[c] \notin {"new", "done", "failed"}

CachesTypeOK ==
  /\ pc \in [Call -> Stages]
  /\ \A c \in Call :
       \/ call[c] = NoWork /\ pc[c] \in {"new", "done", "failed"}
       \/ call[c] \in [kind : {"enqueue"}, process : Process] /\ Active(c)
       \/ call[c] \in [kind : {"index", "search"}, process : Process, tenant : Tenant]
  /\ \A c \in Call : channel[c] \in 0 .. Len(channels)
  /\ lock \in [Process -> Call \cup {NoCall}]
  /\ channels \in Seq([process : Process, address : Address, open : BOOLEAN])
  /\ \A p \in Process : cached[p] \in 0 .. Len(channels) /\ declared[p] \subseteq Address
  /\ queue \in {"none", "durable", "transient"}
  /\ ensured \subseteq Process /\ points \subseteq Call
  /\ \A c \in Call : Cardinality(hits[c]) <= Limit /\ (hits[c] # {} => pc[c] = "done")

CachesInit ==
  /\ pc       = [c \in Call |-> "new"]
  /\ call     = [c \in Call |-> NoWork]
  /\ channel  = [c \in Call |-> 0]
  /\ lock     = [p \in Process |-> NoCall]
  /\ channels = <<>>
  /\ cached   = [p \in Process |-> 0]
  /\ declared = [p \in Process |-> {}]
  /\ queue    = "none"
  /\ restarts = 0
  /\ ensured = {} /\ collection = FALSE /\ points = {}
  /\ hits      = [c \in Call |-> {}]
  /\ preceding = [c \in Call |-> [collection |-> FALSE, indexed |-> {}]]

-----------------------------------------------------------------------------

ProcessOf(c) == call[c].process

Goto(c, stage) == pc' = [pc EXCEPT ![c] = stage]

(* An enqueueing ends: its channel is not held any longer. *)
End(c, stage) ==
  /\ Goto(c, stage)
  /\ call'    = [call EXCEPT ![c] = NoWork]
  /\ channel' = [channel EXCEPT ![c] = 0]

IsOpen(ch) == ch # 0 /\ channels[ch].open

(* A request, or a job of the worker, which indexes and, when it fails,    *)
(* enqueues the retry.                                                     *)
Begin(c, new) ==
  /\ pc[c] = "new"
  /\ \A d \in Call : d < c => pc[d] # "new"
  /\ new.process = Worker => \A d \in Call : Active(d) => ProcessOf(d) # Worker
  /\ call' = [call EXCEPT ![c] = new]

-----------------------------------------------------------------------------
(* RabbitMQJobQueue *)

(* The channel is there: what _ensure_queue does before it awaits. *)
Proceed(c, p, ch, a) ==
  /\ channel' = [channel EXCEPT ![c] = ch]
  /\ Goto(c, IF a \in declared[p] THEN "publish" ELSE "declare")

(* The cached channel, used again. *)
Reuse(c, p) == Proceed(c, p, cached[p], channels[cached[p]].address)

(* enqueue, and _get_channel up to the lock *)
Enqueue(c, p) ==
  /\ Begin(c, [kind |-> "enqueue", process |-> p])
  /\ IF IsOpen(cached[p])
       THEN Reuse(c, p)
       ELSE Goto(c, "lock") /\ UNCHANGED channel
  /\ UNCHANGED <<preceding, lock, channels, cached, declared, queue, restarts, vectorVars>>

\* mutant: the cache is not looked at again under the lock
TakeLockOnly(c) ==
  /\ pc[c] = "lock"
  /\ lock[ProcessOf(c)] = NoCall
  /\ lock' = [lock EXCEPT ![ProcessOf(c)] = c]
  /\ Goto(c, "connect")
  /\ UNCHANGED <<call, preceding, channel, channels, cached, declared, queue, restarts, vectorVars>>

(* async with _lock, and the second look at the cache *)
TakeLock(c) ==
  LET p == ProcessOf(c)
  IN  /\ pc[c] = "lock"
      /\ lock[p] = NoCall
      /\ IF IsOpen(cached[p])
           THEN Reuse(c, p) /\ UNCHANGED lock
           ELSE Goto(c, "connect") /\ lock' = [lock EXCEPT ![p] = c] /\ UNCHANGED channel
      /\ UNCHANGED <<call, preceding, channels, cached, declared, queue, restarts, vectorVars>>

(* The channel is referred to, by the cache or by a call. *)
Alive(ch) == \/ \E p \in Process : cached[p] = ch
             \/ \E c \in Call : channel[c] = ch

(* id() is that of no other channel of the process which is alive. *)
InUse(p, a) ==
  \E ch \in DOMAIN channels :
    channels[ch].process = p /\ channels[ch].address = a /\ Alive(ch)

NewAddresses(p) ==
  {a \in Address : /\ ~InUse(p, a)
                  /\ \A b \in 1 .. a - 1 : \E ch \in DOMAIN channels :
                       channels[ch].process = p /\ channels[ch].address = b}

(* connect_robust: the lock is kept. *)
Connect(c) ==
  /\ pc[c] = "connect"
  /\ Goto(c, "open")
  /\ UNCHANGED <<call, preceding, channelVars, vectorVars>>

(* connection.channel(), which goes into the cache *)
OpenChannel(c) ==
  LET p  == ProcessOf(c)
      ch == Len(channels) + 1
  IN  /\ pc[c] = "open"
      /\ \E a \in NewAddresses(p) :
           /\ channels' = Append(channels, [process |-> p, address |-> a, open |-> TRUE])
           /\ Proceed(c, p, ch, a)
      /\ cached' = [cached EXCEPT ![p] = ch]
      /\ lock'   = [lock EXCEPT ![p] = NoCall]
      /\ UNCHANGED <<call, preceding, declared, queue, restarts, vectorVars>>

\* mutant: a connection that fails keeps the lock
ConnectFailsLocked(c) ==
  /\ pc[c] \in {"connect", "open"}
  /\ End(c, "failed")
  /\ UNCHANGED <<preceding, lock, channels, cached, declared, queue, restarts, vectorVars>>

(* The broker cannot be reached, or not any longer.  A connection without  *)
(* a channel is in no cache and is left to itself.                         *)
ConnectFails(c) ==
  /\ pc[c] \in {"connect", "open"}
  /\ lock' = [lock EXCEPT ![ProcessOf(c)] = NoCall]
  /\ End(c, "failed")
  /\ UNCHANGED <<preceding, channels, cached, declared, queue, restarts, vectorVars>>

\* mutant: the queue is declared without durable=True
DeclareTransient(c) ==
  /\ pc[c] = "declare"
  /\ IsOpen(channel[c])
  /\ queue'    = IF queue = "none" THEN "transient" ELSE queue
  /\ declared' = [declared EXCEPT ![ProcessOf(c)] = @ \cup {channels[channel[c]].address}]
  /\ Goto(c, "publish")
  /\ UNCHANGED <<call, preceding, channel, lock, channels, cached, restarts, vectorVars>>

(* The broker declares the queue; the reply is on its way, or lost when    *)
(* the channel is before it arrives.                                       *)
BrokerDeclares(c) ==
  /\ pc[c] = "declare"
  /\ IsOpen(channel[c])
  /\ queue' = "durable"
  /\ UNCHANGED <<callVars, channel, lock, channels, cached, declared, restarts, vectorVars>>

(* It is declared, if it has not been, and the reply is there. *)
DeclareQueue(c) ==
  /\ pc[c] = "declare"
  /\ IsOpen(channel[c])
  /\ queue'    = "durable"
  /\ declared' = [declared EXCEPT ![ProcessOf(c)] = @ \cup {channels[channel[c]].address}]
  /\ Goto(c, "publish")
  /\ UNCHANGED <<call, preceding, channel, lock, channels, cached, restarts, vectorVars>>

(* The message is stored in the queue, or returned when there is none. *)
Publish(c) ==
  /\ pc[c] = "publish"
  /\ IsOpen(channel[c])
  /\ End(c, IF queue = "none" THEN "failed" ELSE "done")
  /\ UNCHANGED <<preceding, lock, channels, cached, declared, queue, restarts, vectorVars>>

(* The connection was lost: the awaited reply never comes, and raises,     *)
(* whether or not the message is stored.                                   *)
ChannelFails(c) ==
  /\ pc[c] \in {"declare", "publish"}
  /\ ~IsOpen(channel[c])
  /\ End(c, "failed")
  /\ UNCHANGED <<preceding, lock, channels, cached, declared, queue, restarts, vectorVars>>

-----------------------------------------------------------------------------
(* FastEmbedEmbeddingProvider and QdrantVectorRepository *)

Indexed == {d \in Call : pc[d] = "done" /\ call[d].kind = "index"}

(* The query or the chunks are embedded first: _get_model at once, the     *)
(* embedding in a thread that is awaited.                                  *)
BeginVectorCall(c, kind, p, t) ==
  /\ Begin(c, [kind |-> kind, process |-> p, tenant |-> t])
  /\ Goto(c, "embed")
  /\ preceding' = [preceding EXCEPT ![c] =
       [collection |-> collection, indexed |-> {d \in Indexed : call[d].tenant = t}]]
  /\ UNCHANGED <<channelVars, vectorVars>>

(* Back from the thread: the cache of ensured collections. *)
Embed(c) ==
  /\ pc[c] = "embed"
  /\ Goto(c, IF ProcessOf(c) \in ensured THEN "use" ELSE "exists")
  /\ UNCHANGED <<call, preceding, channelVars, vectorVars>>

\* mutant: the collection is remembered before it is created
CollectionExistsMarking(c) ==
  /\ pc[c] = "exists"
  /\ ensured' = ensured \cup {ProcessOf(c)}
  /\ Goto(c, IF collection THEN "use" ELSE "create")
  /\ UNCHANGED <<call, preceding, channelVars, collection, points, hits>>

\* mutant: the collection is created without asking whether it exists
CollectionExistsUnasked(c) ==
  /\ pc[c] = "exists"
  /\ Goto(c, "create")
  /\ UNCHANGED <<call, preceding, channelVars, vectorVars>>

CollectionExists(c) ==
  /\ pc[c] = "exists"
  /\ IF collection
       THEN Goto(c, "use") /\ ensured' = ensured \cup {ProcessOf(c)}
       ELSE Goto(c, "create") /\ UNCHANGED ensured
  /\ UNCHANGED <<call, preceding, channelVars, collection, points, hits>>

\* mutant: recreate_collection, so that no creation is refused
RecreateCollection(c) ==
  /\ pc[c] = "create"
  /\ collection' = TRUE
  /\ points'     = {}
  /\ ensured'    = ensured \cup {ProcessOf(c)}
  /\ Goto(c, "use")
  /\ UNCHANGED <<call, preceding, channelVars, hits>>

(* Refused when another call has created it in the meantime. *)
CreateCollection(c) ==
  /\ pc[c] = "create"
  /\ IF collection
       THEN Goto(c, "failed") /\ UNCHANGED <<ensured, collection>>
       ELSE /\ Goto(c, "use")
            /\ collection' = TRUE
            /\ ensured'    = ensured \cup {ProcessOf(c)}
  /\ UNCHANGED <<call, preceding, channelVars, points, hits>>

IndexChunk(c) ==
  /\ pc[c] = "use" /\ call[c].kind = "index"
  /\ IF collection
       THEN points' = points \cup {c} /\ Goto(c, "done")
       ELSE UNCHANGED points /\ Goto(c, "failed")
  /\ UNCHANGED <<call, preceding, channelVars, ensured, collection, hits>>

(* filters={"tenant_id": data.tenant_id} *)
Searched(c) == {d \in points : call[d].tenant = call[c].tenant}

\* mutant: limit is not passed on
NearestUnlimited(c) == {Searched(c)}

(* query_points: limit of the points searched, or all when there are fewer. *)
Nearest(c) ==
  kSubset(IF Cardinality(Searched(c)) < Limit THEN Cardinality(Searched(c)) ELSE Limit,
          Searched(c))

Search(c) ==
  /\ pc[c] = "use" /\ call[c].kind = "search"
  /\ IF collection
       THEN (\E H \in Nearest(c) : hits' = [hits EXCEPT ![c] = H]) /\ Goto(c, "done")
       ELSE UNCHANGED hits /\ Goto(c, "failed")
  /\ UNCHANGED <<call, preceding, channelVars, ensured, collection, points>>

(* Qdrant cannot be reached, or its reply is lost: what was asked of it    *)
(* has been done or not, and the caches are left as they were.             *)
VectorCallFails(c) ==
  /\ pc[c] \in {"exists", "create", "use"}
  /\ collection' \in {collection, collection \/ pc[c] = "create"}
  /\ points' \in {points, points \cup {d \in {c} : /\ collection
                                                  /\ pc[c] = "use" /\ call[c].kind = "index"}}
  /\ Goto(c, "failed")
  /\ UNCHANGED <<call, preceding, channelVars, ensured, hits>>

-----------------------------------------------------------------------------
(* The broker and the connections to it *)

BrokerRestart ==
  /\ restarts < MaxRestarts
  /\ restarts' = restarts + 1
  /\ channels' = [ch \in DOMAIN channels |-> [channels[ch] EXCEPT !.open = FALSE]]
  /\ queue'    = IF queue = "transient" THEN "none" ELSE queue
  /\ UNCHANGED <<callVars, channel, lock, cached, declared, vectorVars>>

(* The robust connection of a channel that is still referred to is back.   *)
(* It may as well stay lost.                                               *)
Recover(ch) ==
  /\ ch \in DOMAIN channels /\ ~channels[ch].open /\ Alive(ch)
  /\ channels' = [channels EXCEPT ![ch].open = TRUE]
  /\ UNCHANGED <<callVars, channel, lock, cached, declared, queue, restarts, vectorVars>>

CallStep(c) ==
  \/ TakeLock(c) \/ Connect(c) \/ OpenChannel(c) \/ ConnectFails(c)
  \/ DeclareQueue(c) \/ Publish(c) \/ ChannelFails(c)
  \/ Embed(c) \/ CollectionExists(c) \/ CreateCollection(c)
  \/ IndexChunk(c) \/ Search(c) \/ VectorCallFails(c)

CachesNext ==
  \/ \E c \in Call :
       \/ CallStep(c) \/ BrokerDeclares(c)
       \/ \E p \in Process : Enqueue(c, p)
       \/ \E t \in Tenant :
            \/ BeginVectorCall(c, "index", Worker, t)
            \/ \E p \in Process \ {Worker} : BeginVectorCall(c, "search", p, t)
  \/ BrokerRestart
  \/ \E ch \in 1 .. Len(channels) : Recover(ch)

(* The event loop gets round to every call that is not waiting, and what a *)
(* call awaits answers or fails.                                           *)
CachesSpec ==
  CachesInit /\ [][CachesNext]_vars /\ \A c \in Call : WF_vars(CallStep(c))

-----------------------------------------------------------------------------
(* Properties *)

(* "They all share one AMQP connection" (rabbitmq_job_queue.py:8): however *)
(* many calls find no open channel at once, a process opens one, and one   *)
(* more at most for each time it has lost it.                              *)
OneChannelPerLoss ==
  \A p \in Process :
    Cardinality({ch \in DOMAIN channels : channels[ch].process = p}) <= 1 + restarts

(* No message is published to a queue the broker has not: neither where    *)
(* another call declares it, nor after restarts, nor when a new channel    *)
(* bears the id() of one the queue was declared over.                      *)
PublishedToAQueue ==
  \A c \in Call : pc[c] = "publish" /\ IsOpen(channel[c]) => queue # "none"

(* A process takes no collection for existing that does not. *)
EnsuredExists == ensured # {} => collection

(* Only calls that were in progress when the collection was created can be *)
(* refused its creation: no call that began later asks for it, a process   *)
(* that starts later and a creation whose reply was lost included.         *)
RefusedOnlyInRace ==
  \A c \in Call : preceding[c].collection => pc[c] # "create"

(* What was indexed before a search began is found by it, if it does not   *)
(* return as much as it may: no first use of the collection loses points.  *)
IndexedIsFound ==
  \A c \in Call :
    pc[c] = "done" /\ call[c].kind = "search" /\ Cardinality(hits[c]) < Limit
      => preceding[c].indexed \subseteq hits[c]

(* Every call ends: none waits for ever for the lock of the channel. *)
EveryCallEnds ==
  \A c \in Call : Active(c) ~> ~Active(c)
=============================================================================
