------------------------- MODULE DocumentStoreProofs -------------------------
(***************************************************************************)
(* Theorems about DocumentStore for any number of sessions, however they   *)
(* overlap.                                                                *)
(***************************************************************************)
EXTENDS DocumentStore, FiniteSetTheorems, TLAPS

(* The ingestion of d is over and has left a version in the index. *)
Ingested(d) ==
  /\ jobs[d] # NoJob /\ jobs[d].status = "completed"
  /\ \E v \in VersionsOf(d) : Indexed(d, v)

IsProcessed(r) == r # NoDoc /\ r.status = "processed"

(* A document, its job and its first version appear together, under the    *)
(* name of a session that has ended.                                       *)
RowsInv ==
  /\ \A d \in Session :
       /\ docs[d] # NoDoc => pc[d] = "done"
       /\ jobs[d] # NoJob <=> docs[d] # NoDoc
       /\ docs[d] # NoDoc => docs[d].current_version_id \in VersionsOf(d)
       /\ IsProcessed(docs[d]) => Ingested(d)
  /\ \A v \in Session :
       versions[v] # NoVersion =>
         /\ pc[v] = "done"
         /\ v \in blobs
         /\ docs[versions[v].document_id] # NoDoc

StageInv(s) ==
  /\ op[s] = "none" <=> pc[s] \in {"new", "done"}
  /\ op[s] = "upload" => pc[s] \in {"begun", "stored"}
  /\ op[s] \in {"delete", "patch"} => pc[s] \in {"begun", "read", "flushed"}

UploadInv(s) ==
  op[s] = "upload" =>
    /\ doc[s] = s
    /\ draft[s] # NoVersion
    /\ draft[s].document_id = s
    /\ draft[s].version_number = 1
    /\ pc[s] = "stored" => s \in blobs

(* The number of a new version follows one that is taken, and is itself    *)
(* free once the document's lock is held.                                  *)
AddVersionInv(s) ==
  op[s] = "add_version" =>
    /\ draft[s] # NoVersion
    /\ draft[s].document_id = doc[s]
    /\ pc[s] # "begun" =>
         /\ s \in blobs
         /\ \E n \in NumbersOf(doc[s]) : draft[s].version_number = n + 1
    /\ pc[s] = "flushed" => draft[s].version_number \notin NumbersOf(doc[s])

(* A version that session s may make the active one of its document. *)
Eligible(s, v) ==
  v \in VersionsOf(doc[s]) \/ (op[s] = "add_version" /\ pc[s] # "begun" /\ v = s)

(* What a session holds in memory is a row of its document. *)
MemoryInv(s) ==
  /\ op[s] \in {"add_version", "delete", "patch"} =>
       docs[doc[s]] # NoDoc /\ entity[s] # NoDoc
  /\ op[s] \in {"none", "upload"} => entity[s] = NoDoc
  /\ entity[s] # NoDoc => Eligible(s, entity[s].current_version_id)
  /\ pc[s] \in {"read", "flushed"} => base[s] # NoDoc
  /\ pc[s] = "flushed" => txn[s] # NoDoc /\ Eligible(s, txn[s].current_version_id)

(* The worker's job stays queued while it works, and from the upsert on    *)
(* the version it has read is in the index.                                *)
ProcessInv(s) ==
  op[s] = "process" =>
    /\ jobs[doc[s]] # NoJob /\ jobs[doc[s]].status = "queued"
    /\ pc[s] # "begun" =>
         /\ entity[s] # NoDoc
         /\ Indexed(doc[s], entity[s].current_version_id)

OneProcess == \A s, t \in Session : op[s] = "process" /\ op[t] = "process" => s = t

(* A row is locked by one transaction. *)
LockInv ==
  \A s, t \in Session :
    pc[s] = "flushed" /\ pc[t] = "flushed" /\ doc[s] = doc[t] => s = t

(* The status PROCESSED in the memory of a request is backed by a finished *)
(* ingestion.                                                              *)
StatusInv(s) ==
  op[s] \in {"add_version", "delete", "patch"} =>
    /\ IsProcessed(entity[s]) => Ingested(doc[s])
    /\ pc[s] = "flushed" /\ IsProcessed(txn[s]) => Ingested(doc[s])

SessionInv(s) ==
  /\ StageInv(s)
  /\ UploadInv(s)
  /\ AddVersionInv(s)
  /\ MemoryInv(s)
  /\ ProcessInv(s)
  /\ StatusInv(s)

IInv ==
  /\ StoreTypeOK
  /\ RowsInv
  /\ \A s \in Session : SessionInv(s)
  /\ OneProcess
  /\ LockInv
  /\ NumbersContiguous

-----------------------------------------------------------------------------
(* What every step of any session keeps of the shared state. *)
SharedGrows ==
  /\ blobs \subseteq blobs'
  /\ \A d \in Session :
       /\ docs[d] # NoDoc => docs'[d] # NoDoc
       /\ versions[d] # NoVersion => versions'[d] = versions[d]
       /\ jobs[d] # NoJob /\ jobs[d].status = "completed" =>
            jobs'[d] = jobs[d] /\ index'[d] = index[d]

(* Session t does not move. *)
Resting(t) ==
  /\ op'[t] = op[t] /\ pc'[t] = pc[t] /\ doc'[t] = doc[t]
  /\ draft'[t] = draft[t] /\ entity'[t] = entity[t]
  /\ base'[t] = base[t] /\ txn'[t] = txn[t]

(* A document only gains versions and numbers, and its ingestion once over *)
(* stays in the index.                                                     *)
LEMMA GrowthIsStable ==
  ASSUME StoreTypeOK, SharedGrows, NEW d \in Session
  PROVE  /\ VersionsOf(d) \subseteq VersionsOf(d)'
         /\ NumbersOf(d) \subseteq NumbersOf(d)'
         /\ Ingested(d) => Ingested(d)'
<1>1. \A v \in VersionsOf(d) : v \in VersionsOf(d)' /\ versions'[v] = versions[v]
  BY DEF VersionsOf, SharedGrows
<1>2. NumbersOf(d) \subseteq NumbersOf(d)'
  BY <1>1 DEF NumbersOf
<1>3. ASSUME Ingested(d) PROVE Ingested(d)'
  <2>1. PICK v \in VersionsOf(d) : Indexed(d, v)
    BY <1>3 DEF Ingested
  <2>2. jobs'[d] = jobs[d] /\ index'[d] = index[d]
    BY <1>3 DEF Ingested, SharedGrows
  <2>3. Indexed(d, v)'
    BY <1>1, <2>1, <2>2 DEF Indexed
  <2>4. QED
    BY <1>1, <1>3, <2>2, <2>3 DEF Ingested
<1>4. QED
  BY <1>1, <1>2, <1>3

(* What holds of a session that does not move survives the steps of the    *)
(* others, provided they take neither its number nor its job.              *)
LEMMA RestingKeepsSessionInv ==
  ASSUME StoreTypeOK, SharedGrows, NEW t \in Session, SessionInv(t), Resting(t),
         NEW d \in Session, doc[t] = d,
         op[t] = "add_version" /\ pc[t] = "flushed" => NumbersOf(d)' = NumbersOf(d),
         op[t] = "process" => jobs'[d] = jobs[d] /\ index'[d] = index[d]
  PROVE  SessionInv(t)'
<1> USE DEF SessionInv, Resting
<1>1. /\ VersionsOf(d) \subseteq VersionsOf(d)'
      /\ NumbersOf(d) \subseteq NumbersOf(d)'
  BY GrowthIsStable
<1>2. StageInv(t)' /\ UploadInv(t)'
  BY DEF StageInv, UploadInv, SharedGrows
<1>3. AddVersionInv(t)'
  BY <1>1 DEF AddVersionInv, SharedGrows
<1>4. \A v : Eligible(t, v) => Eligible(t, v)'
  BY <1>1 DEF Eligible
<1>5. MemoryInv(t)'
  BY <1>4 DEF MemoryInv, SharedGrows
<1>6. ProcessInv(t)'
  <2>1. op[t] = "process" /\ pc[t] # "begun" =>
          versions'[entity[t].current_version_id] = versions[entity[t].current_version_id]
    BY DEF MemoryInv, Eligible, SharedGrows, VersionsOf, ProcessInv
  <2>2. QED
    BY <2>1 DEF ProcessInv, Indexed
<1>7. StatusInv(t)'
  BY GrowthIsStable DEF StatusInv
<1>8. QED
  BY <1>2, <1>3, <1>5, <1>6, <1>7

OthersRest(s) == \A t \in Session \ {s} : Resting(t)

(* A step that commits nothing: the tables stay, one session moves on.     *)
LEMMA UncommittedKeepsIInv ==
  ASSUME IInv, NEW s \in Session, OthersRest(s), pc[s] # "done", SharedGrows,
         UNCHANGED tables,
         \A t \in Session \ {s} : op[t] = "process" => index'[doc[t]] = index[doc[t]],
         StoreTypeOK', SessionInv(s)',
         op'[s] = "process" => op[s] = "process" \/ \A t \in Session : op[t] # "process",
         pc'[s] = "flushed" => doc'[s] = doc[s] /\ RowIsFree(doc[s])
  PROVE  IInv'
<1> USE DEF IInv
<1>1. UNCHANGED <<docs, versions, jobs>>
  BY DEF tables
<1>2. \A d \in Session : VersionsOf(d)' = VersionsOf(d) /\ NumbersOf(d)' = NumbersOf(d)
  BY <1>1 DEF VersionsOf, NumbersOf
<1>3. RowsInv'
  <2>1. \A d \in Session : Ingested(d) => Ingested(d)'
    BY GrowthIsStable
  <2>2. \A d \in Session : pc[d] = "done" => pc'[d] = "done"
    BY DEF OthersRest, Resting
  <2>3. QED
    BY <1>1, <1>2, <2>1, <2>2 DEF RowsInv, SharedGrows, IsProcessed
<1>4. ASSUME NEW t \in Session PROVE SessionInv(t)'
  <2>1. CASE t = s
    BY <2>1
  <2>2. CASE t # s
    <3>1. Resting(t) /\ SessionInv(t) /\ doc[t] \in Session
      BY <2>2 DEF OthersRest, StoreTypeOK
    <3>2. QED
      BY <1>1, <1>2, <2>2, <3>1, RestingKeepsSessionInv
  <2>3. QED
    BY <2>1, <2>2
<1>5. OneProcess'
  BY DEF OneProcess, OthersRest, Resting
<1>6. LockInv'
  BY DEF LockInv, OthersRest, Resting, RowIsFree
<1>7. NumbersContiguous'
  BY <1>2 DEF NumbersContiguous
<1>8. QED
  BY <1>3, <1>4, <1>5, <1>6, <1>7

(* A session that ends holds nothing and leaves the others alone. *)
LEMMA FinishRests ==
  ASSUME IInv, NEW s \in Session, Finish(s)
  PROVE  /\ OthersRest(s)
         /\ pc'[s] = "done" /\ op'[s] = "none"
         /\ SessionInv(s)'
         /\ OneProcess'
         /\ LockInv'
         /\ op' \in [Session -> Operations]
         /\ pc' \in [Session -> Stages]
         /\ doc' \in [Session -> Session]
         /\ draft' \in [Session -> VersionRow \cup {NoVersion}]
         /\ entity' \in [Session -> DocRow \cup {NoDoc}]
         /\ base' \in [Session -> DocRow \cup {NoDoc}]
         /\ txn' \in [Session -> DocRow \cup {NoDoc}]
<1> USE DEF IInv
<1>1. OthersRest(s)
  BY DEF Finish, Goto, StoreTypeOK, OthersRest, Resting
<1>2. pc'[s] = "done" /\ op'[s] = "none"
  BY DEF Finish, Goto, StoreTypeOK
<1>3. SessionInv(s)'
  BY <1>2 DEF Finish, StoreTypeOK, SessionInv, StageInv, UploadInv, AddVersionInv, MemoryInv, ProcessInv, StatusInv
<1>4. OneProcess' /\ LockInv'
  BY <1>1, <1>2 DEF OneProcess, LockInv, OthersRest, Resting
<1>5. QED
  BY <1>1, <1>2, <1>3, <1>4 DEF Finish, Goto, StoreTypeOK, Operations, Stages

(* The steps that begin a session. *)
LEMMA BeginRests ==
  ASSUME IInv, NEW s \in Session, NEW o \in Operations, NEW d \in Session, Begin(s, o, d),
         \A t \in Session \ {s} : draft'[t] = draft[t] /\ entity'[t] = entity[t]
                                  /\ base'[t] = base[t] /\ txn'[t] = txn[t]
  PROVE  /\ OthersRest(s)
         /\ SharedGrows
         /\ pc[s] # "done" /\ pc'[s] = "begun" /\ op'[s] = o /\ doc'[s] = d
         /\ docs[s] = NoDoc /\ versions[s] = NoVersion
         /\ op' \in [Session -> Operations]
         /\ pc' \in [Session -> Stages]
         /\ doc' \in [Session -> Session]
<1> USE DEF IInv
<1>1. OthersRest(s)
  BY DEF Begin, Goto, StoreTypeOK, OthersRest, Resting
<1>2. pc[s] = "new" /\ pc'[s] = "begun" /\ op'[s] = o /\ doc'[s] = d
  BY DEF Begin, Goto, StoreTypeOK
<1>3. docs[s] = NoDoc /\ versions[s] = NoVersion
  BY <1>2 DEF RowsInv
<1>4. SharedGrows
  BY DEF Begin, SharedGrows, tables, stores
<1>5. QED
  BY <1>1, <1>2, <1>3, <1>4 DEF Begin, Goto, StoreTypeOK, Operations, Stages

LEMMA BeginUploadKeepsIInv ==
  ASSUME IInv, NEW s \in Session, NEW c \in Content, BeginUpload(s, c)
  PROVE  IInv'
<1> USE DEF IInv
<1>1. /\ Begin(s, "upload", s)
      /\ draft' = [draft EXCEPT ![s] = [document_id |-> s, version_number |-> 1, checksum |-> c]]
      /\ UNCHANGED <<entity, base, txn>>
  BY DEF BeginUpload
<1>2. /\ OthersRest(s) /\ SharedGrows
      /\ pc[s] # "done" /\ pc'[s] = "begun" /\ op'[s] = "upload" /\ doc'[s] = s
      /\ op' \in [Session -> Operations]
      /\ pc' \in [Session -> Stages]
      /\ doc' \in [Session -> Session]
  BY <1>1, BeginRests DEF StoreTypeOK, Operations
<1>3. draft'[s] = [document_id |-> s, version_number |-> 1, checksum |-> c] /\ draft'[s] \in VersionRow
  <2>1. 1 \in 1 .. Cardinality(Session)
    BY SessionsAssumption, FS_EmptySet, FS_CardinalityType
  <2>2. QED
    BY <1>1, <2>1 DEF StoreTypeOK, VersionRow
<1>4. StoreTypeOK'
  BY <1>1, <1>2, <1>3 DEF StoreTypeOK, Begin, tables, stores
<1>5. SessionInv(s)'
  <2>1. op[s] = "none" /\ entity[s] = NoDoc
    BY <1>1 DEF Begin, SessionInv, StageInv, MemoryInv
  <2>2. draft'[s] # NoVersion
    BY <1>3, AbsenceAssumption
  <2>3. QED
    BY <1>1, <1>2, <1>3, <2>1, <2>2
       DEF SessionInv, StageInv, UploadInv, AddVersionInv, MemoryInv, ProcessInv, StatusInv
<1>6. QED
  BY <1>1, <1>2, <1>4, <1>5, UncommittedKeepsIInv DEF Begin, stores

LEMMA SaveUploadKeepsIInv ==
  ASSUME IInv, NEW s \in Session, SaveUpload(s)
  PROVE  IInv'
<1> USE DEF IInv
<1>1. /\ op[s] = "upload" /\ pc[s] = "begun" /\ pc'[s] = "stored"
      /\ blobs' = blobs \cup {s}
      /\ UNCHANGED <<docs, versions, jobs, index, op, doc, draft, entity, base, txn>>
      /\ pc' = [pc EXCEPT ![s] = "stored"]
  BY DEF SaveUpload, At, Goto, StoreTypeOK, tables, memory
<1>2. OthersRest(s) /\ SharedGrows
  BY <1>1 DEF OthersRest, Resting, SharedGrows, StoreTypeOK
<1>3. StoreTypeOK'
  BY <1>1 DEF StoreTypeOK, Stages
<1>4. SessionInv(s)'
  BY <1>1 DEF SessionInv, StageInv, UploadInv, AddVersionInv, MemoryInv, ProcessInv, StatusInv
<1>5. QED
  BY <1>1, <1>2, <1>3, <1>4, UncommittedKeepsIInv DEF tables

(* A request on a live document begins from its committed row, as far as   *)
(* the active version and the status PROCESSED go.                         *)
LEMMA BeginRequestKeepsIInv ==
  ASSUME IInv, NEW s \in Session, NEW d \in Session, NEW o \in {"add_version", "delete", "patch"},
         LiveDoc(d), Begin(s, o, d), NEW e \in DocRow, Remember(s, e),
         e.current_version_id = docs[d].current_version_id,
         e.status = "processed" => docs[d].status = "processed",
         draft' \in [Session -> VersionRow \cup {NoVersion}],
         \A t \in Session \ {s} : draft'[t] = draft[t],
         o = "add_version" => draft'[s] # NoVersion /\ draft'[s].document_id = d,
         UNCHANGED <<base, txn>>
  PROVE  IInv'
<1> USE DEF IInv
<1>1. /\ \A t \in Session \ {s} : entity'[t] = entity[t]
      /\ entity' \in [Session -> DocRow \cup {NoDoc}]
      /\ entity'[s] = e /\ e # NoDoc
  BY AbsenceAssumption DEF Remember, StoreTypeOK
<1>2. /\ OthersRest(s) /\ SharedGrows
      /\ pc[s] # "done" /\ pc'[s] = "begun" /\ op'[s] = o /\ doc'[s] = d
      /\ op' \in [Session -> Operations]
      /\ pc' \in [Session -> Stages]
      /\ doc' \in [Session -> Session]
  BY <1>1, BeginRests DEF Operations
<1>3. StoreTypeOK'
  BY <1>1, <1>2 DEF StoreTypeOK, Begin, tables, stores
<1>4. UNCHANGED <<docs, versions, jobs, blobs, index>>
  BY DEF Begin, tables, stores
<1>5. SessionInv(s)'
  <2>1. docs[d] # NoDoc /\ docs[d].current_version_id \in VersionsOf(d)
    BY DEF LiveDoc, RowsInv
  <2>2. IsProcessed(docs[d]) => Ingested(d)
    BY DEF RowsInv
  <2>3. VersionsOf(d)' = VersionsOf(d) /\ Ingested(d)' = Ingested(d)
    BY <1>4 DEF VersionsOf, Ingested, Indexed
  <2>4. MemoryInv(s)'
    BY <1>1, <1>2, <1>4, <2>1, <2>3 DEF MemoryInv, Eligible
  <2>5. StatusInv(s)'
    BY <1>1, <1>2, <2>1, <2>2, <2>3 DEF StatusInv, IsProcessed
  <2>6. QED
    BY <1>1, <1>2, <2>4, <2>5 DEF SessionInv, StageInv, UploadInv, AddVersionInv, ProcessInv
<1>6. QED
  BY <1>2, <1>3, <1>4, <1>5, UncommittedKeepsIInv DEF tables

LEMMA BeginsKeepIInv ==
  ASSUME IInv, NEW s \in Session, NEW d \in Session,
         \/ \E c \in Content : BeginAddVersion(s, d, c)
         \/ BeginDelete(s, d)
         \/ BeginPatch(s, d)
  PROVE  IInv'
<1> USE DEF IInv
<1>1. LiveDoc(d) => docs[d] \in DocRow
  BY DEF LiveDoc, StoreTypeOK
<1>2. CASE \E c \in Content : BeginAddVersion(s, d, c)
  <2>1. PICK c \in Content : BeginAddVersion(s, d, c)
    BY <1>2
  <2> DEFINE v == [document_id |-> d, version_number |-> 1, checksum |-> c]
  <2>2. /\ LiveDoc(d) /\ Begin(s, "add_version", d) /\ Remember(s, docs[d])
        /\ draft' = [draft EXCEPT ![s] = v] /\ UNCHANGED <<base, txn>>
    BY <2>1 DEF BeginAddVersion
  <2>3. 1 \in 1 .. Cardinality(Session)
    BY SessionsAssumption, FS_EmptySet, FS_CardinalityType
  <2>4. v \in VersionRow /\ v # NoVersion /\ v.document_id = d
    BY <2>3, AbsenceAssumption DEF VersionRow
  <2>5. /\ draft' \in [Session -> VersionRow \cup {NoVersion}]
        /\ \A t \in Session \ {s} : draft'[t] = draft[t]
        /\ draft'[s] = v
    BY <2>2, <2>4 DEF StoreTypeOK
  <2>6. QED
    BY <1>1, <2>2, <2>4, <2>5, BeginRequestKeepsIInv
<1>3. CASE BeginDelete(s, d)
  <2> DEFINE e == [docs[d] EXCEPT !.status = "deleted", !.deleted_at = s]
  <2>1. /\ LiveDoc(d) /\ Begin(s, "delete", d) /\ Remember(s, e) /\ UNCHANGED <<draft, base, txn>>
    BY <1>3 DEF BeginDelete
  <2>2. /\ e \in DocRow /\ e.current_version_id = docs[d].current_version_id
        /\ e.status = "deleted"
    BY <1>1, <2>1 DEF DocRow
  <2>3. QED
    BY <2>1, <2>2, BeginRequestKeepsIInv DEF StoreTypeOK
<1>4. CASE BeginPatch(s, d)
  <2> DEFINE e == [docs[d] EXCEPT !.title = s]
  <2>1. /\ LiveDoc(d) /\ Begin(s, "patch", d) /\ Remember(s, e) /\ UNCHANGED <<draft, base, txn>>
    BY <1>4 DEF BeginPatch
  <2>2. /\ e \in DocRow /\ e.current_version_id = docs[d].current_version_id
        /\ e.status = docs[d].status
    BY <1>1, <2>1 DEF DocRow
  <2>3. QED
    BY <2>1, <2>2, BeginRequestKeepsIInv DEF StoreTypeOK
<1>5. QED
  BY <1>2, <1>3, <1>4

LEMMA BeginProcessKeepsIInv ==
  ASSUME IInv, NEW s \in Session, NEW d \in Session, BeginProcess(s, d)
  PROVE  IInv'
<1> USE DEF IInv
<1> DEFINE e == IF LiveDoc(d) THEN docs[d] ELSE NoDoc
<1>1. /\ jobs[d] # NoJob /\ jobs[d].status = "queued"
      /\ \A t \in Session : op[t] # "process"
      /\ Begin(s, "process", d) /\ Remember(s, e) /\ UNCHANGED <<draft, base, txn>>
  BY DEF BeginProcess
<1>2. e \in DocRow \cup {NoDoc} /\ (e # NoDoc => e.current_version_id \in VersionsOf(d))
  BY DEF LiveDoc, StoreTypeOK, RowsInv
<1>3. /\ \A t \in Session \ {s} : entity'[t] = entity[t]
      /\ entity' \in [Session -> DocRow \cup {NoDoc}]
      /\ entity'[s] = e
  BY <1>1, <1>2 DEF Remember, StoreTypeOK
<1>4. /\ OthersRest(s) /\ SharedGrows
      /\ pc[s] # "done" /\ pc'[s] = "begun" /\ op'[s] = "process" /\ doc'[s] = d
      /\ op' \in [Session -> Operations]
      /\ pc' \in [Session -> Stages]
      /\ doc' \in [Session -> Session]
  BY <1>1, <1>3, BeginRests DEF Operations
<1>5. UNCHANGED <<docs, versions, jobs, blobs, index>>
  BY <1>1 DEF Begin, tables, stores
<1>6. StoreTypeOK'
  BY <1>1, <1>3, <1>4, <1>5 DEF StoreTypeOK
<1>7. SessionInv(s)'
  <2>1. VersionsOf(d)' = VersionsOf(d)
    BY <1>5 DEF VersionsOf
  <2>2. MemoryInv(s)'
    BY <1>2, <1>3, <1>4, <2>1 DEF MemoryInv, Eligible
  <2>3. QED
    BY <1>1, <1>4, <1>5, <2>2
       DEF SessionInv, StageInv, UploadInv, AddVersionInv, ProcessInv, StatusInv
<1>8. QED
  BY <1>1, <1>4, <1>5, <1>6, <1>7, UncommittedKeepsIInv DEF tables

(* A document never has more versions than there were sessions.            *)
LEMMA RoomForAVersion ==
  ASSUME IInv, NEW s \in Session, versions[s] = NoVersion, NEW d \in Session,
         NEW n \in NumbersOf(d)
  PROVE  n \in Nat /\ n + 1 \in 1 .. Cardinality(Session)
<1>1. IsFiniteSet(Session) /\ Cardinality(Session) \in Nat
  BY SessionsAssumption, FS_CardinalityType
<1>2. VersionsOf(d) \subseteq Session \ {s}
  BY DEF VersionsOf
<1>3. IsFiniteSet(Session \ {s}) /\ Cardinality(Session \ {s}) = Cardinality(Session) - 1
  BY <1>1, FS_RemoveElement
<1>4. /\ Cardinality(VersionsOf(d)) \in Nat
      /\ Cardinality(VersionsOf(d)) <= Cardinality(Session) - 1
  BY <1>2, <1>3, FS_Subset, FS_CardinalityType
<1>5. n \in 1 .. Cardinality(VersionsOf(d))
  BY DEF IInv, NumbersContiguous
<1>6. QED
  BY <1>1, <1>4, <1>5

LEMMA SaveVersionKeepsIInv ==
  ASSUME IInv, NEW s \in Session, SaveVersion(s)
  PROVE  IInv'
<1> USE DEF IInv
<1>1. /\ op[s] = "add_version" /\ pc[s] = "begun"
      /\ UNCHANGED <<docs, versions, jobs, index, op, doc, base, txn>>
      /\ blobs' = blobs \cup {s}
      /\ pc' = [pc EXCEPT ![s] = "stored"]
      /\ entity' = [entity EXCEPT ![s] = [entity[s] EXCEPT !.current_version_id = s]]
  BY DEF SaveVersion, At, Goto, Remember, tables
<1>2. PICK n \in NumbersOf(doc[s]) : draft' = [draft EXCEPT ![s].version_number = n + 1]
  BY DEF SaveVersion
<1>3. versions[s] = NoVersion /\ doc[s] \in Session
  BY <1>1 DEF RowsInv, StoreTypeOK
<1>4. n + 1 \in 1 .. Cardinality(Session)
  BY <1>3, RoomForAVersion
<1>5. /\ draft[s] \in VersionRow /\ draft[s].document_id = doc[s]
      /\ entity[s] \in DocRow /\ docs[doc[s]] # NoDoc
  BY <1>1 DEF SessionInv, AddVersionInv, MemoryInv, StoreTypeOK
<1>6. /\ draft'[s] = [draft[s] EXCEPT !.version_number = n + 1]
      /\ \A t \in Session \ {s} : draft'[t] = draft[t]
      /\ draft' \in [Session -> VersionRow \cup {NoVersion}]
      /\ draft'[s] # NoVersion /\ draft'[s].document_id = doc[s]
      /\ draft'[s].version_number = n + 1
  BY <1>2, <1>4, <1>5, AbsenceAssumption DEF StoreTypeOK, VersionRow
<1>7. /\ \A t \in Session \ {s} : entity'[t] = entity[t]
      /\ entity' \in [Session -> DocRow \cup {NoDoc}]
      /\ entity'[s] # NoDoc /\ entity'[s].current_version_id = s
      /\ entity'[s].status = entity[s].status
  BY <1>1, <1>5, AbsenceAssumption DEF StoreTypeOK, DocRow
<1>8. pc'[s] = "stored" /\ pc' \in [Session -> Stages]
  BY <1>1 DEF StoreTypeOK, Stages
<1>9. OthersRest(s) /\ SharedGrows
  BY <1>1, <1>6, <1>7 DEF OthersRest, Resting, SharedGrows, StoreTypeOK
<1>10. StoreTypeOK'
  BY <1>1, <1>6, <1>7, <1>8 DEF StoreTypeOK
<1>11. SessionInv(s)'
  <2>1. PICK d \in Session : d = doc[s]
    BY <1>3
  <2>2. MemoryInv(s)'
    BY <1>1, <1>5, <1>7, <1>8 DEF MemoryInv, Eligible
  <2>3. StatusInv(s)'
    <3>1. Ingested(d) => Ingested(d)'
      BY <1>9, GrowthIsStable
    <3>2. entity[s] # NoDoc /\ entity[s].status = "processed" => Ingested(d)
      BY <1>1, <2>1 DEF SessionInv, StatusInv, IsProcessed
    <3>3. op'[s] = "add_version" /\ pc'[s] = "stored" /\ doc'[s] = d
      BY <1>1, <1>8, <2>1
    <3>4. QED
      BY <1>5, <1>7, <3>1, <3>2, <3>3, AbsenceAssumption DEF StatusInv, IsProcessed
  <2>4. AddVersionInv(s)'
    BY <1>1, <1>2, <1>6, <1>8 DEF AddVersionInv, NumbersOf, VersionsOf
  <2>5. QED
    BY <1>1, <1>8, <2>2, <2>3, <2>4
       DEF SessionInv, StageInv, UploadInv, ProcessInv
<1>12. QED
  BY <1>1, <1>8, <1>9, <1>10, <1>11, UncommittedKeepsIInv DEF tables

LEMMA IndexVersionKeepsIInv ==
  ASSUME IInv, NEW s \in Session, IndexVersion(s)
  PROVE  IInv'
<1> USE DEF IInv
<1> DEFINE v == entity[s].current_version_id
<1>1. /\ op[s] = "process" /\ pc[s] = "begun" /\ entity[s] # NoDoc
      /\ UNCHANGED <<docs, versions, jobs, blobs, op, doc, draft, base, txn>>
      /\ pc' = [pc EXCEPT ![s] = "stored"]
      /\ entity' = [entity EXCEPT ![s] = [entity[s] EXCEPT !.status = "processed"]]
      /\ Upsert(doc[s], v)
  BY DEF IndexVersion, At, Goto, Remember, tables
<1>2. PICK d \in Session : d = doc[s]
  BY DEF StoreTypeOK
<1>3. /\ entity[s] \in DocRow /\ v \in VersionsOf(d) /\ v \in Session /\ versions[v] # NoVersion
      /\ jobs[d] # NoJob /\ jobs[d].status = "queued"
  BY <1>1, <1>2 DEF SessionInv, MemoryInv, Eligible, VersionsOf, ProcessInv, StoreTypeOK
<1>4. /\ index'[d] = [i \in ChunkIds |-> IF i <= Chunks[versions[v].checksum] THEN v ELSE index[d][i]]
      /\ \A e \in Session \ {d} : index'[e] = index[e]
      /\ index' \in [Session -> [ChunkIds -> Session \cup {NoVersion}]]
  BY <1>1, <1>2, <1>3 DEF Upsert, StoreTypeOK
<1>5. Chunks[versions[v].checksum] \in 0 .. MaxChunks /\ MaxChunks \in Nat
  BY <1>3, ChunksAssumption DEF StoreTypeOK, VersionRow
<1>6. /\ \A t \in Session \ {s} : entity'[t] = entity[t]
      /\ entity' \in [Session -> DocRow \cup {NoDoc}]
      /\ entity'[s] # NoDoc /\ entity'[s].current_version_id = v
  BY <1>1, <1>3, AbsenceAssumption DEF StoreTypeOK, DocRow
<1>7. pc'[s] = "stored" /\ pc' \in [Session -> Stages]
  BY <1>1 DEF StoreTypeOK, Stages
<1>8. SharedGrows /\ OthersRest(s)
  BY <1>1, <1>3, <1>4, <1>6 DEF SharedGrows, OthersRest, Resting, StoreTypeOK
<1>9. StoreTypeOK'
  BY <1>1, <1>4, <1>6, <1>7 DEF StoreTypeOK
<1>10. \A t \in Session \ {s} : op[t] # "process"
  BY <1>1 DEF OneProcess
<1>11. SessionInv(s)'
  <2>1. Indexed(d, v)'
    BY <1>1, <1>3, <1>4, <1>5 DEF Indexed, ChunkIds
  <2>2. v \in VersionsOf(d)'
    BY <1>1, <1>3 DEF VersionsOf
  <2>3. op'[s] = "process" /\ doc'[s] = d
    BY <1>1, <1>2
  <2>4. ProcessInv(s)'
    BY <1>1, <1>3, <1>6, <2>1, <2>3 DEF ProcessInv
  <2>5. MemoryInv(s)'
    BY <1>6, <1>7, <2>2, <2>3 DEF MemoryInv, Eligible
  <2>6. QED
    BY <1>7, <2>3, <2>4, <2>5 DEF SessionInv, StageInv, UploadInv, AddVersionInv, StatusInv
<1>12. QED
  BY <1>1, <1>7, <1>8, <1>9, <1>10, <1>11, UncommittedKeepsIInv DEF tables

LEMMA ReadAgainKeepsIInv ==
  ASSUME IInv, NEW s \in Session, ReadAgain(s)
  PROVE  IInv'
<1> USE DEF IInv
<1>1. /\ \/ op[s] \in {"delete", "patch"} /\ pc[s] = "begun"
         \/ op[s] \in {"add_version", "process"} /\ pc[s] = "stored"
      /\ UNCHANGED <<docs, versions, jobs, blobs, index, op, doc, draft, entity, txn>>
      /\ base' = [base EXCEPT ![s] = docs[doc[s]]]
      /\ pc' = [pc EXCEPT ![s] = "read"]
  BY DEF ReadAgain, Goto, tables, stores
<1>2. PICK d \in Session : d = doc[s]
  BY DEF StoreTypeOK
<1>3. docs[d] # NoDoc /\ entity[s] # NoDoc
  BY <1>1, <1>2 DEF SessionInv, MemoryInv, ProcessInv, RowsInv
<1>4. /\ base'[s] = docs[d] /\ pc'[s] = "read"
      /\ base' \in [Session -> DocRow \cup {NoDoc}]
      /\ pc' \in [Session -> Stages]
      /\ OthersRest(s)
  BY <1>1, <1>2 DEF StoreTypeOK, Stages, OthersRest, Resting
<1>5. SharedGrows
  BY <1>1 DEF SharedGrows
<1>6. StoreTypeOK'
  BY <1>1, <1>4 DEF StoreTypeOK
<1>7. SessionInv(s)'
  <2>1. VersionsOf(d)' = VersionsOf(d) /\ NumbersOf(d)' = NumbersOf(d)
    BY <1>1 DEF VersionsOf, NumbersOf
  <2>2. Ingested(d) => Ingested(d)'
    BY <1>5, GrowthIsStable
  <2>3. doc'[s] = d /\ op'[s] = op[s] /\ entity'[s] = entity[s] /\ draft'[s] = draft[s]
    BY <1>1, <1>2
  <2>4. StageInv(s)' /\ UploadInv(s)'
    BY <1>1, <1>4, <2>3 DEF SessionInv, StageInv, UploadInv
  <2>5. AddVersionInv(s)'
    BY <1>1, <1>2, <1>4, <2>1, <2>3 DEF SessionInv, AddVersionInv
  <2>6. MemoryInv(s)'
    BY <1>1, <1>2, <1>3, <1>4, <2>1, <2>3 DEF SessionInv, MemoryInv, Eligible
  <2>7. ProcessInv(s)'
    BY <1>1, <1>2, <1>4, <2>3 DEF SessionInv, ProcessInv, Indexed
  <2>8. StatusInv(s)'
    BY <1>1, <1>2, <1>4, <2>2, <2>3 DEF SessionInv, StatusInv, IsProcessed
  <2>9. QED
    BY <2>4, <2>5, <2>6, <2>7, <2>8 DEF SessionInv
<1>8. QED
  BY <1>1, <1>4, <1>5, <1>6, <1>7, UncommittedKeepsIInv DEF tables

(* Each column of a flushed row is the entity's or the committed row's.    *)
LEMMA MergedDocChooses ==
  ASSUME NEW r \in DocRow, NEW e \in DocRow, NEW cur \in DocRow
  PROVE  LET m == MergedDoc(r, e, cur)
         IN  /\ m \in DocRow
             /\ m.current_version_id \in {e.current_version_id, cur.current_version_id}
             /\ m.status \in {e.status, cur.status}
BY DEF MergedDoc, Column, DocRow

LEMMA WriteKeepsIInv ==
  ASSUME IInv, NEW s \in Session, Write(s)
  PROVE  IInv'
<1> USE DEF IInv
<1> DEFINE m == MergedDoc(base[s], Assigned(s), docs[doc[s]])
<1>1. /\ pc[s] = "read" /\ RowIsFree(doc[s]) /\ NumberFree(s)
      /\ UNCHANGED <<docs, versions, jobs, blobs, index, op, doc, draft, entity, base>>
      /\ txn' = [txn EXCEPT ![s] = m]
      /\ pc' = [pc EXCEPT ![s] = "flushed"]
  BY DEF Write, Goto, tables, stores
<1>2. PICK d \in Session : d = doc[s]
  BY DEF StoreTypeOK
<1>3. /\ op[s] \in {"add_version", "delete", "patch", "process"}
      /\ docs[d] \in DocRow /\ entity[s] \in DocRow /\ base[s] \in DocRow
  <2>1. op[s] \in {"add_version", "delete", "patch", "process"}
    BY <1>1 DEF SessionInv, StageInv, StoreTypeOK, Operations
  <2>2. entity[s] # NoDoc /\ base[s] # NoDoc
    BY <1>1, <2>1 DEF SessionInv, MemoryInv, ProcessInv
  <2>3. docs[d] # NoDoc
    BY <1>2, <2>1 DEF SessionInv, MemoryInv, ProcessInv, RowsInv
  <2>4. QED
    BY <2>1, <2>2, <2>3 DEF StoreTypeOK
<1>4. /\ Assigned(s) \in DocRow
      /\ Assigned(s).current_version_id = entity[s].current_version_id
      /\ Assigned(s).status = entity[s].status
  BY <1>3 DEF Assigned, DocRow
<1>5. /\ m \in DocRow /\ m # NoDoc
      /\ m.current_version_id \in {entity[s].current_version_id, docs[d].current_version_id}
      /\ m.status \in {entity[s].status, docs[d].status}
  BY <1>2, <1>3, <1>4, MergedDocChooses, AbsenceAssumption
<1>6. /\ txn'[s] = m /\ pc'[s] = "flushed"
      /\ txn' \in [Session -> DocRow \cup {NoDoc}]
      /\ pc' \in [Session -> Stages]
      /\ OthersRest(s)
  BY <1>1, <1>5 DEF StoreTypeOK, Stages, OthersRest, Resting
<1>7. SharedGrows
  BY <1>1 DEF SharedGrows
<1>8. StoreTypeOK'
  BY <1>1, <1>6 DEF StoreTypeOK
<1>9. SessionInv(s)'
  <2>1. VersionsOf(d)' = VersionsOf(d) /\ NumbersOf(d)' = NumbersOf(d)
    BY <1>1 DEF VersionsOf, NumbersOf
  <2>2. Ingested(d) => Ingested(d)'
    BY <1>7, GrowthIsStable
  <2>3. doc'[s] = d /\ op'[s] = op[s] /\ entity'[s] = entity[s] /\ draft'[s] = draft[s]
        /\ base'[s] = base[s]
    BY <1>1, <1>2
  <2>4. StageInv(s)' /\ UploadInv(s)'
    BY <1>1, <1>6, <2>3 DEF SessionInv, StageInv, UploadInv
  <2>5. AddVersionInv(s)'
    BY <1>1, <1>2, <1>6, <2>1, <2>3 DEF SessionInv, AddVersionInv, NumberFree
  <2>6. MemoryInv(s)'
    <3>1. docs[d].current_version_id \in VersionsOf(d)
      BY <1>3, AbsenceAssumption DEF RowsInv
    <3>2. Eligible(s, entity[s].current_version_id) /\ entity[s] # NoDoc /\ base[s] # NoDoc
      BY <1>3, AbsenceAssumption DEF SessionInv, MemoryInv
    <3>3. op[s] \notin {"none", "upload"} /\ docs'[d] # NoDoc
      BY <1>1, <1>3, AbsenceAssumption
    <3>4. \A v : Eligible(s, v) => v \in VersionsOf(d) \/ (op[s] = "add_version" /\ v = s)
      BY <1>2 DEF Eligible
    <3>5. QED
      BY <1>1, <1>6, <1>5, <2>1, <2>3, <3>1, <3>2, <3>3, <3>4 DEF MemoryInv, Eligible
  <2>7. ProcessInv(s)'
    BY <1>1, <1>2, <1>6, <2>3 DEF SessionInv, ProcessInv, Indexed
  <2>8. StatusInv(s)'
    <3>1. op[s] # "process" =>
            /\ entity[s].status = "processed" => Ingested(d)
            /\ docs[d].status = "processed" => Ingested(d)
      BY <1>2, <1>3, AbsenceAssumption DEF SessionInv, StatusInv, RowsInv, IsProcessed
    <3>2. QED
      BY <1>5, <1>6, <2>2, <2>3, <3>1 DEF StatusInv, IsProcessed
  <2>9. QED
    BY <2>4, <2>5, <2>6, <2>7, <2>8 DEF SessionInv
<1>10. QED
  BY <1>1, <1>6, <1>7, <1>8, <1>9, UncommittedKeepsIInv DEF tables

LEMMA AbortKeepsIInv ==
  ASSUME IInv, NEW s \in Session, Abort(s)
  PROVE  IInv'
<1>1. UNCHANGED <<docs, versions, jobs, blobs, index>> /\ pc[s] # "done" /\ Finish(s)
  BY DEF Abort, Open, tables, stores
<1>2. SharedGrows
  BY <1>1 DEF SharedGrows
<1>3. StoreTypeOK'
  BY <1>1, FinishRests DEF IInv, StoreTypeOK
<1>4. QED
  BY <1>1, <1>2, <1>3, FinishRests, UncommittedKeepsIInv DEF tables

(* A step that ends its session with a commit.  What remains to be shown   *)
(* of it is what it does to the tables.                                    *)
LEMMA CommitKeepsIInv ==
  ASSUME IInv, NEW s \in Session, Finish(s), SharedGrows, RowsInv', NumbersContiguous',
         UNCHANGED stores,
         docs' \in [Session -> DocRow \cup {NoDoc}],
         versions' \in [Session -> VersionRow \cup {NoVersion}],
         jobs' \in [Session -> JobRow \cup {NoJob}],
         \A t \in Session \ {s} :
           /\ op[t] = "process" => jobs'[doc[t]] = jobs[doc[t]]
           /\ pc[t] = "flushed" =>
                \A v \in Session : versions'[v] # versions[v] => versions'[v].document_id # doc[t]
  PROVE  IInv'
<1> USE DEF IInv
<1>1. StoreTypeOK'
  BY FinishRests DEF StoreTypeOK, stores
<1>2. ASSUME NEW t \in Session PROVE SessionInv(t)'
  <2>1. CASE t = s
    BY <2>1, FinishRests
  <2>2. CASE t # s
    <3>1. PICK d \in Session : d = doc[t]
      BY DEF StoreTypeOK
    <3>2. op[t] = "process" => jobs'[d] = jobs[d] /\ index'[d] = index[d]
      BY <2>2, <3>1 DEF stores
    <3>3. ASSUME pc[t] = "flushed" PROVE NumbersOf(d)' = NumbersOf(d)
      <4>1. \A v \in Session : versions'[v] # versions[v] => versions'[v].document_id # d
        BY <2>2, <3>1, <3>3
      <4>2. \A v \in Session : versions[v] # NoVersion => versions'[v] = versions[v]
        BY DEF SharedGrows
      <4>3. VersionsOf(d)' = VersionsOf(d) /\ \A v \in VersionsOf(d) : versions'[v] = versions[v]
        BY <4>1, <4>2 DEF VersionsOf
      <4>4. QED
        BY <4>3 DEF NumbersOf
    <3>4. Resting(t)
      BY <2>2, FinishRests DEF OthersRest
    <3>5. QED
      BY <3>1, <3>2, <3>3, <3>4, RestingKeepsSessionInv
  <2>3. QED
    BY <2>1, <2>2
<1>3. QED
  BY <1>1, <1>2, FinishRests

LEMMA CommitUploadKeepsIInv ==
  ASSUME IInv, NEW s \in Session, CommitUpload(s)
  PROVE  IInv'
<1> USE DEF IInv
<1>1. /\ op[s] = "upload" /\ pc[s] = "stored" /\ Finish(s)
      /\ docs' = [docs EXCEPT ![s] = NewDoc(s)]
      /\ versions' = [versions EXCEPT ![s] = draft[s]]
      /\ jobs' = [jobs EXCEPT ![s] = [status |-> "queued", retry_count |-> 0]]
      /\ UNCHANGED <<blobs, index>>
  BY DEF CommitUpload, At, stores
<1>2. /\ draft[s] \in VersionRow /\ draft[s] # NoVersion /\ draft[s].document_id = s
      /\ draft[s].version_number = 1 /\ s \in blobs /\ doc[s] = s
  BY <1>1 DEF SessionInv, UploadInv, StoreTypeOK
<1>3. /\ docs[s] = NoDoc /\ jobs[s] = NoJob /\ versions[s] = NoVersion
      /\ \A v \in Session : versions[v] # NoVersion => versions[v].document_id # s
  BY <1>1 DEF RowsInv
<1>4. /\ docs'[s] = NewDoc(s) /\ NewDoc(s) \in DocRow /\ NewDoc(s) # NoDoc
      /\ docs' \in [Session -> DocRow \cup {NoDoc}]
      /\ versions'[s] = draft[s]
      /\ versions' \in [Session -> VersionRow \cup {NoVersion}]
      /\ jobs'[s] # NoJob
      /\ jobs' \in [Session -> JobRow \cup {NoJob}]
  BY <1>1, <1>2, AbsenceAssumption, BoundsAssumption DEF NewDoc, DocRow, JobRow, StoreTypeOK
<1>5. \A d \in Session \ {s} :
        docs'[d] = docs[d] /\ versions'[d] = versions[d] /\ jobs'[d] = jobs[d]
  BY <1>1 DEF StoreTypeOK
<1>6. SharedGrows
  BY <1>1, <1>3, <1>5 DEF SharedGrows
<1>7. /\ VersionsOf(s)' = {s} /\ VersionsOf(s) = {}
      /\ \A d \in Session \ {s} : VersionsOf(d)' = VersionsOf(d)
  BY <1>2, <1>3, <1>4, <1>5 DEF VersionsOf
<1>8. RowsInv'
  <2>1. pc'[s] = "done" /\ \A d \in Session : pc[d] = "done" => pc'[d] = "done"
    BY <1>1, FinishRests DEF OthersRest, Resting
  <2>2. docs'[s].current_version_id = s /\ ~IsProcessed(docs[s])' /\ s \notin VersionsOf(s)
    BY <1>1, <1>3, <1>4 DEF NewDoc, IsProcessed, VersionsOf
  <2>3. \A d \in Session \ {s} : Ingested(d) => Ingested(d)'
    BY <1>6, GrowthIsStable
  <2>4. ASSUME NEW d \in Session
        PROVE  /\ docs'[d] # NoDoc => pc'[d] = "done"
               /\ jobs'[d] # NoJob <=> docs'[d] # NoDoc
               /\ docs'[d] # NoDoc => docs'[d].current_version_id \in VersionsOf(d)'
               /\ IsProcessed(docs[d])' => Ingested(d)'
    BY <1>4, <1>5, <1>7, <2>1, <2>2, <2>3 DEF RowsInv, IsProcessed
  <2>5. ASSUME NEW v \in Session, versions'[v] # NoVersion
        PROVE  pc'[v] = "done" /\ v \in blobs' /\ docs'[versions'[v].document_id] # NoDoc
    BY <1>1, <1>2, <1>4, <1>5, <2>1, <2>5 DEF RowsInv
  <2>6. QED
    BY <2>4, <2>5 DEF RowsInv
<1>9. NumbersContiguous'
  <2> SUFFICES ASSUME NEW d \in Session PROVE NumbersOf(d)' = 1 .. Cardinality(VersionsOf(d)')
    BY DEF NumbersContiguous
  <2>1. CASE d = s
    <3>1. VersionsOf(d)' = {s}
      BY <1>2, <1>3, <1>4, <1>5, <2>1 DEF VersionsOf
    <3>2. versions'[s].version_number = 1
      BY <1>2, <1>4
    <3>3. NumbersOf(d)' = {1}
      BY <3>1, <3>2 DEF NumbersOf
    <3>4. QED
      BY <3>1, <3>3, FS_Singleton
  <2>2. CASE d # s
    <3>1. VersionsOf(d)' = VersionsOf(d)
      BY <1>7, <2>2
    <3>2. NumbersOf(d)' = NumbersOf(d)
      BY <1>3, <1>5, <2>2, <3>1 DEF NumbersOf, VersionsOf
    <3>3. QED
      BY <3>1, <3>2 DEF NumbersContiguous
  <2>3. QED
    BY <2>1, <2>2
<1>10. ASSUME NEW t \in Session \ {s}
       PROVE  /\ op[t] = "process" => jobs'[doc[t]] = jobs[doc[t]]
              /\ pc[t] = "flushed" =>
                   \A v \in Session : versions'[v] # versions[v] => versions'[v].document_id # doc[t]
  <2>1. op[t] = "process" => doc[t] \in Session \ {s}
    BY <1>3 DEF SessionInv, ProcessInv, StoreTypeOK
  <2>2. pc[t] = "flushed" => doc[t] # s
    BY <1>3, <2>1 DEF SessionInv, StageInv, MemoryInv, StoreTypeOK, Operations
  <2>3. QED
    BY <1>2, <1>4, <1>5, <2>1, <2>2
<1>11. QED
  BY <1>1, <1>4, <1>6, <1>8, <1>9, <1>10, CommitKeepsIInv DEF stores

(* The commit of an UPDATE: one row of documents is replaced, and perhaps  *)
(* a version of that document inserted.                                    *)
LEMMA ReplacedRowKeepsRowsInv ==
  ASSUME IInv, NEW s \in Session, Finish(s), SharedGrows,
         NEW d \in Session, docs[d] # NoDoc, NEW r \in DocRow,
         docs' = [docs EXCEPT ![d] = r],
         r.current_version_id \in VersionsOf(d)',
         r.status = "processed" => Ingested(d)',
         \A e \in Session : jobs'[e] # NoJob <=> jobs[e] # NoJob,
         \A v \in Session : versions'[v] # versions[v] =>
           v = s /\ v \in blobs' /\ versions'[v].document_id = d
  PROVE  RowsInv'
<1> USE DEF IInv
<1>1. pc'[s] = "done" /\ \A e \in Session : pc[e] = "done" => pc'[e] = "done"
  BY FinishRests DEF OthersRest, Resting
<1>2. r # NoDoc /\ docs'[d] = r /\ \A e \in Session \ {d} : docs'[e] = docs[e]
  BY AbsenceAssumption DEF StoreTypeOK
<1>3. ASSUME NEW e \in Session
      PROVE  /\ docs'[e] # NoDoc => pc'[e] = "done"
             /\ jobs'[e] # NoJob <=> docs'[e] # NoDoc
             /\ docs'[e] # NoDoc => docs'[e].current_version_id \in VersionsOf(e)'
             /\ IsProcessed(docs[e])' => Ingested(e)'
  <2>1. docs'[e] # NoDoc => docs[e] # NoDoc
    BY <1>2
  <2>2. CASE e = d
    <3>1. r.current_version_id \in VersionsOf(e)' /\ (r.status = "processed" => Ingested(e)')
      BY <2>2 DEF VersionsOf, Ingested, Indexed
    <3>2. QED
      BY <1>1, <1>2, <2>1, <2>2, <3>1 DEF RowsInv, IsProcessed
  <2>3. CASE e # d
    <3>1. VersionsOf(e) \subseteq VersionsOf(e)' /\ (Ingested(e) => Ingested(e)')
      BY GrowthIsStable
    <3>2. QED
      BY <1>1, <1>2, <2>1, <2>3, <3>1 DEF RowsInv, IsProcessed
  <2>4. QED
    BY <2>2, <2>3
<1>4. ASSUME NEW v \in Session, versions'[v] # NoVersion
      PROVE  pc'[v] = "done" /\ v \in blobs' /\ docs'[versions'[v].document_id] # NoDoc
  <2>1. CASE versions'[v] # versions[v]
    BY <1>1, <1>2, <2>1
  <2>2. CASE versions'[v] = versions[v]
    <3>1. versions[v].document_id \in Session
      BY <1>4, <2>2 DEF StoreTypeOK, VersionRow
    <3>2. QED
      BY <1>1, <1>4, <2>2, <3>1 DEF RowsInv, SharedGrows
  <2>3. QED
    BY <2>1, <2>2
<1>5. QED
  BY <1>3, <1>4 DEF RowsInv

LEMMA CommitAddVersionKeepsIInv ==
  ASSUME IInv, NEW s \in Session, CommitAddVersion(s)
  PROVE  IInv'
<1> USE DEF IInv
<1>1. /\ op[s] = "add_version" /\ pc[s] = "flushed" /\ Finish(s)
      /\ docs' = [docs EXCEPT ![doc[s]] = txn[s]]
      /\ versions' = [versions EXCEPT ![s] = draft[s]]
      /\ UNCHANGED <<jobs, blobs, index>>
  BY DEF CommitAddVersion, At, stores
<1>2. PICK d \in Session : d = doc[s]
  BY DEF StoreTypeOK
<1>3. /\ draft[s] \in VersionRow /\ draft[s] # NoVersion /\ draft[s].document_id = d /\ s \in blobs
      /\ draft[s].version_number \notin NumbersOf(d)
      /\ \E n \in NumbersOf(d) : draft[s].version_number = n + 1
  BY <1>1, <1>2 DEF SessionInv, AddVersionInv, StoreTypeOK
<1>4. /\ docs[d] # NoDoc /\ txn[s] \in DocRow
      /\ txn[s].current_version_id \in VersionsOf(d) \cup {s}
      /\ txn[s].status = "processed" => Ingested(d)
  BY <1>1, <1>2 DEF SessionInv, MemoryInv, Eligible, StatusInv, IsProcessed, StoreTypeOK
<1>5. versions[s] = NoVersion
  BY <1>1 DEF RowsInv
<1>6. /\ versions'[s] = draft[s] /\ \A v \in Session \ {s} : versions'[v] = versions[v]
      /\ versions' \in [Session -> VersionRow \cup {NoVersion}]
      /\ docs' \in [Session -> DocRow \cup {NoDoc}]
      /\ docs'[d] = txn[s] /\ \A e \in Session \ {d} : docs'[e] = docs[e]
  BY <1>1, <1>2, <1>3, <1>4 DEF StoreTypeOK
<1>7. SharedGrows
  BY <1>1, <1>4, <1>5, <1>6, AbsenceAssumption DEF SharedGrows
<1>8. VersionsOf(d)' = VersionsOf(d) \cup {s} /\ s \notin VersionsOf(d)
  BY <1>3, <1>5, <1>6 DEF VersionsOf
<1>9. RowsInv'
  <2>1. Ingested(d) => Ingested(d)'
    BY <1>7, GrowthIsStable
  <2>2. \A v \in Session : versions'[v] # versions[v] =>
          v = s /\ v \in blobs' /\ versions'[v].document_id = d
    BY <1>1, <1>3, <1>6
  <2>3. txn[s].current_version_id \in VersionsOf(d)'
    BY <1>4, <1>8
  <2>4. docs' = [docs EXCEPT ![d] = txn[s]] /\ jobs' = jobs /\ Finish(s)
    BY <1>1, <1>2
  <2>5. QED
    BY <1>4, <1>7, <2>1, <2>2, <2>3, <2>4, ReplacedRowKeepsRowsInv
<1>10. NumbersContiguous'
  <2> SUFFICES ASSUME NEW e \in Session PROVE NumbersOf(e)' = 1 .. Cardinality(VersionsOf(e)')
    BY DEF NumbersContiguous
  <2>1. CASE e # d
    <3>1. VersionsOf(e)' = VersionsOf(e)
      BY <1>3, <1>5, <1>6, <2>1 DEF VersionsOf
    <3>2. NumbersOf(e)' = NumbersOf(e)
      BY <1>5, <1>6, <3>1 DEF NumbersOf, VersionsOf
    <3>3. QED
      BY <3>1, <3>2 DEF NumbersContiguous
  <2>2. CASE e = d
    <3> DEFINE k == Cardinality(VersionsOf(e))
    <3>1. VersionsOf(e)' = VersionsOf(e) \cup {s} /\ s \notin VersionsOf(e)
      BY <1>3, <1>5, <1>6, <2>2 DEF VersionsOf
    <3>2. IsFiniteSet(VersionsOf(e))
      BY SessionsAssumption, FS_Subset DEF VersionsOf
    <3>3. k \in Nat /\ Cardinality(VersionsOf(e)') = k + 1
      BY <3>1, <3>2, FS_AddElement, FS_CardinalityType
    <3>4. NumbersOf(e) = 1 .. k
      BY DEF NumbersContiguous
    <3>5. draft[s].version_number = k + 1
      BY <1>3, <2>2, <3>3, <3>4
    <3>6. NumbersOf(e)' = NumbersOf(e) \cup {k + 1}
      <4>1. \A v \in VersionsOf(e) : versions'[v] = versions[v]
        BY <1>6, <3>1 DEF VersionsOf
      <4>2. versions'[s].version_number = k + 1
        BY <1>6, <3>5
      <4>3. QED
        BY <3>1, <4>1, <4>2 DEF NumbersOf
    <3>7. QED
      BY <3>3, <3>4, <3>6
  <2>3. QED
    BY <2>1, <2>2
<1>11. ASSUME NEW t \in Session \ {s}, pc[t] = "flushed"
       PROVE  \A v \in Session : versions'[v] # versions[v] => versions'[v].document_id # doc[t]
  BY <1>1, <1>2, <1>3, <1>6, <1>11 DEF LockInv
<1>12. QED
  BY <1>1, <1>6, <1>7, <1>9, <1>10, <1>11, CommitKeepsIInv DEF stores, StoreTypeOK

LEMMA CommitUpdateKeepsIInv ==
  ASSUME IInv, NEW s \in Session, CommitUpdate(s)
  PROVE  IInv'
<1> USE DEF IInv
<1>1. /\ op[s] \in {"delete", "patch"} /\ pc[s] = "flushed" /\ Finish(s)
      /\ docs' = [docs EXCEPT ![doc[s]] = txn[s]]
      /\ UNCHANGED <<versions, jobs, blobs, index>>
  BY DEF CommitUpdate, stores
<1>2. PICK d \in Session : d = doc[s]
  BY DEF StoreTypeOK
<1>3. /\ docs[d] # NoDoc /\ txn[s] \in DocRow
      /\ txn[s].current_version_id \in VersionsOf(d)
      /\ txn[s].status = "processed" => Ingested(d)
  BY <1>1, <1>2 DEF SessionInv, MemoryInv, Eligible, StatusInv, IsProcessed, StoreTypeOK
<1>4. docs' \in [Session -> DocRow \cup {NoDoc}] /\ SharedGrows
  BY <1>1, <1>2, <1>3, AbsenceAssumption DEF StoreTypeOK, SharedGrows
<1>5. \A e \in Session : VersionsOf(e)' = VersionsOf(e) /\ NumbersOf(e)' = NumbersOf(e)
  BY <1>1 DEF VersionsOf, NumbersOf
<1>6. RowsInv'
  <2>1. Ingested(d) => Ingested(d)'
    BY <1>4, GrowthIsStable
  <2>2. QED
    BY <1>1, <1>2, <1>3, <1>4, <1>5, <2>1, ReplacedRowKeepsRowsInv
<1>7. NumbersContiguous'
  BY <1>5 DEF NumbersContiguous
<1>8. QED
  BY <1>1, <1>4, <1>6, <1>7, CommitKeepsIInv DEF stores, StoreTypeOK

LEMMA CommitProcessKeepsIInv ==
  ASSUME IInv, NEW s \in Session, CommitProcess(s)
  PROVE  IInv'
<1> USE DEF IInv
<1>1. /\ op[s] = "process" /\ pc[s] = "flushed" /\ Finish(s)
      /\ docs' = [docs EXCEPT ![doc[s]] = txn[s]]
      /\ jobs' = [jobs EXCEPT ![doc[s]].status = "completed"]
      /\ UNCHANGED <<versions, blobs, index>>
  BY DEF CommitProcess, At, stores
<1>2. PICK d \in Session : d = doc[s]
  BY DEF StoreTypeOK
<1>3. /\ jobs[d] \in JobRow /\ jobs[d] # NoJob /\ jobs[d].status = "queued"
      /\ entity[s] # NoDoc /\ Indexed(d, entity[s].current_version_id)
      /\ docs[d] # NoDoc /\ txn[s] \in DocRow
      /\ entity[s].current_version_id \in VersionsOf(d)
      /\ txn[s].current_version_id \in VersionsOf(d)
  BY <1>1, <1>2 DEF SessionInv, MemoryInv, Eligible, ProcessInv, RowsInv, StoreTypeOK
<1>4. /\ jobs'[d].status = "completed" /\ jobs'[d] # NoJob
      /\ \A e \in Session \ {d} : jobs'[e] = jobs[e]
      /\ jobs' \in [Session -> JobRow \cup {NoJob}]
      /\ docs' \in [Session -> DocRow \cup {NoDoc}]
  BY <1>1, <1>2, <1>3, AbsenceAssumption DEF StoreTypeOK, JobRow
<1>5. SharedGrows
  BY <1>1, <1>2, <1>3, <1>4, AbsenceAssumption DEF StoreTypeOK, SharedGrows
<1>6. \A e \in Session : VersionsOf(e)' = VersionsOf(e) /\ NumbersOf(e)' = NumbersOf(e)
  BY <1>1 DEF VersionsOf, NumbersOf
<1>7. RowsInv'
  <2>1. Ingested(d)'
    BY <1>1, <1>3, <1>4, <1>6 DEF Ingested, Indexed
  <2>2. QED
    BY <1>1, <1>2, <1>3, <1>4, <1>5, <1>6, <2>1, ReplacedRowKeepsRowsInv
<1>8. NumbersContiguous'
  BY <1>6 DEF NumbersContiguous
<1>9. \A t \in Session \ {s} : op[t] # "process"
  BY <1>1 DEF OneProcess
<1>10. QED
  BY <1>1, <1>4, <1>5, <1>7, <1>8, <1>9, CommitKeepsIInv DEF stores, StoreTypeOK

LEMMA FailProcessKeepsIInv ==
  ASSUME IInv, NEW s \in Session, FailProcess(s)
  PROVE  IInv'
<1> USE DEF IInv
<1>1. /\ op[s] = "process" /\ Finish(s)
      /\ jobs' = [jobs EXCEPT ![doc[s]] = CountFailure(jobs[doc[s]])]
      /\ UNCHANGED <<docs, versions, blobs, index>>
  BY DEF FailProcess, stores
<1>2. PICK d \in Session : d = doc[s]
  BY DEF StoreTypeOK
<1>3. jobs[d] \in JobRow /\ jobs[d] # NoJob /\ jobs[d].status = "queued"
  BY <1>1, <1>2 DEF SessionInv, ProcessInv, StoreTypeOK
<1>4. CountFailure(jobs[d]) \in JobRow
  BY <1>3, BoundsAssumption DEF CountFailure, JobRow
<1>5. /\ jobs'[d] # NoJob
      /\ \A e \in Session \ {d} : jobs'[e] = jobs[e]
      /\ jobs' \in [Session -> JobRow \cup {NoJob}]
  BY <1>1, <1>2, <1>4, AbsenceAssumption DEF StoreTypeOK
<1>6. SharedGrows
  BY <1>1, <1>3, <1>5 DEF SharedGrows
<1>7. \A e \in Session : VersionsOf(e)' = VersionsOf(e) /\ NumbersOf(e)' = NumbersOf(e)
  BY <1>1 DEF VersionsOf, NumbersOf
<1>8. RowsInv'
  <2>1. pc'[s] = "done" /\ \A e \in Session : pc[e] = "done" => pc'[e] = "done"
    BY <1>1, FinishRests DEF OthersRest, Resting
  <2>2. \A e \in Session : Ingested(e) => Ingested(e)'
    BY <1>6, GrowthIsStable
  <2>3. QED
    BY <1>1, <1>3, <1>5, <1>7, <2>1, <2>2 DEF RowsInv, IsProcessed
<1>9. NumbersContiguous'
  BY <1>7 DEF NumbersContiguous
<1>10. \A t \in Session \ {s} : op[t] # "process"
  BY <1>1 DEF OneProcess
<1>11. QED
  BY <1>1, <1>5, <1>6, <1>8, <1>9, <1>10, CommitKeepsIInv DEF stores, StoreTypeOK

-----------------------------------------------------------------------------

LEMMA InitIInv == StoreInit => IInv
<1> SUFFICES ASSUME StoreInit PROVE IInv
  OBVIOUS
<1> USE DEF StoreInit
<1>1. StoreTypeOK
  BY DEF StoreTypeOK, Operations, Stages
<1>2. RowsInv
  BY DEF RowsInv, IsProcessed
<1>3. \A s \in Session : SessionInv(s)
  BY DEF SessionInv, StageInv, UploadInv, AddVersionInv, MemoryInv, ProcessInv, StatusInv
<1>4. OneProcess /\ LockInv
  BY DEF OneProcess, LockInv
<1>5. NumbersContiguous
  <2>1. \A d \in Session : VersionsOf(d) = {}
    BY DEF VersionsOf
  <2>2. \A d \in Session : NumbersOf(d) = {}
    BY <2>1 DEF NumbersOf
  <2>3. 1 .. Cardinality({}) = {}
    BY FS_EmptySet
  <2>4. QED
    BY <2>1, <2>2, <2>3 DEF NumbersContiguous
<1>6. QED
  BY <1>1, <1>2, <1>3, <1>4, <1>5 DEF IInv

LEMMA NextIInv == IInv /\ [StoreNext]_vars => IInv'
<1> SUFFICES ASSUME IInv, [StoreNext]_vars PROVE IInv'
  OBVIOUS
<1>1. CASE StoreNext
  <2>1. PICK s \in Session :
          \/ UploadStep(s)
          \/ AddVersionStep(s)
          \/ UpdateStep(s)
          \/ ProcessStep(s)
          \/ ReadAgain(s)
          \/ Write(s)
          \/ Abort(s)
    BY <1>1 DEF StoreNext
  <2>2. CASE UploadStep(s)
    BY <2>2, BeginUploadKeepsIInv, SaveUploadKeepsIInv, CommitUploadKeepsIInv DEF UploadStep
  <2>3. CASE AddVersionStep(s)
    BY <2>3, BeginsKeepIInv, SaveVersionKeepsIInv, CommitAddVersionKeepsIInv DEF AddVersionStep
  <2>4. CASE UpdateStep(s)
    BY <2>4, BeginsKeepIInv, CommitUpdateKeepsIInv DEF UpdateStep
  <2>5. CASE ProcessStep(s)
    BY <2>5, BeginProcessKeepsIInv, IndexVersionKeepsIInv, FailProcessKeepsIInv,
       CommitProcessKeepsIInv DEF ProcessStep
  <2>6. QED
    BY <2>1, <2>2, <2>3, <2>4, <2>5, ReadAgainKeepsIInv, WriteKeepsIInv, AbortKeepsIInv
<1>2. CASE UNCHANGED vars
  <2>1. UNCHANGED <<docs, versions, jobs, blobs, index, op, pc, doc, draft, entity, base, txn>>
    BY <1>2 DEF vars
  <2>2. \A d \in Session : VersionsOf(d)' = VersionsOf(d) /\ NumbersOf(d)' = NumbersOf(d)
    BY <2>1 DEF VersionsOf, NumbersOf
  <2>3. SharedGrows /\ \A t \in Session : Resting(t)
    BY <2>1 DEF SharedGrows, Resting
  <2>4. StoreTypeOK' /\ OneProcess' /\ LockInv' /\ NumbersContiguous'
    BY <2>1, <2>2 DEF IInv, StoreTypeOK, OneProcess, LockInv, NumbersContiguous
  <2>5. RowsInv'
    <3>1. \A d \in Session : Ingested(d) => Ingested(d)'
      BY <2>3, GrowthIsStable DEF IInv
    <3>2. QED
      BY <2>1, <2>2, <3>1 DEF IInv, RowsInv, IsProcessed
  <2>6. ASSUME NEW t \in Session PROVE SessionInv(t)'
    <3>1. PICK d \in Session : d = doc[t]
      BY DEF IInv, StoreTypeOK
    <3>2. QED
      BY <2>1, <2>2, <2>3, <3>1, RestingKeepsSessionInv DEF IInv
  <2>7. QED
    BY <2>4, <2>5, <2>6 DEF IInv
<1>3. QED
  BY <1>1, <1>2

(* The inductive invariant holds of every behaviour. *)
THEOREM Invariance == StoreSpec => []IInv
BY InitIInv, NextIInv, PTL DEF StoreSpec

(* Every row and entity is well formed; the numbers of versions, which     *)
(* list_versions keeps increasing, stay within the number of sessions.     *)
THEOREM TypeCorrect == StoreSpec => []StoreTypeOK
<1>1. IInv => StoreTypeOK
  BY DEF IInv
<1>2. QED
  BY <1>1, Invariance, PTL

(* storage.save comes before the insert in every request, so no committed  *)
(* version lacks its bytes, whichever session aborts where.                *)
THEOREM BlobBehindVersionHolds == StoreSpec => []BlobBehindVersion
<1>1. IInv => BlobBehindVersion
  BY DEF IInv, RowsInv, BlobBehindVersion
<1>2. QED
  BY <1>1, Invariance, PTL

(* However updates written from old reads overlap, the active version of a *)
(* document is a committed version of that document.                       *)
THEOREM CurrentIsAVersionHolds == StoreSpec => []CurrentIsAVersion
<1>1. IInv => CurrentIsAVersion
  BY DEF IInv, RowsInv, CurrentIsAVersion
<1>2. QED
  BY <1>1, Invariance, PTL

(* add_document_version.py picks the number without a lock; the unique     *)
(* index under the document's row lock leaves no gap and no repetition.    *)
THEOREM NumbersContiguousHolds == StoreSpec => []NumbersContiguous
<1>1. IInv => NumbersContiguous
  BY DEF IInv
<1>2. QED
  BY <1>1, Invariance, PTL

(* The worker commits the document and its job together after the upsert:  *)
(* PROCESSED is never seen before the job is completed and the chunks of a *)
(* version are in the index.                                               *)
THEOREM ProcessedIsIndexedHolds == StoreSpec => []ProcessedIsIndexed
<1>1. IInv => ProcessedIsIndexed
  BY DEF IInv, RowsInv, ProcessedIsIndexed, IsProcessed, Ingested
<1>2. QED
  BY <1>1, Invariance, PTL

(* One row of jobs written is one entry of the ledger recorded.            *)
LEMMA JobWrites ==
  ASSUME IInv, NEW s \in Session,
         UploadStep(s) \/ AddVersionStep(s) \/ UpdateStep(s) \/ ProcessStep(s)
           \/ ReadAgain(s) \/ Write(s) \/ Abort(s)
  PROVE  \/ jobs' = jobs
         \/ CommitUpload(s)
         \/ FailProcess(s)
         \/ CommitProcess(s)
BY DEF UploadStep, BeginUpload, SaveUpload,
       AddVersionStep, BeginAddVersion, SaveVersion, CommitAddVersion,
       UpdateStep, BeginDelete, BeginPatch, CommitUpdate,
       ProcessStep, BeginProcess, IndexVersion,
       ReadAgain, Write, Abort, Begin, tables

(* The ingestion runs implement the ledger of JobPipeline: a job appears   *)
(* queued with its document, each failure is counted once, and a finished  *)
(* job stays as it is, whichever sessions overlap.                         *)
THEOREM ImplementsLedger == StoreSpec => JobsFollowLedger
<1>1. StoreInit => Ledger!LedgerInit
  BY DEF StoreInit, Ledger!LedgerInit
<1>2. IInv /\ [StoreNext]_vars => [Ledger!LedgerNext]_jobs
  <2> SUFFICES ASSUME IInv, [StoreNext]_vars
               PROVE  Ledger!LedgerNext \/ jobs' = jobs
    OBVIOUS
  <2>1. CASE UNCHANGED vars
    BY <2>1 DEF vars
  <2>2. ASSUME NEW s \in Session, CommitUpload(s) PROVE Ledger!LedgerNext
    <3>1. op[s] = "upload" /\ pc[s] = "stored"
      BY <2>2 DEF CommitUpload, At
    <3>2. jobs[s] = NoJob
      BY <3>1 DEF IInv, RowsInv
    <3>3. Ledger!Admit(s)
      BY <2>2, <3>2 DEF CommitUpload, Ledger!Admit, Ledger!Record
    <3>4. QED
      BY <3>3 DEF Ledger!LedgerNext
  <2>3. ASSUME NEW s \in Session, FailProcess(s) \/ CommitProcess(s) PROVE Ledger!LedgerNext
    <3>1. PICK d \in Session : d = doc[s]
      BY DEF IInv, StoreTypeOK
    <3>2. op[s] = "process"
      BY <2>3 DEF FailProcess, CommitProcess, At
    <3>3. jobs[d] \in JobRow /\ jobs[d] # NoJob /\ jobs[d].status = "queued"
      BY <3>1, <3>2 DEF IInv, SessionInv, ProcessInv, StoreTypeOK
    <3>4. Ledger!Queued(d) /\ jobs[d].retry_count \in 0 .. MaxRetries
      BY <3>3 DEF Ledger!Queued, JobRow
    <3>5. CASE CommitProcess(s)
      <4>1. [jobs[d] EXCEPT !.status = "completed"] =
              [status |-> "completed", retry_count |-> jobs[d].retry_count]
        BY <3>3 DEF JobRow
      <4>2. Ledger!Record(d, "completed", jobs[d].retry_count)
        BY <3>1, <3>5, <4>1 DEF CommitProcess, Ledger!Record
      <4>3. QED
        BY <3>4, <4>2 DEF Ledger!Finish, Ledger!LedgerNext
    <3>6. CASE FailProcess(s) /\ jobs[d].retry_count < MaxRetries
      <4>1. CountFailure(jobs[d]) = [status |-> "queued", retry_count |-> jobs[d].retry_count + 1]
        BY <3>3, <3>6 DEF CountFailure, JobRow
      <4>2. Ledger!Record(d, "queued", jobs[d].retry_count + 1)
        BY <3>1, <3>6, <4>1 DEF FailProcess, Ledger!Record
      <4>3. QED
        BY <3>4, <3>6, <4>2 DEF Ledger!TryAgain, Ledger!LedgerNext
    <3>7. CASE FailProcess(s) /\ jobs[d].retry_count = MaxRetries
      <4>1. CountFailure(jobs[d]) = [status |-> "failed", retry_count |-> MaxRetries]
        BY <3>3, <3>7, BoundsAssumption DEF CountFailure, JobRow
      <4>2. Ledger!Record(d, "failed", MaxRetries)
        BY <3>1, <3>7, <4>1 DEF FailProcess, Ledger!Record
      <4>3. QED
        BY <3>4, <3>7, <4>2 DEF Ledger!GiveUp, Ledger!LedgerNext
    <3>8. QED
      BY <2>3, <3>4, <3>5, <3>6, <3>7, BoundsAssumption
  <2>4. QED
    BY <2>1, <2>2, <2>3, JobWrites DEF StoreNext
<1>3. QED
  BY <1>1, <1>2, Invariance, PTL DEF StoreSpec, JobsFollowLedger, Ledger!LedgerSpec

=============================================================================
