-------------------------- MODULE SerialStoreProofs --------------------------
(***************************************************************************)
(* Theorems about DocumentStore when its sessions come one after the       *)
(* other, for any number of them: what the code keeps as long as nothing   *)
(* interferes.  DocumentStoreUndelete shows that two sessions at a time    *)
(* are enough to lose it.                                                  *)
(***************************************************************************)
EXTENDS DocumentStoreProofs

OneAtATime == MaxOpen = 1

OneOpen == \A s, t \in Session : Open(s) /\ Open(t) => s = t

(* The row that session s means to write.                                  *)
Revision(s) ==
  LET r == docs[doc[s]]
  IN  CASE op[s] = "delete" -> [r EXCEPT !.status = "deleted", !.deleted_at = s]
        [] op[s] = "patch"  -> [r EXCEPT !.title = s]
        [] op[s] = "add_version" /\ pc[s] # "begun" -> [r EXCEPT !.current_version_id = s]
        [] op[s] = "process" /\ pc[s] # "begun" -> [r EXCEPT !.status = "processed"]
        [] OTHER -> r

(* Nothing that the open session has read changes before it commits.       *)
Undisturbed(s) ==
  /\ op[s] = "upload" => ~HasContent(draft[s].checksum)
  /\ entity[s] # NoDoc => LiveDoc(doc[s]) /\ entity[s] = Revision(s)
  /\ pc[s] \in {"read", "flushed"} => base[s] = docs[doc[s]]
  /\ pc[s] = "flushed" => txn[s] = entity[s]
  /\ op[s] = "add_version" /\ pc[s] # "begun" =>
       \A m \in NumbersOf(doc[s]) : m < draft[s].version_number

SerialInv ==
  /\ IInv
  /\ OneOpen
  /\ \A s \in Session : Undisturbed(s)
  /\ DeletionConsistent
  /\ UploadsDiffer
  /\ CurrentIsLatest
  /\ CompletedIsProcessed

-----------------------------------------------------------------------------

(* A step moves one session only, and no other session is open then.       *)
LEMMA NobodyElse ==
  ASSUME OneAtATime, IInv, OneOpen, NEW s \in Session,
         \/ Open(s)
         \/ Cardinality({t \in Session : Open(t)}) < MaxOpen
  PROVE  \A t \in Session \ {s} : ~Open(t) /\ op[t] = "none" /\ entity[t] = NoDoc
<1>1. ASSUME NEW t \in Session \ {s} PROVE ~Open(t)
  <2>1. CASE Open(s)
    BY <2>1 DEF OneOpen
  <2>2. CASE Cardinality({u \in Session : Open(u)}) < MaxOpen
    <3> DEFINE U == {u \in Session : Open(u)}
    <3>1. IsFiniteSet(U) /\ Cardinality(U) \in Nat
      BY SessionsAssumption, FS_Subset, FS_CardinalityType
    <3>2. Cardinality(U) = 0
      BY <2>2, <3>1 DEF OneAtATime
    <3>3. U = {}
      BY <3>1, <3>2, FS_EmptySet
    <3>4. QED
      BY <3>3
  <2>3. QED
    BY <2>1, <2>2
<1>2. QED
  BY <1>1 DEF Open, IInv, SessionInv, StageInv, MemoryInv, StoreTypeOK, Stages

(* What is left to show of a step is what it does to its own session and   *)
(* to the tables.                                                          *)
LEMMA OthersUndisturbed ==
  ASSUME OneAtATime, SerialInv, NEW s \in Session, OthersRest(s),
         \/ Open(s)
         \/ Cardinality({t \in Session : Open(t)}) < MaxOpen
  PROVE  OneOpen' /\ \A t \in Session \ {s} : Undisturbed(t)'
<1>1. \A t \in Session \ {s} :
        /\ op'[t] = "none" /\ entity'[t] = NoDoc /\ pc'[t] = pc[t] /\ ~Open(t)
  BY NobodyElse DEF SerialInv, OthersRest, Resting
<1>2. OneOpen'
  BY <1>1 DEF OneOpen, Open
<1>3. ASSUME NEW t \in Session \ {s} PROVE Undisturbed(t)'
  BY <1>1 DEF Undisturbed, Open
<1>4. QED
  BY <1>2, <1>3

(* A step that leaves the tables alone leaves the four properties alone.   *)
LEMMA TablesKeepProperties ==
  ASSUME SerialInv, UNCHANGED <<docs, versions, jobs>>
  PROVE  DeletionConsistent' /\ UploadsDiffer' /\ CurrentIsLatest' /\ CompletedIsProcessed'
BY DEF SerialInv, DeletionConsistent, UploadsDiffer, CurrentIsLatest, CompletedIsProcessed,
       LiveDoc, FirstVersion, VersionsOf

LEMMA BeginUploadKeepsSerialInv ==
  ASSUME OneAtATime, SerialInv, IInv', NEW s \in Session, NEW c \in Content, BeginUpload(s, c)
  PROVE  SerialInv'
<1>1. /\ Begin(s, "upload", s) /\ ~HasContent(c)
      /\ draft' = [draft EXCEPT ![s] = [document_id |-> s, version_number |-> 1, checksum |-> c]]
      /\ UNCHANGED <<docs, versions, jobs, entity, base, txn>>
  BY DEF BeginUpload, Begin, tables
<1>2. /\ OthersRest(s) /\ op'[s] = "upload" /\ pc'[s] = "begun" /\ doc'[s] = s
      /\ Cardinality({t \in Session : Open(t)}) < MaxOpen
  BY <1>1, BeginRests DEF SerialInv, Begin, IInv, StoreTypeOK, Operations
<1>3. Undisturbed(s)'
  <2>1. draft'[s].checksum = c
    BY <1>1 DEF SerialInv, IInv, StoreTypeOK
  <2>2. \A d \in Session : VersionsOf(d)' = VersionsOf(d) /\ LiveDoc(d)' = LiveDoc(d)
    BY <1>1 DEF VersionsOf, LiveDoc
  <2>3. ~HasContent(draft[s].checksum)'
    BY <1>1, <2>1, <2>2 DEF HasContent
  <2>4. entity'[s] = NoDoc
    BY <1>1 DEF Begin, SerialInv, IInv, SessionInv, StageInv, MemoryInv
  <2>5. QED
    BY <1>2, <2>3, <2>4 DEF Undisturbed
<1>4. QED
  BY <1>1, <1>2, <1>3, OthersUndisturbed, TablesKeepProperties DEF SerialInv

(* A session begins from the committed row, as it is then.                 *)
LEMMA BeginsKeepSerialInv ==
  ASSUME OneAtATime, SerialInv, IInv', NEW s \in Session, NEW d \in Session,
         \/ \E c \in Content : BeginAddVersion(s, d, c)
         \/ BeginDelete(s, d)
         \/ BeginPatch(s, d)
         \/ BeginProcess(s, d)
  PROVE  SerialInv'
<1>1. PICK o \in {"add_version", "delete", "patch", "process"} :
        /\ Begin(s, o, d)
        /\ o # "process" => LiveDoc(d)
        /\ o = "add_version" => Remember(s, docs[d])
        /\ o = "delete" => Remember(s, [docs[d] EXCEPT !.status = "deleted", !.deleted_at = s])
        /\ o = "patch" => Remember(s, [docs[d] EXCEPT !.title = s])
        /\ o = "process" => Remember(s, IF LiveDoc(d) THEN docs[d] ELSE NoDoc)
        /\ \A t \in Session \ {s} : draft'[t] = draft[t]
        /\ UNCHANGED <<base, txn>>
  <2>1. CASE \E c \in Content : BeginAddVersion(s, d, c)
    BY <2>1 DEF BeginAddVersion, SerialInv, IInv, StoreTypeOK
  <2>2. CASE BeginDelete(s, d)
    BY <2>2 DEF BeginDelete
  <2>3. CASE BeginPatch(s, d)
    BY <2>3 DEF BeginPatch
  <2>4. CASE BeginProcess(s, d)
    BY <2>4 DEF BeginProcess
  <2>5. QED
    BY <2>1, <2>2, <2>3, <2>4
<1>2. UNCHANGED <<docs, versions, jobs>>
  BY <1>1 DEF Begin, tables
<1>3. \A t \in Session \ {s} : entity'[t] = entity[t]
  BY <1>1 DEF Remember, SerialInv, IInv, StoreTypeOK
<1>4. /\ OthersRest(s) /\ op'[s] = o /\ pc'[s] = "begun" /\ doc'[s] = d
      /\ Cardinality({t \in Session : Open(t)}) < MaxOpen
  BY <1>1, <1>3, BeginRests DEF SerialInv, Begin, Operations
<1>5. Undisturbed(s)'
  <2>1. LiveDoc(d)' = LiveDoc(d)
    BY <1>2 DEF LiveDoc
  <2>2. entity'[s] # NoDoc => LiveDoc(d)
    BY <1>1 DEF Remember, SerialInv, IInv, StoreTypeOK
  <2>3. LiveDoc(d) => entity'[s] = Revision(s)'
    BY <1>1, <1>2, <1>4 DEF Remember, Revision, SerialInv, IInv, StoreTypeOK
  <2>4. LiveDoc(doc[s])' = LiveDoc(d)'
    BY <1>4 DEF LiveDoc
  <2>5. QED
    BY <1>4, <2>1, <2>2, <2>3, <2>4 DEF Undisturbed
<1>6. QED
  BY <1>2, <1>4, <1>5, OthersUndisturbed, TablesKeepProperties DEF SerialInv

(* The steps of an open session before its commit.                         *)
LEMMA UncommittedKeepsSerialInv ==
  ASSUME OneAtATime, SerialInv, IInv', NEW s \in Session, OthersRest(s), Open(s),
         UNCHANGED <<docs, versions, jobs>>, Undisturbed(s)'
  PROVE  SerialInv'
BY OthersUndisturbed, TablesKeepProperties DEF SerialInv

LEMMA SaveUploadKeepsSerialInv ==
  ASSUME OneAtATime, SerialInv, IInv', NEW s \in Session, SaveUpload(s)
  PROVE  SerialInv'
<1>1. /\ op[s] = "upload" /\ pc[s] = "begun" /\ pc' = [pc EXCEPT ![s] = "stored"]
      /\ UNCHANGED <<docs, versions, jobs, index, op, doc, draft, entity, base, txn>>
  BY DEF SaveUpload, At, Goto, tables, memory
<1>2. pc'[s] = "stored" /\ OthersRest(s) /\ Open(s)
  BY <1>1 DEF SerialInv, IInv, StoreTypeOK, OthersRest, Resting, Open
<1>3. \A d \in Session : VersionsOf(d)' = VersionsOf(d) /\ LiveDoc(d)' = LiveDoc(d)
  BY <1>1 DEF VersionsOf, LiveDoc
<1>4. ~HasContent(draft[s].checksum)'
  BY <1>1, <1>3 DEF HasContent, SerialInv, Undisturbed
<1>5. entity'[s] = NoDoc
  BY <1>1 DEF SerialInv, IInv, SessionInv, MemoryInv
<1>6. Undisturbed(s)'
  BY <1>1, <1>2, <1>4, <1>5 DEF Undisturbed
<1>7. QED
  BY <1>1, <1>2, <1>6, UncommittedKeepsSerialInv

LEMMA SaveVersionKeepsSerialInv ==
  ASSUME OneAtATime, SerialInv, IInv', NEW s \in Session, SaveVersion(s)
  PROVE  SerialInv'
<1> USE DEF SerialInv, IInv
<1>1. /\ op[s] = "add_version" /\ pc[s] = "begun"
      /\ UNCHANGED <<docs, versions, jobs, op, doc, base, txn>>
      /\ pc' = [pc EXCEPT ![s] = "stored"]
      /\ entity' = [entity EXCEPT ![s] = [entity[s] EXCEPT !.current_version_id = s]]
  BY DEF SaveVersion, At, Goto, Remember, tables
<1>2. PICK n \in NumbersOf(doc[s]) :
        /\ \A m \in NumbersOf(doc[s]) : m <= n
        /\ draft' = [draft EXCEPT ![s].version_number = n + 1]
  BY DEF SaveVersion
<1>3. PICK d \in Session : d = doc[s]
  BY DEF StoreTypeOK
<1>4. NumbersOf(d) \subseteq Nat
  <2>1. NumbersOf(d) = 1 .. Cardinality(VersionsOf(d))
    BY DEF NumbersContiguous
  <2>2. Cardinality(VersionsOf(d)) \in Nat
    BY SessionsAssumption, FS_Subset, FS_CardinalityType DEF VersionsOf
  <2>3. QED
    BY <2>1, <2>2
<1>5. draft[s] \in VersionRow /\ entity[s] \in DocRow
  BY <1>1 DEF SessionInv, AddVersionInv, MemoryInv, StoreTypeOK
<1>6. draft'[s].version_number = n + 1
  BY <1>2, <1>5 DEF StoreTypeOK, VersionRow
<1>7. pc'[s] = "stored" /\ OthersRest(s) /\ Open(s)
  BY <1>1, <1>2 DEF StoreTypeOK, OthersRest, Resting, Open
<1>8. NumbersOf(d)' = NumbersOf(d)
  BY <1>1 DEF NumbersOf, VersionsOf
<1>9. \A m \in NumbersOf(d)' : m < draft'[s].version_number
  BY <1>2, <1>3, <1>4, <1>6, <1>8
<1>10. LiveDoc(d) /\ entity[s] = docs[d]
  BY <1>1, <1>3, <1>5, AbsenceAssumption DEF Undisturbed, Revision
<1>11. entity'[s] = [docs[d] EXCEPT !.current_version_id = s]
  BY <1>1, <1>10 DEF StoreTypeOK
<1>12. Undisturbed(s)'
  <2>1. op'[s] = "add_version" /\ doc'[s] = d
    BY <1>1, <1>3
  <2>2. entity'[s] = Revision(s)'
    BY <1>1, <1>7, <1>11, <2>1 DEF Revision
  <2>3. LiveDoc(doc[s])'
    BY <1>1, <1>10, <2>1 DEF LiveDoc
  <2>4. QED
    BY <1>7, <1>9, <2>1, <2>2, <2>3 DEF Undisturbed
<1>13. QED
  BY <1>1, <1>7, <1>12, UncommittedKeepsSerialInv

LEMMA IndexVersionKeepsSerialInv ==
  ASSUME OneAtATime, SerialInv, IInv', NEW s \in Session, IndexVersion(s)
  PROVE  SerialInv'
<1> USE DEF SerialInv, IInv
<1>1. /\ op[s] = "process" /\ pc[s] = "begun" /\ entity[s] # NoDoc
      /\ UNCHANGED <<docs, versions, jobs, op, doc, draft, base, txn>>
      /\ pc' = [pc EXCEPT ![s] = "stored"]
      /\ entity' = [entity EXCEPT ![s] = [entity[s] EXCEPT !.status = "processed"]]
  BY DEF IndexVersion, At, Goto, Remember, tables
<1>2. pc'[s] = "stored" /\ OthersRest(s) /\ Open(s)
  BY <1>1 DEF StoreTypeOK, OthersRest, Resting, Open
<1>3. LiveDoc(doc[s]) /\ entity[s] = docs[doc[s]]
  BY <1>1 DEF Undisturbed, Revision
<1>4. entity'[s] = [docs[doc[s]] EXCEPT !.status = "processed"]
  BY <1>1, <1>3 DEF StoreTypeOK
<1>5. Undisturbed(s)'
  <2>1. op'[s] = "process" /\ doc'[s] = doc[s]
    BY <1>1
  <2>2. entity'[s] = Revision(s)'
    BY <1>1, <1>2, <1>4, <2>1 DEF Revision
  <2>3. LiveDoc(doc[s])'
    BY <1>1, <1>3 DEF LiveDoc
  <2>4. QED
    BY <1>2, <2>1, <2>2, <2>3 DEF Undisturbed
<1>6. QED
  BY <1>1, <1>2, <1>5, UncommittedKeepsSerialInv

LEMMA ReadAgainKeepsSerialInv ==
  ASSUME OneAtATime, SerialInv, IInv', NEW s \in Session, ReadAgain(s)
  PROVE  SerialInv'
<1> USE DEF SerialInv, IInv
<1>1. /\ \/ op[s] \in {"delete", "patch"} /\ pc[s] = "begun"
         \/ op[s] \in {"add_version", "process"} /\ pc[s] = "stored"
      /\ UNCHANGED <<docs, versions, jobs, blobs, index, op, doc, draft, entity, txn>>
      /\ base' = [base EXCEPT ![s] = docs[doc[s]]]
      /\ pc' = [pc EXCEPT ![s] = "read"]
  BY DEF ReadAgain, Goto, tables, stores
<1>2. pc'[s] = "read" /\ base'[s] = docs[doc[s]] /\ OthersRest(s) /\ Open(s)
  BY <1>1 DEF StoreTypeOK, OthersRest, Resting, Open
<1>3. Undisturbed(s)'
  <2>1. Revision(s)' = Revision(s) /\ LiveDoc(doc[s])' = LiveDoc(doc[s])
    BY <1>1, <1>2 DEF Revision, LiveDoc
  <2>2. op'[s] = "add_version" => \A m \in NumbersOf(doc[s])' : m < draft'[s].version_number
    BY <1>1, <1>2 DEF Undisturbed, NumbersOf, VersionsOf
  <2>3. QED
    BY <1>1, <1>2, <2>1, <2>2 DEF Undisturbed
<1>4. QED
  BY <1>1, <1>2, <1>3, UncommittedKeepsSerialInv

(* Nothing has come between the read and the flush: the UPDATE writes the  *)
(* entity.                                                                 *)
LEMMA MergedDocOfUnchanged ==
  ASSUME NEW r \in DocRow, NEW e \in DocRow
  PROVE  MergedDoc(r, e, r) = e
BY DEF MergedDoc, Column, DocRow

LEMMA WriteKeepsSerialInv ==
  ASSUME OneAtATime, SerialInv, IInv', NEW s \in Session, Write(s)
  PROVE  SerialInv'
<1> USE DEF SerialInv, IInv
<1>1. /\ pc[s] = "read"
      /\ UNCHANGED <<docs, versions, jobs, blobs, index, op, doc, draft, entity, base>>
      /\ txn' = [txn EXCEPT ![s] = MergedDoc(base[s], Assigned(s), docs[doc[s]])]
      /\ pc' = [pc EXCEPT ![s] = "flushed"]
  BY DEF Write, Goto, tables, stores
<1>2. pc'[s] = "flushed" /\ OthersRest(s) /\ Open(s)
  BY <1>1 DEF StoreTypeOK, OthersRest, Resting, Open
<1>3. op[s] \in {"add_version", "delete", "patch", "process"}
  BY <1>1 DEF SessionInv, StageInv, StoreTypeOK, Operations
<1>4. entity[s] \in DocRow /\ base[s] \in DocRow /\ base[s] = docs[doc[s]]
  BY <1>1, <1>3 DEF SessionInv, MemoryInv, ProcessInv, StoreTypeOK, Undisturbed
<1>5. entity[s] = Revision(s)
  BY <1>4, AbsenceAssumption DEF Undisturbed
<1>6. Assigned(s) = entity[s]
  <2>1. CASE op[s] = "add_version"
    <3>1. entity[s] = [base[s] EXCEPT !.current_version_id = s]
      BY <1>1, <1>4, <1>5, <2>1 DEF Revision
    <3>2. QED
      BY <1>4, <2>1, <3>1 DEF Assigned, DocRow
  <2>2. CASE op[s] # "add_version"
    BY <2>2 DEF Assigned
  <2>3. QED
    BY <2>1, <2>2
<1>7. txn'[s] = entity[s]
  BY <1>1, <1>4, <1>6, MergedDocOfUnchanged DEF StoreTypeOK
<1>8. Undisturbed(s)'
  <2>1. Revision(s)' = Revision(s) /\ LiveDoc(doc[s])' = LiveDoc(doc[s])
    BY <1>1, <1>2 DEF Revision, LiveDoc
  <2>2. op'[s] = "add_version" => \A m \in NumbersOf(doc[s])' : m < draft'[s].version_number
    BY <1>1, <1>2 DEF Undisturbed, NumbersOf, VersionsOf
  <2>3. QED
    BY <1>1, <1>2, <1>3, <1>7, <2>1, <2>2 DEF Undisturbed
<1>9. QED
  BY <1>1, <1>2, <1>8, UncommittedKeepsSerialInv

(* A session that has ended is bound by nothing.                           *)
LEMMA FinishedKeepsSerialInv ==
  ASSUME OneAtATime, SerialInv, IInv', NEW s \in Session, Finish(s), Open(s),
         DeletionConsistent', UploadsDiffer', CurrentIsLatest', CompletedIsProcessed'
  PROVE  SerialInv'
<1>1. /\ OthersRest(s) /\ pc'[s] = "done" /\ op'[s] = "none"
  BY FinishRests DEF SerialInv
<1>2. entity'[s] = NoDoc
  BY DEF Finish, SerialInv, IInv, StoreTypeOK
<1>3. Undisturbed(s)'
  BY <1>1, <1>2 DEF Undisturbed
<1>4. QED
  BY <1>1, <1>3, OthersUndisturbed DEF SerialInv

LEMMA AbortKeepsSerialInv ==
  ASSUME OneAtATime, SerialInv, IInv', NEW s \in Session, Abort(s)
  PROVE  SerialInv'
BY FinishedKeepsSerialInv, TablesKeepProperties DEF Abort, tables

LEMMA FailProcessKeepsSerialInv ==
  ASSUME OneAtATime, SerialInv, IInv', NEW s \in Session, FailProcess(s)
  PROVE  SerialInv'
<1> USE DEF SerialInv, IInv
<1>1. /\ op[s] = "process" /\ pc[s] \in {"begun", "stored"} /\ Finish(s)
      /\ jobs' = [jobs EXCEPT ![doc[s]] = CountFailure(jobs[doc[s]])]
      /\ UNCHANGED <<docs, versions>>
  BY DEF FailProcess
<1>2. DeletionConsistent' /\ UploadsDiffer' /\ CurrentIsLatest'
  BY <1>1 DEF DeletionConsistent, UploadsDiffer, CurrentIsLatest, LiveDoc, FirstVersion, VersionsOf
<1>3. PICK d \in Session : d = doc[s]
  BY DEF StoreTypeOK
<1>4. jobs[d] \in JobRow /\ jobs[d].status = "queued"
  BY <1>1, <1>3 DEF SessionInv, ProcessInv, StoreTypeOK
<1>5. CountFailure(jobs[d]).status # "completed"
  BY <1>4 DEF CountFailure, JobRow
<1>6. CompletedIsProcessed'
  BY <1>1, <1>3, <1>5 DEF CompletedIsProcessed, StoreTypeOK
<1>7. QED
  BY <1>1, <1>2, <1>6, FinishedKeepsSerialInv DEF Open

LEMMA CommitUploadKeepsSerialInv ==
  ASSUME OneAtATime, SerialInv, IInv', NEW s \in Session, CommitUpload(s)
  PROVE  SerialInv'
<1> USE DEF SerialInv, IInv
<1>1. /\ op[s] = "upload" /\ pc[s] = "stored" /\ Finish(s) /\ Open(s)
      /\ docs' = [docs EXCEPT ![s] = NewDoc(s)]
      /\ versions' = [versions EXCEPT ![s] = draft[s]]
      /\ jobs' = [jobs EXCEPT ![s] = [status |-> "queued", retry_count |-> 0]]
  BY DEF CommitUpload, At, Open
<1>2. /\ draft[s] # NoVersion /\ draft[s].document_id = s
      /\ ~HasContent(draft[s].checksum)
  BY <1>1 DEF SessionInv, UploadInv, Undisturbed
<1>3. /\ docs[s] = NoDoc /\ jobs[s] = NoJob /\ versions[s] = NoVersion
      /\ \A v \in Session : versions[v] # NoVersion => versions[v].document_id # s
  BY <1>1 DEF RowsInv
<1>4. /\ docs'[s] = NewDoc(s) /\ versions'[s] = draft[s] /\ jobs'[s].status = "queued"
      /\ \A d \in Session \ {s} :
           docs'[d] = docs[d] /\ versions'[d] = versions[d] /\ jobs'[d] = jobs[d]
  BY <1>1 DEF StoreTypeOK
<1>5. \A d \in Session : VersionsOf(d)' = IF d = s THEN {s} ELSE VersionsOf(d)
  BY <1>2, <1>3, <1>4 DEF VersionsOf
<1>6. NewDoc(s).status = "uploaded" /\ NewDoc(s).deleted_at = None
      /\ NewDoc(s).current_version_id = s
  BY DEF NewDoc
<1>7. DeletionConsistent'
  BY <1>4, <1>6 DEF DeletionConsistent
<1>8. CompletedIsProcessed'
  BY <1>4 DEF CompletedIsProcessed
<1>9. CurrentIsLatest'
  <2> SUFFICES ASSUME NEW d \in Session, docs'[d] # NoDoc, NEW v \in VersionsOf(d)'
               PROVE  versions'[v].version_number
                        <= versions'[docs'[d].current_version_id].version_number
    BY DEF CurrentIsLatest
  <2>1. CASE d = s
    <3>1. v = s /\ docs'[d].current_version_id = s
      BY <1>4, <1>5, <1>6, <2>1
    <3>2. draft[s].version_number \in Int
      BY <1>2 DEF StoreTypeOK, VersionRow
    <3>3. QED
      BY <1>4, <3>1, <3>2
  <2>2. CASE d # s
    <3>1. v \in VersionsOf(d) /\ docs[d] # NoDoc /\ docs'[d] = docs[d]
      BY <1>4, <1>5, <2>2
    <3>2. v \in Session \ {s} /\ docs[d].current_version_id \in Session \ {s}
      BY <1>3, <3>1 DEF RowsInv, VersionsOf
    <3>3. QED
      BY <1>4, <3>1, <3>2 DEF CurrentIsLatest
  <2>3. QED
    BY <2>1, <2>2
<1>10. UploadsDiffer'
  <2>1. ASSUME NEW d \in Session \ {s}, LiveDoc(d)', NEW v \in Session, FirstVersion(d, v)'
        PROVE  /\ LiveDoc(d) /\ FirstVersion(d, v) /\ versions'[v] = versions[v]
               /\ versions[v].checksum # draft[s].checksum
    <3>1. LiveDoc(d) /\ v \in VersionsOf(d)
      BY <1>4, <1>5, <2>1 DEF LiveDoc, FirstVersion
    <3>2. versions'[v] = versions[v]
      BY <1>3, <1>4, <3>1 DEF VersionsOf
    <3>3. QED
      BY <1>2, <2>1, <3>1, <3>2 DEF FirstVersion, HasContent
  <2> SUFFICES ASSUME NEW d \in Session, NEW e \in Session, d # e, LiveDoc(d)', LiveDoc(e)',
                      NEW v \in Session, NEW w \in Session,
                      FirstVersion(d, v)', FirstVersion(e, w)'
               PROVE  versions'[v].checksum # versions'[w].checksum
    BY DEF UploadsDiffer
  <2>2. CASE d # s /\ e # s
    BY <2>1, <2>2 DEF UploadsDiffer
  <2>3. CASE d = s
    <3>1. versions'[v].checksum = draft[s].checksum
      BY <1>4, <1>5, <2>3 DEF FirstVersion
    <3>2. QED
      BY <2>1, <2>3, <3>1
  <2>4. CASE e = s
    <3>1. versions'[w].checksum = draft[s].checksum
      BY <1>4, <1>5, <2>4 DEF FirstVersion
    <3>2. QED
      BY <2>1, <2>4, <3>1
  <2>5. QED
    BY <2>2, <2>3, <2>4
<1>11. QED
  BY <1>1, <1>7, <1>8, <1>9, <1>10, FinishedKeepsSerialInv

(* What the commit of an UPDATE writes is the entity, which is the         *)
(* committed live row with what the operation changes.                     *)
LEMMA FlushedIsRevision ==
  ASSUME SerialInv, NEW s \in Session, pc[s] = "flushed"
  PROVE  /\ op[s] \in {"add_version", "delete", "patch", "process"}
         /\ LiveDoc(doc[s]) /\ docs[doc[s]] \in DocRow
         /\ txn[s] = Revision(s) /\ Revision(s) \in DocRow
         /\ Open(s)
<1> USE DEF SerialInv, IInv
<1>1. op[s] \in {"add_version", "delete", "patch", "process"} /\ Open(s)
  BY DEF SessionInv, StageInv, StoreTypeOK, Operations, Open
<1>2. entity[s] # NoDoc /\ entity[s] \in DocRow
  BY <1>1 DEF SessionInv, MemoryInv, ProcessInv, StoreTypeOK
<1>3. LiveDoc(doc[s]) /\ entity[s] = Revision(s) /\ txn[s] = entity[s]
  BY <1>2 DEF Undisturbed
<1>4. docs[doc[s]] \in DocRow
  BY <1>3 DEF LiveDoc, StoreTypeOK
<1>5. QED
  BY <1>1, <1>2, <1>3, <1>4

LEMMA CommitAddVersionKeepsSerialInv ==
  ASSUME OneAtATime, SerialInv, IInv', NEW s \in Session, CommitAddVersion(s)
  PROVE  SerialInv'
<1> USE DEF SerialInv, IInv
<1>1. /\ op[s] = "add_version" /\ pc[s] = "flushed" /\ Finish(s)
      /\ docs' = [docs EXCEPT ![doc[s]] = txn[s]]
      /\ versions' = [versions EXCEPT ![s] = draft[s]]
      /\ UNCHANGED jobs
  BY DEF CommitAddVersion, At
<1>2. PICK d \in Session : d = doc[s]
  BY DEF StoreTypeOK
<1>3. /\ Open(s) /\ LiveDoc(d) /\ docs[d] \in DocRow
      /\ txn[s] = [docs[d] EXCEPT !.current_version_id = s]
  BY <1>1, <1>2, FlushedIsRevision DEF Revision, LiveDoc
<1>4. /\ docs'[d] = [docs[d] EXCEPT !.current_version_id = s]
      /\ \A e \in Session \ {d} : docs'[e] = docs[e]
      /\ versions'[s] = draft[s]
      /\ \A v \in Session \ {s} : versions'[v] = versions[v]
  BY <1>1, <1>2, <1>3 DEF StoreTypeOK
<1>5. /\ docs'[d].status = docs[d].status /\ docs'[d].deleted_at = docs[d].deleted_at
      /\ docs'[d].current_version_id = s
  BY <1>3, <1>4 DEF DocRow
<1>6. /\ draft[s] \in VersionRow /\ draft[s] # NoVersion /\ draft[s].document_id = d
      /\ \A m \in NumbersOf(d) : m < draft[s].version_number
  <2>1. /\ draft[s] # NoVersion /\ draft[s].document_id = doc[s]
        /\ \A m \in NumbersOf(doc[s]) : m < draft[s].version_number
    BY <1>1 DEF SessionInv, AddVersionInv, Undisturbed
  <2>2. QED
    BY <1>2, <2>1 DEF StoreTypeOK
<1>7. versions[s] = NoVersion
  BY <1>1 DEF RowsInv
<1>8. \A e \in Session : VersionsOf(e)' = IF e = d THEN VersionsOf(e) \cup {s} ELSE VersionsOf(e)
  BY <1>4, <1>6, <1>7 DEF VersionsOf
<1>9. \A v \in VersionsOf(d) : versions[v].version_number < draft[s].version_number
  BY <1>6 DEF NumbersOf
<1>10. docs[d] # NoDoc /\ docs'[d] # NoDoc
  BY <1>3, <1>4, AbsenceAssumption DEF LiveDoc, DocRow
<1>11. DeletionConsistent'
  <2>1. docs[d].status = "deleted" <=> docs[d].deleted_at # None
    BY <1>10 DEF DeletionConsistent
  <2>2. ASSUME NEW e \in Session, docs'[e] # NoDoc
        PROVE  docs'[e].status = "deleted" <=> docs'[e].deleted_at # None
    BY <1>4, <1>5, <2>1, <2>2 DEF DeletionConsistent
  <2>3. QED
    BY <2>2 DEF DeletionConsistent
<1>12. CompletedIsProcessed'
  BY <1>1, <1>4, <1>5 DEF CompletedIsProcessed
<1>13. CurrentIsLatest'
  <2> SUFFICES ASSUME NEW e \in Session, docs'[e] # NoDoc, NEW v \in VersionsOf(e)'
               PROVE  versions'[v].version_number
                        <= versions'[docs'[e].current_version_id].version_number
    BY DEF CurrentIsLatest
  <2>1. CASE e = d
    <3>1. versions'[docs'[e].current_version_id] = draft[s]
      BY <1>4, <1>5, <2>1
    <3>2. v = s \/ (v \in VersionsOf(d) /\ v \in Session \ {s})
      BY <1>7, <1>8, <2>1 DEF VersionsOf
    <3>3. versions'[v] \in VersionRow
      BY <1>4, <1>6, <3>2 DEF StoreTypeOK, VersionsOf
    <3>4. versions'[v].version_number \in Int /\ draft[s].version_number \in Int
      BY <1>6, <3>3 DEF VersionRow
    <3>5. v # s => versions'[v].version_number < draft[s].version_number
      BY <1>4, <1>9, <3>2
    <3>6. QED
      BY <1>4, <3>1, <3>2, <3>4, <3>5
  <2>2. CASE e # d
    <3>1. v \in VersionsOf(e) /\ docs[e] # NoDoc /\ docs'[e] = docs[e]
      BY <1>4, <1>8, <2>2
    <3>2. v \in Session \ {s} /\ docs[e].current_version_id \in Session \ {s}
      BY <1>7, <3>1 DEF RowsInv, VersionsOf
    <3>3. QED
      BY <1>4, <3>1, <3>2 DEF CurrentIsLatest
  <2>3. QED
    BY <2>1, <2>2
<1>14. UploadsDiffer'
  <2>1. draft[s].version_number # 1
    <3>1. docs[d].current_version_id \in VersionsOf(d)
      BY <1>10 DEF RowsInv
    <3>2. /\ versions[docs[d].current_version_id].version_number < draft[s].version_number
          /\ versions[docs[d].current_version_id] \in VersionRow
      BY <1>9, <3>1 DEF VersionsOf, StoreTypeOK
    <3>3. versions[docs[d].current_version_id].version_number \in Int
          /\ 1 <= versions[docs[d].current_version_id].version_number
          /\ draft[s].version_number \in Int
      BY <1>6, <3>2 DEF VersionRow
    <3>4. QED
      BY <3>2, <3>3
  <2>2. ASSUME NEW e \in Session, NEW v \in Session, FirstVersion(e, v)'
        PROVE  FirstVersion(e, v) /\ versions'[v] = versions[v]
    <3>1. v # s
      BY <1>4, <2>1, <2>2 DEF FirstVersion
    <3>2. v \in VersionsOf(e)
      BY <1>8, <2>2, <3>1 DEF FirstVersion
    <3>3. QED
      BY <1>4, <2>2, <3>1, <3>2 DEF FirstVersion
  <2>3. ASSUME NEW e \in Session, LiveDoc(e)' PROVE LiveDoc(e)
    BY <1>4, <1>5, <1>10, <2>3 DEF LiveDoc
  <2> SUFFICES ASSUME NEW e \in Session, NEW f \in Session, e # f, LiveDoc(e)', LiveDoc(f)',
                      NEW v \in Session, NEW w \in Session,
                      FirstVersion(e, v)', FirstVersion(f, w)'
               PROVE  versions'[v].checksum # versions'[w].checksum
    BY DEF UploadsDiffer
  <2>4. QED
    BY <2>2, <2>3 DEF UploadsDiffer
<1>15. QED
  BY <1>1, <1>3, <1>11, <1>12, <1>13, <1>14, FinishedKeepsSerialInv

(* A deletion, a patch or an ingestion run leaves the versions as they     *)
(* are, and the active one active.                                         *)
LEMMA CommitsKeepSerialInv ==
  ASSUME OneAtATime, SerialInv, IInv', NEW s \in Session, CommitUpdate(s) \/ CommitProcess(s)
  PROVE  SerialInv'
<1> USE DEF SerialInv, IInv
<1>1. /\ op[s] \in {"delete", "patch", "process"} /\ pc[s] = "flushed" /\ Finish(s)
      /\ docs' = [docs EXCEPT ![doc[s]] = txn[s]]
      /\ UNCHANGED versions
      /\ IF op[s] = "process" THEN jobs' = [jobs EXCEPT ![doc[s]].status = "completed"]
                              ELSE UNCHANGED jobs
  BY DEF CommitUpdate, CommitProcess, At
<1>2. PICK d \in Session : d = doc[s]
  BY DEF StoreTypeOK
<1>3. /\ Open(s) /\ LiveDoc(d) /\ docs[d] \in DocRow /\ txn[s] \in DocRow
      /\ op[s] = "delete" => txn[s] = [docs[d] EXCEPT !.status = "deleted", !.deleted_at = s]
      /\ op[s] = "patch" => txn[s] = [docs[d] EXCEPT !.title = s]
      /\ op[s] = "process" => txn[s] = [docs[d] EXCEPT !.status = "processed"]
  BY <1>1, <1>2, FlushedIsRevision DEF Revision, LiveDoc
<1>4. docs'[d] = txn[s] /\ \A e \in Session \ {d} : docs'[e] = docs[e]
  BY <1>1, <1>2 DEF StoreTypeOK
<1>5. /\ docs'[d].current_version_id = docs[d].current_version_id
      /\ op[s] = "delete" => docs'[d].status = "deleted" /\ docs'[d].deleted_at = s
      /\ op[s] = "patch" => docs'[d].status = docs[d].status /\ docs'[d].deleted_at = None
      /\ op[s] = "process" => docs'[d].status = "processed" /\ docs'[d].deleted_at = None
      /\ docs[d] # NoDoc /\ docs'[d] # NoDoc
  <2>1. docs[d] # NoDoc /\ docs[d].deleted_at = None
    BY <1>3 DEF LiveDoc
  <2>2. docs'[d] \in DocRow
    BY <1>3, <1>4
  <2>3. docs'[d] # NoDoc
    BY <2>2, AbsenceAssumption
  <2>4. CASE op[s] = "delete"
    BY <1>3, <1>4, <2>1, <2>3, <2>4 DEF DocRow
  <2>5. CASE op[s] = "patch"
    BY <1>3, <1>4, <2>1, <2>3, <2>5 DEF DocRow
  <2>6. CASE op[s] = "process"
    BY <1>3, <1>4, <2>1, <2>3, <2>6 DEF DocRow
  <2>7. QED
    BY <1>1, <2>4, <2>5, <2>6
<1>6. \A e \in Session : VersionsOf(e)' = VersionsOf(e)
  BY <1>1 DEF VersionsOf
<1>7. DeletionConsistent'
  BY <1>1, <1>3, <1>4, <1>5, SessionsAssumption DEF DeletionConsistent, LiveDoc
<1>8. CompletedIsProcessed'
  <2> SUFFICES ASSUME NEW e \in Session, jobs'[e] # NoJob, jobs'[e].status = "completed"
               PROVE  docs'[e].status # "uploaded"
    BY DEF CompletedIsProcessed
  <2>1. CASE e = d /\ op[s] \in {"delete", "process"}
    BY <1>5, <2>1
  <2>2. CASE e = d /\ op[s] = "patch"
    BY <1>1, <1>5, <2>2 DEF CompletedIsProcessed
  <2>3. CASE e # d
    <3>1. jobs'[e] = jobs[e]
      BY <1>1, <1>2, <2>3 DEF StoreTypeOK
    <3>2. QED
      BY <1>4, <2>3, <3>1 DEF CompletedIsProcessed
  <2>4. QED
    BY <1>1, <2>1, <2>2, <2>3
<1>9. CurrentIsLatest'
  BY <1>1, <1>4, <1>5, <1>6 DEF CurrentIsLatest
<1>10. UploadsDiffer'
  <2>1. \A e \in Session : LiveDoc(e)' => LiveDoc(e)
    BY <1>3, <1>4 DEF LiveDoc
  <2>2. \A e, v \in Session : FirstVersion(e, v)' <=> FirstVersion(e, v)
    BY <1>1, <1>6 DEF FirstVersion
  <2>3. QED
    BY <1>1, <2>1, <2>2 DEF UploadsDiffer
<1>11. QED
  BY <1>1, <1>3, <1>7, <1>8, <1>9, <1>10, FinishedKeepsSerialInv

-----------------------------------------------------------------------------

LEMMA InitSerialInv == StoreInit => SerialInv
<1> SUFFICES ASSUME StoreInit PROVE SerialInv
  OBVIOUS
<1>1. IInv
  BY InitIInv
<1>2. OneOpen /\ \A s \in Session : Undisturbed(s)
  BY DEF StoreInit, OneOpen, Open, Undisturbed
<1>3. DeletionConsistent /\ UploadsDiffer /\ CurrentIsLatest /\ CompletedIsProcessed
  BY DEF StoreInit, DeletionConsistent, UploadsDiffer, CurrentIsLatest, CompletedIsProcessed,
         LiveDoc
<1>4. QED
  BY <1>1, <1>2, <1>3 DEF SerialInv

LEMMA NextSerialInv ==
  ASSUME OneAtATime
  PROVE  SerialInv /\ [StoreNext]_vars => SerialInv'
<1> SUFFICES ASSUME SerialInv, [StoreNext]_vars PROVE SerialInv'
  OBVIOUS
<1>1. IInv'
  BY NextIInv DEF SerialInv
<1>2. CASE UNCHANGED vars
  <2>1. UNCHANGED <<docs, versions, jobs, op, pc, doc, draft, entity, base, txn>>
    BY <1>2 DEF vars
  <2>2. ASSUME NEW s \in Session PROVE Undisturbed(s)'
    <3>1. \A d \in Session : VersionsOf(d)' = VersionsOf(d) /\ LiveDoc(d)' = LiveDoc(d)
      BY <2>1 DEF VersionsOf, LiveDoc
    <3>2. op[s] = "upload" => ~HasContent(draft[s].checksum)'
      BY <2>1, <3>1 DEF SerialInv, Undisturbed, HasContent
    <3>3. Revision(s)' = Revision(s) /\ LiveDoc(doc[s])' = LiveDoc(doc[s])
      BY <2>1 DEF Revision, LiveDoc
    <3>4. op[s] = "add_version" /\ pc[s] # "begun" =>
            \A m \in NumbersOf(doc[s])' : m < draft[s].version_number
      BY <2>1 DEF SerialInv, Undisturbed, NumbersOf, VersionsOf
    <3>5. QED
      BY <2>1, <3>2, <3>3, <3>4 DEF SerialInv, Undisturbed
  <2>3. OneOpen'
    BY <2>1 DEF SerialInv, OneOpen, Open
  <2>4. QED
    BY <1>1, <2>1, <2>2, <2>3, TablesKeepProperties DEF SerialInv
<1>3. ASSUME NEW s \in Session, UploadStep(s) PROVE SerialInv'
  BY <1>1, <1>3, BeginUploadKeepsSerialInv, SaveUploadKeepsSerialInv, CommitUploadKeepsSerialInv
     DEF UploadStep
<1>4. ASSUME NEW s \in Session, AddVersionStep(s) PROVE SerialInv'
  BY <1>1, <1>4, BeginsKeepSerialInv, SaveVersionKeepsSerialInv, CommitAddVersionKeepsSerialInv
     DEF AddVersionStep
<1>5. ASSUME NEW s \in Session, UpdateStep(s) PROVE SerialInv'
  BY <1>1, <1>5, BeginsKeepSerialInv, CommitsKeepSerialInv DEF UpdateStep
<1>6. ASSUME NEW s \in Session, ProcessStep(s) PROVE SerialInv'
  BY <1>1, <1>6, BeginsKeepSerialInv, IndexVersionKeepsSerialInv, FailProcessKeepsSerialInv,
     CommitsKeepSerialInv DEF ProcessStep
<1>7. ASSUME NEW s \in Session, ReadAgain(s) \/ Write(s) \/ Abort(s) PROVE SerialInv'
  BY <1>1, <1>7, ReadAgainKeepsSerialInv, WriteKeepsSerialInv, AbortKeepsSerialInv
<1>8. QED
  BY <1>2, <1>3, <1>4, <1>5, <1>6, <1>7 DEF StoreNext

(* Sessions that come one after the other keep SerialInv.                  *)
THEOREM SerialInvariance ==
  ASSUME OneAtATime
  PROVE  StoreSpec => []SerialInv
<1>1. SerialInv /\ [StoreNext]_vars => SerialInv'
  BY NextSerialInv
<1>2. QED
  BY <1>1, InitSerialInv, PTL DEF StoreSpec

(* delete_document.py sets deleted_at and the status DELETED, no later     *)
(* request undoes one of the two.                                          *)
THEOREM DeletionConsistentHolds ==
  ASSUME OneAtATime
  PROVE  StoreSpec => []DeletionConsistent
<1>1. SerialInv => DeletionConsistent
  BY DEF SerialInv
<1>2. QED
  BY <1>1, SerialInvariance, PTL

(* upload_document.py refuses a content that a live document has.          *)
THEOREM UploadsDifferHolds ==
  ASSUME OneAtATime
  PROVE  StoreSpec => []UploadsDiffer
<1>1. SerialInv => UploadsDiffer
  BY DEF SerialInv
<1>2. QED
  BY <1>1, SerialInvariance, PTL

(* The new version becomes the active one and stays so until the next.     *)
THEOREM CurrentIsLatestHolds ==
  ASSUME OneAtATime
  PROVE  StoreSpec => []CurrentIsLatest
<1>1. SerialInv => CurrentIsLatest
  BY DEF SerialInv
<1>2. QED
  BY <1>1, SerialInvariance, PTL

(* process_document.py sets PROCESSED with the end of the job, and neither *)
(* a patch nor a new version takes it back.                                *)
THEOREM CompletedIsProcessedHolds ==
  ASSUME OneAtATime
  PROVE  StoreSpec => []CompletedIsProcessed
<1>1. SerialInv => CompletedIsProcessed
  BY DEF SerialInv
<1>2. QED
  BY <1>1, SerialInvariance, PTL

(* repository.get finds no deleted document: no step of a request or of a  *)
(* retried ingestion touches one.                                          *)
THEOREM DeletedIsFrozenHolds ==
  ASSUME OneAtATime
  PROVE  StoreSpec => DeletedIsFrozen
<1>1. SerialInv /\ [StoreNext]_vars =>
        [\A d \in Session : docs[d] # NoDoc /\ docs[d].deleted_at # None =>
           /\ docs'[d] = docs[d]
           /\ VersionsOf(d)' = VersionsOf(d)
           /\ index'[d] = index[d]]_vars
  <2> SUFFICES ASSUME SerialInv, StoreNext, NEW d \in Session,
                      docs[d] # NoDoc, docs[d].deleted_at # None
               PROVE  /\ docs'[d] = docs[d]
                      /\ VersionsOf(d)' = VersionsOf(d)
                      /\ index'[d] = index[d]
    OBVIOUS
  <2> USE DEF SerialInv, IInv
  <2>1. PICK s \in Session :
          \/ UploadStep(s)
          \/ AddVersionStep(s)
          \/ UpdateStep(s)
          \/ ProcessStep(s)
          \/ ReadAgain(s)
          \/ Write(s)
          \/ Abort(s)
    BY DEF StoreNext
  <2>2. CASE UNCHANGED <<docs, versions, index>>
    BY <2>2 DEF VersionsOf
  <2>3. CASE CommitUpload(s)
    <3>1. /\ op[s] = "upload" /\ pc[s] = "stored"
          /\ docs' = [docs EXCEPT ![s] = NewDoc(s)]
          /\ versions' = [versions EXCEPT ![s] = draft[s]]
          /\ index' = index
      BY <2>3 DEF CommitUpload, At, stores
    <3>2. s # d /\ versions[s] = NoVersion
      BY <3>1 DEF RowsInv
    <3>3. draft[s].document_id = s
      BY <3>1 DEF SessionInv, UploadInv
    <3>4. QED
      BY <3>1, <3>2, <3>3 DEF StoreTypeOK, VersionsOf
  <2>4. CASE CommitAddVersion(s)
    <3>1. /\ op[s] = "add_version" /\ pc[s] = "flushed"
          /\ docs' = [docs EXCEPT ![doc[s]] = txn[s]]
          /\ versions' = [versions EXCEPT ![s] = draft[s]]
          /\ index' = index
      BY <2>4 DEF CommitAddVersion, At, stores
    <3>2. doc[s] # d /\ versions[s] = NoVersion
      BY <3>1, FlushedIsRevision DEF LiveDoc, RowsInv
    <3>3. draft[s].document_id = doc[s]
      BY <3>1 DEF SessionInv, AddVersionInv
    <3>4. QED
      BY <3>1, <3>2, <3>3 DEF StoreTypeOK, VersionsOf
  <2>5. CASE CommitUpdate(s) \/ CommitProcess(s)
    <3>1. /\ pc[s] = "flushed"
          /\ docs' = [docs EXCEPT ![doc[s]] = txn[s]]
          /\ UNCHANGED <<versions, index>>
      BY <2>5 DEF CommitUpdate, CommitProcess, At, stores
    <3>2. doc[s] # d
      BY <3>1, FlushedIsRevision DEF LiveDoc
    <3>3. QED
      BY <3>1, <3>2 DEF StoreTypeOK, VersionsOf
  <2>6. CASE IndexVersion(s)
    <3>1. /\ entity[s] # NoDoc /\ UNCHANGED <<docs, versions>>
          /\ Upsert(doc[s], entity[s].current_version_id)
      BY <2>6 DEF IndexVersion, tables
    <3>2. doc[s] # d
      BY <3>1 DEF Undisturbed, LiveDoc
    <3>3. QED
      BY <3>1, <3>2 DEF Upsert, StoreTypeOK, VersionsOf
  <2>7. QED
    BY <2>1, <2>2, <2>3, <2>4, <2>5, <2>6
       DEF UploadStep, BeginUpload, SaveUpload,
           AddVersionStep, BeginAddVersion, SaveVersion,
           UpdateStep, BeginDelete, BeginPatch,
           ProcessStep, BeginProcess, FailProcess,
           ReadAgain, Write, Abort, Begin, tables, stores
<1>2. QED
  BY <1>1, SerialInvariance, PTL DEF StoreSpec, DeletedIsFrozen

=============================================================================
