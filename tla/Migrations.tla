----------------------------- MODULE Migrations -----------------------------
(***************************************************************************)
(* A database that the Alembic revisions are run over in either direction, *)
(* with the rows an earlier release left in it and those the present one   *)
(* writes.  Each revision is one step: alembic/env.py runs all the         *)
(* revisions of a command in one transaction, and the releases only write  *)
(* at the revision they were made for, the first or the last.              *)
(*                                                                         *)
(* Of the rows only what a revision moves or rewrites is kept.  A stored   *)
(* file stands for all its columns; title and created_by, which an upgrade *)
(* takes from the file, are left out.  No revision touches the status and  *)
(* deleted_at of a document.  Of the jobs the version_id is left out.      *)
(***************************************************************************)
EXTENDS Revisions, FiniteSets, ProcessingJob, KnowledgeMetadata, UploadPolicy

CONSTANTS
  Doc,
  LegacyFiles,   \* files the earlier release has stored
  LegacyProps,   \* free-form metadata it has stored
  LegacyStatus,  \* statuses its jobs may have
  Candidates,    \* files clients try to upload
  Requests,      \* metadata clients send with a PATCH
  Space,         \* knowledge spaces, formerly collections
  Policies,      \* the setting UPLOAD_ALLOWED_EXTENSIONS, as it may be spelled
  Policy,        \* as this deployment spells it
  MaxVersions,   \* bound: versions of a document
  MaxRetries,    \* settings.processing.max_retries
  Absent         \* in place of a value whose column does not exist

ASSUME LegacyAssumption     == LegacyProps \subseteq Dict
ASSUME StatusAssumption     == LegacyStatus \subseteq Statuses
ASSUME MaxRetriesAssumption == MaxRetries \in Nat

VARIABLES
  rev,       \* the row of alembic_version: 0 is a database without revisions
  schema,
  docs,      \* rows of knowledge_documents
  versions,  \* rows of knowledge_document_versions
  jobs       \* rows of processing_jobs, one for each document

vars == <<rev, schema, docs, versions, jobs>>

rows == <<docs, versions, jobs>>

File == [body : {f.body : f \in LegacyFiles \cup Candidates}, extension : Text(STRING)]

(* The extension of a file is what follows the last dot of its name.       *)
ASSUME FilesAssumption ==
  /\ LegacyFiles \subseteq File /\ Nothing \notin File
  /\ \A f \in LegacyFiles : ~f.extension.dotted
  /\ \A c \in Candidates :
       /\ c.size \in Nat
       /\ c.extension # NoExtension => c.extension \in Text(STRING) /\ ~c.extension.dotted

ASSUME RequestsAssumption == Requests \subseteq Metadata
ASSUME PoliciesAssumption == Policies \subseteq Setting /\ Policy \in Policies

MigrationsInit ==
  /\ rev      = 0
  /\ schema   = EmptySchema
  /\ docs     = <<>>
  /\ versions = {}
  /\ jobs     = <<>>

-----------------------------------------------------------------------------
(* Rows *)

(* f with one more row. *)
Insert(f, d, row) == [x \in DOMAIN f \cup {d} |-> IF x = d THEN row ELSE f[x]]

(* The metadata column while it is a free-form dict. *)
Free(dict) == [free |-> dict]

Numbers(d) == {v.number : v \in {w \in versions : w.doc = d}}

VersionOf(d, n) == CHOOSE v \in versions : v.doc = d /\ v.number = n

CurrentFile(d) ==
  IF docs[d].current \in Numbers(d) THEN VersionOf(d, docs[d].current).file ELSE Nothing

-----------------------------------------------------------------------------
(* The revisions *)

Upgrade(r) ==
  /\ rev = r - 1
  /\ Accepted(schema, Up[r])
  /\ rev'    = r
  /\ schema' = Changed(schema, Up[r])

Downgrade(r) ==
  /\ rev = r
  /\ Accepted(schema, Down[r])
  /\ rev'    = r - 1
  /\ schema' = Changed(schema, Down[r])

UpgradeFoundation == Upgrade(1) /\ UNCHANGED rows

DowngradeFoundation ==
  /\ Downgrade(1)
  /\ docs' = <<>> /\ jobs' = <<>>
  /\ UNCHANGED versions

(* INSERT ... SELECT into NOT NULL columns: refused for a document whose   *)
(* file columns are NULL. *)
FilesPresent == \A d \in DOMAIN docs : docs[d].file # Nothing

\* mutant: the documents are not pointed at their versions
UpgradeVersioningUnwired ==
  /\ Upgrade(2)
  /\ FilesPresent
  /\ versions' = {[doc |-> d, number |-> 1, file |-> docs[d].file, meta |-> docs[d].meta] :
                    d \in DOMAIN docs}
  /\ docs' = [d \in DOMAIN docs |->
       [docs[d] EXCEPT !.file = Absent, !.collection = Absent,
                       !.space = docs[d].collection, !.source = "file_upload",
                       !.current = Nothing]]
  /\ UNCHANGED jobs

(* One version for each document, which becomes its current one. *)
UpgradeVersioning ==
  /\ Upgrade(2)
  /\ FilesPresent
  /\ versions' = {[doc |-> d, number |-> 1, file |-> docs[d].file, meta |-> docs[d].meta] :
                    d \in DOMAIN docs}
  /\ docs' = [d \in DOMAIN docs |->
       [docs[d] EXCEPT !.file = Absent, !.collection = Absent,
                       !.space = docs[d].collection, !.source = "file_upload",
                       !.current = 1]]
  /\ UNCHANGED jobs

\* mutant: the first version is put back on the document
DowngradeVersioningToFirst ==
  /\ Downgrade(2)
  /\ docs' = [d \in DOMAIN docs |->
       [docs[d] EXCEPT !.file = VersionOf(d, 1).file, !.collection = docs[d].space,
                       !.space = Absent, !.source = Absent,
                       !.current = Absent]]
  /\ versions' = {}
  /\ UNCHANGED jobs

(* The current version's file is put back; the others are lost. *)
DowngradeVersioning ==
  /\ Downgrade(2)
  /\ docs' = [d \in DOMAIN docs |->
       [docs[d] EXCEPT !.file = CurrentFile(d),
                       !.collection = IF docs[d].current \in Numbers(d)
                                        THEN docs[d].space ELSE Nothing,
                       !.space = Absent, !.source = Absent,
                       !.current = Absent]]
  /\ versions' = {}
  /\ UNCHANGED jobs

(* CASE lower(v.extension) WHEN ... ELSE 'text' END, written out in SQL. *)
CaseTable ==
  [ pdf        |-> {"pdf"},
    word       |-> {"doc", "docx", "rtf"},
    excel      |-> {"xls", "xlsx", "csv"},
    powerpoint |-> {"ppt", "pptx"},
    markdown   |-> {"md", "markdown"},
    text       |-> {"txt"},
    html       |-> {"html", "htm"},
    image      |-> {"png", "jpg", "jpeg", "gif", "webp", "tiff"},
    email      |-> {"eml", "msg"} ]

\* mutant: CASE v.extension, which no capitals match
CaseAsSpelled(extension) == LookUp(CaseTable, extension)

CaseOf(extension) == LookUp(CaseTable, Lower(extension))

(* metadata::jsonb *)
Castable(dict) == "nul" \notin dict

(* A document without a version keeps 'file_upload' in the first UPDATE    *)
(* and becomes 'text' in the second. *)
UpgradeMetadata ==
  /\ Upgrade(3)
  /\ \A d \in DOMAIN docs : Castable(docs[d].meta.free)
  /\ docs' = [d \in DOMAIN docs |->
       [docs[d] EXCEPT
          !.source = IF CurrentFile(d) = Nothing THEN "text"
                     ELSE CaseOf(CurrentFile(d).extension),
          !.meta   = Skeleton(@.free)]]
  /\ UNCHANGED <<versions, jobs>>

DowngradeMetadata ==
  /\ Downgrade(3)
  /\ \A d \in DOMAIN docs : Castable(docs[d].meta.properties)
  /\ docs' = [d \in DOMAIN docs |->
       [docs[d] EXCEPT !.source = "file_upload", !.meta = Free(@.properties)]]
  /\ UNCHANGED <<versions, jobs>>

(* The new columns take their defaults, or NULL. *)
UpgradePipeline ==
  /\ Upgrade(4)
  /\ jobs' = [d \in DOMAIN jobs |->
       [NewJob EXCEPT !.status = jobs[d].status, !.retry_count = jobs[d].attempts,
                      !.error_message = jobs[d].error]]
  /\ UNCHANGED <<docs, versions>>

\* mutant: the attempts take their default, 0
DowngradePipelineUncounted ==
  /\ Downgrade(4)
  /\ jobs' = [d \in DOMAIN jobs |->
       [status |-> jobs[d].status, attempts |-> 0, error |-> jobs[d].error_message]]
  /\ UNCHANGED <<docs, versions>>

DowngradePipeline ==
  /\ Downgrade(4)
  /\ jobs' = [d \in DOMAIN jobs |->
       [ status   |-> jobs[d].status,
         attempts |-> jobs[d].retry_count,
         error    |-> jobs[d].error_message ]]
  /\ UNCHANGED <<docs, versions>>

UpgradeChat   == Upgrade(5) /\ UNCHANGED rows
DowngradeChat == Downgrade(5) /\ UNCHANGED rows

-----------------------------------------------------------------------------
(* The earlier release, at the first revision *)

LegacyWrite(d) ==
  /\ rev = 1
  /\ d \notin DOMAIN docs
  /\ \E file \in LegacyFiles, meta \in LegacyProps, collection \in Space \cup {Nothing} :
       docs' = Insert(docs, d,
         [ file |-> file, meta |-> Free(meta), collection |-> collection, space |-> Absent,
           source |-> Absent, current |-> Absent ])
  /\ \E status \in LegacyStatus, attempts \in 0 .. MaxRetries :
       jobs' = Insert(jobs, d,
         [ status |-> status, attempts |-> attempts,
           error  |-> IF status = "failed" THEN Some ELSE None ])
  /\ UNCHANGED <<rev, schema, versions>>

-----------------------------------------------------------------------------
(* The present release, at the last revision *)

(* _doc_to_entity: a row whose metadata does not validate, or whose source *)
(* type is none of the enumeration's, raises in every use case. *)
Readable(d) ==
  Validated(docs[d].meta) # Invalid /\ docs[d].source \in SourceType

Stored(candidate) ==
  [body |-> candidate.body, extension |-> ValidateUpload(Policy, candidate)]

(* Upload: refused for a content some version has. *)
Upload(d, candidate) ==
  /\ rev = LastRevision
  /\ d \notin DOMAIN docs
  /\ ValidateUpload(Policy, candidate) # Refused
  /\ \A v \in versions : v.file.body # candidate.body
  /\ \E space \in Space \cup {Nothing} :
       docs' = Insert(docs, d,
         [ file |-> Absent, meta |-> Skeleton({}), collection |-> Absent,
           space |-> space,
           source |-> FromExtension(ValidateUpload(Policy, candidate)), current |-> 1 ])
  /\ versions' = versions \cup
       {[doc |-> d, number |-> 1, file |-> Stored(candidate), meta |-> Free({})]}
  /\ jobs' = Insert(jobs, d, NewJob)
  /\ UNCHANGED <<rev, schema>>

NextNumber(d) ==
  IF Numbers(d) = {} THEN 1
  ELSE 1 + (CHOOSE n \in Numbers(d) : \A k \in Numbers(d) : k <= n)

AddVersion(d, candidate) ==
  /\ rev = LastRevision
  /\ d \in DOMAIN docs /\ Readable(d)
  /\ ValidateUpload(Policy, candidate) # Refused
  /\ NextNumber(d) <= MaxVersions
  /\ versions' = versions \cup
       {[doc |-> d, number |-> NextNumber(d), file |-> Stored(candidate), meta |-> Free({})]}
  /\ docs' = [docs EXCEPT ![d].current = NextNumber(d)]
  /\ UNCHANGED <<rev, schema, jobs>>

(* The metadata of the request has been validated on its way in. *)
Patch(d, request, space) ==
  /\ rev = LastRevision
  /\ d \in DOMAIN docs /\ Readable(d)
  /\ request # Nothing => Validated(request) # Invalid
  /\ docs' = [docs EXCEPT ![d].meta  = IF request = Nothing THEN Validated(@)
                                        ELSE Validated(request),
                          ![d].space = IF space = Nothing THEN @ ELSE space]
  /\ UNCHANGED <<rev, schema, versions, jobs>>

(* A worker runs a queued job: it completes, or it fails and is queued     *)
(* again while the budget lasts. *)
WorkJob(d) ==
  /\ rev = LastRevision
  /\ d \in DOMAIN jobs /\ CanStart(jobs[d])
  /\ LET failed == Fail(Start(jobs[d]))
     IN  jobs' \in {[jobs EXCEPT ![d] = Complete(Start(@))],
                    [jobs EXCEPT ![d] = IF CanRetry(failed, MaxRetries)
                                          THEN Retry(failed) ELSE failed]}
  /\ UNCHANGED <<rev, schema, docs, versions>>

-----------------------------------------------------------------------------

MigrationsNext ==
  \/ UpgradeFoundation \/ UpgradeVersioning \/ UpgradeMetadata
  \/ UpgradePipeline   \/ UpgradeChat
  \/ DowngradeFoundation \/ DowngradeVersioning \/ DowngradeMetadata
  \/ DowngradePipeline   \/ DowngradeChat
  \/ \E d \in Doc :
       \/ LegacyWrite(d)
       \/ \E candidate \in Candidates : Upload(d, candidate) \/ AddVersion(d, candidate)
       \/ \E request \in Requests \cup {Nothing}, space \in Space \cup {Nothing} :
            Patch(d, request, space)
       \/ WorkJob(d)

MigrationsSpec == MigrationsInit /\ [][MigrationsNext]_vars

-----------------------------------------------------------------------------
(* Properties *)

(* The rows have exactly the columns of the revision, and what they refer  *)
(* to exists. *)
MigrationsTypeOK ==
  /\ rev \in 0 .. LastRevision
  /\ DOMAIN docs \subseteq Doc /\ DOMAIN jobs = DOMAIN docs
  /\ rev = 0 => docs = <<>>
  /\ \A d \in DOMAIN docs :
       /\ rev = 1 => docs[d].file \in File /\ docs[d].current = Absent
       /\ rev >= 2 => docs[d].file = Absent /\ docs[d].current \in Numbers(d)
       /\ rev < 3 <=> DOMAIN docs[d].meta = {"free"}
       /\ rev >= 4 <=> jobs[d] \in JobRecord
  /\ rev < 2 => versions = {}
  /\ \A v \in versions : v.doc \in DOMAIN docs /\ v.file \in File

(* From every database the releases can leave behind, the next revision    *)
(* runs and so does the previous one's undoing: no column is missing or    *)
(* there already, no NOT NULL is refused by the rows.  What may still stop *)
(* them is a value that cannot be cast (Castable), at the third revision.  *)
(* (entrypoint.sh starts the API even when the upgrade has failed.)        *)
NeitherWayBlocked ==
  /\ rev < LastRevision => Accepted(schema, Up[rev + 1])
  /\ rev > 0 => Accepted(schema, Down[rev])
  /\ rev = 1 => FilesPresent

(* Whichever way the database came to the last revision, it is what        *)
(* models.py declares: columns, NOT NULL, indexes, foreign keys.           *)
HeadIsModels == rev = LastRevision => schema = ModelsSchema

FileOf(d) == IF rev = 1 THEN docs[d].file ELSE CurrentFile(d)
SpaceOf(d) == IF rev = 1 THEN docs[d].collection ELSE docs[d].space

(* No revision, up or down, loses a document, the file it shows, or the    *)
(* space it is in. *)
DocumentsKept ==
  [][rev' # rev /\ rev' > 0 =>
       /\ DOMAIN docs' = DOMAIN docs
       /\ \A d \in DOMAIN docs : FileOf(d)' = FileOf(d) /\ SpaceOf(d)' = SpaceOf(d)]_vars

(* The repository reads back every document it finds, its metadata as it   *)
(* was written, unless the earlier release stored a value that is not text.*)
DocumentsReadable ==
  rev = LastRevision =>
    \A d \in DOMAIN docs :
      /\ docs[d].source \in SourceType
      /\ docs[d].meta.properties \in TextDict => Validated(docs[d].meta) = docs[d].meta

CaseAgrees == \A e \in Text(KnownExtensions) : ~e.dotted => CaseOf(e) = FromExtension(e)

(* A document has the source type an upload of its first file would have   *)
(* given it, whether it was uploaded or migrated: SQL's table of the       *)
(* extensions is Python's.                                                 *)
MigratedAsUploaded ==
  /\ CaseAgrees
  /\ \A d \in DOMAIN docs :
       rev >= 3 /\ Numbers(d) = {1} =>
         docs[d].source = FromExtension(CurrentFile(d).extension)

Attempts(d) == IF rev >= 4 THEN jobs[d].retry_count ELSE jobs[d].attempts
ErrorOf(d)  == IF rev >= 4 THEN jobs[d].error_message ELSE jobs[d].error

(* No revision changes the outcome of a job or the retries it has used, so *)
(* that none is run once more or once less than the budget says.           *)
JobsKept ==
  [][rev' # rev /\ rev' > 0 =>
       \A d \in DOMAIN jobs :
         /\ jobs'[d].status = jobs[d].status
         /\ Attempts(d)' = Attempts(d) /\ ErrorOf(d)' = ErrorOf(d)]_vars

(* Blanks count in a JSON array, where they also hide the dot behind them. *)
Names(setting, extension) ==
  /\ extension # NoExtension
  /\ \E t \in setting.items :
       /\ t.word = extension.word
       /\ IF setting.spelling = "commas"
            THEN ~Blank(t) /\ ~extension.before /\ ~extension.after
            ELSE /\ t.before = extension.before /\ t.after = extension.after
                 /\ ~(t.before /\ t.dotted)

(* Capitals and dots do not matter, in the setting or in the name of a     *)
(* file: what is admitted is what the setting names, stored in lower case. *)
PolicyAdmitsWhatItNames ==
  rev = LastRevision =>
    \A c \in Candidates, setting \in Policies :
      ValidateUpload(setting, c) =
        IF Names(setting, c.extension) /\ c.size \in 1 .. MaxSize /\ c.mime \in MimeTypes
          THEN Lower(c.extension) ELSE Refused
=============================================================================
