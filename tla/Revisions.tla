------------------------------ MODULE Revisions ------------------------------
(***************************************************************************)
(* What each Alembic revision (alembic/versions) does to the schema, up    *)
(* and down, and the schema the ORM models expect.                         *)
(***************************************************************************)
EXTENDS Schema

C == "knowledge_collections"
D == "knowledge_documents"
V == "knowledge_document_versions"
P == "knowledge_pages"
J == "processing_jobs"
T == "conversations"
M == "conversation_messages"

Times == {"created_at", "updated_at"}

(* The attributes of a stored file, owned by the document, later by its    *)
(* versions.                                                               *)
FileColumns ==
  {"original_filename", "filename", "extension", "mime_type", "size",
   "checksum_sha256", "storage_provider", "storage_path"}
FileOptional == {"uploaded_by", "page_count"}

-----------------------------------------------------------------------------
(* 098482a100da *)

FoundationIndexes ==
  { Index(C, <<"tenant_id">>),
    Index(D, <<"tenant_id", "checksum_sha256">>), Index(D, <<"checksum_sha256">>),
    Index(D, <<"collection_id">>), Index(D, <<"status">>), Index(D, <<"tenant_id">>),
    Index(P, <<"document_id">>), UniqueIndex(P, <<"document_id", "page_number">>),
    Index(J, <<"document_id">>), Index(J, <<"status">>), Index(J, <<"tenant_id">>) }

UpFoundation ==
  [NoChange EXCEPT
     !.required =
        Of(C, {"id", "tenant_id", "name", "metadata"} \cup Times)
        \cup Of(D, {"id", "tenant_id", "status", "metadata"} \cup FileColumns \cup Times)
        \cup Of(P, {"id", "document_id", "page_number", "rotation", "metadata", "created_at"})
        \cup Of(J, {"id", "document_id", "tenant_id", "job_type", "status",
                    "attempts", "payload"} \cup Times),
     !.optional =
        Of(C, {"description"})
        \cup Of(D, {"collection_id", "deleted_at"} \cup FileOptional)
        \cup Of(P, {"width", "height", "image_path", "extracted_text"})
        \cup Of(J, {"error"}),
     !.references =
        { Reference(D, "collection_id", C, "SET NULL"),
          Reference(P, "document_id", D, "CASCADE"),
          Reference(J, "document_id", D, "CASCADE") },
     !.indexed = FoundationIndexes]

\* mutant: the documents are dropped before what refers to them
DownFoundationDocumentsFirst ==
  [NoChange EXCEPT !.unindexed = FoundationIndexes, !.drop_tables = <<J, D, P, C>>]

DownFoundation ==
  [NoChange EXCEPT !.unindexed = FoundationIndexes, !.drop_tables = <<J, P, D, C>>]

-----------------------------------------------------------------------------
(* b7f2c9a4d1e8 *)

VersionIndexes ==
  { Index(V, <<"document_id">>), Index(V, <<"checksum_sha256">>),
    UniqueIndex(V, <<"document_id", "version_number">>) }

IdentityIndexes == {Index(D, <<"source_type">>), Index(D, <<"knowledge_space_id">>)}

PhysicalIndexes ==
  { Index(D, <<"tenant_id", "checksum_sha256">>), Index(D, <<"checksum_sha256">>),
    Index(D, <<"collection_id">>) }

UpVersioning ==
  [NoChange EXCEPT
     !.required   = Of(V, {"id", "document_id", "version_number", "metadata", "created_at"}
                          \cup FileColumns),
     !.optional   = Of(V, FileOptional)
                    \cup Of(D, {"knowledge_space_id", "title", "source_type",
                                "current_version_id", "created_by"}),
     !.references = {Reference(V, "document_id", D, "CASCADE")},
     !.tightened  = Of(D, {"title", "source_type"}),
     !.indexed    = VersionIndexes \cup IdentityIndexes,
     !.unindexed  = PhysicalIndexes,
     !.dropped    = Of(D, FileColumns \cup FileOptional \cup {"collection_id"})]

(* The file columns come back nullable, and collection_id without its      *)
(* foreign key.                                                            *)
DownVersioning ==
  [NoChange EXCEPT
     !.optional    = Of(D, FileColumns \cup FileOptional \cup {"collection_id"}),
     !.indexed     = PhysicalIndexes,
     !.unindexed   = VersionIndexes \cup IdentityIndexes,
     !.dropped     = Of(D, {"knowledge_space_id", "title", "source_type",
                            "current_version_id", "created_by"}),
     !.drop_tables = <<V>>]

-----------------------------------------------------------------------------
(* d4e8f1a29b30 *)

PipelineRequired == {"priority", "retry_count", "progress"}
PipelineOptional == {"version_id", "worker_name", "error_message", "started_at", "finished_at"}
PipelineIndexes  == {Index(J, <<"job_type">>), Index(J, <<"document_id", "job_type">>)}

\* mutant: the payload of the legacy jobs stays, NOT NULL
UpPipelineKeepingPayload ==
  [NoChange EXCEPT
     !.required = Of(J, PipelineRequired),
     !.optional = Of(J, PipelineOptional),
     !.dropped  = Of(J, {"attempts", "error"}),
     !.indexed  = PipelineIndexes]

UpPipeline ==
  [NoChange EXCEPT
     !.required = Of(J, PipelineRequired),
     !.optional = Of(J, PipelineOptional),
     !.dropped  = Of(J, {"attempts", "error", "payload"}),
     !.indexed  = PipelineIndexes]

DownPipeline ==
  [NoChange EXCEPT
     !.required  = Of(J, {"attempts", "payload"}),
     !.optional  = Of(J, {"error"}),
     !.dropped   = Of(J, PipelineRequired \cup PipelineOptional),
     !.unindexed = PipelineIndexes]

-----------------------------------------------------------------------------
(* 9555bfdd5c43 *)

ChatIndexes ==
  { Index(T, <<"tenant_id">>), Index(M, <<"conversation_id">>),
    UniqueIndex(M, <<"conversation_id", "seq">>) }

UpChat ==
  [NoChange EXCEPT
     !.required   = Of(T, {"id", "tenant_id"} \cup Times)
                    \cup Of(M, {"id", "conversation_id", "seq", "role", "content", "created_at"}),
     !.references = {Reference(M, "conversation_id", T, "CASCADE")},
     !.indexed    = ChatIndexes]

DownChat == [NoChange EXCEPT !.unindexed = ChatIndexes, !.drop_tables = <<M, T>>]

-----------------------------------------------------------------------------

(* In order; the third, c3d9e1f42a76, changes data only. *)
Up   == <<UpFoundation,   UpVersioning,   NoChange, UpPipeline,   UpChat>>
Down == <<DownFoundation, DownVersioning, NoChange, DownPipeline, DownChat>>

LastRevision == Len(Up)

(* persistence/sqlalchemy/models.py: what the repositories read and write. *)
ModelsSchema ==
  LET required ==
        Of(C, {"id", "tenant_id", "name", "metadata"} \cup Times)
        \cup Of(D, {"id", "tenant_id", "title", "source_type", "status", "metadata"} \cup Times)
        \cup Of(V, {"id", "document_id", "version_number", "metadata", "created_at"}
                   \cup FileColumns)
        \cup Of(P, {"id", "document_id", "page_number", "rotation", "metadata", "created_at"})
        \cup Of(J, {"id", "document_id", "tenant_id", "job_type", "status",
                    "priority", "retry_count", "progress"} \cup Times)
        \cup Of(T, {"id", "tenant_id"} \cup Times)
        \cup Of(M, {"id", "conversation_id", "seq", "role", "content", "created_at"})
      optional ==
        Of(C, {"description"})
        \cup Of(D, {"knowledge_space_id", "current_version_id", "created_by", "deleted_at"})
        \cup Of(V, FileOptional)
        \cup Of(P, {"width", "height", "image_path", "extracted_text"})
        \cup Of(J, {"version_id", "worker_name", "error_message", "started_at", "finished_at"})
  IN  [ columns    |-> required \cup optional,
        required   |-> required,
        indexes    |->
          { Index(C, <<"tenant_id">>),
            Index(D, <<"tenant_id">>), Index(D, <<"knowledge_space_id">>),
            Index(D, <<"source_type">>), Index(D, <<"status">>),
            Index(V, <<"document_id">>), Index(V, <<"checksum_sha256">>),
            UniqueIndex(V, <<"document_id", "version_number">>),
            Index(P, <<"document_id">>), UniqueIndex(P, <<"document_id", "page_number">>),
            Index(J, <<"document_id">>), Index(J, <<"tenant_id">>), Index(J, <<"job_type">>),
            Index(J, <<"status">>), Index(J, <<"document_id", "job_type">>),
            Index(T, <<"tenant_id">>),
            Index(M, <<"conversation_id">>), UniqueIndex(M, <<"conversation_id", "seq">>) },
        references |->
          { Reference(V, "document_id", D, "CASCADE"), Reference(P, "document_id", D, "CASCADE"),
            Reference(J, "document_id", D, "CASCADE"),
            Reference(M, "conversation_id", T, "CASCADE") } ]
=============================================================================
