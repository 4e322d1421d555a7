\* Two documents, taken through the revisions in any direction.
CONSTANTS
  Doc = {d1, d2}
  LegacyFiles <- MCLegacyFiles
  LegacyProps <- MCLegacyProps
  LegacyStatus = {"queued", "failed"}
  Candidates <- MCCandidates
  Requests <- MCRequests
  Space = {s1}
  Policies <- MCPolicies
  Policy <- MCPolicy
  MaxVersions = 2
  MaxRetries = 1
  MaxSize = 2
  MimeTypes <- MCMimeTypes
  Nothing = Nothing
  Invalid = Invalid
  Refused = Refused
  NoExtension = NoExtension
  Absent = Absent
SPECIFICATION MigrationsSpec
INVARIANTS MigrationsTypeOK NeitherWayBlocked HeadIsModels DocumentsReadable
  MigratedAsUploaded PolicyAdmitsWhatItNames
PROPERTIES DocumentsKept JobsKept
SYMMETRY DocSymmetry
