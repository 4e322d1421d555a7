---------------------------- MODULE UploadPolicy ----------------------------
(***************************************************************************)
(* Which files may be uploaded: the UPLOAD_ settings as they are spelled   *)
(* in the environment (config/settings.py, shared/parsing.py) and          *)
(* validate_upload (application/documents/validation.py).                  *)
(***************************************************************************)
EXTENDS Integers, SourceTypes

CONSTANTS
  MaxSize,      \* max_size_bytes
  MimeTypes,    \* allowed_mime_types
  NoExtension,  \* of a name without a dot
  Refused       \* ValidationError

ASSUME MaxSizeAssumption == MaxSize \in Nat

(* A list setting: a default (a list), a JSON array, or comma-separated.   *)
(* Nothing depends on the order of its items. *)
Setting == [spelling : {"list", "json", "commas"}, items : SUBSET Text(STRING)]

ParseStrList(setting) ==
  IF setting.spelling = "commas"
    THEN {Strip(t) : t \in {u \in setting.items : ~Blank(u)}}
    ELSE setting.items

\* mutant: the entries of the setting keep their capitals
ExtensionsAsSpelled(setting) == {StripDots(t) : t \in ParseStrList(setting)}

AllowedExtensions(setting) == {Lower(StripDots(t)) : t \in ParseStrList(setting)}

(* The normalized extension of an admitted file. *)
ValidateUpload(setting, file) ==
  IF /\ file.size > 0 /\ file.size <= MaxSize
     /\ file.extension # NoExtension
     /\ Lower(file.extension) \in AllowedExtensions(setting)
     /\ file.mime \in MimeTypes
    THEN Lower(file.extension) ELSE Refused
=============================================================================
