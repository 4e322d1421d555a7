-------------------------- MODULE KnowledgeMetadata --------------------------
(***************************************************************************)
(* The typed metadata of a document and its validators                     *)
(* (app/domain/documents/metadata.py).  Validation runs on what a client   *)
(* sends and again on what a row holds, each time the row is read.  The    *)
(* fields that pass through unchanged (author, category, dates, ...) are   *)
(* left out.                                                               *)
(***************************************************************************)
EXTENDS Integers, Sequences, FiniteSets, SourceTypes

CONSTANTS
  Nothing,      \* None, JSON null
  Invalid       \* ValidationError

(* A free-form dict is the set of the kinds of its values; custom_properties *)
(* is a dict[str, str].  A "nul" is a text that jsonb refuses, as it does    *)
(* \u0000, and json does not; it stands for one in any field.                *)
Dict     == SUBSET {"string", "nul", "number", "object"}
TextDict == SUBSET {"string", "nul"}

(* What the types of the fields let through to the validators. *)
Metadata ==
  [ language : Text(STRING) \cup {Nothing}, tags : Seq(Text(STRING)),
    keywords : Seq(Text(STRING)), security : STRING \cup {Nothing}, properties : Dict ]

AllowedLanguages ==
  {"es", "en", "pt", "fr", "de", "it", "nl", "ca", "gl", "eu", "ru", "zh", "ja", "ko",
   "ar", "hi", "tr", "pl", "sv", "no", "da", "fi", "cs", "el", "he", "uk", "ro", "hu"}

SecurityLevel == {"public", "internal", "confidential", "restricted", "secret"}

ASSUME InvalidAssumption ==
  Invalid \notin Metadata /\ \A value \in {Nothing, <<>>} \cup Dict : value # Invalid

StripAll(texts) == [i \in DOMAIN texts |-> Strip(texts[i])]

ValidLanguage(language) ==
  IF language = Nothing THEN Nothing
  ELSE LET code == Lower(Strip(language))
       IN  IF \E w \in AllowedLanguages : code = Plain(w) THEN code ELSE Invalid

(* The texts that are not blank, in their order: each takes the place that *)
(* is the number of those up to it. *)
NonBlank(texts) ==
  LET kept     == {i \in DOMAIN texts : ~Blank(texts[i])}
      place(i) == Cardinality({j \in kept : j <= i})
  IN  [k \in 1 .. Cardinality(kept) |-> texts[CHOOSE i \in kept : place(i) = k]]

(* Empty tags are dropped, repeated ones refused whatever their case. *)
ValidTags(tags) ==
  LET cleaned == NonBlank(StripAll(tags))
  IN  IF \E i, j \in DOMAIN cleaned : i < j /\ Lower(cleaned[i]) = Lower(cleaned[j])
        THEN Invalid ELSE cleaned

(* Empty keywords are refused. *)
ValidKeywords(keywords) ==
  IF \E i \in DOMAIN keywords : Blank(keywords[i]) THEN Invalid ELSE StripAll(keywords)

(* model_validate: every field, and no other (extra="forbid"). *)
Validated(m) ==
  LET valid == [ language   |-> ValidLanguage(m.language),
                 tags       |-> ValidTags(m.tags),
                 keywords   |-> ValidKeywords(m.keywords),
                 security   |-> IF m.security \in SecurityLevel \cup {Nothing}
                                  THEN m.security ELSE Invalid,
                 properties |-> IF m.properties \in TextDict THEN m.properties ELSE Invalid ]
  IN  IF \E f \in DOMAIN valid : valid[f] = Invalid THEN Invalid ELSE valid

\* mutant: an empty text in place of no language
SkeletonBlankLanguage(properties) ==
  [ language |-> Plain(""), tags |-> <<>>, keywords |-> <<>>,
    security |-> Nothing, properties |-> properties ]

(* KnowledgeMetadata(), around a free-form dict. *)
Skeleton(properties) ==
  [ language |-> Nothing, tags |-> <<>>, keywords |-> <<>>,
    security |-> Nothing, properties |-> properties ]
=============================================================================
