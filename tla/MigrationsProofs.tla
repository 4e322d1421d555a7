-------------------------- MODULE MigrationsProofs --------------------------
(***************************************************************************)
(* Theorems about Migrations for any documents, files and metadata, any    *)
(* retry budget, and any sequence of upgrades, downgrades and writes: the  *)
(* rows first, then the schema the revisions make of one another.          *)
(***************************************************************************)
EXTENDS Migrations, FiniteSetTheorems, TLAPS

Undotted == {e \in Text(STRING) : ~e.dotted}

GoodFile(f) == f \in File /\ f.extension \in Undotted

MetaFields == {"language", "tags", "keywords", "security", "properties"}

(* The metadata as the earlier release stores it.                          *)
IsFree(m) == m = Free(m.free) /\ m.free \in Dict

(* Metadata that the repository accepts, and reads as it is; what the      *)
(* earlier release has stored need not be text.                            *)
ReadsBack(m) ==
  /\ DOMAIN m = MetaFields /\ m # Invalid /\ m.properties \in Dict
  /\ m.properties \in TextDict => Validated(m) = m

(* The records of the model, a row each.                                   *)
IsDocument(r) ==
  r = [ file |-> r.file, meta |-> r.meta, collection |-> r.collection, space |-> r.space,
        source |-> r.source, current |-> r.current ]

IsVersion(v) == v = [doc |-> v.doc, number |-> v.number, file |-> v.file, meta |-> v.meta]

IsLegacyJob(j) ==
  /\ j = [status |-> j.status, attempts |-> j.attempts, error |-> j.error]
  /\ j.status \in Statuses /\ j.attempts \in Nat /\ j.error \in Optional

-----------------------------------------------------------------------------
(* The inductive invariant *)

(* Versions are numbered from 1, and the last one is the current one.      *)
VersionsInv ==
  /\ rev < 2 => versions = {}
  /\ \A v \in versions : IsVersion(v) /\ v.doc \in DOMAIN docs /\ GoodFile(v.file)
  /\ \A v, w \in versions : v.doc = w.doc /\ v.number = w.number => v = w
  /\ rev >= 2 =>
       \A d \in DOMAIN docs :
         docs[d].current \in Nat \ {0} /\ Numbers(d) = 1 .. docs[d].current

DocumentInv(d) ==
  /\ IsDocument(docs[d])
  /\ rev = 1 => GoodFile(docs[d].file) /\ docs[d].current = Absent
  /\ rev >= 2 => docs[d].file = Absent
  /\ rev < 3 => IsFree(docs[d].meta)
  /\ rev >= 3 =>
       /\ ReadsBack(docs[d].meta)
       /\ docs[d].source \in SourceType
       /\ Numbers(d) = {1} => docs[d].source = FromExtension(CurrentFile(d).extension)

JobInv(d) ==
  IF rev >= 4 THEN jobs[d] \in JobRecord ELSE IsLegacyJob(jobs[d])

IInv ==
  /\ rev \in 0 .. 5
  /\ DOMAIN docs \subseteq Doc /\ DOMAIN jobs = DOMAIN docs
  /\ rev = 0 => docs = <<>>
  /\ VersionsInv
  /\ \A d \in DOMAIN docs : DocumentInv(d) /\ JobInv(d)

-----------------------------------------------------------------------------
(* Facts of the operators *)

LEMMA LastIsFive == LastRevision = 5
<1> DEFINE five == <<UpFoundation, UpVersioning, NoChange, UpPipeline, UpChat>>
<1>1. Len(five) = 5
  OBVIOUS
<1>2. QED
  BY <1>1 DEF LastRevision, Up

(* SQL's table of the extensions is Python's, and what it is asked for has *)
(* no leading dot.                                                         *)
LEMMA CaseIsTable ==
  ASSUME NEW W, NEW e \in Text(W), ~e.dotted
  PROVE  CaseOf(e) = FromExtension(e)
<1>1. CaseTable = ExtensionsOf
  BY DEF CaseTable, ExtensionsOf
<1>2. StripDots(e) = e
  <2>1. e.dotted = FALSE
    BY DEF Text
  <2>2. [e EXCEPT !.dotted = FALSE] = e
    BY <2>1 DEF Text
  <2>3. QED
    BY <2>2 DEF StripDots
<1>3. QED
  BY <1>1, <1>2 DEF CaseOf, FromExtension

LEMMA SourceOfExtension ==
  ASSUME NEW e
  PROVE  FromExtension(e) \in SourceType
<1> DEFINE text == Lower(StripDots(e))
<1>1. DOMAIN ExtensionsOf \subseteq SourceType
  BY DEF ExtensionsOf, SourceType
<1>2. CASE \E t \in DOMAIN ExtensionsOf : \E w \in ExtensionsOf[t] : text = Plain(w)
  <2>1. PICK t \in DOMAIN ExtensionsOf : \E w \in ExtensionsOf[t] : text = Plain(w)
    BY <1>2
  <2>2. text.word \in ExtensionsOf[t]
    BY <2>1 DEF Plain
  <2>3. (CHOOSE u \in DOMAIN ExtensionsOf : text.word \in ExtensionsOf[u]) \in DOMAIN ExtensionsOf
    BY <2>2
  <2>4. QED
    BY <1>1, <1>2, <2>3 DEF FromExtension, LookUp
<1>3. CASE ~\E t \in DOMAIN ExtensionsOf : \E w \in ExtensionsOf[t] : text = Plain(w)
  BY <1>3 DEF FromExtension, LookUp, SourceType
<1>4. QED
  BY <1>2, <1>3

(* An admitted file is stored with the extension of its name in lower case.*)
LEMMA StoredFile ==
  ASSUME NEW c \in Candidates, ValidateUpload(Policy, c) # Refused
  PROVE  GoodFile(Stored(c))
<1>1. ValidateUpload(Policy, c) = Lower(c.extension) /\ c.extension # NoExtension
  BY DEF ValidateUpload
<1>2. c.extension \in Text(STRING) /\ ~c.extension.dotted
  BY <1>1, FilesAssumption
<1>3. Lower(c.extension) \in Undotted
  BY <1>2 DEF Lower, Text, Undotted
<1>4. c.body \in {f.body : f \in LegacyFiles \cup Candidates}
  OBVIOUS
<1>5. QED
  BY <1>1, <1>3, <1>4 DEF Stored, GoodFile, File, Undotted

LEMMA TheVersion ==
  ASSUME NEW VS, NEW d, NEW n, NEW v \in VS, v.doc = d, v.number = n,
         \A w \in VS : w.doc = d /\ w.number = n => w = v
  PROVE  (CHOOSE w \in VS : w.doc = d /\ w.number = n) = v
OBVIOUS

(* The file a document shows is that of its version with the current       *)
(* number.                                                                 *)
LEMMA CurrentFileIs ==
  ASSUME NEW d, NEW v \in versions, v.doc = d, v.number = docs[d].current,
         \A w \in versions : w.doc = d /\ w.number = docs[d].current => w = v
  PROVE  CurrentFile(d) = v.file
<1>1. docs[d].current \in Numbers(d)
  BY DEF Numbers
<1>2. VersionOf(d, docs[d].current) = v
  BY TheVersion DEF VersionOf
<1>3. QED
  BY <1>1, <1>2 DEF CurrentFile

LEMMA CurrentVersion ==
  ASSUME IInv, rev >= 2, NEW d \in DOMAIN docs
  PROVE  \E v \in versions :
           /\ v.doc = d /\ v.number = docs[d].current
           /\ \A w \in versions : w.doc = d /\ w.number = docs[d].current => w = v
           /\ CurrentFile(d) = v.file /\ GoodFile(v.file)
           /\ docs[d].current \in Numbers(d)
<1>1. docs[d].current \in Numbers(d)
  BY DEF IInv, VersionsInv
<1>2. PICK v \in versions : v.doc = d /\ v.number = docs[d].current
  BY <1>1 DEF Numbers
<1>3. \A w \in versions : w.doc = d /\ w.number = docs[d].current => w = v
  BY <1>2 DEF IInv, VersionsInv
<1>4. CurrentFile(d) = v.file
  BY <1>2, <1>3, CurrentFileIs
<1>5. QED
  BY <1>1, <1>2, <1>3, <1>4 DEF IInv, VersionsInv

(* A document whose versions and current number are left alone shows the   *)
(* file it showed.                                                         *)
LEMMA CurrentFileKept ==
  ASSUME IInv, rev >= 2, NEW d \in DOMAIN docs, versions' = versions,
         docs'[d].current = docs[d].current
  PROVE  CurrentFile(d)' = CurrentFile(d) /\ Numbers(d)' = Numbers(d)
<1>1. PICK v \in versions :
        /\ v.doc = d /\ v.number = docs[d].current
        /\ \A w \in versions : w.doc = d /\ w.number = docs[d].current => w = v
        /\ CurrentFile(d) = v.file
  BY CurrentVersion
<1>2. v \in versions' /\ v.number = docs'[d].current
      /\ \A w \in versions' : w.doc = d /\ w.number = docs'[d].current => w = v
  BY <1>1
<1>3. (CHOOSE w \in versions' : w.doc = d /\ w.number = docs'[d].current) = v
  BY <1>1, <1>2, TheVersion
<1>4. docs'[d].current \in Numbers(d)'
  BY <1>1, <1>2 DEF Numbers
<1>5. CurrentFile(d)' = v.file
  BY <1>3, <1>4 DEF CurrentFile, VersionOf
<1>6. QED
  BY <1>1, <1>5 DEF Numbers

(* A version of another document changes nothing for this one.             *)
LEMMA OthersVersion ==
  ASSUME IInv, rev >= 2, NEW d \in DOMAIN docs, NEW v, v.doc # d,
         versions' = versions \cup {v}, docs'[d].current = docs[d].current
  PROVE  CurrentFile(d)' = CurrentFile(d) /\ Numbers(d)' = Numbers(d)
<1>1. PICK w \in versions :
        /\ w.doc = d /\ w.number = docs[d].current
        /\ \A u \in versions : u.doc = d /\ u.number = docs[d].current => u = w
        /\ CurrentFile(d) = w.file
  BY CurrentVersion
<1>2. w \in versions' /\ w.number = docs'[d].current
      /\ \A u \in versions' : u.doc = d /\ u.number = docs'[d].current => u = w
  BY <1>1
<1>3. (CHOOSE u \in versions' : u.doc = d /\ u.number = docs'[d].current) = w
  BY <1>1, <1>2, TheVersion
<1>4. docs'[d].current \in Numbers(d)'
  BY <1>1, <1>2 DEF Numbers
<1>5. CurrentFile(d)' = w.file
  BY <1>3, <1>4 DEF CurrentFile, VersionOf
<1>6. QED
  BY <1>1, <1>5 DEF Numbers

(* A version with a new number that becomes the current one is the file    *)
(* the document shows.                                                     *)
LEMMA NewVersion ==
  ASSUME NEW d, NEW v, v.doc = d, v.number \notin Numbers(d),
         versions' = versions \cup {v}, docs'[d].current = v.number
  PROVE  CurrentFile(d)' = v.file /\ Numbers(d)' = Numbers(d) \cup {v.number}
<1>1. v \in versions' /\ \A w \in versions' : w.doc = d /\ w.number = docs'[d].current => w = v
  BY DEF Numbers
<1>2. (CHOOSE w \in versions' : w.doc = d /\ w.number = docs'[d].current) = v
  BY <1>1, TheVersion
<1>3. Numbers(d)' = Numbers(d) \cup {v.number}
  BY DEF Numbers
<1>4. QED
  BY <1>2, <1>3 DEF CurrentFile, VersionOf

LEMMA StatusFacts == {"queued", "running", "completed", "failed"} \subseteq Statuses
BY DEF Statuses, ActiveStatuses, TerminalStatuses

LEMMA JobSteps ==
  ASSUME NEW j \in JobRecord
  PROVE  /\ Start(j) \in JobRecord /\ Complete(j) \in JobRecord
         /\ Fail(j) \in JobRecord  /\ Retry(j) \in JobRecord
<1>1. 0 \in 0 .. 100 /\ 100 \in 0 .. 100
  OBVIOUS
<1>2. Start(j) \in JobRecord
  BY <1>1, StatusFacts DEF Start, JobRecord, Optional, None, Some
<1>3. Complete(j) \in JobRecord
  BY <1>1, StatusFacts DEF Complete, JobRecord, Optional, None, Some
<1>4. Fail(j) \in JobRecord
  BY <1>1, StatusFacts DEF Fail, JobRecord, Optional, None, Some
<1>5. Retry(j) \in JobRecord
  <2> DEFINE n == j.retry_count + 1
  <2>1. n \in Nat
    BY DEF JobRecord
  <2>2. Retry(j) = [j EXCEPT !.status = "queued", !.retry_count = n, !.progress = 0,
                             !.worker_name = None, !.started_at = None,
                             !.finished_at = None, !.error_message = None]
    BY DEF Retry
  <2> HIDE DEF n
  <2>3. QED
    BY <1>1, <2>1, <2>2, StatusFacts DEF JobRecord, Optional, None, Some
<1>6. QED
  BY <1>2, <1>3, <1>4, <1>5

-----------------------------------------------------------------------------
(* The metadata *)

LEMMA IntervalFinite ==
  ASSUME NEW n \in Nat
  PROVE  /\ IsFiniteSet(1 .. n) /\ Cardinality(1 .. n) = n
         /\ \A S \in SUBSET (1 .. n) : IsFiniteSet(S) /\ Cardinality(S) \in Nat
<1>1. IsFiniteSet(1 .. n) /\ Cardinality(1 .. n) = IF 1 > n THEN 0 ELSE n - 1 + 1
  BY FS_Interval
<1>2. \A S \in SUBSET (1 .. n) : IsFiniteSet(S)
  BY <1>1, FS_Subset
<1>3. QED
  BY <1>1, <1>2, FS_CardinalityType

(* Each number up to that of the indices kept is the place of one of them: *)
(* places are distinct, and there are as many as indices.                  *)
LEMMA PlacesFilled ==
  ASSUME NEW n \in Nat, NEW kept \in SUBSET (1 .. n), NEW k \in 1 .. Cardinality(kept)
  PROVE  \E i \in kept : Cardinality({j \in kept : j <= i}) = k
<1> DEFINE upto(i) == {j \in kept : j <= i}
           place   == [i \in kept |-> Cardinality(upto(i))]
           size    == Cardinality(kept)
<1>1. IsFiniteSet(kept) /\ size \in Nat
  BY IntervalFinite
<1>2. \A i \in kept : IsFiniteSet(upto(i)) /\ Cardinality(upto(i)) \in 1 .. size
  <2>1. TAKE i \in kept
  <2>2. upto(i) \in SUBSET kept /\ i \in upto(i)
    OBVIOUS
  <2>3. IsFiniteSet(upto(i)) /\ Cardinality(upto(i)) <= size
    BY <1>1, <2>2, FS_Subset
  <2>4. Cardinality(upto(i)) \in Nat /\ Cardinality(upto(i)) # 0
    BY <2>2, <2>3, FS_CardinalityType, FS_EmptySet
  <2> HIDE DEF upto, size
  <2>5. QED
    BY <1>1, <2>3, <2>4
<1>3. \A i, j \in kept : i < j => place[i] # place[j]
  <2>1. TAKE i, j \in kept
  <2>2. HAVE i < j
  <2>3. upto(i) \in SUBSET upto(j) /\ j \in upto(j) /\ j \notin upto(i)
    <3>1. i \in Int /\ j \in Int /\ ~(j <= i) /\ j <= j
      BY <2>2
    <3>2. \A m \in kept : m \in Int /\ (m <= i => m <= j)
      BY <2>2, <3>1
    <3>3. QED
      BY <3>1, <3>2
  <2>4. Cardinality(upto(i)) # Cardinality(upto(j))
    BY <1>2, <2>3, FS_Subset
  <2>5. QED
    BY <2>4
<1>4. place \in Injection(kept, 1 .. size)
  <2>1. place \in [kept -> 1 .. size]
    BY <1>2
  <2>2. \A i, j \in kept : place[i] = place[j] => i = j
    BY <1>3
  <2> HIDE DEF place, size
  <2>3. QED
    BY <2>1, <2>2 DEF Injection, IsInjective
<1>5. IsFiniteSet(1 .. size) /\ Cardinality(1 .. size) = size
  BY <1>1, IntervalFinite
<1>6. place \in Surjection(kept, 1 .. size)
  BY <1>4, <1>5, FS_Injection
<1>7. \E i \in kept : place[i] = k
  BY <1>6 DEF Surjection
<1>8. QED
  BY <1>7

(* What the filter leaves are texts it was given, none of them blank.      *)
LEMMA NonBlankTexts ==
  ASSUME NEW W, NEW texts \in Seq(W)
  PROVE  /\ NonBlank(texts) \in Seq(W)
         /\ \A k \in DOMAIN NonBlank(texts) :
              /\ ~Blank(NonBlank(texts)[k])
              /\ \E i \in DOMAIN texts : NonBlank(texts)[k] = texts[i]
<1> DEFINE kept   == {i \in DOMAIN texts : ~Blank(texts[i])}
           At(k)  == CHOOSE i \in kept : Cardinality({j \in kept : j <= i}) = k
           size   == Cardinality(kept)
<1>1. DOMAIN texts = 1 .. Len(texts) /\ Len(texts) \in Nat
  OBVIOUS
<1>2. kept \in SUBSET (1 .. Len(texts))
  BY <1>1
<1>3. size \in Nat
  BY <1>1, <1>2, IntervalFinite
<1>4. \A k \in 1 .. size : At(k) \in kept
  BY <1>1, <1>2, PlacesFilled
<1>5. NonBlank(texts) = [k \in 1 .. size |-> texts[At(k)]]
  BY DEF NonBlank
<1>6. \A k \in 1 .. size : ~Blank(texts[At(k)]) /\ At(k) \in DOMAIN texts
  BY <1>4
<1>7. \A k \in 1 .. size : texts[At(k)] \in W
  <2>1. \A i \in DOMAIN texts : texts[i] \in W
    OBVIOUS
  <2> HIDE DEF At, size
  <2>2. QED
    BY <1>6, <2>1
<1> HIDE DEF kept, At, size
<1>8. [k \in 1 .. size |-> texts[At(k)]] \in Seq(W)
  BY <1>3, <1>7
<1>9. QED
  BY <1>5, <1>6, <1>8

(* Where there is nothing to filter out it changes nothing.                *)
LEMMA NonBlankKept ==
  ASSUME NEW W, NEW texts \in Seq(W), \A i \in DOMAIN texts : ~Blank(texts[i])
  PROVE  NonBlank(texts) = texts
<1> DEFINE n == Len(texts)
           kept == {i \in DOMAIN texts : ~Blank(texts[i])}
           At(k)  == CHOOSE i \in kept : Cardinality({j \in kept : j <= i}) = k
<1>1. n \in Nat /\ DOMAIN texts = 1 .. n
  OBVIOUS
<1>2. kept = 1 .. n
  BY <1>1
<1>3. Cardinality(kept) = n
  BY <1>1, <1>2, IntervalFinite
<1>4. \A i \in 1 .. n : Cardinality({j \in kept : j <= i}) = i
  <2>1. TAKE i \in 1 .. n
  <2>2. {j \in kept : j <= i} = 1 .. i
    BY <1>1, <1>2
  <2>3. Cardinality(1 .. i) = i
    BY <1>1, IntervalFinite
  <2>4. QED
    BY <2>2, <2>3
<1>5. \A k \in 1 .. n : At(k) = k
  BY <1>2, <1>4
<1>6. NonBlank(texts) = [k \in 1 .. n |-> texts[At(k)]]
  BY <1>3 DEF NonBlank
<1> HIDE DEF At, n
<1>7. [k \in 1 .. n |-> texts[At(k)]] = [k \in 1 .. n |-> texts[k]]
  BY <1>5
<1>8. texts = [k \in 1 .. n |-> texts[k]]
  BY <1>1
<1>9. QED
  BY <1>6, <1>7, <1>8

LEMMA StripText ==
  ASSUME NEW t \in Text(STRING)
  PROVE  /\ Strip(t) \in Text(STRING) /\ Strip(Strip(t)) = Strip(t)
         /\ Blank(Strip(t)) <=> Blank(t)
BY DEF Strip, Text, Blank

LEMMA StripTexts ==
  ASSUME NEW texts \in Seq(Text(STRING))
  PROVE  /\ StripAll(texts) \in Seq(Text(STRING)) /\ DOMAIN StripAll(texts) = DOMAIN texts
         /\ \A i \in DOMAIN texts : StripAll(texts)[i] = Strip(texts[i])
         /\ (\A i \in DOMAIN texts : Strip(texts[i]) = texts[i]) => StripAll(texts) = texts
<1>1. Len(texts) \in Nat /\ DOMAIN texts = 1 .. Len(texts)
      /\ \A i \in 1 .. Len(texts) : texts[i] \in Text(STRING)
  OBVIOUS
<1>2. StripAll(texts) = [i \in 1 .. Len(texts) |-> Strip(texts[i])]
  BY <1>1 DEF StripAll
<1>3. \A i \in 1 .. Len(texts) : Strip(texts[i]) \in Text(STRING)
  BY <1>1, StripText
<1>4. texts = [i \in 1 .. Len(texts) |-> texts[i]]
  BY <1>1
<1>5. QED
  BY <1>1, <1>2, <1>3, <1>4

LEMMA TagsIdempotent ==
  ASSUME NEW tags \in Seq(Text(STRING)), ValidTags(tags) # Invalid
  PROVE  ValidTags(ValidTags(tags)) = ValidTags(tags)
<1> DEFINE stripped == StripAll(tags)
           cleaned  == NonBlank(stripped)
           repeated == \E i, j \in DOMAIN cleaned : i < j /\ Lower(cleaned[i]) = Lower(cleaned[j])
<1>1. ValidTags(tags) = cleaned /\ ~repeated
  BY DEF ValidTags
<1>2. stripped \in Seq(Text(STRING)) /\ \A i \in DOMAIN stripped : Strip(stripped[i]) = stripped[i]
  <2>1. \A i \in DOMAIN tags : tags[i] \in Text(STRING)
    OBVIOUS
  <2>2. QED
    BY <2>1, StripText, StripTexts
<1> HIDE DEF stripped
<1>3. cleaned \in Seq(Text(STRING))
      /\ \A k \in DOMAIN cleaned : /\ ~Blank(cleaned[k])
                                   /\ \E i \in DOMAIN stripped : cleaned[k] = stripped[i]
  BY <1>2, NonBlankTexts
<1> HIDE DEF cleaned
<1>4. StripAll(cleaned) = cleaned
  BY <1>2, <1>3, StripTexts
<1>5. NonBlank(cleaned) = cleaned
  BY <1>3, NonBlankKept
<1>6. QED
  BY <1>1, <1>4, <1>5 DEF ValidTags

LEMMA KeywordsIdempotent ==
  ASSUME NEW keywords \in Seq(Text(STRING)), ValidKeywords(keywords) # Invalid
  PROVE  ValidKeywords(ValidKeywords(keywords)) = ValidKeywords(keywords)
<1> DEFINE stripped == StripAll(keywords)
<1>1. ValidKeywords(keywords) = stripped /\ \A i \in DOMAIN keywords : ~Blank(keywords[i])
  BY DEF ValidKeywords
<1>2. \A i \in DOMAIN keywords : keywords[i] \in Text(STRING)
  OBVIOUS
<1>3. stripped \in Seq(Text(STRING)) /\ DOMAIN stripped = DOMAIN keywords
      /\ \A i \in DOMAIN stripped : Strip(stripped[i]) = stripped[i] /\ ~Blank(stripped[i])
  BY <1>1, <1>2, StripText, StripTexts
<1> HIDE DEF stripped
<1>4. StripAll(stripped) = stripped
  BY <1>3, StripTexts
<1>5. QED
  BY <1>1, <1>3, <1>4 DEF ValidKeywords

LEMMA LanguageIdempotent ==
  ASSUME NEW language, ValidLanguage(language) # Invalid
  PROVE  ValidLanguage(ValidLanguage(language)) = ValidLanguage(language)
<1>1. CASE ValidLanguage(language) = Nothing
  BY <1>1 DEF ValidLanguage
<1>2. CASE \E w \in AllowedLanguages : ValidLanguage(language) = Plain(w)
  <2>1. PICK w \in AllowedLanguages : ValidLanguage(language) = Plain(w)
    BY <1>2
  <2>2. Strip(Plain(w)) = Plain(w) /\ Lower(Plain(w)) = Plain(w)
    <3>1. Plain(w) \in Text({w}) /\ Plain(w).before = FALSE /\ Plain(w).after = FALSE /\ Plain(w).upper = FALSE
      BY DEF Plain, Text
    <3>2. QED
      BY <3>1 DEF Lower, Strip, Text
  <2>3. ValidLanguage(Plain(w)) = Plain(w)
    BY <2>2 DEF ValidLanguage
  <2>4. QED
    BY <2>1, <2>3
<1>3. QED
  BY <1>1, <1>2 DEF ValidLanguage

ValidFields(m) ==
  [ language |-> m.language, tags |-> m.tags, keywords |-> m.keywords,
    security |-> m.security, properties |-> m.properties ]

(* Metadata that every validator leaves alone is read as it is.            *)
LEMMA ValidatedWhen ==
  ASSUME NEW m, m = ValidFields(m),
         ValidLanguage(m.language) = m.language, m.language # Invalid,
         ValidTags(m.tags) = m.tags, m.tags # Invalid,
         ValidKeywords(m.keywords) = m.keywords, m.keywords # Invalid,
         m.security \in SecurityLevel \cup {Nothing}, m.security # Invalid,
         m.properties \in TextDict, m.properties # Invalid
  PROVE  Validated(m) = m
<1> DEFINE valid == ValidFields(m)
<1>1. DOMAIN valid = {"language", "tags", "keywords", "security", "properties"}
      /\ \A f \in DOMAIN valid : valid[f] # Invalid
  BY DEF ValidFields
<1>2. Validated(m) = IF \E f \in DOMAIN valid : valid[f] = Invalid THEN Invalid ELSE valid
  BY DEF Validated, ValidFields
<1> HIDE DEF valid
<1>3. Validated(m) = valid
  BY <1>1, <1>2
<1>4. QED
  BY <1>3 DEF valid

(* What validation makes of each field, if it refuses none.                *)
LEMMA ValidatedIs ==
  ASSUME NEW m, Validated(m) # Invalid
  PROVE  /\ ValidLanguage(m.language) # Invalid /\ ValidTags(m.tags) # Invalid
         /\ ValidKeywords(m.keywords) # Invalid
         /\ m.security \in SecurityLevel \cup {Nothing} /\ m.security # Invalid
         /\ m.properties \in TextDict /\ m.properties # Invalid
         /\ Validated(m) = [ language |-> ValidLanguage(m.language), tags |-> ValidTags(m.tags),
                             keywords |-> ValidKeywords(m.keywords), security |-> m.security,
                             properties |-> m.properties ]
BY DEF Validated

(* Validation is idempotent: what a client's metadata became when it was   *)
(* validated on its way in is accepted, and left alone, every time the row *)
(* is read.                                                                *)
THEOREM ValidatedIdempotent ==
  ASSUME NEW m \in Metadata, Validated(m) # Invalid
  PROVE  Validated(Validated(m)) = Validated(m)
<1> DEFINE v == Validated(m)
<1>1. /\ v.language = ValidLanguage(m.language) /\ v.tags = ValidTags(m.tags)
      /\ v.keywords = ValidKeywords(m.keywords) /\ v.security = m.security
      /\ v.properties = m.properties
  BY ValidatedIs
<1>2. v = ValidFields(v)
  BY ValidatedIs DEF ValidFields
<1>3. m.tags \in Seq(Text(STRING)) /\ m.keywords \in Seq(Text(STRING))
  BY DEF Metadata
<1>4. /\ ValidLanguage(v.language) = v.language /\ ValidTags(v.tags) = v.tags
      /\ ValidKeywords(v.keywords) = v.keywords
  BY <1>1, <1>3, ValidatedIs, LanguageIdempotent, TagsIdempotent, KeywordsIdempotent
<1>5. /\ v.language # Invalid /\ v.tags # Invalid /\ v.keywords # Invalid
      /\ v.security \in SecurityLevel \cup {Nothing} /\ v.security # Invalid
      /\ v.properties \in TextDict /\ v.properties # Invalid
  BY <1>1, ValidatedIs
<1> HIDE DEF v
<1>6. QED
  BY <1>2, <1>4, <1>5, ValidatedWhen DEF v

(* So is the metadata of an upload, and what an upgrade makes of text.     *)
LEMMA SkeletonValid ==
  ASSUME NEW properties \in TextDict
  PROVE  Validated(Skeleton(properties)) = Skeleton(properties)
<1> DEFINE s == Skeleton(properties)
<1>1. /\ s.language = Nothing /\ s.tags = <<>> /\ s.keywords = <<>> /\ s.security = Nothing
      /\ s.properties = properties /\ s = ValidFields(s)
  BY DEF Skeleton, ValidFields
<1>2. properties \in Dict
  BY DEF TextDict, Dict
<1>3. Nothing # Invalid /\ <<>> # Invalid /\ properties # Invalid
  BY <1>2, InvalidAssumption
<1>4. StripAll(<<>>) = <<>> /\ NonBlank(<<>>) = <<>>
  <2>1. <<>> \in Seq(Text(STRING)) /\ DOMAIN <<>> = {}
    OBVIOUS
  <2>2. QED
    BY <2>1, StripTexts, NonBlankKept
<1>5. ValidLanguage(Nothing) = Nothing /\ ValidTags(<<>>) = <<>> /\ ValidKeywords(<<>>) = <<>>
  BY <1>4 DEF ValidLanguage, ValidTags, ValidKeywords
<1> HIDE DEF s
<1>6. Validated(s) = s
  BY <1>1, <1>3, <1>5, ValidatedWhen
<1>7. QED
  BY <1>6 DEF s

LEMMA SkeletonReadsBack ==
  ASSUME NEW properties \in Dict
  PROVE  ReadsBack(Skeleton(properties))
<1>1. <<>> \in Seq(Text(STRING))
  OBVIOUS
<1>2. Skeleton(properties) \in Metadata
  BY <1>1 DEF Skeleton, Metadata
<1>3. Skeleton(properties).properties = properties /\ DOMAIN Skeleton(properties) = MetaFields
  BY DEF Skeleton, MetaFields
<1>4. QED
  BY <1>2, <1>3, SkeletonValid, InvalidAssumption DEF ReadsBack

LEMMA PatchReadsBack ==
  ASSUME NEW m \in Metadata, Validated(m) # Invalid
  PROVE  ReadsBack(Validated(m))
<1>1. Validated(m).properties = m.properties /\ DOMAIN Validated(m) = MetaFields
  BY ValidatedIs DEF MetaFields
<1>2. m.properties \in Dict
  BY DEF Metadata
<1>3. QED
  BY <1>1, <1>2, ValidatedIdempotent DEF ReadsBack

-----------------------------------------------------------------------------
(* The revisions *)

(* What each revision does to the number, and what it leaves alone.        *)
LEMMA RevisionSteps ==
  /\ UpgradeFoundation   => rev = 0 /\ rev' = 1 /\ UNCHANGED <<docs, versions, jobs>>
  /\ DowngradeFoundation => rev = 1 /\ rev' = 0
  /\ UpgradeVersioning   => rev = 1 /\ rev' = 2 /\ jobs' = jobs /\ DOMAIN docs' = DOMAIN docs
  /\ DowngradeVersioning => rev = 2 /\ rev' = 1 /\ jobs' = jobs /\ DOMAIN docs' = DOMAIN docs
  /\ UpgradeMetadata     => /\ rev = 2 /\ rev' = 3 /\ UNCHANGED <<versions, jobs>>
                            /\ DOMAIN docs' = DOMAIN docs
  /\ DowngradeMetadata   => /\ rev = 3 /\ rev' = 2 /\ UNCHANGED <<versions, jobs>>
                            /\ DOMAIN docs' = DOMAIN docs
  /\ UpgradePipeline     => /\ rev = 3 /\ rev' = 4 /\ UNCHANGED <<docs, versions>>
                            /\ DOMAIN jobs' = DOMAIN jobs
  /\ DowngradePipeline   => /\ rev = 4 /\ rev' = 3 /\ UNCHANGED <<docs, versions>>
                            /\ DOMAIN jobs' = DOMAIN jobs
  /\ UpgradeChat         => rev = 4 /\ rev' = 5 /\ UNCHANGED <<docs, versions, jobs>>
  /\ DowngradeChat       => rev = 5 /\ rev' = 4 /\ UNCHANGED <<docs, versions, jobs>>
<1>1. \A r \in Nat : Upgrade(r) => rev = r - 1 /\ rev' = r
  BY DEF Upgrade
<1>2. \A r \in Nat : Downgrade(r) => rev = r /\ rev' = r - 1
  BY DEF Downgrade
<1>3. UpgradeFoundation => Upgrade(1) /\ UNCHANGED <<docs, versions, jobs>>
  BY DEF UpgradeFoundation, rows
<1>4. DowngradeFoundation => Downgrade(1)
  BY DEF DowngradeFoundation
<1>5. UpgradeVersioning => Upgrade(2) /\ jobs' = jobs /\ DOMAIN docs' = DOMAIN docs
  BY DEF UpgradeVersioning
<1>6. DowngradeVersioning => Downgrade(2) /\ jobs' = jobs /\ DOMAIN docs' = DOMAIN docs
  BY DEF DowngradeVersioning
<1>7. UpgradeMetadata => /\ Upgrade(3) /\ UNCHANGED <<versions, jobs>>
                         /\ DOMAIN docs' = DOMAIN docs
  BY DEF UpgradeMetadata
<1>8. DowngradeMetadata => /\ Downgrade(3) /\ UNCHANGED <<versions, jobs>>
                           /\ DOMAIN docs' = DOMAIN docs
  BY DEF DowngradeMetadata
<1>9. UpgradePipeline => /\ Upgrade(4) /\ UNCHANGED <<docs, versions>>
                         /\ DOMAIN jobs' = DOMAIN jobs
  BY DEF UpgradePipeline
<1>10. DowngradePipeline => /\ Downgrade(4) /\ UNCHANGED <<docs, versions>>
                            /\ DOMAIN jobs' = DOMAIN jobs
  BY DEF DowngradePipeline
<1>11. UpgradeChat => Upgrade(5) /\ UNCHANGED <<docs, versions, jobs>>
  BY DEF UpgradeChat, rows
<1>12. DowngradeChat => Downgrade(5) /\ UNCHANGED <<docs, versions, jobs>>
  BY DEF DowngradeChat, rows
<1>13. QED
  BY <1>1, <1>2, <1>3, <1>4, <1>5, <1>6, <1>7, <1>8, <1>9, <1>10, <1>11, <1>12

(* A revision that keeps the versions and the documents' current numbers.  *)
LEMMA RevisionKeepsIInv ==
  ASSUME IInv, rev' \in 2 .. 5, rev \in 2 .. 5, UNCHANGED versions,
         DOMAIN docs' = DOMAIN docs, DOMAIN jobs' = DOMAIN docs,
         \A d \in DOMAIN docs :
           /\ docs'[d].current = docs[d].current /\ docs'[d].file = docs[d].file
           /\ IsDocument(docs'[d])
           /\ rev' < 3 => IsFree(docs'[d].meta)
           /\ rev' >= 3 =>
                /\ ReadsBack(docs'[d].meta)
                /\ docs'[d].source \in SourceType
                /\ Numbers(d) = {1} => docs'[d].source = FromExtension(CurrentFile(d).extension)
           /\ JobInv(d)'
  PROVE  IInv'
<1>1. \A d \in DOMAIN docs : CurrentFile(d)' = CurrentFile(d) /\ Numbers(d)' = Numbers(d)
  BY CurrentFileKept
<1>2. VersionsInv'
  BY <1>1 DEF IInv, VersionsInv
<1>3. \A d \in DOMAIN docs : DocumentInv(d)'
  BY <1>1 DEF IInv, DocumentInv
<1>4. QED
  BY <1>2, <1>3 DEF IInv

LEMMA UpgradeFoundationKeepsIInv ==
  ASSUME IInv, UpgradeFoundation
  PROVE  IInv'
<1>1. rev = 0 /\ rev' = 1 /\ UNCHANGED <<docs, versions, jobs>> /\ docs = <<>>
  BY RevisionSteps DEF IInv
<1>2. DOMAIN docs = {}
  BY <1>1
<1>3. QED
  BY <1>1, <1>2 DEF IInv, VersionsInv

LEMMA DowngradeFoundationKeepsIInv ==
  ASSUME IInv, DowngradeFoundation
  PROVE  IInv'
<1>1. rev = 1 /\ rev' = 0 /\ docs' = <<>> /\ jobs' = <<>> /\ versions' = versions
  BY DEF DowngradeFoundation, Downgrade
<1>2. DOMAIN docs' = {} /\ DOMAIN jobs' = {} /\ versions' = {}
  BY <1>1 DEF IInv, VersionsInv
<1>3. QED
  BY <1>1, <1>2 DEF IInv, VersionsInv

(* What becomes of a document that gets a version: it has that one only,   *)
(* and shows the file it had.                                              *)
LEMMA VersioningFacts ==
  ASSUME IInv, UpgradeVersioning, NEW d \in DOMAIN docs
  PROVE  /\ docs'[d] = [docs[d] EXCEPT !.file = Absent, !.collection = Absent,
                                       !.space = docs[d].collection, !.source = "file_upload",
                                       !.current = 1]
         /\ IsDocument(docs'[d]) /\ docs'[d].current = 1 /\ docs'[d].file = Absent
         /\ docs'[d].meta = docs[d].meta /\ docs'[d].space = docs[d].collection
         /\ Numbers(d)' = {1} /\ CurrentFile(d)' = docs[d].file
<1>1. /\ docs'[d] = [docs[d] EXCEPT !.file = Absent, !.collection = Absent,
                                    !.space = docs[d].collection, !.source = "file_upload",
                                    !.current = 1]
      /\ versions' = {[doc |-> e, number |-> 1, file |-> docs[e].file, meta |-> docs[e].meta] :
                        e \in DOMAIN docs}
  BY DEF UpgradeVersioning
<1>2. IsDocument(docs[d])
  BY DEF IInv, DocumentInv
<1>3. /\ IsDocument(docs'[d]) /\ docs'[d].current = 1 /\ docs'[d].file = Absent
      /\ docs'[d].meta = docs[d].meta /\ docs'[d].space = docs[d].collection
  BY <1>1, <1>2 DEF IsDocument
<1> DEFINE v == [doc |-> d, number |-> 1, file |-> docs[d].file, meta |-> docs[d].meta]
<1>4. /\ v \in versions' /\ v.doc = d /\ v.number = 1 /\ v.file = docs[d].file
      /\ \A w \in versions' : w.doc = d => w = v
  BY <1>1
<1> HIDE DEF v
<1>5. Numbers(d)' = {1}
  BY <1>4 DEF Numbers
<1>6. CurrentFile(d)' = docs[d].file
  <2>1. (CHOOSE w \in versions' : w.doc = d /\ w.number = docs'[d].current) = v
    BY <1>3, <1>4, TheVersion
  <2>2. QED
    BY <1>3, <1>4, <1>5, <2>1 DEF CurrentFile, VersionOf
<1>7. QED
  BY <1>1, <1>3, <1>5, <1>6

LEMMA UpgradeVersioningKeepsIInv ==
  ASSUME IInv, UpgradeVersioning
  PROVE  IInv'
<1>1. /\ rev = 1 /\ rev' = 2 /\ jobs' = jobs /\ DOMAIN docs' = DOMAIN docs
      /\ versions' = {[doc |-> d, number |-> 1, file |-> docs[d].file, meta |-> docs[d].meta] :
                        d \in DOMAIN docs}
  <2>1. /\ Upgrade(2) /\ jobs' = jobs /\ DOMAIN docs' = DOMAIN docs
        /\ versions' = {[doc |-> d, number |-> 1, file |-> docs[d].file, meta |-> docs[d].meta] :
                          d \in DOMAIN docs}
    BY DEF UpgradeVersioning
  <2>2. QED
    BY <2>1 DEF Upgrade
<1>2. VersionsInv'
  <2>1. \A v \in versions' : IsVersion(v) /\ v.doc \in DOMAIN docs' /\ GoodFile(v.file)
    BY <1>1 DEF IInv, DocumentInv, IsVersion
  <2>2. \A v, w \in versions' : v.doc = w.doc /\ v.number = w.number => v = w
    BY <1>1
  <2>3. \A d \in DOMAIN docs' :
          docs'[d].current \in Nat \ {0} /\ Numbers(d)' = 1 .. docs'[d].current
    <3> SUFFICES ASSUME NEW d \in DOMAIN docs
                 PROVE  docs'[d].current \in Nat \ {0} /\ Numbers(d)' = 1 .. docs'[d].current
      BY <1>1
    <3>1. docs'[d].current = 1 /\ Numbers(d)' = {1}
      BY VersioningFacts
    <3>2. 1 .. 1 = {1}
      OBVIOUS
    <3>3. QED
      BY <3>1, <3>2
  <2>4. QED
    BY <1>1, <2>1, <2>2, <2>3 DEF VersionsInv
<1>3. ASSUME NEW d \in DOMAIN docs PROVE DocumentInv(d)' /\ JobInv(d)'
  <2>1. /\ IsDocument(docs'[d]) /\ docs'[d].file = Absent /\ docs'[d].meta = docs[d].meta
    BY VersioningFacts
  <2>2. IsFree(docs[d].meta) /\ IsLegacyJob(jobs[d])
    BY <1>1 DEF IInv, DocumentInv, JobInv
  <2>3. QED
    BY <1>1, <2>1, <2>2 DEF DocumentInv, JobInv
<1>4. QED
  BY <1>1, <1>2, <1>3 DEF IInv

LEMMA UnversioningFacts ==
  ASSUME IInv, DowngradeVersioning, NEW d \in DOMAIN docs
  PROVE  /\ IsDocument(docs'[d]) /\ docs'[d].current = Absent
         /\ docs'[d].file = CurrentFile(d) /\ GoodFile(docs'[d].file)
         /\ docs'[d].meta = docs[d].meta /\ docs'[d].collection = docs[d].space
<1>1. rev = 2
  BY DEF DowngradeVersioning, Downgrade
<1>2. docs[d].current \in Numbers(d) /\ GoodFile(CurrentFile(d))
  BY <1>1, CurrentVersion
<1>3. docs'[d] = [docs[d] EXCEPT !.file = CurrentFile(d), !.collection = docs[d].space,
                                 !.space = Absent, !.source = Absent, !.current = Absent]
  BY <1>2 DEF DowngradeVersioning
<1>4. IsDocument(docs[d])
  BY DEF IInv, DocumentInv
<1>5. QED
  BY <1>2, <1>3, <1>4 DEF IsDocument

LEMMA DowngradeVersioningKeepsIInv ==
  ASSUME IInv, DowngradeVersioning
  PROVE  IInv'
<1>1. /\ rev = 2 /\ rev' = 1 /\ jobs' = jobs /\ DOMAIN docs' = DOMAIN docs /\ versions' = {}
  <2>1. Downgrade(2) /\ jobs' = jobs /\ DOMAIN docs' = DOMAIN docs /\ versions' = {}
    BY DEF DowngradeVersioning
  <2>2. QED
    BY <2>1 DEF Downgrade
<1>2. \A d \in DOMAIN docs : DocumentInv(d)' /\ JobInv(d)'
  BY <1>1, UnversioningFacts DEF IInv, DocumentInv, JobInv
<1>3. QED
  BY <1>1, <1>2 DEF IInv, VersionsInv

LEMMA UpgradeMetadataKeepsIInv ==
  ASSUME IInv, UpgradeMetadata
  PROVE  IInv'
<1>1. /\ rev = 2 /\ rev' = 3 /\ UNCHANGED <<versions, jobs>> /\ DOMAIN docs' = DOMAIN docs
  BY RevisionSteps
<1>2. ASSUME NEW d \in DOMAIN docs
      PROVE  /\ docs'[d].current = docs[d].current /\ docs'[d].file = docs[d].file
             /\ IsDocument(docs'[d])
             /\ ReadsBack(docs'[d].meta)
             /\ docs'[d].source = FromExtension(CurrentFile(d).extension)
  <2>1. GoodFile(CurrentFile(d))
    BY <1>1, CurrentVersion
  <2>2. CurrentFile(d) # Nothing /\ CurrentFile(d).extension \in Undotted
    BY <2>1, FilesAssumption DEF GoodFile
  <2>3. CaseOf(CurrentFile(d).extension) = FromExtension(CurrentFile(d).extension)
    BY <2>2, CaseIsTable DEF Undotted
  <2>4. docs'[d] = [docs[d] EXCEPT !.source = FromExtension(CurrentFile(d).extension),
                                   !.meta   = Skeleton(docs[d].meta.free)]
    BY <2>2, <2>3 DEF UpgradeMetadata
  <2>5. IsDocument(docs[d])
    BY DEF IInv, DocumentInv
  <2>6. /\ docs'[d].current = docs[d].current /\ docs'[d].file = docs[d].file
        /\ IsDocument(docs'[d])
        /\ docs'[d].meta = Skeleton(docs[d].meta.free)
        /\ docs'[d].source = FromExtension(CurrentFile(d).extension)
    BY <2>4, <2>5 DEF IsDocument
  <2>7. docs[d].meta.free \in Dict
    BY <1>1 DEF IInv, DocumentInv, IsFree
  <2>8. QED
    BY <2>6, <2>7, SkeletonReadsBack
<1>3. \A d \in DOMAIN docs : docs'[d].source \in SourceType /\ JobInv(d)'
  BY <1>1, <1>2, SourceOfExtension DEF IInv, JobInv
<1>4. QED
  BY <1>1, <1>2, <1>3, RevisionKeepsIInv DEF IInv

LEMMA DowngradeMetadataKeepsIInv ==
  ASSUME IInv, DowngradeMetadata
  PROVE  IInv'
<1>1. /\ rev = 3 /\ rev' = 2 /\ UNCHANGED <<versions, jobs>> /\ DOMAIN docs' = DOMAIN docs
  BY RevisionSteps
<1>2. ASSUME NEW d \in DOMAIN docs
      PROVE  /\ docs'[d].current = docs[d].current /\ docs'[d].file = docs[d].file
             /\ IsDocument(docs'[d])
             /\ IsFree(docs'[d].meta)
  <2>1. docs'[d] = [docs[d] EXCEPT !.source = "file_upload", !.meta = Free(docs[d].meta.properties)]
    BY DEF DowngradeMetadata
  <2>2. IsDocument(docs[d])
    BY DEF IInv, DocumentInv
  <2>3. /\ docs'[d].current = docs[d].current /\ docs'[d].file = docs[d].file
        /\ IsDocument(docs'[d])
        /\ docs'[d].meta = Free(docs[d].meta.properties)
    BY <2>1, <2>2 DEF IsDocument
  <2>4. docs[d].meta.properties \in Dict
    BY <1>1 DEF IInv, DocumentInv, ReadsBack
  <2>5. QED
    BY <2>3, <2>4 DEF IsFree, Free
<1>3. \A d \in DOMAIN docs : JobInv(d)'
  BY <1>1 DEF IInv, JobInv
<1>4. QED
  BY <1>1, <1>2, <1>3, RevisionKeepsIInv DEF IInv

LEMMA UpgradePipelineKeepsIInv ==
  ASSUME IInv, UpgradePipeline
  PROVE  IInv'
<1>1. /\ rev = 3 /\ rev' = 4 /\ UNCHANGED <<docs, versions>> /\ DOMAIN jobs' = DOMAIN jobs
  BY RevisionSteps
<1>2. ASSUME NEW d \in DOMAIN docs PROVE jobs'[d] \in JobRecord
  <2>1. IsLegacyJob(jobs[d])
    BY <1>1 DEF IInv, JobInv
  <2>2. jobs'[d] = [NewJob EXCEPT !.status = jobs[d].status, !.retry_count = jobs[d].attempts,
                                  !.error_message = jobs[d].error]
    BY DEF UpgradePipeline, IInv
  <2>3. jobs'[d] = [ status |-> jobs[d].status, retry_count |-> jobs[d].attempts, progress |-> 0,
                     worker_name |-> None, error_message |-> jobs[d].error,
                     started_at |-> None, finished_at |-> None ]
    BY <2>2 DEF NewJob
  <2>4. 0 \in 0 .. 100 /\ None \in Optional
    BY DEF Optional
  <2>5. QED
    BY <2>1, <2>3, <2>4 DEF IsLegacyJob, JobRecord
<1>3. QED
  BY <1>1, <1>2, RevisionKeepsIInv DEF IInv, DocumentInv, JobInv

LEMMA DowngradePipelineKeepsIInv ==
  ASSUME IInv, DowngradePipeline
  PROVE  IInv'
<1>1. /\ rev = 4 /\ rev' = 3 /\ UNCHANGED <<docs, versions>> /\ DOMAIN jobs' = DOMAIN jobs
  BY RevisionSteps
<1>2. ASSUME NEW d \in DOMAIN docs PROVE IsLegacyJob(jobs'[d])
  <2>1. jobs[d] \in JobRecord
    BY <1>1 DEF IInv, JobInv
  <2>2. jobs'[d] = [status |-> jobs[d].status, attempts |-> jobs[d].retry_count,
                    error |-> jobs[d].error_message]
    BY DEF DowngradePipeline, IInv
  <2>3. QED
    BY <2>1, <2>2 DEF IsLegacyJob, JobRecord
<1>3. QED
  BY <1>1, <1>2, RevisionKeepsIInv DEF IInv, DocumentInv, JobInv

LEMMA ChatKeepsIInv ==
  ASSUME IInv, UpgradeChat \/ DowngradeChat
  PROVE  IInv'
<1>1. /\ rev \in {4, 5} /\ rev' \in {4, 5} /\ UNCHANGED <<docs, versions, jobs>>
  BY RevisionSteps
<1>2. QED
  BY <1>1, RevisionKeepsIInv DEF IInv, DocumentInv, JobInv

-----------------------------------------------------------------------------
(* The releases *)

LEMMA LegacyWriteKeepsIInv ==
  ASSUME IInv, NEW d \in Doc, LegacyWrite(d)
  PROVE  IInv'
<1>1. /\ rev = 1 /\ rev' = 1 /\ d \notin DOMAIN docs /\ versions' = versions
  BY DEF LegacyWrite
<1>2. PICK file \in LegacyFiles, meta \in LegacyProps,
           collection \in Space \cup {Nothing} :
        docs' = Insert(docs, d,
          [ file |-> file, meta |-> Free(meta), collection |-> collection, space |-> Absent,
            source |-> Absent, current |-> Absent ])
  BY DEF LegacyWrite
<1>3. PICK status \in LegacyStatus, attempts \in 0 .. MaxRetries, error \in Optional :
        jobs' = Insert(jobs, d, [status |-> status, attempts |-> attempts, error |-> error])
  BY DEF LegacyWrite, Optional
<1>4. /\ DOMAIN docs' = DOMAIN docs \cup {d}
      /\ docs'[d] = [ file |-> file, meta |-> Free(meta), collection |-> collection,
                      space |-> Absent, source |-> Absent, current |-> Absent ]
      /\ \A e \in DOMAIN docs \ {d} : docs'[e] = docs[e]
  BY <1>2 DEF Insert
<1>5. /\ DOMAIN jobs' = DOMAIN jobs \cup {d}
      /\ jobs'[d] = [status |-> status, attempts |-> attempts, error |-> error]
      /\ \A e \in DOMAIN jobs \ {d} : jobs'[e] = jobs[e]
  BY <1>3 DEF Insert
<1>6. DocumentInv(d)' /\ JobInv(d)'
  <2>1. GoodFile(file)
    BY FilesAssumption DEF GoodFile, File, Undotted
  <2>2. status \in Statuses /\ attempts \in Nat
    BY StatusAssumption, MaxRetriesAssumption
  <2>3. IsLegacyJob(jobs'[d])
    BY <1>5, <2>2 DEF IsLegacyJob
  <2>4. IsDocument(docs'[d]) /\ IsFree(docs'[d].meta)
    BY <1>4, LegacyAssumption DEF IsDocument, IsFree, Free
  <2>5. QED
    BY <1>1, <1>4, <2>1, <2>3, <2>4 DEF DocumentInv, JobInv
<1>7. \A e \in DOMAIN docs \ {d} : DocumentInv(e)' /\ JobInv(e)'
  BY <1>1, <1>4, <1>5 DEF IInv, DocumentInv, JobInv
<1>8. VersionsInv'
  BY <1>1, <1>4 DEF IInv, VersionsInv
<1>9. QED
  BY <1>1, <1>4, <1>5, <1>6, <1>7, <1>8 DEF IInv

LEMMA UploadKeepsIInv ==
  ASSUME IInv, NEW d \in Doc, NEW candidate \in Candidates, Upload(d, candidate)
  PROVE  IInv'
<1> DEFINE ext == ValidateUpload(Policy, candidate)
           v == [doc |-> d, number |-> 1, file |-> Stored(candidate), meta |-> Free({})]
<1>1. /\ rev = 5 /\ rev' = 5 /\ d \notin DOMAIN docs /\ versions' = versions \cup {v}
      /\ jobs' = Insert(jobs, d, NewJob)
  BY LastIsFive DEF Upload
<1>2. PICK space :
        docs' = Insert(docs, d,
          [ file |-> Absent, meta |-> Skeleton({}), collection |-> Absent, space |-> space,
            source |-> FromExtension(ext), current |-> 1 ])
  BY DEF Upload
<1>3. GoodFile(Stored(candidate)) /\ Stored(candidate).extension = ext
  BY StoredFile DEF Upload, Stored
<1>4. /\ DOMAIN docs' = DOMAIN docs \cup {d}
      /\ docs'[d] = [ file |-> Absent, meta |-> Skeleton({}), collection |-> Absent,
                      space |-> space, source |-> FromExtension(ext), current |-> 1 ]
      /\ \A e \in DOMAIN docs \ {d} : docs'[e] = docs[e]
  BY <1>2 DEF Insert
<1>5. /\ DOMAIN jobs' = DOMAIN jobs \cup {d} /\ jobs'[d] = NewJob
      /\ \A e \in DOMAIN jobs \ {d} : jobs'[e] = jobs[e]
  BY <1>1 DEF Insert
<1>6. v.doc = d /\ v.number = 1 /\ v.file = Stored(candidate) /\ IsVersion(v)
  BY DEF IsVersion
<1> HIDE DEF v, ext
<1>7. \A w \in versions : w.doc \in DOMAIN docs /\ w.doc # d
  BY <1>1 DEF IInv, VersionsInv
<1>8. Numbers(d)' = {1} /\ CurrentFile(d)' = Stored(candidate)
  <2>1. Numbers(d) = {}
    BY <1>7 DEF Numbers
  <2>2. docs'[d].current = v.number
    BY <1>4, <1>6
  <2>3. CurrentFile(d)' = v.file /\ Numbers(d)' = Numbers(d) \cup {v.number}
    BY <1>1, <1>6, <2>1, <2>2, NewVersion
  <2>4. QED
    BY <1>6, <2>1, <2>3
<1>9. ASSUME NEW e \in DOMAIN docs
      PROVE  Numbers(e)' = Numbers(e) /\ CurrentFile(e)' = CurrentFile(e)
  BY <1>1, <1>4, <1>6, OthersVersion
<1>10. VersionsInv'
  <2>1. \A w \in versions' : IsVersion(w) /\ w.doc \in DOMAIN docs' /\ GoodFile(w.file)
    BY <1>1, <1>3, <1>4, <1>6 DEF IInv, VersionsInv
  <2>2. \A w, u \in versions' : w.doc = u.doc /\ w.number = u.number => w = u
    BY <1>1, <1>6, <1>7 DEF IInv, VersionsInv
  <2>3. ASSUME NEW e \in DOMAIN docs'
        PROVE  docs'[e].current \in Nat \ {0} /\ Numbers(e)' = 1 .. docs'[e].current
    <3>1. CASE e = d
      <4>1. 1 .. 1 = {1} /\ docs'[d].current = 1
        BY <1>4
      <4>2. QED
        BY <1>8, <3>1, <4>1
    <3>2. CASE e # d
      BY <1>1, <1>4, <1>9, <3>2 DEF IInv, VersionsInv
    <3>3. QED
      BY <3>1, <3>2
  <2>4. QED
    BY <1>1, <2>1, <2>2, <2>3 DEF VersionsInv
<1>11. DocumentInv(d)' /\ JobInv(d)'
  <2>1. /\ docs'[d].meta = Skeleton({}) /\ docs'[d].source = FromExtension(ext)
        /\ docs'[d].file = Absent /\ IsDocument(docs'[d])
    BY <1>4 DEF IsDocument
  <2>2. ReadsBack(docs'[d].meta) /\ docs'[d].source \in SourceType
    <3>1. {} \in Dict
      BY DEF Dict
    <3>2. QED
      BY <2>1, <3>1, SkeletonReadsBack, SourceOfExtension
  <2>3. docs'[d].source = FromExtension(CurrentFile(d)'.extension)
    BY <1>3, <1>8, <2>1
  <2>4. NewJob \in JobRecord
    BY StatusFacts DEF NewJob, JobRecord, Optional, None, Some
  <2>5. QED
    BY <1>1, <1>5, <2>1, <2>2, <2>3, <2>4 DEF DocumentInv, JobInv
<1>12. \A e \in DOMAIN docs \ {d} : DocumentInv(e)' /\ JobInv(e)'
  BY <1>1, <1>4, <1>5, <1>9 DEF IInv, DocumentInv, JobInv
<1>13. QED
  BY <1>1, <1>4, <1>5, <1>10, <1>11, <1>12 DEF IInv
(* The number after the last is the number after the current one.          *)
LEMMA NextIsAfterCurrent ==
  ASSUME IInv, rev >= 2, NEW d \in DOMAIN docs
  PROVE  NextNumber(d) = docs[d].current + 1
<1> DEFINE c == docs[d].current
<1>1. c \in Nat \ {0} /\ Numbers(d) = 1 .. c
  BY DEF IInv, VersionsInv
<1> HIDE DEF c
<1>2. c \in Numbers(d) /\ \A k \in Numbers(d) : k <= c
  BY <1>1
<1>3. \A n \in Numbers(d) : (\A k \in Numbers(d) : k <= n) => n = c
  BY <1>1, <1>2
<1>4. (CHOOSE n \in Numbers(d) : \A k \in Numbers(d) : k <= n) = c
  BY <1>2, <1>3
<1>5. NextNumber(d) = 1 + c
  BY <1>2, <1>4 DEF NextNumber
<1>6. QED
  BY <1>1, <1>5 DEF c

LEMMA AddVersionKeepsIInv ==
  ASSUME IInv, NEW d \in Doc, NEW candidate \in Candidates, AddVersion(d, candidate)
  PROVE  IInv'
<1> DEFINE c == docs[d].current
           v == [doc |-> d, number |-> c + 1, file |-> Stored(candidate), meta |-> Free({})]
<1>1. rev = 5 /\ rev' = 5 /\ d \in DOMAIN docs /\ jobs' = jobs
  BY LastIsFive DEF AddVersion
<1>2. c \in Nat \ {0} /\ Numbers(d) = 1 .. c /\ NextNumber(d) = c + 1
  BY <1>1, NextIsAfterCurrent DEF IInv, VersionsInv
<1>3. versions' = versions \cup {v} /\ docs' = [docs EXCEPT ![d].current = c + 1]
  BY <1>2 DEF AddVersion
<1>4. GoodFile(Stored(candidate))
  BY StoredFile DEF AddVersion
<1>5. v.doc = d /\ v.number = c + 1 /\ v.file = Stored(candidate) /\ IsVersion(v)
  BY DEF IsVersion
<1>6. /\ DOMAIN docs' = DOMAIN docs
      /\ docs'[d] = [docs[d] EXCEPT !.current = c + 1]
      /\ \A e \in DOMAIN docs \ {d} : docs'[e] = docs[e]
  BY <1>1, <1>3
<1>7. /\ IsDocument(docs'[d]) /\ docs'[d].current = c + 1 /\ docs'[d].file = docs[d].file
      /\ docs'[d].meta = docs[d].meta /\ docs'[d].source = docs[d].source
  <2>1. IsDocument(docs[d])
    BY <1>1 DEF IInv, DocumentInv
  <2>2. QED
    BY <1>6, <2>1 DEF IsDocument
<1> HIDE DEF c, v
<1>8. c + 1 \in Nat \ {0} /\ c + 1 \notin Numbers(d) /\ Numbers(d) \cup {c + 1} = 1 .. c + 1
  BY <1>2
<1>9. Numbers(d)' = 1 .. c + 1
  <2>1. v.number \notin Numbers(d) /\ docs'[d].current = v.number
    BY <1>5, <1>7, <1>8
  <2>2. Numbers(d)' = Numbers(d) \cup {v.number}
    BY <1>3, <1>5, <2>1, NewVersion
  <2>3. QED
    BY <1>5, <1>8, <2>2
<1>10. ASSUME NEW e \in DOMAIN docs \ {d}
       PROVE  Numbers(e)' = Numbers(e) /\ CurrentFile(e)' = CurrentFile(e)
  BY <1>1, <1>3, <1>5, <1>6, OthersVersion
<1>11. VersionsInv'
  <2>1. \A w \in versions' : IsVersion(w) /\ w.doc \in DOMAIN docs' /\ GoodFile(w.file)
    BY <1>1, <1>3, <1>4, <1>5, <1>6 DEF IInv, VersionsInv
  <2>2. \A w \in versions : w.doc = d => w.number # c + 1
    BY <1>8 DEF Numbers
  <2>3. \A w, u \in versions' : w.doc = u.doc /\ w.number = u.number => w = u
    BY <1>3, <1>5, <2>2 DEF IInv, VersionsInv
  <2>4. ASSUME NEW e \in DOMAIN docs'
        PROVE  docs'[e].current \in Nat \ {0} /\ Numbers(e)' = 1 .. docs'[e].current
    <3>1. CASE e = d
      BY <1>7, <1>8, <1>9, <3>1
    <3>2. CASE e # d
      BY <1>1, <1>6, <1>10, <3>2 DEF IInv, VersionsInv
    <3>3. QED
      BY <3>1, <3>2
  <2>5. QED
    BY <1>1, <2>1, <2>3, <2>4 DEF VersionsInv
<1>12. DocumentInv(d)' /\ JobInv(d)'
  <2>1. Numbers(d)' # {1}
    <3>1. c + 1 \in 1 .. c + 1 /\ c + 1 # 1
      BY <1>2
    <3>2. QED
      BY <1>9, <3>1
  <2>2. QED
    BY <1>1, <1>7, <2>1 DEF IInv, DocumentInv, JobInv
<1>13. \A e \in DOMAIN docs \ {d} : DocumentInv(e)' /\ JobInv(e)'
  BY <1>1, <1>6, <1>10 DEF IInv, DocumentInv, JobInv
<1>14. QED
  BY <1>1, <1>6, <1>11, <1>12, <1>13 DEF IInv

LEMMA PatchKeepsIInv ==
  ASSUME IInv, NEW d \in Doc, NEW request \in Requests \cup {Nothing}, NEW space,
         Patch(d, request, space)
  PROVE  IInv'
<1>1. rev = 5 /\ rev' = 5 /\ d \in DOMAIN docs /\ versions' = versions /\ jobs' = jobs
  BY LastIsFive DEF Patch
<1> DEFINE meta == IF request = Nothing THEN Validated(docs[d].meta) ELSE Validated(request)
           in == IF space = Nothing THEN docs[d].space ELSE space
<1>2. ReadsBack(meta)
  <2>1. CASE request = Nothing
    <3>1. Validated(docs[d].meta) # Invalid /\ ReadsBack(docs[d].meta)
      BY <1>1 DEF Patch, Readable, IInv, DocumentInv
    <3>2. Validated(docs[d].meta) = docs[d].meta
      BY <3>1, ValidatedIs DEF ReadsBack
    <3>3. QED
      BY <2>1, <3>1, <3>2
  <2>2. CASE request # Nothing
    <3>1. request \in Metadata /\ Validated(request) # Invalid
      BY <2>2, RequestsAssumption DEF Patch
    <3>2. QED
      BY <2>2, <3>1, PatchReadsBack
  <2>3. QED
    BY <2>1, <2>2
<1>3. docs' = [docs EXCEPT ![d].meta = meta, ![d].space = in]
  BY <1>1 DEF Patch
<1> HIDE DEF meta, in
<1>4. /\ DOMAIN docs' = DOMAIN docs
      /\ docs'[d] = [docs[d] EXCEPT !.meta = meta, !.space = in]
      /\ \A e \in DOMAIN docs \ {d} : docs'[e] = docs[e]
  BY <1>1, <1>3
<1>5. /\ IsDocument(docs'[d]) /\ docs'[d].meta = meta /\ docs'[d].current = docs[d].current
      /\ docs'[d].file = docs[d].file /\ docs'[d].source = docs[d].source
  <2>1. IsDocument(docs[d])
    BY <1>1 DEF IInv, DocumentInv
  <2>2. QED
    BY <1>4, <2>1 DEF IsDocument
<1>6. ASSUME NEW e \in DOMAIN docs
      PROVE  /\ docs'[e].current = docs[e].current /\ docs'[e].file = docs[e].file
             /\ IsDocument(docs'[e]) /\ ReadsBack(docs'[e].meta)
             /\ docs'[e].source \in SourceType
             /\ Numbers(e) = {1} => docs'[e].source = FromExtension(CurrentFile(e).extension)
             /\ JobInv(e)'
  <2>1. JobInv(e)'
    BY <1>1 DEF IInv, JobInv
  <2>2. DocumentInv(e)
    BY DEF IInv
  <2>3. CASE e = d
    BY <1>1, <1>2, <1>5, <2>1, <2>2, <2>3 DEF DocumentInv
  <2>4. CASE e # d
    BY <1>1, <1>4, <2>1, <2>2, <2>4 DEF DocumentInv
  <2>5. QED
    BY <2>3, <2>4
<1>7. QED
  BY <1>1, <1>4, <1>6, RevisionKeepsIInv DEF IInv

LEMMA WorkJobKeepsIInv ==
  ASSUME IInv, NEW d \in Doc, WorkJob(d)
  PROVE  IInv'
<1>1. rev = 5 /\ rev' = 5 /\ d \in DOMAIN jobs /\ UNCHANGED <<docs, versions>>
  BY LastIsFive DEF WorkJob
<1>2. jobs[d] \in JobRecord
  BY <1>1 DEF IInv, JobInv
<1>3. PICK j \in JobRecord : jobs' = [jobs EXCEPT ![d] = j]
  <2> DEFINE failed == Fail(Start(jobs[d]))
             done == Complete(Start(jobs[d]))
             again == IF CanRetry(failed, MaxRetries) THEN Retry(failed) ELSE failed
  <2>1. Start(jobs[d]) \in JobRecord
    BY <1>2, JobSteps
  <2>2. failed \in JobRecord /\ done \in JobRecord
    BY <2>1, JobSteps
  <2>3. again \in JobRecord
    BY <2>2, JobSteps
  <2>4. jobs' \in {[jobs EXCEPT ![d] = done], [jobs EXCEPT ![d] = again]}
    BY <1>1 DEF WorkJob
  <2> HIDE DEF done, again
  <2>5. QED
    BY <2>2, <2>3, <2>4
<1>4. /\ DOMAIN jobs' = DOMAIN jobs /\ jobs'[d] \in JobRecord
      /\ \A e \in DOMAIN jobs \ {d} : jobs'[e] = jobs[e]
  BY <1>1, <1>3
<1>5. \A e \in DOMAIN docs : JobInv(e)'
  BY <1>1, <1>4 DEF IInv, JobInv
<1>6. QED
  BY <1>1, <1>4, <1>5, RevisionKeepsIInv DEF IInv, DocumentInv

-----------------------------------------------------------------------------
(* The invariant holds *)

LEMMA InitIInv ==
  ASSUME MigrationsInit
  PROVE  IInv
<1>1. rev = 0 /\ docs = <<>> /\ jobs = <<>> /\ versions = {}
  BY DEF MigrationsInit
<1>2. DOMAIN docs = {} /\ DOMAIN jobs = {}
  BY <1>1
<1>3. QED
  BY <1>1, <1>2 DEF IInv, VersionsInv

LEMMA NextIInv ==
  ASSUME IInv, [MigrationsNext]_vars
  PROVE  IInv'
<1>1. CASE UpgradeFoundation \/ DowngradeFoundation
  BY <1>1, UpgradeFoundationKeepsIInv, DowngradeFoundationKeepsIInv
<1>2. CASE UpgradeVersioning \/ DowngradeVersioning
  BY <1>2, UpgradeVersioningKeepsIInv, DowngradeVersioningKeepsIInv
<1>3. CASE UpgradeMetadata \/ DowngradeMetadata
  BY <1>3, UpgradeMetadataKeepsIInv, DowngradeMetadataKeepsIInv
<1>4. CASE UpgradePipeline \/ DowngradePipeline
  BY <1>4, UpgradePipelineKeepsIInv, DowngradePipelineKeepsIInv
<1>5. CASE UpgradeChat \/ DowngradeChat
  BY <1>5, ChatKeepsIInv
<1>6. ASSUME NEW d \in Doc, LegacyWrite(d) PROVE IInv'
  BY <1>6, LegacyWriteKeepsIInv
<1>7. ASSUME NEW d \in Doc, NEW candidate \in Candidates, Upload(d, candidate) PROVE IInv'
  BY <1>7, UploadKeepsIInv
<1>8. ASSUME NEW d \in Doc, NEW candidate \in Candidates, AddVersion(d, candidate) PROVE IInv'
  BY <1>8, AddVersionKeepsIInv
<1>9. ASSUME NEW d \in Doc, NEW request \in Requests \cup {Nothing},
             NEW space \in Space \cup {Nothing}, Patch(d, request, space)
      PROVE  IInv'
  BY <1>9, PatchKeepsIInv
<1>10. ASSUME NEW d \in Doc, WorkJob(d) PROVE IInv'
  BY <1>10, WorkJobKeepsIInv
<1>11. CASE UNCHANGED vars
  <2>1. UNCHANGED <<rev, docs, versions, jobs>>
    BY <1>11 DEF vars
  <2>2. VersionsInv'
    BY <2>1 DEF IInv, VersionsInv, Numbers
  <2>3. \A d \in DOMAIN docs : JobInv(d)'
    BY <2>1 DEF IInv, JobInv
  <2>4. \A d \in DOMAIN docs : DocumentInv(d)'
    BY <2>1 DEF IInv, DocumentInv, CurrentFile, VersionOf, Numbers
  <2>5. QED
    BY <2>1, <2>2, <2>3, <2>4 DEF IInv
<1>12. QED
  BY <1>1, <1>2, <1>3, <1>4, <1>5, <1>6, <1>7, <1>8, <1>9, <1>10, <1>11 DEF MigrationsNext

(* Whatever the revisions and the releases do, the rows have the shape of  *)
(* the revision, versions are numbered from 1 and the last is current.     *)
THEOREM Invariance == MigrationsSpec => []IInv
<1>1. MigrationsInit => IInv
  BY InitIInv
<1>2. IInv /\ [MigrationsNext]_vars => IInv'
  BY NextIInv
<1>3. QED
  BY <1>1, <1>2, PTL DEF MigrationsSpec

-----------------------------------------------------------------------------
(* What follows from it *)

(* The rows have exactly the columns of the revision, and what they refer  *)
(* to exists.                                                              *)
THEOREM TypeCorrect == MigrationsSpec => []MigrationsTypeOK
<1>1. ASSUME IInv PROVE MigrationsTypeOK
  <2> USE <1>1
  <2>1. rev \in 0 .. LastRevision
    BY LastIsFive DEF IInv
  <2>2. ASSUME NEW d \in DOMAIN docs
        PROVE  /\ rev = 1 => docs[d].file \in File /\ docs[d].current = Absent
               /\ rev >= 2 => docs[d].file = Absent /\ docs[d].current \in Numbers(d)
               /\ rev < 3 <=> DOMAIN docs[d].meta = {"free"}
               /\ rev >= 4 <=> jobs[d] \in JobRecord
    <3>1. DocumentInv(d) /\ JobInv(d) /\ rev \in 0 .. 5
      BY DEF IInv
    <3>2. rev >= 2 => docs[d].current \in Numbers(d)
      BY CurrentVersion
    <3>3. rev < 3 <=> DOMAIN docs[d].meta = {"free"}
      <4>1. CASE rev < 3
        BY <3>1, <4>1 DEF DocumentInv, IsFree, Free
      <4>2. CASE rev >= 3
        <5>1. "tags" \in DOMAIN docs[d].meta
          BY <3>1, <4>2 DEF DocumentInv, ReadsBack, MetaFields
        <5>2. QED
          BY <3>1, <4>2, <5>1
      <4>3. QED
        BY <3>1, <4>1, <4>2
    <3>4. rev >= 4 <=> jobs[d] \in JobRecord
      <4>1. CASE rev >= 4
        BY <3>1, <4>1 DEF JobInv
      <4>2. CASE rev < 4
        <5>1. DOMAIN jobs[d] = {"status", "attempts", "error"}
          BY <3>1, <4>2 DEF JobInv, IsLegacyJob
        <5>2. \A j \in JobRecord : "progress" \in DOMAIN j
          BY DEF JobRecord
        <5>3. QED
          BY <3>1, <4>2, <5>1, <5>2
      <4>3. QED
        BY <3>1, <4>1, <4>2
    <3>5. QED
      BY <3>1, <3>2, <3>3, <3>4 DEF DocumentInv, GoodFile
  <2>3. \A v \in versions : v.doc \in DOMAIN docs /\ v.file \in File
    BY DEF IInv, VersionsInv, GoodFile
  <2>4. QED
    BY <2>1, <2>2, <2>3 DEF IInv, VersionsInv, MigrationsTypeOK
<1>2. QED
  BY <1>1, Invariance, PTL

(* A document has the source type an upload of its first file would have   *)
(* given it, whether it was uploaded or migrated.                          *)
THEOREM MigratedAsUploadedHolds == MigrationsSpec => []MigratedAsUploaded
<1>1. CaseAgrees
  BY CaseIsTable DEF CaseAgrees
<1>2. IInv => MigratedAsUploaded
  BY <1>1 DEF IInv, DocumentInv, MigratedAsUploaded
<1>3. QED
  BY <1>2, Invariance, PTL

(* The repository reads back every document it finds, its metadata as it   *)
(* was written, whatever clients have sent and releases have stored as     *)
(* long as it is text.                                                     *)
THEOREM DocumentsReadableHolds == MigrationsSpec => []DocumentsReadable
<1>1. IInv => DocumentsReadable
  BY LastIsFive DEF IInv, DocumentInv, ReadsBack, DocumentsReadable
<1>2. QED
  BY <1>1, Invariance, PTL

ReadableIfText ==
  rev = LastRevision =>
    \A d \in DOMAIN docs : Readable(d) <=> docs[d].meta.properties \in TextDict

(* Nothing else is readable: the repository raises for every document with *)
(* a value the earlier release stored that is not text, and for no other.  *)
THEOREM ReadableExactlyIfText == MigrationsSpec => []ReadableIfText
<1>1. ASSUME IInv, rev = LastRevision, NEW d \in DOMAIN docs
      PROVE  Readable(d) <=> docs[d].meta.properties \in TextDict
  <2>1. ReadsBack(docs[d].meta) /\ docs[d].source \in SourceType
    BY <1>1, LastIsFive DEF IInv, DocumentInv
  <2>2. QED
    BY <2>1, ValidatedIs DEF Readable, ReadsBack
<1>2. IInv => ReadableIfText
  BY <1>1 DEF ReadableIfText
<1>3. QED
  BY <1>2, Invariance, PTL

LEMMA LoweredEqual ==
  ASSUME NEW t \in Text(STRING), NEW e \in Text(STRING), ~e.dotted
  PROVE  Lower(StripDots(t)) = Lower(e) <=>
           /\ t.word = e.word /\ t.before = e.before /\ t.after = e.after
           /\ ~(t.before /\ t.dotted)
<1>1. ASSUME NEW u \in Text(STRING)
      PROVE  /\ Lower(u) \in Text(STRING) /\ Lower(u).word = u.word /\ Lower(u).upper = FALSE
             /\ Lower(u).dotted = u.dotted
             /\ Lower(u).before = u.before /\ Lower(u).after = u.after
  BY DEF Lower, Text
<1>2. /\ StripDots(t) \in Text(STRING) /\ StripDots(t).word = t.word
      /\ StripDots(t).before = t.before /\ StripDots(t).after = t.after
      /\ StripDots(t).dotted <=> t.before /\ t.dotted
  BY DEF StripDots, Text
<1>3. \A u, v \in Text(STRING) :
        u = v <=> /\ u.word = v.word /\ u.upper = v.upper
                  /\ u.dotted = v.dotted /\ u.before = v.before /\ u.after = v.after
  BY DEF Text
<1>4. e.dotted = FALSE /\ StripDots(t).dotted \in BOOLEAN /\ t.before \in BOOLEAN
      /\ t.dotted \in BOOLEAN
  BY <1>2 DEF Text
<1> DEFINE a == Lower(StripDots(t))
           b == Lower(e)
<1>5. /\ a \in Text(STRING) /\ a.word = t.word /\ a.upper = FALSE
      /\ a.dotted = StripDots(t).dotted /\ a.before = t.before /\ a.after = t.after
  BY <1>1, <1>2
<1>6. /\ b \in Text(STRING) /\ b.word = e.word /\ b.upper = FALSE
      /\ b.dotted = FALSE /\ b.before = e.before /\ b.after = e.after
  BY <1>1, <1>4
<1> HIDE DEF a, b
<1>7. a = b <=> /\ t.word = e.word /\ StripDots(t).dotted = FALSE
                /\ t.before = e.before /\ t.after = e.after
  <2>1. a = b <=> /\ a.word = b.word /\ a.upper = b.upper
                  /\ a.dotted = b.dotted /\ a.before = b.before /\ a.after = b.after
    BY <1>3, <1>5, <1>6
  <2>2. QED
    BY <1>5, <1>6, <2>1
<1>8. StripDots(t).dotted = FALSE <=> ~(t.before /\ t.dotted)
  BY <1>2, <1>4
<1>9. QED
  BY <1>7, <1>8 DEF a, b

(* The extensions of a setting are those it names, however it is spelled.  *)
LEMMA SettingNames ==
  ASSUME NEW setting \in Setting, NEW e \in Text(STRING), ~e.dotted, e # NoExtension
  PROVE  Lower(e) \in AllowedExtensions(setting) <=> Names(setting, e)
<1>1. \A t \in setting.items : t \in Text(STRING)
  BY DEF Setting
<1>2. CASE setting.spelling = "commas"
  <2>1. ASSUME NEW t \in setting.items
        PROVE  Lower(StripDots(Strip(t))) = Lower(e) <=>
                 t.word = e.word /\ ~e.before /\ ~e.after
    <3>1. /\ Strip(t) \in Text(STRING) /\ Strip(t).word = t.word
          /\ Strip(t).before = FALSE /\ Strip(t).after = FALSE
      BY <1>1 DEF Strip, Text
    <3>2. e.before \in BOOLEAN /\ e.after \in BOOLEAN
      BY DEF Text
    <3>3. QED
      BY <3>1, <3>2, LoweredEqual
  <2>2. Lower(e) \in AllowedExtensions(setting) <=>
          \E t \in setting.items : ~Blank(t) /\ Lower(StripDots(Strip(t))) = Lower(e)
    BY <1>2 DEF AllowedExtensions, ParseStrList
  <2>3. QED
    BY <1>2, <2>1, <2>2 DEF Names
<1>3. CASE setting.spelling # "commas"
  <2>1. Lower(e) \in AllowedExtensions(setting) <=>
          \E t \in setting.items : Lower(StripDots(t)) = Lower(e)
    BY <1>3 DEF AllowedExtensions, ParseStrList
  <2>2. QED
    BY <1>1, <1>3, <2>1, LoweredEqual DEF Names
<1>4. QED
  BY <1>2, <1>3

(* What a deployment admits is what its setting names: capitals and dots   *)
(* do not matter, in the setting or in the name of a file.                 *)
THEOREM PolicyAdmitsWhatItNamesHolds == MigrationsSpec => []PolicyAdmitsWhatItNames
<1>1. ASSUME NEW c \in Candidates, NEW setting \in Policies
      PROVE  ValidateUpload(setting, c) =
               IF Names(setting, c.extension) /\ c.size \in 1 .. MaxSize /\ c.mime \in MimeTypes
                 THEN Lower(c.extension) ELSE Refused
  <2>1. c.size \in Nat /\ MaxSize \in Nat
    BY FilesAssumption, MaxSizeAssumption
  <2>2. c.size > 0 /\ c.size <= MaxSize <=> c.size \in 1 .. MaxSize
    BY <2>1
  <2>3. CASE c.extension = NoExtension
    BY <2>3 DEF ValidateUpload, Names
  <2>4. CASE c.extension # NoExtension
    <3>1. c.extension \in Text(STRING) /\ ~c.extension.dotted /\ setting \in Setting
      BY <2>4, FilesAssumption, PoliciesAssumption
    <3>2. Lower(c.extension) \in AllowedExtensions(setting) <=> Names(setting, c.extension)
      BY <2>4, <3>1, SettingNames
    <3>3. QED
      BY <2>2, <2>4, <3>2 DEF ValidateUpload
  <2>5. QED
    BY <2>3, <2>4
<1>2. PolicyAdmitsWhatItNames
  BY <1>1 DEF PolicyAdmitsWhatItNames
<1>3. QED
  BY <1>2, PTL

LEMMA MetadataKeepsSpace ==
  ASSUME IInv, UpgradeMetadata \/ DowngradeMetadata, NEW d \in DOMAIN docs
  PROVE  docs'[d].space = docs[d].space /\ docs'[d].current = docs[d].current
<1>1. IsDocument(docs[d])
  BY DEF IInv, DocumentInv
<1>2. CASE UpgradeMetadata
  BY <1>1, <1>2 DEF UpgradeMetadata, IsDocument
<1>3. CASE DowngradeMetadata
  BY <1>1, <1>3 DEF DowngradeMetadata, IsDocument
<1>4. QED
  BY <1>2, <1>3

(* No revision, up or down, loses a document, the file it shows, or the    *)
(* space it is in.                                                         *)
THEOREM DocumentsKeptHolds == MigrationsSpec => DocumentsKept
<1> DEFINE Kept == /\ DOMAIN docs' = DOMAIN docs
                   /\ \A d \in DOMAIN docs : FileOf(d)' = FileOf(d) /\ SpaceOf(d)' = SpaceOf(d)
<1>1. ASSUME IInv, [MigrationsNext]_vars, rev' # rev, rev' > 0 PROVE Kept
  <2> USE <1>1
  <2>1. CASE UpgradeFoundation
    <3>1. docs = <<>> /\ docs' = docs
      BY <2>1, RevisionSteps DEF IInv
    <3>2. DOMAIN docs = {}
      BY <3>1
    <3>3. QED
      BY <3>1, <3>2
  <2>2. CASE UpgradeVersioning
    <3>1. rev = 1 /\ rev' = 2 /\ DOMAIN docs' = DOMAIN docs
      BY <2>2, RevisionSteps
    <3>2. \A d \in DOMAIN docs : CurrentFile(d)' = docs[d].file /\ docs'[d].space = docs[d].collection
      BY <2>2, VersioningFacts
    <3>3. QED
      BY <3>1, <3>2 DEF FileOf, SpaceOf
  <2>3. CASE DowngradeVersioning
    <3>1. rev = 2 /\ rev' = 1 /\ DOMAIN docs' = DOMAIN docs
      BY <2>3, RevisionSteps
    <3>2. \A d \in DOMAIN docs : docs'[d].file = CurrentFile(d) /\ docs'[d].collection = docs[d].space
      BY <2>3, UnversioningFacts
    <3>3. QED
      BY <3>1, <3>2 DEF FileOf, SpaceOf
  <2>4. CASE UpgradeMetadata \/ DowngradeMetadata
    <3>1. /\ rev \in 2 .. 3 /\ rev' \in 2 .. 3 /\ DOMAIN docs' = DOMAIN docs
          /\ versions' = versions
      BY <2>4, RevisionSteps
    <3>2. ASSUME NEW d \in DOMAIN docs
          PROVE  CurrentFile(d)' = CurrentFile(d) /\ docs'[d].space = docs[d].space
      <4>1. docs'[d].space = docs[d].space /\ docs'[d].current = docs[d].current
        BY <2>4, MetadataKeepsSpace
      <4>2. QED
        BY <3>1, <4>1, CurrentFileKept
    <3>3. QED
      BY <3>1, <3>2 DEF FileOf, SpaceOf
  <2>5. CASE UpgradePipeline \/ DowngradePipeline \/ UpgradeChat \/ DowngradeChat
    <3>1. rev \in 3 .. 5 /\ rev' \in 3 .. 5 /\ UNCHANGED <<docs, versions>>
      BY <2>5, RevisionSteps
    <3>2. \A d \in DOMAIN docs : CurrentFile(d)' = CurrentFile(d)
      BY <3>1, CurrentFileKept
    <3>3. QED
      BY <3>1, <3>2 DEF FileOf, SpaceOf
  <2>6. CASE DowngradeFoundation
    BY <2>6, RevisionSteps
  <2>7. QED
    BY <2>1, <2>2, <2>3, <2>4, <2>5, <2>6
       DEF MigrationsNext, LegacyWrite, Upload, AddVersion, Patch, WorkJob, vars
<1>2. IInv /\ [MigrationsNext]_vars => [rev' # rev /\ rev' > 0 => Kept]_vars
  BY <1>1
<1>3. QED
  BY <1>2, Invariance, PTL DEF MigrationsSpec, DocumentsKept

(* No revision changes the outcome of a job or the retries it has used.    *)
THEOREM JobsKeptHolds == MigrationsSpec => JobsKept
<1> DEFINE Kept == \A d \in DOMAIN jobs :
                     /\ jobs'[d].status = jobs[d].status
                     /\ Attempts(d)' = Attempts(d) /\ ErrorOf(d)' = ErrorOf(d)
<1>1. ASSUME IInv, [MigrationsNext]_vars, rev' # rev, rev' > 0 PROVE Kept
  <2> USE <1>1
  <2>1. CASE UpgradePipeline
    <3>1. rev = 3 /\ rev' = 4
      BY <2>1, RevisionSteps
    <3>2. \A d \in DOMAIN jobs : /\ jobs'[d].status = jobs[d].status
                                 /\ jobs'[d].retry_count = jobs[d].attempts
                                 /\ jobs'[d].error_message = jobs[d].error
      BY <2>1 DEF UpgradePipeline, NewJob
    <3>3. QED
      BY <3>1, <3>2 DEF Attempts, ErrorOf
  <2>2. CASE DowngradePipeline
    <3>1. rev = 4 /\ rev' = 3
      BY <2>2, RevisionSteps
    <3>2. \A d \in DOMAIN jobs : /\ jobs'[d].status = jobs[d].status
                                 /\ jobs'[d].attempts = jobs[d].retry_count
                                 /\ jobs'[d].error = jobs[d].error_message
      BY <2>2 DEF DowngradePipeline
    <3>3. QED
      BY <3>1, <3>2 DEF Attempts, ErrorOf
  <2>3. CASE \/ UpgradeFoundation \/ UpgradeVersioning \/ DowngradeVersioning
             \/ UpgradeMetadata \/ DowngradeMetadata
    <3>1. rev \in 0 .. 3 /\ rev' \in 0 .. 3 /\ jobs' = jobs
      BY <2>3, RevisionSteps
    <3>2. QED
      BY <3>1 DEF Attempts, ErrorOf
  <2>4. CASE UpgradeChat \/ DowngradeChat
    <3>1. rev \in 4 .. 5 /\ rev' \in 4 .. 5 /\ jobs' = jobs
      BY <2>4, RevisionSteps
    <3>2. QED
      BY <3>1 DEF Attempts, ErrorOf
  <2>5. CASE DowngradeFoundation
    BY <2>5, RevisionSteps
  <2>6. QED
    BY <2>1, <2>2, <2>3, <2>4, <2>5
       DEF MigrationsNext, LegacyWrite, Upload, AddVersion, Patch, WorkJob, vars
<1>2. IInv /\ [MigrationsNext]_vars => [rev' # rev /\ rev' > 0 => Kept]_vars
  BY <1>1
<1>3. QED
  BY <1>2, Invariance, PTL DEF MigrationsSpec, JobsKept

-----------------------------------------------------------------------------
(* The schema of each revision, written out.  The second and the third     *)
(* revision have the same; the fifth is the models'.                       *)

(* A schema whose columns are the required and the optional ones.          *)
Declared(required, optional, indexes, references) ==
  [ columns |-> required \cup optional, required |-> required,
    indexes |-> indexes, references |-> references ]

CollectionReference == Reference(D, "collection_id", C, "SET NULL")
VersionReference    == Reference(V, "document_id", D, "CASCADE")
MessageReference    == Reference(M, "conversation_id", T, "CASCADE")

(* What all revisions have: the collections, the pages, and what of the    *)
(* documents and the jobs stays as it is.                                  *)
KeptRequired ==
  Of(C, {"id", "tenant_id", "name", "metadata"} \cup Times)
  \cup Of(D, {"id", "tenant_id", "status", "metadata"} \cup Times)
  \cup Of(P, {"id", "document_id", "page_number", "rotation", "metadata", "created_at"})
  \cup Of(J, {"id", "document_id", "tenant_id", "job_type", "status"} \cup Times)
KeptOptional ==
  Of(C, {"description"}) \cup Of(D, {"deleted_at"})
  \cup Of(P, {"width", "height", "image_path", "extracted_text"})
KeptIndexes ==
  { Index(C, <<"tenant_id">>), Index(D, <<"status">>), Index(D, <<"tenant_id">>),
    Index(P, <<"document_id">>), UniqueIndex(P, <<"document_id", "page_number">>),
    Index(J, <<"document_id">>), Index(J, <<"status">>), Index(J, <<"tenant_id">>) }
KeptReferences ==
  {Reference(P, "document_id", D, "CASCADE"), Reference(J, "document_id", D, "CASCADE")}

FoundationSchema ==
  Declared(KeptRequired \cup Of(D, FileColumns) \cup Of(J, {"attempts", "payload"}),
           KeptOptional \cup Of(D, FileOptional \cup {"collection_id"}) \cup Of(J, {"error"}),
           FoundationIndexes, KeptReferences \cup {CollectionReference})

(* The first revision as the undoing of the second leaves it: the file     *)
(* columns are nullable and collection_id refers to nothing.               *)
RestoredSchema ==
  Declared(KeptRequired \cup Of(J, {"attempts", "payload"}),
           KeptOptional \cup Of(D, FileColumns \cup FileOptional \cup {"collection_id"})
             \cup Of(J, {"error"}),
           FoundationIndexes, KeptReferences)

PresentRequired ==
  KeptRequired \cup Of(D, {"title", "source_type"})
  \cup Of(V, {"id", "document_id", "version_number", "metadata", "created_at"} \cup FileColumns)
PresentOptional ==
  KeptOptional \cup Of(D, {"knowledge_space_id", "current_version_id", "created_by"})
  \cup Of(V, FileOptional)
PresentIndexes    == KeptIndexes \cup VersionIndexes \cup IdentityIndexes
PresentReferences == KeptReferences \cup {VersionReference}

VersionedSchema ==
  Declared(PresentRequired \cup Of(J, {"attempts", "payload"}),
           PresentOptional \cup Of(J, {"error"}), PresentIndexes, PresentReferences)

PipelineSchema ==
  Declared(PresentRequired \cup Of(J, PipelineRequired), PresentOptional \cup Of(J, PipelineOptional),
           PresentIndexes \cup PipelineIndexes, PresentReferences)

-----------------------------------------------------------------------------
(* When a change is accepted and makes one schema of another *)

Moves(s, change, t) == Accepted(s, change) /\ Changed(s, change) = t

HasColumns(x, columns) == \A i \in DOMAIN x.columns : <<x.table, x.columns[i]>> \in columns

ColumnsMove(s, change, t) ==
  /\ \A c : c \in t.columns <=>
              /\ c \in s.columns \cup change.required \cup change.optional
              /\ c \notin change.dropped /\ ~DropsTable(change, c[1])
  /\ \A c : c \in t.required <=>
              c \in s.required \cup change.required \cup change.tightened /\ c \in t.columns
  /\ (change.required \cup change.optional) \cap s.columns = {}
  /\ change.dropped \subseteq s.columns /\ change.tightened \subseteq t.columns

IndexesMove(s, change, t) ==
  /\ t.indexes = (s.indexes \ change.unindexed) \cup change.indexed
  /\ change.unindexed \subseteq s.indexes /\ change.indexed \cap s.indexes = {}
  /\ \A x \in t.indexes : HasColumns(x, t.columns)

ReferencesMove(s, change, t) ==
  /\ \A f : f \in t.references <=>
              f \in s.references \cup change.references /\ <<f.table, f.column>> \in t.columns
  /\ \A f \in change.references : \E c \in t.columns : c[1] = f.target

DropsInOrder(s, change) ==
  \A i \in DOMAIN change.drop_tables :
    /\ \E c \in s.columns : c[1] = change.drop_tables[i]
    /\ \A f \in s.references :
         f.target = change.drop_tables[i] => \E k \in 1 .. i : f.table = change.drop_tables[k]

IsSchema(t) ==
  t = [ columns |-> t.columns, required |-> t.required, indexes |-> t.indexes,
        references |-> t.references ]

LEMMA MovesWhen ==
  ASSUME NEW s, NEW change, NEW t, ColumnsMove(s, change, t), IndexesMove(s, change, t),
         ReferencesMove(s, change, t), DropsInOrder(s, change), IsSchema(t)
  PROVE  Moves(s, change, t)
<1> DEFINE columns == ColumnsAfter(s, change)
           r == [ columns |-> t.columns, required |-> t.required, indexes |-> t.indexes,
                  references |-> t.references ]
<1>1. columns = t.columns
  BY DEF ColumnsMove, ColumnsAfter
<1>2. (s.required \cup change.required \cup change.tightened) \cap columns = t.required
  BY <1>1 DEF ColumnsMove
<1>3. {x \in (s.indexes \ change.unindexed) \cup change.indexed :
         \A i \in DOMAIN x.columns : <<x.table, x.columns[i]>> \in columns} = t.indexes
  BY <1>1 DEF IndexesMove, HasColumns
<1>4. {f \in s.references \cup change.references : <<f.table, f.column>> \in columns}
      = t.references
  BY <1>1 DEF ReferencesMove
<1>5. Changed(s, change) = r
  BY <1>1, <1>2, <1>3, <1>4 DEF Changed
<1>6. \A x \in change.indexed : \A i \in DOMAIN x.columns :
        <<x.table, x.columns[i]>> \in s.columns \cup change.required \cup change.optional
  BY DEF ColumnsMove, IndexesMove, HasColumns
<1>7. Accepted(s, change)
  BY <1>1, <1>6 DEF ColumnsMove, IndexesMove, ReferencesMove, DropsInOrder, Accepted, Tables
<1>8. t = r
  BY DEF IsSchema
<1> HIDE DEF r
<1>9. QED
  BY <1>5, <1>7, <1>8 DEF Moves

LEMMA TablesDropped ==
  /\ \A n : /\ ~DropsTable(NoChange, n) /\ ~DropsTable(UpFoundation, n)
            /\ ~DropsTable(UpVersioning, n) /\ ~DropsTable(UpPipeline, n)
            /\ ~DropsTable(DownPipeline, n) /\ ~DropsTable(UpChat, n)
  /\ \A n : DropsTable(DownFoundation, n) <=> n \in {J, P, D, C}
  /\ \A n : DropsTable(DownVersioning, n) <=> n = V
  /\ \A n : DropsTable(DownChat, n) <=> n \in {M, T}
<1>1. /\ DownFoundation.drop_tables = <<J, P, D, C>> /\ DownVersioning.drop_tables = <<V>>
      /\ DownChat.drop_tables = <<M, T>>
  BY DEF DownFoundation, DownVersioning, DownChat, NoChange
<1>2. /\ DOMAIN <<J, P, D, C>> = {1, 2, 3, 4} /\ DOMAIN <<V>> = {1} /\ DOMAIN <<M, T>> = {1, 2}
  OBVIOUS
<1>3. \A n : /\ ~DropsTable(NoChange, n) /\ ~DropsTable(UpFoundation, n)
             /\ ~DropsTable(UpVersioning, n) /\ ~DropsTable(UpPipeline, n)
             /\ ~DropsTable(DownPipeline, n) /\ ~DropsTable(UpChat, n)
  BY DEF DropsTable, NoChange, UpFoundation, UpVersioning, UpPipeline, DownPipeline, UpChat
<1>4. QED
  BY <1>1, <1>2, <1>3 DEF DropsTable

-----------------------------------------------------------------------------
(* Indexes and foreign keys *)

(* No index is created where there is one.                                 *)
LEMMA IndexFacts ==
  /\ FoundationIndexes = KeptIndexes \cup PhysicalIndexes
  /\ PhysicalIndexes \cap PresentIndexes = {}
  /\ FoundationIndexes \cap (VersionIndexes \cup IdentityIndexes) = {}
  /\ PresentIndexes \cap PipelineIndexes = {}
  /\ (PresentIndexes \cup PipelineIndexes) \cap ChatIndexes = {}
  /\ ModelsSchema.indexes = PresentIndexes \cup PipelineIndexes \cup ChatIndexes
<1> DEFINE On(x, t, columns) == x.table = t /\ x.columns \in columns
           physical == {<<"tenant_id", "checksum_sha256">>, <<"checksum_sha256">>, <<"collection_id">>}
           identity == {<<"source_type">>, <<"knowledge_space_id">>}
           document == {<<"status">>, <<"tenant_id">>}
           legacy   == {<<"document_id">>, <<"status">>, <<"tenant_id">>}
           pipeline == {<<"job_type">>, <<"document_id", "job_type">>}
<1>1. \A t, n : /\ Index(t, n).table = t /\ Index(t, n).columns = n
                /\ UniqueIndex(t, n).table = t /\ UniqueIndex(t, n).columns = n
  BY DEF Index, UniqueIndex
<1>2. \A x \in PhysicalIndexes : On(x, D, physical)
  BY <1>1 DEF PhysicalIndexes
<1>3. \A x \in KeptIndexes : x.table \in {C, P} \/ On(x, D, document) \/ On(x, J, legacy)
  BY <1>1 DEF KeptIndexes
<1>4. \A x \in VersionIndexes : x.table = V
  BY <1>1 DEF VersionIndexes
<1>5. \A x \in IdentityIndexes : On(x, D, identity)
  BY <1>1 DEF IdentityIndexes
<1>6. \A x \in PipelineIndexes : On(x, J, pipeline)
  BY <1>1 DEF PipelineIndexes
<1>7. \A x \in ChatIndexes : x.table \in {T, M}
  BY <1>1 DEF ChatIndexes
<1>8. /\ physical \cap document = {} /\ physical \cap identity = {}
      /\ identity \cap document = {} /\ pipeline \cap legacy = {}
  OBVIOUS
<1>9. /\ D \notin {C, P, J, V, T, M} /\ V \notin {C, P, J, T, M} /\ J \notin {C, P, T, M}
      /\ {T, M} \cap {C, P} = {}
  BY DEF C, D, V, P, J, T, M
<1> HIDE DEF physical, identity, document, legacy, pipeline
<1>10. FoundationIndexes = KeptIndexes \cup PhysicalIndexes
  BY DEF FoundationIndexes, KeptIndexes, PhysicalIndexes
<1>11. KeptIndexes \cap PhysicalIndexes = {}
  BY <1>2, <1>3, <1>8, <1>9
<1>12. PhysicalIndexes \cap (VersionIndexes \cup IdentityIndexes) = {}
  BY <1>2, <1>4, <1>5, <1>8, <1>9
<1>13. KeptIndexes \cap (VersionIndexes \cup IdentityIndexes) = {}
  BY <1>3, <1>4, <1>5, <1>8, <1>9
<1>14. PresentIndexes \cap PipelineIndexes = {}
  BY <1>3, <1>4, <1>5, <1>6, <1>8, <1>9 DEF PresentIndexes
<1>15. (PresentIndexes \cup PipelineIndexes) \cap ChatIndexes = {}
  BY <1>3, <1>4, <1>5, <1>6, <1>7, <1>9 DEF PresentIndexes
<1>16. ModelsSchema.indexes = PresentIndexes \cup PipelineIndexes \cup ChatIndexes
  BY DEF ModelsSchema, PresentIndexes, KeptIndexes, VersionIndexes, IdentityIndexes,
         PipelineIndexes, ChatIndexes
<1>17. QED
  BY <1>10, <1>11, <1>12, <1>13, <1>14, <1>15, <1>16 DEF PresentIndexes

LEMMA IndexColumns ==
  ASSUME NEW columns
  PROVE  /\ \A t, a : <<t, a>> \in columns => HasColumns(Index(t, <<a>>), columns)
         /\ \A t, a, b : <<t, a>> \in columns /\ <<t, b>> \in columns =>
              /\ HasColumns(Index(t, <<a, b>>), columns)
              /\ HasColumns(UniqueIndex(t, <<a, b>>), columns)
<1>1. ASSUME NEW t, NEW a, <<t, a>> \in columns PROVE HasColumns(Index(t, <<a>>), columns)
  <2>1. DOMAIN <<a>> = {1}
    OBVIOUS
  <2>2. QED
    BY <1>1, <2>1 DEF Index, HasColumns
<1>2. ASSUME NEW t, NEW a, NEW b, <<t, a>> \in columns, <<t, b>> \in columns
      PROVE  /\ HasColumns(Index(t, <<a, b>>), columns)
             /\ HasColumns(UniqueIndex(t, <<a, b>>), columns)
  <2>1. DOMAIN <<a, b>> = {1, 2}
    OBVIOUS
  <2>2. QED
    BY <1>2, <2>1 DEF Index, UniqueIndex, HasColumns
<1>3. QED
  BY <1>1, <1>2

(* The columns the indexes are on.                                         *)
LEMMA KeptColumns ==
  ASSUME NEW columns, <<C, "tenant_id">> \in columns,
         <<D, "status">> \in columns, <<D, "tenant_id">> \in columns,
         <<P, "document_id">> \in columns, <<P, "page_number">> \in columns,
         <<J, "document_id">> \in columns, <<J, "status">> \in columns,
         <<J, "tenant_id">> \in columns
  PROVE  \A x \in KeptIndexes : HasColumns(x, columns)
BY IndexColumns DEF KeptIndexes

LEMMA PhysicalColumns ==
  ASSUME NEW columns, <<D, "tenant_id">> \in columns, <<D, "checksum_sha256">> \in columns,
         <<D, "collection_id">> \in columns
  PROVE  \A x \in PhysicalIndexes : HasColumns(x, columns)
BY IndexColumns DEF PhysicalIndexes

LEMMA VersionColumns ==
  ASSUME NEW columns, <<V, "document_id">> \in columns, <<V, "checksum_sha256">> \in columns,
         <<V, "version_number">> \in columns,
         <<D, "source_type">> \in columns, <<D, "knowledge_space_id">> \in columns
  PROVE  \A x \in VersionIndexes \cup IdentityIndexes : HasColumns(x, columns)
BY IndexColumns DEF VersionIndexes, IdentityIndexes

LEMMA PipelineColumns ==
  ASSUME NEW columns, <<J, "job_type">> \in columns, <<J, "document_id">> \in columns
  PROVE  \A x \in PipelineIndexes : HasColumns(x, columns)
BY IndexColumns DEF PipelineIndexes

LEMMA ChatColumns ==
  ASSUME NEW columns, <<T, "tenant_id">> \in columns, <<M, "conversation_id">> \in columns,
         <<M, "seq">> \in columns
  PROVE  \A x \in ChatIndexes : HasColumns(x, columns)
BY IndexColumns DEF ChatIndexes

LEMMA KeptInAll ==
  ASSUME NEW s, KeptRequired \subseteq s.columns
  PROVE  /\ \A x \in KeptIndexes : HasColumns(x, s.columns)
         /\ \A f \in KeptReferences : <<f.table, f.column>> \in s.columns
         /\ <<C, "id">> \in s.columns /\ <<D, "id">> \in s.columns
         /\ <<P, "id">> \in s.columns /\ <<J, "id">> \in s.columns
<1>1. /\ <<C, "tenant_id">> \in KeptRequired
      /\ <<D, "status">> \in KeptRequired /\ <<D, "tenant_id">> \in KeptRequired
      /\ <<P, "document_id">> \in KeptRequired /\ <<P, "page_number">> \in KeptRequired
      /\ <<J, "document_id">> \in KeptRequired /\ <<J, "status">> \in KeptRequired
      /\ <<J, "tenant_id">> \in KeptRequired
      /\ <<C, "id">> \in KeptRequired /\ <<D, "id">> \in KeptRequired
      /\ <<P, "id">> \in KeptRequired /\ <<J, "id">> \in KeptRequired
  BY DEF KeptRequired, Of
<1>2. \A f \in KeptReferences :
        <<f.table, f.column>> = <<P, "document_id">> \/ <<f.table, f.column>> = <<J, "document_id">>
  BY DEF KeptReferences, Reference
<1>3. QED
  BY <1>1, <1>2, KeptColumns

LEMMA ReferenceFacts ==
  /\ \A f \in KeptReferences : f.target = D /\ f.table \in {P, J}
  /\ /\ CollectionReference.target = C
     /\ <<CollectionReference.table, CollectionReference.column>> = <<D, "collection_id">>
  /\ /\ VersionReference.target = D
     /\ <<VersionReference.table, VersionReference.column>> = <<V, "document_id">>
  /\ /\ MessageReference.target = T
     /\ <<MessageReference.table, MessageReference.column>> = <<M, "conversation_id">>
BY DEF KeptReferences, CollectionReference, VersionReference, MessageReference, Reference

LEMMA TablesDiffer ==
  /\ C # D /\ C # V /\ C # P /\ C # J /\ C # T /\ C # M /\ D # V /\ D # P /\ D # J /\ D # T
  /\ D # M /\ V # P /\ V # J /\ V # T /\ V # M /\ P # J /\ P # T /\ P # M /\ J # T /\ J # M
  /\ T # M
BY DEF C, D, V, P, J, T, M

-----------------------------------------------------------------------------
(* The schemas have the columns their indexes and foreign keys are on *)

WellFormed(s) ==
  /\ IsSchema(s)
  /\ \A x \in s.indexes : HasColumns(x, s.columns)
  /\ \A f \in s.references : <<f.table, f.column>> \in s.columns

LEMMA EmptyWellFormed == WellFormed(EmptySchema)
BY DEF WellFormed, IsSchema, EmptySchema

LEMMA FoundationWellFormed == WellFormed(FoundationSchema)
<1>1. IsSchema(FoundationSchema) /\ KeptRequired \subseteq FoundationSchema.columns
  BY DEF IsSchema, FoundationSchema, Declared
<1>2. /\ <<D, "checksum_sha256">> \in FoundationSchema.columns
      /\ <<D, "collection_id">> \in FoundationSchema.columns
      /\ <<D, "tenant_id">> \in FoundationSchema.columns
  BY DEF FoundationSchema, Declared, KeptRequired, FileColumns, Of
<1>3. \A x \in FoundationIndexes : HasColumns(x, FoundationSchema.columns)
  BY <1>1, <1>2, IndexFacts, KeptInAll, PhysicalColumns
<1>4. QED
  BY <1>1, <1>2, <1>3, KeptInAll, ReferenceFacts DEF WellFormed, FoundationSchema, Declared

LEMMA RestoredWellFormed == WellFormed(RestoredSchema)
<1>1. IsSchema(RestoredSchema) /\ KeptRequired \subseteq RestoredSchema.columns
  BY DEF IsSchema, RestoredSchema, Declared
<1>2. /\ <<D, "checksum_sha256">> \in RestoredSchema.columns
      /\ <<D, "collection_id">> \in RestoredSchema.columns
      /\ <<D, "tenant_id">> \in RestoredSchema.columns
  BY DEF RestoredSchema, Declared, KeptRequired, FileColumns, Of
<1>3. \A x \in FoundationIndexes : HasColumns(x, RestoredSchema.columns)
  BY <1>1, <1>2, IndexFacts, KeptInAll, PhysicalColumns
<1>4. QED
  BY <1>1, <1>3, KeptInAll DEF WellFormed, RestoredSchema, Declared

LEMMA PresentInAll ==
  ASSUME NEW s, PresentRequired \subseteq s.columns, PresentOptional \subseteq s.columns
  PROVE  /\ KeptRequired \subseteq s.columns
         /\ \A x \in PresentIndexes : HasColumns(x, s.columns)
         /\ \A f \in PresentReferences : <<f.table, f.column>> \in s.columns
<1>1. KeptRequired \subseteq s.columns
  BY DEF PresentRequired
<1>2. /\ <<V, "document_id">> \in PresentRequired /\ <<V, "checksum_sha256">> \in PresentRequired
      /\ <<V, "version_number">> \in PresentRequired /\ <<D, "source_type">> \in PresentRequired
      /\ <<D, "knowledge_space_id">> \in PresentOptional
  BY DEF PresentRequired, PresentOptional, FileColumns, Of
<1>3. \A x \in PresentIndexes : HasColumns(x, s.columns)
  BY <1>1, <1>2, KeptInAll, VersionColumns DEF PresentIndexes
<1>4. QED
  BY <1>1, <1>2, <1>3, KeptInAll, ReferenceFacts DEF PresentReferences

LEMMA VersionedWellFormed == WellFormed(VersionedSchema)
<1>1. /\ IsSchema(VersionedSchema)
      /\ PresentRequired \subseteq VersionedSchema.columns
      /\ PresentOptional \subseteq VersionedSchema.columns
  BY DEF IsSchema, VersionedSchema, Declared
<1>2. QED
  BY <1>1, PresentInAll DEF WellFormed, VersionedSchema, Declared

LEMMA PipelineWellFormed == WellFormed(PipelineSchema)
<1>1. /\ IsSchema(PipelineSchema)
      /\ PresentRequired \subseteq PipelineSchema.columns
      /\ PresentOptional \subseteq PipelineSchema.columns
  BY DEF IsSchema, PipelineSchema, Declared
<1>2. <<J, "job_type">> \in KeptRequired /\ <<J, "document_id">> \in KeptRequired
  BY DEF KeptRequired, Of
<1>3. \A x \in PipelineIndexes : HasColumns(x, PipelineSchema.columns)
  BY <1>1, <1>2, PresentInAll, PipelineColumns
<1>4. QED
  BY <1>1, <1>3, PresentInAll DEF WellFormed, PipelineSchema, Declared

(* models.py declares the schema of the fourth revision and the chat's.    *)
LEMMA ModelsAre ==
  /\ ModelsSchema.columns = ModelsSchema.required
       \cup PresentOptional \cup Of(J, PipelineOptional)
  /\ ModelsSchema.required = PresentRequired \cup Of(J, PipelineRequired)
       \cup Of(T, {"id", "tenant_id"} \cup Times)
       \cup Of(M, {"id", "conversation_id", "seq", "role", "content", "created_at"})
  /\ ModelsSchema.indexes = PresentIndexes \cup PipelineIndexes \cup ChatIndexes
  /\ ModelsSchema.references = PresentReferences \cup {MessageReference}
<1>1. ModelsSchema.required = PresentRequired \cup Of(J, PipelineRequired)
        \cup Of(T, {"id", "tenant_id"} \cup Times)
        \cup Of(M, {"id", "conversation_id", "seq", "role", "content", "created_at"})
  BY DEF ModelsSchema, PresentRequired, KeptRequired, PipelineRequired, Of
<1>2. ModelsSchema.columns = ModelsSchema.required
        \cup PresentOptional \cup Of(J, PipelineOptional)
  BY DEF ModelsSchema, PresentOptional, KeptOptional, PipelineOptional, Of
<1>3. ModelsSchema.references = PresentReferences \cup {MessageReference}
  BY DEF ModelsSchema, PresentReferences, KeptReferences, VersionReference, MessageReference
<1>4. QED
  BY <1>1, <1>2, <1>3, IndexFacts

LEMMA ModelsWellFormed == WellFormed(ModelsSchema)
<1>1. IsSchema(ModelsSchema)
  BY DEF IsSchema, ModelsSchema
<1>2. PresentRequired \subseteq ModelsSchema.columns /\ PresentOptional \subseteq ModelsSchema.columns
  BY ModelsAre
<1>3. /\ <<J, "job_type">> \in KeptRequired /\ <<J, "document_id">> \in KeptRequired
      /\ <<T, "tenant_id">> \in ModelsSchema.columns
      /\ <<M, "conversation_id">> \in ModelsSchema.columns
      /\ <<M, "seq">> \in ModelsSchema.columns
  BY ModelsAre DEF KeptRequired, Of
<1>4. /\ \A x \in PipelineIndexes : HasColumns(x, ModelsSchema.columns)
      /\ \A x \in ChatIndexes : HasColumns(x, ModelsSchema.columns)
  BY <1>2, <1>3, PresentInAll, PipelineColumns, ChatColumns
<1>5. QED
  BY <1>1, <1>2, <1>3, <1>4, PresentInAll, ReferenceFacts, ModelsAre DEF WellFormed

-----------------------------------------------------------------------------
(* What each revision makes of the schema, up and down *)

(* The first revision creates the tables.                                  *)
LEMMA FoundationUp == Moves(EmptySchema, UpFoundation, FoundationSchema)
<1>1. ColumnsMove(EmptySchema, UpFoundation, FoundationSchema)
  BY TablesDropped
     DEF ColumnsMove, EmptySchema, FoundationSchema, Declared, UpFoundation, NoChange,
         KeptRequired, KeptOptional, Of, Times, FileColumns, FileOptional
<1>2. IndexesMove(EmptySchema, UpFoundation, FoundationSchema)
  BY FoundationWellFormed
     DEF WellFormed, IndexesMove, EmptySchema, FoundationSchema, Declared, UpFoundation, NoChange
<1>3. ReferencesMove(EmptySchema, UpFoundation, FoundationSchema)
  <2>1. /\ EmptySchema.references = {}
        /\ UpFoundation.references = FoundationSchema.references
        /\ FoundationSchema.references = KeptReferences \cup {CollectionReference}
    BY DEF EmptySchema, UpFoundation, NoChange, FoundationSchema, Declared, KeptReferences,
           CollectionReference
  <2>2. <<C, "id">> \in FoundationSchema.columns /\ <<D, "id">> \in FoundationSchema.columns
    BY KeptInAll DEF FoundationSchema, Declared
  <2>3. QED
    BY <2>1, <2>2, FoundationWellFormed, ReferenceFacts DEF WellFormed, ReferencesMove
<1>4. DropsInOrder(EmptySchema, UpFoundation)
  BY DEF DropsInOrder, UpFoundation, NoChange
<1>5. QED
  BY <1>1, <1>2, <1>3, <1>4, MovesWhen, FoundationWellFormed DEF WellFormed

(* The second moves the files into a table of versions, from the first as  *)
(* it was created or as it was restored.                                   *)
LEMMA VersioningUp ==
  ASSUME NEW s \in {FoundationSchema, RestoredSchema}
  PROVE  Moves(s, UpVersioning, VersionedSchema)
<1>1. ColumnsMove(s, UpVersioning, VersionedSchema)
  <2>1. CASE s = FoundationSchema
    BY <2>1, TablesDropped, TablesDiffer
       DEF ColumnsMove, FoundationSchema, VersionedSchema, Declared, UpVersioning, NoChange,
           KeptRequired, KeptOptional, PresentRequired, PresentOptional, Of, Times,
           FileColumns, FileOptional
  <2>2. CASE s = RestoredSchema
    BY <2>2, TablesDropped, TablesDiffer
       DEF ColumnsMove, RestoredSchema, VersionedSchema, Declared, UpVersioning, NoChange,
           KeptRequired, KeptOptional, PresentRequired, PresentOptional, Of, Times,
           FileColumns, FileOptional
  <2>3. QED
    BY <2>1, <2>2
<1>2. IndexesMove(s, UpVersioning, VersionedSchema)
  <2>1. s.indexes = FoundationIndexes
    BY DEF FoundationSchema, RestoredSchema, Declared
  <2>2. QED
    BY <2>1, IndexFacts, VersionedWellFormed
       DEF WellFormed, IndexesMove, VersionedSchema, Declared, UpVersioning, NoChange,
           PresentIndexes
<1>3. ReferencesMove(s, UpVersioning, VersionedSchema)
  <2>1. \A f \in s.references : f \in KeptReferences \/ f = CollectionReference
    BY DEF FoundationSchema, RestoredSchema, Declared
  <2>2. KeptReferences \subseteq s.references
    BY DEF FoundationSchema, RestoredSchema, Declared
  <2>3. /\ UpVersioning.references = {VersionReference}
        /\ VersionedSchema.references = KeptReferences \cup {VersionReference}
    BY DEF UpVersioning, NoChange, VersionReference, VersionedSchema, Declared, PresentReferences
  <2>4. <<D, "collection_id">> \notin VersionedSchema.columns
    BY TablesDiffer
       DEF VersionedSchema, Declared, KeptRequired, KeptOptional, PresentRequired,
           PresentOptional, Of, Times, FileColumns, FileOptional
  <2>5. <<D, "id">> \in VersionedSchema.columns
    BY KeptInAll DEF VersionedSchema, Declared, PresentRequired
  <2>6. QED
    BY <2>1, <2>2, <2>3, <2>4, <2>5, VersionedWellFormed, ReferenceFacts
       DEF WellFormed, ReferencesMove
<1>4. DropsInOrder(s, UpVersioning)
  BY DEF DropsInOrder, UpVersioning, NoChange
<1>5. QED
  BY <1>1, <1>2, <1>3, <1>4, MovesWhen, VersionedWellFormed DEF WellFormed

(* The third changes data only.                                            *)
LEMMA MetadataMoves == Moves(VersionedSchema, NoChange, VersionedSchema)
<1>1. /\ NoChange.required = {} /\ NoChange.optional = {} /\ NoChange.tightened = {}
      /\ NoChange.unindexed = {} /\ NoChange.indexed = {} /\ NoChange.references = {}
      /\ NoChange.dropped = {} /\ DOMAIN NoChange.drop_tables = {}
  BY DEF NoChange
<1>2. VersionedSchema.required \subseteq VersionedSchema.columns
  BY DEF VersionedSchema, Declared
<1>3. /\ ColumnsMove(VersionedSchema, NoChange, VersionedSchema)
      /\ IndexesMove(VersionedSchema, NoChange, VersionedSchema)
      /\ ReferencesMove(VersionedSchema, NoChange, VersionedSchema)
      /\ DropsInOrder(VersionedSchema, NoChange)
  BY <1>1, <1>2, TablesDropped, VersionedWellFormed
     DEF WellFormed, ColumnsMove, IndexesMove, ReferencesMove, DropsInOrder
<1>4. QED
  BY <1>3, MovesWhen, VersionedWellFormed DEF WellFormed

(* The fourth and its undoing exchange columns of the jobs.                *)
LEMMA PipelineMoves ==
  /\ Moves(VersionedSchema, UpPipeline, PipelineSchema)
  /\ Moves(PipelineSchema, DownPipeline, VersionedSchema)
<1>1. ColumnsMove(VersionedSchema, UpPipeline, PipelineSchema)
  BY TablesDropped, TablesDiffer
     DEF ColumnsMove, VersionedSchema, PipelineSchema, Declared, UpPipeline, NoChange,
         KeptRequired, KeptOptional, PresentRequired, PresentOptional, Of, Times,
         PipelineRequired, PipelineOptional
<1>2. ColumnsMove(PipelineSchema, DownPipeline, VersionedSchema)
  BY TablesDropped, TablesDiffer
     DEF ColumnsMove, VersionedSchema, PipelineSchema, Declared, DownPipeline, NoChange,
         KeptRequired, KeptOptional, PresentRequired, PresentOptional, Of, Times,
         PipelineRequired, PipelineOptional
<1>3. /\ IndexesMove(VersionedSchema, UpPipeline, PipelineSchema)
      /\ IndexesMove(PipelineSchema, DownPipeline, VersionedSchema)
  BY IndexFacts, VersionedWellFormed, PipelineWellFormed
     DEF WellFormed, IndexesMove, VersionedSchema, PipelineSchema, Declared, UpPipeline,
         DownPipeline, NoChange
<1>4. /\ ReferencesMove(VersionedSchema, UpPipeline, PipelineSchema)
      /\ ReferencesMove(PipelineSchema, DownPipeline, VersionedSchema)
  <2>1. /\ UpPipeline.references = {} /\ DownPipeline.references = {}
        /\ VersionedSchema.references = PipelineSchema.references
    BY DEF UpPipeline, DownPipeline, NoChange, VersionedSchema, PipelineSchema, Declared
  <2>2. QED
    BY <2>1, VersionedWellFormed, PipelineWellFormed DEF WellFormed, ReferencesMove
<1>5. DropsInOrder(VersionedSchema, UpPipeline) /\ DropsInOrder(PipelineSchema, DownPipeline)
  BY DEF DropsInOrder, UpPipeline, DownPipeline, NoChange
<1>6. QED
  BY <1>1, <1>2, <1>3, <1>4, <1>5, MovesWhen, VersionedWellFormed, PipelineWellFormed
     DEF WellFormed

(* The fifth creates the tables of the chat, and ends at the models.       *)
LEMMA ChatUp == Moves(PipelineSchema, UpChat, ModelsSchema)
<1>1. ColumnsMove(PipelineSchema, UpChat, ModelsSchema)
  BY TablesDropped, TablesDiffer, ModelsAre
     DEF ColumnsMove, PipelineSchema, Declared, UpChat, NoChange, KeptRequired, KeptOptional,
         PresentRequired, PresentOptional, Of
<1>2. IndexesMove(PipelineSchema, UpChat, ModelsSchema)
  BY IndexFacts, ModelsWellFormed
     DEF WellFormed, IndexesMove, PipelineSchema, Declared, UpChat, NoChange
<1>3. ReferencesMove(PipelineSchema, UpChat, ModelsSchema)
  <2>1. UpChat.references = {MessageReference} /\ PipelineSchema.references = PresentReferences
    BY DEF UpChat, NoChange, MessageReference, PipelineSchema, Declared
  <2>2. <<T, "id">> \in ModelsSchema.columns
    BY ModelsAre DEF Of
  <2>3. QED
    BY <2>1, <2>2, ModelsAre, ModelsWellFormed, ReferenceFacts DEF WellFormed, ReferencesMove
<1>4. DropsInOrder(PipelineSchema, UpChat)
  BY DEF DropsInOrder, UpChat, NoChange
<1>5. QED
  BY <1>1, <1>2, <1>3, <1>4, MovesWhen, ModelsWellFormed DEF WellFormed

(* The messages, which refer to the conversations, are dropped first.      *)
LEMMA ChatDown == Moves(ModelsSchema, DownChat, PipelineSchema)
<1>1. ColumnsMove(ModelsSchema, DownChat, PipelineSchema)
  BY TablesDropped, TablesDiffer, ModelsAre
     DEF ColumnsMove, PipelineSchema, Declared, DownChat, NoChange, KeptRequired, KeptOptional,
         PresentRequired, PresentOptional, Of
<1>2. IndexesMove(ModelsSchema, DownChat, PipelineSchema)
  BY IndexFacts, PipelineWellFormed
     DEF WellFormed, IndexesMove, PipelineSchema, Declared, DownChat, NoChange
<1>3. ReferencesMove(ModelsSchema, DownChat, PipelineSchema)
  <2>1. DownChat.references = {} /\ PipelineSchema.references = PresentReferences
    BY DEF DownChat, NoChange, PipelineSchema, Declared
  <2>2. <<M, "conversation_id">> \notin PipelineSchema.columns
    BY TablesDiffer
       DEF PipelineSchema, Declared, KeptRequired, KeptOptional, PresentRequired,
           PresentOptional, Of
  <2>3. QED
    BY <2>1, <2>2, ModelsAre, PipelineWellFormed, ReferenceFacts DEF WellFormed, ReferencesMove
<1>4. DropsInOrder(ModelsSchema, DownChat)
  <2>1. DownChat.drop_tables = <<M, T>> /\ DOMAIN <<M, T>> = 1 .. 2
    BY DEF DownChat, NoChange
  <2>2. <<M, "id">> \in ModelsSchema.columns /\ <<T, "id">> \in ModelsSchema.columns
    BY ModelsAre DEF Of
  <2>3. \A f \in ModelsSchema.references : f.target = D \/ (f.target = T /\ f.table = M)
    BY ModelsAre, ReferenceFacts DEF PresentReferences
  <2>4. \A n, a : <<n, a>>[1] = n
    OBVIOUS
  <2>5. QED
    BY <2>1, <2>2, <2>3, <2>4, TablesDiffer DEF DropsInOrder
<1>5. QED
  BY <1>1, <1>2, <1>3, <1>4, MovesWhen, PipelineWellFormed DEF WellFormed

LEMMA VersioningDown == Moves(VersionedSchema, DownVersioning, RestoredSchema)
<1>1. ColumnsMove(VersionedSchema, DownVersioning, RestoredSchema)
  BY TablesDropped, TablesDiffer
     DEF ColumnsMove, VersionedSchema, RestoredSchema, Declared, DownVersioning, NoChange,
         KeptRequired, KeptOptional, PresentRequired, PresentOptional, Of, Times,
         FileColumns, FileOptional
<1>2. IndexesMove(VersionedSchema, DownVersioning, RestoredSchema)
  BY IndexFacts, RestoredWellFormed
     DEF WellFormed, IndexesMove, VersionedSchema, RestoredSchema, Declared, DownVersioning,
         NoChange, PresentIndexes
<1>3. ReferencesMove(VersionedSchema, DownVersioning, RestoredSchema)
  <2>1. /\ DownVersioning.references = {} /\ RestoredSchema.references = KeptReferences
        /\ VersionedSchema.references = KeptReferences \cup {VersionReference}
    BY DEF DownVersioning, NoChange, RestoredSchema, VersionedSchema, Declared, PresentReferences
  <2>2. <<V, "document_id">> \notin RestoredSchema.columns
    BY TablesDiffer DEF RestoredSchema, Declared, KeptRequired, KeptOptional, Of
  <2>3. QED
    BY <2>1, <2>2, RestoredWellFormed, ReferenceFacts DEF WellFormed, ReferencesMove
<1>4. DropsInOrder(VersionedSchema, DownVersioning)
  <2>1. DownVersioning.drop_tables = <<V>> /\ DOMAIN <<V>> = 1 .. 1
    BY DEF DownVersioning, NoChange
  <2>2. <<V, "id">> \in VersionedSchema.columns
    BY DEF VersionedSchema, Declared, PresentRequired, Of
  <2>3. \A f \in VersionedSchema.references : f.target = D
    BY ReferenceFacts DEF VersionedSchema, Declared, PresentReferences
  <2>4. \A n, a : <<n, a>>[1] = n
    OBVIOUS
  <2>5. QED
    BY <2>1, <2>2, <2>3, <2>4, TablesDiffer DEF DropsInOrder
<1>5. QED
  BY <1>1, <1>2, <1>3, <1>4, MovesWhen, RestoredWellFormed DEF WellFormed

(* The documents are dropped after the pages and the jobs, which refer to  *)
(* them, and before the collections.                                       *)
LEMMA FoundationDown ==
  ASSUME NEW s \in {FoundationSchema, RestoredSchema}
  PROVE  Moves(s, DownFoundation, EmptySchema)
<1>1. /\ DownFoundation.required = {} /\ DownFoundation.optional = {}
      /\ DownFoundation.tightened = {} /\ DownFoundation.dropped = {}
      /\ DownFoundation.unindexed = FoundationIndexes /\ DownFoundation.indexed = {}
      /\ DownFoundation.references = {} /\ DownFoundation.drop_tables = <<J, P, D, C>>
  BY DEF DownFoundation, NoChange
<1>2. \A c \in s.columns : c[1] \in {J, P, D, C}
  <2>1. CASE s = FoundationSchema
    BY <2>1 DEF FoundationSchema, Declared, KeptRequired, KeptOptional, Of
  <2>2. CASE s = RestoredSchema
    BY <2>2 DEF RestoredSchema, Declared, KeptRequired, KeptOptional, Of
  <2>3. QED
    BY <2>1, <2>2
<1>3. s.indexes = FoundationIndexes /\ KeptRequired \subseteq s.columns
  BY DEF FoundationSchema, RestoredSchema, Declared
<1>4. /\ ColumnsMove(s, DownFoundation, EmptySchema)
      /\ IndexesMove(s, DownFoundation, EmptySchema)
      /\ ReferencesMove(s, DownFoundation, EmptySchema)
  BY <1>1, <1>2, <1>3, TablesDropped
     DEF ColumnsMove, IndexesMove, ReferencesMove, EmptySchema
<1>5. DropsInOrder(s, DownFoundation)
  <2>1. DOMAIN <<J, P, D, C>> = 1 .. 4
    OBVIOUS
  <2>2. /\ <<J, "id">> \in s.columns /\ <<P, "id">> \in s.columns
        /\ <<D, "id">> \in s.columns /\ <<C, "id">> \in s.columns
    BY <1>3, KeptInAll
  <2>3. \A f \in s.references : \/ f.target = D /\ f.table \in {P, J}
                                \/ f.target = C /\ f.table = D
    BY ReferenceFacts DEF FoundationSchema, RestoredSchema, Declared
  <2>4. \A n, a : <<n, a>>[1] = n
    OBVIOUS
  <2>5. QED
    BY <1>1, <2>1, <2>2, <2>3, <2>4, TablesDiffer DEF DropsInOrder
<1>6. QED
  BY <1>4, <1>5, MovesWhen, EmptyWellFormed DEF WellFormed

-----------------------------------------------------------------------------
(* The schema along the revisions *)

SchemaInv ==
  /\ rev \in 0 .. 5
  /\ rev = 0 => schema = EmptySchema
  /\ rev = 1 => schema \in {FoundationSchema, RestoredSchema}
  /\ rev \in 2 .. 3 => schema = VersionedSchema
  /\ rev = 4 => schema = PipelineSchema
  /\ rev = 5 => schema = ModelsSchema

LEMMA TheRevisions ==
  /\ Up[1] = UpFoundation /\ Up[2] = UpVersioning /\ Up[3] = NoChange
  /\ Up[4] = UpPipeline /\ Up[5] = UpChat
  /\ Down[1] = DownFoundation /\ Down[2] = DownVersioning /\ Down[3] = NoChange
  /\ Down[4] = DownPipeline /\ Down[5] = DownChat
BY DEF Up, Down

(* From the schema of a revision the next one runs, and so does its own    *)
(* undoing, and either ends at the schema of the revision it leads to.     *)
LEMMA SchemaSteps ==
  ASSUME SchemaInv
  PROVE  /\ rev = 0 => Moves(schema, Up[1], FoundationSchema)
         /\ rev = 1 => /\ Moves(schema, Up[2], VersionedSchema)
                       /\ Moves(schema, Down[1], EmptySchema)
         /\ rev = 2 => /\ Moves(schema, Up[3], VersionedSchema)
                       /\ Moves(schema, Down[2], RestoredSchema)
         /\ rev = 3 => /\ Moves(schema, Up[4], PipelineSchema)
                       /\ Moves(schema, Down[3], VersionedSchema)
         /\ rev = 4 => /\ Moves(schema, Up[5], ModelsSchema)
                       /\ Moves(schema, Down[4], VersionedSchema)
         /\ rev = 5 => Moves(schema, Down[5], PipelineSchema)
<1>1. CASE rev = 0
  BY <1>1, FoundationUp, TheRevisions DEF SchemaInv
<1>2. CASE rev = 1
  BY <1>2, VersioningUp, FoundationDown, TheRevisions DEF SchemaInv
<1>3. CASE rev = 2
  BY <1>3, MetadataMoves, VersioningDown, TheRevisions DEF SchemaInv
<1>4. CASE rev = 3
  BY <1>4, PipelineMoves, MetadataMoves, TheRevisions DEF SchemaInv
<1>5. CASE rev = 4
  BY <1>5, ChatUp, PipelineMoves, TheRevisions DEF SchemaInv
<1>6. CASE rev = 5
  BY <1>6, ChatDown, TheRevisions DEF SchemaInv
<1>7. QED
  BY <1>1, <1>2, <1>3, <1>4, <1>5, <1>6 DEF SchemaInv

LEMMA UpgradeKeepsSchema ==
  ASSUME SchemaInv, NEW r \in 1 .. 5, Upgrade(r)
  PROVE  SchemaInv'
<1>1. rev = r - 1 /\ rev' = r /\ schema' = Changed(schema, Up[r])
  BY DEF Upgrade
<1>2. \A t : Moves(schema, Up[r], t) => schema' = t
  BY <1>1 DEF Moves
<1>3. /\ r = 1 => schema' = FoundationSchema
      /\ r \in 2 .. 3 => schema' = VersionedSchema
      /\ r = 4 => schema' = PipelineSchema
      /\ r = 5 => schema' = ModelsSchema
  BY <1>1, <1>2, SchemaSteps
<1>4. QED
  BY <1>1, <1>3 DEF SchemaInv

LEMMA DowngradeKeepsSchema ==
  ASSUME SchemaInv, NEW r \in 1 .. 5, Downgrade(r)
  PROVE  SchemaInv'
<1>1. rev = r /\ rev' = r - 1 /\ schema' = Changed(schema, Down[r])
  BY DEF Downgrade
<1>2. \A t : Moves(schema, Down[r], t) => schema' = t
  BY <1>1 DEF Moves
<1>3. /\ r = 1 => schema' = EmptySchema
      /\ r = 2 => schema' = RestoredSchema
      /\ r \in 3 .. 4 => schema' = VersionedSchema
      /\ r = 5 => schema' = PipelineSchema
  BY <1>1, <1>2, SchemaSteps
<1>4. QED
  BY <1>1, <1>3 DEF SchemaInv

LEMMA NextSchemaInv ==
  ASSUME SchemaInv, [MigrationsNext]_vars
  PROVE  SchemaInv'
<1>1. CASE \E r \in 1 .. 5 : Upgrade(r) \/ Downgrade(r)
  BY <1>1, UpgradeKeepsSchema, DowngradeKeepsSchema
<1>2. CASE UNCHANGED <<rev, schema>>
  BY <1>2 DEF SchemaInv
<1>3. \/ \E r \in 1 .. 5 : Upgrade(r) \/ Downgrade(r)
      \/ UNCHANGED <<rev, schema>>
  <2>1. /\ UpgradeFoundation => Upgrade(1)
        /\ UpgradeVersioning => Upgrade(2)
        /\ UpgradeMetadata => Upgrade(3)
        /\ UpgradePipeline => Upgrade(4)
        /\ UpgradeChat => Upgrade(5)
    BY DEF UpgradeFoundation, UpgradeVersioning, UpgradeMetadata, UpgradePipeline, UpgradeChat
  <2>2. /\ DowngradeFoundation => Downgrade(1)
        /\ DowngradeVersioning => Downgrade(2)
        /\ DowngradeMetadata => Downgrade(3)
        /\ DowngradePipeline => Downgrade(4)
        /\ DowngradeChat => Downgrade(5)
    BY DEF DowngradeFoundation, DowngradeVersioning, DowngradeMetadata, DowngradePipeline,
           DowngradeChat
  <2>3. \A d, candidate, request, space :
          (\/ LegacyWrite(d) \/ Upload(d, candidate) \/ AddVersion(d, candidate)
           \/ Patch(d, request, space) \/ WorkJob(d)) => UNCHANGED <<rev, schema>>
    BY DEF LegacyWrite, Upload, AddVersion, Patch, WorkJob
  <2>4. CASE UNCHANGED vars
    BY <2>4 DEF vars
  <2>5. CASE \E d \in Doc :
               \/ LegacyWrite(d)
               \/ \E candidate \in Candidates : Upload(d, candidate) \/ AddVersion(d, candidate)
               \/ \E request \in Requests \cup {Nothing}, space \in Space \cup {Nothing} :
                    Patch(d, request, space)
               \/ WorkJob(d)
    BY <2>3, <2>5
  <2>6. QED
    BY <2>1, <2>2, <2>4, <2>5 DEF MigrationsNext
<1>4. QED
  BY <1>1, <1>2, <1>3

(* Whichever way a database came to a revision, its schema is the one the  *)
(* revision declares; only the first has two, for the undoing of the       *)
(* second does not restore what it had.                                    *)
THEOREM SchemaOfEachRevision == MigrationsSpec => []SchemaInv
<1>1. MigrationsInit => SchemaInv
  BY DEF MigrationsInit, SchemaInv
<1>2. SchemaInv /\ [MigrationsNext]_vars => SchemaInv'
  BY NextSchemaInv
<1>3. QED
  BY <1>1, <1>2, PTL DEF MigrationsSpec

(* The next revision and the undoing of the last run on every database the *)
(* releases can leave behind.                                              *)
THEOREM NeitherWayBlockedHolds == MigrationsSpec => []NeitherWayBlocked
<1>1. SchemaInv => /\ rev < LastRevision => Accepted(schema, Up[rev + 1])
                   /\ rev > 0 => Accepted(schema, Down[rev])
  <2>1. ASSUME SchemaInv
        PROVE  /\ rev < 5 => Accepted(schema, Up[rev + 1])
               /\ rev > 0 => Accepted(schema, Down[rev])
    BY <2>1, SchemaSteps DEF SchemaInv, Moves
  <2>2. QED
    BY <2>1, LastIsFive
<1>2. IInv => (rev = 1 => FilesPresent)
  BY FilesAssumption DEF IInv, DocumentInv, GoodFile, FilesPresent
<1>3. SchemaInv /\ IInv => NeitherWayBlocked
  BY <1>1, <1>2 DEF NeitherWayBlocked
<1>4. QED
  BY <1>3, SchemaOfEachRevision, Invariance, PTL

(* At the last revision the schema is what models.py declares.             *)
THEOREM HeadIsModelsHolds == MigrationsSpec => []HeadIsModels
<1>1. SchemaInv => HeadIsModels
  BY LastIsFive DEF SchemaInv, HeadIsModels
<1>2. QED
  BY <1>1, SchemaOfEachRevision, PTL
=============================================================================
