----------------------------- MODULE SourceTypes -----------------------------
(***************************************************************************)
(* File extensions and the kind of source they stand for                   *)
(* (app/domain/documents/source_type.py).  A text is its letters and what  *)
(* strip(), lower() and lstrip(".") look at: blanks before and after them, *)
(* capitals, leading dots.  Blanks alone are before.                       *)
(***************************************************************************)

Text(Words) ==
  [word : Words, upper : BOOLEAN, dotted : BOOLEAN, before : BOOLEAN, after : BOOLEAN]

Plain(word) ==
  [word |-> word, upper |-> FALSE, dotted |-> FALSE, before |-> FALSE, after |-> FALSE]

Strip(text) == [text EXCEPT !.before = FALSE, !.after = FALSE]
Lower(text) == [text EXCEPT !.upper = FALSE]

(* not text.strip() *)
Blank(text) == text.word = "" /\ ~text.dotted

(* lstrip(".") sees no dot behind a blank. *)
StripDots(text) == IF text.before THEN text ELSE [text EXCEPT !.dotted = FALSE]

-----------------------------------------------------------------------------

SourceType ==
  {"pdf", "word", "excel", "powerpoint", "markdown", "text", "html", "image", "email",
   "notion", "confluence", "github", "database", "api", "web"}

ExtensionsOf ==
  [ pdf        |-> {"pdf"},
    word       |-> {"doc", "docx", "rtf"},
    excel      |-> {"xls", "xlsx", "csv"},
    powerpoint |-> {"ppt", "pptx"},
    markdown   |-> {"md", "markdown"},
    text       |-> {"txt"},
    html       |-> {"html", "htm"},
    image      |-> {"png", "jpg", "jpeg", "gif", "webp", "tiff"},
    email      |-> {"eml", "msg"} ]

KnownExtensions == UNION {ExtensionsOf[t] : t \in DOMAIN ExtensionsOf}

(* What a table of plain words makes of a text; the default is "text". *)
LookUp(table, text) ==
  IF \E t \in DOMAIN table : \E w \in table[t] : text = Plain(w)
    THEN CHOOSE t \in DOMAIN table : text.word \in table[t]
    ELSE "text"

FromExtension(extension) == LookUp(ExtensionsOf, Lower(StripDots(extension)))
=============================================================================
