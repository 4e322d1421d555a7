---------------------------- MODULE MCMigrations ----------------------------
(* Small instances of Migrations for TLC. *)
EXTENDS Migrations, TLC

DocSymmetry == Permutations(Doc)

Capital(word) == [Plain(word) EXCEPT !.upper = TRUE]
Dotted(word)  == [Plain(word) EXCEPT !.dotted = TRUE]
Padded(word)  == [Plain(word) EXCEPT !.before = TRUE]
Trailed(word) == [Plain(word) EXCEPT !.after = TRUE]

MCLegacyFiles ==
  { [body |-> "a", extension |-> Capital("pdf")],
    [body |-> "b", extension |-> Plain("docx")] }

MCLegacyProps == {{"string"}, {"string", "number"}, {"nul"}}

Sent(body, extension, size, mime) ==
  [body |-> body, extension |-> extension, size |-> size, mime |-> mime]

MCCandidates ==
  { Sent("c", Capital("pdf"), 2, "application/pdf"),
    Sent("d", Plain("docx"),  1, "application/pdf"),
    Sent("d", Plain("pdf"),   3, "application/pdf"),
    Sent("d", Plain("pdf"),   0, "application/pdf"),
    Sent("d", Plain("pdf"),   1, "text/plain"),
    Sent("d", Plain("exe"),   1, "application/pdf"),
    Sent("d", Plain(""),      1, "application/pdf"),
    Sent("d", Padded("docx"), 1, "application/pdf"),
    Sent("d", Trailed("pdf"), 1, "application/pdf"),
    Sent("d", NoExtension,    1, "application/pdf") }

MCRequests ==
  { [ language |-> [Capital("es") EXCEPT !.before = TRUE, !.after = TRUE],
      tags     |-> <<Padded("hr"), Padded(""), Plain("law")>>,
      keywords |-> <<Trailed("pay")>>,
      security |-> "internal", properties |-> {"string"} ],
    [ language |-> Nothing, tags |-> <<Plain("hr"), Capital("hr")>>,
      keywords |-> <<>>, security |-> Nothing, properties |-> {"nul"} ],
    [ language |-> Nothing, tags |-> <<Plain("hr")>>,
      keywords |-> <<>>, security |-> Nothing, properties |-> {"object"} ] }

MCPolicy == [spelling |-> "json", items |-> {Capital("pdf")}]

(* UPLOAD_ALLOWED_EXTENSIONS=".PDF, docx,", '["PDF"]',                         *)
(* '["."," docx"," .pdf",".pdf "]', and the default.                           *)
MCPolicies ==
  { [ spelling |-> "commas",
      items    |-> {[Capital("pdf") EXCEPT !.dotted = TRUE], Padded("docx"), Plain("")} ],
    MCPolicy,
    [ spelling |-> "json",
      items    |-> {Dotted(""), Padded("docx"), [Dotted("pdf") EXCEPT !.before = TRUE],
                    [Dotted("pdf") EXCEPT !.after = TRUE]} ],
    [ spelling |-> "list", items |-> {Plain("pdf")} ] }

MCMimeTypes == {"application/pdf"}
=============================================================================
