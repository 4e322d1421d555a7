------------------------------- MODULE Columns -------------------------------
(***************************************************************************)
(* How a repository's update() writes a row.  It reads the row again with  *)
(* session.get and assigns every attribute; the flush then issues an       *)
(* UPDATE of the columns whose new value differs from the one just read.   *)
(* The UPDATE waits for the row's lock, and the columns it does not name   *)
(* keep what the latest committed row has.                                 *)
(***************************************************************************)

(* An optional column: Python's None, or some text or time. *)
None     == "None"
Some     == "Some"
Optional == {None, Some}

(* What one column holds after the UPDATE: `read` is the value just read,  *)
(* `written` the entity's, `current` the one in the row when the lock is   *)
(* granted.                                                                *)
Column(read, written, current) == IF written # read THEN written ELSE current

(* A time the entity has just set differs from any other, hence is written. *)
Timestamp(read, written, current) ==
  IF written = Some THEN Some ELSE Column(read, written, current)
=============================================================================
