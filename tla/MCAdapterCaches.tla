--------------------------- MODULE MCAdapterCaches ---------------------------
(* Small instances of AdapterCaches for TLC. *)
EXTENDS AdapterCaches
=============================================================================
