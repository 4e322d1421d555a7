---------------------------- MODULE MCJobPipeline ----------------------------
(* Small instances of JobPipeline for TLC. *)
EXTENDS JobPipeline, TLC

CONSTANTS j1, j2, j3, ingest1, ocr1

(* Two ingestion jobs of one document, and an OCR job of the same document, *)
(* whose type has no worker (composition.py registers ingestion only).      *)
MCSlot   == {ingest1, ocr1}
MCSlotOf == [j \in Job |-> IF j = j3 THEN ocr1 ELSE ingest1]

WorkerSymmetry == Permutations(Worker)
=============================================================================
