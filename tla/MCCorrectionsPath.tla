--------------------------- MODULE MCCorrectionsPath ---------------------------
(* Values for TLC: buffers of three bytes and one, chunks of two, writes of up
   to three bytes, so that a write can be accepted, cut and rejected. *)
EXTENDS CorrectionsPath

MCCapacity == [s \in Source |-> IF s = "ble" THEN 3 ELSE 1]
MCMaxBytes == [ble |-> 5, tcp |-> 2, ntrip |-> 1]
================================================================================
