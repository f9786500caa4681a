----------------------------- MODULE MCNtripClient -----------------------------
(* The client with two tries before lockout and two frames to validate a
   stream: the smallest values for which a count can be off by one. *)
EXTENDS NtripClient
================================================================================
