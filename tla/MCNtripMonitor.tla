----------------------------- MODULE MCNtripMonitor -----------------------------
(* The monitor with one try before lockout; the configurations and the number
   of outages, posts and reboots are set by each run's cfg. *)
EXTENDS NtripMonitor
================================================================================
