----------------------------- MODULE MCInternetProbe -----------------------------
(* The probe with times of a few ticks; the cfg sets them. *)
EXTENDS InternetProbe
================================================================================
