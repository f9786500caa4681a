---------------------------- MODULE MCNmeaTelemetry ----------------------------
(* Sequences of three messages and one that repeat a satellite, overfill the
   staging buffer of three and, together, the list of three.

   The satellite list and the fix have no variable in common, so a property of
   one holds in all interleavings if it holds while the other stands still: the
   run takes each part by itself.                                             *)
EXTENDS NmeaTelemetry

VARIABLE part

MCEpochs == << { << <<1>>, <<1, 2>>, <<3>> >>, << <<2>> >> },
               { << <<1, 2>>, <<3, 4>> >>, << <<3>> >> } >>
MCSentences == <<"GGA", "RMC", "GSA", "GST">>

MCInit == Init /\ part \in {"list", "fix"}
MCNext ==
    /\ \/ part = "list" /\ Satellites
       \/ part = "fix" /\ Navigation
    /\ UNCHANGED part
MCSpec == MCInit /\ [][MCNext]_<<vars, part>>
================================================================================
