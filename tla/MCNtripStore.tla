------------------------------ MODULE MCNtripStore ------------------------------
(* A new device, or one that has run on caster 1; then caster 2 is posted, with *)
(* a tuning that begin() takes or with one that it refuses.                     *)
EXTENDS NtripStore

Config(c, t) == [enabled |-> TRUE, caster |-> c, tuning |-> t]
MCPosts == { Config(1, 1), Config(2, 2), Config(2, 3) }
MCRefusedTunings == {3}

MCInit == Init /\ (HasData => nvs.caster = 1)
MCNext == Next /\ (posts' # posts => wrec'.caster = 2)
MCSpec == MCInit /\ [][MCNext]_vars /\ WF_vars(Web) /\ WF_vars(Monitor)
================================================================================
