----------------------------- MODULE MCNetwork -----------------------------
(* Network for TLC, over the timings of a run: no race at all, every race   *)
(* at once, and those of the radio alone.                                   *)
EXTENDS Network

MCTimings == {{}, {"early", "stale"}, Races}
MCRadioRaces == {{"early", "stale"}}
=============================================================================
