----------------------------- MODULE MCHaptics -----------------------------
(* Haptics for TLC: a weak intensity that needs the kick and a strong one   *)
(* that does not, two durations.                                            *)
EXTENDS Haptics

MCIntensities == {0, 1, 2}
MCDurations == {0, 1, 2}
MCKicked == {1}
=============================================================================
