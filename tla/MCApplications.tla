--------------------------- MODULE MCApplications ---------------------------
(* Applications for TLC: three built-in applications and two slots for      *)
(* applications from the card.                                              *)
EXTENDS Applications

CONSTANTS recorder, notes, hardware, lua1, lua2

MCApps == {recorder, notes, hardware, lua1, lua2}
MCExternal == <<lua1, lua2>>
MCTexts == {Empty, "text"}
MCPresets == {0, 65}
=============================================================================
