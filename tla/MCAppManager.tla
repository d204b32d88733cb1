---------------------------- MODULE MCAppManager ----------------------------
(***************************************************************************)
(* Instances of AppManager for TLC.                                        *)
(***************************************************************************)
EXTENDS AppManager

CONSTANTS a1, a2, a3
MCApps == {a1, a2, a3}
=============================================================================
