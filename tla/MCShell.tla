------------------------------- MODULE MCShell -------------------------------
(***************************************************************************)
(* Shell for TLC: two applications, a dock button whose application is not *)
(* registered, one timeout of two ticks, three brightnesses (the last one  *)
(* clamped), and points that make vertical drags from and to the top edge  *)
(* and one that is not vertical.                                           *)
(***************************************************************************)
EXTENDS Shell

MCCatalog == <<"dashboard", "hardware">>
MCDocked == {"dashboard", "board"}
MCMoves == {<<"screen_timeout", 0>>, <<"screen_timeout", 4>>}
MCReadable == {{}, StoreKeys, StoreKeys \ {"timeout_s"}}
MCBrightness == {85, 95, 100}
MCCuts == {0, 2, 9}
MCNetworks == {"Connected", "Offline"}
MCPoints == {<<160, 40>>, <<160, 120>>, <<300, 120>>}
=============================================================================
