------------------------------ MODULE MCRuntime ------------------------------
(* Runtime for TLC: the firmware's catalog, all optional, and others in      *)
(* which a service is critical or settings comes last.                       *)
EXTENDS Runtime

CONSTANTS settings_id, assets_id, diagnostics_id, network_id, home, office

MCServices == {settings_id, assets_id, diagnostics_id, network_id}
MCCriticals == {{}, {diagnostics_id}}
MCCatalogs == {<<settings_id, assets_id, diagnostics_id, network_id>>,
               <<network_id, settings_id>>}
MCNetworks == {home, office}
=============================================================================
