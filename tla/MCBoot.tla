------------------------------- MODULE MCBoot -------------------------------
(* Firmware for TLC, over BootPlan: areas of one or three rows, devices on   *)
(* one I2C port that agree on its configuration or not.                      *)
EXTENDS Firmware, TLC

CONSTANTS fast, slow
MCConfigurations == {fast, slow}
MCSymmetry == Permutations(MCConfigurations)
MCAreaRows == {1, 3}
MCStorageDrivers == {"none", "sdspi", "sdmmc"}
=============================================================================
