------------------------- MODULE MCApplianceMaintenance -------------------------
(***************************************************************************)
(* Small instances of ApplianceMaintenance for TLC.                        *)
(***************************************************************************)
EXTENDS ApplianceMaintenance

CONSTANTS v1, v2, v3

ThreeImages == {v1, v2, v3}
=============================================================================
