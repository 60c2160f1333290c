---------------------------- MODULE MCGpsFirmware ----------------------------
(***************************************************************************)
(* Instances of GpsFirmware: two periods of the module, so that every pair *)
(* of neighbouring sentences occurs.                                       *)
(***************************************************************************)
EXTENDS GpsFirmware
=============================================================================
