-------------------------------- MODULE MCAvi --------------------------------
(* The instance of AviFile that TLC checks.                                *)
EXTENDS AviFile
==============================================================================
