--------------------------- MODULE MCHuskyCapture ---------------------------
(* Instances of HuskyCapture for TLC.                                        *)
EXTENDS HuskyCapture
=============================================================================
