----------------------------- MODULE MCAdcCapture -----------------------------
(* AdcCapture for TLC: its constants come from the configurations.         *)
EXTENDS AdcCapture
=============================================================================
