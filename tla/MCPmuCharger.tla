---------------------------- MODULE MCPmuCharger ----------------------------
(* Battery readings for TLC: one temperature in each band of the range    *)
(* checks (3, 20, 45, 65 and 75 degrees C) and two states of charge.      *)
EXTENDS PmuCharger

TempSamples == {2731 + 10 * c : c \in {3, 20, 45, 65, 75}}
=============================================================================
