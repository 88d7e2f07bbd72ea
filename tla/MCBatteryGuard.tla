--------------------------- MODULE MCBatteryGuard ---------------------------
(* Settings for the model checker: the defaults, a set the code has to put *)
(* in order, and one saved out of range.                                   *)
EXTENDS BatteryGuard

S(p, s, r) == [pauseRefresh |-> p, stopAll |-> s, resume |-> r]

MCSettings == {S(60, 40, 80), S(50, 70, 45), S(120, 40, -5)}
=============================================================================
