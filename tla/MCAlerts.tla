------------------------------ MODULE MCAlerts ------------------------------
(* Alerts for TLC: two tokens, one alert a day for each, no crash.         *)
EXTENDS Alerts

(* The ticker's order.                                                     *)
MCTokens == <<"SOL", "MET">>
=============================================================================
