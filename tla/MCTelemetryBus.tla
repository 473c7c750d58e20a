---------------------------- MODULE MCTelemetryBus ----------------------------
(* Two workers and the owner, a queue of two, four entries.                *)
EXTENDS TelemetryBus

CONSTANTS turn, window, ui

TwoWorkers == {turn, window}
===============================================================================
