---- MODULE MCTurnDriver ----
EXTENDS TurnDriver, TLC
====
