----------------------------- MODULE MCDragonRing -----------------------------
(* A ring of seven bytes, frames of three to five.                         *)
EXTENDS DragonRing

CONSTANTS t1, t2

TwoThreads == {t1, t2}
===============================================================================
