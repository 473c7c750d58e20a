---------------------------- MODULE MCApprovalGate ----------------------------
(* The approval gate with one requester, as in the program, and with two.   *)
EXTENDS ApprovalGate

CONSTANTS t1, t2

One == {t1}

Two == {t1, t2}
===============================================================================
