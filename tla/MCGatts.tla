------------------------------- MODULE MCGatts ------------------------------
(* Gatts for TLC: the first characteristic permits notifications only, the *)
(* others indications only.                                                *)
EXTENDS Gatts

MCAllowed == [c \in Chars |-> IF c = 1 THEN {"notify"} ELSE {"indicate"}]
=============================================================================
