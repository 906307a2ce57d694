----------------------------- MODULE MCThrottle -----------------------------
(* Throttle with one address everybody shares, a member, and a name that   *)
(* nobody has: four keys and room for three.                               *)
EXTENDS Throttle, TLC

MCFree == [kind \in Kinds |-> IF kind = "user" THEN 0 ELSE 1]
=============================================================================
