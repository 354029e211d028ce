-------------------------- MODULE MCGroupCallbacks --------------------------
(***************************************************************************)
(* Instances of GroupCallbacks for TLC: words of two bits, HALF = 2.       *)
(***************************************************************************)
EXTENDS GroupCallbacks, TLC

CONSTANTS b1, b2

MCIds == {1, 2}
Symm == Permutations({b1, b2})

===============================================================================
