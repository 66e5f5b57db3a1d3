------------------------- MODULE MCActiveTradesSync -------------------------
(* Model checking instances of ActiveTradesSync: neither users nor settings    *)
(* are ordered or told apart by the code.                                    *)
EXTENDS ActiveTradesSync, TLC

IdentitySymmetry == Permutations(Users) \cup Permutations(Settings)
=============================================================================
