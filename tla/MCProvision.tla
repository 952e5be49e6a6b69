----------------------------- MODULE MCProvision -----------------------------
(* Provision for TLC: requests, instances, accounts and parameters are     *)
(* model values; requests are interchangeable.                              *)
EXTENDS Provision, TLC

CONSTANTS r1, r2, r3, i1, i2, g1, p1, p2

MCSymmetry == Permutations({r1, r2, r3})

=============================================================================
