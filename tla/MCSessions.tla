----------------------------- MODULE MCSessions -----------------------------
(* A small instance of Recovery for TLC: a device with three tabs, a         *)
(* sign-in, and two submissions of a reset link.                             *)
EXTENDS Recovery, TLC

CONSTANTS s1, c1, c2, c3, r1, r2, k1, l1

MCSymmetry == Permutations(Calls) \cup Permutations(Submits)
=============================================================================
