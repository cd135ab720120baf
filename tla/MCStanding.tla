----------------------------- MODULE MCStanding -----------------------------
(* A small instance of Standing for TLC: two accounts, two calls at once,    *)
(* two documents and two persons.                                            *)
EXTENDS Standing, TLC

CONSTANTS a1, a2, c1, c2, d1, d2, p1, p2

MCSymmetry == Permutations(Accounts) \cup Permutations(Calls)
                \cup Permutations(Docs) \cup Permutations(Persons)
=============================================================================
