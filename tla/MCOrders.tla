------------------------------ MODULE MCOrders ------------------------------
(* A small instance of Orders for TLC. *)
EXTENDS Orders, TLC

CONSTANTS u1, xau, b1, s1, s2, k1, k2, c1, c2

Quote(side, grams, subtotal, charge) ==
    [owner |-> u1, side |-> side, asset |-> xau, grams |-> grams,
     subtotal |-> subtotal, charge |-> charge]

\* Of the pairs of trades, b1 (3) and s1 (2) reach the review line within the
\* day's cap, b1 and s2 (4) pass the cap, and s1 and s2 pass the ceiling.
MCTerms == (b1 :> Quote("buy", 2, 2, 1)) @@ (s1 :> Quote("sell", 1, 3, 1))
           @@ (s2 :> Quote("sell", 1, 5, 1))

MCKeyOwner == [k \in Keys |-> u1]

CallSymmetry == Permutations(Calls)
=============================================================================
