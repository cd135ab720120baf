----------------------------- MODULE MCPlatform -----------------------------
(* A small instance of Platform for TLC: the reserve is tight, so buys,      *)
(* deliveries and outtakes compete for the same milligrams.                  *)
EXTENDS Platform, TLC

CONSTANTS u1, u2, xau, b1, b2, s1, k1, k2, c1, d1, d2

Trade(u, side, grams, subtotal) ==
    [owner |-> u, side |-> side, asset |-> xau, grams |-> grams,
     subtotal |-> subtotal, charge |-> 1]

MCTerms == (b1 :> Trade(u1, "buy", 2, 2)) @@ (b2 :> Trade(u2, "buy", 1, 2))
           @@ (s1 :> Trade(u2, "sell", 1, 2))

MCKeyOwner == (k1 :> u1) @@ (k2 :> u2)

\* The two requests of one customer together ask for more than is held.
MCParcel == (d1 :> [owner |-> u2, asset |-> xau, grams |-> 1])
            @@ (d2 :> [owner |-> u2, asset |-> xau, grams |-> 2])
=============================================================================
