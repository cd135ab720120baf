----------------------------- MODULE MCPayouts ------------------------------
(* Small instances of Payouts for TLC.                                       *)
EXTENDS Payouts, TLC

CONSTANTS u1, i1, i2, bank, ka, kb

Asks(amount, dest, key) ==
    [owner |-> u1, amount |-> amount, dest |-> dest, key |-> key]

\* A live key whose daily limit both fit under, a test key whose limit they pass.
MCDeployments == {[test |-> FALSE, dayMax |-> 3], [test |-> TRUE, dayMax |-> 2]}

\* Two withdrawals of one customer that together reach the review line and
\* the balance, and pass a daily limit of two cents.
Requests == (i1 :> Asks(2, bank, ka)) @@ (i2 :> Asks(1, bank, kb))
=============================================================================
