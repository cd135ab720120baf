------------------------------ MODULE MCLocks -------------------------------
(* Small instances of Postings for TLC.  Accounts 1 and 2 are a customer's,  *)
(* 3 is system:cash, 4 the vault account, 5 the payout hold.                 *)
EXTENDS Postings, TLC

CONSTANTS o1, o2, w1, w2, q1, q2, k1, k2

\* Two orders of one customer, a withdrawal of theirs and the refund of
\* another, which lists the same accounts the other way round.
MCListed == (o1 :> <<1, 2, 3, 4>>) @@ (o2 :> <<1, 2, 3, 4>>)
            @@ (w1 :> <<1, 5>>) @@ (w2 :> <<5, 1>>)

Plain(f) == f @@ (w1 :> NoQuote) @@ (w2 :> NoQuote)
MCKeyOf == (o1 :> k1) @@ (o2 :> k2) @@ (w1 :> NoKey) @@ (w2 :> NoKey)
TwoQuotes == Plain((o1 :> q1) @@ (o2 :> q2))
OneQuote == Plain((o1 :> q1) @@ (o2 :> q1))

\* Three cents cover an order of two or the withdrawal of two, not both.
MCOpening == <<3, 0, 0, 0, 1>>

\* Entries are posted only if the balances read allow them.
Entries(allowed, amounts) ==
    [a \in DOMAIN amounts |-> IF allowed THEN amounts[a] ELSE 0]

MCAmounts(t, seen) ==
    IF t \in {o1, o2} THEN Entries(seen[1] >= 2, <<-2, 1, 2, -1>>)
    ELSE IF t = w1 THEN Entries(seen[1] >= 2, (1 :> -2) @@ (5 :> 2))
    ELSE Entries(seen[5] >= 1, (1 :> 1) @@ (5 :> -1))
=============================================================================
