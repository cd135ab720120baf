----------------------------- MODULE MCPayments -----------------------------
(* Small instances of Payments for TLC: one customer, one deposit of two     *)
(* cents, two concurrent calls.                                              *)
EXTENDS Payments

CONSTANTS u1, p1, h1, h2

MCPayer == [p \in Payments |-> u1]
MCAmount == [p \in Payments |-> 2]
=============================================================================
