------------------------------ MODULE MCOutbox ------------------------------
(* A small instance of Outbox for TLC: two workers and one notice, an        *)
(* alert's or another, with up to two channels.                              *)
EXTENDS Outbox

CONSTANTS w1, w2, n1
=============================================================================
