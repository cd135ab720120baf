------------------------------- MODULE Atomic -------------------------------
(***************************************************************************)
(* Ledger transactions as the modules on the books see them: each reads    *)
(* the balances of its accounts and posts to them in one step, or gives    *)
(* up without a trace.                                                     *)
(***************************************************************************)
EXTENDS Integers

CONSTANTS
    Transactions,
    Uses,           \* transaction -> the accounts it reads and posts to
    Amounts(_, _)   \* what it posts to each, from what it read

VARIABLES
    ledger,  \* account -> balance
    open     \* the transactions that have not ended

atomicVars == <<ledger, open>>

View(t) == [a \in Uses[t] |-> ledger[a]]

Ends(t) == t \in open /\ open' = open \ {t}

Apply(t) ==
    /\ Ends(t)
    /\ ledger' = [a \in DOMAIN ledger |->
                    IF a \in Uses[t] THEN ledger[a] + Amounts(t, View(t))[a]
                    ELSE ledger[a]]

GiveUp(t) == Ends(t) /\ UNCHANGED ledger

AtomicNext == \E t \in Transactions : Apply(t) \/ GiveUp(t)

AtomicSpec == open = Transactions /\ [][AtomicNext]_atomicVars
=============================================================================
