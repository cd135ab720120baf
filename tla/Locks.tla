------------------------------- MODULE Locks -------------------------------
(***************************************************************************)
(* Row locks of the transactions that post to the ledger.  Every one locks *)
(* its accounts in the order of their ids (lockAndReadBalances); executing *)
(* an order also takes, before the accounts, the new order row's key and - *)
(* through the foreign key - a share lock on the quote row, and after them *)
(* an exclusive lock on the same quote row.                                *)
(*                                                                         *)
(* The behaviour of PostgreSQL's locks is external: a KEY SHARE lock       *)
(* conflicts with FOR UPDATE, a unique key makes the second inserter wait, *)
(* locks last until the transaction ends.                                  *)
(***************************************************************************)
EXTENDS Integers, FiniteSets, Sequences

CONSTANTS
    Txns,       \* concurrent transactions
    Listed,     \* txn -> the account ids its caller lists, in that order
    QuoteOf,    \* txn -> the quote its order names, or NoQuote
    KeyOf,      \* txn -> its order's idempotency key, or NoKey
    NoQuote,    \* a transaction of another kind: payout, deposit, delivery
    NoKey

ASSUME LocksAssumption ==
    /\ IsFiniteSet(Txns)
    /\ \A t \in Txns : Listed[t] \in Seq(Nat)
    /\ \A t \in Txns : QuoteOf[t] = NoQuote <=> KeyOf[t] = NoKey

VARIABLES
    pc,    \* "insert", "share", "accounts", "quote", "commit" or "done"
    held,  \* the account ids locked FOR UPDATE
    keys   \* idempotency keys of committed orders

lockVars == <<pc, held, keys>>

\* The accounts it locks: lockAndReadBalances drops duplicates.
Touched(t) == {Listed[t][n] : n \in DOMAIN Listed[t]}

Places == {"insert", "share", "accounts", "quote", "commit", "done"}

IsOrder(t) == QuoteOf[t] # NoQuote

LocksTypeOK ==
    /\ pc \in [Txns -> Places]
    /\ \A t \in Txns : held[t] \subseteq Touched(t)
    /\ keys \subseteq {KeyOf[t] : t \in Txns}

LocksInit ==
    /\ pc = [t \in Txns |-> IF IsOrder(t) THEN "insert" ELSE "accounts"]
    /\ held = [t \in Txns |-> {}]
    /\ keys = {}

GoTo(t, place) == pc' = [pc EXCEPT ![t] = place]

\* What t holds besides accounts.
HoldsKey(t) == IsOrder(t) /\ pc[t] \in {"share", "accounts", "quote", "commit"}
SharesQuote(t) == IsOrder(t) /\ pc[t] \in {"accounts", "quote", "commit"}
OwnsQuote(t) == IsOrder(t) /\ pc[t] = "commit"

\* The account t locks next: the least it still lacks.
Missing(t) == Touched(t) \ held[t]
\* mutant: no sorting
NextAccount_AsListed(t) == Listed[t][Cardinality(held[t]) + 1]
NextAccount(t) == CHOOSE a \in Missing(t) : \A b \in Missing(t) : a <= b

WaitsFor_QuotesOnly(t, u) ==  \* mutant: accounts read without FOR UPDATE
    /\ t # u
    /\ \/ pc[t] = "insert" /\ HoldsKey(u) /\ KeyOf[u] = KeyOf[t]
       \/ pc[t] = "quote" /\ SharesQuote(u) /\ QuoteOf[u] = QuoteOf[t]

\* t cannot go on before u ends.
WaitsFor(t, u) ==
    /\ t # u
    /\ \/ pc[t] = "insert" /\ HoldsKey(u) /\ KeyOf[u] = KeyOf[t]
       \/ pc[t] = "share" /\ OwnsQuote(u) /\ QuoteOf[u] = QuoteOf[t]
       \/ pc[t] = "accounts" /\ Missing(t) # {} /\ NextAccount(t) \in held[u]
       \/ pc[t] = "quote" /\ SharesQuote(u) /\ QuoteOf[u] = QuoteOf[t]

Free(t) == \A u \in Txns : ~WaitsFor(t, u)

\* INSERT ... ON CONFLICT DO NOTHING: a committed rival ends the transaction.
InsertOrder(t) ==
    /\ pc[t] = "insert" /\ Free(t)
    /\ GoTo(t, IF KeyOf[t] \in keys THEN "done" ELSE "share")
    /\ UNCHANGED <<held, keys>>

\* The foreign key check at the end of the INSERT.
ShareQuote(t) ==
    /\ pc[t] = "share" /\ Free(t)
    /\ GoTo(t, "accounts")
    /\ UNCHANGED <<held, keys>>

LockAccount(t) ==
    /\ pc[t] = "accounts" /\ Missing(t) # {} /\ Free(t)
    /\ held' = [held EXCEPT ![t] = @ \cup {NextAccount(t)}]
    /\ UNCHANGED <<pc, keys>>

AccountsLocked(t) ==
    /\ pc[t] = "accounts" /\ Missing(t) = {}
    /\ GoTo(t, IF IsOrder(t) THEN "quote" ELSE "commit")
    /\ UNCHANGED <<held, keys>>

LockQuote(t) ==
    /\ pc[t] = "quote" /\ Free(t)
    /\ GoTo(t, "commit")
    /\ UNCHANGED <<held, keys>>

End(t) == GoTo(t, "done") /\ held' = [held EXCEPT ![t] = {}]

Commit(t) ==
    /\ pc[t] = "commit"
    /\ End(t)
    /\ keys' = IF IsOrder(t) THEN keys \cup {KeyOf[t]} ELSE keys

\* The connection drops, or PostgreSQL picks the transaction as a victim.
Rollback(t) ==
    /\ pc[t] # "done"
    /\ End(t)
    /\ UNCHANGED keys

LocksNext ==
    \E t \in Txns :
        \/ InsertOrder(t) \/ ShareQuote(t) \/ LockAccount(t)
        \/ AccountsLocked(t) \/ LockQuote(t) \/ Commit(t) \/ Rollback(t)

LocksSpec == LocksInit /\ [][LocksNext]_lockVars
-----------------------------------------------------------------------------
(* Properties. *)

\* The lock order is deadlock-free: never is a set of transactions such that
\* each waits for another one of it.
NoCircularWait ==
    ~ \E D \in (SUBSET Txns) \ {{}} : \A t \in D : \E u \in D : WaitsFor(t, u)

\* Between its account locks and its end a transaction is the only one that
\* reads or posts to those accounts: what the other modules take as one step.
AccountsExclusive ==
    \A t, u \in Txns : t # u => held[t] \cap held[u] = {}
=============================================================================
