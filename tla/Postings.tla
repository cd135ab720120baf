------------------------------ MODULE Postings ------------------------------
(***************************************************************************)
(* What the locked transactions do to the ledger: after its last account   *)
(* lock a transaction sums the entries of its accounts                     *)
(* (lockAndReadBalances); what it then posts (postTransaction) depends on  *)
(* those balances, touches no other account, and becomes visible when it   *)
(* commits.  Between the read and the commit others read and post freely.  *)
(***************************************************************************)
EXTENDS Locks

CONSTANTS
    Opening,       \* account id -> its balance before
    Amounts(_, _)  \* what a transaction posts to each account it locked, from
                   \* the balances it read

Accounts == UNION {Touched(t) : t \in Txns}

ASSUME PostingsAssumption == Opening \in [Accounts -> Int]

VARIABLES
    ledger,  \* account id -> the sum of its committed entries
    read     \* transaction -> the balances it read

postingVars == <<lockVars, ledger, read>>

View(t) == [a \in Touched(t) |-> ledger[a]]

PostingsInit ==
    /\ LocksInit
    /\ ledger = Opening
    /\ read = [t \in Txns |-> [a \in Touched(t) |-> 0]]

\* The second statement of lockAndReadBalances, under the locks of the first.
ReadBalances(t) ==
    /\ AccountsLocked(t)
    /\ read' = [read EXCEPT ![t] = View(t)]
    /\ UNCHANGED ledger

\* The entries appear: each balance moves by what was decided on the read.
Post(t) ==
    /\ Commit(t)
    /\ ledger' = [a \in Accounts |->
                    IF a \in Touched(t) THEN ledger[a] + Amounts(t, read[t])[a]
                    ELSE ledger[a]]
    /\ UNCHANGED read

LockStep(t) ==
    /\ InsertOrder(t) \/ ShareQuote(t) \/ LockAccount(t) \/ LockQuote(t)
       \/ Rollback(t)
    /\ UNCHANGED <<ledger, read>>

PostingsNext == \E t \in Txns : LockStep(t) \/ ReadBalances(t) \/ Post(t)

PostingsSpec == PostingsInit /\ [][PostingsNext]_postingVars
-----------------------------------------------------------------------------
(* Properties. *)

\* However the reads, locks and commits of transactions interleave, the ledger
\* goes through the balances that whole transactions, one after the other,
\* would give it: what the modules on the books take as one step.
OneAtATime ==
    INSTANCE Atomic WITH Transactions <- Txns, Uses <- [t \in Txns |-> Touched(t)],
                         open <- {t \in Txns : pc[t] # "done"}

PostsAtomically == OneAtATime!AtomicSpec
=============================================================================
