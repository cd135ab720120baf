---------------------------- MODULE LocksProofs ----------------------------
(***************************************************************************)
(* Proofs that the account locks exclude, that with one order per quote no *)
(* circle of transactions can wait, and that reading under the locks and   *)
(* posting at the commit amounts to one step, which is how the other       *)
(* modules take a ledger transaction.                                      *)
(***************************************************************************)
EXTENDS Postings, FiniteSetTheorems, WellFoundedInduction, TLAPS

\* The strengthening: the locks are a function, so that an update of one
\* transaction's locks leaves the others' alone.
Exclusive == DOMAIN held = Txns /\ AccountsExclusive

\* Nobody holds anything at the start.
LEMMA InitExclusive == LocksInit => Exclusive
BY DEF LocksInit, Exclusive, AccountsExclusive

\* Taking an account lock waits for whoever holds it.
LEMMA LockAccountExclusive ==
  ASSUME Exclusive, NEW t \in Txns, LockAccount(t)
  PROVE  Exclusive'
<1> DEFINE a == NextAccount(t)
<1>1. /\ pc[t] = "accounts" /\ Missing(t) # {} /\ Free(t)
      /\ held' = [held EXCEPT ![t] = @ \cup {a}]
  BY DEF LockAccount
<1>2. \A u \in Txns \ {t} : a \notin held[u]
  BY <1>1 DEF Free, WaitsFor
<1> HIDE DEF a
<1>3. held'[t] = held[t] \cup {a} /\ \A u \in Txns \ {t} : held'[u] = held[u]
  BY <1>1 DEF Exclusive
<1>4. ASSUME NEW u \in Txns, NEW v \in Txns, u # v
      PROVE  held'[u] \cap held'[v] = {}
  BY <1>2, <1>3, <1>4 DEF Exclusive, AccountsExclusive
<1> QED
  BY <1>1, <1>4 DEF Exclusive, AccountsExclusive

\* The end of a transaction drops its locks.
LEMMA EndExclusive ==
  ASSUME Exclusive, NEW t \in Txns, End(t)
  PROVE  Exclusive'
BY DEF End, Exclusive, AccountsExclusive

\* So does every other step of the locks.
LEMMA LocksStepExclusive == Exclusive /\ LocksNext => Exclusive'
<1> SUFFICES ASSUME Exclusive, LocksNext PROVE Exclusive'
  OBVIOUS
<1>1. PICK t \in Txns :
        \/ InsertOrder(t) \/ ShareQuote(t) \/ LockAccount(t)
        \/ AccountsLocked(t) \/ LockQuote(t) \/ Commit(t) \/ Rollback(t)
  BY DEF LocksNext
<1>2. CASE LockAccount(t)
  BY <1>2, LockAccountExclusive
<1>3. CASE Commit(t) \/ Rollback(t)
  BY <1>3, EndExclusive DEF Commit, Rollback
<1>4. CASE InsertOrder(t) \/ ShareQuote(t) \/ AccountsLocked(t) \/ LockQuote(t)
  BY <1>4 DEF InsertOrder, ShareQuote, AccountsLocked, LockQuote, Exclusive,
              AccountsExclusive
<1> QED
  BY <1>1, <1>2, <1>3, <1>4

\* Two transactions never hold one account at the same time, for any number
\* of transactions of any kind and any order in which callers list accounts.
THEOREM LocksAccountsExclusive == LocksSpec => []AccountsExclusive
<1>1. ASSUME Exclusive, [LocksNext]_lockVars
      PROVE  Exclusive'
  <2>1. CASE UNCHANGED lockVars
    BY <1>1, <2>1 DEF lockVars, Exclusive, AccountsExclusive
  <2> QED
    BY <1>1, <2>1, LocksStepExclusive
<1>2. Exclusive => AccountsExclusive
  BY DEF Exclusive
<1> QED
  BY <1>1, <1>2, InitExclusive, PTL DEF LocksSpec

-----------------------------------------------------------------------------
(* Circular waits.  Accounts are locked in the order of their ids, so along *)
(* a chain of waiting transactions the awaited account grows; a circle      *)
(* would have a largest one.  The quote locks would break this: the theorem *)
(* is about orders on quotes of their own (MCLocks_shared shows the other   *)
(* case).                                                                   *)

\* No two orders name one quote.
DistinctQuotes ==
    \A t, u \in Txns :
        IsOrder(t) /\ IsOrder(u) /\ t # u => QuoteOf[t] # QuoteOf[u]

\* What a transaction holds is below what it still lacks, and it holds no
\* account before its account locks or after its end.
Ordered(t) ==
    /\ held[t] \subseteq Touched(t)
    /\ \A a \in held[t], b \in Missing(t) : a < b
    /\ pc[t] \in {"insert", "share", "done"} => held[t] = {}

InOrder == /\ DOMAIN held = Txns /\ DOMAIN pc = Txns
           /\ \A t \in Txns : Ordered(t)

\* Account ids are numbers.
LEMMA AccountIds == \A t \in Txns : Touched(t) \subseteq Nat
<1> SUFFICES ASSUME NEW t \in Txns PROVE Touched(t) \subseteq Nat
  OBVIOUS
<1>1. Listed[t] \in Seq(Nat)
  BY LocksAssumption
<1> QED
  BY <1>1 DEF Touched

\* Of finitely many numbers one is the largest.
LEMMA LargestExists ==
  ASSUME NEW D, IsFiniteSet(D), D # {}, NEW h, \A t \in D : h[t] \in Nat
  PROVE  \E t \in D : \A u \in D : ~(h[u] > h[t])
<1> DEFINE above(t) == {s \in D : h[s] > h[t]}
           T == {above(t) : t \in D}
           R == StrictSubsetOrdering(D)
<1>1. IsWellFoundedOn(R, SUBSET D)
  BY FS_StrictSubsetOrderingWellFounded, FS_FiniteSubsetsOfFinite
<1>2. T \subseteq SUBSET D /\ T # {}
  OBVIOUS
<1>3. PICK x \in T : \A y \in T : ~(<<y, x>> \in R)
  <2> HIDE DEF T, R
  <2> QED
    BY <1>1, <1>2, WFMin
<1>4. PICK t \in D : x = above(t)
  OBVIOUS
<1>5. ASSUME NEW u \in D, h[u] > h[t] PROVE FALSE
  <2>1. above(u) \subseteq above(t)
    BY <1>5
  <2>2. u \in above(t) /\ u \notin above(u)
    BY <1>5
  <2>3. above(u) \in T /\ above(u) \in SUBSET D /\ above(t) \in SUBSET D
    OBVIOUS
  <2> HIDE DEF above
  <2>4. <<above(u), above(t)>> \in R
    BY <2>1, <2>2, <2>3 DEF StrictSubsetOrdering
  <2> QED
    BY <1>3, <1>4, <2>3, <2>4
<1> QED
  BY <1>5

\* The account a transaction waits for exists and is the least it lacks.
LEMMA NextIsLeast ==
  ASSUME NEW t \in Txns, Missing(t) # {}
  PROVE  /\ NextAccount(t) \in Missing(t) /\ NextAccount(t) \in Nat
         /\ \A b \in Missing(t) : NextAccount(t) <= b
<1>1. Missing(t) \subseteq Nat
  BY AccountIds DEF Missing
<1>2. PICK k \in Missing(t) : TRUE
  OBVIOUS
<1> DEFINE D == {b \in Missing(t) : b <= k}
           h == [b \in D |-> k - b]
<1>3. \E a \in Missing(t) : \A b \in Missing(t) : a <= b
  <2>1. D # {} /\ D \subseteq 0 .. k /\ \A b \in D : h[b] \in Nat /\ h[b] = k - b
    BY <1>1, <1>2
  <2>2. IsFiniteSet(D)
    <3>1. k \in Int /\ 0 \in Int
      BY <1>1, <1>2
    <3>2. IsFiniteSet(0 .. k)
      BY <3>1, FS_Interval
    <3> HIDE DEF D
    <3> QED
      BY <2>1, <3>2, FS_Subset
  <2>3. PICK a \in D : \A b \in D : ~(h[b] > h[a])
    <3> HIDE DEF D, h
    <3> QED
      BY <2>1, <2>2, LargestExists
  <2>4. ASSUME NEW b \in Missing(t) PROVE a <= b
    <3>1. a \in Nat /\ b \in Nat /\ k \in Nat /\ a <= k
      BY <1>1, <1>2, <2>3
    <3>2. CASE b \in D
      BY <2>1, <2>3, <3>1, <3>2
    <3>3. CASE b \notin D
      BY <3>1, <3>3
    <3> QED
      BY <3>2, <3>3
  <2> QED
    BY <2>4
<1> HIDE DEF D, h
<1> QED
  BY <1>1, <1>3 DEF NextAccount

\* Nothing is held at the start.
LEMMA InitOrder == LocksInit => InOrder
BY DEF LocksInit, InOrder, Ordered

\* Every step keeps the order.
LEMMA StepOrder == InOrder /\ [LocksNext]_lockVars => InOrder'
<1> SUFFICES ASSUME InOrder, [LocksNext]_lockVars PROVE InOrder'
  OBVIOUS
<1>1. CASE UNCHANGED lockVars
  BY <1>1 DEF lockVars, InOrder, Ordered, Missing
<1>2. ASSUME NEW t \in Txns, LockAccount(t) PROVE InOrder'
  <2> DEFINE a == NextAccount(t)
  <2>1. /\ pc[t] = "accounts" /\ Missing(t) # {} /\ UNCHANGED pc
        /\ held' = [held EXCEPT ![t] = @ \cup {a}]
    BY <1>2 DEF LockAccount
  <2>2. a \in Missing(t) /\ a \in Nat /\ \A b \in Missing(t) : a <= b
    BY <2>1, NextIsLeast
  <2> HIDE DEF a
  <2>3. held'[t] = held[t] \cup {a} /\ \A u \in Txns \ {t} : held'[u] = held[u]
    BY <2>1 DEF InOrder
  <2>4. Ordered(t)'
    <3>1. Missing(t)' = Missing(t) \ {a}
      BY <2>3 DEF Missing
    <3>2. held[t] \subseteq Touched(t) /\ \A c \in held[t], b \in Missing(t) : c < b
      BY DEF InOrder, Ordered
    <3>3. \A b \in Missing(t) \ {a} : a < b
      <4>1. Missing(t) \subseteq Nat
        BY AccountIds DEF Missing
      <4> QED
        BY <2>2, <4>1
    <3>4. held'[t] \subseteq Touched(t)
      BY <2>2, <2>3, <3>2 DEF Missing
    <3>5. pc'[t] = "accounts"
      BY <2>1
    <3> QED
      BY <2>3, <3>1, <3>2, <3>3, <3>4, <3>5 DEF Ordered
  <2>5. \A u \in Txns \ {t} : Ordered(u)'
    BY <2>1, <2>3 DEF InOrder, Ordered, Missing
  <2> QED
    BY <2>1, <2>4, <2>5 DEF InOrder
<1>3. ASSUME NEW t \in Txns, End(t) PROVE InOrder'
  <2>1. /\ held' = [held EXCEPT ![t] = {}] /\ pc' = [pc EXCEPT ![t] = "done"]
    BY <1>3 DEF End, GoTo
  <2>2. Ordered(t)'
    BY <2>1 DEF InOrder, Ordered, Missing
  <2>3. \A u \in Txns \ {t} : Ordered(u)'
    BY <2>1 DEF InOrder, Ordered, Missing
  <2> QED
    BY <2>1, <2>2, <2>3 DEF InOrder
<1>4. ASSUME NEW t \in Txns, InsertOrder(t) \/ ShareQuote(t)
                             \/ AccountsLocked(t) \/ LockQuote(t)
      PROVE  InOrder'
  BY <1>4 DEF InsertOrder, ShareQuote, AccountsLocked, LockQuote, GoTo,
              InOrder, Ordered, Missing
<1> QED
  BY <1>1, <1>2, <1>3, <1>4 DEF LocksNext, Commit, Rollback

\* With one order per quote, whoever is waited for and waits itself waits for
\* an account above the one that is waited for.
LEMMA WaitsUpwards ==
  ASSUME DistinctQuotes, InOrder, NEW t \in Txns, NEW u \in Txns, NEW v \in Txns,
         WaitsFor(t, u), WaitsFor(u, v)
  PROVE  /\ pc[u] = "accounts" /\ Missing(u) # {}
         /\ pc[t] = "accounts" => NextAccount(t) < NextAccount(u)
<1>1. ~(\/ pc[t] = "share" /\ OwnsQuote(u) /\ QuoteOf[u] = QuoteOf[t]
        \/ pc[t] = "quote" /\ SharesQuote(u) /\ QuoteOf[u] = QuoteOf[t])
  BY DEF WaitsFor, DistinctQuotes, OwnsQuote, SharesQuote, IsOrder
<1>2. ~(\/ pc[u] = "share" /\ OwnsQuote(v) /\ QuoteOf[v] = QuoteOf[u]
        \/ pc[u] = "quote" /\ SharesQuote(v) /\ QuoteOf[v] = QuoteOf[u])
  BY DEF WaitsFor, DistinctQuotes, OwnsQuote, SharesQuote, IsOrder
<1>3. pc[u] # "insert"
  BY <1>1 DEF WaitsFor, HoldsKey, InOrder, Ordered
<1>4. pc[u] = "accounts" /\ Missing(u) # {}
  BY <1>2, <1>3 DEF WaitsFor
<1>5. ASSUME pc[t] = "accounts" PROVE NextAccount(t) < NextAccount(u)
  <2>1. NextAccount(t) \in held[u]
    BY <1>5 DEF WaitsFor
  <2>2. NextAccount(u) \in Missing(u)
    BY <1>4, NextIsLeast
  <2> QED
    BY <2>1, <2>2 DEF InOrder, Ordered
<1> QED
  BY <1>4, <1>5

\* Transactions that lock their accounts in order never wait in a circle, if
\* no two orders are on one quote: every posting ends, however many run.
THEOREM LocksNoCircularWait ==
  ASSUME DistinctQuotes PROVE LocksSpec => []NoCircularWait
<1>1. ASSUME InOrder PROVE NoCircularWait
  <2> SUFFICES ASSUME NEW D \in SUBSET Txns, D # {},
                      \A t \in D : \E u \in D : WaitsFor(t, u)
               PROVE  FALSE
    BY DEF NoCircularWait
  <2> DEFINE E == {u \in D : pc[u] = "accounts" /\ Missing(u) # {}}
             h == [t \in E |-> NextAccount(t)]
  <2>1. \A t \in D : \E u \in E : WaitsFor(t, u)
    BY <1>1, WaitsUpwards
  <2>2. E # {} /\ E \subseteq Txns /\ IsFiniteSet(E)
    BY <2>1, LocksAssumption, FS_Subset
  <2>3. \A t \in E : h[t] \in Nat /\ h[t] = NextAccount(t)
    BY <2>2, NextIsLeast
  <2>4. ASSUME NEW t \in E PROVE \E u \in E : h[u] > h[t]
    <3>1. PICK u \in E : WaitsFor(t, u)
      BY <2>1
    <3>2. PICK v \in E : WaitsFor(u, v)
      BY <2>1
    <3>3. NextAccount(t) < NextAccount(u)
      BY <1>1, <2>2, <3>1, <3>2, WaitsUpwards
    <3> QED
      BY <2>3, <3>3
  <2> HIDE DEF E, h
  <2> QED
    BY <2>2, <2>3, <2>4, LargestExists
<1> QED
  BY <1>1, InitOrder, StepOrder, PTL DEF LocksSpec

-----------------------------------------------------------------------------
(* One at a time.  From its read to its end a transaction holds all its     *)
(* accounts, and only a holder posts: what it read is still so when it      *)
(* commits, and the commit is the one step the abstract ledger takes.       *)

\* What a transaction that has read will post is decided on current balances.
Current(t) ==
    pc[t] \in {"quote", "commit"} =>
        held[t] = Touched(t) /\ read[t] = View(t)

ReadsCurrent ==
    /\ Exclusive /\ DOMAIN pc = Txns /\ DOMAIN read = Txns
    /\ ledger = [a \in Accounts |-> ledger[a]]
    /\ \A t \in Txns : held[t] \subseteq Touched(t) /\ Current(t)

\* Every posting step is a step of the locks.
LEMMA PostingIsLocking == PostingsNext => LocksNext
BY DEF PostingsNext, LockStep, ReadBalances, Post, LocksNext

\* So all that is proved of the locks holds of the postings.
LEMMA PostingsLock == PostingsSpec => LocksSpec
<1>1. PostingsInit => LocksInit
  BY DEF PostingsInit
<1>2. [PostingsNext]_postingVars => [LocksNext]_lockVars
  BY PostingIsLocking DEF postingVars
<1> QED
  BY <1>1, <1>2, PTL DEF PostingsSpec, LocksSpec

\* The locks exclude here too.
LEMMA StepExclusive == Exclusive /\ [PostingsNext]_postingVars => Exclusive'
<1> SUFFICES ASSUME Exclusive, [PostingsNext]_postingVars PROVE Exclusive'
  OBVIOUS
<1>1. CASE UNCHANGED postingVars
  BY <1>1 DEF postingVars, lockVars, Exclusive, AccountsExclusive
<1>2. CASE PostingsNext
  BY <1>2, PostingIsLocking, LocksStepExclusive
<1> QED
  BY <1>1, <1>2

\* A transaction that keeps its place and its accounts, whose balances nobody
\* moved, still knows them.
LEMMA StaysCurrent ==
  ASSUME NEW t \in Txns, Current(t), pc'[t] = pc[t], held'[t] = held[t],
         read'[t] = read[t], \A a \in held[t] : ledger'[a] = ledger[a]
  PROVE  Current(t)'
BY DEF Current, View

\* The step of a transaction leaves the others' place, locks and reads alone.
LEMMA OthersWait ==
  ASSUME DOMAIN pc = Txns, DOMAIN held = Txns, DOMAIN read = Txns,
         NEW t \in Txns, LockStep(t) \/ ReadBalances(t) \/ Post(t),
         NEW u \in Txns \ {t}
  PROVE  /\ pc'[u] = pc[u] /\ held'[u] = held[u] /\ read'[u] = read[u]
         /\ DOMAIN pc' = Txns /\ DOMAIN read' = Txns
BY DEF LockStep, ReadBalances, Post, InsertOrder, ShareQuote, LockAccount,
       AccountsLocked, LockQuote, Commit, Rollback, End, GoTo

\* The transaction itself: it reads when it holds all its accounts.
LEMMA OwnStepCurrent ==
  ASSUME ReadsCurrent, NEW t \in Txns,
         LockStep(t) \/ ReadBalances(t) \/ Post(t)
  PROVE  held'[t] \subseteq Touched(t) /\ Current(t)'
<1> USE DEF ReadsCurrent, Exclusive
<1>1. CASE InsertOrder(t) \/ ShareQuote(t)
  BY <1>1 DEF InsertOrder, ShareQuote, GoTo, Current
<1>2. CASE LockAccount(t)
  <2>1. NextAccount(t) \in Missing(t)
    BY <1>2, NextIsLeast DEF LockAccount
  <2>2. pc'[t] = "accounts" /\ held'[t] = held[t] \cup {NextAccount(t)}
    BY <1>2 DEF LockAccount
  <2> QED
    BY <2>1, <2>2 DEF Current, Missing
<1>3. CASE LockQuote(t) /\ UNCHANGED <<ledger, read>>
  BY <1>3 DEF LockQuote, GoTo, Current, View
<1>4. CASE Rollback(t) \/ Commit(t)
  BY <1>4 DEF Rollback, Commit, End, GoTo, Current
<1>5. CASE ReadBalances(t)
  <2>1. held[t] = Touched(t) /\ held' = held
    BY <1>5 DEF ReadBalances, AccountsLocked, Missing
  <2>2. read'[t] = View(t) /\ ledger' = ledger
    BY <1>5 DEF ReadBalances
  <2> QED
    BY <2>1, <2>2 DEF Current, View
<1> QED
  BY <1>1, <1>2, <1>3, <1>4, <1>5 DEF LockStep, Post

\* A posting moves only balances nobody else holds.
LEMMA OthersBalances ==
  ASSUME ReadsCurrent, NEW t \in Txns,
         LockStep(t) \/ ReadBalances(t) \/ Post(t),
         NEW u \in Txns \ {t}, NEW a \in held[u]
  PROVE  ledger'[a] = ledger[a]
<1>1. CASE LockStep(t) \/ ReadBalances(t)
  BY <1>1 DEF LockStep, ReadBalances
<1>2. CASE Post(t)
  <2>1. held[t] = Touched(t)
    BY <1>2 DEF Post, Commit, ReadsCurrent, Current
  <2>2. a \notin Touched(t) /\ a \in Accounts
    BY <2>1 DEF ReadsCurrent, Exclusive, AccountsExclusive, Accounts
  <2> QED
    BY <1>2, <2>2 DEF Post
<1> QED
  BY <1>1, <1>2

\* Nothing is read at the start.
LEMMA InitCurrent == PostingsInit => ReadsCurrent
<1> SUFFICES ASSUME PostingsInit PROVE ReadsCurrent
  OBVIOUS
<1>1. LocksInit /\ ledger = Opening /\ DOMAIN read = Txns
  BY DEF PostingsInit
<1>2. ledger = [a \in Accounts |-> ledger[a]]
  BY <1>1, PostingsAssumption
<1>3. \A t \in Txns : held[t] = {} /\ pc[t] \in {"insert", "accounts"}
  BY <1>1 DEF LocksInit
<1> QED
  BY <1>1, <1>2, <1>3, InitExclusive DEF LocksInit, ReadsCurrent, Current

\* Every step keeps the reads current.
LEMMA StepCurrent ==
  ReadsCurrent /\ [PostingsNext]_postingVars => ReadsCurrent'
<1> SUFFICES ASSUME ReadsCurrent, [PostingsNext]_postingVars PROVE ReadsCurrent'
  OBVIOUS
<1>1. Exclusive'
  BY StepExclusive DEF ReadsCurrent
<1>2. CASE UNCHANGED postingVars
  BY <1>1, <1>2 DEF postingVars, lockVars, ReadsCurrent, Current, View
<1>3. ASSUME NEW t \in Txns, LockStep(t) \/ ReadBalances(t) \/ Post(t)
      PROVE  ReadsCurrent'
  <2>1. held'[t] \subseteq Touched(t) /\ Current(t)'
    BY <1>3, OwnStepCurrent
  <2>2. ASSUME NEW u \in Txns \ {t}
        PROVE  held'[u] \subseteq Touched(u) /\ Current(u)'
    <3>1. pc'[u] = pc[u] /\ held'[u] = held[u] /\ read'[u] = read[u]
      BY <1>3, OthersWait DEF ReadsCurrent, Exclusive
    <3>2. \A a \in held[u] : ledger'[a] = ledger[a]
      BY <1>3, OthersBalances
    <3> QED
      BY <3>1, <3>2, StaysCurrent DEF ReadsCurrent
  <2>3. DOMAIN pc' = Txns /\ DOMAIN read' = Txns
    BY <1>3 DEF ReadsCurrent, LockStep, ReadBalances, Post, InsertOrder,
                ShareQuote, LockAccount, AccountsLocked, LockQuote, Commit,
                Rollback, End, GoTo
  <2>4. ledger' = [a \in Accounts |-> ledger'[a]]
    BY <1>3 DEF ReadsCurrent, LockStep, ReadBalances, Post
  <2> QED
    BY <1>1, <2>1, <2>2, <2>3, <2>4 DEF ReadsCurrent
<1> QED
  BY <1>2, <1>3 DEF PostingsNext

\* The invariant of the postings.
LEMMA PostingsInvariant == PostingsSpec => []ReadsCurrent
BY InitCurrent, StepCurrent, PTL DEF PostingsSpec

\* The transactions that have not ended.
Open == {t \in Txns : pc[t] # "done"}

\* A lock step, and a read, is a stutter of the abstract ledger or gives up;
\* a commit applies the transaction to the balances of that moment.
LEMMA PostingIsAtomic ==
  ASSUME ReadsCurrent, NEW t \in Txns,
         LockStep(t) \/ ReadBalances(t) \/ Post(t)
  PROVE  [OneAtATime!AtomicNext]_(OneAtATime!atomicVars)
<1>1. DOMAIN pc = Txns /\ DOMAIN ledger = Accounts
  BY DEF ReadsCurrent
<1>2. ASSUME pc[t] # "done", pc' = [pc EXCEPT ![t] = "done"]
      PROVE  OneAtATime!Ends(t)
  BY <1>1, <1>2 DEF OneAtATime!Ends
<1>3. ASSUME pc[t] # "done", NEW place, place # "done",
             pc' = [pc EXCEPT ![t] = place], ledger' = ledger
      PROVE  UNCHANGED OneAtATime!atomicVars
  BY <1>1, <1>3 DEF OneAtATime!atomicVars
<1>4. CASE Post(t)
  <2>1. pc[t] = "commit" /\ pc' = [pc EXCEPT ![t] = "done"]
    BY <1>4 DEF Post, Commit, End, GoTo
  <2>2. read[t] = View(t)
    BY <2>1 DEF ReadsCurrent, Current
  <2>3. OneAtATime!View(t) = View(t)
    BY DEF OneAtATime!View, View
  <2>4. ledger' = [a \in DOMAIN ledger |->
                     IF a \in Touched(t)
                     THEN ledger[a] + Amounts(t, OneAtATime!View(t))[a]
                     ELSE ledger[a]]
    BY <1>1, <1>4, <2>2, <2>3 DEF Post
  <2>5. OneAtATime!Apply(t)
    BY <1>2, <2>1, <2>4 DEF OneAtATime!Apply
  <2> QED
    BY <2>5 DEF OneAtATime!AtomicNext
<1>5. CASE LockStep(t)
  <2>1. ledger' = ledger
    BY <1>5 DEF LockStep
  <2>2. CASE Rollback(t)
    BY <1>2, <2>1, <2>2
       DEF Rollback, End, GoTo, OneAtATime!GiveUp, OneAtATime!AtomicNext
  <2>3. CASE InsertOrder(t)
    <3>1. CASE KeyOf[t] \in keys
      BY <1>2, <2>1, <2>3, <3>1
         DEF InsertOrder, GoTo, OneAtATime!GiveUp, OneAtATime!AtomicNext
    <3>2. CASE KeyOf[t] \notin keys
      BY <1>3, <2>1, <2>3, <3>2 DEF InsertOrder, GoTo
    <3> QED
      BY <3>1, <3>2
  <2>4. CASE ShareQuote(t) \/ LockQuote(t)
    BY <1>3, <2>1, <2>4 DEF ShareQuote, LockQuote, GoTo
  <2>5. CASE LockAccount(t)
    BY <2>1, <2>5 DEF LockAccount, OneAtATime!atomicVars
  <2> QED
    BY <1>5, <2>2, <2>3, <2>4, <2>5 DEF LockStep
<1>6. CASE ReadBalances(t)
  <2>1. /\ pc[t] = "accounts" /\ ledger' = ledger
        /\ pc' = [pc EXCEPT ![t] = IF IsOrder(t) THEN "quote" ELSE "commit"]
    BY <1>6 DEF ReadBalances, AccountsLocked, GoTo
  <2> QED
    BY <1>3, <2>1
<1> QED
  BY <1>4, <1>5, <1>6

\* Reading under the locks and posting at the commit is the same as doing both
\* in one step, for any transactions, accounts and postings: this is what
\* lets every other module on the books take a transaction as one action.
THEOREM PostingsAreAtomic == PostingsSpec => PostsAtomically
<1>1. PostingsInit => {t \in Txns : pc[t] # "done"} = Txns
  BY DEF PostingsInit, LocksInit
<1>2. ASSUME ReadsCurrent, [PostingsNext]_postingVars
      PROVE  [OneAtATime!AtomicNext]_(OneAtATime!atomicVars)
  <2>1. CASE UNCHANGED postingVars
    BY <2>1 DEF postingVars, lockVars, OneAtATime!atomicVars
  <2>2. CASE PostingsNext
    BY <1>2, <2>2, PostingIsAtomic DEF PostingsNext
  <2> QED
    BY <1>2, <2>1, <2>2
<1> QED
  BY <1>1, <1>2, PostingsInvariant, PTL
     DEF PostingsSpec, PostsAtomically, OneAtATime!AtomicSpec

-----------------------------------------------------------------------------
(* Floors.  A check made on the balances read under the locks (a customer's *)
(* funds, the float's halt line, the free stock) holds for the balances the *)
(* posting changes.                                                         *)

\* What t posts is numbers, and brings nothing it read at its floor or above
\* below it.
ChecksFloors(t, floor) ==
    \A seen \in [Touched(t) -> Int] :
        /\ Amounts(t, seen) \in [Touched(t) -> Int]
        /\ \A a \in Touched(t) :
             seen[a] >= floor[a] => seen[a] + Amounts(t, seen)[a] >= floor[a]

AboveFloors(floor) == \A a \in Accounts : ledger[a] >= floor[a]

\* A check under the locks is enough: if every transaction checks the balances
\* it read, no account ever falls below its floor, however they interleave.
THEOREM PostingsStayAboveFloors ==
  ASSUME NEW floor, \A a \in Accounts : floor[a] \in Int /\ Opening[a] >= floor[a],
         \A t \in Txns : ChecksFloors(t, floor)
  PROVE  PostingsSpec => [](ledger \in [Accounts -> Int] /\ AboveFloors(floor))
<1> DEFINE Inv == ledger \in [Accounts -> Int] /\ AboveFloors(floor)
<1>1. PostingsInit => Inv
  BY PostingsAssumption DEF PostingsInit, AboveFloors
<1>2. ASSUME Inv, ReadsCurrent, [PostingsNext]_postingVars PROVE Inv'
  <2>1. CASE UNCHANGED ledger
    BY <1>2, <2>1 DEF AboveFloors
  <2>2. ASSUME NEW t \in Txns, Post(t) PROVE Inv'
    <3>1. read[t] = View(t)
      BY <1>2, <2>2 DEF Post, Commit, ReadsCurrent, Current
    <3>2. Touched(t) \subseteq Accounts
      BY DEF Accounts
    <3>3. View(t) \in [Touched(t) -> Int]
          /\ \A a \in Touched(t) : View(t)[a] = ledger[a]
      BY <1>2, <3>2 DEF View
    <3>4. /\ Amounts(t, View(t)) \in [Touched(t) -> Int]
          /\ \A a \in Touched(t) : ledger[a] >= floor[a]
                => ledger[a] + Amounts(t, View(t))[a] >= floor[a]
      BY <3>3 DEF ChecksFloors
    <3>5. ledger' = [a \in Accounts |->
                      IF a \in Touched(t) THEN ledger[a] + Amounts(t, View(t))[a]
                      ELSE ledger[a]]
      BY <2>2, <3>1 DEF Post
    <3>6. ledger' \in [Accounts -> Int]
      BY <1>2, <3>4, <3>5
    <3>7. AboveFloors(floor)'
      BY <1>2, <3>4, <3>5 DEF AboveFloors
    <3> QED
      BY <3>6, <3>7
  <2> QED
    BY <1>2, <2>1, <2>2
       DEF PostingsNext, LockStep, ReadBalances, postingVars
<1> QED
  BY <1>1, <1>2, PostingsInvariant, PTL DEF PostingsSpec
=============================================================================
