------------------------------- MODULE Books -------------------------------
(***************************************************************************)
(* The double-entry books of the platform and the two pieces of shared     *)
(* state every money path reads: which customers may not move money now,   *)
(* and the current Addis Ababa (EAT) day.                                  *)
(*                                                                         *)
(* An account balance is the sum of its append-only entries; a ledger      *)
(* transaction posts entries that sum to zero per asset.  The modules that *)
(* EXTEND this one post by updating the balances it declares, one step per *)
(* committed database transaction: every such transaction holds FOR UPDATE *)
(* locks on all the account rows it touches, so its reads of balances and  *)
(* its postings are one indivisible step.                                  *)
(*                                                                         *)
(* system:fees, system:tax and system:reforestation are one account here,  *)
(* `charges': no property tells them apart.                                *)
(***************************************************************************)
EXTENDS Integers, FiniteSets, Sums

CONSTANTS
    Users,            \* customers
    Assets,           \* metals (XAU, XPT)
    OpeningCents,     \* ETB every customer starts with
    OpeningMetal,     \* metal of each asset every customer starts with
    OpeningCash,      \* capital in system:cash
    OpeningPhysical,  \* physical stock of each asset in the vault
    Halt,             \* treasury_config.haltThresholdCents
    MaxDay            \* bound: last EAT day of a behaviour

\* The opening figures are balances a running platform can have: in
\* particular the vault holds what the customers own.
ASSUME BooksAssumption ==
    /\ IsFiniteSet(Users)
    /\ OpeningCents \in Nat
    /\ OpeningMetal \in Nat
    /\ OpeningCash \in Nat
    /\ OpeningPhysical \in Nat
    /\ Cardinality(Users) * OpeningMetal <= OpeningPhysical
    /\ Halt \in Nat
    /\ MaxDay \in Nat

VARIABLES
    cents,         \* user ETB account
    metal,         \* user metal accounts
    cash,          \* system:cash, the float that pays sell-backs
    charges,       \* system:fees + system:tax + system:reforestation
    external,      \* system:external, the counterpart of deposits and capital
    payoutHold,    \* system:payout_hold
    vault,         \* system:vault:<asset>; minus the metal issued
    deliveryHold,  \* system:delivery_hold:<asset>
    physical,      \* sum of vault_holding rows: intake minus outtake
    barred,        \* customers accountGate or isFrozen refuses
    today          \* the EAT day eatDayStartUtc() computes

etbBooks == <<cents, cash, charges, external, payoutHold>>
metalBooks == <<metal, vault, deliveryHold>>
sharedVars == <<etbBooks, metalBooks, physical, barred, today>>

Days == 0 .. MaxDay

BooksTypeOK ==
    /\ cents \in [Users -> Int]
    /\ metal \in [Users -> [Assets -> Int]]
    /\ cash \in Int
    /\ charges \in Int
    /\ external \in Int
    /\ payoutHold \in Int
    /\ vault \in [Assets -> Int]
    /\ deliveryHold \in [Assets -> Int]
    /\ physical \in [Assets -> Int]
    /\ barred \in SUBSET Users
    /\ today \in Days

BooksInit ==
    /\ cents = [u \in Users |-> OpeningCents]
    /\ metal = [u \in Users |-> [a \in Assets |-> OpeningMetal]]
    /\ cash = OpeningCash
    /\ charges = 0
    /\ external = -(OpeningCash + Cardinality(Users) * OpeningCents)
    /\ payoutHold = 0
    /\ vault = [a \in Assets |-> -(Cardinality(Users) * OpeningMetal)]
    /\ deliveryHold = [a \in Assets |-> 0]
    /\ physical = [a \in Assets |-> OpeningPhysical]
    /\ barred = {}
    /\ today = 0

-----------------------------------------------------------------------------
(* Steps of the shared state itself. *)

\* An administrator freezes the account, or it loses a gate (email, KYC tier).
Bar(u) ==
    /\ u \notin barred
    /\ barred' = barred \cup {u}
    /\ UNCHANGED <<etbBooks, metalBooks, physical, today>>

\* The freeze is lifted, or the missing gate is passed.
Unbar(u) ==
    /\ u \in barred
    /\ barred' = barred \ {u}
    /\ UNCHANGED <<etbBooks, metalBooks, physical, today>>

\* Midnight in Addis Ababa: eatDayStartUtc() returns the next day.
Midnight ==
    /\ today < MaxDay
    /\ today' = today + 1
    /\ UNCHANGED <<etbBooks, metalBooks, physical, barred>>

SharedNext == Midnight \/ \E u \in Users : Bar(u) \/ Unbar(u)

-----------------------------------------------------------------------------
\* Metal the platform owes its customers: what it issued against the vault
\* account and has not taken back.
Owed(a) == -vault[a]

\* Every gram owed is physically in the vault.
ReserveBacked == \A a \in Assets : physical[a] >= Owed(a)

\* No customer account and no holding account is ever overdrawn.
NoOverdraft ==
    /\ \A u \in Users : cents[u] >= 0
    /\ \A u \in Users, a \in Assets : metal[u][a] >= 0
    /\ payoutHold >= 0
    /\ \A a \in Assets : deliveryHold[a] >= 0

\* Money is conserved: what customers and system accounts have was deposited or
\* put in as capital, and what left is owed by nobody.
MoneyConserved ==
    SumOver(cents, Users) + cash + charges + external + payoutHold = 0

\* What one ledger transaction may do: it touches one customer at most and
\* its entries sum to zero in ETB and in every metal.
ZeroSumPosting ==
    \E u \in Users :
        /\ \A v \in Users \ {u} : cents'[v] = cents[v] /\ metal'[v] = metal[v]
        /\ cents'[u] + cash' + charges' + external' + payoutHold'
             = cents[u] + cash + charges + external + payoutHold
        /\ \A a \in Assets :
             metal'[u][a] + vault'[a] + deliveryHold'[a]
               = metal[u][a] + vault[a] + deliveryHold[a]
=============================================================================
