------------------------------ MODULE Reserve ------------------------------
(***************************************************************************)
(* What the platform promises about metal, whatever its components do: at  *)
(* every moment the vault physically holds at least what customers are     *)
(* owed (the product's fifth non-negotiable).  Metal is issued only        *)
(* against free stock, and stock leaves the vault only when it is free or  *)
(* handed to the customer it was owed to.                                  *)
(***************************************************************************)
EXTENDS Integers

CONSTANT Assets

VARIABLES
    stock,  \* metal in the vault, per asset
    owed    \* metal owed to customers, per asset

reserveVars == <<stock, owed>>

Backed == \A a \in Assets : owed[a] <= stock[a]

ReserveInit ==
    /\ stock \in [Assets -> Int]
    /\ owed \in [Assets -> Int]
    /\ Backed

Same(a) == stock'[a] = stock[a] /\ owed'[a] = owed[a]

\* Sell metal to a customer, out of the free stock.
Issue(a) == /\ stock'[a] = stock[a]
            /\ owed[a] < owed'[a] /\ owed'[a] <= stock[a]

\* Buy it back.
Redeem(a) == stock'[a] = stock[a] /\ owed'[a] < owed[a]

Intake(a) == owed'[a] = owed[a] /\ stock'[a] > stock[a]

\* Take free stock out.
Release(a) == /\ owed'[a] = owed[a]
              /\ owed[a] <= stock'[a] /\ stock'[a] < stock[a]

\* Hand a customer the metal they are owed.
HandOver(a) == /\ stock'[a] < stock[a]
               /\ stock[a] - stock'[a] = owed[a] - owed'[a]

ReserveNext ==
    \E a \in Assets :
        /\ \A b \in Assets \ {a} : Same(b)
        /\ Issue(a) \/ Redeem(a) \/ Intake(a) \/ Release(a) \/ HandOver(a)

ReserveSpec == ReserveInit /\ [][ReserveNext]_reserveVars
=============================================================================
