------------------------------ MODULE Treasury ------------------------------
(***************************************************************************)
(* The administrator's vault and capital entries.  Each is one transaction *)
(* that locks the account it is checked against: a vault entry takes the   *)
(* lock every buy of the asset waits for, a capital entry the lock of      *)
(* system:cash that every sell waits for.                                  *)
(***************************************************************************)
EXTENDS Books

CONSTANTS
    MaxPhysical,  \* bound on intake
    MaxCash       \* bound on capital in

ASSUME TreasuryAssumption == {MaxPhysical, MaxCash} \subseteq Nat

RecordIntake(a, mg) ==
    /\ physical[a] + mg <= MaxPhysical
    /\ physical' = [physical EXCEPT ![a] = @ + mg]
    /\ UNCHANGED <<etbBooks, metalBooks, barred, today>>

MustStay_Nothing(a) == 0  \* mutant

\* What an outtake must leave: the metal customers are owed, never below 0.
MustStay(a) == IF Owed(a) > 0 THEN Owed(a) ELSE 0

RecordOuttake(a, mg) ==
    /\ physical[a] - mg >= MustStay(a)
    /\ physical' = [physical EXCEPT ![a] = @ - mg]
    /\ UNCHANGED <<etbBooks, metalBooks, barred, today>>

\* Capital moves between system:external and system:cash.
PostCapital(signed) ==
    /\ cash' = cash + signed
    /\ external' = external - signed
    /\ UNCHANGED <<cents, charges, payoutHold, metalBooks,
                   physical, barred, today>>

CapitalIn(amount) == cash + amount <= MaxCash /\ PostCapital(amount)

CapitalOut(amount) == cash - amount >= Halt /\ PostCapital(-amount)

TreasuryNext ==
    \/ \E a \in Assets : RecordIntake(a, 1) \/ RecordOuttake(a, 1)
    \/ CapitalIn(1)
    \/ CapitalOut(1)
=============================================================================
