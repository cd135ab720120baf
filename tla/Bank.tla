-------------------------------- MODULE Bank --------------------------------
(***************************************************************************)
(* All the components that post to the ledger on the same books: orders,   *)
(* deliveries and treasury entries (Platform), deposits and withdrawals.   *)
(* Each step is one step of one component; what a component cannot see of  *)
(* another it meets only in the balances, the barred customers and the day.*)
(***************************************************************************)
EXTENDS Platform, Payments, Payouts

bankVars == <<sharedVars, orderVars, deliveryVars, paymentVars, payoutVars>>

BankInit ==
    /\ BooksInit
    /\ OrdersInit /\ DeliveryInit
    /\ PaymentsInit /\ PayoutsInit

BankNext ==
    \/ OrdersNext /\ UNCHANGED <<deliveryVars, paymentVars, payoutVars>>
    \/ DeliveryNext /\ UNCHANGED <<orderVars, paymentVars, payoutVars>>
    \/ DepositsNext /\ UNCHANGED <<orderVars, deliveryVars, payoutVars>>
    \/ (\E i \in Intents : PayoutStep(i))
       /\ UNCHANGED <<orderVars, deliveryVars, paymentVars>>
    \/ (TreasuryNext \/ SharedNext)
       /\ UNCHANGED <<orderVars, deliveryVars, paymentVars, payoutVars>>

BankSpec == BankInit /\ [][BankNext]_bankVars

BankTypeOK == PlatformTypeOK /\ PaymentsTypeOK /\ PayoutsTypeOK
=============================================================================
