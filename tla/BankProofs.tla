----------------------------- MODULE BankProofs -----------------------------
(***************************************************************************)
(* What each component was proved to guarantee alone it guarantees among   *)
(* the others.  The components meet in the balances, in who is barred and  *)
(* in the day only: the argument is which of these each invariant reads,   *)
(* and that every step of another component leaves them as it needs them.  *)
(***************************************************************************)
EXTENDS Bank, PlatformProofs, ChapaProofs

\* What all the components keep together.
BankInv ==
    /\ PlatformTypeOK /\ PaymentRowsTypeOK
    /\ PostedExactlyOnce /\ QuoteExecutesOnce /\ OwnQuotes /\ LimitsHold
    /\ HoldMatchesDeliveries /\ ReserveBacked
    /\ PaymentsSound /\ PayoutsKeep
    /\ BooksBalance

\* It holds before anything happened.
LEMMA BankInitInv == BankInit => BankInv
<1> SUFFICES ASSUME BankInit PROVE BankInv
  OBVIOUS
<1>1. BooksInit /\ OrdersInit /\ DeliveryInit /\ PaymentsInit /\ PayoutsInit
  BY DEF BankInit
<1>2. PlatformTypeOK
  BY <1>1, OrdersInitType
     DEF PlatformTypeOK, TypeOK, DeliveryInit, DeliveryTypeOK
<1>3. PaymentRowsTypeOK /\ PaymentsSound
  BY <1>1, PaymentsInitTyped, PaymentsInitSound DEF Typed
<1>4. PayoutsKeep
  BY <1>1, PayoutsInitTyped, PayoutsInitSound, InitHold, InitLimit, InitLine
     DEF PayoutsKeep, PayoutsTypeOK
<1>5. /\ PostedExactlyOnce /\ QuoteExecutesOnce /\ OwnQuotes /\ LimitsHold
      /\ HoldMatchesDeliveries /\ ReserveBacked /\ BooksBalance
  BY <1>1, IdempotencyInit, LimitsInit, InitDeliveryHold, InitBacked, InitMetal,
     InitMoney DEF BooksBalance
<1> QED
  BY <1>2, <1>3, <1>4, <1>5 DEF BankInv

-----------------------------------------------------------------------------
(* A step is the platform's, a deposit's or a withdrawal's. *)

PlatformTurn == [PlatformNext]_platformVars /\ UNCHANGED <<paymentVars, payoutVars>>

DepositTurn == DepositsNext /\ UNCHANGED <<orderVars, deliveryVars, payoutVars>>

PayoutTurn ==
    (\E i \in Intents : PayoutStep(i))
    /\ UNCHANGED <<orderVars, deliveryVars, paymentVars>>

LEMMA BankTurns ==
  ASSUME [BankNext]_bankVars PROVE PlatformTurn \/ DepositTurn \/ PayoutTurn
BY DEF BankNext, bankVars, PlatformTurn, DepositTurn, PayoutTurn, PlatformNext,
       platformVars

\* Quotes and orders take a step of theirs or none, whoever's turn it is.
LEMMA TurnOfOrders ==
  ASSUME [BankNext]_bankVars PROVE [OrdersNext]_orderVars
BY DEF BankNext, bankVars

LEMMA OrdersKeep ==
  ASSUME BankInv, [BankNext]_bankVars
  PROVE  PostedExactlyOnce' /\ QuoteExecutesOnce' /\ OwnQuotes' /\ LimitsHold'
BY TurnOfOrders, PostedStep, QuoteStep, OwnsStep, LimitsStep
   DEF BankInv, PlatformTypeOK, TypeOK

\* Nothing on the platform touches the withdrawals' hold.
LEMMA PlatformLeavesHold ==
  ASSUME PlatformTypeOK, [PlatformNext]_platformVars
  PROVE  UNCHANGED payoutHold
<1>1. OrdersNext => UNCHANGED payoutHold
  BY OnlySettlementsPost DEF PlatformTypeOK, TypeOK, PostTrade, sharedVars, etbBooks
<1>2. DeliveryNext => UNCHANGED payoutHold
  BY DEF DeliveryNext, CreateCheck, CreateInsert, ApproveCheck, Approve,
     ApproveFails, Schedule, Deliver, Reject, MoveMetal, sharedVars, etbBooks
<1>3. TreasuryNext => UNCHANGED payoutHold
  BY DEF TreasuryNext, RecordIntake, RecordOuttake, CapitalIn, CapitalOut,
     PostCapital, etbBooks
<1>4. SharedNext \/ UNCHANGED platformVars => UNCHANGED payoutHold
  BY DEF SharedNext, Midnight, Bar, Unbar, platformVars, sharedVars, etbBooks
<1> QED
  BY <1>1, <1>2, <1>3, <1>4 DEF PlatformNext

\* The platform's turn.
LEMMA PlatformKeeps ==
  ASSUME BankInv, PlatformTurn
  PROVE  /\ PlatformTypeOK' /\ PaymentRowsTypeOK' /\ PaymentsSound' /\ PayoutsKeep'
         /\ HoldMatchesDeliveries' /\ ReserveBacked' /\ BooksBalance'
<1> USE DEF BankInv, PlatformTurn
<1>1. PlatformTypeOK' /\ HoldMatchesDeliveries' /\ ReserveBacked'
  BY PlatformStepType, PlatformStepHold, PlatformStepBacked
<1>2. NoOverdraft /\ NoOverdraft'
  BY <1>1, PlatformStepFunds DEF PaymentsSound
<1>3. MetalConserved'
  BY <1>1, <1>2, PlatformStepMetal DEF BooksBalance
<1>4. MoneyConserved'
  BY <1>1, <1>2, PlatformMoneyPosts, PostingKeepsMoney
     DEF BooksBalance, PlatformTypeOK
<1>5. PaymentRowsTypeOK' /\ PaymentsSound'
  BY <1>2, PaymentsAside
<1>6. PayoutsKeep'
  BY PlatformLeavesHold, PayoutsAside DEF PlatformTypeOK
<1> QED
  BY <1>1, <1>3, <1>4, <1>5, <1>6 DEF BooksBalance

-----------------------------------------------------------------------------
(* Deposits and withdrawals move no metal: what the platform keeps stays.   *)

LEMMA ChapaLeavesPlatform ==
  ASSUME BankInv, BooksTypeOK', NoOverdraft', ChapaPosting,
         UNCHANGED <<orderVars, deliveryVars>>
  PROVE  /\ PlatformTypeOK' /\ HoldMatchesDeliveries' /\ ReserveBacked'
         /\ BooksBalance'
<1> USE DEF BankInv
<1>1. UNCHANGED <<metal, vault, deliveryHold, physical>>
  BY DEF ChapaPosting, metalBooks
<1>2. PlatformTypeOK'
  BY SameOrdersType DEF PlatformTypeOK, DeliveryTypeOK, deliveryVars
<1>3. HoldMatchesDeliveries'
  BY <1>1 DEF HoldMatchesDeliveries, deliveryVars
<1>4. ReserveBacked' /\ MetalConserved'
  BY <1>1 DEF ReserveBacked, MetalConserved, BooksBalance, Owed
<1>5. MoneyConserved'
  BY ChapaPostingBalances, PostingKeepsMoney
     DEF PlatformTypeOK, PaymentsSound, BooksBalance
<1> QED
  BY <1>2, <1>3, <1>4, <1>5 DEF BooksBalance

\* A deposit's turn.
LEMMA DepositsKeep ==
  ASSUME BankInv, DepositTurn
  PROVE  /\ PlatformTypeOK' /\ PaymentRowsTypeOK' /\ PaymentsSound' /\ PayoutsKeep'
         /\ HoldMatchesDeliveries' /\ ReserveBacked' /\ BooksBalance'
<1>1. Typed
  BY DEF BankInv, PlatformTypeOK, Typed
<1>2. Typed' /\ PaymentsSound'
  BY <1>1, PaymentsStepType, PaymentsStepSound
     DEF BankInv, DepositTurn, PaymentsNext
<1>3. ChapaPosting /\ UNCHANGED payoutHold
  BY <1>1, DepositsPost DEF DepositTurn
<1>4. PayoutsKeep'
  BY <1>1, <1>3, PayoutsAside DEF BankInv, DepositTurn, Typed
<1> QED
  BY <1>2, <1>3, <1>4, ChapaLeavesPlatform DEF DepositTurn, Typed, PaymentsSound

\* A withdrawal's turn.
LEMMA PayoutsTurnKeeps ==
  ASSUME BankInv, PayoutTurn
  PROVE  /\ PlatformTypeOK' /\ PaymentRowsTypeOK' /\ PaymentsSound' /\ PayoutsKeep'
         /\ HoldMatchesDeliveries' /\ ReserveBacked' /\ BooksBalance'
<1>1. BooksTypeOK /\ PayoutsKeep /\ NoOverdraft
  BY DEF BankInv, PlatformTypeOK, PaymentsSound
<1>2. PICK i \in Intents : PayoutStep(i)
  BY DEF PayoutTurn
<1>3. BooksTypeOK' /\ PayoutsKeep'
  BY <1>1, <1>2, PayoutsStepKeeps DEF PayoutsNext
<1>4. NoOverdraft'
  BY <1>1, <1>2, <1>3, PayoutsFunds DEF PayoutsKeep
<1>5. ChapaPosting
  BY <1>1, <1>2, PayoutsPost
<1>6. PaymentRowsTypeOK' /\ PaymentsSound'
  BY <1>4, PaymentsAside DEF BankInv, PayoutTurn
<1> QED
  BY <1>3, <1>4, <1>5, <1>6, ChapaLeavesPlatform DEF PayoutTurn

\* What the components keep alone they keep together.
LEMMA BankInvariant == BankSpec => []BankInv
<1>1. ASSUME BankInv, [BankNext]_bankVars PROVE BankInv'
  BY <1>1, BankTurns, OrdersKeep, PlatformKeeps, DepositsKeep, PayoutsTurnKeeps
     DEF BankInv
<1> QED
  BY <1>1, BankInitInv, PTL DEF BankSpec

-----------------------------------------------------------------------------
(* What that means for the bank. *)

\* Balances, rows, calls and Chapa's answers keep their types.
THEOREM BankTypeCorrect == BankSpec => []BankTypeOK
<1>1. BankInv => BankTypeOK
  BY TypedIsTyped
     DEF BankInv, BankTypeOK, PlatformTypeOK, PayoutsKeep, PayoutsTypeOK, Typed
<1> QED
  BY <1>1, BankInvariant, PTL

\* No customer and no hold is overdrawn, although buys, deliveries, reversals
\* and withdrawals spend the same balances.
THEOREM BankNoOverdraft == BankSpec => []NoOverdraft
<1>1. BankInv => NoOverdraft
  BY DEF BankInv, PaymentsSound
<1> QED
  BY <1>1, BankInvariant, PTL

\* The books of the whole bank balance, in every metal and in money.
THEOREM BankBooksBalance == BankSpec => []BooksBalance
<1>1. BankInv => BooksBalance
  BY DEF BankInv
<1> QED
  BY <1>1, BankInvariant, PTL

\* Both hold accounts are exactly what waits in them.
THEOREM BankHoldsMatch ==
  BankSpec => [](HoldMatchesDeliveries /\ HoldMatchesPayouts)
<1>1. BankInv => HoldMatchesDeliveries /\ HoldMatchesPayouts
  BY DEF BankInv, PayoutsKeep
<1> QED
  BY <1>1, BankInvariant, PTL

\* Deposits and withdrawals do not loosen what orders promise: one ledger
\* transaction per settled order, one live order per quote, the three limits.
THEOREM BankOrdersHold ==
  BankSpec => [](/\ PostedExactlyOnce /\ QuoteExecutesOnce
                 /\ SellbackWithinCeiling /\ TierDayCapHolds
                 /\ UnreviewedBelowLine)
<1>1. BankInv => /\ PostedExactlyOnce /\ QuoteExecutesOnce
                 /\ SellbackWithinCeiling /\ TierDayCapHolds
                 /\ UnreviewedBelowLine
  BY LimitsAre DEF BankInv, PlatformTypeOK, TypeOK
<1> QED
  BY <1>1, BankInvariant, PTL

\* A settled or rejected order stays so, whoever else moves.
THEOREM BankDecisionIsFinal == BankSpec => DecisionIsFinal
<1>1. ASSUME BankInv, [BankNext]_bankVars
      PROVE  [\A k \in Keys : orders[k].status \in {"settled", "rejected"}
                                => orders'[k] = orders[k]]_ordersAndBooks
  BY <1>1, TurnOfOrders, FinalStep DEF BankInv, PlatformTypeOK, TypeOK
<1> QED
  BY <1>1, BankInvariant, PTL DEF BankSpec, DecisionIsFinal

\* Trades and spending do not loosen what deposits promise: credits are for
\* confirmed payments, and a reversal takes back at most what was credited.
THEOREM BankDepositsHold == BankSpec => [](CreditOnlyVerified /\ ClawbackCovered)
<1>1. BankInv => CreditOnlyVerified /\ ClawbackCovered
  BY SoundClawback DEF BankInv, PlatformTypeOK, Typed, PaymentsSound
<1> QED
  BY <1>1, BankInvariant, PTL

\* Trades and deposits do not loosen what withdrawals promise: sent once,
\* never paid and refunded, settled if paid, within the day's limits.
THEOREM BankWithdrawalsHold ==
  BankSpec => [](/\ SentAtMostOnce /\ NeverPaidAndRefunded /\ SettledOnlyIfPaid
                 /\ DailyLimitHolds /\ AutoBelowLine)
<1>1. BankInv => /\ SentAtMostOnce /\ NeverPaidAndRefunded /\ SettledOnlyIfPaid
                 /\ DailyLimitHolds /\ AutoBelowLine
  BY LineCovers
     DEF BankInv, PayoutsKeep, PayoutsSound, Sound, SendsFirst, Resolved,
         SentAtMostOnce, NeverPaidAndRefunded, SettledOnlyIfPaid
<1> QED
  BY <1>1, BankInvariant, PTL

\* The bank as a whole keeps the reserve promise.
THEOREM BankKeepsPromise == BankSpec => KeepsReservePromise
<1>1. BankInit => Promise!ReserveInit
  BY BankInitInv, ReserveInitHolds DEF BankInit, BankInv, PlatformTypeOK
<1>2. ASSUME BankInv, [BankNext]_bankVars
      PROVE  [Promise!ReserveNext]_(Promise!reserveVars)
  <2>1. CASE PlatformTurn
    BY <1>2, <2>1, PlatformPromiseStep DEF BankInv, PlatformTurn
  <2>2. CASE DepositTurn \/ PayoutTurn
    <3>1. ChapaPosting
      BY <1>2, <2>2, DepositsPost, PayoutsPost
         DEF BankInv, PlatformTypeOK, Typed, DepositTurn, PayoutTurn
    <3> QED
      BY <3>1, SameStock DEF ChapaPosting, metalBooks
  <2> QED
    BY <1>2, <2>1, <2>2, BankTurns
<1> QED
  BY <1>1, <1>2, BankInvariant, PTL
     DEF BankSpec, KeepsReservePromise, Promise!ReserveSpec

\* Whatever component posts, a step that lowers the float leaves it at the halt
\* threshold or above: sell-backs and capital withdrawals check it.
THEOREM BankFloatFloor == BankSpec => FloatFloor
<1>1. ASSUME BankInv, [BankNext]_bankVars
      PROVE  [cash' < cash => cash' >= Halt]_ordersAndBooks
  <2>1. CASE PlatformTurn
    BY <1>1, <2>1, PlatformFloatStep DEF BankInv, PlatformTurn
  <2>2. CASE DepositTurn \/ PayoutTurn
    <3>1. ChapaPosting
      BY <1>1, <2>2, DepositsPost, PayoutsPost
         DEF BankInv, PlatformTypeOK, Typed, DepositTurn, PayoutTurn
    <3>2. cash' = cash /\ cash \in Int
      BY <1>1, <3>1 DEF ChapaPosting, BankInv, PlatformTypeOK, BooksTypeOK
    <3> QED
      BY <3>2
  <2> QED
    BY <1>1, <2>1, <2>2, BankTurns
<1> QED
  BY <1>1, BankInvariant, PTL DEF BankSpec, FloatFloor

\* Every ledger transaction of the bank balances and touches one customer.
THEOREM BankPostingsBalance ==
  ASSUME Users # {} PROVE BankSpec => PostingsBalance
<1>1. ASSUME BankInv, BankInv', [BankNext]_bankVars
      PROVE  [ZeroSumPosting]_<<etbBooks, metalBooks>>
  <2>1. CASE PlatformTurn
    BY <1>1, <2>1, PlatformPostings DEF BankInv, PlatformTurn
  <2>2. CASE DepositTurn \/ PayoutTurn
    BY <1>1, <2>2, DepositsPost, PayoutsPost, ChapaPostingBalances
       DEF BankInv, PlatformTypeOK, Typed, DepositTurn, PayoutTurn
  <2> QED
    BY <1>1, <2>1, <2>2, BankTurns
<1> QED
  BY <1>1, BankInvariant, PTL DEF BankSpec, PostingsBalance
=============================================================================
