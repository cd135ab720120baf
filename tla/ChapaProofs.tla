----------------------------- MODULE ChapaProofs -----------------------------
(***************************************************************************)
(* Theorems about the money that comes and goes through Chapa, for any     *)
(* customers, amounts, limits, keys, deployments and number of concurrent  *)
(* calls.                                                                  *)
(*                                                                         *)
(* Deposits, with or without retried checkouts: only what Chapa confirmed  *)
(* is credited, and a reversal takes back no more than that and never more *)
(* than is there.                                                          *)
(*                                                                         *)
(* Withdrawals: a payout is sent at most once, is never both paid and      *)
(* refunded, is marked paid only if Chapa says so, the hold account is     *)
(* exactly the payouts that are waiting or under way, and every step is    *)
(* one that the promise of module Escrow allows.                           *)
(***************************************************************************)
EXTENDS Payments, Payouts, BooksProofs

-----------------------------------------------------------------------------
(* Types. *)

PaymentCalls == [at : Places, pay : Payments, seen : Statuses, sweep : BOOLEAN]

\* Payments' own variables.
PaymentRowsTypeOK ==
    /\ status \in [Payments -> Statuses]
    /\ chapa \in [Payments -> {"none", "absent", "pending", "failed",
                               "success", "mismatch", "refunded"}]
    /\ age \in [Payments -> 0 .. 3]
    /\ sent \in [Payments -> SUBSET {"charge", "reversal"}]
    /\ handler \in [Handlers -> {Idle} \cup PaymentCalls]
    /\ credits \in [Payments -> Nat]
    /\ debited \in [Payments -> Nat]
    /\ retried \subseteq Payments

Typed == BooksTypeOK /\ PaymentRowsTypeOK

\* The type invariant is the books' and the rows'.
LEMMA TypedIsTyped == Typed => PaymentsTypeOK
  BY DEF Typed, PaymentsTypeOK, PaymentRowsTypeOK, PaymentCalls

\* An idle call works on no payment.
LEMMA IdleHandler == Idle.at = "idle" /\ Idle.pay = NoPayment /\ "idle" \notin Places
  BY DEF Idle, Places

\* Who is busy works on a payment, and goes on as a call.
LEMMA BusyCall ==
  ASSUME PaymentRowsTypeOK, NEW h \in Handlers, NEW at \in Places, At(h, at)
  PROVE  /\ handler[h] \in PaymentCalls
         /\ handler[h].pay \in Payments /\ handler[h].seen \in Statuses
         /\ \A to \in Places : [handler[h] EXCEPT !.at = to] \in PaymentCalls
<1>1. handler[h] \in PaymentCalls
  BY IdleHandler DEF PaymentRowsTypeOK, At
<1>2. \A r \in PaymentCalls, to \in Places :
        /\ r.pay \in Payments /\ r.seen \in Statuses
        /\ [r EXCEPT !.at = to] \in PaymentCalls
  BY DEF PaymentCalls
<1> QED
  BY <1>1, <1>2

\* A call goes on or ends.
LEMMA HandlerTyped ==
  ASSUME PaymentRowsTypeOK, NEW h \in Handlers,
         \/ Done(h)
         \/ \E at \in Places, to \in Places : At(h, at) /\ GoTo(h, to)
         \/ \E at \in Places : At(h, at) /\ SettleDone(h)
  PROVE  handler' \in [Handlers -> {Idle} \cup PaymentCalls]
<1>1. CASE Done(h)
  BY <1>1 DEF PaymentRowsTypeOK, Done
<1>2. ASSUME NEW at \in Places, NEW to \in Places, At(h, at), GoTo(h, to)
      PROVE  handler' \in [Handlers -> {Idle} \cup PaymentCalls]
  <2>1. [handler[h] EXCEPT !.at = to] \in PaymentCalls
    BY <1>2, BusyCall
  <2> QED
    BY <1>2, <2>1 DEF PaymentRowsTypeOK, GoTo
<1>3. "expire" \in Places
  BY DEF Places
<1> QED
  BY <1>1, <1>2, <1>3 DEF SettleDone

\* Initially everything has its type.
LEMMA PaymentsInitTyped == PaymentsInit => Typed
<1> SUFFICES ASSUME PaymentsInit PROVE Typed
  OBVIOUS
<1>1. BooksTypeOK
  BY BooksInitType DEF PaymentsInit
<1>2. PaymentRowsTypeOK
  BY DEF PaymentsInit, PaymentRowsTypeOK, Statuses
<1> QED
  BY <1>1, <1>2 DEF Typed

\* Chapa, the customer's checkout and time keep the types.
LEMMA WorldType ==
  ASSUME Typed, NEW p \in Payments,
         \/ Create(p) \/ CheckoutOpens(p) \/ CheckoutFails(p) \/ Age(p)
         \/ CustomerPays(p) \/ CustomerPaysOther(p) \/ CustomerFails(p)
         \/ CustomerRetries(p) \/ ChapaRefunds(p)
  PROVE  Typed'
<1> USE DEF Typed
<1>1. UNCHANGED sharedVars
  BY DEF Create, CheckoutOpens, CheckoutFails, Age, CustomerPays, CustomerFails,
         CustomerPaysOther, CustomerRetries, ChapaRefunds, ChapaMoves
<1>2. BooksTypeOK'
  BY <1>1, SameBooksType
<1>3. CASE Create(p) \/ CheckoutOpens(p) \/ CheckoutFails(p)
  BY <1>2, <1>3 DEF Create, CheckoutOpens, CheckoutFails, SetPayment,
                    PaymentRowsTypeOK, Statuses
<1>4. CASE Age(p)
  BY <1>2, <1>4 DEF Age, PaymentRowsTypeOK
<1>5. ASSUME NEW from, NEW to \in {"pending", "failed", "success", "mismatch",
                                   "refunded"}, NEW kind,
             ChapaMoves(p, from, to, kind)
      PROVE  Typed'
  <2>1. sent' \in [Payments -> SUBSET {"charge", "reversal"}]
    BY <1>5, PaymentsAssumption DEF ChapaMoves, PaymentRowsTypeOK
  <2>2. retried' \subseteq Payments
    BY <1>5 DEF ChapaMoves, PaymentRowsTypeOK
  <2> QED
    BY <1>2, <1>5, <2>1, <2>2 DEF ChapaMoves, PaymentRowsTypeOK
<1> QED
  BY <1>3, <1>4, <1>5 DEF CustomerPays, CustomerPaysOther, CustomerFails,
                          CustomerRetries, ChapaRefunds

\* So does a call that starts.
LEMMA StartType ==
  ASSUME Typed, NEW h \in Handlers, NEW p \in Payments,
         NEW at \in Places, NEW sweep \in BOOLEAN, Start(h, p, at, sweep)
  PROVE  Typed'
<1> USE DEF Typed
<1>1. BooksTypeOK'
  BY SameBooksType DEF Start
<1>2. [at |-> at, pay |-> p, seen |-> status[p], sweep |-> sweep] \in PaymentCalls
  BY DEF PaymentCalls, PaymentRowsTypeOK
<1> QED
  BY <1>1, <1>2 DEF Start, PaymentRowsTypeOK

\* A posting leaves the balances numbers.
LEMMA PostType ==
  ASSUME BooksTypeOK, NEW p \in Payments, NEW amount \in Int,
         PostDeposit(p, amount), barred' \subseteq Users
  PROVE  BooksTypeOK'
BY PaymentsAssumption DEF BooksTypeOK, PostDeposit, metalBooks

\* What a reversal takes back is at most the deposit, and at most what is there.
LEMMA ClawbackBounds ==
  ASSUME BooksTypeOK, NEW p \in Payments
  PROVE  /\ Clawback(p) \in Nat /\ Clawback(p) <= Amount[p]
         /\ Clawback(p) <= cents[Payer[p]] \/ Clawback(p) = 0
BY PaymentsAssumption DEF BooksTypeOK, Clawback

\* So does each step of a settle ...
LEMMA SettleType ==
  ASSUME Typed, NEW h \in Handlers, SettleStep(h)
  PROVE  Typed'
<1> USE DEF Typed
<1>0. {"read", "verify", "claim", "close", "expire"} \subseteq Places
  BY DEF Places
<1>1. handler' \in [Handlers -> {Idle} \cup PaymentCalls]
  BY <1>0, HandlerTyped DEF SettleStep, ReadRow, Verify, CloseFailed,
     ClaimCredit, ClaimLost, Expire
<1>2. PICK p \in Payments : p = handler[h].pay
  BY <1>0, BusyCall DEF SettleStep, ReadRow, Verify, CloseFailed, ClaimCredit,
     ClaimLost, Expire
<1>3. CASE ReadRow(h) \/ Verify(h) \/ ClaimLost(h)
  <2>1. UNCHANGED <<sharedVars, status, chapa, age, sent, credits, debited,
                    retried>>
    BY <1>3 DEF ReadRow, Verify, ClaimLost
  <2> QED
    BY <1>1, <2>1, SameBooksType DEF PaymentRowsTypeOK
<1>4. CASE CloseFailed(h) \/ Expire(h)
  <2>1. UNCHANGED <<sharedVars, chapa, age, sent, credits, debited, retried>>
    BY <1>4 DEF CloseFailed, Expire
  <2>2. status' \in [Payments -> Statuses]
    BY <1>2, <1>4 DEF CloseFailed, Expire, SetPayment, PaymentRowsTypeOK, Statuses
  <2> QED
    BY <1>1, <2>1, <2>2, SameBooksType DEF PaymentRowsTypeOK
<1>5. CASE ClaimCredit(h)
  <2>1. BooksTypeOK'
    BY <1>2, <1>5, PostType, PaymentsAssumption DEF ClaimCredit, BooksTypeOK
  <2>2. /\ status' \in [Payments -> Statuses]
        /\ credits' \in [Payments -> Nat]
    BY <1>2, <1>5 DEF ClaimCredit, SetPayment, PaymentRowsTypeOK, Statuses
  <2> QED
    BY <1>1, <1>5, <2>1, <2>2 DEF ClaimCredit, PaymentRowsTypeOK
<1> QED
  BY <1>3, <1>4, <1>5 DEF SettleStep

\* ... of a reversal ...
LEMMA ReversalType ==
  ASSUME Typed, NEW h \in Handlers, ReversalStep(h)
  PROVE  Typed'
<1> USE DEF Typed
<1>0. {"reversalRead", "reversalVerify", "reversalApply"} \subseteq Places
  BY DEF Places
<1>1. handler[h] \in PaymentCalls
  BY <1>0, BusyCall DEF ReversalStep, ReversalRead, ReversalVerify,
     ReversalCloses, ReversalDebits, ReversalLost
<1>2. PICK p \in Payments : p = handler[h].pay
  BY <1>1 DEF PaymentCalls
<1>3. CASE ReversalRead(h)
  <2>1. status[p] \in Statuses
    BY DEF PaymentRowsTypeOK
  <2>2. [handler[h] EXCEPT !.at = "reversalVerify", !.seen = status[p]] \in PaymentCalls
    BY <1>0, <1>1, <2>1 DEF PaymentCalls
  <2>3. handler' \in [Handlers -> {Idle} \cup PaymentCalls]
    BY <1>2, <1>3, <2>2 DEF ReversalRead, PaymentRowsTypeOK
  <2> QED
    BY <1>3, <2>3, SameBooksType DEF ReversalRead, PaymentRowsTypeOK
<1>4. ~ReversalRead(h) => handler' \in [Handlers -> {Idle} \cup PaymentCalls]
  BY <1>0, HandlerTyped DEF ReversalStep, ReversalVerify, ReversalCloses,
     ReversalDebits, ReversalLost
<1>5. CASE ~ReversalRead(h) /\ (ReversalVerify(h) \/ ReversalLost(h))
  <2>1. UNCHANGED <<sharedVars, status, chapa, age, sent, credits, debited,
                    retried>>
    BY <1>5 DEF ReversalVerify, ReversalLost
  <2> QED
    BY <1>4, <1>5, <2>1, SameBooksType DEF PaymentRowsTypeOK
<1>6. CASE ~ReversalRead(h) /\ ReversalCloses(h)
  <2>1. status' \in [Payments -> Statuses]
    BY <1>2, <1>6 DEF ReversalCloses, SetPayment, PaymentRowsTypeOK, Statuses
  <2> QED
    BY <1>4, <1>6, <2>1, SameBooksType DEF ReversalCloses, PaymentRowsTypeOK
<1>7. CASE ~ReversalRead(h) /\ ReversalDebits(h)
  <2>1. Clawback(p) \in Nat /\ Payer[p] \in Users
    BY ClawbackBounds, PaymentsAssumption
  <2>2. BooksTypeOK'
    <3>1. PostDeposit(p, -Clawback(p)) /\ barred' = barred \cup {Payer[p]}
      BY <1>2, <1>7 DEF ReversalDebits
    <3>2. barred' \subseteq Users /\ -Clawback(p) \in Int
      BY <2>1, <3>1 DEF BooksTypeOK
    <3> QED
      BY <3>1, <3>2, PostType
  <2>3. /\ status' \in [Payments -> Statuses]
        /\ debited' \in [Payments -> Nat]
    BY <1>2, <1>7, <2>1 DEF ReversalDebits, SetPayment, PaymentRowsTypeOK, Statuses
  <2> QED
    BY <1>4, <1>7, <2>2, <2>3 DEF ReversalDebits, PaymentRowsTypeOK
<1> QED
  BY <1>3, <1>5, <1>6, <1>7 DEF ReversalStep

\* ... and of a webhook that records its event, or a call that fails.
LEMMA HookType ==
  ASSUME Typed, NEW h \in Handlers, RecordHook(h) \/ HandlerFails(h)
  PROVE  Typed'
<1> USE DEF Typed
<1>1. CASE RecordHook(h)
  <2>0. {"record", "recordReversal", "read", "reversalRead"} \subseteq Places
    BY DEF Places
  <2>1. handler' \in [Handlers -> {Idle} \cup PaymentCalls]
    BY <1>1, <2>0, HandlerTyped DEF RecordHook
  <2>2. PICK p \in Payments : p = handler[h].pay
    BY <1>1, <2>0, BusyCall DEF RecordHook
  <2>3. status' \in [Payments -> Statuses]
    BY <1>1, <2>2 DEF RecordHook, HookStatus, SetPayment, PaymentRowsTypeOK,
                      Statuses
  <2> QED
    BY <1>1, <2>1, <2>3, SameBooksType DEF RecordHook, PaymentRowsTypeOK
<1>2. CASE HandlerFails(h)
  <2>1. handler' \in [Handlers -> {Idle} \cup PaymentCalls]
    BY <1>2, HandlerTyped DEF HandlerFails
  <2> QED
    BY <1>2, <2>1, SameBooksType DEF HandlerFails, PaymentRowsTypeOK
<1> QED
  BY <1>1, <1>2

\* Every step keeps the types.
LEMMA PaymentsStepType ==
  Typed /\ [PaymentsNext]_paymentsAndBooks => Typed'
<1> SUFFICES ASSUME Typed, [PaymentsNext]_paymentsAndBooks
             PROVE  Typed'
  OBVIOUS
<1>1. ASSUME NEW h \in Handlers, NEW p \in Payments,
             HookArrives(h, p) \/ Reconcile(h, p) \/ SweepPicks(h, p)
      PROVE  Typed'
  <2>1. {"record", "recordReversal", "read"} \subseteq Places
    BY DEF Places
  <2> QED
    BY <1>1, <2>1, StartType DEF HookArrives, Reconcile, SweepPicks
<1>2. ASSUME UNCHANGED paymentVars, BooksTypeOK' PROVE Typed'
  BY <1>2 DEF Typed, PaymentRowsTypeOK, paymentVars
<1>3. ASSUME NEW u \in Users, Spend(u) PROVE Typed'
  <2>1. BooksTypeOK'
    BY <1>3 DEF Typed, Spend, BooksTypeOK, metalBooks
  <2> QED
    BY <1>2, <1>3, <2>1 DEF Spend
<1>4. CASE UNCHANGED paymentsAndBooks
  BY <1>2, <1>4, SameBooksType DEF Typed, paymentsAndBooks
<1> QED
  BY <1>1, <1>3, <1>4, WorldType, SettleType, ReversalType, HookType
     DEF PaymentsNext, DepositsNext

\* Balances, rows and calls keep their types.
THEOREM PaymentsTypeCorrect == PaymentsSpec => []PaymentsTypeOK
  BY PaymentsInitTyped, TypedIsTyped, PaymentsStepType, PTL DEF PaymentsSpec

-----------------------------------------------------------------------------
(* What a call about to claim has seen at Chapa is still so, or refunded;   *)
(* and a credit still standing leaves room for the reversal that undoes it. *)

Confirmed == {"success", "refunded"}

\* A call about to credit a payment saw it confirmed.
ClaimsConfirmed ==
    \A h \in Handlers : At(h, "claim") => chapa[handler[h].pay] \in Confirmed

\* What was taken back, and what the standing credit may still cost, was credited.
Standing(p) == IF status[p] = "credited" THEN Amount[p] ELSE 0
Covered(p) == debited[p] + Standing(p) <= credits[p] * Amount[p]
CreditsCover == \A p \in Payments : Covered(p)

PaymentsSound == ClaimsConfirmed /\ CreditOnlyVerified /\ CreditsCover /\ NoOverdraft

\* Nothing has been credited yet.
LEMMA PaymentsInitSound == PaymentsInit => PaymentsSound
<1> SUFFICES ASSUME PaymentsInit PROVE PaymentsSound
  OBVIOUS
<1>1. ClaimsConfirmed
  BY IdleHandler DEF PaymentsInit, ClaimsConfirmed, At
<1>2. CreditOnlyVerified
  BY DEF PaymentsInit, CreditOnlyVerified
<1>3. CreditsCover
  BY PaymentsAssumption DEF PaymentsInit, CreditsCover, Covered, Standing
<1>4. NoOverdraft
  BY BooksAssumption DEF PaymentsInit, BooksInit, NoOverdraft
<1> QED
  BY <1>1, <1>2, <1>3, <1>4 DEF PaymentsSound

\* Once Chapa confirmed a payment it stays confirmed.
ConfirmedStays == \A p \in Payments : chapa[p] \in Confirmed => chapa'[p] \in Confirmed

\* A step that does not credit, and lets no call reach its claim unconfirmed.
LEMMA SameConfirmed ==
  ASSUME PaymentRowsTypeOK, ClaimsConfirmed, CreditOnlyVerified,
         ConfirmedStays, UNCHANGED credits,
         \A h \in Handlers : At(h, "claim")' =>
              \/ handler'[h] = handler[h]
              \/ handler'[h].pay \in Payments /\ chapa'[handler'[h].pay] \in Confirmed
  PROVE  ClaimsConfirmed' /\ CreditOnlyVerified'
<1>1. CreditOnlyVerified'
  BY DEF CreditOnlyVerified, ConfirmedStays, Confirmed
<1>2. ASSUME NEW h \in Handlers, At(h, "claim")'
      PROVE  chapa'[handler'[h].pay] \in Confirmed
  <2>1. CASE handler'[h] = handler[h]
    <3>1. At(h, "claim") /\ "claim" \in Places
      BY <1>2, <2>1 DEF At, Places
    <3>2. handler[h].pay \in Payments
      BY <3>1, BusyCall
    <3> QED
      BY <2>1, <3>1, <3>2 DEF ClaimsConfirmed, ConfirmedStays
  <2> QED
    BY <1>2, <2>1
<1> QED
  BY <1>1, <1>2 DEF ClaimsConfirmed

\* A payment's cover is kept if its status and figures stay, or if its status
\* moves to one that is not a standing credit.
LEMMA SameCovered ==
  ASSUME PaymentRowsTypeOK, NEW p \in Payments, Covered(p),
         debited'[p] = debited[p], credits'[p] = credits[p],
         status'[p] = status[p] \/ status'[p] # "credited"
  PROVE  Covered(p)'
<1>1. /\ Amount[p] \in Nat /\ debited[p] \in Nat
      /\ credits[p] \in Nat
  BY PaymentsAssumption DEF PaymentRowsTypeOK
<1>2. credits[p] * Amount[p] \in Nat
  BY <1>1
<1>3. Standing(p)' <= Standing(p) /\ Standing(p) \in Nat /\ Standing(p)' \in Nat
  BY <1>1 DEF Standing
<1>4. debited[p] + Standing(p)' <= credits[p] * Amount[p]
  BY <1>1, <1>2, <1>3 DEF Covered
<1> QED
  BY <1>4 DEF Covered

\* Chapa, the customer's checkout and time credit nothing.
LEMMA WorldSound ==
  ASSUME Typed, PaymentsSound, NEW p \in Payments,
         \/ Create(p) \/ CheckoutOpens(p) \/ CheckoutFails(p) \/ Age(p)
         \/ CustomerPays(p) \/ CustomerPaysOther(p) \/ CustomerFails(p)
         \/ CustomerRetries(p) \/ ChapaRefunds(p)
  PROVE  PaymentsSound'
<1> USE DEF Typed
<1>1. UNCHANGED <<sharedVars, handler, credits, debited>>
  BY DEF Create, CheckoutOpens, CheckoutFails, Age, CustomerPays, CustomerFails,
         CustomerPaysOther, CustomerRetries, ChapaRefunds, ChapaMoves
<1>2. ConfirmedStays
  BY DEF Create, CheckoutOpens, CheckoutFails, Age, CustomerPays, CustomerFails,
         CustomerPaysOther, CustomerRetries, ChapaRefunds, ChapaMoves,
         ConfirmedStays, Confirmed, PaymentRowsTypeOK
<1>3. \A q \in Payments : status'[q] = status[q] \/ status'[q] # "credited"
  BY DEF Create, CheckoutOpens, CheckoutFails, Age, CustomerPays, CustomerFails,
         CustomerPaysOther, CustomerRetries, ChapaRefunds, ChapaMoves,
         SetPayment, PaymentRowsTypeOK
<1>4. ClaimsConfirmed' /\ CreditOnlyVerified'
  BY <1>1, <1>2, SameConfirmed DEF PaymentsSound
<1>5. CreditsCover'
  BY <1>1, <1>3, SameCovered DEF PaymentsSound, CreditsCover
<1>6. NoOverdraft'
  BY <1>1 DEF PaymentsSound, NoOverdraft, sharedVars, etbBooks, metalBooks
<1> QED
  BY <1>4, <1>5, <1>6 DEF PaymentsSound

\* Nor does a call, whatever row it closes, until it claims: it reaches its
\* claim only from a verify that Chapa confirmed.
LEMMA QuietSound ==
  ASSUME Typed, PaymentsSound, NEW h \in Handlers,
         \/ \E p \in Payments :
              HookArrives(h, p) \/ Reconcile(h, p) \/ SweepPicks(h, p)
         \/ RecordHook(h) \/ HandlerFails(h)
         \/ ReadRow(h) \/ Verify(h) \/ CloseFailed(h) \/ ClaimLost(h) \/ Expire(h)
         \/ ReversalRead(h) \/ ReversalVerify(h) \/ ReversalCloses(h)
         \/ ReversalLost(h)
  PROVE  PaymentsSound'
<1> USE DEF Typed
<1>1. UNCHANGED <<sharedVars, chapa, credits, debited>>
  BY DEF HookArrives, Reconcile, SweepPicks, Start, RecordHook, HandlerFails,
         ReadRow, Verify, CloseFailed, ClaimLost, Expire, ReversalRead,
         ReversalVerify, ReversalCloses, ReversalLost
<1>2. \A q \in Payments : status'[q] = status[q] \/ status'[q] # "credited"
  BY DEF HookArrives, Reconcile, SweepPicks, Start, RecordHook, HandlerFails,
         ReadRow, Verify, CloseFailed, ClaimLost, Expire, ReversalRead,
         ReversalVerify, ReversalCloses, ReversalLost, SetPayment, HookStatus,
         PaymentRowsTypeOK
<1>3. ASSUME NEW g \in Handlers, At(g, "claim")', handler'[g] # handler[g]
      PROVE  handler'[g].pay \in Payments /\ chapa'[handler'[g].pay] \in Confirmed
  <2>1. g = h
    BY <1>3 DEF HookArrives, Reconcile, SweepPicks, Start, RecordHook,
           HandlerFails, ReadRow, Verify, CloseFailed, ClaimLost, Expire,
           ReversalRead, ReversalVerify, ReversalCloses, ReversalLost,
           SettleDone, GoTo, Done, PaymentRowsTypeOK
  <2>2. \A to : GoTo(h, to) => handler'[h].at = to
    BY DEF GoTo, PaymentRowsTypeOK, PaymentCalls, Idle
  <2>3. Done(h) => handler'[h].at = "idle"
    BY IdleHandler DEF Done, PaymentRowsTypeOK
  <2>4. handler'[h].at = "claim"
    BY <1>3, <2>1 DEF At
  <2>5. Verify(h)
    <3>1. ASSUME NEW q \in Payments,
                 HookArrives(h, q) \/ Reconcile(h, q) \/ SweepPicks(h, q)
          PROVE  FALSE
      BY <2>4, <3>1 DEF HookArrives, Reconcile, SweepPicks, Start,
                        PaymentRowsTypeOK
    <3>2. CASE ReversalRead(h)
      BY <2>4, <3>2 DEF ReversalRead, PaymentRowsTypeOK, PaymentCalls, Idle
    <3> QED
      BY <2>2, <2>3, <2>4, <3>1, <3>2
         DEF RecordHook, HandlerFails, ReadRow, CloseFailed, ClaimLost, Expire,
             ReversalVerify, ReversalCloses, ReversalLost, SettleDone
  <2>6. MatchingSuccess(handler[h].pay)
    BY <2>2, <2>3, <2>4, <2>5 DEF Verify, SettleDone
  <2>7. handler[h].pay \in Payments /\ handler[h] \in PaymentCalls
    BY <2>5, BusyCall DEF Verify, Places
  <2>8. handler'[h].pay = handler[h].pay
    BY <2>2, <2>3, <2>4, <2>5, <2>7 DEF Verify, SettleDone, GoTo,
       PaymentRowsTypeOK, PaymentCalls
  <2> QED
    BY <1>1, <2>1, <2>6, <2>7, <2>8 DEF MatchingSuccess, Confirmed
<1>4. ConfirmedStays
  BY <1>1 DEF ConfirmedStays
<1>5. ClaimsConfirmed' /\ CreditOnlyVerified'
  BY <1>1, <1>3, <1>4, SameConfirmed DEF PaymentsSound
<1>6. CreditsCover'
  BY <1>1, <1>2, SameCovered DEF PaymentsSound, CreditsCover
<1>7. NoOverdraft'
  BY <1>1 DEF PaymentsSound, NoOverdraft, sharedVars, etbBooks, metalBooks
<1> QED
  BY <1>5, <1>6, <1>7 DEF PaymentsSound

\* A handler that ends or goes on to the age check is at no claim.
LEMMA NotClaiming ==
  ASSUME PaymentRowsTypeOK, NEW h \in Handlers, Done(h) \/ SettleDone(h),
         NEW g \in Handlers, At(g, "claim")'
  PROVE  handler'[g] = handler[g]
BY DEF PaymentRowsTypeOK, Done, SettleDone, GoTo, At, Idle, PaymentCalls

\* The claim credits what Chapa confirmed, and makes room for its reversal.
LEMMA CreditSound ==
  ASSUME Typed, PaymentsSound, NEW h \in Handlers, ClaimCredit(h)
  PROVE  PaymentsSound'
<1> USE DEF Typed
<1>1. PICK p \in Payments : p = handler[h].pay
  BY BusyCall DEF ClaimCredit, Places
<1>2. chapa[p] \in Confirmed /\ chapa' = chapa
  BY <1>1 DEF ClaimCredit, PaymentsSound, ClaimsConfirmed
<1>3. Amount[p] \in Nat /\ Payer[p] \in Users
  BY PaymentsAssumption
<1>4. ClaimsConfirmed'
  <2>1. ASSUME NEW g \in Handlers, At(g, "claim")'
        PROVE  chapa'[handler'[g].pay] \in Confirmed
    <3>1. handler'[g] = handler[g]
      BY <2>1, NotClaiming DEF ClaimCredit
    <3> QED
      BY <1>2, <2>1, <3>1 DEF PaymentsSound, ClaimsConfirmed, At
  <2> QED
    BY <2>1 DEF ClaimsConfirmed
<1>5. CreditOnlyVerified'
  BY <1>1, <1>2 DEF ClaimCredit, PaymentsSound, CreditOnlyVerified, Confirmed,
                    PaymentRowsTypeOK
<1>6. CreditsCover'
  <2>1. ASSUME NEW q \in Payments \ {p} PROVE Covered(q)'
    <3>1. /\ debited'[q] = debited[q] /\ credits'[q] = credits[q]
          /\ status'[q] = status[q]
      BY <1>1 DEF ClaimCredit, SetPayment, PaymentRowsTypeOK
    <3> QED
      BY <3>1, SameCovered DEF PaymentsSound, CreditsCover
  <2>2. /\ debited'[p] = debited[p] /\ credits'[p] = credits[p] + 1
        /\ status'[p] = "credited" /\ status[p] # "credited"
    BY <1>1 DEF ClaimCredit, SetPayment, PaymentRowsTypeOK, CREDITABLE
  <2>3. debited[p] \in Nat /\ credits[p] \in Nat
    BY DEF PaymentRowsTypeOK
  <2>4. debited[p] <= credits[p] * Amount[p]
    BY <1>3, <2>2, <2>3 DEF PaymentsSound, CreditsCover, Covered, Standing
  <2>5. (credits[p] + 1) * Amount[p] = credits[p] * Amount[p] + Amount[p]
    BY <1>3, <2>3
  <2>6. credits[p] * Amount[p] \in Nat
    BY <1>3, <2>3
  <2>7. Covered(p)'
    BY <1>3, <2>2, <2>3, <2>4, <2>5, <2>6 DEF Covered, Standing
  <2> QED
    BY <2>1, <2>7 DEF CreditsCover
<1>7. NoOverdraft'
  BY <1>1, <1>3 DEF ClaimCredit, PostDeposit, PaymentsSound, NoOverdraft,
                    BooksTypeOK, metalBooks
<1> QED
  BY <1>4, <1>5, <1>6, <1>7 DEF PaymentsSound

\* A reversal uses up the standing credit, and takes no more than is there.
LEMMA DebitSound ==
  ASSUME Typed, PaymentsSound, NEW h \in Handlers, ReversalDebits(h)
  PROVE  PaymentsSound'
<1> USE DEF Typed
<1>1. PICK p \in Payments : p = handler[h].pay
  BY BusyCall DEF ReversalDebits, Places
<1>2. /\ Amount[p] \in Nat /\ Payer[p] \in Users /\ Clawback(p) \in Nat
      /\ Clawback(p) <= Amount[p]
      /\ Clawback(p) <= cents[Payer[p]] \/ Clawback(p) = 0
  BY ClawbackBounds, PaymentsAssumption
<1>3. ClaimsConfirmed' /\ CreditOnlyVerified'
  <2>1. chapa' = chapa /\ credits' = credits
    BY DEF ReversalDebits
  <2>2. \A g \in Handlers : At(g, "claim")' => handler'[g] = handler[g]
    BY NotClaiming DEF ReversalDebits
  <2>3. ConfirmedStays
    BY <2>1 DEF ConfirmedStays
  <2> QED
    BY <2>1, <2>2, <2>3, SameConfirmed DEF PaymentsSound
<1>4. CreditsCover'
  <2>1. ASSUME NEW q \in Payments \ {p} PROVE Covered(q)'
    <3>1. /\ debited'[q] = debited[q] /\ credits'[q] = credits[q]
          /\ status'[q] = status[q]
      BY <1>1 DEF ReversalDebits, SetPayment, PaymentRowsTypeOK
    <3> QED
      BY <3>1, SameCovered DEF PaymentsSound, CreditsCover
  <2>2. /\ debited'[p] = debited[p] + Clawback(p) /\ credits'[p] = credits[p]
        /\ status'[p] = "reversed" /\ status[p] = "credited"
    BY <1>1 DEF ReversalDebits, SetPayment, PaymentRowsTypeOK
  <2>3. debited[p] \in Nat /\ credits[p] \in Nat /\ credits[p] * Amount[p] \in Nat
    BY <1>2 DEF PaymentRowsTypeOK
  <2>4. debited[p] + Amount[p] <= credits[p] * Amount[p]
    BY <2>2 DEF PaymentsSound, CreditsCover, Covered, Standing
  <2>5. debited[p] + Clawback(p) + 0 <= credits[p] * Amount[p]
    BY <1>2, <2>3, <2>4
  <2>6. Covered(p)'
    BY <2>2, <2>5 DEF Covered, Standing
  <2> QED
    BY <2>1, <2>6 DEF CreditsCover
<1>5. NoOverdraft'
  <2>1. PostDeposit(p, -Clawback(p))
    BY <1>1 DEF ReversalDebits
  <2>2. \A u \in Users : cents'[u] >= 0
    BY <1>2, <2>1 DEF PostDeposit, PaymentsSound, NoOverdraft, BooksTypeOK
  <2> QED
    BY <2>1, <2>2 DEF PostDeposit, PaymentsSound, NoOverdraft, metalBooks
<1> QED
  BY <1>3, <1>4, <1>5 DEF PaymentsSound

\* What other components do to the books does not matter, if they overdraw
\* nobody.
LEMMA PaymentsAside ==
  ASSUME PaymentRowsTypeOK, PaymentsSound, UNCHANGED paymentVars, NoOverdraft'
  PROVE  PaymentRowsTypeOK' /\ PaymentsSound'
BY DEF PaymentRowsTypeOK, PaymentsSound, ClaimsConfirmed, At, CreditOnlyVerified,
       CreditsCover, Covered, Standing, paymentVars

\* All of it is inductive, given the types.
LEMMA PaymentsStepSound ==
  Typed /\ PaymentsSound /\ [PaymentsNext]_paymentsAndBooks => PaymentsSound'
<1> SUFFICES ASSUME Typed, PaymentsSound, [PaymentsNext]_paymentsAndBooks
             PROVE  PaymentsSound'
  OBVIOUS
<1>1. ASSUME UNCHANGED paymentVars, NoOverdraft' PROVE PaymentsSound'
  BY <1>1, PaymentsAside DEF Typed
<1>2. ASSUME NEW u \in Users, Spend(u) PROVE PaymentsSound'
  <2>1. NoOverdraft'
    BY <1>2 DEF Spend, PaymentsSound, NoOverdraft, Typed, BooksTypeOK, metalBooks
  <2> QED
    BY <1>1, <1>2, <2>1 DEF Spend
<1>3. CASE UNCHANGED paymentsAndBooks
  BY <1>1, <1>3 DEF paymentsAndBooks, PaymentsSound, NoOverdraft, sharedVars,
                    etbBooks, metalBooks
<1> QED
  BY <1>2, <1>3, WorldSound, QuietSound, CreditSound, DebitSound
     DEF PaymentsNext, DepositsNext, SettleStep, ReversalStep

\* With the types, it holds in every behaviour.
LEMMA PaymentsInvariant == PaymentsSpec => [](Typed /\ PaymentsSound)
  BY PaymentsInitTyped, PaymentsStepType, PaymentsInitSound, PaymentsStepSound, PTL DEF PaymentsSpec

\* Whatever webhooks come, in whatever order and however often, and however
\* many calls settle at once: only what Chapa confirmed is credited.
THEOREM PaymentsCreditVerified == PaymentsSpec => []CreditOnlyVerified
  BY PaymentsInvariant, PTL DEF PaymentsSound

\* What was taken back, was credited.
LEMMA SoundClawback ==
  ASSUME PaymentRowsTypeOK, PaymentsSound PROVE ClawbackCovered
<1> SUFFICES ASSUME NEW p \in Payments PROVE debited[p] <= credits[p] * Amount[p]
  BY DEF ClawbackCovered, PaymentsSound
<1>1. /\ debited[p] \in Nat /\ credits[p] \in Nat /\ Amount[p] \in Nat
      /\ credits[p] * Amount[p] \in Nat
  BY PaymentsAssumption DEF PaymentRowsTypeOK
<1> QED
  BY <1>1 DEF PaymentsSound, CreditsCover, Covered, Standing

\* A reversal takes back at most what was credited, and overdraws nobody.
THEOREM PaymentsClawback == PaymentsSpec => []ClawbackCovered
  BY SoundClawback, PaymentsInvariant, PTL DEF Typed

-----------------------------------------------------------------------------
(* A credit is counted once per payment as long as none of its webhooks has *)
(* been sent: the one update that ignores the row's present status is       *)
(* theirs, and so are the reversals.                                        *)

HookPlaces == {"record", "recordReversal", "reversalRead", "reversalVerify",
               "reversalApply"}

CountedOnce(p) ==
    sent[p] = {} =>
        /\ status[p] # "reversed"
        /\ credits[p] = IF status[p] = "credited" THEN 1 ELSE 0
        /\ \A h \in Handlers : handler[h].pay = p => handler[h].at \notin HookPlaces

CreditsCounted == \A p \in Payments : CountedOnce(p)

\* What follows: only a payment Chapa notified us of can be credited twice.
UnnotifiedCreditedOnce ==
    \A p \in Payments : sent[p] = {} => credits[p] <= 1

\* No payment is created with a credit.
LEMMA InitCounted == PaymentsInit => CreditsCounted
  BY IdleHandler, PaymentsAssumption
     DEF PaymentsInit, CreditsCounted, CountedOnce, HookPlaces

\* A call that stays idle, or goes where no webhook leads, stays away.
LEMMA SameCounted ==
  ASSUME PaymentRowsTypeOK, NEW p \in Payments, CountedOnce(p),
         sent[p] \subseteq sent'[p],
         status'[p] # "reversed" \/ status'[p] = status[p],
         \/ credits'[p] = credits[p] /\ (status'[p] = "credited" <=> status[p] = "credited")
         \/ credits'[p] = credits[p] + 1 /\ status'[p] = "credited" /\ status[p] # "credited",
         \A h \in Handlers : \/ handler'[h] = handler[h]
                             \/ handler'[h].pay # p
                             \/ handler'[h].at \notin HookPlaces
                             \/ sent'[p] # {}
  PROVE  CountedOnce(p)'
<1>1. credits[p] \in Nat
  BY DEF PaymentRowsTypeOK
<1>2. sent'[p] = {} => sent[p] = {}
  OBVIOUS
<1> QED
  BY <1>1, <1>2 DEF CountedOnce

\* Chapa, the checkout and time leave the counted credits alone.
LEMMA WorldCounted ==
  ASSUME PaymentRowsTypeOK, CreditsCounted, NEW p \in Payments, NEW q \in Payments,
         \/ Create(q) \/ CheckoutOpens(q) \/ CheckoutFails(q) \/ Age(q)
         \/ CustomerPays(q) \/ CustomerPaysOther(q) \/ CustomerFails(q)
         \/ CustomerRetries(q) \/ ChapaRefunds(q)
  PROVE  CountedOnce(p)'
<1>1. UNCHANGED <<handler, credits>>
  BY DEF Create, CheckoutOpens, CheckoutFails, Age, CustomerPays, CustomerFails,
         CustomerPaysOther, CustomerRetries, ChapaRefunds, ChapaMoves
<1>2. sent[p] \subseteq sent'[p]
  BY DEF Create, CheckoutOpens, CheckoutFails, Age, CustomerPays, CustomerFails,
         CustomerPaysOther, CustomerRetries, ChapaRefunds, ChapaMoves,
         PaymentRowsTypeOK
<1>3. /\ status'[p] # "reversed" \/ status'[p] = status[p]
      /\ status'[p] = "credited" <=> status[p] = "credited"
  BY DEF Create, CheckoutOpens, CheckoutFails, Age, CustomerPays, CustomerFails,
         CustomerPaysOther, CustomerRetries, ChapaRefunds, ChapaMoves,
         SetPayment, PaymentRowsTypeOK
<1> QED
  BY <1>1, <1>2, <1>3, SameCounted DEF CreditsCounted

\* A call of a payment is at the places of webhooks only if one was sent.
LEMMA HooksAreSent ==
  ASSUME PaymentRowsTypeOK, CreditsCounted, NEW h \in Handlers,
         handler[h].at \in HookPlaces
  PROVE  handler[h].pay \in Payments /\ sent[handler[h].pay] # {}
<1>1. handler[h].pay \in Payments
  BY DEF HookPlaces, PaymentRowsTypeOK, PaymentCalls, Idle
<1> QED
  BY <1>1 DEF CreditsCounted, CountedOnce

\* What a webhook's calls do is never counted.
LEMMA HookCounted ==
  ASSUME PaymentRowsTypeOK, CreditsCounted, NEW h \in Handlers, NEW p \in Payments,
         RecordHook(h) \/ ReversalStep(h)
  PROVE  CountedOnce(p)'
<1> DEFINE r == handler[h].pay
<1>1. handler[h].at \in HookPlaces
  BY DEF RecordHook, ReversalStep, ReversalRead, ReversalVerify, ReversalCloses,
         ReversalDebits, ReversalLost, At, HookPlaces
<1>2. r \in Payments /\ sent[r] # {}
  BY <1>1, HooksAreSent
<1>3. sent' = sent /\ credits' = credits
  BY DEF RecordHook, ReversalStep, ReversalRead, ReversalVerify, ReversalCloses,
         ReversalDebits, ReversalLost
<1>4. p # r => status'[p] = status[p]
  BY DEF RecordHook, ReversalStep, ReversalRead, ReversalVerify, ReversalCloses,
         ReversalDebits, ReversalLost, SetPayment, PaymentRowsTypeOK
<1>5. ASSUME NEW g \in Handlers, handler'[g] # handler[g]
      PROVE  handler'[g].pay = r \/ handler'[g].pay \notin Payments
  BY <1>5, PaymentsAssumption
     DEF RecordHook, ReversalStep, ReversalRead, ReversalVerify, ReversalCloses,
         ReversalDebits, ReversalLost, GoTo, Done, Idle, PaymentRowsTypeOK,
         PaymentCalls
<1>6. CASE p = r
  BY <1>2, <1>3, <1>6 DEF CountedOnce
<1>7. CASE p # r
  BY <1>3, <1>4, <1>5, <1>7, SameCounted DEF CreditsCounted
<1> QED
  BY <1>6, <1>7

\* A settle credits a row that was not credited, and closes no credited one.
LEMMA SettleCounted ==
  ASSUME PaymentRowsTypeOK, CreditsCounted, NEW h \in Handlers, NEW p \in Payments,
         SettleStep(h) \/ HandlerFails(h)
  PROVE  CountedOnce(p)'
<1>1. sent' = sent
  BY DEF SettleStep, HandlerFails, ReadRow, Verify, CloseFailed, ClaimCredit,
         ClaimLost, Expire
<1>2. ASSUME NEW g \in Handlers, handler'[g] # handler[g]
      PROVE  handler'[g].at \notin HookPlaces
  <2>1. ASSUME NEW to \in {"claim", "close", "expire", "verify"}, GoTo(h, to)
        PROVE  handler'[g].at \notin HookPlaces
    BY <1>2, <2>1 DEF GoTo, HookPlaces, PaymentRowsTypeOK, PaymentCalls, Idle
  <2>2. Done(h) => handler'[g].at \notin HookPlaces
    BY <1>2 DEF Done, HookPlaces, PaymentRowsTypeOK, Idle
  <2> QED
    BY <2>1, <2>2 DEF SettleStep, HandlerFails, ReadRow, Verify, CloseFailed,
       ClaimCredit, ClaimLost, Expire, SettleDone
<1>3. CASE ClaimCredit(h)
  <2>1. PICK r \in Payments : r = handler[h].pay
    BY <1>3, BusyCall DEF ClaimCredit, Places
  <2>2. /\ status' = [status EXCEPT ![r] = "credited"]
        /\ credits' = [credits EXCEPT ![r] = @ + 1]
        /\ status[r] # "credited"
    BY <1>3, <2>1 DEF ClaimCredit, SetPayment, CREDITABLE
  <2> QED
    BY <1>1, <1>2, <2>2, SameCounted DEF CreditsCounted, PaymentRowsTypeOK
<1>4. CASE ~ClaimCredit(h)
  <2>1. credits' = credits
    BY <1>4 DEF SettleStep, HandlerFails, ReadRow, Verify, CloseFailed,
       ClaimLost, Expire
  <2>2. /\ status'[p] # "reversed" \/ status'[p] = status[p]
        /\ status'[p] = "credited" <=> status[p] = "credited"
    BY <1>4 DEF SettleStep, HandlerFails, ReadRow, Verify, CloseFailed,
       ClaimLost, Expire, SetPayment, CREDITABLE, PaymentRowsTypeOK
  <2> QED
    BY <1>1, <1>2, <2>1, <2>2, SameCounted DEF CreditsCounted
<1> QED
  BY <1>3, <1>4

\* A call starts on a webhook only if one was sent.
LEMMA StartCounted ==
  ASSUME PaymentRowsTypeOK, CreditsCounted, NEW h \in Handlers,
         NEW p \in Payments, NEW q \in Payments,
         HookArrives(h, q) \/ Reconcile(h, q) \/ SweepPicks(h, q)
  PROVE  CountedOnce(p)'
<1>1. UNCHANGED <<sent, status, credits>>
  BY DEF HookArrives, Reconcile, SweepPicks, Start
<1>2. ASSUME NEW g \in Handlers, handler'[g] # handler[g]
      PROVE  \/ handler'[g].pay # p
             \/ handler'[g].at \notin HookPlaces
             \/ sent'[p] # {}
  BY <1>1, <1>2 DEF HookArrives, Reconcile, SweepPicks, Start, HookPlaces,
     PaymentRowsTypeOK
<1> QED
  BY <1>1, <1>2, SameCounted DEF CreditsCounted

\* All of it is inductive, given the types.
LEMMA StepCounted ==
  ASSUME PaymentRowsTypeOK, CreditsCounted, [PaymentsNext]_paymentsAndBooks
  PROVE  CreditsCounted'
<1> SUFFICES ASSUME NEW p \in Payments PROVE CountedOnce(p)'
  BY DEF CreditsCounted
<1>1. CASE UNCHANGED paymentVars
  BY <1>1 DEF paymentVars, CreditsCounted, CountedOnce
<1> QED
  BY <1>1, WorldCounted, StartCounted, HookCounted, SettleCounted
     DEF PaymentsNext, DepositsNext, Spend, paymentsAndBooks

\* Between them the customer's reconcile calls and the sweep credit a payment
\* once, however many run: a second credit needs one of Chapa's webhooks.
THEOREM PaymentsUnnotifiedOnce == PaymentsSpec => []UnnotifiedCreditedOnce
<1>1. CreditsCounted => UnnotifiedCreditedOnce
  BY DEF CreditsCounted, CountedOnce, UnnotifiedCreditedOnce
<1> QED
  BY <1>1, PaymentsInvariant, InitCounted, StepCounted, PTL DEF Typed, PaymentsSpec

-----------------------------------------------------------------------------
(* Types. *)

\* A row is a record of the fields the code reads.
LEMMA RowTyped ==
  /\ NoPayout.status = "none"
  /\ \A s \in {"requested", "rejected"}, c \in Days, d \in Days :
       LET r == [NoPayout EXCEPT !.status = s, !.created = c, !.checked = d]
       IN  r \in PayoutRows /\ r.status = s
<1>1. 0 \in Days
  BY BooksAssumption DEF Days
<1> QED
  BY <1>1 DEF NoPayout, PayoutRows

\* A call that is about to route a payout has inserted its row.
Routes(i) == confirm[i] = "route" => ~Is(i, "none")
RoutesRow == \A i \in Intents : Routes(i)

\* Initially everything has its type.
LEMMA PayoutsInitTyped == PayoutsInit => PayoutsTypeOK
<1> SUFFICES ASSUME PayoutsInit PROVE PayoutsTypeOK
  OBVIOUS
<1>1. BooksTypeOK
  BY BooksInitType DEF PayoutsInit
<1>2. PayoutRowsTypeOK
  BY BooksAssumption DEF PayoutsInit, PayoutRowsTypeOK, Days
<1> QED
  BY <1>1, <1>2 DEF PayoutsTypeOK

\* Statuses of rows that exist.
LEMMA ExistingRow ==
  ASSUME PayoutRowsTypeOK, NEW i \in Intents, ~Is(i, "none")
  PROVE  payout[i] \in PayoutRows
BY RowTyped DEF PayoutRowsTypeOK, Is

\* A status changes.
LEMMA SetPayoutTyped ==
  ASSUME PayoutRowsTypeOK, NEW i \in Intents, ~Is(i, "none"),
         NEW s \in {"processing", "settled", "rejected"}, SetPayout(i, s)
  PROVE  payout' \in [Intents -> {NoPayout} \cup PayoutRows]
<1>1. payout[i] \in PayoutRows
  BY ExistingRow
<1>2. [payout[i] EXCEPT !.status = s] \in PayoutRows
  BY <1>1 DEF PayoutRows
<1> QED
  BY <1>2 DEF PayoutRowsTypeOK, SetPayout

\* A row is inserted.
LEMMA InsertTyped ==
  ASSUME BooksTypeOK, PayoutRowsTypeOK, NEW i \in Intents,
         NEW s \in {"requested", "rejected"}, InsertRow(i, s)
  PROVE  /\ payout' \in [Intents -> {NoPayout} \cup PayoutRows]
         /\ born' \in Seq(Intents)
<1>1. since[i] \in Days /\ today \in Days
  BY DEF BooksTypeOK, PayoutRowsTypeOK
<1>2. payout[i] = NoPayout
  BY DEF InsertRow, KeyTaken, Is, PayoutRowsTypeOK, PayoutRows
<1>3. born' \in Seq(Intents)
  BY DEF InsertRow, PayoutRowsTypeOK
<1>4. payout' \in [Intents -> {NoPayout} \cup PayoutRows]
  BY <1>1, RowTyped DEF InsertRow, PayoutRowsTypeOK
<1> QED
  BY <1>3, <1>4

\* The steps of a request keep the types.
LEMMA RequestType ==
  ASSUME PayoutsTypeOK, NEW i \in Intents,
         \/ CreateIntent(i) \/ IssueCode(i) \/ CodeExpires(i) \/ Confirm(i)
         \/ BeginRequest(i) \/ RequestFails(i)
  PROVE  PayoutsTypeOK'
<1> USE DEF PayoutsTypeOK
<1>1. UNCHANGED sharedVars
  BY DEF CreateIntent, IssueCode, CodeExpires, Confirm, BeginRequest,
         RequestFails
<1>2. BooksTypeOK'
  BY <1>1, SameBooksType
<1>3. CASE CreateIntent(i)
  BY <1>2, <1>3 DEF CreateIntent, PayoutRowsTypeOK
<1>4. CASE IssueCode(i) \/ CodeExpires(i) \/ Confirm(i)
  BY <1>2, <1>4 DEF IssueCode, CodeExpires, Confirm, Advance, PayoutRowsTypeOK
<1>5. CASE BeginRequest(i)
  <2>1. today \in Days
    BY DEF BooksTypeOK
  <2>2. since' \in [Intents -> Days]
    BY <1>5, <2>1 DEF BeginRequest, PayoutRowsTypeOK
  <2> QED
    BY <1>2, <1>5, <2>2 DEF BeginRequest, Advance, PayoutRowsTypeOK
<1>6. CASE RequestFails(i)
  BY <1>2, <1>6 DEF RequestFails, Advance, PayoutRowsTypeOK
<1> QED
  BY <1>3, <1>4, <1>5, <1>6

\* So do those that insert a row.
LEMMA InsertionType ==
  ASSUME PayoutsTypeOK, NEW i \in Intents, RefuseRequest(i) \/ HoldRequest(i)
  PROVE  PayoutsTypeOK'
<1> USE DEF PayoutsTypeOK
<1>1. CASE RefuseRequest(i)
  <2>1. BooksTypeOK'
    BY <1>1, SameBooksType DEF RefuseRequest
  <2> QED
    BY <1>1, <2>1, InsertTyped
       DEF RefuseRequest, Advance, PayoutRowsTypeOK
<1>2. CASE HoldRequest(i)
  <2>1. Customer(i) \in Users /\ AmountOf(i) \in Nat
    BY PayoutsAssumption DEF Customer, AmountOf
  <2>2. BooksTypeOK'
    BY <1>2, <2>1 DEF HoldRequest, BooksTypeOK, metalBooks
  <2> QED
    BY <1>2, <2>2, InsertTyped DEF HoldRequest, Advance, PayoutRowsTypeOK
<1> QED
  BY <1>1, <1>2

\* So does approval.
LEMMA ApprovalType ==
  ASSUME PayoutsTypeOK, RoutesRow, NEW i \in Intents,
         \/ Route(i) \/ StaffApprove(i)
         \/ \E who \in {"auto", "staff"} : Claim(i, who) \/ ClaimFails(i, who)
  PROVE  PayoutsTypeOK'
<1> USE DEF PayoutsTypeOK
<1>1. UNCHANGED sharedVars
  BY DEF Route, StaffApprove, Claim, ClaimFails
<1>2. BooksTypeOK'
  BY <1>1, SameBooksType
<1>3. CASE Route(i)
  <2>1. today \in Days
    BY DEF BooksTypeOK
  <2>2. payout[i] \in PayoutRows
    BY <1>3, ExistingRow DEF Route, RoutesRow, Routes
  <2>3. [payout[i] EXCEPT !.routed = today] \in PayoutRows
    BY <2>1, <2>2 DEF PayoutRows
  <2>4. payout' \in [Intents -> {NoPayout} \cup PayoutRows]
    BY <1>3, <2>3 DEF Route, PayoutRowsTypeOK
  <2> QED
    BY <1>2, <1>3, <2>4 DEF Route, Advance, PayoutRowsTypeOK
<1>4. CASE StaffApprove(i)
  BY <1>2, <1>4 DEF StaffApprove, PayoutRowsTypeOK
<1>5. ASSUME NEW who \in {"auto", "staff"}, ClaimFails(i, who)
      PROVE  PayoutRowsTypeOK'
  BY <1>5 DEF ClaimFails, PayoutRowsTypeOK
<1>6. ASSUME NEW who \in {"auto", "staff"}, Claim(i, who)
      PROVE  PayoutRowsTypeOK'
  <2>1. payout[i] \in PayoutRows
    BY <1>6, ExistingRow DEF Claim, Is
  <2>2. (who = "auto") \in BOOLEAN
    OBVIOUS
  <2>3. \A b \in BOOLEAN :
          [payout[i] EXCEPT !.status = "processing", !.auto = b] \in PayoutRows
    BY <2>1 DEF PayoutRows
  <2>4. payout' \in [Intents -> {NoPayout} \cup PayoutRows]
    BY <1>6, <2>2, <2>3 DEF Claim, PayoutRowsTypeOK
  <2> QED
    BY <1>6, <2>4 DEF Claim, PayoutRowsTypeOK
<1> QED
  BY <1>2, <1>3, <1>4, <1>5, <1>6

\* So do the transfer and Chapa's answers.
LEMMA TransferType ==
  ASSUME PayoutsTypeOK, NEW i \in Intents,
         \/ Send(i) \/ ChapaStep(i) \/ SendAnswered(i) \/ SenderStops(i)
         \/ VerifyTransfer(i) \/ SweepVerify(i)
  PROVE  PayoutsTypeOK'
<1> USE DEF PayoutsTypeOK
<1>1. UNCHANGED sharedVars
  BY DEF Send, ChapaStep, ChapaDecides, SendAnswered, SenderStops, VerifyTransfer,
         SweepVerify
<1>2. BooksTypeOK'
  BY <1>1, SameBooksType
<1>3. ASSUME NEW a \in {"success", "failed", "refused"}, Holds(i, a)
      PROVE  answers' \in [Intents -> SUBSET {"success", "failed", "refused"}]
  BY <1>3 DEF Holds, PayoutRowsTypeOK
<1>4. CASE Send(i)
  BY <1>2, <1>4 DEF Send, PayoutRowsTypeOK
<1>5. CASE ChapaStep(i)
  <2>1. ASSUME NEW from, NEW to \in {"queued", "refused", "success", "failed"},
               ChapaDecides(i, from, to)
        PROVE  PayoutsTypeOK'
    BY <1>2, <2>1 DEF ChapaDecides, PayoutRowsTypeOK
  <2> QED
    BY <1>5, <2>1 DEF ChapaStep
<1>6. CASE SendAnswered(i)
  <2>1. answers' \in [Intents -> SUBSET {"success", "failed", "refused"}]
    BY <1>3, <1>6 DEF SendAnswered, PayoutRowsTypeOK
  <2> QED
    BY <1>2, <1>6, <2>1 DEF SendAnswered, PayoutRowsTypeOK
<1>7. CASE SenderStops(i)
  BY <1>2, <1>7 DEF SenderStops, PayoutRowsTypeOK
<1>8. CASE VerifyTransfer(i) \/ SweepVerify(i)
  <2>1. answers' \in [Intents -> SUBSET {"success", "failed", "refused"}]
    BY <1>3, <1>8 DEF VerifyTransfer, SweepVerify
  <2> QED
    BY <1>2, <1>8, <2>1 DEF VerifyTransfer, SweepVerify, PayoutRowsTypeOK
<1> QED
  BY <1>4, <1>5, <1>6, <1>7, <1>8

\* So do settlements and refunds.
LEMMA ResolutionType ==
  ASSUME PayoutsTypeOK, NEW i \in Intents,
         SettleLedger(i) \/ RefundAndReject(i) \/ StaffReject(i)
  PROVE  PayoutsTypeOK'
<1> USE DEF PayoutsTypeOK
<1>1. Customer(i) \in Users /\ AmountOf(i) \in Nat
  BY PayoutsAssumption DEF Customer, AmountOf
<1>2. CASE SettleLedger(i)
  <2>1. BooksTypeOK'
    BY <1>1, <1>2 DEF SettleLedger, BooksTypeOK, metalBooks
  <2>2. ~Is(i, "none")
    BY <1>2 DEF SettleLedger, Is
  <2> QED
    BY <1>2, <2>1, <2>2, SetPayoutTyped DEF SettleLedger, PayoutRowsTypeOK
<1>3. ASSUME NEW s \in {"requested", "processing"}, RefundIfStatus(i, s)
      PROVE  PayoutsTypeOK'
  <2>1. BooksTypeOK'
    BY <1>1, <1>3 DEF RefundIfStatus, BooksTypeOK, metalBooks
  <2>2. ~Is(i, "none")
    BY <1>3 DEF RefundIfStatus, Is
  <2> QED
    BY <1>3, <2>1, <2>2, SetPayoutTyped DEF RefundIfStatus, PayoutRowsTypeOK
<1> QED
  BY <1>2, <1>3 DEF RefundAndReject, StaffReject

\* So does every step.
LEMMA PayoutsStepType ==
  PayoutsTypeOK /\ RoutesRow /\ [PayoutsNext]_payoutsAndBooks => PayoutsTypeOK'
<1> SUFFICES ASSUME PayoutsTypeOK, RoutesRow, [PayoutsNext]_payoutsAndBooks
             PROVE  PayoutsTypeOK'
  OBVIOUS
<1>1. ASSUME UNCHANGED payoutVars PROVE PayoutRowsTypeOK'
  BY <1>1 DEF PayoutsTypeOK, PayoutRowsTypeOK, payoutVars
<1>2. ASSUME NEW i \in Intents, PayoutStep(i) PROVE PayoutsTypeOK'
  BY <1>2, RequestType, InsertionType, ApprovalType, TransferType,
     ResolutionType DEF PayoutStep
<1>3. CASE SharedNext /\ UNCHANGED payoutVars
  BY <1>1, <1>3, SharedType DEF PayoutsTypeOK
<1>4. CASE UNCHANGED payoutsAndBooks
  BY <1>1, <1>4, SameBooksType DEF PayoutsTypeOK, payoutsAndBooks
<1> QED
  BY <1>2, <1>3, <1>4 DEF PayoutsNext

-----------------------------------------------------------------------------
(* The life of a payout.  What is claimed of a row that is settled,         *)
(* rejected or sent does not follow from its status alone: it rests on      *)
(* where its sender is, on what Chapa knows, and on the answers some call   *)
(* still has in hand.                                                       *)

\* Nothing was sent, asked or heard for a payout nobody has claimed.
Unsent(i) ==
    Is(i, "none") \/ Is(i, "requested") =>
        /\ sender[i] = "idle" /\ transfer[i] = "none"
        /\ posts[i] = 0 /\ answers[i] = {}

\* Whoever is about to send is the first, and the money is not back yet.
SendsFirst(i) ==
    /\ sender[i] = "sending" => /\ posts[i] = 0 /\ transfer[i] = "none"
                                /\ ~Is(i, "rejected")
    /\ posts[i] <= 1

\* An answer that some call has in hand still holds when it is applied.
AnswersHold(i) ==
    /\ "failed" \in answers[i] => transfer[i] = "failed"
    /\ "refused" \in answers[i] => transfer[i] = "refused"
    /\ "success" \in answers[i] => settings.test \/ transfer[i] = "success"

\* How the row was resolved agrees with the transfer.
Resolved(i) ==
    /\ Is(i, "rejected") => transfer[i] \in {"none", "refused", "failed"}
    /\ Is(i, "settled") => settings.test \/ transfer[i] = "success"

Sound(i) ==
    /\ Unsent(i) /\ SendsFirst(i) /\ AnswersHold(i) /\ Resolved(i) /\ Routes(i)

PayoutsSound == \A i \in Intents : Sound(i)

\* Nothing has happened yet.
LEMMA PayoutsInitSound == PayoutsInit => PayoutsSound
  BY DEF PayoutsInit, PayoutsSound, Sound, Unsent, SendsFirst, AnswersHold,
         Resolved, Routes, Is, NoPayout

\* What Sound reads of a payout.
SameRow(i) ==
    /\ payout'[i].status = payout[i].status
    /\ confirm'[i] = confirm[i] /\ sender'[i] = sender[i]
    /\ transfer'[i] = transfer[i] /\ posts'[i] = posts[i]
    /\ answers'[i] = answers[i] /\ settings' = settings

\* What the daily limits read besides.
Kept(i) == payout'[i] = payout[i] /\ claimers'[i] = claimers[i]

\* A payout no step touches stays sound.
LEMMA SameSound ==
  ASSUME NEW i \in Intents, Sound(i), SameRow(i)
  PROVE  Sound(i)'
BY DEF Sound, SameRow, Unsent, SendsFirst, AnswersHold, Resolved, Routes, Is

\* A step of one payout touches no other.
LEMMA OthersSame ==
  ASSUME PayoutRowsTypeOK, NEW i \in Intents, PayoutStep(i),
         NEW j \in Intents \ {i}
  PROVE  SameRow(j) /\ Kept(j)
<1> USE DEF PayoutRowsTypeOK, SameRow, Kept, Advance, SetPayout, Holds
<1>1. CASE \/ CreateIntent(i) \/ IssueCode(i) \/ CodeExpires(i) \/ Confirm(i)
           \/ BeginRequest(i) \/ RequestFails(i)
  BY <1>1 DEF CreateIntent, IssueCode, CodeExpires, Confirm, BeginRequest,
              RequestFails
<1>2. CASE RefuseRequest(i) \/ HoldRequest(i)
  BY <1>2 DEF RefuseRequest, HoldRequest, InsertRow
<1>3. CASE Route(i) \/ StaffApprove(i)
  BY <1>3 DEF Route, StaffApprove
<1>4. ASSUME NEW who \in {"auto", "staff"}, Claim(i, who) \/ ClaimFails(i, who)
      PROVE  SameRow(j) /\ Kept(j)
  BY <1>4 DEF Claim, ClaimFails
<1>5. CASE Send(i) \/ SendAnswered(i) \/ SenderStops(i)
  BY <1>5 DEF Send, SendAnswered, SenderStops
<1>6. ASSUME NEW from, NEW to, ChapaDecides(i, from, to) PROVE SameRow(j) /\ Kept(j)
  BY <1>6 DEF ChapaDecides
<1>7. CASE VerifyTransfer(i) \/ SweepVerify(i)
  BY <1>7 DEF VerifyTransfer, SweepVerify
<1>8. CASE SettleLedger(i)
  BY <1>8 DEF SettleLedger
<1>9. ASSUME NEW from, RefundIfStatus(i, from) PROVE SameRow(j) /\ Kept(j)
  BY <1>9 DEF RefundIfStatus
<1> QED
  BY <1>1, <1>2, <1>3, <1>4, <1>5, <1>6, <1>7, <1>8, <1>9
     DEF PayoutStep, ChapaStep, RefundAndReject, StaffReject

\* The request, its hold and its approval: the row appears and is claimed
\* before anything is sent.
LEMMA RequestSound ==
  ASSUME PayoutRowsTypeOK, NEW i \in Intents, Sound(i),
         \/ CreateIntent(i) \/ IssueCode(i) \/ CodeExpires(i) \/ Confirm(i)
         \/ BeginRequest(i) \/ RefuseRequest(i) \/ HoldRequest(i)
         \/ RequestFails(i) \/ Route(i) \/ StaffApprove(i)
         \/ \E who \in {"auto", "staff"} : Claim(i, who) \/ ClaimFails(i, who)
  PROVE  Sound(i)'
<1> USE DEF PayoutRowsTypeOK, Advance
<1>1. CASE CreateIntent(i) \/ IssueCode(i) \/ CodeExpires(i) \/ StaffApprove(i)
  BY <1>1, SameSound
     DEF CreateIntent, IssueCode, CodeExpires, StaffApprove, SameRow
<1>2. CASE Confirm(i) \/ BeginRequest(i) \/ RequestFails(i) \/ Route(i)
  <2>1. /\ sender'[i] = sender[i] /\ transfer'[i] = transfer[i]
        /\ posts'[i] = posts[i] /\ answers'[i] = answers[i]
        /\ settings' = settings /\ confirm'[i] # "route"
    BY <1>2 DEF Confirm, BeginRequest, RequestFails, Route
  <2>2. payout'[i].status = payout[i].status
    BY <1>2 DEF Confirm, BeginRequest, RequestFails, Route, PayoutRows, NoPayout
  <2> QED
    BY <2>1, <2>2 DEF Sound, Unsent, SendsFirst, AnswersHold, Resolved, Routes, Is
<1>3. ASSUME NEW s \in {"requested", "rejected"}, InsertRow(i, s),
             UNCHANGED <<settings, sender, transfer, posts, answers>>
      PROVE  Sound(i)'
  <2>1. Is(i, "none")
    BY <1>3 DEF InsertRow, KeyTaken
  <2>2. payout'[i].status = s
    BY <1>3 DEF InsertRow, NoPayout
  <2> QED
    BY <1>3, <2>1, <2>2
       DEF Sound, Unsent, SendsFirst, AnswersHold, Resolved, Routes, Is
<1>4. ASSUME NEW who \in {"auto", "staff"}, ClaimFails(i, who)
      PROVE  Sound(i)'
  BY <1>4, SameSound DEF ClaimFails, SameRow
<1>5. ASSUME NEW who \in {"auto", "staff"}, Claim(i, who)
      PROVE  Sound(i)'
  <2>1. /\ payout'[i].status = "processing" /\ sender'[i] = "sending"
        /\ UNCHANGED <<settings, transfer, posts, answers>>
        /\ Is(i, "requested")
    BY <1>5 DEF Claim, Is
  <2> QED
    BY <2>1 DEF Sound, Unsent, SendsFirst, AnswersHold, Resolved, Routes, Is
<1> QED
  BY <1>1, <1>2, <1>3, <1>4, <1>5 DEF RefuseRequest, HoldRequest

\* The transfer and what Chapa answers.
LEMMA TransferSound ==
  ASSUME PayoutRowsTypeOK, NEW i \in Intents, Sound(i),
         \/ Send(i) \/ ChapaStep(i) \/ SendAnswered(i) \/ SenderStops(i)
         \/ VerifyTransfer(i) \/ SweepVerify(i)
  PROVE  Sound(i)'
<1> USE DEF PayoutRowsTypeOK, Sound, Unsent, SendsFirst, AnswersHold, Resolved,
            Routes, Is
<1>1. CASE Send(i)
  BY <1>1 DEF Send
<1>2. CASE ChapaStep(i)
  <2>1. PICK from \in {"inflight", "queued"},
             to \in {"queued", "refused", "success", "failed"} :
               ChapaDecides(i, from, to)
    BY <1>2 DEF ChapaStep
  <2> QED
    BY <2>1 DEF ChapaDecides
<1>3. CASE SendAnswered(i)
  BY <1>3 DEF SendAnswered, Holds
<1>4. CASE SenderStops(i)
  BY <1>4 DEF SenderStops
<1>5. CASE VerifyTransfer(i) \/ SweepVerify(i)
  <2>1. PICK a \in {"success", "failed"} : ClearAnswer(i, a) /\ Holds(i, a)
    BY <1>5 DEF VerifyTransfer, SweepVerify
  <2>2. /\ Is(i, "processing")
        /\ UNCHANGED <<settings, payout, confirm, sender, transfer, posts>>
    BY <1>5 DEF VerifyTransfer, SweepVerify, Swept
  <2> QED
    BY <2>1, <2>2 DEF ClearAnswer, Holds
<1> QED
  BY <1>1, <1>2, <1>3, <1>4, <1>5

\* Settlement and refund apply an answer that still holds.
LEMMA ResolutionSound ==
  ASSUME PayoutRowsTypeOK, NEW i \in Intents, Sound(i),
         SettleLedger(i) \/ RefundAndReject(i) \/ StaffReject(i)
  PROVE  Sound(i)'
<1> USE DEF PayoutRowsTypeOK, Sound, Unsent, SendsFirst, AnswersHold, Resolved,
            Routes, Is, SetPayout
<1>1. CASE SettleLedger(i)
  BY <1>1 DEF SettleLedger
<1>2. CASE RefundAndReject(i)
  <2>1. transfer[i] \in {"failed", "refused"}
    BY <1>2 DEF RefundAndReject
  <2> QED
    BY <1>2, <2>1 DEF RefundAndReject, RefundIfStatus
<1>3. CASE StaffReject(i)
  BY <1>3 DEF StaffReject, RefundIfStatus
<1> QED
  BY <1>1, <1>2, <1>3

\* Soundness is inductive, given the types.
LEMMA PayoutsStepSound ==
  PayoutsTypeOK /\ PayoutsSound /\ [PayoutsNext]_payoutsAndBooks
    => PayoutsSound'
<1> SUFFICES ASSUME PayoutsTypeOK, PayoutsSound, [PayoutsNext]_payoutsAndBooks,
                    NEW j \in Intents
             PROVE  Sound(j)'
  BY DEF PayoutsSound
<1>1. PayoutRowsTypeOK /\ Sound(j)
  BY DEF PayoutsTypeOK, PayoutsSound
<1>2. CASE PayoutStep(j)
  BY <1>1, <1>2, RequestSound, TransferSound, ResolutionSound DEF PayoutStep
<1>3. ASSUME NEW i \in Intents \ {j}, PayoutStep(i) PROVE Sound(j)'
  BY <1>1, <1>3, OthersSame, SameSound
<1>4. CASE UNCHANGED payoutVars
  BY <1>1, <1>4, SameSound DEF payoutVars, SameRow
<1> QED
  BY <1>2, <1>3, <1>4 DEF PayoutsNext, payoutsAndBooks

\* With the types, it holds in every behaviour.
LEMMA PayoutsInvariant == PayoutsSpec => [](PayoutsTypeOK /\ PayoutsSound)
<1>1. PayoutsSound => RoutesRow
  BY DEF PayoutsSound, Sound, RoutesRow
<1> QED
  BY <1>1, PayoutsInitTyped, PayoutsStepType, PayoutsInitSound, PayoutsStepSound, PTL DEF PayoutsSpec

\* Balances, rows, codes, calls and answers keep their types.
THEOREM PayoutsTypeCorrect == PayoutsSpec => []PayoutsTypeOK
  BY PayoutsInvariant, PTL

\* The instant path and finance never both send a payout, and no retry,
\* webhook or sweep sends it again.
THEOREM PayoutsSentOnce == PayoutsSpec => []SentAtMostOnce
<1>1. PayoutsSound => SentAtMostOnce
  BY DEF PayoutsSound, Sound, SendsFirst, SentAtMostOnce
<1> QED
  BY <1>1, PayoutsInvariant, PTL

\* No withdrawal is both paid and refunded, whoever resolves it with whatever
\* answer it has had in hand for how long.
THEOREM PayoutsNotRefundedToo == PayoutsSpec => []NeverPaidAndRefunded
<1>1. PayoutsSound => NeverPaidAndRefunded
  BY DEF PayoutsSound, Sound, SendsFirst, Resolved, NeverPaidAndRefunded
<1> QED
  BY <1>1, PayoutsInvariant, PTL

\* A payout with a live key is settled only after Chapa reported success.
THEOREM PayoutsSettledPaid == PayoutsSpec => []SettledOnlyIfPaid
<1>1. PayoutsSound => SettledOnlyIfPaid
  BY DEF PayoutsSound, Sound, Resolved, SettledOnlyIfPaid
<1> QED
  BY <1>1, PayoutsInvariant, PTL

-----------------------------------------------------------------------------
(* The hold account. *)

\* Payouts whose money is on hold.
HeldPayouts == {i \in Intents : Is(i, "requested") \/ Is(i, "processing")}

\* The property in these terms.
LEMMA HoldIsSum == HoldMatchesPayouts <=> payoutHold = SumOf(HeldPayouts)
  BY DEF HoldMatchesPayouts, HeldPayouts

\* Amounts are natural numbers, and so are their sums.
LEMMA AmountsAdd ==
  ASSUME NEW is \in SUBSET Intents
  PROVE  /\ SumOf(is) \in Nat
         /\ \A i \in Intents \ is :
              /\ AmountOf(i) \in Nat
              /\ SumOf(is \cup {i}) = SumOf(is) + AmountOf(i)
         /\ \A js \in SUBSET is : SumOf(js) <= SumOf(is)
<1> DEFINE f == [i \in Intents |-> AmountOf(i)]
<1>1. \A i \in Intents : f[i] \in Nat /\ f[i] = AmountOf(i)
  BY PayoutsAssumption DEF AmountOf
<1>2. IsFiniteSet(is)
  BY PayoutsAssumption, FS_Subset
<1> HIDE DEF f
<1>3. SumOver(f, is) \in Nat
  BY <1>1, <1>2, SumType
<1>4. ASSUME NEW i \in Intents \ is
      PROVE  SumOver(f, is \cup {i}) = SumOver(f, is) + f[i]
  BY <1>1, <1>2, SumAdd
<1>5. ASSUME NEW js \in SUBSET is PROVE SumOver(f, js) <= SumOver(f, is)
  BY <1>1, <1>2, SumSubset
<1>6. \A js : SumOf(js) = SumOver(f, js)
  BY DEF SumOf, f
<1> QED
  BY <1>1, <1>3, <1>4, <1>5, <1>6

\* Nothing is on hold at the start.
LEMMA InitHold == PayoutsInit => HoldMatchesPayouts
<1> SUFFICES ASSUME PayoutsInit PROVE HoldMatchesPayouts
  OBVIOUS
<1>1. payoutHold = 0
  BY DEF PayoutsInit, BooksInit
<1>2. HeldPayouts = {}
  BY DEF PayoutsInit, HeldPayouts, Is, NoPayout
<1>3. SumOf({}) = 0
  BY SumEmpty DEF SumOf
<1> QED
  BY <1>1, <1>2, <1>3, HoldIsSum

\* The hold follows the payouts on hold if both stay, if one payout joins and
\* brings its cents, or if one leaves and takes them.
LEMMA HoldFollows ==
  ASSUME HoldMatchesPayouts, payoutHold \in Int,
         \/ UNCHANGED payoutHold /\ HeldPayouts' = HeldPayouts
         \/ \E i \in Intents \ HeldPayouts :
              /\ payoutHold' = payoutHold + AmountOf(i)
              /\ HeldPayouts' = HeldPayouts \cup {i}
         \/ \E i \in HeldPayouts :
              /\ payoutHold' = payoutHold - AmountOf(i)
              /\ HeldPayouts' = HeldPayouts \ {i}
  PROVE  HoldMatchesPayouts'
<1> DEFINE after == HeldPayouts'
<1>1. /\ payoutHold = SumOf(HeldPayouts)
      /\ HoldMatchesPayouts' <=> payoutHold' = SumOf(after)
  BY HoldIsSum DEF HoldMatchesPayouts, HeldPayouts, SumOf, AmountOf
<1>2. HeldPayouts \subseteq Intents
  BY DEF HeldPayouts
<1> HIDE DEF after
<1>3. CASE UNCHANGED payoutHold /\ after = HeldPayouts
  BY <1>1, <1>3
<1>4. ASSUME NEW i \in Intents \ HeldPayouts,
             payoutHold' = payoutHold + AmountOf(i),
             after = HeldPayouts \cup {i}
      PROVE  HoldMatchesPayouts'
  BY <1>1, <1>2, <1>4, AmountsAdd
<1>5. ASSUME NEW i \in HeldPayouts, payoutHold' = payoutHold - AmountOf(i),
             after = HeldPayouts \ {i}
      PROVE  HoldMatchesPayouts'
  <2>1. after \in SUBSET Intents /\ i \in Intents \ after
        /\ HeldPayouts = after \cup {i}
    BY <1>2, <1>5
  <2>2. SumOf(HeldPayouts) = SumOf(after) + AmountOf(i)
    BY <2>1, AmountsAdd
  <2>3. SumOf(after) \in Nat /\ AmountOf(i) \in Nat
    BY <2>1, AmountsAdd
  <2> QED
    BY <1>1, <1>5, <2>2, <2>3
<1> QED
  BY <1>3, <1>4, <1>5 DEF after

\* A step that keeps every status keeps the payouts on hold.
LEMMA SameHeld ==
  ASSUME UNCHANGED payoutHold,
         \A j \in Intents : payout'[j].status = payout[j].status
  PROVE  UNCHANGED payoutHold /\ HeldPayouts' = HeldPayouts
BY DEF HeldPayouts, Is

\* The hold moves with the payouts on hold, in every step.
LEMMA StepHold ==
  PayoutsTypeOK /\ HoldMatchesPayouts /\ [PayoutsNext]_payoutsAndBooks
    => HoldMatchesPayouts'
<1> SUFFICES ASSUME PayoutsTypeOK, HoldMatchesPayouts,
                    [PayoutsNext]_payoutsAndBooks
             PROVE  HoldMatchesPayouts'
  OBVIOUS
<1>0. payoutHold \in Int /\ PayoutRowsTypeOK
  BY DEF PayoutsTypeOK, BooksTypeOK
<1>1. ASSUME NEW i \in Intents, PayoutStep(i) PROVE HoldMatchesPayouts'
  <2> USE DEF PayoutRowsTypeOK
  <2>1. CASE \/ CreateIntent(i) \/ IssueCode(i) \/ CodeExpires(i) \/ Confirm(i)
             \/ BeginRequest(i) \/ RequestFails(i) \/ StaffApprove(i)
             \/ Send(i) \/ ChapaStep(i) \/ SendAnswered(i) \/ SenderStops(i)
             \/ VerifyTransfer(i) \/ SweepVerify(i)
    <3>1. UNCHANGED <<payoutHold, payout>>
      BY <2>1 DEF CreateIntent, IssueCode, CodeExpires, Confirm, BeginRequest,
           RequestFails, StaffApprove, Send, ChapaStep, ChapaDecides,
           SendAnswered, SenderStops, VerifyTransfer, SweepVerify, sharedVars, etbBooks
    <3> QED
      BY <1>0, <3>1, HoldFollows, SameHeld
  <2>2. CASE Route(i)
    <3>1. \A j \in Intents : payout'[j].status = payout[j].status
      BY <1>0, <2>2 DEF Route, PayoutRows, NoPayout
    <3> QED
      BY <1>0, <2>2, <3>1, HoldFollows, SameHeld DEF Route, sharedVars, etbBooks
  <2>3. ASSUME NEW who \in {"auto", "staff"}, ClaimFails(i, who)
        PROVE  HoldMatchesPayouts'
    BY <1>0, <2>3, HoldFollows, SameHeld DEF ClaimFails, sharedVars, etbBooks
  <2>4. ASSUME NEW who \in {"auto", "staff"}, Claim(i, who)
        PROVE  HoldMatchesPayouts'
    <3>1. Is(i, "requested") /\ payout'[i].status = "processing"
      BY <1>0, <2>4 DEF Claim, Is
    <3>2. /\ \A j \in Intents \ {i} : payout'[j] = payout[j]
          /\ UNCHANGED payoutHold
      BY <1>0, <2>4 DEF Claim, sharedVars, etbBooks
    <3>3. HeldPayouts' = HeldPayouts
      BY <3>1, <3>2 DEF HeldPayouts, Is
    <3> QED
      BY <1>0, <3>2, <3>3, HoldFollows
  <2>5. CASE RefuseRequest(i)
    <3>1. Is(i, "none") /\ payout'[i].status = "rejected"
      BY <1>0, <2>5 DEF RefuseRequest, InsertRow, KeyTaken, NoPayout
    <3>2. \A j \in Intents \ {i} : payout'[j] = payout[j]
      BY <1>0, <2>5 DEF RefuseRequest, InsertRow
    <3>3. HeldPayouts' = HeldPayouts /\ UNCHANGED payoutHold
      BY <2>5, <3>1, <3>2 DEF RefuseRequest, HeldPayouts, Is, sharedVars, etbBooks
    <3> QED
      BY <1>0, <3>3, HoldFollows
  <2>6. CASE HoldRequest(i)
    <3>1. /\ HeldPayouts' = HeldPayouts \cup {i} /\ i \notin HeldPayouts
          /\ payoutHold' = payoutHold + AmountOf(i)
      BY <1>0, <2>6 DEF HoldRequest, InsertRow, KeyTaken, HeldPayouts, Is, NoPayout
    <3> QED
      BY <1>0, <3>1, HoldFollows
  <2>7. CASE SettleLedger(i)
    <3>1. /\ HeldPayouts' = HeldPayouts \ {i} /\ i \in HeldPayouts
          /\ payoutHold' = payoutHold - AmountOf(i)
      BY <1>0, <2>7 DEF SettleLedger, SetPayout, HeldPayouts, Is
    <3> QED
      BY <1>0, <3>1, HoldFollows
  <2>8. ASSUME NEW from \in {"requested", "processing"}, RefundIfStatus(i, from)
        PROVE  HoldMatchesPayouts'
    <3>1. /\ HeldPayouts' = HeldPayouts \ {i} /\ i \in HeldPayouts
          /\ payoutHold' = payoutHold - AmountOf(i)
      BY <1>0, <2>8 DEF RefundIfStatus, SetPayout, HeldPayouts, Is
    <3> QED
      BY <1>0, <3>1, HoldFollows
  <2> QED
    BY <1>1, <2>1, <2>2, <2>3, <2>4, <2>5, <2>6, <2>7, <2>8
       DEF PayoutStep, RefundAndReject, StaffReject
<1>2. CASE SharedNext /\ UNCHANGED payoutVars
  BY <1>0, <1>2, HoldFollows, SameHeld
     DEF SharedNext, Midnight, Bar, Unbar, etbBooks, payoutVars
<1>3. CASE UNCHANGED payoutsAndBooks
  BY <1>0, <1>3, HoldFollows, SameHeld
     DEF payoutsAndBooks, payoutVars, sharedVars, etbBooks
<1> QED
  BY <1>1, <1>2, <1>3 DEF PayoutsNext

\* The hold account is exactly the withdrawals waiting or under way: no
\* refusal, refund, settlement or crash leaves cents behind or moves them twice.
THEOREM PayoutsHoldMatches == PayoutsSpec => []HoldMatchesPayouts
  BY InitHold, StepHold, PayoutsTypeCorrect, PTL DEF PayoutsSpec

-----------------------------------------------------------------------------
(* The daily limits.  Both totals are sums over rows that leave them but do *)
(* not come back; the rows that join them were added up before.             *)

Adds(j) == payout[j].status \in Counted

\* The rows of one customer that one day's limits are about.
DayRows(u, d) ==
    {j \in Intents : /\ Customer(j) = u /\ Adds(j)
                     /\ payout[j].created = d /\ payout[j].checked = d}

\* The property in these terms.
LEMMA LimitIsDayRows ==
  DailyLimitHolds <=>
    \A u \in Users, d \in Days : /\ SumOf(DayRows(u, d)) <= settings.dayMax
                                 /\ Cardinality(DayRows(u, d)) <= DayMaxCount
  BY DEF DailyLimitHolds, DayRows, Adds

\* A smaller set of rows keeps within the limits.
LEMMA FewerWithin ==
  ASSUME NEW is \in SUBSET Intents, NEW js \in SUBSET is, NEW m \in Nat,
         SumOf(is) <= m, Cardinality(is) <= DayMaxCount
  PROVE  SumOf(js) <= m /\ Cardinality(js) <= DayMaxCount
<1>1. IsFiniteSet(is) /\ IsFiniteSet(js)
  BY PayoutsAssumption, FS_Subset
<1>2. Cardinality(js) <= Cardinality(is) /\ Cardinality(js) \in Nat
      /\ Cardinality(is) \in Nat
  BY <1>1, FS_Subset, FS_CardinalityType
<1>3. SumOf(js) <= SumOf(is) /\ SumOf(js) \in Nat /\ SumOf(is) \in Nat
  BY AmountsAdd
<1> QED
  BY <1>2, <1>3, PayoutsAssumption

\* A row that still counts has the days it had.
RowStays(j) ==
    Adds(j)' => /\ Adds(j) /\ payout'[j].created = payout[j].created
                /\ payout'[j].checked = payout[j].checked

\* Only an accepted request makes a row count.
LEMMA RowsStay ==
  ASSUME PayoutRowsTypeOK, NEW i \in Intents, PayoutStep(i), ~HoldRequest(i),
         NEW j \in Intents
  PROVE  RowStays(j)
<1> USE DEF PayoutRowsTypeOK, RowStays, Adds, Counted
<1>1. CASE j # i
  BY <1>1, OthersSame DEF Kept
<1>2. CASE j = i
  <2>1. CASE \/ CreateIntent(i) \/ IssueCode(i) \/ CodeExpires(i) \/ Confirm(i)
             \/ BeginRequest(i) \/ RequestFails(i) \/ StaffApprove(i)
             \/ Send(i) \/ ChapaStep(i) \/ SendAnswered(i) \/ SenderStops(i)
             \/ VerifyTransfer(i) \/ SweepVerify(i)
    <3>1. payout' = payout
      BY <2>1 DEF CreateIntent, IssueCode, CodeExpires, Confirm, BeginRequest,
           RequestFails, StaffApprove, Send, ChapaStep, ChapaDecides,
           SendAnswered, SenderStops, VerifyTransfer, SweepVerify
    <3> QED
      BY <3>1
  <2>2. CASE RefuseRequest(i)
    <3>1. payout'[i].status = "rejected"
      BY <2>2 DEF RefuseRequest, InsertRow, NoPayout
    <3> QED
      BY <1>2, <3>1
  <2>3. CASE Route(i)
    BY <1>2, <2>3 DEF Route, PayoutRows, NoPayout
  <2>4. ASSUME NEW who \in {"auto", "staff"}, ClaimFails(i, who) PROVE RowStays(j)
    BY <2>4 DEF ClaimFails
  <2>5. ASSUME NEW who \in {"auto", "staff"}, Claim(i, who) PROVE RowStays(j)
    <3>1. Is(i, "requested") /\ payout[i] \in PayoutRows
      BY <2>5, ExistingRow DEF Claim, Is
    <3>2. /\ payout'[i].created = payout[i].created
          /\ payout'[i].checked = payout[i].checked
      BY <2>5, <3>1 DEF Claim, PayoutRows
    <3> QED
      BY <1>2, <3>1, <3>2 DEF Is
  <2>6. ASSUME NEW from \in {"requested", "processing"},
               NEW to \in {"settled", "rejected"}, Is(i, from), SetPayout(i, to)
        PROVE  RowStays(j)
    <3>1. payout[i] \in PayoutRows
      BY <2>6, ExistingRow DEF Is
    <3> QED
      BY <1>2, <2>6, <3>1 DEF SetPayout, PayoutRows, Is
  <2> QED
    BY <2>1, <2>2, <2>3, <2>4, <2>5, <2>6
       DEF PayoutStep, SettleLedger, RefundAndReject, StaffReject, RefundIfStatus
<1> QED
  BY <1>1, <1>2

\* No row counts yet.
LEMMA InitLimit == PayoutsInit => DailyLimitHolds
<1> SUFFICES ASSUME PayoutsInit, NEW u \in Users, NEW d \in Days
             PROVE  /\ SumOf(DayRows(u, d)) <= settings.dayMax
                    /\ Cardinality(DayRows(u, d)) <= DayMaxCount
  BY LimitIsDayRows
<1>1. DayRows(u, d) = {}
  BY DEF PayoutsInit, DayRows, Adds, Counted, NoPayout
<1>2. SumOf(DayRows(u, d)) = 0 /\ Cardinality(DayRows(u, d)) = 0
  BY <1>1, SumEmpty, FS_EmptySet DEF SumOf
<1> QED
  BY <1>2, PayoutsAssumption DEF PayoutsInit

\* What an accepted request does to the limits: the rows of the day it joins
\* are among those it was added to.
LEMMA AcceptedWithin ==
  ASSUME PayoutsTypeOK, DailyLimitHolds, NEW i \in Intents, HoldRequest(i),
         NEW u \in Users, NEW d \in Days, NEW after \in SUBSET Intents,
         after = DayRows(u, d)'
  PROVE  SumOf(after) <= settings.dayMax /\ Cardinality(after) <= DayMaxCount
<1> DEFINE before == DayRows(u, d)
           sofar == CountedToday(Customer(i))
<1>1. PayoutRowsTypeOK /\ settings.dayMax \in Nat
  BY PayoutsAssumption DEF PayoutsTypeOK, PayoutRowsTypeOK
<1>2. before \in SUBSET Intents /\ sofar \in SUBSET Intents
  BY DEF DayRows, CountedToday
<1>3. Is(i, "none") /\ i \notin before /\ i \notin sofar
  BY DEF HoldRequest, InsertRow, KeyTaken, Is, DayRows, Adds, Counted,
         CountedToday
<1>4. /\ payout'[i].created = since[i] /\ payout'[i].checked = today
      /\ \A j \in Intents \ {i} : payout'[j] = payout[j]
  BY <1>1 DEF HoldRequest, InsertRow, PayoutRowsTypeOK, NoPayout
<1>5. \A j \in Intents \ {i} : j \in after <=> j \in before
  BY <1>4 DEF DayRows, Adds
<1>6. CASE i \notin after
  <2>1. after \subseteq before
    BY <1>5, <1>6
  <2>2. SumOf(before) <= settings.dayMax /\ Cardinality(before) <= DayMaxCount
    BY LimitIsDayRows
  <2> HIDE DEF before
  <2> QED
    BY <1>1, <1>2, <2>1, <2>2, FewerWithin
<1>7. CASE i \in after
  <2>1. Customer(i) = u /\ since[i] = d /\ today = d
    BY <1>4, <1>7 DEF DayRows
  <2>2. before \subseteq sofar
    BY <2>1 DEF DayRows, CountedToday, Adds, Days
  <2>3. after \subseteq sofar \cup {i}
    BY <1>5, <2>2
  <2>4. /\ Cardinality(sofar) + 1 <= DayMaxCount
        /\ SumOf(sofar) + AmountOf(i) <= settings.dayMax
    BY DEF HoldRequest, Accepted, WithinDayLimits
  <2> HIDE DEF before, sofar
  <2>5. IsFiniteSet(sofar)
    BY <1>2, PayoutsAssumption, FS_Subset
  <2>6. Cardinality(sofar \cup {i}) = Cardinality(sofar) + 1
    BY <1>3, <2>5, FS_AddElement
  <2>7. SumOf(sofar \cup {i}) = SumOf(sofar) + AmountOf(i)
    BY <1>2, <1>3, AmountsAdd
  <2>8. sofar \cup {i} \in SUBSET Intents
    BY <1>2
  <2> QED
    BY <1>1, <2>3, <2>4, <2>6, <2>7, <2>8, FewerWithin
<1> QED
  BY <1>6, <1>7

\* Every step keeps within the limits.
LEMMA StepLimit ==
  PayoutsTypeOK /\ DailyLimitHolds /\ [PayoutsNext]_payoutsAndBooks
    => DailyLimitHolds'
<1> SUFFICES ASSUME PayoutsTypeOK, DailyLimitHolds,
                    [PayoutsNext]_payoutsAndBooks,
                    NEW u \in Users, NEW d \in Days
             PROVE  /\ SumOf(DayRows(u, d)') <= settings'.dayMax
                    /\ Cardinality(DayRows(u, d)') <= DayMaxCount
  BY DEF DailyLimitHolds, DayRows, Adds, SumOf, AmountOf
<1> DEFINE after == DayRows(u, d)'
<1>1. PayoutRowsTypeOK /\ settings.dayMax \in Nat
  BY PayoutsAssumption DEF PayoutsTypeOK, PayoutRowsTypeOK
<1>2. after \in SUBSET Intents
  BY DEF DayRows
<1>3. settings' = settings
  BY DEF PayoutsNext, payoutsAndBooks, payoutVars, PayoutStep, CreateIntent,
     IssueCode, CodeExpires, Confirm, BeginRequest, RefuseRequest, HoldRequest,
     RequestFails, Route, StaffApprove, StaffReject, Claim, ClaimFails, Send,
     ChapaStep, ChapaDecides, SendAnswered, SenderStops, VerifyTransfer, SweepVerify,
     SettleLedger, RefundAndReject, RefundIfStatus
<1>4. ASSUME \A j \in Intents : RowStays(j)
      PROVE  SumOf(after) <= settings.dayMax /\ Cardinality(after) <= DayMaxCount
  <2> DEFINE before == DayRows(u, d)
  <2>1. after \subseteq before
    BY <1>4 DEF DayRows, RowStays, Adds
  <2>2. before \in SUBSET Intents
    BY DEF DayRows
  <2>3. SumOf(before) <= settings.dayMax /\ Cardinality(before) <= DayMaxCount
    BY LimitIsDayRows
  <2> HIDE DEF before, after
  <2> QED
    BY <1>1, <2>1, <2>2, <2>3, FewerWithin
<1>5. ASSUME NEW i \in Intents, HoldRequest(i)
      PROVE  SumOf(after) <= settings.dayMax /\ Cardinality(after) <= DayMaxCount
  BY <1>2, <1>5, AcceptedWithin
<1>6. ASSUME NEW i \in Intents, PayoutStep(i), ~HoldRequest(i)
      PROVE  \A j \in Intents : RowStays(j)
  BY <1>1, <1>6, RowsStay
<1>7. CASE UNCHANGED payoutVars
  <2>1. \A j \in Intents : RowStays(j)
    BY <1>7 DEF RowStays, Adds, payoutVars
  <2> HIDE DEF after
  <2> QED
    BY <1>3, <1>4, <2>1 DEF after
<1> HIDE DEF after
<1> QED
  BY <1>3, <1>4, <1>5, <1>6, <1>7 DEF after, PayoutsNext, payoutsAndBooks

\* Concurrent requests do not slip past the daily limits together: what a
\* customer has waiting, under way or paid of one day is within both.
THEOREM PayoutsDailyLimit == PayoutsSpec => []DailyLimitHolds
  BY InitLimit, StepLimit, PayoutsTypeCorrect, PTL DEF PayoutsSpec

-----------------------------------------------------------------------------
(* The instant path.  It reads the day's total outside any lock, so a row   *)
(* counts here from the moment it is cleared, before it is claimed.         *)

\* The instant path clears a payout once, after its row is inserted.
Fresh(i) ==
    /\ confirm[i] # "idle" => code[i] = "used"
    /\ (Is(i, "none") \/ confirm[i] # "idle" \/ code[i] # "used") =>
         "auto" \notin claimers[i] /\ payout[i].auto = FALSE

FreshRows == \A i \in Intents : Fresh(i)

\* A payout the instant path has claimed, or may still claim.
Cand(j) == Adds(j) /\ (payout[j].auto = TRUE \/ "auto" \in claimers[j])

\* Those of one customer and day.
CandRows(u, d) ==
    {j \in Intents : /\ Customer(j) = u /\ Cand(j)
                     /\ payout[j].created = d /\ payout[j].routed = d}

AutoLine == \A u \in Users, d \in Days :
                CandRows(u, d) # {} => SumOf(CandRows(u, d)) < ReviewLine

\* What the instant path claimed is part of it.
LEMMA LineCovers == AutoLine => AutoBelowLine
<1> SUFFICES ASSUME AutoLine, NEW u \in Users, NEW d \in Days,
                    NEW is \in SUBSET Intents, is # {},
                    \A j \in is : /\ Customer(j) = u /\ payout[j].auto
                                  /\ payout[j].status \in Counted
                                  /\ payout[j].created = d
                                  /\ payout[j].routed = d
             PROVE  SumOf(is) < ReviewLine
  BY DEF AutoBelowLine
<1> DEFINE cand == CandRows(u, d)
<1>1. is \subseteq cand
  BY DEF CandRows, Cand, Adds
<1>2. cand \in SUBSET Intents /\ cand # {} /\ SumOf(cand) < ReviewLine
  BY <1>1 DEF CandRows, AutoLine
<1> HIDE DEF cand
<1>3. SumOf(is) <= SumOf(cand) /\ SumOf(is) \in Nat /\ SumOf(cand) \in Nat
  BY <1>1, <1>2, AmountsAdd
<1> QED
  BY <1>2, <1>3, PayoutsAssumption

\* Nothing is cleared yet.
LEMMA InitLine == PayoutsInit => FreshRows /\ AutoLine
  BY DEF PayoutsInit, FreshRows, Fresh, Is, NoPayout, AutoLine, CandRows, Cand,
         Adds, Counted

\* Every step keeps the rows not yet routed fresh.
LEMMA StepFresh ==
  PayoutsTypeOK /\ RoutesRow /\ FreshRows /\ [PayoutsNext]_payoutsAndBooks
    => FreshRows'
<1> SUFFICES ASSUME PayoutsTypeOK, RoutesRow, FreshRows,
                    [PayoutsNext]_payoutsAndBooks, NEW j \in Intents
             PROVE  Fresh(j)'
  BY DEF FreshRows
<1>0. PayoutRowsTypeOK /\ Fresh(j)
  BY DEF PayoutsTypeOK, FreshRows
<1>1. ASSUME UNCHANGED payoutVars PROVE Fresh(j)'
  BY <1>0, <1>1 DEF payoutVars, Fresh, Is
<1>2. ASSUME NEW i \in Intents, PayoutStep(i) PROVE Fresh(j)'
  <2> USE DEF PayoutRowsTypeOK, Advance
  <2>1. code'[j] = "used" <=> code[j] = "used" \/ (j = i /\ Confirm(i))
    BY <1>0, <1>2 DEF PayoutStep, CreateIntent, IssueCode, CodeExpires, Confirm,
       BeginRequest, RefuseRequest, HoldRequest, RequestFails, Route,
       StaffApprove, StaffReject, Claim, ClaimFails, Send, ChapaStep,
       ChapaDecides, SendAnswered, SenderStops, VerifyTransfer, SweepVerify,
       SettleLedger, RefundAndReject, RefundIfStatus
  <2>2. CASE j # i
    <3>1. SameRow(j) /\ Kept(j)
      BY <1>0, <1>2, <2>2, OthersSame
    <3> QED
      BY <1>0, <2>1, <2>2, <3>1 DEF SameRow, Kept, Fresh, Is
  <2>3. CASE j = i
    <3>1. CASE \/ CreateIntent(i) \/ IssueCode(i) \/ CodeExpires(i)
               \/ Confirm(i) \/ BeginRequest(i) \/ RequestFails(i)
      <4>1. UNCHANGED <<payout, claimers>>
        BY <3>1 DEF CreateIntent, IssueCode, CodeExpires, Confirm,
             BeginRequest, RequestFails
      <4>2. CASE Confirm(i)
        BY <1>0, <2>1, <2>3, <4>1, <4>2 DEF Confirm, Fresh, Is
      <4>3. CASE ~Confirm(i)
        <5>1. confirm'[i] # "idle" => confirm[i] # "idle"
          BY <1>0, <3>1, <4>3 DEF CreateIntent, IssueCode, CodeExpires,
               BeginRequest, RequestFails
        <5> QED
          BY <1>0, <2>1, <2>3, <4>1, <4>3, <5>1 DEF Fresh, Is
      <4> QED
        BY <4>2, <4>3
    <3>2. CASE RefuseRequest(i) \/ HoldRequest(i)
      <4>1. confirm[i] = "begun" /\ claimers' = claimers
        BY <3>2 DEF RefuseRequest, HoldRequest, InsertRow
      <4>2. payout'[i].auto = FALSE
        <5>1. ASSUME NEW s, InsertRow(i, s) PROVE payout'[i].auto = FALSE
          <6>1. payout'[i] = [NoPayout EXCEPT !.status = s, !.created = since[i],
                                              !.checked = today]
            BY <1>0, <5>1 DEF InsertRow
          <6> QED
            BY <6>1 DEF NoPayout
        <5> QED
          BY <3>2, <5>1 DEF RefuseRequest, HoldRequest
      <4> QED
        BY <1>0, <2>1, <2>3, <4>1, <4>2 DEF Fresh, Is
    <3>3. CASE Route(i)
      <4>1. /\ confirm[i] = "route" /\ confirm'[i] = "idle" /\ ~Is(i, "none")
            /\ payout'[i].status = payout[i].status
        BY <1>0, <3>3 DEF Route, RoutesRow, Routes, PayoutRows, NoPayout
      <4> QED
        BY <1>0, <2>1, <2>3, <4>1 DEF Fresh, Is
    <3>4. CASE \/ Send(i) \/ ChapaStep(i) \/ SendAnswered(i) \/ SenderStops(i)
               \/ VerifyTransfer(i) \/ SweepVerify(i)
      <4>1. UNCHANGED <<payout, claimers, confirm, code>>
        BY <3>4 DEF Send, ChapaStep, ChapaDecides, SendAnswered, SenderStops,
             VerifyTransfer, SweepVerify
      <4> QED
        BY <1>0, <4>1 DEF Fresh, Is
    <3>5. CASE StaffApprove(i)
      BY <1>0, <2>3, <3>5 DEF StaffApprove, Fresh, Is
    <3>6. ASSUME NEW who \in {"auto", "staff"}, ClaimFails(i, who)
          PROVE  Fresh(j)'
      BY <1>0, <2>3, <3>6 DEF ClaimFails, Fresh, Is
    <3>7. ASSUME NEW who \in {"auto", "staff"}, Claim(i, who)
          PROVE  Fresh(j)'
      <4>1. /\ Is(i, "requested") /\ payout'[i].status = "processing"
            /\ who \in claimers[i] /\ claimers'[i] = claimers[i] \ {who}
            /\ UNCHANGED <<confirm, code>>
        BY <1>0, <3>7 DEF Claim, Is
      <4>2. CASE who = "auto"
        BY <1>0, <2>3, <4>1, <4>2 DEF Fresh, Is
      <4>3. CASE who = "staff"
        <5>1. payout'[i].auto = FALSE
          <6>1. payout[i] \in PayoutRows
            BY <1>0, <4>1, ExistingRow DEF Is
          <6>2. (who = "auto") = FALSE
            BY <4>3
          <6> QED
            BY <1>0, <3>7, <6>1, <6>2 DEF Claim, PayoutRows
        <5> QED
          BY <1>0, <2>3, <4>1, <5>1 DEF Fresh, Is
      <4> QED
        BY <4>2, <4>3
    <3>8. ASSUME NEW from \in {"requested", "processing"},
                 NEW to \in {"settled", "rejected"}, Is(i, from),
                 SetPayout(i, to), UNCHANGED <<claimers, confirm, code>>
          PROVE  Fresh(j)'
      <4>1. payout[i] \in PayoutRows
        BY <1>0, <3>8, ExistingRow DEF Is
      <4>2. payout'[i].status = to /\ payout'[i].auto = payout[i].auto
        BY <1>0, <3>8, <4>1 DEF SetPayout, PayoutRows
      <4> QED
        BY <1>0, <2>3, <3>8, <4>2 DEF Fresh, Is
    <3> QED
      BY <1>2, <3>1, <3>2, <3>3, <3>4, <3>5, <3>6, <3>7, <3>8
         DEF PayoutStep, SettleLedger, RefundAndReject, StaffReject,
             RefundIfStatus
  <2> QED
    BY <2>2, <2>3
<1> QED
  BY <1>1, <1>2 DEF PayoutsNext, payoutsAndBooks

\* A candidate was one before, of the same days.
CandStays(j) ==
    Cand(j)' => /\ Cand(j) /\ payout'[j].created = payout[j].created
                /\ payout'[j].routed = payout[j].routed

\* Only the instant path makes a payout a candidate.
LEMMA CandidatesStay ==
  ASSUME PayoutRowsTypeOK, FreshRows, NEW i \in Intents, PayoutStep(i),
         ~Route(i), NEW j \in Intents
  PROVE  CandStays(j)
<1> USE DEF PayoutRowsTypeOK
<1>1. CASE j # i
  <2>1. Kept(j)
    BY <1>1, OthersSame
  <2> QED
    BY <2>1 DEF Kept, CandStays, Cand, Adds
<1>2. CASE j = i
  <2>1. CASE \/ CreateIntent(i) \/ IssueCode(i) \/ CodeExpires(i) \/ Confirm(i)
             \/ BeginRequest(i) \/ RequestFails(i)
             \/ Send(i) \/ ChapaStep(i) \/ SendAnswered(i) \/ SenderStops(i)
             \/ VerifyTransfer(i) \/ SweepVerify(i)
    <3>1. UNCHANGED <<payout, claimers>>
      BY <2>1 DEF CreateIntent, IssueCode, CodeExpires, Confirm, BeginRequest,
           RequestFails, Send, ChapaStep, ChapaDecides, SendAnswered,
           SenderStops, VerifyTransfer, SweepVerify
    <3> QED
      BY <3>1 DEF CandStays, Cand, Adds
  <2>2. CASE StaffApprove(i)
    BY <1>2, <2>2 DEF StaffApprove, CandStays, Cand, Adds
  <2>3. ASSUME NEW s, InsertRow(i, s), claimers' = claimers
        PROVE  CandStays(j)
    <3>1. "auto" \notin claimers[i]
      BY <2>3 DEF InsertRow, FreshRows, Fresh
    <3>2. payout'[i] = [NoPayout EXCEPT !.status = s, !.created = since[i],
                                        !.checked = today]
      BY <2>3 DEF InsertRow
    <3>3. payout'[i].auto = FALSE
      BY <3>2 DEF NoPayout
    <3> QED
      BY <1>2, <2>3, <3>1, <3>3 DEF CandStays, Cand
  <2>4. ASSUME NEW who \in {"auto", "staff"}, ClaimFails(i, who)
        PROVE  CandStays(j)
    BY <1>2, <2>4 DEF ClaimFails, CandStays, Cand, Adds
  <2>5. ASSUME NEW who \in {"auto", "staff"}, Claim(i, who)
        PROVE  CandStays(j)
    <3>1. Is(i, "requested") /\ payout[i] \in PayoutRows /\ who \in claimers[i]
      BY <2>5, ExistingRow DEF Claim, Is
    <3>2. /\ payout'[i].created = payout[i].created
          /\ payout'[i].routed = payout[i].routed
      BY <2>5, <3>1 DEF Claim, PayoutRows
    <3>3. Adds(i)
      BY <3>1 DEF Adds, Is, Counted
    <3>4. claimers'[i] = claimers[i] \ {who}
      BY <2>5 DEF Claim
    <3>5. CASE who = "auto"
      BY <1>2, <3>1, <3>2, <3>3, <3>5 DEF CandStays, Cand
    <3>6. CASE who = "staff"
      <4>1. (who = "auto") = FALSE
        BY <3>6
      <4>2. payout'[i].auto = FALSE
        BY <2>5, <3>1, <4>1 DEF Claim, PayoutRows
      <4> QED
        BY <1>2, <3>2, <3>3, <3>4, <4>2 DEF CandStays, Cand
    <3> QED
      BY <3>5, <3>6
  <2>6. ASSUME NEW from \in {"requested", "processing"},
               NEW to \in {"settled", "rejected"}, Is(i, from),
               SetPayout(i, to), claimers' = claimers
        PROVE  CandStays(j)
    <3>1. payout[i] \in PayoutRows /\ Adds(i)
      BY <2>6, ExistingRow DEF Is, Adds, Counted
    <3>2. /\ payout'[i].created = payout[i].created
          /\ payout'[i].routed = payout[i].routed
          /\ payout'[i].auto = payout[i].auto
      BY <2>6, <3>1 DEF SetPayout, PayoutRows
    <3> QED
      BY <1>2, <2>6, <3>1, <3>2 DEF CandStays, Cand
  <2> QED
    BY <2>1, <2>2, <2>3, <2>4, <2>5, <2>6
       DEF PayoutStep, RefuseRequest, HoldRequest, SettleLedger,
           RefundAndReject, StaffReject, RefundIfStatus
<1> QED
  BY <1>1, <1>2

\* The instant path clears a payout of a day whose total it has read.
LEMMA RouteLine ==
  ASSUME PayoutsTypeOK, RoutesRow, FreshRows, AutoLine,
         NEW i \in Intents, Route(i), NEW u \in Users, NEW d \in Days,
         NEW after \in SUBSET Intents, after = CandRows(u, d)', after # {}
  PROVE  SumOf(after) < ReviewLine
<1> DEFINE before == CandRows(u, d)
           total == CountedToday(Customer(i))
<1>1. PayoutRowsTypeOK
  BY DEF PayoutsTypeOK
<1>2. before \in SUBSET Intents /\ total \in SUBSET Intents
  BY DEF CandRows, CountedToday
<1>3. \A j \in Intents \ {i} : j \in after <=> j \in before
  BY <1>1 DEF Route, CandRows, Cand, Adds, PayoutRowsTypeOK
<1>4. CASE i \notin after
  <2>1. after \subseteq before /\ before # {}
    BY <1>3, <1>4
  <2>2. SumOf(before) < ReviewLine
    BY <2>1 DEF AutoLine
  <2> HIDE DEF before
  <2>3. SumOf(after) <= SumOf(before) /\ SumOf(after) \in Nat
        /\ SumOf(before) \in Nat
    BY <1>2, <2>1, AmountsAdd
  <2> QED
    BY <2>2, <2>3, PayoutsAssumption
<1>5. CASE i \in after
  <2>1. ~Is(i, "none") /\ payout[i] \in PayoutRows
    BY <1>1, ExistingRow DEF Route, RoutesRow, Routes
  <2>2. payout'[i] = [payout[i] EXCEPT !.routed = today]
    BY <1>1 DEF Route, PayoutRowsTypeOK
  <2>3. /\ payout'[i].routed = today /\ payout'[i].status = payout[i].status
        /\ payout'[i].created = payout[i].created
        /\ payout'[i].auto = payout[i].auto
    BY <2>1, <2>2 DEF PayoutRows
  <2>4. "auto" \notin claimers[i] /\ payout[i].auto = FALSE
    BY DEF Route, FreshRows, Fresh
  <2>5. Cand(i)' /\ Customer(i) = u /\ payout[i].created = d /\ today = d
    BY <1>5, <2>3 DEF CandRows
  <2>6. ~NeedsHuman(i)
    BY <1>1, <2>3, <2>4, <2>5 DEF Route, Cand
  <2>7. SumOf(total) < ReviewLine
    <3>1. SumOf(total) \in Nat
      BY <1>2, AmountsAdd
    <3> QED
      BY <2>6, <3>1, PayoutsAssumption DEF NeedsHuman
  <2>8. after \subseteq total
    <3>1. i \in total
      BY <2>3, <2>5 DEF Cand, Adds, CountedToday, Days
    <3>2. \A j \in Intents \ {i} : j \in before => j \in total
      BY <2>5 DEF CandRows, Cand, Adds, CountedToday, Days
    <3> QED
      BY <1>3, <3>1, <3>2
  <2> HIDE DEF total
  <2>9. SumOf(after) <= SumOf(total) /\ SumOf(after) \in Nat
        /\ SumOf(total) \in Nat
    BY <1>2, <2>8, AmountsAdd
  <2> QED
    BY <2>7, <2>9, PayoutsAssumption
<1> QED
  BY <1>4, <1>5

\* Every step keeps the line.
LEMMA StepLine ==
  /\ PayoutsTypeOK /\ RoutesRow /\ FreshRows /\ AutoLine
  /\ [PayoutsNext]_payoutsAndBooks
  => AutoLine'
<1> SUFFICES ASSUME PayoutsTypeOK, RoutesRow, FreshRows, AutoLine,
                    [PayoutsNext]_payoutsAndBooks,
                    NEW u \in Users, NEW d \in Days, CandRows(u, d)' # {}
             PROVE  SumOf(CandRows(u, d)') < ReviewLine
  BY DEF AutoLine, CandRows, Cand, Adds, SumOf, AmountOf
<1> DEFINE after == CandRows(u, d)'
<1>1. PayoutRowsTypeOK
  BY DEF PayoutsTypeOK
<1>2. after \in SUBSET Intents
  BY DEF CandRows
<1>3. ASSUME \A j \in Intents : CandStays(j) PROVE SumOf(after) < ReviewLine
  <2> DEFINE before == CandRows(u, d)
  <2>1. after \subseteq before
    BY <1>3 DEF CandRows, CandStays, Cand
  <2>2. before \in SUBSET Intents
    BY DEF CandRows
  <2>3. SumOf(before) < ReviewLine
    BY <2>1 DEF AutoLine
  <2> HIDE DEF before, after
  <2>4. SumOf(after) <= SumOf(before) /\ SumOf(after) \in Nat
        /\ SumOf(before) \in Nat
    BY <2>1, <2>2, AmountsAdd
  <2> QED
    BY <2>3, <2>4, PayoutsAssumption
<1>4. ASSUME NEW i \in Intents, Route(i) PROVE SumOf(after) < ReviewLine
  BY <1>2, <1>4, RouteLine
<1>5. ASSUME NEW i \in Intents, PayoutStep(i), ~Route(i)
      PROVE  \A j \in Intents : CandStays(j)
  BY <1>1, <1>5, CandidatesStay
<1>6. ASSUME UNCHANGED payoutVars PROVE \A j \in Intents : CandStays(j)
  BY <1>6 DEF CandStays, Cand, Adds, payoutVars
<1> HIDE DEF after
<1> QED
  BY <1>3, <1>4, <1>5, <1>6 DEF after, PayoutsNext, payoutsAndBooks

\* What a customer gets out in a day without a human stays under the review
\* line, although the instant path reads the total outside any lock.
THEOREM PayoutsAutoBelowLine == PayoutsSpec => []AutoBelowLine
<1>1. PayoutsSound => RoutesRow
  BY DEF PayoutsSound, Sound, RoutesRow
<1> QED
  BY <1>1, PayoutsInvariant, InitLine, StepFresh, StepLine, LineCovers, PTL DEF PayoutsSpec

-----------------------------------------------------------------------------
(* Among other components.  Deposits and withdrawals meet the others in the *)
(* customers' balances, the barred customers and the day, and move nothing  *)
(* but cents between a customer, the hold and system:external.              *)

\* What holds of the withdrawals' own rows and of the hold account.
PayoutsKeep ==
    /\ PayoutRowsTypeOK /\ PayoutsSound /\ HoldMatchesPayouts
    /\ DailyLimitHolds /\ FreshRows /\ AutoLine

\* Their own steps keep it ...
LEMMA PayoutsStepKeeps ==
  ASSUME BooksTypeOK, PayoutsKeep, [PayoutsNext]_payoutsAndBooks
  PROVE  BooksTypeOK' /\ PayoutsKeep'
<1>1. PayoutsTypeOK /\ RoutesRow
  BY DEF PayoutsKeep, PayoutsTypeOK, PayoutsSound, Sound, RoutesRow
<1> QED
  BY <1>1, PayoutsStepType, PayoutsStepSound, StepHold, StepLimit, StepFresh,
     StepLine DEF PayoutsKeep, PayoutsTypeOK

\* ... and so does every step that leaves their rows and the hold alone.
LEMMA PayoutsAside ==
  ASSUME BooksTypeOK, PayoutsKeep, UNCHANGED <<payoutVars, payoutHold>>
  PROVE  PayoutsKeep'
<1>1. PayoutRowsTypeOK' /\ PayoutsSound'
  <2>1. PayoutRowsTypeOK'
    BY DEF PayoutsKeep, PayoutRowsTypeOK, payoutVars
  <2>2. ASSUME NEW i \in Intents PROVE Sound(i)'
    BY SameSound DEF PayoutsKeep, PayoutsSound, SameRow, payoutVars
  <2> QED
    BY <2>1, <2>2 DEF PayoutsSound
<1>2. HoldMatchesPayouts'
  BY HoldFollows, SameHeld DEF PayoutsKeep, BooksTypeOK, payoutVars
<1>3. DailyLimitHolds' /\ FreshRows' /\ AutoLine'
  BY DEF PayoutsKeep, DailyLimitHolds, FreshRows, Fresh, AutoLine, CandRows,
         Cand, Adds, Counted, Is, Customer, SumOf, AmountOf, payoutVars
<1> QED
  BY <1>1, <1>2, <1>3 DEF PayoutsKeep

\* Cents of one customer move against the hold and system:external.
Moves(u, n) ==
    /\ cents' = [cents EXCEPT ![u] = @ + n]
    /\ external' + payoutHold' = external + payoutHold - n

ChapaPosting ==
    /\ UNCHANGED <<cash, charges, metalBooks, physical, today>>
    /\ UNCHANGED etbBooks \/ \E u \in Users, n \in Int : Moves(u, n)

\* Such a posting is a money posting, and balances.
LEMMA ChapaPostingBalances ==
  ASSUME BooksTypeOK, BooksTypeOK', ChapaPosting
  PROVE  MoneyPosting /\ (ZeroSumPosting \/ UNCHANGED <<etbBooks, metalBooks>>)
<1>1. CASE UNCHANGED etbBooks
  BY <1>1 DEF ChapaPosting, MoneyPosting, SystemCents, etbBooks
<1>2. ASSUME NEW u \in Users, NEW n \in Int, Moves(u, n)
      PROVE  MoneyPosting /\ ZeroSumPosting
  <2>1. /\ cents[u] \in Int /\ cash \in Int /\ charges \in Int
        /\ external \in Int /\ payoutHold \in Int
        /\ external' \in Int /\ payoutHold' \in Int
    BY DEF BooksTypeOK
  <2>2. /\ cents'[u] = cents[u] + n /\ cash' = cash /\ charges' = charges
        /\ external' + payoutHold' = external + payoutHold - n
        /\ \A v \in Users \ {u} : cents'[v] = cents[v]
    BY <1>2 DEF BooksTypeOK, ChapaPosting, Moves
  <2> HIDE DEF BooksTypeOK, ChapaPosting
  <2>3. cents'[u] + cash' + charges' + external' + payoutHold'
          = cents[u] + cash + charges + external + payoutHold
    BY <2>1, <2>2
  <2>4. /\ SystemCents = cash + charges + external + payoutHold
        /\ SystemCents' = cash' + charges' + external' + payoutHold'
    BY DEF SystemCents
  <2>5. cents'[u] \in Int /\ cash' \in Int /\ charges' \in Int
    BY <2>1, <2>2
  <2>6. /\ cents'[u] + SystemCents'
             = cents'[u] + cash' + charges' + external' + payoutHold'
        /\ cents[u] + SystemCents
             = cents[u] + cash + charges + external + payoutHold
    BY <2>1, <2>4, <2>5
  <2>7. cents'[u] + SystemCents' = cents[u] + SystemCents
    BY <2>3, <2>6
  <2> QED
    BY <2>2, <2>3, <2>7 DEF MoneyPosting, ZeroSumPosting, ChapaPosting, metalBooks
<1> QED
  BY <1>1, <1>2 DEF ChapaPosting

\* Deposits post nothing else ...
LEMMA DepositsPost ==
  ASSUME Typed, DepositsNext
  PROVE  ChapaPosting /\ UNCHANGED payoutHold
<1>1. UNCHANGED sharedVars => ChapaPosting /\ UNCHANGED payoutHold
  BY DEF ChapaPosting, sharedVars, etbBooks
<1>2. ASSUME NEW p \in Payments, NEW n \in Int, PostDeposit(p, n)
      PROVE  ChapaPosting /\ UNCHANGED payoutHold
  <2>1. /\ cents' = [cents EXCEPT ![Payer[p]] = @ + n] /\ external' = external - n
        /\ UNCHANGED <<cash, charges, payoutHold, metalBooks, physical, today>>
    BY <1>2 DEF PostDeposit
  <2>2. external \in Int /\ payoutHold \in Int
    BY DEF Typed, BooksTypeOK
  <2>3. external' + payoutHold' = external + payoutHold - n
    BY <2>1, <2>2
  <2>4. Moves(Payer[p], n) /\ Payer[p] \in Users
    BY <2>1, <2>3, PaymentsAssumption DEF Moves
  <2> QED
    BY <2>1, <2>4 DEF ChapaPosting
<1>3. ASSUME NEW h \in Handlers, ClaimCredit(h) \/ ReversalDebits(h)
      PROVE  ChapaPosting /\ UNCHANGED payoutHold
  <2>1. PICK p \in Payments : p = handler[h].pay
    BY <1>3, BusyCall DEF ClaimCredit, ReversalDebits, Places, Typed
  <2>2. Amount[p] \in Int /\ -Clawback(p) \in Int
    BY ClawbackBounds, PaymentsAssumption DEF Typed
  <2> QED
    BY <1>2, <1>3, <2>1, <2>2 DEF ClaimCredit, ReversalDebits
<1>4. ASSUME NEW h \in Handlers, SettleStep(h) \/ ReversalStep(h),
             ~ClaimCredit(h), ~ReversalDebits(h)
      PROVE  UNCHANGED sharedVars
  BY <1>4 DEF SettleStep, ReversalStep, ReadRow, Verify, CloseFailed, ClaimLost,
     Expire, ReversalRead, ReversalVerify, ReversalCloses, ReversalLost
<1>5. ASSUME NEW h \in Handlers, NEW p \in Payments,
             \/ HookArrives(h, p) \/ Reconcile(h, p) \/ SweepPicks(h, p)
             \/ RecordHook(h) \/ HandlerFails(h)
      PROVE  UNCHANGED sharedVars
  BY <1>5 DEF HookArrives, Reconcile, SweepPicks, Start, RecordHook, HandlerFails
<1>6. ASSUME NEW p \in Payments,
             \/ Create(p) \/ CheckoutOpens(p) \/ CheckoutFails(p) \/ Age(p)
             \/ CustomerPays(p) \/ CustomerPaysOther(p) \/ CustomerFails(p)
             \/ CustomerRetries(p) \/ ChapaRefunds(p)
      PROVE  UNCHANGED sharedVars
  BY <1>6 DEF Create, CheckoutOpens, CheckoutFails, Age, CustomerPays,
     CustomerFails, CustomerPaysOther, CustomerRetries, ChapaRefunds, ChapaMoves
<1>7. ASSUME NEW h \in Handlers, RecordHook(h) \/ HandlerFails(h)
      PROVE  UNCHANGED sharedVars
  BY <1>7 DEF RecordHook, HandlerFails
<1> QED
  BY <1>1, <1>3, <1>4, <1>5, <1>6, <1>7 DEF DepositsNext

\* ... and neither do withdrawals.
LEMMA PayoutsPost ==
  ASSUME BooksTypeOK, NEW i \in Intents, PayoutStep(i)
  PROVE  ChapaPosting
<1>0. /\ Customer(i) \in Users /\ AmountOf(i) \in Nat
      /\ external \in Int /\ payoutHold \in Int
  BY PayoutsAssumption DEF Customer, AmountOf, BooksTypeOK
<1>1. UNCHANGED sharedVars => ChapaPosting
  BY DEF ChapaPosting, sharedVars, etbBooks, metalBooks
<1>2. CASE HoldRequest(i)
  <2>1. /\ cents' = [cents EXCEPT ![Customer(i)] = @ - AmountOf(i)]
        /\ payoutHold' = payoutHold + AmountOf(i)
        /\ UNCHANGED <<cash, charges, external, metalBooks, physical, today>>
    BY <1>2 DEF HoldRequest
  <2>2. -AmountOf(i) \in Int
        /\ cents[Customer(i)] + (-AmountOf(i)) = cents[Customer(i)] - AmountOf(i)
    BY <1>0 DEF BooksTypeOK
  <2>3. external' + payoutHold' = external + payoutHold - (-AmountOf(i))
    BY <1>0, <2>1
  <2>4. Moves(Customer(i), -AmountOf(i))
    BY <2>1, <2>2, <2>3 DEF Moves
  <2> QED
    BY <1>0, <2>1, <2>2, <2>4 DEF ChapaPosting
<1>3. CASE SettleLedger(i)
  <2>1. /\ cents' = cents /\ payoutHold' = payoutHold - AmountOf(i)
        /\ external' = external + AmountOf(i)
        /\ UNCHANGED <<cash, charges, metalBooks, physical, today>>
    BY <1>3 DEF SettleLedger
  <2>2. cents' = [cents EXCEPT ![Customer(i)] = @ + 0]
    BY <1>0, <2>1 DEF BooksTypeOK
  <2>3. external' + payoutHold' = external + payoutHold - 0
    BY <1>0, <2>1
  <2>4. Moves(Customer(i), 0)
    BY <2>1, <2>2, <2>3 DEF Moves
  <2> QED
    BY <1>0, <2>1, <2>4 DEF ChapaPosting
<1>4. ASSUME NEW from, RefundIfStatus(i, from) PROVE ChapaPosting
  <2>1. /\ cents' = [cents EXCEPT ![Customer(i)] = @ + AmountOf(i)]
        /\ payoutHold' = payoutHold - AmountOf(i)
        /\ UNCHANGED <<cash, charges, external, metalBooks, physical, today>>
    BY <1>4 DEF RefundIfStatus
  <2>2. external' + payoutHold' = external + payoutHold - AmountOf(i)
    BY <1>0, <2>1
  <2>3. Moves(Customer(i), AmountOf(i))
    BY <2>1, <2>2 DEF Moves
  <2> QED
    BY <1>0, <2>1, <2>3 DEF ChapaPosting
<1> QED
  BY <1>1, <1>2, <1>3, <1>4
     DEF PayoutStep, CreateIntent, IssueCode, CodeExpires, Confirm, BeginRequest,
         RefuseRequest, RequestFails, Route, StaffApprove, StaffReject, Claim,
         ClaimFails, Send, ChapaStep, ChapaDecides, SendAnswered, SenderStops,
         VerifyTransfer, SweepVerify, RefundAndReject

\* What the hold account has is a sum of what withdrawals hold.
LEMMA PayoutHoldNotNegative == ASSUME HoldMatchesPayouts' PROVE payoutHold' >= 0
<1> DEFINE now == HeldPayouts'
<1>1. now \in SUBSET Intents /\ payoutHold' = SumOf(now)
  BY DEF HeldPayouts, HoldMatchesPayouts
<1> HIDE DEF now
<1>2. SumOf(now) \in Nat
  BY <1>1, AmountsAdd
<1> QED
  BY <1>1, <1>2

\* A withdrawal overdraws nobody: the cents were there when they were set aside.
LEMMA PayoutsFunds ==
  ASSUME BooksTypeOK, NoOverdraft, NEW i \in Intents, PayoutStep(i),
         HoldMatchesPayouts'
  PROVE  NoOverdraft'
<1>0. Customer(i) \in Users /\ AmountOf(i) \in Nat
  BY PayoutsAssumption DEF Customer, AmountOf
<1>1. UNCHANGED metalBooks /\ payoutHold' >= 0
  BY PayoutsPost, PayoutHoldNotNegative DEF ChapaPosting
<1>2. ASSUME cents' = cents PROVE NoOverdraft'
  BY <1>1, <1>2 DEF NoOverdraft, metalBooks
<1>3. ASSUME cents'[Customer(i)] >= 0,
             \A u \in Users \ {Customer(i)} : cents'[u] = cents[u]
      PROVE  NoOverdraft'
  <2>1. \A u \in Users : cents'[u] >= 0
    BY <1>3 DEF NoOverdraft
  <2> QED
    BY <1>1, <2>1 DEF NoOverdraft, metalBooks
<1>4. CASE HoldRequest(i)
  <2>1. cents[Customer(i)] >= AmountOf(i)
    BY <1>4 DEF HoldRequest, Accepted
  <2>2. /\ cents'[Customer(i)] = cents[Customer(i)] - AmountOf(i)
        /\ \A u \in Users \ {Customer(i)} : cents'[u] = cents[u]
    BY <1>0, <1>4 DEF HoldRequest, BooksTypeOK
  <2>3. cents[Customer(i)] \in Int
    BY <1>0 DEF BooksTypeOK
  <2> QED
    BY <1>0, <1>3, <2>1, <2>2, <2>3
<1>5. ASSUME NEW from, RefundIfStatus(i, from) PROVE NoOverdraft'
  <2>1. cents[Customer(i)] >= 0 /\ cents[Customer(i)] \in Int
    BY <1>0 DEF NoOverdraft, BooksTypeOK
  <2>2. /\ cents'[Customer(i)] = cents[Customer(i)] + AmountOf(i)
        /\ \A u \in Users \ {Customer(i)} : cents'[u] = cents[u]
    BY <1>0, <1>5 DEF RefundIfStatus, BooksTypeOK
  <2> QED
    BY <1>0, <1>3, <2>1, <2>2
<1> QED
  BY <1>2, <1>4, <1>5
     DEF PayoutStep, CreateIntent, IssueCode, CodeExpires, Confirm, BeginRequest,
         RefuseRequest, RequestFails, Route, StaffApprove, StaffReject, Claim,
         ClaimFails, Send, ChapaStep, ChapaDecides, SendAnswered, SenderStops,
         VerifyTransfer, SweepVerify, SettleLedger, RefundAndReject, sharedVars,
         etbBooks

-----------------------------------------------------------------------------
(* The promise to the customer.  A step of a payout sets its money aside,   *)
(* declines it, asks the bank, is the bank's decision, writes the money off *)
(* or returns it, or leaves all that the promise is about alone.            *)

Stages == [i \in Intents |-> StageOf(payout[i].status)]
Banks == [i \in Intents |-> BankOf(transfer[i])]

\* The stages and verdicts a status and a transfer stand for are different.
LEMMA StagesDiffer ==
  /\ StageOf("none") = "new" /\ StageOf("settled") = "paid"
  /\ StageOf("rejected") = "closed"
  /\ StageOf("requested") = "held" /\ StageOf("processing") = "held"
  /\ BankOf("none") = "unasked" /\ BankOf("success") = "made"
  /\ BankOf("inflight") = "asked" /\ BankOf("queued") = "asked"
  /\ BankOf("refused") = "refused" /\ BankOf("failed") = "refused"
BY DEF StageOf, BankOf

\* A row whose status changes moves to the stage of the new status.
LEMMA StageMoves ==
  ASSUME PayoutRowsTypeOK, NEW i \in Intents, NEW s,
         \A j \in Intents \ {i} : payout'[j].status = payout[j].status,
         payout'[i].status = s
  PROVE  Stages' = [Stages EXCEPT ![i] = StageOf(s)]
BY DEF Stages, PayoutRowsTypeOK

\* Rows that keep their statuses keep their stages.
LEMMA StagesStay ==
  ASSUME \A j \in Intents : payout'[j].status = payout[j].status
  PROVE  Stages' = Stages
BY DEF Stages

\* A step that leaves stages, verdicts and money alone is a stutter.
LEMMA CustodyStays ==
  UNCHANGED <<Stages, Banks, cents, payoutHold, external, settings>>
    => UNCHANGED Custody!escrowVars
BY DEF Custody!escrowVars, Stages, Banks

\* A step of one payout leaves the statuses of the others alone.
LEMMA OtherStatuses ==
  ASSUME PayoutRowsTypeOK, NEW i \in Intents, PayoutStep(i)
  PROVE  \A j \in Intents \ {i} : payout'[j].status = payout[j].status
BY OthersSame DEF SameRow

\* The request: money is set aside or declined.
LEMMA RequestInCustody ==
  ASSUME PayoutsTypeOK, NEW i \in Intents, RefuseRequest(i) \/ HoldRequest(i)
  PROVE  Custody!EscrowNext
<1>1. PayoutRowsTypeOK /\ PayoutStep(i)
  BY DEF PayoutsTypeOK, PayoutStep
<1>2. Is(i, "none") /\ Stages[i] = "new"
  BY StagesDiffer DEF RefuseRequest, HoldRequest, InsertRow, KeyTaken, Is, Stages
<1>3. CASE RefuseRequest(i)
  <2>1. payout'[i].status = "rejected"
    BY <1>1, <1>3 DEF RefuseRequest, InsertRow, PayoutRowsTypeOK, NoPayout
  <2>2. Stages' = [Stages EXCEPT ![i] = "closed"]
    BY <1>1, <2>1, OtherStatuses, StageMoves, StagesDiffer
  <2>3. UNCHANGED <<Banks, cents, payoutHold, external, settings.test>>
    BY <1>3 DEF RefuseRequest, Banks, sharedVars, etbBooks
  <2>4. Custody!Decline(i)
    BY <1>2, <2>2, <2>3 DEF Custody!Decline, Custody!Reaches, Stages, Banks
  <2> QED
    BY <2>4 DEF Custody!EscrowNext
<1>4. CASE HoldRequest(i)
  <2>1. payout'[i].status = "requested"
    BY <1>1, <1>4 DEF HoldRequest, InsertRow, PayoutRowsTypeOK, NoPayout
  <2>2. Stages' = [Stages EXCEPT ![i] = "held"]
    BY <1>1, <2>1, OtherStatuses, StageMoves, StagesDiffer
  <2>3. UNCHANGED <<Banks, external, settings.test>>
    BY <1>4 DEF HoldRequest, Banks
  <2>4. Custody!Hold(i)
    BY <1>2, <1>4, <2>2, <2>3
       DEF Custody!Hold, Custody!Reaches, HoldRequest, Accepted, Stages, Banks
  <2> QED
    BY <2>4 DEF Custody!EscrowNext
<1> QED
  BY <1>3, <1>4

\* The transfer: the bank is asked, and decides.
LEMMA TransferInCustody ==
  ASSUME PayoutsTypeOK, PayoutsSound, NEW i \in Intents, Send(i) \/ ChapaStep(i)
  PROVE  [Custody!EscrowNext]_(Custody!escrowVars)
<1>1. PayoutRowsTypeOK /\ Sound(i) /\ Banks[i] = BankOf(transfer[i])
      /\ Stages[i] = StageOf(payout[i].status)
  BY DEF PayoutsTypeOK, PayoutsSound, Banks, Stages
<1>2. UNCHANGED <<Stages, cents, payoutHold, external, settings.test>>
  BY DEF Send, ChapaStep, ChapaDecides, Stages, sharedVars, etbBooks
<1>3. ASSUME NEW t, transfer' = [transfer EXCEPT ![i] = t]
      PROVE  Banks' = [Banks EXCEPT ![i] = BankOf(t)]
  BY <1>1, <1>3 DEF Banks, PayoutRowsTypeOK
<1>4. CASE Send(i)
  <2>1. transfer[i] = "none" /\ sender[i] = "sending" /\ ~Is(i, "rejected")
    BY <1>1, <1>4 DEF Send, Sound, SendsFirst
  <2>2. Banks' = [Banks EXCEPT ![i] = "asked"]
    BY <1>3, <1>4, StagesDiffer DEF Send
  <2>3. /\ ~Is(i, "none") /\ ~Is(i, "requested")
        /\ Is(i, "settled") => settings.test
    BY <1>1, <2>1 DEF Sound, Unsent, Resolved
  <2>4. Is(i, "processing") \/ (settings.test /\ Is(i, "settled"))
    BY <1>1, <2>1, <2>3, ExistingRow DEF Is, PayoutRows
  <2>5. Stages[i] = "held" \/ (settings.test /\ Stages[i] = "paid")
    BY <1>1, <2>4, StagesDiffer DEF Is
  <2>6. Custody!Ask(i)
    BY <1>1, <1>2, <2>1, <2>2, <2>5, StagesDiffer DEF Custody!Ask, Stages, Banks
  <2> QED
    BY <2>6 DEF Custody!EscrowNext
<1>5. CASE ChapaStep(i)
  <2>1. ASSUME NEW to \in {"queued", "refused"}, ChapaDecides(i, "inflight", to)
        PROVE  [Custody!EscrowNext]_(Custody!escrowVars)
    <3>1. transfer[i] = "inflight" /\ Banks' = [Banks EXCEPT ![i] = BankOf(to)]
          /\ UNCHANGED settings
      BY <1>3, <2>1 DEF ChapaDecides
    <3>2. CASE to = "queued"
      <4>1. BankOf(to) = Banks[i]
        BY <1>1, <3>1, <3>2, StagesDiffer
      <4>2. Banks' = Banks
        BY <3>1, <4>1 DEF Banks
      <4> QED
        BY <1>2, <3>1, <4>2, CustodyStays
    <3>3. CASE to = "refused"
      <4>0. BankOf(to) = "refused" /\ Banks[i] = "asked"
        BY <1>1, <3>1, <3>3, StagesDiffer
      <4>1. Custody!Decide(i)
        BY <1>2, <3>1, <4>0 DEF Custody!Decide, Stages, Banks
      <4> QED
        BY <4>1 DEF Custody!EscrowNext
    <3> QED
      BY <3>2, <3>3
  <2>2. ASSUME NEW to \in {"success", "failed"}, ChapaDecides(i, "queued", to)
        PROVE  Custody!EscrowNext
    <3>1. transfer[i] = "queued" /\ Banks' = [Banks EXCEPT ![i] = BankOf(to)]
      BY <1>3, <2>2 DEF ChapaDecides
    <3>2. BankOf(to) \in {"made", "refused"}
      BY StagesDiffer
    <3>3. Custody!Decide(i)
      BY <1>1, <1>2, <3>1, <3>2, StagesDiffer DEF Custody!Decide, Stages, Banks
    <3> QED
      BY <3>3 DEF Custody!EscrowNext
  <2> QED
    BY <1>5, <2>1, <2>2 DEF ChapaStep
<1> QED
  BY <1>4, <1>5

\* The resolution: an answer in hand says what the bank did.
LEMMA ResolutionInCustody ==
  ASSUME PayoutsTypeOK, PayoutsSound, NEW i \in Intents,
         SettleLedger(i) \/ RefundAndReject(i) \/ StaffReject(i)
  PROVE  Custody!EscrowNext
<1>1. /\ PayoutRowsTypeOK /\ Sound(i) /\ PayoutStep(i)
      /\ Banks[i] = BankOf(transfer[i]) /\ Stages[i] = StageOf(payout[i].status)
  BY DEF PayoutsTypeOK, PayoutsSound, PayoutStep, Banks, Stages
<1>2. UNCHANGED <<Banks, settings.test>>
  BY DEF SettleLedger, RefundAndReject, StaffReject, RefundIfStatus, Banks
<1>3. ASSUME NEW s, ~Is(i, "none"), SetPayout(i, s)
      PROVE  Stages' = [Stages EXCEPT ![i] = StageOf(s)]
  <2>1. payout[i] \in PayoutRows
    BY <1>1, <1>3, ExistingRow
  <2>2. payout'[i].status = s
    BY <1>1, <1>3, <2>1 DEF SetPayout, PayoutRowsTypeOK, PayoutRows
  <2> QED
    BY <1>1, <2>2, OtherStatuses, StageMoves
<1>4. CASE SettleLedger(i)
  <2>1. /\ Is(i, "processing") /\ "success" \in answers[i]
        /\ SetPayout(i, "settled") /\ UNCHANGED cents
        /\ payoutHold' = payoutHold - AmountOf(i)
        /\ external' = external + AmountOf(i)
    BY <1>4 DEF SettleLedger
  <2>2. settings.test \/ Banks[i] = "made"
    BY <1>1, <2>1, StagesDiffer DEF Sound, AnswersHold
  <2>3. Stages[i] = "held" /\ Stages' = [Stages EXCEPT ![i] = "paid"]
    BY <1>1, <1>3, <2>1, StagesDiffer DEF Is
  <2>4. Custody!WriteOff(i)
    BY <1>2, <2>1, <2>2, <2>3
       DEF Custody!WriteOff, Custody!Reaches, Stages, Banks
  <2> QED
    BY <2>4 DEF Custody!EscrowNext
<1>5. CASE RefundAndReject(i) \/ StaffReject(i)
  <2>1. PICK from \in {"requested", "processing"} :
               RefundIfStatus(i, from)
    BY <1>5 DEF RefundAndReject, StaffReject
  <2>2. /\ Is(i, from) /\ SetPayout(i, "rejected") /\ UNCHANGED external
        /\ payoutHold' = payoutHold - AmountOf(i)
        /\ cents' = [cents EXCEPT ![Customer(i)] = @ + AmountOf(i)]
    BY <2>1 DEF RefundIfStatus
  <2>3. Banks[i] \in {"unasked", "refused"}
    <3>1. CASE StaffReject(i)
      BY <1>1, <3>1, StagesDiffer
         DEF StaffReject, RefundIfStatus, Sound, Unsent
    <3>2. CASE RefundAndReject(i)
      BY <1>1, <3>2, StagesDiffer DEF RefundAndReject, Sound, AnswersHold
    <3> QED
      BY <1>5, <3>1, <3>2
  <2>4. Stages[i] = "held" /\ Stages' = [Stages EXCEPT ![i] = "closed"]
    BY <1>1, <1>3, <2>2, StagesDiffer DEF Is
  <2>5. Custody!Return(i)
    BY <1>2, <2>2, <2>3, <2>4
       DEF Custody!Return, Custody!Reaches, Stages, Banks
  <2> QED
    BY <2>5 DEF Custody!EscrowNext
<1> QED
  BY <1>4, <1>5

\* The other steps change nothing the customer was promised.
LEMMA CustodyStutters ==
  ASSUME PayoutsTypeOK, RoutesRow, NEW i \in Intents,
         \/ CreateIntent(i) \/ IssueCode(i) \/ CodeExpires(i) \/ Confirm(i)
         \/ BeginRequest(i) \/ RequestFails(i) \/ Route(i) \/ StaffApprove(i)
         \/ \E who \in {"auto", "staff"} : Claim(i, who) \/ ClaimFails(i, who)
         \/ SendAnswered(i) \/ SenderStops(i) \/ VerifyTransfer(i) \/ SweepVerify(i)
  PROVE  UNCHANGED Custody!escrowVars
<1>1. PayoutRowsTypeOK /\ PayoutStep(i)
  BY DEF PayoutsTypeOK, PayoutStep
<1>2. UNCHANGED <<transfer, cents, payoutHold, external, settings>>
  BY DEF CreateIntent, IssueCode, CodeExpires, Confirm, BeginRequest,
         RequestFails, Route, StaffApprove, Claim, ClaimFails, SendAnswered,
         SenderStops, VerifyTransfer, SweepVerify, sharedVars, etbBooks
<1>3. Stages' = Stages
  <2>1. CASE UNCHANGED payout
    BY <2>1 DEF Stages
  <2>2. CASE Route(i)
    <3>1. payout'[i].status = payout[i].status
      BY <1>1, <2>2, ExistingRow
         DEF Route, RoutesRow, Routes, PayoutRowsTypeOK, PayoutRows
    <3> QED
      BY <1>1, <3>1, OtherStatuses, StagesStay
  <2>3. ASSUME NEW who \in {"auto", "staff"}, Claim(i, who)
        PROVE  Stages' = Stages
    <3>1. payout[i].status = "requested" /\ payout[i] \in PayoutRows
      BY <1>1, <2>3, ExistingRow DEF Claim, Is
    <3>2. payout'[i].status = "processing"
      BY <1>1, <2>3, <3>1 DEF Claim, PayoutRowsTypeOK, PayoutRows
    <3>3. Stages' = [Stages EXCEPT ![i] = "held"]
      BY <1>1, <3>2, OtherStatuses, StageMoves, StagesDiffer
    <3>4. Stages[i] = "held"
      BY <3>1, StagesDiffer DEF Stages
    <3> QED
      BY <3>3, <3>4 DEF Stages
  <2> QED
    BY <2>1, <2>2, <2>3
       DEF CreateIntent, IssueCode, CodeExpires, Confirm, BeginRequest,
           RequestFails, StaffApprove, ClaimFails, SendAnswered, SenderStops,
           VerifyTransfer, SweepVerify
<1>4. Banks' = Banks
  BY <1>2 DEF Banks
<1> QED
  BY <1>2, <1>3, <1>4, CustodyStays

\* Whatever crashes, whichever answers are lost and whoever acts first, a
\* withdrawal goes through the stages that were promised and no others: the
\* refinement of the escrow by the payouts.
THEOREM PayoutsKeepCustody == PayoutsSpec => KeepsCustody
<1>1. PayoutsInit => Custody!EscrowInit
  BY PayoutsAssumption, StagesDiffer
     DEF PayoutsInit, BooksInit, NoPayout, Custody!EscrowInit
<1>2. ASSUME PayoutsTypeOK, PayoutsSound, [PayoutsNext]_payoutsAndBooks
      PROVE  [Custody!EscrowNext]_(Custody!escrowVars)
  <2>1. RoutesRow
    BY <1>2 DEF PayoutsSound, Sound, RoutesRow
  <2>2. ASSUME NEW i \in Intents, PayoutStep(i)
        PROVE  [Custody!EscrowNext]_(Custody!escrowVars)
    BY <1>2, <2>1, <2>2, RequestInCustody, TransferInCustody,
       ResolutionInCustody, CustodyStutters DEF PayoutStep
  <2>3. CASE (SharedNext /\ UNCHANGED payoutVars) \/ UNCHANGED payoutsAndBooks
    <3>1. UNCHANGED <<payout, transfer, cents, payoutHold, external, settings>>
      BY <2>3 DEF SharedNext, Midnight, Bar, Unbar, etbBooks, sharedVars,
                  payoutVars, payoutsAndBooks
    <3>2. Stages' = Stages /\ Banks' = Banks
      BY <3>1 DEF Stages, Banks
    <3> QED
      BY <3>1, <3>2, CustodyStays
  <2> QED
    BY <1>2, <2>2, <2>3 DEF PayoutsNext
<1> QED
  BY <1>1, <1>2, PayoutsInvariant, PTL
     DEF PayoutsSpec, KeepsCustody, Custody!EscrowSpec
=============================================================================
