------------------------------ MODULE Payments ------------------------------
(***************************************************************************)
(* Deposits through the Chapa checkout.  A payment row is created, the     *)
(* customer pays on Chapa's page, and the row is credited once Chapa's own *)
(* verify says it was paid.  Three paths lead to that check and may run at *)
(* once, in several processes: Chapa's webhooks (lost, repeated, delayed), *)
(* the customer's reconcile call and the periodic sweep.  None holds a     *)
(* lock while it waits for Chapa: each is a series of steps, and only the  *)
(* conditional UPDATE at the end is guarded by the row's current status.   *)
(*                                                                         *)
(* What is assumed of Chapa is external: the states its verify reports and *)
(* how they follow each other.                                             *)
(***************************************************************************)
EXTENDS Books

CONSTANTS
    Payments,    \* deposits
    Payer,       \* payment -> customer
    Amount,      \* payment -> cents asked for
    Handlers,    \* concurrent webhook, reconcile and sweep calls
    NoPayment,   \* payment of an idle handler
    Hooks,       \* webhook kinds that may reach us: "charge", "reversal"
    Retries,     \* may a customer retry a checkout Chapa reported failed?
    MaxCredits   \* bound on the credits counted per payment

ASSUME PaymentsAssumption ==
    /\ Payer \in [Payments -> Users]
    /\ Amount \in [Payments -> Nat \ {0}]
    /\ NoPayment \notin Payments
    /\ Hooks \subseteq {"charge", "reversal"}
    /\ Retries \in BOOLEAN
    /\ MaxCredits \in Nat

VARIABLES
    status,   \* the payment row's status
    chapa,    \* what Chapa's verify would report ("mismatch": a success in
              \* another amount, currency or mode)
    age,      \* 1: 10 minutes, 2: checkout closed at Chapa, 3: 3 days
    sent,     \* webhook kinds Chapa has sent for the payment
    handler,  \* each call's place, payment and the status it read
    credits,  \* deposit transactions posted for the payment
    debited,  \* cents taken back by reversals
    retried   \* payments whose customer reopened a failed checkout

paymentVars ==
    <<status, chapa, age, sent, handler, credits, debited, retried>>
paymentsAndBooks == <<sharedVars, paymentVars>>

Statuses == {"none", "initiated", "webhook_received", "failed",
             "credited", "reversed"}

\* Rows a later verified success may still credit.
CREDITABLE_Untouched == {"initiated"}  \* mutant: forgets webhook_received
CREDITABLE == {"initiated", "webhook_received", "failed"}

Places == {"record", "recordReversal", "read", "verify", "claim", "close",
           "expire", "reversalRead", "reversalVerify", "reversalApply"}

Idle == [at |-> "idle", pay |-> NoPayment, seen |-> "none", sweep |-> FALSE]

PaymentsTypeOK ==
    /\ BooksTypeOK
    /\ status \in [Payments -> Statuses]
    /\ chapa \in [Payments -> {"none", "absent", "pending", "failed",
                               "success", "mismatch", "refunded"}]
    /\ age \in [Payments -> 0 .. 3]
    /\ sent \in [Payments -> SUBSET {"charge", "reversal"}]
    /\ handler \in [Handlers -> {Idle} \cup
         [at : Places, pay : Payments, seen : Statuses, sweep : BOOLEAN]]
    /\ credits \in [Payments -> Nat]
    /\ debited \in [Payments -> Nat]
    /\ retried \subseteq Payments

PaymentsInit ==
    /\ BooksInit
    /\ status = [p \in Payments |-> "none"]
    /\ chapa = [p \in Payments |-> "none"]
    /\ age = [p \in Payments |-> 0]
    /\ sent = [p \in Payments |-> {}]
    /\ handler = [h \in Handlers |-> Idle]
    /\ credits = [p \in Payments |-> 0]
    /\ debited = [p \in Payments |-> 0]
    /\ retried = {}

SetPayment(p, s) == status' = [status EXCEPT ![p] = s]

-----------------------------------------------------------------------------
(* POST /payments: insert the row, then open the checkout at Chapa. *)

Create(p) ==
    /\ status[p] = "none"
    /\ Payer[p] \notin barred
    /\ SetPayment(p, "initiated")
    /\ UNCHANGED <<sharedVars, chapa, age, sent, handler, credits, debited,
                   retried>>

CheckoutOpens(p) ==
    /\ status[p] # "none" /\ chapa[p] = "none"
    /\ chapa' = [chapa EXCEPT ![p] = "pending"]
    /\ UNCHANGED <<sharedVars, status, age, sent, handler, credits, debited,
                   retried>>

\* Chapa refuses: the checkout never existed.
CheckoutFails(p) ==
    /\ status[p] # "none" /\ chapa[p] = "none"
    /\ chapa' = [chapa EXCEPT ![p] = "absent"]
    /\ SetPayment(p, IF status[p] = "credited" THEN "credited" ELSE "failed")
    /\ UNCHANGED <<sharedVars, age, sent, handler, credits, debited, retried>>

-----------------------------------------------------------------------------
(* Chapa and time. *)

ChapaMoves(p, from, to, kind) ==
    /\ chapa[p] = from
    /\ chapa' = [chapa EXCEPT ![p] = to]
    /\ sent' = [sent EXCEPT ![p] = @ \cup ({kind} \cap Hooks)]
    /\ retried' = IF from = "failed" THEN retried \cup {p} ELSE retried
    /\ UNCHANGED <<sharedVars, status, age, handler, credits, debited>>

CustomerPays(p) == age[p] < 2 /\ ChapaMoves(p, "pending", "success", "charge")
CustomerFails(p) == age[p] < 2 /\ ChapaMoves(p, "pending", "failed", "charge")
CustomerRetries(p) ==
    Retries /\ age[p] < 2 /\ ChapaMoves(p, "failed", "pending", "none")
CustomerPaysOther(p) ==
    age[p] < 2 /\ ChapaMoves(p, "pending", "mismatch", "charge")
ChapaRefunds(p) == ChapaMoves(p, "success", "refunded", "reversal")

\* A call lasts seconds: none spans the day between the checkout's closing
\* at Chapa and the three days after which the sweep gives up.
Age(p) ==
    /\ status[p] # "none" /\ age[p] < 3
    /\ age[p] = 2 => \A h \in Handlers : handler[h].pay # p
    /\ age' = [age EXCEPT ![p] = @ + 1]
    /\ UNCHANGED <<sharedVars, status, chapa, sent, handler, credits, debited,
                   retried>>

-----------------------------------------------------------------------------
(* The calls. *)

Start(h, p, at, sweep) ==
    /\ handler[h] = Idle
    /\ status[p] # "none"
    /\ handler' = [handler EXCEPT ![h] = [at |-> at, pay |-> p,
                                          seen |-> status[p], sweep |-> sweep]]
    /\ UNCHANGED <<sharedVars, status, chapa, age, sent, credits, debited,
                   retried>>

At(h, place) == handler[h].at = place
GoTo(h, place) == handler' = [handler EXCEPT ![h].at = place]
Done(h) == handler' = [handler EXCEPT ![h] = Idle]

\* The settle is over; the sweep goes on to the age check.
SettleDone(h) == IF handler[h].sweep THEN GoTo(h, "expire") ELSE Done(h)

\* A webhook arrives (again) and reads the row's status.
HookArrives(h, p) ==
    \/ "charge" \in sent[p] /\ Start(h, p, "record", FALSE)
    \/ "reversal" \in sent[p] /\ Start(h, p, "recordReversal", FALSE)

HookStatus_Event(h) ==  \* mutant: stores the event's name
    IF At(h, "record") THEN "charge" ELSE "reversal"
\* The status moves forward if what was READ was `initiated'.
HookStatus(h) ==
    IF handler[h].seen = "initiated" THEN "webhook_received"
    ELSE status[handler[h].pay]

\* It stores the event with an unconditional UPDATE.
RecordHook(h) ==
    LET p == handler[h].pay IN
    /\ At(h, "record") \/ At(h, "recordReversal")
    /\ SetPayment(p, HookStatus(h))
    /\ GoTo(h, IF At(h, "record") THEN "read" ELSE "reversalRead")
    /\ UNCHANGED <<sharedVars, chapa, age, sent, credits, debited, retried>>

Reconcile(h, p) == Start(h, p, "read", FALSE)

\* The sweep picks the open rows older than ten minutes.
SweepPicks(h, p) ==
    /\ status[p] \in {"initiated", "webhook_received"}
    /\ age[p] >= 1
    /\ Start(h, p, "read", TRUE)

-----------------------------------------------------------------------------
(* settleByTxRef. *)

ReadRow(h) ==
    /\ At(h, "read")
    /\ IF status[handler[h].pay] \in {"credited", "reversed"}
       THEN SettleDone(h) ELSE GoTo(h, "verify")
    /\ UNCHANGED <<sharedVars, status, chapa, age, sent, credits, debited,
                   retried>>

\* A success in the currency, amount and mode asked for may credit.
MatchingSuccess_Any(p) ==  \* mutant: amount, currency and mode unread
    chapa[p] \in {"success", "mismatch"}
MatchingSuccess(p) == chapa[p] = "success"

\* Chapa's answer; anything but a matching success or a failure changes nothing.
Verify(h) ==
    LET p == handler[h].pay IN
    /\ At(h, "verify")
    /\ \/ MatchingSuccess(p) /\ GoTo(h, "claim")
       \/ chapa[p] = "failed" /\ GoTo(h, "close")
       \/ ~MatchingSuccess(p) /\ chapa[p] # "failed" /\ SettleDone(h)
    /\ UNCHANGED <<sharedVars, status, chapa, age, sent, credits, debited,
                   retried>>

CloseFailed(h) ==
    LET p == handler[h].pay IN
    /\ At(h, "close")
    /\ SetPayment(p, IF status[p] \in CREDITABLE THEN "failed" ELSE status[p])
    /\ SettleDone(h)
    /\ UNCHANGED <<sharedVars, chapa, age, sent, credits, debited, retried>>

\* Credits (or, negative, takes back) cents against system:external.
PostDeposit(p, amount) ==
    /\ cents' = [cents EXCEPT ![Payer[p]] = @ + amount]
    /\ external' = external - amount
    /\ UNCHANGED <<cash, charges, payoutHold, metalBooks, physical, today>>

\* The claim: the conditional UPDATE is the mutex, and the credit commits
\* with it.
ClaimCredit(h) ==
    LET p == handler[h].pay IN
    /\ At(h, "claim") /\ status[p] \in CREDITABLE
    /\ credits[p] < MaxCredits
    /\ SetPayment(p, "credited")
    /\ PostDeposit(p, Amount[p])
    /\ credits' = [credits EXCEPT ![p] = @ + 1]
    /\ SettleDone(h)
    /\ UNCHANGED <<barred, chapa, age, sent, debited, retried>>

ClaimLost(h) ==
    /\ At(h, "claim") /\ status[handler[h].pay] \notin CREDITABLE
    /\ SettleDone(h)
    /\ UNCHANGED <<sharedVars, status, chapa, age, sent, credits, debited,
                   retried>>

\* The sweep closes a checkout nobody paid in three days.
Expire(h) ==
    LET p == handler[h].pay IN
    /\ At(h, "expire")
    /\ SetPayment(p, IF /\ age[p] = 3
                       /\ status[p] \in {"initiated", "webhook_received"}
                    THEN "failed" ELSE status[p])
    /\ Done(h)
    /\ UNCHANGED <<sharedVars, chapa, age, sent, credits, debited, retried>>

-----------------------------------------------------------------------------
(* handleReversal. *)

ReversalRead(h) ==
    /\ At(h, "reversalRead")
    /\ handler' = [handler EXCEPT ![h].at = "reversalVerify",
                                  ![h].seen = status[handler[h].pay]]
    /\ UNCHANGED <<sharedVars, status, chapa, age, sent, credits, debited,
                   retried>>

ReversalVerify(h) ==
    /\ At(h, "reversalVerify")
    /\ IF chapa[handler[h].pay] = "refunded" THEN GoTo(h, "reversalApply")
                                             ELSE Done(h)
    /\ UNCHANGED <<sharedVars, status, chapa, age, sent, credits, debited,
                   retried>>

\* The row was not credited when it was read: close it.
ReversalCloses(h) ==
    LET p == handler[h].pay IN
    /\ At(h, "reversalApply") /\ handler[h].seen # "credited"
    /\ SetPayment(p, IF status[p] # "credited" THEN "failed" ELSE "credited")
    /\ Done(h)
    /\ UNCHANGED <<sharedVars, chapa, age, sent, credits, debited, retried>>

Clawback_Full(p) == Amount[p]  \* mutant: ignores what is left

\* What is still there of the deposit.
Clawback(p) == IF cents[Payer[p]] >= Amount[p] THEN Amount[p]
               ELSE IF cents[Payer[p]] > 0 THEN cents[Payer[p]] ELSE 0

\* It was credited and still is: reverse it, debit, freeze the account.
ReversalDebits(h) ==
    LET p == handler[h].pay IN
    /\ At(h, "reversalApply") /\ handler[h].seen = "credited"
    /\ status[p] = "credited"
    /\ SetPayment(p, "reversed")
    /\ PostDeposit(p, -Clawback(p))
    /\ debited' = [debited EXCEPT ![p] = @ + Clawback(p)]
    /\ barred' = barred \cup {Payer[p]}
    /\ Done(h)
    /\ UNCHANGED <<chapa, age, sent, credits, retried>>

ReversalLost(h) ==
    /\ At(h, "reversalApply") /\ handler[h].seen = "credited"
    /\ status[handler[h].pay] # "credited"
    /\ Done(h)
    /\ UNCHANGED <<sharedVars, status, chapa, age, sent, credits, debited,
                   retried>>

\* The process dies, or a call to Chapa or the database fails.
HandlerFails(h) ==
    /\ handler[h] # Idle
    /\ Done(h)
    /\ UNCHANGED <<sharedVars, status, chapa, age, sent, credits, debited,
                   retried>>

\* Another component moves a cent of the customer's: a buy.
Spend(u) ==
    /\ cents[u] >= 1 /\ u \notin barred
    /\ cents' = [cents EXCEPT ![u] = @ - 1]
    /\ cash' = cash + 1
    /\ UNCHANGED <<charges, external, payoutHold, metalBooks, physical, barred,
                   today, paymentVars>>
-----------------------------------------------------------------------------
SettleStep(h) ==
    \/ ReadRow(h) \/ Verify(h) \/ CloseFailed(h)
    \/ ClaimCredit(h) \/ ClaimLost(h) \/ Expire(h)

ReversalStep(h) ==
    \/ ReversalRead(h) \/ ReversalVerify(h)
    \/ ReversalCloses(h) \/ ReversalDebits(h) \/ ReversalLost(h)

DepositsNext ==
    \/ \E p \in Payments :
         \/ Create(p) \/ CheckoutOpens(p) \/ CheckoutFails(p)
         \/ CustomerPays(p) \/ CustomerPaysOther(p) \/ CustomerFails(p)
         \/ CustomerRetries(p) \/ ChapaRefunds(p) \/ Age(p)
    \/ \E h \in Handlers :
         \/ \E p \in Payments :
              HookArrives(h, p) \/ Reconcile(h, p) \/ SweepPicks(h, p)
         \/ RecordHook(h) \/ SettleStep(h) \/ ReversalStep(h) \/ HandlerFails(h)

PaymentsNext == DepositsNext \/ \E u \in Users : Spend(u)

PaymentsSpec == PaymentsInit /\ [][PaymentsNext]_paymentsAndBooks

\* The sweep's timer keeps firing, and although any call may fail, not every
\* one does: for each payment, each step of a sweep that is possible again
\* and again is taken.  Calls under way end.
SweepsOf(p) == {h \in Handlers : handler[h].pay = p /\ handler[h].sweep}

SweepFairness ==
    \A p \in Payments :
        /\ SF_paymentsAndBooks(\E h \in Handlers : SweepPicks(h, p))
        /\ SF_paymentsAndBooks(\E h \in SweepsOf(p) : ReadRow(h))
        /\ SF_paymentsAndBooks(\E h \in SweepsOf(p) : Verify(h))
        /\ SF_paymentsAndBooks(\E h \in SweepsOf(p) : ClaimCredit(h))
        /\ WF_paymentsAndBooks(Age(p))

CallsEnd ==
    \A h \in Handlers :
        WF_paymentsAndBooks(RecordHook(h) \/ SettleStep(h) \/ ReversalStep(h))

PaymentsFairSpec == PaymentsSpec /\ SweepFairness /\ CallsEnd
-----------------------------------------------------------------------------
(* Properties. *)

\* Money is credited only for what Chapa itself confirmed as paid, in full
\* and in the currency and mode asked for, whatever webhooks say.
CreditOnlyVerified ==
    \A p \in Payments : credits[p] > 0 => chapa[p] \in {"success", "refunded"}

\* A reversal takes back no more than was credited, and the customer's
\* account is never pushed below zero to do so.
ClawbackCovered ==
    /\ \A p \in Payments : debited[p] <= credits[p] * Amount[p]
    /\ NoOverdraft

\* "Exactly one settle wins this UPDATE": a deposit is credited once.
CreditedAtMostOnce == \A p \in Payments : credits[p] <= 1

\* A customer who paid is credited in the end, also when the webhook is lost.
\* A checkout reopened after a failure is the exception, see PaidIsCredited.
FirstTryIsCredited ==
    \A p \in Payments :
        chapa[p] = "success" /\ p \notin retried
          ~> credits[p] > 0 \/ chapa[p] = "refunded"

\* "They must be credited": so is a customer who failed first, then paid.
PaidIsCredited ==
    \A p \in Payments :
        chapa[p] = "success"
          ~> credits[p] > 0 \/ chapa[p] = "refunded"
=============================================================================
