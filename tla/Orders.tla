------------------------------- MODULE Orders -------------------------------
(***************************************************************************)
(* Quotes and order execution.  A customer takes a quote, whose figures    *)
(* never change, and executes it with an idempotency key; large orders are *)
(* parked for compliance review and settled or refused by an officer.      *)
(*                                                                         *)
(* A call (POST /orders, or the officer's approval) opens its database     *)
(* transaction in one step and finishes it in another: now() is the time   *)
(* the transaction STARTED, while eatDayStartUtc() is evaluated when the   *)
(* checks run, after the wait for the account locks.  Between the two,     *)
(* other calls commit, a freeze lands, a quote lapses, the day changes, or *)
(* the process dies and the transaction rolls back.  Everything from the   *)
(* account locks to COMMIT is one step, as the locks make it.              *)
(***************************************************************************)
EXTENDS Books

CONSTANTS
    Quotes,      \* quote ids
    Terms,       \* quote -> [owner, side, asset, grams, subtotal, charge]
    Keys,        \* namespaced idempotency keys "user:key"; one order row each
    KeyOwner,    \* the user in the key's name
    Calls,       \* concurrent HTTP calls
    NoQuote,     \* quote of a key that has no order row yet
    NoKey,       \* key of a call that is not in flight
    Threshold,   \* COMPLIANCE_REVIEW_THRESHOLD_CENTS
    TxnCap,      \* holding tier: per-transaction cap
    DayCap,      \* holding tier: daily cap
    Ceiling      \* treasury_config.dailySellbackCeilingCents

ASSUME OrdersAssumption ==
    /\ Terms \in [Quotes -> [owner : Users, side : {"buy", "sell"},
                             asset : Assets, grams : Nat \ {0},
                             subtotal : Nat \ {0}, charge : Nat]]
    /\ \A q \in Quotes :
         Terms[q].side = "sell" => Terms[q].charge < Terms[q].subtotal
    /\ IsFiniteSet(Keys)
    /\ IsFiniteSet(Calls)
    /\ KeyOwner \in [Keys -> Users]
    /\ NoQuote \notin Quotes
    /\ NoKey \notin Keys
    /\ {Threshold, TxnCap, DayCap, Ceiling} \subseteq Nat

VARIABLES
    quote,    \* quote row's status ("none": not created yet)
    lapsed,   \* quotes past expires_at
    orders,   \* order row by idempotency key
    aged,     \* orders in review for longer than REVIEW_MAX_AGE_MIN
    call,     \* what each in-flight call has read so far
    event,    \* the order's compliance_event row
    closing   \* orders decided, events not yet marked resolved

orderVars == <<quote, lapsed, orders, aged, call, event, closing>>
ordersAndBooks == <<sharedVars, orderVars>>

\* `posted' counts the ledger transactions carrying the order's id, `checked'
\* is the day the settling checks saw, `direct' means no officer decided.
Row(status, q, created, settled, checked, posted, direct) ==
    [status |-> status, quote |-> q, created |-> created, settled |-> settled,
     checked |-> checked, posted |-> posted, direct |-> direct]

OrderRows == [status : {"review", "settled", "rejected"}, quote : Quotes,
              created : Days, settled : Days, checked : Days,
              posted : Nat, direct : BOOLEAN]
NoOrder == Row("none", NoQuote, 0, 0, 0, 0, FALSE)
IdleCall == [kind |-> "idle", key |-> NoKey, quote |-> NoQuote, since |-> 0]

OrdersTypeOK ==
    /\ quote \in [Quotes -> {"none", "open", "consumed", "expired"}]
    /\ lapsed \in SUBSET Quotes
    /\ orders \in [Keys -> {NoOrder} \cup OrderRows]
    /\ aged \in SUBSET Keys
    /\ call \in [Calls -> {IdleCall} \cup
         [kind : {"execute", "approve"}, key : Keys, quote : Quotes,
          since : Days]]
    /\ event \in [Keys -> {"none", "open", "resolved"}]
    /\ closing \in SUBSET Keys

OrdersInit ==
    /\ quote = [q \in Quotes |-> "none"]
    /\ lapsed = {}
    /\ orders = [k \in Keys |-> NoOrder]
    /\ aged = {}
    /\ call = [c \in Calls |-> IdleCall]
    /\ event = [k \in Keys |-> "none"]
    /\ closing = {}

-----------------------------------------------------------------------------
(* What the transaction computes under its account locks. *)

Owner(q) == Terms[q].owner
IsBuy(q) == Terms[q].side = "buy"

\* Subtotal plus charges for a buy, subtotal minus charges for a sell.
Total_ChargeAdded(q) == Terms[q].subtotal + Terms[q].charge  \* mutant
Total(q) == IF IsBuy(q) THEN Terms[q].subtotal + Terms[q].charge
                        ELSE Terms[q].subtotal - Terms[q].charge

\* Sum of the quote totals of a set of orders.
TotalOf(ks) == SumOver([k \in ks |-> Total(orders[k].quote)], ks)

HasOrder(k) == orders[k].status # "none"

TurnoverToday(u) ==
    TotalOf({k \in Keys : /\ HasOrder(k)
                          /\ KeyOwner[k] = u
                          /\ orders[k].status \in {"settled", "review"}
                          /\ orders[k].created >= today})

SettledToday_Earlier(u) ==  \* mutant: forgets today's
    TotalOf({k \in Keys : orders[k].status = "settled" /\ KeyOwner[k] = u
                          /\ orders[k].settled > today})
SettledToday(u) ==
    TotalOf({k \in Keys : /\ orders[k].status = "settled"
                          /\ KeyOwner[k] = u
                          /\ orders[k].settled >= today})

DailySellbackUsed_Earlier ==  \* mutant: forgets today's
    TotalOf({k \in Keys : orders[k].status = "settled"
                          /\ ~IsBuy(orders[k].quote)
                          /\ orders[k].settled > today})
DailySellbackUsed ==
    TotalOf({k \in Keys : /\ orders[k].status = "settled"
                          /\ ~IsBuy(orders[k].quote)
                          /\ orders[k].settled >= today})

Funded_Subtotal(q) ==  \* mutant: forgets the charges of a buy
    IF IsBuy(q) THEN cents[Owner(q)] >= Terms[q].subtotal
                ELSE metal[Owner(q)][Terms[q].asset] >= Terms[q].grams
Funded(q) == IF IsBuy(q) THEN cents[Owner(q)] >= Total(q)
                         ELSE metal[Owner(q)][Terms[q].asset] >= Terms[q].grams

\* The reserve gate: physical stock plus the (negative) vault ledger balance.
ReserveOpen_StockOnly(q) ==  \* mutant: ignores what is already owed
    physical[Terms[q].asset] >= Terms[q].grams
ReserveOpen(q) ==
    physical[Terms[q].asset] + vault[Terms[q].asset] >= Terms[q].grams

FloatOpen_Before(q) ==  \* mutant: checks the float before the pay-out
    cash >= Halt /\ DailySellbackUsed + Total(q) <= Ceiling
FloatOpen(q) ==
    /\ cash - Terms[q].subtotal >= Halt
    /\ DailySellbackUsed + Total(q) <= Ceiling

WithinTierCaps(q) ==
    /\ Total(q) <= TxnCap
    /\ SettledToday(Owner(q)) + Total(q) <= DayCap

\* The gates a review skips and an approval runs again.
GatesOpen(q) ==
    /\ WithinTierCaps(q)
    /\ IF IsBuy(q) THEN ReserveOpen(q) ELSE FloatOpen(q)

QuoteLive_UnlessLapsed(q) == q \notin lapsed  \* mutant: status unread
QuoteLive(q) == quote[q] = "open" /\ q \notin lapsed

\* The checks that precede the compliance routing.
Admissible(q) == QuoteLive(q) /\ Owner(q) \notin barred /\ Funded(q)

NeedsReview_Alone(q) == Total(q) >= Threshold  \* mutant: no aggregation
NeedsReview(q) == TurnoverToday(Owner(q)) + Total(q) >= Threshold

\* The double entries of a settled order, a sell being the mirror of a buy.
PostTrade(q) ==
    LET t == Terms[q]
        sign == IF IsBuy(q) THEN 1 ELSE -1
    IN  /\ cents' = [cents EXCEPT ![t.owner] = @ - sign * Total(q)]
        /\ cash' = cash + sign * t.subtotal
        /\ charges' = charges + t.charge
        /\ metal' = [metal EXCEPT ![t.owner][t.asset] = @ + sign * t.grams]
        /\ vault' = [vault EXCEPT ![t.asset] = @ - sign * t.grams]
        /\ UNCHANGED <<external, payoutHold, deliveryHold,
                       physical, barred, today>>

\* The row a call settles: settled_at is now(), the transaction's start.
Settled(c, q, created, direct) ==
    Row("settled", q, created, call[c].since, today,
        orders[call[c].key].posted + 1, direct)

-----------------------------------------------------------------------------
(* Quotes. *)

CreateQuote(q) ==
    /\ quote[q] = "none"
    /\ quote' = [quote EXCEPT ![q] = "open"]
    /\ UNCHANGED <<sharedVars, lapsed, orders, aged, call, event, closing>>

\* Thirty seconds pass; only an execution attempt writes `expired'.
QuoteLapses(q) ==
    /\ quote[q] = "open" /\ q \notin lapsed
    /\ lapsed' = lapsed \cup {q}
    /\ UNCHANGED <<sharedVars, quote, orders, aged, call, event, closing>>

-----------------------------------------------------------------------------
(* POST /orders. *)

\* No order holds the key, the quote exists and is the caller's: the
\* transaction opens.  (A key that has an order answers with it; a foreign
\* quote answers 404.  Neither changes anything.)
Begin(c, k, q) ==
    /\ call[c].kind = "idle"
    /\ ~HasOrder(k)
    /\ quote[q] # "none"
    /\ Owner(q) = KeyOwner[k]
    /\ call' = [call EXCEPT ![c] = [kind |-> "execute", key |-> k,
                                    quote |-> q, since |-> today]]
    /\ UNCHANGED <<sharedVars, quote, lapsed, orders, aged, event, closing>>

Executing(c) == call[c].kind = "execute"

ClaimsKey_Unguarded(c) == Executing(c)  \* mutant: no unique key
\* The insert that claims the key succeeded: no rival committed it first.
ClaimsKey(c) == Executing(c) /\ ~HasOrder(call[c].key)

Inserted_Created(c, status) ==  \* mutant: the row keeps its first status
    Row("created", call[c].quote, call[c].since, 0, 0, 0, FALSE)
Inserted(c, status) ==
    Row(status, call[c].quote, call[c].since, 0, 0, 0, FALSE)

EndCall(c) == call' = [call EXCEPT ![c] = IdleCall]

\* A rival's order holds the key: roll back, answer with the rival's order.
ExecuteReplay(c) ==
    /\ Executing(c) /\ HasOrder(call[c].key)
    /\ EndCall(c)
    /\ UNCHANGED <<sharedVars, quote, lapsed, orders, aged, event, closing>>

\* A business refusal commits; a lapsed quote is marked on the way.
ExecuteReject(c) ==
    LET q == call[c].quote IN
    /\ ClaimsKey(c)
    /\ \/ ~Admissible(q)
       \/ ~NeedsReview(q) /\ ~GatesOpen(q)
    /\ orders' = [orders EXCEPT ![call[c].key] = Inserted(c, "rejected")]
    /\ quote' = [quote EXCEPT ![q] = IF @ = "open" /\ q \in lapsed
                                     THEN "expired" ELSE @]
    /\ EndCall(c)
    /\ UNCHANGED <<sharedVars, lapsed, aged, event, closing>>

\* The order takes the day's turnover across the line: parked, no money moves.
ExecuteReview(c) ==
    LET k == call[c].key
        q == call[c].quote
    IN  /\ ClaimsKey(c)
        /\ Admissible(q) /\ NeedsReview(q)
        /\ quote' = [quote EXCEPT ![q] = "consumed"]
        /\ orders' = [orders EXCEPT ![k] = Inserted(c, "review")]
        /\ event' = [event EXCEPT ![k] = "open"]
        /\ EndCall(c)
        /\ UNCHANGED <<sharedVars, lapsed, aged, closing>>

ExecuteSettle(c) ==
    LET k == call[c].key
        q == call[c].quote
    IN  /\ ClaimsKey(c)
        /\ Admissible(q) /\ ~NeedsReview(q) /\ GatesOpen(q)
        /\ PostTrade(q)
        /\ quote' = [quote EXCEPT ![q] = "consumed"]
        /\ orders' = [orders EXCEPT ![k] = Settled(c, q, call[c].since, TRUE)]
        /\ EndCall(c)
        /\ UNCHANGED <<lapsed, aged, event, closing>>

\* The process dies or the database aborts the transaction: all rolled back,
\* and the client may call again with the same key.
Abort(c) ==
    /\ call[c].kind # "idle"
    /\ EndCall(c)
    /\ UNCHANGED <<sharedVars, quote, lapsed, orders, aged, event, closing>>

-----------------------------------------------------------------------------
(* Compliance review. *)

ReviewAges(k) ==
    /\ orders[k].status = "review" /\ k \notin aged
    /\ aged' = aged \cup {k}
    /\ UNCHANGED <<sharedVars, quote, lapsed, orders, call, event, closing>>

ReviewReject_AnyStatus(k) ==  \* mutant: unconditional UPDATE
    /\ HasOrder(k)
    /\ orders' = [orders EXCEPT ![k].status = "rejected"]
    /\ closing' = closing \cup {k}
    /\ UNCHANGED <<sharedVars, quote, lapsed, aged, call, event>>

\* The officer refuses: one conditional UPDATE.
ReviewReject(k) ==
    /\ orders[k].status = "review"
    /\ orders' = [orders EXCEPT ![k].status = "rejected"]
    /\ closing' = closing \cup {k}
    /\ UNCHANGED <<sharedVars, quote, lapsed, aged, call, event>>

BeginApprove(c, k) ==
    /\ call[c].kind = "idle"
    /\ orders[k].status = "review"
    /\ call' = [call EXCEPT ![c] = [kind |-> "approve", key |-> k,
                                    quote |-> orders[k].quote, since |-> today]]
    /\ UNCHANGED <<sharedVars, quote, lapsed, orders, aged, event, closing>>

Approving(c) == call[c].kind = "approve"

\* Another officer decided first: conflict, nothing changes.
ApproveConflict(c) ==
    /\ Approving(c) /\ orders[call[c].key].status # "review"
    /\ EndCall(c)
    /\ UNCHANGED <<sharedVars, quote, lapsed, orders, aged, event, closing>>

Approvable(k, q) ==
    k \notin aged /\ Owner(q) \notin barred /\ Funded(q) /\ GatesOpen(q)

\* A gate refuses the approval: a recorded rejection, like a live order.
ApproveRefused(c) ==
    LET k == call[c].key IN
    /\ Approving(c) /\ orders[k].status = "review"
    /\ ~Approvable(k, orders[k].quote)
    /\ orders' = [orders EXCEPT ![k].status = "rejected"]
    /\ closing' = closing \cup {k}
    /\ EndCall(c)
    /\ UNCHANGED <<sharedVars, quote, lapsed, aged, event>>

ApproveSettle(c) ==
    LET k == call[c].key
        q == orders[k].quote
    IN  /\ Approving(c) /\ orders[k].status = "review"
        /\ Approvable(k, q)
        /\ PostTrade(q)
        /\ orders' = [orders EXCEPT
                        ![k] = Settled(c, q, orders[k].created, FALSE)]
        /\ closing' = closing \cup {k}
        /\ EndCall(c)
        /\ UNCHANGED <<quote, lapsed, aged, event>>

\* After the decision has committed, a separate statement resolves the
\* order's compliance events ...
ResolveEvents(k) ==
    /\ k \in closing
    /\ event' = [event EXCEPT ![k] = "resolved"]
    /\ closing' = closing \ {k}
    /\ UNCHANGED <<sharedVars, quote, lapsed, orders, aged, call>>

\* ... unless the process dies in between.
CrashBeforeResolve(k) ==
    /\ k \in closing
    /\ closing' = closing \ {k}
    /\ UNCHANGED <<sharedVars, quote, lapsed, orders, aged, call, event>>

-----------------------------------------------------------------------------
CallStep(c) ==
    \/ \E k \in Keys, q \in Quotes : Begin(c, k, q)
    \/ ExecuteReplay(c)
    \/ ExecuteReject(c)
    \/ ExecuteReview(c)
    \/ ExecuteSettle(c)
    \/ \E k \in Keys : BeginApprove(c, k)
    \/ ApproveConflict(c)
    \/ ApproveRefused(c)
    \/ ApproveSettle(c)
    \/ Abort(c)

OrdersNext ==
    \/ \E q \in Quotes : CreateQuote(q) \/ QuoteLapses(q)
    \/ \E c \in Calls : CallStep(c)
    \/ \E k \in Keys : \/ ReviewAges(k)
                       \/ ReviewReject(k)
                       \/ ResolveEvents(k)
                       \/ CrashBeforeResolve(k)

OrdersStep == OrdersNext \/ (SharedNext /\ UNCHANGED orderVars)

OrdersStart == BooksInit /\ OrdersInit

OrdersSpec == OrdersStart /\ [][OrdersStep]_ordersAndBooks
-----------------------------------------------------------------------------
(* Properties. *)

TypeOK == BooksTypeOK /\ OrdersTypeOK

Live(k) == orders[k].status \in {"review", "settled"}

\* A quote executes at most once: two orders never both settle on it or wait
\* in review on it, and while one does the quote is consumed (so a review
\* keeps its price reserved against every other key and call).
QuoteExecutesOnce ==
    \A k \in Keys : Live(k) =>
        /\ quote[orders[k].quote] = "consumed"
        /\ \A j \in Keys \ {k} : Live(j) => orders[j].quote # orders[k].quote

\* Exactly one ledger transaction per settled order and none for any other,
\* whatever replays, double submits and double approvals happened.
PostedExactlyOnce ==
    \A k \in Keys :
        orders[k].posted = IF orders[k].status = "settled" THEN 1 ELSE 0

\* The sell-backs settled and checked on one EAT day stay within the published
\* ceiling, across customers, direct orders and approved reviews.
SellbackWithinCeiling ==
    \A d \in Days :
        TotalOf({k \in Keys : /\ orders[k].status = "settled"
                              /\ ~IsBuy(orders[k].quote)
                              /\ orders[k].settled = d
                              /\ orders[k].checked = d}) <= Ceiling

\* A customer's settled orders of one EAT day stay within the tier's cap.
TierDayCapHolds ==
    \A d \in Days, u \in Users :
        TotalOf({k \in Keys : /\ orders[k].status = "settled"
                              /\ KeyOwner[k] = u
                              /\ orders[k].settled = d
                              /\ orders[k].checked = d}) <= DayCap

\* Splitting a large trade does not dodge the review: what a customer
\* settles in one day with no officer's decision stays under the line.
UnreviewedBelowLine ==
    \A d \in Days, u \in Users :
        LET ks == {k \in Keys : /\ orders[k].status = "settled"
                                /\ orders[k].direct
                                /\ KeyOwner[k] = u
                                /\ orders[k].created = d
                                /\ orders[k].checked = d}
        IN  ks # {} => TotalOf(ks) < Threshold

\* Money leaves the float only while the halt threshold stays covered.
FloatFloor == [][cash' < cash => cash' >= Halt]_ordersAndBooks

\* Every step that moves money is a balanced ledger transaction touching one
\* customer: what the deferred zero-sum trigger checks at COMMIT.
PostingsBalance == [][ZeroSumPosting]_<<etbBooks, metalBooks>>

\* A decided order is never decided again, by a replay, a rival officer or a
\* late approval.
DecisionIsFinal ==
    [][\A k \in Keys : orders[k].status \in {"settled", "rejected"}
                          => orders'[k] = orders[k]]_ordersAndBooks
=============================================================================
