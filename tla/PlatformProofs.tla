--------------------------- MODULE PlatformProofs ---------------------------
(***************************************************************************)
(* Theorems about the platform that moves metal, for any customers,        *)
(* quotes, keys, calls, deliveries, prices and limits.  First orders alone *)
(* (the lemmas about OrdersNext are used again when other components step  *)
(* in between), then orders, deliveries and the treasury's entries         *)
(* together: the reserve is always backed, and the platform implements the *)
(* promise of module Reserve.                                              *)
(***************************************************************************)
EXTENDS Platform, BooksProofs

-----------------------------------------------------------------------------
(* Type correctness. *)

\* A step that keeps the rows of the orders keeps their types.
LEMMA SameOrdersType == OrdersTypeOK /\ UNCHANGED orderVars => OrdersTypeOK'
  BY DEF OrdersTypeOK, orderVars

\* A quote's total is a number, whatever its side.
LEMMA TotalType == \A q \in Quotes : Total(q) \in Int
  BY OrdersAssumption DEF Total, IsBuy

\* A settlement leaves the balances numbers.
LEMMA PostTradeType ==
  ASSUME BooksTypeOK, NEW q \in Quotes, PostTrade(q)
  PROVE  BooksTypeOK'
  BY OrdersAssumption, TotalType DEF BooksTypeOK, PostTrade

\* The types hold before the first call.
LEMMA OrdersInitType == BooksInit /\ OrdersInit => TypeOK
<1> SUFFICES ASSUME BooksInit, OrdersInit PROVE TypeOK
  OBVIOUS
<1>2. BooksTypeOK
  BY BooksInitType
<1>3. OrdersTypeOK
  BY BooksAssumption, OrdersAssumption
     DEF OrdersInit, OrdersTypeOK, NoOrder, IdleCall, Days
<1> QED
  BY <1>2, <1>3 DEF TypeOK

\* One committed call, and one step of the orders' own rows.
LEMMA CallStepType ==
  ASSUME TypeOK, NEW c \in Calls, CallStep(c)
  PROVE  TypeOK'
<1> DEFINE k == call[c].key
           q == call[c].quote
<1> USE OrdersAssumption DEF TypeOK, OrdersTypeOK
<1>0. call[c].kind # "idle" =>
        /\ k \in Keys /\ q \in Quotes /\ call[c].since \in Days
        /\ call[c].kind \in {"execute", "approve"}
  BY DEF IdleCall
<1>1. ASSUME NEW j \in Keys, NEW p \in Quotes, Begin(c, j, p) PROVE TypeOK'
  <2>1. BooksTypeOK'
    BY <1>1, SameBooksType DEF Begin
  <2> QED
    BY <1>1, <2>1 DEF Begin, BooksTypeOK
<1>2. CASE ExecuteReplay(c) \/ ApproveConflict(c) \/ Abort(c)
  <2>1. BooksTypeOK'
    BY <1>2, SameBooksType DEF ExecuteReplay, ApproveConflict, Abort
  <2> QED
    BY <1>2, <2>1 DEF ExecuteReplay, ApproveConflict, Abort, EndCall
<1>3. CASE ExecuteReject(c)
  <2>1. BooksTypeOK'
    BY <1>3, SameBooksType DEF ExecuteReject
  <2>2. Inserted(c, "rejected") \in OrderRows
    BY <1>0, <1>3, BooksAssumption
       DEF ExecuteReject, ClaimsKey, Executing, Inserted, Row, Days, OrderRows
  <2> QED
    BY <1>0, <1>3, <2>1, <2>2 DEF ExecuteReject, EndCall
<1>4. CASE ExecuteReview(c)
  <2>1. BooksTypeOK'
    BY <1>4, SameBooksType DEF ExecuteReview
  <2>2. Inserted(c, "review") \in OrderRows
    BY <1>0, <1>4, BooksAssumption
       DEF ExecuteReview, ClaimsKey, Executing, Inserted, Row, Days, OrderRows
  <2> QED
    BY <1>0, <1>4, <2>1, <2>2 DEF ExecuteReview, EndCall
<1>5. CASE ExecuteSettle(c)
  <2>1. q \in Quotes /\ k \in Keys
    BY <1>0, <1>5 DEF ExecuteSettle, ClaimsKey, Executing
  <2>2. BooksTypeOK'
    BY <1>5, <2>1, PostTradeType DEF ExecuteSettle
  <2>3. Settled(c, q, call[c].since, TRUE) \in OrderRows
    BY <1>0, <1>5, BooksAssumption
       DEF ExecuteSettle, ClaimsKey, Executing, HasOrder, Settled, Row,
           NoOrder, OrderRows, BooksTypeOK
  <2> QED
    BY <1>5, <2>1, <2>2, <2>3 DEF ExecuteSettle, EndCall
<1>6. CASE ApproveRefused(c)
  <2>1. BooksTypeOK'
    BY <1>6, SameBooksType DEF ApproveRefused
  <2>2. orders[k] \in OrderRows
    BY <1>0, <1>6 DEF ApproveRefused, Approving, NoOrder, Row
  <2>3. [orders[k] EXCEPT !.status = "rejected"] \in OrderRows
    BY <2>2 DEF OrderRows
  <2> QED
    BY <1>0, <1>6, <2>1, <2>3 DEF ApproveRefused, Approving, EndCall
<1>7. CASE ApproveSettle(c)
  <2> DEFINE p == orders[k].quote
  <2>1. k \in Keys
    BY <1>0, <1>7 DEF ApproveSettle, Approving
  <2>2. orders[k] \in OrderRows /\ p \in Quotes
    BY <2>1, <1>7 DEF ApproveSettle, NoOrder, Row, OrderRows
  <2>3. BooksTypeOK'
    BY <1>7, <2>2, PostTradeType DEF ApproveSettle
  <2>4. Settled(c, p, orders[k].created, FALSE) \in OrderRows
    BY <1>0, <1>7, <2>2, BooksAssumption
       DEF ApproveSettle, Approving, Settled, Row, OrderRows, BooksTypeOK
  <2> QED
    BY <1>7, <2>1, <2>3, <2>4 DEF ApproveSettle, EndCall
<1>8. ASSUME NEW j \in Keys, BeginApprove(c, j) PROVE TypeOK'
  <2>1. BooksTypeOK'
    BY <1>8, SameBooksType DEF BeginApprove
  <2>2. orders[j].quote \in Quotes
    BY <1>8 DEF BeginApprove, NoOrder, Row, OrderRows
  <2> QED
    BY <1>8, <2>1, <2>2 DEF BeginApprove, BooksTypeOK
<1> QED
  BY <1>1, <1>2, <1>3, <1>4, <1>5, <1>6, <1>7, <1>8 DEF CallStep

\* Every step of calls, customers and officers keeps the types.
LEMMA OrdersNextType == TypeOK /\ OrdersNext => TypeOK'
<1> SUFFICES ASSUME TypeOK, OrdersNext PROVE TypeOK'
  OBVIOUS
<1> USE DEF TypeOK, OrdersTypeOK
<1>1. ASSUME NEW q \in Quotes, CreateQuote(q) \/ QuoteLapses(q) PROVE TypeOK'
  <2>1. BooksTypeOK'
    BY <1>1, SameBooksType DEF CreateQuote, QuoteLapses
  <2> QED
    BY <1>1, <2>1 DEF CreateQuote, QuoteLapses
<1>2. ASSUME NEW c \in Calls, CallStep(c) PROVE TypeOK'
  BY <1>2, CallStepType
<1>3. ASSUME NEW k \in Keys, ReviewAges(k) \/ ResolveEvents(k)
                              \/ CrashBeforeResolve(k)
      PROVE  TypeOK'
  <2>1. BooksTypeOK'
    BY <1>3, SameBooksType DEF ReviewAges, ResolveEvents, CrashBeforeResolve
  <2> QED
    BY <1>3, <2>1 DEF ReviewAges, ResolveEvents, CrashBeforeResolve
<1>4. ASSUME NEW k \in Keys, ReviewReject(k) PROVE TypeOK'
  <2>1. BooksTypeOK'
    BY <1>4, SameBooksType DEF ReviewReject
  <2>2. orders[k] \in OrderRows
    BY <1>4 DEF ReviewReject, NoOrder, Row
  <2>3. [orders[k] EXCEPT !.status = "rejected"] \in OrderRows
    BY <2>2 DEF OrderRows
  <2> QED
    BY <1>4, <2>1, <2>3 DEF ReviewReject
<1> QED
  BY <1>1, <1>2, <1>3, <1>4 DEF OrdersNext

\* Rows, calls and balances keep their types whatever the calls do.
THEOREM OrdersTypeCorrect == OrdersSpec => []TypeOK
<1>1. TypeOK /\ [OrdersStep]_ordersAndBooks => TypeOK'
  <2> SUFFICES ASSUME TypeOK, [OrdersStep]_ordersAndBooks PROVE TypeOK'
    OBVIOUS
  <2>1. CASE SharedNext /\ UNCHANGED orderVars
    BY <2>1, SharedType, SameOrdersType DEF TypeOK
  <2>2. CASE UNCHANGED ordersAndBooks
    BY <2>2, SameBooksType, SameOrdersType DEF TypeOK, ordersAndBooks
  <2> QED
    BY <2>1, <2>2, OrdersNextType DEF OrdersStep
<1> QED
  BY <1>1, OrdersInitType, PTL DEF OrdersSpec, OrdersStart

-----------------------------------------------------------------------------
(* Money.  Only a settlement posts, and only with its gates open. *)

\* Of all the steps of quotes and orders only a settlement moves money, direct
\* or approved, and it was funded and its gates were open.
LEMMA OnlySettlementsPost ==
  ASSUME TypeOK, OrdersNext
  PROVE  \/ UNCHANGED sharedVars
         \/ \E q \in Quotes : PostTrade(q) /\ Funded(q) /\ GatesOpen(q)
<1>1. ASSUME NEW c \in Calls, CallStep(c)
      PROVE  \/ UNCHANGED sharedVars
             \/ \E q \in Quotes : PostTrade(q) /\ Funded(q) /\ GatesOpen(q)
  <2>1. call[c].kind # "idle" => call[c].quote \in Quotes
    BY DEF TypeOK, OrdersTypeOK, IdleCall
  <2>2. CASE ExecuteSettle(c)
    BY <2>1, <2>2 DEF ExecuteSettle, ClaimsKey, Executing, Admissible
  <2>3. CASE ApproveSettle(c)
    <3>1. call[c].key \in Keys
      BY <2>3 DEF ApproveSettle, Approving, TypeOK, OrdersTypeOK, IdleCall
    <3>2. orders[call[c].key].quote \in Quotes
      BY <2>3, <3>1 DEF ApproveSettle, TypeOK, OrdersTypeOK, NoOrder, Row,
                        OrderRows
    <3> QED
      BY <2>3, <3>2 DEF ApproveSettle, Approvable
  <2>4. CASE ~ExecuteSettle(c) /\ ~ApproveSettle(c)
    BY <1>1, <2>4 DEF CallStep, Begin, ExecuteReplay, ExecuteReject,
         ExecuteReview, BeginApprove, ApproveConflict, ApproveRefused, Abort
  <2> QED
    BY <2>2, <2>3, <2>4
<1> QED
  BY <1>1 DEF OrdersNext, CreateQuote, QuoteLapses, ReviewAges, ReviewReject,
       ResolveEvents, CrashBeforeResolve

\* A gated settlement leaves every owed gram in the vault.
LEMMA TradeKeepsReserve ==
  ASSUME TypeOK, ReserveBacked, NEW q \in Quotes, PostTrade(q), GatesOpen(q)
  PROVE  ReserveBacked'
  BY OrdersAssumption
     DEF TypeOK, BooksTypeOK, ReserveBacked, Owed, PostTrade, GatesOpen,
         ReserveOpen

\* A funded settlement overdraws nobody.
LEMMA TradeKeepsFunds ==
  ASSUME TypeOK, NoOverdraft, NEW q \in Quotes, PostTrade(q), Funded(q)
  PROVE  NoOverdraft'
<1> USE OrdersAssumption DEF TypeOK, BooksTypeOK, PostTrade, Funded, Owner
<1> DEFINE t == Terms[q]
<1>1. /\ t.owner \in Users /\ t.asset \in Assets
      /\ t.grams \in Nat /\ Total(q) \in Int
      /\ ~IsBuy(q) => Total(q) >= 0
  BY TotalType DEF Total, IsBuy
<1>2. ASSUME NEW u \in Users PROVE cents'[u] >= 0
  <2>1. CASE IsBuy(q)
    BY <1>1, <2>1 DEF NoOverdraft
  <2>2. CASE ~IsBuy(q)
    BY <1>1, <2>2 DEF NoOverdraft
  <2> QED
    BY <2>1, <2>2
<1>3. ASSUME NEW u \in Users, NEW a \in Assets PROVE metal'[u][a] >= 0
  <2>1. metal[u][a] \in Int /\ metal[u][a] >= 0
    BY DEF NoOverdraft
  <2>2. CASE IsBuy(q)
    <3>1. metal'[u][a] \in {metal[u][a], metal[u][a] + t.grams}
      BY <1>1, <2>2
    <3> QED
      BY <1>1, <2>1, <3>1
  <2>3. CASE ~IsBuy(q)
    <3>1. metal'[u][a] = IF u = t.owner /\ a = t.asset
                         THEN metal[u][a] - t.grams ELSE metal[u][a]
      BY <1>1, <2>3
    <3> QED
      BY <1>1, <2>1, <2>3, <3>1
  <2> QED
    BY <2>2, <2>3
<1> QED
  BY <1>2, <1>3 DEF NoOverdraft

\* The double entries of one trade sum to zero in ETB and in metal.
LEMMA TradeBalances ==
  ASSUME TypeOK, NEW q \in Quotes, PostTrade(q)
  PROVE  ZeroSumPosting
<1> USE OrdersAssumption DEF TypeOK, BooksTypeOK, PostTrade
<1> DEFINE u == Terms[q].owner
<1>1. \A v \in Users \ {u} : cents'[v] = cents[v] /\ metal'[v] = metal[v]
  OBVIOUS
<1>2. cents'[u] + cash' + charges' + external' + payoutHold'
        = cents[u] + cash + charges + external + payoutHold
  BY DEF Total, IsBuy
<1>3. \A a \in Assets : metal'[u][a] + vault'[a] + deliveryHold'[a]
                           = metal[u][a] + vault[a] + deliveryHold[a]
  BY DEF IsBuy
<1> QED
  BY <1>1, <1>2, <1>3 DEF ZeroSumPosting

\* Every ledger transaction of a trade balances, per currency and per metal,
\* and touches one customer.
THEOREM OrdersPostingsBalance == OrdersSpec => PostingsBalance
<1>1. ASSUME TypeOK, [OrdersStep]_ordersAndBooks
      PROVE  [ZeroSumPosting]_<<etbBooks, metalBooks>>
  BY <1>1, OnlySettlementsPost, TradeBalances
     DEF OrdersStep, SharedNext, Midnight, Bar, Unbar, ordersAndBooks, sharedVars
<1> QED
  BY <1>1, OrdersTypeCorrect, PTL DEF OrdersSpec, OrdersStart, PostingsBalance

\* A settlement that pays out leaves the float above the halt threshold.
LEMMA OrdersFloatStep ==
  ASSUME TypeOK, OrdersNext
  PROVE  cash' < cash => cash' >= Halt
<1>1. ASSUME NEW q \in Quotes, PostTrade(q), GatesOpen(q)
      PROVE  cash' < cash => cash' >= Halt
  BY <1>1, OrdersAssumption
     DEF TypeOK, BooksTypeOK, PostTrade, GatesOpen, FloatOpen, IsBuy
<1>2. UNCHANGED cash => ~(cash' < cash)
  BY DEF TypeOK, BooksTypeOK
<1> QED
  BY <1>1, <1>2, OnlySettlementsPost DEF sharedVars, etbBooks

\* A sell-back never takes the float below the halt threshold.
THEOREM OrdersFloatFloor == OrdersSpec => FloatFloor
<1>1. ASSUME TypeOK, [OrdersStep]_ordersAndBooks
      PROVE  [cash' < cash => cash' >= Halt]_ordersAndBooks
  <2>1. UNCHANGED cash => ~(cash' < cash)
    BY <1>1 DEF TypeOK, BooksTypeOK
  <2> QED
    BY <1>1, <2>1, OrdersFloatStep
       DEF OrdersStep, SharedNext, Midnight, Bar, Unbar, etbBooks
<1> QED
  BY <1>1, OrdersTypeCorrect, PTL DEF OrdersSpec, OrdersStart, FloatFloor

\* Nobody trades what they do not have: no customer account and no holding
\* account goes below zero.
THEOREM OrdersNoOverdraft == OrdersSpec => []NoOverdraft
<1>1. BooksInit => NoOverdraft
  BY BooksAssumption DEF BooksInit, NoOverdraft
<1>2. ASSUME TypeOK, NoOverdraft, [OrdersStep]_ordersAndBooks
      PROVE  NoOverdraft'
  <2>1. CASE UNCHANGED <<etbBooks, metalBooks>>
    BY <1>2, <2>1 DEF NoOverdraft, etbBooks, metalBooks
  <2>2. CASE OrdersNext
    BY <1>2, <2>1, <2>2, OnlySettlementsPost, TradeKeepsFunds DEF sharedVars
  <2>3. CASE SharedNext
    BY <2>1, <2>3 DEF SharedNext, Midnight, Bar, Unbar
  <2> QED
    BY <1>2, <2>1, <2>2, <2>3 DEF OrdersStep, ordersAndBooks, sharedVars
<1> QED
  BY <1>1, <1>2, OrdersTypeCorrect, PTL DEF OrdersSpec, OrdersStart

-----------------------------------------------------------------------------
(* Idempotency.  An order row changes only while it does not exist or is in *)
(* review, and a settlement is the only step that posts.                    *)

\* What a step may do to the rows: nothing; claim a free key for a refusal,
\* a review or a settlement; refuse or settle a review.
ClaimStep(k, q) ==
    /\ ~HasOrder(k)
    /\ \E row \in OrderRows :
         /\ row.quote = q /\ orders' = [orders EXCEPT ![k] = row]
         /\ row.posted = IF row.status = "settled" THEN 1 ELSE 0
         /\ row.status # "rejected" =>
              quote[q] = "open" /\ quote' = [quote EXCEPT ![q] = "consumed"]
         /\ row.status = "rejected" =>
              \A p \in Quotes : quote[p] = "consumed" => quote'[p] = "consumed"

\* A review is settled (one ledger transaction) or refused (none).
DecideStep(k) ==
    /\ orders[k].status = "review"
    /\ \E row \in OrderRows :
         /\ row.quote = orders[k].quote
         /\ orders' = [orders EXCEPT ![k] = row]
         /\ \/ row.status = "rejected" /\ row.posted = orders[k].posted
            \/ row.status = "settled" /\ row.posted = orders[k].posted + 1
    /\ quote' = quote

\* Every order row stays as it is, and no consumed quote is reopened.
OtherStep ==
    /\ orders' = orders
    /\ \A p \in Quotes : quote[p] = "consumed" => quote'[p] = "consumed"

\* What one step of a call does to the order and quote rows.
LEMMA CallRowSteps ==
  ASSUME TypeOK, NEW c \in Calls, CallStep(c)
  PROVE  \/ OtherStep
         \/ \E k \in Keys, q \in Quotes : ClaimStep(k, q)
         \/ \E k \in Keys : DecideStep(k)
<1> DEFINE k == call[c].key
           q == call[c].quote
<1> USE DEF TypeOK, OrdersTypeOK
<1>0. call[c].kind # "idle" =>
        k \in Keys /\ q \in Quotes /\ call[c].since \in Days
  BY DEF IdleCall
<1>1. ASSUME NEW s \in {"rejected", "review"}, Executing(c)
      PROVE  /\ Inserted(c, s) \in OrderRows
             /\ Inserted(c, s).quote = q
             /\ Inserted(c, s).status = s /\ Inserted(c, s).posted = 0
  BY <1>0, <1>1, BooksAssumption DEF Inserted, Row, OrderRows, Days, Executing
<1>2. today \in Days
  BY DEF BooksTypeOK
<1>3. CASE ExecuteReject(c)
  <2>1. \A p \in Quotes : quote[p] = "consumed" => quote'[p] = "consumed"
    BY <1>3 DEF ExecuteReject
  <2> QED
    BY <1>0, <1>1, <1>3, <2>1
       DEF ExecuteReject, ClaimsKey, Executing, ClaimStep
<1>4. CASE ExecuteReview(c)
  BY <1>0, <1>1, <1>4
     DEF ExecuteReview, ClaimsKey, Executing, ClaimStep, Admissible, QuoteLive
<1>5. CASE ExecuteSettle(c)
  <2>1. orders[k].posted = 0
    BY <1>0, <1>5 DEF ExecuteSettle, ClaimsKey, Executing, HasOrder, NoOrder,
                      Row, OrderRows
  <2> DEFINE row == Settled(c, q, call[c].since, TRUE)
  <2>2. /\ row \in OrderRows /\ row.quote = q
        /\ row.status = "settled" /\ row.posted = 1
    BY <1>0, <1>2, <1>5, <2>1
       DEF ExecuteSettle, ClaimsKey, Executing, Settled, Row, OrderRows
  <2> QED
    BY <1>0, <1>5, <2>2 DEF ExecuteSettle, ClaimsKey, Executing, ClaimStep,
                            Admissible, QuoteLive
<1>6. CASE ApproveRefused(c)
  <2>1. k \in Keys /\ orders[k] \in OrderRows
    BY <1>0, <1>6 DEF ApproveRefused, Approving, NoOrder, Row
  <2> DEFINE row == [orders[k] EXCEPT !.status = "rejected"]
  <2>2. /\ row \in OrderRows /\ row.quote = orders[k].quote
        /\ row.status = "rejected" /\ row.posted = orders[k].posted
    BY <2>1 DEF OrderRows
  <2> QED
    BY <1>6, <2>1, <2>2 DEF ApproveRefused, DecideStep
<1>7. CASE ApproveSettle(c)
  <2>1. k \in Keys /\ orders[k] \in OrderRows
    BY <1>0, <1>7 DEF ApproveSettle, Approving, NoOrder, Row
  <2>2. orders[k].quote \in Quotes /\ orders[k].created \in Days
    BY <2>1 DEF OrderRows
  <2> DEFINE row == Settled(c, orders[k].quote, orders[k].created, FALSE)
  <2>3. /\ row \in OrderRows /\ row.quote = orders[k].quote
        /\ row.status = "settled" /\ row.posted = orders[k].posted + 1
    BY <1>0, <1>2, <1>7, <2>1, <2>2
       DEF ApproveSettle, Approving, Settled, Row, OrderRows
  <2> QED
    BY <1>7, <2>1, <2>3 DEF ApproveSettle, DecideStep
<1>8. CASE ~(\/ ExecuteReject(c) \/ ExecuteReview(c) \/ ExecuteSettle(c)
             \/ ApproveRefused(c) \/ ApproveSettle(c))
  BY <1>8, CallStep(c) DEF CallStep, Begin, ExecuteReplay, BeginApprove,
       ApproveConflict, Abort, OtherStep
<1> QED
  BY <1>3, <1>4, <1>5, <1>6, <1>7, <1>8

\* The same for every step of the orders, and for a step that is none of theirs.
LEMMA RowSteps ==
  ASSUME TypeOK, [OrdersNext]_orderVars
  PROVE  \/ OtherStep
         \/ \E k \in Keys, q \in Quotes : ClaimStep(k, q)
         \/ \E k \in Keys : DecideStep(k)
<1>1. CASE \E c \in Calls : CallStep(c)
  BY <1>1, CallRowSteps
<1>2. ASSUME NEW k \in Keys, ReviewReject(k) PROVE DecideStep(k)
  <2>1. orders[k] \in OrderRows
    BY <1>2 DEF TypeOK, OrdersTypeOK, ReviewReject, NoOrder, Row
  <2> DEFINE row == [orders[k] EXCEPT !.status = "rejected"]
  <2>2. /\ row \in OrderRows /\ row.quote = orders[k].quote
        /\ row.status = "rejected" /\ row.posted = orders[k].posted
    BY <2>1 DEF OrderRows
  <2> QED
    BY <1>2, <2>2 DEF ReviewReject, DecideStep
<1>3. ASSUME NEW q \in Quotes, CreateQuote(q) \/ QuoteLapses(q) PROVE OtherStep
  BY <1>3 DEF CreateQuote, QuoteLapses, OtherStep, TypeOK, OrdersTypeOK
<1>4. ASSUME NEW k \in Keys,
             ReviewAges(k) \/ ResolveEvents(k) \/ CrashBeforeResolve(k)
      PROVE  OtherStep
  BY <1>4 DEF ReviewAges, ResolveEvents, CrashBeforeResolve, OtherStep
<1>5. CASE UNCHANGED orderVars
  BY <1>5 DEF orderVars, OtherStep
<1> QED
  BY <1>1, <1>2, <1>3, <1>4, <1>5 DEF OrdersNext

\* For the orders' rows, a freeze and midnight are such steps.
LEMMA OrdersOrNot == [OrdersStep]_ordersAndBooks => [OrdersNext]_orderVars
  BY DEF OrdersStep, ordersAndBooks

\* A decided row stays, in every step.
LEMMA FinalStep ==
  ASSUME TypeOK, [OrdersNext]_orderVars
  PROVE  \A k \in Keys : orders[k].status \in {"settled", "rejected"}
                            => orders'[k] = orders[k]
BY RowSteps
   DEF TypeOK, OrdersTypeOK, OtherStep, ClaimStep, DecideStep, HasOrder

\* A settled or rejected order is never decided again.
THEOREM OrdersDecisionIsFinal == OrdersSpec => DecisionIsFinal
<1>1. ASSUME TypeOK, [OrdersStep]_ordersAndBooks
      PROVE  [\A k \in Keys : orders[k].status \in {"settled", "rejected"}
                                => orders'[k] = orders[k]]_ordersAndBooks
  BY <1>1, OrdersOrNot, FinalStep
<1> QED
  BY <1>1, OrdersTypeCorrect, PTL DEF OrdersSpec, OrdersStart, DecisionIsFinal

\* Every step keeps one ledger transaction per settled order.
LEMMA PostedStep ==
  TypeOK /\ PostedExactlyOnce /\ [OrdersNext]_orderVars => PostedExactlyOnce'
BY RowSteps
   DEF TypeOK, OrdersTypeOK, PostedExactlyOnce, OtherStep, ClaimStep, DecideStep

\* Every step keeps one live order per quote.
LEMMA QuoteStep ==
  TypeOK /\ QuoteExecutesOnce /\ [OrdersNext]_orderVars => QuoteExecutesOnce'
<1> SUFFICES ASSUME TypeOK, QuoteExecutesOnce, [OrdersNext]_orderVars
             PROVE  QuoteExecutesOnce'
  OBVIOUS
<1> USE DEF TypeOK, OrdersTypeOK, QuoteExecutesOnce, Live
<1>0. \A k \in Keys : Live(k) => orders[k].quote \in Quotes
  BY DEF NoOrder, Row, OrderRows
<1>1. CASE OtherStep
  BY <1>0, <1>1 DEF OtherStep
<1>2. ASSUME NEW k \in Keys, NEW q \in Quotes, ClaimStep(k, q)
      PROVE  QuoteExecutesOnce'
  BY <1>0, <1>2 DEF ClaimStep, HasOrder
<1>3. ASSUME NEW k \in Keys, DecideStep(k) PROVE QuoteExecutesOnce'
  BY <1>0, <1>3 DEF DecideStep
<1> QED
  BY <1>1, <1>2, <1>3, RowSteps

\* Neither a transaction nor a live order before the first call.
LEMMA IdempotencyInit == OrdersInit => PostedExactlyOnce /\ QuoteExecutesOnce
  BY DEF OrdersInit, PostedExactlyOnce, QuoteExecutesOnce, Live, NoOrder, Row

\* Each settled order has exactly one ledger transaction, any other none.
THEOREM OrdersPostOnce == OrdersSpec => []PostedExactlyOnce
  BY IdempotencyInit, OrdersOrNot, PostedStep, OrdersTypeCorrect, PTL
     DEF OrdersSpec, OrdersStart

\* A quote executes, or waits in review, under one idempotency key at most.
THEOREM OrdersQuoteOnce == OrdersSpec => []QuoteExecutesOnce
  BY IdempotencyInit, OrdersOrNot, QuoteStep, OrdersTypeCorrect, PTL
     DEF OrdersSpec, OrdersStart

-----------------------------------------------------------------------------
(* The day's totals.  A limit is checked against the orders settled so far, *)
(* whatever other calls wait; a settled row is final, so a total grows only *)
(* by the settlement whose check read it.                                   *)

\* The totals of the quotes of some rows, in any state of the rows.
SumOfRows(rows, ks) == SumOver([k \in ks |-> Total(rows[k].quote)], ks)

\* A quote's total is never negative.
LEMMA TotalNat == \A q \in Quotes : Total(q) \in Nat
  BY OrdersAssumption DEF Total, IsBuy

\* Fewer rows, no larger a total.
LEMMA RowsSubset ==
  ASSUME NEW rows, NEW T \in SUBSET Keys, NEW S \in SUBSET T,
         \A k \in T : rows[k].quote \in Quotes
  PROVE  /\ SumOfRows(rows, S) <= SumOfRows(rows, T)
         /\ SumOfRows(rows, S) \in Nat /\ SumOfRows(rows, T) \in Nat
<1> DEFINE f == [k \in T |-> Total(rows[k].quote)]
           g == [k \in S |-> Total(rows[k].quote)]
<1>1. IsFiniteSet(T) /\ IsFiniteSet(S)
  BY OrdersAssumption, FS_Subset
<1>2. \A k \in T : f[k] \in Nat
  BY TotalNat
<1>3. \A k \in S : g[k] = f[k] /\ g[k] \in Nat
  BY <1>2
<1>4. SumOfRows(rows, S) = SumOver(g, S) /\ SumOfRows(rows, T) = SumOver(f, T)
  BY DEF SumOfRows
<1> HIDE DEF f, g
<1>5. SumOver(g, S) = SumOver(f, S)
  BY <1>3, SumSame
<1>6. SumOver(f, S) <= SumOver(f, T)
  BY <1>1, <1>2, SumSubset
<1>7. SumOver(g, S) \in Nat /\ SumOver(f, T) \in Nat
  BY <1>1, <1>2, <1>3, SumType
<1> QED
  BY <1>4, <1>5, <1>6, <1>7

\* Only the quotes of the rows matter.
LEMMA RowsSame ==
  ASSUME NEW rows, NEW after, NEW S \in SUBSET Keys,
         \A k \in S : after[k].quote = rows[k].quote
  PROVE  SumOfRows(after, S) = SumOfRows(rows, S)
<1> DEFINE f == [k \in S |-> Total(rows[k].quote)]
           g == [k \in S |-> Total(after[k].quote)]
<1>1. f = g
  OBVIOUS
<1> QED
  BY <1>1 DEF SumOfRows

\* One more row.
LEMMA RowsAdd ==
  ASSUME NEW rows, NEW S \in SUBSET Keys, NEW k \in Keys \ S,
         \A j \in S \cup {k} : rows[j].quote \in Quotes
  PROVE  SumOfRows(rows, S \cup {k}) = SumOfRows(rows, S) + Total(rows[k].quote)
<1> DEFINE f == [j \in S \cup {k} |-> Total(rows[j].quote)]
           g == [j \in S |-> Total(rows[j].quote)]
<1>1. IsFiniteSet(S)
  BY OrdersAssumption, FS_Subset
<1>2. \A j \in S \cup {k} : f[j] \in Nat
  BY TotalNat
<1>3. (\A j \in S : g[j] = f[j]) /\ f[k] = Total(rows[k].quote)
  OBVIOUS
<1>4. /\ SumOfRows(rows, S) = SumOver(g, S)
      /\ SumOfRows(rows, S \cup {k}) = SumOver(f, S \cup {k})
  BY DEF SumOfRows
<1> HIDE DEF f, g
<1>5. SumOver(g, S) = SumOver(f, S)
  BY <1>3, SumSame
<1>6. SumOver(f, S \cup {k}) = SumOver(f, S) + f[k]
  BY <1>1, <1>2, SumAdd
<1> QED
  BY <1>3, <1>4, <1>5, <1>6

\* Why a limit holds: the rows T counted after a step were counted before it,
\* in S, except one row k; and if k counts, all of S are among the rows U the
\* check added its quote to.
Checked(rows, after, m, k, q, S, T, U) ==
    /\ m \in Int /\ q \in Quotes /\ {S, T, U} \subseteq SUBSET Keys
    /\ \A j \in S \cup U : rows[j].quote \in Quotes
    /\ \A j \in T \ {k} : j \in S /\ after[j].quote = rows[j].quote
    /\ S # {} => SumOfRows(rows, S) <= m
    /\ k \in T => /\ S \subseteq U /\ k \notin U /\ after[k].quote = q
                  /\ SumOfRows(rows, U) + Total(q) <= m

LEMMA LimitKept ==
  ASSUME NEW rows, NEW after, NEW m, NEW k \in Keys, NEW q, NEW S, NEW T, NEW U,
         Checked(rows, after, m, k, q, S, T, U), T # {}
  PROVE  SumOfRows(after, T) <= m
<1> USE DEF Checked
<1> DEFINE rest == T \ {k}
<1>1. rest \in SUBSET S /\ rest \in SUBSET Keys
  OBVIOUS
<1>2. SumOfRows(after, rest) = SumOfRows(rows, rest)
  BY RowsSame
<1>3. CASE k \notin T
  <2>1. rest = T /\ S # {}
    BY <1>3
  <2>2. /\ SumOfRows(rows, rest) <= SumOfRows(rows, S)
        /\ SumOfRows(rows, rest) \in Nat /\ SumOfRows(rows, S) \in Nat
    BY <1>1, RowsSubset
  <2> HIDE DEF rest
  <2>3. SumOfRows(after, T) = SumOfRows(after, rest)
    BY <2>1
  <2> QED
    BY <1>2, <2>1, <2>2, <2>3
<1>4. CASE k \in T
  <2>1. rest \in SUBSET U /\ k \notin rest /\ rest \cup {k} = T
    BY <1>1, <1>4
  <2>2. \A j \in rest \cup {k} : after[j].quote \in Quotes
    BY <1>4
  <2>3. /\ SumOfRows(rows, rest) <= SumOfRows(rows, U)
        /\ SumOfRows(rows, rest) \in Nat /\ SumOfRows(rows, U) \in Nat
    BY <2>1, RowsSubset
  <2> HIDE DEF rest
  <2>4. SumOfRows(after, rest \cup {k})
          = SumOfRows(after, rest) + Total(after[k].quote)
    BY <1>1, <2>1, <2>2, RowsAdd
  <2>5. Total(q) \in Nat /\ after[k].quote = q
        /\ SumOfRows(rows, U) + Total(q) <= m
    BY <1>4, TotalNat
  <2>6. SumOfRows(after, T) = SumOfRows(rows, rest) + Total(q)
    BY <1>2, <2>1, <2>4, <2>5
  <2> QED
    BY <2>3, <2>5, <2>6
<1> QED
  BY <1>3, <1>4

\* A key's order, and a call about to claim it, are on a quote of the user in
\* the key's name.
CallOwns(c) == call[c].kind # "idle" => Owner(call[c].quote) = KeyOwner[call[c].key]
RowOwns(k) == HasOrder(k) => Owner(orders[k].quote) = KeyOwner[k]
OwnQuotes == (\A c \in Calls : CallOwns(c)) /\ (\A k \in Keys : RowOwns(k))

\* An officer's or a customer's call settles an order: the row it writes was
\* not settled, its gates were open, and it was below the line or approved.
SettlesAs(k, q, c, row) ==
    /\ orders' = [orders EXCEPT ![k] = row]
    /\ row.status = "settled" /\ row.quote = q /\ row.checked = today
    /\ row.direct = TRUE => /\ ~HasOrder(k) /\ ~NeedsReview(q)
                            /\ row.created = row.settled
    /\ call[c].kind # "idle" /\ row.settled = call[c].since
    /\ call' = [call EXCEPT ![c] = IdleCall]

SettlesOrder(k, q) ==
    /\ orders[k].status # "settled" /\ Owner(q) = KeyOwner[k] /\ GatesOpen(q)
    /\ \E row \in OrderRows, c \in Calls : SettlesAs(k, q, c, row)

NoSettlement ==
    \A k \in Keys : orders'[k].status = "settled" => orders'[k] = orders[k]

\* What a step does to the rows and to the calls keeps them the owner's.
LEMMA OwnsKept ==
  ASSUME TypeOK, OwnQuotes,
         \/ call' = call
         \/ \E c \in Calls : call' = [call EXCEPT ![c] = IdleCall]
         \/ \E c \in Calls, new \in [kind : {"execute", "approve"}, key : Keys,
                                     quote : Quotes, since : Days] :
              /\ call' = [call EXCEPT ![c] = new]
              /\ Owner(new.quote) = KeyOwner[new.key],
         \/ orders' = orders
         \/ \E k \in Keys, row \in OrderRows :
              /\ orders' = [orders EXCEPT ![k] = row]
              /\ Owner(row.quote) = KeyOwner[k]
  PROVE  OwnQuotes'
<1> USE DEF TypeOK, OrdersTypeOK, OwnQuotes
<1>1. \A k \in Keys : RowOwns(k)'
  BY DEF RowOwns, HasOrder
<1>2. \A c \in Calls : CallOwns(c)'
  BY DEF CallOwns, IdleCall
<1> QED
  BY <1>1, <1>2

\* So does every step of a call.
LEMMA CallOwnsStep ==
  ASSUME TypeOK, OwnQuotes, NEW c \in Calls, CallStep(c)
  PROVE  OwnQuotes'
<1> DEFINE k == call[c].key
           q == call[c].quote
           NewCall == [kind : {"execute", "approve"}, key : Keys,
                       quote : Quotes, since : Days]
           EndsCall == call' = [call EXCEPT ![c] = IdleCall]
           WritesRow == \E j \in Keys, row \in OrderRows :
                          /\ orders' = [orders EXCEPT ![j] = row]
                          /\ Owner(row.quote) = KeyOwner[j]
<1> USE DEF TypeOK, OrdersTypeOK
<1>0. /\ call[c].kind # "idle" =>
           /\ k \in Keys /\ q \in Quotes /\ call[c].since \in Days
           /\ Owner(q) = KeyOwner[k]
      /\ today \in Days
  BY DEF IdleCall, OwnQuotes, CallOwns, BooksTypeOK
<1>1. EndsCall /\ (orders' = orders \/ WritesRow) => OwnQuotes'
  BY OwnsKept
<1>2. ASSUME NEW j \in Keys, NEW p \in Quotes, Begin(c, j, p) PROVE OwnQuotes'
  <2> DEFINE new == [kind |-> "execute", key |-> j, quote |-> p, since |-> today]
  <2>1. /\ new \in NewCall /\ Owner(new.quote) = KeyOwner[new.key]
        /\ call' = [call EXCEPT ![c] = new] /\ orders' = orders
    BY <1>0, <1>2 DEF Begin
  <2> QED
    BY <2>1, OwnsKept
<1>3. ASSUME NEW j \in Keys, BeginApprove(c, j) PROVE OwnQuotes'
  <2> DEFINE new == [kind |-> "approve", key |-> j, quote |-> orders[j].quote,
                     since |-> today]
  <2>1. orders[j].quote \in Quotes /\ Owner(orders[j].quote) = KeyOwner[j]
    BY <1>3 DEF BeginApprove, NoOrder, Row, OrderRows, OwnQuotes, RowOwns,
                HasOrder
  <2>2. /\ new \in NewCall /\ Owner(new.quote) = KeyOwner[new.key]
        /\ call' = [call EXCEPT ![c] = new] /\ orders' = orders
    BY <1>0, <1>3, <2>1 DEF BeginApprove
  <2> QED
    BY <2>2, OwnsKept
<1>4. CASE ExecuteReplay(c) \/ ApproveConflict(c) \/ Abort(c)
  BY <1>1, <1>4 DEF ExecuteReplay, ApproveConflict, Abort, EndCall
<1>5. ASSUME NEW s \in {"rejected", "review"}, ClaimsKey(c), EndsCall,
             orders' = [orders EXCEPT ![k] = Inserted(c, s)]
      PROVE  OwnQuotes'
  <2>1. Inserted(c, s) \in OrderRows /\ Inserted(c, s).quote = q
    BY <1>0, <1>5, BooksAssumption
       DEF Inserted, Row, OrderRows, Days, ClaimsKey, Executing
  <2> QED
    BY <1>0, <1>1, <1>5, <2>1 DEF ClaimsKey, Executing
<1>6. CASE ExecuteSettle(c)
  <2> DEFINE row == Settled(c, q, call[c].since, TRUE)
  <2>1. row \in OrderRows /\ row.quote = q /\ k \in Keys
    BY <1>0, <1>6 DEF ExecuteSettle, ClaimsKey, Executing, Settled, Row,
                      OrderRows, HasOrder, NoOrder
  <2> QED
    BY <1>0, <1>1, <1>6, <2>1 DEF ExecuteSettle, ClaimsKey, Executing, EndCall
<1>7. ASSUME orders[k].status = "review", Approving(c) PROVE
        /\ k \in Keys /\ orders[k] \in OrderRows /\ orders[k].quote \in Quotes
        /\ Owner(orders[k].quote) = KeyOwner[k]
  BY <1>0, <1>7 DEF Approving, NoOrder, Row, OrderRows, OwnQuotes, RowOwns,
                    HasOrder
<1>8. CASE ApproveRefused(c)
  <2> DEFINE row == [orders[k] EXCEPT !.status = "rejected"]
  <2>1. row \in OrderRows /\ row.quote = orders[k].quote
    BY <1>7, <1>8 DEF ApproveRefused, OrderRows
  <2> QED
    BY <1>1, <1>7, <1>8, <2>1 DEF ApproveRefused, EndCall
<1>9. CASE ApproveSettle(c)
  <2> DEFINE row == Settled(c, orders[k].quote, orders[k].created, FALSE)
  <2>1. row \in OrderRows /\ row.quote = orders[k].quote
    BY <1>0, <1>7, <1>9
       DEF ApproveSettle, Approving, Settled, Row, OrderRows
  <2> QED
    BY <1>1, <1>7, <1>9, <2>1 DEF ApproveSettle, EndCall
<1> QED
  BY <1>2, <1>3, <1>4, <1>5, <1>6, <1>8, <1>9
     DEF CallStep, ExecuteReject, ExecuteReview, EndCall

\* So does every step.
LEMMA OwnsStep ==
  TypeOK /\ OwnQuotes /\ [OrdersNext]_orderVars => OwnQuotes'
<1> SUFFICES ASSUME TypeOK, OwnQuotes, [OrdersNext]_orderVars
             PROVE  OwnQuotes'
  OBVIOUS
<1>1. ASSUME NEW k \in Keys, ReviewReject(k) PROVE OwnQuotes'
  <2> DEFINE row == [orders[k] EXCEPT !.status = "rejected"]
  <2>1. orders[k] \in OrderRows /\ Owner(orders[k].quote) = KeyOwner[k]
    BY <1>1 DEF ReviewReject, TypeOK, OrdersTypeOK, NoOrder, Row, OwnQuotes,
                RowOwns, HasOrder
  <2>2. row \in OrderRows /\ row.quote = orders[k].quote
    BY <2>1 DEF OrderRows
  <2> QED
    BY <1>1, <2>1, <2>2, OwnsKept DEF ReviewReject
<1>2. ASSUME UNCHANGED <<call, orders>> PROVE OwnQuotes'
  BY <1>2, OwnsKept
<1> QED
  BY <1>1, <1>2, CallOwnsStep
     DEF OrdersNext, CreateQuote, QuoteLapses, ReviewAges,
         ResolveEvents, CrashBeforeResolve, orderVars

\* Every step settles one order whose checks passed, or none.
LEMMA SettleSteps ==
  ASSUME TypeOK, OwnQuotes, [OrdersNext]_orderVars
  PROVE  NoSettlement \/ \E k \in Keys, q \in Quotes : SettlesOrder(k, q)
<1> USE DEF TypeOK, OrdersTypeOK
<1>1. ASSUME NEW c \in Calls, ExecuteSettle(c)
      PROVE  \E k \in Keys, q \in Quotes : SettlesOrder(k, q)
  <2> DEFINE k == call[c].key
             q == call[c].quote
             row == Settled(c, q, call[c].since, TRUE)
  <2>1. k \in Keys /\ q \in Quotes /\ call[c].since \in Days /\ today \in Days
    BY <1>1 DEF ExecuteSettle, ClaimsKey, Executing, IdleCall, BooksTypeOK
  <2>2. Owner(q) = KeyOwner[k] /\ ~HasOrder(k) /\ GatesOpen(q) /\ ~NeedsReview(q)
    BY <1>1 DEF ExecuteSettle, ClaimsKey, Executing, OwnQuotes, CallOwns
  <2>3. row \in OrderRows
    BY <1>1, <2>1, <2>2 DEF Settled, Row, OrderRows, HasOrder, NoOrder
  <2>4. /\ row.status = "settled" /\ row.quote = q /\ row.checked = today
        /\ row.settled = call[c].since /\ row.created = call[c].since
    BY DEF Settled, Row
  <2>5. orders[k].status # "settled" /\ orders' = [orders EXCEPT ![k] = row]
        /\ call[c].kind # "idle" /\ call' = [call EXCEPT ![c] = IdleCall]
    BY <1>1, <2>2 DEF ExecuteSettle, ClaimsKey, Executing, EndCall, HasOrder
  <2>6. SettlesAs(k, q, c, row)
    BY <2>2, <2>4, <2>5 DEF SettlesAs
  <2> HIDE DEF k, q, row
  <2> QED
    BY <2>1, <2>2, <2>3, <2>5, <2>6 DEF SettlesOrder
<1>2. ASSUME NEW c \in Calls, ApproveSettle(c)
      PROVE  \E k \in Keys, q \in Quotes : SettlesOrder(k, q)
  <2> DEFINE k == call[c].key
             q == orders[k].quote
             row == Settled(c, q, orders[k].created, FALSE)
  <2>1. k \in Keys /\ call[c].since \in Days /\ today \in Days
    BY <1>2 DEF ApproveSettle, Approving, IdleCall, BooksTypeOK
  <2>2. orders[k] \in OrderRows
    BY <1>2, <2>1 DEF ApproveSettle, NoOrder, Row
  <2>3. q \in Quotes /\ Owner(q) = KeyOwner[k] /\ GatesOpen(q)
    BY <1>2, <2>1, <2>2 DEF ApproveSettle, Approvable, OrderRows, OwnQuotes,
                            RowOwns, HasOrder
  <2>4. row \in OrderRows
    BY <2>1, <2>2, <2>3 DEF Settled, Row, OrderRows
  <2>5. /\ row.status = "settled" /\ row.quote = q /\ row.checked = today
        /\ row.direct = FALSE /\ row.settled = call[c].since
    BY DEF Settled, Row
  <2>6. orders[k].status # "settled" /\ orders' = [orders EXCEPT ![k] = row]
        /\ call[c].kind # "idle" /\ call' = [call EXCEPT ![c] = IdleCall]
    BY <1>2 DEF ApproveSettle, Approving, EndCall
  <2>7. SettlesAs(k, q, c, row)
    BY <2>5, <2>6 DEF SettlesAs
  <2> HIDE DEF k, q, row
  <2> QED
    BY <2>1, <2>3, <2>4, <2>6, <2>7 DEF SettlesOrder
<1>3. ASSUME NEW k \in Keys, orders' = [orders EXCEPT ![k].status = "rejected"]
      PROVE  NoSettlement
  <2>1. orders'[k].status = "rejected"
    <3>1. orders[k] \in OrderRows \/ orders[k] = NoOrder
      OBVIOUS
    <3> QED
      BY <1>3, <3>1 DEF OrderRows, NoOrder, Row
  <2> QED
    BY <1>3, <2>1 DEF NoSettlement
<1>4. ASSUME NEW c \in Calls, NEW s \in {"rejected", "review"}, Executing(c),
             orders' = [orders EXCEPT ![call[c].key] = Inserted(c, s)]
      PROVE  NoSettlement
  <2>1. Inserted(c, s).status = s
    BY DEF Inserted, Row
  <2> QED
    BY <1>4, <2>1 DEF NoSettlement
<1>5. ASSUME NEW c \in Calls, ApproveRefused(c) PROVE NoSettlement
  <2>1. call[c].key \in Keys
    BY <1>5 DEF ApproveRefused, Approving, IdleCall
  <2> QED
    BY <1>3, <1>5, <2>1 DEF ApproveRefused
<1>6. ASSUME orders' = orders PROVE NoSettlement
  BY <1>6 DEF NoSettlement
<1>7. ASSUME NEW c \in Calls, CallStep(c), ~ExecuteSettle(c), ~ApproveSettle(c)
      PROVE  NoSettlement
  BY <1>4, <1>5, <1>6, <1>7
     DEF CallStep, Begin, ExecuteReplay, ExecuteReject, ExecuteReview,
         BeginApprove, ApproveConflict, Abort, ClaimsKey
<1>8. ASSUME NEW k \in Keys, ReviewReject(k) PROVE NoSettlement
  BY <1>3, <1>8 DEF ReviewReject
<1> QED
  BY <1>1, <1>2, <1>6, <1>7, <1>8
     DEF OrdersNext, CreateQuote, QuoteLapses, ReviewAges,
         ResolveEvents, CrashBeforeResolve, orderVars

\* What the types say of a settled or waiting row.
LEMMA CountedRow ==
  ASSUME TypeOK, NEW k \in Keys, HasOrder(k)
  PROVE  /\ orders[k].quote \in Quotes
         /\ orders[k].created \in Days /\ orders[k].settled \in Days
BY DEF TypeOK, OrdersTypeOK, HasOrder, NoOrder, Row, OrderRows

\* The rows of a day's sell-backs, of a customer's day under the tier's cap,
\* and of a customer's day without an officer.
Sellbacks(d) ==
    {k \in Keys : /\ orders[k].status = "settled" /\ ~IsBuy(orders[k].quote)
                  /\ orders[k].settled = d /\ orders[k].checked = d}
TierDay(d, u) ==
    {k \in Keys : /\ orders[k].status = "settled" /\ KeyOwner[k] = u
                  /\ orders[k].settled = d /\ orders[k].checked = d}
Unreviewed(d, u) ==
    {k \in Keys : /\ orders[k].status = "settled" /\ orders[k].direct = TRUE
                  /\ KeyOwner[k] = u
                  /\ orders[k].created = d /\ orders[k].checked = d}

\* The three limits.
LimitsHold ==
    /\ \A d \in Days : Sellbacks(d) # {} =>
         SumOfRows(orders, Sellbacks(d)) <= Ceiling
    /\ \A d \in Days, u \in Users : TierDay(d, u) # {} =>
         SumOfRows(orders, TierDay(d, u)) <= DayCap
    /\ \A d \in Days, u \in Users : Unreviewed(d, u) # {} =>
         SumOfRows(orders, Unreviewed(d, u)) <= Threshold - 1

\* The sum of no rows.
LEMMA NoRows == ASSUME NEW rows PROVE SumOfRows(rows, {}) = 0
  BY SumEmpty DEF SumOfRows

\* The properties in these terms.
LEMMA LimitsAre ==
  ASSUME TypeOK, LimitsHold
  PROVE  SellbackWithinCeiling /\ TierDayCapHolds /\ UnreviewedBelowLine
<1>0. {Ceiling, DayCap, Threshold} \subseteq Nat
  BY OrdersAssumption
<1>1. \A ks \in SUBSET Keys : TotalOf(ks) = SumOfRows(orders, ks)
  BY DEF TotalOf, SumOfRows
<1>2. ASSUME NEW d \in Days PROVE TotalOf(Sellbacks(d)) <= Ceiling
  <2>1. Sellbacks(d) \in SUBSET Keys
    BY DEF Sellbacks
  <2> QED
    BY <1>0, <1>1, <2>1, NoRows DEF LimitsHold
<1>3. ASSUME NEW d \in Days, NEW u \in Users
      PROVE  TotalOf(TierDay(d, u)) <= DayCap
  <2>1. TierDay(d, u) \in SUBSET Keys
    BY DEF TierDay
  <2> QED
    BY <1>0, <1>1, <2>1, NoRows DEF LimitsHold
<1>4. ASSUME NEW d \in Days, NEW u \in Users, NEW ks \in SUBSET Keys, ks # {},
             \A k \in ks : /\ orders[k].status = "settled" /\ orders[k].direct
                           /\ KeyOwner[k] = u
                           /\ orders[k].created = d /\ orders[k].checked = d
      PROVE  TotalOf(ks) < Threshold
  <2> DEFINE T == Unreviewed(d, u)
  <2>1. ks \subseteq T
    BY <1>4 DEF Unreviewed
  <2>2. T \in SUBSET Keys /\ T # {} /\ \A k \in T : HasOrder(k)
    BY <1>4, <2>1 DEF Unreviewed, HasOrder
  <2>3. SumOfRows(orders, T) <= Threshold - 1
    BY <2>2 DEF LimitsHold
  <2>4. \A k \in T : orders[k].quote \in Quotes
    BY <2>2, CountedRow
  <2> HIDE DEF T
  <2>5. /\ SumOfRows(orders, ks) <= SumOfRows(orders, T)
        /\ SumOfRows(orders, ks) \in Nat /\ SumOfRows(orders, T) \in Nat
    BY <2>1, <2>2, <2>4, RowsSubset
  <2> QED
    BY <1>0, <1>1, <2>3, <2>5
<1> QED
  BY <1>2, <1>3, <1>4
     DEF SellbackWithinCeiling, TierDayCapHolds, UnreviewedBelowLine,
         Sellbacks, TierDay

\* A settlement keeps the ceiling: a sell-back was added to all of the day's.
LEMMA CeilingKept ==
  ASSUME TypeOK, LimitsHold, NEW k \in Keys, NEW q \in Quotes, SettlesOrder(k, q),
         NEW d \in Days, NEW after, after = orders', NEW T \in SUBSET Keys,
         T # {}, T = Sellbacks(d)'
  PROVE  SumOfRows(after, T) <= Ceiling
<1> DEFINE S == Sellbacks(d)
           U == {j \in Keys : /\ orders[j].status = "settled"
                              /\ ~IsBuy(orders[j].quote)
                              /\ orders[j].settled >= today}
<1>1. S \in SUBSET Keys /\ U \in SUBSET Keys /\ Ceiling \in Int
  BY OrdersAssumption DEF Sellbacks
<1>2. \A j \in S \cup U : orders[j].quote \in Quotes
  BY CountedRow DEF Sellbacks, HasOrder
<1>3. \A j \in Keys \ {k} : after[j] = orders[j]
  BY DEF SettlesOrder, SettlesAs, TypeOK, OrdersTypeOK
<1>4. \A j \in T \ {k} : j \in S /\ after[j].quote = orders[j].quote
  BY <1>3 DEF Sellbacks
<1>5. S # {} => SumOfRows(orders, S) <= Ceiling
  BY DEF LimitsHold
<1>6. ASSUME k \in T
      PROVE  /\ S \subseteq U /\ k \notin U /\ after[k].quote = q
             /\ SumOfRows(orders, U) + Total(q) <= Ceiling
  <2>1. after[k].quote = q /\ after[k].checked = today
    BY DEF SettlesOrder, SettlesAs, TypeOK, OrdersTypeOK
  <2>2. d = today /\ ~IsBuy(q)
    BY <1>6, <2>1 DEF Sellbacks
  <2>3. S \subseteq U /\ k \notin U
    BY <2>2 DEF Sellbacks, SettlesOrder, SettlesAs, Days
  <2>4. DailySellbackUsed + Total(q) <= Ceiling
    BY <2>2 DEF SettlesOrder, SettlesAs, GatesOpen, FloatOpen
  <2>5. DailySellbackUsed = SumOfRows(orders, U)
    BY DEF DailySellbackUsed, TotalOf, SumOfRows
  <2> QED
    BY <2>1, <2>3, <2>4, <2>5
<1> HIDE DEF S, U
<1>7. Checked(orders, after, Ceiling, k, q, S, T, U)
  BY <1>1, <1>2, <1>4, <1>5, <1>6 DEF Checked
<1> QED
  BY <1>7, LimitKept

\* It keeps the tier's daily cap: the order was added to all of the customer's.
LEMMA DayCapKept ==
  ASSUME TypeOK, LimitsHold, NEW k \in Keys, NEW q \in Quotes, SettlesOrder(k, q),
         NEW d \in Days, NEW u \in Users, NEW after, after = orders',
         NEW T \in SUBSET Keys, T # {}, T = TierDay(d, u)'
  PROVE  SumOfRows(after, T) <= DayCap
<1> DEFINE S == TierDay(d, u)
           U == {j \in Keys : /\ orders[j].status = "settled"
                              /\ KeyOwner[j] = Owner(q)
                              /\ orders[j].settled >= today}
<1>1. S \in SUBSET Keys /\ U \in SUBSET Keys /\ DayCap \in Int
  BY OrdersAssumption DEF TierDay
<1>2. \A j \in S \cup U : orders[j].quote \in Quotes
  BY CountedRow DEF TierDay, HasOrder
<1>3. \A j \in Keys \ {k} : after[j] = orders[j]
  BY DEF SettlesOrder, SettlesAs, TypeOK, OrdersTypeOK
<1>4. \A j \in T \ {k} : j \in S /\ after[j].quote = orders[j].quote
  BY <1>3 DEF TierDay
<1>5. S # {} => SumOfRows(orders, S) <= DayCap
  BY DEF LimitsHold
<1>6. ASSUME k \in T
      PROVE  /\ S \subseteq U /\ k \notin U /\ after[k].quote = q
             /\ SumOfRows(orders, U) + Total(q) <= DayCap
  <2>1. after[k].quote = q /\ after[k].checked = today
    BY DEF SettlesOrder, SettlesAs, TypeOK, OrdersTypeOK
  <2>2. d = today /\ Owner(q) = u
    BY <1>6, <2>1 DEF TierDay, SettlesOrder
  <2>3. S \subseteq U /\ k \notin U
    BY <2>2 DEF TierDay, SettlesOrder, SettlesAs, Days
  <2>4. SettledToday(Owner(q)) + Total(q) <= DayCap
    BY DEF SettlesOrder, SettlesAs, GatesOpen, WithinTierCaps
  <2>5. SettledToday(Owner(q)) = SumOfRows(orders, U)
    BY DEF SettledToday, TotalOf, SumOfRows
  <2> QED
    BY <2>1, <2>3, <2>4, <2>5
<1> HIDE DEF S, U
<1>7. Checked(orders, after, DayCap, k, q, S, T, U)
  BY <1>1, <1>2, <1>4, <1>5, <1>6 DEF Checked
<1> QED
  BY <1>7, LimitKept

\* It keeps the review line: an order no officer saw was added to all of the
\* customer's, those in review included.
LEMMA LineKept ==
  ASSUME TypeOK, LimitsHold, NEW k \in Keys, NEW q \in Quotes, SettlesOrder(k, q),
         NEW d \in Days, NEW u \in Users, NEW after, after = orders',
         NEW T \in SUBSET Keys, T # {}, T = Unreviewed(d, u)'
  PROVE  SumOfRows(after, T) <= Threshold - 1
<1> DEFINE S == Unreviewed(d, u)
           U == {j \in Keys : /\ HasOrder(j) /\ KeyOwner[j] = Owner(q)
                              /\ orders[j].status \in {"settled", "review"}
                              /\ orders[j].created >= today}
<1>1. S \in SUBSET Keys /\ U \in SUBSET Keys /\ Threshold - 1 \in Int
  BY OrdersAssumption DEF Unreviewed
<1>2. \A j \in S \cup U : orders[j].quote \in Quotes
  BY CountedRow DEF Unreviewed, HasOrder
<1>3. \A j \in Keys \ {k} : after[j] = orders[j]
  BY DEF SettlesOrder, SettlesAs, TypeOK, OrdersTypeOK
<1>4. \A j \in T \ {k} : j \in S /\ after[j].quote = orders[j].quote
  BY <1>3 DEF Unreviewed
<1>5. S # {} => SumOfRows(orders, S) <= Threshold - 1
  BY DEF LimitsHold
<1>6. ASSUME k \in T
      PROVE  /\ S \subseteq U /\ k \notin U /\ after[k].quote = q
             /\ SumOfRows(orders, U) + Total(q) <= Threshold - 1
  <2>1. after[k].quote = q /\ after[k].checked = today
    BY DEF SettlesOrder, SettlesAs, TypeOK, OrdersTypeOK
  <2>2. d = today /\ Owner(q) = u /\ after[k].direct = TRUE
    BY <1>6, <2>1 DEF Unreviewed, SettlesOrder
  <2>3. ~HasOrder(k) /\ ~NeedsReview(q)
    BY <2>2 DEF SettlesOrder, SettlesAs, TypeOK, OrdersTypeOK
  <2>4. S \subseteq U /\ k \notin U
    BY <2>2, <2>3 DEF Unreviewed, HasOrder, Days
  <2>5. TurnoverToday(Owner(q)) = SumOfRows(orders, U)
    BY DEF TurnoverToday, TotalOf, SumOfRows
  <2>6. SumOfRows(orders, U) \in Nat /\ Total(q) \in Nat
    BY <1>2, RowsSubset, TotalNat
  <2>7. ~(SumOfRows(orders, U) + Total(q) >= Threshold)
    BY <2>3, <2>5 DEF NeedsReview
  <2> HIDE DEF S, U
  <2>8. SumOfRows(orders, U) + Total(q) <= Threshold - 1
    BY <2>6, <2>7, OrdersAssumption
  <2> QED
    BY <2>1, <2>4, <2>8
<1> HIDE DEF S, U
<1>7. Checked(orders, after, Threshold - 1, k, q, S, T, U)
  BY <1>1, <1>2, <1>4, <1>5, <1>6 DEF Checked
<1> QED
  BY <1>7, LimitKept

\* Without a settlement the sums are over the same or fewer rows.
LEMMA NoSettlementKeeps ==
  ASSUME TypeOK, LimitsHold, NoSettlement, NEW after, after = orders',
         NEW S \in SUBSET Keys, NEW T \in SUBSET S, T # {}, NEW m \in Int,
         \A j \in S : orders[j].status = "settled",
         \A j \in T : after[j].status = "settled",
         SumOfRows(orders, S) <= m
  PROVE  SumOfRows(after, T) <= m
<1>1. \A j \in T : after[j].quote = orders[j].quote
  BY DEF NoSettlement
<1>2. \A j \in S : orders[j].quote \in Quotes
  BY CountedRow DEF HasOrder
<1>3. SumOfRows(after, T) = SumOfRows(orders, T)
  BY <1>1, RowsSame
<1>4. /\ SumOfRows(orders, T) <= SumOfRows(orders, S)
      /\ SumOfRows(orders, T) \in Nat /\ SumOfRows(orders, S) \in Nat
  BY <1>2, RowsSubset
<1> QED
  BY <1>3, <1>4

\* Every step keeps the three limits.
LEMMA LimitsStep ==
  TypeOK /\ OwnQuotes /\ LimitsHold /\ [OrdersNext]_orderVars
    => LimitsHold'
<1> SUFFICES ASSUME TypeOK, OwnQuotes, LimitsHold, [OrdersNext]_orderVars
             PROVE  LimitsHold'
  OBVIOUS
<1> DEFINE after == orders'
<1>0. Ceiling \in Int /\ DayCap \in Int /\ Threshold - 1 \in Int
  BY OrdersAssumption
<1>1. ASSUME NEW d \in Days, Sellbacks(d)' # {}
      PROVE  SumOfRows(after, Sellbacks(d)') <= Ceiling
  <2> DEFINE T == Sellbacks(d)'
             S == Sellbacks(d)
  <2>1. T \in SUBSET Keys /\ S \in SUBSET Keys
        /\ \A j \in S : orders[j].status = "settled"
    BY DEF Sellbacks
  <2>2. \A j \in T : after[j].status = "settled"
    BY DEF Sellbacks
  <2>3. CASE NoSettlement
    <3>1. T \subseteq S
      BY <2>3 DEF Sellbacks, NoSettlement
    <3>2. SumOfRows(orders, S) <= Ceiling
      BY <1>1, <3>1 DEF LimitsHold
    <3> HIDE DEF S, T, after
    <3> QED
      BY <1>0, <1>1, <2>1, <2>2, <2>3, <3>1, <3>2, NoSettlementKeeps
         DEF T, after
  <2> HIDE DEF after
  <2> QED
    BY <1>1, <2>1, <2>3, SettleSteps, CeilingKept DEF after
<1>2. ASSUME NEW d \in Days, NEW u \in Users, TierDay(d, u)' # {}
      PROVE  SumOfRows(after, TierDay(d, u)') <= DayCap
  <2> DEFINE T == TierDay(d, u)'
             S == TierDay(d, u)
  <2>1. T \in SUBSET Keys /\ S \in SUBSET Keys
        /\ \A j \in S : orders[j].status = "settled"
    BY DEF TierDay
  <2>2. \A j \in T : after[j].status = "settled"
    BY DEF TierDay
  <2>3. CASE NoSettlement
    <3>1. T \subseteq S
      BY <2>3 DEF TierDay, NoSettlement
    <3>2. SumOfRows(orders, S) <= DayCap
      BY <1>2, <3>1 DEF LimitsHold
    <3> HIDE DEF S, T, after
    <3> QED
      BY <1>0, <1>2, <2>1, <2>2, <2>3, <3>1, <3>2, NoSettlementKeeps
         DEF T, after
  <2> HIDE DEF after
  <2> QED
    BY <1>2, <2>1, <2>3, SettleSteps, DayCapKept DEF after
<1>3. ASSUME NEW d \in Days, NEW u \in Users, Unreviewed(d, u)' # {}
      PROVE  SumOfRows(after, Unreviewed(d, u)') <= Threshold - 1
  <2> DEFINE T == Unreviewed(d, u)'
             S == Unreviewed(d, u)
  <2>1. T \in SUBSET Keys /\ S \in SUBSET Keys
        /\ \A j \in S : orders[j].status = "settled"
    BY DEF Unreviewed
  <2>2. \A j \in T : after[j].status = "settled"
    BY DEF Unreviewed
  <2>3. CASE NoSettlement
    <3>1. T \subseteq S
      BY <2>3 DEF Unreviewed, NoSettlement
    <3>2. SumOfRows(orders, S) <= Threshold - 1
      BY <1>3, <3>1 DEF LimitsHold
    <3> HIDE DEF S, T, after
    <3> QED
      BY <1>0, <1>3, <2>1, <2>2, <2>3, <3>1, <3>2, NoSettlementKeeps
         DEF T, after
  <2> HIDE DEF after
  <2> QED
    BY <1>3, <2>1, <2>3, SettleSteps, LineKept DEF after
<1> HIDE DEF after
<1> QED
  BY <1>1, <1>2, <1>3 DEF LimitsHold, SumOfRows, after

\* No row counts before the first call.
LEMMA LimitsInit == OrdersInit => LimitsHold /\ OwnQuotes
  BY DEF OrdersInit, LimitsHold, OwnQuotes, CallOwns, RowOwns, HasOrder,
         Sellbacks, TierDay, Unreviewed, NoOrder, IdleCall, Row

\* The three limits hold in every behaviour.
LEMMA OrdersLimits ==
  OrdersSpec =>
    [](SellbackWithinCeiling /\ TierDayCapHolds /\ UnreviewedBelowLine)
BY LimitsInit, OrdersOrNot, OwnsStep, LimitsStep, LimitsAre, OrdersTypeCorrect, PTL
   DEF OrdersSpec, OrdersStart

\* The sell-backs of one day stay within the ceiling, across customers, direct
\* orders and approved reviews.
THEOREM OrdersSellbackCeiling == OrdersSpec => []SellbackWithinCeiling
  BY OrdersLimits, PTL

\* A customer's settled orders of one day stay within the tier's cap.
THEOREM OrdersTierDayCap == OrdersSpec => []TierDayCapHolds
  BY OrdersLimits, PTL

\* Splitting a trade over keys and calls does not dodge the review.
THEOREM OrdersUnreviewedBelowLine == OrdersSpec => []UnreviewedBelowLine
  BY OrdersLimits, PTL

-----------------------------------------------------------------------------
(* Midnight.  An order is stamped with the day its transaction started, and *)
(* checked against the day on which it got its locks.  Rows that differ     *)
(* escape the totals above; there is one such row at most for each call     *)
(* that was under way when the day ended.                                   *)

\* Orders of one day checked on another.
Late(d) == {k \in Keys : /\ orders[k].status = "settled"
                         /\ orders[k].settled = d /\ orders[k].checked # d}

\* Calls under way whose transaction started on a day.
Started(d) == {c \in Calls : call[c].kind # "idle" /\ call[c].since = d}

\* Days only pass, and each settled row alone is within the limits.
DaysPass(k) ==
    orders[k].status = "settled" =>
        orders[k].settled <= orders[k].checked /\ orders[k].checked <= today

WithinAlone(k) ==
    orders[k].status = "settled" =>
        LET n == Total(orders[k].quote)
        IN  /\ n <= DayCap
            /\ ~IsBuy(orders[k].quote) => n <= Ceiling
            /\ orders[k].direct =>
                 n <= Threshold /\ orders[k].created = orders[k].settled

OverMidnight ==
    /\ \A c \in Calls : call[c].kind # "idle" => call[c].since <= today
    /\ \A k \in Keys : DaysPass(k) /\ WithinAlone(k)
    /\ \A d \in Days :
         Cardinality(Late(d)) + Cardinality(Started(d)) <= Cardinality(Calls)

\* What a step does to the calls: nothing, one ends, or one starts today.
LEMMA CallMoves ==
  ASSUME TypeOK, [OrdersNext]_orderVars
  PROVE  \/ call' = call
         \/ \E c \in Calls : call' = [call EXCEPT ![c] = IdleCall]
         \/ \E c \in Calls, new \in [kind : {"execute", "approve"}, key : Keys,
                                     quote : Quotes, since : {today}] :
              call[c].kind = "idle" /\ call' = [call EXCEPT ![c] = new]
<1> DEFINE New == [kind : {"execute", "approve"}, key : Keys, quote : Quotes,
                   since : {today}]
<1>1. ASSUME NEW c \in Calls, NEW k \in Keys, NEW q \in Quotes, Begin(c, k, q)
      PROVE  call[c].kind = "idle" /\ \E new \in New :
                                        call' = [call EXCEPT ![c] = new]
  BY <1>1 DEF Begin
<1>2. ASSUME NEW c \in Calls, NEW k \in Keys, BeginApprove(c, k)
      PROVE  call[c].kind = "idle" /\ \E new \in New :
                                        call' = [call EXCEPT ![c] = new]
  <2>1. orders[k].quote \in Quotes
    BY <1>2 DEF BeginApprove, TypeOK, OrdersTypeOK, NoOrder, Row, OrderRows
  <2> QED
    BY <1>2, <2>1 DEF BeginApprove
<1> HIDE DEF New
<1>3. ASSUME NEW c \in Calls, CallStep(c)
      PROVE  \/ call' = [call EXCEPT ![c] = IdleCall]
             \/ call[c].kind = "idle" /\ \E new \in New :
                                           call' = [call EXCEPT ![c] = new]
  BY <1>1, <1>2, <1>3
     DEF CallStep, ExecuteReplay, ExecuteReject, ExecuteReview, ExecuteSettle,
         ApproveConflict, ApproveRefused, ApproveSettle, Abort, EndCall
<1> QED
  BY <1>3 DEF New, OrdersNext, CreateQuote, QuoteLapses, ReviewAges,
              ReviewReject, ResolveEvents, CrashBeforeResolve, orderVars

\* A set of rows of typed quotes adds up to a natural number.
LEMMA RowsNat ==
  ASSUME NEW ks \in SUBSET Keys, \A k \in ks : orders[k].quote \in Quotes
  PROVE  TotalOf(ks) \in Nat
<1>1. SumOfRows(orders, ks) \in Nat
  BY RowsSubset
<1> QED
  BY <1>1 DEF SumOfRows, TotalOf

\* What the checks of a settlement say of the order alone.
LEMMA ChecksBoundOne ==
  ASSUME TypeOK, NEW q \in Quotes, GatesOpen(q)
  PROVE  /\ Total(q) <= DayCap
         /\ ~IsBuy(q) => Total(q) <= Ceiling
         /\ ~NeedsReview(q) => Total(q) <= Threshold
<1>1. \A k \in Keys : HasOrder(k) => orders[k].quote \in Quotes
  BY CountedRow
<1>2. SettledToday(Owner(q)) \in Nat
  <2>1. \A k \in Keys : orders[k].status = "settled" => HasOrder(k)
    BY DEF HasOrder
  <2> QED
    BY <1>1, <2>1, RowsNat DEF SettledToday
<1>3. DailySellbackUsed \in Nat
  <2>1. \A k \in Keys : orders[k].status = "settled" => HasOrder(k)
    BY DEF HasOrder
  <2> QED
    BY <1>1, <2>1, RowsNat DEF DailySellbackUsed
<1>4. TurnoverToday(Owner(q)) \in Nat
  BY <1>1, RowsNat DEF TurnoverToday
<1>5. Total(q) \in Nat /\ {Threshold, DayCap, Ceiling} \subseteq Nat
  BY TotalNat, OrdersAssumption
<1>6. Total(q) <= DayCap
  BY <1>2, <1>5 DEF GatesOpen, WithinTierCaps
<1>7. ~IsBuy(q) => Total(q) <= Ceiling
  BY <1>3, <1>5 DEF GatesOpen, FloatOpen
<1>8. ~NeedsReview(q) => Total(q) <= Threshold
  BY <1>4, <1>5 DEF NeedsReview
<1> QED
  BY <1>6, <1>7, <1>8

\* A step leaves the days in order and every row within the limits.
LEMMA RowsPassMidnight ==
  ASSUME TypeOK, OwnQuotes, OverMidnight, [OrdersNext]_orderVars,
         today' \in Days, today <= today'
  PROVE  \A k \in Keys : DaysPass(k)' /\ WithinAlone(k)'
<1> SUFFICES ASSUME NEW j \in Keys PROVE DaysPass(j)' /\ WithinAlone(j)'
  OBVIOUS
<1>0. today \in Int /\ today' \in Int
  BY DEF TypeOK, BooksTypeOK, Days
<1>1. ASSUME orders'[j] = orders[j] PROVE DaysPass(j)' /\ WithinAlone(j)'
  <2>1. orders[j].status = "settled" => orders[j].checked \in Int
    BY DEF TypeOK, OrdersTypeOK, OrderRows, NoOrder, Row, Days
  <2> QED
    BY <1>0, <1>1, <2>1 DEF OverMidnight, DaysPass, WithinAlone
<1>2. CASE NoSettlement
  BY <1>1, <1>2 DEF NoSettlement, DaysPass, WithinAlone
<1>3. ASSUME NEW k \in Keys, NEW q \in Quotes, SettlesOrder(k, q)
      PROVE  DaysPass(j)' /\ WithinAlone(j)'
  <2>1. PICK row \in OrderRows, c \in Calls : SettlesAs(k, q, c, row)
    BY <1>3 DEF SettlesOrder
  <2>2. /\ Total(q) <= DayCap /\ (~IsBuy(q) => Total(q) <= Ceiling)
        /\ ~NeedsReview(q) => Total(q) <= Threshold
    BY <1>3, ChecksBoundOne DEF SettlesOrder
  <2>3. orders'[k] = row /\ (j # k => orders'[j] = orders[j])
    BY <2>1 DEF SettlesAs, TypeOK, OrdersTypeOK
  <2>4. row.settled <= today /\ row.checked = today
    BY <2>1 DEF SettlesAs, OverMidnight
  <2> QED
    BY <1>0, <1>1, <2>1, <2>2, <2>3, <2>4 DEF SettlesAs, DaysPass, WithinAlone
<1> QED
  BY <1>2, <1>3, SettleSteps

\* A late row takes the place of the call that settled it.
LEMMA LatePassMidnight ==
  ASSUME TypeOK, OwnQuotes, OverMidnight, [OrdersNext]_orderVars,
         NEW d \in Days
  PROVE  Cardinality(Late(d)') + Cardinality(Started(d)') <= Cardinality(Calls)
<1> DEFINE late == Late(d)'
           started == Started(d)'
<1>1. /\ IsFiniteSet(Calls) /\ IsFiniteSet(Late(d)) /\ IsFiniteSet(Started(d))
      /\ IsFiniteSet(late) /\ IsFiniteSet(started)
  <2>1. /\ Late(d) \subseteq Keys /\ late \subseteq Keys
        /\ Started(d) \subseteq Calls /\ started \subseteq Calls
    BY DEF Late, Started
  <2> QED
    BY <2>1, OrdersAssumption, FS_Subset
<1>2. /\ Cardinality(late) \in Nat /\ Cardinality(started) \in Nat
      /\ Cardinality(Late(d)) \in Nat /\ Cardinality(Started(d)) \in Nat
      /\ Cardinality(Calls) \in Nat
  BY <1>1, FS_CardinalityType
<1>3. Cardinality(Late(d)) + Cardinality(Started(d)) <= Cardinality(Calls)
  BY DEF OverMidnight
<1>4. CASE NoSettlement
  <2>1. late \subseteq Late(d)
    BY <1>4 DEF NoSettlement, Late
  <2>2. Cardinality(late) <= Cardinality(Late(d))
    BY <1>1, <2>1, FS_Subset
  <2>3. CASE started \subseteq Started(d)
    <3>1. Cardinality(started) <= Cardinality(Started(d))
      BY <1>1, <2>3, FS_Subset
    <3> QED
      BY <1>2, <1>3, <2>2, <3>1
  <2>4. CASE d = today
    <3>1. Late(d) = {}
      <4>1. ASSUME NEW k \in Late(d) PROVE FALSE
        <5>1. /\ orders[k].settled = today /\ orders[k].checked # today
              /\ orders[k].settled <= orders[k].checked
              /\ orders[k].checked <= today /\ orders[k].checked \in Int
              /\ today \in Int
          BY <2>4, <4>1 DEF Late, OverMidnight, DaysPass, TypeOK, BooksTypeOK,
                            OrdersTypeOK, OrderRows, NoOrder, Row, Days
        <5> QED
          BY <5>1
      <4> QED
        BY <4>1
    <3>2. Cardinality(late) = 0
      BY <2>1, <3>1, FS_EmptySet
    <3>3. Cardinality(started) <= Cardinality(Calls)
      BY <1>1, FS_Subset DEF Started
    <3> QED
      BY <1>2, <3>2, <3>3
  <2>5. d # today => started \subseteq Started(d)
    BY CallMoves DEF Started, IdleCall, TypeOK, OrdersTypeOK
  <2> QED
    BY <2>3, <2>4, <2>5
<1>5. ASSUME NEW k \in Keys, NEW q \in Quotes, SettlesOrder(k, q)
      PROVE  Cardinality(late) + Cardinality(started) <= Cardinality(Calls)
  <2>1. PICK row \in OrderRows, c \in Calls : SettlesAs(k, q, c, row)
    BY <1>5 DEF SettlesOrder
  <2>2. CASE row.settled = d
    <3>1. c \in Started(d) /\ started = Started(d) \ {c}
      BY <2>1, <2>2 DEF SettlesAs, Started, IdleCall, TypeOK, OrdersTypeOK
    <3>2. Cardinality(started) = Cardinality(Started(d)) - 1
      BY <1>1, <3>1, FS_RemoveElement
    <3>3. late \subseteq Late(d) \cup {k}
      BY <2>1 DEF SettlesAs, Late, TypeOK, OrdersTypeOK
    <3>4. Cardinality(late) <= Cardinality(Late(d)) + 1
      <4>1. /\ IsFiniteSet(Late(d) \cup {k})
            /\ \/ Cardinality(Late(d) \cup {k}) = Cardinality(Late(d))
               \/ Cardinality(Late(d) \cup {k}) = Cardinality(Late(d)) + 1
        BY <1>1, FS_AddElement
      <4>2. Cardinality(late) <= Cardinality(Late(d) \cup {k})
        BY <3>3, <4>1, FS_Subset
      <4> QED
        BY <1>2, <4>1, <4>2
    <3> QED
      BY <1>2, <1>3, <3>2, <3>4
  <2>3. CASE row.settled # d
    <3>1. late \subseteq Late(d) /\ started \subseteq Started(d)
      BY <2>1, <2>3 DEF SettlesAs, Late, Started, IdleCall, TypeOK, OrdersTypeOK
    <3>2. /\ Cardinality(late) <= Cardinality(Late(d))
          /\ Cardinality(started) <= Cardinality(Started(d))
      BY <1>1, <3>1, FS_Subset
    <3> QED
      BY <1>2, <1>3, <3>2
  <2> QED
    BY <2>2, <2>3
<1> QED
  BY <1>4, <1>5, SettleSteps

\* OverMidnight is inductive, whatever else happens while days only pass.
LEMMA MidnightStep ==
  ASSUME TypeOK, OwnQuotes, OverMidnight, [OrdersNext]_orderVars,
         today' \in Days, today <= today'
  PROVE  OverMidnight'
<1>1. \A c \in Calls : call'[c].kind # "idle" => call'[c].since <= today'
  <2> SUFFICES ASSUME NEW c \in Calls, call'[c].kind # "idle"
               PROVE  call'[c].since <= today'
    OBVIOUS
  <2>1. today \in Int /\ today' \in Int
    BY DEF TypeOK, BooksTypeOK, Days
  <2>2. \/ call'[c] = call[c] \/ call'[c] = IdleCall \/ call'[c].since = today
    BY CallMoves DEF TypeOK, OrdersTypeOK
  <2>3. call[c].kind # "idle" => call[c].since <= today /\ call[c].since \in Int
    BY DEF OverMidnight, TypeOK, OrdersTypeOK, IdleCall, Days
  <2> QED
    BY <2>1, <2>2, <2>3 DEF IdleCall
<1>2. \A d \in Days : Cardinality(Late(d)') + Cardinality(Started(d)')
                        <= Cardinality(Calls)
  BY LatePassMidnight
<1> QED
  BY <1>1, <1>2, RowsPassMidnight DEF OverMidnight

\* Nothing is late at the start.
LEMMA MidnightInit == OrdersInit => OverMidnight
<1> SUFFICES ASSUME OrdersInit PROVE OverMidnight
  OBVIOUS
<1>1. \A d \in Days : Late(d) = {} /\ Started(d) = {}
  BY DEF OrdersInit, Late, Started, NoOrder, IdleCall, Row
<1>2. Cardinality({}) = 0 /\ Cardinality(Calls) \in Nat
  BY OrdersAssumption, FS_EmptySet, FS_CardinalityType
<1>3. \A k \in Keys : DaysPass(k) /\ WithinAlone(k)
  BY DEF OrdersInit, DaysPass, WithinAlone, NoOrder, Row
<1>4. \A c \in Calls : call[c].kind = "idle"
  BY DEF OrdersInit, IdleCall
<1>5. \A d \in Days : Cardinality(Late(d)) + Cardinality(Started(d))
                        <= Cardinality(Calls)
  BY <1>1, <1>2
<1> QED
  BY <1>3, <1>4, <1>5 DEF OverMidnight

\* The orders of one day that a limit is about: its sell-backs, a customer's
\* orders, and a customer's orders no officer decided.
DaySells(d) == {k \in Keys : /\ orders[k].status = "settled"
                             /\ ~IsBuy(orders[k].quote) /\ orders[k].settled = d}
DayOrders(d, u) == {k \in Keys : /\ orders[k].status = "settled"
                                 /\ KeyOwner[k] = u /\ orders[k].settled = d}
DayDirect(d, u) == {k \in Keys : /\ orders[k].status = "settled"
                                 /\ orders[k].direct /\ KeyOwner[k] = u
                                 /\ orders[k].created = d}

\* A midnight exceeds a day's limit by it once more for each call at most.
MidnightBound ==
    \A d \in Days :
        LET often == 1 + Cardinality(Calls)
        IN  /\ TotalOf(DaySells(d)) <= often * Ceiling
            /\ \A u \in Users : /\ TotalOf(DayOrders(d, u)) <= often * DayCap
                                /\ TotalOf(DayDirect(d, u)) <= often * Threshold

\* On-time rows within a limit together, and late rows within it each, add up.
LEMMA LateAdds ==
  ASSUME TypeOK, OverMidnight, NEW d \in Days, NEW all \in SUBSET Keys,
         NEW timely \in SUBSET Keys, all \subseteq timely \cup Late(d),
         NEW m \in Nat, TotalOf(timely) <= m,
         \A k \in timely : HasOrder(k),
         \A k \in all \cap Late(d) : Total(orders[k].quote) <= m
  PROVE  TotalOf(all) <= (1 + Cardinality(Calls)) * m
<1> DEFINE f == [k \in Keys |-> Total(orders[k].quote)]
           late == all \cap Late(d)
           T == timely
           N == Cardinality(Calls)
<1>1. \A k \in T \cup late : HasOrder(k) /\ k \in Keys
  BY DEF Late, HasOrder
<1>2. \A k \in T \cup late : f[k] \in Nat
  BY <1>1, CountedRow, TotalNat
<1>3. IsFiniteSet(T) /\ IsFiniteSet(late) /\ IsFiniteSet(T \cup late)
  <2>1. T \cup late \subseteq Keys /\ late \subseteq Keys
    BY <1>1
  <2> QED
    BY <2>1, OrdersAssumption, FS_Subset
<1>4. all \subseteq T \cup late
  OBVIOUS
<1>5. TotalOf(all) = SumOver(f, all) /\ TotalOf(T) = SumOver(f, T)
  <2>1. ASSUME NEW ks \in SUBSET Keys PROVE TotalOf(ks) = SumOver(f, ks)
    <3> DEFINE g == [k \in ks |-> Total(orders[k].quote)]
    <3>1. \A k \in ks : g[k] = f[k]
      OBVIOUS
    <3>2. TotalOf(ks) = SumOver(g, ks)
      BY DEF TotalOf
    <3> HIDE DEF f, g
    <3> QED
      BY <3>1, <3>2, SumSame
  <2> QED
    BY <2>1
<1>6. \A k \in late : f[k] <= m
  OBVIOUS
<1>7. Cardinality(late) \in Nat /\ N \in Nat /\ Cardinality(late) <= N
  <2>1. IsFiniteSet(Late(d)) /\ IsFiniteSet(Started(d))
    BY OrdersAssumption, FS_Subset DEF Late, Started
  <2>2. /\ Cardinality(Late(d)) \in Nat /\ Cardinality(Started(d)) \in Nat
        /\ N \in Nat
    BY <2>1, OrdersAssumption, FS_CardinalityType
  <2>3. Cardinality(late) \in Nat /\ Cardinality(late) <= Cardinality(Late(d))
    BY <1>3, <2>1, FS_Subset, FS_CardinalityType
  <2>4. Cardinality(Late(d)) + Cardinality(Started(d)) <= N
    BY DEF OverMidnight
  <2> HIDE DEF late, N
  <2> QED
    BY <2>2, <2>3, <2>4
<1> HIDE DEF f, late, T, N
<1>8. SumOver(f, all) <= SumOver(f, T \cup late)
  BY <1>2, <1>3, <1>4, SumSubset
<1>9. SumOver(f, T \cup late) <= SumOver(f, T) + SumOver(f, late)
  BY <1>2, <1>3, SumUnion
<1>10. SumOver(f, late) <= Cardinality(late) * m
  BY <1>2, <1>3, <1>6, SumAtMost
<1>11. /\ SumOver(f, all) \in Nat /\ SumOver(f, T \cup late) \in Nat
       /\ SumOver(f, T) \in Nat /\ SumOver(f, late) \in Nat
  BY <1>2, <1>3, <1>4, SumType, FS_Subset
<1>12. Cardinality(late) * m <= N * m /\ Cardinality(late) * m \in Nat
       /\ N * m \in Nat
  BY <1>7
<1>13. SumOver(f, T) <= m
  BY <1>5 DEF T
<1>14. (1 + N) * m = m + N * m
  BY <1>7
<1>15. SumOver(f, all) <= m + N * m
  BY <1>8, <1>9, <1>10, <1>11, <1>12, <1>13
<1> QED
  BY <1>5, <1>14, <1>15 DEF N

\* A total that only has to be within a limit when there are rows is within it.
LEMMA EmptyIsWithin ==
  ASSUME NEW limit \in Nat, NEW ks \in SUBSET Keys,
         ks # {} => TotalOf(ks) <= limit
  PROVE  TotalOf(ks) <= limit
<1>1. CASE ks = {}
  BY <1>1, NoRows DEF TotalOf, SumOfRows
<1> QED
  BY <1>1

\* The rows of a day are those checked in time and the late ones.
LEMMA BoundFollows ==
  ASSUME TypeOK, LimitsHold, OverMidnight PROVE MidnightBound
<1>0. Ceiling \in Nat /\ DayCap \in Nat /\ Threshold \in Nat
  BY OrdersAssumption
<1>1. \A ks \in SUBSET Keys : TotalOf(ks) = SumOfRows(orders, ks)
  BY DEF TotalOf, SumOfRows
<1>2. \A k \in Keys : WithinAlone(k)
  BY DEF OverMidnight
<1>3. ASSUME NEW d \in Days
      PROVE  TotalOf(DaySells(d)) <= (1 + Cardinality(Calls)) * Ceiling
  <2>1. /\ DaySells(d) \in SUBSET Keys /\ Sellbacks(d) \in SUBSET Keys
        /\ DaySells(d) \subseteq Sellbacks(d) \cup Late(d)
        /\ \A k \in Sellbacks(d) : HasOrder(k)
    BY DEF DaySells, Sellbacks, Late, HasOrder
  <2>2. TotalOf(Sellbacks(d)) <= Ceiling
    BY <1>0, <1>1, <2>1, EmptyIsWithin DEF LimitsHold
  <2>3. \A k \in DaySells(d) \cap Late(d) : Total(orders[k].quote) <= Ceiling
    BY <1>2, <2>1 DEF DaySells, WithinAlone
  <2> QED
    BY <1>0, <2>1, <2>2, <2>3, LateAdds
<1>4. ASSUME NEW d \in Days, NEW u \in Users
      PROVE  TotalOf(DayOrders(d, u)) <= (1 + Cardinality(Calls)) * DayCap
  <2>1. /\ DayOrders(d, u) \in SUBSET Keys /\ TierDay(d, u) \in SUBSET Keys
        /\ DayOrders(d, u) \subseteq TierDay(d, u) \cup Late(d)
        /\ \A k \in TierDay(d, u) : HasOrder(k)
    BY DEF DayOrders, TierDay, Late, HasOrder
  <2>2. TotalOf(TierDay(d, u)) <= DayCap
    BY <1>0, <1>1, <2>1, EmptyIsWithin DEF LimitsHold
  <2>3. \A k \in DayOrders(d, u) \cap Late(d) : Total(orders[k].quote) <= DayCap
    BY <1>2, <2>1 DEF DayOrders, WithinAlone
  <2> QED
    BY <1>0, <2>1, <2>2, <2>3, LateAdds
<1>5. ASSUME NEW d \in Days, NEW u \in Users
      PROVE  TotalOf(DayDirect(d, u)) <= (1 + Cardinality(Calls)) * Threshold
  <2>1. /\ DayDirect(d, u) \in SUBSET Keys /\ Unreviewed(d, u) \in SUBSET Keys
        /\ \A k \in Unreviewed(d, u) : HasOrder(k)
    BY DEF DayDirect, Unreviewed, HasOrder
  <2>2. \A k \in DayDirect(d, u) : orders[k].direct = TRUE
    BY DEF DayDirect, TypeOK, OrdersTypeOK, OrderRows, NoOrder, Row
  <2>3. DayDirect(d, u) \subseteq Unreviewed(d, u) \cup Late(d)
    BY <1>2, <2>2 DEF DayDirect, Unreviewed, Late, WithinAlone
  <2>4. TotalOf(Unreviewed(d, u)) <= Threshold
    <3>1. CASE Unreviewed(d, u) = {}
      BY <1>0, <1>1, <3>1, NoRows
    <3>2. CASE Unreviewed(d, u) # {}
      <4>1. TotalOf(Unreviewed(d, u)) <= Threshold - 1
        BY <1>1, <2>1, <3>2 DEF LimitsHold
      <4>2. TotalOf(Unreviewed(d, u)) \in Nat
        BY <2>1, CountedRow, RowsNat
      <4> QED
        BY <1>0, <4>1, <4>2
    <3> QED
      BY <3>1, <3>2
  <2>5. \A k \in DayDirect(d, u) \cap Late(d) :
          Total(orders[k].quote) <= Threshold
    BY <1>2, <2>1, <2>2 DEF DayDirect, WithinAlone
  <2> QED
    BY <1>0, <2>1, <2>3, <2>4, <2>5, LateAdds
<1> QED
  BY <1>3, <1>4, <1>5 DEF MidnightBound

\* An order that waits for its locks over midnight escapes the totals of the
\* day it is stamped with, but no day exceeds the sell-back ceiling, a tier's
\* cap or the review line by more than itself once for each concurrent call.
THEOREM OrdersOverMidnight == OrdersSpec => []MidnightBound
<1>1. ASSUME TypeOK, TypeOK', [OrdersStep]_ordersAndBooks
      PROVE  today' \in Days /\ today <= today'
  <2>1. today \in Int /\ today' \in Days
    BY <1>1 DEF TypeOK, BooksTypeOK, Days
  <2>2. OrdersNext => today' = today
    BY <1>1, OnlySettlementsPost DEF PostTrade, sharedVars
  <2> QED
    BY <1>1, <2>1, <2>2
       DEF OrdersStep, SharedNext, Midnight, Bar, Unbar, ordersAndBooks, sharedVars
<1>2. OrdersSpec => []OwnQuotes /\ []LimitsHold
  BY LimitsInit, OrdersOrNot, OwnsStep, LimitsStep, OrdersTypeCorrect, PTL
     DEF OrdersSpec, OrdersStart
<1> QED
  BY <1>1, <1>2, MidnightInit, MidnightStep, BoundFollows, OrdersOrNot,
     OrdersTypeCorrect, PTL DEF OrdersSpec, OrdersStart

-----------------------------------------------------------------------------
(* Type correctness. *)

\* Delivery steps keep the types of their rows and of the books.
LEMMA DeliveryType ==
  ASSUME BooksTypeOK, DeliveryTypeOK, DeliveryNext
  PROVE  BooksTypeOK' /\ DeliveryTypeOK'
<1> USE DeliveryAssumption DEF DeliveryTypeOK, OpenStatuses, SetStatus
<1>1. ASSUME NEW d \in Deliveries, CreateCheck(d) \/ CreateInsert(d)
                                   \/ ApproveCheck(d) \/ ApproveFails(d)
                                   \/ Schedule(d)
      PROVE  BooksTypeOK' /\ DeliveryTypeOK'
  <2>1. BooksTypeOK'
    BY <1>1, SameBooksType DEF CreateCheck, CreateInsert, ApproveCheck,
                               ApproveFails, Schedule
  <2> QED
    BY <1>1, <2>1 DEF CreateCheck, CreateInsert, ApproveCheck, ApproveFails,
                      Schedule
<1>2. ASSUME NEW d \in Deliveries, NEW i \in Int, NEW j \in Int, NEW l \in Int,
             MoveMetal(d, i, j, l)
      PROVE  BooksTypeOK'
  BY <1>2 DEF BooksTypeOK, MoveMetal, etbBooks
<1>3. ASSUME NEW d \in Deliveries, Approve(d) \/ Deliver(d) \/ Reject(d)
      PROVE  BooksTypeOK' /\ DeliveryTypeOK'
  <2>1. Refund(d) \in Int /\ -Refund(d) \in Int
    BY DEF Refund
  <2>2. BooksTypeOK'
    BY <1>2, <1>3, <2>1 DEF Approve, Deliver, Reject
  <2> QED
    BY <1>3, <2>2 DEF Approve, Deliver, Reject
<1> QED
  BY <1>1, <1>3 DEF DeliveryNext

\* So do the treasury's entries.
LEMMA TreasuryType == BooksTypeOK /\ TreasuryNext => BooksTypeOK'
  BY TreasuryAssumption
     DEF BooksTypeOK, TreasuryNext, RecordIntake, RecordOuttake, CapitalIn,
         CapitalOut, PostCapital, etbBooks, metalBooks

\* So does every step of the platform.
LEMMA PlatformStepType ==
  PlatformTypeOK /\ [PlatformNext]_platformVars => PlatformTypeOK'
<1> SUFFICES ASSUME PlatformTypeOK, [PlatformNext]_platformVars
             PROVE  PlatformTypeOK'
  OBVIOUS
<1> USE DEF PlatformTypeOK, TypeOK
<1>0. UNCHANGED deliveryVars => DeliveryTypeOK'
  BY DEF DeliveryTypeOK, deliveryVars
<1>1. CASE OrdersNext /\ UNCHANGED deliveryVars
  BY <1>0, <1>1, OrdersNextType
<1>2. CASE DeliveryNext /\ UNCHANGED orderVars
  BY <1>2, DeliveryType, SameOrdersType
<1>3. CASE (TreasuryNext \/ SharedNext) /\ UNCHANGED <<orderVars, deliveryVars>>
  BY <1>0, <1>3, TreasuryType, SharedType, SameOrdersType
<1>4. CASE UNCHANGED platformVars
  BY <1>0, <1>4, SameBooksType, SameOrdersType DEF platformVars
<1> QED
  BY <1>1, <1>2, <1>3, <1>4 DEF PlatformNext

\* Balances, rows and calls keep their types on the whole platform.
THEOREM PlatformTypeCorrect == PlatformSpec => []PlatformTypeOK
<1>1. PlatformInit => PlatformTypeOK
  BY OrdersInitType
     DEF PlatformInit, PlatformTypeOK, TypeOK, DeliveryInit, DeliveryTypeOK
<1> QED
  BY <1>1, PlatformStepType, PTL DEF PlatformSpec

-----------------------------------------------------------------------------
(* The reserve.  ReserveBacked is inductive once the types are known: every *)
(* step that issues metal or takes it out is gated on the free stock, and a *)
(* handover moves both sides together.                                      *)

\* The vault holds what the customers own at the start.
LEMMA InitBacked == BooksInit => ReserveBacked
<1>1. Cardinality(Users) * OpeningMetal \in Int
  BY BooksAssumption, FS_CardinalityType
<1> QED
  BY <1>1, BooksAssumption DEF BooksInit, ReserveBacked, Owed

\* A delivery keeps the reserve: holding and refunding do not touch it, and the
\* handover lowers stock and debt alike.
LEMMA DeliveryBacked ==
  ASSUME BooksTypeOK, ReserveBacked, DeliveryNext
  PROVE  ReserveBacked'
<1> USE DeliveryAssumption DEF BooksTypeOK, ReserveBacked, Owed
<1>1. ASSUME NEW d \in Deliveries, NEW i \in Int, NEW j \in Int, NEW l \in Int,
             MoveMetal(d, i, j, l)
      PROVE  ReserveBacked'
  <2> DEFINE p == Parcel[d]
  <2>1. ASSUME NEW a \in Assets \ {p.asset}
        PROVE  physical'[a] = physical[a] /\ vault'[a] = vault[a]
    BY <1>1, <2>1 DEF MoveMetal
  <2>2. l * p.grams \in Int
    BY <1>1
  <2>3. /\ physical'[p.asset] = physical[p.asset] - l * p.grams
        /\ vault'[p.asset] = vault[p.asset] + l * p.grams
    BY <1>1 DEF MoveMetal
  <2> QED
    BY <2>1, <2>2, <2>3, <1>1 DEF MoveMetal
<1>2. ASSUME NEW d \in Deliveries PROVE Refund(d) \in Int /\ -Refund(d) \in Int
  BY DEF Refund
<1> QED
  BY <1>1, <1>2 DEF DeliveryNext, CreateCheck, CreateInsert, ApproveCheck,
       Approve, ApproveFails, Schedule, Deliver, Reject, sharedVars, metalBooks

\* An outtake stops at what is owed; intake and capital take nothing out.
LEMMA TreasuryBacked ==
  ASSUME BooksTypeOK, ReserveBacked, TreasuryNext
  PROVE  ReserveBacked'
  BY DEF BooksTypeOK, ReserveBacked, Owed, TreasuryNext, RecordIntake,
         RecordOuttake, MustStay, CapitalIn, CapitalOut, PostCapital, metalBooks

\* ReserveBacked is inductive, given the types.
LEMMA PlatformStepBacked ==
  PlatformTypeOK /\ ReserveBacked /\ [PlatformNext]_platformVars
    => ReserveBacked'
<1> SUFFICES ASSUME PlatformTypeOK, ReserveBacked, [PlatformNext]_platformVars
             PROVE  ReserveBacked'
  OBVIOUS
<1>0. UNCHANGED <<physical, vault>> => ReserveBacked'
  BY DEF ReserveBacked, Owed
<1>1. CASE OrdersNext
  BY <1>0, <1>1, OnlySettlementsPost, TradeKeepsReserve
     DEF PlatformTypeOK, TypeOK, sharedVars, metalBooks
<1>2. CASE DeliveryNext
  BY <1>2, DeliveryBacked DEF PlatformTypeOK
<1>3. CASE TreasuryNext
  BY <1>3, TreasuryBacked DEF PlatformTypeOK
<1>4. CASE SharedNext \/ UNCHANGED platformVars
  BY <1>0, <1>4 DEF SharedNext, Midnight, Bar, Unbar, platformVars, sharedVars,
                    metalBooks
<1> QED
  BY <1>1, <1>2, <1>3, <1>4 DEF PlatformNext

\* Whatever customers, officers and administrators do, in any order, every
\* milligram the platform owes is in its vault.
THEOREM PlatformReserveBacked == PlatformSpec => []ReserveBacked
<1>1. PlatformInit => ReserveBacked
  BY InitBacked DEF PlatformInit
<1> QED
  BY <1>1, PlatformStepBacked, PlatformTypeCorrect, PTL DEF PlatformSpec

-----------------------------------------------------------------------------
(* The refinement.  A step of the platform issues, redeems, takes in,      *)
(* releases or hands over metal of one asset, or changes neither side.     *)

\* A step that leaves stock and debt alone is a stutter of the promise.
LEMMA SameStock ==
  UNCHANGED <<physical, vault>> => UNCHANGED Promise!reserveVars
  BY DEF Promise!reserveVars, Owed

\* A settlement issues metal (a buy) or redeems it (a sell).
LEMMA TradeIsReserveStep ==
  ASSUME BooksTypeOK, ReserveBacked, NEW q \in Quotes, PostTrade(q), GatesOpen(q)
  PROVE  Promise!ReserveNext
<1> DEFINE a == Terms[q].asset
           g == Terms[q].grams
<1> USE OrdersAssumption DEF BooksTypeOK, PostTrade
<1>1. a \in Assets /\ g \in Nat \ {0} /\ physical' = physical
  OBVIOUS
<1>2. \A b \in Assets \ {a} : Promise!Same(b)
  BY <1>1 DEF Promise!Same, Owed
<1>3. CASE IsBuy(q)
  <2>1. vault'[a] = vault[a] - g
    BY <1>1, <1>3
  <2>2. physical[a] + vault[a] >= g
    BY <1>3 DEF GatesOpen, ReserveOpen
  <2>3. Promise!Issue(a)
    BY <1>1, <2>1, <2>2 DEF Promise!Issue, Owed
  <2> QED
    BY <1>1, <1>2, <2>3 DEF Promise!ReserveNext
<1>4. CASE ~IsBuy(q)
  <2>1. vault'[a] = vault[a] + g
    BY <1>1, <1>4
  <2>2. Promise!Redeem(a)
    BY <1>1, <2>1 DEF Promise!Redeem, Owed
  <2> QED
    BY <1>1, <1>2, <2>2 DEF Promise!ReserveNext
<1> QED
  BY <1>3, <1>4

\* A handover hands over; the other delivery steps stutter.
LEMMA DeliveryIsReserveStep ==
  ASSUME BooksTypeOK, DeliveryNext
  PROVE  Promise!ReserveNext \/ UNCHANGED Promise!reserveVars
<1> USE DeliveryAssumption DEF BooksTypeOK
<1>1. ASSUME NEW d \in Deliveries, NEW i, NEW j, MoveMetal(d, i, j, 0)
      PROVE  UNCHANGED Promise!reserveVars
  <2> DEFINE p == Parcel[d]
  <2>1. /\ physical' = [physical EXCEPT ![p.asset] = @ - 0 * p.grams]
        /\ vault' = [vault EXCEPT ![p.asset] = @ + 0 * p.grams]
    BY <1>1 DEF MoveMetal
  <2>2. \A a \in Assets : physical'[a] = physical[a] /\ vault'[a] = vault[a]
    BY <2>1
  <2> QED
    BY <2>1, <2>2, SameStock
<1>2. ASSUME NEW d \in Deliveries, Deliver(d) PROVE Promise!ReserveNext
  <2> DEFINE a == Parcel[d].asset
             g == Parcel[d].grams
  <2>1. /\ physical'[a] = physical[a] - g
        /\ vault'[a] = vault[a] + g
        /\ a \in Assets /\ g \in Nat \ {0}
    BY <1>2 DEF Deliver, MoveMetal
  <2>2. \A b \in Assets \ {a} : Promise!Same(b)
    BY <1>2 DEF Deliver, MoveMetal, Promise!Same, Owed
  <2>3. Promise!HandOver(a)
    BY <2>1 DEF Promise!HandOver, Owed
  <2> QED
    BY <2>1, <2>2, <2>3 DEF Promise!ReserveNext
<1> QED
  BY <1>1, <1>2, SameStock
     DEF DeliveryNext, CreateCheck, CreateInsert, ApproveCheck, Approve,
         ApproveFails, Schedule, Reject, sharedVars, metalBooks

\* Vault entries take in or release; capital entries stutter.
LEMMA TreasuryIsReserveStep ==
  ASSUME BooksTypeOK, TreasuryNext
  PROVE  Promise!ReserveNext \/ UNCHANGED Promise!reserveVars
<1> USE DEF BooksTypeOK
<1>1. ASSUME NEW a \in Assets, RecordIntake(a, 1) PROVE Promise!ReserveNext
  <2>1. \A b \in Assets \ {a} : Promise!Same(b)
    BY <1>1 DEF RecordIntake, Promise!Same, Owed, metalBooks
  <2>2. Promise!Intake(a)
    BY <1>1 DEF RecordIntake, Promise!Intake, Owed, metalBooks
  <2> QED
    BY <2>1, <2>2 DEF Promise!ReserveNext
<1>2. ASSUME NEW a \in Assets, RecordOuttake(a, 1) PROVE Promise!ReserveNext
  <2>1. \A b \in Assets \ {a} : Promise!Same(b)
    BY <1>2 DEF RecordOuttake, Promise!Same, Owed, metalBooks
  <2>2. Promise!Release(a)
    BY <1>2 DEF RecordOuttake, MustStay, Promise!Release, Owed, metalBooks
  <2> QED
    BY <2>1, <2>2 DEF Promise!ReserveNext
<1> QED
  BY <1>1, <1>2, SameStock
     DEF TreasuryNext, CapitalIn, CapitalOut, PostCapital, metalBooks

\* The promise holds at the start ...
LEMMA ReserveInitHolds ==
  ASSUME BooksTypeOK, ReserveBacked PROVE Promise!ReserveInit
BY DEF BooksTypeOK, ReserveBacked, Owed, Promise!ReserveInit, Promise!Backed

\* ... and every step of the platform is one of its steps or a stutter.
LEMMA PlatformPromiseStep ==
  ASSUME PlatformTypeOK, ReserveBacked, [PlatformNext]_platformVars
  PROVE  [Promise!ReserveNext]_(Promise!reserveVars)
<1> USE DEF PlatformTypeOK, TypeOK
<1>1. CASE OrdersNext
  BY <1>1, OnlySettlementsPost, TradeIsReserveStep, SameStock
     DEF sharedVars, metalBooks
<1>2. CASE DeliveryNext \/ TreasuryNext
  BY <1>2, DeliveryIsReserveStep, TreasuryIsReserveStep
<1>3. CASE SharedNext \/ UNCHANGED platformVars
  BY <1>3, SameStock DEF SharedNext, Midnight, Bar, Unbar, platformVars,
                         sharedVars, metalBooks
<1> QED
  BY <1>1, <1>2, <1>3 DEF PlatformNext

\* The platform implements the promise: stock is the vault's holding rows,
\* owed is minus the vault account's balance.
THEOREM PlatformKeepsPromise == PlatformSpec => KeepsReservePromise
<1>1. PlatformInit => Promise!ReserveInit
  BY OrdersInitType, InitBacked, ReserveInitHolds DEF PlatformInit, TypeOK
<1> QED
  BY <1>1, PlatformPromiseStep, PlatformTypeCorrect, PlatformReserveBacked, PTL
     DEF PlatformSpec, KeepsReservePromise, Promise!ReserveSpec

-----------------------------------------------------------------------------
(* Deliveries.  The delivery hold moves with the status of one row.         *)

Held(a) == {d \in Deliveries : /\ delivery[d] \in HeldStatuses
                               /\ Parcel[d].asset = a}
Grams == [d \in Deliveries |-> Parcel[d].grams]

\* 1 if a row of this status holds metal, 0 if it holds none.
Holding(s) == IF s \in HeldStatuses THEN 1 ELSE 0

\* A row takes a new status and h times its metal goes to the hold.
HoldWithRow(d, s, h) ==
    /\ SetStatus(d, s)
    /\ h = Holding(s) - Holding(delivery[d])
    /\ deliveryHold' = [deliveryHold EXCEPT ![Parcel[d].asset]
                          = @ + h * Parcel[d].grams]

\* A row that starts or stops to hold metal takes the hold with it.
LEMMA HoldMoves ==
  ASSUME BooksTypeOK, DeliveryTypeOK, HoldMatchesDeliveries,
         NEW d \in Deliveries, NEW s, NEW h, HoldWithRow(d, s, h)
  PROVE  HoldMatchesDeliveries'
<1> USE DEF HoldWithRow
<1> DEFINE b == Parcel[d].asset
           g == Parcel[d].grams
           after(a) == Held(a)'
<1>1. b \in Assets /\ g \in Nat /\ Grams[d] = g /\ \A e \in Deliveries : Grams[e] \in Nat
  BY DeliveryAssumption DEF Grams
<1>2. /\ \A a \in Assets : deliveryHold[a] = SumOver(Grams, Held(a))
      /\ HoldMatchesDeliveries' <=>
           \A a \in Assets : deliveryHold'[a] = SumOver(Grams, after(a))
  BY DEF HoldMatchesDeliveries, Held, Grams
<1>3. \A e \in Deliveries \ {d} : delivery'[e] = delivery[e]
  BY DEF DeliveryTypeOK, SetStatus
<1>4. delivery'[d] = s
  BY DEF DeliveryTypeOK, SetStatus
<1>5. ASSUME NEW a \in Assets, a # b
      PROVE  deliveryHold'[a] = SumOver(Grams, after(a))
  <2>1. after(a) = Held(a)
    BY <1>3, <1>5 DEF Held
  <2>2. deliveryHold'[a] = deliveryHold[a]
    BY <1>5 DEF BooksTypeOK
  <2> QED
    BY <1>2, <2>1, <2>2
<1>6. deliveryHold'[b] = SumOver(Grams, after(b))
  <2> DEFINE before == Held(b)
             now == after(b)
  <2>1. deliveryHold[b] \in Int /\ deliveryHold'[b] = deliveryHold[b] + h * g
    BY <1>1 DEF BooksTypeOK
  <2>2. before \in SUBSET Deliveries /\ IsFiniteSet(before)
    BY DeliveryAssumption, FS_Subset DEF Held
  <2>3. \A e \in Deliveries \ {d} : e \in now <=> e \in before
    BY <1>3 DEF Held
  <2>4. now \in SUBSET Deliveries /\ (d \in now <=> s \in HeldStatuses)
        /\ (d \in before <=> delivery[d] \in HeldStatuses)
    BY <1>4 DEF Held
  <2>5. deliveryHold[b] = SumOver(Grams, before)
    BY <1>1, <1>2
  <2> HIDE DEF before, now, b, g
  <2>6. CASE d \in now /\ d \notin before
    <3>1. now = before \cup {d} /\ h = 1
      BY <2>2, <2>3, <2>4, <2>6 DEF Holding
    <3>2. SumOver(Grams, before \cup {d}) = SumOver(Grams, before) + Grams[d]
      BY <1>1, <2>2, <2>6, SumAdd
    <3> QED
      BY <1>1, <2>1, <2>5, <3>1, <3>2 DEF now
  <2>7. CASE d \notin now /\ d \in before
    <3>1. now = before \ {d} /\ h = -1
      BY <2>2, <2>3, <2>4, <2>7 DEF Holding
    <3>2. SumOver(Grams, before \ {d}) = SumOver(Grams, before) - Grams[d]
      BY <1>1, <2>2, <2>7, SumRemove
    <3> QED
      BY <1>1, <2>1, <2>5, <3>1, <3>2 DEF now
  <2>8. CASE d \in now <=> d \in before
    <3>1. now = before /\ h = 0
      BY <2>2, <2>3, <2>4, <2>8 DEF Holding
    <3>2. h * g = 0
      BY <1>1, <3>1
    <3>3. deliveryHold'[b] = SumOver(Grams, now)
      BY <2>1, <2>5, <3>1, <3>2
    <3> QED
      BY <3>3 DEF now
  <2> QED
    BY <2>6, <2>7, <2>8
<1> HIDE DEF after, b
<1> QED
  BY <1>2, <1>5, <1>6

\* Every step of a delivery moves the hold with its row.
LEMMA DeliveryHold ==
  ASSUME BooksTypeOK, DeliveryTypeOK, HoldMatchesDeliveries, DeliveryNext
  PROVE  HoldMatchesDeliveries'
<1>1. ASSUME UNCHANGED deliveryHold, NEW d \in Deliveries, NEW s,
             SetStatus(d, s), Holding(s) = Holding(delivery[d])
      PROVE  HoldMatchesDeliveries'
  <2>1. Parcel[d].grams \in Nat /\ Parcel[d].asset \in Assets
    BY DeliveryAssumption
  <2>2. deliveryHold' = [deliveryHold EXCEPT ![Parcel[d].asset]
                           = @ + 0 * Parcel[d].grams]
    BY <1>1, <2>1 DEF BooksTypeOK
  <2>3. 0 = Holding(s) - Holding(delivery[d])
    BY <1>1 DEF Holding
  <2>4. HoldWithRow(d, s, 0)
    BY <1>1, <2>2, <2>3 DEF HoldWithRow
  <2> QED
    BY <2>4, HoldMoves
<1>2. ASSUME NEW d \in Deliveries,
             CreateCheck(d) \/ CreateInsert(d) \/ Schedule(d)
      PROVE  HoldMatchesDeliveries'
  BY <1>1, <1>2 DEF CreateCheck, CreateInsert, Schedule, Holding, HeldStatuses,
                    sharedVars, metalBooks
<1>3. ASSUME UNCHANGED <<deliveryHold, delivery>> PROVE HoldMatchesDeliveries'
  BY <1>3 DEF HoldMatchesDeliveries
<1>4. ASSUME NEW d \in Deliveries, Approve(d) PROVE HoldMatchesDeliveries'
  <2>1. 1 = Holding("approved") - Holding(delivery[d])
    BY <1>4 DEF Approve, Holding, HeldStatuses
  <2>2. HoldWithRow(d, "approved", 1)
    BY <1>4, <2>1 DEF HoldWithRow, Approve, MoveMetal
  <2> QED
    BY <2>2, HoldMoves
<1>5. ASSUME NEW d \in Deliveries, Deliver(d) PROVE HoldMatchesDeliveries'
  <2>1. -1 = Holding("delivered") - Holding(delivery[d])
    BY <1>5 DEF Deliver, Holding, HeldStatuses
  <2>2. HoldWithRow(d, "delivered", -1)
    BY <1>5, <2>1 DEF HoldWithRow, Deliver, MoveMetal
  <2> QED
    BY <2>2, HoldMoves
<1>6. ASSUME NEW d \in Deliveries, Reject(d) PROVE HoldMatchesDeliveries'
  <2>1. -Refund(d) = Holding("rejected") - Holding(delivery[d])
        /\ -Refund(d) \in Int
    BY <1>6 DEF Reject, Holding, Refund, HeldStatuses
  <2>2. HoldWithRow(d, "rejected", -Refund(d))
    BY <1>6, <2>1 DEF HoldWithRow, Reject, MoveMetal
  <2> QED
    BY <2>2, HoldMoves
<1> QED
  BY <1>2, <1>3, <1>4, <1>5, <1>6
     DEF DeliveryNext, ApproveCheck, ApproveFails, sharedVars, metalBooks

\* Orders, the treasury, a freeze and midnight leave the hold alone.
LEMMA OthersHold ==
  ASSUME PlatformTypeOK, [PlatformNext]_platformVars, ~DeliveryNext
  PROVE  UNCHANGED <<deliveryHold, delivery>>
<1> USE DEF PlatformTypeOK, TypeOK
<1>1. CASE OrdersNext /\ UNCHANGED deliveryVars
  BY <1>1, OnlySettlementsPost
     DEF PostTrade, sharedVars, metalBooks, deliveryVars
<1>2. CASE (TreasuryNext \/ SharedNext) /\ UNCHANGED <<orderVars, deliveryVars>>
  BY <1>2 DEF TreasuryNext, RecordIntake, RecordOuttake, CapitalIn, CapitalOut,
     PostCapital, SharedNext, Midnight, Bar, Unbar, metalBooks, deliveryVars
<1>3. CASE UNCHANGED platformVars
  BY <1>3 DEF platformVars, sharedVars, metalBooks, deliveryVars
<1> QED
  BY <1>1, <1>2, <1>3 DEF PlatformNext

\* Nothing is on hold at the start.
LEMMA InitDeliveryHold == BooksInit /\ DeliveryInit => HoldMatchesDeliveries
<1> SUFFICES ASSUME BooksInit, DeliveryInit, NEW a \in Assets
             PROVE  deliveryHold[a] = SumOver(Grams, Held(a))
  BY DEF HoldMatchesDeliveries, Grams, Held
<1>1. deliveryHold[a] = 0 /\ Held(a) = {}
  BY DEF BooksInit, DeliveryInit, Held, HeldStatuses
<1> QED
  BY <1>1, SumEmpty

\* Every step of the platform moves the hold with the rows.
LEMMA PlatformStepHold ==
  PlatformTypeOK /\ HoldMatchesDeliveries /\ [PlatformNext]_platformVars
    => HoldMatchesDeliveries'
<1> SUFFICES ASSUME PlatformTypeOK, HoldMatchesDeliveries,
                    [PlatformNext]_platformVars
             PROVE  HoldMatchesDeliveries'
  OBVIOUS
<1>1. CASE DeliveryNext
  BY <1>1, DeliveryHold DEF PlatformTypeOK
<1>2. CASE ~DeliveryNext
  <2>1. UNCHANGED <<deliveryHold, delivery>>
    BY <1>2, OthersHold
  <2> QED
    BY <2>1 DEF HoldMatchesDeliveries
<1> QED
  BY <1>1, <1>2

\* The delivery hold is exactly the metal of the requests that hold some,
\* whatever officers approve, reject and hand over at the same time.
THEOREM PlatformHoldMatches == PlatformSpec => []HoldMatchesDeliveries
  BY InitDeliveryHold, PlatformStepHold, PlatformTypeCorrect, PTL
     DEF PlatformSpec, PlatformInit

-----------------------------------------------------------------------------
(* Overdrafts and the conservation of metal.                                *)

\* What the hold account has is a sum of what requests hold.
LEMMA HoldNotNegative ==
  ASSUME HoldMatchesDeliveries PROVE \A a \in Assets : deliveryHold[a] >= 0
<1> SUFFICES ASSUME NEW a \in Assets PROVE deliveryHold[a] >= 0
  OBVIOUS
<1>1. deliveryHold[a] = SumOver(Grams, Held(a))
  BY DEF HoldMatchesDeliveries, Grams, Held
<1>2. \A d \in Held(a) : Grams[d] \in Nat
  BY DeliveryAssumption DEF Grams, Held
<1>3. IsFiniteSet(Held(a))
  BY DeliveryAssumption, FS_Subset DEF Held
<1>4. SumOver(Grams, Held(a)) \in Nat
  BY <1>2, <1>3, SumType
<1> QED
  BY <1>1, <1>4

\* Metal leaves a customer's account only if it is there.
LEMMA DeliveryFunds ==
  ASSUME BooksTypeOK, DeliveryTypeOK, NoOverdraft, DeliveryNext
  PROVE  /\ \A u \in Users, a \in Assets : metal'[u][a] >= 0
         /\ UNCHANGED etbBooks
<1> USE DeliveryAssumption DEF BooksTypeOK, NoOverdraft
<1>1. ASSUME NEW d \in Deliveries, NEW n \in Int, NEW h, NEW o,
             MoveMetal(d, n, h, o),
             metal[Parcel[d].owner][Parcel[d].asset] + n * Parcel[d].grams >= 0
      PROVE  /\ \A u \in Users, a \in Assets : metal'[u][a] >= 0
             /\ UNCHANGED etbBooks
  <2> DEFINE p == Parcel[d]
             new == metal[p.owner][p.asset] + n * p.grams
  <2>1. metal' = [metal EXCEPT ![p.owner][p.asset] = new] /\ UNCHANGED etbBooks
    BY <1>1 DEF MoveMetal
  <2>2. new >= 0
    BY <1>1
  <2> HIDE DEF new
  <2>3. ASSUME NEW u \in Users, NEW a \in Assets PROVE metal'[u][a] >= 0
    <3>1. metal'[u][a] \in {metal[u][a], new}
      BY <2>1
    <3> QED
      BY <2>2, <3>1
  <2> QED
    BY <2>1, <2>3
<1>2. ASSUME NEW d \in Deliveries, Approve(d) PROVE
        /\ \A u \in Users, a \in Assets : metal'[u][a] >= 0
        /\ UNCHANGED etbBooks
  <2>1. metal[Parcel[d].owner][Parcel[d].asset] + (-1) * Parcel[d].grams >= 0
    BY <1>2 DEF Approve, HeldOf
  <2> QED
    BY <1>1, <1>2, <2>1 DEF Approve
<1>3. ASSUME NEW d \in Deliveries, NEW n \in {0, 1}, NEW h, NEW o,
             MoveMetal(d, n, h, o)
      PROVE  /\ \A u \in Users, a \in Assets : metal'[u][a] >= 0
             /\ UNCHANGED etbBooks
  <2>1. Parcel[d].grams \in Nat /\ metal[Parcel[d].owner][Parcel[d].asset] \in Nat
    OBVIOUS
  <2>2. n * Parcel[d].grams \in {0, Parcel[d].grams} /\ n \in Int
    BY <2>1
  <2>3. metal[Parcel[d].owner][Parcel[d].asset] + n * Parcel[d].grams >= 0
    BY <2>1, <2>2
  <2> QED
    BY <1>1, <1>3, <2>2, <2>3
<1>4. ASSUME NEW d \in Deliveries PROVE Refund(d) \in {0, 1}
  BY DEF Refund
<1>5. ASSUME NEW d \in Deliveries, Deliver(d) \/ Reject(d) PROVE
        /\ \A u \in Users, a \in Assets : metal'[u][a] >= 0
        /\ UNCHANGED etbBooks
  BY <1>3, <1>4, <1>5 DEF Deliver, Reject
<1> QED
  BY <1>2, <1>5 DEF DeliveryNext, CreateCheck, CreateInsert, ApproveCheck,
                    ApproveFails, Schedule, sharedVars, metalBooks

\* Every step of the platform overdraws nobody.
LEMMA PlatformStepFunds ==
  /\ PlatformTypeOK /\ NoOverdraft /\ HoldMatchesDeliveries'
  /\ [PlatformNext]_platformVars
  => NoOverdraft'
<1> SUFFICES ASSUME PlatformTypeOK, NoOverdraft, HoldMatchesDeliveries',
                    [PlatformNext]_platformVars
             PROVE  NoOverdraft'
  OBVIOUS
<1> USE DEF PlatformTypeOK, TypeOK
<1>1. CASE UNCHANGED <<cents, payoutHold, metalBooks>>
  BY <1>1 DEF NoOverdraft, metalBooks
<1>2. CASE OrdersNext
  BY <1>1, <1>2, OnlySettlementsPost, TradeKeepsFunds
     DEF sharedVars, etbBooks
<1>3. CASE DeliveryNext
  <2>1. \A a \in Assets : deliveryHold'[a] >= 0
    <3>1. \A a \in Assets : deliveryHold'[a] = SumOver(Grams, Held(a)')
      BY DEF HoldMatchesDeliveries, Grams, Held
    <3>2. \A a \in Assets : SumOver(Grams, Held(a)') \in Nat
      <4> SUFFICES ASSUME NEW a \in Assets
                   PROVE  SumOver(Grams, Held(a)') \in Nat
        OBVIOUS
      <4> DEFINE now == Held(a)'
      <4>1. now \in SUBSET Deliveries
        BY DEF Held
      <4> HIDE DEF now
      <4>2. IsFiniteSet(now) /\ \A d \in now : Grams[d] \in Nat
        BY <4>1, DeliveryAssumption, FS_Subset DEF Grams
      <4>3. SumOver(Grams, now) \in Nat
        BY <4>2, SumType
      <4> QED
        BY <4>3 DEF now
    <3> QED
      BY <3>1, <3>2
  <2>2. /\ \A u \in Users, a \in Assets : metal'[u][a] >= 0
        /\ UNCHANGED etbBooks
    BY <1>3, DeliveryFunds
  <2> QED
    BY <2>1, <2>2 DEF NoOverdraft, etbBooks
<1>4. CASE TreasuryNext \/ SharedNext \/ UNCHANGED platformVars
  BY <1>1, <1>4 DEF TreasuryNext, RecordIntake, RecordOuttake, CapitalIn,
     CapitalOut, PostCapital, SharedNext, Midnight, Bar, Unbar, etbBooks,
     platformVars, sharedVars
<1> QED
  BY <1>2, <1>3, <1>4 DEF PlatformNext

\* Nobody is overdrawn at the start.
LEMMA InitFunds == BooksInit => NoOverdraft
  BY BooksAssumption DEF BooksInit, NoOverdraft

\* No customer account and no holding account goes below zero on the platform.
THEOREM PlatformNoOverdraft == PlatformSpec => []NoOverdraft
  BY InitFunds, PlatformStepFunds, PlatformTypeCorrect, PlatformHoldMatches, PTL
     DEF PlatformSpec, PlatformInit

\* Every step moves metal of one customer at most, and between that customer,
\* the hold and the vault account.
MetalPosting ==
    \E u \in Users :
        /\ \A v \in Users \ {u} : metal'[v] = metal[v]
        /\ \A a \in Assets : metal'[u][a] + vault'[a] + deliveryHold'[a]
                               = metal[u][a] + vault[a] + deliveryHold[a]

\* Metal that moves between a customer, the hold and the vault balances.
LEMMA MoveBalances ==
  ASSUME PlatformTypeOK, NEW d \in Deliveries, NEW n \in Int, NEW h \in Int,
         NEW o \in Int, MoveMetal(d, n, h, o), n + h + o = 0
  PROVE  ZeroSumPosting
<1> USE DEF PlatformTypeOK
<1> DEFINE p == Parcel[d]
           u == p.owner
<1>1. u \in Users /\ p.asset \in Assets /\ p.grams \in Nat
  BY DeliveryAssumption
<1>2. /\ \A v \in Users \ {u} : cents'[v] = cents[v] /\ metal'[v] = metal[v]
      /\ cents'[u] + cash' + charges' + external' + payoutHold'
           = cents[u] + cash + charges + external + payoutHold
  BY DEF MoveMetal, BooksTypeOK, etbBooks
<1>3. ASSUME NEW a \in Assets, a # p.asset
      PROVE  metal'[u][a] + vault'[a] + deliveryHold'[a]
               = metal[u][a] + vault[a] + deliveryHold[a]
  BY <1>1, <1>3 DEF MoveMetal, BooksTypeOK
<1>4. metal'[u][p.asset] + vault'[p.asset] + deliveryHold'[p.asset]
        = metal[u][p.asset] + vault[p.asset] + deliveryHold[p.asset]
  <2> DEFINE a == p.asset
  <2>1. /\ metal'[u][a] = metal[u][a] + n * p.grams
        /\ vault'[a] = vault[a] + o * p.grams
        /\ deliveryHold'[a] = deliveryHold[a] + h * p.grams
    BY <1>1 DEF MoveMetal, BooksTypeOK
  <2>2. metal[u][a] \in Int /\ vault[a] \in Int /\ deliveryHold[a] \in Int
    BY <1>1 DEF BooksTypeOK
  <2>3. n * p.grams + h * p.grams + o * p.grams = (n + h + o) * p.grams
    BY <1>1
  <2>4. n * p.grams \in Int /\ h * p.grams \in Int /\ o * p.grams \in Int
        /\ (n + h + o) * p.grams = 0
    BY <1>1
  <2> QED
    BY <2>1, <2>2, <2>3, <2>4
<1> QED
  BY <1>1, <1>2, <1>3, <1>4 DEF ZeroSumPosting

\* So do all postings of deliveries ...
LEMMA DeliveryBalances ==
  ASSUME PlatformTypeOK, DeliveryNext
  PROVE  ZeroSumPosting \/ UNCHANGED <<etbBooks, metalBooks>>
<1>1. ASSUME NEW d \in Deliveries PROVE Refund(d) \in Int /\ -Refund(d) \in Int
                                        /\ Refund(d) + (-Refund(d)) + 0 = 0
  BY DEF Refund
<1>2. ASSUME NEW d \in Deliveries, Approve(d) \/ Deliver(d) \/ Reject(d)
      PROVE  ZeroSumPosting
  <2>1. MoveMetal(d, -1, 1, 0) => ZeroSumPosting
    BY MoveBalances
  <2>2. MoveMetal(d, 0, -1, 1) => ZeroSumPosting
    BY MoveBalances
  <2>3. MoveMetal(d, Refund(d), -Refund(d), 0) => ZeroSumPosting
    BY <1>1, MoveBalances
  <2> QED
    BY <1>2, <2>1, <2>2, <2>3 DEF Approve, Deliver, Reject
<1> QED
  BY <1>2 DEF DeliveryNext, CreateCheck, CreateInsert, ApproveCheck,
              ApproveFails, Schedule, sharedVars

\* ... and all steps that touch metal.
LEMMA MetalPosts ==
  ASSUME PlatformTypeOK, [PlatformNext]_platformVars
  PROVE  MetalPosting \/ UNCHANGED metalBooks
<1>1. CASE OrdersNext
  BY <1>1, OnlySettlementsPost, TradeBalances
     DEF PlatformTypeOK, TypeOK, sharedVars, ZeroSumPosting, MetalPosting
<1>2. CASE DeliveryNext
  BY <1>2, DeliveryBalances DEF ZeroSumPosting, MetalPosting
<1>3. CASE TreasuryNext \/ SharedNext \/ UNCHANGED platformVars
  BY <1>3 DEF TreasuryNext, RecordIntake, RecordOuttake, CapitalIn, CapitalOut,
     PostCapital, SharedNext, Midnight, Bar, Unbar, platformVars, sharedVars
<1> QED
  BY <1>1, <1>2, <1>3 DEF PlatformNext

\* Capital moves between system accounts: for any customer, a balanced posting.
LEMMA PlatformPostings ==
  ASSUME PlatformTypeOK, Users # {}, [PlatformNext]_platformVars
  PROVE  ZeroSumPosting \/ UNCHANGED <<etbBooks, metalBooks>>
<1>1. CASE OrdersNext
  BY <1>1, OnlySettlementsPost, TradeBalances
     DEF PlatformTypeOK, TypeOK, sharedVars
<1>2. ASSUME NEW n \in Int, PostCapital(n) PROVE ZeroSumPosting
  <2>1. PICK u \in Users : TRUE
    OBVIOUS
  <2>2. /\ cents[u] \in Int /\ cash \in Int /\ external \in Int
        /\ charges \in Int /\ payoutHold \in Int
    BY DEF PlatformTypeOK, BooksTypeOK
  <2>3. /\ cents' = cents /\ cash' = cash + n /\ charges' = charges
        /\ external' = external - n /\ payoutHold' = payoutHold
        /\ UNCHANGED <<metal, vault, deliveryHold>>
    BY <1>2 DEF PostCapital, metalBooks
  <2>4. cents'[u] + cash' + charges' + external' + payoutHold'
          = cents[u] + cash + charges + external + payoutHold
    BY <2>2, <2>3
  <2> QED
    BY <2>3, <2>4 DEF ZeroSumPosting
<1>3. CASE TreasuryNext
  BY <1>2, <1>3 DEF TreasuryNext, RecordIntake, RecordOuttake, CapitalIn,
                    CapitalOut
<1>4. CASE SharedNext \/ UNCHANGED platformVars
  BY <1>4 DEF SharedNext, Midnight, Bar, Unbar, platformVars, sharedVars
<1> QED
  BY <1>1, <1>2, <1>3, <1>4, DeliveryBalances DEF PlatformNext

\* The metal of all customers, in any state of the accounts.
AllMetal(accounts, a) == SumOver([u \in Users |-> accounts[u][a]], Users)

\* A posting keeps what customers and hold have equal to what was issued.
LEMMA PostingConserves ==
  ASSUME BooksTypeOK, BooksTypeOK', NoOverdraft, NoOverdraft', MetalConserved,
         MetalPosting, NEW a \in Assets, NEW now, now = metal'
  PROVE  deliveryHold'[a] + AllMetal(now, a) = -vault'[a]
<1>1. PICK u \in Users :
        /\ \A v \in Users \ {u} : now[v] = metal[v]
        /\ now[u][a] + vault'[a] + deliveryHold'[a]
             = metal[u][a] + vault[a] + deliveryHold[a]
  BY DEF MetalPosting
<1> DEFINE f == [v \in Users |-> metal[v][a]]
           g == [v \in Users |-> now[v][a]]
<1>2. \A v \in Users : f[v] \in Nat /\ g[v] \in Nat
  BY DEF NoOverdraft, BooksTypeOK
<1>3. (\A v \in Users \ {u} : g[v] = f[v]) /\ f[u] = metal[u][a] /\ g[u] = now[u][a]
  BY <1>1
<1>4. /\ deliveryHold[a] \in Int /\ vault[a] \in Int
      /\ deliveryHold'[a] \in Int /\ vault'[a] \in Int
  BY DEF BooksTypeOK
<1>5. deliveryHold[a] + SumOver(f, Users) = -vault[a]
  BY DEF MetalConserved, Owed
<1>6. AllMetal(now, a) = SumOver(g, Users)
  BY DEF AllMetal
<1> HIDE DEF f, g
<1>7. /\ SumOver(g, Users) = SumOver(f, Users) + (g[u] - f[u])
      /\ SumOver(f, Users) \in Nat /\ SumOver(g, Users) \in Nat
  BY <1>2, <1>3, BooksAssumption, SumChange
<1> QED
  BY <1>1, <1>2, <1>3, <1>4, <1>5, <1>6, <1>7

\* What the customers own at the start was issued.
LEMMA InitMetal == BooksInit => MetalConserved
<1> SUFFICES ASSUME BooksInit, NEW a \in Assets
             PROVE  deliveryHold[a] + AllMetal(metal, a) = -vault[a]
  BY DEF MetalConserved, AllMetal, Owed
<1> DEFINE f == [u \in Users |-> metal[u][a]]
<1>1. deliveryHold[a] = 0 /\ vault[a] = -(Cardinality(Users) * OpeningMetal)
      /\ \A u \in Users : f[u] = OpeningMetal
  BY DEF BooksInit
<1>2. AllMetal(metal, a) = SumOver(f, Users)
  BY DEF AllMetal
<1> HIDE DEF f
<1>3. SumOver(f, Users) = Cardinality(Users) * OpeningMetal
  BY <1>1, BooksAssumption, SumConstant
<1>4. Cardinality(Users) * OpeningMetal \in Int
  BY BooksAssumption, FS_CardinalityType
<1> QED
  BY <1>1, <1>2, <1>3, <1>4

\* Every step of the platform conserves metal ...
LEMMA PlatformStepMetal ==
  /\ PlatformTypeOK /\ PlatformTypeOK' /\ NoOverdraft /\ NoOverdraft'
  /\ MetalConserved /\ [PlatformNext]_platformVars
  => MetalConserved'
<1> SUFFICES ASSUME PlatformTypeOK, PlatformTypeOK', NoOverdraft,
                    NoOverdraft', MetalConserved, [PlatformNext]_platformVars
             PROVE  MetalConserved'
  OBVIOUS
<1>1. CASE UNCHANGED metalBooks
  BY <1>1 DEF MetalConserved, Owed, metalBooks
<1>2. CASE MetalPosting
  <2>1. BooksTypeOK /\ BooksTypeOK'
    BY DEF PlatformTypeOK
  <2>2. \A a \in Assets : deliveryHold'[a] + AllMetal(metal', a) = -vault'[a]
    BY <1>2, <2>1, PostingConserves
  <2> QED
    BY <2>2 DEF MetalConserved, AllMetal, Owed
<1> QED
  BY <1>1, <1>2, MetalPosts

\* ... and moves money of one customer at most, against the system accounts.
LEMMA PlatformMoneyPosts ==
  ASSUME PlatformTypeOK, [PlatformNext]_platformVars
  PROVE  MoneyPosting
<1> USE DEF PlatformTypeOK, TypeOK
<1>1. UNCHANGED etbBooks => MoneyPosting
  BY DEF etbBooks, MoneyPosting, SystemCents
<1>2. CASE OrdersNext
  <2>1. ASSUME ZeroSumPosting PROVE MoneyPosting
    <3>1. PICK u \in Users :
            /\ \A v \in Users \ {u} : cents'[v] = cents[v]
            /\ cents'[u] + cash' + charges' + external' + payoutHold'
                 = cents[u] + cash + charges + external + payoutHold
      BY <2>1 DEF ZeroSumPosting
    <3>2. /\ cents[u] \in Int /\ cash \in Int /\ charges \in Int
          /\ external \in Int /\ payoutHold \in Int
          /\ cents'[u] \in Int /\ cash' \in Int /\ charges' \in Int
          /\ external' \in Int /\ payoutHold' \in Int
      BY PlatformStepType DEF BooksTypeOK
    <3>3. cents'[u] + SystemCents' = cents[u] + SystemCents
      BY <3>1, <3>2 DEF SystemCents
    <3> QED
      BY <3>1, <3>3 DEF MoneyPosting
  <2> QED
    BY <1>1, <1>2, <2>1, OnlySettlementsPost, TradeBalances DEF sharedVars
<1>3. CASE DeliveryNext
  BY <1>1, <1>3 DEF DeliveryNext, CreateCheck, CreateInsert, ApproveCheck,
     Approve, ApproveFails, Schedule, Deliver, Reject, MoveMetal, sharedVars
<1>4. ASSUME NEW n \in Int, PostCapital(n) PROVE MoneyPosting
  BY <1>4 DEF PostCapital, MoneyPosting, SystemCents, BooksTypeOK
<1>5. CASE TreasuryNext
  BY <1>1, <1>4, <1>5 DEF TreasuryNext, RecordIntake, RecordOuttake, CapitalIn,
                          CapitalOut
<1>6. CASE SharedNext \/ UNCHANGED platformVars
  BY <1>1, <1>6 DEF SharedNext, Midnight, Bar, Unbar, platformVars, sharedVars
<1> QED
  BY <1>2, <1>3, <1>5, <1>6 DEF PlatformNext

\* The books balance in every metal and in money: what customers and holds
\* have is what was issued, deposited or put in as capital.
THEOREM PlatformBooksBalance == PlatformSpec => []BooksBalance
<1>1. /\ PlatformTypeOK /\ PlatformTypeOK' /\ NoOverdraft /\ NoOverdraft'
      /\ MoneyConserved /\ [PlatformNext]_platformVars
      => MoneyConserved'
  BY PlatformMoneyPosts, PostingKeepsMoney DEF PlatformTypeOK
<1> QED
  BY <1>1, InitMetal, InitMoney, PlatformStepMetal, PlatformTypeCorrect,
     PlatformNoOverdraft, PTL DEF PlatformSpec, PlatformInit, BooksBalance

-----------------------------------------------------------------------------
(* The float.                                                               *)

\* Capital is paid out down to the halt threshold and no further, like a
\* sell-back.
LEMMA PlatformFloatStep ==
  ASSUME PlatformTypeOK, [PlatformNext]_platformVars
  PROVE  cash' < cash => cash' >= Halt
<1> USE DEF PlatformTypeOK
<1>1. cash \in Int /\ Halt \in Nat
  BY BooksAssumption DEF BooksTypeOK
<1>2. UNCHANGED cash => ~(cash' < cash)
  BY <1>1
<1>3. CASE OrdersNext
  BY <1>3, OrdersFloatStep DEF TypeOK
<1>4. CASE TreasuryNext
  <2>1. CapitalIn(1) => cash' = cash + 1
    BY DEF CapitalIn, PostCapital
  <2>2. CapitalOut(1) => cash' >= Halt
    BY <1>1 DEF CapitalOut, PostCapital
  <2>3. \A a \in Assets : RecordIntake(a, 1) \/ RecordOuttake(a, 1)
                            => UNCHANGED cash
    BY DEF RecordIntake, RecordOuttake, etbBooks
  <2> QED
    BY <1>1, <1>2, <1>4, <2>1, <2>2, <2>3 DEF TreasuryNext
<1>5. CASE DeliveryNext \/ SharedNext \/ UNCHANGED platformVars
  BY <1>2, <1>5 DEF DeliveryNext, CreateCheck, CreateInsert, ApproveCheck,
     Approve, ApproveFails, Schedule, Deliver, Reject, MoveMetal, SharedNext,
     Midnight, Bar, Unbar, platformVars, sharedVars, etbBooks
<1> QED
  BY <1>3, <1>4, <1>5 DEF PlatformNext
=============================================================================
