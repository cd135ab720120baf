------------------------------ MODULE Payouts ------------------------------
(***************************************************************************)
(* Withdrawals: an emailed code confirms a request, its cents move to the  *)
(* hold, a human or the instant path sends a Chapa transfer, and whoever   *)
(* gets a clear answer from Chapa (the sender, a webhook, the sweeper)     *)
(* settles or refunds it.                                                  *)
(*                                                                         *)
(* A payout row is named by the intent its code confirmed: a code is used  *)
(* once, so there is at most one row per intent.  The calls that work on a *)
(* payout hold no lock between their statements; any of them may die at    *)
(* any point, and Chapa may take a transfer whose answer is lost.          *)
(***************************************************************************)
EXTENDS Books, Sequences

CONSTANTS
    Intents,      \* confirmed requests
    Request,      \* intent -> [owner, amount, dest, key]; what the code binds
    NameMatches,  \* intents whose account name is the verified legal name
    Known,        \* destinations paid before the behaviour starts
    AutoMax,      \* PAYOUT_AUTO_APPROVE_MAX_CENTS
    ReviewLine,   \* COMPLIANCE_REVIEW_THRESHOLD_CENTS
    DayMaxCount,  \* PAYOUT_DAILY_MAX_COUNT
    SweepLimit,   \* rows one sweep looks at (50)
    Deployments   \* settings the service may be started with:
                  \*   test: a Chapa test key; dayMax: PAYOUT_DAILY_MAX_CENTS

ASSUME PayoutsAssumption ==
    /\ IsFiniteSet(Intents)
    /\ \A i \in Intents : /\ Request[i].owner \in Users
                          /\ Request[i].amount \in Nat \ {0}
    /\ {AutoMax, ReviewLine, DayMaxCount, SweepLimit} \subseteq Nat
    /\ Deployments \subseteq [test : BOOLEAN, dayMax : Nat]

VARIABLES
    settings,  \* those this process was started with
    code,      \* the emailed code: "none", "issuing", "live", "used", "dead"
    payout,    \* the row: its status, and the days of its reads of the clock
    born,      \* rows in the order they were committed (the sweep sorts by
               \* created_at, another order only for concurrent requests)
    confirm,   \* where the call that confirmed the intent is
    since,     \* the day its database transaction started
    claimers,  \* callers past assertCanMoveMoney, about to claim the row
    sender,    \* where the call that claimed the row is
    transfer,  \* what Chapa knows of the transfer
    posts,     \* transfers POSTed for the payout
    answers    \* clear answers of Chapa that some call has in hand

payoutVars ==
    <<settings, code, payout, born, confirm, since, claimers, sender, transfer,
      posts, answers>>
payoutsAndBooks == <<sharedVars, payoutVars>>

\* `checked' is the day the limits were read, `routed' the day the instant
\* path's conditions were, `auto' means the instant path claimed the row.
NoPayout == [status |-> "none", created |-> 0, checked |-> 0, routed |-> 0,
             auto |-> FALSE]

PayoutRows == [status : {"requested", "processing", "settled", "rejected"},
               created : Days, checked : Days, routed : Days, auto : BOOLEAN]

PayoutRowsTypeOK ==
    /\ settings \in Deployments
    /\ code \in [Intents -> {"none", "issuing", "live", "used", "dead"}]
    /\ payout \in [Intents -> {NoPayout} \cup PayoutRows]
    /\ born \in Seq(Intents)
    /\ confirm \in [Intents -> {"idle", "consumed", "begun", "route"}]
    /\ since \in [Intents -> Days]
    /\ claimers \in [Intents -> SUBSET {"auto", "staff"}]
    /\ sender \in [Intents -> {"idle", "sending", "waiting", "verify"}]
    /\ transfer \in [Intents -> {"none", "inflight", "refused", "queued",
                                 "success", "failed"}]
    /\ posts \in [Intents -> Nat]
    /\ answers \in [Intents -> SUBSET {"success", "failed", "refused"}]

PayoutsTypeOK == BooksTypeOK /\ PayoutRowsTypeOK

PayoutsInit ==
    /\ BooksInit
    /\ settings \in Deployments
    /\ code = [i \in Intents |-> "none"]
    /\ payout = [i \in Intents |-> NoPayout]
    /\ born = <<>>
    /\ confirm = [i \in Intents |-> "idle"]
    /\ since = [i \in Intents |-> 0]
    /\ claimers = [i \in Intents |-> {}]
    /\ sender = [i \in Intents |-> "idle"]
    /\ transfer = [i \in Intents |-> "none"]
    /\ posts = [i \in Intents |-> 0]
    /\ answers = [i \in Intents |-> {}]

Customer(i) == Request[i].owner
AmountOf(i) == Request[i].amount
Is(i, status) == payout[i].status = status
SetPayout(i, s) == payout' = [payout EXCEPT ![i].status = s]
Advance(i, at) == confirm' = [confirm EXCEPT ![i] = at]

-----------------------------------------------------------------------------
(* The daily totals: every payout of the customer not refused, created     *)
(* since midnight.                                                         *)

Counted == {"requested", "processing", "settled"}

CountedToday_Settled(u) ==  \* mutant: what is under way does not count
    {i \in Intents : /\ Customer(i) = u /\ Is(i, "settled")
                     /\ payout[i].created >= today}
CountedToday(u) == {i \in Intents : /\ Customer(i) = u
                                    /\ payout[i].status \in Counted
                                    /\ payout[i].created >= today}

SumOf(is) == SumOver([i \in Intents |-> AmountOf(i)], is)

WithinDayLimits(i) ==
    /\ Cardinality(CountedToday(Customer(i))) + 1 <= DayMaxCount
    /\ SumOf(CountedToday(Customer(i))) + AmountOf(i) <= settings.dayMax

-----------------------------------------------------------------------------
(* The customer's calls. *)

\* Step 1: the advisory gates pass, and any live code of the customer's is
\* retired ...
CreateIntent(i) ==
    /\ code[i] = "none"
    /\ Customer(i) \notin barred
    /\ cents[Customer(i)] >= AmountOf(i)
    /\ WithinDayLimits(i)
    /\ code' = [j \in Intents |->
                  IF j = i THEN "issuing"
                  ELSE IF Customer(j) = Customer(i) /\ code[j] = "live" THEN "dead"
                  ELSE code[j]]
    /\ UNCHANGED <<sharedVars, settings, payout, born, confirm, since, claimers,
                   sender, transfer, posts, answers>>

\* ... before the new one is inserted and emailed: two calls at once may leave
\* two live codes.
IssueCode(i) ==
    /\ code[i] = "issuing"
    /\ code' = [code EXCEPT ![i] = "live"]
    /\ UNCHANGED <<sharedVars, settings, payout, born, confirm, since, claimers,
                   sender, transfer, posts, answers>>

\* Its minutes run out, or the process died before inserting it.
CodeExpires(i) ==
    /\ code[i] \in {"issuing", "live"}
    /\ code' = [code EXCEPT ![i] = "dead"]
    /\ UNCHANGED <<sharedVars, settings, payout, born, confirm, since, claimers,
                   sender, transfer, posts, answers>>

KeyTaken(i) == \E j \in Intents : /\ Request[j].key = Request[i].key
                                  /\ ~Is(j, "none")

\* Step 2: no payout holds the key, and the code is consumed, once.
Confirm(i) ==
    /\ ~KeyTaken(i)
    /\ code[i] = "live"
    /\ code' = [code EXCEPT ![i] = "used"]
    /\ Advance(i, "consumed")
    /\ UNCHANGED <<sharedVars, settings, payout, born, since, claimers, sender,
                   transfer, posts, answers>>

\* The transaction starts; now() is fixed here.
BeginRequest(i) ==
    /\ confirm[i] = "consumed"
    /\ Customer(i) \notin barred
    /\ Advance(i, "begun")
    /\ since' = [since EXCEPT ![i] = today]
    /\ UNCHANGED <<sharedVars, settings, code, payout, born, claimers, sender,
                   transfer, posts, answers>>

Accepted(i) == cents[Customer(i)] >= AmountOf(i) /\ WithinDayLimits(i)

InsertRow_Approved(i, status) ==  \* mutant: a status nothing resolves
    /\ confirm[i] = "begun"
    /\ ~KeyTaken(i)
    /\ payout' = [payout EXCEPT ![i] = [NoPayout EXCEPT !.status = "approved"]]
    /\ born' = Append(born, i)
InsertRow(i, status) ==
    /\ confirm[i] = "begun"
    /\ ~KeyTaken(i)
    /\ payout' = [payout EXCEPT ![i] = [NoPayout EXCEPT !.status = status,
                                                        !.created = since[i],
                                                        !.checked = today]]
    /\ born' = Append(born, i)

\* A refusal commits.
RefuseRequest(i) ==
    /\ ~Accepted(i)
    /\ InsertRow(i, "rejected")
    /\ Advance(i, "idle")
    /\ UNCHANGED <<sharedVars, settings, code, since, claimers, sender,
                   transfer, posts, answers>>

\* The cents move from the customer to the hold.
HoldRequest(i) ==
    /\ Accepted(i)
    /\ InsertRow(i, "requested")
    /\ cents' = [cents EXCEPT ![Customer(i)] = @ - AmountOf(i)]
    /\ payoutHold' = payoutHold + AmountOf(i)
    /\ Advance(i, "route")
    /\ UNCHANGED <<cash, charges, external, metalBooks, physical, barred,
                   today, settings, code, since, claimers, sender, transfer,
                   posts, answers>>

\* A rival holds the key, the owner was barred, or the process dies: the code
\* is spent without a row, or the row is left for finance.
RequestFails(i) ==
    /\ confirm[i] # "idle"
    /\ Advance(i, "idle")
    /\ UNCHANGED <<sharedVars, settings, code, payout, born, since, claimers,
                   sender, transfer, posts, answers>>

-----------------------------------------------------------------------------
(* Approval: instant, or by finance. *)

PaidBefore(i) ==
    \/ Request[i].dest \in Known
    \/ \E j \in Intents \ {i} : /\ Customer(j) = Customer(i) /\ Is(j, "settled")
                                /\ Request[j].dest = Request[i].dest

NeedsHuman_Others(i) ==  \* mutant: the total leaves out this payout
    \/ AmountOf(i) >= AutoMax
    \/ ~PaidBefore(i)
    \/ i \notin NameMatches
    \/ SumOf(CountedToday(Customer(i)) \ {i}) >= ReviewLine
NeedsHuman(i) ==
    \/ AmountOf(i) >= AutoMax
    \/ ~PaidBefore(i)
    \/ i \notin NameMatches
    \/ SumOf(CountedToday(Customer(i))) >= ReviewLine

\* After the hold committed: the instant path if nothing calls for a human
\* and the customer may still move money, else the row waits for finance.
Route(i) ==
    /\ confirm[i] = "route"
    /\ claimers' = IF NeedsHuman(i) \/ Customer(i) \in barred THEN claimers
                  ELSE [claimers EXCEPT ![i] = @ \cup {"auto"}]
    /\ payout' = [payout EXCEPT ![i].routed = today]
    /\ Advance(i, "idle")
    /\ UNCHANGED <<sharedVars, settings, code, born, since, sender, transfer,
                   posts, answers>>

\* Finance approves, and the owner may move money.  (Approving a payout in
\* any other status answers a conflict and changes nothing.)
StaffApprove(i) ==
    /\ Is(i, "requested")
    /\ Customer(i) \notin barred
    /\ claimers' = [claimers EXCEPT ![i] = @ \cup {"staff"}]
    /\ UNCHANGED <<sharedVars, settings, code, payout, born, confirm, since,
                   sender, transfer, posts, answers>>

Claim_AnyStatus(i, who) ==  \* mutant: an unconditional UPDATE
    /\ who \in claimers[i]
    /\ SetPayout(i, "processing")
    /\ claimers' = [claimers EXCEPT ![i] = @ \ {who}]
    /\ sender' = [sender EXCEPT ![i] = "sending"]
    /\ UNCHANGED <<sharedVars, settings, code, born, confirm, since, transfer,
                   posts, answers>>

\* The conditional UPDATE is the mutex between the instant path and people.
Claim(i, who) ==
    /\ who \in claimers[i]
    /\ Is(i, "requested")
    /\ payout' = [payout EXCEPT ![i].status = "processing",
                                ![i].auto = (who = "auto")]
    /\ claimers' = [claimers EXCEPT ![i] = @ \ {who}]
    /\ sender' = [sender EXCEPT ![i] = "sending"]
    /\ UNCHANGED <<sharedVars, settings, code, born, confirm, since, transfer,
                   posts, answers>>

\* The claim finds another status, or the caller dies before it.
ClaimFails(i, who) ==
    /\ who \in claimers[i]
    /\ claimers' = [claimers EXCEPT ![i] = @ \ {who}]
    /\ UNCHANGED <<sharedVars, settings, code, payout, born, confirm, since,
                   sender, transfer, posts, answers>>

-----------------------------------------------------------------------------
(* The transfer. *)

Send(i) ==
    /\ sender[i] = "sending"
    /\ transfer' = [transfer EXCEPT ![i] = "inflight"]
    /\ posts' = [posts EXCEPT ![i] = @ + 1]
    /\ sender' = [sender EXCEPT ![i] = "waiting"]
    /\ UNCHANGED <<sharedVars, settings, code, payout, born, confirm, since,
                   claimers, answers>>

\* Chapa takes or refuses the transfer, and decides what it took.
ChapaDecides(i, from, to) ==
    /\ transfer[i] = from
    /\ transfer' = [transfer EXCEPT ![i] = to]
    /\ UNCHANGED <<sharedVars, settings, code, payout, born, confirm, since,
                   claimers, sender, posts, answers>>

ChapaStep(i) ==
    \/ \E to \in {"queued", "refused"} : ChapaDecides(i, "inflight", to)
    \/ \E to \in {"success", "failed"} : ChapaDecides(i, "queued", to)

Holds(i, a) == answers' = [answers EXCEPT ![i] = @ \cup {a}]

SendAnswered_Timeout(i) ==  \* mutant: a timeout taken for a refusal
    /\ sender[i] = "waiting"
    /\ sender' = [sender EXCEPT ![i] = "idle"]
    /\ Holds(i, "refused")
    /\ UNCHANGED <<sharedVars, settings, code, payout, born, confirm, since,
                   claimers, transfer, posts>>

\* Chapa's answer reaches the sender: a definitive refusal, or taken.
SendAnswered(i) ==
    /\ sender[i] = "waiting"
    /\ \/ /\ transfer[i] = "refused"
          /\ sender' = [sender EXCEPT ![i] = "idle"]
          /\ Holds(i, "refused")
       \/ /\ transfer[i] \in {"queued", "success", "failed"}
          /\ sender' = [sender EXCEPT ![i] = "verify"]
          /\ UNCHANGED answers
    /\ UNCHANGED <<sharedVars, settings, code, payout, born, confirm, since,
                   claimers, transfer, posts>>

\* The answer is lost or unclear, or the process dies: the row stays
\* `processing', and nothing will send it again.
SenderStops(i) ==
    /\ sender[i] # "idle"
    /\ sender' = [sender EXCEPT ![i] = "idle"]
    /\ UNCHANGED <<sharedVars, settings, code, payout, born, confirm, since,
                   claimers, transfer, posts, answers>>

-----------------------------------------------------------------------------
(* Resolution. *)

ClearAnswer_Sandbox(i, a) ==  \* mutant: live keys take the sandbox branch
    \/ transfer[i] \in {"success", "failed"} /\ a = transfer[i]
    \/ transfer[i] \notin {"success", "failed"} /\ a = "success"

ClearAnswer_LiveOnly(i, a) ==  \* mutant: no sandbox branch
    transfer[i] \in {"success", "failed"} /\ a = transfer[i]

\* Chapa's verify answers clearly only what it decided; a test key reads
\* the empty answer as a success.
ClearAnswer(i, a) ==
    \/ transfer[i] \in {"success", "failed"} /\ a = transfer[i]
    \/ settings.test /\ transfer[i] \notin {"success", "failed"} /\ a = "success"

\* A webhook, or the sender, asks about a row it read as `processing'.
VerifyTransfer(i) ==
    /\ sender[i] = "verify" \/ transfer[i] \in {"success", "failed"}
    /\ Is(i, "processing")
    /\ \E a \in {"success", "failed"} : ClearAnswer(i, a) /\ Holds(i, a)
    /\ UNCHANGED <<sharedVars, settings, code, payout, born, confirm, since,
                   claimers, sender, transfer, posts>>

\* The rows a sweep selects: the oldest SweepLimit of those `processing'.
Swept(i) ==
    /\ Is(i, "processing")
    /\ LET waiting == SelectSeq(born, LAMBDA j : Is(j, "processing"))
       IN  \E n \in 1 .. Len(waiting) : n <= SweepLimit /\ waiting[n] = i

SweepVerify(i) ==
    /\ Swept(i)
    /\ \E a \in {"success", "failed"} : ClearAnswer(i, a) /\ Holds(i, a)
    /\ UNCHANGED <<sharedVars, settings, code, payout, born, confirm, since,
                   claimers, sender, transfer, posts>>

\* A call applies the answer it has.  It may be one of several that got the
\* same answer, so the answer stays; the conditional UPDATE lets one win.
SettleLedger(i) ==
    /\ "success" \in answers[i]
    /\ Is(i, "processing")
    /\ SetPayout(i, "settled")
    /\ payoutHold' = payoutHold - AmountOf(i)
    /\ external' = external + AmountOf(i)
    /\ UNCHANGED <<cents, cash, charges, metalBooks, physical, barred, today,
                   settings, code, born, confirm, since, claimers, sender,
                   transfer, posts, answers>>

RefundIfStatus_Split(i, from) ==  \* mutant: the refund is a later statement
    /\ Is(i, from)
    /\ SetPayout(i, "rejected")
    /\ UNCHANGED <<sharedVars, settings, code, born, confirm, since, claimers,
                   sender, transfer, posts, answers>>

RefundIfStatus_AnyStatus(i, from) ==  \* mutant: no WHERE on the status
    /\ ~Is(i, "none")
    /\ SetPayout(i, "rejected")
    /\ payoutHold' = payoutHold - AmountOf(i)
    /\ cents' = [cents EXCEPT ![Customer(i)] = @ + AmountOf(i)]
    /\ UNCHANGED <<cash, charges, external, metalBooks, physical, barred,
                   today, settings, code, born, confirm, since, claimers,
                   sender, transfer, posts, answers>>

\* Status change and refund in one transaction.
RefundIfStatus(i, from) ==
    /\ Is(i, from)
    /\ SetPayout(i, "rejected")
    /\ payoutHold' = payoutHold - AmountOf(i)
    /\ cents' = [cents EXCEPT ![Customer(i)] = @ + AmountOf(i)]
    /\ UNCHANGED <<cash, charges, external, metalBooks, physical, barred,
                   today, settings, code, born, confirm, since, claimers,
                   sender, transfer, posts, answers>>

RefundAndReject_Refused(i) ==  \* mutant: a failed transfer is not refunded
    "refused" \in answers[i] /\ RefundIfStatus(i, "processing")

RefundAndReject(i) ==
    /\ answers[i] \cap {"failed", "refused"} # {}
    /\ RefundIfStatus(i, "processing")

StaffReject(i) == RefundIfStatus(i, "requested")
-----------------------------------------------------------------------------
PayoutStep(i) ==
    \/ CreateIntent(i) \/ IssueCode(i) \/ CodeExpires(i) \/ Confirm(i)
    \/ BeginRequest(i) \/ RefuseRequest(i) \/ HoldRequest(i) \/ RequestFails(i)
    \/ Route(i) \/ StaffApprove(i) \/ StaffReject(i)
    \/ \E who \in {"auto", "staff"} : Claim(i, who) \/ ClaimFails(i, who)
    \/ Send(i) \/ ChapaStep(i) \/ SendAnswered(i) \/ SenderStops(i)
    \/ VerifyTransfer(i) \/ SweepVerify(i) \/ SettleLedger(i) \/ RefundAndReject(i)

PayoutsNext ==
    \/ \E i \in Intents : PayoutStep(i)
    \/ SharedNext /\ UNCHANGED payoutVars

PayoutsSpec == PayoutsInit /\ [][PayoutsNext]_payoutsAndBooks

\* The sweep runs again and again, and of the calls that have a clear answer
\* one gets to apply it.  Nothing else has to happen.
PayoutsFairSpec ==
    /\ PayoutsSpec
    /\ \A i \in Intents :
         /\ WF_payoutsAndBooks(SweepVerify(i))
         /\ WF_payoutsAndBooks(SettleLedger(i))
         /\ WF_payoutsAndBooks(RefundAndReject(i))
-----------------------------------------------------------------------------
(* Properties. *)

\* The hold account is exactly the payouts waiting or under way: no refund,
\* settlement or crash leaves cents behind or moves them twice.
HoldMatchesPayouts ==
    payoutHold = SumOf({i \in Intents : Is(i, "requested") \/ Is(i, "processing")})

\* Money that left, or may still leave, is never refunded too: a refused or
\* failed transfer is final, and nobody sends a rejected payout.
NeverPaidAndRefunded ==
    \A i \in Intents : Is(i, "rejected") =>
        /\ transfer[i] \in {"none", "refused", "failed"}
        /\ sender[i] # "sending"

\* A live payout is marked paid only after Chapa itself said so.
SettledOnlyIfPaid ==
    \A i \in Intents : Is(i, "settled") => settings.test \/ transfer[i] = "success"

\* The instant path and finance never both send the same payout.
SentAtMostOnce == \A i \in Intents : posts[i] <= 1

\* Concurrent requests do not slip past the daily limits together.
DailyLimitHolds ==
    \A u \in Users, d \in Days :
        LET is == {i \in Intents : /\ Customer(i) = u
                                  /\ payout[i].status \in Counted
                                  /\ payout[i].created = d
                                  /\ payout[i].checked = d}
        IN  SumOf(is) <= settings.dayMax /\ Cardinality(is) <= DayMaxCount

\* What a customer gets out in a day without a human stays under the review
\* line, although the instant path reads the total outside any lock.
AutoBelowLine ==
    \A u \in Users, d \in Days :
        LET is == {i \in Intents : /\ Customer(i) = u
                                  /\ payout[i].auto
                                  /\ payout[i].status \in Counted
                                  /\ payout[i].created = d
                                  /\ payout[i].routed = d}
        IN  is # {} => SumOf(is) < ReviewLine

\* The promise to the customer.  Stage and bank are read off the row's status
\* and off the transfer; a row the code refused and one it refunded are both
\* closed.
StageOf(status) ==
    CASE status = "none" -> "new"
      [] status \in {"requested", "processing"} -> "held"
      [] status = "settled" -> "paid"
      [] status = "rejected" -> "closed"

BankOf(t) ==
    CASE t = "none" -> "unasked"
      [] t \in {"inflight", "queued"} -> "asked"
      [] t = "success" -> "made"
      [] t \in {"refused", "failed"} -> "refused"

Custody == INSTANCE Escrow WITH
    Withdrawals <- Intents, OwnerOf <- Customer, Sum <- AmountOf,
    stage <- [i \in Intents |-> StageOf(payout[i].status)],
    bank <- [i \in Intents |-> BankOf(transfer[i])],
    funds <- cents, hold <- payoutHold, out <- external,
    trusting <- settings.test

\* Every step a withdrawal takes is one the promise allows: set aside once,
\* asked for once, written off only when the transfer was made, returned only
\* when it was not and cannot be any more.
KeepsCustody == Custody!EscrowSpec

\* What Chapa decided about a transfer reaches the books.
DecidedIsResolved ==
    \A i \in Intents :
        transfer[i] \in {"success", "failed"}
          ~> payout[i].status \in {"settled", "rejected"}

\* With a test key no payout sits in `processing' forever.
ProcessingResolves ==
    \A i \in Intents :
        settings.test /\ Is(i, "processing") ~> ~Is(i, "processing")
=============================================================================
