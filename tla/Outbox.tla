------------------------------- MODULE Outbox -------------------------------
(***************************************************************************)
(* The notification outbox and the worker process that empties it.  The    *)
(* API's emit and the worker's price alerts insert rows; a dispatcher      *)
(* claims a batch of due rows with a lease, reads them, sends each row's   *)
(* queued channels one after the other and writes the row back.  That last *)
(* UPDATE is unconditional and built from what was read.                   *)
(*                                                                         *)
(* One worker at a time holds an advisory lock and works.  One that finds  *)
(* it taken idles for good; one that loses its connection works on until   *)
(* its next tick asks for the lock again.  Workers die and are restarted,  *)
(* leases run out, and a provider may deliver a message yet seem to fail.  *)
(***************************************************************************)
EXTENDS Naturals, FiniteSets, Sequences

CONSTANTS
    Workers,      \* worker processes
    Notices,      \* notification rows
    Channels,     \* email, push, telegram
    NoWorker,     \* the lock's holder when it is free
    Batch,        \* BATCH: rows claimed at once
    MaxAttempts,  \* MAX_ATTEMPTS
    MaxFaults     \* bound on deaths, lost connections, overruns, lost answers

ASSUME OutboxAssumption ==
    /\ NoWorker \notin Workers
    /\ IsFiniteSet(Workers) /\ IsFiniteSet(Notices) /\ IsFiniteSet(Channels)
    /\ Batch \in Nat \ {0} /\ MaxAttempts \in Nat \ {0} /\ MaxFaults \in Nat

VARIABLES
    row,       \* the notification rows
    born,      \* the rows in the order of created_at
    inserts,   \* rows inserted for a notice
    alerts,    \* notices that belong to a price alert, set at the start
    armed,     \* alerts whose triggered_at is null
    lock,      \* the holder of the advisory lock
    worker,    \* each process
    crossed,   \* alerts a worker's tick has read as due
    job,       \* each dispatcher's pass
    copies,    \* messages a provider delivered, per notice and channel
    slips,     \* per notice: leases that ran out or were written over, answers
               \* that were lost
    faults     \* faults so far

outboxVars == <<row, born, inserts, alerts, armed, lock, worker, crossed, job,
                copies, slips, faults>>

\* A channel of a row: to be tried, delivered, or over (skipped or failed).
Statuses == {"queued", "sent", "over"}
NoRow == [status |-> [c \in Channels |-> "over"], attempts |-> 0,
          when |-> "none"]

\* `at': "off" between passes, "claimed" before the rows are read, "sending".
\* `todo': claimed rows not yet begun; `read': the row being sent, as read;
\* `status': its channels as sent so far; `left': channels still to try.
Resting == [at |-> "off", todo |-> {}, current |-> {},
            read |-> [n \in {} |-> NoRow], status |-> NoRow.status,
            left |-> {}, failed |-> FALSE]

Rows == [status : [Channels -> Statuses], attempts : Nat,
         when : {"none", "due", "leased", "later"}]

OutboxTypeOK ==
    /\ row \in [Notices -> Rows]
    /\ born \in Seq(Notices)
    /\ inserts \in [Notices -> Nat]
    /\ alerts \subseteq Notices
    /\ armed \subseteq alerts
    /\ lock \in Workers \cup {NoWorker}
    /\ worker \in [Workers -> {"off", "idle", "working"}]
    /\ crossed \in [Workers -> SUBSET alerts]
    /\ \A w \in Workers :
         /\ job[w].at \in {"off", "claimed", "sending"}
         /\ job[w].todo \subseteq Notices
         /\ job[w].current \subseteq job[w].todo
         /\ \A n \in DOMAIN job[w].read : job[w].read[n] \in Rows
         /\ job[w].status \in [Channels -> Statuses]
         /\ job[w].left \subseteq Channels
         /\ job[w].failed \in BOOLEAN
    /\ copies \in [Notices \X Channels -> Nat]
    /\ slips \in [Notices -> Nat]
    /\ faults \in 0 .. MaxFaults

OutboxInit ==
    /\ row = [n \in Notices |-> NoRow]
    /\ born = <<>>
    /\ inserts = [n \in Notices |-> 0]
    /\ alerts \in SUBSET Notices
    /\ armed = alerts
    /\ lock = NoWorker
    /\ worker = [w \in Workers |-> "off"]
    /\ crossed = [w \in Workers |-> {}]
    /\ job = [w \in Workers |-> Resting]
    /\ copies = [x \in Notices \X Channels |-> 0]
    /\ slips = [n \in Notices |-> 0]
    /\ faults = 0

Fault == faults < MaxFaults /\ faults' = faults + 1
Working(w) == worker[w] = "working"

-----------------------------------------------------------------------------
(* Rows come in. *)

\* Each channel the customer wants is queued, the others are over.
Insert(n, wanted) ==
    /\ row' = [row EXCEPT ![n] =
         [status |-> [c \in Channels |->
                        IF c \in wanted THEN "queued" ELSE "over"],
          attempts |-> 0, when |-> "due"]]
    /\ born' = Append(born, n)
    /\ inserts' = [inserts EXCEPT ![n] = @ + 1]

Emit(n, wanted) ==
    /\ n \notin alerts /\ inserts[n] = 0
    /\ Insert(n, wanted)
    /\ UNCHANGED <<alerts, armed, lock, worker, crossed, job, copies, slips,
                   faults>>

\* checkAlerts: read the untriggered alerts the price has crossed ...
ReadCrossed(w, as) ==
    /\ Working(w) /\ crossed[w] = {} /\ as # {}
    /\ as \subseteq armed
    /\ crossed' = [crossed EXCEPT ![w] = as]
    /\ UNCHANGED <<row, born, inserts, alerts, armed, lock, worker, job,
                   copies, slips, faults>>

Untriggered_AsRead(a) == TRUE  \* mutant: the UPDATE is unconditional
Untriggered(a) == a \in armed

\* ... and claim each and insert its notice in one transaction.
Fire(w, a, wanted) ==
    /\ a \in crossed[w]
    /\ crossed' = [crossed EXCEPT ![w] = @ \ {a}]
    /\ IF Untriggered(a)
       THEN armed' = armed \ {a} /\ Insert(a, wanted)
       ELSE UNCHANGED <<armed, row, born, inserts>>
    /\ UNCHANGED <<alerts, lock, worker, job, copies, slips, faults>>

-----------------------------------------------------------------------------
(* A dispatcher's pass. *)

Queued(n) == \E c \in Channels : row[n].status[c] = "queued"
Due(n) == row[n].when = "due" /\ Queued(n)

\* The oldest Batch due rows.
Oldest(i) == Cardinality({j \in 1 .. i : Due(born[j])}) <= Batch
Claimable == {born[i] : i \in {j \in 1 .. Len(born) : Due(born[j]) /\ Oldest(j)}}

Claim(w) ==
    /\ Working(w) /\ job[w] = Resting /\ Claimable # {}
    /\ row' = [n \in Notices |->
         IF n \in Claimable THEN [row[n] EXCEPT !.when = "leased"] ELSE row[n]]
    /\ job' = [job EXCEPT ![w].at = "claimed", ![w].todo = Claimable]
    /\ UNCHANGED <<born, inserts, alerts, armed, lock, worker, crossed, copies,
                   slips, faults>>

Load(w) ==
    /\ job[w].at = "claimed"
    /\ job' = [job EXCEPT ![w].at = "sending",
                          ![w].read = [n \in job[w].todo |-> row[n]]]
    /\ UNCHANGED <<row, born, inserts, alerts, armed, lock, worker, crossed,
                   copies, slips, faults>>

\* The next row of the batch; which of its channels are tried is what was read.
Begin(w, n) ==
    /\ job[w].at = "sending" /\ job[w].current = {} /\ n \in job[w].todo
    /\ LET status == job[w].read[n].status IN
       job' = [job EXCEPT ![w].current = {n}, ![w].status = status,
                          ![w].left = {c \in Channels : status[c] = "queued"}]
    /\ UNCHANGED <<row, born, inserts, alerts, armed, lock, worker, crossed,
                   copies, slips, faults>>

Deliver(n, c) == copies' = [copies EXCEPT ![<<n, c>>] = @ + 1]
Tried(w, c, status, failed) ==
    job' = [job EXCEPT ![w].left = @ \ {c}, ![w].status[c] = status,
                       ![w].failed = @ \/ failed]

\* Channels are independent, so their order is left open.  A try is delivered; or
\* there is nobody to send to, or it is refused for good; or an error, after
\* which the channel stays queued, although the message may have gone out.
Try(w, n, c) ==
    /\ job[w].current = {n} /\ c \in job[w].left
    /\ \/ /\ Tried(w, c, "sent", FALSE) /\ Deliver(n, c)
          /\ UNCHANGED <<slips, faults>>
       \/ Tried(w, c, "over", FALSE) /\ UNCHANGED <<copies, slips, faults>>
       \/ Tried(w, c, "queued", TRUE) /\ UNCHANGED <<copies, slips, faults>>
       \/ Tried(w, c, "queued", TRUE) /\ Deliver(n, c) /\ Fault
          /\ slips' = [slips EXCEPT ![n] = @ + 1]
    /\ UNCHANGED <<row, born, inserts, alerts, armed, lock, worker, crossed>>

AttemptsAfter_Kept(w, n) ==  \* mutant: a failed pass is not counted
    job[w].read[n].attempts
AttemptsAfter(w, n) ==
    job[w].read[n].attempts + (IF job[w].failed THEN 1 ELSE 0)

StatusAfter_AllOrNothing(w, n) ==  \* mutant: one failure keeps all as read
    IF job[w].failed THEN job[w].read[n].status ELSE job[w].status
StatusAfter_Dropped(w, n) ==  \* mutant: gives up with a status nobody knows
    [c \in Channels |->
       IF job[w].failed /\ AttemptsAfter(w, n) >= MaxAttempts
          /\ job[w].status[c] = "queued" THEN "dropped" ELSE job[w].status[c]]
\* After MaxAttempts what is still queued has failed.
StatusAfter(w, n) ==
    [c \in Channels |->
       IF job[w].failed /\ AttemptsAfter(w, n) >= MaxAttempts
          /\ job[w].status[c] = "queued" THEN "over" ELSE job[w].status[c]]

\* The row is written back, whatever it says by now; if another pass has
\* claimed it meanwhile, over that pass's lease.
Record(w, n) ==
    /\ job[w].current = {n} /\ job[w].left = {}
    /\ row' = [row EXCEPT ![n] =
         [status |-> StatusAfter(w, n), attempts |-> AttemptsAfter(w, n),
          when |-> IF job[w].failed /\ AttemptsAfter(w, n) < MaxAttempts
                   THEN "later" ELSE "due"]]
    /\ job' = [job EXCEPT ![w] =
         IF job[w].todo = {n} THEN Resting
         ELSE [job[w] EXCEPT !.todo = @ \ {n}, !.current = {}, !.failed = FALSE,
                             !.status = NoRow.status,
                             !.read = [m \in job[w].todo \ {n} |-> @[m]]]]
    /\ slips' = [slips EXCEPT ![n] =
         IF \E v \in Workers \ {w} : n \in job[v].todo THEN @ + 1 ELSE @]
    /\ UNCHANGED <<born, inserts, alerts, armed, lock, worker, crossed, copies,
                   faults>>

-----------------------------------------------------------------------------
(* Time. *)

BackoffEnds(n) ==
    /\ row[n].when = "later"
    /\ row' = [row EXCEPT ![n].when = "due"]
    /\ UNCHANGED <<born, inserts, alerts, armed, lock, worker, crossed, job,
                   copies, slips, faults>>

LeaseEnds(n) ==
    /\ row[n].when = "leased"
    /\ row' = [row EXCEPT ![n].when = "due"]
    /\ slips' = [slips EXCEPT ![n] = @ + 1]
    /\ UNCHANGED <<born, inserts, alerts, armed, lock, worker, crossed, job,
                   copies>>

Held(n) == \E w \in Workers : n \in job[w].todo

\* Whoever claimed the row is gone; or it is still sending the rows before it.
AbandonedLeaseEnds(n) == ~Held(n) /\ LeaseEnds(n) /\ UNCHANGED faults
Overrun(n) == Held(n) /\ LeaseEnds(n) /\ Fault

-----------------------------------------------------------------------------
(* The worker processes. *)

\* Started, it works if the lock is free and idles for good if it is not.
Start(w) ==
    /\ worker[w] = "off"
    /\ worker' = [worker EXCEPT ![w] =
         IF lock = NoWorker THEN "working" ELSE "idle"]
    /\ lock' = IF lock = NoWorker THEN w ELSE lock
    /\ UNCHANGED <<row, born, inserts, alerts, armed, crossed, job, copies,
                   slips, faults>>

\* The lock's connection drops.  The process does not know yet.
LoseConnection(w) ==
    /\ lock = w /\ lock' = NoWorker
    /\ Fault
    /\ UNCHANGED <<row, born, inserts, alerts, armed, worker, crossed, job,
                   copies, slips>>

Gone(w) ==
    /\ worker' = [worker EXCEPT ![w] = "off"]
    /\ crossed' = [crossed EXCEPT ![w] = {}]
    /\ job' = [job EXCEPT ![w] = Resting]
    /\ lock' = IF lock = w THEN NoWorker ELSE lock
    /\ UNCHANGED <<row, born, inserts, alerts, armed, copies, slips>>

\* A tick starts by asking for the lock again: it has it back, or exits.
Reconfirm(w) ==
    /\ Working(w) /\ lock # w /\ crossed[w] = {}
    /\ IF lock = NoWorker
       THEN /\ lock' = w
            /\ UNCHANGED <<row, born, inserts, alerts, armed, worker, crossed,
                           job, copies, slips>>
       ELSE Gone(w)
    /\ UNCHANGED faults

Dies(w) == worker[w] # "off" /\ Gone(w) /\ Fault
-----------------------------------------------------------------------------
PassStep(w) ==
    \/ Claim(w) \/ Load(w)
    \/ \E n \in Notices : \/ Begin(w, n) \/ Record(w, n)
                          \/ \E c \in Channels : Try(w, n, c)

ProcessStep(w) ==
    \/ Start(w) \/ Reconfirm(w)
    \/ \E a \in alerts, wanted \in SUBSET Channels : Fire(w, a, wanted)

OutboxNext ==
    \/ \E n \in Notices :
         \/ \E wanted \in SUBSET Channels : Emit(n, wanted)
         \/ BackoffEnds(n) \/ AbandonedLeaseEnds(n) \/ Overrun(n)
    \/ \E w \in Workers :
         \/ \E as \in SUBSET alerts : ReadCrossed(w, as)
         \/ PassStep(w) \/ ProcessStep(w) \/ LoseConnection(w) \/ Dies(w)

OutboxSpec == OutboxInit /\ [][OutboxNext]_outboxVars

\* A process runs and is restarted when it is gone, and time passes.  It does
\* not fail forever (MaxFaults); nothing is assumed of the providers.
OutboxFairSpec ==
    /\ OutboxSpec
    /\ \A w \in Workers : /\ WF_outboxVars(PassStep(w))
                          /\ WF_outboxVars(ProcessStep(w))
    /\ \A n \in Notices : /\ WF_outboxVars(BackoffEnds(n))
                          /\ WF_outboxVars(AbandonedLeaseEnds(n))
-----------------------------------------------------------------------------
(* Properties. *)

\* A customer gets one message, and one more at most for every lease that ran
\* out or was written over by a slower worker and every delivery whose answer
\* was lost: retrying one channel never sends another again.
CopiesAccounted ==
    \A n \in Notices, c \in Channels : copies[<<n, c>>] <= inserts[n] + slips[n]

\* "An alert can never be consumed without its notice", nor notify twice,
\* also while two workers believe they hold the lock.
AlertHasOneNotice ==
    \A a \in alerts : inserts[a] = IF a \in armed THEN 0 ELSE 1

\* "Never loses a row": every channel of every row is settled in the end,
\* whatever dies in between and however often the provider fails.
EveryNoticeSettles == \A n \in Notices : Queued(n) ~> ~Queued(n)
=============================================================================
