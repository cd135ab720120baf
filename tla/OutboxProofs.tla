---------------------------- MODULE OutboxProofs ----------------------------
(***************************************************************************)
(* Theorems about the notification outbox: for any number of workers,      *)
(* notices and channels, any size of a batch, any limits on attempts and   *)
(* any number of faults.                                                   *)
(***************************************************************************)
EXTENDS Outbox, FiniteSetTheorems, TLAPS

-----------------------------------------------------------------------------
(* Types. *)

Reads == UNION {[ns -> Rows] : ns \in SUBSET Notices}
Jobs == [at : {"off", "claimed", "sending"}, todo : SUBSET Notices,
         current : SUBSET Notices, read : Reads,
         status : [Channels -> Statuses], left : SUBSET Channels,
         failed : BOOLEAN]

\* A pass that sends has read the rows it has yet to send.
Sane(j) ==
    /\ j.current \subseteq j.todo
    /\ j.current # {} => j.at = "sending"
    /\ j.at = "sending" => DOMAIN j.read = j.todo

JobsTyped ==
    /\ job \in [Workers -> Jobs]
    /\ \A w \in Workers : Sane(job[w])
RowsTyped ==
    /\ row \in [Notices -> Rows]
    /\ born \in Seq(Notices)
    /\ inserts \in [Notices -> Nat]
AlertsTyped ==
    /\ alerts \subseteq Notices
    /\ armed \subseteq alerts
    /\ crossed \in [Workers -> SUBSET alerts]
ProcessesTyped ==
    /\ lock \in Workers \cup {NoWorker}
    /\ worker \in [Workers -> {"off", "idle", "working"}]
CountsTyped ==
    /\ copies \in [Notices \X Channels -> Nat]
    /\ slips \in [Notices -> Nat]
    /\ faults \in 0 .. MaxFaults
Typed == JobsTyped /\ RowsTyped /\ AlertsTyped /\ ProcessesTyped /\ CountsTyped

\* Together they give the type invariant.
LEMMA TypedIsTyped == Typed => OutboxTypeOK
<1> SUFFICES ASSUME Typed PROVE OutboxTypeOK
  OBVIOUS
<1>1. ASSUME NEW w \in Workers
      PROVE  /\ job[w].at \in {"off", "claimed", "sending"}
             /\ job[w].todo \subseteq Notices
             /\ job[w].current \subseteq job[w].todo
             /\ job[w].status \in [Channels -> Statuses]
             /\ job[w].left \subseteq Channels
  BY DEF Typed, JobsTyped, Jobs, Sane
<1>2. \A w \in Workers : job[w].failed \in BOOLEAN
  BY DEF Typed, JobsTyped, Jobs
<1>3. \A w \in Workers : \A n \in DOMAIN job[w].read : job[w].read[n] \in Rows
  <2>1. \A w \in Workers : job[w].read \in Reads
    BY DEF Typed, JobsTyped, Jobs
  <2> QED
    BY <2>1 DEF Reads
<1> QED
  BY <1>1, <1>2, <1>3
  DEF Typed, RowsTyped, AlertsTyped, ProcessesTyped, CountsTyped, OutboxTypeOK

\* A pass that has tried a channel.
LEMMA TriedJob ==
  ASSUME NEW j \in Jobs, Sane(j), NEW s \in [Channels -> Statuses],
         NEW l \in SUBSET Channels, NEW f \in BOOLEAN
  PROVE  /\ [j EXCEPT !.left = l, !.status = s, !.failed = f] \in Jobs
         /\ Sane([j EXCEPT !.left = l, !.status = s, !.failed = f])
<1> DEFINE k == [j EXCEPT !.left = l, !.status = s, !.failed = f]
<1>1. k \in Jobs
  BY DEF Jobs
<1>2. Sane(k)
  BY DEF Jobs, Sane
<1> QED
  BY <1>1, <1>2

\* A pass at rest.
LEMMA RestingTyped == Resting \in Jobs /\ Sane(Resting)
<1>1. [n \in {} |-> NoRow] \in Reads /\ DOMAIN [n \in {} |-> NoRow] = {}
  <2>1. [n \in {} |-> NoRow] \in [{} -> Rows]
    OBVIOUS
  <2> QED
    BY <2>1 DEF Reads
<1>2. NoRow.status \in [Channels -> Statuses]
  BY DEF NoRow, Statuses
<1> QED
  BY <1>1, <1>2 DEF Resting, Jobs, Sane

\* A row that does not exist, and one that is inserted.
LEMMA RowTyped ==
  /\ NoRow \in Rows
  /\ \A wanted \in SUBSET Channels :
       [status |-> [c \in Channels |-> IF c \in wanted THEN "queued" ELSE "over"],
        attempts |-> 0, when |-> "due"] \in Rows
BY DEF NoRow, Rows, Statuses

\* Initially everything has its type.
LEMMA InitTyped == OutboxInit => Typed
<1> SUFFICES ASSUME OutboxInit PROVE Typed
  OBVIOUS
<1>1. JobsTyped
  BY RestingTyped DEF OutboxInit, JobsTyped
<1>2. RowsTyped /\ AlertsTyped
  BY RowTyped DEF OutboxInit, RowsTyped, AlertsTyped
<1>3. ProcessesTyped /\ CountsTyped
  BY OutboxAssumption DEF OutboxInit, ProcessesTyped, CountsTyped
<1> QED
  BY <1>1, <1>2, <1>3 DEF Typed

\* A worker's pass goes on with another job.
LEMMA JobSet ==
  ASSUME JobsTyped, NEW w \in Workers, NEW j \in Jobs, Sane(j),
         job' = [job EXCEPT ![w] = j]
  PROVE  JobsTyped'
BY DEF JobsTyped

\* A row is inserted.
LEMMA InsertTyped ==
  ASSUME RowsTyped, NEW n \in Notices, NEW wanted \in SUBSET Channels,
         Insert(n, wanted)
  PROVE  RowsTyped'
<1>1. row' \in [Notices -> Rows]
  BY RowTyped DEF Insert, RowsTyped
<1>2. born' \in Seq(Notices) /\ inserts' \in [Notices -> Nat]
  BY DEF Insert, RowsTyped
<1> QED
  BY <1>1, <1>2 DEF RowsTyped

\* Rows come in.
LEMMA ArrivalTyped ==
  ASSUME Typed,
         \/ \E n \in Notices, wanted \in SUBSET Channels : Emit(n, wanted)
         \/ \E w \in Workers, as \in SUBSET alerts : ReadCrossed(w, as)
         \/ \E w \in Workers, a \in alerts, wanted \in SUBSET Channels :
              Fire(w, a, wanted)
  PROVE  Typed'
<1>1. UNCHANGED <<job, lock, worker, copies, slips, faults>>
  BY DEF Emit, ReadCrossed, Fire
<1>2. JobsTyped' /\ ProcessesTyped' /\ CountsTyped'
  BY <1>1 DEF Typed, JobsTyped, ProcessesTyped, CountsTyped
<1>3. ASSUME NEW n \in Notices, NEW wanted \in SUBSET Channels, Emit(n, wanted)
      PROVE  RowsTyped' /\ AlertsTyped'
  BY <1>3, InsertTyped DEF Emit, Typed, AlertsTyped
<1>4. ASSUME NEW w \in Workers, NEW as \in SUBSET alerts, ReadCrossed(w, as)
      PROVE  RowsTyped' /\ AlertsTyped'
  BY <1>4 DEF ReadCrossed, Typed, RowsTyped, AlertsTyped
<1>5. ASSUME NEW w \in Workers, NEW a \in alerts, NEW wanted \in SUBSET Channels,
             Fire(w, a, wanted)
      PROVE  RowsTyped' /\ AlertsTyped'
  <2>1. a \in Notices
    BY DEF Typed, AlertsTyped
  <2>2. RowsTyped'
    BY <1>5, <2>1, InsertTyped DEF Fire, Typed, RowsTyped
  <2>3. AlertsTyped'
    BY <1>5 DEF Fire, Typed, AlertsTyped
  <2> QED
    BY <2>2, <2>3
<1> QED
  BY <1>2, <1>3, <1>4, <1>5 DEF Typed

\* What a pass writes back is a row.
LEMMA WrittenBack ==
  ASSUME JobsTyped, NEW w \in Workers, NEW n \in Notices,
         job[w].current = {n}
  PROVE  /\ job[w].at = "sending" /\ n \in job[w].todo
         /\ StatusAfter(w, n) \in [Channels -> Statuses]
         /\ AttemptsAfter(w, n) \in Nat
<1>1. job[w] \in Jobs /\ Sane(job[w])
  BY DEF JobsTyped
<1>2. job[w].at = "sending" /\ n \in job[w].todo /\ n \in DOMAIN job[w].read
  BY <1>1 DEF Sane
<1>3. job[w].read \in Reads /\ job[w].status \in [Channels -> Statuses]
  BY <1>1 DEF Jobs
<1>4. job[w].read[n].attempts \in Nat
  BY <1>2, <1>3 DEF Reads, Rows
<1>5. AttemptsAfter(w, n) \in Nat
  BY <1>4 DEF AttemptsAfter
<1>6. StatusAfter(w, n) \in [Channels -> Statuses]
  BY <1>3 DEF StatusAfter, Statuses
<1> QED
  BY <1>2, <1>5, <1>6

\* A dispatcher's pass.
LEMMA PassTyped ==
  ASSUME Typed, NEW w \in Workers, PassStep(w)
  PROVE  Typed'
<1>1. job[w] \in Jobs /\ Sane(job[w])
  BY DEF Typed, JobsTyped
<1>2. UNCHANGED <<alerts, armed, crossed, lock, worker, born, inserts>>
  BY DEF PassStep, Claim, Load, Begin, Record, Try
<1>3. AlertsTyped' /\ ProcessesTyped'
  BY <1>2 DEF Typed, AlertsTyped, ProcessesTyped
<1>4. UNCHANGED row => RowsTyped'
  BY <1>2 DEF Typed, RowsTyped
<1>5. UNCHANGED <<copies, slips, faults>> => CountsTyped'
  BY DEF Typed, CountsTyped
<1>6. CASE Claim(w)
  <2>1. Claimable \subseteq Notices
    BY DEF Claimable, Typed, RowsTyped
  <2>2. \A n \in Notices : [row[n] EXCEPT !.when = "leased"] \in Rows
    BY DEF Typed, RowsTyped, Rows
  <2>3. RowsTyped'
    BY <1>2, <1>6, <2>2 DEF Claim, Typed, RowsTyped
  <2>4. /\ [job[w] EXCEPT !.at = "claimed", !.todo = Claimable] \in Jobs
        /\ Sane([job[w] EXCEPT !.at = "claimed", !.todo = Claimable])
    <3>1. job[w].current = {}
      BY <1>6 DEF Claim, Resting
    <3> QED
      BY <1>1, <2>1, <3>1 DEF Jobs, Sane
  <2>5. JobsTyped'
    BY <1>6, <2>4, JobSet DEF Claim, Typed, JobsTyped
  <2> QED
    BY <1>3, <1>5, <1>6, <2>3, <2>5 DEF Claim, Typed
<1>7. CASE Load(w)
  <2> DEFINE read == [n \in job[w].todo |-> row[n]]
  <2>1. job[w].todo \subseteq Notices
    BY <1>1 DEF Jobs
  <2>2. read \in Reads /\ DOMAIN read = job[w].todo
    <3>1. read \in [job[w].todo -> Rows]
      BY <2>1 DEF Typed, RowsTyped
    <3> QED
      BY <2>1, <3>1 DEF Reads
  <2>3. /\ [job[w] EXCEPT !.at = "sending", !.read = read] \in Jobs
        /\ Sane([job[w] EXCEPT !.at = "sending", !.read = read])
    <3> HIDE DEF read
    <3> QED
      BY <1>1, <2>2 DEF Jobs, Sane
  <2>4. JobsTyped'
    BY <1>7, <2>3, JobSet DEF Load, Typed, JobsTyped
  <2> QED
    BY <1>3, <1>4, <1>5, <1>7, <2>4 DEF Load, Typed
<1>8. ASSUME NEW n \in Notices, Begin(w, n)
      PROVE  Typed'
  <2> DEFINE status == job[w].read[n].status
             left == {c \in Channels : status[c] = "queued"}
  <2>1. /\ job[w].at = "sending" /\ n \in job[w].todo
        /\ job' = [job EXCEPT ![w] = [job[w] EXCEPT
             !.current = {n}, !.status = status, !.left = left]]
    BY <1>8 DEF Begin, Typed, JobsTyped
  <2>2. status \in [Channels -> Statuses]
    <3>1. n \in DOMAIN job[w].read /\ job[w].read \in Reads
      BY <1>1, <2>1 DEF Sane, Jobs
    <3> QED
      BY <3>1 DEF Reads, Rows
  <2>3. left \in SUBSET Channels
    OBVIOUS
  <2>4. /\ [job[w] EXCEPT !.current = {n}, !.status = status, !.left = left] \in Jobs
        /\ Sane([job[w] EXCEPT !.current = {n}, !.status = status, !.left = left])
    <3> HIDE DEF status, left
    <3> QED
      BY <1>1, <2>1, <2>2, <2>3 DEF Jobs, Sane
  <2>5. JobsTyped'
    BY <2>1, <2>4, JobSet DEF Typed
  <2> QED
    BY <1>3, <1>4, <1>5, <1>8, <2>5 DEF Begin, Typed
<1>9. ASSUME NEW n \in Notices, NEW c \in Channels, Try(w, n, c)
      PROVE  Typed'
  <2>1. ASSUME NEW status \in Statuses, NEW failed \in BOOLEAN,
               Tried(w, c, status, failed)
        PROVE  JobsTyped'
    <3>1. /\ [job[w].status EXCEPT ![c] = status] \in [Channels -> Statuses]
          /\ job[w].left \ {c} \in SUBSET Channels
      BY <1>1 DEF Jobs
    <3>2. (job[w].failed \/ failed) \in BOOLEAN
      OBVIOUS
    <3>3. ASSUME NEW s \in [Channels -> Statuses], NEW l \in SUBSET Channels,
                 NEW f \in BOOLEAN
          PROVE  /\ [job[w] EXCEPT !.left = l, !.status = s, !.failed = f] \in Jobs
                 /\ Sane([job[w] EXCEPT !.left = l, !.status = s, !.failed = f])
      BY <1>1, TriedJob
    <3>4. \A s \in [Channels -> Statuses], l \in SUBSET Channels, f \in BOOLEAN :
            job' = [job EXCEPT ![w] =
              [job[w] EXCEPT !.left = l, !.status = s, !.failed = f]]
              => JobsTyped'
      BY <3>3, JobSet DEF Typed
    <3>5. job' = [job EXCEPT ![w] =
            [job[w] EXCEPT !.left = job[w].left \ {c},
                           !.status = [job[w].status EXCEPT ![c] = status],
                           !.failed = job[w].failed \/ failed]]
      BY <2>1, Zenon DEF Tried, Typed, JobsTyped
    <3> QED
      BY <3>1, <3>2, <3>4, <3>5, Zenon
  <2>2. JobsTyped'
    BY <1>9, <2>1 DEF Try, Statuses
  <2>3. CountsTyped'
    <3>1. \/ UNCHANGED copies
          \/ copies' = [copies EXCEPT ![<<n, c>>] = @ + 1]
      BY <1>9 DEF Try, Deliver
    <3>2. copies' \in [Notices \X Channels -> Nat]
      BY <3>1 DEF Typed, CountsTyped
    <3>3. \/ UNCHANGED <<slips, faults>>
          \/ Fault /\ slips' = [slips EXCEPT ![n] = @ + 1]
      BY <1>9 DEF Try
    <3>4. slips' \in [Notices -> Nat] /\ faults' \in 0 .. MaxFaults
      BY <3>3, OutboxAssumption DEF Fault, Typed, CountsTyped
    <3> QED
      BY <3>2, <3>4 DEF CountsTyped
  <2> QED
    BY <1>3, <1>4, <1>9, <2>2, <2>3 DEF Try, Typed
<1>10. ASSUME NEW n \in Notices, Record(w, n)
       PROVE  Typed'
  <2>1. /\ job[w].at = "sending" /\ n \in job[w].todo
        /\ StatusAfter(w, n) \in [Channels -> Statuses]
        /\ AttemptsAfter(w, n) \in Nat
    BY <1>10, WrittenBack DEF Record, Typed
  <2>2. RowsTyped'
    <3>1. \A when \in {"due", "later"} :
            [status |-> StatusAfter(w, n), attempts |-> AttemptsAfter(w, n),
             when |-> when] \in Rows
      BY <2>1 DEF Rows
    <3>2. \E when \in {"due", "later"} : row' = [row EXCEPT ![n] =
            [status |-> StatusAfter(w, n), attempts |-> AttemptsAfter(w, n),
             when |-> when]]
      BY <1>10 DEF Record
    <3> QED
      BY <1>2, <3>1, <3>2 DEF Typed, RowsTyped
  <2>3. CountsTyped'
    BY <1>10 DEF Record, Typed, CountsTyped
  <2> DEFINE read == [m \in job[w].todo \ {n} |-> job[w].read[m]]
             next == [job[w] EXCEPT !.todo = job[w].todo \ {n}, !.current = {},
                                    !.failed = FALSE, !.status = NoRow.status,
                                    !.read = read]
  <2>4. read \in Reads /\ DOMAIN read = job[w].todo \ {n}
    <3>1. job[w].read \in Reads /\ DOMAIN job[w].read = job[w].todo
      BY <1>1, <2>1 DEF Sane, Jobs
    <3>2. job[w].read \in [job[w].todo -> Rows] /\ job[w].todo \subseteq Notices
      BY <1>1, <3>1 DEF Reads, Jobs
    <3>3. read \in [job[w].todo \ {n} -> Rows]
      BY <3>2
    <3> QED
      BY <3>2, <3>3 DEF Reads
  <2>5. next \in Jobs /\ Sane(next)
    <3>1. NoRow.status \in [Channels -> Statuses]
      BY DEF NoRow, Statuses
    <3> HIDE DEF read
    <3> QED
      BY <1>1, <2>4, <3>1 DEF Jobs, Sane
  <2>6. \E j \in {Resting, next} : job' = [job EXCEPT ![w] = j]
    BY <1>10 DEF Record
  <2>7. JobsTyped'
    <3> HIDE DEF next
    <3> QED
      BY <2>5, <2>6, RestingTyped, JobSet DEF Typed
  <2> QED
    BY <1>3, <2>2, <2>3, <2>7 DEF Typed
<1> QED
  BY <1>6, <1>7, <1>8, <1>9, <1>10 DEF PassStep

\* Time passes.
LEMMA TimeTyped ==
  ASSUME Typed, NEW n \in Notices,
         BackoffEnds(n) \/ AbandonedLeaseEnds(n) \/ Overrun(n)
  PROVE  Typed'
<1>1. [row[n] EXCEPT !.when = "due"] \in Rows
  BY DEF Typed, RowsTyped, Rows
<1>2. RowsTyped'
  BY <1>1 DEF BackoffEnds, AbandonedLeaseEnds, Overrun, LeaseEnds, Typed, RowsTyped
<1>3. CountsTyped'
  BY OutboxAssumption DEF BackoffEnds, AbandonedLeaseEnds, Overrun, LeaseEnds,
                          Fault, Typed, CountsTyped
<1>4. UNCHANGED <<alerts, armed, crossed, lock, worker, job>>
  BY DEF BackoffEnds, AbandonedLeaseEnds, Overrun, LeaseEnds
<1> QED
  BY <1>2, <1>3, <1>4 DEF Typed, JobsTyped, AlertsTyped, ProcessesTyped

\* Processes come and go.
LEMMA ProcessTyped ==
  ASSUME Typed, NEW w \in Workers,
         Start(w) \/ LoseConnection(w) \/ Reconfirm(w) \/ Dies(w)
  PROVE  Typed'
<1>1. UNCHANGED <<row, born, inserts, alerts, armed, copies, slips>>
  BY DEF Start, LoseConnection, Reconfirm, Dies, Gone
<1>2. \/ UNCHANGED <<job, crossed>>
      \/ /\ job' = [job EXCEPT ![w] = Resting]
         /\ crossed' = [crossed EXCEPT ![w] = {}]
  BY DEF Start, LoseConnection, Reconfirm, Dies, Gone
<1>3. JobsTyped'
  BY <1>2, RestingTyped, JobSet DEF Typed, JobsTyped
<1>4. RowsTyped' /\ AlertsTyped'
  BY <1>1, <1>2 DEF Typed, RowsTyped, AlertsTyped
<1>5. ProcessesTyped'
  BY DEF Start, LoseConnection, Reconfirm, Dies, Gone, Typed, ProcessesTyped
<1>6. faults' \in {faults, faults + 1} /\ (faults' # faults => faults < MaxFaults)
  BY DEF Start, LoseConnection, Reconfirm, Dies, Fault
<1>7. CountsTyped'
  BY <1>1, <1>6, OutboxAssumption DEF Typed, CountsTyped
<1> QED
  BY <1>3, <1>4, <1>5, <1>7 DEF Typed

\* Every step keeps the types.
LEMMA StepTyped == Typed /\ [OutboxNext]_outboxVars => Typed'
<1> SUFFICES ASSUME Typed, [OutboxNext]_outboxVars PROVE Typed'
  OBVIOUS
<1>1. CASE UNCHANGED outboxVars
  BY <1>1 DEF outboxVars, Typed, JobsTyped, RowsTyped, AlertsTyped,
              ProcessesTyped, CountsTyped
<1> QED
  BY <1>1, ArrivalTyped, PassTyped, TimeTyped, ProcessTyped
  DEF OutboxNext, ProcessStep

\* Rows, passes, locks and counts keep their types.
THEOREM OutboxTypeCorrect == OutboxSpec => []OutboxTypeOK
BY InitTyped, StepTyped, TypedIsTyped, PTL DEF OutboxSpec

-----------------------------------------------------------------------------
(* An alert and its notice. *)

\* The claim of an alert and its notice are one step, whoever holds the lock.
LEMMA AlertStep ==
  Typed /\ AlertHasOneNotice /\ [OutboxNext]_outboxVars => AlertHasOneNotice'
<1> SUFFICES ASSUME Typed, AlertHasOneNotice, [OutboxNext]_outboxVars
             PROVE  AlertHasOneNotice'
  OBVIOUS
<1>1. UNCHANGED <<alerts, armed, inserts>> => AlertHasOneNotice'
  BY DEF AlertHasOneNotice
<1>2. CASE UNCHANGED outboxVars
  BY <1>1, <1>2 DEF outboxVars
<1>3. ASSUME NEW n \in Notices, NEW wanted \in SUBSET Channels, Emit(n, wanted)
      PROVE  AlertHasOneNotice'
  <2>1. \A a \in alerts : inserts'[a] = inserts[a]
    BY <1>3 DEF Emit, Insert, Typed, RowsTyped, AlertsTyped
  <2>2. UNCHANGED <<alerts, armed>>
    BY <1>3 DEF Emit
  <2> QED
    BY <2>1, <2>2 DEF AlertHasOneNotice
<1>4. ASSUME NEW w \in Workers, NEW a \in alerts, NEW wanted \in SUBSET Channels,
             Fire(w, a, wanted)
      PROVE  AlertHasOneNotice'
  <2>1. CASE Untriggered(a)
    <3>1. a \in armed /\ armed' = armed \ {a} /\ Insert(a, wanted)
          /\ UNCHANGED alerts
      BY <1>4, <2>1 DEF Fire, Untriggered
    <3>2. inserts[a] = 0 /\ a \in Notices
      BY <3>1 DEF AlertHasOneNotice, Typed, AlertsTyped
    <3>3. /\ inserts'[a] = 1
          /\ \A b \in alerts : b # a => inserts'[b] = inserts[b]
      BY <3>1, <3>2 DEF Insert, Typed, RowsTyped, AlertsTyped
    <3> QED
      BY <3>1, <3>3 DEF AlertHasOneNotice
  <2>2. CASE ~Untriggered(a)
    BY <1>1, <1>4, <2>2 DEF Fire
  <2> QED
    BY <2>1, <2>2
<1>5. CASE \E n \in Notices : BackoffEnds(n) \/ AbandonedLeaseEnds(n) \/ Overrun(n)
  BY <1>1, <1>5 DEF BackoffEnds, AbandonedLeaseEnds, Overrun, LeaseEnds
<1>6. ASSUME NEW w \in Workers,
             \/ \E as \in SUBSET alerts : ReadCrossed(w, as)
             \/ PassStep(w) \/ Start(w) \/ LoseConnection(w) \/ Reconfirm(w)
             \/ Dies(w)
      PROVE  AlertHasOneNotice'
  BY <1>1, <1>6 DEF ReadCrossed, PassStep, Claim, Load, Begin, Try, Record,
     Start, LoseConnection, Reconfirm, Dies, Gone
<1> QED
  BY <1>2, <1>3, <1>4, <1>5, <1>6 DEF OutboxNext, ProcessStep

\* An alert is consumed with exactly one notice, however many workers believe
\* they hold the lock and wherever they die.
THEOREM AlertsNotifyOnce == OutboxSpec => []AlertHasOneNotice
<1>1. OutboxInit => AlertHasOneNotice
  BY DEF OutboxInit, AlertHasOneNotice
<1> QED
  BY <1>1, InitTyped, StepTyped, AlertStep, PTL DEF OutboxSpec
-----------------------------------------------------------------------------
(* Copies.  Every copy there may yet be of a notice's channel is one that   *)
(* some pass is going to send, or one that a pass yet to come may send.     *)

\* A pass that has claimed the notice and is yet to read its row.
Claims(j, n) == j.at = "claimed" /\ n \in j.todo
Claimers(n) == {w \in Workers : Claims(job[w], n)}

\* A pass that is going to send the channel, or has tried and leaves it queued.
WillSend(j, n, c) ==
    /\ j.at = "sending" /\ n \in j.todo
    /\ IF n \in j.current THEN j.status[c] = "queued"
       ELSE j.read[n].status[c] = "queued"
Senders(n, c) == {w \in Workers : WillSend(job[w], n, c)}

\* Whoever has claimed a row may send a channel that is queued, and so may one
\* more while the row is free.  A channel that is not queued is sent only if a
\* slower pass queues it again over a claim, which the next slip pays for.
Free(n) == IF row[n].when = "leased" THEN 0 ELSE 1
Takers(n) == Cardinality(Claimers(n)) + Free(n)
Chances(n, c) == IF row[n].status[c] = "queued" THEN Takers(n)
                 ELSE IF Takers(n) = 0 THEN 0 ELSE Takers(n) - 1

Within(n, c) ==
    copies[<<n, c>>] + Cardinality(Senders(n, c)) + Chances(n, c)
        <= inserts[n] + slips[n]
Accounted == \A n \in Notices, c \in Channels : Within(n, c)

\* Nobody knows of a notice that is yet to be inserted.
Unborn(n) == row[n] = NoRow /\ \A w \in Workers : n \notin job[w].todo
Untouched == \A n \in Notices : inserts[n] = 0 => Unborn(n)

\* What a pass has left to try is queued.
LeftQueued ==
    \A w \in Workers : \A c \in job[w].left : job[w].status[c] = "queued"

Copying == Accounted /\ Untouched /\ LeftQueued

\* Counting workers.
LEMMA WorkersCount ==
  /\ \A S \in SUBSET Workers : Cardinality(S) \in Nat
  /\ \A S, T \in SUBSET Workers :
       S \subseteq T => Cardinality(S) <= Cardinality(T)
  /\ \A S, T \in SUBSET Workers, w \in Workers :
       S \subseteq T \cup {w} => Cardinality(S) <= Cardinality(T) + 1
  /\ \A S, T \in SUBSET Workers : \A w \in T :
       S \subseteq T \ {w} => Cardinality(S) <= Cardinality(T) - 1
  /\ Cardinality({}) = 0
<1>1. \A S \in SUBSET Workers : IsFiniteSet(S) /\ Cardinality(S) \in Nat
  BY OutboxAssumption, FS_Subset, FS_CardinalityType
<1>2. \A S, T \in SUBSET Workers :
        S \subseteq T => Cardinality(S) <= Cardinality(T)
  BY <1>1, FS_Subset
<1>3. ASSUME NEW S \in SUBSET Workers, NEW T \in SUBSET Workers,
             NEW w \in Workers, S \subseteq T \cup {w}
      PROVE  Cardinality(S) <= Cardinality(T) + 1
  <2>1. T \cup {w} \in SUBSET Workers
    OBVIOUS
  <2>2. Cardinality(T \cup {w}) <= Cardinality(T) + 1
    BY <1>1, FS_AddElement
  <2>3. Cardinality(S) <= Cardinality(T \cup {w})
    BY <1>2, <1>3, <2>1
  <2>4. /\ Cardinality(S) \in Nat /\ Cardinality(T) \in Nat
        /\ Cardinality(T \cup {w}) \in Nat
    BY <1>1, <2>1
  <2> QED
    BY <2>2, <2>3, <2>4
<1>4. ASSUME NEW S \in SUBSET Workers, NEW T \in SUBSET Workers,
             NEW w \in T, S \subseteq T \ {w}
      PROVE  Cardinality(S) <= Cardinality(T) - 1
  <2>1. T \ {w} \in SUBSET Workers
    OBVIOUS
  <2>2. Cardinality(T \ {w}) = Cardinality(T) - 1
    BY <1>1, FS_RemoveElement
  <2>3. Cardinality(S) <= Cardinality(T \ {w})
    BY <1>2, <1>4, <2>1
  <2> QED
    BY <2>2, <2>3
<1> QED
  BY <1>1, <1>2, <1>3, <1>4, FS_EmptySet

\* The figures of a channel are numbers.
LEMMA Figures ==
  ASSUME RowsTyped, CountsTyped, NEW n \in Notices, NEW c \in Channels
  PROVE  /\ Claimers(n) \in SUBSET Workers /\ Senders(n, c) \in SUBSET Workers
         /\ Cardinality(Claimers(n)) \in Nat
         /\ Cardinality(Senders(n, c)) \in Nat
         /\ Free(n) \in {0, 1} /\ Takers(n) \in Nat /\ Chances(n, c) \in Nat
         /\ copies[<<n, c>>] \in Nat /\ inserts[n] \in Nat /\ slips[n] \in Nat
<1>1. Claimers(n) \in SUBSET Workers /\ Senders(n, c) \in SUBSET Workers
  BY DEF Claimers, Senders
<1>2. Cardinality(Claimers(n)) \in Nat /\ Cardinality(Senders(n, c)) \in Nat
  BY <1>1, WorkersCount
<1>3. Free(n) \in {0, 1} /\ Takers(n) \in Nat
  BY <1>2 DEF Free, Takers
<1>4. Chances(n, c) \in Nat
  BY <1>3 DEF Chances
<1>5. copies[<<n, c>>] \in Nat /\ inserts[n] \in Nat /\ slips[n] \in Nat
  BY DEF RowsTyped, CountsTyped
<1> QED
  BY <1>1, <1>2, <1>3, <1>4, <1>5

\* What a pass has still to send is bounded, and so are the copies.
LEMMA AccountedCopies == Typed /\ Copying => CopiesAccounted
<1> SUFFICES ASSUME Typed, Copying, NEW n \in Notices, NEW c \in Channels
             PROVE  copies[<<n, c>>] <= inserts[n] + slips[n]
  BY DEF CopiesAccounted
<1> QED
  BY Figures DEF Typed, Copying, Accounted, Within

\* Initially there is nothing.
LEMMA InitCopying == OutboxInit => Copying
<1> SUFFICES ASSUME OutboxInit PROVE Copying
  OBVIOUS
<1>1. \A w \in Workers : /\ job[w].at = "off" /\ job[w].todo = {}
                         /\ job[w].left = {}
  BY DEF OutboxInit, Resting
<1>2. Untouched /\ LeftQueued
  BY <1>1 DEF OutboxInit, Untouched, Unborn, LeftQueued
<1>3. ASSUME NEW n \in Notices, NEW c \in Channels PROVE Within(n, c)
  <2>1. Claimers(n) = {} /\ Senders(n, c) = {}
    BY <1>1 DEF Claimers, Claims, Senders, WillSend
  <2>2. row[n].status[c] # "queued" /\ Free(n) = 1
    BY DEF OutboxInit, NoRow, Free
  <2>3. Chances(n, c) = 0
    BY <2>1, <2>2, WorkersCount DEF Chances, Takers
  <2> QED
    BY <2>1, <2>3, WorkersCount DEF OutboxInit, Within
<1> QED
  BY <1>2, <1>3 DEF Copying, Accounted

\* A step that gives nobody a new chance.
LEMMA WithinKept ==
  ASSUME Typed, Typed', NEW n \in Notices, NEW c \in Channels, Within(n, c),
         row'[n].status[c] = row[n].status[c], Free(n)' <= Free(n),
         Claimers(n)' \subseteq Claimers(n),
         Senders(n, c)' \subseteq Senders(n, c),
         copies'[<<n, c>>] = copies[<<n, c>>], inserts'[n] = inserts[n],
         slips'[n] >= slips[n]
  PROVE  Within(n, c)'
<1>1. /\ Cardinality(Claimers(n)') <= Cardinality(Claimers(n))
      /\ Cardinality(Senders(n, c)') <= Cardinality(Senders(n, c))
  <2>1. /\ Claimers(n) \in SUBSET Workers /\ Claimers(n)' \in SUBSET Workers
        /\ Senders(n, c) \in SUBSET Workers /\ Senders(n, c)' \in SUBSET Workers
    BY DEF Claimers, Senders
  <2> QED
    BY <2>1, WorkersCount
<1>2. /\ Cardinality(Claimers(n)) \in Nat /\ Cardinality(Claimers(n)') \in Nat
      /\ Cardinality(Senders(n, c)) \in Nat
      /\ Cardinality(Senders(n, c)') \in Nat
      /\ Free(n) \in {0, 1} /\ Free(n)' \in {0, 1}
      /\ copies[<<n, c>>] \in Nat /\ inserts[n] \in Nat /\ slips[n] \in Nat
      /\ slips'[n] \in Nat
  <2>1. /\ Claimers(n) \in SUBSET Workers /\ Claimers(n)' \in SUBSET Workers
        /\ Senders(n, c) \in SUBSET Workers /\ Senders(n, c)' \in SUBSET Workers
    BY DEF Claimers, Senders
  <2> QED
    BY <2>1, WorkersCount DEF Typed, RowsTyped, CountsTyped, Free
<1>3. Chances(n, c)' <= Chances(n, c)
  BY <1>1, <1>2 DEF Chances, Takers
<1>4. Chances(n, c) \in Nat /\ Chances(n, c)' \in Nat
  BY <1>2 DEF Chances, Takers
<1> QED
  BY <1>1, <1>2, <1>3, <1>4 DEF Within
\* Only w's job changes: so may what it claims and sends.
LEMMA OneJob ==
  ASSUME NEW w \in Workers, \A v \in Workers : v # w => job'[v] = job[v],
         NEW n \in Notices, NEW c \in Channels
  PROVE  /\ Claimers(n)' \subseteq Claimers(n) \cup {w}
         /\ Senders(n, c)' \subseteq Senders(n, c) \cup {w}
         /\ ~Claims(job'[w], n) => Claimers(n)' \subseteq Claimers(n) \ {w}
         /\ ~WillSend(job'[w], n, c) =>
              Senders(n, c)' \subseteq Senders(n, c) \ {w}
         /\ (Claims(job'[w], n) => Claims(job[w], n)) =>
              Claimers(n)' \subseteq Claimers(n)
         /\ (WillSend(job'[w], n, c) => WillSend(job[w], n, c)) =>
              Senders(n, c)' \subseteq Senders(n, c)
BY DEF Claimers, Senders

\* A step of w's pass that gives it no new chance.
LEMMA JobKept ==
  ASSUME Typed, Typed', NEW w \in Workers,
         \A v \in Workers : v # w => job'[v] = job[v],
         NEW n \in Notices, NEW c \in Channels, Within(n, c),
         row'[n] = row[n], copies'[<<n, c>>] = copies[<<n, c>>],
         inserts'[n] = inserts[n], slips'[n] >= slips[n],
         Claims(job'[w], n) => Claims(job[w], n),
         WillSend(job'[w], n, c) => WillSend(job[w], n, c)
  PROVE  Within(n, c)'
<1>1. /\ Claimers(n)' \subseteq Claimers(n)
      /\ Senders(n, c)' \subseteq Senders(n, c)
  BY OneJob
<1>2. Free(n)' <= Free(n)
  BY DEF Free
<1> QED
  BY <1>1, <1>2, WithinKept

\* The jobs do not change.
LEMMA NoJob ==
  ASSUME UNCHANGED job, NEW n \in Notices, NEW c \in Channels
  PROVE  Claimers(n)' = Claimers(n) /\ Senders(n, c)' = Senders(n, c)
BY DEF Claimers, Senders

\* A notice is inserted.
LEMMA InsertCopying ==
  ASSUME Typed, Typed', Copying, NEW n \in Notices,
         NEW wanted \in SUBSET Channels, Insert(n, wanted), inserts[n] = 0,
         UNCHANGED <<job, copies, slips>>
  PROVE  Copying'
<1>1. /\ \A m \in Notices : m # n => row'[m] = row[m] /\ inserts'[m] = inserts[m]
      /\ inserts'[n] = 1 /\ row'[n].when = "due"
  BY DEF Insert, Typed, RowsTyped
<1>2. Untouched' /\ LeftQueued'
  BY <1>1 DEF Copying, Untouched, Unborn, LeftQueued
<1>3. ASSUME NEW m \in Notices, NEW c \in Channels PROVE Within(m, c)'
  <2>1. Within(m, c)
    BY DEF Copying, Accounted
  <2>2. CASE m # n
    <3>1. /\ row'[m] = row[m] /\ Free(m)' = Free(m) /\ inserts'[m] = inserts[m]
          /\ Claimers(m)' = Claimers(m) /\ Senders(m, c)' = Senders(m, c)
      BY <1>1, <2>2, NoJob DEF Free
    <3>2. Free(m)' <= Free(m) /\ slips'[m] >= slips[m]
      BY <3>1 DEF Free, Typed, CountsTyped
    <3> QED
      BY <2>1, <3>1, <3>2, WithinKept
  <2>3. CASE m = n
    <3>1. Unborn(n)
      BY DEF Copying, Untouched
    <3>2. Claimers(n) = {} /\ Senders(n, c) = {}
      BY <3>1 DEF Unborn, Claimers, Claims, Senders, WillSend
    <3>3. row[n].status[c] = "over" /\ row[n].when = "none"
      BY <3>1 DEF Unborn, NoRow
    <3>4. copies[<<n, c>>] <= slips[n]
      <4>1. Cardinality(Senders(n, c)) = 0 /\ Chances(n, c) = 0
        BY <3>2, <3>3, WorkersCount DEF Chances, Takers, Free
      <4>2. copies[<<n, c>>] \in Nat /\ slips[n] \in Nat
        BY Figures DEF Typed
      <4> QED
        BY <2>1, <2>3, <4>1, <4>2 DEF Within
    <3>5. Cardinality(Senders(n, c)') = 0 /\ Chances(n, c)' <= 1
          /\ Chances(n, c)' \in Nat
      <4>1. Claimers(n)' = {} /\ Senders(n, c)' = {}
        BY <3>2, NoJob
      <4>2. Free(n)' = 1
        BY <1>1 DEF Free
      <4> QED
        BY <4>1, <4>2, WorkersCount DEF Chances, Takers
    <3>6. copies[<<n, c>>] \in Nat /\ slips[n] \in Nat
      BY Figures DEF Typed
    <3> QED
      BY <1>1, <2>3, <3>4, <3>5, <3>6 DEF Within
  <2> QED
    BY <2>2, <2>3
<1> QED
  BY <1>2, <1>3 DEF Copying, Accounted

\* A step that changes neither rows nor jobs, or ends a backoff.
LEMMA QuietCopying ==
  ASSUME Typed, Typed', Copying, UNCHANGED <<job, copies, inserts, slips>>,
         UNCHANGED row \/ \E n \in Notices : BackoffEnds(n)
  PROVE  Copying'
<1>1. \A m \in Notices : /\ row'[m].status = row[m].status
                         /\ Free(m)' = Free(m)
                         /\ row[m] = NoRow => row'[m] = NoRow
  <2>1. ASSUME NEW n \in Notices, BackoffEnds(n), NEW m \in Notices
        PROVE  /\ row'[m].status = row[m].status
               /\ Free(m)' = Free(m)
               /\ row[m] = NoRow => row'[m] = NoRow
    <3>1. row[n].when = "later" /\ row' = [row EXCEPT ![n].when = "due"]
      BY <2>1 DEF BackoffEnds
    <3>2. CASE m # n
      BY <3>1, <3>2 DEF Free, Typed, RowsTyped
    <3>3. CASE m = n
      BY <3>1, <3>3 DEF Free, Typed, RowsTyped, Rows, NoRow
    <3> QED
      BY <3>2, <3>3
  <2> QED
    BY <2>1 DEF Free
<1>2. Untouched' /\ LeftQueued'
  BY <1>1 DEF Copying, Untouched, Unborn, LeftQueued
<1>3. ASSUME NEW m \in Notices, NEW c \in Channels PROVE Within(m, c)'
  <2>1. Within(m, c)
    BY DEF Copying, Accounted
  <2>2. Claimers(m)' = Claimers(m) /\ Senders(m, c)' = Senders(m, c)
    BY NoJob
  <2>3. Free(m)' <= Free(m) /\ slips'[m] >= slips[m]
    BY <1>1 DEF Free, Typed, CountsTyped
  <2>4. row'[m].status[c] = row[m].status[c]
    BY <1>1
  <2> QED
    BY <2>1, <2>2, <2>3, <2>4, WithinKept
<1> QED
  BY <1>2, <1>3 DEF Copying, Accounted

\* A lease ends: there is one more chance, and a slip that pays for it.
LEMMA LeaseCopying ==
  ASSUME Typed, Typed', Copying, NEW n \in Notices, LeaseEnds(n)
  PROVE  Copying'
<1>1. /\ row[n].when = "leased" /\ row' = [row EXCEPT ![n].when = "due"]
      /\ slips' = [slips EXCEPT ![n] = @ + 1]
      /\ UNCHANGED <<inserts, job, copies>>
  BY DEF LeaseEnds
<1>2. /\ \A m \in Notices : m # n => row'[m] = row[m] /\ slips'[m] = slips[m]
      /\ row'[n].status = row[n].status /\ row'[n].when = "due"
      /\ slips'[n] = slips[n] + 1
  BY <1>1 DEF Typed, RowsTyped, Rows, CountsTyped
<1>3. row[n] # NoRow
  BY <1>1 DEF NoRow
<1>4. Untouched' /\ LeftQueued'
  BY <1>1, <1>2, <1>3 DEF Copying, Untouched, Unborn, LeftQueued
<1>5. ASSUME NEW m \in Notices, NEW c \in Channels PROVE Within(m, c)'
  <2>1. Within(m, c) /\ Claimers(m)' = Claimers(m)
        /\ Senders(m, c)' = Senders(m, c)
    BY <1>1, NoJob DEF Copying, Accounted
  <2>2. CASE m # n
    <3>1. Free(m)' <= Free(m) /\ slips'[m] >= slips[m]
      BY <1>2, <2>2 DEF Typed, CountsTyped, Free
    <3> QED
      BY <1>1, <1>2, <2>1, <2>2, <3>1, WithinKept
  <2>3. CASE m = n
    <3>1. Free(n) = 0 /\ Free(n)' = 1
      BY <1>1, <1>2 DEF Free
    <3>2. Cardinality(Claimers(n)) \in Nat
      BY Figures DEF Typed
    <3>3. Chances(n, c)' <= Chances(n, c) + 1 /\ Chances(n, c)' \in Nat
      BY <1>2, <2>1, <2>3, <3>1, <3>2 DEF Chances, Takers
    <3>4. /\ Chances(n, c) \in Nat /\ Cardinality(Senders(n, c)) \in Nat
          /\ copies[<<n, c>>] \in Nat /\ inserts[n] \in Nat /\ slips[n] \in Nat
      BY Figures DEF Typed
    <3> QED
      BY <1>1, <1>2, <2>1, <2>3, <3>3, <3>4 DEF Within
  <2> QED
    BY <2>2, <2>3
<1> QED
  BY <1>4, <1>5 DEF Copying, Accounted
\* Whoever is gone, sends nothing.
LEMMA GoneCopying ==
  ASSUME Typed, Typed', Copying, NEW w \in Workers, Gone(w)
  PROVE  Copying'
<1>1. /\ job'[w].at = "off" /\ job'[w].todo = {} /\ job'[w].left = {}
      /\ \A v \in Workers : v # w => job'[v] = job[v]
      /\ UNCHANGED <<row, copies, slips, inserts>>
  BY DEF Gone, Typed, JobsTyped, Resting
<1>2. Untouched' /\ LeftQueued'
  BY <1>1 DEF Copying, Untouched, Unborn, LeftQueued
<1>3. ASSUME NEW n \in Notices, NEW c \in Channels PROVE Within(n, c)'
  <2>1. ~Claims(job'[w], n) /\ ~WillSend(job'[w], n, c)
    BY <1>1 DEF Claims, WillSend
  <2>2. Within(n, c) /\ slips'[n] >= slips[n]
    BY <1>1 DEF Copying, Accounted, Typed, CountsTyped
  <2> QED
    BY <1>1, <2>1, <2>2, JobKept
<1> QED
  BY <1>2, <1>3 DEF Copying, Accounted

\* A claim takes the row's chance with it.
LEMMA ClaimCopying ==
  ASSUME Typed, Typed', Copying, NEW w \in Workers, Claim(w)
  PROVE  Copying'
<1>1. /\ job[w].at = "off" /\ job'[w].at = "claimed"
      /\ job'[w].todo = Claimable /\ job'[w].left = {}
      /\ \A v \in Workers : v # w => job'[v] = job[v]
  <2>1. job[w] = Resting
    BY DEF Claim
  <2>2. job' = [job EXCEPT ![w] = [job[w] EXCEPT !.at = "claimed",
                                                 !.todo = Claimable]]
    BY DEF Claim, Typed, JobsTyped
  <2>3. job'[w] = [Resting EXCEPT !.at = "claimed", !.todo = Claimable]
    BY <2>1, <2>2 DEF Typed, JobsTyped
  <2> QED
    BY <2>1, <2>2, <2>3 DEF Resting, Typed, JobsTyped
<1>2. \A n \in Notices :
         row'[n] = IF n \in Claimable THEN [row[n] EXCEPT !.when = "leased"]
                   ELSE row[n]
  BY DEF Claim
<1>3. UNCHANGED <<copies, slips, inserts>>
  BY DEF Claim
<1>4. \A n \in Claimable : row[n].when = "due"
  BY DEF Claimable, Due
<1>5. LeftQueued'
  BY <1>1 DEF Copying, LeftQueued
<1>6. Untouched'
  <2>1. \A n \in Claimable : row[n] # NoRow
    BY <1>4 DEF NoRow
  <2> QED
    BY <1>1, <1>2, <1>3, <2>1 DEF Copying, Untouched, Unborn
<1>7. ASSUME NEW n \in Notices, NEW c \in Channels PROVE Within(n, c)'
  <2>1. Within(n, c) /\ slips'[n] >= slips[n]
    BY <1>3 DEF Copying, Accounted, Typed, CountsTyped
  <2>2. ~WillSend(job'[w], n, c)
    BY <1>1 DEF WillSend
  <2>3. CASE n \notin Claimable
    <3>1. row'[n] = row[n] /\ ~Claims(job'[w], n)
      BY <1>1, <1>2, <2>3 DEF Claims
    <3> QED
      BY <1>1, <1>3, <2>1, <2>2, <3>1, JobKept
  <2>4. CASE n \in Claimable
    <3>1. row'[n] = [row[n] EXCEPT !.when = "leased"]
      BY <1>2, <2>4
    <3>2. row'[n].status = row[n].status /\ Free(n) = 1 /\ Free(n)' = 0
      <4>1. row[n] \in Rows
        BY DEF Typed, RowsTyped
      <4> QED
        BY <1>4, <2>4, <3>1, <4>1 DEF Free, Rows
    <3>3. /\ Claimers(n)' \subseteq Claimers(n) \cup {w}
          /\ Senders(n, c)' \subseteq Senders(n, c)
      BY <1>1, <2>2, OneJob
    <3>4. /\ Claimers(n)' \in SUBSET Workers /\ Claimers(n) \in SUBSET Workers
          /\ Senders(n, c)' \in SUBSET Workers
          /\ Senders(n, c) \in SUBSET Workers
      BY DEF Claimers, Senders
    <3>5. /\ Cardinality(Claimers(n)') <= Cardinality(Claimers(n)) + 1
          /\ Cardinality(Claimers(n)') \in Nat /\ Cardinality(Claimers(n)) \in Nat
      BY <3>3, <3>4, WorkersCount
    <3>6. /\ Cardinality(Senders(n, c)') <= Cardinality(Senders(n, c))
          /\ Cardinality(Senders(n, c)') \in Nat
          /\ Cardinality(Senders(n, c)) \in Nat
      BY <3>3, <3>4, WorkersCount
    <3>7. Chances(n, c)' <= Chances(n, c) /\ Chances(n, c)' \in Nat
      BY <3>2, <3>5 DEF Chances, Takers
    <3>8. /\ Chances(n, c) \in Nat /\ copies[<<n, c>>] \in Nat
          /\ inserts[n] \in Nat /\ slips[n] \in Nat
      BY Figures DEF Typed
    <3> QED
      BY <1>3, <2>1, <3>6, <3>7, <3>8 DEF Within
  <2> QED
    BY <2>3, <2>4
<1> QED
  BY <1>5, <1>6, <1>7 DEF Copying, Accounted

\* A claimer that reads its rows will send what is queued in them.
LEMMA LoadCopying ==
  ASSUME Typed, Typed', Copying, NEW w \in Workers, Load(w)
  PROVE  Copying'
<1>1. /\ job[w] \in Jobs /\ Sane(job[w]) /\ job[w].at = "claimed"
      /\ job' = [job EXCEPT ![w] = [job[w] EXCEPT !.at = "sending",
                   !.read = [n \in job[w].todo |-> row[n]]]]
  BY DEF Load, Typed, JobsTyped
<1>2. /\ job'[w].at = "sending" /\ job'[w].todo = job[w].todo
      /\ job'[w].current = {} /\ job'[w].left = job[w].left
      /\ job'[w].status = job[w].status
      /\ \A n \in job[w].todo : job'[w].read[n] = row[n]
      /\ \A v \in Workers : v # w => job'[v] = job[v]
  BY <1>1 DEF Jobs, Sane, Typed, JobsTyped
<1>3. UNCHANGED <<row, copies, slips, inserts>>
  BY DEF Load
<1>4. Untouched' /\ LeftQueued'
  BY <1>2, <1>3 DEF Copying, Untouched, Unborn, LeftQueued
<1>5. ASSUME NEW n \in Notices, NEW c \in Channels PROVE Within(n, c)'
  <2>1. Within(n, c) /\ slips'[n] >= slips[n]
    BY <1>3 DEF Copying, Accounted, Typed, CountsTyped
  <2>2. ~Claims(job'[w], n)
    BY <1>2 DEF Claims
  <2>3. CASE ~WillSend(job'[w], n, c)
    BY <1>2, <1>3, <2>1, <2>2, <2>3, JobKept
  <2>4. CASE WillSend(job'[w], n, c)
    <3>1. n \in job[w].todo /\ row[n].status[c] = "queued" /\ w \in Claimers(n)
      BY <1>1, <1>2, <2>4 DEF WillSend, Claimers, Claims
    <3>2. /\ Claimers(n)' \subseteq Claimers(n) \ {w}
          /\ Senders(n, c)' \subseteq Senders(n, c) \cup {w}
      BY <1>2, <2>2, OneJob
    <3>3. /\ Claimers(n)' \in SUBSET Workers /\ Claimers(n) \in SUBSET Workers
          /\ Senders(n, c)' \in SUBSET Workers
          /\ Senders(n, c) \in SUBSET Workers
      BY DEF Claimers, Senders
    <3>4. /\ Cardinality(Claimers(n)') <= Cardinality(Claimers(n)) - 1
          /\ Cardinality(Claimers(n)') \in Nat /\ Cardinality(Claimers(n)) \in Nat
      BY <3>1, <3>2, <3>3, WorkersCount
    <3>5. /\ Cardinality(Senders(n, c)') <= Cardinality(Senders(n, c)) + 1
          /\ Cardinality(Senders(n, c)') \in Nat
          /\ Cardinality(Senders(n, c)) \in Nat
      BY <3>2, <3>3, WorkersCount
    <3>6. Chances(n, c)' <= Chances(n, c) - 1 /\ Chances(n, c)' \in Nat
      BY <1>3, <3>1, <3>4 DEF Chances, Takers, Free
    <3>7. /\ Chances(n, c) \in Nat /\ copies[<<n, c>>] \in Nat
          /\ inserts[n] \in Nat /\ slips[n] \in Nat
      BY Figures DEF Typed
    <3> QED
      BY <1>3, <2>1, <3>5, <3>6, <3>7 DEF Within
  <2> QED
    BY <2>3, <2>4
<1> QED
  BY <1>4, <1>5 DEF Copying, Accounted

\* The next row: what is left of it is what was read.
LEMMA BeginCopying ==
  ASSUME Typed, Typed', Copying, NEW w \in Workers, NEW n \in Notices,
         Begin(w, n)
  PROVE  Copying'
<1> DEFINE status == job[w].read[n].status
           left == {c \in Channels : status[c] = "queued"}
<1>1. /\ job[w] \in Jobs /\ job[w].at = "sending" /\ n \in job[w].todo
      /\ job[w].current = {}
      /\ job' = [job EXCEPT ![w] = [job[w] EXCEPT
           !.current = {n}, !.status = status, !.left = left]]
  BY DEF Begin, Typed, JobsTyped
<1>2. /\ job'[w].at = "sending" /\ job'[w].todo = job[w].todo
      /\ job'[w].current = {n} /\ job'[w].left = left
      /\ job'[w].status = status /\ job'[w].read = job[w].read
      /\ \A v \in Workers : v # w => job'[v] = job[v]
  <2> HIDE DEF status, left
  <2> QED
    BY <1>1 DEF Jobs, Typed, JobsTyped
<1>3. UNCHANGED <<row, copies, slips, inserts>>
  BY DEF Begin
<1>4. Untouched' /\ LeftQueued'
  BY <1>2, <1>3 DEF Copying, Untouched, Unborn, LeftQueued
<1>5. ASSUME NEW m \in Notices, NEW c \in Channels PROVE Within(m, c)'
  <2>1. Within(m, c) /\ slips'[m] >= slips[m]
    BY <1>3 DEF Copying, Accounted, Typed, CountsTyped
  <2>2. ~Claims(job'[w], m)
    BY <1>2 DEF Claims
  <2>3. WillSend(job'[w], m, c) => WillSend(job[w], m, c)
    BY <1>1, <1>2 DEF WillSend
  <2> QED
    BY <1>2, <1>3, <2>1, <2>2, <2>3, JobKept
<1> QED
  BY <1>4, <1>5 DEF Copying, Accounted
\* A try sends what was going to be sent; a lost answer is a slip.
LEMMA TryCopying ==
  ASSUME Typed, Typed', Copying, NEW w \in Workers, NEW n \in Notices,
         NEW c \in Channels, Try(w, n, c)
  PROVE  Copying'
<1>1. /\ job[w] \in Jobs /\ job[w].at = "sending" /\ n \in job[w].todo
      /\ job[w].current = {n} /\ c \in job[w].left
      /\ job[w].status[c] = "queued"
  <2>1. job[w].current = {n} /\ c \in job[w].left
    BY DEF Try
  <2> QED
    BY <2>1, WrittenBack DEF Typed, JobsTyped, Copying, LeftQueued
<1>2. UNCHANGED <<row, inserts>>
  BY DEF Try
<1>3. ASSUME NEW status \in Statuses, NEW failed \in BOOLEAN,
             Tried(w, c, status, failed)
      PROVE  /\ job'[w].at = "sending" /\ job'[w].todo = job[w].todo
             /\ job'[w].current = {n} /\ job'[w].left = job[w].left \ {c}
             /\ job'[w].status = [job[w].status EXCEPT ![c] = status]
             /\ job'[w].read = job[w].read
             /\ \A v \in Workers : v # w => job'[v] = job[v]
  <2> DEFINE left == job[w].left \ {c}
             tried == [job[w].status EXCEPT ![c] = status]
             fails == job[w].failed \/ failed
             next == [job[w] EXCEPT !.left = left, !.status = tried,
                                    !.failed = fails]
  <2>1. job' = [job EXCEPT ![w] = next]
    BY <1>3, Zenon DEF Tried, Typed, JobsTyped
  <2>2. /\ next.at = "sending" /\ next.todo = job[w].todo
        /\ next.current = {n} /\ next.left = left /\ next.status = tried
        /\ next.read = job[w].read
    <3> HIDE DEF left, tried, fails
    <3> QED
      BY <1>1 DEF Jobs
  <2> HIDE DEF next
  <2>3. job'[w] = next /\ \A v \in Workers : v # w => job'[v] = job[v]
    BY <2>1 DEF Typed, JobsTyped
  <2> QED
    BY <2>2, <2>3, Zenon
<1>4. PICK status \in {"sent", "over", "queued"}, failed \in BOOLEAN :
         /\ Tried(w, c, status, failed)
         /\ \/ status = "sent" /\ Deliver(n, c) /\ UNCHANGED slips
            \/ UNCHANGED <<copies, slips>>
            \/ Deliver(n, c) /\ slips' = [slips EXCEPT ![n] = @ + 1]
  BY DEF Try
<1>5. /\ job'[w].at = "sending" /\ job'[w].todo = job[w].todo
      /\ job'[w].current = {n} /\ job'[w].left = job[w].left \ {c}
      /\ job'[w].status = [job[w].status EXCEPT ![c] = status]
      /\ job'[w].read = job[w].read
      /\ \A v \in Workers : v # w => job'[v] = job[v]
  BY <1>3, <1>4 DEF Statuses
<1>6. /\ \A d \in Channels : d # c => job'[w].status[d] = job[w].status[d]
      /\ job'[w].status[c] = status
  BY <1>1, <1>5 DEF Jobs
<1>7. Untouched' /\ LeftQueued'
  <2>1. job[w].left \subseteq Channels
    BY <1>1 DEF Jobs
  <2>2. \A m \in Notices, v \in Workers :
          m \notin job[v].todo => m \notin job'[v].todo
    BY <1>5
  <2>3. Untouched'
    BY <1>2, <2>2 DEF Copying, Untouched, Unborn
  <2>4. \A d \in job'[w].left : job'[w].status[d] = "queued"
    BY <1>5, <1>6, <2>1 DEF Copying, LeftQueued
  <2>5. ASSUME NEW v \in Workers, NEW d \in job'[v].left
        PROVE  job'[v].status[d] = "queued"
    <3>1. CASE v = w
      BY <2>4, <2>5, <3>1
    <3>2. CASE v # w
      <4>1. job'[v] = job[v]
        BY <1>5, <3>2
      <4> QED
        BY <2>5, <4>1 DEF Copying, LeftQueued
    <3> QED
      BY <3>1, <3>2
  <2> QED
    BY <2>3, <2>5 DEF LeftQueued
<1>8. /\ \A m \in Notices : slips'[m] >= slips[m]
      /\ \A x \in Notices \X Channels : x # <<n, c>> => copies'[x] = copies[x]
      /\ Deliver(n, c) => copies'[<<n, c>>] = copies[<<n, c>>] + 1
  BY <1>4 DEF Deliver, Typed, CountsTyped
<1>9. ASSUME NEW m \in Notices, NEW d \in Channels PROVE Within(m, d)'
  <2>1. Within(m, d) /\ ~Claims(job'[w], m)
    BY <1>5 DEF Copying, Accounted, Claims
  <2>2. WillSend(job'[w], m, d) => WillSend(job[w], m, d)
    BY <1>1, <1>5, <1>6 DEF WillSend
  <2>3. CASE copies'[<<m, d>>] = copies[<<m, d>>]
    BY <1>2, <1>5, <1>8, <2>1, <2>2, <2>3, JobKept
  <2>4. CASE m = n /\ d = c /\ Deliver(n, c)
    <3>1. /\ Claimers(n)' \subseteq Claimers(n)
          /\ Senders(n, c)' \subseteq Senders(n, c)
          /\ w \in Senders(n, c)
          /\ status = "sent" => Senders(n, c)' \subseteq Senders(n, c) \ {w}
      <4>1. WillSend(job[w], n, c) /\ (status = "sent" =>
                                         ~WillSend(job'[w], n, c))
        BY <1>1, <1>5, <1>6 DEF WillSend
      <4> QED
        BY <1>5, <2>1, <2>2, <2>4, <4>1, OneJob DEF Senders
    <3>2. /\ Claimers(n)' \in SUBSET Workers /\ Claimers(n) \in SUBSET Workers
          /\ Senders(n, c)' \in SUBSET Workers
          /\ Senders(n, c) \in SUBSET Workers
      BY DEF Claimers, Senders
    <3>3. /\ Cardinality(Claimers(n)') <= Cardinality(Claimers(n))
          /\ Cardinality(Claimers(n)') \in Nat /\ Cardinality(Claimers(n)) \in Nat
      BY <3>1, <3>2, WorkersCount
    <3>4. /\ Cardinality(Senders(n, c)') <= Cardinality(Senders(n, c))
          /\ status = "sent" =>
               Cardinality(Senders(n, c)') <= Cardinality(Senders(n, c)) - 1
          /\ Cardinality(Senders(n, c)') \in Nat
          /\ Cardinality(Senders(n, c)) \in Nat
      BY <3>1, <3>2, WorkersCount
    <3>5. Chances(n, c)' <= Chances(n, c) /\ Chances(n, c)' \in Nat
      BY <1>2, <3>3 DEF Chances, Takers, Free
    <3>6. /\ Chances(n, c) \in Nat /\ copies[<<n, c>>] \in Nat
          /\ inserts[n] \in Nat /\ slips[n] \in Nat
      BY Figures DEF Typed
    <3>7. CASE status = "sent" /\ UNCHANGED slips
      BY <1>2, <1>8, <2>1, <2>4, <3>4, <3>5, <3>6, <3>7 DEF Within
    <3>8. CASE slips' = [slips EXCEPT ![n] = @ + 1]
      <4>1. slips'[n] = slips[n] + 1
        BY <3>8 DEF Typed, CountsTyped
      <4> QED
        BY <1>2, <1>8, <2>1, <2>4, <3>4, <3>5, <3>6, <4>1 DEF Within
    <3> QED
      BY <1>4, <1>8, <2>3, <2>4, <3>7, <3>8
  <2> QED
    BY <1>4, <1>8, <2>3, <2>4
<1> QED
  BY <1>7, <1>9 DEF Copying, Accounted

\* A pass hands back the chance it had.  Over another's claim it may give that
\* one a chance too: a slip.
LEMMA RecordCopying ==
  ASSUME Typed, Typed', Copying, NEW w \in Workers, NEW n \in Notices,
         Record(w, n)
  PROVE  Copying'
<1>1. /\ job[w] \in Jobs /\ job[w].at = "sending" /\ n \in job[w].todo
      /\ job[w].current = {n} /\ job[w].left = {}
      /\ StatusAfter(w, n) \in [Channels -> Statuses]
  BY WrittenBack DEF Record, Typed, JobsTyped
<1>2. /\ \A v \in Workers : v # w => job'[v] = job[v]
      /\ job'[w].at \in {"off", "sending"} /\ job'[w].left = {}
      /\ job'[w].todo \subseteq job[w].todo \ {n} /\ job'[w].current = {}
      /\ \A m \in job'[w].todo : job'[w].read[m] = job[w].read[m]
  <2> DEFINE read == [m \in job[w].todo \ {n} |-> job[w].read[m]]
             next == [job[w] EXCEPT !.todo = job[w].todo \ {n}, !.current = {},
                                    !.failed = FALSE, !.status = NoRow.status,
                                    !.read = read]
  <2>1. /\ \A v \in Workers : v # w => job'[v] = job[v]
        /\ job'[w] \in {Resting, next}
    <3>1. \E j \in {Resting, next} : job' = [job EXCEPT ![w] = j]
      BY DEF Record
    <3> HIDE DEF next
    <3> QED
      BY <3>1 DEF Typed, JobsTyped
  <2>2. /\ next.at = "sending" /\ next.left = {} /\ next.current = {}
        /\ next.todo = job[w].todo \ {n} /\ next.read = read
    <3> HIDE DEF read
    <3> QED
      BY <1>1 DEF Jobs
  <2>3. /\ Resting.at = "off" /\ Resting.left = {} /\ Resting.current = {}
        /\ Resting.todo = {}
    BY DEF Resting
  <2>4. \A m \in next.todo : next.read[m] = job[w].read[m]
    <3>1. \A m \in job[w].todo \ {n} : read[m] = job[w].read[m]
      OBVIOUS
    <3> HIDE DEF next, read
    <3> QED
      BY <2>2, <3>1
  <2> HIDE DEF next
  <2> QED
    BY <2>1, <2>2, <2>3, <2>4
<1>3. /\ \A m \in Notices : m # n => row'[m] = row[m] /\ slips'[m] = slips[m]
      /\ row'[n].status = StatusAfter(w, n) /\ row'[n].when # "leased"
      /\ slips'[n] >= slips[n]
      /\ (\E v \in Workers \ {w} : n \in job[v].todo) =>
            slips'[n] = slips[n] + 1
      /\ UNCHANGED <<copies, inserts>>
  BY DEF Record, Typed, RowsTyped, CountsTyped
<1>4. Untouched'
  <2>1. inserts[n] # 0
    BY <1>1 DEF Copying, Untouched, Unborn
  <2> QED
    BY <1>2, <1>3, <2>1 DEF Copying, Untouched, Unborn
<1>5. LeftQueued'
  BY <1>2 DEF Copying, LeftQueued
<1>6. ASSUME NEW m \in Notices, NEW c \in Channels PROVE Within(m, c)'
  <2>1. Within(m, c) /\ ~Claims(job'[w], m)
    BY <1>2 DEF Copying, Accounted, Claims
  <2>2. CASE m # n
    <3>1. WillSend(job'[w], m, c) => WillSend(job[w], m, c)
      BY <1>1, <1>2, <2>2 DEF WillSend
    <3>2. slips'[m] >= slips[m]
      BY <1>3, <2>2 DEF Typed, CountsTyped
    <3> QED
      BY <1>2, <1>3, <2>1, <2>2, <3>1, <3>2, JobKept
  <2>3. CASE m = n
    <3>1. ~WillSend(job'[w], n, c)
      BY <1>2 DEF WillSend
    <3>2. /\ Claimers(n)' \subseteq Claimers(n)
          /\ Senders(n, c)' \subseteq Senders(n, c) \ {w}
          /\ Senders(n, c)' \subseteq Senders(n, c)
      BY <1>2, <2>1, <2>3, <3>1, OneJob
    <3>3. /\ Claimers(n)' \in SUBSET Workers /\ Claimers(n) \in SUBSET Workers
          /\ Senders(n, c)' \in SUBSET Workers
          /\ Senders(n, c) \in SUBSET Workers
      BY DEF Claimers, Senders
    <3>4. /\ Cardinality(Claimers(n)') <= Cardinality(Claimers(n))
          /\ Cardinality(Claimers(n)') \in Nat /\ Cardinality(Claimers(n)) \in Nat
      BY <3>2, <3>3, WorkersCount
    <3>5. /\ Cardinality(Senders(n, c)') <= Cardinality(Senders(n, c))
          /\ Cardinality(Senders(n, c)') \in Nat
          /\ Cardinality(Senders(n, c)) \in Nat
      BY <3>2, <3>3, WorkersCount
    <3>6. row'[n].status[c] = "queued" =>
            Cardinality(Senders(n, c)') <= Cardinality(Senders(n, c)) - 1
      <4>1. row'[n].status[c] = "queued" => job[w].status[c] = "queued"
        BY <1>3 DEF StatusAfter
      <4>2. row'[n].status[c] = "queued" => w \in Senders(n, c)
        BY <1>1, <4>1 DEF Senders, WillSend
      <4> QED
        BY <3>2, <3>3, <4>2, WorkersCount
    <3>7. Cardinality(Claimers(n)) # 0 => slips'[n] = slips[n] + 1
      <4>1. ASSUME NEW v \in Claimers(n) PROVE slips'[n] = slips[n] + 1
        <5>1. v \in Workers \ {w} /\ n \in job[v].todo
          BY <1>1 DEF Claimers, Claims
        <5> QED
          BY <1>3, <5>1
      <4> QED
        BY <4>1, WorkersCount
    <3>8. Chances(n, c)' =
            Cardinality(Claimers(n)') + IF row'[n].status[c] = "queued" THEN 1
                                        ELSE 0
      BY <1>3, <3>4 DEF Chances, Takers, Free
    <3>9. /\ Chances(n, c) >= Cardinality(Claimers(n)) - 1
          /\ Chances(n, c) \in Nat
      BY <3>4 DEF Chances, Takers, Free
    <3>10. /\ copies[<<n, c>>] \in Nat /\ inserts[n] \in Nat
           /\ slips[n] \in Nat /\ slips'[n] \in Nat
      BY Figures DEF Typed, CountsTyped
    <3>11. Cardinality(Senders(n, c)') + Chances(n, c)' + slips[n]
             <= Cardinality(Senders(n, c)) + Chances(n, c) + slips'[n]
      <4>1. CASE Cardinality(Claimers(n)) = 0
        BY <1>3, <3>4, <3>5, <3>6, <3>8, <3>9, <3>10, <4>1
      <4>2. CASE Cardinality(Claimers(n)) # 0
        BY <3>4, <3>5, <3>6, <3>7, <3>8, <3>9, <3>10, <4>2
      <4> QED
        BY <4>1, <4>2
    <3>12. Chances(n, c)' \in Nat
      BY <3>4, <3>8
    <3> QED
      BY <1>3, <2>1, <2>3, <3>5, <3>9, <3>10, <3>11, <3>12 DEF Within
  <2> QED
    BY <2>2, <2>3
<1> QED
  BY <1>4, <1>5, <1>6 DEF Copying, Accounted

\* Every step keeps count.
LEMMA StepCopying ==
  Typed /\ Copying /\ AlertHasOneNotice /\ [OutboxNext]_outboxVars => Copying'
<1> SUFFICES ASSUME Typed, Copying, AlertHasOneNotice, [OutboxNext]_outboxVars
             PROVE  Copying'
  OBVIOUS
<1>1. Typed'
  BY StepTyped
<1>2. CASE UNCHANGED outboxVars
  BY <1>1, <1>2, QuietCopying DEF outboxVars
<1>3. ASSUME NEW n \in Notices, NEW wanted \in SUBSET Channels, Emit(n, wanted)
      PROVE  Copying'
  BY <1>1, <1>3, InsertCopying DEF Emit
<1>4. ASSUME NEW w \in Workers, NEW a \in alerts, NEW wanted \in SUBSET Channels,
             Fire(w, a, wanted)
      PROVE  Copying'
  <2>1. CASE Untriggered(a)
    <3>1. /\ Insert(a, wanted) /\ UNCHANGED <<job, copies, slips>>
          /\ inserts[a] = 0 /\ a \in Notices
      BY <1>4, <2>1 DEF Fire, Untriggered, AlertHasOneNotice, Typed, AlertsTyped
    <3> QED
      BY <1>1, <3>1, InsertCopying
  <2>2. CASE ~Untriggered(a)
    BY <1>1, <1>4, <2>2, QuietCopying DEF Fire
  <2> QED
    BY <2>1, <2>2
<1>5. ASSUME NEW n \in Notices, BackoffEnds(n) PROVE Copying'
  <2>1. UNCHANGED <<job, copies, inserts, slips>>
    BY <1>5 DEF BackoffEnds
  <2> QED
    BY <1>1, <1>5, <2>1, QuietCopying
<1>6. ASSUME NEW n \in Notices, AbandonedLeaseEnds(n) \/ Overrun(n) PROVE Copying'
  BY <1>1, <1>6, LeaseCopying DEF AbandonedLeaseEnds, Overrun
<1>7. ASSUME NEW w \in Workers, PassStep(w) PROVE Copying'
  BY <1>1, <1>7, ClaimCopying, LoadCopying, BeginCopying, TryCopying,
     RecordCopying DEF PassStep
<1>8. ASSUME NEW w \in Workers,
             \/ \E as \in SUBSET alerts : ReadCrossed(w, as)
             \/ Start(w) \/ LoseConnection(w)
      PROVE  Copying'
  <2>1. UNCHANGED <<row, job, copies, inserts, slips>>
    BY <1>8 DEF ReadCrossed, Start, LoseConnection
  <2> QED
    BY <1>1, <2>1, QuietCopying
<1>9. ASSUME NEW w \in Workers, Reconfirm(w) \/ Dies(w) PROVE Copying'
  <2>1. Gone(w) \/ UNCHANGED <<row, job, copies, inserts, slips>>
    BY <1>9 DEF Reconfirm, Dies
  <2> QED
    BY <1>1, <2>1, GoneCopying, QuietCopying
<1> QED
  BY <1>2, <1>3, <1>4, <1>5, <1>6, <1>7, <1>8, <1>9 DEF OutboxNext, ProcessStep

\* A customer gets one message, and one more at most for every lease that ran
\* out or was written over and every delivery whose answer was lost.
THEOREM NoticesAccounted == OutboxSpec => []CopiesAccounted
<1>1. OutboxInit => AlertHasOneNotice
  BY DEF OutboxInit, AlertHasOneNotice
<1> QED
  BY <1>1, InitTyped, StepTyped, AlertStep, InitCopying, StepCopying,
     AccountedCopies, PTL DEF OutboxSpec
=============================================================================
