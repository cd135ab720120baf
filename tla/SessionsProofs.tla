--------------------------- MODULE SessionsProofs ---------------------------
(***************************************************************************)
(* Theorems about sessions and password recovery: for any number of        *)
(* devices, calls, sign-ins and reset links, and any lives of tokens and   *)
(* marks that the assumption allows.                                       *)
(***************************************************************************)
EXTENDS Recovery, TLAPS

-----------------------------------------------------------------------------
(* Types. *)

SessionRows == [state : {"none", "live", "revoked"}, token : Nat,
                previous : Nat \cup {NoToken}, proof : Nat, late : BOOLEAN]
ActiveCalls == [at : CallPlaces, sid : Sids, token : Nat, next : Nat,
                age : 0 .. CallMax]

RowsTyped ==
    /\ session \in [Sids -> SessionRows]
    /\ issued \in [Sids -> Nat]
    /\ graceLeft \in [Sids -> 0 .. Grace]
    /\ access \in [Sids -> 0 .. AccessLife]
    /\ mark \in [Sids -> 0 .. AccessLife + MarkSlack]
    /\ marking \subseteq Sids /\ unmarked \subseteq Sids
    /\ lost \subseteq Sids /\ hasty \subseteq Sids /\ copied \subseteq Sids
    /\ cookie \in [Sids -> 0 .. AccessLife]
    /\ jar \in [Sids -> Nat]
CallsTyped == call \in [Calls -> {IdleCall} \cup ActiveCalls]

\* Rows and calls apart.
LEMMA TypeParts == SessionsTypeOK <=> RowsTyped /\ CallsTyped
BY DEF SessionsTypeOK, RowsTyped, CallsTyped, SessionRows, ActiveCalls

\* The constants are numbers.
LEMMA Constants ==
  /\ MaxToken \in Nat /\ AccessLife \in Nat /\ MarkSlack \in Nat /\ Grace \in Nat
  /\ CallMax \in Nat /\ CallMax <= MarkSlack /\ NoSid \notin Sids
BY SessionsAssumption

\* Initially everything has its type.
LEMMA InitType == RecoveryInit => RecoveryTypeOK
<1> SUFFICES ASSUME RecoveryInit PROVE RecoveryTypeOK
  OBVIOUS
<1> USE Constants DEF RecoveryInit, SessionsInit
<1>1. SessionsTypeOK
  BY DEF SessionsTypeOK, NoSession, NoToken
<1> QED
  BY <1>1 DEF RecoveryTypeOK

\* An idle call has no session.
LEMMA IdleIsIdle ==
  ASSUME CallsTyped, NEW c \in Calls
  PROVE  /\ call[c] = IdleCall <=> call[c].at = "idle"
         /\ call[c].at # "idle" => call[c] \in ActiveCalls /\ Of(c) \in Sids
BY DEF CallsTyped, ActiveCalls, CallPlaces, IdleCall, Of

\* The steps of a refresh.
LEMMA RefreshType ==
  ASSUME RowsTyped, CallsTyped, NEW c \in Calls,
         \/ \E s \in Sids : Refused(c, s)
         \/ SendRefresh(c) \/ ReadSession(c) \/ ClaimRotation(c) \/ Sign(c)
         \/ Answer(c) \/ CallLost(c)
  PROVE  RowsTyped' /\ CallsTyped'
<1> USE Constants
<1>1. ASSUME NEW s \in Sids, Refused(c, s)
      PROVE  RowsTyped' /\ CallsTyped'
  <2>1. IdleCall \in [at : {"idle"}, sid : {NoSid}, token : Nat, next : Nat,
                      age : 0 .. CallMax]
    BY DEF IdleCall
  <2>2. [IdleCall EXCEPT !.at = "refused", !.sid = s] \in ActiveCalls
    BY <2>1 DEF ActiveCalls, CallPlaces
  <2> QED
    BY <1>1, <2>2 DEF Refused, RowsTyped, CallsTyped
<1>2. CASE SendRefresh(c)
  <2>1. call[c] \in ActiveCalls /\ Of(c) \in Sids
    BY <1>2, IdleIsIdle DEF SendRefresh, At
  <2>2. jar[Of(c)] \in Nat /\ 0 \in 0 .. CallMax /\ "sent" \in CallPlaces
    BY <2>1 DEF CallPlaces, RowsTyped
  <2>3. [call[c] EXCEPT !.at = "sent", !.token = jar[Of(c)], !.age = 0]
          \in ActiveCalls
    BY <2>1, <2>2 DEF ActiveCalls
  <2> QED
    BY <1>2, <2>3 DEF RowsTyped, CallsTyped, SendRefresh
<1>3. CASE ReadSession(c)
  <2>1. call[c] \in ActiveCalls
    BY <1>3, IdleIsIdle DEF ReadSession, At
  <2>2. /\ GoTo(c, "claim") \/ GoTo(c, "kill") \/ End(c)
        /\ UNCHANGED <<session, issued, graceLeft, access, mark, marking,
                       unmarked, jar, cookie, lost, hasty, copied>>
    BY <1>3 DEF ReadSession
  <2>3. \A place \in CallPlaces : [call[c] EXCEPT !.at = place] \in ActiveCalls
    BY <2>1 DEF ActiveCalls
  <2>4. CallsTyped'
    BY <2>2, <2>3 DEF CallsTyped, GoTo, End, CallPlaces
  <2> QED
    BY <2>2, <2>4 DEF RowsTyped
<1>4. CASE ClaimRotation(c)
  <2>1. call[c] \in ActiveCalls /\ Of(c) \in Sids /\ call[c].token \in Nat
    BY <1>4, IdleIsIdle DEF ClaimRotation, At, ActiveCalls
  <2>2. /\ issued[Of(c)] + 1 \in Nat /\ session[Of(c)] \in SessionRows
    BY <2>1 DEF RowsTyped
  <2>3. /\ [call[c] EXCEPT !.at = "sign", !.next = issued[Of(c)] + 1] \in ActiveCalls
        /\ [session[Of(c)] EXCEPT !.token = issued[Of(c)] + 1,
                                  !.previous = call[c].token] \in SessionRows
    BY <2>1, <2>2 DEF ActiveCalls, SessionRows, CallPlaces
  <2>4. CASE StillCurrent(c)
    <3>1. CallsTyped'
      BY <1>4, <2>3, <2>4 DEF ClaimRotation, CallsTyped
    <3>2. session' = [session EXCEPT ![Of(c)] =
            [session[Of(c)] EXCEPT !.token = issued[Of(c)] + 1,
                                   !.previous = call[c].token]]
      BY <1>4, <2>1, <2>4 DEF ClaimRotation, RowsTyped
    <3>3. session' \in [Sids -> SessionRows] /\ issued' \in [Sids -> Nat]
      BY <1>4, <2>1, <2>2, <2>3, <2>4, <3>2 DEF ClaimRotation, RowsTyped
    <3>4. graceLeft' \in [Sids -> 0 .. Grace] /\ hasty' \subseteq Sids
      BY <1>4, <2>1, <2>4 DEF ClaimRotation, RowsTyped
    <3> QED
      BY <1>4, <3>1, <3>3, <3>4 DEF ClaimRotation, RowsTyped
  <2>5. CASE ~StillCurrent(c)
    BY <1>4, <2>5 DEF ClaimRotation, RowsTyped, CallsTyped, End
  <2> QED
    BY <2>4, <2>5
<1>5. CASE Sign(c)
  <2>1. call[c] \in ActiveCalls /\ Of(c) \in Sids
    BY <1>5, IdleIsIdle DEF Sign, At
  <2>2. [call[c] EXCEPT !.at = "answer"] \in ActiveCalls
    BY <2>1 DEF ActiveCalls, CallPlaces
  <2> QED
    BY <1>5, <2>1, <2>2 DEF RowsTyped, CallsTyped, Sign, GoTo
<1>6. CASE Answer(c)
  <2>1. call[c].next \in Nat /\ Of(c) \in Sids
    BY <1>6, IdleIsIdle DEF Answer, At, ActiveCalls
  <2> QED
    BY <1>6, <2>1 DEF RowsTyped, CallsTyped, Answer, End
<1>7. CASE CallLost(c)
  <2>1. Of(c) \in Sids
    BY <1>7, IdleIsIdle DEF CallLost
  <2> QED
    BY <1>7, <2>1 DEF RowsTyped, CallsTyped, CallLost, End
<1> QED
  BY <1>1, <1>2, <1>3, <1>4, <1>5, <1>6, <1>7

\* Revoking rows.
LEMMA RevokeType ==
  ASSUME RowsTyped, CallsTyped, NEW ss \in SUBSET Sids, RevokeRows(ss),
         UNCHANGED <<issued, graceLeft, access, mark, unmarked, jar, cookie,
                     lost, hasty>>,
         copied' \subseteq Sids,
         UNCHANGED call \/ \E c \in Calls : End(c)
  PROVE  RowsTyped' /\ CallsTyped'
<1>1. marking' \subseteq Sids
  BY DEF RowsTyped, RevokeRows
<1>2. \A s \in Sids : [session[s] EXCEPT !.state = "revoked"] \in SessionRows
  BY DEF RowsTyped, SessionRows
<1>3. session' \in [Sids -> SessionRows]
  BY <1>2 DEF RowsTyped, RevokeRows
<1>4. CallsTyped'
  BY DEF CallsTyped, End
<1> QED
  BY <1>1, <1>3, <1>4 DEF RowsTyped

\* Revocations, their marks and the passing of time.
LEMMA RevocationType ==
  ASSUME RowsTyped, CallsTyped,
         \/ \E c \in Calls : RevokeReused(c)
         \/ \E ss \in SUBSET Sids : SignedOutElsewhere(ss)
         \/ \E s \in Sids : Logout(s) \/ WriteMark(s) \/ MarkLost(s)
         \/ Tick
  PROVE  RowsTyped' /\ CallsTyped'
<1> USE Constants
<1>1. ASSUME NEW c \in Calls, RevokeReused(c)
      PROVE  RowsTyped' /\ CallsTyped'
  <2>1. Of(c) \in Sids
    BY <1>1, IdleIsIdle DEF RevokeReused, At
  <2>2. {Of(c)} \in SUBSET Sids /\ copied' \subseteq Sids
    BY <1>1, <2>1 DEF RevokeReused, RowsTyped
  <2> QED
    BY <1>1, <2>2, RevokeType DEF RevokeReused
<1>2. ASSUME NEW ss \in SUBSET Sids, SignedOutElsewhere(ss)
      PROVE  RowsTyped' /\ CallsTyped'
  BY <1>2, RevokeType DEF SignedOutElsewhere, RowsTyped
<1>3. ASSUME NEW s \in Sids, Logout(s)
      PROVE  RowsTyped' /\ CallsTyped'
  <2>1. {s} \in SUBSET Sids /\ copied \subseteq Sids
    BY DEF RowsTyped
  <2> QED
    BY <1>3, <2>1, RevokeType DEF Logout
<1>4. ASSUME NEW s \in Sids, WriteMark(s) \/ MarkLost(s)
      PROVE  RowsTyped' /\ CallsTyped'
  <2>1. AccessLife + MarkSlack \in 0 .. AccessLife + MarkSlack
    OBVIOUS
  <2>2. UNCHANGED call
    BY <1>4 DEF WriteMark, MarkLost
  <2>3. RowsTyped'
    BY <1>4, <2>1 DEF WriteMark, MarkLost, MarkLife, RowsTyped
  <2> QED
    BY <2>2, <2>3 DEF CallsTyped
<1>5. CASE Tick
  <2>1. ASSUME NEW n \in Nat, NEW f \in [Sids -> 0 .. n]
        PROVE  Less(f) \in [Sids -> 0 .. n]
    BY DEF Less
  <2>2. AccessLife + MarkSlack \in Nat
    OBVIOUS
  <2>3. /\ graceLeft' \in [Sids -> 0 .. Grace]
        /\ access' \in [Sids -> 0 .. AccessLife]
        /\ cookie' \in [Sids -> 0 .. AccessLife]
        /\ mark' \in [Sids -> 0 .. AccessLife + MarkSlack]
    BY <1>5, <2>1, <2>2 DEF Tick, RowsTyped
  <2>4. ASSUME NEW c \in Calls
        PROVE  call'[c] \in {IdleCall} \cup ActiveCalls
    <3>1. CASE call[c] = IdleCall
      BY <1>5, <3>1 DEF Tick
    <3>2. CASE call[c] # IdleCall
      <4>1. call[c] \in ActiveCalls /\ call[c].age < CallMax
        BY <1>5, <3>2, IdleIsIdle DEF Tick
      <4>2. call'[c] = [call[c] EXCEPT !.age = @ + 1]
        BY <1>5, <3>2 DEF Tick
      <4> QED
        BY <4>1, <4>2 DEF ActiveCalls
    <3> QED
      BY <3>1, <3>2
  <2>5. CallsTyped'
    BY <1>5, <2>4 DEF Tick, CallsTyped
  <2>6. UNCHANGED <<session, issued, marking, unmarked, jar, lost, hasty, copied>>
    BY <1>5 DEF Tick
  <2> QED
    BY <2>3, <2>5, <2>6 DEF RowsTyped
<1> QED
  BY <1>1, <1>2, <1>3, <1>4, <1>5

\* Every step of the sessions.
LEMMA SessionsStepType ==
  RowsTyped /\ CallsTyped /\ SessionsStep => RowsTyped' /\ CallsTyped'
BY RefreshType, RevocationType DEF SessionsStep

ActiveSubmits == [at : {"claim", "hash", "sweep"}, link : Links, new : Nat]

\* What recovery adds to the sessions.
RecoveryTyped ==
    /\ password \in Nat /\ swept \in Nat
    /\ login \in [Logins -> Nat \cup {NoPassword}]
    /\ link \in [Links -> {"none", "asked", "live", "used"}]
    /\ submit \in [Submits -> {IdleSubmit} \cup ActiveSubmits]
    /\ sets \in [Links -> Nat]

Typed == RowsTyped /\ CallsTyped /\ RecoveryTyped

\* Together they are the type invariant.
LEMMA TypedParts == RecoveryTypeOK <=> Typed
BY TypeParts DEF RecoveryTypeOK, Typed, RecoveryTyped, ActiveSubmits

\* An idle submission is of no link.
LEMMA SubmitIsActive ==
  ASSUME RecoveryTyped, NEW r \in Submits, submit[r].at # "idle"
  PROVE  submit[r] \in ActiveSubmits
BY DEF RecoveryTyped, IdleSubmit

\* A submission's step, for a password that is a number.
LEMMA StepDoneType ==
  ASSUME RecoveryTyped, NEW r \in Submits, NEW new \in Nat,
         submit[r].at # "idle", StepDone(r, new)
  PROVE  /\ swept' \in Nat
         /\ submit' \in [Submits -> {IdleSubmit} \cup ActiveSubmits]
<1>1. submit[r] \in ActiveSubmits
  BY SubmitIsActive
<1>2. AfterStep[submit[r].at] \in {"hash", "sweep", "idle"}
  BY <1>1 DEF AfterStep, ActiveSubmits
<1>3. CASE AfterStep[submit[r].at] = "idle"
  BY <1>3 DEF StepDone, RecoveryTyped
<1>4. CASE AfterStep[submit[r].at] # "idle"
  <2>1. [submit[r] EXCEPT !.at = AfterStep[submit[r].at], !.new = new]
          \in ActiveSubmits
    BY <1>1, <1>2, <1>4 DEF ActiveSubmits
  <2>2. /\ submit' = [submit EXCEPT ![r] =
             [submit[r] EXCEPT !.at = AfterStep[submit[r].at], !.new = new]]
        /\ UNCHANGED swept
    BY <1>4 DEF StepDone, RecoveryTyped
  <2> QED
    BY <2>1, <2>2 DEF RecoveryTyped
<1> QED
  BY <1>3, <1>4

\* Every step of signing in and of recovery.
LEMMA RecoveryStepType == Typed /\ RecoveryStep => Typed'
<1> SUFFICES ASSUME Typed, RecoveryStep PROVE Typed'
  OBVIOUS
<1> USE Constants DEF Typed
<1>1. UNCHANGED sessionVars => RowsTyped' /\ CallsTyped'
  BY DEF sessionVars, RowsTyped, CallsTyped
<1>2. ASSUME NEW l \in Logins, VerifyPassword(l)
      PROVE  Typed'
  BY <1>1, <1>2 DEF VerifyPassword, RecoveryTyped
<1>3. ASSUME NEW l \in Logins, NEW s \in Sids, OpenSession(l, s)
      PROVE  Typed'
  <2>1. login[l] \in Nat
    BY <1>3 DEF OpenSession, RecoveryTyped
  <2>2. RecoveryTyped'
    BY <1>3 DEF OpenSession, RecoveryTyped
  <2>3. [session[s] EXCEPT !.state = "live", !.proof = login[l],
                           !.late = login[l] < password] \in SessionRows
    <3>1. (login[l] < password) \in BOOLEAN
      BY <2>1 DEF RecoveryTyped
    <3>2. \A b \in BOOLEAN : [session[s] EXCEPT !.state = "live",
                                !.proof = login[l], !.late = b] \in SessionRows
      BY <2>1 DEF RowsTyped, SessionRows
    <3> QED
      BY <3>1, <3>2, Zenon
  <2>4. session' = [session EXCEPT ![s] =
          [session[s] EXCEPT !.state = "live", !.proof = login[l],
                             !.late = login[l] < password]]
    BY <1>3 DEF OpenSession, Open, RowsTyped
  <2>5. session' \in [Sids -> SessionRows]
    BY <2>3, <2>4 DEF RowsTyped
  <2>6. RowsTyped' /\ CallsTyped'
    BY <1>3, <2>5 DEF OpenSession, Open, RowsTyped, CallsTyped
  <2> QED
    BY <2>2, <2>6
<1>4. ASSUME NEW k \in Links, AskLink(k) \/ SendLink(k)
      PROVE  Typed'
  <2>1. \A j \in Links :
          (CASE j = k -> "asked" [] j # k /\ link[j] = "live" -> "used"
             [] OTHER -> link[j]) \in {"none", "asked", "live", "used"}
    BY DEF RecoveryTyped
  <2> QED
    BY <1>1, <1>4, <2>1 DEF AskLink, SendLink, RecoveryTyped
<1>5. ASSUME NEW r \in Submits, NEW k \in Links, SubmitLink(r, k)
      PROVE  Typed'
  <2>1. [at |-> "claim", link |-> k, new |-> 0] \in ActiveSubmits
    BY DEF ActiveSubmits
  <2> QED
    BY <1>1, <1>5, <2>1 DEF SubmitLink, RecoveryTyped
<1>6. ASSUME NEW r \in Submits, ClaimLink(r)
      PROVE  Typed'
  <2>1. submit[r] \in ActiveSubmits /\ submit[r].link \in Links
    BY <1>6, SubmitIsActive DEF ClaimLink, ActiveSubmits
  <2>2. UNCHANGED <<password, login, sets>> /\ link' \in {link, [link EXCEPT ![submit[r].link] = "used"]}
    BY <1>6 DEF ClaimLink
  <2>3. CASE StepDone(r, 0)
    BY <1>1, <1>6, <2>2, <2>3, StepDoneType DEF ClaimLink, RecoveryTyped
  <2>4. CASE ~StepDone(r, 0)
    BY <1>1, <1>6, <2>2, <2>4 DEF ClaimLink, RecoveryTyped
  <2> QED
    BY <2>3, <2>4
<1>7. ASSUME NEW r \in Submits, SetHash(r)
      PROVE  Typed'
  <2>1. submit[r].link \in Links
    BY <1>7, SubmitIsActive DEF SetHash, ActiveSubmits
  <2>2. /\ swept' \in Nat
        /\ submit' \in [Submits -> {IdleSubmit} \cup ActiveSubmits]
    BY <1>7, StepDoneType DEF SetHash, RecoveryTyped
  <2> QED
    BY <1>1, <1>7, <2>1, <2>2 DEF SetHash, RecoveryTyped
<1>8. ASSUME NEW r \in Submits, SweepSessions(r)
      PROVE  Typed'
  <2>1. submit[r].new \in Nat
    BY <1>8, SubmitIsActive DEF SweepSessions, ActiveSubmits
  <2>2. /\ swept' \in Nat
        /\ submit' \in [Submits -> {IdleSubmit} \cup ActiveSubmits]
    BY <1>8, <2>1, StepDoneType DEF SweepSessions
  <2>3. RowsTyped' /\ CallsTyped'
    <3>1. {s \in Sids : Live(s)} \in SUBSET Sids /\ copied \subseteq Sids
      BY DEF RowsTyped
    <3> QED
      BY <1>8, <3>1, RevokeType DEF SweepSessions
  <2> QED
    BY <1>8, <2>2, <2>3 DEF SweepSessions, RecoveryTyped
<1>9. ASSUME NEW r \in Submits, SubmitLost(r)
      PROVE  Typed'
  BY <1>1, <1>9 DEF SubmitLost, RecoveryTyped
<1> QED
  BY <1>2, <1>3, <1>4, <1>5, <1>6, <1>7, <1>8, <1>9 DEF RecoveryStep

\* Every step keeps the types.
LEMMA StepType == Typed /\ [RecoveryNext]_allVars => Typed'
<1> SUFFICES ASSUME Typed, [RecoveryNext]_allVars PROVE Typed'
  OBVIOUS
<1>1. UNCHANGED recoveryVars => RecoveryTyped'
  BY DEF Typed, recoveryVars, RecoveryTyped
<1>2. CASE UNCHANGED allVars
  BY <1>1, <1>2 DEF allVars, sessionVars, Typed, RowsTyped, CallsTyped
<1> QED
  BY <1>1, <1>2, RecoveryStepType, SessionsStepType DEF RecoveryNext, Typed

\* Sessions, calls, links and submissions keep their types.
THEOREM SessionsTypeCorrect == RecoverySpec => []RecoveryTypeOK
BY InitType, TypedParts, StepType, PTL DEF RecoverySpec
-----------------------------------------------------------------------------
(* A revoked session is refused. *)

\* The revocation of s has written its mark.
Settled(s) == session[s].state = "revoked" /\ s \notin marking \cup unmarked

\* The call has read the row while the session lived, and may yet sign.
MaySign(c, s) == Of(c) = s /\ call[c].at \in {"claim", "sign"}

\* The mark outlives the tokens there are and those a call may yet sign: what
\* has gone of it is no more than the call's age.
Covered(s) ==
    /\ access[s] <= mark[s]
    /\ \A c \in Calls :
          MaySign(c, s) => AccessLife + MarkSlack <= mark[s] + call[c].age
Refusing == \A s \in Sids : Settled(s) => Covered(s)

\* Initially nothing is revoked.
LEMMA InitRefusing == RecoveryInit => Refusing
BY DEF RecoveryInit, SessionsInit, Refusing, Settled, NoSession

\* A covered session is refused.
LEMMA RefusingRefuses == Typed /\ Refusing => RevokedIsRefused
BY DEF Typed, RowsTyped, Refusing, Settled, Covered, RevokedIsRefused, Passes

\* A step keeps it that settles no revocation, leaves the tokens and marks of
\* the settled ones alone, and lets no further call sign for them.
LEMMA RefusingFrame ==
  ASSUME Refusing,
         \A s \in Sids : Settled(s)' =>
           Settled(s) /\ mark'[s] = mark[s] /\ access'[s] = access[s],
         \A s \in Sids, c \in Calls : Settled(s)' /\ MaySign(c, s)' =>
           MaySign(c, s) /\ call'[c].age = call[c].age
  PROVE  Refusing'
<1> SUFFICES ASSUME NEW s \in Sids, Settled(s)' PROVE Covered(s)'
  BY DEF Refusing
<1>1. Covered(s) /\ mark'[s] = mark[s] /\ access'[s] = access[s]
  BY DEF Refusing
<1> QED
  BY <1>1 DEF Covered

\* One call changes, and it may sign only where it already could.
LEMMA OneCall ==
  ASSUME CallsTyped, NEW c \in Calls, NEW new,
         call' = [call EXCEPT ![c] = new],
         \A s \in Sids : Settled(s)' /\ new.sid = s /\ new.at \in {"claim", "sign"}
           => MaySign(c, s) /\ new.age = call[c].age
  PROVE  \A s \in Sids, d \in Calls : Settled(s)' /\ MaySign(d, s)' =>
           MaySign(d, s) /\ call'[d].age = call[d].age
<1> SUFFICES ASSUME NEW s \in Sids, NEW d \in Calls, Settled(s)', MaySign(d, s)'
             PROVE  MaySign(d, s) /\ call'[d].age = call[d].age
  OBVIOUS
<1>1. CASE d = c
  <2>1. call'[c] = new
    BY DEF CallsTyped
  <2> QED
    BY <1>1, <2>1 DEF MaySign, Of
<1>2. CASE d # c
  <2>1. call'[d] = call[d]
    BY <1>2 DEF CallsTyped
  <2> QED
    BY <2>1 DEF MaySign, Of
<1> QED
  BY <1>1, <1>2

\* The steps of a refresh.
LEMMA RefreshRefusing ==
  ASSUME RowsTyped, CallsTyped, Refusing, NEW c \in Calls,
         \/ \E s \in Sids : Refused(c, s)
         \/ SendRefresh(c) \/ ReadSession(c) \/ ClaimRotation(c) \/ Sign(c)
         \/ Answer(c) \/ CallLost(c)
  PROVE  Refusing'
<1> USE Constants
<1>1. ASSUME NEW s \in Sids, Refused(c, s)
      PROVE  Refusing'
  <2>1. \A d \in Sids, e \in Calls : Settled(d)' /\ MaySign(e, d)' =>
          MaySign(e, d) /\ call'[e].age = call[e].age
    <3>1. /\ call' = [call EXCEPT ![c] =
                        [IdleCall EXCEPT !.at = "refused", !.sid = s]]
          /\ [IdleCall EXCEPT !.at = "refused", !.sid = s].at = "refused"
      BY <1>1 DEF Refused, IdleCall
    <3> QED
      BY <3>1, OneCall
  <2> QED
    BY <1>1, <2>1, RefusingFrame DEF Refused, Settled
<1>2. CASE SendRefresh(c)
  <2>1. call[c] \in ActiveCalls
    BY <1>2, IdleIsIdle DEF SendRefresh, At
  <2>2. /\ call' = [call EXCEPT ![c] = [call[c] EXCEPT
             !.at = "sent", !.token = jar[Of(c)], !.age = 0]]
        /\ [call[c] EXCEPT !.at = "sent", !.token = jar[Of(c)], !.age = 0].at
             = "sent"
    BY <1>2, <2>1 DEF SendRefresh, CallsTyped, ActiveCalls
  <2>3. \A d \in Sids, e \in Calls : Settled(d)' /\ MaySign(e, d)' =>
          MaySign(e, d) /\ call'[e].age = call[e].age
    BY <2>2, OneCall
  <2> QED
    BY <1>2, <2>3, RefusingFrame DEF SendRefresh, Settled
<1>3. CASE ReadSession(c)
  <2>1. call[c] \in ActiveCalls
    BY <1>3, IdleIsIdle DEF ReadSession, At
  <2>2. \/ Live(Of(c)) /\ GoTo(c, "claim")
        \/ GoTo(c, "kill")
        \/ End(c)
    BY <1>3 DEF ReadSession
  <2>3. /\ UNCHANGED <<session, access, mark, marking, unmarked>>
    BY <1>3 DEF ReadSession
  <2>4. \A d \in Sids, e \in Calls : Settled(d)' /\ MaySign(e, d)' =>
          MaySign(e, d) /\ call'[e].age = call[e].age
    <3>1. CASE Live(Of(c)) /\ GoTo(c, "claim")
      <4>1. /\ call' = [call EXCEPT ![c] = [call[c] EXCEPT !.at = "claim"]]
            /\ [call[c] EXCEPT !.at = "claim"].sid = Of(c)
        BY <2>1, <3>1 DEF GoTo, CallsTyped, ActiveCalls, Of
      <4>2. \A d \in Sids : [call[c] EXCEPT !.at = "claim"].sid = d
                              => ~Settled(d)'
        BY <2>3, <3>1, <4>1 DEF Live, Settled
      <4> QED
        BY <4>1, <4>2, OneCall
    <3>2. CASE GoTo(c, "kill")
      <4>1. /\ call' = [call EXCEPT ![c] = [call[c] EXCEPT !.at = "kill"]]
            /\ [call[c] EXCEPT !.at = "kill"].at = "kill"
        BY <2>1, <3>2 DEF GoTo, CallsTyped, ActiveCalls
      <4> QED
        BY <4>1, OneCall
    <3>3. CASE End(c)
      <4>1. IdleCall.at = "idle"
        BY DEF IdleCall
      <4> QED
        BY <3>3, <4>1, OneCall DEF End
    <3> QED
      BY <2>2, <3>1, <3>2, <3>3
  <2> QED
    BY <2>3, <2>4, RefusingFrame DEF Settled
<1>4. CASE ClaimRotation(c)
  <2>1. call[c] \in ActiveCalls /\ Of(c) \in Sids
    BY <1>4, IdleIsIdle DEF ClaimRotation, At
  <2>2. \A s \in Sids : Settled(s)' => Settled(s)
    <3>1. \A s \in Sids : session'[s].state = session[s].state
      <4>1. CASE StillCurrent(c)
        <5>1. session' = [session EXCEPT ![Of(c)] =
                [session[Of(c)] EXCEPT !.token = issued[Of(c)] + 1,
                                       !.previous = call[c].token]]
          BY <1>4, <2>1, <4>1 DEF ClaimRotation, RowsTyped
        <5> QED
          BY <2>1, <5>1 DEF RowsTyped, SessionRows
      <4>2. CASE ~StillCurrent(c)
        BY <1>4, <4>2 DEF ClaimRotation
      <4> QED
        BY <4>1, <4>2
    <3> QED
      BY <1>4, <3>1 DEF ClaimRotation, Settled
  <2>3. \A d \in Sids, e \in Calls : Settled(d)' /\ MaySign(e, d)' =>
          MaySign(e, d) /\ call'[e].age = call[e].age
    <3>1. CASE StillCurrent(c)
      <4>1. /\ call' = [call EXCEPT ![c] = [call[c] EXCEPT
                 !.at = "sign", !.next = issued[Of(c)] + 1]]
            /\ call[c].at = "claim"
        BY <1>4, <2>1, <3>1 DEF ClaimRotation, CallsTyped, At
      <4>2. \A d \in Sids :
              [call[c] EXCEPT !.at = "sign", !.next = issued[Of(c)] + 1].sid = d
                => MaySign(c, d)
        BY <2>1, <4>1 DEF ActiveCalls, Of, MaySign
      <4>3. [call[c] EXCEPT !.at = "sign", !.next = issued[Of(c)] + 1].age
              = call[c].age
        BY <2>1 DEF ActiveCalls
      <4> QED
        BY <4>1, <4>2, <4>3, OneCall
    <3>2. CASE ~StillCurrent(c)
      BY <1>4, <3>2, OneCall DEF ClaimRotation, End, IdleCall
    <3> QED
      BY <3>1, <3>2
  <2>4. UNCHANGED <<access, mark>>
    BY <1>4 DEF ClaimRotation
  <2> QED
    BY <2>2, <2>3, <2>4, RefusingFrame
<1>5. CASE Sign(c)
  <2>1. call[c] \in ActiveCalls /\ Of(c) \in Sids /\ call[c].at = "sign"
    BY <1>5, IdleIsIdle DEF Sign, At
  <2>2. /\ call' = [call EXCEPT ![c] = [call[c] EXCEPT !.at = "answer"]]
        /\ [call[c] EXCEPT !.at = "answer"].at = "answer"
    BY <1>5, <2>1 DEF Sign, GoTo, CallsTyped, ActiveCalls
  <2>3. \A d \in Sids, e \in Calls : Settled(d)' /\ MaySign(e, d)' =>
          MaySign(e, d) /\ call'[e].age = call[e].age
    BY <2>2, OneCall
  <2> SUFFICES ASSUME NEW s \in Sids, Settled(s)' PROVE Covered(s)'
    BY DEF Refusing
  <2>4. Settled(s) /\ Covered(s) /\ mark' = mark
    BY <1>5 DEF Sign, Settled, Refusing
  <2>5. \A d \in Calls : MaySign(d, s)' =>
          AccessLife + MarkSlack <= mark'[s] + call'[d].age
    BY <2>3, <2>4 DEF Covered
  <2>6. access'[s] <= mark'[s]
    <3>1. CASE s = Of(c)
      <4>1. AccessLife + MarkSlack <= mark[s] + call[c].age
        BY <2>1, <2>4, <3>1 DEF Covered, MaySign
      <4>2. mark[s] \in Nat /\ call[c].age \in 0 .. CallMax
        BY <2>1 DEF RowsTyped, ActiveCalls
      <4>3. access'[s] = AccessLife
        BY <1>5, <2>1, <3>1 DEF Sign, RowsTyped
      <4> QED
        BY <2>4, <4>1, <4>2, <4>3
    <3>2. CASE s # Of(c)
      BY <1>5, <2>4, <3>2 DEF Sign, RowsTyped, Covered
    <3> QED
      BY <3>1, <3>2
  <2> QED
    BY <2>5, <2>6 DEF Covered
<1>6. CASE Answer(c) \/ CallLost(c)
  <2>1. \A d \in Sids, e \in Calls : Settled(d)' /\ MaySign(e, d)' =>
          MaySign(e, d) /\ call'[e].age = call[e].age
    BY <1>6, OneCall DEF Answer, CallLost, End, IdleCall
  <2> QED
    BY <1>6, <2>1, RefusingFrame DEF Answer, CallLost, Settled
<1> QED
  BY <1>1, <1>2, <1>3, <1>4, <1>5, <1>6

\* Revoking rows settles nothing: the rows it touches wait for their marks.
LEMMA RevokeRefusing ==
  ASSUME RowsTyped, CallsTyped, Refusing, NEW ss \in SUBSET Sids, RevokeRows(ss),
         UNCHANGED <<access, mark, unmarked>>,
         UNCHANGED call \/ \E c \in Calls : End(c)
  PROVE  Refusing'
<1>1. \A s \in Sids : Settled(s)' => Settled(s)
  BY DEF RevokeRows, Settled
<1>2. \A d \in Sids, e \in Calls : Settled(d)' /\ MaySign(e, d)' =>
        MaySign(e, d) /\ call'[e].age = call[e].age
  <2>1. CASE UNCHANGED call
    BY <2>1 DEF MaySign, Of
  <2>2. ASSUME NEW c \in Calls, End(c)
        PROVE  \A d \in Sids, e \in Calls : Settled(d)' /\ MaySign(e, d)' =>
                 MaySign(e, d) /\ call'[e].age = call[e].age
    BY <2>2, OneCall DEF End, IdleCall
  <2> QED
    BY <2>1, <2>2
<1> QED
  BY <1>1, <1>2, RefusingFrame

\* Time takes as much of a mark as it adds to a call's age.
LEMMA TickRefusing ==
  ASSUME RowsTyped, CallsTyped, Refusing, Tick
  PROVE  Refusing'
<1> USE Constants
<1> SUFFICES ASSUME NEW s \in Sids, Settled(s)' PROVE Covered(s)'
  BY DEF Refusing
<1>1. Covered(s)
  BY DEF Tick, Settled, Refusing
<1>2. /\ mark'[s] = IF mark[s] > 0 THEN mark[s] - 1 ELSE 0
      /\ access'[s] = IF access[s] > 0 THEN access[s] - 1 ELSE 0
      /\ mark[s] \in Nat /\ access[s] \in Nat
  BY DEF Tick, Less, RowsTyped
<1>3. access'[s] <= mark'[s]
  BY <1>1, <1>2 DEF Covered
<1>4. ASSUME NEW c \in Calls, MaySign(c, s)'
      PROVE  AccessLife + MarkSlack <= mark'[s] + call'[c].age
  <2>1. call[c] # IdleCall
    BY <1>4 DEF Tick, IdleCall, MaySign
  <2>2. call[c] \in ActiveCalls
    BY <2>1, IdleIsIdle
  <2>3. call'[c] = [call[c] EXCEPT !.age = @ + 1]
    BY <2>1 DEF Tick
  <2>4. MaySign(c, s) /\ call'[c].age = call[c].age + 1
    BY <1>4, <2>2, <2>3 DEF MaySign, Of, ActiveCalls
  <2>5. AccessLife + MarkSlack <= mark[s] + call[c].age
    BY <1>1, <2>4 DEF Covered
  <2>6. call[c].age \in Nat
    BY <2>2 DEF ActiveCalls
  <2> QED
    BY <1>2, <2>4, <2>5, <2>6
<1> QED
  BY <1>3, <1>4 DEF Covered

\* A fresh mark outlives every token; a lost one is not counted on.
LEMMA MarkRefusing ==
  ASSUME RowsTyped, CallsTyped, Refusing, NEW s \in Sids,
         WriteMark(s) \/ MarkLost(s)
  PROVE  Refusing'
<1> USE Constants
<1>1. CASE WriteMark(s)
  <2> SUFFICES ASSUME NEW t \in Sids, Settled(t)' PROVE Covered(t)'
    BY DEF Refusing
  <2>1. CASE t = s
    <3>1. mark'[t] = AccessLife + MarkSlack /\ access'[t] \in 0 .. AccessLife
      BY <1>1, <2>1 DEF WriteMark, MarkLife, RowsTyped
    <3>2. \A c \in Calls : MaySign(c, t)' => call'[c].age \in Nat
      <4>1. \A c \in Calls : call'[c] = call[c]
        BY <1>1 DEF WriteMark
      <4> QED
        BY <4>1, IdleIsIdle DEF MaySign, ActiveCalls
    <3> QED
      BY <3>1, <3>2 DEF Covered
  <2>2. CASE t # s
    <3>1. Settled(t) /\ mark'[t] = mark[t] /\ UNCHANGED <<access, call>>
      BY <1>1, <2>2 DEF WriteMark, Settled, RowsTyped
    <3> QED
      BY <3>1 DEF Refusing, Covered, MaySign, Of
  <2> QED
    BY <2>1, <2>2
<1>2. CASE MarkLost(s)
  <2>1. \A t \in Sids : Settled(t)' => Settled(t)
    BY <1>2 DEF MarkLost, Settled
  <2>2. UNCHANGED <<mark, access, call>>
    BY <1>2 DEF MarkLost
  <2> QED
    BY <2>1, <2>2, RefusingFrame DEF MaySign, Of
<1> QED
  BY <1>1, <1>2

\* Every step of the sessions.
LEMMA SessionsRefusing ==
  RowsTyped /\ CallsTyped /\ Refusing /\ SessionsStep => Refusing'
<1> SUFFICES ASSUME RowsTyped, CallsTyped, Refusing, SessionsStep PROVE Refusing'
  OBVIOUS
<1>1. ASSUME NEW c \in Calls, RevokeReused(c)
      PROVE  Refusing'
  <2>1. {Of(c)} \in SUBSET Sids
    BY <1>1, IdleIsIdle DEF RevokeReused, At
  <2> QED
    BY <1>1, <2>1, RevokeRefusing DEF RevokeReused
<1>2. ASSUME NEW ss \in SUBSET Sids, SignedOutElsewhere(ss)
      PROVE  Refusing'
  BY <1>2, RevokeRefusing DEF SignedOutElsewhere
<1>3. ASSUME NEW s \in Sids, Logout(s)
      PROVE  Refusing'
  <2>1. {s} \in SUBSET Sids
    OBVIOUS
  <2> QED
    BY <1>3, <2>1, RevokeRefusing DEF Logout
<1> QED
  BY <1>1, <1>2, <1>3, RefreshRefusing, TickRefusing, MarkRefusing
  DEF SessionsStep

\* Signing in and recovering: a new session is live, a sweep revokes rows.
LEMMA RecoveryRefusing == Typed /\ Refusing /\ RecoveryStep => Refusing'
<1> SUFFICES ASSUME Typed, Refusing, RecoveryStep PROVE Refusing'
  OBVIOUS
<1>1. UNCHANGED sessionVars => Refusing'
  BY DEF sessionVars, Refusing, Settled, Covered, MaySign, Of
<1>2. ASSUME NEW l \in Logins, NEW s \in Sids, OpenSession(l, s)
      PROVE  Refusing'
  <2>1. \A t \in Sids : t # s =>
          session'[t] = session[t] /\ access'[t] = access[t]
    BY <1>2 DEF OpenSession, Open, Typed, RowsTyped
  <2>2. session'[s].state = "live"
    <3>1. session' = [session EXCEPT ![s] =
            [session[s] EXCEPT !.state = "live", !.proof = login[l],
                               !.late = login[l] < password]]
      BY <1>2 DEF OpenSession, Open, Typed, RowsTyped
    <3> QED
      BY <3>1 DEF Typed, RowsTyped, SessionRows
  <2>3. UNCHANGED <<mark, marking, unmarked, call>>
    BY <1>2 DEF OpenSession, Open
  <2>4. \A t \in Sids : Settled(t)' => t # s /\ Settled(t)
    BY <2>1, <2>2, <2>3 DEF Settled
  <2> QED
    BY <2>1, <2>3, <2>4, RefusingFrame DEF MaySign, Of
<1>3. ASSUME NEW r \in Submits, SweepSessions(r)
      PROVE  Refusing'
  <2>1. {s \in Sids : Live(s)} \in SUBSET Sids
    OBVIOUS
  <2> QED
    BY <1>3, <2>1, RevokeRefusing DEF SweepSessions, Typed
<1>4. CASE \/ \E l \in Logins : VerifyPassword(l)
           \/ \E k \in Links : AskLink(k) \/ SendLink(k)
           \/ \E r \in Submits : \/ \E k \in Links : SubmitLink(r, k)
                                 \/ ClaimLink(r) \/ SetHash(r) \/ SubmitLost(r)
  BY <1>1, <1>4 DEF VerifyPassword, AskLink, SendLink, SubmitLink, ClaimLink,
                    SetHash, SubmitLost
<1> QED
  BY <1>2, <1>3, <1>4 DEF RecoveryStep

\* Every step keeps it.
LEMMA StepRefusing == Typed /\ Refusing /\ [RecoveryNext]_allVars => Refusing'
<1> SUFFICES ASSUME Typed, Refusing, [RecoveryNext]_allVars PROVE Refusing'
  OBVIOUS
<1>1. CASE UNCHANGED allVars
  BY <1>1 DEF allVars, sessionVars, Refusing, Settled, Covered, MaySign, Of
<1> QED
  BY <1>1, SessionsRefusing, RecoveryRefusing DEF RecoveryNext, Typed

\* A revocation that has written its mark takes effect: no access token of the
\* session passes the guard again.
THEOREM SessionsRefused == RecoverySpec => []RevokedIsRefused
BY InitType, InitRefusing, TypedParts, StepType, StepRefusing, RefusingRefuses,
   PTL DEF RecoverySpec
-----------------------------------------------------------------------------
(* Recovery: a link sets one password, a reset signs every session out. *)

\* The submission has claimed the link and has yet to set the password.
Setting(r, k) == submit[r].at = "hash" /\ submit[r].link = k

\* A link that is not used has set nothing; a used one has one submission that
\* will set the password, or has set it, or neither.
OneSetting ==
    \A k \in Links :
        /\ sets[k] \in {0, 1}
        /\ sets[k] = 1 \/ link[k] # "used" => \A r \in Submits : ~Setting(r, k)
        /\ link[k] # "used" => sets[k] = 0
        /\ \A r, q \in Submits : Setting(r, k) /\ Setting(q, k) => r = q

\* No call knows a password newer than the account's.
PasswordsKnown ==
    /\ swept <= password
    /\ \A l \in Logins : login[l] <= password
    /\ \A r \in Submits : submit[r].new <= password

Recovering == OneSetting /\ PasswordsKnown /\ ResetSignsOut

\* Initially no password has been reset.
LEMMA InitRecovering == RecoveryInit => Recovering
BY DEF RecoveryInit, SessionsInit, Recovering, OneSetting, Setting, IdleSubmit,
       PasswordsKnown, ResetSignsOut, Live, NoSession, NoPassword

\* Where nothing is set twice, a link works once.
LEMMA RecoveringHolds == Typed /\ Recovering => RecoveryHolds
BY DEF Recovering, OneSetting, RecoveryHolds, LinkWorksOnce

\* What a submission's step leads to.
LEMMA StepTaken ==
  ASSUME RecoveryTyped, NEW r \in Submits, NEW new \in Nat, StepDone(r, new)
  PROVE  /\ submit[r].at = "claim" =>
              /\ UNCHANGED swept
              /\ submit' = [submit EXCEPT ![r] =
                   [submit[r] EXCEPT !.at = "hash", !.new = new]]
         /\ submit[r].at = "hash" =>
              /\ UNCHANGED swept
              /\ submit' = [submit EXCEPT ![r] =
                   [submit[r] EXCEPT !.at = "sweep", !.new = new]]
         /\ submit[r].at = "sweep" =>
              /\ submit' = [submit EXCEPT ![r] = IdleSubmit]
              /\ swept' \in {swept, new}
<1>1. /\ AfterStep["claim"] = "hash" /\ AfterStep["hash"] = "sweep"
      /\ AfterStep["sweep"] = "idle"
  BY DEF AfterStep
<1>2. CASE AfterStep[submit[r].at] = "idle"
  BY <1>1, <1>2 DEF StepDone
<1>3. CASE AfterStep[submit[r].at] # "idle"
  <2>1. /\ submit' = [submit EXCEPT ![r] =
             [submit[r] EXCEPT !.at = AfterStep[submit[r].at], !.new = new]]
        /\ UNCHANGED swept
    BY <1>3 DEF StepDone, RecoveryTyped
  <2> QED
    BY <1>1, <1>3, <2>1
<1> QED
  BY <1>2, <1>3

\* Steps that leave the rows' states and proofs alone.
LEMMA SignedOutFrame ==
  ASSUME ResetSignsOut, UNCHANGED swept,
         \A s \in Sids : session'[s].state = "live" =>
           /\ session[s].state = "live"
           /\ session'[s].proof = session[s].proof
           /\ session'[s].late = session[s].late
  PROVE  ResetSignsOut'
BY DEF ResetSignsOut, Live

\* Revoking rows makes no session live.
LEMMA RevokeSignsOut ==
  ASSUME RowsTyped, ResetSignsOut, UNCHANGED swept,
         NEW ss \in SUBSET Sids, RevokeRows(ss)
  PROVE  ResetSignsOut'
<1>1. \A s \in Sids : session'[s].state = "live" => session'[s] = session[s]
  <2>1. \A s \in Sids : [session[s] EXCEPT !.state = "revoked"].state = "revoked"
    BY DEF RowsTyped, SessionRows
  <2> QED
    BY <2>1 DEF RevokeRows
<1> QED
  BY <1>1, SignedOutFrame

\* The steps of the sessions do nothing to recovery.
LEMMA SessionsRecovering ==
  RowsTyped /\ CallsTyped /\ Recovering /\ SessionsStep /\ UNCHANGED recoveryVars
    => Recovering'
<1> SUFFICES ASSUME RowsTyped, CallsTyped, Recovering, SessionsStep,
                    UNCHANGED recoveryVars
             PROVE  Recovering'
  OBVIOUS
<1>1. OneSetting' /\ PasswordsKnown' /\ UNCHANGED swept
  BY DEF Recovering, recoveryVars, OneSetting, Setting, PasswordsKnown
<1>2. UNCHANGED session => ResetSignsOut'
  BY <1>1 DEF Recovering, ResetSignsOut, Live
<1>3. ASSUME NEW c \in Calls, ClaimRotation(c)
      PROVE  ResetSignsOut'
  <2>1. CASE StillCurrent(c)
    <3>1. Of(c) \in Sids
      BY <1>3, IdleIsIdle DEF ClaimRotation, At
    <3>2. session' = [session EXCEPT ![Of(c)] =
            [session[Of(c)] EXCEPT !.token = issued[Of(c)] + 1,
                                   !.previous = call[c].token]]
      BY <1>3, <2>1, <3>1 DEF ClaimRotation, RowsTyped
    <3>3. \A s \in Sids : /\ session'[s].state = session[s].state
                          /\ session'[s].proof = session[s].proof
                          /\ session'[s].late = session[s].late
      BY <3>1, <3>2 DEF RowsTyped, SessionRows
    <3> QED
      BY <1>1, <3>3, SignedOutFrame DEF Recovering
  <2>2. CASE ~StillCurrent(c)
    BY <1>2, <1>3, <2>2 DEF ClaimRotation
  <2> QED
    BY <2>1, <2>2
<1>4. ASSUME NEW c \in Calls, RevokeReused(c)
      PROVE  ResetSignsOut'
  <2>1. {Of(c)} \in SUBSET Sids
    BY <1>4, IdleIsIdle DEF RevokeReused, At
  <2> QED
    BY <1>1, <1>4, <2>1, RevokeSignsOut DEF RevokeReused, Recovering
<1>5. ASSUME NEW ss \in SUBSET Sids, SignedOutElsewhere(ss)
      PROVE  ResetSignsOut'
  BY <1>1, <1>5, RevokeSignsOut DEF SignedOutElsewhere, Recovering
<1>6. ASSUME NEW s \in Sids, Logout(s)
      PROVE  ResetSignsOut'
  <2>1. {s} \in SUBSET Sids
    OBVIOUS
  <2> QED
    BY <1>1, <1>6, <2>1, RevokeSignsOut DEF Logout, Recovering
<1>7. CASE \/ \E c \in Calls : \/ \E s \in Sids : Refused(c, s)
                               \/ SendRefresh(c) \/ ReadSession(c)
                               \/ Sign(c) \/ Answer(c) \/ CallLost(c)
           \/ \E s \in Sids : WriteMark(s) \/ MarkLost(s)
           \/ Tick
  <2>1. UNCHANGED session
    BY <1>7 DEF Refused, SendRefresh, ReadSession, Sign, Answer, CallLost,
                WriteMark, MarkLost, Tick
  <2> QED
    BY <1>1, <1>2, <2>1 DEF Recovering
<1> QED
  BY <1>1, <1>3, <1>4, <1>5, <1>6, <1>7 DEF SessionsStep, Recovering

\* Signing in: the session is late when the password has changed meanwhile.
LEMMA LoginRecovering ==
  ASSUME Typed, Recovering, NEW l \in Logins,
         VerifyPassword(l) \/ \E s \in Sids : OpenSession(l, s)
  PROVE  Recovering'
<1> USE DEF Typed
<1>1. OneSetting'
  BY DEF VerifyPassword, OpenSession, Recovering, OneSetting, Setting
<1>2. UNCHANGED <<password, swept, submit>>
  BY DEF VerifyPassword, OpenSession
<1>3. \A k \in Logins : login'[k] \in {login[k], password, NoPassword}
  BY DEF VerifyPassword, OpenSession, RecoveryTyped
<1>4. PasswordsKnown'
  BY <1>2, <1>3 DEF Recovering, PasswordsKnown, RecoveryTyped, NoPassword
<1>5. CASE VerifyPassword(l)
  BY <1>1, <1>2, <1>4, <1>5
  DEF VerifyPassword, sessionVars, Recovering, ResetSignsOut, Live
<1>6. ASSUME NEW s \in Sids, OpenSession(l, s)
      PROVE  ResetSignsOut'
  <2>1. session' = [session EXCEPT ![s] =
          [session[s] EXCEPT !.state = "live", !.proof = login[l],
                             !.late = login[l] < password]]
    BY <1>6 DEF OpenSession, Open, RowsTyped
  <2>2. \A t \in Sids : t # s => session'[t] = session[t]
    BY <2>1 DEF RowsTyped
  <2>3. session'[s].proof = login[l] /\ session'[s].late = (login[l] < password)
    BY <2>1, Zenon DEF RowsTyped, SessionRows
  <2>4. session'[s].proof < swept => session'[s].late
    <3>1. login[l] < swept => login[l] < password
      BY <1>6 DEF OpenSession, Recovering, PasswordsKnown, RecoveryTyped
    <3> QED
      BY <2>3, <3>1, Zenon
  <2> QED
    BY <1>2, <2>2, <2>4 DEF Recovering, ResetSignsOut, Live
<1> QED
  BY <1>1, <1>4, <1>5, <1>6 DEF Recovering

\* Asking for a link and sending it: no link that was used works again.
LEMMA LinkRecovering ==
  ASSUME Typed, Recovering, NEW k \in Links, AskLink(k) \/ SendLink(k)
  PROVE  Recovering'
<1>1. UNCHANGED <<sessionVars, password, login, submit, sets, swept>>
  BY DEF AskLink, SendLink
<1>2. \A j \in Links : link'[j] # "used" => link[j] # "used"
  BY DEF AskLink, SendLink, Typed, RecoveryTyped
<1>3. OneSetting'
  BY <1>1, <1>2 DEF Recovering, OneSetting, Setting
<1> QED
  BY <1>1, <1>3 DEF sessionVars, Recovering, PasswordsKnown, ResetSignsOut, Live

\* A reset's steps.
LEMMA ResetRecovering ==
  ASSUME Typed, Recovering, NEW r \in Submits,
         \/ \E k \in Links : SubmitLink(r, k)
         \/ ClaimLink(r) \/ SetHash(r) \/ SweepSessions(r) \/ SubmitLost(r)
  PROVE  Recovering'
<1> USE DEF Typed
<1>1. ASSUME NEW new, submit' = [submit EXCEPT ![r] = new], new.at # "hash"
      PROVE  \A q \in Submits, j \in Links : Setting(q, j)' => q # r /\ Setting(q, j)
  BY <1>1 DEF RecoveryTyped, Setting
<1>2. ASSUME submit' = [submit EXCEPT ![r] = IdleSubmit],
             UNCHANGED <<sessionVars, password, login, link, sets, swept>>
      PROVE  Recovering'
  <2>1. IdleSubmit.at = "idle" /\ IdleSubmit.new = 0
    BY DEF IdleSubmit
  <2>2. \A q \in Submits, j \in Links : Setting(q, j)' => q # r /\ Setting(q, j)
    BY <1>1, <1>2, <2>1
  <2>3. OneSetting'
    BY <1>2, <2>2 DEF Recovering, OneSetting
  <2>4. \A q \in Submits : submit'[q].new = submit[q].new \/ submit'[q].new = 0
    BY <1>2, <2>1 DEF RecoveryTyped
  <2>5. PasswordsKnown'
    BY <1>2, <2>4 DEF Recovering, PasswordsKnown, RecoveryTyped
  <2> QED
    BY <1>2, <2>3, <2>5 DEF sessionVars, Recovering, ResetSignsOut, Live
<1>3. ASSUME NEW k \in Links, SubmitLink(r, k)
      PROVE  Recovering'
  <2>1. \A q \in Submits, j \in Links : Setting(q, j)' => q # r /\ Setting(q, j)
    <3>1. [at |-> "claim", link |-> k, new |-> 0].at # "hash"
      OBVIOUS
    <3> QED
      BY <1>1, <1>3, <3>1 DEF SubmitLink
  <2>2. UNCHANGED <<sessionVars, password, login, link, sets, swept>>
    BY <1>3 DEF SubmitLink
  <2>3. OneSetting'
    BY <2>1, <2>2 DEF Recovering, OneSetting
  <2>4. \A q \in Submits : submit'[q].new = submit[q].new \/ submit'[q].new = 0
    BY <1>3 DEF SubmitLink, RecoveryTyped
  <2>5. PasswordsKnown'
    BY <2>2, <2>4 DEF Recovering, PasswordsKnown, RecoveryTyped
  <2> QED
    BY <2>2, <2>3, <2>5 DEF sessionVars, Recovering, ResetSignsOut, Live
<1>4. CASE ClaimLink(r)
  <2>1. submit[r] \in ActiveSubmits /\ submit[r].at = "claim"
    BY <1>4, SubmitIsActive DEF ClaimLink
  <2>2. PICK k \in Links : k = submit[r].link
    BY <2>1 DEF ActiveSubmits
  <2>3. CASE Unclaimed(k)
    <3>1. /\ submit' = [submit EXCEPT ![r] =
               [submit[r] EXCEPT !.at = "hash", !.new = 0]]
          /\ link[k] = "live" /\ link' = [link EXCEPT ![k] = "used"]
          /\ UNCHANGED <<sessionVars, password, login, sets, swept>>
      BY <1>4, <2>1, <2>2, <2>3, StepTaken DEF ClaimLink, Unclaimed
    <3>2. \A q \in Submits, j \in Links :
            Setting(q, j)' => Setting(q, j) \/ (q = r /\ j = k)
      BY <2>1, <2>2, <3>1 DEF RecoveryTyped, ActiveSubmits, Setting
    <3>3. sets[k] = 0 /\ \A q \in Submits : ~Setting(q, k)
      BY <2>1, <2>2, <3>1 DEF Recovering, OneSetting
    <3>4. \A j \in Links : link'[j] # "used" => j # k /\ link[j] # "used"
      BY <3>1 DEF RecoveryTyped
    <3>5. OneSetting'
      BY <3>1, <3>2, <3>3, <3>4 DEF Recovering, OneSetting
    <3>6. \A q \in Submits : submit'[q].new = submit[q].new \/ submit'[q].new = 0
      BY <2>1, <2>2, <3>1 DEF RecoveryTyped, ActiveSubmits
    <3>7. PasswordsKnown'
      BY <3>1, <3>6 DEF Recovering, PasswordsKnown, RecoveryTyped
    <3> QED
      BY <3>1, <3>5, <3>7 DEF sessionVars, Recovering, ResetSignsOut, Live
  <2>4. CASE ~Unclaimed(k)
    <3>1. /\ submit' = [submit EXCEPT ![r] = IdleSubmit]
          /\ UNCHANGED <<sessionVars, password, login, link, sets, swept>>
      BY <1>4, <2>2, <2>4 DEF ClaimLink
    <3> QED
      BY <3>1, <1>2
  <2> QED
    BY <2>3, <2>4
<1>5. CASE SetHash(r)
  <2>1. submit[r] \in ActiveSubmits /\ submit[r].at = "hash"
    BY <1>5, SubmitIsActive DEF SetHash
  <2>2. PICK k \in Links : k = submit[r].link
    BY <2>1 DEF ActiveSubmits
  <2>3. /\ submit' = [submit EXCEPT ![r] =
             [submit[r] EXCEPT !.at = "sweep", !.new = password + 1]]
        /\ password' = password + 1 /\ password \in Nat
        /\ sets' = [sets EXCEPT ![k] = sets[k] + 1]
        /\ UNCHANGED <<sessionVars, login, link, swept>>
    <3>1. password \in Nat /\ password + 1 \in Nat
      BY DEF RecoveryTyped
    <3>2. /\ StepDone(r, password + 1) /\ password' = password + 1
          /\ sets' = [sets EXCEPT ![k] = sets[k] + 1]
          /\ UNCHANGED <<sessionVars, login, link>>
      BY <1>5, <2>2 DEF SetHash, RecoveryTyped
    <3> QED
      BY <2>1, <3>1, <3>2, StepTaken
  <2>4. \A q \in Submits, j \in Links : Setting(q, j)' => q # r /\ Setting(q, j)
    BY <2>1, <2>2, <2>3 DEF RecoveryTyped, ActiveSubmits, Setting
  <2>5. Setting(r, k) /\ sets[k] = 0 /\ link[k] = "used"
    <3>1. Setting(r, k)
      BY <2>1, <2>2 DEF Setting
    <3> QED
      BY <3>1 DEF Recovering, OneSetting
  <2>6. \A q \in Submits : ~Setting(q, k)'
    BY <2>1, <2>2, <2>4, <2>5 DEF Recovering, OneSetting
  <2>7. /\ sets'[k] = 1
        /\ \A j \in Links : j # k => sets'[j] = sets[j]
    BY <2>1, <2>2, <2>3, <2>5 DEF RecoveryTyped
  <2>8. OneSetting'
    BY <2>3, <2>4, <2>5, <2>6, <2>7 DEF Recovering, OneSetting
  <2>9. \A q \in Submits :
          submit'[q].new = submit[q].new \/ submit'[q].new = password + 1
    BY <2>1, <2>2, <2>3 DEF RecoveryTyped, ActiveSubmits
  <2>10. \A q \in Submits : submit[q].new \in Nat
    BY DEF RecoveryTyped, IdleSubmit, ActiveSubmits
  <2>11. PasswordsKnown'
    BY <2>3, <2>9, <2>10 DEF Recovering, PasswordsKnown, RecoveryTyped, NoPassword
  <2> QED
    BY <2>3, <2>8, <2>11 DEF sessionVars, Recovering, ResetSignsOut, Live
<1>6. CASE SweepSessions(r)
  <2>1. submit[r].at = "sweep" /\ submit[r].new \in Nat
    BY <1>6, SubmitIsActive DEF SweepSessions, ActiveSubmits
  <2>2. /\ submit' = [submit EXCEPT ![r] = IdleSubmit]
        /\ swept' \in {swept, submit[r].new}
        /\ UNCHANGED <<password, login, link, sets>>
    BY <1>6, <2>1, StepTaken DEF SweepSessions
  <2>3. \A s \in Sids : session'[s].state # "live"
    <3>1. \A s \in Sids : [session[s] EXCEPT !.state = "revoked"].state = "revoked"
      BY DEF RowsTyped, SessionRows
    <3> QED
      BY <1>6, <3>1 DEF SweepSessions, RevokeRows, Live
  <2>4. IdleSubmit.at = "idle" /\ IdleSubmit.new = 0
    BY DEF IdleSubmit
  <2>5. OneSetting'
    BY <1>1, <2>2, <2>4 DEF Recovering, OneSetting
  <2>6. \A q \in Submits : submit'[q].new = submit[q].new \/ submit'[q].new = 0
    BY <2>2, <2>4 DEF RecoveryTyped
  <2>7. PasswordsKnown'
    BY <2>2, <2>6 DEF Recovering, PasswordsKnown, RecoveryTyped
  <2> QED
    BY <2>3, <2>5, <2>7 DEF Recovering, ResetSignsOut, Live
<1>7. CASE SubmitLost(r)
  <2>1. /\ submit' = [submit EXCEPT ![r] = IdleSubmit]
        /\ UNCHANGED <<sessionVars, password, login, link, sets, swept>>
    BY <1>7 DEF SubmitLost
  <2> QED
    BY <2>1, <1>2
<1> QED
  BY <1>3, <1>4, <1>5, <1>6, <1>7

\* Every step keeps it.
LEMMA StepRecovering == Typed /\ Recovering /\ [RecoveryNext]_allVars => Recovering'
<1> SUFFICES ASSUME Typed, Recovering, [RecoveryNext]_allVars PROVE Recovering'
  OBVIOUS
<1>1. CASE UNCHANGED allVars
  BY <1>1 DEF allVars, sessionVars, recoveryVars, Recovering, OneSetting, Setting,
              PasswordsKnown, ResetSignsOut, Live
<1>2. CASE RecoveryStep
  BY <1>2, LoginRecovering, LinkRecovering, ResetRecovering DEF RecoveryStep
<1> QED
  BY <1>1, <1>2, SessionsRecovering DEF RecoveryNext, Typed

\* A reset link sets one password, and a finished reset leaves no session live
\* that was opened by an older password, but for a sign-in under way.
THEOREM SessionsRecovered == RecoverySpec => []RecoveryHolds
BY InitType, InitRecovering, TypedParts, StepType, StepRecovering,
   RecoveringHolds, PTL DEF RecoverySpec
-----------------------------------------------------------------------------
(* Racing tabs.  What matters of a session is which token each tab, the     *)
(* device's cookies and the row have, and how old the last rotation is.     *)

\* The call bears a token that is yet to be matched; a token is on its way.
Bears(c, s) == Of(c) = s /\ call[c].at \in {"sent", "claim"}
Flying(c, s) == Of(c) = s /\ call[c].at \in {"sign", "answer"}

\* The device has the row's token, or is about to get it and has the one
\* before; no call bears a token the device has not had.
InStep(s) ==
    /\ issued[s] = session[s].token /\ session[s].previous < session[s].token
    /\ jar[s] = session[s].token \/ \E c \in Calls : Flying(c, s)
    /\ \A c \in Calls : Bears(c, s) => call[c].token <= jar[s]
    /\ \A c \in Calls : Flying(c, s) => /\ call[c].next = session[s].token
                                        /\ jar[s] = session[s].previous
    /\ \A c, d \in Calls : Flying(c, s) /\ Flying(d, s) => c = d

\* A call that bears the token before was sent while the new one was on its way
\* or is older than the rotation: the grace covers it.
InTime(s) ==
    /\ \A c \in Calls : Flying(c, s) => Grace <= graceLeft[s] + call[c].age
    /\ \A c \in Calls : Bears(c, s) =>
         \/ call[c].token = session[s].token
         \/ /\ call[c].token = session[s].previous
            /\ Grace <= graceLeft[s] + CallMax + call[c].age

Tab(s) == s \notin lost => InStep(s) /\ (s \notin hasty => InTime(s))
Tabs == \A s \in Sids : Tab(s)

\* A call that takes its token for a copy has one of the causes.
KillsHaveCause == \A c \in Calls : At(c, "kill") => Of(c) \in lost \cup hasty

Racing == Tabs /\ KillsHaveCause /\ ReuseNeedsCause

\* Initially no token was rotated.
LEMMA InitRacing == RecoveryInit => Racing
<1> SUFFICES ASSUME RecoveryInit PROVE Racing
  OBVIOUS
<1> USE DEF RecoveryInit, SessionsInit
<1>1. \A c \in Calls : call[c].at = "idle"
  BY DEF IdleCall
<1>2. \A s \in Sids : Tab(s)
  BY <1>1 DEF Tab, InStep, InTime, Bears, Flying, NoSession, NoToken
<1> QED
  BY <1>1, <1>2 DEF Racing, Tabs, KillsHaveCause, At, ReuseNeedsCause

\* The property.
LEMMA RacingSignedIn == Typed /\ Racing => TabsStaySignedIn
<1> SUFFICES ASSUME Typed, Racing, NEW s \in Sids, Live(s), s \notin lost
             PROVE  \/ jar[s] = session[s].token
                    \/ \E c \in Calls : /\ Of(c) = s
                                        /\ call[c].next = session[s].token
                                        /\ call[c].at \in {"sign", "answer"}
  BY DEF Racing, TabsStaySignedIn, JarIsCurrent
<1> QED
  BY DEF Racing, Tabs, Tab, InStep, Flying

\* A step that leaves the session's tokens alone, and of its calls keeps those
\* that fly and adds none.
LEMMA TabKept ==
  ASSUME NEW s \in Sids, Tab(s), lost \subseteq lost', hasty \subseteq hasty',
         session'[s].token = session[s].token,
         session'[s].previous = session[s].previous,
         issued'[s] = issued[s], jar'[s] = jar[s], graceLeft'[s] = graceLeft[s],
         \A c \in Calls : Bears(c, s)' =>
            /\ Bears(c, s) /\ call'[c].token = call[c].token
            /\ call'[c].age = call[c].age,
         \A c \in Calls : Flying(c, s)' =>
            /\ Flying(c, s) /\ call'[c].next = call[c].next
            /\ call'[c].age = call[c].age,
         \A c \in Calls : Flying(c, s) => Flying(c, s)' \/ s \in lost'
  PROVE  Tab(s)'
<1>1. ASSUME s \notin lost' PROVE InStep(s)'
  <2>1. InStep(s)
    BY <1>1 DEF Tab
  <2> QED
    BY <1>1, <2>1 DEF InStep
<1>2. ASSUME s \notin lost', s \notin hasty' PROVE InTime(s)'
  <2>1. InTime(s)
    BY <1>2 DEF Tab
  <2> QED
    BY <2>1 DEF InTime
<1> QED
  BY <1>1, <1>2 DEF Tab

\* Of the calls only c changes: it flies if and only if it did.
LEMMA OneCallMoves ==
  ASSUME CallsTyped, NEW c \in Calls, NEW new, call' = [call EXCEPT ![c] = new]
  PROVE  call'[c] = new /\ \A d \in Calls : d # c => call'[d] = call[d]
BY DEF CallsTyped

\* A call that neither gets a token nor rotates one.
LEMMA TabCall ==
  ASSUME CallsTyped, Tabs, NEW c \in Calls, NEW new,
         call' = [call EXCEPT ![c] = new],
         lost \subseteq lost', hasty \subseteq hasty',
         UNCHANGED <<issued, jar, graceLeft>>,
         \A s \in Sids : /\ session'[s].token = session[s].token
                         /\ session'[s].previous = session[s].previous,
         \A s \in Sids : new.sid = s /\ new.at \in {"sent", "claim"} =>
            Bears(c, s) /\ new.token = call[c].token /\ new.age = call[c].age,
         \A s \in Sids : new.sid = s /\ new.at \in {"sign", "answer"} =>
            Flying(c, s) /\ new.next = call[c].next /\ new.age = call[c].age,
         \A s \in Sids : Flying(c, s) =>
            \/ s \in lost'
            \/ new.sid = s /\ new.at \in {"sign", "answer"}
  PROVE  Tabs'
<1> SUFFICES ASSUME NEW s \in Sids PROVE Tab(s)'
  BY DEF Tabs
<1>1. Tab(s)
  BY DEF Tabs
<1>2. call'[c] = new /\ \A d \in Calls : d # c => call'[d] = call[d]
  BY OneCallMoves
<1>3. \A d \in Calls : Bears(d, s)' =>
         /\ Bears(d, s) /\ call'[d].token = call[d].token
         /\ call'[d].age = call[d].age
  <2> SUFFICES ASSUME NEW d \in Calls, Bears(d, s)'
               PROVE  /\ Bears(d, s) /\ call'[d].token = call[d].token
                      /\ call'[d].age = call[d].age
    OBVIOUS
  <2>1. CASE d = c
    BY <1>2, <2>1 DEF Bears, Of
  <2>2. CASE d # c
    BY <1>2, <2>2 DEF Bears, Of
  <2> QED
    BY <2>1, <2>2
<1>4. \A d \in Calls : Flying(d, s)' =>
         /\ Flying(d, s) /\ call'[d].next = call[d].next
         /\ call'[d].age = call[d].age
  <2> SUFFICES ASSUME NEW d \in Calls, Flying(d, s)'
               PROVE  /\ Flying(d, s) /\ call'[d].next = call[d].next
                      /\ call'[d].age = call[d].age
    OBVIOUS
  <2>1. CASE d = c
    BY <1>2, <2>1 DEF Flying, Of
  <2>2. CASE d # c
    BY <1>2, <2>2 DEF Flying, Of
  <2> QED
    BY <2>1, <2>2
<1>5. \A d \in Calls : Flying(d, s) => Flying(d, s)' \/ s \in lost'
  <2> SUFFICES ASSUME NEW d \in Calls, Flying(d, s), s \notin lost'
               PROVE  Flying(d, s)'
    OBVIOUS
  <2>1. CASE d = c
    BY <1>2, <2>1 DEF Flying, Of
  <2>2. CASE d # c
    BY <1>2, <2>2 DEF Flying, Of
  <2> QED
    BY <2>1, <2>2
<1> QED
  BY <1>1, <1>3, <1>4, <1>5, TabKept

\* The steps of a refresh that leave the tokens where they are.
LEMMA QuietTabs ==
  ASSUME RowsTyped, CallsTyped, Tabs, NEW c \in Calls,
         \/ \E s \in Sids : Refused(c, s)
         \/ ReadSession(c) \/ Sign(c) \/ CallLost(c)
         \/ ClaimRotation(c) /\ ~StillCurrent(c)
         \/ RevokeReused(c)
  PROVE  Tabs'
<1>1. CASE \E s \in Sids : Refused(c, s)
  <2>1. PICK s \in Sids : Refused(c, s)
    BY <1>1
  <2> DEFINE new == [IdleCall EXCEPT !.at = "refused", !.sid = s]
  <2>2. /\ call' = [call EXCEPT ![c] =
                     [IdleCall EXCEPT !.at = "refused", !.sid = s]]
        /\ [IdleCall EXCEPT !.at = "refused", !.sid = s].at = "refused"
    BY <2>1 DEF Refused, IdleCall
  <2>3. UNCHANGED <<session, issued, jar, graceLeft, lost, hasty>>
    BY <2>1 DEF Refused
  <2>4. \A t \in Sids : ~Flying(c, t)
    <3>1. call[c] = IdleCall
      BY <2>1 DEF Refused
    <3> QED
      BY <3>1 DEF Flying, IdleCall
  <2>5. new.at = "refused" /\ call' = [call EXCEPT ![c] = new]
    BY <2>2
  <2> HIDE DEF new
  <2> QED
    BY <2>3, <2>4, <2>5, TabCall
<1>2. ASSUME End(c), ~Flying(c, Of(c)) \/ Of(c) \in lost', lost \subseteq lost',
             hasty \subseteq hasty', UNCHANGED <<issued, jar, graceLeft>>,
             \A s \in Sids : /\ session'[s].token = session[s].token
                             /\ session'[s].previous = session[s].previous
      PROVE  Tabs'
  <2>1. call' = [call EXCEPT ![c] = IdleCall] /\ IdleCall.at = "idle"
    BY <1>2 DEF End, IdleCall
  <2> QED
    BY <1>2, <2>1, TabCall DEF Flying
<1>3. ASSUME NEW place, GoTo(c, place), call[c].at # "idle",
             \/ At(c, "sent") /\ place \in {"claim", "kill"}
             \/ At(c, "sign") /\ place = "answer",
             UNCHANGED <<session, issued, jar, graceLeft, lost, hasty>>
      PROVE  Tabs'
  <2> DEFINE new == [call[c] EXCEPT !.at = place]
  <2>1. /\ call[c] \in ActiveCalls
        /\ call' = [call EXCEPT ![c] = new]
    BY <1>3, IdleIsIdle DEF GoTo, CallsTyped
  <2>2. /\ new.at = place /\ new.sid = call[c].sid /\ new.token = call[c].token
        /\ new.next = call[c].next /\ new.age = call[c].age
    BY <2>1 DEF ActiveCalls
  <2> HIDE DEF new
  <2>3. \A s \in Sids : new.sid = s /\ new.at \in {"sent", "claim"} =>
          Bears(c, s) /\ new.token = call[c].token /\ new.age = call[c].age
    BY <1>3, <2>2 DEF Bears, Of, At
  <2>4. \A s \in Sids : new.sid = s /\ new.at \in {"sign", "answer"} =>
          Flying(c, s) /\ new.next = call[c].next /\ new.age = call[c].age
    BY <1>3, <2>2 DEF Flying, Of, At
  <2>5. \A s \in Sids : Flying(c, s) =>
          new.sid = s /\ new.at \in {"sign", "answer"}
    BY <1>3, <2>2 DEF Flying, Of, At
  <2> QED
    BY <1>3, <2>1, <2>3, <2>4, <2>5, TabCall
<1>4. CASE ReadSession(c)
  BY <1>2, <1>3, <1>4 DEF ReadSession, Flying, At
<1>5. CASE Sign(c)
  BY <1>3, <1>5 DEF Sign, At
<1>6. CASE CallLost(c)
  BY <1>2, <1>6 DEF CallLost, Flying, At
<1>7. CASE ClaimRotation(c) /\ ~StillCurrent(c)
  BY <1>2, <1>7 DEF ClaimRotation, Flying, At
<1>8. CASE RevokeReused(c)
  <2>1. \A s \in Sids : /\ session'[s].token = session[s].token
                        /\ session'[s].previous = session[s].previous
    BY <1>8 DEF RevokeReused, RevokeRows, RowsTyped, SessionRows
  <2> QED
    BY <1>2, <1>8, <2>1 DEF RevokeReused, Flying, At
<1> QED
  BY <1>1, <1>4, <1>5, <1>6, <1>7, <1>8

\* The calls of a step that changes c's alone.
LEMMA OtherCalls ==
  ASSUME NEW c \in Calls, NEW d \in Calls, d # c, call'[d] = call[d], NEW s
  PROVE  (Bears(d, s)' <=> Bears(d, s)) /\ (Flying(d, s)' <=> Flying(d, s))
BY DEF Bears, Flying, Of

\* A request sets out with the device's token.
LEMMA SendTabs ==
  ASSUME RowsTyped, CallsTyped, Tabs, NEW c \in Calls, SendRefresh(c)
  PROVE  Tabs'
<1> SUFFICES ASSUME NEW s \in Sids PROVE Tab(s)'
  BY DEF Tabs
<1> USE Constants
<1>1. call[c] \in ActiveCalls
  BY IdleIsIdle DEF SendRefresh, At
<1>2. /\ call'[c] = [call[c] EXCEPT !.at = "sent", !.token = jar[Of(c)],
                                    !.age = 0]
      /\ \A d \in Calls : d # c => call'[d] = call[d]
      /\ UNCHANGED <<session, issued, jar, graceLeft, lost, hasty>>
  BY <1>1 DEF SendRefresh, CallsTyped
<1>3. /\ call'[c].at = "sent" /\ call'[c].token = jar[Of(c)]
      /\ call'[c].age = 0 /\ call'[c].sid = call[c].sid
  BY <1>1, <1>2 DEF ActiveCalls
<1>4. ~Flying(c, s) /\ ~Flying(c, s)'
  BY <1>3 DEF Flying, SendRefresh, At
<1>5. \A d \in Calls : /\ Flying(d, s)' <=> Flying(d, s)
                       /\ Flying(d, s) => call'[d] = call[d]
  BY <1>2, <1>4, OtherCalls
<1>6. \A d \in Calls : d # c =>
         (Bears(d, s)' <=> Bears(d, s)) /\ call'[d] = call[d]
  BY <1>2, OtherCalls
<1>7. Bears(c, s)' => s = Of(c) /\ call'[c].token = jar[s] /\ call'[c].age = 0
  BY <1>3 DEF Bears, Of
<1>8. session[s].token \in Int /\ session[s].previous \in Int /\ jar[s] \in Int
      /\ graceLeft[s] \in Int
  BY DEF RowsTyped, SessionRows, NoToken
<1>9. ASSUME s \notin lost PROVE InStep(s)'
  <2>1. InStep(s)
    BY <1>9 DEF Tab, Tabs
  <2>2. \A d \in Calls : Bears(d, s)' => call'[d].token <= jar[s]
    BY <1>6, <1>7, <1>8, <2>1 DEF InStep
  <2> QED
    BY <1>2, <1>5, <2>1, <2>2 DEF InStep
<1>10. ASSUME s \notin lost, s \notin hasty PROVE InTime(s)'
  <2>1. InStep(s) /\ InTime(s)
    BY <1>10 DEF Tab, Tabs
  <2>2. Bears(c, s)' => \/ jar[s] = session[s].token
                        \/ /\ jar[s] = session[s].previous
                           /\ Grace <= graceLeft[s] + CallMax
    <3>1. ASSUME NEW d \in Calls, Flying(d, s)
          PROVE  Grace <= graceLeft[s] + CallMax
      <4>1. call[d] \in ActiveCalls
        BY <3>1, IdleIsIdle DEF Flying
      <4>2. call[d].age \in 0 .. CallMax
        BY <4>1 DEF ActiveCalls
      <4> QED
        BY <1>8, <2>1, <3>1, <4>2 DEF InTime
    <3> QED
      BY <2>1, <3>1 DEF InStep
  <2>3. \A d \in Calls : Bears(d, s)' =>
          \/ call'[d].token = session[s].token
          \/ /\ call'[d].token = session[s].previous
             /\ Grace <= graceLeft[s] + CallMax + call'[d].age
    <3>1. Bears(c, s)' => \/ call'[c].token = session[s].token
                          \/ /\ call'[c].token = session[s].previous
                             /\ Grace <= graceLeft[s] + CallMax + call'[c].age
      BY <1>7, <1>8, <2>2
    <3> QED
      BY <1>6, <2>1, <3>1 DEF InTime
  <2>4. \A d \in Calls : Flying(d, s)' => Grace <= graceLeft[s] + call'[d].age
    BY <1>5, <2>1 DEF InTime
  <2> QED
    BY <1>2, <2>3, <2>4 DEF InTime
<1> QED
  BY <1>2, <1>9, <1>10 DEF Tab

\* A rotation: nothing was on its way, and whoever bears the token before the
\* one rotated away makes it hasty.
LEMMA ClaimTabs ==
  ASSUME RowsTyped, CallsTyped, Tabs, NEW c \in Calls, ClaimRotation(c),
         StillCurrent(c)
  PROVE  Tabs'
<1> SUFFICES ASSUME NEW s \in Sids PROVE Tab(s)'
  BY DEF Tabs
<1> USE Constants
<1>1. call[c] \in ActiveCalls /\ Of(c) \in Sids /\ Tab(s)
  BY IdleIsIdle DEF ClaimRotation, At, Tabs
<1>2. /\ call'[c] = [call[c] EXCEPT !.at = "sign", !.next = issued[Of(c)] + 1]
      /\ \A d \in Calls : d # c => call'[d] = call[d]
      /\ UNCHANGED <<jar, lost>>
      /\ hasty' = IF graceLeft[Of(c)] > 0 THEN hasty \cup {Of(c)} ELSE hasty
  BY <1>1 DEF ClaimRotation, CallsTyped
<1>3. /\ call'[c].at = "sign" /\ call'[c].next = issued[Of(c)] + 1
      /\ call'[c].age = call[c].age /\ call'[c].sid = call[c].sid
      /\ call[c].age \in Nat
  BY <1>1, <1>2 DEF ActiveCalls
<1>4. /\ issued' = [issued EXCEPT ![Of(c)] = @ + 1]
      /\ session' = [session EXCEPT ![Of(c)] =
            [session[Of(c)] EXCEPT !.token = issued[Of(c)] + 1,
                                   !.previous = call[c].token]]
      /\ graceLeft' = [graceLeft EXCEPT ![Of(c)] = Grace]
      /\ call[c].token = session[Of(c)].token
  BY <1>1 DEF ClaimRotation, StillCurrent, RowsTyped
<1>5. \A d \in Calls : d # c => /\ Bears(d, s)' <=> Bears(d, s)
                                /\ Flying(d, s)' <=> Flying(d, s)
                                /\ call'[d] = call[d]
  BY <1>2, OtherCalls
<1>6. ~Bears(c, s)' /\ ~Flying(c, s) /\ (Flying(c, s)' <=> s = Of(c))
      /\ Bears(c, Of(c))
  BY <1>3 DEF Bears, Flying, ClaimRotation, At, Of
<1>7. CASE s # Of(c)
  <2>1. /\ session'[s] = session[s] /\ issued'[s] = issued[s]
        /\ graceLeft'[s] = graceLeft[s] /\ hasty \subseteq hasty'
    BY <1>2, <1>4, <1>7 DEF RowsTyped
  <2> QED
    BY <1>1, <1>2, <1>5, <1>6, <1>7, <2>1, TabKept
<1>8. CASE s = Of(c)
  <2>1. /\ session'[s].token = issued[s] + 1 /\ issued'[s] = issued[s] + 1
        /\ session'[s].previous = session[s].token /\ graceLeft'[s] = Grace
    BY <1>1, <1>4, <1>8 DEF RowsTyped, SessionRows
  <2>2. /\ session[s].token \in Int /\ session[s].previous \in Int
        /\ jar[s] \in Int /\ graceLeft[s] \in Int /\ issued[s] \in Nat
        /\ \A d \in Calls : Bears(d, s) =>
             call[d].token \in Int /\ call[d].age \in 0 .. CallMax
    <3>1. ASSUME NEW d \in Calls, Bears(d, s)
          PROVE  call[d].token \in Int /\ call[d].age \in 0 .. CallMax
      <4>1. call[d] \in ActiveCalls
        BY <3>1, IdleIsIdle DEF Bears
      <4> QED
        BY <4>1 DEF ActiveCalls
    <3> QED
      BY <3>1 DEF RowsTyped, SessionRows, NoToken
  <2>3. ASSUME s \notin lost
        PROVE  jar[s] = session[s].token /\ \A d \in Calls : ~Flying(d, s)
    <3>1. InStep(s)
      BY <1>1, <2>3 DEF Tab
    <3>2. session[s].token <= jar[s]
      BY <1>4, <1>6, <1>8, <3>1 DEF InStep
    <3>3. \A d \in Calls : ~Flying(d, s)
      BY <2>2, <3>1, <3>2 DEF InStep
    <3> QED
      BY <3>1, <3>3 DEF InStep
  <2>4. ASSUME s \notin lost PROVE InStep(s)'
    <3>1. InStep(s)
      BY <1>1, <2>4 DEF Tab
    <3>2. \A d \in Calls : Flying(d, s)' <=> d = c
      BY <1>5, <1>6, <1>8, <2>3, <2>4
    <3>3. \A d \in Calls : Bears(d, s)' => call'[d].token <= jar'[s]
      BY <1>2, <1>5, <1>6, <3>1 DEF InStep
    <3>4. /\ issued'[s] = session'[s].token
          /\ session'[s].previous < session'[s].token
      BY <2>1, <2>2, <3>1 DEF InStep
    <3>5. call'[c].next = session'[s].token /\ jar'[s] = session'[s].previous
      BY <1>2, <1>3, <1>8, <2>1, <2>3, <2>4
    <3> QED
      BY <3>2, <3>3, <3>4, <3>5 DEF InStep
  <2>5. ASSUME s \notin lost, s \notin hasty' PROVE InTime(s)'
    <3>1. InStep(s) /\ InTime(s) /\ graceLeft[s] <= 0
      BY <1>1, <1>2, <1>8, <2>2, <2>5 DEF Tab
    <3>2. ASSUME NEW d \in Calls, Bears(d, s)
          PROVE  call[d].token = session[s].token
      <4>1. call[d].age <= CallMax /\ call[d].age \in Int
        BY <2>2, <3>2
      <4>2. 2 * CallMax < Grace
        BY SessionsAssumption
      <4> QED
        BY <2>2, <3>1, <3>2, <4>1, <4>2 DEF InTime
    <3>3. \A d \in Calls : Flying(d, s)' => Grace <= graceLeft'[s] + call'[d].age
      BY <1>3, <1>5, <1>6, <1>8, <2>1, <2>3, <2>5
    <3>4. \A d \in Calls : Bears(d, s)' =>
            /\ call'[d].token = session'[s].previous
            /\ Grace <= graceLeft'[s] + CallMax + call'[d].age
      BY <1>5, <1>6, <2>1, <2>2, <3>2
    <3> QED
      BY <3>3, <3>4 DEF InTime
  <2> QED
    BY <1>2, <2>4, <2>5 DEF Tab
<1> QED
  BY <1>7, <1>8

\* The device gets its new token.
LEMMA AnswerTabs ==
  ASSUME RowsTyped, CallsTyped, Tabs, NEW c \in Calls, Answer(c)
  PROVE  Tabs'
<1> SUFFICES ASSUME NEW s \in Sids PROVE Tab(s)'
  BY DEF Tabs
<1>1. Tab(s) /\ Of(c) \in Sids
  BY IdleIsIdle DEF Tabs, Answer, At
<1>2. /\ call'[c].at = "idle"
      /\ \A d \in Calls : d # c => call'[d] = call[d]
      /\ jar' = [jar EXCEPT ![Of(c)] = call[c].next]
      /\ UNCHANGED <<session, issued, graceLeft, lost, hasty>>
  BY DEF Answer, End, CallsTyped, IdleCall
<1>3. \A d \in Calls : d # c => /\ Bears(d, s)' <=> Bears(d, s)
                                /\ Flying(d, s)' <=> Flying(d, s)
                                /\ call'[d] = call[d]
  BY <1>2, OtherCalls
<1>4. ~Bears(c, s)' /\ ~Flying(c, s)' /\ Flying(c, Of(c))
  BY <1>2 DEF Bears, Flying, Answer, At, Of
<1>5. CASE s # Of(c)
  <2>1. jar'[s] = jar[s] /\ ~Flying(c, s)
    BY <1>2, <1>5 DEF RowsTyped, Flying, Of
  <2> QED
    BY <1>1, <1>2, <1>3, <1>4, <2>1, TabKept
<1>6. CASE s = Of(c)
  <2>1. jar'[s] = call[c].next
    BY <1>2, <1>6 DEF RowsTyped
  <2>2. /\ session[s].token \in Int /\ session[s].previous \in Int
        /\ jar[s] \in Int
        /\ \A d \in Calls : Bears(d, s) => call[d].token \in Int
    <3>1. ASSUME NEW d \in Calls, Bears(d, s) PROVE call[d].token \in Int
      <4>1. call[d] \in ActiveCalls
        BY <3>1, IdleIsIdle DEF Bears
      <4> QED
        BY <4>1 DEF ActiveCalls
    <3> QED
      BY <3>1 DEF RowsTyped, SessionRows, NoToken
  <2>3. ASSUME s \notin lost PROVE InStep(s)'
    <3>1. InStep(s)
      BY <1>1, <2>3 DEF Tab
    <3>2. jar'[s] = session[s].token /\ jar[s] <= jar'[s]
      BY <1>4, <1>6, <2>1, <2>2, <3>1 DEF InStep
    <3>3. \A d \in Calls : Bears(d, s)' => call'[d].token <= jar'[s]
      BY <1>3, <1>4, <2>2, <3>1, <3>2 DEF InStep
    <3>4. \A d \in Calls : ~Flying(d, s)'
      BY <1>3, <1>4, <1>6, <3>1 DEF InStep
    <3> QED
      BY <1>2, <3>1, <3>2, <3>3, <3>4 DEF InStep
  <2>4. ASSUME s \notin lost, s \notin hasty PROVE InTime(s)'
    <3>1. InTime(s)
      BY <1>1, <2>4 DEF Tab
    <3> QED
      BY <1>2, <1>3, <1>4, <3>1 DEF InTime
  <2> QED
    BY <1>2, <2>3, <2>4 DEF Tab
<1> QED
  BY <1>5, <1>6

\* Time ages the calls as much as the rotation.
LEMMA TickTabs ==
  ASSUME RowsTyped, CallsTyped, Tabs, Tick
  PROVE  Tabs'
<1> SUFFICES ASSUME NEW s \in Sids PROVE Tab(s)'
  BY DEF Tabs
<1> USE Constants
<1>1. Tab(s) /\ UNCHANGED <<session, issued, jar, lost, hasty>>
  BY DEF Tabs, Tick
<1>2. ASSUME NEW c \in Calls, Bears(c, s)' \/ Flying(c, s)' \/ Flying(c, s)
      PROVE  /\ Bears(c, s)' <=> Bears(c, s)
             /\ Flying(c, s)' <=> Flying(c, s)
             /\ call'[c].token = call[c].token /\ call'[c].next = call[c].next
             /\ call'[c].age = call[c].age + 1 /\ call[c].age \in Nat
  <2>1. call[c] # IdleCall
    BY <1>2 DEF Tick, IdleCall, Bears, Flying
  <2>2. call[c] \in ActiveCalls
    BY <2>1, IdleIsIdle
  <2>3. call'[c] = [call[c] EXCEPT !.age = @ + 1]
    BY <2>1 DEF Tick
  <2> QED
    BY <2>2, <2>3 DEF Bears, Flying, Of, ActiveCalls
<1>3. graceLeft[s] \in Nat /\ graceLeft'[s] \in Nat
      /\ graceLeft[s] <= graceLeft'[s] + 1
  BY DEF Tick, Less, RowsTyped
<1>4. ASSUME s \notin lost PROVE InStep(s)'
  <2>1. InStep(s)
    BY <1>1, <1>4 DEF Tab
  <2> QED
    BY <1>1, <1>2, <2>1 DEF InStep
<1>5. ASSUME s \notin lost, s \notin hasty PROVE InTime(s)'
  <2>1. InTime(s)
    BY <1>1, <1>5 DEF Tab
  <2> QED
    BY <1>1, <1>2, <1>3, <2>1 DEF InTime
<1> QED
  BY <1>1, <1>4, <1>5 DEF Tab
\* Revoking rows leaves their tokens alone.
LEMMA RowsKeepTokens ==
  ASSUME RowsTyped, NEW ss \in SUBSET Sids, RevokeRows(ss), NEW s \in Sids
  PROVE  /\ session'[s].token = session[s].token
         /\ session'[s].previous = session[s].previous
<1>1. session[s] \in SessionRows
  BY DEF RowsTyped
<1>2. session'[s] \in {session[s], [session[s] EXCEPT !.state = "revoked"]}
  BY DEF RevokeRows
<1> QED
  BY <1>1, <1>2 DEF SessionRows

\* Neither does any step but those of a refresh and of time touch them.
LEMMA TabsFrame ==
  ASSUME Tabs, UNCHANGED <<issued, jar, graceLeft, lost, hasty, call>>,
         \A s \in Sids : /\ session'[s].token = session[s].token
                         /\ session'[s].previous = session[s].previous
  PROVE  Tabs'
<1> SUFFICES ASSUME NEW s \in Sids PROVE Tab(s)'
  BY DEF Tabs
<1>1. Tab(s)
  BY DEF Tabs
<1> QED
  BY <1>1, TabKept DEF Bears, Flying, Of

\* Every step keeps the tabs in step.
LEMMA StepTabs == Typed /\ Tabs /\ [RecoveryNext]_allVars => Tabs'
<1> SUFFICES ASSUME Typed, Tabs, [RecoveryNext]_allVars PROVE Tabs'
  OBVIOUS
<1> USE DEF Typed
<1>1. ASSUME NEW ss \in SUBSET Sids, RevokeRows(ss),
             UNCHANGED <<issued, jar, graceLeft, lost, hasty, call>>
      PROVE  Tabs'
  BY <1>1, RowsKeepTokens, TabsFrame
<1>2. UNCHANGED sessionVars => Tabs'
  BY TabsFrame DEF sessionVars
<1>3. CASE UNCHANGED allVars
  BY <1>2, <1>3 DEF allVars
<1>4. ASSUME NEW c \in Calls,
             \/ \E s \in Sids : Refused(c, s)
             \/ SendRefresh(c) \/ ReadSession(c) \/ ClaimRotation(c)
             \/ RevokeReused(c) \/ Sign(c) \/ Answer(c) \/ CallLost(c)
      PROVE  Tabs'
  BY <1>4, QuietTabs, SendTabs, ClaimTabs, AnswerTabs
<1>5. ASSUME NEW ss \in SUBSET Sids, SignedOutElsewhere(ss) PROVE Tabs'
  BY <1>1, <1>5 DEF SignedOutElsewhere
<1>6. ASSUME NEW s \in Sids, Logout(s) PROVE Tabs'
  <2>1. {s} \in SUBSET Sids
    OBVIOUS
  <2> QED
    BY <1>1, <1>6, <2>1 DEF Logout
<1>7. ASSUME NEW s \in Sids, WriteMark(s) \/ MarkLost(s) PROVE Tabs'
  BY <1>7, TabsFrame DEF WriteMark, MarkLost
<1>8. CASE SessionsStep
  BY <1>4, <1>5, <1>6, <1>7, <1>8, TickTabs DEF SessionsStep
<1>9. ASSUME NEW l \in Logins, NEW s \in Sids, OpenSession(l, s) PROVE Tabs'
  <2>1. /\ session' = [session EXCEPT ![s] =
              [session[s] EXCEPT !.state = "live", !.proof = login[l],
                                 !.late = login[l] < password]]
        /\ UNCHANGED <<issued, jar, graceLeft, lost, hasty, call>>
    BY <1>9 DEF OpenSession, Open, RowsTyped
  <2>2. \A t \in Sids : /\ session'[t].token = session[t].token
                        /\ session'[t].previous = session[t].previous
    BY <2>1 DEF RowsTyped, SessionRows
  <2> QED
    BY <2>1, <2>2, TabsFrame
<1>10. ASSUME NEW r \in Submits, SweepSessions(r) PROVE Tabs'
  <2>1. {s \in Sids : Live(s)} \in SUBSET Sids
    OBVIOUS
  <2> QED
    BY <1>1, <1>10, <2>1 DEF SweepSessions
<1>11. CASE \/ \E l \in Logins : VerifyPassword(l)
            \/ \E k \in Links : AskLink(k) \/ SendLink(k)
            \/ \E r \in Submits : \/ \E k \in Links : SubmitLink(r, k)
                                  \/ ClaimLink(r) \/ SetHash(r) \/ SubmitLost(r)
  BY <1>2, <1>11 DEF VerifyPassword, AskLink, SendLink, SubmitLink, ClaimLink,
                     SetHash, SubmitLost
<1>12. CASE RecoveryStep
  BY <1>9, <1>10, <1>11, <1>12 DEF RecoveryStep
<1> QED
  BY <1>3, <1>8, <1>12 DEF RecoveryNext

\* A call that finds its token neither the row's nor the one before within the
\* grace has a cause, and a cause stays.
LEMMA StepCause ==
  /\ Typed /\ Racing /\ [RecoveryNext]_allVars
  => KillsHaveCause' /\ ReuseNeedsCause'
<1> SUFFICES ASSUME Typed, Racing, [RecoveryNext]_allVars
             PROVE  KillsHaveCause' /\ ReuseNeedsCause'
  OBVIOUS
<1> USE Constants DEF Typed
<1>1. ASSUME UNCHANGED <<call, copied, lost, hasty>>
      PROVE  KillsHaveCause' /\ ReuseNeedsCause'
  BY <1>1 DEF Racing, KillsHaveCause, ReuseNeedsCause, At, Of
<1>2. ASSUME NEW c \in Calls, lost \subseteq lost', hasty \subseteq hasty',
             copied' \subseteq copied \cup lost \cup hasty,
             \A d \in Calls : d # c => call'[d] = call[d],
             At(c, "kill")' => Of(c)' \in lost \cup hasty
      PROVE  KillsHaveCause' /\ ReuseNeedsCause'
  <2>1. ASSUME NEW d \in Calls, At(d, "kill")'
        PROVE  Of(d)' \in lost \cup hasty
    <3>1. CASE d = c
      BY <1>2, <2>1, <3>1
    <3>2. CASE d # c
      <4>1. call'[d] = call[d]
        BY <1>2, <3>2
      <4> QED
        BY <2>1, <4>1 DEF At, Of, Racing, KillsHaveCause
    <3> QED
      BY <3>1, <3>2
  <2> QED
    BY <1>2, <2>1 DEF KillsHaveCause, ReuseNeedsCause, Racing
<1>3. ASSUME NEW c \in Calls,
             \/ \E s \in Sids : Refused(c, s)
             \/ SendRefresh(c) \/ ClaimRotation(c) \/ RevokeReused(c) \/ Sign(c)
             \/ Answer(c) \/ CallLost(c)
      PROVE  KillsHaveCause' /\ ReuseNeedsCause'
  <2>1. \A d \in Calls : d # c => call'[d] = call[d]
    BY <1>3 DEF Refused, SendRefresh, ClaimRotation, RevokeReused, Sign, Answer,
       CallLost, GoTo, End, CallsTyped
  <2>2. ~At(c, "kill")'
    <3>1. CASE \E s \in Sids : Refused(c, s)
      <4>1. PICK s \in Sids : call' = [call EXCEPT ![c] =
                              [IdleCall EXCEPT !.at = "refused", !.sid = s]]
        BY <3>1 DEF Refused
      <4>2. call'[c].at = "refused"
        BY <4>1 DEF IdleCall, CallsTyped
      <4> QED
        BY <4>2 DEF At
    <3>2. CASE \/ SendRefresh(c) \/ ClaimRotation(c) \/ RevokeReused(c)
               \/ Sign(c) \/ Answer(c) \/ CallLost(c)
      <4>1. call[c] \in ActiveCalls
        BY <3>2, IdleIsIdle DEF SendRefresh, ClaimRotation, RevokeReused, Sign,
           Answer, CallLost, At
      <4>2. call'[c].at \in {"sent", "sign", "answer", "idle"}
        BY <3>2, <4>1 DEF SendRefresh, ClaimRotation, RevokeReused, Sign,
           Answer, CallLost, GoTo, End, CallsTyped, ActiveCalls, IdleCall
      <4> QED
        BY <4>2 DEF At
    <3> QED
      BY <1>3, <3>1, <3>2
  <2>3. /\ lost \subseteq lost' /\ hasty \subseteq hasty'
        /\ copied' \subseteq copied \cup lost \cup hasty
    BY <1>3 DEF Refused, SendRefresh, ClaimRotation, RevokeReused, Sign, Answer,
       CallLost, Racing, KillsHaveCause
  <2> QED
    BY <1>2, <2>1, <2>2, <2>3
<1>4. ASSUME NEW c \in Calls, ReadSession(c)
      PROVE  KillsHaveCause' /\ ReuseNeedsCause'
  <2>1. call[c] \in ActiveCalls /\ Of(c) \in Sids
    BY <1>4, IdleIsIdle DEF ReadSession, At
  <2>2. /\ \A d \in Calls : d # c => call'[d] = call[d]
        /\ UNCHANGED <<lost, hasty, copied>>
    BY <1>4 DEF ReadSession, GoTo, End, CallsTyped
  <2>3. ASSUME At(c, "kill")' PROVE Of(c)' \in lost \cup hasty
    <3> DEFINE s == Of(c)
    <3>1. /\ Of(c)' = s /\ call[c].token # session[s].token /\ ~InGrace(c)
          /\ Bears(c, s)
      BY <1>4, <2>1, <2>3 DEF ReadSession, GoTo, End, CallsTyped, IdleCall, At,
         Of, ActiveCalls, Bears
    <3>2. Tab(s)
      BY <2>1 DEF Racing, Tabs
    <3>3. /\ call[c].age <= CallMax /\ call[c].age \in Nat
          /\ graceLeft[s] \in Nat /\ 2 * CallMax < Grace
      BY <2>1, SessionsAssumption DEF ActiveCalls, RowsTyped
    <3>4. InTime(s) => /\ call[c].token = session[s].previous
                       /\ Grace <= graceLeft[s] + CallMax + call[c].age
      BY <3>1 DEF InTime
    <3>5. InTime(s) => FALSE
      BY <3>1, <3>3, <3>4 DEF InGrace
    <3> QED
      BY <3>1, <3>2, <3>5 DEF Tab
  <2> QED
    BY <1>2, <2>2, <2>3
<1>5. CASE UNCHANGED allVars
  BY <1>1, <1>5 DEF allVars, sessionVars
<1>6. CASE \/ \E ss \in SUBSET Sids : SignedOutElsewhere(ss)
           \/ \E s \in Sids : Logout(s) \/ WriteMark(s) \/ MarkLost(s)
  BY <1>1, <1>6 DEF SignedOutElsewhere, Logout, WriteMark, MarkLost
<1>7. CASE Tick
  <2>1. \A c \in Calls : At(c, "kill")' => At(c, "kill") /\ Of(c)' = Of(c)
    <3> SUFFICES ASSUME NEW c \in Calls, At(c, "kill")'
                 PROVE  At(c, "kill") /\ Of(c)' = Of(c)
      OBVIOUS
    <3>1. call[c] # IdleCall
      BY <1>7 DEF Tick, IdleCall, At
    <3>2. call[c] \in ActiveCalls
      BY <3>1, IdleIsIdle
    <3>3. call'[c] = [call[c] EXCEPT !.age = @ + 1]
      BY <1>7, <3>1 DEF Tick
    <3> QED
      BY <3>2, <3>3 DEF ActiveCalls, At, Of
  <2> QED
    BY <1>7, <2>1 DEF Tick, Racing, KillsHaveCause, ReuseNeedsCause
<1>8. CASE RecoveryStep
  BY <1>1, <1>8 DEF RecoveryStep, VerifyPassword, OpenSession, Open, AskLink,
     SendLink, SubmitLink, ClaimLink, SetHash, SweepSessions, SubmitLost,
     sessionVars
<1> QED
  BY <1>3, <1>4, <1>5, <1>6, <1>7, <1>8 DEF RecoveryNext, SessionsStep

\* Tabs that refresh at once stay signed in: the device has the session's token
\* or is about to, and nobody is taken for a thief, but for a lost answer and two
\* rotations within the grace.
THEOREM SessionsTabsStay == RecoverySpec => []TabsStaySignedIn
<1>1. Typed /\ Racing /\ [RecoveryNext]_allVars => Racing'
  BY StepTabs, StepCause DEF Racing
<1> QED
  BY <1>1, InitType, InitRacing, TypedParts, StepType, RacingSignedIn, PTL
  DEF RecoverySpec
=============================================================================
