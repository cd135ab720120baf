------------------------------ MODULE Sessions ------------------------------
(***************************************************************************)
(* One account's sessions, one per device.  A session row keeps the hash   *)
(* of its current refresh token and of the one before; each refresh        *)
(* rotates the token, and a token rotated away longer than the grace ago   *)
(* means a copy: the session is revoked.  Access tokens are not stored:    *)
(* a revoked session's live ones are refused through a mark in Redis that  *)
(* outlives them.                                                          *)
(*                                                                         *)
(* Tabs of one device share its cookies and refresh on their own, so calls *)
(* race; answers are lost; a process may die between the row and the mark. *)
(* Tokens are numbered in the order they are issued for a session.         *)
(***************************************************************************)
EXTENDS Integers

CONSTANTS
    Sids,        \* session ids
    Calls,       \* refresh requests under way
    NoSid,       \* session of an idle call
    MaxToken,    \* bound on the tokens issued for a session
    AccessLife,  \* ACCESS_TOKEN_TTL_SEC, in ticks
    MarkSlack,   \* by how much the mark outlives an access token (60 s)
    Grace,       \* ROTATION_GRACE_MS
    CallMax      \* a refresh call, its answer included, takes no longer

\* The grace covers two calls back to back; the slack covers one.
ASSUME SessionsAssumption ==
    /\ NoSid \notin Sids
    /\ {MaxToken, AccessLife, MarkSlack, Grace, CallMax} \subseteq Nat
    /\ CallMax <= MarkSlack
    /\ 2 * CallMax < Grace
    /\ Grace <= AccessLife

VARIABLES
    session,   \* the rows: state, current token, the one before, proof
    issued,    \* the newest token made for the session
    graceLeft, \* ticks until its last rotation is older than the grace
    access,    \* ticks its newest access token still lives
    mark,      \* ticks `sess:revoked:<sid>' still lives in Redis
    marking,   \* sessions whose revocation has yet to write the mark
    unmarked,  \* sessions whose revoker died before it wrote the mark
    jar,       \* the refresh token in the device's cookies
    cookie,    \* ticks the access token in the device's cookies still lives
    call,      \* the refresh calls
    lost,      \* sessions that lost an answer with new cookies
    hasty,     \* sessions rotated again within the grace
    copied     \* sessions revoked because an old token was presented

sessionVars == <<session, issued, graceLeft, access, mark, marking, unmarked,
                 jar, cookie, call, lost, hasty, copied>>

NoToken == -1
NoSession == [state |-> "none", token |-> 0, previous |-> NoToken, proof |-> 0,
              late |-> FALSE]

\* `token': the one presented; `next': the one minted for the answer.
IdleCall == [at |-> "idle", sid |-> NoSid, token |-> 0, next |-> 0, age |-> 0]

CallPlaces == {"refused", "sent", "claim", "kill", "sign", "answer"}

SessionsTypeOK ==
    /\ session \in [Sids -> [state : {"none", "live", "revoked"},
                             token : Nat, previous : Nat \cup {NoToken},
                             proof : Nat, late : BOOLEAN]]
    /\ issued \in [Sids -> Nat]
    /\ graceLeft \in [Sids -> 0 .. Grace]
    /\ access \in [Sids -> 0 .. AccessLife]
    /\ mark \in [Sids -> 0 .. AccessLife + MarkSlack]
    /\ marking \subseteq Sids /\ unmarked \subseteq Sids
    /\ lost \subseteq Sids /\ hasty \subseteq Sids /\ copied \subseteq Sids
    /\ cookie \in [Sids -> 0 .. AccessLife]
    /\ jar \in [Sids -> Nat]
    /\ call \in [Calls -> {IdleCall} \cup
          [at : CallPlaces, sid : Sids, token : Nat, next : Nat,
           age : 0 .. CallMax]]

SessionsInit ==
    /\ session = [s \in Sids |-> NoSession]
    /\ issued = [s \in Sids |-> 0]
    /\ graceLeft = [s \in Sids |-> 0]
    /\ access = [s \in Sids |-> 0]
    /\ mark = [s \in Sids |-> 0]
    /\ marking = {} /\ unmarked = {} /\ lost = {} /\ hasty = {} /\ copied = {}
    /\ cookie = [s \in Sids |-> 0]
    /\ jar = [s \in Sids |-> 0]
    /\ call = [c \in Calls |-> IdleCall]

Live(s) == session[s].state = "live"

\* AuthGuard: an access token passes while it lives and no mark refuses it.
Passes(s) == access[s] > 0 /\ mark[s] = 0

-----------------------------------------------------------------------------
(* create: the row, its first tokens, and the cookies of the device. *)

Open(s, proof, late) ==
    /\ session[s] = NoSession
    /\ session' = [session EXCEPT ![s].state = "live", ![s].proof = proof,
                                  ![s].late = late]
    /\ access' = [access EXCEPT ![s] = AccessLife]
    /\ cookie' = [cookie EXCEPT ![s] = AccessLife]
    /\ UNCHANGED <<issued, graceLeft, mark, marking, unmarked, jar, call, lost,
                   hasty, copied>>

-----------------------------------------------------------------------------
(* rotate. *)

At(c, place) == call[c].at = place
Of(c) == call[c].sid
GoTo(c, place) == call' = [call EXCEPT ![c].at = place]
End(c) == call' = [call EXCEPT ![c] = IdleCall]

\* A tab's request is refused: its access token has expired or is marked.  (A
\* refresh that finds the session dead changes nothing: only those that start
\* while it lives are followed.)
Refused(c, s) ==
    /\ call[c] = IdleCall
    /\ Live(s)
    /\ cookie[s] = 0 \/ mark[s] > 0
    /\ issued[s] < MaxToken
    /\ call' = [call EXCEPT ![c] =
         [IdleCall EXCEPT !.at = "refused", !.sid = s]]
    /\ UNCHANGED <<session, issued, graceLeft, access, mark, marking, unmarked,
                   jar, cookie, lost, hasty, copied>>

\* It asks for a refresh with whatever cookie the device has by then.
SendRefresh(c) ==
    /\ At(c, "refused")
    /\ call' = [call EXCEPT ![c].at = "sent", ![c].token = jar[Of(c)],
                            ![c].age = 0]
    /\ UNCHANGED <<session, issued, graceLeft, access, mark, marking, unmarked,
                   jar, cookie, lost, hasty, copied>>

InGrace_Never(c) == FALSE  \* mutant: no grace
InGrace(c) == /\ call[c].token = session[Of(c)].previous
              /\ graceLeft[Of(c)] > 0

\* What the row says decides how the call goes on: rotate, answer a racing
\* tab without tokens, refuse, or revoke for reuse.
ReadSession(c) ==
    /\ At(c, "sent")
    /\ \/ Live(Of(c)) /\ call[c].token = session[Of(c)].token
          /\ GoTo(c, "claim")
       \/ Live(Of(c)) /\ call[c].token # session[Of(c)].token
          /\ IF InGrace(c) THEN End(c) ELSE GoTo(c, "kill")
       \/ ~Live(Of(c)) /\ End(c)
    /\ UNCHANGED <<session, issued, graceLeft, access, mark, marking, unmarked,
                   jar, cookie, lost, hasty, copied>>

StillCurrent_Any(c) == TRUE  \* mutant: an unconditional UPDATE
StillCurrent(c) == session[Of(c)].token = call[c].token

\* The UPDATE is conditional on the token matched, not on the session's
\* being live.
ClaimRotation(c) ==
    LET s == Of(c) IN
    /\ At(c, "claim")
    /\ IF StillCurrent(c)
       THEN /\ issued[s] < MaxToken
            /\ issued' = [issued EXCEPT ![s] = @ + 1]
            /\ session' = [session EXCEPT ![s].token = issued[s] + 1,
                                          ![s].previous = call[c].token]
            /\ graceLeft' = [graceLeft EXCEPT ![s] = Grace]
            /\ hasty' = IF graceLeft[s] > 0 THEN hasty \cup {s} ELSE hasty
            /\ call' = [call EXCEPT ![c].at = "sign", ![c].next = issued[s] + 1]
       ELSE End(c) /\ UNCHANGED <<issued, session, graceLeft, hasty>>
    /\ UNCHANGED <<access, mark, marking, unmarked, jar, cookie, lost, copied>>

Sign(c) ==
    /\ At(c, "sign")
    /\ access' = [access EXCEPT ![Of(c)] = AccessLife]
    /\ GoTo(c, "answer")
    /\ UNCHANGED <<session, issued, graceLeft, mark, marking, unmarked, jar,
                   cookie, lost, hasty, copied>>

\* The answer sets the device's cookies.
Answer(c) ==
    /\ At(c, "answer")
    /\ jar' = [jar EXCEPT ![Of(c)] = call[c].next]
    /\ cookie' = [cookie EXCEPT ![Of(c)] = access[Of(c)]]
    /\ End(c)
    /\ UNCHANGED <<session, issued, graceLeft, access, mark, marking, unmarked,
                   lost, hasty, copied>>

\* The tab closes, the connection drops or the process dies: with the token
\* already rotated, the device never learns the new one.
CallLost(c) ==
    /\ call[c] # IdleCall
    /\ lost' = IF At(c, "sign") \/ At(c, "answer") THEN lost \cup {Of(c)}
               ELSE lost
    /\ End(c)
    /\ UNCHANGED <<session, issued, graceLeft, access, mark, marking, unmarked,
                   jar, cookie, copied, hasty>>
-----------------------------------------------------------------------------
(* Revocation: the rows first, then the marks of the rows just revoked. *)

RevokeRows_Deletes(ss) ==  \* mutant: the row is not stamped but taken away
    /\ session' = [s \in Sids |->
         IF s \in ss /\ Live(s) THEN [session[s] EXCEPT !.state = "deleted"]
         ELSE session[s]]
    /\ marking' = marking \cup ss

\* revoke marks the session also when it was revoked before.
RevokeRows(ss) ==
    /\ session' = [s \in Sids |->
         IF s \in ss /\ Live(s) THEN [session[s] EXCEPT !.state = "revoked"]
         ELSE session[s]]
    /\ marking' = marking \cup ss

\* The device signs out.
Logout(s) ==
    /\ Passes(s)
    /\ RevokeRows({s})
    /\ UNCHANGED <<issued, graceLeft, access, mark, unmarked, jar, cookie, call,
                   lost, hasty, copied>>

\* Another device, which need not be followed here, signs out one session or
\* all others; or staff or an unlink does.
SignedOutElsewhere(ss) ==
    /\ ss # {} /\ \A s \in ss : Live(s)
    /\ RevokeRows(ss)
    /\ UNCHANGED <<issued, graceLeft, access, mark, unmarked, jar, cookie, call,
                   lost, hasty, copied>>

RevokeReused(c) ==
    /\ At(c, "kill")
    /\ RevokeRows({Of(c)})
    /\ copied' = copied \cup {Of(c)}
    /\ End(c)
    /\ UNCHANGED <<issued, graceLeft, access, mark, unmarked, jar, cookie,
                   lost, hasty>>

MarkLife_Access == AccessLife  \* mutant: no slack
MarkLife == AccessLife + MarkSlack

WriteMark(s) ==
    /\ s \in marking
    /\ mark' = [mark EXCEPT ![s] = MarkLife]
    /\ marking' = marking \ {s}
    /\ UNCHANGED <<session, issued, graceLeft, access, unmarked, jar, cookie,
                   call, lost, hasty, copied>>

\* The revoker dies between the row and the mark.
MarkLost(s) ==
    /\ s \in marking
    /\ marking' = marking \ {s}
    /\ unmarked' = unmarked \cup {s}
    /\ UNCHANGED <<session, issued, graceLeft, access, mark, jar, cookie, call,
                   lost, hasty, copied>>
-----------------------------------------------------------------------------
Less(f) == [s \in Sids |-> IF f[s] > 0 THEN f[s] - 1 ELSE 0]

\* Time passes.  No call outlives CallMax: it has been answered or lost.
Tick ==
    /\ \A c \in Calls : call[c] # IdleCall => call[c].age < CallMax
    /\ graceLeft' = Less(graceLeft)
    /\ access' = Less(access)
    /\ cookie' = Less(cookie)
    /\ mark' = Less(mark)
    /\ call' = [c \in Calls |-> IF call[c] = IdleCall THEN IdleCall
                                ELSE [call[c] EXCEPT !.age = @ + 1]]
    /\ UNCHANGED <<session, issued, marking, unmarked, jar, lost, hasty,
                   copied>>

SessionsStep ==
    \/ \E c \in Calls : \/ \E s \in Sids : Refused(c, s)
                        \/ SendRefresh(c) \/ ReadSession(c)
                        \/ ClaimRotation(c) \/ RevokeReused(c)
                        \/ Sign(c) \/ Answer(c) \/ CallLost(c)
    \/ \E ss \in SUBSET Sids : SignedOutElsewhere(ss)
    \/ \E s \in Sids : Logout(s) \/ WriteMark(s) \/ MarkLost(s)
    \/ Tick
-----------------------------------------------------------------------------
(* Properties. *)

\* "Take effect immediately": once a revocation has written its mark, no
\* access token of the session passes the guard again, not even one signed by
\* a refresh that read the row before.
RevokedIsRefused ==
    \A s \in Sids :
        session[s].state = "revoked" /\ s \notin marking \cup unmarked
          => ~Passes(s)

\* Tabs that refresh at once do not look like a copied token, unless an answer
\* was lost or the session was rotated twice within the grace ...
ReuseNeedsCause == copied \subseteq lost \cup hasty

\* ... nor do they leave the device with a token that is not the session's.
JarIsCurrent ==
    \A s \in Sids : Live(s) /\ s \notin lost =>
        \/ jar[s] = session[s].token
        \/ \E c \in Calls : /\ Of(c) = s /\ call[c].next = session[s].token
                            /\ call[c].at \in {"sign", "answer"}

TabsStaySignedIn == ReuseNeedsCause /\ JarIsCurrent

\* "Outside the short grace for racing tabs": tabs that race within it are
\* never taken for a thief.
RacingTabsAreSafe == copied \subseteq lost
=============================================================================
