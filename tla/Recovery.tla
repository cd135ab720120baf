------------------------------ MODULE Recovery ------------------------------
(***************************************************************************)
(* Password sign-in and password recovery of one verified account, on top  *)
(* of its sessions.  Signing in is two steps: the password is checked, then *)
(* a session is opened.  A reset link is claimed by a conditional UPDATE,   *)
(* then the hash is replaced, then every session is revoked: three          *)
(* statements, and any call may die between two of them.                    *)
(*                                                                         *)
(* Passwords are numbered in the order they are set.                        *)
(***************************************************************************)
EXTENDS Sessions, FiniteSets

CONSTANTS
    Logins,   \* sign-in calls under way
    Links,    \* reset links
    Submits   \* submissions of a reset link under way

VARIABLES
    password,  \* the password whose hash the account has
    login,     \* the password a sign-in call has verified, or NoPassword
    link,      \* the reset tokens' rows
    submit,    \* the submissions
    sets,      \* how often a link's submission has set the password
    swept      \* the newest password whose reset has finished

recoveryVars == <<password, login, link, submit, sets, swept>>
allVars == <<sessionVars, recoveryVars>>

NoPassword == -1
IdleSubmit == [at |-> "idle", link |-> "none", new |-> 0]

RecoveryTypeOK ==
    /\ SessionsTypeOK
    /\ password \in Nat /\ swept \in Nat
    /\ login \in [Logins -> Nat \cup {NoPassword}]
    /\ link \in [Links -> {"none", "asked", "live", "used"}]
    /\ submit \in [Submits -> {IdleSubmit} \cup
          [at : {"claim", "hash", "sweep"}, link : Links, new : Nat]]
    /\ sets \in [Links -> Nat]

RecoveryInit ==
    /\ SessionsInit
    /\ password = 0 /\ swept = 0
    /\ login = [l \in Logins |-> NoPassword]
    /\ link = [k \in Links |-> "none"]
    /\ submit = [r \in Submits |-> IdleSubmit]
    /\ sets = [k \in Links |-> 0]

-----------------------------------------------------------------------------
(* login. *)

VerifyPassword(l) ==
    /\ login[l] = NoPassword
    /\ login' = [login EXCEPT ![l] = password]
    /\ UNCHANGED <<sessionVars, password, link, submit, sets, swept>>

OpenSession(l, s) ==
    /\ login[l] # NoPassword
    /\ Open(s, login[l], login[l] < password)
    /\ login' = [login EXCEPT ![l] = NoPassword]
    /\ UNCHANGED <<password, link, submit, sets, swept>>

-----------------------------------------------------------------------------
(* requestRecovery: retire the unused tokens, then insert the new one. *)

AskLink(k) ==
    /\ link[k] = "none"
    /\ link' = [j \in Links |-> CASE j = k -> "asked"
                                  [] j # k /\ link[j] = "live" -> "used"
                                  [] OTHER -> link[j]]
    /\ UNCHANGED <<sessionVars, password, login, submit, sets, swept>>

SendLink(k) ==
    /\ link[k] = "asked"
    /\ link' = [link EXCEPT ![k] = "live"]
    /\ UNCHANGED <<sessionVars, password, login, submit, sets, swept>>

-----------------------------------------------------------------------------
(* resetPassword. *)

SubmitLink(r, k) ==
    /\ submit[r] = IdleSubmit
    /\ link[k] = "live"
    /\ submit' = [submit EXCEPT ![r] = [at |-> "claim", link |-> k, new |-> 0]]
    /\ UNCHANGED <<sessionVars, password, login, link, sets, swept>>

Unclaimed_Any(k) == TRUE  \* mutant: an unconditional UPDATE
Unclaimed(k) == link[k] = "live"

\* What follows each step of a reset.
AfterStep_SweepFirst ==  \* mutant: sessions are revoked before the hash is set
    [claim |-> "sweep", sweep |-> "hash", hash |-> "idle"]
AfterStep == [claim |-> "hash", hash |-> "sweep", sweep |-> "idle"]

\* The submission has taken its step; `new' is the password it sets.
StepDone(r, new) ==
    LET next == AfterStep[submit[r].at] IN
    IF next = "idle"
    THEN /\ submit' = [submit EXCEPT ![r] = IdleSubmit]
         /\ swept' = IF new > swept THEN new ELSE swept
    ELSE /\ submit' = [submit EXCEPT ![r].at = next, ![r].new = new]
         /\ UNCHANGED swept

ClaimLink(r) ==
    LET k == submit[r].link IN
    /\ submit[r].at = "claim"
    /\ IF Unclaimed(k)
       THEN StepDone(r, 0) /\ link' = [link EXCEPT ![k] = "used"]
       ELSE /\ submit' = [submit EXCEPT ![r] = IdleSubmit]
            /\ UNCHANGED <<link, swept>>
    /\ UNCHANGED <<sessionVars, password, login, sets>>

SetHash(r) ==
    /\ submit[r].at = "hash"
    /\ password' = password + 1
    /\ sets' = [sets EXCEPT ![submit[r].link] = @ + 1]
    /\ StepDone(r, password + 1)
    /\ UNCHANGED <<sessionVars, login, link>>

\* revokeAllForUser: every live session, no exception.
SweepSessions(r) ==
    /\ submit[r].at = "sweep"
    /\ RevokeRows({s \in Sids : Live(s)})
    /\ StepDone(r, submit[r].new)
    /\ UNCHANGED <<issued, graceLeft, access, mark, unmarked, jar, cookie, call,
                   lost, hasty, copied, password, login, link, sets>>

\* The process dies: a link may be spent for nothing, or the password changed
\* and the sessions left alone.
SubmitLost(r) ==
    /\ submit[r] # IdleSubmit
    /\ submit' = [submit EXCEPT ![r] = IdleSubmit]
    /\ UNCHANGED <<sessionVars, password, login, link, sets, swept>>
-----------------------------------------------------------------------------
RecoveryStep ==
    \/ \E l \in Logins : VerifyPassword(l) \/ \E s \in Sids : OpenSession(l, s)
    \/ \E k \in Links : AskLink(k) \/ SendLink(k)
    \/ \E r \in Submits : \/ \E k \in Links : SubmitLink(r, k)
                          \/ ClaimLink(r) \/ SetHash(r) \/ SweepSessions(r)
                          \/ SubmitLost(r)

RecoveryNext ==
    \/ RecoveryStep
    \/ SessionsStep /\ UNCHANGED recoveryVars

RecoverySpec == RecoveryInit /\ [][RecoveryNext]_allVars
-----------------------------------------------------------------------------
(* Properties. *)

\* "Sign out everywhere": once a reset has finished, a session proven by an
\* older password is live only if its sign-in had passed the password check
\* before the hash changed and opened the session after.
ResetSignsOut ==
    \A s \in Sids : Live(s) /\ session[s].proof < swept => session[s].late

\* A link, submitted twice at once, sets one password.
LinkWorksOnce == \A k \in Links : sets[k] <= 1

RecoveryHolds == ResetSignsOut /\ LinkWorksOnce
=============================================================================
