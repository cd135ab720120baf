------------------------------ MODULE Standing ------------------------------
(***************************************************************************)
(* Who may move money: a customer whose email is verified (Codes), whose   *)
(* identity is, by a reviewed document or by Fayda, and who is not frozen. *)
(* Each of the three is written by flows of several statements without a   *)
(* common lock:                                                            *)
(*                                                                         *)
(*   documents  a submission checks for a pending one, then inserts; a     *)
(*              review claims the submission, then raises the tier;        *)
(*   Fayda      a person is looked up, then attached to an account in a    *)
(*              transaction that unique indexes guard;                     *)
(*   freezes    staff or a reversed deposit check for an open flag, then   *)
(*              insert one and set the status in one transaction; lifting  *)
(*              clears the flags, then the status.                         *)
(***************************************************************************)
EXTENDS Codes

CONSTANTS
    Docs,     \* kyc_submission rows
    Persons   \* Fayda subjects

VARIABLES
    doc,       \* the submissions: owner and status
    tier,      \* users.kyc_tier
    identity,  \* <<person, account>> rows of the Fayda identities
    frozen,    \* accounts whose status is `frozen'
    flags,     \* open flags of an account
    verdict    \* the last committed decision: "none", "freeze", "unfreeze"

standingVars == <<doc, tier, identity, frozen, flags, verdict>>
allVars == <<codeVars, callVars, standingVars>>

NoDoc == [owner |-> NoAccount, status |-> "none"]

CallPlaces == {"idle", "retire", "code", "hash", "bump", "use", "verify",
               "submit", "raise", "fayda", "parked", "attach", "profile",
               "freeze", "activate"}

StandingTypeOK ==
    /\ CodesTypeOK
    /\ \A c \in Calls : /\ call[c].at \in CallPlaces
                        /\ call[c].account \in Accounts \cup {NoAccount}
    /\ started \in 0 .. MaxStarted
    /\ deaths \in [Accounts -> 0 .. MaxDeaths]
    /\ \A d \in Docs : /\ doc[d].owner \in exists \cup {NoAccount}
                       /\ doc[d].status \in {"none", "pending", "approved",
                                             "rejected"}
                       /\ doc[d].status = "none" <=> doc[d].owner = NoAccount
    /\ tier \in [Accounts -> {0, 1}]
    /\ identity \subseteq Persons \X exists
    /\ frozen \subseteq exists
    /\ flags \in [Accounts -> Nat]
    /\ verdict \in [Accounts -> {"none", "freeze", "unfreeze"}]

StandingInit ==
    /\ CodesInit
    /\ call = [c \in Calls |-> Idle] /\ started = 0
    /\ deaths = [a \in Accounts |-> 0]
    /\ doc = [d \in Docs |-> NoDoc]
    /\ tier = [a \in Accounts |-> 0]
    /\ identity = {}
    /\ frozen = {} /\ flags = [a \in Accounts |-> 0]
    /\ verdict = [a \in Accounts |-> "none"]

-----------------------------------------------------------------------------
(* Documents. *)

Pending(a) == \E d \in Docs : doc[d].owner = a /\ doc[d].status = "pending"

SubmitCheck(c, a) ==
    /\ a \in exists /\ ~Pending(a)
    /\ Starts(c, "submit", a, NoItem)
    /\ UNCHANGED <<codeVars, standingVars>>

\* By now another submission may be pending.
SubmitInsert(c, d) ==
    /\ At(c, "submit") /\ doc[d] = NoDoc
    /\ doc' = [doc EXCEPT ![d] = [owner |-> Of(c), status |-> "pending"]]
    /\ Ends(c)
    /\ UNCHANGED <<codeVars, tier, identity, frozen, flags, verdict>>

Reviewable_Any(d) == doc[d].status # "none"  \* mutant: an unconditional UPDATE
Reviewable(d) == doc[d].status = "pending"

\* review claims the submission; approved, it goes on to raise the tier.
Approve(c, d) ==
    /\ Reviewable(d)
    /\ doc' = [doc EXCEPT ![d].status = "approved"]
    /\ Starts(c, "raise", doc[d].owner, NoItem)
    /\ UNCHANGED <<codeVars, tier, identity, frozen, flags, verdict>>

Reject(d) ==
    /\ Reviewable(d)
    /\ doc' = [doc EXCEPT ![d].status = "rejected"]
    /\ UNCHANGED <<codeVars, callVars, tier, identity, frozen, flags, verdict>>

RaiseTier(c) ==
    /\ At(c, "raise")
    /\ tier' = [tier EXCEPT ![Of(c)] = 1]
    /\ Ends(c)
    /\ UNCHANGED <<codeVars, doc, identity, frozen, flags, verdict>>
-----------------------------------------------------------------------------
(* Fayda.  A flow's state, pending profile and handoff live in Redis and    *)
(* are taken by GETDEL or by the DEL that finds them: one call is one flow. *)

HasIdentity(a) == \E p \in Persons : <<p, a>> \in identity
Elsewhere(p, a) == \E b \in Accounts \ {a} : <<p, b>> \in identity

\* start: to link an account that has no identity yet, or to sign in.
StartLink(c, a) ==
    /\ a \in exists /\ ~HasIdentity(a)
    /\ Starts(c, "fayda", a, NoItem)
    /\ UNCHANGED <<codeVars, standingVars>>

StartSignIn(c) ==
    /\ Starts(c, "fayda", NoAccount, NoItem)
    /\ UNCHANGED <<codeVars, standingVars>>

\* callback, somebody having proven to Fayda that they are p: a known person is
\* signed in or refused, another goes on to attach, to the Mini App that must
\* confirm the handoff, or to a page that asks for an email.
Callback(c, p) ==
    LET a == Of(c)
        known == \E b \in Accounts : <<p, b>> \in identity
    IN
    /\ At(c, "fayda")
    /\ IF known THEN Ends(c)
       ELSE IF a = NoAccount THEN Goes(c, "profile", a, p)
       ELSE Goes(c, "attach", a, p) \/ Goes(c, "parked", a, p)
    /\ UNCHANGED <<codeVars, standingVars>>

CommitHandoff(c) ==
    /\ At(c, "parked")
    /\ IF \E b \in Accounts : <<Item(c), b>> \in identity THEN Ends(c)
       ELSE Goes(c, "attach", Of(c), Item(c))
    /\ UNCHANGED <<codeVars, standingVars>>

\* complete inserts the account before it attaches the identity.
Complete(c, a) ==
    /\ At(c, "profile") /\ a \notin exists
    /\ exists' = exists \cup {a}
    /\ Goes(c, "attach", a, Item(c))
    /\ UNCHANGED <<codes, guesses, verified, standingVars>>

Unbound_Person(p, a) == ~Elsewhere(p, a)  \* mutant: no index on the account
Unbound_Account(p, a) == ~HasIdentity(a)  \* mutant: no index on the person
Unbound(p, a) == ~HasIdentity(a) /\ ~Elsewhere(p, a)

\* One transaction, or a unique index refuses it.
Attach(c) ==
    LET p == Item(c)
        a == Of(c)
    IN
    /\ At(c, "attach")
    /\ IF Unbound(p, a)
       THEN /\ identity' = identity \cup {<<p, a>>}
            /\ tier' = [tier EXCEPT ![a] = 1]
       ELSE UNCHANGED <<identity, tier>>
    /\ Ends(c)
    /\ UNCHANGED <<codeVars, doc, frozen, flags, verdict>>
-----------------------------------------------------------------------------
(* Freezes. *)

\* Staff, or the transaction of a reversed deposit, find no open flag ...
FreezeCheck(c, a) ==
    /\ a \in exists /\ flags[a] = 0
    /\ Starts(c, "freeze", a, NoItem)
    /\ UNCHANGED <<codeVars, standingVars>>

\* ... and commit flag and status together; meanwhile others may have, too.
Freeze(c) ==
    /\ At(c, "freeze")
    /\ flags' = [flags EXCEPT ![Of(c)] = @ + 1]
    /\ frozen' = frozen \cup {Of(c)}
    /\ verdict' = [verdict EXCEPT ![Of(c)] = "freeze"]
    /\ Ends(c)
    /\ UNCHANGED <<codeVars, doc, tier, identity>>

Lifted_One(n) == n - 1  \* mutant: lifts one flag
Lifted(n) == 0

\* unfreeze: the flags ...
LiftFlags(c, a) ==
    /\ flags[a] > 0
    /\ flags' = [flags EXCEPT ![a] = Lifted(@)]
    /\ verdict' = [verdict EXCEPT ![a] = "unfreeze"]
    /\ Starts(c, "activate", a, NoItem)
    /\ UNCHANGED <<codeVars, doc, tier, identity, frozen>>

\* ... then the status, whoever has frozen the account in between.
Activate(c) ==
    /\ At(c, "activate")
    /\ frozen' = frozen \ {Of(c)}
    /\ Ends(c)
    /\ UNCHANGED <<codeVars, doc, tier, identity, flags, verdict>>

IsFrozen_Status(a) == a \in frozen  \* mutant: one of the two signals
IsFrozen(a) == a \in frozen \/ flags[a] > 0

\* accountGate and isFrozen together.
MayMoveMoney(a) == a \in verified /\ tier[a] >= 1 /\ ~IsFrozen(a)
-----------------------------------------------------------------------------
StandingStep ==
    \/ \E c \in Calls :
         \/ \E a \in Accounts :
              \/ SubmitCheck(c, a) \/ StartLink(c, a) \/ Complete(c, a)
              \/ FreezeCheck(c, a) \/ LiftFlags(c, a)
         \/ \E d \in Docs : SubmitInsert(c, d) \/ Approve(c, d)
         \/ \E p \in Persons : Callback(c, p)
         \/ RaiseTier(c) \/ StartSignIn(c) \/ CommitHandoff(c) \/ Attach(c)
         \/ Freeze(c) \/ Activate(c)
    \/ \E d \in Docs : Reject(d)

StandingNext ==
    \/ StandingStep
    \/ CodesStep /\ UNCHANGED standingVars

StandingSpec == StandingInit /\ [][StandingNext]_allVars
-----------------------------------------------------------------------------
(* Properties. *)

Approved(a) == \E d \in Docs : doc[d].owner = a /\ doc[d].status = "approved"

\* A person's identity that no other account, and no other person, shares.
OwnIdentity(a) ==
    \E p \in Persons : /\ <<p, a>> \in identity /\ ~Elsewhere(p, a)
                       /\ \A q \in Persons \ {p} : <<q, a>> \notin identity

\* An account with a tier was approved by a review that still stands or is the
\* one account of one person, and an account frozen by the last decision is
\* barred: whatever submissions, reviews, links, freezes and lifts overlapped.
StandingIsEarned ==
    \A a \in Accounts :
        /\ tier[a] >= 1 => Approved(a) \/ OwnIdentity(a)
        /\ verdict[a] = "freeze" => IsFrozen(a)

\* Once no call is at work on an account, and if none of its calls died, what
\* was decided is in force: an approved one has its tier, one unfrozen last is
\* free again and can be frozen again, one frozen last is not.
DecisionsTakeEffect ==
    \A a \in Accounts :
        deaths[a] = 0 /\ (\A c \in Calls : Of(c) # a) =>
            /\ Approved(a) => tier[a] = 1
            /\ verdict[a] # "none" => (IsFrozen(a) <=> verdict[a] = "freeze")
=============================================================================
