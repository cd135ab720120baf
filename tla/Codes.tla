-------------------------------- MODULE Codes --------------------------------
(***************************************************************************)
(* Registration and the six-digit codes that prove an email address.       *)
(* Issuing a code takes five statements, consuming one takes a read and an *)
(* UPDATE, and calls of one account interleave: a code is retired while    *)
(* another call is guessing it, several guesses read one attempt count, a  *)
(* code may be read before its hash is in place.                           *)
(*                                                                         *)
(* Codes expire (Expire); a row never leaves the rate's window of 15       *)
(* minutes, so IssueLimit bounds the codes of an account.                  *)
(***************************************************************************)
EXTENDS Naturals, FiniteSets, Sequences

CONSTANTS
    Accounts,     \* user rows
    Calls,        \* calls under way
    NoAccount,    \* account of an idle call
    MaxAttempts,  \* MAX_ATTEMPTS
    IssueLimit,   \* ISSUE_LIMIT
    MaxStarted,   \* bound on the calls started
    MaxDeaths     \* bound on the calls that die

ASSUME CodesAssumption ==
    /\ NoAccount \notin Accounts
    /\ IsFiniteSet(Calls) /\ Calls # {}
    /\ {MaxAttempts, IssueLimit} \subseteq Nat \ {0}
    /\ MaxStarted \in Nat /\ MaxDeaths \in Nat

VARIABLES
    exists,    \* the accounts there are
    codes,     \* each account's code rows, oldest first
    guesses,   \* per account: the wrong guesses made at each of its codes
    verified,  \* accounts with email_verified_at
    call,      \* the calls
    started,   \* calls started so far
    deaths     \* calls that died, per account

codeVars == <<exists, codes, guesses, verified>>
callVars == <<call, started, deaths>>

NewCode == [hashed |-> FALSE, live |-> TRUE, used |-> FALSE, attempts |-> 0]

CodesInit ==
    /\ exists = {}
    /\ codes = [a \in Accounts |-> <<>>]
    /\ guesses = [a \in Accounts |-> <<>>]
    /\ verified = {}

CodesTypeOK ==
    /\ exists \subseteq Accounts /\ verified \subseteq exists
    /\ codes \in [Accounts -> Seq([hashed : BOOLEAN, live : BOOLEAN,
                                   used : BOOLEAN, attempts : Nat])]
    /\ guesses \in [Accounts -> Seq(Nat)]
    /\ \A a \in Accounts :
         /\ Len(guesses[a]) = Len(codes[a])
         /\ Len(codes[a]) < IssueLimit + Cardinality(Calls)
-----------------------------------------------------------------------------
(* A call is at one place, for one account, about one item: a code, a       *)
(* document, a person.                                                      *)

NoItem == 0
Idle == [at |-> "idle", account |-> NoAccount, item |-> NoItem]

At(c, place) == call[c].at = place
Of(c) == call[c].account
Item(c) == call[c].item
Goes(c, place, a, item) ==
    /\ call' = [call EXCEPT ![c] = [at |-> place, account |-> a, item |-> item]]
    /\ UNCHANGED <<started, deaths>>
Starts(c, place, a, item) ==
    /\ call[c] = Idle /\ started < MaxStarted
    /\ call' = [call EXCEPT ![c] = [at |-> place, account |-> a, item |-> item]]
    /\ started' = started + 1
    /\ UNCHANGED deaths
Ends(c) == call' = [call EXCEPT ![c] = Idle] /\ UNCHANGED <<started, deaths>>

\* The process dies: what the call has written stays, the rest never happens.
CallDies(c) ==
    /\ call[c] # Idle /\ Of(c) # NoAccount /\ deaths[Of(c)] < MaxDeaths
    /\ deaths' = [deaths EXCEPT ![Of(c)] = @ + 1]
    /\ call' = [call EXCEPT ![c] = Idle]
    /\ UNCHANGED <<started, codeVars>>
-----------------------------------------------------------------------------
(* issue. *)

\* register inserts the account and issues its first code.
Register(c, a) ==
    /\ a \notin exists
    /\ exists' = exists \cup {a}
    /\ Starts(c, "retire", a, NoItem)
    /\ UNCHANGED <<codes, guesses, verified>>

RecentCodes_Live(a) ==  \* mutant: only codes still live count
    Cardinality({i \in DOMAIN codes[a] : codes[a][i].live /\ ~codes[a][i].used})
RecentCodes(a) == Len(codes[a])

\* sendEmailCode, with the rate check of issue.
AskCode(c, a) ==
    /\ a \in exists \ verified
    /\ RecentCodes(a) < IssueLimit
    /\ Starts(c, "retire", a, NoItem)
    /\ UNCHANGED codeVars

RetireOlder(c) ==
    /\ At(c, "retire")
    /\ codes' = [codes EXCEPT ![Of(c)] =
         [i \in DOMAIN @ |-> IF @[i].used THEN @[i]
                             ELSE [@[i] EXCEPT !.live = FALSE]]]
    /\ Goes(c, "code", Of(c), NoItem)
    /\ UNCHANGED <<exists, guesses, verified>>

InsertCode(c) ==
    /\ At(c, "code")
    /\ codes' = [codes EXCEPT ![Of(c)] = Append(@, NewCode)]
    /\ guesses' = [guesses EXCEPT ![Of(c)] = Append(@, 0)]
    /\ Goes(c, "hash", Of(c), Len(codes[Of(c)]) + 1)
    /\ UNCHANGED <<exists, verified>>

\* The hash needs the row's id.  The mail follows; whether it arrives makes no
\* difference to the rows.
SetHash(c) ==
    /\ At(c, "hash")
    /\ codes' = [codes EXCEPT ![Of(c)][Item(c)].hashed = TRUE]
    /\ Ends(c)
    /\ UNCHANGED <<exists, guesses, verified>>

Expire(a) ==
    /\ codes[a] # <<>> /\ codes[a][Len(codes[a])].live
    /\ codes' = [codes EXCEPT ![a][Len(codes[a])].live = FALSE]
    /\ UNCHANGED <<exists, guesses, verified, callVars>>
-----------------------------------------------------------------------------
(* verifyEmail and consume. *)

Locked_Beyond(row) == row.attempts > MaxAttempts  \* mutant: off by one
Locked(row) == row.attempts >= MaxAttempts
Open(row) == row.live /\ ~row.used /\ ~Locked(row)

\* The newest row is read and compared; a refusal changes nothing.
Guess(c, a, right) ==
    LET newest == Len(codes[a]) IN
    /\ a \in exists \ verified
    /\ newest > 0 /\ Open(codes[a][newest])
    /\ right => codes[a][newest].hashed
    /\ Starts(c, IF right THEN "use" ELSE "bump", a, newest)
    /\ guesses' = [guesses EXCEPT ![a][newest] = @ + (IF right THEN 0 ELSE 1)]
    /\ UNCHANGED <<exists, codes, verified>>

Bump(c) ==
    /\ At(c, "bump")
    /\ codes' = [codes EXCEPT ![Of(c)][Item(c)].attempts = @ + 1]
    /\ Ends(c)
    /\ UNCHANGED <<exists, guesses, verified>>

\* Conditional on its not having been used, and on nothing else by now.
UseCode(c) ==
    /\ At(c, "use")
    /\ IF codes[Of(c)][Item(c)].used
       THEN Ends(c) /\ UNCHANGED codes
       ELSE /\ codes' = [codes EXCEPT ![Of(c)][Item(c)].used = TRUE]
            /\ Goes(c, "verify", Of(c), NoItem)
    /\ UNCHANGED <<exists, guesses, verified>>

SetVerified(c) ==
    /\ At(c, "verify")
    /\ verified' = verified \cup {Of(c)}
    /\ Ends(c)
    /\ UNCHANGED <<exists, codes, guesses>>

CodesStep ==
    \/ \E c \in Calls :
         \/ \E a \in Accounts : \/ Register(c, a) \/ AskCode(c, a)
                                \/ \E right \in BOOLEAN : Guess(c, a, right)
         \/ RetireOlder(c) \/ InsertCode(c) \/ SetHash(c)
         \/ Bump(c) \/ UseCode(c) \/ SetVerified(c) \/ CallDies(c)
    \/ \E a \in Accounts : Expire(a)
-----------------------------------------------------------------------------
(* Properties. *)

\* "The fifth wrong attempt kills the code": checked before it is counted, the
\* limit is passed by the guesses that are under way when it is reached and by
\* those whose call died before it counted them, and by no more.
GuessesBounded ==
    \A a \in Accounts : \A i \in DOMAIN guesses[a] :
        guesses[a][i] <= MaxAttempts + Cardinality(Calls) - 1 + deaths[a]
=============================================================================
