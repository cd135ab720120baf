--------------------------- MODULE StandingProofs ---------------------------
(***************************************************************************)
(* Theorems about the emailed codes and about who may move money: for any  *)
(* number of accounts, calls, documents and persons, and any bounds.       *)
(***************************************************************************)
EXTENDS Standing, FiniteSetTheorems, SequenceTheorems, TLAPS

-----------------------------------------------------------------------------
(* The shape of the state. *)

CodeRows == [hashed : BOOLEAN, live : BOOLEAN, used : BOOLEAN, attempts : Nat]
CallRecords == [at : CallPlaces, account : Accounts \cup {NoAccount},
                item : Nat \cup Persons]

RowsFit ==
    /\ exists \subseteq Accounts /\ verified \subseteq exists
    /\ codes \in [Accounts -> Seq(CodeRows)]
    /\ guesses \in [Accounts -> Seq(Nat)]
    /\ \A a \in Accounts : /\ Len(guesses[a]) = Len(codes[a])
                           /\ a \notin exists => Len(codes[a]) = 0

\* A call is for an account there is, about a code there is or a person.
CallsFit ==
    /\ call \in [Calls -> CallRecords]
    /\ \A c \in Calls :
         /\ Of(c) \in exists \cup {NoAccount}
         /\ call[c].at \notin {"idle", "fayda", "profile"} => Of(c) \in exists
         /\ call[c].at \in {"hash", "bump", "use"}
              => Item(c) \in 1 .. Len(codes[Of(c)])
         /\ call[c].at \in {"profile", "parked", "attach"}
              => Item(c) \in Persons

CountsFit == started \in 0 .. MaxStarted /\ deaths \in [Accounts -> 0 .. MaxDeaths]

StandingFit ==
    /\ doc \in [Docs -> [owner : Accounts \cup {NoAccount},
                         status : {"none", "pending", "approved", "rejected"}]]
    /\ \A d \in Docs : /\ doc[d].owner \in exists \cup {NoAccount}
                       /\ doc[d].status = "none" <=> doc[d].owner = NoAccount
    /\ tier \in [Accounts -> {0, 1}]
    /\ identity \subseteq Persons \X exists
    /\ frozen \subseteq exists
    /\ flags \in [Accounts -> Nat]
    /\ \A a \in Accounts \ exists : flags[a] = 0
    /\ verdict \in [Accounts -> {"none", "freeze", "unfreeze"}]

CodesFit == RowsFit /\ CallsFit /\ CountsFit
Fit == CodesFit /\ StandingFit

\* The initial state has the shape.
LEMMA InitFit == StandingInit => Fit
<1> SUFFICES ASSUME StandingInit PROVE Fit
  OBVIOUS
<1> USE CodesAssumption DEF StandingInit, CodesInit, Of, Item
<1>1. RowsFit
  <2>1. <<>> \in Seq(CodeRows) /\ <<>> \in Seq(Nat) /\ Len(<<>>) = 0
    OBVIOUS
  <2> QED
    BY <2>1 DEF RowsFit
<1>2. CallsFit
  BY DEF CallsFit, CallRecords, CallPlaces, Idle, NoItem
<1>3. CountsFit
  BY DEF CountsFit
<1>4. StandingFit
  BY DEF StandingFit, NoDoc
<1> QED
  BY <1>1, <1>2, <1>3, <1>4 DEF Fit, CodesFit

\* Accounts and codes never go away.
Grown == /\ exists \subseteq exists'
         /\ \A a \in Accounts : 1 .. Len(codes[a]) \subseteq 1 .. Len(codes'[a])

\* No guess is made or counted.
SameCounts ==
    \A a \in Accounts : \A i \in 1 .. Len(codes'[a]) :
        \/ /\ i \in 1 .. Len(codes[a])
           /\ codes'[a][i].attempts = codes[a][i].attempts
           /\ guesses'[a][i] = guesses[a][i]
        \/ guesses'[a][i] = 0

\* One call moves; accounts and codes never go away.
LEMMA CallsMove ==
  ASSUME CallsFit, NEW c \in Calls, NEW r \in CallRecords,
         call' = [call EXCEPT ![c] = r],
         RowsFit, Grown,
         r.account \in exists' \cup {NoAccount},
         r.at \notin {"idle", "fayda", "profile"} => r.account \in exists',
         r.at \in {"hash", "bump", "use"}
           => r.item \in 1 .. Len(codes'[r.account]),
         r.at \in {"profile", "parked", "attach"} => r.item \in Persons
  PROVE  CallsFit'
<1>1. call' \in [Calls -> CallRecords]
  BY DEF CallsFit
<1>2. ASSUME NEW b \in Calls, b # c PROVE call'[b] = call[b]
  BY <1>2 DEF CallsFit
<1>3. call'[c] = r
  BY DEF CallsFit
<1>4. ASSUME NEW b \in Calls
      PROVE  /\ call'[b].account \in exists' \cup {NoAccount}
             /\ call'[b].at \notin {"idle", "fayda", "profile"}
                  => call'[b].account \in exists'
             /\ call'[b].at \in {"hash", "bump", "use"}
                  => call'[b].item \in 1 .. Len(codes'[call'[b].account])
             /\ call'[b].at \in {"profile", "parked", "attach"}
                  => call'[b].item \in Persons
  <2>1. CASE b = c
    BY <1>3, <2>1
  <2>2. CASE b # c
    BY <1>2, <2>2 DEF CallsFit, RowsFit, Of, Item, Grown
  <2> QED
    BY <2>1, <2>2
<1> QED
  BY <1>1, <1>4 DEF CallsFit, Of, Item

\* The same without a call's moving.
LEMMA CallsStay ==
  ASSUME RowsFit, CallsFit, UNCHANGED call, Grown
  PROVE  CallsFit'
BY DEF RowsFit, CallsFit, Of, Item, Grown

\* The same when it ends.
LEMMA CallEnds ==
  ASSUME RowsFit, CallsFit, NEW c \in Calls, Ends(c), Grown
  PROVE  CallsFit'
<1>1. Idle \in CallRecords
  BY DEF Idle, CallRecords, CallPlaces, NoItem
<1> QED
  BY <1>1, CallsMove DEF Ends, Idle

\* One code row of an account changes.
LEMMA OneCodeChanges ==
  ASSUME RowsFit, NEW a \in Accounts, NEW i \in 1 .. Len(codes[a]),
         NEW r \in CodeRows,
         codes' = [codes EXCEPT ![a] = [codes[a] EXCEPT ![i] = r]],
         UNCHANGED <<exists, guesses>>, verified' \subseteq exists
  PROVE  /\ RowsFit'
         /\ \A b \in Accounts : Len(codes'[b]) = Len(codes[b])
         /\ \A b \in Accounts : \A j \in 1 .. Len(codes[b]) :
              codes'[b][j] = IF b = a /\ j = i THEN r ELSE codes[b][j]
<1>1. codes[a] \in Seq(CodeRows)
  BY DEF RowsFit
<1>2. /\ [codes[a] EXCEPT ![i] = r] \in Seq(CodeRows)
      /\ Len([codes[a] EXCEPT ![i] = r]) = Len(codes[a])
      /\ \A j \in 1 .. Len(codes[a]) :
           [codes[a] EXCEPT ![i] = r][j] = IF j = i THEN r ELSE codes[a][j]
  BY <1>1, ExceptSeq
<1>3. \A b \in Accounts :
        codes'[b] = IF b = a THEN [codes[a] EXCEPT ![i] = r] ELSE codes[b]
  BY DEF RowsFit
<1>4. codes' \in [Accounts -> Seq(CodeRows)]
  BY <1>2 DEF RowsFit
<1> QED
  BY <1>2, <1>3, <1>4 DEF RowsFit

\* One code's count of wrong guesses changes.
LEMMA OneCountChanges ==
  ASSUME RowsFit, NEW a \in Accounts, NEW i \in 1 .. Len(codes[a]),
         NEW k \in Nat,
         guesses' = [guesses EXCEPT ![a] = [guesses[a] EXCEPT ![i] = k]],
         UNCHANGED <<exists, codes, verified>>
  PROVE  /\ RowsFit'
         /\ \A b \in Accounts : \A j \in 1 .. Len(codes[b]) :
              guesses'[b][j] = IF b = a /\ j = i THEN k ELSE guesses[b][j]
<1>1. guesses[a] \in Seq(Nat) /\ i \in 1 .. Len(guesses[a])
  BY DEF RowsFit
<1>2. /\ [guesses[a] EXCEPT ![i] = k] \in Seq(Nat)
      /\ Len([guesses[a] EXCEPT ![i] = k]) = Len(guesses[a])
      /\ \A j \in 1 .. Len(guesses[a]) :
           [guesses[a] EXCEPT ![i] = k][j] = IF j = i THEN k ELSE guesses[a][j]
  BY <1>1, ExceptSeq
<1>3. \A b \in Accounts :
        guesses'[b] = IF b = a THEN [guesses[a] EXCEPT ![i] = k] ELSE guesses[b]
  BY DEF RowsFit
<1>4. guesses' \in [Accounts -> Seq(Nat)]
  BY <1>2 DEF RowsFit
<1> QED
  BY <1>2, <1>3, <1>4 DEF RowsFit

-----------------------------------------------------------------------------
(* The steps of registration and of the codes keep the shape, and all but   *)
(* Guess and Bump the counts of the guesses.                                *)

\* register and sendEmailCode start a call; a new account has no codes yet.
LEMMA RegisterFit ==
  ASSUME CodesFit, NEW c \in Calls, NEW a \in Accounts,
         Register(c, a) \/ AskCode(c, a)
  PROVE  CodesFit' /\ Grown /\ SameCounts
<1> USE CodesAssumption DEF CodesFit, NoItem
<1>1. RowsFit' /\ CountsFit' /\ Grown /\ SameCounts
  <2>1. UNCHANGED <<codes, guesses>> /\ exists \subseteq exists'
    BY DEF Register, AskCode, codeVars
  <2>2. Grown /\ SameCounts
    BY <2>1 DEF Grown, SameCounts
  <2>3. CountsFit'
    BY DEF Register, AskCode, Starts, CountsFit
  <2>4. RowsFit'
    BY DEF Register, AskCode, codeVars, RowsFit
  <2> QED
    BY <2>2, <2>3, <2>4
<1>2. [at |-> "retire", account |-> a, item |-> 0] \in CallRecords
  BY DEF CallRecords, CallPlaces
<1>3. /\ call' = [call EXCEPT ![c] =
                     [at |-> "retire", account |-> a, item |-> 0]]
      /\ a \in exists'
  BY DEF Register, AskCode, Starts, codeVars, RowsFit
<1>4. CallsFit'
  BY <1>1, <1>2, <1>3, CallsMove
<1> QED
  BY <1>1, <1>4

\* Retiring the older codes touches only whether they are live.
LEMMA RetireFit ==
  ASSUME CodesFit, NEW c \in Calls, RetireOlder(c)
  PROVE  CodesFit' /\ Grown /\ SameCounts
<1> USE CodesAssumption DEF CodesFit, NoItem
<1> DEFINE a == Of(c)
           s == codes[a]
           t == [i \in DOMAIN s |-> IF s[i].used THEN s[i]
                                    ELSE [s[i] EXCEPT !.live = FALSE]]
<1>1. /\ At(c, "retire") /\ codes' = [codes EXCEPT ![a] = t]
      /\ Goes(c, "code", a, 0) /\ UNCHANGED <<exists, guesses, verified>>
  BY DEF RetireOlder
<1>2. a \in exists /\ a \in Accounts /\ s \in Seq(CodeRows)
  BY <1>1 DEF At, CallsFit, RowsFit
<1>3. \A i \in 1 .. Len(s) : s[i] \in CodeRows
  BY <1>2, ElementOfSeq
<1>4. DOMAIN s = 1 .. Len(s) /\ Len(s) \in Nat
  BY <1>2, LenProperties
<1>5. /\ t \in Seq(CodeRows) /\ Len(t) = Len(s)
      /\ \A i \in 1 .. Len(s) : t[i].attempts = s[i].attempts
  <2>1. \A i \in 1 .. Len(s) : t[i] \in CodeRows
    BY <1>3, <1>4 DEF CodeRows
  <2>2. t \in [1 .. Len(s) -> CodeRows]
    BY <1>4, <2>1
  <2>3. \A i \in 1 .. Len(s) : t[i].attempts = s[i].attempts
    BY <1>3, <1>4 DEF CodeRows
  <2> HIDE DEF t
  <2> QED
    BY <1>4, <2>2, <2>3
<1> HIDE DEF t
<1>6. RowsFit' /\ CountsFit' /\ Grown /\ SameCounts
  BY <1>1, <1>5 DEF Goes, RowsFit, CountsFit, Grown, SameCounts
<1>7. [at |-> "code", account |-> a, item |-> 0] \in CallRecords
  BY <1>2 DEF CallRecords, CallPlaces
<1>8. CallsFit'
  BY <1>1, <1>2, <1>6, <1>7, CallsMove DEF Goes
<1> QED
  BY <1>6, <1>8

\* A new code has no attempts and no guesses.
LEMMA InsertFit ==
  ASSUME CodesFit, NEW c \in Calls, InsertCode(c)
  PROVE  CodesFit' /\ Grown /\ SameCounts
<1> USE CodesAssumption DEF CodesFit
<1> DEFINE a == Of(c)
           n == Len(codes[a])
<1>1. /\ At(c, "code") /\ codes' = [codes EXCEPT ![a] = Append(codes[a], NewCode)]
      /\ guesses' = [guesses EXCEPT ![a] = Append(guesses[a], 0)]
      /\ Goes(c, "hash", a, n + 1) /\ UNCHANGED <<exists, verified>>
  BY DEF InsertCode
<1>2. /\ a \in exists /\ a \in Accounts /\ codes[a] \in Seq(CodeRows)
      /\ guesses[a] \in Seq(Nat) /\ Len(guesses[a]) = n /\ n \in Nat
  <2>1. a \in exists /\ a \in Accounts
    BY <1>1 DEF At, CallsFit, RowsFit
  <2>2. codes[a] \in Seq(CodeRows) /\ guesses[a] \in Seq(Nat)
    BY <2>1 DEF RowsFit
  <2> QED
    BY <2>1, <2>2, LenProperties DEF RowsFit
<1>3. NewCode \in CodeRows
  BY DEF NewCode, CodeRows
<1>4. /\ Append(codes[a], NewCode) \in Seq(CodeRows)
      /\ Len(Append(codes[a], NewCode)) = n + 1
      /\ \A i \in 1 .. n : Append(codes[a], NewCode)[i] = codes[a][i]
  BY <1>2, <1>3, AppendProperties
<1>5. /\ Append(guesses[a], 0) \in Seq(Nat)
      /\ Len(Append(guesses[a], 0)) = n + 1
      /\ \A i \in 1 .. n : Append(guesses[a], 0)[i] = guesses[a][i]
      /\ Append(guesses[a], 0)[n + 1] = 0
  BY <1>2, AppendProperties
<1>6. RowsFit' /\ CountsFit' /\ Grown
  BY <1>1, <1>2, <1>4, <1>5 DEF Goes, RowsFit, CountsFit, Grown
<1>7. SameCounts
  BY <1>1, <1>2, <1>4, <1>5 DEF RowsFit, SameCounts
<1>8. [at |-> "hash", account |-> a, item |-> n + 1] \in CallRecords
  BY <1>2 DEF CallRecords, CallPlaces
<1>9. CallsFit'
  <2>1. n + 1 \in 1 .. Len(codes'[a])
    BY <1>1, <1>2, <1>4 DEF RowsFit
  <2> HIDE DEF n
  <2> QED
    BY <1>1, <1>2, <1>6, <1>8, <2>1, CallsMove DEF Goes
<1> QED
  BY <1>6, <1>7, <1>9

\* One code changes, and not its attempts.
LEMMA OneCodeRows ==
  ASSUME RowsFit, NEW a \in Accounts, NEW i \in 1 .. Len(codes[a]),
         NEW r \in CodeRows, r.attempts = codes[a][i].attempts,
         codes' = [codes EXCEPT ![a] = [codes[a] EXCEPT ![i] = r]],
         UNCHANGED <<exists, guesses, verified>>
  PROVE  RowsFit' /\ Grown /\ SameCounts
<1>1. /\ RowsFit' /\ \A b \in Accounts : Len(codes'[b]) = Len(codes[b])
      /\ \A b \in Accounts : \A j \in 1 .. Len(codes[b]) :
           codes'[b][j] = IF b = a /\ j = i THEN r ELSE codes[b][j]
  BY OneCodeChanges DEF RowsFit
<1> QED
  BY <1>1 DEF Grown, SameCounts

\* The same by a call that ends with it.
LEMMA OneCodeFit ==
  ASSUME CodesFit, NEW c \in Calls, Ends(c),
         NEW a \in Accounts, NEW i \in 1 .. Len(codes[a]),
         NEW r \in CodeRows, r.attempts = codes[a][i].attempts,
         codes' = [codes EXCEPT ![a] = [codes[a] EXCEPT ![i] = r]],
         UNCHANGED <<exists, guesses, verified>>
  PROVE  CodesFit' /\ Grown /\ SameCounts
<1>1. RowsFit' /\ Grown /\ SameCounts
  BY OneCodeRows DEF CodesFit
<1> QED
  BY <1>1, CallEnds DEF CodesFit, CountsFit, Ends

\* A call ends that changes no code.
LEMMA SameCodesFit ==
  ASSUME CodesFit, NEW c \in Calls, Ends(c), UNCHANGED <<exists, codes, guesses>>,
         verified' \subseteq exists
  PROVE  CodesFit' /\ Grown /\ SameCounts
<1>1. RowsFit' /\ Grown /\ SameCounts
  BY DEF CodesFit, RowsFit, Grown, SameCounts
<1> QED
  BY <1>1, CallEnds DEF CodesFit, CountsFit, Ends

\* The hash is set on the row the call inserted.
LEMMA SetHashFit ==
  ASSUME CodesFit, NEW c \in Calls, SetHash(c)
  PROVE  CodesFit' /\ Grown /\ SameCounts
<1> DEFINE a == Of(c)
           i == Item(c)
           r == [codes[a][i] EXCEPT !.hashed = TRUE]
<1>1. /\ At(c, "hash") /\ Ends(c) /\ UNCHANGED <<exists, guesses, verified>>
      /\ codes' = [codes EXCEPT ![a] = [codes[a] EXCEPT ![i] = r]]
  BY DEF SetHash
<1>2. a \in Accounts /\ i \in 1 .. Len(codes[a]) /\ codes[a] \in Seq(CodeRows)
  BY <1>1 DEF At, CodesFit, CallsFit, RowsFit
<1>3. codes[a][i] \in CodeRows
  BY <1>2, ElementOfSeq
<1>4. r \in CodeRows /\ r.attempts = codes[a][i].attempts
  BY <1>3 DEF CodeRows
<1> HIDE DEF a, i, r
<1> QED
  BY <1>1, <1>2, <1>4, OneCodeFit

\* A code is used, or its call ends because it was used before.
LEMMA UseCodeFit ==
  ASSUME CodesFit, NEW c \in Calls, UseCode(c)
  PROVE  CodesFit' /\ Grown /\ SameCounts
<1> DEFINE a == Of(c)
           i == Item(c)
           r == [codes[a][i] EXCEPT !.used = TRUE]
<1>1. /\ At(c, "use") /\ UNCHANGED <<exists, guesses, verified>>
      /\ \/ Ends(c) /\ UNCHANGED codes
         \/ /\ codes' = [codes EXCEPT ![a] = [codes[a] EXCEPT ![i] = r]]
            /\ Goes(c, "verify", a, 0)
  BY DEF UseCode, NoItem
<1>2. /\ a \in exists /\ a \in Accounts /\ i \in 1 .. Len(codes[a])
      /\ codes[a] \in Seq(CodeRows)
  BY <1>1 DEF At, CodesFit, CallsFit, RowsFit
<1>3. codes[a][i] \in CodeRows
  BY <1>2, ElementOfSeq
<1>4. r \in CodeRows /\ r.attempts = codes[a][i].attempts
  BY <1>3 DEF CodeRows
<1>5. CASE Ends(c) /\ UNCHANGED codes
  BY <1>1, <1>5, SameCodesFit DEF CodesFit, RowsFit
<1>6. CASE /\ codes' = [codes EXCEPT ![a] = [codes[a] EXCEPT ![i] = r]]
           /\ Goes(c, "verify", a, 0)
  <2>1. [at |-> "verify", account |-> a, item |-> 0] \in CallRecords
    BY <1>2 DEF CallRecords, CallPlaces
  <2> HIDE DEF a, i, r
  <2>2. RowsFit' /\ Grown /\ SameCounts
    BY <1>1, <1>2, <1>4, <1>6, OneCodeRows DEF CodesFit
  <2>3. CallsFit'
    BY <1>1, <1>2, <1>6, <2>1, <2>2, CallsMove DEF CodesFit, Goes
  <2> QED
    BY <1>6, <2>2, <2>3 DEF CodesFit, CountsFit, Goes
<1> QED
  BY <1>1, <1>5, <1>6

\* A code expires.
LEMMA ExpireFit ==
  ASSUME CodesFit, NEW a \in Accounts, Expire(a)
  PROVE  CodesFit' /\ Grown /\ SameCounts
<1> DEFINE i == Len(codes[a])
           r == [codes[a][i] EXCEPT !.live = FALSE]
<1>1. /\ codes[a] # <<>> /\ UNCHANGED <<exists, guesses, verified, callVars>>
      /\ codes' = [codes EXCEPT ![a] = [codes[a] EXCEPT ![i] = r]]
  BY DEF Expire
<1>2. codes[a] \in Seq(CodeRows) /\ i \in 1 .. Len(codes[a])
  BY <1>1, LenProperties, EmptySeq DEF CodesFit, RowsFit
<1>3. codes[a][i] \in CodeRows
  BY <1>2, ElementOfSeq
<1>4. r \in CodeRows /\ r.attempts = codes[a][i].attempts
  BY <1>3 DEF CodeRows
<1> HIDE DEF i, r
<1>5. RowsFit' /\ Grown /\ SameCounts
  BY <1>1, <1>2, <1>4, OneCodeRows DEF CodesFit
<1>6. CallsFit'
  BY <1>1, <1>5, CallsStay DEF CodesFit, callVars
<1> QED
  BY <1>1, <1>5, <1>6 DEF CodesFit, CountsFit, callVars

\* verifyEmail verifies the account its call is for.
LEMMA SetVerifiedFit ==
  ASSUME CodesFit, NEW c \in Calls, SetVerified(c)
  PROVE  CodesFit' /\ Grown /\ SameCounts
<1>1. At(c, "verify") /\ Ends(c) /\ UNCHANGED <<exists, codes, guesses>>
      /\ verified' = verified \cup {Of(c)}
  BY DEF SetVerified
<1>2. Of(c) \in exists
  BY <1>1 DEF At, CodesFit, CallsFit
<1> QED
  BY <1>1, <1>2, SameCodesFit DEF CodesFit, RowsFit

\* A call that dies changes no row.
LEMMA CallDiesFit ==
  ASSUME CodesFit, NEW c \in Calls, CallDies(c)
  PROVE  CodesFit' /\ Grown
<1>1. /\ UNCHANGED <<exists, codes, guesses, verified, started>>
      /\ call' = [call EXCEPT ![c] = Idle]
      /\ Of(c) # NoAccount /\ deaths[Of(c)] < MaxDeaths
      /\ deaths' = [deaths EXCEPT ![Of(c)] = @ + 1]
  BY DEF CallDies, codeVars
<1>2. RowsFit' /\ Grown
  BY <1>1 DEF CodesFit, RowsFit, Grown
<1>3. Idle \in CallRecords /\ Idle.at = "idle" /\ Idle.account = NoAccount
  BY DEF Idle, NoItem, CallRecords, CallPlaces
<1>4. CallsFit'
  BY <1>1, <1>2, <1>3, CallsMove DEF CodesFit
<1>5. CountsFit'
  <2>1. Of(c) \in Accounts
    BY <1>1 DEF CodesFit, CallsFit, RowsFit
  <2> QED
    BY <1>1, <2>1, CodesAssumption DEF CodesFit, CountsFit
<1> QED
  BY <1>2, <1>4, <1>5 DEF CodesFit

\* A wrong guess is made at a code that is not locked.
LEMMA GuessFit ==
  ASSUME CodesFit, NEW c \in Calls, NEW a \in Accounts, NEW right \in BOOLEAN,
         Guess(c, a, right)
  PROVE  /\ CodesFit' /\ Grown
         /\ right => SameCounts
         /\ ~right => \E n \in 1 .. Len(codes[a]) :
              /\ UNCHANGED codes /\ codes[a][n].attempts < MaxAttempts
              /\ call' = [call EXCEPT ![c] =
                             [at |-> "bump", account |-> a, item |-> n]]
              /\ \A b \in Accounts : \A j \in 1 .. Len(codes[b]) :
                   guesses'[b][j] = IF b = a /\ j = n THEN guesses[a][n] + 1
                                    ELSE guesses[b][j]
<1> DEFINE n == Len(codes[a])
           place == IF right THEN "use" ELSE "bump"
           more == IF right THEN 0 ELSE 1
<1>1. /\ a \in exists /\ n > 0 /\ Starts(c, place, a, n) /\ Open(codes[a][n])
      /\ guesses' = [guesses EXCEPT ![a][n] = @ + more]
      /\ UNCHANGED <<exists, codes, verified>>
  BY DEF Guess
<1>2. /\ codes[a] \in Seq(CodeRows) /\ guesses[a] \in Seq(Nat)
      /\ Len(guesses[a]) = n /\ n \in Nat
  BY LenProperties DEF CodesFit, RowsFit
<1>3. n \in 1 .. Len(codes[a]) /\ guesses[a][n] + more \in Nat
  BY <1>1, <1>2, ElementOfSeq
<1>4. guesses' = [guesses EXCEPT ![a] =
                    [guesses[a] EXCEPT ![n] = guesses[a][n] + more]]
  BY <1>1
<1>5. ~right => codes[a][n].attempts < MaxAttempts
  <2>1. codes[a][n] \in CodeRows
    BY <1>2, <1>3, ElementOfSeq
  <2> QED
    BY <1>1, <2>1, CodesAssumption DEF Open, Locked, CodeRows
<1>6. place \in {"use", "bump"} /\ (~right => place = "bump")
      /\ more \in {0, 1} /\ (right <=> more = 0) /\ n \in Nat
  BY <1>2
<1> HIDE DEF n, more, place
<1>7. /\ RowsFit' /\ Grown
      /\ \A b \in Accounts : \A j \in 1 .. Len(codes[b]) :
           guesses'[b][j] = IF b = a /\ j = n THEN guesses[a][n] + more
                            ELSE guesses[b][j]
  <2> DEFINE k == guesses[a][n] + more
  <2>1. k \in Nat /\ guesses' = [guesses EXCEPT ![a] = [guesses[a] EXCEPT ![n] = k]]
    BY <1>3, <1>4
  <2>2. UNCHANGED <<exists, codes, verified>> /\ RowsFit
    BY <1>1 DEF CodesFit
  <2> HIDE DEF k
  <2>3. /\ RowsFit'
        /\ \A b \in Accounts : \A j \in 1 .. Len(codes[b]) :
             guesses'[b][j] = IF b = a /\ j = n THEN k ELSE guesses[b][j]
    BY <1>3, <2>1, <2>2, OneCountChanges
  <2> QED
    BY <2>2, <2>3 DEF Grown, k
<1>8. [at |-> place, account |-> a, item |-> n] \in CallRecords
  BY <1>6 DEF CallRecords, CallPlaces
<1>9. CallsFit'
  BY <1>1, <1>3, <1>6, <1>7, <1>8, CallsMove DEF CodesFit, Starts
<1>10. CountsFit'
  BY <1>1, CodesAssumption DEF CodesFit, CountsFit, Starts
<1>11. right => SameCounts
  <2>1. \A b \in Accounts : guesses[b] \in Seq(Nat) /\ Len(guesses[b]) = Len(codes[b])
    BY DEF CodesFit, RowsFit
  <2>2. \A b \in Accounts : \A j \in 1 .. Len(codes[b]) : guesses[b][j] \in Nat
    BY <2>1, ElementOfSeq
  <2> QED
    BY <1>1, <1>3, <1>6, <1>7, <2>2 DEF SameCounts
<1>12. ~right => call' = [call EXCEPT ![c] =
                            [at |-> "bump", account |-> a, item |-> n]]
  BY <1>1, <1>6 DEF Starts
<1> QED
  BY <1>1, <1>3, <1>5, <1>6, <1>7, <1>9, <1>10, <1>11, <1>12 DEF CodesFit

\* Counting a guess raises the attempts of its code.
LEMMA BumpFit ==
  ASSUME CodesFit, NEW c \in Calls, Bump(c)
  PROVE  /\ CodesFit' /\ Grown /\ UNCHANGED guesses
         /\ \A b \in Accounts : \A j \in 1 .. Len(codes'[b]) :
              /\ j \in 1 .. Len(codes[b])
              /\ codes'[b][j].attempts = codes[b][j].attempts +
                   (IF b = Of(c) /\ j = Item(c) THEN 1 ELSE 0)
<1> DEFINE a == Of(c)
           i == Item(c)
           r == [codes[a][i] EXCEPT !.attempts = @ + 1]
<1>1. /\ At(c, "bump") /\ Ends(c) /\ UNCHANGED <<exists, guesses, verified>>
      /\ codes' = [codes EXCEPT ![a] = [codes[a] EXCEPT ![i] = r]]
  BY DEF Bump
<1>2. a \in Accounts /\ i \in 1 .. Len(codes[a]) /\ codes[a] \in Seq(CodeRows)
  BY <1>1 DEF At, CodesFit, CallsFit, RowsFit
<1>3. codes[a][i] \in CodeRows
  BY <1>2, ElementOfSeq
<1>4. r \in CodeRows /\ r.attempts = codes[a][i].attempts + 1
  BY <1>3 DEF CodeRows
<1>5. \A b \in Accounts : \A j \in 1 .. Len(codes[b]) : codes[b][j].attempts \in Nat
  <2>1. \A b \in Accounts : \A j \in 1 .. Len(codes[b]) : codes[b][j] \in CodeRows
    BY ElementOfSeq DEF CodesFit, RowsFit
  <2> QED
    BY <2>1 DEF CodeRows
<1> HIDE DEF a, i, r
<1>6. /\ RowsFit' /\ \A b \in Accounts : Len(codes'[b]) = Len(codes[b])
      /\ \A b \in Accounts : \A j \in 1 .. Len(codes[b]) :
           codes'[b][j] = IF b = a /\ j = i THEN r ELSE codes[b][j]
  BY <1>1, <1>2, <1>4, OneCodeChanges DEF CodesFit, RowsFit
<1>7. Grown
  BY <1>1, <1>6 DEF Grown
<1>8. CallsFit' /\ CountsFit'
  BY <1>1, <1>7, CallEnds DEF CodesFit, CountsFit, Ends
<1> QED
  BY <1>1, <1>4, <1>5, <1>6, <1>7, <1>8 DEF CodesFit, a, i

-----------------------------------------------------------------------------
(* So do the steps of documents, identities and freezes; they leave the codes *)
(* alone, and the calls that issue a code or count a guess.                  *)

CodePlaces == {"retire", "code", "bump"}

\* Of the calls only those move that neither issue a code nor count a guess.
QuietCalls ==
    \A c \in Calls : \/ call'[c] = call[c]
                     \/ call[c].at \notin CodePlaces /\ call'[c].at \notin CodePlaces

\* A call moves between places that have to do with no code.
LEMMA QuietMove ==
  ASSUME CodesFit, NEW c \in Calls, NEW r \in CallRecords,
         call' = [call EXCEPT ![c] = r],
         call[c].at \notin CodePlaces,
         r.at \notin CodePlaces \cup {"hash", "use"},
         r.account \in exists' \cup {NoAccount},
         r.at \notin {"idle", "fayda", "profile"} => r.account \in exists',
         r.at \in {"profile", "parked", "attach"} => r.item \in Persons,
         exists \subseteq exists', exists' \subseteq Accounts,
         UNCHANGED <<codes, guesses, verified>>, CountsFit'
  PROVE  CodesFit' /\ Grown /\ SameCounts /\ QuietCalls
<1>1. RowsFit' /\ Grown /\ SameCounts
  BY DEF CodesFit, RowsFit, Grown, SameCounts
<1>2. CallsFit'
  BY <1>1, CallsMove DEF CodesFit, CodePlaces
<1>3. QuietCalls
  <2>1. call'[c] = r /\ \A b \in Calls \ {c} : call'[b] = call[b]
    BY DEF CodesFit, CallsFit
  <2> QED
    BY <2>1 DEF QuietCalls
<1> QED
  BY <1>1, <1>2, <1>3 DEF CodesFit

\* The calls that start a submission, a Fayda flow, a freeze, or carry out a
\* decision just made.
LEMMA CallStartsFit ==
  ASSUME Fit, NEW c \in Calls,
         \/ \E a \in Accounts : \/ SubmitCheck(c, a) \/ StartLink(c, a)
                                \/ FreezeCheck(c, a) \/ LiftFlags(c, a)
         \/ StartSignIn(c)
         \/ \E d \in Docs : Approve(c, d)
  PROVE  CodesFit' /\ Grown /\ SameCounts /\ QuietCalls
<1> USE DEF Fit
<1>1. PICK place \in {"submit", "fayda", "freeze", "activate", "raise"},
           b \in exists \cup {NoAccount} :
        Starts(c, place, b, NoItem) /\ (place # "fayda" => b \in exists)
  <2>1. ASSUME NEW a \in Accounts,
               SubmitCheck(c, a) \/ StartLink(c, a) \/ FreezeCheck(c, a)
        PROVE  \E b \in exists : \E place \in {"submit", "fayda", "freeze"} :
                 Starts(c, place, b, NoItem)
    BY <2>1 DEF SubmitCheck, StartLink, FreezeCheck
  <2>2. CASE StartSignIn(c)
    BY <2>2 DEF StartSignIn
  <2>3. ASSUME NEW a \in Accounts, LiftFlags(c, a)
        PROVE  \E b \in exists : Starts(c, "activate", b, NoItem)
    <3>1. a \in exists
      BY <2>3 DEF LiftFlags, StandingFit
    <3> QED
      BY <2>3, <3>1 DEF LiftFlags
  <2>4. ASSUME NEW d \in Docs, Approve(c, d)
        PROVE  \E b \in exists : Starts(c, "raise", b, NoItem)
    <3>1. doc[d].owner \in exists
      BY <2>4 DEF Approve, Reviewable, StandingFit
    <3> QED
      BY <2>4, <3>1 DEF Approve
  <2> QED
    BY <2>1, <2>2, <2>3, <2>4
<1>2. UNCHANGED codeVars
  BY DEF SubmitCheck, StartLink, StartSignIn, FreezeCheck, LiftFlags, Approve
<1>3. call[c].at = "idle" /\ call' = [call EXCEPT ![c] =
                                      [at |-> place, account |-> b, item |-> 0]]
  BY <1>1 DEF Starts, Idle, NoItem
<1>4. [at |-> place, account |-> b, item |-> 0] \in CallRecords
  BY <1>1 DEF CallRecords, CallPlaces, CodesFit, RowsFit
<1>5. CountsFit'
  BY <1>1, CodesAssumption DEF Starts, CodesFit, CountsFit
<1>6. place \notin CodePlaces \cup {"hash", "use"}
      /\ place \notin {"idle", "profile", "parked", "attach"}
      /\ call[c].at \notin CodePlaces
  BY <1>1, <1>3 DEF CodePlaces
<1>7. UNCHANGED <<exists, codes, guesses, verified>> /\ exists \subseteq Accounts
  BY <1>2 DEF codeVars, CodesFit, RowsFit
<1>8. place # "fayda" => b \in exists
  BY <1>1
<1> QED
  BY <1>3, <1>4, <1>5, <1>6, <1>7, <1>8, QuietMove DEF CodesFit

\* A Fayda flow goes on with the person proven, for an account there is.
LEMMA CallGoesFit ==
  ASSUME Fit, NEW c \in Calls,
         \/ \E p \in Persons : Callback(c, p)
         \/ CommitHandoff(c)
         \/ \E a \in Accounts : Complete(c, a)
  PROVE  CodesFit' /\ Grown /\ SameCounts /\ QuietCalls
<1> USE DEF Fit
<1>0. /\ Of(c) \in exists \cup {NoAccount} /\ exists \subseteq Accounts
      /\ CodesFit
  BY DEF CodesFit, CallsFit, RowsFit
<1>1. /\ call[c].at \in {"fayda", "parked", "profile"}
      /\ exists \subseteq exists' /\ exists' \subseteq Accounts
      /\ UNCHANGED <<codes, guesses, verified>>
  BY <1>0 DEF Callback, CommitHandoff, Complete, At, codeVars
<1>2. CASE Ends(c)
  <2>1. Idle \in CallRecords /\ Idle.at = "idle" /\ Idle.account = NoAccount
    BY DEF Idle, NoItem, CallRecords, CallPlaces
  <2>2. CountsFit' /\ call' = [call EXCEPT ![c] = Idle]
    BY <1>2 DEF Ends, CodesFit, CountsFit
  <2> QED
    BY <1>0, <1>1, <2>1, <2>2, QuietMove DEF CodePlaces
<1>3. ASSUME NEW place \in {"profile", "attach", "parked"},
             NEW b \in exists' \cup {NoAccount}, NEW q \in Persons,
             Goes(c, place, b, q), place # "profile" => b \in exists'
      PROVE  CodesFit' /\ Grown /\ SameCounts /\ QuietCalls
  <2> DEFINE r == [at |-> place, account |-> b, item |-> q]
  <2>1. r \in CallRecords
    BY <1>1 DEF CallRecords, CallPlaces
  <2>2. CountsFit' /\ call' = [call EXCEPT ![c] = r]
    BY <1>3 DEF Goes, CodesFit, CountsFit
  <2>3. /\ r.at \notin CodePlaces \cup {"hash", "use"} /\ r.account = b
        /\ r.item = q /\ r.at = place
    BY DEF CodePlaces
  <2> HIDE DEF r
  <2> QED
    BY <1>0, <1>1, <1>3, <2>1, <2>2, <2>3, QuietMove DEF CodePlaces
<1>4. ASSUME NEW p \in Persons, Callback(c, p)
      PROVE  CodesFit' /\ Grown /\ SameCounts /\ QuietCalls
  <2>1. \/ Ends(c)
        \/ Of(c) = NoAccount /\ Goes(c, "profile", Of(c), p)
        \/ Of(c) # NoAccount /\ \E place \in {"attach", "parked"} :
                                   Goes(c, place, Of(c), p)
    BY <1>4 DEF Callback
  <2> QED
    BY <1>0, <1>1, <1>2, <1>3, <2>1
<1>5. CASE CommitHandoff(c)
  <2>1. Item(c) \in Persons /\ Of(c) \in exists
    BY <1>5 DEF CommitHandoff, At, CodesFit, CallsFit
  <2>2. Ends(c) \/ Goes(c, "attach", Of(c), Item(c))
    BY <1>5 DEF CommitHandoff
  <2> QED
    BY <1>1, <1>2, <1>3, <2>1, <2>2
<1>6. ASSUME NEW a \in Accounts, Complete(c, a)
      PROVE  CodesFit' /\ Grown /\ SameCounts /\ QuietCalls
  <2>1. Item(c) \in Persons
    BY <1>6 DEF Complete, At, CodesFit, CallsFit
  <2> QED
    BY <1>3, <1>6, <2>1 DEF Complete
<1> QED
  BY <1>4, <1>5, <1>6

\* The last steps of these calls.
LEMMA CallEndsFit ==
  ASSUME Fit, NEW c \in Calls,
         \/ \E d \in Docs : SubmitInsert(c, d)
         \/ RaiseTier(c) \/ Attach(c) \/ Freeze(c) \/ Activate(c)
  PROVE  CodesFit' /\ Grown /\ SameCounts /\ QuietCalls
<1> USE DEF Fit
<1>1. /\ call[c].at \notin CodePlaces /\ Ends(c)
      /\ UNCHANGED <<exists, codes, guesses, verified>>
  BY DEF SubmitInsert, RaiseTier, Attach, Freeze, Activate, At, codeVars,
         CodePlaces
<1>2. Idle \in CallRecords /\ Idle.at = "idle" /\ Idle.account = NoAccount
  BY DEF Idle, NoItem, CallRecords, CallPlaces
<1>3. CountsFit' /\ call' = [call EXCEPT ![c] = Idle]
  BY <1>1 DEF Ends, CodesFit, CountsFit
<1>4. CodesFit /\ exists \subseteq Accounts
  BY DEF CodesFit, RowsFit
<1> QED
  BY <1>1, <1>2, <1>3, <1>4, QuietMove DEF CodePlaces

\* Together: every step of module Standing itself.
LEMMA StandingStepCodes ==
  Fit /\ StandingStep => CodesFit' /\ Grown /\ SameCounts /\ QuietCalls
<1> SUFFICES ASSUME Fit, StandingStep
             PROVE  CodesFit' /\ Grown /\ SameCounts /\ QuietCalls
  OBVIOUS
<1>1. CASE \E d \in Docs : Reject(d)
  <2>1. UNCHANGED <<exists, codes, guesses, verified, call, started, deaths>>
    BY <1>1 DEF Reject, codeVars, callVars
  <2>2. RowsFit' /\ CountsFit'
    BY <2>1 DEF Fit, CodesFit, RowsFit, CountsFit
  <2>3. Grown /\ SameCounts /\ QuietCalls
    BY <2>1 DEF Grown, SameCounts, QuietCalls
  <2> QED
    BY <2>1, <2>2, <2>3, CallsStay DEF Fit, CodesFit
<1> QED
  BY <1>1, CallStartsFit, CallGoesFit, CallEndsFit DEF StandingStep

-----------------------------------------------------------------------------
(* The rows of the standing keep their shape. *)

\* A submission belongs to the account of its call; a review keeps its owner.
LEMMA DocsFit ==
  ASSUME Fit, NEW c \in Calls, NEW d \in Docs,
         SubmitInsert(c, d) \/ Approve(c, d) \/ Reject(d)
  PROVE  StandingFit'
<1> USE DEF Fit
<1>1. UNCHANGED <<exists, tier, identity, frozen, flags, verdict>>
  BY DEF SubmitInsert, Approve, Reject, codeVars
<1>2. /\ Of(c) \in exists \cup {NoAccount}
      /\ At(c, "submit") => Of(c) \in exists
      /\ NoAccount \notin exists /\ exists \subseteq Accounts
  BY CodesAssumption DEF At, CodesFit, CallsFit, RowsFit
<1>3. CASE SubmitInsert(c, d)
  BY <1>1, <1>2, <1>3 DEF SubmitInsert, StandingFit
<1>4. CASE Approve(c, d) \/ Reject(d)
  <2>1. PICK new \in {"approved", "rejected"} :
          doc' = [doc EXCEPT ![d].status = new]
    BY <1>4 DEF Approve, Reject
  <2>2. doc[d].status = "pending"
    BY <1>4 DEF Approve, Reject, Reviewable
  <2> QED
    BY <1>1, <2>1, <2>2 DEF StandingFit
<1> QED
  BY <1>3, <1>4

\* Nothing of the standing changes.
LEMMA CallsOnlyFit ==
  ASSUME StandingFit, exists \subseteq exists', UNCHANGED standingVars
  PROVE  StandingFit'
BY DEF StandingFit, standingVars

\* An identity attached is a person's and an account's.
LEMMA IdentitiesFit ==
  ASSUME Fit, NEW c \in Calls, RaiseTier(c) \/ Attach(c)
  PROVE  StandingFit'
<1> USE DEF Fit
<1>1. UNCHANGED <<exists, doc, frozen, flags, verdict>>
  BY DEF RaiseTier, Attach, codeVars
<1>2. CASE RaiseTier(c)
  BY <1>1, <1>2 DEF RaiseTier, StandingFit
<1>3. CASE Attach(c)
  <2>1. Item(c) \in Persons /\ Of(c) \in exists
    BY <1>3 DEF Attach, At, CodesFit, CallsFit
  <2>2. /\ identity' \subseteq identity \cup {<<Item(c), Of(c)>>}
        /\ tier' \in {tier, [tier EXCEPT ![Of(c)] = 1]}
    BY <1>3 DEF Attach
  <2> QED
    BY <1>1, <2>1, <2>2 DEF StandingFit
<1> QED
  BY <1>2, <1>3

\* Freezing and lifting keep the types of status and flags.
LEMMA FreezesFit ==
  ASSUME Fit, NEW c \in Calls,
         Freeze(c) \/ Activate(c) \/ \E a \in Accounts : LiftFlags(c, a)
  PROVE  StandingFit'
<1> USE DEF Fit
<1>1. UNCHANGED <<exists, doc, tier, identity>>
  BY DEF Freeze, Activate, LiftFlags, codeVars
<1>2. CASE Freeze(c)
  <2>1. Of(c) \in exists /\ Of(c) \in Accounts
    BY <1>2 DEF Freeze, At, CodesFit, CallsFit, RowsFit
  <2> QED
    BY <1>1, <1>2, <2>1 DEF Freeze, StandingFit
<1>3. CASE Activate(c)
  BY <1>1, <1>3 DEF Activate, StandingFit
<1>4. ASSUME NEW a \in Accounts, LiftFlags(c, a)
      PROVE  StandingFit'
  BY <1>1, <1>4 DEF LiftFlags, Lifted, StandingFit
<1> QED
  BY <1>2, <1>3, <1>4

\* Together: the steps of module Standing keep the standing's shape.
LEMMA StandingStepFit == Fit /\ StandingStep => StandingFit'
<1> SUFFICES ASSUME Fit, StandingStep PROVE StandingFit'
  OBVIOUS
<1>1. exists \subseteq exists' /\ StandingFit
  BY StandingStepCodes DEF Grown, Fit
<1>2. CASE \E d \in Docs : Reject(d)
  <2>1. Calls # {}
    BY CodesAssumption
  <2> QED
    BY <1>2, <2>1, DocsFit
<1>3. ASSUME NEW c \in Calls, NEW a \in Accounts,
             \/ SubmitCheck(c, a) \/ StartLink(c, a) \/ Complete(c, a)
             \/ FreezeCheck(c, a)
      PROVE  StandingFit'
  BY <1>1, <1>3, CallsOnlyFit DEF SubmitCheck, StartLink, Complete, FreezeCheck
<1>4. ASSUME NEW c \in Calls, StartSignIn(c) \/ CommitHandoff(c)
      PROVE  StandingFit'
  BY <1>1, <1>4, CallsOnlyFit DEF StartSignIn, CommitHandoff
<1>5. ASSUME NEW c \in Calls, NEW p \in Persons, Callback(c, p)
      PROVE  StandingFit'
  BY <1>1, <1>5, CallsOnlyFit DEF Callback
<1> QED
  BY <1>2, <1>3, <1>4, <1>5, DocsFit, IdentitiesFit, FreezesFit DEF StandingStep

\* The steps of registration and of the codes that no guess is part of.
Quietly(c) ==
    \/ \E a \in Accounts : Register(c, a) \/ AskCode(c, a)
    \/ RetireOlder(c) \/ InsertCode(c) \/ SetHash(c) \/ UseCode(c)
    \/ SetVerified(c)

\* These steps keep the shape and the counts.
LEMMA QuietlyFit ==
  ASSUME CodesFit, NEW c \in Calls, Quietly(c)
  PROVE  CodesFit' /\ Grown /\ SameCounts
BY RegisterFit, RetireFit, InsertFit, SetHashFit, UseCodeFit, SetVerifiedFit
   DEF Quietly

\* So does every step of module Codes keep the shape.
LEMMA CodesStepFit == CodesFit /\ CodesStep => CodesFit' /\ Grown
<1> SUFFICES ASSUME CodesFit, CodesStep PROVE CodesFit' /\ Grown
  OBVIOUS
<1>1. \/ \E c \in Calls :
           \/ Quietly(c) \/ Bump(c) \/ CallDies(c)
           \/ \E a \in Accounts, right \in BOOLEAN : Guess(c, a, right)
      \/ \E a \in Accounts : Expire(a)
  BY DEF CodesStep, Quietly
<1> QED
  BY <1>1, QuietlyFit, BumpFit, CallDiesFit, GuessFit, ExpireFit

\* Every step keeps the shape.
LEMMA StepFit == Fit /\ [StandingNext]_allVars => Fit'
<1> SUFFICES ASSUME Fit, [StandingNext]_allVars PROVE Fit'
  OBVIOUS
<1>1. CASE StandingStep
  BY <1>1, StandingStepCodes, StandingStepFit DEF Fit
<1>2. CASE CodesStep /\ UNCHANGED standingVars
  BY <1>2, CodesStepFit, CallsOnlyFit DEF Fit, Grown
<1>3. CASE UNCHANGED allVars
  <2>1. UNCHANGED <<exists, codes, guesses, verified, call, started, deaths>>
        /\ UNCHANGED standingVars
    BY <1>3 DEF allVars, codeVars, callVars
  <2>2. RowsFit' /\ CallsFit' /\ CountsFit'
    BY <2>1 DEF Fit, CodesFit, RowsFit, CallsFit, Of, Item, CountsFit
  <2> QED
    BY <2>1, <2>2, CallsOnlyFit DEF Fit, CodesFit
<1> QED
  BY <1>1, <1>2, <1>3 DEF StandingNext

\* The state has its types, but for the bound on the codes of an account.
LEMMA StandingShape == StandingSpec => []Fit
BY InitFit, StepFit, PTL DEF StandingSpec

-----------------------------------------------------------------------------
(* Standing is earned, and decisions take effect. *)

Under(a, place) == \E c \in Calls : At(c, place) /\ Of(c) = a

\* A call that raises a tier does so for an approved account, and approvals
\* are never taken back; an identity is one person's and one account's.
Earned ==
    /\ \A a \in Accounts : tier[a] = 1 => Approved(a) \/ HasIdentity(a)
    /\ \A c \in Calls : At(c, "raise") => Approved(Of(c))
    /\ \A x, y \in identity : x[1] = y[1] <=> x[2] = y[2]

\* What is not in force yet is a call's to do, or was a dead call's.
Decided ==
    \A a \in Accounts :
        /\ Approved(a) => tier[a] = 1 \/ deaths[a] > 0 \/ Under(a, "raise")
        /\ verdict[a] = "freeze" => flags[a] > 0
        /\ verdict[a] = "unfreeze" =>
             /\ flags[a] = 0
             /\ a \notin frozen \/ deaths[a] > 0 \/ Under(a, "activate")

\* Calls that come to carry out a decision, or stop, are not among those that
\* move.
Plain ==
    \A c \in Calls : \/ call'[c] = call[c]
                     \/ /\ call[c].at \notin {"raise", "activate"}
                        /\ call'[c].at \notin {"raise", "activate"}

\* A call that starts or stops elsewhere.
LEMMA MoveIsPlain ==
  ASSUME Fit, NEW c \in Calls, NEW r, call' = [call EXCEPT ![c] = r],
         call[c].at \notin {"raise", "activate"},
         r.at \notin {"raise", "activate"}
  PROVE  Plain
<1>1. call'[c] = r /\ \A b \in Calls \ {c} : call'[b] = call[b]
  BY DEF Fit, CodesFit, CallsFit
<1> QED
  BY <1>1 DEF Plain

\* Such steps leave standings and decisions as they are.
LEMMA PlainKeeps ==
  ASSUME Fit, Earned, Decided, Plain, UNCHANGED <<standingVars, deaths>>
  PROVE  Earned' /\ Decided'
<1>1. /\ \A a \in Accounts : Approved(a)' <=> Approved(a)
      /\ \A a \in Accounts : HasIdentity(a)' <=> HasIdentity(a)
  BY DEF standingVars, Approved, HasIdentity
<1>2. \A c \in Calls : At(c, "raise")' => At(c, "raise") /\ Of(c)' = Of(c)
  BY DEF Plain, At, Of
<1>3. \A a \in Accounts : /\ Under(a, "raise") => Under(a, "raise")'
                          /\ Under(a, "activate") => Under(a, "activate")'
  BY DEF Plain, Under, At, Of
<1>4. \A c \in Calls : At(c, "raise") => Of(c) \in Accounts
  BY DEF Fit, CodesFit, CallsFit, RowsFit, At
<1>5. Earned'
  BY <1>1, <1>2, <1>4 DEF Earned, standingVars
<1>6. Decided'
  BY <1>1, <1>3 DEF Decided, standingVars
<1> QED
  BY <1>5, <1>6

\* Most steps are of this kind.
LEMMA CodesStepPlain ==
  ASSUME Fit, CodesStep, ~\E c \in Calls : CallDies(c)
  PROVE  Plain /\ UNCHANGED deaths
<1>1. CASE \E a \in Accounts : Expire(a)
  BY <1>1 DEF Expire, callVars, Plain
<1>2. ASSUME NEW c \in Calls, NEW r, call' = [call EXCEPT ![c] = r],
             call[c].at \notin {"raise", "activate"},
             r.at \notin {"raise", "activate"}
      PROVE  Plain
  BY <1>2, MoveIsPlain
<1>3. ASSUME NEW c \in Calls, NEW a \in Accounts, Register(c, a) \/ AskCode(c, a)
      PROVE  Plain /\ UNCHANGED deaths
  BY <1>2, <1>3 DEF Register, AskCode, Starts, Idle
<1>4. ASSUME NEW c \in Calls, NEW a \in Accounts, NEW right \in BOOLEAN,
             Guess(c, a, right)
      PROVE  Plain /\ UNCHANGED deaths
  <2> DEFINE place == IF right THEN "use" ELSE "bump"
             r == [at |-> place, account |-> a, item |-> Len(codes[a])]
  <2>1. /\ call' = [call EXCEPT ![c] = r] /\ UNCHANGED deaths
        /\ call[c].at = "idle" /\ r.at \notin {"raise", "activate"}
    BY <1>4 DEF Guess, Starts, Idle
  <2> HIDE DEF r
  <2> QED
    BY <1>2, <2>1
<1>5. ASSUME NEW c \in Calls, RetireOlder(c) \/ InsertCode(c)
      PROVE  Plain /\ UNCHANGED deaths
  BY <1>2, <1>5 DEF RetireOlder, InsertCode, Goes, At
<1>6. ASSUME NEW c \in Calls, Ends(c), call[c].at \notin {"raise", "activate"}
      PROVE  Plain /\ UNCHANGED deaths
  BY <1>2, <1>6 DEF Ends, Idle
<1>7. ASSUME NEW c \in Calls, SetHash(c) \/ Bump(c) \/ SetVerified(c)
      PROVE  Plain /\ UNCHANGED deaths
  BY <1>6, <1>7 DEF SetHash, Bump, SetVerified, At
<1>8. ASSUME NEW c \in Calls, UseCode(c)
      PROVE  Plain /\ UNCHANGED deaths
  <2>1. At(c, "use") /\ (Ends(c) \/ Goes(c, "verify", Of(c), NoItem))
    BY <1>8 DEF UseCode
  <2> QED
    BY <1>2, <1>6, <2>1 DEF Goes, At
<1> QED
  BY <1>1, <1>3, <1>4, <1>5, <1>7, <1>8 DEF CodesStep

\* Submissions, Fayda flows and freezes before they commit.
LEMMA FlowsPlain ==
  ASSUME Fit, NEW c \in Calls,
         \/ \E a \in Accounts : \/ SubmitCheck(c, a) \/ StartLink(c, a)
                                \/ FreezeCheck(c, a) \/ Complete(c, a)
         \/ StartSignIn(c) \/ CommitHandoff(c)
         \/ \E p \in Persons : Callback(c, p)
  PROVE  Plain /\ UNCHANGED <<standingVars, deaths>>
<1>1. ASSUME NEW r, call' = [call EXCEPT ![c] = r],
             call[c].at \notin {"raise", "activate"},
             r.at \notin {"raise", "activate"}
      PROVE  Plain
  BY <1>1, MoveIsPlain
<1>2. ASSUME NEW place \in {"submit", "fayda", "freeze"}, NEW b,
             Starts(c, place, b, NoItem)
      PROVE  Plain /\ UNCHANGED deaths
  <2> DEFINE r == [at |-> place, account |-> b, item |-> NoItem]
  <2>1. /\ call' = [call EXCEPT ![c] = r] /\ UNCHANGED deaths
        /\ call[c].at = "idle" /\ r.at \notin {"raise", "activate"}
    BY <1>2 DEF Starts, Idle
  <2> HIDE DEF r
  <2> QED
    BY <1>1, <2>1
<1>3. ASSUME NEW a \in Accounts,
             SubmitCheck(c, a) \/ StartLink(c, a) \/ FreezeCheck(c, a)
      PROVE  Plain /\ UNCHANGED <<standingVars, deaths>>
  BY <1>3, <1>2 DEF SubmitCheck, StartLink, FreezeCheck
<1>4. CASE StartSignIn(c)
  BY <1>4, <1>2 DEF StartSignIn
<1>5. ASSUME NEW place \in {"profile", "attach", "parked"}, NEW b, NEW q,
             Goes(c, place, b, q), call[c].at \notin {"raise", "activate"}
      PROVE  Plain /\ UNCHANGED deaths
  BY <1>1, <1>5 DEF Goes
<1>6. ASSUME Ends(c), call[c].at \notin {"raise", "activate"}
      PROVE  Plain /\ UNCHANGED deaths
  BY <1>1, <1>6 DEF Ends, Idle
<1>7. ASSUME NEW p \in Persons, Callback(c, p)
      PROVE  Plain /\ UNCHANGED <<standingVars, deaths>>
  <2>1. /\ call[c].at = "fayda" /\ UNCHANGED standingVars
        /\ \/ Ends(c)
           \/ \E place \in {"profile", "attach", "parked"} :
                Goes(c, place, Of(c), p)
    BY <1>7 DEF Callback, At
  <2> QED
    BY <1>5, <1>6, <2>1
<1>8. CASE CommitHandoff(c)
  BY <1>5, <1>6, <1>8 DEF CommitHandoff, At
<1>9. ASSUME NEW a \in Accounts, Complete(c, a)
      PROVE  Plain /\ UNCHANGED <<standingVars, deaths>>
  BY <1>5, <1>9 DEF Complete, At
<1> QED
  BY <1>3, <1>4, <1>7, <1>8, <1>9

\* The steps that decide, or carry a decision out.
LEMMA DocsKeep ==
  ASSUME Fit, Earned, Decided, NEW c \in Calls, NEW d \in Docs,
         SubmitInsert(c, d) \/ Approve(c, d) \/ Reject(d)
  PROVE  Earned' /\ Decided'
<1> USE DEF Fit
<1>1. UNCHANGED <<tier, identity, frozen, flags, verdict, deaths>>
  BY DEF SubmitInsert, Approve, Reject, Ends, Starts, callVars
<1>2. \A a \in Accounts : HasIdentity(a)' <=> HasIdentity(a)
  BY <1>1 DEF HasIdentity
<1>3. \A e \in Docs \ {d} : doc'[e] = doc[e]
  BY DEF SubmitInsert, Approve, Reject, StandingFit
<1>4. doc[d].status \in {"none", "pending"}
  BY DEF SubmitInsert, Approve, Reject, Reviewable, NoDoc
<1>5. \A a \in Accounts : Approved(a) => Approved(a)'
  BY <1>3, <1>4 DEF Approved
<1>6. CASE SubmitInsert(c, d) \/ Reject(d)
  <2>1. Plain
    <3>1. CASE SubmitInsert(c, d)
      BY <3>1, MoveIsPlain DEF SubmitInsert, Ends, Idle, At
    <3>2. CASE Reject(d)
      BY <3>2 DEF Reject, Plain, callVars
    <3> QED
      BY <1>6, <3>1, <3>2
  <2>2. doc'[d].status # "approved"
    BY <1>6 DEF SubmitInsert, Reject, StandingFit
  <2>3. \A a \in Accounts : Approved(a)' => Approved(a)
    BY <1>3, <2>2 DEF Approved
  <2>4. \A b \in Calls : At(b, "raise")' => At(b, "raise") /\ Of(b)' = Of(b)
    BY <2>1 DEF Plain, At, Of
  <2>5. \A a \in Accounts : /\ Under(a, "raise") => Under(a, "raise")'
                            /\ Under(a, "activate") => Under(a, "activate")'
    BY <2>1 DEF Plain, Under, At, Of
  <2>6. \A b \in Calls : At(b, "raise") => Of(b) \in Accounts
    BY DEF CodesFit, CallsFit, RowsFit, At
  <2>7. Earned'
    BY <1>1, <1>2, <1>5, <2>4, <2>6 DEF Earned
  <2>8. Decided'
    BY <1>1, <2>3, <2>5 DEF Decided
  <2> QED
    BY <2>7, <2>8
<1>7. CASE Approve(c, d)
  <2>1. doc[d].owner \in Accounts
    BY <1>7 DEF Approve, Reviewable, StandingFit, CodesFit, RowsFit
  <2>2. PICK o \in Accounts : o = doc[d].owner
    BY <2>1
  <2>3. doc'[d].owner = o /\ doc'[d].status = "approved"
    BY <1>7, <2>2 DEF Approve, StandingFit
  <2>4. /\ call[c].at = "idle" /\ call'[c].at = "raise" /\ call'[c].account = o
        /\ \A b \in Calls \ {c} : call'[b] = call[b]
    BY <1>7, <2>2 DEF Approve, Starts, Idle, CodesFit, CallsFit
  <2>5. Approved(o)' /\ \A a \in Accounts \ {o} : Approved(a)' => Approved(a)
    BY <1>3, <2>3 DEF Approved
  <2>6. /\ Under(o, "raise")'
        /\ \A a \in Accounts : /\ Under(a, "raise") => Under(a, "raise")'
                               /\ Under(a, "activate") => Under(a, "activate")'
    BY <2>4 DEF Under, At, Of
  <2>7. \A b \in Calls : At(b, "raise")' => \/ Of(b)' = o
                                            \/ At(b, "raise") /\ Of(b)' = Of(b)
    BY <2>4 DEF At, Of
  <2>8. \A b \in Calls : At(b, "raise") => Of(b) \in Accounts
    BY DEF CodesFit, CallsFit, RowsFit, At
  <2>9. Earned'
    BY <1>1, <1>2, <1>5, <2>5, <2>7, <2>8 DEF Earned
  <2>10. Decided'
    BY <1>1, <2>5, <2>6 DEF Decided
  <2> QED
    BY <2>9, <2>10
<1> QED
  BY <1>6, <1>7

\* A tier raised is an approved account's, or of an identity attached with it.
LEMMA IdentitiesKeep ==
  ASSUME Fit, Earned, Decided, NEW c \in Calls, RaiseTier(c) \/ Attach(c)
  PROVE  Earned' /\ Decided'
<1> USE DEF Fit
<1>1. /\ UNCHANGED <<doc, frozen, flags, verdict, deaths>>
      /\ call' = [call EXCEPT ![c] = Idle]
  BY DEF RaiseTier, Attach, Ends
<1>2. \A a \in Accounts : Approved(a)' <=> Approved(a)
  BY <1>1 DEF Approved
<1>3. call'[c].at = "idle" /\ \A b \in Calls \ {c} : call'[b] = call[b]
  BY <1>1 DEF Idle, CodesFit, CallsFit
<1>4. /\ \A b \in Calls : At(b, "raise")' => At(b, "raise") /\ Of(b)' = Of(b)
      /\ \A b \in Calls : At(b, "raise") => Of(b) \in Accounts
  BY <1>3 DEF At, Of, CodesFit, CallsFit, RowsFit
<1>5. /\ call[c].at # "activate" /\ Of(c) \in exists /\ Of(c) \in Accounts
      /\ At(c, "raise") \/ At(c, "attach")
  BY DEF RaiseTier, Attach, At, CodesFit, CallsFit, RowsFit
<1>6. \A a \in Accounts : Under(a, "activate") => Under(a, "activate")'
  BY <1>3, <1>5 DEF Under, At, Of
<1>7. CASE RaiseTier(c)
  <2>1. /\ UNCHANGED identity /\ At(c, "raise") /\ tier'[Of(c)] = 1
        /\ \A a \in Accounts \ {Of(c)} : tier'[a] = tier[a]
    BY <1>5, <1>7 DEF RaiseTier, StandingFit
  <2>2. \A a \in Accounts \ {Of(c)} : Under(a, "raise") => Under(a, "raise")'
    BY <1>3 DEF Under, At, Of
  <2>3. \A a \in Accounts : HasIdentity(a)' <=> HasIdentity(a)
    BY <2>1 DEF HasIdentity
  <2>4. Earned'
    BY <1>2, <1>4, <2>1, <2>3 DEF Earned
  <2>5. Decided'
    BY <1>1, <1>2, <1>6, <2>1, <2>2 DEF Decided
  <2> QED
    BY <2>4, <2>5
<1>8. CASE Attach(c)
  <2>0. Item(c) \in Persons /\ At(c, "attach")
    BY <1>8 DEF Attach, At, CodesFit, CallsFit
  <2>1. PICK o \in Accounts, p \in Persons : o = Of(c) /\ p = Item(c)
    BY <1>5, <2>0
  <2>2. \A a \in Accounts : Under(a, "raise") => Under(a, "raise")'
    BY <1>3, <2>0 DEF Under, At, Of
  <2>3. CASE UNCHANGED <<identity, tier>>
    <3>1. \A a \in Accounts : HasIdentity(a)' <=> HasIdentity(a)
      BY <2>3 DEF HasIdentity
    <3>2. Earned'
      BY <1>2, <1>4, <2>3, <3>1 DEF Earned
    <3>3. Decided'
      BY <1>1, <1>2, <1>6, <2>2, <2>3 DEF Decided
    <3> QED
      BY <3>2, <3>3
  <2>4. CASE /\ Unbound(p, o) /\ identity' = identity \cup {<<p, o>>}
             /\ tier' = [tier EXCEPT ![o] = 1]
    <3>1. /\ tier'[o] = 1
          /\ \A a \in Accounts \ {o} : tier'[a] = tier[a]
      BY <2>4 DEF StandingFit
    <3>2. /\ HasIdentity(o)'
          /\ \A a \in Accounts : HasIdentity(a) => HasIdentity(a)'
      BY <2>1, <2>4 DEF HasIdentity
    <3>3. \A x \in identity : x[1] # p /\ x[2] # o
      <4>1. \A x \in identity : /\ x = <<x[1], x[2]>> /\ x[1] \in Persons
                                /\ x[2] \in Accounts
        BY DEF StandingFit, CodesFit, RowsFit
      <4> QED
        BY <2>4, <4>1 DEF Unbound, HasIdentity, Elsewhere
    <3>4. \A x, y \in identity' : x[1] = y[1] <=> x[2] = y[2]
      BY <2>4, <3>3 DEF Earned
    <3>5. Earned'
      BY <1>2, <1>4, <3>1, <3>2, <3>4 DEF Earned
    <3>6. Decided'
      BY <1>1, <1>2, <1>6, <2>2, <3>1 DEF Decided
    <3> QED
      BY <3>5, <3>6
  <2> QED
    BY <1>8, <2>1, <2>3, <2>4 DEF Attach
<1> QED
  BY <1>7, <1>8

\* A freeze raises a flag; a lift clears all and leaves a call to do the rest.
LEMMA FreezesKeep ==
  ASSUME Fit, Earned, Decided, NEW c \in Calls,
         Freeze(c) \/ Activate(c) \/ \E a \in Accounts : LiftFlags(c, a)
  PROVE  Earned' /\ Decided'
<1> USE DEF Fit
<1>1. UNCHANGED <<doc, tier, identity, deaths>>
  BY DEF Freeze, Activate, LiftFlags, Ends, Starts
<1>2. /\ \A a \in Accounts : Approved(a)' <=> Approved(a)
      /\ \A a \in Accounts : HasIdentity(a)' <=> HasIdentity(a)
  BY <1>1 DEF Approved, HasIdentity
<1>3. /\ call[c].at # "raise" /\ call'[c].at # "raise"
      /\ \A b \in Calls \ {c} : call'[b] = call[b]
  BY DEF Freeze, Activate, LiftFlags, Ends, Starts, Idle, At, CodesFit, CallsFit
<1>4. /\ \A b \in Calls : At(b, "raise")' => At(b, "raise") /\ Of(b)' = Of(b)
      /\ \A b \in Calls : At(b, "raise") => Of(b) \in Accounts
      /\ \A a \in Accounts : Under(a, "raise") => Under(a, "raise")'
  BY <1>3 DEF At, Of, Under, CodesFit, CallsFit, RowsFit
<1>5. Earned'
  BY <1>1, <1>2, <1>4 DEF Earned
<1>6. CASE Freeze(c)
  <2>1. Of(c) \in Accounts /\ At(c, "freeze")
    BY <1>6 DEF Freeze, At, CodesFit, CallsFit, RowsFit
  <2>2. \A a \in Accounts : Under(a, "activate") => Under(a, "activate")'
    BY <1>3, <2>1 DEF Under, At, Of
  <2>3. /\ verdict'[Of(c)] = "freeze" /\ flags'[Of(c)] > 0
        /\ \A a \in Accounts \ {Of(c)} :
             /\ verdict'[a] = verdict[a] /\ flags'[a] = flags[a]
             /\ a \in frozen' <=> a \in frozen
    BY <1>6, <2>1 DEF Freeze, StandingFit
  <2> QED
    BY <1>1, <1>2, <1>4, <1>5, <2>2, <2>3 DEF Decided
<1>7. CASE Activate(c)
  <2>1. At(c, "activate") /\ UNCHANGED <<flags, verdict>> /\ frozen' = frozen \ {Of(c)}
    BY <1>7 DEF Activate
  <2>2. \A a \in Accounts \ {Of(c)} : Under(a, "activate") => Under(a, "activate")'
    BY <1>3 DEF Under, At, Of
  <2> QED
    BY <1>1, <1>2, <1>4, <1>5, <2>1, <2>2 DEF Decided
<1>8. ASSUME NEW a \in Accounts, LiftFlags(c, a)
      PROVE  Decided'
  <2>1. /\ call[c].at = "idle" /\ call'[c].at = "activate" /\ call'[c].account = a
        /\ UNCHANGED frozen
    BY <1>8 DEF LiftFlags, Starts, Idle, CodesFit, CallsFit
  <2>2. /\ Under(a, "activate")'
        /\ \A b \in Accounts : Under(b, "activate") => Under(b, "activate")'
    BY <1>3, <2>1 DEF Under, At, Of
  <2>3. /\ verdict'[a] = "unfreeze" /\ flags'[a] = 0
        /\ \A b \in Accounts \ {a} : verdict'[b] = verdict[b] /\ flags'[b] = flags[b]
    BY <1>8 DEF LiftFlags, Lifted, StandingFit
  <2> QED
    BY <1>1, <1>2, <1>4, <2>1, <2>2, <2>3 DEF Decided
<1> QED
  BY <1>5, <1>6, <1>7, <1>8

\* A call that dies leaves its account with a death.
LEMMA DeathKeeps ==
  ASSUME Fit, Earned, Decided, NEW c \in Calls, CallDies(c),
         UNCHANGED standingVars
  PROVE  Earned' /\ Decided'
<1> USE DEF Fit
<1>1. /\ \A a \in Accounts : Approved(a)' <=> Approved(a)
      /\ \A a \in Accounts : HasIdentity(a)' <=> HasIdentity(a)
  BY DEF standingVars, Approved, HasIdentity
<1>2. call'[c].at = "idle" /\ \A b \in Calls \ {c} : call'[b] = call[b]
  BY DEF CallDies, Idle, CodesFit, CallsFit
<1>3. /\ \A b \in Calls : At(b, "raise")' => At(b, "raise") /\ Of(b)' = Of(b)
      /\ \A b \in Calls : At(b, "raise") => Of(b) \in Accounts
  BY <1>2 DEF At, Of, CodesFit, CallsFit, RowsFit
<1>4. Earned'
  BY <1>1, <1>3 DEF Earned, standingVars
<1>5. Of(c) \in Accounts
  BY DEF CallDies, CodesFit, CallsFit, RowsFit
<1>6. /\ deaths'[Of(c)] > 0
      /\ \A a \in Accounts \ {Of(c)} : deaths'[a] = deaths[a]
  BY <1>5, CodesAssumption DEF CallDies, CodesFit, CountsFit
<1>7. \A a \in Accounts \ {Of(c)} :
        /\ Under(a, "raise") => Under(a, "raise")'
        /\ Under(a, "activate") => Under(a, "activate")'
  BY <1>2 DEF Under, At, Of
<1>8. Decided'
  BY <1>1, <1>6, <1>7 DEF Decided, standingVars
<1> QED
  BY <1>4, <1>8

\* Every step keeps both invariants.
LEMMA StepKeeps ==
  Fit /\ Earned /\ Decided /\ [StandingNext]_allVars => Earned' /\ Decided'
<1> SUFFICES ASSUME Fit, Earned, Decided, [StandingNext]_allVars
             PROVE  Earned' /\ Decided'
  OBVIOUS
<1>1. CASE CodesStep /\ UNCHANGED standingVars
  BY <1>1, DeathKeeps, CodesStepPlain, PlainKeeps
<1>2. CASE UNCHANGED allVars
  <2>1. Plain /\ UNCHANGED <<standingVars, deaths>>
    BY <1>2 DEF allVars, callVars, Plain
  <2> QED
    BY <2>1, PlainKeeps
<1>3. CASE StandingStep
  <2>1. Calls # {}
    BY CodesAssumption
  <2>2. CASE \E d \in Docs : Reject(d)
    BY <2>1, <2>2, DocsKeep
  <2>3. ASSUME NEW c \in Calls,
               \/ \E a \in Accounts : \/ SubmitCheck(c, a) \/ StartLink(c, a)
                                      \/ FreezeCheck(c, a) \/ Complete(c, a)
               \/ StartSignIn(c) \/ CommitHandoff(c)
               \/ \E p \in Persons : Callback(c, p)
        PROVE  Earned' /\ Decided'
    BY <2>3, FlowsPlain, PlainKeeps
  <2> QED
    BY <1>3, <2>2, <2>3, DocsKeep, IdentitiesKeep, FreezesKeep DEF StandingStep
<1> QED
  BY <1>1, <1>2, <1>3 DEF StandingNext

\* At the start nobody has a tier and nothing is decided.
LEMMA InitKeeps == StandingInit => Earned /\ Decided
BY DEF StandingInit, Earned, Decided, Approved, NoDoc, At, Idle

\* Whatever submissions, reviews, links, freezes and lifts overlap, a tier is
\* an approval's or a single identity's, and the last freeze holds.
THEOREM StandingEarned == StandingSpec => []StandingIsEarned
<1>1. Fit /\ Earned /\ Decided => StandingIsEarned
  <2> SUFFICES ASSUME Fit, Earned, Decided, NEW a \in Accounts
               PROVE  /\ tier[a] >= 1 => Approved(a) \/ OwnIdentity(a)
                      /\ verdict[a] = "freeze" => IsFrozen(a)
    BY DEF StandingIsEarned
  <2>1. tier[a] \in {0, 1}
    BY DEF Fit, StandingFit
  <2>2. ASSUME HasIdentity(a) PROVE OwnIdentity(a)
    <3>1. PICK p \in Persons : <<p, a>> \in identity
      BY <2>2 DEF HasIdentity
    <3>2. \A b \in Accounts : <<p, b>> \in identity => b = a
      BY <3>1 DEF Earned
    <3>3. \A q \in Persons : <<q, a>> \in identity => q = p
      BY <3>1 DEF Earned
    <3> QED
      BY <3>1, <3>2, <3>3 DEF OwnIdentity, Elsewhere
  <2> QED
    BY <2>1, <2>2 DEF Earned, Decided, IsFrozen
<1> QED
  BY <1>1, InitFit, StepFit, InitKeeps, StepKeeps, PTL DEF StandingSpec

\* In particular of whoever passes the gates of LedgerService.
COROLLARY MoneyMoversEarnedIt ==
  StandingSpec => [](\A a \in Accounts : MayMoveMoney(a) =>
                       /\ a \in exists
                       /\ Approved(a) \/ OwnIdentity(a)
                       /\ verdict[a] # "freeze")
<1>1. Fit /\ StandingIsEarned => \A a \in Accounts : MayMoveMoney(a) =>
                                   /\ a \in exists
                                   /\ Approved(a) \/ OwnIdentity(a)
                                   /\ verdict[a] # "freeze"
  BY DEF Fit, CodesFit, RowsFit, StandingIsEarned, MayMoveMoney
<1> QED
  BY <1>1, StandingShape, StandingEarned, PTL

\* Once no call is at work on an account and none of its calls has died, its
\* approval has its tier and its last freeze or lift is in force.
THEOREM StandingDecisions == StandingSpec => []DecisionsTakeEffect
<1>1. Fit /\ Earned /\ Decided => DecisionsTakeEffect
  <2> SUFFICES ASSUME Fit, Decided, NEW a \in Accounts, deaths[a] = 0,
                      \A c \in Calls : Of(c) # a
               PROVE  /\ Approved(a) => tier[a] = 1
                      /\ verdict[a] # "none" => (IsFrozen(a) <=> verdict[a] = "freeze")
    BY DEF DecisionsTakeEffect
  <2>1. ~Under(a, "raise") /\ ~Under(a, "activate") /\ ~(deaths[a] > 0)
    BY DEF Under
  <2>2. verdict[a] \in {"none", "freeze", "unfreeze"}
    BY DEF Fit, StandingFit
  <2> QED
    BY <2>1, <2>2 DEF Decided, IsFrozen
<1> QED
  BY <1>1, InitFit, StepFit, InitKeeps, StepKeeps, PTL DEF StandingSpec

-----------------------------------------------------------------------------
(* Counting.  A code's wrong guesses are its attempts, or are under way, or   *)
(* belonged to calls that died; and a code not yet inserted has a call that   *)
(* will insert it.                                                            *)

Bumping(a, i) == {c \in Calls : At(c, "bump") /\ Of(c) = a /\ Item(c) = i}
Issuing(a) == {c \in Calls : call[c].at \in {"retire", "code"} /\ Of(c) = a}

GuessesCounted ==
    \A a \in Accounts : \A i \in 1 .. Len(codes[a]) :
        /\ guesses[a][i] <= codes[a][i].attempts + Cardinality(Bumping(a, i))
                              + deaths[a]
        /\ guesses[a][i] <= MaxAttempts + Cardinality(Calls) - 1 + deaths[a]

CodesCounted ==
    \A a \in Accounts :
        Len(codes[a]) + Cardinality(Issuing(a)) < IssueLimit + Cardinality(Calls)

\* Cardinalities of sets of calls.
LEMMA CallSets ==
  ASSUME NEW S \in SUBSET Calls, NEW T \in SUBSET Calls
  PROVE  /\ Cardinality(S) \in Nat /\ Cardinality(T) \in Nat
         /\ Cardinality(Calls) \in Nat /\ Cardinality(Calls) > 0
         /\ Cardinality(S) <= Cardinality(Calls)
         /\ S \subseteq T => Cardinality(S) <= Cardinality(T)
         /\ \A c \in S : S \ {c} \subseteq T => Cardinality(S) - 1 <= Cardinality(T)
         /\ \A c \in T : c \notin S /\ S \subseteq T
              => Cardinality(S) + 1 <= Cardinality(T)
<1>1. IsFiniteSet(Calls) /\ Calls # {}
  BY CodesAssumption
<1>2. IsFiniteSet(S) /\ IsFiniteSet(T)
  BY <1>1, FS_Subset
<1>3. /\ Cardinality(S) \in Nat /\ Cardinality(T) \in Nat
      /\ Cardinality(Calls) \in Nat /\ Cardinality(Calls) # 0
  BY <1>1, <1>2, FS_CardinalityType, FS_EmptySet
<1>4. Cardinality(S) <= Cardinality(Calls)
  BY <1>1, FS_Subset
<1>5. S \subseteq T => Cardinality(S) <= Cardinality(T)
  BY <1>2, FS_Subset
<1>6. ASSUME NEW c \in S, S \ {c} \subseteq T
      PROVE  Cardinality(S) - 1 <= Cardinality(T)
  <2>1. Cardinality(S \ {c}) = Cardinality(S) - 1
    BY <1>2, FS_RemoveElement
  <2>2. Cardinality(S \ {c}) <= Cardinality(T)
    BY <1>2, <1>6, FS_Subset
  <2> QED
    BY <2>1, <2>2
<1>7. ASSUME NEW c \in T, c \notin S, S \subseteq T
      PROVE  Cardinality(S) + 1 <= Cardinality(T)
  <2>1. Cardinality(S \cup {c}) = Cardinality(S) + 1
    BY <1>2, <1>7, FS_AddElement
  <2>2. Cardinality(S \cup {c}) <= Cardinality(T)
    BY <1>2, <1>7, FS_Subset
  <2> QED
    BY <2>1, <2>2
<1> QED
  BY <1>3, <1>4, <1>5, <1>6, <1>7

\* Guesses, attempts and deaths are natural numbers.
Numbers ==
    \A a \in Accounts : \A i \in 1 .. Len(codes[a]) :
        /\ guesses[a][i] \in Nat /\ codes[a][i].attempts \in Nat
        /\ deaths[a] \in Nat

\* The counts are numbers in every state of the right shape.
LEMMA CountsAreNumbers == CodesFit => Numbers
<1> SUFFICES ASSUME CodesFit, NEW a \in Accounts, NEW i \in 1 .. Len(codes[a])
             PROVE  /\ guesses[a][i] \in Nat /\ codes[a][i].attempts \in Nat
                    /\ deaths[a] \in Nat
  BY DEF Numbers
<1>1. /\ codes[a] \in Seq(CodeRows) /\ guesses[a] \in Seq(Nat)
      /\ i \in 1 .. Len(guesses[a])
  BY DEF CodesFit, RowsFit
<1>2. codes[a][i] \in CodeRows /\ guesses[a][i] \in Nat
  BY <1>1, ElementOfSeq
<1> QED
  BY <1>2, CodesAssumption DEF CodeRows, CodesFit, CountsFit

\* Calls that are about to count a guess stay.
LEMMA SameCountsKeep ==
  ASSUME CodesFit, CodesFit', GuessesCounted, SameCounts, UNCHANGED deaths,
         \A c \in Calls : call'[c] = call[c] \/ call[c].at # "bump"
  PROVE  GuessesCounted'
<1> SUFFICES ASSUME NEW a \in Accounts, NEW i \in 1 .. Len(codes'[a])
             PROVE  /\ guesses'[a][i] <= codes'[a][i].attempts +
                         Cardinality(Bumping(a, i)') + deaths'[a]
                    /\ guesses'[a][i] <= MaxAttempts + Cardinality(Calls) - 1 +
                         deaths'[a]
  BY DEF GuessesCounted
<1>1. Bumping(a, i) \in SUBSET Calls /\ Bumping(a, i)' \in SUBSET Calls
  BY DEF Bumping
<1>2. Bumping(a, i) \subseteq Bumping(a, i)'
  BY DEF Bumping, At, Of, Item
<1>3. /\ guesses'[a][i] \in Nat /\ codes'[a][i].attempts \in Nat
      /\ deaths'[a] \in Nat
  <2>1. Numbers'
    BY CountsAreNumbers, PTL
  <2> QED
    BY <2>1 DEF Numbers
<1>4. /\ Cardinality(Bumping(a, i)) \in Nat
      /\ Cardinality(Bumping(a, i)) <= Cardinality(Bumping(a, i)')
      /\ Cardinality(Bumping(a, i)') \in Nat
      /\ Cardinality(Calls) \in Nat /\ Cardinality(Calls) > 0
  BY <1>1, <1>2, CallSets
<1>5. MaxAttempts \in Nat
  BY CodesAssumption
<1>6. CASE /\ i \in 1 .. Len(codes[a])
           /\ codes'[a][i].attempts = codes[a][i].attempts
           /\ guesses'[a][i] = guesses[a][i]
  <2>1. /\ guesses[a][i] <= codes[a][i].attempts +
             Cardinality(Bumping(a, i)) + deaths[a]
        /\ guesses[a][i] <= MaxAttempts + Cardinality(Calls) - 1 + deaths[a]
    BY <1>6 DEF GuessesCounted
  <2>2. guesses'[a][i] <= MaxAttempts + Cardinality(Calls) - 1 + deaths'[a]
    BY <1>6, <2>1
  <2>3. guesses'[a][i] <= codes'[a][i].attempts + Cardinality(Bumping(a, i))
                            + deaths'[a]
    BY <1>6, <2>1
  <2>4. \A x, y, g, n, d \in Nat : x <= y /\ g <= n + x + d => g <= n + y + d
    OBVIOUS
  <2>5. guesses'[a][i] <= codes'[a][i].attempts + Cardinality(Bumping(a, i)')
                            + deaths'[a]
    BY <1>3, <1>4, <2>3, <2>4
  <2> QED
    BY <2>2, <2>5
<1>7. CASE guesses'[a][i] = 0
  <2>1. \A x, y, m, z, d \in Nat : z > 0 => 0 <= x + y + d /\ 0 <= m + z - 1 + d
    OBVIOUS
  <2> QED
    BY <1>3, <1>4, <1>5, <1>7, <2>1
<1> QED
  BY <1>6, <1>7 DEF SameCounts

\* A wrong guess is at a code that is not locked, and is now under way.
LEMMA GuessKeeps ==
  ASSUME CodesFit, GuessesCounted, NEW c \in Calls, NEW a \in Accounts,
         Guess(c, a, FALSE)
  PROVE  GuessesCounted'
<1>1. PICK n \in 1 .. Len(codes[a]) :
        /\ UNCHANGED codes /\ codes[a][n].attempts < MaxAttempts
        /\ call' = [call EXCEPT ![c] =
                      [at |-> "bump", account |-> a, item |-> n]]
        /\ \A b \in Accounts : \A j \in 1 .. Len(codes[b]) :
             guesses'[b][j] = IF b = a /\ j = n THEN guesses[a][n] + 1
                              ELSE guesses[b][j]
  BY GuessFit
<1>2. /\ call[c].at = "idle" /\ call'[c].at = "bump" /\ call'[c].account = a
      /\ call'[c].item = n /\ \A d \in Calls \ {c} : call'[d] = call[d]
      /\ UNCHANGED deaths
  BY <1>1 DEF Guess, Starts, Idle, CodesFit, CallsFit
<1>3. Numbers
  BY CountsAreNumbers
<1> SUFFICES ASSUME NEW b \in Accounts, NEW i \in 1 .. Len(codes[b])
             PROVE  /\ guesses'[b][i] <= codes[b][i].attempts +
                         Cardinality(Bumping(b, i)') + deaths[b]
                    /\ guesses'[b][i] <= MaxAttempts + Cardinality(Calls) - 1 +
                         deaths[b]
  BY <1>1, <1>2 DEF GuessesCounted
<1>4. /\ guesses[b][i] \in Nat /\ codes[b][i].attempts \in Nat /\ deaths[b] \in Nat
      /\ guesses[b][i] <= codes[b][i].attempts +
           Cardinality(Bumping(b, i)) + deaths[b]
      /\ guesses[b][i] <= MaxAttempts + Cardinality(Calls) - 1 + deaths[b]
  BY <1>3 DEF Numbers, GuessesCounted
<1>5. /\ Bumping(b, i) \in SUBSET Calls /\ Bumping(b, i)' \in SUBSET Calls
      /\ Bumping(b, i) \subseteq Bumping(b, i)' /\ c \notin Bumping(b, i)
      /\ b = a /\ i = n => c \in Bumping(b, i)'
  BY <1>2 DEF Bumping, At, Of, Item
<1>6. /\ Cardinality(Bumping(b, i)) \in Nat /\ Cardinality(Bumping(b, i)') \in Nat
      /\ Cardinality(Bumping(b, i)) <= Cardinality(Bumping(b, i)')
      /\ b = a /\ i = n
           => /\ Cardinality(Bumping(b, i)) + 1 <= Cardinality(Bumping(b, i)')
              /\ Cardinality(Bumping(b, i)') <= Cardinality(Calls)
      /\ Cardinality(Calls) \in Nat
  BY <1>5, CallSets
<1>7. \A x, y, g, k, d \in Nat :
        /\ x <= y /\ g <= k + x + d => g <= k + y + d
        /\ x + 1 <= y /\ g <= k + x + d => g + 1 <= k + y + d
  OBVIOUS
<1>8. CASE b = a /\ i = n
  <2>1. guesses'[b][i] = guesses[b][i] + 1
    BY <1>1, <1>8
  <2>2. guesses[b][i] + 1 <= codes[b][i].attempts +
                               Cardinality(Bumping(b, i)') + deaths[b]
    BY <1>4, <1>6, <1>7, <1>8
  <2>3. \A g, y, z, k, m, d \in Nat :
          g <= k + y + d /\ y <= z /\ k < m => g <= m + z - 1 + d
    OBVIOUS
  <2>4. codes[b][i].attempts < MaxAttempts /\ MaxAttempts \in Nat
        /\ guesses[b][i] + 1 \in Nat
    BY <1>1, <1>4, <1>8, CodesAssumption
  <2>5. guesses[b][i] + 1 <= MaxAttempts + Cardinality(Calls) - 1 + deaths[b]
    BY <1>4, <1>6, <1>8, <2>2, <2>3, <2>4
  <2> QED
    BY <2>1, <2>2, <2>5
<1>9. CASE ~(b = a /\ i = n)
  <2>1. guesses'[b][i] = guesses[b][i]
    BY <1>1, <1>9
  <2>2. guesses[b][i] <= codes[b][i].attempts +
                           Cardinality(Bumping(b, i)') + deaths[b]
    BY <1>4, <1>6, <1>7
  <2> QED
    BY <1>4, <2>1, <2>2
<1> QED
  BY <1>8, <1>9

\* Counted, it is no longer under way.
LEMMA BumpKeeps ==
  ASSUME CodesFit, GuessesCounted, NEW c \in Calls, Bump(c)
  PROVE  GuessesCounted'
<1>1. /\ UNCHANGED guesses
      /\ \A b \in Accounts : \A j \in 1 .. Len(codes'[b]) :
           /\ j \in 1 .. Len(codes[b])
           /\ codes'[b][j].attempts = codes[b][j].attempts +
                (IF b = Of(c) /\ j = Item(c) THEN 1 ELSE 0)
  BY BumpFit
<1>2. /\ UNCHANGED deaths /\ \A d \in Calls \ {c} : call'[d] = call[d]
  BY DEF Bump, Ends, CodesFit, CallsFit
<1>3. Numbers
  BY CountsAreNumbers
<1> SUFFICES ASSUME NEW b \in Accounts, NEW i \in 1 .. Len(codes'[b])
             PROVE  /\ guesses'[b][i] <= codes'[b][i].attempts +
                         Cardinality(Bumping(b, i)') + deaths'[b]
                    /\ guesses'[b][i] <= MaxAttempts + Cardinality(Calls) - 1 +
                         deaths'[b]
  BY DEF GuessesCounted
<1> DEFINE k == codes'[b][i].attempts
<1>4. /\ i \in 1 .. Len(codes[b]) /\ guesses'[b][i] = guesses[b][i]
      /\ deaths'[b] = deaths[b]
      /\ k = codes[b][i].attempts + (IF b = Of(c) /\ i = Item(c) THEN 1 ELSE 0)
  BY <1>1, <1>2
<1>5. /\ guesses[b][i] \in Nat /\ codes[b][i].attempts \in Nat /\ deaths[b] \in Nat
      /\ guesses[b][i] <= codes[b][i].attempts +
           Cardinality(Bumping(b, i)) + deaths[b]
      /\ guesses[b][i] <= MaxAttempts + Cardinality(Calls) - 1 + deaths[b]
  BY <1>4, <1>3 DEF Numbers, GuessesCounted
<1>6. /\ Bumping(b, i) \in SUBSET Calls /\ Bumping(b, i)' \in SUBSET Calls
      /\ Bumping(b, i) \ {c} \subseteq Bumping(b, i)'
      /\ c \in Bumping(b, i) => b = Of(c) /\ i = Item(c)
  BY <1>2 DEF Bumping, At, Of, Item
<1>7. /\ Cardinality(Bumping(b, i)) \in Nat /\ Cardinality(Bumping(b, i)') \in Nat
      /\ c \in Bumping(b, i)
           => Cardinality(Bumping(b, i)) - 1 <= Cardinality(Bumping(b, i)')
      /\ c \notin Bumping(b, i)
           => Cardinality(Bumping(b, i)) <= Cardinality(Bumping(b, i)')
  BY <1>6, CallSets
<1>8. \A x, y, g, m, d \in Nat :
        /\ x <= y /\ g <= m + x + d => g <= m + y + d /\ g <= m + 1 + y + d
        /\ x - 1 <= y /\ g <= m + x + d => g <= m + 1 + y + d
  OBVIOUS
<1> HIDE DEF k
<1>9. guesses[b][i] <= k + Cardinality(Bumping(b, i)') + deaths[b]
  <2>1. CASE b = Of(c) /\ i = Item(c)
    <3>1. k = codes[b][i].attempts + 1
      BY <1>4, <2>1
    <3>2. guesses[b][i] <= codes[b][i].attempts + 1 +
                             Cardinality(Bumping(b, i)') + deaths[b]
      BY <1>5, <1>7, <1>8
    <3> QED
      BY <3>1, <3>2
  <2>2. CASE ~(b = Of(c) /\ i = Item(c))
    <3>1. k = codes[b][i].attempts /\ c \notin Bumping(b, i)
      BY <1>4, <1>5, <1>6, <2>2
    <3>2. guesses[b][i] <= codes[b][i].attempts +
                             Cardinality(Bumping(b, i)') + deaths[b]
      BY <1>5, <1>7, <1>8, <3>1
    <3> QED
      BY <3>1, <3>2
  <2> QED
    BY <2>1, <2>2
<1> QED
  BY <1>4, <1>5, <1>9 DEF k

\* The guesses of a call that died before it counted them.
LEMMA DeathKeepsCounts ==
  ASSUME CodesFit, GuessesCounted, NEW c \in Calls, CallDies(c)
  PROVE  GuessesCounted'
<1>1. Of(c) \in Accounts
  BY DEF CallDies, CodesFit, CallsFit, RowsFit
<1>2. /\ UNCHANGED <<codes, guesses>>
      /\ \A d \in Calls \ {c} : call'[d] = call[d]
      /\ \A b \in Accounts :
           deaths'[b] = deaths[b] + (IF b = Of(c) THEN 1 ELSE 0)
  BY <1>1, CodesAssumption
     DEF CallDies, codeVars, CodesFit, CallsFit, CountsFit
<1>3. Numbers
  BY CountsAreNumbers
<1> SUFFICES ASSUME NEW b \in Accounts, NEW i \in 1 .. Len(codes[b]),
                    NEW e \in Nat,
                    e = deaths[b] + (IF b = Of(c) THEN 1 ELSE 0)
             PROVE  /\ guesses[b][i] <= codes[b][i].attempts +
                         Cardinality(Bumping(b, i)') + e
                    /\ guesses[b][i] <= MaxAttempts + Cardinality(Calls) - 1 + e
  BY <1>2, <1>3 DEF GuessesCounted, Numbers
<1>4. /\ guesses[b][i] \in Nat /\ codes[b][i].attempts \in Nat /\ deaths[b] \in Nat
      /\ guesses[b][i] <= codes[b][i].attempts +
           Cardinality(Bumping(b, i)) + deaths[b]
      /\ guesses[b][i] <= MaxAttempts + Cardinality(Calls) - 1 + deaths[b]
  BY <1>3 DEF Numbers, GuessesCounted
<1>5. /\ Bumping(b, i) \in SUBSET Calls /\ Bumping(b, i)' \in SUBSET Calls
      /\ Bumping(b, i) \ {c} \subseteq Bumping(b, i)'
      /\ c \in Bumping(b, i) => b = Of(c)
  BY <1>2 DEF Bumping, At, Of, Item
<1>6. /\ Cardinality(Bumping(b, i)) \in Nat /\ Cardinality(Bumping(b, i)') \in Nat
      /\ c \in Bumping(b, i)
           => Cardinality(Bumping(b, i)) - 1 <= Cardinality(Bumping(b, i)')
      /\ c \notin Bumping(b, i)
           => Cardinality(Bumping(b, i)) <= Cardinality(Bumping(b, i)')
      /\ Cardinality(Calls) \in Nat
  BY <1>5, CallSets
<1>7. \A x, y, g, m, d \in Nat :
        /\ x <= y /\ g <= m + x + d => g <= m + y + d /\ g <= m + y + (d + 1)
        /\ x - 1 <= y /\ g <= m + x + d => g <= m + y + (d + 1)
  OBVIOUS
<1>8. guesses[b][i] <= codes[b][i].attempts + Cardinality(Bumping(b, i)') + e
  <2>1. CASE b = Of(c)
    <3>1. e = deaths[b] + 1
      BY <2>1
    <3>2. guesses[b][i] <= codes[b][i].attempts +
                             Cardinality(Bumping(b, i)') + (deaths[b] + 1)
      BY <1>4, <1>6, <1>7
    <3> QED
      BY <3>1, <3>2
  <2>2. CASE b # Of(c)
    <3>1. e = deaths[b] /\ c \notin Bumping(b, i)
      BY <1>4, <1>5, <2>2
    <3>2. guesses[b][i] <= codes[b][i].attempts +
                             Cardinality(Bumping(b, i)') + deaths[b]
      BY <1>4, <1>6, <1>7, <3>1
    <3> QED
      BY <3>1, <3>2
  <2> QED
    BY <2>1, <2>2
<1>9. MaxAttempts \in Nat /\ deaths[b] <= e
  BY <1>4, CodesAssumption
<1>10. \A g, m, n, d, f \in Nat : g <= m + n - 1 + d /\ d <= f => g <= m + n - 1 + f
  OBVIOUS
<1> QED
  BY <1>4, <1>6, <1>8, <1>9, <1>10

\* Only Bump and a death take a guess that is under way away.
LEMMA OthersKeepBumps ==
  ASSUME Fit, NEW c \in Calls,
         \/ Quietly(c) \/ \E a \in Accounts : Guess(c, a, TRUE)
  PROVE  /\ UNCHANGED deaths
         /\ \A d \in Calls : call'[d] = call[d] \/ call[d].at # "bump"
<1>1. call[c].at # "bump" /\ UNCHANGED deaths
  BY DEF Quietly, Register, AskCode, RetireOlder, InsertCode, SetHash, UseCode,
         SetVerified, Guess, Starts, Goes, Ends, At, Idle
<1>2. \E r : call' = [call EXCEPT ![c] = r]
  BY DEF Quietly, Register, AskCode, RetireOlder, InsertCode, SetHash, UseCode,
         SetVerified, Guess, Starts, Goes, Ends
<1>3. \A d \in Calls \ {c} : call'[d] = call[d]
  BY <1>2 DEF Fit, CodesFit, CallsFit
<1> QED
  BY <1>1, <1>3

\* No call dies in a step of module Standing itself.
LEMMA StandingStepDeaths ==
  ASSUME StandingStep
  PROVE  UNCHANGED deaths
BY DEF StandingStep, SubmitCheck, StartLink, Complete, FreezeCheck, LiftFlags,
       SubmitInsert, Approve, Reject, Callback, RaiseTier, StartSignIn,
       CommitHandoff, Attach, Freeze, Activate, Starts, Goes, Ends, callVars

\* Every step keeps the count of the guesses.
LEMMA StepKeepsCounts ==
  Fit /\ GuessesCounted /\ [StandingNext]_allVars => GuessesCounted'
<1> SUFFICES ASSUME Fit, GuessesCounted, [StandingNext]_allVars
             PROVE  GuessesCounted'
  OBVIOUS
<1>1. Fit'
  BY StepFit
<1> USE DEF Fit
<1>2. CASE StandingStep
  <2>1. \A c \in Calls : call'[c] = call[c] \/ call[c].at # "bump"
    BY <1>2, StandingStepCodes DEF QuietCalls, CodePlaces
  <2> QED
    BY <1>1, <1>2, <2>1, StandingStepCodes, StandingStepDeaths, SameCountsKeep
<1>3. CASE UNCHANGED allVars
  <2>1. UNCHANGED <<codes, guesses, call, deaths>>
    BY <1>3 DEF allVars, codeVars, callVars
  <2>2. SameCounts /\ \A c \in Calls : call'[c] = call[c]
    BY <2>1 DEF SameCounts
  <2> QED
    BY <1>1, <2>1, <2>2, SameCountsKeep
<1>4. CASE \E a \in Accounts : Expire(a)
  <2>1. SameCounts
    BY <1>4, ExpireFit
  <2>2. UNCHANGED <<call, deaths>>
    BY <1>4 DEF Expire, callVars
  <2> QED
    BY <1>1, <2>1, <2>2, SameCountsKeep
<1>5. ASSUME NEW c \in Calls,
             Quietly(c) \/ \E a \in Accounts : Guess(c, a, TRUE)
      PROVE  GuessesCounted'
  <2>1. SameCounts
    BY <1>5, QuietlyFit, GuessFit
  <2> QED
    BY <1>1, <1>5, <2>1, OthersKeepBumps, SameCountsKeep
<1>6. ASSUME NEW c \in Calls, NEW a \in Accounts, Guess(c, a, FALSE)
      PROVE  GuessesCounted'
  BY <1>6, GuessKeeps
<1>7. ASSUME NEW c \in Calls, Bump(c) \/ CallDies(c)
      PROVE  GuessesCounted'
  BY <1>7, BumpKeeps, DeathKeepsCounts
<1>8. CASE CodesStep
  <2>1. \/ \E c \in Calls :
             \/ Quietly(c) \/ Bump(c) \/ CallDies(c)
             \/ \E a \in Accounts : Guess(c, a, TRUE) \/ Guess(c, a, FALSE)
        \/ \E a \in Accounts : Expire(a)
    BY <1>8 DEF CodesStep, Quietly
  <2> QED
    BY <1>4, <1>5, <1>6, <1>7, <2>1
<1> QED
  BY <1>2, <1>3, <1>8 DEF StandingNext

\* However many guesses run at once, a code takes no more wrong ones than its
\* limit, one for each other call, and one for each call that died.
THEOREM StandingGuesses == StandingSpec => []GuessesBounded
<1>1. Fit /\ GuessesCounted => GuessesBounded
  <2> SUFFICES ASSUME Fit, GuessesCounted, NEW a \in Accounts,
                      NEW i \in DOMAIN guesses[a]
               PROVE  guesses[a][i] <= MaxAttempts + Cardinality(Calls) - 1 + deaths[a]
    BY DEF GuessesBounded
  <2>1. guesses[a] \in Seq(Nat) /\ Len(guesses[a]) = Len(codes[a])
    BY DEF Fit, CodesFit, RowsFit
  <2>2. i \in 1 .. Len(codes[a])
    BY <2>1, LenProperties
  <2> QED
    BY <2>2 DEF GuessesCounted
<1>2. StandingInit => GuessesCounted
  BY DEF StandingInit, CodesInit, GuessesCounted
<1> QED
  BY <1>1, <1>2, InitFit, StepFit, StepKeepsCounts, PTL DEF StandingSpec

-----------------------------------------------------------------------------
(* The number of an account's codes: the rate is checked before a call that   *)
(* issues one is counted, so calls side by side go past it, one code each.    *)

\* The codes stay as many, and no call joins those that issue one.
NoneIssues ==
    /\ \A a \in Accounts : Len(codes'[a]) = Len(codes[a])
    /\ \A c \in Calls : call'[c].at \in {"retire", "code"} =>
         call[c].at \in {"retire", "code"} /\ call'[c].account = call[c].account

\* A step that issues no code keeps the count of the codes.
LEMMA NoneIssuesKeeps ==
  ASSUME CodesFit, CodesCounted, NoneIssues
  PROVE  CodesCounted'
<1> SUFFICES ASSUME NEW a \in Accounts
             PROVE  Len(codes'[a]) + Cardinality(Issuing(a)')
                      < IssueLimit + Cardinality(Calls)
  BY DEF CodesCounted
<1>1. Issuing(a)' \subseteq Issuing(a) /\ Issuing(a) \in SUBSET Calls
  BY DEF NoneIssues, Issuing, Of
<1>2. /\ Cardinality(Issuing(a)') \in Nat /\ Cardinality(Issuing(a)) \in Nat
      /\ Cardinality(Issuing(a)') <= Cardinality(Issuing(a))
      /\ Cardinality(Calls) \in Nat
  BY <1>1, CallSets
<1>3. /\ Len(codes'[a]) = Len(codes[a]) /\ Len(codes[a]) \in Nat
      /\ Len(codes[a]) + Cardinality(Issuing(a)) < IssueLimit + Cardinality(Calls)
  BY LenProperties DEF NoneIssues, CodesCounted, CodesFit, RowsFit
<1>4. \A n, x, y, k, m \in Nat : x <= y /\ n + y < k + m => n + x < k + m
  OBVIOUS
<1>5. IssueLimit \in Nat
  BY CodesAssumption
<1> QED
  BY <1>2, <1>3, <1>4, <1>5

\* A call that starts to issue one found the account below its rate.
LEMMA AskKeepsCounted ==
  ASSUME CodesFit, CodesCounted, NEW c \in Calls, NEW a \in Accounts,
         Register(c, a) \/ AskCode(c, a)
  PROVE  CodesCounted'
<1>1. /\ UNCHANGED codes /\ call[c].at = "idle" /\ call'[c].account = a
      /\ \A d \in Calls \ {c} : call'[d] = call[d]
  BY DEF Register, AskCode, Starts, Idle, codeVars, CodesFit, CallsFit
<1>2. Len(codes[a]) < IssueLimit
  BY CodesAssumption DEF Register, AskCode, RecentCodes, CodesFit, RowsFit
<1> SUFFICES ASSUME NEW b \in Accounts
             PROVE  Len(codes[b]) + Cardinality(Issuing(b)')
                      < IssueLimit + Cardinality(Calls)
  BY <1>1 DEF CodesCounted
<1>3. /\ Issuing(b)' \in SUBSET Calls /\ Issuing(b) \in SUBSET Calls
      /\ b # a => Issuing(b)' \subseteq Issuing(b)
  BY <1>1 DEF Issuing, Of
<1>4. /\ Cardinality(Issuing(b)') \in Nat /\ Cardinality(Issuing(b)) \in Nat
      /\ Cardinality(Issuing(b)') <= Cardinality(Calls)
      /\ b # a => Cardinality(Issuing(b)') <= Cardinality(Issuing(b))
      /\ Cardinality(Calls) \in Nat
  BY <1>3, CallSets
<1>5. /\ Len(codes[b]) \in Nat /\ IssueLimit \in Nat
      /\ Len(codes[b]) + Cardinality(Issuing(b)) < IssueLimit + Cardinality(Calls)
  BY LenProperties, CodesAssumption DEF CodesCounted, CodesFit, RowsFit
<1>6. \A n, x, y, k, m \in Nat : /\ x <= y /\ n + y < k + m => n + x < k + m
                                 /\ n < k /\ x <= m => n + x < k + m
  OBVIOUS
<1>7. CASE b = a
  BY <1>2, <1>4, <1>5, <1>6, <1>7
<1>8. CASE b # a
  BY <1>4, <1>5, <1>6, <1>8
<1> QED
  BY <1>7, <1>8

\* A code inserted takes the place of the call that was to insert it.
LEMMA InsertKeepsCounted ==
  ASSUME CodesFit, CodesCounted, NEW c \in Calls, InsertCode(c)
  PROVE  CodesCounted'
<1>1. /\ At(c, "code") /\ Of(c) \in Accounts
      /\ codes' = [codes EXCEPT ![Of(c)] = Append(@, NewCode)]
      /\ codes[Of(c)] \in Seq(CodeRows)
  BY DEF InsertCode, At, CodesFit, CallsFit, RowsFit
<1>2. NewCode \in CodeRows
  BY DEF NewCode, CodeRows
<1>3. Len(Append(codes[Of(c)], NewCode)) = Len(codes[Of(c)]) + 1
  BY <1>1, <1>2, AppendProperties
<1>4. \A b \in Accounts :
        /\ b = Of(c) => Len(codes'[b]) = Len(codes[b]) + 1
        /\ b # Of(c) => Len(codes'[b]) = Len(codes[b])
  BY <1>1, <1>3 DEF CodesFit, RowsFit
<1>5. /\ call'[c].at = "hash" /\ \A d \in Calls \ {c} : call'[d] = call[d]
  BY DEF InsertCode, Goes, CodesFit, CallsFit
<1> SUFFICES ASSUME NEW b \in Accounts
             PROVE  Len(codes'[b]) + Cardinality(Issuing(b)')
                      < IssueLimit + Cardinality(Calls)
  BY DEF CodesCounted
<1>6. /\ Issuing(b)' \in SUBSET Calls /\ Issuing(b) \in SUBSET Calls
      /\ Issuing(b)' \subseteq Issuing(b)
      /\ b = Of(c) => c \in Issuing(b) /\ c \notin Issuing(b)'
  BY <1>1, <1>5 DEF Issuing, At, Of
<1>7. /\ Cardinality(Issuing(b)') \in Nat /\ Cardinality(Issuing(b)) \in Nat
      /\ Cardinality(Issuing(b)') <= Cardinality(Issuing(b))
      /\ b = Of(c) => Cardinality(Issuing(b)') + 1 <= Cardinality(Issuing(b))
      /\ Cardinality(Calls) \in Nat
  BY <1>6, CallSets
<1>8. /\ Len(codes[b]) \in Nat /\ IssueLimit \in Nat
      /\ Len(codes[b]) + Cardinality(Issuing(b)) < IssueLimit + Cardinality(Calls)
  BY LenProperties, CodesAssumption DEF CodesCounted, CodesFit, RowsFit
<1>9. \A n, x, y, k, m \in Nat :
        /\ x <= y /\ n + y < k + m => n + x < k + m
        /\ x + 1 <= y /\ n + y < k + m => (n + 1) + x < k + m
  OBVIOUS
<1>10. CASE b = Of(c)
  <2>1. Len(codes'[b]) = Len(codes[b]) + 1
    BY <1>4, <1>10
  <2>2. (Len(codes[b]) + 1) + Cardinality(Issuing(b)')
          < IssueLimit + Cardinality(Calls)
    BY <1>7, <1>8, <1>9, <1>10
  <2> QED
    BY <2>1, <2>2
<1>11. CASE b # Of(c)
  <2>1. Len(codes'[b]) = Len(codes[b])
    BY <1>4, <1>8, <1>11
  <2>2. Len(codes[b]) + Cardinality(Issuing(b)') < IssueLimit + Cardinality(Calls)
    BY <1>7, <1>8, <1>9
  <2> QED
    BY <2>1, <2>2
<1> QED
  BY <1>10, <1>11

\* No other step issues a code.
LEMMA OthersIssueNone ==
  ASSUME Fit, Fit', CodesStep,
         ~\E c \in Calls : \/ InsertCode(c)
                           \/ \E a \in Accounts : Register(c, a) \/ AskCode(c, a)
  PROVE  NoneIssues
<1> USE DEF Fit
<1>1. \A a \in Accounts : Len(codes'[a]) = Len(codes[a])
  <2>1. UNCHANGED codes \/ UNCHANGED guesses
    BY DEF CodesStep, Guess, RetireOlder, SetHash, Bump, UseCode, SetVerified,
           CallDies, Expire, codeVars
  <2>2. \A a \in Accounts : /\ Len(guesses[a]) = Len(codes[a])
                            /\ Len(guesses'[a]) = Len(codes'[a])
    BY DEF CodesFit, RowsFit
  <2> QED
    BY <2>1, <2>2
<1>2. ASSUME NEW c \in Calls, NEW r, call' = [call EXCEPT ![c] = r],
             \/ r.at \notin {"retire", "code"}
             \/ r.at = "code" /\ call[c].at = "retire" /\ r.account = call[c].account
      PROVE  NoneIssues
  <2>1. call'[c] = r /\ \A d \in Calls \ {c} : call'[d] = call[d]
    BY <1>2 DEF CodesFit, CallsFit
  <2> QED
    BY <1>1, <1>2, <2>1 DEF NoneIssues
<1>3. ASSUME NEW c \in Calls, RetireOlder(c)
      PROVE  NoneIssues
  BY <1>2, <1>3 DEF RetireOlder, Goes, At, Of
<1>4. ASSUME NEW c \in Calls, call' = [call EXCEPT ![c] = Idle]
      PROVE  NoneIssues
  BY <1>2, <1>4 DEF Idle
<1>5. ASSUME NEW c \in Calls,
             SetHash(c) \/ Bump(c) \/ SetVerified(c) \/ CallDies(c)
      PROVE  NoneIssues
  BY <1>4, <1>5 DEF SetHash, Bump, SetVerified, CallDies, Ends
<1>6. ASSUME NEW c \in Calls, UseCode(c)
      PROVE  NoneIssues
  <2>1. Ends(c) \/ Goes(c, "verify", Of(c), NoItem)
    BY <1>6 DEF UseCode
  <2> QED
    BY <1>2, <1>4, <2>1 DEF Ends, Goes
<1>7. ASSUME NEW c \in Calls, NEW a \in Accounts, NEW right \in BOOLEAN,
             Guess(c, a, right)
      PROVE  NoneIssues
  <2> DEFINE place == IF right THEN "use" ELSE "bump"
             r == [at |-> place, account |-> a, item |-> Len(codes[a])]
  <2>1. call' = [call EXCEPT ![c] = r] /\ r.at \notin {"retire", "code"}
    BY <1>7 DEF Guess, Starts
  <2> HIDE DEF r
  <2> QED
    BY <1>2, <2>1
<1>8. ASSUME NEW a \in Accounts, Expire(a)
      PROVE  NoneIssues
  BY <1>1, <1>8 DEF Expire, callVars, NoneIssues
<1> QED
  BY <1>3, <1>5, <1>6, <1>7, <1>8 DEF CodesStep

\* Every step keeps the count of the codes.
LEMMA StepKeepsCodes ==
  Fit /\ CodesCounted /\ [StandingNext]_allVars => CodesCounted'
<1> SUFFICES ASSUME Fit, CodesCounted, [StandingNext]_allVars
             PROVE  CodesCounted'
  OBVIOUS
<1>1. Fit'
  BY StepFit
<1> USE DEF Fit
<1>2. CASE StandingStep
  <2>1. UNCHANGED codes
    BY <1>2 DEF StandingStep, SubmitCheck, StartLink, Complete, FreezeCheck,
         LiftFlags, SubmitInsert, Approve, Reject, Callback, RaiseTier,
         StartSignIn, CommitHandoff, Attach, Freeze, Activate, codeVars
  <2>2. NoneIssues
    BY <1>2, <2>1, StandingStepCodes DEF QuietCalls, CodePlaces, NoneIssues
  <2> QED
    BY <2>2, NoneIssuesKeeps
<1>3. CASE CodesStep
  BY <1>1, <1>3, OthersIssueNone, NoneIssuesKeeps, AskKeepsCounted,
     InsertKeepsCounted
<1>4. CASE UNCHANGED allVars
  BY <1>4, NoneIssuesKeeps DEF allVars, codeVars, callVars, NoneIssues
<1> QED
  BY <1>2, <1>3, <1>4 DEF StandingNext

\* Rows and calls keep their types, and an account never has more codes than
\* the rate allows and one for each other call.
THEOREM StandingTypeCorrect == StandingSpec => []StandingTypeOK
<1>1. Fit /\ CodesCounted => StandingTypeOK
  <2> SUFFICES ASSUME Fit, CodesCounted PROVE StandingTypeOK
    OBVIOUS
  <2> USE DEF Fit
  <2>1. \A a \in Accounts : Len(codes[a]) < IssueLimit + Cardinality(Calls)
    <3> SUFFICES ASSUME NEW a \in Accounts
                 PROVE  Len(codes[a]) < IssueLimit + Cardinality(Calls)
      OBVIOUS
    <3>1. Issuing(a) \in SUBSET Calls
      BY DEF Issuing
    <3>2. Cardinality(Issuing(a)) \in Nat /\ Cardinality(Calls) \in Nat
      BY <3>1, CallSets
    <3>3. Len(codes[a]) \in Nat /\ IssueLimit \in Nat
      BY LenProperties, CodesAssumption DEF CodesFit, RowsFit
    <3> QED
      BY <3>2, <3>3 DEF CodesCounted
  <2>2. CodesTypeOK
    BY <2>1 DEF CodesTypeOK, CodesFit, RowsFit, CodeRows
  <2>3. \A c \in Calls : /\ call[c].at \in CallPlaces
                         /\ call[c].account \in Accounts \cup {NoAccount}
    BY DEF CodesFit, CallsFit, CallRecords
  <2>4. \A d \in Docs : doc[d].status \in {"none", "pending", "approved", "rejected"}
    BY DEF StandingFit
  <2> QED
    BY <2>2, <2>3, <2>4 DEF StandingTypeOK, CodesFit, CountsFit, StandingFit
<1>2. StandingInit => CodesCounted
  <2> SUFFICES ASSUME StandingInit, NEW a \in Accounts
               PROVE  Len(codes[a]) + Cardinality(Issuing(a))
                        < IssueLimit + Cardinality(Calls)
    BY DEF CodesCounted
  <2>1. Issuing(a) = {} /\ Len(codes[a]) = 0
    BY DEF StandingInit, CodesInit, Issuing, Idle
  <2>2. Cardinality({}) = 0 /\ Cardinality(Calls) \in Nat /\ IssueLimit \in Nat \ {0}
    BY CodesAssumption, FS_EmptySet, FS_CardinalityType
  <2> QED
    BY <2>1, <2>2
<1> QED
  BY <1>1, <1>2, InitFit, StepFit, StepKeepsCodes, PTL DEF StandingSpec
=============================================================================
