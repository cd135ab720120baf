---------------------------- MODULE BooksProofs ----------------------------
(***************************************************************************)
(* Lemmas about sums and about the books that the proofs of the components *)
(* on the books share.                                                     *)
(***************************************************************************)
EXTENDS Books, FiniteSetTheorems, TLAPS

-----------------------------------------------------------------------------
(* Sums. *)

\* The units of one summand are as many as it says.
LEMMA TokensOfOne ==
  ASSUME NEW x, NEW n \in Nat
  PROVE  IsFiniteSet({x} \X (1 .. n)) /\ Cardinality({x} \X (1 .. n)) = n
<1>1. IsFiniteSet(1 .. n) /\ Cardinality(1 .. n) = n
  BY FS_Interval
<1>2. IsFiniteSet({x}) /\ Cardinality({x}) = 1
  BY FS_Singleton
<1> QED
  BY <1>1, <1>2, FS_Product

\* A finite sum of natural numbers is one.
LEMMA SumType ==
  ASSUME NEW S, IsFiniteSet(S), NEW f, \A x \in S : f[x] \in Nat
  PROVE  IsFiniteSet(Tokens(f, S)) /\ SumOver(f, S) \in Nat
<1> DEFINE g == [x \in S |-> {x} \X (1 .. f[x])]
           images == {{x} \X (1 .. f[x]) : x \in S}
<1>1. g \in Surjection(S, images)
  BY DEF Surjection
<1>2. \A T \in images : IsFiniteSet(T)
  <2>1. ASSUME NEW x \in S PROVE IsFiniteSet({x} \X (1 .. f[x]))
    BY TokensOfOne
  <2> QED
    BY <2>1
<1> HIDE DEF g, images
<1>3. IsFiniteSet(UNION images)
  BY <1>1, <1>2, FS_Surjection, FS_UNION
<1>4. Tokens(f, S) = UNION images
  BY DEF Tokens, images
<1> QED
  BY <1>3, <1>4, FS_CardinalityType DEF SumOver

\* The empty sum.
LEMMA SumEmpty == ASSUME NEW f PROVE SumOver(f, {}) = 0
<1>1. Tokens(f, {}) = {}
  BY DEF Tokens
<1> QED
  BY <1>1, FS_EmptySet DEF SumOver

\* Only the summands matter.
LEMMA SumSame ==
  ASSUME NEW S, NEW f, NEW g, \A x \in S : f[x] = g[x]
  PROVE  SumOver(f, S) = SumOver(g, S)
<1>1. Tokens(f, S) = Tokens(g, S)
  BY DEF Tokens
<1> QED
  BY <1>1 DEF SumOver

\* One more summand.
LEMMA SumAdd ==
  ASSUME NEW S, IsFiniteSet(S), NEW x, x \notin S, NEW f,
         \A y \in S \cup {x} : f[y] \in Nat
  PROVE  SumOver(f, S \cup {x}) = SumOver(f, S) + f[x]
<1> DEFINE more == {x} \X (1 .. f[x])
<1>1. Tokens(f, S \cup {x}) = Tokens(f, S) \cup more
  BY DEF Tokens
<1>2. Tokens(f, S) \cap more = {}
  BY DEF Tokens
<1>3. /\ IsFiniteSet(Tokens(f, S)) /\ Cardinality(Tokens(f, S)) \in Nat
      /\ IsFiniteSet(more) /\ Cardinality(more) = f[x] /\ f[x] \in Nat
  BY SumType, TokensOfOne DEF SumOver
<1> HIDE DEF more
<1>4. Cardinality(Tokens(f, S) \cup more)
        = Cardinality(Tokens(f, S)) + Cardinality(more)
            - Cardinality(Tokens(f, S) \cap more)
  BY <1>3, FS_Union
<1>5. Cardinality(Tokens(f, S) \cap more) = 0
  BY <1>2, FS_EmptySet
<1>6. Cardinality(Tokens(f, S \cup {x})) = Cardinality(Tokens(f, S) \cup more)
  BY <1>1
<1> QED
  BY <1>3, <1>4, <1>5, <1>6 DEF SumOver

\* One summand less.
LEMMA SumRemove ==
  ASSUME NEW S, IsFiniteSet(S), NEW x \in S, NEW f, \A y \in S : f[y] \in Nat
  PROVE  SumOver(f, S \ {x}) = SumOver(f, S) - f[x]
<1> DEFINE rest == S \ {x}
<1>1. /\ IsFiniteSet(rest) /\ x \notin rest
      /\ \A y \in rest \cup {x} : f[y] \in Nat
  BY FS_RemoveElement
<1>2. rest \cup {x} = S
  OBVIOUS
<1>3. SumOver(f, rest) \in Nat /\ f[x] \in Nat
  BY <1>1, SumType
<1> HIDE DEF rest
<1>4. SumOver(f, rest \cup {x}) = SumOver(f, rest) + f[x]
  BY <1>1, SumAdd
<1>5. SumOver(f, S) = SumOver(f, rest) + f[x]
  BY <1>2, <1>4
<1> QED
  BY <1>3, <1>5 DEF rest

\* Fewer summands, no larger a sum.
LEMMA SumSubset ==
  ASSUME NEW S, IsFiniteSet(S), NEW T \in SUBSET S, NEW f,
         \A x \in S : f[x] \in Nat
  PROVE  SumOver(f, T) <= SumOver(f, S)
<1>1. Tokens(f, T) \subseteq Tokens(f, S)
  BY DEF Tokens
<1>2. IsFiniteSet(Tokens(f, S))
  BY SumType
<1> QED
  BY <1>1, <1>2, FS_Subset DEF SumOver

\* No more than the largest summand, as often as there are summands.
LEMMA SumAtMost ==
  ASSUME NEW S, IsFiniteSet(S), NEW f, NEW n \in Nat,
         \A x \in S : f[x] \in Nat /\ f[x] <= n
  PROVE  SumOver(f, S) <= Cardinality(S) * n
<1>1. Tokens(f, S) \subseteq S \X (1 .. n)
  BY DEF Tokens
<1>2. IsFiniteSet(1 .. n) /\ Cardinality(1 .. n) = n
  BY FS_Interval
<1>3. /\ IsFiniteSet(S \X (1 .. n))
      /\ Cardinality(S \X (1 .. n)) = Cardinality(S) * n
  BY <1>2, FS_Product
<1> QED
  BY <1>1, <1>3, FS_Subset DEF SumOver

\* The sum over two sets is no more than the sums over each.
LEMMA SumUnion ==
  ASSUME NEW S, NEW T, IsFiniteSet(S), IsFiniteSet(T), NEW f,
         \A x \in S \cup T : f[x] \in Nat
  PROVE  SumOver(f, S \cup T) <= SumOver(f, S) + SumOver(f, T)
<1>1. Tokens(f, S \cup T) = Tokens(f, S) \cup Tokens(f, T)
  BY DEF Tokens
<1>2. IsFiniteSet(Tokens(f, S)) /\ IsFiniteSet(Tokens(f, T))
  BY SumType
<1>3. Cardinality(Tokens(f, S) \cup Tokens(f, T))
        = Cardinality(Tokens(f, S)) + Cardinality(Tokens(f, T))
            - Cardinality(Tokens(f, S) \cap Tokens(f, T))
  BY <1>2, FS_Union
<1>4. /\ Cardinality(Tokens(f, S)) \in Nat /\ Cardinality(Tokens(f, T)) \in Nat
      /\ Cardinality(Tokens(f, S) \cap Tokens(f, T)) \in Nat
  BY <1>2, FS_CardinalityType, FS_Intersection
<1>5. Cardinality(Tokens(f, S) \cup Tokens(f, T))
        <= Cardinality(Tokens(f, S)) + Cardinality(Tokens(f, T))
  BY <1>3, <1>4
<1> QED
  BY <1>1, <1>5 DEF SumOver

\* One summand changes.
LEMMA SumChange ==
  ASSUME NEW S, IsFiniteSet(S), NEW x \in S, NEW f, NEW g,
         \A y \in S : f[y] \in Nat /\ g[y] \in Nat,
         \A y \in S \ {x} : g[y] = f[y]
  PROVE  /\ SumOver(g, S) = SumOver(f, S) + (g[x] - f[x])
         /\ SumOver(f, S) \in Nat /\ SumOver(g, S) \in Nat
<1>1. SumOver(g, S \ {x}) = SumOver(g, S) - g[x]
  BY SumRemove
<1>2. SumOver(f, S \ {x}) = SumOver(f, S) - f[x]
  BY SumRemove
<1>3. SumOver(g, S \ {x}) = SumOver(f, S \ {x})
  BY SumSame
<1>4. SumOver(f, S) \in Nat /\ SumOver(g, S) \in Nat
  BY SumType
<1> QED
  BY <1>1, <1>2, <1>3, <1>4

\* Equal summands.
LEMMA SumConstant ==
  ASSUME NEW S, IsFiniteSet(S), NEW f, NEW n \in Nat, \A x \in S : f[x] = n
  PROVE  SumOver(f, S) = Cardinality(S) * n
<1>1. Tokens(f, S) = S \X (1 .. n)
  BY DEF Tokens
<1>2. IsFiniteSet(1 .. n) /\ Cardinality(1 .. n) = n
  BY FS_Interval
<1> QED
  BY <1>1, <1>2, FS_Product DEF SumOver

-----------------------------------------------------------------------------
(* The books. *)

\* A step that keeps the books keeps their types.
LEMMA SameBooksType == BooksTypeOK /\ UNCHANGED sharedVars => BooksTypeOK'
  BY DEF BooksTypeOK, sharedVars, etbBooks, metalBooks

\* Freezing, unfreezing and midnight keep the types of the books.
LEMMA SharedType == BooksTypeOK /\ SharedNext => BooksTypeOK'
<1> SUFFICES ASSUME BooksTypeOK, SharedNext PROVE BooksTypeOK'
  OBVIOUS
<1>1. CASE Midnight
  BY <1>1, BooksAssumption
     DEF BooksTypeOK, Midnight, Days, etbBooks, metalBooks
<1>2. ASSUME NEW u \in Users, Bar(u) \/ Unbar(u) PROVE BooksTypeOK'
  BY <1>2 DEF BooksTypeOK, Bar, Unbar, etbBooks, metalBooks
<1> QED
  BY <1>1, <1>2 DEF SharedNext

\* The opening balances are numbers.
LEMMA BooksInitType == BooksInit => BooksTypeOK
<1>1. Cardinality(Users) \in Nat
  BY BooksAssumption, FS_CardinalityType
<1> QED
  BY <1>1, BooksAssumption DEF BooksInit, BooksTypeOK, Days

-----------------------------------------------------------------------------
(* Money.  Nobody is overdrawn, so the customers' balances are natural      *)
(* numbers and have a sum; a step that moves cents between one customer and *)
(* the system accounts keeps the total.                                     *)

\* The cents that are not a customer's.
SystemCents == cash + charges + external + payoutHold

\* What a step may do to the money: nothing a customer sees, or move cents of
\* one customer, in both cases with the system accounts as the counterpart.
MoneyPosting ==
    \/ cents' = cents /\ SystemCents' = SystemCents
    \/ \E u \in Users :
         /\ \A v \in Users \ {u} : cents'[v] = cents[v]
         /\ cents'[u] + SystemCents' = cents[u] + SystemCents

\* The opening balances add up.
LEMMA InitMoney == BooksInit => MoneyConserved
<1> SUFFICES ASSUME BooksInit PROVE MoneyConserved
  OBVIOUS
<1>1. IsFiniteSet(Users) /\ OpeningCents \in Nat /\ OpeningCash \in Nat
      /\ Cardinality(Users) \in Nat
  BY BooksAssumption, FS_CardinalityType
<1>2. \A u \in Users : cents[u] = OpeningCents
  BY DEF BooksInit
<1>3. SumOver(cents, Users) = Cardinality(Users) * OpeningCents
  BY <1>1, <1>2, SumConstant
<1>4. /\ cash = OpeningCash /\ charges = 0 /\ payoutHold = 0
      /\ external = -(OpeningCash + Cardinality(Users) * OpeningCents)
  BY DEF BooksInit
<1>5. Cardinality(Users) * OpeningCents \in Nat
  BY <1>1
<1> QED
  BY <1>1, <1>3, <1>4, <1>5 DEF MoneyConserved

\* A money posting keeps the total.
LEMMA PostingKeepsMoney ==
  ASSUME BooksTypeOK, BooksTypeOK', NoOverdraft, NoOverdraft', MoneyConserved,
         MoneyPosting
  PROVE  MoneyConserved'
<1> DEFINE before == SumOver(cents, Users)
           after == SumOver(cents, Users)'
<1>1. /\ IsFiniteSet(Users)
      /\ \A u \in Users : cents[u] \in Nat /\ cents'[u] \in Nat
  BY BooksAssumption DEF BooksTypeOK, NoOverdraft
<1>2. SystemCents \in Int /\ SystemCents' \in Int
  BY DEF SystemCents, BooksTypeOK
<1>3. before \in Nat /\ after = SumOver(cents', Users)
  <2>1. before \in Nat
    BY <1>1, SumType
  <2>2. after = SumOver(cents', Users)
    BY DEF SumOver, Tokens
  <2> QED
    BY <2>1, <2>2
<1>4. MoneyConserved <=> before + SystemCents = 0
  <2>1. /\ cash \in Int /\ charges \in Int /\ external \in Int
        /\ payoutHold \in Int
    BY DEF BooksTypeOK
  <2> HIDE DEF before
  <2> QED
    BY <1>3, <2>1 DEF MoneyConserved, SystemCents, before
<1>5. MoneyConserved' <=> after + SystemCents' = 0
  <2>1. /\ cash' \in Int /\ charges' \in Int /\ external' \in Int
        /\ payoutHold' \in Int
    BY DEF BooksTypeOK
  <2>2. after \in Nat
    BY <1>1, <1>3, SumType
  <2> HIDE DEF after
  <2> QED
    BY <2>1, <2>2 DEF MoneyConserved, SystemCents, after
<1>6. CASE cents' = cents /\ SystemCents' = SystemCents
  BY <1>3, <1>4, <1>5, <1>6
<1>7. ASSUME NEW u \in Users, \A v \in Users \ {u} : cents'[v] = cents[v],
             cents'[u] + SystemCents' = cents[u] + SystemCents
      PROVE  MoneyConserved'
  <2>1. after = before + (cents'[u] - cents[u])
    BY <1>1, <1>3, <1>7, SumChange
  <2>2. cents[u] \in Nat /\ cents'[u] \in Nat
    BY <1>1
  <2> HIDE DEF before, after
  <2> QED
    BY <1>2, <1>3, <1>4, <1>5, <1>7, <2>1, <2>2
<1> QED
  BY <1>6, <1>7 DEF MoneyPosting
=============================================================================
