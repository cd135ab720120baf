------------------------------ MODULE Platform ------------------------------
(***************************************************************************)
(* Orders, deliveries and the treasury's entries on the same books: the    *)
(* three components that move metal or are gated by it.  Each step is one  *)
(* step of one component.                                                  *)
(***************************************************************************)
EXTENDS Orders, Delivery, Treasury

platformVars == <<sharedVars, orderVars, deliveryVars>>

PlatformInit == BooksInit /\ OrdersInit /\ DeliveryInit

PlatformNext ==
    \/ OrdersNext /\ UNCHANGED deliveryVars
    \/ DeliveryNext /\ UNCHANGED orderVars
    \/ (TreasuryNext \/ SharedNext) /\ UNCHANGED <<orderVars, deliveryVars>>

PlatformSpec == PlatformInit /\ [][PlatformNext]_platformVars

-----------------------------------------------------------------------------
\* Metal is conserved: what customers and the delivery hold have is what was
\* issued against the vault account.
MetalConserved ==
    \A a \in Assets :
        deliveryHold[a] + SumOver([u \in Users |-> metal[u][a]], Users) = Owed(a)

\* The books balance, in every metal and in money.
BooksBalance == MetalConserved /\ MoneyConserved

PlatformTypeOK == BooksTypeOK /\ OrdersTypeOK /\ DeliveryTypeOK

\* The platform keeps the reserve promise: the vault's physical stock and
\* minus the vault account's balance behave as Reserve's stock and owed.
Promise == INSTANCE Reserve WITH stock <- physical,
                                 owed <- [a \in Assets |-> Owed(a)]

KeepsReservePromise == Promise!ReserveSpec
=============================================================================
