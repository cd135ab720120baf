------------------------------ MODULE Delivery ------------------------------
(***************************************************************************)
(* Physical delivery of metal: a customer requests it, an officer approves *)
(* (the metal moves to the delivery hold), schedules, hands it over (hold  *)
(* to vault account and out of the vault, together) or rejects (the hold   *)
(* is refunded).                                                           *)
(*                                                                         *)
(* Two operations check outside the transaction that writes: the request   *)
(* looks for another open request before it inserts its row, and the       *)
(* approval asks whether the customer may move money before it claims the  *)
(* row.  Each is two steps here.                                           *)
(***************************************************************************)
EXTENDS Books

CONSTANTS
    Deliveries,  \* delivery requests
    Parcel       \* request -> [owner, asset, grams]; never change

ASSUME DeliveryAssumption ==
    /\ IsFiniteSet(Deliveries)
    /\ Parcel \in [Deliveries -> [owner : Users, asset : Assets,
                                  grams : Nat \ {0}]]

VARIABLES
    delivery,   \* status; "none": no call yet, "checked": call about to insert
    cleared     \* requests whose approval passed assertCanMoveMoney

deliveryVars == <<delivery, cleared>>

OpenStatuses == {"requested", "approved", "scheduled"}
HeldStatuses == {"approved", "scheduled"}

DeliveryTypeOK ==
    /\ delivery \in [Deliveries -> {"none", "checked", "rejected", "delivered"}
                                     \cup OpenStatuses]
    /\ cleared \in SUBSET Deliveries

DeliveryInit ==
    /\ delivery = [d \in Deliveries |-> "none"]
    /\ cleared = {}

HeldOf_WithHold(d) ==  \* mutant: counts the metal already on hold
    metal[Parcel[d].owner][Parcel[d].asset] + deliveryHold[Parcel[d].asset]
HeldOf(d) == metal[Parcel[d].owner][Parcel[d].asset]

\* Delivery rows of the same customer and asset that are still open.
OpenFor(d) == {e \in Deliveries : /\ delivery[e] \in OpenStatuses
                                  /\ Parcel[e].owner = Parcel[d].owner
                                  /\ Parcel[e].asset = Parcel[d].asset}

SetStatus(d, s) == delivery' = [delivery EXCEPT ![d] = s]

\* The gates of create: customer not barred, enough metal, none open.
CreateCheck(d) ==
    /\ delivery[d] = "none"
    /\ Parcel[d].owner \notin barred
    /\ Parcel[d].grams <= HeldOf(d)
    /\ OpenFor(d) = {}
    /\ SetStatus(d, "checked")
    /\ UNCHANGED <<sharedVars, cleared>>

CreateInsert(d) ==
    /\ delivery[d] = "checked"
    /\ SetStatus(d, "requested")
    /\ UNCHANGED <<sharedVars, cleared>>

\* An approval finds the row and asks whether its owner may move money.
ApproveCheck(d) ==
    /\ delivery[d] \notin {"none", "checked"}
    /\ Parcel[d].owner \notin barred
    /\ cleared' = cleared \cup {d}
    /\ UNCHANGED <<sharedVars, delivery>>

MoveMetal_HoldKept(d, user, hold, out) ==  \* mutant: one entry missing
    LET p == Parcel[d] IN
    /\ metal' = [metal EXCEPT ![p.owner][p.asset] = @ + user * p.grams]
    /\ vault' = [vault EXCEPT ![p.asset] = @ + out * p.grams]
    /\ physical' = [physical EXCEPT ![p.asset] = @ - out * p.grams]
    /\ UNCHANGED <<deliveryHold, etbBooks, barred, today>>

\* Postings between the customer, the delivery hold and the vault account.
MoveMetal(d, user, hold, out) ==
    LET p == Parcel[d] IN
    /\ metal' = [metal EXCEPT ![p.owner][p.asset] = @ + user * p.grams]
    /\ deliveryHold' = [deliveryHold EXCEPT ![p.asset] = @ + hold * p.grams]
    /\ vault' = [vault EXCEPT ![p.asset] = @ + out * p.grams]
    /\ physical' = [physical EXCEPT ![p.asset] = @ - out * p.grams]
    /\ UNCHANGED <<etbBooks, barred, today>>

\* Enough metal left at the claim: it moves to the hold.
Approve(d) ==
    /\ d \in cleared
    /\ delivery[d] = "requested"
    /\ HeldOf(d) >= Parcel[d].grams
    /\ SetStatus(d, "approved")
    /\ cleared' = cleared \ {d}
    /\ MoveMetal(d, -1, 1, 0)

\* The claim finds another status, or too little metal: everything rolls back.
ApproveFails(d) ==
    /\ d \in cleared
    /\ delivery[d] # "requested" \/ HeldOf(d) < Parcel[d].grams
    /\ cleared' = cleared \ {d}
    /\ UNCHANGED <<sharedVars, delivery>>

Schedule(d) ==
    /\ delivery[d] \in HeldStatuses
    /\ SetStatus(d, "scheduled")
    /\ UNCHANGED <<sharedVars, cleared>>

\* The handover: back to the vault account and out of the vault.
Deliver(d) ==
    /\ delivery[d] \in HeldStatuses
    /\ SetStatus(d, "delivered")
    /\ UNCHANGED cleared
    /\ MoveMetal(d, 0, -1, 1)

Refund_Never(d) == 0  \* mutant

\* The refund goes with the status the locked row shows.
Refund(d) == IF delivery[d] \in HeldStatuses THEN 1 ELSE 0

Reject(d) ==
    /\ delivery[d] \in OpenStatuses
    /\ SetStatus(d, "rejected")
    /\ UNCHANGED cleared
    /\ MoveMetal(d, Refund(d), -Refund(d), 0)

DeliveryNext ==
    \E d \in Deliveries :
        \/ CreateCheck(d) \/ CreateInsert(d)
        \/ ApproveCheck(d) \/ Approve(d) \/ ApproveFails(d)
        \/ Schedule(d) \/ Deliver(d) \/ Reject(d)

-----------------------------------------------------------------------------
\* The delivery hold is exactly the metal of the requests that hold some.
HoldMatchesDeliveries ==
    \A a \in Assets :
        deliveryHold[a] =
            SumOver([d \in Deliveries |-> Parcel[d].grams],
                    {d \in Deliveries : /\ delivery[d] \in HeldStatuses
                                        /\ Parcel[d].asset = a})
=============================================================================
