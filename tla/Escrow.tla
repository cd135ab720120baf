------------------------------- MODULE Escrow -------------------------------
(***************************************************************************)
(* What the platform promises about a withdrawal, whatever crashes and     *)
(* whichever answers are lost: the customer's money is set aside once, it  *)
(* leaves the books only for a transfer the bank says it made, it goes     *)
(* back only when the bank did not and will not make it, whole and to the  *)
(* same customer, and the bank is asked once.                              *)
(***************************************************************************)
EXTENDS Integers

CONSTANTS
    Withdrawals,
    OwnerOf(_),  \* whose money it is
    Sum(_)       \* how much

VARIABLES
    stage,    \* "new", "held", "paid" (written off) or "closed" (not paid)
    bank,     \* "unasked", "asked", "made" or "refused"
    funds,    \* what each customer can spend
    hold,     \* money set aside
    out,      \* money that left the books
    trusting  \* a sandbox bank: its silence is taken for a yes

escrowVars == <<stage, bank, funds, hold, out, trusting>>

EscrowInit ==
    /\ \A w \in Withdrawals : stage[w] = "new" /\ bank[w] = "unasked"
    /\ hold = 0
    /\ trusting \in BOOLEAN

Reaches(w, s) == stage' = [stage EXCEPT ![w] = s]

\* Set the money aside, if the customer has it.
Hold(w) ==
    /\ stage[w] = "new" /\ funds[OwnerOf(w)] >= Sum(w)
    /\ Reaches(w, "held")
    /\ funds' = [funds EXCEPT ![OwnerOf(w)] = @ - Sum(w)]
    /\ hold' = hold + Sum(w)
    /\ UNCHANGED <<bank, out, trusting>>

\* Or refuse the request, and no money moves.
Decline(w) ==
    /\ stage[w] = "new"
    /\ Reaches(w, "closed")
    /\ UNCHANGED <<bank, funds, hold, out, trusting>>

\* Ask the bank, once, for money that is set aside (a sandbox's may be
\* written off by then).
Ask(w) ==
    /\ bank[w] = "unasked"
    /\ stage[w] = "held" \/ (trusting /\ stage[w] = "paid")
    /\ bank' = [bank EXCEPT ![w] = "asked"]
    /\ UNCHANGED <<stage, funds, hold, out, trusting>>

\* The bank makes the transfer or refuses it, for good.
Decide(w) ==
    /\ bank[w] = "asked"
    /\ \E verdict \in {"made", "refused"} : bank' = [bank EXCEPT ![w] = verdict]
    /\ UNCHANGED <<stage, funds, hold, out, trusting>>

\* The money is the bank's: it leaves the hold and the books.
WriteOff(w) ==
    /\ stage[w] = "held"
    /\ trusting \/ bank[w] = "made"
    /\ Reaches(w, "paid")
    /\ hold' = hold - Sum(w)
    /\ out' = out + Sum(w)
    /\ UNCHANGED <<bank, funds, trusting>>

\* The money is the customer's again.
Return(w) ==
    /\ stage[w] = "held"
    /\ bank[w] \in {"unasked", "refused"}
    /\ Reaches(w, "closed")
    /\ hold' = hold - Sum(w)
    /\ funds' = [funds EXCEPT ![OwnerOf(w)] = @ + Sum(w)]
    /\ UNCHANGED <<bank, out, trusting>>

EscrowNext ==
    \E w \in Withdrawals : \/ Hold(w) \/ Decline(w) \/ Ask(w) \/ Decide(w)
                           \/ WriteOff(w) \/ Return(w)

EscrowSpec == EscrowInit /\ [][EscrowNext]_escrowVars
=============================================================================
