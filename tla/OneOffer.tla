------------------------------ MODULE OneOffer ------------------------------
(***************************************************************************)
(* What the candidate outbox promises of one found block, whatever its     *)
(* frontends, operators and the chain do: the block is handed to the node  *)
(* at most once, never after it was given up, the node's answer is kept,   *)
(* one verdict stands, and the block is credited as found at most once and *)
(* only after it went out.                                                 *)
(***************************************************************************)
EXTENDS Naturals

VARIABLES
    offers,    \* how often the block was handed to the node
    verdict,   \* "open" until the row is settled
    answered,  \* the node's answer is on record
    credited   \* how often the block was counted as found

vars == <<offers, verdict, answered, credited>>

Init ==
    /\ offers = 0 /\ credited = 0
    /\ verdict = "open" /\ answered = FALSE

(***************************************************************************)
(* A frontend whose claim was taken over may still make the call it had    *)
(* reserved, after the new holder settled the row as orphaned.             *)
(***************************************************************************)
Offer ==
    /\ offers = 0 /\ verdict \in {"open", "orphaned"}
    /\ offers' = 1
    /\ UNCHANGED <<verdict, answered, credited>>

Answer ==
    /\ offers = 1 /\ verdict = "open"
    /\ answered' = TRUE
    /\ UNCHANGED <<offers, verdict, credited>>

Abandon ==
    /\ offers = 0 /\ verdict = "open"
    /\ verdict' = "abandoned"
    /\ UNCHANGED <<offers, answered, credited>>

Orphan ==
    /\ verdict = "open"
    /\ verdict' = "orphaned"
    /\ UNCHANGED <<offers, answered, credited>>

\* The first to confirm the block credits it, with the verdict or before it.
Credit == offers = 1 /\ credited = 0 /\ credited' = 1

Submit ==
    /\ offers = 1 /\ verdict = "open"
    /\ verdict' = "submitted"
    /\ Credit \/ UNCHANGED credited
    /\ UNCHANGED <<offers, answered>>

CreditOnly == Credit /\ UNCHANGED <<offers, verdict, answered>>

Next == Offer \/ Answer \/ Abandon \/ Orphan \/ Submit \/ CreditOnly

Spec == Init /\ [][Next]_vars
=============================================================================
