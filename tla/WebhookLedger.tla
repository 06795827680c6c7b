--------------------------- MODULE WebhookLedger ---------------------------
(***************************************************************************)
(* What the Stripe webhook endpoint promises about one event, whatever the *)
(* events contain: an event is claimed once, and a claimed event is either *)
(* applied to the account, once, or lost for good.  Nothing returns an     *)
(* event to an earlier state, so no retry applies it a second time.        *)
(***************************************************************************)
CONSTANT Events

VARIABLE ledger       \* what has become of each event

States == {"new", "claimed", "applied", "lost"}

LedgerTypeOK == ledger \in [Events -> States]

LedgerInit == ledger = [e \in Events |-> "new"]

\* The first delivery inserts the event's row.
Claim(e) ==
    /\ ledger[e] = "new"
    /\ ledger' = [ledger EXCEPT ![e] = "claimed"]

\* The handler of that delivery commits.
Apply(e) ==
    /\ ledger[e] = "claimed"
    /\ ledger' = [ledger EXCEPT ![e] = "applied"]

\* The delivery that holds the claim dies before its handler commits.
Lose(e) ==
    /\ ledger[e] = "claimed"
    /\ ledger' = [ledger EXCEPT ![e] = "lost"]

LedgerNext == \E e \in Events : Claim(e) \/ Apply(e) \/ Lose(e)

LedgerSpec == LedgerInit /\ [][LedgerNext]_ledger
=============================================================================
