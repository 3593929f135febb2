---------------------------- MODULE DeadManSwitch ----------------------------
(***************************************************************************)
(* What a heartbeat promises, without saying how the contract keeps it.    *)
(* A beat is armed once by its owner, its deadline moves only while it is  *)
(* armed, and it ends in one of two states that nothing leaves: delivered  *)
(* or cancelled.  Delivery happens strictly after the deadline, and within *)
(* the grace window only by an account that is an active executor then.    *)
(* MaktubCore is shown to implement this module.                           *)
(***************************************************************************)
EXTENDS Integers

CONSTANTS
    Id,       \* the heartbeats
    Account,  \* the accounts that own, receive and deliver them
    Nobody,   \* the owner of a beat that does not exist, who delivers nothing
    Grace     \* how long delivery is reserved to active executors

VARIABLES
    clock,        \* the time
    eligible,     \* the active executors
    phase,        \* "none", "armed", "delivered" or "cancelled", for each beat
    deadline,     \* the time a beat must outlive before it can be delivered
    owner,        \* the account that armed it
    audience,     \* whom it is delivered to, and what
    deliveredBy   \* the account that delivered it

vars == <<clock, eligible, phase, deadline, owner, audience, deliveredBy>>

Init ==
    /\ clock \in Nat
    /\ eligible \subseteq Account
    /\ phase = [id \in Id |-> "none"]
    /\ owner = [id \in Id |-> Nobody]
    /\ deliveredBy = [id \in Id |-> Nobody]

\* The contents of a beat are fixed by the two ends of its life.
Frozen(id) ==
    /\ deadline'[id] = deadline[id]
    /\ audience'[id] = audience[id]

\* The owner arms a new beat, which it may cancel in the same transaction.
Arm(id) ==
    /\ phase[id] = "none"
    /\ phase'[id] \in {"armed", "cancelled"}
    /\ owner'[id] \in Account
    /\ deadline'[id] > clock
    /\ deliveredBy'[id] = deliveredBy[id]

\* The owner of an armed beat checks in, edits it or cancels it.
Keep(id) ==
    /\ phase[id] = "armed"
    /\ phase'[id] \in {"armed", "cancelled"}
    /\ owner'[id] = owner[id]
    /\ deliveredBy'[id] = deliveredBy[id]

\* Account a delivers the beat.
Deliver(a, id) ==
    /\ phase[id] = "armed"
    /\ clock > deadline[id]
    /\ a \in eligible \/ clock > deadline[id] + Grace
    /\ phase'[id] = "delivered"
    /\ deliveredBy'[id] = a
    /\ owner'[id] = owner[id]
    /\ Frozen(id)

\* Nothing happens to the beat.
Rest(id) ==
    /\ phase'[id] = phase[id]
    /\ owner'[id] = owner[id]
    /\ deliveredBy'[id] = deliveredBy[id]
    /\ Frozen(id)

\* One transaction may touch several beats, each within its own rules.
Transact ==
    /\ clock' = clock
    /\ eligible' = eligible
    /\ \A id \in Id :
          \/ Arm(id)
          \/ Keep(id)
          \/ \E a \in Account : Deliver(a, id)
          \/ Rest(id)

\* Time passes, or the set of active executors changes, and no beat moves.
Environment ==
    /\ clock' >= clock
    /\ eligible' \subseteq Account
    /\ \A id \in Id : Rest(id)

Next == Transact \/ Environment

Spec == Init /\ [][Next]_vars
=============================================================================
