---------------------------- MODULE OrderedDelivery ----------------------------
(***************************************************************************)
(* What the decode queue of one socket connection promises to the handlers *)
(* behind it, whatever overlaps inside it: items are handed over one at a  *)
(* time, in the order they arrived; an item is skipped only when it was    *)
(* dropped; and after the queue closed nothing is handed over any more.    *)
(***************************************************************************)
EXTENDS Naturals

CONSTANT MaxTasks   \* the largest number of items a behaviour submits

VARIABLES
    submitted,   \* how many items have arrived
    outcome,     \* item -> "pending", "delivered" or "dropped"
    busy,        \* the item being handed over, 0 when none is
    open         \* FALSE once the queue has closed

vars == <<submitted, outcome, busy, open>>

Items == 1..MaxTasks
Pending == {t \in 1..submitted : outcome[t] = "pending"}

Init ==
    /\ submitted = 0
    /\ outcome = [t \in Items |-> "pending"]
    /\ busy = 0
    /\ open = TRUE

\* An item is submitted; it may follow from the delivery of another one.
Submit ==
    /\ open
    /\ submitted < MaxTasks
    /\ submitted' = submitted + 1
    /\ UNCHANGED <<outcome, busy, open>>

\* The oldest pending item is handed over while no other one is.
Deliver(t) ==
    /\ open
    /\ busy = 0
    /\ t \in Pending
    /\ \A u \in Pending : t <= u
    /\ outcome' = [outcome EXCEPT ![t] = "delivered"]
    /\ \/ busy' = t /\ UNCHANGED <<submitted, open>>
       \* a handler that returns at once may submit, or close the queue
       \/ /\ busy' = 0
          /\ submitted' \in {submitted, submitted + 1} \cap (0..MaxTasks)
          /\ UNCHANGED open

\* A handler that returns at once and closes the queue, and one that throws.
DeliverAndClose(t) ==
    /\ open
    /\ busy = 0
    /\ t \in Pending
    /\ \A u \in Pending : t <= u
    /\ outcome' = [u \in Items |-> IF u = t THEN "delivered"
                                   ELSE IF u \in Pending THEN "dropped"
                                   ELSE outcome[u]]
    /\ open' = FALSE
    /\ UNCHANGED <<submitted, busy>>

Finish ==
    /\ busy # 0
    /\ busy' = 0
    /\ UNCHANGED <<submitted, outcome, open>>

\* The item is cancelled by its owner.
Drop(t) ==
    /\ t \in Pending
    /\ outcome' = [outcome EXCEPT ![t] = "dropped"]
    /\ UNCHANGED <<submitted, busy, open>>

\* The queue closes, with the handler that is running finishing or not.
Close ==
    /\ open
    /\ open' = FALSE
    /\ outcome' = [t \in Items |-> IF t \in Pending THEN "dropped" ELSE outcome[t]]
    /\ busy' \in {busy, 0}
    /\ UNCHANGED submitted

Next ==
    \/ Submit
    \/ \E t \in Items : Deliver(t) \/ DeliverAndClose(t) \/ Drop(t)
    \/ Finish
    \/ Close

Spec == Init /\ [][Next]_vars
================================================================================
