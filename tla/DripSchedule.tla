---------------------------- MODULE DripSchedule ----------------------------
(***************************************************************************)
(* What the Anchor promises to the owner of a Drip List: a keeper network  *)
(* that runs each task when it is due, once per interval, by the keepers   *)
(* of execution.rs:11-15, and credits each run to one of them.  When a     *)
(* keeper registered plays no part in it: the code admits to the grace     *)
(* period one that registered within it (see AnchorTenure).  Money, stakes *)
(* and arithmetic modulo 2^32 belong to the contract, which implements     *)
(* this.                                                                   *)
(***************************************************************************)
EXTENDS Integers

CONSTANTS
    Address,        \* accounts
    TaskId,         \* names of tasks
    GRACE_LEDGERS   \* length of the grace period

VARIABLES
    now,        \* the open ledger
    plan,       \* the tasks: interval, next due ledger, owner, runs so far
    credits     \* executions credited to each keeper

schedule == <<now, plan, credits>>

ScheduleInit ==
    /\ now \in Nat
    /\ plan = [id \in {} |-> {}]
    /\ credits = [k \in {} |-> {}]

Join(k) ==
    /\ k \notin DOMAIN credits
    /\ credits' = [a \in DOMAIN credits \cup {k} |-> IF a = k THEN 0 ELSE credits[a]]
    /\ UNCHANGED <<now, plan>>

\* A new task, first due an interval from now, under an unused name.
Provision(id, owner) ==
    /\ id \notin DOMAIN plan
    /\ owner \in DOMAIN credits
    /\ DOMAIN plan' = DOMAIN plan \cup {id}
    /\ \A other \in DOMAIN plan : plan'[other] = plan[other]
    /\ plan'[id].every > 0
    /\ plan'[id] = [every |-> plan'[id].every, due |-> now + plan'[id].every,
                    owner |-> owner, runs |-> 0]
    /\ UNCHANGED <<now, credits>>

\* The owner alone at the due ledger, any keeper but the owner in the grace
\* period, any keeper later, however short a time it has been registered.
Admitted(task, k) ==
    /\ task.due <= now
    /\ task.due = now => k = task.owner
    /\ now - task.due \in 1 .. GRACE_LEDGERS => k # task.owner

Run(id, k) ==
    /\ Admitted(plan[id], k)
    /\ plan' = [plan EXCEPT ![id].due = now + plan[id].every, ![id].runs = @ + 1]
    /\ credits' = [credits EXCEPT ![k] = @ + 1]
    /\ UNCHANGED now

Tick ==
    /\ now' = now + 1
    /\ UNCHANGED <<plan, credits>>

ScheduleNext ==
    \/ \E k \in Address : Join(k)
    \/ \E id \in DOMAIN plan' \ DOMAIN plan, owner \in DOMAIN credits : Provision(id, owner)
    \/ \E id \in DOMAIN plan, k \in DOMAIN credits : Run(id, k)
    \/ Tick

ScheduleSpec == ScheduleInit /\ [][ScheduleNext]_schedule
=============================================================================
