---------------------------- MODULE AnchorTenure ----------------------------
(***************************************************************************)
(* The Anchor with the ledger in which each keeper registered.  The record *)
(* that register_keeper stores does not hold it, so no call can look at    *)
(* it: `joined` is a history variable, there for a property to compare     *)
(* with the windows of the tasks.                                          *)
(***************************************************************************)
EXTENDS Anchor

VARIABLE joined     \* ledger of each keeper's register_keeper

tenureVars == <<vars, joined>>

TenureInit == Init /\ joined = [a \in {} |-> None]

\* Every call of the contract; one that adds a keeper record dates it.
TenureNext ==
    /\ Next
    /\ joined' = [k \in DOMAIN keepers' |->
                     IF k \in DOMAIN keepers THEN joined[k] ELSE ledger]

TenureSpec == TenureInit /\ [][TenureNext]_tenureVars

-----------------------------------------------------------------------------
(* What a comment of the code says and the code does not do. *)

\* errors.rs:158 (CallerNotSecondaryEligible) and requirements.md 4.1: a keeper
\* that registered after the grace period of a task opened is not eligible to
\* run the task, and have its designated keeper slashed, within that period.
SecondaryRegisteredBefore ==
    [][\A id \in DOMAIN tasks, c \in DOMAIN keepers :
          ExecuteSecondary(id, c) => joined[c] <= tasks[id].next_allowed_execution]_tenureVars
=============================================================================
