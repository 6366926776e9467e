---------------------------- MODULE AnchorEvents ----------------------------
(***************************************************************************)
(* events.rs: the events each call of the Anchor publishes, and an indexer *)
(* that sees nothing else of the contract.  An event carries the ledger it *)
(* was published in; a call that fails leaves none, whatever it published  *)
(* before the error (the zero-slash event is only ever followed by one).   *)
(***************************************************************************)
EXTENDS Anchor, SequencesExt

VARIABLE index      \* what the indexer knows

NoIndex == [stakes |-> [a \in {} |-> None], executions |-> [a \in {} |-> None],
            terms |-> [id \in {} |-> None], next |-> [id \in {} |-> None],
            runs |-> [id \in {} |-> None], paid |-> 0, treasury |-> 0]

-----------------------------------------------------------------------------
(* The events, with all their data but target_drip_list: the Drip List of a *)
(* task is left out of the whole model, no call of the contract changes it. *)

emit_keeper_registered(keeper, stake_amount) ==
    [topic |-> "kpr_reg", keeper |-> keeper, stake |-> stake_amount]

emit_slash_applied(keeper, amount_slashed, new_stake) ==
    [topic |-> "slashed", keeper |-> keeper, amount |-> amount_slashed, stake |-> new_stake]

emit_task_provisioned(task_id, interval, micro_reward_per_run, designated_keeper) ==
    [topic |-> "task_prov", id |-> task_id, interval |-> interval,
     reward |-> micro_reward_per_run, designated |-> designated_keeper, ledger |-> ledger]

emit_task_executed(task_id, keeper, reward) ==
    [topic |-> "task_exec", id |-> task_id, keeper |-> keeper, ledger |-> ledger,
     reward |-> reward]

emit_task_executed_by_secondary(task_id, keeper, designated, slash, bonus, reward) ==
    [topic |-> "task_sec", id |-> task_id, keeper |-> keeper, designated |-> designated,
     ledger |-> ledger, slash |-> slash, bonus |-> bonus, reward |-> reward]

emit_missed_execution(task_id, ledgers_elapsed) ==
    [topic |-> "missed", id |-> task_id, elapsed |-> ledgers_elapsed]

\* Mutant: execute_distribution publishes task_exec for a secondary run too.
ExecuteSecondaryEventsTwice(id, caller) ==
    LET designated == tasks[id].designated_keeper
        stake == keepers[designated].stake_amount
        reward == tasks[id].micro_reward_per_run
    IN  << emit_slash_applied(designated, SlashAmount(stake), stake - SlashAmount(stake)),
           emit_task_executed(id, caller, reward),
           emit_task_executed_by_secondary(id, caller, designated, SlashAmount(stake),
                                           SecondaryReward(stake), reward) >>

\* The events of a secondary run, in the order they are published.
ExecuteSecondaryEvents(id, caller) ==
    LET designated == tasks[id].designated_keeper
        stake == keepers[designated].stake_amount
    IN  << emit_slash_applied(designated, SlashAmount(stake),
                              WrapI128(stake - SlashAmount(stake))),
           emit_task_executed_by_secondary(id, caller, designated, SlashAmount(stake),
                                           SecondaryReward(stake),
                                           tasks[id].micro_reward_per_run) >>

\* The events of a run without a slash.
ExecuteUnslashedEvents(id, caller) ==
    LET executed == emit_task_executed(id, caller, tasks[id].micro_reward_per_run)
        missed == emit_missed_execution(id, ledger - tasks[id].next_allowed_execution)
    IN  IF Region(tasks[id]) = "post_grace" THEN <<missed, executed>> ELSE <<executed>>

-----------------------------------------------------------------------------
(* The indexer: what one more event teaches it. *)

\* What stays the same of a task from the event of its provisioning on.
Terms(interval, reward, designated) ==
    [interval |-> interval, reward |-> reward, designated |-> designated]

\* The run of a task that a task_exec or a task_sec event stands for.
ReadRun(ix, e) ==
    [ix EXCEPT !.runs[e.id] = @ + 1,
               !.next[e.id] = AddU32(e.ledger, ix.terms[e.id].interval),
               !.executions[e.keeper] = @ + 1,
               !.paid = @ + e.reward]

ReadEvent(ix, e) ==
    CASE e.topic = "kpr_reg" -> [ix EXCEPT !.stakes = Put(@, e.keeper, e.stake),
                                           !.executions = Put(@, e.keeper, 0)]
      [] e.topic = "task_prov" -> [ix EXCEPT !.runs = Put(@, e.id, 0),
                                             !.terms = Put(@, e.id,
                                                Terms(e.interval, e.reward, e.designated)),
                                             !.next = Put(@, e.id, AddU32(e.ledger, e.interval))]
      [] e.topic = "slashed" -> [ix EXCEPT !.stakes[e.keeper] = e.stake]
      [] e.topic = "task_exec" -> ReadRun(ix, e)
      [] e.topic = "task_sec" -> [ReadRun(ix, e) EXCEPT !.paid = @ + e.bonus,
                                                        !.treasury = @ + e.slash - e.bonus]
      [] e.topic = "missed" -> ix

Publish(events) == index' = FoldLeft(ReadEvent, index, events)

-----------------------------------------------------------------------------
(* The Anchor's calls with what they publish. *)

EventsInit == Init /\ index = NoIndex

EventsNext ==
    \/ \E a \in Address, m \in MinStakes : Initialize(a, m) /\ Publish(<< >>)
    \/ \E a \in Address, s \in Stakes :
          RegisterKeeper(a, s) /\ Publish(<<emit_keeper_registered(a, s)>>)
    \/ \E a, d \in Address, i \in Intervals, r \in Rewards :
          ProvisionTask(a, i, r, d) /\ Publish(<<emit_task_provisioned(NewTaskId, i, r, d)>>)
    \/ \E id \in DOMAIN tasks, c \in Address :
          ExecuteUnslashed(id, c) /\ Publish(ExecuteUnslashedEvents(id, c))
    \/ \E id \in DOMAIN tasks, c \in Address :
          ExecuteSecondary(id, c) /\ Publish(ExecuteSecondaryEvents(id, c))
    \/ RejectedCall /\ Publish(<< >>)
    \/ CloseLedger /\ Publish(<< >>)
    \/ \E amount \in Deposits : Fund(amount) /\ Publish(<< >>)

EventsSpec == EventsInit /\ [][EventsNext]_<<vars, index>>

-----------------------------------------------------------------------------

\* events.rs: the events alone tell an indexer what the contract stores.  Stakes
\* after any number of slashes, the terms and schedules of tasks, runs and their
\* credit, the treasury and the tokens paid out agree with storage and with the
\* token balance, so no run or slash is published twice, with other amounts, or
\* not at all.
IndexAgrees ==
    /\ index.terms = [id \in DOMAIN tasks |->
                        Terms(tasks[id].execution_interval_ledgers,
                              tasks[id].micro_reward_per_run, tasks[id].designated_keeper)]
    /\ index.stakes = [k \in DOMAIN keepers |-> keepers[k].stake_amount]
    /\ index.executions = [k \in DOMAIN keepers |-> keepers[k].total_executions]
    /\ index.next = [id \in DOMAIN tasks |-> tasks[id].next_allowed_execution]
    /\ index.runs = runs
    /\ index.treasury = treasury
    /\ index.paid = funded - balance

-----------------------------------------------------------------------------
(* Inductive invariant. *)

\* The whole of the index is what storage says, field by field.
IndexExact ==
    index = [stakes |-> [k \in DOMAIN keepers |-> keepers[k].stake_amount],
             executions |-> [k \in DOMAIN keepers |-> keepers[k].total_executions],
             terms |-> [id \in DOMAIN tasks |->
                          Terms(tasks[id].execution_interval_ledgers,
                                tasks[id].micro_reward_per_run, tasks[id].designated_keeper)],
             next |-> [id \in DOMAIN tasks |-> tasks[id].next_allowed_execution],
             runs |-> runs, paid |-> funded - balance, treasury |-> treasury]
=============================================================================
