--------------------------- MODULE ScheduleProofs ---------------------------
(* The Anchor implements DripSchedule, for every value of the constants for *)
(* which no u32 sum of a ledger and an interval wraps.                      *)
EXTENDS AnchorProofs

USE AnchorConstants

\* The refinement mapping of Schedule.
Plan ==
    [id \in DOMAIN tasks |->
        [every |-> tasks[id].execution_interval_ledgers,
         due |-> tasks[id].next_allowed_execution,
         owner |-> tasks[id].designated_keeper, runs |-> runs[id]]]

Credits == [k \in DOMAIN keepers |-> keepers[k].total_executions]

-----------------------------------------------------------------------------
(* Executions *)

\* A successful call comes from a keeper that the task's window admits.
LEMMA CallerAdmitted ==
    ASSUME AnchorInv, NEW id \in DOMAIN tasks, NEW c,
           ExecuteResult(id, c, TRUE) = "Ok"
    PROVE  /\ tasks[id].next_allowed_execution <= ledger
           /\ tasks[id].next_allowed_execution = ledger => c = tasks[id].designated_keeper
           /\ ledger - tasks[id].next_allowed_execution \in 1 .. GRACE_LEDGERS
                => c # tasks[id].designated_keeper
<1>1. ledger \in Nat /\ tasks[id].next_allowed_execution \in Nat
    BY DEF AnchorInv, TypeOK, ExecutionTask
<1>2. tasks[id].next_allowed_execution <= ledger
    <2>1. ~(ledger < tasks[id].next_allowed_execution)
        BY DueRegion
    <2> QED
        BY <1>1, <2>1
<1>3. ASSUME tasks[id].next_allowed_execution = ledger
      PROVE  c = tasks[id].designated_keeper
    <2>1. Region(tasks[id]) = "designated"
        BY <1>1, <1>3 DEF Region
    <2> QED
        BY <2>1 DEF ExecuteResult, DesignatedResult
<1>4. ASSUME ledger - tasks[id].next_allowed_execution \in 1 .. GRACE_LEDGERS
      PROVE  c # tasks[id].designated_keeper
    <2>1. Region(tasks[id]) = "grace"
        BY <1>1, <1>4 DEF Region
    <2> QED
        BY <2>1, SecondaryOk
<1> QED
    BY <1>2, <1>3, <1>4

\* apply_slash does not touch the count of executions.
LEMMA SlashedKeeperCount ==
    ASSUME NEW k \in Keeper
    PROVE  SlashedKeeper(k).total_executions = k.total_executions
BY DEF SlashedKeeper, Keeper

\* Starting from a registry with the same counts, execute_distribution adds one
\* to the caller's and leaves the others.
LEMMA DistributionCredits ==
    ASSUME AnchorInv, NEW id, NEW c \in DOMAIN keepers, NEW bonus,
           NEW ks \in [DOMAIN keepers -> Keeper],
           \A k \in DOMAIN keepers : ks[k].total_executions = keepers[k].total_executions,
           ExecuteDistribution(id, c, ks, bonus)
    PROVE  Credits' = [Credits EXCEPT ![c] = @ + 1]
<1>1. ledger \in Nat
    BY DEF AnchorInv, TypeOK
<1>2. keepers' = [ks EXCEPT ![c] = CreditedKeeper(ks[c])]
    BY DEF ExecuteDistribution
<1>3. CreditedKeeper(ks[c]).total_executions = keepers[c].total_executions + 1
    BY <1>1, CreditedKeeperType
<1>4. /\ DOMAIN keepers' = DOMAIN keepers
      /\ keepers'[c].total_executions = keepers[c].total_executions + 1
      /\ \A k \in DOMAIN keepers : k # c =>
            keepers'[k].total_executions = keepers[k].total_executions
    BY <1>2, <1>3
<1> QED
    BY <1>4 DEF Credits

\* Both forms of execution credit the caller, and the caller alone.
LEMMA ExecutionCredits ==
    ASSUME AnchorInv, NEW id \in DOMAIN tasks, NEW c \in Address,
           ExecuteUnslashed(id, c) \/ ExecuteSecondary(id, c)
    PROVE  /\ c \in DOMAIN keepers
           /\ Credits' = [Credits EXCEPT ![c] = @ + 1]
<1>t. keepers \in [DOMAIN keepers -> Keeper]
    BY DEF AnchorInv, TypeOK
<1>1. CASE ExecuteUnslashed(id, c)
    <2>1. c \in DOMAIN keepers /\ ExecuteDistribution(id, c, keepers, 0)
        BY <1>1, UnslashedOk DEF ExecuteUnslashed
    <2> QED
        BY <2>1, <1>t, DistributionCredits
<1>2. CASE ExecuteSecondary(id, c)
    <2>1. PICK missed \in DOMAIN keepers, bonus \in Nat,
               ks \in [DOMAIN keepers -> Keeper] :
              /\ c \in DOMAIN keepers
              /\ ks = [keepers EXCEPT ![missed] = SlashedKeeper(keepers[missed])]
              /\ ExecuteDistribution(id, c, ks, bonus)
        BY <1>2, SecondaryEffect
    <2>2. \A k \in DOMAIN keepers : ks[k].total_executions = keepers[k].total_executions
        BY <1>t, <2>1, SlashedKeeperCount
    <2> QED
        BY <2>1, <2>2, DistributionCredits
<1> QED
    BY <1>1, <1>2

\* A run moves the plan of its own task by one interval and one run.
LEMMA RanPlan ==
    ASSUME AnchorInv, RunsSpaced, NoLedgerWrap, NEW id \in DOMAIN tasks, Ran(id)
    PROVE  Plan' = [Plan EXCEPT ![id].due = ledger + Plan[id].every, ![id].runs = @ + 1]
<1>t. /\ tasks \in [DOMAIN tasks -> ExecutionTask]
      /\ runs \in [DOMAIN tasks -> Nat]
    BY DEF AnchorInv, TypeOK
<1>1. /\ DOMAIN tasks' = DOMAIN tasks
      /\ tasks'[id] = Rescheduled(tasks[id]) /\ runs'[id] = runs[id] + 1
      /\ \A y \in DOMAIN tasks : y # id => tasks'[y] = tasks[y] /\ runs'[y] = runs[y]
    BY <1>t DEF Ran
<1>2. /\ tasks'[id].execution_interval_ledgers = tasks[id].execution_interval_ledgers
      /\ tasks'[id].next_allowed_execution = ledger + tasks[id].execution_interval_ledgers
      /\ tasks'[id].designated_keeper = tasks[id].designated_keeper
    BY <1>t, <1>1, RescheduledFields, NextRun
<1> QED
    BY <1>1, <1>2 DEF Plan

-----------------------------------------------------------------------------
(* The steps of the Anchor as steps of the schedule. *)

\* A new contract maps to an empty schedule.
LEMMA ScheduleInitially == Init => Schedule!ScheduleInit
<1> SUFFICES ASSUME Init PROVE Schedule!ScheduleInit
    OBVIOUS
<1>1. DOMAIN tasks = {} /\ DOMAIN keepers = {} /\ ledger \in Nat
    BY DEF Init
<1>2. /\ Plan = [id \in {} |-> {}]
      /\ Credits = [k \in {} |-> {}]
    BY <1>1 DEF Plan, Credits
<1> QED
    BY <1>1, <1>2 DEF Schedule!ScheduleInit, Plan, Credits

\* execute_drip_split maps to the run of one task by one admitted keeper.
LEMMA ExecutionRefines ==
    ASSUME AnchorInv, RunsSpaced, NoLedgerWrap, NEW id \in DOMAIN tasks, NEW c \in Address,
           ExecuteUnslashed(id, c) \/ ExecuteSecondary(id, c)
    PROVE  Schedule!ScheduleNext
<1>1. /\ c \in DOMAIN Credits /\ id \in DOMAIN Plan
      /\ Credits' = [Credits EXCEPT ![c] = @ + 1]
    BY ExecutionCredits DEF Credits, Plan
<1>2. /\ Plan' = [Plan EXCEPT ![id].due = ledger + Plan[id].every, ![id].runs = @ + 1]
      /\ ledger' = ledger
    BY ExecutionRuns, RanPlan DEF Ran
<1>3. ExecuteResult(id, c, TRUE) = "Ok"
    BY DEF ExecuteUnslashed, ExecuteSecondary
<1>4. /\ Plan[id].due <= ledger
      /\ Plan[id].due = ledger => c = Plan[id].owner
      /\ ledger - Plan[id].due \in 1 .. GRACE_LEDGERS => c # Plan[id].owner
    BY <1>3, CallerAdmitted DEF Plan
<1>5. Schedule!Run(id, c)
    BY <1>1, <1>2, <1>4 DEF Schedule!Run, Schedule!Admitted, Plan, Credits
<1> QED
    BY <1>1, <1>5 DEF Schedule!ScheduleNext, Plan, Credits

\* provision_task maps to a task that is first due one interval from now.
LEMMA ProvisionRefines ==
    ASSUME AnchorInv, NoLedgerWrap, NEW a \in Address, NEW d \in Address,
           NEW i \in Intervals, NEW r \in Rewards, ProvisionTask(a, i, r, d)
    PROVE  Schedule!ScheduleNext
<1> DEFINE t == [execution_interval_ledgers |-> i,
                 next_allowed_execution |-> AddU32(ledger, i),
                 micro_reward_per_run |-> r, designated_keeper |-> d]
<1>i. i \in Nat
    OBVIOUS
<1>t. /\ tasks \in [DOMAIN tasks -> ExecutionTask] /\ runs \in [DOMAIN tasks -> Nat]
      /\ ledger \in Nat /\ ledger <= MaxLedger
    BY DEF AnchorInv, TypeOK
<1>1. /\ i > 0 /\ d \in DOMAIN keepers
      /\ tasks' = Put(tasks, NewTaskId, t) /\ runs' = Put(runs, NewTaskId, 0)
      /\ keepers' = keepers /\ ledger' = ledger
    BY <1>i DEF ProvisionTask, ProvisionTaskResult, is_registered
<1>2. /\ t.execution_interval_ledgers = i /\ t.designated_keeper = d
      /\ t.next_allowed_execution = ledger + i
    BY <1>t, <1>i, NoWrapSum
<1> HIDE DEF t
<1>3. /\ DOMAIN tasks' = DOMAIN tasks \cup {NewTaskId}
      /\ tasks'[NewTaskId] = t /\ runs'[NewTaskId] = 0
      /\ \A x \in DOMAIN tasks : x # NewTaskId => tasks'[x] = tasks[x] /\ runs'[x] = runs[x]
    BY <1>1, <1>t DEF Put
<1>4. NewTaskId \notin DOMAIN tasks
    BY NewTaskIdFresh
<1>5. /\ DOMAIN Plan' = DOMAIN Plan \cup {NewTaskId}
      /\ \A x \in DOMAIN Plan : Plan'[x] = Plan[x]
      /\ Plan'[NewTaskId] = [every |-> i, due |-> ledger + i, owner |-> d, runs |-> 0]
      /\ Credits' = Credits
    BY <1>1, <1>2, <1>3, <1>4 DEF Plan, Credits
<1>6. NewTaskId \notin DOMAIN Plan /\ d \in DOMAIN Credits
    BY <1>1, <1>4 DEF Plan, Credits
<1>7. Schedule!Provision(NewTaskId, d)
    BY <1>1, <1>5, <1>6 DEF Schedule!Provision, Plan, Credits
<1> QED
    BY <1>5, <1>6, <1>7 DEF Schedule!ScheduleNext, Plan, Credits

\* register_keeper maps to a keeper that joins with no credit.
LEMMA RegisterRefines ==
    ASSUME AnchorInv, NEW a \in Address, NEW s \in Stakes, RegisterKeeper(a, s)
    PROVE  Schedule!ScheduleNext
<1>1. /\ a \notin DOMAIN keepers
      /\ DOMAIN keepers' = DOMAIN keepers \cup {a}
      /\ \A k \in DOMAIN keepers : keepers'[k] = keepers[k]
    BY RegisterKeepers
<1>2. keepers'[a].total_executions = 0
    BY DEF RegisterKeeper, Put
<1>3. tasks' = tasks /\ runs' = runs /\ ledger' = ledger
    BY DEF RegisterKeeper
<1>4. Credits' = [k \in DOMAIN Credits \cup {a} |-> IF k = a THEN 0 ELSE Credits[k]]
    BY <1>1, <1>2 DEF Credits
<1>5. Schedule!Join(a)
    BY <1>1, <1>3, <1>4 DEF Schedule!Join, Credits
<1> QED
    BY <1>5 DEF Schedule!ScheduleNext

\* Every step of the Anchor is a step of the schedule or leaves it alone.
LEMMA ScheduleStep ==
    ASSUME AnchorInv, RunsSpaced, NoLedgerWrap, [Next]_vars
    PROVE  [Schedule!ScheduleNext]_Schedule!schedule
<1>1. CASE UNCHANGED vars \/ RejectedCall
    BY <1>1 DEF RejectedCall, vars, storage, history, Schedule!schedule
<1>2. ASSUME NEW a \in Address, NEW m \in MinStakes, Initialize(a, m)
      PROVE  UNCHANGED Schedule!schedule
    BY <1>2 DEF Initialize, history, Schedule!schedule
<1>3. ASSUME NEW amount \in Deposits, Fund(amount)
      PROVE  UNCHANGED Schedule!schedule
    BY <1>3 DEF Fund, storage, Schedule!schedule
<1>4. CASE CloseLedger
    BY <1>4 DEF CloseLedger, storage, history, Schedule!ScheduleNext, Schedule!Tick
<1> QED
    BY <1>1, <1>2, <1>3, <1>4, RegisterRefines, ProvisionRefines, ExecutionRefines DEF Next

\* The contract implements the schedule it promises: whatever calls are made, in
\* which order and with which stakes, slashes and balances, a task runs only when
\* due, by a keeper its window admits, and each run moves its own task by one
\* interval and one keeper's count by one.
THEOREM AnchorImplementsSchedule ==
    ASSUME NoLedgerWrap
    PROVE  Spec => ScheduleImplemented
<1>1. AnchorInv /\ RunsSpaced /\ [Next]_vars => [Schedule!ScheduleNext]_Schedule!schedule
    BY ScheduleStep
<1> QED
    BY <1>1, ScheduleInitially, AnchorInvariant, RunsSpacedInvariant, PTL
       DEF Spec, ScheduleImplemented, Schedule!ScheduleSpec
=============================================================================
