---------------------------- MODULE AnchorProofs ----------------------------
(* Theorems about the Anchor for every value of its constants. *)
EXTENDS Anchor, TLAPS

USE AnchorConstants

\* A u32 sum below 2^32 does not wrap.
LEMMA AddU32Small ==
    ASSUME NEW a \in Nat, NEW b \in Nat, a + b < U32
    PROVE  AddU32(a, b) = a + b
BY DEF AddU32

\* A u32 sum, wrapped or not, is a natural number.
LEMMA AddU32Type ==
    ASSUME NEW a \in Nat, NEW b \in Nat
    PROVE  AddU32(a, b) \in Nat
BY DEF AddU32

\* The i128 value of an integer is an integer.
LEMMA WrapI128Type ==
    ASSUME NEW x \in Int
    PROVE  WrapI128(x) \in Int
BY DEF WrapI128

\* An integer within the i128 range is its own i128 value.
LEMMA WrapI128Small ==
    ASSUME NEW x \in Int, -I128 <= x, x < I128
    PROVE  WrapI128(x) = x
BY DEF WrapI128

\* The three amounts of apply_slash are integers.
LEMMA SlashTypes ==
    ASSUME NEW s \in Int
    PROVE  /\ SlashAmount(s) \in Int
           /\ SecondaryReward(s) \in Int
           /\ TreasuryPortion(s) \in Int
<1>1. WrapI128(s * 5) \in Int
    BY WrapI128Type
<1>2. SlashAmount(s) \in Int
    BY <1>1 DEF SlashAmount, TruncDiv
<1>3. SecondaryReward(s) \in Int
    BY <1>2 DEF SecondaryReward, TruncDiv
<1> QED
    BY <1>2, <1>3 DEF TreasuryPortion

-----------------------------------------------------------------------------
(* What a successful call of execute_drip_split may rely on. *)

\* Storing a value keeps a function typed and leaves the other keys alone.
LEMMA PutType ==
    ASSUME NEW D, NEW R, NEW f \in [D -> R], NEW key, NEW value \in R
    PROVE  /\ DOMAIN Put(f, key, value) = D \cup {key}
           /\ Put(f, key, value) \in [D \cup {key} -> R]
           /\ Put(f, key, value)[key] = value
           /\ \A x \in D : x # key => Put(f, key, value)[x] = f[x]
BY DEF Put

\* execute_distribution returns Ok only to a registered caller it can pay.
LEMMA DistributionOk ==
    ASSUME NEW task, NEW caller, DistributionResult(task, caller, TRUE) = "Ok"
    PROVE  /\ ~(balance < task.micro_reward_per_run)
           /\ caller \in DOMAIN keepers
BY DEF DistributionResult, is_registered

\* A run without a slash has a registered caller and a covered reward.
LEMMA UnslashedOk ==
    ASSUME NEW id \in DOMAIN tasks, NEW caller,
           ExecuteResult(id, caller, TRUE) = "Ok",
           Region(tasks[id]) \in {"designated", "post_grace"}
    PROVE  /\ ~(balance < tasks[id].micro_reward_per_run)
           /\ caller \in DOMAIN keepers
<1>1. DistributionResult(tasks[id], caller, TRUE) = "Ok"
    BY DEF ExecuteResult, DesignatedResult, PostGraceResult
<1> QED
    BY <1>1, DistributionOk

\* A secondary run is by a registered keeper other than the designated one,
\* which is registered too, and both transfers are covered.
LEMMA SecondaryOk ==
    ASSUME NEW id \in DOMAIN tasks, NEW caller,
           ExecuteResult(id, caller, TRUE) = "Ok",
           Region(tasks[id]) = "grace"
    PROVE  /\ ~(balance < tasks[id].micro_reward_per_run)
           /\ caller \in DOMAIN keepers
           /\ caller # tasks[id].designated_keeper
           /\ tasks[id].designated_keeper \in DOMAIN keepers
           /\ ~(balance - tasks[id].micro_reward_per_run
                  < SecondaryReward(keepers[tasks[id].designated_keeper].stake_amount))
<1>1. GraceResult(tasks[id], caller, TRUE) = "Ok"
    BY DEF ExecuteResult
<1>2. DistributionResult(tasks[id], caller, TRUE) = "Ok"
    BY <1>1 DEF GraceResult
<1>3. /\ caller # tasks[id].designated_keeper
      /\ tasks[id].designated_keeper \in DOMAIN keepers
    BY <1>1 DEF GraceResult, ApplySlashResult, is_registered
<1>4. SecondaryTransferResult(tasks[id]) = "Ok"
    BY <1>1, <1>2 DEF GraceResult
<1> QED
    BY <1>2, <1>3, <1>4, DistributionOk DEF SecondaryTransferResult

\* execute_drip_split succeeds only once the task is due.
LEMMA DueRegion ==
    ASSUME NEW id \in DOMAIN tasks, NEW caller,
           ExecuteResult(id, caller, TRUE) = "Ok"
    PROVE  ~(ledger < tasks[id].next_allowed_execution)
BY DEF ExecuteResult, Region

-----------------------------------------------------------------------------
(* The inductive invariant. *)

\* The invariant holds when the contract is deployed.
LEMMA AnchorInvInit == Init => AnchorInv
<1> SUFFICES ASSUME Init PROVE AnchorInv
    OBVIOUS
<1>1. DOMAIN keepers = {} /\ DOMAIN tasks = {}
    BY DEF Init
<1>2. TypeOK
    BY <1>1 DEF Init, TypeOK
<1> QED
    BY <1>1, <1>2 DEF AnchorInv, DesignatedRegistered, TasksAfterInitialize, IdsIssued

\* initialize preserves the invariant.
LEMMA InitializeStep ==
    ASSUME AnchorInv, NEW a \in Address, NEW m \in MinStakes, Initialize(a, m)
    PROVE  AnchorInv'
<1> USE DEF AnchorInv, Initialize
<1>1. TypeOK'
    BY DEF TypeOK, history
<1>2. DesignatedRegistered' /\ IdsIssued'
    BY DEF DesignatedRegistered, IdsIssued
<1>3. TasksAfterInitialize'
    BY DEF TasksAfterInitialize
<1> QED
    BY <1>1, <1>2, <1>3

\* register_keeper preserves the invariant.
LEMMA RegisterKeeperStep ==
    ASSUME AnchorInv, NEW a \in Address, NEW s \in Stakes, RegisterKeeper(a, s)
    PROVE  AnchorInv'
<1> DEFINE k == [stake_amount |-> s, last_execution_ledger |-> 0,
                 total_executions |-> 0, ineligible |-> FALSE]
<1>1. k \in Keeper /\ s \in Int
    BY DEF Keeper
<1>2. /\ keepers' = Put(keepers, a, k)
      /\ pledged' = Put(pledged, a, s)
    BY DEF RegisterKeeper
<1> HIDE DEF k
<1>t. keepers \in [DOMAIN keepers -> Keeper] /\ pledged \in [DOMAIN keepers -> Int]
    BY DEF AnchorInv, TypeOK
<1>3. /\ DOMAIN keepers' = DOMAIN keepers \cup {a}
      /\ keepers' \in [DOMAIN keepers \cup {a} -> Keeper]
    BY <1>1, <1>2, <1>t DEF Put
<1>4. pledged' \in [DOMAIN keepers \cup {a} -> Int]
    BY <1>1, <1>2, <1>t DEF Put
<1>5. TypeOK'
    BY <1>3, <1>4 DEF AnchorInv, TypeOK, RegisterKeeper
<1>6. DesignatedRegistered' /\ TasksAfterInitialize' /\ IdsIssued'
    BY <1>3 DEF AnchorInv, RegisterKeeper, DesignatedRegistered, TasksAfterInitialize,
                IdsIssued
<1> QED
    BY <1>5, <1>6 DEF AnchorInv

\* provision_task writes under an id that no task has.
LEMMA NewTaskIdFresh == AnchorInv => NewTaskId \notin DOMAIN tasks
BY DEF AnchorInv, IdsIssued, NewTaskId, TypeOK, TaskId

\* provision_task preserves the invariant.
LEMMA ProvisionTaskStep ==
    ASSUME AnchorInv, NEW a \in Address, NEW d \in Address,
           NEW i \in Intervals, NEW r \in Rewards, ProvisionTask(a, i, r, d)
    PROVE  AnchorInv'
<1> DEFINE t == [execution_interval_ledgers |-> i,
                 next_allowed_execution |-> AddU32(ledger, i),
                 micro_reward_per_run |-> r, designated_keeper |-> d]
<1>1. ledger \in Nat /\ i \in Nat /\ r \in Int
    BY DEF AnchorInv, TypeOK
<1>2. t \in ExecutionTask
    BY <1>1, AddU32Type DEF ExecutionTask
<1>3. /\ tasks' = Put(tasks, NewTaskId, t)
      /\ runs' = Put(runs, NewTaskId, 0)
    BY DEF ProvisionTask
<1>d. t.designated_keeper = d
    OBVIOUS
<1> HIDE DEF t
<1>t. tasks \in [DOMAIN tasks -> ExecutionTask] /\ runs \in [DOMAIN tasks -> Nat]
    BY DEF AnchorInv, TypeOK
<1>4. /\ DOMAIN tasks' = DOMAIN tasks \cup {NewTaskId}
      /\ tasks' \in [DOMAIN tasks \cup {NewTaskId} -> ExecutionTask]
      /\ tasks'[NewTaskId] = t
      /\ \A x \in DOMAIN tasks : x # NewTaskId => tasks'[x] = tasks[x]
    BY <1>2, <1>3, <1>t DEF Put
<1>5. runs' \in [DOMAIN tasks \cup {NewTaskId} -> Nat]
    BY <1>3, <1>t, PutType
<1>6. taskCounter' = taskCounter + 1 /\ taskCounter' \in 0 .. MaxTasks
    BY AddU32Small DEF ProvisionTask, AnchorInv, TypeOK
<1>7. NewTaskId \in TaskId /\ NewTaskId[1] = taskCounter /\ NewTaskId[2] = ledger
    BY DEF NewTaskId, TaskId, AnchorInv, TypeOK
<1>8. TypeOK'
    BY <1>4, <1>5, <1>6, <1>7 DEF AnchorInv, TypeOK, ProvisionTask
<1>9. DesignatedRegistered'
    <2>1. is_registered(d)
        BY DEF ProvisionTask, ProvisionTaskResult
    <2> QED
        BY <2>1, <1>4, <1>d DEF AnchorInv, DesignatedRegistered, is_registered, ProvisionTask
<1>10. TasksAfterInitialize'
    BY DEF ProvisionTask, ProvisionTaskResult, TasksAfterInitialize
<1>11. IdsIssued'
    <2> SUFFICES ASSUME NEW id \in DOMAIN tasks'
                 PROVE  id[1] < taskCounter' /\ id[2] <= ledger'
        BY DEF IdsIssued
    <2>1. CASE id \in DOMAIN tasks
        BY <2>1, <1>6 DEF AnchorInv, IdsIssued, TypeOK, TaskId, ProvisionTask
    <2>2. CASE id = NewTaskId
        BY <2>2, <1>6, <1>7 DEF AnchorInv, TypeOK, ProvisionTask
    <2> QED
        BY <2>1, <2>2, <1>4
<1> QED
    BY <1>8, <1>9, <1>10, <1>11 DEF AnchorInv

\* apply_slash writes a well-formed keeper record.
LEMMA SlashedKeeperType ==
    ASSUME NEW k \in Keeper
    PROVE  SlashedKeeper(k) \in Keeper
<1> DEFINE new_stake == WrapI128(k.stake_amount - SlashAmount(k.stake_amount))
<1>1. k.stake_amount \in Int /\ k.ineligible \in BOOLEAN
    BY DEF Keeper
<1>2. new_stake \in Int
    BY <1>1, SlashTypes, WrapI128Type
<1>3. SlashedKeeper(k) = [k EXCEPT !.stake_amount = new_stake,
                                   !.ineligible = @ \/ new_stake < MIN_KEEPER_STAKE]
    BY DEF SlashedKeeper
<1> HIDE DEF new_stake
<1> QED
    BY <1>1, <1>2, <1>3 DEF Keeper

\* Crediting a run changes the count and the last ledger only.
LEMMA CreditedKeeperType ==
    ASSUME NEW k \in Keeper, ledger \in Nat
    PROVE  /\ CreditedKeeper(k) \in Keeper
           /\ CreditedKeeper(k).stake_amount = k.stake_amount
           /\ CreditedKeeper(k).ineligible = k.ineligible
           /\ CreditedKeeper(k).total_executions = k.total_executions + 1
<1> DEFINE n == k.total_executions + 1
<1>1. n \in Nat
    BY DEF Keeper
<1>2. CreditedKeeper(k) = [k EXCEPT !.total_executions = n,
                                    !.last_execution_ledger = ledger]
    BY DEF CreditedKeeper
<1>3. n = k.total_executions + 1
    OBVIOUS
<1> HIDE DEF n
<1> QED
    BY <1>1, <1>2, <1>3 DEF Keeper

\* execute_distribution preserves the invariant whichever registry, of the same
\* keepers, it starts from, if the contract can pay reward and bonus.
LEMMA ExecuteDistributionStep ==
    ASSUME AnchorInv, NEW id \in DOMAIN tasks, NEW caller \in DOMAIN keepers,
           NEW ks \in [DOMAIN keepers -> Keeper], NEW bonus \in Nat,
           balance - tasks[id].micro_reward_per_run - bonus >= 0,
           ExecuteDistribution(id, caller, ks, bonus),
           treasury' \in Int, secondaryPaid' \in Nat
    PROVE  AnchorInv'
<1>1. /\ keepers' \in [DOMAIN keepers -> Keeper]
      /\ DOMAIN keepers' = DOMAIN keepers
    <2>1. ks[caller] \in Keeper /\ ledger \in Nat
        BY DEF AnchorInv, TypeOK
    <2>2. CreditedKeeper(ks[caller]) \in Keeper
        BY <2>1, CreditedKeeperType
    <2>3. keepers' = [ks EXCEPT ![caller] = CreditedKeeper(ks[caller])]
        BY DEF ExecuteDistribution
    <2> QED
        BY <2>2, <2>3
<1>2. tasks[id] \in ExecutionTask
    BY DEF AnchorInv, TypeOK
<1>3. /\ Rescheduled(tasks[id]) \in ExecutionTask
      /\ Rescheduled(tasks[id]).designated_keeper = tasks[id].designated_keeper
    BY <1>2, AddU32Type DEF Rescheduled, ExecutionTask, AnchorInv, TypeOK
<1>4. /\ tasks' = [tasks EXCEPT ![id] = Rescheduled(tasks[id])]
      /\ runs' = [runs EXCEPT ![id] = runs[id] + 1]
    BY DEF ExecuteDistribution
<1>5. /\ tasks' \in [DOMAIN tasks -> ExecutionTask]
      /\ DOMAIN tasks' = DOMAIN tasks
      /\ \A x \in DOMAIN tasks : tasks'[x].designated_keeper = tasks[x].designated_keeper
    BY <1>3, <1>4 DEF AnchorInv, TypeOK
<1>6. runs' \in [DOMAIN tasks -> Nat]
    BY <1>4 DEF AnchorInv, TypeOK
<1>7. balance' \in Nat
    BY <1>2 DEF ExecuteDistribution, ExecutionTask, AnchorInv, TypeOK
<1>8. TypeOK'
    BY <1>1, <1>5, <1>6, <1>7 DEF AnchorInv, TypeOK, ExecuteDistribution
<1>9. DesignatedRegistered' /\ TasksAfterInitialize' /\ IdsIssued'
    BY <1>1, <1>5 DEF AnchorInv, DesignatedRegistered, TasksAfterInitialize, IdsIssued,
                      ExecuteDistribution
<1> QED
    BY <1>8, <1>9 DEF AnchorInv

\* A run without a slash preserves the invariant.
LEMMA ExecuteUnslashedStep ==
    ASSUME AnchorInv, NEW id \in DOMAIN tasks, NEW caller \in Address,
           ExecuteUnslashed(id, caller)
    PROVE  AnchorInv'
<1>1. /\ ~(balance < tasks[id].micro_reward_per_run)
      /\ caller \in DOMAIN keepers
    BY UnslashedOk DEF ExecuteUnslashed
<1>2. /\ balance - tasks[id].micro_reward_per_run - 0 >= 0
      /\ treasury' \in Int /\ secondaryPaid' \in Nat
    BY <1>1 DEF AnchorInv, TypeOK, ExecutionTask, ExecuteUnslashed
<1> QED
    BY <1>1, <1>2, ExecuteDistributionStep DEF AnchorInv, TypeOK, ExecuteUnslashed

\* What a secondary execution does, with its local definitions expanded.
LEMMA SecondaryEffect ==
    ASSUME AnchorInv, NEW id \in DOMAIN tasks, NEW caller \in Address,
           ExecuteSecondary(id, caller)
    PROVE  \E missed \in DOMAIN keepers, bonus \in Nat,
              ks \in [DOMAIN keepers -> Keeper] :
              /\ missed = tasks[id].designated_keeper
              /\ missed # caller /\ caller \in DOMAIN keepers
              /\ balance - tasks[id].micro_reward_per_run - bonus >= 0
              /\ ks = [keepers EXCEPT ![missed] = SlashedKeeper(keepers[missed])]
              /\ ExecuteDistribution(id, caller, ks, bonus)
              /\ treasury' \in Int /\ secondaryPaid' \in Nat
<1> DEFINE missed == tasks[id].designated_keeper
           stake  == keepers[missed].stake_amount
           bonus  == IF SecondaryReward(stake) > 0 THEN SecondaryReward(stake) ELSE 0
           ks     == [keepers EXCEPT ![missed] = SlashedKeeper(keepers[missed])]
<1>1. /\ ~(balance < tasks[id].micro_reward_per_run)
      /\ caller \in DOMAIN keepers
      /\ caller # missed /\ missed \in DOMAIN keepers
      /\ ~(balance - tasks[id].micro_reward_per_run < SecondaryReward(stake))
    BY SecondaryOk DEF ExecuteSecondary
<1>2. keepers[missed] \in Keeper /\ stake \in Int
    BY <1>1 DEF AnchorInv, TypeOK, Keeper
<1>3. /\ SecondaryReward(stake) \in Int
      /\ TreasuryPortion(stake) \in Int
    BY <1>2, SlashTypes
<1>4. /\ balance \in Nat /\ treasury \in Int /\ secondaryPaid \in Nat
      /\ tasks[id].micro_reward_per_run \in Int
    BY DEF AnchorInv, TypeOK, ExecutionTask
<1>5. bonus \in Nat /\ balance - tasks[id].micro_reward_per_run - bonus >= 0
    BY <1>1, <1>3, <1>4
<1>6. ks \in [DOMAIN keepers -> Keeper]
    BY <1>1, <1>2, SlashedKeeperType DEF AnchorInv, TypeOK
<1>7. /\ treasury' = WrapI128(treasury + TreasuryPortion(stake))
      /\ secondaryPaid' = secondaryPaid + bonus
      /\ ExecuteDistribution(id, caller, ks, bonus)
    BY DEF ExecuteSecondary
<1>8. treasury' \in Int /\ secondaryPaid' \in Nat
    BY <1>3, <1>4, <1>5, <1>7, WrapI128Type
<1> QED
    BY <1>1, <1>5, <1>6, <1>7, <1>8

\* A secondary run preserves the invariant.
LEMMA ExecuteSecondaryStep ==
    ASSUME AnchorInv, NEW id \in DOMAIN tasks, NEW caller \in Address,
           ExecuteSecondary(id, caller)
    PROVE  AnchorInv'
BY SecondaryEffect, ExecuteDistributionStep

\* Closing a ledger and funding the contract preserve the invariant.
LEMMA HostStep ==
    ASSUME AnchorInv, CloseLedger \/ \E amount \in Deposits : Fund(amount)
    PROVE  AnchorInv'
<1>1. CASE CloseLedger
    <2>1. TypeOK'
        BY <1>1 DEF CloseLedger, storage, history, AnchorInv, TypeOK
    <2>2. IdsIssued'
        BY <1>1 DEF CloseLedger, storage, AnchorInv, IdsIssued, TypeOK, TaskId
    <2> QED
        BY <1>1, <2>1, <2>2 DEF CloseLedger, storage, AnchorInv, DesignatedRegistered,
                                TasksAfterInitialize
<1>2. ASSUME NEW amount \in Deposits, Fund(amount)
      PROVE  AnchorInv'
    BY <1>2 DEF Fund, storage, AnchorInv, TypeOK, DesignatedRegistered,
                TasksAfterInitialize, IdsIssued
<1> QED
    BY <1>1, <1>2

\* Every step preserves the invariant.
LEMMA AnchorInvStep == AnchorInv /\ [Next]_vars => AnchorInv'
<1> SUFFICES ASSUME AnchorInv, [Next]_vars PROVE AnchorInv'
    OBVIOUS
<1>1. CASE UNCHANGED vars
    BY <1>1 DEF vars, storage, history, AnchorInv, TypeOK, DesignatedRegistered,
                TasksAfterInitialize, IdsIssued
<1>2. CASE RejectedCall
    BY <1>1, <1>2 DEF RejectedCall
<1>3. CASE Next /\ ~RejectedCall
    BY <1>3, InitializeStep, RegisterKeeperStep, ProvisionTaskStep, ExecuteUnslashedStep,
       ExecuteSecondaryStep, HostStep DEF Next
<1> QED
    BY <1>1, <1>2, <1>3

\* Storage keeps its types, every task's designated keeper is registered, no
\* task exists before initialize, and ids are never reused.
THEOREM AnchorInvariant == Spec => []AnchorInv
BY AnchorInvInit, AnchorInvStep, PTL DEF Spec

\* Contract storage, the token balance and the counters keep their types; in
\* particular no call spends tokens the contract does not hold.
THEOREM TypeCorrect == Spec => []TypeOK
<1>1. AnchorInv => TypeOK
    BY DEF AnchorInv
<1> QED
    BY <1>1, AnchorInvariant, PTL

\* execute_drip_split never fails on a missing keeper record or an
\* unconfigured token, whichever task and caller it is given.
THEOREM NoInternalErrors == Spec => []NoInternalError
<1>1. AnchorInv => NoInternalError
    <2> SUFFICES ASSUME AnchorInv, NEW id \in DOMAIN tasks, NEW c \in Address
                 PROVE  ExecuteResult(id, c, TRUE) \notin {"KeeperNotFound", "NativeTokenPanic"}
        BY DEF NoInternalError
    <2>1. admin # None /\ is_registered(tasks[id].designated_keeper)
        BY DEF AnchorInv, TasksAfterInitialize, DesignatedRegistered, is_registered
    <2>2. is_registered(c) =>
              DistributionResult(tasks[id], c, TRUE) \notin {"KeeperNotFound", "NativeTokenPanic"}
        BY <2>1 DEF DistributionResult
    <2>3. DesignatedResult(tasks[id], c, TRUE) \notin {"KeeperNotFound", "NativeTokenPanic"}
        BY <2>1, <2>2 DEF DesignatedResult
    <2>4. PostGraceResult(tasks[id], c, TRUE) \notin {"KeeperNotFound", "NativeTokenPanic"}
        BY <2>2 DEF PostGraceResult
    <2>5. GraceResult(tasks[id], c, TRUE) \notin {"KeeperNotFound", "NativeTokenPanic"}
        BY <2>1, <2>2 DEF GraceResult, ApplySlashResult, SecondaryTransferResult
    <2> QED
        BY <2>3, <2>4, <2>5 DEF ExecuteResult
<1> QED
    BY <1>1, AnchorInvariant, PTL

-----------------------------------------------------------------------------
(* The schedule. *)

\* A run of a task: the one thing that moves its next execution.
Ran(id) ==
    /\ ~(ledger < tasks[id].next_allowed_execution)
    /\ tasks' = [tasks EXCEPT ![id] = Rescheduled(tasks[id])]
    /\ runs' = [runs EXCEPT ![id] = runs[id] + 1]
    /\ ledger' = ledger

\* A new task, with no run yet.
Provisioned(i, r, d) ==
    /\ i > 0
    /\ tasks' = Put(tasks, NewTaskId,
                    [execution_interval_ledgers |-> i,
                     next_allowed_execution |-> AddU32(ledger, i),
                     micro_reward_per_run |-> r, designated_keeper |-> d])
    /\ runs' = Put(runs, NewTaskId, 0)
    /\ ledger' = ledger

\* Both forms of execution run one due task.
LEMMA ExecutionRuns ==
    ASSUME NEW id \in DOMAIN tasks, NEW c \in Address,
           ExecuteUnslashed(id, c) \/ ExecuteSecondary(id, c)
    PROVE  Ran(id)
BY DueRegion DEF ExecuteUnslashed, ExecuteSecondary, ExecuteDistribution, Ran

\* A step runs one task, adds one, or leaves all tasks alone.
LEMMA TaskSteps ==
    ASSUME AnchorInv, [Next]_vars
    PROVE  \/ \E id \in DOMAIN tasks : Ran(id)
           \/ \E i \in Intervals, r \in Rewards, d \in Address :
                 Provisioned(i, r, d)
           \/ tasks' = tasks /\ runs' = runs /\ ledger' \in {ledger, ledger + 1}
<1>1. CASE UNCHANGED vars \/ RejectedCall \/ CloseLedger
    BY <1>1 DEF RejectedCall, CloseLedger, vars, storage, history
<1>2. ASSUME NEW a \in Address, NEW m \in MinStakes, Initialize(a, m)
      PROVE  tasks' = tasks /\ runs' = runs /\ ledger' = ledger
    BY <1>2 DEF Initialize, history
<1>3. ASSUME NEW a \in Address, NEW s \in Stakes, RegisterKeeper(a, s)
      PROVE  tasks' = tasks /\ runs' = runs /\ ledger' = ledger
    BY <1>3 DEF RegisterKeeper
<1>4. ASSUME NEW amount \in Deposits, Fund(amount)
      PROVE  tasks' = tasks /\ runs' = runs /\ ledger' = ledger
    BY <1>4 DEF Fund, storage
<1>5. ASSUME NEW a \in Address, NEW d \in Address, NEW i \in Intervals, NEW r \in Rewards,
             ProvisionTask(a, i, r, d)
      PROVE  Provisioned(i, r, d)
    <2>1. i # 0
        BY <1>5 DEF ProvisionTask, ProvisionTaskResult
    <2> QED
        BY <1>5, <2>1 DEF ProvisionTask, Provisioned
<1> QED
    BY <1>1, <1>2, <1>3, <1>4, <1>5, ExecutionRuns DEF Next

\* A run changes nothing of a task but its next execution.
LEMMA RescheduledFields ==
    ASSUME NEW t \in ExecutionTask
    PROVE  /\ Rescheduled(t).execution_interval_ledgers = t.execution_interval_ledgers
           /\ Rescheduled(t).micro_reward_per_run = t.micro_reward_per_run
           /\ Rescheduled(t).designated_keeper = t.designated_keeper
           /\ Rescheduled(t).next_allowed_execution
                = AddU32(ledger, t.execution_interval_ledgers)
BY DEF Rescheduled, ExecutionTask

\* Without wrap-around, the next execution is the plain sum.
LEMMA NoWrapSum ==
    ASSUME NoLedgerWrap, NEW i \in Intervals, NEW n \in Nat, n <= MaxLedger
    PROVE  AddU32(n, i) = n + i
<1>1. i \in Nat /\ n + i < U32
    BY DEF NoLedgerWrap
<1> QED
    BY <1>1, AddU32Small

\* The next execution that a run computes does not wrap.
LEMMA NextRun ==
    ASSUME AnchorInv, RunsSpaced, NoLedgerWrap, NEW id \in DOMAIN tasks
    PROVE  AddU32(ledger, tasks[id].execution_interval_ledgers)
             = ledger + tasks[id].execution_interval_ledgers
<1>1. /\ tasks[id].execution_interval_ledgers \in Intervals
      /\ ledger \in Nat /\ ledger <= MaxLedger
    BY DEF AnchorInv, TypeOK, RunsSpaced
<1> QED
    BY <1>1, NoWrapSum

\* Every step keeps the runs of a task an interval apart.
LEMMA RunsSpacedStep ==
    ASSUME NoLedgerWrap, AnchorInv, RunsSpaced, [Next]_vars
    PROVE  RunsSpaced'
<1>t. /\ ledger \in Nat /\ runs \in [DOMAIN tasks -> Nat]
      /\ tasks \in [DOMAIN tasks -> ExecutionTask]
      /\ DOMAIN tasks \subseteq TaskId
    BY DEF AnchorInv, TypeOK
<1>1. ASSUME NEW id \in DOMAIN tasks, Ran(id)
      PROVE  RunsSpaced'
    <2> DEFINE i == tasks[id].execution_interval_ledgers
               n == tasks[id].next_allowed_execution
    <2>1. /\ i \in Nat /\ n \in Nat /\ runs[id] \in Nat /\ id[2] \in Nat
          /\ i \in Intervals /\ i > 0
          /\ id[2] + runs[id] * i <= n - i
        BY <1>t DEF RunsSpaced, ExecutionTask, TaskId
    <2>2. /\ DOMAIN tasks' = DOMAIN tasks
          /\ tasks'[id] = Rescheduled(tasks[id])
          /\ runs'[id] = runs[id] + 1
          /\ \A x \in DOMAIN tasks : x # id => tasks'[x] = tasks[x] /\ runs'[x] = runs[x]
        BY <1>1, <1>t DEF Ran
    <2>3. /\ tasks'[id].execution_interval_ledgers = i
          /\ tasks'[id].next_allowed_execution = ledger + i
        BY <1>t, <2>2, RescheduledFields, NextRun
    <2>4. ledger >= n /\ ledger' = ledger
        BY <1>1, <1>t, <2>1 DEF Ran
    <2>5. (runs[id] + 1) * i = runs[id] * i + i
        BY <2>1
    <2>6. id[2] + (runs[id] + 1) * i <= (ledger + i) - i
        BY <2>1, <2>4, <2>5, <1>t
    <2> HIDE DEF i, n
    <2>7. (ledger + i) - i <= ledger
        BY <1>t, <2>1
    <2> QED
        BY <2>1, <2>2, <2>3, <2>4, <2>6, <2>7 DEF RunsSpaced
<1>2. ASSUME NEW i \in Intervals, NEW r \in Rewards, NEW d \in Address,
             Provisioned(i, r, d)
      PROVE  RunsSpaced'
    <2> DEFINE t == [execution_interval_ledgers |-> i,
                     next_allowed_execution |-> AddU32(ledger, i),
                     micro_reward_per_run |-> r, designated_keeper |-> d]
    <2>t. /\ i > 0 /\ t.execution_interval_ledgers = i
          /\ t.next_allowed_execution = AddU32(ledger, i)
          /\ tasks' = Put(tasks, NewTaskId, t)
          /\ runs' = Put(runs, NewTaskId, 0) /\ ledger' = ledger
        BY <1>2 DEF Provisioned
    <2> HIDE DEF t
    <2>1. i \in Nat /\ t.next_allowed_execution = ledger + i
        BY <2>t, NoWrapSum DEF AnchorInv, TypeOK
    <2>2. /\ DOMAIN tasks' = DOMAIN tasks \cup {NewTaskId}
          /\ tasks'[NewTaskId] = t /\ runs'[NewTaskId] = 0
          /\ \A x \in DOMAIN tasks : x # NewTaskId => tasks'[x] = tasks[x] /\ runs'[x] = runs[x]
        BY <2>t, <1>t DEF Put
    <2>3. NewTaskId[2] = ledger
        BY DEF NewTaskId
    <2>4. ledger + 0 * i <= (ledger + i) - i /\ (ledger + i) - i <= ledger
        BY <2>1, <1>t
    <2>5. NewTaskId \notin DOMAIN tasks
        BY NewTaskIdFresh
    <2> QED
        BY <2>t, <2>1, <2>2, <2>3, <2>4, <2>5 DEF RunsSpaced
<1>3. ASSUME tasks' = tasks, runs' = runs, ledger' \in {ledger, ledger + 1}
      PROVE  RunsSpaced'
    <2> SUFFICES ASSUME NEW id \in DOMAIN tasks
                 PROVE  LET i == tasks[id].execution_interval_ledgers
                            last == tasks[id].next_allowed_execution - i
                        IN  /\ i \in Intervals /\ i > 0
                            /\ id[2] + runs[id] * i <= last
                            /\ last <= ledger'
        BY <1>3 DEF RunsSpaced
    <2>1. tasks[id].execution_interval_ledgers \in Nat /\ tasks[id].next_allowed_execution \in Nat
        BY <1>t DEF ExecutionTask
    <2> QED
        BY <1>3, <1>t, <2>1 DEF RunsSpaced
<1> QED
    BY <1>1, <1>2, <1>3, TaskSteps

\* The runs of a task are always an interval apart.
LEMMA RunsSpacedInvariant ==
    ASSUME NoLedgerWrap
    PROVE  Spec => []RunsSpaced
<1>1. Init => RunsSpaced
    BY DEF Init, RunsSpaced
<1>2. AnchorInv /\ RunsSpaced /\ [Next]_vars => RunsSpaced'
    BY RunsSpacedStep
<1> QED
    BY <1>1, <1>2, AnchorInvariant, PTL DEF Spec

\* As long as no ledger plus interval reaches 2^32, a task is paid for at most
\* once per interval.
THEOREM RunBudgetHolds ==
    ASSUME NoLedgerWrap
    PROVE  Spec => []RunBudget
<1>1. AnchorInv /\ RunsSpaced => RunBudget
    <2> SUFFICES ASSUME AnchorInv, RunsSpaced, NEW id \in DOMAIN tasks
                 PROVE  runs[id] * tasks[id].execution_interval_ledgers <= ledger - id[2]
        BY DEF RunBudget
    <2>1. /\ tasks[id].execution_interval_ledgers \in Nat
          /\ tasks[id].next_allowed_execution \in Nat
          /\ runs[id] \in Nat /\ id[2] \in Nat /\ ledger \in Nat
        BY DEF AnchorInv, TypeOK, ExecutionTask, TaskId
    <2>2. runs[id] * tasks[id].execution_interval_ledgers \in Nat
        BY <2>1
    <2> QED
        BY <2>1, <2>2 DEF RunsSpaced
<1> QED
    BY <1>1, AnchorInvariant, RunsSpacedInvariant, PTL

\* Under the same condition a stored task is never dropped or overwritten, and
\* each run moves its next execution strictly forward.
THEOREM ScheduleAlwaysAdvances ==
    ASSUME NoLedgerWrap
    PROVE  Spec => ScheduleAdvances
<1> DEFINE Step ==
        \A id \in DOMAIN tasks :
          /\ id \in DOMAIN tasks'
          /\ tasks'[id].designated_keeper = tasks[id].designated_keeper
          /\ tasks'[id].execution_interval_ledgers = tasks[id].execution_interval_ledgers
          /\ tasks'[id].micro_reward_per_run = tasks[id].micro_reward_per_run
          /\ runs'[id] # runs[id] =>
               tasks'[id].next_allowed_execution > tasks[id].next_allowed_execution
          /\ runs'[id] = runs[id] =>
               tasks'[id].next_allowed_execution = tasks[id].next_allowed_execution
<1>1. ASSUME AnchorInv, RunsSpaced, [Next]_vars PROVE Step
    <2>t. /\ ledger \in Nat /\ runs \in [DOMAIN tasks -> Nat]
          /\ tasks \in [DOMAIN tasks -> ExecutionTask]
        BY <1>1 DEF AnchorInv, TypeOK
    <2>1. ASSUME NEW x \in DOMAIN tasks, Ran(x) PROVE Step
        <3>1. /\ DOMAIN tasks' = DOMAIN tasks
              /\ tasks'[x] = Rescheduled(tasks[x]) /\ runs'[x] = runs[x] + 1
              /\ \A y \in DOMAIN tasks : y # x => tasks'[y] = tasks[y] /\ runs'[y] = runs[y]
            BY <2>1, <2>t DEF Ran
        <3>2. /\ tasks[x] \in ExecutionTask /\ runs[x] \in Nat
              /\ tasks[x].execution_interval_ledgers \in Nat
              /\ tasks[x].next_allowed_execution \in Nat
              /\ tasks[x].execution_interval_ledgers > 0
            BY <1>1, <2>t DEF ExecutionTask, RunsSpaced
        <3>3. Rescheduled(tasks[x]).next_allowed_execution
                = ledger + tasks[x].execution_interval_ledgers
            BY <1>1, <3>2, RescheduledFields, NextRun
        <3>4. Rescheduled(tasks[x]).next_allowed_execution > tasks[x].next_allowed_execution
            BY <2>1, <2>t, <3>2, <3>3 DEF Ran
        <3> QED
            BY <3>1, <3>2, <3>4, RescheduledFields
    <2>2. ASSUME NEW i \in Intervals, NEW r \in Rewards, NEW d \in Address, Provisioned(i, r, d)
          PROVE  Step
        <3>1. NewTaskId \notin DOMAIN tasks
            BY <1>1, NewTaskIdFresh
        <3>2. \A y \in DOMAIN tasks : /\ y \in DOMAIN tasks'
                                      /\ tasks'[y] = tasks[y] /\ runs'[y] = runs[y]
            BY <2>2, <2>t, <3>1 DEF Provisioned, Put
        <3> QED
            BY <3>2
    <2> QED
        BY <1>1, <2>1, <2>2, TaskSteps
<1>2. AnchorInv /\ RunsSpaced /\ [Next]_vars => [Step]_vars
    BY <1>1
<1> QED
    BY <1>2, AnchorInvariant, RunsSpacedInvariant, PTL DEF Spec, ScheduleAdvances

-----------------------------------------------------------------------------
(* Stakes. *)

\* A run without a slash leaves every stake and flag as it was.
LEMMA UnslashedKeepers ==
    ASSUME AnchorInv, NEW id \in DOMAIN tasks, NEW c \in Address, ExecuteUnslashed(id, c)
    PROVE  /\ DOMAIN keepers' = DOMAIN keepers
           /\ \A k \in DOMAIN keepers : /\ keepers'[k].stake_amount = keepers[k].stake_amount
                                        /\ keepers'[k].ineligible = keepers[k].ineligible
           /\ pledged' = pledged
<1>1. c \in DOMAIN keepers
    BY UnslashedOk DEF ExecuteUnslashed
<1>2. keepers[c] \in Keeper /\ ledger \in Nat /\ keepers \in [DOMAIN keepers -> Keeper]
    BY <1>1 DEF AnchorInv, TypeOK
<1>3. /\ keepers' = [keepers EXCEPT ![c] = CreditedKeeper(keepers[c])]
      /\ pledged' = pledged
    BY DEF ExecuteUnslashed, ExecuteDistribution
<1> QED
    BY <1>1, <1>2, <1>3, CreditedKeeperType

\* A secondary run changes the stake and the flag of the designated keeper
\* alone, as apply_slash does, and credits another keeper.
LEMMA SecondaryKeepers ==
    ASSUME AnchorInv, NEW id \in DOMAIN tasks, NEW c \in Address, ExecuteSecondary(id, c)
    PROVE  LET missed == tasks[id].designated_keeper
               slashed == SlashedKeeper(keepers[missed])
           IN  /\ DOMAIN keepers' = DOMAIN keepers
               /\ missed \in DOMAIN keepers /\ c \in DOMAIN keepers /\ c # missed
               /\ keepers'[missed] = slashed
               /\ keepers'[c].total_executions = keepers[c].total_executions + 1
               /\ \A k \in DOMAIN keepers : k # missed =>
                     /\ keepers'[k].stake_amount = keepers[k].stake_amount
                     /\ keepers'[k].ineligible = keepers[k].ineligible
               /\ pledged' = pledged
<1> DEFINE missed == tasks[id].designated_keeper
           slashed == SlashedKeeper(keepers[missed])
<1>1. PICK bonus \in Nat, ks \in [DOMAIN keepers -> Keeper] :
          /\ missed \in DOMAIN keepers /\ c \in DOMAIN keepers /\ c # missed
          /\ ks = [keepers EXCEPT ![missed] = slashed]
          /\ ExecuteDistribution(id, c, ks, bonus)
    BY SecondaryEffect
<1>2. keepers \in [DOMAIN keepers -> Keeper] /\ ledger \in Nat
    BY DEF AnchorInv, TypeOK
<1>3. /\ keepers' = [ks EXCEPT ![c] = CreditedKeeper(ks[c])]
      /\ pledged' = pledged
    BY <1>1 DEF ExecuteDistribution
<1> HIDE DEF missed, slashed
<1>4. /\ ks[c] = keepers[c] /\ ks[missed] = slashed
      /\ \A k \in DOMAIN keepers : k # missed => ks[k] = keepers[k]
    BY <1>1, <1>2
<1>5. /\ CreditedKeeper(ks[c]).stake_amount = keepers[c].stake_amount
      /\ CreditedKeeper(ks[c]).ineligible = keepers[c].ineligible
      /\ CreditedKeeper(ks[c]).total_executions = keepers[c].total_executions + 1
    BY <1>1, <1>2, <1>4, CreditedKeeperType
<1>6. /\ DOMAIN keepers' = DOMAIN keepers
      /\ keepers'[c] = CreditedKeeper(ks[c])
      /\ keepers'[missed] = slashed
      /\ \A k \in DOMAIN keepers : k # missed /\ k # c => keepers'[k] = keepers[k]
    BY <1>1, <1>3, <1>4
<1>7. \A k \in DOMAIN keepers : k # missed =>
                     /\ keepers'[k].stake_amount = keepers[k].stake_amount
                     /\ keepers'[k].ineligible = keepers[k].ineligible
    BY <1>5, <1>6
<1> QED
    BY <1>1, <1>3, <1>5, <1>6, <1>7 DEF missed, slashed

\* register_keeper adds one keeper, with a stake that meets the minimum.
LEMMA RegisterKeepers ==
    ASSUME AnchorInv, NEW a \in Address, NEW s \in Stakes, RegisterKeeper(a, s)
    PROVE  /\ a \notin DOMAIN keepers
           /\ ~(s < EffectiveMinStake)
           /\ DOMAIN keepers' = DOMAIN keepers \cup {a}
           /\ keepers'[a].stake_amount = s /\ keepers'[a].ineligible = FALSE
           /\ pledged'[a] = s
           /\ \A k \in DOMAIN keepers : keepers'[k] = keepers[k] /\ pledged'[k] = pledged[k]
<1>1. a \notin DOMAIN keepers /\ ~(s < EffectiveMinStake)
    BY DEF RegisterKeeper, RegisterKeeperResult, is_registered
<1>2. /\ keepers \in [DOMAIN keepers -> Keeper]
      /\ pledged \in [DOMAIN keepers -> Int]
    BY DEF AnchorInv, TypeOK
<1> QED
    BY <1>1, <1>2 DEF RegisterKeeper, Put

\* Every other step leaves the registry alone.
LEMMA KeeperSteps ==
    ASSUME [Next]_vars
    PROVE  \/ \E a \in Address, s \in Stakes : RegisterKeeper(a, s)
           \/ \E id \in DOMAIN tasks, c \in Address : ExecuteUnslashed(id, c)
           \/ \E id \in DOMAIN tasks, c \in Address : ExecuteSecondary(id, c)
           \/ keepers' = keepers /\ pledged' = pledged
<1>1. CASE UNCHANGED vars \/ RejectedCall \/ CloseLedger
    BY <1>1 DEF RejectedCall, CloseLedger, vars, storage, history
<1>2. ASSUME NEW a \in Address, NEW m \in MinStakes, Initialize(a, m)
      PROVE  keepers' = keepers /\ pledged' = pledged
    BY <1>2 DEF Initialize, history
<1>3. ASSUME NEW amount \in Deposits, Fund(amount)
      PROVE  keepers' = keepers /\ pledged' = pledged
    BY <1>3 DEF Fund, storage
<1>4. ASSUME NEW a \in Address, NEW d \in Address, NEW i \in Intervals, NEW r \in Rewards,
             ProvisionTask(a, i, r, d)
      PROVE  keepers' = keepers /\ pledged' = pledged
    BY <1>4 DEF ProvisionTask
<1> QED
    BY <1>1, <1>2, <1>3, <1>4 DEF Next

\* A stake changes only in a secondary execution, within the grace period, of
\* a task the keeper was designated for.
THEOREM SlashesAreEarned == Spec => SlashOnlyForMissedWindow
<1> DEFINE Step ==
       \A k \in DOMAIN keepers :
          keepers'[k].stake_amount # keepers[k].stake_amount =>
            \E id \in DOMAIN tasks :
               /\ tasks[id].designated_keeper = k
               /\ Region(tasks[id]) = "grace"
               /\ runs'[id] = runs[id] + 1
               /\ \E c \in DOMAIN keepers \ {k} :
                     keepers'[c].total_executions = keepers[c].total_executions + 1
<1>1. ASSUME AnchorInv, [Next]_vars PROVE Step
    <2>1. ASSUME NEW a \in Address, NEW s \in Stakes, RegisterKeeper(a, s) PROVE Step
        BY <1>1, <2>1, RegisterKeepers
    <2>2. ASSUME NEW id \in DOMAIN tasks, NEW c \in Address, ExecuteUnslashed(id, c) PROVE Step
        BY <1>1, <2>2, UnslashedKeepers
    <2>3. ASSUME NEW id \in DOMAIN tasks, NEW c \in Address, ExecuteSecondary(id, c) PROVE Step
        <3>1. Region(tasks[id]) = "grace"
            BY <2>3 DEF ExecuteSecondary
        <3>2. runs'[id] = runs[id] + 1
            BY <1>1, <2>3, ExecutionRuns DEF Ran, AnchorInv, TypeOK
        <3> QED
            BY <1>1, <2>3, <3>1, <3>2, SecondaryKeepers
    <2> QED
        BY <1>1, <2>1, <2>2, <2>3, KeeperSteps
<1>2. AnchorInv /\ [Next]_vars => [Step]_vars
    BY <1>1
<1> QED
    BY <1>2, AnchorInvariant, PTL DEF Spec, SlashOnlyForMissedWindow

\* A slash of a stake that cannot wrap is at most the stake, and less than it
\* when there is any.
LEMMA SlashBounds ==
    ASSUME NEW s \in Nat, s * 5 < I128
    PROVE  /\ SlashAmount(s) \in Nat
           /\ SlashAmount(s) <= s
           /\ s > 0 => SlashAmount(s) < s
           /\ WrapI128(s - SlashAmount(s)) = s - SlashAmount(s)
<1>1. WrapI128(s * 5) = s * 5
    BY WrapI128Small
<1>2. SlashAmount(s) = (s * 5) \div 100
    BY <1>1 DEF SlashAmount, TruncDiv
<1>3. /\ SlashAmount(s) \in Nat
      /\ SlashAmount(s) <= s
      /\ s > 0 => SlashAmount(s) < s
    BY <1>2
<1>4. s - SlashAmount(s) \in Int /\ -I128 <= s - SlashAmount(s) /\ s - SlashAmount(s) < I128
    BY <1>3
<1> QED
    BY <1>3, <1>4, WrapI128Small

\* The configured minimum, once there is one, is an argument of initialize.
MinConfigured == minKeeperStake \in MinStakes \cup {None}

\* The configured minimum stays one that initialize may be given.
LEMMA MinConfiguredStep == MinConfigured /\ [Next]_vars => MinConfigured'
<1> SUFFICES ASSUME MinConfigured, [Next]_vars PROVE MinConfigured'
    OBVIOUS
<1>1. ASSUME NEW a \in Address, NEW m \in MinStakes, Initialize(a, m)
      PROVE  MinConfigured'
    BY <1>1 DEF Initialize, MinConfigured
<1>2. CASE ~(\E a \in Address, m \in MinStakes : Initialize(a, m))
    <2>1. minKeeperStake' = minKeeperStake
        BY <1>2 DEF Next, vars, storage, RegisterKeeper, ProvisionTask, ExecuteUnslashed,
                    ExecuteSecondary, ExecuteDistribution, RejectedCall, CloseLedger, Fund
    <2> QED
        BY <2>1 DEF MinConfigured
<1> QED
    BY <1>1, <1>2

\* Every step keeps the stakes within what was pledged and the flags exact.
LEMMA StakesBoundedStep ==
    ASSUME SoundStakes, AnchorInv, MinConfigured, StakesBounded, [Next]_vars
    PROVE  StakesBounded'
<1>t. /\ keepers \in [DOMAIN keepers -> Keeper]
      /\ pledged \in [DOMAIN keepers -> Int]
    BY DEF AnchorInv, TypeOK
<1>1. ASSUME NEW a \in Address, NEW s \in Stakes, RegisterKeeper(a, s)
      PROVE  StakesBounded'
    <2>1. 0 <= EffectiveMinStake /\ EffectiveMinStake \in Int
        BY DEF EffectiveMinStake, MIN_KEEPER_STAKE, MinConfigured, SoundStakes
    <2>2. /\ ~(s < EffectiveMinStake)
          /\ DOMAIN keepers' = DOMAIN keepers \cup {a}
          /\ keepers'[a].stake_amount = s /\ keepers'[a].ineligible = FALSE
          /\ pledged'[a] = s
          /\ \A k \in DOMAIN keepers : keepers'[k] = keepers[k] /\ pledged'[k] = pledged[k]
        BY <1>1, RegisterKeepers
    <2>3. s \in Int /\ s * 5 < I128
        BY DEF SoundStakes
    <2>4. 0 <= s
        BY <2>1, <2>2, <2>3
    <2> SUFFICES ASSUME NEW k \in DOMAIN keepers \cup {a}
                 PROVE  LET stake == keepers'[k].stake_amount IN
                        /\ 0 <= stake /\ stake <= pledged'[k] /\ pledged'[k] * 5 < I128
                        /\ pledged'[k] > 0 => stake > 0
                        /\ keepers'[k].ineligible => stake < MIN_KEEPER_STAKE
                        /\ stake < pledged'[k] /\ stake < MIN_KEEPER_STAKE
                             => keepers'[k].ineligible
        BY <2>2 DEF StakesBounded
    <2>5. CASE k = a
        BY <2>2, <2>3, <2>4, <2>5
    <2>6. CASE k \in DOMAIN keepers
        BY <2>2, <2>6 DEF StakesBounded
    <2> QED
        BY <2>5, <2>6
<1>2. ASSUME NEW id \in DOMAIN tasks, NEW c \in Address, ExecuteUnslashed(id, c)
      PROVE  StakesBounded'
    BY <1>2, UnslashedKeepers DEF StakesBounded
<1>3. ASSUME NEW id \in DOMAIN tasks, NEW c \in Address, ExecuteSecondary(id, c)
      PROVE  StakesBounded'
    <2> DEFINE m == tasks[id].designated_keeper
               s == keepers[m].stake_amount
    <2>1. /\ DOMAIN keepers' = DOMAIN keepers /\ m \in DOMAIN keepers
          /\ keepers'[m] = SlashedKeeper(keepers[m])
          /\ \A k \in DOMAIN keepers : k # m =>
                     /\ keepers'[k].stake_amount = keepers[k].stake_amount
                     /\ keepers'[k].ineligible = keepers[k].ineligible
          /\ pledged' = pledged
        BY <1>3, SecondaryKeepers
    <2>2. /\ keepers[m] \in Keeper /\ s \in Int /\ pledged[m] \in Int
          /\ keepers[m].ineligible \in BOOLEAN
        BY <1>t, <2>1 DEF Keeper
    <2>3. /\ 0 <= s /\ s <= pledged[m] /\ pledged[m] * 5 < I128
          /\ pledged[m] > 0 => s > 0
          /\ keepers[m].ineligible => s < MIN_KEEPER_STAKE
        BY <2>1 DEF StakesBounded
    <2>4. s \in Nat /\ s * 5 < I128
        BY <2>2, <2>3
    <2>5. /\ SlashAmount(s) \in Nat /\ SlashAmount(s) <= s
          /\ s > 0 => SlashAmount(s) < s
          /\ WrapI128(s - SlashAmount(s)) = s - SlashAmount(s)
        BY <2>4, SlashBounds
    <2> DEFINE n == s - SlashAmount(s)
    <2>6. /\ SlashedKeeper(keepers[m]).stake_amount = n
          /\ SlashedKeeper(keepers[m]).ineligible
               = (keepers[m].ineligible \/ n < MIN_KEEPER_STAKE)
        BY <2>2, <2>5 DEF SlashedKeeper, Keeper
    <2>7. /\ n \in Int /\ 0 <= n /\ n <= s /\ n <= pledged[m]
          /\ pledged[m] > 0 => n > 0
        BY <2>2, <2>3, <2>5
    <2> HIDE DEF n, s, m
    <2>8. keepers[m].ineligible => n < MIN_KEEPER_STAKE
        BY <2>2, <2>3, <2>7 DEF MIN_KEEPER_STAKE, s
    <2>9. /\ keepers'[m].stake_amount = n
          /\ keepers'[m].ineligible <=> n < MIN_KEEPER_STAKE
        BY <2>1, <2>6, <2>8
    <2>10. pledged[m] * 5 < I128
        BY <2>3
    <2> SUFFICES ASSUME NEW k \in DOMAIN keepers
                 PROVE  LET stake == keepers'[k].stake_amount IN
                        /\ 0 <= stake /\ stake <= pledged[k] /\ pledged[k] * 5 < I128
                        /\ pledged[k] > 0 => stake > 0
                        /\ keepers'[k].ineligible => stake < MIN_KEEPER_STAKE
                        /\ stake < pledged[k] /\ stake < MIN_KEEPER_STAKE
                             => keepers'[k].ineligible
        BY <2>1 DEF StakesBounded
    <2>11. CASE k = m
        BY <2>7, <2>9, <2>10, <2>11
    <2>12. CASE k # m
        BY <2>1, <2>12 DEF StakesBounded
    <2> QED
        BY <2>11, <2>12
<1>4. ASSUME keepers' = keepers, pledged' = pledged
      PROVE  StakesBounded'
    BY <1>4 DEF StakesBounded
<1> QED
    BY <1>1, <1>2, <1>3, <1>4, KeeperSteps

\* Stakes are always within what was pledged, and the flags exact.
LEMMA StakesBoundedInvariant ==
    ASSUME SoundStakes
    PROVE  Spec => []StakesBounded
<1>1. Init => MinConfigured /\ StakesBounded
    BY DEF Init, MinConfigured, StakesBounded
<1>2. AnchorInv /\ MinConfigured /\ StakesBounded /\ [Next]_vars => StakesBounded'
    BY StakesBoundedStep
<1> QED
    BY <1>1, <1>2, MinConfiguredStep, AnchorInvariant, PTL DEF Spec

\* With a non-negative configured minimum and stakes whose five-fold fits in an
\* i128, no sequence of slashes takes a positive stake to zero or raises it.
THEOREM StakesSurvive ==
    ASSUME SoundStakes
    PROVE  Spec => []StakeSurvivesSlashing
<1>1. StakesBounded => StakeSurvivesSlashing
    BY DEF StakesBounded, StakeSurvivesSlashing
<1> QED
    BY <1>1, StakesBoundedInvariant, PTL

\* Under the same condition the ineligible flag is exact.
THEOREM IneligibilityExact ==
    ASSUME SoundStakes
    PROVE  Spec => []IneligibleExact
<1>1. StakesBounded => IneligibleExact
    BY DEF StakesBounded, IneligibleExact
<1> QED
    BY <1>1, StakesBoundedInvariant, PTL

-----------------------------------------------------------------------------
(* No due task is without an executor. *)

AllPledged == \A k \in DOMAIN keepers : pledged[k] > 0

\* With a positive minimum, every keeper registers with some stake.
LEMMA AllPledgedStep ==
    ASSUME PositiveMinimum, AnchorInv, MinConfigured, AllPledged, [Next]_vars
    PROVE  AllPledged'
<1>1. ASSUME NEW a \in Address, NEW s \in Stakes, RegisterKeeper(a, s)
      PROVE  AllPledged'
    <2>1. 0 < EffectiveMinStake /\ EffectiveMinStake \in Int /\ s \in Int
        BY DEF EffectiveMinStake, MIN_KEEPER_STAKE, MinConfigured, PositiveMinimum
    <2>2. /\ ~(s < EffectiveMinStake)
          /\ DOMAIN keepers' = DOMAIN keepers \cup {a}
          /\ pledged'[a] = s
          /\ \A k \in DOMAIN keepers : pledged'[k] = pledged[k]
        BY <1>1, RegisterKeepers
    <2>3. s > 0
        BY <2>1, <2>2
    <2> QED
        BY <2>2, <2>3 DEF AllPledged
<1>2. ASSUME NEW id \in DOMAIN tasks, NEW c \in Address, ExecuteUnslashed(id, c)
      PROVE  AllPledged'
    BY <1>2, UnslashedKeepers DEF AllPledged
<1>3. ASSUME NEW id \in DOMAIN tasks, NEW c \in Address, ExecuteSecondary(id, c)
      PROVE  AllPledged'
    BY <1>3, SecondaryKeepers DEF AllPledged
<1>4. ASSUME keepers' = keepers, pledged' = pledged
      PROVE  AllPledged'
    BY <1>4 DEF AllPledged
<1> QED
    BY <1>1, <1>2, <1>3, <1>4, KeeperSteps

\* A keeper that may run a due task exists in each of the three windows.
LEMMA ExecutorExists ==
    ASSUME AnchorInv, StakesBounded, AllPledged
    PROVE  DueTaskExecutable
<1> SUFFICES ASSUME NEW id \in DOMAIN tasks,
                    Region(tasks[id]) # "pre_window",
                    DOMAIN keepers \ {tasks[id].designated_keeper} # {},
                    balance >= tasks[id].micro_reward_per_run
                      + SecondaryReward(keepers[tasks[id].designated_keeper].stake_amount)
             PROVE  \E c \in Address : ExecuteResult(id, c, TRUE) = "Ok"
    BY DEF DueTaskExecutable
<1> DEFINE task == tasks[id]
           d == task.designated_keeper
           s == keepers[d].stake_amount
<1>1. /\ d \in DOMAIN keepers /\ admin # None
      /\ DOMAIN keepers \subseteq Address
      /\ balance \in Nat /\ task.micro_reward_per_run \in Int
    BY DEF AnchorInv, TypeOK, DesignatedRegistered, TasksAfterInitialize, ExecutionTask
<1>2. s \in Int /\ pledged[d] \in Int
    BY <1>1 DEF AnchorInv, TypeOK, Keeper
<1>3. s \in Nat /\ s # 0 /\ s * 5 < I128
    BY <1>1, <1>2 DEF StakesBounded, AllPledged
<1>4. SlashAmount(s) \in Nat
    BY <1>3, SlashBounds
<1>5. SecondaryReward(s) \in Nat
    BY <1>4 DEF SecondaryReward, TruncDiv
<1>6. /\ ~(balance < task.micro_reward_per_run)
      /\ ~(balance - task.micro_reward_per_run < SecondaryReward(s))
    BY <1>1, <1>5
<1>7. \A c \in DOMAIN keepers : DistributionResult(task, c, TRUE) = "Ok"
    BY <1>1, <1>6 DEF DistributionResult, is_registered
<1>8. CASE Region(task) = "grace"
    <2>1. PICK c \in DOMAIN keepers : c # d
        OBVIOUS
    <2>2. ApplySlashResult(d) = "Ok" /\ SecondaryTransferResult(task) = "Ok"
        BY <1>1, <1>3, <1>6 DEF ApplySlashResult, SecondaryTransferResult, is_registered
    <2>3. GraceResult(task, c, TRUE) = "Ok"
        BY <2>1, <2>2, <1>7 DEF GraceResult, is_registered
    <2> QED
        BY <1>1, <1>8, <2>1, <2>3 DEF ExecuteResult
<1>9. CASE Region(task) # "grace"
    <2>1. DesignatedResult(task, d, TRUE) = "Ok" /\ PostGraceResult(task, d, TRUE) = "Ok"
        BY <1>1, <1>7 DEF DesignatedResult, PostGraceResult, is_registered
    <2> QED
        BY <1>1, <1>9, <2>1 DEF ExecuteResult
<1> QED
    BY <1>8, <1>9

\* When every configured minimum is positive, a due task of a funded contract
\* with a second keeper can always be run by someone.
THEOREM DueTasksExecutable ==
    ASSUME SoundStakes, PositiveMinimum
    PROVE  Spec => []DueTaskExecutable
<1>1. Init => MinConfigured /\ AllPledged
    BY DEF Init, MinConfigured, AllPledged
<1>2. AnchorInv /\ MinConfigured /\ AllPledged /\ [Next]_vars => AllPledged'
    BY AllPledgedStep
<1>3. AnchorInv /\ StakesBounded /\ AllPledged => DueTaskExecutable
    BY ExecutorExists
<1> QED
    BY <1>1, <1>2, <1>3, MinConfiguredStep, AnchorInvariant, StakesBoundedInvariant, PTL
       DEF Spec
=============================================================================
