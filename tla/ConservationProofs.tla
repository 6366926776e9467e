------------------------- MODULE ConservationProofs -------------------------
(* The Anchor's books balance, for every value of the constants: runs and   *)
(* credits, tokens, stakes and treasury.                                     *)
EXTENDS ScheduleProofs, SumProofs

USE AnchorConstants

\* Storage has finitely many records when the contract is deployed.
LEMMA FiniteStorageInit == Init => FiniteStorage
<1>1. Init => DOMAIN keepers = {} /\ DOMAIN tasks = {}
    BY DEF Init
<1> QED
    BY <1>1, FS_EmptySet DEF FiniteStorage

\* A call adds one record at most.
LEMMA FiniteStorageStep ==
    ASSUME AnchorInv, FiniteStorage, [Next]_vars
    PROVE  FiniteStorage'
<1>t. keepers \in [DOMAIN keepers -> Keeper] /\ tasks \in [DOMAIN tasks -> ExecutionTask]
    BY DEF AnchorInv, TypeOK
<1>1. \/ DOMAIN tasks' = DOMAIN tasks
      \/ DOMAIN tasks' = DOMAIN tasks \cup {NewTaskId}
    BY TaskSteps DEF Ran, Provisioned, Put
<1>2. \/ DOMAIN keepers' = DOMAIN keepers
      \/ \E a \in Address : DOMAIN keepers' = DOMAIN keepers \cup {a}
    BY KeeperSteps, RegisterKeepers, UnslashedKeepers, SecondaryKeepers
<1>3. IsFiniteSet(DOMAIN tasks')
    BY <1>1, FS_AddElement DEF FiniteStorage
<1>4. IsFiniteSet(DOMAIN keepers')
    <2>1. ASSUME NEW a \in Address, DOMAIN keepers' = DOMAIN keepers \cup {a}
          PROVE  IsFiniteSet(DOMAIN keepers')
        BY <2>1, FS_AddElement DEF FiniteStorage
    <2> QED
        BY <1>2, <2>1 DEF FiniteStorage
<1> QED
    BY <1>3, <1>4 DEF FiniteStorage

\* Storage always has finitely many records.
LEMMA FiniteStorageInvariant == Spec => []FiniteStorage
<1>1. AnchorInv /\ FiniteStorage /\ [Next]_vars => FiniteStorage'
    BY FiniteStorageStep
<1> QED
    BY <1>1, FiniteStorageInit, AnchorInvariant, PTL DEF Spec

-----------------------------------------------------------------------------
(* Runs and credits. *)

\* The counts of executions are integers, and so are the counts of runs.
LEMMA CountTypes ==
    ASSUME AnchorInv
    PROVE  Credits \in [DOMAIN keepers -> Int] /\ runs \in [DOMAIN tasks -> Int]
BY DEF AnchorInv, TypeOK, Keeper, Credits

\* An execution adds one to both totals.
LEMMA ExecutionTotals ==
    ASSUME AnchorInv, AnchorInv', FiniteStorage, NEW id \in DOMAIN tasks, NEW c \in Address,
           ExecuteUnslashed(id, c) \/ ExecuteSecondary(id, c)
    PROVE  /\ SumFunction(Credits') = SumFunction(Credits) + 1
           /\ SumFunction(runs') = SumFunction(runs) + 1
<1>t. /\ Credits \in [DOMAIN keepers -> Int] /\ runs \in [DOMAIN tasks -> Int]
      /\ IsFiniteSet(DOMAIN keepers) /\ IsFiniteSet(DOMAIN tasks)
    BY CountTypes DEF FiniteStorage
<1>1. c \in DOMAIN keepers /\ Credits' = [Credits EXCEPT ![c] = @ + 1]
    BY ExecutionCredits
<1>2. runs' = [runs EXCEPT ![id] = @ + 1]
    BY ExecutionRuns DEF Ran
<1>3. SumFunction(Credits') = SumFunction(Credits) + (Credits'[c] - Credits[c])
    <2>1. /\ c \in DOMAIN keepers /\ Credits' \in [DOMAIN keepers -> Int]
          /\ \A k \in DOMAIN keepers : k # c => Credits'[k] = Credits[k]
        BY <1>t, <1>1
    <2> QED
        BY <1>t, <2>1, TotalUpdate
<1>4. SumFunction(runs') = SumFunction(runs) + (runs'[id] - runs[id])
    <2>1. /\ runs' \in [DOMAIN tasks -> Int]
          /\ \A x \in DOMAIN tasks : x # id => runs'[x] = runs[x]
        BY <1>t, <1>2
    <2> QED
        BY <1>t, <2>1, TotalUpdate
<1>5. Credits'[c] - Credits[c] = 1 /\ runs'[id] - runs[id] = 1
    BY <1>t, <1>1, <1>2
<1> QED
    BY <1>3, <1>4, <1>5

\* register_keeper and provision_task add a count of zero.
LEMMA NewCounts ==
    ASSUME AnchorInv, AnchorInv', FiniteStorage
    PROVE  /\ \A a \in Address, s \in Stakes : RegisterKeeper(a, s) =>
                 SumFunction(Credits') = SumFunction(Credits) /\ runs' = runs
           /\ \A i \in Intervals, r \in Rewards, d \in Address : Provisioned(i, r, d) =>
                 SumFunction(runs') = SumFunction(runs)
<1>t. /\ Credits \in [DOMAIN keepers -> Int] /\ runs \in [DOMAIN tasks -> Int]
      /\ Credits' \in [DOMAIN keepers' -> Int] /\ runs' \in [DOMAIN tasks' -> Int]
      /\ IsFiniteSet(DOMAIN keepers) /\ IsFiniteSet(DOMAIN tasks)
    BY CountTypes DEF FiniteStorage, Credits, AnchorInv, TypeOK, Keeper
<1>1. ASSUME NEW a \in Address, NEW s \in Stakes, RegisterKeeper(a, s)
      PROVE  SumFunction(Credits') = SumFunction(Credits)
    <2>1. /\ a \notin DOMAIN keepers /\ DOMAIN keepers' = DOMAIN keepers \cup {a}
          /\ \A k \in DOMAIN keepers : keepers'[k] = keepers[k]
        BY <1>1, RegisterKeepers
    <2>2. keepers'[a].total_executions = 0
        BY <1>1 DEF RegisterKeeper, Put
    <2>3. Credits'[a] = 0 /\ \A k \in DOMAIN keepers : Credits'[k] = Credits[k]
        BY <2>1, <2>2 DEF Credits
    <2>4. SumFunction(Credits') = SumFunction(Credits) + Credits'[a]
        <3>1. a \notin DOMAIN keepers /\ Credits' \in [DOMAIN keepers \cup {a} -> Int]
            BY <1>t, <2>1
        <3>2. Credits \in [DOMAIN keepers -> Int] /\ IsFiniteSet(DOMAIN keepers)
            BY <1>t
        <3> QED
            BY <2>3, <3>1, <3>2, TotalExtend
    <2> QED
        BY <1>t, <2>3, <2>4, TotalType
<1>2. ASSUME NEW i \in Intervals, NEW r \in Rewards, NEW d \in Address, Provisioned(i, r, d)
      PROVE  SumFunction(runs') = SumFunction(runs)
    <2>1. NewTaskId \notin DOMAIN tasks
        BY NewTaskIdFresh
    <2>2. /\ DOMAIN tasks' = DOMAIN tasks \cup {NewTaskId}
          /\ runs'[NewTaskId] = 0 /\ \A x \in DOMAIN tasks : runs'[x] = runs[x]
        BY <1>2, <1>t, <2>1 DEF Provisioned, Put
    <2>3. SumFunction(runs') = SumFunction(runs) + runs'[NewTaskId]
        BY <1>t, <2>1, <2>2, TotalExtend
    <2> QED
        BY <1>t, <2>2, <2>3, TotalType
<1>3. ASSUME NEW a \in Address, NEW s \in Stakes, RegisterKeeper(a, s)
      PROVE  runs' = runs
    BY <1>3 DEF RegisterKeeper
<1> QED
    BY <1>1, <1>2, <1>3

\* The two totals move together in every step.
LEMMA RunsCreditedStep ==
    ASSUME AnchorInv, AnchorInv', FiniteStorage, RunsCredited, [Next]_vars
    PROVE  RunsCredited'
<1>0. /\ SumFunction(Credits) = SumFunction(runs)
      /\ RunsCredited' <=> SumFunction(Credits') = SumFunction(runs')
    BY DEF RunsCredited, Credits
<1>1. ASSUME NEW a \in Address, NEW s \in Stakes, RegisterKeeper(a, s)
      PROVE  RunsCredited'
    BY <1>0, <1>1, NewCounts
<1>2. ASSUME NEW id \in DOMAIN tasks, NEW c \in Address,
             ExecuteUnslashed(id, c) \/ ExecuteSecondary(id, c)
      PROVE  RunsCredited'
    BY <1>0, <1>2, ExecutionTotals
<1>3. ASSUME NEW a \in Address, NEW d \in Address, NEW i \in Intervals, NEW r \in Rewards,
             ProvisionTask(a, i, r, d)
      PROVE  RunsCredited'
    <2>1. keepers' = keepers /\ Provisioned(i, r, d)
        <3>1. i # 0
            BY <1>3 DEF ProvisionTask, ProvisionTaskResult
        <3> QED
            BY <1>3, <3>1 DEF ProvisionTask, Provisioned
    <2>2. Credits' = Credits
        BY <2>1 DEF Credits
    <2> QED
        BY <1>0, <2>1, <2>2, NewCounts
<1>4. ASSUME keepers' = keepers, runs' = runs
      PROVE  RunsCredited'
    BY <1>4 DEF RunsCredited
<1>5. CASE UNCHANGED vars \/ RejectedCall \/ CloseLedger
    BY <1>4, <1>5 DEF RejectedCall, CloseLedger, vars, storage, history
<1>6. ASSUME NEW a \in Address, NEW m \in MinStakes, Initialize(a, m)
      PROVE  RunsCredited'
    BY <1>4, <1>6 DEF Initialize, history
<1>7. ASSUME NEW amount \in Deposits, Fund(amount)
      PROVE  RunsCredited'
    BY <1>4, <1>7 DEF Fund, storage
<1> QED
    BY <1>1, <1>2, <1>3, <1>5, <1>6, <1>7 DEF Next

\* Every run of a task is credited to exactly one keeper: the executions that
\* keepers are credited with add up to the runs of all tasks.
THEOREM EveryRunCredited == Spec => []RunsCredited
<1>1. Init => RunsCredited
    <2> SUFFICES ASSUME Init PROVE RunsCredited
        OBVIOUS
    <2>1. DOMAIN Credits = {} /\ DOMAIN runs = {}
        BY DEF Init, Credits
    <2>2. SumFunction(Credits) = 0 /\ SumFunction(runs) = 0
        BY <2>1, TotalEmpty
    <2> QED
        BY <2>2 DEF RunsCredited, Credits
<1>2. AnchorInv /\ AnchorInv' /\ FiniteStorage /\ RunsCredited /\ [Next]_vars => RunsCredited'
    BY RunsCreditedStep
<1> QED
    BY <1>1, <1>2, AnchorInvariant, FiniteStorageInvariant, PTL DEF Spec

-----------------------------------------------------------------------------
(* Tokens. *)

\* What the runs of each task have cost.
Paid == [id \in DOMAIN tasks |-> runs[id] * tasks[id].micro_reward_per_run]

\* The costs are integers.
LEMMA PaidType ==
    ASSUME AnchorInv
    PROVE  Paid \in [DOMAIN tasks -> Int]
<1>1. \A id \in DOMAIN tasks : runs[id] \in Int /\ tasks[id].micro_reward_per_run \in Int
    BY DEF AnchorInv, TypeOK, ExecutionTask
<1>2. \A id \in DOMAIN tasks : runs[id] * tasks[id].micro_reward_per_run \in Int
    BY <1>1
<1> QED
    BY <1>2 DEF Paid

\* An execution pays its reward, and the secondary reward that it counts.
LEMMA ExecutionPays ==
    ASSUME AnchorInv, NEW id \in DOMAIN tasks, NEW c \in Address,
           ExecuteUnslashed(id, c) \/ ExecuteSecondary(id, c)
    PROVE  /\ funded' = funded
           /\ \E bonus \in Int :
                 /\ balance' = balance - tasks[id].micro_reward_per_run - bonus
                 /\ secondaryPaid' = secondaryPaid + bonus
<1>1. CASE ExecuteUnslashed(id, c)
    <2>1. /\ balance' = balance - tasks[id].micro_reward_per_run - 0
          /\ secondaryPaid' = secondaryPaid /\ funded' = funded
        BY <1>1 DEF ExecuteUnslashed, ExecuteDistribution
    <2>2. secondaryPaid' = secondaryPaid + 0
        BY <2>1 DEF AnchorInv, TypeOK
    <2> QED
        BY <2>1, <2>2
<1>2. CASE ExecuteSecondary(id, c)
    <2> DEFINE stake == keepers[tasks[id].designated_keeper].stake_amount
               bonus == IF SecondaryReward(stake) > 0 THEN SecondaryReward(stake) ELSE 0
    <2>1. tasks[id].designated_keeper \in DOMAIN keepers
        BY DEF AnchorInv, DesignatedRegistered
    <2>2. stake \in Int
        BY <2>1 DEF AnchorInv, TypeOK, Keeper
    <2>3. bonus \in Int
        BY <2>2, SlashTypes
    <2>4. /\ balance' = balance - tasks[id].micro_reward_per_run - bonus
          /\ secondaryPaid' = secondaryPaid + bonus /\ funded' = funded
        BY <1>2 DEF ExecuteSecondary, ExecuteDistribution
    <2> QED
        BY <2>3, <2>4
<1> QED
    BY <1>1, <1>2

\* An execution adds the task's reward to the total cost.
LEMMA ExecutionCost ==
    ASSUME AnchorInv, AnchorInv', FiniteStorage, NEW id \in DOMAIN tasks, Ran(id)
    PROVE  SumFunction(Paid') = SumFunction(Paid) + tasks[id].micro_reward_per_run
<1>t. /\ Paid \in [DOMAIN tasks -> Int] /\ IsFiniteSet(DOMAIN tasks)
      /\ tasks \in [DOMAIN tasks -> ExecutionTask] /\ runs \in [DOMAIN tasks -> Nat]
    BY PaidType DEF FiniteStorage, AnchorInv, TypeOK
<1>1. /\ DOMAIN tasks' = DOMAIN tasks
      /\ tasks'[id] = Rescheduled(tasks[id]) /\ runs'[id] = runs[id] + 1
      /\ \A x \in DOMAIN tasks : x # id => tasks'[x] = tasks[x] /\ runs'[x] = runs[x]
    BY <1>t DEF Ran
<1>2. tasks'[id].micro_reward_per_run = tasks[id].micro_reward_per_run
    BY <1>1, <1>t, RescheduledFields
<1>3. /\ Paid'[id] = (runs[id] + 1) * tasks[id].micro_reward_per_run
      /\ Paid[id] = runs[id] * tasks[id].micro_reward_per_run
      /\ \A x \in DOMAIN tasks : x # id => Paid'[x] = Paid[x]
    BY <1>1, <1>2 DEF Paid
<1>4. Paid' \in [DOMAIN tasks -> Int]
    <2>1. \A x \in DOMAIN tasks' : runs'[x] \in Int /\ tasks'[x].micro_reward_per_run \in Int
        BY DEF AnchorInv, TypeOK, ExecutionTask
    <2>2. \A x \in DOMAIN tasks' : runs'[x] * tasks'[x].micro_reward_per_run \in Int
        BY <2>1
    <2> QED
        BY <1>1, <2>2 DEF Paid
<1>5. SumFunction(Paid') = SumFunction(Paid) + (Paid'[id] - Paid[id])
    BY <1>t, <1>3, <1>4, TotalUpdate
<1>6. Paid'[id] - Paid[id] = tasks[id].micro_reward_per_run
    <2>1. runs[id] \in Int /\ tasks[id].micro_reward_per_run \in Int
        BY <1>t DEF ExecutionTask
    <2>2. (runs[id] + 1) * tasks[id].micro_reward_per_run
            = runs[id] * tasks[id].micro_reward_per_run + tasks[id].micro_reward_per_run
        BY <2>1
    <2> QED
        BY <1>3, <2>1, <2>2
<1> QED
    BY <1>5, <1>6

\* A new task has cost nothing.
LEMMA ProvisionCost ==
    ASSUME AnchorInv, AnchorInv', FiniteStorage,
           NEW i \in Intervals, NEW r \in Rewards, NEW d \in Address, Provisioned(i, r, d)
    PROVE  SumFunction(Paid') = SumFunction(Paid)
<1>t. /\ Paid \in [DOMAIN tasks -> Int] /\ IsFiniteSet(DOMAIN tasks)
      /\ tasks \in [DOMAIN tasks -> ExecutionTask] /\ runs \in [DOMAIN tasks -> Nat]
    BY PaidType DEF FiniteStorage, AnchorInv, TypeOK
<1>1. NewTaskId \notin DOMAIN tasks
    BY NewTaskIdFresh
<1>2. /\ DOMAIN tasks' = DOMAIN tasks \cup {NewTaskId} /\ runs'[NewTaskId] = 0
      /\ \A x \in DOMAIN tasks : tasks'[x] = tasks[x] /\ runs'[x] = runs[x]
    BY <1>t, <1>1 DEF Provisioned, Put
<1>3. \A x \in DOMAIN tasks' : runs'[x] \in Int /\ tasks'[x].micro_reward_per_run \in Int
    BY DEF AnchorInv, TypeOK, ExecutionTask
<1>4. \A x \in DOMAIN tasks' : runs'[x] * tasks'[x].micro_reward_per_run \in Int
    BY <1>3
<1>5. 0 * tasks'[NewTaskId].micro_reward_per_run = 0
    BY <1>2, <1>3
<1>6. /\ Paid' \in [DOMAIN tasks \cup {NewTaskId} -> Int]
      /\ Paid'[NewTaskId] = 0
      /\ \A x \in DOMAIN tasks : Paid'[x] = Paid[x]
    BY <1>2, <1>4, <1>5 DEF Paid
<1>7. SumFunction(Paid') = SumFunction(Paid) + Paid'[NewTaskId]
    BY <1>t, <1>1, <1>6, TotalExtend, SMTT(30)
<1> QED
    BY <1>t, <1>6, <1>7, TotalType

\* Balance, deposits and payments move together in every step.
LEMMA TokenConservationStep ==
    ASSUME AnchorInv, AnchorInv', FiniteStorage, TokenConservation, [Next]_vars
    PROVE  TokenConservation'
<1>0. /\ balance = funded - secondaryPaid - SumFunction(Paid)
      /\ TokenConservation' <=> balance' = funded' - secondaryPaid' - SumFunction(Paid')
    BY DEF TokenConservation, Paid
<1>t. /\ balance \in Int /\ funded \in Int /\ secondaryPaid \in Int
      /\ SumFunction(Paid) \in Int
    BY PaidType, TotalType DEF AnchorInv, TypeOK, FiniteStorage
<1>1. ASSUME NEW id \in DOMAIN tasks, NEW c \in Address,
             ExecuteUnslashed(id, c) \/ ExecuteSecondary(id, c)
      PROVE  TokenConservation'
    <2>1. PICK bonus \in Int :
             /\ balance' = balance - tasks[id].micro_reward_per_run - bonus
             /\ secondaryPaid' = secondaryPaid + bonus
        BY <1>1, ExecutionPays
    <2>2. funded' = funded
        BY <1>1, ExecutionPays
    <2>3. SumFunction(Paid') = SumFunction(Paid) + tasks[id].micro_reward_per_run
        BY <1>1, ExecutionRuns, ExecutionCost
    <2>4. tasks[id].micro_reward_per_run \in Int
        BY DEF AnchorInv, TypeOK, ExecutionTask
    <2> QED
        BY <1>0, <1>t, <2>1, <2>2, <2>3, <2>4
<1>2. ASSUME NEW a \in Address, NEW d \in Address, NEW i \in Intervals, NEW r \in Rewards,
             ProvisionTask(a, i, r, d)
      PROVE  TokenConservation'
    <2>1. i # 0
        BY <1>2 DEF ProvisionTask, ProvisionTaskResult
    <2>2. /\ balance' = balance /\ funded' = funded /\ secondaryPaid' = secondaryPaid
          /\ Provisioned(i, r, d)
        BY <1>2, <2>1 DEF ProvisionTask, Provisioned
    <2> QED
        BY <1>0, <2>2, ProvisionCost
<1>3. ASSUME NEW amount \in Deposits, Fund(amount)
      PROVE  TokenConservation'
    <2>1. /\ balance' = balance + amount /\ funded' = funded + amount
          /\ secondaryPaid' = secondaryPaid /\ Paid' = Paid
        BY <1>3 DEF Fund, storage, Paid
    <2>2. amount \in Int
        OBVIOUS
    <2> QED
        BY <1>0, <1>t, <2>1, <2>2
<1>4. ASSUME balance' = balance, funded' = funded, secondaryPaid' = secondaryPaid,
             tasks' = tasks, runs' = runs
      PROVE  TokenConservation'
    BY <1>4 DEF TokenConservation
<1>5. CASE UNCHANGED vars \/ RejectedCall \/ CloseLedger
    BY <1>4, <1>5 DEF RejectedCall, CloseLedger, vars, storage, history
<1>6. ASSUME NEW a \in Address, NEW m \in MinStakes, Initialize(a, m)
      PROVE  TokenConservation'
    BY <1>4, <1>6 DEF Initialize, history
<1>7. ASSUME NEW a \in Address, NEW s \in Stakes, RegisterKeeper(a, s)
      PROVE  TokenConservation'
    BY <1>4, <1>7 DEF RegisterKeeper
<1> QED
    BY <1>1, <1>2, <1>3, <1>5, <1>6, <1>7 DEF Next

\* The contract's tokens are always what it was sent less one reward per run and
\* the secondary rewards: no call pays twice, or pays and then fails.
THEOREM TokensConserved == Spec => []TokenConservation
<1>1. Init => TokenConservation
    <2> SUFFICES ASSUME Init PROVE TokenConservation
        OBVIOUS
    <2>1. DOMAIN Paid = {}
        BY DEF Init, Paid
    <2>2. SumFunction(Paid) = 0
        BY <2>1, TotalEmpty
    <2> QED
        BY <2>2 DEF TokenConservation, Paid, Init
<1>2. AnchorInv /\ AnchorInv' /\ FiniteStorage /\ TokenConservation /\ [Next]_vars
        => TokenConservation'
    BY TokenConservationStep
<1> QED
    BY <1>1, <1>2, AnchorInvariant, FiniteStorageInvariant, PTL DEF Spec

-----------------------------------------------------------------------------
(* Stakes and treasury. *)

\* What each keeper lost to slashing.
Lost == [k \in DOMAIN keepers |-> pledged[k] - keepers[k].stake_amount]

\* Losses are integers.
LEMMA LostType ==
    ASSUME AnchorInv
    PROVE  Lost \in [DOMAIN keepers -> Int]
BY DEF AnchorInv, TypeOK, Keeper, Lost

\* A slash is split without remainder: an odd stroop goes to the treasury.
LEMMA SlashSplit ==
    ASSUME NEW s \in Nat, s * 5 < I128
    PROVE  /\ SecondaryReward(s) \in Nat /\ TreasuryPortion(s) \in Nat
           /\ SecondaryReward(s) + TreasuryPortion(s) = SlashAmount(s)
<1>1. SlashAmount(s) \in Nat
    BY SlashBounds
<1>2. SecondaryReward(s) = SlashAmount(s) \div 2
    BY <1>1 DEF SecondaryReward, TruncDiv
<1>3. SecondaryReward(s) \in Nat /\ SecondaryReward(s) <= SlashAmount(s)
    BY <1>1, <1>2
<1>4. TreasuryPortion(s) = SlashAmount(s) - SecondaryReward(s)
    BY DEF TreasuryPortion
<1> QED
    BY <1>1, <1>3, <1>4

\* Keepers that lose no more than they pledged lose, together, less than an
\* i128 holds.
LEMMA LossesFit ==
    ASSUME TotalStakeFits, NEW S \in SUBSET Address, IsFiniteSet(S),
           NEW p \in [S -> Int], NEW e \in [S -> Int],
           \A k \in S : p[k] \in Stakes /\ 0 <= p[k] /\ e[k] <= p[k]
    PROVE  SumFunction(e) < I128
<1>1. p \in [S -> {s \in Stakes : s >= 0}]
    OBVIOUS
<1>2. SumFunction(p) < I128
    BY <1>1 DEF TotalStakeFits
<1>3. SumFunction(e) <= SumFunction(p)
    BY TotalMonotone
<1>4. SumFunction(e) \in Int /\ SumFunction(p) \in Int
    BY TotalType
<1> QED
    BY <1>2, <1>3, <1>4

\* A new keeper has lost nothing.
LEMMA RegisterLosses ==
    ASSUME AnchorInv, AnchorInv', FiniteStorage,
           NEW a \in Address, NEW s \in Stakes, RegisterKeeper(a, s)
    PROVE  SumFunction(Lost') = SumFunction(Lost)
<1>1. /\ a \notin DOMAIN keepers
      /\ DOMAIN keepers' = DOMAIN keepers \cup {a}
      /\ keepers'[a].stake_amount = s /\ pledged'[a] = s
      /\ \A k \in DOMAIN keepers : keepers'[k] = keepers[k] /\ pledged'[k] = pledged[k]
    BY RegisterKeepers
<1>2. /\ Lost'[a] = 0
      /\ \A k \in DOMAIN keepers : Lost'[k] = Lost[k]
    BY <1>1 DEF Lost
<1>3. Lost \in [DOMAIN keepers -> Int] /\ IsFiniteSet(DOMAIN keepers)
    BY LostType DEF FiniteStorage
<1>4. Lost' \in [DOMAIN keepers \cup {a} -> Int]
    <2>1. \A k \in DOMAIN keepers' : pledged'[k] \in Int /\ keepers'[k].stake_amount \in Int
        BY DEF AnchorInv, TypeOK, Keeper
    <2> QED
        BY <1>1, <2>1 DEF Lost
<1>5. SumFunction(Lost') = SumFunction(Lost) + Lost'[a]
    <2>1. a \notin DOMAIN keepers
        BY <1>1
    <2>2. \A k \in DOMAIN keepers : Lost'[k] = Lost[k]
        BY <1>2
    <2> QED
        BY <1>3, <1>4, <2>1, <2>2, TotalExtend
<1> QED
    BY <1>2, <1>3, <1>5, TotalType

\* A slash adds its amount to the losses.
LEMMA SlashLosses ==
    ASSUME AnchorInv, AnchorInv', FiniteStorage, StakesBounded,
           NEW id \in DOMAIN tasks, NEW c \in Address, ExecuteSecondary(id, c)
    PROVE  LET s == keepers[tasks[id].designated_keeper].stake_amount
           IN  /\ s \in Nat /\ s * 5 < I128
               /\ SumFunction(Lost') = SumFunction(Lost) + SlashAmount(s)
<1> DEFINE m == tasks[id].designated_keeper
           s == keepers[m].stake_amount
<1>1. /\ DOMAIN keepers' = DOMAIN keepers /\ m \in DOMAIN keepers
      /\ keepers'[m] = SlashedKeeper(keepers[m])
      /\ \A k \in DOMAIN keepers : k # m =>
            keepers'[k].stake_amount = keepers[k].stake_amount
      /\ pledged' = pledged
    BY SecondaryKeepers
<1>2. keepers[m] \in Keeper /\ s \in Int /\ pledged[m] \in Int
    BY <1>1 DEF AnchorInv, TypeOK, Keeper
<1>3. s \in Nat /\ s * 5 < I128
    BY <1>1, <1>2 DEF StakesBounded
<1>4. /\ SlashAmount(s) \in Nat
      /\ WrapI128(s - SlashAmount(s)) = s - SlashAmount(s)
    BY <1>3, SlashBounds
<1>5. keepers'[m].stake_amount = s - SlashAmount(s)
    BY <1>1, <1>2, <1>4 DEF SlashedKeeper, Keeper
<1> HIDE DEF m, s
<1>6. /\ Lost'[m] = pledged[m] - (s - SlashAmount(s)) /\ Lost[m] = pledged[m] - s
      /\ \A k \in DOMAIN keepers : k # m => Lost'[k] = Lost[k]
    BY <1>1, <1>5 DEF Lost, s
<1>7. /\ \A k \in DOMAIN keepers' : pledged'[k] \in Int /\ keepers'[k].stake_amount \in Int
      /\ Lost \in [DOMAIN keepers -> Int] /\ IsFiniteSet(DOMAIN keepers)
    BY LostType DEF AnchorInv, TypeOK, Keeper, FiniteStorage
<1>8. Lost' \in [DOMAIN keepers -> Int]
    BY <1>1, <1>7 DEF Lost
<1>9. SumFunction(Lost') = SumFunction(Lost) + (Lost'[m] - Lost[m])
    BY <1>1, <1>6, <1>7, <1>8, TotalUpdate
<1>10. Lost'[m] - Lost[m] = SlashAmount(s)
    BY <1>2, <1>4, <1>6
<1> QED
    BY <1>3, <1>9, <1>10 DEF m, s

\* A secondary execution accounts for what it takes: the treasury does not wrap.
LEMMA SecondaryLosses ==
    ASSUME AnchorInv, AnchorInv', FiniteStorage, FiniteStorage', StakesBounded, StakesBounded',
           TotalStakeFits, LossesAccounted,
           NEW id \in DOMAIN tasks, NEW c \in Address, ExecuteSecondary(id, c)
    PROVE  LossesAccounted'
<1> DEFINE s == keepers[tasks[id].designated_keeper].stake_amount
<1>0. /\ SumFunction(Lost) = treasury + secondaryPaid /\ treasury >= 0
      /\ SlashConservation' <=> SumFunction(Lost') = treasury' + secondaryPaid'
    BY DEF LossesAccounted, SlashConservation, Lost
<1>1. /\ s \in Nat /\ s * 5 < I128
      /\ SumFunction(Lost') = SumFunction(Lost) + SlashAmount(s)
    BY SlashLosses
<1>2. /\ SecondaryReward(s) \in Nat /\ TreasuryPortion(s) \in Nat
      /\ SecondaryReward(s) + TreasuryPortion(s) = SlashAmount(s)
    BY <1>1, SlashSplit
<1>3. /\ treasury' = WrapI128(treasury + TreasuryPortion(s))
      /\ secondaryPaid' = secondaryPaid
                            + IF SecondaryReward(s) > 0 THEN SecondaryReward(s) ELSE 0
    BY DEF ExecuteSecondary
<1> HIDE DEF s
<1>4. \A k \in DOMAIN keepers' : pledged'[k] \in Stakes
    BY SecondaryKeepers DEF LossesAccounted
<1>5. SumFunction(Lost') < I128
    <2>1. /\ DOMAIN keepers' \in SUBSET Address /\ IsFiniteSet(DOMAIN keepers')
          /\ pledged' \in [DOMAIN keepers' -> Int]
          /\ \A k \in DOMAIN keepers' : keepers'[k].stake_amount \in Int
        BY DEF AnchorInv, TypeOK, FiniteStorage, Keeper
    <2>2. \A k \in DOMAIN keepers' : 0 <= pledged'[k] /\ Lost'[k] <= pledged'[k]
        BY <2>1 DEF StakesBounded, Lost
    <2>3. Lost' \in [DOMAIN keepers' -> Int]
        BY <2>1 DEF Lost
    <2> QED
        BY <1>4, <2>1, <2>2, <2>3, LossesFit
<1>6. treasury \in Int /\ secondaryPaid \in Nat
    BY DEF AnchorInv, TypeOK
<1>7. secondaryPaid' = secondaryPaid + SecondaryReward(s)
    BY <1>2, <1>3
<1>8. treasury + TreasuryPortion(s) < I128
    BY <1>0, <1>1, <1>2, <1>5, <1>6
<1>9. treasury' = treasury + TreasuryPortion(s)
    BY <1>0, <1>2, <1>3, <1>6, <1>8, WrapI128Small
<1>10. SlashConservation' /\ treasury' >= 0
    BY <1>0, <1>1, <1>2, <1>6, <1>7, <1>9
<1> QED
    BY <1>4, <1>10 DEF LossesAccounted

\* Every step accounts for what keepers lose.
LEMMA LossesAccountedStep ==
    ASSUME SoundStakes, TotalStakeFits, AnchorInv, AnchorInv', FiniteStorage, FiniteStorage',
           StakesBounded, StakesBounded', LossesAccounted, [Next]_vars
    PROVE  LossesAccounted'
<1>0. /\ SlashConservation <=> SumFunction(Lost) = treasury + secondaryPaid
      /\ SlashConservation' <=> SumFunction(Lost') = treasury' + secondaryPaid'
    BY DEF SlashConservation, Lost
<1>1. ASSUME NEW a \in Address, NEW s \in Stakes, RegisterKeeper(a, s)
      PROVE  LossesAccounted'
    <2>1. \A k \in DOMAIN keepers' : pledged'[k] \in Stakes
        <3>1. /\ DOMAIN keepers' = DOMAIN keepers \cup {a} /\ pledged'[a] = s
              /\ \A k \in DOMAIN keepers : pledged'[k] = pledged[k]
            BY <1>1, RegisterKeepers
        <3> QED
            BY <3>1 DEF LossesAccounted
    <2>2. treasury' = treasury /\ secondaryPaid' = secondaryPaid
        BY <1>1 DEF RegisterKeeper
    <2>3. SumFunction(Lost') = SumFunction(Lost)
        BY <1>1, RegisterLosses
    <2> QED
        BY <1>0, <2>1, <2>2, <2>3 DEF LossesAccounted
<1>2. ASSUME NEW id \in DOMAIN tasks, NEW c \in Address, ExecuteUnslashed(id, c)
      PROVE  LossesAccounted'
    <2>1. /\ DOMAIN keepers' = DOMAIN keepers /\ pledged' = pledged
          /\ \A k \in DOMAIN keepers : keepers'[k].stake_amount = keepers[k].stake_amount
        BY <1>2, UnslashedKeepers
    <2>2. treasury' = treasury /\ secondaryPaid' = secondaryPaid
        BY <1>2 DEF ExecuteUnslashed
    <2>3. Lost' = Lost
        BY <2>1 DEF Lost
    <2> QED
        BY <1>0, <2>1, <2>2, <2>3 DEF LossesAccounted
<1>3. ASSUME NEW id \in DOMAIN tasks, NEW c \in Address, ExecuteSecondary(id, c)
      PROVE  LossesAccounted'
    BY <1>3, SecondaryLosses
<1>4. ASSUME keepers' = keepers, pledged' = pledged, treasury' = treasury,
             secondaryPaid' = secondaryPaid
      PROVE  LossesAccounted'
    BY <1>4 DEF LossesAccounted, SlashConservation
<1>5. CASE UNCHANGED vars \/ RejectedCall \/ CloseLedger
    BY <1>4, <1>5 DEF RejectedCall, CloseLedger, vars, storage, history
<1>6. ASSUME NEW a \in Address, NEW m \in MinStakes, Initialize(a, m)
      PROVE  LossesAccounted'
    BY <1>4, <1>6 DEF Initialize, history
<1>7. ASSUME NEW amount \in Deposits, Fund(amount)
      PROVE  LossesAccounted'
    BY <1>4, <1>7 DEF Fund, storage
<1>8. ASSUME NEW a \in Address, NEW d \in Address, NEW i \in Intervals, NEW r \in Rewards,
             ProvisionTask(a, i, r, d)
      PROVE  LossesAccounted'
    BY <1>4, <1>8 DEF ProvisionTask
<1> QED
    BY <1>1, <1>2, <1>3, <1>5, <1>6, <1>7, <1>8 DEF Next

\* The losses are accounted for in every reachable state.
LEMMA LossesInvariant ==
    ASSUME SoundStakes, TotalStakeFits
    PROVE  Spec => []LossesAccounted
<1>1. Init => LossesAccounted
    <2> SUFFICES ASSUME Init PROVE LossesAccounted
        OBVIOUS
    <2>1. DOMAIN Lost = {}
        BY DEF Init, Lost
    <2>2. SumFunction(Lost) = 0
        BY <2>1, TotalEmpty
    <2> QED
        BY <2>2 DEF LossesAccounted, SlashConservation, Lost, Init
<1>2. AnchorInv /\ AnchorInv' /\ FiniteStorage /\ FiniteStorage' /\ StakesBounded
        /\ StakesBounded' /\ LossesAccounted /\ [Next]_vars => LossesAccounted'
    BY LossesAccountedStep
<1> QED
    BY <1>1, <1>2, AnchorInvariant, FiniteStorageInvariant, StakesBoundedInvariant,
       PTL DEF Spec

\* Every stroop that slashing takes from keepers is in the treasury's account or
\* was paid to a secondary keeper, whenever no stake is negative and all stakes
\* together fit an i128.
THEOREM SlashesConserved ==
    ASSUME SoundStakes, TotalStakeFits
    PROVE  Spec => []SlashConservation
<1>1. LossesAccounted => SlashConservation
    BY DEF LossesAccounted
<1> QED
    BY <1>1, LossesInvariant, PTL
=============================================================================
