------------------------------- MODULE Anchor -------------------------------
(***************************************************************************)
(* The Anchor: the Soroban contract of the-anchor/src.  It keeps a         *)
(* registry of staked keepers and a table of recurring tasks, arbitrates   *)
(* who may run a due task (designated window, grace period, open), pays    *)
(* the executor and slashes the designated keeper that missed its window.  *)
(*                                                                         *)
(* A contract call is one atomic step: the host runs calls one at a time,  *)
(* forbids re-entrance, and undoes every write, transfer and event of a    *)
(* call that returns Err or panics.  Each call is therefore a successful   *)
(* step whose guard is "the call returns Ok", and the *Result operators    *)
(* give the value the call returns, in the order of the code's checks.     *)
(***************************************************************************)
EXTENDS Integers, FiniteSets, Functions

CONSTANTS
    Address,        \* accounts that may call the contract
    None,           \* an instance-storage key that has not been written
    GRACE_LEDGERS,  \* length of the grace period: the literal 50 in the code
    U32,            \* 2^32, the modulus of u32 arithmetic
    I128,           \* 2^127, i128 values are -I128 .. I128 - 1
    Stakes,         \* stake_amount arguments of register_keeper
    MinStakes,      \* min_keeper_stake arguments of initialize
    Intervals,      \* execution_interval_ledgers arguments of provision_task
    Rewards,        \* micro_reward_per_run arguments of provision_task
    Deposits,       \* amounts of native token sent to the contract
    DeployLedger,   \* ledger at which the contract is deployed
    MaxLedger,      \* bound: last ledger of a behaviour
    MaxTasks,       \* bound: provision_task calls that succeed
    MaxFunding      \* bound: native token ever sent to the contract

ASSUME AnchorConstants ==
    /\ None \notin Address
    /\ GRACE_LEDGERS \in Nat \ {0}
    /\ U32 \in Nat \ {0}
    /\ I128 \in Nat \ {0}
    /\ Stakes \subseteq (-I128) .. (I128 - 1)
    /\ MinStakes \subseteq (-I128) .. (I128 - 1)
    /\ Intervals \subseteq 0 .. (U32 - 1)
    /\ Rewards \subseteq (-I128) .. (I128 - 1)
    /\ Deposits \subseteq Nat
    /\ DeployLedger \in Nat \ {0}
    /\ MaxLedger \in Nat /\ DeployLedger <= MaxLedger /\ MaxLedger < U32
    /\ MaxTasks \in Nat /\ MaxTasks < U32
    /\ MaxFunding \in Nat

VARIABLES
    ledger,         \* env.ledger().sequence()
    admin,          \* DataKey::Admin (DataKey::NativeToken is written with it)
    minKeeperStake, \* DataKey::MinKeeperStake
    keepers,        \* DataKey::Keeper(a), a function on the registered addresses
    tasks,          \* DataKey::Task(id), a function on the issued ids
    taskCounter,    \* DataKey::TaskCounter
    treasury,       \* DataKey::TreasuryBalance
    balance,        \* native token held by the contract, kept by the token contract
    \* History variables: what the properties talk about, read by no action.
    pledged,        \* stake_amount each keeper registered with
    runs,           \* successful executions of each task
    funded,         \* native token ever sent to the contract
    secondaryPaid   \* secondary rewards ever transferred

storage == <<admin, minKeeperStake, keepers, tasks, taskCounter, treasury>>
history == <<pledged, runs, funded, secondaryPaid>>
vars == <<ledger, storage, balance, history>>

-----------------------------------------------------------------------------
(* Integers and storage. *)

MIN_KEEPER_STAKE == 10000000

\* u32 addition: the contract is built with --release and no overflow-checks.
AddU32(a, b) == (a + b) % U32

\* The i128 value a sum or product wraps to in the same build.
WrapI128(x) == ((x + I128) % (2 * I128)) - I128

\* Division of i128 truncates toward zero.
TruncDiv(a, b) == IF a >= 0 THEN a \div b ELSE -((-a) \div b)

\* storage().set: overwrite the entry of a key or add it.
Put(f, key, value) ==
    [x \in DOMAIN f \cup {key} |-> IF x = key THEN value ELSE f[x]]

Keeper == [stake_amount : Int, last_execution_ledger : Nat,
           total_executions : Nat, ineligible : BOOLEAN]

ExecutionTask == [execution_interval_ledgers : Nat, next_allowed_execution : Nat,
                  micro_reward_per_run : Int, designated_keeper : Address]

\* sha256 of counter and ledger: an injective function of the pair it hashes.
TaskId == Nat \X Nat

-----------------------------------------------------------------------------
(* lib.rs: initialize. *)

InitializeResult ==
    IF admin # None THEN "AlreadyInitialized" ELSE "Ok"

Initialize(a, min_keeper_stake) ==
    /\ InitializeResult = "Ok"
    /\ admin' = a
    /\ minKeeperStake' = min_keeper_stake
    /\ UNCHANGED <<ledger, keepers, tasks, taskCounter, treasury, balance, history>>

-----------------------------------------------------------------------------
(* registry.rs *)

is_registered(a) == a \in DOMAIN keepers

is_eligible(a) == is_registered(a) /\ ~keepers[a].ineligible

EffectiveMinStake ==
    IF minKeeperStake = None THEN MIN_KEEPER_STAKE ELSE minKeeperStake

RegisterKeeperResult(a, stake_amount) ==
    IF stake_amount < EffectiveMinStake THEN "StakeBelowMinimum"
    ELSE IF is_registered(a) THEN "KeeperAlreadyRegistered"
    ELSE "Ok"

\* No token moves: the stake is a number in the keeper's record.
RegisterKeeper(a, stake_amount) ==
    /\ RegisterKeeperResult(a, stake_amount) = "Ok"
    /\ keepers' = Put(keepers, a,
                      [stake_amount |-> stake_amount, last_execution_ledger |-> 0,
                       total_executions |-> 0, ineligible |-> FALSE])
    /\ pledged' = Put(pledged, a, stake_amount)
    /\ UNCHANGED <<ledger, admin, minKeeperStake, tasks, taskCounter, treasury,
                   balance, runs, funded, secondaryPaid>>

-----------------------------------------------------------------------------
(* tasks.rs *)

\* Mutant: the keeper checks of steps 4 and 5 are missing.
ProvisionTaskUncheckedKeeper(signer, interval, reward, designated) ==
    IF admin = None THEN "UnauthorizedCaller"
    ELSE IF signer # admin THEN "AuthFailed"
    ELSE IF interval = 0 THEN "InvalidInterval"
    ELSE IF reward <= 0 THEN "InvalidReward"
    ELSE "Ok"

ProvisionTaskResult(signer, interval, reward, designated) ==
    IF admin = None THEN "UnauthorizedCaller"
    ELSE IF signer # admin THEN "AuthFailed"
    ELSE IF interval = 0 THEN "InvalidInterval"
    ELSE IF reward <= 0 THEN "InvalidReward"
    ELSE IF ~is_registered(designated) THEN "KeeperNotFound"
    ELSE IF ~is_eligible(designated) THEN "IneligibleKeeper"
    ELSE "Ok"

\* Mutant: the seed holds the ledger alone.
TaskIdFromLedger == <<0, ledger>>

NewTaskId == <<taskCounter, ledger>>

ProvisionTask(signer, interval, reward, designated) ==
    /\ taskCounter < MaxTasks
    /\ ProvisionTaskResult(signer, interval, reward, designated) = "Ok"
    /\ taskCounter' = AddU32(taskCounter, 1)
    /\ tasks' = Put(tasks, NewTaskId,
                    [execution_interval_ledgers |-> interval,
                     next_allowed_execution |-> AddU32(ledger, interval),
                     micro_reward_per_run |-> reward,
                     designated_keeper |-> designated])
    /\ runs' = Put(runs, NewTaskId, 0)
    /\ UNCHANGED <<ledger, admin, minKeeperStake, keepers, treasury, balance,
                   pledged, funded, secondaryPaid>>

-----------------------------------------------------------------------------
(* slashing.rs: the amounts and the records apply_slash writes. *)

\* Mutant: a slash is rounded up.
SlashAmountRoundedUp(stake_amount) == TruncDiv(WrapI128(stake_amount * 5) + 99, 100)

SlashAmount(stake_amount) == TruncDiv(WrapI128(stake_amount * 5), 100)

SecondaryReward(stake_amount) == TruncDiv(SlashAmount(stake_amount), 2)

\* Mutant: both halves are rounded down.
TreasuryPortionRounded(stake_amount) == TruncDiv(SlashAmount(stake_amount), 2)

TreasuryPortion(stake_amount) ==
    SlashAmount(stake_amount) - SecondaryReward(stake_amount)

\* Mutant: the threshold is compared with the stake before the slash.
SlashedKeeperStaleStake(k) ==
    [k EXCEPT !.stake_amount = @ - SlashAmount(@),
              !.ineligible = @ \/ k.stake_amount < MIN_KEEPER_STAKE]

SlashedKeeper(k) ==
    LET new_stake == WrapI128(k.stake_amount - SlashAmount(k.stake_amount))
    IN  [k EXCEPT !.stake_amount = new_stake,
                  !.ineligible = @ \/ new_stake < MIN_KEEPER_STAKE]

\* Mutant: a keeper that is already ineligible is not slashed again.
ApplySlashOnceResult(designated) ==
    IF ~is_registered(designated) THEN "KeeperNotFound"
    ELSE IF keepers[designated].ineligible THEN "SlashOnZeroStake"
    ELSE "Ok"

ApplySlashResult(designated) ==
    IF ~is_registered(designated) THEN "KeeperNotFound"
    ELSE IF keepers[designated].stake_amount = 0 THEN "SlashOnZeroStake"
    ELSE "Ok"

-----------------------------------------------------------------------------
(* execution.rs *)

\* Where the current ledger stands relative to the task's window.
Region(task) ==
    LET next == task.next_allowed_execution IN
    IF ledger < next THEN "pre_window"
    ELSE IF ledger = next THEN "designated"
    ELSE IF ledger - next <= GRACE_LEDGERS THEN "grace"
    ELSE "post_grace"

\* drip_ok: the cross-contract call to the task's Drip List returns.
DistributionResult(task, caller, drip_ok) ==
    IF ~drip_ok THEN "DripListPanic"
    ELSE IF admin = None THEN "NativeTokenPanic"
    ELSE IF balance < task.micro_reward_per_run THEN "InsufficientRewardBalance"
    ELSE IF ~is_registered(caller) THEN "KeeperNotFound"
    ELSE "Ok"

\* Mutant: the second transfer is made without looking at the balance.
SecondaryTransferUnchecked(task) == "Ok"

\* The secondary reward is transferred after the run's own reward.
SecondaryTransferResult(task) ==
    IF balance - task.micro_reward_per_run
         < SecondaryReward(keepers[task.designated_keeper].stake_amount)
    THEN "InsufficientRewardBalance"
    ELSE "Ok"

\* Mutant: the designated keeper may run its own task late.
GraceAdmitsDesignated(task, caller, drip_ok) ==
    IF ~is_registered(caller) THEN "CallerNotSecondaryEligible"
    ELSE IF ApplySlashResult(task.designated_keeper) # "Ok"
         THEN ApplySlashResult(task.designated_keeper)
    ELSE IF DistributionResult(task, caller, drip_ok) # "Ok"
         THEN DistributionResult(task, caller, drip_ok)
    ELSE SecondaryTransferResult(task)

GraceResult(task, caller, drip_ok) ==
    IF caller = task.designated_keeper THEN "GracePeriodActive"
    ELSE IF ~is_registered(caller) THEN "CallerNotSecondaryEligible"
    ELSE IF ApplySlashResult(task.designated_keeper) # "Ok"
         THEN ApplySlashResult(task.designated_keeper)
    ELSE IF DistributionResult(task, caller, drip_ok) # "Ok"
         THEN DistributionResult(task, caller, drip_ok)
    ELSE SecondaryTransferResult(task)

DesignatedResult(task, caller, drip_ok) ==
    IF caller # task.designated_keeper THEN "UnauthorizedExecutor"
    ELSE DistributionResult(task, caller, drip_ok)

PostGraceResult(task, caller, drip_ok) ==
    IF ~is_registered(caller) THEN "UnauthorizedExecutor"
    ELSE DistributionResult(task, caller, drip_ok)

ExecuteResult(id, caller, drip_ok) ==
    IF id \notin DOMAIN tasks THEN "TaskNotFound"
    ELSE IF Region(tasks[id]) = "pre_window" THEN "TooEarlyToExecute"
    ELSE IF Region(tasks[id]) = "designated" THEN DesignatedResult(tasks[id], caller, drip_ok)
    ELSE IF Region(tasks[id]) = "grace" THEN GraceResult(tasks[id], caller, drip_ok)
    ELSE PostGraceResult(tasks[id], caller, drip_ok)

\* Mutants: the task is not rescheduled; its window opens a ledger early; the
\* count is set, not incremented.
NotRescheduled(task) == task

RescheduledEarly(task) ==
    [task EXCEPT !.next_allowed_execution =
                     AddU32(ledger, task.execution_interval_ledgers - 1)]

CreditedOnce(k) == [k EXCEPT !.total_executions = 1,
                             !.last_execution_ledger = ledger]

\* Steps 3 and 4 of execute_distribution.
Rescheduled(task) ==
    [task EXCEPT !.next_allowed_execution =
                     AddU32(ledger, task.execution_interval_ledgers)]

CreditedKeeper(k) == [k EXCEPT !.total_executions = @ + 1,
                               !.last_execution_ledger = ledger]

\* Mutant: the secondary reward is accounted for and not transferred.
ExecuteDistributionNoBonus(id, caller, ks, bonus) ==
    /\ tasks' = [tasks EXCEPT ![id] = Rescheduled(@)]
    /\ keepers' = [ks EXCEPT ![caller] = CreditedKeeper(@)]
    /\ balance' = balance - tasks[id].micro_reward_per_run
    /\ runs' = [runs EXCEPT ![id] = @ + 1]
    /\ UNCHANGED <<ledger, admin, minKeeperStake, taskCounter, pledged, funded>>

ExecuteDistribution(id, caller, ks, bonus) ==
    /\ tasks' = [tasks EXCEPT ![id] = Rescheduled(@)]
    /\ keepers' = [ks EXCEPT ![caller] = CreditedKeeper(@)]
    /\ balance' = balance - tasks[id].micro_reward_per_run - bonus
    /\ runs' = [runs EXCEPT ![id] = @ + 1]
    /\ UNCHANGED <<ledger, admin, minKeeperStake, taskCounter, pledged, funded>>

\* The designated keeper in its window, or any registered keeper after the
\* grace period: no slash.
ExecuteUnslashed(id, caller) ==
    /\ ExecuteResult(id, caller, TRUE) = "Ok"
    /\ Region(tasks[id]) \in {"designated", "post_grace"}
    /\ ExecuteDistribution(id, caller, keepers, 0)
    /\ UNCHANGED <<treasury, secondaryPaid>>

\* A registered keeper other than the designated one within the grace period.
ExecuteSecondary(id, caller) ==
    /\ ExecuteResult(id, caller, TRUE) = "Ok"
    /\ Region(tasks[id]) = "grace"
    /\ LET missed == tasks[id].designated_keeper
           stake  == keepers[missed].stake_amount
           bonus  == IF SecondaryReward(stake) > 0 THEN SecondaryReward(stake) ELSE 0
       IN  /\ treasury' = WrapI128(treasury + TreasuryPortion(stake))
           /\ secondaryPaid' = secondaryPaid + bonus
           /\ ExecuteDistribution(id, caller,
                  [keepers EXCEPT ![missed] = SlashedKeeper(@)], bonus)

-----------------------------------------------------------------------------
(* The host: ledgers close, accounts send tokens to the contract. *)

CloseLedger ==
    /\ ledger < MaxLedger
    /\ ledger' = ledger + 1
    /\ UNCHANGED <<storage, balance, history>>

Fund(amount) ==
    /\ funded + amount <= MaxFunding
    /\ funded' = funded + amount
    /\ balance' = balance + amount
    /\ UNCHANGED <<ledger, storage, pledged, runs, secondaryPaid>>

-----------------------------------------------------------------------------

Init ==
    /\ ledger = DeployLedger
    /\ admin = None /\ minKeeperStake = None
    /\ keepers = [a \in {} |-> None] /\ tasks = [id \in {} |-> None]
    /\ taskCounter = 0 /\ treasury = 0 /\ balance = 0
    /\ pledged = [a \in {} |-> None] /\ runs = [id \in {} |-> None]
    /\ funded = 0 /\ secondaryPaid = 0

\* A call that does not return Ok: the host undoes all it did, so the step
\* changes nothing.  The id that the next provision_task would issue stands for
\* the ids of no task.
RejectedCall ==
    /\ ~ /\ InitializeResult = "Ok"
         /\ \A a \in Address, s \in Stakes : RegisterKeeperResult(a, s) = "Ok"
         /\ \A a, d \in Address, i \in Intervals, r \in Rewards :
               ProvisionTaskResult(a, i, r, d) = "Ok"
         /\ \A id \in DOMAIN tasks \cup {NewTaskId}, c \in Address, drip_ok \in BOOLEAN :
               ExecuteResult(id, c, drip_ok) = "Ok"
    /\ UNCHANGED vars

Next ==
    \/ \E a \in Address, m \in MinStakes : Initialize(a, m)
    \/ \E a \in Address, s \in Stakes : RegisterKeeper(a, s)
    \/ \E a, d \in Address, i \in Intervals, r \in Rewards : ProvisionTask(a, i, r, d)
    \/ \E id \in DOMAIN tasks, c \in Address : ExecuteUnslashed(id, c)
    \/ \E id \in DOMAIN tasks, c \in Address : ExecuteSecondary(id, c)
    \/ RejectedCall
    \/ CloseLedger
    \/ \E amount \in Deposits : Fund(amount)

Spec == Init /\ [][Next]_vars

-----------------------------------------------------------------------------
(* Properties *)

\* Every entry of contract storage and every counter has its type.
TypeOK ==
    /\ ledger \in Nat /\ ledger <= MaxLedger
    /\ admin \in Address \cup {None}
    /\ minKeeperStake \in Int \cup {None}
    /\ keepers \in [DOMAIN keepers -> Keeper] /\ DOMAIN keepers \subseteq Address
    /\ tasks \in [DOMAIN tasks -> ExecutionTask] /\ DOMAIN tasks \subseteq TaskId
    /\ taskCounter \in 0 .. MaxTasks
    /\ treasury \in Int /\ balance \in Nat
    /\ pledged \in [DOMAIN keepers -> Int] /\ runs \in [DOMAIN tasks -> Nat]
    /\ funded \in Nat /\ secondaryPaid \in Nat

\* No stored task can make execute_drip_split fail on a record or a setting
\* that ought to exist: the designated keeper it slashes and the caller it
\* credits are in the registry, and the native token is configured.
NoInternalError ==
    \A id \in DOMAIN tasks, c \in Address :
        ExecuteResult(id, c, TRUE) \notin {"KeeperNotFound", "NativeTokenPanic"}

\* A task is paid for at most once per interval since it was provisioned,
\* whoever calls execute_drip_split, how often and in which window.
RunBudget ==
    \A id \in DOMAIN tasks :
        runs[id] * tasks[id].execution_interval_ledgers <= ledger - id[2]

\* Whenever a task is due, the contract holds the rewards and a second keeper
\* is registered, some account can run it: no window, and no boundary between
\* two windows, leaves a due task without an executor.
DueTaskExecutable ==
    \A id \in DOMAIN tasks :
        LET task == tasks[id]
            designated == task.designated_keeper
        IN  (/\ Region(task) # "pre_window"
             /\ DOMAIN keepers \ {designated} # {}
             /\ balance >= task.micro_reward_per_run
                             + SecondaryReward(keepers[designated].stake_amount))
            => \E c \in Address : ExecuteResult(id, c, TRUE) = "Ok"

\* The ineligible flag that apply_slash raises is exact: a flagged keeper has
\* less than the minimum stake, and a keeper slashed below it is flagged.
IneligibleExact ==
    \A k \in DOMAIN keepers :
        LET stake == keepers[k].stake_amount IN
        /\ keepers[k].ineligible => stake < MIN_KEEPER_STAKE
        /\ stake < pledged[k] /\ stake < MIN_KEEPER_STAKE => keepers[k].ineligible

\* What keepers lost to slashing is what the treasury counts plus what
\* secondary keepers were paid, to the last stroop of every odd split.
SlashConservation ==
    SumFunction([k \in DOMAIN keepers |-> pledged[k] - keepers[k].stake_amount])
        = treasury + secondaryPaid

\* The contract's tokens are what it was sent less one reward per run and the
\* secondary rewards: a call that fails half way pays nothing.
TokenConservation ==
    balance = funded - secondaryPaid
                - SumFunction([id \in DOMAIN tasks |->
                                  runs[id] * tasks[id].micro_reward_per_run])

\* Every run of a task is credited to exactly one keeper, in all three windows.
RunsCredited ==
    SumFunction([k \in DOMAIN keepers |-> keepers[k].total_executions])
        = SumFunction(runs)

\* A keeper's stake changes only when another registered keeper runs, within
\* the grace period, a task the keeper was designated for and did not run.  The
\* other keeper may have registered within that grace period.
SlashOnlyForMissedWindow ==
    [][\A k \in DOMAIN keepers :
          keepers'[k].stake_amount # keepers[k].stake_amount =>
            \E id \in DOMAIN tasks :
               /\ tasks[id].designated_keeper = k
               /\ Region(tasks[id]) = "grace"
               /\ runs'[id] = runs[id] + 1
               /\ \E c \in DOMAIN keepers \ {k} :
                     keepers'[c].total_executions = keepers[c].total_executions + 1]_vars

\* A provisioned task is never lost or overwritten, by a run or by another
\* provision_task, and a run only moves its next execution forward
\* (execution.rs:242: new_next > old_next always holds).
ScheduleAdvances ==
    [][\A id \in DOMAIN tasks :
          /\ id \in DOMAIN tasks'
          /\ tasks'[id].designated_keeper = tasks[id].designated_keeper
          /\ tasks'[id].execution_interval_ledgers = tasks[id].execution_interval_ledgers
          /\ tasks'[id].micro_reward_per_run = tasks[id].micro_reward_per_run
          /\ runs'[id] # runs[id] =>
               tasks'[id].next_allowed_execution > tasks[id].next_allowed_execution
          /\ runs'[id] = runs[id] =>
               tasks'[id].next_allowed_execution = tasks[id].next_allowed_execution]_vars

\* The contract implements DripSchedule: under any sequence of calls, whatever
\* stakes, slashes and balances do, a task runs only when it is due, by its
\* designated keeper at its ledger, by another registered keeper in the grace
\* period and by any registered keeper later (execution.rs:11-15), and each run
\* moves its own task alone by one interval and one keeper's count by one.  That
\* a secondary keeper registered before the grace period, as requirements.md 4.1
\* asks, is no part of it and not what the code does (AnchorTenure).
Schedule == INSTANCE DripSchedule WITH
    now <- ledger,
    plan <- [id \in DOMAIN tasks |->
                [every |-> tasks[id].execution_interval_ledgers,
                 due |-> tasks[id].next_allowed_execution,
                 owner |-> tasks[id].designated_keeper, runs |-> runs[id]]],
    credits <- [k \in DOMAIN keepers |-> keepers[k].total_executions]

ScheduleImplemented == Schedule!ScheduleSpec

\* A keeper that registered with a positive stake keeps one: slashing, however
\* often and whatever the rounding, never takes the last stroop nor adds one.
StakeSurvivesSlashing ==
    \A k \in DOMAIN keepers :
        pledged[k] > 0 => /\ 0 < keepers[k].stake_amount
                          /\ keepers[k].stake_amount <= pledged[k]

-----------------------------------------------------------------------------
(* Inductive invariants, and what they need of the constants. *)

DesignatedRegistered ==
    \A id \in DOMAIN tasks : tasks[id].designated_keeper \in DOMAIN keepers

TasksAfterInitialize == DOMAIN tasks # {} => admin # None

IdsIssued == \A id \in DOMAIN tasks : id[1] < taskCounter /\ id[2] <= ledger

\* The records that execute_drip_split reads exist, and the id of the next
\* task is new: what every call of the contract preserves.
AnchorInv ==
    TypeOK /\ DesignatedRegistered /\ TasksAfterInitialize /\ IdsIssued

\* No u32 addition of a ledger and an interval wraps.
NoLedgerWrap == \A i \in Intervals : MaxLedger + i < U32

\* The last run (or the provisioning) of a task is one interval before its next
\* execution, is past, and leaves an interval to each run before it.
RunsSpaced ==
    \A id \in DOMAIN tasks :
        LET i == tasks[id].execution_interval_ledgers
            last == tasks[id].next_allowed_execution - i
        IN  /\ i \in Intervals /\ i > 0
            /\ id[2] + runs[id] * i <= last
            /\ last <= ledger

\* No stake is negative, and none is large enough for stake * 5 to wrap.
SoundStakes ==
    /\ \A s \in Stakes : s * 5 < I128
    /\ \A m \in MinStakes : m >= 0

\* initialize configures no minimum that lets a keeper register without stake.
PositiveMinimum == \A m \in MinStakes : m > 0

\* Stakes stay within what was pledged, and the flag follows the stake.
StakesBounded ==
    \A k \in DOMAIN keepers :
        LET stake == keepers[k].stake_amount IN
        /\ 0 <= stake /\ stake <= pledged[k] /\ pledged[k] * 5 < I128
        /\ pledged[k] > 0 => stake > 0
        /\ keepers[k].ineligible => stake < MIN_KEEPER_STAKE
        /\ stake < pledged[k] /\ stake < MIN_KEEPER_STAKE => keepers[k].ineligible

\* A contract has finitely many records, each written by a call.
FiniteStorage == IsFiniteSet(DOMAIN keepers) /\ IsFiniteSet(DOMAIN tasks)

\* No set of keepers pledges as much as an i128 holds: the treasury, which gets
\* a part of what they lose, does not wrap.
TotalStakeFits ==
    \A S \in SUBSET Address : IsFiniteSet(S) =>
        \A p \in [S -> {s \in Stakes : s >= 0}] : SumFunction(p) < I128

\* Every keeper pledged an argument of register_keeper, the treasury is not
\* negative, and it accounts for the slashes with the secondary rewards.
LossesAccounted ==
    /\ \A k \in DOMAIN keepers : pledged[k] \in Stakes
    /\ treasury >= 0
    /\ SlashConservation

-----------------------------------------------------------------------------
(* What comments of the code say and the code does not do. *)

\* slashing.rs:107 and registry.rs:20: the stake threshold that initialize
\* configures takes precedence, so a keeper slashed below it is not eligible.
EligibleMeetsConfiguredMinimum ==
    \A k \in DOMAIN keepers :
        keepers[k].stake_amount < pledged[k] /\ ~keepers[k].ineligible
            => keepers[k].stake_amount >= EffectiveMinStake
===========================================================================
