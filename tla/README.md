# Chronos Keeper Network: TLA+ models and proofs

The repository holds a Soroban contract, the **Anchor** (`the-anchor/src`), and an
off-chain node, the **Engine** (`the-engine/src`). The Anchor keeps staked keepers
and recurring tasks, decides who may run a due task, pays the executor and slashes a
designated keeper that missed its ledger. The Engine polls ledgers, finds due tasks and
sends `execute_drip_split` transactions. This directory models both, checks them with
TLC and proves with TLAPS, for instances of any size, what the contract, its events, the
node's tasks, its process and nodes and contract together promise, and that contract and
node implement their abstract specifications.

## Inventory

| Component | State | Operations | Interacts through | What makes it correct |
|---|---|---|---|---|
| Entry points, `lib.rs`, `storage_keys.rs` | admin, native token, minimum stake | `initialize` | every other call reads them | calls in any order never meet a missing setting |
| Registry, `registry.rs` | one `Keeper` record per address | `register_keeper` | read by tasks, execution, slashing | records are never lost; the stake is what was pledged less slashes |
| Tasks, `tasks.rs` | `ExecutionTask` per id, counter | `provision_task` | read and rescheduled by execution | fresh ids; the schedule only moves forward |
| Execution, `execution.rs` | (task, keeper, token balance) | `execute_drip_split` | Drip List and token contracts | one paid run per interval; a due task has an executor; all or nothing |
| Slashing, `slashing.rs` | treasury, stake, ineligible flag | `apply_slash` | called by execution in the grace period | only for a missed window; amounts add up; flag exact |
| Events, `events.rs` | none | seven `emit_*` functions | off-chain indexers | events alone tell what storage holds |
| Ledger poller, `ledger_poller.rs` | last known ledger, back-off | `run` | broadcast channel to discovery | events in order, bounded back-off |
| Task discovery, `task_discovery.rs` | cycle in progress, task cache | `run`, `on_ledger_advance`, `classify_and_dispatch` | queries RPC, awaits the pipeline | every cycle ends; the role chosen is one the contract grants |
| Grace monitor, `grace_monitor.rs` | none | `evaluate`, `log_missed` | pipeline | never sends for its own task |
| Pipeline, `execution_pipeline.rs` | attempt, back-off, hash, last confirmation | `dispatch`, retry loop, confirmation | RPC, in-flight set | in-flight set exact; reports true |
| RPC client, `rpc_client.rs`, `errors.rs` | none | four JSON-RPC calls | the chain | each kind of answer ends in the right error class |
| In-flight set, `in_flight.rs` | ids under a mutex | `insert`, `remove`, `contains`, `len` | discovery, pipeline, health server | holds a task exactly while the pipeline works on it |
| Health server, `health_server.rs` | reads three shared values | `GET /health` | poller, pipeline | what it reports happened |
| Configuration, `config.rs` | settings, read once | `from_env` | variables, TOML file | variables win over the file; a running process is within the bounds the code enforces; an error names a cure |
| Process, `main.rs` | none persisted | start, exit, abort on ctrl-c | spawns the tasks | a restart is harmless |

What is hard: keepers race for one run across the window boundaries; a node decides on
a ledger that has already closed; answers of `sendTransaction` get lost and are retried;
transactions linger after the node forgot them; the process may stop at any await; the
channel drops events; u32 and i128 arithmetic is unchecked in the release build; and a
secondary run writes a slash before three external calls that may fail; a health request
reads three values that two other tasks change meanwhile. `PROJECT.json`
lists these hazards with their lines and the properties aimed at them.

## Modules

* **`Anchor`** is the contract. Storage keys are variables (`keepers`, `tasks`,
  `taskCounter`, `treasury`, `admin`, `minKeeperStake`); `balance` is the contract's
  balance in the token contract and `ledger` the ledger being built. The host runs calls
  one at a time and undoes all that a failed call did, so a call is one step. Each has a
  `...Result` operator, the error it returns in the order of the code's checks, and an
  action guarded by the result `"Ok"`. `RejectedCall` stands for the calls that fail.
  `drip_ok` says whether the Drip List call returns. u32 sums wrap modulo `U32`; i128
  products and sums wrap through `WrapI128`; division truncates. A task id is the pair
  (counter, ledger) that the code hashes; SHA-256 is taken to be injective.
  `pledged`, `runs`, `funded`, `secondaryPaid` are history variables that no guard reads.
* **`DripSchedule`** is the abstract specification of the contract: tasks that run when they
  are due, by a keeper their window admits, once per interval, each run credited to one
  keeper. A window admits whom the code admits: in the grace period that is every registered
  keeper but the designated one, whenever it registered. `Anchor` maps `tasks`, `runs` and `keepers` to it (`ScheduleImplemented`).
* **`AnchorTenure`** dates each registration, which the contract does not store, so that a
  property can compare it with the windows.
* **`AnchorEvents`** adds to each call the events it publishes, in their order and with their
  data (all but the Drip List address, which the whole model leaves out), and an `index` that
  an off-chain reader folds from them: stakes, execution counts, the terms of each task
  (interval, reward, designated keeper), its next execution and runs, treasury and payments.
  The `ineligible` flag and `last_execution_ledger` are not in it. A failed call publishes nothing: the host
  discards its events, so the zero-slash event, always followed by an error, is never seen
  (`protocol-spec.md:188` says it is emitted).
* **`RpcClient`** says what each call makes of each kind of answer (no connection, timeout,
  HTTP error, no JSON, JSON-RPC error, missing field, result) and whether the network may
  hold the transaction afterwards. The outcomes that `Engine` lets happen are computed from it.
* **`Engine`** is a node. Every value of `pc` is an await of the discovery task: waiting
  for an event, for the query, for `sendTransaction`, for the back-off, for the
  confirmation; `classify` is the loop over the tasks found, and `done` the moment between
  the store of the time stamp and the removal from the in-flight set. The poller is a task
  of its own. `closed`, `view`, `txs` are the chain as the RPC calls see it. An accepted
  transaction may be queued or lost (its status is not read), an error may hide a delivered
  transaction (`SendTransient`, `SendRejected`), and the network may recognise an envelope it
  has seen (`SendDuplicate`). `query_executable_tasks` is a stub that returns nothing; the
  model takes both that answer and the one the discovery loop is written for, so its safety
  properties hold of the code as it is and with the query in place. Liveness that rests on an
  answer does not: see `QueryWired` below. The ledger number of an answer is taken to fit the
  u32 it is cast to. The `contains` checks on
  the in-flight set are kept although the loop awaits each dispatch.
* **`EngineStatus`** is what the tasks of a node promise about the three values they share
  with the health server. `Engine` implements it (`StatusKept`), and `EngineProcess` uses it
  in the place of the two tasks.
* **`EngineConfig`** is `from_env`: variable, then file, then default; the checks in their
  order; the field named by the first that fails. A text is blank or not, a number in a
  variable may not parse (then it counts as absent), the file may be absent or unreadable.
* **`EngineProcess`** is `main` and the health server: an operator edits variables and file
  while the process is down, a launch exits with an error or starts the tasks, the port is
  bound or the server's task panics alone, a request reads ledger, time stamp and in-flight
  count in three steps, ctrl-c drops everything. The atomics' relaxed loads are taken to be
  coherent: a later request does not see an older value.
* **`KeeperNetwork`** extends `Anchor` and instantiates `Engine` with the latest closed
  ledger `ledger - 1`. `view` is a copy of `tasks` taken when a ledger closes; a pending
  transaction runs `execute_drip_split` in the open ledger (`ApplyTx`) and its result
  shows when the ledger closes. Addresses outside `Node` call the contract when they like.
  `NetworkInit` is the state after the operator's setup calls, whose checks it satisfies: the
  common stake is at least the minimum, interval and reward are positive. `LiveSpec` is the
  same network with faults that stop at some point; its constant `QueryWired` says whether
  the query is in place or is the code's stub.
* **`AnchorProofs`**, **`ScheduleProofs`**, **`ConservationProofs`** and **`EventsProofs`**
  prove about `Anchor`, its refinement of `DripSchedule`, its sums and `AnchorEvents`;
  **`EngineProofs`** and **`EngineProcessProofs`** about the modules they are named after;
  **`NetworkProofs`** about `KeeperNetwork`;
  **`SumProofs`** is the arithmetic of sums over finite sets that they share. The inductive
  invariants stand at the end of the module they are about.
* **`MCAnchor`**, **`MCAnchorEvents`**, **`MCEngine`**, **`MCEngineProcess`**,
  **`MCKeeperNetwork`** are the modules TLC runs.

Operators whose comment starts with "Mutant" are wrong variants of the definition after
them. They are used by no specification; each shows that some property notices the bug.

## Runs

| Run | Configuration | Shows |
|---|---|---|
| `anchor` | 3 accounts, 2 tasks, grace period 2, 6 ledgers, symmetric addresses | storage invariants, run budget, executability, exact flags, conservation of slashes and tokens, only earned slashes, forward schedule |
| `anchor_events` | 2 accounts, 2 tasks, stakes 1, 19, 20, 59 stroops, 6 ledgers | the same sums and executability where slashes round to zero and halves are odd; no stake is exhausted; the indexer agrees with storage |
| `engine` | 1 node, 2 tasks run repeatedly, 2 retries, channel of 1, 3 ledgers, 1 transaction, fairness | event order, back-off, truthful reports, in-flight set exact, `EngineStatus` implemented, every cycle ends |
| `network` | 1 node, 1 other keeper, 1 task, grace period 2, 6 ledgers, no retry, 2 transactions | engine and contract divide the ledgers alike, stale roles stay admissible, no run is paid twice, reports match credits |
| `network_live` | the same with a grace period of 1, faults up to ledger 4 or two transactions, 7 transactions in all, fairness | with the query in place (`QueryWired`): every due task is run, the node's own missed ones too |
| `process` | 2 changes to a working configuration, boundary values of each setting, 2 ledgers, 1 task | variables win over the file, settings within the enforced bounds, errors that name a cure, true and monotone reports |

`anchor` also checks that the contract implements `DripSchedule`.

**Bounds.** The code's 50 grace ledgers become 2: with 2 there is a first, an inner and a
last grace ledger, and a secondary transaction sent one ledger late still lands in the grace
period (with 1 it never does; `network_live`, which needs one more ledger after the grace
period, takes 1). The number of ledgers lets a task be due, pass its
grace period and be run again. Stakes of 10 600 000 stay above the minimum after one slash
and fall below it after two; 10 000 020 falls below it at once, with an odd slash.
`MaxFunding` covers two secondary runs and not three, so transfers fail midway. Two
transactions are what a duplicate needs, and in `network` they come from a lost answer, a
forgotten transaction or a restart followed by another dispatch, so retries within a
dispatch are left to the run `engine`; a channel of one overflows at once. `U32` and
`I128` are small moduli that no value of a passing run reaches; `anchor_ledger_wrap` takes
a modulus that one does. In `process` two changes are what a conflict between variable and
file, or between the two back-offs, needs; each setting takes the values on both sides of
each of its bounds. In `network_live`, `MaxTxs` leaves a transaction for each ledger event
after the faults, and `TaskKeepsRunning` speaks of runs due early enough for the instance's
last ledger to lie beyond their grace period.

**Fairness.** `CycleTerminates` assumes weak fairness of the discovery task of each node
(`FairSpec`). Its awaits end: HTTP requests and queries have timeouts, confirmations have
`confirmation_timeout`, sleeps elapse. Nothing is assumed of the answers, of the poller or
of the chain. `TaskKeepsRunning` (`LiveSpec`) needs more, and says what: from some point on
the RPC server answers the poller with the latest ledger, the query with the tasks due
(`QueryWired`, which the code's stub does not: with `QueryWired = FALSE` in the same
configuration TLC finds the property violated, since no node ever sends a transaction) and a
transaction with a hash; ledgers keep closing and include what is pending; the Drip List
returns; the contract is funded; the network takes each signed envelope for a new
transaction. Still unconstrained are the speed of everyone, other keepers, and answers to
`getTransaction` before inclusion, which the engine takes for failures. A node's own missed
task is run because the engine also dispatches after the grace period
(`task_discovery.rs:155`, as `node-operator-guide.md:226` says); `requirements.md` 8.5,
`design.md:73` and the comment at `grace_monitor.rs:12` want it only logged, and an engine
that did so would leave such tasks to others and `TaskKeepsRunning` false.

### Where code and documentation disagree

Six runs check what a comment or document says and are expected to fail:

* `anchor_configured_minimum`: slashing compares with the constant minimum, not with the
  configured one that "takes precedence" (`registry.rs:20`).
* `anchor_zero_stake`: `initialize` accepts a minimum of zero; a designated keeper
  without stake then blocks secondary runs for the whole grace period, although "the
  secondary execution still succeeds" (`protocol-spec.md:190`).
* `anchor_ledger_wrap`: a large interval wraps the schedule, although "new_next > old_next
  always holds" (`execution.rs:242`). Scaled to a modulus of 10: the run leaves the next
  execution where it was, below the current ledger, and the task is due again at once.
* `anchor_tenure`: a keeper that registers within a grace period may run the task as secondary
  and have the designated keeper slashed, although `errors.rs:158`, `requirements.md` 4.1 and
  `design.md:227` and `:687` exclude a keeper that registered after ledger T. The code agrees with
  its own comment at `execution.rs:14`, and it could not do otherwise, since no registration
  ledger is stored. `SlashOnlyForMissedWindow` and `ScheduleImplemented`, which hold, speak of
  the windows as the code draws them and so admit this keeper.
* `engine_pending`: `getTransaction` answers before the transaction is included, the engine
  logs "confirmed but failed on-chain" and the transaction succeeds later.
* `network_designated`: the engine acts as designated keeper when ledger T has closed; its
  transaction runs at T + 1 or later, where the contract answers `GracePeriodActive`.

`engine_pending` and `network_designated` start from a task that the query found, so they
become reachable once the stub is replaced.

Met while modelling, without a run of their own:

* `query_executable_tasks` finds nothing, where its comment says "all tasks" that are due
  (`rpc_client.rs:174`, the stub is announced at `:185`);
* registering locks no tokens, where `registry.rs:27` says "locking stake collateral", so
  slashes are paid from the deposits for rewards;
* a variable that is no number gives way to the file without an error, where variables
  "always override file values" (`config.rs:97`);
* timeouts of zero are accepted (`config.rs:254`, `:264`), where `node-operator-guide.md:81`
  and `:82` give the ranges 1-10 and 1-60;
* the signed message is the same for every run of a task in a role although it is to hold
  "all fields that uniquely identify this invocation" (`execution_pipeline.rs:257`);
* an initial back-off above 60 is reported as an error of the maximum (`config.rs:290`), an
  exception that `ErrorNamesCulprit` spells out;
* zero retries are accepted, as `node-operator-guide.md:85` allows and `config.rs:62` ("Min
  = 1") does not;
* the poller's back-off starts at the configured value and not "at 1 second"
  (`ledger_poller.rs:10`, `requirements.md` 6.4);
* the engine retries and dispatches where `requirements.md` 8.4 and 8.5 say it does not,
  never checks its registration (8.1), and does not update its task cache after a run (7.6).

## Proofs

Every theorem holds for every value of the constants that the module's assumption allows
(`AnchorConstants`, `EngineConstants`, `ProcessConstants`, `NetworkConstants`): any set of
addresses, nodes and tasks (`KeeperNetwork` has one task), any arguments, any bounds.

| Module | Theorem | States | Assumes besides |
|---|---|---|---|
| `AnchorProofs` | `AnchorInvariant`, `TypeCorrect` | `[]AnchorInv`, `[]TypeOK` | |
| | `NoInternalErrors` | `[]NoInternalError` | |
| | `SlashesAreEarned` | `SlashOnlyForMissedWindow` | |
| | `RunBudgetHolds`, `ScheduleAlwaysAdvances` | `[]RunBudget`, `ScheduleAdvances` | `NoLedgerWrap` |
| | `StakesSurvive`, `IneligibilityExact` | `[]StakeSurvivesSlashing`, `[]IneligibleExact` | `SoundStakes` |
| | `DueTasksExecutable` | `[]DueTaskExecutable` | `SoundStakes`, `PositiveMinimum` |
| `ScheduleProofs` | `AnchorImplementsSchedule` | `ScheduleImplemented` | `NoLedgerWrap` |
| `ConservationProofs` | `EveryRunCredited`, `TokensConserved` | `[]RunsCredited`, `[]TokenConservation` | |
| | `SlashesConserved` | `[]SlashConservation` | `SoundStakes`, `TotalStakeFits` |
| `EventsProofs` | `EventsTellStorage` | `[]IndexAgrees` | `SoundStakes`, `TotalStakeFits` |
| `EngineProofs` | `EngineTypeCorrect`, `InFlightIsExact` | `[]TypeOK`, `[]InFlightExact` | |
| | `ReportsAreReal`, `EventsInOrder` | `[]ReportedExecutionReal`, `[]LedgerEventsOrdered` | |
| | `BackoffsBounded` | `[]BackoffBounded` | |
| | `EngineImplementsStatus` | `StatusKept` | |
| `EngineProcessProofs` | `ProcessTypeCorrect`, `RunningConfigIsSound` | `[]TypeOK`, `[]RunningConfigSound` | |
| | `ReportsAreTruthful`, `ReportsOnlyAdvance` | `[]ReportTruthful`, `ReportsAdvance` | |
| | `ErrorsNameTheCulprit` | `[]ErrorNamesCulprit` | |
| `NetworkProofs` | `ReportsAreCredited` | `[]ReportsCredited` | |
| | `RunsPaidOnce` | `[]NoDoublePay` | `NoLedgerWrap` |
| | `RolesMatchWindows` | `[]RoleMatchesWindow` | `NoGraceWrap` |
| | `StaleRolesAdmitted` | `[]StaleRoleAdmitted` | `NoGraceWrap`, `SoundStakes`, `PositiveMinimum` |

**The assumptions** are real limits of the code. `NoLedgerWrap` (no ledger plus interval
reaches 2^32) and `PositiveMinimum` are needed: the runs `anchor_ledger_wrap` and
`anchor_zero_stake` show the properties fail without them. `NoGraceWrap` asks the same of
the end of a grace period, which the engine computes in u32 and the contract does not; it
implies `NoLedgerWrap`. TLC evaluates these assumptions on the instances of `network`
(`MCKeeperNetwork`). `SoundStakes` says that five
times a stake is an i128 and that no minimum is negative, `TotalStakeFits` that the stakes of
all keepers together are one: amounts in stroops are far below 2^127 / 5, but the code does
not check it, and its release build wraps.

**The Anchor.** `TypeOK` is not inductive by itself: a secondary run reads the designated
keeper's record, and `provision_task` keeps other tasks only if its id is new. `AnchorInv`
adds that designated keepers are registered, that ids are below the counter and that tasks
exist only after `initialize`. The run budget and the refinement need `RunsSpaced`: the last
run is one interval before the next execution and leaves an interval to each earlier run. The
stake results need `StakesBounded`: stakes lie between zero (exclusive, if pledged) and the
pledge, and the flag follows the stake.

**Sums.** The conservation theorems speak of the sum of any finite number of records.
`SumProofs` proves well-founded induction as statements about a set of naturals or of subsets
(`NatInductionSet`, `SubsetInductionSet`), from them that the recursion behind `SumFunction`
has a solution, and then what a sum does when one value changes (`TotalUpdate`), a key is
added (`TotalExtend`) or all values grow (`TotalMonotone`). `FiniteStorage` says that only
finitely many keepers and tasks are ever stored. For slashes the treasury must not wrap:
`LossesAccounted` carries the equation and the sign of the treasury, `StakesBounded` bounds
the losses by the pledges, and `TotalStakeFits` bounds those.

**Events.** A call publishes at most two events, so the fold an indexer computes is unfolded
for sequences of that length (`ReadOne`, `ReadTwo`); there is one lemma for each event, and
one for what each call does to storage. `IndexExact`, that the index is the projection of
storage field by field, is inductive; `IndexAgrees` follows.

**The node.** `EngineInv` joins `TypeOK` and `InFlightExact` with what several awaits need from
each other: the channel holds increasing ledgers between the one in hand and the poller's
cursor, a hash kept for the confirmation names a transaction of this node, a stored
time stamp belongs to a transaction that succeeded. `BackoffBounded` needs that doubling with
the cap commutes with capping the power (`PowerOfTwo`, by `NatInductionSet`). Each step of
`Engine` then maps to a step of `EngineStatus` or to none.

**The process.** `ProcessInv` says what a half-read request may hold: a ledger not beyond the
cursor, an execution only if one was stored, both no older than the last answer; and that an
error is the one the present variables and file give. `RunningConfigSound` says that a
variable that parses decides, and states the bounds that `from_env` checks, which for timeouts
and retries have no lower end. `ErrorNamesCulprit` is proved by cases
over the checks of `from_env` in their order.

**The network.** What a step of a node may do is summed up once, in `NodeEffect`: it learns
ledgers that have closed, takes tasks from the view, works on the task and role it has or on
a classified one, adds transactions of its own for them, and records an execution only when
the chain shows one; there is a lemma for each action of `Engine`, and the later proofs see
four kinds of steps (`NetworkSteps`). `NetworkInv` joins `AnchorInv` with the types and with
`TransactionsOwned`: the hash a node waits for is one of its own transactions, and what the
chain shows as success was applied with `"Ok"` for a registered keeper. Every step of the
network is a step of `Anchor` or leaves the contract alone (`NetworkCalls`), so `RunsSpaced`
and the stake invariants carry over. `ReportsCredited` is then inductive, by the cardinality of
the set of successful transactions. `NoDoublePay` is not: it needs `PaidRunsPast`, that a paid
run lies before the task's next execution. `RoleMatchesWindow` follows from the two sets of
rules, ledger by ledger (`RoleByRegion`, `RefusedInTime`). `StaleRoleAdmitted` needs
`RolesSound`, which follows a role from the view through the list of tasks and the pipeline
into the transaction: nodes know only ledgers before the open one, copies of a task name its
owner, and a role found at an earlier ledger stays earned as ledgers advance.

Each inductive invariant was checked by TLC on the instance of its module's run before it was
proved.

**Only model-checked**: liveness (`CycleTerminates`, `TaskKeepsRunning`), which is out of the
prover's reach. Every invariant and action property of a passing run is proved. The expected
violations are counterexamples and have no proof.

## Not modelled

Logs; JSON, HTTP and XDR; the Drip List address of a task, which is only passed on; strkey and Ed25519; the task cache, which is written and never
read; rent and archival of storage entries, which belong to the host and that the code never
touches; who may send tokens and why. The getters of the contract only read. The test
scaffolding and CI are not part of the system.

## Plan

1. Core (done): `Anchor` with runs and theorems, `Engine`, `KeeperNetwork`.
2. Extension (done): `DripSchedule`, `AnchorEvents`, `RpcClient`, `EngineStatus`,
   `EngineConfig`, `EngineProcess`, liveness of the network, agreement of the windows.
3. Proofs, first part (done): both refinements, the sums, the events, the node, the process,
   the network.
4. Proofs, second part: the network with several tasks, so that `RunsPaidOnce` and
   `StaleRolesAdmitted` cover nodes that work through a list; that the instance of `Engine` in
   `KeeperNetwork` keeps `EngineInv`, so that what `EngineProofs` shows of a node alone holds
   of nodes on the Anchor.
