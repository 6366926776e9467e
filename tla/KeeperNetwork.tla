---------------------------- MODULE KeeperNetwork ----------------------------
(***************************************************************************)
(* The engines at work on the Anchor.  A node learns of a ledger after it  *)
(* closed, reads the tasks as that ledger left them and sends a            *)
(* transaction, which runs execute_drip_split in the ledger now open or in *)
(* a later one, in any order with the other keepers' calls.  Addresses     *)
(* outside Node are keepers about whose software nothing is assumed.       *)
(***************************************************************************)
EXTENDS Anchor, Sequences

CONSTANTS
    Node, NoTask, CHANNEL_CAPACITY, max_retries, retry_backoff_initial,
    retry_backoff_max, MaxTxs,
    QueryWired,     \* whether query_executable_tasks reads the contract (LiveSpec)
    CalmLedger,     \* first ledger from which LiveSpec's network is reliable
    FaultTxs        \* bound: transactions sent while it is not

ASSUME NetworkConstants ==
    /\ Node \subseteq Address /\ NoTask \notin TaskId /\ MaxTasks > 0
    /\ QueryWired \in BOOLEAN /\ CalmLedger \in Nat /\ FaultTxs \in Nat

VARIABLES
    view, txs, last_known_ledger, failing, poll_backoff, channel, pc,
    current_ledger, todo, task, role, attempt, backoff, hash, in_flight,
    confirmed, loggedFailed,
    applied           \* what became of each transaction a ledger included

\* The ledger before the open one is the latest that closed.
E == INSTANCE Engine WITH
        closed <- ledger - 1, TaskIds <- {<<0, DeployLedger>>},
        Owners <- Address, Repeat <- 1

node == <<last_known_ledger, failing, poll_backoff, channel, pc, current_ledger, todo,
          task, role, attempt, backoff, hash, in_flight, confirmed, loggedFailed>>

netVars == <<vars, view, txs, applied, node>>

\* The contract as set up by its operator: initialised, funded, with one task.
NetworkInit ==
    /\ ledger = DeployLedger
    /\ admin \in Address \ Node
    /\ minKeeperStake \in MinStakes
    /\ \E registered \in {Address, Address \ Node}, stake \in Stakes :
          /\ stake >= minKeeperStake
          /\ keepers = [a \in registered |->
                          [stake_amount |-> stake, last_execution_ledger |-> 0,
                           total_executions |-> 0, ineligible |-> FALSE]]
          /\ pledged = [a \in registered |-> stake]
          /\ \E d \in registered, interval \in Intervals \ {0}, reward \in Rewards :
                /\ reward > 0
                /\ tasks = [id \in {<<0, DeployLedger>>} |->
                              [execution_interval_ledgers |-> interval,
                               next_allowed_execution |-> AddU32(DeployLedger, interval),
                               micro_reward_per_run |-> reward,
                               designated_keeper |-> d]]
    /\ runs = [id \in DOMAIN tasks |-> 0]
    /\ taskCounter = 1 /\ treasury = 0 /\ secondaryPaid = 0
    /\ funded \in Deposits /\ balance = funded
    /\ view = [id \in {} |-> None]
    /\ txs = << >> /\ applied = [i \in {} |-> None]
    /\ E!EngineInit

\* The open ledger closes: the RPC server shows its tasks and its transactions.
NetworkClose ==
    /\ CloseLedger
    /\ view' = tasks
    /\ txs' = [i \in DOMAIN txs |->
                  IF i \notin DOMAIN applied THEN txs[i]
                  ELSE [txs[i] EXCEPT !.status =
                           IF applied[i].result = "Ok" THEN "success" ELSE "failed"]]
    /\ UNCHANGED <<applied, node>>

\* The open ledger runs a transaction: execute_drip_split(id, keeper).
ApplyTx(i, drip_ok) ==
    LET id == txs[i].id
        keeper == txs[i].keeper
        result == ExecuteResult(id, keeper, drip_ok)
    IN  /\ txs[i].status = "pending"
        /\ i \notin DOMAIN applied
        /\ applied' = Put(applied, i, [result |-> result, ledger |-> ledger,
                                       run |-> tasks[id].next_allowed_execution])
        /\ IF result = "Ok"
           THEN ExecuteUnslashed(id, keeper) \/ ExecuteSecondary(id, keeper)
           ELSE UNCHANGED vars
        /\ UNCHANGED <<view, txs, node>>

\* Another keeper runs the task.
OtherKeeper(id, caller) ==
    /\ ExecuteUnslashed(id, caller) \/ ExecuteSecondary(id, caller)
    /\ UNCHANGED <<view, txs, applied, node>>

NodeStep(n) ==
    /\ UNCHANGED <<vars, applied>>
    /\ E!PollerStep(n) \/ E!DiscoveryStep(n) \/ E!Restart(n)

NetworkNext ==
    \/ NetworkClose
    \/ \E i \in DOMAIN txs, drip_ok \in BOOLEAN : ApplyTx(i, drip_ok)
    \/ \E id \in DOMAIN tasks, caller \in Address \ Node : OtherKeeper(id, caller)
    \/ \E n \in Node : NodeStep(n)

NetworkSpec == NetworkInit /\ [][NetworkNext]_netVars

-----------------------------------------------------------------------------
(* A network that becomes reliable.  Until CalmLedger everything above may *)
(* happen: lost and refused transactions, failing calls, restarts, a Drip  *)
(* List that fails.  Afterwards the RPC server answers with what the chain *)
(* knows, and takes a transaction it is sent for a new one.  An answer may *)
(* still come before the transaction is in a ledger, other keepers may     *)
(* still come first, and nothing is said of how fast anyone is.            *)
(*                                                                         *)
(* QueryWired is no fault that may pass but the state of the code.  With   *)
(* FALSE the query is the stub of rpc_client.rs:188, which always finds    *)
(* nothing; with TRUE it finds what its comment says, and the rest of the  *)
(* loop is as in the code.                                                 *)

CalmPoll(n) ==
    /\ ledger > 1
    /\ E!PollOk(n, ledger - 1)

\* What the query answers when nothing goes wrong.
CalmAnswer(n) == IF QueryWired THEN E!ExecutableTasks(current_ledger[n]) ELSE {}

CalmDiscovery(n) ==
    \/ E!Recv(n)
    \/ E!QueryOk(n, CalmAnswer(n))
    \/ \E t \in todo[n] : E!Skip(n, t) \/ E!Dispatch(n, t)
    \/ E!EndCycle(n)
    \/ E!SendAccepted(n, TRUE)
    \/ E!BackoffElapsed(n)
    \/ E!Confirmed(n) \/ E!ConfirmedFailed(n, "result")
    \/ E!Done(n)

NodeCalm(n) ==
    /\ UNCHANGED <<vars, applied>>
    /\ CalmPoll(n) \/ CalmDiscovery(n)

LiveNext ==
    \/ ledger < CalmLedger /\ Len(txs) < FaultTxs /\ NetworkNext
    \/ NetworkClose
    \/ \E i \in DOMAIN txs : ApplyTx(i, TRUE)
    \/ \E id \in DOMAIN tasks, caller \in Address \ Node : OtherKeeper(id, caller)
    \/ \E n \in Node : NodeCalm(n)

\* Ledgers close, transactions are included, and the two tasks of an engine
\* keep running: they wait only for sleeps and for calls with a timeout.
LiveSpec ==
    /\ NetworkInit
    /\ [][LiveNext]_netVars
    /\ WF_netVars(NetworkClose)
    /\ WF_netVars(\E i \in DOMAIN txs : ApplyTx(i, TRUE))
    /\ \A n \in Node :
          /\ WF_netVars(UNCHANGED <<vars, applied>> /\ CalmPoll(n))
          /\ WF_netVars(UNCHANGED <<vars, applied>> /\ CalmDiscovery(n))

-----------------------------------------------------------------------------
(* Properties *)

\* task_discovery.rs and grace_monitor.rs divide a task's ledgers as execution.rs
\* does, at each boundary: for an idle node the engine finds a role exactly when
\* the contract would not turn the registered node away for its place in time.
RoleMatchesWindow ==
    \A n \in Node \cap DOMAIN keepers, id \in DOMAIN tasks :
        LET t == [id |-> id, next_allowed_execution |-> tasks[id].next_allowed_execution,
                  designated_keeper |-> tasks[id].designated_keeper]
            chosen == E!ClassifiedRole(n, t, ledger)
        IN  in_flight[n] = {} =>
              /\ (chosen = "None") <=> ExecuteResult(id, n, TRUE) \in
                   {"TooEarlyToExecute", "UnauthorizedExecutor", "GracePeriodActive"}
              /\ chosen = "Secondary" => Region(tasks[id]) = "grace"
              /\ chosen = "PostGrace" => Region(tasks[id]) = "post_grace"

\* The transaction reached the run it was signed for: nobody ran the task first.
OnTime(i) == applied[i].run = txs[i].next

\* The role a node chose from an old ledger and an old view of the task is still
\* one the contract grants: unless another keeper was faster, a registered
\* node's secondary or post-grace transaction is refused only for lack of funds
\* or by the Drip List, however many ledgers later it is included.
StaleRoleAdmitted ==
    \A i \in DOMAIN applied :
        (/\ OnTime(i)
         /\ txs[i].role \in {"Secondary", "PostGrace"}
         /\ txs[i].keeper \in DOMAIN keepers)
        => applied[i].result \in {"Ok", "InsufficientRewardBalance", "DripListPanic"}

\* No run of a task is paid twice: of the transactions that retries, restarts and
\* unread statuses send for one run, at most one succeeds.
NoDoublePay ==
    \A i, j \in DOMAIN applied :
        /\ i # j /\ txs[i].id = txs[j].id
        /\ applied[i].result = "Ok" /\ applied[j].result = "Ok"
        => applied[i].run # applied[j].run

\* The health server reports an execution only if the contract credited the node
\* with one, and the contract credits a node with no more than it sent.
ReportsCredited ==
    \A n \in Node :
        /\ confirmed[n] => n \in DOMAIN keepers /\ keepers[n].total_executions > 0
        /\ n \in DOMAIN keepers =>
             keepers[n].total_executions
               = Cardinality({i \in DOMAIN applied : /\ txs[i].keeper = n
                                                     /\ applied[i].result = "Ok"})

\* A due task is run: one registered node, designated or not, keeps every task
\* going once its calls are answered, although the other keepers do nothing, the
\* node comes late to its own window and gives up on transactions that are still
\* pending.  It holds with QueryWired, by the post-grace dispatch of
\* task_discovery.rs:155, and fails for the stub, with which no node ever sends a
\* transaction.  For runs that come due early enough for the last ledgers of the
\* instance to reach beyond their grace period.
TaskKeepsRunning ==
    \A due \in DeployLedger .. MaxLedger - GRACE_LEDGERS - 2 :
        (/\ Node \cap DOMAIN keepers # {}
         /\ \E id \in DOMAIN tasks : tasks[id].next_allowed_execution = due)
        ~> (\E id \in DOMAIN tasks : tasks[id].next_allowed_execution > due)

\* task_discovery.rs:143: a node that sees its task's ledger in time runs it in
\* its designated window; it is not refused for coming within the grace period.
DesignatedInTime ==
    \A i \in DOMAIN applied :
        OnTime(i) /\ txs[i].role = "Designated" => applied[i].result # "GracePeriodActive"

-----------------------------------------------------------------------------
(* Inductive invariants, and what they need of the constants. *)

Tx == [keeper : Node, id : {<<0, DeployLedger>>}, role : E!Role, next : Nat,
       status : E!TxStatus]

Working == {"send", "backoff", "confirm", "done"}

NetworkTyped ==
    /\ DOMAIN tasks = {<<0, DeployLedger>>}
    /\ view \in [DOMAIN view -> ExecutionTask] /\ DOMAIN view \subseteq DOMAIN tasks
    /\ txs \in Seq(Tx)
    /\ DOMAIN applied \subseteq DOMAIN txs /\ \A i \in DOMAIN applied : applied[i].run \in Nat
    /\ last_known_ledger \in [Node -> Nat] /\ current_ledger \in [Node -> Nat]
    /\ channel \in [Node -> Seq(Nat)]
    /\ pc \in [Node -> E!PC] /\ role \in [Node -> E!Role] /\ hash \in [Node -> Nat]
    /\ todo \in [Node -> SUBSET E!RemoteTask]
    /\ task \in [Node -> E!RemoteTask \cup {NoTask}]
    /\ confirmed \in [Node -> BOOLEAN]

\* A node works on a task it found and waits for a transaction of its own; the
\* chain shows as successful what a ledger ran, for a keeper that is registered.
TransactionsOwned ==
    /\ \A n \in Node :
          /\ pc[n] \in Working => task[n] \in E!RemoteTask
          /\ pc[n] = "confirm" => hash[n] \in DOMAIN txs /\ txs[hash[n]].keeper = n
    /\ \A i \in DOMAIN txs :
          txs[i].status = "success" => i \in DOMAIN applied /\ applied[i].result = "Ok"
    /\ \A i \in DOMAIN applied :
          applied[i].result = "Ok" => txs[i].keeper \in DOMAIN keepers

NetworkInv == AnchorInv /\ NetworkTyped /\ TransactionsOwned

\* A run that was paid is behind the task's schedule.
PaidRunsPast ==
    \A i \in DOMAIN applied :
        applied[i].result = "Ok" => applied[i].run < tasks[txs[i].id].next_allowed_execution

\* Neither does the end of a grace period, computed by the engine in u32.
NoGraceWrap == \A i \in Intervals : MaxLedger + i + GRACE_LEDGERS < U32

\* A copy of a task, however old: its window does not wrap, its owner is right.
CopySound(id, next, owner) ==
    next + GRACE_LEDGERS < U32 /\ owner = tasks[id].designated_keeper

\* A role once found stays right until the task runs.
RoleEarned(keeper, r, id, next) ==
    /\ r = "Secondary" => next < ledger /\ keeper # tasks[id].designated_keeper
    /\ r = "PostGrace" => next + GRACE_LEDGERS < ledger

\* Nodes are behind the open ledger, and what they hold of it is sound.
RolesSound ==
    /\ \A id \in DOMAIN view :
          CopySound(id, view[id].next_allowed_execution, view[id].designated_keeper)
    /\ \A n \in Node :
          /\ last_known_ledger[n] < ledger /\ current_ledger[n] < ledger
          /\ \A i \in 1 .. Len(channel[n]) : channel[n][i] < ledger
          /\ \A t \in todo[n] :
                CopySound(t.id, t.next_allowed_execution, t.designated_keeper)
          /\ pc[n] \in Working =>
                RoleEarned(n, role[n], task[n].id, task[n].next_allowed_execution)
    /\ \A i \in DOMAIN txs : RoleEarned(txs[i].keeper, txs[i].role, txs[i].id, txs[i].next)
=============================================================================
