------------------------------- MODULE Engine -------------------------------
(***************************************************************************)
(* The Engine: the off-chain keeper node of the-engine/src.  Two Tokio     *)
(* tasks share a process: the ledger poller, and the discovery loop that   *)
(* receives ledger events over a bounded broadcast channel, queries the    *)
(* contract's tasks, classifies each one and drives it through the         *)
(* execution pipeline.  Every pc value below is an await point.            *)
(*                                                                         *)
(* The chain and its RPC server are external: closed, view and txs are     *)
(* what the RPC calls read and write.  On its own the module lets the      *)
(* chain do anything; KeeperNetwork puts the Anchor in its place.          *)
(***************************************************************************)
EXTENDS Integers, Sequences, FiniteSets, RpcClient

CONSTANTS
    Node,                  \* keeper addresses that run an engine
    TaskIds,               \* tasks the contract may hold
    Owners,                \* addresses a task may be designated to
    NoTask,                \* the pipeline holds no task
    GRACE_LEDGERS,         \* the literal 50 in the code
    U32,                   \* 2^32
    CHANNEL_CAPACITY,      \* broadcast::channel(64)
    max_retries,
    retry_backoff_initial,
    retry_backoff_max,
    Repeat,                \* ledgers from a run of a task to its next one
    MaxLedger,             \* bound: last ledger of a behaviour
    MaxTxs                 \* bound: transactions the network accepts

ASSUME EngineConstants ==
    /\ NoTask \notin TaskIds
    /\ GRACE_LEDGERS \in Nat \ {0} /\ U32 \in Nat \ {0}
    /\ CHANNEL_CAPACITY \in Nat \ {0}
    /\ max_retries \in Nat
    /\ retry_backoff_initial \in Nat \ {0}
    /\ retry_backoff_max \in Nat /\ retry_backoff_initial <= retry_backoff_max
    /\ Repeat \in Nat \ {0}
    /\ MaxLedger \in Nat \ {0} /\ MaxLedger < U32 /\ MaxTxs \in Nat

VARIABLES
    closed,           \* latest closed ledger
    view,             \* contract tasks as of that ledger, a function on their ids
    txs,              \* transactions the network accepted, in order of acceptance
    \* Ledger poller
    last_known_ledger, failing, poll_backoff,
    \* Broadcast channel from poller to discovery
    channel,
    \* Discovery loop and execution pipeline
    pc, current_ledger, todo, task, role, attempt, backoff, hash,
    \* Shared with the health server
    in_flight, confirmed,
    \* History: the hashes logged as "confirmed but failed on-chain"
    loggedFailed

chain == <<closed, view, txs>>
poller == <<last_known_ledger, failing, poll_backoff>>
job == <<task, role, attempt, backoff, hash>>
shared == <<in_flight, confirmed, loggedFailed>>
vars == <<chain, poller, channel, pc, current_ledger, todo, job, shared>>

Role == {"Designated", "Secondary", "PostGrace", "None"}
PC == {"recv", "query", "classify", "send", "backoff", "confirm", "done"}

RemoteTask == [id : TaskIds, next_allowed_execution : Nat, designated_keeper : Owners]

\* What the chain knows of a transaction: "pending" until a ledger includes it,
\* "lost" when the network drops one it gave a hash for.
TxStatus == {"pending", "success", "failed", "lost"}

Least(a, b) == IF a <= b THEN a ELSE b

\* Mutant: the doubling is not capped.
UncappedBackoff(b) == 2 * b

\* (backoff * 2).min(retry_backoff_max), in the poller and in the pipeline.
NextBackoff(b) == Least(2 * b, retry_backoff_max)

-----------------------------------------------------------------------------
(* in_flight.rs: every method holds the mutex, so each is one step. *)

contains(n, id) == id \in in_flight[n]

insert(n, id) == in_flight' = [in_flight EXCEPT ![n] = @ \cup {id}]

remove(n, id) == in_flight' = [in_flight EXCEPT ![n] = @ \ {id}]

-----------------------------------------------------------------------------
(* ledger_poller.rs *)

\* broadcast::Sender::send: a full channel overwrites its oldest event.  The
\* receiver is told with Lagged, logs it and goes on with the oldest one left.
Broadcast(ch, seq) ==
    LET sent == Append(ch, seq)
    IN  IF Len(sent) > CHANNEL_CAPACITY THEN Tail(sent) ELSE sent

\* Mutant: every answer is broadcast, a repeated or older ledger too.
PollOkUnfiltered(n, seq) ==
    /\ failing' = [failing EXCEPT ![n] = FALSE]
    /\ poll_backoff' = [poll_backoff EXCEPT ![n] =
                           IF failing[n] THEN retry_backoff_initial ELSE @]
    /\ last_known_ledger' = [last_known_ledger EXCEPT ![n] = seq]
    /\ channel' = [channel EXCEPT ![n] = Broadcast(@, seq)]
    /\ UNCHANGED <<chain, pc, current_ledger, todo, job, shared>>

\* get_latest_ledger returned seq; the RPC server may be behind the network.  The
\* conversion to u32 keeps seq, which is at most MaxLedger and below U32.
PollOk(n, seq) ==
    /\ failing' = [failing EXCEPT ![n] = FALSE]
    /\ poll_backoff' = [poll_backoff EXCEPT ![n] =
                           IF failing[n] THEN retry_backoff_initial ELSE @]
    /\ IF seq > last_known_ledger[n]
       THEN /\ last_known_ledger' = [last_known_ledger EXCEPT ![n] = seq]
            /\ channel' = [channel EXCEPT ![n] = Broadcast(@, seq)]
       ELSE UNCHANGED <<last_known_ledger, channel>>
    /\ UNCHANGED <<chain, pc, current_ledger, todo, job, shared>>

PollError(n) ==
    /\ failing' = [failing EXCEPT ![n] = TRUE]
    /\ poll_backoff' = [poll_backoff EXCEPT ![n] = NextBackoff(@)]
    /\ UNCHANGED <<chain, last_known_ledger, channel, pc, current_ledger, todo, job, shared>>

-----------------------------------------------------------------------------
(* task_discovery.rs, grace_monitor.rs *)

Recv(n) ==
    /\ pc[n] = "recv"
    /\ channel[n] # << >>
    /\ current_ledger' = [current_ledger EXCEPT ![n] = Head(channel[n])]
    /\ channel' = [channel EXCEPT ![n] = Tail(@)]
    /\ pc' = [pc EXCEPT ![n] = "query"]
    /\ UNCHANGED <<chain, poller, todo, job, shared>>

\* What the comment on query_executable_tasks says it finds: the tasks of the
\* contract that are due at the ledger.  Its body returns the empty list.
ExecutableTasks(ledger) ==
    {[id |-> id, next_allowed_execution |-> view[id].next_allowed_execution,
      designated_keeper |-> view[id].designated_keeper] :
        id \in {x \in DOMAIN view : view[x].next_allowed_execution <= ledger}}

\* query_executable_tasks is a stub that finds nothing, to be replaced by the
\* contract's answer: the loop is modelled with both.
QueryOk(n, found) ==
    /\ pc[n] = "query"
    /\ todo' = [todo EXCEPT ![n] = found]
    /\ pc' = [pc EXCEPT ![n] = "classify"]
    /\ UNCHANGED <<chain, poller, channel, current_ledger, job, shared>>

\* An RPC error or the query timeout: the cycle is skipped.
QueryFailed(n) ==
    /\ pc[n] = "query"
    /\ pc' = [pc EXCEPT ![n] = "recv"]
    /\ UNCHANGED <<chain, poller, channel, current_ledger, todo, job, shared>>

\* Mutant: the designated keeper is not told apart.
GraceRoleAnyone(n, t, ledger) ==
    IF \/ ledger - t.next_allowed_execution > GRACE_LEDGERS
       \/ contains(n, t.id)
    THEN "None" ELSE "Secondary"

\* GraceMonitor::evaluate
GraceRole(n, t, ledger) ==
    IF \/ ledger - t.next_allowed_execution > GRACE_LEDGERS
       \/ n = t.designated_keeper
       \/ contains(n, t.id)
    THEN "None" ELSE "Secondary"

\* Mutant: the last ledger of the grace period belongs to no region.
ClassifiedRoleGraceShort(n, t, ledger) ==
    LET next == t.next_allowed_execution
        grace_end == (next + GRACE_LEDGERS) % U32
    IN  IF contains(n, t.id) THEN "None"
        ELSE IF ledger = next /\ t.designated_keeper = n THEN "Designated"
        ELSE IF ledger > next /\ ledger < grace_end THEN GraceRole(n, t, ledger)
        ELSE IF ledger > grace_end THEN "PostGrace"
        ELSE "None"

\* classify_and_dispatch: the role a task is dispatched in, or "None".
ClassifiedRole(n, t, ledger) ==
    LET next == t.next_allowed_execution
        grace_end == (next + GRACE_LEDGERS) % U32
    IN  IF contains(n, t.id) THEN "None"
        ELSE IF ledger = next /\ t.designated_keeper = n THEN "Designated"
        ELSE IF ledger > next /\ ledger <= grace_end THEN GraceRole(n, t, ledger)
        ELSE IF ledger > grace_end THEN "PostGrace"
        ELSE "None"

\* The tasks of a cycle are handled one after the other, in the query's order.
Skip(n, t) ==
    /\ pc[n] = "classify"
    /\ t \in todo[n]
    /\ ClassifiedRole(n, t, current_ledger[n]) = "None"
    /\ todo' = [todo EXCEPT ![n] = @ \ {t}]
    /\ UNCHANGED <<chain, poller, channel, pc, current_ledger, job, shared>>

EndCycle(n) ==
    /\ pc[n] = "classify"
    /\ todo[n] = {}
    /\ pc' = [pc EXCEPT ![n] = "recv"]
    /\ UNCHANGED <<chain, poller, channel, current_ledger, todo, job, shared>>

-----------------------------------------------------------------------------
(* execution_pipeline.rs: dispatch, execute_with_retry, wait_for_confirmation *)

Dispatch(n, t) ==
    /\ pc[n] = "classify"
    /\ t \in todo[n]
    /\ ClassifiedRole(n, t, current_ledger[n]) # "None"
    /\ todo' = [todo EXCEPT ![n] = @ \ {t}]
    /\ insert(n, t.id)
    /\ task' = [task EXCEPT ![n] = t]
    /\ role' = [role EXCEPT ![n] = ClassifiedRole(n, t, current_ledger[n])]
    /\ attempt' = [attempt EXCEPT ![n] = 0]
    /\ backoff' = [backoff EXCEPT ![n] = retry_backoff_initial]
    /\ pc' = [pc EXCEPT ![n] = "send"]
    /\ UNCHANGED <<chain, poller, channel, current_ledger, hash, confirmed, loggedFailed>>

\* Mutant: dispatch returns without removing the task.
FinishWithoutRemove(n) ==
    /\ pc' = [pc EXCEPT ![n] = "classify"]
    /\ task' = [task EXCEPT ![n] = NoTask]
    /\ role' = [role EXCEPT ![n] = "None"]
    /\ attempt' = [attempt EXCEPT ![n] = 0]
    /\ backoff' = [backoff EXCEPT ![n] = retry_backoff_initial]
    /\ hash' = [hash EXCEPT ![n] = 0]
    /\ UNCHANGED in_flight

\* execute_with_retry returns and dispatch removes the task from in-flight.
FinishDispatch(n) ==
    /\ remove(n, task[n].id)
    /\ pc' = [pc EXCEPT ![n] = "classify"]
    /\ task' = [task EXCEPT ![n] = NoTask]
    /\ role' = [role EXCEPT ![n] = "None"]
    /\ attempt' = [attempt EXCEPT ![n] = 0]
    /\ backoff' = [backoff EXCEPT ![n] = retry_backoff_initial]
    /\ hash' = [hash EXCEPT ![n] = 0]

\* build_signed_transaction: what the signed envelope holds besides the contract.
\* The run it is meant for (next) is not part of it.
Envelope(tx) == <<tx.keeper, tx.id, tx.role>>

NewTx(n, status) ==
    [keeper |-> n, id |-> task[n].id, role |-> role[n],
     next |-> task[n].next_allowed_execution, status |-> status]

\* sendTransaction answers with a hash; the answer's status field is not read,
\* so the network may have queued the transaction or refused it.
SendAccepted(n, delivered) ==
    /\ pc[n] = "send"
    /\ Len(txs) < MaxTxs
    /\ txs' = Append(txs, NewTx(n, IF delivered THEN "pending" ELSE "lost"))
    /\ hash' = [hash EXCEPT ![n] = Len(txs) + 1]
    /\ pc' = [pc EXCEPT ![n] = "confirm"]
    /\ UNCHANGED <<closed, view, poller, channel, current_ledger, todo, task, role,
                   attempt, backoff, shared>>

\* The network has seen the envelope before and answers with that hash.
SendDuplicate(n, i) ==
    /\ pc[n] = "send"
    /\ Envelope(txs[i]) = Envelope(NewTx(n, "pending"))
    /\ hash' = [hash EXCEPT ![n] = i]
    /\ pc' = [pc EXCEPT ![n] = "confirm"]
    /\ UNCHANGED <<chain, poller, channel, current_ledger, todo, task, role,
                   attempt, backoff, shared>>

\* The network may hold the transaction although the call failed.
Delivered(n, delivered) ==
    /\ delivered => Len(txs) < MaxTxs
    /\ txs' = IF delivered THEN Append(txs, NewTx(n, "pending")) ELSE txs

\* Mutant: the last attempt is compared for equality one too late.
SendTransientOneMore(n, delivered) ==
    /\ pc[n] = "send"
    /\ Delivered(n, delivered)
    /\ IF attempt[n] = max_retries + 1
       THEN FinishDispatch(n)
       ELSE /\ pc' = [pc EXCEPT ![n] = "backoff"]
            /\ UNCHANGED <<in_flight, job>>
    /\ UNCHANGED <<closed, view, poller, channel, current_ledger, todo, confirmed,
                   loggedFailed>>

\* A transient error, which may be the loss of an answer to a delivered call.
SendTransient(n, delivered) ==
    /\ pc[n] = "send"
    /\ Delivered(n, delivered)
    /\ IF attempt[n] = max_retries
       THEN FinishDispatch(n)
       ELSE /\ pc' = [pc EXCEPT ![n] = "backoff"]
            /\ UNCHANGED <<in_flight, job>>
    /\ UNCHANGED <<closed, view, poller, channel, current_ledger, todo, confirmed,
                   loggedFailed>>

\* Mutant: the retry loop does not count.
BackoffUncounted(n) ==
    /\ pc[n] = "backoff"
    /\ backoff' = [backoff EXCEPT ![n] = NextBackoff(@)]
    /\ pc' = [pc EXCEPT ![n] = "send"]
    /\ UNCHANGED <<chain, poller, channel, current_ledger, todo, task, role, attempt, hash,
                   shared>>

BackoffElapsed(n) ==
    /\ pc[n] = "backoff"
    /\ attempt' = [attempt EXCEPT ![n] = @ + 1]
    /\ backoff' = [backoff EXCEPT ![n] = NextBackoff(@)]
    /\ pc' = [pc EXCEPT ![n] = "send"]
    /\ UNCHANGED <<chain, poller, channel, current_ledger, todo, task, role, hash, shared>>

\* A rejection, or an answer without a hash, ends the dispatch at once.
SendRejected(n, delivered) ==
    /\ pc[n] = "send"
    /\ Delivered(n, delivered)
    /\ FinishDispatch(n)
    /\ UNCHANGED <<closed, view, poller, channel, current_ledger, todo, confirmed,
                   loggedFailed>>

\* Mutant: any answer to getTransaction counts as a confirmation.
ConfirmedAnyStatus(n) ==
    /\ pc[n] = "confirm"
    /\ confirmed' = [confirmed EXCEPT ![n] = TRUE]
    /\ pc' = [pc EXCEPT ![n] = "done"]
    /\ UNCHANGED <<chain, poller, channel, current_ledger, todo, job, in_flight,
                   loggedFailed>>

\* get_transaction returns a success: the time is stored where the health server
\* reads it, then the task leaves the in-flight set.
Confirmed(n) ==
    /\ pc[n] = "confirm"
    /\ \E answer \in Answer : get_transaction(answer, txs[hash[n]].status) = "Success"
    /\ confirmed' = [confirmed EXCEPT ![n] = TRUE]
    /\ pc' = [pc EXCEPT ![n] = "done"]
    /\ UNCHANGED <<chain, poller, channel, current_ledger, todo, job, in_flight,
                   loggedFailed>>

Done(n) ==
    /\ pc[n] = "done"
    /\ FinishDispatch(n)
    /\ UNCHANGED <<chain, poller, channel, current_ledger, todo, confirmed,
                   loggedFailed>>

\* Any other answer, no status or a transaction that no ledger includes yet
\* among them, comes with an error_detail and ends the wait as a failure.
ConfirmedFailed(n, answer) ==
    /\ pc[n] = "confirm"
    /\ get_transaction(answer, txs[hash[n]].status) = "Failure"
    /\ loggedFailed' = loggedFailed \cup {hash[n]}
    /\ FinishDispatch(n)
    /\ UNCHANGED <<chain, poller, channel, current_ledger, todo, confirmed>>

\* The RPC call fails or the confirmation timeout elapses: no retry.
ConfirmFailed(n) ==
    /\ pc[n] = "confirm"
    /\ FinishDispatch(n)
    /\ UNCHANGED <<chain, poller, channel, current_ledger, todo, confirmed,
                   loggedFailed>>

-----------------------------------------------------------------------------
(* main.rs: ctrl-c aborts the tasks at whatever await they are; nothing is *)
(* persisted, so the next process starts from new().                       *)

Restart(n) ==
    /\ last_known_ledger' = [last_known_ledger EXCEPT ![n] = 0]
    /\ failing' = [failing EXCEPT ![n] = FALSE]
    /\ poll_backoff' = [poll_backoff EXCEPT ![n] = retry_backoff_initial]
    /\ channel' = [channel EXCEPT ![n] = << >>]
    /\ pc' = [pc EXCEPT ![n] = "recv"]
    /\ current_ledger' = [current_ledger EXCEPT ![n] = 0]
    /\ todo' = [todo EXCEPT ![n] = {}]
    /\ task' = [task EXCEPT ![n] = NoTask]
    /\ role' = [role EXCEPT ![n] = "None"]
    /\ attempt' = [attempt EXCEPT ![n] = 0]
    /\ backoff' = [backoff EXCEPT ![n] = retry_backoff_initial]
    /\ hash' = [hash EXCEPT ![n] = 0]
    /\ in_flight' = [in_flight EXCEPT ![n] = {}]
    /\ confirmed' = [confirmed EXCEPT ![n] = FALSE]
    /\ UNCHANGED <<chain, loggedFailed>>

-----------------------------------------------------------------------------
(* The engine by itself: the chain closes ledgers, runs tasks and includes *)
(* or fails transactions as it likes.                                      *)

engine == <<poller, channel, pc, current_ledger, todo, job, shared>>

\* A ledger closes: it runs some tasks and decides some transactions.
LedgerCloses(ran, included, rejected) ==
    /\ closed < MaxLedger
    /\ closed' = closed + 1
    /\ view' = [id \in DOMAIN view |->
                   IF id \in ran
                   THEN [view[id] EXCEPT !.next_allowed_execution = closed + 1 + Repeat]
                   ELSE view[id]]
    /\ txs' = [i \in DOMAIN txs |->
                   IF txs[i].status # "pending" THEN txs[i]
                   ELSE IF i \in included THEN [txs[i] EXCEPT !.status = "success"]
                   ELSE IF i \in rejected THEN [txs[i] EXCEPT !.status = "failed"]
                   ELSE txs[i]]
    /\ UNCHANGED engine

EngineInit ==
    /\ last_known_ledger = [n \in Node |-> 0]
    /\ failing = [n \in Node |-> FALSE]
    /\ poll_backoff = [n \in Node |-> retry_backoff_initial]
    /\ channel = [n \in Node |-> << >>]
    /\ pc = [n \in Node |-> "recv"]
    /\ current_ledger = [n \in Node |-> 0]
    /\ todo = [n \in Node |-> {}]
    /\ task = [n \in Node |-> NoTask]
    /\ role = [n \in Node |-> "None"]
    /\ attempt = [n \in Node |-> 0]
    /\ backoff = [n \in Node |-> retry_backoff_initial]
    /\ hash = [n \in Node |-> 0]
    /\ in_flight = [n \in Node |-> {}]
    /\ confirmed = [n \in Node |-> FALSE]
    /\ loggedFailed = {}

Init ==
    /\ closed = 1
    /\ \E next \in [TaskIds -> {1, 2}], owner \in [TaskIds -> Owners] :
          view = [id \in TaskIds |-> [next_allowed_execution |-> next[id],
                                      designated_keeper |-> owner[id]]]
    /\ txs = << >>
    /\ EngineInit

\* Any ledger up to the latest one: the server may lag behind the network.
PollerStep(n) ==
    \/ "Ok" \in PollOutcomes /\ \E seq \in 1 .. closed : PollOk(n, seq)
    \/ "Transient" \in PollOutcomes /\ PollError(n)

Send(n, result, delivered) ==
    \/ result = "Ok" /\ SendAccepted(n, delivered)
    \/ result = "Ok" /\ \E i \in DOMAIN txs : SendDuplicate(n, i)
    \/ result = "Transient" /\ SendTransient(n, delivered)
    \/ result = "NonTransient" /\ SendRejected(n, delivered)

PipelineStep(n) ==
    \/ \E outcome \in SendOutcomes : Send(n, outcome[1], outcome[2])
    \/ BackoffElapsed(n)
    \/ Confirmed(n)
    \/ \E answer \in {"no_field", "result"} : ConfirmedFailed(n, answer)
    \/ ConfirmFailed(n)
    \/ Done(n)

DiscoveryStep(n) ==
    \/ Recv(n)
    \/ \E found \in {{}, ExecutableTasks(current_ledger[n])} : QueryOk(n, found)
    \/ QueryFailed(n)
    \/ \E t \in todo[n] : Skip(n, t)
    \/ \E t \in todo[n] : Dispatch(n, t)
    \/ EndCycle(n)
    \/ PipelineStep(n)

Next ==
    \/ \E n \in Node : PollerStep(n) \/ DiscoveryStep(n) \/ Restart(n)
    \/ \E ran \in SUBSET DOMAIN view, included, rejected \in SUBSET DOMAIN txs :
          LedgerCloses(ran, included, rejected)

Spec == Init /\ [][Next]_vars

\* Every await of the discovery loop ends: HTTP requests, queries and
\* confirmations have timeouts, sleeps elapse.
FairSpec == Spec /\ \A n \in Node : WF_vars(DiscoveryStep(n))

-----------------------------------------------------------------------------
(* Properties *)

\* Every variable of a node has its type, and a node that awaits a
\* confirmation holds the hash of a transaction the network knows.
TypeOK ==
    /\ closed \in 1 .. MaxLedger
    /\ \A i \in DOMAIN txs : txs[i].status \in TxStatus /\ txs[i].keeper \in Node
    /\ last_known_ledger \in [Node -> 0 .. MaxLedger]
    /\ failing \in [Node -> BOOLEAN]
    /\ pc \in [Node -> PC]
    /\ current_ledger \in [Node -> 0 .. MaxLedger]
    /\ todo \in [Node -> SUBSET RemoteTask]
    /\ role \in [Node -> Role]
    /\ attempt \in [Node -> 0 .. max_retries]
    /\ confirmed \in [Node -> BOOLEAN]
    /\ \A n \in Node : pc[n] = "confirm" => hash[n] \in DOMAIN txs

\* in_flight.rs: a task is in the in-flight set exactly while the pipeline works
\* on it.  A task left behind after an error would never be tried again.
InFlightExact ==
    \A n \in Node :
        in_flight[n] = IF pc[n] \in {"send", "backoff", "confirm", "done"}
                       THEN {task[n].id} ELSE {}

\* ledger_poller.rs: discovery sees each ledger at most once and in order,
\* whatever the RPC server answers and however far it falls behind.
LedgerEventsOrdered ==
    \A n \in Node :
        LET seen == <<current_ledger[n]>> \o channel[n]
        IN  /\ \A i, j \in DOMAIN seen : i < j => seen[i] < seen[j]
            /\ seen[Len(seen)] <= last_known_ledger[n]
            /\ last_known_ledger[n] <= closed

PowerOfTwo[k \in 0 .. max_retries] == IF k = 0 THEN 1 ELSE 2 * PowerOfTwo[k - 1]

\* execution_pipeline.rs and ledger_poller.rs: the delay before attempt k + 1
\* is the initial one doubled k times, up to the maximum, never beyond it.
BackoffBounded ==
    \A n \in Node :
        /\ backoff[n] = Least(retry_backoff_initial * PowerOfTwo[attempt[n]],
                              retry_backoff_max)
        /\ poll_backoff[n] \in retry_backoff_initial .. retry_backoff_max
        /\ ~failing[n] => poll_backoff[n] = retry_backoff_initial

\* health_server.rs: an execution is reported only if a transaction of this
\* node was included and succeeded.
ReportedExecutionReal ==
    \A n \in Node :
        confirmed[n] => \E i \in DOMAIN txs : txs[i].keeper = n /\ txs[i].status = "success"

\* The three values that health_server.rs reads change as EngineStatus promises:
\* whatever fails, is retried or restarts, the ledger counter only grows, one
\* task at a time is in flight, a confirmation is stored while its task is.
Status == INSTANCE EngineStatus

StatusKept == Status!StatusSpec

\* Every cycle of the discovery loop ends: the node works through all its tasks
\* and listens to ledger events again, whatever the RPC server does.
CycleTerminates == \A n \in Node : pc[n] # "recv" ~> pc[n] = "recv"

-----------------------------------------------------------------------------
(* Inductive invariants. *)

TaskView == [next_allowed_execution : Nat, designated_keeper : Owners]

Tx == [keeper : Node, id : TaskIds, role : Role, next : Nat, status : TxStatus]

\* The types of the variables that TypeOK leaves out, and what the pipeline holds
\* at each await: a task while it is at work, a ledger since it received one, the
\* hash of a transaction of its own, an attempt left while it waits for the next.
PipelineState ==
    /\ view \in [TaskIds -> TaskView]
    /\ txs \in Seq(Tx)
    /\ channel \in [Node -> Seq(Nat)]
    /\ poll_backoff \in [Node -> Nat] /\ backoff \in [Node -> Nat]
    /\ hash \in [Node -> Nat]
    /\ in_flight \in [Node -> SUBSET TaskIds]
    /\ task \in [Node -> RemoteTask \cup {NoTask}]
    /\ \A n \in Node :
          /\ pc[n] # "recv" => current_ledger[n] > 0
          /\ pc[n] \in {"send", "backoff", "confirm", "done"} => task[n] \in RemoteTask
          /\ pc[n] = "backoff" => attempt[n] < max_retries
          /\ pc[n] = "confirm" => txs[hash[n]].keeper = n

\* Events between a ledger that was handled and the latest one, in order.
Ordered(events, low, high) ==
    /\ low <= high
    /\ \A i \in 1 .. Len(events) : low < events[i] /\ events[i] <= high
    /\ \A i, j \in 1 .. Len(events) : i < j => events[i] < events[j]

EventsOrdered ==
    \A n \in Node : /\ Ordered(channel[n], current_ledger[n], last_known_ledger[n])
                    /\ last_known_ledger[n] <= closed

EngineInv ==
    TypeOK /\ PipelineState /\ InFlightExact /\ EventsOrdered /\ ReportedExecutionReal

-----------------------------------------------------------------------------
(* What comments of the code say and the code does not do. *)

\* rpc_client.rs:209: getTransaction is polled until the transaction is confirmed,
\* so a transaction logged as failed on-chain does not succeed afterwards.
LoggedFailuresFinal == \A i \in loggedFailed : txs[i].status # "success"
=============================================================================
