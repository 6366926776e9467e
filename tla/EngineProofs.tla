---------------------------- MODULE EngineProofs ----------------------------
(* What the Engine keeps true for every value of the constants. *)
EXTENDS Engine, SumProofs

USE EngineConstants

-----------------------------------------------------------------------------
(* Sequences of ledger events. *)

\* A newer event keeps the events in order.
LEMMA OrderedAppend ==
    ASSUME NEW events \in Seq(Nat), NEW low \in Nat, NEW high \in Nat, NEW seq \in Nat,
           Ordered(events, low, high), seq > high
    PROVE  Append(events, seq) \in Seq(Nat) /\ Ordered(Append(events, seq), low, seq)
<1>1. /\ Append(events, seq) \in Seq(Nat)
      /\ Len(Append(events, seq)) = Len(events) + 1
      /\ \A i \in 1 .. Len(events) : Append(events, seq)[i] = events[i]
      /\ Append(events, seq)[Len(events) + 1] = seq
    OBVIOUS
<1>2. \A i \in 1 .. Len(events) : events[i] \in Nat
    OBVIOUS
<1> QED
    BY <1>1, <1>2 DEF Ordered

\* The events after the first are in order, and newer than it.
LEMMA OrderedTail ==
    ASSUME NEW events \in Seq(Nat), NEW low \in Nat, NEW high \in Nat,
           Ordered(events, low, high), events # << >>
    PROVE  /\ Tail(events) \in Seq(Nat) /\ Head(events) \in Nat
           /\ low < Head(events)
           /\ Ordered(Tail(events), low, high)
           /\ Ordered(Tail(events), Head(events), high)
<1>1. /\ Tail(events) \in Seq(Nat) /\ Head(events) \in Nat
      /\ Len(events) > 0 /\ Head(events) = events[1]
      /\ Len(Tail(events)) = Len(events) - 1
      /\ \A i \in 1 .. Len(events) - 1 : Tail(events)[i] = events[i + 1]
    OBVIOUS
<1>2. \A i \in 1 .. Len(events) : events[i] \in Nat
    OBVIOUS
<1> QED
    BY <1>1, <1>2 DEF Ordered

\* What the channel holds after a newer ledger was broadcast is in order, whether
\* or not the oldest event was overwritten.
LEMMA OrderedBroadcast ==
    ASSUME NEW events \in Seq(Nat), NEW low \in Nat, NEW high \in Nat, NEW seq \in Nat,
           Ordered(events, low, high), seq > high
    PROVE  Broadcast(events, seq) \in Seq(Nat) /\ Ordered(Broadcast(events, seq), low, seq)
<1> DEFINE sent == Append(events, seq)
<1>1. sent \in Seq(Nat) /\ Ordered(sent, low, seq)
    BY OrderedAppend
<1>2. sent # << >>
    OBVIOUS
<1> HIDE DEF sent
<1>3. Tail(sent) \in Seq(Nat) /\ Ordered(Tail(sent), low, seq)
    BY <1>1, <1>2, OrderedTail
<1> QED
    BY <1>1, <1>3 DEF Broadcast, sent

-----------------------------------------------------------------------------
(* What the network knows of transactions. *)

\* Transactions keep their place and their sender, and a success is final.
TxsExtend ==
    /\ txs' \in Seq(Tx)
    /\ Len(txs) <= Len(txs')
    /\ \A i \in 1 .. Len(txs) :
          /\ txs'[i].keeper = txs[i].keeper
          /\ txs[i].status = "success" => txs'[i].status = "success"

\* A transaction the pipeline builds has its type.
LEMMA NewTxType ==
    ASSUME TypeOK, PipelineState, NEW n \in Node, NEW status \in TxStatus,
           pc[n] = "send"
    PROVE  NewTx(n, status) \in Tx
<1>1. task[n] \in RemoteTask /\ role[n] \in Role
    BY DEF TypeOK, PipelineState
<1> QED
    BY <1>1 DEF NewTx, Tx, RemoteTask

\* Transactions that stay are kept, and so are those that a send leaves behind.
LEMMA SendExtends ==
    ASSUME TypeOK, PipelineState, NEW n \in Node, pc[n] = "send",
           \/ txs' = txs
           \/ \E status \in TxStatus : txs' = Append(txs, NewTx(n, status))
    PROVE  TxsExtend
<1>1. txs \in Seq(Tx)
    BY DEF PipelineState
<1>2. CASE txs' = txs
    BY <1>1, <1>2 DEF TxsExtend
<1>3. ASSUME NEW status \in TxStatus, txs' = Append(txs, NewTx(n, status))
      PROVE  TxsExtend
    BY <1>1, <1>3, NewTxType DEF TxsExtend
<1> QED
    BY <1>2, <1>3

\* A ledger decides pending transactions alone, and moves tasks.
LEMMA CloseExtends ==
    ASSUME TypeOK, PipelineState, NEW ran, NEW included, NEW rejected,
           LedgerCloses(ran, included, rejected)
    PROVE  TxsExtend /\ view' \in [TaskIds -> TaskView]
<1>1. txs \in Seq(Tx) /\ view \in [TaskIds -> TaskView] /\ closed \in Nat
    BY DEF PipelineState, TypeOK
<1>2. DOMAIN txs = 1 .. Len(txs) /\ \A i \in 1 .. Len(txs) : txs[i] \in Tx
    BY <1>1
<1>3. \A i \in 1 .. Len(txs) :
         /\ txs'[i] \in Tx /\ txs'[i].keeper = txs[i].keeper
         /\ txs[i].status = "success" => txs'[i].status = "success"
    BY <1>2 DEF LedgerCloses, Tx, TxStatus
<1>4. DOMAIN txs' = 1 .. Len(txs) /\ txs' = [i \in 1 .. Len(txs) |-> txs'[i]]
    BY <1>2 DEF LedgerCloses
<1>5. txs' \in Seq(Tx) /\ Len(txs') = Len(txs)
    BY <1>1, <1>3, <1>4
<1>6. view' \in [TaskIds -> TaskView]
    <2>1. closed + 1 + Repeat \in Nat
        BY <1>1
    <2>2. ASSUME NEW v \in TaskView, NEW x \in Nat
          PROVE  [v EXCEPT !.next_allowed_execution = x] \in TaskView
        BY DEF TaskView
    <2> QED
        BY <1>1, <2>1, <2>2 DEF LedgerCloses
<1> QED
    BY <1>1, <1>3, <1>5, <1>6 DEF TxsExtend

-----------------------------------------------------------------------------
(* One lemma per action: what the pipeline holds, and what the node shares. *)

\* The role a task is classified for is one of the four.
LEMMA RoleType ==
    ASSUME NEW n, NEW t, NEW ledger
    PROVE  ClassifiedRole(n, t, ledger) \in Role
BY DEF ClassifiedRole, GraceRole, Role

\* A ledger that the RPC server names moves the counter and the channel alone.
LEMMA PollOkStep ==
    ASSUME EngineInv, NEW n \in Node, NEW seq \in 1 .. closed, PollOk(n, seq)
    PROVE  EngineInv'
<1> USE DEF EngineInv
<1>t. /\ closed \in Nat /\ closed <= MaxLedger
      /\ last_known_ledger \in [Node -> 0 .. MaxLedger]
      /\ current_ledger \in [Node -> 0 .. MaxLedger]
      /\ channel \in [Node -> Seq(Nat)] /\ poll_backoff \in [Node -> Nat]
      /\ failing \in [Node -> BOOLEAN]
    BY DEF TypeOK, PipelineState
<1>1. /\ failing' \in [Node -> BOOLEAN] /\ poll_backoff' \in [Node -> Nat]
    BY <1>t DEF PollOk
<1>2. CASE ~(seq > last_known_ledger[n])
    <2>1. UNCHANGED <<chain, last_known_ledger, channel, pc, current_ledger, todo, job, shared>>
        BY <1>2 DEF PollOk
    <2>2. TypeOK' /\ PipelineState'
        BY <1>1, <2>1 DEF TypeOK, PipelineState, chain, job, shared
    <2>3. InFlightExact' /\ EventsOrdered' /\ ReportedExecutionReal'
        BY <2>1 DEF InFlightExact, EventsOrdered, ReportedExecutionReal, chain, job, shared
    <2> QED
        BY <2>2, <2>3
<1>3. CASE seq > last_known_ledger[n]
    <2>1. /\ last_known_ledger' = [last_known_ledger EXCEPT ![n] = seq]
          /\ channel' = [channel EXCEPT ![n] = Broadcast(channel[n], seq)]
          /\ UNCHANGED <<chain, pc, current_ledger, todo, job, shared>>
        BY <1>3 DEF PollOk
    <2>2. /\ Broadcast(channel[n], seq) \in Seq(Nat)
          /\ Ordered(Broadcast(channel[n], seq), current_ledger[n], seq)
        BY <1>t, <1>3, OrderedBroadcast DEF EventsOrdered
    <2>3. /\ last_known_ledger' \in [Node -> 0 .. MaxLedger]
          /\ channel' \in [Node -> Seq(Nat)]
        BY <1>t, <2>1, <2>2
    <2>4. TypeOK' /\ PipelineState'
        BY <1>1, <2>1, <2>3 DEF TypeOK, PipelineState, chain, job, shared
    <2>5. EventsOrdered'
        BY <1>t, <2>1, <2>2 DEF EventsOrdered, chain
    <2>6. InFlightExact' /\ ReportedExecutionReal'
        BY <2>1 DEF InFlightExact, ReportedExecutionReal, chain, job, shared
    <2> QED
        BY <2>4, <2>5, <2>6
<1> QED
    BY <1>2, <1>3

\* The pipeline of a node that goes from one idle state to another keeps what it
\* shares exact.
LEMMA IdleKept ==
    ASSUME InFlightExact, ReportedExecutionReal, NEW n \in Node, pc \in [Node -> PC],
           NEW p \in {"recv", "query", "classify"}, pc[n] \in {"recv", "query", "classify"},
           pc' = [pc EXCEPT ![n] = p],
           txs' = txs, task' = task, in_flight' = in_flight, confirmed' = confirmed
    PROVE  InFlightExact' /\ ReportedExecutionReal'
<1>1. ReportedExecutionReal'
    BY DEF ReportedExecutionReal
<1>2. ASSUME NEW m \in Node
      PROVE  pc'[m] \in {"send", "backoff", "confirm", "done"}
               <=> pc[m] \in {"send", "backoff", "confirm", "done"}
    BY <1>2
<1>3. InFlightExact'
    BY <1>2, Zenon DEF InFlightExact
<1> QED
    BY <1>1, <1>3

\* A failed poll changes the poller's delay alone.
LEMMA PollErrorStep ==
    ASSUME EngineInv, NEW n \in Node, PollError(n)
    PROVE  EngineInv'
<1> USE DEF EngineInv
<1>1. failing' \in [Node -> BOOLEAN] /\ poll_backoff' \in [Node -> Nat]
    <2>1. failing \in [Node -> BOOLEAN] /\ poll_backoff \in [Node -> Nat]
        BY DEF TypeOK, PipelineState
    <2> QED
        BY <2>1 DEF PollError, NextBackoff, Least
<1>2. UNCHANGED <<chain, last_known_ledger, channel, pc, current_ledger, todo, job, shared>>
    BY DEF PollError
<1>3. TypeOK' /\ PipelineState'
    BY <1>1, <1>2 DEF TypeOK, PipelineState, chain, job, shared
<1>4. InFlightExact' /\ EventsOrdered' /\ ReportedExecutionReal'
    BY <1>2 DEF InFlightExact, EventsOrdered, ReportedExecutionReal, chain, job, shared
<1> QED
    BY <1>3, <1>4

\* The event that is received is newer than the one before.
LEMMA RecvStep ==
    ASSUME EngineInv, NEW n \in Node, Recv(n)
    PROVE  EngineInv'
<1> USE DEF EngineInv
<1>t. /\ last_known_ledger \in [Node -> 0 .. MaxLedger]
      /\ current_ledger \in [Node -> 0 .. MaxLedger]
      /\ channel \in [Node -> Seq(Nat)] /\ pc \in [Node -> PC]
    BY DEF TypeOK, PipelineState
<1>1. /\ pc[n] = "recv" /\ channel[n] # << >>
      /\ current_ledger' = [current_ledger EXCEPT ![n] = Head(channel[n])]
      /\ channel' = [channel EXCEPT ![n] = Tail(channel[n])]
      /\ pc' = [pc EXCEPT ![n] = "query"]
      /\ UNCHANGED <<chain, poller, todo, job, shared>>
    BY DEF Recv
<1>2. /\ Tail(channel[n]) \in Seq(Nat) /\ Head(channel[n]) \in Nat
      /\ current_ledger[n] < Head(channel[n])
      /\ Ordered(Tail(channel[n]), Head(channel[n]), last_known_ledger[n])
    BY <1>t, <1>1, OrderedTail DEF EventsOrdered
<1>3. Head(channel[n]) \in 1 .. MaxLedger
    BY <1>t, <1>2 DEF Ordered
<1>4. /\ current_ledger' \in [Node -> 0 .. MaxLedger] /\ channel' \in [Node -> Seq(Nat)]
      /\ pc' \in [Node -> PC]
    BY <1>t, <1>1, <1>2, <1>3 DEF PC
<1>5. TypeOK'
    BY <1>1, <1>4 DEF TypeOK, chain, poller, job, shared
<1>6. PipelineState'
    BY <1>t, <1>1, <1>3, <1>4, SMTT(30) DEF PipelineState, chain, poller, job, shared
<1>7. EventsOrdered'
    BY <1>t, <1>1, <1>2 DEF EventsOrdered, chain, poller
<1>8. InFlightExact' /\ ReportedExecutionReal'
    BY <1>t, <1>1, IdleKept, Zenon DEF chain, job, shared
<1> QED
    BY <1>5, <1>6, <1>7, <1>8

\* A query answers with tasks, an empty answer among them.
LEMMA QueryOkStep ==
    ASSUME EngineInv, NEW n \in Node, NEW found \in SUBSET RemoteTask, QueryOk(n, found)
    PROVE  EngineInv'
<1> USE DEF EngineInv
<1>t. pc \in [Node -> PC] /\ todo \in [Node -> SUBSET RemoteTask]
    BY DEF TypeOK
<1>1. /\ pc[n] = "query"
      /\ pc' = [pc EXCEPT ![n] = "classify"] /\ todo' = [todo EXCEPT ![n] = found]
      /\ UNCHANGED <<chain, poller, channel, current_ledger, job, shared>>
    BY DEF QueryOk
<1>2. pc' \in [Node -> PC] /\ todo' \in [Node -> SUBSET RemoteTask]
    BY <1>t, <1>1 DEF PC
<1>3. TypeOK' /\ EventsOrdered'
    BY <1>t, <1>1, <1>2 DEF TypeOK, EventsOrdered, chain, poller, job, shared
<1>4. PipelineState'
    BY <1>t, <1>1 DEF PipelineState, chain, poller, job, shared
<1>5. InFlightExact' /\ ReportedExecutionReal'
    BY <1>t, <1>1, IdleKept, Zenon DEF chain, job, shared
<1> QED
    BY <1>3, <1>4, <1>5

\* A query that fails, and the end of a cycle, lead back to the channel.
LEMMA BackToRecvStep ==
    ASSUME EngineInv, NEW n \in Node, QueryFailed(n) \/ EndCycle(n)
    PROVE  EngineInv'
<1> USE DEF EngineInv
<1>t. pc \in [Node -> PC]
    BY DEF TypeOK
<1>1. /\ pc[n] \in {"query", "classify"} /\ pc' = [pc EXCEPT ![n] = "recv"]
      /\ UNCHANGED <<chain, poller, channel, current_ledger, todo, job, shared>>
    BY DEF QueryFailed, EndCycle
<1>2. pc' \in [Node -> PC]
    BY <1>t, <1>1 DEF PC
<1>3. TypeOK' /\ EventsOrdered'
    BY <1>t, <1>1, <1>2 DEF TypeOK, EventsOrdered, chain, poller, job, shared
<1>4. PipelineState'
    BY <1>t, <1>1 DEF PipelineState, chain, poller, job, shared
<1>5. InFlightExact' /\ ReportedExecutionReal'
    BY <1>t, <1>1, IdleKept, Zenon DEF chain, job, shared
<1> QED
    BY <1>3, <1>4, <1>5

\* A task without a role is passed over.
LEMMA SkipStep ==
    ASSUME EngineInv, NEW n \in Node, NEW t \in todo[n], Skip(n, t)
    PROVE  EngineInv'
<1> USE DEF EngineInv
<1>1. UNCHANGED <<chain, poller, channel, pc, current_ledger, job, shared>>
    BY DEF Skip
<1>2. todo' \in [Node -> SUBSET RemoteTask]
    BY DEF Skip, TypeOK
<1>3. TypeOK' /\ EventsOrdered'
    BY <1>1, <1>2 DEF TypeOK, EventsOrdered, chain, poller, job, shared
<1>4. PipelineState' /\ InFlightExact' /\ ReportedExecutionReal'
    BY <1>1 DEF PipelineState, InFlightExact, ReportedExecutionReal, chain, poller, job, shared
<1> QED
    BY <1>3, <1>4

\* A task that is dispatched is the only one in flight.
LEMMA DispatchStep ==
    ASSUME EngineInv, NEW n \in Node, NEW t \in todo[n], Dispatch(n, t)
    PROVE  EngineInv'
<1> USE DEF EngineInv
<1>t. /\ pc \in [Node -> PC] /\ todo \in [Node -> SUBSET RemoteTask]
      /\ role \in [Node -> Role] /\ attempt \in [Node -> 0 .. max_retries]
      /\ backoff \in [Node -> Nat] /\ in_flight \in [Node -> SUBSET TaskIds]
      /\ task \in [Node -> RemoteTask \cup {NoTask}]
    BY DEF TypeOK, PipelineState
<1>1. /\ pc[n] = "classify" /\ pc' = [pc EXCEPT ![n] = "send"]
      /\ todo' = [todo EXCEPT ![n] = todo[n] \ {t}]
      /\ in_flight' = [in_flight EXCEPT ![n] = in_flight[n] \cup {t.id}]
      /\ task' = [task EXCEPT ![n] = t]
      /\ attempt' = [attempt EXCEPT ![n] = 0]
      /\ backoff' = [backoff EXCEPT ![n] = retry_backoff_initial]
      /\ UNCHANGED <<chain, poller, channel, current_ledger, hash, confirmed, loggedFailed>>
    BY DEF Dispatch, insert
<1>2. role' \in [Node -> Role]
    BY <1>t, RoleType DEF Dispatch
<1>3. t \in RemoteTask /\ t.id \in TaskIds
    BY <1>t DEF RemoteTask
<1>4. in_flight[n] = {}
    BY <1>1 DEF InFlightExact
<1>5. /\ pc' \in [Node -> PC] /\ todo' \in [Node -> SUBSET RemoteTask]
      /\ attempt' \in [Node -> 0 .. max_retries] /\ backoff' \in [Node -> Nat]
      /\ in_flight' \in [Node -> SUBSET TaskIds]
      /\ task' \in [Node -> RemoteTask \cup {NoTask}]
    BY <1>t, <1>1, <1>3 DEF PC
<1>6. TypeOK' /\ EventsOrdered'
    BY <1>t, <1>1, <1>2, <1>5 DEF TypeOK, EventsOrdered, chain, poller
<1>7. PipelineState'
    BY <1>t, <1>1, <1>3, <1>5 DEF PipelineState, chain, poller
<1>8. ReportedExecutionReal'
    BY <1>1 DEF ReportedExecutionReal, chain
<1>9. InFlightExact'
    <2>1. pc'[n] = "send" /\ task'[n] = t /\ in_flight'[n] = {t.id}
        BY <1>t, <1>1, <1>4
    <2>2. \A m \in Node : m # n =>
             pc'[m] = pc[m] /\ task'[m] = task[m] /\ in_flight'[m] = in_flight[m]
        BY <1>t, <1>1
    <2> QED
        BY <2>1, <2>2 DEF InFlightExact
<1> QED
    BY <1>6, <1>7, <1>8, <1>9

-----------------------------------------------------------------------------
(* Steps of a dispatch. *)

Busy == {"send", "backoff", "confirm", "done"}

\* A step that goes on with the task: to p, one of the awaits of a dispatch.
Waiting(n, p) ==
    /\ pc[n] \in Busy /\ p \in Busy /\ pc' = [pc EXCEPT ![n] = p]
    /\ TxsExtend
    /\ \A m \in Node : m # n => attempt'[m] = attempt[m] /\ hash'[m] = hash[m]
    /\ attempt' \in [Node -> 0 .. max_retries] /\ backoff' \in [Node -> Nat]
    /\ hash' \in [Node -> Nat]
    /\ p = "backoff" => attempt'[n] < max_retries
    /\ p = "confirm" => hash'[n] \in 1 .. Len(txs') /\ txs'[hash'[n]].keeper = n
    /\ UNCHANGED <<closed, view, poller, channel, current_ledger, todo, task, role, in_flight>>

\* Such a step keeps the task in flight.
LEMMA WaitingStep ==
    ASSUME EngineInv, NEW n \in Node, NEW p, Waiting(n, p),
           confirmed' \in [Node -> BOOLEAN], ReportedExecutionReal'
    PROVE  EngineInv'
<1> USE DEF EngineInv
<1>t. /\ pc \in [Node -> PC] /\ hash \in [Node -> Nat] /\ attempt \in [Node -> 0 .. max_retries]
      /\ txs \in Seq(Tx) /\ DOMAIN txs = 1 .. Len(txs)
    BY DEF TypeOK, PipelineState
<1>1. /\ txs' \in Seq(Tx) /\ DOMAIN txs' = 1 .. Len(txs') /\ Len(txs) <= Len(txs')
      /\ \A i \in 1 .. Len(txs) : txs'[i].keeper = txs[i].keeper
    BY DEF Waiting, TxsExtend
<1>2. \A i \in 1 .. Len(txs') : txs'[i].status \in TxStatus /\ txs'[i].keeper \in Node
    <2>1. \A i \in 1 .. Len(txs') : txs'[i] \in Tx
        BY <1>1
    <2> QED
        BY <2>1 DEF Tx
<1>3. /\ pc' \in [Node -> PC] /\ pc[n] \in Busy /\ pc'[n] = p /\ p \in Busy
      /\ \A m \in Node : m # n => pc'[m] = pc[m]
    BY <1>t DEF Waiting, PC, Busy
<1>4. \A m \in Node : pc'[m] = "confirm" => hash'[m] \in 1 .. Len(txs') /\ txs'[hash'[m]].keeper = m
    <2> SUFFICES ASSUME NEW m \in Node, m # n, pc'[m] = "confirm"
                 PROVE  hash'[m] \in 1 .. Len(txs') /\ txs'[hash'[m]].keeper = m
        BY <1>3 DEF Waiting
    <2>1. hash'[m] = hash[m] /\ hash[m] \in 1 .. Len(txs) /\ txs[hash[m]].keeper = m
        BY <1>t, <1>3 DEF Waiting, TypeOK, PipelineState
    <2> QED
        BY <1>1, <1>t, <2>1
<1>5. TypeOK'
    BY <1>1, <1>2, <1>3, <1>4 DEF TypeOK, Waiting, poller
<1>6. PipelineState'
    <2>1. \A m \in Node : /\ pc'[m] # "recv" => current_ledger[m] > 0
                          /\ pc'[m] \in Busy => task[m] \in RemoteTask
                          /\ pc'[m] = "backoff" => attempt'[m] < max_retries
        BY <1>3 DEF PipelineState, Waiting, Busy
    <2> QED
        BY <1>1, <1>4, <2>1 DEF PipelineState, Waiting, poller, Busy
<1>7. InFlightExact' /\ EventsOrdered'
    BY <1>3 DEF InFlightExact, EventsOrdered, Waiting, poller, Busy
<1> QED
    BY <1>5, <1>6, <1>7

\* Reports stay backed by transactions that succeeded.
LEMMA ReportsKept ==
    ASSUME EngineInv, TxsExtend, \A n \in Node : confirmed'[n] => confirmed[n]
    PROVE  ReportedExecutionReal'
<1>1. /\ txs \in Seq(Tx) /\ txs' \in Seq(Tx)
      /\ DOMAIN txs = 1 .. Len(txs) /\ DOMAIN txs' = 1 .. Len(txs')
    BY DEF EngineInv, PipelineState, TxsExtend
<1> SUFFICES ASSUME NEW n \in Node, confirmed'[n]
             PROVE  \E i \in DOMAIN txs' : txs'[i].keeper = n /\ txs'[i].status = "success"
    BY DEF ReportedExecutionReal
<1>2. PICK i \in DOMAIN txs : txs[i].keeper = n /\ txs[i].status = "success"
    BY DEF EngineInv, ReportedExecutionReal
<1>3. i \in DOMAIN txs' /\ txs'[i].keeper = n /\ txs'[i].status = "success"
    BY <1>1, <1>2 DEF TxsExtend
<1> QED
    BY <1>3

\* A send that is answered with a hash waits for that transaction.
LEMMA SendAcceptedStep ==
    ASSUME EngineInv, NEW n \in Node, NEW delivered, SendAccepted(n, delivered)
    PROVE  EngineInv'
<1> DEFINE tx == NewTx(n, IF delivered THEN "pending" ELSE "lost")
<1>t. /\ TypeOK /\ PipelineState /\ txs \in Seq(Tx) /\ hash \in [Node -> Nat]
      /\ attempt \in [Node -> 0 .. max_retries] /\ backoff \in [Node -> Nat]
      /\ confirmed \in [Node -> BOOLEAN]
    BY DEF EngineInv, TypeOK, PipelineState
<1>1. /\ pc[n] = "send" /\ txs' = Append(txs, tx)
      /\ hash' = [hash EXCEPT ![n] = Len(txs) + 1] /\ pc' = [pc EXCEPT ![n] = "confirm"]
      /\ UNCHANGED <<closed, view, poller, channel, current_ledger, todo, task, role,
                     attempt, backoff, shared>>
    BY DEF SendAccepted
<1>2. TxsExtend
    BY <1>t, <1>1, SendExtends DEF TxStatus
<1>3. tx.keeper = n
    BY DEF NewTx
<1> HIDE DEF tx
<1>4. Len(txs') = Len(txs) + 1 /\ txs'[Len(txs) + 1] = tx
    BY <1>t, <1>1
<1>5. /\ hash' \in [Node -> Nat] /\ hash'[n] = Len(txs) + 1
      /\ \A m \in Node : m # n => hash'[m] = hash[m]
    BY <1>t, <1>1
<1>6. hash'[n] \in 1 .. Len(txs') /\ txs'[hash'[n]].keeper = n
    BY <1>t, <1>3, <1>4, <1>5
<1>7. Waiting(n, "confirm")
    <2>1. /\ attempt' \in [Node -> 0 .. max_retries] /\ backoff' \in [Node -> Nat]
          /\ \A m \in Node : m # n => attempt'[m] = attempt[m]
        BY <1>t, <1>1
    <2>2. "send" \in Busy /\ "confirm" \in Busy
        BY DEF Busy
    <2> QED
        BY <1>1, <1>2, <1>5, <1>6, <2>1, <2>2 DEF Waiting, shared
<1>8. confirmed' = confirmed
    BY <1>1 DEF shared
<1> QED
    BY <1>t, <1>2, <1>7, <1>8, WaitingStep, ReportsKept

\* So does one that the network takes for a transaction it has seen: the same
\* envelope comes from the same node.
LEMMA SendDuplicateStep ==
    ASSUME EngineInv, NEW n \in Node, NEW i \in DOMAIN txs, SendDuplicate(n, i)
    PROVE  EngineInv'
<1>t. /\ TypeOK /\ PipelineState /\ txs \in Seq(Tx) /\ hash \in [Node -> Nat]
      /\ attempt \in [Node -> 0 .. max_retries] /\ backoff \in [Node -> Nat]
      /\ confirmed \in [Node -> BOOLEAN]
    BY DEF EngineInv, TypeOK, PipelineState
<1>1. /\ pc[n] = "send"
      /\ hash' = [hash EXCEPT ![n] = i] /\ pc' = [pc EXCEPT ![n] = "confirm"]
      /\ UNCHANGED <<chain, poller, channel, current_ledger, todo, task, role,
                     attempt, backoff, shared>>
    BY DEF SendDuplicate
<1>2. TxsExtend
    BY <1>t, <1>1, SendExtends DEF chain
<1>3. txs[i].keeper = n
    BY DEF SendDuplicate, Envelope, NewTx
<1>4. Waiting(n, "confirm")
    <2>1. /\ attempt' \in [Node -> 0 .. max_retries] /\ backoff' \in [Node -> Nat]
          /\ hash' \in [Node -> Nat] /\ hash'[n] = i /\ i \in 1 .. Len(txs)
          /\ \A m \in Node : m # n => attempt'[m] = attempt[m] /\ hash'[m] = hash[m]
        BY <1>t, <1>1
    <2>2. closed' = closed /\ view' = view /\ txs' = txs
        BY <1>1 DEF chain
    <2>3. "send" \in Busy /\ "confirm" \in Busy
        BY DEF Busy
    <2> QED
        BY <1>1, <1>2, <1>3, <2>1, <2>2, <2>3 DEF Waiting, shared
<1>5. confirmed' = confirmed
    BY <1>1 DEF shared
<1> QED
    BY <1>t, <1>2, <1>4, <1>5, WaitingStep, ReportsKept

\* A send that fails for now, with attempts left, waits before the next one.
LEMMA SendRetryStep ==
    ASSUME EngineInv, NEW n \in Node, pc[n] = "send", TxsExtend, attempt[n] # max_retries,
           pc' = [pc EXCEPT ![n] = "backoff"],
           UNCHANGED <<closed, view, poller, channel, current_ledger, todo, in_flight, job,
                       confirmed>>
    PROVE  EngineInv'
<1>t. /\ attempt \in [Node -> 0 .. max_retries] /\ backoff \in [Node -> Nat]
      /\ hash \in [Node -> Nat] /\ confirmed \in [Node -> BOOLEAN]
    BY DEF EngineInv, TypeOK, PipelineState
<1>1. /\ task' = task /\ role' = role /\ attempt' = attempt /\ backoff' = backoff
      /\ hash' = hash /\ confirmed' = confirmed
    BY DEF job
<1>2. attempt[n] < max_retries
    BY <1>t
<1>3. Waiting(n, "backoff")
    BY <1>t, <1>1, <1>2 DEF Waiting, Busy
<1> QED
    BY <1>t, <1>1, <1>3, WaitingStep, ReportsKept

\* After the wait the next attempt is counted, and none beyond the last.
LEMMA BackoffElapsedStep ==
    ASSUME EngineInv, NEW n \in Node, BackoffElapsed(n)
    PROVE  EngineInv'
<1>t. /\ attempt \in [Node -> 0 .. max_retries] /\ backoff \in [Node -> Nat]
      /\ hash \in [Node -> Nat] /\ confirmed \in [Node -> BOOLEAN] /\ txs \in Seq(Tx)
    BY DEF EngineInv, TypeOK, PipelineState
<1>1. /\ pc[n] = "backoff" /\ pc' = [pc EXCEPT ![n] = "send"]
      /\ attempt' = [attempt EXCEPT ![n] = attempt[n] + 1]
      /\ backoff' = [backoff EXCEPT ![n] = NextBackoff(backoff[n])]
      /\ UNCHANGED <<chain, poller, channel, current_ledger, todo, task, role, hash, shared>>
    BY DEF BackoffElapsed
<1>2. attempt[n] < max_retries
    BY <1>1 DEF EngineInv, PipelineState
<1>3. NextBackoff(backoff[n]) \in Nat
    BY <1>t DEF NextBackoff, Least
<1>4. /\ attempt' \in [Node -> 0 .. max_retries] /\ backoff' \in [Node -> Nat]
      /\ \A m \in Node : m # n => attempt'[m] = attempt[m]
    BY <1>t, <1>1, <1>2, <1>3
<1>5. /\ closed' = closed /\ view' = view /\ txs' = txs /\ hash' = hash
      /\ in_flight' = in_flight /\ confirmed' = confirmed
    BY <1>1 DEF chain, shared
<1>6. TxsExtend
    BY <1>t, <1>5 DEF TxsExtend
<1>7. Waiting(n, "send")
    BY <1>t, <1>1, <1>4, <1>5, <1>6 DEF Waiting, Busy
<1> QED
    BY <1>t, <1>5, <1>6, <1>7, WaitingStep, ReportsKept

\* A confirmation is stored only when the node's own transaction succeeded.
LEMMA ConfirmedStep ==
    ASSUME EngineInv, NEW n \in Node, Confirmed(n)
    PROVE  EngineInv'
<1>t. /\ attempt \in [Node -> 0 .. max_retries] /\ backoff \in [Node -> Nat]
      /\ hash \in [Node -> Nat] /\ confirmed \in [Node -> BOOLEAN] /\ txs \in Seq(Tx)
    BY DEF EngineInv, TypeOK, PipelineState
<1>1. /\ pc[n] = "confirm" /\ pc' = [pc EXCEPT ![n] = "done"]
      /\ confirmed' = [confirmed EXCEPT ![n] = TRUE]
      /\ UNCHANGED <<chain, poller, channel, current_ledger, todo, job, in_flight>>
    BY DEF Confirmed
<1>2. /\ txs[hash[n]].status = "success" /\ hash[n] \in DOMAIN txs
      /\ txs[hash[n]].keeper = n
    BY <1>1 DEF Confirmed, get_transaction, call, EngineInv, TypeOK, PipelineState
<1>3. /\ closed' = closed /\ view' = view /\ txs' = txs /\ hash' = hash
      /\ task' = task /\ role' = role /\ attempt' = attempt /\ backoff' = backoff
    BY <1>1 DEF chain, job
<1>4. TxsExtend
    BY <1>t, <1>3 DEF TxsExtend
<1>5. Waiting(n, "done")
    BY <1>t, <1>1, <1>3, <1>4 DEF Waiting, Busy
<1>6. confirmed' \in [Node -> BOOLEAN]
    BY <1>t, <1>1
<1>7. ReportedExecutionReal'
    BY <1>t, <1>1, <1>2, <1>3 DEF EngineInv, ReportedExecutionReal
<1> QED
    BY <1>5, <1>6, <1>7, WaitingStep

\* A dispatch that ends, for whatever reason, leaves nothing in flight.
LEMMA FinishStep ==
    ASSUME EngineInv, NEW n \in Node, pc[n] \in Busy, FinishDispatch(n), TxsExtend,
           UNCHANGED <<closed, view, poller, channel, current_ledger, todo, confirmed>>
    PROVE  EngineInv'
<1> USE DEF EngineInv
<1>t. /\ pc \in [Node -> PC] /\ hash \in [Node -> Nat] /\ attempt \in [Node -> 0 .. max_retries]
      /\ backoff \in [Node -> Nat] /\ role \in [Node -> Role]
      /\ task \in [Node -> RemoteTask \cup {NoTask}] /\ in_flight \in [Node -> SUBSET TaskIds]
      /\ txs \in Seq(Tx) /\ DOMAIN txs = 1 .. Len(txs)
    BY DEF TypeOK, PipelineState
<1>1. /\ txs' \in Seq(Tx) /\ DOMAIN txs' = 1 .. Len(txs') /\ Len(txs) <= Len(txs')
      /\ \A i \in 1 .. Len(txs) : txs'[i].keeper = txs[i].keeper
    BY DEF TxsExtend
<1>2. \A i \in 1 .. Len(txs') : txs'[i].status \in TxStatus /\ txs'[i].keeper \in Node
    <2>1. \A i \in 1 .. Len(txs') : txs'[i] \in Tx
        BY <1>1
    <2> QED
        BY <2>1 DEF Tx
<1>3. /\ pc' \in [Node -> PC] /\ pc'[n] = "classify"
      /\ \A m \in Node : m # n => pc'[m] = pc[m] /\ hash'[m] = hash[m]
                                  /\ task'[m] = task[m] /\ attempt'[m] = attempt[m]
                                  /\ in_flight'[m] = in_flight[m]
    BY <1>t DEF FinishDispatch, remove, PC
<1>4. /\ hash' \in [Node -> Nat] /\ attempt' \in [Node -> 0 .. max_retries]
      /\ backoff' \in [Node -> Nat] /\ role' \in [Node -> Role]
      /\ task' \in [Node -> RemoteTask \cup {NoTask}] /\ in_flight' \in [Node -> SUBSET TaskIds]
    BY <1>t DEF FinishDispatch, remove, Role
<1>5. \A m \in Node : pc'[m] = "confirm" => hash'[m] \in 1 .. Len(txs') /\ txs'[hash'[m]].keeper = m
    <2> SUFFICES ASSUME NEW m \in Node, m # n, pc'[m] = "confirm"
                 PROVE  hash'[m] \in 1 .. Len(txs') /\ txs'[hash'[m]].keeper = m
        BY <1>3
    <2>1. hash'[m] = hash[m] /\ hash[m] \in 1 .. Len(txs) /\ txs[hash[m]].keeper = m
        BY <1>t, <1>3 DEF TypeOK, PipelineState
    <2> QED
        BY <1>1, <1>t, <2>1
<1>6. TypeOK'
    BY <1>1, <1>2, <1>3, <1>4, <1>5 DEF TypeOK, poller
<1>7. PipelineState'
    <2>1. \A m \in Node : /\ pc'[m] # "recv" => current_ledger[m] > 0
                          /\ pc'[m] \in Busy => task'[m] \in RemoteTask
                          /\ pc'[m] = "backoff" => attempt'[m] < max_retries
        BY <1>3 DEF PipelineState, Busy
    <2> QED
        BY <1>1, <1>4, <1>5, <2>1 DEF PipelineState, poller, Busy
<1>8. in_flight'[n] = {}
    BY <1>t DEF FinishDispatch, remove, InFlightExact, Busy
<1>9. InFlightExact'
    BY <1>3, <1>8 DEF InFlightExact
<1>10. EventsOrdered'
    BY DEF EventsOrdered, poller
<1> QED
    BY <1>6, <1>7, <1>9, <1>10, ReportsKept

\* Transactions that nobody touches are kept.
LEMMA SameTxs ==
    ASSUME EngineInv, txs' = txs
    PROVE  TxsExtend
<1>1. txs \in Seq(Tx)
    BY DEF EngineInv, PipelineState
<1> QED
    BY <1>1 DEF TxsExtend

\* A send that fails leaves at most one transaction behind.
LEMMA DeliveredExtends ==
    ASSUME EngineInv, NEW n \in Node, NEW delivered, pc[n] = "send", Delivered(n, delivered)
    PROVE  TxsExtend
<1>1. \/ txs' = txs
      \/ \E status \in TxStatus : txs' = Append(txs, NewTx(n, status))
    BY DEF Delivered, TxStatus
<1> QED
    BY <1>1, SendExtends DEF EngineInv

\* A transient error ends the dispatch after the last attempt, and only then.
LEMMA SendTransientStep ==
    ASSUME EngineInv, NEW n \in Node, NEW delivered, SendTransient(n, delivered)
    PROVE  EngineInv'
<1>1. pc[n] = "send" /\ Delivered(n, delivered)
    BY DEF SendTransient
<1>2. TxsExtend
    BY <1>1, DeliveredExtends
<1>3. UNCHANGED <<closed, view, poller, channel, current_ledger, todo, confirmed>>
    BY DEF SendTransient
<1>4. CASE attempt[n] = max_retries
    <2>1. FinishDispatch(n)
        BY <1>4 DEF SendTransient
    <2> QED
        BY <1>1, <1>2, <1>3, <2>1, FinishStep DEF Busy
<1>5. CASE attempt[n] # max_retries
    <2>1. pc' = [pc EXCEPT ![n] = "backoff"] /\ UNCHANGED <<in_flight, job>>
        BY <1>5 DEF SendTransient
    <2> QED
        BY <1>1, <1>2, <1>3, <1>5, <2>1, SendRetryStep
<1> QED
    BY <1>4, <1>5

\* A rejection ends the dispatch.
LEMMA SendRejectedStep ==
    ASSUME EngineInv, NEW n \in Node, NEW delivered, SendRejected(n, delivered)
    PROVE  EngineInv'
<1>1. /\ pc[n] = "send" /\ Delivered(n, delivered) /\ FinishDispatch(n)
      /\ UNCHANGED <<closed, view, poller, channel, current_ledger, todo, confirmed>>
    BY DEF SendRejected
<1>2. TxsExtend
    BY <1>1, DeliveredExtends
<1> QED
    BY <1>1, <1>2, FinishStep DEF Busy

\* So does the end of the wait for a confirmation, whatever it brought.
LEMMA WaitEndsStep ==
    ASSUME EngineInv, NEW n \in Node,
           \/ Done(n) \/ ConfirmFailed(n)
           \/ \E answer \in {"no_field", "result"} : ConfirmedFailed(n, answer)
    PROVE  EngineInv'
<1>1. /\ pc[n] \in Busy /\ FinishDispatch(n) /\ UNCHANGED chain
      /\ UNCHANGED <<poller, channel, current_ledger, todo, confirmed>>
    BY DEF Done, ConfirmFailed, ConfirmedFailed, Busy
<1>2. closed' = closed /\ view' = view /\ txs' = txs
    BY <1>1 DEF chain
<1>3. TxsExtend
    BY <1>2, SameTxs
<1> QED
    BY <1>1, <1>2, <1>3, FinishStep

\* A new process starts with nothing; what its predecessor sent stays sent.
LEMMA RestartStep ==
    ASSUME EngineInv, NEW n \in Node, Restart(n)
    PROVE  EngineInv'
<1> USE DEF EngineInv
<1>1. closed' = closed /\ view' = view /\ txs' = txs
    BY DEF Restart, chain
<1>2. TypeOK'
    <2>1. /\ last_known_ledger' \in [Node -> 0 .. MaxLedger]
          /\ failing' \in [Node -> BOOLEAN] /\ pc' \in [Node -> PC]
          /\ current_ledger' \in [Node -> 0 .. MaxLedger]
          /\ todo' \in [Node -> SUBSET RemoteTask] /\ role' \in [Node -> Role]
          /\ attempt' \in [Node -> 0 .. max_retries] /\ confirmed' \in [Node -> BOOLEAN]
        BY DEF Restart, TypeOK, PC, Role
    <2>2. \A m \in Node : pc'[m] = "confirm" => pc[m] = "confirm" /\ hash'[m] = hash[m]
        BY DEF Restart, TypeOK, PipelineState
    <2> QED
        BY <1>1, <2>1, <2>2 DEF TypeOK
<1>3. PipelineState'
    <2>1. /\ channel' \in [Node -> Seq(Nat)] /\ poll_backoff' \in [Node -> Nat]
          /\ backoff' \in [Node -> Nat] /\ hash' \in [Node -> Nat]
          /\ in_flight' \in [Node -> SUBSET TaskIds]
          /\ task' \in [Node -> RemoteTask \cup {NoTask}]
        BY DEF Restart, PipelineState
    <2>2. /\ pc'[n] = "recv"
          /\ \A m \in Node : m # n =>
                /\ pc'[m] = pc[m] /\ current_ledger'[m] = current_ledger[m]
                /\ task'[m] = task[m] /\ attempt'[m] = attempt[m] /\ hash'[m] = hash[m]
        BY DEF Restart, TypeOK, PipelineState
    <2> QED
        BY <1>1, <2>1, <2>2 DEF PipelineState
<1>4. InFlightExact'
    BY DEF Restart, TypeOK, PipelineState, InFlightExact
<1>5. EventsOrdered'
    <2>1. /\ channel'[n] = << >> /\ current_ledger'[n] = 0 /\ last_known_ledger'[n] = 0
          /\ \A m \in Node : m # n => /\ channel'[m] = channel[m]
                                      /\ current_ledger'[m] = current_ledger[m]
                                      /\ last_known_ledger'[m] = last_known_ledger[m]
        BY DEF Restart, TypeOK, PipelineState
    <2>2. Ordered(<< >>, 0, 0) /\ 0 <= closed
        BY DEF Ordered, TypeOK
    <2> QED
        BY <1>1, <2>1, <2>2 DEF EventsOrdered
<1>6. \A m \in Node : confirmed'[m] => confirmed[m]
    BY DEF Restart, TypeOK
<1>7. ReportedExecutionReal'
    BY <1>1, <1>6, SameTxs, ReportsKept
<1> QED
    BY <1>2, <1>3, <1>4, <1>5, <1>7

\* A ledger closes behind the nodes' backs.
LEMMA CloseStep ==
    ASSUME EngineInv, NEW ran, NEW included, NEW rejected,
           LedgerCloses(ran, included, rejected)
    PROVE  EngineInv'
<1> USE DEF EngineInv
<1>1. TxsExtend /\ view' \in [TaskIds -> TaskView]
    BY CloseExtends
<1>2. closed' = closed + 1 /\ closed < MaxLedger /\ UNCHANGED engine
    BY DEF LedgerCloses
<1>3. closed \in 1 .. MaxLedger /\ txs \in Seq(Tx) /\ DOMAIN txs = 1 .. Len(txs)
    BY DEF TypeOK, PipelineState
<1>4. /\ txs' \in Seq(Tx) /\ DOMAIN txs' = 1 .. Len(txs') /\ Len(txs) <= Len(txs')
      /\ \A i \in 1 .. Len(txs) : txs'[i].keeper = txs[i].keeper
    BY <1>1 DEF TxsExtend
<1>5. \A i \in 1 .. Len(txs') : txs'[i].status \in TxStatus /\ txs'[i].keeper \in Node
    <2>1. \A i \in 1 .. Len(txs') : txs'[i] \in Tx
        BY <1>4
    <2> QED
        BY <2>1 DEF Tx
<1>6. \A m \in Node : pc[m] = "confirm" => hash[m] \in 1 .. Len(txs') /\ txs'[hash[m]].keeper = m
    <2> SUFFICES ASSUME NEW m \in Node, pc[m] = "confirm"
                 PROVE  hash[m] \in 1 .. Len(txs') /\ txs'[hash[m]].keeper = m
        OBVIOUS
    <2>1. hash[m] \in 1 .. Len(txs) /\ txs[hash[m]].keeper = m
        BY <1>3 DEF TypeOK, PipelineState
    <2> QED
        BY <1>3, <1>4, <2>1
<1>7. TypeOK'
    BY <1>2, <1>3, <1>4, <1>5, <1>6 DEF TypeOK, engine, poller, job, shared
<1>8. PipelineState'
    BY <1>1, <1>2, <1>4, <1>6 DEF PipelineState, engine, poller, job, shared
<1>9. InFlightExact' /\ EventsOrdered'
    <2>1. last_known_ledger' = last_known_ledger
        BY <1>2 DEF engine, poller
    <2>2. \A m \in Node : last_known_ledger[m] <= closed + 1
        BY <1>3 DEF EventsOrdered, TypeOK
    <2>3. InFlightExact'
        BY <1>2 DEF InFlightExact, engine, job, shared
    <2> QED
        BY <1>2, <2>1, <2>2, <2>3 DEF EventsOrdered, engine
<1>10. confirmed' = confirmed
    BY <1>2 DEF engine, shared
<1> QED
    BY <1>1, <1>7, <1>8, <1>9, <1>10, ReportsKept

-----------------------------------------------------------------------------
(* Theorems. *)

\* The state of new processes satisfies the invariant.
LEMMA EngineInitially == Init => EngineInv
<1> SUFFICES ASSUME Init PROVE EngineInv
    OBVIOUS
<1> USE DEF Init, EngineInit
<1>1. txs \in Seq(Tx) /\ DOMAIN txs = {} /\ Len(txs) = 0
    OBVIOUS
<1>2. TypeOK
    BY <1>1 DEF TypeOK, PC, Role
<1>3. view \in [TaskIds -> TaskView]
    BY DEF TaskView
<1>4. PipelineState
    BY <1>1, <1>3 DEF PipelineState
<1>5. InFlightExact /\ ReportedExecutionReal
    BY DEF InFlightExact, ReportedExecutionReal
<1>6. EventsOrdered
    BY DEF EventsOrdered, Ordered
<1> QED
    BY <1>2, <1>4, <1>5, <1>6 DEF EngineInv

\* Every send keeps the invariant, whatever the answer.
LEMMA SendStep ==
    ASSUME EngineInv, NEW n \in Node, NEW outcome \in SendOutcomes,
           Send(n, outcome[1], outcome[2])
    PROVE  EngineInv'
BY SendAcceptedStep, SendDuplicateStep, SendTransientStep, SendRejectedStep DEF Send

\* The tasks that a query finds have their type.
LEMMA ExecutableTasksType ==
    ASSUME PipelineState, NEW ledger
    PROVE  ExecutableTasks(ledger) \in SUBSET RemoteTask
<1>1. view \in [TaskIds -> TaskView]
    BY DEF PipelineState
<1> QED
    BY <1>1 DEF ExecutableTasks, TaskView, RemoteTask

\* Every step of the engine and of the chain keeps the invariant.
LEMMA EngineStep == EngineInv /\ [Next]_vars => EngineInv'
<1> SUFFICES ASSUME EngineInv, [Next]_vars PROVE EngineInv'
    OBVIOUS
<1>1. CASE UNCHANGED vars
    BY <1>1 DEF EngineInv, TypeOK, PipelineState, InFlightExact, EventsOrdered,
                ReportedExecutionReal, vars, chain, poller, job, shared
<1>2. ASSUME NEW n \in Node, PollerStep(n) PROVE EngineInv'
    BY <1>2, PollOkStep, PollErrorStep DEF PollerStep
<1>3. ASSUME NEW n \in Node, PipelineStep(n) PROVE EngineInv'
    BY <1>3, SendStep, BackoffElapsedStep, ConfirmedStep, WaitEndsStep DEF PipelineStep
<1>4. ASSUME NEW n \in Node, NEW found \in {{}, ExecutableTasks(current_ledger[n])},
             QueryOk(n, found)
      PROVE  EngineInv'
    <2>1. found \in SUBSET RemoteTask
        BY ExecutableTasksType DEF EngineInv
    <2> QED
        BY <1>4, <2>1, QueryOkStep
<1>5. ASSUME NEW n \in Node, DiscoveryStep(n) PROVE EngineInv'
    BY <1>3, <1>4, <1>5, RecvStep, BackToRecvStep, SkipStep, DispatchStep DEF DiscoveryStep
<1>6. ASSUME NEW ran, NEW included, NEW rejected, LedgerCloses(ran, included, rejected)
      PROVE  EngineInv'
    BY <1>6, CloseStep
<1> QED
    BY <1>1, <1>2, <1>5, <1>6, RestartStep DEF Next

\* The inductive invariant of the engine.
LEMMA EngineInvariant == Spec => []EngineInv
BY EngineInitially, EngineStep, PTL DEF Spec

\* Every variable of every node always has its type, and a node that waits for a
\* confirmation holds the hash of a transaction the network knows.
THEOREM EngineTypeCorrect == Spec => []TypeOK
<1>1. EngineInv => TypeOK
    BY DEF EngineInv
<1> QED
    BY <1>1, EngineInvariant, PTL

\* A task is in the in-flight set exactly while the pipeline works on it.
THEOREM InFlightIsExact == Spec => []InFlightExact
<1>1. EngineInv => InFlightExact
    BY DEF EngineInv
<1> QED
    BY <1>1, EngineInvariant, PTL

\* The health server reports no execution without a transaction of the node that
\* was included and succeeded.
THEOREM ReportsAreReal == Spec => []ReportedExecutionReal
<1>1. EngineInv => ReportedExecutionReal
    BY DEF EngineInv
<1> QED
    BY <1>1, EngineInvariant, PTL

\* Discovery sees each ledger at most once and in order, for every capacity of the
\* channel.
THEOREM EventsInOrder == Spec => []LedgerEventsOrdered
<1>1. ASSUME EngineInv PROVE LedgerEventsOrdered
    <2> SUFFICES ASSUME NEW n \in Node
                 PROVE  LET seen == <<current_ledger[n]>> \o channel[n]
                        IN  /\ \A i, j \in DOMAIN seen : i < j => seen[i] < seen[j]
                            /\ seen[Len(seen)] <= last_known_ledger[n]
                            /\ last_known_ledger[n] <= closed
        BY DEF LedgerEventsOrdered
    <2> DEFINE seen == <<current_ledger[n]>> \o channel[n]
    <2>t. /\ channel[n] \in Seq(Nat) /\ current_ledger[n] \in Nat
          /\ last_known_ledger[n] \in Nat
        BY <1>1 DEF EngineInv, TypeOK, PipelineState
    <2>1. /\ DOMAIN seen = 1 .. Len(channel[n]) + 1 /\ Len(seen) = Len(channel[n]) + 1
          /\ seen[1] = current_ledger[n]
          /\ \A i \in 2 .. Len(channel[n]) + 1 : seen[i] = channel[n][i - 1]
        BY <2>t
    <2>2. /\ Ordered(channel[n], current_ledger[n], last_known_ledger[n])
          /\ last_known_ledger[n] <= closed
        BY <1>1 DEF EngineInv, EventsOrdered
    <2> HIDE DEF seen
    <2>3. \A i, j \in DOMAIN seen : i < j => seen[i] < seen[j]
        <3> SUFFICES ASSUME NEW i \in DOMAIN seen, NEW j \in DOMAIN seen, i < j
                     PROVE  seen[i] < seen[j]
            OBVIOUS
        <3>1. j - 1 \in 1 .. Len(channel[n]) /\ seen[j] = channel[n][j - 1]
            BY <2>t, <2>1
        <3>2. CASE i = 1
            BY <2>1, <2>2, <3>1, <3>2 DEF Ordered
        <3>3. CASE i # 1
            <4>0. i \in 1 .. Len(channel[n]) + 1 /\ j \in 1 .. Len(channel[n]) + 1
                BY <2>1
            <4>1. i \in 2 .. Len(channel[n]) + 1
                BY <2>t, <3>3, <4>0
            <4>2. seen[i] = channel[n][i - 1]
                BY <2>1, <4>1
            <4>3. i - 1 \in 1 .. Len(channel[n]) /\ i - 1 < j - 1
                <5>1. Len(channel[n]) \in Nat
                    BY <2>t
                <5>2. ASSUME NEW k \in Nat, NEW a \in 2 .. k + 1, NEW b \in 1 .. k + 1, a < b
                      PROVE  a - 1 \in 1 .. k /\ a - 1 < b - 1
                    BY ONLY <5>2
                <5> QED
                    BY <4>0, <4>1, <5>1, <5>2, Zenon
            <4> QED
                BY <2>2, <3>1, <4>2, <4>3 DEF Ordered
        <3> QED
            BY <3>2, <3>3
    <2>4. seen[Len(seen)] <= last_known_ledger[n]
        <3>1. CASE Len(channel[n]) = 0
            BY <2>1, <2>2, <3>1 DEF Ordered
        <3>2. CASE Len(channel[n]) > 0
            <4>1. Len(channel[n]) \in 1 .. Len(channel[n])
                BY <2>t, <3>2
            <4> DEFINE l == Len(channel[n]) + 1
            <4>2. l \in 2 .. Len(channel[n]) + 1 /\ l - 1 = Len(channel[n]) /\ Len(seen) = l
                BY <2>t, <2>1, <3>2
            <4> HIDE DEF l
            <4>3. seen[Len(seen)] = channel[n][Len(channel[n])]
                BY <2>1, <4>2
            <4> QED
                BY <2>2, <4>1, <4>3 DEF Ordered
        <3> QED
            BY <2>t, <3>1, <3>2
    <2> QED
        BY <2>2, <2>3, <2>4 DEF seen
<1> QED
    BY <1>1, EngineInvariant, PTL

-----------------------------------------------------------------------------
(* The delays between attempts. *)

\* g holds the powers of two up to n.
PowersOf(g, n) == g = [k \in 0 .. n |-> IF k = 0 THEN 1 ELSE 2 * g[k - 1]]

\* The recursion of PowerOfTwo has a solution, for any number of retries.
LEMMA PowersExist == \A n \in Nat : \E g : PowersOf(g, n)
<1> DEFINE P == {n \in Nat : \E g : PowersOf(g, n)}
<1>1. 0 \in P
    <2>1. PowersOf([k \in 0 .. 0 |-> 1], 0)
        BY DEF PowersOf
    <2> QED
        BY <2>1
<1>2. ASSUME NEW n \in P PROVE n + 1 \in P
    <2>1. PICK g : PowersOf(g, n)
        BY <1>2
    <2> DEFINE h == [k \in 0 .. n + 1 |-> IF k = 0 THEN 1 ELSE 2 * g[k - 1]]
    <2>2. \A k \in 0 .. n : h[k] = g[k]
        BY <2>1 DEF PowersOf
    <2>3. \A k \in 0 .. n + 1 : k # 0 => k - 1 \in 0 .. n
        BY <1>2
    <2>4. \A k \in 0 .. n + 1 : k # 0 => h[k] = 2 * h[k - 1]
        BY <2>2, <2>3
    <2>5. h = [k \in 0 .. n + 1 |-> IF k = 0 THEN 1 ELSE 2 * h[k - 1]]
        BY <2>4
    <2>6. PowersOf(h, n + 1)
        BY <2>5 DEF PowersOf
    <2> QED
        BY <1>2, <2>6
<1>3. P = Nat
    BY <1>1, <1>2, NatInductionSet
<1> QED
    BY <1>3

\* What PowerOfTwo computes.
LEMMA PowerOfTwoValue ==
    /\ PowerOfTwo \in [0 .. max_retries -> Nat]
    /\ PowerOfTwo[0] = 1
    /\ \A k \in 0 .. max_retries : k # 0 => PowerOfTwo[k] = 2 * PowerOfTwo[k - 1]
<1>1. PowersOf(PowerOfTwo, max_retries)
    <2>1. \E g : PowersOf(g, max_retries)
        BY PowersExist
    <2>2. PowerOfTwo = CHOOSE g : PowersOf(g, max_retries)
        BY DEF PowerOfTwo, PowersOf
    <2> QED
        BY <2>1, <2>2
<1>2. /\ DOMAIN PowerOfTwo = 0 .. max_retries
      /\ PowerOfTwo[0] = 1
      /\ \A k \in 0 .. max_retries : k # 0 => PowerOfTwo[k] = 2 * PowerOfTwo[k - 1]
      /\ PowerOfTwo = [k \in 0 .. max_retries |-> PowerOfTwo[k]]
    <2>1. ASSUME NEW g, NEW n \in Nat, PowersOf(g, n)
          PROVE  /\ DOMAIN g = 0 .. n /\ g = [k \in 0 .. n |-> g[k]]
                 /\ \A k \in 0 .. n : g[k] = IF k = 0 THEN 1 ELSE 2 * g[k - 1]
        <3>1. DOMAIN g = 0 .. n
            BY <2>1 DEF PowersOf
        <3>2. \A k \in 0 .. n : g[k] = IF k = 0 THEN 1 ELSE 2 * g[k - 1]
            BY <2>1 DEF PowersOf
        <3>3. g = [k \in 0 .. n |-> g[k]]
            BY <2>1, <3>2 DEF PowersOf
        <3> QED
            BY <3>1, <3>2, <3>3
    <2> QED
        BY <1>1, <2>1
<1> DEFINE P == {n \in Nat : n <= max_retries => PowerOfTwo[n] \in Nat}
<1>3. 0 \in P
    BY <1>2
<1>4. ASSUME NEW n \in P PROVE n + 1 \in P
    <2> SUFFICES ASSUME n + 1 <= max_retries PROVE PowerOfTwo[n + 1] \in Nat
        BY <1>4
    <2>1. PowerOfTwo[n] \in Nat /\ n + 1 \in 0 .. max_retries /\ (n + 1) - 1 = n /\ n + 1 # 0
        BY <1>4
    <2>2. PowerOfTwo[n + 1] = 2 * PowerOfTwo[n]
        BY <1>2, <2>1
    <2> QED
        BY <2>1, <2>2
<1>5. P = Nat
    BY <1>3, <1>4, NatInductionSet
<1>6. \A k \in 0 .. max_retries : PowerOfTwo[k] \in Nat
    BY <1>5
<1> QED
    BY <1>2, <1>6

\* Doubling a capped delay is the doubled delay, capped.
LEMMA NextBackoffDoubles ==
    ASSUME NEW p \in Nat
    PROVE  NextBackoff(Least(retry_backoff_initial * p, retry_backoff_max))
             = Least(retry_backoff_initial * (2 * p), retry_backoff_max)
<1>1. ASSUME NEW x \in Nat
      PROVE  NextBackoff(Least(x, retry_backoff_max)) = Least(2 * x, retry_backoff_max)
    BY DEF NextBackoff, Least
<1>2. retry_backoff_initial * p \in Nat
    OBVIOUS
<1>3. retry_backoff_initial * (2 * p) = 2 * (retry_backoff_initial * p)
    OBVIOUS
<1> QED
    BY <1>1, <1>2, <1>3

\* What a step does to the attempts and delays of the pipelines.
LEMMA AttemptSteps ==
    ASSUME [Next]_vars
    PROVE  \/ attempt' = attempt /\ backoff' = backoff
           \/ \E n \in Node : BackoffElapsed(n)
           \/ \E n \in Node : /\ attempt' = [attempt EXCEPT ![n] = 0]
                              /\ backoff' = [backoff EXCEPT ![n] = retry_backoff_initial]
<1> DEFINE Kept == attempt' = attempt /\ backoff' = backoff
           Reset(n) == /\ attempt' = [attempt EXCEPT ![n] = 0]
                       /\ backoff' = [backoff EXCEPT ![n] = retry_backoff_initial]
<1>1. CASE UNCHANGED vars
    BY <1>1 DEF vars, job
<1>2. ASSUME NEW n \in Node, PollerStep(n) PROVE Kept
    BY <1>2 DEF PollerStep, PollOk, PollError, job
<1>3. ASSUME NEW n \in Node, PipelineStep(n) PROVE Kept \/ BackoffElapsed(n) \/ Reset(n)
    <2>1. ASSUME NEW result, NEW delivered, Send(n, result, delivered) PROVE Kept \/ Reset(n)
        BY <2>1 DEF Send, SendAccepted, SendDuplicate, SendTransient, SendRejected,
                    FinishDispatch, job
    <2>2. ASSUME Confirmed(n) PROVE Kept
        BY <2>2 DEF Confirmed, job
    <2>3. ASSUME NEW answer, ConfirmedFailed(n, answer) PROVE Reset(n)
        BY <2>3 DEF ConfirmedFailed, FinishDispatch
    <2>4. ASSUME ConfirmFailed(n) \/ Done(n) PROVE Reset(n)
        BY <2>4 DEF ConfirmFailed, Done, FinishDispatch
    <2> QED
        BY <1>3, <2>1, <2>2, <2>3, <2>4 DEF PipelineStep
<1>4. ASSUME NEW n \in Node, DiscoveryStep(n) PROVE Kept \/ BackoffElapsed(n) \/ Reset(n)
    <2>1. ASSUME NEW t, Dispatch(n, t) PROVE Reset(n)
        BY <2>1 DEF Dispatch
    <2>2. ASSUME NEW t, NEW found,
                 Recv(n) \/ QueryOk(n, found) \/ QueryFailed(n) \/ Skip(n, t) \/ EndCycle(n)
          PROVE  Kept
        BY <2>2 DEF Recv, QueryOk, QueryFailed, Skip, EndCycle, job
    <2> QED
        BY <1>3, <1>4, <2>1, <2>2 DEF DiscoveryStep
<1>5. ASSUME NEW n \in Node, Restart(n) PROVE Reset(n)
    BY <1>5 DEF Restart
<1>6. ASSUME NEW ran, NEW included, NEW rejected, LedgerCloses(ran, included, rejected)
      PROVE  Kept
    BY <1>6 DEF LedgerCloses, engine, job
<1> QED
    BY <1>1, <1>2, <1>4, <1>5, <1>6 DEF Next

\* What a step does to the pollers.
LEMMA PollerSteps ==
    ASSUME [Next]_vars
    PROVE  \/ failing' = failing /\ poll_backoff' = poll_backoff
           \/ \E n \in Node : PollError(n) \/ (\E seq \in 1 .. closed : PollOk(n, seq))
           \/ \E n \in Node : Restart(n)
<1> DEFINE Kept == failing' = failing /\ poll_backoff' = poll_backoff
<1>1. CASE UNCHANGED vars
    BY <1>1 DEF vars, poller
<1>2. ASSUME NEW n \in Node, PipelineStep(n) PROVE Kept
    BY <1>2 DEF PipelineStep, Send, SendAccepted, SendDuplicate, SendTransient, SendRejected,
                BackoffElapsed, Confirmed, ConfirmedFailed, ConfirmFailed, Done, poller
<1>3. ASSUME NEW n \in Node, DiscoveryStep(n) PROVE Kept
    <2>1. ASSUME NEW t, NEW found,
                 \/ Recv(n) \/ QueryOk(n, found) \/ QueryFailed(n)
                 \/ Skip(n, t) \/ Dispatch(n, t) \/ EndCycle(n)
          PROVE  Kept
        BY <2>1 DEF Recv, QueryOk, QueryFailed, Skip, Dispatch, EndCycle, poller
    <2> QED
        BY <1>2, <1>3, <2>1 DEF DiscoveryStep
<1>4. ASSUME NEW ran, NEW included, NEW rejected, LedgerCloses(ran, included, rejected)
      PROVE  Kept
    BY <1>4 DEF LedgerCloses, engine, poller
<1> QED
    BY <1>1, <1>3, <1>4 DEF Next, PollerStep

\* The delays follow the count of attempts in every step.
LEMMA BackoffStep ==
    ASSUME EngineInv, BackoffBounded, [Next]_vars
    PROVE  BackoffBounded'
<1>t. /\ attempt \in [Node -> 0 .. max_retries] /\ backoff \in [Node -> Nat]
      /\ poll_backoff \in [Node -> Nat] /\ failing \in [Node -> BOOLEAN]
    BY DEF EngineInv, TypeOK, PipelineState
<1> DEFINE Delay(k) == Least(retry_backoff_initial * PowerOfTwo[k], retry_backoff_max)
<1>0. Delay(0) = retry_backoff_initial
    BY PowerOfTwoValue DEF Least
<1>1. \A m \in Node : backoff'[m] = Delay(attempt'[m])
    <2> SUFFICES ASSUME NEW m \in Node PROVE backoff'[m] = Delay(attempt'[m])
        OBVIOUS
    <2>0. backoff[m] = Delay(attempt[m])
        BY DEF BackoffBounded
    <2>1. CASE attempt' = attempt /\ backoff' = backoff
        BY <2>0, <2>1
    <2>2. ASSUME NEW n \in Node, attempt' = [attempt EXCEPT ![n] = 0],
                 backoff' = [backoff EXCEPT ![n] = retry_backoff_initial]
          PROVE  backoff'[m] = Delay(attempt'[m])
        <3> HIDE DEF Delay
        <3> QED
            BY <1>t, <1>0, <2>0, <2>2
    <2>3. ASSUME NEW n \in Node, BackoffElapsed(n)
          PROVE  backoff'[m] = Delay(attempt'[m])
        <3>1. /\ attempt' = [attempt EXCEPT ![n] = attempt[n] + 1]
              /\ backoff' = [backoff EXCEPT ![n] = NextBackoff(backoff[n])]
              /\ attempt[n] < max_retries
            BY <2>3 DEF BackoffElapsed, EngineInv, PipelineState
        <3>2. CASE m # n
            <4>1. attempt'[m] = attempt[m] /\ backoff'[m] = backoff[m]
                BY <1>t, <3>1, <3>2
            <4> QED
                BY <2>0, <4>1
        <3>3. CASE m = n
            <4> DEFINE k == attempt[m]
            <4>1. k \in 0 .. max_retries /\ k + 1 \in 0 .. max_retries
                  /\ k + 1 # 0 /\ (k + 1) - 1 = k
                BY <1>t, <3>1, <3>3
            <4>2. attempt'[m] = k + 1 /\ backoff'[m] = NextBackoff(backoff[m])
                BY <1>t, <3>1, <3>3
            <4> HIDE DEF k
            <4>3. PowerOfTwo[k] \in Nat /\ PowerOfTwo[k + 1] = 2 * PowerOfTwo[k]
                BY <4>1, PowerOfTwoValue
            <4>4. NextBackoff(Delay(k)) = Delay(k + 1)
                BY <4>3, NextBackoffDoubles
            <4> HIDE DEF Delay
            <4> QED
                BY <2>0, <4>2, <4>4 DEF k
        <3> QED
            BY <3>2, <3>3
    <2> QED
        BY <2>1, <2>2, <2>3, AttemptSteps
<1>2. \A m \in Node : /\ poll_backoff'[m] \in retry_backoff_initial .. retry_backoff_max
                      /\ ~failing'[m] => poll_backoff'[m] = retry_backoff_initial
    <2> SUFFICES ASSUME NEW m \in Node
                 PROVE  /\ poll_backoff'[m] \in retry_backoff_initial .. retry_backoff_max
                        /\ ~failing'[m] => poll_backoff'[m] = retry_backoff_initial
        OBVIOUS
    <2>0. /\ poll_backoff[m] \in retry_backoff_initial .. retry_backoff_max
          /\ ~failing[m] => poll_backoff[m] = retry_backoff_initial
        BY DEF BackoffBounded
    <2>1. ASSUME NEW n \in Node, PollError(n)
          PROVE  /\ poll_backoff'[m] \in retry_backoff_initial .. retry_backoff_max
                 /\ ~failing'[m] => poll_backoff'[m] = retry_backoff_initial
        BY <1>t, <2>0, <2>1 DEF PollError, NextBackoff, Least
    <2>2. ASSUME NEW n \in Node, NEW seq \in 1 .. closed, PollOk(n, seq)
          PROVE  /\ poll_backoff'[m] \in retry_backoff_initial .. retry_backoff_max
                 /\ ~failing'[m] => poll_backoff'[m] = retry_backoff_initial
        BY <1>t, <2>0, <2>2 DEF PollOk
    <2>3. ASSUME NEW n \in Node, Restart(n)
          PROVE  /\ poll_backoff'[m] \in retry_backoff_initial .. retry_backoff_max
                 /\ ~failing'[m] => poll_backoff'[m] = retry_backoff_initial
        BY <1>t, <2>0, <2>3 DEF Restart
    <2> QED
        BY <2>0, <2>1, <2>2, <2>3, PollerSteps
<1> QED
    BY <1>1, <1>2 DEF BackoffBounded

\* The delay before an attempt is the initial one doubled for each attempt made, up
\* to the maximum, for any number of retries; the poller's delay is within the same
\* bounds and starts over after a success.
THEOREM BackoffsBounded == Spec => []BackoffBounded
<1>1. Init => BackoffBounded
    <2> SUFFICES ASSUME Init, NEW n \in Node
                 PROVE  /\ backoff[n] = Least(retry_backoff_initial * PowerOfTwo[attempt[n]],
                                              retry_backoff_max)
                        /\ poll_backoff[n] \in retry_backoff_initial .. retry_backoff_max
                        /\ ~failing[n] => poll_backoff[n] = retry_backoff_initial
        BY DEF BackoffBounded
    <2>1. backoff[n] = retry_backoff_initial /\ attempt[n] = 0
          /\ poll_backoff[n] = retry_backoff_initial
        BY DEF Init, EngineInit
    <2> QED
        BY <2>1, PowerOfTwoValue DEF Least
<1>2. EngineInv /\ BackoffBounded /\ [Next]_vars => BackoffBounded'
    BY BackoffStep
<1> QED
    BY <1>1, <1>2, EngineInvariant, PTL DEF Spec

-----------------------------------------------------------------------------
(* The values that the health server reads. *)

\* A step of the poller stores a newer ledger or none.
LEMMA PollerRefines ==
    ASSUME EngineInv, NEW n \in Node, PollerStep(n)
    PROVE  [Status!StatusNext]_(Status!status)
<1>1. ASSUME PollError(n) PROVE UNCHANGED Status!status
    BY <1>1 DEF PollError, shared, Status!status
<1>2. ASSUME NEW seq \in 1 .. closed, PollOk(n, seq), seq > last_known_ledger[n]
      PROVE  Status!Advance(n, seq) /\ seq \in 1 .. MaxLedger
    BY <1>2 DEF PollOk, shared, Status!Advance, EngineInv, TypeOK
<1>3. ASSUME NEW seq \in 1 .. closed, PollOk(n, seq), ~(seq > last_known_ledger[n])
      PROVE  UNCHANGED Status!status
    BY <1>3 DEF PollOk, shared, Status!status
<1> QED
    BY <1>1, <1>2, <1>3 DEF PollerStep, Status!StatusNext

\* A dispatch begins when nothing is in flight and a ledger was seen.
LEMMA DispatchRefines ==
    ASSUME EngineInv, NEW n \in Node, NEW t \in todo[n], Dispatch(n, t)
    PROVE  t.id \in TaskIds /\ Status!Begin(n, t.id)
<1>1. pc[n] = "classify"
    BY DEF Dispatch
<1>2. in_flight[n] = {}
    BY <1>1 DEF EngineInv, InFlightExact
<1>3. last_known_ledger[n] > 0
    <2>1. /\ current_ledger[n] > 0 /\ current_ledger[n] <= last_known_ledger[n]
          /\ current_ledger[n] \in Int /\ last_known_ledger[n] \in Int
        BY <1>1 DEF EngineInv, TypeOK, PipelineState, EventsOrdered, Ordered
    <2> QED
        BY <2>1
<1>4. t.id \in TaskIds
    BY DEF EngineInv, TypeOK, RemoteTask
<1>5. /\ in_flight' = [in_flight EXCEPT ![n] = {t.id}]
      /\ last_known_ledger' = last_known_ledger /\ confirmed' = confirmed
    BY <1>2 DEF Dispatch, insert, poller
<1> QED
    BY <1>2, <1>3, <1>4, <1>5 DEF Status!Begin

\* The end of a dispatch empties the in-flight set.
LEMMA FinishRefines ==
    ASSUME EngineInv, NEW n \in Node, pc[n] \in Busy, FinishDispatch(n),
           last_known_ledger' = last_known_ledger, confirmed' = confirmed
    PROVE  Status!End(n)
<1>1. in_flight[n] = {task[n].id}
    BY DEF EngineInv, InFlightExact, Busy
<1>2. in_flight' = [in_flight EXCEPT ![n] = {}]
    BY <1>1 DEF FinishDispatch, remove
<1> QED
    BY <1>1, <1>2 DEF Status!End

\* The pipeline's steps record a confirmation, end a dispatch, or show nothing.
LEMMA PipelineRefines ==
    ASSUME EngineInv, NEW n \in Node, PipelineStep(n)
    PROVE  [Status!StatusNext]_(Status!status)
<1>1. ASSUME NEW result, NEW delivered, Send(n, result, delivered)
      PROVE  Status!End(n) \/ UNCHANGED Status!status
    <2>1. ASSUME SendAccepted(n, delivered) \/ (\E i \in DOMAIN txs : SendDuplicate(n, i))
          PROVE  UNCHANGED Status!status
        BY <2>1 DEF SendAccepted, SendDuplicate, poller, shared, Status!status
    <2>2. ASSUME SendRejected(n, delivered)
          PROVE  Status!End(n)
        BY <2>2, FinishRefines DEF SendRejected, poller, Busy
    <2>3. ASSUME SendTransient(n, delivered)
          PROVE  Status!End(n) \/ UNCHANGED Status!status
        <3>1. pc[n] = "send" /\ last_known_ledger' = last_known_ledger /\ confirmed' = confirmed
            BY <2>3 DEF SendTransient, poller
        <3>2. CASE attempt[n] = max_retries
            BY <2>3, <3>1, <3>2, FinishRefines DEF SendTransient, Busy
        <3>3. CASE attempt[n] # max_retries
            BY <2>3, <3>1, <3>3 DEF SendTransient, Status!status
        <3> QED
            BY <3>2, <3>3
    <2> QED
        BY <1>1, <2>1, <2>2, <2>3 DEF Send
<1>2. ASSUME BackoffElapsed(n) PROVE UNCHANGED Status!status
    BY <1>2 DEF BackoffElapsed, poller, shared, Status!status
<1>3. ASSUME Confirmed(n) PROVE Status!Record(n)
    <2>1. in_flight[n] # {}
        BY <1>3 DEF Confirmed, EngineInv, InFlightExact
    <2> QED
        BY <1>3, <2>1 DEF Confirmed, poller, Status!Record
<1>4. ASSUME NEW answer, ConfirmedFailed(n, answer) \/ ConfirmFailed(n) \/ Done(n)
      PROVE  Status!End(n)
    <2>1. /\ pc[n] \in Busy /\ FinishDispatch(n)
          /\ last_known_ledger' = last_known_ledger /\ confirmed' = confirmed
        BY <1>4 DEF ConfirmedFailed, ConfirmFailed, Done, poller, Busy
    <2> QED
        BY <2>1, FinishRefines
<1> QED
    BY <1>1, <1>2, <1>3, <1>4 DEF PipelineStep, Status!StatusNext

\* Every step of the engine is a step of EngineStatus or shows nothing.
LEMMA StatusStep ==
    ASSUME EngineInv, [Next]_vars
    PROVE  [Status!StatusNext]_(Status!status)
<1>1. CASE UNCHANGED vars
    BY <1>1 DEF vars, poller, shared, Status!status
<1>2. ASSUME NEW n \in Node, DiscoveryStep(n) PROVE [Status!StatusNext]_(Status!status)
    <2>1. ASSUME NEW t, NEW found,
                 Recv(n) \/ QueryOk(n, found) \/ QueryFailed(n) \/ Skip(n, t) \/ EndCycle(n)
          PROVE  UNCHANGED Status!status
        BY <2>1 DEF Recv, QueryOk, QueryFailed, Skip, EndCycle, poller, shared, Status!status
    <2>2. ASSUME NEW t \in todo[n], Dispatch(n, t) PROVE Status!StatusNext
        BY <2>2, DispatchRefines DEF Status!StatusNext
    <2> QED
        BY <1>2, <2>1, <2>2, PipelineRefines DEF DiscoveryStep
<1>3. ASSUME NEW n \in Node, Restart(n) PROVE Status!StatusNext
    BY <1>3 DEF Restart, Status!Stop, Status!StatusNext
<1>4. ASSUME NEW ran, NEW included, NEW rejected, LedgerCloses(ran, included, rejected)
      PROVE  UNCHANGED Status!status
    BY <1>4 DEF LedgerCloses, engine, poller, shared, Status!status
<1> QED
    BY <1>1, <1>2, <1>3, <1>4, PollerRefines DEF Next

\* The engine implements EngineStatus: whatever fails, is retried or restarts, the
\* ledger counter only grows, at most one task is in flight and only once a ledger
\* was seen, and a confirmation is stored while its task is.
THEOREM EngineImplementsStatus == Spec => StatusKept
<1>1. Init => Status!StatusInit
    BY DEF Init, EngineInit, Status!StatusInit
<1>2. EngineInv /\ [Next]_vars => [Status!StatusNext]_(Status!status)
    BY StatusStep
<1> QED
    BY <1>1, <1>2, EngineInvariant, PTL DEF Spec, StatusKept, Status!StatusSpec
=============================================================================
