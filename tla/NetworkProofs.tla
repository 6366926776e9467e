---------------------------- MODULE NetworkProofs ----------------------------
(* Theorems about the engines and the Anchor together, for any number of    *)
(* nodes, other keepers, transactions and ledgers.                          *)
EXTENDS KeeperNetwork, ScheduleProofs, FiniteSetTheorems

USE AnchorConstants, NetworkConstants

-----------------------------------------------------------------------------
(* What a step of a node does, as far as the invariants tell steps apart. *)

\* What the node knows of ledgers is behind the open one.
Behind(m) ==
    /\ last_known_ledger[m] < ledger /\ current_ledger[m] < ledger
    /\ \A i \in 1 .. Len(channel[m]) : channel[m][i] < ledger

LedgersEffect ==
    /\ last_known_ledger' \in [Node -> Nat] /\ current_ledger' \in [Node -> Nat]
    /\ channel' \in [Node -> Seq(Nat)]
    /\ \A m \in Node : Behind(m) => Behind(m)'

\* Tasks come from the view of the contract.
TodoEffect ==
    /\ todo' \in [Node -> SUBSET E!RemoteTask]
    /\ \A m \in Node : todo'[m] \subseteq todo[m] \cup E!ExecutableTasks(current_ledger[m])

\* A node at work goes on with its task and role or starts with a classified one.
JobEffect ==
    /\ pc' \in [Node -> E!PC] /\ role' \in [Node -> E!Role]
    /\ task' \in [Node -> E!RemoteTask \cup {NoTask}]
    /\ \A m \in Node : pc'[m] \in Working =>
          \/ pc[m] \in Working /\ task'[m] = task[m] /\ role'[m] = role[m]
          \/ task'[m] \in todo[m] /\ role'[m] = E!ClassifiedRole(m, task'[m], current_ledger[m])

\* Transactions are added by nodes at work, for the task and role in hand.
TxsEffect ==
    /\ txs' \in Seq(Tx) /\ DOMAIN txs \subseteq DOMAIN txs'
    /\ \A i \in DOMAIN txs : txs'[i] = txs[i]
    /\ \A i \in DOMAIN txs' \ DOMAIN txs : \E m \in Node :
          pc[m] = "send" /\ \E s \in {"pending", "lost"} : txs'[i] = E!NewTx(m, s)

HashEffect ==
    /\ hash' \in [Node -> Nat]
    /\ \A m \in Node : pc'[m] = "confirm" =>
          \/ pc[m] = "confirm" /\ hash'[m] = hash[m]
          \/ hash'[m] \in DOMAIN txs' /\ txs'[hash'[m]].keeper = m

ConfirmedEffect ==
    /\ confirmed' \in [Node -> BOOLEAN]
    /\ \A m \in Node : confirmed'[m] =>
          confirmed[m] \/ (pc[m] = "confirm" /\ txs[hash[m]].status = "success")

NodeEffect ==
    /\ ledger' = ledger /\ view' = view
    /\ LedgersEffect /\ TodoEffect /\ JobEffect /\ TxsEffect /\ HashEffect /\ ConfirmedEffect

\* What a step leaves alone has no effect.
LEMMA NoEffect ==
    ASSUME NetworkTyped, TransactionsOwned
    PROVE  /\ UNCHANGED <<ledger, last_known_ledger, current_ledger, channel>> => LedgersEffect
           /\ UNCHANGED todo => TodoEffect
           /\ UNCHANGED <<pc, role, task>> => JobEffect
           /\ UNCHANGED txs => TxsEffect
           /\ UNCHANGED <<pc, hash>> => HashEffect
           /\ UNCHANGED confirmed => ConfirmedEffect
<1>1. UNCHANGED <<ledger, last_known_ledger, current_ledger, channel>> => LedgersEffect
    BY DEF NetworkTyped, LedgersEffect, Behind
<1>2. UNCHANGED todo => TodoEffect
    BY DEF NetworkTyped, TodoEffect
<1>3. UNCHANGED <<pc, role, task>> => JobEffect
    BY DEF NetworkTyped, JobEffect
<1>4. UNCHANGED txs => TxsEffect
    BY DEF NetworkTyped, TxsEffect
<1>5. UNCHANGED <<pc, hash>> => HashEffect
    BY DEF NetworkTyped, HashEffect
<1>6. UNCHANGED confirmed => ConfirmedEffect
    BY DEF NetworkTyped, ConfirmedEffect
<1> QED
    BY <1>1, <1>2, <1>3, <1>4, <1>5, <1>6

\* A node that is not at work afterwards, and was not given another task.
LEMMA IdleEffect ==
    ASSUME NetworkTyped, NEW n \in Node, NEW p \in E!PC \ Working, pc' = [pc EXCEPT ![n] = p],
           \/ UNCHANGED <<role, task>>
           \/ role' = [role EXCEPT ![n] = "None"] /\ task' = [task EXCEPT ![n] = NoTask],
           UNCHANGED hash \/ hash' = [hash EXCEPT ![n] = 0]
    PROVE  JobEffect /\ HashEffect
<1>1. /\ pc' \in [Node -> E!PC] /\ role' \in [Node -> E!Role]
      /\ task' \in [Node -> E!RemoteTask \cup {NoTask}] /\ hash' \in [Node -> Nat]
    <2>1. /\ pc \in [Node -> E!PC] /\ role \in [Node -> E!Role]
          /\ task \in [Node -> E!RemoteTask \cup {NoTask}] /\ hash \in [Node -> Nat]
        BY DEF NetworkTyped
    <2>2. "None" \in E!Role
        BY DEF E!Role
    <2>3. role' \in [Node -> E!Role] /\ task' \in [Node -> E!RemoteTask \cup {NoTask}]
        BY <2>1, <2>2
    <2>4. hash' \in [Node -> Nat] /\ pc' \in [Node -> E!PC]
        BY <2>1
    <2> QED
        BY <2>3, <2>4
<1>2. ASSUME NEW m \in Node, pc'[m] \in Working
      PROVE  /\ pc[m] = pc'[m] /\ task'[m] = task[m] /\ role'[m] = role[m] /\ hash'[m] = hash[m]
    BY <1>2 DEF NetworkTyped
<1>3. "confirm" \in Working
    BY DEF Working
<1> QED
    BY <1>1, <1>2, <1>3 DEF JobEffect, HashEffect

-----------------------------------------------------------------------------
(* The steps of a node, one lemma each. *)

\* The ledger of a node that is behind was broadcast or dropped.
LEMMA PollOkEffect ==
    ASSUME NetworkInv, NEW n \in Node, NEW seq \in 1 .. ledger - 1, E!PollOk(n, seq),
           UNCHANGED <<vars, applied>>
    PROVE  NodeEffect
<1> USE DEF NetworkInv
<1>1. /\ UNCHANGED <<ledger, view, txs, pc, current_ledger, todo, role, task, hash, confirmed>>
    BY DEF E!PollOk, E!chain, E!job, E!shared, vars
<1>t. /\ ledger \in Nat /\ seq \in Nat /\ seq < ledger
      /\ last_known_ledger \in [Node -> Nat] /\ current_ledger \in [Node -> Nat]
      /\ channel \in [Node -> Seq(Nat)]
    <2>1. ledger \in Nat
        BY DEF AnchorInv, TypeOK
    <2>2. seq \in Nat /\ seq < ledger
        BY <2>1
    <2>3. /\ last_known_ledger \in [Node -> Nat] /\ current_ledger \in [Node -> Nat]
          /\ channel \in [Node -> Seq(Nat)]
        BY DEF NetworkTyped
    <2> QED
        BY <2>1, <2>2, <2>3
<1>2. CASE ~(seq > last_known_ledger[n])
    <2>1. UNCHANGED <<last_known_ledger, channel>>
        BY <1>2 DEF E!PollOk
    <2> QED
        BY <1>1, <2>1, NoEffect DEF NodeEffect
<1>3. CASE seq > last_known_ledger[n]
    <2> DEFINE ch == E!Broadcast(channel[n], seq)
    <2>1. /\ last_known_ledger' = [last_known_ledger EXCEPT ![n] = seq]
          /\ channel' = [channel EXCEPT ![n] = ch]
        BY <1>3 DEF E!PollOk
    <2>c. channel[n] \in Seq(Nat)
        BY <1>t
    <2>2. ch \in Seq(Nat)
        <3>1. Append(channel[n], seq) \in Seq(Nat) /\ Append(channel[n], seq) # << >>
            <4>1. Append(channel[n], seq) \in Seq(Nat)
                BY <1>t, <2>c
            <4>2. Len(Append(channel[n], seq)) = Len(channel[n]) + 1 /\ Len(channel[n]) \in Nat
                BY <2>c
            <4> QED
                BY <4>1, <4>2
        <3>2. Tail(Append(channel[n], seq)) \in Seq(Nat)
            BY <3>1
        <3> QED
            BY <3>1, <3>2 DEF E!Broadcast
    <2>3. ASSUME NEW i \in 1 .. Len(ch), \A j \in 1 .. Len(channel[n]) : channel[n][j] < ledger
          PROVE  ch[i] < ledger
        BY <1>t, <2>c, <2>3 DEF E!Broadcast
    <2> HIDE DEF ch
    <2>4. LedgersEffect
        <3>1. /\ last_known_ledger' \in [Node -> Nat] /\ current_ledger' \in [Node -> Nat]
              /\ channel' \in [Node -> Seq(Nat)]
            BY <1>t, <1>1, <2>1, <2>2
        <3>2. ASSUME NEW m \in Node, Behind(m)
              PROVE  Behind(m)'
            <4>1. CASE m = n
                BY <1>t, <1>1, <2>1, <2>3, <3>2, <4>1 DEF Behind
            <4>2. CASE m # n
                BY <1>t, <1>1, <2>1, <3>2, <4>2 DEF Behind
            <4> QED
                BY <4>1, <4>2
        <3> QED
            BY <3>1, <3>2 DEF LedgersEffect
    <2> QED
        BY <1>1, <2>4, NoEffect DEF NodeEffect
<1> QED
    BY <1>2, <1>3

\* A failed poll touches the poller's delay alone.
LEMMA PollErrorEffect ==
    ASSUME NetworkInv, NEW n \in Node, E!PollError(n), UNCHANGED <<vars, applied>>
    PROVE  NodeEffect
<1>1. UNCHANGED <<ledger, last_known_ledger, channel, view, txs, pc, current_ledger, todo, role,
                  task, hash, confirmed>>
    BY DEF E!PollError, E!chain, E!job, E!shared, vars
<1> QED
    BY <1>1, NoEffect DEF NodeEffect, NetworkInv

\* The ledger in hand is the oldest of the channel.
LEMMA RecvEffect ==
    ASSUME NetworkInv, NEW n \in Node, E!Recv(n), UNCHANGED <<vars, applied>>
    PROVE  NodeEffect
<1> USE DEF NetworkInv
<1>1. /\ channel[n] # << >> /\ pc' = [pc EXCEPT ![n] = "query"]
      /\ current_ledger' = [current_ledger EXCEPT ![n] = Head(channel[n])]
      /\ channel' = [channel EXCEPT ![n] = Tail(channel[n])]
      /\ UNCHANGED <<ledger, last_known_ledger, view, txs, todo, role, task, hash, confirmed>>
    BY DEF E!Recv, E!chain, E!poller, E!job, E!shared, vars
<1>t. /\ ledger \in Nat
      /\ last_known_ledger \in [Node -> Nat] /\ current_ledger \in [Node -> Nat]
      /\ channel \in [Node -> Seq(Nat)]
    BY DEF AnchorInv, TypeOK, NetworkTyped
<1>2. JobEffect /\ HashEffect
    <2>1. "query" \in E!PC \ Working
        BY DEF E!PC, Working
    <2> QED
        BY <1>1, <2>1, IdleEffect
<1>3. /\ Head(channel[n]) \in Nat /\ Tail(channel[n]) \in Seq(Nat)
      /\ Head(channel[n]) = channel[n][1] /\ 1 \in 1 .. Len(channel[n])
      /\ \A i \in 1 .. Len(Tail(channel[n])) : /\ i + 1 \in 1 .. Len(channel[n])
                                               /\ Tail(channel[n])[i] = channel[n][i + 1]
    <2>1. channel[n] \in Seq(Nat) /\ channel[n] # << >>
        BY <1>t, <1>1
    <2> QED
        BY <2>1
<1>4. LedgersEffect
    <2>1. /\ last_known_ledger' \in [Node -> Nat] /\ current_ledger' \in [Node -> Nat]
          /\ channel' \in [Node -> Seq(Nat)]
        BY <1>t, <1>1, <1>3
    <2>2. ASSUME NEW m \in Node, Behind(m)
          PROVE  Behind(m)'
        <3>1. CASE m = n
            BY <1>t, <1>1, <1>3, <2>2, <3>1 DEF Behind
        <3>2. CASE m # n
            BY <1>t, <1>1, <2>2, <3>2 DEF Behind
        <3> QED
            BY <3>1, <3>2
    <2> QED
        BY <2>1, <2>2 DEF LedgersEffect
<1> QED
    BY <1>1, <1>2, <1>4, NoEffect DEF NodeEffect

\* A query finds tasks of the view or none.
LEMMA QueryOkEffect ==
    ASSUME NetworkInv, NEW n \in Node,
           NEW found \in {{}, E!ExecutableTasks(current_ledger[n])}, E!QueryOk(n, found),
           UNCHANGED <<vars, applied>>
    PROVE  NodeEffect
<1> USE DEF NetworkInv
<1>1. /\ pc' = [pc EXCEPT ![n] = "classify"] /\ todo' = [todo EXCEPT ![n] = found]
      /\ UNCHANGED <<ledger, last_known_ledger, channel, view, txs, current_ledger, role, task,
                     hash, confirmed>>
    BY DEF E!QueryOk, E!chain, E!poller, E!job, E!shared, vars
<1>2. JobEffect /\ HashEffect
    <2>1. "classify" \in E!PC \ Working
        BY DEF E!PC, Working
    <2> QED
        BY <1>1, <2>1, IdleEffect
<1>3. E!ExecutableTasks(current_ledger[n]) \subseteq E!RemoteTask
    <2>1. ASSUME NEW id \in DOMAIN view
          PROVE  /\ id \in {<<0, DeployLedger>>} /\ view[id].next_allowed_execution \in Nat
                 /\ view[id].designated_keeper \in Address
        <3>1. id \in {<<0, DeployLedger>>} /\ view[id] \in ExecutionTask
            BY DEF NetworkTyped
        <3> QED
            BY <3>1 DEF ExecutionTask
    <2> QED
        BY <2>1 DEF E!ExecutableTasks, E!RemoteTask
<1>4. TodoEffect
    BY <1>1, <1>3 DEF TodoEffect, NetworkTyped
<1> QED
    BY <1>1, <1>2, <1>4, NoEffect DEF NodeEffect

\* A skipped cycle, a skipped task and the end of a cycle.
LEMMA IdleStepEffect ==
    ASSUME NetworkInv, NEW n \in Node,
           E!QueryFailed(n) \/ E!EndCycle(n) \/ \E t \in todo[n] : E!Skip(n, t),
           UNCHANGED <<vars, applied>>
    PROVE  NodeEffect
<1> USE DEF NetworkInv
<1>1. CASE E!QueryFailed(n) \/ E!EndCycle(n)
    <2>1. /\ pc' = [pc EXCEPT ![n] = "recv"]
          /\ UNCHANGED <<ledger, last_known_ledger, channel, view, txs, current_ledger, todo,
                         role, task, hash, confirmed>>
        BY <1>1 DEF E!QueryFailed, E!EndCycle, E!chain, E!poller, E!job, E!shared, vars
    <2>2. "recv" \in E!PC \ Working
        BY DEF E!PC, Working
    <2>3. JobEffect /\ HashEffect
        BY <2>1, <2>2, IdleEffect
    <2> QED
        BY <2>1, <2>3, NoEffect DEF NodeEffect
<1>2. ASSUME NEW t \in todo[n], E!Skip(n, t)
      PROVE  NodeEffect
    <2>1. /\ todo' = [todo EXCEPT ![n] = todo[n] \ {t}]
          /\ UNCHANGED <<ledger, last_known_ledger, channel, pc, view, txs, current_ledger,
                         role, task, hash, confirmed>>
        BY <1>2 DEF E!Skip, E!chain, E!poller, E!job, E!shared, vars
    <2>2. TodoEffect
        BY <2>1 DEF TodoEffect, NetworkTyped
    <2> QED
        BY <2>1, <2>2, NoEffect DEF NodeEffect
<1> QED
    BY <1>1, <1>2

\* A role that classify_and_dispatch finds is one of the four.
LEMMA ClassifiedType ==
    ASSUME NEW m, NEW t, NEW l
    PROVE  E!ClassifiedRole(m, t, l) \in E!Role
BY DEF E!ClassifiedRole, E!GraceRole, E!Role

\* A dispatched task is taken from the list with the role classified for it.
LEMMA DispatchEffect ==
    ASSUME NetworkInv, NEW n \in Node, NEW t \in todo[n], E!Dispatch(n, t),
           UNCHANGED <<vars, applied>>
    PROVE  NodeEffect
<1> USE DEF NetworkInv
<1> DEFINE r == E!ClassifiedRole(n, t, current_ledger[n])
<1>1. /\ todo' = [todo EXCEPT ![n] = todo[n] \ {t}] /\ task' = [task EXCEPT ![n] = t]
      /\ role' = [role EXCEPT ![n] = r] /\ pc' = [pc EXCEPT ![n] = "send"]
      /\ UNCHANGED <<ledger, last_known_ledger, channel, view, txs, current_ledger, hash, confirmed>>
    BY DEF E!Dispatch, E!chain, E!poller, vars
<1>2. r \in E!Role
    BY ClassifiedType
<1>t. /\ pc \in [Node -> E!PC] /\ role \in [Node -> E!Role] /\ hash \in [Node -> Nat]
      /\ todo \in [Node -> SUBSET E!RemoteTask] /\ task \in [Node -> E!RemoteTask \cup {NoTask}]
    BY DEF NetworkTyped
<1>3. TodoEffect
    BY <1>t, <1>1 DEF TodoEffect
<1>4. JobEffect
    <2> HIDE DEF r
    <2>1. /\ pc' \in [Node -> E!PC] /\ role' \in [Node -> E!Role]
          /\ task' \in [Node -> E!RemoteTask \cup {NoTask}]
        BY <1>t, <1>1, <1>2 DEF E!PC
    <2>2. task'[n] = t /\ role'[n] = r
        BY <1>t, <1>1
    <2>3. \A m \in Node : m # n => pc'[m] = pc[m] /\ task'[m] = task[m] /\ role'[m] = role[m]
        BY <1>t, <1>1
    <2> QED
        BY <2>1, <2>2, <2>3 DEF JobEffect, r
<1>5. HashEffect
    BY <1>t, <1>1 DEF HashEffect
<1> QED
    BY <1>1, <1>3, <1>4, <1>5, NoEffect DEF NodeEffect

\* A transaction the network takes is the node's own and comes last.
LEMMA AppendEffect ==
    ASSUME NetworkInv, NEW n \in Node, pc[n] = "send", NEW s \in {"pending", "lost"},
           txs' = Append(txs, E!NewTx(n, s))
    PROVE  /\ TxsEffect
           /\ Len(txs) + 1 \in DOMAIN txs' /\ txs'[Len(txs) + 1].keeper = n
<1> USE DEF NetworkInv
<1> DEFINE tx == E!NewTx(n, s)
<1>1. task[n] \in E!RemoteTask /\ role[n] \in E!Role
    BY DEF TransactionsOwned, Working, NetworkTyped
<1>2. tx \in Tx /\ tx.keeper = n
    BY <1>1 DEF E!NewTx, Tx, E!RemoteTask, E!TxStatus
<1>3. txs \in Seq(Tx)
    BY DEF NetworkTyped
<1>h. txs' = Append(txs, tx)
    OBVIOUS
<1> HIDE DEF tx
<1>4. /\ txs' \in Seq(Tx) /\ Len(txs') = Len(txs) + 1 /\ Len(txs) \in Nat
      /\ \A i \in 1 .. Len(txs) : txs'[i] = txs[i]
      /\ txs'[Len(txs) + 1] = tx
    BY <1>2, <1>3, <1>h
<1>5. DOMAIN txs = 1 .. Len(txs) /\ DOMAIN txs' = 1 .. Len(txs) + 1
    BY <1>3, <1>4
<1>6. \A i \in DOMAIN txs' \ DOMAIN txs : i = Len(txs) + 1
    BY <1>4, <1>5
<1>7. TxsEffect
    BY <1>4, <1>5, <1>6 DEF TxsEffect, tx
<1> QED
    BY <1>2, <1>4, <1>5, <1>7

\* The call failed; the network may hold the transaction all the same.
LEMMA DeliveredEffect ==
    ASSUME NetworkInv, NEW n \in Node, pc[n] = "send", NEW d, E!Delivered(n, d)
    PROVE  TxsEffect
<1>1. CASE d
    BY <1>1, AppendEffect DEF E!Delivered
<1>2. CASE ~d
    BY <1>2, NoEffect DEF E!Delivered, NetworkInv
<1> QED
    BY <1>1, <1>2

\* dispatch returns.
LEMMA FinishEffect ==
    ASSUME NetworkInv, NEW n \in Node, E!FinishDispatch(n)
    PROVE  JobEffect /\ HashEffect
<1>1. "classify" \in E!PC \ Working
    BY DEF E!PC, Working
<1> QED
    BY <1>1, IdleEffect DEF E!FinishDispatch, NetworkInv

\* sendTransaction answers with the hash of a new transaction or of one it knows.
LEMMA SendOkEffect ==
    ASSUME NetworkInv, NEW n \in Node, NEW d,
           E!SendAccepted(n, d) \/ \E i \in DOMAIN txs : E!SendDuplicate(n, i),
           UNCHANGED <<vars, applied>>
    PROVE  NodeEffect
<1> USE DEF NetworkInv
<1>t. /\ pc \in [Node -> E!PC] /\ hash \in [Node -> Nat] /\ role \in [Node -> E!Role]
      /\ task \in [Node -> E!RemoteTask \cup {NoTask}] /\ txs \in Seq(Tx)
    BY DEF NetworkTyped
<1>1. /\ pc[n] = "send" /\ pc' = [pc EXCEPT ![n] = "confirm"]
      /\ UNCHANGED <<ledger, last_known_ledger, channel, view, current_ledger, todo, role, task,
                     confirmed>>
    BY DEF E!SendAccepted, E!SendDuplicate, E!chain, E!poller, E!shared, vars
<1>2. TxsEffect /\ \E h \in Nat : /\ hash' = [hash EXCEPT ![n] = h]
                                 /\ h \in DOMAIN txs' /\ txs'[h].keeper = n
    <2>1. ASSUME E!SendAccepted(n, d)
          PROVE  TxsEffect /\ \E h \in Nat : /\ hash' = [hash EXCEPT ![n] = h]
                                           /\ h \in DOMAIN txs' /\ txs'[h].keeper = n
        <3> DEFINE s == IF d THEN "pending" ELSE "lost"
        <3>1. s \in {"pending", "lost"} /\ txs' = Append(txs, E!NewTx(n, s))
            BY <2>1 DEF E!SendAccepted
        <3>2. hash' = [hash EXCEPT ![n] = Len(txs) + 1] /\ Len(txs) + 1 \in Nat
            BY <1>t, <2>1 DEF E!SendAccepted
        <3> HIDE DEF s
        <3> QED
            BY <1>1, <3>1, <3>2, AppendEffect
    <2>2. ASSUME NEW i \in DOMAIN txs, E!SendDuplicate(n, i)
          PROVE  TxsEffect /\ \E h \in Nat : /\ hash' = [hash EXCEPT ![n] = h]
                                           /\ h \in DOMAIN txs' /\ txs'[h].keeper = n
        <3>1. txs' = txs /\ hash' = [hash EXCEPT ![n] = i]
            BY <2>2 DEF E!SendDuplicate, E!chain
        <3>2. txs[i].keeper = n
            BY <2>2 DEF E!SendDuplicate, E!Envelope, E!NewTx
        <3>3. i \in Nat
            BY <1>t
        <3> QED
            BY <3>1, <3>2, <3>3, NoEffect
    <2> QED
        BY <2>1, <2>2
<1>3. JobEffect
    BY <1>t, <1>1 DEF JobEffect, E!PC, Working
<1>4. HashEffect
    <2>1. PICK h \in Nat : /\ hash' = [hash EXCEPT ![n] = h]
                           /\ h \in DOMAIN txs' /\ txs'[h].keeper = n
        BY <1>2
    <2>2. hash' \in [Node -> Nat] /\ hash'[n] = h
        BY <1>t, <2>1
    <2>3. \A m \in Node : m # n => pc'[m] = pc[m] /\ hash'[m] = hash[m]
        BY <1>t, <1>1, <2>1
    <2> QED
        BY <2>1, <2>2, <2>3 DEF HashEffect
<1> QED
    BY <1>1, <1>2, <1>3, <1>4, NoEffect DEF NodeEffect

\* sendTransaction fails, for now or for good.
LEMMA SendFailedEffect ==
    ASSUME NetworkInv, NEW n \in Node,
           NEW d, E!SendTransient(n, d) \/ E!SendRejected(n, d), UNCHANGED <<vars, applied>>
    PROVE  NodeEffect
<1> USE DEF NetworkInv
<1>1. /\ pc[n] = "send" /\ E!Delivered(n, d)
      /\ \/ E!FinishDispatch(n)
         \/ pc' = [pc EXCEPT ![n] = "backoff"] /\ UNCHANGED <<role, task, hash>>
      /\ UNCHANGED <<ledger, last_known_ledger, channel, view, current_ledger, todo, confirmed>>
    BY DEF E!SendTransient, E!SendRejected, E!poller, E!job, vars
<1>t. /\ pc \in [Node -> E!PC] /\ hash \in [Node -> Nat] /\ role \in [Node -> E!Role]
      /\ task \in [Node -> E!RemoteTask \cup {NoTask}]
    BY DEF NetworkTyped
<1>2. ASSUME pc' = [pc EXCEPT ![n] = "backoff"], UNCHANGED <<role, task, hash>>
      PROVE  JobEffect /\ HashEffect
    <2>1. JobEffect
        BY <1>t, <1>1, <1>2 DEF JobEffect, E!PC, Working
    <2>2. HashEffect
        BY <1>t, <1>1, <1>2 DEF HashEffect
    <2> QED
        BY <2>1, <2>2
<1>3. JobEffect /\ HashEffect
    BY <1>1, <1>2, FinishEffect
<1>4. TxsEffect
    BY <1>1, DeliveredEffect
<1> QED
    BY <1>1, <1>3, <1>4, NoEffect DEF NodeEffect

\* The next attempt keeps task, role and hash.
LEMMA BackoffEffect ==
    ASSUME NetworkInv, NEW n \in Node, E!BackoffElapsed(n), UNCHANGED <<vars, applied>>
    PROVE  NodeEffect
<1> USE DEF NetworkInv
<1>1. /\ pc[n] = "backoff" /\ pc' = [pc EXCEPT ![n] = "send"]
      /\ UNCHANGED <<ledger, last_known_ledger, channel, view, txs, current_ledger, todo, role,
                     task, hash, confirmed>>
    BY DEF E!BackoffElapsed, E!chain, E!poller, E!shared, vars
<1>t. /\ pc \in [Node -> E!PC] /\ hash \in [Node -> Nat] /\ role \in [Node -> E!Role]
      /\ task \in [Node -> E!RemoteTask \cup {NoTask}]
    BY DEF NetworkTyped
<1>2. JobEffect
    BY <1>t, <1>1 DEF JobEffect, E!PC, Working
<1>3. HashEffect
    BY <1>t, <1>1 DEF HashEffect
<1> QED
    BY <1>1, <1>2, <1>3, NoEffect DEF NodeEffect

\* The node records an execution when the chain shows its transaction's success.
LEMMA ConfirmedStepEffect ==
    ASSUME NetworkInv, NEW n \in Node, E!Confirmed(n), UNCHANGED <<vars, applied>>
    PROVE  NodeEffect
<1> USE DEF NetworkInv
<1>1. /\ pc[n] = "confirm" /\ pc' = [pc EXCEPT ![n] = "done"]
      /\ confirmed' = [confirmed EXCEPT ![n] = TRUE]
      /\ UNCHANGED <<ledger, last_known_ledger, channel, view, txs, current_ledger, todo, role,
                     task, hash>>
    BY DEF E!Confirmed, E!chain, E!poller, E!job, vars
<1>t. /\ pc \in [Node -> E!PC] /\ hash \in [Node -> Nat] /\ role \in [Node -> E!Role]
      /\ task \in [Node -> E!RemoteTask \cup {NoTask}] /\ confirmed \in [Node -> BOOLEAN]
    BY DEF NetworkTyped
<1>2. JobEffect
    BY <1>t, <1>1 DEF JobEffect, E!PC, Working
<1>3. HashEffect
    BY <1>t, <1>1 DEF HashEffect
<1>4. txs[hash[n]].status = "success"
    BY DEF E!Confirmed, E!get_transaction, E!call
<1>5. ConfirmedEffect
    BY <1>t, <1>1, <1>4 DEF ConfirmedEffect
<1> QED
    BY <1>1, <1>2, <1>3, <1>5, NoEffect DEF NodeEffect

\* Every other answer to the confirmation, and the end of a confirmed task.
LEMMA FinishStepEffect ==
    ASSUME NetworkInv, NEW n \in Node,
           (\E answer : E!ConfirmedFailed(n, answer)) \/ E!ConfirmFailed(n) \/ E!Done(n),
           UNCHANGED <<vars, applied>>
    PROVE  NodeEffect
<1>1. /\ E!FinishDispatch(n)
      /\ UNCHANGED <<ledger, last_known_ledger, channel, view, txs, current_ledger, todo,
                     confirmed>>
    BY DEF E!ConfirmedFailed, E!ConfirmFailed, E!Done, E!chain, E!poller, vars
<1> QED
    BY <1>1, FinishEffect, NoEffect DEF NodeEffect, NetworkInv

\* A ledger is open once the contract is deployed.
LEMMA OpenLedger == NetworkInv => ledger \in Nat /\ ledger > 0
<1> SUFFICES ASSUME NetworkInv PROVE ledger \in Nat /\ ledger > 0
    OBVIOUS
<1> DEFINE id == <<0, DeployLedger>>
<1>1. id \in DOMAIN tasks /\ id[2] = DeployLedger
    BY DEF NetworkInv, NetworkTyped
<1>2. ledger \in Nat /\ id[2] <= ledger
    BY <1>1 DEF NetworkInv, AnchorInv, TypeOK, IdsIssued
<1> QED
    BY <1>1, <1>2

\* A new process starts from nothing.
LEMMA RestartEffect ==
    ASSUME NetworkInv, NEW n \in Node, E!Restart(n), UNCHANGED <<vars, applied>>
    PROVE  NodeEffect
<1> USE DEF NetworkInv
<1>1. /\ last_known_ledger' = [last_known_ledger EXCEPT ![n] = 0]
      /\ channel' = [channel EXCEPT ![n] = << >>]
      /\ pc' = [pc EXCEPT ![n] = "recv"]
      /\ current_ledger' = [current_ledger EXCEPT ![n] = 0]
      /\ todo' = [todo EXCEPT ![n] = {}] /\ task' = [task EXCEPT ![n] = NoTask]
      /\ role' = [role EXCEPT ![n] = "None"] /\ hash' = [hash EXCEPT ![n] = 0]
      /\ confirmed' = [confirmed EXCEPT ![n] = FALSE]
      /\ UNCHANGED <<ledger, view, txs>>
    BY DEF E!Restart, E!chain, vars
<1>t. /\ ledger \in Nat /\ 0 < ledger
      /\ last_known_ledger \in [Node -> Nat] /\ current_ledger \in [Node -> Nat]
      /\ channel \in [Node -> Seq(Nat)] /\ confirmed \in [Node -> BOOLEAN]
      /\ todo \in [Node -> SUBSET E!RemoteTask]
    BY OpenLedger DEF NetworkTyped
<1>2. JobEffect /\ HashEffect
    <2>1. "recv" \in E!PC \ Working
        BY DEF E!PC, Working
    <2> QED
        BY <1>1, <2>1, IdleEffect
<1>3. TodoEffect
    BY <1>t, <1>1 DEF TodoEffect
<1>4. ConfirmedEffect
    BY <1>t, <1>1 DEF ConfirmedEffect
<1>5. LedgersEffect
    <2>1. /\ last_known_ledger' \in [Node -> Nat] /\ current_ledger' \in [Node -> Nat]
          /\ channel' \in [Node -> Seq(Nat)]
        BY <1>t, <1>1
    <2>2. ASSUME NEW m \in Node, Behind(m)
          PROVE  Behind(m)'
        <3>1. CASE m = n
            BY <1>t, <1>1, <3>1 DEF Behind
        <3>2. CASE m # n
            BY <1>t, <1>1, <2>2, <3>2 DEF Behind
        <3> QED
            BY <3>1, <3>2
    <2> QED
        BY <2>1, <2>2 DEF LedgersEffect
<1> QED
    BY <1>1, <1>2, <1>3, <1>4, <1>5, NoEffect DEF NodeEffect

\* Every step of a node is one of these.
LEMMA NodeStepEffect ==
    ASSUME NetworkInv, NEW n \in Node, NodeStep(n)
    PROVE  NodeEffect /\ UNCHANGED <<vars, applied>>
<1>0. UNCHANGED <<vars, applied>>
    BY DEF NodeStep
<1>1. ASSUME E!PollerStep(n) PROVE NodeEffect
    BY <1>0, <1>1, PollOkEffect, PollErrorEffect DEF E!PollerStep
<1>2. ASSUME E!PipelineStep(n) PROVE NodeEffect
    <2>1. ASSUME NEW o \in E!SendOutcomes, E!Send(n, o[1], o[2]) PROVE NodeEffect
        BY <1>0, <2>1, SendOkEffect, SendFailedEffect DEF E!Send
    <2> QED
        BY <1>0, <1>2, <2>1, BackoffEffect, ConfirmedStepEffect, FinishStepEffect
        DEF E!PipelineStep
<1>3. ASSUME E!DiscoveryStep(n) PROVE NodeEffect
    BY <1>0, <1>2, <1>3, RecvEffect, QueryOkEffect, IdleStepEffect, DispatchEffect
    DEF E!DiscoveryStep
<1> QED
    BY <1>0, <1>1, <1>3, RestartEffect DEF NodeStep

-----------------------------------------------------------------------------
(* What a step of the network does to the contract and to transactions. *)

Executed(id, c) == ExecuteUnslashed(id, c) \/ ExecuteSecondary(id, c)

\* Whatever the chain says of a transaction, it stays the transaction it was.
TxsKept ==
    /\ DOMAIN txs \subseteq DOMAIN txs'
    /\ \A i \in DOMAIN txs : /\ txs'[i].keeper = txs[i].keeper /\ txs'[i].id = txs[i].id
                             /\ txs'[i].role = txs[i].role /\ txs'[i].next = txs[i].next

\* The registered keepers and the tasks with their owners stay the same.
ContractKept ==
    /\ ledger' \in {ledger, ledger + 1}
    /\ DOMAIN keepers' = DOMAIN keepers /\ DOMAIN tasks' = DOMAIN tasks
    /\ \A id \in DOMAIN tasks : tasks'[id].designated_keeper = tasks[id].designated_keeper

\* A run moves its task and credits its caller.
LEMMA ExecutedFacts ==
    ASSUME AnchorInv, NEW id \in DOMAIN tasks, NEW c \in Address, Executed(id, c)
    PROVE  /\ [Next]_vars /\ ContractKept /\ ledger' = ledger
           /\ c \in DOMAIN keepers
           /\ \A k \in DOMAIN keepers : keepers'[k].total_executions
                = IF k = c THEN keepers[k].total_executions + 1 ELSE keepers[k].total_executions
           /\ \A x \in DOMAIN tasks : x # id => tasks'[x] = tasks[x]
<1>t. tasks \in [DOMAIN tasks -> ExecutionTask]
    BY DEF AnchorInv, TypeOK
<1>1. [Next]_vars
    BY DEF Next, Executed
<1>2. Ran(id)
    BY ExecutionRuns DEF Executed
<1>3. c \in DOMAIN keepers /\ Credits' = [Credits EXCEPT ![c] = @ + 1]
    BY ExecutionCredits DEF Executed
<1>4. DOMAIN keepers' = DOMAIN keepers
    BY UnslashedKeepers, SecondaryKeepers DEF Executed
<1>5. /\ ledger' = ledger /\ DOMAIN tasks' = DOMAIN tasks
      /\ \A x \in DOMAIN tasks : x # id => tasks'[x] = tasks[x]
      /\ tasks'[id] = Rescheduled(tasks[id])
    BY <1>t, <1>2 DEF Ran
<1>6. \A x \in DOMAIN tasks : tasks'[x].designated_keeper = tasks[x].designated_keeper
    BY <1>t, <1>5, RescheduledFields
<1>7. \A k \in DOMAIN keepers : keepers'[k].total_executions
         = IF k = c THEN keepers[k].total_executions + 1 ELSE keepers[k].total_executions
    BY <1>3, <1>4 DEF Credits
<1> QED
    BY <1>1, <1>3, <1>4, <1>5, <1>6, <1>7 DEF ContractKept

\* A transaction names the task, and the run it was signed for.
LEMMA TxFields ==
    ASSUME NetworkInv
    PROVE  \A i \in DOMAIN txs : txs[i].id \in DOMAIN tasks /\ txs[i].next \in Nat
<1>1. \A i \in DOMAIN txs : txs[i] \in Tx
    BY DEF NetworkInv, NetworkTyped
<1>2. \A x \in Tx : x.id = <<0, DeployLedger>> /\ x.next \in Nat
    BY DEF Tx
<1>3. <<0, DeployLedger>> \in DOMAIN tasks
    BY DEF NetworkInv, NetworkTyped
<1> QED
    BY <1>1, <1>2, <1>3

\* A transaction is applied once, with what execute_drip_split returns for it.
LEMMA ApplyTxFacts ==
    ASSUME NetworkInv, NEW i \in DOMAIN txs, NEW d \in BOOLEAN, ApplyTx(i, d)
    PROVE  /\ i \notin DOMAIN applied
           /\ txs[i].id \in DOMAIN tasks /\ txs[i].keeper \in Node /\ txs[i].keeper \in Address
           /\ DOMAIN applied' = DOMAIN applied \cup {i}
           /\ \A j \in DOMAIN applied : applied'[j] = applied[j]
           /\ applied'[i].result = ExecuteResult(txs[i].id, txs[i].keeper, d)
           /\ applied'[i].run = tasks[txs[i].id].next_allowed_execution
           /\ applied'[i].run \in Nat
           /\ applied'[i].result = "Ok" => Executed(txs[i].id, txs[i].keeper)
           /\ applied'[i].result # "Ok" => UNCHANGED vars
           /\ UNCHANGED <<view, txs, node>> /\ txs[i].status = "pending"
<1> DEFINE id == txs[i].id
           res == ExecuteResult(id, txs[i].keeper, d)
           rec == [result |-> res, ledger |-> ledger, run |-> tasks[id].next_allowed_execution]
<1>1. txs[i] \in Tx
    BY DEF NetworkInv, NetworkTyped
<1>2. id \in DOMAIN tasks /\ txs[i].keeper \in Node /\ txs[i].keeper \in Address
    BY <1>1 DEF Tx, NetworkInv, NetworkTyped
<1>3. tasks[id].next_allowed_execution \in Nat
    BY <1>2 DEF NetworkInv, AnchorInv, TypeOK, ExecutionTask
<1>4. /\ txs[i].status = "pending" /\ i \notin DOMAIN applied
      /\ applied' = Put(applied, i, rec)
      /\ res = "Ok" => Executed(id, txs[i].keeper)
      /\ res # "Ok" => UNCHANGED vars
      /\ UNCHANGED <<view, txs, node>>
    BY DEF ApplyTx, Executed
<1>5. rec.result = res /\ rec.run = tasks[id].next_allowed_execution
    OBVIOUS
<1> HIDE DEF rec, res
<1>6. /\ DOMAIN applied' = DOMAIN applied \cup {i} /\ applied'[i] = rec
      /\ \A j \in DOMAIN applied : applied'[j] = applied[j]
    BY <1>4 DEF Put
<1> QED
    BY <1>2, <1>3, <1>4, <1>5, <1>6 DEF res

\* A closing ledger decides the transactions it applied and changes nothing else
\* of them.
LEMMA CloseFacts ==
    ASSUME NetworkInv, NetworkClose
    PROVE  /\ [Next]_vars /\ ContractKept /\ ledger' = ledger + 1
           /\ tasks' = tasks /\ keepers' = keepers /\ view' = tasks
           /\ applied' = applied /\ UNCHANGED node
           /\ TxsKept /\ txs' \in Seq(Tx) /\ DOMAIN txs' = DOMAIN txs
           /\ \A i \in DOMAIN txs : txs'[i].status = "success" =>
                 IF i \in DOMAIN applied THEN applied[i].result = "Ok"
                 ELSE txs[i].status = "success"
<1>1. /\ CloseLedger /\ ledger' = ledger + 1 /\ tasks' = tasks /\ keepers' = keepers
      /\ view' = tasks /\ applied' = applied /\ UNCHANGED node
    BY DEF NetworkClose, CloseLedger, storage
<1>2. [Next]_vars
    BY <1>1 DEF Next
<1> DEFINE st(i) == IF applied[i].result = "Ok" THEN "success" ELSE "failed"
<1>3. txs \in Seq(Tx) /\ DOMAIN txs = 1 .. Len(txs) /\ Len(txs) \in Nat
    BY DEF NetworkInv, NetworkTyped
<1>4. txs' = [i \in DOMAIN txs |-> IF i \notin DOMAIN applied THEN txs[i]
                                   ELSE [txs[i] EXCEPT !.status = st(i)]]
    BY DEF NetworkClose
<1>5. \A i : st(i) \in E!TxStatus /\ (st(i) = "success" => applied[i].result = "Ok")
    BY DEF E!TxStatus
<1> HIDE DEF st
<1>6. ASSUME NEW i \in DOMAIN txs
      PROVE  /\ txs'[i] \in Tx
             /\ txs'[i].keeper = txs[i].keeper /\ txs'[i].id = txs[i].id
             /\ txs'[i].role = txs[i].role /\ txs'[i].next = txs[i].next
             /\ txs'[i].status = IF i \in DOMAIN applied THEN st(i) ELSE txs[i].status
    <2>1. txs[i] \in Tx
        BY <1>3
    <2>2. txs'[i] = IF i \notin DOMAIN applied THEN txs[i] ELSE [txs[i] EXCEPT !.status = st(i)]
        BY <1>4
    <2> QED
        BY <1>5, <2>1, <2>2 DEF Tx
<1>7. txs' \in [1 .. Len(txs) -> Tx] /\ DOMAIN txs' = DOMAIN txs
    BY <1>3, <1>4, <1>6
<1>8. txs' \in Seq(Tx)
    BY <1>3, <1>7
<1> QED
    BY <1>1, <1>2, <1>5, <1>6, <1>7, <1>8 DEF TxsKept, ContractKept

-----------------------------------------------------------------------------
(* The invariant of the network. *)

\* The setup calls leave the contract and the nodes in order.
LEMMA NetworkInvInit == NetworkInit => NetworkInv
<1> SUFFICES ASSUME NetworkInit PROVE NetworkInv
    OBVIOUS
<1> DEFINE T0 == <<0, DeployLedger>>
<1>1. PICK registered \in {Address, Address \ Node}, stake \in Stakes :
          /\ stake >= minKeeperStake
          /\ keepers = [a \in registered |->
                          [stake_amount |-> stake, last_execution_ledger |-> 0,
                           total_executions |-> 0, ineligible |-> FALSE]]
          /\ pledged = [a \in registered |-> stake]
          /\ \E d \in registered, interval \in Intervals \ {0}, reward \in Rewards :
                /\ reward > 0
                /\ tasks = [id \in {T0} |->
                              [execution_interval_ledgers |-> interval,
                               next_allowed_execution |-> AddU32(DeployLedger, interval),
                               micro_reward_per_run |-> reward,
                               designated_keeper |-> d]]
    BY Zenon DEF NetworkInit
<1>2. PICK d \in registered, interval \in Intervals \ {0}, reward \in Rewards :
          tasks = [id \in {T0} |->
                     [execution_interval_ledgers |-> interval,
                      next_allowed_execution |-> AddU32(DeployLedger, interval),
                      micro_reward_per_run |-> reward, designated_keeper |-> d]]
    BY <1>1
<1>3. /\ ledger = DeployLedger /\ admin \in Address /\ minKeeperStake \in MinStakes
      /\ runs = [id \in DOMAIN tasks |-> 0] /\ taskCounter = 1 /\ treasury = 0
      /\ secondaryPaid = 0 /\ funded \in Deposits /\ balance = funded
    BY DEF NetworkInit
<1>4. DOMAIN keepers = registered /\ DOMAIN tasks = {T0} /\ registered \subseteq Address
    BY <1>1, <1>2
<1>5. AddU32(DeployLedger, interval) \in Nat /\ interval \in Nat
    <2>1. interval \in Nat /\ DeployLedger \in Nat
        OBVIOUS
    <2> QED
        BY <2>1, AddU32Type
<1>6. AnchorInv
    <2>1. keepers \in [DOMAIN keepers -> Keeper] /\ pledged \in [DOMAIN keepers -> Int]
        BY <1>1, <1>4 DEF Keeper
    <2>2. tasks \in [DOMAIN tasks -> ExecutionTask] /\ tasks[T0].designated_keeper = d
        BY <1>2, <1>4, <1>5 DEF ExecutionTask
    <2>3. DOMAIN tasks \subseteq TaskId /\ runs \in [DOMAIN tasks -> Nat]
        BY <1>3, <1>4 DEF TaskId
    <2>4. TypeOK
        BY <1>3, <1>4, <2>1, <2>2, <2>3 DEF TypeOK
    <2>5. DesignatedRegistered /\ TasksAfterInitialize
        BY <1>3, <1>4, <2>2 DEF DesignatedRegistered, TasksAfterInitialize
    <2>6. IdsIssued
        BY <1>3, <1>4 DEF IdsIssued
    <2> QED
        BY <2>4, <2>5, <2>6 DEF AnchorInv
<1>7. /\ DOMAIN view = {} /\ txs = << >> /\ DOMAIN applied = {} /\ E!EngineInit
    BY DEF NetworkInit
<1>8. NetworkTyped
    <2>1. /\ view \in [DOMAIN view -> ExecutionTask] /\ DOMAIN view \subseteq DOMAIN tasks
          /\ DOMAIN applied \subseteq DOMAIN txs /\ \A i \in DOMAIN applied : applied[i].run \in Nat
        BY <1>7 DEF NetworkInit
    <2>2. txs \in Seq(Tx)
        BY <1>7
    <2>3. /\ last_known_ledger \in [Node -> Nat] /\ current_ledger \in [Node -> Nat]
          /\ channel \in [Node -> Seq(Nat)]
          /\ pc \in [Node -> E!PC] /\ role \in [Node -> E!Role] /\ hash \in [Node -> Nat]
          /\ todo \in [Node -> SUBSET E!RemoteTask]
          /\ task \in [Node -> E!RemoteTask \cup {NoTask}]
          /\ confirmed \in [Node -> BOOLEAN]
        BY <1>7 DEF E!EngineInit, E!PC, E!Role
    <2> QED
        BY <1>4, <2>1, <2>2, <2>3 DEF NetworkTyped
<1>9. TransactionsOwned
    BY <1>7 DEF TransactionsOwned, E!EngineInit, Working
<1> QED
    BY <1>6, <1>8, <1>9 DEF NetworkInv

\* Transactions that are the same are owned as before.
LEMMA NetworkInvClose ==
    ASSUME NetworkInv, NetworkClose
    PROVE  NetworkInv'
<1> USE DEF NetworkInv
<1>f. /\ [Next]_vars /\ tasks' = tasks /\ keepers' = keepers /\ view' = tasks
      /\ applied' = applied /\ UNCHANGED node
      /\ TxsKept /\ txs' \in Seq(Tx) /\ DOMAIN txs' = DOMAIN txs
      /\ \A i \in DOMAIN txs : txs'[i].status = "success" =>
            IF i \in DOMAIN applied THEN applied[i].result = "Ok"
            ELSE txs[i].status = "success"
    BY CloseFacts
<1>1. AnchorInv'
    BY <1>f, AnchorInvStep
<1>2. NetworkTyped'
    BY <1>f DEF NetworkTyped, node, AnchorInv, TypeOK
<1>3. TransactionsOwned'
    <2>1. \A i \in DOMAIN txs' :
             txs'[i].status = "success" => i \in DOMAIN applied' /\ applied'[i].result = "Ok"
        BY <1>f DEF TransactionsOwned
    <2>2. \A i \in DOMAIN applied' : applied'[i].result = "Ok" => txs'[i].keeper \in DOMAIN keepers'
        BY <1>f DEF TransactionsOwned, NetworkTyped, TxsKept
    <2>3. ASSUME NEW n \in Node
          PROVE  /\ pc'[n] \in Working => task'[n] \in E!RemoteTask
                 /\ pc'[n] = "confirm" => hash'[n] \in DOMAIN txs' /\ txs'[hash'[n]].keeper = n
        BY <1>f DEF TransactionsOwned, TxsKept, node
    <2> QED
        BY <2>1, <2>2, <2>3 DEF TransactionsOwned
<1> QED
    BY <1>1, <1>2, <1>3

\* A transaction that is applied gets one outcome, for a registered keeper if Ok.
LEMMA NetworkInvApply ==
    ASSUME NetworkInv, NEW i \in DOMAIN txs, NEW d \in BOOLEAN, ApplyTx(i, d)
    PROVE  NetworkInv'
<1> USE DEF NetworkInv
<1>f. /\ i \notin DOMAIN applied
      /\ txs[i].id \in DOMAIN tasks /\ txs[i].keeper \in Address
      /\ DOMAIN applied' = DOMAIN applied \cup {i}
      /\ \A j \in DOMAIN applied : applied'[j] = applied[j]
      /\ applied'[i].run \in Nat
      /\ applied'[i].result = "Ok" => Executed(txs[i].id, txs[i].keeper)
      /\ applied'[i].result # "Ok" => UNCHANGED vars
      /\ UNCHANGED <<view, txs, node>>
    BY ApplyTxFacts
<1>1. /\ [Next]_vars /\ DOMAIN tasks' = DOMAIN tasks /\ DOMAIN keepers' = DOMAIN keepers
      /\ applied'[i].result = "Ok" => txs[i].keeper \in DOMAIN keepers
    <2>1. CASE applied'[i].result = "Ok"
        BY <1>f, <2>1, ExecutedFacts DEF ContractKept
    <2>2. CASE applied'[i].result # "Ok"
        BY <1>f, <2>2 DEF vars, storage
    <2> QED
        BY <2>1, <2>2
<1>2. AnchorInv'
    BY <1>1, AnchorInvStep
<1>3. NetworkTyped'
    BY <1>f, <1>1 DEF NetworkTyped, node
<1>4. TransactionsOwned'
    <2>1. \A j \in DOMAIN txs :
             txs[j].status = "success" => j \in DOMAIN applied' /\ applied'[j].result = "Ok"
        BY <1>f DEF TransactionsOwned
    <2>2. \A j \in DOMAIN applied' : applied'[j].result = "Ok" => txs[j].keeper \in DOMAIN keepers'
        BY <1>f, <1>1 DEF TransactionsOwned
    <2>3. /\ txs' = txs /\ pc' = pc /\ task' = task /\ hash' = hash
        BY <1>f DEF node
    <2> QED
        BY <2>1, <2>2, <2>3 DEF TransactionsOwned
<1> QED
    BY <1>2, <1>3, <1>4

\* Another keeper's run touches no transaction and no node.
LEMMA NetworkInvOther ==
    ASSUME NetworkInv, NEW id \in DOMAIN tasks, NEW c \in Address, OtherKeeper(id, c)
    PROVE  NetworkInv'
<1> USE DEF NetworkInv
<1>1. Executed(id, c) /\ UNCHANGED <<view, txs, applied, node>>
    BY DEF OtherKeeper, Executed
<1>2. [Next]_vars /\ DOMAIN tasks' = DOMAIN tasks /\ DOMAIN keepers' = DOMAIN keepers
    BY <1>1, ExecutedFacts DEF ContractKept
<1>3. AnchorInv'
    BY <1>2, AnchorInvStep
<1>4. NetworkTyped'
    BY <1>1, <1>2 DEF NetworkTyped, node
<1>5. TransactionsOwned'
    BY <1>1, <1>2 DEF TransactionsOwned, node
<1> QED
    BY <1>3, <1>4, <1>5

\* A node adds transactions of its own and follows those.
LEMMA NetworkInvNode ==
    ASSUME NetworkInv, NodeEffect, UNCHANGED <<vars, applied>>
    PROVE  NetworkInv'
<1> USE DEF NetworkInv
<1>1. AnchorInv'
    BY AnchorInvStep
<1>2. keepers' = keepers /\ tasks' = tasks /\ applied' = applied /\ view' = view
    BY DEF vars, storage, NodeEffect
<1>3. /\ txs' \in Seq(Tx) /\ DOMAIN txs \subseteq DOMAIN txs'
      /\ \A i \in DOMAIN txs : txs'[i] = txs[i]
      /\ \A i \in DOMAIN txs' \ DOMAIN txs : txs'[i].status # "success"
    BY DEF NodeEffect, TxsEffect, E!NewTx
<1>4. NetworkTyped'
    BY <1>2, <1>3 DEF NetworkTyped, NodeEffect, LedgersEffect, TodoEffect, JobEffect, HashEffect,
                      ConfirmedEffect
<1>5. TransactionsOwned'
    <2>1. \A i \in DOMAIN txs' :
             txs'[i].status = "success" => i \in DOMAIN applied' /\ applied'[i].result = "Ok"
        BY <1>2, <1>3 DEF TransactionsOwned
    <2>2. \A i \in DOMAIN applied' : applied'[i].result = "Ok" => txs'[i].keeper \in DOMAIN keepers'
        BY <1>2, <1>3 DEF TransactionsOwned, NetworkTyped
    <2>3. ASSUME NEW n \in Node, pc'[n] \in Working PROVE task'[n] \in E!RemoteTask
        BY <2>3 DEF NodeEffect, JobEffect, NetworkTyped, TransactionsOwned
    <2>4. ASSUME NEW n \in Node, pc'[n] = "confirm"
          PROVE  hash'[n] \in DOMAIN txs' /\ txs'[hash'[n]].keeper = n
        BY <1>3, <2>4 DEF NodeEffect, HashEffect, TransactionsOwned
    <2> QED
        BY <2>1, <2>2, <2>3, <2>4 DEF TransactionsOwned
<1> QED
    BY <1>1, <1>4, <1>5

\* The four kinds of steps; a stuttering step is a node's that does nothing.
LEMMA NetworkSteps ==
    ASSUME NetworkInv, [NetworkNext]_netVars
    PROVE  \/ NetworkClose
           \/ \E i \in DOMAIN txs, d \in BOOLEAN : ApplyTx(i, d)
           \/ \E id \in DOMAIN tasks, c \in Address \ Node : OtherKeeper(id, c)
           \/ NodeEffect /\ UNCHANGED <<vars, applied>>
<1>1. CASE UNCHANGED netVars
    <2>1. UNCHANGED <<vars, applied, view, txs, node>>
        BY <1>1 DEF netVars
    <2>2. UNCHANGED <<ledger, last_known_ledger, current_ledger, channel, todo, pc, role, task,
                      hash, confirmed>>
        BY <2>1 DEF vars, node
    <2>3. NodeEffect
        BY <2>1, <2>2, NoEffect DEF NodeEffect, NetworkInv
    <2> QED
        BY <2>1, <2>3
<1>2. ASSUME NEW n \in Node, NodeStep(n) PROVE NodeEffect /\ UNCHANGED <<vars, applied>>
    BY <1>2, NodeStepEffect
<1> QED
    BY <1>1, <1>2 DEF NetworkNext

\* The invariant is inductive.
LEMMA NetworkInvStep == NetworkInv /\ [NetworkNext]_netVars => NetworkInv'
<1> SUFFICES ASSUME NetworkInv, [NetworkNext]_netVars PROVE NetworkInv'
    OBVIOUS
<1> QED
    BY NetworkSteps, NetworkInvClose, NetworkInvApply, NetworkInvOther, NetworkInvNode

\* The network's records are in order in every state.
LEMMA NetworkInvariant == NetworkSpec => []NetworkInv
BY NetworkInvInit, NetworkInvStep, PTL DEF NetworkSpec

-----------------------------------------------------------------------------
(* Executions reported and credited. *)

Succeeded(n) == {i \in DOMAIN applied : txs[i].keeper = n /\ applied[i].result = "Ok"}

\* There are finitely many transactions.
LEMMA SucceededFinite ==
    ASSUME NetworkInv, NEW n
    PROVE  IsFiniteSet(Succeeded(n)) /\ Cardinality(Succeeded(n)) \in Nat
<1>1. DOMAIN txs = 1 .. Len(txs) /\ Len(txs) \in Nat
    BY DEF NetworkInv, NetworkTyped
<1>2. IsFiniteSet(DOMAIN txs)
    BY <1>1, FS_Interval
<1>3. Succeeded(n) \subseteq DOMAIN txs
    BY DEF Succeeded, NetworkInv, NetworkTyped
<1> QED
    BY <1>2, <1>3, FS_Subset, FS_CardinalityType

\* A successful transaction of a node counts.
LEMMA SucceededCounts ==
    ASSUME NetworkInv, NEW n, NEW i \in Succeeded(n)
    PROVE  Cardinality(Succeeded(n)) > 0
<1>1. IsFiniteSet(Succeeded(n)) /\ Cardinality(Succeeded(n)) \in Nat
    BY SucceededFinite
<1>2. Cardinality(Succeeded(n)) # 0
    BY <1>1, FS_EmptySet
<1> QED
    BY <1>1, <1>2

\* What ReportsCredited says of a node.
LEMMA CreditedIs ==
    /\ ReportsCredited <=> \A n \in Node :
          /\ confirmed[n] => n \in DOMAIN keepers /\ keepers[n].total_executions > 0
          /\ n \in DOMAIN keepers => keepers[n].total_executions = Cardinality(Succeeded(n))
    /\ ReportsCredited' <=> \A n \in Node :
          /\ confirmed'[n] => n \in DOMAIN keepers' /\ keepers'[n].total_executions > 0
          /\ n \in DOMAIN keepers' => keepers'[n].total_executions = Cardinality(Succeeded(n)')
BY DEF ReportsCredited, Succeeded

\* A run of a transaction is one more success of its node.
LEMMA CreditedApply ==
    ASSUME NetworkInv, ReportsCredited, NEW i \in DOMAIN txs, NEW d \in BOOLEAN, ApplyTx(i, d)
    PROVE  ReportsCredited'
<1>f. /\ i \notin DOMAIN applied
      /\ txs[i].id \in DOMAIN tasks /\ txs[i].keeper \in Node /\ txs[i].keeper \in Address
      /\ DOMAIN applied' = DOMAIN applied \cup {i}
      /\ \A j \in DOMAIN applied : applied'[j] = applied[j]
      /\ applied'[i].result = "Ok" => Executed(txs[i].id, txs[i].keeper)
      /\ applied'[i].result # "Ok" => UNCHANGED vars
      /\ UNCHANGED <<view, txs, node>>
    BY ApplyTxFacts
<1>1. txs' = txs /\ confirmed' = confirmed
    BY <1>f DEF node
<1>2. CASE applied'[i].result # "Ok"
    <2>1. keepers' = keepers
        BY <1>f, <1>2 DEF vars, storage
    <2>2. \A n \in Node : Succeeded(n)' = Succeeded(n)
        BY <1>f, <1>1, <1>2 DEF Succeeded
    <2> QED
        BY <1>1, <2>1, <2>2, CreditedIs
<1>3. CASE applied'[i].result = "Ok"
    <2> DEFINE k == txs[i].keeper
    <2>1. /\ DOMAIN keepers' = DOMAIN keepers /\ k \in DOMAIN keepers
          /\ \A x \in DOMAIN keepers : keepers'[x].total_executions
               = IF x = k THEN keepers[x].total_executions + 1 ELSE keepers[x].total_executions
        BY <1>f, <1>3, ExecutedFacts DEF ContractKept, NetworkInv
    <2>2. ASSUME NEW n \in Node, n = k
          PROVE  Succeeded(n)' = Succeeded(n) \cup {i} /\ i \notin Succeeded(n)
        BY <1>f, <1>1, <1>3, <2>2 DEF Succeeded
    <2>3. \A n \in Node : n # k => Succeeded(n)' = Succeeded(n)
        BY <1>f, <1>1 DEF Succeeded
    <2>4. ASSUME NEW n \in Node, n = k
          PROVE  Cardinality(Succeeded(n)') = Cardinality(Succeeded(n)) + 1
        BY <2>2, <2>4, SucceededFinite, FS_AddElement
    <2>5. \A x \in DOMAIN keepers : keepers[x].total_executions \in Nat
        BY DEF NetworkInv, AnchorInv, TypeOK, Keeper
    <2> HIDE DEF k
    <2>6. ASSUME NEW n \in Node
          PROVE  /\ confirmed'[n] => n \in DOMAIN keepers' /\ keepers'[n].total_executions > 0
                 /\ n \in DOMAIN keepers' =>
                      keepers'[n].total_executions = Cardinality(Succeeded(n)')
        <3>1. /\ confirmed[n] => n \in DOMAIN keepers /\ keepers[n].total_executions > 0
              /\ n \in DOMAIN keepers => keepers[n].total_executions = Cardinality(Succeeded(n))
            BY CreditedIs
        <3>2. CASE n = k
            <4>1. n \in DOMAIN keepers /\ n \in DOMAIN keepers'
                BY <2>1, <3>2
            <4>2. /\ keepers'[n].total_executions = keepers[n].total_executions + 1
                  /\ keepers[n].total_executions \in Nat
                BY <2>1, <2>5, <3>2, <4>1
            <4>3. keepers'[n].total_executions = Cardinality(Succeeded(n)')
                BY <2>4, <3>1, <3>2, <4>1, <4>2
            <4>4. keepers'[n].total_executions > 0
                BY <4>2
            <4> QED
                BY <4>1, <4>3, <4>4
        <3>3. CASE n # k
            BY <1>1, <2>1, <2>3, <3>1, <3>3
        <3> QED
            BY <3>2, <3>3
    <2> QED
        BY <2>6, CreditedIs
<1> QED
    BY <1>2, <1>3

\* Reports and credits agree after every step.
LEMMA CreditedStep == NetworkInv /\ ReportsCredited /\ [NetworkNext]_netVars => ReportsCredited'
<1> SUFFICES ASSUME NetworkInv, ReportsCredited, [NetworkNext]_netVars PROVE ReportsCredited'
    OBVIOUS
<1>t. DOMAIN applied \subseteq DOMAIN txs
    BY DEF NetworkInv, NetworkTyped
<1>1. ASSUME NetworkClose PROVE ReportsCredited'
    <2>1. keepers' = keepers /\ applied' = applied /\ UNCHANGED node /\ TxsKept
        BY <1>1, CloseFacts
    <2>2. \A n \in Node : Succeeded(n)' = Succeeded(n)
        BY <1>t, <2>1 DEF Succeeded, TxsKept
    <2>3. confirmed' = confirmed
        BY <2>1 DEF node
    <2> QED
        BY <2>1, <2>2, <2>3, CreditedIs
<1>2. ASSUME NEW id \in DOMAIN tasks, NEW c \in Address \ Node, OtherKeeper(id, c)
      PROVE  ReportsCredited'
    <2>1. Executed(id, c) /\ UNCHANGED <<txs, applied, confirmed>>
        BY <1>2 DEF OtherKeeper, Executed, node
    <2>2. /\ DOMAIN keepers' = DOMAIN keepers
          /\ \A n \in Node \cap DOMAIN keepers :
                keepers'[n].total_executions = keepers[n].total_executions
        BY <2>1, ExecutedFacts DEF ContractKept, NetworkInv
    <2>3. \A n \in Node : Succeeded(n)' = Succeeded(n)
        BY <2>1 DEF Succeeded
    <2> QED
        BY <2>1, <2>2, <2>3, CreditedIs
<1>3. ASSUME NodeEffect, UNCHANGED <<vars, applied>> PROVE ReportsCredited'
    <2>1. keepers' = keepers /\ applied' = applied /\ \A i \in DOMAIN txs : txs'[i] = txs[i]
        BY <1>3 DEF vars, storage, NodeEffect, TxsEffect
    <2>2. \A n \in Node : Succeeded(n)' = Succeeded(n)
        BY <1>t, <2>1 DEF Succeeded
    <2>3. ASSUME NEW n \in Node, confirmed'[n], ~confirmed[n]
          PROVE  n \in DOMAIN keepers /\ keepers[n].total_executions > 0
        <3>1. pc[n] = "confirm" /\ txs[hash[n]].status = "success"
            BY <1>3, <2>3 DEF NodeEffect, ConfirmedEffect
        <3>2. hash[n] \in DOMAIN txs /\ txs[hash[n]].keeper = n
            BY <3>1 DEF NetworkInv, TransactionsOwned
        <3>3. /\ hash[n] \in DOMAIN applied /\ applied[hash[n]].result = "Ok"
              /\ n \in DOMAIN keepers
            BY <3>1, <3>2 DEF NetworkInv, TransactionsOwned
        <3>4. hash[n] \in Succeeded(n)
            BY <3>2, <3>3 DEF Succeeded
        <3>5. Cardinality(Succeeded(n)) > 0
            BY <3>4, SucceededCounts
        <3> QED
            BY <3>3, <3>5, CreditedIs
    <2> QED
        BY <2>1, <2>2, <2>3, CreditedIs
<1> QED
    BY <1>1, <1>2, <1>3, NetworkSteps, CreditedApply

\* health_server.rs and execution.rs: across every restart, retry, duplicate and
\* lost answer, a node that reports an execution was credited with one, and the
\* contract credits it with exactly the transactions of it that succeeded.
THEOREM ReportsAreCredited == NetworkSpec => []ReportsCredited
<1>1. NetworkInit => ReportsCredited
    <2> SUFFICES ASSUME NetworkInit PROVE ReportsCredited
        OBVIOUS
    <2>1. \A n \in Node : ~confirmed[n]
        BY DEF NetworkInit, E!EngineInit
    <2>2. \A n \in Node : Succeeded(n) = {}
        BY DEF NetworkInit, Succeeded
    <2>3. \A k \in DOMAIN keepers : keepers[k].total_executions = 0
        BY DEF NetworkInit
    <2> QED
        BY <2>1, <2>2, <2>3, CreditedIs, FS_EmptySet
<1> QED
    BY <1>1, CreditedStep, NetworkInvariant, PTL DEF NetworkSpec

-----------------------------------------------------------------------------
(* No run is paid twice. *)

\* Every step of the network is a call of the contract, the close of a ledger or
\* leaves the contract alone.
LEMMA NetworkCalls ==
    ASSUME NetworkInv, [NetworkNext]_netVars
    PROVE  [Next]_vars /\ ContractKept
<1>1. ASSUME NetworkClose PROVE [Next]_vars /\ ContractKept
    BY <1>1, CloseFacts
<1>2. ASSUME UNCHANGED vars PROVE [Next]_vars /\ ContractKept
    BY <1>2 DEF vars, storage, ContractKept
<1>3. ASSUME NEW i \in DOMAIN txs, NEW d \in BOOLEAN, ApplyTx(i, d)
      PROVE  [Next]_vars /\ ContractKept
    BY <1>2, <1>3, ApplyTxFacts, ExecutedFacts DEF NetworkInv
<1>4. ASSUME NEW id \in DOMAIN tasks, NEW c \in Address, OtherKeeper(id, c)
      PROVE  [Next]_vars /\ ContractKept
    BY <1>4, ExecutedFacts DEF NetworkInv, OtherKeeper, Executed
<1> QED
    BY <1>1, <1>2, <1>3, <1>4, NetworkSteps

\* The task of the setup is due one interval after its provisioning.
LEMMA InitialTask ==
    ASSUME NetworkInit
    PROVE  \E i \in Intervals \ {0} :
              /\ DOMAIN tasks = {<<0, DeployLedger>>} /\ runs[<<0, DeployLedger>>] = 0
              /\ tasks[<<0, DeployLedger>>].execution_interval_ledgers = i
              /\ tasks[<<0, DeployLedger>>].next_allowed_execution = AddU32(DeployLedger, i)
BY DEF NetworkInit

\* Schedules are spaced from the start.
LEMMA SpacedInit ==
    ASSUME NoLedgerWrap, NetworkInit
    PROVE  RunsSpaced
<1> DEFINE T0 == <<0, DeployLedger>>
<1>1. PICK i \in Intervals \ {0} :
         /\ DOMAIN tasks = {T0} /\ runs[T0] = 0
         /\ tasks[T0].execution_interval_ledgers = i
         /\ tasks[T0].next_allowed_execution = AddU32(DeployLedger, i)
    BY InitialTask
<1>2. i \in Nat /\ i > 0 /\ DeployLedger \in Nat /\ ledger = DeployLedger
    BY DEF NetworkInit
<1>3. AddU32(DeployLedger, i) = DeployLedger + i
    BY NoWrapSum
<1>4. T0[2] = DeployLedger
    OBVIOUS
<1> HIDE DEF T0
<1> QED
    BY <1>1, <1>2, <1>3, <1>4 DEF RunsSpaced

\* Schedules stay spaced.
LEMMA NetworkSpaced ==
    ASSUME NoLedgerWrap
    PROVE  NetworkSpec => []RunsSpaced
<1>1. NetworkInit => RunsSpaced
    BY SpacedInit
<1>2. NetworkInv /\ RunsSpaced /\ [NetworkNext]_netVars => RunsSpaced'
    BY NetworkCalls, RunsSpacedStep DEF NetworkInv
<1> QED
    BY <1>1, <1>2, NetworkInvariant, PTL DEF NetworkSpec

\* A run moves its task beyond the run.
LEMMA ExecutedAdvances ==
    ASSUME NoLedgerWrap, AnchorInv, RunsSpaced, NEW id \in DOMAIN tasks, NEW c \in Address,
           Executed(id, c)
    PROVE  /\ tasks'[id].next_allowed_execution \in Nat
           /\ tasks[id].next_allowed_execution < tasks'[id].next_allowed_execution
<1>t. tasks \in [DOMAIN tasks -> ExecutionTask] /\ ledger \in Nat
    BY DEF AnchorInv, TypeOK
<1>1. Ran(id)
    BY ExecutionRuns DEF Executed
<1>2. tasks'[id].next_allowed_execution = ledger + tasks[id].execution_interval_ledgers
    BY <1>t, <1>1, RescheduledFields, NextRun DEF Ran
<1>3. ~(ledger < tasks[id].next_allowed_execution)
    BY <1>1 DEF Ran
<1>4. /\ tasks[id].execution_interval_ledgers > 0
      /\ tasks[id].execution_interval_ledgers \in Nat /\ tasks[id].next_allowed_execution \in Nat
    BY <1>t DEF RunsSpaced, ExecutionTask
<1> QED
    BY <1>t, <1>2, <1>3, <1>4

\* The transactions a step keeps, seen from the ones that were applied.
LEMMA QuietApplied ==
    ASSUME NetworkInv, [NetworkNext]_netVars,
           ~ \E i \in DOMAIN txs, d \in BOOLEAN : ApplyTx(i, d)
    PROVE  applied' = applied /\ TxsKept
<1>1. ASSUME NetworkClose PROVE applied' = applied /\ TxsKept
    BY <1>1, CloseFacts
<1>2. ASSUME NodeEffect, UNCHANGED <<vars, applied>> PROVE applied' = applied /\ TxsKept
    BY <1>2 DEF NodeEffect, TxsEffect, TxsKept
<1>3. ASSUME NEW id \in DOMAIN tasks, NEW c \in Address, OtherKeeper(id, c)
      PROVE  applied' = applied /\ TxsKept
    BY <1>3 DEF OtherKeeper, TxsKept
<1> QED
    BY <1>1, <1>2, <1>3, NetworkSteps

\* A task's next execution never moves back.
LEMMA NextAdvances ==
    ASSUME NoLedgerWrap, NetworkInv, RunsSpaced, [NetworkNext]_netVars, NEW x \in DOMAIN tasks
    PROVE  /\ tasks[x].next_allowed_execution \in Nat /\ tasks'[x].next_allowed_execution \in Nat
           /\ tasks[x].next_allowed_execution <= tasks'[x].next_allowed_execution
<1>t. tasks[x].next_allowed_execution \in Nat
    BY DEF NetworkInv, AnchorInv, TypeOK, ExecutionTask
<1> DEFINE Moves == /\ tasks'[x].next_allowed_execution \in Nat
                    /\ tasks[x].next_allowed_execution <= tasks'[x].next_allowed_execution
<1>1. ASSUME tasks' = tasks PROVE Moves
    BY <1>t, <1>1
<1>2. ASSUME NEW id \in DOMAIN tasks, NEW c \in Address, Executed(id, c) PROVE Moves
    <2>1. CASE x = id
        BY <1>t, <1>2, <2>1, ExecutedAdvances DEF NetworkInv
    <2>2. CASE x # id
        <3>1. tasks'[x] = tasks[x]
            BY <1>2, <2>2, ExecutedFacts DEF NetworkInv
        <3> QED
            BY <1>t, <3>1
    <2> QED
        BY <2>1, <2>2
<1>3. ASSUME NetworkClose \/ UNCHANGED vars PROVE Moves
    BY <1>1, <1>3, CloseFacts DEF vars, storage
<1>4. ASSUME NEW i \in DOMAIN txs, NEW d \in BOOLEAN, ApplyTx(i, d) PROVE Moves
    BY <1>2, <1>3, <1>4, ApplyTxFacts
<1>5. ASSUME NEW id \in DOMAIN tasks, NEW c \in Address, OtherKeeper(id, c) PROVE Moves
    BY <1>2, <1>5 DEF OtherKeeper, Executed
<1> HIDE DEF Moves
<1>6. Moves
    BY <1>3, <1>4, <1>5, NetworkSteps
<1> QED
    BY <1>t, <1>6 DEF Moves

\* A paid run stays behind, and a new one was ahead of the ones before it.
LEMMA PaidStep ==
    ASSUME NoLedgerWrap, NetworkInv, RunsSpaced, PaidRunsPast, NoDoublePay,
           [NetworkNext]_netVars
    PROVE  PaidRunsPast' /\ NoDoublePay'
<1>t. /\ DOMAIN applied \subseteq DOMAIN txs /\ \A j \in DOMAIN applied : applied[j].run \in Nat
      /\ \A j \in DOMAIN txs : txs[j].id \in DOMAIN tasks
    BY TxFields DEF NetworkInv, NetworkTyped
<1>n. \A x \in DOMAIN tasks :
         /\ tasks[x].next_allowed_execution \in Nat /\ tasks'[x].next_allowed_execution \in Nat
         /\ tasks[x].next_allowed_execution <= tasks'[x].next_allowed_execution
    BY NextAdvances
<1>p. \A j \in DOMAIN applied : applied[j].result = "Ok" =>
         /\ applied[j].run < tasks[txs[j].id].next_allowed_execution
         /\ applied[j].run < tasks'[txs[j].id].next_allowed_execution
    BY <1>t, <1>n DEF PaidRunsPast
<1>1. ASSUME NEW i \in DOMAIN txs, NEW d \in BOOLEAN, ApplyTx(i, d)
      PROVE  PaidRunsPast' /\ NoDoublePay'
    <2>f. /\ i \notin DOMAIN applied /\ txs[i].id \in DOMAIN tasks /\ txs[i].keeper \in Address
          /\ DOMAIN applied' = DOMAIN applied \cup {i}
          /\ \A j \in DOMAIN applied : applied'[j] = applied[j]
          /\ applied'[i].run = tasks[txs[i].id].next_allowed_execution
          /\ applied'[i].result = "Ok" => Executed(txs[i].id, txs[i].keeper)
          /\ txs' = txs
        BY <1>1, ApplyTxFacts
    <2>1. applied'[i].result = "Ok" =>
             applied'[i].run < tasks'[txs[i].id].next_allowed_execution
        BY <2>f, ExecutedAdvances DEF NetworkInv
    <2>2. PaidRunsPast'
        BY <1>p, <2>f, <2>1 DEF PaidRunsPast
    <2>3. \A j \in DOMAIN applied : applied[j].result = "Ok" /\ txs[j].id = txs[i].id =>
             applied[j].run # applied'[i].run
        BY <1>t, <1>n, <1>p, <2>f
    <2>4. NoDoublePay'
        BY <2>f, <2>3 DEF NoDoublePay
    <2> QED
        BY <2>2, <2>4
<1>2. ASSUME applied' = applied, TxsKept
      PROVE  PaidRunsPast' /\ NoDoublePay'
    <2>1. \A j \in DOMAIN applied : txs'[j].id = txs[j].id
        BY <1>t, <1>2 DEF TxsKept
    <2>2. PaidRunsPast'
        BY <1>2, <1>p, <2>1 DEF PaidRunsPast
    <2>3. NoDoublePay'
        BY <1>2, <2>1 DEF NoDoublePay
    <2> QED
        BY <2>2, <2>3
<1> QED
    BY <1>1, <1>2, QuietApplied

\* execution.rs:241: however often retries, restarts and unread statuses make the
\* nodes send a transaction for one run of a task, in whatever order ledgers
\* include them, the contract pays for the run at most once.
THEOREM RunsPaidOnce ==
    ASSUME NoLedgerWrap
    PROVE  NetworkSpec => []NoDoublePay
<1>1. NetworkInit => PaidRunsPast /\ NoDoublePay
    BY DEF NetworkInit, PaidRunsPast, NoDoublePay
<1>2. /\ NetworkInv /\ RunsSpaced /\ PaidRunsPast /\ NoDoublePay /\ [NetworkNext]_netVars
      => PaidRunsPast' /\ NoDoublePay'
    BY PaidStep
<1> QED
    BY <1>1, <1>2, NetworkInvariant, NetworkSpaced, PTL DEF NetworkSpec

-----------------------------------------------------------------------------
(* The engine's view of a window is the contract's. *)

\* With a grace period that does not wrap, no interval wraps either.
LEMMA GraceImpliesLedger == NoGraceWrap => NoLedgerWrap
BY DEF NoGraceWrap, NoLedgerWrap

\* The end of a task's grace period fits into a u32.
LEMMA GraceEndFits ==
    ASSUME NoGraceWrap, AnchorInv, RunsSpaced, NEW id \in DOMAIN tasks
    PROVE  /\ tasks[id].next_allowed_execution \in Nat
           /\ tasks[id].next_allowed_execution + GRACE_LEDGERS < U32
<1> DEFINE i == tasks[id].execution_interval_ledgers
           next == tasks[id].next_allowed_execution
<1>1. next \in Nat /\ i \in Nat /\ ledger \in Nat /\ ledger <= MaxLedger
    BY DEF AnchorInv, TypeOK, ExecutionTask
<1>2. i \in Intervals /\ next - i <= ledger
    BY DEF RunsSpaced
<1>3. MaxLedger + i + GRACE_LEDGERS < U32
    BY <1>2 DEF NoGraceWrap
<1> HIDE DEF i, next
<1>4. next + GRACE_LEDGERS < U32
    BY <1>1, <1>2, <1>3
<1> QED
    BY <1>1, <1>4 DEF next

\* The role found for a task whose window does not wrap, ledger by ledger.
LEMMA RoleByRegion ==
    ASSUME NEW n, NEW t, NEW l \in Nat, NEW next \in Nat, t.next_allowed_execution = next,
           next + GRACE_LEDGERS < U32
    PROVE  /\ E!contains(n, t.id) => E!ClassifiedRole(n, t, l) = "None"
           /\ l < next => E!ClassifiedRole(n, t, l) = "None"
           /\ ~E!contains(n, t.id) => E!ClassifiedRole(n, t, l) =
                IF l < next THEN "None"
                ELSE IF l = next THEN IF t.designated_keeper = n THEN "Designated" ELSE "None"
                ELSE IF l - next <= GRACE_LEDGERS
                     THEN IF t.designated_keeper = n THEN "None" ELSE "Secondary"
                ELSE "PostGrace"
<1>1. (next + GRACE_LEDGERS) % U32 = next + GRACE_LEDGERS
    BY AddU32Small DEF AddU32
<1>2. /\ l <= next + GRACE_LEDGERS <=> l - next <= GRACE_LEDGERS
      /\ l > next + GRACE_LEDGERS <=> ~(l - next <= GRACE_LEDGERS)
      /\ l - next > GRACE_LEDGERS <=> ~(l - next <= GRACE_LEDGERS)
    OBVIOUS
<1>3. E!ClassifiedRole(n, t, l) =
         IF E!contains(n, t.id) THEN "None"
         ELSE IF l = next /\ t.designated_keeper = n THEN "Designated"
         ELSE IF l > next /\ l <= next + GRACE_LEDGERS THEN E!GraceRole(n, t, l)
         ELSE IF l > next + GRACE_LEDGERS THEN "PostGrace"
         ELSE "None"
    BY <1>1 DEF E!ClassifiedRole
<1>4. E!GraceRole(n, t, l) =
         IF ~(l - next <= GRACE_LEDGERS) \/ n = t.designated_keeper \/ E!contains(n, t.id)
         THEN "None" ELSE "Secondary"
    BY <1>2 DEF E!GraceRole
<1> QED
    BY <1>2, <1>3, <1>4

TimingErrors == {"TooEarlyToExecute", "UnauthorizedExecutor", "GracePeriodActive"}

\* Paying for a run, slashing for it and the second transfer fail for other
\* reasons than the ledger.
LEMMA PaymentErrors ==
    ASSUME NEW t, NEW c, NEW d
    PROVE  /\ DistributionResult(t, c, d) \notin TimingErrors
           /\ ApplySlashResult(t.designated_keeper) \notin TimingErrors
           /\ SecondaryTransferResult(t) \notin TimingErrors
BY DEF DistributionResult, ApplySlashResult, SecondaryTransferResult, TimingErrors

\* When the contract turns a registered keeper away for its place in time.
LEMMA RefusedInTime ==
    ASSUME NEW id \in DOMAIN tasks, NEW c \in DOMAIN keepers
    PROVE  ExecuteResult(id, c, TRUE) \in TimingErrors <=>
             \/ Region(tasks[id]) = "pre_window"
             \/ Region(tasks[id]) = "designated" /\ c # tasks[id].designated_keeper
             \/ Region(tasks[id]) = "grace" /\ c = tasks[id].designated_keeper
<1> DEFINE t == tasks[id]
<1>1. /\ DistributionResult(t, c, TRUE) \notin TimingErrors
      /\ ApplySlashResult(t.designated_keeper) \notin TimingErrors
      /\ SecondaryTransferResult(t) \notin TimingErrors
    BY PaymentErrors
<1>2. DesignatedResult(t, c, TRUE) \in TimingErrors <=> c # t.designated_keeper
    BY <1>1 DEF DesignatedResult, TimingErrors
<1>3. GraceResult(t, c, TRUE) \in TimingErrors <=> c = t.designated_keeper
    BY <1>1 DEF GraceResult, TimingErrors, is_registered
<1>4. PostGraceResult(t, c, TRUE) \notin TimingErrors
    BY <1>1 DEF PostGraceResult, is_registered
<1>5. Region(t) \in {"pre_window", "designated", "grace", "post_grace"}
    BY DEF Region
<1>6. "TooEarlyToExecute" \in TimingErrors
    BY DEF TimingErrors
<1>7. ExecuteResult(id, c, TRUE) =
         IF Region(t) = "pre_window" THEN "TooEarlyToExecute"
         ELSE IF Region(t) = "designated" THEN DesignatedResult(t, c, TRUE)
         ELSE IF Region(t) = "grace" THEN GraceResult(t, c, TRUE)
         ELSE PostGraceResult(t, c, TRUE)
    BY DEF ExecuteResult
<1> HIDE DEF t
<1>8. CASE Region(t) = "pre_window"
    BY <1>6, <1>7, <1>8 DEF t
<1>9. CASE Region(t) = "designated"
    BY <1>2, <1>7, <1>9 DEF t
<1>10. CASE Region(t) = "grace"
    BY <1>3, <1>7, <1>10 DEF t
<1>11. CASE Region(t) = "post_grace"
    BY <1>4, <1>7, <1>11 DEF t
<1> QED
    BY <1>5, <1>8, <1>9, <1>10, <1>11

\* The division of a task's ledgers follows from the two sets of rules.
LEMMA RolesMatch ==
    ASSUME NoGraceWrap, AnchorInv, RunsSpaced
    PROVE  RoleMatchesWindow
<1> SUFFICES ASSUME NEW n \in Node \cap DOMAIN keepers, NEW id \in DOMAIN tasks,
                    in_flight[n] = {}
             PROVE  LET t == [id |-> id,
                              next_allowed_execution |-> tasks[id].next_allowed_execution,
                              designated_keeper |-> tasks[id].designated_keeper]
                        chosen == E!ClassifiedRole(n, t, ledger)
                    IN  /\ (chosen = "None") <=> ExecuteResult(id, n, TRUE) \in TimingErrors
                        /\ chosen = "Secondary" => Region(tasks[id]) = "grace"
                        /\ chosen = "PostGrace" => Region(tasks[id]) = "post_grace"
    BY DEF RoleMatchesWindow, TimingErrors
<1> DEFINE t == [id |-> id, next_allowed_execution |-> tasks[id].next_allowed_execution,
                 designated_keeper |-> tasks[id].designated_keeper]
           next == tasks[id].next_allowed_execution
           owner == tasks[id].designated_keeper
<1>1. t.id = id /\ t.next_allowed_execution = next /\ t.designated_keeper = owner
    OBVIOUS
<1>2. next \in Nat /\ next + GRACE_LEDGERS < U32 /\ ledger \in Nat
    BY GraceEndFits DEF AnchorInv, TypeOK
<1>3. ~E!contains(n, id)
    BY DEF E!contains
<1>4. Region(tasks[id]) = IF ledger < next THEN "pre_window"
                          ELSE IF ledger = next THEN "designated"
                          ELSE IF ledger - next <= GRACE_LEDGERS THEN "grace"
                          ELSE "post_grace"
    BY DEF Region
<1> HIDE DEF t, next, owner
<1>5. E!ClassifiedRole(n, t, ledger) =
         IF ledger < next THEN "None"
         ELSE IF ledger = next THEN IF owner = n THEN "Designated" ELSE "None"
         ELSE IF ledger - next <= GRACE_LEDGERS
              THEN IF owner = n THEN "None" ELSE "Secondary"
         ELSE "PostGrace"
    BY <1>1, <1>2, <1>3, RoleByRegion
<1>6. ExecuteResult(id, n, TRUE) \in TimingErrors <=>
         \/ Region(tasks[id]) = "pre_window"
         \/ Region(tasks[id]) = "designated" /\ n # owner
         \/ Region(tasks[id]) = "grace" /\ n = owner
    BY RefusedInTime DEF owner
<1>7. LET chosen == E!ClassifiedRole(n, t, ledger)
      IN  /\ (chosen = "None") <=> ExecuteResult(id, n, TRUE) \in TimingErrors
          /\ chosen = "Secondary" => Region(tasks[id]) = "grace"
          /\ chosen = "PostGrace" => Region(tasks[id]) = "post_grace"
    BY <1>2, <1>4, <1>5, <1>6
<1> QED
    BY <1>7 DEF t

\* task_discovery.rs:134 and grace_monitor.rs:58 against execution.rs:78: at
\* every ledger, for every interval and place of a node, the engine finds a role
\* for an idle node exactly when the contract would not turn it away for its time.
THEOREM RolesMatchWindows ==
    ASSUME NoGraceWrap
    PROVE  NetworkSpec => []RoleMatchesWindow
<1>1. NetworkSpec => []RunsSpaced
    BY NetworkSpaced, GraceImpliesLedger
<1>2. NetworkInv /\ RunsSpaced => RoleMatchesWindow
    BY RolesMatch DEF NetworkInv
<1> QED
    BY <1>1, <1>2, NetworkInvariant, PTL

-----------------------------------------------------------------------------
(* A role that was found from an old ledger. *)

\* RoleEarned and CopySound of the next state for what this state holds.
EarnedNext(keeper, r, id, next) ==
    /\ r = "Secondary" => next < ledger' /\ keeper # tasks'[id].designated_keeper
    /\ r = "PostGrace" => next + GRACE_LEDGERS < ledger'

SoundNext(id, next, owner) ==
    next + GRACE_LEDGERS < U32 /\ owner = tasks'[id].designated_keeper

\* What was sound stays sound while owners stay and ledgers advance.
LEMMA RolesKept ==
    ASSUME NetworkInv, RolesSound, ContractKept
    PROVE  /\ ledger \in Nat /\ ledger' \in Nat /\ ledger <= ledger'
           /\ \A id \in DOMAIN view : SoundNext(id, view[id].next_allowed_execution,
                                                view[id].designated_keeper)
           /\ \A n \in Node :
                 /\ last_known_ledger[n] < ledger' /\ current_ledger[n] < ledger'
                 /\ \A i \in 1 .. Len(channel[n]) : channel[n][i] < ledger'
                 /\ \A t \in todo[n] :
                       SoundNext(t.id, t.next_allowed_execution, t.designated_keeper)
                 /\ pc[n] \in Working =>
                       EarnedNext(n, role[n], task[n].id, task[n].next_allowed_execution)
           /\ \A i \in DOMAIN txs :
                 EarnedNext(txs[i].keeper, txs[i].role, txs[i].id, txs[i].next)
<1>1. ledger \in Nat /\ ledger' \in Nat /\ ledger <= ledger'
    BY DEF NetworkInv, AnchorInv, TypeOK, ContractKept
<1>2. \A id \in DOMAIN tasks : tasks'[id].designated_keeper = tasks[id].designated_keeper
    BY DEF ContractKept
<1>3. ASSUME NEW id \in DOMAIN view
      PROVE  SoundNext(id, view[id].next_allowed_execution, view[id].designated_keeper)
    BY <1>2 DEF RolesSound, CopySound, SoundNext, NetworkInv, NetworkTyped
<1>4. \A t \in E!RemoteTask : t.id \in DOMAIN tasks /\ t.next_allowed_execution \in Nat
    BY DEF E!RemoteTask, NetworkInv, NetworkTyped
<1>5. ASSUME NEW n \in Node
      PROVE  /\ last_known_ledger[n] < ledger' /\ current_ledger[n] < ledger'
             /\ \A i \in 1 .. Len(channel[n]) : channel[n][i] < ledger'
             /\ \A t \in todo[n] :
                   SoundNext(t.id, t.next_allowed_execution, t.designated_keeper)
             /\ pc[n] \in Working =>
                   EarnedNext(n, role[n], task[n].id, task[n].next_allowed_execution)
    <2>t. /\ last_known_ledger[n] \in Nat /\ current_ledger[n] \in Nat
          /\ channel[n] \in Seq(Nat) /\ todo[n] \subseteq E!RemoteTask
        BY DEF NetworkInv, NetworkTyped
    <2>1. last_known_ledger[n] < ledger' /\ current_ledger[n] < ledger'
        BY <1>1, <2>t DEF RolesSound
    <2>2. ASSUME NEW i \in 1 .. Len(channel[n]) PROVE channel[n][i] < ledger'
        <3>1. channel[n][i] \in Nat
            BY <2>t
        <3>2. channel[n][i] < ledger
            BY DEF RolesSound
        <3> QED
            BY <1>1, <3>1, <3>2
    <2>3. ASSUME NEW t \in todo[n]
          PROVE  SoundNext(t.id, t.next_allowed_execution, t.designated_keeper)
        BY <1>2, <1>4, <2>t DEF RolesSound, CopySound, SoundNext
    <2>4. ASSUME pc[n] \in Working
          PROVE  EarnedNext(n, role[n], task[n].id, task[n].next_allowed_execution)
        <3>1. task[n] \in E!RemoteTask
            BY <2>4 DEF NetworkInv, TransactionsOwned
        <3>2. RoleEarned(n, role[n], task[n].id, task[n].next_allowed_execution)
            BY <2>4 DEF RolesSound
        <3>3. task[n].id \in DOMAIN tasks /\ task[n].next_allowed_execution \in Nat
            BY <1>4, <3>1
        <3> QED
            BY <1>1, <1>2, <3>2, <3>3 DEF RoleEarned, EarnedNext
    <2> QED
        BY <2>1, <2>2, <2>3, <2>4
<1>6. ASSUME NEW i \in DOMAIN txs
      PROVE  EarnedNext(txs[i].keeper, txs[i].role, txs[i].id, txs[i].next)
    <2>1. txs[i].id \in DOMAIN tasks /\ txs[i].next \in Nat
        BY TxFields
    <2>2. RoleEarned(txs[i].keeper, txs[i].role, txs[i].id, txs[i].next)
        BY DEF RolesSound
    <2> QED
        BY <1>1, <1>2, <2>1, <2>2 DEF RoleEarned, EarnedNext
<1> QED
    BY <1>1, <1>3, <1>5, <1>6

\* Soundness of the next state, item by item.
LEMMA RolesNext ==
    ASSUME \A id \in DOMAIN view' : SoundNext(id, view'[id].next_allowed_execution,
                                              view'[id].designated_keeper),
           \A n \in Node :
                 /\ last_known_ledger'[n] < ledger' /\ current_ledger'[n] < ledger'
                 /\ \A i \in 1 .. Len(channel'[n]) : channel'[n][i] < ledger'
                 /\ \A t \in todo'[n] :
                       SoundNext(t.id, t.next_allowed_execution, t.designated_keeper)
                 /\ pc'[n] \in Working =>
                       EarnedNext(n, role'[n], task'[n].id, task'[n].next_allowed_execution),
           \A i \in DOMAIN txs' :
                 EarnedNext(txs'[i].keeper, txs'[i].role, txs'[i].id, txs'[i].next)
    PROVE  RolesSound'
BY DEF RolesSound, CopySound, RoleEarned, SoundNext, EarnedNext

\* The chain's own steps, and those of other keepers, leave nodes alone.
LEMMA RolesSoundChain ==
    ASSUME NoGraceWrap, NetworkInv, RunsSpaced, RolesSound, ContractKept, UNCHANGED node,
           TxsKept, DOMAIN txs' = DOMAIN txs, view' \in {view, tasks}
    PROVE  RolesSound'
<1>1. UNCHANGED <<last_known_ledger, current_ledger, channel, todo, pc, role, task>>
    BY DEF node
<1>2. ASSUME NEW id \in DOMAIN view'
      PROVE  SoundNext(id, view'[id].next_allowed_execution, view'[id].designated_keeper)
    <2>1. CASE view' = view
        BY <1>2, <2>1, RolesKept
    <2>2. CASE view' = tasks
        <3>1. tasks[id].next_allowed_execution + GRACE_LEDGERS < U32
            BY <1>2, <2>2, GraceEndFits DEF NetworkInv
        <3> QED
            BY <1>2, <2>2, <3>1 DEF SoundNext, ContractKept
    <2> QED
        BY <2>1, <2>2
<1>3. \A i \in DOMAIN txs' :
         EarnedNext(txs'[i].keeper, txs'[i].role, txs'[i].id, txs'[i].next)
    BY RolesKept DEF TxsKept
<1>4. \A n \in Node :
          /\ last_known_ledger[n] < ledger' /\ current_ledger[n] < ledger'
          /\ \A i \in 1 .. Len(channel[n]) : channel[n][i] < ledger'
          /\ \A t \in todo[n] :
                SoundNext(t.id, t.next_allowed_execution, t.designated_keeper)
          /\ pc[n] \in Working =>
                EarnedNext(n, role[n], task[n].id, task[n].next_allowed_execution)
    BY RolesKept
<1> QED
    BY <1>1, <1>2, <1>3, <1>4, RolesNext

\* A node's step: what it reads comes from the view, and the role it finds for a
\* task at a ledger that closed is one it keeps while the task waits.
LEMMA RolesSoundNode ==
    ASSUME NetworkInv, RolesSound, NodeEffect, UNCHANGED <<vars, applied>>
    PROVE  RolesSound'
<1>1. ledger' = ledger /\ tasks' = tasks /\ view' = view /\ keepers' = keepers
    BY DEF vars, storage, NodeEffect
<1>2. ContractKept
    BY <1>1 DEF ContractKept
<1>3. \A id \in DOMAIN view : SoundNext(id, view[id].next_allowed_execution,
                                        view[id].designated_keeper)
    BY <1>2, RolesKept
<1>j. \A n \in Node : pc[n] \in Working =>
         EarnedNext(n, role[n], task[n].id, task[n].next_allowed_execution)
    BY <1>2, RolesKept
<1>4. ASSUME NEW n \in Node
      PROVE  /\ last_known_ledger'[n] < ledger' /\ current_ledger'[n] < ledger'
             /\ \A i \in 1 .. Len(channel'[n]) : channel'[n][i] < ledger'
    <2>1. Behind(n)
        BY DEF RolesSound, Behind
    <2>2. Behind(n)'
        BY <2>1 DEF NodeEffect, LedgersEffect
    <2> QED
        BY <2>2 DEF Behind
<1>5. ASSUME NEW n \in Node, NEW t \in todo'[n]
      PROVE  SoundNext(t.id, t.next_allowed_execution, t.designated_keeper)
    <2>1. CASE t \in todo[n]
        BY <1>2, <2>1, RolesKept
    <2>2. CASE t \in E!ExecutableTasks(current_ledger[n])
        <3>1. PICK id \in DOMAIN view :
                 t = [id |-> id, next_allowed_execution |-> view[id].next_allowed_execution,
                      designated_keeper |-> view[id].designated_keeper]
            BY <2>2 DEF E!ExecutableTasks
        <3>2. /\ t.id = id /\ t.next_allowed_execution = view[id].next_allowed_execution
              /\ t.designated_keeper = view[id].designated_keeper
            BY <3>1
        <3> QED
            BY <1>3, <3>2
    <2> QED
        BY <2>1, <2>2 DEF NodeEffect, TodoEffect
<1>6. ASSUME NEW n \in Node, pc'[n] \in Working
      PROVE  EarnedNext(n, role'[n], task'[n].id, task'[n].next_allowed_execution)
    <2>1. CASE pc[n] \in Working /\ task'[n] = task[n] /\ role'[n] = role[n]
        BY <1>j, <2>1
    <2>2. CASE /\ task'[n] \in todo[n]
               /\ role'[n] = E!ClassifiedRole(n, task'[n], current_ledger[n])
        <3> DEFINE t == task'[n]
                   next == t.next_allowed_execution
                   l == current_ledger[n]
        <3>1. t \in E!RemoteTask /\ t \in todo[n]
            BY <2>2 DEF NetworkInv, NetworkTyped
        <3>2. next \in Nat /\ l \in Nat /\ ledger \in Nat
            BY <3>1 DEF E!RemoteTask, NetworkInv, NetworkTyped, AnchorInv, TypeOK
        <3>3. next + GRACE_LEDGERS < U32 /\ t.designated_keeper = tasks'[t.id].designated_keeper
            BY <1>2, <3>1, RolesKept DEF SoundNext
        <3>4. l < ledger'
            BY <1>2, RolesKept
        <3>5. role'[n] = E!ClassifiedRole(n, t, l)
            BY <2>2
        <3> HIDE DEF t, l
        <3>6. /\ E!contains(n, t.id) => role'[n] = "None"
              /\ ~E!contains(n, t.id) => role'[n] =
                   IF l < next THEN "None"
                   ELSE IF l = next THEN IF t.designated_keeper = n THEN "Designated" ELSE "None"
                   ELSE IF l - next <= GRACE_LEDGERS
                        THEN IF t.designated_keeper = n THEN "None" ELSE "Secondary"
                   ELSE "PostGrace"
            BY <3>2, <3>3, <3>5, RoleByRegion
        <3> HIDE DEF next
        <3>7. /\ role'[n] = "Secondary" => next < l /\ t.designated_keeper # n
              /\ role'[n] = "PostGrace" => next < l /\ ~(l - next <= GRACE_LEDGERS)
            BY <3>2, <3>6
        <3>8. EarnedNext(n, role'[n], t.id, next)
            BY <1>1, <3>2, <3>3, <3>4, <3>7 DEF EarnedNext
        <3> QED
            BY <3>8 DEF t, next
    <2> QED
        BY <1>6, <2>1, <2>2 DEF NodeEffect, JobEffect
<1>7. ASSUME NEW i \in DOMAIN txs'
      PROVE  EarnedNext(txs'[i].keeper, txs'[i].role, txs'[i].id, txs'[i].next)
    <2>1. CASE i \in DOMAIN txs
        <3>1. txs'[i] = txs[i]
            BY <2>1 DEF NodeEffect, TxsEffect
        <3> QED
            BY <1>2, <2>1, <3>1, RolesKept
    <2>2. CASE i \notin DOMAIN txs
        <3>1. PICK m \in Node : /\ pc[m] = "send"
                                /\ \E s \in {"pending", "lost"} : txs'[i] = E!NewTx(m, s)
            BY <2>2 DEF NodeEffect, TxsEffect
        <3>2. /\ txs'[i].keeper = m /\ txs'[i].role = role[m] /\ txs'[i].id = task[m].id
              /\ txs'[i].next = task[m].next_allowed_execution
            BY <3>1 DEF E!NewTx
        <3> QED
            BY <1>j, <3>1, <3>2 DEF Working
    <2> QED
        BY <2>1, <2>2
<1> QED
    BY <1>1, <1>3, <1>4, <1>5, <1>6, <1>7, RolesNext

\* Roles stay sound.
LEMMA RolesSoundStep ==
    ASSUME NoGraceWrap, NetworkInv, RunsSpaced, RolesSound, [NetworkNext]_netVars
    PROVE  RolesSound'
<1>0. ContractKept
    BY NetworkCalls
<1>1. ASSUME NetworkClose PROVE RolesSound'
    BY <1>0, <1>1, CloseFacts, RolesSoundChain
<1>2. ASSUME UNCHANGED <<view, txs, node>> PROVE RolesSound'
    BY <1>0, <1>2, RolesSoundChain DEF TxsKept
<1>3. ASSUME NEW i \in DOMAIN txs, NEW d \in BOOLEAN, ApplyTx(i, d) PROVE RolesSound'
    BY <1>2, <1>3 DEF ApplyTx
<1>4. ASSUME NEW id \in DOMAIN tasks, NEW c \in Address, OtherKeeper(id, c) PROVE RolesSound'
    BY <1>2, <1>4 DEF OtherKeeper
<1> QED
    BY <1>1, <1>3, <1>4, RolesSoundNode, NetworkSteps

\* Nodes start with nothing.
LEMMA RolesSoundInit == NetworkInit => RolesSound
<1> SUFFICES ASSUME NetworkInit PROVE RolesSound
    OBVIOUS
<1>1. /\ DOMAIN view = {} /\ txs = << >> /\ ledger = DeployLedger /\ ledger > 0
      /\ E!EngineInit
    BY DEF NetworkInit
<1>2. \A n \in Node : /\ last_known_ledger[n] = 0 /\ current_ledger[n] = 0
                      /\ channel[n] = << >> /\ todo[n] = {} /\ pc[n] \notin Working
    BY <1>1 DEF E!EngineInit, Working
<1> QED
    BY <1>1, <1>2 DEF RolesSound

\* The stakes behind the tasks, as the Anchor's own proofs have them.
StakesInOrder == MinConfigured /\ StakesBounded /\ AllPledged

\* Keepers registered with a positive stake, and slashing leaves some of it.
LEMMA StakesInOrderInvariant ==
    ASSUME SoundStakes, PositiveMinimum
    PROVE  NetworkSpec => []StakesInOrder
<1>1. NetworkInit => StakesInOrder
    <2> SUFFICES ASSUME NetworkInit PROVE StakesInOrder
        OBVIOUS
    <2>1. PICK registered \in {Address, Address \ Node}, stake \in Stakes :
             /\ stake >= minKeeperStake
             /\ keepers = [a \in registered |->
                             [stake_amount |-> stake, last_execution_ledger |-> 0,
                              total_executions |-> 0, ineligible |-> FALSE]]
             /\ pledged = [a \in registered |-> stake]
        BY Zenon DEF NetworkInit
    <2>2. minKeeperStake \in MinStakes /\ minKeeperStake \in Int /\ minKeeperStake > 0
        BY DEF NetworkInit, PositiveMinimum
    <2>3. stake \in Int /\ stake > 0 /\ stake * 5 < I128
        BY <2>1, <2>2 DEF SoundStakes
    <2>4. \A k \in DOMAIN keepers : /\ keepers[k].stake_amount = stake /\ pledged[k] = stake
                                    /\ ~keepers[k].ineligible
        BY <2>1
    <2>5. StakesBounded
        BY <2>3, <2>4 DEF StakesBounded
    <2> QED
        BY <2>2, <2>3, <2>4, <2>5 DEF StakesInOrder, MinConfigured, AllPledged
<1>2. NetworkInv /\ StakesInOrder /\ [NetworkNext]_netVars => StakesInOrder'
    BY NetworkCalls, MinConfiguredStep, StakesBoundedStep, AllPledgedStep
    DEF StakesInOrder, NetworkInv
<1> QED
    BY <1>1, <1>2, NetworkInvariant, PTL DEF NetworkSpec

Admissible == {"Ok", "InsufficientRewardBalance", "DripListPanic"}

\* A keeper that is not the task's own after its window, or any keeper after the
\* grace period, is refused for want of tokens or by the Drip List.
LEMMA LateKeeperAdmitted ==
    ASSUME AnchorInv, StakesInOrder, NEW id \in DOMAIN tasks, NEW c \in DOMAIN keepers, NEW d,
           \/ /\ tasks[id].next_allowed_execution < ledger
              /\ c # tasks[id].designated_keeper
           \/ tasks[id].next_allowed_execution + GRACE_LEDGERS < ledger
    PROVE  ExecuteResult(id, c, d) \in Admissible
<1> DEFINE t == tasks[id]
           owner == t.designated_keeper
<1>1. /\ owner \in DOMAIN keepers /\ admin # None
      /\ ledger \in Nat /\ t.next_allowed_execution \in Nat
    BY DEF AnchorInv, TypeOK, DesignatedRegistered, TasksAfterInitialize, ExecutionTask
<1>2. keepers[owner].stake_amount # 0
    BY <1>1 DEF StakesInOrder, StakesBounded, AllPledged
<1>3. DistributionResult(t, c, d) \in Admissible
    BY <1>1 DEF DistributionResult, is_registered, Admissible
<1>4. ApplySlashResult(owner) = "Ok" /\ SecondaryTransferResult(t) \in Admissible
    BY <1>1, <1>2 DEF ApplySlashResult, SecondaryTransferResult, is_registered, Admissible
<1>5. PostGraceResult(t, c, d) \in Admissible
    BY <1>3 DEF PostGraceResult, is_registered
<1>6. c # owner => GraceResult(t, c, d) \in Admissible
    BY <1>3, <1>4 DEF GraceResult, is_registered
<1>7. Region(t) = "post_grace" \/ (Region(t) = "grace" /\ c # owner)
    BY <1>1 DEF Region
<1> QED
    BY <1>5, <1>6, <1>7 DEF ExecuteResult

\* An included transaction with a role that was earned is admitted.
LEMMA AdmittedStep ==
    ASSUME NetworkInv, RolesSound, StakesInOrder, StaleRoleAdmitted, [NetworkNext]_netVars
    PROVE  StaleRoleAdmitted'
<1>t. DOMAIN applied \subseteq DOMAIN txs /\ DOMAIN keepers' = DOMAIN keepers
    BY NetworkCalls DEF NetworkInv, NetworkTyped, ContractKept
<1>1. ASSUME applied' = applied, TxsKept PROVE StaleRoleAdmitted'
    <2>1. \A j \in DOMAIN applied : /\ txs'[j].keeper = txs[j].keeper /\ txs'[j].role = txs[j].role
                                    /\ txs'[j].next = txs[j].next
        BY <1>t, <1>1 DEF TxsKept
    <2> QED
        BY <1>t, <1>1, <2>1 DEF StaleRoleAdmitted, OnTime
<1>2. ASSUME NEW i \in DOMAIN txs, NEW d \in BOOLEAN, ApplyTx(i, d) PROVE StaleRoleAdmitted'
    <2>f. /\ i \notin DOMAIN applied /\ txs[i].id \in DOMAIN tasks
          /\ DOMAIN applied' = DOMAIN applied \cup {i}
          /\ \A j \in DOMAIN applied : applied'[j] = applied[j]
          /\ applied'[i].result = ExecuteResult(txs[i].id, txs[i].keeper, d)
          /\ applied'[i].run = tasks[txs[i].id].next_allowed_execution
          /\ txs' = txs
        BY <1>2, ApplyTxFacts
    <2>1. ASSUME applied'[i].run = txs[i].next, txs[i].role \in {"Secondary", "PostGrace"},
                 txs[i].keeper \in DOMAIN keepers
          PROVE  applied'[i].result \in Admissible
        <3>1. RoleEarned(txs[i].keeper, txs[i].role, txs[i].id, txs[i].next)
            BY DEF RolesSound
        <3>2. \/ /\ tasks[txs[i].id].next_allowed_execution < ledger
                 /\ txs[i].keeper # tasks[txs[i].id].designated_keeper
              \/ tasks[txs[i].id].next_allowed_execution + GRACE_LEDGERS < ledger
            BY <2>f, <2>1, <3>1 DEF RoleEarned
        <3>3. AnchorInv
            BY DEF NetworkInv
        <3>4. ExecuteResult(txs[i].id, txs[i].keeper, d) \in Admissible
            BY <2>f, <2>1, <3>2, <3>3, LateKeeperAdmitted
        <3> QED
            BY <2>f, <3>4
    <2>2. ASSUME NEW j \in DOMAIN applied', applied'[j].run = txs'[j].next,
                 txs'[j].role \in {"Secondary", "PostGrace"}, txs'[j].keeper \in DOMAIN keepers'
          PROVE  applied'[j].result \in Admissible
        <3>1. CASE j = i
            BY <1>t, <2>f, <2>1, <2>2, <3>1
        <3>2. CASE j \in DOMAIN applied
            BY <1>t, <2>f, <2>2, <3>2 DEF StaleRoleAdmitted, OnTime, Admissible
        <3> QED
            BY <2>f, <3>1, <3>2
    <2> QED
        BY <2>2 DEF StaleRoleAdmitted, OnTime, Admissible
<1> QED
    BY <1>1, <1>2, QuietApplied

\* task_discovery.rs:134 and execution.rs:78: a secondary or post-grace role found
\* from a ledger and a view of any age is one the contract still grants when the
\* transaction is included, however late, unless another keeper ran the task.
THEOREM StaleRolesAdmitted ==
    ASSUME NoGraceWrap, SoundStakes, PositiveMinimum
    PROVE  NetworkSpec => []StaleRoleAdmitted
<1>1. NetworkSpec => []RunsSpaced
    BY NetworkSpaced, GraceImpliesLedger
<1>2. NetworkSpec => []StakesInOrder
    BY StakesInOrderInvariant
<1>3. NetworkInit => RolesSound /\ StaleRoleAdmitted
    BY RolesSoundInit DEF NetworkInit, StaleRoleAdmitted
<1>4. NetworkInv /\ RunsSpaced /\ RolesSound /\ [NetworkNext]_netVars => RolesSound'
    BY RolesSoundStep
<1>5. /\ NetworkInv /\ RolesSound /\ StakesInOrder /\ StaleRoleAdmitted /\ [NetworkNext]_netVars
      => StaleRoleAdmitted'
    BY AdmittedStep
<1> QED
    BY <1>1, <1>2, <1>3, <1>4, <1>5, NetworkInvariant, PTL DEF NetworkSpec

=============================================================================
