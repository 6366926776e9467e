----------------------------- MODULE EngineStatus -----------------------------
(***************************************************************************)
(* What the engine's tasks promise about the three values they share with  *)
(* the health server: the ledger counter only grows, one task at a time is *)
(* in flight and only once a ledger was seen, a confirmation ends a task   *)
(* in flight, and a stop forgets everything.  Engine implements it.        *)
(***************************************************************************)
EXTENDS Integers

CONSTANTS
    Node,       \* keeper addresses that run an engine
    TaskIds,    \* tasks the contract may hold
    MaxLedger   \* bound: last ledger of a behaviour

VARIABLES last_known_ledger, in_flight, confirmed

status == <<last_known_ledger, in_flight, confirmed>>

StatusInit ==
    /\ last_known_ledger = [n \in Node |-> 0]
    /\ in_flight = [n \in Node |-> {}]
    /\ confirmed = [n \in Node |-> FALSE]

\* Mutant: the poller stores whatever ledger the RPC server names.
AdvanceUnfiltered(n, seq) ==
    /\ last_known_ledger' = [last_known_ledger EXCEPT ![n] = seq]
    /\ UNCHANGED <<in_flight, confirmed>>

\* The poller stores a newer ledger.
Advance(n, seq) ==
    /\ seq > last_known_ledger[n]
    /\ last_known_ledger' = [last_known_ledger EXCEPT ![n] = seq]
    /\ UNCHANGED <<in_flight, confirmed>>

\* The pipeline takes a task up.
Begin(n, id) ==
    /\ last_known_ledger[n] > 0
    /\ in_flight[n] = {}
    /\ in_flight' = [in_flight EXCEPT ![n] = {id}]
    /\ UNCHANGED <<last_known_ledger, confirmed>>

\* The pipeline stores the time of a confirmed execution.
Record(n) ==
    /\ in_flight[n] # {}
    /\ confirmed' = [confirmed EXCEPT ![n] = TRUE]
    /\ UNCHANGED <<last_known_ledger, in_flight>>

\* The pipeline lets go of the task.
End(n) ==
    /\ in_flight[n] # {}
    /\ in_flight' = [in_flight EXCEPT ![n] = {}]
    /\ UNCHANGED <<last_known_ledger, confirmed>>

Stop(n) ==
    /\ last_known_ledger' = [last_known_ledger EXCEPT ![n] = 0]
    /\ in_flight' = [in_flight EXCEPT ![n] = {}]
    /\ confirmed' = [confirmed EXCEPT ![n] = FALSE]

StatusNext ==
    \E n \in Node :
        \/ \E seq \in 1 .. MaxLedger : Advance(n, seq)
        \/ \E id \in TaskIds : Begin(n, id)
        \/ Record(n)
        \/ End(n)
        \/ Stop(n)

StatusSpec == StatusInit /\ [][StatusNext]_status
=============================================================================
