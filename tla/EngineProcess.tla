---------------------------- MODULE EngineProcess ----------------------------
(***************************************************************************)
(* main.rs and health_server.rs: one engine process from its configuration *)
(* to its end.  The process reads its settings once, exits on the first it *)
(* cannot use, otherwise runs the poller, the discovery loop and the       *)
(* health server until ctrl-c.  What the first two do to the shared values *)
(* is EngineStatus, which Engine implements.                               *)
(***************************************************************************)
EXTENDS EngineConfig

CONSTANTS
    Self,           \* the node's keeper address
    TaskIds,        \* tasks the contract may hold
    Candidates,     \* values tried for each setting, a function on Settings
    MaxEdits,       \* bound: changes to the configuration
    MaxLedger       \* bound: last ledger of a behaviour

\* A text that is neither blank nor a secret is "text", a secret "seed" or "junk";
\* every setting has a candidate that its checks accept.
ASSUME ProcessConstants ==
    /\ Unset \notin Settings \cup {"config_file", "seed", "text"}
    /\ Blank \notin {"seed", "text"}
    /\ DOMAIN Candidates = Settings
    /\ \A f \in Settings : Unset \notin Candidates[f] /\ Garbage \notin Candidates[f]
    /\ \A f \in Numbers : Candidates[f] \subseteq Nat
    /\ Candidates["KEEPER_KEYPAIR"] \subseteq {"seed", "junk", Blank}
    /\ \A f \in Texts \ {"KEEPER_KEYPAIR"} : Candidates[f] \subseteq {"text", Blank}
    /\ "seed" \in Candidates["KEEPER_KEYPAIR"]
    /\ \A f \in Texts \ {"KEEPER_KEYPAIR"} : "text" \in Candidates[f]
    /\ 1 \in Candidates["POLL_INTERVAL_SECS"] /\ 10 \in Candidates["TASK_QUERY_TIMEOUT_SECS"]
    /\ 60 \in Candidates["CONFIRMATION_TIMEOUT_SECS"]
    /\ 1 \in Candidates["RETRY_BACKOFF_INITIAL_SECS"]
    /\ 60 \in Candidates["RETRY_BACKOFF_MAX_SECS"]
    /\ MaxEdits \in Nat /\ MaxLedger \in Nat

VARIABLES
    env, file, edits,                           \* the operator's configuration
    phase, cfg, error,                          \* main: phase, settings, field blamed
    last_known_ledger, in_flight, confirmed,    \* shared by the tasks
    health,                                     \* the health server's task
    request, report                             \* a request in progress, the last answer

S == INSTANCE EngineStatus WITH Node <- {Self}

status == <<last_known_ledger, in_flight, confirmed>>
setup == <<env, file, edits>>
main == <<phase, cfg, error>>
vars == <<setup, main, status, health, request, report>>

NoRequest == [at |-> "none"]
NoConfig == [f \in {} |-> Unset]
EmptyFile == [f \in Settings |-> Unset]

-----------------------------------------------------------------------------
(* The operator, while the process is down. *)

Edit(newEnv, newFile) ==
    /\ phase # "running"
    /\ edits < MaxEdits
    /\ env' = newEnv /\ file' = newFile
    /\ edits' = edits + 1
    /\ phase' = "stopped" /\ error' = Unset
    /\ UNCHANGED <<cfg, status, health, request, report>>

EditEnv(f, value) == Edit([env EXCEPT ![f] = value], file)

EditFile(f, value) ==
    /\ file \notin {NoFile, BadFile}
    /\ Edit(env, [file EXCEPT ![f] = value])

ReplaceFile(newFile) == Edit(env, newFile)

-----------------------------------------------------------------------------
(* main *)

\* derive_keypair: a secret that is no Stellar seed ends the process as well.
StartError(e, fl) ==
    IF ConfigError(e, fl) # Unset THEN ConfigError(e, fl)
    ELSE IF Value(e, fl, "KEEPER_KEYPAIR") # "seed" THEN "KEEPER_KEYPAIR"
    ELSE Unset

\* The program may be launched again and again, by hand or by a supervisor.
Exit ==
    /\ phase # "running"
    /\ StartError(env, file) # Unset
    /\ phase' = "exited" /\ error' = StartError(env, file)
    /\ UNCHANGED <<setup, cfg, status, health, request, report>>

Start ==
    /\ phase # "running"
    /\ StartError(env, file) = Unset
    /\ phase' = "running" /\ error' = Unset
    /\ cfg' = from_env(env, file)
    /\ health' = "binding"
    /\ UNCHANGED <<setup, status, request, report>>

\* Mutant: an open connection is still served after the tasks were aborted.
CtrlCLeavesRequest ==
    /\ phase = "running"
    /\ phase' = "stopped" /\ cfg' = NoConfig
    /\ S!Stop(Self)
    /\ health' = "down" /\ report' = Unset
    /\ UNCHANGED <<setup, error, request>>

\* The tasks are aborted and main returns, which drops open connections.
CtrlC ==
    /\ phase = "running"
    /\ phase' = "stopped" /\ cfg' = NoConfig
    /\ S!Stop(Self)
    /\ health' = "down" /\ request' = NoRequest /\ report' = Unset
    /\ UNCHANGED <<setup, error>>

\* The poller and the discovery task.
Work ==
    /\ phase = "running"
    /\ \/ \E seq \in 1 .. MaxLedger : S!Advance(Self, seq)
       \/ \E id \in TaskIds : S!Begin(Self, id)
       \/ S!Record(Self)
       \/ S!End(Self)
    /\ UNCHANGED <<setup, main, health, request, report>>

-----------------------------------------------------------------------------
(* health_server.rs: the handler reads three values that other threads     *)
(* change meanwhile.                                                       *)

\* A port that cannot be bound panics the server's task and nothing else.
Bind(result) ==
    /\ health = "binding"
    /\ health' = result
    /\ UNCHANGED <<setup, main, status, request, report>>

ReadLedger ==
    /\ health = "serving"
    /\ request = NoRequest
    /\ request' = [at |-> "ledger", current_ledger |-> last_known_ledger[Self]]
    /\ UNCHANGED <<setup, main, status, health, report>>

\* Mutant: the initial 0 is taken for a time stamp.
ReadTimestampRaw ==
    /\ request.at = "ledger"
    /\ request' = [at |-> "timestamp", current_ledger |-> request.current_ledger,
                   executed |-> TRUE]
    /\ UNCHANGED <<setup, main, status, health, report>>

\* Null until an execution was confirmed: the atomic starts as 0.
ReadTimestamp ==
    /\ request.at = "ledger"
    /\ request' = [at |-> "timestamp", current_ledger |-> request.current_ledger,
                   executed |-> confirmed[Self]]
    /\ UNCHANGED <<setup, main, status, health, report>>

Respond ==
    /\ request.at = "timestamp"
    /\ request' = NoRequest
    /\ report' = [current_ledger |-> request.current_ledger,
                  executed |-> request.executed,
                  in_flight_count |-> Cardinality(in_flight[Self])]
    /\ UNCHANGED <<setup, main, status, health>>

-----------------------------------------------------------------------------

Init ==
    /\ env = [f \in Settings |-> IF f = "KEEPER_KEYPAIR" THEN "seed"
                                 ELSE IF f \in Texts THEN "text" ELSE Unset]
    /\ file \in {NoFile, EmptyFile}
    /\ edits = 0
    /\ phase = "stopped" /\ cfg = NoConfig /\ error = Unset
    /\ S!StatusInit
    /\ health = "down" /\ request = NoRequest /\ report = Unset

Next ==
    \/ \E f \in Settings : \E v \in Candidates[f] \cup {Unset} : EditFile(f, v)
    \/ \E f \in Texts : \E v \in Candidates[f] \cup {Unset} : EditEnv(f, v)
    \/ \E f \in Numbers : \E v \in Candidates[f] \cup {Unset, Garbage} : EditEnv(f, v)
    \/ \E newFile \in {NoFile, BadFile, EmptyFile} : ReplaceFile(newFile)
    \/ Exit
    \/ Start
    \/ CtrlC
    \/ Work
    \/ \E result \in {"serving", "dead"} : Bind(result)
    \/ ReadLedger
    \/ ReadTimestamp
    \/ Respond

Spec == Init /\ [][Next]_vars

-----------------------------------------------------------------------------
(* Properties *)

\* The process, its server and its tasks agree on whether it runs, and it has
\* settings and shared values exactly while it does.
TypeOK ==
    /\ phase \in {"stopped", "running", "exited"}
    /\ health \in {"down", "binding", "serving", "dead"}
    /\ (phase = "running") = (cfg # NoConfig)
    /\ (phase = "running") = (health # "down")
    /\ (phase = "exited") = (error # Unset)
    /\ health # "serving" => request = NoRequest /\ report = Unset
    /\ phase # "running" => S!StatusInit

\* config.rs:97 and the checks of from_env: whatever variables and file the operator
\* leaves behind, a process runs with the variables he has set, which no file
\* overrides, and within the bounds on which Engine relies.  Not all that documents
\* say holds, and is claimed here: a number that does not parse gives way to the
\* file, and neither a timeout nor MAX_RETRIES has a minimum.
RunningConfigSound ==
    phase = "running" =>
        /\ \A f \in Settings : env[f] \notin {Unset, Garbage} => cfg[f] = env[f]
        /\ cfg["KEEPER_KEYPAIR"] = "seed"
        /\ cfg["RPC_ENDPOINT_URL"] = "text" /\ cfg["ANCHOR_CONTRACT_ADDRESS"] = "text"
        /\ cfg["POLL_INTERVAL_SECS"] \in 1 .. 5
        /\ cfg["TASK_QUERY_TIMEOUT_SECS"] \in 0 .. 10
        /\ cfg["CONFIRMATION_TIMEOUT_SECS"] \in 0 .. 60
        /\ cfg["MAX_RETRIES"] \in Nat
        /\ 1 <= cfg["RETRY_BACKOFF_INITIAL_SECS"]
        /\ cfg["RETRY_BACKOFF_INITIAL_SECS"] <= cfg["RETRY_BACKOFF_MAX_SECS"]
        /\ cfg["RETRY_BACKOFF_MAX_SECS"] <= 60

\* config.rs:9: the message names the setting at fault.  Whatever the file says,
\* some value of the environment variable it names gets the process past it.
\* The one exception is an initial back-off beyond 60: it has no bound of its
\* own, so the maximum is blamed, which no maximum can satisfy.
ErrorNamesCulprit ==
    phase = "exited" =>
        \/ error = "config_file" /\ file = BadFile
        \/ /\ error \in Settings
           /\ \E v \in Candidates[error] : StartError([env EXCEPT ![error] = v], file) # error
        \/ /\ error = "RETRY_BACKOFF_MAX_SECS"
           /\ Value(env, file, "RETRY_BACKOFF_INITIAL_SECS") > 60

\* health_server.rs: an answer is about this process and true of it, although
\* its three values are read at different times: it shows no execution that was
\* not confirmed, no ledger that was not seen, at most one task in flight.
ReportTruthful ==
    report # Unset =>
        /\ report.executed => confirmed[Self]
        /\ report.current_ledger <= last_known_ledger[Self]
        /\ report.in_flight_count <= 1
        /\ report.in_flight_count = 1 => last_known_ledger[Self] > 0

\* Successive answers of one process never go back: the ledger does not shrink
\* and an execution, once reported, stays reported.
ReportsAdvance ==
    [][report # Unset /\ report' # Unset =>
          /\ report'.current_ledger >= report.current_ledger
          /\ report.executed => report'.executed]_vars

-----------------------------------------------------------------------------
(* Inductive invariants. *)

\* The operator's configuration holds candidates, settings that are missing and
\* numbers that do not parse; the values of a running process come from it.
SetupTyped ==
    /\ DOMAIN env = Settings
    /\ \A f \in Texts : env[f] \in Candidates[f] \cup {Unset}
    /\ \A f \in Numbers : env[f] \in Candidates[f] \cup {Unset, Garbage}
    /\ \/ file \in {NoFile, BadFile}
       \/ DOMAIN file = Settings /\ \A f \in Settings : file[f] \in Candidates[f] \cup {Unset}

\* The shared values, as EngineStatus keeps them.
StatusTyped ==
    /\ last_known_ledger \in [{Self} -> Nat]
    /\ confirmed \in [{Self} -> BOOLEAN]
    /\ in_flight \in [{Self} -> SUBSET TaskIds]
    /\ in_flight[Self] # {} =>
         last_known_ledger[Self] > 0 /\ \E id \in TaskIds : in_flight[Self] = {id}

\* An answer, and the part of one that was read, is not ahead of the shared values.
AnswerSound(a) == a.current_ledger \in 0 .. last_known_ledger[Self]

\* A request in progress is not ahead of the shared values and not behind the
\* answer before it.
RequestSound ==
    /\ request.at \in {"none", "ledger", "timestamp"}
    /\ request.at = "none" => request = NoRequest
    /\ request.at # "none" =>
         /\ AnswerSound(request)
         /\ report # Unset => report.current_ledger <= request.current_ledger
    /\ request.at = "timestamp" =>
         /\ request.executed \in BOOLEAN
         /\ request.executed => confirmed[Self]
         /\ report # Unset /\ report.executed => request.executed

ReportSound ==
    report # Unset =>
        /\ AnswerSound(report)
        /\ report.executed \in BOOLEAN
        /\ report.executed => confirmed[Self]
        /\ report.in_flight_count \in {0, 1}
        /\ report.in_flight_count = 1 => last_known_ledger[Self] > 0

\* The operator's next change also clears the error.
ErrorCurrent == phase = "exited" => error = StartError(env, file)

ProcessInv ==
    /\ TypeOK /\ SetupTyped /\ StatusTyped /\ RequestSound /\ ReportSound
    /\ RunningConfigSound /\ ErrorCurrent
===========================================================================
