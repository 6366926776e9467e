------------------------ MODULE EngineProcessProofs ------------------------
(* The settings, the life and the answers of one engine process, for every *)
(* value of the constants.                                                 *)
EXTENDS EngineProcess, SumProofs

-----------------------------------------------------------------------------
(* config.rs *)

\* The ten settings.
LEMMA SettingNames ==
    /\ Texts = {"KEEPER_KEYPAIR", "RPC_ENDPOINT_URL", "ANCHOR_CONTRACT_ADDRESS"}
    /\ Numbers = {"POLL_INTERVAL_SECS", "TASK_QUERY_TIMEOUT_SECS",
                  "CONFIRMATION_TIMEOUT_SECS", "RETRY_BACKOFF_INITIAL_SECS",
                  "RETRY_BACKOFF_MAX_SECS", "MAX_RETRIES", "HEALTH_PORT"}
    /\ Settings = Texts \cup Numbers
    /\ \A f \in Numbers : Defaults[f] \in Nat
<1>1. DOMAIN Required = 1 .. 3
    BY DEF Required
<1>2. Texts = {"KEEPER_KEYPAIR", "RPC_ENDPOINT_URL", "ANCHOR_CONTRACT_ADDRESS"}
    BY <1>1 DEF Texts, Required
<1>3. Numbers = {"POLL_INTERVAL_SECS", "TASK_QUERY_TIMEOUT_SECS",
                  "CONFIRMATION_TIMEOUT_SECS", "RETRY_BACKOFF_INITIAL_SECS",
                  "RETRY_BACKOFF_MAX_SECS", "MAX_RETRIES", "HEALTH_PORT"}
    BY DEF Numbers, Defaults
<1>4. \A f \in Numbers : Defaults[f] \in Nat
    BY DEF Numbers, Defaults
<1> QED
    BY <1>2, <1>3, <1>4 DEF Settings

\* The parts of a pair of a name and a condition.
LEMMA PairOf ==
    ASSUME NEW name, NEW b \in BOOLEAN, NEW x, x = <<name, b>>
    PROVE  x[2] <=> b
<1>1. x[2] = b
    OBVIOUS
<1> QED
    BY <1>1, Zenon

\* The same for conditions that compare numbers: an upper bound.
LEMMA PairLeq ==
    ASSUME NEW name, NEW y, NEW z, NEW x, x = <<name, y <= z>>
    PROVE  x[2] <=> y <= z
BY PairOf, Zenon

\* A lower bound.
LEMMA PairGeq ==
    ASSUME NEW name, NEW y, NEW z, NEW x, x = <<name, y >= z>>
    PROVE  x[2] <=> y >= z
BY PairOf, Zenon

\* A range.
LEMMA PairIn ==
    ASSUME NEW name, NEW y, NEW z, NEW x, x = <<name, y \in z>>
    PROVE  x[2] <=> y \in z
BY PairOf, Zenon

\* The validation steps: what each one names and demands.
LEMMA ChecksAre ==
    ASSUME NEW e, NEW fl
    PROVE  LET c == Checks(e, fl)
               v(f) == Value(e, fl, f)
           IN  /\ DOMAIN c = 1 .. 9
               /\ c[1][1] = "KEEPER_KEYPAIR" /\ c[2][1] = "RPC_ENDPOINT_URL"
               /\ c[3][1] = "ANCHOR_CONTRACT_ADDRESS" /\ c[4][1] = "POLL_INTERVAL_SECS"
               /\ c[5][1] = "TASK_QUERY_TIMEOUT_SECS" /\ c[6][1] = "CONFIRMATION_TIMEOUT_SECS"
               /\ c[7][1] = "RETRY_BACKOFF_INITIAL_SECS"
               /\ c[8][1] = "RETRY_BACKOFF_MAX_SECS" /\ c[9][1] = "RETRY_BACKOFF_MAX_SECS"
               /\ c[1][2] <=> v("KEEPER_KEYPAIR") \notin {Unset, Blank}
               /\ c[2][2] <=> v("RPC_ENDPOINT_URL") \notin {Unset, Blank}
               /\ c[3][2] <=> v("ANCHOR_CONTRACT_ADDRESS") \notin {Unset, Blank}
               /\ c[4][2] <=> v("POLL_INTERVAL_SECS") \in 1 .. 5
               /\ c[5][2] <=> v("TASK_QUERY_TIMEOUT_SECS") <= 10
               /\ c[6][2] <=> v("CONFIRMATION_TIMEOUT_SECS") <= 60
               /\ c[7][2] <=> v("RETRY_BACKOFF_INITIAL_SECS") >= 1
               /\ c[8][2] <=> v("RETRY_BACKOFF_MAX_SECS") <= 60
               /\ c[9][2] <=> v("RETRY_BACKOFF_MAX_SECS") >= v("RETRY_BACKOFF_INITIAL_SECS")
<1> DEFINE c == Checks(e, fl)
           v(f) == Value(e, fl, f)
<1>1. Required[1] = "KEEPER_KEYPAIR" /\ Required[2] = "RPC_ENDPOINT_URL"
      /\ Required[3] = "ANCHOR_CONTRACT_ADDRESS"
    BY DEF Required
<1>2. DOMAIN c = 1 .. 9
    BY DEF Checks
<1>3. /\ c[1] = <<"KEEPER_KEYPAIR", v("KEEPER_KEYPAIR") \notin {Unset, Blank}>>
      /\ c[2] = <<"RPC_ENDPOINT_URL", v("RPC_ENDPOINT_URL") \notin {Unset, Blank}>>
      /\ c[3] = <<"ANCHOR_CONTRACT_ADDRESS", v("ANCHOR_CONTRACT_ADDRESS") \notin {Unset, Blank}>>
    BY <1>1 DEF Checks
<1>4. /\ c[4] = <<"POLL_INTERVAL_SECS", v("POLL_INTERVAL_SECS") \in 1 .. 5>>
      /\ c[5] = <<"TASK_QUERY_TIMEOUT_SECS", v("TASK_QUERY_TIMEOUT_SECS") <= 10>>
      /\ c[6] = <<"CONFIRMATION_TIMEOUT_SECS", v("CONFIRMATION_TIMEOUT_SECS") <= 60>>
    BY DEF Checks
<1>5. /\ c[7] = <<"RETRY_BACKOFF_INITIAL_SECS", v("RETRY_BACKOFF_INITIAL_SECS") >= 1>>
      /\ c[8] = <<"RETRY_BACKOFF_MAX_SECS", v("RETRY_BACKOFF_MAX_SECS") <= 60>>
      /\ c[9] = <<"RETRY_BACKOFF_MAX_SECS",
                  v("RETRY_BACKOFF_MAX_SECS") >= v("RETRY_BACKOFF_INITIAL_SECS")>>
    BY DEF Checks
<1> HIDE DEF c, v
<1>6. /\ c[1][1] = "KEEPER_KEYPAIR" /\ c[2][1] = "RPC_ENDPOINT_URL"
      /\ c[3][1] = "ANCHOR_CONTRACT_ADDRESS" /\ c[4][1] = "POLL_INTERVAL_SECS"
      /\ c[5][1] = "TASK_QUERY_TIMEOUT_SECS" /\ c[6][1] = "CONFIRMATION_TIMEOUT_SECS"
      /\ c[7][1] = "RETRY_BACKOFF_INITIAL_SECS"
      /\ c[8][1] = "RETRY_BACKOFF_MAX_SECS" /\ c[9][1] = "RETRY_BACKOFF_MAX_SECS"
    BY <1>3, <1>4, <1>5
<1>7. /\ c[1][2] <=> v("KEEPER_KEYPAIR") \notin {Unset, Blank}
      /\ c[2][2] <=> v("RPC_ENDPOINT_URL") \notin {Unset, Blank}
      /\ c[3][2] <=> v("ANCHOR_CONTRACT_ADDRESS") \notin {Unset, Blank}
    BY <1>3, PairOf, Zenon
<1>8. /\ c[4][2] <=> v("POLL_INTERVAL_SECS") \in 1 .. 5
      /\ c[5][2] <=> v("TASK_QUERY_TIMEOUT_SECS") <= 10
      /\ c[6][2] <=> v("CONFIRMATION_TIMEOUT_SECS") <= 60
    <2>1. c[4][2] <=> v("POLL_INTERVAL_SECS") \in 1 .. 5
        BY <1>4, PairIn
    <2>2. c[5][2] <=> v("TASK_QUERY_TIMEOUT_SECS") <= 10
        BY <1>4, PairLeq
    <2>3. c[6][2] <=> v("CONFIRMATION_TIMEOUT_SECS") <= 60
        BY <1>4, PairLeq
    <2> QED
        BY <2>1, <2>2, <2>3
<1>9. /\ c[7][2] <=> v("RETRY_BACKOFF_INITIAL_SECS") >= 1
      /\ c[8][2] <=> v("RETRY_BACKOFF_MAX_SECS") <= 60
      /\ c[9][2] <=> v("RETRY_BACKOFF_MAX_SECS") >= v("RETRY_BACKOFF_INITIAL_SECS")
    <2>1. c[7][2] <=> v("RETRY_BACKOFF_INITIAL_SECS") >= 1
        BY <1>5, PairGeq
    <2>2. c[8][2] <=> v("RETRY_BACKOFF_MAX_SECS") <= 60
        BY <1>5, PairLeq
    <2>3. c[9][2] <=> v("RETRY_BACKOFF_MAX_SECS") >= v("RETRY_BACKOFF_INITIAL_SECS")
        BY <1>5, PairGeq
    <2> QED
        BY <2>1, <2>2, <2>3
<1> QED
    BY <1>2, <1>6, <1>7, <1>8, <1>9 DEF c, v

\* The error names a setting whose check fails, and there is one if any fails.
LEMMA ErrorOfChecks ==
    ASSUME NEW e, NEW fl, fl # BadFile
    PROVE  \/ /\ ConfigError(e, fl) = Unset
              /\ \A i \in 1 .. 9 : Checks(e, fl)[i][2]
           \/ \E i \in 1 .. 9 : ConfigError(e, fl) = Checks(e, fl)[i][1] /\ ~Checks(e, fl)[i][2]
<1> DEFINE failed == {i \in 1 .. 9 : ~Checks(e, fl)[i][2]}
<1>1. DOMAIN Checks(e, fl) = 1 .. 9
    BY ChecksAre
<1>2. ConfigError(e, fl) = IF failed = {} THEN Unset ELSE Checks(e, fl)[Min(failed)][1]
    BY <1>1, Zenon DEF ConfigError
<1>3. failed # {} => Min(failed) \in failed
    <2> SUFFICES ASSUME failed # {} PROVE Min(failed) \in failed
        OBVIOUS
    <2>0. failed \in SUBSET Nat
        OBVIOUS
    <2> HIDE DEF failed
    <2>1. \E m \in failed : \A k \in failed : m <= k
        BY <2>0, LeastNatural
    <2> QED
        BY <2>1, Zenon DEF Min
<1> QED
    BY <1>2, <1>3

\* A setting's error is a failed check of that setting.
LEMMA ErrorNamesSetting ==
    ASSUME NEW e, NEW fl, fl # BadFile, ConfigError(e, fl) # Unset
    PROVE  ConfigError(e, fl) \in Settings \ {"MAX_RETRIES", "HEALTH_PORT"}
<1>1. PICK i \in 1 .. 9 : ConfigError(e, fl) = Checks(e, fl)[i][1]
    BY ErrorOfChecks
<1>2. \A j \in 1 .. 9 : Checks(e, fl)[j][1] \in Settings \ {"MAX_RETRIES", "HEALTH_PORT"}
    <2>1. \A j \in 1 .. 9 : j = 1 \/ j = 2 \/ j = 3 \/ j = 4 \/ j = 5 \/ j = 6 \/ j = 7
                              \/ j = 8 \/ j = 9
        OBVIOUS
    <2> QED
        BY <2>1, ChecksAre, SettingNames
<1> QED
    BY <1>1, <1>2

\* A number that is resolved, from the variable, the file or the default, is one; a
\* text is a candidate or missing.
LEMMA ValueType ==
    ASSUME SetupTyped, file # BadFile
    PROVE  /\ \A f \in Numbers : Value(env, file, f) \in Nat
           /\ \A f \in Texts : Value(env, file, f) \in Candidates[f] \cup {Unset}
<1>0. Texts \cap Numbers = {} /\ Settings = Texts \cup Numbers
    BY SettingNames
<1>1. \A f \in Settings : FileValue(file, f) \in Candidates[f] \cup {Unset}
    BY DEF SetupTyped, FileValue
<1>2. \A f \in Settings : Resolve(env, file, f) \in Candidates[f] \cup {Unset}
    BY <1>0, <1>1 DEF SetupTyped, Resolve
<1>3. \A f \in Numbers : Value(env, file, f) \in Nat
    BY <1>0, <1>2, SettingNames, ProcessConstants DEF Value
<1>4. \A f \in Texts : Value(env, file, f) \in Candidates[f] \cup {Unset}
    BY <1>0, <1>2 DEF Value
<1> QED
    BY <1>3, <1>4

\* The settings of a process that starts meet every check.
LEMMA StartedConfig ==
    ASSUME SetupTyped, StartError(env, file) = Unset
    PROVE  LET c == from_env(env, file) IN
           /\ DOMAIN c = Settings
           /\ \A f \in Settings : env[f] \notin {Unset, Garbage} => c[f] = env[f]
           /\ c["KEEPER_KEYPAIR"] = "seed"
           /\ c["RPC_ENDPOINT_URL"] = "text" /\ c["ANCHOR_CONTRACT_ADDRESS"] = "text"
           /\ c["POLL_INTERVAL_SECS"] \in 1 .. 5
           /\ c["TASK_QUERY_TIMEOUT_SECS"] \in 0 .. 10
           /\ c["CONFIRMATION_TIMEOUT_SECS"] \in 0 .. 60
           /\ c["MAX_RETRIES"] \in Nat
           /\ 1 <= c["RETRY_BACKOFF_INITIAL_SECS"]
           /\ c["RETRY_BACKOFF_INITIAL_SECS"] <= c["RETRY_BACKOFF_MAX_SECS"]
           /\ c["RETRY_BACKOFF_MAX_SECS"] <= 60
<1> DEFINE c == from_env(env, file)
           v(f) == Value(env, file, f)
<1>1. Unset \notin Settings \cup {"config_file"}
    BY ProcessConstants
<1>2. ConfigError(env, file) = Unset /\ v("KEEPER_KEYPAIR") = "seed"
    BY <1>1, SettingNames DEF StartError
<1>3. file # BadFile
    BY <1>1, <1>2 DEF ConfigError
<1>4. \A i \in 1 .. 9 : Checks(env, file)[i][2]
    <2>1. ASSUME NEW i \in 1 .. 9, ConfigError(env, file) = Checks(env, file)[i][1] PROVE FALSE
        <3>1. \A j \in 1 .. 9 : j = 1 \/ j = 2 \/ j = 3 \/ j = 4 \/ j = 5 \/ j = 6 \/ j = 7
                                  \/ j = 8 \/ j = 9
            OBVIOUS
        <3>2. Checks(env, file)[i][1] \in Settings
            BY <3>1, ChecksAre, SettingNames
        <3> QED
            BY <1>1, <1>2, <2>1, <3>2
    <2> QED
        BY <1>3, <2>1, ErrorOfChecks
<1>5. /\ v("RPC_ENDPOINT_URL") \notin {Unset, Blank}
      /\ v("ANCHOR_CONTRACT_ADDRESS") \notin {Unset, Blank}
      /\ v("POLL_INTERVAL_SECS") \in 1 .. 5
      /\ v("TASK_QUERY_TIMEOUT_SECS") <= 10 /\ v("CONFIRMATION_TIMEOUT_SECS") <= 60
      /\ v("RETRY_BACKOFF_INITIAL_SECS") >= 1
      /\ v("RETRY_BACKOFF_MAX_SECS") <= 60
      /\ v("RETRY_BACKOFF_MAX_SECS") >= v("RETRY_BACKOFF_INITIAL_SECS")
    BY <1>4, ChecksAre
<1>6. /\ \A f \in Numbers : v(f) \in Nat
      /\ \A f \in Texts : v(f) \in Candidates[f] \cup {Unset}
    BY <1>3, ValueType
<1>7. \A f \in {"RPC_ENDPOINT_URL", "ANCHOR_CONTRACT_ADDRESS"} :
         f \in Texts /\ Candidates[f] \subseteq {"text", Blank}
    BY SettingNames, ProcessConstants
<1>8. v("RPC_ENDPOINT_URL") = "text" /\ v("ANCHOR_CONTRACT_ADDRESS") = "text"
    BY <1>5, <1>6, <1>7
<1>9. DOMAIN c = Settings /\ \A f \in Settings : c[f] = v(f)
    BY DEF from_env
<1>10. \A f \in Settings : env[f] \notin {Unset, Garbage} => v(f) = env[f]
    BY DEF Value, Resolve
<1> HIDE DEF c, v
<1> QED
    BY <1>2, <1>5, <1>6, <1>8, <1>9, <1>10, SettingNames DEF c

-----------------------------------------------------------------------------
(* main.rs *)

\* The operator's changes keep the configuration made of candidates.
LEMMA SetupStep ==
    ASSUME SetupTyped, [Next]_vars
    PROVE  SetupTyped'
<1>0. Texts \cap Numbers = {} /\ Settings = Texts \cup Numbers
    BY SettingNames
<1>1. ASSUME NEW f \in Settings, NEW v \in Candidates[f] \cup {Unset}, EditFile(f, v)
      PROVE  SetupTyped'
    <2>1. env' = env /\ file' = [file EXCEPT ![f] = v] /\ file \notin {NoFile, BadFile}
        BY <1>1 DEF EditFile, Edit
    <2>2. DOMAIN file' = Settings /\ \A g \in Settings : file'[g] \in Candidates[g] \cup {Unset}
        BY <2>1 DEF SetupTyped
    <2> QED
        BY <2>1, <2>2 DEF SetupTyped
<1>2. ASSUME NEW f \in Texts, NEW v \in Candidates[f] \cup {Unset}, EditEnv(f, v)
      PROVE  SetupTyped'
    <2>1. env' = [env EXCEPT ![f] = v] /\ file' = file
        BY <1>2 DEF EditEnv, Edit
    <2>2. /\ DOMAIN env' = Settings
          /\ \A g \in Texts : env'[g] \in Candidates[g] \cup {Unset}
          /\ \A g \in Numbers : env'[g] \in Candidates[g] \cup {Unset, Garbage}
        BY <1>0, <2>1 DEF SetupTyped
    <2> QED
        BY <2>1, <2>2 DEF SetupTyped
<1>3. ASSUME NEW f \in Numbers, NEW v \in Candidates[f] \cup {Unset, Garbage}, EditEnv(f, v)
      PROVE  SetupTyped'
    <2>1. env' = [env EXCEPT ![f] = v] /\ file' = file
        BY <1>3 DEF EditEnv, Edit
    <2>2. /\ DOMAIN env' = Settings
          /\ \A g \in Texts : env'[g] \in Candidates[g] \cup {Unset}
          /\ \A g \in Numbers : env'[g] \in Candidates[g] \cup {Unset, Garbage}
        BY <1>0, <2>1 DEF SetupTyped
    <2> QED
        BY <2>1, <2>2 DEF SetupTyped
<1>4. ASSUME NEW newFile \in {NoFile, BadFile, EmptyFile}, ReplaceFile(newFile)
      PROVE  SetupTyped'
    <2>1. env' = env /\ file' = newFile
        BY <1>4 DEF ReplaceFile, Edit
    <2>2. DOMAIN EmptyFile = Settings /\ \A f \in Settings : EmptyFile[f] \in Candidates[f] \cup {Unset}
        BY DEF EmptyFile
    <2> QED
        BY <2>1, <2>2 DEF SetupTyped
<1>5. CASE UNCHANGED setup
    BY <1>5 DEF SetupTyped, setup
<1>6. Exit \/ Start \/ CtrlC \/ Work \/ ReadLedger \/ ReadTimestamp \/ Respond => UNCHANGED setup
    BY DEF Exit, Start, CtrlC, Work, ReadLedger, ReadTimestamp, Respond
<1>7. \A result : Bind(result) => UNCHANGED setup
    BY DEF Bind
<1>8. UNCHANGED vars => UNCHANGED setup
    BY DEF vars
<1> QED
    BY <1>1, <1>2, <1>3, <1>4, <1>5, <1>6, <1>7, <1>8 DEF Next

\* What the poller and the pipeline do to the shared values: the ledger grows, a
\* confirmation stays, at most one task is in flight.
LEMMA WorkStep ==
    ASSUME StatusTyped, Work
    PROVE  /\ StatusTyped'
           /\ last_known_ledger[Self] <= last_known_ledger'[Self]
           /\ confirmed[Self] => confirmed'[Self]
<1>1. ASSUME NEW seq \in 1 .. MaxLedger, S!Advance(Self, seq)
      PROVE  /\ StatusTyped'
             /\ last_known_ledger[Self] <= last_known_ledger'[Self]
             /\ confirmed[Self] => confirmed'[Self]
    <2>0. MaxLedger \in Nat
        BY ProcessConstants
    <2>1. /\ last_known_ledger' = [last_known_ledger EXCEPT ![Self] = seq]
          /\ seq > last_known_ledger[Self]
          /\ in_flight' = in_flight /\ confirmed' = confirmed
        BY <1>1 DEF S!Advance
    <2>2. last_known_ledger' \in [{Self} -> Nat] /\ last_known_ledger'[Self] = seq
        BY <2>0, <2>1 DEF StatusTyped
    <2> QED
        BY <2>0, <2>1, <2>2 DEF StatusTyped
<1>2. ASSUME NEW id \in TaskIds, S!Begin(Self, id)
      PROVE  /\ StatusTyped'
             /\ last_known_ledger[Self] <= last_known_ledger'[Self]
             /\ confirmed[Self] => confirmed'[Self]
    <2>1. /\ in_flight' = [in_flight EXCEPT ![Self] = {id}]
          /\ last_known_ledger[Self] > 0
          /\ last_known_ledger' = last_known_ledger /\ confirmed' = confirmed
        BY <1>2 DEF S!Begin
    <2>2. in_flight' \in [{Self} -> SUBSET TaskIds] /\ in_flight'[Self] = {id}
        BY <2>1 DEF StatusTyped
    <2> QED
        BY <2>1, <2>2 DEF StatusTyped
<1>3. ASSUME S!Record(Self)
      PROVE  /\ StatusTyped'
             /\ last_known_ledger[Self] <= last_known_ledger'[Self]
             /\ confirmed[Self] => confirmed'[Self]
    <2>1. /\ confirmed' = [confirmed EXCEPT ![Self] = TRUE]
          /\ last_known_ledger' = last_known_ledger /\ in_flight' = in_flight
        BY <1>3 DEF S!Record
    <2>2. confirmed' \in [{Self} -> BOOLEAN] /\ confirmed'[Self] = TRUE
        BY <2>1 DEF StatusTyped
    <2> QED
        BY <2>1, <2>2 DEF StatusTyped
<1>4. ASSUME S!End(Self)
      PROVE  /\ StatusTyped'
             /\ last_known_ledger[Self] <= last_known_ledger'[Self]
             /\ confirmed[Self] => confirmed'[Self]
    <2>1. /\ in_flight' = [in_flight EXCEPT ![Self] = {}]
          /\ last_known_ledger' = last_known_ledger /\ confirmed' = confirmed
        BY <1>4 DEF S!End
    <2>2. in_flight' \in [{Self} -> SUBSET TaskIds] /\ in_flight'[Self] = {}
        BY <2>1 DEF StatusTyped
    <2> QED
        BY <2>1, <2>2 DEF StatusTyped
<1> QED
    BY <1>1, <1>2, <1>3, <1>4 DEF Work

\* A stopped process has the initial shared values.
LEMMA StoppedStatus ==
    S!StatusInit => StatusTyped
BY DEF S!StatusInit, StatusTyped

\* Ctrl-C brings the shared values back to their initial ones.
LEMMA StopStep ==
    ASSUME StatusTyped, S!Stop(Self)
    PROVE  S!StatusInit' /\ StatusTyped'
<1>1. S!StatusInit'
    BY DEF S!Stop, S!StatusInit, StatusTyped
<1> QED
    BY <1>1 DEF S!StatusInit, StatusTyped

\* An engine has nothing in flight or one task.
LEMMA InFlightCount ==
    ASSUME StatusTyped
    PROVE  /\ Cardinality(in_flight[Self]) \in {0, 1}
           /\ Cardinality(in_flight[Self]) = 1 => last_known_ledger[Self] > 0
<1>1. CASE in_flight[Self] = {}
    BY <1>1, FS_EmptySet
<1>2. CASE in_flight[Self] # {}
    <2>1. PICK id \in TaskIds : in_flight[Self] = {id}
        BY <1>2 DEF StatusTyped
    <2>2. Cardinality({id}) = 1
        BY FS_Singleton
    <2> QED
        BY <1>2, <2>1, <2>2 DEF StatusTyped
<1> QED
    BY <1>1, <1>2

\* The part of the invariant that is about the process and not its configuration.
ProcessSound ==
    /\ TypeOK /\ StatusTyped /\ RequestSound /\ ReportSound
    /\ RunningConfigSound /\ ErrorCurrent

\* A change of the configuration finds and leaves the process down.
LEMMA EditStep ==
    ASSUME ProcessInv, NEW newEnv, NEW newFile, Edit(newEnv, newFile)
    PROVE  ProcessSound'
<1>1. /\ phase # "running" /\ phase' = "stopped" /\ error' = Unset
      /\ cfg' = cfg /\ health' = health /\ request' = request /\ report' = report
      /\ last_known_ledger' = last_known_ledger /\ in_flight' = in_flight
      /\ confirmed' = confirmed
    BY DEF Edit, status
<1>2. TypeOK'
    BY <1>1 DEF ProcessInv, TypeOK, S!StatusInit
<1>3. StatusTyped' /\ RequestSound' /\ ReportSound'
    BY <1>1 DEF ProcessInv, StatusTyped, RequestSound, ReportSound, AnswerSound
<1>4. RunningConfigSound' /\ ErrorCurrent'
    BY <1>1 DEF RunningConfigSound, ErrorCurrent
<1> QED
    BY <1>2, <1>3, <1>4 DEF ProcessSound

\* A launch that fails leaves the process down and names the error.
LEMMA ExitStep ==
    ASSUME ProcessInv, Exit
    PROVE  ProcessSound'
<1>1. /\ phase # "running" /\ phase' = "exited" /\ error' = StartError(env, file)
      /\ StartError(env, file) # Unset /\ env' = env /\ file' = file
      /\ cfg' = cfg /\ health' = health /\ request' = request /\ report' = report
      /\ last_known_ledger' = last_known_ledger /\ in_flight' = in_flight
      /\ confirmed' = confirmed
    BY DEF Exit, setup, status
<1>2. TypeOK'
    BY <1>1 DEF ProcessInv, TypeOK, S!StatusInit
<1>3. StatusTyped' /\ RequestSound' /\ ReportSound'
    BY <1>1 DEF ProcessInv, StatusTyped, RequestSound, ReportSound, AnswerSound
<1>4. RunningConfigSound' /\ ErrorCurrent'
    BY <1>1 DEF RunningConfigSound, ErrorCurrent
<1> QED
    BY <1>2, <1>3, <1>4 DEF ProcessSound

\* A process starts with settings that met every check and with initial values.
LEMMA StartStep ==
    ASSUME ProcessInv, Start
    PROVE  ProcessSound'
<1>1. /\ phase # "running" /\ phase' = "running" /\ error' = Unset
      /\ StartError(env, file) = Unset /\ cfg' = from_env(env, file)
      /\ env' = env
      /\ health' = "binding" /\ request' = request /\ report' = report
      /\ last_known_ledger' = last_known_ledger /\ in_flight' = in_flight
      /\ confirmed' = confirmed
    BY DEF Start, setup, status
<1>2. cfg' # NoConfig
    <2>1. DOMAIN cfg' = Settings /\ DOMAIN NoConfig = {}
        BY <1>1 DEF from_env, NoConfig
    <2> QED
        BY <2>1, SettingNames
<1>3. TypeOK'
    <2>1. NoConfig' = NoConfig
        BY DEF NoConfig
    <2> QED
        BY <1>1, <1>2, <2>1 DEF ProcessInv, TypeOK, S!StatusInit
<1>4. StatusTyped' /\ RequestSound' /\ ReportSound'
    BY <1>1 DEF ProcessInv, StatusTyped, RequestSound, ReportSound, AnswerSound
<1>5. RunningConfigSound'
    BY <1>1, StartedConfig DEF ProcessInv, RunningConfigSound
<1>6. ErrorCurrent'
    BY <1>1 DEF ErrorCurrent
<1> QED
    BY <1>3, <1>4, <1>5, <1>6 DEF ProcessSound

\* Ctrl-C ends the tasks and drops the request and the answer with them.
LEMMA CtrlCStep ==
    ASSUME ProcessInv, CtrlC
    PROVE  ProcessSound'
<1>1. /\ phase' = "stopped" /\ cfg' = NoConfig /\ error' = error /\ phase = "running"
      /\ health' = "down" /\ request' = NoRequest /\ report' = Unset
    BY DEF CtrlC
<1>2. S!StatusInit' /\ StatusTyped'
    BY StopStep DEF ProcessInv, CtrlC
<1>3. TypeOK'
    BY <1>1, <1>2 DEF ProcessInv, TypeOK, NoConfig, NoRequest
<1>4. RequestSound' /\ ReportSound'
    BY <1>1 DEF RequestSound, ReportSound, NoRequest
<1>5. RunningConfigSound' /\ ErrorCurrent'
    BY <1>1 DEF RunningConfigSound, ErrorCurrent
<1> QED
    BY <1>2, <1>3, <1>4, <1>5 DEF ProcessSound

\* The tasks move the shared values away from what was read, never below it.
LEMMA TasksStep ==
    ASSUME ProcessInv, Work
    PROVE  ProcessSound'
<1>1. /\ phase = "running" /\ phase' = phase /\ cfg' = cfg /\ error' = error
      /\ env' = env /\ file' = file
      /\ health' = health /\ request' = request /\ report' = report
    BY DEF Work, main, setup
<1>2. /\ StatusTyped'
      /\ last_known_ledger[Self] <= last_known_ledger'[Self]
      /\ confirmed[Self] => confirmed'[Self]
    BY WorkStep DEF ProcessInv
<1>3. last_known_ledger[Self] \in Nat /\ last_known_ledger'[Self] \in Nat
    BY <1>2 DEF ProcessInv, StatusTyped
<1>4. TypeOK'
    BY <1>1 DEF ProcessInv, TypeOK
<1>5. RequestSound' /\ ReportSound'
    BY <1>1, <1>2, <1>3 DEF ProcessInv, RequestSound, ReportSound, AnswerSound
<1>6. RunningConfigSound' /\ ErrorCurrent'
    BY <1>1 DEF ProcessInv, RunningConfigSound, ErrorCurrent
<1> QED
    BY <1>2, <1>4, <1>5, <1>6 DEF ProcessSound

\* The health server's task binds its port or dies, and nothing else changes.
LEMMA BindStep ==
    ASSUME ProcessInv, NEW result \in {"serving", "dead"}, Bind(result)
    PROVE  ProcessSound'
<1>1. /\ phase' = phase /\ cfg' = cfg /\ error' = error
      /\ env' = env /\ file' = file
      /\ last_known_ledger' = last_known_ledger /\ in_flight' = in_flight
      /\ confirmed' = confirmed
      /\ health = "binding" /\ health' = result /\ request' = request /\ report' = report
    BY DEF Bind, main, setup, status
<1>2. TypeOK'
    BY <1>1 DEF ProcessInv, TypeOK, S!StatusInit
<1>3. StatusTyped' /\ RequestSound' /\ ReportSound'
    BY <1>1 DEF ProcessInv, StatusTyped, RequestSound, ReportSound, AnswerSound
<1>4. RunningConfigSound' /\ ErrorCurrent'
    BY <1>1 DEF ProcessInv, RunningConfigSound, ErrorCurrent
<1> QED
    BY <1>2, <1>3, <1>4 DEF ProcessSound

\* The three steps of the health handler keep a request between the answer before
\* it and the shared values; the last of them makes it the answer.
LEMMA HandlerStep ==
    ASSUME ProcessInv, ReadLedger \/ ReadTimestamp \/ Respond
    PROVE  ProcessSound'
<1>1. /\ phase' = phase /\ cfg' = cfg /\ error' = error
      /\ env' = env /\ file' = file /\ health' = health
      /\ last_known_ledger' = last_known_ledger /\ in_flight' = in_flight
      /\ confirmed' = confirmed
    BY DEF ReadLedger, ReadTimestamp, Respond, main, setup, status
<1>2. StatusTyped' /\ RunningConfigSound' /\ ErrorCurrent'
    BY <1>1 DEF ProcessInv, StatusTyped, RunningConfigSound, ErrorCurrent
<1>3. health = "serving"
    BY DEF ProcessInv, TypeOK, NoRequest, ReadLedger, ReadTimestamp, Respond
<1>4. TypeOK'
    BY <1>1, <1>3 DEF ProcessInv, TypeOK, S!StatusInit
<1>5. last_known_ledger[Self] \in Nat /\ confirmed[Self] \in BOOLEAN
    BY DEF ProcessInv, StatusTyped
<1>6. ASSUME ReadLedger PROVE RequestSound' /\ ReportSound'
    <2>1. /\ request' = [at |-> "ledger", current_ledger |-> last_known_ledger[Self]]
          /\ report' = report
        BY <1>6 DEF ReadLedger
    <2>2. request'.at = "ledger" /\ request'.current_ledger = last_known_ledger[Self]
        BY <2>1
    <2> QED
        BY <1>1, <1>5, <2>1, <2>2 DEF ProcessInv, RequestSound, ReportSound, AnswerSound
<1>7. ASSUME ReadTimestamp PROVE RequestSound' /\ ReportSound'
    <2>1. /\ request' = [at |-> "timestamp", current_ledger |-> request.current_ledger,
                         executed |-> confirmed[Self]]
          /\ report' = report /\ request.at = "ledger"
        BY <1>7 DEF ReadTimestamp
    <2>2. /\ request'.at = "timestamp" /\ request'.current_ledger = request.current_ledger
          /\ request'.executed = confirmed[Self]
        BY <2>1
    <2> QED
        BY <1>1, <1>5, <2>1, <2>2 DEF ProcessInv, RequestSound, ReportSound, AnswerSound
<1>8. ASSUME Respond PROVE RequestSound' /\ ReportSound'
    <2>1. /\ request' = NoRequest /\ request.at = "timestamp"
          /\ report' = [current_ledger |-> request.current_ledger,
                        executed |-> request.executed,
                        in_flight_count |-> Cardinality(in_flight[Self])]
        BY <1>8 DEF Respond
    <2>2. /\ report'.current_ledger = request.current_ledger
          /\ report'.executed = request.executed
          /\ report'.in_flight_count = Cardinality(in_flight[Self])
        BY <2>1
    <2>3. /\ Cardinality(in_flight[Self]) \in {0, 1}
          /\ Cardinality(in_flight[Self]) = 1 => last_known_ledger[Self] > 0
        BY InFlightCount DEF ProcessInv
    <2>4. RequestSound'
        BY <2>1 DEF RequestSound, NoRequest
    <2>5. ReportSound'
        BY <1>1, <1>5, <2>1, <2>2, <2>3 DEF ProcessInv, RequestSound, ReportSound, AnswerSound
    <2> QED
        BY <2>4, <2>5
<1> QED
    BY <1>2, <1>4, <1>6, <1>7, <1>8 DEF ProcessSound

\* The inductive invariant holds in every reachable state.
LEMMA ProcessInvariant == Spec => []ProcessInv
<1>1. Init => ProcessInv
    <2> SUFFICES ASSUME Init PROVE ProcessInv
        OBVIOUS
    <2>1. TypeOK
        BY ProcessConstants DEF Init, TypeOK
    <2>2. SetupTyped
        <3>1. Texts \cap Numbers = {} /\ Settings = Texts \cup Numbers
              /\ "KEEPER_KEYPAIR" \in Texts
            BY SettingNames
        <3>2. /\ DOMAIN env = Settings
              /\ env["KEEPER_KEYPAIR"] = "seed"
              /\ \A f \in Texts \ {"KEEPER_KEYPAIR"} : env[f] = "text"
              /\ \A f \in Numbers : env[f] = Unset
            BY <3>1 DEF Init
        <3>3. /\ "seed" \in Candidates["KEEPER_KEYPAIR"]
              /\ \A f \in Texts \ {"KEEPER_KEYPAIR"} : "text" \in Candidates[f]
            BY ProcessConstants
        <3>4. \/ file = NoFile
              \/ DOMAIN file = Settings /\ \A f \in Settings : file[f] = Unset
            BY DEF Init, EmptyFile
        <3> QED
            BY <3>1, <3>2, <3>3, <3>4 DEF SetupTyped
    <2>3. StatusTyped
        BY StoppedStatus DEF Init
    <2>4. RequestSound /\ ReportSound /\ RunningConfigSound /\ ErrorCurrent
        BY DEF Init, NoRequest, RequestSound, ReportSound, RunningConfigSound, ErrorCurrent
    <2> QED
        BY <2>1, <2>2, <2>3, <2>4 DEF ProcessInv
<1>2. ProcessInv /\ [Next]_vars => ProcessInv'
    <2> SUFFICES ASSUME ProcessInv, [Next]_vars PROVE ProcessInv'
        OBVIOUS
    <2>1. SetupTyped'
        BY SetupStep DEF ProcessInv
    <2>2. ASSUME NEW newEnv, NEW newFile, Edit(newEnv, newFile) PROVE ProcessSound'
        BY <2>2, EditStep
    <2>3. ASSUME NEW f, NEW v, EditFile(f, v) PROVE ProcessSound'
        BY <2>2, <2>3 DEF EditFile
    <2>4. ASSUME NEW f, NEW v, EditEnv(f, v) PROVE ProcessSound'
        BY <2>2, <2>4 DEF EditEnv
    <2>5. ASSUME NEW newFile, ReplaceFile(newFile) PROVE ProcessSound'
        BY <2>2, <2>5 DEF ReplaceFile
    <2>6. ASSUME UNCHANGED vars PROVE ProcessSound'
        BY <2>6 DEF ProcessInv, ProcessSound, TypeOK, S!StatusInit, StatusTyped, RequestSound,
                    ReportSound, AnswerSound, RunningConfigSound, ErrorCurrent,
                    vars, setup, main, status
    <2>7. ProcessSound'
        BY <2>3, <2>4, <2>5, <2>6, ExitStep, StartStep, CtrlCStep, TasksStep, BindStep,
           HandlerStep DEF Next
    <2> QED
        BY <2>1, <2>7 DEF ProcessInv, ProcessSound
<1> QED
    BY <1>1, <1>2, PTL DEF Spec

\* main.rs: process, server and tasks agree on whether the process runs; it has
\* settings, shared values and answers only while it does.
THEOREM ProcessTypeCorrect == Spec => []TypeOK
<1>1. ProcessInv => TypeOK
    BY DEF ProcessInv
<1> QED
    BY <1>1, ProcessInvariant, PTL

\* config.rs: a process that got past from_env and derive_keypair runs with the
\* variables that are set and parse, whatever the file says, and with settings within
\* the bounds that from_env enforces, on which Engine's assumptions rest.
THEOREM RunningConfigIsSound == Spec => []RunningConfigSound
<1>1. ProcessInv => RunningConfigSound
    BY DEF ProcessInv
<1> QED
    BY <1>1, ProcessInvariant, PTL

\* health_server.rs: an answer shows nothing that did not happen, although its three
\* values are read at different times.
THEOREM ReportsAreTruthful == Spec => []ReportTruthful
<1>1. ProcessInv => ReportTruthful
    <2> SUFFICES ASSUME ProcessInv, report # Unset
                 PROVE  ReportTruthful
        BY DEF ReportTruthful
    <2>1. last_known_ledger[Self] \in Nat
        BY DEF ProcessInv, StatusTyped
    <2> QED
        BY <2>1 DEF ProcessInv, ReportSound, AnswerSound, ReportTruthful
<1> QED
    BY <1>1, ProcessInvariant, PTL

\* health_server.rs: the answers of one process never go back.
THEOREM ReportsOnlyAdvance == Spec => ReportsAdvance
<1>1. ASSUME ProcessInv, [Next]_vars, report # Unset, report' # Unset
      PROVE  /\ report'.current_ledger >= report.current_ledger
             /\ report.executed => report'.executed
    <2>1. last_known_ledger[Self] \in Nat
        BY <1>1 DEF ProcessInv, StatusTyped
    <2>2. report.current_ledger \in Nat
        BY <1>1, <2>1 DEF ProcessInv, ReportSound, AnswerSound
    <2>3. CASE report' = report
        BY <2>2, <2>3
    <2>4. CASE Respond
        <3>1. /\ request.at = "timestamp"
              /\ report'.current_ledger = request.current_ledger
              /\ report'.executed = request.executed
            BY <2>4 DEF Respond
        <3>2. /\ request.current_ledger \in Nat
              /\ report.current_ledger <= request.current_ledger
              /\ report.executed => request.executed
            BY <1>1, <2>1, <3>1 DEF ProcessInv, RequestSound, AnswerSound
        <3> QED
            BY <2>2, <3>1, <3>2
    <2>5. Next => Respond \/ report' = report \/ report' = Unset
        BY DEF Next, EditFile, EditEnv, ReplaceFile, Edit, Exit, Start, CtrlC, Work, Bind,
               ReadLedger, ReadTimestamp
    <2> QED
        BY <1>1, <2>3, <2>4, <2>5 DEF vars
<1> QED
    BY <1>1, ProcessInvariant, PTL DEF Spec, ReportsAdvance

-----------------------------------------------------------------------------
(* Which setting an error names. *)

\* An error names a setting for a value of that setting which a check refuses.
LEMMA ErrorReasons ==
    ASSUME NEW e, NEW fl, fl # BadFile
    PROVE  LET v(f) == Value(e, fl, f)
               named(f) == StartError(e, fl) = f
           IN  /\ StartError(e, fl) \in (Settings \ {"MAX_RETRIES", "HEALTH_PORT"}) \cup {Unset}
               /\ named("KEEPER_KEYPAIR") => v("KEEPER_KEYPAIR") # "seed"
               /\ named("RPC_ENDPOINT_URL") => v("RPC_ENDPOINT_URL") # "text"
               /\ named("ANCHOR_CONTRACT_ADDRESS") => v("ANCHOR_CONTRACT_ADDRESS") # "text"
               /\ named("POLL_INTERVAL_SECS") => v("POLL_INTERVAL_SECS") \notin 1 .. 5
               /\ named("TASK_QUERY_TIMEOUT_SECS") => ~(v("TASK_QUERY_TIMEOUT_SECS") <= 10)
               /\ named("CONFIRMATION_TIMEOUT_SECS") => ~(v("CONFIRMATION_TIMEOUT_SECS") <= 60)
               /\ named("RETRY_BACKOFF_INITIAL_SECS") => ~(v("RETRY_BACKOFF_INITIAL_SECS") >= 1)
               /\ named("RETRY_BACKOFF_MAX_SECS") =>
                    \/ ~(v("RETRY_BACKOFF_MAX_SECS") <= 60)
                    \/ ~(v("RETRY_BACKOFF_MAX_SECS") >= v("RETRY_BACKOFF_INITIAL_SECS"))
<1> DEFINE v(f) == Value(e, fl, f)
           err == StartError(e, fl)
           c == Checks(e, fl)
<1>0. /\ Unset \notin Settings \cup {"seed", "text"} /\ Blank \notin {"seed", "text"}
    BY ProcessConstants
<1>1. \/ err = Unset
      \/ err = "KEEPER_KEYPAIR" /\ v("KEEPER_KEYPAIR") # "seed"
      \/ err = ConfigError(e, fl) /\ err # Unset
    BY DEF StartError
<1>2. ConfigError(e, fl) # Unset =>
        \E i \in 1 .. 9 : ConfigError(e, fl) = c[i][1] /\ ~c[i][2]
    BY ErrorOfChecks
<1>3. CASE err = Unset
    BY <1>0, <1>3, SettingNames
<1>4. CASE err = "KEEPER_KEYPAIR" /\ v("KEEPER_KEYPAIR") # "seed"
    BY <1>4, SettingNames
<1>5. ASSUME NEW i \in 1 .. 9, err = c[i][1], ~c[i][2]
      PROVE  \/ i = 1 /\ err = "KEEPER_KEYPAIR" /\ v("KEEPER_KEYPAIR") \in {Unset, Blank}
             \/ i = 2 /\ err = "RPC_ENDPOINT_URL" /\ v("RPC_ENDPOINT_URL") \in {Unset, Blank}
             \/ /\ i = 3 /\ err = "ANCHOR_CONTRACT_ADDRESS"
                /\ v("ANCHOR_CONTRACT_ADDRESS") \in {Unset, Blank}
             \/ i = 4 /\ err = "POLL_INTERVAL_SECS" /\ v("POLL_INTERVAL_SECS") \notin 1 .. 5
             \/ /\ i = 5 /\ err = "TASK_QUERY_TIMEOUT_SECS"
                /\ ~(v("TASK_QUERY_TIMEOUT_SECS") <= 10)
             \/ /\ i = 6 /\ err = "CONFIRMATION_TIMEOUT_SECS"
                /\ ~(v("CONFIRMATION_TIMEOUT_SECS") <= 60)
             \/ /\ i = 7 /\ err = "RETRY_BACKOFF_INITIAL_SECS"
                /\ ~(v("RETRY_BACKOFF_INITIAL_SECS") >= 1)
             \/ /\ i \in {8, 9} /\ err = "RETRY_BACKOFF_MAX_SECS"
                /\ \/ ~(v("RETRY_BACKOFF_MAX_SECS") <= 60)
                   \/ ~(v("RETRY_BACKOFF_MAX_SECS") >= v("RETRY_BACKOFF_INITIAL_SECS"))
    <2>1. i = 1 \/ i = 2 \/ i = 3 \/ i = 4 \/ i = 5 \/ i = 6 \/ i = 7 \/ i = 8 \/ i = 9
        OBVIOUS
    <2> HIDE DEF err
    <2> QED
        BY <1>5, <2>1, ChecksAre
<1> HIDE DEF v, err
<1>6. CASE err = ConfigError(e, fl) /\ err # Unset
    <2>1. PICK i \in 1 .. 9 : err = c[i][1] /\ ~c[i][2]
        BY <1>2, <1>6
    <2> QED
        BY <1>0, <1>5, <2>1, SettingNames DEF v, err
<1> QED
    BY <1>1, <1>3, <1>4, <1>6 DEF v, err

\* A candidate in a variable is the value of its setting, and of no other.
LEMMA ChangedValue ==
    ASSUME SetupTyped, NEW f \in Settings, NEW v \in Candidates[f]
    PROVE  LET e == [env EXCEPT ![f] = v]
           IN  /\ Value(e, file, f) = v
               /\ \A g \in Settings \ {f} : Value(e, file, g) = Value(env, file, g)
<1> DEFINE e == [env EXCEPT ![f] = v]
<1>1. v # Unset /\ v # Garbage
    BY ProcessConstants
<1>2. e[f] = v /\ \A g \in Settings \ {f} : e[g] = env[g]
    BY DEF SetupTyped
<1> HIDE DEF e
<1>3. Resolve(e, file, f) = v /\ \A g \in Settings \ {f} : Resolve(e, file, g) = Resolve(env, file, g)
    BY <1>1, <1>2 DEF Resolve
<1>4. Value(e, file, f) = v /\ \A g \in Settings \ {f} : Value(e, file, g) = Value(env, file, g)
    BY <1>1, <1>3 DEF Value
<1> QED
    BY <1>4 DEF e

\* config.rs: some value of the environment variable that the message names gets the
\* process past it, whatever the file says; the exception is an initial back-off
\* beyond 60, for which the maximum is blamed.
THEOREM ErrorsNameTheCulprit == Spec => []ErrorNamesCulprit
<1>1. ASSUME ProcessInv, phase = "exited"
      PROVE  \/ error = "config_file" /\ file = BadFile
             \/ /\ error \in Settings
                /\ \E v \in Candidates[error] : StartError([env EXCEPT ![error] = v], file) # error
             \/ /\ error = "RETRY_BACKOFF_MAX_SECS"
                /\ Value(env, file, "RETRY_BACKOFF_INITIAL_SECS") > 60
    <2>0. SetupTyped /\ error = StartError(env, file) /\ error # Unset
        BY <1>1 DEF ProcessInv, ErrorCurrent, TypeOK
    <2>1. CASE file = BadFile
        BY <2>0, <2>1, ProcessConstants DEF StartError, ConfigError
    <2>2. CASE file # BadFile
        <3>1. error \in Settings \ {"MAX_RETRIES", "HEALTH_PORT"}
            BY <2>0, <2>2, ErrorReasons
        <3> DEFINE good == [f \in Settings |->
                      IF f = "KEEPER_KEYPAIR" THEN "seed" ELSE IF f \in Texts THEN "text"
                      ELSE IF f = "TASK_QUERY_TIMEOUT_SECS" THEN 10
                      ELSE IF f \in {"CONFIRMATION_TIMEOUT_SECS", "RETRY_BACKOFF_MAX_SECS"} THEN 60
                      ELSE 1]
                   e == [env EXCEPT ![error] = good[error]]
        <3>2. /\ good["KEEPER_KEYPAIR"] = "seed" /\ good["RPC_ENDPOINT_URL"] = "text"
              /\ good["ANCHOR_CONTRACT_ADDRESS"] = "text" /\ good["POLL_INTERVAL_SECS"] = 1
              /\ good["TASK_QUERY_TIMEOUT_SECS"] = 10 /\ good["CONFIRMATION_TIMEOUT_SECS"] = 60
              /\ good["RETRY_BACKOFF_INITIAL_SECS"] = 1 /\ good["RETRY_BACKOFF_MAX_SECS"] = 60
            BY SettingNames
        <3> HIDE DEF good
        <3>3. good[error] \in Candidates[error]
            BY <3>1, <3>2, SettingNames, ProcessConstants
        <3>4. Value(e, file, error) = good[error]
            BY <2>0, <3>1, <3>3, ChangedValue
        <3>5. \A g \in Settings \ {error} : Value(e, file, g) = Value(env, file, g)
            BY <2>0, <3>1, <3>3, ChangedValue
        <3>6. Value(env, file, "RETRY_BACKOFF_INITIAL_SECS") \in Nat
            BY <2>0, <2>2, ValueType, SettingNames
        <3>7. ASSUME StartError(e, file) = error
              PROVE  /\ error = "RETRY_BACKOFF_MAX_SECS"
                     /\ Value(env, file, "RETRY_BACKOFF_INITIAL_SECS") > 60
            <4> HIDE DEF e
            <4>1. CASE error \in Texts
                BY <2>2, <3>2, <3>4, <3>7, <4>1, ErrorReasons, SettingNames
            <4>2. CASE error \in {"POLL_INTERVAL_SECS", "TASK_QUERY_TIMEOUT_SECS",
                                  "CONFIRMATION_TIMEOUT_SECS", "RETRY_BACKOFF_INITIAL_SECS"}
                BY <2>2, <3>2, <3>4, <3>7, <4>2, ErrorReasons
            <4>3. CASE error = "RETRY_BACKOFF_MAX_SECS"
                <5>1. Value(e, file, "RETRY_BACKOFF_INITIAL_SECS")
                        = Value(env, file, "RETRY_BACKOFF_INITIAL_SECS")
                    BY <3>5, <4>3, SettingNames
                <5>2. ~(60 >= Value(e, file, "RETRY_BACKOFF_INITIAL_SECS"))
                    BY <2>2, <3>2, <3>4, <3>7, <4>3, ErrorReasons
                <5> QED
                    BY <3>6, <4>3, <5>1, <5>2
            <4> QED
                BY <3>1, <4>1, <4>2, <4>3, SettingNames
        <3> QED
            BY <3>1, <3>3, <3>7
    <2> QED
        BY <2>1, <2>2
<1>2. ProcessInv => ErrorNamesCulprit
    BY <1>1 DEF ErrorNamesCulprit
<1> QED
    BY <1>2, ProcessInvariant, PTL
=============================================================================
