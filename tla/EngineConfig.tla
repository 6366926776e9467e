----------------------------- MODULE EngineConfig -----------------------------
(***************************************************************************)
(* config.rs: the engine's settings, resolved from environment variables,  *)
(* an optional TOML file and defaults, then validated field by field.      *)
(*                                                                         *)
(* Names are those of the environment variables.  A text is Blank (empty   *)
(* or white space) or not; a number in a variable may not parse.           *)
(***************************************************************************)
EXTENDS Integers, Sequences, FiniteSets, FiniteSetsExt

CONSTANTS
    Unset,      \* no such variable, no such key in the file
    Blank,      \* a text that trims to nothing
    Garbage,    \* a text that is no number of the setting's type
    NoFile,     \* CONFIG_FILE is not set and there is no engine.toml
    BadFile     \* the chosen file cannot be read or is no valid TOML

\* In the order in which from_env resolves them.
Required == <<"KEEPER_KEYPAIR", "RPC_ENDPOINT_URL", "ANCHOR_CONTRACT_ADDRESS">>

Defaults ==
    [POLL_INTERVAL_SECS |-> 2, TASK_QUERY_TIMEOUT_SECS |-> 10,
     CONFIRMATION_TIMEOUT_SECS |-> 60, RETRY_BACKOFF_INITIAL_SECS |-> 1,
     RETRY_BACKOFF_MAX_SECS |-> 60, MAX_RETRIES |-> 5, HEALTH_PORT |-> 8080]

Texts == {Required[i] : i \in DOMAIN Required}
Numbers == DOMAIN Defaults
Settings == Texts \cup Numbers

\* A file is NoFile, BadFile or its keys; a missing key is Unset.
FileValue(file, f) == IF file = NoFile THEN Unset ELSE file[f]

\* Mutant: the file wins.
ResolveFileFirst(env, file, f) ==
    IF FileValue(file, f) # Unset THEN FileValue(file, f)
    ELSE IF env[f] = Garbage THEN Unset ELSE env[f]

\* resolve_str, resolve_u64, resolve_u32, resolve_u16: a number that does not
\* parse counts as absent, a blank text does not.
Resolve(env, file, f) ==
    IF env[f] \notin {Unset, Garbage} THEN env[f] ELSE FileValue(file, f)

Value(env, file, f) ==
    IF f \in Numbers /\ Resolve(env, file, f) = Unset THEN Defaults[f]
    ELSE Resolve(env, file, f)

\* Mutant: each value is checked, the order of the two back-offs is not.
ChecksEachAlone(env, file) ==
    LET v(f) == Value(env, file, f)
        present(f) == <<f, v(f) \notin {Unset, Blank}>>
    IN  << present(Required[1]), present(Required[2]), present(Required[3]),
           <<"POLL_INTERVAL_SECS", v("POLL_INTERVAL_SECS") \in 1 .. 5>>,
           <<"TASK_QUERY_TIMEOUT_SECS", v("TASK_QUERY_TIMEOUT_SECS") <= 10>>,
           <<"CONFIRMATION_TIMEOUT_SECS", v("CONFIRMATION_TIMEOUT_SECS") <= 60>>,
           <<"RETRY_BACKOFF_INITIAL_SECS", v("RETRY_BACKOFF_INITIAL_SECS") >= 1>>,
           <<"RETRY_BACKOFF_MAX_SECS", v("RETRY_BACKOFF_MAX_SECS") <= 60>> >>

\* The validation steps in order: the field an error names, and the condition.
Checks(env, file) ==
    LET v(f) == Value(env, file, f)
        present(f) == <<f, v(f) \notin {Unset, Blank}>>
    IN  << present(Required[1]), present(Required[2]), present(Required[3]),
           <<"POLL_INTERVAL_SECS", v("POLL_INTERVAL_SECS") \in 1 .. 5>>,
           <<"TASK_QUERY_TIMEOUT_SECS", v("TASK_QUERY_TIMEOUT_SECS") <= 10>>,
           <<"CONFIRMATION_TIMEOUT_SECS", v("CONFIRMATION_TIMEOUT_SECS") <= 60>>,
           <<"RETRY_BACKOFF_INITIAL_SECS", v("RETRY_BACKOFF_INITIAL_SECS") >= 1>>,
           <<"RETRY_BACKOFF_MAX_SECS", v("RETRY_BACKOFF_MAX_SECS") <= 60>>,
           <<"RETRY_BACKOFF_MAX_SECS",
             v("RETRY_BACKOFF_MAX_SECS") >= v("RETRY_BACKOFF_INITIAL_SECS")>> >>

\* The field ConfigInvalid names, or Unset when the configuration is accepted.
ConfigError(env, file) ==
    IF file = BadFile THEN "config_file"
    ELSE LET failed == {i \in DOMAIN Checks(env, file) : ~Checks(env, file)[i][2]}
         IN  IF failed = {} THEN Unset ELSE Checks(env, file)[Min(failed)][1]

\* from_env, when it returns Ok.
from_env(env, file) == [f \in Settings |-> Value(env, file, f)]
=============================================================================
