--------------------------- MODULE MCEngineProcess ---------------------------
(* One process, its settings at and just beyond the bounds of each check. *)
EXTENDS EngineProcess

BoundaryValues ==
    [KEEPER_KEYPAIR |-> {"seed", "junk", Blank}, RPC_ENDPOINT_URL |-> {"text", Blank},
     ANCHOR_CONTRACT_ADDRESS |-> {"text", Blank},
     POLL_INTERVAL_SECS |-> {0, 1, 5, 6}, TASK_QUERY_TIMEOUT_SECS |-> {0, 10, 11},
     CONFIRMATION_TIMEOUT_SECS |-> {0, 60, 61}, RETRY_BACKOFF_INITIAL_SECS |-> {0, 1, 60, 61},
     RETRY_BACKOFF_MAX_SECS |-> {0, 59, 60, 61}, MAX_RETRIES |-> {0, 1}, HEALTH_PORT |-> {9090}]
=============================================================================
