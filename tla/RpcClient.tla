------------------------------ MODULE RpcClient ------------------------------
(***************************************************************************)
(* rpc_client.rs and errors.rs: what the engine's calls make of what comes *)
(* back over HTTP.  A call ends in "Ok" or in the class of its error.        *)
(***************************************************************************)

\* What can come of a JSON-RPC request: no connection, a timeout, another
\* transport error, an HTTP status that is no success, a body that is no JSON,
\* an "error" object, a result without the field the call reads, the result.
Answer == {"connect", "timeout", "io", "http_error", "bad_json", "rpc_error",
           "no_field", "result"}

\* Only "Ok", Transient and NonTransient are told apart: the poller treats all
\* transient errors alike, the pipeline retries all of them.
call(answer) ==
    IF answer \in {"connect", "timeout", "io", "http_error", "bad_json"} THEN "Transient"
    ELSE IF answer = "rpc_error" THEN "NonTransient"
    ELSE "Ok"

\* getLatestLedger: every error is made a transient one.
get_latest_ledger(answer) ==
    IF call(answer) = "Ok" /\ answer # "no_field" THEN "Ok" ELSE "Transient"

PollOutcomes == {get_latest_ledger(answer) : answer \in Answer}

\* sendTransaction: an answer without a hash counts as a rejection.
send_transaction(answer) ==
    IF answer = "no_field" THEN "NonTransient" ELSE call(answer)

\* getTransaction: an answer without a status is read as the status UNKNOWN,
\* and any status but SUCCESS as a failure.
get_transaction(answer, status) ==
    IF call(answer) # "Ok" THEN call(answer)
    ELSE IF answer = "result" /\ status = "success" THEN "Success"
    ELSE "Failure"

\* Whether the network may hold a transaction after such an answer.  It may
\* refuse one it gives a hash for: the answer's own status is not read.
MayBeDelivered(answer) == IF answer = "connect" THEN {FALSE} ELSE BOOLEAN

SendOutcomes ==
    UNION {{<<send_transaction(answer), delivered>> : delivered \in MayBeDelivered(answer)} :
              answer \in Answer}
=============================================================================
