------------------------ MODULE ProcessingAttempts -------------------------
(***************************************************************************)
(* The ai_processing_attempts rows of one message, ordered by              *)
(* attempt_number: the sequence index is the attempt number, which the     *)
(* claim derives from the latest row and a unique constraint protects.     *)
(*                                                                         *)
(* "stale" says that a STARTED attempt's request_started_at lies further   *)
(* back than ai_attempt_stale_seconds; nothing reads it on a closed one.   *)
(***************************************************************************)
EXTENDS Naturals, Sequences

AttemptStatus == {"started", "completed", "failed", "rejected"}

\* "AI_FAILED" stands for the five codes of _failure_code
AttemptCode ==
    {"none", "AI_FAILED", "AI_BLOCKED", "STALE_ATTEMPT", "WORKER_LEASE_EXPIRED"}

Attempt ==
    [status : AttemptStatus, code : AttemptCode, token : Nat, stale : BOOLEAN]

Started(token) ==
    [status |-> "started", code |-> "none", token |-> token, stale |-> FALSE]

IsStarted(rows, i) == i \in 1..Len(rows) /\ rows[i].status = "started"

\* fault: create_attempt reuses the number of the latest row
ReuseAttempt(rows, token) ==
    IF rows = << >> THEN <<Started(token)>>
    ELSE [rows EXCEPT ![Len(rows)] = Started(token)]

\* create_attempt, numbered one after the latest
AddAttempt(rows, token) == Append(rows, Started(token))

\* fault: the latest attempt is not looked at
NeverStarted(rows) == FALSE

\* get_latest_for_message found a row and it is still STARTED
LatestStarted(rows) == IsStarted(rows, Len(rows))

\* fault: the attempt row is not updated
CloseNothing(rows, i, status, code) == rows

\* mark_completed, mark_failed and mark_rejected
Close(rows, i, status, code) ==
    [rows EXCEPT ![i] =
        [@ EXCEPT !.status = status, !.code = code, !.stale = FALSE]]

\* time passes: the threshold of recovery goes by
Age(rows, i) == [rows EXCEPT ![i] = [@ EXCEPT !.stale = TRUE]]

=============================================================================
