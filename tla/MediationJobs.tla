--------------------------- MODULE MediationJobs ---------------------------
(***************************************************************************)
(* One row of ai_mediation_jobs and the operations of                      *)
(* AIMediationJobRepository on it.                                         *)
(*                                                                         *)
(* The clock is abstracted to one flag: "expired" says that the row's      *)
(* lease_expires_at is no longer in the future.  A lease token is a fresh  *)
(* uuid4; attempt_count grows by one at each claim and is never reset, so  *)
(* the value it takes at a claim names that claim's token.  NoToken is the *)
(* SQL NULL.                                                               *)
(***************************************************************************)
EXTENDS Naturals

NoToken == 0

TerminalJobStatus == {"completed", "cancelled", "dead"}

\* "none": the message has no row yet
JobStatus == {"none", "queued", "leased"} \cup TerminalJobStatus

Job == [status : JobStatus, token : Nat, expired : BOOLEAN, count : Nat]

NoJob == [status |-> "none", token |-> NoToken, expired |-> FALSE, count |-> 0]

\* fault: the lease columns are not cleared
SetQueuedKeepingToken(job) == [job EXCEPT !.status = "queued"]

SetQueued(job) ==
    [job EXCEPT !.status = "queued", !.token = NoToken, !.expired = FALSE]

SetTerminal(job, status) ==
    [job EXCEPT !.status = status, !.token = NoToken, !.expired = FALSE]

\* ensure_job_for_message: the row is created once, queued
EnsureJob(job) == IF job.status = "none" THEN SetQueued(NoJob) ELSE job

\* reactivate_for_message: the same row is queued again, whatever its status
Reactivate(job) == SetQueued(EnsureJob(job))

\* fault: every claim reuses the first token
LeaseWithoutNewToken(job) ==
    [job EXCEPT !.status = "leased", !.token = 1, !.expired = FALSE,
                !.count = @ + 1]

\* claim_next_available_job, on the row it selected
Lease(job) ==
    [job EXCEPT !.status = "leased", !.token = job.count + 1,
                !.expired = FALSE, !.count = @ + 1]

HasCurrentLease(job, token) ==
    /\ job.status = "leased"
    /\ job.token = token
    /\ ~job.expired

\* the WHERE clause of list_expired_leases_for_update
LeaseHasExpired(job) == job.status = "leased" /\ job.expired

=============================================================================
