-------------------------- MODULE MediationSystem --------------------------
(***************************************************************************)
(* Durable mediation of the messages of one conversation: the HTTP         *)
(* services that accept, retry and end, the job queue, and the workers     *)
(* that lease a job, call the AI provider outside any transaction, settle  *)
(* the message and then close the job.                                     *)
(*                                                                         *)
(* One action is one database transaction when everything it decides on is *)
(* read under a row lock it keeps until commit.  Where the code decides on *)
(* a row it read without a lock, the read and the write are two actions,   *)
(* with one exception: the claim of process_message reads the conversation *)
(* unlocked, but all it goes on to write is under the job and message      *)
(* locks it already holds, so it can be taken to commit at that read.      *)
(***************************************************************************)
EXTENDS MediationJobs, ProcessingAttempts, FiniteSets

CONSTANTS
    Messages,     \* client message ids; each names at most one message row
    Workers,      \* ai_mediation_worker processes
    Mortal,       \* the workers that may crash
    Requests,     \* concurrent HTTP requests that send or retry
    NoMessage,
    MaxRetries,   \* bound on retry_count
    MaxClaims,    \* bound on attempt_count of a job
    MaxFaults,    \* bound on crashes, execution errors and early expiries
    DirectCalls   \* may service methods that no router calls be called?

ASSUME MortalAssumption == Mortal \subseteq Workers
ASSUME NoMessageAssumption == NoMessage \notin Messages
ASSUME BoundsAssumption ==
    MaxRetries \in Nat /\ MaxClaims \in Nat /\ MaxFaults \in Nat
ASSUME DirectCallsAssumption == DirectCalls \in BOOLEAN

VARIABLES
    conv,         \* conversations.status
    msg,          \* messages.status and retry_count
    job,          \* ai_mediation_jobs
    attempts,     \* ai_processing_attempts
    deliveries,   \* messages with a message_deliveries row
    guidance,     \* number of private_guidance rows, per audience
    request,      \* a request that has passed the ACTIVE check
    pc,           \* where each worker stands in run_once
    cur,          \* the message of the job it claimed
    lease,        \* the token of that claim
    att,          \* the attempt it started
    outcome,      \* what process_message returned
    copy,         \* the job as its _finalize_job transaction first loaded it
    faults

db == <<conv, msg, job, attempts, deliveries, guidance>>
local == <<cur, lease, att, outcome, copy>>
vars == <<conv, msg, job, attempts, deliveries, guidance, request, pc, cur,
          lease, att, outcome, copy, faults>>

----------------------------------------------------------------------------
(* Values *)

MessageStatus == {"absent", "processing", "delivered", "failed", "blocked"}
Settled == {"delivered", "failed", "blocked"}
Final == {"delivered", "blocked"}

OutcomeStatus == {"none", "delivered", "blocked", "failed",
                  "already_finalized", "already_processing", "stale_attempt"}
Outcome == [status : OutcomeStatus, message : MessageStatus]
NoOutcome == [status |-> "none", message |-> "absent"]

Idle == [op |-> "none", message |-> NoMessage]
Request ==
    {Idle} \cup [op : {"send", "retry"}, message : Messages]

PC == {"recover", "claim", "prepare", "call", "read", "write", "down"}

Audiences == {"sender", "recipient"}

AddGuidance(rows, audiences) ==
    [a \in Audiences |-> IF a \in audiences THEN rows[a] + 1 ELSE rows[a]]

Init ==
    /\ conv = "active"
    /\ msg = [m \in Messages |-> [status |-> "absent", retries |-> 0]]
    /\ job = [m \in Messages |-> NoJob]
    /\ attempts = [m \in Messages |-> << >>]
    /\ deliveries = {}
    /\ guidance = [m \in Messages |-> [a \in Audiences |-> 0]]
    /\ request = [r \in Requests |-> Idle]
    /\ pc = [w \in Workers |-> "recover"]
    /\ cur = [w \in Workers |-> NoMessage]
    /\ lease = [w \in Workers |-> NoToken]
    /\ att = [w \in Workers |-> 0]
    /\ outcome = [w \in Workers |-> NoOutcome]
    /\ copy = [w \in Workers |-> NoJob]
    /\ faults = 0

----------------------------------------------------------------------------
(* HTTP services.  The ACTIVE check reads the conversation row without a   *)
(* lock, so it is a step of its own.                                       *)

SendCheck(r, m) ==
    /\ request[r] = Idle
    /\ conv = "active"
    /\ request' = [request EXCEPT ![r] = [op |-> "send", message |-> m]]
    /\ UNCHANGED <<db, pc, local, faults>>

\* fault: a client message id is not looked up
SendAnything(m) == TRUE

NotYetSent(m) == msg[m].status = "absent"

\* the message and its queued job are inserted in one transaction
SendCommit(r) ==
    LET m == request[r].message IN
    /\ request[r].op = "send"
    /\ NotYetSent(m)
    /\ msg' = [msg EXCEPT ![m].status = "processing"]
    /\ job' = [job EXCEPT ![m] = EnsureJob(@)]
    /\ request' = [request EXCEPT ![r] = Idle]
    /\ UNCHANGED <<conv, attempts, deliveries, guidance, pc, local, faults>>

\* DuplicateMessageError, or the unique constraint when two inserts race
SendDuplicate(r) ==
    /\ request[r].op = "send"
    /\ ~NotYetSent(request[r].message)
    /\ request' = [request EXCEPT ![r] = Idle]
    /\ UNCHANGED <<db, pc, local, faults>>

RetryCheck(r, m) ==
    /\ request[r] = Idle
    /\ conv = "active"
    /\ msg[m].status # "absent"
    /\ request' = [request EXCEPT ![r] = [op |-> "retry", message |-> m]]
    /\ UNCHANGED <<db, pc, local, faults>>

\* fault: a blocked message may be retried too
RetryableUnlessDelivered(m) == msg[m].status \in {"failed", "blocked"}

Retryable(m) == msg[m].status = "failed"

\* what retry_failed_message and increment_retry write
Requeue(m) ==
    /\ msg' = [msg EXCEPT ![m].status = "processing", ![m].retries = @ + 1]
    /\ job' = [job EXCEPT ![m] = Reactivate(@)]

RetryCommit(r) ==
    LET m == request[r].message IN
    /\ request[r].op = "retry"
    /\ Retryable(m)
    /\ msg[m].retries < MaxRetries
    /\ Requeue(m)
    /\ request' = [request EXCEPT ![r] = Idle]
    /\ UNCHANGED <<conv, attempts, deliveries, guidance, pc, local, faults>>

RetryRefused(r) ==
    /\ request[r].op = "retry"
    /\ ~Retryable(request[r].message)
    /\ request' = [request EXCEPT ![r] = Idle]
    /\ UNCHANGED <<db, pc, local, faults>>

EndConversation ==
    /\ conv = "active"
    /\ conv' = "ended"
    /\ UNCHANGED <<msg, job, attempts, deliveries, guidance, request, pc,
                   local, faults>>

----------------------------------------------------------------------------
(* Workers: the queue *)

GoTo(w, label) == pc' = [pc EXCEPT ![w] = label]

\* run_once returns: its local variables are gone
Forget(w) ==
    /\ cur' = [cur EXCEPT ![w] = NoMessage]
    /\ lease' = [lease EXCEPT ![w] = NoToken]
    /\ att' = [att EXCEPT ![w] = 0]
    /\ outcome' = [outcome EXCEPT ![w] = NoOutcome]
    /\ copy' = [copy EXCEPT ![w] = NoJob]

Expired == {m \in Messages : LeaseHasExpired(job[m])}

\* fault: the job of a failed message is not cancelled
CancellableIfFinal(m) == msg[m].status \in Final \/ m \in deliveries

\* fault: recovery cancels whatever has expired
CancellableIfExpired(m) == LeaseHasExpired(job[m])

Cancellable(m) == msg[m].status \in Settled \/ m \in deliveries

\* fault: a job is requeued although its attempt still runs
OrphanedThoughStarted(m) == ~Cancellable(m)

\* fault: a lease lost before its attempt began is not requeued
NeverOrphaned(m) == FALSE

Orphaned(m) == ~Cancellable(m) /\ ~LatestStarted(attempts[m])

\* fault: a dead worker's attempt is never given up
NeverAbandoned(m) == FALSE

\* the latest attempt belongs to the expired lease, and is old enough
Abandoned(m) ==
    /\ ~Cancellable(m)
    /\ LatestStarted(attempts[m])
    /\ attempts[m][Len(attempts[m])].token = job[m].token
    /\ attempts[m][Len(attempts[m])].stale

RecoveredJob(m) ==
    IF Cancellable(m) THEN SetTerminal(job[m], "cancelled")
    ELSE IF Orphaned(m) \/ Abandoned(m) THEN SetQueued(job[m])
    ELSE job[m]

RecoveredAttempts(m) ==
    IF Abandoned(m)
    THEN Close(attempts[m], Len(attempts[m]), "rejected", "WORKER_LEASE_EXPIRED")
    ELSE attempts[m]

\* recover_expired_leases: SKIP LOCKED and LIMIT may leave rows out
Recover(w, batch) ==
    /\ pc[w] = "recover"
    /\ batch \subseteq Expired
    /\ job' = [m \in Messages |-> IF m \in batch THEN RecoveredJob(m) ELSE job[m]]
    /\ attempts' = [m \in Messages |->
                       IF m \in batch THEN RecoveredAttempts(m) ELSE attempts[m]]
    /\ GoTo(w, "claim")
    /\ UNCHANGED <<conv, msg, deliveries, guidance, request, local, faults>>

ClaimJob(w, m) ==
    /\ pc[w] = "claim"
    /\ job[m].status = "queued"
    /\ job[m].count < MaxClaims
    /\ job' = [job EXCEPT ![m] = Lease(@)]
    /\ cur' = [cur EXCEPT ![w] = m]
    /\ lease' = [lease EXCEPT ![w] = Lease(job[m]).token]
    /\ GoTo(w, "prepare")
    /\ UNCHANGED <<conv, msg, attempts, deliveries, guidance, request, att,
                   outcome, copy, faults>>

\* no queued row is available at the poll's "now", or others hold its lock
ClaimNothing(w) ==
    /\ pc[w] = "claim"
    /\ GoTo(w, "recover")
    /\ UNCHANGED <<db, request, local, faults>>

----------------------------------------------------------------------------
(* Workers: process_message, first transaction *)

HoldsLease(w) == HasCurrentLease(job[cur[w]], lease[w])

\* process_message returns to run_once, which goes on to _finalize_job
Return(w, status, message) ==
    /\ outcome' = [outcome EXCEPT ![w] = [status |-> status, message |-> message]]
    /\ GoTo(w, "read")
    /\ UNCHANGED <<cur, lease, att, copy>>

PrepareStale(w) ==
    /\ pc[w] = "prepare"
    /\ ~HoldsLease(w)
    /\ Return(w, "stale_attempt", msg[cur[w]].status)
    /\ UNCHANGED <<db, request, faults>>

PrepareFinal(w) ==
    /\ pc[w] = "prepare"
    /\ HoldsLease(w)
    /\ msg[cur[w]].status \in Final
    /\ Return(w, "already_finalized", msg[cur[w]].status)
    /\ UNCHANGED <<db, request, faults>>

Admissible(m) == msg[m].status = "processing" /\ conv = "active"

\* MessageStateError or ConversationNotActiveError: run_once logs it and
\* leaves the job leased
PrepareRefused(w) ==
    /\ pc[w] = "prepare"
    /\ HoldsLease(w)
    /\ msg[cur[w]].status \notin Final
    /\ ~Admissible(cur[w])
    /\ GoTo(w, "recover")
    /\ Forget(w)
    /\ UNCHANGED <<db, request, faults>>

PrepareBusy(w) ==
    /\ pc[w] = "prepare"
    /\ HoldsLease(w)
    /\ Admissible(cur[w])
    /\ LatestStarted(attempts[cur[w]])
    /\ Return(w, "already_processing", msg[cur[w]].status)
    /\ UNCHANGED <<db, request, faults>>

StartAttempt(w) ==
    LET m == cur[w] IN
    /\ pc[w] = "prepare"
    /\ HoldsLease(w)
    /\ Admissible(m)
    /\ ~LatestStarted(attempts[m])
    /\ attempts' = [attempts EXCEPT ![m] = AddAttempt(@, lease[w])]
    /\ att' = [att EXCEPT ![w] = Len(attempts[m]) + 1]
    /\ GoTo(w, "call")
    /\ UNCHANGED <<conv, msg, job, deliveries, guidance, request, cur, lease,
                   outcome, copy, faults>>

----------------------------------------------------------------------------
(* Workers: the provider has answered; process_message, last transaction *)

AttemptIsCurrent(w) ==
    /\ att[w] = Len(attempts[cur[w]])
    /\ IsStarted(attempts[cur[w]], att[w])

CloseAttempt(w, status, code) ==
    attempts' = [attempts EXCEPT ![cur[w]] = Close(@, att[w], status, code)]

\* fault: the lease is not checked again
MaySettleWithoutLease(w) ==
    /\ pc[w] = "call"
    /\ AttemptIsCurrent(w)
    /\ msg[cur[w]].status = "processing"

\* fault: the message's own status is not checked again
MaySettleAgain(w) == pc[w] = "call" /\ HoldsLease(w) /\ AttemptIsCurrent(w)

\* the conversation may have ended since: nobody looks
MaySettle(w) ==
    /\ pc[w] = "call"
    /\ HoldsLease(w)
    /\ AttemptIsCurrent(w)
    /\ msg[cur[w]].status = "processing"

FinalizeStale(w) ==
    /\ pc[w] = "call"
    /\ ~HoldsLease(w)
    /\ Return(w, "stale_attempt", msg[cur[w]].status)
    /\ UNCHANGED <<db, request, faults>>

\* _lock_current_attempt finds the attempt superseded or the message settled
FinalizeLate(w) ==
    /\ pc[w] = "call"
    /\ HoldsLease(w)
    /\ ~AttemptIsCurrent(w) \/ msg[cur[w]].status # "processing"
    /\ IF ~AttemptIsCurrent(w) /\ IsStarted(attempts[cur[w]], att[w])
       THEN CloseAttempt(w, "rejected", "STALE_ATTEMPT")
       ELSE UNCHANGED attempts
    /\ Return(w, IF msg[cur[w]].status # "processing" THEN "already_finalized"
                 ELSE "stale_attempt",
              msg[cur[w]].status)
    /\ UNCHANGED <<conv, msg, job, deliveries, guidance, request, faults>>

\* message, delivery row, guidance of both sides and attempt, in one commit
FinalizeDelivered(w, audiences) ==
    LET m == cur[w] IN
    /\ MaySettle(w)
    /\ m \notin deliveries
    /\ msg' = [msg EXCEPT ![m].status = "delivered"]
    /\ deliveries' = deliveries \cup {m}
    /\ guidance' = [guidance EXCEPT ![m] = AddGuidance(@, audiences)]
    /\ CloseAttempt(w, "completed", "none")
    /\ Return(w, "delivered", "delivered")
    /\ UNCHANGED <<conv, job, request, faults>>

\* a refusal advises its sender only
FinalizeBlocked(w, audiences) ==
    LET m == cur[w] IN
    /\ MaySettle(w)
    /\ audiences \subseteq {"sender"}
    /\ msg' = [msg EXCEPT ![m].status = "blocked"]
    /\ guidance' = [guidance EXCEPT ![m] = AddGuidance(@, audiences)]
    /\ CloseAttempt(w, "rejected", "AI_BLOCKED")
    /\ Return(w, "blocked", "blocked")
    /\ UNCHANGED <<conv, job, deliveries, request, faults>>

FinalizeFailure(w) ==
    /\ MaySettle(w)
    /\ CloseAttempt(w, "failed", "AI_FAILED")
    /\ msg' = [msg EXCEPT ![cur[w]].status = "failed"]
    /\ Return(w, "failed", "failed")
    /\ UNCHANGED <<conv, job, deliveries, guidance, request, faults>>

----------------------------------------------------------------------------
(* Workers: _finalize_job.  get_by_id loads the row unlocked; the locking  *)
(* query that follows returns the same object of the session's identity    *)
(* map without refreshing it, so the lease is validated on the copy, and   *)
(* the update is flushed to the row as it is by then.                      *)

\* the job status the outcome asks for
Verdict(out) ==
    CASE out.status \in {"delivered", "blocked"} -> "completed"
      [] out.status = "failed" -> "dead"
      [] out.status = "already_finalized" ->
            IF out.message \in Final THEN "completed" ELSE "dead"
      [] OTHER -> "none"

\* "now" is taken before the row is read: a lease that expires in between
\* still counts as current
ReadJob(w) ==
    /\ pc[w] = "read"
    /\ \E late \in {FALSE, job[cur[w]].expired} :
          copy' = [copy EXCEPT ![w] = [job[cur[w]] EXCEPT !.expired = late]]
    /\ GoTo(w, "write")
    /\ UNCHANGED <<db, request, cur, lease, att, outcome, faults>>

OwnsCopy(w) ==
    Verdict(outcome[w]) # "none" /\ HasCurrentLease(copy[w], lease[w])

WriteJob(w) ==
    /\ pc[w] = "write"
    /\ OwnsCopy(w)
    /\ job' = [job EXCEPT ![cur[w]] = SetTerminal(@, Verdict(outcome[w]))]
    /\ GoTo(w, "recover")
    /\ Forget(w)
    /\ UNCHANGED <<conv, msg, attempts, deliveries, guidance, request, faults>>

KeepJob(w) ==
    /\ pc[w] = "write"
    /\ ~OwnsCopy(w)
    /\ GoTo(w, "recover")
    /\ Forget(w)
    /\ UNCHANGED <<db, request, faults>>

----------------------------------------------------------------------------
(* Faults and time *)

\* any exception of process_message: rolled back, logged, job left leased
ExecutionError(w) ==
    /\ pc[w] \in {"prepare", "call"}
    /\ faults < MaxFaults
    /\ faults' = faults + 1
    /\ GoTo(w, "recover")
    /\ Forget(w)
    /\ UNCHANGED <<db, request>>

\* a kill, or an exception outside process_message, which run does not catch
Crash(w) ==
    /\ w \in Mortal
    /\ pc[w] # "down"
    /\ faults < MaxFaults
    /\ faults' = faults + 1
    /\ GoTo(w, "down")
    /\ Forget(w)
    /\ UNCHANGED <<db, request>>

Restart(w) ==
    /\ pc[w] = "down"
    /\ GoTo(w, "recover")
    /\ UNCHANGED <<db, request, local, faults>>

Busy(w) == pc[w] \in {"prepare", "call", "read", "write"}

AtWork(w, m) ==
    /\ Busy(w)
    /\ cur[w] = m
    /\ lease[w] = job[m].token

Leased(m) == job[m].status = "leased" /\ ~job[m].expired

ExpireRow(m) == job' = [job EXCEPT ![m].expired = TRUE]

\* nobody is left to finish the leased job
LeaseExpires(m) ==
    /\ Leased(m)
    /\ \A w \in Workers : ~AtWork(w, m)
    /\ ExpireRow(m)
    /\ UNCHANGED <<conv, msg, attempts, deliveries, guidance, request, pc,
                   local, faults>>

\* its holder is slower than the lease
LeaseExpiresEarly(m) ==
    /\ Leased(m)
    /\ \E w \in Workers : AtWork(w, m)
    /\ faults < MaxFaults
    /\ faults' = faults + 1
    /\ ExpireRow(m)
    /\ UNCHANGED <<conv, msg, attempts, deliveries, guidance, request, pc, local>>

AttemptAges(m) ==
    LET n == Len(attempts[m]) IN
    /\ LatestStarted(attempts[m])
    /\ ~attempts[m][n].stale
    /\ attempts' = [attempts EXCEPT ![m] = Age(@, n)]
    /\ UNCHANGED <<conv, msg, job, deliveries, guidance, request, pc, local, faults>>

----------------------------------------------------------------------------
(* MessageLifecycleService methods that no router calls: they lock the     *)
(* message only, not its job.  Guidance has at most one item per audience, *)
(* as in every call of the repository.                                     *)

DirectDelivered(m, audiences) ==
    /\ msg[m].status = "processing"
    /\ m \notin deliveries
    /\ msg' = [msg EXCEPT ![m].status = "delivered"]
    /\ deliveries' = deliveries \cup {m}
    /\ guidance' = [guidance EXCEPT ![m] = AddGuidance(@, audiences)]
    /\ UNCHANGED <<conv, job, attempts, request, pc, local, faults>>

DirectSettled(m, status) ==
    /\ msg[m].status = "processing"
    /\ msg' = [msg EXCEPT ![m].status = status]
    /\ UNCHANGED <<conv, job, attempts, deliveries, guidance, request, pc,
                   local, faults>>

DirectRetry(m) ==
    /\ Retryable(m)
    /\ msg[m].retries < MaxRetries
    /\ Requeue(m)
    /\ UNCHANGED <<conv, attempts, deliveries, guidance, request, pc, local,
                   faults>>

Direct(m) ==
    /\ DirectCalls
    /\ \/ \E audiences \in SUBSET Audiences : DirectDelivered(m, audiences)
       \/ \E status \in {"failed", "blocked"} : DirectSettled(m, status)
       \/ DirectRetry(m)

----------------------------------------------------------------------------
(* The specification *)

Http(r) ==
    \/ \E m \in Messages : SendCheck(r, m) \/ RetryCheck(r, m)
    \/ SendCommit(r)
    \/ SendDuplicate(r)
    \/ RetryCommit(r)
    \/ RetryRefused(r)

Prepare(w) ==
    \/ PrepareStale(w)
    \/ PrepareFinal(w)
    \/ PrepareRefused(w)
    \/ PrepareBusy(w)
    \/ StartAttempt(w)

Finalize(w) ==
    \/ FinalizeStale(w)
    \/ FinalizeLate(w)
    \/ \E audiences \in SUBSET Audiences :
          FinalizeDelivered(w, audiences) \/ FinalizeBlocked(w, audiences)
    \/ FinalizeFailure(w)

FinalizeJob(w) == ReadJob(w) \/ WriteJob(w) \/ KeepJob(w)

Work(w) ==
    \/ \E batch \in SUBSET Messages : Recover(w, batch)
    \/ \E m \in Messages : ClaimJob(w, m)
    \/ ClaimNothing(w)
    \/ Prepare(w)
    \/ Finalize(w)
    \/ FinalizeJob(w)

Fault(w) == ExecutionError(w) \/ Crash(w) \/ Restart(w)

Time(m) == LeaseExpires(m) \/ LeaseExpiresEarly(m) \/ AttemptAges(m)

Next ==
    \/ \E r \in Requests : Http(r)
    \/ EndConversation
    \/ \E w \in Workers : Work(w) \/ Fault(w)
    \/ \E m \in Messages : Time(m) \/ Direct(m)

Spec == Init /\ [][Next]_vars

(***************************************************************************)
(* Fairness.  run() loops for ever, so a worker keeps taking steps while   *)
(* it is up; the provider call has a timeout.  A row lock is held for one  *)
(* short transaction and both queries order by age, so a row is not        *)
(* skipped at every poll: strong fairness of claiming a queued job and of  *)
(* a recovery that skips nothing.  Time passes.  Requests, restarts,       *)
(* faults and the end of the conversation are never forced.                *)
(***************************************************************************)
Fairness ==
    /\ \A w \in Workers :
          /\ WF_vars(Work(w))
          /\ SF_vars(Recover(w, Expired))
          /\ \A m \in Messages : SF_vars(ClaimJob(w, m))
    /\ \A m \in Messages : WF_vars(LeaseExpires(m)) /\ WF_vars(AttemptAges(m))

FairSpec == Spec /\ Fairness

=============================================================================
