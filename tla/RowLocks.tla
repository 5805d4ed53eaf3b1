------------------------------ MODULE RowLocks ------------------------------
(***************************************************************************)
(* The row locks of mediation.  MediationSystem takes every transaction as *)
(* one step; here its SELECT ... FOR UPDATE statements are steps of their  *)
(* own, and a process may wait between them.  What a transaction writes    *)
(* becomes visible when it commits and gives up its locks.                 *)
(*                                                                         *)
(* An execution and the recovery lock the job before the message, a retry  *)
(* the message before the job.  Of processes that wait for each other,     *)
(* PostgreSQL aborts one.                                                  *)
(***************************************************************************)
EXTENDS Naturals, FiniteSets

CONSTANTS
    Workers,    \* worker processes
    Callers,    \* requests that retry a message
    Messages,   \* messages, each with its job
    Nobody

ASSUME ProcessesAssumption ==
    /\ Workers \cap Callers = {}
    /\ Nobody \notin Workers \cup Callers \cup Messages

Processes == Workers \cup Callers

JobRow(m) == <<"job", m>>
MessageRow(m) == <<"message", m>>
Rows == {"job", "message"} \X Messages
NoRow == <<"none", Nobody>>

VARIABLES
    status,    \* messages.status
    job,       \* mediation_jobs.status; "expired": leased, and too long
    owner,     \* the worker whose lease token the job has
    attempt,   \* the worker whose attempt is the started one
    holder,    \* who has locked a row
    waiting,   \* the row a process waits for
    stage,     \* what a process is doing
    work,      \* the message it is doing it to
    batch,     \* the jobs a recovery has locked
    current    \* what a worker has found out about its lease

tables == <<status, job, owner, attempt>>
vars == <<status, job, owner, attempt, holder, waiting, stage, work, batch,
          current>>

Init ==
    /\ status = [m \in Messages |-> "processing"]
    /\ job = [m \in Messages |-> "queued"]
    /\ owner = [m \in Messages |-> Nobody]
    /\ attempt = [m \in Messages |-> Nobody]
    /\ holder = [r \in Rows |-> Nobody]
    /\ waiting = [p \in Processes |-> NoRow]
    /\ stage = [p \in Processes |-> "idle"]
    /\ work = [p \in Processes |-> Nobody]
    /\ batch = [w \in Workers |-> {}]
    /\ current = [w \in Workers |-> FALSE]

----------------------------------------------------------------------------
(* Locks *)

Free(r) == holder[r] = Nobody
Has(p, r) == holder[r] = p

Executing(p) == stage[p] \in {"prepare", "finish"}

\* fault: a result is settled without locking the job
MessageOnly(p, r) ==
    \/ stage[p] = "recover" /\ \E m \in batch[p] : r = MessageRow(m)
    \/ stage[p] = "prepare" /\ r = JobRow(work[p])
    \/ Executing(p) /\ r = MessageRow(work[p])
    \/ stage[p] = "retry" /\ r = MessageRow(work[p])
    \/ /\ stage[p] = "retry" /\ Has(p, MessageRow(work[p]))
       /\ status[work[p]] = "failed" /\ r = JobRow(work[p])

\* fault: an execution locks the message before the job
MessageFirst(p, r) ==
    \/ stage[p] = "recover" /\ \E m \in batch[p] : r = MessageRow(m)
    \/ Executing(p) /\ r = MessageRow(work[p])
    \/ Executing(p) /\ Has(p, MessageRow(work[p])) /\ r = JobRow(work[p])
    \/ stage[p] = "retry" /\ r = MessageRow(work[p])
    \/ /\ stage[p] = "retry" /\ Has(p, MessageRow(work[p]))
       /\ status[work[p]] = "failed" /\ r = JobRow(work[p])

\* the rows a process is about to lock, in the order of its statements
MayLock(p, r) ==
    \/ stage[p] = "recover" /\ \E m \in batch[p] : r = MessageRow(m)
    \/ Executing(p) /\ r = JobRow(work[p])
    \/ Executing(p) /\ Has(p, JobRow(work[p])) /\ r = MessageRow(work[p])
    \/ stage[p] = "retry" /\ r = MessageRow(work[p])
    \/ /\ stage[p] = "retry" /\ Has(p, MessageRow(work[p]))
       /\ status[work[p]] = "failed" /\ r = JobRow(work[p])

Needs(p, r) == MayLock(p, r) /\ ~Has(p, r)

\* all rows of its transaction are locked
Ready(p) == \A r \in Rows : ~Needs(p, r)

\* _has_current_lease
HasLease(w, m) == job[m] = "leased" /\ owner[m] = w

\* an execution validates its lease when it gets the job's row
Lock(p, r) ==
    /\ Needs(p, r)
    /\ waiting[p] \in {NoRow, r}
    /\ Free(r)
    /\ holder' = [holder EXCEPT ![r] = p]
    /\ waiting' = [waiting EXCEPT ![p] = NoRow]
    /\ current' = [w \in Workers |->
                      IF w = p /\ Executing(p) /\ r = JobRow(work[p])
                      THEN HasLease(w, work[p]) ELSE current[w]]
    /\ UNCHANGED <<tables, stage, work, batch>>

Wait(p, r) ==
    /\ Needs(p, r)
    /\ waiting[p] = NoRow
    /\ ~Free(r)
    /\ waiting' = [waiting EXCEPT ![p] = r]
    /\ UNCHANGED <<tables, holder, stage, work, batch, current>>

ReleaseAll(p) == holder' = [r \in Rows |-> IF Has(p, r) THEN Nobody ELSE holder[r]]

\* a transaction ends, and its process goes on to "next"
End(p, next) ==
    /\ ReleaseAll(p)
    /\ waiting' = [waiting EXCEPT ![p] = NoRow]
    /\ stage' = [stage EXCEPT ![p] = next]
    /\ work' = [work EXCEPT ![p] = IF next \in {"idle", "claim", "down"}
                                   THEN Nobody ELSE @]
    /\ batch' = [w \in Workers |-> IF w = p THEN {} ELSE batch[w]]

----------------------------------------------------------------------------
(* Waiting for each other *)

WaitsFor(p) == IF waiting[p] = NoRow THEN Nobody ELSE holder[waiting[p]]

Deadlocked(set) == set # {} /\ \A p \in set : WaitsFor(p) \in set

\* the database aborts a transaction of a cycle: a retry is answered with an
\* error, an execution's exception is logged, the recovery's ends the worker
Abort(p) ==
    /\ \E set \in SUBSET Processes :
          /\ Deadlocked(set)
          /\ \A smaller \in SUBSET set : Deadlocked(smaller) => smaller = set
          /\ p \in set
    /\ End(p, IF stage[p] = "recover" THEN "down" ELSE "idle")
    /\ UNCHANGED <<tables, current>>

\* an exception ends the transaction of an execution, which is logged, or of a
\* retry: a conversation that is not active, a value the tables refuse
Raise(p) ==
    /\ stage[p] \in {"prepare", "finish", "retry"}
    /\ waiting[p] = NoRow
    /\ End(p, "idle")
    /\ UNCHANGED <<tables, current>>

----------------------------------------------------------------------------
(* Workers *)

\* fault: an expired lease gets a status of its own
ExpireByName(m) ==
    /\ job[m] = "leased"
    /\ job' = [job EXCEPT ![m] = "timed_out"]
    /\ UNCHANGED <<status, owner, attempt, holder, waiting, stage, work, batch,
                   current>>

Expire(m) ==
    /\ job[m] = "leased"
    /\ job' = [job EXCEPT ![m] = "expired"]
    /\ UNCHANGED <<status, owner, attempt, holder, waiting, stage, work, batch,
                   current>>

\* list_expired_leases_for_update skips the rows that are locked
Recover(w) ==
    LET found == {m \in Messages : job[m] = "expired" /\ Free(JobRow(m))}
    IN  /\ stage[w] = "idle"
        /\ holder' = [r \in Rows |->
                         IF \E m \in found : r = JobRow(m) THEN w ELSE holder[r]]
        /\ batch' = [batch EXCEPT ![w] = found]
        /\ stage' = [stage EXCEPT ![w] = IF found = {} THEN "claim" ELSE "recover"]
        /\ UNCHANGED <<tables, waiting, work, current>>

\* the attempt that ran under the job's lease is the only one given up
Abandonable(m) == attempt[m] # Nobody /\ attempt[m] = owner[m]

\* fault: a failed message is not told from one in processing
NotFinal(m) == status[m] # "final"

Unsettled(m) == status[m] = "processing"

\* "kept" are the jobs whose attempt is not stale yet
CommitRecovery(w, kept) ==
    LET freed == {m \in batch[w] : /\ Unsettled(m)
                                   /\ m \notin kept
                                   /\ attempt[m] = Nobody \/ Abandonable(m)}
        closed == {m \in batch[w] : ~Unsettled(m)}
    IN  /\ stage[w] = "recover"
        /\ Ready(w)
        /\ job' = [m \in Messages |-> IF m \in freed THEN "queued"
                                      ELSE IF m \in closed THEN "closed"
                                      ELSE job[m]]
        /\ owner' = [m \in Messages |->
                        IF m \in freed \cup closed THEN Nobody ELSE owner[m]]
        /\ attempt' = [m \in Messages |->
                          IF m \in freed THEN Nobody ELSE attempt[m]]
        /\ End(w, "claim")
        /\ UNCHANGED <<status, current>>

Claim(w, m) ==
    /\ stage[w] = "claim"
    /\ job[m] = "queued"
    /\ Free(JobRow(m))
    /\ job' = [job EXCEPT ![m] = "leased"]
    /\ owner' = [owner EXCEPT ![m] = w]
    /\ stage' = [stage EXCEPT ![w] = "prepare"]
    /\ work' = [work EXCEPT ![w] = m]
    /\ UNCHANGED <<status, attempt, holder, waiting, batch, current>>

ClaimNothing(w) ==
    /\ stage[w] = "claim"
    /\ \A m \in Messages : job[m] = "queued" => ~Free(JobRow(m))
    /\ stage' = [stage EXCEPT ![w] = "idle"]
    /\ UNCHANGED <<tables, holder, waiting, work, batch, current>>

\* _claim_and_prepare: a new attempt, or an outcome, or MessageStateError
Prepare(w) ==
    LET m == work[w] IN
    /\ stage[w] = "prepare"
    /\ Ready(w)
    /\ \/ /\ current[w]
          /\ status[m] = "processing"
          /\ attempt[m] = Nobody
          /\ attempt' = [attempt EXCEPT ![m] = w]
          /\ End(w, "finish")
       \/ /\ ~current[w] \/ (status[m] = "processing" /\ attempt[m] # Nobody)
          /\ UNCHANGED attempt
          /\ End(w, "leave")
       \/ /\ current[w] /\ status[m] = "final"
          /\ UNCHANGED attempt
          /\ End(w, "close")
       \/ /\ current[w] /\ status[m] = "failed"
          /\ UNCHANGED attempt
          /\ End(w, "idle")
    /\ UNCHANGED <<status, job, owner, current>>

\* _finalize_delivered, _finalize_blocked and _finalize_failure
Finish(w, result) ==
    LET m == work[w] IN
    /\ stage[w] = "finish"
    /\ Ready(w)
    /\ \/ /\ current[w]
          /\ attempt[m] = w
          /\ status[m] = "processing"
          /\ status' = [status EXCEPT ![m] = result]
          /\ attempt' = [attempt EXCEPT ![m] = Nobody]
          /\ End(w, "close")
       \/ /\ ~current[w] \/ (attempt[m] # w /\ status[m] = "processing")
          /\ UNCHANGED <<status, attempt>>
          /\ End(w, "leave")
       \/ /\ current[w] /\ status[m] # "processing"
          /\ UNCHANGED <<status, attempt>>
          /\ End(w, "close")
    /\ UNCHANGED <<job, owner, current>>

\* the unlocked read of _finalize_job, on which the lease is validated
ReadJob(w) ==
    /\ stage[w] = "close"
    /\ current' = [current EXCEPT ![w] = HasLease(w, work[w])]
    /\ stage' = [stage EXCEPT ![w] = "closing"]
    /\ UNCHANGED <<tables, holder, waiting, work, batch>>

\* the only row it locks; an outcome that leaves the job leased locks it too
CloseJob(w) ==
    LET m == work[w]
        closes == stage[w] = "closing" /\ current[w]
    IN  /\ stage[w] \in {"closing", "leave"}
        /\ Free(JobRow(m))
        /\ job' = [job EXCEPT ![m] = IF closes THEN "closed" ELSE @]
        /\ owner' = [owner EXCEPT ![m] = IF closes THEN Nobody ELSE @]
        /\ stage' = [stage EXCEPT ![w] = "idle"]
        /\ work' = [work EXCEPT ![w] = Nobody]
        /\ UNCHANGED <<status, attempt, holder, waiting, batch, current>>

----------------------------------------------------------------------------
(* Retries *)

Retry(c, m) ==
    /\ stage[c] = "idle"
    /\ stage' = [stage EXCEPT ![c] = "retry"]
    /\ work' = [work EXCEPT ![c] = m]
    /\ UNCHANGED <<tables, holder, waiting, batch, current>>

\* retry_failed_message, or its refusal
CommitRetry(c) ==
    LET m == work[c]
        failed == status[m] = "failed"
    IN  /\ stage[c] = "retry"
        /\ Ready(c)
        /\ status' = [status EXCEPT ![m] = IF failed THEN "processing" ELSE @]
        /\ job' = [job EXCEPT ![m] = IF failed THEN "queued" ELSE @]
        /\ owner' = [owner EXCEPT ![m] = IF failed THEN Nobody ELSE @]
        /\ End(c, "idle")
        /\ UNCHANGED <<attempt, current>>

----------------------------------------------------------------------------

Step(p) ==
    \/ \E r \in Rows : Lock(p, r) \/ Wait(p, r)
    \/ Abort(p)
    \/ Raise(p)

Work(w) ==
    \/ Recover(w)
    \/ \E kept \in SUBSET {m \in batch[w] : Abandonable(m)} :
          CommitRecovery(w, kept)
    \/ \E m \in Messages : Claim(w, m)
    \/ ClaimNothing(w)
    \/ Prepare(w)
    \/ \E result \in {"final", "failed"} : Finish(w, result)
    \/ ReadJob(w)
    \/ CloseJob(w)

Next ==
    \/ \E p \in Processes : Step(p)
    \/ \E w \in Workers : Work(w)
    \/ \E c \in Callers : CommitRetry(c) \/ \E m \in Messages : Retry(c, m)
    \/ \E m \in Messages : Expire(m)

Spec == Init /\ [][Next]_vars

=============================================================================
