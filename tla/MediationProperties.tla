------------------------ MODULE MediationProperties ------------------------
(***************************************************************************)
(* The correctness properties of MediationSystem.                          *)
(***************************************************************************)
EXTENDS MediationSystem

----------------------------------------------------------------------------
(* Type *)

\* Every variable keeps its type, and a job row satisfies the database's
\* ai_mediation_jobs_lease_state_check: leased exactly when it has a token.
TypeOK ==
    /\ conv \in {"active", "ended"}
    /\ msg \in [Messages -> [status : MessageStatus, retries : Nat]]
    /\ job \in [Messages -> Job]
    /\ \A m \in Messages : job[m].status = "leased" <=> job[m].token # NoToken
    /\ attempts \in [Messages -> Seq(Attempt)]
    /\ deliveries \in SUBSET Messages
    /\ guidance \in [Messages -> [Audiences -> Nat]]
    /\ request \in [Requests -> Request]
    /\ pc \in [Workers -> PC]
    /\ cur \in [Workers -> Messages \cup {NoMessage}]
    /\ lease \in [Workers -> Nat]
    /\ att \in [Workers -> Nat]
    /\ outcome \in [Workers -> Outcome]
    /\ copy \in [Workers -> Job]
    /\ faults \in Nat

----------------------------------------------------------------------------
(* What is persisted about a message agrees *)

\* The recipient has a delivery row exactly when the message is delivered,
\* guidance of the recipient only then, and no audience is advised twice:
\* late workers, retries and recovery never leave half a delivery behind.
DeliveryAgreesWithMessage ==
    \A m \in Messages :
        /\ m \in deliveries <=> msg[m].status = "delivered"
        /\ guidance[m]["recipient"] > 0 => msg[m].status = "delivered"
        /\ guidance[m]["sender"] > 0 => msg[m].status \in Final
        /\ \A a \in Audiences : guidance[m][a] <= 1

\* Only the newest attempt of a message may be running: the provider's
\* answer to an older one can never be taken for the current one.
SingleStartedAttempt ==
    \A m \in Messages : \A i \in 1..Len(attempts[m]) :
        attempts[m][i].status = "started" => i = Len(attempts[m])

FailedAttempts(m) ==
    {i \in 1..Len(attempts[m]) : attempts[m][i].status = "failed"}

\* The technical ledger explains the product state: one FAILED attempt for
\* every retry and for the present failure, a COMPLETED last attempt exactly
\* for a delivered message, one rejected as AI_BLOCKED for a blocked one.
LedgerExplainsMessage ==
    \A m \in Messages :
        LET rows == attempts[m]
            ends(status, code) ==
                /\ rows # << >>
                /\ rows[Len(rows)].status = status
                /\ rows[Len(rows)].code = code
        IN  /\ Cardinality(FailedAttempts(m)) =
                 msg[m].retries + (IF msg[m].status = "failed" THEN 1 ELSE 0)
            /\ msg[m].status = "delivered" <=> ends("completed", "none")
            /\ msg[m].status = "blocked" <=> ends("rejected", "AI_BLOCKED")
            /\ msg[m].status = "failed" => ends("failed", "AI_FAILED")

----------------------------------------------------------------------------
(* The job, the attempt and the worker agree *)

\* A running attempt carries the token of its job's present lease, so that
\* recovery will recognise it, unless a finished worker closed the job of a
\* message retried behind its back.
RunningAttemptIsRecoverable ==
    \A m \in Messages :
        LatestStarted(attempts[m]) =>
            \/ /\ job[m].status = "leased"
               /\ job[m].token = attempts[m][Len(attempts[m])].token
            \/ job[m].status \in TerminalJobStatus /\ msg[m].retries > 0

\* A queued job can be run: its message is in processing and no earlier
\* attempt is still marked as running, so a claim is never wasted on it.
QueuedJobIsRunnable ==
    \A m \in Messages :
        job[m].status = "queued" =>
            /\ msg[m].status = "processing"
            /\ ~LatestStarted(attempts[m])

\* A message in processing has a job that will be executed.  The only way
\* to lose it is the retry race of _finalize_job: a message that was never
\* retried is never stranded.
StrandedOnlyAfterRetry ==
    \A m \in Messages :
        msg[m].status = "processing" /\ msg[m].retries = 0 =>
            job[m].status \in {"queued", "leased"}

Executing(w) == pc[w] \in {"prepare", "call"}

\* Two workers never execute the same message under the same lease, and a
\* worker that waits for the provider under a current lease owns the latest
\* attempt: its answer cannot be superseded while the lease holds.
LeaseIsExclusive ==
    /\ \A v, w \in Workers :
          Executing(v) /\ Executing(w) /\ cur[v] = cur[w] /\ lease[v] = lease[w]
              => v = w
    /\ \A w \in Workers : pc[w] = "call" /\ HoldsLease(w) => AttemptIsCurrent(w)

----------------------------------------------------------------------------
(* What a step may never do *)

\* A delivered or blocked message keeps its status and retry count for ever:
\* no late answer, recovery, retry or duplicate send reopens it.
SettledMessageIsFinal ==
    [][\A m \in Messages : msg[m].status \in Final => msg'[m] = msg[m]]_vars

\* The attempt that settles a message belongs to the unexpired lease of its
\* job at that moment: the answer of an expired or superseded worker changes
\* nothing, whatever happened since its call began.
SettledUnderCurrentLease ==
    [][\A m \in Messages :
          msg[m].status = "processing" /\ msg'[m].status \in Settled =>
              /\ LatestStarted(attempts[m])
              /\ HasCurrentLease(job[m], attempts[m][Len(attempts[m])].token)
      ]_vars

\* An attempt row is written at most twice: once started, and once closed.
AttemptHistoryIsKept ==
    [][\A m \in Messages :
          /\ Len(attempts'[m]) >= Len(attempts[m])
          /\ \A i \in 1..Len(attempts[m]) :
                attempts[m][i].status # "started" =>
                    attempts'[m][i] = attempts[m][i]
      ]_vars

----------------------------------------------------------------------------
(* Progress *)

Stranded(m) == job[m].status \in TerminalJobStatus

\* A message in processing is settled in the end, although workers crash,
\* executions fail and leases run out, as long as one worker survives, the
\* conversation stays active and the retry race has not stranded it.
ProcessingSettles ==
    \A m \in Messages :
        msg[m].status = "processing" ~>
            (msg[m].status # "processing" \/ conv = "ended" \/ Stranded(m))

\* No job stays leased for ever: a worker closes it or recovery takes it
\* back, also after the conversation has ended.
LeaseIsReleased ==
    \A m \in Messages : job[m].status = "leased" ~> job[m].status # "leased"

----------------------------------------------------------------------------
(* The contract *)

Contract == INSTANCE MessageContract WITH
    status <- [m \in Messages |-> msg[m].status],
    retries <- [m \in Messages |-> msg[m].retries],
    visible <- deliveries,
    advice <- guidance

\* The system implements MessageContract: seen by the two participants,
\* every transaction is one step of the contract or none.
ImplementsContract == Contract!Spec

----------------------------------------------------------------------------
(* What the repository says and the code does not keep *)

\* "Lock the queue row before validating the ownership token"
\* (ai_mediation_worker.py): only the worker whose token the row carries
\* closes it as completed or dead.
OnlyOwnerFinalizesJob ==
    [][\A m \in Messages :
          job[m].status \notin {"completed", "dead"}
          /\ job'[m].status \in {"completed", "dead"} =>
              \E w \in Workers : cur[w] = m /\ job[m].token = lease[w]]_vars

\* "Ending a conversation makes it read-only" (README.md): no message is
\* accepted, retried or settled afterwards.
ReadOnlyAfterEnd == [][conv = "ended" => msg' = msg]_vars

=============================================================================
