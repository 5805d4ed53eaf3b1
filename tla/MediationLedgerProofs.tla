----------------------- MODULE MediationLedgerProofs -----------------------
(***************************************************************************)
(* Lease tokens and the technical ledger: what one step does to the rows   *)
(* of one message, who owns a lease, and why the attempts explain the      *)
(* message.                                                                *)
(***************************************************************************)
EXTENDS MediationProofs, FiniteSetTheorems

----------------------------------------------------------------------------
(* What one step does to the rows of one message.  The proofs below look   *)
(* at these few cases instead of the actions.                              *)

Untouched(m) == attempts'[m] = attempts[m] /\ msg'[m] = msg[m]

Still(m) ==
    /\ Untouched(m)
    /\ \/ job'[m] = job[m]
       \/ job[m].status = "leased" /\ job'[m] = [job[m] EXCEPT !.expired = TRUE]

Sent(m) ==
    /\ msg[m].status = "absent"
    /\ msg'[m] = [msg[m] EXCEPT !.status = "processing"]
    /\ attempts'[m] = attempts[m]
    /\ job'[m] = EnsureJob(job[m])

Requeued(m) ==
    /\ msg[m].status = "failed"
    /\ msg'[m] = [msg[m] EXCEPT !.status = "processing", !.retries = @ + 1]
    /\ attempts'[m] = attempts[m]
    /\ job'[m] = Reactivate(job[m])

Recovered(m) ==
    /\ LeaseHasExpired(job[m])
    /\ msg'[m] = msg[m]
    /\ job'[m] = RecoveredJob(m)
    /\ attempts'[m] = RecoveredAttempts(m)

Claimed(w, m) ==
    /\ ClaimJob(w, m)
    /\ job'[m] = Lease(job[m])
    /\ Untouched(m)

Begun(w, m) ==
    /\ pc[w] = "prepare"
    /\ cur[w] = m
    /\ HasCurrentLease(job[m], lease[w])
    /\ msg[m].status = "processing"
    /\ ~LatestStarted(attempts[m])
    /\ attempts'[m] = AddAttempt(attempts[m], lease[w])
    /\ msg'[m] = msg[m]
    /\ job'[m] = job[m]

Verdicts ==
    {<<"delivered", "completed", "none">>,
     <<"blocked", "rejected", "AI_BLOCKED">>,
     <<"failed", "failed", "AI_FAILED">>}

SettledBy(w, m) ==
    /\ MaySettle(w)
    /\ cur[w] = m
    /\ pc'[w] = "read"
    /\ job'[m] = job[m]
    /\ \E v \in Verdicts :
          /\ msg'[m] = [msg[m] EXCEPT !.status = v[1]]
          /\ attempts'[m] = Close(attempts[m], att[w], v[2], v[3])

\* _lock_current_attempt closes an attempt that a newer one has overtaken
Overtaken(w, m) ==
    /\ pc[w] = "call"
    /\ pc'[w] = "read"
    /\ cur[w] = m
    /\ HoldsLease(w)
    /\ ~AttemptIsCurrent(w)
    /\ IsStarted(attempts[m], att[w])
    /\ attempts'[m] = Close(attempts[m], att[w], "rejected", "STALE_ATTEMPT")
    /\ msg'[m] = msg[m]
    /\ job'[m] = job[m]

JobClosed(w, m) ==
    /\ pc[w] = "write"
    /\ cur[w] = m
    /\ OwnsCopy(w)
    /\ job'[m] = SetTerminal(job[m], Verdict(outcome[w]))
    /\ Untouched(m)

Aged(m) ==
    /\ LatestStarted(attempts[m])
    /\ attempts'[m] = Age(attempts[m], Len(attempts[m]))
    /\ msg'[m] = msg[m]
    /\ job'[m] = job[m]

Directed(m) ==
    /\ DirectCalls
    /\ attempts'[m] = attempts[m]
    /\ job'[m] \in {job[m], Reactivate(job[m])}

MessageStep(m) ==
    \/ Still(m)
    \/ Sent(m)
    \/ Requeued(m)
    \/ Recovered(m)
    \/ \E w \in Workers :
          \/ Claimed(w, m)
          \/ Begun(w, m)
          \/ SettledBy(w, m)
          \/ Overtaken(w, m)
          \/ JobClosed(w, m)
    \/ Aged(m)
    \/ Directed(m)

LEMMA HttpSteps ==
    ASSUME TypeInv, NEW r \in Requests, Http(r), NEW m \in Messages
    PROVE  MessageStep(m)
<1> DEFINE n == request[r].message
<1>1. /\ msg \in [Messages -> [status : MessageStatus, retries : Nat]]
      /\ job \in [Messages -> Job]
  BY DEF TypeInv, TypeOK
<1>2. CASE UNCHANGED <<attempts, msg, job>>
  BY <1>2 DEF MessageStep, Still, Untouched
<1>3. request[r].op # "none" => n \in Messages
  BY DEF TypeInv, TypeOK, Request, Idle
<1>4. CASE SendCommit(r)
  <2>1. CASE n = m
    BY <1>1, <1>4, <2>1
       DEF SendCommit, NotYetSent, MessageStep, Sent
  <2>2. CASE n # m
    BY <1>1, <1>4, <2>2 DEF SendCommit, MessageStep, Still, Untouched
  <2> QED
    BY <2>1, <2>2
<1>5. CASE RetryCommit(r)
  <2>1. CASE n = m
    <3>1. msg'[m] = [msg[m] EXCEPT !.status = "processing", !.retries = @ + 1]
      BY <1>1, <1>5, <2>1 DEF RetryCommit, Requeue
    <3> QED
      BY <1>1, <1>5, <2>1, <3>1
         DEF RetryCommit, Requeue, Retryable, MessageStep, Requeued
  <2>2. CASE n # m
    BY <1>1, <1>5, <2>2 DEF RetryCommit, Requeue, MessageStep, Still, Untouched
  <2> QED
    BY <2>1, <2>2
<1> QED
  BY <1>2, <1>4, <1>5
     DEF Http, SendCheck, RetryCheck, SendDuplicate, RetryRefused, db

LEMMA FinalizeSteps ==
    ASSUME TypeInv, NEW w \in Workers, Finalize(w), NEW m \in Messages
    PROVE  MessageStep(m)
<1>1. /\ msg \in [Messages -> [status : MessageStatus, retries : Nat]]
      /\ job \in [Messages -> Job]
      /\ attempts \in [Messages -> Seq(Attempt)]
      /\ pc \in [Workers -> PC]
  BY DEF TypeInv, TypeOK
<1>2. CASE UNCHANGED <<attempts, msg, job>>
  BY <1>2 DEF MessageStep, Still, Untouched
<1>3. ASSUME NEW v \in Verdicts, MaySettle(w), UNCHANGED job,
             GoTo(w, "read"),
             msg' = [msg EXCEPT ![cur[w]].status = v[1]],
             CloseAttempt(w, v[2], v[3])
      PROVE  MessageStep(m)
  <2>1. CASE cur[w] = m
    <3>1. /\ pc'[w] = "read"
          /\ msg'[m] = [msg[m] EXCEPT !.status = v[1]]
          /\ attempts'[m] = Close(attempts[m], att[w], v[2], v[3])
      BY <1>1, <1>3, <2>1 DEF CloseAttempt, GoTo
    <3> QED
      BY <1>3, <2>1, <3>1 DEF SettledBy, MessageStep
  <2>2. CASE cur[w] # m
    BY <1>1, <1>3, <2>2 DEF CloseAttempt, MessageStep, Still, Untouched
  <2> QED
    BY <2>1, <2>2
<1>4. CASE FinalizeStale(w)
  BY <1>2, <1>4 DEF FinalizeStale, db
<1>5. CASE FinalizeLate(w)
  <2>1. CASE ~AttemptIsCurrent(w) /\ IsStarted(attempts[cur[w]], att[w])
    <3>1. CASE cur[w] = m
      BY <1>1, <1>5, <2>1, <3>1
         DEF FinalizeLate, CloseAttempt, Return, GoTo, MessageStep, Overtaken
    <3>2. CASE cur[w] # m
      BY <1>1, <1>5, <2>1, <3>2
         DEF FinalizeLate, CloseAttempt, MessageStep, Still, Untouched
    <3> QED
      BY <3>1, <3>2
  <2> QED
    BY <1>2, <1>5, <2>1 DEF FinalizeLate
<1>6. ASSUME NEW a \in SUBSET Audiences, FinalizeDelivered(w, a)
      PROVE  MessageStep(m)
  <2> DEFINE v == <<"delivered", "completed", "none">>
  <2>1. v \in Verdicts /\ v[1] = "delivered" /\ v[2] = "completed" /\ v[3] = "none"
    BY DEF Verdicts
  <2> QED
    BY <1>3, <1>6, <2>1 DEF FinalizeDelivered, Return
<1>7. ASSUME NEW a \in SUBSET Audiences, FinalizeBlocked(w, a)
      PROVE  MessageStep(m)
  <2> DEFINE v == <<"blocked", "rejected", "AI_BLOCKED">>
  <2>1. v \in Verdicts /\ v[1] = "blocked" /\ v[2] = "rejected" /\ v[3] = "AI_BLOCKED"
    BY DEF Verdicts
  <2> QED
    BY <1>3, <1>7, <2>1 DEF FinalizeBlocked, Return
<1>8. CASE FinalizeFailure(w)
  <2> DEFINE v == <<"failed", "failed", "AI_FAILED">>
  <2>1. v \in Verdicts /\ v[1] = "failed" /\ v[2] = "failed" /\ v[3] = "AI_FAILED"
    BY DEF Verdicts
  <2> QED
    BY <1>3, <1>8, <2>1 DEF FinalizeFailure, Return
<1> QED
  BY <1>4, <1>5, <1>6, <1>7, <1>8 DEF Finalize

LEMMA WorkSteps ==
    ASSUME TypeInv, NEW w \in Workers, Work(w) \/ Fault(w), NEW m \in Messages
    PROVE  MessageStep(m)
<1>1. /\ msg \in [Messages -> [status : MessageStatus, retries : Nat]]
      /\ job \in [Messages -> Job]
      /\ attempts \in [Messages -> Seq(Attempt)]
  BY DEF TypeInv, TypeOK
<1>2. CASE UNCHANGED <<attempts, msg, job>>
  BY <1>2 DEF MessageStep, Still, Untouched
<1>3. ASSUME NEW batch \in SUBSET Messages, Recover(w, batch)
      PROVE  MessageStep(m)
  <2>1. CASE m \in batch
    BY <1>3, <2>1 DEF Recover, Expired, MessageStep, Recovered
  <2>2. CASE m \notin batch
    BY <1>3, <2>2 DEF Recover, MessageStep, Still, Untouched
  <2> QED
    BY <2>1, <2>2
<1>4. ASSUME NEW n \in Messages, ClaimJob(w, n)
      PROVE  MessageStep(m)
  <2>1. CASE n = m
    BY <1>1, <1>4, <2>1 DEF ClaimJob, MessageStep, Claimed, Untouched
  <2>2. CASE n # m
    BY <1>1, <1>4, <2>2 DEF ClaimJob, MessageStep, Still, Untouched
  <2> QED
    BY <2>1, <2>2
<1>5. CASE StartAttempt(w)
  <2>1. CASE cur[w] = m
    BY <1>1, <1>5, <2>1
       DEF StartAttempt, HoldsLease, Admissible, MessageStep, Begun
  <2>2. CASE cur[w] # m
    BY <1>1, <1>5, <2>2 DEF StartAttempt, MessageStep, Still, Untouched
  <2> QED
    BY <2>1, <2>2
<1>6. CASE WriteJob(w)
  <2>1. CASE cur[w] = m
    BY <1>1, <1>6, <2>1 DEF WriteJob, MessageStep, JobClosed, Untouched
  <2>2. CASE cur[w] # m
    BY <1>1, <1>6, <2>2 DEF WriteJob, MessageStep, Still, Untouched
  <2> QED
    BY <2>1, <2>2
<1>7. CASE Prepare(w) /\ ~StartAttempt(w)
  BY <1>2, <1>7
     DEF Prepare, PrepareStale, PrepareFinal, PrepareRefused, PrepareBusy, db
<1>8. CASE ClaimNothing(w) \/ ReadJob(w) \/ KeepJob(w) \/ Fault(w)
  BY <1>2, <1>8
     DEF ClaimNothing, ReadJob, KeepJob, Fault, ExecutionError, Crash, Restart, db
<1> QED
  BY <1>3, <1>4, <1>5, <1>6, <1>7, <1>8, FinalizeSteps DEF Work, FinalizeJob

LEMMA MessageSteps ==
    ASSUME TypeInv, [Next]_vars, NEW m \in Messages
    PROVE  MessageStep(m)
<1>1. /\ msg \in [Messages -> [status : MessageStatus, retries : Nat]]
      /\ job \in [Messages -> Job]
      /\ attempts \in [Messages -> Seq(Attempt)]
  BY DEF TypeInv, TypeOK
<1>2. CASE UNCHANGED <<attempts, msg, job>>
  BY <1>2 DEF MessageStep, Still, Untouched
<1>3. CASE EndConversation \/ UNCHANGED vars
  BY <1>2, <1>3 DEF EndConversation, vars
<1>4. ASSUME NEW n \in Messages, Time(n) PROVE MessageStep(m)
  <2>1. CASE Leased(n) /\ ExpireRow(n) /\ UNCHANGED <<attempts, msg>>
    BY <1>1, <2>1 DEF Leased, ExpireRow, MessageStep, Still, Untouched
  <2>2. CASE AttemptAges(n)
    <3>1. CASE n = m
      BY <1>1, <2>2, <3>1 DEF AttemptAges, MessageStep, Aged
    <3>2. CASE n # m
      BY <1>1, <2>2, <3>2 DEF AttemptAges, MessageStep, Still, Untouched
    <3> QED
      BY <3>1, <3>2
  <2> QED
    BY <1>4, <2>1, <2>2 DEF Time, LeaseExpires, LeaseExpiresEarly
<1>5. ASSUME NEW n \in Messages, Direct(n) PROVE MessageStep(m)
  <2>1. DirectCalls /\ UNCHANGED attempts
    BY <1>5 DEF Direct, DirectDelivered, DirectSettled, DirectRetry
  <2>2. job'[m] \in {job[m], Reactivate(job[m])}
    BY <1>1, <1>5
       DEF Direct, DirectDelivered, DirectSettled, DirectRetry, Requeue
  <2> QED
    BY <2>1, <2>2 DEF MessageStep, Directed
<1> QED
  BY <1>3, <1>4, <1>5, HttpSteps, WorkSteps DEF Next

----------------------------------------------------------------------------
(* An attempt row is only written while it runs                            *)

\* what a step does to the attempts of one message
AttemptsKept(old, new) ==
    /\ new \in Seq(Attempt)
    /\ Len(new) \in {Len(old), Len(old) + 1}
    /\ \A i \in 1..Len(old) :
          /\ new[i].token = old[i].token
          /\ old[i].status # "started" => new[i] = old[i]

LEMMA CloseKeeps ==
    ASSUME NEW rows \in Seq(Attempt), NEW i, IsStarted(rows, i),
           NEW s \in AttemptStatus, NEW c \in AttemptCode
    PROVE  /\ AttemptsKept(rows, Close(rows, i, s, c))
           /\ Len(Close(rows, i, s, c)) = Len(rows)
           /\ Close(rows, i, s, c)[i].status = s
           /\ Close(rows, i, s, c)[i].code = c
           /\ \A k \in 1..Len(rows) : k # i => Close(rows, i, s, c)[k] = rows[k]
<1>1. i \in 1..Len(rows) /\ rows[i] \in Attempt
  BY DEF IsStarted
<1>2. /\ Close(rows, i, s, c)[i].token = rows[i].token
      /\ Close(rows, i, s, c)[i].code = c
  BY <1>1 DEF Close, Attempt
<1> QED
  BY <1>1, <1>2, UpdateAttemptRow DEF AttemptsKept, IsStarted

LEMMA AgeKeeps ==
    ASSUME NEW rows \in Seq(Attempt), LatestStarted(rows)
    PROVE  /\ AttemptsKept(rows, Age(rows, Len(rows)))
           /\ Len(Age(rows, Len(rows))) = Len(rows)
           /\ \A k \in 1..Len(rows) :
                 /\ Age(rows, Len(rows))[k].status = rows[k].status
                 /\ Age(rows, Len(rows))[k].code = rows[k].code
<1> DEFINE n == Len(rows)
<1>1. n \in 1..Len(rows) /\ rows[n] \in Attempt /\ rows[n].status = "started"
  BY DEF LatestStarted, IsStarted
<1>2. "started" \in AttemptStatus /\ "none" \in AttemptCode
  BY DEF AttemptStatus, AttemptCode
<1>3. Age(rows, n) \in Seq(Attempt) /\ Len(Age(rows, n)) = Len(rows)
  BY <1>1, <1>2, UpdateAttemptRow
<1>4. \A k \in 1..Len(rows) : k # n => Age(rows, n)[k] = rows[k]
  BY <1>1 DEF Age
<1>5. /\ Age(rows, n)[n].token = rows[n].token
      /\ Age(rows, n)[n].status = rows[n].status
      /\ Age(rows, n)[n].code = rows[n].code
  BY <1>1 DEF Age, Attempt
<1> QED
  BY <1>1, <1>3, <1>4, <1>5 DEF AttemptsKept

LEMMA RecoveryKeeps ==
    ASSUME TypeOK, NEW m \in Messages
    PROVE  /\ AttemptsKept(attempts[m], RecoveredAttempts(m))
           /\ Len(RecoveredAttempts(m)) = Len(attempts[m])
<1>1. attempts[m] \in Seq(Attempt)
  BY DEF TypeOK
<1>2. "rejected" \in AttemptStatus /\ "WORKER_LEASE_EXPIRED" \in AttemptCode
  BY DEF AttemptStatus, AttemptCode
<1>3. CASE Abandoned(m)
  BY <1>1, <1>2, <1>3, CloseKeeps DEF Abandoned, LatestStarted, RecoveredAttempts
<1>4. CASE ~Abandoned(m)
  BY <1>1, <1>4 DEF RecoveredAttempts, AttemptsKept
<1> QED
  BY <1>3, <1>4

LEMMA AttemptsAreKept ==
    ASSUME TypeInv, [Next]_vars, NEW m \in Messages
    PROVE  AttemptsKept(attempts[m], attempts'[m])
<1> DEFINE rows == attempts[m]
<1>1. rows \in Seq(Attempt) /\ lease \in [Workers -> Nat]
  BY DEF TypeInv, TypeOK
<1>2. CASE attempts'[m] = rows
  BY <1>1, <1>2 DEF AttemptsKept
<1>3. CASE Recovered(m)
  BY <1>3, RecoveryKeeps DEF Recovered, TypeInv
<1>4. ASSUME NEW w \in Workers, Begun(w, m) PROVE AttemptsKept(rows, attempts'[m])
  <2> DEFINE new == AddAttempt(rows, lease[w])
  <2>1. /\ new \in Seq(Attempt)
        /\ Len(new) = Len(rows) + 1
        /\ \A i \in 1..Len(rows) : new[i] = rows[i]
    BY <1>1, AddAttemptRow
  <2> HIDE DEF new
  <2>2. AttemptsKept(rows, new)
    BY <2>1 DEF AttemptsKept
  <2> QED
    BY <1>4, <2>2 DEF Begun, new
<1>5. ASSUME NEW w \in Workers, SettledBy(w, m)
      PROVE  AttemptsKept(rows, attempts'[m])
  <2>1. PICK v \in Verdicts : attempts'[m] = Close(rows, att[w], v[2], v[3])
    BY <1>5 DEF SettledBy
  <2>2. v[2] \in AttemptStatus /\ v[3] \in AttemptCode
    BY DEF Verdicts, AttemptStatus, AttemptCode
  <2>3. IsStarted(rows, att[w])
    BY <1>5 DEF SettledBy, MaySettle, AttemptIsCurrent
  <2> QED
    BY <1>1, <2>1, <2>2, <2>3, CloseKeeps
<1>6. ASSUME NEW w \in Workers, Overtaken(w, m)
      PROVE  AttemptsKept(rows, attempts'[m])
  BY <1>1, <1>6, CloseKeeps DEF Overtaken, AttemptStatus, AttemptCode
<1>7. CASE Aged(m)
  BY <1>1, <1>7, AgeKeeps DEF Aged
<1> QED
  BY <1>2, <1>3, <1>4, <1>5, <1>6, <1>7, MessageSteps
     DEF MessageStep, Still, Sent, Requeued, Claimed, JobClosed, Directed, Untouched

\* An attempt row that has been closed never changes again and none is ever
\* deleted: what the provider was asked, and what became of it, stays on record.
THEOREM HistoryIsKept == Spec => AttemptHistoryIsKept
<1>1. TypeInv /\ [Next]_vars =>
        [\A m \in Messages :
            /\ Len(attempts'[m]) >= Len(attempts[m])
            /\ \A i \in 1..Len(attempts[m]) :
                  attempts[m][i].status # "started" =>
                      attempts'[m][i] = attempts[m][i]]_vars
  <2> SUFFICES ASSUME TypeInv, [Next]_vars, NEW m \in Messages
               PROVE  /\ Len(attempts'[m]) >= Len(attempts[m])
                      /\ \A i \in 1..Len(attempts[m]) :
                            attempts[m][i].status # "started" =>
                                attempts'[m][i] = attempts[m][i]
    OBVIOUS
  <2>1. attempts[m] \in Seq(Attempt)
    BY DEF TypeInv, TypeOK
  <2> QED
    BY <2>1, AttemptsAreKept DEF AttemptsKept
<1> QED
  BY <1>1, TypesHold, PTL DEF Spec, AttemptHistoryIsKept

----------------------------------------------------------------------------
(* Lease tokens.  A claim takes a token above every earlier one, which is  *)
(* why a lease that is lost is lost for good.                              *)

LeasesCounted ==
    /\ \A m \in Messages :
          /\ job[m].token <= job[m].count
          /\ job[m].status = "none" => job[m].count = 0
    /\ \A w \in Workers : Busy(w) => lease[w] \in 1..job[cur[w]].count

LeasesDiffer ==
    \A v, w \in Workers :
        Busy(v) /\ Busy(w) /\ cur[v] = cur[w] /\ lease[v] = lease[w] => v = w

CallHasAttempt ==
    \A w \in Workers :
        pc[w] = "call" =>
            /\ att[w] \in 1..Len(attempts[cur[w]])
            /\ attempts[cur[w]][att[w]].token = lease[w]

OwnerIsLatest ==
    \A w \in Workers : pc[w] = "call" /\ HoldsLease(w) => AttemptIsCurrent(w)

TokenInv == LeasesCounted /\ LeasesDiffer /\ CallHasAttempt /\ OwnerIsLatest

\* a worker that is busy after a step was so before it, or has just claimed
LEMMA BusyMoves ==
    ASSUME TypeInv, [Next]_vars, NEW w \in Workers, Busy(w)'
    PROVE  \/ Busy(w) /\ cur'[w] = cur[w] /\ lease'[w] = lease[w]
           \/ \E m \in Messages : ClaimJob(w, m)
<1>1. /\ pc \in [Workers -> PC] /\ cur \in [Workers -> Messages \cup {NoMessage}]
      /\ lease \in [Workers -> Nat]
  BY DEF TypeInv, TypeOK
<1>2. CASE UNCHANGED <<pc, cur, lease>>
  BY <1>2 DEF Busy
<1>3. ASSUME NEW v \in Workers, Prepare(v)
      PROVE  Busy(w) /\ cur'[w] = cur[w] /\ lease'[w] = lease[w]
  BY <1>1, <1>3
     DEF Prepare, PrepareStale, PrepareFinal, PrepareRefused, PrepareBusy,
         StartAttempt, Return, Forget, GoTo, Busy
<1>4. ASSUME NEW v \in Workers, Finalize(v)
      PROVE  Busy(w) /\ cur'[w] = cur[w] /\ lease'[w] = lease[w]
  BY <1>1, <1>4
     DEF Finalize, FinalizeStale, FinalizeLate, FinalizeDelivered,
         FinalizeBlocked, FinalizeFailure, MaySettle, Return, GoTo, Busy
<1>5. ASSUME NEW v \in Workers, FinalizeJob(v) \/ Fault(v)
      PROVE  Busy(w) /\ cur'[w] = cur[w] /\ lease'[w] = lease[w]
  BY <1>1, <1>5
     DEF FinalizeJob, ReadJob, WriteJob, KeepJob, Fault, ExecutionError, Crash,
         Restart, Forget, GoTo, local, Busy
<1>6. ASSUME NEW v \in Workers,
             ClaimNothing(v) \/ \E batch \in SUBSET Messages : Recover(v, batch)
      PROVE  Busy(w) /\ cur'[w] = cur[w] /\ lease'[w] = lease[w]
  BY <1>1, <1>6 DEF ClaimNothing, Recover, GoTo, local, Busy
<1>7. ASSUME NEW v \in Workers, NEW m \in Messages, ClaimJob(v, m), v # w
      PROVE  Busy(w) /\ cur'[w] = cur[w] /\ lease'[w] = lease[w]
  BY <1>1, <1>7 DEF ClaimJob, GoTo, Busy
<1>8. ASSUME NEW r \in Requests, Http(r) PROVE UNCHANGED <<pc, cur, lease>>
  BY <1>8 DEF Http, SendCheck, SendCommit, SendDuplicate, RetryCheck,
              RetryCommit, RetryRefused, local
<1>9. ASSUME NEW m \in Messages, Time(m) \/ Direct(m)
      PROVE  UNCHANGED <<pc, cur, lease>>
  BY <1>9 DEF Time, LeaseExpires, LeaseExpiresEarly, AttemptAges, Direct,
              DirectDelivered, DirectSettled, DirectRetry, local
<1>10. CASE EndConversation \/ UNCHANGED vars
  BY <1>2, <1>10 DEF EndConversation, vars, local
<1> QED
  BY <1>2, <1>3, <1>4, <1>5, <1>6, <1>7, <1>8, <1>9, <1>10 DEF Next, Work

\* a worker that is with the provider after a step was so before, or begins
LEMMA CallMoves ==
    ASSUME TypeInv, [Next]_vars, NEW w \in Workers, pc'[w] = "call"
    PROVE  /\ Busy(w) /\ cur'[w] = cur[w] /\ lease'[w] = lease[w]
           /\ \/ pc[w] = "call" /\ att'[w] = att[w]
              \/ StartAttempt(w)
<1>1. /\ pc \in [Workers -> PC] /\ cur \in [Workers -> Messages \cup {NoMessage}]
      /\ att \in [Workers -> Nat]
  BY DEF TypeInv, TypeOK
<1> DEFINE Goal == (pc[w] = "call" /\ att'[w] = att[w]) \/ StartAttempt(w)
<1>2. Busy(w) /\ cur'[w] = cur[w] /\ lease'[w] = lease[w]
  <2>1. Busy(w)'
    BY DEF Busy
  <2>2. ASSUME NEW m \in Messages, ClaimJob(w, m) PROVE FALSE
    BY <1>1, <2>2 DEF ClaimJob, GoTo
  <2> QED
    BY <2>1, <2>2, BusyMoves
<1>3. CASE UNCHANGED <<pc, att>>
  BY <1>2, <1>3
<1>4. ASSUME NEW v \in Workers, Prepare(v) PROVE Goal
  BY <1>1, <1>4
     DEF Prepare, PrepareStale, PrepareFinal, PrepareRefused, PrepareBusy,
         StartAttempt, Return, Forget, GoTo
<1>5. ASSUME NEW v \in Workers, Finalize(v) PROVE Goal
  BY <1>1, <1>5
     DEF Finalize, FinalizeStale, FinalizeLate, FinalizeDelivered,
         FinalizeBlocked, FinalizeFailure, MaySettle, Return, GoTo
<1>6. ASSUME NEW v \in Workers, FinalizeJob(v) \/ Fault(v) PROVE Goal
  BY <1>1, <1>6
     DEF FinalizeJob, ReadJob, WriteJob, KeepJob, Fault, ExecutionError, Crash,
         Restart, Forget, GoTo, local
<1>7. ASSUME NEW v \in Workers,
             \/ ClaimNothing(v) \/ \E batch \in SUBSET Messages : Recover(v, batch)
             \/ \E m \in Messages : ClaimJob(v, m)
      PROVE  Goal
  BY <1>1, <1>7 DEF ClaimNothing, Recover, ClaimJob, GoTo, local
<1>8. ASSUME NEW r \in Requests, Http(r) PROVE UNCHANGED <<pc, att>>
  BY <1>8 DEF Http, SendCheck, SendCommit, SendDuplicate, RetryCheck,
              RetryCommit, RetryRefused, local
<1>9. ASSUME NEW m \in Messages, Time(m) \/ Direct(m)
      PROVE  UNCHANGED <<pc, att>>
  BY <1>9 DEF Time, LeaseExpires, LeaseExpiresEarly, AttemptAges, Direct,
              DirectDelivered, DirectSettled, DirectRetry, local
<1>10. CASE EndConversation \/ UNCHANGED vars
  BY <1>3, <1>10 DEF EndConversation, vars, local
<1> QED
  BY <1>2, <1>3, <1>4, <1>5, <1>6, <1>7, <1>8, <1>9, <1>10 DEF Next, Work

\* a row is leased anew only by a claim
JobRow(old, new) ==
    /\ new.count = old.count
    /\ \/ new.token = NoToken /\ new.status \notin {"none", "leased"}
       \/ /\ new.token = old.token /\ new.status = old.status
          /\ old.expired => new.expired

LEMMA JobRows ==
    ASSUME TypeInv, LeasesCounted, [Next]_vars, NEW m \in Messages
    PROVE  JobRow(job[m], job'[m]) \/ \E w \in Workers : Claimed(w, m)
<1> DEFINE j == job[m]
<1>1. j \in Job /\ JobOK(j) /\ (j.status = "none" => j.count = 0)
  BY JobsOK DEF LeasesCounted, TypeInv, TypeOK
<1>2. JobRow(j, j)
  BY <1>1 DEF JobRow
<1>3. JobRow(j, [j EXCEPT !.expired = TRUE])
  BY <1>1 DEF JobRow, Job
<1>4. JobRow(j, SetQueued(j)) /\ \A s \in TerminalJobStatus : JobRow(j, SetTerminal(j, s))
  BY <1>1 DEF JobRow, Job, SetQueued, SetTerminal, TerminalJobStatus
<1>5. JobRow(j, EnsureJob(j))
  <2>1. CASE j.status = "none"
    BY <1>1, <2>1 DEF JobRow, Job, EnsureJob, SetQueued, NoJob, NoToken
  <2> QED
    BY <1>2, <2>1 DEF EnsureJob
<1>6. JobRow(j, Reactivate(j))
  <2>1. CASE j.status = "none"
    BY <1>1, <2>1 DEF JobRow, Job, Reactivate, EnsureJob, SetQueued, NoJob, NoToken
  <2> QED
    BY <1>4, <2>1 DEF Reactivate, EnsureJob
<1>7. ASSUME NEW w \in Workers, OwnsCopy(w)
      PROVE  Verdict(outcome[w]) \in TerminalJobStatus
  BY <1>7 DEF OwnsCopy, Verdict, TerminalJobStatus
<1>8. JobRow(j, RecoveredJob(m))
  BY <1>2, <1>4 DEF RecoveredJob, TerminalJobStatus
<1> QED
  BY <1>2, <1>3, <1>4, <1>5, <1>6, <1>7, <1>8, MessageSteps
     DEF MessageStep, Still, Sent, Requeued, Recovered, Begun, SettledBy,
         Overtaken, JobClosed, Aged, Directed

LEMMA LostLeaseIsLost ==
    ASSUME TypeInv, TokenInv, [Next]_vars, NEW w \in Workers,
           pc[w] = "call", cur'[w] = cur[w], lease'[w] = lease[w], HoldsLease(w)'
    PROVE  cur[w] \in Messages /\ HoldsLease(w)
<1>1. PICK m \in Messages : m = cur[w]
  BY DEF TypeInv, BusyHasMessage, Busy
<1>2. HasCurrentLease(job'[m], lease[w])
  BY <1>1 DEF HoldsLease
<1>3. lease[w] \in 1..job[m].count /\ job[m].count \in Nat
  BY <1>1 DEF TokenInv, LeasesCounted, Busy, TypeInv, TypeOK, Job
<1>4. lease[w] # NoToken
  BY <1>3 DEF NoToken
<1>5. ~\E v \in Workers : Claimed(v, m)
  <2>1. job[m] \in Job
    BY DEF TypeInv, TypeOK
  <2>2. Lease(job[m]).token = job[m].count + 1
    BY <2>1 DEF Lease, Job
  <2>3. job'[m] # Lease(job[m])
    BY <1>2, <1>3, <2>2 DEF HasCurrentLease
  <2> QED
    BY <2>3 DEF Claimed
<1>6. JobRow(job[m], job'[m])
  BY <1>5, JobRows DEF TokenInv
<1> QED
  BY <1>1, <1>2, <1>4, <1>6 DEF JobRow, HasCurrentLease, HoldsLease

LEMMA NewAttempt ==
    ASSUME NEW rows \in Seq(Attempt), NEW t \in Nat,
           NEW new, new = AddAttempt(rows, t)
    PROVE  /\ Len(rows) \in Nat
           /\ Len(new) = Len(rows) + 1
           /\ new[Len(new)].status = "started"
           /\ new[Len(new)].token = t
<1>1. Len(rows) \in Nat
  OBVIOUS
<1>2. Len(new) = Len(rows) + 1 /\ new[Len(new)] = Started(t)
  BY AddAttemptRow
<1>3. Started(t).status = "started" /\ Started(t).token = t
  BY DEF Started
<1> QED
  BY <1>1, <1>2, <1>3

LEMMA OwnerStays ==
    ASSUME TypeInv, TokenInv, [Next]_vars
    PROVE  OwnerIsLatest'
<1> SUFFICES ASSUME NEW w \in Workers, pc'[w] = "call", HoldsLease(w)'
             PROVE  AttemptIsCurrent(w)'
  BY DEF OwnerIsLatest
<1>1. cur'[w] = cur[w] /\ lease'[w] = lease[w]
  BY CallMoves
<1>2. /\ attempts \in [Messages -> Seq(Attempt)] /\ lease \in [Workers -> Nat]
      /\ att \in [Workers -> Nat]
  BY DEF TypeInv, TypeOK
<1>3. CASE StartAttempt(w)
  <2>1. cur[w] \in Messages
    BY <1>3 DEF StartAttempt, TypeInv, BusyHasMessage, Busy
  <2>2. /\ attempts'[cur[w]] = AddAttempt(attempts[cur[w]], lease[w])
        /\ att'[w] = Len(attempts[cur[w]]) + 1
    BY <1>2, <1>3, <2>1 DEF StartAttempt
  <2> DEFINE new == AddAttempt(attempts[cur[w]], lease[w])
  <2>3. /\ Len(new) = Len(attempts[cur[w]]) + 1 /\ Len(attempts[cur[w]]) \in Nat
        /\ new[Len(new)].status = "started"
    BY <1>2, <2>1, NewAttempt
  <2> HIDE DEF new
  <2>4. attempts'[cur'[w]] = new
    BY <1>1, <2>2 DEF new
  <2> QED
    BY <2>2, <2>3, <2>4 DEF AttemptIsCurrent, IsStarted
<1>4. CASE pc[w] = "call" /\ att'[w] = att[w]
  <2>1. cur[w] \in Messages /\ HoldsLease(w)
    BY <1>1, <1>4, LostLeaseIsLost
  <2>2. PICK m \in Messages : m = cur[w]
    BY <2>1
  <2>3. att[w] = Len(attempts[m]) /\ IsStarted(attempts[m], att[w])
    BY <1>4, <2>1, <2>2 DEF TokenInv, OwnerIsLatest, AttemptIsCurrent
  <2>4. LatestStarted(attempts[m])
    BY <2>3 DEF LatestStarted
  <2>5. ASSUME NEW v \in Workers, SettledBy(v, m) \/ Overtaken(v, m)
        PROVE  FALSE
    <3>1. Busy(v) /\ Busy(w) /\ cur[v] = cur[w] /\ HoldsLease(v)
      BY <1>4, <2>2, <2>5 DEF SettledBy, Overtaken, MaySettle, Busy
    <3>2. v = w
      BY <2>1, <3>1 DEF TokenInv, LeasesDiffer, HoldsLease, HasCurrentLease
    <3> QED
      BY <2>5, <3>2 DEF SettledBy, Overtaken
  <2>6. ~Recovered(m)
    BY <2>1, <2>2 DEF Recovered, LeaseHasExpired, HoldsLease, HasCurrentLease
  <2>7. attempts'[m] = attempts[m] \/ Aged(m)
    BY <2>4, <2>5, <2>6, MessageSteps
       DEF MessageStep, Still, Sent, Requeued, Claimed, Begun, JobClosed,
           Directed, Untouched
  <2>8. /\ Len(attempts'[m]) = Len(attempts[m])
        /\ attempts'[m][att[w]].status = "started"
    <3>1. CASE Aged(m)
      BY <1>2, <2>3, <2>4, <3>1, AgeKeeps DEF Aged, IsStarted
    <3> QED
      BY <2>3, <2>7, <3>1 DEF IsStarted
  <2> QED
    BY <1>1, <1>4, <2>2, <2>3, <2>8 DEF AttemptIsCurrent, IsStarted
<1> QED
  BY <1>3, <1>4, CallMoves

LEMMA TokenStep == TypeInv /\ TokenInv /\ [Next]_vars => TokenInv'
<1> SUFFICES ASSUME TypeInv, TokenInv, [Next]_vars PROVE TokenInv'
  OBVIOUS
<1>1. /\ TypeInv' /\ job \in [Messages -> Job] /\ job' \in [Messages -> Job]
      /\ attempts \in [Messages -> Seq(Attempt)] /\ lease \in [Workers -> Nat]
  BY NextTypes DEF TypeInv, TypeOK
<1>2. \A m \in Messages : job[m].count \in Nat /\ job[m].token \in Nat
  BY <1>1 DEF Job
<1>3. ASSUME NEW m \in Messages
      PROVE  job'[m].count >= job[m].count
  <2>1. Lease(job[m]).count = job[m].count + 1
    BY <1>1 DEF Lease, Job
  <2> QED
    BY <1>2, <2>1, JobRows DEF TokenInv, JobRow, Claimed
<1>4. ASSUME NEW m \in Messages
      PROVE  /\ job'[m].token <= job'[m].count
             /\ job'[m].status = "none" => job'[m].count = 0
  <2>1. /\ job[m].token <= job[m].count
        /\ job[m].status = "none" => job[m].count = 0
    BY DEF TokenInv, LeasesCounted
  <2>2. CASE JobRow(job[m], job'[m])
    BY <1>1, <1>2, <2>1, <2>2 DEF JobRow, NoToken
  <2>3. ASSUME NEW w \in Workers, Claimed(w, m)
        PROVE  /\ job'[m].token = job'[m].count
               /\ job'[m].status = "leased" /\ job'[m].count \in Nat
    BY <1>1, <1>2, <2>3 DEF Claimed, Lease, Job
  <2> QED
    BY <2>2, <2>3, JobRows DEF TokenInv
<1>5. ASSUME NEW w \in Workers, NEW m \in Messages, ClaimJob(w, m)
      PROVE  cur'[w] = m /\ lease'[w] = job[m].count + 1
             /\ job'[m].count = job[m].count + 1
  BY <1>1, <1>5 DEF ClaimJob, Lease, TypeInv, TypeOK, Job
<1>6. ASSUME NEW w \in Workers, Busy(w)
      PROVE  cur[w] \in Messages /\ lease[w] \in 1..job[cur[w]].count
  BY <1>6 DEF TokenInv, LeasesCounted, TypeInv, BusyHasMessage
<1>7. ASSUME NEW w \in Workers, Busy(w)'
      PROVE  lease'[w] \in 1..job'[cur'[w]].count
  <2>1. CASE Busy(w) /\ cur'[w] = cur[w] /\ lease'[w] = lease[w]
    <3>1. PICK m \in Messages : m = cur[w]
      BY <1>6, <2>1
    <3>2. job'[m].count \in Nat /\ job[m].count \in Nat
      BY <1>1 DEF Job
    <3> QED
      BY <1>3, <1>6, <2>1, <3>1, <3>2
  <2>2. ASSUME NEW m \in Messages, ClaimJob(w, m)
        PROVE  lease'[w] \in 1..job'[cur'[w]].count
    BY <1>2, <1>5, <2>2
  <2> QED
    BY <1>7, <2>1, <2>2, BusyMoves
<1>8. LeasesCounted'
  BY <1>4, <1>7 DEF LeasesCounted
<1>9. LeasesDiffer'
  <2> SUFFICES ASSUME NEW v \in Workers, NEW w \in Workers, Busy(v)', Busy(w)',
                      cur'[v] = cur'[w], lease'[v] = lease'[w], v # w
               PROVE  FALSE
    BY DEF LeasesDiffer
  <2>1. ASSUME NEW x \in Workers, NEW y \in Workers, x # y, Busy(y)',
               NEW m \in Messages, ClaimJob(x, m), cur'[y] = m
        PROVE  lease'[y] < lease'[x]
    <3>1. Busy(y) /\ cur'[y] = cur[y] /\ lease'[y] = lease[y]
      <4>1. ASSUME NEW n \in Messages, ClaimJob(y, n) PROVE FALSE
        BY <2>1, <4>1 DEF ClaimJob, GoTo, TypeInv, TypeOK
      <4> QED
        BY <2>1, <4>1, BusyMoves
    <3> QED
      BY <1>2, <1>5, <1>6, <2>1, <3>1
  <2>2. lease'[v] \in Nat /\ lease'[w] \in Nat
    BY <1>1 DEF TypeInv, TypeOK
  <2>3. ASSUME NEW m \in Messages, ClaimJob(v, m) PROVE FALSE
    BY <1>5, <2>1, <2>2, <2>3
  <2>4. ASSUME NEW m \in Messages, ClaimJob(w, m) PROVE FALSE
    BY <1>5, <2>1, <2>2, <2>4
  <2> QED
    BY <2>3, <2>4, BusyMoves DEF TokenInv, LeasesDiffer
<1>10. CallHasAttempt'
  <2> SUFFICES ASSUME NEW w \in Workers, pc'[w] = "call"
               PROVE  /\ att'[w] \in 1..Len(attempts'[cur'[w]])
                      /\ attempts'[cur'[w]][att'[w]].token = lease'[w]
    BY DEF CallHasAttempt
  <2>1. Busy(w) /\ cur'[w] = cur[w] /\ lease'[w] = lease[w]
    BY CallMoves
  <2>2. PICK m \in Messages : m = cur[w]
    BY <1>6, <2>1
  <2>3. CASE pc[w] = "call" /\ att'[w] = att[w]
    <3>1. att[w] \in 1..Len(attempts[m]) /\ attempts[m][att[w]].token = lease[w]
      BY <2>2, <2>3 DEF TokenInv, CallHasAttempt
    <3> QED
      BY <1>1, <2>1, <2>2, <2>3, <3>1, AttemptsAreKept DEF AttemptsKept
  <2>4. CASE StartAttempt(w)
    <3>1. /\ attempts'[m] = AddAttempt(attempts[m], lease[w])
          /\ att'[w] = Len(attempts[m]) + 1
      BY <1>1, <2>2, <2>4 DEF StartAttempt, TypeInv, TypeOK
    <3> DEFINE new == AddAttempt(attempts[m], lease[w])
    <3>2. /\ Len(new) = Len(attempts[m]) + 1 /\ Len(attempts[m]) \in Nat
          /\ new[Len(new)].token = lease[w]
      BY <1>1, NewAttempt
    <3> HIDE DEF new
    <3>3. attempts'[cur'[w]] = new
      BY <2>1, <2>2, <3>1 DEF new
    <3> QED
      BY <2>1, <3>1, <3>2, <3>3
  <2> QED
    BY <2>3, <2>4, CallMoves
<1> QED
  BY <1>8, <1>9, <1>10, OwnerStays DEF TokenInv

LEMMA TokensHold == Spec => []TokenInv
<1>1. Init => TokenInv
  BY DEF Init, TokenInv, LeasesCounted, LeasesDiffer, CallHasAttempt,
         OwnerIsLatest, Busy, NoJob, NoToken
<1> QED
  BY <1>1, TokenStep, TypesHold, PTL DEF Spec

\* No two workers ever execute a message under one lease, and the owner of
\* the current lease is the owner of the latest attempt.
THEOREM LeasesAreExclusive == Spec => []LeaseIsExclusive
<1>1. TokenInv => LeaseIsExclusive
  BY DEF TokenInv, LeasesDiffer, OwnerIsLatest, LeaseIsExclusive, Executing, Busy
<1> QED
  BY <1>1, TokensHold, PTL

----------------------------------------------------------------------------
(* The ledger and the job of one message.  The service methods that no     *)
(* router calls settle a message without an attempt, so from here on they  *)
(* are left out: DirectCalls is false in every theorem that follows.       *)

FailedRows(rows) == {i \in 1..Len(rows) : rows[i].status = "failed"}

Ends(rows, status, code) ==
    /\ rows # << >>
    /\ rows[Len(rows)].status = status
    /\ rows[Len(rows)].code = code

Explains(rows, status, retries) ==
    /\ Cardinality(FailedRows(rows)) =
         retries + (IF status = "failed" THEN 1 ELSE 0)
    /\ status = "delivered" <=> Ends(rows, "completed", "none")
    /\ status = "blocked" <=> Ends(rows, "rejected", "AI_BLOCKED")
    /\ status = "failed" => Ends(rows, "failed", "AI_FAILED")
    /\ status = "absent" => rows = << >> /\ retries = 0

Runnable(rows, j, status, retries) ==
    /\ LatestStarted(rows) =>
          \/ j.status = "leased" /\ j.token = rows[Len(rows)].token
          \/ j.status \in TerminalJobStatus /\ retries > 0
    /\ j.status = "queued" => status = "processing" /\ ~LatestStarted(rows)

LedgerInv ==
    \A m \in Messages :
        /\ Explains(attempts[m], msg[m].status, msg[m].retries)
        /\ Runnable(attempts[m], job[m], msg[m].status, msg[m].retries)

LEMMA FailedRowsCount ==
    ASSUME NEW rows \in Seq(Attempt)
    PROVE  IsFiniteSet(FailedRows(rows)) /\ Cardinality(FailedRows(rows)) \in Nat
<1>1. IsFiniteSet(1..Len(rows))
  BY FS_Interval
<1> QED
  BY <1>1, FS_Subset, FS_CardinalityType DEF FailedRows

\* a settled message has no running attempt
LEMMA SettledIsClosed ==
    ASSUME NEW rows \in Seq(Attempt), NEW s \in Settled, NEW n,
           Explains(rows, s, n)
    PROVE  ~LatestStarted(rows)
BY DEF Explains, Ends, Settled, LatestStarted, IsStarted

\* an attempt is closed, with no failure of the message
LEMMA ClosedWithoutFailure ==
    ASSUME NEW rows \in Seq(Attempt), LatestStarted(rows),
           NEW s \in AttemptStatus \ {"started", "failed"},
           NEW c \in AttemptCode,
           NEW new, new = Close(rows, Len(rows), s, c)
    PROVE  /\ FailedRows(new) = FailedRows(rows)
           /\ Ends(new, s, c)
           /\ ~LatestStarted(new)
<1>1. s \in AttemptStatus /\ s # "started" /\ s # "failed"
  OBVIOUS
<1>2. /\ IsStarted(rows, Len(rows)) /\ Len(rows) \in 1..Len(rows)
      /\ rows[Len(rows)].status = "started"
  BY DEF LatestStarted, IsStarted
<1>3. /\ Len(new) = Len(rows)
      /\ new[Len(rows)].status = s /\ new[Len(rows)].code = c
      /\ \A k \in 1..Len(rows) : k # Len(rows) => new[k] = rows[k]
  BY <1>1, <1>2, CloseKeeps
<1>4. new \in Seq(Attempt)
  BY <1>1, <1>2, CloseKeeps DEF AttemptsKept
<1>5. FailedRows(new) = FailedRows(rows)
  BY <1>1, <1>2, <1>3 DEF FailedRows
<1> QED
  BY <1>1, <1>2, <1>3, <1>4, <1>5 DEF Ends, LatestStarted, IsStarted

\* the attempt fails: one failure more
LEMMA ClosedAsFailure ==
    ASSUME NEW rows \in Seq(Attempt), LatestStarted(rows),
           NEW new, new = Close(rows, Len(rows), "failed", "AI_FAILED")
    PROVE  /\ Cardinality(FailedRows(new)) = Cardinality(FailedRows(rows)) + 1
           /\ Ends(new, "failed", "AI_FAILED")
           /\ ~LatestStarted(new)
<1>1. "failed" \in AttemptStatus /\ "AI_FAILED" \in AttemptCode
  BY DEF AttemptStatus, AttemptCode
<1>2. /\ IsStarted(rows, Len(rows)) /\ Len(rows) \in 1..Len(rows)
      /\ rows[Len(rows)].status = "started"
  BY DEF LatestStarted, IsStarted
<1>3. /\ Len(new) = Len(rows)
      /\ new[Len(rows)].status = "failed" /\ new[Len(rows)].code = "AI_FAILED"
      /\ \A k \in 1..Len(rows) : k # Len(rows) => new[k] = rows[k]
  BY <1>1, <1>2, CloseKeeps
<1>4. new \in Seq(Attempt)
  BY <1>1, <1>2, CloseKeeps DEF AttemptsKept
<1>5. /\ FailedRows(new) = FailedRows(rows) \cup {Len(rows)}
      /\ Len(rows) \notin FailedRows(rows)
  BY <1>2, <1>3 DEF FailedRows
<1>6. Cardinality(FailedRows(new)) = Cardinality(FailedRows(rows)) + 1
  BY <1>5, FailedRowsCount, FS_AddElement
<1> QED
  BY <1>2, <1>3, <1>4, <1>6 DEF Ends, LatestStarted, IsStarted

\* an attempt begins
LEMMA BegunKeepsFailures ==
    ASSUME NEW rows \in Seq(Attempt), NEW t \in Nat,
           NEW new, new = AddAttempt(rows, t)
    PROVE  /\ FailedRows(new) = FailedRows(rows)
           /\ new # << >> /\ LatestStarted(new)
           /\ new[Len(new)].status = "started" /\ new[Len(new)].token = t
<1>0. Len(rows) \in Nat
  OBVIOUS
<1>1. /\ new \in Seq(Attempt) /\ Len(rows) \in Nat /\ Len(new) = Len(rows) + 1
      /\ \A i \in 1..Len(rows) : new[i] = rows[i]
  BY <1>0, AddAttemptRow
<1>2. new[Len(new)].status = "started" /\ new[Len(new)].token = t
  BY NewAttempt
<1>3. \A i \in 1..Len(new) : i \in 1..Len(rows) \/ i = Len(new)
  BY <1>1
<1>4. FailedRows(new) = FailedRows(rows)
  <2>1. \A i \in 1..Len(new) : new[i].status = "failed" => i \in 1..Len(rows)
    BY <1>2, <1>3
  <2>2. 1..Len(rows) \subseteq 1..Len(new)
    BY <1>1
  <2> QED
    BY <1>1, <2>1, <2>2 DEF FailedRows
<1> QED
  BY <1>1, <1>2, <1>4 DEF LatestStarted, IsStarted

LEMMA LedgerStep ==
    ASSUME ~DirectCalls, TypeInv, TokenInv, StrandedInv, LedgerInv, [Next]_vars
    PROVE  LedgerInv'
<1> SUFFICES ASSUME NEW m \in Messages
             PROVE  /\ Explains(attempts'[m], msg'[m].status, msg'[m].retries)
                    /\ Runnable(attempts'[m], job'[m], msg'[m].status,
                                msg'[m].retries)
  BY DEF LedgerInv
<1> DEFINE rows == attempts[m]
           new == attempts'[m]
           j == job[m]
           s == msg[m].status
           n == msg[m].retries
           Goal == /\ Explains(new, msg'[m].status, msg'[m].retries)
                   /\ Runnable(new, job'[m], msg'[m].status, msg'[m].retries)
<1>1. /\ msg[m] \in [status : MessageStatus, retries : Nat]
      /\ j \in Job /\ rows \in Seq(Attempt) /\ lease \in [Workers -> Nat]
  BY DEF TypeInv, TypeOK
<1>2. Explains(rows, s, n) /\ Runnable(rows, j, s, n)
  BY DEF LedgerInv
<1>3. Cardinality(FailedRows(rows)) \in Nat /\ n \in Nat
  BY <1>1, FailedRowsCount
<1>4. CASE Still(m)
  <2>1. job'[m].status = j.status /\ job'[m].token = j.token
    BY <1>1, <1>4 DEF Still, Job
  <2> QED
    BY <1>2, <1>4, <2>1 DEF Still, Untouched, Runnable
<1>5. CASE Sent(m)
  <2>1. msg'[m].status = "processing" /\ msg'[m].retries = n /\ s = "absent"
    BY <1>1, <1>5 DEF Sent
  <2>2. ~LatestStarted(rows) /\ new = rows /\ rows = << >> /\ n = 0
    BY <1>2, <1>5, <2>1 DEF Sent, Explains, LatestStarted, IsStarted
  <2> QED
    BY <1>2, <2>1, <2>2 DEF Explains, Runnable, Ends
<1>6. CASE Requeued(m)
  <2>1. msg'[m].status = "processing" /\ msg'[m].retries = n + 1 /\ s = "failed"
    BY <1>1, <1>6 DEF Requeued
  <2>2. ~LatestStarted(rows) /\ new = rows
    BY <1>1, <1>2, <1>6, <2>1, SettledIsClosed DEF Requeued, Settled
  <2> QED
    BY <1>2, <1>3, <2>1, <2>2 DEF Explains, Runnable
<1>7. CASE Recovered(m)
  <2>1. j.status = "leased" /\ msg'[m] = msg[m] /\ s # "absent"
    BY <1>7 DEF Recovered, LeaseHasExpired, StrandedInv, AbsentHasNoJob
  <2>2. CASE Cancellable(m)
    <3>1. s \in Settled
      BY <2>2 DEF Cancellable, StrandedInv, DeliveryAgreesWithMessage, Settled
    <3>2. ~LatestStarted(rows)
      BY <1>1, <1>2, <3>1, SettledIsClosed
    <3>3. new = rows /\ job'[m].status = "cancelled"
      BY <1>1, <1>7, <2>2
         DEF Recovered, RecoveredJob, RecoveredAttempts, Abandoned, SetTerminal, Job
    <3> QED
      BY <1>2, <2>1, <3>2, <3>3 DEF Runnable
  <2>3. CASE ~Cancellable(m)
    <3>1. s = "processing"
      BY <1>1, <2>1, <2>3 DEF Cancellable, Settled, MessageStatus
    <3>2. CASE Abandoned(m)
      <4>1. new = Close(rows, Len(rows), "rejected", "WORKER_LEASE_EXPIRED")
        BY <1>7, <3>2 DEF Recovered, RecoveredAttempts
      <4>2. /\ FailedRows(new) = FailedRows(rows)
            /\ Ends(new, "rejected", "WORKER_LEASE_EXPIRED")
            /\ ~LatestStarted(new)
        BY <1>1, <3>2, <4>1, ClosedWithoutFailure
           DEF Abandoned, AttemptStatus, AttemptCode
      <4>3. job'[m].status = "queued"
        BY <1>1, <1>7, <2>3, <3>2 DEF Recovered, RecoveredJob, SetQueued, Job
      <4> QED
        BY <1>2, <2>1, <3>1, <4>2, <4>3 DEF Explains, Runnable, Ends
    <3>3. CASE Orphaned(m) /\ ~Abandoned(m)
      <4>1. new = rows /\ job'[m].status = "queued" /\ ~LatestStarted(rows)
        BY <1>1, <1>7, <2>3, <3>3
           DEF Recovered, RecoveredJob, RecoveredAttempts, Orphaned, SetQueued, Job
      <4> QED
        BY <1>2, <2>1, <3>1, <4>1 DEF Runnable
    <3>4. CASE ~Orphaned(m) /\ ~Abandoned(m)
      BY <1>2, <1>7, <2>1, <2>3, <3>4
         DEF Recovered, RecoveredJob, RecoveredAttempts
    <3> QED
      BY <3>2, <3>3, <3>4
  <2> QED
    BY <2>2, <2>3
<1>8. ASSUME NEW w \in Workers, Claimed(w, m) PROVE Goal
  <2>1. j.status = "queued" /\ new = rows /\ msg'[m] = msg[m]
    BY <1>8 DEF Claimed, ClaimJob, Untouched
  <2>2. job'[m].status = "leased"
    BY <1>1, <1>8 DEF Claimed, Lease, Job
  <2> QED
    BY <1>2, <2>1, <2>2 DEF Runnable
<1>9. ASSUME NEW w \in Workers, Begun(w, m) PROVE Goal
  <2>1. /\ j.status = "leased" /\ j.token = lease[w] /\ job'[m] = j
        /\ s = "processing" /\ msg'[m] = msg[m]
    BY <1>9 DEF Begun, HasCurrentLease
  <2>2. /\ FailedRows(new) = FailedRows(rows)
        /\ new # << >> /\ LatestStarted(new)
        /\ new[Len(new)].status = "started" /\ new[Len(new)].token = lease[w]
    BY <1>1, <1>9, BegunKeepsFailures DEF Begun
  <2> QED
    BY <1>2, <2>1, <2>2 DEF Explains, Runnable, Ends
<1>10. ASSUME NEW w \in Workers, SettledBy(w, m) PROVE Goal
  <2>1. /\ j.status = "leased" /\ job'[m] = j /\ s = "processing"
        /\ att[w] = Len(rows) /\ LatestStarted(rows)
    BY <1>10 DEF SettledBy, MaySettle, HoldsLease, HasCurrentLease,
                 AttemptIsCurrent, LatestStarted
  <2>2. PICK v \in Verdicts :
          /\ msg'[m] = [msg[m] EXCEPT !.status = v[1]]
          /\ new = Close(rows, Len(rows), v[2], v[3])
    BY <1>10, <2>1 DEF SettledBy
  <2>3. msg'[m].status = v[1] /\ msg'[m].retries = n
    BY <1>1, <2>2
  <2>4. CASE v = <<"failed", "failed", "AI_FAILED">>
    <3>1. /\ Cardinality(FailedRows(new)) = Cardinality(FailedRows(rows)) + 1
          /\ Ends(new, "failed", "AI_FAILED") /\ ~LatestStarted(new)
      BY <1>1, <2>1, <2>2, <2>4, ClosedAsFailure
    <3> QED
      BY <1>2, <1>3, <2>1, <2>3, <2>4, <3>1 DEF Explains, Runnable, Ends
  <2>5. CASE v # <<"failed", "failed", "AI_FAILED">>
    <3>1. /\ FailedRows(new) = FailedRows(rows)
          /\ Ends(new, v[2], v[3]) /\ ~LatestStarted(new)
      BY <1>1, <2>1, <2>2, <2>5, ClosedWithoutFailure
         DEF Verdicts, AttemptStatus, AttemptCode
    <3> QED
      BY <1>2, <1>3, <2>1, <2>3, <2>5, <3>1 DEF Verdicts, Explains, Runnable, Ends
  <2> QED
    BY <2>4, <2>5
<1>11. ASSUME NEW w \in Workers, Overtaken(w, m) PROVE FALSE
  BY <1>11 DEF Overtaken, TokenInv, OwnerIsLatest
<1>12. ASSUME NEW w \in Workers, JobClosed(w, m) PROVE Goal
  <2>1. Verdict(outcome[w]) \in TerminalJobStatus
    BY <1>12 DEF JobClosed, OwnsCopy, Verdict, TerminalJobStatus
  <2>2. SettledOrRetried(m)
    BY <1>12, <2>1 DEF JobClosed, OwnsCopy, StrandedInv, VerdictIsSettled
  <2>3. new = rows /\ msg'[m] = msg[m] /\ job'[m].status \in TerminalJobStatus
    BY <1>1, <1>12, <2>1 DEF JobClosed, Untouched, SetTerminal, Job
  <2>4. LatestStarted(rows) => n > 0
    BY <1>1, <1>2, <2>2, SettledIsClosed DEF SettledOrRetried
  <2> QED
    BY <1>2, <2>3, <2>4 DEF Runnable, TerminalJobStatus
<1>13. CASE Aged(m)
  <2>1. /\ Len(new) = Len(rows) /\ Len(rows) \in 1..Len(rows)
        /\ \A k \in 1..Len(rows) : /\ new[k].status = rows[k].status
                                   /\ new[k].code = rows[k].code
                                   /\ new[k].token = rows[k].token
    BY <1>1, <1>13, AgeKeeps DEF Aged, LatestStarted, IsStarted, AttemptsKept
  <2>2. new \in Seq(Attempt)
    BY <1>1, <1>13, AgeKeeps DEF Aged, AttemptsKept
  <2>3. FailedRows(new) = FailedRows(rows)
    BY <2>1 DEF FailedRows
  <2>4. /\ \A a, b : Ends(new, a, b) <=> Ends(rows, a, b)
        /\ LatestStarted(new) <=> LatestStarted(rows)
        /\ rows # << >> /\ new # << >>
    BY <1>1, <2>1, <2>2 DEF Ends, LatestStarted, IsStarted
  <2> QED
    BY <1>2, <1>13, <2>1, <2>3, <2>4 DEF Aged, Explains, Runnable
<1> QED
  BY <1>4, <1>5, <1>6, <1>7, <1>8, <1>9, <1>10, <1>11, <1>12, <1>13, MessageSteps
     DEF MessageStep, Directed

LEMMA LedgerHolds == ASSUME ~DirectCalls PROVE Spec => []LedgerInv
<1>1. Init => LedgerInv
  <2>1. FailedRows(<< >>) = {} /\ Cardinality({}) = 0
    BY FS_EmptySet DEF FailedRows
  <2>2. ~LatestStarted(<< >>)
    BY DEF LatestStarted, IsStarted
  <2>3. Explains(<< >>, "absent", 0) /\ Runnable(<< >>, NoJob, "absent", 0)
    <3>1. Cardinality(FailedRows(<< >>)) = 0 + 0
      BY <2>1
    <3>2. \A a, b : ~Ends(<< >>, a, b)
      BY DEF Ends
    <3>3. Explains(<< >>, "absent", 0)
      BY <3>1, <3>2 DEF Explains
    <3>4. Runnable(<< >>, NoJob, "absent", 0)
      BY <2>2 DEF Runnable, NoJob
    <3> QED
      BY <3>3, <3>4
  <2> QED
    BY <2>3 DEF Init, LedgerInv
<1>2. LedgerInv /\ TypeInv /\ TokenInv /\ StrandedInv /\ [Next]_vars => LedgerInv'
  BY LedgerStep
<1> QED
  BY <1>1, <1>2, TypesHold, TokensHold, StrandedHolds, PTL DEF Spec

\* The number of FAILED attempts and the last attempt of a message tell its
\* state and its retries, however many workers met and failed over it.
THEOREM LedgerIsTrue == ASSUME ~DirectCalls PROVE Spec => []LedgerExplainsMessage
<1>1. LedgerInv => LedgerExplainsMessage
  BY DEF LedgerInv, Explains, Ends, LedgerExplainsMessage, FailedAttempts, FailedRows
<1> QED
  BY <1>1, LedgerHolds, PTL

\* The recovery of a dead worker's lease finds the attempt that goes with it.
THEOREM RunningIsRecoverable ==
    ASSUME ~DirectCalls PROVE Spec => []RunningAttemptIsRecoverable
<1>1. LedgerInv => RunningAttemptIsRecoverable
  BY DEF LedgerInv, Runnable, RunningAttemptIsRecoverable
<1> QED
  BY <1>1, LedgerHolds, PTL

\* No claim is ever wasted: a queued job has a message to process and no
\* attempt in its way.
THEOREM QueuedIsRunnable == ASSUME ~DirectCalls PROVE Spec => []QueuedJobIsRunnable
<1>1. LedgerInv => QueuedJobIsRunnable
  BY DEF LedgerInv, Runnable, QueuedJobIsRunnable
<1> QED
  BY <1>1, LedgerHolds, PTL

\* A message is settled only by the worker that holds its lease at that
\* moment, through the attempt it started under it.
THEOREM SettledByTheOwner ==
    ASSUME ~DirectCalls PROVE Spec => SettledUnderCurrentLease
<1>1. TypeInv /\ TokenInv /\ [Next]_vars =>
        [\A m \in Messages :
            msg[m].status = "processing" /\ msg'[m].status \in Settled =>
                /\ LatestStarted(attempts[m])
                /\ HasCurrentLease(job[m], attempts[m][Len(attempts[m])].token)
        ]_vars
  <2> SUFFICES ASSUME TypeInv, TokenInv, [Next]_vars, NEW m \in Messages,
                      msg[m].status = "processing", msg'[m].status \in Settled
               PROVE  /\ LatestStarted(attempts[m])
                      /\ HasCurrentLease(job[m],
                                         attempts[m][Len(attempts[m])].token)
    OBVIOUS
  <2>1. PICK w \in Workers : SettledBy(w, m)
    BY MessageSteps
       DEF MessageStep, Still, Sent, Requeued, Recovered, Claimed, Begun,
           Overtaken, JobClosed, Aged, Directed, Untouched, Settled
  <2>2. attempts[m][att[w]].token = lease[w]
    BY <2>1 DEF SettledBy, MaySettle, TokenInv, CallHasAttempt
  <2> QED
    BY <2>1, <2>2 DEF SettledBy, MaySettle, AttemptIsCurrent, LatestStarted,
                      HoldsLease
<1> QED
  BY <1>1, TypesHold, TokensHold, PTL DEF Spec, SettledUnderCurrentLease

=============================================================================
