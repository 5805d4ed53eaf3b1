-------------------------- MODULE MediationProofs --------------------------
(***************************************************************************)
(* Theorems about MediationSystem, for any messages, workers, requests and *)
(* bounds, with and without the direct service calls: types, the           *)
(* refinement of MessageContract and what follows from it, the running     *)
(* attempt, and the messages that cannot be stranded.                      *)
(***************************************************************************)
EXTENDS MediationProperties, SequenceTheorems, TLAPS

----------------------------------------------------------------------------
(* The operations on one job row keep its type, and give a token to a      *)
(* leased row only                                                         *)

JobOK(j) == j \in Job /\ (j.status = "leased" <=> j.token # NoToken)

LEMMA JobRowsOK ==
    ASSUME NEW j, JobOK(j)
    PROVE  /\ JobOK(SetQueued(j))
           /\ JobOK(EnsureJob(j))
           /\ JobOK(Reactivate(j))
           /\ JobOK(Lease(j))
           /\ Lease(j).token \in Nat \ {NoToken}
           /\ \A s \in TerminalJobStatus : JobOK(SetTerminal(j, s))
           /\ j.status = "leased" => JobOK([j EXCEPT !.expired = TRUE])
<1> USE DEF JobOK, Job, JobStatus, TerminalJobStatus, NoToken
<1>1. \A k : JobOK(k) => JobOK(SetQueued(k))
  BY DEF SetQueued
<1>2. JobOK(NoJob)
  BY DEF NoJob
<1>3. JobOK(EnsureJob(j))
  <2>1. JobOK(SetQueued(NoJob))
    BY <1>1, <1>2
  <2> QED
    BY <2>1 DEF EnsureJob
<1>4. JobOK(Reactivate(j))
  BY <1>1, <1>3 DEF Reactivate
<1>5. JobOK(Lease(j)) /\ Lease(j).token \in Nat \ {NoToken}
  <2>1. Lease(j) \in Job
    <3>1. j.count \in Nat /\ j.count + 1 \in Nat
      OBVIOUS
    <3> QED
      BY <3>1 DEF Lease
  <2>2. Lease(j).status = "leased"
    BY DEF Lease
  <2>3. Lease(j).token = j.count + 1 /\ j.count \in Nat
    BY DEF Lease
  <2> QED
    BY <2>1, <2>2, <2>3
<1>6. \A s \in TerminalJobStatus : JobOK(SetTerminal(j, s))
  BY DEF SetTerminal
<1>7. j.status = "leased" => JobOK([j EXCEPT !.expired = TRUE])
  OBVIOUS
<1> QED
  BY <1>1, <1>3, <1>4, <1>5, <1>6, <1>7

----------------------------------------------------------------------------
(* Attempt rows *)

LEMMA AddAttemptRow ==
    ASSUME NEW rows \in Seq(Attempt), NEW t \in Nat
    PROVE  /\ AddAttempt(rows, t) \in Seq(Attempt)
           /\ Len(AddAttempt(rows, t)) = Len(rows) + 1
           /\ \A i \in 1..Len(rows) : AddAttempt(rows, t)[i] = rows[i]
           /\ AddAttempt(rows, t)[Len(rows) + 1] = Started(t)
<1>1. Started(t) \in Attempt
  BY DEF Started, Attempt, AttemptStatus, AttemptCode
<1> QED
  BY <1>1 DEF AddAttempt

LEMMA UpdateAttemptRow ==
    ASSUME NEW rows \in Seq(Attempt), NEW i \in 1..Len(rows),
           NEW s \in AttemptStatus, NEW c \in AttemptCode
    PROVE  /\ Close(rows, i, s, c) \in Seq(Attempt)
           /\ Len(Close(rows, i, s, c)) = Len(rows)
           /\ \A k \in 1..Len(rows) : k # i => Close(rows, i, s, c)[k] = rows[k]
           /\ Close(rows, i, s, c)[i].status = s
           /\ Age(rows, i) \in Seq(Attempt)
           /\ Len(Age(rows, i)) = Len(rows)
           /\ \A k \in 1..Len(rows) : Age(rows, i)[k].status = rows[k].status
<1> DEFINE closed == [rows[i] EXCEPT !.status = s, !.code = c, !.stale = FALSE]
           aged == [rows[i] EXCEPT !.stale = TRUE]
<1>1. rows[i] \in Attempt
  OBVIOUS
<1>2. closed \in Attempt /\ closed.status = s
  BY <1>1 DEF Attempt
<1>3. aged \in Attempt /\ aged.status = rows[i].status
  BY <1>1 DEF Attempt
<1>4. /\ [rows EXCEPT ![i] = closed] \in Seq(Attempt)
      /\ Len([rows EXCEPT ![i] = closed]) = Len(rows)
      /\ \A k \in 1..Len(rows) :
            [rows EXCEPT ![i] = closed][k] = IF k = i THEN closed ELSE rows[k]
  <2> HIDE DEF closed
  <2> QED
    BY <1>2, ExceptSeq
<1>5. /\ [rows EXCEPT ![i] = aged] \in Seq(Attempt)
      /\ Len([rows EXCEPT ![i] = aged]) = Len(rows)
      /\ \A k \in 1..Len(rows) :
            [rows EXCEPT ![i] = aged][k] = IF k = i THEN aged ELSE rows[k]
  <2> HIDE DEF aged
  <2> QED
    BY <1>3, ExceptSeq
<1>6. Close(rows, i, s, c) = [rows EXCEPT ![i] = closed]
  BY DEF Close
<1>7. Age(rows, i) = [rows EXCEPT ![i] = aged]
  BY DEF Age
<1> HIDE DEF closed, aged
<1> QED
  BY <1>2, <1>3, <1>4, <1>5, <1>6, <1>7

----------------------------------------------------------------------------
(* Types.  A busy worker works on a message: without this the type of what *)
(* it copies from the message row would not be known.                      *)

BusyHasMessage == \A w \in Workers : Busy(w) => cur[w] \in Messages

TypeInv == TypeOK /\ BusyHasMessage

LEMMA InitTypes == Init => TypeInv
<1> SUFFICES ASSUME Init PROVE TypeInv
  OBVIOUS
<1> USE DEF Init
<1>1. BusyHasMessage
  BY DEF BusyHasMessage, Busy
<1>2. NoJob \in Job /\ NoJob.status # "leased" /\ NoJob.token = NoToken
  BY DEF NoJob, Job, JobStatus, NoToken
<1>3. NoOutcome \in Outcome
  BY DEF NoOutcome, Outcome, OutcomeStatus, MessageStatus
<1>4. << >> \in Seq(Attempt)
  OBVIOUS
<1> QED
  BY <1>1, <1>2, <1>3, <1>4
     DEF TypeInv, TypeOK, MessageStatus, Audiences, Request, PC, NoToken

\* what TypeOK says of the job rows, row by row
LEMMA JobsOK == TypeOK => \A m \in Messages : JobOK(job[m])
BY DEF TypeOK, JobOK

LEMMA HttpTypes ==
    ASSUME TypeInv, NEW r \in Requests, Http(r)
    PROVE  TypeInv'
<1> USE DEF TypeInv, TypeOK, BusyHasMessage, Busy, db, local
<1>1. ASSUME NEW m \in Messages, SendCheck(r, m) PROVE TypeInv'
  BY <1>1 DEF SendCheck, Request
<1>2. ASSUME NEW m \in Messages, RetryCheck(r, m) PROVE TypeInv'
  BY <1>2 DEF RetryCheck, Request
<1> DEFINE m == request[r].message
<1>3. request[r].op # "none" => m \in Messages
  BY DEF Request, Idle
<1>4. CASE SendCommit(r)
  <2>1. m \in Messages /\ JobOK(EnsureJob(job[m]))
    BY <1>3, <1>4, JobsOK, JobRowsOK DEF SendCommit
  <2> QED
    BY <2>1, <1>4 DEF SendCommit, JobOK, Request, MessageStatus
<1>5. CASE SendDuplicate(r)
  BY <1>5 DEF SendDuplicate, Request
<1>6. CASE RetryCommit(r)
  <2>1. m \in Messages /\ JobOK(Reactivate(job[m]))
    BY <1>3, <1>6, JobsOK, JobRowsOK DEF RetryCommit
  <2> QED
    BY <2>1, <1>6 DEF RetryCommit, Requeue, JobOK, Request, MessageStatus
<1>7. CASE RetryRefused(r)
  BY <1>7 DEF RetryRefused, Request
<1> QED
  BY <1>1, <1>2, <1>4, <1>5, <1>6, <1>7 DEF Http

\* what recovery writes to one message's rows
LEMMA RecoveredRowsOK ==
    ASSUME TypeOK, NEW m \in Messages, job[m].status = "leased"
    PROVE  JobOK(RecoveredJob(m)) /\ RecoveredAttempts(m) \in Seq(Attempt)
<1>1. JobOK(job[m]) /\ attempts[m] \in Seq(Attempt)
  BY JobsOK DEF TypeOK
<1>2. JobOK(RecoveredJob(m))
  <2>1. JobOK(SetTerminal(job[m], "cancelled")) /\ JobOK(SetQueued(job[m]))
    BY <1>1, JobRowsOK DEF TerminalJobStatus
  <2> QED
    BY <1>1, <2>1 DEF RecoveredJob
<1>3. RecoveredAttempts(m) \in Seq(Attempt)
  <2>1. CASE Abandoned(m)
    <3>1. Len(attempts[m]) \in 1..Len(attempts[m])
      BY <2>1 DEF Abandoned, LatestStarted, IsStarted
    <3> QED
      BY <1>1, <2>1, <3>1, UpdateAttemptRow
         DEF RecoveredAttempts, AttemptStatus, AttemptCode
  <2> QED
    BY <1>1, <2>1 DEF RecoveredAttempts
<1> QED
  BY <1>2, <1>3

LEMMA QueueTypes ==
    ASSUME TypeInv, NEW w \in Workers,
           \/ \E batch \in SUBSET Messages : Recover(w, batch)
           \/ \E m \in Messages : ClaimJob(w, m)
           \/ ClaimNothing(w)
    PROVE  TypeInv'
<1> USE DEF TypeInv, TypeOK, BusyHasMessage, Busy, db, local, GoTo, PC
<1>1. ASSUME NEW batch \in SUBSET Messages, Recover(w, batch) PROVE TypeInv'
  <2>1. \A m \in batch : job[m].status = "leased"
    BY <1>1 DEF Recover, Expired, LeaseHasExpired
  <2>2. \A m \in batch :
          JobOK(RecoveredJob(m)) /\ RecoveredAttempts(m) \in Seq(Attempt)
    BY <2>1, RecoveredRowsOK
  <2>3. job' \in [Messages -> Job] /\ \A m \in Messages : JobOK(job'[m])
    BY <1>1, <2>2, JobsOK DEF Recover, JobOK
  <2>4. attempts' \in [Messages -> Seq(Attempt)]
    BY <1>1, <2>2 DEF Recover
  <2> QED
    BY <1>1, <2>3, <2>4 DEF Recover, JobOK
<1>2. ASSUME NEW m \in Messages, ClaimJob(w, m) PROVE TypeInv'
  <2>1. JobOK(Lease(job[m])) /\ Lease(job[m]).token \in Nat
    BY JobsOK, JobRowsOK
  <2>2. job' \in [Messages -> Job] /\ \A n \in Messages : JobOK(job'[n])
    BY <1>2, <2>1, JobsOK DEF ClaimJob, JobOK
  <2> QED
    BY <1>2, <2>1, <2>2 DEF ClaimJob, JobOK
<1>3. CASE ClaimNothing(w)
  BY <1>3 DEF ClaimNothing
<1> QED
  BY <1>1, <1>2, <1>3

LEMMA PrepareTypes ==
    ASSUME TypeInv, NEW w \in Workers, Prepare(w)
    PROVE  TypeInv'
<1> USE DEF TypeInv, TypeOK, BusyHasMessage, Busy, db, local, GoTo, PC
<1> DEFINE m == cur[w]
<1>1. m \in Messages /\ msg[m].status \in MessageStatus
  BY DEF Prepare, PrepareStale, PrepareFinal, PrepareRefused, PrepareBusy,
         StartAttempt
<1>2. ASSUME NEW s \in OutcomeStatus, Return(w, s, msg[m].status),
             UNCHANGED <<db, request, faults>>, pc[w] = "prepare"
      PROVE  TypeInv'
  <2>1. [status |-> s, message |-> msg[m].status] \in Outcome
    BY <1>1 DEF Outcome
  <2> QED
    BY <1>2, <2>1 DEF Return
<1>3. CASE PrepareStale(w)
  BY <1>3, <1>2 DEF PrepareStale, OutcomeStatus
<1>4. CASE PrepareFinal(w)
  BY <1>4, <1>2 DEF PrepareFinal, OutcomeStatus
<1>5. CASE PrepareRefused(w)
  <2>1. NoOutcome \in Outcome /\ NoJob \in Job
    BY DEF NoOutcome, Outcome, OutcomeStatus, MessageStatus, NoJob, Job,
           JobStatus, NoToken
  <2> QED
    BY <1>5, <2>1 DEF PrepareRefused, Forget, NoToken
<1>6. CASE PrepareBusy(w)
  BY <1>6, <1>2 DEF PrepareBusy, OutcomeStatus
<1>7. CASE StartAttempt(w)
  <2>1. AddAttempt(attempts[m], lease[w]) \in Seq(Attempt)
    BY <1>1, AddAttemptRow
  <2>2. Len(attempts[m]) + 1 \in Nat
    BY <1>1
  <2> QED
    BY <1>1, <1>7, <2>1, <2>2 DEF StartAttempt
<1> QED
  BY <1>3, <1>4, <1>5, <1>6, <1>7 DEF Prepare

\* one more guidance row per audience
LEMMA GuidanceRows ==
    ASSUME NEW rows \in [Audiences -> Nat], NEW audiences
    PROVE  AddGuidance(rows, audiences) \in [Audiences -> Nat]
BY DEF AddGuidance

LEMMA FinalizeTypes ==
    ASSUME TypeInv, NEW w \in Workers, Finalize(w)
    PROVE  TypeInv'
<1> USE DEF TypeInv, TypeOK, BusyHasMessage, Busy, db, local, GoTo, PC
<1> DEFINE m == cur[w]
<1>1. m \in Messages /\ msg[m].status \in MessageStatus /\ pc[w] = "call"
  BY DEF Finalize, FinalizeStale, FinalizeLate, FinalizeDelivered,
         FinalizeBlocked, FinalizeFailure, MaySettle
<1>2. ASSUME NEW s \in OutcomeStatus, NEW t \in MessageStatus, Return(w, s, t)
      PROVE  /\ outcome' \in [Workers -> Outcome]
             /\ pc' \in [Workers -> PC]
             /\ \A v \in Workers : v # w => pc'[v] = pc[v]
             /\ UNCHANGED <<cur, lease, att, copy>>
  <2>1. [status |-> s, message |-> t] \in Outcome
    BY DEF Outcome
  <2> QED
    BY <1>2, <2>1 DEF Return
<1>3. ASSUME NEW s \in AttemptStatus, NEW c \in AttemptCode,
             CloseAttempt(w, s, c), IsStarted(attempts[m], att[w])
      PROVE  attempts' \in [Messages -> Seq(Attempt)]
  <2>1. Close(attempts[m], att[w], s, c) \in Seq(Attempt)
    BY <1>1, <1>3, UpdateAttemptRow DEF IsStarted
  <2> QED
    BY <1>1, <1>3, <2>1 DEF CloseAttempt
<1>4. \A audiences : AddGuidance(guidance[m], audiences) \in [Audiences -> Nat]
  BY <1>1, GuidanceRows
<1>5. CASE FinalizeStale(w)
  BY <1>1, <1>2, <1>5 DEF FinalizeStale, OutcomeStatus
<1>6. CASE FinalizeLate(w)
  <2>1. attempts' \in [Messages -> Seq(Attempt)]
    BY <1>3, <1>6 DEF FinalizeLate, AttemptStatus, AttemptCode
  <2> QED
    BY <1>1, <1>2, <1>6, <2>1 DEF FinalizeLate, OutcomeStatus
<1>7. ASSUME NEW audiences \in SUBSET Audiences, FinalizeDelivered(w, audiences)
      PROVE  TypeInv'
  <2>1. attempts' \in [Messages -> Seq(Attempt)]
    BY <1>3, <1>7
       DEF FinalizeDelivered, MaySettle, AttemptIsCurrent, AttemptStatus, AttemptCode
  <2>2. guidance' \in [Messages -> [Audiences -> Nat]]
    BY <1>4, <1>7 DEF FinalizeDelivered
  <2>3. msg' \in [Messages -> [status : MessageStatus, retries : Nat]]
    BY <1>7 DEF FinalizeDelivered, MessageStatus
  <2> QED
    BY <1>1, <1>2, <1>7, <2>1, <2>2, <2>3
       DEF FinalizeDelivered, OutcomeStatus, MessageStatus
<1>8. ASSUME NEW audiences \in SUBSET Audiences, FinalizeBlocked(w, audiences)
      PROVE  TypeInv'
  <2>1. attempts' \in [Messages -> Seq(Attempt)]
    BY <1>3, <1>8
       DEF FinalizeBlocked, MaySettle, AttemptIsCurrent, AttemptStatus, AttemptCode
  <2>2. guidance' \in [Messages -> [Audiences -> Nat]]
    BY <1>4, <1>8 DEF FinalizeBlocked
  <2>3. msg' \in [Messages -> [status : MessageStatus, retries : Nat]]
    BY <1>8 DEF FinalizeBlocked, MessageStatus
  <2> QED
    BY <1>1, <1>2, <1>8, <2>1, <2>2, <2>3
       DEF FinalizeBlocked, OutcomeStatus, MessageStatus
<1>9. CASE FinalizeFailure(w)
  <2>1. attempts' \in [Messages -> Seq(Attempt)]
    BY <1>3, <1>9
       DEF FinalizeFailure, MaySettle, AttemptIsCurrent, AttemptStatus, AttemptCode
  <2> QED
    BY <1>1, <1>2, <1>9, <2>1 DEF FinalizeFailure, OutcomeStatus, MessageStatus
<1> QED
  BY <1>5, <1>6, <1>7, <1>8, <1>9 DEF Finalize

LEMMA ForgetTypes ==
    ASSUME TypeInv, NEW w \in Workers, Forget(w)
    PROVE  /\ cur' \in [Workers -> Messages \cup {NoMessage}]
           /\ lease' \in [Workers -> Nat]
           /\ att' \in [Workers -> Nat]
           /\ outcome' \in [Workers -> Outcome]
           /\ copy' \in [Workers -> Job]
           /\ \A v \in Workers : v # w => cur'[v] = cur[v]
<1>1. NoOutcome \in Outcome /\ NoJob \in Job
  BY DEF NoOutcome, Outcome, OutcomeStatus, MessageStatus, NoJob, Job,
         JobStatus, NoToken
<1> QED
  BY <1>1 DEF TypeInv, TypeOK, Forget, NoToken

LEMMA FinalizeJobTypes ==
    ASSUME TypeInv, NEW w \in Workers, FinalizeJob(w)
    PROVE  TypeInv'
<1> USE DEF TypeInv, TypeOK, BusyHasMessage, Busy, db, GoTo, PC
<1> DEFINE m == cur[w]
<1>1. m \in Messages
  BY DEF FinalizeJob, ReadJob, WriteJob, KeepJob
<1>2. CASE ReadJob(w)
  <2>1. PICK late \in {FALSE, job[m].expired} :
          copy' = [copy EXCEPT ![w] = [job[m] EXCEPT !.expired = late]]
    BY <1>2 DEF ReadJob
  <2>2. job[m] \in Job /\ job[m].expired \in BOOLEAN
    BY <1>1 DEF Job
  <2>3. [job[m] EXCEPT !.expired = late] \in Job
    BY <2>1, <2>2, Zenon DEF Job
  <2> QED
    BY <1>2, <2>1, <2>3 DEF ReadJob
<1>3. CASE WriteJob(w)
  <2>1. Verdict(outcome[w]) \in TerminalJobStatus
    BY <1>3 DEF WriteJob, OwnsCopy, Verdict, TerminalJobStatus
  <2>2. JobOK(SetTerminal(job[m], Verdict(outcome[w])))
    BY <1>1, <2>1, JobsOK, JobRowsOK
  <2>3. job' \in [Messages -> Job] /\ \A n \in Messages : JobOK(job'[n])
    BY <1>1, <1>3, <2>2, JobsOK DEF WriteJob, JobOK
  <2> QED
    BY <1>3, <2>3, ForgetTypes DEF WriteJob, JobOK
<1>4. CASE KeepJob(w)
  BY <1>4, ForgetTypes DEF KeepJob
<1> QED
  BY <1>2, <1>3, <1>4 DEF FinalizeJob

LEMMA FaultTypes ==
    ASSUME TypeInv, NEW w \in Workers, Fault(w)
    PROVE  TypeInv'
<1> USE DEF TypeInv, TypeOK, BusyHasMessage, Busy, db, GoTo, PC
<1>1. CASE ExecutionError(w)
  BY <1>1, ForgetTypes DEF ExecutionError
<1>2. CASE Crash(w)
  BY <1>2, ForgetTypes DEF Crash
<1>3. CASE Restart(w)
  BY <1>3 DEF Restart, local
<1> QED
  BY <1>1, <1>2, <1>3 DEF Fault

LEMMA TimeTypes ==
    ASSUME TypeInv, NEW m \in Messages, Time(m)
    PROVE  TypeInv'
<1> USE DEF TypeInv, TypeOK, BusyHasMessage, Busy, db, local
<1>1. ASSUME Leased(m), ExpireRow(m)
      PROVE  job' \in [Messages -> Job] /\ \A n \in Messages : JobOK(job'[n])
  <2>1. JobOK([job[m] EXCEPT !.expired = TRUE])
    BY <1>1, JobsOK, JobRowsOK DEF Leased
  <2> QED
    BY <1>1, <2>1, JobsOK DEF ExpireRow, JobOK
<1>2. CASE LeaseExpires(m)
  BY <1>1, <1>2 DEF LeaseExpires, JobOK
<1>3. CASE LeaseExpiresEarly(m)
  BY <1>1, <1>3 DEF LeaseExpiresEarly, JobOK
<1>4. CASE AttemptAges(m)
  <2> DEFINE n == Len(attempts[m])
  <2>1. n \in 1..Len(attempts[m])
    BY <1>4 DEF AttemptAges, LatestStarted, IsStarted
  <2>2. Age(attempts[m], n) \in Seq(Attempt)
    <3>1. "started" \in AttemptStatus /\ "none" \in AttemptCode
      BY DEF AttemptStatus, AttemptCode
    <3> QED
      BY <2>1, <3>1, UpdateAttemptRow
  <2> QED
    BY <1>4, <2>2 DEF AttemptAges
<1> QED
  BY <1>2, <1>3, <1>4 DEF Time

LEMMA DirectTypes ==
    ASSUME TypeInv, NEW m \in Messages, Direct(m)
    PROVE  TypeInv'
<1> USE DEF TypeInv, TypeOK, BusyHasMessage, Busy, db, local, MessageStatus
<1>1. ASSUME NEW audiences \in SUBSET Audiences, DirectDelivered(m, audiences)
      PROVE  TypeInv'
  <2>1. AddGuidance(guidance[m], audiences) \in [Audiences -> Nat]
    BY GuidanceRows
  <2> QED
    BY <1>1, <2>1 DEF DirectDelivered
<1>2. ASSUME NEW s \in {"failed", "blocked"}, DirectSettled(m, s) PROVE TypeInv'
  BY <1>2 DEF DirectSettled
<1>3. CASE DirectRetry(m)
  <2>1. JobOK(Reactivate(job[m]))
    BY JobsOK, JobRowsOK
  <2>2. job' \in [Messages -> Job] /\ \A n \in Messages : JobOK(job'[n])
    BY <1>3, <2>1, JobsOK DEF DirectRetry, Requeue, JobOK
  <2>3. msg' \in [Messages -> [status : MessageStatus, retries : Nat]]
    <3>1. msg[m].retries + 1 \in Nat
      OBVIOUS
    <3> QED
      BY <1>3, <3>1 DEF DirectRetry, Requeue
  <2> QED
    BY <1>3, <2>2, <2>3 DEF DirectRetry, JobOK
<1> QED
  BY <1>1, <1>2, <1>3 DEF Direct

LEMMA NextTypes == TypeInv /\ [Next]_vars => TypeInv'
<1> SUFFICES ASSUME TypeInv, [Next]_vars PROVE TypeInv'
  OBVIOUS
<1>1. CASE EndConversation
  BY <1>1 DEF EndConversation, TypeInv, TypeOK, BusyHasMessage, Busy, local
<1>2. CASE UNCHANGED vars
  BY <1>2 DEF vars, TypeInv, TypeOK, BusyHasMessage, Busy
<1>3. ASSUME NEW w \in Workers, Work(w) PROVE TypeInv'
  BY <1>3, QueueTypes, PrepareTypes, FinalizeTypes, FinalizeJobTypes DEF Work
<1> QED
  BY <1>1, <1>2, <1>3, HttpTypes, FaultTypes, TimeTypes, DirectTypes DEF Next

LEMMA TypesHold == Spec => []TypeInv
BY InitTypes, NextTypes, PTL DEF Spec

\* Every reachable state is well typed, and every job row satisfies the
\* lease check constraint of its table (models/mediation_job.py).
THEOREM TypeCorrect == Spec => []TypeOK
<1>1. TypeInv => TypeOK
  BY DEF TypeInv
<1> QED
  BY <1>1, TypesHold, PTL

----------------------------------------------------------------------------
(* Refinement: every step is a step of the contract or a stutter of it     *)

ContractStep == [Contract!Next]_(Contract!contractVars)

\* a step that touches neither messages, deliveries nor guidance
LEMMA StutterStep ==
    UNCHANGED <<msg, deliveries, guidance>> => ContractStep
BY DEF ContractStep, Contract!contractVars

LEMMA ContractMoves ==
    ASSUME NEW m \in Messages,
           \/ Contract!Accept(m)
           \/ \E sides \in SUBSET Contract!Sides :
                 Contract!Deliver(m, sides) \/ Contract!Block(m, sides)
           \/ Contract!Fail(m)
           \/ Contract!TryAgain(m)
    PROVE  ContractStep
BY DEF ContractStep, Contract!Next

\* the two ways a message row changes, seen by the contract
LEMMA StatusStep ==
    ASSUME TypeOK, NEW m \in Messages, NEW s \in MessageStatus,
           msg' = [msg EXCEPT ![m].status = s]
    PROVE  /\ [n \in Messages |-> msg'[n].status] =
                [[n \in Messages |-> msg[n].status] EXCEPT ![m] = s]
           /\ [n \in Messages |-> msg'[n].retries] =
                [n \in Messages |-> msg[n].retries]
BY DEF TypeOK

LEMMA RequeueStep ==
    ASSUME TypeOK, NEW m \in Messages, Requeue(m)
    PROVE  /\ [n \in Messages |-> msg'[n].status] =
                [[n \in Messages |-> msg[n].status] EXCEPT ![m] = "processing"]
           /\ [n \in Messages |-> msg'[n].retries] =
                [[n \in Messages |-> msg[n].retries] EXCEPT ![m] = @ + 1]
BY DEF TypeOK, Requeue

LEMMA HttpImplements ==
    ASSUME TypeInv, NEW r \in Requests, Http(r)
    PROVE  ContractStep
<1> DEFINE m == request[r].message
<1>1. request[r].op # "none" => m \in Messages
  BY DEF TypeInv, TypeOK, Request, Idle
<1>2. CASE SendCommit(r)
  <2>1. PICK n \in Messages : n = m
    BY <1>1, <1>2 DEF SendCommit
  <2>2. Contract!Accept(n)
    BY <1>2, <2>1, StatusStep
       DEF TypeInv, SendCommit, NotYetSent, Contract!Accept, MessageStatus
  <2> QED
    BY <2>2, ContractMoves
<1>3. CASE RetryCommit(r)
  <2>1. PICK n \in Messages : n = m
    BY <1>1, <1>3 DEF RetryCommit
  <2>2. Contract!TryAgain(n)
    BY <1>3, <2>1, RequeueStep
       DEF TypeInv, RetryCommit, Retryable, Contract!TryAgain
  <2> QED
    BY <2>2, ContractMoves
<1>4. CASE \/ \E n \in Messages : SendCheck(r, n) \/ RetryCheck(r, n)
           \/ SendDuplicate(r) \/ RetryRefused(r)
  BY <1>4, StutterStep DEF SendCheck, RetryCheck, SendDuplicate, RetryRefused, db
<1> QED
  BY <1>2, <1>3, <1>4 DEF Http

LEMMA FinalizeImplements ==
    ASSUME TypeInv, NEW w \in Workers, Finalize(w)
    PROVE  ContractStep
<1>1. PICK m \in Messages : m = cur[w]
  BY DEF TypeInv, BusyHasMessage, Busy, Finalize, FinalizeStale, FinalizeLate,
         FinalizeDelivered, FinalizeBlocked, FinalizeFailure, MaySettle
<1>2. CASE FinalizeStale(w) \/ FinalizeLate(w)
  BY <1>2, StutterStep DEF FinalizeStale, FinalizeLate, db
<1>3. ASSUME NEW audiences \in SUBSET Audiences, FinalizeDelivered(w, audiences)
      PROVE  ContractStep
  <2>1. Contract!Deliver(m, audiences)
    BY <1>1, <1>3, StatusStep
       DEF TypeInv, FinalizeDelivered, MaySettle, MessageStatus, AddGuidance,
           Audiences, Contract!Deliver, Contract!Advised, Contract!Sides
  <2> QED
    BY <2>1, ContractMoves DEF Contract!Sides, Audiences
<1>4. ASSUME NEW audiences \in SUBSET Audiences, FinalizeBlocked(w, audiences)
      PROVE  ContractStep
  <2>1. Contract!Block(m, audiences)
    BY <1>1, <1>4, StatusStep
       DEF TypeInv, FinalizeBlocked, MaySettle, MessageStatus, AddGuidance,
           Audiences, Contract!Block, Contract!Advised, Contract!Sides
  <2> QED
    BY <2>1, ContractMoves DEF Contract!Sides, Audiences
<1>5. CASE FinalizeFailure(w)
  <2>1. Contract!Fail(m)
    BY <1>1, <1>5, StatusStep
       DEF TypeInv, FinalizeFailure, MaySettle, MessageStatus, Contract!Fail
  <2> QED
    BY <2>1, ContractMoves
<1> QED
  BY <1>2, <1>3, <1>4, <1>5 DEF Finalize

LEMMA DirectImplements ==
    ASSUME TypeInv, NEW m \in Messages, Direct(m)
    PROVE  ContractStep
<1>1. ASSUME NEW audiences \in SUBSET Audiences, DirectDelivered(m, audiences)
      PROVE  ContractStep
  <2>1. Contract!Deliver(m, audiences)
    BY <1>1, StatusStep
       DEF TypeInv, DirectDelivered, MessageStatus, AddGuidance,
           Audiences, Contract!Deliver, Contract!Advised, Contract!Sides
  <2> QED
    BY <2>1, ContractMoves DEF Contract!Sides, Audiences
<1>2. CASE DirectSettled(m, "failed")
  <2>1. Contract!Fail(m)
    BY <1>2, StatusStep DEF TypeInv, DirectSettled, MessageStatus, Contract!Fail
  <2> QED
    BY <2>1, ContractMoves
<1>3. CASE DirectSettled(m, "blocked")
  <2>1. Contract!Advised(guidance[m], {}) = guidance[m]
    BY DEF TypeInv, TypeOK, Contract!Advised, Contract!Sides, Audiences
  <2>2. Contract!Block(m, {})
    BY <1>3, <2>1, StatusStep
       DEF TypeInv, TypeOK, DirectSettled, MessageStatus, Contract!Block
  <2> QED
    BY <2>2, ContractMoves
<1>4. CASE DirectRetry(m)
  <2>1. Contract!TryAgain(m)
    BY <1>4, RequeueStep DEF TypeInv, DirectRetry, Retryable, Contract!TryAgain
  <2> QED
    BY <2>1, ContractMoves
<1> QED
  BY <1>1, <1>2, <1>3, <1>4 DEF Direct

LEMMA StepImplements == TypeInv /\ [Next]_vars => ContractStep
<1> SUFFICES ASSUME TypeInv, [Next]_vars PROVE ContractStep
  OBVIOUS
<1>1. ASSUME NEW w \in Workers, Work(w) \/ Fault(w) PROVE ContractStep
  <2>1. CASE Finalize(w)
    BY <2>1, FinalizeImplements
  <2>2. CASE Prepare(w)
    BY <2>2, StutterStep
       DEF Prepare, PrepareStale, PrepareFinal, PrepareRefused, PrepareBusy,
           StartAttempt, db
  <2>3. CASE FinalizeJob(w) \/ Fault(w)
    BY <2>3, StutterStep
       DEF FinalizeJob, ReadJob, WriteJob, KeepJob, Fault, ExecutionError,
           Crash, Restart, db
  <2>4. CASE \/ \E batch \in SUBSET Messages : Recover(w, batch)
             \/ \E m \in Messages : ClaimJob(w, m)
             \/ ClaimNothing(w)
    BY <2>4, StutterStep DEF Recover, ClaimJob, ClaimNothing, db
  <2> QED
    BY <1>1, <2>1, <2>2, <2>3, <2>4 DEF Work
<1>2. ASSUME NEW m \in Messages, Time(m) PROVE ContractStep
  BY <1>2, StutterStep DEF Time, LeaseExpires, LeaseExpiresEarly, AttemptAges
<1>3. CASE EndConversation \/ UNCHANGED vars
  BY <1>3, StutterStep DEF EndConversation, vars
<1> QED
  BY <1>1, <1>2, <1>3, HttpImplements, DirectImplements DEF Next

\* The detailed system implements the contract its participants see: leases,
\* crashes, recoveries and late answers are invisible to them.
THEOREM SystemImplementsContract == Spec => ImplementsContract
<1>1. Init => Contract!Init
  BY DEF Init, Contract!Init, Audiences, Contract!Sides
<1>2. TypeInv /\ [Next]_vars => [Contract!Next]_(Contract!contractVars)
  BY StepImplements DEF ContractStep
<1> QED
  BY <1>1, <1>2, TypesHold, PTL DEF Spec, ImplementsContract, Contract!Spec

----------------------------------------------------------------------------
(* Consequences of the refinement: what the contract alone implies         *)

\* nothing the participants see of m changes besides its status
SameRows(m) ==
    /\ m \in deliveries' <=> m \in deliveries
    /\ guidance'[m] = guidance[m]

Move(m, from, to) ==
    /\ msg[m].status = from
    /\ msg'[m].status = to
    /\ msg'[m].retries = msg[m].retries + (IF from = "failed" THEN 1 ELSE 0)

LEMMA MovesOfOneMessage ==
    ASSUME TypeOK, TypeOK', ContractStep, NEW m \in Messages
    PROVE  \/ msg'[m] = msg[m] /\ SameRows(m)
           \/ Move(m, "absent", "processing") /\ SameRows(m)
           \/ /\ Move(m, "processing", "delivered")
              /\ m \in deliveries'
              /\ \E audiences \in SUBSET Audiences :
                    guidance'[m] = AddGuidance(guidance[m], audiences)
           \/ /\ Move(m, "processing", "blocked")
              /\ m \in deliveries' <=> m \in deliveries
              /\ \E audiences \in SUBSET {"sender"} :
                    guidance'[m] = AddGuidance(guidance[m], audiences)
           \/ Move(m, "processing", "failed") /\ SameRows(m)
           \/ Move(m, "failed", "processing") /\ SameRows(m)
<1>1. /\ msg[m] \in [status : MessageStatus, retries : Nat]
      /\ msg'[m] \in [status : MessageStatus, retries : Nat]
  BY DEF TypeOK
<1>2. msg'[m].status = msg[m].status /\ msg'[m].retries = msg[m].retries
        => msg'[m] = msg[m]
  BY <1>1
<1>3. CASE UNCHANGED Contract!contractVars
  <2>1. /\ [n \in Messages |-> msg'[n].status] = [n \in Messages |-> msg[n].status]
        /\ [n \in Messages |-> msg'[n].retries] = [n \in Messages |-> msg[n].retries]
        /\ UNCHANGED <<deliveries, guidance>>
    BY <1>3 DEF Contract!contractVars
  <2>2. msg'[m].status = msg[m].status /\ msg'[m].retries = msg[m].retries
    BY <2>1
  <2> QED
    BY <1>2, <2>1, <2>2 DEF SameRows
<1>4. CASE Contract!Next
  <2>1. PICK n \in Messages :
          \/ Contract!Accept(n)
          \/ \E sides \in SUBSET Contract!Sides :
                Contract!Deliver(n, sides) \/ Contract!Block(n, sides)
          \/ Contract!Fail(n)
          \/ Contract!TryAgain(n)
    BY <1>4 DEF Contract!Next
  <2>2. CASE n # m
    <3>1. msg'[m].status = msg[m].status
      <4>1. \E s : [k \in Messages |-> msg'[k].status] =
                     [[k \in Messages |-> msg[k].status] EXCEPT ![n] = s]
        BY <2>1 DEF Contract!Accept, Contract!Deliver, Contract!Block,
                    Contract!Fail, Contract!TryAgain
      <4> QED
        BY <2>2, <4>1
    <3>2. msg'[m].retries = msg[m].retries
      <4>1. \/ [k \in Messages |-> msg'[k].retries] =
                  [k \in Messages |-> msg[k].retries]
            \/ \E s : [k \in Messages |-> msg'[k].retries] =
                        [[k \in Messages |-> msg[k].retries] EXCEPT ![n] = s]
        BY <2>1 DEF Contract!Accept, Contract!Deliver, Contract!Block,
                    Contract!Fail, Contract!TryAgain
      <4> QED
        BY <2>2, <4>1
    <3>3. SameRows(m)
      BY <2>1, <2>2
         DEF Contract!Accept, Contract!Deliver, Contract!Block, Contract!Fail,
             Contract!TryAgain, SameRows, TypeOK
    <3> QED
      BY <1>2, <3>1, <3>2, <3>3
  <2>3. CASE n = m
    <3>1. CASE Contract!Accept(m)
      BY <1>1, <3>1 DEF Contract!Accept, SameRows, Move
    <3>2. ASSUME NEW sides \in SUBSET Contract!Sides, Contract!Deliver(m, sides)
          PROVE  /\ Move(m, "processing", "delivered")
                 /\ m \in deliveries'
                 /\ guidance'[m] = AddGuidance(guidance[m], sides)
                 /\ sides \in SUBSET Audiences
      BY <3>2 DEF Contract!Deliver, Contract!Sides, Contract!Advised,
                  AddGuidance, Audiences, Move, TypeOK
    <3>3. ASSUME NEW sides \in SUBSET Contract!Sides, Contract!Block(m, sides)
          PROVE  /\ Move(m, "processing", "blocked")
                 /\ m \in deliveries' <=> m \in deliveries
                 /\ guidance'[m] = AddGuidance(guidance[m], sides)
                 /\ sides \in SUBSET {"sender"}
      BY <3>3 DEF Contract!Block, Contract!Sides, Contract!Advised,
                  AddGuidance, Audiences, Move, TypeOK
    <3>4. CASE Contract!Fail(m)
      BY <1>1, <3>4 DEF Contract!Fail, SameRows, Move
    <3>5. CASE Contract!TryAgain(m)
      <4>1. /\ msg[m].status = "failed" /\ msg'[m].status = "processing"
            /\ SameRows(m)
        BY <3>5 DEF Contract!TryAgain, SameRows
      <4>2. [k \in Messages |-> msg'[k].retries][m] = msg[m].retries + 1
        BY <3>5 DEF Contract!TryAgain
      <4> QED
        BY <4>1, <4>2 DEF Move
    <3> QED
      BY <2>1, <2>3, <3>1, <3>2, <3>3, <3>4, <3>5
  <2> QED
    BY <2>2, <2>3
<1> QED
  BY <1>3, <1>4 DEF ContractStep

LEMMA MovesHold ==
    ASSUME TypeInv, [Next]_vars
    PROVE  TypeOK /\ TypeOK' /\ ContractStep
BY NextTypes, StepImplements DEF TypeInv

\* A delivered or blocked message never changes again, for any number of
\* workers, retries and faults.
THEOREM SettledIsFinal == Spec => SettledMessageIsFinal
<1>1. TypeInv /\ [Next]_vars =>
        [\A m \in Messages : msg[m].status \in Final => msg'[m] = msg[m]]_vars
  <2> SUFFICES ASSUME TypeInv, [Next]_vars, NEW m \in Messages,
                      msg[m].status \in Final
               PROVE  msg'[m] = msg[m]
    OBVIOUS
  <2> QED
    BY MovesHold, MovesOfOneMessage DEF Move, Final
<1> QED
  BY <1>1, TypesHold, PTL DEF Spec, SettledMessageIsFinal

\* The delivery row, the guidance rows and the status of a message agree in
\* every reachable state.
THEOREM DeliveryAgrees == Spec => []DeliveryAgreesWithMessage
<1>1. Init => DeliveryAgreesWithMessage
  BY DEF Init, DeliveryAgreesWithMessage, Audiences, Final
<1>2. TypeInv /\ DeliveryAgreesWithMessage /\ [Next]_vars
        => DeliveryAgreesWithMessage'
  <2> SUFFICES ASSUME TypeInv, DeliveryAgreesWithMessage, [Next]_vars,
                      NEW m \in Messages
               PROVE  /\ m \in deliveries' <=> msg'[m].status = "delivered"
                      /\ guidance'[m]["recipient"] > 0
                            => msg'[m].status = "delivered"
                      /\ guidance'[m]["sender"] > 0 => msg'[m].status \in Final
                      /\ \A a \in Audiences : guidance'[m][a] <= 1
    BY DEF DeliveryAgreesWithMessage
  <2>1. /\ guidance[m] \in [Audiences -> Nat]
        /\ m \in deliveries <=> msg[m].status = "delivered"
        /\ guidance[m]["recipient"] > 0 => msg[m].status = "delivered"
        /\ guidance[m]["sender"] > 0 => msg[m].status \in Final
        /\ \A a \in Audiences : guidance[m][a] <= 1
    BY DEF DeliveryAgreesWithMessage, TypeInv, TypeOK
  <2>2. CASE msg'[m] = msg[m] /\ SameRows(m)
    BY <2>1, <2>2 DEF SameRows
  <2>3. CASE \/ Move(m, "absent", "processing") /\ SameRows(m)
             \/ Move(m, "processing", "failed") /\ SameRows(m)
             \/ Move(m, "failed", "processing") /\ SameRows(m)
    BY <2>1, <2>3 DEF SameRows, Move, Final, Audiences
  <2>4. ASSUME NEW audiences, Move(m, "processing", "delivered"),
               m \in deliveries',
               guidance'[m] = AddGuidance(guidance[m], audiences)
        PROVE  /\ m \in deliveries' <=> msg'[m].status = "delivered"
               /\ msg'[m].status = "delivered"
               /\ \A a \in Audiences : guidance'[m][a] <= 1
    BY <2>1, <2>4 DEF Move, AddGuidance, Audiences, Final
  <2>5. ASSUME NEW audiences \in SUBSET {"sender"},
               Move(m, "processing", "blocked"),
               m \in deliveries' <=> m \in deliveries,
               guidance'[m] = AddGuidance(guidance[m], audiences)
        PROVE  /\ m \notin deliveries'
               /\ msg'[m].status = "blocked"
               /\ ~(guidance'[m]["recipient"] > 0)
               /\ \A a \in Audiences : guidance'[m][a] <= 1
    BY <2>1, <2>5 DEF Move, AddGuidance, Audiences, Final
  <2> QED
    BY <2>2, <2>3, <2>4, <2>5, MovesHold, MovesOfOneMessage DEF Final
<1> QED
  BY <1>1, <1>2, TypesHold, PTL DEF Spec

----------------------------------------------------------------------------
(* Only the latest attempt may be running                                  *)

OnlyLatestStarted(rows) ==
    \A i \in 1..Len(rows) : rows[i].status = "started" => i = Len(rows)

LEMMA AttemptUpdates ==
    ASSUME NEW rows \in Seq(Attempt), OnlyLatestStarted(rows)
    PROVE  /\ \A t \in Nat : ~LatestStarted(rows) =>
                 OnlyLatestStarted(AddAttempt(rows, t))
           /\ \A i \in 1..Len(rows), s \in AttemptStatus \ {"started"},
                 c \in AttemptCode : OnlyLatestStarted(Close(rows, i, s, c))
           /\ \A i \in 1..Len(rows) : OnlyLatestStarted(Age(rows, i))
<1>1. ASSUME NEW t \in Nat, ~LatestStarted(rows)
      PROVE  OnlyLatestStarted(AddAttempt(rows, t))
  <2>1. ASSUME NEW i \in 1..(Len(rows) + 1), i # Len(rows) + 1
        PROVE  AddAttempt(rows, t)[i].status # "started"
    <3>1. i \in 1..Len(rows)
      BY <2>1
    <3>2. rows[i].status # "started"
      BY <1>1, <3>1 DEF OnlyLatestStarted, LatestStarted, IsStarted
    <3> QED
      BY <3>1, <3>2, AddAttemptRow
  <2> QED
    BY <2>1, AddAttemptRow DEF OnlyLatestStarted
<1>2. ASSUME NEW i \in 1..Len(rows), NEW s \in AttemptStatus \ {"started"},
             NEW c \in AttemptCode
      PROVE  OnlyLatestStarted(Close(rows, i, s, c))
  <2> DEFINE closed == Close(rows, i, s, c)
  <2>1. s \in AttemptStatus /\ s # "started"
    OBVIOUS
  <2>2. Len(closed) = Len(rows) /\ closed[i].status = s
    BY <2>1, UpdateAttemptRow
  <2>3. \A k \in 1..Len(rows) : k # i => closed[k] = rows[k]
    BY <2>1, UpdateAttemptRow
  <2>4. ASSUME NEW k \in 1..Len(closed), closed[k].status = "started"
        PROVE  k = Len(closed)
    <3>1. k # i
      BY <2>1, <2>2, <2>4
    <3>2. k \in 1..Len(rows) /\ rows[k].status = "started"
      BY <2>2, <2>3, <2>4, <3>1
    <3> QED
      BY <2>2, <3>2 DEF OnlyLatestStarted
  <2> QED
    BY <2>4 DEF OnlyLatestStarted
<1>3. ASSUME NEW i \in 1..Len(rows)
      PROVE  OnlyLatestStarted(Age(rows, i))
  <2>1. "started" \in AttemptStatus /\ "none" \in AttemptCode
    BY DEF AttemptStatus, AttemptCode
  <2> QED
    BY <2>1, UpdateAttemptRow DEF OnlyLatestStarted
<1> QED
  BY <1>1, <1>2, <1>3

LEMMA SingleStartedStep ==
    TypeInv /\ SingleStartedAttempt /\ [Next]_vars => SingleStartedAttempt'
<1> SUFFICES ASSUME TypeInv, SingleStartedAttempt, [Next]_vars
             PROVE  \A m \in Messages : OnlyLatestStarted(attempts'[m])
  BY DEF SingleStartedAttempt, OnlyLatestStarted
<1>1. \A m \in Messages :
        attempts[m] \in Seq(Attempt) /\ OnlyLatestStarted(attempts[m])
  BY DEF SingleStartedAttempt, OnlyLatestStarted, TypeInv, TypeOK
<1>2. CASE UNCHANGED attempts
  BY <1>1, <1>2
<1>3. \A s \in {"completed", "failed", "rejected"} :
        s \in AttemptStatus \ {"started"}
  BY DEF AttemptStatus
<1>4. {"none", "AI_FAILED", "AI_BLOCKED", "STALE_ATTEMPT", "WORKER_LEASE_EXPIRED"}
        \subseteq AttemptCode
  BY DEF AttemptCode
<1>5. ASSUME NEW w \in Workers, StartAttempt(w)
      PROVE  \A m \in Messages : OnlyLatestStarted(attempts'[m])
  <2>1. cur[w] \in Messages /\ lease[w] \in Nat
    BY <1>5 DEF StartAttempt, TypeInv, TypeOK, BusyHasMessage, Busy
  <2>2. OnlyLatestStarted(AddAttempt(attempts[cur[w]], lease[w]))
    BY <1>1, <1>5, <2>1, AttemptUpdates DEF StartAttempt
  <2> QED
    BY <1>1, <1>5, <2>1, <2>2 DEF StartAttempt, TypeInv, TypeOK
<1>6. ASSUME NEW w \in Workers, NEW s \in {"completed", "failed", "rejected"},
             NEW c \in AttemptCode, IsStarted(attempts[cur[w]], att[w]),
             CloseAttempt(w, s, c), pc[w] = "call"
      PROVE  \A m \in Messages : OnlyLatestStarted(attempts'[m])
  <2>1. cur[w] \in Messages /\ att[w] \in 1..Len(attempts[cur[w]])
    BY <1>6 DEF TypeInv, TypeOK, BusyHasMessage, Busy, IsStarted
  <2>2. OnlyLatestStarted(Close(attempts[cur[w]], att[w], s, c))
    BY <1>1, <1>3, <2>1, AttemptUpdates
  <2> QED
    BY <1>1, <1>6, <2>1, <2>2 DEF CloseAttempt, TypeInv, TypeOK
<1>7. ASSUME NEW w \in Workers, Finalize(w)
      PROVE  \A m \in Messages : OnlyLatestStarted(attempts'[m])
  <2>1. CASE FinalizeStale(w)
    BY <1>2, <2>1 DEF FinalizeStale, db
  <2>2. CASE FinalizeLate(w)
    BY <1>2, <1>4, <1>6, <2>2 DEF FinalizeLate
  <2>3. ASSUME NEW a \in SUBSET Audiences,
               FinalizeDelivered(w, a) \/ FinalizeBlocked(w, a)
        PROVE  \A m \in Messages : OnlyLatestStarted(attempts'[m])
    BY <1>4, <1>6, <2>3
       DEF FinalizeDelivered, FinalizeBlocked, MaySettle, AttemptIsCurrent
  <2>4. CASE FinalizeFailure(w)
    BY <1>4, <1>6, <2>4 DEF FinalizeFailure, MaySettle, AttemptIsCurrent
  <2> QED
    BY <1>7, <2>1, <2>2, <2>3, <2>4 DEF Finalize
<1>8. ASSUME NEW w \in Workers, NEW batch \in SUBSET Messages, Recover(w, batch)
      PROVE  \A m \in Messages : OnlyLatestStarted(attempts'[m])
  <2> SUFFICES ASSUME NEW m \in Messages PROVE OnlyLatestStarted(attempts'[m])
    OBVIOUS
  <2>1. attempts'[m] \in {attempts[m], RecoveredAttempts(m)}
    BY <1>8 DEF Recover
  <2>2. CASE Abandoned(m)
    <3>1. Len(attempts[m]) \in 1..Len(attempts[m])
      BY <2>2 DEF Abandoned, LatestStarted, IsStarted
    <3> QED
      BY <1>1, <1>3, <1>4, <2>1, <2>2, <3>1, AttemptUpdates DEF RecoveredAttempts
  <2> QED
    BY <1>1, <2>1, <2>2 DEF RecoveredAttempts
<1>9. ASSUME NEW m \in Messages, Time(m)
      PROVE  \A n \in Messages : OnlyLatestStarted(attempts'[n])
  <2>1. CASE AttemptAges(m)
    <3>1. Len(attempts[m]) \in 1..Len(attempts[m])
      BY <2>1 DEF AttemptAges, LatestStarted, IsStarted
    <3>2. OnlyLatestStarted(Age(attempts[m], Len(attempts[m])))
      BY <1>1, <3>1, AttemptUpdates
    <3> QED
      BY <1>1, <2>1, <3>2 DEF AttemptAges, TypeInv, TypeOK
  <2> QED
    BY <1>2, <1>9, <2>1 DEF Time, LeaseExpires, LeaseExpiresEarly
<1>10. ASSUME NEW w \in Workers, Work(w) \/ Fault(w)
       PROVE  \A m \in Messages : OnlyLatestStarted(attempts'[m])
  <2>1. CASE Prepare(w)
    BY <1>2, <1>5, <2>1
       DEF Prepare, PrepareStale, PrepareFinal, PrepareRefused, PrepareBusy, db
  <2>2. CASE FinalizeJob(w) \/ Fault(w)
    BY <1>2, <2>2 DEF FinalizeJob, ReadJob, WriteJob, KeepJob, Fault,
                      ExecutionError, Crash, Restart, db
  <2>3. CASE (\E m \in Messages : ClaimJob(w, m)) \/ ClaimNothing(w)
    BY <1>2, <2>3 DEF ClaimJob, ClaimNothing, db
  <2> QED
    BY <1>7, <1>8, <1>10, <2>1, <2>2, <2>3 DEF Work
<1>11. ASSUME NEW r \in Requests, Http(r) PROVE UNCHANGED attempts
  BY <1>11 DEF Http, SendCheck, SendCommit, SendDuplicate, RetryCheck,
               RetryCommit, RetryRefused, db
<1>12. ASSUME NEW m \in Messages, Direct(m) PROVE UNCHANGED attempts
  BY <1>12 DEF Direct, DirectDelivered, DirectSettled, DirectRetry
<1>13. CASE EndConversation \/ UNCHANGED vars
  BY <1>2, <1>13 DEF EndConversation, vars
<1> QED
  BY <1>2, <1>9, <1>10, <1>11, <1>12, <1>13 DEF Next

\* A late answer can never be taken for that of a newer attempt, because a
\* newer attempt only starts when no older one is still running.
THEOREM SingleStarted == Spec => []SingleStartedAttempt
<1>1. Init => SingleStartedAttempt
  BY DEF Init, SingleStartedAttempt
<1> QED
  BY <1>1, SingleStartedStep, TypesHold, PTL DEF Spec

----------------------------------------------------------------------------
(* A message that was never retried keeps a job that will run.  The worker *)
(* closes a job on the copy it read, without looking at the message again; *)
(* what makes this safe before the first retry is that the outcome it acts *)
(* on settled the message, and only a retry reopens a settled message.     *)

SettledOrRetried(m) ==
    \/ msg[m].status \in Settled
    \/ msg[m].status = "processing" /\ msg[m].retries > 0

AbsentHasNoJob ==
    \A m \in Messages : msg[m].status = "absent" => job[m].status = "none"

VerdictIsSettled ==
    \A w \in Workers :
        pc[w] \in {"read", "write"} /\ Verdict(outcome[w]) # "none" =>
            SettledOrRetried(cur[w])

StrandedInv ==
    /\ DeliveryAgreesWithMessage
    /\ AbsentHasNoJob
    /\ VerdictIsSettled
    /\ StrandedOnlyAfterRetry

LEMMA SettledOrRetriedStays ==
    ASSUME TypeInv, [Next]_vars, NEW m \in Messages, SettledOrRetried(m)
    PROVE  SettledOrRetried(m)'
<1>1. msg[m].retries \in Nat
  BY DEF TypeInv, TypeOK
<1> QED
  BY <1>1, MovesHold, MovesOfOneMessage DEF SettledOrRetried, Move, Settled

\* a job status only moves in these ways
LEMMA JobMoves ==
    ASSUME TypeInv, StrandedInv, [Next]_vars, NEW m \in Messages
    PROVE  \/ job'[m].status = job[m].status
           \/ job'[m].status = "queued" /\ msg'[m].status # "absent"
           \/ /\ job'[m].status = "leased" /\ job[m].status = "queued"
              /\ UNCHANGED msg
           \/ SettledOrRetried(m) /\ UNCHANGED msg /\ job[m].status = "leased"
           \/ SettledOrRetried(m) /\ UNCHANGED msg /\ \E w \in Workers :
                 pc[w] = "write" /\ cur[w] = m
<1> DEFINE Goal ==
           \/ job'[m].status = job[m].status
           \/ job'[m].status = "queued" /\ msg'[m].status # "absent"
           \/ /\ job'[m].status = "leased" /\ job[m].status = "queued"
              /\ UNCHANGED msg
           \/ SettledOrRetried(m) /\ UNCHANGED msg /\ job[m].status = "leased"
           \/ SettledOrRetried(m) /\ UNCHANGED msg /\ \E w \in Workers :
                 pc[w] = "write" /\ cur[w] = m
<1>1. job \in [Messages -> Job] /\ msg \in [Messages -> [status : MessageStatus, retries : Nat]]
  BY DEF TypeInv, TypeOK
<1>2. CASE UNCHANGED job
  BY <1>2
<1>3. ASSUME NEW r \in Requests, Http(r) PROVE Goal
  <2>1. CASE SendCommit(r)
    <3>1. \A j : EnsureJob(j).status = "queued" \/ EnsureJob(j) = j
      BY DEF EnsureJob, SetQueued, NoJob
    <3> QED
      BY <1>1, <2>1, <3>1 DEF SendCommit
  <2>2. CASE RetryCommit(r)
    <3>1. Reactivate(job[m]).status = "queued"
      BY <1>1 DEF Reactivate, EnsureJob, SetQueued, NoJob, Job
    <3> QED
      BY <1>1, <2>2, <3>1 DEF RetryCommit, Requeue
  <2> QED
    BY <1>2, <1>3, <2>1, <2>2
       DEF Http, SendCheck, RetryCheck, SendDuplicate, RetryRefused, db
<1>4. ASSUME NEW n \in Messages, Direct(n) PROVE Goal
  <2>1. CASE DirectRetry(n)
    <3>1. Reactivate(job[m]).status = "queued"
      BY <1>1 DEF Reactivate, EnsureJob, SetQueued, NoJob, Job
    <3> QED
      BY <1>1, <2>1, <3>1 DEF DirectRetry, Requeue
  <2> QED
    BY <1>2, <1>4, <2>1 DEF Direct, DirectDelivered, DirectSettled
<1>5. ASSUME NEW w \in Workers, NEW batch \in SUBSET Messages, Recover(w, batch)
      PROVE Goal
  <2>1. CASE m \notin batch
    BY <1>1, <1>5, <2>1 DEF Recover
  <2>2. CASE m \in batch /\ Cancellable(m)
    BY <1>5, <2>2 DEF Recover, Expired, LeaseHasExpired, Cancellable,
       SettledOrRetried, StrandedInv, DeliveryAgreesWithMessage, Settled
  <2>3. CASE m \in batch /\ ~Cancellable(m)
    <3>1. job[m].status = "leased"
      BY <1>5, <2>3 DEF Recover, Expired, LeaseHasExpired
    <3>2. msg[m].status # "absent"
      BY <3>1 DEF StrandedInv, AbsentHasNoJob
    <3>3. SetQueued(job[m]).status = "queued"
      BY <1>1 DEF SetQueued, Job
    <3> QED
      BY <1>5, <2>3, <3>2, <3>3 DEF Recover, RecoveredJob
  <2> QED
    BY <2>1, <2>2, <2>3
<1>6. ASSUME NEW w \in Workers, Work(w) \/ Fault(w) PROVE Goal
  <2>1. ASSUME NEW n \in Messages, ClaimJob(w, n) PROVE Goal
    <3>1. Lease(job[n]).status = "leased"
      BY <1>1 DEF Lease, Job
    <3> QED
      BY <1>1, <2>1, <3>1 DEF ClaimJob
  <2>2. CASE WriteJob(w)
    <3>1. CASE cur[w] = m
      BY <2>2, <3>1
         DEF WriteJob, OwnsCopy, StrandedInv, VerdictIsSettled
    <3>2. CASE cur[w] # m
      BY <1>1, <2>2, <3>2 DEF WriteJob
    <3> QED
      BY <3>1, <3>2
  <2>3. CASE \/ ClaimNothing(w) \/ Prepare(w) \/ Finalize(w) \/ Fault(w)
             \/ ReadJob(w) \/ KeepJob(w)
    BY <1>2, <2>3
       DEF ClaimNothing, Prepare, PrepareStale, PrepareFinal, PrepareRefused,
           PrepareBusy, StartAttempt, Finalize, FinalizeStale, FinalizeLate,
           FinalizeDelivered, FinalizeBlocked, FinalizeFailure, ReadJob,
           KeepJob, Fault, ExecutionError, Crash, Restart, db
  <2> QED
    BY <1>5, <1>6, <2>1, <2>2, <2>3 DEF Work, FinalizeJob
<1>7. ASSUME NEW n \in Messages, Time(n) PROVE Goal
  <2>1. CASE ExpireRow(n)
    BY <1>1, <2>1 DEF ExpireRow, Job
  <2> QED
    BY <1>2, <1>7, <2>1 DEF Time, LeaseExpires, LeaseExpiresEarly, AttemptAges
<1>8. CASE EndConversation \/ UNCHANGED vars
  BY <1>2, <1>8 DEF EndConversation, vars
<1> QED
  BY <1>3, <1>4, <1>6, <1>7, <1>8 DEF Next

\* only a send makes a message appear, and it inserts the job with it
LEMMA AppearsWithJob ==
    ASSUME TypeInv, AbsentHasNoJob, [Next]_vars, NEW m \in Messages,
           msg[m].status = "absent", msg'[m].status = "processing"
    PROVE  job'[m].status = "queued"
<1>1. /\ job \in [Messages -> Job]
      /\ msg \in [Messages -> [status : MessageStatus, retries : Nat]]
      /\ job[m].status = "none"
  BY DEF TypeInv, TypeOK, AbsentHasNoJob
<1>2. ~UNCHANGED msg
  OBVIOUS
<1>3. ASSUME NEW r \in Requests, Http(r) PROVE job'[m].status = "queued"
  <2>1. CASE SendCommit(r)
    <3>1. EnsureJob(job[m]).status = "queued"
      BY <1>1 DEF EnsureJob, SetQueued, NoJob
    <3> QED
      BY <1>1, <2>1, <3>1 DEF SendCommit
  <2> QED
    BY <1>1, <1>2, <1>3, <2>1
       DEF Http, SendCheck, RetryCheck, SendDuplicate, RetryRefused,
           RetryCommit, Requeue, Retryable, db
<1>4. ASSUME NEW n \in Messages, Direct(n) PROVE FALSE
  BY <1>1, <1>4
     DEF Direct, DirectDelivered, DirectSettled, DirectRetry, Requeue, Retryable
<1>5. ASSUME NEW w \in Workers, Work(w) \/ Fault(w) PROVE FALSE
  <2>1. CASE Finalize(w)
    BY <1>1, <1>2, <2>1
       DEF Finalize, FinalizeStale, FinalizeLate, FinalizeDelivered,
           FinalizeBlocked, FinalizeFailure, MaySettle, db
  <2>2. CASE Prepare(w)
    BY <1>2, <2>2 DEF Prepare, PrepareStale, PrepareFinal, PrepareRefused,
                      PrepareBusy, StartAttempt, db
  <2> QED
    BY <1>2, <1>5, <2>1, <2>2
       DEF Work, Recover, ClaimJob, ClaimNothing, FinalizeJob, ReadJob,
           WriteJob, KeepJob, Fault, ExecutionError, Crash, Restart, db
<1>6. ASSUME NEW n \in Messages, Time(n) PROVE FALSE
  BY <1>2, <1>6 DEF Time, LeaseExpires, LeaseExpiresEarly, AttemptAges
<1> QED
  BY <1>2, <1>3, <1>4, <1>5, <1>6 DEF Next, EndConversation, vars

\* how a worker comes to _finalize_job, or stays there
VerdictStep(w) ==
    \/ /\ pc[w] \in {"read", "write"}
       /\ outcome'[w] = outcome[w] /\ cur'[w] = cur[w]
    \/ Verdict(outcome'[w]) = "none"
    \/ cur'[w] = cur[w] /\ cur[w] \in Messages /\ SettledOrRetried(cur[w])'

LEMMA WorkerMoves ==
    ASSUME TypeInv, StrandedInv, [Next]_vars, NEW w \in Workers,
           pc'[w] \in {"read", "write"}
    PROVE  VerdictStep(w)
<1>1. /\ pc \in [Workers -> PC] /\ outcome \in [Workers -> Outcome]
      /\ cur \in [Workers -> Messages \cup {NoMessage}]
      /\ msg \in [Messages -> [status : MessageStatus, retries : Nat]]
  BY DEF TypeInv, TypeOK
<1>2. CASE UNCHANGED <<pc, outcome, cur>>
  BY <1>2 DEF VerdictStep
<1>3. ASSUME NEW v \in Workers, v # w, Work(v) \/ Fault(v)
      PROVE  pc'[w] = pc[w] /\ outcome'[w] = outcome[w] /\ cur'[w] = cur[w]
  <2>1. CASE Finalize(v)
    BY <1>1, <1>3, <2>1
       DEF Finalize, FinalizeStale, FinalizeLate, FinalizeDelivered,
           FinalizeBlocked, FinalizeFailure, Return, GoTo
  <2>2. CASE Prepare(v)
    BY <1>1, <1>3, <2>2
       DEF Prepare, PrepareStale, PrepareFinal, PrepareRefused, PrepareBusy,
           StartAttempt, Return, Forget, GoTo
  <2> QED
    BY <1>1, <1>3, <2>1, <2>2
       DEF Work, Recover, ClaimJob, ClaimNothing, FinalizeJob, ReadJob,
           WriteJob, KeepJob, Fault, ExecutionError, Crash, Restart, Forget,
           GoTo, local
<1>4. CASE Prepare(w)
  <2>1. CASE PrepareStale(w) \/ PrepareBusy(w)
    BY <1>1, <2>1 DEF PrepareStale, PrepareBusy, Return, Verdict, VerdictStep
  <2>2. CASE PrepareFinal(w)
    <3>1. cur[w] \in Messages
      BY <2>2 DEF PrepareFinal, TypeInv, BusyHasMessage, Busy
    <3> QED
      BY <2>2, <3>1 DEF PrepareFinal, Return, VerdictStep, SettledOrRetried,
                        Settled, Final, db
  <2>3. CASE PrepareRefused(w) \/ StartAttempt(w)
    BY <1>1, <2>3 DEF PrepareRefused, StartAttempt, GoTo
  <2> QED
    BY <1>4, <2>1, <2>2, <2>3 DEF Prepare
<1>5. CASE Finalize(w)
  <2>1. pc[w] = "call"
    BY <1>5 DEF Finalize, FinalizeStale, FinalizeLate, FinalizeDelivered,
                FinalizeBlocked, FinalizeFailure, MaySettle
  <2>2. cur[w] \in Messages
    BY <2>1 DEF TypeInv, BusyHasMessage, Busy
  <2>3. CASE FinalizeStale(w)
    BY <1>1, <2>3 DEF FinalizeStale, Return, Verdict, VerdictStep
  <2>4. CASE FinalizeLate(w)
    <3>1. msg[cur[w]].status # "absent"
      BY <2>2, <2>4
         DEF FinalizeLate, HoldsLease, HasCurrentLease, StrandedInv, AbsentHasNoJob
    <3>2. CASE msg[cur[w]].status = "processing"
      BY <1>1, <2>4, <3>2 DEF FinalizeLate, Return, Verdict, VerdictStep
    <3>3. CASE msg[cur[w]].status # "processing"
      <4>1. msg[cur[w]].status \in Settled
        BY <1>1, <2>2, <3>1, <3>3 DEF MessageStatus, Settled
      <4> QED
        BY <2>2, <2>4, <4>1
           DEF FinalizeLate, Return, VerdictStep, SettledOrRetried
    <3> QED
      BY <3>2, <3>3
  <2>5. ASSUME NEW a \in SUBSET Audiences,
               \/ FinalizeDelivered(w, a) \/ FinalizeBlocked(w, a)
               \/ FinalizeFailure(w)
        PROVE  VerdictStep(w)
    <3>1. msg'[cur[w]].status \in Settled /\ cur'[w] = cur[w]
      BY <1>1, <2>2, <2>5 DEF FinalizeDelivered, FinalizeBlocked,
                              FinalizeFailure, Return, Settled
    <3> QED
      BY <2>2, <3>1 DEF VerdictStep, SettledOrRetried
  <2> QED
    BY <1>5, <2>3, <2>4, <2>5 DEF Finalize
<1>6. ASSUME Work(w) \/ Fault(w), ~Prepare(w), ~Finalize(w)
      PROVE  VerdictStep(w)
  BY <1>1, <1>6
     DEF Work, Recover, ClaimJob, ClaimNothing, FinalizeJob, ReadJob, WriteJob,
         KeepJob, Fault, ExecutionError, Crash, Restart, GoTo, VerdictStep
<1>7. ASSUME NEW v \in Workers, Work(v) \/ Fault(v) PROVE VerdictStep(w)
  <2>1. CASE v = w
    BY <1>4, <1>5, <1>6, <1>7, <2>1
  <2>2. CASE v # w
    BY <1>3, <1>7, <2>2 DEF VerdictStep
  <2> QED
    BY <2>1, <2>2
<1>8. ASSUME NEW r \in Requests, Http(r) PROVE UNCHANGED <<pc, outcome, cur>>
  BY <1>8 DEF Http, SendCheck, SendCommit, SendDuplicate, RetryCheck,
              RetryCommit, RetryRefused, local
<1>9. ASSUME NEW m \in Messages, Time(m) \/ Direct(m)
      PROVE  UNCHANGED <<pc, outcome, cur>>
  BY <1>9 DEF Time, LeaseExpires, LeaseExpiresEarly, AttemptAges, Direct,
              DirectDelivered, DirectSettled, DirectRetry, local
<1>10. CASE EndConversation \/ UNCHANGED vars
  BY <1>2, <1>10 DEF EndConversation, vars, local
<1> QED
  BY <1>2, <1>7, <1>8, <1>9, <1>10 DEF Next

LEMMA StrandedStep ==
    TypeInv /\ StrandedInv /\ [Next]_vars /\ DeliveryAgreesWithMessage'
        => StrandedInv'
<1> SUFFICES ASSUME TypeInv, StrandedInv, [Next]_vars, DeliveryAgreesWithMessage'
             PROVE  StrandedInv'
  OBVIOUS
<1>1. ASSUME NEW m \in Messages, msg'[m].status = "absent"
      PROVE  job'[m].status = "none"
  <2>1. msg[m].status = "absent" /\ job[m].status = "none"
    BY <1>1, MovesHold, MovesOfOneMessage
       DEF Move, StrandedInv, AbsentHasNoJob
  <2> QED
    BY <1>1, <2>1, JobMoves DEF SettledOrRetried, Settled
<1>2. ASSUME NEW m \in Messages, msg'[m].status = "processing",
             msg'[m].retries = 0
      PROVE  job'[m].status \in {"queued", "leased"}
  <2>1. msg[m].retries \in Nat
    BY DEF TypeInv, TypeOK
  <2>2. CASE msg[m].status = "absent"
    BY <1>2, <2>2, AppearsWithJob DEF StrandedInv
  <2>3. CASE msg[m].status # "absent"
    <3>1. msg'[m] = msg[m]
      BY <1>2, <2>1, <2>3, MovesHold, MovesOfOneMessage DEF Move
    <3>2. job[m].status \in {"queued", "leased"} /\ ~SettledOrRetried(m)
      BY <1>2, <3>1
         DEF StrandedInv, StrandedOnlyAfterRetry, SettledOrRetried, Settled
    <3> QED
      BY <3>2, JobMoves
  <2> QED
    BY <2>2, <2>3
<1>3. ASSUME NEW w \in Workers, pc'[w] \in {"read", "write"},
             Verdict(outcome'[w]) # "none"
      PROVE  SettledOrRetried(cur[w])'
  <2>1. VerdictStep(w)
    BY <1>3, WorkerMoves
  <2>2. CASE /\ pc[w] \in {"read", "write"}
             /\ outcome'[w] = outcome[w] /\ cur'[w] = cur[w]
    <3>1. cur[w] \in Messages
      BY <2>2 DEF TypeInv, BusyHasMessage, Busy
    <3>2. PICK m \in Messages : m = cur[w]
      BY <3>1
    <3>3. SettledOrRetried(m)
      BY <1>3, <2>2, <3>2 DEF StrandedInv, VerdictIsSettled
    <3> QED
      BY <2>2, <3>2, <3>3, SettledOrRetriedStays DEF SettledOrRetried
  <2> QED
    BY <1>3, <2>1, <2>2 DEF VerdictStep, SettledOrRetried
<1> QED
  BY <1>1, <1>2, <1>3 DEF StrandedInv, AbsentHasNoJob, VerdictIsSettled,
                          StrandedOnlyAfterRetry, SettledOrRetried

LEMMA StrandedHolds == Spec => []StrandedInv
<1>1. Init => StrandedInv
  BY DEF Init, StrandedInv, DeliveryAgreesWithMessage, AbsentHasNoJob, NoJob,
         VerdictIsSettled, StrandedOnlyAfterRetry, Audiences, Final
<1> QED
  BY <1>1, StrandedStep, TypesHold, DeliveryAgrees, PTL DEF Spec

\* A message that was never retried cannot be stranded, whatever crashes,
\* late answers and recoveries it meets: the retry race is the only way.
THEOREM StrandedOnlyByRetry == Spec => []StrandedOnlyAfterRetry
<1>1. StrandedInv => StrandedOnlyAfterRetry
  BY DEF StrandedInv
<1> QED
  BY <1>1, StrandedHolds, PTL

=============================================================================
