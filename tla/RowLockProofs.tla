--------------------------- MODULE RowLockProofs ---------------------------
(***************************************************************************)
(* Proofs about the order of the row locks, for any number of workers,     *)
(* retries and messages.                                                   *)
(***************************************************************************)
EXTENDS RowLockProperties, TLAPS

\* A row is the job or the message of one message.
LEMMA RowFacts ==
    /\ \A m \in Messages : JobRow(m) \in Rows /\ MessageRow(m) \in Rows
    /\ \A m, n \in Messages : JobRow(m) = JobRow(n) => m = n
    /\ \A m, n \in Messages : MessageRow(m) = MessageRow(n) => m = n
    /\ \A m, n \in Messages : JobRow(m) # MessageRow(n)
    /\ \A r \in Rows : \E m \in Messages : r = JobRow(m) \/ r = MessageRow(m)
    /\ NoRow \notin Rows
<1>1. "job" # "message" /\ "none" # "job" /\ "none" # "message"
  OBVIOUS
<1> QED
  BY <1>1 DEF JobRow, MessageRow, Rows, NoRow

\* No process is called Nobody.
LEMMA NobodyIsNoProcess == \A p \in Processes : p # Nobody
BY ProcessesAssumption DEF Processes

----------------------------------------------------------------------------
(* Type correctness *)

\* End leaves its variables well typed.
LEMMA EndTyped ==
    ASSUME TypeOK, NEW p \in Processes,
           NEW next \in WorkerStages, End(p, next)
    PROVE  /\ holder' \in [Rows -> Processes \cup {Nobody}]
           /\ waiting' \in [Processes -> Rows \cup {NoRow}]
           /\ stage' \in [Processes -> WorkerStages \cup {"retry"}]
           /\ work' \in [Processes -> Messages \cup {Nobody}]
           /\ batch' \in [Workers -> SUBSET Messages]
BY DEF TypeOK, End, ReleaseAll

\* The tables, the locks and the local state of every process have their
\* types in every reachable state.
THEOREM TypeCorrect == Spec => []TypeOK
<1>1. Init => TypeOK
  BY DEF Init, TypeOK, WorkerStages, Processes
<1>2. TypeOK /\ [Next]_vars => TypeOK'
  <2> SUFFICES ASSUME TypeOK, [Next]_vars PROVE TypeOK'
    OBVIOUS
  <2> USE DEF tables
  <2>0. Workers \subseteq Processes /\ Callers \subseteq Processes
    BY DEF Processes
  <2>1. ASSUME NEW p \in Processes, NEW r \in Rows, Lock(p, r) PROVE TypeOK'
    BY <2>1 DEF Lock, TypeOK, HasLease
  <2>2. ASSUME NEW p \in Processes, NEW r \in Rows, Wait(p, r) PROVE TypeOK'
    BY <2>2 DEF Wait, TypeOK
  <2>3. ASSUME NEW p \in Processes, Abort(p) \/ Raise(p) PROVE TypeOK'
    <3>1. PICK next \in {"down", "idle"} : End(p, next)
      BY <2>3 DEF Abort, Raise
    <3>2. next \in WorkerStages
      BY <3>1 DEF WorkerStages
    <3> QED
      BY <2>3, <3>1, <3>2, EndTyped DEF TypeOK, Abort, Raise
  <2>4. ASSUME NEW w \in Workers, Recover(w) PROVE TypeOK'
    BY <2>4, <2>0 DEF Recover, TypeOK, WorkerStages
  <2>5. ASSUME NEW w \in Workers, NEW kept, CommitRecovery(w, kept) PROVE TypeOK'
    <3>1. End(w, "claim") /\ "claim" \in WorkerStages
      BY <2>5 DEF CommitRecovery, WorkerStages
    <3>2. /\ job' \in [Messages -> {"queued", "leased", "expired", "closed"}]
          /\ owner' \in [Messages -> Workers \cup {Nobody}]
          /\ attempt' \in [Messages -> Workers \cup {Nobody}]
      BY <2>5 DEF CommitRecovery, TypeOK
    <3> QED
      BY <2>5, <2>0, <3>1, <3>2, EndTyped DEF TypeOK, CommitRecovery
  <2>6. ASSUME NEW w \in Workers, NEW m \in Messages, Claim(w, m) PROVE TypeOK'
    BY <2>6, <2>0 DEF Claim, TypeOK, WorkerStages
  <2>7. ASSUME NEW w \in Workers, ClaimNothing(w) PROVE TypeOK'
    BY <2>7, <2>0 DEF ClaimNothing, TypeOK, WorkerStages
  <2>8. ASSUME NEW w \in Workers, Prepare(w) PROVE TypeOK'
    <3>1. PICK next \in {"finish", "leave", "close", "idle"} : End(w, next)
      BY <2>8 DEF Prepare
    <3>2. next \in WorkerStages
      BY <3>1 DEF WorkerStages
    <3>3. attempt' \in [Messages -> Workers \cup {Nobody}]
      BY <2>8 DEF Prepare, TypeOK
    <3> QED
      BY <2>8, <2>0, <3>1, <3>2, <3>3, EndTyped DEF TypeOK, Prepare
  <2>9. ASSUME NEW w \in Workers, NEW result \in {"final", "failed"},
               Finish(w, result)
        PROVE  TypeOK'
    <3>1. PICK next \in {"leave", "close"} : End(w, next)
      BY <2>9 DEF Finish
    <3>2. next \in WorkerStages
      BY <3>1 DEF WorkerStages
    <3>3. /\ attempt' \in [Messages -> Workers \cup {Nobody}]
          /\ status' \in [Messages -> {"processing", "failed", "final"}]
      BY <2>9 DEF Finish, TypeOK
    <3> QED
      BY <2>9, <2>0, <3>1, <3>2, <3>3, EndTyped DEF TypeOK, Finish
  <2>10. ASSUME NEW w \in Workers, ReadJob(w) PROVE TypeOK'
    BY <2>10, <2>0 DEF ReadJob, TypeOK, WorkerStages, HasLease
  <2>11. ASSUME NEW w \in Workers, CloseJob(w) PROVE TypeOK'
    BY <2>11, <2>0 DEF CloseJob, TypeOK, WorkerStages
  <2>12. ASSUME NEW c \in Callers, CommitRetry(c) PROVE TypeOK'
    <3>1. End(c, "idle") /\ "idle" \in WorkerStages
      BY <2>12 DEF CommitRetry, WorkerStages
    <3>2. /\ status' \in [Messages -> {"processing", "failed", "final"}]
          /\ job' \in [Messages -> {"queued", "leased", "expired", "closed"}]
          /\ owner' \in [Messages -> Workers \cup {Nobody}]
      BY <2>12 DEF CommitRetry, TypeOK
    <3> QED
      BY <2>12, <2>0, <3>1, <3>2, EndTyped DEF TypeOK, CommitRetry
  <2>13. ASSUME NEW c \in Callers, NEW m \in Messages, Retry(c, m) PROVE TypeOK'
    BY <2>13, <2>0 DEF Retry, TypeOK
  <2>14. ASSUME NEW m \in Messages, Expire(m) PROVE TypeOK'
    BY <2>14 DEF Expire, TypeOK
  <2>15. CASE UNCHANGED vars
    BY <2>15 DEF vars, TypeOK
  <2> QED
    BY <2>1, <2>2, <2>3, <2>4, <2>5, <2>6, <2>7, <2>8, <2>9, <2>10, <2>11,
       <2>12, <2>13, <2>14, <2>15 DEF Next, Step, Work
<1> QED
  BY <1>1, <1>2, PTL DEF Spec

----------------------------------------------------------------------------
(* The order of the locks *)

\* A worker's rows belong to its transaction; it has the job of every
\* message it has; and it waits for a row only if it needs it.
OrderOf(w) ==
    /\ stage[w] \in WorkerStages
    /\ Executing(w) => work[w] \in Messages
    /\ \A m \in Messages :
          /\ Has(w, JobRow(m)) => \/ stage[w] = "recover" /\ m \in batch[w]
                                  \/ Executing(w) /\ m = work[w]
          /\ Has(w, MessageRow(m)) => Has(w, JobRow(m))
          /\ stage[w] = "recover" /\ m \in batch[w] => Has(w, JobRow(m))
    /\ waiting[w] # NoRow => Needs(w, waiting[w])

OrderInv == TypeOK /\ \A w \in Workers : OrderOf(w)

\* What a step leaves alone, for one worker.
Untouched(w) ==
    /\ stage'[w] = stage[w] /\ work'[w] = work[w]
    /\ batch'[w] = batch[w] /\ waiting'[w] = waiting[w]
    /\ \A r \in Rows : Has(w, r)' <=> Has(w, r)

\* A step that leaves a worker's local state alone keeps its order.
LEMMA UntouchedKeepsOrder ==
    ASSUME TypeOK, NEW w \in Workers, OrderOf(w), Untouched(w)
    PROVE  OrderOf(w)'
<1>0. w \in Processes /\ NoRow \notin Rows
  BY RowFacts DEF Processes
<1>1. stage[w] # "retry" /\ stage'[w] # "retry"
  BY DEF OrderOf, WorkerStages, Untouched
<1>2. Executing(w)' <=> Executing(w)
  BY DEF Executing, Untouched
<1>3. \A m \in Messages : /\ Has(w, JobRow(m))' <=> Has(w, JobRow(m))
                          /\ Has(w, MessageRow(m))' <=> Has(w, MessageRow(m))
  BY RowFacts DEF Untouched
<1>4. /\ (stage[w] \in WorkerStages)'
      /\ (Executing(w) => work[w] \in Messages)'
      /\ (\A m \in Messages :
             /\ Has(w, JobRow(m)) => \/ stage[w] = "recover" /\ m \in batch[w]
                                     \/ Executing(w) /\ m = work[w]
             /\ Has(w, MessageRow(m)) => Has(w, JobRow(m))
             /\ stage[w] = "recover" /\ m \in batch[w] => Has(w, JobRow(m)))'
  BY <1>2, <1>3 DEF OrderOf, Untouched
<1>5. (waiting[w] # NoRow => Needs(w, waiting[w]))'
  <2> SUFFICES ASSUME waiting'[w] # NoRow PROVE Needs(w, waiting[w])'
    OBVIOUS
  <2>1. waiting'[w] = waiting[w] /\ waiting[w] \in Rows /\ Needs(w, waiting[w])
    BY <1>0 DEF OrderOf, Untouched, TypeOK
  <2>2. ~Has(w, waiting[w])'
    BY <2>1 DEF Needs, Untouched, Has
  <2>3. MayLock(w, waiting[w])'
    <3>1. CASE stage[w] = "recover"
      BY <3>1, <2>1 DEF Needs, MayLock, Untouched, Executing, MessageRow
    <3>2. CASE Executing(w)
      <4>1. work[w] \in Messages /\ work'[w] = work[w] /\ Executing(w)'
        BY <3>2, <1>2 DEF OrderOf, Untouched
      <4>2. CASE waiting[w] = JobRow(work[w])
        BY <4>1, <4>2, <2>1 DEF MayLock, JobRow
      <4>3. CASE Has(w, JobRow(work[w])) /\ waiting[w] = MessageRow(work[w])
        BY <4>1, <4>3, <2>1, <1>3 DEF MayLock, MessageRow
      <4> QED
        BY <3>2, <4>2, <4>3, <2>1, <1>1 DEF Needs, MayLock, Executing
    <3> QED
      BY <3>1, <3>2, <2>1, <1>1 DEF Needs, MayLock
  <2> QED
    BY <2>2, <2>3 DEF Needs
<1> QED
  BY <1>4, <1>5 DEF OrderOf

\* A worker that has ended a transaction holds nothing and waits for nothing.
LEMMA EndOrder ==
    ASSUME OrderInv, NEW p \in Processes, NEW next \in WorkerStages \ {"recover"},
           End(p, next), next \in {"prepare", "finish"} => p \in Workers /\ Executing(p),
           NEW w \in Workers
    PROVE  OrderOf(w)'
<1>0. /\ TypeOK /\ OrderOf(w) /\ w \in Processes /\ Workers \subseteq Processes
  BY DEF OrderInv, Processes
<1>1. CASE w = p
  <2>1. \A r \in Rows : ~Has(w, r)'
    BY <1>0, <1>1, NobodyIsNoProcess DEF End, ReleaseAll, Has, TypeOK
  <2>2. /\ stage'[w] = next /\ waiting'[w] = NoRow
        /\ (next \in {"prepare", "finish"} => work'[w] = work[w])
    BY <1>0, <1>1 DEF End, TypeOK
  <2>3. Executing(w)' => work'[w] \in Messages
    BY <2>2, <1>0, <1>1 DEF OrderOf, Executing
  <2> QED
    BY <2>1, <2>2, <2>3, RowFacts DEF OrderOf
<1>2. CASE w # p
  <2>1. Untouched(w)
    BY <1>0, <1>2, NobodyIsNoProcess DEF End, ReleaseAll, Has, TypeOK, Untouched
  <2> QED
    BY <1>0, <2>1, UntouchedKeepsOrder
<1> QED
  BY <1>1, <1>2

\* A worker that neither recovers nor executes holds nothing and waits for
\* nothing.
LEMMA NoTransaction ==
    ASSUME TypeOK, NEW w \in Workers, OrderOf(w),
           stage[w] \notin {"recover", "prepare", "finish"}
    PROVE  waiting[w] = NoRow /\ \A r \in Rows : ~Has(w, r)
<1>1. waiting[w] = NoRow
  BY DEF OrderOf, Needs, MayLock, Executing, WorkerStages
<1>2. ASSUME NEW r \in Rows PROVE ~Has(w, r)
  BY RowFacts DEF OrderOf, Executing
<1> QED
  BY <1>1, <1>2

\* Locking a row keeps the order of a worker's locks.
LEMMA LockOrder ==
    ASSUME OrderInv, NEW p \in Processes, NEW r \in Rows, Lock(p, r),
           NEW w \in Workers
    PROVE  OrderOf(w)'
<1>0. TypeOK /\ OrderOf(w) /\ w \in Processes
  BY DEF OrderInv, Processes
<1>1. stage' = stage /\ work' = work /\ batch' = batch
  BY DEF Lock
<1>2. CASE w # p
  <2>1. Untouched(w)
    BY <1>0, <1>1, <1>2, NobodyIsNoProcess DEF Lock, Has, TypeOK, Untouched, Free
  <2> QED
    BY <1>0, <2>1, UntouchedKeepsOrder
<1>3. CASE w = p
  <2>1. waiting'[w] = NoRow /\ Needs(w, r)
    BY <1>0, <1>3 DEF Lock, TypeOK
  <2>2. \A q \in Rows : Has(w, q)' <=> q = r \/ Has(w, q)
    BY <1>0, <1>3 DEF Lock, Has, TypeOK
  <2>3. \A m \in Messages :
          (Has(w, JobRow(m)) => \/ stage[w] = "recover" /\ m \in batch[w]
                                \/ Executing(w) /\ m = work[w])'
    <3> SUFFICES ASSUME NEW m \in Messages, Has(w, JobRow(m))'
                 PROVE  \/ stage[w] = "recover" /\ m \in batch[w]
                        \/ Executing(w) /\ m = work[w]
      BY <1>1 DEF Executing
    <3>1. CASE Has(w, JobRow(m))
      BY <3>1, <1>0 DEF OrderOf
    <3>2. CASE r = JobRow(m)
      <4>1. \/ stage[w] = "recover" /\ \E n \in batch[w] : r = MessageRow(n)
            \/ Executing(w) /\ r = JobRow(work[w])
            \/ Executing(w) /\ r = MessageRow(work[w])
        BY <2>1, <1>0 DEF Needs, MayLock, OrderOf, WorkerStages
      <4>2. batch[w] \subseteq Messages /\ (Executing(w) => work[w] \in Messages)
        BY <1>0 DEF TypeOK, OrderOf
      <4> QED
        BY <4>1, <4>2, <3>2, RowFacts
    <3> QED
      BY <2>2, <3>1, <3>2, RowFacts
  <2>4. \A m \in Messages : (Has(w, MessageRow(m)) => Has(w, JobRow(m)))'
    <3> SUFFICES ASSUME NEW m \in Messages, Has(w, MessageRow(m))'
                 PROVE  Has(w, JobRow(m))
      BY <2>2, RowFacts
    <3>1. CASE Has(w, MessageRow(m))
      BY <3>1, <1>0 DEF OrderOf
    <3>2. CASE r = MessageRow(m)
      <4>1. \/ stage[w] = "recover" /\ \E n \in batch[w] : r = MessageRow(n)
            \/ Executing(w) /\ r = JobRow(work[w])
            \/ /\ Executing(w) /\ Has(w, JobRow(work[w]))
               /\ r = MessageRow(work[w])
        BY <2>1, <1>0 DEF Needs, MayLock, OrderOf, WorkerStages
      <4>2. batch[w] \subseteq Messages /\ (Executing(w) => work[w] \in Messages)
        BY <1>0 DEF TypeOK, OrderOf
      <4>3. \/ stage[w] = "recover" /\ m \in batch[w]
            \/ Has(w, JobRow(m))
        BY <4>1, <4>2, <3>2, RowFacts
      <4> QED
        BY <4>3, <1>0 DEF OrderOf
    <3> QED
      BY <2>2, <3>1, <3>2, RowFacts
  <2> QED
    BY <1>0, <1>1, <2>1, <2>2, <2>3, <2>4, RowFacts DEF OrderOf, Executing
<1> QED
  BY <1>2, <1>3

\* Waiting for a row keeps it too.
LEMMA WaitOrder ==
    ASSUME OrderInv, NEW p \in Processes, NEW r \in Rows, Wait(p, r),
           NEW w \in Workers
    PROVE  OrderOf(w)'
<1>0. TypeOK /\ OrderOf(w) /\ w \in Processes
  BY DEF OrderInv, Processes
<1>1. stage' = stage /\ work' = work /\ batch' = batch /\ holder' = holder
      /\ status' = status
  BY DEF Wait, tables
<1>2. CASE w # p
  <2>1. Untouched(w)
    BY <1>0, <1>1, <1>2 DEF Wait, Has, TypeOK, Untouched
  <2> QED
    BY <1>0, <2>1, UntouchedKeepsOrder
<1>3. CASE w = p
  <2>1. waiting'[w] = r /\ Needs(w, r)
    BY <1>0, <1>3 DEF Wait, TypeOK
  <2>2. Needs(w, waiting[w])'
    BY <2>1, <1>1 DEF Needs, MayLock, Has, Executing, JobRow, MessageRow
  <2> QED
    BY <1>0, <1>1, <2>2 DEF OrderOf, Executing, Has, JobRow, MessageRow
<1> QED
  BY <1>2, <1>3

\* The recovery's batch is locked job by job.
LEMMA RecoverOrder ==
    ASSUME OrderInv, NEW p \in Workers, Recover(p), NEW w \in Workers
    PROVE  OrderOf(w)'
<1> DEFINE found == {m \in Messages : job[m] = "expired" /\ Free(JobRow(m))}
<1>0. TypeOK /\ OrderOf(w) /\ w \in Processes /\ p \in Processes
  BY DEF OrderInv, Processes
<1>1. /\ stage[p] = "idle" /\ work' = work /\ waiting' = waiting
      /\ holder' = [r \in Rows |-> IF \E m \in found : r = JobRow(m)
                                   THEN p ELSE holder[r]]
      /\ batch' = [batch EXCEPT ![p] = found]
      /\ stage' = [stage EXCEPT ![p] = IF found = {} THEN "claim" ELSE "recover"]
  BY DEF Recover
<1>2. found \subseteq Messages /\ \A m \in found : Free(JobRow(m))
  OBVIOUS
<1> HIDE DEF found
<1>3. CASE w # p
  <2>1. \A r \in Rows : Has(w, r)' <=> Has(w, r)
    BY <1>0, <1>1, <1>2, <1>3, NobodyIsNoProcess DEF Has, Free
  <2>2. Untouched(w)
    BY <1>0, <1>1, <1>3, <2>1 DEF Untouched, TypeOK
  <2> QED
    BY <1>0, <2>2, UntouchedKeepsOrder
<1>4. CASE w = p
  <2>1. waiting'[w] = NoRow /\ \A r \in Rows : ~Has(w, r)
    BY <1>0, <1>1, <1>4, NoTransaction
  <2>2. \A r \in Rows : Has(w, r)' <=> \E m \in found : r = JobRow(m)
    BY <1>1, <1>4, <2>1 DEF Has
  <2>3. batch'[w] = found /\ stage'[w] = IF found = {} THEN "claim" ELSE "recover"
    BY <1>0, <1>1, <1>4 DEF TypeOK
  <2>4. \A m \in Messages : (Has(w, JobRow(m))' <=> m \in found)
                            /\ ~Has(w, MessageRow(m))'
    BY <2>2, <1>2, RowFacts
  <2> QED
    BY <2>1, <2>3, <2>4 DEF OrderOf, Executing, WorkerStages
<1> QED
  BY <1>3, <1>4

\* A worker's steps between its transactions, and everybody else's.
LEMMA OutsideOrder ==
    ASSUME OrderInv, NEW p \in Processes, UNCHANGED <<holder, waiting, batch>>,
           p \in Workers => stage[p] \notin {"recover", "prepare", "finish"},
           NEW next \in WorkerStages \ {"recover"},
           NEW m \in Messages \cup {Nobody},
           next \in {"prepare", "finish"} => m \in Messages,
           p \in Workers => stage' = [stage EXCEPT ![p] = next],
           \A q \in Processes \ {p} : stage'[q] = stage[q],
           work' = [work EXCEPT ![p] = m],
           NEW w \in Workers
    PROVE  OrderOf(w)'
<1>0. TypeOK /\ OrderOf(w) /\ w \in Processes
  BY DEF OrderInv, Processes
<1>1. CASE w # p
  <2>1. Untouched(w)
    BY <1>0, <1>1 DEF Untouched, TypeOK, Has
  <2> QED
    BY <1>0, <2>1, UntouchedKeepsOrder
<1>2. CASE w = p
  <2>1. waiting'[w] = NoRow /\ \A r \in Rows : ~Has(w, r)'
    BY <1>0, <1>2, NoTransaction DEF Has
  <2>2. stage'[w] = next /\ work'[w] = m
    BY <1>0, <1>2 DEF TypeOK
  <2> QED
    BY <2>1, <2>2, RowFacts DEF OrderOf, Executing
<1> QED
  BY <1>1, <1>2

\* Every step keeps the order of every worker's locks.
LEMMA OrderStep ==
    ASSUME OrderInv, [Next]_vars, NEW w \in Workers
    PROVE  OrderOf(w)'
<1>0. /\ TypeOK /\ OrderOf(w) /\ Workers \subseteq Processes
      /\ Callers \subseteq Processes /\ Callers \cap Workers = {}
  BY ProcessesAssumption DEF OrderInv, Processes
<1>1. ASSUME NEW p \in Processes, NEW r \in Rows, Lock(p, r) \/ Wait(p, r)
      PROVE  OrderOf(w)'
  BY <1>1, LockOrder, WaitOrder
<1>2. ASSUME NEW p \in Processes, Abort(p) \/ Raise(p) PROVE OrderOf(w)'
  <2>1. PICK next \in {"down", "idle"} : End(p, next)
    BY <1>2 DEF Abort, Raise
  <2>2. next \in WorkerStages \ {"recover"} /\ next \notin {"prepare", "finish"}
    BY <2>1 DEF WorkerStages
  <2> QED
    BY <2>1, <2>2, EndOrder
<1>3. ASSUME NEW p \in Workers, Recover(p) PROVE OrderOf(w)'
  BY <1>3, RecoverOrder
<1>4. ASSUME NEW p \in Workers, NEW kept, CommitRecovery(p, kept) PROVE OrderOf(w)'
  <2>1. End(p, "claim") /\ "claim" \in WorkerStages \ {"recover"}
    BY <1>4 DEF CommitRecovery, WorkerStages
  <2> QED
    BY <1>0, <2>1, EndOrder
<1>5. ASSUME NEW p \in Workers, NEW m \in Messages, Claim(p, m) PROVE OrderOf(w)'
  <2>1. "prepare" \in WorkerStages \ {"recover"}
    BY DEF WorkerStages
  <2>2. \A q \in Processes \ {p} : stage'[q] = stage[q]
    BY <1>0, <1>5 DEF Claim, TypeOK
  <2>3. /\ stage[p] = "claim" /\ UNCHANGED <<holder, waiting, batch>>
        /\ stage' = [stage EXCEPT ![p] = "prepare"]
        /\ work' = [work EXCEPT ![p] = m]
    BY <1>5 DEF Claim
  <2> QED
    BY <1>0, <2>1, <2>2, <2>3, OutsideOrder
<1>6. ASSUME NEW p \in Workers, ClaimNothing(p) PROVE OrderOf(w)'
  <2>1. /\ "idle" \in WorkerStages \ {"recover"}
        /\ p \in Processes /\ work[p] \in Messages \cup {Nobody}
    BY <1>0 DEF WorkerStages, TypeOK
  <2>2. /\ \A q \in Processes \ {p} : stage'[q] = stage[q]
        /\ work' = [work EXCEPT ![p] = work[p]]
    BY <1>0, <1>6 DEF ClaimNothing, TypeOK
  <2>3. /\ stage[p] = "claim" /\ UNCHANGED <<holder, waiting, batch>>
        /\ stage' = [stage EXCEPT ![p] = "idle"]
    BY <1>6 DEF ClaimNothing
  <2> QED
    BY <2>1, <2>2, <2>3, OrderInv, OutsideOrder
<1>7. ASSUME NEW p \in Workers, Prepare(p) PROVE OrderOf(w)'
  <2>1. PICK next \in {"finish", "leave", "close", "idle"} : End(p, next)
    BY <1>7 DEF Prepare
  <2>2. next \in WorkerStages \ {"recover"} /\ Executing(p)
    BY <1>7, <2>1 DEF WorkerStages, Executing, Prepare
  <2> QED
    BY <1>0, <2>1, <2>2, EndOrder
<1>8. ASSUME NEW p \in Workers, NEW result \in {"final", "failed"},
             Finish(p, result)
      PROVE  OrderOf(w)'
  <2>1. PICK next \in {"leave", "close"} : End(p, next)
    BY <1>8 DEF Finish
  <2>2. next \in WorkerStages \ {"recover"} /\ Executing(p)
    BY <1>8, <2>1 DEF WorkerStages, Executing, Finish
  <2> QED
    BY <1>0, <2>1, <2>2, EndOrder
<1>9. ASSUME NEW p \in Workers, ReadJob(p) PROVE OrderOf(w)'
  <2>1. /\ "closing" \in WorkerStages \ {"recover"}
        /\ p \in Processes /\ work[p] \in Messages \cup {Nobody}
    BY <1>0 DEF WorkerStages, TypeOK
  <2>2. /\ \A q \in Processes \ {p} : stage'[q] = stage[q]
        /\ work' = [work EXCEPT ![p] = work[p]]
    BY <1>0, <1>9 DEF ReadJob, TypeOK
  <2>3. /\ stage[p] = "close" /\ UNCHANGED <<holder, waiting, batch>>
        /\ stage' = [stage EXCEPT ![p] = "closing"]
    BY <1>9 DEF ReadJob
  <2> QED
    BY <2>1, <2>2, <2>3, OrderInv, OutsideOrder
<1>10. ASSUME NEW p \in Workers, CloseJob(p) PROVE OrderOf(w)'
  <2>1. "idle" \in WorkerStages \ {"recover"}
    BY DEF WorkerStages
  <2>2. \A q \in Processes \ {p} : stage'[q] = stage[q]
    BY <1>0, <1>10 DEF CloseJob, TypeOK
  <2>3. /\ stage[p] \in {"closing", "leave"} /\ UNCHANGED <<holder, waiting, batch>>
        /\ stage' = [stage EXCEPT ![p] = "idle"]
        /\ work' = [work EXCEPT ![p] = Nobody]
    BY <1>10 DEF CloseJob
  <2> QED
    BY <1>0, <2>1, <2>2, <2>3, OutsideOrder
<1>11. ASSUME NEW c \in Callers, CommitRetry(c) PROVE OrderOf(w)'
  <2>1. End(c, "idle") /\ "idle" \in WorkerStages \ {"recover"}
    BY <1>11 DEF CommitRetry, WorkerStages
  <2> QED
    BY <1>0, <2>1, EndOrder
<1>12. ASSUME NEW c \in Callers, NEW m \in Messages, Retry(c, m) PROVE OrderOf(w)'
  <2>1. Untouched(w)
    BY <1>0, <1>12 DEF Retry, Untouched, TypeOK, Has
  <2> QED
    BY <1>0, <2>1, UntouchedKeepsOrder
<1>13. ASSUME NEW m \in Messages, Expire(m) PROVE OrderOf(w)'
  BY <1>0, <1>13, UntouchedKeepsOrder DEF Expire, Untouched, Has
<1>14. CASE UNCHANGED vars
  BY <1>0, <1>14, UntouchedKeepsOrder DEF vars, Untouched, Has
<1> QED
  BY <1>1, <1>2, <1>3, <1>4, <1>5, <1>6, <1>7, <1>8, <1>9, <1>10, <1>11,
     <1>12, <1>13, <1>14 DEF Next, Step, Work

\* The order of every worker's locks holds in every reachable state.
THEOREM LocksAreOrdered == Spec => []OrderInv
<1>1. Init => OrderInv
  <2> SUFFICES ASSUME Init PROVE OrderInv
    OBVIOUS
  <2>1. TypeOK
    BY DEF Init, TypeOK, WorkerStages, Processes
  <2>2. ASSUME NEW w \in Workers PROVE OrderOf(w)
    <3>1. w \in Processes /\ w # Nobody
      BY NobodyIsNoProcess DEF Processes
    <3> QED
      BY <3>1, RowFacts DEF Init, OrderOf, Has, Executing, WorkerStages
  <2> QED
    BY <2>1, <2>2 DEF OrderInv
<1>2. OrderInv /\ TypeOK' /\ [Next]_vars => OrderInv'
  BY OrderStep DEF OrderInv
<1> QED
  BY <1>1, <1>2, TypeCorrect, PTL DEF Spec

\* Workers that wait for each other would all wait for jobs, since whoever
\* has a message has its job; but who waits for a job has nothing.
LEMMA OrderExcludesCycles == OrderInv => NoDeadlockOfWorkers
<1> SUFFICES ASSUME OrderInv, NEW set \in SUBSET Workers, Deadlocked(set)
             PROVE  FALSE
  BY DEF NoDeadlockOfWorkers
<1>0. TypeOK /\ NoRow \notin Rows /\ Workers \subseteq Processes
      /\ (\A w \in Workers : OrderOf(w)) /\ Nobody \notin Workers
  BY RowFacts, NobodyIsNoProcess DEF OrderInv, Processes
<1>1. ASSUME NEW w \in set
      PROVE  \E v \in set : waiting[w] \in Rows /\ Has(v, waiting[w])
                            /\ Needs(w, waiting[w])
  <2>1. waiting[w] # NoRow /\ holder[waiting[w]] \in set
    BY <1>0 DEF Deadlocked, WaitsFor
  <2> QED
    BY <2>1, <1>0 DEF Has, TypeOK, OrderOf
<1>2. ASSUME NEW w \in set, NEW m \in Messages, waiting[w] = MessageRow(m)
      PROVE  FALSE
  <2>1. PICK v \in set : Has(v, MessageRow(m)) /\ Needs(w, MessageRow(m))
    BY <1>1, <1>2
  <2>2. Has(v, JobRow(m)) /\ ~Has(w, MessageRow(m))
    BY <2>1, <1>0 DEF OrderOf, Needs
  <2>3. Has(w, JobRow(m))
    <3>1. \/ stage[w] = "recover" /\ \E n \in batch[w] : MessageRow(m) = MessageRow(n)
          \/ Executing(w) /\ MessageRow(m) = JobRow(work[w])
          \/ /\ Executing(w) /\ Has(w, JobRow(work[w]))
             /\ MessageRow(m) = MessageRow(work[w])
      BY <2>1, <1>0 DEF Needs, MayLock, OrderOf, WorkerStages
    <3>2. batch[w] \subseteq Messages /\ (Executing(w) => work[w] \in Messages)
      BY <1>0 DEF TypeOK, OrderOf
    <3>3. (stage[w] = "recover" /\ m \in batch[w]) \/ Has(w, JobRow(m))
      BY <3>1, <3>2, RowFacts
    <3> QED
      BY <3>3, <1>0 DEF OrderOf
  <2>4. v = w
    BY <2>2, <2>3 DEF Has
  <2> QED
    BY <2>1, <2>2, <2>4
<1>3. ASSUME NEW w \in set, NEW m \in Messages, waiting[w] = JobRow(m)
      PROVE  \A r \in Rows : ~Has(w, r)
  <2>1. Needs(w, JobRow(m))
    BY <1>1, <1>3
  <2>2. Executing(w) /\ m = work[w] /\ stage[w] # "recover"
    <3>1. batch[w] \subseteq Messages /\ (Executing(w) => work[w] \in Messages)
      BY <1>0 DEF TypeOK, OrderOf
    <3> QED
      BY <2>1, <3>1, <1>0, RowFacts DEF Needs, MayLock, OrderOf, WorkerStages, Executing
  <2>3. \A n \in Messages : ~Has(w, JobRow(n))
    BY <2>1, <2>2, <1>0 DEF OrderOf, Needs
  <2> QED
    BY <2>3, <1>0, RowFacts DEF OrderOf
<1>4. PICK w \in set : TRUE
  BY DEF Deadlocked
<1>5. PICK v \in set : waiting[w] \in Rows /\ Has(v, waiting[w])
  BY <1>1
<1>6. waiting[v] \in Rows
  BY <1>1
<1> QED
  BY <1>2, <1>3, <1>5, <1>6, RowFacts

\* However many workers there are, a deadlock takes a retry.
THEOREM WorkersNeverDeadlock == Spec => []NoDeadlockOfWorkers
BY LocksAreOrdered, OrderExcludesCycles, PTL

----------------------------------------------------------------------------
(* What a lease is worth under the lock *)

\* While an execution has the job it validated its lease on, the job keeps
\* that lease.
LeaseOf(w) ==
    Executing(w) /\ current[w] /\ Has(w, JobRow(work[w])) =>
        /\ job[work[w]] \in {"leased", "expired"}
        /\ owner[work[w]] = w

LeaseInv == OrderInv /\ (\A w \in Workers : LeaseOf(w)) /\ QueuedMeansProcessing

\* A step of another process leaves a job that a worker has locked to it.
LEMMA LeaseIsKept ==
    ASSUME LeaseInv, NEW w \in Workers, Untouched(w), current'[w] = current[w],
           \A m \in Messages : Has(w, JobRow(m)) =>
               /\ job'[m] = job[m] \/ (job[m] = "leased" /\ job'[m] = "expired")
               /\ owner'[m] = owner[m]
    PROVE  LeaseOf(w)'
<1> SUFFICES ASSUME Executing(w)', current'[w], Has(w, JobRow(work[w]))'
             PROVE  /\ job'[work'[w]] \in {"leased", "expired"}
                    /\ owner'[work'[w]] = w
  BY DEF LeaseOf
<1>1. Executing(w) /\ work'[w] = work[w] /\ work[w] \in Messages
  BY DEF LeaseInv, OrderInv, OrderOf, Executing, Untouched
<1>2. Has(w, JobRow(work[w]))
  BY <1>1, RowFacts DEF Untouched, Has, JobRow
<1>3. current[w]
  OBVIOUS
<1>4. job[work[w]] \in {"leased", "expired"} /\ owner[work[w]] = w
  BY <1>1, <1>2, <1>3 DEF LeaseInv, LeaseOf
<1> QED
  BY <1>1, <1>2, <1>4

\* The end of a transaction leaves other workers alone, and the process
\* itself with nothing.
LEMMA EndTouches ==
    ASSUME TypeOK, NEW p \in Processes, NEW next, End(p, next), NEW w \in Workers
    PROVE  IF w = p THEN \A r \in Rows : ~Has(w, r)' ELSE Untouched(w)
<1>1. w \in Processes
  BY DEF Processes
<1> QED
  BY <1>1, NobodyIsNoProcess DEF End, ReleaseAll, Has, TypeOK, Untouched

\* A worker that has no rows has no lease to keep.
LEMMA NothingToKeep ==
    ASSUME NEW w \in Workers,
           (stage'[w] \notin {"prepare", "finish"})
           \/ (work'[w] \in Messages /\ \A r \in Rows : ~Has(w, r)')
    PROVE  LeaseOf(w)'
<1>1. \A m \in Messages : JobRow(m) \in Rows
  BY RowFacts
<1> QED
  BY <1>1 DEF LeaseOf, Executing, JobRow

\* Only who has the job, or finds it free, changes it.
LEMMA LeaseStep ==
    ASSUME LeaseInv, OrderInv', [Next]_vars, NEW w \in Workers
    PROVE  LeaseOf(w)'
<1>0. /\ TypeOK /\ OrderInv /\ OrderOf(w) /\ LeaseOf(w)
      /\ Workers \subseteq Processes /\ Callers \subseteq Processes
      /\ Callers \cap Workers = {} /\ OrderOf(w)'
      /\ Nobody \notin Processes
  BY ProcessesAssumption DEF LeaseInv, OrderInv, Processes
<1>1. ASSUME NEW p \in Processes, NEW r \in Rows, Lock(p, r) PROVE LeaseOf(w)'
  <2>0. UNCHANGED <<status, job, owner, attempt, stage, work, batch>>
    BY <1>1 DEF Lock, tables
  <2>1. CASE w # p
    <3>1. Untouched(w)
      BY <1>0, <2>0, <1>1, <2>1 DEF Lock, Has, TypeOK, Untouched, Free
    <3>2. current'[w] = current[w]
      BY <1>1, <2>1 DEF Lock
    <3> QED
      BY <2>0, <3>1, <3>2, LeaseIsKept
  <2>2. CASE w = p
    <3> SUFFICES ASSUME Executing(w), current'[w], Has(w, JobRow(work[w]))'
                 PROVE  /\ job[work[w]] \in {"leased", "expired"}
                        /\ owner[work[w]] = w
      BY <2>0 DEF LeaseOf, Executing
    <3>0. work[w] \in Messages
      BY <1>0 DEF OrderOf
    <3>1. CASE r = JobRow(work[w])
      <4>1. current'[w] = HasLease(w, work[w])
        BY <1>1, <2>2, <3>1 DEF Lock
      <4> QED
        BY <4>1 DEF HasLease
    <3>2. CASE r # JobRow(work[w])
      <4>1. current'[w] = current[w]
        BY <1>1, <2>2, <3>2 DEF Lock
      <4>2. Has(w, JobRow(work[w]))
        BY <1>0, <1>1, <2>0, <3>0, <3>2, RowFacts DEF Lock, Has, TypeOK, JobRow
      <4> QED
        BY <1>0, <4>1, <4>2 DEF LeaseOf
    <3> QED
      BY <3>1, <3>2
  <2> QED
    BY <2>1, <2>2
<1>2. ASSUME NEW p \in Processes, NEW r \in Rows, Wait(p, r) PROVE LeaseOf(w)'
  <2>1. UNCHANGED <<job, owner, stage, work, holder, current>>
    BY <1>2 DEF Wait, tables
  <2> QED
    BY <1>0, <2>1 DEF LeaseOf, Executing, Has, JobRow
<1>3. ASSUME NEW p \in Processes, Abort(p) \/ Raise(p) PROVE LeaseOf(w)'
  <2>1. PICK next \in {"down", "idle"} : End(p, next)
    BY <1>3 DEF Abort, Raise
  <2>2. CASE w = p
    <3>1. stage'[w] = next
      BY <1>0, <2>1, <2>2 DEF End, TypeOK
    <3> QED
      BY <3>1, NothingToKeep
  <2>3. CASE w # p
    <3>1. Untouched(w)
      BY <1>0, <2>1, <2>3, EndTouches
    <3> QED
      BY <1>3, <3>1, LeaseIsKept DEF Abort, Raise, tables
  <2> QED
    BY <2>2, <2>3
<1>4. ASSUME NEW p \in Workers, Recover(p) PROVE LeaseOf(w)'
  <2>1. CASE w = p
    <3>1. stage'[w] \in {"claim", "recover"}
      BY <1>0, <1>4, <2>1 DEF Recover, TypeOK
    <3> QED
      BY <3>1, NothingToKeep
  <2>2. CASE w # p
    <3>1. Untouched(w)
      <4> DEFINE found == {m \in Messages : job[m] = "expired" /\ Free(JobRow(m))}
      <4>1. /\ holder' = [r \in Rows |-> IF \E m \in found : r = JobRow(m)
                                         THEN p ELSE holder[r]]
            /\ UNCHANGED <<waiting, work>>
            /\ batch' = [batch EXCEPT ![p] = found]
            /\ stage' = [stage EXCEPT ![p] = IF found = {} THEN "claim" ELSE "recover"]
        BY <1>4 DEF Recover
      <4>2. \A m \in found : Free(JobRow(m))
        OBVIOUS
      <4> HIDE DEF found
      <4> QED
        BY <1>0, <2>2, <4>1, <4>2 DEF Untouched, TypeOK, Has, Free
    <3> QED
      BY <1>4, <3>1, LeaseIsKept DEF Recover, tables
  <2> QED
    BY <2>1, <2>2
<1>5. ASSUME NEW p \in Workers, NEW kept, CommitRecovery(p, kept) PROVE LeaseOf(w)'
  <2>0. End(p, "claim") /\ current' = current /\ stage[p] = "recover"
    BY <1>5 DEF CommitRecovery
  <2>1. CASE w = p
    <3>1. stage'[w] = "claim"
      BY <1>0, <2>0, <2>1 DEF End, TypeOK
    <3> QED
      BY <3>1, NothingToKeep
  <2>2. CASE w # p
    <3>1. Untouched(w)
      BY <1>0, <2>0, <2>2, EndTouches
    <3>2. ASSUME NEW m \in Messages, Has(w, JobRow(m)) PROVE m \notin batch[p]
      <4>1. m \in batch[p] => Has(p, JobRow(m))
        BY <1>0, <2>0 DEF OrderInv, OrderOf
      <4> QED
        BY <4>1, <3>2, <2>2 DEF Has
    <3>3. ASSUME NEW m \in Messages, m \notin batch[p]
          PROVE  job'[m] = job[m] /\ owner'[m] = owner[m]
      BY <1>5, <3>3 DEF CommitRecovery
    <3> QED
      BY <2>0, <3>1, <3>2, <3>3, LeaseIsKept
  <2> QED
    BY <2>1, <2>2
<1>6. ASSUME NEW p \in Workers, NEW m \in Messages, Claim(p, m) PROVE LeaseOf(w)'
  <2>1. CASE w = p
    <3>1. \A r \in Rows : ~Has(w, r)'
      BY <1>0, <1>6, <2>1, NoTransaction DEF Claim, Has
    <3>2. work'[w] = m
      BY <1>0, <1>6, <2>1 DEF Claim, TypeOK
    <3> QED
      BY <3>1, <3>2, NothingToKeep
  <2>2. CASE w # p
    <3>1. Untouched(w) /\ current'[w] = current[w]
      BY <1>0, <1>6, <2>2 DEF Claim, Untouched, TypeOK, Has
    <3>2. ASSUME NEW n \in Messages, Has(w, JobRow(n))
          PROVE  job'[n] = job[n] /\ owner'[n] = owner[n]
      <4>1. n # m
        BY <1>0, <1>6, <3>2 DEF Claim, Free, Has
      <4> QED
        BY <1>0, <1>6, <4>1 DEF Claim, TypeOK
    <3> QED
      BY <3>1, <3>2, LeaseIsKept
  <2> QED
    BY <2>1, <2>2
<1>7. ASSUME NEW p \in Workers, ClaimNothing(p) PROVE LeaseOf(w)'
  <2>1. CASE w = p
    <3>1. stage'[w] = "idle"
      BY <1>0, <1>7, <2>1 DEF ClaimNothing, TypeOK
    <3> QED
      BY <3>1, NothingToKeep
  <2>2. CASE w # p
    <3>1. Untouched(w)
      BY <1>0, <1>7, <2>2 DEF ClaimNothing, Untouched, TypeOK, Has
    <3> QED
      BY <1>7, <3>1, LeaseIsKept DEF ClaimNothing, tables
  <2> QED
    BY <2>1, <2>2
<1>8. ASSUME NEW p \in Workers, NEW next, End(p, next),
             UNCHANGED <<job, owner, current>>
      PROVE  LeaseOf(w)'
  <2>1. CASE w = p
    <3>1. \A r \in Rows : ~Has(w, r)'
      BY <1>0, <1>8, <2>1, EndTouches
    <3>2. Executing(w)' => work'[w] \in Messages
      BY <1>0 DEF OrderOf
    <3> QED
      BY <3>1, <3>2, NothingToKeep DEF Executing
  <2>2. CASE w # p
    <3>1. Untouched(w)
      BY <1>0, <1>8, <2>2, EndTouches
    <3> QED
      BY <1>8, <3>1, LeaseIsKept
  <2> QED
    BY <2>1, <2>2
<1>9. ASSUME NEW p \in Workers, Prepare(p) PROVE LeaseOf(w)'
  BY <1>8, <1>9 DEF Prepare
<1>10. ASSUME NEW p \in Workers, NEW result \in {"final", "failed"},
              Finish(p, result)
       PROVE  LeaseOf(w)'
  BY <1>8, <1>10 DEF Finish
<1>11. ASSUME NEW p \in Workers, ReadJob(p) PROVE LeaseOf(w)'
  <2>1. CASE w = p
    <3>1. stage'[w] = "closing"
      BY <1>0, <1>11, <2>1 DEF ReadJob, TypeOK
    <3> QED
      BY <3>1, NothingToKeep
  <2>2. CASE w # p
    <3>1. Untouched(w) /\ current'[w] = current[w]
      BY <1>0, <1>11, <2>2 DEF ReadJob, Untouched, TypeOK, Has
    <3> QED
      BY <1>11, <3>1, LeaseIsKept DEF ReadJob, tables
  <2> QED
    BY <2>1, <2>2
<1>12. ASSUME NEW p \in Workers, CloseJob(p) PROVE LeaseOf(w)'
  <2>1. CASE w = p
    <3>1. stage'[w] = "idle"
      BY <1>0, <1>12, <2>1 DEF CloseJob, TypeOK
    <3> QED
      BY <3>1, NothingToKeep
  <2>2. CASE w # p
    <3>1. Untouched(w) /\ current'[w] = current[w]
      BY <1>0, <1>12, <2>2 DEF CloseJob, Untouched, TypeOK, Has
    <3>2. ASSUME NEW n \in Messages, Has(w, JobRow(n))
          PROVE  job'[n] = job[n] /\ owner'[n] = owner[n]
      <4>1. n # work[p]
        BY <1>0, <1>12, <3>2 DEF CloseJob, Free, Has
      <4> QED
        BY <1>0, <1>12, <4>1 DEF CloseJob, TypeOK
    <3> QED
      BY <3>1, <3>2, LeaseIsKept
  <2> QED
    BY <2>1, <2>2
<1>13. ASSUME NEW c \in Callers, CommitRetry(c) PROVE LeaseOf(w)'
  <2>0. End(c, "idle") /\ w # c /\ c \in Processes
    BY <1>0, <1>13 DEF CommitRetry
  <2>1. Untouched(w)
    BY <1>0, <2>0, EndTouches
  <2>2. ASSUME NEW n \in Messages, Has(w, JobRow(n))
        PROVE  job'[n] = job[n] /\ owner'[n] = owner[n]
    <3>1. n = work[c] => status[n] # "failed"
      <4> SUFFICES ASSUME n = work[c], status[n] = "failed" PROVE FALSE
        OBVIOUS
      <4>1. Has(c, MessageRow(n))
        BY <1>13, RowFacts DEF CommitRetry, Ready, Needs, MayLock
      <4>2. Has(c, JobRow(n))
        BY <1>13, <4>1, RowFacts DEF CommitRetry, Ready, Needs, MayLock
      <4> QED
        BY <4>2, <2>0, <2>2 DEF Has
    <3> QED
      BY <1>0, <1>13, <3>1 DEF CommitRetry, TypeOK
  <2> QED
    BY <1>13, <2>1, <2>2, LeaseIsKept DEF CommitRetry
<1>14. ASSUME NEW c \in Callers, NEW m \in Messages, Retry(c, m) PROVE LeaseOf(w)'
  <2>1. Untouched(w)
    BY <1>0, <1>14 DEF Retry, Untouched, TypeOK, Has
  <2> QED
    BY <1>14, <2>1, LeaseIsKept DEF Retry, tables
<1>15. ASSUME NEW m \in Messages, Expire(m) PROVE LeaseOf(w)'
  <2>1. Untouched(w)
    BY <1>15 DEF Expire, Untouched, Has
  <2>2. \A n \in Messages : /\ job'[n] = job[n]
                               \/ (job[n] = "leased" /\ job'[n] = "expired")
                            /\ owner'[n] = owner[n]
    BY <1>0, <1>15 DEF Expire, TypeOK
  <2> QED
    BY <1>15, <2>1, <2>2, LeaseIsKept DEF Expire
<1>16. CASE UNCHANGED vars
  BY <1>0, <1>16 DEF vars, LeaseOf, Executing, Has, JobRow
<1> QED
  BY <1>1, <1>2, <1>3, <1>4, <1>5, <1>6, <1>7, <1>9, <1>10, <1>11, <1>12,
     <1>13, <1>14, <1>15, <1>16 DEF Next, Step, Work

\* A queued job stays with a message in processing.
LEMMA QueueStep ==
    ASSUME LeaseInv, [Next]_vars PROVE QueuedMeansProcessing'
<1>0. TypeOK /\ OrderInv /\ QueuedMeansProcessing
  BY DEF LeaseInv, OrderInv
<1> USE DEF QueuedMeansProcessing
<1>1. ASSUME NEW w \in Workers, NEW kept, CommitRecovery(w, kept)
      PROVE  QueuedMeansProcessing'
  BY <1>0, <1>1 DEF CommitRecovery, Unsettled
<1>2. ASSUME NEW w \in Workers, NEW m \in Messages, Claim(w, m)
      PROVE  QueuedMeansProcessing'
  BY <1>0, <1>2 DEF Claim, TypeOK
<1>3. ASSUME NEW w \in Workers, NEW result \in {"final", "failed"},
             Finish(w, result)
      PROVE  QueuedMeansProcessing'
  <2>1. CASE status' = status
    BY <1>0, <1>3, <2>1 DEF Finish
  <2>2. CASE status' # status
    <3>1. /\ current[w] /\ Ready(w) /\ stage[w] = "finish"
          /\ status' = [status EXCEPT ![work[w]] = result]
      BY <1>3, <2>2 DEF Finish
    <3>2. work[w] \in Messages
      BY <1>0, <3>1 DEF OrderInv, OrderOf, Executing
    <3>3. Has(w, JobRow(work[w]))
      BY <3>1, <3>2, RowFacts DEF Ready, Needs, MayLock, Executing
    <3>4. job[work[w]] # "queued"
      BY <3>1, <3>3 DEF LeaseInv, LeaseOf, Executing
    <3> QED
      BY <1>0, <1>3, <3>1, <3>4 DEF Finish, TypeOK
  <2> QED
    BY <2>1, <2>2
<1>4. ASSUME NEW w \in Workers, CloseJob(w) PROVE QueuedMeansProcessing'
  BY <1>0, <1>4 DEF CloseJob, TypeOK
<1>5. ASSUME NEW c \in Callers, CommitRetry(c) PROVE QueuedMeansProcessing'
  BY <1>0, <1>5 DEF CommitRetry, TypeOK
<1>6. ASSUME NEW m \in Messages, Expire(m) PROVE QueuedMeansProcessing'
  BY <1>0, <1>6 DEF Expire, TypeOK
<1>7. CASE UNCHANGED <<status, job>>
  BY <1>0, <1>7
<1>8. ASSUME NEW p \in Processes, Step(p) PROVE UNCHANGED <<status, job>>
  BY <1>8 DEF Step, Lock, Wait, Abort, Raise, tables
<1>9. ASSUME NEW w \in Workers,
             Recover(w) \/ ClaimNothing(w) \/ Prepare(w) \/ ReadJob(w)
      PROVE  UNCHANGED <<status, job>>
  BY <1>9 DEF Recover, ClaimNothing, Prepare, ReadJob, tables
<1>10. ASSUME NEW c \in Callers, NEW m \in Messages, Retry(c, m)
       PROVE  UNCHANGED <<status, job>>
  BY <1>10 DEF Retry, tables
<1>11. CASE UNCHANGED vars
  BY <1>11, <1>7 DEF vars
<1> QED
  BY <1>1, <1>2, <1>3, <1>4, <1>5, <1>6, <1>7, <1>8, <1>9, <1>10, <1>11
     DEF Next, Work

\* The lease invariant holds in every reachable state.
LEMMA LeaseInvariant == Spec => []LeaseInv
<1>1. Init /\ OrderInv => LeaseInv
  <2> SUFFICES ASSUME Init, OrderInv PROVE LeaseInv
    OBVIOUS
  <2>1. \A w \in Workers : LeaseOf(w)
    BY DEF Init, LeaseOf, Executing, Processes
  <2>2. QueuedMeansProcessing
    BY DEF Init, QueuedMeansProcessing
  <2> QED
    BY <2>1, <2>2 DEF LeaseInv
<1>2. LeaseInv /\ OrderInv' /\ [Next]_vars => LeaseInv'
  BY LeaseStep, QueueStep DEF LeaseInv
<1> QED
  BY <1>1, <1>2, LocksAreOrdered, PTL DEF Spec

\* A queued job belongs to a message that waits for mediation, whatever the
\* transactions of recoveries, executions and retries did in between.
THEOREM QueueIsRunnable == Spec => []QueuedMeansProcessing
BY LeaseInvariant, PTL DEF LeaseInv

\* A result is the job owner's, who holds both rows when it commits.
THEOREM ResultsAreTheOwners == Spec => ResultIsTheOwners
<1>1. LeaseInv /\ [Next]_vars =>
        [\A m \in Messages :
            status[m] = "processing" /\ status'[m] # "processing" =>
                /\ owner[m] \in Workers
                /\ attempt[m] = owner[m]
                /\ Has(owner[m], JobRow(m)) /\ Has(owner[m], MessageRow(m))]_vars
  <2> SUFFICES ASSUME LeaseInv, Next, NEW m \in Messages,
                      status[m] = "processing", status'[m] # "processing"
               PROVE  /\ owner[m] \in Workers
                      /\ attempt[m] = owner[m]
                      /\ Has(owner[m], JobRow(m)) /\ Has(owner[m], MessageRow(m))
    BY DEF vars
  <2>0. TypeOK /\ OrderInv
    BY DEF LeaseInv, OrderInv
  <2>1. \/ \E w \in Workers : \E result \in {"final", "failed"} : Finish(w, result)
        \/ \E c \in Callers : CommitRetry(c)
        \/ status' = status
    BY DEF Next, Step, Work, tables, Lock, Wait, Abort, Raise, Recover, CommitRecovery,
           Claim, ClaimNothing, Prepare, ReadJob, CloseJob, Retry, Expire
  <2>2. ASSUME NEW c \in Callers, CommitRetry(c) PROVE FALSE
    BY <2>0, <2>2 DEF CommitRetry, TypeOK
  <2>3. PICK w \in Workers, result \in {"final", "failed"} : Finish(w, result)
    BY <2>1, <2>2
  <2>4. /\ current[w] /\ Ready(w) /\ stage[w] = "finish" /\ attempt[work[w]] = w
        /\ status' = [status EXCEPT ![work[w]] = result]
    BY <2>3 DEF Finish
  <2>5. m = work[w]
    BY <2>0, <2>4 DEF TypeOK
  <2>6. Has(w, JobRow(m))
    BY <2>4, <2>5, RowFacts DEF Ready, Needs, MayLock, Executing
  <2>7. Has(w, MessageRow(m))
    BY <2>4, <2>5, <2>6, RowFacts DEF Ready, Needs, MayLock, Executing
  <2>8. owner[m] = w
    BY <2>4, <2>5, <2>6 DEF LeaseInv, LeaseOf, Executing
  <2> QED
    BY <2>4, <2>5, <2>6, <2>7, <2>8
<1> QED
  BY <1>1, LeaseInvariant, PTL DEF Spec, ResultIsTheOwners

=============================================================================
