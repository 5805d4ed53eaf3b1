------------------------- MODULE RowLockProperties -------------------------
(***************************************************************************)
(* What the order of the locks guarantees, and what it does not.           *)
(***************************************************************************)
EXTENDS RowLocks

WorkerStages == {"idle", "recover", "claim", "prepare", "finish", "close",
                 "closing", "leave", "down"}

\* every variable has its type
TypeOK ==
    /\ status \in [Messages -> {"processing", "failed", "final"}]
    /\ job \in [Messages -> {"queued", "leased", "expired", "closed"}]
    /\ owner \in [Messages -> Workers \cup {Nobody}]
    /\ attempt \in [Messages -> Workers \cup {Nobody}]
    /\ holder \in [Rows -> Processes \cup {Nobody}]
    /\ waiting \in [Processes -> Rows \cup {NoRow}]
    /\ stage \in [Processes -> WorkerStages \cup {"retry"}]
    /\ work \in [Processes -> Messages \cup {Nobody}]
    /\ batch \in [Workers -> SUBSET Messages]
    /\ current \in [Workers -> BOOLEAN]

\* However many workers recover and execute, they never wait for each other
\* in a circle: a deadlock takes a retry.
NoDeadlockOfWorkers == \A set \in SUBSET Workers : ~Deadlocked(set)

\* A result is committed by the worker whose lease token the job has, even if
\* the lease ran out while the worker waited for the message: the job has
\* been locked since the lease was validated.
ResultIsTheOwners ==
    [][\A m \in Messages :
          status[m] = "processing" /\ status'[m] # "processing" =>
              /\ owner[m] \in Workers
              /\ attempt[m] = owner[m]
              /\ Has(owner[m], JobRow(m)) /\ Has(owner[m], MessageRow(m))]_vars

\* A queued job belongs to a message that waits for mediation, whatever a
\* recovery, a late result and a retry did between each other's statements.
QueuedMeansProcessing ==
    \A m \in Messages : job[m] = "queued" => status[m] = "processing"

\* worker.run: "Poll until graceful shutdown is requested."
PollsUntilShutdown == \A w \in Workers : stage[w] # "down"

=============================================================================
