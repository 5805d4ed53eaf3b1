----------------------------- MODULE LeaseTiming -----------------------------
(***************************************************************************)
(* One mediation job against the clock: how long its lease, the calls of   *)
(* the provider and the age of an attempt may be, as Settings validates    *)
(* them.  Every worker reads the same clock.                               *)
(*                                                                         *)
(* The provider's client is external: a call is one or more tries, each    *)
(* ended by an answer or by the timeout at the latest, since the client is *)
(* made and called with a timeout but with the client's own retries.       *)
(***************************************************************************)
EXTENDS Integers

CONSTANTS
    Workers,
    Nobody,
    Margin,      \* the 5 seconds of Settings.model_post_init
    Seconds,     \* the values a setting may have
    SdkRetries,  \* max_retries of the provider's client
    MaxClock     \* bound on the time

ASSUME NobodyAssumption == Nobody \notin Workers
ASSUME TimesAssumption ==
    /\ Margin \in Nat /\ SdkRetries \in Nat /\ MaxClock \in Nat
    /\ Seconds \subseteq Nat

VARIABLES
    settings,
    now,
    job,       \* mediation_jobs.status
    owner,     \* the worker whose lease token the job has
    expires,   \* lease_expires_at
    attempt,   \* the worker whose attempt is the started one
    started,   \* its request_started_at
    stage,     \* what a worker is doing
    tries,     \* the tries of its call
    until,     \* when the current try times out
    claimed,   \* the clock as it read it before its claim
    outside,   \* history: how long it has not been waiting for the provider
    inside     \* history: how long it has

row == <<job, owner, expires, attempt, started>>
time == <<now, claimed, outside, inside>>
vars == <<settings, now, job, owner, expires, attempt, started, stage, tries,
          until, claimed, outside, inside>>

\* fault: the lease has no room for what comes before and after the call
LongerThanTheCall(s) == s.lease > s.timeout

\* model_post_init
Valid(s) == s.lease > s.timeout + Margin

Settings == {s \in [timeout : Seconds, lease : Seconds, stale : Seconds] :
                /\ s.timeout > 0 /\ s.lease > 0 /\ s.stale > 0
                /\ Valid(s)}

Init ==
    /\ settings \in Settings
    /\ now = 0
    /\ job = "queued"
    /\ owner = Nobody
    /\ expires = 0
    /\ attempt = Nobody
    /\ started = 0
    /\ stage = [w \in Workers |-> "idle"]
    /\ tries = [w \in Workers |-> 0]
    /\ until = [w \in Workers |-> 0]
    /\ claimed = [w \in Workers |-> 0]
    /\ outside = [w \in Workers |-> 0]
    /\ inside = [w \in Workers |-> 0]

GoTo(w, s) == stage' = [stage EXCEPT ![w] = s]

\* the worker's run_once is over, and what it knew is gone
Rest(w) ==
    /\ GoTo(w, "idle")
    /\ tries' = [tries EXCEPT ![w] = 0]
    /\ until' = [until EXCEPT ![w] = 0]
    /\ claimed' = [claimed EXCEPT ![w] = 0]
    /\ outside' = [outside EXCEPT ![w] = 0]
    /\ inside' = [inside EXCEPT ![w] = 0]

----------------------------------------------------------------------------
(* The job's row *)

\* lease_is_current
HasLease(w) == job = "leased" /\ owner = w /\ expires > now

\* run_once reads the clock before the transaction that claims
ReadClock(w) ==
    /\ stage[w] = "idle"
    /\ GoTo(w, "claiming")
    /\ claimed' = [claimed EXCEPT ![w] = now]
    /\ UNCHANGED <<settings, now, row, tries, until, outside, inside>>

Claim(w) ==
    /\ stage[w] = "claiming"
    /\ job = "queued"
    /\ job' = "leased"
    /\ owner' = w
    /\ expires' = claimed[w] + settings.lease
    /\ GoTo(w, "preparing")
    /\ UNCHANGED <<settings, time, attempt, started, tries, until>>

\* no job is available
ClaimNothing(w) ==
    /\ stage[w] = "claiming"
    /\ job # "queued"
    /\ Rest(w)
    /\ UNCHANGED <<settings, now, row>>

\* fault: a released job keeps its lease token
ReleaseWithToken == job' = "queued" /\ attempt' = Nobody /\ UNCHANGED owner

\* release_for_retry, after mark_rejected if an attempt is given up
Release == job' = "queued" /\ owner' = Nobody /\ attempt' = Nobody

\* fault: a lease is given up as soon as the attempt is old enough
StaleIsEnough == job = "leased"

LeaseIsOver == job = "leased" /\ expires <= now

\* recover_expired_leases: an attempt that is not stale yet keeps its lease
Recover(w) ==
    /\ stage[w] = "idle"
    /\ LeaseIsOver
    /\ \/ attempt = Nobody
       \/ attempt = owner /\ started <= now - settings.stale
    /\ Release
    /\ UNCHANGED <<settings, time, expires, started, stage, tries, until>>

----------------------------------------------------------------------------
(* An execution *)

StartTry(w) == until' = [until EXCEPT ![w] = now + settings.timeout]

Prepare(w) ==
    /\ stage[w] = "preparing"
    /\ HasLease(w)
    /\ attempt = Nobody
    /\ attempt' = w
    /\ started' = now
    /\ tries' = [tries EXCEPT ![w] = 1]
    /\ StartTry(w)
    /\ GoTo(w, "calling")
    /\ UNCHANGED <<settings, time, job, owner, expires>>

\* the client tries again
TryAgain(w) ==
    /\ stage[w] = "calling"
    /\ tries[w] <= SdkRetries
    /\ tries' = [tries EXCEPT ![w] = @ + 1]
    /\ StartTry(w)
    /\ UNCHANGED <<settings, time, row, stage>>

\* an answer, or an AIError
Return(w) ==
    /\ stage[w] = "calling"
    /\ GoTo(w, "finishing")
    /\ UNCHANGED <<settings, time, row, tries, until>>

MayFinish(w) == HasLease(w) /\ attempt = w

\* the result is settled, and the job completed or dead
Finish(w) ==
    /\ stage[w] = "finishing"
    /\ MayFinish(w)
    /\ job' = "closed"
    /\ owner' = Nobody
    /\ attempt' = Nobody
    /\ Rest(w)
    /\ UNCHANGED <<settings, now, expires, started>>

\* a stale lease: what has been done is dropped
Drop(w) ==
    /\ \/ stage[w] = "preparing" /\ ~(HasLease(w) /\ attempt = Nobody)
       \/ stage[w] = "finishing" /\ ~MayFinish(w)
    /\ Rest(w)
    /\ UNCHANGED <<settings, now, row>>

\* the process ends, and another one takes its place
Crash(w) ==
    /\ stage[w] # "idle"
    /\ Rest(w)
    /\ UNCHANGED <<settings, now, row>>

----------------------------------------------------------------------------

Tick ==
    /\ now < MaxClock
    /\ \A w \in Workers : stage[w] = "calling" => now < until[w]
    /\ now' = now + 1
    /\ outside' = [w \in Workers |->
                      IF stage[w] \in {"claiming", "preparing", "finishing"}
                      THEN outside[w] + 1 ELSE outside[w]]
    /\ inside' = [w \in Workers |->
                     IF stage[w] = "calling" THEN inside[w] + 1 ELSE inside[w]]
    /\ UNCHANGED <<settings, row, stage, tries, until, claimed>>

Work(w) ==
    \/ Recover(w)
    \/ ReadClock(w)
    \/ Claim(w)
    \/ ClaimNothing(w)
    \/ Prepare(w)
    \/ TryAgain(w)
    \/ Return(w)
    \/ Finish(w)
    \/ Drop(w)
    \/ Crash(w)

Next == Tick \/ \E w \in Workers : Work(w)

Spec == Init /\ [][Next]_vars

=============================================================================
