# 2talk: TLA+ specifications

2talk lets two people hold a conversation in which an AI mediator rewrites every
message before its recipient sees it. This directory models the parts of it
that must survive concurrency and failure: the durable mediation of messages (what
an HTTP request accepts, what workers lease, execute, settle and close, and what is
left when one of them dies half way), the row locks and the clock it relies on, the
content that goes to the provider and comes back, the room in which all this
happens (one invitation, two people, one end, sessions that expire), and what
the two browsers see of it. Paths below are relative
to `src/backend/app/` unless they start with `docs/` or `frontend/`.

## The system

| Component | State | Operations | Called by |
|---|---|---|---|
| Conversations (`services/conversation_service.py`) | `conversations.status`: waiting, active, ended | create, activate, end | HTTP |
| Invitations, joining (`services/invitation_service.py`, `participant_service.py`) | `invitations` (used, revoked, expires), `participants` | validate, redeem, change language | HTTP |
| Sessions (`api/auth.py`) | `participant_sessions` | authenticate, touch | every HTTP request |
| Message lifecycle (`services/message_lifecycle_service.py`) | `messages` (status, retry count), `message_deliveries`, `private_guidance` | send, retry; deliver, fail, block and re-try, which only tests call | HTTP |
| Job queue (`repositories/ai_mediation_jobs.py`) | `ai_mediation_jobs`, one row per message: status, lease token and expiry, claim count | ensure, reactivate, claim, complete, cancel, kill, release | lifecycle, worker |
| Attempts (`repositories/ai_processing_attempts.py`) | `ai_processing_attempts`: numbered, started once, closed once | create, complete, fail, reject | orchestration, recovery |
| Worker (`workers/ai_mediation_worker.py`) | its place in `run_once`, local variables, none persistent | recover, claim, execute, finalize the job | process loop |
| Orchestration (`services/ai_mediation_orchestration_service.py`) | none of its own | prepare, call the provider, finalize | worker |
| Provider adapter, output validation (`ai/`) | none | mediate, validate; the SDK's tries | orchestration |
| Mediated context (`repositories/messages.py`) | none | the delivered messages before one | orchestration |
| Settings (`config/settings.py`) | provider timeout, lease and stale age, fixed for a process | validate | HTTP, worker |
| Content reads (`services/participant_content_service.py`) | none | timeline, guidance, status, pagination | HTTP |
| Summaries, safety events | `conversation_summaries`, `safety_events` | no producer in this release | - |
| Frontend (`frontend/src`) | session in `sessionStorage`, the room as it last read it, the refresh under way, the composer | poll, send, retry, end, leave | the participants |

The components of the backend interact through the database only; a browser asks
for the room every few seconds, in three requests. A send inserts a message in
`processing` and its queued job in one transaction. A worker loops over four
transactions: *recovery* of jobs whose lease has expired; the *claim* of one
queued job, which gets a fresh lease token; *prepare*, which starts an attempt;
then, outside any transaction, the provider call; *finalize*, which settles the
message, its delivery, its guidance and the attempt together; and last
*finalize job*, which closes the queue row.

What is hard here, and what makes each part correct:

- **Ownership.** Every wait (the provider call) lies between two checks of the
  lease. A worker whose lease has expired must change nothing any more, however
  late it answers and whoever has taken over. Checked in `SettledUnderCurrentLease`
  and `LeaseIsExclusive`.
- **Crashes.** A worker may die between any two transactions. What is left (a
  leased job, a started attempt, a settled message with an open job) must be
  taken back by recovery exactly once. `RunningAttemptIsRecoverable`,
  `QueuedJobIsRunnable`, `ProcessingSettles`, `LeaseIsReleased`.
- **Two records of one fact.** Message, delivery, guidance and attempts tell one
  story or the participants see different conversations.
  `DeliveryAgreesWithMessage`, `LedgerExplainsMessage`, `SingleStartedAttempt`,
  `AttemptHistoryIsKept`.
- **What the participants are promised.** A message is accepted once, settles
  once per try, and is final when delivered or blocked. `MessageContract`,
  `SettledMessageIsFinal`.
- **Retries.** The sender may retry while the worker that failed the message is
  still closing its job. `StrandedOnlyAfterRetry` says how much damage that race
  can do, and `OnlyOwnerFinalizesJob` shows the race.
- **Stale reads.** The conversation's status is read without a lock by send,
  retry and prepare, and not at all by finalize. `ReadOnlyAfterEnd` shows what
  follows.

- **The room.** Joins that race for one invitation, or meet the end of the
  conversation, decide on rows that were read before the lock was granted; a
  session may expire after it was checked. `OneInvitationOneInvitee`,
  `ClosedStaysClosed`, `OnlyOldEndsAct`, and the
  `RoomContract`: opened once, entered once, closed once.
- **Locks.** Recovery and execution lock a job and then its message, a retry the
  message and then the job. `NoDeadlockOfWorkers` says what this order is good for,
  `PollsUntilShutdown` what it is not. `ResultIsTheOwners` and
  `QueuedMeansProcessing` say that deciding on rows read one after the other is
  safe.
- **Time.** The lease must outlast the provider call. `DroppedOnlyIfLate` and
  `OneCallUnlessLate` say exactly what the settings' inequality buys.
- **Content.** An answer of the provider is checked by its schema, by the output
  validation and by the database, and becomes part of later requests: where
  these checks differ, a message or its whole room gets stuck. `OnlyNulBreaks`,
  `RequestsStayValid`. A language is read before a wait and used after it:
  `NewLanguageApplies`, `LatestChangeCounts`.
- **The browser's view.** A refresh is put together from requests that are answered
  at different moments, and shared by whoever asks for one. `ShownIsTrue`,
  `ViewNeverGoesBack`, `VisibleIsShown`. An answer that is lost after the commit: `EmptiedOnceAccepted`,
  `CopiesAreExplained`.
- **Pages of a moving list.** A message takes its place when it is sent and can be read
  when it is delivered. `WalkMissesOnlyLateOnes`, `NothingTwice`, `CursorStaysValid`.

`PROJECT.json` lists these hazards at their lines, with those no property
covers yet.

## The modules

| Module | Contents |
|---|---|
| `MediationJobs` | one `ai_mediation_jobs` row and the queue's operations on it, as functions from row to row |
| `ProcessingAttempts` | the attempts of one message as a sequence of rows |
| `MediationSystem` | the state machine: HTTP services, workers, faults and time; `Spec`, `FairSpec` |
| `MessageContract` | the abstract specification: what the two participants are promised about a message |
| `MediationProperties` | the invariants, action and liveness properties, and the refinement mapping |
| `MCMediation` and its `.cfg` files | the instances TLC checks |
| `MediationProofs` | types, the contract, finality, delivery, running attempts, stranded messages |
| `MediationLedgerProofs` | lease tokens and the ledger of attempts; extends `MediationProofs` |
| `ConversationRoom` | one room: creation, the race to join, the end, tokens and their expiry |
| `RoomContract` | the abstract specification of a room |
| `RoomProperties`, `MCRoom` | its properties and the refinement mapping; its instances |
| `RoomProofs` | every safety property of the room |
| `RowLocks` | the transactions of mediation, one lock at a time |
| `RowLockProperties`, `MCRowLocks`, `RowLockProofs` | its properties, instances, and the proofs of every safety property |
| `LeaseTiming` | one job against the clock, for every valid setting |
| `LeaseTimingProperties`, `MCLeaseTiming`, `LeaseTimingProofs` | the same |
| `LanguageSettings` | the participants' languages and the requests that change them |
| `MediatedContent` | requests to the provider, their context, its answers; extends `LanguageSettings` |
| `ContentProperties`, `MCContent`, `ContentProofs` | its properties, instances, and the proofs of all of them |
| `Timeline` | what each participant may read of a conversation's messages, and its pages |
| `CursorWalk`, `CursorWalkProperties`, `CursorWalkProofs` | a reader that follows `next_cursor`, what its walk returns, and the proofs; extends `Timeline` |
| `RoomClient` | the browser: refreshes, composer, buttons; extends `Timeline` |
| `ClientProperties`, `MCClient`, `ClientProofs` | its properties, instances, and the proofs of every safety property |

### State and actions

One action is one database transaction wherever everything the transaction
decides on is read under a row lock it keeps. Where the code decides on a row it
read without a lock, reading and writing are two actions:

- `SendCheck`/`SendCommit` and `RetryCheck`/`RetryCommit`: the ACTIVE check reads
  `conversations` unlocked.
- `ReadJob`/`WriteJob`: `_finalize_job` loads the row with `get_by_id`, then
  selects it `FOR UPDATE`. SQLAlchemy returns the object already in the session's
  identity map and does not refresh it, so the lease is validated on the first
  read (`copy`) while the update goes to the row as it then is. SQLAlchemy
  writes the changed columns only, so `attempt_count` keeps its present value.

One unlocked read does not need this: prepare reads the conversation after it
has locked the job and the message, and everything it writes afterwards is
protected by those two locks; the transaction can be taken to happen at that
read.

`pc[w]` is where worker `w` stands in `run_once`: `recover`, `claim`, `prepare`,
`call` (the provider call is under way), `read`, `write`, or `down`. `cur`,
`lease`, `att`, `outcome` and `copy` are its local variables, forgotten when
`run_once` returns or the process dies.

Data is abstracted to what the properties tell apart. A message is its client
message id: several sends of one id model duplicates. Texts, languages, titles
and error wording are left out; the five failure codes of `_failure_code` are
one, `AI_FAILED`. The provider's answer is any of delivered with any guidance,
blocked with or without guidance for its sender, and an `AIError`. A lease token
is a fresh `uuid4`; because `attempt_count` grows at each claim and is never reset,
the count at the claim names the token, and 0 is SQL's NULL. Time is two flags:
a lease is `expired` or not, a started attempt is `stale` (older than
`ai_attempt_stale_seconds`) or not. `now` is taken before the row is read in
`_finalize_job`, which is why `ReadJob` may still see a lease as current that
has just expired. `_lock_execution_lease` takes `now` under the lock.

`Recover(w, batch)` handles any subset of the expired rows: `SKIP LOCKED` and the
limit of 100 may leave rows out. `ClaimNothing` is possible although a job is
queued: it may be locked, or become available just after the poll took `now`.

`ExecutionError` is any exception of `process_message` (caught, logged, the job
stays leased); `Crash` is a kill or an exception outside it, which `run` does not
catch. `PrepareRefused` is the exception the code raises on purpose.

`DirectCalls = TRUE` adds the lifecycle methods that only tests call. They lock
the message and not its job, so they happen behind the worker's back.

### The room

`ConversationRoom` follows one conversation from its creation. A join is three
actions: `JoinStart` reads the invitation and queues for the conversation's row;
`JoinAdmit` is granted the lock, reads the invitation again and decides;
`JoinCommit` inserts the participant and the session, marks the invitation used and
activates the conversation. The last two are separate because the invitation is
not locked: it may be revoked or expire in between. The end decides and writes
under the lock in one action, `EndCommit`, but `EndStart`, its authentication, is an
earlier transaction. `Drop` is a client or server that gives up: the transaction
rolls back, or the answer with the only copy of a raw session token is lost (`held`
is what clients have received). `issued`, `expired` and `revoked` range over the three
tokens, the invitation's and the two sessions'. Each lives one day from a reading
of the wall clock and expires by later readings of it, so nothing is assumed about the
order in which they expire.

`invitees` counts rows, so that the unique constraint on role is not assumed:
`OneInvitationOneInvitee` shows that it never has to step in. It also shows that
`activate_conversation`, which has no caller, would always refuse. Revocation has
no caller either; `DirectCalls` adds it. Names, languages and hashes are left out.

The two models meet in the conversation's status: `MediationSystem` starts where
`JoinCommit` leaves the room, active with both participants, which is why every
message there has a recipient (`OneInvitationOneInvitee`), and its `EndConversation`
is `EndCommit`, after which `RoomContract` excludes that it becomes active again.

### Row locks

`MediationSystem` takes a transaction as one step, which hides what happens between
its statements. In `RowLocks` every `SELECT ... FOR UPDATE` is a step: `Lock` takes a
row that is free, `Wait` queues for one that is not. `MayLock` gives the rows a
process may ask for, in the order of its statements; a transaction writes and
releases in one step, its commit (`CommitRecovery`, `Prepare`, `Finish`,
`CommitRetry`). `Claim` and the selection of expired leases use `SKIP LOCKED`
and never wait; a claim locks and commits with nothing in between, and
`_finalize_job` (`CloseJob`) locks a single row, so each is one step. The lease is
validated when the job's row is granted (`current`), and may run out before the
message's row is. `ReadJob` reads without a lock, as above.

That PostgreSQL queues the requests for a row, and aborts one transaction of
a circle (`Abort`, any of them), is external. What an abort leads to is the code's: a retry
is answered with an error, an execution is logged and left to recovery, but
`recover_expired_leases` is called outside of the `try` of `run_once`, and its
exception ends the worker. `Raise` is any other exception of an execution or a retry, such as
that of a conversation that is not active. A lease is named by its worker, since nobody claims a job
again while the worker is still on it without ending the lease first; crashes are
left to `MediationSystem`.

### The clock

`LeaseTiming` counts time in units of the validated margin's 5 seconds. `settings` is any
valid combination. `Tick` is possible as long as no try of the provider call is past
its timeout: a try ends at its timeout at the latest, but the client, which is made
without `max_retries`, may start another (`TryAgain`). In fact httpx applies the
timeout to connecting, reading and writing separately, so a try may even take
longer, and the SDK pauses between tries; `DroppedOnlyIfLate` and
`OneCallUnlessLate` speak of the time that was really spent and hold for
calls of any length. `run_once` reads the clock before the transaction that claims
(`ReadClock`), and the lease counts from that reading (`claimed`). `outside` and `inside` are
history: how long a worker has since been outside and
inside of the provider call. `Rest` forgets all of it when `run_once` ends. All
workers read one clock, the database host's and
theirs being the same in the deployment (`docker-compose.yml`).

### Languages and content

A change of language is authenticated in one transaction and written in another, of
the same session (`Authenticate`, `UpdateLanguage`): `get_by_id` finds the object
the first has loaded, so a change to the value it had then writes nothing.

`MediatedContent` abstracts a text to the kinds that some check tells apart: plain,
blank, longer than allowed, with a NUL character, or absent. `Answers` is every
combination of the fields of `MediationResult`; `WellFormed` and
`GuidanceWellFormed` are the validators of `ai/models.py`, `Accepted` adds
`validate_mediation_result`, and `Storable` is what the tables' constraints take.
A request is prepared if `RequestIsValid`, since `MediationRequest` validates its
context; nothing catches a failure there. It asks for the language the recipient then has
(`Wanted`), and `after` is history: the changes that had been answered by then.
`Settle` and `Break` are the two ends of
an accepted answer. Guidance is never read again by a request, so the log
does not keep it. `Recover` is the recovery's rejection of a given-up attempt.

### Reading, and the browser

`Timeline` is the log of messages in the order of every query, `created_at`. That is
the start of the inserting transaction, so an entry takes its place (`Begin`,
`OpenSend`) before anybody can see it (`Commit`): "open" entries are what makes
a walk miss a message. `Outgoing`, `Incoming` and `Guided` are the three queries;
`Page`, `HasMore` and `NextCursor` are `_paginate`. A page of messages is read by two queries
that may see different moments (`StartPage`, `FinishPage`); a walk starts with any
message id as its cursor, or none, and `RefusePage` is the answer to one the reader
cannot see.

`RoomClient` is one browser, the other participant acting on the server. A refresh
gathers four answers from three requests (`Answer`) and replaces the view when it
has all of them (`Show`); at most one is under way, and who asks meanwhile joins
it. A send that was accepted waits for that refresh, whatever becomes of it,
and then empties the composer (`Resume`). `FailRefresh`, `RefuseSend`, `LoseAnswer`
and `SendAway` are a failed request, a refusal, an answer lost after the commit, and the
401 that clears the session. The server behind it is `MessageContract`'s: entries settle at
any time, with any of the instance's `Outcomes`, also after the end. The model
starts with the room of a participant who has joined; the forms, the waiting room and
the clipboard are left out.

### Properties

Each is stated with its comment in the properties' module of its model. Some
deserve a word.
`RunningAttemptIsRecoverable` is what makes recovery complete: it skips a running
attempt whose token differs from the job's, and such a job would stay leased for
ever. `LedgerExplainsMessage` counts: the failed attempts of a message are its
retries plus its present failure.

`ImplementsContract` maps `status` and `retries` to the message row, `visible` to
the delivery rows and `advice` to the guidance rows. Leases, crashes, recovery and
the two-step finalization are all stuttering steps of the contract.

`ViewNeverGoesBack` compares retries and status, not status alone: a message that
failed and is retried is shown in processing again, and that is no step back.
`WalkMissesOnlyLateOnes` is the exact promise of a cursor: what could be read when
a page was begun is on it or before it. What is delivered behind the cursor is missed, and
has to be, since the order is that of sending. `LatestChangeCounts` does not
ask that the last request wins, since overlapping ones have no order, but that
none wins which a later one has seen and replaced. `NewLanguageApplies` draws the
line of a change at the beginning of an attempt: whatever begins after the answer uses the
new language, and what is under way need not.

`OnlyOldEndsAct` starts where nobody has a session or an invitation that can still be used. An end
that was authenticated before is not stopped by that, since the session is checked in a
transaction of its own; the property says that it is all that can happen, and once.

## The runs

| Run | Instance | Shows |
|---|---|---|
| `one` | 1 message, 2 workers that may crash, 2 requests, 1 retry, 4 claims, 2 faults | the agreement of job, attempts and message; settling under the lease only |
| `direct` | 1 message, 2 workers that may crash, 2 requests, the direct calls, 1 retry, 3 claims, 1 fault | delivery, finality and the contract when the job's lock is bypassed |
| `live` | 1 message, 2 workers of which one may crash, 1 request, 1 retry, 5 claims, 1 fault | progress |
| `ownership` | 1 message, 1 worker, 1 request, 1 retry | violated: a worker closes a job it no longer owns |
| `read_only` | 1 message, 1 worker, 1 request | violated: a message accepted after the end |
| `room` | 3 requests, revocation allowed | the room's invariants, action properties and contract; every request is answered |
| `locks` | 2 messages, 2 workers, 1 retry | no deadlock of workers; results under the owner's locks |
| `locks_down` | 1 message, 1 worker, 1 retry | violated: a deadlock ends a worker |
| `lease` | 2 workers that may crash, settings of 1, 3 or 4 units, 2 retries of the client, 10 units of time | work is lost only by the late |
| `content` | 3 messages, 2 languages, 2 changes, a context of 1 | what is accepted can be stored and sent on; a new language holds from the next attempt, and no replaced one comes back |
| `walk` | 3 messages, pages of 1, 1 retry | what a walk through the pages misses |
| `client` | 2 messages, pages of 2, 1 text, 1 retry, 1 fault | what is shown happened, stays, and appears; what becomes of a text |

Bounds. `MaxRetries`, `MaxClaims` and `MaxFaults` are guards that cut off further
retries, claims and faults. Messages share only the conversation, the workers and
the transaction of recovery, so one message explores the protocol; that a recovery
handles several rows is the subject of `RowLocks`, whose theorems hold for any
number of messages. Two workers give an old and a new holder of one job; a third
would only be another old one. Two faults allow a fault during the recovery from
a fault; with 4 claims neither the first claim, a reclaim after each fault, nor
the claim after the retry is cut off. In `live` five claims are enough that the
bound never stops an active conversation: otherwise `ProcessingSettles` would
fail. Claims after the end of a conversation are cut off by the bound, which no
liveness property relies on. Three requests are a join that holds the lock, one
that waits, and an end; the room needs no other bound, since requests are reused
and all else is finite.

`RowLocks` is finite without a bound. Two messages are needed for a recovery that
holds several rows, two workers for two chains of locks that could cross; its safety
properties are proved for any number of them. In `lease`, 10 units of time see a lease of 3 or 4 run out while
its call of up to three tries goes on, a second claim, its call, and what becomes
of both. Leases of 3 and 4 are the least valid one for a timeout of 1 and the next;
a stale age may be shorter than the lease, equal or longer. In `content`, three
messages and a context of one are the least with more before a message than its
context takes; `RequestMax` equals `ContextLimit`, as both are 50 in the code. In
`walk`, pages of one message are the smallest, and each of the two cursors of a walk
through three messages lies between messages that still change.

In `client` one message is the browser's own and one the other side's, or both are
the other side's, and each may be in any state when each of a refresh's queries is
answered. The fault is a failed refresh, a lost request, a lost answer or a lost
session. `Outcomes` leaves out blocked messages: to a browser its own look like
delivered ones, those of the other side like failed ones. `VisibleIsShown` and
`ViewNeverGoesBack` need a page that holds every message; the code's holds 100, and a
conversation with more is where they end (see below).

Deadlock is checked for `MediationSystem` and `RowLocks`. The others really stop:
the room when its tokens have expired and no request is open, a walk at its last
page, a browser whose room has ended, a log and a clock at their bounds.

The symmetry sets are sound: workers are interchangeable where all are mortal or
none is, and so are requests and changes of language. The runs with a liveness
property use none.

Fairness (`Fairness` in `MediationSystem`). `run` loops for ever and the provider
call has a timeout, so a worker that is up keeps taking steps: weak fairness of
`Work(w)`. Polling and `SKIP LOCKED` could pass over a row now and then, but locks
are held for short transactions and both queries order by age: strong fairness of
claiming a queued job, and of a recovery that skips nothing. Time passes: weak
fairness of the expiry of a lease nobody is working under and of the aging of an
attempt. Nothing makes a request, a restart, a fault or the end of a conversation
happen. In the room, `Serve(r)` is strongly fair: PostgreSQL grants a row lock in
the order of the requests, and a request that others overtake for ever would be
one that it never grants. In the browser, the
timer of the polling fires, requests are answered, and a transaction that has begun
commits: weak fairness of `Poll`, `Refreshing`, `AcceptSend` and `CommitSend`. Nobody
has to write, press or mediate.

`ProcessingSettles` excludes two states by name, both real: the conversation has
ended (every later claim of its job is refused, and the job cycles between leased
and queued for ever), and the retry race has closed the job (`Stranded`).

### Where code and documents disagree

Three runs show a violation:

- `ownership`: the comment "Lock the queue row before validating the ownership
  token" (`workers/ai_mediation_worker.py`, line 189) describes what the stale
  copy prevents. Worker fails the message, loads the job; the sender retries, the
  job is queued again; the worker locks the row, finds its token in the copy and
  marks the job dead. The message stays in processing, and no request can retry
  it.
- `read_only`: "Ending a conversation makes it read-only" (`README.md`, line 59) and
  "New messages are rejected" (`docs/07_API_SPEC.md`, line 345), but the check of a
  send is not protected against a concurrent end. For the same reason a retry may be
  accepted after the end, and an answer in flight is still settled and shown.
- `locks_down`: "Poll until graceful shutdown is requested"
  (`workers/ai_mediation_worker.py`, line 97), but when a retry and the recovery wait for
  each other and PostgreSQL aborts the recovery, the exception ends the process.

The following is read from the code and the models; no run is spent on it, since
properties that hold already draw the line, where one is named:

- "Require a lease long enough for the provider timeout and finalization"
  (`config/settings.py`, line 32), but the client in `ai/factory.py` keeps the SDK's
  default retries, each with a timeout of its own, so that a call with every try in
  time may outlast its lease (`Late` in `DroppedOnlyIfLate`).
- "The sender receives an appropriate retry status"
  (`docs/06_ACCEPTANCE_TESTS.md`, line 685), but a text with a NUL character passes
  the validation and is refused by PostgreSQL, outside of what is caught: the message
  stays in processing until the recovery gives its attempt up (`OnlyNulBreaks`).
- "The new language applies to future mediated messages" (`docs/07_API_SPEC.md`,
  line 532), but an attempt that is under way delivers in the old one after the change
  has been answered (`NewLanguageApplies`, which exempts it by name).
- "The delivered message appears automatically" (`docs/06_ACCEPTANCE_TESTS.md`,
  line 633), but the room asks for the first 100 messages and ignores `has_more`:
  no property covers the 101st, and `VisibleIsShown` is checked where the page has room
  for the whole conversation.
- "the message is processed and delivered only once"
  (`docs/06_ACCEPTANCE_TESTS.md`, line 697), but each try of a send draws a new client
  message id. `CopiesAreExplained` is the weaker promise that the code keeps: no more
  copies than lost answers.
- "successful send refreshes and shows processing" (`frontend/tests/app.spec.ts`,
  line 122), but the refresh may be one that had read the messages before. The next
  poll shows it.
- "Existing history remains available" (`docs/06_ACCEPTANCE_TESTS.md`, line 720), but
  the refresh that finds the conversation ended may have read the messages earlier,
  and is the last: a message delivered in between is shown only after a reload.
- `docs/06_ACCEPTANCE_TESTS.md` (line 35) wants a created conversation to be active;
  it is waiting until the second participant joins, as `docs/07_API_SPEC.md`
  (line 474) has it.

## The proofs

Every invariant and every action property that a passing run checks is a theorem
that TLAPS proves, and so are both refinements. Of `MediationSystem`, for any
number of messages, workers and requests and any bounds:

| Theorem | Property |
|---|---|
| `TypeCorrect` | `TypeOK`, with the check constraint that ties a lease token to the leased status |
| `SystemImplementsContract` | `ImplementsContract` |
| `SettledIsFinal` | `SettledMessageIsFinal` |
| `DeliveryAgrees` | `DeliveryAgreesWithMessage` |
| `SingleStarted` | `SingleStartedAttempt` |
| `StrandedOnlyByRetry` | `StrandedOnlyAfterRetry` |
| `HistoryIsKept` | `AttemptHistoryIsKept` |
| `LeasesAreExclusive` | `LeaseIsExclusive` |
| `LedgerIsTrue` | `LedgerExplainsMessage`, without the direct calls |
| `RunningIsRecoverable` | `RunningAttemptIsRecoverable`, without the direct calls |
| `QueuedIsRunnable` | `QueuedJobIsRunnable`, without the direct calls |
| `SettledByTheOwner` | `SettledUnderCurrentLease`, without the direct calls |

of `ConversationRoom`, for any number of requests:

| Theorem | Property |
|---|---|
| `RoomTypes` | `TypeOK` |
| `RoomHasOneInvitee` | `OneInvitationOneInvitee` |
| `RoomImplementsContract` | `ImplementsRoom` |
| `ClosedRoomStaysClosed` | `ClosedStaysClosed` |
| `LockedOutForGood` | `OnlyOldEndsAct` |

of `RowLocks`, for any number of workers, retries and messages:

| Theorem | Property |
|---|---|
| `TypeCorrect` | `TypeOK` |
| `WorkersNeverDeadlock` | `NoDeadlockOfWorkers` |
| `QueueIsRunnable` | `QueuedMeansProcessing` |
| `ResultsAreTheOwners` | `ResultIsTheOwners` |

of `LeaseTiming`, for any number of workers, any margin, any set of values of
the settings and any number of retries of the client:

| Theorem | Property |
|---|---|
| `TypeCorrect` | `TypeOK` |
| `DropsAreLate` | `DroppedOnlyIfLate` |
| `CallsAreAlone` | `OneCallUnlessLate` |

of `MediatedContent`, for any number of messages, languages and changes of language:

| Theorem | Property |
|---|---|
| `NulAloneBreaks` | `OnlyNulBreaks` |
| `NewLanguageIsUsed` | `NewLanguageApplies` |
| `LatestChangeWins` | `LatestChangeCounts` |
| `RequestsAreValid` | `RequestsStayValid`, if a request may hold the whole context |

of `CursorWalk`, for any length of the conversation and of a page:

| Theorem | Property |
|---|---|
| `WalkIsComplete` | `WalkMissesOnlyLateOnes` |
| `WalkRepeatsNothing` | `NothingTwice` |
| `HandedOutCursorIsAccepted` | `CursorStaysValid` |

and of `RoomClient`, for any number of browsers, other participants, texts and faults:

| Theorem | Property |
|---|---|
| `TimelineIsTrue` | `ShownIsTrue` |
| `TextIsKeptUntilAccepted` | `EmptiedOnceAccepted` |
| `CopiesComeFromLoss` | `CopiesAreExplained` |
| `TimelineGoesForward` | `ViewNeverGoesBack`, if a page holds every message |

Assumptions are those the modules name. Of `MediationSystem`: mortal workers are
workers, the null message is no message, bounds are naturals, `DirectCalls` is
Boolean. Of `RowLocks`: workers and callers are different, and nobody is none of
them. Of `LeaseTiming`: nobody is no worker, and times are naturals. Of
`MediatedContent`: two participants, and limits are naturals. Of `CursorWalk`: the
reader is not the other participant, and a page has room for a message. Of
`RoomClient`: browsers and other participants are different, and an outcome is one
that the server may record.

Six theorems have a hypothesis of their own, where the property is false without it.

- `~DirectCalls`, four times: the service methods that deliver, settle or retry a
  message past the queue are called by tests only; the run `direct` checks what holds
  also when they are called.
- `ContextLimit <= RequestMax`: `MAX_CONTEXT_MESSAGES` of the orchestration service
  and the length that the request's model allows are both 50.
- `MaxLog <= PageLimit`: the room asks for one page of 100. In a longer
  conversation a message of the first page can be pushed out of it by an earlier one
  that is delivered later.

The arguments. `TypeInv` adds to `TypeOK` that a busy worker has a message, and is
inductive. From it every step is shown to be a step of the contract on one
message or to leave all four contract variables alone (`StepImplements`); the
refinement follows. `MovesOfOneMessage` then reads off the contract in which six
ways one message may move, and finality and the agreement of delivery follow
from it alone, without the system's actions: this is what the abstract
specification is for. `SingleStarted` is inductive given the types: an attempt
starts only where the latest is closed. `StrandedOnlyAfterRetry` is not inductive,
because the worker closes a job on an outcome it learnt earlier. The
strengthening `StrandedInv` adds `VerdictIsSettled` (the message of a worker whose
outcome asks for closing is settled, or has been retried), which is stable because
only a retry leaves the settled states and it is counted, and `AbsentHasNoJob`,
which excludes that an outcome refers to a message never sent.

The room has one inductive invariant, `RoomInv`. `OneInvitationOneInvitee` is not
inductive: a join that commits must still find what it decided on. `LockedToInsert`
(a request holds the lock exactly while it inserts) and `DecisionStands` (while it
does, the room is waiting and without invitee) carry the decision to the commit;
`QuietBeforeCreation` and
`SummaryOnlyAfterEnd` are what the contract's `Close` needs. `ClosedStaysClosed`
follows from it and from `DecidedByAdmission`
(only `JoinAdmit` lets a join in). `OnlyOldEndsAct` needs the types alone: of all actions,
only a new join, refusals, drops, expiry, revocation and the commit of an old end can happen in such a room,
and none of them brings a request nearer to an admission or an end.

Why workers never deadlock is an order: `OrderInv` says that a worker that has a
message's row has its job's row, that all rows it has are those of its
transaction, and that it waits only for a row that it still needs. A worker that
waits for a message's row therefore waits for no other worker: whoever has that row
has the job's row too, which is already the first one's. So all of a circle would
wait for jobs' rows, and who waits for a job's row has none. The recovery takes its
jobs without waiting, which is where `SKIP LOCKED` is needed. `LeaseInv` adds that
a lease that was validated stays its owner's while the job's row is locked, although
it may run out (`LeaseOf`), and with it that a queued job has a message in processing: a result is
never committed over a queued job.

The lease's invariant, `Books`, keeps accounts: since it read the clock, a worker's time is
what it spent outside and inside the provider call (`ClockAddsUp`), from nothing
(`NothingSpent`); once it has claimed, it has the lease it claimed, or
that lease's time is over (`LeaseOrOver`); and the attempt is the owner's (`AttemptFits`,
`RowFits`). A lease whose time is over then means that `outside + inside` is at least the lease,
which is more than timeout and margin, so one of the two is exceeded: this is the
only place where the settings' inequality is used, and without it the proof fails.

Tokens and ledger. `MediationLedgerProofs` first shows that a step does to the rows
of one message one of a few things (`MessageStep`); the rest never looks at the
actions again. `LeaseIsExclusive` is not inductive: the claim must take a token nobody has.
`TokenInv` says why it does: no token is ahead of its job's count, neither the job's
nor a busy worker's (`LeasesCounted`). It adds that a call has an attempt with its
worker's token (`CallHasAttempt`), and that while the lease holds this attempt is the latest one
(`OwnerIsLatest`), so that the answer of an owner is never refused as stale, and
closing an attempt is always closing the last row. `LedgerInv` has two parts per
message. `Explains` is the ledger itself and that an absent message has none; its steps rest on the lemmas
that count the failed rows of a sequence after adding, closing and aging a row. `Runnable` is
`RunningAttemptIsRecoverable` and `QueuedJobIsRunnable`, which need each other: a
claim finds no running attempt because the job was queued, and the recovery finds the
attempt because a claim did not take place while it was running.

Content. That only a NUL character breaks a call (`CallOK`) and that
what is stored as delivered was accepted (`EntryOK`) is inductive, and every request is
made of what is stored as delivered. `LatestChangeCounts` is the hard one: a change
that asks for the language its request has loaded writes nothing, although the
language may have been changed meanwhile. `LanguageInv` carries a witness (`Due`): a
change that wrote the present language, and that no answered change has seen answered.
Either the language is still what the request loaded, or it is due to a change that this one
does not replace (`LoadedOrDue`); either way there is a witness after it answers.
`AfterGrows` makes the histories of changes comparable, without which two of them could
replace each other's witnesses. `NewLanguageApplies` uses the same witness: at the beginning of an
attempt the language of the recipient is due to an answered change that no answered one has
replaced (`Due`), and `AttemptsOK` keeps that fact until the answer, because an answered change and what
it had seen never change any more (`AnsweredStays`).

Pages. The lemmas `SelectedIsFirst`, `Paginate` and `CountPage` say what `Timeline`'s
operators compute: the least ids after the cursor, as many as fit. `WalkInv` adds to
the three properties what a page knows between its two queries (`PageIsTrue`: what the first one returned
can still be read, and contains what could be read of the reader's own) and that the cursor
is a message that was returned, above all others (`CursorFollows`). That nothing
readable is ever unreadable again, which all of it rests on, is proved of every step of the log.

Browser. `ClientInv` is proved for each browser on its own, against a log that anybody
moves forward (`LogMoves`, `Advance`). What is shown and what a refresh has read are past states
of messages (`ItemsArePast`), and what a refresh has read is not behind what is shown
(`AnswersAreLater`). The latter holds because there is one refresh at a time
(`OneRefresh`), which is what `refreshPromise` is for. Of
the composer, the entry of a send is one of the text it was made of (`PostedIsSent`), and a
text that may still be sent has one copy less than one that may not
(`CopiesCounted`): the copy that is about to be made, or the answer that was lost.

Only model-checked: the liveness properties `ProcessingSettles`, `LeaseIsReleased`,
`RequestIsAnswered` and `VisibleIsShown`, which rest on fairness that this prover does
not handle, and the three properties that are violated.

## Not modelled

- The orchestrator without a lease token: only tests construct it.
- `renew_lease`, `get_valid_by_token_hash` of invitations and other methods with
  no caller.
- Branches for messages, jobs or participants that do not exist: nothing deletes
  them.
- Membership and sender checks of send and retry: they compare identities that
  do not change.
- Row locks in `MediationSystem`, where a transaction waits for them inside its
  action: they are the subject of `RowLocks`, and the conversation's row of
  `ConversationRoom`.
- The wording of the prompt, the transport and the SDK, but for the number and length of its
  tries; the free-text fields of an answer that nothing reads again.
- `get_outgoing_message`, `get_summary` and `validate_invitation`: single reads. The page of guidance, which is
  cut like that of messages, is taken to hold all of it in `RoomClient`.
- Error mapping and schemas of requests: they turn exceptions into answers and keep
  no state. Of the answers a browser only tells a 401 from other errors.
- Forms, routing, the waiting room and the clipboard of the frontend: one person's
  input, sent by one request.
- Migrations and containers: the constraints they create are guards of the
  actions.
- The components marked `not_modelled` in `PROJECT.json`.

## Plan

Done: the mediation of messages, the room, row locks, the clock, languages, answers
and context, pages, and the browser, each with proofs of all its safety
properties. Left, in this order:

1. The waiting room and the creation of a room in the browser, with the lost answer
   of a join.
2. That `RowLocks` implements the transactions of `MediationSystem`: its statements
   map to one action at each commit.
3. Invariants that tie the conversation's end in `ConversationRoom` to that of
   `MediationSystem`, where today each has its own.
