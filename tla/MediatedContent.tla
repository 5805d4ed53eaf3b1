--------------------------- MODULE MediatedContent ---------------------------
(***************************************************************************)
(* The content that goes to the provider and comes back: the languages and *)
(* the context a request carries, which answers are accepted, what the     *)
(* database takes of them, and what of it later requests carry again.      *)
(*                                                                         *)
(* A text is one of the kinds that some check tells apart: "plain";        *)
(* "blank", only white space; "long", over the length it may have; "nul",  *)
(* with a NUL character, which is in a JSON string but in no PostgreSQL    *)
(* text; or "none".  Guidance is a text too, plain as "notice" when it is  *)
(* of the type safety_notice.                                              *)
(***************************************************************************)
EXTENDS LanguageSettings, Sequences

CONSTANTS
    ContextLimit,   \* MAX_CONTEXT_MESSAGES
    RequestMax,     \* the context a MediationRequest may have
    MaxLog          \* bound on the number of messages

ASSUME ContextAssumption == ContextLimit \in Nat /\ RequestMax \in Nat
ASSUME LogBoundAssumption == MaxLog \in Nat
ASSUME TwoParticipantsAssumption ==
    /\ "none" \notin Languages
    /\ \A p \in Participants : \E q \in Participants : q # p
    /\ \A p, q, r \in Participants : p = q \/ q = r \/ p = r

VARIABLES
    log,     \* the messages in order
    call     \* of each, the attempt that is under way

contentVars == <<log, call>>
vars == <<language, update, log, call>>

Recipient(i) == CHOOSE p \in Participants : p # log[i].from

NoCall == [stage |-> "none"]

Init == SettingsInit /\ log = << >> /\ call = << >>

----------------------------------------------------------------------------
(* Answers *)

Answers ==
    [status : {"delivered", "blocked"},
     text : {"none", "plain", "blank", "long", "nul"},
     language : Languages \cup {"none"},
     reason : {"none", "plain", "blank", "nul"},
     forSender : {"none", "plain", "notice", "blank", "nul"},
     forRecipient : {"none", "plain", "blank", "nul"}]

\* fault: only the presence of the text is checked
WellFormedIfPresent(a) ==
    IF a.status = "delivered"
    THEN a.text \notin {"none", "long"} /\ a.language # "none" /\ a.reason = "none"
    ELSE /\ a.text = "none" /\ a.language = "none"
         /\ a.reason \notin {"none", "blank"}
         /\ a.forRecipient = "none"
         /\ a.forSender \in {"none", "notice", "nul"}

\* validate_status_consistency, and the bounds of the fields
WellFormed(a) ==
    IF a.status = "delivered"
    THEN /\ a.text \notin {"none", "blank", "long"}
         /\ a.language # "none"
         /\ a.reason = "none"
    ELSE /\ a.text = "none"
         /\ a.language = "none"
         /\ a.reason \notin {"none", "blank"}
         /\ a.forRecipient = "none"
         /\ a.forSender \in {"none", "notice", "nul"}

\* fault: guidance may be empty
GuidanceIfAny(a) == TRUE

\* PrivateGuidanceResult
GuidanceWellFormed(a) == a.forSender # "blank" /\ a.forRecipient # "blank"

Valid == {a \in Answers : WellFormed(a) /\ GuidanceWellFormed(a)}

\* validate_mediation_result
Accepted(wanted) ==
    {a \in Valid : a.status = "delivered" => a.language = wanted}

HasNul(a) == "nul" \in {a.text, a.reason, a.forSender, a.forRecipient}

\* private_guidance_text_not_empty
GuidanceStorable(a) == a.forSender # "blank" /\ a.forRecipient # "blank"

\* what the tables take that an answer is written to
Storable(a) ==
    /\ ~HasNul(a)
    /\ a.status = "delivered" => a.text # "none"
    /\ GuidanceStorable(a)

----------------------------------------------------------------------------
(* Requests *)

Prior(i) == {j \in DOMAIN log : j < i /\ log[j].status = "delivered"}

\* fault: one message too many
ContextAndOneMore(i) ==
    {j \in Prior(i) : Cardinality({k \in Prior(i) : k > j}) <= ContextLimit}

\* list_mediated_context: the latest of the delivered messages before it
Context(i) ==
    {j \in Prior(i) : Cardinality({k \in Prior(i) : k > j}) < ContextLimit}

\* ConversationContextMessage
ContextRowIsValid(j) ==
    log[j].text \notin {"none", "blank", "long"} /\ log[j].language \in Languages

\* MediationRequest
RequestIsValid(i) ==
    /\ Cardinality(Context(i)) <= RequestMax
    /\ \A j \in Context(i) : ContextRowIsValid(j)

----------------------------------------------------------------------------
(* A message's way *)

Send(p) ==
    /\ Len(log) < MaxLog
    /\ log' = Append(log, [from |-> p, status |-> "processing", text |-> "none",
                           language |-> "none"])
    /\ call' = Append(call, NoCall)
    /\ UNCHANGED <<language, update>>

\* fault: the language is that of the latest message the recipient was sent
WantedLastTime(i) ==
    LET got == {j \in Prior(i) : log[j].from = log[i].from}
    IN  IF got = {} THEN language[Recipient(i)]
        ELSE log[CHOOSE j \in got : \A k \in got : k <= j].language

\* recipient_language of the request
Wanted(i) == language[Recipient(i)]

\* "after" is history: the recipient's changes of language that had been answered
Prepare(i) ==
    /\ log[i].status = "processing"
    /\ call[i] = NoCall
    /\ RequestIsValid(i)
    /\ call' = [call EXCEPT ![i] =
                   [stage |-> "calling", language |-> Wanted(i),
                    after |-> Answered(Recipient(i))]]
    /\ UNCHANGED <<language, update, log>>

\* _finalize_delivered or _finalize_blocked with an accepted answer.  No
\* request reads guidance again: of it, only what is refused is modelled.
Settle(i, a) ==
    /\ Storable(a)
    /\ log' = [log EXCEPT ![i] = [@ EXCEPT !.status = a.status, !.text = a.text,
                                          !.language = a.language]]
    /\ call' = [call EXCEPT ![i] = NoCall]
    /\ UNCHANGED <<language, update>>

\* an AIError: a timeout, an answer that is not accepted, or none
Fail(i) ==
    /\ call[i].stage = "calling"
    /\ log' = [log EXCEPT ![i].status = "failed"]
    /\ call' = [call EXCEPT ![i] = NoCall]
    /\ UNCHANGED <<language, update>>

\* the database refuses the accepted answer: the transaction is rolled back,
\* the exception logged, and the attempt left as it is
Break(i, a) ==
    /\ ~Storable(a)
    /\ call' = [call EXCEPT ![i] = [stage |-> "broken", nul |-> HasNul(a)]]
    /\ UNCHANGED <<language, update, log>>

\* the recovery gives the attempt up
Recover(i) ==
    /\ call[i].stage \in {"calling", "broken"}
    /\ call' = [call EXCEPT ![i] = NoCall]
    /\ UNCHANGED <<language, update, log>>

Retry(i) ==
    /\ log[i].status = "failed"
    /\ log' = [log EXCEPT ![i].status = "processing"]
    /\ UNCHANGED <<language, update, call>>

\* a language changes while requests are with the provider
ChangeSettings ==
    /\ SettingsNext
    /\ UNCHANGED <<log, call>>

Mediate(i) ==
    \/ Prepare(i)
    \/ /\ call[i].stage = "calling"
       /\ \E a \in Accepted(call[i].language) : Settle(i, a) \/ Break(i, a)
    \/ Fail(i)
    \/ Recover(i)
    \/ Retry(i)

Next ==
    \/ ChangeSettings
    \/ \E p \in Participants : Send(p)
    \/ \E i \in DOMAIN log : Mediate(i)

Spec == Init /\ [][Next]_vars

=============================================================================
