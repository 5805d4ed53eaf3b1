-------------------------- MODULE LanguageSettings --------------------------
(***************************************************************************)
(* A participant's preferred language.  A request to change it first loads *)
(* the participant to authenticate the caller, and later, in a transaction *)
(* of its own, gets the same object from its session: get_by_id finds it   *)
(* in the identity map and does not read the row again.  Only an attribute *)
(* that differs from what was loaded is written.                           *)
(***************************************************************************)
EXTENDS Naturals, FiniteSets

CONSTANTS
    Participants,   \* the two of a conversation
    Languages,      \* LanguageCode
    Updates         \* requests to change a language

VARIABLES
    language,       \* participants.preferred_language
    update          \* the requests, and what each has loaded

NewUpdate == [stage |-> "new"]

SettingsInit ==
    /\ language \in [Participants -> Languages]
    /\ update = [u \in Updates |-> NewUpdate]

Answered(p) ==
    {u \in Updates : update[u].stage = "answered" /\ update[u].of = p}

\* fault: the session, and what it has loaded, outlives the request
LoadedBefore(p) ==
    IF Answered(p) = {} THEN language[p]
    ELSE LET u == CHOOSE v \in Answered(p) : TRUE IN update[u].loaded

Loaded(p) == language[p]

\* "after" is history: the requests that had been answered
Authenticate(u, p, wanted) ==
    /\ update[u].stage = "new"
    /\ update' = [update EXCEPT ![u] =
                     [stage |-> "authenticated", of |-> p, wants |-> wanted,
                      loaded |-> Loaded(p), after |-> Answered(p)]]
    /\ UNCHANGED language

Flushed(u) ==
    IF update[u].wants = update[u].loaded THEN language[update[u].of]
                                          ELSE update[u].wants

UpdateLanguage(u) ==
    /\ update[u].stage = "authenticated"
    /\ language' = [language EXCEPT ![update[u].of] = Flushed(u)]
    /\ update' = [update EXCEPT ![u].stage = "answered"]

SettingsNext ==
    \E u \in Updates :
        \/ \E p \in Participants, l \in Languages : Authenticate(u, p, l)
        \/ UpdateLanguage(u)

=============================================================================
