------------------------- MODULE ContentProperties -------------------------
(***************************************************************************)
(* What becomes of languages, answers and context.                         *)
(***************************************************************************)
EXTENDS MediatedContent

\* one of these changes was asked for after this one had been answered
ReplacedBy(u, changes) == \E v \in changes : u \in update[v].after

\* A language is what some answered change asked for that no later, answered
\* change has replaced, although a change writes nothing when it asks for
\* the language that its request has loaded.
LatestChangeCounts ==
    \A p \in Participants :
        Answered(p) # {} =>
            \E u \in Answered(p) :
                language[p] = update[u].wants /\ ~ReplacedBy(u, Answered(p))

\* What is stored of an answer can go into the request of a later message:
\* no message of a room makes the requests of the following ones invalid.
RequestsStayValid == \A i \in DOMAIN log : RequestIsValid(i)

\* A new language applies to every attempt that begins after its change has
\* been answered, also of a message sent before, and of one retried or
\* recovered: what the attempt delivers is in the language of a change that
\* none of those answered at its beginning had replaced.  Only an attempt
\* that is under way during the change may deliver in the old language.
NewLanguageApplies ==
    [][\A i \in DOMAIN log :
          log'[i].status = "delivered" /\ log[i].status # "delivered" =>
              \/ call[i].after = {}
              \/ \E u \in Answered(Recipient(i)) :
                    /\ log'[i].language = update[u].wants
                    /\ ~ReplacedBy(u, call[i].after)]_vars

\* The database refuses no accepted answer but one with a NUL character.
OnlyNulBreaks ==
    \A i \in DOMAIN call : call[i].stage = "broken" => call[i].nul

=============================================================================
