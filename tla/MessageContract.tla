-------------------------- MODULE MessageContract --------------------------
(***************************************************************************)
(* What the sender and the recipient of a conversation are promised about  *)
(* each message, whatever queue, leases and workers stand behind it.       *)
(*                                                                         *)
(* A message is accepted once.  While it is being processed the recipient  *)
(* sees nothing of it.  It settles at most once per try: delivered         *)
(* together with the recipient's copy and the guidance of both sides,      *)
(* blocked with guidance for its sender only, or failed with none.  Only   *)
(* a failed message is tried again, and each such try is counted.          *)
(***************************************************************************)
EXTENDS Naturals

CONSTANT Messages

VARIABLES
    status,    \* what the sender is shown
    retries,   \* how often the sender has asked again
    visible,   \* the messages in the recipient's timeline
    advice     \* guidance entries per message and audience

contractVars == <<status, retries, visible, advice>>

Sides == {"sender", "recipient"}

Advised(entries, sides) ==
    [a \in Sides |-> IF a \in sides THEN entries[a] + 1 ELSE entries[a]]

Init ==
    /\ status = [m \in Messages |-> "absent"]
    /\ retries = [m \in Messages |-> 0]
    /\ visible = {}
    /\ advice = [m \in Messages |-> [a \in Sides |-> 0]]

Accept(m) ==
    /\ status[m] = "absent"
    /\ status' = [status EXCEPT ![m] = "processing"]
    /\ UNCHANGED <<retries, visible, advice>>

Deliver(m, sides) ==
    /\ status[m] = "processing"
    /\ m \notin visible
    /\ status' = [status EXCEPT ![m] = "delivered"]
    /\ visible' = visible \cup {m}
    /\ advice' = [advice EXCEPT ![m] = Advised(@, sides)]
    /\ UNCHANGED retries

Block(m, sides) ==
    /\ status[m] = "processing"
    /\ sides \subseteq {"sender"}
    /\ status' = [status EXCEPT ![m] = "blocked"]
    /\ advice' = [advice EXCEPT ![m] = Advised(@, sides)]
    /\ UNCHANGED <<retries, visible>>

Fail(m) ==
    /\ status[m] = "processing"
    /\ status' = [status EXCEPT ![m] = "failed"]
    /\ UNCHANGED <<retries, visible, advice>>

TryAgain(m) ==
    /\ status[m] = "failed"
    /\ status' = [status EXCEPT ![m] = "processing"]
    /\ retries' = [retries EXCEPT ![m] = @ + 1]
    /\ UNCHANGED <<visible, advice>>

Next ==
    \E m \in Messages :
        \/ Accept(m)
        \/ \E sides \in SUBSET Sides : Deliver(m, sides) \/ Block(m, sides)
        \/ Fail(m)
        \/ TryAgain(m)

Spec == Init /\ [][Next]_contractVars

=============================================================================
