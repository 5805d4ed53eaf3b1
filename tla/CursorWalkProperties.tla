------------------------ MODULE CursorWalkProperties ------------------------
(***************************************************************************)
(* What a reader that follows the cursor can rely on.                      *)
(***************************************************************************)
EXTENDS CursorWalk

\* A page leaves out no message that the reader could see when the page was
\* begun and that lies in the page's range, although messages appear and
\* change under the walk: what a walk misses appeared behind its cursor.
WalkMissesOnlyLateOnes == due \subseteq got

\* No message is returned by two pages of one walk.
NothingTwice == returned = Cardinality(got)

\* A cursor the service has handed out stays valid while the conversation
\* goes on: a message, once readable, never becomes unreadable.  Refused is
\* only a first request, with an id that the reader cannot see.
CursorStaysValid == phase = "refused" => returned = 0

=============================================================================
