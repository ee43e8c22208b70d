---------------------------- MODULE ChangeStream ----------------------------
(***************************************************************************)
(* The supervised change stream of a manager (mongodb-change-stream.ts)    *)
(* and the callback the manager gives it: a stream that is lost is opened  *)
(* again, at once or after a growing delay, always from now; the loss is   *)
(* signalled as a gap; delivered changes move the resume token, which is   *)
(* saved after a pause and when the manager closes.                        *)
(*                                                                         *)
(* The changes of the collection are numbered as they are committed; a     *)
(* stream is the number it was opened with and the last change it has      *)
(* passed; a resume token is the number of a change.                       *)
(***************************************************************************)
EXTENDS Integers, FiniteSets

CONSTANTS
  MaxChange,   \* bound on the changes
  MaxLoss      \* bound on streams that are lost and openings that fail

VARIABLES
  head,        \* changes committed so far
  stream,      \* this.stream, id 0 when null
  opened,      \* streams opened so far
  alive,       \* streams that are open and that nobody has closed
  reopenTimers,\* reopenings that are scheduled
  attempts,    \* _reopenAttempts
  token,       \* _lastResumeToken
  debounce,    \* the debounce timer is set
  saving,      \* tokens whose save is under way
  saved,       \* the token in the meta collection
  losses,
  ended,       \* the watcher was closed
  seen,        \* history: changes that were delivered
  signalled,   \* history: the changes there were at the last gap signal
  dark         \* history: changes committed while no stream was open

streamVars == <<head, stream, opened, alive, reopenTimers, attempts, token, debounce,
                saving, saved, losses, ended, seen, signalled, dark>>

NoStream == [id |-> 0, pos |-> 0]

\* start(): from the saved token, or from now.
StreamInit ==
  /\ head = 2 /\ saved \in 0..2
  /\ opened = 1 /\ alive = {1}
  /\ stream = [id |-> 1, pos |-> IF saved = 0 THEN head ELSE saved]
  /\ reopenTimers = 0 /\ attempts = 0
  /\ token = 0 /\ debounce = FALSE /\ saving = {}
  /\ losses = 0 /\ ended = FALSE
  /\ seen = 1..stream.pos /\ signalled = 0 /\ dark = {}

-----------------------------------------------------------------------------
(***************************************************************************)
(* Opening and losing the stream.                                          *)
(***************************************************************************)
\* openStream without a token, and attachStreamHandlers.
Opens(others) ==
  /\ opened' = opened + 1
  /\ stream' = [id |-> opened + 1, pos |-> head]
  /\ alive' = others \cup {opened + 1}

\* Defective variant: the timer that is set stays set.
TimersKept == reopenTimers

\* clearTimeout in reopenFromNow.
TimersCleared == 0

\* Defective variant: the gap is signalled at startup only.
GapUnsignalled == IF opened = 1 THEN head ELSE signalled

GapSignalled == head

\* reopenFromNow, on an error of the stream or its end, and on an error of a stream
\* that was already replaced: the stream is dropped, the gap signalled, and the
\* reopening tried at once or scheduled.
LoseStream ==
  LET others == alive \ {stream.id} IN
  /\ ~ ended /\ losses < MaxLoss
  /\ losses' = losses + 1
  /\ signalled' = GapSignalled
  /\ \/ /\ attempts = 0
        /\ Opens(others)
        /\ attempts' = 1 /\ reopenTimers' = TimersCleared
     \/ /\ stream' = NoStream /\ alive' = others
        /\ attempts' = IF attempts = 0 THEN 2 ELSE attempts + 1
        /\ reopenTimers' = TimersCleared + 1
        /\ UNCHANGED opened
  /\ UNCHANGED <<head, token, debounce, saving, saved, ended, seen, dark>>

\* attemptReopen when the timer fires.
AttemptReopen ==
  /\ reopenTimers > 0 /\ ~ ended
  /\ Opens(alive)
  /\ reopenTimers' = reopenTimers - 1
  /\ UNCHANGED <<head, attempts, token, debounce, saving, saved, losses, ended, seen,
                 signalled, dark>>

\* The opening throws: it is scheduled again.
ReopenFails ==
  /\ reopenTimers > 0 /\ ~ ended /\ losses < MaxLoss
  /\ losses' = losses + 1 /\ attempts' = attempts + 1
  /\ UNCHANGED <<head, stream, opened, alive, reopenTimers, token, debounce, saving, saved,
                 ended, seen, signalled, dark>>

\* close(): by the manager, or by the watcher when the server turns out not to be a
\* replica set.
CloseWatcher ==
  /\ ended' = TRUE /\ reopenTimers' = 0 /\ debounce' = FALSE
  /\ stream' = NoStream /\ alive' = alive \ {stream.id}
  /\ UNCHANGED <<head, opened, attempts, token, saving, losses, seen, signalled, dark>>

Unsupported ==
  /\ ~ ended /\ losses < MaxLoss
  /\ CloseWatcher /\ UNCHANGED saved

-----------------------------------------------------------------------------
(***************************************************************************)
(* Changes.                                                                *)
(***************************************************************************)
Change ==
  /\ head < MaxChange
  /\ head' = head + 1
  /\ dark' = IF stream.id = 0 THEN dark \cup {head + 1} ELSE dark
  /\ UNCHANGED <<stream, opened, alive, reopenTimers, attempts, token, debounce, saving,
                 saved, losses, ended, seen, signalled>>

\* handleChange: the stream is alive, and the debounce starts over.
HandleChange ==
  /\ stream.id # 0 /\ stream.pos < head
  /\ stream' = [stream EXCEPT !.pos = @ + 1]
  /\ token' = stream.pos + 1 /\ seen' = seen \cup {stream.pos + 1}
  /\ attempts' = 0 /\ debounce' = TRUE
  /\ UNCHANGED <<head, opened, alive, reopenTimers, saving, saved, losses, ended,
                 signalled, dark>>

\* flush and the callback of the manager: the token is saved, nobody waits for it.
FlushChanges ==
  /\ debounce
  /\ debounce' = FALSE /\ saving' = saving \cup {token}
  /\ UNCHANGED <<head, stream, opened, alive, reopenTimers, attempts, token, saved, losses,
                 ended, seen, signalled, dark>>

\* A save lands, in any order, or fails and is recorded.
PersistToken(t) ==
  /\ t \in saving
  /\ saving' = saving \ {t} /\ saved' \in {t, saved}
  /\ UNCHANGED <<head, stream, opened, alive, reopenTimers, attempts, token, debounce,
                 losses, ended, seen, signalled, dark>>

-----------------------------------------------------------------------------
\* However reopenings, errors and close() race, the only stream that is open is the
\* one the watcher holds, and none is open or scheduled once it is closed.
NoStreamLeaks ==
  /\ alive \subseteq {stream.id}
  /\ ended => alive = {} /\ reopenTimers = 0 /\ ~ debounce

\* A change that no stream delivers and that the open stream has passed was there
\* when a gap was signalled, or was committed while no stream was open; and a manager
\* that resumes from the saved token skips no change that was not delivered.
MissedOnlyInGaps ==
  /\ \A k \in 1..head : \/ k \in seen \/ k <= signalled \/ k \in dark
                         \/ (stream.id # 0 /\ k > stream.pos)
                         \/ ended
  /\ \A k \in 1..saved : k \in seen \/ k <= signalled \/ k \in dark
=============================================================================
