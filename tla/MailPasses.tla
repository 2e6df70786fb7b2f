------------------------------ MODULE MailPasses ------------------------------
(***************************************************************************)
(* Who works on a mail account when (MailSyncService): the pass raised by  *)
(* the timer with its watchdog, the loop that probes the box every second, *)
(* the short fetch it raises, their three connections, the pause after     *)
(* failures, and the account's status and switch.                          *)
(***************************************************************************)
EXTENDS Integers

CONSTANTS
  Hangs,       \* awaits that may never end: "imap" (a closed connection ends it), "store" (S3, the pool)
  Failures,    \* PROBE_FAILURES
  Delays,      \* WATCH_RETRY_DELAYS_MS.length
  MaxTroubles, \* bound: refused calls, broken connections, hangs and restarts
  MaxToggles   \* bound: times the owner turns the account on or off

Old     == {"old", "older"}     \* passes that the watchdog gave up
Pass    == {"cur"} \cup Old     \* "cur" has the current passToken
NoPass  == [at |-> "off", attempt |-> 1, own |-> FALSE, hung |-> "no"]
NoLoop  == [at |-> "off", broken |-> 0]

VARIABLES
  enabled, status,  \* the MailAccount row
  pass,             \* busy is pass["cur"].at # "off"
  client,           \* the pass connection is in `clients`; own: it is still the one the pass got
  taking,           \* freshBusy
  loop, watcher, freshClient,
  failures, paused, retry,  \* watchFailures, its `until`, watchRetryTimer
  stopped, troubles, toggles,
  cut               \* history: the process ended during a pass

mvars == <<enabled, status, pass, client, taking, loop, watcher, freshClient, failures, paused, retry,
           stopped, troubles, toggles, cut>>
conns == <<client, watcher, freshClient>>
pause == <<failures, paused, retry>>
owner == <<stopped, toggles, cut>>

Trouble == troubles < MaxTroubles /\ troubles' = troubles + 1
Pass0   == [p \in Pass |-> NoPass]
\* Whoever held the connection that is closed here finds out at the next command.
Orphaned(ps) == [p \in Pass |-> [ps[p] EXCEPT !.own = FALSE]]

MInit ==
  /\ enabled = TRUE /\ status = "idle"
  /\ pass = Pass0 /\ client = FALSE /\ taking = "none"
  /\ loop = NoLoop /\ watcher = FALSE /\ freshClient = FALSE
  /\ failures = 0 /\ paused = FALSE /\ retry = FALSE
  /\ stopped = FALSE /\ troubles = 0 /\ toggles = 0 /\ cut = FALSE

-----------------------------------------------------------------------------
(* runPass. *)

\* ensureWatcher: one loop per account, none before the pause is over.
Ensured == IF loop.at = "off" /\ ~paused THEN [NoLoop EXCEPT !.at = "sleep"] ELSE loop

\* An account that was turned off loses its probe and its connections.
SparedFresh(conn) == conn
Dropped(conn) == FALSE
PassOff ==
  /\ ~stopped /\ ~enabled
  /\ watcher' = FALSE /\ client' = FALSE /\ freshClient' = Dropped(freshClient)
  /\ pass' = Orphaned(pass)
  /\ UNCHANGED <<enabled, status, taking, loop, pause, owner, troubles>>

PassOn ==
  /\ ~stopped /\ enabled /\ pass["cur"].at = "off"
  /\ loop' = Ensured
  /\ pass' = [pass EXCEPT !["cur"].at = "begin"]
  /\ UNCHANGED <<enabled, status, conns, taking, pause, owner, troubles>>

PassSkipped ==
  /\ ~stopped /\ enabled /\ pass["cur"].at # "off" /\ loop # Ensured
  /\ loop' = Ensured
  /\ UNCHANGED <<enabled, status, pass, conns, taking, pause, owner, troubles>>

\* abortStuckPass: another generation, the connections closed, the reason in the status.
Abort ==
  /\ ~stopped /\ enabled /\ pass["cur"].hung # "no"
  /\ loop' = Ensured
  /\ \E o \in Old :
       /\ pass[o].at = "off"
       /\ pass' = Orphaned([pass EXCEPT !["cur"] = NoPass, ![o] = pass["cur"]])
       /\ taking' = IF taking = "cur" THEN o ELSE taking
  /\ client' = FALSE /\ status' = "error"
  /\ UNCHANGED <<enabled, watcher, freshClient, pause, owner, troubles>>

-----------------------------------------------------------------------------
(* syncAccount. *)

Cancelled(p) == stopped \/ p \in Old
At(p, here, there) ==
  /\ pass[p].at = here /\ pass[p].hung = "no"
  /\ pass' = [pass EXCEPT ![p].at = there]

Begin(p) ==
  /\ IF Cancelled(p) THEN At(p, "begin", "end") /\ UNCHANGED status
     ELSE At(p, "begin", "connect") /\ status' = "syncing"
  /\ UNCHANGED <<enabled, conns, taking, loop, pause, owner, troubles>>

\* A living connection of the account is used, whoever opened it.
Connect(p) ==
  /\ pass[p].at = "connect"
  /\ \/ /\ client' = TRUE /\ UNCHANGED troubles
        /\ pass' = [pass EXCEPT ![p].at = "folder", ![p].own = TRUE]
     \/ /\ ~client /\ Trouble /\ UNCHANGED client
        /\ pass' = [pass EXCEPT ![p].at = "error"]
  /\ UNCHANGED <<enabled, status, taking, loop, watcher, freshClient, pause, owner>>

Unasked == FALSE
Taken   == taking # "none"
Folder(p) ==
  /\ IF Cancelled(p) THEN At(p, "folder", "finish") /\ UNCHANGED taking
     ELSE IF ~pass[p].own THEN At(p, "folder", "error") /\ UNCHANGED taking
     ELSE IF Taken THEN At(p, "folder", "old") /\ UNCHANGED taking
     ELSE At(p, "folder", "new") /\ taking' = p
  /\ UNCHANGED <<enabled, status, conns, loop, pause, owner, troubles>>

\* fetchNew and backfill; the finally gives the folder back.
KeptByOld(p) == IF taking = p /\ p = "cur" THEN "none" ELSE taking
Released(p)  == IF taking = p THEN "none" ELSE taking
Fetch(p) ==
  /\ pass[p].at \in {"new", "old"}
  /\ \/ At(p, pass[p].at, IF ~pass[p].own THEN "error" ELSE IF pass[p].at = "new" /\ ~Cancelled(p) THEN "old" ELSE "finish")
     \/ /\ pass[p].hung = "imap" /\ ~pass[p].own
        /\ pass' = [pass EXCEPT ![p].at = "error", ![p].hung = "no"]
  /\ taking' = Released(p)
  /\ UNCHANGED <<enabled, status, conns, loop, pause, owner, troubles>>

Hang(p) ==
  /\ pass[p].at \in {"new", "old"} /\ pass[p].hung = "no" /\ Trouble
  /\ \E h \in Hangs : pass' = [pass EXCEPT ![p].hung = h]
  /\ UNCHANGED <<enabled, status, conns, taking, loop, pause, owner>>

\* dropClient closes the account's connection, whoever uses it by now.
Error(p) ==
  /\ pass[p].at = "error"
  /\ client' = FALSE
  /\ pass' = Orphaned([pass EXCEPT ![p].attempt = 2, ![p].at = IF pass[p].attempt = 1 THEN "connect" ELSE "finish"])
  /\ UNCHANGED <<enabled, status, taking, loop, watcher, freshClient, pause, owner, troubles>>

\* The status is written, cancelled or not.
Finish(p) ==
  /\ At(p, "finish", "end")
  /\ status' \in {"idle", "error"}
  /\ UNCHANGED <<enabled, conns, taking, loop, pause, owner, troubles>>

End(p) ==
  /\ pass[p].at = "end" /\ pass' = [pass EXCEPT ![p] = NoPass]
  /\ UNCHANGED <<enabled, status, conns, taking, loop, pause, owner, troubles>>

PassStep(p) == Begin(p) \/ Connect(p) \/ Folder(p) \/ Fetch(p) \/ Error(p) \/ Finish(p) \/ End(p)

-----------------------------------------------------------------------------
(* runWatchLoop. *)

Wake ==
  /\ loop.at = "sleep"
  /\ loop' = IF stopped \/ ~enabled THEN NoLoop ELSE [loop EXCEPT !.at = IF watcher THEN "probe" ELSE "connect"]
  /\ UNCHANGED <<enabled, status, pass, conns, taking, pause, owner, troubles>>

OpenWatch ==
  /\ loop.at = "connect"
  /\ loop' = [loop EXCEPT !.at = "probe"] /\ watcher' = TRUE
  /\ UNCHANGED <<enabled, status, pass, client, freshClient, taking, pause, owner, troubles>>

\* A refused login or a broken STATUS; after Failures of them the loop ends (markWatchBroken).
ProbeFails ==
  LET last == loop.broken + 1 >= Failures
      n    == IF failures < Delays THEN failures + 1 ELSE Delays
  IN /\ loop.at \in {"connect", "probe"} /\ (Trouble \/ (loop.at = "probe" /\ ~watcher /\ UNCHANGED troubles))
     /\ watcher' = FALSE
     /\ loop' = IF last THEN NoLoop ELSE [at |-> "sleep", broken |-> loop.broken + 1]
     /\ failures' = IF last THEN n ELSE failures
     /\ paused' = (paused \/ last)
     /\ retry' = (retry \/ (last /\ ~stopped))
     /\ status' = IF last /\ n = Delays THEN "error" ELSE status
     /\ UNCHANGED <<enabled, pass, client, freshClient, taking, owner>>

\* probeNew; only a loop that failed itself forgets the failures.
Probe ==
  /\ loop.at = "probe" /\ watcher
  /\ \E new \in BOOLEAN :
       IF new /\ ~stopped /\ taking = "none"
       THEN taking' = "fresh" /\ loop' = [loop EXCEPT !.at = "fresh"] /\ UNCHANGED failures
       ELSE /\ loop' = [at |-> "sleep", broken |-> 0] /\ UNCHANGED taking
            /\ failures' = IF loop.broken > 0 THEN 0 ELSE failures
  /\ UNCHANGED <<enabled, status, pass, conns, paused, retry, owner, troubles>>

\* No watchdog looks at the loop.
HangFresh ==
  /\ loop.at = "fresh" /\ "store" \in Hangs /\ Trouble
  /\ loop' = [loop EXCEPT !.at = "hung"]
  /\ UNCHANGED <<enabled, status, pass, conns, taking, pause, owner>>

\* syncFresh: on a connection of its own, its failure only drops it.
Fresh ==
  /\ loop.at = "fresh"
  /\ \/ enabled /\ freshClient' = TRUE /\ UNCHANGED troubles
     \/ ~enabled /\ UNCHANGED <<freshClient, troubles>>
     \/ Trouble /\ freshClient' = FALSE
  /\ taking' = "none" /\ loop' = [at |-> "sleep", broken |-> 0]
  /\ failures' = IF loop.broken > 0 THEN 0 ELSE failures
  /\ UNCHANGED <<enabled, status, pass, client, watcher, paused, retry, owner>>

\* The retry timer, one for all; a loop still in its pause is left to the next pass.
Rearm ==
  /\ retry /\ ~stopped /\ retry' = FALSE
  /\ loop' = IF enabled THEN Ensured ELSE loop
  /\ UNCHANGED <<enabled, status, pass, conns, taking, failures, paused, owner, troubles>>

PauseOver ==
  /\ paused /\ paused' = FALSE
  /\ UNCHANGED <<enabled, status, pass, conns, taking, loop, failures, retry, owner, troubles>>

LoopStep == Wake \/ OpenWatch \/ Probe \/ ProbeFails \/ Fresh

-----------------------------------------------------------------------------
(* The owner, the network, the process. *)

Toggle ==
  /\ toggles < MaxToggles /\ toggles' = toggles + 1 /\ enabled' = ~enabled
  /\ UNCHANGED <<status, pass, conns, taking, loop, pause, stopped, cut, troubles>>

Lost ==
  /\ Trouble
  /\ \/ client /\ client' = FALSE /\ pass' = Orphaned(pass) /\ UNCHANGED <<watcher, freshClient>>
     \/ watcher /\ watcher' = FALSE /\ UNCHANGED <<client, pass, freshClient>>
     \/ freshClient /\ freshClient' = FALSE /\ UNCHANGED <<client, pass, watcher>>
  /\ UNCHANGED <<enabled, status, taking, loop, pause, owner>>

Destroy ==
  /\ ~stopped /\ Trouble /\ stopped' = TRUE /\ retry' = FALSE
  /\ UNCHANGED <<enabled, status, pass, conns, taking, loop, failures, paused, toggles, cut>>

\* Its own end, or a crash.
NextProcess ==
  /\ IF stopped THEN UNCHANGED troubles ELSE Trouble
  /\ stopped' = FALSE
  /\ pass' = Pass0 /\ client' = FALSE /\ taking' = "none"
  /\ loop' = NoLoop /\ watcher' = FALSE /\ freshClient' = FALSE
  /\ failures' = 0 /\ paused' = FALSE /\ retry' = FALSE
  /\ cut' = (cut \/ status = "syncing")
  /\ UNCHANGED <<enabled, status, toggles>>

MNext ==
  \/ PassOff \/ PassOn \/ PassSkipped \/ Abort \/ \E p \in Pass : PassStep(p) \/ Hang(p)
  \/ LoopStep \/ HangFresh \/ Rearm \/ PauseOver \/ Toggle \/ Lost \/ Destroy \/ NextProcess

MSpec == MInit /\ [][MNext]_mvars

\* Timers fire again, awaits that do not hang return, a stopped process comes up.
MFair ==
  /\ WF_mvars(PassOff) /\ WF_mvars(PassOn) /\ WF_mvars(PassSkipped) /\ WF_mvars(Abort)
  /\ \A p \in Pass : WF_mvars(PassStep(p))
  /\ WF_mvars(LoopStep) /\ WF_mvars(PauseOver) /\ WF_mvars(stopped /\ NextProcess)

-----------------------------------------------------------------------------
(* An account turned off for good is left with no connection of ours, though the loop leaves its own open and a    *)
(* pass or a short fetch under way may open one more: the next pass closes them.                                   *)
Off  == ~enabled /\ ~stopped
Left == ~client /\ ~watcher /\ ~freshClient
DisabledIsLeft == <>[]Off => <>[]Left

\* The status does not stay "syncing": the pass ends or the watchdog ends it. A process that ends during a pass
\* leaves it, until the account is turned on.
StatusSettles == (status = "syncing" /\ enabled) ~> (status # "syncing" \/ ~enabled)

\* New letters of a folder are taken again and again, unless someone hangs in the store with the folder in hand:
\* the watchdog gives up the pass, not its claim.
FolderIsFree == taking = "none" \/ loop.at = "hung" \/ \E p \in Pass : taking = p /\ pass[p].hung = "store"
FolderIsGivenBack == (taking # "none") ~> FolderIsFree

\* One path at a time takes new letters, the given-up pass included.
OneTakesNew == \A p \in Pass : pass[p].at = "new" => taking = p
=============================================================================
