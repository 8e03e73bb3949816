------------------------------- MODULE Watcher -------------------------------
(***************************************************************************)
(* Watcher (src/base/io/Watcher.cpp) on a POSIX build: a libuv fs-event    *)
(* watch on the config file, a one-shot debounce timer restarted by every  *)
(* event, and reload(), which tells the listener (which re-reads the file) *)
(* and then stops and restarts the watch.  Another process changes the     *)
(* file at any time; its content is abstracted to a version number.       *)
(*                                                                         *)
(* reload() runs on the loop thread, but the file changes concurrently, so *)
(* it is split at the point that matters: after the listener has read the  *)
(* file and before uv_fs_event_stop.                                       *)
(***************************************************************************)
EXTENDS Naturals

CONSTANTS
  MaxChanges,  \* bound on the changes another process makes
  Named        \* whether the platform's events carry a file name

ASSUME MaxChanges \in Nat /\ Named \subseteq BOOLEAN /\ Named # {}

VARIABLES
  content,  \* version of the file on disk
  readVer,  \* version the listener read last
  watch,    \* m_fsEvent is started
  queued,   \* the kernel holds an event for the watch, not yet delivered
  named,    \* that event carries a file name
  timer,    \* m_timer is armed
  phase,    \* "idle", or "reloading": inside reload() after the listener ran
  alive     \* the Watcher has not been deleted

vars == <<content, readVer, watch, queued, named, timer, phase, alive>>

\* Watcher(path, listener): create the timer, init and start() the watch.
Init ==
  /\ content = 0 /\ readVer = 0
  /\ watch = TRUE /\ queued = FALSE /\ named = FALSE
  /\ timer = FALSE /\ phase = "idle" /\ alive = TRUE

\* Another process writes the file; a started watch records an event,
\* with or without a file name.
Change(n) ==
  /\ content < MaxChanges
  /\ content' = content + 1
  /\ IF watch /\ alive
     THEN queued' = TRUE /\ named' = (n \/ (queued /\ named))
     ELSE UNCHANGED <<queued, named>>
  /\ UNCHANGED <<readVer, watch, timer, phase, alive>>

\* Mutant: queueUpdate() stops the timer but does not start it again.
QueueUpdateStopOnly == timer' = FALSE

\* queueUpdate(): m_timer->stop(); m_timer->start(kDelay, 0).
QueueUpdate == timer' = TRUE

\* onFsEvent(): ignored without a file name, else queueUpdate().
OnFsEvent ==
  /\ alive /\ phase = "idle" /\ watch /\ queued
  /\ queued' = FALSE
  /\ IF named THEN QueueUpdate ELSE UNCHANGED timer
  /\ UNCHANGED <<content, readVer, watch, named, phase, alive>>

\* The timer fires (Watcher::onTimer -> reload()): the listener re-reads
\* the file.
OnTimer ==
  /\ alive /\ phase = "idle" /\ timer
  /\ timer' = FALSE
  /\ readVer' = content
  /\ phase' = "reloading"
  /\ UNCHANGED <<content, watch, queued, named, alive>>

\* custom_uv_fs_event_stop (uv_fs_event_stop): the kernel's events for the
\* old watch are discarded with it.
FsEventStop == queued' = FALSE /\ named' = FALSE

\* custom_uv_fs_event_start (uv_fs_event_start): watch the path again.
FsEventStart == watch' = TRUE

\* The rest of reload(): stop the watch, then start() it again.
Restart ==
  /\ alive /\ phase = "reloading"
  /\ FsEventStop
  /\ FsEventStart
  /\ phase' = "idle"
  /\ UNCHANGED <<content, readVer, timer, alive>>

\* custom_uv_close (uv_close) on m_fsEvent: the watch stops at once and
\* an event the kernel still holds for it is never delivered.
UvClose == watch' = FALSE /\ queued' = FALSE

\* ~Watcher(): delete m_timer (which stops it) and close the watch.
Destroy ==
  /\ alive /\ phase = "idle"
  /\ alive' = FALSE
  /\ timer' = FALSE
  /\ UvClose
  /\ UNCHANGED <<content, readVer, named, phase>>

Next ==
  \/ \E n \in Named : Change(n)
  \/ OnFsEvent \/ OnTimer \/ Restart \/ Destroy

\* The libuv loop delivers queued fs events and due timers, and finishes a
\* callback it started.  Nothing forces the Watcher to be deleted.
Fairness == WF_vars(OnFsEvent) /\ WF_vars(OnTimer) /\ WF_vars(Restart)

Spec == Init /\ [][Next]_vars /\ Fairness

-----------------------------------------------------------------------------
\* A named change event the kernel holds while no reload() is running is
\* eventually followed by the listener reading that version of the file
\* or a later one: debouncing (stop + start of the timer on every event)
\* postpones the reload but never drops it.
PendingChangeReloaded ==
  \A v \in 1 .. MaxChanges :
    (alive /\ phase = "idle" /\ queued /\ named /\ content = v)
      ~> (readVer >= v \/ ~alive)
=============================================================================
