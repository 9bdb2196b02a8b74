---------------------------- MODULE AppLifecycle ----------------------------
(***************************************************************************)
(* The desktop process from launch to exit: src/electron/main.cjs (window, *)
(* close handshake, quit, renderer recovery) with the crash-loop marker of *)
(* src/electron/crash-loop.cjs, which survives on disk from one launch to  *)
(* the next and decides whether a launch starts in safe mode.              *)
(*                                                                         *)
(* Time is abstracted to the three timeouts that matter: the answer to the *)
(* close request, the healthy-session threshold, and the day after which a *)
(* failure no longer counts.  Writing the marker is atomic (rename) and    *)
(* always succeeds here.                                                   *)
(***************************************************************************)
EXTENDS Integers

CONSTANTS
  FailureThreshold,  \* DEFAULT_FAILURE_THRESHOLD
  MaxFailures        \* MAX_FAILURE_COUNT

ASSUME CountsAssumption ==
  FailureThreshold \in Nat \ {0} /\ MaxFailures \in Nat /\ FailureThreshold <= MaxFailures

VARIABLES
  marker,        \* crash-loop.json: [failures, pending, aged]
  app,           \* "off", "running", or "closing" (the window is going away)
  renderer,      \* "loading", "alive", "gone"
  healthyTimer,  \* healthySessionTimer is armed
  isQuitting,
  closeConfirmed,
  handshake,     \* "none", "asked" (request sent), "dialog" (unsaved progress)
  recovery,      \* the recovery dialog: "none", "renderer", "unresponsive"
  safeMode,      \* safeModeState.active of this launch
  lastEnd,       \* how the last session ended: "quit", "window closed", "crash", or
                 \* "session end" from when the system ends its own; else "none"
  streak         \* failures since the last healthy session or day (history);
                 \* the session a day passes in decays with its pending flag

desktopVars == <<marker, app, renderer, healthyTimer, isQuitting, closeConfirmed,
                 handshake, recovery, safeMode, lastEnd, streak>>

Capped(n, most) == IF n > most THEN most ELSE n

-----------------------------------------------------------------------------
Marker(failures, pending, aged) == [failures |-> failures, pending |-> pending, aged |-> aged]

(* decayMarker: a failure a day old is forgotten, the pending flag too.    *)
Decayed(m) == IF m.aged THEN Marker(0, FALSE, FALSE) ELSE m

Failed(m) == Marker(Capped(m.failures + 1, MaxFailures), m.pending, FALSE)

(* createCrashLoopController: a session still pending is a startup failure.*)
Counted_PendingForgiven(m) == Decayed(m)   \* mutant
Counted(m) == IF Decayed(m).pending THEN Failed(Decayed(m)) ELSE Decayed(m)

WithPending(m, is) == Marker(m.failures, is, m.aged)
RendererFailure(m) == WithPending(Failed(Decayed(m)), TRUE)
Healthy == Marker(0, TRUE, FALSE)
NormalQuit_StaysPending(m) == Decayed(m)   \* mutant
NormalQuit(m) == WithPending(Decayed(m), FALSE)

-----------------------------------------------------------------------------
DesktopInit ==
  /\ marker = Marker(0, FALSE, FALSE)
  /\ app = "off" /\ renderer = "gone" /\ healthyTimer = FALSE
  /\ isQuitting = FALSE /\ closeConfirmed = FALSE
  /\ handshake = "none" /\ recovery = "none"
  /\ safeMode = FALSE /\ lastEnd = "none" /\ streak = 0

Launch ==
  /\ app = "off"
  /\ marker' = WithPending(Counted(marker), TRUE)
  /\ safeMode' = (marker'.failures >= FailureThreshold)
  /\ app' = "running" /\ renderer' = "loading" /\ lastEnd' = "none"
  /\ UNCHANGED <<healthyTimer, isQuitting, closeConfirmed, handshake, recovery, streak>>

DidFinishLoad ==
  /\ app # "off" /\ renderer = "loading"
  /\ renderer' = "alive" /\ healthyTimer' = TRUE
  /\ UNCHANGED <<marker, app, isQuitting, closeConfirmed, handshake, recovery,
                 safeMode, lastEnd, streak>>

HealthySession ==
  /\ app # "off" /\ healthyTimer
  /\ marker' = Healthy
  /\ healthyTimer' = FALSE /\ streak' = 0
  /\ UNCHANGED <<app, renderer, isQuitting, closeConfirmed, handshake, recovery,
                 safeMode, lastEnd>>

(* showProcessRecovery shows one dialog at a time.                         *)
Recovering(kind) == IF recovery = "none" THEN kind ELSE recovery

RenderProcessGone ==
  /\ app # "off" /\ renderer # "gone"
  /\ renderer' = "gone"
  /\ IF isQuitting THEN UNCHANGED <<marker, healthyTimer, recovery, streak>>
     ELSE /\ healthyTimer' = FALSE
          /\ recovery' = Recovering("renderer")
          /\ \/ /\ marker' = RendererFailure(marker)
                /\ streak' = Capped(streak + 1, FailureThreshold)
             \/ UNCHANGED <<marker, streak>>   \* a reason that is no failure
  /\ UNCHANGED <<app, isQuitting, closeConfirmed, handshake, safeMode, lastEnd>>

Unresponsive ==
  /\ app # "off" /\ renderer # "gone"
  /\ recovery' = Recovering("unresponsive")
  /\ UNCHANGED <<marker, app, renderer, healthyTimer, isQuitting, closeConfirmed,
                 handshake, safeMode, lastEnd, streak>>

RecoveryReload ==
  /\ app = "running" /\ recovery # "none"
  /\ recovery' = "none" /\ renderer' = "loading"
  /\ UNCHANGED <<marker, app, healthyTimer, isQuitting, closeConfirmed, handshake,
                 safeMode, lastEnd, streak>>

RecoveryWait ==
  /\ app = "running" /\ recovery = "unresponsive"
  /\ recovery' = "none"
  /\ UNCHANGED <<marker, app, renderer, healthyTimer, isQuitting, closeConfirmed,
                 handshake, safeMode, lastEnd, streak>>

-----------------------------------------------------------------------------
(* app.quit, from the game's quit command or the recovery dialog: the      *)
(* before-quit handler runs, then the windows are told to close.           *)
BeforeQuit(m) == IF isQuitting THEN m ELSE NormalQuit(m)

AppQuit ==
  /\ app = "running" /\ (renderer = "alive" \/ recovery # "none")
  /\ marker' = BeforeQuit(marker)
  /\ isQuitting' = TRUE /\ app' = "closing"
  /\ recovery' = "none"
  /\ UNCHANGED <<renderer, healthyTimer, closeConfirmed, handshake, safeMode,
                 lastEnd, streak>>

(* The window's close event: let through while quitting, and answered by   *)
(* one handshake at a time otherwise.                                      *)
CloseClicked ==
  /\ app = "running"
  /\ IF isQuitting \/ closeConfirmed
     THEN app' = "closing" /\ UNCHANGED handshake
     ELSE handshake = "none" /\ handshake' = "asked" /\ UNCHANGED app
  /\ UNCHANGED <<marker, renderer, healthyTimer, isQuitting, closeConfirmed, recovery,
                 safeMode, lastEnd, streak>>

(* The end of beginCloseHandshake: window.close() follows at once.         *)
ConfirmClose ==
  /\ closeConfirmed' = TRUE /\ isQuitting' = TRUE
  /\ handshake' = "none" /\ app' = "closing"

(* The renderer starts a save and reports whether a commit is pending: the *)
(* one it has just started is, though its request is handled before the    *)
(* report.  Only if saving throws at once can there be none.               *)
ReportCloseState ==
  /\ app = "running" /\ handshake = "asked" /\ renderer = "alive"
  /\ \/ ConfirmClose
     \/ handshake' = "dialog" /\ UNCHANGED <<app, isQuitting, closeConfirmed>>
  /\ UNCHANGED <<marker, renderer, healthyTimer, recovery, safeMode, lastEnd, streak>>

(* No answer within the timeout, or no frame to deliver the request to.    *)
CloseTimeout_OnlyIfAlive ==   \* mutant: a dead renderer is waited for
  /\ app = "running" /\ handshake = "asked" /\ renderer = "alive"
  /\ ConfirmClose
  /\ UNCHANGED <<marker, renderer, healthyTimer, recovery, safeMode, lastEnd, streak>>
CloseTimeout ==
  /\ app = "running" /\ handshake = "asked"
  /\ ConfirmClose
  /\ UNCHANGED <<marker, renderer, healthyTimer, recovery, safeMode, lastEnd, streak>>

LeaveOrKeepPlaying ==
  /\ app = "running" /\ handshake = "dialog"
  /\ \/ ConfirmClose
     \/ handshake' = "none" /\ UNCHANGED <<app, isQuitting, closeConfirmed>>
  /\ UNCHANGED <<marker, renderer, healthyTimer, recovery, safeMode, lastEnd, streak>>

Gone ==
  /\ app' = "off" /\ renderer' = "gone" /\ healthyTimer' = FALSE
  /\ isQuitting' = FALSE /\ closeConfirmed' = FALSE
  /\ handshake' = "none" /\ recovery' = "none" /\ safeMode' = FALSE

(* closed, window-all-closed, app.quit and its before-quit handler, exit.  *)
WindowClosed ==
  /\ app = "closing"
  /\ marker' = BeforeQuit(marker)
  /\ lastEnd' = IF lastEnd # "none" THEN lastEnd
                ELSE IF closeConfirmed THEN "window closed" ELSE "quit"
  /\ Gone
  /\ UNCHANGED streak

(* The operating system ends its session: no normal quit is recorded, and  *)
(* the process is ended from outside or its window is closed later.        *)
SessionEnd ==
  /\ app = "running" /\ ~isQuitting
  /\ isQuitting' = TRUE /\ lastEnd' = "session end"
  /\ UNCHANGED <<marker, app, renderer, healthyTimer, closeConfirmed, handshake,
                 recovery, safeMode, streak>>

(* The process dies: a failed start, a power cut, a kill.                  *)
Crash ==
  /\ app # "off"
  /\ lastEnd' = "crash"
  /\ streak' = IF isQuitting \/ marker.aged THEN streak
                ELSE Capped(streak + 1, FailureThreshold)
  /\ Gone
  /\ UNCHANGED marker

(* A day passes since the last failure (DEFAULT_DECAY_MS).                 *)
DayPasses ==
  /\ marker.failures > 0 /\ ~marker.aged
  /\ marker' = Marker(marker.failures, marker.pending, TRUE)
  /\ streak' = 0
  /\ UNCHANGED <<app, renderer, healthyTimer, isQuitting, closeConfirmed, handshake,
                 recovery, safeMode, lastEnd>>

DesktopNext ==
  \/ Launch \/ DidFinishLoad \/ HealthySession
  \/ RenderProcessGone \/ Unresponsive \/ RecoveryReload \/ RecoveryWait
  \/ AppQuit \/ CloseClicked \/ ReportCloseState \/ CloseTimeout
  \/ LeaveOrKeepPlaying \/ WindowClosed \/ SessionEnd \/ Crash \/ DayPasses

DesktopSpec == DesktopInit /\ [][DesktopNext]_desktopVars

(* The request's timer is a timer, and a window told to close closes.      *)
DesktopFairSpec == DesktopSpec /\ WF_desktopVars(CloseTimeout) /\ WF_desktopVars(WindowClosed)

-----------------------------------------------------------------------------
(* Type invariant.                                                         *)
DesktopTypeOK ==
  /\ marker \in [failures: 0..MaxFailures, pending: BOOLEAN, aged: BOOLEAN]
  /\ app \in {"off", "running", "closing"} /\ renderer \in {"loading", "alive", "gone"}
  /\ handshake \in {"none", "asked", "dialog"}
  /\ recovery \in {"none", "renderer", "unresponsive"}
  /\ healthyTimer \in BOOLEAN /\ isQuitting \in BOOLEAN
  /\ closeConfirmed \in BOOLEAN /\ safeMode \in BOOLEAN
  /\ lastEnd \in {"none", "quit", "window closed", "session end", "crash"}
  /\ streak \in 0..FailureThreshold

Launched == app = "off" /\ app' = "running"

(* A launch after FailureThreshold failures in a row -- sessions that died *)
(* or renderers that did, with no healthy session and no day in between,   *)
(* whatever quits and reloads came between -- is in safe mode.             *)
RepeatedFailuresSelectSafeMode ==
  [][Launched /\ streak >= FailureThreshold => safeMode']_desktopVars

(* A renderer that never answers cannot trap the window: a close request   *)
(* closes it or asks the player (beginCloseHandshake: "fails open").       *)
StuckRendererCannotTrapWindow ==
  handshake = "asked" ~> app = "off" \/ handshake = "dialog"

(* Quitting the game is no failed start (crashLoop.test.ts: "does not      *)
(* count a normal quit as a startup failure"): the next launch counts at   *)
(* most what there was, or the one that the healthy-session timer leaves   *)
(* pending if it fires while the window is going away.  Closing the window *)
(* and the end of the system's session do count as failed starts.          *)
QuitNeverEscalates ==
  [][ Launched /\ lastEnd = "quit" =>
        marker'.failures <= 1 \/ marker'.failures <= marker.failures ]_desktopVars
=============================================================================
