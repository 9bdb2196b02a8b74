-------------------------- MODULE LifecycleProofs --------------------------
(***************************************************************************)
(* Theorems about the window and the process around a game: Pacing, inside *)
(* the window, and AppLifecycle, the desktop process that opens and closes *)
(* it.  The two share no state; the names of the second begin with Desktop *)
(* where they would be the same.                                           *)
(*                                                                         *)
(* Pacing, for any times, speeds and reasons to be away: no delay          *)
(* completes early, every event is presented for its time, what a decision *)
(* reports is the time played, and a window that is away is silent.  Each  *)
(* rests on an invariant of its own: what a delay still owes and what it   *)
(* has served make up its time (DelaysKept); the delay of a table is the   *)
(* one of the event on it (DelayIsOfEvent); the clock's mark is the time   *)
(* played after its anchor (ClockCounts); sound is ready only at a window  *)
(* that is there (ReadyIsHere).                                            *)
(*                                                                         *)
(* AppLifecycle, for any threshold and cap: enough failures in a row       *)
(* select safe mode, and quitting the game is never held against the next  *)
(* launch.  Both speak of the marker at a launch, which was written long   *)
(* before, so the invariant says what the marker already counts while the  *)
(* game runs (StreakCounted) and what is left of a quit in it until the    *)
(* window is gone (QuitRecorded).                                          *)
(***************************************************************************)
EXTENDS Pacing, AppLifecycle, TLAPS

(* TypeOK, in parts.                                                       *)
PlaceOK ==
  /\ surface \in {"menu", "room", "table"} /\ mounted \in BOOLEAN
  /\ away \subseteq Reasons /\ frozen \in BOOLEAN /\ muted \in BOOLEAN
CountsOK == restarts \in 0..MaxRestarts /\ now \in 0..MaxTime
TableOK ==
  /\ event \in 0..Events /\ speed \in Speeds /\ paused \in BOOLEAN
  /\ shown \in [event : 0..Events, speed : Speeds, paused : BOOLEAN]
ReasonOK == pauseReason \in Reasons \cup {"manual"}
CoordinatorOK ==
  /\ coordinator \in [reasons : SUBSET (Reasons \cup {"manual"}), since : Nat \cup {Never}]
  /\ (coordinator.since = Never) = (coordinator.reasons = {})
RecapOK == recap \in Nat \cup {NoRecap}
ClockOK ==
  /\ blindClock \in [anchor : Nat, pausedAt : Nat \cup {Never}] /\ blindClock.pausedAt <= now
  /\ report \in Nat /\ played \in Nat
PolicyOK ==
  policy \in [ activated : BOOLEAN, blockers : SUBSET {Blocker(r) : r \in Reasons},
               ready : BOOLEAN ]

(* A delay has run for what it no longer owes.                             *)
Serves(d) ==
  IF Running(d)
  THEN d.runningSince <= now /\ d.total - d.owed + (now - d.runningSince) <= d.served
  ELSE d.total - d.owed <= d.served
DelaysKept == \A d \in delays : d \in Delays /\ Serves(d)
FreezeIsShared ==
  /\ \A d \in delays : Running(d) <=> ~frozen
  /\ mounted => surface = "table" /\ (frozen <=> shown.paused)

DelayIsOfEvent ==
  mounted =>
    \A d \in delays :
      /\ delays = {d} /\ d.for = event /\ d.for = shown.event /\ d.for # Arrival
      /\ d.total = EventTime[shown.speed]

ClockCounts ==
  mounted =>
    /\ blindClock.pausedAt = Never <=> ~shown.paused
    /\ blindClock.anchor <= Mark(blindClock) /\ Mark(blindClock) <= now
    /\ played = Mark(blindClock) - blindClock.anchor

ReadyIsHere ==
  /\ policy.ready => away = {}
  /\ surface = "table" => ~policy.ready
  /\ HookOn => muted \/ policy.ready

Typed ==
  /\ PlaceOK /\ CountsOK /\ TableOK /\ ReasonOK /\ CoordinatorOK /\ RecapOK /\ ClockOK
  /\ PolicyOK
IInv ==
  /\ Typed /\ DelaysKept /\ FreezeIsShared /\ DelayIsOfEvent /\ ClockCounts /\ ReadyIsHere

-----------------------------------------------------------------------------
(* The constants, and the operations on a delay.                           *)
LEMMA Constants ==
  /\ Playing \in [event : 0..Events, speed : Speeds, paused : BOOLEAN]
  /\ Playing.event = 1 /\ Playing.speed \in Speeds /\ Playing.paused = FALSE
  /\ \A s \in Speeds : EventTime[s] \in Nat
  /\ RoomTime \in Nat /\ Events \in Nat \ {0} /\ MaxAdvance \in Nat /\ RecapAfter \in Nat
  /\ MaxRestarts \in Nat /\ MaxTime \in Nat
BY PacingAssumption DEF Playing

(* A new delay runs, and owes its event the whole time.                    *)
LEMMA DelayMade ==
  ASSUME now \in Nat, NEW e \in 0..Events, NEW ms \in Nat
  PROVE  LET d == NewDelay(e, ms) IN
           /\ d \in Delays /\ Running(d) /\ Serves(d)
           /\ d.for = e /\ d.total = ms
BY DEF NewDelay, Delays, Running, Serves, Never

(* Freezing a delay keeps its event, its time and what is left of it.      *)
LEMMA DelayFrozen ==
  ASSUME now \in Nat, NEW d \in Delays, Serves(d)
  PROVE  /\ Freeze(d) \in Delays /\ ~Running(Freeze(d)) /\ Serves(Freeze(d))
         /\ Freeze(d).for = d.for /\ Freeze(d).total = d.total
<1> USE DEF Freeze, Delays, Running, Serves, Never, Remaining, Larger
<1>1. CASE ~Running(d)
  BY <1>1
<1>2. CASE Running(d)
  <2>1. Freeze(d) = [d EXCEPT !.owed = Remaining(d), !.runningSince = Never]
    BY <1>2
  <2>2. Remaining(d) \in Nat /\ d.total - Remaining(d) <= d.served
    BY <1>2
  <2> QED BY <1>2, <2>1, <2>2
<1> QED BY <1>1, <1>2

(* So does letting it go on,                                               *)
LEMMA DelayResumed ==
  ASSUME now \in Nat, NEW d \in Delays, Serves(d)
  PROVE  /\ Unfreeze(d) \in Delays /\ Running(Unfreeze(d)) /\ Serves(Unfreeze(d))
         /\ Unfreeze(d).for = d.for /\ Unfreeze(d).total = d.total
BY DEF Unfreeze, Delays, Running, Serves, Never

(* a delay added to a frozen group starts frozen,                          *)
LEMMA DelayAdded ==
  ASSUME now \in Nat, NEW e \in 0..Events, NEW ms \in Nat, NEW isFrozen \in BOOLEAN
  PROVE  LET d == Added(NewDelay(e, ms), isFrozen) IN
           /\ d \in Delays /\ (Running(d) <=> ~isFrozen) /\ Serves(d)
           /\ d.for = e /\ d.total = ms
BY DelayMade, DelayFrozen DEF Added

(* and time passing.                                                       *)
LEMMA DelayTicks ==
  ASSUME now \in Nat, now' = now + 1, NEW d \in Delays, Serves(d)
  PROVE  /\ Served(d) \in Delays /\ (Running(Served(d)) <=> Running(d)) /\ Serves(Served(d))'
         /\ Served(d).for = d.for /\ Served(d).total = d.total
BY DEF Served, Delays, Running, Serves, Never

-----------------------------------------------------------------------------
(* Place, audio's switch and the counters, by what each action assigns.    *)
LEMMA PlacePreserved == PlaceOK /\ TableOK /\ [Next]_vars => PlaceOK'
<1> SUFFICES ASSUME PlaceOK, TableOK, [Next]_vars PROVE PlaceOK'
  OBVIOUS
<1> USE DEF PlaceOK, Silent
<1>1. CASE EnterRoom
  BY <1>1 DEF EnterRoom, table, audio
<1>2. CASE RenderRoom
  BY <1>2 DEF RenderRoom, table, audio
<1>3. CASE LeaveRoom
  BY <1>3 DEF LeaveRoom, table, audio
<1>4. CASE Arrive
  BY <1>4 DEF Arrive, table
<1>5. CASE Mount
  BY <1>5 DEF Mount
<1>6. CASE Unmount
  BY <1>6 DEF Unmount, TableUnmounted
<1>7. CASE PausePressed
  BY <1>7 DEF PausePressed, PauseFor, room, audio
<1>8. CASE ResumePressed
  BY <1>8 DEF ResumePressed, room, audio
<1>9. CASE DismissRecap
  BY <1>9 DEF DismissRecap, room, audio
<1>10. CASE ChangeSpeed
  BY <1>10 DEF ChangeSpeed, room, audio
<1>11. CASE HeroActs
  BY <1>11 DEF HeroActs, room, audio
<1>12. CASE EventDone
  BY <1>12 DEF EventDone, audio
<1>13. CASE Effects
  BY <1>13 DEF Effects, PauseEffect, TableOK
<1>14. CASE SettingsChanged
  BY <1>14 DEF SettingsChanged, room, audio
<1>15. CASE GoAway
  BY <1>15 DEF GoAway, PauseFor, Dispatch, table, audio
<1>16. CASE ComeBack
  BY <1>16 DEF ComeBack, Dispatch, table, audio
<1>17. CASE Gesture
  BY <1>17 DEF Gesture, Dispatch, room, table, Silent
<1>18. CASE Tick
  BY <1>18 DEF Tick, audio
<1>19. CASE UNCHANGED vars
  BY <1>19 DEF vars, room, table, audio
<1> QED
  BY <1>1, <1>2, <1>3, <1>4, <1>5, <1>6, <1>7, <1>8, <1>9, <1>10, <1>11, <1>12, <1>13, <1>14,
     <1>15, <1>16, <1>17, <1>18, <1>19 DEF Next

(* Every step keeps CountsOK.                                              *)
LEMMA CountsPreserved == CountsOK /\ [Next]_vars => CountsOK'
<1> SUFFICES ASSUME CountsOK, [Next]_vars PROVE CountsOK'
  OBVIOUS
<1> USE DEF CountsOK
<1> USE Constants
<1>1. CASE EnterRoom
  BY <1>1 DEF EnterRoom, table, audio
<1>2. CASE RenderRoom
  BY <1>2 DEF RenderRoom, table, audio
<1>3. CASE LeaveRoom
  BY <1>3 DEF LeaveRoom, table, audio
<1>4. CASE Arrive
  BY <1>4 DEF Arrive, table
<1>5. CASE Mount
  BY <1>5 DEF Mount
<1>6. CASE Unmount
  BY <1>6 DEF Unmount, TableUnmounted
<1>7. CASE PausePressed
  BY <1>7 DEF PausePressed, PauseFor, room, audio
<1>8. CASE ResumePressed
  BY <1>8 DEF ResumePressed, room, audio
<1>9. CASE DismissRecap
  BY <1>9 DEF DismissRecap, room, audio
<1>10. CASE ChangeSpeed
  BY <1>10 DEF ChangeSpeed, room, audio
<1>11. CASE HeroActs
  BY <1>11 DEF HeroActs, room, audio
<1>12. CASE EventDone
  BY <1>12 DEF EventDone, audio
<1>13. CASE Effects
  BY <1>13 DEF Effects, PauseEffect
<1>14. CASE SettingsChanged
  BY <1>14 DEF SettingsChanged, room, audio
<1>15. CASE GoAway
  BY <1>15 DEF GoAway, PauseFor, Dispatch, table, audio
<1>16. CASE ComeBack
  BY <1>16 DEF ComeBack, Dispatch, table, audio
<1>17. CASE Gesture
  BY <1>17 DEF Gesture, Dispatch, room, table
<1>18. CASE Tick
  BY <1>18 DEF Tick, audio
<1>19. CASE UNCHANGED vars
  BY <1>19 DEF vars, room, table, audio
<1> QED
  BY <1>1, <1>2, <1>3, <1>4, <1>5, <1>6, <1>7, <1>8, <1>9, <1>10, <1>11, <1>12, <1>13, <1>14,
     <1>15, <1>16, <1>17, <1>18, <1>19 DEF Next

(* The table's state, and why it stands still.                             *)
LEMMA TablePreserved == TableOK /\ [Next]_vars => TableOK'
<1> SUFFICES ASSUME TableOK, [Next]_vars PROVE TableOK'
  OBVIOUS
<1> USE DEF TableOK
<1> USE Constants
<1>1. CASE EnterRoom
  BY <1>1 DEF EnterRoom, table, audio
<1>2. CASE RenderRoom
  BY <1>2 DEF RenderRoom, table, audio
<1>3. CASE LeaveRoom
  BY <1>3 DEF LeaveRoom, table, audio
<1>4. CASE Arrive
  BY <1>4 DEF Arrive, table
<1>5. CASE Mount
  BY <1>5 DEF Mount
<1>6. CASE Unmount
  <2>1. event' = 0 /\ speed' = Playing.speed /\ paused' = FALSE /\ shown' = Playing
    BY <1>6 DEF Unmount, TableUnmounted
  <2>2. 0 \in 0..Events
    OBVIOUS
  <2> QED BY <2>1, <2>2
<1>7. CASE PausePressed
  BY <1>7 DEF PausePressed, PauseFor, room, audio
<1>8. CASE ResumePressed
  BY <1>8 DEF ResumePressed, room, audio
<1>9. CASE DismissRecap
  BY <1>9 DEF DismissRecap, room, audio
<1>10. CASE ChangeSpeed
  BY <1>10 DEF ChangeSpeed, room, audio
<1>11. CASE HeroActs
  BY <1>11 DEF HeroActs, room, audio
<1>12. CASE EventDone
  BY <1>12 DEF EventDone, audio
<1>13. CASE Effects
  BY <1>13 DEF Effects, PauseEffect
<1>14. CASE SettingsChanged
  BY <1>14 DEF SettingsChanged, room, audio
<1>15. CASE GoAway
  BY <1>15 DEF GoAway, PauseFor, Dispatch, table, audio
<1>16. CASE ComeBack
  BY <1>16 DEF ComeBack, Dispatch, table, audio
<1>17. CASE Gesture
  BY <1>17 DEF Gesture, Dispatch, room, table
<1>18. CASE Tick
  BY <1>18 DEF Tick, audio
<1>19. CASE UNCHANGED vars
  BY <1>19 DEF vars, room, table, audio
<1> QED
  BY <1>1, <1>2, <1>3, <1>4, <1>5, <1>6, <1>7, <1>8, <1>9, <1>10, <1>11, <1>12, <1>13, <1>14,
     <1>15, <1>16, <1>17, <1>18, <1>19 DEF Next

(* Every step keeps ReasonOK.                                              *)
LEMMA ReasonPreserved == ReasonOK /\ [Next]_vars => ReasonOK'
<1> SUFFICES ASSUME ReasonOK, [Next]_vars PROVE ReasonOK'
  OBVIOUS
<1> USE DEF ReasonOK
<1>1. CASE EnterRoom
  BY <1>1 DEF EnterRoom, table, audio
<1>2. CASE RenderRoom
  BY <1>2 DEF RenderRoom, table, audio
<1>3. CASE LeaveRoom
  BY <1>3 DEF LeaveRoom, table, audio
<1>4. CASE Arrive
  BY <1>4 DEF Arrive, table
<1>5. CASE Mount
  BY <1>5 DEF Mount
<1>6. CASE Unmount
  BY <1>6 DEF Unmount, TableUnmounted
<1>7. CASE PausePressed
  BY <1>7 DEF PausePressed, PauseFor, room, audio
<1>8. CASE ResumePressed
  BY <1>8 DEF ResumePressed, room, audio
<1>9. CASE DismissRecap
  BY <1>9 DEF DismissRecap, room, audio
<1>10. CASE ChangeSpeed
  BY <1>10 DEF ChangeSpeed, room, audio
<1>11. CASE HeroActs
  BY <1>11 DEF HeroActs, room, audio
<1>12. CASE EventDone
  BY <1>12 DEF EventDone, audio
<1>13. CASE Effects
  BY <1>13 DEF Effects, PauseEffect
<1>14. CASE SettingsChanged
  BY <1>14 DEF SettingsChanged, room, audio
<1>15. CASE GoAway
  BY <1>15 DEF GoAway, PauseFor, Dispatch, table, audio
<1>16. CASE ComeBack
  BY <1>16 DEF ComeBack, Dispatch, table, audio
<1>17. CASE Gesture
  BY <1>17 DEF Gesture, Dispatch, room, table
<1>18. CASE Tick
  BY <1>18 DEF Tick, audio
<1>19. CASE UNCHANGED vars
  BY <1>19 DEF vars, room, table, audio
<1> QED
  BY <1>1, <1>2, <1>3, <1>4, <1>5, <1>6, <1>7, <1>8, <1>9, <1>10, <1>11, <1>12, <1>13, <1>14,
     <1>15, <1>16, <1>17, <1>18, <1>19 DEF Next

-----------------------------------------------------------------------------
(* The coordinator, its recap and the clock.                               *)
LEMMA CoordinatorPreserved ==
  CoordinatorOK /\ ReasonOK /\ CountsOK /\ [Next]_vars
    => CoordinatorOK'
<1> SUFFICES ASSUME CoordinatorOK, ReasonOK, CountsOK, [Next]_vars PROVE CoordinatorOK'
  OBVIOUS
<1>n. now \in Nat /\ pauseReason \in Reasons \cup {"manual"}
  BY DEF CountsOK, ReasonOK
<1>c. \A c \in {WithReason(coordinator, pauseReason), WithoutReason(coordinator, pauseReason)} :
        /\ c \in [reasons : SUBSET (Reasons \cup {"manual"}), since : Nat \cup {Never}]
        /\ (c.since = Never) = (c.reasons = {})
  BY <1>n DEF CoordinatorOK, WithReason, WithoutReason, Never
<1>s. ASSUME UNCHANGED coordinator PROVE CoordinatorOK'
  BY <1>s DEF CoordinatorOK
<1>1. CASE EnterRoom
  BY <1>1, <1>s DEF EnterRoom, table, audio
<1>2. CASE RenderRoom
  BY <1>2, <1>s DEF RenderRoom, table, audio
<1>3. CASE LeaveRoom
  BY <1>3, <1>s DEF LeaveRoom, table, audio
<1>4. CASE Arrive
  BY <1>4, <1>s DEF Arrive, table
<1>5. CASE Mount
  BY <1>5, <1>s DEF Mount
<1>6. CASE Unmount
  BY <1>6 DEF Unmount, TableUnmounted, NobodyAway, CoordinatorOK
<1>7. CASE PausePressed
  BY <1>7, <1>s DEF PausePressed, PauseFor, room, audio
<1>8. CASE ResumePressed
  BY <1>8, <1>s DEF ResumePressed, room, audio
<1>9. CASE DismissRecap
  BY <1>9, <1>s DEF DismissRecap, room, audio
<1>10. CASE ChangeSpeed
  BY <1>10, <1>s DEF ChangeSpeed, room, audio
<1>11. CASE HeroActs
  BY <1>11, <1>s DEF HeroActs, room, audio
<1>12. CASE EventDone
  BY <1>12, <1>s DEF EventDone, audio
<1>13. CASE Effects
  <2>1. \/ coordinator' = coordinator
        \/ coordinator' = WithReason(coordinator, pauseReason)
        \/ coordinator' = WithoutReason(coordinator, pauseReason)
    BY <1>13 DEF Effects, PauseEffect
  <2> QED BY <1>c, <1>s, <2>1 DEF CoordinatorOK
<1>14. CASE SettingsChanged
  <2>1. \/ coordinator' = WithReason(coordinator, pauseReason)
        \/ coordinator' = WithoutReason(coordinator, pauseReason)
    BY <1>14 DEF SettingsChanged
  <2> QED BY <1>c, <2>1 DEF CoordinatorOK
<1>15. CASE GoAway
  BY <1>15, <1>s DEF GoAway, PauseFor, Dispatch, table, audio
<1>16. CASE ComeBack
  BY <1>16, <1>s DEF ComeBack, Dispatch, table, audio
<1>17. CASE Gesture
  BY <1>17, <1>s DEF Gesture, Dispatch, room, table
<1>18. CASE Tick
  BY <1>18, <1>s DEF Tick, audio
<1>19. CASE UNCHANGED vars
  BY <1>19, <1>s DEF vars, room, table, audio
<1> QED
  BY <1>1, <1>2, <1>3, <1>4, <1>5, <1>6, <1>7, <1>8, <1>9, <1>10, <1>11, <1>12, <1>13, <1>14,
     <1>15, <1>16, <1>17, <1>18, <1>19 DEF Next

(* Every step keeps RecapOK.                                               *)
LEMMA RecapPreserved ==
  RecapOK /\ CoordinatorOK /\ CountsOK /\ [Next]_vars
    => RecapOK'
<1> SUFFICES ASSUME RecapOK, CoordinatorOK, CountsOK, [Next]_vars PROVE RecapOK'
  OBVIOUS
<1>s. ASSUME UNCHANGED recap PROVE RecapOK'
  BY <1>s DEF RecapOK
<1>1. CASE EnterRoom
  BY <1>1, <1>s DEF EnterRoom, table, audio
<1>2. CASE RenderRoom
  BY <1>2, <1>s DEF RenderRoom, table, audio
<1>3. CASE LeaveRoom
  BY <1>3, <1>s DEF LeaveRoom, table, audio
<1>4. CASE Arrive
  BY <1>4, <1>s DEF Arrive, table
<1>5. CASE Mount
  BY <1>5, <1>s DEF Mount
<1>6. CASE Unmount
  BY <1>6 DEF Unmount, TableUnmounted, RecapOK
<1>7. CASE PausePressed
  BY <1>7 DEF PausePressed, PauseFor, RecapOK
<1>8. CASE ResumePressed
  BY <1>8, <1>s DEF ResumePressed, room, audio
<1>9. CASE DismissRecap
  BY <1>9 DEF DismissRecap, RecapOK
<1>10. CASE ChangeSpeed
  BY <1>10, <1>s DEF ChangeSpeed, room, audio
<1>11. CASE HeroActs
  BY <1>11, <1>s DEF HeroActs, room, audio
<1>12. CASE EventDone
  BY <1>12, <1>s DEF EventDone, audio
<1>13. CASE Effects
  <2>1. now \in Nat /\ coordinator.since \in Nat \cup {Never} /\ RecapAfter \in Nat
    BY Constants DEF CountsOK, CoordinatorOK
  <2>2. recap' = recap \/ (now - coordinator.since >= RecapAfter /\ recap' = now - coordinator.since)
    BY <1>13 DEF Effects, PauseEffect
  <2> QED BY <1>s, <2>1, <2>2 DEF RecapOK, Never
<1>14. CASE SettingsChanged
  BY <1>14, <1>s DEF SettingsChanged, room, audio
<1>15. CASE GoAway
  BY <1>15, <1>s DEF GoAway, PauseFor, RecapOK, table
<1>16. CASE ComeBack
  BY <1>16, <1>s DEF ComeBack, Dispatch, table, audio
<1>17. CASE Gesture
  BY <1>17, <1>s DEF Gesture, Dispatch, room, table
<1>18. CASE Tick
  BY <1>18, <1>s DEF Tick, audio
<1>19. CASE UNCHANGED vars
  BY <1>19, <1>s DEF vars, room, table, audio
<1> QED
  BY <1>1, <1>2, <1>3, <1>4, <1>5, <1>6, <1>7, <1>8, <1>9, <1>10, <1>11, <1>12, <1>13, <1>14,
     <1>15, <1>16, <1>17, <1>18, <1>19 DEF Next

(* The decision clock.                                                     *)
Clocks == [anchor : Nat, pausedAt : Nat \cup {Never}]
(* Each operation of the blind clock makes a clock paused in the past.     *)
LEMMA ClockOperations ==
  ASSUME now \in Nat, NEW c \in Clocks, c.pausedAt <= now
  PROVE  /\ NewClock \in Clocks /\ NewClock.pausedAt <= now
         /\ Drained(c) \in Clocks /\ Drained(c).pausedAt <= now
         /\ Drained(c).anchor = Mark(c) /\ Drained(c).pausedAt = c.pausedAt
         /\ ClockPause(c) \in Clocks /\ ClockPause(c).pausedAt <= now
         /\ ClockResume(c) \in Clocks /\ ClockResume(c).pausedAt <= now
         /\ Elapsed(c) \in Nat
<1> USE PacingAssumption DEF Clocks, Never, Mark
<1>1. NewClock \in Clocks /\ NewClock.pausedAt <= now
  BY DEF NewClock
<1>2. Mark(c) \in Nat /\ Drained(c) = [c EXCEPT !.anchor = Mark(c)]
  BY DEF Drained
<1>3. Drained(c) \in Clocks /\ Drained(c).anchor = Mark(c) /\ Drained(c).pausedAt = c.pausedAt
  BY <1>2
<1>4. ClockPause(c) \in Clocks /\ ClockPause(c).pausedAt <= now
  BY DEF ClockPause
<1>5. ClockResume(c) \in Clocks /\ ClockResume(c).pausedAt <= now
  BY DEF ClockResume
<1>6. Elapsed(c) \in Nat
  BY DEF Elapsed, Smaller, Larger
<1> QED BY <1>1, <1>3, <1>4, <1>5, <1>6

(* Every step keeps ClockOK.                                               *)
LEMMA ClockPreserved == ClockOK /\ CountsOK /\ [Next]_vars => ClockOK'
<1> SUFFICES ASSUME ClockOK, CountsOK, [Next]_vars PROVE ClockOK'
  OBVIOUS
<1>m. now \in Nat
  BY DEF CountsOK
<1>n. /\ now \in Nat /\ blindClock \in Clocks /\ blindClock.pausedAt <= now
      /\ report \in Nat /\ played \in Nat
  BY <1>m DEF ClockOK, Clocks
<1>o. \A c \in {NewClock, Drained(blindClock), ClockPause(blindClock), ClockResume(blindClock)} :
        c \in Clocks /\ c.pausedAt <= now
  BY <1>n, ClockOperations
<1>s. ASSUME UNCHANGED <<blindClock, report, played, now>> PROVE ClockOK'
  BY <1>s DEF ClockOK
<1>1. CASE EnterRoom
  BY <1>1, <1>s DEF EnterRoom, table, audio
<1>2. CASE RenderRoom
  BY <1>2, <1>s DEF RenderRoom, table, audio
<1>3. CASE LeaveRoom
  BY <1>3, <1>s DEF LeaveRoom, table, audio
<1>4. CASE Arrive
  BY <1>4, <1>s DEF Arrive, table
<1>5. CASE Mount
  <2>1. now' = now /\ blindClock' = NewClock /\ played' = 0 /\ report' = report
    BY <1>5 DEF Mount
  <2> QED BY <1>n, <1>o, ClockOperations, <2>1 DEF ClockOK, Clocks
<1>6. CASE Unmount
  BY <1>6, <1>n DEF Unmount, TableUnmounted, ClockOK, Never
<1>7. CASE PausePressed
  BY <1>7, <1>s DEF PausePressed, PauseFor, room, audio
<1>8. CASE ResumePressed
  BY <1>8, <1>s DEF ResumePressed, room, audio
<1>9. CASE DismissRecap
  BY <1>9, <1>s DEF DismissRecap, room, audio
<1>10. CASE ChangeSpeed
  BY <1>10, <1>s DEF ChangeSpeed, room, audio
<1>11. CASE HeroActs
  <2>1. now' = now /\ blindClock' = Drained(blindClock) /\ played' = 0 /\ report' = Elapsed(blindClock)
    BY <1>11 DEF HeroActs
  <2> QED BY <1>n, <1>o, ClockOperations, <2>1 DEF ClockOK, Clocks
<1>12. CASE EventDone
  BY <1>12, <1>s DEF EventDone, audio
<1>13. CASE Effects
  <2>1. /\ blindClock' \in {blindClock, ClockPause(blindClock), ClockResume(blindClock)}
        /\ played' = played /\ report' = report /\ now' = now
    BY <1>13 DEF Effects, PauseEffect
  <2> QED BY <1>n, <1>o, ClockOperations, <2>1 DEF ClockOK, Clocks
<1>14. CASE SettingsChanged
  BY <1>14, <1>s DEF SettingsChanged, room, audio
<1>15. CASE GoAway
  BY <1>15, <1>s DEF GoAway, PauseFor, Dispatch, table, audio
<1>16. CASE ComeBack
  BY <1>16, <1>s DEF ComeBack, Dispatch, table, audio
<1>17. CASE Gesture
  BY <1>17, <1>s DEF Gesture, Dispatch, room, table
<1>18. CASE Tick
  <2>1. blindClock' = blindClock /\ report' = report /\ played' \in {played, played + 1}
    BY <1>18 DEF Tick
  <2>2. now' = now + 1
    BY <1>18 DEF Tick
  <2>3. blindClock.pausedAt \in Int
    BY <1>n DEF Clocks, Never
  <2> QED BY <1>n, <2>1, <2>2, <2>3 DEF ClockOK, Clocks
<1>19. CASE UNCHANGED vars
  BY <1>19, <1>s DEF vars, room, table, audio
<1> QED
  BY <1>1, <1>2, <1>3, <1>4, <1>5, <1>6, <1>7, <1>8, <1>9, <1>10, <1>11, <1>12, <1>13, <1>14,
     <1>15, <1>16, <1>17, <1>18, <1>19 DEF Next

(* Sound: ready only at a window that is there.                            *)
LEMMA PolicyPreserved == PolicyOK /\ PlaceOK /\ [Next]_vars => PolicyOK'
<1> SUFFICES ASSUME PolicyOK, PlaceOK, [Next]_vars PROVE PolicyOK'
  OBVIOUS
<1>s. ASSUME UNCHANGED policy PROVE PolicyOK'
  BY <1>s DEF PolicyOK
<1>1. CASE EnterRoom
  BY <1>1, <1>s DEF EnterRoom, table, audio
<1>2. CASE RenderRoom
  BY <1>2, <1>s DEF RenderRoom, table, audio
<1>3. CASE LeaveRoom
  BY <1>3, <1>s DEF LeaveRoom, table, audio
<1>4. CASE Arrive
  BY <1>4 DEF Arrive, NoPolicy, PolicyOK
<1>5. CASE Mount
  BY <1>5, <1>s DEF Mount
<1>6. CASE Unmount
  BY <1>6 DEF Unmount, NoPolicy, PolicyOK
<1>7. CASE PausePressed
  BY <1>7, <1>s DEF PausePressed, PauseFor, room, audio
<1>8. CASE ResumePressed
  BY <1>8, <1>s DEF ResumePressed, room, audio
<1>9. CASE DismissRecap
  BY <1>9, <1>s DEF DismissRecap, room, audio
<1>10. CASE ChangeSpeed
  BY <1>10, <1>s DEF ChangeSpeed, room, audio
<1>11. CASE HeroActs
  BY <1>11, <1>s DEF HeroActs, room, audio
<1>12. CASE EventDone
  BY <1>12, <1>s DEF EventDone, audio
<1>13. CASE Effects
  BY <1>13, <1>s DEF Effects, PauseEffect
<1>14. CASE SettingsChanged
  BY <1>14, <1>s DEF SettingsChanged, room, audio
<1>15. CASE GoAway
  <2>1. PICK reason \in Reasons :
          policy' = policy \/ policy' = Blocked(policy, reason)
    BY <1>15 DEF GoAway, Dispatch, audio
  <2>2. Blocker(reason) \in {Blocker(r) : r \in Reasons}
    OBVIOUS
  <2>3. CASE policy' = Blocked(policy, reason)
    BY <2>2, <2>3 DEF PolicyOK, Blocked
  <2> QED BY <1>s, <2>1, <2>3
<1>16. CASE ComeBack
  <2>1. PICK reason \in Reasons :
          policy' = policy \/ policy' = Unblocked(policy, reason)
    BY <1>16 DEF ComeBack, Dispatch, audio, PlaceOK
  <2>2. CASE policy' = Unblocked(policy, reason)
    BY <2>2 DEF PolicyOK, Unblocked
  <2> QED BY <1>s, <2>1, <2>2
<1>17. CASE Gesture
  BY <1>17 DEF Gesture, Dispatch, Activated, PolicyOK
<1>18. CASE Tick
  BY <1>18, <1>s DEF Tick, audio
<1>19. CASE UNCHANGED vars
  BY <1>19, <1>s DEF vars, room, table, audio
<1> QED
  BY <1>1, <1>2, <1>3, <1>4, <1>5, <1>6, <1>7, <1>8, <1>9, <1>10, <1>11, <1>12, <1>13, <1>14,
     <1>15, <1>16, <1>17, <1>18, <1>19 DEF Next

(* Every step keeps ReadyIsHere.                                           *)
LEMMA ReadyPreserved ==
  ReadyIsHere /\ PolicyOK /\ FreezeIsShared /\ [Next]_vars
    => ReadyIsHere'
<1> SUFFICES ASSUME ReadyIsHere, PolicyOK, FreezeIsShared, [Next]_vars
             PROVE  ReadyIsHere'
  OBVIOUS
<1>s. ASSUME UNCHANGED <<policy, muted, away, surface>> PROVE ReadyIsHere'
  BY <1>s DEF ReadyIsHere, HookOn
<1>1. CASE EnterRoom
  BY <1>1 DEF EnterRoom, ReadyIsHere, audio, HookOn
<1>2. CASE RenderRoom
  BY <1>2, <1>s DEF RenderRoom, table, audio
<1>3. CASE LeaveRoom
  BY <1>3 DEF LeaveRoom, ReadyIsHere, audio, HookOn
<1>4. CASE Arrive
  BY <1>4 DEF Arrive, ReadyIsHere, NoPolicy, HookOn
<1>5. CASE Mount
  BY <1>5 DEF Mount, ReadyIsHere, HookOn
<1>6. CASE Unmount
  BY <1>6 DEF Unmount, ReadyIsHere, NoPolicy, HookOn
<1>7. CASE PausePressed
  BY <1>7, <1>s DEF PausePressed, PauseFor, room, audio
<1>8. CASE ResumePressed
  BY <1>8, <1>s DEF ResumePressed, room, audio
<1>9. CASE DismissRecap
  BY <1>9, <1>s DEF DismissRecap, room, audio
<1>10. CASE ChangeSpeed
  BY <1>10, <1>s DEF ChangeSpeed, room, audio
<1>11. CASE HeroActs
  BY <1>11, <1>s DEF HeroActs, room, audio
<1>12. CASE EventDone
  BY <1>12, <1>s DEF EventDone, audio
<1>13. CASE Effects
  BY <1>13 DEF Effects, ReadyIsHere, HookOn, FreezeIsShared
<1>14. CASE SettingsChanged
  BY <1>14, <1>s DEF SettingsChanged, room, audio
<1>15. CASE GoAway
  <2>1. surface' = surface
    BY <1>15 DEF GoAway
  <2>2. CASE HookOn
    <3>1. PICK reason \in Reasons : Dispatch(Blocked(policy, reason))
      BY <1>15, <2>2 DEF GoAway
    <3>2. ~policy'.ready /\ muted'
      BY <3>1 DEF Dispatch, Blocked, Silent, PolicyOK
    <3> QED BY <2>1, <2>2, <3>2 DEF ReadyIsHere, HookOn
  <2>3. CASE ~HookOn
    BY <1>15, <2>1, <2>3 DEF GoAway, audio, ReadyIsHere, HookOn
  <2> QED BY <2>2, <2>3
<1>16. CASE ComeBack
  <2>1. surface' = surface
    BY <1>16 DEF ComeBack
  <2>2. PICK reason \in away :
          /\ away' = away \ {reason}
          /\ IF HookOn THEN Dispatch(Unblocked(policy, reason)) ELSE UNCHANGED audio
    BY <1>16 DEF ComeBack
  <2>3. policy'.ready = policy.ready /\ (HookOn => muted' \/ policy'.ready)
    BY <2>2 DEF Dispatch, Unblocked, Silent, PolicyOK, audio
  <2> QED BY <2>1, <2>2, <2>3 DEF ReadyIsHere, HookOn
<1>17. CASE Gesture
  <2>1. policy'.ready => away = {}
    BY <1>17 DEF Gesture, Dispatch, Activated, PolicyOK, ReadyIsHere
  <2>2. muted' \/ policy'.ready
    BY <1>17 DEF Gesture, Dispatch, Silent
  <2> QED BY <1>17, <2>1, <2>2 DEF Gesture, room, table, HookOn, ReadyIsHere
<1>18. CASE Tick
  BY <1>18, <1>s DEF Tick, audio
<1>19. CASE UNCHANGED vars
  BY <1>19, <1>s DEF vars, room, table, audio
<1> QED
  BY <1>1, <1>2, <1>3, <1>4, <1>5, <1>6, <1>7, <1>8, <1>9, <1>10, <1>11, <1>12, <1>13, <1>14,
     <1>15, <1>16, <1>17, <1>18, <1>19 DEF Next

-----------------------------------------------------------------------------
(* The delays: what they serve, and that they freeze together.             *)
LEMMA DelaysPreserved ==
  DelaysKept /\ CountsOK /\ TableOK /\ PlaceOK /\ [Next]_vars
    => DelaysKept'
<1> SUFFICES ASSUME DelaysKept, CountsOK, TableOK, PlaceOK, [Next]_vars
             PROVE  DelaysKept'
  OBVIOUS
<1>n. now \in Nat /\ \A d \in delays : d \in Delays /\ Serves(d)
  BY DEF CountsOK, DelaysKept
<1>p. now' = now => \A d : Serves(d) => Serves(d)'
  BY DEF Serves
<1>f. ASSUME now' = now, delays' \subseteq delays PROVE DelaysKept'
  BY <1>f, <1>n, <1>p DEF DelaysKept
<1>g. ASSUME now' = now, delays' = Frozen(delays) PROVE DelaysKept'
  BY <1>g, <1>n, <1>p, DelayFrozen DEF DelaysKept, Frozen
<1>h. ASSUME now' = now, delays' = Resumed(delays) PROVE DelaysKept'
  BY <1>h, <1>n, <1>p, DelayResumed DEF DelaysKept, Resumed
<1>s. ASSUME UNCHANGED <<delays, now>> PROVE DelaysKept'
  BY <1>s DEF DelaysKept, Serves
<1>1. CASE EnterRoom
  BY <1>1, <1>n, <1>p, DelayMade, Constants DEF EnterRoom, table, audio, DelaysKept, Arrival
<1>2. CASE RenderRoom
  <2>1. now' = now /\ delays' = {Added(NewDelay(Arrival, RoomTime), frozen)}
    BY <1>2 DEF RenderRoom
  <2>2. frozen \in BOOLEAN
    BY DEF PlaceOK
  <2> QED BY <1>n, <1>p, <2>1, <2>2, DelayAdded, Constants DEF DelaysKept, Arrival
<1>3. CASE LeaveRoom
  BY <1>3 DEF LeaveRoom, DelaysKept
<1>4. CASE Arrive
  BY <1>4, <1>f DEF Arrive
<1>5. CASE Mount
  <2>1. now' = now /\ delays' = {NewDelay(1, EventTime[Playing.speed])}
    BY <1>5 DEF Mount
  <2>2. 1 \in 0..Events /\ EventTime[Playing.speed] \in Nat
    BY Constants
  <2> QED BY <1>n, <1>p, <2>1, <2>2, DelayMade DEF DelaysKept
<1>6. CASE Unmount
  BY <1>6 DEF Unmount, DelaysKept
<1>7. CASE PausePressed
  BY <1>7, <1>s DEF PausePressed, PauseFor, room, audio
<1>8. CASE ResumePressed
  BY <1>8, <1>s DEF ResumePressed, room, audio
<1>9. CASE DismissRecap
  BY <1>9, <1>s DEF DismissRecap, room, audio
<1>10. CASE ChangeSpeed
  BY <1>10, <1>s DEF ChangeSpeed, room, audio
<1>11. CASE HeroActs
  BY <1>11, <1>s DEF HeroActs, room, audio
<1>12. CASE EventDone
  BY <1>12, <1>f DEF EventDone
<1>13. CASE Effects
  <2>1. now' = now /\ delays' = EventEffect
    BY <1>13 DEF Effects
  <2>2. \/ delays' \in {delays, Frozen(delays), Resumed(delays), {}}
        \/ delays' = {Added(NewDelay(event, EventTime[speed]), paused)}
    BY <2>1 DEF EventEffect, Kept
  <2>3. CASE delays' = {Added(NewDelay(event, EventTime[speed]), paused)}
    <3>1. event \in 0..Events /\ EventTime[speed] \in Nat /\ paused \in BOOLEAN
      BY Constants DEF TableOK
    <3> QED BY <1>n, <1>p, <2>1, <2>3, <3>1, DelayAdded DEF DelaysKept
  <2>4. CASE delays' \in {delays, Frozen(delays), Resumed(delays), {}}
    BY <1>n, <1>f, <1>g, <1>h, <2>1, <2>4 DEF DelaysKept
  <2> QED BY <2>2, <2>3, <2>4
<1>14. CASE SettingsChanged
  BY <1>14, <1>s DEF SettingsChanged, room, audio
<1>15. CASE GoAway
  <2>1. now' = now /\ delays' \in {delays, Frozen(delays)}
    BY <1>15 DEF GoAway
  <2> QED BY <1>f, <1>g, <2>1
<1>16. CASE ComeBack
  <2>1. now' = now /\ delays' \in {delays, Resumed(delays)}
    BY <1>16 DEF ComeBack
  <2> QED BY <1>f, <1>h, <2>1
<1>17. CASE Gesture
  BY <1>17, <1>s DEF Gesture, Dispatch, room, table
<1>18. CASE Tick
  <2>1. now' = now + 1 /\ delays' = {Served(d) : d \in delays}
    BY <1>18 DEF Tick
  <2>2. \A d \in delays : Served(d) \in Delays /\ Serves(Served(d))'
    BY <1>n, <2>1, DelayTicks
  <2> QED BY <2>1, <2>2 DEF DelaysKept
<1>19. CASE UNCHANGED vars
  BY <1>19, <1>s DEF vars, room, table, audio
<1> QED
  BY <1>1, <1>2, <1>3, <1>4, <1>5, <1>6, <1>7, <1>8, <1>9, <1>10, <1>11, <1>12, <1>13, <1>14,
     <1>15, <1>16, <1>17, <1>18, <1>19 DEF Next

(* Every step keeps the flag of the group shared.                          *)
LEMMA FreezePreserved ==
  FreezeIsShared /\ DelaysKept /\ CountsOK /\ TableOK /\ PlaceOK /\ [Next]_vars
    => FreezeIsShared'
<1> SUFFICES ASSUME FreezeIsShared, DelaysKept, CountsOK, TableOK, PlaceOK, [Next]_vars
             PROVE  FreezeIsShared'
  OBVIOUS
<1>n. now \in Nat /\ (frozen \in BOOLEAN) /\ \A d \in delays : d \in Delays /\ Serves(d)
  BY DEF CountsOK, DelaysKept, PlaceOK
<1>s. ASSUME UNCHANGED <<surface, mounted, delays, frozen, shown>> PROVE FreezeIsShared'
  BY <1>s DEF FreezeIsShared
<1>1. CASE EnterRoom
  <2>1. surface # "table" /\ mounted' = mounted /\ frozen' = FALSE
        /\ delays' = {NewDelay(Arrival, RoomTime)}
    BY <1>1 DEF EnterRoom, table, audio
  <2> QED BY <1>n, <2>1, DelayMade, Constants DEF FreezeIsShared, Arrival
<1>2. CASE RenderRoom
  <2>1. surface # "table" /\ mounted' = mounted /\ frozen' = frozen
        /\ delays' = {Added(NewDelay(Arrival, RoomTime), frozen)}
    BY <1>2 DEF RenderRoom
  <2> QED BY <1>n, <2>1, DelayAdded, Constants DEF FreezeIsShared, Arrival
<1>3. CASE LeaveRoom
  BY <1>3 DEF LeaveRoom, FreezeIsShared
<1>4. CASE Arrive
  <2>1. PICK d \in delays : d.for = Arrival /\ Due(d) /\ delays' = delays \ {d}
    BY <1>4 DEF Arrive
  <2>2. ~frozen
    BY <2>1 DEF FreezeIsShared, Due
  <2> QED BY <1>4, <2>1, <2>2 DEF Arrive, table, FreezeIsShared
<1>5. CASE Mount
  <2>1. delays' = {NewDelay(1, EventTime[Playing.speed])}
    BY <1>5 DEF Mount
  <2>2. 1 \in 0..Events /\ EventTime[Playing.speed] \in Nat /\ Playing.paused = FALSE
    BY Constants
  <2>3. \A d \in delays' : Running(d)
    BY <1>n, <2>1, <2>2, DelayMade
  <2> QED BY <1>5, <2>2, <2>3 DEF Mount, FreezeIsShared
<1>6. CASE Unmount
  BY <1>6 DEF Unmount, FreezeIsShared
<1>7. CASE PausePressed
  BY <1>7, <1>s DEF PausePressed, PauseFor, room, audio
<1>8. CASE ResumePressed
  BY <1>8, <1>s DEF ResumePressed, room, audio
<1>9. CASE DismissRecap
  BY <1>9, <1>s DEF DismissRecap, room, audio
<1>10. CASE ChangeSpeed
  BY <1>10, <1>s DEF ChangeSpeed, room, audio
<1>11. CASE HeroActs
  BY <1>11, <1>s DEF HeroActs, room, audio
<1>12. CASE EventDone
  BY <1>12 DEF EventDone, audio, FreezeIsShared
<1>13. CASE Effects
  <2>1. delays' = EventEffect /\ frozen' = paused /\ mounted /\ mounted' = mounted
        /\ surface' = surface /\ shown' = [event |-> event, speed |-> speed, paused |-> paused]
    BY <1>13 DEF Effects
  <2>2. event \in 0..Events /\ EventTime[speed] \in Nat /\ paused \in BOOLEAN
    BY Constants DEF TableOK
  <2>3. \A d \in Kept : Running(d) <=> ~paused
    BY <1>n, <2>1, DelayFrozen, DelayResumed DEF Kept, Frozen, Resumed, FreezeIsShared
  <2>4. \A d \in delays' : Running(d) <=> ~paused
    BY <1>n, <2>1, <2>2, <2>3, DelayAdded DEF EventEffect
  <2> QED BY <2>1, <2>4 DEF FreezeIsShared
<1>14. CASE SettingsChanged
  BY <1>14, <1>s DEF SettingsChanged, room, audio
<1>15. CASE GoAway
  <2>1. /\ surface' = surface /\ mounted' = mounted /\ shown' = shown
        /\ surface # "room" => frozen' = frozen /\ delays' = delays
        /\ surface = "room" => frozen' = TRUE /\ delays' = Frozen(delays)
    BY <1>15 DEF GoAway, PauseFor, table
  <2> QED BY <1>n, <2>1, DelayFrozen DEF FreezeIsShared, Frozen
<1>16. CASE ComeBack
  <2>1. /\ surface' = surface /\ mounted' = mounted /\ shown' = shown
        /\ surface # "room" => frozen' = frozen /\ delays' = delays
        /\ surface = "room" => frozen' = FALSE /\ delays' = Resumed(delays)
    BY <1>16 DEF ComeBack, table
  <2> QED BY <1>n, <2>1, DelayResumed DEF FreezeIsShared, Resumed
<1>17. CASE Gesture
  BY <1>17, <1>s DEF Gesture, Dispatch, room, table
<1>18. CASE Tick
  <2>1. delays' = {Served(d) : d \in delays} /\ now' = now + 1
        /\ UNCHANGED <<surface, mounted, frozen, shown>>
    BY <1>18 DEF Tick
  <2> QED BY <1>n, <2>1, DelayTicks DEF FreezeIsShared
<1>19. CASE UNCHANGED vars
  BY <1>19, <1>s DEF vars, room, table, audio
<1> QED
  BY <1>1, <1>2, <1>3, <1>4, <1>5, <1>6, <1>7, <1>8, <1>9, <1>10, <1>11, <1>12, <1>13, <1>14,
     <1>15, <1>16, <1>17, <1>18, <1>19 DEF Next

(* The delay of a table is the one of the event on it.                     *)
LEMMA EventPreserved ==
  DelayIsOfEvent /\ FreezeIsShared /\ DelaysKept /\ CountsOK /\ TableOK /\ [Next]_vars
    => DelayIsOfEvent'
<1> SUFFICES ASSUME DelayIsOfEvent, FreezeIsShared, DelaysKept, CountsOK, TableOK, [Next]_vars
             PROVE  DelayIsOfEvent'
  OBVIOUS
<1>n. now \in Nat /\ \A d \in delays : d \in Delays /\ Serves(d)
  BY DEF CountsOK, DelaysKept
<1>s. ASSUME UNCHANGED <<mounted, delays, event, shown>> PROVE DelayIsOfEvent'
  BY <1>s DEF DelayIsOfEvent
<1>1. CASE EnterRoom
  BY <1>1 DEF EnterRoom, table, audio, DelayIsOfEvent, FreezeIsShared
<1>2. CASE RenderRoom
  BY <1>2 DEF RenderRoom, DelayIsOfEvent, FreezeIsShared
<1>3. CASE LeaveRoom
  BY <1>3 DEF LeaveRoom, DelayIsOfEvent, FreezeIsShared
<1>4. CASE Arrive
  BY <1>4 DEF Arrive, table, DelayIsOfEvent
<1>5. CASE Mount
  <2>1. delays' = {NewDelay(1, EventTime[Playing.speed])} /\ event' = 1 /\ shown' = Playing
    BY <1>5 DEF Mount
  <2>2. 1 \in 0..Events /\ EventTime[Playing.speed] \in Nat /\ Playing.event = 1
    BY Constants
  <2> QED BY <1>n, <2>1, <2>2, DelayMade DEF Mount, DelayIsOfEvent, Arrival
<1>6. CASE Unmount
  BY <1>6 DEF Unmount, DelayIsOfEvent
<1>7. CASE PausePressed
  BY <1>7, <1>s DEF PausePressed, PauseFor, room, audio
<1>8. CASE ResumePressed
  BY <1>8, <1>s DEF ResumePressed, room, audio
<1>9. CASE DismissRecap
  BY <1>9, <1>s DEF DismissRecap, room, audio
<1>10. CASE ChangeSpeed
  BY <1>10, <1>s DEF ChangeSpeed, room, audio
<1>11. CASE HeroActs
  <2>1. mounted /\ shown.event = 0 /\ delays' = delays
    BY <1>11 DEF HeroActs, room
  <2>2. delays = {}
    BY <2>1 DEF DelayIsOfEvent, Arrival
  <2> QED BY <2>1, <2>2 DEF DelayIsOfEvent
<1>12. CASE EventDone
  <2>1. PICK d \in delays : delays' = delays \ {d}
    BY <1>12 DEF EventDone
  <2>2. mounted => delays = {d}
    BY <2>1 DEF DelayIsOfEvent
  <2>3. mounted' = mounted
    BY <1>12 DEF EventDone
  <2> QED BY <2>1, <2>2, <2>3 DEF DelayIsOfEvent
<1>13. CASE Effects
  <2>1. delays' = EventEffect /\ mounted /\ event' = event
        /\ shown' = [event |-> event, speed |-> speed, paused |-> paused]
    BY <1>13 DEF Effects
  <2>2. event \in 0..Events /\ EventTime[speed] \in Nat /\ paused \in BOOLEAN
    BY Constants DEF TableOK
  <2>3. CASE event = shown.event /\ speed = shown.speed
    <3>1. \A d \in Kept : Kept = {d} /\ d.for = event /\ d.for # Arrival /\ d.total = EventTime[speed]
      BY <1>n, <2>1, <2>3, DelayFrozen, DelayResumed DEF Kept, Frozen, Resumed, DelayIsOfEvent
    <3> QED BY <2>1, <2>3, <3>1 DEF EventEffect, DelayIsOfEvent
  <2>4. CASE event = 0 /\ ~(event = shown.event /\ speed = shown.speed)
    BY <2>1, <2>4 DEF EventEffect, DelayIsOfEvent
  <2>5. CASE event # 0 /\ ~(event = shown.event /\ speed = shown.speed)
    <3>1. delays' = {Added(NewDelay(event, EventTime[speed]), paused)}
      BY <2>1, <2>5 DEF EventEffect
    <3> QED BY <1>n, <2>1, <2>2, <2>5, <3>1, DelayAdded DEF DelayIsOfEvent, Arrival
  <2> QED BY <2>3, <2>4, <2>5
<1>14. CASE SettingsChanged
  BY <1>14, <1>s DEF SettingsChanged, room, audio
<1>15. CASE GoAway
  <2>1. /\ mounted' = mounted /\ shown' = shown /\ event' = event
        /\ surface # "room" => delays' = delays
    BY <1>15 DEF GoAway, PauseFor, table
  <2> QED BY <2>1 DEF DelayIsOfEvent, FreezeIsShared
<1>16. CASE ComeBack
  <2>1. /\ mounted' = mounted /\ shown' = shown /\ event' = event
        /\ surface # "room" => delays' = delays
    BY <1>16 DEF ComeBack, table
  <2> QED BY <2>1 DEF DelayIsOfEvent, FreezeIsShared
<1>17. CASE Gesture
  BY <1>17, <1>s DEF Gesture, Dispatch, room, table
<1>18. CASE Tick
  <2>1. delays' = {Served(d) : d \in delays} /\ now' = now + 1
        /\ UNCHANGED <<mounted, event, shown>>
    BY <1>18 DEF Tick
  <2>2. \A d \in delays : Served(d).for = d.for /\ Served(d).total = d.total
    BY <1>n, <2>1, DelayTicks
  <2> QED BY <2>1, <2>2 DEF DelayIsOfEvent
<1>19. CASE UNCHANGED vars
  BY <1>19, <1>s DEF vars, room, table, audio
<1> QED
  BY <1>1, <1>2, <1>3, <1>4, <1>5, <1>6, <1>7, <1>8, <1>9, <1>10, <1>11, <1>12, <1>13, <1>14,
     <1>15, <1>16, <1>17, <1>18, <1>19 DEF Next

(* The clock's mark is the time played after its anchor.                   *)
LEMMA ClockCountsPreserved ==
  ClockCounts /\ ClockOK /\ CountsOK /\ TableOK /\ [Next]_vars
    => ClockCounts'
<1> SUFFICES ASSUME ClockCounts, ClockOK, CountsOK, TableOK, [Next]_vars
             PROVE  ClockCounts'
  OBVIOUS
<1>n. now \in Nat /\ blindClock \in Clocks /\ blindClock.pausedAt <= now /\ played \in Nat
  BY DEF CountsOK, ClockOK, Clocks
<1>t. paused \in BOOLEAN /\ shown.paused \in BOOLEAN
  BY DEF TableOK
<1>s. ASSUME UNCHANGED <<mounted, shown, blindClock, played, now>> PROVE ClockCounts'
  BY <1>s DEF ClockCounts, Mark
<1>1. CASE EnterRoom
  BY <1>1, <1>s DEF EnterRoom, table, audio
<1>2. CASE RenderRoom
  BY <1>2, <1>s DEF RenderRoom, table, audio
<1>3. CASE LeaveRoom
  BY <1>3, <1>s DEF LeaveRoom, table, audio
<1>4. CASE Arrive
  BY <1>4, <1>s DEF Arrive, table
<1>5. CASE Mount
  <2>1. blindClock' = NewClock /\ played' = 0 /\ now' = now /\ shown'.paused = FALSE
    BY <1>5, Constants DEF Mount
  <2> QED BY <1>n, <2>1 DEF ClockCounts, NewClock, Mark, Never
<1>6. CASE Unmount
  BY <1>6 DEF Unmount, ClockCounts
<1>7. CASE PausePressed
  BY <1>7, <1>s DEF PausePressed, PauseFor, room, audio
<1>8. CASE ResumePressed
  BY <1>8, <1>s DEF ResumePressed, room, audio
<1>9. CASE DismissRecap
  BY <1>9, <1>s DEF DismissRecap, room, audio
<1>10. CASE ChangeSpeed
  BY <1>10, <1>s DEF ChangeSpeed, room, audio
<1>11. CASE HeroActs
  <2>1. blindClock' = Drained(blindClock) /\ played' = 0 /\ now' = now /\ shown' = shown
        /\ mounted /\ mounted' = mounted
    BY <1>11 DEF HeroActs, room
  <2>2. Mark(blindClock)' = Mark(blindClock)
    BY <1>n, <2>1, ClockOperations DEF Mark
  <2>3. Mark(blindClock) \in Int /\ (mounted => Mark(blindClock) <= now)
    BY <1>n DEF Mark, Clocks, Never, ClockCounts
  <2>4. blindClock'.anchor = Mark(blindClock) /\ blindClock'.pausedAt = blindClock.pausedAt
    BY <1>n, <2>1, ClockOperations
  <2>5. blindClock.pausedAt = Never <=> ~shown.paused
    BY <2>1 DEF ClockCounts
  <2> QED BY <1>n, <2>1, <2>2, <2>3, <2>4, <2>5 DEF ClockCounts
<1>12. CASE EventDone
  BY <1>12, <1>s DEF EventDone, audio
<1>13. CASE Effects
  <2>1. shown'.paused = paused /\ played' = played /\ now' = now /\ mounted /\ mounted' = mounted
    BY <1>13 DEF Effects
  <2>2. CASE paused = shown.paused
    BY <1>13, <1>n, <2>1, <2>2 DEF Effects, PauseEffect, ClockCounts, Mark
  <2>3. CASE paused /\ ~shown.paused
    <3>1. blindClock' = ClockPause(blindClock)
      BY <1>13, <2>3 DEF Effects, PauseEffect
    <3> QED BY <1>n, <2>1, <2>3, <3>1 DEF ClockPause, ClockCounts, Mark, Clocks, Never
  <2>4. CASE ~paused /\ shown.paused
    <3>1. blindClock' = ClockResume(blindClock)
      BY <1>13, <2>4 DEF Effects, PauseEffect
    <3> QED BY <1>n, <2>1, <2>4, <3>1 DEF ClockResume, ClockCounts, Mark, Clocks, Never
  <2> QED BY <1>t, <2>2, <2>3, <2>4
<1>14. CASE SettingsChanged
  BY <1>14, <1>s DEF SettingsChanged, room, audio
<1>15. CASE GoAway
  BY <1>15, <1>s DEF GoAway, PauseFor, table
<1>16. CASE ComeBack
  BY <1>16, <1>s DEF ComeBack, Dispatch, table, audio
<1>17. CASE Gesture
  BY <1>17, <1>s DEF Gesture, Dispatch, room, table
<1>18. CASE Tick
  <2>1. now' = now + 1 /\ UNCHANGED <<mounted, shown, blindClock>>
        /\ played' = IF mounted /\ ~shown.paused THEN played + 1 ELSE played
    BY <1>18 DEF Tick
  <2> QED BY <1>n, <2>1 DEF ClockCounts, Mark, Clocks, Never
<1>19. CASE UNCHANGED vars
  BY <1>19, <1>s DEF vars, room, table, audio
<1> QED
  BY <1>1, <1>2, <1>3, <1>4, <1>5, <1>6, <1>7, <1>8, <1>9, <1>10, <1>11, <1>12, <1>13, <1>14,
     <1>15, <1>16, <1>17, <1>18, <1>19 DEF Next

-----------------------------------------------------------------------------
(* The inductive invariant holds when the app starts,                      *)
LEMMA InitEstablishes == Init => IInv
<1> SUFFICES ASSUME Init PROVE IInv
  OBVIOUS
<1> USE Constants
<1>1. PlaceOK /\ CountsOK /\ ReasonOK
  <2>1. PlaceOK
    BY DEF Init, PlaceOK
  <2>2. CountsOK /\ ReasonOK
    BY DEF Init, CountsOK, ReasonOK
  <2> QED BY <2>1, <2>2
<1>2. TableOK
  <2>1. event = 0 /\ speed = Playing.speed /\ paused = FALSE /\ shown = Playing
    BY DEF Init
  <2>2. 0 \in 0..Events
    OBVIOUS
  <2> QED BY <2>1, <2>2 DEF TableOK
<1>3. CoordinatorOK /\ RecapOK
  BY DEF Init, CoordinatorOK, RecapOK, NobodyAway
<1>4. ClockOK
  BY DEF Init, ClockOK, Never
<1>5. PolicyOK /\ ReadyIsHere
  BY DEF Init, PolicyOK, ReadyIsHere, NoPolicy
<1>6. DelaysKept /\ FreezeIsShared /\ DelayIsOfEvent /\ ClockCounts
  BY DEF Init, DelaysKept, FreezeIsShared, DelayIsOfEvent, ClockCounts
<1> QED BY <1>1, <1>2, <1>3, <1>4, <1>5, <1>6 DEF IInv, Typed

(* and every step keeps it.                                                *)
LEMMA Inductive == IInv /\ [Next]_vars => IInv'
BY PlacePreserved, CountsPreserved, TablePreserved, ReasonPreserved, CoordinatorPreserved,
   RecapPreserved, ClockPreserved, PolicyPreserved, DelaysPreserved, ReadyPreserved,
   FreezePreserved, EventPreserved, ClockCountsPreserved DEF IInv, Typed

(* Every reachable state satisfies the invariant: room and table keep one  *)
(* account of delays, clock and sound, whatever pauses the window and the  *)
(* player have made.                                                       *)
THEOREM PacingInvariant == Spec => []IInv
<1>1. Init => IInv
  BY InitEstablishes
<1>2. IInv /\ [Next]_vars => IInv'
  BY Inductive
<1> QED BY <1>1, <1>2, PTL DEF Spec

(* Every variable keeps the values the code gives it.                      *)
THEOREM TypeCorrect == Spec => []TypeOK
<1>1. IInv => TypeOK
  <2> SUFFICES ASSUME IInv PROVE TypeOK
    OBVIOUS
  <2>1. PlaceOK /\ CountsOK /\ ReasonOK /\ TableOK
    BY DEF IInv, Typed
  <2>2. CoordinatorOK /\ RecapOK
    BY DEF IInv, Typed
  <2>3. /\ blindClock \in [anchor : Nat, pausedAt : Nat \cup {Never}]
        /\ report \in Nat /\ played \in Nat
    BY DEF IInv, Typed, ClockOK
  <2>4. PolicyOK /\ delays \subseteq Delays
    BY DEF IInv, Typed, DelaysKept
  <2> QED BY <2>1, <2>2, <2>3, <2>4
        DEF TypeOK, PlaceOK, CountsOK, ReasonOK, TableOK, CoordinatorOK, RecapOK, PolicyOK
<1> QED BY <1>1, PacingInvariant, PTL

(* FreezableDelay: however often it was frozen and resumed, a delay that   *)
(* may complete has run for its whole time.                                *)
THEOREM NeverEarlyHolds == Spec => []NeverEarly
<1>1. IInv => NeverEarly
  <2> SUFFICES ASSUME IInv, NEW d \in delays
               PROVE  (Due(d) => d.served >= d.total) /\ (Running(d) <=> ~frozen)
    BY DEF NeverEarly
  <2>1. d \in Delays /\ Serves(d) /\ now \in Nat
    BY DEF IInv, Typed, DelaysKept, CountsOK
  <2>2. Due(d) => d.served >= d.total
    BY <2>1 DEF Due, Serves, Running, Delays, Never
  <2>3. Running(d) <=> ~frozen
    BY DEF IInv, FreezeIsShared
  <2> QED BY <2>2, <2>3
<1> QED BY <1>1, PacingInvariant, PTL

(* Off the table a window that is away for any reason is silent.           *)
THEOREM SilentWhileAway == Spec => []NoSoundWhileAway
<1>1. IInv => NoSoundWhileAway
  BY DEF IInv, ReadyIsHere, NoSoundWhileAway
<1> QED BY <1>1, PacingInvariant, PTL

(* A step to another event ends the delay of the one shown.                *)
LEMMA StepPresents ==
  ASSUME IInv, [Next]_vars, mounted, mounted', event # 0, event' # event
  PROVE  /\ shown.event = event /\ ~shown.paused
         /\ \E d \in delays \ delays' :
              d.for = event /\ d.total = EventTime[shown.speed] /\ d.served >= d.total
<1>1. EventDone
  BY DEF Next, vars, room, table, audio, EnterRoom, RenderRoom, LeaveRoom, Arrive, Mount,
         Unmount, PausePressed, PauseFor, ResumePressed, DismissRecap, ChangeSpeed, HeroActs,
         Effects, SettingsChanged, GoAway, ComeBack, Gesture, Tick
<1>2. PICK d \in delays : Due(d) /\ delays' = delays \ {d}
  BY <1>1 DEF EventDone
<1>3. d \in Delays /\ Serves(d) /\ now \in Nat
  BY DEF IInv, Typed, DelaysKept, CountsOK
<1>4. d.served >= d.total
  BY <1>2, <1>3 DEF Due, Serves, Running, Delays, Never
<1>5. d.for = event /\ d.for = shown.event /\ d.total = EventTime[shown.speed]
  BY DEF IInv, DelayIsOfEvent
<1>6. ~shown.paused
  BY <1>2 DEF IInv, FreezeIsShared, Due
<1> QED BY <1>2, <1>4, <1>5, <1>6

(* The runner goes on only after the event on the table was presented for  *)
(* its whole time, under no pause.                                         *)
THEOREM EventsPresented == Spec => EachEventPresented
<1>1. IInv /\ [Next]_vars
        => [ mounted /\ mounted' /\ event # 0 /\ event' # event =>
               /\ shown.event = event /\ ~shown.paused
               /\ \E d \in delays \ delays' :
                    d.for = event /\ d.total = EventTime[shown.speed] /\ d.served >= d.total ]_vars
  BY StepPresents
<1> QED BY <1>1, PacingInvariant, PTL DEF Spec, EachEventPresented

(* The report of a decision is the time played, capped.                    *)
LEMMA StepReports ==
  ASSUME IInv, [Next]_vars, mounted, mounted', event = 0, event' = 1
  PROVE  report' = Smaller(played, MaxAdvance)
<1>1. HeroActs \/ EventDone
  BY DEF Next, vars, room, table, audio, EnterRoom, RenderRoom, LeaveRoom, Arrive, Mount,
         Unmount, PausePressed, PauseFor, ResumePressed, DismissRecap, ChangeSpeed,
         Effects, SettingsChanged, GoAway, ComeBack, Gesture, Tick
<1>2. ~EventDone
  BY DEF EventDone
<1>3. report' = Elapsed(blindClock) /\ ~shown.paused
  BY <1>1, <1>2 DEF HeroActs
<1>4. played = Mark(blindClock) - blindClock.anchor /\ played \in Nat
  BY DEF IInv, Typed, ClockCounts, ClockOK
<1> QED BY <1>3, <1>4 DEF Elapsed, Larger

(* What a decision reports to the blind schedule is the time played since  *)
(* the last one, every pause taken off.                                    *)
THEOREM ReportsHold == Spec => ReportsTimePlayed
<1>1. IInv /\ [Next]_vars
        => [ mounted /\ mounted' /\ event = 0 /\ event' = 1 =>
               report' = Smaller(played, MaxAdvance) ]_vars
  BY StepReports
<1> QED BY <1>1, PacingInvariant, PTL DEF Spec, ReportsTimePlayed

-----------------------------------------------------------------------------
(* AppLifecycle: the desktop process and its crash marker.                 *)

(* A day old means nothing to hold; a session under way is pending, so a   *)
(* failure it has not counted yet is one the next launch will.             *)
StreakCounted ==
  /\ marker.aged => streak = 0
  /\ app # "off" => streak <= marker.failures
  /\ app # "off" /\ ~isQuitting /\ ~marker.aged => marker.pending
  /\ app = "off" /\ ~marker.aged =>
       streak <= marker.failures + (IF marker.pending THEN 1 ELSE 0)

QuitRecorded ==
  /\ closeConfirmed => isQuitting
  /\ app = "off" => ~isQuitting /\ ~closeConfirmed
  /\ app # "off" => lastEnd \in {"none", "session end"}
  /\ isQuitting /\ ~closeConfirmed /\ lastEnd = "none" => ~marker.pending \/ marker.failures = 0
  /\ lastEnd = "quit" => app = "off" /\ (~marker.pending \/ marker.failures = 0)

(* DesktopTypeOK, in three parts.                                                 *)
Markers == [failures : 0..MaxFailures, pending : BOOLEAN, aged : BOOLEAN]
MarkerOK == marker \in Markers
FlagsOK ==
  /\ healthyTimer \in BOOLEAN /\ isQuitting \in BOOLEAN
  /\ closeConfirmed \in BOOLEAN /\ safeMode \in BOOLEAN
DataOK ==
  /\ app \in {"off", "running", "closing"} /\ renderer \in {"loading", "alive", "gone"}
  /\ handshake \in {"none", "asked", "dialog"}
  /\ recovery \in {"none", "renderer", "unresponsive"}
  /\ lastEnd \in {"none", "quit", "window closed", "session end", "crash"}
  /\ streak \in 0..FailureThreshold

DesktopInv == MarkerOK /\ FlagsOK /\ DataOK /\ StreakCounted /\ QuitRecorded

-----------------------------------------------------------------------------
(* The operations on the marker.                                           *)
LEMMA MarkerOperations ==
  ASSUME NEW m \in Markers
  PROVE  /\ Decayed(m) \in Markers /\ ~Decayed(m).aged
         /\ m.aged => Decayed(m).failures = 0 /\ ~Decayed(m).pending
         /\ ~m.aged => Decayed(m) = m
         /\ Failed(m) \in Markers /\ ~Failed(m).aged
         /\ Failed(m).failures = IF m.failures = MaxFailures THEN m.failures ELSE m.failures + 1
<1>1. Decayed(m) \in Markers
  BY CountsAssumption DEF Markers, Marker, Decayed
<1>2. ~Decayed(m).aged
  BY DEF Markers, Marker, Decayed
<1>3. m.aged => Decayed(m).failures = 0 /\ ~Decayed(m).pending
  BY DEF Markers, Marker, Decayed
<1>4. ~m.aged => Decayed(m) = m
  BY DEF Decayed
<1>5. Failed(m) \in Markers
  BY CountsAssumption DEF Markers, Marker, Failed, Capped
<1>6. ~Failed(m).aged
  BY DEF Marker, Failed
<1>7. Failed(m).failures = IF m.failures = MaxFailures THEN m.failures ELSE m.failures + 1
  BY CountsAssumption DEF Markers, Marker, Failed, Capped
<1> QED BY <1>1, <1>2, <1>3, <1>4, <1>5, <1>6, <1>7

(* Setting the marker's pending flag changes nothing else of it.           *)
LEMMA PendingSet ==
  ASSUME NEW m \in Markers, NEW is \in BOOLEAN
  PROVE  /\ WithPending(m, is) \in Markers
         /\ WithPending(m, is).pending = is
         /\ WithPending(m, is).failures = m.failures
         /\ WithPending(m, is).aged = m.aged
<1>1. WithPending(m, is) \in Markers
  BY DEF Markers, Marker, WithPending
<1>2. WithPending(m, is).pending = is /\ WithPending(m, is).failures = m.failures
  BY DEF Marker, WithPending
<1>3. WithPending(m, is).aged = m.aged
  BY DEF Marker, WithPending
<1> QED BY <1>1, <1>2, <1>3

(* The marker of a healthy session is a marker.                            *)
LEMMA HealthyIsMarker == Healthy \in Markers
BY CountsAssumption DEF Healthy, Marker, Markers

(* A failure more, capped, is a streak the marker can hold.                *)
LEMMA StreakCapped ==
  ASSUME NEW n \in 0..FailureThreshold
  PROVE  0 \in 0..FailureThreshold /\ Capped(n + 1, FailureThreshold) \in 0..FailureThreshold
BY CountsAssumption DEF Capped

(* The invariant of the desktop holds at the first launch,                 *)
LEMMA DesktopInitSound == DesktopInit => DesktopInv
<1> SUFFICES ASSUME DesktopInit PROVE DesktopInv
  OBVIOUS
<1>1. MarkerOK
  BY CountsAssumption DEF DesktopInit, Marker, MarkerOK, Markers
<1>2. FlagsOK
  BY DEF DesktopInit, FlagsOK
<1>3. DataOK
  BY CountsAssumption DEF DesktopInit, Marker, DataOK
<1>4. StreakCounted
  BY DEF DesktopInit, Marker, StreakCounted
<1>5. QuitRecorded
  BY DEF DesktopInit, Marker, QuitRecorded
<1> QED BY <1>1, <1>2, <1>3, <1>4, <1>5 DEF DesktopInv

-----------------------------------------------------------------------------
(* The flags, by what each action assigns to them.                         *)
LEMMA FlagsPreserved == FlagsOK /\ [DesktopNext]_desktopVars => FlagsOK'
<1> SUFFICES ASSUME FlagsOK, [DesktopNext]_desktopVars PROVE FlagsOK'
  OBVIOUS
<1> USE DEF FlagsOK
<1>1. CASE Launch
  BY <1>1 DEF Launch
<1>2. CASE DidFinishLoad
  BY <1>2 DEF DidFinishLoad
<1>3. CASE HealthySession
  BY <1>3 DEF HealthySession
<1>4. CASE RenderProcessGone
  BY <1>4 DEF RenderProcessGone, Recovering
<1>5. CASE Unresponsive
  BY <1>5 DEF Unresponsive, Recovering
<1>6. CASE RecoveryReload
  BY <1>6 DEF RecoveryReload
<1>7. CASE RecoveryWait
  BY <1>7 DEF RecoveryWait
<1>8. CASE AppQuit
  BY <1>8 DEF AppQuit
<1>9. CASE CloseClicked
  BY <1>9 DEF CloseClicked
<1>10. CASE ReportCloseState
  BY <1>10 DEF ReportCloseState, ConfirmClose
<1>11. CASE CloseTimeout
  BY <1>11 DEF CloseTimeout, ConfirmClose
<1>12. CASE LeaveOrKeepPlaying
  BY <1>12 DEF LeaveOrKeepPlaying, ConfirmClose
<1>13. CASE WindowClosed
  BY <1>13 DEF WindowClosed, Gone
<1>14. CASE SessionEnd
  BY <1>14 DEF SessionEnd
<1>15. CASE Crash
  BY <1>15 DEF Crash, Gone
<1>16. CASE DayPasses
  BY <1>16 DEF DayPasses
<1>17. CASE UNCHANGED desktopVars
  BY <1>17 DEF desktopVars
<1> QED BY <1>1, <1>2, <1>3, <1>4, <1>5, <1>6, <1>7, <1>8, <1>9, <1>10, <1>11, <1>12,
           <1>13, <1>14, <1>15, <1>16, <1>17 DEF DesktopNext

(* The marker.                                                             *)
LEMMA MarkerPreserved == MarkerOK /\ [DesktopNext]_desktopVars => MarkerOK'
<1> SUFFICES ASSUME MarkerOK, [DesktopNext]_desktopVars PROVE MarkerOK'
  OBVIOUS
<1> USE DEF MarkerOK
<1>m. Decayed(marker) \in Markers
  BY MarkerOperations DEF MarkerOK
<1>1. CASE Launch
  <2>1. Counted(marker) \in Markers
    BY <1>m, MarkerOperations DEF Counted
  <2> QED BY <1>1, <2>1, PendingSet DEF Launch
<1>2. CASE DidFinishLoad
  BY <1>2 DEF DidFinishLoad
<1>3. CASE HealthySession
  BY <1>3, HealthyIsMarker DEF HealthySession
<1>4. CASE RenderProcessGone
  <2>1. RendererFailure(marker) \in Markers
    BY <1>m, MarkerOperations, PendingSet DEF RendererFailure
  <2> QED BY <1>4, <2>1 DEF RenderProcessGone
<1>5. CASE Unresponsive
  BY <1>5 DEF Unresponsive, Recovering
<1>6. CASE RecoveryReload
  BY <1>6 DEF RecoveryReload
<1>7. CASE RecoveryWait
  BY <1>7 DEF RecoveryWait
<1>8. CASE AppQuit
  BY <1>8, <1>m, PendingSet DEF AppQuit, BeforeQuit, NormalQuit
<1>9. CASE CloseClicked
  BY <1>9 DEF CloseClicked
<1>10. CASE ReportCloseState
  BY <1>10 DEF ReportCloseState, ConfirmClose
<1>11. CASE CloseTimeout
  BY <1>11 DEF CloseTimeout, ConfirmClose
<1>12. CASE LeaveOrKeepPlaying
  BY <1>12 DEF LeaveOrKeepPlaying, ConfirmClose
<1>13. CASE WindowClosed
  BY <1>13, <1>m, PendingSet DEF WindowClosed, BeforeQuit, NormalQuit
<1>14. CASE SessionEnd
  BY <1>14 DEF SessionEnd
<1>15. CASE Crash
  BY <1>15 DEF Crash, Gone
<1>16. CASE DayPasses
  BY <1>16 DEF DayPasses, Markers, Marker
<1>17. CASE UNCHANGED desktopVars
  BY <1>17 DEF desktopVars
<1> QED BY <1>1, <1>2, <1>3, <1>4, <1>5, <1>6, <1>7, <1>8, <1>9, <1>10, <1>11, <1>12,
           <1>13, <1>14, <1>15, <1>16, <1>17 DEF DesktopNext

(* What remains of DesktopTypeOK.                                                 *)
LEMMA DataPreserved == DataOK /\ [DesktopNext]_desktopVars => DataOK'
<1> SUFFICES ASSUME DataOK, [DesktopNext]_desktopVars PROVE DataOK'
  OBVIOUS
<1> USE DEF DataOK
<1>s. streak \in 0..FailureThreshold
  BY DEF DataOK
<1>c. 0 \in 0..FailureThreshold /\ Capped(streak + 1, FailureThreshold) \in 0..FailureThreshold
  BY <1>s, StreakCapped
<1>1. CASE Launch
  BY <1>1 DEF Launch
<1>2. CASE DidFinishLoad
  BY <1>2 DEF DidFinishLoad
<1>3. CASE HealthySession
  <2>1. streak' \in 0..FailureThreshold
    BY <1>3, <1>c DEF HealthySession
  <2> QED BY <1>3, <2>1 DEF HealthySession
<1>4. CASE RenderProcessGone
  <2>1. streak' \in 0..FailureThreshold
    BY <1>4, <1>c DEF RenderProcessGone
  <2> QED BY <1>4, <2>1 DEF RenderProcessGone, Recovering
<1>5. CASE Unresponsive
  BY <1>5 DEF Unresponsive, Recovering
<1>6. CASE RecoveryReload
  BY <1>6 DEF RecoveryReload
<1>7. CASE RecoveryWait
  BY <1>7 DEF RecoveryWait
<1>8. CASE AppQuit
  BY <1>8 DEF AppQuit
<1>9. CASE CloseClicked
  BY <1>9 DEF CloseClicked
<1>10. CASE ReportCloseState
  BY <1>10 DEF ReportCloseState, ConfirmClose
<1>11. CASE CloseTimeout
  BY <1>11 DEF CloseTimeout, ConfirmClose
<1>12. CASE LeaveOrKeepPlaying
  BY <1>12 DEF LeaveOrKeepPlaying, ConfirmClose
<1>13. CASE WindowClosed
  BY <1>13 DEF WindowClosed, Gone
<1>14. CASE SessionEnd
  BY <1>14 DEF SessionEnd
<1>15. CASE Crash
  <2>1. streak' \in 0..FailureThreshold
    BY <1>15, <1>c DEF Crash
  <2> QED BY <1>15, <2>1 DEF Crash, Gone
<1>16. CASE DayPasses
  <2>1. streak' \in 0..FailureThreshold
    BY <1>16, <1>c DEF DayPasses
  <2> QED BY <1>16, <2>1 DEF DayPasses
<1>17. CASE UNCHANGED desktopVars
  BY <1>17 DEF desktopVars
<1> QED BY <1>1, <1>2, <1>3, <1>4, <1>5, <1>6, <1>7, <1>8, <1>9, <1>10, <1>11, <1>12,
           <1>13, <1>14, <1>15, <1>16, <1>17 DEF DesktopNext

(* The streak.                                                             *)
LEMMA StreakPreserved ==
  ASSUME MarkerOK, DataOK, FlagsOK, QuitRecorded, StreakCounted, [DesktopNext]_desktopVars
  PROVE  StreakCounted'
<1> SUFFICES StreakCounted'
  OBVIOUS
<1> USE DEF StreakCounted
<1>c. FailureThreshold \in Nat \ {0} /\ MaxFailures \in Nat /\ FailureThreshold <= MaxFailures
  BY CountsAssumption
<1>d. Decayed(marker) \in Markers /\ ~Decayed(marker).aged /\ (~marker.aged => Decayed(marker) = marker)
  BY MarkerOperations DEF MarkerOK
<1>s. streak \in 0..FailureThreshold /\ marker.failures \in 0..MaxFailures
  BY DEF MarkerOK, DataOK, Markers
<1>1. CASE Launch
  <2>1. Counted(marker) \in Markers /\ ~Counted(marker).aged /\ streak <= Counted(marker).failures
    BY <1>1, <1>c, <1>d, <1>s, MarkerOperations DEF Launch, Counted, Markers
  <2>2. marker' = WithPending(Counted(marker), TRUE)
    BY <1>1 DEF Launch
  <2>3. ~marker'.aged /\ marker'.pending /\ streak <= marker'.failures
    BY <2>1, <2>2, PendingSet
  <2>4. app' = "running" /\ streak' = streak
    BY <1>1 DEF Launch
  <2> QED BY <2>3, <2>4
<1>2. CASE DidFinishLoad
  BY <1>2 DEF DidFinishLoad
<1>3. CASE HealthySession
  BY <1>3 DEF HealthySession, Healthy, Marker
<1>4. CASE RenderProcessGone
  <2>1. CASE UNCHANGED <<marker, streak>>
    BY <1>4, <2>1 DEF RenderProcessGone
  <2>2. CASE ~isQuitting /\ marker' = RendererFailure(marker)
                /\ streak' = Capped(streak + 1, FailureThreshold)
    <3>1. marker'.failures = Failed(Decayed(marker)).failures /\ marker'.pending /\ ~marker'.aged
      BY <1>d, <2>2, MarkerOperations, PendingSet DEF RendererFailure
    <3>2. streak <= Decayed(marker).failures
      BY <1>4, <1>d, <1>s DEF RenderProcessGone, Markers
    <3>3. streak' <= marker'.failures
      BY <1>c, <1>d, <1>s, <2>2, <3>1, <3>2, MarkerOperations DEF Capped, Markers
    <3>4. app' = app /\ app # "off"
      BY <1>4 DEF RenderProcessGone
    <3> QED BY <3>1, <3>3, <3>4
  <2> QED BY <1>4, <2>1, <2>2 DEF RenderProcessGone
<1>5. CASE Unresponsive
  BY <1>5 DEF Unresponsive, Recovering
<1>6. CASE RecoveryReload
  BY <1>6 DEF RecoveryReload
<1>7. CASE RecoveryWait
  BY <1>7 DEF RecoveryWait
<1>8. CASE AppQuit
  <2>1. marker' = IF isQuitting THEN marker ELSE NormalQuit(marker)
    BY <1>8 DEF AppQuit, BeforeQuit
  <2>2. app # "off" /\ streak' = streak /\ app' = "closing" /\ isQuitting'
    BY <1>8 DEF AppQuit
  <2>3. CASE isQuitting
    <3>1. marker' = marker
      BY <2>1, <2>3
    <3> QED BY <1>s, <2>2, <3>1
  <2>4. CASE ~isQuitting
    <3>1. marker'.failures = Decayed(marker).failures /\ ~marker'.pending /\ ~marker'.aged
      BY <1>d, <2>1, <2>4, PendingSet DEF NormalQuit
    <3>2. streak <= Decayed(marker).failures /\ Decayed(marker).failures \in Nat
      BY <1>d, <1>s, <2>2 DEF Markers
    <3> QED BY <1>s, <2>2, <3>1, <3>2
  <2> QED BY <2>3, <2>4
<1>9. CASE CloseClicked
  BY <1>9 DEF CloseClicked
<1>10. CASE ReportCloseState
  <2>1. CASE ConfirmClose
    BY <1>10, <2>1 DEF ReportCloseState, ConfirmClose
  <2>2. CASE UNCHANGED <<app, isQuitting, closeConfirmed>>
    BY <1>10, <2>2 DEF ReportCloseState
  <2> QED BY <1>10, <2>1, <2>2 DEF ReportCloseState
<1>11. CASE CloseTimeout
  BY <1>11 DEF CloseTimeout, ConfirmClose
<1>12. CASE LeaveOrKeepPlaying
  <2>1. CASE ConfirmClose
    BY <1>12, <2>1 DEF LeaveOrKeepPlaying, ConfirmClose
  <2>2. CASE UNCHANGED <<app, isQuitting, closeConfirmed>>
    BY <1>12, <2>2 DEF LeaveOrKeepPlaying
  <2> QED BY <1>12, <2>1, <2>2 DEF LeaveOrKeepPlaying
<1>13. CASE WindowClosed
  <2>1. marker' = IF isQuitting THEN marker ELSE NormalQuit(marker)
    BY <1>13 DEF WindowClosed, BeforeQuit
  <2>2. app # "off" /\ streak' = streak /\ app' = "off"
    BY <1>13 DEF WindowClosed, Gone
  <2>3. CASE isQuitting
    <3>1. marker' = marker
      BY <2>1, <2>3
    <3> QED BY <1>s, <2>2, <3>1
  <2>4. CASE ~isQuitting
    <3>1. marker'.failures = Decayed(marker).failures /\ ~marker'.pending /\ ~marker'.aged
      BY <1>d, <2>1, <2>4, PendingSet DEF NormalQuit
    <3>2. streak <= Decayed(marker).failures /\ Decayed(marker).failures \in Nat
      BY <1>d, <1>s, <2>2 DEF Markers
    <3> QED BY <1>s, <2>2, <3>1, <3>2
  <2> QED BY <2>3, <2>4
<1>14. CASE SessionEnd
  BY <1>14 DEF SessionEnd
<1>15. CASE Crash
  <2>1. marker' = marker /\ app' = "off" /\ app # "off"
          /\ streak' = IF isQuitting \/ marker.aged THEN streak ELSE Capped(streak + 1, FailureThreshold)
    BY <1>15 DEF Crash, Gone
  <2>2. marker.aged => streak' = 0
    BY <2>1
  <2>3. ~marker.aged => streak' <= marker.failures + (IF marker.pending THEN 1 ELSE 0)
    BY <1>c, <1>s, <2>1 DEF Capped
  <2> QED BY <2>1, <2>2, <2>3
<1>16. CASE DayPasses
  BY <1>16, <1>s DEF DayPasses, Marker
<1>17. CASE UNCHANGED desktopVars
  BY <1>17 DEF desktopVars
<1> QED BY <1>1, <1>2, <1>3, <1>4, <1>5, <1>6, <1>7, <1>8, <1>9, <1>10, <1>11, <1>12,
           <1>13, <1>14, <1>15, <1>16, <1>17 DEF DesktopNext

(* What a quit leaves.                                                     *)
LEMMA QuitPreserved == FlagsOK /\ MarkerOK /\ QuitRecorded /\ [DesktopNext]_desktopVars => QuitRecorded'
<1> SUFFICES ASSUME FlagsOK, MarkerOK, QuitRecorded, [DesktopNext]_desktopVars PROVE QuitRecorded'
  OBVIOUS
<1> USE DEF QuitRecorded
<1>d. Decayed(marker) \in Markers
  BY MarkerOperations DEF MarkerOK
<1>1. CASE Launch
  BY <1>1 DEF Launch, FlagsOK
<1>2. CASE DidFinishLoad
  BY <1>2 DEF DidFinishLoad
<1>3. CASE HealthySession
  BY <1>3 DEF HealthySession, Healthy, Marker
<1>4. CASE RenderProcessGone
  BY <1>4 DEF RenderProcessGone, FlagsOK
<1>5. CASE Unresponsive
  BY <1>5 DEF Unresponsive, Recovering
<1>6. CASE RecoveryReload
  BY <1>6 DEF RecoveryReload
<1>7. CASE RecoveryWait
  BY <1>7 DEF RecoveryWait
<1>8. CASE AppQuit
  <2>1. marker' = IF isQuitting THEN marker ELSE NormalQuit(marker)
    BY <1>8 DEF AppQuit, BeforeQuit
  <2>2. ~isQuitting => ~marker'.pending
    BY <1>d, <2>1, PendingSet DEF NormalQuit
  <2> QED BY <1>8, <2>1, <2>2 DEF AppQuit, FlagsOK
<1>9. CASE CloseClicked
  BY <1>9 DEF CloseClicked
<1>10. CASE ReportCloseState
  <2>1. CASE ConfirmClose
    BY <1>10, <2>1 DEF ReportCloseState, ConfirmClose
  <2>2. CASE UNCHANGED <<app, isQuitting, closeConfirmed>>
    BY <1>10, <2>2 DEF ReportCloseState
  <2> QED BY <1>10, <2>1, <2>2 DEF ReportCloseState
<1>11. CASE CloseTimeout
  BY <1>11 DEF CloseTimeout, ConfirmClose
<1>12. CASE LeaveOrKeepPlaying
  <2>1. CASE ConfirmClose
    BY <1>12, <2>1 DEF LeaveOrKeepPlaying, ConfirmClose
  <2>2. CASE UNCHANGED <<app, isQuitting, closeConfirmed>>
    BY <1>12, <2>2 DEF LeaveOrKeepPlaying
  <2> QED BY <1>12, <2>1, <2>2 DEF LeaveOrKeepPlaying
<1>13. CASE WindowClosed
  <2>1. marker' = IF isQuitting THEN marker ELSE NormalQuit(marker)
    BY <1>13 DEF WindowClosed, BeforeQuit
  <2>2. ~isQuitting => ~marker'.pending
    BY <1>d, <2>1, PendingSet DEF NormalQuit
  <2>3. lastEnd' \in {"quit", "window closed", "session end"}
          /\ (lastEnd' = "quit" => lastEnd = "none" /\ ~closeConfirmed)
    BY <1>13 DEF WindowClosed
  <2>4. app' = "off" /\ ~isQuitting' /\ ~closeConfirmed'
    BY <1>13 DEF WindowClosed, Gone
  <2> QED BY <2>1, <2>2, <2>3, <2>4
<1>14. CASE SessionEnd
  BY <1>14 DEF SessionEnd
<1>15. CASE Crash
  BY <1>15 DEF Crash, Gone
<1>16. CASE DayPasses
  BY <1>16 DEF DayPasses, Marker
<1>17. CASE UNCHANGED desktopVars
  BY <1>17 DEF desktopVars
<1> QED BY <1>1, <1>2, <1>3, <1>4, <1>5, <1>6, <1>7, <1>8, <1>9, <1>10, <1>11, <1>12,
           <1>13, <1>14, <1>15, <1>16, <1>17 DEF DesktopNext

(* every step of it keeps the invariant,                                   *)
LEMMA Preserves == DesktopInv /\ [DesktopNext]_desktopVars => DesktopInv'
BY FlagsPreserved, MarkerPreserved, DataPreserved, StreakPreserved, QuitPreserved DEF DesktopInv

(* and so it always holds.                                                 *)
LEMMA DesktopInductive == DesktopSpec => []DesktopInv
BY DesktopInitSound, Preserves, PTL DEF DesktopSpec

-----------------------------------------------------------------------------
(* The marker's counts stay within their cap, and no dialog, timer or flag *)
(* takes a value main.cjs does not know.                                   *)
THEOREM DesktopTypeCorrect == DesktopSpec => []DesktopTypeOK
<1>1. DesktopInv => DesktopTypeOK
  BY DEF DesktopInv, MarkerOK, Markers, FlagsOK, DataOK, DesktopTypeOK
<1> QED BY <1>1, DesktopInductive, PTL

(* However failures, quits, reloads and days are mixed, a launch after     *)
(* FailureThreshold failures in a row is in safe mode (crash-loop.cjs,     *)
(* createCrashLoopController).                                             *)
THEOREM SafeModeSelected == DesktopSpec => RepeatedFailuresSelectSafeMode
<1>1. DesktopInv /\ [DesktopNext]_desktopVars =>
        [Launched /\ streak >= FailureThreshold => safeMode']_desktopVars
  <2> SUFFICES ASSUME DesktopInv, DesktopNext, Launched, streak >= FailureThreshold PROVE safeMode'
    OBVIOUS
  <2>1. Launch
    BY DEF Launched, DesktopNext, DidFinishLoad, HealthySession, RenderProcessGone, Unresponsive,
           RecoveryReload, RecoveryWait, AppQuit, CloseClicked, ReportCloseState, CloseTimeout,
           LeaveOrKeepPlaying, WindowClosed, SessionEnd, Crash, DayPasses
  <2>2. marker \in Markers /\ Decayed(marker) \in Markers
    BY MarkerOperations DEF DesktopInv, MarkerOK
  <2>0. app = "off" /\ streak \in 0..FailureThreshold
    BY <2>1 DEF Launch, DesktopInv, DataOK
  <2>3. streak = FailureThreshold /\ ~marker.aged
          /\ streak <= marker.failures + (IF marker.pending THEN 1 ELSE 0)
    BY <2>0, CountsAssumption DEF DesktopInv, StreakCounted
  <2>4. Counted(marker) \in Markers /\ Counted(marker).failures >= FailureThreshold
    BY <2>2, <2>3, CountsAssumption, MarkerOperations DEF Counted, Markers
  <2>5. marker'.failures = Counted(marker).failures
    BY <2>1, <2>4, PendingSet DEF Launch
  <2> QED BY <2>1, <2>4, <2>5 DEF Launch
<1> QED BY <1>1, DesktopInductive, PTL DEF DesktopSpec, RepeatedFailuresSelectSafeMode

(* A session ended by quitting adds no failure at the next launch, or one  *)
(* to none if the healthy-session timer fired behind the quit.             *)
THEOREM QuitIsNoFailure == DesktopSpec => QuitNeverEscalates
<1>1. DesktopInv /\ [DesktopNext]_desktopVars =>
        [ Launched /\ lastEnd = "quit" =>
            marker'.failures <= 1 \/ marker'.failures <= marker.failures ]_desktopVars
  <2> SUFFICES ASSUME DesktopInv, DesktopNext, Launched, lastEnd = "quit"
               PROVE  marker'.failures <= 1 \/ marker'.failures <= marker.failures
    OBVIOUS
  <2>1. Launch
    BY DEF Launched, DesktopNext, DidFinishLoad, HealthySession, RenderProcessGone, Unresponsive,
           RecoveryReload, RecoveryWait, AppQuit, CloseClicked, ReportCloseState, CloseTimeout,
           LeaveOrKeepPlaying, WindowClosed, SessionEnd, Crash, DayPasses
  <2>2. marker \in Markers /\ Decayed(marker) \in Markers
    BY MarkerOperations DEF DesktopInv, MarkerOK
  <2>3. ~marker.pending \/ marker.failures = 0
    BY DEF DesktopInv, QuitRecorded
  <2>4. Counted(marker) \in Markers
          /\ (Counted(marker).failures <= 1 \/ Counted(marker).failures <= marker.failures)
    BY <2>2, <2>3, CountsAssumption, MarkerOperations DEF Counted, Markers
  <2>5. marker'.failures = Counted(marker).failures
    BY <2>1, <2>4, PendingSet DEF Launch
  <2> QED BY <2>4, <2>5
<1> QED BY <1>1, DesktopInductive, PTL DEF DesktopSpec, QuitNeverEscalates
=============================================================================
