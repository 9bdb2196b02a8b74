------------------------------- MODULE Pacing -------------------------------
(***************************************************************************)
(* Time at the game's surfaces: the room fly-through and the table run on  *)
(* freezable delays (src/src/lib/freezableDelay.ts, lifecyclePause.ts),    *)
(* the blind schedule on the decision clock (tournamentDecisionClock.ts),  *)
(* and sound follows the focus (audioFocusPolicy.ts).  The window goes     *)
(* away and comes back for several reasons at once; the player pauses,     *)
(* resumes, changes the speed and acts.                                    *)
(*                                                                         *)
(* An event listener or timer callback is one step; the effects of a       *)
(* render are a later one (Effects), in the order PokerTable.tsx has them. *)
(* A delay that has completed or was cancelled is no longer in "delays".   *)
(***************************************************************************)
EXTENDS Integers

CONSTANTS
  Reasons,     \* to be away: "blurred", "hidden", "minimized", "suspended", "locked"
  RoomTime,    \* of the fly-through
  EventTime,   \* EventTime[s]: of an event presented at speed s
  Events,      \* presented between two decisions of the player
  MaxAdvance,  \* maximumAdvanceMs of the decision clock
  RecapAfter,  \* inactive time from which a recap is shown
  MaxRestarts, \* bound on renders that start a delay anew
  MaxTime      \* bound on the clock

Speeds == DOMAIN EventTime

ASSUME PacingAssumption ==
  /\ Reasons \subseteq {"blurred", "hidden", "minimized", "suspended", "locked"}
  /\ RoomTime \in Nat /\ Speeds # {} /\ \A s \in Speeds : EventTime[s] \in Nat
  /\ Events \in Nat \ {0} /\ MaxAdvance \in Nat /\ RecapAfter \in Nat
  /\ MaxRestarts \in Nat /\ MaxTime \in Nat

VARIABLES
  surface,     \* "menu", "room" or "table"
  mounted,     \* PokerTable is mounted (its code is loaded lazily)
  away,        \* the reasons the window is away for
  delays,      \* those that may still complete
  frozen,      \* of the surface's DelayFreezeGroup
  event,       \* the event the runner wants presented; 0: the player is to act
  speed,
  paused,      \* PokerTable's state
  pauseReason, \* pauseReasonRef
  shown,       \* what the last effects saw: [event, speed, paused]
  coordinator, \* LifecyclePauseCoordinator: [reasons, since]
  recap,       \* inactive time the recap on the screen tells
  blindClock,  \* [anchor, pausedAt]
  report,      \* decisionElapsedMs of the last action
  policy,      \* AudioFocusController, off the table: [activated, blockers, ready]
  muted,       \* gameAudio.focusMuted
  restarts, now,
  played       \* time since the last action the pause effects were off (history)

room == <<surface, mounted, delays, frozen>>
table == <<event, speed, paused, pauseReason, shown, coordinator, recap, blindClock,
           report, played>>
audio == <<policy, muted>>
vars == <<room, table, audio, away, restarts, now>>

Never == -1
Arrival == 0   \* what the delay of the room is for; those of the table are for events 1, 2, ...
NoRecap == -1

Smaller(m, n) == IF m < n THEN m ELSE n
Larger(m, n) == IF m > n THEN m ELSE n

-----------------------------------------------------------------------------
(* FreezableDelay: armed when made; total and served are history.          *)
NewDelay(what, ms) ==
  [for |-> what, owed |-> ms, runningSince |-> now, total |-> ms, served |-> 0]

Running(d) == d.runningSince # Never
Remaining(d) == IF Running(d) THEN Larger(0, d.owed - (now - d.runningSince)) ELSE d.owed

Freeze(d) ==
  IF Running(d) THEN [d EXCEPT !.owed = Remaining(d), !.runningSince = Never] ELSE d
Unfreeze(d) == IF Running(d) THEN d ELSE [d EXCEPT !.runningSince = now]
Due(d) == Running(d) /\ now - d.runningSince >= d.owed

(* DelayFreezeGroup: freezeAll, resumeAll, and add, which freezes a delay  *)
(* that comes while the group is frozen.                                   *)
Frozen(ds) == {Freeze(d) : d \in ds}
Resumed(ds) == {Unfreeze(d) : d \in ds}
Added_WhateverTheGroup(d, isFrozen) == d   \* mutant
Added(d, isFrozen) == IF isFrozen THEN Freeze(d) ELSE d

-----------------------------------------------------------------------------
(* LifecyclePauseCoordinator.setReason.                                    *)
NobodyAway == [reasons |-> {}, since |-> Never]
WithReason(c, reason) ==
  [ reasons |-> c.reasons \cup {reason},
    since |-> IF c.reasons = {} THEN now ELSE c.since ]
WithoutReason(c, reason) ==
  [ reasons |-> c.reasons \ {reason},
    since |-> IF c.reasons \subseteq {reason} THEN Never ELSE c.since ]
JustResumed(c, reason) == c.reasons = {reason}

(* createTournamentDecisionClock.                                          *)
NewClock == [anchor |-> now, pausedAt |-> Never]
ClockPause(c) == IF c.pausedAt = Never THEN [c EXCEPT !.pausedAt = now] ELSE c
ClockResume_KeepsAnchor(c) == [c EXCEPT !.pausedAt = Never]   \* mutant
ClockResume(c) ==
  IF c.pausedAt = Never THEN c
  ELSE [anchor |-> c.anchor + (now - c.pausedAt), pausedAt |-> Never]
Mark(c) == IF c.pausedAt = Never THEN now ELSE c.pausedAt
Elapsed(c) == Smaller(Larger(0, Mark(c) - c.anchor), MaxAdvance)
Drained(c) == [c EXCEPT !.anchor = Mark(c)]

-----------------------------------------------------------------------------
(* transitionAudioFocus for the events useAudioFocusLifecycle dispatches;  *)
(* a minimized window blocks as a hidden one.                              *)
NoPolicy == [activated |-> FALSE, blockers |-> {}, ready |-> FALSE]
Blocker(reason) == IF reason = "minimized" THEN "hidden" ELSE reason

Blocked_StaysReady(p, reason) ==   \* mutant
  [p EXCEPT !.blockers = @ \cup {Blocker(reason)}]
Blocked(p, reason) ==
  [p EXCEPT !.blockers = @ \cup {Blocker(reason)}, !.ready = FALSE]
Unblocked(p, reason) == [p EXCEPT !.blockers = @ \ {Blocker(reason)}]
Activated(p) == [p EXCEPT !.activated = TRUE, !.ready = p.blockers = {}]
Silent(p) == ~(p.activated /\ p.ready /\ p.blockers = {})

Dispatch(p) == policy' = p /\ muted' = Silent(p)

(* Off the table the hook owns the mute, at the table PokerTable does.     *)
HookOn == surface # "table"

-----------------------------------------------------------------------------
Playing == [event |-> 1, speed |-> CHOOSE s \in Speeds : TRUE, paused |-> FALSE]

TableUnmounted ==
  /\ event' = 0 /\ speed' = Playing.speed /\ paused' = FALSE /\ pauseReason' = "manual"
  /\ shown' = Playing /\ coordinator' = NobodyAway /\ recap' = NoRecap
  /\ blindClock' = [anchor |-> 0, pausedAt |-> Never] /\ report' = 0 /\ played' = 0

Init ==
  /\ surface = "menu" /\ mounted = FALSE /\ away = {}
  /\ delays = {} /\ frozen = FALSE
  /\ event = 0 /\ speed = Playing.speed /\ paused = FALSE /\ pauseReason = "manual"
  /\ shown = Playing /\ coordinator = NobodyAway /\ recap = NoRecap
  /\ blindClock = [anchor |-> 0, pausedAt |-> Never] /\ report = 0 /\ played = 0
  /\ policy = NoPolicy /\ muted = TRUE
  /\ restarts = 0 /\ now = 0

-----------------------------------------------------------------------------
(* The room: RoomFlythrough with useAwayFreezeGroup.                       *)
EnterRoom ==
  /\ surface = "menu" /\ away = {}
  /\ surface' = "room" /\ frozen' = FALSE
  /\ delays' = {NewDelay(Arrival, RoomTime)}
  /\ UNCHANGED <<mounted, table, audio, away, restarts, now>>

(* App renders again and passes a new onComplete: the effect's cleanup     *)
(* cancels the delay and the effect makes a new one.                       *)
RenderRoom ==
  /\ surface = "room" /\ restarts < MaxRestarts
  /\ restarts' = restarts + 1
  /\ delays' = {Added(NewDelay(Arrival, RoomTime), frozen)}
  /\ UNCHANGED <<surface, mounted, frozen, table, audio, away, now>>

(* Escape, or the table's code is loading and its fallback is left.        *)
LeaveRoom ==
  /\ surface = "room" /\ away = {}
  /\ surface' = "menu" /\ delays' = {} /\ frozen' = FALSE
  /\ UNCHANGED <<mounted, table, audio, away, restarts, now>>

(* The arrival: the screen becomes the table's, the hook hands the mute    *)
(* over (its cleanup unmutes).                                             *)
Arrive ==
  /\ \E d \in delays : d.for = Arrival /\ Due(d) /\ delays' = delays \ {d}
  /\ surface' = "table" /\ frozen' = FALSE
  /\ policy' = NoPolicy /\ muted' = FALSE
  /\ UNCHANGED <<mounted, table, away, restarts, now>>

-----------------------------------------------------------------------------
(* The first effects of PokerTable: they do not ask whether the window is  *)
(* away.                                                                   *)
Mount ==
  /\ surface = "table" /\ ~mounted
  /\ mounted' = TRUE
  /\ event' = 1 /\ shown' = Playing
  /\ delays' = {NewDelay(1, EventTime[Playing.speed])} /\ frozen' = FALSE
  /\ blindClock' = NewClock /\ played' = 0 /\ muted' = FALSE
  /\ UNCHANGED <<surface, speed, paused, pauseReason, coordinator, recap, report, policy,
                 away, restarts, now>>

(* Leaving, or the end of the tournament: cancelAll, and the hook's new    *)
(* controller mutes until the player does something.                       *)
Unmount ==
  /\ surface = "table"
  /\ surface' = "menu" /\ mounted' = FALSE /\ delays' = {} /\ frozen' = FALSE
  /\ TableUnmounted
  /\ policy' = NoPolicy /\ muted' = TRUE
  /\ UNCHANGED <<away, restarts, now>>

(* setPaused(true) with its reason, whether paused already or not.         *)
PauseFor(reason) ==
  /\ pauseReason' = reason /\ recap' = NoRecap /\ paused' = TRUE
  /\ UNCHANGED <<event, speed, shown, coordinator, blindClock, report, played>>

PausePressed ==
  /\ mounted /\ ~paused /\ away = {}
  /\ PauseFor("manual")
  /\ UNCHANGED <<room, audio, away, restarts, now>>

ResumePressed ==
  /\ mounted /\ paused /\ away = {}
  /\ paused' = FALSE
  /\ UNCHANGED <<room, event, speed, pauseReason, shown, coordinator, recap, blindClock,
                 report, played, audio, away, restarts, now>>

DismissRecap ==
  /\ recap # NoRecap /\ away = {}
  /\ recap' = NoRecap
  /\ UNCHANGED <<room, event, speed, paused, pauseReason, shown, coordinator, blindClock,
                 report, played, audio, away, restarts, now>>

ChangeSpeed ==
  /\ mounted /\ away = {} /\ restarts < MaxRestarts
  /\ restarts' = restarts + 1
  /\ \E s \in Speeds \ {speed} : speed' = s
  /\ UNCHANGED <<room, event, paused, pauseReason, shown, coordinator, recap, blindClock,
                 report, played, audio, away, now>>

(* handleAction: what the clock has counted goes to the blind schedule.    *)
HeroActs ==
  /\ mounted /\ event = 0 /\ shown.event = 0 /\ ~shown.paused /\ away = {}
  /\ report' = Elapsed(blindClock) /\ blindClock' = Drained(blindClock) /\ played' = 0
  /\ event' = 1
  /\ UNCHANGED <<room, speed, paused, pauseReason, shown, coordinator, recap, audio,
                 away, restarts, now>>

(* The delay of the event on the table completes.                          *)
EventDone ==
  /\ \E d \in delays : d.for # Arrival /\ Due(d) /\ delays' = delays \ {d}
  /\ event' = IF event \in 1..(Events - 1) THEN event + 1 ELSE 0
  /\ UNCHANGED <<surface, mounted, frozen, speed, paused, pauseReason, shown, coordinator,
                 recap, blindClock, report, played, audio, away, restarts, now>>

(* The effects of a render.  The pause effect: the group, the coordinator, *)
(* the recap and the mute; that of the clock; then that of the event,      *)
(* whose cleanup cancels the delay before it.                              *)
PauseEffect ==
  IF paused = shown.paused THEN UNCHANGED <<coordinator, recap, blindClock>>
  ELSE IF paused
  THEN /\ coordinator' = WithReason(coordinator, pauseReason)
       /\ blindClock' = ClockPause(blindClock)
       /\ UNCHANGED recap
  ELSE /\ coordinator' = WithoutReason(coordinator, pauseReason)
       /\ blindClock' = ClockResume(blindClock)
       /\ recap' = IF JustResumed(coordinator, pauseReason)
                        /\ now - coordinator.since >= RecapAfter
                   THEN now - coordinator.since ELSE recap

Kept_StaysFrozen ==   \* mutant
  IF paused = shown.paused \/ ~paused THEN delays ELSE Frozen(delays)
Kept == IF paused = shown.paused THEN delays
        ELSE IF paused THEN Frozen(delays) ELSE Resumed(delays)

EventEffect_NoCleanup ==   \* mutant
  IF event = shown.event /\ speed = shown.speed THEN Kept
  ELSE Kept \cup (IF event = 0 THEN {} ELSE {Added(NewDelay(event, EventTime[speed]), paused)})
EventEffect ==
  IF event = shown.event /\ speed = shown.speed THEN Kept
  ELSE IF event = 0 THEN {}
  ELSE {Added(NewDelay(event, EventTime[speed]), paused)}

Effects ==
  /\ mounted /\ shown # [event |-> event, speed |-> speed, paused |-> paused]
  /\ shown' = [event |-> event, speed |-> speed, paused |-> paused]
  /\ PauseEffect
  /\ frozen' = paused /\ muted' = paused
  /\ delays' = EventEffect
  /\ UNCHANGED <<surface, mounted, event, speed, paused, pauseReason, report, played,
                 policy, away, restarts, now>>

(* New settings or progress make a new onPauseChange, and the pause effect *)
(* runs again with the reason the last pause has left.                     *)
SettingsChanged ==
  /\ mounted /\ away = {} /\ shown = [event |-> event, speed |-> speed, paused |-> paused]
  /\ coordinator' = IF paused THEN WithReason(coordinator, pauseReason)
                    ELSE WithoutReason(coordinator, pauseReason)
  /\ UNCHANGED <<room, event, speed, paused, pauseReason, shown, recap, blindClock, report,
                 played, audio, away, restarts, now>>

-----------------------------------------------------------------------------
(* The window goes away for one more reason.  The room freezes, the table  *)
(* pauses unless the window has only lost the focus.                       *)
GoAway ==
  \E reason \in Reasons \ away :
    /\ away' = away \cup {reason}
    /\ IF surface = "room" THEN frozen' = TRUE /\ delays' = Frozen(delays)
       ELSE UNCHANGED <<frozen, delays>>
    /\ IF mounted /\ reason # "blurred" THEN PauseFor(reason) ELSE UNCHANGED table
    /\ IF HookOn THEN Dispatch(Blocked(policy, reason)) ELSE UNCHANGED audio
    /\ UNCHANGED <<surface, mounted, restarts, now>>

(* One reason is over: the room goes on, whatever other reasons there are. *)
ComeBack_OnFocusOnly ==   \* mutant
  \E reason \in away :
    /\ away' = away \ {reason}
    /\ IF surface = "room" /\ reason = "blurred" THEN frozen' = FALSE /\ delays' = Resumed(delays)
       ELSE UNCHANGED <<frozen, delays>>
    /\ IF HookOn THEN Dispatch(Unblocked(policy, reason)) ELSE UNCHANGED audio
    /\ UNCHANGED <<surface, mounted, table, restarts, now>>
ComeBack ==
  \E reason \in away :
    /\ away' = away \ {reason}
    /\ IF surface = "room" THEN frozen' = FALSE /\ delays' = Resumed(delays)
       ELSE UNCHANGED <<frozen, delays>>
    /\ IF HookOn THEN Dispatch(Unblocked(policy, reason)) ELSE UNCHANGED audio
    /\ UNCHANGED <<surface, mounted, table, restarts, now>>

(* A key or a pointer: only at a window that is there.                     *)
Gesture ==
  /\ HookOn /\ away = {}
  /\ Dispatch(Activated(policy))
  /\ UNCHANGED <<room, table, away, restarts, now>>

Served(d) == IF Running(d) THEN [d EXCEPT !.served = @ + 1] ELSE d
Tick ==
  /\ now < MaxTime
  /\ now' = now + 1
  /\ delays' = {Served(d) : d \in delays}
  /\ played' = IF mounted /\ ~shown.paused THEN played + 1 ELSE played
  /\ UNCHANGED <<surface, mounted, frozen, event, speed, paused, pauseReason, shown,
                 coordinator, recap, blindClock, report, audio, away, restarts>>

-----------------------------------------------------------------------------
Next ==
  \/ EnterRoom \/ RenderRoom \/ LeaveRoom \/ Arrive
  \/ Mount \/ Unmount \/ PausePressed \/ ResumePressed \/ DismissRecap
  \/ ChangeSpeed \/ HeroActs \/ EventDone \/ Effects \/ SettingsChanged
  \/ GoAway \/ ComeBack \/ Gesture \/ Tick

Spec == Init /\ [][Next]_vars

(* Time passes, timers that are due fire, renders run their effects.       *)
FairSpec ==
  Spec /\ WF_vars(Tick) /\ WF_vars(Arrive) /\ WF_vars(EventDone) /\ WF_vars(Effects)

-----------------------------------------------------------------------------
Delays ==
  [ for : 0..Events, owed : Nat, runningSince : Nat \cup {Never}, total : Nat, served : Nat ]

(* The variables keep to the values the code gives them; in particular a   *)
(* coordinator has a start of the absence exactly while it has a reason.   *)
TypeOK ==
  /\ surface \in {"menu", "room", "table"} /\ mounted \in BOOLEAN
  /\ away \subseteq Reasons /\ delays \subseteq Delays /\ frozen \in BOOLEAN
  /\ event \in 0..Events /\ speed \in Speeds /\ paused \in BOOLEAN
  /\ pauseReason \in Reasons \cup {"manual"}
  /\ shown \in [event : 0..Events, speed : Speeds, paused : BOOLEAN]
  /\ coordinator \in [reasons : SUBSET (Reasons \cup {"manual"}), since : Nat \cup {Never}]
  /\ (coordinator.since = Never) = (coordinator.reasons = {})
  /\ recap \in Nat \cup {NoRecap}
  /\ blindClock \in [anchor : Nat, pausedAt : Nat \cup {Never}] /\ report \in Nat
  /\ policy \in [ activated : BOOLEAN, blockers : SUBSET {Blocker(r) : r \in Reasons},
                 ready : BOOLEAN ]
  /\ muted \in BOOLEAN
  /\ restarts \in 0..MaxRestarts /\ now \in 0..MaxTime /\ played \in Nat

(* A delay that may complete has run for its whole time, however often it  *)
(* was frozen and resumed on the way, and a frozen surface has none that   *)
(* runs, those that were made while it was frozen included (freeze and     *)
(* resume of freezableDelay.ts; add of DelayFreezeGroup).                  *)
NeverEarly ==
  \A d \in delays : (Due(d) => d.served >= d.total) /\ (Running(d) <=> ~frozen)

(* The runner's event gives way to the next one only when it was the one   *)
(* on the table, for its whole time at the speed shown, and the table      *)
(* stood under no pause; the delay of an earlier event or speed ends       *)
(* nothing (the presentation effect of PokerTable.tsx and its cleanup).    *)
(* Skipping what is presented is an action of TournamentTable, not of this *)
(* module.                                                                 *)
EachEventPresented ==
  [][ mounted /\ mounted' /\ event # 0 /\ event' # event =>
        /\ shown.event = event /\ ~shown.paused
        /\ \E d \in delays \ delays' :
             d.for = event /\ d.total = EventTime[shown.speed] /\ d.served >= d.total ]_vars

(* What a decision reports to the blind schedule is the time since the     *)
(* last one in which the table was not paused, at most MaxAdvance, across  *)
(* any number of pauses (drainAdvanceMs and the clock's effect).           *)
ReportsTimePlayed ==
  [][ mounted /\ mounted' /\ event = 0 /\ event' = 1 =>
        report' = Smaller(played, MaxAdvance) ]_vars

(* Away from the table there is sound only at a window that is there for   *)
(* no reason away: of two reasons that block the sound as one, the end of  *)
(* the first does not bring it back (transitionAudioFocus; minimized and   *)
(* hidden are both "document-hidden").                                     *)
NoSoundWhileAway == HookOn /\ ~muted => away = {}

(* A bound on the clock cuts the last steps of a behaviour short: what     *)
(* follows is claimed where there is time left for it.                     *)
TimeFor(ms, r) == now + (1 + MaxRestarts - r) * ms <= MaxTime

(* The fly-through of a window that is there arrives, whatever mix of      *)
(* reasons has frozen it before (useAwayFreezeGroup).                      *)
RoomArrives ==
  \A r \in 0..MaxRestarts :
    (surface = "room" /\ away = {} /\ restarts = r /\ TimeFor(RoomTime, r))
      ~> (surface # "room" \/ away # {} \/ restarts # r)

(* An event on a table that is not paused makes room for the next one: no  *)
(* pause leaves its delay frozen for good.                                 *)
TableGoesOn ==
  \A e \in 1..Events, s \in Speeds :
    (mounted /\ shown = [event |-> e, speed |-> s, paused |-> FALSE] /\ event = e
       /\ ~paused /\ speed = s /\ now + EventTime[s] <= MaxTime)
      ~> (event # e \/ paused \/ speed # s \/ ~mounted)
=============================================================================
