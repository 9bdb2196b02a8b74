--------------------------- MODULE TournamentTable ---------------------------
(***************************************************************************)
(* The live table: src/src/App.tsx drives a tournament runner one step at  *)
(* a time, presents the events of each step, asks the equity service       *)
(* (src/src/modes/rationalEquityService.ts) for an opponent's decision,    *)
(* and stops all of it for a pause or when the player leaves.              *)
(*                                                                         *)
(* A runner is one immutable object of the code: [game, mode, step, turn,  *)
(* startedAt]: which entry to a table, how many engine steps were made,    *)
(* whose turn it is ("begin": no hand; "deal": a closed betting round) and *)
(* when a timed table says it started.  What the steps do is in Session.   *)
(* Event handlers, effects and promise continuations are the atomic steps. *)
(***************************************************************************)
EXTENDS Integers, Functions

CONSTANTS
  Modes,      \* of the tables a player may start: "normal", "rational", "timed"
  Tokens,     \* of equity requests, a bound on the work going on at a time:
              \* a token is reused when its work has ended
  MaxGames,   \* bound on the tables entered
  MaxStep,    \* bound on the engine steps of a table
  MaxTime     \* bound on the clock

ASSUME ModesAssumption == Modes \subseteq {"normal", "rational", "timed"}
ASSUME TableBoundsAssumption ==
  MaxGames \in Nat /\ MaxStep \in Nat \ {0} /\ MaxTime \in Nat

VARIABLES
  screen,     \* "menu", "transition" (the fly-through), "table", "result"
  mounted,    \* PokerTable is mounted
  runner,     \* the state; runnerRef follows it in an effect
  runnerRef,
  pendingPresentation,  \* the step shown: [source, next, left, outcome]
  call,       \* the awaited step (presentationAdvancePendingRef, and the
              \* signal in decisionAbortRef): [source, token, stage, aborted]
  jobs,       \* the equity work going on: token -> runner it is for
  paused,     \* PokerTable's state
  pausedAt,   \* tournamentPausedAtRef
  wake,       \* a dependency of the driving effect has changed
  checkpoint, \* activeReplayRef
  saved,      \* the checkpoint committed last
  games, now,
  spent       \* history: the time since a timed table was started, unpaused at
              \* the table (seated) and before it was there (arriving), and the
              \* pauses that ended over a step being presented (overSteps)

vars == <<screen, mounted, runner, runnerRef, pendingPresentation, call, jobs, paused, pausedAt,
          wake, checkpoint, saved, games, now, spent>>

NoRunner == [game |-> 0, mode |-> "none", step |-> 0, turn |-> "none", startedAt |-> 0]
NoPresentation == [source |-> NoRunner, next |-> NoRunner, left |-> 0, outcome |-> FALSE]
NoToken == 0
NoCall == [source |-> NoRunner, token |-> NoToken, stage |-> "none", aborted |-> FALSE]
NotPaused == -1
NoTime == [seated |-> 0, arriving |-> 0, overSteps |-> 0]

-----------------------------------------------------------------------------
(* advanceTournamentRunnerOneStep: a hand begins, somebody acts, a street  *)
(* is dealt, or the hand is settled.                                       *)
Asks == {"deal", "opponent", "hero"}
Following(turn) ==
  IF turn = "deal" THEN Asks \cup {"begin", "complete"} ELSE Asks
Steps(r) == {[r EXCEPT !.step = @ + 1, !.turn = t] : t \in Following(r.turn)}

Settles(source, next) == source.turn = "deal" /\ next.turn \in {"begin", "complete"}

(* The events of a step, as far as skipping tells them apart: one for an   *)
(* action; two for a deal; and for a settlement one before the result, the *)
(* result, and one after it.                                               *)
EventsOf(source, next) ==
  IF source.turn \in {"opponent", "hero"} THEN 1
  ELSE IF Settles(source, next) THEN 3 ELSE 2
FromResult == 2

CheckpointOf(r) == [game |-> r.game, step |-> r.step]

(* persistBoundary: an accepted step is durable before it has been shown.  *)
Persisted_Shown(presentation, own) == own   \* mutant
Persisted(presentation, own) ==
  IF presentation # NoPresentation THEN CheckpointOf(presentation.next) ELSE own

Presentation(source, next, left, outcome) ==
  [source |-> source, next |-> next, left |-> left, outcome |-> outcome]

(* publishTournamentPresentation; every step has events.                   *)
Publish(source, next) ==
  /\ pendingPresentation' = Presentation(source, next, EventsOf(source, next), FALSE)
  /\ saved' = Persisted(pendingPresentation', checkpoint)
  /\ wake' = TRUE

FinishRunner(next) ==
  /\ runner' = next
  /\ checkpoint' = CheckpointOf(next)
  /\ IF next.turn = "complete"
     THEN screen' = "result" /\ mounted' = FALSE
     ELSE UNCHANGED <<screen, mounted>>

(* commitTournamentAdvance: both kinds of next step end in a commit.       *)
Commit(next) ==
  /\ pendingPresentation' = NoPresentation
  /\ FinishRunner(next)
  /\ saved' = Persisted(pendingPresentation', checkpoint')
  /\ wake' = TRUE

-----------------------------------------------------------------------------
Init ==
  /\ screen = "menu" /\ mounted = FALSE
  /\ runner = NoRunner /\ runnerRef = NoRunner
  /\ pendingPresentation = NoPresentation /\ call = NoCall /\ jobs = <<>>
  /\ paused = FALSE /\ pausedAt = NotPaused /\ wake = FALSE
  /\ checkpoint = CheckpointOf(NoRunner) /\ saved = CheckpointOf(NoRunner)
  /\ games = 0 /\ now = 0 /\ spent = NoTime

(* startCareerEvent, startTimedTable, and a retry from the result.         *)
Offered ==
  IF screen = "menu" THEN Modes
  ELSE IF screen = "result" /\ runner # NoRunner THEN {runner.mode} \ {"timed"} ELSE {}
Start ==
  /\ games < MaxGames
  /\ games' = games + 1
  /\ \E mode \in Offered :
       LET created == [game |-> games', mode |-> mode, step |-> 0, turn |-> "begin",
                       startedAt |-> IF mode = "timed" THEN now ELSE 0]
       IN \E ready \in Steps(created) :
            /\ runner' = ready
            /\ pendingPresentation' = Presentation(created, ready, EventsOf(created, ready), FALSE)
  /\ checkpoint' = CheckpointOf(runner')
  /\ saved' = Persisted(pendingPresentation', checkpoint')
  /\ screen' = "transition" /\ wake' = TRUE
  /\ spent' = NoTime
  /\ UNCHANGED <<mounted, runnerRef, call, jobs, paused, pausedAt, now>>

(* The lobby's button restores a career run in progress, at the player's   *)
(* turn, from a checkpoint on disk.                                        *)
ContinueRun ==
  /\ screen = "menu" /\ games \in 1..(MaxGames - 1)
  /\ games' = games + 1
  /\ \E mode \in Modes \ {"timed"} :
       runner' = [game |-> games', mode |-> mode, step |-> 1, turn |-> "hero", startedAt |-> 0]
  /\ pendingPresentation' = NoPresentation
  /\ checkpoint' = CheckpointOf(runner') /\ saved' = checkpoint'
  /\ screen' = "table" /\ wake' = TRUE
  /\ UNCHANGED <<mounted, runnerRef, call, jobs, paused, pausedAt, now, spent>>

FlythroughDone ==
  /\ screen = "transition"
  /\ screen' = "table" /\ wake' = TRUE
  /\ UNCHANGED <<mounted, runner, runnerRef, pendingPresentation, call, jobs, paused, pausedAt,
                 checkpoint, saved, games, now, spent>>

(* handleBack: Escape during the fly-through goes home and leaves the rest.*)
EscapeFlythrough ==
  /\ screen = "transition"
  /\ screen' = "menu" /\ wake' = TRUE
  /\ UNCHANGED <<mounted, runner, runnerRef, pendingPresentation, call, jobs, paused, pausedAt,
                 checkpoint, saved, games, now, spent>>

CloseResult ==
  /\ screen = "result"
  /\ \/ runner' = NoRunner /\ saved' = Persisted(pendingPresentation, checkpoint)
     \/ UNCHANGED <<runner, saved>>
  /\ screen' = "menu" /\ wake' = TRUE
  /\ UNCHANGED <<mounted, runnerRef, pendingPresentation, call, jobs, paused, pausedAt, checkpoint,
                 games, now, spent>>

-----------------------------------------------------------------------------
(* handleTournamentPause(false): the time since the pause is taken off a   *)
(* timed table's clock -- off the runner, not off a step being presented.  *)
Shifted_ToNow(r) == [r EXCEPT !.startedAt = now]   \* mutant
Shifted(r) == [r EXCEPT !.startedAt = @ + (now - pausedAt)]
StopPause ==
  IF pausedAt = NotPaused THEN UNCHANGED <<runner, pausedAt, wake, checkpoint, saved>>
  ELSE /\ pausedAt' = NotPaused /\ wake' = TRUE
       /\ IF runner.mode = "timed" /\ now > pausedAt
          THEN /\ runner' = Shifted(runner)
               /\ checkpoint' = CheckpointOf(runner')
               /\ saved' = Persisted(pendingPresentation, checkpoint')
          ELSE UNCHANGED <<runner, checkpoint, saved>>

(* The table's code is loaded lazily; its first effect reports "not paused"*)
Mount ==
  /\ screen = "table" /\ ~mounted
  /\ mounted' = TRUE /\ paused' = FALSE
  /\ StopPause
  /\ UNCHANGED <<screen, runnerRef, pendingPresentation, call, jobs, games, now, spent>>

Resume ==
  /\ mounted /\ paused
  /\ paused' = FALSE
  /\ StopPause
  /\ spent' = IF pendingPresentation = NoPresentation THEN spent
              ELSE [spent EXCEPT !.overSteps = @ + (now - pausedAt)]
  /\ UNCHANGED <<screen, mounted, runnerRef, pendingPresentation, call, jobs, games, now>>

(* signal.aborted and cancelPending: the promise of a waiting request is   *)
(* rejected, the work goes on until it notices.                            *)
Abandoned_RequestOnly(c) ==   \* mutant: the signal is forgotten
  IF c.stage = "waiting" THEN [c EXCEPT !.stage = "cancelled"] ELSE c
Abandoned(c) ==
  IF c = NoCall THEN c
  ELSE [c EXCEPT !.aborted = TRUE, !.stage = IF @ = "waiting" THEN "cancelled" ELSE @]

PauseAt == IF pausedAt = NotPaused THEN now ELSE pausedAt

Pause ==
  /\ mounted /\ ~paused
  /\ paused' = TRUE /\ pausedAt' = PauseAt
  /\ call' = Abandoned(call)
  /\ UNCHANGED <<screen, mounted, runner, runnerRef, pendingPresentation, jobs, wake, checkpoint,
                 saved, games, now, spent>>

(* leaveTournamentTable, paused or not, or while the table still loads; a  *)
(* step being presented is committed.                                      *)
LeftWith(kept) ==
  LET last == IF pendingPresentation # NoPresentation THEN CheckpointOf(pendingPresentation.next) ELSE checkpoint
  IN /\ screen \in {"table", "transition"}
     /\ (screen = "transition" => ~mounted)
     /\ call' = Abandoned(call)
     /\ pendingPresentation' = kept
     /\ runner' = NoRunner
     /\ checkpoint' = last /\ saved' = last
     /\ screen' = IF pendingPresentation.next.turn = "complete" THEN "result" ELSE "menu"
     /\ mounted' = FALSE /\ paused' = FALSE /\ wake' = TRUE
     /\ UNCHANGED <<runnerRef, jobs, pausedAt, games, now, spent>>
Leave_KeepsPresentation == LeftWith(pendingPresentation)   \* mutant
Leave == LeftWith(NoPresentation)

-----------------------------------------------------------------------------
(* The delay of one event has run out; delays are frozen during a pause.   *)
EventDone ==
  /\ mounted /\ ~paused /\ pendingPresentation # NoPresentation
  /\ IF pendingPresentation.left > 1
     THEN /\ pendingPresentation' = [pendingPresentation EXCEPT !.left = @ - 1] /\ wake' = TRUE
          /\ UNCHANGED <<runner, checkpoint, saved, screen, mounted>>
     ELSE Commit(pendingPresentation.next)
  /\ UNCHANGED <<runnerRef, call, jobs, paused, pausedAt, games, now, spent>>

(* skipTournamentPresentation: run on to the result of the hand, which is  *)
(* then shown, or to the player's next decision.                           *)
Skippable ==
  /\ pendingPresentation # NoPresentation /\ ~pendingPresentation.outcome
  /\ ~(Settles(pendingPresentation.source, pendingPresentation.next) /\ pendingPresentation.left = FromResult)
Outcomes ==
  IF Settles(pendingPresentation.source, pendingPresentation.next) THEN {<<pendingPresentation.source, pendingPresentation.next>>}
  ELSE IF pendingPresentation.next.turn = "hero" THEN {}
  ELSE UNION {{<<r, next>> : next \in {n \in Steps(r) : Settles(r, n)}} :
                r \in {[pendingPresentation.next EXCEPT !.step = s, !.turn = "deal"] :
                         s \in {k \in pendingPresentation.next.step..(MaxStep - 1) :
                                  k > pendingPresentation.next.step \/ pendingPresentation.next.turn = "deal"}}}
Decisions ==
  IF Settles(pendingPresentation.source, pendingPresentation.next) THEN {}
  ELSE IF pendingPresentation.next.turn = "hero" THEN {pendingPresentation.next}
  ELSE {[pendingPresentation.next EXCEPT !.step = s, !.turn = "hero"] :
          s \in (pendingPresentation.next.step + 1)..MaxStep}

Skip ==
  /\ mounted /\ ~paused /\ Skippable
  /\ \/ /\ \E outcome \in Outcomes :
             /\ runner' = outcome[1]
             /\ pendingPresentation' = Presentation(outcome[1], outcome[2], FromResult, TRUE)
        /\ saved' = Persisted(pendingPresentation', checkpoint)
        /\ wake' = TRUE
        /\ UNCHANGED <<checkpoint, screen, mounted>>
     \/ \E decision \in Decisions : Commit(decision)
  /\ UNCHANGED <<runnerRef, call, jobs, paused, pausedAt, games, now, spent>>

(* actInTournament, from a table that lets the player act.                 *)
HeroAct ==
  /\ mounted /\ ~paused /\ pendingPresentation = NoPresentation
  /\ runner.turn = "hero" /\ runner.step < MaxStep
  /\ \E next \in Steps(runner) : Publish(runner, next)
  /\ UNCHANGED <<screen, mounted, runner, runnerRef, call, jobs, paused, pausedAt,
                 checkpoint, games, now, spent>>

-----------------------------------------------------------------------------
(* estimate: an opponent's decision waits for the service, any other step  *)
(* of advanceTournamentRunnerOneStepAsync is a promise already resolved.   *)
Called(r, token) ==
  [ source |-> r, token |-> token, aborted |-> FALSE,
    stage |-> IF token = NoToken THEN "resolved" ELSE "waiting" ]

MayAdvance(r) ==
  /\ screen = "table" /\ r.turn \in {"begin", "deal", "opponent"} /\ r.step < MaxStep
  /\ pendingPresentation = NoPresentation /\ call = NoCall /\ pausedAt = NotPaused

(* The effects of a render: runnerRef follows the state, and the driving   *)
(* effect asks for the next step (advanceTournamentPresentation).  Its own *)
(* cancelPending finds nothing to cancel: no call is under way.            *)
Effects ==
  /\ wake
  /\ runnerRef' = runner
  /\ \/ /\ ~MayAdvance(runner)
        /\ wake' = FALSE /\ UNCHANGED <<pendingPresentation, saved, call, jobs>>
     \/ /\ MayAdvance(runner) /\ runner.mode # "rational"
        /\ \E next \in Steps(runner) : Publish(runner, next)
        /\ UNCHANGED <<call, jobs>>
     \/ /\ MayAdvance(runner) /\ runner.mode = "rational"
        /\ IF runner.turn = "opponent"
           THEN \E token \in Tokens \ DOMAIN jobs :
                  /\ call' = Called(runner, token)
                  /\ jobs' = [t \in DOMAIN jobs \cup {token} |->
                                IF t = token THEN runner ELSE jobs[t]]
           ELSE call' = Called(runner, NoToken) /\ UNCHANGED jobs
        /\ wake' = FALSE /\ UNCHANGED <<pendingPresentation, saved>>
  /\ UNCHANGED <<screen, mounted, runner, paused, pausedAt, checkpoint, games, now, spent>>

(* handleResponse: an answer whose token is no longer pending is dropped.  *)
Pending_Anything(token) == call.stage = "waiting"   \* mutant
Pending(token) == call.stage = "waiting" /\ call.token = token

(* The work for a token ends: with an estimate, an error or, cancelled,    *)
(* with nothing anybody waits for.                                         *)
Answer ==
  \E token \in DOMAIN jobs :
    /\ jobs' = Restrict(jobs, DOMAIN jobs \ {token})
    /\ IF Pending(token)
       THEN \E stage \in {"resolved", "failed"} : call' = [call EXCEPT !.stage = stage]
       ELSE UNCHANGED call
    /\ UNCHANGED <<screen, mounted, runner, runnerRef, pendingPresentation, paused, pausedAt, wake,
                   checkpoint, saved, games, now, spent>>

(* Whether finally asks for another turn of the driving effect.            *)
WakesAgain_Never == wake   \* mutant
WakesAgain == wake \/ (call.aborted /\ pausedAt = NotPaused)

(* then, catch and finally of the awaited step.  A failed estimate is made *)
(* up for by the synchronous one; an abandoned step is dropped.            *)
CallSettles ==
  /\ call.stage \in {"resolved", "failed", "cancelled"}
  /\ call' = NoCall
  /\ IF call.stage # "cancelled" /\ ~call.aborted /\ runnerRef = call.source
     THEN \E next \in Steps(call.source) : Publish(call.source, next)
     ELSE wake' = WakesAgain /\ UNCHANGED <<pendingPresentation, saved>>
  /\ UNCHANGED <<screen, mounted, runner, runnerRef, jobs, paused, pausedAt, checkpoint,
                 games, now, spent>>

(* Window hidden or suspended, settings changed: a commit of what is there.*)
CommitLifecycle ==
  /\ saved' = Persisted(pendingPresentation, checkpoint)
  /\ UNCHANGED <<screen, mounted, runner, runnerRef, pendingPresentation, call, jobs, paused, pausedAt,
                 wake, checkpoint, games, now, spent>>

(* Time is kept where it is read: on timed tables.  The clock of one runs  *)
(* from its creation, before the fly-through and the loading of the table. *)
Tick ==
  /\ now < MaxTime /\ (runner.mode = "timed" \/ pausedAt # NotPaused)
  /\ now' = now + 1
  /\ spent' = IF paused \/ runner.mode # "timed" THEN spent
              ELSE IF mounted THEN [spent EXCEPT !.seated = @ + 1]
              ELSE [spent EXCEPT !.arriving = @ + 1]
  /\ UNCHANGED <<screen, mounted, runner, runnerRef, pendingPresentation, call, jobs, paused, pausedAt,
                 wake, checkpoint, saved, games>>

-----------------------------------------------------------------------------
Next ==
  \/ Start \/ ContinueRun \/ FlythroughDone \/ EscapeFlythrough \/ CloseResult
  \/ Mount \/ Pause \/ Resume \/ Leave
  \/ EventDone \/ Skip \/ HeroAct
  \/ Effects \/ Answer \/ CallSettles \/ CommitLifecycle \/ Tick

Spec == Init /\ [][Next]_vars

(* Effects and continuations run, delays run out, and the equity work ends.*)
FairSpec ==
  /\ Spec
  /\ WF_vars(Effects) /\ WF_vars(EventDone) /\ WF_vars(Answer) /\ WF_vars(CallSettles)

-----------------------------------------------------------------------------
(* Type invariant.                                                         *)
Runners == [ game: 1..MaxGames, mode: Modes, step: 0..MaxStep, startedAt: Nat,
             turn: {"begin", "deal", "opponent", "hero", "complete"} ] \cup {NoRunner}
Checkpoints == [game: 0..MaxGames, step: 0..MaxStep]

TypeOK ==
  /\ screen \in {"menu", "transition", "table", "result"}
  /\ {mounted, paused, wake} \subseteq BOOLEAN
  /\ runner \in Runners /\ runnerRef \in Runners
  /\ pendingPresentation = NoPresentation
       \/ pendingPresentation \in [source: Runners, next: Runners, left: 1..3, outcome: BOOLEAN]
  /\ call = NoCall
       \/ call \in [ source: Runners, token: Tokens \cup {NoToken}, aborted: BOOLEAN,
                     stage: {"waiting", "resolved", "failed", "cancelled"} ]
  /\ DOMAIN jobs \subseteq Tokens /\ \A t \in DOMAIN jobs : jobs[t] \in Runners
  /\ pausedAt \in {NotPaused} \cup 0..MaxTime
  /\ checkpoint \in Checkpoints /\ saved \in Checkpoints
  /\ games \in 0..MaxGames /\ now \in 0..MaxTime
  /\ spent \in [seated: Nat, arriving: Nat, overSteps: Nat]

(* A decision on its way that nobody has aborted is one for the runner now *)
(* on the table, with nothing else being shown and play not paused: pause, *)
(* leaving and a new table each abort the one that was asked for before.   *)
DecisionIsCurrent ==
  call # NoCall /\ ~call.aborted =>
    /\ call.source = runner /\ runnerRef = runner
    /\ screen = "table" /\ pendingPresentation = NoPresentation /\ pausedAt = NotPaused

(* What is being presented belongs to the table on the screen and follows  *)
(* its runner, so the commit at its end cannot bring back another table.   *)
PresentsOwnTable ==
  pendingPresentation # NoPresentation =>
    /\ pendingPresentation.next.game = runner.game /\ pendingPresentation.source.game = runner.game
    /\ runner.step \in {pendingPresentation.source.step, pendingPresentation.next.step}

(* persistBoundary: "accepted engine transitions are durable immediately,  *)
(* even if their visuals are still running", and nothing later puts an     *)
(* earlier checkpoint in their place.                                      *)
AcceptedIsSaved ==
  runner # NoRunner =>
    saved = CheckpointOf(IF pendingPresentation # NoPresentation THEN pendingPresentation.next ELSE runner)

(* A late answer of work for another decision is never taken for this one's*)
AnswerIsForItsDecision ==
  [][ call.stage = "waiting" /\ call'.stage = "resolved" =>
        \E t \in DOMAIN jobs \ DOMAIN jobs' : jobs[t] = call.source ]_vars

(* No wake-up is lost: a table in play that waits for no decision of the   *)
(* player's makes its next step, whatever pauses and aborts came before.   *)
InPlayAt(s) ==
  /\ mounted /\ ~paused /\ runner.step = s /\ s < MaxStep
  /\ runner.turn \in {"begin", "deal", "opponent"}
TableMovesOn == \A s \in 0..MaxStep : InPlayAt(s) ~> ~InPlayAt(s)

(* applyTimedBlindLevel: between two hands the driving effect reviews the  *)
(* blinds of a timed table by the time since its start.                    *)
BlindsReviewed == runner.mode = "timed" /\ runner.turn = "begin" /\ MayAdvance(runner)
Elapsed == now - runner.startedAt

(* Nothing is lost on the clock and nothing counts twice.  At every review *)
(* it has the time played, whatever was paused, skipped and left before,   *)
(* and two more things, against docs/desktop-game-state-machine.md:292     *)
(* ("Loading, fly-through, pause ... do not count"): the arrival, since a  *)
(* table's clock starts when it is created, and the pauses that ended over *)
(* a step being presented, which are taken off the runner that the step    *)
(* replaces.  Every other pause is off it, once, and the one a table was   *)
(* left in is not carried to the next.                                     *)
ClockAccounts == BlindsReviewed => Elapsed = spent.seated + spent.arriving + spent.overSteps
=============================================================================
