--------------------------- MODULE LiveTableProofs ---------------------------
(***************************************************************************)
(* Theorems about a tournament as it is played live: TournamentTable, the  *)
(* runner and the table of the renderer, and EquityService, which computes *)
(* the estimates its opponents decide by.  The first has the service only  *)
(* as the table uses it, so the two share no state; the names of the       *)
(* second begin with Equity where they would be the same.                  *)
(*                                                                         *)
(* TournamentTable, for any number of tables, steps and equity requests:   *)
(* no decision, step or answer outlives what it was for, and every         *)
(* accepted step is saved.  The properties nearly carry each other.  What  *)
(* has to be added: the table is mounted only on its screen and is paused  *)
(* only with a time of the pause (Place); a step being presented has the   *)
(* table, mode and start of its runner (PresentsOwn); a checkpoint is the  *)
(* runner's while nothing is presented (CheckpointFollows); and a call     *)
(* that waits has its work (WorkIsUnderWay).  The clock is accounted for   *)
(* at every moment, by the step presented and the pause (ClockStands).     *)
(*                                                                         *)
(* EquityService, for any number of requests and slices, a worker or none, *)
(* superseding or not.  What is open is what is pending (PendingIsOpen),   *)
(* and a token that was given up is named by a cancel message, by the      *)
(* worker's set or by its reply long after it left the map: tokens are     *)
(* never used again, so it is pending in none of these places (GivenUp).   *)
(* The fallback looks whether it is still wanted before every slice but    *)
(* the first (Stops).                                                      *)
(***************************************************************************)
EXTENDS TournamentTable, EquityService, SequenceTheorems, TLAPS

RunnersAtWork ==
  [ game: 1..MaxGames, mode: Modes, step: 0..MaxStep, startedAt: Nat,
    turn: {"begin", "deal", "opponent", "hero", "complete"} ]
Presentations == [source: RunnersAtWork, next: RunnersAtWork, left: 1..3, outcome: BOOLEAN]
Calls ==
  [ source: RunnersAtWork, token: Tokens \cup {NoToken}, aborted: BOOLEAN,
    stage: {"waiting", "resolved", "failed", "cancelled"} ]

Flags ==
  /\ screen \in {"menu", "transition", "table", "result"}
  /\ mounted \in BOOLEAN /\ paused \in BOOLEAN /\ wake \in BOOLEAN
RunnersOK == runner \in Runners /\ runnerRef \in Runners
PendingOK == pendingPresentation = NoPresentation \/ pendingPresentation \in Presentations
CallOK ==
  call = NoCall \/
    /\ call \in Calls
    /\ call.source.turn \in {"begin", "deal", "opponent"} /\ call.source.step < MaxStep
    /\ call.stage = "cancelled" => call.aborted
JobsOK == DOMAIN jobs \subseteq Tokens /\ \A t \in DOMAIN jobs : jobs[t] \in Runners
NumbersOK ==
  /\ games \in 0..MaxGames /\ now \in 0..MaxTime /\ pausedAt \in {NotPaused} \cup 0..MaxTime
  /\ spent \in [seated: Nat, arriving: Nat, overSteps: Nat]
  /\ pausedAt <= now
SavedOK == checkpoint \in Checkpoints /\ saved \in Checkpoints
Typed == Flags /\ RunnersOK /\ PendingOK /\ CallOK /\ JobsOK /\ NumbersOK /\ SavedOK

Place ==
  /\ mounted => screen = "table"
  /\ paused => mounted /\ pausedAt # NotPaused
  /\ mounted /\ ~paused => pausedAt = NotPaused
  /\ screen = "result" => pendingPresentation = NoPresentation

(* PresentsOwnTable, and that the step being presented is of that mode and *)
(* was computed on one clock.                                              *)
PresentsOwn ==
  pendingPresentation # NoPresentation =>
    /\ runner \in RunnersAtWork
    /\ pendingPresentation.next.game = runner.game /\ pendingPresentation.source.game = runner.game
    /\ pendingPresentation.next.mode = runner.mode /\ pendingPresentation.source.mode = runner.mode
    /\ pendingPresentation.next.startedAt = pendingPresentation.source.startedAt
    /\ runner.step \in {pendingPresentation.source.step, pendingPresentation.next.step}

CheckpointFollows ==
  runner # NoRunner =>
    /\ pendingPresentation = NoPresentation => checkpoint = CheckpointOf(runner)
    /\ saved = CheckpointOf(IF pendingPresentation # NoPresentation THEN pendingPresentation.next ELSE runner)

WorkIsUnderWay ==
  call.stage = "waiting" => call.token \in DOMAIN jobs /\ jobs[call.token] = call.source

(* ClockAccounts at any moment: the start that counts is that of the step  *)
(* being presented, and during a pause the clock stands.  A timed table is *)
(* mounted, or its first step is still to be presented.                    *)
Staying == IF pendingPresentation # NoPresentation THEN pendingPresentation.next ELSE runner
Stands == IF paused THEN pausedAt ELSE now
Total == spent.seated + spent.arriving + spent.overSteps
ClockStands ==
  runner.mode = "timed" =>
    /\ Stands - Staying.startedAt = Total
    /\ mounted \/ pendingPresentation # NoPresentation \/ screen \in {"menu", "result"}

IInv ==
  /\ Typed /\ Place /\ PresentsOwn /\ CheckpointFollows /\ DecisionIsCurrent
  /\ WorkIsUnderWay /\ ClockStands

-----------------------------------------------------------------------------
(* A runner is one at work, or the one there is not.                       *)
LEMMA AtWork ==
  /\ RunnersAtWork \subseteq Runners /\ Runners \subseteq RunnersAtWork \cup {NoRunner}
  /\ NoRunner \notin RunnersAtWork /\ NoRunner \in Runners
  /\ \A r \in Runners :
       r.mode = "timed" \/ r.turn \in {"begin", "deal", "opponent", "hero", "complete"}
         => r \in RunnersAtWork
  /\ NoPresentation \notin Presentations /\ NoCall \notin Calls
BY TableBoundsAssumption DEF RunnersAtWork, Runners, NoRunner, NoPresentation, Presentations,
                             NoCall, Calls

(* An engine step keeps the table, its mode and its start.                 *)
LEMMA StepOf ==
  ASSUME NEW r \in RunnersAtWork, r.step < MaxStep, NEW next \in Steps(r)
  PROVE  /\ next \in RunnersAtWork /\ next.step = r.step + 1
         /\ next.game = r.game /\ next.mode = r.mode /\ next.startedAt = r.startedAt
<1>1. PICK turn \in Following(r.turn) : next = [r EXCEPT !.step = @ + 1, !.turn = turn]
  BY DEF Steps
<1>2. turn \in {"begin", "deal", "opponent", "hero", "complete"}
  BY DEF Following, Asks
<1>3. r.step + 1 \in 0..MaxStep
  BY TableBoundsAssumption DEF RunnersAtWork
<1>4. /\ next.step = r.step + 1 /\ next.turn = turn
      /\ next.game = r.game /\ next.mode = r.mode /\ next.startedAt = r.startedAt
  BY <1>1 DEF RunnersAtWork
<1>5. next \in RunnersAtWork
  BY <1>1, <1>2, <1>3 DEF RunnersAtWork
<1> QED BY <1>4, <1>5

(* Every runner has a checkpoint.                                          *)
LEMMA CheckpointTyped == ASSUME NEW r \in Runners PROVE CheckpointOf(r) \in Checkpoints
BY TableBoundsAssumption DEF Runners, NoRunner, CheckpointOf, Checkpoints

(* While a step is presented its result is what is saved.                  *)
LEMMA Presented ==
  ASSUME NEW p \in Presentations, NEW own
  PROVE  p # NoPresentation /\ Persisted(p, own) = CheckpointOf(p.next)
BY AtWork DEF Persisted

(* A step has between one and three events.                                *)
LEMMA EventCount == ASSUME NEW r, NEW next PROVE EventsOf(r, next) \in 1..3
BY DEF EventsOf

(* What publishing a step of a runner leaves.                              *)
LEMMA Published ==
  ASSUME NEW source \in RunnersAtWork, source.step < MaxStep, NEW next \in Steps(source),
         Publish(source, next)
  PROVE  /\ next \in RunnersAtWork /\ next.step = source.step + 1
         /\ next.game = source.game /\ next.mode = source.mode
         /\ next.startedAt = source.startedAt
         /\ pendingPresentation' \in Presentations /\ pendingPresentation' # NoPresentation
         /\ pendingPresentation'.source = source /\ pendingPresentation'.next = next
         /\ saved' = CheckpointOf(next) /\ wake' = TRUE
<1>1. next \in RunnersAtWork
  BY StepOf
<1>2. pendingPresentation' = Presentation(source, next, EventsOf(source, next), FALSE)
  BY DEF Publish
<1>3. saved' = Persisted(pendingPresentation', checkpoint)
  BY DEF Publish
<1>4. EventsOf(source, next) \in 1..3 /\ FALSE \in BOOLEAN
  BY EventCount
<1> DEFINE p == Presentation(source, next, EventsOf(source, next), FALSE)
<1>5. p \in Presentations /\ p.source = source /\ p.next = next
  BY <1>1, <1>4 DEF Presentation, Presentations
<1>6. pendingPresentation' = p /\ saved' = Persisted(p, checkpoint)
  BY <1>2, <1>3 DEF Publish
<1> HIDE DEF p
<1> QED BY <1>5, <1>6, Presented, StepOf DEF Publish

(* What committing a runner leaves.                                        *)
LEMMA Committed ==
  ASSUME NEW next \in RunnersAtWork, Commit(next)
  PROVE  /\ pendingPresentation' = NoPresentation /\ runner' = next /\ runner' # NoRunner
         /\ checkpoint' = CheckpointOf(next) /\ saved' = CheckpointOf(next) /\ wake' = TRUE
         /\ \/ screen' = "result" /\ mounted' = FALSE
            \/ screen' = screen /\ mounted' = mounted
BY AtWork DEF Commit, FinishRunner, Persisted

(* The end of a pause moves the start of the table and nothing else.       *)
LEMMA Stopped ==
  ASSUME RunnersOK, NumbersOK, StopPause
  PROVE  /\ runner' \in Runners /\ pausedAt' = NotPaused
         /\ runner'.game = runner.game /\ runner'.mode = runner.mode
         /\ runner'.step = runner.step /\ runner'.turn = runner.turn
         /\ CheckpointOf(runner') = CheckpointOf(runner)
         /\ runner' = NoRunner <=> runner = NoRunner
         /\ runner \in RunnersAtWork => runner' \in RunnersAtWork
         /\ pausedAt = NotPaused => runner' = runner
         /\ \/ runner' = runner /\ checkpoint' = checkpoint /\ saved' = saved
            \/ /\ runner \in RunnersAtWork /\ checkpoint' = CheckpointOf(runner)
               /\ saved' = Persisted(pendingPresentation, checkpoint')
<1>1. CASE pausedAt # NotPaused /\ runner.mode = "timed" /\ now > pausedAt
  <2>1. runner' = Shifted(runner) /\ checkpoint' = CheckpointOf(runner') /\ pausedAt' = NotPaused
        /\ saved' = Persisted(pendingPresentation, checkpoint')
    BY <1>1 DEF StopPause
  <2>2. runner \in RunnersAtWork
    BY <1>1, AtWork DEF RunnersOK
  <2>3. now - pausedAt \in Nat
    BY <1>1 DEF NumbersOK
  <2>4. runner.startedAt + (now - pausedAt) \in Nat
    BY <2>2, <2>3 DEF RunnersAtWork
  <2>5. Shifted(runner) \in RunnersAtWork
    BY <2>2, <2>4 DEF Shifted, RunnersAtWork
  <2>6. /\ Shifted(runner).game = runner.game /\ Shifted(runner).mode = runner.mode
        /\ Shifted(runner).step = runner.step /\ Shifted(runner).turn = runner.turn
    BY <2>2 DEF Shifted, RunnersAtWork
  <2> QED BY <1>1, <2>1, <2>2, <2>5, <2>6, AtWork DEF CheckpointOf
<1>2. CASE ~(pausedAt # NotPaused /\ runner.mode = "timed" /\ now > pausedAt)
  <2>1. UNCHANGED <<runner, checkpoint, saved>> /\ pausedAt' = NotPaused
    BY <1>2 DEF StopPause
  <2> QED BY <2>1 DEF RunnersOK
<1> QED BY <1>1, <1>2

(* A skip shows or commits a later state of the same table and clock.      *)
LEMMA Skipped ==
  ASSUME PendingOK, Skip
  PROVE  /\ pendingPresentation \in Presentations /\ mounted /\ ~paused
         /\ UNCHANGED <<runnerRef, call, jobs, paused, pausedAt, games, now, spent>>
         /\ \/ \E source, next \in RunnersAtWork :
                 /\ source.game \in {pendingPresentation.source.game, pendingPresentation.next.game}
                 /\ source.mode \in {pendingPresentation.source.mode, pendingPresentation.next.mode}
                 /\ source.startedAt \in {pendingPresentation.source.startedAt, pendingPresentation.next.startedAt}
                 /\ next.game = pendingPresentation.next.game /\ next.mode = pendingPresentation.next.mode
                 /\ next.startedAt = pendingPresentation.next.startedAt
                 /\ runner' = source /\ pendingPresentation' \in Presentations
                 /\ pendingPresentation'.source = source /\ pendingPresentation'.next = next
                 /\ saved' = CheckpointOf(next) /\ wake' = TRUE
                 /\ UNCHANGED <<checkpoint, screen, mounted>>
            \/ \E next \in RunnersAtWork :
                 /\ next.game = pendingPresentation.next.game /\ next.mode = pendingPresentation.next.mode
                 /\ next.startedAt = pendingPresentation.next.startedAt
                 /\ Commit(next)
<1>1. pendingPresentation \in Presentations /\ pendingPresentation.source \in RunnersAtWork /\ pendingPresentation.next \in RunnersAtWork
  BY DEF PendingOK, Skip, Skippable, Presentations
<1>2. /\ mounted /\ ~paused
      /\ UNCHANGED <<runnerRef, call, jobs, paused, pausedAt, games, now, spent>>
  BY DEF Skip
<1>3. CASE \E decision \in Decisions : Commit(decision)
  <2>1. PICK decision \in Decisions : Commit(decision)
    BY <1>3
  <2>2. /\ decision \in RunnersAtWork /\ decision.game = pendingPresentation.next.game
        /\ decision.mode = pendingPresentation.next.mode /\ decision.startedAt = pendingPresentation.next.startedAt
    <3>1. CASE decision = pendingPresentation.next
      BY <1>1, <3>1
    <3>2. CASE decision # pendingPresentation.next
      <4>1. PICK s \in (pendingPresentation.next.step + 1)..MaxStep :
              decision = [pendingPresentation.next EXCEPT !.step = s, !.turn = "hero"]
        BY <3>2 DEF Decisions
      <4>2. s \in 0..MaxStep
        BY <1>1, TableBoundsAssumption DEF RunnersAtWork
      <4> QED BY <1>1, <4>1, <4>2 DEF RunnersAtWork
    <3> QED BY <3>1, <3>2
  <2> QED BY <1>1, <1>2, <2>1, <2>2
<1>4. CASE \E outcome \in Outcomes :
             /\ runner' = outcome[1]
             /\ pendingPresentation' = Presentation(outcome[1], outcome[2], FromResult, TRUE)
             /\ saved' = Persisted(pendingPresentation', checkpoint) /\ wake' = TRUE
             /\ UNCHANGED <<checkpoint, screen, mounted>>
  <2>1. PICK outcome \in Outcomes :
             /\ runner' = outcome[1]
             /\ pendingPresentation' = Presentation(outcome[1], outcome[2], FromResult, TRUE)
             /\ saved' = Persisted(pendingPresentation', checkpoint) /\ wake' = TRUE
             /\ UNCHANGED <<checkpoint, screen, mounted>>
    BY <1>4
  <2>p. ASSUME outcome[1] \in RunnersAtWork, outcome[2] \in RunnersAtWork
        PROVE  /\ pendingPresentation' \in Presentations
               /\ pendingPresentation'.source = outcome[1] /\ pendingPresentation'.next = outcome[2]
               /\ saved' = CheckpointOf(outcome[2])
    <3>1. /\ pendingPresentation' \in Presentations
          /\ pendingPresentation'.source = outcome[1] /\ pendingPresentation'.next = outcome[2]
      BY <2>1, <2>p DEF Presentation, Presentations, FromResult
    <3> QED BY <2>1, <3>1, Presented
  <2>2. CASE outcome = <<pendingPresentation.source, pendingPresentation.next>>
    BY <1>1, <1>2, <2>1, <2>2, <2>p
  <2>3. CASE outcome # <<pendingPresentation.source, pendingPresentation.next>>
    <3> DEFINE Late == {k \in pendingPresentation.next.step..(MaxStep - 1) :
                          k > pendingPresentation.next.step \/ pendingPresentation.next.turn = "deal"}
    <3> DEFINE At(k) == [pendingPresentation.next EXCEPT !.step = k, !.turn = "deal"]
    <3> DEFINE Results(x) == {<<x, next>> : next \in {n \in Steps(x) : Settles(x, n)}}
    <3>a. outcome \in UNION {Results(x) : x \in {At(k) : k \in Late}}
      BY <2>3 DEF Outcomes
    <3>b. PICK x \in {At(k) : k \in Late} : outcome \in Results(x)
      BY <3>a
    <3>1. PICK s \in Late : x = At(s)
      BY <3>b
    <3> HIDE DEF At, Results
    <3> DEFINE r == At(s)
    <3>2. s \in 0..MaxStep /\ s < MaxStep
      <4>1. pendingPresentation.next.step \in 0..MaxStep /\ MaxStep \in Nat
        BY <1>1, TableBoundsAssumption DEF RunnersAtWork
      <4> QED BY <4>1
    <3>3. /\ r \in RunnersAtWork /\ r.step = s /\ r.game = pendingPresentation.next.game
          /\ r.mode = pendingPresentation.next.mode /\ r.startedAt = pendingPresentation.next.startedAt
      BY <1>1, <3>2 DEF RunnersAtWork, At
    <3>4. PICK n \in Steps(r) : outcome = <<r, n>>
      BY <3>b, <3>1 DEF Results
    <3> HIDE DEF r
    <3>5. /\ n \in RunnersAtWork
          /\ n.game = r.game /\ n.mode = r.mode /\ n.startedAt = r.startedAt
      BY <3>2, <3>3, StepOf
    <3> QED BY <1>1, <1>2, <2>1, <2>p, <3>3, <3>4, <3>5
  <2> QED BY <2>2, <2>3
<1> QED BY <1>3, <1>4 DEF Skip

-----------------------------------------------------------------------------
(* Types, variable by variable.                                            *)
LEMMA FlagsPreserved == Flags /\ [Next]_vars => Flags'
<1> SUFFICES ASSUME Flags, [Next]_vars PROVE Flags'
  OBVIOUS
<1>1. CASE Start
  BY <1>1 DEF Start, Flags
<1>2. CASE ContinueRun
  BY <1>2 DEF ContinueRun, Flags
<1>3. CASE FlythroughDone
  BY <1>3 DEF FlythroughDone, Flags
<1>4. CASE EscapeFlythrough
  BY <1>4 DEF EscapeFlythrough, Flags
<1>5. CASE CloseResult
  BY <1>5 DEF CloseResult, Flags
<1>6. CASE Mount
  BY <1>6 DEF Mount, StopPause, Flags
<1>7. CASE Pause
  BY <1>7 DEF Pause, Flags
<1>8. CASE Resume
  BY <1>8 DEF Resume, StopPause, Flags
<1>9. CASE Leave
  BY <1>9 DEF Leave, LeftWith, Flags
<1>10. CASE EventDone
  BY <1>10 DEF EventDone, Commit, FinishRunner, Flags
<1>11. CASE Skip
  BY <1>11 DEF Skip, Commit, FinishRunner, Flags
<1>12. CASE HeroAct
  BY <1>12 DEF HeroAct, Publish, Flags
<1>13. CASE Effects
  BY <1>13 DEF Effects, Publish, Flags
<1>14. CASE Answer
  BY <1>14 DEF Answer, Flags
<1>15. CASE CallSettles
  <2>1. wake' \in BOOLEAN
    BY <1>15 DEF CallSettles, Publish, WakesAgain, Flags
  <2> QED BY <1>15, <2>1 DEF CallSettles, Flags
<1>16. CASE CommitLifecycle
  BY <1>16 DEF CommitLifecycle, Flags
<1>17. CASE Tick
  BY <1>17 DEF Tick, Flags
<1>18. CASE UNCHANGED vars
  BY <1>18 DEF vars, Flags
<1> QED
  BY <1>1, <1>2, <1>3, <1>4, <1>5, <1>6, <1>7, <1>8, <1>9, <1>10, <1>11, <1>12, <1>13,
     <1>14, <1>15, <1>16, <1>17, <1>18 DEF Next

(* A new table and its first step.                                         *)
LEMMA Started ==
  ASSUME RunnersOK, NumbersOK, Start
  PROVE  \E created \in RunnersAtWork : \E ready \in Steps(created) :
           /\ created.game = games' /\ created.step = 0
           /\ created.startedAt = (IF created.mode = "timed" THEN now ELSE 0)
           /\ ready \in RunnersAtWork /\ ready.step = 1 /\ ready.game = games'
           /\ ready.mode = created.mode /\ ready.startedAt = created.startedAt
           /\ runner' = ready
           /\ pendingPresentation' \in Presentations
           /\ pendingPresentation'.source = created /\ pendingPresentation'.next = ready
           /\ checkpoint' = CheckpointOf(ready) /\ saved' = CheckpointOf(ready)
<1> DEFINE Created(mode) == [game |-> games', mode |-> mode, step |-> 0, turn |-> "begin",
                             startedAt |-> IF mode = "timed" THEN now ELSE 0]
<1>1. PICK mode \in Offered : \E ready \in Steps(Created(mode)) :
        /\ runner' = ready
        /\ pendingPresentation' = Presentation(Created(mode), ready, EventsOf(Created(mode), ready), FALSE)
  BY DEF Start
<1>2. mode \in Modes
  <2>1. runner # NoRunner => runner.mode \in Modes
    BY AtWork DEF RunnersOK, RunnersAtWork
  <2> QED BY <1>1, <2>1 DEF Offered
<1>3. games' \in 1..MaxGames /\ now \in Nat
  BY TableBoundsAssumption DEF Start, NumbersOK
<1>4. Created(mode) \in RunnersAtWork
  BY <1>2, <1>3, TableBoundsAssumption DEF RunnersAtWork
<1>5. /\ Created(mode).game = games' /\ Created(mode).step = 0 /\ Created(mode).mode = mode
      /\ Created(mode).startedAt = (IF mode = "timed" THEN now ELSE 0)
  OBVIOUS
<1> DEFINE created == Created(mode)
<1>6. PICK ready \in Steps(created) :
        /\ runner' = ready
        /\ pendingPresentation' = Presentation(created, ready, EventsOf(created, ready), FALSE)
  BY <1>1
<1> HIDE DEF created, Created
<1>7. created.step < MaxStep
  BY <1>5, TableBoundsAssumption DEF created
<1>8. /\ ready \in RunnersAtWork /\ ready.step = 1 /\ ready.game = games'
      /\ ready.mode = created.mode /\ ready.startedAt = created.startedAt
  BY <1>4, <1>5, <1>7, StepOf DEF created
<1>9. pendingPresentation' \in Presentations /\ pendingPresentation'.source = created /\ pendingPresentation'.next = ready
  BY <1>4, <1>6, <1>8, EventCount DEF Presentation, Presentations, created
<1>10. checkpoint' = CheckpointOf(ready) /\ saved' = CheckpointOf(ready)
  <2>1. checkpoint' = CheckpointOf(runner') /\ saved' = Persisted(pendingPresentation', checkpoint')
    BY DEF Start
  <2>2. Persisted(pendingPresentation', checkpoint') = CheckpointOf(pendingPresentation'.next)
    BY <1>9, Presented
  <2> QED BY <1>6, <1>9, <2>1, <2>2
<1> QED BY <1>4, <1>5, <1>6, <1>8, <1>9, <1>10 DEF created

(* A restored table, at its checkpoint.                                    *)
LEMMA Continued ==
  ASSUME NumbersOK, ContinueRun
  PROVE  /\ runner' \in RunnersAtWork /\ runner'.game = games' /\ games' \in 1..MaxGames
         /\ runner'.mode # "timed"
         /\ pendingPresentation' = NoPresentation
         /\ checkpoint' = CheckpointOf(runner') /\ saved' = checkpoint'
<1>1. games' \in 1..MaxGames
  BY TableBoundsAssumption DEF ContinueRun, NumbersOK
<1>2. PICK mode \in Modes \ {"timed"} :
        runner' = [game |-> games', mode |-> mode, step |-> 1, turn |-> "hero", startedAt |-> 0]
  BY DEF ContinueRun
<1>3. runner' \in RunnersAtWork /\ runner'.game = games' /\ runner'.mode # "timed"
  BY <1>1, <1>2, TableBoundsAssumption DEF RunnersAtWork
<1> QED BY <1>1, <1>3 DEF ContinueRun

(* Both runners stay ones of a table entered.                              *)
LEMMA RunnersPreserved ==
  RunnersOK /\ PendingOK /\ NumbersOK /\ [Next]_vars
    => RunnersOK'
<1> SUFFICES ASSUME RunnersOK, PendingOK, NumbersOK, [Next]_vars PROVE RunnersOK'
  OBVIOUS
<1>s. ASSUME UNCHANGED <<runner, runnerRef>> PROVE RunnersOK'
  BY <1>s DEF RunnersOK
<1>1. CASE Start
  BY <1>1, Started, AtWork DEF Start, RunnersOK
<1>2. CASE ContinueRun
  BY <1>2, Continued, AtWork DEF ContinueRun, RunnersOK
<1>3. CASE FlythroughDone
  BY <1>3, <1>s DEF FlythroughDone
<1>4. CASE EscapeFlythrough
  BY <1>4, <1>s DEF EscapeFlythrough
<1>5. CASE CloseResult
  BY <1>5, AtWork DEF CloseResult, RunnersOK
<1>6. CASE Mount
  BY <1>6, Stopped DEF Mount, RunnersOK
<1>7. CASE Pause
  BY <1>7, <1>s DEF Pause
<1>8. CASE Resume
  BY <1>8, Stopped DEF Resume, RunnersOK
<1>9. CASE Leave
  BY <1>9, AtWork DEF Leave, LeftWith, RunnersOK
<1>10. CASE EventDone
  <2>1. pendingPresentation.next \in RunnersAtWork
    BY <1>10 DEF EventDone, PendingOK, Presentations
  <2> QED BY <1>10, <2>1, Committed, AtWork DEF EventDone, RunnersOK
<1>11. CASE Skip
  BY <1>11, Skipped, Committed, AtWork DEF RunnersOK
<1>12. CASE HeroAct
  BY <1>12, <1>s DEF HeroAct
<1>13. CASE Effects
  BY <1>13 DEF Effects, RunnersOK
<1>14. CASE Answer
  BY <1>14, <1>s DEF Answer
<1>15. CASE CallSettles
  BY <1>15, <1>s DEF CallSettles
<1>16. CASE CommitLifecycle
  BY <1>16, <1>s DEF CommitLifecycle
<1>17. CASE Tick
  BY <1>17, <1>s DEF Tick
<1>18. CASE UNCHANGED vars
  BY <1>18, <1>s DEF vars
<1> QED
  BY <1>1, <1>2, <1>3, <1>4, <1>5, <1>6, <1>7, <1>8, <1>9, <1>10, <1>11, <1>12, <1>13,
     <1>14, <1>15, <1>16, <1>17, <1>18 DEF Next

(* What is presented stays two runners and a count of events.              *)
LEMMA PendingPreserved ==
  PendingOK /\ RunnersOK /\ CallOK /\ NumbersOK /\ [Next]_vars
    => PendingOK'
<1> SUFFICES ASSUME PendingOK, RunnersOK, CallOK, NumbersOK, [Next]_vars
             PROVE  PendingOK'
  OBVIOUS
<1>s. ASSUME UNCHANGED pendingPresentation PROVE PendingOK'
  BY <1>s DEF PendingOK
<1>1. CASE Start
  BY <1>1, Started DEF PendingOK
<1>2. CASE ContinueRun
  BY <1>2, Continued DEF PendingOK
<1>3. CASE FlythroughDone
  BY <1>3, <1>s DEF FlythroughDone
<1>4. CASE EscapeFlythrough
  BY <1>4, <1>s DEF EscapeFlythrough
<1>5. CASE CloseResult
  BY <1>5, <1>s DEF CloseResult
<1>6. CASE Mount
  BY <1>6, <1>s DEF Mount
<1>7. CASE Pause
  BY <1>7, <1>s DEF Pause
<1>8. CASE Resume
  BY <1>8, <1>s DEF Resume
<1>9. CASE Leave
  BY <1>9 DEF Leave, LeftWith, PendingOK
<1>10. CASE EventDone
  <2>1. pendingPresentation \in Presentations
    BY <1>10 DEF EventDone, PendingOK
  <2>2. CASE pendingPresentation.left > 1
    <3>1. pendingPresentation' = [pendingPresentation EXCEPT !.left = @ - 1]
      BY <1>10, <2>2 DEF EventDone
    <3>2. pendingPresentation.left - 1 \in 1..3
      BY <2>1, <2>2 DEF Presentations
    <3> QED BY <2>1, <3>1, <3>2 DEF PendingOK, Presentations
  <2>3. CASE ~(pendingPresentation.left > 1)
    BY <1>10, <2>3 DEF EventDone, Commit, PendingOK
  <2> QED BY <2>2, <2>3
<1>11. CASE Skip
  BY <1>11, Skipped, Committed DEF PendingOK
<1>12. CASE HeroAct
  <2>1. CASE UNCHANGED pendingPresentation
    BY <1>s, <2>1
  <2>2. CASE ~UNCHANGED pendingPresentation
    <3>1. runner \in RunnersAtWork /\ runner.step < MaxStep
      BY <1>12, <2>2, AtWork DEF HeroAct, MayAdvance, RunnersOK, CallOK, Calls, NoCall
    <3>2. PICK next \in Steps(runner) : Publish(runner, next)
      BY <1>12, <2>2 DEF HeroAct
    <3> QED BY <3>1, <3>2, Published DEF PendingOK
  <2> QED BY <2>1, <2>2
<1>13. CASE Effects
  <2>1. CASE UNCHANGED pendingPresentation
    BY <1>s, <2>1
  <2>2. CASE ~UNCHANGED pendingPresentation
    <3>1. runner \in RunnersAtWork /\ runner.step < MaxStep
      BY <1>13, <2>2, AtWork DEF Effects, MayAdvance, RunnersOK, CallOK, Calls, NoCall
    <3>2. PICK next \in Steps(runner) : Publish(runner, next)
      BY <1>13, <2>2 DEF Effects
    <3> QED BY <3>1, <3>2, Published DEF PendingOK
  <2> QED BY <2>1, <2>2
<1>14. CASE Answer
  BY <1>14, <1>s DEF Answer
<1>15. CASE CallSettles
  <2>1. CASE UNCHANGED pendingPresentation
    BY <1>s, <2>1
  <2>2. CASE ~UNCHANGED pendingPresentation
    <3>1. call.source \in RunnersAtWork /\ call.source.step < MaxStep
      BY <1>15, <2>2, AtWork DEF CallSettles, MayAdvance, RunnersOK, CallOK, Calls, NoCall
    <3>2. PICK next \in Steps(call.source) : Publish(call.source, next)
      BY <1>15, <2>2 DEF CallSettles
    <3> QED BY <3>1, <3>2, Published DEF PendingOK
  <2> QED BY <2>1, <2>2
<1>16. CASE CommitLifecycle
  BY <1>16, <1>s DEF CommitLifecycle
<1>17. CASE Tick
  BY <1>17, <1>s DEF Tick
<1>18. CASE UNCHANGED vars
  BY <1>18, <1>s DEF vars
<1> QED
  BY <1>1, <1>2, <1>3, <1>4, <1>5, <1>6, <1>7, <1>8, <1>9, <1>10, <1>11, <1>12, <1>13,
     <1>14, <1>15, <1>16, <1>17, <1>18 DEF Next

(* An awaited step is of an opponent's or the engine's turn.               *)
LEMMA CallPreserved == CallOK /\ RunnersOK /\ [Next]_vars => CallOK'
<1> SUFFICES ASSUME CallOK, RunnersOK, [Next]_vars PROVE CallOK'
  OBVIOUS
<1>a. ASSUME call' = Abandoned(call) PROVE CallOK'
  <2>1. CASE call = NoCall
    BY <1>a, <2>1 DEF Abandoned, CallOK
  <2>2. CASE call # NoCall
    <3>1. call \in Calls
      BY <2>2 DEF CallOK
    <3>2. call' \in Calls /\ call'.source = call.source /\ call'.aborted
      BY <1>a, <2>2, <3>1 DEF Abandoned, Calls
    <3> QED BY <2>2, <3>1, <3>2 DEF CallOK
  <2> QED BY <2>1, <2>2
<1>s. ASSUME UNCHANGED call PROVE CallOK'
  BY <1>s DEF CallOK
<1>1. CASE Start
  BY <1>1, <1>s DEF Start
<1>2. CASE ContinueRun
  BY <1>2, <1>s DEF ContinueRun
<1>3. CASE FlythroughDone
  BY <1>3, <1>s DEF FlythroughDone
<1>4. CASE EscapeFlythrough
  BY <1>4, <1>s DEF EscapeFlythrough
<1>5. CASE CloseResult
  BY <1>5, <1>s DEF CloseResult
<1>6. CASE Mount
  BY <1>6, <1>s DEF Mount
<1>7. CASE Pause
  BY <1>7, <1>a DEF Pause
<1>8. CASE Resume
  BY <1>8, <1>s DEF Resume
<1>9. CASE Leave
  BY <1>9, <1>a DEF Leave, LeftWith
<1>10. CASE EventDone
  BY <1>10, <1>s DEF EventDone
<1>11. CASE Skip
  BY <1>11, <1>s DEF Skip
<1>12. CASE HeroAct
  BY <1>12, <1>s DEF HeroAct
<1>13. CASE Effects
  <2>1. CASE UNCHANGED call
    BY <1>s, <2>1
  <2>2. CASE ~UNCHANGED call
    <3>1. MayAdvance(runner)
      BY <1>13, <2>2 DEF Effects
    <3>2. PICK token \in Tokens \cup {NoToken} : call' = Called(runner, token)
      BY <1>13, <2>2 DEF Effects
    <3>3. runner \in RunnersAtWork /\ runner.step < MaxStep
      BY <3>1, AtWork DEF MayAdvance, RunnersOK
    <3>4. call'.source = runner /\ call'.stage # "cancelled" /\ call' \in Calls
      BY <3>2, <3>3 DEF Called, Calls
    <3> QED BY <3>1, <3>3, <3>4 DEF CallOK, MayAdvance
  <2> QED BY <2>1, <2>2
<1>14. CASE Answer
  <2>1. CASE UNCHANGED call
    BY <1>s, <2>1
  <2>2. CASE ~UNCHANGED call
    <3>1. PICK stage \in {"resolved", "failed"} :
            call.stage = "waiting" /\ call' = [call EXCEPT !.stage = stage]
      BY <1>14, <2>2 DEF Answer, Pending
    <3>2. call \in Calls
      BY <3>1 DEF CallOK, NoCall
    <3>3. call' \in Calls /\ call'.source = call.source /\ call'.stage = stage
      BY <3>1, <3>2 DEF Calls
    <3> QED BY <3>1, <3>2, <3>3, AtWork DEF CallOK
  <2> QED BY <2>1, <2>2
<1>15. CASE CallSettles
  BY <1>15 DEF CallSettles, CallOK
<1>16. CASE CommitLifecycle
  BY <1>16, <1>s DEF CommitLifecycle
<1>17. CASE Tick
  BY <1>17, <1>s DEF Tick
<1>18. CASE UNCHANGED vars
  BY <1>18, <1>s DEF vars
<1> QED
  BY <1>1, <1>2, <1>3, <1>4, <1>5, <1>6, <1>7, <1>8, <1>9, <1>10, <1>11, <1>12, <1>13,
     <1>14, <1>15, <1>16, <1>17, <1>18 DEF Next

(* Equity work stays keyed by token.                                       *)
LEMMA JobsPreserved == JobsOK /\ RunnersOK /\ [Next]_vars => JobsOK'
<1> SUFFICES ASSUME JobsOK, RunnersOK, [Next]_vars PROVE JobsOK'
  OBVIOUS
<1>s. ASSUME UNCHANGED jobs PROVE JobsOK'
  BY <1>s DEF JobsOK
<1>1. CASE Start
  BY <1>1, <1>s DEF Start
<1>2. CASE ContinueRun
  BY <1>2, <1>s DEF ContinueRun
<1>3. CASE FlythroughDone
  BY <1>3, <1>s DEF FlythroughDone
<1>4. CASE EscapeFlythrough
  BY <1>4, <1>s DEF EscapeFlythrough
<1>5. CASE CloseResult
  BY <1>5, <1>s DEF CloseResult
<1>6. CASE Mount
  BY <1>6, <1>s DEF Mount
<1>7. CASE Pause
  BY <1>7, <1>s DEF Pause
<1>8. CASE Resume
  BY <1>8, <1>s DEF Resume
<1>9. CASE Leave
  BY <1>9, <1>s DEF Leave, LeftWith
<1>10. CASE EventDone
  BY <1>10, <1>s DEF EventDone
<1>11. CASE Skip
  BY <1>11, <1>s DEF Skip
<1>12. CASE HeroAct
  BY <1>12, <1>s DEF HeroAct
<1>13. CASE Effects
  <2>1. CASE UNCHANGED jobs
    BY <1>s, <2>1
  <2>2. CASE ~UNCHANGED jobs
    <3>1. PICK token \in Tokens :
            jobs' = [t \in DOMAIN jobs \cup {token} |-> IF t = token THEN runner ELSE jobs[t]]
      BY <1>13, <2>2 DEF Effects
    <3> QED BY <3>1 DEF JobsOK, RunnersOK
  <2> QED BY <2>1, <2>2
<1>14. CASE Answer
  BY <1>14 DEF Answer, Restrict, JobsOK
<1>15. CASE CallSettles
  BY <1>15, <1>s DEF CallSettles
<1>16. CASE CommitLifecycle
  BY <1>16, <1>s DEF CommitLifecycle
<1>17. CASE Tick
  BY <1>17, <1>s DEF Tick
<1>18. CASE UNCHANGED vars
  BY <1>18, <1>s DEF vars
<1> QED
  BY <1>1, <1>2, <1>3, <1>4, <1>5, <1>6, <1>7, <1>8, <1>9, <1>10, <1>11, <1>12, <1>13,
     <1>14, <1>15, <1>16, <1>17, <1>18 DEF Next

(* What a pause leaves on the clock is what it lasted, when it ends over a *)
(* step being presented, and nothing otherwise.                            *)
LEMMA Resumed ==
  ASSUME NumbersOK, Place, Resume
  PROVE  /\ spent' \in [seated: Nat, arriving: Nat, overSteps: Nat]
         /\ pausedAt # NotPaused /\ now - pausedAt \in Nat
         /\ Total' = Total + IF pendingPresentation # NoPresentation THEN now - pausedAt ELSE 0
<1>1. pausedAt # NotPaused
  BY DEF Resume, Place
<1>2. now - pausedAt \in Nat
  BY <1>1 DEF NumbersOK
<1>3. CASE pendingPresentation = NoPresentation
  BY <1>1, <1>2, <1>3 DEF Resume, NumbersOK, Total
<1>4. CASE pendingPresentation # NoPresentation
  BY <1>1, <1>2, <1>4 DEF Resume, NumbersOK, Total
<1> QED BY <1>3, <1>4

(* Time that passes on a timed table is spent, except during a pause.      *)
LEMMA Ticked ==
  ASSUME NumbersOK, Tick
  PROVE  /\ spent' \in [seated: Nat, arriving: Nat, overSteps: Nat]
         /\ Total' = Total + IF paused \/ runner.mode # "timed" THEN 0 ELSE 1
<1>1. CASE paused \/ runner.mode # "timed"
  BY <1>1 DEF Tick, NumbersOK, Total
<1>2. CASE ~(paused \/ runner.mode # "timed") /\ mounted
  BY <1>2 DEF Tick, NumbersOK, Total
<1>3. CASE ~(paused \/ runner.mode # "timed") /\ ~mounted
  BY <1>3 DEF Tick, NumbersOK, Total
<1> QED BY <1>1, <1>2, <1>3

(* The counters and clocks stay within their bounds.                       *)
LEMMA NumbersPreserved == NumbersOK /\ Place /\ [Next]_vars => NumbersOK'
<1> SUFFICES ASSUME NumbersOK, Place, [Next]_vars PROVE NumbersOK'
  OBVIOUS
<1>s. ASSUME UNCHANGED <<games, now, pausedAt, spent>> PROVE NumbersOK'
  BY <1>s DEF NumbersOK
<1>1. CASE Start
  BY <1>1, TableBoundsAssumption DEF Start, NumbersOK, NoTime
<1>2. CASE ContinueRun
  BY <1>2, TableBoundsAssumption DEF ContinueRun, NumbersOK
<1>3. CASE FlythroughDone
  BY <1>3, <1>s DEF FlythroughDone
<1>4. CASE EscapeFlythrough
  BY <1>4, <1>s DEF EscapeFlythrough
<1>5. CASE CloseResult
  BY <1>5, <1>s DEF CloseResult
<1>6. CASE Mount
  BY <1>6 DEF Mount, StopPause, NumbersOK, NotPaused
<1>7. CASE Pause
  BY <1>7 DEF Pause, PauseAt, NumbersOK
<1>8. CASE Resume
  <2>1. pausedAt' = NotPaused /\ UNCHANGED <<games, now>>
    BY <1>8 DEF Resume, StopPause
  <2>2. spent' \in [seated: Nat, arriving: Nat, overSteps: Nat]
    BY <1>8, Resumed DEF NumbersOK
  <2> QED BY <2>1, <2>2 DEF NumbersOK, NotPaused
<1>9. CASE Leave
  BY <1>9, <1>s DEF Leave, LeftWith
<1>10. CASE EventDone
  BY <1>10, <1>s DEF EventDone
<1>11. CASE Skip
  BY <1>11, <1>s DEF Skip
<1>12. CASE HeroAct
  BY <1>12, <1>s DEF HeroAct
<1>13. CASE Effects
  BY <1>13, <1>s DEF Effects
<1>14. CASE Answer
  BY <1>14, <1>s DEF Answer
<1>15. CASE CallSettles
  BY <1>15, <1>s DEF CallSettles
<1>16. CASE CommitLifecycle
  BY <1>16, <1>s DEF CommitLifecycle
<1>17. CASE Tick
  <2>1. now' = now + 1 /\ now' \in 0..MaxTime
    BY <1>17, TableBoundsAssumption DEF Tick, NumbersOK
  <2>2. spent' \in [seated: Nat, arriving: Nat, overSteps: Nat]
    BY <1>17, Ticked
  <2>3. games' = games /\ pausedAt' = pausedAt
    BY <1>17 DEF Tick
  <2>4. pausedAt \in Int /\ now \in Int /\ pausedAt <= now
    BY TableBoundsAssumption DEF NumbersOK, NotPaused
  <2>5. pausedAt' <= now'
    BY <2>1, <2>3, <2>4
  <2> QED BY <2>1, <2>2, <2>3, <2>5 DEF NumbersOK
<1>18. CASE UNCHANGED vars
  BY <1>18, <1>s DEF vars
<1> QED
  BY <1>1, <1>2, <1>3, <1>4, <1>5, <1>6, <1>7, <1>8, <1>9, <1>10, <1>11, <1>12, <1>13,
     <1>14, <1>15, <1>16, <1>17, <1>18 DEF Next

(* What is saved stays a checkpoint.                                       *)
LEMMA SavedPreserved ==
  SavedOK /\ RunnersOK /\ PendingOK /\ CallOK /\ NumbersOK /\ [Next]_vars
    => SavedOK'
<1> SUFFICES ASSUME SavedOK, RunnersOK, PendingOK, CallOK, NumbersOK, [Next]_vars
             PROVE  SavedOK'
  OBVIOUS
<1>p. pendingPresentation # NoPresentation => CheckpointOf(pendingPresentation.next) \in Checkpoints
  BY CheckpointTyped, AtWork DEF PendingOK, Presentations
<1>s. ASSUME UNCHANGED <<checkpoint, saved>> PROVE SavedOK'
  BY <1>s DEF SavedOK
<1>1. CASE Start
  BY <1>1, Started, CheckpointTyped, AtWork DEF SavedOK
<1>2. CASE ContinueRun
  BY <1>2, Continued, CheckpointTyped, AtWork DEF SavedOK
<1>3. CASE FlythroughDone
  BY <1>3, <1>s DEF FlythroughDone
<1>4. CASE EscapeFlythrough
  BY <1>4, <1>s DEF EscapeFlythrough
<1>5. CASE CloseResult
  BY <1>5, <1>p DEF CloseResult, Persisted, SavedOK
<1>6. CASE Mount
  BY <1>6, <1>p, Stopped, CheckpointTyped, AtWork DEF Mount, Persisted, SavedOK
<1>7. CASE Pause
  BY <1>7, <1>s DEF Pause
<1>8. CASE Resume
  BY <1>8, <1>p, Stopped, CheckpointTyped, AtWork DEF Resume, Persisted, SavedOK
<1>9. CASE Leave
  BY <1>9, <1>p DEF Leave, LeftWith, SavedOK
<1>10. CASE EventDone
  <2>1. pendingPresentation.next \in RunnersAtWork
    BY <1>10 DEF EventDone, PendingOK, Presentations
  <2> QED BY <1>10, <2>1, Committed, CheckpointTyped, AtWork DEF EventDone, SavedOK
<1>11. CASE Skip
  BY <1>11, Skipped, Committed, CheckpointTyped, AtWork DEF SavedOK
<1>12. CASE HeroAct
  <2>1. CASE UNCHANGED saved
    BY <1>12, <1>s, <2>1 DEF HeroAct
  <2>2. CASE ~UNCHANGED saved
    <3>1. runner \in RunnersAtWork /\ runner.step < MaxStep
      BY <1>12, <2>2, AtWork DEF HeroAct, MayAdvance, RunnersOK, CallOK, Calls, NoCall
    <3>2. PICK next \in Steps(runner) : Publish(runner, next)
      BY <1>12, <2>2 DEF HeroAct
    <3>3. saved' = CheckpointOf(next) /\ next \in Runners
      BY <3>1, <3>2, Published, AtWork
    <3>4. checkpoint' = checkpoint
      BY <1>12 DEF HeroAct
    <3> QED BY <3>3, <3>4, CheckpointTyped DEF SavedOK
  <2> QED BY <2>1, <2>2
<1>13. CASE Effects
  <2>1. CASE UNCHANGED saved
    BY <1>13, <1>s, <2>1 DEF Effects
  <2>2. CASE ~UNCHANGED saved
    <3>1. runner \in RunnersAtWork /\ runner.step < MaxStep
      BY <1>13, <2>2, AtWork DEF Effects, MayAdvance, RunnersOK, CallOK, Calls, NoCall
    <3>2. PICK next \in Steps(runner) : Publish(runner, next)
      BY <1>13, <2>2 DEF Effects
    <3>3. saved' = CheckpointOf(next) /\ next \in Runners
      BY <3>1, <3>2, Published, AtWork
    <3>4. checkpoint' = checkpoint
      BY <1>13 DEF Effects
    <3> QED BY <3>3, <3>4, CheckpointTyped DEF SavedOK
  <2> QED BY <2>1, <2>2
<1>14. CASE Answer
  BY <1>14, <1>s DEF Answer
<1>15. CASE CallSettles
  <2>1. CASE UNCHANGED saved
    BY <1>15, <1>s, <2>1 DEF CallSettles
  <2>2. CASE ~UNCHANGED saved
    <3>1. call.source \in RunnersAtWork /\ call.source.step < MaxStep
      BY <1>15, <2>2, AtWork DEF CallSettles, MayAdvance, RunnersOK, CallOK, Calls, NoCall
    <3>2. PICK next \in Steps(call.source) : Publish(call.source, next)
      BY <1>15, <2>2 DEF CallSettles
    <3>3. saved' = CheckpointOf(next) /\ next \in Runners
      BY <3>1, <3>2, Published, AtWork
    <3>4. checkpoint' = checkpoint
      BY <1>15 DEF CallSettles
    <3> QED BY <3>3, <3>4, CheckpointTyped DEF SavedOK
  <2> QED BY <2>1, <2>2
<1>16. CASE CommitLifecycle
  BY <1>16, <1>p DEF CommitLifecycle, Persisted, SavedOK
<1>17. CASE Tick
  BY <1>17, <1>s DEF Tick
<1>18. CASE UNCHANGED vars
  BY <1>18, <1>s DEF vars
<1> QED
  BY <1>1, <1>2, <1>3, <1>4, <1>5, <1>6, <1>7, <1>8, <1>9, <1>10, <1>11, <1>12, <1>13,
     <1>14, <1>15, <1>16, <1>17, <1>18 DEF Next

(* A step is published for the runner on the table.                        *)
LEMMA Publishing ==
  ASSUME RunnersOK, CallOK, DecisionIsCurrent, HeroAct \/ Effects \/ CallSettles
  PROVE  /\ UNCHANGED <<screen, mounted, runner, paused, pausedAt, checkpoint, games, now, spent>>
         /\ \/ UNCHANGED <<pendingPresentation, saved>>
            \/ /\ runner \in RunnersAtWork /\ (screen = "table" \/ mounted)
               /\ pendingPresentation' \in Presentations /\ pendingPresentation' # NoPresentation
               /\ pendingPresentation'.source = runner /\ pendingPresentation'.next.game = runner.game
               /\ pendingPresentation'.next.mode = runner.mode
               /\ pendingPresentation'.next.startedAt = runner.startedAt
               /\ saved' = CheckpointOf(pendingPresentation'.next)
<1>1. UNCHANGED <<screen, mounted, runner, paused, pausedAt, checkpoint, games, now, spent>>
  BY DEF HeroAct, Effects, CallSettles
<1>2. \/ UNCHANGED <<pendingPresentation, saved>>
      \/ /\ runner \in RunnersAtWork /\ runner.step < MaxStep /\ (screen = "table" \/ mounted)
         /\ \E next \in Steps(runner) : Publish(runner, next)
  <2>1. CASE HeroAct
    BY <2>1, AtWork DEF HeroAct, RunnersOK
  <2>2. CASE Effects
    BY <2>2, AtWork DEF Effects, MayAdvance, RunnersOK
  <2>3. CASE CallSettles
    <3>1. call.stage # "none"
      BY <2>3 DEF CallSettles
    <3>2. call # NoCall
      BY <3>1 DEF NoCall
    <3>3. CASE ~call.aborted
      BY <2>3, <3>2, <3>3, AtWork DEF CallSettles, RunnersOK, CallOK, Calls, DecisionIsCurrent
    <3>4. CASE call.aborted
      BY <2>3, <3>4 DEF CallSettles
    <3> QED BY <3>3, <3>4
  <2> QED BY <2>1, <2>2, <2>3
<1>3. CASE UNCHANGED <<pendingPresentation, saved>>
  BY <1>1, <1>3
<1>4. CASE ~UNCHANGED <<pendingPresentation, saved>>
  <2>1. runner \in RunnersAtWork /\ runner.step < MaxStep /\ (screen = "table" \/ mounted)
    BY <1>2, <1>4
  <2>2. PICK next \in Steps(runner) : Publish(runner, next)
    BY <1>2, <1>4
  <2> QED BY <1>1, <2>1, <2>2, Published
<1> QED BY <1>3, <1>4

(* The table is mounted on its screen, and paused with a time.             *)
LEMMA PlacePreserved == Typed /\ Place /\ DecisionIsCurrent /\ [Next]_vars => Place'
<1> SUFFICES ASSUME Typed, Place, DecisionIsCurrent, [Next]_vars PROVE Place'
  OBVIOUS
<1> USE DEF Typed
<1>1. CASE Start
  BY <1>1 DEF Start, Offered, Place
<1>2. CASE ContinueRun
  BY <1>2 DEF ContinueRun, Place
<1>3. CASE FlythroughDone
  BY <1>3 DEF FlythroughDone, Place
<1>4. CASE EscapeFlythrough
  BY <1>4 DEF EscapeFlythrough, Place
<1>5. CASE CloseResult
  BY <1>5 DEF CloseResult, Place
<1>6. CASE Mount
  BY <1>6 DEF Mount, StopPause, Place
<1>7. CASE Pause
  <2>1. pausedAt' # NotPaused
    BY <1>7 DEF Pause, PauseAt, NumbersOK, NotPaused
  <2> QED BY <1>7, <2>1 DEF Pause, Place
<1>8. CASE Resume
  BY <1>8 DEF Resume, StopPause, Place
<1>9. CASE Leave
  BY <1>9 DEF Leave, LeftWith, Place
<1>10. CASE EventDone
  BY <1>10 DEF EventDone, Commit, FinishRunner, Place
<1>11. CASE Skip
  <2>1. CASE \E next \in RunnersAtWork : Commit(next)
    <3>1. /\ pendingPresentation' = NoPresentation
          /\ (screen' = "result" /\ mounted' = FALSE) \/ (screen' = screen /\ mounted' = mounted)
      BY <2>1, Committed
    <3>2. mounted /\ ~paused /\ UNCHANGED <<paused, pausedAt>>
      BY <1>11, Skipped
    <3> QED BY <3>1, <3>2 DEF Place
  <2>2. CASE UNCHANGED <<screen, mounted>>
    BY <1>11, <2>2, Skipped DEF Place
  <2> QED BY <1>11, <2>1, <2>2, Skipped
<1>12. CASE HeroAct
  BY <1>12, Publishing DEF Place
<1>13. CASE Effects
  BY <1>13, Publishing DEF Place
<1>14. CASE Answer
  BY <1>14 DEF Answer, Place
<1>15. CASE CallSettles
  BY <1>15, Publishing DEF Place
<1>16. CASE CommitLifecycle
  BY <1>16 DEF CommitLifecycle, Place
<1>17. CASE Tick
  BY <1>17 DEF Tick, Place
<1>18. CASE UNCHANGED vars
  BY <1>18 DEF vars, Place
<1> QED
  BY <1>1, <1>2, <1>3, <1>4, <1>5, <1>6, <1>7, <1>8, <1>9, <1>10, <1>11, <1>12, <1>13,
     <1>14, <1>15, <1>16, <1>17, <1>18 DEF Next

(* A step being presented stays of the table on the screen.                *)
LEMMA PresentsOwnPreserved ==
  Typed /\ Place /\ PresentsOwn /\ DecisionIsCurrent /\ [Next]_vars
    => PresentsOwn'
<1> SUFFICES ASSUME Typed, Place, PresentsOwn, DecisionIsCurrent, [Next]_vars
             PROVE  PresentsOwn'
  OBVIOUS
<1> USE DEF Typed
<1>s. ASSUME UNCHANGED <<runner, pendingPresentation>> PROVE PresentsOwn'
  BY <1>s DEF PresentsOwn
<1>1. CASE Start
  BY <1>1, Started DEF PresentsOwn
<1>2. CASE ContinueRun
  BY <1>2 DEF ContinueRun, PresentsOwn
<1>3. CASE FlythroughDone
  BY <1>3, <1>s DEF FlythroughDone
<1>4. CASE EscapeFlythrough
  BY <1>4, <1>s DEF EscapeFlythrough
<1>5. CASE CloseResult
  BY <1>5 DEF CloseResult, Place, PresentsOwn
<1>6. CASE Mount
  BY <1>6, Stopped DEF Mount, PresentsOwn
<1>7. CASE Pause
  BY <1>7, <1>s DEF Pause
<1>8. CASE Resume
  BY <1>8, Stopped DEF Resume, PresentsOwn
<1>9. CASE Leave
  BY <1>9 DEF Leave, LeftWith, PresentsOwn
<1>10. CASE EventDone
  <2>1. CASE pendingPresentation' = NoPresentation
    BY <2>1 DEF PresentsOwn
  <2>2. CASE pendingPresentation' # NoPresentation
    <3>1. pendingPresentation \in Presentations /\ pendingPresentation' = [pendingPresentation EXCEPT !.left = @ - 1] /\ runner' = runner
      BY <1>10, <2>2 DEF EventDone, Commit, PendingOK
    <3>2. pendingPresentation'.source = pendingPresentation.source /\ pendingPresentation'.next = pendingPresentation.next
      BY <3>1 DEF Presentations
    <3> QED BY <1>10, <3>1, <3>2 DEF EventDone, PresentsOwn
  <2> QED BY <2>1, <2>2
<1>11. CASE Skip
  <2>1. CASE pendingPresentation' = NoPresentation
    BY <2>1 DEF PresentsOwn
  <2>2. CASE pendingPresentation' # NoPresentation
    BY <1>11, <2>2, Skipped, Committed, AtWork DEF PresentsOwn
  <2> QED BY <2>1, <2>2
<1>12. CASE HeroAct
  BY <1>12, Publishing DEF PresentsOwn
<1>13. CASE Effects
  BY <1>13, Publishing DEF PresentsOwn
<1>14. CASE Answer
  BY <1>14, <1>s DEF Answer
<1>15. CASE CallSettles
  BY <1>15, Publishing DEF PresentsOwn
<1>16. CASE CommitLifecycle
  BY <1>16, <1>s DEF CommitLifecycle
<1>17. CASE Tick
  BY <1>17, <1>s DEF Tick
<1>18. CASE UNCHANGED vars
  BY <1>18, <1>s DEF vars
<1> QED
  BY <1>1, <1>2, <1>3, <1>4, <1>5, <1>6, <1>7, <1>8, <1>9, <1>10, <1>11, <1>12, <1>13,
     <1>14, <1>15, <1>16, <1>17, <1>18 DEF Next

(* The checkpoint follows the runner, or the step presented.               *)
LEMMA CheckpointFollowsPreserved ==
  Typed /\ CheckpointFollows /\ DecisionIsCurrent /\ [Next]_vars
    => CheckpointFollows'
<1> SUFFICES ASSUME Typed, CheckpointFollows, DecisionIsCurrent, [Next]_vars
             PROVE  CheckpointFollows'
  OBVIOUS
<1> USE DEF Typed
<1>s. ASSUME UNCHANGED <<runner, pendingPresentation, checkpoint, saved>> PROVE CheckpointFollows'
  BY <1>s DEF CheckpointFollows
<1>1. CASE Start
  BY <1>1, Started, AtWork DEF CheckpointFollows
<1>2. CASE ContinueRun
  BY <1>2, Continued DEF CheckpointFollows
<1>3. CASE FlythroughDone
  BY <1>3, <1>s DEF FlythroughDone
<1>4. CASE EscapeFlythrough
  BY <1>4, <1>s DEF EscapeFlythrough
<1>5. CASE CloseResult
  BY <1>5 DEF CloseResult, CheckpointFollows
<1>6. CASE Mount
  <2>1. UNCHANGED pendingPresentation
    BY <1>6 DEF Mount
  <2> QED BY <1>6, <2>1, Stopped DEF Mount, Persisted, CheckpointFollows
<1>7. CASE Pause
  BY <1>7, <1>s DEF Pause
<1>8. CASE Resume
  <2>1. UNCHANGED pendingPresentation
    BY <1>8 DEF Resume
  <2> QED BY <1>8, <2>1, Stopped DEF Resume, Persisted, CheckpointFollows
<1>9. CASE Leave
  BY <1>9 DEF Leave, LeftWith, CheckpointFollows
<1>10. CASE EventDone
  <2>1. pendingPresentation \in Presentations /\ pendingPresentation.next \in RunnersAtWork
    BY <1>10 DEF EventDone, PendingOK, Presentations
  <2>2. CASE pendingPresentation.left > 1
    <3>1. /\ pendingPresentation' = [pendingPresentation EXCEPT !.left = @ - 1]
          /\ UNCHANGED <<runner, checkpoint, saved>>
      BY <1>10, <2>2 DEF EventDone
    <3>2. pendingPresentation'.next = pendingPresentation.next
      BY <2>1, <3>1 DEF Presentations
    <3>3. pendingPresentation' # NoPresentation /\ pendingPresentation # NoPresentation
      BY <2>1, <3>2, AtWork DEF NoPresentation
    <3> QED BY <3>1, <3>2, <3>3 DEF CheckpointFollows
  <2>3. CASE ~(pendingPresentation.left > 1)
    BY <1>10, <2>1, <2>3, Committed DEF EventDone, CheckpointFollows
  <2> QED BY <2>2, <2>3
<1>11. CASE Skip
  BY <1>11, Skipped, Committed, AtWork DEF CheckpointFollows
<1>12. CASE HeroAct
  BY <1>12, Publishing DEF CheckpointFollows
<1>13. CASE Effects
  BY <1>13, Publishing DEF CheckpointFollows
<1>14. CASE Answer
  BY <1>14, <1>s DEF Answer
<1>15. CASE CallSettles
  BY <1>15, Publishing DEF CheckpointFollows
<1>16. CASE CommitLifecycle
  BY <1>16 DEF CommitLifecycle, Persisted, CheckpointFollows
<1>17. CASE Tick
  BY <1>17, <1>s DEF Tick
<1>18. CASE UNCHANGED vars
  BY <1>18, <1>s DEF vars
<1> QED
  BY <1>1, <1>2, <1>3, <1>4, <1>5, <1>6, <1>7, <1>8, <1>9, <1>10, <1>11, <1>12, <1>13,
     <1>14, <1>15, <1>16, <1>17, <1>18 DEF Next

(* An abandoned call is over or marked aborted, and waits no more.         *)
LEMMA Aborted ==
  ASSUME CallOK, call' = Abandoned(call)
  PROVE  (call' = NoCall \/ call'.aborted) /\ call'.stage # "waiting"
<1>1. CASE call = NoCall
  BY <1>1 DEF Abandoned, NoCall
<1>2. CASE call # NoCall
  BY <1>2 DEF CallOK, Abandoned, Calls
<1> QED BY <1>1, <1>2

(* An unaborted call stays for the runner on the table.                    *)
LEMMA DecisionPreserved ==
  Typed /\ Place /\ DecisionIsCurrent /\ [Next]_vars
    => DecisionIsCurrent'
<1> SUFFICES ASSUME Typed, Place, DecisionIsCurrent, [Next]_vars
             PROVE  DecisionIsCurrent'
  OBVIOUS
<1> USE DEF Typed
<1>s. ASSUME UNCHANGED <<call, runner, runnerRef, screen, pendingPresentation, pausedAt>> PROVE DecisionIsCurrent'
  BY <1>s DEF DecisionIsCurrent
<1>1. CASE Start
  BY <1>1 DEF Start, Offered, DecisionIsCurrent
<1>2. CASE ContinueRun
  BY <1>2 DEF ContinueRun, DecisionIsCurrent
<1>3. CASE FlythroughDone
  BY <1>3 DEF FlythroughDone, DecisionIsCurrent
<1>4. CASE EscapeFlythrough
  BY <1>4 DEF EscapeFlythrough, DecisionIsCurrent
<1>5. CASE CloseResult
  BY <1>5 DEF CloseResult, DecisionIsCurrent
<1>6. CASE Mount
  BY <1>6 DEF Mount, StopPause, DecisionIsCurrent
<1>7. CASE Pause
  BY <1>7, Aborted DEF Pause, DecisionIsCurrent
<1>8. CASE Resume
  BY <1>8 DEF Resume, StopPause, DecisionIsCurrent
<1>9. CASE Leave
  BY <1>9, Aborted DEF Leave, LeftWith, DecisionIsCurrent
<1>10. CASE EventDone
  BY <1>10 DEF EventDone, DecisionIsCurrent
<1>11. CASE Skip
  BY <1>11 DEF Skip, Skippable, DecisionIsCurrent
<1>12. CASE HeroAct
  BY <1>12, AtWork DEF HeroAct, CallOK, DecisionIsCurrent
<1>13. CASE Effects
  <2>1. CASE UNCHANGED <<pendingPresentation, call>>
    BY <1>13, <2>1 DEF Effects, DecisionIsCurrent
  <2>2. CASE ~UNCHANGED pendingPresentation
    BY <1>13, <2>2 DEF Effects, MayAdvance, DecisionIsCurrent
  <2>3. CASE ~UNCHANGED call
    <3>1. MayAdvance(runner) /\ UNCHANGED <<screen, runner, pendingPresentation, pausedAt>> /\ runnerRef' = runner
      BY <1>13, <2>3 DEF Effects
    <3>2. PICK token : call' = Called(runner, token)
      BY <1>13, <2>3 DEF Effects
    <3> QED BY <3>1, <3>2 DEF Called, MayAdvance, DecisionIsCurrent
  <2> QED BY <2>1, <2>2, <2>3
<1>14. CASE Answer
  <2>1. UNCHANGED call \/ \E stage : call.stage = "waiting" /\ call' = [call EXCEPT !.stage = stage]
    BY <1>14 DEF Answer, Pending
  <2>2. CASE UNCHANGED call
    BY <1>14, <1>s, <2>2 DEF Answer
  <2>3. CASE ~UNCHANGED call
    <3>1. call # NoCall
      BY <2>1, <2>3 DEF NoCall
    <3>2. call'.source = call.source /\ call'.aborted = call.aborted
      BY <2>1, <2>3, <3>1 DEF CallOK, Calls
    <3> QED BY <1>14, <3>1, <3>2 DEF Answer, DecisionIsCurrent
  <2> QED BY <2>2, <2>3
<1>15. CASE CallSettles
  BY <1>15 DEF CallSettles, DecisionIsCurrent
<1>16. CASE CommitLifecycle
  BY <1>16, <1>s DEF CommitLifecycle
<1>17. CASE Tick
  BY <1>17, <1>s DEF Tick
<1>18. CASE UNCHANGED vars
  BY <1>18, <1>s DEF vars
<1> QED
  BY <1>1, <1>2, <1>3, <1>4, <1>5, <1>6, <1>7, <1>8, <1>9, <1>10, <1>11, <1>12, <1>13,
     <1>14, <1>15, <1>16, <1>17, <1>18 DEF Next

(* A call that waits keeps its equity work.                                *)
LEMMA WorkPreserved == Typed /\ WorkIsUnderWay /\ [Next]_vars => WorkIsUnderWay'
<1> SUFFICES ASSUME Typed, WorkIsUnderWay, [Next]_vars PROVE WorkIsUnderWay'
  OBVIOUS
<1> USE DEF Typed
<1>s. ASSUME UNCHANGED <<call, jobs>> PROVE WorkIsUnderWay'
  BY <1>s DEF WorkIsUnderWay
<1>1. CASE Start
  BY <1>1, <1>s DEF Start
<1>2. CASE ContinueRun
  BY <1>2, <1>s DEF ContinueRun
<1>3. CASE FlythroughDone
  BY <1>3, <1>s DEF FlythroughDone
<1>4. CASE EscapeFlythrough
  BY <1>4, <1>s DEF EscapeFlythrough
<1>5. CASE CloseResult
  BY <1>5, <1>s DEF CloseResult
<1>6. CASE Mount
  BY <1>6, <1>s DEF Mount
<1>7. CASE Pause
  BY <1>7, Aborted DEF Pause, WorkIsUnderWay
<1>8. CASE Resume
  BY <1>8, <1>s DEF Resume
<1>9. CASE Leave
  BY <1>9, Aborted DEF Leave, LeftWith, WorkIsUnderWay
<1>10. CASE EventDone
  BY <1>10, <1>s DEF EventDone
<1>11. CASE Skip
  BY <1>11, <1>s DEF Skip
<1>12. CASE HeroAct
  BY <1>12, <1>s DEF HeroAct
<1>13. CASE Effects
  <2>1. CASE UNCHANGED <<call, jobs>>
    BY <1>s, <2>1
  <2>2. CASE UNCHANGED jobs /\ call' = Called(runner, NoToken)
    BY <2>2 DEF Called, WorkIsUnderWay
  <2>3. CASE \E token \in Tokens :
            /\ call' = Called(runner, token)
            /\ jobs' = [t \in DOMAIN jobs \cup {token} |-> IF t = token THEN runner ELSE jobs[t]]
    BY <2>3 DEF Called, WorkIsUnderWay
  <2> QED BY <1>13, <2>1, <2>2, <2>3 DEF Effects
<1>14. CASE Answer
  <2>1. PICK token \in DOMAIN jobs :
          /\ jobs' = Restrict(jobs, DOMAIN jobs \ {token})
          /\ IF Pending(token)
             THEN \E stage \in {"resolved", "failed"} : call' = [call EXCEPT !.stage = stage]
             ELSE UNCHANGED call
    BY <1>14 DEF Answer
  <2>2. CASE Pending(token)
    <3>1. call \in Calls
      BY <2>2, AtWork DEF Pending, CallOK, NoCall
    <3>2. call'.stage # "waiting"
      BY <2>1, <2>2, <3>1 DEF Calls
    <3> QED BY <3>2 DEF WorkIsUnderWay
  <2>3. CASE ~Pending(token)
    BY <2>1, <2>3 DEF Pending, Restrict, WorkIsUnderWay
  <2> QED BY <2>2, <2>3
<1>15. CASE CallSettles
  BY <1>15 DEF CallSettles, NoCall, WorkIsUnderWay
<1>16. CASE CommitLifecycle
  BY <1>16, <1>s DEF CommitLifecycle
<1>17. CASE Tick
  BY <1>17, <1>s DEF Tick
<1>18. CASE UNCHANGED vars
  BY <1>18, <1>s DEF vars
<1> QED
  BY <1>1, <1>2, <1>3, <1>4, <1>5, <1>6, <1>7, <1>8, <1>9, <1>10, <1>11, <1>12, <1>13,
     <1>14, <1>15, <1>16, <1>17, <1>18 DEF Next

(* The clock of a timed table stays accounted for.                         *)
LEMMA ClockPreserved ==
  Typed /\ Place /\ PresentsOwn /\ DecisionIsCurrent /\ ClockStands /\ [Next]_vars
    => ClockStands'
<1> SUFFICES ASSUME Typed, Place, PresentsOwn, DecisionIsCurrent, ClockStands, [Next]_vars
             PROVE  ClockStands'
  OBVIOUS
<1> USE DEF Typed
<1>s. ASSUME UNCHANGED <<runner, pendingPresentation, paused, pausedAt, now, spent, mounted>>,
             screen' = screen \/ screen' \in {"menu", "result"} \/ pendingPresentation # NoPresentation
      PROVE  ClockStands'
  BY <1>s DEF ClockStands, Staying, Stands, Total
<1>1. CASE Start
  <2>1. ~paused /\ paused' = paused /\ now' = now
    BY <1>1 DEF Start, Offered, Place
  <2>2. PICK created \in RunnersAtWork : \E ready \in Steps(created) :
           /\ created.startedAt = (IF created.mode = "timed" THEN now ELSE 0)
           /\ ready.mode = created.mode /\ ready.startedAt = created.startedAt
           /\ runner' = ready /\ pendingPresentation'.next = ready
           /\ pendingPresentation' \in Presentations
    BY <1>1, Started
  <2>3. spent' = NoTime
    BY <1>1 DEF Start
  <2>4. pendingPresentation' # NoPresentation
    BY <2>2, Presented
  <2>5. runner'.mode = "timed" => pendingPresentation'.next.startedAt = now
    BY <2>2
  <2>6. Total' = 0 /\ now - now = 0
    BY <2>3 DEF NoTime, Total, NumbersOK
  <2> QED BY <2>1, <2>4, <2>5, <2>6 DEF ClockStands, Staying, Stands
<1>2. CASE ContinueRun
  BY <1>2, Continued DEF ClockStands
<1>3. CASE FlythroughDone
  <2>1. screen = "transition"
    BY <1>3 DEF FlythroughDone
  <2>2. CASE runner.mode = "timed"
    <3>1. pendingPresentation # NoPresentation
      BY <2>1, <2>2 DEF ClockStands, Place
    <3> QED BY <1>3, <1>s, <3>1 DEF FlythroughDone
  <2>3. CASE runner.mode # "timed"
    BY <1>3, <2>3 DEF FlythroughDone, ClockStands
  <2> QED BY <2>2, <2>3
<1>4. CASE EscapeFlythrough
  BY <1>4, <1>s DEF EscapeFlythrough
<1>5. CASE CloseResult
  <2>1. CASE runner' = NoRunner
    BY <2>1 DEF NoRunner, ClockStands
  <2>2. CASE runner' = runner
    BY <1>5, <1>s, <2>2 DEF CloseResult
  <2> QED BY <1>5, <2>1, <2>2 DEF CloseResult
<1>6. CASE Mount
  <2>1. ~paused /\ ~paused' /\ mounted' /\ UNCHANGED <<pendingPresentation, now, spent>>
    BY <1>6 DEF Mount, Place
  <2>2. runner'.mode = runner.mode
    BY <1>6, Stopped DEF Mount
  <2>3. runner.mode = "timed" => pendingPresentation # NoPresentation
    BY <1>6 DEF Mount, ClockStands
  <2> QED BY <2>1, <2>2, <2>3 DEF ClockStands, Staying, Stands, Total
<1>7. CASE Pause
  <2>1. pausedAt = NotPaused /\ ~paused /\ paused' /\ pausedAt' = now
    BY <1>7 DEF Pause, PauseAt, Place
  <2>2. UNCHANGED <<runner, pendingPresentation, spent, mounted, screen>>
    BY <1>7 DEF Pause
  <2> QED BY <2>1, <2>2 DEF ClockStands, Staying, Stands, Total
<1>8. CASE Resume
  <2>1. paused /\ ~paused' /\ mounted' /\ pausedAt # NotPaused /\ UNCHANGED <<pendingPresentation, now>>
    BY <1>8 DEF Resume, Place
  <2>2. now - pausedAt \in Nat /\ Total' = Total + IF pendingPresentation # NoPresentation THEN now - pausedAt ELSE 0
    BY <1>8, Resumed
  <2> SUFFICES ASSUME runner'.mode = "timed"
               PROVE  now - Staying'.startedAt = Total'
    BY <2>1 DEF ClockStands, Stands
  <2>3. runner.mode = "timed" /\ runner \in RunnersAtWork
    BY <1>8, Stopped, AtWork DEF Resume, RunnersOK
  <2>4. pausedAt - Staying.startedAt = Total
    BY <2>1, <2>3 DEF ClockStands, Stands
  <2>5. now \in Int /\ pausedAt \in Int /\ Total \in Int
    BY DEF NumbersOK, NotPaused, Total
  <2>6. CASE pendingPresentation # NoPresentation
    <3>1. Staying' = Staying /\ Staying.startedAt \in Int
      BY <2>1, <2>6 DEF Staying, PendingOK, Presentations, RunnersAtWork
    <3> QED BY <2>2, <2>4, <2>5, <2>6, <3>1
  <2>7. CASE pendingPresentation = NoPresentation
    <3>1. Staying' = runner' /\ Staying = runner /\ Total' = Total
      BY <2>1, <2>2, <2>5, <2>7 DEF Staying
    <3>2. runner.startedAt \in Int
      BY <2>3 DEF RunnersAtWork
    <3>3. runner'.startedAt = runner.startedAt + (now - pausedAt)
      <4>1. CASE now > pausedAt
        <5>1. runner' = Shifted(runner)
          BY <1>8, <2>1, <2>3, <4>1 DEF Resume, StopPause
        <5> QED BY <2>3, <5>1 DEF Shifted, RunnersAtWork
      <4>2. CASE ~(now > pausedAt)
        <5>1. runner' = runner
          BY <1>8, <2>1, <4>2 DEF Resume, StopPause
        <5>2. now - pausedAt = 0
          BY <2>2, <2>5, <4>2
        <5> QED BY <3>2, <5>1, <5>2
      <4> QED BY <4>1, <4>2
    <3> QED BY <2>4, <2>5, <3>1, <3>2, <3>3
  <2> QED BY <2>6, <2>7
<1>9. CASE Leave
  BY <1>9 DEF Leave, LeftWith, NoRunner, ClockStands
<1>10. CASE EventDone
  <2>1. pendingPresentation \in Presentations /\ pendingPresentation # NoPresentation /\ pendingPresentation.next \in RunnersAtWork
    BY <1>10 DEF EventDone, PendingOK, Presentations
  <2>2. mounted /\ UNCHANGED <<paused, pausedAt, now, spent>>
    BY <1>10 DEF EventDone
  <2>3. CASE pendingPresentation.left > 1
    <3>1. /\ pendingPresentation' = [pendingPresentation EXCEPT !.left = @ - 1] /\ runner' = runner
          /\ mounted' = mounted
      BY <1>10, <2>3 DEF EventDone
    <3>2. pendingPresentation'.next = pendingPresentation.next
      BY <2>1, <3>1 DEF Presentations
    <3>3. pendingPresentation' # NoPresentation
      BY <2>1, <3>1, Presented DEF Presentations, NoPresentation, NoRunner, RunnersAtWork
    <3> QED BY <2>1, <2>2, <3>1, <3>2, <3>3 DEF ClockStands, Staying, Stands, Total
  <2>4. CASE ~(pendingPresentation.left > 1)
    <3>1. /\ runner' = pendingPresentation.next /\ pendingPresentation' = NoPresentation
          /\ mounted' \/ screen' = "result"
      BY <1>10, <2>1, <2>2, <2>4, Committed DEF EventDone
    <3> QED BY <2>1, <2>2, <3>1 DEF ClockStands, Staying, Stands, Total, PresentsOwn
  <2> QED BY <2>3, <2>4
<1>11. CASE Skip
  <2>1. pendingPresentation # NoPresentation /\ mounted /\ UNCHANGED <<paused, pausedAt, now, spent>>
    BY <1>11, Skipped, AtWork
  <2>2. runner'.mode = runner.mode /\ (mounted' \/ screen' = "result")
    BY <1>11, <2>1, Skipped, Committed DEF PresentsOwn
  <2>3. Staying'.startedAt = pendingPresentation.next.startedAt
    <3>1. CASE \E next \in RunnersAtWork : next.startedAt = pendingPresentation.next.startedAt /\ Commit(next)
      BY <3>1, Committed DEF Staying
    <3>2. CASE /\ pendingPresentation' \in Presentations
               /\ pendingPresentation'.next.startedAt = pendingPresentation.next.startedAt
      BY <3>2, Presented DEF Staying
    <3> QED BY <1>11, <3>1, <3>2, Skipped
  <2> QED BY <2>1, <2>2, <2>3 DEF ClockStands, Staying, Stands, Total
<1>p. ASSUME HeroAct \/ Effects \/ CallSettles PROVE ClockStands'
  <2>1. UNCHANGED <<screen, mounted, runner, paused, pausedAt, now, spent>>
    BY <1>p, Publishing
  <2>2. CASE pendingPresentation' = pendingPresentation
    BY <1>s, <2>1, <2>2
  <2>3. CASE pendingPresentation' # pendingPresentation
    <3>1. pendingPresentation' # NoPresentation /\ pendingPresentation'.next.startedAt = runner.startedAt
      BY <1>p, <2>3, Publishing
    <3>2. pendingPresentation = NoPresentation
      BY <1>p, <2>3 DEF HeroAct, Effects, CallSettles, MayAdvance, DecisionIsCurrent, NoCall
    <3> QED BY <2>1, <3>1, <3>2 DEF ClockStands, Staying, Stands, Total
  <2> QED BY <2>2, <2>3
<1>12. CASE HeroAct
  BY <1>12, <1>p
<1>13. CASE Effects
  BY <1>13, <1>p
<1>14. CASE Answer
  BY <1>14, <1>s DEF Answer
<1>15. CASE CallSettles
  BY <1>15, <1>p
<1>16. CASE CommitLifecycle
  BY <1>16, <1>s DEF CommitLifecycle
<1>17. CASE Tick
  <2>1. now' = now + 1 /\ UNCHANGED <<runner, pendingPresentation, paused, pausedAt, mounted, screen>>
    BY <1>17 DEF Tick
  <2>2. CASE runner.mode # "timed"
    BY <2>1, <2>2 DEF ClockStands
  <2>3. CASE runner.mode = "timed"
    <3>1. Total' = Total + IF paused THEN 0 ELSE 1
      BY <1>17, <2>3, Ticked
    <3>2. Stands' = Stands + IF paused THEN 0 ELSE 1
      BY <2>1 DEF Stands, NumbersOK, NotPaused
    <3>3. Stands \in Int /\ Total \in Int /\ Staying.startedAt \in Int /\ Staying' = Staying
      <4>1. Stands \in Int /\ Total \in Int
        BY DEF Stands, Total, NumbersOK, NotPaused
      <4>2. Staying \in RunnersAtWork
        BY <2>3, AtWork DEF Staying, PendingOK, Presentations, RunnersOK
      <4> QED BY <2>1, <4>1, <4>2 DEF Staying, RunnersAtWork
    <3>4. Stands - Staying.startedAt = Total
      BY <2>3 DEF ClockStands
    <3>5. Stands' - Staying'.startedAt = Total'
      BY <3>1, <3>2, <3>3, <3>4
    <3> QED BY <2>1, <2>3, <3>5 DEF ClockStands
  <2> QED BY <2>2, <2>3
<1>18. CASE UNCHANGED vars
  BY <1>18, <1>s DEF vars
<1> QED
  BY <1>1, <1>2, <1>3, <1>4, <1>5, <1>6, <1>7, <1>8, <1>9, <1>10, <1>11, <1>12, <1>13,
     <1>14, <1>15, <1>16, <1>17, <1>18 DEF Next

-----------------------------------------------------------------------------
(* The program starts in the invariant.                                    *)
LEMMA InitIInv == Init => IInv
<1> SUFFICES ASSUME Init PROVE IInv
  OBVIOUS
<1>1. Flags /\ RunnersOK /\ PendingOK /\ CallOK
  BY AtWork DEF Init, Flags, RunnersOK, PendingOK, CallOK
<1>2. JobsOK /\ NumbersOK
  BY TableBoundsAssumption DEF Init, JobsOK, NumbersOK, NotPaused, NoTime
<1>3. SavedOK
  BY CheckpointTyped, AtWork DEF Init, SavedOK
<1>4. Place /\ PresentsOwn /\ CheckpointFollows /\ DecisionIsCurrent /\ WorkIsUnderWay /\ ClockStands
  BY DEF Init, Place, PresentsOwn, CheckpointFollows, DecisionIsCurrent, WorkIsUnderWay,
         ClockStands, NoRunner, NoCall, NoPresentation
<1> QED BY <1>1, <1>2, <1>3, <1>4 DEF IInv, Typed

(* Every step keeps the invariant.                                         *)
LEMMA Inductive == IInv /\ [Next]_vars => IInv'
<1> SUFFICES ASSUME IInv, [Next]_vars PROVE IInv'
  OBVIOUS
<1>1. Typed'
  BY FlagsPreserved, RunnersPreserved, PendingPreserved, CallPreserved, JobsPreserved,
     NumbersPreserved, SavedPreserved DEF IInv, Typed
<1> QED
  BY <1>1, PlacePreserved, PresentsOwnPreserved, CheckpointFollowsPreserved, DecisionPreserved,
     WorkPreserved, ClockPreserved DEF IInv

(* The inductive invariant of the live table.                              *)
THEOREM TableInvariant == Spec => []IInv
<1> QED BY InitIInv, Inductive, PTL DEF Spec

(* Every variable keeps its type.                                          *)
THEOREM TypeCorrect == Spec => []TypeOK
<1>1. IInv => TypeOK
  BY AtWork DEF IInv, Typed, TypeOK, Flags, RunnersOK, PendingOK, CallOK, JobsOK, NumbersOK,
     SavedOK, Presentations, Calls
<1> QED BY <1>1, TableInvariant, PTL

(* A decision nobody has aborted is for the runner on the table, which is  *)
(* in play and shows nothing else.                                         *)
THEOREM DecisionStaysCurrent == Spec => []DecisionIsCurrent
<1>1. IInv => DecisionIsCurrent
  BY DEF IInv
<1> QED BY <1>1, TableInvariant, PTL

(* What is presented belongs to the table on the screen.                   *)
THEOREM PresentsOnlyOwnTable == Spec => []PresentsOwnTable
<1>1. IInv => PresentsOwnTable
  BY DEF IInv, PresentsOwn, PresentsOwnTable
<1> QED BY <1>1, TableInvariant, PTL

(* An accepted step is saved before it is shown and never overwritten by   *)
(* an earlier one.                                                         *)
THEOREM AcceptedStaysSaved == Spec => []AcceptedIsSaved
<1>1. IInv => AcceptedIsSaved
  BY DEF IInv, CheckpointFollows, AcceptedIsSaved
<1> QED BY <1>1, TableInvariant, PTL

(* At every review of its blinds the clock of a timed table is the time    *)
(* played, the arrival and the pauses over steps being presented, exactly. *)
THEOREM ClockIsAccounted == Spec => []ClockAccounts
<1>1. IInv => ClockAccounts
  BY DEF IInv, Place, ClockStands, Staying, Stands, Total, ClockAccounts, BlindsReviewed, Elapsed, MayAdvance
<1> QED BY <1>1, TableInvariant, PTL

(* An answer resolves only the decision its work was done for.             *)
THEOREM AnswersFindTheirDecision == Spec => AnswerIsForItsDecision
<1>1. ASSUME IInv, Next, call.stage = "waiting", call'.stage = "resolved"
      PROVE  \E t \in DOMAIN jobs \ DOMAIN jobs' : jobs[t] = call.source
  <2>1. CASE Answer
    <3>1. PICK token \in DOMAIN jobs :
            /\ jobs' = Restrict(jobs, DOMAIN jobs \ {token})
            /\ ~Pending(token) => UNCHANGED call
      BY <2>1 DEF Answer
    <3>2. Pending(token)
      BY <1>1, <3>1
    <3>3. token \notin DOMAIN jobs' /\ jobs[token] = call.source
      BY <1>1, <3>1, <3>2 DEF Pending, Restrict, IInv, WorkIsUnderWay
    <3> QED BY <3>1, <3>3
  <2>2. CASE Pause \/ Leave
    <3>1. call # NoCall /\ call' = Abandoned(call)
      BY <1>1, <2>2 DEF Pause, Leave, LeftWith, NoCall
    <3> QED BY <1>1, <3>1 DEF IInv, Typed, CallOK, Calls, Abandoned
  <2>3. CASE Effects
    <3>1. call # NoCall
      BY <1>1 DEF NoCall
    <3> QED BY <1>1, <2>3, <3>1 DEF Effects, MayAdvance
  <2>4. CASE CallSettles
    BY <1>1, <2>4 DEF CallSettles
  <2>5. CASE ~(Answer \/ Pause \/ Leave \/ Effects \/ CallSettles)
    <3>1. UNCHANGED call
      BY <1>1, <2>5 DEF Next, Start, ContinueRun, FlythroughDone, EscapeFlythrough, CloseResult,
        Mount, Resume, EventDone, Skip, HeroAct, CommitLifecycle, Tick
    <3> QED BY <1>1, <3>1
  <2> QED BY <2>1, <2>2, <2>3, <2>4, <2>5
<1>2. ASSUME IInv, [Next]_vars
      PROVE  [call.stage = "waiting" /\ call'.stage = "resolved" =>
                \E t \in DOMAIN jobs \ DOMAIN jobs' : jobs[t] = call.source]_vars
  BY <1>1, <1>2
<1> QED BY <1>2, TableInvariant, PTL DEF Spec, AnswerIsForItsDecision

-----------------------------------------------------------------------------
(* EquityService: every request is answered or refused.                    *)

Asked == {t \in Requests : t < nextToken}

PromiseStates ==
  {NotAsked, Waiting, Rejected} \cup {Resolved(t) : t \in Requests}
Orders == [kind : {"estimate"}, token : Requests] \cup [kind : {"cancel"}, tokens : SUBSET Requests]
Responses ==
  {Result(t) : t \in Requests} \cup {Error(t) : t \in Requests} \cup {Cancelled(t) : t \in Requests}

CallerOK ==
  /\ options \in [worker : BOOLEAN, supersedePending : BOOLEAN]
  /\ nextToken \in 1..(MaxRequests + 1) /\ disposed \in BOOLEAN
  /\ pending \subseteq Asked
  /\ promise \in [Requests -> PromiseStates]
MessagesOK == toWorker \in Seq(Orders) /\ fromWorker \in Seq(Responses)
WorkOK ==
  /\ work \in [DOMAIN work -> [left : Nat, fresh : BOOLEAN]] /\ DOMAIN work \subseteq Asked
  /\ cancelled \subseteq Requests
  /\ wasted \in [Requests -> Nat]
EquityTypeOK == CallerOK /\ MessagesOK /\ WorkOK

(* A promise is open exactly while its token is pending, and is resolved   *)
(* with its own estimate.                                                  *)
PendingIsOpen ==
  \A t \in Requests :
    /\ t \in pending <=> promise[t] = Waiting
    /\ t \in Asked <=> promise[t] # NotAsked
    /\ promise[t] \in {NotAsked, Waiting, Rejected, Resolved(t)}

(* A token somebody has given up was asked for, and is not pending.        *)
Gone == Asked \ pending
OrderOK(order) ==
  IF order.kind = "cancel" THEN order.tokens \subseteq Gone ELSE order.token \in Asked
ResponseOK(response) ==
  response.token \in Asked /\ (response.kind = "cancelled" => response.token \in Gone)
GivenUp ==
  /\ \A order \in Range(toWorker) : OrderOK(order)
  /\ cancelled \subseteq Gone
  /\ \A response \in Range(fromWorker) : ResponseOK(response)

(* Nothing is wasted on a token that is pending or not asked for yet, and  *)
(* after a wasted slice the next look at the pending map ends the work.    *)
Stops ==
  \A t \in Requests :
    /\ wasted[t] <= 1
    /\ t \notin Gone => wasted[t] = 0
    /\ t \in DOMAIN work /\ work[t].fresh => wasted[t] = 0

EquityInv == EquityTypeOK /\ PendingIsOpen /\ GivenUp /\ Stops

-----------------------------------------------------------------------------
(* What the operators on messages put into a sequence.                     *)
LEMMA RangeAppend ==
  ASSUME NEW S, NEW s \in Seq(S), NEW e \in S
  PROVE  Append(s, e) \in Seq(S) /\ Range(Append(s, e)) = Range(s) \cup {e}
<1> DEFINE t == Append(s, e)
<1>1. t \in Seq(S) /\ DOMAIN s = 1..Len(s) /\ DOMAIN t = 1..(Len(s) + 1) /\ Len(s) \in Nat
  OBVIOUS
<1>2. \A i \in DOMAIN s : i \in DOMAIN t /\ t[i] = s[i]
  BY <1>1
<1>3. Len(s) + 1 \in DOMAIN t /\ t[Len(s) + 1] = e
  BY <1>1
<1>4. \A i \in DOMAIN t : i \in DOMAIN s \/ i = Len(s) + 1
  BY <1>1
<1> HIDE DEF t
<1> QED BY <1>1, <1>2, <1>3, <1>4 DEF t, Range

(* What is left of a queue, and what was taken, was in it.                 *)
LEMMA RangeTail ==
  ASSUME NEW S, NEW s \in Seq(S), s # <<>>
  PROVE  Tail(s) \in Seq(S) /\ Range(Tail(s)) \subseteq Range(s) /\ Head(s) \in Range(s) /\ Head(s) \in S
<1> DEFINE t == Tail(s)
<1>1. /\ t \in Seq(S) /\ DOMAIN s = 1..Len(s) /\ DOMAIN t = 1..(Len(s) - 1)
      /\ Len(s) \in Nat /\ Len(s) > 0
  OBVIOUS
<1>2. \A i \in DOMAIN t : i + 1 \in DOMAIN s /\ t[i] = s[i + 1]
  BY <1>1
<1>3. 1 \in DOMAIN s /\ Head(s) = s[1] /\ Head(s) \in S
  BY <1>1
<1> HIDE DEF t
<1> QED BY <1>1, <1>2, <1>3 DEF t, Range

(* What is in two sequences one after the other.                           *)
LEMMA RangeConcat ==
  ASSUME NEW S, NEW s \in Seq(S), NEW t \in Seq(S)
  PROVE  s \o t \in Seq(S) /\ Range(s \o t) \subseteq Range(s) \cup Range(t)
<1> DEFINE u == s \o t
<1>1. /\ u \in Seq(S) /\ DOMAIN s = 1..Len(s) /\ DOMAIN t = 1..Len(t)
      /\ DOMAIN u = 1..(Len(s) + Len(t)) /\ Len(s) \in Nat /\ Len(t) \in Nat
  OBVIOUS
<1>2. \A i \in DOMAIN u :
        \/ i \in DOMAIN s /\ u[i] = s[i]
        \/ i - Len(s) \in DOMAIN t /\ u[i] = t[i - Len(s)]
  BY <1>1
<1> HIDE DEF u
<1> QED BY <1>1, <1>2 DEF u, Range

(* Nothing is in the empty sequence.                                       *)
LEMMA EmptyOK == ASSUME NEW S PROVE <<>> \in Seq(S) /\ Range(<<>>) = {}
BY DEF Range

(* The cancel messages of a call name its tokens and nothing else.         *)
LEMMA CancelMessagesOK ==
  ASSUME NEW tokens \in SUBSET Requests
  PROVE  /\ CancelMessages(tokens) \in Seq(Orders)
         /\ \A order \in Range(CancelMessages(tokens)) : order = CancelMessage(tokens)
<1> DEFINE order == CancelMessage(tokens)
<1>1. order \in Orders
  BY DEF CancelMessage, Orders
<1>2. <<order>> \in Seq(Orders) /\ Range(<<order>>) = {order}
  <2> HIDE DEF order
  <2> QED BY <1>1 DEF Range
<1> HIDE DEF order
<1> QED BY <1>2, EmptyOK DEF CancelMessages, order

(* The kinds of a message.                                                 *)
LEMMA OrderKinds ==
  ASSUME NEW order \in Orders
  PROVE  IF order.kind = "cancel" THEN order.tokens \subseteq Requests ELSE order.token \in Requests
BY DEF Orders

(* What a reply says of its token.                                         *)
LEMMA ResponseKinds ==
  ASSUME NEW response \in Responses
  PROVE  /\ response.token \in Requests
         /\ response.kind = "result" => response.of = response.token
BY DEF Responses, Result, Error, Cancelled

-----------------------------------------------------------------------------
(* Settling keeps a promise open exactly while its token is pending.       *)
LEMMA SettledKeeps ==
  ASSUME EquityTypeOK, PendingIsOpen, NEW tokens, NEW end, Settled(tokens, end),
         UNCHANGED <<options, nextToken>>, disposed' \in BOOLEAN,
         \A t \in tokens \cap Requests : end \in {Rejected, Resolved(t)}
  PROVE  CallerOK' /\ PendingIsOpen' /\ pending' \subseteq pending /\ Asked' = Asked
<1>1. pending' = pending \ tokens /\ Asked' = Asked
  BY DEF Settled, Asked
<1>2. promise' = [t \in Requests |-> IF t \in tokens \cap pending THEN end ELSE promise[t]]
  BY DEF Settled
<1>3. \A t \in Requests : Waiting \notin {NotAsked, Rejected, Resolved(t)} /\ NotAsked \notin {Rejected, Resolved(t)}
  BY DEF Waiting, NotAsked, Rejected, Resolved
<1>4. \A t \in Requests : /\ promise'[t] \in {NotAsked, Waiting, Rejected, Resolved(t)}
                          /\ t \in pending' <=> promise'[t] = Waiting
                          /\ t \in Asked <=> promise'[t] # NotAsked
  BY <1>1, <1>2, <1>3 DEF PendingIsOpen, EquityTypeOK, CallerOK
<1>5. \A t \in Requests : {NotAsked, Waiting, Rejected, Resolved(t)} \subseteq PromiseStates
  BY DEF PromiseStates
<1>6. promise' \in [Requests -> PromiseStates]
  BY <1>2, <1>4, <1>5
<1> QED BY <1>1, <1>4, <1>6 DEF EquityTypeOK, CallerOK, PendingIsOpen, Settled

(* What the caller sees keeps its type, and open is pending.               *)
LEMMA CallerKept == EquityTypeOK /\ PendingIsOpen /\ [EquityNext]_equityVars => CallerOK' /\ PendingIsOpen'
<1> SUFFICES ASSUME EquityTypeOK, PendingIsOpen, [EquityNext]_equityVars PROVE CallerOK' /\ PendingIsOpen'
  OBVIOUS
<1> USE DEF EquityTypeOK
<1>1. CASE Ask
  <2>1. /\ ~disposed /\ nextToken <= MaxRequests /\ nextToken' = nextToken + 1
        /\ pending' = (pending \ Superseded) \cup {nextToken}
        /\ promise' = [t \in Requests |-> IF t = nextToken THEN Waiting
                                          ELSE IF t \in Superseded THEN Rejected ELSE promise[t]]
        /\ UNCHANGED <<options, disposed>>
    BY <1>1 DEF Ask
  <2>2. nextToken \in Requests /\ nextToken \notin Asked /\ Asked' = Asked \cup {nextToken}
    BY <2>1, BoundsAssumption DEF Requests, Asked, CallerOK
  <2>3. nextToken' \in 1..(MaxRequests + 1)
    BY <2>1, BoundsAssumption DEF CallerOK
  <2>4. Superseded \subseteq pending
    BY DEF Superseded
  <2>5. \A t \in Requests : Waiting \notin {NotAsked, Rejected, Resolved(t)} /\ NotAsked \notin {Rejected, Resolved(t)}
    BY DEF Waiting, NotAsked, Rejected, Resolved
  <2>6. \A t \in Requests : /\ promise'[t] \in {NotAsked, Waiting, Rejected, Resolved(t)}
                            /\ t \in pending' <=> promise'[t] = Waiting
                            /\ t \in Asked' <=> promise'[t] # NotAsked
    BY <2>1, <2>2, <2>4, <2>5 DEF PendingIsOpen, CallerOK
  <2>7. \A t \in Requests : {NotAsked, Waiting, Rejected, Resolved(t)} \subseteq PromiseStates
    BY DEF PromiseStates
  <2>8. promise' \in [Requests -> PromiseStates]
    BY <2>1, <2>6, <2>7
  <2> QED BY <2>1, <2>2, <2>3, <2>6, <2>8 DEF CallerOK, PendingIsOpen
<1>2. CASE CancelPending
  BY <1>2, SettledKeeps DEF CancelPending, CallerOK
<1>3. CASE Dispose
  BY <1>3, SettledKeeps DEF Dispose, CallerOK
<1>4. CASE HandleResponse
  <2> DEFINE message == Head(fromWorker)
             end == IF message.kind = "result" THEN Resolved(message.of) ELSE Rejected
  <2>1. /\ fromWorker # <<>> /\ Settled({message.token}, end)
        /\ UNCHANGED <<options, nextToken, disposed>>
    BY <1>4 DEF HandleResponse
  <2>2. message \in Responses
    BY <2>1, RangeTail DEF MessagesOK
  <2>3. \A t \in {message.token} : end \in {Rejected, Resolved(t)}
    BY <2>2, ResponseKinds
  <2> QED BY <2>1, <2>3, SettledKeeps DEF CallerOK
<1>5. CASE WorkerTakes
  <2>1. UNCHANGED caller
    BY <1>5 DEF WorkerTakes
  <2> QED BY <2>1 DEF caller, CallerOK, PendingIsOpen, Asked
<1>6. ASSUME NEW token \in Requests, FallbackSlice(token) PROVE CallerOK' /\ PendingIsOpen'
  <2>1. UNCHANGED <<options, nextToken, disposed>>
    BY <1>6 DEF FallbackSlice
  <2>2. CASE UNCHANGED <<pending, promise>>
    BY <2>1, <2>2 DEF CallerOK, PendingIsOpen, Asked
  <2>3. CASE \E end \in {Resolved(token), Rejected} : Settled({token}, end)
    BY <2>1, <2>3, SettledKeeps DEF CallerOK
  <2> QED BY <1>6, <2>2, <2>3 DEF FallbackSlice
<1>7. ASSUME NEW token \in Requests, WorkerContinues(token) PROVE CallerOK' /\ PendingIsOpen'
  <2>1. UNCHANGED caller
    BY <1>7 DEF WorkerContinues
  <2> QED BY <2>1 DEF caller, CallerOK, PendingIsOpen, Asked
<1>8. CASE UNCHANGED equityVars
  <2>1. UNCHANGED caller
    BY <1>8 DEF equityVars
  <2> QED BY <2>1 DEF caller, CallerOK, PendingIsOpen, Asked
<1> QED BY <1>1, <1>2, <1>3, <1>4, <1>5, <1>6, <1>7, <1>8 DEF EquityNext

(* Which tokens work goes on for, after it is begun, goes on or ends.      *)
LEMMA WorkMoves ==
  ASSUME EquityTypeOK, NEW token \in Asked
  PROVE  /\ Without(token) \in [DOMAIN work \ {token} -> [left : Nat, fresh : BOOLEAN]]
         /\ DOMAIN Without(token) = DOMAIN work \ {token}
         /\ \A t \in DOMAIN Without(token) : Without(token)[t] = work[t]
BY DEF Without, Restrict, EquityTypeOK, WorkOK

(* A slice of the worker touches no other token's work.                    *)
LEMMA SliceMoves ==
  ASSUME EquityTypeOK, NEW token \in Asked, NEW left \in Nat, RunSlice(token, left)
  PROVE  /\ work' \in [DOMAIN work' -> [left : Nat, fresh : BOOLEAN]]
         /\ DOMAIN work' \subseteq DOMAIN work \cup {token}
         /\ \A t \in DOMAIN work' : work'[t].fresh => t \in DOMAIN work /\ work'[t] = work[t]
         /\ \/ UNCHANGED fromWorker
            \/ \E response \in {Result(token), Error(token)} : Post(response)
<1>1. CASE /\ left > 1 /\ UNCHANGED fromWorker
           /\ work' = [t \in DOMAIN work \cup {token} |->
                         IF t = token THEN [left |-> left - 1, fresh |-> FALSE] ELSE work[t]]
  BY <1>1 DEF EquityTypeOK, WorkOK
<1>2. CASE work' = Without(token) /\ (Post(Result(token)) \/ Post(Error(token)))
  BY <1>2, WorkMoves
<1> QED BY <1>1, <1>2 DEF RunSlice

(* Who was asked for stays so; who was given up is not pending again.      *)
LEMMA GoneStays == EquityTypeOK /\ PendingIsOpen /\ [EquityNext]_equityVars => Asked \subseteq Asked' /\ Gone \subseteq Gone'
<1> SUFFICES ASSUME EquityTypeOK, PendingIsOpen, [EquityNext]_equityVars PROVE Asked \subseteq Asked' /\ Gone \subseteq Gone'
  OBVIOUS
<1> USE DEF EquityTypeOK
<1>1. CASE Ask
  <2>1. nextToken' = nextToken + 1 /\ pending' \subseteq pending \cup {nextToken}
    BY <1>1 DEF Ask
  <2> QED BY <2>1 DEF Asked, Gone, CallerOK, Requests
<1>2. CASE CancelPending
  BY <1>2 DEF Asked, Gone, Settled, CancelPending
<1>3. CASE Dispose
  BY <1>3 DEF Asked, Gone, Settled, Dispose
<1>4. CASE HandleResponse
  BY <1>4 DEF Asked, Gone, Settled, HandleResponse
<1>5. CASE WorkerTakes
  BY <1>5 DEF Asked, Gone, Settled, WorkerTakes, caller
<1>6. ASSUME NEW token \in Requests, FallbackSlice(token) PROVE Asked \subseteq Asked' /\ Gone \subseteq Gone'
  BY <1>6 DEF Asked, Gone, Settled, FallbackSlice
<1>7. ASSUME NEW token \in Requests, WorkerContinues(token) PROVE Asked \subseteq Asked' /\ Gone \subseteq Gone'
  BY <1>7 DEF Asked, Gone, Settled, WorkerContinues, caller
<1>8. CASE UNCHANGED equityVars
  BY <1>8 DEF Asked, Gone, Settled, equityVars, caller
<1> QED BY <1>1, <1>2, <1>3, <1>4, <1>5, <1>6, <1>7, <1>8 DEF EquityNext

(* What is sent and what is kept stays as it should be.                    *)
OrdersKept == toWorker' \in Seq(Orders) /\ \A order \in Range(toWorker') : OrderOK(order)'
ResponsesKept ==
  fromWorker' \in Seq(Responses) /\ \A response \in Range(fromWorker') : ResponseOK(response)'

(* What was sent before stays as it should be.                             *)
LEMMA OldOrders ==
  ASSUME GivenUp, Asked \subseteq Asked', Gone \subseteq Gone'
  PROVE  /\ \A order \in Range(toWorker) : OrderOK(order)'
         /\ \A response \in Range(fromWorker) : ResponseOK(response)'
         /\ cancelled \subseteq Gone'
BY DEF GivenUp, OrderOK, ResponseOK

(* A fitting reply may be posted.                                          *)
LEMMA PostKeeps ==
  ASSUME MessagesOK, GivenUp, Asked \subseteq Asked', Gone \subseteq Gone',
         NEW response \in Responses, ResponseOK(response)', Post(response)
  PROVE  ResponsesKept
<1>1. /\ fromWorker' \in Seq(Responses)
      /\ Range(fromWorker') = Range(fromWorker) \cup {response}
  BY RangeAppend DEF Post, MessagesOK
<1> QED BY <1>1, OldOrders DEF ResponsesKept

(* A cancel message for tokens that were given up may be sent.             *)
LEMMA SentKeeps ==
  ASSUME MessagesOK, GivenUp, Asked \subseteq Asked', Gone \subseteq Gone',
         NEW tokens \in SUBSET Requests, tokens \subseteq Gone',
         toWorker' = toWorker \o CancelMessages(tokens)
  PROVE  OrdersKept
<1>1. /\ toWorker' \in Seq(Orders)
      /\ Range(toWorker') \subseteq Range(toWorker) \cup Range(CancelMessages(tokens))
  BY RangeConcat, CancelMessagesOK DEF MessagesOK
<1>2. OrderOK(CancelMessage(tokens))'
  BY DEF OrderOK, CancelMessage
<1> QED BY <1>1, <1>2, OldOrders, CancelMessagesOK DEF OrdersKept

(* Taking a message, or losing all, leaves the rest as it was.             *)
LEMMA StillKept ==
  ASSUME MessagesOK, GivenUp, Asked \subseteq Asked', Gone \subseteq Gone'
  PROVE  /\ UNCHANGED toWorker => OrdersKept
         /\ UNCHANGED fromWorker => ResponsesKept
         /\ toWorker' = <<>> => OrdersKept
         /\ fromWorker' = <<>> => ResponsesKept
         /\ toWorker # <<>> /\ toWorker' = Tail(toWorker) => OrdersKept
         /\ fromWorker # <<>> /\ fromWorker' = Tail(fromWorker) => ResponsesKept
<1>1. UNCHANGED toWorker => OrdersKept
  BY OldOrders DEF OrdersKept, MessagesOK
<1>2. UNCHANGED fromWorker => ResponsesKept
  BY OldOrders DEF ResponsesKept, MessagesOK
<1>3. toWorker' = <<>> => OrdersKept
  BY EmptyOK DEF OrdersKept
<1>4. fromWorker' = <<>> => ResponsesKept
  BY EmptyOK DEF ResponsesKept
<1>5. toWorker # <<>> /\ toWorker' = Tail(toWorker) => OrdersKept
  BY OldOrders, RangeTail DEF OrdersKept, MessagesOK
<1>6. fromWorker # <<>> /\ fromWorker' = Tail(fromWorker) => ResponsesKept
  BY OldOrders, RangeTail DEF ResponsesKept, MessagesOK
<1> QED BY <1>1, <1>2, <1>3, <1>4, <1>5, <1>6

(* Messages keep their type, and a token somebody gave up stays given up.  *)
LEMMA LinksKept ==
  EquityTypeOK /\ PendingIsOpen /\ GivenUp /\ [EquityNext]_equityVars
    => OrdersKept /\ ResponsesKept /\ cancelled' \subseteq Gone'
<1> SUFFICES ASSUME EquityTypeOK, PendingIsOpen, GivenUp, [EquityNext]_equityVars
             PROVE  OrdersKept /\ ResponsesKept /\ cancelled' \subseteq Gone'
  OBVIOUS
<1> USE DEF EquityTypeOK
<1>0. Asked \subseteq Asked' /\ Gone \subseteq Gone'
  BY GoneStays
<1>1. CASE Ask
  <2>1. UNCHANGED <<fromWorker, cancelled>>
    BY <1>1 DEF Ask
  <2>2. CASE UNCHANGED toWorker
    BY <1>0, <2>1, <2>2, StillKept, OldOrders
  <2>3. CASE toWorker' = toWorker \o Append(CancelMessages(Superseded), Estimate(nextToken))
    <3> PICK token, tokens : token = nextToken /\ tokens = Superseded
      OBVIOUS
    <3>1. /\ token \in Requests /\ token \in Asked'
          /\ tokens \in SUBSET Requests /\ tokens \subseteq Gone'
      BY <1>1, BoundsAssumption DEF Ask, CallerOK, Requests, Asked, Gone, Superseded
    <3>2. Estimate(token) \in Orders /\ OrderOK(Estimate(token))'
      BY <3>1 DEF Estimate, Orders, OrderOK
    <3>3. OrderOK(CancelMessage(tokens))'
      BY <3>1 DEF OrderOK, CancelMessage
    <3> DEFINE sent == Append(CancelMessages(tokens), Estimate(token))
    <3>4. /\ sent \in Seq(Orders)
          /\ Range(sent) = Range(CancelMessages(tokens)) \cup {Estimate(token)}
      BY <3>1, <3>2, RangeAppend, CancelMessagesOK
    <3>5. \A order \in Range(sent) : order = CancelMessage(tokens) \/ order = Estimate(token)
      BY <3>1, <3>4, CancelMessagesOK
    <3>51. \A order \in Range(sent) : OrderOK(order)'
      BY <3>2, <3>3, <3>5
    <3>52. toWorker' = toWorker \o sent
      BY <2>3
    <3> HIDE DEF sent
    <3>53. toWorker \in Seq(Orders)
      BY DEF MessagesOK
    <3>54. /\ toWorker \o sent \in Seq(Orders)
           /\ Range(toWorker \o sent) \subseteq Range(toWorker) \cup Range(sent)
      BY <3>4, <3>53, RangeConcat
    <3>6. toWorker' \in Seq(Orders) /\ Range(toWorker') \subseteq Range(toWorker) \cup Range(sent)
      BY <3>52, <3>54
    <3>7. OrdersKept
      BY <1>0, <3>51, <3>6, OldOrders DEF OrdersKept
    <3> QED BY <1>0, <2>1, <3>7, StillKept, OldOrders
  <2> QED BY <1>1, <2>2, <2>3 DEF Ask
<1>2. CASE CancelPending
  <2>1. /\ UNCHANGED <<nextToken, fromWorker, cancelled>> /\ pending' = pending \ pending
        /\ UNCHANGED toWorker \/ toWorker' = toWorker \o CancelMessages(pending)
    BY <1>2 DEF CancelPending, Settled
  <2>2. pending \in SUBSET Requests /\ pending \subseteq Gone'
    BY <2>1 DEF CallerOK, Asked, Gone
  <2>3. OrdersKept
    BY <1>0, <2>1, <2>2, SentKeeps, StillKept
  <2> QED BY <1>0, <2>1, <2>3, StillKept, OldOrders
<1>3. CASE Dispose
  <2>1. \/ UNCHANGED <<toWorker, fromWorker, cancelled>>
        \/ toWorker' = <<>> /\ fromWorker' = <<>> /\ cancelled' = {}
    BY <1>3 DEF Dispose
  <2> QED BY <1>0, <2>1, StillKept, OldOrders
<1>4. CASE HandleResponse
  <2>1. fromWorker # <<>> /\ fromWorker' = Tail(fromWorker) /\ UNCHANGED <<toWorker, cancelled>>
    BY <1>4 DEF HandleResponse
  <2> QED BY <1>0, <2>1, StillKept, OldOrders
<1>5. CASE WorkerTakes
  <2> DEFINE order == Head(toWorker)
  <2>1. toWorker # <<>> /\ toWorker' = Tail(toWorker) /\ UNCHANGED caller
    BY <1>5 DEF WorkerTakes
  <2>2. OrdersKept /\ order \in Orders /\ OrderOK(order)
    BY <1>0, <2>1, StillKept, RangeTail DEF GivenUp, MessagesOK
  <2>3. Asked' = Asked /\ Gone' = Gone
    BY <2>1 DEF caller, Asked, Gone
  <2>4. CASE order.kind = "cancel"
    <3>1. cancelled' = cancelled \cup order.tokens /\ UNCHANGED fromWorker
      BY <1>5, <2>4 DEF WorkerTakes
    <3> QED BY <1>0, <2>2, <2>3, <2>4, <3>1, StillKept, OldOrders DEF OrderOK
  <2>5. CASE order.kind # "cancel"
    <3>1. order.token \in Asked /\ order.token \in Requests
      BY <2>2, <2>5 DEF OrderOK, Asked
    <3>2. CASE IsGivenUp(order.token) /\ Dropped(order.token)
      <4> PICK token \in Requests : token = order.token
        BY <3>1
      <4>1. Cancelled(token) \in Responses /\ ResponseOK(Cancelled(token))'
        BY <2>3, <3>1, <3>2 DEF Responses, ResponseOK, Cancelled, IsGivenUp, GivenUp
      <4> QED BY <1>0, <2>2, <3>2, <4>1, PostKeeps, OldOrders DEF Dropped
    <3>3. CASE UNCHANGED cancelled /\ \E slices \in Slices : RunSlice(order.token, slices)
      <4>1. \/ UNCHANGED fromWorker
            \/ \E response \in {Result(order.token), Error(order.token)} : Post(response)
        BY <3>1, <3>3, SliceMoves DEF Slices
      <4>2. \A response \in {Result(order.token), Error(order.token)} :
              response \in Responses /\ ResponseOK(response)'
        BY <2>3, <3>1 DEF Responses, ResponseOK, Result, Error
      <4> QED BY <1>0, <2>2, <3>3, <4>1, <4>2, PostKeeps, StillKept, OldOrders
    <3> QED BY <1>5, <2>5, <3>2, <3>3 DEF WorkerTakes
  <2> QED BY <2>4, <2>5
<1>6. ASSUME NEW token \in Requests, FallbackSlice(token) PROVE OrdersKept /\ ResponsesKept /\ cancelled' \subseteq Gone'
  <2>1. UNCHANGED <<toWorker, fromWorker, cancelled>>
    BY <1>6 DEF FallbackSlice
  <2> QED BY <1>0, <2>1, StillKept, OldOrders
<1>7. ASSUME NEW token \in Requests, WorkerContinues(token) PROVE OrdersKept /\ ResponsesKept /\ cancelled' \subseteq Gone'
  <2>1. UNCHANGED <<caller, toWorker>> /\ token \in Asked /\ token \in DOMAIN work
    BY <1>7 DEF WorkerContinues, WorkOK
  <2>2. Asked' = Asked /\ Gone' = Gone
    BY <2>1 DEF caller, Asked, Gone
  <2>3. CASE IsGivenUp(token) /\ Dropped(token)
    <3>1. Cancelled(token) \in Responses /\ ResponseOK(Cancelled(token))'
      BY <2>1, <2>2, <2>3 DEF Responses, ResponseOK, Cancelled, IsGivenUp, GivenUp
    <3> QED BY <1>0, <2>1, <2>3, <3>1, PostKeeps, StillKept, OldOrders DEF Dropped
  <2>4. CASE UNCHANGED cancelled /\ RunSlice(token, work[token].left)
    <3>1. \/ UNCHANGED fromWorker
          \/ \E response \in {Result(token), Error(token)} : Post(response)
      BY <2>1, <2>4, SliceMoves DEF WorkOK
    <3>2. \A response \in {Result(token), Error(token)} :
            response \in Responses /\ ResponseOK(response)'
      BY <2>1, <2>2 DEF Responses, ResponseOK, Result, Error
    <3> QED BY <1>0, <2>1, <2>4, <3>1, <3>2, PostKeeps, StillKept, OldOrders
  <2> QED BY <1>7, <2>3, <2>4 DEF WorkerContinues
<1>8. CASE UNCHANGED equityVars
  <2>1. UNCHANGED <<toWorker, fromWorker, cancelled>>
    BY <1>8 DEF equityVars
  <2> QED BY <1>0, <2>1, StillKept, OldOrders
<1> QED BY <1>1, <1>2, <1>3, <1>4, <1>5, <1>6, <1>7, <1>8 DEF EquityNext

-----------------------------------------------------------------------------
(* Work is for tokens asked for, and a token's waste does not grow unless  *)
(* it is given up with fresh work.                                         *)
StopsOK ==
  /\ work' \in [DOMAIN work' -> [left : Nat, fresh : BOOLEAN]] /\ DOMAIN work' \subseteq Asked'
  /\ wasted' \in [Requests -> Nat] /\ Stops'

(* A step that wastes nothing and starts nothing anew keeps the bound.     *)
LEMMA NoMoreWaste ==
  ASSUME EquityTypeOK, Stops, Asked \subseteq Asked', Gone \subseteq Gone', UNCHANGED wasted,
         work' \in [DOMAIN work' -> [left : Nat, fresh : BOOLEAN]], DOMAIN work' \subseteq Asked',
         \A t \in DOMAIN work' :
           work'[t].fresh => t \notin Asked \/ (t \in DOMAIN work /\ work'[t] = work[t])
  PROVE  StopsOK
BY DEF StopsOK, Stops, EquityTypeOK, WorkOK, Gone

(* At most one slice is wasted on a token.                                 *)
LEMMA StopsKept == EquityTypeOK /\ PendingIsOpen /\ GivenUp /\ Stops /\ [EquityNext]_equityVars => StopsOK
<1> SUFFICES ASSUME EquityTypeOK, PendingIsOpen, GivenUp, Stops, [EquityNext]_equityVars PROVE StopsOK
  OBVIOUS
<1> USE DEF EquityTypeOK
<1>0. Asked \subseteq Asked' /\ Gone \subseteq Gone'
  BY GoneStays
<1>1. CASE Ask
  <2>1. UNCHANGED wasted /\ nextToken \in Asked' /\ nextToken \notin Asked
    BY <1>1, BoundsAssumption DEF Ask, Asked, CallerOK, Requests
  <2>2. CASE UNCHANGED work
    BY <1>0, <2>1, <2>2, NoMoreWaste DEF WorkOK
  <2>3. CASE \E slices \in Slices : work' = Begun(nextToken, slices)
    <3>1. PICK slices \in Slices : work' = [t \in DOMAIN work \cup {nextToken} |->
            IF t = nextToken THEN [left |-> slices, fresh |-> TRUE] ELSE work[t]]
      BY <2>3 DEF Begun
    <3>2. slices \in Nat
      BY DEF Slices
    <3> QED BY <1>0, <2>1, <3>1, <3>2, NoMoreWaste DEF WorkOK
  <2> QED BY <1>1, <2>2, <2>3 DEF Ask
<1>2. CASE CancelPending
  <2>1. UNCHANGED <<work, wasted>>
    BY <1>2 DEF CancelPending
  <2> QED BY <1>0, <2>1, NoMoreWaste DEF WorkOK
<1>3. CASE Dispose
  <2>1. UNCHANGED wasted /\ (UNCHANGED work \/ work' = <<>>)
    BY <1>3 DEF Dispose
  <2>2. DOMAIN <<>> = {}
    OBVIOUS
  <2>3. work' = <<>> => work' \in [DOMAIN work' -> [left : Nat, fresh : BOOLEAN]] /\ DOMAIN work' = {}
    BY <2>2
  <2> QED BY <1>0, <2>1, <2>3, NoMoreWaste DEF WorkOK
<1>4. CASE HandleResponse
  <2>1. UNCHANGED <<work, wasted>>
    BY <1>4 DEF HandleResponse
  <2> QED BY <1>0, <2>1, NoMoreWaste DEF WorkOK
<1>5. CASE WorkerTakes
  <2> DEFINE order == Head(toWorker)
  <2>1. UNCHANGED wasted /\ toWorker # <<>>
    BY <1>5 DEF WorkerTakes
  <2>2. order \in Orders /\ OrderOK(order)
    BY <2>1, RangeTail DEF GivenUp, MessagesOK
  <2>3. CASE UNCHANGED work
    BY <1>0, <2>1, <2>3, NoMoreWaste DEF WorkOK
  <2>4. CASE order.kind # "cancel" /\ (work' = Without(order.token) \/ \E slices \in Slices : RunSlice(order.token, slices))
    <3>1. order.token \in Asked
      BY <2>2, <2>4 DEF OrderOK
    <3>2. CASE work' = Without(order.token)
      BY <1>0, <2>1, <3>1, <3>2, WorkMoves, NoMoreWaste DEF WorkOK
    <3>3. CASE \E slices \in Slices : RunSlice(order.token, slices)
      BY <1>0, <2>1, <3>1, <3>3, SliceMoves, NoMoreWaste DEF WorkOK, Slices
    <3> QED BY <2>4, <3>2, <3>3
  <2> QED BY <1>5, <2>3, <2>4 DEF WorkerTakes, Dropped
<1>6. ASSUME NEW token \in Requests, FallbackSlice(token) PROVE StopsOK
  <2>1. token \in DOMAIN work /\ token \in Asked
    BY <1>6 DEF FallbackSlice, WorkOK
  <2>2. /\ work' \in [DOMAIN work' -> [left : Nat, fresh : BOOLEAN]] /\ DOMAIN work' \subseteq DOMAIN work
        /\ \A t \in DOMAIN work' : work'[t].fresh => t # token /\ work'[t] = work[t]
    <3>1. CASE work' = Without(token)
      BY <2>1, <3>1, WorkMoves
    <3>2. CASE work[token].left > 1 /\ work' = OneSliceLess(token)
      BY <2>1, <3>2 DEF OneSliceLess, WorkOK
    <3> QED BY <1>6, <3>1, <3>2 DEF FallbackSlice
  <2>3. CASE UNCHANGED wasted
    BY <1>0, <2>2, <2>3, NoMoreWaste DEF WorkOK
  <2>4. CASE /\ work[token].fresh \/ ~IsCancelled(token)
             /\ wasted' = [wasted EXCEPT ![token] = IF token \in pending THEN @ ELSE @ + 1]
    <3>1. token \notin pending => work[token].fresh
      BY <2>4 DEF IsCancelled
    <3>2. \A t \in Requests : wasted'[t] = IF t = token /\ t \notin pending THEN wasted[t] + 1 ELSE wasted[t]
      BY <2>4 DEF WorkOK
    <3>3. token \notin pending => wasted[token] = 0 /\ token \in Gone
      BY <2>1, <3>1 DEF Stops, Gone, Asked
    <3>4. \A t \in Requests : t \notin Gone' => t \notin Gone
      BY <1>0
    <3>5. wasted' \in [Requests -> Nat]
      BY <2>4 DEF WorkOK
    <3>6. Stops'
      BY <2>2, <3>2, <3>3, <3>4 DEF Stops, WorkOK
    <3> QED BY <1>0, <2>2, <3>5, <3>6 DEF StopsOK, WorkOK
  <2> QED BY <1>6, <2>3, <2>4 DEF FallbackSlice
<1>7. ASSUME NEW token \in Requests, WorkerContinues(token) PROVE StopsOK
  <2>1. UNCHANGED wasted /\ token \in Asked /\ token \in DOMAIN work
    BY <1>7 DEF WorkerContinues, WorkOK
  <2>2. CASE work' = Without(token)
    BY <1>0, <2>1, <2>2, WorkMoves, NoMoreWaste DEF WorkOK
  <2>3. CASE RunSlice(token, work[token].left)
    BY <1>0, <2>1, <2>3, SliceMoves, NoMoreWaste DEF WorkOK
  <2> QED BY <1>7, <2>2, <2>3 DEF WorkerContinues, Dropped
<1>8. CASE UNCHANGED equityVars
  <2>1. UNCHANGED <<work, wasted>>
    BY <1>8 DEF equityVars
  <2> QED BY <1>0, <2>1, NoMoreWaste DEF WorkOK
<1> QED BY <1>1, <1>2, <1>3, <1>4, <1>5, <1>6, <1>7, <1>8 DEF EquityNext

-----------------------------------------------------------------------------
(* The initial states satisfy the invariant.                               *)
LEMMA EquityInitSound == EquityInit => EquityInv
<1> SUFFICES ASSUME EquityInit PROVE EquityInv
  OBVIOUS
<1>1. Asked = {} /\ nextToken \in 1..(MaxRequests + 1)
  BY BoundsAssumption DEF EquityInit, Asked, Requests
<1>2. CallerOK
  BY <1>1 DEF EquityInit, CallerOK, PromiseStates
<1>3. MessagesOK /\ Range(toWorker) = {} /\ Range(fromWorker) = {}
  BY EmptyOK DEF EquityInit, MessagesOK
<1>4. DOMAIN work = {}
  BY DEF EquityInit
<1>5. WorkOK
  BY <1>4 DEF EquityInit, WorkOK
<1>6. PendingIsOpen
  BY <1>1 DEF EquityInit, PendingIsOpen, NotAsked, Waiting
<1>7. GivenUp
  BY <1>3 DEF EquityInit, GivenUp
<1>8. Stops
  BY <1>4 DEF EquityInit, Stops
<1> QED BY <1>2, <1>3, <1>5, <1>6, <1>7, <1>8 DEF EquityInv, EquityTypeOK

(* Every step keeps the invariant.                                         *)
LEMMA NextIInv == EquityInv /\ [EquityNext]_equityVars => EquityInv'
<1> SUFFICES ASSUME EquityTypeOK, PendingIsOpen, GivenUp, Stops, [EquityNext]_equityVars PROVE EquityInv'
  BY DEF EquityInv
<1>1. CallerOK' /\ PendingIsOpen'
  BY CallerKept
<1>2. OrdersKept /\ ResponsesKept /\ cancelled' \subseteq Gone'
  BY LinksKept
<1>3. StopsOK
  BY StopsKept
<1>4. Gone' \subseteq Requests
  BY DEF Gone, Asked
<1>5. MessagesOK' /\ GivenUp'
  BY <1>2 DEF OrdersKept, ResponsesKept, MessagesOK, GivenUp
<1>6. WorkOK' /\ Stops'
  BY <1>2, <1>3, <1>4 DEF StopsOK, WorkOK
<1> QED BY <1>1, <1>5, <1>6 DEF EquityInv, EquityTypeOK

(* The invariant holds of every behaviour.                                 *)
THEOREM ServiceInvariant == EquitySpec => []EquityInv
<1>1. EquityInit => EquityInv
  BY EquityInitSound
<1>2. EquityInv /\ [EquityNext]_equityVars => EquityInv'
  BY NextIInv
<1> QED BY <1>1, <1>2, PTL DEF EquitySpec

(* Work is dropped only when nobody waits for it (run in                   *)
(* rationalEquityProtocol.ts).                                             *)
THEOREM DropsOnlyGivenUp == EquitySpec => []OnlyGivenUpWorkIsDropped
<1>1. EquityInv => OnlyGivenUpWorkIsDropped
  BY DEF EquityInv, GivenUp, ResponseOK, Gone, OnlyGivenUpWorkIsDropped, Range
<1> QED BY <1>1, ServiceInvariant, PTL

(* An unwanted decision costs the renderer one slice at most (isCancelled  *)
(* of rationalEquityService.ts).                                           *)
THEOREM WasteIsBounded == EquitySpec => []StopsAtASlice
<1>1. EquityInv => StopsAtASlice
  BY DEF EquityInv, Stops, StopsAtASlice
<1> QED BY <1>1, ServiceInvariant, PTL

-----------------------------------------------------------------------------
(* What a promise is to the caller.                                        *)
Fates == [token \in Requests |-> Fate(token)]

(* The fate a promise stands for.                                          *)
LEMMA FateIs ==
  ASSUME NEW t \in Requests
  PROVE  /\ promise[t] = NotAsked => Fates[t] = "unasked"
         /\ promise[t] = Waiting => Fates[t] = "open"
         /\ promise[t] = Rejected => Fates[t] = "refused"
         /\ promise[t] = Resolved(t) => Fates[t] = "answered"
BY DEF Fates, Fate, NotAsked, Waiting, Rejected, Resolved

(* The fate a promise stands for after a step.                             *)
LEMMA FateBecomes ==
  ASSUME NEW t \in Requests
  PROVE  /\ promise'[t] = Waiting => Fates'[t] = "open"
         /\ promise'[t] = Rejected => Fates'[t] = "refused"
         /\ promise'[t] = Resolved(t) => Fates'[t] = "answered"
         /\ promise'[t] = promise[t] => Fates'[t] = Fates[t]
BY DEF Fates, Fate, NotAsked, Waiting, Rejected, Resolved

(* What is open is what is pending; what was not asked has no fate yet.    *)
LEMMA FatesAre ==
  ASSUME PendingIsOpen
  PROVE  /\ \A t \in Requests : Fates[t] = "open" <=> t \in pending
         /\ \A t \in Requests \ Asked : Fates[t] = "unasked"
BY FateIs DEF PendingIsOpen

(* Settling a token settles its promise, or finds it settled.              *)
LEMMA SettledRefines ==
  ASSUME EquityInv, NEW token \in Requests, NEW end \in {Rejected, Resolved(token)},
         Settled({token}, end), UNCHANGED <<options, disposed>>
  PROVE  [Promises!Next]_(Promises!vars)
<1>1. \A t \in Requests : promise'[t] = IF t = token /\ t \in pending THEN end ELSE promise[t]
  BY DEF Settled
<1>2. CASE token \notin pending
  <2>1. Fates' = Fates
    BY <1>1, <1>2, FateBecomes DEF Fates
  <2> QED BY <2>1 DEF Promises!vars, Fates
<1>3. CASE token \in pending
  <2>1. PICK word \in {"answered", "refused"} : Fates'[token] = word
    BY <1>1, <1>3, FateBecomes
  <2>2. \A t \in Requests \ {token} : Fates'[t] = Fates[t]
    BY <1>1, FateBecomes
  <2>3. Fates' = [Fates EXCEPT ![token] = word]
    BY <2>1, <2>2 DEF Fates
  <2>4. Fates[token] = "open"
    BY <1>3, FatesAre DEF EquityInv
  <2>5. Promises!Settle(token)
    BY <2>3, <2>4 DEF Promises!Settle, Promises!Open, Fates
  <2> QED BY <2>5 DEF Promises!Next
<1> QED BY <1>2, <1>3

(* Rejecting all that is pending refuses all that is open.                 *)
LEMMA RefusedAll ==
  ASSUME EquityInv, Settled(pending, Rejected) PROVE Fates' = Promises!Refused
<1>1. \A t \in Requests : promise'[t] = IF t \in pending THEN Rejected ELSE promise[t]
  BY DEF Settled
<1>2. \A t \in Requests : Fates'[t] = IF Fates[t] = "open" THEN "refused" ELSE Fates[t]
  BY <1>1, FateBecomes, FatesAre DEF EquityInv
<1> QED BY <1>2 DEF Promises!Refused, Promises!Open, Fates

(* A step that touches no promise is a stutter of the abstract service.    *)
LEMMA SamePromises ==
  ASSUME UNCHANGED <<options, disposed, promise>> PROVE [Promises!Next]_(Promises!vars)
<1>1. Fates' = Fates
  BY DEF Fates, Fate
<1> QED BY <1>1 DEF Promises!vars, Fates

(* Every step is a step of EquityPromises or leaves it where it was.       *)
LEMMA StepRefines == EquityInv /\ [EquityNext]_equityVars => [Promises!Next]_(Promises!vars)
<1> SUFFICES ASSUME EquityInv, [EquityNext]_equityVars PROVE [Promises!Next]_(Promises!vars)
  OBVIOUS
<1> USE DEF EquityTypeOK
<1>1. CASE Ask
  <2> PICK token : token = nextToken
    OBVIOUS
  <2>1. /\ ~disposed /\ token \in Requests /\ token \notin Asked
        /\ \A t \in Requests : promise'[t] = IF t = token THEN Waiting
                                    ELSE IF t \in Superseded THEN Rejected ELSE promise[t]
        /\ UNCHANGED <<options, disposed>>
    BY <1>1, BoundsAssumption DEF Ask, EquityInv, CallerOK, Requests, Asked
  <2>2. Fates[token] = "unasked"
    BY <2>1, FatesAre DEF EquityInv
  <2>3. \A t \in Requests \ {token} :
          Fates'[t] = IF options.supersedePending /\ Fates[t] = "open" THEN "refused" ELSE Fates[t]
    BY <2>1, FateBecomes, FatesAre DEF EquityInv, Superseded
  <2>4. Fates'[token] = "open"
    BY <2>1, FateBecomes
  <2>5. Fates' = [IF options.supersedePending THEN Promises!Refused ELSE Fates EXCEPT ![token] = "open"]
    BY <2>3, <2>4 DEF Promises!Refused, Promises!Open, Fates
  <2>6. Promises!Ask(token)
    BY <2>1, <2>2, <2>5 DEF Promises!Ask, Fates
  <2> QED BY <2>1, <2>6 DEF Promises!Next
<1>2. CASE CancelPending
  <2>1. Fates' = Promises!Refused /\ UNCHANGED <<options, disposed>>
    BY <1>2, RefusedAll DEF CancelPending
  <2>2. Promises!Cancel
    BY <2>1 DEF Promises!Cancel, Fates
  <2> QED BY <2>2 DEF Promises!Next
<1>3. CASE Dispose
  <2>1. ~disposed /\ disposed' = TRUE /\ Fates' = Promises!Refused /\ UNCHANGED options
    BY <1>3, RefusedAll DEF Dispose
  <2>2. Promises!Dispose
    BY <2>1 DEF Promises!Dispose, Fates
  <2> QED BY <2>2 DEF Promises!Next
<1>4. CASE HandleResponse
  <2> DEFINE message == Head(fromWorker)
  <2>1. fromWorker # <<>> /\ UNCHANGED <<options, disposed>>
    BY <1>4 DEF HandleResponse
  <2>2. message \in Responses
    BY <2>1, RangeTail DEF EquityInv, MessagesOK
  <2> PICK token, end : /\ token = message.token
                        /\ end = IF message.kind = "result" THEN Resolved(message.of) ELSE Rejected
    OBVIOUS
  <2>3. token \in Requests /\ end \in {Rejected, Resolved(token)}
    BY <2>2, ResponseKinds
  <2>4. Settled({token}, end)
    BY <1>4 DEF HandleResponse, Settled
  <2> QED BY <2>1, <2>3, <2>4, SettledRefines
<1>5. CASE WorkerTakes
  BY <1>5, SamePromises DEF WorkerTakes, caller
<1>6. ASSUME NEW token \in Requests, FallbackSlice(token) PROVE [Promises!Next]_(Promises!vars)
  <2>1. UNCHANGED <<options, disposed>>
    BY <1>6 DEF FallbackSlice
  <2>2. CASE UNCHANGED <<pending, promise>>
    BY <2>1, <2>2, SamePromises
  <2>3. CASE \E end \in {Resolved(token), Rejected} : Settled({token}, end)
    BY <2>1, <2>3, SettledRefines
  <2> QED BY <1>6, <2>2, <2>3 DEF FallbackSlice
<1>7. ASSUME NEW token \in Requests, WorkerContinues(token) PROVE [Promises!Next]_(Promises!vars)
  BY <1>7, SamePromises DEF WorkerContinues, caller
<1>8. CASE UNCHANGED equityVars
  BY <1>8, SamePromises DEF equityVars, caller
<1> QED BY <1>1, <1>2, <1>3, <1>4, <1>5, <1>6, <1>7, <1>8 DEF EquityNext

(* The initial states are initial states of EquityPromises.                *)
LEMMA InitRefines == EquityInit => Promises!Init
<1> SUFFICES ASSUME EquityInit PROVE Promises!Init
  OBVIOUS
<1>1. Fates = [t \in Requests |-> "unasked"]
  BY FateIs DEF EquityInit, Fates
<1> QED BY <1>1 DEF EquityInit, Promises!Init, Fates

(* The service, with a worker or without, implements its promises: a       *)
(* request is answered with its own estimate or refused, once (its safety; *)
(* that it is settled in the end is for TLC).                              *)
THEOREM ServiceImplementsPromises == EquitySpec => Promises!Safe
<1>1. EquityInit => Promises!Init
  BY InitRefines
<1>2. EquityInv /\ [EquityNext]_equityVars => [Promises!Next]_(Promises!vars)
  BY StepRefines
<1> QED BY <1>1, <1>2, ServiceInvariant, PTL DEF EquitySpec, Promises!Safe
=============================================================================
