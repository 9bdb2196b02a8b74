# Poker Training Pro: a verification project

TLA+ models of the poker tournament engine and of the desktop program around
it, checked with TLC on small instances; the theorems of the
`...Proofs` modules are proved with TLAPS for every value of the constants.
`PROJECT.json` maps every definition to the lines it stands for, lists the
runs, the mutants that show each property can fail, the findings and the
hazards.  Paths below are relative to the repository's root.

## 1. The system

The program is an offline poker trainer: a TypeScript engine and React renderer
inside an Electron shell.  What carries its logic:

| component | where | state | operations |
|---|---|---|---|
| betting round | `src/engine/betting.ts` | `BettingRoundState`, immutable | `createBettingRound`, `getLegalActions`, `applyBettingAction` |
| hand evaluation | `src/engine/evaluator.ts` | none: pure | `evaluateFive`, `evaluateBestHand`, comparison |
| pots | `src/engine/pots.ts` | none: pure | `buildPots`, `buildLivePots`, `resolvePots` |
| tournament | `src/engine/tournament.ts` | players, places, tables, level | `createTournament`, `recordEliminations`, `advanceTournamentClock`, table balancing |
| chips | `src/engine/chips.ts` | physical ledger: racks, bets, collected, pots | transfers, collection |
| session | `src/modes/tournamentSession.ts` | tournament + active hand + ledger | begin hand, act, progress, settle, advance clock |
| runner, timed blinds | `src/modes/tournamentRunner.ts`, `timedBlindDirector.ts` | session, replay, timed config | one step at a time; directed blinds |
| live table | `src/App.tsx`, `src/components/PokerTable.tsx` | runner, the step being presented, the awaited decision, pause | start, present, skip, act, pause, leave, continue |
| equity service | `src/modes/rationalEquityService.ts`, `rationalEquityProtocol.ts`, `src/workers/equityWorker.ts` | pending tokens, the worker's cancelled ones | estimate, supersede, cancel, dispose; run in slices |
| pauses and clocks | `src/lib/lifecyclePause.ts`, `freezableDelay.ts`, `tournamentDecisionClock.ts`, `tournamentPresentationClock.ts` | reasons, remaining time | freeze, resume, drain |
| audio focus | `src/lib/audioFocusPolicy.ts`, `desktopAudioFocus.ts` | activation, blockers, readiness | focus, visibility, suspend, gesture |
| save store | `electron/save-store.cjs` | three generation files, archives | commit, probe, restore, start fresh |
| durable persistence | `src/lib/durablePersistence.ts`, `src/App.tsx` | pending commit, startup screen, progress in memory | load, commit, retry, import, restore |
| save transfer | `electron/save-transfer.cjs`, `src/components/SaveDataControls.tsx` | single-use tokens, the preview shown | preview, confirm import and reset |
| crash loop | `electron/crash-loop.cjs` | the marker file | constructor, renderer failure, healthy, normal quit |
| desktop lifecycle | `electron/main.cjs`, `src/lib/desktopLifecycle.ts` | window, quit flags, close handshake | close, quit, session end, recovery dialog |
| blackjack table | `src/components/BlackjackTrainer.tsx`, `src/blackjack/engine.ts` | shoe, count, the round's hands | deal, hit, stand, double, split, surrender, checkpoint |

How they interact.  The runner calls the session with one action at a time; the
session calls betting, pots, tournament and chips synchronously and throws if
their books disagree.  The live table asks the runner for one step, presents its
events, and only then commits it; an opponent's decision may have to wait for the
equity service.  The renderer sends every accepted boundary over IPC to
the main process, which writes files synchronously and replies with a receipt.
The main process asks the renderer before closing and broadcasts lifecycle
events to it; the renderer answers with a save of its own.  The crash-loop
marker and the save files outlive the process.

What is hard.  In the engine, long sequences of legal actions (short all-ins,
uneven contributions, players busting, blinds rising mid-hand) which a later
function throws on.  In the shell, crashes between files, failing writes,
answers that race a timeout, and flags set on several paths to the same exit.
Opponent decisions and equity estimates are asynchronous and may come late: while
one is awaited, or a step presented, the player pauses, skips, leaves or starts
another table; the window goes away for several reasons at once, and comes back
from them one by one.  A save is written, imported or reset while another commit
is on its way.

What must hold, by component:

* betting: chips conserved; nobody loses a turn or is asked twice; raises have
  legal sizes and reopen only when they should; a closed round is matched; it ends;
* hand evaluation: the best five of seven cards are what the rules give all seven;
* pots: layers, refunds and eligibility as the rules define them, all chips paid,
  odd chips clockwise;
* placing: later busts finish ahead, deeper stacks finish ahead, ties tie, one winner;
* session: numbers and physical chips agree, settlement never throws, table
  stakes, every hand ends; at the deadline of a timed table nobody but the leader
  can stay out of an all-in;
* live table: a decision is for the table it was asked for; an accepted step is
  saved at once; a pause stops everything and nothing is stuck after it; paused
  time does not count;
* equity service: a request is answered with its own estimate or refused, once, and
  in the end; work that is waited for is never dropped, work that is not stops soon;
* save: an acknowledged save survives what one failure can do; nobody is taken
  for a new player; recovery displaces nothing it does not archive; an import or
  reset writes what was confirmed; what nobody is still trying to save is saved;
* pacing: a delay completes once, for its own event and never early; a decision
  is charged the time in play; nothing stays frozen; no sound while away;
* lifecycle: repeated failures select safe mode, a recorded quit does not count,
  the window can always be closed;
* blackjack: the count is that of the cards shown; only an open hand is played.

## 2. Modules

| module | models | state and actions |
|---|---|---|
| `Betting` | betting.ts | `round` is the `BettingRoundState`, one action per betting action; `pending` is kept as a set with the seat clockwise order starts from |
| `BettingProofs` | | theorems about `Betting` |
| `Pots` | pots.ts | operators `BuildPots`, `LivePots`, `Awards`; a two-step machine takes a ledger through building and resolving; `Layered` and `ReferenceRefund` say what the pots and refunds are without a loop |
| `Showdown` | evaluator.ts | operators `EvaluateFive`, `EvaluateBestHand`; one step evaluates the cards dealt; `RuleBookValue` says what the rules give all the cards without picking five |
| `Placings` | `recordEliminations` | one `Record` step per batch of eliminations |
| `HandEnd` | the end of a hand | `Showdown`, `Pots` and `Placings` side by side: they share no state, so a behaviour is one of the three |
| `HandEndProofs` | | theorems about `Placings`, `Pots` and the sums they take, and `Showdown` |
| `Freezeout` | abstract | what a freeze-out promises: a hand moves chips, at most one's own stake from each opponent; places |
| `Session` | tournamentSession.ts, chips.ts | composes `Betting`, `Pots` and `Placings` by INSTANCE; implements `Freezeout` with `wealth` = the stacks the hand started with |
| `SessionProofs` | | theorems about `Session`, over those of `BettingProofs` and `HandEndProofs` |
| `Pacing` | freezableDelay.ts, lifecyclePause.ts, tournamentDecisionClock.ts, audioFocusPolicy.ts and their use by RoomFlythrough.tsx and PokerTable.tsx | `delays` that may still complete, `coordinator`, `blindClock`, `policy`; what effects saw last is `shown`, so that a handler and the effects of the render it causes are two steps |
| `SaveTransfer` | save-transfer.cjs, SaveDataControls.tsx, commits of durablePersistence.ts | two processes with a queue each way: `requests`, `replies`; `pending` is `pendingCommit`, `tokens` those not used yet |
| `SaveTransferProofs` | | theorems about `SaveTransfer` |
| `BlackjackTable` | BlackjackTrainer.tsx, blackjack/engine.ts | `table` is the `TablesState`; an operation that draws yields the set of tables it may lead to; the loop of `finishDealer` is sixteen draws, more than it ever makes |
| `BlackjackProofs` | | theorems about `BlackjackTable`, over the sums of `HandEndProofs` |
| `EquityPromises` | abstract | what a caller of the equity service may rely on |
| `EquityService` | rationalEquityService.ts, rationalEquityProtocol.ts, equityWorker.ts | `pending` and `promise` of the renderer, a queue each way, `work` and `cancelled` of the worker; without a worker `work` is the fallback's, on the same thread; implements `EquityPromises`; its specification is `EquitySpec` |
| `TournamentTable` | the table of App.tsx, rationalEquityService.ts | `runner`, `pendingPresentation` (the step presented), `call` (the awaited step), `jobs` (equity work); handlers, effects and continuations are the actions |
| `LiveTableProofs` | | theorems about `TournamentTable` and `EquityService`, which computes what its opponents decide by |
| `AppLifecycle` | crash-loop.cjs, main.cjs, desktopLifecycle.ts | launch to exit, any number of times; the marker survives; its specification is `DesktopSpec` |
| `LifecycleProofs` | | theorems about `Pacing` and `AppLifecycle`, what surrounds a game inside the window and outside |
| `SaveStore` | save-store.cjs, durablePersistence.ts, startup of App.tsx | `disk`, `archive`, the screen; a request is a plan of file steps, each an action, so the process can die between any two |
| `SaveStoreProofs` | | theorems about `SaveStore` |
| `MC...` | | constants of the runs |

Operators and actions keep the names of the functions they translate.  An
operator named `X_Y` next to `X` is a faulty variant of `X`, used as a mutant
of it only: no specification mentions it.

### Abstractions

* A session's player is his seat.  In `Pots` and `Session` a showdown is *any*
  ranking of the players, and an opponent takes *any* legal action: cards and
  policies are nondeterminism.  In `Showdown` a card is its rank and suit, and a
  hand is dealt from a small deck in any way; a value is the category and tiebreak
  the code compares, without its name or cards.
* Chips are integers in multiples of the smallest chip; denominations are left
  out, their value is not (`chips` in `Session` is moved by transfers of its
  own, and `LedgerSettles` compares it with the numbers).
* In `Session` a player out of the tournament is in the round as folded and
  without chips; every operator of `Betting` ignores such a player.
* A save is a number, how far the game has got.  The content, its validation
  and migration are one notion, *valid*.  Replacing a file is atomic
  (temporary file, fsync, rename).  The last file of a request and its reply
  are one step, and so are a launch and its probe.
* A runner in `TournamentTable` is which table it is, how many steps were made,
  whose turn it is and when a timed table started; what a step does is in
  `Session`.  Every step has one to three events, as many as skipping can tell
  apart.  A checkpoint is the table and the step; the bank of one checkpoint per
  mode is one slot.  React's effects run some time after the handler that caused
  them, so a continuation may come in between.  Equity requests are answered,
  fail or are cancelled: a worker that dies in silence is left out (the code
  listens for no error, and such a table waits until the player pauses it).
* Time in `AppLifecycle` is three timeouts; a day passing is an action.  The
  marker is always written.  On macOS closing the window does not quit: only
  the Windows and Linux path is modelled.
* The timed director in `Session` is any path through its four phases and, before
  the deadline, any big blind between the last one and the factor the phase
  allows; the target of the deadline is exact.  What the phase is derived from
  (elapsed time and tables left) is left out.
* `Pacing` has whole units of time and one event per delay.  Everything that
  pauses a table goes through `requestPause`; the room's intermediate phases are
  delays like the last and are left out, and so is skipping a presentation, which
  is in `TournamentTable`.  The window's events come one at a time,
  each as one change of its state.
* `SaveTransfer` takes the three files as one register and a write as succeeding,
  failing before or failing after the save is in place; a token is the number of
  its operation, and a file is known to have changed by a version.
* An estimate in `EquityService` is known by the request it is of and takes any number
  of slices up to a bound.  The cancel messages of one call are one message.  The first
  slice of the fallback may come after other tasks, not only right after its request.
* In `BlackjackTable` a card is its rank, the order of the shoe is chosen as it is
  drawn, and a step that needs a card that is not there is no step (the code throws).

## 3. Runs

| run | bounds | shows |
|---|---|---|
| `betting` | 4 players, stacks 2..10 in steps of the smallest chip, blinds 2/4, pre- and post-flop, one folded | everything about a round, termination included |
| `hand_end` | pots: 4 players on 6 seats, 0..3 chips each, every mix of folded and all-in, ranks 1..3; places: 5 players, every player list that ends with the last id, stacks 1..2, two hands per batch; hands: 5 to 7 of 15 cards | pots and best hands equal their references, nothing lost, places follow the play |
| `session` | 3 seats, 4 chips each, two blind levels, 2 streets after the first, timed | whole tournaments |
| `tournament_table` | 2 tables, rational or timed, 3 steps, 2 equity jobs, clock 0..2 | the table's concurrency and its clock |
| `equity_service` | 4 requests, up to 3 slices each | requests, cancellations, late answers, disposal |
| `pacing` | 3 reasons to be away, 2 events, 2 speeds, 1 render anew, clock 0..5, cap of a decision 3 | delays, pauses, decision time, sound |
| `app_lifecycle` | threshold 3, counter capped at 5 | marker and close handshake |
| `save_store` | saves 0..3, one damaged file | the save files |
| `save_transfer` | 2 commits, 3 operations, 1 edit of the file, 2 requests under way | imports, resets and overlapping commits |
| `blackjack` | ranks 6, 10 and ace, 4 of each, cut at 4, 3 hands | whole shoes |
| `save_recovery_quit`, `close_asks` | as `save_store`; one commit, no operation | the two findings |

Why the bounds are enough.  Four players are the fewest with two side pots and
a caller behind a short all-in; stacks from half a big blind to two and a half
give short blinds, short all-ins that do and do not reopen the raising, and
full re-raises.  Six seats with gaps make clockwise order wrap.  Three seats go
through both kinds of blinds (three-handed, heads-up), eliminations of two at
once and a raised level in mid-hand; two later streets show a street followed
by another and a last one, the third being the same step again.  The run takes
`FullField = TRUE`, where a session plays on to one winner; `FALSE` only ends it
earlier, when the hero is out.  Five players make a batch of three with two
others still in or out, and four of them come in every order; any order is the theorem's.  The fifteen cards are 2 to 7 and the ace in one suit, so that the wheel, the
straights above it and their straight flushes meet, and 3, 5, 6 and ace in others, for
pairs, two threes, full houses, four aces and flushes of six and seven.  Two tables are what a late
answer or a forgotten presentation needs to reach the wrong one; three steps
give an opening, a decision and one more to lose; two jobs, one that
was cancelled and still works beside the one asked for now.  A clock of 0..2 has a
pause that lasts and time in play on both sides of it.  The counter's cap of 20 is 5, above the threshold as
in the code.  Saves 0..3 tell the acknowledged save, the one before it and two
requested since apart; one damaged file is what two redundant generations are
for.  Blurred, hidden and minimized are the reasons that pause only the room,
the table too, and two that are one to the sound; two events give one whose delay
gives way to the next, and five units of time an event at the slow speed with a
pause in it and a decision after it.  Four requests are one superseded, one cancelled, one that is answered and one asked
beside them; three slices are a first one, one that may be wasted and one that must
not be.  Two commits are one in flight and a newer
one; three operations a preview, another preview or its confirmation, and a
second use of the controls.  Sixes, tens and aces move the count both ways
(a rank that leaves it alone shows nothing) and give pairs to split and split
again, soft and hard totals, busts and naturals.

Deadlock is checked except where the system really stops: `hand_end`
when the ledger is paid out, the tournament decided or the hand evaluated, `pacing` at the end of
its clock, `equity_service` when its requests are used up, `save_transfer` and `close_asks` with the window closed, `blackjack`
when a shoe runs out in the middle of a round and the code throws.

Fairness.  `Betting`: weak fairness of `Next`, as the runner always asks the
player whose turn it is; every action shrinks what is owed or raises a bounded
bet.  `Session`: weak fairness of `HandStep` for the same reason, written out
with its ENABLED (a hand in play always has a step), not of `BeginHand` or the
clock.  `TournamentTable`: effects run, continuations run, equity work ends and the delay
of an event runs out unless the table is paused; nothing is assumed of the player.
`Pacing`: time passes, a timer that is due fires, and a render runs its effects;
nothing is assumed of the player or the window, and since the clock is bounded
liveness is claimed only where there is time left (`TimeFor`).
`EquityService`: both event loops serve their messages and timers; nothing is
assumed of the caller.  `AppLifecycle`: the close request's timer fires, and a window told to
close closes; nothing is assumed of the renderer or the player.  `SaveStore`,
`SaveTransfer` and `BlackjackTable` need none.

### What disagrees

Two runs expect a violation; each is a finding with its quotation in `PROJECT.json`.

* `save_recovery_quit`: leaving the recovery screen commits defaults, although
  "Cancel/Quit ... leaves all save bytes unchanged".  `ReceiptIsDurable` holds all
  the same: such a commit is acknowledged like any other, which is the trouble with it.
* `close_asks`: the close handshake starts a commit and reports in the same breath
  that one is pending, so the player may be asked about unsaved progress when
  everything is saved.

The clock of a timed table disagrees with its document too.  "Only active seated time
advances the deadline. Loading, fly-through, pause, blur, minimize, suspend, and resume
recap time do not count" (`docs/desktop-game-state-machine.md:292`), and yet:

* loading and fly-through count: the start of the clock is the moment the runner is
  created (`src/App.tsx:938`, `src/modes/tournamentRunner.ts:261`), before both, and
  nothing moves it when the player sits down;
* a pause that ends while a step is presented counts: it is taken off the runner on the
  table, and the step's runner, computed before the pause, brings the old start back when
  it is committed (`src/App.tsx:1216`, `:1051`);
* blur and the time of the recap count: neither pauses the table
  (`src/components/PokerTable.tsx:2395`, `:5058`), so both are time played in the model too.

`ClockAccounts` says what holds instead, with no table and no pause left out: at every
review of the blinds the clock is the time played and the first two, exactly.  What was
spent on what is in a history variable (`spent`) that no action reads.  TLC refutes the
document's sentence in eight states (`BlindsReviewed => Elapsed <= spent.seated`: start a
timed table, wait while it loads, sit down, skip to the end of the hand), and for
pauses alone in ten (`Elapsed <= spent.seated + spent.arriving`: pause and resume over
the opening step).

Other behaviour a maintainer should know of, visible in the models:

* Three equal stacks busting in one hand may be placed 2, 3, 2 (`Placings`,
  `PlacesInHand`): `recordEliminations` finds the first *other* record with the same
  stack, placed or not.  `PlacesFollowPlay` promises that deeper stacks finish
  ahead and that two equal ones tie.
* `createTournament` accepts levels whose small blind exceeds the big blind (it checks
  against the smallest chip only).  With one, a hand may end with chips that two players
  paid and nobody left in the hand can win, at which `buildPots` throws: three players
  and the levels 1/1 and 3/2 are enough.  `MAIN_EVENT_BLINDS` and the timed director
  never produce such a level; `BlindsAssumption` says so, and the proofs use it
  (`LevelsAreGood`).
* Leaving a paused table leaves `tournamentPausedAtRef` set, and the next table's first
  effect moves the start of its runner by all the time since (`src/App.tsx:1216`).  It
  does no harm only because the opening step is still being presented then, and its
  commit brings the right start back: the mechanism that keeps a pause over a step on the clock.
* Closing the window, and the end of the system's session, record no normal quit:
  the next launch counts a startup failure (`electron/main.cjs:266`, `:691`).
  A quit through the menu does not, except that the healthy-session timer may
  still fire and leave one (`QuitNeverEscalates`).
* Restoring `previous` replaces a newer, valid `last-known-good` without archiving it.
* `requestPause` overwrites the reason of a pause that goes on: the first reason
  stays in the coordinator, no recap follows, and a later one tells a longer
  absence (`PauseFor`, `PauseEffect`).
* Any one event of coming back resumes the room, whatever other reason lasts; a
  table mounted while the window is hidden starts unpaused; a lost focus neither
  pauses nor silences the table, although `PokerTable.tsx:2407` says that sound
  ducks on blur; each render of App during the fly-through starts it anew.
* An import or a reset leaves `pendingCommit` as it is, so a commit that failed
  before may be retried over what was imported; a commit sent between the
  confirmation and the reload overwrites it too; two retries of one commit may
  leave a failure screen with nothing to retry; an import or reset may report a
  failure with the new save in place.  `NothingPendingIsSaved` excludes exactly
  the histories in which a commit and an import or reset crossed (`crossed`).
* A cancellation that arrives at the worker after its work has ended stays in the
  worker's set as long as the worker lives (`WorkerTakes`); numbers are never used
  again, so no work is dropped by it.
* The level clock may take the blinds of a timed table down, to the printed ones
  of a later level, until the next hand.
* A split hand of 21 may still be hit, and `drawExposed` throws when the shoe runs
  out; with six decks and a cut of 52 cards the rules make this unlikely rather
  than impossible.

## 4. Proofs

`BettingProofs`, for every finite set of players, chip size and set of valid
entries (`PlayersAssumption`, `ChipAssumption`, `EntriesAssumption`).  The
invariants of the run are not inductive by themselves: that an open round has
somebody to act needs the pending list to be exactly what `recomputePending`
computes, which needs statuses to agree with stacks.  `IInv` is `ValidEntry`,
`RoundInv` (the record's shape, `Ledger`: statuses against stacks and
contributions, `Settled`: pending and the completion flags are the function of
the rest that `recomputePending` computes, `Unopened`: before the first wager
the minimum raise is the minimum bet) and that every player's stack plus
contribution is what it was at the entry, from which conservation follows
without induction over sums.  Every betting action is one of two operators,
committing or folding (`ActIsCommit`), and each keeps `RoundInv` (`CommitKeeps`,
`FoldKeeps`).  `NextToAct` is a CHOOSE of a nearest player: `NextIsPending` uses
that an integer-valued function on a finite set has a greatest value, by
well-founded induction (`FiniteArgMax`).  That nobody loses his turn needs the pending
list to be a clockwise run: whoever still has to answer sits nearer than everybody who
has answered and could act again (`WaitingFirst`); counting from the actor's seat
keeps that order (`Recounted`) and only a raise brings others back, then everybody
(`AnsweredStayBehind`).  Proved: `TypeOK`, `ChipsConserved`, `LedgerSound`,
`ClosedRoundIsMatched`, `OpenRoundHasActor`, `RaiseStructure`, `TurnOrderKept`.
That every round of a session starts from an entry the theorems cover is
`RoundsOpenValid` of `Session`, proved in `SessionProofs`.  For it `BettingProofs` has two
more invariants, which are the session's to establish: on a rack of whole chips the round
stays on it (`OpenedOnRack`, `ActOnRack`), and in a hand at most one player has paid
more than everybody still in could contest (`Backed`).  The latter is not inductive:
`Stakes` adds that who can act has paid no less than anybody on the streets before, and
why the pots are backed -- somebody leads the round who has matched the bet himself, or
nobody has answered the blinds, or nobody has bet.

`HandEndProofs`, on places, for every field of at least two players, every player list, stack and number
of hands (`FieldAssumption`, `ListAssumption`, `BatchAssumption`).  `PlacesInHand` is
recursive, as a tie takes a place given before: a chain of twins ends after two links,
because the first of a stack in the player list is everybody else's first twin
(`TwinsStop`), so the recursion has a solution (`PlacesRecur`) and every place is one's
own rank in the batch or a twin's (`PlaceIsOwn`).  What a transition may do to places is
then one predicate (`Step`), and `IInv` is the property and that nobody has won while
somebody plays.  Proved: `PlacesFollowPlay`.

`HandEndProofs`, on pots, for every table size, smallest chip, ledger, ranking and
button (`TableAssumption`, `SmallestChipAssumption`, `LedgersAssumption`,
`ShowdownAssumption`).  `BuildPots` folds over the levels of a ledger, and all sums
fold over the seats, so this needs induction over data.  The library's induction
theorems take an operator, but a set does as well: the subsets of a finite set that have
a property, closed under adding an element, are all of them (`SubsetInduction`, from
well-founded minimality).  The fold takes the levels in ascending order, and after the
levels up to some floor the accumulator holds the pots between the all-in caps so far, and a
current pot from the last of those to the floor (`LayersTo`); each layer keeps that,
and after the last level it is `Layered` and `ReferenceRefund`.  Nothing is lost because
what a player puts between two caps telescopes over the pots (`NothingLost`) and sums over
pots and over players may be exchanged.  A pot is paid out because the winners, taken
clockwise, have the turns 0, 1, 2, ... (`RanksFill`), of which exactly the odd chips are
served (`AwardsPay`).  `Settling` says that what was built belongs to the ledger.
Proved: `PotsAreLayers`, `EverythingPaid`.

`HandEndProofs`, on hands, for every deck of cards of the thirteen ranks and four suits
(`DeckAssumption`).  Four facts make the best of the fives the hand the rules give all the
cards (`BestOfTheFives`).  On five cards `EvaluateFive` is the rule book
(`FiveByTheRules`): the order of a hand's groups is determined by its entries
(`GroupsAre`), and with a pair five cards are neither a flush nor a straight, so the
order of the code's cases does not matter.  Fewer cards are never worth more
(`NotBetter`): the category is the highest that holds, what holds of some cards holds of
more (`HoldsGrow`), and within a category the n-th highest of a larger set is no lower
(`NthGrows`) -- seven cards hold one suit of five and one four of a kind, and a three
below a full house is the only pair (`OneFlush`, `OneFour`, `Value3`).  Some five are
worth all of them (`AttainedIs`), built for each category from the cards it counts and
one card of each kicker's rank (`FilledIs`).  And two values neither of which beats the
other are the same (`UnbeatenIsEqual`), so the CHOOSE of `EvaluateBestHand` has no
choice.  Sets of ranks are listed from the highest by counting who is above
(`NthIs`), without recursion.  `JudgedHand` says that the cards judged are a hand.
Proved: `BestHandByTheRules`.

`SessionProofs`, for every table of at least two seats, schedule, starting stack and
chip, timed or not (`TableAssumption`, `ScheduleAssumption`, `BlindsAssumption`,
`TimedAssumption`).  `SInv` joins what the parts of a session say of each other: `Shape`
and `Field` (who is in has chips, who is out has none, the total is what was dealt out),
`InRack` (the physical chips are where the numbers say), and during a hand
`HandShape`, `RoundSound` (the invariants of `BettingProofs`, with the session's stacks),
`JustOpened` (the entry the round was opened with is valid) and `Forced` (what a hand
begun at the deadline does to the stacks).  Betting steps are the lemmas of
`BettingProofs` at this table, settlements those of `HandEndProofs`.  `Session`
instantiates the modules without proofs, so a first group of lemmas says that an operator
means the same in both instances, and that the assumptions of those modules hold here.
`Backed` is what a settlement needs: a pot has somebody who can win it, so what is paid out is what
was paid in (`HandPays`), all in whole chips, and no player receives more of
another's chips than he put in himself; hence a hand leaves somebody with chips, and
`SettleIsHand` is the step of `Freezeout`.  All other steps leave `wealth` and `place`
alone (`StepIsFreezeout`).  Proved: `LedgerSettles`, `RoundsOpenValid`,
`DeadlineForcesAllIn`, `IsFreezeout`.  `SInv` held in a run of `MCSession`'s instance
before it was proved.

`LifecycleProofs`, on `Pacing`, for any reasons, times, speeds and number of events
(`PacingAssumption`).  That no delay is early needs what it still owes and what
it has served to make up its time, frozen or not (`DelaysKept`), and that the
group's flag is shared by every delay in it (`FreezeIsShared`).  That an event is
presented before the next needs the one delay of a mounted table to be the one of
the event the last effects saw (`DelayIsOfEvent`); that a report is the time played
needs the clock's mark to be that much after its anchor (`ClockCounts`); silence
needs readiness only at a window that is there (`ReadyIsHere`).  Each of these is
kept on its own, one lemma per part and one step per action.  Proved: `TypeOK`,
`NeverEarly`, `EachEventPresented`, `ReportsTimePlayed`, `NoSoundWhileAway`.

`LiveTableProofs`, on `EquityService`, for any number of requests and slices (`BoundsAssumption`), with
a worker or without, superseding or not.  A token given up may be named by a cancel
message, by the worker's set or by a reply long after it left the map; tokens are never
used again, so none of these names a pending one (`GivenUp`), which needs open promises
and pending tokens to be the same (`PendingIsOpen`).  What the fallback wastes is bounded
because its second slice looks (`Stops`).  Each step, seen as `Promises` sees it, settles one promise,
refuses the open ones or changes nothing (`StepRefines`).  Proved:
`OnlyGivenUpWorkIsDropped`, `StopsAtASlice`, and that `EquityPromises` is implemented, but for its
liveness, which the run checks (`KeepsPromises`).

`LiveTableProofs`, on `TournamentTable`, for any number of tables, steps, tokens and any length of
time (`TableBoundsAssumption`).  `IInv` adds to the properties: where the table is
mounted and paused (`Place`), that a step being presented has the table, mode and
start of its runner (`PresentsOwn`), that the checkpoint is the runner's while
nothing is presented (`CheckpointFollows`), that a waiting call has its work
(`WorkIsUnderWay`), and the clock at every moment (`ClockStands`): the start that counts is
that of the step being presented, a pause stops it, and a timed table not yet mounted still has
its first step to present, so a pause left over from another table cannot move it.  Proved: `TypeOK`,
`DecisionIsCurrent`, `PresentsOwnTable`, `AcceptedIsSaved`, `ClockAccounts`,
`AnswerIsForItsDecision`.

`LifecycleProofs`, on `AppLifecycle`, for any threshold and cap (`CountsAssumption`).  Both action
properties speak of the marker at a launch, which was written long before:
`StreakCounted` says what it counts while the game runs, `QuitRecorded` what a quit
leaves in it until the window is gone.  Proved: `TypeOK`,
`RepeatedFailuresSelectSafeMode`, `QuitNeverEscalates`.

`SaveStoreProofs`, for every number of saves and of damaged files
(`SavesAssumption`, `MarkersAssumption`).  That a valid current file is never
stale depends on how far the request at work is, so `IInv` adds `Requested` (its
save counts as asked for), `Replaced` (after the replacement the file holds that
save or is damaged) and `EvidenceStays` (after a receipt something on disk or in
the archive says so).  That a fresh start loses nothing depends on what it has archived already
(`FreshOrder`).  That a receipt is durable needs two witnesses at a time (`Durable`):
while nothing is damaged, the current file or the archive holds the acknowledged save
or a later one, and the previous file or the archive one of those or of the save
before -- of the later ones as soon as the request has rotated, since the current is
then about to be overwritten; damage takes one witness and leaves the other.  Proved:
`TypeOK`, `CurrentIsLatest`, `NeverNewAgain`, `FreshStartKeepsEverything`,
`ReceiptIsDurable`.

`SaveTransferProofs`, for any saves and any number of commits, operations, edits and
requests under way (`TransferAssumption`).  That no token writes twice needs an
operation's number to be in one place at a time -- an open dialog, a request for a
preview, an issued token, a spent one (`OnePlace`) -- and what a token writes needs it
to belong to the version of the file, or to the save, it was issued for
(`TokensHold`).  That what is not pending is on disk needs, of everything under way at
once (`SavedInv`): commits in the order of their numbers, retries included; and, unless
a commit crossed an import or reset, a pending commit that is what memory shows and
has no import or reset beside it, no commit behind one, and a last answer to the
reload's question which is what is on disk.  Proved: `WritesAsConfirmed`,
`NothingPendingIsSaved`.

`BlackjackProofs`, for any ranks of the deck, copies of each, cut card and limit on
splits (`BlackjackAssumption`).  `IInv` says how far the count is off: by nothing between
rounds (`Shown`), by the hole card while a round is played (`Concealed`).  The count adds
tags card by card as they are drawn, what has left the shoe is counted rank by rank, and
the two agree because a sum over places and ranks may be taken in either order
(`TagsByRank`); turning the hole card is counted once (`RevealedShows`, `RevealedOnce`).
`PlayedOut` applies one draw sixteen times where the code loops until the dealer
stands: every card counts at least one and an ace too many counts one (`TotalIs`), so
eighteen cards are seventeen or more (`DealerStands`).  Of the hands, `IInv` says that
each is done or can be played and that the active one is the first of the latter
(`Playing`), which a split, putting two in the place of one, keeps because all of them
are `Playable`.  Proved: `CountIsOfSeenCards`, `OnlyOpenHandsPlay`.

The type invariants of the modules with proofs, and `LedgerSound` and
`OpenRoundHasActor` of `Betting`, are proved rather than run.

Only model-checked: liveness (`RoundEnds`, `HandEnds`, `TableMovesOn`, `RoomArrives`,
`TableGoesOn`, `StuckRendererCannotTrapWindow`), which is beyond the prover.

## 5. Not modelled

Table balancing and breaking (the app seats one table); the deck's shuffle and
opponent policies (nondeterminism covers them); training, review,
blackjack strategy and counting drills (scores of single decisions); save
migration (field by field validation); music, exports, React components, the 3D
scene, scripts, translations.  Most of the repository's lines are of this kind:
rendering, scene building, numeric policies, audits of packages and content, with
no state a model checker could tell apart from its inputs.  `FreezableDelay.finish`
is left out because the skip button, its one caller, reaches it only when nothing
is being presented.  The prompt at startup that resumes a run left by the last launch is
left out of `TournamentTable` (its `ContinueRun` is the lobby's button): a timed run resumed
there keeps its start, so the time the game was closed counts too.  The skip button of the
fly-through is `FlythroughDone` in `TournamentTable`, which may come at any time; `Pacing` has
its timed end only.  `estimate` of a disposed service refuses at once, changes nothing and is
left out of `EquityService`.  `PROJECT.json` gives the reason for each, and notes the hazards no
property covers.

## 6. Plan

Done, in order of weight: `Betting`, `Pots`, `Placings`, `Session` over `Freezeout`
with the timed director, `Showdown`, `SaveStore`, `AppLifecycle`, `TournamentTable`, `Pacing`,
`SaveTransfer`, `EquityService` over `EquityPromises`, `BlackjackTable`; the proofs of all of
them, with both refinements (`EquityPromises` but for its liveness).

Left:

1. An abstract durable register which `SaveStore` and `SaveTransfer` both implement.
2. Table balancing and breaking of `tournament.ts`, once the app seats more tables.
3. The life of the 3D scene (`scene3d/tableScene.ts`: loading, lost context,
   recovery, disposal) and of the music playlist, each a small machine of its own.
