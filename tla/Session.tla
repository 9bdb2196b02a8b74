------------------------------- MODULE Session -------------------------------
(***************************************************************************)
(* A tournament played hand by hand at one table:                          *)
(* src/src/modes/tournamentSession.ts over the engine's betting, pots,     *)
(* tournament and chip modules.                                            *)
(*                                                                         *)
(* A player is named by his seat; every seat starts taken.  The chips are  *)
(* kept twice, as in the code: as numbers (stack, and the betting round's  *)
(* stacks and contributions) and as the physical ledger (rack, bet and     *)
(* collected), which is moved by transfers of its own.  A player out of    *)
(* the tournament is not in the code's betting round; here he is in it as  *)
(* a folded player without chips, whom every operator of Betting ignores.  *)
(***************************************************************************)
EXTENDS Integers, Sequences, FiniteSets, Functions, FiniteSetsExt

CONSTANTS
  TableSize,      \* SESSION_TABLE_SIZE
  StartingStack,
  SmallestChip,
  Levels,         \* the blind levels, [small, big] each
  River,          \* streets after the first: 3 in the code
  Hero,           \* heroId
  Timed,          \* a timed table: its blinds follow the time that is left
  Friendly,       \* friendlyStep: directed blinds are multiples of it
  FullField       \* completionScope is "full-field", not "hero"

Seats == 1..TableSize

ASSUME TableAssumption == TableSize \in Nat /\ TableSize >= 2 /\ Hero \in Seats
ASSUME ScheduleAssumption ==   \* what createTournament checks
  /\ SmallestChip \in Nat \ {0}
  /\ StartingStack \in Nat \ {0} /\ StartingStack % SmallestChip = 0
  /\ Levels \in Seq([small : Nat, big : Nat \ {0}]) /\ Len(Levels) > 0
  /\ \A i \in DOMAIN Levels :
       Levels[i].small % SmallestChip = 0 /\ Levels[i].big % SmallestChip = 0
ASSUME BlindsAssumption ==   \* as in MAIN_EVENT_BLINDS; createTournament does not check it
  \A i \in DOMAIN Levels : Levels[i].small <= Levels[i].big
ASSUME TimedAssumption == Timed \in BOOLEAN /\ Friendly \in Nat \ {0} /\ Friendly % SmallestChip = 0

VARIABLES
  stack,   \* tournament.players[p].stack
  place,   \* finishPlace; 0 while the player's status is active
  button,  \* table.buttonSeat
  level,   \* levelIndex, from 1
  blinds,  \* structure.levels[levelIndex], [small, big]: a timed table overwrites it
  phase,   \* of the time of a timed table; "opening" at any other
  status,  \* "playing" or "complete"
  hand,    \* activeHand: [street, start], the street and startingStacks
  round,   \* activeHand.betting
  chips    \* the physical ledger: [rack, bet, collected]

vars == <<stack, place, button, level, blinds, phase, status, hand, round, chips>>

NoHand == [street |-> -1, start |-> <<>>]
NoRound == <<>>

B == INSTANCE Betting WITH Players <- Seats, Entries <- {}, entry <- NoRound
P == INSTANCE Pots WITH Ledgers <- {}, Ranks <- {}, Buttons <- {},
       ledger <- NoRound, built <- NoRound, awards <- NoRound
F == INSTANCE Placings WITH Players <- Seats, Seatings <- {}, MaxStart <- 0, MaxHands <- 0,
       seated <- NoRound, handForHand <- FALSE, lastBatch <- NoRound

Total(f) == FoldFunction(+, 0, f)
Plus(f, g) == [p \in Seats |-> f[p] + g[p]]
Minus(f, g) == [p \in Seats |-> f[p] - g[p]]
Nothing == [p \in Seats |-> 0]

-----------------------------------------------------------------------------
Active == {p \in Seats : place[p] = 0}
InPlay == hand # NoHand

NextOccupiedSeat(occupied, after) ==
  CHOOSE p \in occupied : \A q \in occupied :
    P!ClockwiseDistance(p, after) <= P!ClockwiseDistance(q, after)

ClockwiseAfter(seat) == [p \in Seats |-> P!ClockwiseDistance(p, seat)]

SmallBlindSeat(dealer) ==
  IF Cardinality(Active) = 2 THEN dealer ELSE NextOccupiedSeat(Active, dealer)
BigBlindSeat(dealer) == NextOccupiedSeat(Active, SmallBlindSeat(dealer))

(* postForced: a player without enough posts what he has.                  *)
Posted(dealer, forced) ==
  [p \in Seats |->
     CASE p = SmallBlindSeat(dealer) -> B!Smaller(stack[p], forced.small)
       [] p = BigBlindSeat(dealer) -> B!Smaller(stack[p], forced.big)
       [] OTHER -> 0]

(* The physical ledger.                                                    *)
Wager(c, amounts) ==
  [c EXCEPT !.rack = Minus(@, amounts), !.bet = Plus(@, amounts)]
CollectBets_Forgotten(c) == c   \* mutant
CollectBets(c) == [c EXCEPT !.collected = Plus(@, c.bet), !.bet = Nothing]

-----------------------------------------------------------------------------
(* createTournamentSession.                                                *)
Init ==
  /\ stack = [p \in Seats |-> StartingStack]
  /\ place = [p \in Seats |-> 0]
  /\ button = 1
  /\ level = 1
  /\ blinds = Levels[1]
  /\ phase = "opening"
  /\ status = "playing"
  /\ hand = NoHand
  /\ round = NoRound
  /\ chips = [rack |-> stack, bet |-> Nothing, collected |-> Nothing]

(* beginTournamentSessionHand: the button moves to the next live seat and  *)
(* the blinds are posted; before the flop the big blind speaks last.       *)
PreflopEntry(dealer, forced) ==
  LET posted == Posted(dealer, forced)
  IN [ stack |-> Minus(stack, posted), street |-> posted, total |-> posted,
       status |-> [p \in Seats |-> CASE p \notin Active -> "folded"
                                     [] stack[p] = posted[p] /\ p \in Active -> "all-in"
                                     [] OTHER -> "active"],
       turn |-> ClockwiseAfter(BigBlindSeat(dealer)),
       nominalOpeningBet |-> forced.big, minimumBet |-> forced.big ]

(* directTimedBlinds: before the deadline the big blind goes up by at most *)
(* a factor, towards the second largest stack or a share of the average;   *)
(* at the deadline it covers the second largest stack.                     *)
Phases == <<"opening", "pressure", "closing", "deadline">>
From(ph) == CHOOSE i \in DOMAIN Phases : Phases[i] = ph
Later(ph) == {Phases[i] : i \in From(ph)..Len(Phases)}

RoundUp(amount) == ((amount + Friendly - 1) \div Friendly) * Friendly
SecondLargest_Distinct ==   \* mutant: of two equal stacks one is overlooked
  Max({0} \cup {n \in Range(stack) : Cardinality({m \in Range(stack) : m >= n}) >= 2})
SecondLargest ==
  Max({n \in Range(stack) : Cardinality({p \in Active : stack[p] >= n}) >= 2})
Goal == B!Larger(SecondLargest, Total(stack) \div Cardinality(Active))
Targets(ph) ==
  CASE ph = "opening" -> {blinds.big}
    [] ph = "pressure" -> blinds.big..B!Larger(blinds.big, B!Smaller(2 * blinds.big, Goal))
    [] ph = "closing" -> blinds.big..B!Larger(blinds.big, B!Smaller(3 * blinds.big, Goal))
    [] ph = "deadline" -> {SecondLargest}

DirectedTo(target) ==
  LET big == B!Larger(blinds.big, RoundUp(target))
  IN [small |-> B!Larger(blinds.small, RoundUp((big + 1) \div 2)), big |-> big]

(* applyTimedBlindLevel, before every hand of a timed table.               *)
ApplyTimedBlindLevel ==
  IF ~Timed THEN UNCHANGED <<blinds, phase>>
  ELSE /\ phase' \in Later(phase)
       /\ \E target \in Targets(phase') : blinds' = DirectedTo(target)

BeginHand ==
  /\ status = "playing" /\ ~InPlay /\ Cardinality(Active) >= 2
  /\ ApplyTimedBlindLevel
  /\ button' = NextOccupiedSeat(Active, button)
  /\ hand' = [street |-> 0, start |-> stack]
  /\ LET opening == PreflopEntry(button', blinds')
     IN /\ round' = B!CreateBettingRound(opening)
        /\ stack' = opening.stack
        /\ chips' = Wager(chips, opening.total)
  /\ UNCHANGED <<place, level, status>>

(* applyTournamentSessionAction: the round, the tournament's stacks and    *)
(* the physical ledger move together.                                      *)
PlayerAct(p) ==
  /\ InPlay
  /\ B!Act(p)
  /\ stack' = round'.stack
  /\ chips' = Wager(chips, Minus(round'.total, round.total))
  /\ UNCHANGED <<place, button, level, blinds, phase, status, hand>>

(* progressTournamentSessionHand before the river: burn, deal, collect the *)
(* bets and open the next round, at the level of the moment.               *)
PostflopEntry ==
  [ stack |-> round.stack, street |-> Nothing, total |-> round.total,
    status |-> round.status, turn |-> ClockwiseAfter(button),
    nominalOpeningBet |-> 0, minimumBet |-> blinds.big ]

MustSettle == round.handComplete \/ hand.street = River

DealStreet ==
  /\ InPlay /\ round.complete /\ ~MustSettle
  /\ hand' = [hand EXCEPT !.street = @ + 1]
  /\ round' = B!CreateBettingRound(PostflopEntry)
  /\ chips' = CollectBets(chips)
  /\ UNCHANGED <<stack, place, button, level, blinds, phase, status>>

-----------------------------------------------------------------------------
HandLedger ==
  [ amount |-> round.total,
    folded |-> {p \in Seats : round.status[p] = "folded"},
    allIn |-> {p \in Seats : round.status[p] = "all-in"} ]

(* awardMap: what everybody gets back or wins.                             *)
Winnings(built, rank) ==
  [p \in Seats |->
     built.refund[p]
       + Total([i \in DOMAIN built.pots |-> P!Awards(built.pots[i], rank, button)[p]])]

(* Mutant: every pot takes the contributions of the pots below it again.   *)
Allocated_FromBottom(built, i) ==
  [p \in Seats |-> B!Smaller(round.total[p], built.pots[i].cap)]

(* How much of each player's chips goes into the i-th physical pot.        *)
Allocated(built, i) ==
  LET low == IF i = 1 THEN 0 ELSE built.pots[i - 1].cap
  IN [p \in Seats |-> B!Larger(0, B!Smaller(round.total[p], built.pots[i].cap)
                                    - B!Smaller(round.total[p], low))]

(* The ledger after refunds, allocation to pots and payout.                *)
PaidOut(built, rank) ==
  LET all == CollectBets(chips).collected
      allocated == [p \in Seats |->
                      Total([i \in DOMAIN built.pots |-> Allocated(built, i)[p]])]
  IN [ rack |-> Plus(chips.rack, Winnings(built, rank)),
       bet |-> Nothing,
       collected |-> Minus(Minus(all, built.refund), allocated) ]

(* recordEliminations, with one table and one hand.  The player list is in *)
(* id order here; Placings has every order, which matters only when three  *)
(* players with equal stacks bust together.                                *)
PlacesAfter(stacks) ==
  LET busted == {p \in Active : stacks[p] = 0}
      batch == [ started |-> [p \in busted |-> hand.start[p]],
                 hand |-> [p \in busted |-> 1] ]
  IN IF busted = {} THEN place
     ELSE F!Placed(place, F!PlacesInHand(batch, [p \in Seats |-> p], Cardinality(Active)))

StatusAfter(places) ==
  LET left == {p \in Seats : places[p] = 0}
      over == IF FullField THEN Cardinality(left) <= 1 ELSE places[Hero] # 0
  IN IF over THEN "complete" ELSE "playing"

Ranks == {f \in [Seats -> Seats] : \A p \in Seats : f[p] = 1 \/ f[p] - 1 \in Range(f)}

(* settleTournamentSessionHand, for any showdown.  Its throws are guards;  *)
(* HandEnds says that they never bite, LedgerSettles that they need not.   *)
Settle ==
  /\ InPlay /\ round.complete /\ MustSettle
  /\ LET built == P!BuildPots(HandLedger)
     IN /\ ~P!Unwinnable(built)
        /\ \E rank \in Ranks :
             /\ \A i \in DOMAIN built.pots : ~P!Indivisible(built.pots[i], rank)
             /\ stack' = Plus(stack, Winnings(built, rank))
             /\ chips' = PaidOut(built, rank)
  /\ place' = PlacesAfter(stack')
  /\ status' = StatusAfter(place')
  /\ hand' = NoHand
  /\ round' = NoRound
  /\ UNCHANGED <<button, level, blinds, phase>>

(* advanceTournamentSessionClock: enough time may pass for many levels.    *)
AdvanceClock ==
  /\ status = "playing"
  /\ \E later \in (level + 1)..Len(Levels) : level' = later /\ blinds' = Levels[later]
  /\ UNCHANGED <<stack, place, button, phase, status, hand, round, chips>>

(* A completed session starts no hand.                                     *)
Closed == status = "complete" /\ UNCHANGED vars

HandStep == (\E p \in Seats : PlayerAct(p)) \/ DealStreet \/ Settle
Next == BeginHand \/ HandStep \/ AdvanceClock \/ Closed

Spec == Init /\ [][Next]_vars

(* The runner keeps asking the player to act and progresses the hand as    *)
(* soon as a round completes: weak fairness of HandStep, with its ENABLED  *)
(* written out.  HandStep is enabled exactly in a hand: at the last level  *)
(* nothing else is, and no state of Spec is a deadlock.                    *)
FairSpec == Spec /\ ([]<>~InPlay \/ []<><<HandStep>>_vars)
-----------------------------------------------------------------------------
Committed(p) == IF InPlay THEN round.total[p] ELSE 0
CommittedNow(p) == IF InPlay THEN round.street[p] ELSE 0

Agreeing ==   \* assertSessionChipInvariant
  /\ \A p \in Seats :
       /\ chips.rack[p] = stack[p]
       /\ chips.bet[p] = CommittedNow(p)
       /\ chips.bet[p] + chips.collected[p] = Committed(p)
       /\ InPlay => round.stack[p] = stack[p]
  /\ Total(stack) + Total([p \in Seats |-> Committed(p)]) = TableSize * StartingStack

Payable ==
  LET built == P!BuildPots(HandLedger)
  IN \A i \in DOMAIN built.pots :
       /\ Total(Allocated(built, i)) = built.pots[i].amount
       /\ \A rank \in Ranks : ~P!Indivisible(built.pots[i], rank)

(* At every stable boundary the physical chips are where the numbers say,  *)
(* and the tournament's value never changes.  When the hand settles it     *)
(* never throws: every pot divides into chips however many hands tie, and  *)
(* its physical chips are worth the pot's amount.                          *)
LedgerSettles == Agreeing /\ (InPlay /\ round.complete /\ MustSettle => Payable)

(* Every betting round is opened as Betting assumes, on the rack: what is  *)
(* checked and proved of a round holds of every round of a session.        *)
OpenedWith ==
  [ stack |-> round.stack, street |-> round.street, total |-> round.total,
    status |-> round.status, turn |-> round.turn,
    nominalOpeningBet |-> round.currentBet, minimumBet |-> round.minimumBet ]
RoundsOpenValid ==
  InPlay /\ round.from = 0 => B!ValidEntry(OpenedWith) /\ B!EntryOnRack(OpenedWith)

(* The deadline "forces every player except the chip leader all-in"        *)
(* (timedBlindDirector.ts): in a hand begun then, at most one player has   *)
(* more than the bet he meets before the flop, whatever the levels and the *)
(* hands before have done to blinds and stacks.                            *)
DeadlineForcesAllIn ==
  InPlay /\ hand.street = 0 /\ phase = "deadline" =>
    Cardinality({p \in Seats : hand.start[p] > round.currentBet}) <= 1

(* Hand by hand the session is a freeze-out: chips are conserved, nobody   *)
(* wins more than his stake from anybody, places are given once.           *)
Tournament ==
  INSTANCE Freezeout WITH Players <- Seats,
    wealth <- IF InPlay THEN hand.start ELSE stack
IsFreezeout == Tournament!Spec

(* A hand that has begun is settled.                                       *)
HandEnds == InPlay ~> ~InPlay
=============================================================================
