------------------------------- MODULE Betting -------------------------------
(***************************************************************************)
(* One betting round of a hand: src/src/engine/betting.ts.                 *)
(*                                                                         *)
(* The code is a set of pure functions over BettingRoundState; so is the   *)
(* module.  A round is one record, CreateBettingRound builds it and every  *)
(* betting action maps it to the next one.  The state machine below opens  *)
(* a round from any entry its caller may pass and lets the player whose    *)
(* turn it is take any legal action.  The `pending' list of the code is    *)
(* represented by the set of its members and the place clockwise order     *)
(* starts from: NextToAct is the head of the list.                         *)
(***************************************************************************)
EXTENDS Integers, FiniteSets, Functions, FiniteSetsExt

CONSTANTS
  Players,       \* the players dealt into the hand
  SmallestChip,  \* smallest physical chip of the structure (smallestChip)
  Entries        \* the arguments createBettingRound is called with

VARIABLES
  entry,  \* the entry this round was opened from
  round   \* the BettingRoundState

vars == <<entry, round>>

NotActed == -1   \* lastActedAtBet[p] is undefined
Statuses == {"active", "folded", "all-in"}

Larger(a, b) == IF a >= b THEN a ELSE b
Smaller(a, b) == IF a <= b THEN a ELSE b

-----------------------------------------------------------------------------
(* What a caller may pass: chips are naturals, no street contribution is   *)
(* larger than the hand's, an all-in player has no stack, the order holds  *)
(* every player once (turn[p] is p's index in actionOrder).                *)
EntryShape ==
  [ stack: [Players -> Nat], street: [Players -> Nat], total: [Players -> Nat],
    status: [Players -> Statuses], turn: [Players -> Nat \ {0}],
    nominalOpeningBet: Nat, minimumBet: Nat \ {0} ]

ValidEntry(e) ==
  /\ e \in EntryShape
  /\ \A p \in Players : /\ e.street[p] <= e.total[p]
                        /\ e.status[p] = "all-in" => e.stack[p] = 0
                        /\ e.turn[p] <= Cardinality(Players)
  /\ \A p, q \in Players : e.turn[p] = e.turn[q] => p = q

ASSUME PlayersAssumption == IsFiniteSet(Players)
ASSUME ChipAssumption == SmallestChip \in Nat \ {0}
ASSUME EntriesAssumption == \A e \in Entries : ValidEntry(e)

-----------------------------------------------------------------------------
InHand(r) == {p \in Players : r.status[p] # "folded"}

AbleToAct(r) == {p \in Players : r.status[p] = "active" /\ r.stack[p] > 0}

(* Mutants of Owing: forgets those who acted before a raise; asks all-in   *)
(* players too; never lets a matched player go.                            *)
Owing_FirstActionOnly(r) == {p \in AbleToAct(r) : r.lastActedAtBet[p] = NotActed}
Owing_MatchedToo(r) ==
  {p \in AbleToAct(r) : r.lastActedAtBet[p] = NotActed \/ r.street[p] <= r.currentBet}

(* The players recomputePending's filter keeps.                            *)
Owing(r) ==
  {p \in AbleToAct(r) : r.lastActedAtBet[p] = NotActed \/ r.street[p] < r.currentBet}

(* A sole player with chips cannot bet into all-in opponents.              *)
SoleMatched(r) ==
  \E p \in Players : AbleToAct(r) = {p} /\ r.street[p] >= r.currentBet

RecomputePending(r, from) ==
  LET oneLeft == Cardinality(InHand(r)) <= 1
      pending == IF oneLeft \/ SoleMatched(r) THEN {} ELSE Owing(r)
  IN [r EXCEPT !.pending = pending,
               !.from = from,
               !.complete = (pending = {}),
               !.handComplete = oneLeft \/ (AbleToAct(r) = {} /\ @)]

CreateBettingRound(e) ==
  RecomputePending(
    [ stack |-> e.stack, street |-> e.street, total |-> e.total,
      status |-> [p \in Players |->
                    IF e.stack[p] = 0 /\ e.status[p] = "active"
                    THEN "all-in" ELSE e.status[p]],
      turn |-> e.turn, from |-> 0, pending |-> {},
      currentBet |-> Max({e.nominalOpeningBet} \cup {e.street[p] : p \in Players}),
      minimumBet |-> e.minimumBet, lastFullRaise |-> e.minimumBet,
      lastActedAtBet |-> [p \in Players |-> NotActed],
      complete |-> FALSE, handComplete |-> FALSE ], 0)

-----------------------------------------------------------------------------
(* Mutant: plain seat order, with no wrap past the last seat.              *)
Distance_NoWrap(r, p) == r.turn[p]

(* How many places clockwise after `from' player p sits; the player who    *)
(* acted last comes last.                                                  *)
Distance(r, p) ==
  IF r.turn[p] > r.from THEN r.turn[p] - r.from
                        ELSE r.turn[p] - r.from + Cardinality(Players)

NextToAct(r) ==
  CHOOSE p \in r.pending : \A q \in r.pending : Distance(r, p) <= Distance(r, q)

(* Mutant: any bet reopens the raising.                                    *)
RaisingReopenedFor_Always(r, p) == TRUE

RaisingReopenedFor(r, p) ==
  \/ r.lastActedAtBet[p] = NotActed
  \/ r.currentBet - r.lastActedAtBet[p] >= r.lastFullRaise

ToCall(r, p) == Larger(0, r.currentBet - r.street[p])
AllInTo(r, p) == r.street[p] + r.stack[p]
CanIncreaseBet(r, p) == RaisingReopenedFor(r, p) /\ AllInTo(r, p) > r.currentBet
MinRaiseTo(r) == r.currentBet + r.lastFullRaise

(* getLegalActions and requireTarget: the totals p may commit to with each *)
(* kind of action; the empty set when the action is not legal.             *)
Payable(lo, hi) == {to \in lo..hi : to % SmallestChip = 0 \/ to = lo \/ to = hi}

LegalCheck(r, p) == ToCall(r, p) = 0
LegalCall(r, p) == ToCall(r, p) > 0
CallTo(r, p) == r.street[p] + Smaller(r.stack[p], ToCall(r, p))
BetTargets(r, p) ==
  IF r.currentBet = 0 THEN Payable(r.minimumBet, AllInTo(r, p)) ELSE {}
RaiseTargets(r, p) ==
  IF r.currentBet > 0 /\ CanIncreaseBet(r, p)
  THEN Payable(MinRaiseTo(r), AllInTo(r, p)) ELSE {}
LegalAllIn(r, p) ==
  AllInTo(r, p) <= r.currentBet \/ r.currentBet = 0 \/ CanIncreaseBet(r, p)

(* applyBettingAction once the target is known.  A bet or raise is never   *)
(* smaller than the increment asked for, so that later throw cannot fire.  *)
IsFullRaise(r, to) ==
  to - r.currentBet >= (IF r.currentBet = 0 THEN r.minimumBet ELSE r.lastFullRaise)

StatusAfter(r, p, paid) == IF r.stack[p] = paid THEN "all-in" ELSE r.status[p]

CommitTo(r, p, to) ==
  LET paid == to - r.street[p]
      bet == Larger(r.currentBet, to)
  IN RecomputePending(
       [r EXCEPT !.stack[p] = @ - paid,
                 !.street[p] = to,
                 !.total[p] = @ + paid,
                 !.status[p] = StatusAfter(r, p, paid),
                 !.currentBet = bet,
                 !.lastFullRaise = IF to > r.currentBet /\ IsFullRaise(r, to)
                                   THEN to - r.currentBet ELSE @,
                 !.lastActedAtBet[p] = bet],
       r.turn[p])

(* Mutant: a folded player's contribution leaves the pot with him.         *)
FoldHand_TakesBetBack(r, p) ==
  RecomputePending([r EXCEPT !.status[p] = "folded", !.total[p] = @ - r.street[p],
                             !.street[p] = 0], r.turn[p])

FoldHand(r, p) ==
  RecomputePending([r EXCEPT !.status[p] = "folded",
                             !.lastActedAtBet[p] = r.currentBet], r.turn[p])

-----------------------------------------------------------------------------
HasTurn(p) == ~round.complete /\ p = NextToAct(round)

Fold(p)    == HasTurn(p) /\ round' = FoldHand(round, p)
Check(p)   == HasTurn(p) /\ LegalCheck(round, p) /\ round' = CommitTo(round, p, round.street[p])
Call(p)    == HasTurn(p) /\ LegalCall(round, p) /\ round' = CommitTo(round, p, CallTo(round, p))
Bet(p)     == HasTurn(p) /\ \E to \in BetTargets(round, p) : round' = CommitTo(round, p, to)
Raise(p)   == HasTurn(p) /\ \E to \in RaiseTargets(round, p) : round' = CommitTo(round, p, to)
AllIn(p)   == HasTurn(p) /\ LegalAllIn(round, p) /\ round' = CommitTo(round, p, AllInTo(round, p))

Act(p) == Fold(p) \/ Check(p) \/ Call(p) \/ Bet(p) \/ Raise(p) \/ AllIn(p)

(* A finished round accepts no action; its owner deals on or settles.      *)
Finished == round.complete /\ UNCHANGED round

Init == entry \in Entries /\ round = CreateBettingRound(entry)
Next == ((\E p \in Players : Act(p)) \/ Finished) /\ UNCHANGED entry

Spec == Init /\ [][Next]_vars

(* The runner keeps asking the player whose turn it is, so a round that    *)
(* can move does.                                                          *)
FairSpec == Spec /\ WF_vars(Next)

-----------------------------------------------------------------------------
RoundShape ==
  [ stack: [Players -> Nat], street: [Players -> Nat], total: [Players -> Nat],
    status: [Players -> Statuses], turn: [Players -> Nat \ {0}], from: Nat,
    pending: SUBSET Players, currentBet: Nat, minimumBet: Nat \ {0},
    lastFullRaise: Nat \ {0}, lastActedAtBet: [Players -> Nat \cup {NotActed}],
    complete: BOOLEAN, handComplete: BOOLEAN ]

(* Type invariant: every field of the round keeps its type; in particular  *)
(* no stack or contribution ever goes negative.                            *)
TypeOK == ValidEntry(entry) /\ round \in RoundShape

(* What the table holds: stacks and contributions to the hand.             *)
Worth(r) == [p \in Players |-> r.stack[p] + r.total[p]]
ChipTotal(r) == FoldFunction(+, 0, Worth(r))

(* The chips on the table are those the round opened with                  *)
(* (assertBettingStateInvariant, "Betting chip conservation failed").      *)
ChipsConserved == ChipTotal(round) = ChipTotal(entry)

(* The other thresholds assertBettingStateInvariant throws on: nobody has  *)
(* more on the street than the current bet or than in the hand, and only a *)
(* player without chips is all-in -- and, as createBettingRound arranges,  *)
(* a player without chips is never left active.                            *)
LedgerSound ==
  \A p \in Players :
    /\ round.street[p] <= round.currentBet
    /\ round.street[p] <= round.total[p]
    /\ round.status[p] = "all-in" => round.stack[p] = 0
    /\ round.status[p] = "active" => round.stack[p] > 0

(* A round that closes with the hand still contested leaves no debt: every *)
(* player still in has matched the bet or is all-in, and unless he is the  *)
(* only one able to bet, has had his turn (the big blind's option).        *)
ClosedRoundIsMatched ==
  round.complete /\ ~round.handComplete =>
    /\ Cardinality(InHand(round)) > 1
    /\ \A p \in AbleToAct(round) :
         /\ round.street[p] = round.currentBet
         /\ round.lastActedAtBet[p] # NotActed \/ AbleToAct(round) = {p}

(* An open round always has somebody to ask, and it asks nobody who folded *)
(* or is out of chips; the hand is over exactly when one player is left.   *)
OpenRoundHasActor ==
  /\ round.complete <=> round.pending = {}
  /\ round.pending \subseteq AbleToAct(round)
  /\ round.handComplete <=> Cardinality(InHand(round)) <= 1

(* An entry whose every amount the chips of the rack can pay.              *)
OnRack(n) == n % SmallestChip = 0
EntryOnRack(e) ==
  /\ \A p \in Players : OnRack(e.stack[p]) /\ OnRack(e.street[p]) /\ OnRack(e.total[p])
  /\ OnRack(e.nominalOpeningBet) /\ OnRack(e.minimumBet)

(* Nobody loses his turn: whoever was waiting behind the actor still waits *)
(* afterwards and the first of them is next, unless the hand ends or the   *)
(* only player left with chips has nothing to call.                        *)
TurnOrderKept ==
  [][ ~round.complete =>
      LET waiting == round.pending \ {NextToAct(round)}
          first == CHOOSE p \in waiting :
                     \A q \in waiting : Distance(round, p) <= Distance(round, q)
      IN (waiting # {} /\ ~round'.complete)
           => waiting \subseteq round'.pending /\ NextToAct(round') = first ]_round

(* A bet goes up only by an actor for whom raising is open, by at least    *)
(* the last full raise unless he is all-in, and the last full raise never  *)
(* shrinks: short all-ins neither lower the next minimum raise nor, alone, *)
(* give players who have acted another raise.                              *)
RaiseStep ==
  /\ round'.lastFullRaise >= round.lastFullRaise
  /\ round'.currentBet >= round.currentBet
  /\ round'.currentBet > round.currentBet =>
       LET p == NextToAct(round)
           increment == round'.currentBet - round.currentBet
       IN /\ round'.street[p] = round'.currentBet
          /\ increment >= round.lastFullRaise \/ round'.stack[p] = 0
          /\ \/ round.lastActedAtBet[p] = NotActed
             \/ round.currentBet - round.lastActedAtBet[p] >= round.lastFullRaise
RaiseStructure == [][RaiseStep]_round

(* A betting round ends: nobody can keep it open for ever.                 *)
RoundEnds == <>round.complete
=============================================================================
