---- MODULE SessionProofs ----
(***************************************************************************)
(* Proofs about Session.tla, for every table, schedule and starting stack: *)
(* an inductive invariant that joins the betting round, the session's      *)
(* numbers and the physical chips; from it, the session's safety           *)
(* properties; and that a session implements the freeze-out.               *)
(***************************************************************************)
EXTENDS Session, FiniteSetTheorems, TLAPS

-----------------------------------------------------------------------------
(* The betting round, the pots and the placing are proved about in modules *)
(* of their own; BP and H are those modules at a session's table. Session  *)
(* itself instantiates the modules without proofs, so the first lemmas     *)
(* show that an operator means the same in both instances. The variables   *)
(* and input sets of those modules' own runs play no part in the lemmas    *)
(* used here, and are given constants.                                     *)
BP == INSTANCE BettingProofs WITH Players <- Seats, Entries <- {}, entry <- NoRound
H == INSTANCE HandEndProofs WITH
       Players <- Seats, Seatings <- {[p \in Seats |-> p]},
       MaxStart <- TableSize * StartingStack, MaxHands <- 1,
       Ledgers <- {}, Buttons <- Seats, Deck <- {},
       seated <- NoRound, handForHand <- FALSE, lastBatch <- NoRound,
       ledger <- NoRound, built <- NoRound, awards <- NoRound,
       question <- NoRound, dealt <- NoRound, best <- NoRound

-----------------------------------------------------------------------------
(* The seats of a table, and how many there are.                           *)
LEMMA SeatsAreFinite ==
  /\ IsFiniteSet(Seats) /\ Cardinality(Seats) = TableSize
  /\ Seats \subseteq Nat \ {0} /\ TableSize \in Seats
<1>1. IsFiniteSet(1..TableSize) /\ Cardinality(1..TableSize) = TableSize
  BY TableAssumption, FS_Interval
<1> QED
  BY <1>1, TableAssumption DEF Seats

(* The instances count sets the way this module does.                      *)
LEMMA SameCardinality ==
  /\ \A S : BP!Cardinality(S) = Cardinality(S) /\ H!Cardinality(S) = Cardinality(S)
  /\ \A S : BP!IsFiniteSet(S) <=> IsFiniteSet(S)
  /\ \A S : H!IsFiniteSet(S) <=> IsFiniteSet(S)
<1>1. \A S : BP!Cardinality(S) = Cardinality(S)
  BY DEF BP!Cardinality, Cardinality
<1>2. \A S : H!Cardinality(S) = Cardinality(S)
  BY DEF H!Cardinality, Cardinality
<1>3. \A S : BP!IsFiniteSet(S) <=> IsFiniteSet(S)
  BY DEF BP!IsFiniteSet, IsFiniteSet
<1>4. \A S : H!IsFiniteSet(S) <=> IsFiniteSet(S)
  BY DEF H!IsFiniteSet, IsFiniteSet
<1> QED
  BY <1>1, <1>2, <1>3, <1>4

(* The assumptions of the two developments hold of a session's table.      *)
LEMMA BettingApplies ==
  BP!PlayersAssumption /\ BP!ChipAssumption /\ BP!EntriesAssumption
<1>1. BP!PlayersAssumption
  BY SeatsAreFinite, SameCardinality
<1>2. BP!ChipAssumption
  BY ScheduleAssumption
<1>3. BP!EntriesAssumption
  OBVIOUS
<1> QED
  BY <1>1, <1>2, <1>3

(* The helpers of the betting round mean the same in both instances of it. *)
LEMMA SameHelpers ==
  /\ \A S : B!Cardinality(S) = BP!Cardinality(S) /\ B!Max(S) = BP!Max(S)
  /\ \A a, b : B!Larger(a, b) = BP!Larger(a, b) /\ B!Smaller(a, b) = BP!Smaller(a, b)
  /\ \A r : B!InHand(r) = BP!InHand(r) /\ B!AbleToAct(r) = BP!AbleToAct(r)
  /\ \A n : B!OnRack(n) <=> BP!OnRack(n)
<1>1. \A S : B!Cardinality(S) = BP!Cardinality(S)
  BY DEF B!Cardinality, BP!Cardinality
<1>2. \A S : B!Max(S) = BP!Max(S)
  BY DEF B!Max, BP!Max
<1>3. \A a, b : B!Larger(a, b) = BP!Larger(a, b) /\ B!Smaller(a, b) = BP!Smaller(a, b)
  BY DEF B!Larger, BP!Larger, B!Smaller, BP!Smaller
<1>4. \A r : B!InHand(r) = BP!InHand(r)
  BY DEF B!InHand, BP!InHand
<1>5. \A r : B!AbleToAct(r) = BP!AbleToAct(r)
  BY DEF B!AbleToAct, BP!AbleToAct
<1>6. \A n : B!OnRack(n) <=> BP!OnRack(n)
  BY DEF B!OnRack, BP!OnRack
<1> QED
  BY <1>1, <1>2, <1>3, <1>4, <1>5, <1>6

(* Who still owes an action is the same in both.                           *)
LEMMA SameOwing ==
  ASSUME NEW r
  PROVE  B!Owing(r) = BP!Owing(r) /\ (B!SoleMatched(r) <=> BP!SoleMatched(r))
<1>1. B!AbleToAct(r) = BP!AbleToAct(r) /\ B!NotActed = BP!NotActed
  BY SameHelpers DEF B!NotActed, BP!NotActed
<1>2. B!Owing(r) = BP!Owing(r)
  BY <1>1 DEF B!Owing, BP!Owing
<1>3. B!SoleMatched(r) <=> BP!SoleMatched(r)
  BY <1>1 DEF B!SoleMatched, BP!SoleMatched
<1> QED
  BY <1>2, <1>3

(* Recomputing the turn queue is the same in both.                         *)
LEMMA SameRecompute ==
  ASSUME NEW r, NEW from
  PROVE  B!RecomputePending(r, from) = BP!RecomputePending(r, from)
<1>1. /\ B!Cardinality(B!InHand(r)) = BP!Cardinality(BP!InHand(r))
      /\ B!AbleToAct(r) = BP!AbleToAct(r) /\ B!Owing(r) = BP!Owing(r)
      /\ (B!SoleMatched(r) <=> BP!SoleMatched(r))
  BY SameHelpers, SameOwing
<1> QED
  BY <1>1 DEF B!RecomputePending, BP!RecomputePending

(* Opening a round is the same in both.                                    *)
LEMMA SameCreate ==
  ASSUME NEW e
  PROVE  B!CreateBettingRound(e) = BP!CreateBettingRound(e)
<1> DEFINE S == {e.nominalOpeningBet} \cup {e.street[p] : p \in Seats}
           m(bet, none) ==
             [ stack |-> e.stack, street |-> e.street, total |-> e.total,
               status |-> [p \in Seats |->
                             IF e.stack[p] = 0 /\ e.status[p] = "active"
                             THEN "all-in" ELSE e.status[p]],
               turn |-> e.turn, from |-> 0, pending |-> {}, currentBet |-> bet,
               minimumBet |-> e.minimumBet, lastFullRaise |-> e.minimumBet,
               lastActedAtBet |-> [p \in Seats |-> none],
               complete |-> FALSE, handComplete |-> FALSE ]
<1>1. B!CreateBettingRound(e) = B!RecomputePending(m(B!Max(S), B!NotActed), 0)
  BY DEF B!CreateBettingRound
<1>2. BP!CreateBettingRound(e) = BP!RecomputePending(m(BP!Max(S), BP!NotActed), 0)
  BY DEF BP!CreateBettingRound
<1>3. B!Max(S) = BP!Max(S) /\ B!NotActed = BP!NotActed
  BY SameHelpers DEF B!NotActed, BP!NotActed
<1> HIDE DEF m, S
<1> QED
  BY <1>1, <1>2, <1>3, SameRecompute

(* Committing chips and folding are the same in both.                      *)
LEMMA SameCommit ==
  ASSUME NEW r, NEW p, NEW to
  PROVE  /\ B!CommitTo(r, p, to) = BP!CommitTo(r, p, to)
         /\ B!FoldHand(r, p) = BP!FoldHand(r, p)
<1>1. B!IsFullRaise(r, to) <=> BP!IsFullRaise(r, to)
  BY DEF B!IsFullRaise, BP!IsFullRaise
<1>2. \A paid : B!StatusAfter(r, p, paid) = BP!StatusAfter(r, p, paid)
  BY DEF B!StatusAfter, BP!StatusAfter
<1> DEFINE paid == to - r.street[p]
           m(bet, st, full) ==
             [r EXCEPT !.stack[p] = @ - paid, !.street[p] = to, !.total[p] = @ + paid,
                       !.status[p] = st, !.currentBet = bet,
                       !.lastFullRaise = IF to > r.currentBet /\ full
                                         THEN to - r.currentBet ELSE @,
                       !.lastActedAtBet[p] = bet]
<1>3. B!CommitTo(r, p, to) = B!RecomputePending(
        m(B!Larger(r.currentBet, to), B!StatusAfter(r, p, paid), B!IsFullRaise(r, to)), r.turn[p])
  BY DEF B!CommitTo
<1>4. BP!CommitTo(r, p, to) = BP!RecomputePending(
        m(BP!Larger(r.currentBet, to), BP!StatusAfter(r, p, paid), BP!IsFullRaise(r, to)), r.turn[p])
  BY DEF BP!CommitTo
<1>5. m(B!Larger(r.currentBet, to), B!StatusAfter(r, p, paid), B!IsFullRaise(r, to))
        = m(BP!Larger(r.currentBet, to), BP!StatusAfter(r, p, paid), BP!IsFullRaise(r, to))
  BY <1>1, <1>2, SameHelpers
<1> HIDE DEF m
<1>6. B!CommitTo(r, p, to) = BP!CommitTo(r, p, to)
  BY <1>3, <1>4, <1>5, SameRecompute
<1>7. B!FoldHand(r, p) = BP!FoldHand(r, p)
  BY SameRecompute DEF B!FoldHand, BP!FoldHand
<1> QED
  BY <1>6, <1>7

(* Whose turn it is is the same in both.                                   *)
LEMMA SameTurn ==
  ASSUME NEW p \in Seats
  PROVE  B!HasTurn(p) <=> BP!HasTurn(p)
<1>1. \A q : B!Distance(round, q) = BP!Distance(round, q)
  BY SameHelpers DEF B!Distance, BP!Distance
<1>2. B!NextToAct(round) = BP!NextToAct(round)
  BY <1>1 DEF B!NextToAct, BP!NextToAct
<1> QED
  BY <1>2 DEF B!HasTurn, BP!HasTurn

(* What may be called, bet, raised or pushed is the same in both.          *)
LEMMA SameTargets ==
  ASSUME NEW r, NEW p
  PROVE  /\ B!ToCall(r, p) = BP!ToCall(r, p) /\ B!CallTo(r, p) = BP!CallTo(r, p)
         /\ B!AllInTo(r, p) = BP!AllInTo(r, p)
         /\ B!BetTargets(r, p) = BP!BetTargets(r, p)
         /\ B!RaiseTargets(r, p) = BP!RaiseTargets(r, p)
         /\ B!LegalAllIn(r, p) <=> BP!LegalAllIn(r, p)
<1>1. B!ToCall(r, p) = BP!ToCall(r, p)
  BY SameHelpers DEF B!ToCall, BP!ToCall
<1>2. B!CallTo(r, p) = BP!CallTo(r, p)
  BY <1>1, SameHelpers DEF B!CallTo, BP!CallTo
<1>3. B!AllInTo(r, p) = BP!AllInTo(r, p) /\ B!MinRaiseTo(r) = BP!MinRaiseTo(r)
  BY DEF B!AllInTo, BP!AllInTo, B!MinRaiseTo, BP!MinRaiseTo
<1>4. \A lo, hi : B!Payable(lo, hi) = BP!Payable(lo, hi)
  BY DEF B!Payable, BP!Payable
<1>5. B!CanIncreaseBet(r, p) <=> BP!CanIncreaseBet(r, p)
  BY <1>3 DEF B!CanIncreaseBet, BP!CanIncreaseBet, B!RaisingReopenedFor, BP!RaisingReopenedFor,
              B!NotActed, BP!NotActed
<1>6. B!BetTargets(r, p) = BP!BetTargets(r, p)
  BY <1>3, <1>4 DEF B!BetTargets, BP!BetTargets
<1>7. B!RaiseTargets(r, p) = BP!RaiseTargets(r, p)
  BY <1>3, <1>4, <1>5 DEF B!RaiseTargets, BP!RaiseTargets
<1>8. B!LegalAllIn(r, p) <=> BP!LegalAllIn(r, p)
  BY <1>3, <1>5 DEF B!LegalAllIn, BP!LegalAllIn
<1> QED
  BY <1>1, <1>2, <1>3, <1>6, <1>7, <1>8

(* A player's action is the same in both.                                  *)
LEMMA SameAct ==
  ASSUME NEW p \in Seats
  PROVE  B!Act(p) <=> BP!Act(p)
<1>1. /\ B!HasTurn(p) <=> BP!HasTurn(p)
      /\ \A to : B!CommitTo(round, p, to) = BP!CommitTo(round, p, to)
      /\ B!FoldHand(round, p) = BP!FoldHand(round, p)
  BY SameTurn, SameCommit
<1>2. B!Fold(p) <=> BP!Fold(p)
  BY <1>1 DEF B!Fold, BP!Fold
<1>3. B!Check(p) <=> BP!Check(p)
  BY <1>1, SameTargets DEF B!Check, BP!Check, B!LegalCheck, BP!LegalCheck
<1>4. B!Call(p) <=> BP!Call(p)
  BY <1>1, SameTargets DEF B!Call, BP!Call, B!LegalCall, BP!LegalCall
<1>5. B!Bet(p) <=> BP!Bet(p)
  BY <1>1, SameTargets DEF B!Bet, BP!Bet
<1>6. B!Raise(p) <=> BP!Raise(p)
  BY <1>1, SameTargets DEF B!Raise, BP!Raise
<1>7. B!AllIn(p) <=> BP!AllIn(p)
  BY <1>1, SameTargets DEF B!AllIn, BP!AllIn
<1> QED
  BY <1>2, <1>3, <1>4, <1>5, <1>6, <1>7 DEF B!Act, BP!Act

(* Which rounds may be opened is the same in both.                         *)
LEMMA SameEntry ==
  ASSUME NEW e
  PROVE  (B!ValidEntry(e) <=> BP!ValidEntry(e)) /\ (B!EntryOnRack(e) <=> BP!EntryOnRack(e))
<1>1. B!EntryShape = BP!EntryShape
  BY DEF B!EntryShape, BP!EntryShape, B!Statuses, BP!Statuses
<1>2. B!ValidEntry(e) <=> BP!ValidEntry(e)
  BY <1>1, SameHelpers DEF B!ValidEntry, BP!ValidEntry
<1>3. B!EntryOnRack(e) <=> BP!EntryOnRack(e)
  BY SameHelpers DEF B!EntryOnRack, BP!EntryOnRack
<1> QED
  BY <1>2, <1>3

(* What the lemmas about pots and places assume holds of a session's       *)
(* table.                                                                  *)
LEMMA PotsApply ==
  /\ H!TableAssumption /\ H!SmallestChipAssumption /\ H!LedgersAssumption
  /\ H!ShowdownAssumption /\ H!FieldAssumption /\ H!ListAssumption /\ H!BatchAssumption
  /\ H!DeckAssumption
<1>1. H!TableAssumption
  BY TableAssumption DEF Seats
<1>2. H!SmallestChipAssumption
  BY ScheduleAssumption
<1>3. H!LedgersAssumption
  OBVIOUS
<1>4. H!ShowdownAssumption
  BY SeatsAreFinite DEF Ranks, Seats
<1>5. H!FieldAssumption
  BY SeatsAreFinite, SameCardinality, TableAssumption
<1>6. H!ListAssumption
  BY SeatsAreFinite
<1>7. H!BatchAssumption
  BY TableAssumption, ScheduleAssumption
<1>8. H!DeckAssumption
  OBVIOUS
<1> QED
  BY <1>1, <1>2, <1>3, <1>4, <1>5, <1>6, <1>7, <1>8

(* Totals and maxima are the same in the instances.                        *)
LEMMA SameSums ==
  /\ \A f : Total(f) = H!Total(f)
  /\ \A f : P!Total(f) = H!Total(f)
  /\ \A S : P!Max(S) = H!Max(S) /\ Max(S) = H!Max(S)
<1>1. \A f : Total(f) = H!Total(f)
  BY DEF Total, H!Total, FoldFunction, H!FoldFunction, FoldFunctionOnSet, H!FoldFunctionOnSet,
         MapThenFoldSet, H!MapThenFoldSet
<1>2. \A f : P!Total(f) = H!Total(f)
  BY DEF P!Total, H!Total, P!FoldFunction, H!FoldFunction, P!FoldFunctionOnSet, H!FoldFunctionOnSet,
         P!MapThenFoldSet, H!MapThenFoldSet
<1>3. \A S : P!Max(S) = H!Max(S)
  BY DEF P!Max, H!Max
<1>4. \A S : Max(S) = H!Max(S)
  BY DEF Max, H!Max
<1> QED
  BY <1>1, <1>2, <1>3, <1>4

(* A layer of the pots is the same in both instances of them.              *)
LEMMA SameLayer ==
  ASSUME NEW l, NEW acc, NEW cap
  PROVE  P!AddLayer(l, acc, cap) = H!AddLayer(l, acc, cap)
<1>1. P!Contributors(l, cap) = H!Contributors(l, cap)
  BY DEF P!Contributors, H!Contributors
<1>2. \A S : P!Cardinality(S) = H!Cardinality(S)
  BY DEF P!Cardinality, H!Cardinality
<1>3. \A a : P!Flush(a) = H!Flush(a)
  BY DEF P!Flush, H!Flush, P!NoPot, H!NoPot
<1>4. P!AllInCaps(l) = H!AllInCaps(l)
  BY DEF P!AllInCaps, H!AllInCaps
<1> QED
  BY <1>1, <1>2, <1>3, <1>4 DEF P!AddLayer, H!AddLayer

(* The pots of a hand are the same in both.                                *)
LEMMA SamePots ==
  ASSUME NEW l
  PROVE  P!BuildPots(l) = H!BuildPots(l)
<1>1. \A a : P!Flush(a) = H!Flush(a)
  BY DEF P!Flush, H!Flush, P!NoPot, H!NoPot
<1>2. P!AmountLevels(l) = H!AmountLevels(l) /\ P!NoPot = H!NoPot
  BY DEF P!AmountLevels, H!AmountLevels, P!NoPot, H!NoPot
<1> QED
  BY <1>1, <1>2, SameLayer, SameSums
     DEF P!BuildPots, H!BuildPots, P!MapThenFoldSet, H!MapThenFoldSet

(* The way round the table is the same in both.                            *)
LEMMA SameClock ==
  \A p, q : P!ClockwiseDistance(p, q) = H!ClockwiseDistance(p, q)
  BY DEF P!ClockwiseDistance, H!ClockwiseDistance

(* What a pot pays, and whether it divides, is the same in both.           *)
LEMMA SameAwards ==
  ASSUME NEW pot, NEW rank, NEW from
  PROVE  /\ P!Awards(pot, rank, from) = H!Awards(pot, rank, from)
         /\ P!Indivisible(pot, rank) <=> H!Indivisible(pot, rank)
<1>1. \A S : P!Cardinality(S) = H!Cardinality(S)
  BY DEF P!Cardinality, H!Cardinality
<1>2. P!Winners(pot, rank) = H!Winners(pot, rank)
  BY DEF P!Winners, H!Winners
<1>3. \A w : P!Share(pot, w) = H!Share(pot, w)
  BY <1>1 DEF P!Share, H!Share
<1>4. \A w : P!OddChips(pot, w) = H!OddChips(pot, w)
  BY <1>1, <1>3 DEF P!OddChips, H!OddChips
<1>5. P!Indivisible(pot, rank) <=> H!Indivisible(pot, rank)
  BY <1>1, <1>2, <1>3 DEF P!Indivisible, H!Indivisible
<1>6. P!Awards(pot, rank, from) = H!Awards(pot, rank, from)
  BY <1>1, <1>2, <1>3, <1>4, SameClock DEF P!Awards, H!Awards
<1> QED
  BY <1>5, <1>6

(* A pot nobody can win is the same in both.                               *)
LEMMA SameUnwinnable ==
  \A b : P!Unwinnable(b) <=> H!Unwinnable(b)
  BY DEF P!Unwinnable, H!Unwinnable

(* The places a hand gives are the same in both instances of them.         *)
LEMMA SamePlaces ==
  ASSUME NEW batch, NEW order, NEW active
  PROVE  F!PlacesInHand(batch, order, active) = H!PlacesInHand(batch, order, active)
<1>1. \A S : F!Cardinality(S) = H!Cardinality(S)
  BY DEF F!Cardinality, H!Cardinality
<1>2. \A p : F!Twins(batch, p) = H!Twins(batch, p)
  BY DEF F!Twins, H!Twins
<1>3. \A p : F!FirstTwin(batch, order, p) = H!FirstTwin(batch, order, p)
  BY <1>2 DEF F!FirstTwin, H!FirstTwin
<1>4. \A p : F!Ahead(batch, p) = H!Ahead(batch, p)
  BY DEF F!Ahead, H!Ahead, F!SameHand, H!SameHand
<1>5. F!BestPlace(batch, active) = H!BestPlace(batch, active)
  BY <1>1 DEF F!BestPlace, H!BestPlace
<1> QED
  BY <1>1, <1>2, <1>3, <1>4, <1>5 DEF F!PlacesInHand, H!PlacesInHand

(* Writing the places down is the same in both.                            *)
LEMMA SamePlaced ==
  ASSUME NEW places, NEW given
  PROVE  F!Placed(places, given) = H!Placed(places, given)
  BY DEF F!Placed, H!Placed, F!Unplaced, H!Unplaced

-----------------------------------------------------------------------------
(* Chips and blinds.                                                       *)

Chip(n) == n % SmallestChip = 0

(* A multiple of a multiple is one.                                        *)
LEMMA Multiples ==
  ASSUME NEW k \in Nat \ {0}, NEW a \in Int, a % k = 0, NEW n \in Int
  PROVE  (a * n) % k = 0
<1>1. a = k * (a \div k) /\ a \div k \in Int
  OBVIOUS
<1> DEFINE j == a \div k
<1>2. j \in Int /\ a = k * j
  BY <1>1
<1> HIDE DEF j
<1>3. a * n = k * (j * n) /\ j * n \in Int
  BY <1>2
<1>4. \A m \in Int : (k * m) % k = 0
  OBVIOUS
<1> QED
  BY <1>3, <1>4

(* Rounding up to friendly amounts.                                        *)
LEMMA RoundsUp ==
  ASSUME NEW n \in Nat
  PROVE  /\ RoundUp(n) \in Nat /\ n <= RoundUp(n) /\ Chip(RoundUp(n))
         /\ n >= 1 => Friendly <= RoundUp(n)
         /\ \A m \in Nat : n <= m * Friendly => RoundUp(n) <= m * Friendly
<1> DEFINE unit == Friendly
           q == (n + unit - 1) \div unit
<1>1. unit \in Nat \ {0} /\ unit % SmallestChip = 0 /\ SmallestChip \in Nat \ {0}
  BY TimedAssumption, ScheduleAssumption
<1> HIDE DEF unit
<1>2. q \in Int /\ unit * q <= n + unit - 1 /\ n + unit - 1 < unit * q + unit
  BY <1>1
<1>3. RoundUp(n) = q * unit
  BY DEF RoundUp, unit
<1> HIDE DEF q
<1>4. q * unit = unit * q /\ unit * q \in Int
  BY <1>1, <1>2
<1>5. n <= unit * q
  BY <1>1, <1>2, <1>4
<1>6. Chip(unit * q)
  <2> DEFINE k == SmallestChip
  <2>1. k \in Nat \ {0} /\ unit \in Int /\ unit % k = 0 /\ q \in Int
    BY <1>1, <1>2
  <2> HIDE DEF k
  <2>2. (unit * q) % k = 0
    BY ONLY <2>1, Multiples
  <2> QED
    BY <2>2 DEF Chip, k
<1>7. ASSUME n >= 1
      PROVE  unit <= unit * q
  <2>1. q >= 1
    <3> SUFFICES ASSUME q <= 0 PROVE FALSE
      BY <1>2
    <3>1. unit * q <= 0
      BY <1>1, <1>2
    <3> QED
      BY <3>1, <1>4, <1>5, <1>7
  <2> QED
    BY <2>1, <1>1, <1>2
<1>8. ASSUME NEW m \in Nat, n <= m * unit
      PROVE  unit * q <= m * unit
  <2> SUFFICES ASSUME q >= m + 1 PROVE FALSE
    <3>1. q <= m => unit * q <= m * unit
      BY <1>1, <1>2
    <3> QED
      BY <3>1, <1>2
  <2>1. unit * q >= unit * (m + 1)
    BY <1>1, <1>2
  <2>2. unit * (m + 1) = m * unit + unit /\ m * unit \in Int
    BY <1>1
  <2> QED
    BY <2>1, <2>2, <1>1, <1>2, <1>4, <1>8
<1> QED
  BY <1>3, <1>4, <1>5, <1>6, <1>7, <1>8 DEF unit

(* Blinds a hand can be played with.                                       *)
GoodBlinds(b) ==
  /\ b \in [small : Nat, big : Nat \ {0}]
  /\ b.small <= b.big /\ Chip(b.small) /\ Chip(b.big)

(* Every level of the schedule has blinds the chips can post.              *)
LEMMA LevelsAreGood ==
  ASSUME NEW i \in 1..Len(Levels)
  PROVE  GoodBlinds(Levels[i])
<1> DEFINE Blind == [small : Nat, big : Nat \ {0}]
<1>0. Levels \in Seq(Blind)
  BY ScheduleAssumption
<1> HIDE DEF Blind
<1>1. i \in DOMAIN Levels /\ Levels[i] \in Blind
  BY <1>0
<1> USE DEF Blind
<1> QED
  BY <1>1, ScheduleAssumption, BlindsAssumption DEF GoodBlinds, Chip

(* So has the level the director raises a timed tournament to.             *)
LEMMA DirectedIsGood ==
  ASSUME GoodBlinds(blinds), NEW target \in Nat \ {0}
  PROVE  GoodBlinds(DirectedTo(target)) /\ DirectedTo(target).big >= target
<1> DEFINE up == RoundUp(target)
           big == B!Larger(blinds.big, up)
           half == (big + 1) \div 2
           small == B!Larger(blinds.small, RoundUp(half))
           unit == Friendly
<1>1. unit \in Nat \ {0}
  BY TimedAssumption
<1>2. up \in Nat /\ target <= up /\ Chip(up) /\ unit <= up
  BY RoundsUp
<1>3. blinds.small \in Nat /\ blinds.big \in Nat \ {0} /\ blinds.small <= blinds.big
      /\ Chip(blinds.small) /\ Chip(blinds.big)
  BY DEF GoodBlinds
<1>4. DirectedTo(target) = [small |-> small, big |-> big]
  BY DEF DirectedTo
<1> HIDE DEF up, unit
<1>5. /\ big \in Nat \ {0} /\ target <= big /\ Chip(big) /\ unit <= big /\ blinds.big <= big
  BY <1>1, <1>2, <1>3 DEF B!Larger
<1> HIDE DEF big
<1>6. half \in Nat /\ 2 * half <= big + 1
  BY <1>5
<1> HIDE DEF half
<1>7. RoundUp(half) <= big
  <2> DEFINE k == big \div unit
  <2>1. k \in Int /\ unit * k <= big /\ big < unit * k + unit
    BY <1>1, <1>5
  <2> HIDE DEF k
  <2>2. k >= 1
    <3> SUFFICES ASSUME k <= 0 PROVE FALSE
      BY <2>1
    <3>1. unit * k <= 0 /\ unit * k \in Int
      BY <1>1, <2>1
    <3> QED
      BY <3>1, <2>1, <1>1, <1>5
  <2>3. unit * k >= unit /\ unit * k = k * unit /\ unit * k \in Int
    BY <2>1, <2>2, <1>1
  <2>4. half <= k * unit
    BY <2>1, <2>3, <1>1, <1>5, <1>6
  <2>5. RoundUp(half) <= k * unit
    <3>1. \A m \in Nat : half <= m * Friendly => RoundUp(half) <= m * Friendly
      BY <1>6, RoundsUp
    <3> QED
      BY <3>1, <2>1, <2>2, <2>4 DEF unit
  <2>6. RoundUp(half) \in Nat
    BY <1>6, RoundsUp
  <2> QED
    BY <2>1, <2>3, <2>5, <2>6, <1>5
<1>8. RoundUp(half) \in Nat /\ Chip(RoundUp(half))
  BY <1>6, RoundsUp
<1>9. small \in Nat /\ small <= big /\ Chip(small)
  BY <1>3, <1>5, <1>7, <1>8 DEF B!Larger
<1> QED
  BY <1>4, <1>5, <1>9 DEF GoodBlinds

(* Sums over the table.                                                    *)
LEMMA OverPlus ==
  ASSUME NEW S, NEW f, NEW g, NEW h, H!IntOver(f, S), H!IntOver(g, S),
         \A x \in S : h[x] = f[x] + g[x]
  PROVE  H!SumOver(h, S) = H!SumOver(f, S) + H!SumOver(g, S)
  BY H!SumPlus, PotsApply

(* A sum of no larger terms is no larger.                                  *)
LEMMA OverMonotone ==
  ASSUME NEW S, NEW f, NEW g, H!IntOver(f, S), H!IntOver(g, S), \A x \in S : f[x] <= g[x]
  PROVE  H!SumOver(f, S) <= H!SumOver(g, S)
  BY H!SumMonotone, PotsApply

(* A sum of naturals is one, and no term exceeds it.                       *)
LEMMA OverNats ==
  ASSUME NEW S, NEW f, H!IntOver(f, S), \A x \in S : f[x] >= 0
  PROVE  H!SumOver(f, S) \in Nat /\ \A x \in S : f[x] <= H!SumOver(f, S)
  BY H!SumOfNats, PotsApply

(* A total is the sum over the seats.                                      *)
LEMMA TotalIsOver ==
  ASSUME NEW f, f \in [Seats -> Int]
  PROVE  /\ H!IntOver(f, Seats) /\ Total(f) = H!SumOver(f, Seats)
         /\ Total(f) \in Int
<1>1. H!IntOver(f, Seats)
  BY SeatsAreFinite, SameCardinality DEF H!IntOver
<1>2. Total(f) = H!SumOver(f, Seats)
  BY SameSums, H!TotalIsSum, PotsApply
<1>3. H!SumOver(f, Seats) \in Int
  BY <1>1, H!SumTakesOut, PotsApply
<1> QED
  BY <1>1, <1>2, <1>3

(* The total of two columns is the sum of their totals.                    *)
LEMMA TotalsAdd ==
  ASSUME NEW f, f \in [Seats -> Int], NEW g, g \in [Seats -> Int]
  PROVE  /\ Total(Plus(f, g)) = Total(f) + Total(g)
         /\ Total(Minus(f, g)) = Total(f) - Total(g)
<1> DEFINE h == Plus(f, g)
           d == Minus(f, g)
<1>1. h \in [Seats -> Int] /\ \A p \in Seats : h[p] = f[p] + g[p]
  BY DEF Plus
<1>2. d \in [Seats -> Int] /\ \A p \in Seats : d[p] = f[p] - g[p]
  BY DEF Minus
<1>3. \A p \in Seats : f[p] = d[p] + g[p]
  BY <1>2
<1> HIDE DEF h, d
<1>4. H!IntOver(f, Seats) /\ H!IntOver(g, Seats) /\ H!IntOver(d, Seats)
  BY <1>2, TotalIsOver
<1>a. \A p \in Seats : h[p] = f[p] + g[p]
  BY <1>1
<1>5. H!SumOver(h, Seats) = H!SumOver(f, Seats) + H!SumOver(g, Seats)
  BY <1>a, <1>4, OverPlus
<1>6. H!SumOver(f, Seats) = H!SumOver(d, Seats) + H!SumOver(g, Seats)
  BY <1>3, <1>4, OverPlus
<1>7. /\ Total(f) = H!SumOver(f, Seats) /\ Total(g) = H!SumOver(g, Seats)
      /\ Total(d) = H!SumOver(d, Seats) /\ Total(h) = H!SumOver(h, Seats)
      /\ Total(f) \in Int /\ Total(g) \in Int /\ Total(d) \in Int
  BY <1>1, <1>2, TotalIsOver
<1>8. Total(h) = Total(f) + Total(g) /\ Total(d) = Total(f) - Total(g)
  BY <1>5, <1>6, <1>7
<1> QED
  BY <1>8 DEF h, d

(* The total of naturals is one, and no entry exceeds it.                  *)
LEMMA TotalOfNats ==
  ASSUME NEW f, f \in [Seats -> Nat]
  PROVE  Total(f) \in Nat /\ \A p \in Seats : f[p] <= Total(f)
<1>1. \A p \in Seats : f[p] >= 0
  OBVIOUS
<1>2. f \in [Seats -> Int]
  OBVIOUS
<1>3. H!IntOver(f, Seats) /\ Total(f) = H!SumOver(f, Seats)
  BY <1>2, TotalIsOver
<1> QED
  BY <1>1, <1>3, OverNats

(* A column no larger anywhere has no larger total.                        *)
LEMMA TotalsCompare ==
  ASSUME NEW f, f \in [Seats -> Int], NEW g, g \in [Seats -> Int],
         \A p \in Seats : f[p] <= g[p]
  PROVE  Total(f) <= Total(g)
<1>1. /\ H!IntOver(f, Seats) /\ Total(f) = H!SumOver(f, Seats)
      /\ H!IntOver(g, Seats) /\ Total(g) = H!SumOver(g, Seats)
  BY TotalIsOver
<1>2. \A p \in Seats : f[p] <= g[p]
  OBVIOUS
<1> QED
  BY <1>1, <1>2, OverMonotone

(* The total of equal entries.                                             *)
LEMMA TotalOfEqual ==
  ASSUME NEW k \in Int
  PROVE  Total([p \in Seats |-> k]) = TableSize * k
<1> DEFINE f == [p \in Seats |-> k]
<1>1. f \in [Seats -> Int] /\ \A p \in Seats : f[p] = IF p \in Seats THEN k ELSE 0
  OBVIOUS
<1> HIDE DEF f
<1>2. Total(f) = H!SumOver(f, Seats)
  BY <1>1, TotalIsOver
<1>3. H!IsFiniteSet(Seats) /\ Seats \in SUBSET Seats
  BY SeatsAreFinite, SameCardinality
<1>4. H!SumOver(f, Seats) = k * H!Cardinality(Seats)
  BY <1>1, <1>3, H!SumCounts, PotsApply
<1>5. H!Cardinality(Seats) = TableSize
  BY SeatsAreFinite, SameCardinality
<1>6. k * TableSize = TableSize * k
  BY TableAssumption
<1> QED
  BY <1>2, <1>4, <1>5, <1>6 DEF f

-----------------------------------------------------------------------------
(* The invariant.                                                          *)

(* The chips a player owns: what he began the hand with, or his stack.     *)
Owned == IF InPlay THEN hand.start ELSE stack

Shape ==
  /\ stack \in [Seats -> Nat] /\ place \in [Seats -> Nat]
  /\ button \in Seats /\ level \in 1..Len(Levels)
  /\ phase \in {Phases[i] : i \in DOMAIN Phases} /\ (~Timed => phase = "opening")
  /\ GoodBlinds(blinds)
  /\ \A p \in Seats : Chip(stack[p])

(* Who is in has chips and who is out has none; a winner has them all.     *)
Field ==
  /\ Owned \in [Seats -> Nat] /\ Total(Owned) = TableSize * StartingStack
  /\ Cardinality(Active) # 1
  /\ Active # {} => \A p \in Seats : p \in Active <=> Owned[p] > 0

HandShape ==
  /\ hand \in [street : Nat, start : [Seats -> Nat]]
  /\ Cardinality(Active) >= 2
  /\ \A p \in Seats \ Active : round.status[p] = "folded"

(* The betting round is sound, its pots can be won, and its numbers are the*)
(* session's.                                                              *)
RoundSound ==
  /\ BP!RoundInv(round) /\ BP!Seated(round) /\ BP!Stakes(round) /\ BP!RoundOnRack(round)
  /\ round.stack = stack
  /\ \A p \in Seats : stack[p] + round.total[p] = hand.start[p]

(* The physical chips are where the numbers say.                           *)
InRack ==
  chips = [ rack |-> stack,
            bet |-> IF InPlay THEN round.street ELSE Nothing,
            collected |-> IF InPlay THEN Minus(round.total, round.street) ELSE Nothing ]

(* A round nobody has acted in, and the hands begun at the deadline.       *)
JustOpened ==
  round.from = 0 => BP!ValidEntry(OpenedWith) /\ BP!EntryOnRack(OpenedWith)
Forced ==
  hand.street = 0 /\ phase = "deadline" =>
    \A p, q \in Seats :
      hand.start[p] > round.currentBet /\ hand.start[q] > round.currentBet => p = q

SInv ==
  /\ Shape /\ Field /\ InRack
  /\ InPlay => HandShape /\ RoundSound /\ JustOpened /\ Forced

(* A new session is sound.                                                 *)
LEMMA InitSInv == Init => SInv
<1> SUFFICES ASSUME Init PROVE SInv
  OBVIOUS
<1> USE DEF Init
<1>1. ~InPlay /\ Active = Seats
  BY DEF InPlay, Active
<1>2. StartingStack \in Nat \ {0} /\ Chip(StartingStack)
  BY ScheduleAssumption DEF Chip
<1>3. GoodBlinds(Levels[1]) /\ 1 \in 1..Len(Levels)
  <2>1. Len(Levels) \in Nat /\ Len(Levels) > 0
    BY ScheduleAssumption
  <2> QED
    BY <2>1, LevelsAreGood
<1>4. Shape
  <2>1. 1 \in DOMAIN Phases /\ Phases[1] = "opening"
    BY DEF Phases
  <2>2. 1 \in Seats
    BY TableAssumption DEF Seats
  <2> QED
    BY <1>2, <1>3, <2>1, <2>2 DEF Shape
<1>5. Field
  <2>1. Owned = stack
    BY <1>1 DEF Owned
  <2>2. Cardinality(Active) >= 2 /\ Cardinality(Active) \in Nat
    BY <1>1, SeatsAreFinite, TableAssumption
  <2>3. Total(stack) = TableSize * StartingStack
    <3>1. StartingStack \in Int
      BY <1>2
    <3> QED
      BY <3>1, TotalOfEqual
  <2> QED
    BY <2>1, <2>2, <2>3, <1>1, <1>2 DEF Field
<1>6. InRack
  BY <1>1 DEF InRack
<1> QED
  BY <1>1, <1>4, <1>5, <1>6 DEF SInv

-----------------------------------------------------------------------------
(* A player's action.                                                      *)

(* The columns of a sound round.                                           *)
LEMMA RoundTypes ==
  ASSUME NEW r, BP!RoundInv(r)
  PROVE  /\ r.stack \in [Seats -> Nat] /\ r.street \in [Seats -> Nat]
         /\ r.total \in [Seats -> Nat] /\ r.currentBet \in Nat
         /\ \A p \in Seats : r.street[p] <= r.total[p]
  BY DEF BP!RoundInv, BP!RoundShape, BP!Ledger

(* The betting round and the session mean the same chips by a rack.        *)
LEMMA OnTheRack ==
  \A n : BP!OnRack(n) <=> Chip(n)
  BY DEF BP!OnRack, Chip

(* The fields of the ledger after a wager.                                 *)
LEMMA WagerIs ==
  ASSUME NEW a, NEW b, NEW c, NEW d
  PROVE  Wager([rack |-> a, bet |-> b, collected |-> c], d)
           = [rack |-> Minus(a, d), bet |-> Plus(b, d), collected |-> c]
<1> DEFINE m == Minus(a, d)
           n == Plus(b, d)
           x == [rack |-> a, bet |-> b, collected |-> c]
           y == [rack |-> m, bet |-> b, collected |-> c]
<1>1. x.rack = a /\ x.bet = b
  OBVIOUS
<1>2. Wager(x, d) = [[x EXCEPT !.rack = m] EXCEPT !.bet = n]
  BY <1>1 DEF Wager
<1> HIDE DEF m, n
<1>3. [x EXCEPT !.rack = m] = y
  OBVIOUS
<1>4. [y EXCEPT !.bet = n] = [rack |-> m, bet |-> n, collected |-> c]
  OBVIOUS
<1> HIDE DEF x, y
<1>5. Wager(x, d) = [rack |-> m, bet |-> n, collected |-> c]
  BY <1>2, <1>3, <1>4
<1> QED
  BY <1>5 DEF m, n, x

(* The physical chips follow a wager.                                      *)
LEMMA WagerFollows ==
  ASSUME NEW s, s \in [Seats -> Nat], NEW t, t \in [Seats -> Nat], NEW u, u \in [Seats -> Nat],
         NEW s1, s1 \in [Seats -> Nat], NEW t1, t1 \in [Seats -> Nat], NEW u1, u1 \in [Seats -> Nat],
         \A q \in Seats : /\ s1[q] + t1[q] = s[q] + t[q] /\ t1[q] - u1[q] = t[q] - u[q]
  PROVE  Wager([rack |-> s, bet |-> u, collected |-> Minus(t, u)], Minus(t1, t))
           = [rack |-> s1, bet |-> u1, collected |-> Minus(t1, u1)]
<1>0. \A q \in Seats :
        /\ s[q] - (t1[q] - t[q]) = s1[q] /\ u[q] + (t1[q] - t[q]) = u1[q]
        /\ t1[q] - u1[q] = t[q] - u[q]
  <2> TAKE q \in Seats
  <2>1. /\ s[q] \in Int /\ t[q] \in Int /\ u[q] \in Int
        /\ s1[q] \in Int /\ t1[q] \in Int /\ u1[q] \in Int
    OBVIOUS
  <2>2. s1[q] + t1[q] = s[q] + t[q] /\ t1[q] - u1[q] = t[q] - u[q]
    OBVIOUS
  <2> QED
    BY ONLY <2>1, <2>2
<1> DEFINE d == [q \in Seats |-> t1[q] - t[q]]
<1>1. [q \in Seats |-> s[q] - (t1[q] - t[q])] = s1
  BY <1>0
<1>2. [q \in Seats |-> u[q] + (t1[q] - t[q])] = u1
  BY <1>0
<1>3. Minus(t1, u1) = Minus(t, u)
  BY <1>0 DEF Minus
<1>4. Minus(t1, t) = d /\ \A q \in Seats : d[q] = t1[q] - t[q]
  BY DEF Minus
<1> HIDE DEF d
<1>5. Minus(s, d) = s1 /\ Plus(u, d) = u1
  BY <1>1, <1>2, <1>4 DEF Minus, Plus
<1> QED
  BY <1>3, <1>4, <1>5, WagerIs

(* A player's action keeps the session sound: the physical chips follow    *)
(* the wager.                                                              *)
LEMMA PlayerActKeeps ==
  ASSUME SInv, NEW p \in Seats, PlayerAct(p)
  PROVE  SInv'
<1>1. InPlay /\ B!Act(p)
  BY DEF PlayerAct
<1>2. Shape /\ Field /\ InRack /\ HandShape /\ RoundSound /\ Forced
  BY <1>1 DEF SInv
<1>3. BP!Act(p)
  BY <1>1, SameAct
<1>4. BP!RoundInv(round) /\ BP!Seated(round) /\ BP!Stakes(round) /\ BP!RoundOnRack(round)
  BY <1>2 DEF RoundSound
<1>5. BP!RoundInv(round')
  BY <1>3, <1>4, BP!ActMoves, BettingApplies
<1>6. BP!Stakes(round') /\ BP!Seated(round')
  BY <1>3, <1>4, BP!ActKeepsStakes, BettingApplies
<1>7. BP!RoundOnRack(round')
  BY <1>3, <1>4, BP!ActOnRack, BettingApplies
<1>8. BP!Pays(round, round', p)
  BY <1>3, <1>4, BP!ActPays, BettingApplies
<1>9. /\ stack' = round'.stack
      /\ chips' = Wager(chips, Minus(round'.total, round.total))
      /\ UNCHANGED <<place, button, level, blinds, phase, status, hand>>
  BY DEF PlayerAct
<1>10. InPlay' /\ Active' = Active
  BY <1>1, <1>9 DEF InPlay, Active
<1>11. /\ round.stack = stack
       /\ \A q \in Seats : stack[q] + round.total[q] = hand.start[q]
  BY <1>2 DEF RoundSound
<1>12. /\ \A q \in Seats : /\ round'.stack[q] + round'.total[q] = round.stack[q] + round.total[q]
                           /\ round'.total[q] - round'.street[q] = round.total[q] - round.street[q]
                           /\ round.status[q] = "folded" => round'.status[q] = "folded"
       /\ round'.currentBet >= round.currentBet /\ round'.from # 0
  BY <1>8 DEF BP!Pays
<1>13. RoundSound'
  BY <1>5, <1>6, <1>7, <1>9, <1>11, <1>12 DEF RoundSound
<1>14. HandShape'
  BY <1>2, <1>9, <1>10, <1>12 DEF HandShape
<1>15. JustOpened'
  BY <1>12 DEF JustOpened
<1>16. Forced'
  <2>1. round.currentBet \in Nat /\ round'.currentBet \in Nat
    BY <1>4, <1>5, RoundTypes
  <2>2. \A q \in Seats : hand.start[q] \in Nat
    BY <1>2 DEF HandShape
  <2>3. \A q \in Seats : hand.start[q] > round'.currentBet => hand.start[q] > round.currentBet
    BY <2>1, <2>2, <1>12
  <2> QED
    BY <1>2, <1>9, <2>3 DEF Forced
<1>17. Field'
  <2>1. Owned' = Owned
    BY <1>1, <1>9, <1>10 DEF Owned
  <2> QED
    BY <2>1, <1>2, <1>10 DEF Field
<1>18. InRack'
  <2>1. chips = [rack |-> round.stack, bet |-> round.street,
                 collected |-> Minus(round.total, round.street)]
    BY <1>1, <1>2, <1>11 DEF InRack
  <2>2. chips' = [rack |-> round'.stack, bet |-> round'.street,
                  collected |-> Minus(round'.total, round'.street)]
    BY <2>1, <1>4, <1>5, <1>9, <1>12, RoundTypes, WagerFollows
  <2> QED
    BY <2>2, <1>9, <1>10 DEF InRack
<1>19. Shape'
  <2>1. stack' \in [Seats -> Nat]
    BY <1>5, <1>9, RoundTypes
  <2>2. \A q \in Seats : Chip(stack'[q])
    BY <1>7, <1>9, OnTheRack DEF BP!RoundOnRack
  <2> QED
    BY <2>1, <2>2, <1>2, <1>9 DEF Shape, GoodBlinds
<1> QED
  BY <1>10, <1>13, <1>14, <1>15, <1>16, <1>17, <1>18, <1>19 DEF SInv

-----------------------------------------------------------------------------
(* Opening a round.                                                        *)

(* The order of play: the seats clockwise, the one named last.             *)
LEMMA TurnsGoRound ==
  ASSUME NEW from \in Seats
  PROVE  LET turn == ClockwiseAfter(from)
         IN /\ turn \in [Seats -> Nat \ {0}] /\ turn[from] = TableSize
            /\ \A p \in Seats : turn[p] <= TableSize
            /\ \A p, q \in Seats : turn[p] = turn[q] => p = q
<1> DEFINE turn == ClockwiseAfter(from)
<1>1. from \in 1..TableSize /\ TableSize \in Nat
  BY TableAssumption DEF Seats
<1>2. ASSUME NEW p \in Seats
      PROVE  turn[p] = IF p > from THEN p - from ELSE p - from + TableSize
  <2>1. p \in 1..TableSize
    BY DEF Seats
  <2>2. H!ClockwiseDistance(p, from) = IF p > from THEN p - from ELSE p - from + TableSize
    BY <1>1, <2>1, H!RoundTheTable, PotsApply
  <2> QED
    BY <2>2, SameClock DEF ClockwiseAfter
<1>3. DOMAIN turn = Seats /\ turn = [p \in Seats |-> turn[p]]
  BY DEF ClockwiseAfter
<1> HIDE DEF turn
<1>4. ASSUME NEW p \in Seats
      PROVE  turn[p] \in 1..TableSize
  <2>1. p \in 1..TableSize
    BY DEF Seats
  <2> QED
    BY <1>1, <1>2, <2>1
<1>5. ASSUME NEW p \in Seats, NEW q \in Seats, turn[p] = turn[q]
      PROVE  p = q
  <2>1. p \in 1..TableSize /\ q \in 1..TableSize
    BY DEF Seats
  <2> QED
    BY <1>1, <1>2, <1>5, <2>1
<1>6. turn[from] = TableSize
  BY <1>1, <1>2
<1>7. turn \in [Seats -> Nat \ {0}] /\ \A p \in Seats : turn[p] <= TableSize
  <2>1. \A p \in Seats : turn[p] \in Nat \ {0} /\ turn[p] <= TableSize
    BY <1>1, <1>4
  <2> QED
    BY <1>3, <2>1
<1> QED
  BY <1>5, <1>6, <1>7 DEF turn

(* What a session needs to know of a round it opens.                       *)
Opens(e, r) ==
  /\ BP!RoundInv(r) /\ BP!RoundOnRack(r)
  /\ BP!ValidEntry(BP!Reopened(r)) /\ BP!EntryOnRack(BP!Reopened(r))
  /\ r.stack = e.stack /\ r.street = e.street /\ r.total = e.total
  /\ \A p \in Seats : e.status[p] = "folded" => r.status[p] = "folded"
  /\ e.nominalOpeningBet <= r.currentBet

(* What a freshly opened round is, and that it was opened from a valid     *)
(* entry.                                                                  *)
LEMMA RoundOpens ==
  ASSUME NEW e, BP!ValidEntry(e), BP!EntryOnRack(e)
  PROVE  Opens(e, BP!CreateBettingRound(e))
<1> DEFINE r == BP!CreateBettingRound(e)
<1>1. BP!RoundInv(r)
  BY BP!CreateKeeps, BettingApplies
<1>2. BP!RoundOnRack(r) /\ BP!EntryOnRack(BP!Reopened(r))
  BY BP!OpenedOnRack, BettingApplies
<1>3. BP!ValidEntry(BP!Reopened(r))
  BY BP!OpenedIsValid, BettingApplies
<1>4. /\ r.stack = e.stack /\ r.street = e.street /\ r.total = e.total
      /\ r.status = [p \in Seats |-> IF e.stack[p] = 0 /\ e.status[p] = "active"
                                       THEN "all-in" ELSE e.status[p]]
  BY BP!CreateFields, BettingApplies
<1>5. e.nominalOpeningBet <= r.currentBet
  BY BP!OpeningBetIsOne, BettingApplies
<1> HIDE DEF r
<1>6. \A p \in Seats : e.status[p] = "folded" => r.status[p] = "folded"
  BY <1>4
<1> QED
  BY <1>1, <1>2, <1>3, <1>4, <1>5, <1>6 DEF Opens, r

-----------------------------------------------------------------------------
(* The next street, and the clock.                                         *)

(* The next street may be opened from the round that has just closed.      *)
LEMMA PostflopIsValid ==
  ASSUME SInv, InPlay
  PROVE  BP!ValidEntry(PostflopEntry) /\ BP!EntryOnRack(PostflopEntry)
<1> DEFINE e == PostflopEntry
<1>1. RoundSound /\ Shape /\ GoodBlinds(blinds) /\ button \in Seats
  BY DEF SInv, Shape
<1>2. /\ round.stack \in [Seats -> Nat] /\ round.total \in [Seats -> Nat]
      /\ round.status \in [Seats -> BP!Statuses]
      /\ \A p \in Seats : round.status[p] = "all-in" => round.stack[p] = 0
  BY <1>1 DEF RoundSound, BP!RoundInv, BP!RoundShape, BP!Ledger
<1>3. /\ \A p \in Seats : BP!OnRack(round.stack[p]) /\ BP!OnRack(round.total[p])
  BY <1>1 DEF RoundSound, BP!RoundOnRack
<1>4. blinds.big \in Nat \ {0} /\ BP!OnRack(blinds.big)
  BY <1>1, OnTheRack DEF GoodBlinds
<1>5. BP!OnRack(0)
  BY ScheduleAssumption DEF BP!OnRack
<1>6. /\ e.stack = round.stack /\ e.street = Nothing /\ e.total = round.total
      /\ e.status = round.status /\ e.turn = ClockwiseAfter(button)
      /\ e.nominalOpeningBet = 0 /\ e.minimumBet = blinds.big
  BY DEF PostflopEntry
<1>7. e \in BP!EntryShape
  BY <1>1, <1>2, <1>4, TurnsGoRound DEF BP!EntryShape, PostflopEntry, Nothing
<1>8. BP!Cardinality(Seats) = TableSize
  BY SameCardinality, SeatsAreFinite
<1>9. \A p \in Seats : e.street[p] = 0
  BY <1>6 DEF Nothing
<1>10. \A p \in Seats : e.street[p] <= e.total[p]
  BY <1>2, <1>6, <1>9
<1>11. /\ \A p \in Seats : e.turn[p] <= TableSize
       /\ \A p, q \in Seats : e.turn[p] = e.turn[q] => p = q
  BY <1>1, <1>6, TurnsGoRound
<1> HIDE DEF e
<1>12. BP!ValidEntry(e)
  BY <1>2, <1>6, <1>7, <1>8, <1>10, <1>11 DEF BP!ValidEntry
<1>13. BP!EntryOnRack(e)
  BY <1>3, <1>4, <1>5, <1>6, <1>9 DEF BP!EntryOnRack
<1> QED
  BY <1>12, <1>13 DEF e

(* The fields of the ledger after the bets are collected.                  *)
LEMMA CollectIs ==
  ASSUME NEW a, NEW b, NEW c
  PROVE  CollectBets([rack |-> a, bet |-> b, collected |-> c])
           = [rack |-> a, bet |-> Nothing, collected |-> Plus(c, b)]
<1> DEFINE m == Plus(c, b)
           n == Nothing
           x == [rack |-> a, bet |-> b, collected |-> c]
           y == [rack |-> a, bet |-> b, collected |-> m]
<1>1. x.collected = c /\ x.bet = b
  OBVIOUS
<1>2. CollectBets(x) = [[x EXCEPT !.collected = m] EXCEPT !.bet = n]
  BY <1>1 DEF CollectBets
<1> HIDE DEF m, n
<1>3. [x EXCEPT !.collected = m] = y
  OBVIOUS
<1>4. [y EXCEPT !.bet = n] = [rack |-> a, bet |-> n, collected |-> m]
  OBVIOUS
<1> HIDE DEF x, y
<1>5. CollectBets(x) = [rack |-> a, bet |-> n, collected |-> m]
  BY <1>2, <1>3, <1>4
<1> QED
  BY <1>5 DEF m, n, x

(* With all bets collected, what is collected is all that was paid.        *)
LEMMA Collected ==
  ASSUME SInv, InPlay
  PROVE  CollectBets(chips) = [rack |-> stack, bet |-> Nothing, collected |-> round.total]
<1>1. chips = [rack |-> stack, bet |-> round.street,
               collected |-> Minus(round.total, round.street)]
  BY DEF SInv, InRack
<1>2. round.street \in [Seats -> Nat] /\ round.total \in [Seats -> Nat]
  BY RoundTypes DEF SInv, RoundSound
<1>3. Plus(Minus(round.total, round.street), round.street) = round.total
  BY <1>2 DEF Plus, Minus
<1> QED
  BY <1>1, <1>3, CollectIs

(* Dealing a street keeps the session sound.                               *)
LEMMA DealStreetKeeps ==
  ASSUME SInv, DealStreet
  PROVE  SInv'
<1> DEFINE e == PostflopEntry
<1>1. /\ InPlay /\ round.complete
      /\ hand' = [hand EXCEPT !.street = @ + 1]
      /\ round' = B!CreateBettingRound(e)
      /\ chips' = CollectBets(chips)
      /\ UNCHANGED <<stack, place, button, level, blinds, phase, status>>
  BY DEF DealStreet
<1>2. Shape /\ Field /\ InRack /\ HandShape /\ RoundSound
  BY <1>1 DEF SInv
<1>3. BP!RoundInv(round) /\ BP!Stakes(round)
  BY <1>2 DEF RoundSound
<1>4. BP!ValidEntry(e) /\ BP!EntryOnRack(e)
  BY <1>1, PostflopIsValid
<1>5. /\ e.stack = round.stack /\ e.street = Nothing /\ e.total = round.total
      /\ e.status = round.status /\ e.nominalOpeningBet = 0
      /\ \A p \in Seats : e.street[p] = 0
  BY DEF PostflopEntry, Nothing
<1> HIDE DEF e
<1>6. round' = BP!CreateBettingRound(e)
  BY <1>1, SameCreate
<1>7. BP!Stakes(round') /\ BP!Seated(round')
  BY <1>1, <1>3, <1>4, <1>5, <1>6, BP!StreetOpens, BettingApplies
<1>8. Opens(e, round')
  BY <1>4, <1>6, RoundOpens
<1>9. /\ BP!RoundInv(round') /\ BP!RoundOnRack(round')
      /\ BP!ValidEntry(BP!Reopened(round')) /\ BP!EntryOnRack(BP!Reopened(round'))
      /\ round'.stack = round.stack /\ round'.total = round.total
      /\ round'.street = Nothing
      /\ \A p \in Seats : round.status[p] = "folded" => round'.status[p] = "folded"
  BY <1>5, <1>8 DEF Opens
<1>10. hand \in [street : Nat, start : [Seats -> Nat]]
  BY <1>2 DEF HandShape
<1>11. /\ hand' \in [street : Nat, start : [Seats -> Nat]]
       /\ hand'.start = hand.start /\ hand'.street # 0
  BY <1>1, <1>10
<1>12. InPlay'
  <2>1. hand'.street \in Nat
    BY <1>11
  <2> QED
    BY <2>1 DEF InPlay, NoHand
<1>13. Active' = Active
  BY <1>1 DEF Active
<1>14. RoundSound'
  BY <1>1, <1>2, <1>7, <1>9, <1>11 DEF RoundSound
<1>15. HandShape'
  BY <1>1, <1>2, <1>9, <1>11, <1>13 DEF HandShape
<1>16. JustOpened'
  <2>1. OpenedWith' = BP!Reopened(round')
    BY DEF OpenedWith, BP!Reopened
  <2> QED
    BY <2>1, <1>9 DEF JustOpened
<1>17. Forced'
  BY <1>11 DEF Forced
<1>18. Field'
  <2>1. Owned' = Owned
    BY <1>1, <1>11, <1>12 DEF Owned
  <2> QED
    BY <2>1, <1>2, <1>13 DEF Field
<1>19. InRack'
  <2>1. chips' = [rack |-> stack, bet |-> Nothing, collected |-> round.total]
    BY <1>1, Collected
  <2>2. round.total \in [Seats -> Nat]
    BY <1>3, RoundTypes
  <2>3. Minus(round.total, Nothing) = round.total
    BY <2>2 DEF Minus, Nothing
  <2> QED
    BY <2>1, <2>3, <1>1, <1>9, <1>12 DEF InRack, Nothing
<1>20. Shape'
  BY <1>1, <1>2 DEF Shape, GoodBlinds
<1> QED
  BY <1>12, <1>14, <1>15, <1>16, <1>17, <1>18, <1>19, <1>20 DEF SInv

(* A change of level keeps the session sound.                              *)
LEMMA ClockKeeps ==
  ASSUME SInv, AdvanceClock
  PROVE  SInv'
<1>1. PICK later \in (level + 1)..Len(Levels) : level' = later /\ blinds' = Levels[later]
  BY DEF AdvanceClock
<1>2. UNCHANGED <<stack, place, button, phase, status, hand, round, chips>>
  BY DEF AdvanceClock
<1>3. Len(Levels) \in Nat /\ level \in 1..Len(Levels)
  BY ScheduleAssumption DEF SInv, Shape
<1>4. later \in 1..Len(Levels)
  BY <1>1, <1>3
<1>5. GoodBlinds(blinds')
  BY <1>1, <1>4, LevelsAreGood
<1>6. InPlay' = InPlay /\ Owned' = Owned /\ Active' = Active /\ OpenedWith' = OpenedWith
  BY <1>2 DEF InPlay, Owned, Active, OpenedWith
<1>7. Shape'
  BY <1>1, <1>2, <1>4, <1>5 DEF SInv, Shape, GoodBlinds
<1>8. Field' /\ InRack'
  BY <1>2, <1>6 DEF SInv, Field, InRack
<1>9. InPlay => HandShape' /\ RoundSound' /\ JustOpened' /\ Forced'
  BY <1>2, <1>6 DEF SInv, HandShape, RoundSound, JustOpened, Forced
<1> QED
  BY <1>6, <1>7, <1>8, <1>9 DEF SInv

-----------------------------------------------------------------------------
(* Going round the table.                                                  *)

(* Two of a finite set.                                                    *)
LEMMA TwoOf ==
  ASSUME NEW S, IsFiniteSet(S)
  PROVE  /\ Cardinality(S) \in Nat
         /\ \A p, q \in S : p # q => Cardinality(S) >= 2
         /\ Cardinality(S) >= 2 => \A p \in S : \E q \in S : q # p
<1>1. Cardinality(S) \in Nat
  BY FS_CardinalityType
<1>2. ASSUME NEW p \in S, NEW q \in S, p # q
      PROVE  Cardinality(S) >= 2
  <2>1. Cardinality({p}) = 1 /\ IsFiniteSet({p})
    BY FS_Singleton
  <2>2. Cardinality({p} \cup {q}) = 2 /\ {p} \cup {q} \in SUBSET S
    BY <2>1, <1>2, FS_AddElement
  <2> QED
    BY <2>2, <1>1, FS_Subset
<1>3. ASSUME Cardinality(S) >= 2, NEW p \in S, \A q \in S : q = p
      PROVE  FALSE
  <2>1. S = {p}
    BY <1>3
  <2> QED
    BY <2>1, <1>3, FS_Singleton
<1> QED
  BY <1>1, <1>2, <1>3

(* A finite set has a least element by any measure.                        *)
LEMMA LeastExists ==
  ASSUME NEW S, IsFiniteSet(S), S # {}, NEW f, f \in [S -> Int]
  PROVE  \E x \in S : \A y \in S : f[x] <= f[y]
<1>1. H!IsFiniteSet(S)
  BY SameCardinality
<1> QED
  BY <1>1, H!FiniteArgMin, PotsApply

(* The players left are finitely many.                                     *)
LEMMA ActiveIsFinite ==
  Active \subseteq Seats /\ IsFiniteSet(Active) /\ Cardinality(Active) \in Nat
<1>1. Active \in SUBSET Seats
  BY DEF Active
<1> QED
  BY <1>1, SeatsAreFinite, FS_Subset, FS_CardinalityType

(* Going round the table never comes back to the same seat while another   *)
(* one is taken.                                                           *)
LEMMA NextSeatIsOther ==
  ASSUME NEW after \in Seats, Cardinality(Active) >= 2
  PROVE  NextOccupiedSeat(Active, after) \in Active \ {after}
<1> DEFINE turn == ClockwiseAfter(after)
           f == [p \in Active |-> turn[p]]
           Nearest(p) == \A q \in Active :
             P!ClockwiseDistance(p, after) <= P!ClockwiseDistance(q, after)
           next == NextOccupiedSeat(Active, after)
<1>1. Active \subseteq Seats /\ IsFiniteSet(Active)
  BY ActiveIsFinite
<1>2. /\ turn \in [Seats -> Nat \ {0}] /\ turn[after] = TableSize
      /\ \A p \in Seats : turn[p] <= TableSize
      /\ \A p, q \in Seats : turn[p] = turn[q] => p = q
  BY TurnsGoRound
<1>3. \A p \in Seats : P!ClockwiseDistance(p, after) = turn[p]
  BY DEF ClockwiseAfter
<1> HIDE DEF turn
<1>4. Active # {} /\ \A p \in Active : \E q \in Active : q # p
  <2>1. Active # {}
    BY FS_EmptySet
  <2> QED
    BY <2>1, <1>1, TwoOf
<1>5. f \in [Active -> Int]
  BY <1>1, <1>2
<1>6. \E p \in Active : \A q \in Active : f[p] <= f[q]
  <2> HIDE DEF f
  <2> QED
    BY <1>1, <1>4, <1>5, LeastExists
<1>7. \E p \in Active : Nearest(p)
  BY <1>1, <1>3, <1>6
<1>8. next = CHOOSE p \in Active : Nearest(p)
  BY DEF NextOccupiedSeat
<1>9. next \in Active /\ Nearest(next)
  <2> HIDE DEF Nearest, next
  <2> QED
    BY <1>7, <1>8
<1>10. next # after
  <2> SUFFICES ASSUME next = after PROVE FALSE
    OBVIOUS
  <2>1. PICK q \in Active : q # after
    BY <1>4, <1>9
  <2>2. turn[after] <= turn[q]
    BY <1>1, <1>3, <1>9, <2>1
  <2>3. turn[q] = turn[after]
    BY <2>2, <1>1, <1>2, <2>1, TableAssumption
  <2> QED
    BY <2>1, <2>3, <1>1, <1>2
<1> QED
  BY <1>9, <1>10

(* All but one of the players have at most the second largest stack.       *)
LEMMA SecondLargestIs ==
  ASSUME stack \in [Seats -> Nat], Cardinality(Active) >= 2, \A p \in Active : stack[p] > 0
  PROVE  /\ SecondLargest \in Nat \ {0}
         /\ \A p, q \in Active : p # q => stack[p] <= SecondLargest \/ stack[q] <= SecondLargest
<1> DEFINE Rich(n) == {p \in Active : stack[p] >= n}
           S == {n \in Range(stack) : Cardinality(Rich(n)) >= 2}
           top == SecondLargest
<1>1. Active \subseteq Seats /\ IsFiniteSet(Active)
  BY ActiveIsFinite
<1>2. Range(stack) = {stack[p] : p \in Seats}
  BY DEF Range
<1>3. S \in SUBSET Nat /\ \A n \in S : n <= Total(stack)
  BY <1>2, TotalOfNats
<1>4. IsFiniteSet(S)
  <2>1. Total(stack) \in Nat
    BY TotalOfNats
  <2> HIDE DEF S
  <2> QED
    BY <2>1, <1>3, FS_BoundedSetOfNaturals
<1>5. ASSUME NEW p \in Active, NEW q \in Active, p # q, stack[p] <= stack[q]
      PROVE  stack[p] \in S
  <2>1. p \in Rich(stack[p]) /\ q \in Rich(stack[p]) /\ stack[p] \in Nat
    BY <1>1, <1>5
  <2>2. Rich(stack[p]) \in SUBSET Active
    OBVIOUS
  <2> HIDE DEF Rich
  <2>3. IsFiniteSet(Rich(stack[p]))
    BY <1>1, <2>2, FS_Subset
  <2>4. Cardinality(Rich(stack[p])) >= 2
    BY <2>1, <2>3, <1>5, TwoOf
  <2> QED
    BY <2>4, <1>1, <1>2
<1>6. top = Max(S)
  BY DEF SecondLargest
<1> HIDE DEF S, top
<1>7. \A p, q \in Active : p # q => stack[p] \in S \/ stack[q] \in S
  BY <1>1, <1>5
<1>8. PICK p0 \in Active, q0 \in Active : p0 # q0
  BY <1>1, FS_EmptySet, TwoOf
<1>9. S # {} /\ H!IsFiniteSet(S) /\ S \subseteq Int
  BY <1>3, <1>4, <1>7, <1>8, SameCardinality
<1>10. top \in S /\ \A v \in S : v <= top
  BY <1>6, <1>9, SameSums, H!MaxOfFinite, PotsApply
<1>11. top \in Nat /\ \A p, q \in Active : p # q => stack[p] <= top \/ stack[q] <= top
  BY <1>3, <1>7, <1>10
<1>12. top # 0
  <2>1. stack[p0] <= top \/ stack[q0] <= top
    BY <1>8, <1>11
  <2>2. stack[p0] \in Nat /\ stack[q0] \in Nat /\ stack[p0] > 0 /\ stack[q0] > 0
    BY <1>1
  <2> QED
    BY <2>1, <2>2
<1> QED
  BY <1>11, <1>12 DEF top

-----------------------------------------------------------------------------
(* The blinds of a hand.                                                   *)

(* What a hand is begun with, whatever the time does to the blinds.        *)
LEMMA BlindsOfTheHand ==
  ASSUME SInv, ~InPlay, Cardinality(Active) >= 2, ApplyTimedBlindLevel
  PROVE  /\ GoodBlinds(blinds') /\ phase' \in {Phases[i] : i \in DOMAIN Phases}
         /\ ~Timed => phase' = "opening"
         /\ phase' = "deadline" => SecondLargest <= blinds'.big
<1> DEFINE names == {Phases[i] : i \in DOMAIN Phases}
<1>1. /\ GoodBlinds(blinds) /\ stack \in [Seats -> Nat] /\ phase \in names
      /\ ~Timed => phase = "opening"
  BY DEF SInv, Shape
<1>2. \A p \in Active : stack[p] > 0
  <2>1. Field /\ Active # {} /\ Active \subseteq Seats
    BY FS_EmptySet, ActiveIsFinite DEF SInv
  <2> QED
    BY <2>1 DEF Field, Owned
<1>3. SecondLargest \in Nat \ {0}
  BY <1>1, <1>2, SecondLargestIs
<1>4. CASE ~Timed
  BY <1>1, <1>4 DEF ApplyTimedBlindLevel
<1>5. CASE Timed
  <2>1. /\ phase' \in Later(phase)
        /\ \E target \in Targets(phase') : blinds' = DirectedTo(target)
    BY <1>5 DEF ApplyTimedBlindLevel
  <2>2. PICK target \in Targets(phase') : blinds' = DirectedTo(target)
    BY <2>1
  <2>3. phase' \in names
    <3>1. \E i \in DOMAIN Phases : Phases[i] = phase
      BY <1>1
    <3>2. From(phase) \in DOMAIN Phases
      BY <3>1 DEF From
    <3>3. DOMAIN Phases = 1..4 /\ Len(Phases) = 4
      BY DEF Phases
    <3>4. \A i \in From(phase)..Len(Phases) : i \in DOMAIN Phases
      BY <3>2, <3>3
    <3> QED
      BY <2>1, <3>4 DEF Later
  <2>4. names = {"opening", "pressure", "closing", "deadline"}
    BY DEF Phases
  <2>5. Goal \in Int
    <3>1. Total(stack) \in Nat
      BY <1>1, TotalOfNats
    <3>2. Cardinality(Active) \in Nat \ {0}
      BY ActiveIsFinite
    <3>3. Total(stack) \div Cardinality(Active) \in Int
      BY <3>1, <3>2
    <3> QED
      BY <1>3, <3>3 DEF Goal, B!Larger
  <2>6. blinds.big \in Nat \ {0}
    BY <1>1 DEF GoodBlinds
  <2>7. target \in Nat \ {0} /\ (phase' = "deadline" => target = SecondLargest)
    <3>1. CASE phase' = "opening"
      BY <2>2, <2>6, <3>1 DEF Targets
    <3>2. CASE phase' = "pressure"
      <4> DEFINE top == B!Larger(blinds.big, B!Smaller(2 * blinds.big, Goal))
      <4>1. target \in blinds.big..top /\ top \in Int
        BY <2>2, <2>5, <2>6, <3>2 DEF Targets, B!Larger, B!Smaller
      <4> QED
        BY <4>1, <2>6, <3>2
    <3>3. CASE phase' = "closing"
      <4> DEFINE top == B!Larger(blinds.big, B!Smaller(3 * blinds.big, Goal))
      <4>1. target \in blinds.big..top /\ top \in Int
        BY <2>2, <2>5, <2>6, <3>3 DEF Targets, B!Larger, B!Smaller
      <4> QED
        BY <4>1, <2>6, <3>3
    <3>4. CASE phase' = "deadline"
      BY <2>2, <1>3, <3>4 DEF Targets
    <3> QED
      BY <2>3, <2>4, <3>1, <3>2, <3>3, <3>4
  <2>8. GoodBlinds(blinds') /\ target <= blinds'.big
    BY <1>1, <2>2, <2>7, DirectedIsGood
  <2> QED
    BY <1>5, <2>3, <2>7, <2>8
<1> QED
  BY <1>4, <1>5

(* The two players who post.                                               *)
LEMMA BlindsAreTwo ==
  ASSUME NEW dealer \in Active, Cardinality(Active) >= 2
  PROVE  /\ SmallBlindSeat(dealer) \in Active /\ BigBlindSeat(dealer) \in Active
         /\ SmallBlindSeat(dealer) # BigBlindSeat(dealer)
<1>1. Active \subseteq Seats
  BY ActiveIsFinite
<1>2. SmallBlindSeat(dealer) \in Active
  BY <1>1, NextSeatIsOther DEF SmallBlindSeat
<1>3. BigBlindSeat(dealer) \in Active \ {SmallBlindSeat(dealer)}
  BY <1>1, <1>2, NextSeatIsOther DEF BigBlindSeat
<1> QED
  BY <1>2, <1>3

(* What the blinds post: a stack at most, and nothing by anybody else.     *)
LEMMA PostedIs ==
  ASSUME SInv, Cardinality(Active) >= 2, NEW dealer \in Active, NEW forced, GoodBlinds(forced)
  PROVE  LET posted == Posted(dealer, forced)
             s == SmallBlindSeat(dealer)
             b == BigBlindSeat(dealer)
         IN /\ posted \in [Seats -> Nat]
            /\ \A p \in Seats : /\ posted[p] <= stack[p] /\ posted[p] <= forced.big
                                /\ Chip(posted[p])
            /\ \A p \in Seats \ {s, b} : posted[p] = 0
            /\ posted[b] = stack[b] \/ posted[b] = forced.big
<1> DEFINE posted == Posted(dealer, forced)
           s == SmallBlindSeat(dealer)
           b == BigBlindSeat(dealer)
<1>1. s # b /\ s \in Seats /\ b \in Seats
  BY BlindsAreTwo, ActiveIsFinite
<1>2. stack \in [Seats -> Nat] /\ \A p \in Seats : Chip(stack[p])
  BY DEF SInv, Shape
<1>3. /\ forced.small \in Nat /\ forced.big \in Nat \ {0} /\ forced.small <= forced.big
      /\ Chip(forced.small) /\ Chip(forced.big)
  BY DEF GoodBlinds
<1>4. Chip(0)
  BY ScheduleAssumption DEF Chip
<1>5. DOMAIN posted = Seats /\ posted = [p \in Seats |-> posted[p]]
  BY DEF Posted
<1>6. \A p \in Seats : posted[p] =
        CASE p = s -> B!Smaller(stack[p], forced.small)
          [] p = b -> B!Smaller(stack[p], forced.big)
          [] OTHER -> 0
  BY DEF Posted
<1> HIDE DEF posted, s, b
<1>7. posted[s] = B!Smaller(stack[s], forced.small)
  BY <1>1, <1>6
<1>8. posted[b] = B!Smaller(stack[b], forced.big)
  BY <1>1, <1>6
<1>9. \A p \in Seats \ {s, b} : posted[p] = 0
  BY <1>6
<1>10. posted[b] = stack[b] \/ posted[b] = forced.big
  BY <1>8 DEF B!Smaller
<1>11. ASSUME NEW p \in Seats
       PROVE  /\ posted[p] \in Nat /\ posted[p] <= stack[p] /\ posted[p] <= forced.big
              /\ Chip(posted[p])
  <2>1. CASE p = s
    BY <1>2, <1>3, <1>7, <2>1 DEF B!Smaller
  <2>2. CASE p = b
    BY <1>2, <1>3, <1>8, <2>2 DEF B!Smaller
  <2>3. CASE p \notin {s, b}
    BY <1>2, <1>3, <1>4, <1>9, <2>3
  <2> QED
    BY <2>1, <2>2, <2>3
<1> QED
  BY <1>5, <1>9, <1>10, <1>11 DEF posted, s, b

(* The round opened on the blinds is valid, and its pots can be won.       *)
LEMMA PreflopIsValid ==
  ASSUME SInv, Cardinality(Active) >= 2, NEW dealer \in Active, NEW forced, GoodBlinds(forced)
  PROVE  LET e == PreflopEntry(dealer, forced)
         IN /\ BP!ValidEntry(e) /\ BP!EntryOnRack(e)
            /\ BP!Stakes(BP!CreateBettingRound(e)) /\ BP!Seated(BP!CreateBettingRound(e))
<1> DEFINE e == PreflopEntry(dealer, forced)
           posted == Posted(dealer, forced)
           s == SmallBlindSeat(dealer)
           b == BigBlindSeat(dealer)
           left == Minus(stack, posted)
           st == [p \in Seats |-> CASE p \notin Active -> "folded"
                                    [] stack[p] = posted[p] /\ p \in Active -> "all-in"
                                    [] OTHER -> "active"]
<1>1. s # b /\ s \in Active /\ b \in Active /\ s \in Seats /\ b \in Seats
  BY BlindsAreTwo, ActiveIsFinite
<1>2. stack \in [Seats -> Nat] /\ \A p \in Seats : Chip(stack[p])
  BY DEF SInv, Shape
<1>3. /\ posted \in [Seats -> Nat]
      /\ \A p \in Seats : /\ posted[p] <= stack[p] /\ posted[p] <= forced.big
                          /\ Chip(posted[p])
      /\ \A p \in Seats \ {s, b} : posted[p] = 0
      /\ posted[b] = stack[b] \/ posted[b] = forced.big
  BY PostedIs
<1>4. forced.big \in Nat \ {0} /\ Chip(forced.big)
  BY DEF GoodBlinds
<1>5. e = [ stack |-> left, street |-> posted, total |-> posted, status |-> st,
            turn |-> ClockwiseAfter(b),
            nominalOpeningBet |-> forced.big, minimumBet |-> forced.big ]
  BY DEF PreflopEntry
<1> HIDE DEF e, posted, s, b
<1>6. /\ left \in [Seats -> Nat]
      /\ \A p \in Seats : left[p] = stack[p] - posted[p]
  BY <1>2, <1>3 DEF Minus
<1>7. \A p \in Seats : Chip(left[p])
  <2> TAKE p \in Seats
  <2>1. stack[p] \in Int /\ posted[p] \in Int /\ Chip(stack[p]) /\ Chip(posted[p])
    BY <1>2, <1>3
  <2>2. Chip(stack[p] - posted[p])
    BY <2>1, BP!OnRackAdds, BettingApplies, OnTheRack
  <2> QED
    BY <2>2, <1>6
<1>8. /\ st \in [Seats -> BP!Statuses] /\ st[b] # "folded"
      /\ \A p \in Seats : st[p] = "all-in" => stack[p] = posted[p]
  BY <1>1 DEF BP!Statuses
<1> HIDE DEF left, st
<1>9. /\ e.stack = left /\ e.street = posted /\ e.total = posted /\ e.status = st
      /\ e.turn = ClockwiseAfter(b)
      /\ e.nominalOpeningBet = forced.big /\ e.minimumBet = forced.big
  BY <1>5
<1>10. /\ e.turn \in [Seats -> Nat \ {0}] /\ e.turn[b] = TableSize
       /\ \A p \in Seats : e.turn[p] <= TableSize
       /\ \A p, q \in Seats : e.turn[p] = e.turn[q] => p = q
  BY <1>1, <1>9, TurnsGoRound
<1>11. BP!Cardinality(Seats) = TableSize
  BY SameCardinality, SeatsAreFinite
<1>12. BP!ValidEntry(e)
  <2>1. e \in BP!EntryShape
    BY <1>3, <1>4, <1>5, <1>6, <1>8, <1>9, <1>10 DEF BP!EntryShape
  <2>2. \A p \in Seats : e.street[p] <= e.total[p] /\ (e.status[p] = "all-in" => e.stack[p] = 0)
    BY <1>2, <1>3, <1>6, <1>8, <1>9
  <2> QED
    BY <2>1, <2>2, <1>10, <1>11 DEF BP!ValidEntry
<1>13. BP!EntryOnRack(e)
  BY <1>3, <1>4, <1>7, <1>9, OnTheRack DEF BP!EntryOnRack
<1>14. BP!Stakes(BP!CreateBettingRound(e)) /\ BP!Seated(BP!CreateBettingRound(e))
  <2>1. e.street = e.total /\ e.status[b] # "folded" /\ e.turn[b] = BP!Cardinality(Seats)
    BY <1>8, <1>9, <1>10, <1>11
  <2>2. e.stack[b] > 0 => e.street[b] = e.nominalOpeningBet
    BY <1>1, <1>2, <1>3, <1>6, <1>9
  <2>3. /\ \A p \in Seats : e.street[p] <= e.nominalOpeningBet
        /\ \A p \in Seats \ {s, b} : e.total[p] = 0
    BY <1>3, <1>9
  <2> QED
    BY <2>1, <2>2, <2>3, <1>1, <1>12, BP!BlindsOpen, BettingApplies
<1> QED
  BY <1>12, <1>13, <1>14 DEF e

-----------------------------------------------------------------------------
(* Beginning a hand.                                                       *)

(* Beginning a hand keeps the session sound.                               *)
LEMMA BeginHandKeeps ==
  ASSUME SInv, BeginHand
  PROVE  SInv'
<1> DEFINE e == PreflopEntry(button', blinds')
           posted == Posted(button', blinds')
<1>1. /\ ~InPlay /\ Cardinality(Active) >= 2 /\ ApplyTimedBlindLevel
      /\ button' = NextOccupiedSeat(Active, button)
      /\ hand' = [street |-> 0, start |-> stack]
      /\ round' = B!CreateBettingRound(e)
      /\ stack' = e.stack /\ chips' = Wager(chips, e.total)
      /\ UNCHANGED <<place, level, status>>
  BY DEF BeginHand
<1>2. Shape /\ Field /\ InRack
  BY DEF SInv
<1>3. /\ GoodBlinds(blinds') /\ phase' \in {Phases[i] : i \in DOMAIN Phases}
      /\ ~Timed => phase' = "opening"
      /\ phase' = "deadline" => SecondLargest <= blinds'.big
  BY <1>1, BlindsOfTheHand
<1>4. button' \in Active /\ button' \in Seats
  <2>1. button \in Seats
    BY <1>2 DEF Shape
  <2> QED
    BY <2>1, <1>1, NextSeatIsOther, ActiveIsFinite
<1>5. stack \in [Seats -> Nat]
  BY <1>2 DEF Shape
<1>6. posted \in [Seats -> Nat] /\ \A p \in Seats : posted[p] <= stack[p]
  BY <1>1, <1>3, <1>4, PostedIs
<1>7. /\ BP!ValidEntry(e) /\ BP!EntryOnRack(e)
      /\ BP!Stakes(BP!CreateBettingRound(e)) /\ BP!Seated(BP!CreateBettingRound(e))
  BY <1>1, <1>3, <1>4, PreflopIsValid
<1>8. /\ e.stack = Minus(stack, posted) /\ e.street = posted /\ e.total = posted
      /\ e.nominalOpeningBet = blinds'.big
      /\ \A p \in Seats \ Active : e.status[p] = "folded"
  BY DEF PreflopEntry
<1> HIDE DEF e, posted
<1>9. round' = BP!CreateBettingRound(e)
  BY <1>1, SameCreate
<1>10. Opens(e, round') /\ BP!Stakes(round') /\ BP!Seated(round')
  BY <1>7, <1>9, RoundOpens
<1>11. /\ BP!RoundInv(round') /\ BP!RoundOnRack(round')
       /\ BP!ValidEntry(BP!Reopened(round')) /\ BP!EntryOnRack(BP!Reopened(round'))
       /\ round'.stack = stack' /\ round'.total = posted /\ round'.street = posted
       /\ \A p \in Seats \ Active : round'.status[p] = "folded"
       /\ blinds'.big <= round'.currentBet
  BY <1>1, <1>8, <1>10 DEF Opens
<1>12. stack' = Minus(stack, posted)
  BY <1>1, <1>8
<1>13. /\ hand'.street = 0 /\ hand'.start = stack
       /\ hand' \in [street : Nat, start : [Seats -> Nat]]
  BY <1>1, <1>5
<1>14. InPlay' /\ Active' = Active
  BY <1>1, <1>13 DEF InPlay, NoHand, Active
<1>15. \A p \in Seats : stack'[p] + posted[p] = stack[p]
  BY <1>5, <1>6, <1>12 DEF Minus
<1>16. RoundSound'
  BY <1>10, <1>11, <1>13, <1>15 DEF RoundSound
<1>17. HandShape'
  BY <1>1, <1>11, <1>13, <1>14 DEF HandShape
<1>18. JustOpened'
  <2>1. OpenedWith' = BP!Reopened(round')
    BY DEF OpenedWith, BP!Reopened
  <2> QED
    BY <2>1, <1>11 DEF JustOpened
<1>19. Owned' = Owned
  BY <1>1, <1>13, <1>14 DEF Owned
<1>20. Active # {} /\ Active \subseteq Seats /\ \A p \in Seats : p \in Active <=> stack[p] > 0
  <2>1. Active # {}
    BY <1>1, FS_EmptySet
  <2> QED
    BY <2>1, <1>1, <1>2, ActiveIsFinite DEF Field, Owned
<1>21. Field'
  BY <1>2, <1>14, <1>19 DEF Field
<1>22. Forced'
  <2> SUFFICES ASSUME phase' = "deadline", NEW p \in Seats, NEW q \in Seats,
                      stack[p] > round'.currentBet, stack[q] > round'.currentBet, p # q
               PROVE  FALSE
    BY <1>13 DEF Forced
  <2>1. /\ SecondLargest \in Nat \ {0}
        /\ \A a, b \in Active : a # b => stack[a] <= SecondLargest \/ stack[b] <= SecondLargest
    BY <1>1, <1>5, <1>20, SecondLargestIs
  <2>2. round'.currentBet \in Nat
    BY <1>11, RoundTypes
  <2>3. blinds'.big \in Nat
    BY <1>3 DEF GoodBlinds
  <2>4. SecondLargest <= round'.currentBet
    BY <1>3, <1>11, <2>1, <2>2, <2>3
  <2>5. stack[p] \in Nat /\ stack[q] \in Nat
    BY <1>5
  <2>6. p \in Active /\ q \in Active
    BY <1>20, <2>2, <2>5
  <2> QED
    BY <2>1, <2>2, <2>4, <2>5, <2>6
<1>23. InRack'
  <2>1. chips = [rack |-> stack, bet |-> Nothing, collected |-> Nothing]
    BY <1>1, <1>2 DEF InRack
  <2>2. chips' = [rack |-> Minus(stack, posted), bet |-> Plus(Nothing, posted),
                  collected |-> Nothing]
    BY <2>1, <1>1, <1>8, WagerIs
  <2>3. Plus(Nothing, posted) = posted
    BY <1>6 DEF Plus, Nothing
  <2>4. Minus(posted, posted) = Nothing
    BY <1>6 DEF Minus, Nothing
  <2> QED
    BY <2>2, <2>3, <2>4, <1>11, <1>12, <1>14 DEF InRack
<1>24. Shape'
  <2>1. stack' \in [Seats -> Nat]
    BY <1>11, RoundTypes
  <2>2. \A p \in Seats : Chip(stack'[p])
    BY <1>11, OnTheRack DEF BP!RoundOnRack
  <2> QED
    BY <2>1, <2>2, <1>1, <1>2, <1>3, <1>4 DEF Shape, GoodBlinds
<1> QED
  BY <1>14, <1>16, <1>17, <1>18, <1>21, <1>22, <1>23, <1>24 DEF SInv

-----------------------------------------------------------------------------
(* The pots of a hand.                                                     *)

-----------------------------------------------------------------------------
(* The hand's ledger is one buildPots takes, of amounts on the rack.       *)
LEMMA HandLedgerIs ==
  ASSUME SInv, InPlay
  PROVE  /\ H!ValidLedger(HandLedger) /\ HandLedger.amount = round.total
         /\ \A p \in Seats : HandLedger.amount[p] % SmallestChip = 0
<1>1. round.total \in [Seats -> Nat]
  BY RoundTypes DEF SInv, RoundSound
<1>2. HandLedger.amount = round.total
  BY DEF HandLedger
<1>3. H!ValidLedger(HandLedger)
  BY <1>1 DEF H!ValidLedger, HandLedger
<1>4. \A p \in Seats : round.total[p] % SmallestChip = 0
  BY OnTheRack DEF SInv, RoundSound, BP!RoundOnRack, Chip
<1> QED
  BY <1>2, <1>3, <1>4

(* The stakes of the round make every one of its pots winnable.            *)
LEMMA HandIsCovered ==
  ASSUME SInv, InPlay
  PROVE  ~H!Unwinnable(H!BuildPots(HandLedger))
<1> DEFINE l == HandLedger
<1>1. H!ValidLedger(l) /\ l.amount = round.total
  BY HandLedgerIs
<1>2. round.total \in [Seats -> Nat]
  BY RoundTypes DEF SInv, RoundSound
<1>3. PICK x \in BP!InHand(round) : \E y \in Seats : \A q \in Seats \ {y} :
               round.total[q] <= round.total[x]
  BY DEF SInv, RoundSound, BP!Stakes, BP!Backed
<1>4. PICK y \in Seats : \A q \in Seats \ {y} : round.total[q] <= round.total[x]
  BY <1>3
<1>5. x \in Seats \ l.folded
  BY DEF BP!InHand, HandLedger
<1> HIDE DEF l
<1>6. ASSUME NEW v \in H!Contested(l)
      PROVE  l.amount[x] >= v
  <2> DEFINE C == H!Contributors(l, v)
  <2>1. v \in Nat /\ H!Cardinality(C) >= 2
    BY <1>1, <1>2 DEF H!Contested, H!AmountLevels
  <2>2. C \in SUBSET Seats /\ \A c \in C : round.total[c] >= v
    BY <1>1 DEF H!Contributors
  <2> HIDE DEF C
  <2>3. IsFiniteSet(C) /\ Cardinality(C) >= 2
    BY <2>1, <2>2, SeatsAreFinite, SameCardinality, FS_Subset
  <2>4. PICK c \in C : c # y
    BY <2>3, TwoOf, FS_EmptySet
  <2>5. round.total[c] >= v /\ round.total[c] <= round.total[x] /\ c \in Seats
    BY <2>2, <2>4, <1>4
  <2> QED
    BY <2>1, <2>5, <1>1, <1>2, <1>5
<1>7. H!Covered(l)
  BY <1>5, <1>6 DEF H!Covered
<1> QED
  BY <1>1, <1>7, H!EveryPotIsWinnable, PotsApply DEF l

(* The pots of a hand divide into chips among any winners.                 *)
LEMMA HandDivides ==
  ASSUME SInv, InPlay, NEW rank, rank \in [Seats -> Int]
  PROVE  H!Divisible(H!BuildPots(HandLedger), rank)
<1> DEFINE l == HandLedger
           b == H!BuildPots(l)
<1>1. H!ValidLedger(l) /\ \A p \in Seats : l.amount[p] % SmallestChip = 0
  BY HandLedgerIs
<1>2. \A i \in DOMAIN b.pots : b.pots[i].eligible # {}
  BY HandIsCovered DEF H!Unwinnable
<1> HIDE DEF l
<1>3. ASSUME NEW i \in DOMAIN b.pots
      PROVE  ~H!Indivisible(b.pots[i], rank)
  BY <1>1, <1>2, H!PotsDivide, PotsApply
<1> QED
  BY <1>3 DEF l, H!Divisible

(* The ranks of a showdown are integers.                                   *)
LEMMA RanksAreInts ==
  \A rank \in Ranks : rank \in [Seats -> Int]
<1> SUFFICES ASSUME NEW rank \in Ranks PROVE rank \in [Seats -> Int]
  OBVIOUS
<1>1. rank \in [Seats -> Seats]
  BY DEF Ranks
<1>2. \A p \in Seats : p \in Int
  BY SeatsAreFinite
<1> QED
  BY <1>1, <1>2

(* What the session pays is what HandEnd pays.                             *)
LEMMA WinningsArePaying ==
  ASSUME NEW l, NEW rank
  PROVE  Winnings(P!BuildPots(l), rank) = H!Paying(H!BuildPots(l), rank, button)
<1> DEFINE b == H!BuildPots(l)
<1>1. P!BuildPots(l) = b
  BY SamePots
<1> HIDE DEF b
<1>2. \A p \in Seats :
        [i \in DOMAIN b.pots |-> P!Awards(b.pots[i], rank, button)[p]]
          = H!Won(b, rank, button, p)
  BY SameAwards DEF H!Won
<1>3. \A p \in Seats :
        b.refund[p] + Total([i \in DOMAIN b.pots |-> P!Awards(b.pots[i], rank, button)[p]])
          = b.refund[p] + H!Total(H!Won(b, rank, button, p))
  BY <1>2, SameSums
<1>4. Winnings(b, rank) = H!Paying(b, rank, button)
  BY <1>3 DEF Winnings, H!Paying
<1> QED
  BY <1>1, <1>4 DEF b

(* The most p can win from everybody together, his own chips included.     *)
Share(p) == [q \in Seats |-> B!Smaller(round.total[q], round.total[p])]

Pays(paid) ==
  /\ paid \in [Seats -> Nat] /\ Total(paid) = Total(round.total)
  /\ \A p \in Seats : Chip(paid[p]) /\ paid[p] <= Total(Share(p))

(* Whatever the showdown, the hand pays out what was paid in, and nobody   *)
(* gets more from anybody than he paid himself.                            *)
LEMMA HandPays ==
  ASSUME SInv, InPlay, round.complete, NEW rank \in Ranks
  PROVE  Pays(Winnings(P!BuildPots(HandLedger), rank))
<1> DEFINE l == HandLedger
           b == H!BuildPots(l)
           paid == H!Paying(b, rank, button)
<1>1. /\ H!ValidLedger(l) /\ l.amount = round.total
      /\ \A p \in Seats : l.amount[p] % SmallestChip = 0
  BY HandLedgerIs
<1>2. rank \in [Seats -> Int]
  BY RanksAreInts
<1>3. button \in 1..TableSize
  BY DEF SInv, Shape, Seats
<1>4. ~H!Unwinnable(b) /\ H!Divisible(b, rank)
  BY <1>2, HandIsCovered, HandDivides
<1>5. BP!RoundInv(round) /\ BP!Stakes(round)
  BY DEF SInv, RoundSound
<1>6. round.total \in [Seats -> Nat] /\ round.status \in [Seats -> BP!Statuses]
  BY <1>5, RoundTypes DEF BP!RoundInv, BP!RoundShape
<1>7. l.folded = {p \in Seats : round.status[p] = "folded"}
      /\ l.allIn = {p \in Seats : round.status[p] = "all-in"}
  BY DEF HandLedger
<1>8. Winnings(P!BuildPots(l), rank) = paid
  BY WinningsArePaying
<1>9. DOMAIN paid = Seats /\ paid = [p \in Seats |-> paid[p]]
  BY DEF H!Paying
<1> HIDE DEF l
<1>10. /\ H!IntOver(paid, Seats) /\ \A p \in Seats : paid[p] >= 0
       /\ H!SumOver(paid, Seats) = H!SumOver(l.amount, Seats)
  BY <1>1, <1>2, <1>3, <1>4, H!PayingAddsUp, PotsApply
<1>11. ASSUME NEW p \in Seats
       PROVE  paid[p] % SmallestChip = 0
  BY <1>1, <1>2, <1>3, <1>4, H!PayingOnRack, PotsApply
<1>12. ASSUME NEW p \in Seats
       PROVE  /\ paid[p] <= H!SumOver(H!Stake(l, p), Seats)
              /\ H!Stake(l, p) = Share(p)
  <2>1. p \in l.folded \/ p \in l.allIn \/ \A q \in Seats : l.amount[q] <= l.amount[p]
    <3>1. CASE round.status[p] \in {"folded", "all-in"}
      BY <1>7, <3>1
    <3>2. CASE round.status[p] = "active"
      BY <1>1, <1>5, <3>2, BP!ClosedIsDeep, BettingApplies
    <3> QED
      BY <1>6, <3>1, <3>2 DEF BP!Statuses
  <2>2. paid[p] <= H!SumOver(H!Stake(l, p), Seats)
    BY <2>1, <1>1, <1>2, <1>3, <1>4, H!PayingIsBounded, PotsApply
  <2>3. H!Stake(l, p) = Share(p)
    BY <1>1 DEF H!Stake, Share, H!Least, B!Smaller
  <2> QED
    BY <2>2, <2>3
<1> HIDE DEF paid, b
<1>13. paid \in [Seats -> Nat]
  <2>1. \A p \in Seats : paid[p] \in Nat
    BY <1>10 DEF H!IntOver
  <2> QED
    BY <2>1, <1>9
<1>14. Total(paid) = Total(round.total)
  <2>1. paid \in [Seats -> Int] /\ round.total \in [Seats -> Int]
    BY <1>6, <1>13
  <2>2. Total(paid) = H!SumOver(paid, Seats) /\ Total(round.total) = H!SumOver(round.total, Seats)
    BY <2>1, TotalIsOver
  <2> QED
    BY <2>2, <1>1, <1>10
<1>15. ASSUME NEW p \in Seats
       PROVE  Chip(paid[p]) /\ paid[p] <= Total(Share(p))
  <2>1. Share(p) \in [Seats -> Int]
    BY <1>6 DEF Share, B!Smaller
  <2>2. Total(Share(p)) = H!SumOver(Share(p), Seats)
    BY <2>1, TotalIsOver
  <2> QED
    BY <2>2, <1>11, <1>12 DEF Chip
<1>16. Pays(paid)
  BY <1>13, <1>14, <1>15 DEF Pays
<1> QED
  BY <1>8, <1>16 DEF l

-----------------------------------------------------------------------------
(* The payout.                                                             *)

(* The slices of the physical pots are those of the ledger's.              *)
LEMMA AllocatedIsSlice ==
  ASSUME SInv, InPlay, NEW b, b = H!BuildPots(HandLedger), NEW i \in DOMAIN b.pots
  PROVE  /\ Allocated(b, i) = H!Slice(HandLedger, H!Below(b.pots, i), b.pots[i].cap)
         /\ b.pots[i] = H!PotBetween(HandLedger, H!Below(b.pots, i), b.pots[i].cap)
<1> DEFINE l == HandLedger
           low == H!Below(b.pots, i)
           cap == b.pots[i].cap
<1>1. H!ValidLedger(l) /\ l.amount = round.total
  BY HandLedgerIs
<1>2. round.total \in [Seats -> Nat]
  BY RoundTypes DEF SInv, RoundSound
<1>3. PICK rank \in [Seats -> Int] : TRUE
  <2>1. [p \in Seats |-> 0] \in [Seats -> Int]
    OBVIOUS
  <2> QED
    BY <2>1
<1>4. ~H!Unwinnable(b) /\ H!Divisible(b, rank) /\ button \in 1..TableSize
  BY HandIsCovered, HandDivides DEF SInv, Shape, Seats
<1>5. /\ b.pots[i] = H!PotBetween(l, low, cap) /\ low < cap
      /\ cap \in Int /\ low \in Int /\ low >= 0
  BY <1>1, <1>3, <1>4, H!PotsShape, PotsApply
<1>6. Allocated(b, i) =
        [p \in Seats |-> B!Larger(0, B!Smaller(round.total[p], cap)
                                       - B!Smaller(round.total[p], low))]
  BY DEF Allocated, H!Below
<1>7. H!Slice(l, low, cap) =
        [p \in Seats |-> H!Least(round.total[p], cap) - H!Least(round.total[p], low)]
  BY <1>1 DEF H!Slice
<1> HIDE DEF low, cap, l
<1>8. \A p \in Seats : B!Larger(0, B!Smaller(round.total[p], cap)
                                     - B!Smaller(round.total[p], low))
                         = H!Least(round.total[p], cap) - H!Least(round.total[p], low)
  <2> TAKE p \in Seats
  <2>1. round.total[p] \in Int
    BY <1>2
  <2> QED
    BY <2>1, <1>5 DEF B!Larger, B!Smaller, H!Least
<1>9. Allocated(b, i) = H!Slice(l, low, cap)
  BY <1>6, <1>7, <1>8
<1> QED
  BY <1>5, <1>9 DEF low, cap, l

(* After the payout no chip is left in front of anybody or in the pots.    *)
LEMMA TableIsCleared ==
  ASSUME SInv, InPlay, NEW rank
  PROVE  LET built == P!BuildPots(HandLedger)
         IN PaidOut(built, rank) = [ rack |-> Plus(stack, Winnings(built, rank)),
                                     bet |-> Nothing, collected |-> Nothing ]
<1> DEFINE l == HandLedger
           b == H!BuildPots(l)
           part(p) == [i \in DOMAIN b.pots |-> Allocated(b, i)[p]]
           allocated == [p \in Seats |-> Total(part(p))]
<1>1. P!BuildPots(l) = b
  BY SamePots
<1>2. H!ValidLedger(l) /\ l.amount = round.total
  BY HandLedgerIs
<1>3. round.total \in [Seats -> Nat]
  BY RoundTypes DEF SInv, RoundSound
<1>4. CollectBets(chips) = [rack |-> stack, bet |-> Nothing, collected |-> round.total]
  BY Collected
<1>5. chips.rack = stack
  BY DEF SInv, InRack
<1>6. \A i \in DOMAIN b.pots :
        Allocated(b, i) = H!Slice(l, H!Below(b.pots, i), b.pots[i].cap)
  BY AllocatedIsSlice
<1>7. PaidOut(b, rank) =
        [ rack |-> Plus(stack, Winnings(b, rank)), bet |-> Nothing,
          collected |-> Minus(Minus(round.total, b.refund), allocated) ]
  BY <1>4, <1>5 DEF PaidOut
<1>8. ASSUME NEW p \in Seats
      PROVE  (round.total[p] - b.refund[p]) - Total(part(p)) = 0
  <2> DEFINE f == part(p)
  <2>1. \A i \in DOMAIN b.pots : f[i] = H!Slice(l, H!Below(b.pots, i), b.pots[i].cap)[p]
    BY <1>6
  <2>2. DOMAIN f = DOMAIN b.pots
    OBVIOUS
  <2> HIDE DEF f, l
  <2>3. /\ H!IntOver(f, DOMAIN b.pots) /\ b.refund[p] \in Int
        /\ H!SumOver(f, DOMAIN b.pots) + b.refund[p] = l.amount[p]
    BY <1>2, <2>1, H!ChipsGoSomewhere, PotsApply
  <2>4. H!SumOver(f, DOMAIN b.pots) \in Int
    BY <2>3, H!SumTakesOut, PotsApply
  <2>5. Total(f) = H!SumOver(f, DOMAIN b.pots)
    BY <2>2, SameSums, H!TotalIsSum, PotsApply
  <2>6. round.total[p] = H!SumOver(f, DOMAIN b.pots) + b.refund[p]
    BY <2>3, <1>2
  <2> DEFINE n == H!SumOver(f, DOMAIN b.pots)
             k == b.refund[p]
  <2>7. n \in Int /\ k \in Int /\ round.total[p] = n + k /\ Total(f) = n
    BY <2>3, <2>4, <2>5, <2>6
  <2> HIDE DEF n
  <2>8. (round.total[p] - k) - Total(f) = 0
    BY <2>7
  <2> QED
    BY <2>8 DEF f
<1>9. Minus(Minus(round.total, b.refund), allocated) = Nothing
  <2> HIDE DEF b, part
  <2>1. \A p \in Seats : allocated[p] = Total(part(p))
    OBVIOUS
  <2> HIDE DEF allocated
  <2> QED
    BY <1>8, <2>1 DEF Minus, Nothing
<1> QED
  BY <1>1, <1>7, <1>9

(* What LedgerSettles says of the end of a hand.                           *)
LEMMA HandIsPayable ==
  ASSUME SInv, InPlay
  PROVE  Payable
<1> DEFINE l == HandLedger
           b == H!BuildPots(l)
<1>1. P!BuildPots(l) = b
  BY SamePots
<1>2. ASSUME NEW i \in DOMAIN b.pots
      PROVE  Total(Allocated(b, i)) = b.pots[i].amount
  <2> DEFINE low == H!Below(b.pots, i)
             cap == b.pots[i].cap
  <2>1. Allocated(b, i) = H!Slice(l, low, cap) /\ b.pots[i] = H!PotBetween(l, low, cap)
    BY AllocatedIsSlice
  <2> HIDE DEF low, cap
  <2>2. H!PotBetween(l, low, cap).amount = H!Total(H!Slice(l, low, cap))
    BY DEF H!PotBetween, H!Slice
  <2> QED
    BY <2>1, <2>2, SameSums
<1>3. ASSUME NEW i \in DOMAIN b.pots, NEW rank \in Ranks
      PROVE  ~P!Indivisible(b.pots[i], rank)
  BY RanksAreInts, HandDivides, SameAwards DEF H!Divisible
<1> HIDE DEF b
<1> QED
  BY <1>1, <1>2, <1>3 DEF Payable

-----------------------------------------------------------------------------
(* The places after a hand.                                                *)

(* Who busts in a hand, and recordEliminations' batch of it.               *)
Busted(stacks) == {p \in Active : stacks[p] = 0}
BatchOf(busted) == [ started |-> [p \in busted |-> hand.start[p]],
                     hand |-> [p \in busted |-> 1] ]
InOrder == [p \in Seats |-> p]

(* FairPlaces of Freezeout, for given stacks and places before the hand.   *)
Fair(places, busted) ==
  LET left == Cardinality(Active \ busted)
  IN /\ \A p \in busted : places[p] \in (left + 1)..(left + Cardinality(busted))
     /\ \A p, q \in busted :
          /\ hand.start[p] > hand.start[q] => places[p] < places[q]
          /\ p # q /\ places[p] = places[q] => hand.start[p] = hand.start[q]
     /\ \A p \in Seats \ busted :
          places[p] = IF Active \ busted = {p} THEN 1 ELSE place[p]

(* Whoever is left began the hand with chips, and all of them with every   *)
(* chip.                                                                   *)
LEMMA StartsArePositive ==
  ASSUME SInv, InPlay
  PROVE  /\ hand.start \in [Seats -> Nat] /\ Total(hand.start) = TableSize * StartingStack
         /\ Cardinality(Active) >= 2
         /\ \A p \in Seats : /\ p \in Active <=> hand.start[p] > 0
                             /\ hand.start[p] <= TableSize * StartingStack
<1>1. HandShape /\ Field /\ Owned = hand.start
  BY DEF SInv, Owned
<1>2. Active # {}
  BY <1>1, FS_EmptySet DEF HandShape
<1>3. /\ hand.start \in [Seats -> Nat] /\ Total(hand.start) = TableSize * StartingStack
      /\ \A p \in Seats : p \in Active <=> hand.start[p] > 0
  BY <1>1, <1>2 DEF Field
<1>4. \A p \in Seats : hand.start[p] <= TableSize * StartingStack
  BY <1>3, TotalOfNats
<1> QED
  BY <1>1, <1>3, <1>4 DEF HandShape

(* The players a hand breaks are a batch the placing of them is proved     *)
(* for.                                                                    *)
LEMMA BatchIsBatch ==
  ASSUME SInv, InPlay, NEW busted \in SUBSET Active
  PROVE  /\ BatchOf(busted) \in H!Batches /\ H!SameHand(BatchOf(busted))
         /\ BatchOf(busted).started = [p \in busted |-> hand.start[p]]
         /\ DOMAIN BatchOf(busted).started = busted
<1> DEFINE M == TableSize * StartingStack
           batch == BatchOf(busted)
<1>1. M \in Nat
  BY TableAssumption, ScheduleAssumption
<1>2. busted \in SUBSET Seats
  BY ActiveIsFinite
<1>3. ASSUME NEW p \in busted
      PROVE  hand.start[p] \in 1..M
  <2>1. hand.start[p] \in Nat /\ hand.start[p] > 0 /\ hand.start[p] <= M
    BY <1>2, StartsArePositive
  <2> HIDE DEF M
  <2> QED
    BY <2>1, <1>1
<1> HIDE DEF M
<1>4. [p \in busted |-> hand.start[p]] \in [busted -> 1..M]
  BY <1>3
<1>5. [p \in busted |-> 1] \in [busted -> 1..1]
  OBVIOUS
<1>6. batch \in [started : [busted -> 1..M], hand : [busted -> 1..1]]
  BY <1>4, <1>5 DEF BatchOf
<1>7. batch \in H!Batches
  BY <1>2, <1>6 DEF H!Batches, M
<1>8. batch.started = [p \in busted |-> hand.start[p]] /\ batch.hand = [p \in busted |-> 1]
  BY DEF BatchOf
<1>9. H!SameHand(batch)
  BY <1>8 DEF H!SameHand
<1> QED
  BY <1>7, <1>8, <1>9

(* The places a hand gives.                                                *)
LEMMA GivenPlaces ==
  ASSUME SInv, InPlay, NEW busted \in SUBSET Active
  PROVE  LET given == F!PlacesInHand(BatchOf(busted), InOrder, Cardinality(Active))
             left == Cardinality(Active) - Cardinality(busted)
         IN /\ DOMAIN given = busted
            /\ \A p \in busted : given[p] \in (left + 1)..Cardinality(Active)
            /\ \A p, q \in busted :
                 hand.start[p] > hand.start[q] => given[p] < given[q]
<1> DEFINE batch == BatchOf(busted)
           n == Cardinality(Active)
           given == F!PlacesInHand(batch, InOrder, n)
           left == n - Cardinality(busted)
<1>1. /\ batch \in H!Batches /\ H!SameHand(batch)
      /\ batch.started = [p \in busted |-> hand.start[p]]
      /\ DOMAIN batch.started = busted
  BY BatchIsBatch
<1>2. InOrder \in {[p \in Seats |-> p]}
  BY DEF InOrder
<1>3. given = H!PlacesInHand(batch, InOrder, n)
  BY SamePlaces
<1>4. n \in Nat
  BY ActiveIsFinite
<1>5. IsFiniteSet(busted) /\ Cardinality(busted) \in Nat
  BY ActiveIsFinite, FS_Subset, FS_CardinalityType
<1> HIDE DEF batch, n, given
<1>6. given = H!PlacesOf(batch, InOrder, n, TRUE)
  BY <1>1, <1>3 DEF H!PlacesOf
<1>7. H!BestPlace(batch, n) = left + 1
  <2>1. H!Cardinality(busted) = Cardinality(busted)
    BY SameCardinality
  <2> QED
    BY <2>1, <1>1, <1>4, <1>5 DEF H!BestPlace
<1>8. /\ DOMAIN H!PlacesOf(batch, InOrder, n, TRUE) = busted
      /\ \A p \in busted :
           /\ H!PlacesOf(batch, InOrder, n, TRUE)[p] \in Int
           /\ H!BestPlace(batch, n) <= H!PlacesOf(batch, InOrder, n, TRUE)[p]
           /\ H!PlacesOf(batch, InOrder, n, TRUE)[p] <= n
  BY <1>1, <1>2, <1>4, H!PlacesBounded, PotsApply
<1>9. DOMAIN given = busted
  BY <1>6, <1>8
<1>10. ASSUME NEW p \in busted
       PROVE  given[p] \in (left + 1)..n
  <2>1. given[p] \in Int /\ left + 1 <= given[p] /\ given[p] <= n
    BY <1>6, <1>7, <1>8
  <2>2. left \in Int
    BY <1>4, <1>5
  <2> HIDE DEF left
  <2> QED
    BY <2>1, <2>2, <1>4
<1>11. ASSUME NEW p \in busted, NEW q \in busted, hand.start[p] > hand.start[q]
       PROVE  given[p] < given[q]
  <2>1. batch.started[p] > batch.started[q]
    BY <1>1, <1>11
  <2>2. H!PlacesInHand(batch, InOrder, n)[p] < H!PlacesInHand(batch, InOrder, n)[q]
    BY <2>1, <1>1, <1>2, <1>4, H!DeeperFinishesAhead, PotsApply
  <2> QED
    BY <2>2, <1>3
<1> QED
  BY <1>9, <1>10, <1>11 DEF batch, n, given

(* The places after a hand are fair to those it broke.                     *)
LEMMA PlacesAreFair ==
  ASSUME SInv, InPlay, NEW stacks, Busted(stacks) # Active
  PROVE  Fair(PlacesAfter(stacks), Busted(stacks))
<1> DEFINE busted == Busted(stacks)
           n == Cardinality(Active)
           m == Cardinality(busted)
           left == Cardinality(Active \ busted)
           given == F!PlacesInHand(BatchOf(busted), InOrder, n)
           places == PlacesAfter(stacks)
<1>1. busted \in SUBSET Active /\ Active \subseteq Seats /\ IsFiniteSet(Active)
  BY ActiveIsFinite DEF Busted
<1>2. n \in Nat /\ n >= 2
  BY ActiveIsFinite, StartsArePositive
<1>3. IsFiniteSet(busted) /\ IsFiniteSet(Active \ busted) /\ m \in Nat /\ left \in Nat
  BY <1>1, FS_Subset, FS_CardinalityType
<1>4. left + m = n
  <2>1. Active = (Active \ busted) \cup busted /\ (Active \ busted) \cap busted = {}
    BY <1>1
  <2>2. Cardinality((Active \ busted) \cup busted) = left + m - Cardinality({})
    BY <2>1, <1>3, FS_Union
  <2>3. Cardinality({}) = 0
    BY FS_EmptySet
  <2>4. n = left + m - 0
    BY <2>1, <2>2, <2>3
  <2> HIDE DEF n, m, left, busted
  <2> QED
    BY <2>4, <1>2, <1>3
<1>5. places = IF busted = {} THEN place ELSE F!Placed(place, given)
  BY DEF PlacesAfter, Busted, BatchOf, InOrder
<1>6. CASE busted = {}
  <2>1. places = place /\ Active \ busted = Active
    BY <1>5, <1>6
  <2>2. \A p \in Seats : Active # {p}
    BY <1>2, FS_Singleton
  <2> QED
    BY <2>1, <2>2, <1>6 DEF Fair
<1>7. CASE busted # {}
  <2>1. /\ DOMAIN given = busted
        /\ \A p \in busted : given[p] \in (n - m + 1)..n
        /\ \A p, q \in busted : hand.start[p] > hand.start[q] => given[p] < given[q]
    BY <1>1, GivenPlaces
  <2>2. places = F!Placed(place, given)
    BY <1>5, <1>7
  <2> HIDE DEF busted, given, places, n, m, left
  <2>3. {p \in Seats : place[p] = F!Unplaced} = Active
    BY DEF Active, F!Unplaced
  <2>4. \A p \in Seats : places[p] = CASE p \in busted -> given[p]
                                       [] Active \ busted = {p} -> 1
                                       [] OTHER -> place[p]
    BY <2>1, <2>2, <2>3 DEF F!Placed
  <2>5. \A p \in busted : places[p] = given[p]
    BY <2>4, <1>1
  <2>6. \A p \in Seats \ busted : places[p] = IF Active \ busted = {p} THEN 1 ELSE place[p]
    BY <2>4
  <2>7. \A p \in busted : places[p] \in (left + 1)..(left + m)
    BY <2>1, <2>5, <1>2, <1>3, <1>4
  <2>8. \A p \in busted : places[p] \in Int /\ hand.start[p] \in Int
    BY <2>7, <1>1, <1>3, StartsArePositive
  <2>9. ASSUME NEW p \in busted, NEW q \in busted
        PROVE  /\ hand.start[p] > hand.start[q] => places[p] < places[q]
               /\ p # q /\ places[p] = places[q] => hand.start[p] = hand.start[q]
    BY <2>1, <2>5, <2>8
  <2> QED
    BY <2>6, <2>7, <2>9 DEF Fair, left, m, busted, places
<1> QED
  BY <1>6, <1>7

-----------------------------------------------------------------------------
(* Settling.                                                               *)

(* Nobody has anything in an empty column.                                 *)
LEMMA TotalOfNone == Total([p \in Seats |-> 0]) = 0
<1>1. 0 \in Int /\ TableSize * 0 = 0
  BY TableAssumption
<1>2. Total([p \in Seats |-> 0]) = TableSize * 0
  BY <1>1, TotalOfEqual
<1> QED
  BY <1>1, <1>2

(* A settlement, in one place: what is paid, what is left on the table and *)
(* who gets which place.                                                   *)
Settles(paid) ==
  /\ Pays(paid) /\ stack' = Plus(stack, paid)
  /\ chips' = [rack |-> stack', bet |-> Nothing, collected |-> Nothing]
  /\ place' = PlacesAfter(stack')

(* A settlement is one of those just described.                            *)
LEMMA SettlePays ==
  ASSUME SInv, Settle
  PROVE  /\ InPlay /\ ~InPlay' /\ hand' = NoHand /\ UNCHANGED <<button, level, blinds, phase>>
         /\ \E paid : Settles(paid)
<1>1. /\ InPlay /\ round.complete /\ hand' = NoHand
      /\ UNCHANGED <<button, level, blinds, phase>> /\ place' = PlacesAfter(stack')
  BY DEF Settle
<1>2. PICK rank \in Ranks :
        /\ stack' = Plus(stack, Winnings(P!BuildPots(HandLedger), rank))
        /\ chips' = PaidOut(P!BuildPots(HandLedger), rank)
  BY DEF Settle
<1> DEFINE paid == Winnings(P!BuildPots(HandLedger), rank)
<1>3. Pays(paid)
  BY <1>1, HandPays
<1>4. chips' = [rack |-> Plus(stack, paid), bet |-> Nothing, collected |-> Nothing]
  BY <1>1, <1>2, TableIsCleared
<1> HIDE DEF paid
<1>5. stack' = Plus(stack, paid)
  BY <1>2 DEF paid
<1>6. Settles(paid)
  BY <1>1, <1>3, <1>4, <1>5 DEF Settles
<1>7. ~InPlay'
  BY <1>1 DEF InPlay
<1> QED
  BY <1>1, <1>6, <1>7

(* The stacks after a settlement.                                          *)
LEMMA SettledStacks ==
  ASSUME SInv, InPlay, NEW paid, Settles(paid)
  PROVE  /\ stack' \in [Seats -> Nat] /\ Total(stack') = TableSize * StartingStack
         /\ \A p \in Seats : /\ Chip(stack'[p])
                             /\ stack'[p] = hand.start[p] - round.total[p] + paid[p]
         /\ \A p \in Seats \ Active : stack'[p] = 0
         /\ Busted(stack') # Active
<1>1. /\ stack \in [Seats -> Nat] /\ round.total \in [Seats -> Nat]
      /\ \A p \in Seats : stack[p] + round.total[p] = hand.start[p]
      /\ \A p \in Seats : Chip(stack[p])
  BY RoundTypes DEF SInv, RoundSound, Shape
<1>2. /\ paid \in [Seats -> Nat] /\ Total(paid) = Total(round.total)
      /\ \A p \in Seats : Chip(paid[p]) /\ paid[p] <= Total(Share(p))
      /\ stack' = Plus(stack, paid)
  BY DEF Settles, Pays
<1>3. stack' \in [Seats -> Nat] /\ \A p \in Seats : stack'[p] = stack[p] + paid[p]
  BY <1>1, <1>2 DEF Plus
<1>4. /\ hand.start \in [Seats -> Nat] /\ Total(hand.start) = TableSize * StartingStack
      /\ \A p \in Seats : p \in Active <=> hand.start[p] > 0
  BY StartsArePositive
<1>5. ASSUME NEW p \in Seats
      PROVE  /\ Chip(stack'[p])
             /\ stack'[p] = hand.start[p] - round.total[p] + paid[p]
             /\ p \notin Active => stack'[p] = 0
  <2>1. /\ stack[p] \in Int /\ paid[p] \in Nat /\ round.total[p] \in Nat /\ stack[p] \in Nat
        /\ hand.start[p] \in Nat
        /\ stack[p] + round.total[p] = hand.start[p] /\ stack'[p] = stack[p] + paid[p]
    BY <1>1, <1>2, <1>3, <1>4
  <2>2. Chip(stack[p] + paid[p])
    BY <2>1, <1>1, <1>2, BP!OnRackAdds, BettingApplies, OnTheRack
  <2>3. stack'[p] = hand.start[p] - round.total[p] + paid[p]
    BY ONLY <2>1
  <2>4. ASSUME p \notin Active
        PROVE  stack'[p] = 0
    <3>1. stack[p] = 0 /\ round.total[p] = 0
      BY <2>1, <2>4, <1>4
    <3>2. Share(p) = [q \in Seats |-> 0]
      <4>1. \A q \in Seats : B!Smaller(round.total[q], round.total[p]) = 0
        BY <3>1, <1>1 DEF B!Smaller
      <4> QED
        BY <4>1 DEF Share
    <3>4. Total(Share(p)) = 0
      BY <3>2, TotalOfNone
    <3>5. paid[p] = 0
      BY <3>4, <1>2, <2>1
    <3> QED
      BY <3>1, <3>5, <2>1
  <2> QED
    BY <2>1, <2>2, <2>3, <2>4
<1>6. Total(stack') = TableSize * StartingStack
  <2>1. /\ stack \in [Seats -> Int] /\ paid \in [Seats -> Int] /\ round.total \in [Seats -> Int]
    BY <1>1, <1>2
  <2>2. Plus(stack, round.total) = hand.start
    BY <1>1, <1>4 DEF Plus
  <2>3. Total(stack) + Total(round.total) = TableSize * StartingStack
    BY <2>1, <2>2, <1>4, TotalsAdd
  <2> QED
    BY <2>1, <2>3, <1>2, TotalsAdd
<1>7. Busted(stack') # Active
  <2> SUFFICES ASSUME Busted(stack') = Active PROVE FALSE
    OBVIOUS
  <2>1. \A p \in Seats : stack'[p] = 0
    BY <1>5 DEF Busted
  <2>2. stack' = [p \in Seats |-> 0]
    BY <2>1, <1>3
  <2>3. Total(stack') = 0
    BY <2>2, TotalOfNone
  <2>4. TableSize * StartingStack # 0
    BY TableAssumption, ScheduleAssumption
  <2> QED
    BY <2>3, <2>4, <1>6
<1> QED
  BY <1>3, <1>5, <1>6, <1>7

(* A settlement keeps the session sound.                                   *)
LEMMA SettleKeeps ==
  ASSUME SInv, Settle
  PROVE  SInv'
<1>1. /\ InPlay /\ ~InPlay' /\ UNCHANGED <<button, level, blinds, phase>>
  BY SettlePays
<1>2. PICK paid : Settles(paid)
  BY SettlePays
<1> DEFINE busted == Busted(stack')
           left == Active \ busted
<1>3. /\ stack' \in [Seats -> Nat] /\ Total(stack') = TableSize * StartingStack
      /\ \A p \in Seats : Chip(stack'[p])
      /\ \A p \in Seats \ Active : stack'[p] = 0
      /\ busted # Active
  BY <1>1, <1>2, SettledStacks
<1>4. Fair(place', busted)
  BY <1>1, <1>2, <1>3, PlacesAreFair DEF Settles
<1>5. /\ busted \subseteq Active /\ Active \subseteq Seats
      /\ \A p \in Active : p \in busted <=> stack'[p] = 0
  BY ActiveIsFinite DEF Busted
<1>6. IsFiniteSet(busted) /\ IsFiniteSet(left)
      /\ Cardinality(left) \in Nat /\ Cardinality(busted) \in Nat
  BY ActiveIsFinite, <1>5, FS_Subset, FS_CardinalityType
<1>7. left # {}
  BY <1>3, <1>5
<1>8. place \in [Seats -> Nat] /\ Shape
  BY DEF SInv, Shape
<1>9. DOMAIN place' = Seats /\ place' = [p \in Seats |-> place'[p]]
  BY <1>2, <1>8 DEF Settles, PlacesAfter, F!Placed
<1> HIDE DEF busted
<1>10. ASSUME NEW p \in busted
       PROVE  place'[p] \in Nat \ {0}
  <2>1. place'[p] \in (Cardinality(left) + 1)..(Cardinality(left) + Cardinality(busted))
    BY <1>4 DEF Fair
  <2> QED
    BY <2>1, <1>6
<1>11. \A p \in Seats \ busted : place'[p] = IF left = {p} THEN 1 ELSE place[p]
  BY <1>4 DEF Fair
<1>12. place' \in [Seats -> Nat]
  <2>1. \A p \in Seats : place'[p] \in Nat
    BY <1>8, <1>10, <1>11
  <2> QED
    BY <2>1, <1>9
<1>13. \A p \in Seats : p \in Active <=> place[p] = 0
  BY DEF Active
<1>14. \A p \in Seats : p \in Active' <=> p \in left /\ left # {p}
  <2> TAKE p \in Seats
  <2>1. p \in Active' <=> place'[p] = 0
    BY DEF Active
  <2>2. CASE p \in busted
    BY <2>1, <2>2, <1>10
  <2>3. CASE p \notin busted
    BY <2>1, <2>3, <1>11, <1>13
  <2> QED
    BY <2>2, <2>3
<1>15. Active' \subseteq Seats
  BY DEF Active
<1>16. Field'
  <2>1. Owned' = stack'
    BY <1>1 DEF Owned
  <2>2. CASE \E p : left = {p}
    <3>1. Active' = {}
      BY <2>2, <1>5, <1>14, <1>15
    <3>2. Cardinality(Active') # 1
      BY <3>1, FS_EmptySet
    <3> QED
      BY <2>1, <3>1, <3>2, <1>3 DEF Field
  <2>3. CASE ~\E p : left = {p}
    <3>1. Active' = left
      BY <2>3, <1>5, <1>14, <1>15
    <3>2. Cardinality(left) # 1
      BY <2>3, <1>6, FS_Singleton
    <3>3. \A p \in Seats : p \in left <=> stack'[p] > 0
      BY <1>3, <1>5
    <3> QED
      BY <2>1, <3>1, <3>2, <3>3, <1>3 DEF Field
  <2> QED
    BY <2>2, <2>3
<1>17. InRack'
  BY <1>1, <1>2 DEF Settles, InRack, Nothing
<1>18. Shape'
  BY <1>1, <1>3, <1>8, <1>12 DEF Shape, GoodBlinds
<1> QED
  BY <1>1, <1>16, <1>17, <1>18 DEF SInv

-----------------------------------------------------------------------------
(* The properties.                                                         *)

(* Every step of a session keeps it sound.                                 *)
LEMMA NextKeeps ==
  ASSUME SInv, [Next]_vars
  PROVE  SInv'
<1>1. CASE BeginHand
  BY <1>1, BeginHandKeeps
<1>2. ASSUME NEW p \in Seats, PlayerAct(p)
      PROVE  SInv'
  BY <1>2, PlayerActKeeps
<1>3. CASE DealStreet
  BY <1>3, DealStreetKeeps
<1>4. CASE Settle
  BY <1>4, SettleKeeps
<1>5. CASE AdvanceClock
  BY <1>5, ClockKeeps
<1>6. CASE UNCHANGED vars
  BY <1>6 DEF vars, SInv, Shape, Field, InRack, HandShape, RoundSound, JustOpened, Forced,
              Owned, InPlay, Active, OpenedWith, GoodBlinds
<1> QED
  BY <1>1, <1>2, <1>3, <1>4, <1>5, <1>6 DEF Next, HandStep, Closed

(* Every reachable state of a session is sound (SInv): the numbers of      *)
(* session-core, the betting round and the physical chips agree, who is in *)
(* has chips, and the pots under construction can be won.                  *)
THEOREM SessionInvariant == Spec => []SInv
<1>1. Init => SInv
  BY InitSInv
<1>2. SInv /\ [Next]_vars => SInv'
  BY NextKeeps
<1> QED
  BY <1>1, <1>2, PTL DEF Spec

(* In a sound session the chips agree and every pot of a closed hand is    *)
(* payable.                                                                *)
LEMMA LedgerAgrees == SInv => LedgerSettles
<1> SUFFICES ASSUME SInv PROVE LedgerSettles
  OBVIOUS
<1>1. /\ stack \in [Seats -> Nat] /\ Owned \in [Seats -> Nat]
      /\ Total(Owned) = TableSize * StartingStack /\ InRack
  BY DEF SInv, Shape, Field
<1>2. CASE InPlay
  <2>1. /\ BP!RoundInv(round) /\ round.stack = stack
        /\ \A p \in Seats : stack[p] + round.total[p] = Owned[p]
    BY <1>2 DEF SInv, RoundSound, Owned
  <2>2. round.total \in [Seats -> Nat] /\ round.street \in [Seats -> Nat]
    BY <2>1, RoundTypes
  <2>3. [p \in Seats |-> Committed(p)] = round.total /\ \A p \in Seats : CommittedNow(p) = round.street[p]
    BY <1>2, <2>2 DEF Committed, CommittedNow
  <2>4. Plus(stack, round.total) = Owned
    BY <1>1, <2>1, <2>2 DEF Plus
  <2>5. Total(stack) + Total(round.total) = TableSize * StartingStack
    <3>1. stack \in [Seats -> Int] /\ round.total \in [Seats -> Int]
      BY <1>1, <2>2
    <3> QED
      BY <3>1, <2>4, <1>1, TotalsAdd
  <2>6. ASSUME NEW p \in Seats
        PROVE  /\ chips.rack[p] = stack[p] /\ chips.bet[p] = CommittedNow(p)
               /\ chips.bet[p] + chips.collected[p] = Committed(p)
    <3>1. chips.rack = stack /\ chips.bet = round.street
          /\ chips.collected = Minus(round.total, round.street)
      BY <1>1, <1>2 DEF InRack
    <3>2. chips.collected[p] = round.total[p] - round.street[p]
      BY <3>1 DEF Minus
    <3>3. round.total[p] \in Int /\ round.street[p] \in Int
      BY <2>2
    <3>4. Committed(p) = round.total[p] /\ CommittedNow(p) = round.street[p]
      BY <1>2 DEF Committed, CommittedNow
    <3> QED
      BY <3>1, <3>2, <3>3, <3>4
  <2>7. Agreeing
    BY <2>1, <2>3, <2>5, <2>6 DEF Agreeing
  <2> QED
    BY <2>7, <1>2, HandIsPayable DEF LedgerSettles
<1>3. CASE ~InPlay
  <2>1. chips.rack = stack /\ chips.bet = Nothing /\ chips.collected = Nothing /\ Owned = stack
    BY <1>1, <1>3 DEF InRack, Owned
  <2>2. \A p \in Seats : Committed(p) = 0 /\ CommittedNow(p) = 0 /\ Nothing[p] = 0
    BY <1>3 DEF Committed, CommittedNow, Nothing
  <2>3. Total([p \in Seats |-> Committed(p)]) = 0
    <3>1. [p \in Seats |-> Committed(p)] = [p \in Seats |-> 0]
      BY <2>2
    <3> QED
      BY <3>1, TotalOfNone
  <2>4. Total(stack) \in Nat
    BY <1>1, TotalOfNats
  <2>5. Agreeing
    BY <1>1, <1>3, <2>1, <2>2, <2>3, <2>4 DEF Agreeing
  <2> QED
    BY <2>5, <1>3 DEF LedgerSettles
<1> QED
  BY <1>2, <1>3

(* In a sound session every opened round was opened from a valid entry.    *)
LEMMA RoundsAreValid == SInv => RoundsOpenValid
  BY SameEntry DEF SInv, JustOpened, RoundsOpenValid

(* In a sound session a deadline hand leaves at most one player behind.    *)
LEMMA DeadlineForces == SInv => DeadlineForcesAllIn
<1> SUFFICES ASSUME SInv, InPlay, hand.street = 0, phase = "deadline"
             PROVE  Cardinality({p \in Seats : hand.start[p] > round.currentBet}) <= 1
  BY DEF DeadlineForcesAllIn
<1> DEFINE S == {p \in Seats : hand.start[p] > round.currentBet}
<1>1. \A p, q \in S : p = q
  BY DEF SInv, Forced
<1>2. S \in SUBSET Seats
  OBVIOUS
<1> HIDE DEF S
<1>3. IsFiniteSet(S)
  BY <1>2, SeatsAreFinite, FS_Subset
<1>4. Cardinality(S) \in Nat /\ ~(Cardinality(S) >= 2)
  <2>1. Cardinality(S) \in Nat
    BY <1>3, TwoOf
  <2>2. ASSUME Cardinality(S) >= 2
        PROVE  FALSE
    <3>1. S # {}
      BY <2>2, FS_EmptySet
    <3> QED
      BY <3>1, <2>2, <1>1, <1>3, TwoOf
  <2> QED
    BY <2>1, <2>2
<1> QED
  BY <1>4 DEF S

(* LedgerSettles for every table, schedule and stack: the accounting and   *)
(* the physical chips agree at every moment of a hand, no chip is made or  *)
(* lost, and a closed hand's pots add up and can be paid (settle-hand and  *)
(* chip-ledger).                                                           *)
THEOREM LedgerSettlesHolds == Spec => []LedgerSettles
  BY SessionInvariant, LedgerAgrees, PTL

(* RoundsOpenValid for every session: preflop and on every later street,   *)
(* the betting round is opened from an entry createBettingRound accepts.   *)
THEOREM RoundsHold == Spec => []RoundsOpenValid
  BY SessionInvariant, RoundsAreValid, PTL

(* DeadlineForcesAllIn for every timed session: a hand begun at the        *)
(* deadline has blinds that put all players but one all-in.                *)
THEOREM DeadlineHolds == Spec => []DeadlineForcesAllIn
  BY SessionInvariant, DeadlineForces, PTL

-----------------------------------------------------------------------------
(* The freeze-out.                                                         *)

(* The freeze-out adds and counts the way the session does.                *)
LEMMA SameSum ==
  /\ \A f : Tournament!Sum(f) = Total(f)
  /\ \A S : Tournament!Cardinality(S) = Cardinality(S)
<1>1. \A f : Tournament!Sum(f) = Total(f)
  BY DEF Total, Tournament!Sum, FoldFunction, Tournament!FoldFunction,
         FoldFunctionOnSet, Tournament!FoldFunctionOnSet,
         MapThenFoldSet, Tournament!MapThenFoldSet
<1>2. \A S : Tournament!Cardinality(S) = Cardinality(S)
  BY DEF Tournament!Cardinality, Cardinality
<1> QED
  BY <1>1, <1>2

(* Paid in: at most what he can win and what he put in himself.            *)
LEMMA StakeIsWinnable ==
  ASSUME SInv, InPlay, NEW p \in Seats
  PROVE  /\ Total(Share(p)) <= Tournament!Winnable(p) + round.total[p]
         /\ Tournament!Winnable(p) \in Int
<1> DEFINE own == [q \in Seats |-> IF q = p THEN round.total[p] ELSE 0]
           win == [q \in Seats |-> IF q = p THEN 0
                                   ELSE Tournament!AtMost(hand.start[p], hand.start[q])]
<1>1. /\ stack \in [Seats -> Nat] /\ round.total \in [Seats -> Nat]
      /\ hand.start \in [Seats -> Nat]
      /\ \A q \in Seats : stack[q] + round.total[q] = hand.start[q]
  BY RoundTypes, StartsArePositive DEF SInv, RoundSound, Shape
<1>2. Tournament!Winnable(p) = Total(win)
  BY SameSum DEF Tournament!Winnable
<1>3. own \in [Seats -> Int] /\ win \in [Seats -> Int] /\ Share(p) \in [Seats -> Int]
  BY <1>1 DEF Tournament!AtMost, Share, B!Smaller
<1>4. ASSUME NEW q \in Seats
      PROVE  Share(p)[q] <= Plus(win, own)[q]
  <2>1. /\ round.total[q] \in Nat /\ round.total[p] \in Nat /\ stack[p] \in Nat /\ stack[q] \in Nat
        /\ hand.start[p] = stack[p] + round.total[p] /\ hand.start[q] = stack[q] + round.total[q]
    BY <1>1
  <2>2. Share(p)[q] = B!Smaller(round.total[q], round.total[p])
    BY DEF Share
  <2>3. Plus(win, own)[q] = IF q = p THEN 0 + round.total[p]
                            ELSE Tournament!AtMost(hand.start[p], hand.start[q]) + 0
    BY DEF Plus
  <2> HIDE DEF win, own
  <2>4. CASE q = p
    BY ONLY <2>1, <2>2, <2>3, <2>4 DEF B!Smaller
  <2>5. CASE q # p
    BY ONLY <2>1, <2>2, <2>3, <2>5 DEF B!Smaller, Tournament!AtMost
  <2> QED
    BY <2>4, <2>5
<1>5. Total(own) = round.total[p]
  <2>1. {p} \in SUBSET Seats /\ H!IsFiniteSet(Seats) /\ H!Cardinality({p}) = 1
    BY SeatsAreFinite, SameCardinality, FS_Singleton
  <2>2. \A q \in Seats : own[q] = IF q \in {p} THEN round.total[p] ELSE 0
    OBVIOUS
  <2>3. round.total[p] \in Int
    BY <1>1
  <2>4. Total(own) = H!SumOver(own, Seats)
    BY <1>3, TotalIsOver
  <2> HIDE DEF own
  <2>5. H!SumOver(own, Seats) = round.total[p] * H!Cardinality({p})
    BY <2>1, <2>2, <2>3, H!SumCounts, PotsApply
  <2> QED
    BY <2>1, <2>3, <2>4, <2>5
<1> HIDE DEF own, win
<1>6. Plus(win, own) \in [Seats -> Int]
  BY <1>3 DEF Plus
<1>7. Total(Share(p)) <= Total(Plus(win, own))
  BY <1>3, <1>4, <1>6, TotalsCompare
<1>8. Total(Plus(win, own)) = Total(win) + Total(own) /\ Total(win) \in Int
  BY <1>3, TotalsAdd, TotalIsOver
<1> QED
  BY <1>2, <1>5, <1>7, <1>8

(* A settlement is a hand of the freeze-out.                               *)
LEMMA SettleIsHand ==
  ASSUME SInv, Settle
  PROVE  Tournament!PlayHand
<1>1. InPlay /\ ~InPlay'
  BY SettlePays
<1>2. PICK paid : Settles(paid)
  BY SettlePays
<1>3. /\ stack' \in [Seats -> Nat] /\ Total(stack') = TableSize * StartingStack
      /\ \A p \in Seats : stack'[p] = hand.start[p] - round.total[p] + paid[p]
      /\ Busted(stack') # Active
  BY <1>1, <1>2, SettledStacks
<1>4. /\ hand.start \in [Seats -> Nat] /\ Total(hand.start) = TableSize * StartingStack
      /\ Cardinality(Active) >= 2
  BY <1>1, StartsArePositive
<1>5. Tournament!Playing = Active /\ Tournament!Cardinality(Active) >= 2
  BY <1>4, SameSum DEF Tournament!Playing, Active
<1>6. stack' \in [Seats -> 0..Tournament!Sum(hand.start)]
  <2>1. \A p \in Seats : stack'[p] \in Nat /\ stack'[p] <= Total(stack')
    BY <1>3, TotalOfNats
  <2>2. Tournament!Sum(hand.start) = Total(stack') /\ Total(stack') \in Nat
    BY <1>3, <1>4, SameSum, TotalOfNats
  <2>3. \A p \in Seats : stack'[p] \in 0..Tournament!Sum(hand.start)
    BY <2>1, <2>2
  <2> QED
    BY <2>3, <1>3
<1>7. Tournament!Sum(stack') = Tournament!Sum(hand.start)
  BY <1>3, <1>4, SameSum
<1>8. ASSUME NEW p \in Seats
      PROVE  stack'[p] <= hand.start[p] + Tournament!Winnable(p)
  <2>1. paid[p] <= Total(Share(p)) /\ paid[p] \in Nat
    BY <1>2 DEF Settles, Pays
  <2>2. /\ Total(Share(p)) <= Tournament!Winnable(p) + round.total[p]
        /\ Tournament!Winnable(p) \in Int
    BY <1>1, StakeIsWinnable
  <2>3. hand.start[p] \in Int /\ round.total[p] \in Int /\ Total(Share(p)) \in Int
    <3>1. round.total \in [Seats -> Nat]
      BY <1>1, RoundTypes DEF SInv, RoundSound
    <3>2. Share(p) \in [Seats -> Int]
      BY <3>1 DEF Share, B!Smaller
    <3> QED
      BY <3>1, <3>2, <1>4, TotalIsOver
  <2>4. stack'[p] = hand.start[p] - round.total[p] + paid[p]
    BY <1>3
  <2> DEFINE w == Tournament!Winnable(p)
  <2> HIDE DEF w
  <2>5. stack'[p] <= hand.start[p] + w
    BY ONLY <2>1, <2>2, <2>3, <2>4 DEF w
  <2> QED
    BY <2>5 DEF w
<1>9. Fair(place', Busted(stack'))
  BY <1>1, <1>2, <1>3, PlacesAreFair DEF Settles
<1>10. Tournament!FairPlaces(Busted(stack'))
  BY <1>1, <1>5, <1>9, SameSum DEF Fair, Tournament!FairPlaces
<1>11. {p \in Tournament!Playing : (IF InPlay' THEN hand'.start ELSE stack')[p] = 0} = Busted(stack')
  BY <1>1, <1>5 DEF Busted
<1> QED
  BY <1>1, <1>5, <1>6, <1>7, <1>8, <1>10, <1>11 DEF Tournament!PlayHand

(* A new session is a new freeze-out.                                      *)
LEMMA InitIsFreezeout == Init => Tournament!Init
<1> SUFFICES ASSUME Init PROVE Tournament!Init
  OBVIOUS
<1>1. ~InPlay
  BY DEF Init, InPlay
<1> QED
  BY <1>1 DEF Init, Tournament!Init

(* Every step of a sound session is a hand of the freeze-out, or none of   *)
(* it.                                                                     *)
LEMMA StepIsFreezeout ==
  ASSUME SInv, [Next]_vars
  PROVE  [Tournament!Next]_Tournament!vars
<1>1. CASE Settle
  BY <1>1, SettleIsHand DEF Tournament!Next
<1>2. ASSUME Owned' = Owned, place' = place
      PROVE  UNCHANGED Tournament!vars
  BY <1>2 DEF Owned, Tournament!vars
<1>3. CASE BeginHand
  <2>1. ~InPlay /\ hand' = [street |-> 0, start |-> stack] /\ place' = place
    BY <1>3 DEF BeginHand
  <2>2. InPlay' /\ hand'.start = stack
    BY <2>1 DEF InPlay, NoHand
  <2> QED
    BY <1>2, <2>1, <2>2 DEF Owned
<1>4. CASE DealStreet
  <2>1. InPlay /\ hand' = [hand EXCEPT !.street = @ + 1] /\ place' = place
    BY <1>4 DEF DealStreet
  <2>2. hand \in [street : Nat, start : [Seats -> Nat]]
    BY <2>1 DEF SInv, HandShape
  <2>3. hand'.start = hand.start /\ hand'.street # -1
    BY <2>1, <2>2
  <2>4. InPlay'
    BY <2>3 DEF InPlay, NoHand
  <2> QED
    BY <1>2, <2>1, <2>3, <2>4 DEF Owned
<1>5. ASSUME NEW p \in Seats, PlayerAct(p)
      PROVE  UNCHANGED Tournament!vars
  <2>1. InPlay /\ hand' = hand /\ place' = place
    BY <1>5 DEF PlayerAct
  <2> QED
    BY <1>2, <2>1 DEF Owned, InPlay
<1>6. CASE AdvanceClock
  BY <1>2, <1>6 DEF AdvanceClock, Owned, InPlay
<1>7. CASE UNCHANGED vars
  BY <1>2, <1>7 DEF vars, Owned, InPlay
<1> QED
  BY <1>1, <1>3, <1>4, <1>5, <1>6, <1>7 DEF Next, HandStep, Closed

(* Hand by hand, a session is a freeze-out: every settlement of its code   *)
(* is one zero-sum hand in which nobody loses more to another than that    *)
(* one had, and the broken players take the last places still free.        *)
THEOREM SessionIsFreezeout == Spec => IsFreezeout
<1>1. Init => Tournament!Init
  BY InitIsFreezeout
<1>2. SInv /\ [Next]_vars => [Tournament!Next]_Tournament!vars
  BY StepIsFreezeout
<1> QED
  BY <1>1, <1>2, SessionInvariant, PTL DEF Spec, IsFreezeout, Tournament!Spec
====
