-------------------------------- MODULE Pots --------------------------------
(***************************************************************************)
(* Side pots, refunds and payouts: src/src/engine/pots.ts.                 *)
(*                                                                         *)
(* A contribution ledger says what each player paid into the hand, who     *)
(* folded and who is all-in.  BuildPots peels it layer by layer into       *)
(* contested pots and refunds; Awards pays one pot to its best hands.      *)
(* A player is named by his seat.  The state machine takes a ledger        *)
(* through building and resolving, the way settlement does.                *)
(***************************************************************************)
EXTENDS Integers, Sequences, FiniteSets, Functions, FiniteSetsExt

CONSTANTS
  Seats,         \* the seats of the hand's players, of 1..TableSize
  TableSize,     \* seats at the table, empty ones included
  SmallestChip,  \* no award is smaller
  Ledgers,       \* contribution ledgers the machine starts from
  Ranks,         \* strengths of the players' hands, best highest
  Buttons        \* seats the button may be on

VARIABLES
  ledger,  \* [amount, folded, allIn] of every player
  button,
  built,   \* what BuildPots returned
  awards   \* per pot, what each player wins of it

potVars == <<ledger, button, built, awards>>

-----------------------------------------------------------------------------
(* What a caller may pass.                                                 *)
ValidLedger(l) ==
  l \in [amount : [Seats -> Nat], folded : SUBSET Seats, allIn : SUBSET Seats]

ASSUME TableAssumption == TableSize \in Nat /\ TableSize >= 2 /\ Seats \subseteq 1..TableSize
ASSUME SmallestChipAssumption == SmallestChip \in Nat \ {0}
ASSUME LedgersAssumption == \A l \in Ledgers : ValidLedger(l)
ASSUME ShowdownAssumption == Ranks \subseteq [Seats -> Int] /\ Buttons \subseteq 1..TableSize

Total(f) == FoldFunction(+, 0, f)
Least(a, b) == IF a <= b THEN a ELSE b

-----------------------------------------------------------------------------
AmountLevels(l) == {l.amount[p] : p \in Seats} \ {0}
Contributors(l, cap) == {p \in Seats : l.amount[p] >= cap}
AllInCaps_Ignored(l) == {}   \* mutant: one pot for everybody
AllInCaps(l) == {l.amount[p] : p \in l.allIn} \ {0}

NoPot == [amount |-> 0, cap |-> 0, contributors |-> {}, eligible |-> {}]

(* flushPot.  The code refuses a pot without eligible players: Unwinnable. *)
Flush_KeepsPot(acc) == [acc EXCEPT !.pots = Append(@, acc.current)]  \* mutant
Flush(acc) ==
  IF acc.current.amount = 0 THEN acc
  ELSE [acc EXCEPT !.pots = Append(@, acc.current), !.current = NoPot]

(* One turn of buildPots' loop over the contribution levels.               *)
AddLayer(l, acc, cap) ==
  LET contributors == Contributors(l, cap)
      amount == (cap - acc.floor) * Cardinality(contributors)
      pot == [ amount |-> acc.current.amount + amount, cap |-> cap,
               contributors |-> acc.current.contributors \cup contributors,
               eligible |-> acc.current.eligible \cup (contributors \ l.folded) ]
      layered == [acc EXCEPT !.floor = cap, !.current = pot]
  IN IF Cardinality(contributors) = 1
     THEN [acc EXCEPT !.floor = cap,
                      !.refund = [p \in Seats |->
                                    @[p] + (IF p \in contributors THEN amount ELSE 0)]]
     ELSE IF cap \in AllInCaps(l) THEN Flush(layered) ELSE layered

(* The loop takes the levels in ascending order: the largest one last.     *)
BuildPots(l) ==
  LET start == [ pots |-> <<>>, refund |-> [p \in Seats |-> 0],
                 current |-> NoPot, floor |-> 0 ]
      end == Flush(MapThenFoldSet(LAMBDA cap, acc : AddLayer(l, acc, cap), start,
                                  LAMBDA cap : cap, Max, AmountLevels(l)))
  IN [pots |-> end.pots, refund |-> end.refund]

Unwinnable(b) == \E i \in DOMAIN b.pots : b.pots[i].eligible = {}

(* buildLivePots: the amounts of the pots the table shows during a hand.   *)
LivePots(l) ==
  LET b == BuildPots(l)
      paid == Total(l.amount)
      unfolded == {p \in Contributors(l, 1) : p \notin l.folded}
  IN CASE paid = 0 -> <<>>
       [] paid > 0 /\ l.allIn = {} -> IF unfolded = {} THEN <<>> ELSE <<paid>>
       [] OTHER -> [i \in DOMAIN b.pots |->
                      b.pots[i].amount + (IF i = 1 THEN Total(b.refund) ELSE 0)]

-----------------------------------------------------------------------------
(* clockwiseDistance: the button itself is last.                           *)
ClockwiseDistance_ButtonFirst(seat, from) ==
  (seat - from + TableSize) % TableSize  \* mutant
ClockwiseDistance(seat, from) ==
  LET d == (seat - from + TableSize) % TableSize IN IF d = 0 THEN TableSize ELSE d

Winners(pot, rank) ==
  {p \in pot.eligible : \A q \in pot.eligible : rank[p] >= rank[q]}

Share_Unrounded(pot, winners) == pot.amount \div Cardinality(winners)  \* mutant
Share(pot, winners) ==
  (pot.amount \div (Cardinality(winners) * SmallestChip)) * SmallestChip

OddChips(pot, winners) ==
  (pot.amount - Share(pot, winners) * Cardinality(winners)) \div SmallestChip

(* resolvePots for one pot: equal shares, the odd chips one each clockwise *)
(* from the button.  There are fewer odd chips than winners.               *)
Awards(pot, rank, from) ==
  LET winners == Winners(pot, rank)
      turn(p) == Cardinality({q \in winners :
                     ClockwiseDistance(q, from) < ClockwiseDistance(p, from)})
  IN [p \in Seats |->
        IF p \notin winners THEN 0
        ELSE Share(pot, winners)
               + (IF turn(p) < OddChips(pot, winners) THEN SmallestChip ELSE 0)]

(* Chips left over that no winner can be paid: the code throws.            *)
Indivisible(pot, rank) ==
  LET winners == Winners(pot, rank)
  IN (pot.amount - Share(pot, winners) * Cardinality(winners)) % SmallestChip # 0

-----------------------------------------------------------------------------
NotYet == <<>>

PotsInit ==
  /\ ledger \in Ledgers
  /\ button \in Buttons
  /\ built = NotYet
  /\ awards = NotYet

Build ==
  /\ built = NotYet
  /\ built' = BuildPots(ledger)
  /\ UNCHANGED <<ledger, button, awards>>

(* Settlement without a pot to contest only refunds.                       *)
Resolve ==
  /\ built # NotYet /\ built.pots # <<>> /\ awards = NotYet
  /\ ~Unwinnable(built)
  /\ \E rank \in Ranks :
       /\ \A i \in DOMAIN built.pots : ~Indivisible(built.pots[i], rank)
       /\ awards' = [i \in DOMAIN built.pots |-> Awards(built.pots[i], rank, button)]
  /\ UNCHANGED <<ledger, button, built>>

PotsNext == Build \/ Resolve
PotsSpec == PotsInit /\ [][PotsNext]_potVars

-----------------------------------------------------------------------------
(* What buildPots means, with no loop: the pots are capped by the all-in   *)
(* amounts that at least two players reach, and by the largest amount two  *)
(* players reach; each holds what every player paid between two caps; the  *)
(* only player above the last cap gets the rest back.                      *)
Contested(l) == {v \in AmountLevels(l) : Cardinality(Contributors(l, v)) >= 2}
PotCaps(l) ==
  IF Contested(l) = {} THEN {}
  ELSE (Contested(l) \cap AllInCaps(l)) \cup {Max(Contested(l))}

PotBetween(l, low, high) ==
  LET payers == {p \in Seats : l.amount[p] > low}
  IN [ amount |-> Total([p \in Seats |->
                           Least(l.amount[p], high) - Least(l.amount[p], low)]),
       cap |-> high, contributors |-> payers, eligible |-> payers \ l.folded ]

Layered(l, pots) ==
  /\ DOMAIN pots = 1..Cardinality(PotCaps(l))
  /\ {pots[i].cap : i \in DOMAIN pots} = PotCaps(l)
  /\ \A i \in DOMAIN pots :
       LET below == IF i = 1 THEN 0 ELSE pots[i - 1].cap
       IN below < pots[i].cap /\ pots[i] = PotBetween(l, below, pots[i].cap)

ReferenceRefund(l) ==
  LET matched == Max(Contested(l) \cup {0})
  IN [p \in Seats |-> l.amount[p] - Least(l.amount[p], matched)]

(* buildPots peels any ledger into exactly those pots and refunds.         *)
PotsAreLayers ==
  built # NotYet => /\ Layered(ledger, built.pots)
                    /\ built.refund = ReferenceRefund(ledger)

(* No chip of a ledger gets lost: the pots the table shows hold all of them*)
(* (buildLivePots: "the inclusive hand total until settlement"), unmatched *)
(* ones included, unless everybody who paid has folded or one player alone *)
(* has paid; and the awards pay all of them, in whole chips, to nobody who *)
(* folded.  Hands that tie split a pot as evenly as its chips allow, and   *)
(* the odd chips go to the winners sitting nearest the button's left.      *)
LiveTotal ==
  Cardinality(Contributors(ledger, 1)) > 1 /\ ~Contributors(ledger, 1) \subseteq ledger.folded
    => Total(LivePots(ledger)) = Total(ledger.amount)
AwardsTotal ==
  Total([p \in Seats |->
    built.refund[p] + Total([i \in DOMAIN awards |-> awards[i][p]])])
      = Total(ledger.amount)
Before(p, q) ==   \* going round from the button's left, p's seat comes first
  \/ p > button /\ q <= button
  \/ (p > button <=> q > button) /\ p < q
OddChipsClockwise(award) ==
  \A p, q \in {s \in Seats : award[s] > 0} :
    Before(p, q) => award[p] - award[q] \in {0, SmallestChip}

EverythingPaid ==
  /\ LiveTotal
  /\ awards # NotYet =>
       /\ AwardsTotal
       /\ \A i \in DOMAIN awards :
            /\ OddChipsClockwise(awards[i])
            /\ \A p \in Seats :
                 /\ awards[i][p] % SmallestChip = 0
                 /\ awards[i][p] > 0 => p \in built.pots[i].eligible
=============================================================================
