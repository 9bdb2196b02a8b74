------------------------------ MODULE MCBetting ------------------------------
(* Betting on a four-handed table: every way to post the blinds from      *)
(* short and deep stacks, and a later street with an all-in player.        *)
EXTENDS Betting, TLC

CONSTANTS a, b, c, d, MaxStack, BigBlind

SeatOrder == (a :> 1) @@ (b :> 2) @@ (c :> 3) @@ (d :> 4)

(* Before the flop c posts the small and d the big blind, as many chips    *)
(* as they have; a is first to act.                                        *)
Blind(p) == CASE p = c -> BigBlind \div 2 [] p = d -> BigBlind [] OTHER -> 0

Preflop(chips) ==
  LET posted == [p \in Players |-> Smaller(chips[p], Blind(p))]
  IN [ stack |-> [p \in Players |-> chips[p] - posted[p]],
       street |-> posted, total |-> posted,
       status |-> [p \in Players |-> "active"],
       turn |-> SeatOrder, nominalOpeningBet |-> BigBlind, minimumBet |-> BigBlind ]

(* After the flop everybody still in has the same amount in the middle.    *)
Postflop(chips, out) ==
  [ stack |-> chips, street |-> [p \in Players |-> 0],
    total |-> [p \in Players |-> BigBlind],
    status |-> [p \in Players |-> IF p \in out THEN "folded" ELSE "active"],
    turn |-> SeatOrder, nominalOpeningBet |-> 0, minimumBet |-> BigBlind ]

Stacks == {n \in 1..MaxStack : n % SmallestChip = 0}

MCEntries ==
  {Preflop(chips) : chips \in [Players -> Stacks]}
    \cup {Postflop(chips, {}) : chips \in [Players -> Stacks \cup {0}]}
    \cup {Postflop(chips, {b}) : chips \in {f \in [Players -> Stacks \cup {0}] : f[b] > 0}}

ASSUME RackAssumption == \A e \in Entries : EntryOnRack(e)
=============================================================================
