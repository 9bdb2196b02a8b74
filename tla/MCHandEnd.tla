----------------------------- MODULE MCHandEnd ------------------------------
(***************************************************************************)
(* HandEnd on small instances.                                             *)
(* Pots: four players at a six-seat table, every ledger of up to MaxChips  *)
(* chips each, matched or not, every ordering of their hands.              *)
(* Placings: five players, over every player list the last id is last in.  *)
(* Showdown: every five to seven cards of a deck with the wheel and the    *)
(* straights above it in one suit and broken, pairs, threes and four aces. *)
(***************************************************************************)
EXTENDS HandEnd

CONSTANT MaxChips

Statuses == {"active", "folded", "all-in"}

MCLedgers ==
  { [ amount |-> amount,
      folded |-> {p \in Seats : status[p] = "folded"},
      allIn |-> {p \in Seats : status[p] = "all-in"} ] :
        amount \in [Seats -> {n * SmallestChip : n \in 0..MaxChips}],
        status \in [Seats -> Statuses] }

MCRanks == [Seats -> 1..3]

Listings ==
  {f \in [Players -> 1..Cardinality(Players)] :
     /\ \A p, q \in Players : f[p] = f[q] => p = q
     /\ \A p \in Players : f[p] = Cardinality(Players) => \A q \in Players : q <= p}

SmallDeck ==
  {[rank |-> r, suit |-> "spades"] : r \in {2, 3, 4, 5, 6, 7, 14}}
    \cup {[rank |-> r, suit |-> "hearts"] : r \in {3, 5, 6, 14}}
    \cup {[rank |-> r, suit |-> "clubs"] : r \in {5, 6, 14}}
    \cup {[rank |-> 14, suit |-> "diamonds"]}
=============================================================================
