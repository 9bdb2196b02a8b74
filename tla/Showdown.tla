------------------------------ MODULE Showdown ------------------------------
(***************************************************************************)
(* Who has the best hand: src/src/engine/evaluator.ts.  A hand of five     *)
(* cards has a value, and a player's is the best of all the fives that can *)
(* be picked from his five to seven cards.  A value is a sequence, the     *)
(* category first, and values are compared like words.                     *)
(***************************************************************************)
EXTENDS Integers, Sequences, FiniteSets, FiniteSetsExt

CONSTANT Deck

Suits == {"clubs", "diamonds", "hearts", "spades"}

(* The ranks are 2..14, the ace's 14.                                      *)
ASSUME DeckAssumption == Deck \subseteq [rank : 2..14, suit : Suits]

VARIABLES
  dealt,  \* the cards of a player and the board
  best    \* the value of his best hand, or NoValue

showdownVars == <<dealt, best>>

NoValue == <<>>

-----------------------------------------------------------------------------
RanksOf(cards) == {card.rank : card \in cards}
Count(cards, rank) == Cardinality({card \in cards : card.rank = rank})

(* Ranks by how many cards they have, then from the highest down: the      *)
(* tiebreak of every hand that is not a straight.                          *)
Precedes(five, a, b) ==
  \/ Count(five, a) > Count(five, b)
  \/ Count(five, a) = Count(five, b) /\ a > b
Groups(five) ==
  [ i \in 1..Cardinality(RanksOf(five)) |->
      CHOOSE b \in RanksOf(five) :
        Cardinality({a \in RanksOf(five) : Precedes(five, a, b)}) = i - 1 ]

(* The ace is also below the two.  0 is no straight.                       *)
StraightHigh_AceIsHigh(ranks) ==   \* mutant
  Max({high \in ranks : (high - 4)..high \subseteq ranks} \cup {0})
StraightHigh(ranks) ==
  LET unique == ranks \cup (IF 14 \in ranks THEN {1} ELSE {})
  IN Max({high \in unique : (high - 4)..high \subseteq unique} \cup {0})

IsFlush(five) == Cardinality({card.suit : card \in five}) = 1

(* How often the ranks of a hand occur, the most frequent first.           *)
Shape(five) == LET groups == Groups(five) IN [i \in DOMAIN groups |-> Count(five, groups[i])]

EvaluateFive(five) ==
  LET high == StraightHigh(RanksOf(five))
      shape == Shape(five)
  IN CASE high > 0 /\ IsFlush(five) -> <<8, high>>
       [] shape = <<4, 1>> -> <<7>> \o Groups(five)
       [] shape = <<3, 2>> -> <<6>> \o Groups(five)
       [] high = 0 /\ IsFlush(five) -> <<5>> \o Groups(five)
       [] high > 0 /\ ~IsFlush(five) -> <<4, high>>
       [] shape = <<3, 1, 1>> -> <<3>> \o Groups(five)
       [] shape = <<2, 2, 1>> -> <<2>> \o Groups(five)
       [] shape = <<2, 1, 1, 1>> -> <<1>> \o Groups(five)
       [] OTHER -> <<0>> \o Groups(five)

(* compareHandValues: values of one category are as long as each other.    *)
Beats(left, right) ==
  \E i \in DOMAIN left \cap DOMAIN right :
    left[i] > right[i] /\ \A j \in 1..(i - 1) : left[j] = right[j]

EvaluateBestHand(cards) ==
  LET values == {EvaluateFive(five) : five \in kSubset(5, cards)}
  IN CHOOSE value \in values : \A other \in values : ~Beats(other, value)

-----------------------------------------------------------------------------
ShowdownInit == dealt \in UNION {kSubset(n, Deck) : n \in 5..7} /\ best = NoValue

Evaluate ==
  /\ best = NoValue /\ best' = EvaluateBestHand(dealt)
  /\ UNCHANGED dealt

ShowdownSpec == ShowdownInit /\ [][Evaluate]_showdownVars

-----------------------------------------------------------------------------
(* What the rules say of all the cards together, with no five picked.      *)
Suited(cards, suit) == {card \in cards : card.suit = suit}
Nth(ranks, i) == CHOOSE r \in ranks : Cardinality({s \in ranks : s > r}) = i - 1
Highest(ranks, n) == [i \in 1..n |-> Nth(ranks, i)]
Flushes(cards) ==
  {Suited(cards, s) : s \in {t \in {c.suit : c \in cards} : Cardinality(Suited(cards, t)) >= 5}}
AtLeast(cards, n) == {r \in RanksOf(cards) : Count(cards, r) >= n}

Straights(ranks) ==
  {h \in 5..14 : \A i \in 0..4 : IF h - i = 1 THEN 14 \in ranks ELSE h - i \in ranks}

RuleBookValue(cards) ==
  LET ranks == RanksOf(cards)
      straight == Max(Straights(ranks) \cup {0})
      royal == Max((UNION {Straights(RanksOf(f)) : f \in Flushes(cards)}) \cup {0})
      four == AtLeast(cards, 4)
      three == Max(AtLeast(cards, 3) \cup {0})
      under == AtLeast(cards, 2) \ {three}   \* pairs beside the three
      pairs == AtLeast(cards, 2)
  IN CASE royal > 0 -> <<8, royal>>
       [] royal = 0 /\ four # {} -> <<7, Max(four), Max(ranks \ {Max(four)})>>
       [] OTHER ->
     CASE three > 0 /\ under # {} -> <<6, three, Max(under)>>
       [] OTHER ->
     CASE Flushes(cards) # {} ->
            <<5>> \o Highest(RanksOf(CHOOSE flush \in Flushes(cards) : TRUE), 5)
       [] Flushes(cards) = {} /\ straight > 0 -> <<4, straight>>
       [] OTHER ->
     CASE three > 0 -> <<3, three>> \o Highest(ranks \ {three}, 2)
       [] three = 0 /\ Cardinality(pairs) >= 2 ->
            <<2, Nth(pairs, 1), Nth(pairs, 2)>>
              \o Highest(ranks \ {Nth(pairs, 1), Nth(pairs, 2)}, 1)
       [] three = 0 /\ Cardinality(pairs) = 1 ->
            <<1, Max(pairs)>> \o Highest(ranks \ pairs, 3)
       [] OTHER -> <<0>> \o Highest(ranks, 5)

(* The best of the fives is the hand the rules give all the cards: the     *)
(* wheel, two threes, a third pair as a kicker and a sixth card of a suit  *)
(* included (evaluateBestHand).                                            *)
BestHandByTheRules == best # NoValue => best = RuleBookValue(dealt)
=============================================================================
