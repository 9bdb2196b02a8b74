---------------------------- MODULE BlackjackTable ----------------------------
(***************************************************************************)
(* The playable blackjack table of src/src/components/BlackjackTrainer.tsx *)
(* (TablesPanel) with the rules of src/src/blackjack/engine.ts: one player *)
(* against the dealer, from a new shoe to the review of it, with a count   *)
(* checkpoint after every third round.                                     *)
(*                                                                         *)
(* A card is its rank; suits only name cards.  The order of the shoe is    *)
(* chosen as it is drawn, so an operation that draws yields the SET of the *)
(* tables it may lead to, and none if it needs a card that is not there    *)
(* (the code throws).  Money is in half bets.  Left out: the net units,    *)
(* hands played, timeline and recorded decisions, which are only reported. *)
(***************************************************************************)
EXTENDS Integers, Sequences, FiniteSets, Functions

CONSTANTS
  Ranks,         \* BLACKJACK_RANKS
  Copies,        \* of a rank in a full shoe (4 * decks)
  CutCard,       \* cutCardCards: no round starts with fewer left
  MaxSplitHands  \* maxSplitHands

ASSUME BlackjackAssumption ==
  /\ Ranks \subseteq {"2", "3", "4", "5", "6", "7", "8", "9", "10", "J", "Q", "K", "A"}
  /\ Copies \in Nat /\ CutCard \in Nat /\ MaxSplitHands \in Nat \ {0}

VARIABLE table   \* TablesState

-----------------------------------------------------------------------------
(* Cards and hands.                                                        *)
Faces == <<"A", "2", "3", "4", "5", "6", "7", "8", "9", "10">>
CardValue(r) ==
  CASE r = "A" -> 11
    [] r \in {"J", "Q", "K"} -> 10
    [] OTHER -> CHOOSE v \in 2..10 : Faces[v] = r

Sum(f) == FoldFunction(+, 0, f)

(* handValue: an ace counts one where eleven would be too many.            *)
Value(cards) ==
  LET high == Sum([i \in DOMAIN cards |-> CardValue(cards[i])])
      aces == Cardinality({i \in DOMAIN cards : cards[i] = "A"})
      lowered == CHOOSE k \in 0..aces :
                   /\ k = aces \/ high - 10 * k <= 21
                   /\ k = 0 \/ high - 10 * (k - 1) > 21
  IN [total |-> high - 10 * lowered, soft |-> lowered < aces]
Total(cards) == Value(cards).total

IsNatural(cards, split) == ~split /\ Len(cards) = 2 /\ Total(cards) = 21

(* getHiLoTag                                                              *)
Tag(r) == CASE CardValue(r) <= 6 -> 1 [] CardValue(r) \in 7..9 -> 0 [] OTHER -> -1
Tags(cards) == Sum([i \in DOMAIN cards |-> Tag(cards[i])])

-----------------------------------------------------------------------------
(* The shoe.                                                               *)
FullShoe == [r \in Ranks |-> Copies]
Left(shoe) == {r \in Ranks : shoe[r] > 0}
Size(shoe) == Sum(shoe)
Times(r, cards) == Cardinality({i \in DOMAIN cards : cards[i] = r})
Without(shoe, cards) == [r \in Ranks |-> shoe[r] - Times(r, cards)]

(* The sequences of n cards the shoe may give, and the table after cards   *)
(* drawn from it were shown (drawExposed).                                 *)
Draws(shoe, n) == {cards \in [1..n -> Left(shoe)] : \A r \in Ranks : Times(r, cards) <= shoe[r]}
Exposing(t, cards) ==
  [t EXCEPT !.shoe = Without(@, cards), !.count = @ + Tags(cards)]

-----------------------------------------------------------------------------
(* revealDealerHole counts the hole card once.                             *)
Hidden_Always(round) == TRUE   \* mutant
Hidden(round) == Len(round.dealer) = 1
Revealed(t) ==
  IF Hidden(t.round)
  THEN [t EXCEPT !.round.dealer = Append(@, t.round.hole), !.count = @ + Tag(t.round.hole)]
  ELSE t

(* The tables after the dealer has drawn once, if he has to, and after he  *)
(* has stood on seventeen or more, soft or hard: an ace may count one, but *)
(* every card counts, so he never draws more than sixteen times.           *)
Stands(t) == Total(t.round.dealer) >= 17
DealerDraws(t, c) == [Exposing(t, <<c>>) EXCEPT !.round.dealer = Append(@, c)]
Drawn(tables) ==
  UNION {IF Stands(t) THEN {t} ELSE {DealerDraws(t, c) : c \in Left(t.shoe)} : t \in tables}
FourDrawn(tables) == Drawn(Drawn(Drawn(Drawn(tables))))
PlayedOut(t) == FourDrawn(FourDrawn(FourDrawn(FourDrawn({t}))))

(* What settleRound pays a hand.                                           *)
Wager(hand) == IF hand.doubled THEN 4 ELSE 2
Payout(hand, dealer) ==
  LET mine == Total(hand.cards)
      natural == IsNatural(hand.cards, hand.split)
      theirs == IsNatural(dealer, FALSE)
      theirTotal == Total(dealer)
  IN IF hand.surrendered THEN -1
     ELSE IF mine > 21 \/ (theirs /\ ~natural) THEN -Wager(hand)
     ELSE IF natural /\ ~theirs THEN 3
     ELSE IF theirTotal > 21 \/ mine > theirTotal THEN Wager(hand)
     ELSE IF mine = theirTotal THEN 0
     ELSE -Wager(hand)

Paid(t) ==
  [ t EXCEPT !.round.hands = [i \in DOMAIN @ |->
                               [@[i] EXCEPT !.done = TRUE, !.payout = Payout(t.round.hands[i], t.round.dealer)]],
             !.round.phase = "settled",
             !.completed = @ + 1,
             !.awaiting = ((t.completed + 1) % 3 = 0) ]

(* settleRound, which the dealer plays out however the player's hands went *)
SettledAtOnce(t) == Paid(Revealed(t))
Settled(t) == {Paid(u) : u \in PlayedOut(Revealed(t))}

-----------------------------------------------------------------------------
NewHand(cards, split, done) ==
  [ cards |-> cards, split |-> split, doubled |-> FALSE, done |-> done,
    surrendered |-> FALSE, payout |-> 0 ]
NoRound == [phase |-> "none", hole |-> "none", dealer |-> <<>>, hands |-> <<>>, active |-> 1]

(* The dealer peeks: nobody plays on against a natural.                    *)
SettlesAtOnce(one, up, two, hole) ==
  IsNatural(<<one, two>>, FALSE) \/ IsNatural(<<up, hole>>, FALSE)

(* startTableRound: player, dealer, player, and the dealer's hole card.    *)
Dealt(t, d) ==
  LET shown == Exposing(t, SubSeq(d, 1, 3))
      dealt == [ shown EXCEPT
                   !.shoe = Without(@, <<d[4]>>),
                   !.round = [ phase |-> "player", hole |-> d[4], dealer |-> <<d[2]>>, active |-> 1,
                               hands |-> <<NewHand(<<d[1], d[3]>>, FALSE, FALSE)>> ] ]
  IN IF SettlesAtOnce(d[1], d[2], d[3], d[4]) THEN SettledAtOnce(Revealed(dealt)) ELSE dealt
Started(t) ==
  IF Size(t.shoe) < CutCard
  THEN {[t EXCEPT !.review = TRUE, !.round = NoRound]}
  ELSE {Dealt(t, d) : d \in Draws(t.shoe, 4)}

NewTables ==
  Started([ shoe |-> FullShoe, count |-> 0, round |-> NoRound, completed |-> 0,
            checkpoints |-> 0, awaiting |-> FALSE, review |-> FALSE ])

(* advanceHand: the first hand not done, or the settlement.                *)
ToPlay(t) == {i \in DOMAIN t.round.hands : ~t.round.hands[i].done}
NextHand_Last(t) == CHOOSE i \in DOMAIN t.round.hands : \A j \in DOMAIN t.round.hands : j <= i   \* mutant
NextHand(t) == CHOOSE i \in ToPlay(t) : \A j \in ToPlay(t) : i <= j
Advanced(t) ==
  IF ToPlay(t) = {} THEN Settled(t) ELSE {[t EXCEPT !.round.active = NextHand(t)]}

-----------------------------------------------------------------------------
Active == table.round.hands[table.round.active]

(* applyTableAction                                                        *)
MayAct == table.round.phase = "player" /\ ~table.awaiting /\ ~table.review

(* The active hand gets the cards of drawn and is changed as change says.  *)
Becomes(hand, drawn) ==
  Advanced([Exposing(table, drawn) EXCEPT !.round.hands[table.round.active] = hand])

(* getAvailableActions: beyond hitting and standing, on two cards only.    *)
MaySplit ==
  /\ Len(Active.cards) = 2 /\ Active.cards[1] = Active.cards[2]
  /\ Len(table.round.hands) < MaxSplitHands
  /\ Len(table.round.hands) = 1 \/ Active.cards[1] # "A"
MayDouble == Len(Active.cards) = 2
MaySurrender == Len(Active.cards) = 2 /\ ~Active.split

Hit ==
  /\ MayAct
  /\ \E c \in Left(table.shoe) :
       LET cards == Append(Active.cards, c)
       IN table' \in Becomes([Active EXCEPT !.cards = cards, !.done = (Total(cards) >= 21)], <<c>>)

Stand == MayAct /\ table' \in Becomes([Active EXCEPT !.done = TRUE], <<>>)

Double ==
  /\ MayAct /\ MayDouble
  /\ \E c \in Left(table.shoe) :
       table' \in Becomes([Active EXCEPT !.cards = Append(@, c), !.doubled = TRUE, !.done = TRUE],
                          <<c>>)

Surrender ==
  /\ MayAct /\ MaySurrender
  /\ table' \in Becomes([Active EXCEPT !.surrendered = TRUE, !.done = TRUE], <<>>)

(* A pair is split into two hands of one more card each; aces get no other.*)
Split ==
  /\ MayAct /\ MaySplit
  /\ \E drawn \in Draws(table.shoe, 2) :
       LET half(i) == [ Active EXCEPT !.cards = <<Active.cards[i], drawn[i]>>, !.split = TRUE,
                                      !.done = (Active.cards[i] = "A") ]
           hands == table.round.hands
           at == table.round.active
           parted == SubSeq(hands, 1, at - 1) \o <<half(1), half(2)>>
                       \o SubSeq(hands, at + 1, Len(hands))
       IN table' \in Advanced([Exposing(table, drawn) EXCEPT !.round.hands = parted])

PlayerActs == Hit \/ Stand \/ Double \/ Surrender \/ Split

SubmitCheckpoint ==
  /\ table.awaiting /\ ~table.review
  /\ table' = [table EXCEPT !.checkpoints = @ + 1, !.awaiting = FALSE]

BetweenRounds == table.round.phase = "settled" /\ ~table.awaiting /\ ~table.review
DealNextRound == BetweenRounds /\ table' \in Started(table)
OpenReview == BetweenRounds /\ table' = [table EXCEPT !.review = TRUE]
NewShoe == table.review /\ table' \in NewTables

Init == table \in NewTables
Next == PlayerActs \/ SubmitCheckpoint \/ DealNextRound \/ OpenReview \/ NewShoe
Spec == Init /\ [][Next]_table

-----------------------------------------------------------------------------
(* The running count the checkpoints are judged by is that of the cards    *)
(* the player has seen: all that have left the shoe, less the hole card    *)
(* while it is hidden, whether it was turned by the peek, a natural or the *)
(* dealer's play.                                                          *)
CountIsOfSeenCards ==
  table.count =
    Sum([r \in Ranks |-> Tag(r) * (Copies - table.shoe[r])])
      - (IF table.round.phase = "player" THEN Tag(table.round.hole) ELSE 0)

(* applyTableAction never asks whether the hand it acts on is done: the    *)
(* active hand of a round in play always is one still to be played, after  *)
(* any splits and whichever hands finished first.                          *)
OnlyOpenHandsPlay ==
  table.round.phase = "player" =>
    /\ ~Active.done /\ ~Active.doubled /\ ~Active.surrendered /\ Total(Active.cards) <= 21
    /\ Active.split => Active.cards[1] # "A"
    /\ \A i \in 1..(table.round.active - 1) : table.round.hands[i].done
=============================================================================
