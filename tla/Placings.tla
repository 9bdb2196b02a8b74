------------------------------ MODULE Placings ------------------------------
(***************************************************************************)
(* Finishing places: recordEliminations of src/src/engine/tournament.ts.   *)
(*                                                                         *)
(* Players bust in batches, one batch per transition.  A batch is a record *)
(* [started, hand] of two functions on the players who bust: the stack     *)
(* each began the hand with, and the (table, hand) he bust in, numbered in *)
(* the order the code sorts them.  Player ids are compared by the order of *)
(* the integers, and seated[p] is p's index in the tournament's player     *)
(* list, which is shuffled: the two orders are unrelated.                  *)
(***************************************************************************)
EXTENDS Integers, FiniteSets

CONSTANTS
  Players,   \* player ids
  Seatings,  \* the player lists a tournament may start with
  MaxStart,  \* largest starting stack of a batch
  MaxHands   \* most hands one batch spans

ASSUME FieldAssumption ==
  Players \subseteq Int /\ IsFiniteSet(Players) /\ Cardinality(Players) > 1
ASSUME ListAssumption ==
  Seatings \subseteq {f \in [Players -> Nat] : \A p, q \in Players : f[p] = f[q] => p = q}
ASSUME BatchAssumption == MaxStart \in Nat /\ MaxHands \in Nat

VARIABLES
  seated,      \* index of every player in tournament.players
  handForHand, \* tournament.handForHand
  place,       \* finishPlace, 0 while undefined
  lastBatch    \* the batch recorded last, for the properties

vars == <<seated, handForHand, place, lastBatch>>

Unplaced == 0

-----------------------------------------------------------------------------
SameHand(batch) == \A p, q \in DOMAIN batch.hand : batch.hand[p] = batch.hand[q]

(* Those sorted before p: deeper stacks first, then smaller ids; when the  *)
(* batch spans several hands, earlier hands first.                         *)
Ahead_IdOnly(batch, p) == {q \in DOMAIN batch.started : q < p}  \* mutant
Ahead(batch, p) ==
  {q \in DOMAIN batch.started :
     IF SameHand(batch)
     THEN \/ batch.started[q] > batch.started[p]
          \/ batch.started[q] = batch.started[p] /\ q < p
     ELSE \/ batch.hand[q] < batch.hand[p]
          \/ batch.hand[q] = batch.hand[p] /\ q < p}

(* records.find(...): of the others with p's stack, the first in the       *)
(* player list.                                                            *)
Twins(batch, p) ==
  {q \in DOMAIN batch.started \ {p} : batch.started[q] = batch.started[p]}
FirstTwin(batch, order, p) ==
  CHOOSE q \in Twins(batch, p) : \A o \in Twins(batch, p) : order[q] <= order[o]

(* The best place of the batch, given how many were active before it.      *)
BestPlace_OfWholeField(batch, active) ==   \* mutant
  Cardinality(Players) - Cardinality(DOMAIN batch.started) + 1
BestPlace(batch, active) == active - Cardinality(DOMAIN batch.started) + 1

(* Places are given in sorted order; a player takes the place of his first *)
(* twin only when that twin already has one.                               *)
PlacesInHand(batch, order, active) ==
  LET placeOf[p \in DOMAIN batch.started] ==
        IF Twins(batch, p) # {} /\ FirstTwin(batch, order, p) \in Ahead(batch, p)
        THEN placeOf[FirstTwin(batch, order, p)]
        ELSE BestPlace(batch, active) + Cardinality(Ahead(batch, p))
  IN placeOf

PlacesOf(batch, order, active, synchronized) ==
  CASE SameHand(batch) -> PlacesInHand(batch, order, active)
    [] ~SameHand(batch) /\ synchronized ->
         [p \in DOMAIN batch.started |-> BestPlace(batch, active)]
    [] OTHER -> [p \in DOMAIN batch.started |->
                   BestPlace(batch, active) + Cardinality(Ahead(batch, p))]

(* The last player left wins the tournament with the same transition.      *)
Placed_ForgetsWinner(places, given) ==   \* mutant
  [p \in Players |-> IF p \in DOMAIN given THEN given[p] ELSE places[p]]
Placed(places, given) ==
  LET left == {p \in Players : places[p] = Unplaced} \ DOMAIN given
  IN [p \in Players |-> CASE p \in DOMAIN given -> given[p]
                          [] left = {p} -> 1
                          [] OTHER -> places[p]]

-----------------------------------------------------------------------------
Active(places) == {p \in Players : places[p] = Unplaced}

NoBatch == [started |-> <<>>, hand |-> <<>>]

Init ==
  /\ seated \in Seatings
  /\ handForHand \in BOOLEAN
  /\ place = [p \in Players |-> Unplaced]
  /\ lastBatch = NoBatch

(* Chips never leave the tables, so somebody always stays in.              *)
Record(batch) ==
  /\ place' = Placed(place, PlacesOf(batch, seated, Cardinality(Active(place)), handForHand))
  /\ lastBatch' = batch
  /\ UNCHANGED <<seated, handForHand>>

Next ==
  \E busted \in (SUBSET Active(place)) \ {{}, Active(place)} :
    \E started \in [busted -> 1..MaxStart], hand \in [busted -> 1..MaxHands] :
      Record([started |-> started, hand |-> hand])

Spec == Init /\ [][Next]_vars

-----------------------------------------------------------------------------
Nested ==
  /\ \A p \in Players : place[p] > 1 => place[p] > Cardinality(Active(place))
  /\ Cardinality(Active(place)) # 1
  /\ Active(place) = {} <=> Cardinality({p \in Players : place[p] = 1}) = 1
FollowStacks ==
  SameHand(lastBatch) =>
    \A p, q \in DOMAIN lastBatch.started :
      /\ lastBatch.started[p] > lastBatch.started[q] => place[p] < place[q]
      /\ Twins(lastBatch, p) = {q} => place[p] = place[q]
AheadOfThoseOut ==
  \A p, q \in Players :
    place[p] # Unplaced /\ place[q] = Unplaced /\ place'[q] # Unplaced
      => place'[p] = place[p] /\ place'[q] < place[p]

(* Places follow the play (recordEliminations).  Everybody out has a place *)
(* behind all who still play, and keeps it; who busts later finishes ahead *)
(* of everybody already out; and the tournament has one winner, from the   *)
(* moment one player is left.  Of two who bust in the same hand, the one   *)
(* who began it with more chips finishes strictly ahead, however their ids *)
(* and seats are ordered, and two who began it alike tie.  (Of three alike *)
(* the code may put one last: it takes the first other one for the twin,   *)
(* with a place or not yet.)                                               *)
PlacesFollowPlay == [](Nested /\ FollowStacks) /\ [][AheadOfThoseOut]_vars
=============================================================================
