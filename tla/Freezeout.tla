----------------------------- MODULE Freezeout ------------------------------
(***************************************************************************)
(* What a freeze-out tournament promises, whatever happens inside a hand.  *)
(* Players own chips; a hand moves chips between them, and nobody wins     *)
(* from anybody more than he himself brought to the hand (table stakes).   *)
(* A player left without chips is out and gets a finishing place behind    *)
(* everybody still playing; the last one left is first.                    *)
(*                                                                         *)
(* Session implements this: a whole hand is one PlayHand step.             *)
(***************************************************************************)
EXTENDS Integers, FiniteSets, Functions, FiniteSetsExt

CONSTANTS
  Players,       \* the field
  StartingStack  \* chips each begins with

VARIABLES
  wealth,  \* chips each player owns between hands
  place    \* finishing place, 0 while playing

vars == <<wealth, place>>

Playing == {p \in Players : place[p] = 0}
Sum(f) == FoldFunction(+, 0, f)
AtMost(a, b) == IF a <= b THEN a ELSE b

(* The most p can win in one hand: from each opponent, p's own stack.      *)
Winnable(p) ==
  Sum([q \in Players |-> IF q = p THEN 0 ELSE AtMost(wealth[p], wealth[q])])

Init ==
  /\ wealth = [p \in Players |-> StartingStack]
  /\ place = [p \in Players |-> 0]

(* Equal places only for players who bust together with equal stacks.      *)
FairPlaces(busted) ==
  LET left == Cardinality(Playing \ busted)
  IN /\ \A p \in busted : place'[p] \in (left + 1)..(left + Cardinality(busted))
     /\ \A p, q \in busted :
          /\ wealth[p] > wealth[q] => place'[p] < place'[q]
          /\ p # q /\ place'[p] = place'[q] => wealth[p] = wealth[q]
     /\ \A p \in Players \ busted :
          place'[p] = IF Playing \ busted = {p} THEN 1 ELSE place[p]

PlayHand ==
  /\ Cardinality(Playing) >= 2
  /\ wealth' \in [Players -> 0..Sum(wealth)]
  /\ Sum(wealth') = Sum(wealth)
  /\ \A p \in Players : wealth'[p] <= wealth[p] + Winnable(p)
  /\ FairPlaces({p \in Playing : wealth'[p] = 0})

Next == PlayHand
Spec == Init /\ [][Next]_vars
=============================================================================
