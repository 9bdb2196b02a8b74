------------------------------ MODULE HandEnd -------------------------------
(***************************************************************************)
(* What the end of a hand computes: who has the best hand (Showdown), what *)
(* the pots pay (Pots) and which places those who bust take (Placings).    *)
(* The three share no state, so a behaviour is one of them; the others     *)
(* keep an initial state.                                                  *)
(***************************************************************************)
EXTENDS Placings, Pots, Showdown

VARIABLE question

-----------------------------------------------------------------------------
IdlePots ==
  /\ ledger = [amount |-> [p \in Seats |-> 0], folded |-> {}, allIn |-> {}]
  /\ button \in Buttons /\ built = NotYet /\ awards = NotYet
IdlePlacings ==
  /\ seated = CHOOSE listing \in Seatings : TRUE
  /\ handForHand = FALSE /\ place = [p \in Players |-> Unplaced]
  /\ lastBatch = NoBatch
IdleShowdown == dealt = {} /\ best = NoValue

HandEndInit ==
  \/ question = "places" /\ Init /\ IdlePots /\ IdleShowdown
  \/ question = "pots" /\ PotsInit /\ IdlePlacings /\ IdleShowdown
  \/ question = "hands" /\ ShowdownInit /\ IdlePots /\ IdlePlacings

HandEndNext ==
  /\ \/ question = "places" /\ Next /\ UNCHANGED <<potVars, showdownVars>>
     \/ question = "pots" /\ PotsNext /\ UNCHANGED <<vars, showdownVars>>
     \/ question = "hands" /\ Evaluate /\ UNCHANGED <<vars, potVars>>
  /\ UNCHANGED question

HandEndSpec == HandEndInit /\ [][HandEndNext]_<<vars, question, potVars, showdownVars>>
=============================================================================
