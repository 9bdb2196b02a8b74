---------------------------- MODULE BettingProofs ----------------------------
(***************************************************************************)
(* What holds of a betting round for every number of players, every stack  *)
(* and every blind.  The inductive invariant is RoundInv: the shape of the *)
(* record, the ledger thresholds of assertBettingStateInvariant, and       *)
(* Settled -- pending is what recomputePending computes from the rest.     *)
(***************************************************************************)
EXTENDS Betting, FiniteSetTheorems, WellFoundedInduction, TLAPS

(* An integer-valued function on a finite, non-empty set has a greatest    *)
(* value.                                                                  *)
LEMMA FiniteArgMax ==
  ASSUME NEW S, IsFiniteSet(S), S # {}, NEW f \in [S -> Int]
  PROVE  \E x \in S : \A y \in S : f[x] >= f[y]
<1> DEFINE Above(x) == {y \in S : f[y] > f[x]}
           F == {Above(x) : x \in S}
<1>1. IsWellFoundedOn(StrictSubsetOrdering(S), SUBSET S)
  BY FS_StrictSubsetOrderingWellFounded, FS_FiniteSubsetsOfFinite
<1>2. F \subseteq SUBSET S /\ F # {}
  <2>1. \A x \in S : Above(x) \in SUBSET S
    OBVIOUS
  <2> HIDE DEF Above
  <2> QED
    BY <2>1
<1> HIDE DEF F
<1>3. PICK U \in F : \A V \in F : <<V, U>> \notin StrictSubsetOrdering(S)
  BY <1>1, <1>2, WFMin
<1>4. PICK x \in S : U = Above(x)
  BY <1>3 DEF F
<1>5. ASSUME NEW y \in S, f[y] > f[x]
      PROVE  FALSE
  <2>1. Above(y) \in F
    BY DEF F
  <2>2. y \in Above(x)
    BY <1>5
  <2>3. y \notin Above(y)
    OBVIOUS
  <2>4. Above(y) \subseteq Above(x)
    <3> SUFFICES ASSUME NEW z \in S, f[z] > f[y]
                 PROVE  f[z] > f[x]
      OBVIOUS
    <3> f[x] \in Int /\ f[y] \in Int /\ f[z] \in Int
      OBVIOUS
    <3> QED
      BY <1>5
  <2>5. <<Above(y), U>> \in StrictSubsetOrdering(S)
    BY <2>2, <2>3, <2>4, <1>4 DEF StrictSubsetOrdering
  <2> QED
    BY <2>1, <2>5, <1>3
<1> QED
  BY <1>5
-----------------------------------------------------------------------------
(* The parts of the invariant, over a round record.                        *)
Ledger(r) ==
  \A p \in Players :
    /\ r.street[p] <= r.currentBet
    /\ r.street[p] <= r.total[p]
    /\ r.status[p] = "all-in" => r.stack[p] = 0
    /\ r.status[p] = "active" => r.stack[p] > 0

Settled(r) ==
  /\ r.pending = IF Cardinality(InHand(r)) <= 1 \/ SoleMatched(r) THEN {} ELSE Owing(r)
  /\ r.complete <=> r.pending = {}
  /\ r.handComplete <=> Cardinality(InHand(r)) <= 1

(* Before the first wager the minimum raise is the minimum bet.            *)
Unopened(r) == r.currentBet = 0 => r.lastFullRaise = r.minimumBet

RoundInv(r) == r \in RoundShape /\ Ledger(r) /\ Settled(r) /\ Unopened(r)

(* What an action of player a leaves alone: everybody else's money and     *)
(* status, and the seats; the next player is looked for after his seat,    *)
(* and he himself owes nothing any more.                                   *)
OthersKept(r, s, a) ==
  /\ s.turn = r.turn /\ s.from = r.turn[a]
  /\ r.currentBet <= s.currentBet
  /\ a \notin Owing(s)
  /\ \A q \in Players \ {a} :
       /\ s.stack[q] = r.stack[q] /\ s.street[q] = r.street[q]
       /\ s.status[q] = r.status[q] /\ s.lastActedAtBet[q] = r.lastActedAtBet[q]

(* recomputePending keeps the money and settles the pending list.          *)
LEMMA RecomputeKeeps ==
  ASSUME NEW r \in RoundShape, NEW from \in Nat, ~r.handComplete
  PROVE  LET s == RecomputePending(r, from)
         IN /\ s \in RoundShape
            /\ s.stack = r.stack /\ s.street = r.street /\ s.total = r.total
            /\ s.status = r.status /\ s.turn = r.turn
            /\ s.currentBet = r.currentBet /\ s.minimumBet = r.minimumBet
            /\ s.lastFullRaise = r.lastFullRaise
            /\ s.lastActedAtBet = r.lastActedAtBet /\ s.from = from
            /\ Settled(s)
<1> DEFINE s == RecomputePending(r, from)
           pending == IF Cardinality(InHand(r)) <= 1 \/ SoleMatched(r) THEN {} ELSE Owing(r)
<1>1. pending \in SUBSET Players
  BY DEF Owing, AbleToAct
<1>2. s = [r EXCEPT !.pending = pending, !.from = from, !.complete = (pending = {}),
                    !.handComplete = Cardinality(InHand(r)) <= 1 \/ (AbleToAct(r) = {} /\ @)]
  BY DEF RecomputePending
<1>3. /\ s \in RoundShape
      /\ s.stack = r.stack /\ s.street = r.street /\ s.total = r.total
      /\ s.status = r.status /\ s.turn = r.turn
      /\ s.currentBet = r.currentBet /\ s.minimumBet = r.minimumBet
      /\ s.lastFullRaise = r.lastFullRaise /\ s.lastActedAtBet = r.lastActedAtBet
      /\ s.from = from /\ s.pending = pending /\ s.complete = (pending = {})
      /\ s.handComplete <=> Cardinality(InHand(r)) <= 1
  <2> HIDE DEF s, pending
  <2> QED
    BY <1>1, <1>2 DEF RoundShape
<1>4. InHand(s) = InHand(r) /\ AbleToAct(s) = AbleToAct(r)
  <2> HIDE DEF s
  <2> QED
    BY <1>3 DEF InHand, AbleToAct
<1>5. Owing(s) = Owing(r) /\ (SoleMatched(s) <=> SoleMatched(r))
  <2> HIDE DEF s
  <2> QED
    BY <1>3, <1>4 DEF Owing, SoleMatched
<1>6. Settled(s)
  <2> HIDE DEF s
  <2> QED
    BY <1>3, <1>4, <1>5 DEF Settled
<1> QED
  BY <1>3, <1>6

(* Moving chips from a stack to the middle keeps the invariant, as long as *)
(* the target lies between what the actor has in and his exact all-in.     *)
LEMMA CommitKeeps ==
  ASSUME NEW r \in RoundShape, Ledger(r), Unopened(r), ~r.handComplete,
         NEW p \in Players, r.status[p] = "active",
         NEW to \in Int, r.street[p] <= to, to <= r.street[p] + r.stack[p]
  PROVE  LET s == CommitTo(r, p, to)
         IN /\ RoundInv(s)
            /\ Worth(s) = Worth(r)
            /\ s.currentBet = Larger(r.currentBet, to)
            /\ s.street[p] = to /\ s.stack[p] = AllInTo(r, p) - to
            /\ s.lastFullRaise = IF to > r.currentBet /\ IsFullRaise(r, to)
                                 THEN to - r.currentBet ELSE r.lastFullRaise
            /\ s.minimumBet = r.minimumBet
            /\ to >= r.currentBet \/ to = AllInTo(r, p) => OthersKept(r, s, p)
<1> DEFINE paid == to - r.street[p]
           bet == Larger(r.currentBet, to)
           raise == IF to > r.currentBet /\ IsFullRaise(r, to)
                    THEN to - r.currentBet ELSE r.lastFullRaise
           st == IF r.stack[p] = paid THEN "all-in" ELSE r.status[p]
           m == [r EXCEPT !.stack[p] = @ - paid, !.street[p] = to, !.total[p] = @ + paid,
                          !.status[p] = IF r.stack[p] = paid THEN "all-in" ELSE @,
                          !.currentBet = bet,
                          !.lastFullRaise = IF to > r.currentBet /\ IsFullRaise(r, to)
                                            THEN to - r.currentBet ELSE @,
                          !.lastActedAtBet[p] = bet]
           s == CommitTo(r, p, to)
<1>1. s = RecomputePending(m, r.turn[p])
  BY DEF CommitTo, StatusAfter
<1>2. /\ r.stack[p] \in Nat /\ r.street[p] \in Nat /\ r.total[p] \in Nat
      /\ r.currentBet \in Nat /\ r.lastFullRaise \in Nat \ {0} /\ r.turn[p] \in Nat
      /\ r.minimumBet \in Nat \ {0} /\ r.status[p] \in Statuses
  BY DEF RoundShape
<1>3. /\ paid \in Nat /\ r.stack[p] - paid \in Nat /\ r.total[p] + paid \in Nat
      /\ bet \in Nat /\ raise \in Nat \ {0} /\ st \in Statuses /\ to \in Nat
  BY <1>2 DEF Larger, Statuses
<1>4. /\ m.stack = [r.stack EXCEPT ![p] = r.stack[p] - paid]
      /\ m.street = [r.street EXCEPT ![p] = to]
      /\ m.total = [r.total EXCEPT ![p] = r.total[p] + paid]
      /\ m.status = [r.status EXCEPT ![p] = st]
      /\ m.lastActedAtBet = [r.lastActedAtBet EXCEPT ![p] = bet]
      /\ m.currentBet = bet /\ m.lastFullRaise = raise
      /\ m.minimumBet = r.minimumBet /\ m.turn = r.turn
      /\ m.handComplete = r.handComplete
  <2> HIDE DEF paid, bet
  <2> QED
    BY DEF RoundShape
<1>5. m \in RoundShape
  <2> HIDE DEF paid, bet
  <2> QED
    BY <1>3 DEF RoundShape
<1>6. /\ s \in RoundShape /\ Settled(s)
      /\ s.stack = m.stack /\ s.street = m.street /\ s.total = m.total
      /\ s.status = m.status /\ s.currentBet = bet /\ s.minimumBet = r.minimumBet
      /\ s.lastFullRaise = raise
      /\ s.lastActedAtBet = m.lastActedAtBet /\ s.turn = r.turn /\ s.from = r.turn[p]
  <2> HIDE DEF m, s
  <2> QED
    BY <1>1, <1>2, <1>4, <1>5, RecomputeKeeps
<1> HIDE DEF m, s
<1>7. Ledger(s)
  <2> SUFFICES ASSUME NEW q \in Players
               PROVE  /\ s.street[q] <= s.currentBet /\ s.street[q] <= s.total[q]
                      /\ s.status[q] = "all-in" => s.stack[q] = 0
                      /\ s.status[q] = "active" => s.stack[q] > 0
    BY DEF Ledger
  <2>1. /\ r.street[q] <= r.currentBet /\ r.street[q] <= r.total[q]
        /\ r.status[q] = "all-in" => r.stack[q] = 0
        /\ r.status[q] = "active" => r.stack[q] > 0
        /\ r.street[q] \in Nat /\ r.stack[q] \in Nat /\ r.total[q] \in Nat
    BY DEF Ledger, RoundShape
  <2>2. CASE q = p
    <3>1. /\ s.street[q] = to /\ s.total[q] = r.total[p] + paid
          /\ s.stack[q] = r.stack[p] - paid /\ s.status[q] = st
      BY <2>2, <1>4, <1>6 DEF RoundShape
    <3> QED
      BY <3>1, <2>1, <2>2, <1>2, <1>3, <1>6 DEF Larger
  <2>3. CASE q # p
    <3>1. /\ s.street[q] = r.street[q] /\ s.total[q] = r.total[q]
          /\ s.stack[q] = r.stack[q] /\ s.status[q] = r.status[q]
      BY <2>3, <1>4, <1>6 DEF RoundShape
    <3> QED
      BY <3>1, <2>1, <1>2, <1>3, <1>6 DEF Larger
  <2> QED
    BY <2>2, <2>3
<1>8. Unopened(s)
  BY <1>2, <1>3, <1>6 DEF Unopened, Larger
<1>9. Worth(s) = Worth(r)
  <2> SUFFICES ASSUME NEW q \in Players
               PROVE  s.stack[q] + s.total[q] = r.stack[q] + r.total[q]
    BY DEF Worth
  <2>1. CASE q = p
    <3>1. s.stack[q] = r.stack[p] - paid /\ s.total[q] = r.total[p] + paid
      BY <2>1, <1>4, <1>6 DEF RoundShape
    <3> QED
      BY <3>1, <2>1, <1>2, <1>3
  <2>2. CASE q # p
    BY <2>2, <1>4, <1>6 DEF RoundShape
  <2> QED
    BY <2>1, <2>2
<1>10. s.street[p] = to /\ s.stack[p] = AllInTo(r, p) - to
  <2>1. s.street[p] = to /\ s.stack[p] = r.stack[p] - paid
    BY <1>4, <1>6 DEF RoundShape
  <2> QED
    BY <2>1, <1>2, <1>3 DEF AllInTo
<1>11. ASSUME to >= r.currentBet \/ to = AllInTo(r, p)
       PROVE  OthersKept(r, s, p)
  <2>1. r.currentBet <= s.currentBet
    BY <1>2, <1>3, <1>6 DEF Larger
  <2>2. p \notin Owing(s)
    <3>1. s.lastActedAtBet[p] = bet /\ bet # NotActed
      BY <1>3, <1>4, <1>6 DEF RoundShape, NotActed
    <3>2. CASE to >= r.currentBet
      BY <1>2, <1>3, <1>6, <1>10, <3>1, <3>2 DEF Owing, Larger
    <3>3. CASE to = AllInTo(r, p)
      <4>1. s.stack[p] = 0
        BY <1>2, <1>3, <1>10, <3>3 DEF AllInTo
      <4> QED
        BY <4>1 DEF Owing, AbleToAct
    <3> QED
      BY <1>11, <3>2, <3>3
  <2>3. ASSUME NEW q \in Players \ {p}
        PROVE  /\ s.stack[q] = r.stack[q] /\ s.street[q] = r.street[q]
               /\ s.status[q] = r.status[q] /\ s.lastActedAtBet[q] = r.lastActedAtBet[q]
    BY <1>4, <1>6, <2>3 DEF RoundShape
  <2> QED
    BY <1>6, <2>1, <2>2, <2>3 DEF OthersKept
<1> QED
  BY <1>6, <1>7, <1>8, <1>9, <1>10, <1>11 DEF RoundInv, s

(* Folding keeps the invariant: no chip moves.                             *)
LEMMA FoldKeeps ==
  ASSUME NEW r \in RoundShape, Ledger(r), Unopened(r), ~r.handComplete, NEW p \in Players
  PROVE  LET s == FoldHand(r, p)
         IN /\ RoundInv(s)
            /\ Worth(s) = Worth(r)
            /\ s.currentBet = r.currentBet
            /\ s.lastFullRaise = r.lastFullRaise
            /\ s.minimumBet = r.minimumBet
            /\ OthersKept(r, s, p)
<1> DEFINE m == [r EXCEPT !.status[p] = "folded", !.lastActedAtBet[p] = r.currentBet]
           s == FoldHand(r, p)
<1>1. s = RecomputePending(m, r.turn[p])
  BY DEF FoldHand
<1>2. /\ m \in RoundShape
      /\ m.stack = r.stack /\ m.street = r.street /\ m.total = r.total
      /\ m.status = [r.status EXCEPT ![p] = "folded"]
      /\ m.currentBet = r.currentBet /\ m.lastFullRaise = r.lastFullRaise
      /\ m.minimumBet = r.minimumBet /\ m.handComplete = r.handComplete
      /\ m.lastActedAtBet = [r.lastActedAtBet EXCEPT ![p] = r.currentBet]
      /\ m.turn = r.turn /\ r.turn[p] \in Nat
  BY DEF RoundShape, Statuses
<1>3. /\ s \in RoundShape /\ Settled(s)
      /\ s.stack = r.stack /\ s.street = r.street /\ s.total = r.total
      /\ s.status = [r.status EXCEPT ![p] = "folded"]
      /\ s.currentBet = r.currentBet /\ s.lastFullRaise = r.lastFullRaise
      /\ s.minimumBet = r.minimumBet
      /\ s.lastActedAtBet = m.lastActedAtBet /\ s.turn = r.turn /\ s.from = r.turn[p]
  <2> HIDE DEF m, s
  <2> QED
    BY <1>1, <1>2, RecomputeKeeps
<1> HIDE DEF m, s
<1>4. Ledger(s)
  BY <1>3 DEF Ledger, RoundShape
<1>5. Unopened(s) /\ Worth(s) = Worth(r)
  BY <1>3 DEF Unopened, Worth
<1>6. OthersKept(r, s, p)
  <2>1. p \notin Owing(s) /\ r.currentBet <= s.currentBet
    BY <1>3 DEF Owing, AbleToAct, RoundShape
  <2>2. ASSUME NEW q \in Players \ {p}
        PROVE  /\ s.stack[q] = r.stack[q] /\ s.street[q] = r.street[q]
               /\ s.status[q] = r.status[q] /\ s.lastActedAtBet[q] = r.lastActedAtBet[q]
    BY <1>2, <1>3, <2>2 DEF RoundShape
  <2> QED
    BY <1>3, <2>1, <2>2 DEF OthersKept
<1> QED
  BY <1>3, <1>4, <1>5, <1>6 DEF RoundInv, s

(* The opening bet is the largest blind posted or the nominal big blind.   *)
LEMMA OpeningBet ==
  ASSUME NEW e, ValidEntry(e)
  PROVE  LET bet == Max({e.nominalOpeningBet} \cup {e.street[p] : p \in Players})
         IN /\ bet \in Nat /\ e.nominalOpeningBet <= bet
            /\ \A p \in Players : e.street[p] <= bet
            /\ bet = e.nominalOpeningBet \/ \E p \in Players : bet = e.street[p]
<1> DEFINE T == {e.nominalOpeningBet} \cup {e.street[p] : p \in Players}
<1>1. e.nominalOpeningBet \in Nat /\ e.street \in [Players -> Nat]
  BY DEF ValidEntry, EntryShape
<1>2. \E x \in T : \A y \in T : x >= y
  <2>1. CASE Players = {}
    BY <2>1, <1>1
  <2>2. CASE Players # {}
    <3>1. PICK q \in Players : \A p \in Players : e.street[q] >= e.street[p]
      BY <1>1, <2>2, PlayersAssumption, FiniteArgMax
    <3>2. CASE e.street[q] >= e.nominalOpeningBet
      BY <3>1, <3>2, <1>1
    <3>3. CASE e.nominalOpeningBet >= e.street[q]
      <4>1. \A p \in Players : e.nominalOpeningBet >= e.street[p]
        BY <3>1, <3>3, <1>1
      <4> QED
        BY <4>1, <1>1
    <3> QED
      BY <3>2, <3>3, <1>1
  <2> QED
    BY <2>1, <2>2
<1>3. T \subseteq Nat
  BY <1>1
<1>4. Max(T) \in T /\ \A y \in T : Max(T) >= y
  <2> HIDE DEF T
  <2> QED
    BY <1>2 DEF Max
<1> QED
  BY <1>3, <1>4

(* The player asked to act is one of those pending, and none is nearer.    *)
LEMMA NextIsPending ==
  ASSUME NEW r \in RoundShape, r.pending # {}
  PROVE  /\ NextToAct(r) \in r.pending
         /\ \A q \in r.pending : Distance(r, NextToAct(r)) <= Distance(r, q)
<1> DEFINE f == [p \in r.pending |-> 0 - Distance(r, p)]
<1>1. IsFiniteSet(r.pending) /\ r.pending \subseteq Players
  BY PlayersAssumption, FS_Subset DEF RoundShape
<1>2. Cardinality(Players) \in Nat
  BY PlayersAssumption, FS_CardinalityType
<1>3. \A p \in Players : Distance(r, p) \in Int
  BY <1>2 DEF Distance, RoundShape
<1>4. f \in [r.pending -> Int]
  BY <1>1, <1>3
<1> HIDE DEF f
<1>5. PICK p \in r.pending : \A q \in r.pending : f[p] >= f[q]
  BY <1>1, <1>4, FiniteArgMax
<1>6. \A q \in r.pending : Distance(r, p) <= Distance(r, q)
  <2> SUFFICES ASSUME NEW q \in r.pending
               PROVE  Distance(r, p) <= Distance(r, q)
    OBVIOUS
  <2>1. f[p] = 0 - Distance(r, p) /\ f[q] = 0 - Distance(r, q) /\ f[p] >= f[q]
    BY <1>5 DEF f
  <2>2. Distance(r, p) \in Int /\ Distance(r, q) \in Int
    BY <1>1, <1>3
  <2> QED
    BY <2>1, <2>2
<1> QED
  BY <1>6 DEF NextToAct

(* A freshly opened round satisfies the invariant.                         *)
LEMMA CreateKeeps ==
  ASSUME NEW e, ValidEntry(e)
  PROVE  RoundInv(CreateBettingRound(e)) /\ Worth(CreateBettingRound(e)) = Worth(e)
<1> DEFINE bet == Max({e.nominalOpeningBet} \cup {e.street[p] : p \in Players})
           st == [p \in Players |-> IF e.stack[p] = 0 /\ e.status[p] = "active"
                                    THEN "all-in" ELSE e.status[p]]
           m == [ stack |-> e.stack, street |-> e.street, total |-> e.total,
                  status |-> st, turn |-> e.turn, from |-> 0, pending |-> {},
                  currentBet |-> bet, minimumBet |-> e.minimumBet,
                  lastFullRaise |-> e.minimumBet,
                  lastActedAtBet |-> [p \in Players |-> NotActed],
                  complete |-> FALSE, handComplete |-> FALSE ]
           s == CreateBettingRound(e)
<1>1. s = RecomputePending(m, 0)
  BY DEF CreateBettingRound
<1>2. bet \in Nat /\ \A p \in Players : e.street[p] <= bet
  BY OpeningBet
<1> HIDE DEF bet
<1>3. m \in RoundShape
  BY <1>2 DEF ValidEntry, EntryShape, RoundShape, Statuses, NotActed
<1>4. /\ s \in RoundShape /\ Settled(s)
      /\ s.stack = e.stack /\ s.street = e.street /\ s.total = e.total
      /\ s.status = st /\ s.currentBet = bet /\ s.minimumBet = e.minimumBet
      /\ s.lastFullRaise = e.minimumBet
  <2>1. /\ m.stack = e.stack /\ m.street = e.street /\ m.total = e.total
        /\ m.status = st /\ m.currentBet = bet /\ m.minimumBet = e.minimumBet
        /\ m.lastFullRaise = e.minimumBet /\ ~m.handComplete
    OBVIOUS
  <2> HIDE DEF m, s, st
  <2> QED
    BY <1>1, <1>3, <2>1, RecomputeKeeps
<1>5. Ledger(s)
  <2> SUFFICES ASSUME NEW p \in Players
               PROVE  /\ e.street[p] <= bet /\ e.street[p] <= e.total[p]
                      /\ st[p] = "all-in" => e.stack[p] = 0
                      /\ st[p] = "active" => e.stack[p] > 0
    BY <1>4 DEF Ledger
  <2> QED
    BY <1>2 DEF ValidEntry, EntryShape
<1>6. Unopened(s) /\ Worth(s) = Worth(e)
  BY <1>4 DEF Unopened, Worth
<1> QED
  BY <1>4, <1>5, <1>6 DEF RoundInv
-----------------------------------------------------------------------------
(* Whoever has the turn is active, has chips, and either has not acted yet *)
(* or faces a bet.                                                         *)
LEMMA ActorOwes ==
  ASSUME RoundInv(round), NEW p \in Players, HasTurn(p)
  PROVE  /\ round.status[p] = "active" /\ round.stack[p] > 0 /\ ~round.handComplete
         /\ round.lastActedAtBet[p] = NotActed \/ round.street[p] < round.currentBet
<1>1. round.pending # {}
  BY DEF HasTurn, RoundInv, Settled
<1>2. p \in round.pending
  BY <1>1, NextIsPending DEF HasTurn, RoundInv
<1>3. p \in Owing(round) /\ ~(Cardinality(InHand(round)) <= 1)
  BY <1>2 DEF RoundInv, Settled
<1> QED
  BY <1>3 DEF Owing, AbleToAct, RoundInv, Settled

(* Any action but a fold is a commitment between what the actor has in and *)
(* his all-in.                                                             *)
LEMMA ActIsCommit ==
  ASSUME RoundInv(round), NEW p \in Players, Act(p)
  PROVE  \/ round' = FoldHand(round, p)
         \/ \E to \in Int :
              /\ round' = CommitTo(round, p, to)
              /\ round.street[p] <= to /\ to <= AllInTo(round, p)
              /\ to >= round.currentBet \/ to = AllInTo(round, p)
              /\ to > round.currentBet =>
                   /\ IsFullRaise(round, to) \/ to = AllInTo(round, p)
                   /\ RaisingReopenedFor(round, p)
<1>1. HasTurn(p)
  BY DEF Act, Fold, Check, Call, Bet, Raise, AllIn
<1>2. /\ round.status[p] = "active" /\ round.stack[p] > 0
      /\ round.lastActedAtBet[p] = NotActed \/ round.street[p] < round.currentBet
  BY <1>1, ActorOwes
<1>3. /\ round.stack[p] \in Nat /\ round.street[p] \in Nat /\ round.currentBet \in Nat
      /\ round.lastFullRaise \in Nat \ {0} /\ round.minimumBet \in Nat \ {0}
      /\ round.street[p] <= round.currentBet
  BY DEF RoundInv, RoundShape, Ledger
<1>4. round.currentBet = 0 => RaisingReopenedFor(round, p)
  BY <1>2, <1>3 DEF RaisingReopenedFor
<1>5. CASE Fold(p)
  BY <1>5 DEF Fold
<1>6. CASE Check(p)
  <2>1. round.street[p] >= round.currentBet
    BY <1>3, <1>6 DEF Check, LegalCheck, ToCall, Larger
  <2> QED
    BY <1>3, <1>6, <2>1 DEF Check, AllInTo
<1>7. CASE Call(p)
  <2>1. /\ CallTo(round, p) \in Int /\ round.street[p] <= CallTo(round, p)
        /\ CallTo(round, p) <= AllInTo(round, p) /\ CallTo(round, p) <= round.currentBet
        /\ CallTo(round, p) >= round.currentBet \/ CallTo(round, p) = AllInTo(round, p)
    BY <1>3 DEF CallTo, ToCall, Larger, Smaller, AllInTo
  <2> QED
    BY <1>3, <1>7, <2>1 DEF Call
<1>8. CASE Bet(p)
  <2>1. PICK to \in BetTargets(round, p) : round' = CommitTo(round, p, to)
    BY <1>8 DEF Bet
  <2>2. /\ round.currentBet = 0 /\ to \in Int
        /\ round.minimumBet <= to /\ to <= AllInTo(round, p)
    BY <1>3, <2>1 DEF BetTargets, Payable, AllInTo
  <2> QED
    BY <1>3, <1>4, <2>1, <2>2 DEF IsFullRaise
<1>9. CASE Raise(p)
  <2>1. PICK to \in RaiseTargets(round, p) : round' = CommitTo(round, p, to)
    BY <1>9 DEF Raise
  <2>2. /\ round.currentBet > 0 /\ CanIncreaseBet(round, p) /\ to \in Int
        /\ MinRaiseTo(round) <= to /\ to <= AllInTo(round, p)
    BY <1>3, <2>1 DEF RaiseTargets, Payable, AllInTo, MinRaiseTo
  <2> QED
    BY <1>3, <2>1, <2>2 DEF IsFullRaise, MinRaiseTo, CanIncreaseBet
<1>10. CASE AllIn(p)
  <2>1. AllInTo(round, p) \in Int /\ round.street[p] <= AllInTo(round, p)
    BY <1>3 DEF AllInTo
  <2>2. AllInTo(round, p) > round.currentBet => RaisingReopenedFor(round, p)
    BY <1>3, <1>4, <1>10, <2>1 DEF AllIn, LegalAllIn, CanIncreaseBet
  <2> QED
    BY <1>3, <1>10, <2>1, <2>2 DEF AllIn
<1> QED
  BY <1>5, <1>6, <1>7, <1>8, <1>9, <1>10 DEF Act

(* Every action of every player keeps the invariant and the chips, and     *)
(* raises only as the structure allows.                                    *)
LEMMA ActKeeps ==
  ASSUME RoundInv(round), NEW p \in Players, Act(p)
  PROVE  /\ RoundInv(round') /\ Worth(round') = Worth(round) /\ RaiseStep
         /\ HasTurn(p) /\ OthersKept(round, round', p)
<1>1. HasTurn(p)
  BY DEF Act, Fold, Check, Call, Bet, Raise, AllIn
<1>2. round.status[p] = "active" /\ ~round.handComplete
  BY <1>1, ActorOwes
<1>3. /\ round.stack[p] \in Nat /\ round.street[p] \in Nat /\ round.currentBet \in Nat
      /\ round.lastFullRaise \in Nat \ {0} /\ round.minimumBet \in Nat \ {0}
      /\ round \in RoundShape /\ Ledger(round) /\ Unopened(round)
  BY DEF RoundInv, RoundShape
<1>4. CASE round' = FoldHand(round, p)
  BY <1>1, <1>2, <1>3, <1>4, FoldKeeps DEF RaiseStep
<1>5. ASSUME NEW to \in Int, round' = CommitTo(round, p, to),
             round.street[p] <= to, to <= AllInTo(round, p),
             to >= round.currentBet \/ to = AllInTo(round, p),
             to > round.currentBet =>
               /\ IsFullRaise(round, to) \/ to = AllInTo(round, p)
               /\ RaisingReopenedFor(round, p)
      PROVE  /\ RoundInv(round') /\ Worth(round') = Worth(round) /\ RaiseStep
             /\ OthersKept(round, round', p)
  <2>1. /\ RoundInv(round') /\ OthersKept(round, round', p)
        /\ Worth(round') = Worth(round)
        /\ round'.currentBet = Larger(round.currentBet, to)
        /\ round'.street[p] = to /\ round'.stack[p] = AllInTo(round, p) - to
        /\ round'.lastFullRaise = IF to > round.currentBet /\ IsFullRaise(round, to)
                                  THEN to - round.currentBet ELSE round.lastFullRaise
    BY <1>2, <1>3, <1>5, CommitKeeps DEF AllInTo
  <2>2. IsFullRaise(round, to) => to - round.currentBet >= round.lastFullRaise
    BY <1>3 DEF IsFullRaise, Unopened
  <2>3. /\ round'.lastFullRaise >= round.lastFullRaise
        /\ round'.currentBet >= round.currentBet
    BY <1>3, <2>1, <2>2 DEF Larger
  <2>4. ASSUME round'.currentBet > round.currentBet
        PROVE  /\ round'.street[p] = round'.currentBet
               /\ \/ round'.currentBet - round.currentBet >= round.lastFullRaise
                  \/ round'.stack[p] = 0
               /\ RaisingReopenedFor(round, p)
    <3>1. to > round.currentBet /\ round'.currentBet = to
      BY <1>3, <2>1, <2>4 DEF Larger
    <3>2. to = AllInTo(round, p) => round'.stack[p] = 0
      BY <2>1
    <3> QED
      BY <1>5, <2>1, <2>2, <3>1, <3>2
  <2>5. p = NextToAct(round)
    BY <1>1 DEF HasTurn
  <2>6. RaiseStep
    BY <2>3, <2>4, <2>5 DEF RaiseStep, RaisingReopenedFor
  <2> QED
    BY <2>1, <2>6
<1> QED
  BY <1>1, <1>4, <1>5, ActIsCommit
-----------------------------------------------------------------------------
IInv == ValidEntry(entry) /\ RoundInv(round) /\ Worth(round) = Worth(entry)

(* A round as it is opened satisfies the invariant.                        *)
LEMMA InitIInv == Init => IInv
  BY EntriesAssumption, CreateKeeps DEF Init, IInv

(* Every action keeps the invariant.                                       *)
LEMMA NextIInv == IInv /\ [Next]_vars => IInv'
<1> SUFFICES ASSUME IInv, [Next]_vars
             PROVE  IInv'
  OBVIOUS
<1>1. ASSUME NEW p \in Players, Act(p), UNCHANGED entry
      PROVE  IInv'
  BY <1>1, ActKeeps DEF IInv
<1>2. CASE UNCHANGED vars
  BY <1>2 DEF vars, IInv
<1> QED
  BY <1>1, <1>2 DEF Next, Finished, vars

(* The strengthening holds throughout: shape, ledger, pending list, and    *)
(* every player's stack and contribution add up to what he brought.        *)
THEOREM RoundInvariant == Spec => []IInv
  BY InitIInv, NextIInv, PTL DEF Spec

(* No stack or contribution of a betting round ever leaves its type.       *)
THEOREM TypeCorrect == Spec => []TypeOK
<1>1. IInv => TypeOK
  BY DEF IInv, RoundInv, TypeOK
<1> QED
  BY <1>1, RoundInvariant, PTL

(* applyBettingAction's closing assertion never throws: the chips of the   *)
(* table are those the round was opened with.                              *)
THEOREM ConservationHolds == Spec => []ChipsConserved
<1>1. IInv => ChipsConserved
  BY DEF IInv, ChipsConserved, ChipTotal
<1> QED
  BY <1>1, RoundInvariant, PTL

(* Nor do its other thresholds.                                            *)
THEOREM LedgerHolds == Spec => []LedgerSound
<1>1. IInv => LedgerSound
  BY DEF IInv, RoundInv, Ledger, LedgerSound
<1> QED
  BY <1>1, RoundInvariant, PTL

(* A betting round with the hand contested closes only when nobody owes.   *)
THEOREM ClosedRoundHolds == Spec => []ClosedRoundIsMatched
<1>1. IInv => ClosedRoundIsMatched
  <2> SUFFICES ASSUME IInv, round.complete, ~round.handComplete
               PROVE  /\ Cardinality(InHand(round)) > 1
                      /\ \A p \in AbleToAct(round) :
                           /\ round.street[p] = round.currentBet
                           /\ round.lastActedAtBet[p] # NotActed \/ AbleToAct(round) = {p}
    BY DEF ClosedRoundIsMatched
  <2>1. round \in RoundShape /\ Ledger(round) /\ Settled(round)
    BY DEF IInv, RoundInv
  <2>2. Cardinality(InHand(round)) > 1
    <3>1. IsFiniteSet(InHand(round))
      BY PlayersAssumption, FS_Subset DEF InHand
    <3>2. Cardinality(InHand(round)) \in Nat
      BY <3>1, FS_CardinalityType
    <3> QED
      BY <2>1, <3>2 DEF Settled
  <2>3. SoleMatched(round) \/ Owing(round) = {}
    BY <2>1 DEF Settled
  <2>4. ASSUME NEW p \in AbleToAct(round)
        PROVE  /\ round.street[p] = round.currentBet
               /\ round.lastActedAtBet[p] # NotActed \/ AbleToAct(round) = {p}
    <3>1. /\ p \in Players /\ round.street[p] <= round.currentBet
          /\ round.street[p] \in Nat /\ round.currentBet \in Nat
      BY <2>1 DEF AbleToAct, Ledger, RoundShape
    <3>2. CASE SoleMatched(round)
      BY <3>1, <3>2, <2>4 DEF SoleMatched
    <3>3. CASE Owing(round) = {}
      BY <3>1, <3>3, <2>4 DEF Owing
    <3> QED
      BY <2>3, <3>2, <3>3
  <2> QED
    BY <2>2, <2>4
<1> QED
  BY <1>1, RoundInvariant, PTL

(* An open round has somebody to ask, never an all-in or folded player.    *)
THEOREM ActorHolds == Spec => []OpenRoundHasActor
<1>1. IInv => OpenRoundHasActor
  <2>1. ASSUME IInv
        PROVE  OpenRoundHasActor
    <3>1. Settled(round)
      BY <2>1 DEF IInv, RoundInv
    <3>2. round.pending \subseteq AbleToAct(round)
      BY <3>1 DEF Settled, Owing
    <3>3. /\ round.complete <=> round.pending = {}
          /\ round.handComplete <=> Cardinality(InHand(round)) <= 1
      BY <3>1, Zenon DEF Settled
    <3> QED
      BY <3>2, <3>3, Zenon DEF OpenRoundHasActor
  <2> QED
    BY <2>1
<1> QED
  BY <1>1, RoundInvariant, PTL

(* Bets and raises follow the no-limit structure at every step.            *)
THEOREM RaiseStructureHolds == Spec => RaiseStructure
<1>1. IInv /\ [Next]_vars => [RaiseStep]_round
  <2> SUFFICES ASSUME IInv, [Next]_vars, round' # round
               PROVE  RaiseStep
    OBVIOUS
  <2>1. PICK p \in Players : Act(p)
    BY DEF Next, Finished, vars
  <2> QED
    BY <2>1, ActKeeps DEF IInv
<1> QED
  BY <1>1, RoundInvariant, PTL DEF Spec, RaiseStructure
-----------------------------------------------------------------------------
(* The turn order.  Seats are distinct places 1..N, so the distances from  *)
(* the last actor are distinct; and as long as a round is open, whoever    *)
(* still has to answer sits before everybody who has answered and could    *)
(* act again: the list is a clockwise run.                                 *)
Seated(r) ==
  /\ \A p \in Players : r.turn[p] <= Cardinality(Players)
  /\ \A p, q \in Players : r.turn[p] = r.turn[q] => p = q
  /\ r.from <= Cardinality(Players)

WaitingFirst(r) ==
  \A p \in r.pending, q \in AbleToAct(r) \ r.pending : Distance(r, p) < Distance(r, q)

OrderInv(r) == Seated(r) /\ WaitingFirst(r)

(* Distances are places 1..N, one for each player.                         *)
LEMMA DistanceShape ==
  ASSUME NEW r \in RoundShape, Seated(r)
  PROVE  /\ \A p \in Players : Distance(r, p) \in 1 .. Cardinality(Players)
         /\ \A p, q \in Players : Distance(r, p) = Distance(r, q) => p = q
<1>1. Cardinality(Players) \in Nat
  BY PlayersAssumption, FS_CardinalityType
<1>2. r.from \in Nat /\ r.from <= Cardinality(Players)
  BY DEF RoundShape, Seated
<1>3. \A p \in Players : r.turn[p] \in Nat \ {0} /\ r.turn[p] <= Cardinality(Players)
  BY DEF RoundShape, Seated
<1>4. \A p \in Players : Distance(r, p) \in 1 .. Cardinality(Players)
  BY <1>1, <1>2, <1>3 DEF Distance
<1>5. ASSUME NEW p \in Players, NEW q \in Players, Distance(r, p) = Distance(r, q)
      PROVE  p = q
  <2>1. r.turn[p] = r.turn[q]
    BY <1>1, <1>2, <1>3, <1>5 DEF Distance
  <2> QED
    BY <2>1 DEF Seated
<1> QED
  BY <1>4, <1>5

(* The player asked to act sits before everybody else who is pending.      *)
LEMMA NextIsFirst ==
  ASSUME NEW r \in RoundShape, Seated(r), r.pending # {}
  PROVE  /\ NextToAct(r) \in r.pending
         /\ \A q \in r.pending \ {NextToAct(r)} : Distance(r, NextToAct(r)) < Distance(r, q)
<1> DEFINE n == NextToAct(r)
<1>1. n \in r.pending /\ \A q \in r.pending : Distance(r, n) <= Distance(r, q)
  BY NextIsPending
<1> HIDE DEF n
<1>2. ASSUME NEW q \in r.pending \ {n}
      PROVE  Distance(r, n) < Distance(r, q)
  <2>1. n \in Players /\ q \in Players /\ n # q
    BY <1>1 DEF RoundShape
  <2>2. Distance(r, n) # Distance(r, q)
    BY <2>1, DistanceShape
  <2>3. Distance(r, n) \in Int /\ Distance(r, q) \in Int
    BY <2>1, DistanceShape
  <2> QED
    BY <1>1, <2>2, <2>3
<1> QED
  BY <1>1, <1>2 DEF n

(* After player a acts the distances are counted from his seat: whoever    *)
(* sat beyond him is that much nearer, in the same order, and he himself   *)
(* comes last.                                                             *)
LEMMA Recounted ==
  ASSUME NEW r \in RoundShape, NEW s \in RoundShape, Seated(r), NEW a \in Players,
         s.turn = r.turn, s.from = r.turn[a]
  PROVE  /\ Seated(s)
         /\ Distance(s, a) = Cardinality(Players)
         /\ \A p \in Players : Distance(r, p) > Distance(r, a) =>
                                 Distance(s, p) = Distance(r, p) - Distance(r, a)
<1>1. Cardinality(Players) \in Nat
  BY PlayersAssumption, FS_CardinalityType
<1>2. r.from \in Nat /\ r.from <= Cardinality(Players)
  BY DEF RoundShape, Seated
<1>3. \A p \in Players : r.turn[p] \in Nat \ {0} /\ r.turn[p] <= Cardinality(Players)
  BY DEF RoundShape, Seated
<1>4. Seated(s)
  BY <1>3 DEF Seated
<1>5. Distance(s, a) = Cardinality(Players)
  BY <1>1, <1>3 DEF Distance
<1>6. ASSUME NEW p \in Players, Distance(r, p) > Distance(r, a)
      PROVE  Distance(s, p) = Distance(r, p) - Distance(r, a)
  BY <1>1, <1>2, <1>3, <1>6 DEF Distance
<1> QED
  BY <1>4, <1>5, <1>6

(* The player only waiting for his turn owes just as much afterwards.      *)
LEMMA WaitingStaysOwing ==
  ASSUME NEW r \in RoundShape, NEW s \in RoundShape, NEW a \in Players,
         OthersKept(r, s, a), NEW p \in Owing(r) \ {a}
  PROVE  p \in Owing(s)
<1>1. p \in Players /\ r.street[p] \in Nat /\ r.currentBet \in Nat /\ s.currentBet \in Nat
  BY DEF Owing, AbleToAct, RoundShape
<1>2. /\ s.stack[p] = r.stack[p] /\ s.street[p] = r.street[p]
      /\ s.status[p] = r.status[p] /\ s.lastActedAtBet[p] = r.lastActedAtBet[p]
      /\ r.currentBet <= s.currentBet
  BY <1>1 DEF OthersKept
<1> QED
  BY <1>1, <1>2 DEF Owing, AbleToAct

(* Nobody else joins the list unless the bet went up, and then everybody   *)
(* who could answer does: who is able and not asked was not asked before.  *)
LEMMA AnsweredStayBehind ==
  ASSUME NEW r \in RoundShape, NEW s \in RoundShape, NEW a \in Players,
         OthersKept(r, s, a), Ledger(r),
         NEW q \in AbleToAct(s) \ Owing(s), q # a
  PROVE  /\ q \in AbleToAct(r) \ Owing(r)
         /\ \A p \in Owing(s) : p \in Owing(r) \ {a}
<1>1. /\ q \in Players /\ r.street[q] \in Nat /\ r.currentBet \in Nat
      /\ s.currentBet \in Nat /\ r.street[q] <= r.currentBet
  BY DEF AbleToAct, RoundShape, Ledger
<1>2. /\ s.stack[q] = r.stack[q] /\ s.street[q] = r.street[q]
      /\ s.status[q] = r.status[q] /\ s.lastActedAtBet[q] = r.lastActedAtBet[q]
      /\ r.currentBet <= s.currentBet
  BY <1>1 DEF OthersKept
<1>3. q \in AbleToAct(r) /\ r.lastActedAtBet[q] # NotActed /\ s.currentBet <= r.street[q]
  BY <1>1, <1>2 DEF Owing, AbleToAct
<1>4. s.currentBet = r.currentBet /\ q \notin Owing(r)
  BY <1>1, <1>2, <1>3 DEF Owing
<1>5. ASSUME NEW p \in Owing(s)
      PROVE  p \in Owing(r) \ {a}
  <2>1. p \in Players \ {a}
    BY <1>5 DEF Owing, AbleToAct, OthersKept
  <2>2. /\ s.stack[p] = r.stack[p] /\ s.street[p] = r.street[p]
        /\ s.status[p] = r.status[p] /\ s.lastActedAtBet[p] = r.lastActedAtBet[p]
    BY <2>1 DEF OthersKept
  <2> QED
    BY <1>4, <1>5, <2>1, <2>2 DEF Owing, AbleToAct
<1> QED
  BY <1>3, <1>4, <1>5

(* An action keeps the turn order: the list stays a clockwise run, and the *)
(* next of those who waited is asked next.                                 *)
NextOfWaiting(r, s) ==
  LET waiting == r.pending \ {NextToAct(r)}
      first == CHOOSE p \in waiting :
                 \A q \in waiting : Distance(r, p) <= Distance(r, q)
  IN (waiting # {} /\ ~s.complete)
       => waiting \subseteq s.pending /\ NextToAct(s) = first

(* An action of the first in turn keeps the order, and the next in turn    *)
(* was waiting behind him.                                                 *)
LEMMA OrderKept ==
  ASSUME NEW r, RoundInv(r), OrderInv(r), r.pending # {},
         NEW s, RoundInv(s), OthersKept(r, s, NextToAct(r))
  PROVE  OrderInv(s) /\ NextOfWaiting(r, s)
<1> DEFINE a == NextToAct(r)
           N == Cardinality(Players)
<1>1. r \in RoundShape /\ s \in RoundShape /\ Ledger(r) /\ Seated(r) /\ WaitingFirst(r)
  BY DEF RoundInv, OrderInv
<1>2. r.pending = Owing(r) /\ r.pending \subseteq Players
  BY DEF RoundInv, Settled, RoundShape
<1>3. a \in r.pending /\ \A p \in r.pending \ {a} : Distance(r, a) < Distance(r, p)
  BY <1>1, NextIsFirst
<1> HIDE DEF a
<1>4. OthersKept(r, s, a) /\ a \in Players
  BY <1>2, <1>3 DEF a
<1>5. /\ Seated(s) /\ Distance(s, a) = N
      /\ \A p \in Players : Distance(r, p) > Distance(r, a) =>
                              Distance(s, p) = Distance(r, p) - Distance(r, a)
  BY <1>1, <1>4, Recounted DEF OthersKept
<1>6. /\ \A p \in Players : Distance(r, p) \in Int
      /\ \A p \in Players : Distance(s, p) \in 1 .. N
      /\ \A p, q \in Players : Distance(r, p) = Distance(r, q) => p = q
      /\ \A p, q \in Players : Distance(s, p) = Distance(s, q) => p = q
  BY <1>1, <1>5, DistanceShape
<1>7. s.pending = {} \/ s.pending = Owing(s)
  BY DEF RoundInv, Settled
<1>8. N \in Nat
  BY PlayersAssumption, FS_CardinalityType
<1> HIDE DEF N
(* Somebody waiting before, compared with somebody who had answered.       *)
<1>9. ASSUME NEW p \in Owing(r) \ {a}, NEW q \in AbleToAct(r) \ Owing(r)
      PROVE  Distance(s, p) < Distance(s, q)
  <2>1. p \in Players /\ q \in Players
    BY <1>9 DEF Owing, AbleToAct
  <2>2. Distance(r, a) < Distance(r, p) /\ Distance(r, p) < Distance(r, q)
    BY <1>1, <1>2, <1>3, <1>9 DEF WaitingFirst
  <2>3. Distance(r, a) \in Int /\ Distance(r, p) \in Int /\ Distance(r, q) \in Int
    BY <1>4, <1>6, <2>1
  <2>4. /\ Distance(s, p) = Distance(r, p) - Distance(r, a)
        /\ Distance(s, q) = Distance(r, q) - Distance(r, a)
    BY <1>5, <2>1, <2>2, <2>3
  <2> QED
    BY <2>2, <2>3, <2>4
<1>10. WaitingFirst(s)
  <2> SUFFICES ASSUME NEW p \in s.pending, NEW q \in AbleToAct(s) \ s.pending
               PROVE  Distance(s, p) < Distance(s, q)
    BY DEF WaitingFirst
  <2>1. p \in Owing(s) /\ q \in AbleToAct(s) \ Owing(s) /\ p \in Players /\ q \in Players
    BY <1>7 DEF Owing, AbleToAct
  <2>2. p # a
    BY <1>4, <2>1 DEF OthersKept
  <2>3. CASE q = a
    <3>1. Distance(s, p) # Distance(s, a)
      BY <1>4, <1>6, <2>1, <2>2
    <3>2. Distance(s, p) \in 1 .. N
      BY <1>6, <2>1
    <3> QED
      BY <1>5, <1>8, <2>3, <3>1, <3>2
  <2>4. CASE q # a
    <3>1. q \in AbleToAct(r) \ Owing(r) /\ p \in Owing(r) \ {a}
      BY <1>1, <1>4, <2>1, <2>4, AnsweredStayBehind
    <3> QED
      BY <1>9, <3>1
  <2> QED
    BY <2>3, <2>4
<1>11. NextOfWaiting(r, s)
  <2> DEFINE waiting == r.pending \ {a}
             closest(p) == p \in waiting /\ \A q \in waiting : Distance(r, p) <= Distance(r, q)
             n == NextToAct(s)
  <2> SUFFICES ASSUME waiting # {}, ~s.complete
               PROVE  /\ waiting \subseteq s.pending
                      /\ n = CHOOSE p \in waiting :
                               \A q \in waiting : Distance(r, p) <= Distance(r, q)
    BY DEF NextOfWaiting, a
  <2>1. s.pending = Owing(s) /\ s.pending # {}
    BY <1>7 DEF RoundInv, Settled
  <2>2. waiting \subseteq s.pending
    BY <1>1, <1>2, <1>4, <2>1, WaitingStaysOwing
  <2>3. n \in s.pending /\ \A q \in s.pending : Distance(s, n) <= Distance(s, q)
    BY <1>1, <2>1, NextIsPending
  <2> HIDE DEF n
  <2>4. n \in Players /\ n # a /\ n \in AbleToAct(s)
    BY <1>4, <2>1, <2>3 DEF Owing, AbleToAct, OthersKept
  <2>5. n \in waiting
    <3> SUFFICES ASSUME n \notin waiting
                 PROVE  FALSE
      OBVIOUS
    <3>1. n \in AbleToAct(r) \ Owing(r)
      BY <1>2, <1>4, <2>4 DEF AbleToAct, OthersKept
    <3>2. PICK p \in waiting : TRUE
      OBVIOUS
    <3>3. Distance(s, p) < Distance(s, n) /\ Distance(s, n) <= Distance(s, p)
      BY <1>2, <1>9, <2>2, <2>3, <3>1, <3>2
    <3>4. Distance(s, p) \in Int /\ Distance(s, n) \in Int
      BY <1>2, <1>6, <2>4, <3>2
    <3> QED
      BY <3>3, <3>4
  <2>6. ASSUME NEW q \in waiting
        PROVE  Distance(r, n) <= Distance(r, q)
    <3>1. Distance(s, n) <= Distance(s, q)
      BY <2>2, <2>3, <2>6
    <3>2. Distance(r, a) < Distance(r, q) /\ Distance(r, a) < Distance(r, n)
      BY <1>3, <2>5, <2>6
    <3>3. Distance(r, a) \in Int /\ Distance(r, q) \in Int /\ Distance(r, n) \in Int
      BY <1>2, <1>4, <1>6, <2>4, <2>6
    <3>4. /\ Distance(s, q) = Distance(r, q) - Distance(r, a)
          /\ Distance(s, n) = Distance(r, n) - Distance(r, a)
      BY <1>2, <1>5, <2>4, <2>6, <3>2, <3>3
    <3> QED
      BY <3>1, <3>3, <3>4
  <2>7. closest(n)
    BY <2>5, <2>6
  <2>8. ASSUME NEW p, closest(p)
        PROVE  p = n
    <3>1. Distance(r, p) <= Distance(r, n) /\ Distance(r, n) <= Distance(r, p)
      BY <2>5, <2>6, <2>8
    <3>2. p \in Players /\ Distance(r, p) \in Int /\ Distance(r, n) \in Int
      BY <1>2, <1>6, <2>4, <2>8
    <3> QED
      BY <1>6, <2>4, <3>1, <3>2
  <2> HIDE DEF waiting
  <2> QED
    BY <2>2, <2>7, <2>8
<1> QED
  BY <1>5, <1>10, <1>11 DEF OrderInv

(* A round as it is opened is in order.                                    *)
LEMMA InitOrder == Init => OrderInv(round)
<1> SUFFICES ASSUME Init
             PROVE  OrderInv(round)
  OBVIOUS
<1>1. ValidEntry(entry) /\ RoundInv(round)
  BY EntriesAssumption, CreateKeeps DEF Init
<1>2. /\ round.turn = entry.turn /\ round.from = 0
      /\ \A p \in Players : round.lastActedAtBet[p] = NotActed
  BY DEF Init, CreateBettingRound, RecomputePending
<1>3. Cardinality(Players) \in Nat
  BY PlayersAssumption, FS_CardinalityType
<1>4. Seated(round)
  BY <1>1, <1>2, <1>3 DEF Seated, ValidEntry
<1>5. round.pending = {} \/ round.pending = AbleToAct(round)
  BY <1>1, <1>2 DEF RoundInv, Settled, Owing, AbleToAct
<1> QED
  BY <1>4, <1>5 DEF OrderInv, WaitingFirst

(* No action makes anybody lose his turn: the players waiting behind the   *)
(* actor keep their order and are asked from the nearest on.               *)
THEOREM TurnOrderHolds == Spec => TurnOrderKept
<1>1. IInv /\ OrderInv(round) /\ [Next]_vars =>
        OrderInv(round)' /\ [~round.complete => NextOfWaiting(round, round')]_round
  <2> SUFFICES ASSUME IInv, OrderInv(round), [Next]_vars, round' # round
               PROVE  OrderInv(round)' /\ NextOfWaiting(round, round')
    OBVIOUS
  <2>1. PICK p \in Players : Act(p)
    BY DEF Next, Finished, vars
  <2>2. RoundInv(round) /\ RoundInv(round') /\ HasTurn(p) /\ OthersKept(round, round', p)
    BY <2>1, ActKeeps DEF IInv
  <2>3. p = NextToAct(round) /\ round.pending # {}
    BY <2>2 DEF HasTurn, RoundInv, Settled
  <2> QED
    BY <2>2, <2>3, OrderKept
<1>2. [~round.complete => NextOfWaiting(round, round')]_round
        => [ ~round.complete =>
               LET waiting == round.pending \ {NextToAct(round)}
                   first == CHOOSE p \in waiting :
                              \A q \in waiting : Distance(round, p) <= Distance(round, q)
               IN (waiting # {} /\ ~round'.complete)
                    => waiting \subseteq round'.pending /\ NextToAct(round') = first ]_round
  BY DEF NextOfWaiting
<1> QED
  BY <1>1, <1>2, InitOrder, RoundInvariant, PTL DEF Spec, TurnOrderKept
-----------------------------------------------------------------------------
(* Sums and differences of amounts of whole chips are whole chips.         *)
LEMMA OnRackAdds ==
  ASSUME NEW a \in Int, NEW b \in Int, OnRack(a), OnRack(b)
  PROVE  OnRack(a + b) /\ OnRack(a - b)
<1>1. SmallestChip \in Nat \ {0}
  BY ChipAssumption
<1>2. a = SmallestChip * (a \div SmallestChip) /\ b = SmallestChip * (b \div SmallestChip)
  BY <1>1 DEF OnRack
<1> DEFINE i == a \div SmallestChip
           j == b \div SmallestChip
           k == SmallestChip
<1>3. i \in Int /\ j \in Int
  BY <1>1
<1> HIDE DEF i, j
<1>4. a + b = k * (i + j) /\ a - b = k * (i - j)
  BY <1>1, <1>2, <1>3 DEF i, j
<1>5. i + j \in Int /\ i - j \in Int
  BY <1>3
<1> HIDE DEF k
<1>6. k \in Nat \ {0}
  BY <1>1 DEF k
<1>7. \A m \in Int : (k * m) % k = 0
  BY <1>6
<1> QED
  BY <1>4, <1>5, <1>7 DEF OnRack, k

(* Every amount of the round is one the chips of the rack can pay.         *)
RoundOnRack(r) ==
  /\ \A p \in Players : OnRack(r.stack[p]) /\ OnRack(r.street[p]) /\ OnRack(r.total[p])
  /\ OnRack(r.currentBet) /\ OnRack(r.minimumBet) /\ OnRack(r.lastFullRaise)

(* A round that has just been opened, as the entry that opens it again.    *)
Reopened(r) ==
  [ stack |-> r.stack, street |-> r.street, total |-> r.total,
    status |-> r.status, turn |-> r.turn,
    nominalOpeningBet |-> r.currentBet, minimumBet |-> r.minimumBet ]

(* What createBettingRound makes of each field.                            *)
LEMMA CreateFields ==
  ASSUME NEW e, ValidEntry(e)
  PROVE  LET r == CreateBettingRound(e)
         IN /\ r.stack = e.stack /\ r.street = e.street /\ r.total = e.total
            /\ r.status = [p \in Players |-> IF e.stack[p] = 0 /\ e.status[p] = "active"
                                             THEN "all-in" ELSE e.status[p]]
            /\ r.turn = e.turn /\ r.from = 0
            /\ r.minimumBet = e.minimumBet /\ r.lastFullRaise = e.minimumBet
            /\ r.currentBet = Max({e.nominalOpeningBet} \cup {e.street[p] : p \in Players})
            /\ \A p \in Players : r.lastActedAtBet[p] = NotActed
<1> DEFINE bet == Max({e.nominalOpeningBet} \cup {e.street[p] : p \in Players})
           st == [p \in Players |-> IF e.stack[p] = 0 /\ e.status[p] = "active"
                                    THEN "all-in" ELSE e.status[p]]
           m == [ stack |-> e.stack, street |-> e.street, total |-> e.total,
                  status |-> st, turn |-> e.turn, from |-> 0, pending |-> {},
                  currentBet |-> bet,
                  minimumBet |-> e.minimumBet, lastFullRaise |-> e.minimumBet,
                  lastActedAtBet |-> [p \in Players |-> NotActed],
                  complete |-> FALSE, handComplete |-> FALSE ]
<1>1. bet \in Nat
  BY OpeningBet
<1>2. CreateBettingRound(e) = RecomputePending(m, 0)
  BY DEF CreateBettingRound
<1> HIDE DEF bet
<1>3. m \in RoundShape
  BY <1>1 DEF ValidEntry, EntryShape, RoundShape, Statuses, NotActed
<1>4. /\ m.stack = e.stack /\ m.street = e.street /\ m.total = e.total
      /\ m.status = st /\ m.turn = e.turn /\ m.currentBet = bet /\ m.minimumBet = e.minimumBet
      /\ m.lastFullRaise = e.minimumBet /\ ~m.handComplete
      /\ \A p \in Players : m.lastActedAtBet[p] = NotActed
  OBVIOUS
<1> HIDE DEF m, st
<1>5. 0 \in Nat
  OBVIOUS
<1> QED
  BY <1>2, <1>3, <1>4, <1>5, RecomputeKeeps DEF bet, st

(* The opening bet is the nominal one or the largest posted.               *)
LEMMA OpeningBetIsOne ==
  ASSUME NEW e, ValidEntry(e)
  PROVE  LET bet == CreateBettingRound(e).currentBet
         IN /\ bet \in Nat /\ e.nominalOpeningBet <= bet
            /\ \A p \in Players : e.street[p] <= bet
            /\ bet = e.nominalOpeningBet \/ \E p \in Players : bet = e.street[p]
<1> DEFINE bet == Max({e.nominalOpeningBet} \cup {e.street[p] : p \in Players})
<1>1. CreateBettingRound(e).currentBet = bet
  BY CreateFields
<1>2. /\ bet \in Nat /\ e.nominalOpeningBet <= bet
      /\ \A p \in Players : e.street[p] <= bet
      /\ bet = e.nominalOpeningBet \/ \E p \in Players : bet = e.street[p]
  BY OpeningBet
<1> HIDE DEF bet
<1> QED
  BY <1>1, <1>2

(* The round opened from a valid entry is itself a valid entry.            *)
LEMMA OpenedIsValid ==
  ASSUME NEW e, ValidEntry(e)
  PROVE  ValidEntry(Reopened(CreateBettingRound(e)))
<1> DEFINE r == CreateBettingRound(e)
<1>1. /\ r.stack = e.stack /\ r.street = e.street /\ r.total = e.total /\ r.turn = e.turn
      /\ r.minimumBet = e.minimumBet
      /\ r.status = [p \in Players |-> IF e.stack[p] = 0 /\ e.status[p] = "active"
                                       THEN "all-in" ELSE e.status[p]]
  BY CreateFields
<1>2. r.currentBet \in Nat
  BY OpeningBetIsOne
<1> HIDE DEF r
<1>3. Reopened(r) \in EntryShape
  BY <1>1, <1>2 DEF Reopened, EntryShape, ValidEntry, Statuses
<1>4. /\ Reopened(r).street = e.street /\ Reopened(r).total = e.total
      /\ Reopened(r).stack = e.stack /\ Reopened(r).turn = e.turn
      /\ \A p \in Players : Reopened(r).status[p] = "all-in" =>
                              e.status[p] = "all-in" \/ e.stack[p] = 0
  BY <1>1 DEF Reopened
<1> QED
  BY <1>3, <1>4 DEF ValidEntry, r

(* Opened on the rack, the round is on the rack.                           *)
LEMMA OpenedOnRack ==
  ASSUME NEW e, ValidEntry(e), EntryOnRack(e)
  PROVE  /\ RoundOnRack(CreateBettingRound(e))
         /\ EntryOnRack(Reopened(CreateBettingRound(e)))
<1> DEFINE r == CreateBettingRound(e)
<1>1. /\ r.stack = e.stack /\ r.street = e.street /\ r.total = e.total
      /\ r.minimumBet = e.minimumBet /\ r.lastFullRaise = e.minimumBet
  BY CreateFields
<1>2. r.currentBet = e.nominalOpeningBet \/ \E p \in Players : r.currentBet = e.street[p]
  BY OpeningBetIsOne
<1> HIDE DEF r
<1>3. OnRack(r.currentBet)
  BY <1>2 DEF EntryOnRack
<1>4. RoundOnRack(r)
  BY <1>1, <1>3 DEF RoundOnRack, EntryOnRack
<1>5. EntryOnRack(Reopened(r))
  BY <1>1, <1>3 DEF Reopened, EntryOnRack
<1> QED
  BY <1>4, <1>5 DEF r

(* What a commitment and a fold make of each field.                        *)
Commits(r, s, p, to) ==
  LET paid == to - r.street[p]
  IN /\ s.stack[p] = r.stack[p] - paid /\ s.street[p] = to /\ s.total[p] = r.total[p] + paid
     /\ s.status[p] = IF r.stack[p] = paid THEN "all-in" ELSE r.status[p]
     /\ s.lastActedAtBet[p] = Larger(r.currentBet, to)
     /\ s.currentBet = Larger(r.currentBet, to)
     /\ s.lastFullRaise \in {to - r.currentBet, r.lastFullRaise}
Folds(r, s, p) ==
  /\ s.stack[p] = r.stack[p] /\ s.street[p] = r.street[p] /\ s.total[p] = r.total[p]
  /\ s.status[p] = "folded"
  /\ s.currentBet = r.currentBet /\ s.lastFullRaise = r.lastFullRaise
Elsewhere(r, s, p) ==
  /\ s.minimumBet = r.minimumBet /\ s.turn = r.turn /\ s.from = r.turn[p]
  /\ \A q \in Players \ {p} :
       /\ s.stack[q] = r.stack[q] /\ s.street[q] = r.street[q] /\ s.total[q] = r.total[q]
       /\ s.status[q] = r.status[q] /\ s.lastActedAtBet[q] = r.lastActedAtBet[q]

(* What committing chips changes, field by field.                          *)
LEMMA CommitFields ==
  ASSUME NEW r \in RoundShape, NEW p \in Players, NEW to \in Int
  PROVE  Commits(r, CommitTo(r, p, to), p, to) /\ Elsewhere(r, CommitTo(r, p, to), p)
<1> DEFINE s == CommitTo(r, p, to)
<1>1. Commits(r, s, p, to)
  BY DEF CommitTo, StatusAfter, RecomputePending, RoundShape, Commits
<1>2. Elsewhere(r, s, p)
  BY DEF CommitTo, StatusAfter, RecomputePending, RoundShape, Elsewhere
<1> QED
  BY <1>1, <1>2

(* What folding changes, field by field.                                   *)
LEMMA FoldFields ==
  ASSUME NEW r \in RoundShape, NEW p \in Players
  PROVE  Folds(r, FoldHand(r, p), p) /\ Elsewhere(r, FoldHand(r, p), p)
<1>1. Folds(r, FoldHand(r, p), p)
  BY DEF FoldHand, RecomputePending, RoundShape, Folds
<1>2. Elsewhere(r, FoldHand(r, p), p)
  BY DEF FoldHand, RecomputePending, RoundShape, Elsewhere
<1> QED
  BY <1>1, <1>2

(* A commitment of whole chips keeps the round on the rack.                *)
LEMMA CommitOnRack ==
  ASSUME NEW r \in RoundShape, Ledger(r), Unopened(r), ~r.handComplete, RoundOnRack(r),
         NEW p \in Players, r.status[p] = "active",
         NEW to \in Int, r.street[p] <= to, to <= r.street[p] + r.stack[p], OnRack(to)
  PROVE  RoundOnRack(CommitTo(r, p, to))
<1> DEFINE s == CommitTo(r, p, to)
           paid == to - r.street[p]
<1>1. /\ r.stack[p] \in Int /\ r.street[p] \in Int /\ r.total[p] \in Int
      /\ r.currentBet \in Int /\ paid \in Int
  BY DEF RoundShape
<1>2. Commits(r, s, p, to) /\ Elsewhere(r, s, p)
  BY CommitFields
<1>3. OnRack(paid) /\ OnRack(to - r.currentBet)
  BY <1>1, OnRackAdds DEF RoundOnRack
<1> HIDE DEF s
<1>4. s.stack[p] = r.stack[p] - paid /\ s.total[p] = r.total[p] + paid /\ s.street[p] = to
  BY <1>2 DEF Commits
<1> HIDE DEF paid
<1>5. OnRack(s.stack[p]) /\ OnRack(s.total[p]) /\ OnRack(s.street[p])
  BY <1>1, <1>3, <1>4, OnRackAdds DEF RoundOnRack
<1>6. OnRack(s.currentBet) /\ OnRack(s.lastFullRaise)
  BY <1>2, <1>3 DEF Commits, Larger, RoundOnRack
<1>7. OnRack(s.minimumBet)
  BY <1>2 DEF Elsewhere, RoundOnRack
<1>8. \A q \in Players \ {p} : OnRack(s.stack[q]) /\ OnRack(s.street[q]) /\ OnRack(s.total[q])
  BY <1>2 DEF Elsewhere, RoundOnRack
<1> QED
  BY <1>5, <1>6, <1>7, <1>8 DEF RoundOnRack, s

(* Every target the legal actions offer is a number of whole chips, so     *)
(* every action keeps the round on the rack.                               *)
LEMMA ActOnRack ==
  ASSUME RoundInv(round), RoundOnRack(round), NEW p \in Players, Act(p)
  PROVE  RoundOnRack(round')
<1>1. HasTurn(p)
  BY DEF Act, Fold, Check, Call, Bet, Raise, AllIn
<1>2. round.status[p] = "active" /\ ~round.handComplete
  BY <1>1, ActorOwes
<1>3. /\ round.stack[p] \in Nat /\ round.street[p] \in Nat /\ round.currentBet \in Nat
      /\ round.lastFullRaise \in Nat \ {0} /\ round.minimumBet \in Nat \ {0}
      /\ round.street[p] <= round.currentBet
      /\ round \in RoundShape /\ Ledger(round) /\ Unopened(round)
  BY DEF RoundInv, RoundShape, Ledger
<1>4. /\ OnRack(AllInTo(round, p)) /\ AllInTo(round, p) \in Int
      /\ AllInTo(round, p) = round.street[p] + round.stack[p]
  BY <1>3, OnRackAdds DEF RoundOnRack, AllInTo
<1>5. OnRack(MinRaiseTo(round)) /\ MinRaiseTo(round) \in Int /\ MinRaiseTo(round) > round.currentBet
  <2>1. round.currentBet \in Int /\ round.lastFullRaise \in Int
    BY <1>3
  <2>2. OnRack(round.currentBet + round.lastFullRaise)
    BY <2>1, OnRackAdds DEF RoundOnRack
  <2> QED
    BY <1>3, <2>2 DEF MinRaiseTo
<1>6. ASSUME NEW to \in Int, round' = CommitTo(round, p, to), OnRack(to),
             round.street[p] <= to, to <= AllInTo(round, p)
      PROVE  RoundOnRack(round')
  BY <1>2, <1>3, <1>4, <1>6, CommitOnRack
<1>7. CASE Fold(p)
  <2>1. Folds(round, round', p) /\ Elsewhere(round, round', p)
    BY <1>3, <1>7, FoldFields DEF Fold
  <2> QED
    BY <2>1 DEF Folds, Elsewhere, RoundOnRack
<1>8. CASE Check(p)
  BY <1>3, <1>4, <1>6, <1>8 DEF Check, RoundOnRack
<1>9. CASE Call(p)
  <2>1. /\ CallTo(round, p) \in Int /\ round.street[p] <= CallTo(round, p)
        /\ CallTo(round, p) <= AllInTo(round, p)
        /\ CallTo(round, p) \in {round.street[p], round.currentBet, AllInTo(round, p)}
    BY <1>3, <1>4 DEF CallTo, ToCall, Larger, Smaller
  <2>2. OnRack(CallTo(round, p))
    BY <2>1, <1>4 DEF RoundOnRack
  <2> QED
    BY <1>6, <1>9, <2>1, <2>2 DEF Call
<1>10. CASE Bet(p)
  <2>1. PICK to \in BetTargets(round, p) : round' = CommitTo(round, p, to)
    BY <1>10 DEF Bet
  <2>2. /\ round.currentBet = 0 /\ to \in Int
        /\ round.minimumBet <= to /\ to <= AllInTo(round, p)
        /\ OnRack(to) \/ to = round.minimumBet \/ to = AllInTo(round, p)
    BY <1>3, <1>4, <2>1 DEF BetTargets, Payable, OnRack
  <2>3. OnRack(to) /\ round.street[p] <= to
    BY <1>3, <1>4, <2>2 DEF RoundOnRack
  <2> QED
    BY <1>6, <2>1, <2>2, <2>3
<1>11. CASE Raise(p)
  <2>1. PICK to \in RaiseTargets(round, p) : round' = CommitTo(round, p, to)
    BY <1>11 DEF Raise
  <2>2. /\ to \in Int /\ MinRaiseTo(round) <= to /\ to <= AllInTo(round, p)
        /\ OnRack(to) \/ to = MinRaiseTo(round) \/ to = AllInTo(round, p)
    BY <1>4, <1>5, <2>1 DEF RaiseTargets, Payable, OnRack
  <2>3. OnRack(to) /\ round.street[p] <= to
    BY <1>3, <1>4, <1>5, <2>2
  <2> QED
    BY <1>6, <2>1, <2>2, <2>3
<1>12. CASE AllIn(p)
  BY <1>3, <1>4, <1>6, <1>12 DEF AllIn
<1> QED
  BY <1>7, <1>8, <1>9, <1>10, <1>11, <1>12 DEF Act

(* Who may still win what.  Prior is what a player paid on the streets     *)
(* before; Backed says that at most one player has paid more than every    *)
(* player still in the hand could contest.                                 *)
Prior(r, p) == r.total[p] - r.street[p]
Deepest(r, p) == \A q \in Players : Prior(r, q) <= Prior(r, p)
Backed(r) ==
  \E x \in InHand(r) : \E y \in Players : \A q \in Players \ {y} : r.total[q] <= r.total[x]

(* A round is led by somebody who has matched the bet of his own accord;   *)
(* or it is before the flop and nobody has answered the blinds; or nobody  *)
(* has bet.                                                                *)
Leader(r) ==
  \E x \in InHand(r) : /\ r.lastActedAtBet[x] # NotActed
                       /\ r.street[x] = r.currentBet /\ Deepest(r, x)
Blind(r, s, b) ==
  /\ \A p \in Players : r.street[p] = r.total[p]
  /\ b \in InHand(r) /\ r.turn[b] = Cardinality(Players)
  /\ r.status[b] = "active" => r.street[b] = r.currentBet
  /\ \A p \in Players \ {s, b} : r.status[p] # "all-in" => r.total[p] = 0
  /\ \A p \in AbleToAct(r) : r.lastActedAtBet[p] = NotActed /\ r.turn[p] > r.from
Unbet(r) ==
  /\ r.currentBet = 0 /\ \A p \in Players : r.street[p] = 0
  /\ \A p \in AbleToAct(r) : r.lastActedAtBet[p] = NotActed
Matched(r) == \A p \in AbleToAct(r) : Deepest(r, p)
Standing(r) == Leader(r) \/ Unbet(r) \/ \E s, b \in Players : Blind(r, s, b)

Stakes(r) == Matched(r) /\ Standing(r) /\ Backed(r)

(* A leader backs the pots; so do the blinds, and whoever can still bet.   *)
LEMMA StandingBacks ==
  ASSUME NEW r, RoundInv(r), Matched(r),
         \/ Leader(r) \/ (Unbet(r) /\ AbleToAct(r) # {})
         \/ \E s, b \in Players : Blind(r, s, b)
  PROVE  Backed(r)
<1>1. \A p \in Players : /\ r.total[p] \in Nat /\ r.street[p] \in Nat
                         /\ r.currentBet \in Nat /\ r.street[p] <= r.currentBet
  BY DEF RoundInv, RoundShape, Ledger
<1>2. CASE Leader(r)
  <2>1. PICK x \in InHand(r) : r.street[x] = r.currentBet /\ Deepest(r, x)
    BY <1>2 DEF Leader
  <2>2. x \in Players
    BY DEF InHand
  <2>3. \A q \in Players : r.total[q] <= r.total[x]
    BY <1>1, <2>1, <2>2 DEF Deepest, Prior
  <2> QED
    BY <2>2, <2>3 DEF Backed
<1>3. CASE Unbet(r) /\ AbleToAct(r) # {}
  <2>1. PICK x \in AbleToAct(r) : TRUE
    BY <1>3
  <2>2. x \in Players /\ x \in InHand(r) /\ Deepest(r, x)
    BY DEF Matched, AbleToAct, InHand
  <2>3. \A q \in Players : r.total[q] <= r.total[x]
    BY <1>1, <1>3, <2>2 DEF Deepest, Prior, Unbet
  <2> QED
    BY <2>2, <2>3 DEF Backed
<1>4. ASSUME NEW s \in Players, NEW b \in Players, Blind(r, s, b)
      PROVE  Backed(r)
  <2> DEFINE f == [p \in InHand(r) |-> r.total[p]]
  <2>1. IsFiniteSet(InHand(r)) /\ InHand(r) # {}
    BY <1>4, PlayersAssumption, FS_Subset DEF InHand, Blind
  <2>2. f \in [InHand(r) -> Int]
    BY <1>1 DEF InHand
  <2>3. PICK x \in InHand(r) : \A q \in InHand(r) : f[x] >= f[q]
    <3> HIDE DEF f
    <3> QED
      BY <2>1, <2>2, FiniteArgMax
  <2>4. x \in Players
    BY DEF InHand
  <2>5. ASSUME NEW q \in Players \ {s}
        PROVE  r.total[q] <= r.total[x]
    <3>1. CASE q \in InHand(r)
      BY <1>1, <2>3, <2>4, <3>1
    <3>2. CASE q \notin InHand(r)
      <4>1. r.status[q] = "folded" /\ q # b
        BY <1>4, <3>2 DEF InHand, Blind
      <4>2. r.total[q] = 0
        BY <1>4, <4>1 DEF Blind
      <4> QED
        BY <1>1, <2>4, <4>2
    <3> QED
      BY <3>1, <3>2
  <2> QED
    BY <2>5 DEF Backed
<1> QED
  BY <1>2, <1>3, <1>4

(* The actor is one who owes, and he is not alone with a matched bet.      *)
LEMMA ActorIsOwing ==
  ASSUME RoundInv(round), NEW p \in Players, HasTurn(p)
  PROVE  /\ p \in Owing(round) /\ round.pending = Owing(round) /\ ~SoleMatched(round)
         /\ \A q \in Owing(round) : Distance(round, p) <= Distance(round, q)
<1>1. round.pending # {} /\ round \in RoundShape
  BY DEF HasTurn, RoundInv, Settled
<1>2. p \in round.pending /\ \A q \in round.pending : Distance(round, p) <= Distance(round, q)
  BY <1>1, NextIsPending DEF HasTurn
<1>3. round.pending = Owing(round) /\ ~SoleMatched(round)
  BY <1>1 DEF RoundInv, Settled
<1> QED
  BY <1>2, <1>3

(* A step of player p, for whatever he commits.                            *)
Moves(r, s, p) ==
  /\ Elsewhere(r, s, p)
  /\ \/ Folds(r, s, p)
     \/ \E to \in Int : /\ Commits(r, s, p, to)
                        /\ r.street[p] <= to /\ to <= AllInTo(r, p)
                        /\ to >= r.currentBet \/ to = AllInTo(r, p)

(* An action is a fold or a commitment by the player whose turn it is.     *)
LEMMA ActMoves ==
  ASSUME RoundInv(round), NEW p \in Players, Act(p)
  PROVE  Moves(round, round', p) /\ HasTurn(p) /\ RoundInv(round')
<1>1. HasTurn(p) /\ RoundInv(round')
  BY ActKeeps
<1>2. round \in RoundShape
  BY DEF RoundInv
<1>3. CASE round' = FoldHand(round, p)
  BY <1>1, <1>2, <1>3, FoldFields DEF Moves
<1>4. ASSUME NEW to \in Int, round' = CommitTo(round, p, to),
             round.street[p] <= to, to <= AllInTo(round, p),
             to >= round.currentBet \/ to = AllInTo(round, p)
      PROVE  Moves(round, round', p)
  BY <1>2, <1>4, CommitFields DEF Moves
<1> QED
  BY <1>1, <1>3, <1>4, ActIsCommit

(* Nobody's earlier payments change, nobody comes back, and the others     *)
(* stay as they were.                                                      *)
LEMMA MovesKeep ==
  ASSUME NEW r, RoundInv(r), NEW s, RoundInv(s), NEW p \in AbleToAct(r), Moves(r, s, p)
  PROVE  /\ \A q \in Players : Prior(s, q) = Prior(r, q)
         /\ AbleToAct(s) \subseteq AbleToAct(r)
         /\ AbleToAct(r) \ {p} \subseteq AbleToAct(s)
         /\ InHand(r) \ {p} \subseteq InHand(s)
         /\ r.currentBet <= s.currentBet
         /\ Matched(r) => Matched(s)
<1>1. \A q \in Players : /\ r.total[q] \in Nat /\ r.street[q] \in Nat /\ r.stack[q] \in Nat
                         /\ s.total[q] \in Nat /\ s.street[q] \in Nat /\ s.stack[q] \in Nat
                         /\ r.currentBet \in Nat
  BY DEF RoundInv, RoundShape
<1>2. p \in Players /\ r.status[p] = "active"
  BY DEF AbleToAct
<1>3. /\ s.total[p] - s.street[p] = r.total[p] - r.street[p]
      /\ r.currentBet <= s.currentBet
  <2>1. CASE Folds(r, s, p)
    BY <1>1, <1>2, <2>1 DEF Folds
  <2>2. ASSUME NEW to \in Int, Commits(r, s, p, to)
        PROVE  /\ s.total[p] - s.street[p] = r.total[p] - r.street[p]
               /\ r.currentBet <= s.currentBet
    BY <1>1, <1>2, <2>2 DEF Commits, Larger
  <2> QED
    BY <2>1, <2>2 DEF Moves
<1>4. \A q \in Players : Prior(s, q) = Prior(r, q)
  BY <1>3 DEF Prior, Moves, Elsewhere
<1>5. AbleToAct(s) \subseteq AbleToAct(r) /\ AbleToAct(r) \ {p} \subseteq AbleToAct(s)
  BY DEF AbleToAct, Moves, Elsewhere
<1>6. InHand(r) \ {p} \subseteq InHand(s)
  BY DEF InHand, Moves, Elsewhere
<1>7. Matched(r) => Matched(s)
  <2> SUFFICES ASSUME Matched(r), NEW q \in AbleToAct(s)
               PROVE  Deepest(s, q)
    BY DEF Matched
  <2>1. Deepest(r, q) /\ q \in Players
    BY <1>5 DEF Matched, AbleToAct
  <2> QED
    BY <1>4, <2>1 DEF Deepest
<1> QED
  BY <1>3, <1>4, <1>5, <1>6, <1>7

(* Before anybody has answered the blinds, the big blind is never asked:   *)
(* who is left after all others alone with a matched bet has no turn.      *)
LEMMA BigBlindWaits ==
  ASSUME RoundInv(round), Seated(round), NEW s \in Players, NEW b \in Players,
         Blind(round, s, b), NEW p \in Players, HasTurn(p)
  PROVE  /\ p # b
         /\ \A q \in AbleToAct(round) \ {p} : round.turn[q] > round.turn[p]
<1>1. /\ p \in Owing(round) /\ ~SoleMatched(round)
      /\ \A q \in Owing(round) : Distance(round, p) <= Distance(round, q)
  BY ActorIsOwing
<1>2. \A q \in Players : round.turn[q] \in Nat /\ round.from \in Nat /\ Cardinality(Players) \in Nat
  BY PlayersAssumption, FS_CardinalityType DEF RoundInv, RoundShape
<1>3. AbleToAct(round) \subseteq Owing(round) /\ AbleToAct(round) \subseteq Players
  BY DEF Blind, Owing, AbleToAct
<1>4. \A q \in AbleToAct(round) : Distance(round, q) = round.turn[q] - round.from
  BY DEF Blind, Distance
<1>5. p \in AbleToAct(round)
  BY <1>1 DEF Owing
<1>6. \A q \in AbleToAct(round) \ {p} : round.turn[q] > round.turn[p]
  BY <1>1, <1>2, <1>3, <1>4, <1>5 DEF Seated
<1>7. ASSUME p = b
      PROVE  FALSE
  <2>1. \A q \in AbleToAct(round) \ {p} : FALSE
    BY <1>2, <1>3, <1>6, <1>7 DEF Blind, Seated
  <2>2. AbleToAct(round) = {p}
    BY <1>5, <2>1
  <2>3. round.street[p] = round.currentBet
    BY <1>5, <1>7 DEF Blind, AbleToAct
  <2>4. round.currentBet \in Nat
    BY DEF RoundInv, RoundShape
  <2> QED
    BY <1>1, <2>2, <2>3, <2>4 DEF SoleMatched
<1> QED
  BY <1>6, <1>7

(* A commitment that meets the bet makes its player the leader.            *)
LEMMA MeetingTheBetLeads ==
  ASSUME NEW r, RoundInv(r), Matched(r), NEW s, RoundInv(s), NEW p \in AbleToAct(r),
         Moves(r, s, p), NEW to \in Int, Commits(r, s, p, to), to >= r.currentBet
  PROVE  Leader(s)
<1>1. p \in Players /\ r.status[p] = "active" /\ r.currentBet \in Nat
  BY DEF AbleToAct, RoundInv, RoundShape
<1>2. s.currentBet = to /\ s.street[p] = to /\ s.lastActedAtBet[p] = to
  BY <1>1 DEF Commits, Larger
<1>3. s.lastActedAtBet[p] # NotActed
  BY <1>1, <1>2 DEF NotActed
<1>4. p \in InHand(s)
  <2>1. s.status[p] = "all-in" \/ s.status[p] = r.status[p]
    BY DEF Commits
  <2> QED
    BY <1>1, <2>1 DEF InHand
<1>5. Deepest(s, p)
  <2>1. Deepest(r, p) /\ \A q \in Players : Prior(s, q) = Prior(r, q)
    BY MovesKeep DEF Matched
  <2> QED
    BY <1>1, <2>1 DEF Deepest
<1> QED
  BY <1>2, <1>3, <1>4, <1>5 DEF Leader

(* A player who folds, or goes all-in for less, takes nothing from who     *)
(* leads.                                                                  *)
GivesWay(r, s, p) == s.currentBet = r.currentBet /\ p \notin AbleToAct(s)

(* Every action folds, meets the bet or is all-in below it; only the       *)
(* second takes the lead.                                                  *)
LEMMA OthersGiveWay ==
  ASSUME NEW r, RoundInv(r), NEW s, RoundInv(s), NEW p \in AbleToAct(r), Moves(r, s, p)
  PROVE  \/ Folds(r, s, p) /\ GivesWay(r, s, p)
         \/ \E to \in Int : /\ Commits(r, s, p, to) /\ r.street[p] <= to
                            /\ \/ to >= r.currentBet
                               \/ /\ to < r.currentBet /\ GivesWay(r, s, p)
                                  /\ s.status[p] = "all-in"
<1>1. /\ p \in Players /\ r.currentBet \in Nat /\ r.stack[p] \in Nat /\ r.street[p] \in Nat
  BY DEF AbleToAct, RoundInv, RoundShape
<1>2. CASE Folds(r, s, p)
  BY <1>2 DEF Folds, GivesWay, AbleToAct
<1>3. ASSUME NEW to \in Int, Commits(r, s, p, to), r.street[p] <= to, to <= AllInTo(r, p),
             to >= r.currentBet \/ to = AllInTo(r, p), ~(to >= r.currentBet)
      PROVE  GivesWay(r, s, p) /\ s.status[p] = "all-in"
  <2>1. r.stack[p] = to - r.street[p]
    BY <1>1, <1>3 DEF AllInTo
  <2>2. s.status[p] = "all-in" /\ s.currentBet = r.currentBet
    BY <1>1, <1>3, <2>1 DEF Commits, Larger
  <2> QED
    BY <2>2 DEF GivesWay, AbleToAct
<1> QED
  BY <1>1, <1>2, <1>3 DEF Moves

(* A round that is led stays led.                                          *)
LEMMA LeaderStays ==
  ASSUME RoundInv(round), Matched(round), Leader(round), NEW p \in Players, HasTurn(p),
         NEW s, RoundInv(s), Moves(round, s, p)
  PROVE  Leader(s)
<1>1. p \in Owing(round) /\ p \in AbleToAct(round)
  BY ActorIsOwing DEF Owing
<1>2. PICK x \in InHand(round) : /\ round.lastActedAtBet[x] # NotActed
                                 /\ round.street[x] = round.currentBet /\ Deepest(round, x)
  BY DEF Leader
<1>3. x # p /\ x \in Players
  <2>1. round.currentBet \in Nat
    BY DEF RoundInv, RoundShape
  <2> QED
    BY <1>1, <1>2, <2>1 DEF Owing, InHand
<1>4. CASE GivesWay(round, s, p)
  <2>1. s.lastActedAtBet[x] # NotActed /\ s.street[x] = s.currentBet /\ x \in InHand(s)
    BY <1>2, <1>3, <1>4 DEF Moves, Elsewhere, GivesWay, InHand
  <2>2. Deepest(s, x)
    <3>1. \A q \in Players : Prior(s, q) = Prior(round, q)
      BY <1>1, MovesKeep
    <3> QED
      BY <1>2, <1>3, <3>1 DEF Deepest
  <2> QED
    BY <2>1, <2>2 DEF Leader
<1> QED
  BY <1>1, <1>4, OthersGiveWay, MeetingTheBetLeads

(* A round waiting for the first answer to the blinds still waits, or      *)
(* somebody leads it.                                                      *)
LEMMA BlindStays ==
  ASSUME RoundInv(round), Seated(round), Matched(round),
         NEW f \in Players, NEW b \in Players, Blind(round, f, b),
         NEW p \in Players, HasTurn(p), NEW s, RoundInv(s), Moves(round, s, p)
  PROVE  Leader(s) \/ Blind(s, f, b)
<1>1. p \in AbleToAct(round) /\ p # b
  BY ActorIsOwing, BigBlindWaits DEF Owing
<1>2. /\ \A q \in AbleToAct(round) \ {p} : round.turn[q] > round.turn[p]
      /\ \A q \in Players : Prior(s, q) = Prior(round, q)
      /\ AbleToAct(s) \subseteq AbleToAct(round)
  BY <1>1, BigBlindWaits, MovesKeep
<1>3. \A q \in Players : /\ s.total[q] \in Nat /\ s.street[q] \in Nat
                         /\ round.total[q] \in Nat /\ round.street[q] \in Nat
  BY DEF RoundInv, RoundShape
<1>4. ASSUME GivesWay(round, s, p), s.total[p] = round.total[p] \/ s.status[p] = "all-in"
      PROVE  Blind(s, f, b)
  <2>1. \A q \in Players : s.street[q] = s.total[q]
    <3> SUFFICES ASSUME NEW q \in Players
                 PROVE  s.street[q] = s.total[q]
      OBVIOUS
    <3>1. round.street[q] = round.total[q]
      BY DEF Blind
    <3>2. s.total[q] - s.street[q] = round.total[q] - round.street[q]
      BY <1>2 DEF Prior
    <3> QED
      BY <1>3, <3>1, <3>2
  <2>2. /\ b \in InHand(s) /\ s.turn[b] = Cardinality(Players)
        /\ s.status[b] = "active" => s.street[b] = s.currentBet
    BY <1>1, <1>4 DEF Blind, Moves, Elsewhere, InHand, GivesWay
  <2>3. ASSUME NEW q \in Players \ {f, b}, s.status[q] # "all-in"
        PROVE  s.total[q] = 0
    <3>1. CASE q = p
      <4>1. round.status[p] = "active"
        BY <1>1 DEF AbleToAct
      <4> QED
        BY <1>4, <2>3, <3>1, <4>1 DEF Blind
    <3>2. CASE q # p
      BY <2>3, <3>2 DEF Blind, Moves, Elsewhere
    <3> QED
      BY <3>1, <3>2
  <2>4. ASSUME NEW q \in AbleToAct(s)
        PROVE  s.lastActedAtBet[q] = NotActed /\ s.turn[q] > s.from
    <3>1. q \in AbleToAct(round) /\ q # p /\ q \in Players
      BY <1>2, <1>4 DEF GivesWay, AbleToAct
    <3> QED
      BY <1>2, <3>1 DEF Blind, Moves, Elsewhere
  <2> QED
    BY <2>1, <2>2, <2>3, <2>4 DEF Blind
<1>5. Folds(round, s, p) => s.total[p] = round.total[p]
  BY DEF Folds
<1> QED
  BY <1>1, <1>4, <1>5, OthersGiveWay, MeetingTheBetLeads

(* A street nobody has bet on stays one with somebody who can bet, or      *)
(* somebody leads it.                                                      *)
LEMMA UnbetStays ==
  ASSUME RoundInv(round), Matched(round), Unbet(round), NEW p \in Players, HasTurn(p),
         NEW s, RoundInv(s), Moves(round, s, p)
  PROVE  Leader(s) \/ (Unbet(s) /\ AbleToAct(s) # {})
<1>1. p \in AbleToAct(round) /\ ~SoleMatched(round)
  BY ActorIsOwing DEF Owing
<1>2. \A q \in Players : round.street[q] \in Nat /\ round.street[q] = 0 /\ round.currentBet = 0
  BY DEF Unbet
<1>3. CASE Folds(round, s, p) /\ GivesWay(round, s, p)
  <2>1. AbleToAct(round) # {p}
    BY <1>1, <1>2 DEF SoleMatched
  <2>2. PICK q \in AbleToAct(round) : q # p
    BY <1>1, <2>1
  <2>3. AbleToAct(s) \subseteq AbleToAct(round) /\ q \in AbleToAct(s)
    BY <1>1, <2>2, MovesKeep
  <2>4. s.currentBet = 0 /\ \A o \in Players : s.street[o] = 0
    BY <1>2, <1>3 DEF GivesWay, Folds, Moves, Elsewhere
  <2>5. ASSUME NEW o \in AbleToAct(s)
        PROVE  s.lastActedAtBet[o] = NotActed
    <3>1. o \in AbleToAct(round) /\ o # p /\ o \in Players
      BY <1>3, <2>3 DEF GivesWay, AbleToAct
    <3> QED
      BY <3>1 DEF Unbet, Moves, Elsewhere
  <2> QED
    BY <2>3, <2>4, <2>5 DEF Unbet
<1>4. ASSUME NEW to \in Int, Commits(round, s, p, to), round.street[p] <= to
      PROVE  Leader(s)
  BY <1>1, <1>2, <1>4, MeetingTheBetLeads
<1> QED
  BY <1>1, <1>3, <1>4, OthersGiveWay

(* Every action keeps the stakes.                                          *)
LEMMA ActKeepsStakes ==
  ASSUME RoundInv(round), Seated(round), Stakes(round), NEW p \in Players, Act(p)
  PROVE  Stakes(round') /\ Seated(round')
<1>1. Moves(round, round', p) /\ HasTurn(p) /\ RoundInv(round')
  BY ActMoves
<1>2. p \in AbleToAct(round)
  BY <1>1, ActorIsOwing DEF Owing
<1>3. Matched(round')
  BY <1>1, <1>2, MovesKeep DEF Stakes
<1>4. \/ Leader(round') \/ (Unbet(round') /\ AbleToAct(round') # {})
      \/ \E f, b \in Players : Blind(round', f, b)
  <2>1. CASE Leader(round)
    BY <1>1, <2>1, LeaderStays DEF Stakes
  <2>2. CASE Unbet(round)
    BY <1>1, <2>2, UnbetStays DEF Stakes
  <2>3. ASSUME NEW f \in Players, NEW b \in Players, Blind(round, f, b)
        PROVE  Leader(round') \/ Blind(round', f, b)
    BY <1>1, <2>3, BlindStays DEF Stakes
  <2> QED
    BY <2>1, <2>2, <2>3 DEF Stakes, Standing
<1>5. Backed(round') /\ Standing(round')
  BY <1>1, <1>3, <1>4, StandingBacks DEF Standing
<1>6. Seated(round')
  BY <1>1 DEF Seated, Moves, Elsewhere
<1> QED
  BY <1>3, <1>4, <1>5, <1>6 DEF Stakes

(* Two members make a cardinality of two.                                  *)
LEMMA OneAtMost ==
  ASSUME NEW S, IsFiniteSet(S), Cardinality(S) <= 1, NEW x \in S, NEW y \in S
  PROVE  x = y
<1> SUFFICES ASSUME x # y PROVE FALSE
  OBVIOUS
<1>1. Cardinality({x}) = 1 /\ IsFiniteSet({x})
  BY FS_Singleton
<1>2. {x} \subseteq S /\ {x} # S
  OBVIOUS
<1>3. Cardinality(S) \in Nat /\ Cardinality({x}) < Cardinality(S)
  BY <1>2, FS_Subset, FS_CardinalityType
<1> QED
  BY <1>1, <1>3

(* In a round that is over whoever still has chips has paid the most: he   *)
(* has matched the bet, or he is the only one left.                        *)
LEMMA ClosedIsDeep ==
  ASSUME NEW r, RoundInv(r), Stakes(r), r.complete, NEW p \in Players, r.status[p] = "active",
         NEW q \in Players
  PROVE  r.total[q] <= r.total[p]
<1>1. \A o \in Players : /\ r.total[o] \in Nat /\ r.street[o] \in Nat
                         /\ r.currentBet \in Nat /\ r.street[o] <= r.currentBet
  BY DEF RoundInv, RoundShape, Ledger
<1>2. p \in AbleToAct(r) /\ p \in InHand(r) /\ Prior(r, q) <= Prior(r, p)
  BY DEF RoundInv, Ledger, AbleToAct, InHand, Stakes, Matched, Deepest
<1>3. CASE r.street[p] >= r.currentBet
  BY <1>1, <1>2, <1>3 DEF Prior
<1>4. CASE Cardinality(InHand(r)) <= 1
  <2>1. \A x \in InHand(r) : x = p
    <3>1. IsFiniteSet(InHand(r))
      BY PlayersAssumption, FS_Subset DEF InHand
    <3> QED
      BY <1>2, <1>4, <3>1, OneAtMost
  <2>2. CASE Leader(r)
    BY <1>1, <1>3, <2>1, <2>2 DEF Leader
  <2>3. CASE Unbet(r)
    BY <1>1, <1>3, <2>3 DEF Unbet
  <2>4. ASSUME NEW s \in Players, NEW b \in Players, Blind(r, s, b)
        PROVE  r.total[q] <= r.total[p]
    BY <1>1, <1>3, <2>1, <2>4 DEF Blind
  <2> QED
    BY <2>2, <2>3, <2>4 DEF Stakes, Standing
<1>5. CASE ~(Cardinality(InHand(r)) <= 1)
  <2>1. SoleMatched(r) \/ Owing(r) = {}
    BY <1>5 DEF RoundInv, Settled
  <2>2. CASE SoleMatched(r)
    BY <1>2, <1>3, <2>2 DEF SoleMatched
  <2>3. CASE Owing(r) = {}
    BY <1>1, <1>2, <1>3, <2>3 DEF Owing
  <2> QED
    BY <2>1, <2>2, <2>3
<1> QED
  BY <1>4, <1>5

(* A hand begins with the blinds: the others have paid nothing, the big    *)
(* blind is last to speak, and has posted in full if he has chips left.    *)
LEMMA BlindsOpen ==
  ASSUME NEW e, ValidEntry(e), e.street = e.total,
         NEW s \in Players, NEW b \in Players, s # b,
         e.status[b] # "folded", e.turn[b] = Cardinality(Players),
         e.stack[b] > 0 => e.street[b] = e.nominalOpeningBet,
         \A p \in Players : e.street[p] <= e.nominalOpeningBet,
         \A p \in Players \ {s, b} : e.total[p] = 0
  PROVE  Stakes(CreateBettingRound(e)) /\ Seated(CreateBettingRound(e))
<1> DEFINE r == CreateBettingRound(e)
<1>1. /\ r.stack = e.stack /\ r.street = e.street /\ r.total = e.total /\ r.turn = e.turn
      /\ r.from = 0
      /\ r.status = [p \in Players |-> IF e.stack[p] = 0 /\ e.status[p] = "active"
                                       THEN "all-in" ELSE e.status[p]]
      /\ \A p \in Players : r.lastActedAtBet[p] = NotActed
  BY CreateFields
<1>2. RoundInv(r)
  BY CreateKeeps
<1>3. r.currentBet = e.nominalOpeningBet
  <2>1. /\ r.currentBet \in Nat /\ e.nominalOpeningBet <= r.currentBet
        /\ r.currentBet = e.nominalOpeningBet \/ \E p \in Players : r.currentBet = e.street[p]
    BY OpeningBetIsOne
  <2>2. e.nominalOpeningBet \in Nat
    BY DEF ValidEntry, EntryShape
  <2> HIDE DEF r
  <2> QED
    BY <2>1, <2>2
<1>4. \A p \in Players : /\ e.street[p] \in Nat /\ e.turn[p] \in Nat \ {0}
                         /\ e.turn[p] <= Cardinality(Players)
  BY DEF ValidEntry, EntryShape
<1> HIDE DEF r
<1>5. Blind(r, s, b)
  <2>1. \A p \in Players : r.street[p] = r.total[p]
    BY <1>1
  <2>2. b \in InHand(r) /\ r.turn[b] = Cardinality(Players)
    BY <1>1 DEF InHand
  <2>3. r.status[b] = "active" => r.street[b] = r.currentBet
    <3>1. r.status[b] = "active" => r.stack[b] > 0
      BY <1>2 DEF RoundInv, Ledger
    <3> QED
      BY <1>1, <1>3, <3>1
  <2>4. \A p \in AbleToAct(r) : r.lastActedAtBet[p] = NotActed /\ r.turn[p] > r.from
    BY <1>1, <1>4 DEF AbleToAct
  <2> QED
    BY <1>1, <2>1, <2>2, <2>3, <2>4 DEF Blind
<1>6. Matched(r)
  BY <1>1, <1>4 DEF Matched, Deepest, Prior, AbleToAct
<1>7. Backed(r) /\ Standing(r)
  BY <1>2, <1>5, <1>6, StandingBacks DEF Standing
<1>8. Seated(r)
  <2>1. Cardinality(Players) \in Nat
    BY PlayersAssumption, FS_CardinalityType
  <2> QED
    BY <1>1, <2>1 DEF Seated, ValidEntry
<1> QED
  BY <1>6, <1>7, <1>8 DEF Stakes, r

(* The next street opens with what the last one left.                      *)
LEMMA StreetOpens ==
  ASSUME NEW r, RoundInv(r), Stakes(r), r.complete,
         NEW e, ValidEntry(e), e.stack = r.stack, e.total = r.total, e.status = r.status,
         \A p \in Players : e.street[p] = 0, e.nominalOpeningBet = 0
  PROVE  Stakes(CreateBettingRound(e)) /\ Seated(CreateBettingRound(e))
<1> DEFINE n == CreateBettingRound(e)
<1>1. /\ n.stack = e.stack /\ n.street = e.street /\ n.total = e.total /\ n.turn = e.turn
      /\ n.from = 0
      /\ n.status = [p \in Players |-> IF e.stack[p] = 0 /\ e.status[p] = "active"
                                       THEN "all-in" ELSE e.status[p]]
      /\ \A p \in Players : n.lastActedAtBet[p] = NotActed
  BY CreateFields
<1>2. n.currentBet = 0
  <2>1. n.currentBet = e.nominalOpeningBet \/ \E p \in Players : n.currentBet = e.street[p]
    BY OpeningBetIsOne
  <2> HIDE DEF n
  <2> QED
    BY <2>1
<1> HIDE DEF n
<1>3. \A p \in Players : /\ r.total[p] \in Nat /\ n.street[p] = 0 /\ n.total[p] = r.total[p]
                         /\ n.status[p] = r.status[p]
  <2>1. \A p \in Players : r.status[p] = "active" => r.stack[p] # 0
    BY DEF RoundInv, RoundShape, Ledger
  <2>2. \A p \in Players : r.total[p] \in Nat
    BY DEF RoundInv, RoundShape
  <2> QED
    BY <1>1, <2>1, <2>2
<1>4. Matched(n)
  <2> SUFFICES ASSUME NEW p \in AbleToAct(n), NEW q \in Players
               PROVE  Prior(n, q) <= Prior(n, p)
    BY DEF Matched, Deepest
  <2>1. p \in Players /\ r.status[p] = "active"
    BY <1>3 DEF AbleToAct
  <2>2. r.total[q] <= r.total[p]
    BY <2>1, ClosedIsDeep
  <2> QED
    BY <1>3, <2>1, <2>2 DEF Prior
<1>5. Unbet(n)
  BY <1>1, <1>2, <1>3 DEF Unbet, AbleToAct
<1>6. Backed(n)
  <2>1. InHand(n) = InHand(r)
    BY <1>3 DEF InHand
  <2>2. InHand(r) \subseteq Players
    BY DEF InHand
  <2> QED
    BY <1>3, <2>1, <2>2 DEF Backed, Stakes
<1>7. Seated(n)
  <2>1. Cardinality(Players) \in Nat
    BY PlayersAssumption, FS_CardinalityType
  <2> QED
    BY <1>1, <2>1 DEF Seated, ValidEntry
<1> QED
  BY <1>4, <1>5, <1>6, <1>7 DEF Stakes, Standing, n

(* What an action leaves to the table: every chip a player puts in goes    *)
(* from his stack to this street's pile; nobody who folded comes back.     *)
Pays(r, s, p) ==
  /\ \A q \in Players : /\ s.stack[q] + s.total[q] = r.stack[q] + r.total[q]
                        /\ s.total[q] - s.street[q] = r.total[q] - r.street[q]
                        /\ r.status[q] = "folded" => s.status[q] = "folded"
  /\ s.currentBet >= r.currentBet /\ s.from = r.turn[p] /\ s.from # 0

(* Every action pays that way, and only for its own player.                *)
LEMMA ActPays ==
  ASSUME RoundInv(round), NEW p \in Players, Act(p)
  PROVE  Pays(round, round', p)
<1>1. Moves(round, round', p) /\ HasTurn(p) /\ RoundInv(round')
  BY ActMoves
<1>2. p \in AbleToAct(round)
  BY <1>1, ActorIsOwing DEF Owing
<1>3. round \in RoundShape
  BY DEF RoundInv
<1>4. /\ round.currentBet \in Nat /\ round.turn[p] \in Nat \ {0}
      /\ \A q \in Players : /\ round.stack[q] \in Nat /\ round.street[q] \in Nat
                            /\ round.total[q] \in Nat
  BY <1>3 DEF RoundShape
<1>5. Elsewhere(round, round', p)
  BY <1>1 DEF Moves
<1>6. round'.from = round.turn[p] /\ round'.from # 0
  BY <1>4, <1>5 DEF Elsewhere
<1>7. ASSUME NEW q \in Players \ {p}
      PROVE  /\ round'.stack[q] + round'.total[q] = round.stack[q] + round.total[q]
             /\ round'.total[q] - round'.street[q] = round.total[q] - round.street[q]
             /\ round.status[q] = "folded" => round'.status[q] = "folded"
  BY <1>5 DEF Elsewhere
<1>8. CASE Folds(round, round', p)
  BY <1>4, <1>6, <1>7, <1>8 DEF Folds, Pays
<1>9. ASSUME NEW to \in Int, Commits(round, round', p, to)
      PROVE  Pays(round, round', p)
  <2>1. /\ round'.stack[p] + round'.total[p] = round.stack[p] + round.total[p]
        /\ round'.total[p] - round'.street[p] = round.total[p] - round.street[p]
    BY <1>4, <1>9 DEF Commits
  <2>2. round.status[p] # "folded"
    BY <1>2 DEF AbleToAct
  <2>3. round'.currentBet >= round.currentBet
    BY <1>4, <1>9 DEF Commits, Larger
  <2> QED
    BY <2>1, <2>2, <2>3, <1>6, <1>7 DEF Pays
<1> QED
  BY <1>1, <1>8, <1>9 DEF Moves
=============================================================================
