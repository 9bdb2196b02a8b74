--------------------------- MODULE HandEndProofs ----------------------------
(***************************************************************************)
(* The end of a hand, for every table, ledger and field.                   *)
(*                                                                         *)
(*  - Placings: the places of a tournament follow its play.                *)
(*  - Sums: FoldFunctionOnSet adds up.  Its recursion is over the subsets  *)
(*    of a finite set, and so is every induction here: the set of those    *)
(*    subsets that have a property takes the property's place.             *)
(*  - Pots: buildPots peels a ledger into layers (the invariant of its     *)
(*    loop is LayersTo), and awards pay out all of them.                   *)
(*  - Hands: the best of the fives evaluateBestHand picks from is the hand *)
(*    the rules give all the cards.  EvaluateFive is the rule book on five *)
(*    (FiveByTheRules); more cards are never worth less (NotBetter); some  *)
(*    five are worth all of them (AttainedIs); and values of which neither *)
(*    beats the other are the same (UnbeatenIsEqual).                      *)
(***************************************************************************)
EXTENDS HandEnd, FiniteSetTheorems, SequenceTheorems, WellFoundedInduction, TLAPS

-----------------------------------------------------------------------------
(* Placings.                                                               *)
Batches ==
  UNION {[started : [busted -> 1..MaxStart], hand : [busted -> 1..MaxHands]] :
           busted \in SUBSET Players}

(* An integer-valued function on a finite, non-empty set has a least value.*)
LEMMA FiniteArgMin ==
  ASSUME NEW S, IsFiniteSet(S), S # {}, NEW f \in [S -> Int]
  PROVE  \E x \in S : \A y \in S : f[x] <= f[y]
<1> DEFINE Under(x) == {y \in S : f[y] < f[x]}
           F == {Under(x) : x \in S}
<1>1. IsWellFoundedOn(StrictSubsetOrdering(S), SUBSET S)
  BY FS_StrictSubsetOrderingWellFounded, FS_FiniteSubsetsOfFinite
<1>2. F \subseteq SUBSET S /\ F # {}
  <2>1. \A x \in S : Under(x) \in SUBSET S
    OBVIOUS
  <2> HIDE DEF Under
  <2> QED
    BY <2>1
<1> HIDE DEF F
<1>3. PICK U \in F : \A V \in F : <<V, U>> \notin StrictSubsetOrdering(S)
  BY <1>1, <1>2, WFMin
<1>4. PICK x \in S : U = Under(x)
  BY <1>3 DEF F
<1>5. ASSUME NEW y \in S, f[y] < f[x]
      PROVE  FALSE
  <2>1. Under(y) \in F
    BY DEF F
  <2>2. y \in Under(x) /\ y \notin Under(y)
    BY <1>5
  <2>3. Under(y) \subseteq Under(x)
    <3> SUFFICES ASSUME NEW z \in S, f[z] < f[y]
                 PROVE  f[z] < f[x]
      OBVIOUS
    <3> f[x] \in Int /\ f[y] \in Int /\ f[z] \in Int
      OBVIOUS
    <3> QED
      BY <1>5
  <2>4. <<Under(y), U>> \in StrictSubsetOrdering(S)
    BY <2>2, <2>3, <1>4 DEF StrictSubsetOrdering
  <2> QED
    BY <2>1, <2>4, <1>3
<1> QED
  BY <1>5

-----------------------------------------------------------------------------
(* The parts of a batch.                                                   *)
LEMMA BatchParts ==
  ASSUME NEW batch \in Batches
  PROVE  /\ DOMAIN batch.started \in SUBSET Players
         /\ DOMAIN batch.hand = DOMAIN batch.started
         /\ \A p \in DOMAIN batch.started :
              p \in Int /\ batch.started[p] \in Nat /\ batch.hand[p] \in Nat
         /\ IsFiniteSet(DOMAIN batch.started)
         /\ Cardinality(DOMAIN batch.started) \in Nat
<1>1. PICK busted \in SUBSET Players :
        batch \in [started : [busted -> 1..MaxStart], hand : [busted -> 1..MaxHands]]
  BY DEF Batches
<1>2. DOMAIN batch.started = busted /\ DOMAIN batch.hand = busted
  BY <1>1
<1>3. IsFiniteSet(busted) /\ Cardinality(busted) \in Nat
  BY FieldAssumption, FS_Subset, FS_CardinalityType
<1> QED
  BY <1>1, <1>2, <1>3, FieldAssumption, BatchAssumption

(* Sorting orders a batch strictly and totally.                            *)
LEMMA AheadOrder ==
  ASSUME NEW batch \in Batches,
         NEW p \in DOMAIN batch.started, NEW q \in DOMAIN batch.started
  PROVE  /\ Ahead(batch, p) \subseteq DOMAIN batch.started \ {p}
         /\ p \in Ahead(batch, q) => q \notin Ahead(batch, p)
         /\ p \in Ahead(batch, q) => Ahead(batch, p) \subseteq Ahead(batch, q)
         /\ p # q => p \in Ahead(batch, q) \/ q \in Ahead(batch, p)
<1>1. \A o \in DOMAIN batch.started :
        o \in Int /\ batch.started[o] \in Nat /\ batch.hand[o] \in Nat
  BY BatchParts
<1>2. CASE SameHand(batch)
  BY <1>1, <1>2 DEF Ahead
<1>3. CASE ~SameHand(batch)
  BY <1>1, <1>3 DEF Ahead
<1> QED
  BY <1>2, <1>3

(* How many are ahead is less than the batch, and grows with every one.    *)
LEMMA AheadCount ==
  ASSUME NEW batch \in Batches, NEW p \in DOMAIN batch.started
  PROVE  /\ Cardinality(Ahead(batch, p)) \in Nat
         /\ Cardinality(Ahead(batch, p)) < Cardinality(DOMAIN batch.started)
         /\ \A q \in Ahead(batch, p) :
              /\ Cardinality(Ahead(batch, q)) \in Nat
              /\ Cardinality(Ahead(batch, q)) < Cardinality(Ahead(batch, p))
<1> DEFINE D == DOMAIN batch.started
<1>1. IsFiniteSet(D) /\ Cardinality(D) \in Nat
  BY BatchParts
<1>2. ASSUME NEW q \in D
      PROVE  IsFiniteSet(Ahead(batch, q)) /\ Cardinality(Ahead(batch, q)) \in Nat
  BY <1>1, AheadOrder, FS_Subset, FS_CardinalityType
<1>3. Cardinality(Ahead(batch, p)) < Cardinality(D)
  <2>1. Ahead(batch, p) \in SUBSET D /\ Ahead(batch, p) # D
    BY AheadOrder
  <2> HIDE DEF D
  <2> QED
    BY <1>1, <1>2, <2>1, FS_Subset DEF D
<1>4. ASSUME NEW q \in Ahead(batch, p)
      PROVE  Cardinality(Ahead(batch, q)) < Cardinality(Ahead(batch, p))
  <2>1. q \in D /\ Ahead(batch, q) \in SUBSET Ahead(batch, p)
    BY AheadOrder
  <2>2. Ahead(batch, q) # Ahead(batch, p)
    BY <2>1, AheadOrder
  <2> QED
    BY <1>2, <2>1, <2>2, FS_Subset
<1>5. Ahead(batch, p) \subseteq D
  BY AheadOrder
<1> QED
  BY <1>2, <1>3, <1>4, <1>5

-----------------------------------------------------------------------------
(* The first twin is one of the twins, and the first in the player list.   *)
LEMMA FirstTwinIsTwin ==
  ASSUME NEW batch \in Batches, NEW order \in Seatings,
         NEW p \in DOMAIN batch.started, Twins(batch, p) # {}
  PROVE  /\ FirstTwin(batch, order, p) \in Twins(batch, p)
         /\ \A o \in Twins(batch, p) : order[FirstTwin(batch, order, p)] <= order[o]
<1>1. Twins(batch, p) \in SUBSET DOMAIN batch.started
  BY DEF Twins
<1>2. IsFiniteSet(Twins(batch, p)) /\ Twins(batch, p) \subseteq Players
  BY <1>1, BatchParts, FS_Subset
<1>3. order \in [Players -> Nat]
  BY ListAssumption
<1> DEFINE f == [o \in Twins(batch, p) |-> order[o]]
<1>4. f \in [Twins(batch, p) -> Int]
  BY <1>2, <1>3
<1> HIDE DEF f
<1>5. PICK q \in Twins(batch, p) : \A o \in Twins(batch, p) : f[q] <= f[o]
  BY <1>2, <1>4, FiniteArgMin
<1>6. \A o \in Twins(batch, p) : order[q] <= order[o]
  BY <1>5 DEF f
<1> QED
  BY <1>6 DEF FirstTwin

(* p takes the place of its first twin.                                    *)
TakesTwins(batch, order, p) ==
  Twins(batch, p) # {} /\ FirstTwin(batch, order, p) \in Ahead(batch, p)

(* A chain of first twins that have a place already is short: the first of *)
(* a stack may wait for the second, who then waits for nobody.             *)
LEMMA TwinsStop ==
  ASSUME NEW batch \in Batches, NEW order \in Seatings,
         NEW p \in DOMAIN batch.started, TakesTwins(batch, order, p),
         NEW t, t = FirstTwin(batch, order, p), TakesTwins(batch, order, t),
         NEW u, u = FirstTwin(batch, order, t)
  PROVE  ~TakesTwins(batch, order, u)
<1> DEFINE D == DOMAIN batch.started
<1>1. t \in Twins(batch, p) /\ \A o \in Twins(batch, p) : order[t] <= order[o]
  BY FirstTwinIsTwin DEF TakesTwins
<1>2. t \in D
  BY <1>1 DEF Twins
<1>3. u \in Twins(batch, t) /\ \A o \in Twins(batch, t) : order[u] <= order[o]
  BY <1>2, FirstTwinIsTwin DEF TakesTwins
<1>4. u \in D
  BY <1>3 DEF Twins
<1>5. t \in Ahead(batch, p) /\ u \in Ahead(batch, t)
  BY DEF TakesTwins
<1>6. u # p
  BY <1>2, <1>4, <1>5, AheadOrder
<1>7. /\ t # p /\ u # t /\ batch.started[t] = batch.started[p]
      /\ batch.started[u] = batch.started[t]
  BY <1>1, <1>3 DEF Twins
<1>8. t \in Twins(batch, u) /\ p \in Twins(batch, t) /\ u \in Twins(batch, p)
  BY <1>2, <1>4, <1>6, <1>7 DEF Twins
<1>9. order \in [Players -> Nat] /\ \A a, b \in Players : order[a] = order[b] => a = b
  BY ListAssumption
<1>10. ASSUME NEW o \in Twins(batch, u)
       PROVE  order[t] <= order[o]
  <2>1. CASE o = p
    <3>1. order[t] <= order[u] /\ order[u] <= order[p]
      BY <1>1, <1>3, <1>8
    <3>2. t \in Players /\ u \in Players /\ p \in Players
      BY <1>2, <1>4, BatchParts
    <3> QED
      BY <2>1, <3>1, <3>2, <1>9
  <2>2. CASE o # p
    <3>1. o \in Twins(batch, p)
      BY <2>2, <1>7 DEF Twins
    <3> QED
      BY <3>1, <1>1
  <2> QED
    BY <2>1, <2>2
<1>11. FirstTwin(batch, order, u) = t
  <2>1. FirstTwin(batch, order, u) \in Twins(batch, u)
        /\ \A o \in Twins(batch, u) : order[FirstTwin(batch, order, u)] <= order[o]
    BY <1>4, <1>8, FirstTwinIsTwin
  <2> DEFINE v == FirstTwin(batch, order, u)
  <2>2. v \in D
    BY <2>1 DEF Twins
  <2> HIDE DEF v
  <2>3. order[v] <= order[t] /\ order[t] <= order[v]
    BY <2>1, <1>8, <1>10 DEF v
  <2>4. v \in Players /\ t \in Players
    BY <2>2, <1>2, BatchParts
  <2> QED
    BY <2>3, <2>4, <1>9 DEF v
<1>12. t \notin Ahead(batch, u)
  BY <1>2, <1>4, <1>5, AheadOrder
<1> QED
  BY <1>11, <1>12 DEF TakesTwins

-----------------------------------------------------------------------------
(* The recursion of PlacesInHand has a solution, and what it computes is   *)
(* one of them.                                                            *)
LEMMA PlacesRecur ==
  ASSUME NEW batch \in Batches, NEW order \in Seatings, NEW active
  PROVE  /\ DOMAIN PlacesInHand(batch, order, active) = DOMAIN batch.started
         /\ \A p \in DOMAIN batch.started :
              PlacesInHand(batch, order, active)[p] =
                IF TakesTwins(batch, order, p)
                THEN PlacesInHand(batch, order, active)[FirstTwin(batch, order, p)]
                ELSE BestPlace(batch, active) + Cardinality(Ahead(batch, p))
<1> DEFINE D == DOMAIN batch.started
           Own(p) == BestPlace(batch, active) + Cardinality(Ahead(batch, p))
           First(p) == FirstTwin(batch, order, p)
           Takes(p) == TakesTwins(batch, order, p)
           Source(p) == IF Takes(p) THEN First(p) ELSE p
           g == [p \in D |-> Own(Source(Source(p)))]
           Solves(f) == f = [p \in D |-> IF Takes(p) THEN f[First(p)] ELSE Own(p)]
<1>1. ASSUME NEW p \in D, Takes(p)
      PROVE  First(p) \in D /\ Source(Source(First(p))) = Source(First(p))
  <2>1. First(p) \in D
    BY <1>1, FirstTwinIsTwin DEF TakesTwins, Twins
  <2>2. Takes(First(p)) => ~Takes(First(First(p)))
    BY <1>1, TwinsStop
  <2> HIDE DEF Takes, First
  <2> QED
    BY <2>1, <2>2
<1>2. Solves(g)
  <2>1. ASSUME NEW p \in D
        PROVE  g[p] = IF Takes(p) THEN g[First(p)] ELSE Own(p)
    <3> HIDE DEF Takes, First, Own, D
    <3> QED
      BY <1>1
  <2> HIDE DEF Takes, First, Own, D
  <2>2. g = [p \in D |-> g[p]]
    OBVIOUS
  <2> HIDE DEF g
  <2> QED
    BY <2>1, <2>2
<1>3. PlacesInHand(batch, order, active) = CHOOSE f : Solves(f)
  BY DEF PlacesInHand, TakesTwins
<1>4. Solves(PlacesInHand(batch, order, active))
  <2> HIDE DEF Solves, g
  <2> QED
    BY <1>2, <1>3
<1> DEFINE h == PlacesInHand(batch, order, active)
<1> HIDE DEF h
<1>5. h = [p \in D |-> IF Takes(p) THEN h[First(p)] ELSE Own(p)]
  BY <1>4 DEF h
<1> QED
  BY <1>5 DEF h

(* Everybody's place in a hand is that of his own rank in the batch, or of *)
(* a twin's.                                                               *)
LEMMA PlaceIsOwn ==
  ASSUME NEW batch \in Batches, NEW order \in Seatings, NEW active,
         NEW p \in DOMAIN batch.started
  PROVE  \E s \in DOMAIN batch.started :
           /\ batch.started[s] = batch.started[p]
           /\ PlacesInHand(batch, order, active)[p]
                = BestPlace(batch, active) + Cardinality(Ahead(batch, s))
<1> DEFINE D == DOMAIN batch.started
           h == PlacesInHand(batch, order, active)
           First(q) == FirstTwin(batch, order, q)
           Takes(q) == TakesTwins(batch, order, q)
           Own(q) == BestPlace(batch, active) + Cardinality(Ahead(batch, q))
<1>1. \A q \in D : h[q] = IF Takes(q) THEN h[First(q)] ELSE Own(q)
  BY PlacesRecur
<1>2. \A q \in D : Takes(q) => First(q) \in D /\ batch.started[First(q)] = batch.started[q]
  BY FirstTwinIsTwin DEF TakesTwins, Twins
<1>3. Takes(p) /\ Takes(First(p)) => ~Takes(First(First(p)))
  BY TwinsStop
<1> SUFFICES \E s \in D : batch.started[s] = batch.started[p] /\ h[p] = Own(s)
  OBVIOUS
<1> HIDE DEF h, First, Takes, Own
<1> QED
  BY <1>1, <1>2, <1>3

(* The places of a batch are the best it can take and those behind, up to  *)
(* the number of players who were active.                                  *)
LEMMA PlacesBounded ==
  ASSUME NEW batch \in Batches, NEW order \in Seatings, NEW active \in Nat,
         NEW synchronized \in BOOLEAN
  PROVE  /\ DOMAIN PlacesOf(batch, order, active, synchronized) = DOMAIN batch.started
         /\ \A p \in DOMAIN batch.started :
              /\ PlacesOf(batch, order, active, synchronized)[p] \in Int
              /\ BestPlace(batch, active) <= PlacesOf(batch, order, active, synchronized)[p]
              /\ PlacesOf(batch, order, active, synchronized)[p] <= active
<1> DEFINE D == DOMAIN batch.started
           given == PlacesOf(batch, order, active, synchronized)
           lead == BestPlace(batch, active)
           ahead(p) == Cardinality(Ahead(batch, p))
<1>1. Cardinality(D) \in Nat
  BY BatchParts
<1>2. lead = active - Cardinality(D) + 1
  BY DEF BestPlace
<1>3. \A p \in D : ahead(p) \in Nat /\ ahead(p) < Cardinality(D)
  BY AheadCount
<1>4. CASE SameHand(batch)
  <2>1. given = PlacesInHand(batch, order, active)
    BY <1>4 DEF PlacesOf
  <2>2. DOMAIN given = D
    BY <2>1, PlacesRecur
  <2>3. ASSUME NEW p \in D
        PROVE  \E s \in D : given[p] = lead + ahead(s)
    BY <2>1, PlaceIsOwn
  <2> SUFFICES ASSUME NEW p \in D
               PROVE  given[p] \in Int /\ lead <= given[p] /\ given[p] <= active
    BY <2>2
  <2>4. PICK s \in D : given[p] = lead + ahead(s)
    BY <2>3
  <2> HIDE DEF given, lead, ahead, D
  <2> QED
    BY <2>4, <1>1, <1>2, <1>3
<1>5. CASE ~SameHand(batch) /\ synchronized
  <2>1. given = [p \in D |-> lead]
    BY <1>5 DEF PlacesOf
  <2>2. \A p \in D : Cardinality(D) > 0
    <3> SUFFICES ASSUME NEW p \in D PROVE Cardinality(D) > 0
      OBVIOUS
    <3> HIDE DEF D, ahead
    <3> QED
      BY <1>1, <1>3
  <2> HIDE DEF given, lead, D
  <2> QED
    BY <2>1, <2>2, <1>1, <1>2 DEF given, lead, D
<1>6. CASE ~SameHand(batch) /\ ~synchronized
  <2>1. given = [p \in D |-> lead + ahead(p)]
    BY <1>6 DEF PlacesOf
  <2>2. \A p \in D : lead + ahead(p) \in Int /\ lead <= lead + ahead(p) /\ lead + ahead(p) <= active
    <3> HIDE DEF lead, ahead, D
    <3> QED
      BY <1>1, <1>2, <1>3
  <2> QED
    BY <2>1, <2>2
<1> QED
  BY <1>4, <1>5, <1>6

(* In one hand the deeper stack finishes ahead.                            *)
LEMMA DeeperFinishesAhead ==
  ASSUME NEW batch \in Batches, NEW order \in Seatings, NEW active \in Nat,
         SameHand(batch),
         NEW p \in DOMAIN batch.started, NEW q \in DOMAIN batch.started,
         batch.started[p] > batch.started[q]
  PROVE  PlacesInHand(batch, order, active)[p] < PlacesInHand(batch, order, active)[q]
<1> DEFINE D == DOMAIN batch.started
           h == PlacesInHand(batch, order, active)
           lead == BestPlace(batch, active)
<1>1. PICK s \in D : batch.started[s] = batch.started[p]
                     /\ h[p] = lead + Cardinality(Ahead(batch, s))
  BY PlaceIsOwn
<1>2. PICK t \in D : batch.started[t] = batch.started[q]
                     /\ h[q] = lead + Cardinality(Ahead(batch, t))
  BY PlaceIsOwn
<1>3. s \in Ahead(batch, t)
  BY <1>1, <1>2 DEF Ahead
<1>4. /\ Cardinality(Ahead(batch, s)) \in Nat /\ Cardinality(Ahead(batch, t)) \in Nat
      /\ Cardinality(Ahead(batch, s)) < Cardinality(Ahead(batch, t))
  BY <1>3, AheadCount
<1>5. lead \in Int
  BY BatchParts DEF BestPlace
<1> HIDE DEF h, lead
<1> QED
  BY <1>1, <1>2, <1>4, <1>5 DEF h

(* Of one hand the only two of a stack tie.                                *)
LEMMA TwoEqualsTie ==
  ASSUME NEW batch \in Batches, NEW order \in Seatings, NEW active \in Nat,
         NEW p \in DOMAIN batch.started, NEW q \in DOMAIN batch.started,
         Twins(batch, p) = {q}
  PROVE  PlacesInHand(batch, order, active)[p] = PlacesInHand(batch, order, active)[q]
<1>1. q # p /\ batch.started[q] = batch.started[p]
  BY DEF Twins
<1>2. Twins(batch, q) = {p}
  BY <1>1 DEF Twins
<1>3. FirstTwin(batch, order, p) = q /\ FirstTwin(batch, order, q) = p
  BY <1>2, FirstTwinIsTwin
<1>4. p \in Ahead(batch, q) \/ q \in Ahead(batch, p)
  BY <1>1, AheadOrder
<1>5. TakesTwins(batch, order, q) \/ TakesTwins(batch, order, p)
  BY <1>2, <1>3, <1>4 DEF TakesTwins
<1> QED
  BY <1>3, <1>5, PlacesRecur

-----------------------------------------------------------------------------
TypeOK ==
  /\ seated \in Seatings
  /\ handForHand \in BOOLEAN
  /\ place \in [Players -> Nat]
  /\ lastBatch \in Batches

(* While somebody plays nobody has won.                                    *)
NoWinnerYet == Active(place) # {} => \A p \in Players : place[p] # 1

(* The inductive invariant.                                                *)
IInv == TypeOK /\ NoWinnerYet /\ Nested /\ FollowStacks

(* The start of a tournament.                                              *)
LEMMA InitKeeps == Init => IInv
<1> SUFFICES ASSUME Init PROVE IInv
  OBVIOUS
<1>1. NoBatch \in Batches /\ DOMAIN NoBatch.started = {}
  <2>1. <<>> \in [{} -> 1..MaxStart] /\ <<>> \in [{} -> 1..MaxHands]
    OBVIOUS
  <2>2. NoBatch \in [started : [{} -> 1..MaxStart], hand : [{} -> 1..MaxHands]]
    BY <2>1 DEF NoBatch
  <2> QED
    BY <2>1, <2>2 DEF Batches, NoBatch
<1>2. /\ \A p \in Players : place[p] = 0
      /\ place \in [Players -> Nat] /\ Active(place) = Players
  BY DEF Init, Active, Unplaced
<1>3. TypeOK
  BY <1>1, <1>2 DEF Init, TypeOK
<1>4. NoWinnerYet
  BY <1>2 DEF NoWinnerYet
<1>5. Nested
  <2>1. Cardinality(Active(place)) # 1 /\ Active(place) # {}
    BY <1>2, FieldAssumption, FS_EmptySet, FS_CardinalityType
  <2>2. {p \in Players : place[p] = 1} = {}
    BY <1>2
  <2>3. Cardinality({p \in Players : place[p] = 1}) # 1
    BY <2>2, FS_EmptySet
  <2> QED
    BY <1>2, <2>1, <2>3 DEF Nested
<1>6. FollowStacks
  BY <1>1 DEF Init, FollowStacks
<1> QED
  BY <1>3, <1>4, <1>5, <1>6 DEF IInv

-----------------------------------------------------------------------------
(* What one transition is: some of those who play bust, get the places     *)
(* from the last of the field up to the best left, which is worse than the *)
(* first, and the others stay, or the only one left wins.                  *)
Step(given) ==
  LET busted == DOMAIN given
      left == Active(place) \ busted
  IN /\ busted # {} /\ busted \subseteq Active(place) /\ left # {}
     /\ \A p \in busted :
          /\ given[p] \in Nat /\ given[p] > 1
          /\ given[p] > Cardinality(left) /\ given[p] <= Cardinality(Active(place))
     /\ place' = [p \in Players |-> IF p \in busted THEN given[p]
                                    ELSE IF left = {p} THEN 1 ELSE place[p]]

(* A batch recorded is a step from one play to the next.                  *)
LEMMA RecordIsStep ==
  ASSUME TypeOK,
         NEW busted \in (SUBSET Active(place)) \ {{}, Active(place)},
         NEW batch \in Batches, DOMAIN batch.started = busted, Record(batch)
  PROVE  Step(PlacesOf(batch, seated, Cardinality(Active(place)), handForHand))
<1> DEFINE A == Active(place)
           given == PlacesOf(batch, seated, Cardinality(A), handForHand)
           left == A \ busted
<1>1. A \in SUBSET Players /\ busted \in SUBSET A /\ busted # {} /\ left # {}
  <2>1. A \in SUBSET Players
    BY DEF Active
  <2>2. busted \in SUBSET A /\ busted # {} /\ busted # A
    OBVIOUS
  <2> HIDE DEF A
  <2> QED
    BY <2>1, <2>2
<1>2. /\ IsFiniteSet(A) /\ Cardinality(A) \in Nat
      /\ IsFiniteSet(busted) /\ Cardinality(busted) \in Nat
      /\ IsFiniteSet(left) /\ Cardinality(left) \in Nat
  <2>1. IsFiniteSet(A)
    BY <1>1, FieldAssumption, FS_Subset
  <2>2. IsFiniteSet(busted) /\ IsFiniteSet(left)
    BY <2>1, <1>1, FS_Subset
  <2> QED
    BY <2>1, <2>2, FS_CardinalityType
<1>3. Cardinality(left) = Cardinality(A) - Cardinality(busted) /\ Cardinality(left) # 0
  <2>1. A \cap busted = busted
    BY <1>1
  <2>2. Cardinality(left) = Cardinality(A) - Cardinality(A \cap busted)
    BY <1>2, FS_Difference
  <2> QED
    BY <2>1, <2>2, <1>1, <1>2, FS_EmptySet
<1>4. BestPlace(batch, Cardinality(A)) = Cardinality(left) + 1
  BY <1>2, <1>3 DEF BestPlace
<1>5. DOMAIN given = busted
      /\ \A p \in busted : /\ given[p] \in Int /\ Cardinality(left) + 1 <= given[p]
                           /\ given[p] <= Cardinality(A)
  BY <1>2, <1>4, PlacesBounded DEF TypeOK
<1>6. \A p \in busted : given[p] \in Nat /\ given[p] > 1 /\ given[p] > Cardinality(left)
  <2> HIDE DEF given, left
  <2> QED
    BY <1>2, <1>3, <1>5
<1>7. place' = Placed(place, given)
  BY DEF Record
<1>8. {p \in Players : place[p] = Unplaced} \ DOMAIN given = left
  BY <1>5 DEF Active
<1>9. place' = [p \in Players |-> IF p \in busted THEN given[p]
                                  ELSE IF left = {p} THEN 1 ELSE place[p]]
  <2> HIDE DEF given, left
  <2> QED
    BY <1>5, <1>7, <1>8 DEF Placed
<1> HIDE DEF given
<1> QED
  BY <1>1, <1>5, <1>6, <1>9 DEF Step, given

(* After the transition those left still play, or nobody does.             *)
LEMMA StepLeaves ==
  ASSUME TypeOK, NEW given, Step(given)
  PROVE  LET left == Active(place) \ DOMAIN given
         IN /\ place' \in [Players -> Nat]
            /\ IF \E w : left = {w} THEN Active(place)' = {} ELSE Active(place)' = left
<1> DEFINE left == Active(place) \ DOMAIN given
<1>1. place' \in [Players -> Nat]
  BY DEF Step, TypeOK
<1>2. \A p \in Players : place'[p] = IF p \in DOMAIN given THEN given[p]
                                     ELSE IF left = {p} THEN 1 ELSE place[p]
  BY DEF Step
<1>3. \A p \in DOMAIN given : given[p] # 0
  BY DEF Step
<1>4. Active(place)' = {p \in Players : place'[p] = 0}
  BY DEF Active, Unplaced
<1>5. left = {p \in Players : place[p] = 0 /\ p \notin DOMAIN given}
  BY DEF Active, Unplaced
<1>6. CASE \E w : left = {w}
  <2>1. PICK w : left = {w}
    BY <1>6
  <2>2. \A p \in Players : place'[p] # 0
    <3> HIDE DEF left
    <3> QED
      BY <1>2, <1>3, <1>5, <2>1
  <2> QED
    BY <1>1, <1>4, <1>6, <2>2
<1>7. CASE ~\E w : left = {w}
  <2>1. \A p \in Players : place'[p] = 0 <=> p \in left
    <3> HIDE DEF left
    <3> QED
      BY <1>2, <1>3, <1>5, <1>7
  <2> QED
    BY <1>1, <1>4, <1>5, <1>7, <2>1
<1> QED
  BY <1>6, <1>7

(* A step keeps the places nested: those out stay behind those who play.  *)
LEMMA StepNests ==
  ASSUME TypeOK, NoWinnerYet, Nested, NEW given, Step(given)
  PROVE  NoWinnerYet' /\ Nested' /\ AheadOfThoseOut
<1> DEFINE A == Active(place)
           busted == DOMAIN given
           left == A \ busted
<1>1. A \in SUBSET Players /\ IsFiniteSet(A) /\ Cardinality(A) \in Nat
  BY FieldAssumption, FS_Subset, FS_CardinalityType DEF Active
<1>2. left # {} /\ left \subseteq A /\ IsFiniteSet(left) /\ Cardinality(left) \in Nat
      /\ Cardinality(left) <= Cardinality(A)
  BY <1>1, FS_Subset, FS_CardinalityType DEF Step
<1>3. \A p \in Players : place'[p] = IF p \in busted THEN given[p]
                                     ELSE IF left = {p} THEN 1 ELSE place[p]
  BY DEF Step
<1>4. /\ busted # {} /\ busted \subseteq A
      /\ \A p \in busted : /\ given[p] \in Nat /\ given[p] > 1
                           /\ given[p] > Cardinality(left) /\ given[p] <= Cardinality(A)
  BY DEF Step
<1>5. \A p \in Players : place[p] \in Nat /\ place'[p] \in Nat
  BY StepLeaves DEF TypeOK
(* Those already out have a place behind the field of this transition.     *)
<1>6. ASSUME NEW p \in Players, place[p] # 0
      PROVE  /\ p \notin A /\ place'[p] = place[p]
             /\ place[p] > 1 /\ place[p] > Cardinality(A)
  <2>1. p \notin A
    BY <1>6 DEF Active, Unplaced
  <2>2. p \notin busted /\ left # {p}
    BY <2>1, <1>4
  <2>3. place[p] # 1
    BY <1>4 DEF NoWinnerYet
  <2>4. place[p] > 1
    BY <1>5, <1>6, <2>3
  <2> QED
    BY <2>1, <2>2, <2>4, <1>3 DEF Nested
<1>7. A = {p \in Players : place[p] = 0}
  BY DEF Active, Unplaced
(* Whoever busts in it or before has a place behind all who are left.      *)
<1>8. ASSUME NEW p \in Players, place'[p] > 1
      PROVE  place'[p] > Cardinality(left)
  <2>1. CASE p \in busted
    BY <2>1, <1>3, <1>4
  <2>2. CASE place[p] # 0
    BY <2>2, <1>1, <1>2, <1>5, <1>6
  <2>3. CASE p \notin busted /\ place[p] = 0
    BY <2>3, <1>3, <1>8
  <2> QED
    BY <2>1, <2>2, <2>3
<1>9. CASE \E w : left = {w}
  <2>1. PICK w : left = {w}
    BY <1>9
  <2>2. Active(place)' = {} /\ w \in Players
    BY <1>1, <1>2, <1>9, <2>1, StepLeaves
  <2>3. {p \in Players : place'[p] = 1} = {w}
    <3>1. w \notin busted /\ place'[w] = 1
      <4> w \in left
        BY <2>1
      <4> QED
        BY <2>1, <2>2, <1>3
    <3>2. ASSUME NEW p \in Players, p # w
          PROVE  place'[p] # 1
      <4>1. CASE p \in busted
        BY <4>1, <1>3, <1>4
      <4>2. CASE place[p] # 0
        BY <4>2, <1>5, <1>6
      <4>3. CASE p \notin busted /\ place[p] = 0
        <5>1. p \in left
          BY <4>3, <1>7
        <5> QED
          BY <5>1, <2>1, <3>2
      <4> QED
        BY <4>1, <4>2, <4>3
    <3> QED
      BY <2>2, <3>1, <3>2
  <2>4. Cardinality(Active(place)') = 0 /\ Cardinality({p \in Players : place'[p] = 1}) = 1
    BY <2>2, <2>3, FS_EmptySet, FS_Singleton
  <2>5. Cardinality(left) = 1
    BY <2>1, FS_Singleton
  <2>6. NoWinnerYet'
    BY <2>2 DEF NoWinnerYet
  <2>7. \A p \in Players : place'[p] > 1 => place'[p] > Cardinality(Active(place)')
    BY <2>4, <1>5
  <2>8. Nested'
    BY <2>2, <2>4, <2>7 DEF Nested
  <2>9. AheadOfThoseOut
    <3> SUFFICES ASSUME NEW p \in Players, NEW q \in Players,
                        place[p] # 0, place[q] = 0, place'[q] # 0
                 PROVE  place'[p] = place[p] /\ place'[q] < place[p]
      BY DEF AheadOfThoseOut, Unplaced
    <3>1. place'[q] = 1 \/ place'[q] <= Cardinality(A)
      BY <1>3, <1>4
    <3> QED
      BY <3>1, <1>1, <1>5, <1>6
  <2> QED
    BY <2>6, <2>8, <2>9
<1>10. CASE ~\E w : left = {w}
  <2>1. Active(place)' = left
    BY <1>10, StepLeaves
  <2>2. Cardinality(left) # 1
    BY <1>2, <1>10, FS_Singleton
  <2>3. \A p \in Players : left # {p}
    BY <1>10
  <2>4. ASSUME NEW p \in Players
        PROVE  place'[p] # 1
    <3>1. CASE p \in busted
      BY <3>1, <1>3, <1>4
    <3>2. CASE p \notin busted
      <4>1. place'[p] = place[p]
        BY <3>2, <2>3, <1>3
      <4> QED
        BY <4>1, <1>6
    <3> QED
      BY <3>1, <3>2
  <2>5. {p \in Players : place'[p] = 1} = {}
    BY <2>4
  <2>6. Cardinality({p \in Players : place'[p] = 1}) # 1
    BY <2>5, FS_EmptySet
  <2>7. NoWinnerYet'
    BY <2>4 DEF NoWinnerYet
  <2>8. Nested'
    BY <1>2, <1>8, <2>1, <2>2, <2>6 DEF Nested
  <2>9. AheadOfThoseOut
    <3> SUFFICES ASSUME NEW p \in Players, NEW q \in Players,
                        place[p] # 0, place[q] = 0, place'[q] # 0
                 PROVE  place'[p] = place[p] /\ place'[q] < place[p]
      BY DEF AheadOfThoseOut, Unplaced
    <3>1. q \in busted /\ place'[q] <= Cardinality(A)
      BY <2>3, <1>3, <1>4
    <3> QED
      BY <3>1, <1>1, <1>5, <1>6
  <2> QED
    BY <2>7, <2>8, <2>9
<1> QED
  BY <1>9, <1>10

-----------------------------------------------------------------------------
(* A step places its batch by the stacks its players began with.          *)
LEMMA StepFollowsStacks ==
  ASSUME TypeOK, NEW batch \in Batches, Record(batch),
         Step(PlacesOf(batch, seated, Cardinality(Active(place)), handForHand)),
         DOMAIN PlacesOf(batch, seated, Cardinality(Active(place)), handForHand)
           = DOMAIN batch.started
  PROVE  FollowStacks'
<1> DEFINE a == Cardinality(Active(place))
           given == PlacesOf(batch, seated, a, handForHand)
<1>1. lastBatch' = batch
  BY DEF Record
<1>2. a \in Nat
  BY FieldAssumption, FS_Subset, FS_CardinalityType DEF Active
<1>3. SUFFICES ASSUME SameHand(batch),
                      NEW p \in DOMAIN batch.started, NEW q \in DOMAIN batch.started
               PROVE  /\ batch.started[p] > batch.started[q] => place'[p] < place'[q]
                      /\ Twins(batch, p) = {q} => place'[p] = place'[q]
  BY <1>1 DEF FollowStacks
<1>4. given = PlacesInHand(batch, seated, a)
  BY <1>3 DEF PlacesOf
<1>5. p \in Players /\ q \in Players
  BY BatchParts
<1>6. place'[p] = given[p] /\ place'[q] = given[q]
  <2> HIDE DEF given
  <2>1. place' = [r \in Players |-> IF r \in DOMAIN given THEN given[r]
                    ELSE IF Active(place) \ DOMAIN given = {r} THEN 1 ELSE place[r]]
    BY DEF Step, given
  <2>2. DOMAIN given = DOMAIN batch.started
    BY DEF given
  <2> QED
    BY <2>1, <2>2, <1>5
<1>7. batch.started[p] > batch.started[q] => given[p] < given[q]
  BY <1>2, <1>3, <1>4, DeeperFinishesAhead DEF TypeOK
<1>8. Twins(batch, p) = {q} => given[p] = given[q]
  BY <1>2, <1>4, TwoEqualsTie DEF TypeOK
<1> QED
  BY <1>6, <1>7, <1>8

(* Every transition keeps the invariant and places all behind the rest.   *)
LEMMA NextKeeps == IInv /\ [Next]_vars => IInv' /\ (AheadOfThoseOut \/ UNCHANGED vars)
<1> SUFFICES ASSUME IInv, [Next]_vars PROVE IInv' /\ (AheadOfThoseOut \/ UNCHANGED vars)
  OBVIOUS
<1>1. CASE UNCHANGED vars
  BY <1>1 DEF IInv, TypeOK, NoWinnerYet, Nested, FollowStacks, Active, vars
<1>2. CASE Next
  <2>0. PICK busted \in (SUBSET Active(place)) \ {{}, Active(place)} :
          \E started \in [busted -> 1..MaxStart], hand \in [busted -> 1..MaxHands] :
            Record([started |-> started, hand |-> hand])
    BY <1>2 DEF Next
  <2>1. PICK started \in [busted -> 1..MaxStart], hand \in [busted -> 1..MaxHands] :
          Record([started |-> started, hand |-> hand])
    BY <2>0
  <2> DEFINE batch == [started |-> started, hand |-> hand]
             given == PlacesOf(batch, seated, Cardinality(Active(place)), handForHand)
  <2>2. busted \in SUBSET Players
    BY DEF Active
  <2>3. batch \in Batches /\ DOMAIN batch.started = busted
    BY <2>2 DEF Batches
  <2> HIDE DEF batch
  <2>4. Record(batch)
    BY <2>1 DEF batch
  <2>5. Step(given)
    BY <2>3, <2>4, RecordIsStep DEF IInv
  <2>6. Cardinality(Active(place)) \in Nat
    BY FieldAssumption, FS_Subset, FS_CardinalityType DEF Active
  <2>7. DOMAIN given = DOMAIN batch.started
    BY <2>3, <2>6, PlacesBounded DEF IInv, TypeOK
  <2>8. FollowStacks'
    BY <2>3, <2>4, <2>5, <2>7, StepFollowsStacks DEF IInv
  <2> HIDE DEF given
  <2>9. NoWinnerYet' /\ Nested' /\ AheadOfThoseOut
    BY <2>5, StepNests DEF IInv
  <2>10. TypeOK'
    <3>1. place' \in [Players -> Nat]
      BY <2>5, StepLeaves DEF IInv
    <3> QED
      BY <3>1, <2>3, <2>4 DEF Record, TypeOK, IInv
  <2> QED
    BY <2>8, <2>9, <2>10 DEF IInv
<1> QED
  BY <1>1, <1>2

-----------------------------------------------------------------------------
(* The inductive invariant of the placings: types, that nobody has won     *)
(* while somebody plays, and that the places nest and follow the stacks.   *)
THEOREM PlacingsInvariant == Spec => []IInv
<1>1. IInv /\ [Next]_vars => IInv'
  BY NextKeeps
<1> QED
  BY <1>1, InitKeeps, PTL DEF Spec

(* In a field of any size, with batches of any size in any player list,    *)
(* places nest, follow the stacks of a hand, and who busts later finishes  *)
(* ahead (recordEliminations).                                             *)
THEOREM PlacesFollow == Spec => PlacesFollowPlay
<1>1. IInv => Nested /\ FollowStacks
  BY DEF IInv
<1>2. IInv /\ [Next]_vars => [AheadOfThoseOut]_vars
  BY NextKeeps
<1> QED
  BY <1>1, <1>2, PlacingsInvariant, PTL DEF Spec, PlacesFollowPlay

-----------------------------------------------------------------------------
(* Sums.                                                                   *)
LEMMA SubsetsWellFounded ==
  ASSUME NEW S, IsFiniteSet(S)
  PROVE  IsWellFoundedOn(StrictSubsetOrdering(S), SUBSET S)
BY FS_StrictSubsetOrderingWellFounded, FS_FiniteSubsetsOfFinite

(* Induction over the subsets of a finite set, with the set of those that  *)
(* have the property in place of the property.                             *)
LEMMA SubsetInduction ==
  ASSUME NEW S, IsFiniteSet(S), NEW G,
         \A T \in SUBSET S : (\A x \in T : T \ {x} \in G) => T \in G
  PROVE  SUBSET S \subseteq G
<1> DEFINE Bad == (SUBSET S) \ G
<1> SUFFICES ASSUME Bad # {}
             PROVE  FALSE
  OBVIOUS
<1>1. IsWellFoundedOn(StrictSubsetOrdering(S), SUBSET S)
  BY SubsetsWellFounded
<1>2. PICK T \in Bad : \A U \in Bad : <<U, T>> \notin StrictSubsetOrdering(S)
  <2>1. Bad \subseteq SUBSET S
    OBVIOUS
  <2> HIDE DEF Bad
  <2> QED
    BY <1>1, <2>1, WFMin
<1>3. ASSUME NEW x \in T
      PROVE  T \ {x} \in G
  <2>1. <<T \ {x}, T>> \in StrictSubsetOrdering(S)
    BY <1>2 DEF StrictSubsetOrdering
  <2> QED
    BY <1>2, <2>1
<1> QED
  BY <1>2, <1>3

(* A fold takes elements out of a set one by one, in an order c chooses,   *)
(* and applies a function h of what it has so far: it is well defined.     *)
Folds(S, V, base, c, h) ==
  {g \in [SUBSET S -> V] :
     \A s \in SUBSET S : g[s] = IF s = {} THEN base ELSE h[s][g[s \ {c[s]}]]}

Folding(S, V, base, c, h) ==
  /\ IsFiniteSet(S) /\ base \in V
  /\ \A s \in (SUBSET S) \ {{}} : c[s] \in s /\ \A v \in V : h[s][v] \in V

(* Two folds agree on the subsets that both are defined for.               *)
LEMMA FoldsAgree ==
  ASSUME NEW S, NEW V, NEW base, NEW c, NEW h, Folding(S, V, base, c, h),
         NEW A \in SUBSET S, NEW B \in SUBSET S,
         NEW f \in Folds(A, V, base, c, h), NEW g \in Folds(B, V, base, c, h)
  PROVE  \A s \in SUBSET (A \cap B) : f[s] = g[s]
<1> DEFINE G == {s \in SUBSET (A \cap B) : f[s] = g[s]}
<1>1. IsFiniteSet(A \cap B)
  BY FS_Subset DEF Folding
<1>2. ASSUME NEW T \in SUBSET (A \cap B), \A x \in T : T \ {x} \in G
      PROVE  T \in G
  <2>1. CASE T = {}
    BY <2>1 DEF Folds
  <2>2. CASE T # {}
    <3>1. c[T] \in T
      BY <2>2 DEF Folding
    <3>2. f[T \ {c[T]}] = g[T \ {c[T]}]
      BY <3>1, <1>2
    <3>3. f[T] = h[T][f[T \ {c[T]}]] /\ g[T] = h[T][g[T \ {c[T]}]]
      BY <2>2 DEF Folds
    <3> QED
      BY <3>2, <3>3
  <2> QED
    BY <2>1, <2>2
<1>3. SUBSET (A \cap B) \subseteq G
  <2> DEFINE R == A \cap B
  <2>1. \A T \in SUBSET R : (\A x \in T : T \ {x} \in G) => T \in G
    BY <1>2
  <2>2. IsFiniteSet(R)
    BY <1>1
  <2> HIDE DEF G, R
  <2>3. SUBSET R \subseteq G
    BY <2>1, <2>2, SubsetInduction
  <2> QED
    BY <2>3 DEF R
<1> QED
  BY <1>3

(* There is a fold: it is put together from those of smaller sets.         *)
LEMMA FoldExists ==
  ASSUME NEW S, NEW V, NEW base, NEW c, NEW h, Folding(S, V, base, c, h)
  PROVE  Folds(S, V, base, c, h) # {}
<1> DEFINE Sol(T) == Folds(T, V, base, c, h)
           G == {T \in SUBSET S : \A U \in SUBSET T : Sol(U) # {}}
<1>0. IsFiniteSet(S)
  BY DEF Folding
<1>1. ASSUME NEW T \in SUBSET S, \A x \in T : T \ {x} \in G
      PROVE  T \in G
  <2> DEFINE at(U) == (CHOOSE g \in Sol(U) : TRUE)[U]
             g == [U \in SUBSET T |->
                     IF U = {} THEN base
                     ELSE IF U = T THEN h[T][at(T \ {c[T]})] ELSE at(U)]
  <2>1. ASSUME NEW U \in SUBSET T, U # T
        PROVE  (CHOOSE f \in Sol(U) : TRUE) \in Sol(U)
    <3>1. PICK x \in T : U \subseteq T \ {x}
      BY <2>1
    <3>2. Sol(U) # {}
      BY <3>1, <1>1
    <3> QED
      BY <3>2
  <2>2. ASSUME NEW U \in SUBSET T, U # T
        PROVE  at(U) \in V
    <3>1. Sol(U) \subseteq [SUBSET U -> V]
      BY DEF Folds
    <3> HIDE DEF Sol
    <3> QED
      BY <2>1, <2>2, <3>1
  <2>3. at({}) = base \/ T = {}
    <3> SUFFICES ASSUME T # {}
                 PROVE  at({}) = base
      OBVIOUS
    <3>1. (CHOOSE f \in Sol({}) : TRUE) \in Sol({})
      BY <2>1
    <3>2. \A f \in Sol({}) : f[{}] = base
      BY DEF Folds
    <3> HIDE DEF Sol
    <3> QED
      BY <3>1, <3>2
  <2>4. ASSUME NEW U \in SUBSET T, U # T, U # {}
        PROVE  at(U) = h[U][at(U \ {c[U]})]
    <3> DEFINE W == U \ {c[U]}
               f == CHOOSE f \in Sol(U) : TRUE
               e == CHOOSE e \in Sol(W) : TRUE
    <3>1. c[U] \in U
      BY <2>4 DEF Folding
    <3>2. f \in Sol(U) /\ e \in Sol(W)
      <4>1. W \in SUBSET T /\ W # T
        BY <2>4
      <4> QED
        BY <4>1, <2>1, <2>4
    <3>3. f[W] = e[W]
      <4>1. U \in SUBSET S /\ W \in SUBSET S /\ W \in SUBSET (U \cap W)
        OBVIOUS
      <4> HIDE DEF f, e, W
      <4> QED
        BY <3>2, <4>1, FoldsAgree
    <3>4. f[U] = h[U][f[W]]
      <4> HIDE DEF f
      <4> QED
        BY <3>2, <2>4 DEF Folds
    <3> QED
      BY <3>3, <3>4
  <2> HIDE DEF at
  <2>5. \A U \in SUBSET T : g[U] \in V
    <3> SUFFICES ASSUME NEW U \in SUBSET T
                 PROVE  g[U] \in V
      OBVIOUS
    <3>1. CASE U = {}
      BY <3>1 DEF Folding
    <3>2. CASE U # {} /\ U # T
      BY <3>2, <2>2
    <3>3. CASE U # {} /\ U = T
      <4>1. c[T] \in T /\ at(T \ {c[T]}) \in V
        BY <3>3, <2>2 DEF Folding
      <4> QED
        BY <3>3, <4>1 DEF Folding
    <3> QED
      BY <3>1, <3>2, <3>3
  <2>6. ASSUME NEW U \in SUBSET T, U # {}
        PROVE  g[U] = h[U][g[U \ {c[U]}]]
    <3>1. c[U] \in U
      BY <2>6 DEF Folding
    <3>2. U \ {c[U]} \in SUBSET T /\ U \ {c[U]} # T
      BY <3>1
    <3>3. g[U \ {c[U]}] = at(U \ {c[U]})
      BY <3>2, <2>3, <2>6
    <3> QED
      BY <3>3, <2>4, <2>6
  <2>7. g \in Sol(T)
    <3>1. g \in [SUBSET T -> V] /\ g[{}] = base
      BY <2>5
    <3> HIDE DEF g
    <3> QED
      BY <2>6, <3>1 DEF Folds
  <2>8. \A U \in SUBSET T : Sol(U) # {}
    <3> HIDE DEF Sol, g
    <3> QED
      BY <2>1, <2>7
  <2> QED
    BY <2>8
<1>2. SUBSET S \subseteq G
  <2> HIDE DEF G
  <2> QED
    BY <1>0, <1>1, SubsetInduction
<1> QED
  BY <1>2

-----------------------------------------------------------------------------
(* Sums over a set of indices.                                             *)
SumOver(f, S) == FoldFunctionOnSet(+, 0, f, S)
IntOver(f, S) == IsFiniteSet(S) /\ \A x \in S : f[x] \in Int

(* A sum is the value of one function on all subsets of any set around its *)
(* indices, which takes them out one by one.                               *)
Adding(f, R, g) ==
  /\ g \in [SUBSET R -> Int]
  /\ \A s \in SUBSET R :
       g[s] = IF s = {} THEN 0
              ELSE f[CHOOSE x \in s : TRUE] + g[s \ {CHOOSE x \in s : TRUE}]

(* Sums of integers over the subsets of a finite set exist.                *)
LEMMA AddingExists ==
  ASSUME NEW R, NEW f, IntOver(f, R)
  PROVE  \E g : Adding(f, R, g)
<1> DEFINE c == [s \in SUBSET R |-> CHOOSE x \in s : TRUE]
           h == [s \in SUBSET R |-> [v \in Int |-> f[c[s]] + v]]
<1>1. IsFiniteSet(R) /\ \A x \in R : f[x] \in Int
  BY DEF IntOver
<1>2. ASSUME NEW s \in (SUBSET R) \ {{}}
      PROVE  /\ c[s] \in s
             /\ \A v \in Int : h[s][v] = f[c[s]] + v /\ h[s][v] \in Int
  <2>1. c[s] \in s
    OBVIOUS
  <2>2. h[s] = [v \in Int |-> f[c[s]] + v]
    OBVIOUS
  <2>3. f[c[s]] \in Int
    BY <2>1, <1>1
  <2> HIDE DEF c, h
  <2> QED
    BY <2>1, <2>2, <2>3
<1>3. Folding(R, Int, 0, c, h)
  <2> HIDE DEF c, h
  <2> QED
    BY <1>1, <1>2 DEF Folding
<1>4. PICK g : g \in Folds(R, Int, 0, c, h)
  <2> HIDE DEF c, h
  <2> QED
    BY <1>3, FoldExists
<1>5. ASSUME NEW s \in SUBSET R
      PROVE  g[s] = IF s = {} THEN 0
                    ELSE f[CHOOSE x \in s : TRUE] + g[s \ {CHOOSE x \in s : TRUE}]
  <2>1. c[s] = CHOOSE x \in s : TRUE
    OBVIOUS
  <2>2. s # {} => g[s \ {c[s]}] \in Int
    BY <1>4 DEF Folds
  <2> HIDE DEF c, h
  <2>3. g[s] = IF s = {} THEN 0 ELSE f[c[s]] + g[s \ {c[s]}]
    BY <1>4, <2>2, <1>2 DEF Folds
  <2> QED
    BY <2>1, <2>3
<1>6. g \in [SUBSET R -> Int]
  BY <1>4 DEF Folds
<1> QED
  BY <1>5, <1>6 DEF Adding

(* FoldFunctionOnSet computes them.                                        *)
LEMMA SumIsAdding ==
  ASSUME NEW R, NEW f, IntOver(f, R), NEW g, Adding(f, R, g), NEW S \in SUBSET R
  PROVE  SumOver(f, S) = g[S]
<1> DEFINE Iter == CHOOSE iter : iter = [s \in SUBSET S |->
                      IF s = {} THEN 0
                      ELSE f[CHOOSE x \in s : TRUE] + iter[s \ {CHOOSE x \in s : TRUE}]]
<1>1. SumOver(f, S) = Iter[S]
  BY DEF SumOver, FoldFunctionOnSet, MapThenFoldSet
<1> DEFINE e == [s \in SUBSET S |-> g[s]]
<1>2. e = [s \in SUBSET S |->
             IF s = {} THEN 0
             ELSE f[CHOOSE x \in s : TRUE] + e[s \ {CHOOSE x \in s : TRUE}]]
  BY DEF Adding
<1>3. Iter = [s \in SUBSET S |->
                IF s = {} THEN 0
                ELSE f[CHOOSE x \in s : TRUE] + Iter[s \ {CHOOSE x \in s : TRUE}]]
  <2> HIDE DEF e
  <2> QED
    BY <1>2
<1> HIDE DEF Iter
<1> DEFINE G == {s \in SUBSET S : Iter[s] = g[s]}
<1>4. ASSUME NEW T \in SUBSET S, \A x \in T : T \ {x} \in G
      PROVE  T \in G
  <2>1. CASE T = {}
    BY <1>3, <2>1 DEF Adding
  <2>2. CASE T # {}
    <3> DEFINE x == CHOOSE x \in T : TRUE
    <3>1. x \in T
      BY <2>2
    <3>2. T \ {x} \in G
      BY <3>1, <1>4
    <3>3. Iter[T] = f[x] + Iter[T \ {x}]
      BY <1>3, <2>2
    <3>4. g[T] = f[x] + g[T \ {x}]
      BY <2>2 DEF Adding
    <3> QED
      BY <3>2, <3>3, <3>4
  <2> QED
    BY <2>1, <2>2
<1>5. SUBSET S \subseteq G
  <2>1. IsFiniteSet(S)
    BY FS_Subset DEF IntOver
  <2> HIDE DEF G
  <2> QED
    BY <2>1, <1>4, SubsetInduction
<1> QED
  BY <1>1, <1>5

(* Any element may be taken out first.                                     *)
LEMMA SumTakesOut ==
  ASSUME NEW S, NEW f, IntOver(f, S)
  PROVE  /\ SumOver(f, S) \in Int
         /\ SumOver(f, {}) = 0
         /\ \A x \in S : /\ SumOver(f, S \ {x}) \in Int
                         /\ SumOver(f, S) = f[x] + SumOver(f, S \ {x})
<1>1. PICK g : Adding(f, S, g)
  BY AddingExists
<1> DEFINE G == {T \in SUBSET S : \A x \in T : g[T] = f[x] + g[T \ {x}]}
<1>2. ASSUME NEW T \in SUBSET S, \A x \in T : T \ {x} \in G
      PROVE  T \in G
  <2> SUFFICES ASSUME NEW x \in T
               PROVE  g[T] = f[x] + g[T \ {x}]
    OBVIOUS
  <2> DEFINE y == CHOOSE y \in T : TRUE
  <2>1. y \in T
    OBVIOUS
  <2>2. g[T] = f[y] + g[T \ {y}]
    BY <1>1, <2>1 DEF Adding
  <2> HIDE DEF y
  <2>3. CASE x = y
    BY <2>2, <2>3
  <2>4. CASE x # y
    <3> DEFINE U == (T \ {x}) \ {y}
    <3>1. U = (T \ {y}) \ {x} /\ U \in SUBSET S
      OBVIOUS
    <3> HIDE DEF U
    <3>2. g[T \ {x}] = f[y] + g[U]
      BY <1>2, <2>1, <2>4 DEF U
    <3>3. g[T \ {y}] = f[x] + g[U]
      BY <1>2, <2>1, <2>4, <3>1
    <3>4. f[x] \in Int /\ f[y] \in Int /\ g[U] \in Int
      BY <1>1, <2>1, <3>1 DEF Adding, IntOver
    <3> HIDE <1>2
    <3> DEFINE a == g[T \ {x}]
               b == g[T \ {y}]
    <3>5. g[T] = f[y] + b /\ a = f[y] + g[U] /\ b = f[x] + g[U]
      BY <2>2, <3>2, <3>3
    <3>6. g[T] = f[x] + a
      <4> HIDE DEF a, b
      <4> QED
        BY <3>4, <3>5
    <3> QED
      BY <3>6
  <2> QED
    BY <2>3, <2>4
<1>3. SUBSET S \subseteq G
  <2>1. IsFiniteSet(S)
    BY DEF IntOver
  <2> HIDE DEF G
  <2> QED
    BY <2>1, <1>2, SubsetInduction
<1>4. \A T \in SUBSET S : SumOver(f, T) = g[T]
  BY <1>1, SumIsAdding
<1>9. \A T \in SUBSET S : g[T] \in Int
  BY <1>1 DEF Adding
<1>5. g[{}] = 0
  BY <1>1 DEF Adding
<1>6. \A x \in S : S \ {x} \in SUBSET S /\ S \in SUBSET S /\ {} \in SUBSET S
  OBVIOUS
<1>7. \A x \in S : g[S] = f[x] + g[S \ {x}]
  BY <1>3
<1>8. S \in SUBSET S /\ {} \in SUBSET S
  OBVIOUS
<1> QED
  BY <1>4, <1>9, <1>5, <1>6, <1>7, <1>8

(* Division with remainder, of an integer by a positive one.               *)
LEMMA Divides ==
  ASSUME NEW k \in Nat \ {0}, NEW a \in Int
  PROVE  /\ a = k * (a \div k) + (a % k)
         /\ a % k \in 0..(k - 1)
         /\ a \div k \in Int
OBVIOUS

(* Quotient and remainder are unique.                                      *)
LEMMA DividesOnce ==
  ASSUME NEW k \in Nat \ {0}, NEW q \in Int, NEW r \in 0..(k - 1)
  PROVE  (k * q + r) % k = r /\ (k * q + r) \div k = q
OBVIOUS

(* Sums and differences of multiples are multiples.                        *)
LEMMA MultiplesAdd ==
  ASSUME NEW k \in Nat \ {0}, NEW a \in Int, NEW b \in Int, a % k = 0, b % k = 0
  PROVE  (a + b) % k = 0 /\ (a - b) % k = 0
<1>1. a = k * (a \div k) /\ b = k * (b \div k) /\ a \div k \in Int /\ b \div k \in Int
  BY Divides
<1> DEFINE m == a \div k
           n == b \div k
<1>2. a = k * m /\ b = k * n /\ m \in Int /\ n \in Int
  BY <1>1
<1> HIDE DEF m, n
<1>3. a + b = k * (m + n) + 0 /\ a - b = k * (m - n) + 0
  BY <1>2
<1>4. (k * (m + n) + 0) % k = 0 /\ (k * (m - n) + 0) % k = 0
  BY <1>2, DividesOnce
<1> QED
  BY <1>3, <1>4

(* Whatever is kept when three functions are added up element by element   *)
(* holds of their sums.                                                    *)
LEMMA SumsRelate ==
  ASSUME NEW S, NEW f, NEW g, NEW h, IntOver(f, S), IntOver(g, S), IntOver(h, S),
         NEW R, <<0, 0, 0>> \in R,
         \A x \in S, a, b, c \in Int :
           <<a, b, c>> \in R => <<f[x] + a, g[x] + b, h[x] + c>> \in R
  PROVE  <<SumOver(f, S), SumOver(g, S), SumOver(h, S)>> \in R
<1> DEFINE sums(T) == <<SumOver(f, T), SumOver(g, T), SumOver(h, T)>>
           G == {T \in SUBSET S : sums(T) \in R}
<1>1. \A T \in SUBSET S : IntOver(f, T) /\ IntOver(g, T) /\ IntOver(h, T)
  BY FS_Subset DEF IntOver
<1>2. ASSUME NEW T \in SUBSET S, \A x \in T : T \ {x} \in G
      PROVE  sums(T) \in R
  <2>0. IntOver(f, T) /\ IntOver(g, T) /\ IntOver(h, T)
    BY <1>1
  <2>1. CASE T = {}
    <3>1. SumOver(f, T) = 0 /\ SumOver(g, T) = 0 /\ SumOver(h, T) = 0
      BY <2>0, <2>1, SumTakesOut
    <3> QED
      BY <3>1
  <2>2. CASE T # {}
    <3>1. PICK x \in T : TRUE
      BY <2>2
    <3>2. sums(T \ {x}) \in R
      BY <3>1, <1>2
    <3>3. /\ SumOver(f, T) = f[x] + SumOver(f, T \ {x}) /\ SumOver(f, T \ {x}) \in Int
          /\ SumOver(g, T) = g[x] + SumOver(g, T \ {x}) /\ SumOver(g, T \ {x}) \in Int
          /\ SumOver(h, T) = h[x] + SumOver(h, T \ {x}) /\ SumOver(h, T \ {x}) \in Int
      BY <2>0, <3>1, SumTakesOut
    <3>4. x \in S
      BY <3>1
    <3> QED
      BY <3>2, <3>3, <3>4
  <2> QED
    BY <2>1, <2>2
<1>3. S \in G
  <2>1. IsFiniteSet(S) /\ S \in SUBSET S
    BY DEF IntOver
  <2>2. \A T \in SUBSET S : (\A x \in T : T \ {x} \in G) => T \in G
    BY <1>2
  <2> HIDE DEF G
  <2> QED
    BY <2>1, <2>2, SubsetInduction
<1> QED
  BY <1>3

(* Functions that agree have the same sum.                                 *)
LEMMA SumSame ==
  ASSUME NEW S, NEW f, NEW g, IntOver(f, S), \A x \in S : f[x] = g[x]
  PROVE  SumOver(f, S) = SumOver(g, S)
<1> DEFINE R == {t \in Int \X Int \X Int : t[1] = t[2]}
<1>1. IntOver(g, S)
  BY DEF IntOver
<1>2. \A x \in S, a, b, c \in Int :
        <<a, b, c>> \in R => <<f[x] + a, g[x] + b, g[x] + c>> \in R
  BY <1>1 DEF IntOver
<1>3. <<0, 0, 0>> \in R
  OBVIOUS
<1>4. <<SumOver(f, S), SumOver(g, S), SumOver(g, S)>> \in R
  <2> HIDE DEF R
  <2> QED
    BY <1>1, <1>2, <1>3, SumsRelate
<1> QED
  BY <1>4

(* Sums add up point by point.                                             *)
LEMMA SumPlus ==
  ASSUME NEW S, NEW f, NEW g, NEW h, IntOver(f, S), IntOver(g, S),
         \A x \in S : h[x] = f[x] + g[x]
  PROVE  SumOver(h, S) = SumOver(f, S) + SumOver(g, S)
<1> DEFINE R == {t \in Int \X Int \X Int : t[3] = t[1] + t[2]}
<1>1. IntOver(h, S)
  BY DEF IntOver
<1>2. \A x \in S, a, b, c \in Int :
        <<a, b, c>> \in R => <<f[x] + a, g[x] + b, h[x] + c>> \in R
  BY <1>1 DEF IntOver
<1>3. <<0, 0, 0>> \in R
  OBVIOUS
<1>4. <<SumOver(f, S), SumOver(g, S), SumOver(h, S)>> \in R
  <2> HIDE DEF R
  <2> QED
    BY <1>1, <1>2, <1>3, SumsRelate
<1> QED
  BY <1>4

(* Smaller summands, smaller sum.                                          *)
LEMMA SumMonotone ==
  ASSUME NEW S, NEW f, NEW g, IntOver(f, S), IntOver(g, S), \A x \in S : f[x] <= g[x]
  PROVE  SumOver(f, S) <= SumOver(g, S)
<1> DEFINE R == {t \in Int \X Int \X Int : t[1] <= t[2]}
<1>1. \A x \in S : f[x] \in Int /\ g[x] \in Int
  BY DEF IntOver
<1>2. \A x \in S, a, b, c \in Int :
        <<a, b, c>> \in R => <<f[x] + a, g[x] + b, g[x] + c>> \in R
  BY <1>1
<1>3. <<0, 0, 0>> \in R
  OBVIOUS
<1>4. <<SumOver(f, S), SumOver(g, S), SumOver(g, S)>> \in R
  <2> HIDE DEF R
  <2> QED
    BY <1>2, <1>3, SumsRelate
<1> QED
  BY <1>4

(* A sum of multiples is a multiple.                                       *)
LEMMA SumMultiple ==
  ASSUME NEW S, NEW f, NEW k \in Nat \ {0}, IntOver(f, S), \A x \in S : f[x] % k = 0
  PROVE  SumOver(f, S) % k = 0
<1> DEFINE R == {t \in Int \X Int \X Int : t[1] % k = 0}
<1>1. \A x \in S : f[x] \in Int
  BY DEF IntOver
<1>5. \A a, b \in Int : a % k = 0 /\ b % k = 0 => (a + b) % k = 0
  BY MultiplesAdd
<1>2. \A x \in S, a, b, c \in Int :
        <<a, b, c>> \in R => <<f[x] + a, f[x] + b, f[x] + c>> \in R
  BY <1>1, <1>5
<1>3. <<0, 0, 0>> \in R
  OBVIOUS
<1>4. <<SumOver(f, S), SumOver(f, S), SumOver(f, S)>> \in R
  <2> HIDE DEF R
  <2> QED
    BY <1>2, <1>3, SumsRelate
<1> QED
  BY <1>4

(* A sum of zeros and k's counts the k's.                                  *)
LEMMA SumCounts ==
  ASSUME NEW S, IsFiniteSet(S), NEW C \in SUBSET S, NEW k \in Int, NEW f,
         \A x \in S : f[x] = IF x \in C THEN k ELSE 0
  PROVE  SumOver(f, S) = k * Cardinality(C)
<1> DEFINE G == {T \in SUBSET S : SumOver(f, T) = k * Cardinality(C \cap T)}
<1>1. \A T \in SUBSET S : IntOver(f, T)
  BY FS_Subset DEF IntOver
<1>2. ASSUME NEW T \in SUBSET S, \A x \in T : T \ {x} \in G
      PROVE  SumOver(f, T) = k * Cardinality(C \cap T)
  <2>1. CASE T = {}
    <3>1. SumOver(f, T) = 0
      BY <1>1, <2>1, SumTakesOut
    <3>2. Cardinality(C \cap T) = 0
      BY <2>1, FS_EmptySet
    <3>3. k * 0 = 0
      OBVIOUS
    <3> QED
      BY <3>1, <3>2, <3>3
  <2>2. CASE T # {}
    <3>1. PICK x \in T : TRUE
      BY <2>2
    <3> DEFINE n == Cardinality(C \cap (T \ {x}))
    <3>2. SumOver(f, T \ {x}) = k * n
      BY <3>1, <1>2
    <3>3. SumOver(f, T) = f[x] + SumOver(f, T \ {x})
      BY <1>1, <3>1, SumTakesOut
    <3>4. IsFiniteSet(C \cap T) /\ Cardinality(C \cap T) \in Nat
      BY FS_Subset, FS_CardinalityType
    <3>5. C \cap (T \ {x}) = (C \cap T) \ {x}
      OBVIOUS
    <3>6. n = IF x \in C THEN Cardinality(C \cap T) - 1 ELSE Cardinality(C \cap T)
      BY <3>1, <3>4, <3>5, FS_RemoveElement
    <3>7. f[x] = IF x \in C THEN k ELSE 0
      BY <3>1
    <3> HIDE DEF n
    <3>8. CASE x \in C
      <4>1. n \in Int /\ Cardinality(C \cap T) = n + 1
        BY <3>4, <3>6, <3>8
      <4>2. k * (n + 1) = k * n + k
        BY <4>1
      <4> QED
        BY <3>2, <3>3, <3>7, <3>8, <4>1, <4>2
    <3>9. CASE x \notin C
      <4>1. k * n \in Int
        BY <3>4, <3>6, <3>9
      <4> QED
        BY <3>2, <3>3, <3>6, <3>7, <3>9, <4>1
    <3> QED
      BY <3>8, <3>9
  <2> QED
    BY <2>1, <2>2
<1>3. S \in G
  <2>1. S \in SUBSET S /\ \A T \in SUBSET S : (\A x \in T : T \ {x} \in G) => T \in G
    BY <1>2
  <2> HIDE DEF G
  <2> QED
    BY <2>1, SubsetInduction
<1>4. C \cap S = C
  OBVIOUS
<1> QED
  BY <1>3, <1>4

(* A sum of sums may be taken in either order.                             *)
Crossed(m, n, S, T) ==
  \A x \in S : \A y \in T : m[x][y] \in Int /\ n[y][x] = m[x][y]
SumsOf(f, m, S, T) == \A x \in S : f[x] = SumOver(m[x], T)

(* A table of numbers has one sum, by rows or by columns.                  *)
LEMMA SumsSwap ==
  ASSUME NEW S, NEW T, IsFiniteSet(S), IsFiniteSet(T), NEW m, NEW n, Crossed(m, n, S, T),
         NEW rows, SumsOf(rows, m, S, T), NEW cols, SumsOf(cols, n, T, S)
  PROVE  SumOver(rows, S) = SumOver(cols, T)
<1> USE DEF Crossed, SumsOf
<1> DEFINE row(U) == [x \in S |-> SumOver(m[x], U)]
           col(y) == n[y]
           G == {U \in SUBSET T : SumOver(row(U), S) = SumOver(cols, U)}
<1>1. \A U \in SUBSET T, x \in S : IntOver(m[x], U)
  BY FS_Subset DEF IntOver
<1>2. \A y \in T : IntOver(col(y), S)
  BY DEF IntOver
<1>3. \A U \in SUBSET T : IntOver(row(U), S)
  BY <1>1, SumTakesOut DEF IntOver
<1>4. \A U \in SUBSET T : IntOver(cols, U)
  <2>1. \A y \in T : cols[y] \in Int
    <3> TAKE y \in T
    <3>1. IntOver(n[y], S)
      BY <1>2
    <3>2. SumOver(n[y], S) \in Int
      BY <3>1, SumTakesOut
    <3> QED
      BY <3>2
  <2> QED
    BY <2>1, FS_Subset DEF IntOver
<1>5. ASSUME NEW U \in SUBSET T, \A y \in U : U \ {y} \in G
      PROVE  SumOver(row(U), S) = SumOver(cols, U)
  <2>1. CASE U = {}
    <3>1. \A x \in S : row(U)[x] = 0
      BY <2>1, <1>1, SumTakesOut
    <3>2. SumOver(row(U), S) = 0 * Cardinality({})
      <4> HIDE DEF row
      <4> QED
        BY <3>1, SumCounts
    <3>3. SumOver(cols, U) = 0
      BY <2>1, <1>4, SumTakesOut
    <3> QED
      BY <3>2, <3>3, FS_EmptySet
  <2>2. CASE U # {}
    <3>1. PICK y \in U : TRUE
      BY <2>2
    <3> DEFINE V == U \ {y}
    <3>2. SumOver(row(V), S) = SumOver(cols, V)
      BY <3>1, <1>5
    <3>3. V \in SUBSET T /\ y \in T
      BY <3>1
    <3>4. ASSUME NEW x \in S
          PROVE  row(U)[x] = col(y)[x] + row(V)[x]
      <4>1. SumOver(m[x], U) = m[x][y] + SumOver(m[x], V)
        BY <1>1, <3>1, SumTakesOut
      <4> QED
        BY <4>1, <3>3
    <3>5. SumOver(row(U), S) = SumOver(col(y), S) + SumOver(row(V), S)
      <4>1. IntOver(col(y), S) /\ IntOver(row(V), S)
        BY <1>2, <1>3, <3>3
      <4> HIDE DEF row, col, V
      <4> QED
        BY <3>4, <4>1, SumPlus
    <3>6. SumOver(cols, U) = cols[y] + SumOver(cols, V)
      BY <1>4, <3>1, SumTakesOut
    <3>7. cols[y] = SumOver(col(y), S)
      BY <3>3
    <3> HIDE DEF row, col, V
    <3> QED
      BY <3>2, <3>5, <3>6, <3>7
  <2> QED
    BY <2>1, <2>2
<1>6. T \in G
  <2>1. T \in SUBSET T /\ \A U \in SUBSET T : (\A y \in U : U \ {y} \in G) => U \in G
    BY <1>5
  <2> HIDE DEF G
  <2> QED
    BY <2>1, SubsetInduction
<1>7. SumOver(row(T), S) = SumOver(cols, T)
  BY <1>6
<1>8. IntOver(row(T), S) /\ \A x \in S : row(T)[x] = rows[x]
  BY <1>3
<1>9. SumOver(row(T), S) = SumOver(rows, S)
  <2> HIDE DEF row
  <2> QED
    BY <1>8, SumSame
<1> QED
  BY <1>7, <1>9

-----------------------------------------------------------------------------
(* Pots.                                                                   *)
-----------------------------------------------------------------------------
(* The loop of buildPots as the fold it is.                                *)
PotShape ==
  [amount : Int, cap : Int, contributors : SUBSET Seats, eligible : SUBSET Seats]
AccShape ==
  [pots : Seq(PotShape), refund : [Seats -> Int], current : PotShape, floor : Int]
Start ==
  [pots |-> <<>>, refund |-> [p \in Seats |-> 0], current |-> NoPot, floor |-> 0]

(* A table has finitely many seats.                                        *)
LEMMA SeatsFinite == IsFiniteSet(Seats)
<1>1. IsFiniteSet(1..TableSize)
  BY TableAssumption, FS_Interval
<1> QED
  BY <1>1, TableAssumption, FS_Subset

(* A finite set of integers that is not empty has a largest element, which *)
(* Max returns.                                                            *)
LEMMA MaxOfFinite ==
  ASSUME NEW s, IsFiniteSet(s), s # {}, s \subseteq Int
  PROVE  Max(s) \in s /\ \A v \in s : v <= Max(s)
<1> DEFINE G == {t \in SUBSET s : t # {} => \E x \in t : \A y \in t : x >= y}
<1>1. ASSUME NEW t \in SUBSET s, \A x \in t : t \ {x} \in G
      PROVE  t \in G
  <2> SUFFICES ASSUME t # {}
               PROVE  \E x \in t : \A y \in t : x >= y
    OBVIOUS
  <2>1. PICK z \in t : TRUE
    OBVIOUS
  <2>2. CASE t \ {z} = {}
    BY <2>1, <2>2
  <2>3. CASE t \ {z} # {}
    <3>1. PICK x \in t \ {z} : \A y \in t \ {z} : x >= y
      BY <1>1, <2>1, <2>3
    <3>2. x \in Int /\ z \in Int /\ \A y \in t : y \in Int
      BY <2>1
    <3> QED
      BY <2>1, <3>1, <3>2
  <2> QED
    BY <2>2, <2>3
<1>2. s \in G
  <2>1. s \in SUBSET s
    OBVIOUS
  <2> HIDE DEF G
  <2> QED
    BY <1>1, <2>1, SubsetInduction
<1>3. \E x \in s : \A y \in s : x >= y
  BY <1>2
<1>4. Max(s) \in s /\ \A y \in s : Max(s) >= y
  BY <1>3 DEF Max
<1> QED
  BY <1>4

(* The contribution levels: finitely many positive amounts.                *)
LEMMA LevelsShape ==
  ASSUME NEW l, ValidLedger(l)
  PROVE  /\ AmountLevels(l) \subseteq Nat \ {0}
         /\ IsFiniteSet(AmountLevels(l))
         /\ \A s \in (SUBSET AmountLevels(l)) \ {{}} :
              Max(s) \in s /\ \A v \in s : v <= Max(s)
<1>1. AmountLevels(l) \subseteq Nat \ {0}
  BY DEF AmountLevels, ValidLedger
<1>2. IsFiniteSet(AmountLevels(l))
  <2> DEFINE T == {l.amount[p] : p \in Seats}
  <2>1. IsFiniteSet(T)
    <3> DEFINE f == [p \in Seats |-> l.amount[p]]
    <3>1. f \in Surjection(Seats, T)
      BY DEF Surjection
    <3> HIDE DEF f, T
    <3> QED
      BY <3>1, SeatsFinite, FS_Surjection
  <2>2. AmountLevels(l) \in SUBSET T
    BY DEF AmountLevels
  <2> QED
    BY <2>1, <2>2, FS_Subset
<1>3. \A s \in (SUBSET AmountLevels(l)) \ {{}} : Max(s) \in s /\ \A v \in s : v <= Max(s)
  <2> SUFFICES ASSUME NEW s \in (SUBSET AmountLevels(l)) \ {{}}
               PROVE  Max(s) \in s /\ \A v \in s : v <= Max(s)
    OBVIOUS
  <2>1. IsFiniteSet(s) /\ s # {} /\ s \subseteq Int
    BY <1>1, <1>2, FS_Subset
  <2> QED
    BY <2>1, MaxOfFinite
<1> QED
  BY <1>1, <1>2, <1>3

(* A turn of the loop keeps the types of what it works on.                 *)
LEMMA AddLayerShape ==
  ASSUME NEW l, ValidLedger(l), NEW acc \in AccShape, NEW cap \in Int
  PROVE  AddLayer(l, acc, cap) \in AccShape
<1> DEFINE C == Contributors(l, cap)
           amount == (cap - acc.floor) * Cardinality(C)
           pot == [ amount |-> acc.current.amount + amount, cap |-> cap,
                    contributors |-> acc.current.contributors \cup C,
                    eligible |-> acc.current.eligible \cup (C \ l.folded) ]
           layered == [acc EXCEPT !.floor = cap, !.current = pot]
           paid == [acc EXCEPT !.floor = cap,
                               !.refund = [p \in Seats |-> @[p] + (IF p \in C THEN amount ELSE 0)]]
<1>1. C \in SUBSET Seats /\ Cardinality(C) \in Nat
  BY SeatsFinite, FS_Subset, FS_CardinalityType DEF Contributors
<1>2. amount \in Int
  BY <1>1 DEF AccShape
<1> HIDE DEF amount, C
<1>3. pot \in PotShape
  BY <1>1, <1>2 DEF AccShape, PotShape
<1>4. layered \in AccShape
  <2> HIDE DEF pot
  <2> QED
    BY <1>3 DEF AccShape
<1>5. paid \in AccShape
  <2> DEFINE refund == [p \in Seats |-> acc.refund[p] + (IF p \in C THEN amount ELSE 0)]
  <2>1. refund \in [Seats -> Int]
    BY <1>2 DEF AccShape
  <2>2. paid = [acc EXCEPT !.floor = cap, !.refund = refund]
    OBVIOUS
  <2> HIDE DEF refund, paid
  <2> QED
    BY <2>1, <2>2 DEF AccShape
<1>6. Flush(layered) \in AccShape
  <2> HIDE DEF layered
  <2>1. NoPot \in PotShape
    BY DEF NoPot, PotShape
  <2>2. Append(layered.pots, layered.current) \in Seq(PotShape)
    BY <1>4 DEF AccShape
  <2> QED
    BY <1>4, <2>1, <2>2 DEF Flush, AccShape
<1>7. AddLayer(l, acc, cap) = IF Cardinality(C) = 1 THEN paid
                              ELSE IF cap \in AllInCaps(l) THEN Flush(layered) ELSE layered
  BY DEF AddLayer, C, amount
<1> QED
  BY <1>4, <1>5, <1>6, <1>7

(* buildPots, from the empty set of levels up to all of them.              *)
LEMMA BuildPotsIsFold ==
  ASSUME NEW l, ValidLedger(l)
  PROVE  \E g \in [SUBSET AmountLevels(l) -> AccShape] :
           /\ g[{}] = Start
           /\ \A s \in (SUBSET AmountLevels(l)) \ {{}} :
                g[s] = AddLayer(l, g[s \ {Max(s)}], Max(s))
           /\ LET end == Flush(g[AmountLevels(l)])
              IN BuildPots(l) = [pots |-> end.pots, refund |-> end.refund]
<1> DEFINE L == AmountLevels(l)
           c == [s \in SUBSET L |-> Max(s)]
           h == [s \in SUBSET L |-> [v \in AccShape |-> AddLayer(l, v, Max(s))]]
<1>1. Start \in AccShape
  BY DEF Start, AccShape, PotShape, NoPot
<1>2. ASSUME NEW s \in (SUBSET L) \ {{}}
      PROVE  /\ Max(s) \in s /\ Max(s) \in Int
             /\ \A v \in AccShape : AddLayer(l, v, Max(s)) \in AccShape
  BY LevelsShape, AddLayerShape
<1>3. Folding(L, AccShape, Start, c, h)
  <2>1. IsFiniteSet(L)
    BY LevelsShape
  <2> HIDE DEF L
  <2> QED
    BY <1>1, <1>2, <2>1 DEF Folding
<1>4. PICK g : g \in Folds(L, AccShape, Start, c, h)
  <2> HIDE DEF L, c, h
  <2> QED
    BY <1>3, FoldExists
<1> HIDE DEF L
<1>5. g \in [SUBSET L -> AccShape] /\ g[{}] = Start
  BY <1>4 DEF Folds
<1>6. ASSUME NEW s \in (SUBSET L) \ {{}}
      PROVE  g[s] = AddLayer(l, g[s \ {Max(s)}], Max(s))
  <2>1. g[s] = h[s][g[s \ {c[s]}]]
    <3> HIDE DEF c, h
    <3> QED
      BY <1>4 DEF Folds
  <2>2. s \ {c[s]} \in SUBSET L /\ c[s] = Max(s)
    OBVIOUS
  <2>3. g[s \ {Max(s)}] \in AccShape
    BY <1>5, <2>2
  <2> QED
    BY <2>1, <2>2, <2>3
<1> DEFINE Iter == CHOOSE iter : iter = [s \in SUBSET L |->
                      IF s = {} THEN Start ELSE AddLayer(l, iter[s \ {Max(s)}], Max(s))]
<1>7. LET end == Flush(Iter[L])
      IN BuildPots(l) = [pots |-> end.pots, refund |-> end.refund]
  BY DEF BuildPots, MapThenFoldSet, L, Start
<1>8. Iter = [s \in SUBSET L |->
                IF s = {} THEN Start ELSE AddLayer(l, Iter[s \ {Max(s)}], Max(s))]
  <2>1. g = [s \in SUBSET L |->
               IF s = {} THEN Start ELSE AddLayer(l, g[s \ {Max(s)}], Max(s))]
    BY <1>5, <1>6
  <2> QED
    BY <2>1
<1> HIDE DEF Iter
<1> DEFINE G == {s \in SUBSET L : Iter[s] = g[s]}
<1>9. ASSUME NEW T \in SUBSET L, \A x \in T : T \ {x} \in G
      PROVE  T \in G
  <2>1. CASE T = {}
    BY <1>8, <1>5, <2>1
  <2>2. CASE T # {}
    <3>1. Max(T) \in T
      BY <1>2, <2>2
    <3>2. Iter[T \ {Max(T)}] = g[T \ {Max(T)}]
      BY <3>1, <1>9
    <3> QED
      BY <1>8, <1>6, <2>2, <3>2
  <2> QED
    BY <2>1, <2>2
<1>10. L \in G
  <2>1. IsFiniteSet(L) /\ L \in SUBSET L
    BY LevelsShape DEF L
  <2> HIDE DEF G
  <2> QED
    BY <2>1, <1>9, SubsetInduction
<1> QED
  BY <1>5, <1>6, <1>7, <1>10 DEF L

(* Total sums over the domain.                                             *)
LEMMA TotalIsSum ==
  ASSUME NEW f
  PROVE  Total(f) = SumOver(f, DOMAIN f)
BY DEF Total, FoldFunction, SumOver

(* What one player pays between two heights.                               *)
Slice(l, low, high) ==
  [p \in Seats |-> Least(l.amount[p], high) - Least(l.amount[p], low)]

(* A pot between two heights holds the slices of all players.              *)
LEMMA SliceShape ==
  ASSUME NEW l, ValidLedger(l), NEW low \in Int, NEW high \in Int
  PROVE  /\ IntOver(Slice(l, low, high), Seats)
         /\ PotBetween(l, low, high).amount = SumOver(Slice(l, low, high), Seats)
         /\ PotBetween(l, low, high) \in PotShape
<1>1. \A p \in Seats : l.amount[p] \in Int
  BY DEF ValidLedger
<1>2. IntOver(Slice(l, low, high), Seats)
  BY <1>1, SeatsFinite DEF IntOver, Slice, Least
<1>3. PotBetween(l, low, high).amount = Total(Slice(l, low, high))
  BY DEF PotBetween, Slice
<1>4. DOMAIN Slice(l, low, high) = Seats
  BY DEF Slice
<1>5. PotBetween(l, low, high).amount = SumOver(Slice(l, low, high), Seats)
  BY <1>3, <1>4, TotalIsSum
<1>6. PotBetween(l, low, high).amount \in Int
  BY <1>2, <1>5, SumTakesOut
<1>7. PotBetween(l, low, high) \in PotShape
  BY <1>6 DEF PotBetween, PotShape
<1> QED
  BY <1>2, <1>5, <1>7

(* Slices add up.                                                          *)
LEMMA SlicesAdd ==
  ASSUME NEW l, ValidLedger(l), NEW low \in Int, NEW mid \in Int, NEW high \in Int
  PROVE  PotBetween(l, low, high).amount
           = PotBetween(l, low, mid).amount + PotBetween(l, mid, high).amount
<1>1. \A p \in Seats :
        Slice(l, low, high)[p] = Slice(l, low, mid)[p] + Slice(l, mid, high)[p]
  <2>1. \A p \in Seats : l.amount[p] \in Int
    BY DEF ValidLedger
  <2> QED
    BY <2>1 DEF Slice, Least
<1>2. SumOver(Slice(l, low, high), Seats)
        = SumOver(Slice(l, low, mid), Seats) + SumOver(Slice(l, mid, high), Seats)
  BY <1>1, SliceShape, SumPlus
<1> QED
  BY <1>2, SliceShape

(* Where no amount lies strictly between, whoever reaches the top pays all.*)
LEMMA LayerAmount ==
  ASSUME NEW l, ValidLedger(l), NEW low \in Int, NEW high \in Int, low <= high,
         \A p \in Seats : l.amount[p] >= high \/ l.amount[p] <= low
  PROVE  PotBetween(l, low, high).amount = (high - low) * Cardinality(Contributors(l, high))
<1> DEFINE C == Contributors(l, high)
<1>1. C \in SUBSET Seats /\ \A p \in Seats : p \in C <=> l.amount[p] >= high
  BY DEF Contributors
<1>2. \A p \in Seats : Slice(l, low, high)[p] = IF p \in C THEN high - low ELSE 0
  <2>1. \A p \in Seats : l.amount[p] \in Int
    BY DEF ValidLedger
  <2> HIDE DEF C
  <2> QED
    BY <1>1, <2>1 DEF Slice, Least
<1> HIDE DEF C
<1>3. high - low \in Int
  OBVIOUS
<1>4. SumOver(Slice(l, low, high), Seats) = (high - low) * Cardinality(C)
  BY <1>1, <1>2, <1>3, SeatsFinite, SumCounts
<1> QED
  BY <1>4, SliceShape DEF C

-----------------------------------------------------------------------------
(* The pots so far: one for each of some heights, one above the other.     *)
LastCap(pots) == IF pots = <<>> THEN 0 ELSE pots[Len(pots)].cap

Stacked(l, pots, caps) ==
  /\ pots \in Seq(PotShape)
  /\ IsFiniteSet(caps) /\ Len(pots) = Cardinality(caps)
  /\ {pots[i].cap : i \in DOMAIN pots} = caps
  /\ \A cap \in caps : cap \in Int /\ cap <= LastCap(pots)
  /\ \A i \in DOMAIN pots :
       LET below == IF i = 1 THEN 0 ELSE pots[i - 1].cap
       IN below < pots[i].cap /\ pots[i] = PotBetween(l, below, pots[i].cap)

(* One more pot on top.                                                    *)
LEMMA StackedAppend ==
  ASSUME NEW l, ValidLedger(l), NEW pots, NEW caps, Stacked(l, pots, caps),
         NEW cap \in Int, LastCap(pots) < cap
  PROVE  LET more == Append(pots, PotBetween(l, LastCap(pots), cap))
         IN Stacked(l, more, caps \cup {cap}) /\ LastCap(more) = cap
<1> DEFINE pot == PotBetween(l, LastCap(pots), cap)
           more == Append(pots, pot)
           n == Len(pots)
<1>1. LastCap(pots) \in Int
  BY DEF Stacked, LastCap, PotShape
<1>2. pot \in PotShape /\ pot.cap = cap
  BY <1>1, SliceShape DEF PotBetween
<1> HIDE DEF pot
<1>3. pots \in Seq(PotShape) /\ n \in Nat /\ DOMAIN pots = 1..n
  BY DEF Stacked
<1>4. /\ more \in Seq(PotShape) /\ Len(more) = n + 1 /\ DOMAIN more = 1..(n + 1)
      /\ more[n + 1] = pot /\ \A i \in 1..n : more[i] = pots[i]
  BY <1>2, <1>3
<1> HIDE DEF more
<1>5. LastCap(more) = cap
  <2>1. more # <<>>
    BY <1>3, <1>4
  <2> QED
    BY <2>1, <1>2, <1>4 DEF LastCap
<1>6. IsFiniteSet(caps \cup {cap}) /\ Cardinality(caps \cup {cap}) = n + 1
  <2>1. cap \notin caps
    BY <1>1 DEF Stacked
  <2> QED
    BY <2>1, FS_AddElement DEF Stacked
<1>7. {more[i].cap : i \in DOMAIN more} = caps \cup {cap}
  <2>1. {pots[i].cap : i \in 1..n} = caps
    BY <1>3 DEF Stacked
  <2>2. \A i \in 1..(n + 1) : i \in 1..n \/ i = n + 1
    BY <1>3
  <2>3. \A i \in 1..n : i \in 1..(n + 1)
    BY <1>3
  <2>4. n + 1 \in 1..(n + 1)
    BY <1>3
  <2> QED
    BY <2>1, <2>2, <2>3, <2>4, <1>2, <1>4
<1>8. \A c \in caps \cup {cap} : c \in Int /\ c <= cap
  BY <1>1 DEF Stacked
<1>9. ASSUME NEW i \in DOMAIN more
      PROVE  LET below == IF i = 1 THEN 0 ELSE more[i - 1].cap
             IN below < more[i].cap /\ more[i] = PotBetween(l, below, more[i].cap)
  <2>1. CASE i = n + 1
    <3>1. (IF i = 1 THEN 0 ELSE more[i - 1].cap) = LastCap(pots)
      <4>1. CASE n = 0
        <5>1. pots = <<>>
          BY <1>3, <4>1
        <5> QED
          BY <4>1, <5>1, <2>1 DEF LastCap
      <4>2. CASE n # 0
        <5>1. pots # <<>> /\ i # 1 /\ i - 1 = n /\ n \in 1..n
          BY <1>3, <4>2, <2>1
        <5> QED
          BY <5>1, <1>4 DEF LastCap
      <4> QED
        BY <4>1, <4>2
    <3> QED
      BY <3>1, <2>1, <1>2, <1>4 DEF pot
  <2>2. CASE i # n + 1
    <3>1. i \in 1..n /\ i \in DOMAIN pots /\ (i # 1 => i - 1 \in 1..n)
      BY <2>2, <1>3, <1>4
    <3>2. more[i] = pots[i] /\ (i # 1 => more[i - 1] = pots[i - 1])
      BY <3>1, <1>4
    <3> QED
      BY <3>1, <3>2 DEF Stacked
  <2> QED
    BY <2>1, <2>2
<1>10. Stacked(l, more, caps \cup {cap})
  BY <1>4, <1>5, <1>6, <1>7, <1>8, <1>9 DEF Stacked
<1> QED
  BY <1>5, <1>10 DEF more, pot

Top(s) == Max(s \cup {0})

(* The largest of a finite set of heights, or the ground.                  *)
LEMMA TopIsLargest ==
  ASSUME NEW s, IsFiniteSet(s), s \subseteq Nat
  PROVE  /\ Top(s) \in Nat /\ (Top(s) \in s \/ Top(s) = 0)
         /\ \A v \in s : v <= Top(s)
<1>1. IsFiniteSet(s \cup {0}) /\ s \cup {0} # {} /\ s \cup {0} \subseteq Int
  BY FS_AddElement
<1>2. Top(s) \in s \cup {0} /\ \A v \in s \cup {0} : v <= Top(s)
  <2> DEFINE t == s \cup {0}
  <2> HIDE DEF t
  <2>1. Max(t) \in t /\ \A v \in t : v <= Max(t)
    BY <1>1, MaxOfFinite DEF t
  <2> QED
    BY <2>1 DEF Top, t
<1> DEFINE t == Top(s)
<1>3. t \in s \cup {0} /\ \A v \in s \cup {0} : v <= t
  BY <1>2
<1> HIDE DEF t
<1>4. t \in Nat /\ (t \in s \/ t = 0) /\ \A v \in s : v <= t
  BY <1>3
<1> QED
  BY <1>4 DEF t

(* Whatever is above all of them and among them is that.                   *)
LEMMA TopIs ==
  ASSUME NEW s, IsFiniteSet(s), s \subseteq Nat, NEW m \in s \cup {0}, \A v \in s : v <= m
  PROVE  Top(s) = m
<1>1. m \in Nat /\ (m \in s \/ m = 0)
  OBVIOUS
<1> DEFINE t == Top(s)
<1>2. t \in Nat /\ (t \in s \/ t = 0) /\ \A v \in s : v <= t
  BY TopIsLargest
<1> HIDE DEF t
<1>3. t <= m /\ m <= t
  BY <1>1, <1>2
<1>4. t = m
  BY <1>1, <1>2, <1>3
<1> QED
  BY <1>4 DEF t

(* How far the loop is after the levels of s, all those up to a height.    *)
Matched(l, s) == Top(s \cap Contested(l))

LayersTo(l, acc, s) ==
  /\ acc \in AccShape
  /\ acc.floor = Top(s)
  /\ acc.refund = Slice(l, Matched(l, s), Top(s))
  /\ Stacked(l, acc.pots, s \cap Contested(l) \cap AllInCaps(l))
  /\ LastCap(acc.pots) <= Matched(l, s)
  /\ acc.current = IF Matched(l, s) = LastCap(acc.pots) THEN NoPot
                   ELSE PotBetween(l, LastCap(acc.pots), Matched(l, s))

Prefix(l, s) == \A v \in s, w \in AmountLevels(l) : w < v => w \in s

(* Every level has a contributor, and no more players reach a higher one.  *)
LEMMA ContributorsShape ==
  ASSUME NEW l, ValidLedger(l), NEW v \in AmountLevels(l)
  PROVE  /\ IsFiniteSet(Contributors(l, v)) /\ Cardinality(Contributors(l, v)) \in Nat \ {0}
         /\ v \in Contested(l) <=> Cardinality(Contributors(l, v)) # 1
         /\ \A w \in AmountLevels(l) : w <= v /\ v \in Contested(l) => w \in Contested(l)
<1>1. \A w \in Int : /\ IsFiniteSet(Contributors(l, w))
                     /\ Cardinality(Contributors(l, w)) \in Nat
  BY SeatsFinite, FS_Subset, FS_CardinalityType DEF Contributors
<1>2. v \in Int /\ \A w \in AmountLevels(l) : w \in Int
  BY LevelsShape
<1>3. Cardinality(Contributors(l, v)) # 0
  <2>1. PICK p \in Seats : l.amount[p] = v
    BY DEF AmountLevels
  <2>2. p \in Contributors(l, v)
    BY <2>1, <1>2 DEF Contributors
  <2> QED
    BY <2>2, <1>1, <1>2, FS_EmptySet
<1>4. ASSUME NEW w \in AmountLevels(l), w <= v
      PROVE  Cardinality(Contributors(l, v)) <= Cardinality(Contributors(l, w))
  <2>1. \A p \in Seats : l.amount[p] \in Int
    BY DEF ValidLedger
  <2>2. Contributors(l, v) \in SUBSET Contributors(l, w)
    BY <2>1, <1>2, <1>4 DEF Contributors
  <2> QED
    BY <2>2, <1>1, <1>2, FS_Subset
<1> QED
  BY <1>1, <1>2, <1>3, <1>4 DEF Contested

(* A turn of the loop, on the largest of the levels so far (AddLayer): a   *)
(* level that one player reaches goes back to him, one that more reach     *)
(* raises the current pot, and an all-in cap closes it.                    *)
LEMMA LoopTurn ==
  ASSUME NEW l, ValidLedger(l), NEW s \in (SUBSET AmountLevels(l)) \ {{}}, Prefix(l, s),
         NEW acc, LayersTo(l, acc, s \ {Max(s)})
  PROVE  LayersTo(l, AddLayer(l, acc, Max(s)), s)
<1> DEFINE m == Max(s)
           r == s \ {m}
           C == Contributors(l, m)
           amount == (m - acc.floor) * Cardinality(C)
           pot == [ amount |-> acc.current.amount + amount, cap |-> m,
                    contributors |-> acc.current.contributors \cup C,
                    eligible |-> acc.current.eligible \cup (C \ l.folded) ]
           layered == [acc EXCEPT !.floor = m, !.current = pot]
           refund == [p \in Seats |-> acc.refund[p] + (IF p \in C THEN amount ELSE 0)]
           paid == [acc EXCEPT !.floor = m, !.refund = refund]
           next == AddLayer(l, acc, m)
           f == Top(r)
           last == LastCap(acc.pots)
<1>1. m \in s /\ (\A v \in s : v <= m) /\ m \in Nat \ {0} /\ m \in AmountLevels(l)
  BY LevelsShape
<1>2. /\ IsFiniteSet(s) /\ s \subseteq Nat /\ IsFiniteSet(r) /\ r \subseteq Nat
      /\ \A X : IsFiniteSet(s \cap X) /\ IsFiniteSet(r \cap X)
  <2>1. IsFiniteSet(AmountLevels(l)) /\ AmountLevels(l) \subseteq Nat
    BY LevelsShape
  <2> QED
    BY <2>1, FS_Subset
<1>3. next = IF Cardinality(C) = 1 THEN paid
             ELSE IF m \in AllInCaps(l) THEN Flush(layered) ELSE layered
  BY DEF AddLayer
<1>4. next \in AccShape
  BY <1>1, AddLayerShape DEF LayersTo
<1> HIDE DEF m, next
<1>5. Top(s) = m
  BY <1>1, <1>2, TopIs
<1>6. f \in Nat /\ f < m /\ \A v \in r : v <= f
  <2>1. \A v \in r : v < m
    BY <1>1, <1>2
  <2>2. f \in Nat /\ (f \in r \/ f = 0) /\ \A v \in r : v <= f
    BY <1>2, TopIsLargest
  <2> HIDE DEF f, r
  <2> QED
    BY <2>1, <2>2, <1>1
<1>7. \A p \in Seats : l.amount[p] \in Nat /\ (l.amount[p] >= m \/ l.amount[p] <= f)
  <2> SUFFICES ASSUME NEW p \in Seats, l.amount[p] < m
               PROVE  l.amount[p] <= f
    BY <1>1 DEF ValidLedger
  <2>1. l.amount[p] \in Nat
    BY DEF ValidLedger
  <2>2. CASE l.amount[p] = 0
    BY <1>6, <2>2
  <2>3. CASE l.amount[p] # 0
    <3>1. l.amount[p] \in AmountLevels(l)
      BY <2>3 DEF AmountLevels
    <3>2. l.amount[p] \in r
      BY <3>1, <1>1, <2>1 DEF Prefix
    <3> QED
      BY <3>2, <1>6
  <2> QED
    BY <2>2, <2>3
<1> HIDE DEF r, f
<1>8. /\ acc \in AccShape /\ acc.floor = f
      /\ acc.refund = Slice(l, Matched(l, r), f)
      /\ Stacked(l, acc.pots, r \cap Contested(l) \cap AllInCaps(l))
      /\ last <= Matched(l, r)
      /\ acc.current = IF Matched(l, r) = last THEN NoPot
                       ELSE PotBetween(l, last, Matched(l, r))
  BY DEF LayersTo, r, m, f
<1>9. amount = PotBetween(l, f, m).amount
  BY <1>1, <1>6, <1>7, <1>8, LayerAmount
<1>10. C \subseteq Seats /\ \A p \in Seats : p \in C <=> l.amount[p] >= m
  BY DEF Contributors
<1>11. last \in Int
  BY <1>8 DEF Stacked, LastCap, PotShape
<1>12. Cardinality(C) \in Nat \ {0} /\ (m \in Contested(l) <=> Cardinality(C) # 1)
  BY <1>1, ContributorsShape
<1> HIDE DEF C
<1>13. CASE Cardinality(C) = 1
  <2>1. s \cap Contested(l) = r \cap Contested(l)
    BY <1>12, <1>13 DEF r
  <2>2. Matched(l, s) = Matched(l, r) /\ Matched(l, r) \in Nat /\ Matched(l, r) <= f
    <3>1. /\ Matched(l, r) \in Nat
          /\ Matched(l, r) \in r \cap Contested(l) \/ Matched(l, r) = 0
      BY <1>2, TopIsLargest DEF Matched
    <3> QED
      BY <2>1, <3>1, <1>6 DEF Matched
  <2>3. amount = m - f
    BY <1>1, <1>6, <1>8, <1>13
  <2>4. refund = Slice(l, Matched(l, r), m)
    <3>1. ASSUME NEW p \in Seats
          PROVE  refund[p] = Slice(l, Matched(l, r), m)[p]
      <4>1. refund[p] = acc.refund[p] + (IF p \in C THEN m - f ELSE 0)
        BY <2>3
      <4>2. acc.refund[p] = Least(l.amount[p], f) - Least(l.amount[p], Matched(l, r))
        BY <1>8 DEF Slice
      <4> QED
        BY <4>1, <4>2, <1>1, <1>6, <1>7, <1>10, <2>2 DEF Slice, Least
    <3> QED
      BY <3>1 DEF Slice
  <2> HIDE DEF refund
  <2>5. next = paid
    BY <1>3, <1>13
  <2>6. next.floor = m /\ next.refund = refund /\ next.pots = acc.pots /\ next.current = acc.current
    BY <2>5, <1>8 DEF AccShape
  <2>7. s \cap Contested(l) \cap AllInCaps(l) = r \cap Contested(l) \cap AllInCaps(l)
    BY <2>1
  <2> QED
    <3>1. next.floor = Top(s) /\ next.refund = Slice(l, Matched(l, s), Top(s))
      BY <1>5, <2>2, <2>4, <2>6
    <3>2. Stacked(l, next.pots, s \cap Contested(l) \cap AllInCaps(l))
      BY <1>8, <2>6, <2>7
    <3>3. LastCap(next.pots) <= Matched(l, s)
      BY <1>8, <2>2, <2>6
    <3>4. next.current = IF Matched(l, s) = LastCap(next.pots) THEN NoPot
                         ELSE PotBetween(l, LastCap(next.pots), Matched(l, s))
      BY <1>8, <2>2, <2>6
    <3>5. LayersTo(l, next, s)
      BY <1>4, <3>1, <3>2, <3>3, <3>4 DEF LayersTo
    <3> QED
      BY <3>5 DEF next, m
<1>14. CASE Cardinality(C) # 1
  <2>1. m \in Contested(l) /\ s \subseteq Contested(l)
    BY <1>1, <1>2, <1>12, <1>14, ContributorsShape
  <2>2. Matched(l, s) = m /\ Matched(l, r) = f
    <3>1. s \cap Contested(l) = s /\ r \cap Contested(l) = r
      BY <2>1 DEF r
    <3> QED
      BY <3>1, <1>5 DEF Matched, f
  <2>3. acc.refund = Slice(l, m, m)
    <3>1. acc.refund = Slice(l, f, f)
      BY <1>8, <2>2
    <3> QED
      BY <3>1, <1>1, <1>6, <1>7 DEF Slice, Least
  <2>4. pot = PotBetween(l, last, m)
    <3>1. pot.amount = PotBetween(l, last, m).amount
      <4>1. PotBetween(l, last, m).amount = PotBetween(l, last, f).amount + amount
        BY <1>1, <1>6, <1>9, <1>11, SlicesAdd
      <4>2. CASE f = last
        <5>1. acc.current.amount = 0
          BY <4>2, <1>8, <2>2 DEF NoPot
        <5>2. PotBetween(l, last, f).amount = (f - f) * Cardinality(Contributors(l, f))
          <6>1. \A p \in Seats : l.amount[p] >= f \/ l.amount[p] <= f
            BY <1>6, <1>7
          <6> QED
            BY <4>2, <6>1, <1>6, LayerAmount
        <5>3. Cardinality(Contributors(l, f)) \in Nat
          BY SeatsFinite, FS_Subset, FS_CardinalityType DEF Contributors
        <5> QED
          BY <4>1, <5>1, <5>2, <5>3, <1>6
      <4>3. CASE f # last
        BY <4>1, <4>3, <1>8, <2>2
      <4> QED
        BY <4>2, <4>3
    <3>2. \A p \in Seats : l.amount[p] > last <=> p \in acc.current.contributors \cup C
      <4>1. CASE f = last
        <5>1. acc.current.contributors = {}
          BY <4>1, <1>8, <2>2 DEF NoPot
        <5> QED
          BY <4>1, <5>1, <1>1, <1>6, <1>7, <1>10
      <4>2. CASE f # last
        <5>1. acc.current.contributors = {p \in Seats : l.amount[p] > last}
          BY <4>2, <1>8, <2>2 DEF PotBetween
        <5>2. last < f
          BY <4>2, <1>6, <1>8, <1>11, <2>2
        <5> QED
          BY <5>1, <5>2, <1>1, <1>6, <1>7, <1>10, <1>11
      <4> QED
        BY <4>1, <4>2
    <3>3. acc.current.contributors \subseteq Seats
      BY <1>8 DEF AccShape, PotShape
    <3>4. acc.current.eligible = acc.current.contributors \ l.folded
      BY <1>8 DEF NoPot, PotBetween
    <3>5. pot.contributors = {p \in Seats : l.amount[p] > last}
      BY <3>2, <3>3, <1>10
    <3>6. pot.eligible = pot.contributors \ l.folded
      BY <3>4
    <3>7. pot = [amount |-> pot.amount, cap |-> m, contributors |-> pot.contributors,
                 eligible |-> pot.eligible]
      OBVIOUS
    <3> HIDE DEF pot
    <3>8. pot = [amount |-> PotBetween(l, last, m).amount, cap |-> m,
                 contributors |-> {p \in Seats : l.amount[p] > last},
                 eligible |-> {p \in Seats : l.amount[p] > last} \ l.folded]
      BY <3>1, <3>5, <3>6, <3>7
    <3> QED
      BY <3>8 DEF PotBetween
  <2>5. pot.amount > 0
    <3>1. acc.current.amount >= 0
      <4>1. CASE f = last
        BY <4>1, <1>8, <2>2 DEF NoPot
      <4>2. CASE f # last
        <5>1. last <= f /\ acc.current.amount = SumOver(Slice(l, last, f), Seats)
          BY <4>2, <1>6, <1>8, <1>11, <2>2, SliceShape
        <5>2. IntOver(Slice(l, last, f), Seats) /\ IntOver(Slice(l, last, last), Seats)
          BY <1>6, <1>11, SliceShape
        <5>3. \A p \in Seats : Slice(l, last, last)[p] <= Slice(l, last, f)[p]
          BY <5>1, <1>6, <1>7, <1>11 DEF Slice, Least
        <5>4. SumOver(Slice(l, last, last), Seats) = 0 * Cardinality({})
          <6>1. \A p \in Seats : Slice(l, last, last)[p] = IF p \in {} THEN 0 ELSE 0
            BY <1>7, <1>11 DEF Slice, Least
          <6> QED
            BY <6>1, SeatsFinite, SumCounts
        <5>5. SumOver(Slice(l, last, last), Seats) <= SumOver(Slice(l, last, f), Seats)
          BY <5>2, <5>3, SumMonotone
        <5> QED
          BY <5>1, <5>4, <5>5, FS_EmptySet
      <4> QED
        BY <4>1, <4>2
    <3>2. amount > 0
      <4>1. m - f \in Nat \ {0}
        BY <1>1, <1>6
      <4>2. \A a, b \in Nat \ {0} : a * b > 0
        OBVIOUS
      <4>3. amount = (m - f) * Cardinality(C)
        BY <1>8
      <4> QED
        BY <4>1, <4>2, <4>3, <1>12
    <3>3. acc.current.amount \in Int /\ amount \in Int
      BY <1>1, <1>6, <1>8, <1>12 DEF AccShape, PotShape
    <3>4. pot.amount = acc.current.amount + amount
      OBVIOUS
    <3> HIDE DEF amount, pot
    <3> QED
      BY <3>1, <3>2, <3>3, <3>4
  <2> HIDE DEF pot
  <2>6. layered.floor = m /\ layered.refund = acc.refund /\ layered.pots = acc.pots /\ layered.current = pot
    BY <1>8 DEF AccShape
  <2>7. last < m
    BY <1>1, <1>6, <1>8, <1>11, <2>2
  <2> HIDE DEF layered
  <2>8. CASE m \in AllInCaps(l)
    <3>1. next = Flush(layered)
      BY <1>3, <1>14, <2>8
    <3>2. next = [layered EXCEPT !.pots = Append(@, layered.current), !.current = NoPot]
      BY <3>1, <2>5, <2>6 DEF Flush
    <3>3. /\ next.floor = m /\ next.refund = acc.refund /\ next.current = NoPot
          /\ next.pots = Append(acc.pots, pot)
      BY <3>2, <2>6, <1>8 DEF AccShape, layered
    <3>4. s \cap Contested(l) \cap AllInCaps(l) = (r \cap Contested(l) \cap AllInCaps(l)) \cup {m}
      BY <2>1, <2>8, <1>1 DEF r
    <3>5. Stacked(l, next.pots, s \cap Contested(l) \cap AllInCaps(l)) /\ LastCap(next.pots) = m
      <4> DEFINE caps == r \cap Contested(l) \cap AllInCaps(l)
                 more == Append(acc.pots, PotBetween(l, LastCap(acc.pots), m))
      <4>1. Stacked(l, acc.pots, caps) /\ m \in Int /\ LastCap(acc.pots) < m /\ last = LastCap(acc.pots)
        BY <1>1, <1>8, <2>7
      <4> HIDE DEF caps
      <4>2. Stacked(l, more, caps \cup {m}) /\ LastCap(more) = m
        BY <4>1, StackedAppend
      <4>3. next.pots = more
        BY <2>4, <3>3, <4>1
      <4> HIDE DEF more, next
      <4> QED
        BY <3>4, <4>2, <4>3 DEF caps
    <3>6. next.floor = Top(s) /\ next.refund = Slice(l, Matched(l, s), Top(s))
      BY <1>5, <2>2, <2>3, <3>3
    <3>7. m <= m
      BY <1>1
    <3>8. LayersTo(l, next, s)
      BY <1>4, <2>2, <3>3, <3>5, <3>6, <3>7 DEF LayersTo
    <3> QED
      BY <3>8 DEF next, m
  <2>9. CASE m \notin AllInCaps(l)
    <3>1. next = layered
      BY <1>3, <1>14, <2>9
    <3>2. s \cap Contested(l) \cap AllInCaps(l) = r \cap Contested(l) \cap AllInCaps(l)
      BY <2>9 DEF r
    <3>3. next.floor = Top(s) /\ next.refund = Slice(l, Matched(l, s), Top(s))
      BY <1>5, <2>2, <2>3, <2>6, <3>1
    <3>4. Stacked(l, next.pots, s \cap Contested(l) \cap AllInCaps(l))
      BY <1>8, <2>6, <3>1, <3>2
    <3>5. LastCap(next.pots) = last /\ last <= m /\ last # m
      BY <1>1, <1>11, <2>6, <2>7, <3>1
    <3>6. LayersTo(l, next, s)
      BY <1>4, <2>2, <2>4, <2>6, <3>1, <3>3, <3>4, <3>5 DEF LayersTo
    <3> QED
      BY <3>6 DEF next, m
  <2> QED
    BY <2>8, <2>9
<1> QED
  BY <1>12, <1>13, <1>14

(* Somebody above the lower height: the pot is not empty.                  *)
LEMMA PotHoldsChips ==
  ASSUME NEW l, ValidLedger(l), NEW low \in Int, NEW high \in Int, low < high,
         NEW p \in Seats, l.amount[p] > low
  PROVE  PotBetween(l, low, high).amount > 0
<1> DEFINE f == Slice(l, low, high)
           zero == [q \in Seats |-> 0]
<1>1. \A q \in Seats : l.amount[q] \in Int
  BY DEF ValidLedger
<1>2. f[p] > 0 /\ \A q \in Seats : f[q] >= 0
  BY <1>1 DEF Slice, Least
<1>3. IntOver(f, Seats) /\ f[p] \in Int
  BY SliceShape DEF IntOver
<1>4. SumOver(f, Seats) = f[p] + SumOver(f, Seats \ {p}) /\ SumOver(f, Seats \ {p}) \in Int
  <2> HIDE DEF f
  <2> QED
    BY <1>3, SumTakesOut
<1>5. SumOver(f, Seats \ {p}) >= 0
  <2> DEFINE S == Seats \ {p}
  <2>1. IsFiniteSet(S) /\ S \subseteq Seats
    BY SeatsFinite, FS_Subset
  <2>2. IntOver(f, S) /\ IntOver(zero, S) /\ \A q \in S : zero[q] <= f[q]
    <3> HIDE DEF f
    <3> QED
      BY <1>2, <1>3, <2>1 DEF IntOver
  <2>3. \A q \in S : zero[q] = IF q \in {} THEN 0 ELSE 0
    BY <2>1
  <2> HIDE DEF f, S, zero
  <2>4. SumOver(zero, S) = 0 * Cardinality({})
    BY <2>1, <2>3, SumCounts
  <2>5. SumOver(zero, S) <= SumOver(f, S)
    BY <2>2, SumMonotone
  <2> QED
    BY <2>4, <2>5, FS_EmptySet DEF S
<1>6. PotBetween(l, low, high).amount = SumOver(f, Seats)
  BY SliceShape
<1> HIDE DEF f
<1> QED
  BY <1>2, <1>3, <1>4, <1>5, <1>6

(* Before the first level nothing is in a pot.                             *)
LEMMA LoopStarts ==
  ASSUME NEW l, ValidLedger(l)
  PROVE  LayersTo(l, Start, {})
<1>1. Top({}) = 0
  BY FS_EmptySet, TopIs
<1>2. Matched(l, {}) = 0
  BY <1>1 DEF Matched
<1>3. Start.refund = Slice(l, 0, 0)
  <2>1. \A p \in Seats : l.amount[p] \in Int
    BY DEF ValidLedger
  <2> QED
    BY <2>1 DEF Start, Slice, Least
<1>4. Stacked(l, <<>>, {}) /\ LastCap(<<>>) = 0
  BY FS_EmptySet DEF Stacked, LastCap
<1>5. Start \in AccShape
  BY DEF Start, AccShape, PotShape, NoPot
<1>6. Start.floor = 0 /\ Start.pots = <<>> /\ Start.current = NoPot
  BY DEF Start
<1> QED
  BY <1>1, <1>2, <1>3, <1>4, <1>5, <1>6 DEF LayersTo

(* What the last turn of the loop leaves.                                  *)
LEMMA LoopEnds ==
  ASSUME NEW l, ValidLedger(l)
  PROVE  \E acc : /\ LayersTo(l, acc, AmountLevels(l))
                  /\ BuildPots(l) = [pots |-> Flush(acc).pots, refund |-> Flush(acc).refund]
<1> DEFINE L == AmountLevels(l)
<1>1. PICK g :
        /\ g[{}] = Start
        /\ \A s \in (SUBSET L) \ {{}} : g[s] = AddLayer(l, g[s \ {Max(s)}], Max(s))
        /\ BuildPots(l) = [pots |-> Flush(g[L]).pots, refund |-> Flush(g[L]).refund]
  BY BuildPotsIsFold
<1> DEFINE G == {s \in SUBSET L : Prefix(l, s) => LayersTo(l, g[s], s)}
<1>2. ASSUME NEW s \in SUBSET L, \A x \in s : s \ {x} \in G
      PROVE  s \in G
  <2> SUFFICES ASSUME Prefix(l, s)
               PROVE  LayersTo(l, g[s], s)
    OBVIOUS
  <2>1. CASE s = {}
    BY <1>1, <2>1, LoopStarts
  <2>2. CASE s # {}
    <3> DEFINE m == Max(s)
    <3>1. m \in s /\ (\A v \in s : v <= m) /\ \A v \in L : v \in Int
      BY <2>2, LevelsShape
    <3> HIDE DEF m
    <3>2. Prefix(l, s \ {m})
      BY <3>1 DEF Prefix
    <3>3. LayersTo(l, g[s \ {m}], s \ {m})
      BY <1>2, <3>1, <3>2
    <3>4. g[s] = AddLayer(l, g[s \ {m}], m)
      BY <1>1, <2>2 DEF m
    <3>5. LayersTo(l, AddLayer(l, g[s \ {m}], m), s)
      <4>1. s \in (SUBSET AmountLevels(l)) \ {{}}
        BY <2>2
      <4> HIDE DEF L
      <4>2. LayersTo(l, g[s \ {Max(s)}], s \ {Max(s)})
        BY <3>3 DEF m
      <4> QED
        BY <4>1, <4>2, LoopTurn DEF m
    <3> QED
      BY <3>4, <3>5
  <2> QED
    BY <2>1, <2>2
<1>3. L \in G
  <2>1. IsFiniteSet(L) /\ L \in SUBSET L
    BY LevelsShape
  <2> HIDE DEF G
  <2>2. \A T \in SUBSET L : (\A x \in T : T \ {x} \in G) => T \in G
    BY <1>2
  <2> HIDE DEF L
  <2>3. SUBSET L \subseteq G
    BY <2>1, <2>2, SubsetInduction
  <2> QED
    BY <2>1, <2>3
<1>4. Prefix(l, L)
  BY DEF Prefix
<1> QED
  BY <1>1, <1>3, <1>4

(* buildPots, without its loop.                                            *)
LEMMA BuildPotsIsLayers ==
  ASSUME NEW l, ValidLedger(l)
  PROVE  /\ Stacked(l, BuildPots(l).pots, PotCaps(l))
         /\ LastCap(BuildPots(l).pots) = Top(Contested(l))
         /\ Top(Contested(l)) \in Nat
         /\ BuildPots(l).refund = ReferenceRefund(l)
<1> DEFINE L == AmountLevels(l)
           m == Top(Contested(l))
<1>1. PICK acc : /\ LayersTo(l, acc, L)
                 /\ BuildPots(l) = [pots |-> Flush(acc).pots, refund |-> Flush(acc).refund]
  BY LoopEnds
<1> DEFINE last == LastCap(acc.pots)
           caps == Contested(l) \cap AllInCaps(l)
<1>2. L \cap Contested(l) = Contested(l)
  BY DEF Contested
<1>3. Matched(l, L) = m
  BY <1>2 DEF Matched
<1>4. /\ IsFiniteSet(L) /\ L \subseteq Nat \ {0} /\ L \subseteq Nat
      /\ IsFiniteSet(Contested(l)) /\ Contested(l) \subseteq Nat \ {0} /\ Contested(l) \subseteq Nat
  BY LevelsShape, FS_Subset DEF Contested
<1>5. m \in Nat /\ (m \in Contested(l) \/ m = 0) /\ \A v \in Contested(l) : v <= m
  BY <1>4, TopIsLargest
<1>6. /\ acc \in AccShape /\ acc.refund = Slice(l, m, Top(L))
      /\ Stacked(l, acc.pots, caps) /\ last <= m
      /\ acc.current = IF m = last THEN NoPot ELSE PotBetween(l, last, m)
  BY <1>1, <1>2, <1>3 DEF LayersTo
<1>7. last \in Nat /\ (last \in caps \/ last = 0)
  <2>1. CASE acc.pots = <<>>
    BY <2>1 DEF LastCap
  <2>2. CASE acc.pots # <<>>
    <3>1. acc.pots \in Seq(PotShape)
      BY <1>6 DEF Stacked
    <3>2. Len(acc.pots) \in DOMAIN acc.pots
      BY <3>1, <2>2
    <3>3. last \in {acc.pots[i].cap : i \in DOMAIN acc.pots}
      BY <3>2, <2>2 DEF LastCap
    <3> QED
      BY <3>3, <1>4, <1>6 DEF Stacked
  <2> QED
    BY <2>1, <2>2
<1>8. m = Max(Contested(l)) \/ Contested(l) = {}
  <2> SUFFICES ASSUME Contested(l) # {}
               PROVE  m = Max(Contested(l))
    OBVIOUS
  <2> DEFINE S == Contested(l)
             x == Max(S)
  <2>1. IsFiniteSet(S) /\ S \subseteq Nat /\ S \subseteq Int /\ S # {}
    BY <1>4
  <2> HIDE DEF S
  <2>2. x \in S /\ \A v \in S : v <= x
    BY <2>1, MaxOfFinite
  <2> HIDE DEF x
  <2>3. Top(S) = x
    BY <2>1, <2>2, TopIs
  <2> QED
    BY <2>3 DEF S, x
<1> HIDE DEF m, last, L
<1>9. BuildPots(l).refund = ReferenceRefund(l)
  <2>1. BuildPots(l).refund = acc.refund
    BY <1>1, <1>6 DEF Flush, AccShape
  <2>2. \A p \in Seats : l.amount[p] \in Nat /\ l.amount[p] <= Top(L)
    <3>1. Top(L) \in Nat /\ \A v \in L : v <= Top(L)
      BY <1>4, TopIsLargest
    <3>2. \A p \in Seats : l.amount[p] \in Nat /\ (l.amount[p] \in L \/ l.amount[p] = 0)
      BY DEF ValidLedger, AmountLevels, L
    <3> QED
      BY <3>1, <3>2
  <2>3. Top(L) \in Nat
    BY <1>4, TopIsLargest
  <2>4. Slice(l, m, Top(L)) = [p \in Seats |-> l.amount[p] - Least(l.amount[p], m)]
    BY <2>2, <2>3, <1>5 DEF Slice, Least
  <2>5. ReferenceRefund(l) = [p \in Seats |-> l.amount[p] - Least(l.amount[p], m)]
    BY DEF ReferenceRefund, m, Top
  <2> QED
    BY <2>1, <2>4, <2>5, <1>6
<1>10. CASE m = last
  <2>1. BuildPots(l).pots = acc.pots
    BY <1>1, <1>6, <1>10 DEF Flush, NoPot
  <2>2. PotCaps(l) = caps
    <3>1. CASE Contested(l) = {}
      BY <3>1 DEF PotCaps
    <3>2. CASE Contested(l) # {}
      <4>1. m \in Contested(l) /\ m # 0
        <5>1. PICK v \in Contested(l) : v > 0
          BY <3>2, <1>4
        <5> QED
          BY <5>1, <1>4, <1>5
      <4> QED
        BY <4>1, <3>2, <1>7, <1>8, <1>10 DEF PotCaps
    <3> QED
      BY <3>1, <3>2
  <2> QED
    BY <2>1, <2>2, <1>5, <1>6, <1>9, <1>10 DEF m, last
<1>11. CASE m # last
  <2>1. last < m /\ m \in Contested(l)
    BY <1>5, <1>6, <1>7, <1>11
  <2>2. PotBetween(l, last, m).amount > 0
    <3>1. PICK p \in Seats : l.amount[p] = m
      BY <2>1 DEF Contested, AmountLevels
    <3> QED
      BY <3>1, <2>1, <1>5, <1>7, PotHoldsChips
  <2>3. Flush(acc).pots = Append(acc.pots, PotBetween(l, last, m))
    <3>1. Flush(acc) = [acc EXCEPT !.pots = Append(@, acc.current), !.current = NoPot]
      BY <1>6, <1>11, <2>2 DEF Flush
    <3> QED
      BY <3>1, <1>6, <1>11 DEF AccShape
  <2>4. PotCaps(l) = caps \cup {m}
    BY <2>1, <1>8 DEF PotCaps
  <2>5. /\ Stacked(l, Append(acc.pots, PotBetween(l, last, m)), caps \cup {m})
        /\ LastCap(Append(acc.pots, PotBetween(l, last, m))) = m
    BY <1>5, <1>6, <2>1, StackedAppend DEF last
  <2> QED
    BY <1>1, <1>5, <1>9, <2>3, <2>4, <2>5 DEF m
<1> QED
  BY <1>10, <1>11

(* Pots stacked on all the caps are the pots the property describes.       *)
LEMMA StackedIsLayered ==
  ASSUME NEW l, NEW pots, Stacked(l, pots, PotCaps(l))
  PROVE  Layered(l, pots)
<1>1. pots \in Seq(PotShape) /\ Len(pots) = Cardinality(PotCaps(l))
  BY DEF Stacked
<1>2. DOMAIN pots = 1..Cardinality(PotCaps(l))
  BY <1>1
<1> QED
  BY <1>2 DEF Stacked, Layered

(* A sum of naturals, one of them positive, is positive.                   *)
LEMMA SumPositive ==
  ASSUME NEW S, NEW f, IntOver(f, S), \A y \in S : f[y] >= 0, NEW x \in S, f[x] > 0
  PROVE  SumOver(f, S) > 0
<1> DEFINE T == S \ {x}
           zero == [y \in S |-> 0]
<1>1. IsFiniteSet(T) /\ T \subseteq S /\ \A y \in S : f[y] \in Int
  BY FS_Subset DEF IntOver
<1>2. IntOver(f, T) /\ IntOver(zero, T) /\ \A y \in T : zero[y] <= f[y]
  BY <1>1 DEF IntOver
<1>3. \A y \in T : zero[y] = IF y \in {} THEN 0 ELSE 0
  BY <1>1
<1>4. /\ SumOver(f, S) = f[x] + SumOver(f, T) /\ SumOver(f, T) \in Int
  BY SumTakesOut
<1> HIDE DEF T, zero
<1>5. SumOver(zero, T) = 0 * Cardinality({})
  BY <1>1, <1>3, SumCounts
<1>6. SumOver(zero, T) <= SumOver(f, T)
  BY <1>2, SumMonotone
<1> QED
  BY <1>1, <1>4, <1>5, <1>6, FS_EmptySet

(* A sum of differences is the difference of the ends.                     *)
LEMMA Telescopes ==
  ASSUME NEW n \in Nat, NEW f, IntOver(f, 1..n), NEW h, \A i \in 0..n : h[i] \in Int,
         \A i \in 1..n : f[i] = h[i] - h[i - 1]
  PROVE  SumOver(f, 1..n) = h[n] - h[0]
<1> DEFINE G == {T \in SUBSET (1..n) :
                   \A k \in 0..n : T = 1..k => SumOver(f, T) = h[k] - h[0]}
<1>1. ASSUME NEW T \in SUBSET (1..n), \A x \in T : T \ {x} \in G
      PROVE  T \in G
  <2> SUFFICES ASSUME NEW k \in 0..n, T = 1..k
               PROVE  SumOver(f, T) = h[k] - h[0]
    OBVIOUS
  <2>1. IntOver(f, T)
    BY FS_Subset DEF IntOver
  <2>2. CASE k = 0
    <3>1. T = {}
      BY <2>2
    <3>2. SumOver(f, {}) = 0
      BY <2>1, <3>1, SumTakesOut
    <3>3. h[0] \in Int
      BY <2>2
    <3> QED
      BY <2>2, <3>1, <3>2, <3>3
  <2>3. CASE k # 0
    <3>1. k \in T /\ k \in 1..n /\ k - 1 \in 0..n /\ T \ {k} = 1..(k - 1) /\ 0 \in 0..n
      BY <2>3
    <3>2. SumOver(f, T \ {k}) = h[k - 1] - h[0]
      BY <1>1, <3>1
    <3>3. SumOver(f, T) = f[k] + SumOver(f, T \ {k})
      BY <2>1, <3>1, SumTakesOut
    <3>4. h[k] \in Int /\ h[k - 1] \in Int /\ h[0] \in Int /\ f[k] = h[k] - h[k - 1]
      BY <3>1
    <3> QED
      BY <3>2, <3>3, <3>4
  <2> QED
    BY <2>2, <2>3
<1>2. 1..n \in G
  <2> DEFINE S == 1..n
  <2>1. IsFiniteSet(S) /\ S \in SUBSET S
    BY DEF IntOver
  <2>2. \A T \in SUBSET S : (\A x \in T : T \ {x} \in G) => T \in G
    BY <1>1
  <2> HIDE DEF G, S
  <2>3. S \in G
    BY <2>1, <2>2, SubsetInduction
  <2> QED
    BY <2>3 DEF S
<1> QED
  BY <1>2

(* Slices taken between the caps of some pots, one above the other, make   *)
(* up the slice from the ground to the last cap.                           *)
Below(pots, i) == IF i = 1 THEN 0 ELSE pots[i - 1].cap

(* Whoever the ledger is of, the slices between those caps add up.         *)
LEMMA SlicesTelescope ==
  ASSUME NEW l, NEW pots, NEW caps, Stacked(l, pots, caps), NEW k, ValidLedger(k), NEW f,
         \A i \in DOMAIN pots : f[i] = PotBetween(k, Below(pots, i), pots[i].cap).amount
  PROVE  /\ IntOver(f, DOMAIN pots)
         /\ SumOver(f, DOMAIN pots) = PotBetween(k, 0, LastCap(pots)).amount
         /\ LastCap(pots) \in Int
<1> DEFINE n == Len(pots)
           cap(i) == IF i = 0 THEN 0 ELSE pots[i].cap
           h == [i \in 0..n |-> PotBetween(k, 0, cap(i)).amount]
<1>1. pots \in Seq(PotShape) /\ n \in Nat /\ DOMAIN pots = 1..n
  BY DEF Stacked
<1>2. \A i \in 1..n : pots[i].cap \in Int
  <2>1. \A i \in 1..n : pots[i] \in PotShape
    BY <1>1
  <2> QED
    BY <2>1 DEF PotShape
<1>3. \A x, y \in Int : PotBetween(k, x, y).amount \in Int
  BY SliceShape DEF PotShape
<1>4. \A i \in 0..n : cap(i) \in Int
  BY <1>1, <1>2
<1>5. \A i \in 0..n : h[i] \in Int
  BY <1>3, <1>4
<1>6. ASSUME NEW i \in 1..n
      PROVE  f[i] \in Int /\ f[i] = h[i] - h[i - 1]
  <2>1. i \in 0..n /\ i - 1 \in 0..n /\ i \in DOMAIN pots
    BY <1>1
  <2> DEFINE a == cap(i - 1)
             b == cap(i)
  <2>2. a = Below(pots, i) /\ b = pots[i].cap
    <3>1. i # 0 /\ (i - 1 = 0 <=> i = 1)
      OBVIOUS
    <3> QED
      BY <3>1 DEF Below
  <2>3. a \in Int /\ b \in Int
    BY <1>4, <2>1
  <2>4. f[i] = PotBetween(k, a, b).amount
    BY <2>1, <2>2
  <2>5. h[i] = PotBetween(k, 0, b).amount /\ h[i - 1] = PotBetween(k, 0, a).amount
    BY <2>1
  <2> HIDE DEF a, b, h
  <2>6. PotBetween(k, 0, b).amount = PotBetween(k, 0, a).amount + PotBetween(k, a, b).amount
    BY <2>3, SlicesAdd
  <2>7. PotBetween(k, 0, a).amount \in Int /\ PotBetween(k, a, b).amount \in Int
    BY <1>3, <2>3
  <2> QED
    BY <2>4, <2>5, <2>6, <2>7
<1>7. h[n] = PotBetween(k, 0, LastCap(pots)).amount /\ LastCap(pots) \in Int
  <2>1. n = 0 <=> pots = <<>>
    BY <1>1
  <2>2. LastCap(pots) = cap(n)
    BY <2>1 DEF LastCap
  <2> QED
    BY <2>2, <1>1, <1>4
<1>8. h[0] = 0
  <2>1. h[0] = PotBetween(k, 0, 0).amount
    BY <1>1
  <2>2. PotBetween(k, 0, 0).amount = PotBetween(k, 0, 0).amount + PotBetween(k, 0, 0).amount
    BY SlicesAdd
  <2>3. PotBetween(k, 0, 0).amount \in Int
    BY <1>3
  <2> QED
    BY <2>1, <2>2, <2>3
<1> HIDE DEF h, n
<1>9. IntOver(f, 1..n)
  <2>1. IsFiniteSet(1..n)
    BY <1>1, FS_Interval
  <2> QED
    BY <2>1, <1>6 DEF IntOver
<1>10. SumOver(f, 1..n) = h[n] - h[0]
  BY <1>1, <1>5, <1>6, <1>9, Telescopes
<1>11. h[n] \in Int
  BY <1>1, <1>5
<1>12. SumOver(f, 1..n) = h[n]
  BY <1>8, <1>10, <1>11
<1> QED
  BY <1>1, <1>7, <1>9, <1>12

(* The pots hold all that was paid up to the last cap.                     *)
LEMMA PotsHold ==
  ASSUME NEW l, ValidLedger(l), NEW pots, NEW caps, Stacked(l, pots, caps)
  PROVE  /\ IntOver([i \in DOMAIN pots |-> pots[i].amount], DOMAIN pots)
         /\ SumOver([i \in DOMAIN pots |-> pots[i].amount], DOMAIN pots)
              = PotBetween(l, 0, LastCap(pots)).amount
         /\ LastCap(pots) \in Int
<1> DEFINE f == [i \in DOMAIN pots |-> pots[i].amount]
<1>1. \A i \in DOMAIN pots : f[i] = PotBetween(l, Below(pots, i), pots[i].cap).amount
  BY DEF Stacked, Below
<1> HIDE DEF f
<1>2. /\ IntOver(f, DOMAIN pots) /\ LastCap(pots) \in Int
      /\ SumOver(f, DOMAIN pots) = PotBetween(l, 0, LastCap(pots)).amount
  BY <1>1, SlicesTelescope
<1> QED
  BY <1>2 DEF f

(* No chip gets lost: pots and refunds together are what was paid.         *)
LEMMA NothingLost ==
  ASSUME NEW l, ValidLedger(l)
  PROVE  LET b == BuildPots(l)
             amounts == [i \in DOMAIN b.pots |-> b.pots[i].amount]
         IN /\ IntOver(amounts, DOMAIN b.pots) /\ IntOver(b.refund, Seats)
            /\ IntOver(l.amount, Seats)
            /\ SumOver(amounts, DOMAIN b.pots) + SumOver(b.refund, Seats)
                 = SumOver(l.amount, Seats)
            /\ DOMAIN b.refund = Seats /\ \A p \in Seats : b.refund[p] >= 0
<1> DEFINE b == BuildPots(l)
           m == Top(Contested(l))
           amounts == [i \in DOMAIN b.pots |-> b.pots[i].amount]
<1>1. /\ Stacked(l, b.pots, PotCaps(l)) /\ LastCap(b.pots) = m /\ m \in Nat
      /\ b.refund = ReferenceRefund(l)
  BY BuildPotsIsLayers
<1> HIDE DEF b
<1>2. b.refund = [p \in Seats |-> l.amount[p] - Least(l.amount[p], m)]
  BY <1>1 DEF ReferenceRefund, Top
<1>3. \A p \in Seats : l.amount[p] \in Nat
  BY DEF ValidLedger
<1> HIDE DEF m
<1>4. IntOver(b.refund, Seats) /\ DOMAIN b.refund = Seats /\ \A p \in Seats : b.refund[p] >= 0
  BY <1>1, <1>2, <1>3, SeatsFinite DEF IntOver, Least
<1>5. \A p \in Seats : l.amount[p] = Slice(l, 0, m)[p] + b.refund[p]
  BY <1>1, <1>2, <1>3 DEF Slice, Least
<1>6. /\ IntOver(Slice(l, 0, m), Seats)
      /\ PotBetween(l, 0, m).amount = SumOver(Slice(l, 0, m), Seats)
  BY <1>1, SliceShape
<1>7. SumOver(l.amount, Seats) = SumOver(Slice(l, 0, m), Seats) + SumOver(b.refund, Seats)
  BY <1>4, <1>5, <1>6, SumPlus
<1>8. /\ IntOver(amounts, DOMAIN b.pots)
      /\ SumOver(amounts, DOMAIN b.pots) = PotBetween(l, 0, m).amount
  BY <1>1, PotsHold
<1>9. IntOver(l.amount, Seats)
  BY <1>3, SeatsFinite DEF IntOver
<1> QED
  BY <1>4, <1>6, <1>7, <1>8, <1>9 DEF b

(* Of k places counted from the lowest, exactly k are taken: a strict      *)
(* order ranks a finite set.                                               *)
LEMMA RanksFill ==
  ASSUME NEW W, IsFiniteSet(W), NEW d, \A x \in W : d[x] \in Int,
         \A x, y \in W : d[x] = d[y] => x = y
  PROVE  \A k \in 0..Cardinality(W) :
           Cardinality({x \in W : Cardinality({y \in W : d[y] < d[x]}) < k}) = k
<1> DEFINE lower(T, x) == {y \in T : d[y] < d[x]}
           first(T, k) == {x \in T : Cardinality(lower(T, x)) < k}
           G == {T \in SUBSET W : \A k \in 0..Cardinality(T) : Cardinality(first(T, k)) = k}
<1>1. \A T \in SUBSET W : IsFiniteSet(T) /\ Cardinality(T) \in Nat
  BY FS_Subset, FS_CardinalityType
<1>2. ASSUME NEW T \in SUBSET W, \A x \in T : T \ {x} \in G
      PROVE  T \in G
  <2>1. CASE T = {}
    <3>1. Cardinality(T) = 0 /\ \A k : Cardinality(first(T, k)) = 0
      BY <2>1, FS_EmptySet
    <3> HIDE DEF first
    <3> QED
      BY <3>1
  <2>2. CASE T # {}
    <3>1. PICK m \in T : \A x \in T : d[x] <= d[m]
      <4> DEFINE V == {d[x] : x \in T}
                 g == [x \in T |-> d[x]]
      <4>1. g \in Surjection(T, V)
        BY DEF Surjection
      <4>2. IsFiniteSet(V)
        <5> HIDE DEF g, V
        <5> QED
          BY <4>1, <1>1, FS_Surjection
      <4>3. V \subseteq Int /\ V # {}
        BY <2>2
      <4> HIDE DEF V
      <4>4. Max(V) \in V /\ \A v \in V : v <= Max(V)
        BY <4>2, <4>3, MaxOfFinite
      <4> QED
        BY <4>4 DEF V
    <3> DEFINE U == T \ {m}
               n == Cardinality(U)
    <3>2. U \in SUBSET W /\ U \in G /\ n \in Nat /\ Cardinality(T) = n + 1 /\ IsFiniteSet(U)
      <4>1. U \in SUBSET W /\ U \in G
        BY <1>2
      <4>2. IsFiniteSet(T) /\ IsFiniteSet(U) /\ n \in Nat /\ Cardinality(T) \in Nat
        BY <4>1, <1>1
      <4>3. n = Cardinality(T) - 1
        BY <4>2, FS_RemoveElement
      <4> HIDE DEF U, n
      <4> QED
        BY <4>1, <4>2, <4>3
    <3>3. \A x \in T : d[x] \in Int
      OBVIOUS
    <3>4. lower(T, m) = U
      BY <3>1, <3>3
    <3>5. \A x \in T : lower(T, x) = lower(U, x) /\ lower(T, x) \subseteq U
      BY <3>1, <3>3
    <3>6. \A x \in T : Cardinality(lower(T, x)) <= n /\ Cardinality(lower(T, x)) \in Nat
      BY <3>2, <3>5, <1>1, FS_Subset
    <3> HIDE DEF lower
    <3>7. ASSUME NEW k \in 0..(n + 1)
          PROVE  Cardinality(first(T, k)) = k
      <4>1. CASE k = n + 1
        <5>1. first(T, k) = T
          <6>1. \A x \in T : Cardinality(lower(T, x)) < k
            <7> TAKE x \in T
            <7> DEFINE c == Cardinality(lower(T, x))
            <7>1. c \in Nat /\ c <= n /\ n \in Nat /\ k = n + 1
              BY <3>2, <3>6, <4>1
            <7> HIDE DEF c, n
            <7> QED
              BY <7>1 DEF c
          <6> QED
            BY <6>1
        <5> QED
          BY <5>1, <3>2, <4>1
      <4>2. CASE k # n + 1
        <5>1. k \in 0..n
          BY <3>2, <4>2
        <5>2. m \notin first(T, k)
          <6>1. Cardinality(lower(T, m)) = n /\ n \in Nat
            BY <3>2, <3>4
          <6> HIDE DEF n
          <6> QED
            BY <5>1, <6>1
        <5>3. first(T, k) = first(U, k)
          BY <3>1, <3>5, <5>2
        <5>4. Cardinality(first(U, k)) = k
          <6> HIDE DEF first, U
          <6> QED
            BY <3>2, <5>1 DEF n
        <5> QED
          BY <5>3, <5>4
      <4> QED
        BY <4>1, <4>2
    <3> QED
      BY <3>2, <3>7
  <2> QED
    BY <2>1, <2>2
<1>3. W \in G
  <2>1. \A T \in SUBSET W : (\A x \in T : T \ {x} \in G) => T \in G
    BY <1>2
  <2>2. W \in SUBSET W
    OBVIOUS
  <2> HIDE DEF G
  <2> QED
    BY <2>1, <2>2, SubsetInduction
<1> QED
  BY <1>3

(* The order round the table, without the remainder.                       *)
LEMMA RoundTheTable ==
  ASSUME NEW seat \in 1..TableSize, NEW from \in 1..TableSize
  PROVE  ClockwiseDistance(seat, from)
           = IF seat > from THEN seat - from ELSE seat - from + TableSize
<1>1. TableSize \in Nat \ {0} /\ TableSize \in Int
  BY TableAssumption
<1> DEFINE d == seat - from + TableSize
<1>2. CASE seat > from
  <2>1. d = TableSize * 1 + (seat - from) /\ seat - from \in 0..(TableSize - 1)
    BY <1>1, <1>2
  <2>2. d % TableSize = seat - from
    <3> HIDE DEF d
    <3> QED
      BY <1>1, <2>1, DividesOnce
  <2> QED
    BY <1>1, <1>2, <2>2 DEF ClockwiseDistance
<1>3. CASE seat = from
  <2>1. d = TableSize * 1 + 0 /\ 0 \in 0..(TableSize - 1)
    BY <1>1, <1>3
  <2>2. d % TableSize = 0
    <3> HIDE DEF d
    <3> QED
      BY <1>1, <2>1, DividesOnce
  <2> QED
    BY <1>1, <1>3, <2>2 DEF ClockwiseDistance
<1>4. CASE seat < from
  <2>1. d = TableSize * 0 + d /\ d \in 0..(TableSize - 1) /\ d # 0
    BY <1>1, <1>4
  <2>2. d % TableSize = d
    <3> HIDE DEF d
    <3> QED
      BY <1>1, <2>1, DividesOnce
  <2> QED
    BY <1>1, <1>4, <2>1, <2>2 DEF ClockwiseDistance
<1> QED
  BY <1>2, <1>3, <1>4

(* A contested pot has a winner among its eligible players.                *)
LEMMA WinnersShape ==
  ASSUME NEW pot \in PotShape, NEW rank \in [Seats -> Int]
  PROVE  /\ Winners(pot, rank) \subseteq pot.eligible
         /\ Winners(pot, rank) \in SUBSET Seats /\ IsFiniteSet(Winners(pot, rank))
         /\ Cardinality(Winners(pot, rank)) \in Nat
         /\ pot.eligible # {} => Cardinality(Winners(pot, rank)) \in Nat \ {0}
<1> DEFINE E == pot.eligible
           W == Winners(pot, rank)
<1>1. E \in SUBSET Seats
  BY DEF PotShape
<1>2. W \subseteq E
  BY DEF Winners
<1>3. IsFiniteSet(E) /\ IsFiniteSet(W) /\ Cardinality(W) \in Nat
  BY <1>1, <1>2, SeatsFinite, FS_Subset, FS_CardinalityType
<1>4. ASSUME E # {}
      PROVE  W # {}
  <2> DEFINE V == {rank[x] : x \in E}
             g == [x \in E |-> rank[x]]
  <2>1. g \in Surjection(E, V)
    BY DEF Surjection
  <2>2. IsFiniteSet(V)
    <3> HIDE DEF g, V, E
    <3> QED
      BY <2>1, <1>3, FS_Surjection
  <2>3. V \subseteq Int /\ V # {}
    BY <1>1, <1>4
  <2> DEFINE v == Max(V)
  <2> HIDE DEF V
  <2>4. v \in V /\ \A w \in V : w <= v
    BY <2>2, <2>3, MaxOfFinite
  <2> HIDE DEF v
  <2>5. PICK x \in E : rank[x] = v
    BY <2>4 DEF V
  <2>6. \A q \in E : rank[x] >= rank[q]
    <3>1. \A q \in E : rank[q] \in V /\ rank[q] \in Int
      BY <1>1 DEF V
    <3> QED
      BY <2>4, <2>5, <3>1
  <2> QED
    BY <2>5, <2>6 DEF Winners
<1>5. E # {} => Cardinality(W) \in Nat \ {0}
  BY <1>3, <1>4, FS_EmptySet
<1> QED
  BY <1>1, <1>2, <1>3, <1>5

(* How a pot divides among w winners: odd chips are fewer than winners.    *)
LEMMA SharesDivide ==
  ASSUME NEW pot \in PotShape, NEW winners, NEW w \in Nat \ {0}, Cardinality(winners) = w,
         (pot.amount - Share(pot, winners) * Cardinality(winners)) % SmallestChip = 0
  PROVE  /\ Share(pot, winners) \in Int /\ Share(pot, winners) % SmallestChip = 0
         /\ OddChips(pot, winners) \in 0..w
         /\ pot.amount = Share(pot, winners) * w + SmallestChip * OddChips(pot, winners)
<1> DEFINE a == pot.amount
           c == SmallestChip
           k == w * c
           q == a \div k
           r == a % k
           share == Share(pot, winners)
           odd == OddChips(pot, winners)
<1>1. a \in Int /\ c \in Nat \ {0}
  BY SmallestChipAssumption DEF PotShape
<1>2. k \in Nat \ {0}
  <2> HIDE DEF a, c
  <2> QED
    BY <1>1
<1>3. a = k * q + r /\ r \in 0..(k - 1) /\ q \in Int
  <2> HIDE DEF a, k
  <2> QED
    BY <1>1, <1>2, Divides
<1>4. share = q * c
  BY DEF Share
<1> HIDE DEF q, r
<1>5. share \in Int /\ share % c = 0
  <2>1. share = c * q + 0 /\ 0 \in 0..(c - 1)
    <3> HIDE DEF c, share
    <3> QED
      BY <1>1, <1>3, <1>4
  <2>2. share \in Int
    <3> HIDE DEF c, share
    <3> QED
      BY <1>1, <1>3, <1>4
  <2> HIDE DEF c, share
  <2> QED
    BY <2>1, <2>2, <1>1, <1>3, DividesOnce
<1>6. a - share * w = r
  <2>1. k * q = share * w
    <3> HIDE DEF c, share
    <3> QED
      BY <1>1, <1>3, <1>4
  <2> HIDE DEF share, k, a
  <2> QED
    BY <2>1, <1>1, <1>2, <1>3, <1>5
<1>7. odd = r \div c /\ r % c = 0
  BY <1>6 DEF OddChips
<1> HIDE DEF share, odd, a
<1>8. r = c * odd /\ odd \in Int
  <2>1. r = c * (r \div c) + (r % c) /\ r \div c \in Int
    <3>1. r \in Int
      BY <1>2, <1>3
    <3> HIDE DEF c
    <3> QED
      BY <3>1, <1>1, Divides
  <2> HIDE DEF c
  <2> QED
    BY <2>1, <1>1, <1>7
<1>9. odd >= 0 /\ odd <= w
  <2>1. c * odd >= 0 /\ c * odd <= w * c
    <3>1. r >= 0 /\ r <= k
      BY <1>2, <1>3
    <3> QED
      BY <3>1, <1>8
  <2> HIDE DEF c, k
  <2>2. \A x \in Int : c * x >= 0 => x >= 0
    BY <1>1
  <2>3. c * (w - odd) >= 0
    BY <2>1, <1>1, <1>8
  <2>4. w - odd >= 0
    BY <2>2, <2>3, <1>8
  <2> QED
    BY <2>1, <2>2, <2>4, <1>8
<1>10. a = share * w + c * odd
  <2> HIDE DEF c, k
  <2>1. share * w \in Int
    BY <1>5
  <2> QED
    BY <2>1, <1>1, <1>2, <1>3, <1>6, <1>8
<1> QED
  BY <1>5, <1>8, <1>9, <1>10 DEF a, share, odd

(* What one contested pot pays.                                            *)
LEMMA AwardsPay ==
  ASSUME NEW pot \in PotShape, pot.eligible # {}, NEW rank \in [Seats -> Int],
         NEW from \in 1..TableSize, ~Indivisible(pot, rank)
  PROVE  LET a == Awards(pot, rank, from)
         IN /\ DOMAIN a = Seats /\ IntOver(a, Seats) /\ SumOver(a, Seats) = pot.amount
            /\ \A p \in Seats : /\ a[p] % SmallestChip = 0
                                /\ a[p] > 0 => p \in pot.eligible
            /\ \A p, q \in Seats :
                 /\ a[p] > 0 /\ a[q] > 0
                 /\ \/ p > from /\ q <= from
                    \/ (p > from <=> q > from) /\ p < q
                 => a[p] - a[q] \in {0, SmallestChip}
<1> DEFINE W == Winners(pot, rank)
           w == Cardinality(W)
           share == Share(pot, W)
           odd == OddChips(pot, W)
           d == [p \in Seats |-> ClockwiseDistance(p, from)]
           turn(p) == Cardinality({q \in W : d[q] < d[p]})
           lucky == {p \in W : turn(p) < odd}
           a == Awards(pot, rank, from)
           c == SmallestChip
<1>1. c \in Nat \ {0} /\ Seats \subseteq 1..TableSize /\ TableSize \in Nat
  BY SmallestChipAssumption, TableAssumption
<1>2. W \subseteq pot.eligible /\ W \in SUBSET Seats /\ IsFiniteSet(W) /\ w \in Nat \ {0}
  BY WinnersShape
<1>3. (pot.amount - Share(pot, W) * Cardinality(W)) % SmallestChip = 0
  BY DEF Indivisible
<1>4. share \in Int /\ share % c = 0 /\ odd \in 0..w /\ pot.amount = share * w + c * odd
  <2> HIDE DEF W
  <2> QED
    BY <1>2, <1>3, SharesDivide
<1>5. \A p \in Seats : d[p] = IF p > from THEN p - from ELSE p - from + TableSize
  BY <1>1, RoundTheTable
<1>6. \A p, q \in Seats : /\ d[p] \in Int
                          /\ d[p] = d[q] => p = q
                          /\ d[p] < d[q] <=> \/ p > from /\ q <= from
                                             \/ (p > from <=> q > from) /\ p < q
  <2> HIDE DEF d
  <2> QED
    BY <1>1, <1>5
<1>7. \A p \in Seats : a[p] = IF p \notin W THEN 0
                              ELSE share + (IF p \in lucky THEN c ELSE 0)
  <2>1. \A p \in Seats : p \in W => turn(p) = Cardinality({q \in W :
                     ClockwiseDistance(q, from) < ClockwiseDistance(p, from)})
    <3>1. ASSUME NEW p \in Seats
          PROVE  {q \in W : d[q] < d[p]} = {q \in W :
                     ClockwiseDistance(q, from) < ClockwiseDistance(p, from)}
      BY <1>2
    <3> QED
      BY <3>1
  <2> HIDE DEF turn, share, odd
  <2> QED
    BY <2>1 DEF Awards, share, odd
<1>8. DOMAIN a = Seats
  BY DEF Awards
<1>9. lucky \subseteq W /\ Cardinality(lucky) = odd
  <2>1. \A p \in W : d[p] \in Int
    BY <1>2, <1>6
  <2>2. \A p, q \in W : d[p] = d[q] => p = q
    BY <1>2, <1>6
  <2>3. odd \in 0..Cardinality(W)
    BY <1>4
  <2> HIDE DEF d, W, odd
  <2>4. \A k \in 0..Cardinality(W) :
          Cardinality({x \in W : Cardinality({y \in W : d[y] < d[x]}) < k}) = k
    BY ONLY <1>2, <2>1, <2>2, RanksFill
  <2> QED
    BY <2>3, <2>4
<1>10. ASSUME NEW p \in W, NEW q \in W, d[p] < d[q], q \in lucky
       PROVE  p \in lucky
  <2>1. d[p] \in Int /\ d[q] \in Int /\ \A r \in W : d[r] \in Int
    BY <1>2, <1>6
  <2> DEFINE lower(x) == {y \in W : d[y] < d[x]}
  <2> HIDE DEF d, W
  <2>2. lower(p) \in SUBSET lower(q) /\ lower(q) \in SUBSET W
    BY ONLY <1>10, <2>1
  <2> HIDE DEF lower, d, W
  <2>3. /\ Cardinality(lower(p)) \in Nat /\ Cardinality(lower(q)) \in Nat
        /\ Cardinality(lower(p)) <= Cardinality(lower(q))
    BY <1>2, <2>2, FS_Subset, FS_CardinalityType
  <2>4. Cardinality(lower(q)) < odd /\ odd \in Int
    BY <1>4, <1>10 DEF lower
  <2>5. Cardinality(lower(p)) < odd
    <3> HIDE DEF odd
    <3> QED
      BY <2>3, <2>4
  <2> QED
    BY <2>5 DEF lower
<1> HIDE DEF lucky, share, odd, d, a, c
<1>11. \A p \in Seats : a[p] \in Int /\ a[p] % c = 0
  <2>1. 0 % c = 0
    BY <1>1, DividesOnce
  <2>2. c % c = 0
    BY <1>1, DividesOnce
  <2>3. c \in Int /\ 0 \in Int
    BY <1>1
  <2>4. (share + c) % c = 0 /\ (share + 0) % c = 0
    BY <1>1, <1>4, <2>1, <2>2, <2>3, MultiplesAdd
  <2>5. share + c \in Int /\ share + 0 \in Int
    BY <1>1, <1>4
  <2> QED
    BY <1>7, <2>1, <2>3, <2>4, <2>5
<1>12. IntOver(a, Seats)
  BY <1>11, SeatsFinite DEF IntOver
<1>13. SumOver(a, Seats) = pot.amount
  <2> DEFINE f == [p \in Seats |-> IF p \in W THEN share ELSE 0]
             g == [p \in Seats |-> IF p \in lucky THEN c ELSE 0]
  <2>1. IntOver(f, Seats) /\ IntOver(g, Seats)
    BY <1>1, <1>4, SeatsFinite DEF IntOver
  <2>2. \A p \in Seats : a[p] = f[p] + g[p]
    BY <1>1, <1>4, <1>7, <1>9
  <2>3. \A p \in Seats : f[p] = IF p \in W THEN share ELSE 0
    OBVIOUS
  <2>4. \A p \in Seats : g[p] = IF p \in lucky THEN c ELSE 0
    OBVIOUS
  <2> HIDE DEF f, g
  <2>5. SumOver(a, Seats) = SumOver(f, Seats) + SumOver(g, Seats)
    BY <2>1, <2>2, SumPlus
  <2>6. SumOver(f, Seats) = share * w
    BY <2>3, <1>2, <1>4, SeatsFinite, SumCounts
  <2>7. SumOver(g, Seats) = c * odd
    <3>1. lucky \in SUBSET Seats /\ c \in Int
      BY <1>1, <1>2, <1>9
    <3> QED
      BY <3>1, <2>4, <1>9, SeatsFinite, SumCounts
  <2> QED
    BY <2>5, <2>6, <2>7, <1>4
<1>14. ASSUME NEW p \in Seats, NEW q \in Seats, a[p] > 0, a[q] > 0, d[p] < d[q]
       PROVE  a[p] - a[q] \in {0, c}
  <2>1. p \in W /\ q \in W
    BY <1>7, <1>14
  <2>2. q \in lucky => p \in lucky
    BY <1>10, <1>14, <2>1
  <2> QED
    BY <2>1, <2>2, <1>1, <1>4, <1>7
<1>15. \A p \in Seats : a[p] > 0 => p \in pot.eligible
  BY <1>2, <1>7
<1> QED
  BY <1>6, <1>8, <1>11, <1>12, <1>13, <1>14, <1>15 DEF a, c

-----------------------------------------------------------------------------
(* The pots the table shows hold what was paid (buildLivePots).            *)
LEMMA LiveTotalHolds ==
  ASSUME ValidLedger(ledger)
  PROVE  LiveTotal
<1> DEFINE l == ledger
           C == Contributors(l, 1)
           b == BuildPots(l)
           n == Len(b.pots)
           R == SumOver(b.refund, Seats)
           amounts == [i \in DOMAIN b.pots |-> b.pots[i].amount]
<1> SUFFICES ASSUME Cardinality(C) > 1, ~C \subseteq l.folded
             PROVE  Total(LivePots(l)) = Total(l.amount)
  BY DEF LiveTotal
<1>1. /\ IntOver(amounts, DOMAIN b.pots) /\ IntOver(b.refund, Seats) /\ IntOver(l.amount, Seats)
      /\ SumOver(amounts, DOMAIN b.pots) + R = SumOver(l.amount, Seats)
      /\ DOMAIN b.refund = Seats
  BY NothingLost
<1>2. \A p \in Seats : l.amount[p] \in Nat
  BY DEF ValidLedger
<1>3. C \in SUBSET Seats /\ IsFiniteSet(C) /\ \A p \in C : l.amount[p] >= 1
  BY SeatsFinite, FS_Subset DEF Contributors
<1>4. Total(l.amount) = SumOver(l.amount, Seats) /\ Total(b.refund) = R
  <2>1. DOMAIN l.amount = Seats
    BY DEF ValidLedger
  <2> QED
    BY <2>1, <1>1, TotalIsSum
<1>5. PICK x \in C : x \notin l.folded
  OBVIOUS
<1>6. SumOver(l.amount, Seats) \in Int /\ SumOver(l.amount, Seats) > 0
  <2>1. x \in Seats /\ l.amount[x] > 0 /\ \A p \in Seats : l.amount[p] >= 0
    BY <1>2, <1>3, <1>5
  <2> HIDE DEF l
  <2> QED
    BY <2>1, <1>1, SumPositive, SumTakesOut
<1> DEFINE paid == SumOver(l.amount, Seats)
<1>7. LivePots(l) = IF l.allIn = {} THEN <<paid>>
                    ELSE [i \in DOMAIN b.pots |->
                            b.pots[i].amount + (IF i = 1 THEN R ELSE 0)]
  <2>1. {p \in C : p \notin l.folded} # {}
    BY <1>5
  <2>2. Total(l.amount) = paid /\ paid # 0 /\ paid > 0
    BY <1>4, <1>6
  <2> HIDE DEF paid, R, l, b
  <2> QED
    BY <2>1, <2>2, <1>4 DEF LivePots, b
<1>8. CASE l.allIn = {}
  <2> DEFINE f == <<paid>>
  <2>1. DOMAIN f = {1} /\ f[1] = paid
    BY Z3
  <2>2. IntOver(f, {1})
    BY <2>1, <1>6, FS_Singleton DEF IntOver
  <2> HIDE DEF f
  <2>3. {1} \ {1} = {} /\ 1 \in {1}
    OBVIOUS
  <2>4. SumOver(f, {1}) = paid
    BY <2>1, <2>2, <2>3, <1>6, SumTakesOut
  <2>5. Total(f) = paid
    BY <2>1, <2>4, TotalIsSum
  <2> QED
    BY <2>5, <1>4, <1>7, <1>8 DEF f
<1>9. CASE l.allIn # {}
  <2> DEFINE S == DOMAIN b.pots
             live == [i \in S |-> b.pots[i].amount + (IF i = 1 THEN R ELSE 0)]
             g == [i \in S |-> IF i = 1 THEN R ELSE 0]
  <2>1. Contested(l) # {}
    <3>1. PICK p, q \in C : p # q
      <4> SUFFICES ASSUME \A p, q \in C : p = q
                   PROVE  FALSE
        OBVIOUS
      <4>1. C = {x}
        BY <1>5
      <4>2. Cardinality({x}) = 1
        BY FS_Singleton
      <4> HIDE DEF C
      <4> QED
        BY <4>1, <4>2
    <3> DEFINE v == Least(l.amount[p], l.amount[q])
               D == Contributors(l, v)
    <3>2. l.amount[p] \in Nat /\ l.amount[q] \in Nat /\ l.amount[p] >= 1 /\ l.amount[q] >= 1
      BY <1>2, <1>3
    <3>3. v \in AmountLevels(l)
      BY <3>2, <1>3 DEF AmountLevels, Least
    <3>4. p \in D /\ q \in D /\ D \in SUBSET Seats
      BY <3>2, <1>3 DEF Contributors, Least
    <3>5. Cardinality({p, q}) = 2 /\ IsFiniteSet({p, q})
      <4>1. IsFiniteSet({p}) /\ Cardinality({p}) = 1 /\ {p, q} = {p} \cup {q} /\ q \notin {p}
        BY <3>1, FS_Singleton
      <4>2. IsFiniteSet({p} \cup {q}) /\ Cardinality({p} \cup {q}) = Cardinality({p}) + 1
        BY <4>1, FS_AddElement
      <4> QED
        BY <4>1, <4>2
    <3> HIDE DEF D, v
    <3>6. IsFiniteSet(D) /\ {p, q} \in SUBSET D
      BY <3>4, SeatsFinite, FS_Subset
    <3>7. Cardinality({p, q}) <= Cardinality(D)
      BY <3>6, FS_Subset
    <3> QED
      BY <3>3, <3>5, <3>7 DEF Contested, D
  <2>2. b.pots \in Seq(PotShape) /\ n \in Nat /\ S = 1..n /\ n # 0
    <3>1. Stacked(l, b.pots, PotCaps(l))
      BY BuildPotsIsLayers
    <3>2. PotCaps(l) # {}
      BY <2>1 DEF PotCaps
    <3> HIDE DEF b
    <3>3. b.pots \in Seq(PotShape) /\ n \in Nat /\ S = 1..n
      BY <3>1 DEF Stacked
    <3>4. n # 0
      <4>1. {b.pots[i].cap : i \in DOMAIN b.pots} # {}
        BY <3>1, <3>2 DEF Stacked
      <4> QED
        BY <4>1, <3>3
    <3> QED
      BY <3>3, <3>4
  <2>3. 1 \in S /\ {1} \in SUBSET S /\ IsFiniteSet(S)
    <3> HIDE DEF n, b
    <3>1. IsFiniteSet(1..n)
      BY <2>2, FS_Interval
    <3> QED
      BY <2>2, <3>1
  <2>4. R \in Int
    BY <1>1, SumTakesOut
  <2>5. \A i \in S : /\ live[i] = amounts[i] + g[i]
                     /\ g[i] = IF i \in {1} THEN R ELSE 0
    OBVIOUS
  <2>6. IntOver(g, S)
    BY <2>3, <2>4 DEF IntOver
  <2>7. DOMAIN live = S
    OBVIOUS
  <2> HIDE DEF live, g, S, amounts, R, b
  <2>8. SumOver(g, S) = R * Cardinality({1})
    BY <2>3, <2>4, <2>5, SumCounts
  <2>9. Cardinality({1}) = 1
    BY FS_Singleton
  <2>10. SumOver(live, S) = SumOver(amounts, S) + SumOver(g, S)
    BY <1>1, <2>5, <2>6, SumPlus DEF S
  <2>11. SumOver(live, S) = paid
    BY <2>4, <2>8, <2>9, <2>10, <1>1 DEF S
  <2>12. Total(live) = paid
    BY <2>7, <2>11, TotalIsSum
  <2> QED
    BY <2>12, <1>4, <1>7, <1>9 DEF live, S
<1> QED
  BY <1>8, <1>9

-----------------------------------------------------------------------------
(* A player's slices between the caps and his refund are what he paid.     *)
LEMMA ChipsGoSomewhere ==
  ASSUME NEW l, ValidLedger(l), NEW p \in Seats, NEW f,
         LET b == BuildPots(l)
         IN \A i \in DOMAIN b.pots : f[i] = Slice(l, Below(b.pots, i), b.pots[i].cap)[p]
  PROVE  LET b == BuildPots(l)
         IN /\ IntOver(f, DOMAIN b.pots) /\ b.refund[p] \in Int
            /\ SumOver(f, DOMAIN b.pots) + b.refund[p] = l.amount[p]
<1> DEFINE b == BuildPots(l)
           m == Top(Contested(l))
           pots == b.pots
           n == Len(pots)
           cap(i) == IF i = 0 THEN 0 ELSE pots[i].cap
           a == l.amount[p]
           h == [i \in 0..n |-> Least(a, cap(i)) - Least(a, 0)]
<1>1. /\ Stacked(l, b.pots, PotCaps(l)) /\ LastCap(b.pots) = m /\ m \in Nat
      /\ b.refund = ReferenceRefund(l)
  BY BuildPotsIsLayers
<1>2. \A i \in DOMAIN pots : f[i] = Slice(l, Below(pots, i), pots[i].cap)[p]
  OBVIOUS
<1>3. a \in Nat /\ b.refund[p] = a - Least(a, m)
  BY <1>1 DEF ValidLedger, ReferenceRefund, Top
<1> HIDE DEF b, m
<1>4. pots \in Seq(PotShape) /\ n \in Nat /\ DOMAIN pots = 1..n
  BY <1>1 DEF Stacked
<1>5. \A i \in 0..n : cap(i) \in Int
  <2>1. \A i \in 1..n : pots[i] \in PotShape
    BY <1>4
  <2> QED
    BY <2>1, <1>4 DEF PotShape
<1> HIDE DEF a
<1>6. \A i \in 0..n : h[i] \in Int
  BY <1>3, <1>5 DEF Least
<1>7. ASSUME NEW i \in 1..n
      PROVE  f[i] \in Int /\ f[i] = h[i] - h[i - 1]
  <2>1. i \in 0..n /\ i - 1 \in 0..n /\ i \in DOMAIN pots
    BY <1>4
  <2> DEFINE c == cap(i - 1)
             d == cap(i)
  <2>2. c = Below(pots, i) /\ d = pots[i].cap
    <3>1. i # 0 /\ (i - 1 = 0 <=> i = 1)
      OBVIOUS
    <3> QED
      BY <3>1 DEF Below
  <2>3. c \in Int /\ d \in Int
    BY <1>5, <2>1
  <2>4. f[i] = Least(a, d) - Least(a, c)
    BY <1>2, <2>1, <2>2 DEF Slice, a
  <2>5. h[i] = Least(a, d) - Least(a, 0) /\ h[i - 1] = Least(a, c) - Least(a, 0)
    BY <2>1
  <2> HIDE DEF c, d, h
  <2> QED
    BY <1>3, <2>3, <2>4, <2>5 DEF Least
<1>8. h[n] = Least(a, m) /\ h[0] = 0
  <2>1. n = 0 <=> pots = <<>>
    BY <1>4
  <2>2. LastCap(pots) = cap(n)
    BY <2>1 DEF LastCap
  <2>3. h[n] = Least(a, m) - Least(a, 0) /\ h[0] = Least(a, 0) - Least(a, 0)
    BY <2>2, <1>1, <1>4
  <2> HIDE DEF h
  <2> QED
    BY <2>3, <1>1, <1>3 DEF Least
<1> HIDE DEF h, n
<1>9. IntOver(f, 1..n)
  <2>1. IsFiniteSet(1..n)
    BY <1>4, FS_Interval
  <2> QED
    BY <2>1, <1>7 DEF IntOver
<1>10. SumOver(f, 1..n) = h[n] - h[0]
  BY <1>4, <1>6, <1>7, <1>9, Telescopes
<1>11. SumOver(f, 1..n) + b.refund[p] = a /\ b.refund[p] \in Int
  BY <1>1, <1>3, <1>8, <1>10 DEF Least
<1> QED
  BY <1>4, <1>9, <1>11 DEF b, a

(* Every level that two players reach is reached by one who has not folded.*)
Covered(l) == \A v \in Contested(l) : \E p \in Seats \ l.folded : l.amount[p] >= v

(* Then every pot has somebody to win it.                                  *)
LEMMA EveryPotIsWinnable ==
  ASSUME NEW l, ValidLedger(l), Covered(l)
  PROVE  ~Unwinnable(BuildPots(l))
<1> DEFINE pots == BuildPots(l).pots
<1>1. Stacked(l, pots, PotCaps(l))
  BY BuildPotsIsLayers
<1> HIDE DEF pots
<1>2. SUFFICES ASSUME NEW i \in DOMAIN pots
               PROVE  pots[i].eligible # {}
  BY DEF Unwinnable, pots
<1> DEFINE low == Below(pots, i)
           high == pots[i].cap
<1>3. low < high /\ pots[i] = PotBetween(l, low, high) /\ high \in PotCaps(l)
  BY <1>1, <1>2 DEF Stacked, Below
<1>4. Contested(l) # {}
  BY <1>3 DEF PotCaps
<1>5. IsFiniteSet(Contested(l)) /\ Contested(l) \subseteq Nat \ {0}
  <2>1. Contested(l) \in SUBSET AmountLevels(l)
    BY DEF Contested
  <2> QED
    BY <2>1, LevelsShape, FS_Subset
<1>6. Max(Contested(l)) \in Contested(l) /\ \A v \in Contested(l) : v <= Max(Contested(l))
  <2>1. Contested(l) \subseteq Int
    BY <1>5
  <2> QED
    BY <2>1, <1>4, <1>5, MaxOfFinite
<1>7. high \in Contested(l)
  BY <1>3, <1>4, <1>6 DEF PotCaps
<1>8. PICK p \in Seats \ l.folded : l.amount[p] >= high
  BY <1>7 DEF Covered
<1>9. low \in Int /\ high \in Int /\ l.amount[p] \in Int
  <2>1. \A j \in DOMAIN pots : pots[j].cap \in Int
    BY <1>1 DEF Stacked
  <2>2. pots \in Seq(PotShape)
    BY <1>1 DEF Stacked
  <2>3. i # 1 => i - 1 \in DOMAIN pots
    BY <1>2, <2>2
  <2> QED
    BY <1>2, <2>1, <2>3 DEF ValidLedger, Below
<1>10. l.amount[p] > low
  BY <1>3, <1>8, <1>9
<1>11. p \in PotBetween(l, low, high).eligible
  BY <1>8, <1>10 DEF PotBetween
<1> QED
  BY <1>3, <1>11

(* The pots of a ledger on the rack are on the rack, and so divide among   *)
(* any number of winners.                                                  *)
LEMMA PotsDivide ==
  ASSUME NEW l, ValidLedger(l), \A p \in Seats : l.amount[p] % SmallestChip = 0,
         NEW i \in DOMAIN BuildPots(l).pots, NEW rank \in [Seats -> Int],
         BuildPots(l).pots[i].eligible # {}
  PROVE  ~Indivisible(BuildPots(l).pots[i], rank)
<1> DEFINE pots == BuildPots(l).pots
           pot == pots[i]
           low == Below(pots, i)
           high == pots[i].cap
<1>1. Stacked(l, pots, PotCaps(l))
  BY BuildPotsIsLayers
<1> HIDE DEF pots
<1>2. /\ i \in DOMAIN pots /\ pots \in Seq(PotShape) /\ pot \in PotShape
      /\ pot.eligible # {} /\ pot = PotBetween(l, low, high)
  <2>1. i \in DOMAIN pots /\ pot.eligible # {}
    BY DEF pots
  <2>2. pots \in Seq(PotShape)
    BY <1>1 DEF Stacked
  <2>3. pots[i] \in PotShape
    BY <2>1, <2>2
  <2>4. pots[i] = PotBetween(l, Below(pots, i), pots[i].cap)
    BY <2>1, <1>1 DEF Stacked, Below
  <2> QED
    BY <2>1, <2>2, <2>3, <2>4
<1>3. \A cap \in PotCaps(l) : cap \in Int /\ cap % SmallestChip = 0
  <2>1. PotCaps(l) \subseteq Contested(l)
    <3>1. Contested(l) \in SUBSET AmountLevels(l)
      BY DEF Contested
    <3>2. IsFiniteSet(Contested(l)) /\ Contested(l) \subseteq Int
      BY <3>1, LevelsShape, FS_Subset
    <3>3. Contested(l) # {} => Max(Contested(l)) \in Contested(l)
      BY <3>2, MaxOfFinite
    <3> QED
      BY <3>3 DEF PotCaps
  <2>2. \A v \in Contested(l) : v \in Int /\ v % SmallestChip = 0
    BY DEF Contested, AmountLevels, ValidLedger
  <2> QED
    BY <2>1, <2>2
<1>4. \A j \in DOMAIN pots : pots[j].cap \in PotCaps(l)
  BY <1>1 DEF Stacked
<1>5. /\ high \in Int /\ high % SmallestChip = 0
      /\ low \in Int /\ low % SmallestChip = 0
  <2>1. i # 1 => i - 1 \in DOMAIN pots
    BY <1>2
  <2>2. 0 % SmallestChip = 0
    <3>1. SmallestChip * 0 + 0 = 0 /\ 0 \in 0..(SmallestChip - 1)
      BY SmallestChipAssumption
    <3> QED
      BY <3>1, SmallestChipAssumption, DividesOnce
  <2> QED
    BY <1>2, <1>3, <1>4, <2>1, <2>2 DEF Below
<1>6. pot.amount = SumOver(Slice(l, low, high), Seats) /\ IntOver(Slice(l, low, high), Seats)
  BY <1>2, <1>5, SliceShape
<1>7. \A p \in Seats : Slice(l, low, high)[p] % SmallestChip = 0
  <2> SUFFICES ASSUME NEW p \in Seats
               PROVE  Slice(l, low, high)[p] % SmallestChip = 0
    OBVIOUS
  <2> DEFINE a == Least(l.amount[p], high)
             b == Least(l.amount[p], low)
  <2>1. a \in Int /\ a % SmallestChip = 0 /\ b \in Int /\ b % SmallestChip = 0
    BY <1>5 DEF ValidLedger, Least
  <2>2. Slice(l, low, high)[p] = a - b
    BY DEF Slice
  <2> HIDE DEF a, b
  <2> QED
    BY <2>1, <2>2, SmallestChipAssumption, MultiplesAdd
<1>8. pot.amount % SmallestChip = 0 /\ pot.amount \in Int
  BY <1>2, <1>6, <1>7, SmallestChipAssumption, SumMultiple DEF PotShape
<1> DEFINE winners == Winners(pot, rank)
           w == Cardinality(winners)
<1> HIDE DEF pot
<1>9. w \in Nat \ {0}
  BY <1>2, WinnersShape
<1> HIDE DEF winners
<1>10. ASSUME NEW c, c = SmallestChip, NEW q, q = pot.amount \div (w * c)
       PROVE  (pot.amount - (q * c) * w) % c = 0
  <2>1. c \in Nat \ {0} /\ w * c \in Nat \ {0}
    BY <1>9, <1>10, SmallestChipAssumption
  <2> HIDE DEF w
  <2>2. q \in Int
    BY <1>8, <1>10, <2>1, Divides
  <2>3. q * c = c * q + 0 /\ 0 \in 0..(c - 1)
    BY <2>1, <2>2
  <2>4. (q * c) * w = c * (q * w) + 0 /\ q * w \in Int
    BY <2>1, <2>2, <1>9
  <2>5. ((q * c) * w) % c = 0 /\ (q * c) * w \in Int
    BY <2>1, <2>2, <2>3, <2>4, <1>9, DividesOnce
  <2> QED
    BY <2>1, <2>5, <1>8, <1>10, MultiplesAdd
<1>11. (pot.amount - Share(pot, winners) * w) % SmallestChip = 0
  BY <1>10 DEF Share
<1> QED
  BY <1>11 DEF Indivisible, winners, pot, pots

(* A sum of naturals is a natural, and no less than any of them.           *)
LEMMA SumOfNats ==
  ASSUME NEW S, NEW f, IntOver(f, S), \A x \in S : f[x] >= 0
  PROVE  SumOver(f, S) \in Nat /\ \A x \in S : f[x] <= SumOver(f, S)
<1>1. ASSUME NEW T \in SUBSET S
      PROVE  SumOver(f, T) \in Int /\ SumOver(f, T) >= 0
  <2> DEFINE zero == [x \in T |-> 0]
  <2>1. IsFiniteSet(T) /\ IntOver(f, T) /\ IntOver(zero, T) /\ {} \in SUBSET T
    BY FS_Subset DEF IntOver
  <2>2. \A x \in T : zero[x] = (IF x \in {} THEN 0 ELSE 0) /\ zero[x] <= f[x]
    OBVIOUS
  <2> HIDE DEF zero
  <2>3. SumOver(zero, T) = 0 * Cardinality({})
    BY <2>1, <2>2, SumCounts
  <2>4. SumOver(zero, T) <= SumOver(f, T)
    BY <2>1, <2>2, SumMonotone
  <2> QED
    BY <2>1, <2>3, <2>4, FS_EmptySet, SumTakesOut
<1>2. ASSUME NEW x \in S
      PROVE  f[x] <= SumOver(f, S)
  <2>1. SumOver(f, S) = f[x] + SumOver(f, S \ {x}) /\ f[x] \in Int
    BY SumTakesOut DEF IntOver
  <2> QED
    BY <2>1, <1>1
<1> QED
  BY <1>1, <1>2

(* Nobody is paid a negative amount, more than the pot, or anything from a *)
(* pot he is not eligible for.                                             *)
LEMMA AwardsBounded ==
  ASSUME NEW pot \in PotShape, pot.eligible # {}, pot.amount >= 0,
         NEW rank \in [Seats -> Int], NEW from \in 1..TableSize, ~Indivisible(pot, rank)
  PROVE  \A p \in Seats :
           /\ Awards(pot, rank, from)[p] \in 0..pot.amount
           /\ p \notin pot.eligible => Awards(pot, rank, from)[p] = 0
<1> DEFINE a == Awards(pot, rank, from)
           winners == Winners(pot, rank)
           w == Cardinality(winners)
           share == Share(pot, winners)
<1>1. w \in Nat \ {0} /\ winners \subseteq pot.eligible
  BY WinnersShape
<1>2. pot.amount \in Int /\ SmallestChip \in Nat \ {0}
  BY SmallestChipAssumption DEF PotShape
<1>3. share \in Int /\ share >= 0
  <2> DEFINE k == w * SmallestChip
             q == pot.amount \div k
             r == pot.amount % k
  <2>1. k \in Nat \ {0}
    <3> HIDE DEF w
    <3> QED
      BY <1>1, <1>2
  <2>2. pot.amount = k * q + r /\ r \in 0..(k - 1) /\ q \in Int
    <3> HIDE DEF k
    <3> QED
      BY <1>2, <2>1, Divides
  <2>3. share = q * SmallestChip
    BY DEF Share
  <2> HIDE DEF q, r, k, share
  <2>4. q >= 0
    <3>1. ASSUME q <= -1
          PROVE  FALSE
      <4>1. k * (q + 1) <= 0
        BY <2>1, <2>2, <3>1
      <4>2. k * (q + 1) = k * q + k /\ k * q \in Int
        BY <2>1, <2>2
      <4> QED
        BY <4>1, <4>2, <2>1, <2>2, <1>2
    <3> QED
      BY <3>1, <2>2
  <2> QED
    BY <2>2, <2>3, <2>4, <1>2
<1>4. /\ IntOver(a, Seats) /\ SumOver(a, Seats) = pot.amount
  BY AwardsPay
<1>5. ASSUME NEW p \in Seats
      PROVE  /\ a[p] >= 0
             /\ p \notin pot.eligible => a[p] = 0
  <2> DEFINE turn == Cardinality({q \in winners :
                        ClockwiseDistance(q, from) < ClockwiseDistance(p, from)})
             odd == OddChips(pot, winners)
  <2>1. a[p] = IF p \notin winners THEN 0
               ELSE share + (IF turn < odd THEN SmallestChip ELSE 0)
    BY DEF Awards
  <2> HIDE DEF turn, odd, a, share, winners
  <2> QED
    BY <2>1, <1>1, <1>2, <1>3
<1> HIDE DEF a
<1>6. \A p \in Seats : a[p] \in Int /\ a[p] <= pot.amount
  BY <1>4, <1>5, SumOfNats DEF IntOver
<1> QED
  BY <1>2, <1>5, <1>6 DEF a

(* What everybody gets when the pots of b are paid and the rest returned.  *)
Won(b, rank, from, p) == [i \in DOMAIN b.pots |-> Awards(b.pots[i], rank, from)[p]]
Paying(b, rank, from) ==
  [p \in Seats |-> b.refund[p] + Total(Won(b, rank, from, p))]

Divisible(b, rank) == \A i \in DOMAIN b.pots : ~Indivisible(b.pots[i], rank)

(* The pots of a ledger, one by one.                                       *)
LEMMA PotsShape ==
  ASSUME NEW l, ValidLedger(l), NEW rank \in [Seats -> Int], NEW from \in 1..TableSize,
         ~Unwinnable(BuildPots(l)), Divisible(BuildPots(l), rank)
  PROVE  LET b == BuildPots(l)
         IN /\ IsFiniteSet(DOMAIN b.pots) /\ b.pots \in Seq(PotShape)
            /\ \A i \in DOMAIN b.pots :
                 LET pot == b.pots[i]
                     a == Awards(pot, rank, from)
                 IN /\ pot = PotBetween(l, Below(b.pots, i), pot.cap)
                    /\ pot.cap \in PotCaps(l) /\ Below(b.pots, i) < pot.cap
                    /\ pot.cap \in Int /\ Below(b.pots, i) \in Int /\ Below(b.pots, i) >= 0
                    /\ pot.amount \in Nat
                    /\ IntOver(a, Seats) /\ SumOver(a, Seats) = pot.amount
                    /\ \A p \in Seats : /\ a[p] \in 0..pot.amount
                                        /\ p \notin pot.eligible => a[p] = 0
<1> DEFINE pots == BuildPots(l).pots
<1>1. Stacked(l, pots, PotCaps(l))
  BY BuildPotsIsLayers
<1>2. \A i \in DOMAIN pots : pots[i].eligible # {} /\ ~Indivisible(pots[i], rank)
  BY DEF Unwinnable, Divisible
<1> HIDE DEF pots
<1>3. pots \in Seq(PotShape) /\ DOMAIN pots = 1..Len(pots) /\ Len(pots) \in Nat
  BY <1>1 DEF Stacked
<1>4. IsFiniteSet(DOMAIN pots)
  <2>1. IsFiniteSet(1..Len(pots))
    BY <1>3, FS_Interval
  <2> QED
    BY <2>1, <1>3
<1>5. \A i \in DOMAIN pots : pots[i].cap \in PotCaps(l) /\ pots[i].cap \in Int
  BY <1>1 DEF Stacked
<1>6. ASSUME NEW i \in DOMAIN pots
      PROVE  LET pot == pots[i]
                 a == Awards(pot, rank, from)
             IN /\ pot = PotBetween(l, Below(pots, i), pot.cap)
                /\ Below(pots, i) < pot.cap
                /\ Below(pots, i) \in Int /\ Below(pots, i) >= 0
                /\ pot.amount \in Nat
                /\ IntOver(a, Seats) /\ SumOver(a, Seats) = pot.amount
                /\ \A p \in Seats : /\ a[p] \in 0..pot.amount
                                    /\ p \notin pot.eligible => a[p] = 0
  <2> DEFINE pot == pots[i]
             low == Below(pots, i)
  <2>1. pot = PotBetween(l, low, pot.cap) /\ low < pot.cap
    BY <1>1 DEF Stacked, Below
  <2>2. low \in Int
    <3>1. i # 1 => i - 1 \in DOMAIN pots
      BY <1>3
    <3> QED
      BY <3>1, <1>5 DEF Below
  <2>3. low >= 0
    <3>1. \A v \in PotCaps(l) : v \in Int /\ v >= 0
      <4>1. Contested(l) \in SUBSET AmountLevels(l)
        BY DEF Contested
      <4>2. IsFiniteSet(Contested(l)) /\ Contested(l) \subseteq Nat
        BY <4>1, LevelsShape, FS_Subset
      <4>3. Contested(l) # {} => Max(Contested(l)) \in Contested(l)
        BY <4>2, MaxOfFinite
      <4> QED
        BY <4>2, <4>3 DEF PotCaps
    <3>2. i # 1 => i - 1 \in DOMAIN pots
      BY <1>3
    <3> QED
      BY <3>1, <3>2, <1>5 DEF Below
  <2>4. pot.cap \in Int
    BY <1>5
  <2> HIDE DEF low
  <2>5. pot \in PotShape
    BY <1>3
  <2>6. pot.eligible # {} /\ ~Indivisible(pot, rank)
    BY <1>2
  <2> HIDE DEF pot
  <2>7. /\ IntOver(Slice(l, low, pot.cap), Seats)
        /\ pot.amount = SumOver(Slice(l, low, pot.cap), Seats)
    BY <2>1, <2>2, <2>4, SliceShape
  <2>8. \A p \in Seats : Slice(l, low, pot.cap)[p] >= 0
    BY <2>1, <2>2, <2>4 DEF Slice, Least, ValidLedger
  <2>9. pot.amount \in Nat
    BY <2>7, <2>8, SumOfNats
  <2> DEFINE a == Awards(pot, rank, from)
  <2>10. /\ IntOver(a, Seats) /\ SumOver(a, Seats) = pot.amount
    BY <2>5, <2>6, AwardsPay
  <2>11. pot.amount >= 0
    BY <2>9
  <2>12. \A p \in Seats : a[p] \in 0..pot.amount /\ (p \notin pot.eligible => a[p] = 0)
    BY <2>5, <2>6, <2>11, AwardsBounded
  <2> QED
    BY <2>1, <2>2, <2>3, <2>9, <2>10, <2>12 DEF low, pot
<1> QED
  BY <1>3, <1>4, <1>5, <1>6 DEF pots

(* Caps are contested levels; and no cap lies between a pot's two.         *)
LEMMA ContestedCaps ==
  ASSUME NEW l, ValidLedger(l)
  PROVE  /\ PotCaps(l) \subseteq Contested(l)
         /\ Contested(l) \subseteq AmountLevels(l) /\ IsFiniteSet(Contested(l))
<1>1. Contested(l) \in SUBSET AmountLevels(l)
  BY DEF Contested
<1>2. IsFiniteSet(Contested(l)) /\ Contested(l) \subseteq Int
  BY <1>1, LevelsShape, FS_Subset
<1>3. Contested(l) # {} => Max(Contested(l)) \in Contested(l)
  BY <1>2, MaxOfFinite
<1> QED
  BY <1>1, <1>2, <1>3 DEF PotCaps

(* Caps do not fall from one pot to the next.                              *)
LEMMA CapsAscend ==
  ASSUME NEW l, NEW pots, NEW caps, Stacked(l, pots, caps),
         NEW i \in DOMAIN pots, NEW j \in DOMAIN pots, pots[j].cap > Below(pots, i)
  PROVE  pots[i].cap <= pots[j].cap
<1>1. DOMAIN pots = 1..Len(pots) /\ Len(pots) \in Nat
  BY DEF Stacked
<1>2. \A k \in DOMAIN pots : pots[k].cap \in Int /\ Below(pots, k) < pots[k].cap
  BY DEF Stacked, Below
<1> DEFINE G == {T \in SUBSET (1..Len(pots)) :
                   \A n \in DOMAIN pots : T = 1..n => \A k \in 1..n : pots[k].cap <= pots[n].cap}
<1>3. ASSUME NEW T \in SUBSET (1..Len(pots)), \A x \in T : T \ {x} \in G
      PROVE  T \in G
  <2> SUFFICES ASSUME NEW n \in DOMAIN pots, T = 1..n, NEW k \in 1..n
               PROVE  pots[k].cap <= pots[n].cap
    OBVIOUS
  <2>1. CASE k = n
    BY <2>1, <1>2
  <2>2. CASE k # n
    <3>1. n \in T /\ n - 1 \in DOMAIN pots /\ T \ {n} = 1..(n - 1) /\ k \in 1..(n - 1) /\ k \in DOMAIN pots
      BY <2>2, <1>1
    <3>2. pots[k].cap <= pots[n - 1].cap
      BY <3>1, <1>3
    <3>3. n # 1 /\ Below(pots, n) = pots[n - 1].cap
      BY <3>1, <1>1 DEF Below
    <3>4. pots[n - 1].cap < pots[n].cap /\ pots[n].cap \in Int /\ pots[n - 1].cap \in Int /\ pots[k].cap \in Int
      BY <3>1, <3>3, <1>2
    <3> QED
      BY <3>2, <3>4
  <2> QED
    BY <2>1, <2>2
<1>4. \A n \in DOMAIN pots : \A k \in 1..n : pots[k].cap <= pots[n].cap
  <2> DEFINE S == 1..Len(pots)
  <2>1. IsFiniteSet(S)
    BY <1>1, FS_Interval
  <2>2. \A T \in SUBSET S : (\A x \in T : T \ {x} \in G) => T \in G
    BY <1>3
  <2>3. \A n \in DOMAIN pots : 1..n \in SUBSET S
    BY <1>1
  <2> HIDE DEF G, S
  <2>4. SUBSET S \subseteq G
    BY <2>1, <2>2, SubsetInduction
  <2>5. \A n \in DOMAIN pots : 1..n \in G
    BY <2>3, <2>4
  <2> QED
    BY <2>5 DEF G
<1>5. CASE i <= j
  BY <1>1, <1>4, <1>5
<1>6. CASE j < i
  <2>1. i # 1 /\ i - 1 \in DOMAIN pots /\ j \in 1..(i - 1)
    BY <1>1, <1>6
  <2>2. pots[j].cap <= pots[i - 1].cap /\ Below(pots, i) = pots[i - 1].cap
    BY <2>1, <1>4 DEF Below
  <2> QED
    BY <2>1, <2>2, <1>2
<1> QED
  BY <1>1, <1>5, <1>6

(* What each gets is a natural, his refund and a sum over the pots; and    *)
(* what all get is what all paid, player by player or pot by pot.          *)
LEMMA PayingAddsUp ==
  ASSUME NEW l, ValidLedger(l), NEW rank, rank \in [Seats -> Int],
         NEW from, from \in 1..TableSize,
         NEW b, b = BuildPots(l), ~Unwinnable(b), Divisible(b, rank)
  PROVE  LET paid == Paying(b, rank, from)
         IN /\ IntOver(paid, Seats) /\ \A p \in Seats : paid[p] >= 0
            /\ SumOver(paid, Seats) = SumOver(l.amount, Seats)
            /\ \A p \in Seats :
                 /\ IntOver(Won(b, rank, from, p), DOMAIN b.pots) /\ b.refund[p] \in Int
                 /\ paid[p] = b.refund[p] + SumOver(Won(b, rank, from, p), DOMAIN b.pots)
<1> DEFINE S == DOMAIN b.pots
           amounts == [i \in S |-> b.pots[i].amount]
           won == [p \in Seats |-> Won(b, rank, from, p)]
           award == [i \in S |-> Awards(b.pots[i], rank, from)]
           sums == [p \in Seats |-> SumOver(won[p], S)]
           pots == [i \in S |-> SumOver(award[i], Seats)]
           paid == Paying(b, rank, from)
<1>1. /\ IntOver(amounts, S) /\ IntOver(b.refund, Seats)
      /\ SumOver(amounts, S) + SumOver(b.refund, Seats) = SumOver(l.amount, Seats)
      /\ \A p \in Seats : b.refund[p] >= 0
  BY NothingLost
<1>2. IsFiniteSet(S)
  BY <1>1 DEF IntOver
<1>3. \A i \in S : /\ IntOver(award[i], Seats) /\ SumOver(award[i], Seats) = amounts[i]
                   /\ \A p \in Seats : award[i][p] \in 0..amounts[i] /\ amounts[i] \in Nat
  BY PotsShape
<1>4. \A p \in Seats : \A i \in S : won[p][i] = award[i][p]
  BY DEF Won
<1>5. \A i \in S : pots[i] = amounts[i]
  BY <1>3
<1>6. \A p \in Seats : paid[p] = b.refund[p] + Total(won[p])
  BY DEF Paying
<1>7. \A p \in Seats : DOMAIN won[p] = S
  BY DEF Won
<1>8. (\A p \in Seats : sums[p] = SumOver(won[p], S)) /\ (\A i \in S : pots[i] = SumOver(award[i], Seats))
  OBVIOUS
<1>9. DOMAIN paid = Seats
  BY DEF Paying
<1>10. \A p \in Seats : won[p] = Won(b, rank, from, p)
  OBVIOUS
<1> HIDE DEF S, amounts, won, award, sums, pots, paid
<1>11. \A p \in Seats : \A i \in S : won[p][i] \in Nat /\ award[i][p] = won[p][i]
  BY <1>3, <1>4
<1>12. ASSUME NEW p \in Seats
       PROVE  /\ IntOver(won[p], S) /\ sums[p] \in Nat
              /\ paid[p] = b.refund[p] + SumOver(won[p], S)
              /\ paid[p] \in Int /\ paid[p] >= 0 /\ b.refund[p] \in Int
  <2>1. IntOver(won[p], S) /\ \A i \in S : won[p][i] >= 0
    BY <1>2, <1>11 DEF IntOver
  <2>2. SumOver(won[p], S) \in Nat
    BY <2>1, SumOfNats
  <2>3. Total(won[p]) = SumOver(won[p], S)
    BY <1>7, TotalIsSum
  <2>4. b.refund[p] \in Int /\ b.refund[p] >= 0
    BY <1>1 DEF IntOver
  <2> QED
    BY <2>1, <2>2, <2>3, <2>4, <1>6, <1>8
<1>13. SumOver(sums, Seats) = SumOver(pots, S)
  <2>1. Crossed(won, award, Seats, S) /\ SumsOf(sums, won, Seats, S) /\ SumsOf(pots, award, S, Seats)
    BY <1>8, <1>11 DEF Crossed, SumsOf
  <2> QED
    BY <1>2, <2>1, SeatsFinite, SumsSwap
<1>14. SumOver(pots, S) = SumOver(amounts, S)
  <2>1. \A i \in S : amounts[i] = pots[i]
    BY <1>5
  <2>2. SumOver(amounts, S) = SumOver(pots, S)
    BY <1>1, <2>1, SumSame
  <2> QED
    BY <2>2
<1>15. IntOver(sums, Seats) /\ IntOver(paid, Seats)
  BY <1>12, SeatsFinite DEF IntOver
<1>16. SumOver(paid, Seats) = SumOver(b.refund, Seats) + SumOver(sums, Seats)
  BY <1>1, <1>8, <1>12, <1>15, SumPlus
<1>17. SumOver(amounts, S) \in Int /\ SumOver(b.refund, Seats) \in Int
  BY <1>1, SumTakesOut
<1>18. SumOver(paid, Seats) = SumOver(l.amount, Seats)
  BY <1>1, <1>13, <1>14, <1>16, <1>17
<1> QED
  BY <1>10, <1>12, <1>15, <1>18 DEF S, paid

(* What p could win at most: from everybody as much as he paid himself.    *)
Stake(l, p) == [q \in Seats |-> Least(l.amount[q], l.amount[p])]

(* Nobody gets more from anybody than he paid himself: one who is all-in,  *)
(* because the pots above his last chip are not his; one who is not, if    *)
(* nobody paid more; and one who folded gets but his refund.               *)
LEMMA PayingIsBounded ==
  ASSUME NEW l, ValidLedger(l), NEW rank \in [Seats -> Int], NEW from \in 1..TableSize,
         NEW b, b = BuildPots(l), ~Unwinnable(b), Divisible(b, rank),
         NEW p \in Seats,
         p \in l.folded \/ p \in l.allIn \/ \A q \in Seats : l.amount[q] <= l.amount[p]
  PROVE  /\ Paying(b, rank, from)[p] <= SumOver(Stake(l, p), Seats)
         /\ IntOver(Stake(l, p), Seats)
<1> DEFINE S == DOMAIN b.pots
           mine == l.amount[p]
           matching == [q \in Seats |-> Least(l.amount[q], mine)]
           k == [amount |-> matching, folded |-> l.folded, allIn |-> l.allIn]
           m == Top(Contested(l))
           f == [i \in S |-> PotBetween(k, Below(b.pots, i), b.pots[i].cap).amount]
           won == Won(b, rank, from, p)
<1>1. /\ Stacked(l, b.pots, PotCaps(l)) /\ LastCap(b.pots) = m /\ m \in Nat
      /\ b.refund = ReferenceRefund(l)
  BY BuildPotsIsLayers
<1>2. \A q \in Seats : l.amount[q] \in Nat
  BY DEF ValidLedger
<1>3. mine \in Nat
  BY <1>2
<1>4. ValidLedger(k) /\ k.amount = matching /\ \A q \in Seats : matching[q] = Least(l.amount[q], mine)
  <2> HIDE DEF mine
  <2>1. matching \in [Seats -> Nat]
    BY <1>2, <1>3 DEF Least
  <2> HIDE DEF matching
  <2>2. k \in [amount : [Seats -> Nat], folded : SUBSET Seats, allIn : SUBSET Seats]
    BY <2>1 DEF ValidLedger
  <2> QED
    BY <2>2 DEF ValidLedger, matching
<1>5. /\ IntOver(won, S) /\ Paying(b, rank, from)[p] = b.refund[p] + SumOver(won, S)
      /\ b.refund[p] \in Int /\ \A i \in S : won[i] = Awards(b.pots[i], rank, from)[p]
  BY PayingAddsUp DEF Won
<1> HIDE DEF k, matching, won
<1>6. IntOver(f, S) /\ SumOver(f, S) = PotBetween(k, 0, m).amount
  <2>1. \A i \in S : f[i] = PotBetween(k, Below(b.pots, i), b.pots[i].cap).amount
    OBVIOUS
  <2> HIDE DEF f, m
  <2> QED
    BY <1>1, <1>4, <2>1, SlicesTelescope
<1>7. ASSUME NEW i \in S
      PROVE  won[i] <= f[i]
  <2> DEFINE pot == b.pots[i]
             low == Below(b.pots, i)
             high == pot.cap
             x == Slice(k, low, high)
             y == Slice(l, low, high)
  <2>1. /\ pot = PotBetween(l, low, high)
        /\ high \in PotCaps(l) /\ low < high /\ high \in Int /\ low \in Int /\ low >= 0
        /\ pot.amount \in Nat
        /\ won[i] \in 0..pot.amount
        /\ p \notin pot.eligible => won[i] = 0
    BY <1>5, PotsShape
  <2>2. f[i] = PotBetween(k, low, high).amount
    OBVIOUS
  <2> HIDE DEF won, f, pot, low
  <2>3. f[i] = SumOver(x, Seats) /\ IntOver(x, Seats)
    BY <2>1, <2>2, <1>4, SliceShape
  <2>4. pot.amount = SumOver(y, Seats) /\ IntOver(y, Seats)
    BY <2>1, SliceShape
  <2>5. \A q \in Seats : /\ x[q] = Least(matching[q], high) - Least(matching[q], low)
                         /\ y[q] = Least(l.amount[q], high) - Least(l.amount[q], low)
    BY <1>4 DEF Slice
  <2>6. CASE p \notin pot.eligible
    <3>1. \A q \in Seats : x[q] >= 0
      <4> HIDE DEF x, y, mine
      <4> QED
        BY <2>1, <2>5, <1>2, <1>3, <1>4 DEF Least
    <3>2. SumOver(x, Seats) \in Nat
      <4> HIDE DEF x
      <4> QED
        BY <2>3, <3>1, SumOfNats
    <3> QED
      BY <2>1, <2>3, <2>6, <3>2
  <2>7. CASE p \in pot.eligible
    <3>1. p \notin l.folded /\ mine > low
      BY <2>1, <2>7 DEF PotBetween
    <3>2. high <= mine \/ \A q \in Seats : l.amount[q] <= mine
      <4> SUFFICES ASSUME p \in l.allIn
                   PROVE  high <= mine
        BY <3>1
      <4>1. mine # 0 /\ mine \in AmountLevels(l) /\ mine \in AllInCaps(l)
        BY <2>1, <3>1, <1>3 DEF AmountLevels, AllInCaps
      <4> HIDE DEF mine
      <4>2. CASE mine \in Contested(l)
        <5>1. mine \in PotCaps(l)
          BY <4>1, <4>2 DEF PotCaps
        <5>2. PICK j \in S : b.pots[j].cap = mine
          BY <5>1, <1>1 DEF Stacked
        <5> QED
          BY <5>2, <3>1, <2>1, <1>1, <1>3, CapsAscend DEF low, pot
      <4>3. CASE mine \notin Contested(l)
        <5>1. high \in Contested(l)
          BY <2>1, ContestedCaps
        <5>2. high \in AmountLevels(l)
          BY <5>1 DEF Contested
        <5>3. ~(mine <= high)
          BY <4>1, <4>3, <5>1, <5>2, ContributorsShape
        <5> QED
          BY <5>3, <2>1, <1>3
      <4> QED
        BY <4>2, <4>3
    <3>3. \A q \in Seats : y[q] = x[q]
      <4> HIDE DEF x, y, mine
      <4> QED
        BY <2>1, <2>5, <3>1, <3>2, <1>2, <1>3, <1>4 DEF Least
    <3>4. SumOver(y, Seats) = SumOver(x, Seats)
      <4> HIDE DEF x, y
      <4> QED
        BY <3>3, <2>4, SumSame
    <3> QED
      BY <2>1, <2>3, <2>4, <3>4
  <2> QED
    BY <2>6, <2>7
<1> HIDE DEF won, f
<1>8. SumOver(won, S) <= SumOver(f, S) /\ SumOver(won, S) \in Int /\ SumOver(f, S) \in Int
  BY <1>5, <1>6, <1>7, SumMonotone, SumTakesOut
<1> DEFINE x == Slice(k, 0, m)
           back == [q \in Seats |-> IF q \in {p} THEN b.refund[p] ELSE 0]
           both == [q \in Seats |-> x[q] + back[q]]
<1>9. PotBetween(k, 0, m).amount = SumOver(x, Seats) /\ IntOver(x, Seats)
  BY <1>1, <1>4, SliceShape
<1>10. SumOver(back, Seats) = b.refund[p] /\ IntOver(back, Seats)
  <2>1. \A q \in Seats : back[q] = IF q \in {p} THEN b.refund[p] ELSE 0
    OBVIOUS
  <2>2. IntOver(back, Seats)
    BY <1>5, SeatsFinite DEF IntOver
  <2>3. {p} \in SUBSET Seats /\ Cardinality({p}) = 1
    BY FS_Singleton
  <2> HIDE DEF back
  <2>4. SumOver(back, Seats) = b.refund[p] * Cardinality({p})
    BY <2>1, <2>3, <1>5, SeatsFinite, SumCounts
  <2> QED
    BY <2>2, <2>3, <2>4, <1>5
<1>11. SumOver(both, Seats) = SumOver(x, Seats) + SumOver(back, Seats)
  <2>1. \A q \in Seats : both[q] = x[q] + back[q]
    OBVIOUS
  <2> HIDE DEF both, x, back
  <2> QED
    BY <2>1, <1>9, <1>10, SumPlus
<1>12. \A q \in Seats : both[q] \in Int /\ both[q] <= matching[q]
  <2> SUFFICES ASSUME NEW q \in Seats
               PROVE  both[q] \in Int /\ both[q] <= matching[q]
    OBVIOUS
  <2>1. x[q] = Least(matching[q], m) - Least(matching[q], 0)
    BY <1>4 DEF Slice
  <2>2. b.refund[p] = mine - Least(mine, m)
    BY <1>1 DEF ReferenceRefund, Top
  <2>3. matching[q] = Least(l.amount[q], mine) /\ l.amount[q] \in Nat
    BY <1>2, <1>4
  <2>4. both[q] = x[q] + (IF q = p THEN b.refund[p] ELSE 0) /\ (q = p => l.amount[q] = mine)
    OBVIOUS
  <2> HIDE DEF both, x, back, mine, m
  <2> QED
    BY <2>1, <2>2, <2>3, <2>4, <1>1, <1>3 DEF Least
<1>13. IntOver(both, Seats) /\ IntOver(matching, Seats)
  <2>1. \A q \in Seats : matching[q] \in Int
    BY <1>2, <1>3, <1>4 DEF Least
  <2> QED
    BY <2>1, <1>12, SeatsFinite DEF IntOver
<1>14. SumOver(both, Seats) <= SumOver(matching, Seats)
  <2> HIDE DEF both
  <2> QED
    BY <1>12, <1>13, SumMonotone
<1>15. Paying(b, rank, from)[p] <= SumOver(matching, Seats)
  <2>1. SumOver(matching, Seats) \in Int /\ SumOver(x, Seats) \in Int
    BY <1>9, <1>13, SumTakesOut
  <2> HIDE DEF x, back, both
  <2> QED
    BY <2>1, <1>5, <1>6, <1>8, <1>9, <1>10, <1>11, <1>14
<1> QED
  BY <1>13, <1>15 DEF matching, mine, Stake

(* A ledger on the rack is paid in chips of the rack.                      *)
LEMMA PayingOnRack ==
  ASSUME NEW l, ValidLedger(l), \A p \in Seats : l.amount[p] % SmallestChip = 0,
         NEW rank, rank \in [Seats -> Int], NEW from, from \in 1..TableSize,
         NEW b, b = BuildPots(l), ~Unwinnable(b), Divisible(b, rank),
         NEW p \in Seats
  PROVE  /\ Paying(b, rank, from)[p] % SmallestChip = 0
         /\ b.refund[p] \in Int
<1> DEFINE f == Won(b, rank, from, p)
           D == DOMAIN b.pots
           m == Top(Contested(l))
           k == SmallestChip
<1>1. /\ IntOver(f, D) /\ b.refund[p] \in Int
      /\ Paying(b, rank, from)[p] = b.refund[p] + SumOver(f, D)
  BY PayingAddsUp
<1>2. k \in Nat \ {0}
  BY SmallestChipAssumption
<1>3. \A i \in D : f[i] % k = 0
  <2> SUFFICES ASSUME NEW i \in D PROVE f[i] % k = 0
    OBVIOUS
  <2>1. b.pots[i] \in PotShape /\ ~Indivisible(b.pots[i], rank)
    BY PotsShape, ElementOfSeq DEF Divisible
  <2>2. b.pots[i].eligible # {}
    BY DEF Unwinnable
  <2>3. Awards(b.pots[i], rank, from)[p] % k = 0
    BY <2>1, <2>2, AwardsPay
  <2> QED
    BY <2>3 DEF Won
<1>4. b.refund[p] % k = 0
  <2>1. b.refund = ReferenceRefund(l) /\ m \in Nat
    BY BuildPotsIsLayers
  <2>2. m = 0 \/ \E q \in Seats : m = l.amount[q]
    <3>1. /\ Contested(l) \subseteq AmountLevels(l) /\ IsFiniteSet(Contested(l))
          /\ AmountLevels(l) \subseteq Nat
      BY ContestedCaps DEF AmountLevels, ValidLedger
    <3>2. m \in Contested(l) \cup {0}
      BY <3>1, TopIsLargest
    <3> QED
      BY <3>1, <3>2 DEF AmountLevels
  <2>3. b.refund[p] = l.amount[p] - Least(l.amount[p], m)
    BY <2>1 DEF ReferenceRefund, Top
  <2>4. l.amount[p] \in Nat
    BY DEF ValidLedger
  <2>5. m % k = 0
    BY <2>2, <1>2
  <2>6. b.refund[p] = 0 \/ b.refund[p] = l.amount[p] - m
    BY <2>3, <2>4, <2>1 DEF Least
  <2> DEFINE a == l.amount[p]
  <2>7. a \in Int /\ a % k = 0
    BY <2>4
  <2> HIDE DEF a, m, k
  <2>8. 0 % k = 0 /\ (a - m) % k = 0
    BY <2>7, <2>5, <2>1, <1>2, MultiplesAdd
  <2> QED
    BY <2>6, <2>8 DEF a
<1> HIDE DEF f, D, k
<1>5. SumOver(f, D) % k = 0 /\ SumOver(f, D) \in Int
  BY <1>1, <1>2, <1>3, SumMultiple, SumTakesOut
<1>6. (b.refund[p] + SumOver(f, D)) % k = 0
  BY <1>1, <1>2, <1>4, <1>5, MultiplesAdd
<1> QED
  BY <1>1, <1>6 DEF k
-----------------------------------------------------------------------------
handEndVars == <<vars, question, potVars, showdownVars>>

(* The pots were built from the ledger, and every pot was paid after one   *)
(* comparison of hands.                                                    *)
PaidBy(rank) ==
  /\ built = BuildPots(ledger) /\ ~Unwinnable(built)
  /\ \A i \in DOMAIN built.pots : ~Indivisible(built.pots[i], rank)
  /\ awards = [i \in DOMAIN built.pots |-> Awards(built.pots[i], rank, button)]

Settling ==
  /\ ValidLedger(ledger) /\ button \in Buttons
  /\ built = NotYet \/ built = BuildPots(ledger)
  /\ awards = NotYet \/ \E rank \in Ranks : PaidBy(rank)

(* It holds before anything is built.                                      *)
LEMMA SettlingStarts == HandEndInit => Settling
<1> SUFFICES ASSUME HandEndInit
             PROVE  Settling
  OBVIOUS
<1>1. CASE PotsInit
  BY <1>1, LedgersAssumption DEF PotsInit, Settling
<1>2. CASE IdlePots
  <2>1. ValidLedger([amount |-> [p \in Seats |-> 0], folded |-> {}, allIn |-> {}])
    BY DEF ValidLedger
  <2> QED
    BY <1>2, <2>1 DEF IdlePots, Settling
<1> QED
  BY <1>1, <1>2 DEF HandEndInit

(* Building and resolving keep it; so do the other two questions.          *)
LEMMA SettlingStays == Settling /\ [HandEndNext]_handEndVars => Settling'
<1> SUFFICES ASSUME Settling, [HandEndNext]_handEndVars
             PROVE  Settling'
  OBVIOUS
<1>1. CASE UNCHANGED potVars
  BY <1>1 DEF Settling, PaidBy, potVars
<1>2. CASE Build
  <2>1. built' = BuildPots(ledger) /\ ledger' = ledger /\ button' = button /\ awards' = awards
    BY <1>2 DEF Build
  <2>2. \A rank \in Ranks : PaidBy(rank) => PaidBy(rank)'
    BY <2>1 DEF PaidBy
  <2> QED
    BY <2>1, <2>2 DEF Settling
<1>3. CASE Resolve
  <2>1. built = BuildPots(ledger) /\ ~Unwinnable(built)
    BY <1>3 DEF Resolve, Settling
  <2>2. ledger' = ledger /\ button' = button /\ built' = built
    BY <1>3 DEF Resolve
  <2>3. PICK rank \in Ranks :
          /\ \A i \in DOMAIN built.pots : ~Indivisible(built.pots[i], rank)
          /\ awards' = [i \in DOMAIN built.pots |-> Awards(built.pots[i], rank, button)]
    BY <1>3 DEF Resolve
  <2>4. PaidBy(rank)'
    BY <2>1, <2>2, <2>3 DEF PaidBy
  <2> QED
    BY <2>2, <2>4 DEF Settling
<1> QED
  BY <1>1, <1>2, <1>3 DEF HandEndNext, PotsNext, handEndVars

(* Pots that were built are layers.                                        *)
LEMMA SettlingLayers == Settling => PotsAreLayers
<1> SUFFICES ASSUME ValidLedger(ledger), built = BuildPots(ledger)
             PROVE  Layered(ledger, built.pots) /\ built.refund = ReferenceRefund(ledger)
  BY DEF Settling, PotsAreLayers
<1> QED
  BY BuildPotsIsLayers, StackedIsLayered

(* The awards and refunds are what PayingAddsUp adds up.                   *)
LEMMA AwardsAddUp ==
  ASSUME Settling, NEW rank \in Ranks, PaidBy(rank)
  PROVE  AwardsTotal
<1> DEFINE paid == Paying(built, rank, button)
<1>1. /\ ValidLedger(ledger) /\ built = BuildPots(ledger)
      /\ ~Unwinnable(built) /\ Divisible(built, rank)
  BY DEF Settling, PaidBy, Divisible
<1>2. rank \in [Seats -> Int] /\ button \in 1..TableSize
  BY ShowdownAssumption DEF Settling
<1>3. SumOver(paid, Seats) = SumOver(ledger.amount, Seats)
  BY <1>1, <1>2, PayingAddsUp
<1>4. DOMAIN paid = Seats /\ DOMAIN ledger.amount = Seats
  BY <1>1 DEF Paying, ValidLedger
<1>5. Total(paid) = Total(ledger.amount)
  BY <1>3, <1>4, TotalIsSum
<1>6. paid = [p \in Seats |-> built.refund[p] + Total([i \in DOMAIN awards |-> awards[i][p]])]
  BY DEF Paying, Won, PaidBy
<1> QED
  BY <1>5, <1>6 DEF AwardsTotal

(* Awards from such pots pay everything.                                   *)
LEMMA SettlingPays == Settling => EverythingPaid
<1> SUFFICES ASSUME Settling
             PROVE  EverythingPaid
  OBVIOUS
<1>1. LiveTotal
  BY LiveTotalHolds DEF Settling
<1>2. ASSUME awards # NotYet
      PROVE  /\ AwardsTotal
             /\ \A i \in DOMAIN awards :
                  /\ OddChipsClockwise(awards[i])
                  /\ \A p \in Seats :
                       /\ awards[i][p] % SmallestChip = 0
                       /\ awards[i][p] > 0 => p \in built.pots[i].eligible
  <2>1. PICK rank \in Ranks : PaidBy(rank)
    BY <1>2 DEF Settling
  <2>2. AwardsTotal
    BY <2>1, AwardsAddUp
  <2>3. ASSUME NEW i \in DOMAIN awards
        PROVE  /\ OddChipsClockwise(awards[i])
               /\ \A p \in Seats :
                    /\ awards[i][p] % SmallestChip = 0
                    /\ awards[i][p] > 0 => p \in built.pots[i].eligible
    <3> DEFINE this == built.pots[i]
               a == awards[i]
    <3>1. Stacked(ledger, built.pots, PotCaps(ledger))
      BY <2>1, BuildPotsIsLayers DEF Settling, PaidBy
    <3>2. this \in PotShape /\ this.eligible # {} /\ ~Indivisible(this, rank)
      BY <2>1, <2>3, <3>1 DEF PaidBy, Unwinnable, Stacked
    <3>3. a = Awards(this, rank, button) /\ DOMAIN a = Seats
      BY <2>1, <2>3 DEF PaidBy, Awards
    <3>4. rank \in [Seats -> Int] /\ button \in 1..TableSize
      BY ShowdownAssumption DEF Settling
    <3> HIDE DEF this, a
    <3>5. /\ \A p \in Seats : /\ a[p] % SmallestChip = 0
                              /\ a[p] > 0 => p \in this.eligible
          /\ \A p, q \in Seats :
               /\ a[p] > 0 /\ a[q] > 0
               /\ \/ p > button /\ q <= button
                  \/ (p > button <=> q > button) /\ p < q
               => a[p] - a[q] \in {0, SmallestChip}
      BY <3>2, <3>3, <3>4, AwardsPay
    <3>6. OddChipsClockwise(a)
      BY <3>5 DEF OddChipsClockwise, Before
    <3> QED
      BY <3>5, <3>6 DEF this, a
  <2> QED
    BY <2>2, <2>3
<1> QED
  BY <1>1, <1>2 DEF EverythingPaid

(* For any ledger of any number of seats, the pots buildPots returns are   *)
(* the layers between the all-in caps that at least two players reach, and *)
(* the refund is what nobody matches.                                      *)
THEOREM BuildPeelsLayers == HandEndSpec => []PotsAreLayers
BY SettlingStarts, SettlingStays, SettlingLayers, PTL DEF HandEndSpec, handEndVars

(* For any ledger, any ranking of the hands and any button, the table      *)
(* shows all that was paid, the awards and refunds of buildPots and        *)
(* resolvePots return all of it in whole chips, only eligible players win, *)
(* and the odd chips go round from the button's left.                      *)
THEOREM NoChipIsLost == HandEndSpec => []EverythingPaid
BY SettlingStarts, SettlingStays, SettlingPays, PTL DEF HandEndSpec, handEndVars

-----------------------------------------------------------------------------
(* Hands: cards and their ranks.                                           *)
Cards == [rank : 2..14, suit : Suits]
Dealt(S) == S \subseteq Cards /\ IsFiniteSet(S)
Ints(R) == R \subseteq Int /\ IsFiniteSet(R)
Of(S, r) == {c \in S : c.rank = r}
Above(R, r) == {s \in R : s > r}

(* There are four suits.                                                   *)
LEMMA SuitsFour == IsFiniteSet(Suits) /\ Cardinality(Suits) = 4
<1>1. IsFiniteSet({}) /\ Cardinality({}) = 0
  BY FS_EmptySet
<1>2. IsFiniteSet({} \cup {"clubs"}) /\ Cardinality({} \cup {"clubs"}) = 1
  BY <1>1, FS_AddElement
<1>3. IsFiniteSet(({} \cup {"clubs"}) \cup {"diamonds"}) /\ Cardinality(({} \cup {"clubs"}) \cup {"diamonds"}) = 2
  <2>1. "diamonds" \notin {} \cup {"clubs"}
    OBVIOUS
  <2> QED
    BY <1>2, <2>1, FS_AddElement
<1>4. IsFiniteSet((({} \cup {"clubs"}) \cup {"diamonds"}) \cup {"hearts"})
      /\ Cardinality((({} \cup {"clubs"}) \cup {"diamonds"}) \cup {"hearts"}) = 3
  <2>1. "hearts" \notin ({} \cup {"clubs"}) \cup {"diamonds"}
    OBVIOUS
  <2> QED
    BY <1>3, <2>1, FS_AddElement
<1>5. IsFiniteSet(((({} \cup {"clubs"}) \cup {"diamonds"}) \cup {"hearts"}) \cup {"spades"})
      /\ Cardinality(((({} \cup {"clubs"}) \cup {"diamonds"}) \cup {"hearts"}) \cup {"spades"}) = 4
  <2>1. "spades" \notin (({} \cup {"clubs"}) \cup {"diamonds"}) \cup {"hearts"}
    OBVIOUS
  <2> QED
    BY <1>4, <2>1, FS_AddElement
<1>6. Suits = ((({} \cup {"clubs"}) \cup {"diamonds"}) \cup {"hearts"}) \cup {"spades"}
  BY DEF Suits
<1> QED
  BY <1>5, <1>6

(* There are finitely many cards.                                          *)
LEMMA CardsFinite == IsFiniteSet(Cards)
<1>1. IsFiniteSet(2..14)
  <2>1. 2 \in Int /\ 14 \in Int
    OBVIOUS
  <2> QED
    BY <2>1, FS_Interval
<1>2. IsFiniteSet((2..14) \X Suits)
  BY <1>1, SuitsFour, FS_Product
<1> DEFINE f == [p \in (2..14) \X Suits |-> [rank |-> p[1], suit |-> p[2]]]
<1>3. f \in Surjection((2..14) \X Suits, Cards)
  <2>1. \A p \in (2..14) \X Suits : f[p] \in Cards
    BY DEF Cards
  <2>2. \A c \in Cards : \E p \in (2..14) \X Suits : f[p] = c
    <3> SUFFICES ASSUME NEW c \in Cards
                 PROVE  \E p \in (2..14) \X Suits : f[p] = c
      OBVIOUS
    <3>1. <<c.rank, c.suit>> \in (2..14) \X Suits /\ f[<<c.rank, c.suit>>] = c
      BY DEF Cards
    <3> QED
      BY <3>1
  <2> HIDE DEF f
  <2>3. f \in [(2..14) \X Suits -> Cards]
    BY <2>1 DEF f
  <2> QED
    BY <2>2, <2>3 DEF Surjection
<1> HIDE DEF f
<1> QED
  BY <1>2, <1>3, FS_Surjection

(* The ranks of cards are those of the deck.                               *)
LEMMA RanksAre ==
  ASSUME NEW S, Dealt(S)
  PROVE  /\ RanksOf(S) \subseteq 2..14 /\ Ints(RanksOf(S))
         /\ S # {} => RanksOf(S) # {}
<1>1. RanksOf(S) \subseteq 2..14
  BY DEF Dealt, Cards, RanksOf
<1>2. IsFiniteSet(2..14)
  <2>1. 2 \in Int /\ 14 \in Int
    OBVIOUS
  <2> QED
    BY <2>1, FS_Interval
<1>3. IsFiniteSet(RanksOf(S))
  BY <1>1, <1>2, FS_Subset
<1>4. S # {} => RanksOf(S) # {}
  BY DEF RanksOf
<1> QED
  BY <1>1, <1>3, <1>4 DEF Ints

(* Part of the cards dealt are cards dealt.                                *)
LEMMA PartDealt ==
  ASSUME NEW S, Dealt(S), NEW T \in SUBSET S
  PROVE  /\ Dealt(T)
         /\ Cardinality(T) \in Nat /\ Cardinality(S) \in Nat
         /\ Cardinality(T) <= Cardinality(S)
         /\ Cardinality(T) = Cardinality(S) => T = S
  BY FS_Subset, FS_CardinalityType DEF Dealt

(* A rank has at most four cards, and one at least if it is there.         *)
LEMMA CountIs ==
  ASSUME NEW S, Dealt(S), NEW r
  PROVE  /\ Count(S, r) = Cardinality(Of(S, r)) /\ IsFiniteSet(Of(S, r))
         /\ Count(S, r) \in 0..4
         /\ Count(S, r) >= 1 <=> r \in RanksOf(S)
<1>1. Count(S, r) = Cardinality(Of(S, r))
  BY DEF Count, Of
<1>2. Of(S, r) \subseteq S /\ IsFiniteSet(Of(S, r)) /\ Cardinality(Of(S, r)) \in Nat
  BY FS_Subset, FS_CardinalityType DEF Of, Dealt
<1>3. Cardinality(Of(S, r)) <= 4
  <2> DEFINE f == [c \in Of(S, r) |-> c.suit]
  <2>1. \A c \in Of(S, r) : c \in Cards /\ c.rank = r /\ c.suit \in Suits
    BY DEF Of, Dealt, Cards
  <2>2. \A c, d \in Of(S, r) : c.suit = d.suit => c = d
    BY <2>1 DEF Cards
  <2>3. f \in Injection(Of(S, r), Suits)
    BY <2>1, <2>2 DEF Injection, IsInjective
  <2> HIDE DEF f
  <2> QED
    BY <2>3, SuitsFour, FS_Injection
<1>4. Cardinality(Of(S, r)) = 0 <=> Of(S, r) = {}
  BY <1>2, FS_EmptySet
<1>5. Of(S, r) # {} <=> r \in RanksOf(S)
  BY DEF Of, RanksOf
<1>6. Cardinality(Of(S, r)) >= 1 <=> r \in RanksOf(S)
  BY <1>2, <1>4, <1>5
<1> QED
  BY <1>1, <1>2, <1>3, <1>6

(* Of more cards there are more ranks, and no fewer of each.               *)
LEMMA MoreCards ==
  ASSUME NEW S, Dealt(S), NEW T \in SUBSET S
  PROVE  /\ RanksOf(T) \subseteq RanksOf(S)
         /\ \A r : Count(T, r) <= Count(S, r)
         /\ \A n \in Nat : AtLeast(T, n) \subseteq AtLeast(S, n)
<1>1. RanksOf(T) \subseteq RanksOf(S)
  BY DEF RanksOf
<1>2. ASSUME NEW r
      PROVE  Count(T, r) <= Count(S, r)
  <2>1. Of(T, r) \subseteq Of(S, r)
    BY DEF Of
  <2>2. Dealt(T)
    BY PartDealt
  <2> QED
    BY <2>1, <2>2, CountIs, FS_Subset
<1>3. ASSUME NEW n \in Nat, NEW r \in AtLeast(T, n)
      PROVE  r \in AtLeast(S, n)
  <2>1. Dealt(T)
    BY PartDealt
  <2>2. Count(T, r) \in Int /\ Count(S, r) \in Int
    BY <2>1, CountIs
  <2>3. r \in RanksOf(T) /\ Count(T, r) >= n
    BY <1>3 DEF AtLeast
  <2>4. Count(S, r) >= n
    BY <1>2, <2>2, <2>3
  <2> QED
    BY <1>1, <2>3, <2>4 DEF AtLeast
<1> QED
  BY <1>1, <1>2, <1>3

(* Taking the cards of a rank away.                                        *)
LEMMA Peel ==
  ASSUME NEW S, Dealt(S), NEW r
  PROVE  LET W == S \ Of(S, r)
         IN  /\ Dealt(W) /\ RanksOf(W) = RanksOf(S) \ {r}
             /\ \A q : q # r => Count(W, q) = Count(S, q)
             /\ Cardinality(W) = Cardinality(S) - Count(S, r)
<1> DEFINE W == S \ Of(S, r)
<1>1. Dealt(W)
  BY PartDealt
<1>2. RanksOf(W) = RanksOf(S) \ {r}
  BY DEF RanksOf, Of
<1>3. ASSUME NEW q, q # r
      PROVE  Count(W, q) = Count(S, q)
  <2>1. Of(W, q) = Of(S, q)
    BY <1>3 DEF Of
  <2> QED
    BY <2>1, <1>1, CountIs
<1>4. Cardinality(W) = Cardinality(S) - Count(S, r)
  <2>1. S \cap Of(S, r) = Of(S, r)
    BY DEF Of
  <2>2. Cardinality(S \ Of(S, r)) = Cardinality(S) - Cardinality(S \cap Of(S, r))
    BY FS_Difference DEF Dealt
  <2> QED
    BY <2>1, <2>2, CountIs
<1> QED
  BY <1>1, <1>2, <1>3, <1>4

(* Without a pair every card has a rank of its own.                        *)
LEMMA Distinct ==
  ASSUME NEW S, Dealt(S), AtLeast(S, 2) = {}
  PROVE  /\ Cardinality(RanksOf(S)) = Cardinality(S)
         /\ \A r \in RanksOf(S) : Count(S, r) = 1
<1>1. \A r \in RanksOf(S) : Count(S, r) = 1
  <2> SUFFICES ASSUME NEW r \in RanksOf(S)
               PROVE  Count(S, r) = 1
    OBVIOUS
  <2>1. Count(S, r) \in Int /\ Count(S, r) >= 1
    BY CountIs
  <2>2. ~(Count(S, r) >= 2)
    BY DEF AtLeast
  <2> QED
    BY <2>1, <2>2
<1>2. ASSUME NEW c \in S, NEW d \in S, c.rank = d.rank
      PROVE  c = d
  <2>1. c.rank \in RanksOf(S)
    BY DEF RanksOf
  <2>2. Cardinality(Of(S, c.rank)) = 1 /\ IsFiniteSet(Of(S, c.rank))
    BY <2>1, <1>1, CountIs
  <2>3. PICK x : Of(S, c.rank) = {x}
    BY <2>2, FS_Singleton
  <2>4. c \in Of(S, c.rank) /\ d \in Of(S, c.rank)
    BY <1>2 DEF Of
  <2> QED
    BY <2>3, <2>4
<1> DEFINE f == [c \in S |-> c.rank]
<1>3. f \in Bijection(S, RanksOf(S))
  <2>1. f \in [S -> RanksOf(S)]
    BY DEF RanksOf
  <2>2. \A r \in RanksOf(S) : \E c \in S : f[c] = r
    BY DEF RanksOf
  <2>3. f \in Injection(S, RanksOf(S))
    BY <2>1, <1>2 DEF Injection, IsInjective
  <2>4. f \in Surjection(S, RanksOf(S))
    BY <2>1, <2>2 DEF Surjection
  <2> QED
    BY <2>3, <2>4 DEF Bijection
<1>4. ExistsBijection(S, RanksOf(S))
  BY <1>3 DEF ExistsBijection
<1>5. Cardinality(RanksOf(S)) = Cardinality(S)
  BY <1>4, FS_Bijection DEF Dealt
<1> QED
  BY <1>1, <1>5

-----------------------------------------------------------------------------
(* The n-th highest of a set of ranks.                                     *)
Place(R, r) == Cardinality(Above(R, r)) + 1

(* A rank of a set has a place in it.                                      *)
LEMMA PlaceIs ==
  ASSUME NEW R, Ints(R), NEW r \in R
  PROVE  /\ IsFiniteSet(Above(R, r)) /\ Cardinality(Above(R, r)) = Place(R, r) - 1
         /\ Place(R, r) \in 1..Cardinality(R)
<1>1. Above(R, r) \subseteq R /\ r \notin Above(R, r)
  BY DEF Above, Ints
<1>2. IsFiniteSet(Above(R, r)) /\ Cardinality(Above(R, r)) \in Nat
      /\ Cardinality(Above(R, r)) <= Cardinality(R)
      /\ (Cardinality(Above(R, r)) = Cardinality(R) => R = Above(R, r))
      /\ Cardinality(R) \in Nat
  BY <1>1, FS_Subset, FS_CardinalityType DEF Ints
<1>3. Cardinality(Above(R, r)) # Cardinality(R)
  BY <1>1, <1>2
<1> QED
  BY <1>2, <1>3 DEF Place

(* The higher rank comes first.                                            *)
LEMMA PlacesDiffer ==
  ASSUME NEW R, Ints(R), NEW r \in R, NEW s \in R, r > s
  PROVE  Place(R, r) < Place(R, s)
<1>0. \A t \in R : t \in Int
  BY DEF Ints
<1>1. Above(R, r) \subseteq Above(R, s)
  BY <1>0 DEF Above
<1>2. r \in Above(R, s) /\ r \notin Above(R, r)
  BY DEF Above, Ints
<1>3. Cardinality(Above(R, r)) <= Cardinality(Above(R, s))
      /\ Cardinality(Above(R, r)) # Cardinality(Above(R, s))
  BY <1>1, <1>2, PlaceIs, FS_Subset
<1>4. Place(R, r) \in Int /\ Place(R, s) \in Int
      /\ Cardinality(Above(R, r)) = Place(R, r) - 1
      /\ Cardinality(Above(R, s)) = Place(R, s) - 1
  BY PlaceIs
<1> QED
  BY <1>3, <1>4

(* Every place of a set is the place of one of its ranks.                  *)
LEMMA NthIs ==
  ASSUME NEW R, Ints(R), NEW i \in 1..Cardinality(R)
  PROVE  Nth(R, i) \in R /\ Place(R, Nth(R, i)) = i
<1> DEFINE n == Cardinality(R)
           f == [r \in R |-> Place(R, r)]
<1>1. n \in Nat
  BY FS_CardinalityType DEF Ints
<1>2. f \in Injection(R, 1..n)
  <2>1. f \in [R -> 1..n]
    BY PlaceIs
  <2>2. \A r, s \in R : r # s => Place(R, r) # Place(R, s)
    <3> SUFFICES ASSUME NEW r \in R, NEW s \in R, r # s
                 PROVE  Place(R, r) # Place(R, s)
      OBVIOUS
    <3>1. r > s \/ s > r
      BY DEF Ints
    <3>2. Place(R, r) \in Int /\ Place(R, s) \in Int
      BY PlaceIs
    <3> QED
      BY <3>1, <3>2, PlacesDiffer
  <2> QED
    BY <2>1, <2>2 DEF Injection, IsInjective
<1> HIDE DEF n
<1>3. IsFiniteSet(1..n) /\ Cardinality(1..n) = n
  <2>1. 1 \in Int /\ n \in Int
    BY <1>1
  <2>2. IsFiniteSet(1..n) /\ Cardinality(1..n) = IF 1 > n THEN 0 ELSE n-1+1
    BY <2>1, FS_Interval
  <2> QED
    BY <1>1, <2>2
<1>4. f \in Surjection(R, 1..n)
  <2>1. IsFiniteSet(R) /\ Cardinality(R) = n
    BY DEF Ints, n
  <2> HIDE DEF f
  <2> QED
    BY <1>2, <1>3, <2>1, FS_Injection
<1>5. PICK r \in R : Place(R, r) = i
  BY <1>4 DEF Surjection, n
<1>6. \E s \in R : Cardinality({t \in R : t > s}) = i - 1
  <2>1. Cardinality(Above(R, r)) = i - 1
    BY <1>5, PlaceIs
  <2> QED
    BY <2>1 DEF Above
<1>7. Nth(R, i) \in R /\ Cardinality({t \in R : t > Nth(R, i)}) = i - 1
  BY <1>6 DEF Nth
<1>8. Cardinality(Above(R, Nth(R, i))) = i - 1
  BY <1>7 DEF Above
<1> QED
  BY <1>7, <1>8 DEF Place

(* The rank at the place of a rank is that rank.                           *)
LEMMA NthOfPlace ==
  ASSUME NEW R, Ints(R), NEW r \in R
  PROVE  Nth(R, Place(R, r)) = r
<1> DEFINE i == Place(R, r)
           x == Nth(R, i)
<1>1. i \in 1..Cardinality(R)
  BY PlaceIs
<1>2. x \in R /\ Place(R, x) = Place(R, r)
  BY <1>1, NthIs
<1> HIDE DEF x
<1>3. x \in Int /\ r \in Int /\ Place(R, x) \in Int
  <2>1. x \in Int /\ r \in Int
    BY <1>2 DEF Ints
  <2>2. Place(R, x) \in 1..Cardinality(R)
    BY <1>2, PlaceIs
  <2> QED
    BY <2>1, <2>2
<1>4. ~(x > r) /\ ~(r > x)
  BY <1>2, <1>3, PlacesDiffer
<1>5. x = r
  BY <1>3, <1>4
<1> QED
  BY <1>5 DEF x

(* Later places have lower ranks.                                          *)
LEMMA NthFalls ==
  ASSUME NEW R, Ints(R), NEW i \in 1..Cardinality(R), NEW j \in 1..Cardinality(R), i < j
  PROVE  Nth(R, i) > Nth(R, j)
<1> DEFINE x == Nth(R, i)
           y == Nth(R, j)
<1>1. x \in R /\ y \in R /\ Place(R, x) = i /\ Place(R, y) = j
  BY NthIs
<1> HIDE DEF x, y
<1>2. x # y /\ ~(y > x)
  BY <1>1, PlacesDiffer
<1>3. x > y
  BY <1>1, <1>2 DEF Ints
<1> QED
  BY <1>3 DEF x, y

(* The first is the highest.                                               *)
LEMMA FirstIsMax ==
  ASSUME NEW R, Ints(R), R # {}
  PROVE  1 \in 1..Cardinality(R) /\ Nth(R, 1) = Max(R)
<1> DEFINE m == Max(R)
<1>1. m \in R /\ \A v \in R : v <= m
  BY MaxOfFinite DEF Ints
<1>2. Above(R, m) = {}
  <2>1. \A v \in R : v \in Int /\ v <= m
    BY <1>1 DEF Ints
  <2> HIDE DEF m
  <2>2. \A v \in R : ~(v > m)
    BY <1>1, <2>1
  <2> QED
    BY <2>2 DEF Above
<1>3. Place(R, m) = 1
  BY <1>2, FS_EmptySet DEF Place
<1> HIDE DEF m
<1>4. Nth(R, 1) = m /\ 1 \in 1..Cardinality(R)
  BY <1>1, <1>3, NthOfPlace, PlaceIs
<1> QED
  BY <1>4 DEF m

(* Part of a set of ranks is no larger than all of it.                     *)
LEMMA SubsetSize ==
  ASSUME NEW T, Ints(T), NEW R \in SUBSET T
  PROVE  Ints(R) /\ Cardinality(R) \in Nat /\ Cardinality(T) \in Nat
         /\ Cardinality(R) <= Cardinality(T)
  BY FS_Subset, FS_CardinalityType DEF Ints

(* More ranks to choose from put none lower into a place.                  *)
LEMMA NthGrows ==
  ASSUME NEW T, Ints(T), NEW R \in SUBSET T, NEW i \in 1..Cardinality(R)
  PROVE  i \in 1..Cardinality(T) /\ Nth(R, i) <= Nth(T, i)
<1>0. Ints(R) /\ i \in 1..Cardinality(T)
  BY SubsetSize
<1> DEFINE x == Nth(R, i)
           y == Nth(T, i)
<1>1. x \in R /\ y \in T /\ Place(R, x) = i /\ Place(T, y) = i
  BY <1>0, NthIs
<1> HIDE DEF x, y
<1>2. ASSUME x > y
      PROVE  FALSE
  <2>1. Place(T, x) < i
    BY <1>1, <1>2, PlacesDiffer
  <2>2. Above(R, x) \subseteq Above(T, x)
    BY DEF Above
  <2>3. Cardinality(Above(R, x)) <= Cardinality(Above(T, x))
    BY <1>1, <2>2, PlaceIs, FS_Subset
  <2>4. Cardinality(Above(R, x)) = i - 1 /\ Cardinality(Above(T, x)) = Place(T, x) - 1
        /\ Place(T, x) \in Int
    BY <1>0, <1>1, PlaceIs
  <2> QED
    BY <2>1, <2>3, <2>4
<1>3. x <= y
  BY <1>1, <1>2 DEF Ints
<1> QED
  BY <1>0, <1>3 DEF x, y

Leading(R, k) == {Nth(R, i) : i \in 1..k}

(* The first k ranks of a set, listed, are the start of its list.          *)
LEMMA LeadingAre ==
  ASSUME NEW R, Ints(R), NEW k \in 0..Cardinality(R)
  PROVE  /\ Leading(R, k) \subseteq R /\ Cardinality(Leading(R, k)) = k
         /\ \A i \in 1..k : Nth(Leading(R, k), i) = Nth(R, i)
<1>0. Cardinality(R) \in Nat
  BY FS_CardinalityType DEF Ints
<1>1. \A i \in 1..k : i \in 1..Cardinality(R)
  BY <1>0
<1>2. Leading(R, k) \subseteq R
  BY <1>1, NthIs DEF Leading
<1>3. Ints(Leading(R, k))
  BY <1>2, SubsetSize
<1>4. IsFiniteSet(1..k) /\ Cardinality(1..k) = k
  <2>1. 1 \in Int /\ k \in Int
    BY <1>0
  <2>2. IsFiniteSet(1..k) /\ Cardinality(1..k) = IF 1 > k THEN 0 ELSE k-1+1
    BY <2>1, FS_Interval
  <2> QED
    BY <1>0, <2>2
<1>5. ExistsBijection(1..k, Leading(R, k))
  <2> DEFINE f == [i \in 1..k |-> Nth(R, i)]
  <2>1. f \in [1..k -> Leading(R, k)]
    BY DEF Leading
  <2>2. \A i, j \in 1..k : i # j => Nth(R, i) # Nth(R, j)
    <3> SUFFICES ASSUME NEW i \in 1..k, NEW j \in 1..k, Nth(R, i) = Nth(R, j)
                 PROVE  i = j
      OBVIOUS
    <3> QED
      BY <1>1, NthIs
  <2>3. f \in Injection(1..k, Leading(R, k))
    BY <2>1, <2>2 DEF Injection, IsInjective
  <2>4. f \in Surjection(1..k, Leading(R, k))
    BY <2>1 DEF Surjection, Leading
  <2> QED
    BY <2>3, <2>4 DEF ExistsBijection, Bijection
<1>6. Cardinality(Leading(R, k)) = k
  BY <1>4, <1>5, FS_Bijection
<1>7. ASSUME NEW i \in 1..k
      PROVE  Nth(Leading(R, k), i) = Nth(R, i)
  <2> DEFINE x == Nth(R, i)
  <2>1. x \in R /\ Place(R, x) = i /\ x \in Leading(R, k)
    BY <1>1, NthIs DEF Leading
  <2> HIDE DEF x
  <2>2. Above(Leading(R, k), x) = Above(R, x)
    <3>1. ASSUME NEW s \in R, s > x
          PROVE  s \in Leading(R, k)
      <4>1. Place(R, s) < i /\ Place(R, s) \in 1..Cardinality(R)
        BY <2>1, <3>1, PlacesDiffer, PlaceIs
      <4>2. Place(R, s) \in 1..k
        BY <1>0, <4>1
      <4>3. s = Nth(R, Place(R, s))
        BY <2>1, NthOfPlace
      <4> QED
        BY <4>2, <4>3 DEF Leading
    <3> QED
      BY <1>2, <3>1 DEF Above
  <2>3. Place(Leading(R, k), x) = i
    BY <2>1, <2>2 DEF Place
  <2>4. Nth(Leading(R, k), i) = x
    BY <1>3, <2>1, <2>3, NthOfPlace
  <2> QED
    BY <2>4 DEF x
<1> QED
  BY <1>2, <1>6, <1>7

(* All of a set, from the highest down.                                    *)
LEMMA LeadingAll ==
  ASSUME NEW R, Ints(R)
  PROVE  Cardinality(R) \in Nat /\ Leading(R, Cardinality(R)) = R
<1>1. Cardinality(R) \in Nat
  BY FS_CardinalityType DEF Ints
<1>2. Cardinality(R) \in 0..Cardinality(R)
  BY <1>1
<1>3. Leading(R, Cardinality(R)) \subseteq R /\ Cardinality(Leading(R, Cardinality(R))) = Cardinality(R)
  BY <1>2, LeadingAre
<1> QED
  BY <1>1, <1>3, FS_Subset DEF Ints

-----------------------------------------------------------------------------
(* Straights and groups.                                                   *)

(* The highest of some ranks, or 0 when there is none.                     *)
LEMMA BestOrZero ==
  ASSUME NEW X, X \subseteq 1..14
  PROVE  /\ X = {} => Max(X \cup {0}) = 0
         /\ X # {} => Max(X \cup {0}) \in X
         /\ \A x \in X : x <= Max(X \cup {0})
         /\ Max(X \cup {0}) \in 0..14
<1> DEFINE Y == X \cup {0}
<1>1. IsFiniteSet(0..14)
  <2>1. 0 \in Int /\ 14 \in Int
    OBVIOUS
  <2> QED
    BY <2>1, FS_Interval
<1>2. Y \subseteq 0..14 /\ 0 \in Y
  OBVIOUS
<1>3. IsFiniteSet(Y) /\ Y # {} /\ Y \subseteq Int
  <2> HIDE DEF Y
  <2>1. IsFiniteSet(Y)
    BY <1>1, <1>2, FS_Subset
  <2> QED
    BY <1>2, <2>1
<1>4. Max(Y) \in Y /\ \A v \in Y : v <= Max(Y)
  BY <1>3, MaxOfFinite
<1> DEFINE m == Max(Y)
<1>5. X # {} => m > 0
  <2>1. m \in X \cup {0} /\ \A v \in X : v <= m
    BY <1>4
  <2> HIDE DEF m, Y
  <2>2. ASSUME NEW x \in X
        PROVE  m > 0
    <3>1. x \in 1..14 /\ x <= m /\ m \in 0..14
      BY <2>1
    <3> QED
      BY <3>1
  <2> QED
    BY <2>2
<1>6. m \in X \cup {0} /\ (\A v \in X : v <= m) /\ (X # {} => m > 0)
  BY <1>4, <1>5
<1> HIDE DEF m
<1>7. /\ X = {} => m = 0
      /\ X # {} => m \in X
      /\ \A x \in X : x <= m
      /\ m \in 0..14
  BY <1>6
<1> QED
  BY <1>7 DEF m

(* The highest of some ranks.                                              *)
LEMMA MaxOfRanks ==
  ASSUME NEW X, X \subseteq 1..14, X # {}
  PROVE  /\ Ints(X) /\ Max(X) \in X /\ \A x \in X : x <= Max(X)
         /\ Max(X \cup {0}) = Max(X)
<1>1. IsFiniteSet(1..14)
  <2>1. 1 \in Int /\ 14 \in Int
    OBVIOUS
  <2> QED
    BY <2>1, FS_Interval
<1>2. X \subseteq Int /\ IsFiniteSet(X)
  <2>1. IsFiniteSet(X)
    BY <1>1, FS_Subset
  <2> QED
    BY <2>1
<1>3. Max(X) \in X /\ \A x \in X : x <= Max(X)
  BY <1>2, MaxOfFinite
<1>4. Max(X \cup {0}) \in X /\ \A x \in X : x <= Max(X \cup {0})
  BY BestOrZero
<1>5. Max(X) = Max(X \cup {0})
  <2> DEFINE m == Max(X)
             n == Max(X \cup {0})
  <2>1. m \in X /\ n \in X /\ m <= n /\ n <= m
    BY <1>3, <1>4
  <2> HIDE DEF m, n
  <2>2. m = n
    BY <2>1
  <2> QED
    BY <2>2 DEF m, n
<1> QED
  BY <1>2, <1>3, <1>5 DEF Ints

(* The ranks of a straight.                                                *)
Run(h) == {IF h - i = 1 THEN 14 ELSE h - i : i \in 0..4}

(* A straight is five ranks.                                               *)
LEMMA RunIs ==
  ASSUME NEW h \in 5..14
  PROVE  Run(h) \subseteq 2..14 /\ Cardinality(Run(h)) = 5 /\ Ints(Run(h))
<1> DEFINE f == [i \in 0..4 |-> IF h - i = 1 THEN 14 ELSE h - i]
<1>1. Run(h) \subseteq 2..14
  BY DEF Run
<1>2. f \in [0..4 -> Run(h)]
  BY DEF Run
<1>3. f \in Injection(0..4, Run(h))
  <2>1. \A i, j \in 0..4 : f[i] = f[j] => i = j
    OBVIOUS
  <2> QED
    BY <1>2, <2>1 DEF Injection, IsInjective
<1>4. f \in Surjection(0..4, Run(h))
  BY <1>2 DEF Surjection, Run
<1>5. ExistsBijection(0..4, Run(h))
  BY <1>3, <1>4 DEF ExistsBijection, Bijection
<1>6. IsFiniteSet(0..4) /\ Cardinality(0..4) = 5
  <2>1. 0 \in Int /\ 4 \in Int
    OBVIOUS
  <2>2. IsFiniteSet(0..4) /\ Cardinality(0..4) = IF 0 > 4 THEN 0 ELSE 4-0+1
    BY <2>1, FS_Interval
  <2> QED
    BY <2>2
<1>7. IsFiniteSet(Run(h)) /\ Cardinality(Run(h)) = 5
  BY <1>5, <1>6, FS_Bijection
<1> QED
  BY <1>1, <1>7 DEF Ints

(* A set of ranks holds the straights whose ranks it has.                  *)
LEMMA StraightsAre ==
  ASSUME NEW R
  PROVE  /\ Straights(R) = {h \in 5..14 : Run(h) \subseteq R}
         /\ Straights(R) \subseteq 1..14
<1>1. ASSUME NEW h \in 5..14
      PROVE  (\A i \in 0..4 : IF h - i = 1 THEN 14 \in R ELSE h - i \in R) <=> Run(h) \subseteq R
  <2>1. (\A i \in 0..4 : IF h - i = 1 THEN 14 \in R ELSE h - i \in R)
          <=> \A i \in 0..4 : (IF h - i = 1 THEN 14 ELSE h - i) \in R
    OBVIOUS
  <2> QED
    BY <2>1 DEF Run
<1>2. Straights(R) = {h \in 5..14 : Run(h) \subseteq R}
  BY <1>1 DEF Straights
<1> QED
  BY <1>2

(* More ranks hold more straights.                                         *)
LEMMA StraightsGrow ==
  ASSUME NEW T, NEW R \in SUBSET T
  PROVE  Straights(R) \subseteq Straights(T)
  BY StraightsAre

(* The evaluator's straight is the rules'.                                 *)
LEMMA HighStraight ==
  ASSUME NEW R, R \subseteq 2..14
  PROVE  StraightHigh(R) = Max(Straights(R) \cup {0})
<1> DEFINE unique == R \cup (IF 14 \in R THEN {1} ELSE {})
           H == {high \in unique : (high - 4)..high \subseteq unique}
<1>1. unique \subseteq 1..14
  OBVIOUS
<1>2. \A x \in 2..14 : x \in unique <=> x \in R
  OBVIOUS
<1>3. 1 \in unique <=> 14 \in R
  OBVIOUS
<1> HIDE DEF unique
<1>4. ASSUME NEW h \in H
      PROVE  h \in Straights(R)
  <2>1. h \in 1..14 /\ \A x \in (h - 4)..h : x \in unique
    BY <1>1
  <2>2. h - 4 \in unique
    BY <2>1
  <2>3. h \in 5..14
    BY <1>1, <2>1, <2>2
  <2>4. ASSUME NEW i \in 0..4
        PROVE  IF h - i = 1 THEN 14 \in R ELSE h - i \in R
    <3>1. h - i \in (h - 4)..h /\ h - i \in 1..14
      BY <2>3
    <3>2. h - i \in unique
      BY <2>1, <3>1
    <3>3. CASE h - i = 1
      BY <3>2, <3>3, <1>3
    <3>4. CASE h - i # 1
      BY <3>1, <3>2, <3>4, <1>2
    <3> QED
      BY <3>3, <3>4
  <2> QED
    BY <2>3, <2>4 DEF Straights
<1>5. ASSUME NEW h \in Straights(R)
      PROVE  h \in H
  <2>1. h \in 5..14 /\ \A i \in 0..4 : IF h - i = 1 THEN 14 \in R ELSE h - i \in R
    BY DEF Straights
  <2>2. ASSUME NEW x \in (h - 4)..h
        PROVE  x \in unique
    <3>1. h - x \in 0..4 /\ h - (h - x) = x /\ x \in 1..14
      BY <2>1
    <3>2. IF h - (h - x) = 1 THEN 14 \in R ELSE h - (h - x) \in R
      BY <2>1, <3>1
    <3>3. IF x = 1 THEN 14 \in R ELSE x \in R
      BY <3>1, <3>2
    <3>4. CASE x = 1
      BY <3>3, <3>4, <1>3
    <3>5. CASE x # 1
      BY <3>1, <3>3, <3>5, <1>2
    <3> QED
      BY <3>4, <3>5
  <2>3. h \in (h - 4)..h
    BY <2>1
  <2> QED
    BY <2>2, <2>3
<1>6. H = Straights(R)
  BY <1>4, <1>5
<1>7. StraightHigh(R) = Max(H \cup {0})
  BY DEF StraightHigh, unique
<1> QED
  BY <1>6, <1>7

(* A listing of the ranks that follows the order is Groups.                *)
LEMMA GroupsAre ==
  ASSUME NEW S, Dealt(S), NEW n \in Nat, NEW g \in [1..n -> RanksOf(S)],
         \A r \in RanksOf(S) : \E i \in 1..n : g[i] = r,
         \A i, j \in 1..n : i < j => Precedes(S, g[i], g[j])
  PROVE  Groups(S) = g /\ Cardinality(RanksOf(S)) = n
<1> DEFINE R == RanksOf(S)
           Before_(b) == {a \in R : Precedes(S, a, b)}
<1>1. \A a, b \in R : ~(Precedes(S, a, b) /\ Precedes(S, b, a))
  <2> SUFFICES ASSUME NEW a \in R, NEW b \in R, Precedes(S, a, b), Precedes(S, b, a)
               PROVE  FALSE
    OBVIOUS
  <2>1. Count(S, a) \in Int /\ Count(S, b) \in Int
    BY CountIs
  <2>2. a \in Int /\ b \in Int
    <3>1. R \subseteq 2..14
      BY RanksAre
    <3> HIDE DEF R
    <3> QED
      BY <3>1
  <2> QED
    BY <2>1, <2>2 DEF Precedes
<1>2. ASSUME NEW j \in 1..n
      PROVE  Before_(g[j]) = {g[i] : i \in 1..(j - 1)}
  <2>1. ASSUME NEW i \in 1..(j - 1)
        PROVE  g[i] \in R /\ Precedes(S, g[i], g[j])
    <3>1. i \in 1..n /\ i < j
      OBVIOUS
    <3> QED
      BY <3>1
  <2>2. ASSUME NEW a \in R, Precedes(S, a, g[j])
        PROVE  \E i \in 1..(j - 1) : g[i] = a
    <3>1. PICK i \in 1..n : g[i] = a
      OBVIOUS
    <3>2. ~(j < i) /\ i # j
      BY <1>1, <2>2, <3>1
    <3>3. i \in 1..(j - 1)
      BY <3>2
    <3> QED
      BY <3>1, <3>3
  <2> QED
    BY <2>1, <2>2
<1>3. \A i, j \in 1..n : g[i] = g[j] => i = j
  <2> SUFFICES ASSUME NEW i \in 1..n, NEW j \in 1..n, g[i] = g[j]
               PROVE  ~(i < j) /\ ~(j < i)
    OBVIOUS
  <2> QED
    BY <1>1
<1>4. ASSUME NEW k \in 0..n
      PROVE  Cardinality({g[i] : i \in 1..k}) = k
  <2> DEFINE G == {g[i] : i \in 1..k}
             f == [i \in 1..k |-> g[i]]
  <2>1. IsFiniteSet(1..k) /\ Cardinality(1..k) = k
    <3>1. 1 \in Int /\ k \in Int
      OBVIOUS
    <3>2. IsFiniteSet(1..k) /\ Cardinality(1..k) = IF 1 > k THEN 0 ELSE k-1+1
      BY <3>1, FS_Interval
    <3> QED
      BY <3>2
  <2>2. f \in Injection(1..k, G)
    <3>1. \A i, j \in 1..k : f[i] = f[j] => i = j
      BY <1>3
    <3>2. f \in [1..k -> G]
      OBVIOUS
    <3> QED
      BY <3>1, <3>2 DEF Injection, IsInjective
  <2>3. f \in Surjection(1..k, G)
    BY DEF Surjection
  <2>4. ExistsBijection(1..k, G)
    BY <2>2, <2>3 DEF ExistsBijection, Bijection
  <2> HIDE DEF f, G
  <2>5. Cardinality(G) = k
    BY <2>1, <2>4, FS_Bijection
  <2> QED
    BY <2>5 DEF G
<1>5. Cardinality(R) = n
  <2>1. R = {g[i] : i \in 1..n}
    OBVIOUS
  <2>2. n \in 0..n
    OBVIOUS
  <2>3. Cardinality({g[i] : i \in 1..n}) = n
    BY <1>4, <2>2
  <2> QED
    BY <2>1, <2>3
<1>6. ASSUME NEW i \in 1..n
      PROVE  (CHOOSE b \in R : Cardinality(Before_(b)) = i - 1) = g[i]
  <2>1. \A j \in 1..n : Cardinality(Before_(g[j])) = j - 1
    <3> SUFFICES ASSUME NEW j \in 1..n
                 PROVE  Cardinality(Before_(g[j])) = j - 1
      OBVIOUS
    <3>1. j - 1 \in 0..n
      OBVIOUS
    <3>2. Cardinality({g[q] : q \in 1..(j - 1)}) = j - 1
      BY <1>4, <3>1
    <3> HIDE DEF Before_
    <3> QED
      BY <1>2, <3>2
  <2> HIDE DEF Before_, R
  <2>2. g[i] \in R /\ Cardinality(Before_(g[i])) = i - 1
    BY <2>1 DEF R
  <2>3. ASSUME NEW b \in R, Cardinality(Before_(b)) = i - 1
        PROVE  b = g[i]
    <3>1. PICK j \in 1..n : g[j] = b
      BY DEF R
    <3>2. j - 1 = i - 1
      BY <2>1, <2>3, <3>1
    <3> QED
      BY <3>1, <3>2
  <2> QED
    BY <2>2, <2>3
<1>7. Groups(S) = [i \in 1..Cardinality(R) |-> CHOOSE b \in R : Cardinality(Before_(b)) = i - 1]
  BY DEF Groups
<1> HIDE DEF R, Before_
<1>8. Groups(S) = [i \in 1..n |-> g[i]]
  BY <1>5, <1>6, <1>7
<1>9. Groups(S) = g
  BY <1>8
<1> QED
  BY <1>5, <1>9 DEF R

-----------------------------------------------------------------------------
(* The rule book's value, category by category.                            *)
Royals(S) == UNION {Straights(RanksOf(f)) : f \in Flushes(S)}
Royal(S) == Max(Royals(S) \cup {0})
Trips(S) == AtLeast(S, 3)
Pairs(S) == AtLeast(S, 2)
FlushIn(S) == CHOOSE flush \in Flushes(S) : TRUE

HasRoyal(S) == Royals(S) # {}
HasFour(S) == AtLeast(S, 4) # {}
HasHouse(S) == \E t \in Trips(S) : \E p \in Pairs(S) : p # t
HasFlush(S) == Flushes(S) # {}
HasStraight(S) == Straights(RanksOf(S)) # {}
HasThree(S) == Trips(S) # {}
HasTwoPair(S) == \E p \in Pairs(S) : \E q \in Pairs(S) : p # q
HasPair(S) == Pairs(S) # {}

Above8(S) == TRUE
Above7(S) == ~HasRoyal(S)
Above6(S) == Above7(S) /\ ~HasFour(S)
Above5(S) == Above6(S) /\ ~HasHouse(S)
Above4(S) == Above5(S) /\ ~HasFlush(S)
Above3(S) == Above4(S) /\ ~HasStraight(S)
Above2(S) == Above3(S) /\ ~HasThree(S)
Above1(S) == Above2(S) /\ ~HasTwoPair(S)
Above0(S) == Above1(S) /\ ~HasPair(S)

(* The ranks with n cards are ranks of the hand.                           *)
LEMMA AtLeastIs ==
  ASSUME NEW S, Dealt(S), NEW n \in Nat
  PROVE  /\ AtLeast(S, n) \subseteq RanksOf(S) /\ AtLeast(S, n) \subseteq 1..14
         /\ AtLeast(S, n) \subseteq 2..14 /\ Ints(AtLeast(S, n))
         /\ \A m \in Nat : m <= n => AtLeast(S, n) \subseteq AtLeast(S, m)
<1>1. AtLeast(S, n) \subseteq RanksOf(S)
  BY DEF AtLeast
<1>2. AtLeast(S, n) \subseteq 2..14
  BY <1>1, RanksAre
<1>3. Ints(AtLeast(S, n))
  BY <1>1, RanksAre, SubsetSize
<1>4. ASSUME NEW m \in Nat, m <= n, NEW r \in AtLeast(S, n)
      PROVE  r \in AtLeast(S, m)
  <2>1. Count(S, r) \in Int
    BY CountIs
  <2> QED
    BY <1>4, <2>1 DEF AtLeast
<1>5. AtLeast(S, n) \subseteq 1..14
  BY <1>2
<1> QED
  BY <1>1, <1>2, <1>3, <1>4, <1>5

(* Two ranks share the cards.                                              *)
LEMMA TwoRanks ==
  ASSUME NEW S, Dealt(S), NEW a, NEW b, a # b
  PROVE  /\ Count(S, a) + Count(S, b) <= Cardinality(S)
         /\ Count(S, a) \in Nat /\ Count(S, b) \in Nat /\ Cardinality(S) \in Nat
<1> DEFINE W == S \ Of(S, a)
<1>1. Dealt(W) /\ Count(W, b) = Count(S, b)
      /\ Cardinality(W) = Cardinality(S) - Count(S, a)
  BY Peel
<1>2. Of(W, b) \subseteq W
  BY DEF Of
<1> HIDE DEF W
<1>3. Count(W, b) <= Cardinality(W)
  BY <1>1, <1>2, CountIs, PartDealt
<1>4. Count(S, a) \in Nat /\ Count(S, b) \in Nat /\ Cardinality(S) \in Nat
  BY CountIs, PartDealt
<1> QED
  BY <1>1, <1>3, <1>4

(* Seven cards hold four of a kind once.                                   *)
LEMMA OneFour ==
  ASSUME NEW S, Dealt(S), Cardinality(S) <= 7, NEW a \in AtLeast(S, 4), NEW b \in AtLeast(S, 4)
  PROVE  a = b
<1> SUFFICES ASSUME a # b
             PROVE  FALSE
  OBVIOUS
<1>1. Count(S, a) >= 4 /\ Count(S, b) >= 4
  BY DEF AtLeast
<1> QED
  BY <1>1, TwoRanks

(* A flush is all the cards of a suit, each of a rank of its own.          *)
LEMMA FlushesAre ==
  ASSUME NEW S, Dealt(S)
  PROVE  /\ \A f : f \in Flushes(S)
              <=> \E s \in Suits : f = Suited(S, s) /\ Cardinality(f) >= 5
         /\ \A f \in Flushes(S) :
              /\ f \in SUBSET S /\ Dealt(f) /\ Pairs(f) = {}
              /\ Cardinality(f) \in Nat /\ Cardinality(f) >= 5
              /\ Cardinality(RanksOf(f)) = Cardinality(f)
<1>1. ASSUME NEW s \in Suits
      PROVE  /\ Suited(S, s) \in SUBSET S /\ Dealt(Suited(S, s)) /\ Pairs(Suited(S, s)) = {}
             /\ Cardinality(Suited(S, s)) \in Nat
             /\ Cardinality(RanksOf(Suited(S, s))) = Cardinality(Suited(S, s))
  <2> DEFINE f == Suited(S, s)
  <2>1. f \in SUBSET S
    BY DEF Suited
  <2>2. \A c \in f : c \in Cards /\ c.suit = s
    BY DEF Suited, Dealt
  <2> HIDE DEF f
  <2>3. Dealt(f) /\ Cardinality(f) \in Nat
    BY <2>1, PartDealt
  <2>4. ASSUME NEW r \in Pairs(f)
        PROVE  FALSE
    <3>1. Count(f, r) >= 2 /\ Count(f, r) = Cardinality(Of(f, r)) /\ IsFiniteSet(Of(f, r))
          /\ Count(f, r) \in Int
      BY <2>3, CountIs DEF Pairs, AtLeast
    <3>2. \A c, d \in Of(f, r) : c = d
      BY <2>2 DEF Of, Cards
    <3>3. Of(f, r) # {}
      BY <3>1, FS_EmptySet
    <3>4. \E x : Of(f, r) = {x}
      BY <3>2, <3>3
    <3>5. Cardinality(Of(f, r)) = 1
      BY <3>1, <3>4, FS_Singleton
    <3> QED
      BY <3>1, <3>5
  <2>5. Pairs(f) = {}
    BY <2>4
  <2>6. Cardinality(RanksOf(f)) = Cardinality(f)
    BY <2>3, <2>5, Distinct DEF Pairs
  <2> QED
    BY <2>1, <2>3, <2>5, <2>6 DEF f
<1>2. ASSUME NEW f
      PROVE  f \in Flushes(S) <=> \E s \in Suits : f = Suited(S, s) /\ Cardinality(f) >= 5
  <2>1. ASSUME f \in Flushes(S)
        PROVE  \E s \in Suits : f = Suited(S, s) /\ Cardinality(f) >= 5
    <3>1. PICK s \in {c.suit : c \in S} : f = Suited(S, s) /\ Cardinality(Suited(S, s)) >= 5
      BY <2>1 DEF Flushes
    <3>2. s \in Suits
      BY <3>1 DEF Dealt, Cards
    <3> QED
      BY <3>1, <3>2
  <2>2. ASSUME NEW s \in Suits, f = Suited(S, s), Cardinality(f) >= 5
        PROVE  f \in Flushes(S)
    <3>1. f # {}
      BY <2>2, FS_EmptySet
    <3>2. s \in {c.suit : c \in S}
      BY <2>2, <3>1 DEF Suited
    <3> QED
      BY <2>2, <3>2 DEF Flushes
  <2> QED
    BY <2>1, <2>2
<1>3. ASSUME NEW f \in Flushes(S)
      PROVE  /\ f \in SUBSET S /\ Dealt(f) /\ Pairs(f) = {}
             /\ Cardinality(f) \in Nat /\ Cardinality(f) >= 5
             /\ Cardinality(RanksOf(f)) = Cardinality(f)
  <2>1. PICK s \in Suits : f = Suited(S, s) /\ Cardinality(f) >= 5
    BY <1>2
  <2> QED
    BY <1>1, <2>1
<1> QED
  BY <1>2, <1>3

(* Seven cards hold one flush.                                             *)
LEMMA OneFlush ==
  ASSUME NEW S, Dealt(S), Cardinality(S) <= 7, NEW f \in Flushes(S), NEW g \in Flushes(S)
  PROVE  f = g
<1> SUFFICES ASSUME f # g
             PROVE  FALSE
  OBVIOUS
<1>1. PICK s \in Suits : f = Suited(S, s)
  BY FlushesAre
<1>2. PICK t \in Suits : g = Suited(S, t)
  BY FlushesAre
<1>3. f \cap g = {} /\ f \cup g \in SUBSET S
  BY <1>1, <1>2 DEF Suited
<1>4. IsFiniteSet(f) /\ IsFiniteSet(g) /\ Cardinality(f) \in Nat /\ Cardinality(g) \in Nat
      /\ Cardinality(f) >= 5 /\ Cardinality(g) >= 5
  BY FlushesAre DEF Dealt
<1>5. Cardinality(f \cup g) = Cardinality(f) + Cardinality(g) - Cardinality(f \cap g)
  BY <1>4, FS_Union
<1>6. Cardinality(f \cap g) = 0
  BY <1>3, FS_EmptySet
<1>7. Cardinality(f \cup g) <= Cardinality(S) /\ Cardinality(S) \in Nat
  BY <1>3, PartDealt
<1> QED
  BY <1>4, <1>5, <1>6, <1>7

(* A flush of fewer cards is part of a flush of more.                      *)
LEMMA FlushesGrow ==
  ASSUME NEW S, Dealt(S), NEW T \in SUBSET S, NEW f \in Flushes(T)
  PROVE  \E g \in Flushes(S) : f \subseteq g
<1>1. Dealt(T)
  BY PartDealt
<1>2. PICK s \in Suits : f = Suited(T, s) /\ Cardinality(f) >= 5
  BY <1>1, FlushesAre
<1>3. f \subseteq Suited(S, s) /\ Suited(S, s) \in SUBSET S
  BY <1>2 DEF Suited
<1>4. Cardinality(f) <= Cardinality(Suited(S, s)) /\ Cardinality(f) \in Nat
      /\ Cardinality(Suited(S, s)) \in Nat
  <2>1. Dealt(Suited(S, s))
    BY <1>3, PartDealt
  <2> QED
    BY <1>3, <2>1, PartDealt
<1>5. Suited(S, s) \in Flushes(S)
  <2>1. Cardinality(Suited(S, s)) >= 5
    BY <1>2, <1>4
  <2> QED
    BY <2>1, FlushesAre
<1> QED
  BY <1>3, <1>5

(* The straight flushes are named by a rank.                               *)
LEMMA RoyalsAre ==
  ASSUME NEW S
  PROVE  Royals(S) \subseteq 1..14
<1>1. \A R : Straights(R) \subseteq 1..14
  BY StraightsAre
<1> QED
  BY <1>1 DEF Royals

(* The rule book's value, by category.                                     *)
LEMMA Value8 ==
  ASSUME NEW S, Dealt(S), HasRoyal(S)
  PROVE  RuleBookValue(S) = <<8, Royal(S)>> /\ Royal(S) \in Royals(S)
         /\ \A h \in Royals(S) : h <= Royal(S)
<1>1. Royal(S) \in Royals(S) /\ \A h \in Royals(S) : h <= Royal(S)
  BY RoyalsAre, BestOrZero DEF HasRoyal, Royal
<1>2. Royal(S) \in Int /\ Royal(S) > 0 /\ Royal(S) # 0
  BY <1>1, RoyalsAre
<1>3. RuleBookValue(S) = <<8, Royal(S)>>
  BY <1>2 DEF RuleBookValue, Royal, Royals
<1> QED
  BY <1>1, <1>3

(* Without a straight flush.                                               *)
LEMMA NoRoyal ==
  ASSUME NEW S, Above7(S)
  PROVE  Royal(S) = 0 /\ ~(Royal(S) > 0)
  BY RoyalsAre, BestOrZero DEF Above7, HasRoyal, Royal

(* Four of a kind.                                                         *)
LEMMA Value7 ==
  ASSUME NEW S, Dealt(S), Above7(S), HasFour(S)
  PROVE  LET q == Max(AtLeast(S, 4))
         IN  RuleBookValue(S) = <<7, q, Max(RanksOf(S) \ {q})>> /\ q \in AtLeast(S, 4)
<1>1. Max(AtLeast(S, 4)) \in AtLeast(S, 4)
  <2>1. 4 \in Nat
    OBVIOUS
  <2>2. AtLeast(S, 4) \subseteq 1..14
    BY <2>1, AtLeastIs
  <2> QED
    BY <2>2, MaxOfRanks DEF HasFour
<1>2. RuleBookValue(S) = <<7, Max(AtLeast(S, 4)), Max(RanksOf(S) \ {Max(AtLeast(S, 4))})>>
  BY NoRoyal DEF RuleBookValue, Royal, Royals, HasFour
<1> QED
  BY <1>1, <1>2

Three(S) == Max(Trips(S) \cup {0})
Under(S) == Pairs(S) \ {Three(S)}
Straight(S) == Max(Straights(RanksOf(S)) \cup {0})

(* The highest ranks, spelt out.                                           *)
LEMMA HighestIs ==
  ASSUME NEW R
  PROVE  /\ Highest(R, 1) = <<Nth(R, 1)>>
         /\ Highest(R, 2) = <<Nth(R, 1), Nth(R, 2)>>
         /\ Highest(R, 3) = <<Nth(R, 1), Nth(R, 2), Nth(R, 3)>>
         /\ Highest(R, 5) = <<Nth(R, 1), Nth(R, 2), Nth(R, 3), Nth(R, 4), Nth(R, 5)>>
<1>1. Highest(R, 1) = <<Nth(R, 1)>>
  BY DEF Highest
<1>2. Highest(R, 2) = <<Nth(R, 1), Nth(R, 2)>>
  BY DEF Highest
<1>3. Highest(R, 3) = <<Nth(R, 1), Nth(R, 2), Nth(R, 3)>>
  BY DEF Highest
<1>4. Highest(R, 5) = <<Nth(R, 1), Nth(R, 2), Nth(R, 3), Nth(R, 4), Nth(R, 5)>>
  BY DEF Highest
<1> QED
  BY <1>1, <1>2, <1>3, <1>4

(* Two different members make two; none or one otherwise.                  *)
LEMMA TwoOrOne ==
  ASSUME NEW X, IsFiniteSet(X)
  PROVE  /\ (\E p \in X : \E q \in X : p # q) => Cardinality(X) >= 2
         /\ X # {} /\ ~(\E p \in X : \E q \in X : p # q) => Cardinality(X) = 1
         /\ Cardinality(X) \in Nat
         /\ X = {} => Cardinality(X) = 0
<1>1. Cardinality(X) \in Nat /\ (Cardinality(X) = 0 <=> X = {})
      /\ (Cardinality(X) = 1 <=> \E x : X = {x})
  BY FS_CardinalityType, FS_EmptySet, FS_Singleton
<1>2. ASSUME NEW p \in X, NEW q \in X, p # q
      PROVE  Cardinality(X) >= 2
  <2>1. X # {} /\ ~ \E x : X = {x}
    BY <1>2
  <2>2. Cardinality(X) # 0 /\ Cardinality(X) # 1
    BY <1>1, <2>1
  <2> QED
    BY <1>1, <2>2
<1>3. ASSUME X # {}, ~(\E p \in X : \E q \in X : p # q)
      PROVE  Cardinality(X) = 1
  <2>1. \E x : X = {x}
    BY <1>3
  <2> QED
    BY <1>1, <2>1
<1> QED
  BY <1>1, <1>2, <1>3

(* The highest rank with three cards.                                      *)
LEMMA ThreeIs ==
  ASSUME NEW S, Dealt(S)
  PROVE  /\ HasThree(S) => Three(S) \in Trips(S) /\ Three(S) \in 2..14
         /\ ~HasThree(S) => Three(S) = 0
         /\ \A t \in Trips(S) : t <= Three(S)
         /\ Three(S) \in 0..14
         /\ Trips(S) \subseteq Pairs(S)
<1>1. 3 \in Nat /\ 2 \in Nat /\ 2 <= 3
  OBVIOUS
<1>2. Trips(S) \subseteq 2..14 /\ Trips(S) \subseteq 1..14 /\ Trips(S) \subseteq Pairs(S)
  BY <1>1, AtLeastIs DEF Trips, Pairs
<1>3. /\ Trips(S) = {} => Three(S) = 0
      /\ Trips(S) # {} => Three(S) \in Trips(S)
      /\ \A t \in Trips(S) : t <= Three(S)
      /\ Three(S) \in 0..14
  BY <1>2, BestOrZero DEF Three
<1> QED
  BY <1>2, <1>3 DEF HasThree

(* A full house: a pair beside the highest three.                          *)
LEMMA HouseIs ==
  ASSUME NEW S, Dealt(S)
  PROVE  HasHouse(S) <=> Three(S) > 0 /\ Under(S) # {}
<1>1. ASSUME HasHouse(S)
      PROVE  Three(S) > 0 /\ Under(S) # {}
  <2>1. PICK t \in Trips(S) : \E p \in Pairs(S) : p # t
    BY <1>1 DEF HasHouse
  <2>2. PICK p \in Pairs(S) : p # t
    BY <2>1
  <2>3. HasThree(S)
    BY <2>1 DEF HasThree
  <2>4. Three(S) \in 2..14 /\ t \in Pairs(S)
    BY <2>1, <2>3, ThreeIs
  <2>5. p # Three(S) \/ t # Three(S)
    BY <2>2
  <2> QED
    BY <2>2, <2>4, <2>5 DEF Under
<1>2. ASSUME Three(S) > 0, Under(S) # {}
      PROVE  HasHouse(S)
  <2>1. Three(S) # 0
    BY <1>2, ThreeIs
  <2>2. Three(S) \in Trips(S)
    BY <2>1, ThreeIs
  <2> QED
    BY <1>2, <2>2 DEF Under, HasHouse
<1> QED
  BY <1>1, <1>2

(* A full house.                                                           *)
LEMMA Value6 ==
  ASSUME NEW S, Dealt(S), Above6(S), HasHouse(S)
  PROVE  /\ RuleBookValue(S) = <<6, Three(S), Max(Under(S))>>
         /\ Three(S) \in Trips(S) /\ Max(Under(S)) \in Under(S)
<1>1. Three(S) > 0 /\ Under(S) # {} /\ Royal(S) = 0 /\ ~(Royal(S) > 0) /\ AtLeast(S, 4) = {}
  BY HouseIs, NoRoyal DEF Above6, HasFour
<1>2. Three(S) \in Trips(S)
  BY ThreeIs DEF HasThree, HasHouse
<1>3. Max(Under(S)) \in Under(S)
  <2>1. 2 \in Nat
    OBVIOUS
  <2>2. Under(S) \subseteq 1..14
    BY <2>1, AtLeastIs DEF Under, Pairs
  <2> QED
    BY <1>1, <2>2, MaxOfRanks
<1>4. RuleBookValue(S) = <<6, Three(S), Max(Under(S))>>
  BY <1>1 DEF RuleBookValue, Royal, Royals, Three, Trips, Under, Pairs
<1> QED
  BY <1>2, <1>3, <1>4

(* A flush.                                                                *)
LEMMA Value5 ==
  ASSUME NEW S, Dealt(S), Above5(S), HasFlush(S)
  PROVE  /\ RuleBookValue(S) = <<5>> \o Highest(RanksOf(FlushIn(S)), 5)
         /\ FlushIn(S) \in Flushes(S)
<1>1. ~(Three(S) > 0 /\ Under(S) # {}) /\ Royal(S) = 0 /\ ~(Royal(S) > 0) /\ AtLeast(S, 4) = {} /\ Flushes(S) # {}
  BY HouseIs, NoRoyal DEF Above6, HasFour, Above5, HasFlush
<1>2. FlushIn(S) \in Flushes(S)
  BY <1>1 DEF FlushIn
<1>3. RuleBookValue(S) = <<5>> \o Highest(RanksOf(FlushIn(S)), 5)
  BY <1>1 DEF RuleBookValue, Royal, Royals, Three, Trips, Under, Pairs, FlushIn
<1> QED
  BY <1>2, <1>3

(* A straight.                                                             *)
LEMMA Value4 ==
  ASSUME NEW S, Dealt(S), Above4(S), HasStraight(S)
  PROVE  /\ RuleBookValue(S) = <<4, Straight(S)>>
         /\ Straight(S) \in Straights(RanksOf(S))
         /\ \A h \in Straights(RanksOf(S)) : h <= Straight(S)
<1>1. ~(Three(S) > 0 /\ Under(S) # {}) /\ Royal(S) = 0 /\ ~(Royal(S) > 0) /\ AtLeast(S, 4) = {} /\ Flushes(S) = {}
  BY HouseIs, NoRoyal DEF Above6, HasFour, Above5, HasFlush, Above4
<1>2. Straights(RanksOf(S)) \subseteq 1..14
  BY StraightsAre
<1>3. Straight(S) \in Straights(RanksOf(S)) /\ \A h \in Straights(RanksOf(S)) : h <= Straight(S)
  BY <1>2, BestOrZero DEF HasStraight, Straight
<1>4. Straight(S) > 0
  BY <1>2, <1>3
<1>5. RuleBookValue(S) = <<4, Straight(S)>>
  BY <1>1, <1>4 DEF RuleBookValue, Royal, Royals, Three, Trips, Under, Pairs, Straight
<1> QED
  BY <1>3, <1>5

(* Below a straight no arm above holds.                                    *)
LEMMA NoStraight ==
  ASSUME NEW S, Dealt(S), Above3(S)
  PROVE  /\ Straight(S) = 0 /\ ~(Straight(S) > 0)
         /\ ~(Three(S) > 0 /\ Under(S) # {}) /\ Royal(S) = 0 /\ ~(Royal(S) > 0) /\ AtLeast(S, 4) = {}
         /\ Flushes(S) = {}
<1>1. ~(Three(S) > 0 /\ Under(S) # {}) /\ Royal(S) = 0 /\ ~(Royal(S) > 0) /\ AtLeast(S, 4) = {} /\ Flushes(S) = {}
  BY HouseIs, NoRoyal DEF Above6, HasFour, Above5, HasFlush, Above4, Above3
<1>2. Straights(RanksOf(S)) \subseteq 1..14 /\ Straights(RanksOf(S)) = {}
  BY StraightsAre DEF Above3, HasStraight
<1>3. Straight(S) = 0
  BY <1>2, BestOrZero DEF Straight
<1> QED
  BY <1>1, <1>3

(* Three of a kind: the three is the only pair.                            *)
LEMMA Value3 ==
  ASSUME NEW S, Dealt(S), Above3(S), HasThree(S)
  PROVE  /\ RuleBookValue(S) = <<3, Three(S)>> \o Highest(RanksOf(S) \ {Three(S)}, 2)
         /\ Three(S) \in Trips(S) /\ Pairs(S) = {Three(S)}
<1>1. Three(S) \in Trips(S) /\ Three(S) \in Pairs(S) /\ Three(S) > 0
  BY ThreeIs
<1>2. Under(S) = {}
  BY <1>1, NoStraight
<1>3. RuleBookValue(S) = <<3, Three(S)>> \o Highest(RanksOf(S) \ {Three(S)}, 2)
  BY <1>1, NoStraight DEF RuleBookValue, Royal, Royals, Three, Trips, Under, Pairs, Straight
<1> QED
  BY <1>1, <1>2, <1>3 DEF Under

(* Two pair.                                                               *)
LEMMA Value2 ==
  ASSUME NEW S, Dealt(S), Above2(S), HasTwoPair(S)
  PROVE  /\ RuleBookValue(S) = <<2, Nth(Pairs(S), 1), Nth(Pairs(S), 2)>>
              \o Highest(RanksOf(S) \ {Nth(Pairs(S), 1), Nth(Pairs(S), 2)}, 1)
         /\ Cardinality(Pairs(S)) \in Nat /\ Cardinality(Pairs(S)) >= 2
<1>1. Three(S) = 0 /\ ~(Three(S) > 0)
  BY ThreeIs DEF Above2
<1>2. 2 \in Nat
  OBVIOUS
<1>3. IsFiniteSet(Pairs(S))
  BY <1>2, AtLeastIs DEF Pairs, Ints
<1>4. Cardinality(Pairs(S)) >= 2 /\ Cardinality(Pairs(S)) \in Nat
  BY <1>3, TwoOrOne DEF HasTwoPair
<1>5. Above3(S)
  BY DEF Above2
<1>7. Cardinality(Pairs(S)) # 1
  BY <1>4
<1>6. RuleBookValue(S) = <<2, Nth(Pairs(S), 1), Nth(Pairs(S), 2)>>
              \o Highest(RanksOf(S) \ {Nth(Pairs(S), 1), Nth(Pairs(S), 2)}, 1)
  BY <1>1, <1>4, <1>5, <1>7, NoStraight
     DEF RuleBookValue, Royal, Royals, Three, Trips, Under, Pairs, Straight
<1> QED
  BY <1>4, <1>6

(* One pair.                                                               *)
LEMMA Value1 ==
  ASSUME NEW S, Dealt(S), Above1(S), HasPair(S)
  PROVE  /\ RuleBookValue(S) = <<1, Max(Pairs(S))>> \o Highest(RanksOf(S) \ Pairs(S), 3)
         /\ Pairs(S) = {Max(Pairs(S))}
<1>1. Three(S) = 0 /\ ~(Three(S) > 0)
  BY ThreeIs DEF Above1, Above2
<1>2. 2 \in Nat
  OBVIOUS
<1>3. IsFiniteSet(Pairs(S)) /\ Pairs(S) \subseteq 1..14
  BY <1>2, AtLeastIs DEF Pairs, Ints
<1>4. Cardinality(Pairs(S)) = 1 /\ ~(Cardinality(Pairs(S)) >= 2)
  <2>1. Cardinality(Pairs(S)) = 1
    BY <1>3, TwoOrOne DEF HasTwoPair, HasPair, Above1
  <2> QED
    BY <2>1
<1>5. Above3(S)
  BY DEF Above2, Above1
<1>6. RuleBookValue(S) = <<1, Max(Pairs(S))>> \o Highest(RanksOf(S) \ Pairs(S), 3)
  BY <1>1, <1>4, <1>5, NoStraight
     DEF RuleBookValue, Royal, Royals, Three, Trips, Under, Pairs, Straight
<1>7. Pairs(S) = {Max(Pairs(S))}
  <2>1. Max(Pairs(S)) \in Pairs(S)
    BY <1>3, MaxOfRanks DEF HasPair
  <2>2. PICK x : Pairs(S) = {x}
    BY <1>3, <1>4, FS_Singleton
  <2> QED
    BY <2>1, <2>2
<1> QED
  BY <1>6, <1>7

(* No pair.                                                                *)
LEMMA Value0 ==
  ASSUME NEW S, Dealt(S), Above0(S)
  PROVE  RuleBookValue(S) = <<0>> \o Highest(RanksOf(S), 5)
<1>1. Three(S) = 0 /\ ~(Three(S) > 0)
  BY ThreeIs DEF Above0, Above1, Above2
<1>2. 2 \in Nat
  OBVIOUS
<1>3. IsFiniteSet(Pairs(S))
  BY <1>2, AtLeastIs DEF Pairs, Ints
<1>4. Cardinality(Pairs(S)) # 1 /\ ~(Cardinality(Pairs(S)) >= 2)
  <2>1. Cardinality(Pairs(S)) = 0
    BY <1>3, TwoOrOne DEF HasPair, Above0
  <2> QED
    BY <2>1
<1>5. Above3(S)
  BY DEF Above2, Above1, Above0
<1> QED
  BY <1>1, <1>4, <1>5, NoStraight
     DEF RuleBookValue, Royal, Royals, Three, Trips, Under, Pairs, Straight

-----------------------------------------------------------------------------
(* EvaluateFive is the rule book on five cards.                            *)
Five(S) == Dealt(S) /\ Cardinality(S) = 5

(* Two cards of a rank make the ranks fewer than the cards.                *)
LEMMA RanksFewer ==
  ASSUME NEW S, Dealt(S)
  PROVE  /\ Cardinality(RanksOf(S)) \in Nat /\ Cardinality(S) \in Nat
         /\ Cardinality(RanksOf(S)) <= Cardinality(S)
         /\ Pairs(S) # {} => Cardinality(RanksOf(S)) < Cardinality(S)
<1>1. ASSUME NEW T, Dealt(T)
      PROVE  /\ Cardinality(RanksOf(T)) \in Nat /\ Cardinality(T) \in Nat
             /\ Cardinality(RanksOf(T)) <= Cardinality(T)
  <2> DEFINE f == [c \in T |-> c.rank]
  <2>1. f \in Surjection(T, RanksOf(T))
    BY DEF Surjection, RanksOf
  <2> HIDE DEF f
  <2>2. Cardinality(RanksOf(T)) <= Cardinality(T) /\ IsFiniteSet(RanksOf(T))
    BY <1>1, <2>1, FS_Surjection DEF Dealt
  <2> QED
    BY <1>1, <2>2, FS_CardinalityType DEF Dealt
<1>2. ASSUME NEW r \in Pairs(S)
      PROVE  Cardinality(RanksOf(S)) < Cardinality(S)
  <2> DEFINE W == S \ Of(S, r)
  <2>1. Dealt(W) /\ RanksOf(W) = RanksOf(S) \ {r}
        /\ Cardinality(W) = Cardinality(S) - Count(S, r)
    BY Peel
  <2> HIDE DEF W
  <2>2. r \in RanksOf(S) /\ Count(S, r) >= 2 /\ Count(S, r) \in Int
    BY CountIs DEF Pairs, AtLeast
  <2>3. IsFiniteSet(RanksOf(S))
    BY RanksAre DEF Ints
  <2>4. Cardinality(RanksOf(W)) = Cardinality(RanksOf(S)) - 1
    BY <2>1, <2>2, <2>3, FS_RemoveElement
  <2>5. Cardinality(RanksOf(W)) <= Cardinality(W)
    BY <2>1, <1>1
  <2>6. Cardinality(RanksOf(S)) \in Nat /\ Cardinality(S) \in Nat
    BY <1>1
  <2> QED
    BY <2>1, <2>2, <2>4, <2>5, <2>6
<1> QED
  BY <1>1, <1>2

(* Five cards with a pair are no straight.                                 *)
LEMMA FewRanks ==
  ASSUME NEW R, R \subseteq 2..14, IsFiniteSet(R), Cardinality(R) < 5
  PROVE  Straights(R) = {}
<1> SUFFICES ASSUME NEW h \in Straights(R)
             PROVE  FALSE
  OBVIOUS
<1>1. h \in 5..14 /\ Run(h) \subseteq R
  BY StraightsAre
<1>2. Cardinality(Run(h)) = 5
  BY <1>1, RunIs
<1>3. Cardinality(Run(h)) <= Cardinality(R) /\ Cardinality(R) \in Nat
  BY <1>1, FS_Subset, FS_CardinalityType
<1> QED
  BY <1>2, <1>3

(* Five cards are a flush when they are of one suit.                       *)
LEMMA FlushOfFive ==
  ASSUME NEW S, Five(S)
  PROVE  /\ IsFlush(S) <=> HasFlush(S)
         /\ HasFlush(S) => Flushes(S) = {S} /\ FlushIn(S) = S /\ Pairs(S) = {}
<1>0. Dealt(S) /\ Cardinality(S) = 5
  BY DEF Five
<1>1. ASSUME NEW f \in Flushes(S)
      PROVE  f = S
  <2>1. f \in SUBSET S /\ Cardinality(f) >= 5 /\ Cardinality(f) \in Nat
    BY <1>0, FlushesAre
  <2>2. Cardinality(f) <= Cardinality(S) /\ (Cardinality(f) = Cardinality(S) => f = S)
    BY <1>0, <2>1, PartDealt
  <2> QED
    BY <1>0, <2>1, <2>2
<1>2. ASSUME HasFlush(S)
      PROVE  Flushes(S) = {S} /\ FlushIn(S) = S /\ Pairs(S) = {} /\ IsFlush(S)
  <2>1. Flushes(S) = {S}
    BY <1>1, <1>2 DEF HasFlush
  <2>2. FlushIn(S) = S
    BY <2>1 DEF FlushIn
  <2>3. S \in Flushes(S)
    BY <2>1
  <2>4. Pairs(S) = {}
    BY <1>0, <2>3, FlushesAre
  <2>5. PICK s \in Suits : S = Suited(S, s)
    BY <1>0, <2>3, FlushesAre
  <2>6. S # {}
    BY <1>0, FS_EmptySet
  <2>7. {c.suit : c \in S} = {s}
    BY <2>5, <2>6 DEF Suited
  <2>8. Cardinality({c.suit : c \in S}) = 1
    BY <2>7, FS_Singleton
  <2> QED
    BY <2>1, <2>2, <2>4, <2>8 DEF IsFlush
<1>3. ASSUME IsFlush(S)
      PROVE  HasFlush(S)
  <2>1. {c.suit : c \in S} \subseteq Suits
    BY <1>0 DEF Dealt, Cards
  <2>2. IsFiniteSet({c.suit : c \in S})
    BY <2>1, SuitsFour, FS_Subset
  <2>3. Cardinality({c.suit : c \in S}) = 1
    BY <1>3 DEF IsFlush
  <2>4. PICK s : {c.suit : c \in S} = {s}
    BY <2>2, <2>3, FS_Singleton
  <2>5. s \in Suits /\ S = Suited(S, s)
    BY <2>1, <2>4 DEF Suited
  <2>6. S \in Flushes(S)
    BY <1>0, <2>5, FlushesAre
  <2> QED
    BY <2>6 DEF HasFlush
<1> QED
  BY <1>2, <1>3

(* With a pair five cards are neither flush nor straight.                  *)
LEMMA WithPairs ==
  ASSUME NEW S, Five(S), Pairs(S) # {}
  PROVE  /\ Above7(S) /\ ~HasFlush(S) /\ ~HasStraight(S) /\ ~IsFlush(S)
         /\ StraightHigh(RanksOf(S)) = 0
<1>0. Dealt(S) /\ Cardinality(S) = 5
  BY DEF Five
<1>1. ~HasFlush(S) /\ ~IsFlush(S)
  BY FlushOfFive
<1>2. RanksOf(S) \subseteq 2..14 /\ IsFiniteSet(RanksOf(S))
  BY <1>0, RanksAre DEF Ints
<1>3. Straights(RanksOf(S)) = {}
  BY <1>0, <1>2, RanksFewer, FewRanks
<1>4. StraightHigh(RanksOf(S)) = 0
  <2>1. Straights(RanksOf(S)) \subseteq 1..14
    BY StraightsAre
  <2> QED
    BY <1>2, <1>3, <2>1, HighStraight, BestOrZero
<1>5. Above7(S)
  BY <1>1 DEF Above7, HasRoyal, Royals, HasFlush
<1> QED
  BY <1>1, <1>3, <1>4, <1>5 DEF HasStraight

(* What evaluateFive does with each shape.                                 *)
LEMMA ByShape ==
  ASSUME NEW S, StraightHigh(RanksOf(S)) = 0, ~IsFlush(S)
  PROVE  /\ Shape(S) = <<4, 1>> => EvaluateFive(S) = <<7>> \o Groups(S)
         /\ Shape(S) = <<3, 2>> => EvaluateFive(S) = <<6>> \o Groups(S)
         /\ Shape(S) = <<3, 1, 1>> => EvaluateFive(S) = <<3>> \o Groups(S)
         /\ Shape(S) = <<2, 2, 1>> => EvaluateFive(S) = <<2>> \o Groups(S)
         /\ Shape(S) = <<2, 1, 1, 1>> => EvaluateFive(S) = <<1>> \o Groups(S)
<1> DEFINE sh == Shape(S)
           gr == Groups(S)
           hi == StraightHigh(RanksOf(S))
           fl == IsFlush(S)
<1>1. EvaluateFive(S) =
        CASE hi > 0 /\ fl -> <<8, hi>>
          [] sh = <<4, 1>> -> <<7>> \o gr
          [] sh = <<3, 2>> -> <<6>> \o gr
          [] hi = 0 /\ fl -> <<5>> \o gr
          [] hi > 0 /\ ~fl -> <<4, hi>>
          [] sh = <<3, 1, 1>> -> <<3>> \o gr
          [] sh = <<2, 2, 1>> -> <<2>> \o gr
          [] sh = <<2, 1, 1, 1>> -> <<1>> \o gr
          [] OTHER -> <<0>> \o gr
  BY DEF EvaluateFive
<1>2. hi = 0 /\ ~fl /\ ~(hi > 0)
  OBVIOUS
<1> HIDE DEF hi, fl, sh, gr
<1>3. sh = <<4, 1>> => EvaluateFive(S) = <<7>> \o gr
  BY <1>1, <1>2
<1>4. sh = <<3, 2>> => EvaluateFive(S) = <<6>> \o gr
  BY <1>1, <1>2
<1>5. sh = <<3, 1, 1>> => EvaluateFive(S) = <<3>> \o gr
  BY <1>1, <1>2
<1>6. sh = <<2, 2, 1>> => EvaluateFive(S) = <<2>> \o gr
  BY <1>1, <1>2
<1>7. sh = <<2, 1, 1, 1>> => EvaluateFive(S) = <<1>> \o gr
  BY <1>1, <1>2
<1> QED
  BY <1>3, <1>4, <1>5, <1>6, <1>7 DEF sh, gr

(* EvaluateFive without a shape: what a straight and a flush decide.       *)
LEMMA Unshaped ==
  ASSUME NEW S, Shape(S) = <<1, 1, 1, 1, 1>>, StraightHigh(RanksOf(S)) \in Nat
  PROVE  EvaluateFive(S) =
           IF StraightHigh(RanksOf(S)) > 0
             THEN IF IsFlush(S) THEN <<8, StraightHigh(RanksOf(S))>>
                                ELSE <<4, StraightHigh(RanksOf(S))>>
             ELSE IF IsFlush(S) THEN <<5>> \o Groups(S) ELSE <<0>> \o Groups(S)
<1> DEFINE sh == Shape(S)
           gr == Groups(S)
           hi == StraightHigh(RanksOf(S))
           fl == IsFlush(S)
<1>1. EvaluateFive(S) =
        CASE hi > 0 /\ fl -> <<8, hi>>
          [] sh = <<4, 1>> -> <<7>> \o gr
          [] sh = <<3, 2>> -> <<6>> \o gr
          [] hi = 0 /\ fl -> <<5>> \o gr
          [] hi > 0 /\ ~fl -> <<4, hi>>
          [] sh = <<3, 1, 1>> -> <<3>> \o gr
          [] sh = <<2, 2, 1>> -> <<2>> \o gr
          [] sh = <<2, 1, 1, 1>> -> <<1>> \o gr
          [] OTHER -> <<0>> \o gr
  BY DEF EvaluateFive
<1>2. sh = <<1, 1, 1, 1, 1>> /\ hi \in Nat /\ fl \in BOOLEAN
  BY DEF IsFlush
<1> HIDE DEF hi, fl, sh, gr
<1>3. sh # <<4, 1>> /\ sh # <<3, 2>> /\ sh # <<3, 1, 1>> /\ sh # <<2, 2, 1>> /\ sh # <<2, 1, 1, 1>>
  BY <1>2
<1>4. CASE hi > 0 /\ fl
  BY <1>1, <1>3, <1>4 DEF hi, fl
<1>5. CASE hi > 0 /\ ~fl
  BY <1>1, <1>3, <1>5 DEF hi, fl
<1>6. CASE hi = 0 /\ fl
  BY <1>1, <1>3, <1>6 DEF hi, fl, gr
<1>7. CASE hi = 0 /\ ~fl
  BY <1>1, <1>3, <1>7 DEF hi, fl, gr
<1> QED
  BY <1>2, <1>4, <1>5, <1>6, <1>7

(* A list of given length and entries is the tuple of them.                *)
LEMMA Listed ==
  ASSUME NEW U, NEW u \in Seq(U)
  PROVE  /\ Len(u) = 3 => u = <<u[1], u[2], u[3]>>
         /\ Len(u) = 4 => u = <<u[1], u[2], u[3], u[4]>>
         /\ Len(u) = 5 => u = <<u[1], u[2], u[3], u[4], u[5]>>
         /\ Len(u) = 6 => u = <<u[1], u[2], u[3], u[4], u[5], u[6]>>
  OBVIOUS

(* The entries of two sequences put together.                              *)
LEMMA Concatenated ==
  ASSUME NEW U, NEW s \in Seq(U), NEW t \in Seq(U), NEW u, u = s \o t
  PROVE  /\ u \in Seq(U) /\ Len(u) = Len(s) + Len(t)
         /\ \A i \in 1..Len(s) : u[i] = s[i]
         /\ \A i \in 1..Len(t) : u[Len(s) + i] = t[i]
<1>1. u \in Seq(U)
  OBVIOUS
<1>2. Len(u) = Len(s) + Len(t)
  OBVIOUS
<1>3. \A i \in 1..Len(s) : u[i] = s[i]
  OBVIOUS
<1>4. \A i \in 1..Len(t) : u[Len(s) + i] = t[i]
  OBVIOUS
<1> QED
  BY <1>1, <1>2, <1>3, <1>4

(* Sequences of given lengths put together: Join12 takes one and two.      *)
LEMMA Join12 ==
  ASSUME NEW k, NEW a, NEW b
  PROVE  <<k>> \o <<a, b>> = <<k, a, b>>
<1> DEFINE U == {k, a, b}
           s == <<k>>
           t == <<a, b>>
           u == s \o t
<1>1. s \in Seq(U) /\ t \in Seq(U)
  OBVIOUS
<1>2. /\ Len(s) = 1 /\ Len(t) = 2
      /\ s[1] = k /\ t[1] = a /\ t[2] = b
  OBVIOUS
<1>3. u = s \o t
  OBVIOUS
<1> HIDE DEF s, t, u, U
<1>4. /\ u \in Seq(U) /\ Len(u) = Len(s) + Len(t)
      /\ \A i \in 1..Len(s) : u[i] = s[i]
      /\ \A i \in 1..Len(t) : u[Len(s) + i] = t[i]
  BY <1>1, <1>3, Concatenated
<1>5. Len(u) = 3 /\ u[1] = k /\ u[2] = a /\ u[3] = b
  BY <1>1, <1>2, <1>4
<1>6. u = <<u[1], u[2], u[3]>>
  BY <1>4, <1>5, Listed
<1> QED
  BY <1>5, <1>6 DEF u, s, t

(* One and three.                                                          *)
LEMMA Join13 ==
  ASSUME NEW k, NEW a, NEW b, NEW c
  PROVE  <<k>> \o <<a, b, c>> = <<k, a, b, c>>
<1> DEFINE U == {k, a, b, c}
           s == <<k>>
           t == <<a, b, c>>
           u == s \o t
<1>1. s \in Seq(U) /\ t \in Seq(U)
  OBVIOUS
<1>2. /\ Len(s) = 1 /\ Len(t) = 3
      /\ s[1] = k /\ t[1] = a /\ t[2] = b /\ t[3] = c
  OBVIOUS
<1>3. u = s \o t
  OBVIOUS
<1> HIDE DEF s, t, u, U
<1>4. /\ u \in Seq(U) /\ Len(u) = Len(s) + Len(t)
      /\ \A i \in 1..Len(s) : u[i] = s[i]
      /\ \A i \in 1..Len(t) : u[Len(s) + i] = t[i]
  BY <1>1, <1>3, Concatenated
<1>5. Len(u) = 4 /\ u[1] = k /\ u[2] = a /\ u[3] = b /\ u[4] = c
  BY <1>1, <1>2, <1>4
<1>6. u = <<u[1], u[2], u[3], u[4]>>
  BY <1>4, <1>5, Listed
<1> QED
  BY <1>5, <1>6 DEF u, s, t

(* One and four.                                                           *)
LEMMA Join14 ==
  ASSUME NEW k, NEW a, NEW b, NEW c, NEW d
  PROVE  <<k>> \o <<a, b, c, d>> = <<k, a, b, c, d>>
<1> DEFINE U == {k, a, b, c, d}
           s == <<k>>
           t == <<a, b, c, d>>
           u == s \o t
<1>1. s \in Seq(U) /\ t \in Seq(U)
  OBVIOUS
<1>2. /\ Len(s) = 1 /\ Len(t) = 4
      /\ s[1] = k /\ t[1] = a /\ t[2] = b /\ t[3] = c /\ t[4] = d
  OBVIOUS
<1>3. u = s \o t
  OBVIOUS
<1> HIDE DEF s, t, u, U
<1>4. /\ u \in Seq(U) /\ Len(u) = Len(s) + Len(t)
      /\ \A i \in 1..Len(s) : u[i] = s[i]
      /\ \A i \in 1..Len(t) : u[Len(s) + i] = t[i]
  BY <1>1, <1>3, Concatenated
<1>5. Len(u) = 5 /\ u[1] = k /\ u[2] = a /\ u[3] = b /\ u[4] = c /\ u[5] = d
  BY <1>1, <1>2, <1>4
<1>6. u = <<u[1], u[2], u[3], u[4], u[5]>>
  BY <1>4, <1>5, Listed
<1> QED
  BY <1>5, <1>6 DEF u, s, t

(* One and five.                                                           *)
LEMMA Join15 ==
  ASSUME NEW k, NEW a, NEW b, NEW c, NEW d, NEW e
  PROVE  <<k>> \o <<a, b, c, d, e>> = <<k, a, b, c, d, e>>
<1> DEFINE U == {k, a, b, c, d, e}
           s == <<k>>
           t == <<a, b, c, d, e>>
           u == s \o t
<1>1. s \in Seq(U) /\ t \in Seq(U)
  OBVIOUS
<1>2. /\ Len(s) = 1 /\ Len(t) = 5
      /\ s[1] = k /\ t[1] = a /\ t[2] = b /\ t[3] = c /\ t[4] = d /\ t[5] = e
  OBVIOUS
<1>3. u = s \o t
  OBVIOUS
<1> HIDE DEF s, t, u, U
<1>4. /\ u \in Seq(U) /\ Len(u) = Len(s) + Len(t)
      /\ \A i \in 1..Len(s) : u[i] = s[i]
      /\ \A i \in 1..Len(t) : u[Len(s) + i] = t[i]
  BY <1>1, <1>3, Concatenated
<1>5. Len(u) = 6 /\ u[1] = k /\ u[2] = a /\ u[3] = b /\ u[4] = c /\ u[5] = d /\ u[6] = e
  BY <1>1, <1>2, <1>4
<1>6. u = <<u[1], u[2], u[3], u[4], u[5], u[6]>>
  BY <1>4, <1>5, Listed
<1> QED
  BY <1>5, <1>6 DEF u, s, t

(* Two and two.                                                            *)
LEMMA Join22 ==
  ASSUME NEW k, NEW a, NEW b, NEW c
  PROVE  <<k, a>> \o <<b, c>> = <<k, a, b, c>>
<1> DEFINE U == {k, a, b, c}
           s == <<k, a>>
           t == <<b, c>>
           u == s \o t
<1>1. s \in Seq(U) /\ t \in Seq(U)
  OBVIOUS
<1>2. /\ Len(s) = 2 /\ Len(t) = 2
      /\ s[1] = k /\ s[2] = a /\ t[1] = b /\ t[2] = c
  OBVIOUS
<1>3. u = s \o t
  OBVIOUS
<1> HIDE DEF s, t, u, U
<1>4. /\ u \in Seq(U) /\ Len(u) = Len(s) + Len(t)
      /\ \A i \in 1..Len(s) : u[i] = s[i]
      /\ \A i \in 1..Len(t) : u[Len(s) + i] = t[i]
  BY <1>1, <1>3, Concatenated
<1>5. Len(u) = 4 /\ u[1] = k /\ u[2] = a /\ u[3] = b /\ u[4] = c
  BY <1>1, <1>2, <1>4
<1>6. u = <<u[1], u[2], u[3], u[4]>>
  BY <1>4, <1>5, Listed
<1> QED
  BY <1>5, <1>6 DEF u, s, t

(* Two and three.                                                          *)
LEMMA Join23 ==
  ASSUME NEW k, NEW a, NEW b, NEW c, NEW d
  PROVE  <<k, a>> \o <<b, c, d>> = <<k, a, b, c, d>>
<1> DEFINE U == {k, a, b, c, d}
           s == <<k, a>>
           t == <<b, c, d>>
           u == s \o t
<1>1. s \in Seq(U) /\ t \in Seq(U)
  OBVIOUS
<1>2. /\ Len(s) = 2 /\ Len(t) = 3
      /\ s[1] = k /\ s[2] = a /\ t[1] = b /\ t[2] = c /\ t[3] = d
  OBVIOUS
<1>3. u = s \o t
  OBVIOUS
<1> HIDE DEF s, t, u, U
<1>4. /\ u \in Seq(U) /\ Len(u) = Len(s) + Len(t)
      /\ \A i \in 1..Len(s) : u[i] = s[i]
      /\ \A i \in 1..Len(t) : u[Len(s) + i] = t[i]
  BY <1>1, <1>3, Concatenated
<1>5. Len(u) = 5 /\ u[1] = k /\ u[2] = a /\ u[3] = b /\ u[4] = c /\ u[5] = d
  BY <1>1, <1>2, <1>4
<1>6. u = <<u[1], u[2], u[3], u[4], u[5]>>
  BY <1>4, <1>5, Listed
<1> QED
  BY <1>5, <1>6 DEF u, s, t

(* Three and one.                                                          *)
LEMMA Join31 ==
  ASSUME NEW k, NEW a, NEW b, NEW c
  PROVE  <<k, a, b>> \o <<c>> = <<k, a, b, c>>
<1> DEFINE U == {k, a, b, c}
           s == <<k, a, b>>
           t == <<c>>
           u == s \o t
<1>1. s \in Seq(U) /\ t \in Seq(U)
  OBVIOUS
<1>2. /\ Len(s) = 3 /\ Len(t) = 1
      /\ s[1] = k /\ s[2] = a /\ s[3] = b /\ t[1] = c
  OBVIOUS
<1>3. u = s \o t
  OBVIOUS
<1> HIDE DEF s, t, u, U
<1>4. /\ u \in Seq(U) /\ Len(u) = Len(s) + Len(t)
      /\ \A i \in 1..Len(s) : u[i] = s[i]
      /\ \A i \in 1..Len(t) : u[Len(s) + i] = t[i]
  BY <1>1, <1>3, Concatenated
<1>5. Len(u) = 4 /\ u[1] = k /\ u[2] = a /\ u[3] = b /\ u[4] = c
  BY <1>1, <1>2, <1>4
<1>6. u = <<u[1], u[2], u[3], u[4]>>
  BY <1>4, <1>5, Listed
<1> QED
  BY <1>5, <1>6 DEF u, s, t

(* A hand of one card has one rank.                                        *)
LEMMA OneCard ==
  ASSUME NEW W, Dealt(W), Cardinality(W) = 1
  PROVE  \E b : RanksOf(W) = {b} /\ Count(W, b) = 1
<1>1. PICK y : W = {y}
  BY FS_Singleton DEF Dealt
<1>2. RanksOf(W) = {y.rank} /\ Of(W, y.rank) = {y}
  BY <1>1 DEF RanksOf, Of
<1>3. Count(W, y.rank) = 1
  BY <1>2, CountIs, FS_Singleton
<1> QED
  BY <1>2, <1>3

(* The shape of a hand is its counts, in the order of its groups.          *)
LEMMA ShapeIs ==
  ASSUME NEW S
  PROVE  /\ \A a, b : Groups(S) = <<a, b>> => Shape(S) = <<Count(S, a), Count(S, b)>>
         /\ \A a, b, c : Groups(S) = <<a, b, c>> =>
              Shape(S) = <<Count(S, a), Count(S, b), Count(S, c)>>
         /\ \A a, b, c, d : Groups(S) = <<a, b, c, d>> =>
              Shape(S) = <<Count(S, a), Count(S, b), Count(S, c), Count(S, d)>>
<1> DEFINE g == Groups(S)
<1>1. Shape(S) = [i \in DOMAIN g |-> Count(S, g[i])]
  BY DEF Shape
<1> HIDE DEF g
<1>2. \A a, b : g = <<a, b>> => Shape(S) = <<Count(S, a), Count(S, b)>>
  BY <1>1
<1>3. \A a, b, c : g = <<a, b, c>> => Shape(S) = <<Count(S, a), Count(S, b), Count(S, c)>>
  BY <1>1
<1>4. \A a, b, c, d : g = <<a, b, c, d>> =>
        Shape(S) = <<Count(S, a), Count(S, b), Count(S, c), Count(S, d)>>
  BY <1>1
<1> QED
  BY <1>2, <1>3, <1>4 DEF g

(* Two ranks in the order of groups.                                       *)
LEMMA TwoGroups ==
  ASSUME NEW S, Dealt(S), NEW a, NEW b, RanksOf(S) = {a, b}, Precedes(S, a, b)
  PROVE  Groups(S) = <<a, b>>
<1> DEFINE g == <<a, b>>
<1>1. g \in [1..2 -> RanksOf(S)] /\ 2 \in Nat
  OBVIOUS
<1>2. \A r \in RanksOf(S) : \E i \in 1..2 : g[i] = r
  <2>1. g[1] = a /\ g[2] = b /\ 1 \in 1..2 /\ 2 \in 1..2
    OBVIOUS
  <2> HIDE DEF g
  <2> QED
    BY <2>1
<1>3. \A i, j \in 1..2 : i < j => Precedes(S, g[i], g[j])
  <2>1. g[1] = a /\ g[2] = b
    OBVIOUS
  <2>2. \A i, j \in 1..2 : i < j => i = 1 /\ j = 2
    OBVIOUS
  <2> HIDE DEF g
  <2> QED
    BY <2>1, <2>2
<1> HIDE DEF g
<1>4. Groups(S) = g
  BY <1>1, <1>2, <1>3, GroupsAre
<1> QED
  BY <1>4 DEF g

(* Three ranks in the order of groups.                                     *)
LEMMA ThreeGroups ==
  ASSUME NEW S, Dealt(S), NEW a, NEW b, NEW c, RanksOf(S) = {a, b, c},
         Precedes(S, a, b), Precedes(S, a, c), Precedes(S, b, c)
  PROVE  Groups(S) = <<a, b, c>>
<1> DEFINE g == <<a, b, c>>
<1>1. g \in [1..3 -> RanksOf(S)] /\ 3 \in Nat
  OBVIOUS
<1>0. g[1] = a /\ g[2] = b /\ g[3] = c
  OBVIOUS
<1> HIDE DEF g
<1>2. \A r \in RanksOf(S) : \E i \in 1..3 : g[i] = r
  <2>1. 1 \in 1..3 /\ 2 \in 1..3 /\ 3 \in 1..3
    OBVIOUS
  <2> QED
    BY <2>1, <1>0
<1>3. \A i, j \in 1..3 : i < j => Precedes(S, g[i], g[j])
  <2>1. \A i, j \in 1..3 : i < j =>
          (i = 1 /\ j = 2) \/ (i = 1 /\ j = 3) \/ (i = 2 /\ j = 3)
    OBVIOUS
  <2> QED
    BY <2>1, <1>0
<1>4. Groups(S) = g
  BY <1>1, <1>2, <1>3, GroupsAre
<1> QED
  BY <1>4 DEF g

(* Four ranks in the order of groups.                                      *)
LEMMA FourGroups ==
  ASSUME NEW S, Dealt(S), NEW a, NEW b, NEW c, NEW d, RanksOf(S) = {a, b, c, d},
         Precedes(S, a, b), Precedes(S, a, c), Precedes(S, a, d),
         Precedes(S, b, c), Precedes(S, b, d), Precedes(S, c, d)
  PROVE  Groups(S) = <<a, b, c, d>>
<1> DEFINE g == <<a, b, c, d>>
<1>1. g \in [1..4 -> RanksOf(S)] /\ 4 \in Nat
  OBVIOUS
<1>0. g[1] = a /\ g[2] = b /\ g[3] = c /\ g[4] = d
  OBVIOUS
<1> HIDE DEF g
<1>2. \A r \in RanksOf(S) : \E i \in 1..4 : g[i] = r
  <2>1. 1 \in 1..4 /\ 2 \in 1..4 /\ 3 \in 1..4 /\ 4 \in 1..4
    OBVIOUS
  <2> QED
    BY <2>1, <1>0
<1>3. \A i, j \in 1..4 : i < j => Precedes(S, g[i], g[j])
  <2>1. \A i, j \in 1..4 : i < j =>
          \/ (i = 1 /\ j = 2) \/ (i = 1 /\ j = 3) \/ (i = 1 /\ j = 4)
          \/ (i = 2 /\ j = 3) \/ (i = 2 /\ j = 4) \/ (i = 3 /\ j = 4)
    OBVIOUS
  <2> QED
    BY <2>1, <1>0
<1>4. Groups(S) = g
  BY <1>1, <1>2, <1>3, GroupsAre
<1> QED
  BY <1>4 DEF g

(* The cards beside those of a rank.                                       *)
LEMMA Beside ==
  ASSUME NEW S, Dealt(S), NEW a \in RanksOf(S), NEW W, W = S \ Of(S, a)
  PROVE  /\ Dealt(W) /\ RanksOf(W) = RanksOf(S) \ {a}
         /\ Cardinality(W) = Cardinality(S) - Count(S, a)
         /\ \A q \in RanksOf(W) : Count(W, q) = Count(S, q) /\ q # a
         /\ RanksOf(S) = {a} \cup RanksOf(W)
         /\ Pairs(W) = Pairs(S) \ {a}
<1>1. /\ Dealt(W) /\ RanksOf(W) = RanksOf(S) \ {a}
      /\ Cardinality(W) = Cardinality(S) - Count(S, a)
      /\ \A q : q # a => Count(W, q) = Count(S, q)
  BY Peel
<1>2. Pairs(W) = Pairs(S) \ {a}
  BY <1>1 DEF Pairs, AtLeast
<1> QED
  BY <1>1, <1>2

(* Four of a kind among five cards.                                        *)
LEMMA FiveFour ==
  ASSUME NEW S, Five(S), HasFour(S)
  PROVE  EvaluateFive(S) = RuleBookValue(S)
<1>0. Dealt(S) /\ Cardinality(S) = 5
  BY DEF Five
<1> DEFINE a == Max(AtLeast(S, 4))
           W == S \ Of(S, a)
<1>1. Pairs(S) # {}
  <2>1. 4 \in Nat /\ 2 \in Nat /\ 2 <= 4
    OBVIOUS
  <2> QED
    BY <2>1, <1>0, AtLeastIs DEF HasFour, Pairs
<1>2. Above7(S) /\ StraightHigh(RanksOf(S)) = 0 /\ ~IsFlush(S)
  BY <1>1, WithPairs
<1>3. RuleBookValue(S) = <<7, a, Max(RanksOf(S) \ {a})>> /\ a \in AtLeast(S, 4)
  BY <1>0, <1>2, Value7
<1> HIDE DEF a
<1>4. a \in RanksOf(S) /\ Count(S, a) = 4
  <2>1. a \in RanksOf(S) /\ Count(S, a) >= 4 /\ Count(S, a) \in 0..4
    BY <1>0, <1>3, CountIs DEF AtLeast
  <2> QED
    BY <2>1
<1>5. /\ Dealt(W) /\ RanksOf(W) = RanksOf(S) \ {a}
      /\ Cardinality(W) = 1
      /\ \A q \in RanksOf(W) : Count(W, q) = Count(S, q) /\ q # a
      /\ RanksOf(S) = {a} \cup RanksOf(W)
  <2> HIDE DEF W
  <2>1. Cardinality(W) = Cardinality(S) - Count(S, a)
    BY <1>0, <1>4, Beside DEF W
  <2> QED
    BY <1>0, <1>4, <2>1, Beside DEF W
<1> HIDE DEF W
<1>6. PICK b : RanksOf(W) = {b} /\ Count(W, b) = 1
  BY <1>5, OneCard
<1>7. Count(S, b) = 1 /\ RanksOf(S) = {a, b} /\ RanksOf(S) \ {a} = {b}
  BY <1>5, <1>6
<1>8. Groups(S) = <<a, b>>
  <2>1. Precedes(S, a, b)
    BY <1>4, <1>7 DEF Precedes
  <2> QED
    BY <1>0, <1>7, <2>1, TwoGroups
<1>9. Shape(S) = <<4, 1>>
  BY <1>4, <1>7, <1>8, ShapeIs
<1>10. Max({b}) = b
  <2>1. {b} \subseteq 1..14
    BY <1>0, <1>7, RanksAre
  <2>2. {b} # {} /\ Max({b}) \in {b}
    BY <2>1, MaxOfRanks
  <2> QED
    BY <2>2
<1>11. EvaluateFive(S) = <<7>> \o <<a, b>>
  BY <1>2, <1>8, <1>9, ByShape
<1>12. Max(RanksOf(S) \ {a}) = b
  BY <1>7, <1>10
<1>13. <<7>> \o <<a, b>> = <<7, a, b>>
  BY Join12
<1> QED
  BY <1>3, <1>11, <1>12, <1>13

(* A full house of five cards.                                             *)
LEMMA FiveHouse ==
  ASSUME NEW S, Five(S), HasHouse(S), ~HasFour(S)
  PROVE  EvaluateFive(S) = RuleBookValue(S)
<1>0. Dealt(S) /\ Cardinality(S) = 5
  BY DEF Five
<1> DEFINE a == Three(S)
           b == Max(Under(S))
           W == S \ Of(S, a)
           V == W \ Of(W, b)
<1>1. Pairs(S) # {}
  BY DEF HasHouse
<1>2. Above7(S) /\ StraightHigh(RanksOf(S)) = 0 /\ ~IsFlush(S)
  BY <1>1, WithPairs
<1>3. RuleBookValue(S) = <<6, a, b>> /\ a \in Trips(S) /\ b \in Under(S)
  <2>1. Above6(S)
    BY <1>2 DEF Above6
  <2> QED
    BY <1>0, <2>1, Value6
<1>4. b \in Pairs(S) /\ b # a
  BY <1>3 DEF Under
<1> HIDE DEF a, b
<1>5. a \in RanksOf(S) /\ b \in RanksOf(S) /\ Count(S, a) = 3 /\ Count(S, b) = 2
  <2>1. a \in RanksOf(S) /\ Count(S, a) >= 3 /\ b \in RanksOf(S) /\ Count(S, b) >= 2
    BY <1>3, <1>4 DEF Trips, Pairs, AtLeast
  <2>2. Count(S, a) + Count(S, b) <= 5 /\ Count(S, a) \in Nat /\ Count(S, b) \in Nat
    BY <1>0, <1>4, TwoRanks
  <2> QED
    BY <2>1, <2>2
<1>6. /\ Dealt(W) /\ RanksOf(W) = RanksOf(S) \ {a}
      /\ Cardinality(W) = Cardinality(S) - Count(S, a)
      /\ \A q \in RanksOf(W) : Count(W, q) = Count(S, q) /\ q # a
      /\ RanksOf(S) = {a} \cup RanksOf(W)
  BY <1>0, <1>5, Beside
<1> HIDE DEF W
<1>7. b \in RanksOf(W) /\ Count(W, b) = 2 /\ Cardinality(W) = 2
  BY <1>0, <1>4, <1>5, <1>6
<1>8. Dealt(V) /\ RanksOf(W) = {b} \cup RanksOf(V) /\ Cardinality(V) = Cardinality(W) - Count(W, b)
  BY <1>6, <1>7, Beside
<1> HIDE DEF V
<1>9. RanksOf(V) = {}
  <2>1. Cardinality(V) = 0
    BY <1>7, <1>8
  <2>2. V = {}
    BY <1>8, <2>1, FS_EmptySet DEF Dealt
  <2> QED
    BY <2>2 DEF RanksOf
<1>10. RanksOf(S) = {a, b}
  BY <1>6, <1>8, <1>9
<1>11. Groups(S) = <<a, b>>
  <2>1. Precedes(S, a, b)
    BY <1>5 DEF Precedes
  <2> QED
    BY <1>0, <1>10, <2>1, TwoGroups
<1>12. Shape(S) = <<3, 2>>
  BY <1>5, <1>11, ShapeIs
<1>13. EvaluateFive(S) = <<6>> \o <<a, b>>
  BY <1>2, <1>11, <1>12, ByShape
<1> QED
  BY <1>3, <1>13, Join12

(* Three of a kind among five cards.                                       *)
LEMMA FiveThree ==
  ASSUME NEW S, Five(S), HasThree(S), ~HasHouse(S), ~HasFour(S)
  PROVE  EvaluateFive(S) = RuleBookValue(S)
<1>0. Dealt(S) /\ Cardinality(S) = 5
  BY DEF Five
<1> DEFINE a == Three(S)
           W == S \ Of(S, a)
           X == RanksOf(W)
           b == Nth(X, 1)
           c == Nth(X, 2)
<1>1. Pairs(S) # {}
  BY <1>0, ThreeIs DEF HasThree
<1>2. Above7(S) /\ StraightHigh(RanksOf(S)) = 0 /\ ~IsFlush(S) /\ Above3(S)
  BY <1>1, WithPairs DEF Above3, Above4, Above5, Above6
<1>3. /\ RuleBookValue(S) = <<3, a>> \o Highest(RanksOf(S) \ {a}, 2)
      /\ a \in Trips(S) /\ Pairs(S) = {a}
  BY <1>0, <1>2, Value3
<1> HIDE DEF a
<1>4. a \in RanksOf(S) /\ Count(S, a) = 3
  <2>1. a \in RanksOf(S) /\ Count(S, a) >= 3 /\ Count(S, a) \in Int
    BY <1>0, <1>3, CountIs DEF Trips, AtLeast
  <2>2. ~(Count(S, a) >= 4)
    BY <2>1 DEF HasFour, AtLeast
  <2> QED
    BY <2>1, <2>2
<1>5. /\ Dealt(W) /\ RanksOf(W) = RanksOf(S) \ {a}
      /\ Cardinality(W) = Cardinality(S) - Count(S, a)
      /\ \A q \in RanksOf(W) : Count(W, q) = Count(S, q) /\ q # a
      /\ RanksOf(S) = {a} \cup RanksOf(W)
      /\ Pairs(W) = Pairs(S) \ {a}
  BY <1>0, <1>4, Beside
<1> HIDE DEF W
<1>6. Cardinality(W) = 2 /\ Pairs(W) = {}
  BY <1>0, <1>3, <1>4, <1>5
<1>7. Cardinality(X) = 2 /\ (\A q \in X : Count(W, q) = 1) /\ Ints(X)
  BY <1>5, <1>6, Distinct, RanksAre DEF Pairs
<1>8. b \in X /\ c \in X /\ b > c /\ X = {b, c}
  <2> HIDE DEF X
  <2>1. 1 \in 1..Cardinality(X) /\ 2 \in 1..Cardinality(X) /\ 1 < 2
    BY <1>7
  <2>2. b \in X /\ c \in X /\ b > c
    BY <1>7, <2>1, NthIs, NthFalls
  <2>3. X = {Nth(X, i) : i \in 1..2}
    BY <1>7, LeadingAll DEF Leading
  <2> QED
    BY <2>2, <2>3
<1>9. Count(S, b) = 1 /\ Count(S, c) = 1 /\ RanksOf(S) = {a, b, c} /\ RanksOf(S) \ {a} = X
  <2>1. Count(S, b) = 1 /\ Count(S, c) = 1
    BY <1>5, <1>7, <1>8
  <2>2. RanksOf(S) = {a, b, c}
    BY <1>5, <1>8
  <2> QED
    BY <2>1, <2>2, <1>5
<1> HIDE DEF X, b, c
<1>10. Groups(S) = <<a, b, c>>
  <2>1. Precedes(S, a, b) /\ Precedes(S, a, c) /\ Precedes(S, b, c)
    BY <1>4, <1>8, <1>9 DEF Precedes
  <2> QED
    BY <1>0, <1>9, <2>1, ThreeGroups
<1>11. Shape(S) = <<3, 1, 1>>
  BY <1>4, <1>9, <1>10, ShapeIs
<1>12. EvaluateFive(S) = <<3>> \o <<a, b, c>>
  BY <1>2, <1>10, <1>11, ByShape
<1>13. Highest(RanksOf(S) \ {a}, 2) = <<b, c>>
  BY <1>9, HighestIs DEF b, c
<1>14. <<3>> \o <<a, b, c>> = <<3, a, b, c>>
  BY Join13
<1>15. <<3, a>> \o <<b, c>> = <<3, a, b, c>>
  BY Join22
<1> QED
  BY <1>3, <1>12, <1>13, <1>14, <1>15

(* Two cards of a rank, and no three: exactly two.                         *)
LEMMA CountOfPair ==
  ASSUME NEW S, Dealt(S), ~HasThree(S), NEW p \in Pairs(S)
  PROVE  p \in RanksOf(S) /\ Count(S, p) = 2
<1>1. p \in RanksOf(S) /\ Count(S, p) >= 2 /\ Count(S, p) \in Int
  BY CountIs DEF Pairs, AtLeast
<1>2. ~(Count(S, p) >= 3)
  BY <1>1 DEF HasThree, Trips, AtLeast
<1> QED
  BY <1>1, <1>2

(* The paired ranks are ranks of the hand.                                 *)
LEMMA PairsAre ==
  ASSUME NEW S, Dealt(S)
  PROVE  Ints(Pairs(S)) /\ Pairs(S) \subseteq RanksOf(S) /\ Pairs(S) \subseteq 1..14
<1>1. 2 \in Nat
  OBVIOUS
<1> QED
  BY <1>1, AtLeastIs DEF Pairs

(* Two pairs have a higher and a lower.                                    *)
LEMMA TopPairs ==
  ASSUME NEW S, Dealt(S), HasTwoPair(S)
  PROVE  /\ 1 \in 1..Cardinality(Pairs(S)) /\ 2 \in 1..Cardinality(Pairs(S))
         /\ Nth(Pairs(S), 1) \in Pairs(S) /\ Nth(Pairs(S), 2) \in Pairs(S)
         /\ Nth(Pairs(S), 1) > Nth(Pairs(S), 2)
<1>1. Cardinality(Pairs(S)) >= 2 /\ Cardinality(Pairs(S)) \in Nat
  BY PairsAre, TwoOrOne DEF HasTwoPair, Ints
<1>2. 1 \in 1..Cardinality(Pairs(S)) /\ 2 \in 1..Cardinality(Pairs(S)) /\ 1 < 2
  BY <1>1
<1> QED
  BY <1>2, PairsAre, NthIs, NthFalls

(* The only rank is the first.                                             *)
LEMMA NthOfOne ==
  ASSUME NEW b \in 1..14
  PROVE  Nth({b}, 1) = b /\ Max({b}) = b
<1>1. {b} \subseteq 1..14 /\ {b} # {}
  OBVIOUS
<1>2. Ints({b}) /\ Max({b}) \in {b}
  BY <1>1, MaxOfRanks
<1>3. Nth({b}, 1) = Max({b})
  BY <1>1, <1>2, FirstIsMax
<1> QED
  BY <1>2, <1>3

(* Two pair among five cards.                                              *)
LEMMA FiveTwoPair ==
  ASSUME NEW S, Five(S), HasTwoPair(S), ~HasThree(S), ~HasFour(S)
  PROVE  EvaluateFive(S) = RuleBookValue(S)
<1>0. Dealt(S) /\ Cardinality(S) = 5
  BY DEF Five
<1> DEFINE a == Nth(Pairs(S), 1)
           b == Nth(Pairs(S), 2)
           W == S \ Of(S, a)
           V == W \ Of(W, b)
<1>1. Pairs(S) # {}
  BY DEF HasTwoPair
<1>2. Above7(S) /\ StraightHigh(RanksOf(S)) = 0 /\ ~IsFlush(S) /\ Above2(S)
  <2>1. ~HasHouse(S)
    BY DEF HasHouse, HasThree
  <2> QED
    BY <1>1, <2>1, WithPairs DEF Above2, Above3, Above4, Above5, Above6
<1>3. RuleBookValue(S) = <<2, a, b>> \o Highest(RanksOf(S) \ {a, b}, 1)
  BY <1>0, <1>2, Value2
<1>4. a \in Pairs(S) /\ b \in Pairs(S) /\ a > b
  BY <1>0, TopPairs
<1> HIDE DEF a, b
<1>5. a \in RanksOf(S) /\ b \in RanksOf(S) /\ Count(S, a) = 2 /\ Count(S, b) = 2
      /\ a \in Int /\ b \in Int /\ a # b
  <2>1. a \in RanksOf(S) /\ b \in RanksOf(S) /\ Count(S, a) = 2 /\ Count(S, b) = 2
    BY <1>0, <1>4, CountOfPair
  <2>2. a \in Int /\ b \in Int
    BY <1>0, <2>1, RanksAre
  <2> QED
    BY <1>4, <2>1, <2>2
<1>6. /\ Dealt(W) /\ RanksOf(W) = RanksOf(S) \ {a}
      /\ Cardinality(W) = Cardinality(S) - Count(S, a)
      /\ \A q \in RanksOf(W) : Count(W, q) = Count(S, q) /\ q # a
      /\ RanksOf(S) = {a} \cup RanksOf(W)
  BY <1>0, <1>5, Beside
<1> HIDE DEF W
<1>7. b \in RanksOf(W) /\ Count(W, b) = 2 /\ Cardinality(W) = 3
  BY <1>0, <1>5, <1>6
<1>8. /\ Dealt(V) /\ RanksOf(V) = RanksOf(W) \ {b}
      /\ Cardinality(V) = Cardinality(W) - Count(W, b)
      /\ \A q \in RanksOf(V) : Count(V, q) = Count(W, q) /\ q # b
      /\ RanksOf(W) = {b} \cup RanksOf(V)
  BY <1>6, <1>7, Beside
<1> HIDE DEF V
<1>9. Cardinality(V) = 1
  BY <1>7, <1>8
<1>10. PICK c : RanksOf(V) = {c} /\ Count(V, c) = 1
  BY <1>8, <1>9, OneCard
<1>11. c # a /\ c # b /\ Count(S, c) = 1 /\ RanksOf(S) = {a, b, c} /\ RanksOf(S) \ {a, b} = {c}
  <2>1. c \in RanksOf(V) /\ c \in RanksOf(W)
    BY <1>8, <1>10
  <2>2. c # a /\ c # b /\ Count(S, c) = 1
    BY <1>6, <1>8, <1>10, <2>1
  <2> QED
    BY <2>2, <1>6, <1>8, <1>10
<1>12. Groups(S) = <<a, b, c>>
  <2>1. Precedes(S, a, b) /\ Precedes(S, a, c) /\ Precedes(S, b, c)
    BY <1>4, <1>5, <1>11 DEF Precedes
  <2> QED
    BY <1>0, <1>11, <2>1, ThreeGroups
<1>13. Shape(S) = <<2, 2, 1>>
  BY <1>5, <1>11, <1>12, ShapeIs
<1>14. EvaluateFive(S) = <<2>> \o <<a, b, c>>
  BY <1>2, <1>12, <1>13, ByShape
<1>15. Highest(RanksOf(S) \ {a, b}, 1) = <<c>>
  <2>1. c \in RanksOf(S)
    BY <1>11
  <2>2. c \in 1..14
    BY <1>0, <2>1, RanksAre
  <2> QED
    BY <1>11, <2>2, HighestIs, NthOfOne
<1>16. <<2>> \o <<a, b, c>> = <<2, a, b, c>>
  BY Join13
<1>17. <<2, a, b>> \o <<c>> = <<2, a, b, c>>
  BY Join31
<1> QED
  BY <1>3, <1>14, <1>15, <1>16, <1>17

(* One pair among five cards.                                              *)
LEMMA FivePair ==
  ASSUME NEW S, Five(S), HasPair(S), ~HasTwoPair(S), ~HasThree(S), ~HasFour(S)
  PROVE  EvaluateFive(S) = RuleBookValue(S)
<1>0. Dealt(S) /\ Cardinality(S) = 5
  BY DEF Five
<1> DEFINE a == Max(Pairs(S))
           W == S \ Of(S, a)
           X == RanksOf(W)
           b == Nth(X, 1)
           c == Nth(X, 2)
           d == Nth(X, 3)
<1>1. Pairs(S) # {}
  BY DEF HasPair
<1>2. Above7(S) /\ StraightHigh(RanksOf(S)) = 0 /\ ~IsFlush(S) /\ Above1(S)
  <2>1. ~HasHouse(S)
    BY DEF HasHouse, HasThree
  <2> QED
    BY <1>1, <2>1, WithPairs DEF Above1, Above2, Above3, Above4, Above5, Above6
<1>3. /\ RuleBookValue(S) = <<1, a>> \o Highest(RanksOf(S) \ Pairs(S), 3)
      /\ Pairs(S) = {a}
  BY <1>0, <1>2, Value1
<1> HIDE DEF a
<1>4. a \in RanksOf(S) /\ Count(S, a) = 2
  BY <1>0, <1>3, CountOfPair
<1>5. /\ Dealt(W) /\ RanksOf(W) = RanksOf(S) \ {a}
      /\ Cardinality(W) = Cardinality(S) - Count(S, a)
      /\ \A q \in RanksOf(W) : Count(W, q) = Count(S, q) /\ q # a
      /\ RanksOf(S) = {a} \cup RanksOf(W)
      /\ Pairs(W) = Pairs(S) \ {a}
  BY <1>0, <1>4, Beside
<1> HIDE DEF W
<1>6. Cardinality(W) = 3 /\ Pairs(W) = {}
  BY <1>0, <1>3, <1>4, <1>5
<1>7. Cardinality(X) = 3 /\ (\A q \in X : Count(W, q) = 1) /\ Ints(X)
  BY <1>5, <1>6, Distinct, RanksAre DEF Pairs
<1>8. b \in X /\ c \in X /\ d \in X /\ b > c /\ c > d /\ b > d /\ X = {b, c, d}
  <2> HIDE DEF X
  <2>1. 1 \in 1..Cardinality(X) /\ 2 \in 1..Cardinality(X) /\ 3 \in 1..Cardinality(X)
        /\ 1 < 2 /\ 2 < 3 /\ 1 < 3
    BY <1>7
  <2>2. b \in X /\ c \in X /\ d \in X
    BY <1>7, <2>1, NthIs
  <2>3. b > c /\ c > d /\ b > d
    BY <1>7, <2>1, NthFalls
  <2>4. X = {Nth(X, i) : i \in 1..3}
    BY <1>7, LeadingAll DEF Leading
  <2> QED
    BY <2>2, <2>3, <2>4
<1>9. /\ Count(S, b) = 1 /\ Count(S, c) = 1 /\ Count(S, d) = 1
      /\ RanksOf(S) = {a, b, c, d} /\ RanksOf(S) \ {a} = X
  <2>1. Count(S, b) = 1 /\ Count(S, c) = 1 /\ Count(S, d) = 1
    BY <1>5, <1>7, <1>8
  <2>2. RanksOf(S) = {a, b, c, d}
    BY <1>5, <1>8
  <2> QED
    BY <2>1, <2>2, <1>5
<1> HIDE DEF X, b, c, d
<1>10. Groups(S) = <<a, b, c, d>>
  <2>1. /\ Precedes(S, a, b) /\ Precedes(S, a, c) /\ Precedes(S, a, d)
        /\ Precedes(S, b, c) /\ Precedes(S, b, d) /\ Precedes(S, c, d)
    BY <1>4, <1>8, <1>9 DEF Precedes
  <2> QED
    BY <1>0, <1>9, <2>1, FourGroups
<1>11. Shape(S) = <<2, 1, 1, 1>>
  BY <1>4, <1>9, <1>10, ShapeIs
<1>12. EvaluateFive(S) = <<1>> \o <<a, b, c, d>>
  BY <1>2, <1>10, <1>11, ByShape
<1>13. Highest(RanksOf(S) \ Pairs(S), 3) = <<b, c, d>>
  BY <1>3, <1>9, HighestIs DEF b, c, d
<1>14. <<1>> \o <<a, b, c, d>> = <<1, a, b, c, d>>
  BY Join14
<1>15. <<1, a>> \o <<b, c, d>> = <<1, a, b, c, d>>
  BY Join23
<1> QED
  BY <1>3, <1>12, <1>13, <1>14, <1>15

(* Five cards of five ranks: straight flush, flush, straight or nothing.   *)
LEMMA FiveDistinct ==
  ASSUME NEW S, Five(S), ~HasPair(S)
  PROVE  EvaluateFive(S) = RuleBookValue(S)
<1>0. Dealt(S) /\ Cardinality(S) = 5 /\ Pairs(S) = {}
  BY DEF Five, HasPair
<1> DEFINE R == RanksOf(S)
           g == Highest(R, 5)
<1>1. Cardinality(R) = 5 /\ (\A q \in R : Count(S, q) = 1) /\ Ints(R) /\ R \subseteq 2..14
  BY <1>0, Distinct, RanksAre DEF Pairs
<1>2. Groups(S) = g
  <2>1. g = [i \in 1..5 |-> Nth(R, i)]
    BY DEF Highest
  <2>2. \A i \in 1..5 : Nth(R, i) \in R
    BY <1>1, NthIs
  <2>3. \A i, j \in 1..5 : i < j => Nth(R, i) > Nth(R, j)
    BY <1>1, NthFalls
  <2>4. R = {Nth(R, i) : i \in 1..5}
    BY <1>1, LeadingAll DEF Leading
  <2> HIDE DEF g
  <2>5. g \in [1..5 -> R] /\ 5 \in Nat
    BY <2>1, <2>2
  <2>6. \A r \in R : \E i \in 1..5 : g[i] = r
    BY <2>1, <2>4
  <2>7. ASSUME NEW i \in 1..5, NEW j \in 1..5, i < j
        PROVE  Precedes(S, g[i], g[j])
    <3>1. g[i] > g[j] /\ g[i] \in R /\ g[j] \in R
      BY <2>1, <2>2, <2>3, <2>7
    <3> QED
      BY <1>1, <3>1 DEF Precedes
  <2>8. \A i, j \in 1..5 : i < j => Precedes(S, g[i], g[j])
    BY <2>7
  <2>9. Dealt(S) /\ R = RanksOf(S)
    BY <1>0
  <2> HIDE DEF R
  <2> QED
    BY <2>5, <2>6, <2>8, <2>9, GroupsAre
<1>3. Shape(S) = <<1, 1, 1, 1, 1>>
  <2>1. Shape(S) = [i \in DOMAIN g |-> Count(S, g[i])]
    BY <1>2 DEF Shape
  <2>2. DOMAIN g = 1..5 /\ \A i \in 1..5 : g[i] = Nth(R, i)
    BY DEF Highest
  <2>3. \A i \in 1..5 : Count(S, g[i]) = 1
    BY <1>1, <2>2, NthIs
  <2> HIDE DEF g
  <2>4. Shape(S) = [i \in 1..5 |-> 1]
    BY <2>1, <2>2, <2>3
  <2> QED
    BY <2>4
<1>4. StraightHigh(R) = Straight(S) /\ Straight(S) \in Nat
  <2>1. Straights(R) \subseteq 1..14
    BY StraightsAre
  <2>2. StraightHigh(R) = Straight(S)
    BY <1>1, HighStraight DEF Straight
  <2>3. Straight(S) \in 0..14
    BY <2>1, BestOrZero DEF Straight
  <2> QED
    BY <2>2, <2>3
<1>5. EvaluateFive(S) =
           IF Straight(S) > 0
             THEN IF IsFlush(S) THEN <<8, Straight(S)>> ELSE <<4, Straight(S)>>
             ELSE IF IsFlush(S) THEN <<5>> \o g ELSE <<0>> \o g
  BY <1>2, <1>3, <1>4, Unshaped
<1>6. ~HasFour(S) /\ ~HasHouse(S) /\ ~HasThree(S) /\ ~HasTwoPair(S)
  <2>1. AtLeast(S, 4) = {}
    <3>1. 4 \in Nat /\ 2 \in Nat /\ 2 <= 4
      OBVIOUS
    <3> QED
      BY <3>1, <1>0, AtLeastIs DEF Pairs
  <2> QED
    BY <1>0, <2>1, ThreeIs DEF HasFour, HasHouse, HasThree, HasTwoPair
<1>7. Straight(S) > 0 <=> HasStraight(S)
  <2>1. Straights(R) \subseteq 1..14
    BY StraightsAre
  <2>2. Straights(R) = {} => Straight(S) = 0
    BY <2>1, BestOrZero DEF Straight
  <2>3. Straights(R) # {} => Straight(S) \in Straights(R)
    BY <2>1, BestOrZero DEF Straight
  <2> QED
    BY <2>1, <2>2, <2>3 DEF HasStraight
<1> HIDE DEF g
<1>8. CASE IsFlush(S)
  <2>1. Flushes(S) = {S} /\ FlushIn(S) = S /\ HasFlush(S)
    BY <1>8, FlushOfFive
  <2>2. Royals(S) = Straights(R)
    BY <2>1 DEF Royals
  <2>3. CASE HasStraight(S)
    <3>1. HasRoyal(S) /\ Royal(S) = Straight(S)
      BY <2>2, <2>3 DEF HasRoyal, HasStraight, Royal, Straight
    <3>2. RuleBookValue(S) = <<8, Straight(S)>>
      BY <1>0, <3>1, Value8
    <3> QED
      BY <1>5, <1>7, <1>8, <2>3, <3>2
  <2>4. CASE ~HasStraight(S)
    <3>1. Above5(S)
      BY <1>6, <2>2, <2>4 DEF Above5, Above6, Above7, HasRoyal, HasStraight
    <3>2. RuleBookValue(S) = <<5>> \o g
      BY <1>0, <2>1, <3>1, Value5 DEF g
    <3> QED
      BY <1>5, <1>7, <1>8, <2>4, <3>2
  <2> QED
    BY <2>3, <2>4
<1>9. CASE ~IsFlush(S)
  <2>1. ~HasFlush(S) /\ Flushes(S) = {}
    BY <1>9, FlushOfFive DEF HasFlush
  <2>2. Above4(S)
    BY <1>6, <2>1 DEF Above4, Above5, Above6, Above7, HasRoyal, Royals
  <2>3. CASE HasStraight(S)
    <3>1. RuleBookValue(S) = <<4, Straight(S)>>
      BY <1>0, <2>2, <2>3, Value4
    <3> QED
      BY <1>5, <1>7, <1>9, <2>3, <3>1
  <2>4. CASE ~HasStraight(S)
    <3>1. Above0(S)
      BY <1>0, <1>6, <2>2, <2>4 DEF Above0, Above1, Above2, Above3, HasPair
    <3>2. RuleBookValue(S) = <<0>> \o g
      BY <1>0, <3>1, Value0 DEF g
    <3> QED
      BY <1>5, <1>7, <1>9, <2>4, <3>2
  <2> QED
    BY <2>3, <2>4
<1> QED
  BY <1>8, <1>9

(* A hand of five is worth what the rules say.                             *)
THEOREM FiveByTheRules ==
  ASSUME NEW S, Five(S)
  PROVE  EvaluateFive(S) = RuleBookValue(S)
  BY FiveFour, FiveHouse, FiveThree, FiveTwoPair, FivePair, FiveDistinct

-----------------------------------------------------------------------------
(* Five to seven cards: the category, the kickers, the value as a tuple.   *)

(* The hands evaluateBestHand accepts.                                     *)
Hand(S) == Dealt(S) /\ Cardinality(S) \in 5..7

Holds(S, k) ==
  /\ k = 8 => HasRoyal(S)
  /\ k = 7 => HasFour(S)
  /\ k = 6 => HasHouse(S)
  /\ k = 5 => HasFlush(S)
  /\ k = 4 => HasStraight(S)
  /\ k = 3 => HasThree(S)
  /\ k = 2 => HasTwoPair(S)
  /\ k = 1 => HasPair(S)

Category(S) == Max({k \in 0..8 : Holds(S, k)})

(* What a hand holds, by the number of the category.                       *)
LEMMA HoldsIs ==
  ASSUME NEW S
  PROVE  /\ Holds(S, 8) <=> HasRoyal(S)
         /\ Holds(S, 7) <=> HasFour(S)
         /\ Holds(S, 6) <=> HasHouse(S)
         /\ Holds(S, 5) <=> HasFlush(S)
         /\ Holds(S, 4) <=> HasStraight(S)
         /\ Holds(S, 3) <=> HasThree(S)
         /\ Holds(S, 2) <=> HasTwoPair(S)
         /\ Holds(S, 1) <=> HasPair(S)
         /\ Holds(S, 0)
  BY DEF Holds

(* The category is the highest that holds.                                 *)
LEMMA CategoryIs ==
  ASSUME NEW S
  PROVE  /\ Category(S) \in 0..8 /\ Holds(S, Category(S))
         /\ \A k \in 0..8 : Holds(S, k) => k <= Category(S)
<1> DEFINE K == {k \in 0..8 : Holds(S, k)}
<1>1. IsFiniteSet(0..8)
  <2>1. 0 \in Int /\ 8 \in Int
    OBVIOUS
  <2> QED
    BY <2>1, FS_Interval
<1>2. K \subseteq 0..8 /\ 0 \in K
  BY HoldsIs
<1> HIDE DEF K
<1>3. IsFiniteSet(K) /\ K # {} /\ K \subseteq Int
  <2>1. IsFiniteSet(K)
    BY <1>1, <1>2, FS_Subset
  <2> QED
    BY <1>2, <2>1
<1>4. Max(K) \in K /\ \A v \in K : v <= Max(K)
  BY <1>3, MaxOfFinite
<1>5. Category(S) = Max(K)
  BY DEF Category, K
<1> QED
  BY <1>4, <1>5 DEF K

(* The category decides which arm of the rule book applies.                *)
LEMMA ArmIs ==
  ASSUME NEW S
  PROVE  /\ Category(S) = 8 => HasRoyal(S)
         /\ Category(S) = 7 => HasFour(S) /\ Above7(S)
         /\ Category(S) = 6 => HasHouse(S) /\ Above6(S)
         /\ Category(S) = 5 => HasFlush(S) /\ Above5(S)
         /\ Category(S) = 4 => HasStraight(S) /\ Above4(S)
         /\ Category(S) = 3 => HasThree(S) /\ Above3(S)
         /\ Category(S) = 2 => HasTwoPair(S) /\ Above2(S)
         /\ Category(S) = 1 => HasPair(S) /\ Above1(S)
         /\ Category(S) = 0 => Above0(S)
<1> DEFINE c == Category(S)
<1>1. c \in 0..8 /\ Holds(S, c) /\ \A k \in 0..8 : Holds(S, k) => k <= c
  BY CategoryIs
<1>2. /\ c < 8 => ~HasRoyal(S)
      /\ c < 7 => ~HasFour(S)
      /\ c < 6 => ~HasHouse(S)
      /\ c < 5 => ~HasFlush(S)
      /\ c < 4 => ~HasStraight(S)
      /\ c < 3 => ~HasThree(S)
      /\ c < 2 => ~HasTwoPair(S)
      /\ c < 1 => ~HasPair(S)
  <2>1. \A k \in 0..8 : c < k => ~Holds(S, k)
    <3> HIDE DEF c
    <3> QED
      BY <1>1
  <2> HIDE DEF c
  <2> QED
    BY <2>1, HoldsIs
<1> HIDE DEF c
<1>3. /\ c = 8 => HasRoyal(S)
      /\ c = 7 => HasFour(S)
      /\ c = 6 => HasHouse(S)
      /\ c = 5 => HasFlush(S)
      /\ c = 4 => HasStraight(S)
      /\ c = 3 => HasThree(S)
      /\ c = 2 => HasTwoPair(S)
      /\ c = 1 => HasPair(S)
  BY <1>1, HoldsIs
<1>4. /\ c < 8 => Above7(S)
      /\ c < 7 => Above6(S)
      /\ c < 6 => Above5(S)
      /\ c < 5 => Above4(S)
      /\ c < 4 => Above3(S)
      /\ c < 3 => Above2(S)
      /\ c < 2 => Above1(S)
      /\ c < 1 => Above0(S)
  BY <1>1, <1>2 DEF Above0, Above1, Above2, Above3, Above4, Above5, Above6, Above7
<1> QED
  BY <1>3, <1>4 DEF c

(* More cards hold whatever fewer do.                                      *)
LEMMA HoldsGrow ==
  ASSUME NEW S, Dealt(S), NEW T \in SUBSET S
  PROVE  /\ Pairs(T) \subseteq Pairs(S) /\ Trips(T) \subseteq Trips(S)
         /\ AtLeast(T, 4) \subseteq AtLeast(S, 4) /\ RanksOf(T) \subseteq RanksOf(S)
         /\ Royals(T) \subseteq Royals(S)
         /\ Straights(RanksOf(T)) \subseteq Straights(RanksOf(S))
         /\ \A k : Holds(T, k) => Holds(S, k)
<1>1. /\ RanksOf(T) \subseteq RanksOf(S) /\ Pairs(T) \subseteq Pairs(S)
      /\ Trips(T) \subseteq Trips(S) /\ AtLeast(T, 4) \subseteq AtLeast(S, 4)
  <2>1. 2 \in Nat /\ 3 \in Nat /\ 4 \in Nat
    OBVIOUS
  <2> QED
    BY <2>1, MoreCards DEF Pairs, Trips
<1>2. Straights(RanksOf(T)) \subseteq Straights(RanksOf(S))
  BY <1>1, StraightsGrow
<1>3. ASSUME NEW h \in Royals(T)
      PROVE  h \in Royals(S)
  <2>1. PICK f \in Flushes(T) : h \in Straights(RanksOf(f))
    BY DEF Royals
  <2>2. PICK g \in Flushes(S) : f \subseteq g
    BY <2>1, FlushesGrow
  <2>3. Straights(RanksOf(f)) \subseteq Straights(RanksOf(g))
    <3>1. RanksOf(f) \subseteq RanksOf(g)
      BY <2>2 DEF RanksOf
    <3> QED
      BY <3>1, StraightsGrow
  <2> QED
    BY <2>1, <2>2, <2>3 DEF Royals
<1>4. HasFlush(T) => HasFlush(S)
  BY FlushesGrow DEF HasFlush
<1>5. /\ HasRoyal(T) => HasRoyal(S)
      /\ HasFour(T) => HasFour(S)
      /\ HasStraight(T) => HasStraight(S)
      /\ HasThree(T) => HasThree(S)
      /\ HasPair(T) => HasPair(S)
  BY <1>1, <1>2, <1>3 DEF HasRoyal, HasFour, HasStraight, HasThree, HasPair
<1>6. HasHouse(T) => HasHouse(S)
  BY <1>1 DEF HasHouse
<1>7. HasTwoPair(T) => HasTwoPair(S)
  BY <1>1 DEF HasTwoPair
<1>8. \A k : Holds(T, k) => Holds(S, k)
  BY <1>4, <1>5, <1>6, <1>7 DEF Holds
<1> QED
  BY <1>1, <1>2, <1>3, <1>8

(* More cards are never of a lower category.                               *)
LEMMA CategoryGrows ==
  ASSUME NEW S, Dealt(S), NEW T \in SUBSET S
  PROVE  Category(T) <= Category(S) /\ Category(T) \in 0..8 /\ Category(S) \in 0..8
  BY HoldsGrow, CategoryIs

(* The cards beside the ones a category counts.                            *)
LEMMA KickersOfFour ==
  ASSUME NEW S, Hand(S), NEW a \in AtLeast(S, 4)
  PROVE  /\ Count(S, a) = 4 /\ a \in RanksOf(S)
         /\ RanksOf(S) \ {a} # {} /\ RanksOf(S) \ {a} \subseteq 1..14
<1>1. Dealt(S) /\ Cardinality(S) \in 5..7
  BY DEF Hand
<1>2. a \in RanksOf(S) /\ Count(S, a) = 4
  <2>1. a \in RanksOf(S) /\ Count(S, a) >= 4 /\ Count(S, a) \in 0..4
    BY <1>1, CountIs DEF AtLeast
  <2> QED
    BY <2>1
<1> DEFINE W == S \ Of(S, a)
<1>3. Dealt(W) /\ RanksOf(W) = RanksOf(S) \ {a} /\ Cardinality(W) = Cardinality(S) - Count(S, a)
  BY <1>1, <1>2, Beside
<1> HIDE DEF W
<1>4. Cardinality(W) # 0
  BY <1>1, <1>2, <1>3
<1>5. W # {}
  BY <1>4, FS_EmptySet
<1> QED
  BY <1>1, <1>2, <1>3, <1>5, RanksAre

(* Beside a three.                                                         *)
LEMMA KickersOfThree ==
  ASSUME NEW S, Hand(S), Above3(S), HasThree(S)
  PROVE  /\ Count(S, Three(S)) = 3 /\ Three(S) \in RanksOf(S)
         /\ Ints(RanksOf(S) \ {Three(S)}) /\ Cardinality(RanksOf(S) \ {Three(S)}) \in Nat
         /\ Cardinality(RanksOf(S) \ {Three(S)}) >= 2
<1> DEFINE a == Three(S)
           W == S \ Of(S, a)
<1>1. Dealt(S) /\ Cardinality(S) \in 5..7
  BY DEF Hand
<1>2. a \in Trips(S) /\ Pairs(S) = {a}
  BY <1>1, Value3
<1> HIDE DEF a
<1>3. a \in RanksOf(S) /\ Count(S, a) = 3
  <2>1. a \in RanksOf(S) /\ Count(S, a) >= 3 /\ Count(S, a) \in Int
    BY <1>1, <1>2, CountIs DEF Trips, AtLeast
  <2>2. ~(Count(S, a) >= 4)
    BY <1>1, <2>1, NoStraight DEF AtLeast
  <2> QED
    BY <2>1, <2>2
<1>4. /\ Dealt(W) /\ RanksOf(W) = RanksOf(S) \ {a} /\ Pairs(W) = Pairs(S) \ {a}
      /\ Cardinality(W) = Cardinality(S) - Count(S, a)
  BY <1>1, <1>3, Beside
<1> HIDE DEF W
<1>5. Cardinality(RanksOf(W)) = Cardinality(W) /\ Ints(RanksOf(W))
  BY <1>2, <1>4, Distinct, RanksAre DEF Pairs
<1>6. Cardinality(W) \in Nat /\ Cardinality(W) >= 2
  BY <1>1, <1>3, <1>4
<1> QED
  BY <1>3, <1>4, <1>5, <1>6 DEF a

(* Beside two pairs.                                                       *)
LEMMA KickersOfTwoPair ==
  ASSUME NEW S, Hand(S), Above2(S), HasTwoPair(S), NEW a \in Pairs(S), NEW b \in Pairs(S), a # b
  PROVE  /\ Count(S, a) = 2 /\ Count(S, b) = 2 /\ a \in RanksOf(S) /\ b \in RanksOf(S)
         /\ Ints(RanksOf(S) \ {a, b}) /\ Cardinality(RanksOf(S) \ {a, b}) \in Nat
         /\ Cardinality(RanksOf(S) \ {a, b}) >= 1
<1> DEFINE W == S \ Of(S, a)
           V == W \ Of(W, b)
<1>1. Dealt(S) /\ Cardinality(S) \in 5..7 /\ ~HasThree(S)
  BY DEF Hand, Above2
<1>2. Count(S, a) = 2 /\ Count(S, b) = 2 /\ a \in RanksOf(S) /\ b \in RanksOf(S)
  BY <1>1, CountOfPair
<1>3. /\ Dealt(W) /\ RanksOf(W) = RanksOf(S) \ {a}
      /\ Cardinality(W) = Cardinality(S) - Count(S, a)
      /\ \A q \in RanksOf(W) : Count(W, q) = Count(S, q) /\ q # a
  BY <1>1, <1>2, Beside
<1> HIDE DEF W
<1>4. b \in RanksOf(W) /\ Count(W, b) = 2
  BY <1>2, <1>3
<1>5. Dealt(V) /\ RanksOf(V) = RanksOf(W) \ {b} /\ Cardinality(V) = Cardinality(W) - Count(W, b)
  BY <1>3, <1>4, Beside
<1> HIDE DEF V
<1>6. Cardinality(V) # 0
  BY <1>1, <1>2, <1>3, <1>4, <1>5
<1>7. V # {}
  BY <1>6, FS_EmptySet
<1>8. RanksOf(V) = RanksOf(S) \ {a, b}
  BY <1>3, <1>5
<1>9. Ints(RanksOf(V)) /\ RanksOf(V) # {}
  BY <1>5, <1>7, RanksAre
<1>10. Cardinality(RanksOf(V)) \in Nat /\ Cardinality(RanksOf(V)) >= 1
  <2>1. Cardinality(RanksOf(V)) \in Nat /\ Cardinality(RanksOf(V)) # 0
    BY <1>9, FS_CardinalityType, FS_EmptySet DEF Ints
  <2> QED
    BY <2>1
<1> QED
  BY <1>2, <1>8, <1>9, <1>10

(* Beside a pair.                                                          *)
LEMMA KickersOfPair ==
  ASSUME NEW S, Hand(S), Above1(S), HasPair(S)
  PROVE  /\ Count(S, Max(Pairs(S))) = 2 /\ Max(Pairs(S)) \in RanksOf(S)
         /\ Ints(RanksOf(S) \ Pairs(S)) /\ Cardinality(RanksOf(S) \ Pairs(S)) \in Nat
         /\ Cardinality(RanksOf(S) \ Pairs(S)) >= 3
<1> DEFINE a == Max(Pairs(S))
           W == S \ Of(S, a)
<1>1. Dealt(S) /\ Cardinality(S) \in 5..7 /\ ~HasThree(S)
  BY DEF Hand, Above1, Above2
<1>2. Pairs(S) = {a}
  BY <1>1, Value1
<1> HIDE DEF a
<1>3. a \in RanksOf(S) /\ Count(S, a) = 2
  BY <1>1, <1>2, CountOfPair
<1>4. /\ Dealt(W) /\ RanksOf(W) = RanksOf(S) \ {a} /\ Pairs(W) = Pairs(S) \ {a}
      /\ Cardinality(W) = Cardinality(S) - Count(S, a)
  BY <1>1, <1>3, Beside
<1> HIDE DEF W
<1>5. Cardinality(RanksOf(W)) = Cardinality(W) /\ Ints(RanksOf(W))
  BY <1>2, <1>4, Distinct, RanksAre DEF Pairs
<1>6. Cardinality(W) \in Nat /\ Cardinality(W) >= 3
  BY <1>1, <1>3, <1>4
<1>7. RanksOf(S) \ Pairs(S) = RanksOf(W)
  BY <1>2, <1>4
<1> QED
  BY <1>3, <1>5, <1>6, <1>7 DEF a

(* All five.                                                               *)
LEMMA KickersOfNone ==
  ASSUME NEW S, Hand(S), Above0(S)
  PROVE  /\ Ints(RanksOf(S)) /\ Cardinality(RanksOf(S)) \in Nat /\ Cardinality(RanksOf(S)) >= 5
<1>1. Dealt(S) /\ Cardinality(S) \in 5..7 /\ Pairs(S) = {}
  BY DEF Hand, Above0, HasPair
<1>2. Cardinality(RanksOf(S)) = Cardinality(S) /\ Ints(RanksOf(S))
  BY <1>1, Distinct, RanksAre DEF Pairs
<1> QED
  BY <1>1, <1>2

(* How many numbers a value of a category has.                             *)
Width(k) ==
  IF k \in {8, 4} THEN 2 ELSE IF k \in {7, 6} THEN 3
  ELSE IF k \in {3, 2} THEN 4 ELSE IF k = 1 THEN 5 ELSE 6

Listing(v, k) == v \in [1..Width(k) -> Int] /\ v[1] = k

(* The first n ranks of a large enough set.                                *)
LEMMA NthsAre ==
  ASSUME NEW R, Ints(R), NEW n \in Nat, Cardinality(R) \in Nat, Cardinality(R) >= n
  PROVE  \A i \in 1..n : i \in 1..Cardinality(R) /\ Nth(R, i) \in R /\ Nth(R, i) \in Int
<1>1. \A i \in 1..n : i \in 1..Cardinality(R)
  OBVIOUS
<1>2. \A i \in 1..n : Nth(R, i) \in R
  BY <1>1, NthIs
<1> QED
  BY <1>1, <1>2 DEF Ints

(* The value as a tuple of numbers: a straight flush.                      *)
LEMMA Listed8 ==
  ASSUME NEW S, Hand(S), HasRoyal(S)
  PROVE  RuleBookValue(S) = <<8, Royal(S)>> /\ Royal(S) \in Int
<1>1. Dealt(S)
  BY DEF Hand
<1> QED
  BY <1>1, Value8, RoyalsAre

(* Four of a kind.                                                         *)
LEMMA Listed7 ==
  ASSUME NEW S, Hand(S), HasFour(S), Above7(S), NEW q, q = Max(AtLeast(S, 4))
  PROVE  /\ q \in AtLeast(S, 4) /\ q \in Int
         /\ Max(RanksOf(S) \ {q}) \in RanksOf(S) \ {q} /\ Max(RanksOf(S) \ {q}) \in Int
         /\ RuleBookValue(S) = <<7, q, Max(RanksOf(S) \ {q})>>
<1>1. Dealt(S)
  BY DEF Hand
<1>2. q \in AtLeast(S, 4) /\ RuleBookValue(S) = <<7, q, Max(RanksOf(S) \ {q})>>
  BY <1>1, Value7
<1>3. q \in RanksOf(S) /\ RanksOf(S) \ {q} # {} /\ RanksOf(S) \ {q} \subseteq 1..14
  BY <1>2, KickersOfFour
<1>4. Max(RanksOf(S) \ {q}) \in RanksOf(S) \ {q}
  BY <1>3, MaxOfRanks
<1>5. q \in Int /\ Max(RanksOf(S) \ {q}) \in Int
  BY <1>1, <1>3, <1>4, RanksAre
<1> QED
  BY <1>2, <1>4, <1>5

(* A full house.                                                           *)
LEMMA Listed6 ==
  ASSUME NEW S, Hand(S), HasHouse(S), Above6(S)
  PROVE  /\ Three(S) \in Trips(S) /\ Three(S) \in Int
         /\ Max(Under(S)) \in Under(S) /\ Max(Under(S)) \in Int
         /\ Under(S) \subseteq 1..14
         /\ RuleBookValue(S) = <<6, Three(S), Max(Under(S))>>
<1>1. Dealt(S)
  BY DEF Hand
<1>2. /\ Three(S) \in Trips(S) /\ Max(Under(S)) \in Under(S)
      /\ RuleBookValue(S) = <<6, Three(S), Max(Under(S))>>
  BY <1>1, Value6
<1>3. Under(S) \subseteq 1..14
  BY <1>1, PairsAre DEF Under
<1>4. Three(S) \in Int /\ Max(Under(S)) \in Int
  BY <1>1, <1>2, <1>3, ThreeIs
<1> QED
  BY <1>2, <1>3, <1>4

(* A flush.                                                                *)
LEMMA Listed5 ==
  ASSUME NEW S, Hand(S), HasFlush(S), Above5(S), NEW X, X = RanksOf(FlushIn(S))
  PROVE  /\ FlushIn(S) \in Flushes(S)
         /\ Ints(X) /\ Cardinality(X) \in Nat /\ Cardinality(X) >= 5
         /\ RuleBookValue(S) = <<5, Nth(X, 1), Nth(X, 2), Nth(X, 3), Nth(X, 4), Nth(X, 5)>>
<1>1. Dealt(S)
  BY DEF Hand
<1>2. RuleBookValue(S) = <<5>> \o Highest(X, 5) /\ FlushIn(S) \in Flushes(S)
  BY <1>1, Value5
<1>3. Dealt(FlushIn(S)) /\ Cardinality(X) \in Nat /\ Cardinality(X) >= 5
  BY <1>1, <1>2, FlushesAre
<1>4. Ints(X)
  BY <1>3, RanksAre
<1>5. Highest(X, 5) = <<Nth(X, 1), Nth(X, 2), Nth(X, 3), Nth(X, 4), Nth(X, 5)>>
  BY HighestIs
<1>6. <<5>> \o <<Nth(X, 1), Nth(X, 2), Nth(X, 3), Nth(X, 4), Nth(X, 5)>>
        = <<5, Nth(X, 1), Nth(X, 2), Nth(X, 3), Nth(X, 4), Nth(X, 5)>>
  BY Join15
<1> QED
  BY <1>2, <1>3, <1>4, <1>5, <1>6

(* A straight.                                                             *)
LEMMA Listed4 ==
  ASSUME NEW S, Hand(S), HasStraight(S), Above4(S)
  PROVE  RuleBookValue(S) = <<4, Straight(S)>> /\ Straight(S) \in Int
<1>1. Dealt(S)
  BY DEF Hand
<1>2. Straights(RanksOf(S)) \subseteq 1..14
  BY StraightsAre
<1> QED
  BY <1>1, <1>2, Value4

(* Three of a kind.                                                        *)
LEMMA Listed3 ==
  ASSUME NEW S, Hand(S), HasThree(S), Above3(S), NEW X, X = RanksOf(S) \ {Three(S)}
  PROVE  /\ Three(S) \in Int /\ Pairs(S) = {Three(S)} /\ Three(S) \in Trips(S)
         /\ Ints(X) /\ Cardinality(X) \in Nat /\ Cardinality(X) >= 2
         /\ RuleBookValue(S) = <<3, Three(S), Nth(X, 1), Nth(X, 2)>>
<1>1. Dealt(S)
  BY DEF Hand
<1>2. /\ RuleBookValue(S) = <<3, Three(S)>> \o Highest(X, 2)
      /\ Pairs(S) = {Three(S)} /\ Three(S) \in Trips(S)
  BY <1>1, Value3
<1>3. Ints(X) /\ Cardinality(X) \in Nat /\ Cardinality(X) >= 2
  BY KickersOfThree
<1>4. Highest(X, 2) = <<Nth(X, 1), Nth(X, 2)>>
  BY HighestIs
<1>5. <<3, Three(S)>> \o <<Nth(X, 1), Nth(X, 2)>> = <<3, Three(S), Nth(X, 1), Nth(X, 2)>>
  BY Join22
<1>6. Three(S) \in Int
  BY <1>1, ThreeIs
<1> QED
  BY <1>2, <1>3, <1>4, <1>5, <1>6

(* Two pair.                                                               *)
LEMMA Listed2 ==
  ASSUME NEW S, Hand(S), HasTwoPair(S), Above2(S),
         NEW a, a = Nth(Pairs(S), 1), NEW b, b = Nth(Pairs(S), 2), NEW X, X = RanksOf(S) \ {a, b}
  PROVE  /\ a \in Int /\ b \in Int /\ a \in Pairs(S) /\ b \in Pairs(S) /\ a > b
         /\ Ints(X) /\ Cardinality(X) \in Nat /\ Cardinality(X) >= 1
         /\ RuleBookValue(S) = <<2, a, b, Nth(X, 1)>>
<1>1. Dealt(S)
  BY DEF Hand
<1>2. RuleBookValue(S) = <<2, a, b>> \o Highest(X, 1)
  BY <1>1, Value2
<1>3. a \in Pairs(S) /\ b \in Pairs(S) /\ a > b
  BY <1>1, TopPairs
<1>4. a \in Int /\ b \in Int /\ a # b
  BY <1>1, <1>3, PairsAre DEF Ints
<1>5. Ints(X) /\ Cardinality(X) \in Nat /\ Cardinality(X) >= 1
  BY <1>3, <1>4, KickersOfTwoPair
<1>6. Highest(X, 1) = <<Nth(X, 1)>>
  BY HighestIs
<1>7. <<2, a, b>> \o <<Nth(X, 1)>> = <<2, a, b, Nth(X, 1)>>
  BY Join31
<1> QED
  BY <1>2, <1>3, <1>4, <1>5, <1>6, <1>7

(* One pair.                                                               *)
LEMMA Listed1 ==
  ASSUME NEW S, Hand(S), HasPair(S), Above1(S), NEW X, X = RanksOf(S) \ Pairs(S)
  PROVE  /\ Max(Pairs(S)) \in Int /\ Pairs(S) = {Max(Pairs(S))}
         /\ Ints(X) /\ Cardinality(X) \in Nat /\ Cardinality(X) >= 3
         /\ RuleBookValue(S) = <<1, Max(Pairs(S)), Nth(X, 1), Nth(X, 2), Nth(X, 3)>>
<1>1. Dealt(S)
  BY DEF Hand
<1>2. RuleBookValue(S) = <<1, Max(Pairs(S))>> \o Highest(X, 3) /\ Pairs(S) = {Max(Pairs(S))}
  BY <1>1, Value1
<1>3. /\ Ints(X) /\ Cardinality(X) \in Nat /\ Cardinality(X) >= 3
      /\ Max(Pairs(S)) \in RanksOf(S)
  BY KickersOfPair
<1>4. Highest(X, 3) = <<Nth(X, 1), Nth(X, 2), Nth(X, 3)>>
  BY HighestIs
<1>5. <<1, Max(Pairs(S))>> \o <<Nth(X, 1), Nth(X, 2), Nth(X, 3)>>
        = <<1, Max(Pairs(S)), Nth(X, 1), Nth(X, 2), Nth(X, 3)>>
  BY Join23
<1>6. Max(Pairs(S)) \in Int
  BY <1>1, <1>3, RanksAre DEF Ints
<1> QED
  BY <1>2, <1>3, <1>4, <1>5, <1>6

(* No pair.                                                                *)
LEMMA Listed0 ==
  ASSUME NEW S, Hand(S), Above0(S), NEW X, X = RanksOf(S)
  PROVE  /\ Ints(X) /\ Cardinality(X) \in Nat /\ Cardinality(X) >= 5
         /\ RuleBookValue(S) = <<0, Nth(X, 1), Nth(X, 2), Nth(X, 3), Nth(X, 4), Nth(X, 5)>>
<1>1. Dealt(S)
  BY DEF Hand
<1>2. RuleBookValue(S) = <<0>> \o Highest(X, 5)
  BY <1>1, Value0
<1>3. Ints(X) /\ Cardinality(X) \in Nat /\ Cardinality(X) >= 5
  BY KickersOfNone
<1>4. Highest(X, 5) = <<Nth(X, 1), Nth(X, 2), Nth(X, 3), Nth(X, 4), Nth(X, 5)>>
  BY HighestIs
<1>5. <<0>> \o <<Nth(X, 1), Nth(X, 2), Nth(X, 3), Nth(X, 4), Nth(X, 5)>>
        = <<0, Nth(X, 1), Nth(X, 2), Nth(X, 3), Nth(X, 4), Nth(X, 5)>>
  BY Join15
<1> QED
  BY <1>2, <1>3, <1>4, <1>5

(* Tuples of the length a category has are values of it.                   *)
LEMMA TuplesAreListings ==
  ASSUME NEW a \in Int, NEW b \in Int, NEW c \in Int, NEW d \in Int, NEW e \in Int
  PROVE  /\ Listing(<<8, a>>, 8) /\ Listing(<<7, a, b>>, 7) /\ Listing(<<6, a, b>>, 6)
         /\ Listing(<<5, a, b, c, d, e>>, 5) /\ Listing(<<4, a>>, 4)
         /\ Listing(<<3, a, b, c>>, 3) /\ Listing(<<2, a, b, c>>, 2)
         /\ Listing(<<1, a, b, c, d>>, 1) /\ Listing(<<0, a, b, c, d, e>>, 0)
<1>1. Listing(<<8, a>>, 8) /\ Listing(<<4, a>>, 4)
  BY DEF Listing, Width
<1>2. Listing(<<7, a, b>>, 7) /\ Listing(<<6, a, b>>, 6)
  BY DEF Listing, Width
<1>3. Listing(<<3, a, b, c>>, 3) /\ Listing(<<2, a, b, c>>, 2)
  BY DEF Listing, Width
<1>4. Listing(<<1, a, b, c, d>>, 1)
  BY DEF Listing, Width
<1>5. Listing(<<5, a, b, c, d, e>>, 5)
  BY DEF Listing, Width
<1>6. Listing(<<0, a, b, c, d, e>>, 0)
  BY DEF Listing, Width
<1> QED
  BY <1>1, <1>2, <1>3, <1>4, <1>5, <1>6

(* The first number of a value is its category, which fixes the length.    *)
LEMMA ValueIsListing ==
  ASSUME NEW S, Hand(S)
  PROVE  Listing(RuleBookValue(S), Category(S)) /\ Category(S) \in 0..8
<1> DEFINE c == Category(S)
           v == RuleBookValue(S)
<1>1. c \in 0..8
  BY CategoryIs
<1> SUFFICES Listing(v, c)
  BY <1>1
<1>2. CASE c = 8
  <2>1. v = <<8, Royal(S)>> /\ Royal(S) \in Int
    BY <1>2, ArmIs, Listed8
  <2> QED
    BY <1>2, <2>1, TuplesAreListings
<1>3. CASE c = 7
  <2> DEFINE q == Max(AtLeast(S, 4))
             r == Max(RanksOf(S) \ {q})
  <2>1. v = <<7, q, r>> /\ q \in Int /\ r \in Int
    BY <1>3, ArmIs, Listed7
  <2> HIDE DEF q, r
  <2> QED
    BY <1>3, <2>1, TuplesAreListings
<1>4. CASE c = 6
  <2>1. v = <<6, Three(S), Max(Under(S))>> /\ Three(S) \in Int /\ Max(Under(S)) \in Int
    BY <1>4, ArmIs, Listed6
  <2> QED
    BY <1>4, <2>1, TuplesAreListings
<1>5. CASE c = 5
  <2> DEFINE X == RanksOf(FlushIn(S))
  <2>1. /\ v = <<5, Nth(X, 1), Nth(X, 2), Nth(X, 3), Nth(X, 4), Nth(X, 5)>>
        /\ Ints(X) /\ Cardinality(X) \in Nat /\ Cardinality(X) >= 5
    BY <1>5, ArmIs, Listed5
  <2> HIDE DEF X
  <2>2. \A i \in 1..5 : Nth(X, i) \in Int
    BY <2>1, NthsAre
  <2>3. Nth(X, 1) \in Int /\ Nth(X, 2) \in Int /\ Nth(X, 3) \in Int /\ Nth(X, 4) \in Int
        /\ Nth(X, 5) \in Int
    BY <2>2
  <2>4. Listing(<<5, Nth(X, 1), Nth(X, 2), Nth(X, 3), Nth(X, 4), Nth(X, 5)>>, 5)
    BY <2>3, TuplesAreListings
  <2> HIDE DEF v, c
  <2> QED
    BY <1>5, <2>1, <2>4
<1>6. CASE c = 4
  <2>1. v = <<4, Straight(S)>> /\ Straight(S) \in Int
    BY <1>6, ArmIs, Listed4
  <2> QED
    BY <1>6, <2>1, TuplesAreListings
<1>7. CASE c = 3
  <2> DEFINE X == RanksOf(S) \ {Three(S)}
  <2>1. /\ v = <<3, Three(S), Nth(X, 1), Nth(X, 2)>> /\ Three(S) \in Int
        /\ Ints(X) /\ Cardinality(X) \in Nat /\ Cardinality(X) >= 2
    BY <1>7, ArmIs, Listed3
  <2> HIDE DEF X
  <2>2. \A i \in 1..2 : Nth(X, i) \in Int
    BY <2>1, NthsAre
  <2>3. Nth(X, 1) \in Int /\ Nth(X, 2) \in Int
    BY <2>2
  <2> QED
    BY <1>7, <2>1, <2>3, TuplesAreListings
<1>8. CASE c = 2
  <2> DEFINE a == Nth(Pairs(S), 1)
             b == Nth(Pairs(S), 2)
             X == RanksOf(S) \ {a, b}
  <2>1. /\ v = <<2, a, b, Nth(X, 1)>> /\ a \in Int /\ b \in Int
        /\ Ints(X) /\ Cardinality(X) \in Nat /\ Cardinality(X) >= 1
    BY <1>8, ArmIs, Listed2
  <2> HIDE DEF a, b, X
  <2>2. \A i \in 1..1 : Nth(X, i) \in Int
    BY <2>1, NthsAre
  <2>3. Nth(X, 1) \in Int
    BY <2>2
  <2> QED
    BY <1>8, <2>1, <2>3, TuplesAreListings
<1>9. CASE c = 1
  <2> DEFINE a == Max(Pairs(S))
             X == RanksOf(S) \ Pairs(S)
  <2>1. /\ v = <<1, a, Nth(X, 1), Nth(X, 2), Nth(X, 3)>> /\ a \in Int
        /\ Ints(X) /\ Cardinality(X) \in Nat /\ Cardinality(X) >= 3
    BY <1>9, ArmIs, Listed1
  <2> HIDE DEF a, X
  <2>2. \A i \in 1..3 : Nth(X, i) \in Int
    BY <2>1, NthsAre
  <2>3. Nth(X, 1) \in Int /\ Nth(X, 2) \in Int /\ Nth(X, 3) \in Int
    BY <2>2
  <2> QED
    BY <1>9, <2>1, <2>3, TuplesAreListings
<1>10. CASE c = 0
  <2> DEFINE X == RanksOf(S)
  <2>1. /\ v = <<0, Nth(X, 1), Nth(X, 2), Nth(X, 3), Nth(X, 4), Nth(X, 5)>>
        /\ Ints(X) /\ Cardinality(X) \in Nat /\ Cardinality(X) >= 5
    BY <1>10, ArmIs, Listed0
  <2> HIDE DEF X
  <2>2. \A i \in 1..5 : Nth(X, i) \in Int
    BY <2>1, NthsAre
  <2>3. Nth(X, 1) \in Int /\ Nth(X, 2) \in Int /\ Nth(X, 3) \in Int /\ Nth(X, 4) \in Int
        /\ Nth(X, 5) \in Int
    BY <2>2
  <2>4. Listing(<<0, Nth(X, 1), Nth(X, 2), Nth(X, 3), Nth(X, 4), Nth(X, 5)>>, 0)
    BY <2>3, TuplesAreListings
  <2> HIDE DEF v, c
  <2> QED
    BY <1>10, <2>1, <2>4
<1> HIDE DEF c, v
<1> QED
  BY <1>1, <1>2, <1>3, <1>4, <1>5, <1>6, <1>7, <1>8, <1>9, <1>10

-----------------------------------------------------------------------------
(* Fewer cards never make a better hand.                                   *)

(* Where the numbers before agree, the left one is no larger.              *)
NotAhead(l, r) ==
  \A i \in DOMAIN l \cap DOMAIN r : (\A j \in 1..(i - 1) : l[j] = r[j]) => ~(l[i] > r[i])

(* The first difference decides who is ahead.                              *)
LEMMA NotAheadIs ==
  ASSUME NEW l, NEW r
  PROVE  NotAhead(l, r) <=> ~Beats(l, r)
  BY DEF NotAhead, Beats

(* A value whose numbers are no larger does not beat another: two numbers. *)
LEMMA Behind2 ==
  ASSUME NEW k \in Int, NEW a \in Int, NEW x \in Int, a <= x
  PROVE  ~Beats(<<k, a>>, <<k, x>>)
<1> DEFINE l == <<k, a>>
           r == <<k, x>>
<1>1. \A i \in DOMAIN l \cap DOMAIN r : ~(l[i] > r[i])
  OBVIOUS
<1> HIDE DEF l, r
<1>2. ~Beats(l, r)
  BY <1>1 DEF Beats
<1> QED
  BY <1>2 DEF l, r

(* Three: the last counts when the others agree.                           *)
LEMMA Behind3 ==
  ASSUME NEW k \in Int, NEW a \in Int, NEW b \in Int, NEW x \in Int, NEW y \in Int,
         a <= x, a = x => b <= y
  PROVE  ~Beats(<<k, a, b>>, <<k, x, y>>)
<1> DEFINE l == <<k, a, b>>
           r == <<k, x, y>>
<1>1. DOMAIN l = 1..3 /\ DOMAIN r = 1..3
  OBVIOUS
<1>2. l[1] = k /\ l[2] = a /\ l[3] = b /\ r[1] = k /\ r[2] = x /\ r[3] = y
  OBVIOUS
<1> HIDE DEF l, r
<1>3. NotAhead(l, r)
  <2> SUFFICES ASSUME NEW i \in 1..3, \A j \in 1..(i - 1) : l[j] = r[j]
               PROVE  ~(l[i] > r[i])
    BY <1>1 DEF NotAhead
  <2>1. CASE i = 1
    BY <1>2, <2>1
  <2>2. CASE i = 2
    BY <1>2, <2>2
  <2>3. CASE i = 3
    <3>1. l[2] = r[2]
      BY <2>3
    <3> QED
      BY <1>2, <2>3, <3>1
  <2> QED
    BY <2>1, <2>2, <2>3
<1> QED
  BY <1>3, NotAheadIs DEF l, r

(* Four.                                                                   *)
LEMMA Behind4 ==
  ASSUME NEW k \in Int, NEW a \in Int, NEW b \in Int, NEW c \in Int,
         NEW x \in Int, NEW y \in Int, NEW z \in Int,
         a <= x, a = x => b <= y, a = x /\ b = y => c <= z
  PROVE  ~Beats(<<k, a, b, c>>, <<k, x, y, z>>)
<1> DEFINE l == <<k, a, b, c>>
           r == <<k, x, y, z>>
<1>1. DOMAIN l = 1..4 /\ DOMAIN r = 1..4
  OBVIOUS
<1>2. /\ l[1] = k /\ l[2] = a /\ l[3] = b /\ l[4] = c
      /\ r[1] = k /\ r[2] = x /\ r[3] = y /\ r[4] = z
  OBVIOUS
<1> HIDE DEF l, r
<1>3. NotAhead(l, r)
  <2> SUFFICES ASSUME NEW i \in 1..4, \A j \in 1..(i - 1) : l[j] = r[j]
               PROVE  ~(l[i] > r[i])
    BY <1>1 DEF NotAhead
  <2>1. CASE i = 1
    BY <1>2, <2>1
  <2>2. CASE i = 2
    BY <1>2, <2>2
  <2>3. CASE i = 3
    <3>1. l[2] = r[2]
      BY <2>3
    <3> QED
      BY <1>2, <2>3, <3>1
  <2>4. CASE i = 4
    <3>1. l[2] = r[2] /\ l[3] = r[3]
      BY <2>4
    <3> QED
      BY <1>2, <2>4, <3>1
  <2> QED
    BY <2>1, <2>2, <2>3, <2>4
<1> QED
  BY <1>3, NotAheadIs DEF l, r

(* Five.                                                                   *)
LEMMA Behind5 ==
  ASSUME NEW k \in Int, NEW a \in Int, NEW b \in Int, NEW c \in Int, NEW d \in Int,
         NEW x \in Int, NEW y \in Int, NEW z \in Int, NEW w \in Int,
         a <= x, b <= y, c <= z, d <= w
  PROVE  ~Beats(<<k, a, b, c, d>>, <<k, x, y, z, w>>)
<1> DEFINE l == <<k, a, b, c, d>>
           r == <<k, x, y, z, w>>
<1>1. DOMAIN l = 1..5 /\ DOMAIN r = 1..5
  OBVIOUS
<1>2. /\ l[1] = k /\ l[2] = a /\ l[3] = b /\ l[4] = c /\ l[5] = d
      /\ r[1] = k /\ r[2] = x /\ r[3] = y /\ r[4] = z /\ r[5] = w
  OBVIOUS
<1> HIDE DEF l, r
<1>3. \A i \in DOMAIN l \cap DOMAIN r : ~(l[i] > r[i])
  BY <1>1, <1>2
<1>4. ~Beats(l, r)
  BY <1>3 DEF Beats
<1> QED
  BY <1>4 DEF l, r

(* Six.                                                                    *)
LEMMA Behind6 ==
  ASSUME NEW k \in Int, NEW f, NEW g,
         \A i \in 1..5 : f[i] \in Int /\ g[i] \in Int /\ f[i] <= g[i]
  PROVE  ~Beats(<<k, f[1], f[2], f[3], f[4], f[5]>>, <<k, g[1], g[2], g[3], g[4], g[5]>>)
<1> DEFINE l == <<k, f[1], f[2], f[3], f[4], f[5]>>
           r == <<k, g[1], g[2], g[3], g[4], g[5]>>
<1>1. DOMAIN l = 1..6 /\ DOMAIN r = 1..6
  OBVIOUS
<1>2. /\ l[1] = k /\ l[2] = f[1] /\ l[3] = f[2] /\ l[4] = f[3] /\ l[5] = f[4] /\ l[6] = f[5]
      /\ r[1] = k /\ r[2] = g[1] /\ r[3] = g[2] /\ r[4] = g[3] /\ r[5] = g[4] /\ r[6] = g[5]
  OBVIOUS
<1>3. /\ ~(f[1] > g[1]) /\ ~(f[2] > g[2]) /\ ~(f[3] > g[3]) /\ ~(f[4] > g[4])
      /\ ~(f[5] > g[5]) /\ ~(k > k)
  OBVIOUS
<1> HIDE DEF l, r
<1>4. \A i \in 1..6 : i = 1 \/ i = 2 \/ i = 3 \/ i = 4 \/ i = 5 \/ i = 6
  OBVIOUS
<1>5. \A i \in DOMAIN l \cap DOMAIN r : ~(l[i] > r[i])
  BY <1>1, <1>2, <1>3, <1>4
<1>6. ~Beats(l, r)
  BY <1>5 DEF Beats
<1> QED
  BY <1>6 DEF l, r

(* The highest of more ranks is no lower.                                  *)
LEMMA MaxGrows ==
  ASSUME NEW Y, Y \subseteq 1..14, NEW X \in SUBSET Y, X # {}
  PROVE  Max(X) <= Max(Y)
<1>1. Max(X) \in X
  BY MaxOfRanks
<1> QED
  BY <1>1, MaxOfRanks

(* A hand and part of it.                                                  *)
LEMMA PartHand ==
  ASSUME NEW S, Hand(S), NEW T \in SUBSET S, Hand(T)
  PROVE  Dealt(S) /\ Dealt(T) /\ Cardinality(S) <= 7
  BY DEF Hand

(* Fewer cards of the same category are not ahead: a straight flush.       *)
LEMMA NotAhead8 ==
  ASSUME NEW S, Hand(S), NEW T \in SUBSET S, Hand(T), Category(T) = 8, Category(S) = 8
  PROVE  ~Beats(RuleBookValue(T), RuleBookValue(S))
<1>1. Dealt(S) /\ Dealt(T) /\ HasRoyal(S) /\ HasRoyal(T)
  BY PartHand, ArmIs
<1>2. Royal(T) \in Royals(T) /\ \A h \in Royals(S) : h <= Royal(S)
  BY <1>1, Value8
<1>3. Royal(T) <= Royal(S)
  BY <1>1, <1>2, HoldsGrow
<1>4. /\ RuleBookValue(T) = <<8, Royal(T)>> /\ Royal(T) \in Int
      /\ RuleBookValue(S) = <<8, Royal(S)>> /\ Royal(S) \in Int
  BY <1>1, Listed8
<1>5. 8 \in Int
  OBVIOUS
<1> QED
  BY <1>3, <1>4, <1>5, Behind2

(* A straight.                                                             *)
LEMMA NotAhead4 ==
  ASSUME NEW S, Hand(S), NEW T \in SUBSET S, Hand(T), Category(T) = 4, Category(S) = 4
  PROVE  ~Beats(RuleBookValue(T), RuleBookValue(S))
<1>1. /\ Dealt(S) /\ Dealt(T) /\ HasStraight(S) /\ Above4(S) /\ HasStraight(T) /\ Above4(T)
  BY PartHand, ArmIs
<1>2. Straight(T) \in Straights(RanksOf(T)) /\ \A h \in Straights(RanksOf(S)) : h <= Straight(S)
  BY <1>1, Value4
<1>3. Straight(T) <= Straight(S)
  BY <1>1, <1>2, HoldsGrow
<1>4. /\ RuleBookValue(T) = <<4, Straight(T)>> /\ Straight(T) \in Int
      /\ RuleBookValue(S) = <<4, Straight(S)>> /\ Straight(S) \in Int
  BY <1>1, Listed4
<1>5. 4 \in Int
  OBVIOUS
<1> QED
  BY <1>3, <1>4, <1>5, Behind2

(* Four of a kind: the same four.                                          *)
LEMMA NotAhead7 ==
  ASSUME NEW S, Hand(S), NEW T \in SUBSET S, Hand(T), Category(T) = 7, Category(S) = 7
  PROVE  ~Beats(RuleBookValue(T), RuleBookValue(S))
<1>1. /\ Dealt(S) /\ Dealt(T) /\ HasFour(S) /\ Above7(S) /\ HasFour(T) /\ Above7(T)
      /\ Cardinality(S) <= 7
  BY PartHand, ArmIs
<1> DEFINE q == Max(AtLeast(S, 4))
           p == Max(AtLeast(T, 4))
           m == Max(RanksOf(S) \ {q})
           n == Max(RanksOf(T) \ {p})
<1>2. q \in AtLeast(S, 4) /\ q \in Int /\ m \in Int /\ RuleBookValue(S) = <<7, q, m>>
  BY <1>1, Listed7
<1>3. p \in AtLeast(T, 4) /\ p \in Int /\ n \in Int /\ RuleBookValue(T) = <<7, p, n>>
  BY <1>1, Listed7
<1> HIDE DEF p, q
<1>4. p = q
  <2>1. p \in AtLeast(S, 4)
    BY <1>1, <1>3, HoldsGrow
  <2> QED
    BY <1>1, <1>2, <2>1, OneFour
<1>5. n <= m
  <2>1. RanksOf(T) \ {p} \subseteq RanksOf(S) \ {q}
    BY <1>1, <1>4, HoldsGrow
  <2>2. RanksOf(T) \ {p} # {} /\ RanksOf(S) \ {q} \subseteq 1..14
    BY <1>2, <1>3, KickersOfFour
  <2> QED
    BY <2>1, <2>2, MaxGrows
<1> HIDE DEF m, n
<1>6. 7 \in Int /\ p <= q
  BY <1>2, <1>4
<1> QED
  BY <1>2, <1>3, <1>5, <1>6, Behind3

(* A full house: the pair counts when the threes agree.                    *)
LEMMA NotAhead6 ==
  ASSUME NEW S, Hand(S), NEW T \in SUBSET S, Hand(T), Category(T) = 6, Category(S) = 6
  PROVE  ~Beats(RuleBookValue(T), RuleBookValue(S))
<1>1. /\ Dealt(S) /\ Dealt(T) /\ HasHouse(S) /\ Above6(S) /\ HasHouse(T) /\ Above6(T)
  BY PartHand, ArmIs
<1> DEFINE q == Three(S)
           p == Three(T)
           m == Max(Under(S))
           n == Max(Under(T))
<1>2. q \in Int /\ m \in Int /\ RuleBookValue(S) = <<6, q, m>> /\ Under(S) \subseteq 1..14
  BY <1>1, Listed6
<1>3. p \in Trips(T) /\ p \in Int /\ n \in Int /\ n \in Under(T) /\ RuleBookValue(T) = <<6, p, n>>
  BY <1>1, Listed6
<1>4. p <= q
  BY <1>1, <1>3, HoldsGrow, ThreeIs
<1>5. p = q => n <= m
  <2> SUFFICES ASSUME p = q
               PROVE  n <= m
    OBVIOUS
  <2>1. Under(T) \subseteq Under(S) /\ Under(T) # {}
    BY <1>1, <1>3, HoldsGrow DEF Under
  <2> QED
    BY <1>2, <2>1, MaxGrows
<1> HIDE DEF m, n, p, q
<1>6. 6 \in Int
  OBVIOUS
<1> QED
  BY <1>2, <1>3, <1>4, <1>5, <1>6, Behind3

(* More ranks to choose from give kickers that are no lower.               *)
LEMMA KickersGrow ==
  ASSUME NEW X, Ints(X), NEW Y \in SUBSET X, Ints(Y),
         NEW n \in Nat, Cardinality(Y) \in Nat, Cardinality(Y) >= n
  PROVE  \A i \in 1..n : Nth(Y, i) \in Int /\ Nth(X, i) \in Int /\ Nth(Y, i) <= Nth(X, i)
<1> SUFFICES ASSUME NEW i \in 1..n
             PROVE  Nth(Y, i) \in Int /\ Nth(X, i) \in Int /\ Nth(Y, i) <= Nth(X, i)
  OBVIOUS
<1>1. i \in 1..Cardinality(Y) /\ Nth(Y, i) \in Int
  BY NthsAre
<1>2. i \in 1..Cardinality(X) /\ Nth(Y, i) <= Nth(X, i)
  BY <1>1, NthGrows
<1>3. Nth(X, i) \in X
  BY <1>2, NthIs
<1> QED
  BY <1>1, <1>2, <1>3 DEF Ints

(* Five ranks from a larger set are not behind.                            *)
LEMMA BehindRanks ==
  ASSUME NEW k \in Int, NEW X, Ints(X), NEW Y \in SUBSET X, Ints(Y),
         Cardinality(Y) \in Nat, Cardinality(Y) >= 5
  PROVE  ~Beats(<<k, Nth(Y, 1), Nth(Y, 2), Nth(Y, 3), Nth(Y, 4), Nth(Y, 5)>>,
                <<k, Nth(X, 1), Nth(X, 2), Nth(X, 3), Nth(X, 4), Nth(X, 5)>>)
<1> DEFINE f == [i \in 1..5 |-> Nth(Y, i)]
           g == [i \in 1..5 |-> Nth(X, i)]
<1>1. \A i \in 1..5 : f[i] = Nth(Y, i) /\ g[i] = Nth(X, i)
  OBVIOUS
<1>2. 5 \in Nat
  OBVIOUS
<1>3. \A i \in 1..5 : Nth(Y, i) \in Int /\ Nth(X, i) \in Int /\ Nth(Y, i) <= Nth(X, i)
  BY <1>2, KickersGrow
<1> HIDE DEF f, g
<1>4. \A i \in 1..5 : f[i] \in Int /\ g[i] \in Int /\ f[i] <= g[i]
  BY <1>1, <1>3
<1>5. ~Beats(<<k, f[1], f[2], f[3], f[4], f[5]>>, <<k, g[1], g[2], g[3], g[4], g[5]>>)
  BY <1>4, Behind6
<1>6. /\ f[1] = Nth(Y, 1) /\ f[2] = Nth(Y, 2) /\ f[3] = Nth(Y, 3) /\ f[4] = Nth(Y, 4)
      /\ f[5] = Nth(Y, 5)
      /\ g[1] = Nth(X, 1) /\ g[2] = Nth(X, 2) /\ g[3] = Nth(X, 3) /\ g[4] = Nth(X, 4)
      /\ g[5] = Nth(X, 5)
  BY <1>1
<1> QED
  BY <1>5, <1>6

(* A flush: of the same suit.                                              *)
LEMMA NotAhead5 ==
  ASSUME NEW S, Hand(S), NEW T \in SUBSET S, Hand(T), Category(T) = 5, Category(S) = 5
  PROVE  ~Beats(RuleBookValue(T), RuleBookValue(S))
<1>1. /\ Dealt(S) /\ Dealt(T) /\ HasFlush(S) /\ Above5(S) /\ HasFlush(T) /\ Above5(T)
      /\ Cardinality(S) <= 7
  BY PartHand, ArmIs
<1> DEFINE X == RanksOf(FlushIn(S))
           Y == RanksOf(FlushIn(T))
<1>2. /\ FlushIn(S) \in Flushes(S) /\ Ints(X)
      /\ RuleBookValue(S) = <<5, Nth(X, 1), Nth(X, 2), Nth(X, 3), Nth(X, 4), Nth(X, 5)>>
  BY <1>1, Listed5
<1>3. /\ FlushIn(T) \in Flushes(T) /\ Ints(Y) /\ Cardinality(Y) \in Nat /\ Cardinality(Y) >= 5
      /\ RuleBookValue(T) = <<5, Nth(Y, 1), Nth(Y, 2), Nth(Y, 3), Nth(Y, 4), Nth(Y, 5)>>
  BY <1>1, Listed5
<1>4. Y \subseteq X
  <2>1. PICK g \in Flushes(S) : FlushIn(T) \subseteq g
    BY <1>1, <1>3, FlushesGrow
  <2>2. g = FlushIn(S)
    BY <1>1, <1>2, <2>1, OneFlush
  <2> QED
    BY <2>1, <2>2 DEF RanksOf
<1> HIDE DEF X, Y
<1>5. 5 \in Int
  OBVIOUS
<1> QED
  BY <1>2, <1>3, <1>4, <1>5, BehindRanks

(* Three of a kind: the same three.                                        *)
LEMMA NotAhead3 ==
  ASSUME NEW S, Hand(S), NEW T \in SUBSET S, Hand(T), Category(T) = 3, Category(S) = 3
  PROVE  ~Beats(RuleBookValue(T), RuleBookValue(S))
<1>1. /\ Dealt(S) /\ Dealt(T) /\ HasThree(S) /\ Above3(S) /\ HasThree(T) /\ Above3(T)
  BY PartHand, ArmIs
<1> DEFINE a == Three(S)
           b == Three(T)
           X == RanksOf(S) \ {a}
           Y == RanksOf(T) \ {b}
<1>2. /\ a \in Int /\ Pairs(S) = {a} /\ Ints(X)
      /\ RuleBookValue(S) = <<3, a, Nth(X, 1), Nth(X, 2)>>
  BY <1>1, Listed3
<1>3. /\ b \in Int /\ Pairs(T) = {b} /\ Ints(Y) /\ Cardinality(Y) \in Nat /\ Cardinality(Y) >= 2
      /\ RuleBookValue(T) = <<3, b, Nth(Y, 1), Nth(Y, 2)>>
  BY <1>1, Listed3
<1> HIDE DEF a, b
<1>4. b = a /\ Y \subseteq X
  <2>1. Pairs(T) \subseteq Pairs(S) /\ RanksOf(T) \subseteq RanksOf(S)
    BY <1>1, HoldsGrow
  <2> QED
    BY <1>2, <1>3, <2>1
<1> HIDE DEF X, Y
<1>5. \A i \in 1..2 : Nth(Y, i) \in Int /\ Nth(X, i) \in Int /\ Nth(Y, i) <= Nth(X, i)
  <2>1. 2 \in Nat
    OBVIOUS
  <2> QED
    BY <1>2, <1>3, <1>4, <2>1, KickersGrow
<1>6. /\ Nth(Y, 1) \in Int /\ Nth(X, 1) \in Int /\ Nth(Y, 1) <= Nth(X, 1)
      /\ Nth(Y, 2) \in Int /\ Nth(X, 2) \in Int /\ Nth(Y, 2) <= Nth(X, 2)
      /\ 3 \in Int /\ b <= a
  BY <1>2, <1>3, <1>4, <1>5
<1>7. ~Beats(<<3, b, Nth(Y, 1), Nth(Y, 2)>>, <<3, a, Nth(X, 1), Nth(X, 2)>>)
  BY <1>2, <1>3, <1>6, Behind4
<1> QED
  BY <1>2, <1>3, <1>7

(* Two pair: the kicker counts when both pairs agree.                      *)
LEMMA NotAhead2 ==
  ASSUME NEW S, Hand(S), NEW T \in SUBSET S, Hand(T), Category(T) = 2, Category(S) = 2
  PROVE  ~Beats(RuleBookValue(T), RuleBookValue(S))
<1>1. /\ Dealt(S) /\ Dealt(T) /\ HasTwoPair(S) /\ Above2(S) /\ HasTwoPair(T) /\ Above2(T)
  BY PartHand, ArmIs
<1> DEFINE a == Nth(Pairs(S), 1)
           b == Nth(Pairs(S), 2)
           X == RanksOf(S) \ {a, b}
           c == Nth(Pairs(T), 1)
           d == Nth(Pairs(T), 2)
           Y == RanksOf(T) \ {c, d}
<1>2. /\ a \in Int /\ b \in Int /\ Ints(X) /\ Cardinality(X) \in Nat /\ Cardinality(X) >= 1
      /\ RuleBookValue(S) = <<2, a, b, Nth(X, 1)>>
  BY <1>1, Listed2
<1>3. /\ c \in Int /\ d \in Int /\ Ints(Y) /\ Cardinality(Y) \in Nat /\ Cardinality(Y) >= 1
      /\ RuleBookValue(T) = <<2, c, d, Nth(Y, 1)>>
  BY <1>1, Listed2
<1>4. c <= a /\ d <= b
  <2>1. Pairs(T) \subseteq Pairs(S) /\ Ints(Pairs(S))
    BY <1>1, HoldsGrow, PairsAre
  <2>2. 1 \in 1..Cardinality(Pairs(T)) /\ 2 \in 1..Cardinality(Pairs(T))
    BY <1>1, TopPairs
  <2> QED
    BY <2>1, <2>2, NthGrows
<1>5. RanksOf(T) \subseteq RanksOf(S)
  BY <1>1, HoldsGrow
<1> HIDE DEF a, b, c, d
<1>6. c = a /\ d = b => Y \subseteq X
  BY <1>5
<1> HIDE DEF X, Y
<1>7. Nth(X, 1) \in Int /\ Nth(Y, 1) \in Int
  <2>1. 1 \in Nat
    OBVIOUS
  <2> QED
    BY <1>2, <1>3, <2>1, NthsAre
<1>8. c = a /\ d = b => Nth(Y, 1) <= Nth(X, 1)
  <2>1. 1 \in Nat
    OBVIOUS
  <2> QED
    BY <1>2, <1>3, <1>6, <2>1, KickersGrow
<1>9. 2 \in Int
  OBVIOUS
<1>10. ~Beats(<<2, c, d, Nth(Y, 1)>>, <<2, a, b, Nth(X, 1)>>)
  BY <1>2, <1>3, <1>4, <1>7, <1>8, <1>9, Behind4
<1> QED
  BY <1>2, <1>3, <1>10

(* One pair: the same pair.                                                *)
LEMMA NotAhead1 ==
  ASSUME NEW S, Hand(S), NEW T \in SUBSET S, Hand(T), Category(T) = 1, Category(S) = 1
  PROVE  ~Beats(RuleBookValue(T), RuleBookValue(S))
<1>1. /\ Dealt(S) /\ Dealt(T) /\ HasPair(S) /\ Above1(S) /\ HasPair(T) /\ Above1(T)
  BY PartHand, ArmIs
<1> DEFINE a == Max(Pairs(S))
           b == Max(Pairs(T))
           X == RanksOf(S) \ Pairs(S)
           Y == RanksOf(T) \ Pairs(T)
<1>2. /\ a \in Int /\ Pairs(S) = {a} /\ Ints(X)
      /\ RuleBookValue(S) = <<1, a, Nth(X, 1), Nth(X, 2), Nth(X, 3)>>
  BY <1>1, Listed1
<1>3. /\ b \in Int /\ Pairs(T) = {b} /\ Ints(Y) /\ Cardinality(Y) \in Nat /\ Cardinality(Y) >= 3
      /\ RuleBookValue(T) = <<1, b, Nth(Y, 1), Nth(Y, 2), Nth(Y, 3)>>
  BY <1>1, Listed1
<1> HIDE DEF a, b
<1>4. b = a /\ Y \subseteq X
  <2>1. Pairs(T) \subseteq Pairs(S) /\ RanksOf(T) \subseteq RanksOf(S)
    BY <1>1, HoldsGrow
  <2> QED
    BY <1>2, <1>3, <2>1
<1> HIDE DEF X, Y
<1>5. \A i \in 1..3 : Nth(Y, i) \in Int /\ Nth(X, i) \in Int /\ Nth(Y, i) <= Nth(X, i)
  <2>1. 3 \in Nat
    OBVIOUS
  <2> QED
    BY <1>2, <1>3, <1>4, <2>1, KickersGrow
<1>6. /\ Nth(Y, 1) \in Int /\ Nth(X, 1) \in Int /\ Nth(Y, 1) <= Nth(X, 1)
      /\ Nth(Y, 2) \in Int /\ Nth(X, 2) \in Int /\ Nth(Y, 2) <= Nth(X, 2)
      /\ Nth(Y, 3) \in Int /\ Nth(X, 3) \in Int /\ Nth(Y, 3) <= Nth(X, 3)
      /\ 1 \in Int /\ b <= a
  BY <1>2, <1>3, <1>4, <1>5
<1>7. ~Beats(<<1, b, Nth(Y, 1), Nth(Y, 2), Nth(Y, 3)>>, <<1, a, Nth(X, 1), Nth(X, 2), Nth(X, 3)>>)
  BY <1>2, <1>3, <1>6, Behind5
<1> QED
  BY <1>2, <1>3, <1>7

(* No pair.                                                                *)
LEMMA NotAhead0 ==
  ASSUME NEW S, Hand(S), NEW T \in SUBSET S, Hand(T), Category(T) = 0, Category(S) = 0
  PROVE  ~Beats(RuleBookValue(T), RuleBookValue(S))
<1>1. Dealt(S) /\ Dealt(T) /\ Above0(S) /\ Above0(T)
  BY PartHand, ArmIs
<1> DEFINE X == RanksOf(S)
           Y == RanksOf(T)
<1>2. /\ Ints(X)
      /\ RuleBookValue(S) = <<0, Nth(X, 1), Nth(X, 2), Nth(X, 3), Nth(X, 4), Nth(X, 5)>>
  BY <1>1, Listed0
<1>3. /\ Ints(Y) /\ Cardinality(Y) \in Nat /\ Cardinality(Y) >= 5
      /\ RuleBookValue(T) = <<0, Nth(Y, 1), Nth(Y, 2), Nth(Y, 3), Nth(Y, 4), Nth(Y, 5)>>
  BY <1>1, Listed0
<1>4. Y \subseteq X
  BY <1>1, HoldsGrow
<1> HIDE DEF X, Y
<1>5. 0 \in Int
  OBVIOUS
<1> QED
  BY <1>2, <1>3, <1>4, <1>5, BehindRanks

(* A lower category loses at the first number.                             *)
LEMMA LowerLoses ==
  ASSUME NEW k \in 0..8, NEW m \in 0..8, k < m, NEW l, NEW r, Listing(l, k), Listing(r, m)
  PROVE  ~Beats(l, r)
<1>1. DOMAIN l = 1..Width(k) /\ l[1] = k /\ r[1] = m /\ Width(k) \in Nat
  BY DEF Listing, Width
<1>2. ASSUME NEW i \in DOMAIN l, l[i] > r[i], \A j \in 1..(i - 1) : l[j] = r[j]
      PROVE  FALSE
  <2>1. i \in Nat /\ i >= 1
    BY <1>1
  <2>2. CASE i = 1
    BY <1>1, <1>2, <2>2
  <2>3. CASE i # 1
    <3>1. 1 \in 1..(i - 1)
      BY <2>1, <2>3
    <3>2. l[1] = r[1]
      BY <1>2, <3>1
    <3> QED
      BY <1>1, <3>2
  <2> QED
    BY <2>2, <2>3
<1> QED
  BY <1>2 DEF Beats

(* Fewer cards never make a better hand.                                   *)
LEMMA NotBetter ==
  ASSUME NEW S, Hand(S), NEW T \in SUBSET S, Hand(T)
  PROVE  ~Beats(RuleBookValue(T), RuleBookValue(S))
<1> DEFINE k == Category(T)
           m == Category(S)
<1>1. k <= m /\ k \in 0..8 /\ m \in 0..8
  <2>1. Dealt(S)
    BY DEF Hand
  <2> QED
    BY <2>1, CategoryGrows
<1>2. CASE k < m
  BY <1>1, <1>2, LowerLoses, ValueIsListing
<1>3. CASE k = m
  <2> HIDE DEF k, m
  <2>1. k \in {0, 1, 2, 3, 4, 5, 6, 7, 8}
    BY <1>1
  <2> USE DEF k, m
  <2> QED
    BY <1>3, <2>1, NotAhead0, NotAhead1, NotAhead2, NotAhead3, NotAhead4, NotAhead5, NotAhead6,
       NotAhead7, NotAhead8
<1>4. k < m \/ k = m
  <2> HIDE DEF k, m
  <2> QED
    BY <1>1
<1> QED
  BY <1>2, <1>3, <1>4

-----------------------------------------------------------------------------
(* Some five of the cards are worth all of them.                           *)

(* Some cards, and one card of each of some other ranks.                   *)
Pick(S, r) == CHOOSE c \in S : c.rank = r
Filled(S, G, K) == G \cup {Pick(S, r) : r \in K}

(* The card picked for a rank is one of that rank.                         *)
LEMMA PickIs ==
  ASSUME NEW S, NEW r \in RanksOf(S)
  PROVE  Pick(S, r) \in S /\ Pick(S, r).rank = r
<1>1. \E c \in S : c.rank = r
  BY DEF RanksOf
<1> QED
  BY <1>1 DEF Pick

(* Some cards filled up with cards of other ranks.                         *)
LEMMA FilledIs ==
  ASSUME NEW S, Dealt(S), NEW G \in SUBSET S, NEW K \in SUBSET RanksOf(S), K \cap RanksOf(G) = {}
  PROVE  LET F == Filled(S, G, K)
         IN  /\ F \in SUBSET S /\ Dealt(F)
             /\ Cardinality(F) = Cardinality(G) + Cardinality(K)
             /\ RanksOf(F) = RanksOf(G) \cup K
             /\ \A r : r \notin K => Count(F, r) = Count(G, r)
<1> DEFINE E == {Pick(S, r) : r \in K}
           F == G \cup E
<1>1. \A r \in K : Pick(S, r) \in S /\ Pick(S, r).rank = r
  BY PickIs
<1>2. F \in SUBSET S /\ Dealt(F) /\ Dealt(G) /\ Dealt(E)
  <2>1. E \in SUBSET S /\ F \in SUBSET S
    BY <1>1
  <2> QED
    BY <2>1, PartDealt
<1>3. RanksOf(F) = RanksOf(G) \cup K
  BY <1>1 DEF RanksOf
<1>4. Cardinality(E) = Cardinality(K)
  <2>1. IsFiniteSet(K)
    BY RanksAre, FS_Subset DEF Ints
  <2> DEFINE f == [r \in K |-> Pick(S, r)]
  <2>2. f \in [K -> E] /\ \A r \in K : f[r].rank = r
    BY <1>1
  <2>3. \A c \in E : \E r \in K : f[r] = c
    OBVIOUS
  <2> HIDE DEF f, E
  <2>4. f \in Injection(K, E)
    BY <2>2 DEF Injection, IsInjective
  <2>5. f \in Surjection(K, E)
    BY <2>2, <2>3 DEF Surjection
  <2>6. ExistsBijection(K, E)
    BY <2>4, <2>5 DEF Bijection, ExistsBijection
  <2> QED
    BY <2>1, <2>6, FS_Bijection
<1>5. Cardinality(F) = Cardinality(G) + Cardinality(E)
  <2>1. G \cap E = {}
    BY <1>1 DEF RanksOf
  <2>2. IsFiniteSet(G) /\ IsFiniteSet(E)
    BY <1>2 DEF Dealt
  <2> HIDE DEF E
  <2>3. Cardinality(G \cup E) = Cardinality(G) + Cardinality(E) - Cardinality(G \cap E)
    BY <2>2, FS_Union
  <2>4. Cardinality(G \cap E) = 0 /\ Cardinality(G) \in Nat /\ Cardinality(E) \in Nat
    BY <2>1, <2>2, FS_EmptySet, FS_CardinalityType
  <2> QED
    BY <2>3, <2>4
<1>6. ASSUME NEW r, r \notin K
      PROVE  Count(F, r) = Count(G, r)
  <2>1. Of(F, r) = Of(G, r)
    BY <1>1, <1>6 DEF Of
  <2> HIDE DEF F
  <2> QED
    BY <1>2, <2>1, CountIs
<1>7. F = Filled(S, G, K)
  BY DEF Filled
<1> HIDE DEF E, F
<1> QED
  BY <1>2, <1>3, <1>4, <1>5, <1>6, <1>7

(* One card each of five ranks.                                            *)
LEMMA FiveRanks ==
  ASSUME NEW S, Dealt(S), NEW K \in SUBSET RanksOf(S), Cardinality(K) = 5
  PROVE  LET F == Filled(S, {}, K)
         IN  F \in SUBSET S /\ Five(F) /\ RanksOf(F) = K
<1> DEFINE F == Filled(S, {}, K)
<1>1. RanksOf({}) = {} /\ Cardinality({}) = 0
  BY FS_EmptySet DEF RanksOf
<1>2. {} \in SUBSET S /\ K \cap RanksOf({}) = {}
  BY <1>1
<1>3. /\ F \in SUBSET S /\ Dealt(F) /\ Cardinality(F) = Cardinality({}) + Cardinality(K)
      /\ RanksOf(F) = RanksOf({}) \cup K
  BY <1>2, FilledIs
<1> HIDE DEF F
<1>4. F \in SUBSET S /\ Five(F) /\ RanksOf(F) = K
  BY <1>1, <1>3 DEF Five
<1> QED
  BY <1>4 DEF F

(* Five of a hand's cards that hold what it holds are of its category.     *)
LEMMA SameCategory ==
  ASSUME NEW S, Hand(S), NEW F \in SUBSET S, Five(F), Holds(F, Category(S))
  PROVE  Hand(F) /\ Category(F) = Category(S) /\ Dealt(S) /\ Dealt(F) /\ Cardinality(F) <= 7
<1>1. Hand(F) /\ Dealt(S) /\ Dealt(F) /\ Cardinality(F) <= 7
  BY DEF Hand, Five
<1>2. Category(F) <= Category(S) /\ Category(F) \in 0..8 /\ Category(S) \in 0..8
  BY <1>1, CategoryGrows
<1>3. Category(S) <= Category(F)
  BY <1>2, CategoryIs
<1> QED
  BY <1>1, <1>2, <1>3

Attained(S) ==
  \E F \in SUBSET S : Five(F) /\ RuleBookValue(F) = RuleBookValue(S)

(* Five ranks of one suit are a flush of themselves.                       *)
LEMMA FlushOfRanks ==
  ASSUME NEW S, Dealt(S), NEW f \in Flushes(S), NEW K \in SUBSET RanksOf(f), Cardinality(K) = 5
  PROVE  LET F == Filled(f, {}, K)
         IN  F \in SUBSET S /\ Five(F) /\ RanksOf(F) = K /\ F \in Flushes(F)
<1> DEFINE F == Filled(f, {}, K)
<1>1. f \in SUBSET S /\ Dealt(f)
  BY FlushesAre
<1>2. F \in SUBSET f /\ Five(F) /\ RanksOf(F) = K
  BY <1>1, FiveRanks
<1> HIDE DEF F
<1>3. PICK s \in Suits : f = Suited(S, s)
  BY FlushesAre
<1>4. F = Suited(F, s)
  BY <1>2, <1>3 DEF Suited
<1>5. F \in Flushes(F)
  <2>1. Dealt(F) /\ Cardinality(F) >= 5
    BY <1>2 DEF Five
  <2> QED
    BY <1>4, <2>1, FlushesAre
<1>6. F \in SUBSET S /\ Five(F) /\ RanksOf(F) = K /\ F \in Flushes(F)
  BY <1>1, <1>2, <1>5
<1> QED
  BY <1>6 DEF F

(* Five cards worth all of them, by category: the ranks of the straight.   *)
LEMMA Attained8 ==
  ASSUME NEW S, Hand(S), Category(S) = 8
  PROVE  Attained(S)
<1>1. Dealt(S) /\ HasRoyal(S)
  BY ArmIs DEF Hand
<1> DEFINE h == Royal(S)
<1>2. /\ RuleBookValue(S) = <<8, h>> /\ h \in Int /\ h \in Royals(S)
      /\ \A x \in Royals(S) : x <= h
  BY <1>1, Value8, Listed8
<1> HIDE DEF h
<1>3. PICK f \in Flushes(S) : h \in Straights(RanksOf(f))
  BY <1>2 DEF Royals
<1>4. h \in 5..14 /\ Run(h) \in SUBSET RanksOf(f)
  BY <1>3, StraightsAre
<1>5. Cardinality(Run(h)) = 5
  BY <1>4, RunIs
<1> DEFINE F == Filled(f, {}, Run(h))
<1>6. F \in SUBSET S /\ Five(F) /\ RanksOf(F) = Run(h) /\ F \in Flushes(F)
  BY <1>1, <1>4, <1>5, FlushOfRanks
<1> HIDE DEF F
<1>7. h \in Royals(F)
  <2>1. h \in Straights(RanksOf(F))
    BY <1>4, <1>6, StraightsAre
  <2> QED
    BY <1>6, <2>1 DEF Royals
<1>8. Hand(F) /\ HasRoyal(F) /\ Dealt(F)
  BY <1>6, <1>7 DEF Five, Hand, HasRoyal
<1>9. /\ RuleBookValue(F) = <<8, Royal(F)>> /\ Royal(F) \in Royals(F) /\ Royal(F) \in Int
      /\ h <= Royal(F)
  BY <1>7, <1>8, Value8, Listed8
<1>10. Royal(F) <= h
  BY <1>1, <1>2, <1>6, <1>9, HoldsGrow
<1>11. Royal(F) = h
  BY <1>2, <1>9, <1>10
<1> QED
  BY <1>2, <1>6, <1>9, <1>11 DEF Attained

(* The four and the highest card beside it.                                *)
LEMMA Attained7 ==
  ASSUME NEW S, Hand(S), Category(S) = 7
  PROVE  Attained(S)
<1>1. Dealt(S) /\ HasFour(S) /\ Above7(S)
  BY ArmIs DEF Hand
<1> DEFINE q == Max(AtLeast(S, 4))
           m == Max(RanksOf(S) \ {q})
<1>2. /\ q \in AtLeast(S, 4) /\ q \in Int /\ m \in RanksOf(S) \ {q} /\ m \in Int
      /\ RuleBookValue(S) = <<7, q, m>>
  BY <1>1, Listed7
<1> HIDE DEF q, m
<1>3. Count(S, q) = 4 /\ q \in RanksOf(S)
  BY <1>2, KickersOfFour
<1> DEFINE G == Of(S, q)
           F == Filled(S, G, {m})
<1>4. /\ G \in SUBSET S /\ Dealt(G) /\ RanksOf(G) = {q} /\ Cardinality(G) = 4 /\ Count(G, q) = 4
  <2>1. G \in SUBSET S /\ RanksOf(G) = {q} /\ Of(G, q) = G
    BY <1>3 DEF Of, RanksOf
  <2>2. Dealt(G)
    BY <1>1, <2>1, PartDealt
  <2> HIDE DEF G
  <2>3. Cardinality(G) = Count(S, q)
    BY <1>1, CountIs DEF G
  <2> QED
    BY <1>3, <2>1, <2>2, <2>3, CountIs
<1> HIDE DEF G
<1>5. /\ F \in SUBSET S /\ Dealt(F) /\ Cardinality(F) = 4 + 1 /\ RanksOf(F) = {q} \cup {m}
      /\ Count(F, q) = 4
  <2>1. {m} \in SUBSET RanksOf(S) /\ {m} \cap RanksOf(G) = {} /\ q \notin {m}
    BY <1>2, <1>4
  <2>2. Cardinality({m}) = 1
    BY FS_Singleton
  <2> QED
    BY <1>1, <1>4, <2>1, <2>2, FilledIs
<1> HIDE DEF F
<1>6. q \in AtLeast(F, 4)
  BY <1>5 DEF AtLeast
<1>7. Hand(F) /\ Category(F) = 7 /\ Cardinality(F) <= 7
  <2>1. Five(F) /\ Holds(F, 7)
    BY <1>5, <1>6, HoldsIs DEF Five, HasFour
  <2> QED
    BY <1>5, <2>1, SameCategory
<1> DEFINE p == Max(AtLeast(F, 4))
           n == Max(RanksOf(F) \ {p})
<1>8. p \in AtLeast(F, 4) /\ n \in RanksOf(F) \ {p} /\ RuleBookValue(F) = <<7, p, n>>
  BY <1>7, ArmIs, Listed7
<1>9. p = q
  <2> HIDE DEF p, n
  <2> QED
    BY <1>5, <1>6, <1>7, <1>8, OneFour
<1>10. n = m
  <2> HIDE DEF p, n
  <2> QED
    BY <1>2, <1>5, <1>8, <1>9
<1> HIDE DEF p, n
<1> QED
  BY <1>2, <1>5, <1>8, <1>9, <1>10 DEF Attained, Five

(* The three and two cards of the highest pair beside it.                  *)
LEMMA Attained6 ==
  ASSUME NEW S, Hand(S), Category(S) = 6
  PROVE  Attained(S)
<1>1. Dealt(S) /\ HasHouse(S) /\ Above6(S) /\ ~HasFour(S)
  BY ArmIs DEF Hand, Above6
<1> DEFINE t == Three(S)
           p == Max(Under(S))
<1>2. /\ t \in Trips(S) /\ t \in Int /\ p \in Under(S) /\ p \in Int /\ Under(S) \subseteq 1..14
      /\ RuleBookValue(S) = <<6, t, p>>
  BY <1>1, Listed6
<1>3. /\ \A x \in Trips(S) : x <= t
      /\ \A x \in Under(S) : x <= p
  BY <1>1, <1>2, ThreeIs, MaxOfRanks
<1>4. Under(S) = Pairs(S) \ {t}
  BY DEF Under
<1> HIDE DEF t, p
<1>5. t \in RanksOf(S) /\ Cardinality(Of(S, t)) = 3 /\ IsFiniteSet(Of(S, t))
  <2>1. t \in RanksOf(S) /\ Count(S, t) >= 3 /\ Count(S, t) \in 0..4
    BY <1>1, <1>2, CountIs DEF Trips, AtLeast
  <2>2. ~(Count(S, t) >= 4)
    BY <1>1, <2>1 DEF HasFour, AtLeast
  <2>3. Count(S, t) = 3
    BY <2>1, <2>2
  <2> QED
    BY <1>1, <2>1, <2>3, CountIs
<1>6. PICK x \in Of(S, p), y \in Of(S, p) : x # y
  <2>1. p \in RanksOf(S) /\ Count(S, p) >= 2
    BY <1>2, <1>4 DEF Pairs, AtLeast
  <2>2. IsFiniteSet(Of(S, p)) /\ Cardinality(Of(S, p)) >= 2
    BY <1>1, <2>1, CountIs
  <2>3. Of(S, p) # {} /\ Cardinality(Of(S, p)) # 1
    BY <2>2, FS_EmptySet
  <2> QED
    BY <2>2, <2>3, TwoOrOne
<1> DEFINE F == Of(S, t) \cup {x, y}
<1>7. F \in SUBSET S /\ Of(F, t) = Of(S, t) /\ Of(F, p) = {x, y} /\ p # t
  BY <1>2, <1>4, <1>6 DEF Of
<1>8. IsFiniteSet({x, y}) /\ Cardinality({x, y}) = 2
  <2>1. IsFiniteSet({x}) /\ Cardinality({x}) = 1
    BY FS_Singleton
  <2>2. y \notin {x}
    BY <1>6
  <2>3. IsFiniteSet({x} \cup {y}) /\ Cardinality({x} \cup {y}) = Cardinality({x}) + 1
    BY <2>1, <2>2, FS_AddElement
  <2>4. {x} \cup {y} = {x, y}
    OBVIOUS
  <2> QED
    BY <2>1, <2>3, <2>4
<1>9. Cardinality(F) = 5
  <2>1. Of(S, t) \cap {x, y} = {}
    BY <1>6, <1>7 DEF Of
  <2>2. Cardinality(F)
          = Cardinality(Of(S, t)) + Cardinality({x, y}) - Cardinality(Of(S, t) \cap {x, y})
    BY <1>5, <1>8, FS_Union
  <2>3. Cardinality(Of(S, t) \cap {x, y}) = 0
    BY <2>1, FS_EmptySet
  <2> HIDE DEF F
  <2> QED
    BY <1>5, <1>8, <2>2, <2>3
<1> HIDE DEF F
<1>10. Dealt(F) /\ Five(F)
  BY <1>1, <1>7, <1>9, PartDealt DEF Five
<1>11. t \in Trips(F) /\ p \in Pairs(F)
  <2>1. Count(F, t) = 3 /\ Count(F, p) = 2
    BY <1>5, <1>7, <1>8, <1>10, CountIs
  <2>2. t \in RanksOf(F) /\ p \in RanksOf(F)
    BY <1>10, <2>1, CountIs
  <2> QED
    BY <2>1, <2>2 DEF Trips, Pairs, AtLeast
<1>12. Hand(F) /\ Category(F) = 6
  <2>1. Holds(F, 6)
    BY <1>7, <1>11, HoldsIs DEF HasHouse
  <2> QED
    BY <1>7, <1>10, <2>1, SameCategory
<1>13. Trips(F) \subseteq Trips(S) /\ Pairs(F) \subseteq Pairs(S)
  BY <1>1, <1>7, HoldsGrow
<1>14. /\ Three(F) \in Trips(F) /\ Three(F) \in Int
       /\ Max(Under(F)) \in Under(F) /\ Max(Under(F)) \in Int /\ Under(F) \subseteq 1..14
       /\ RuleBookValue(F) = <<6, Three(F), Max(Under(F))>>
  BY <1>12, ArmIs, Listed6
<1>15. Three(F) = t
  <2>1. t <= Three(F) /\ Three(F) <= t
    BY <1>3, <1>10, <1>11, <1>13, <1>14, ThreeIs
  <2> QED
    BY <1>2, <1>14, <2>1
<1>16. Max(Under(F)) = p
  <2>1. p \in Under(F) /\ Under(F) \subseteq Under(S)
    BY <1>4, <1>7, <1>11, <1>13, <1>15 DEF Under
  <2>2. p <= Max(Under(F)) /\ Max(Under(F)) <= p
    BY <1>3, <1>14, <2>1, MaxOfRanks
  <2> QED
    BY <1>2, <1>14, <2>2
<1> QED
  BY <1>2, <1>7, <1>10, <1>14, <1>15, <1>16 DEF Attained

(* The five highest ranks list as all the ranks do.                        *)
LEMMA LeadingFive ==
  ASSUME NEW X, Ints(X), Cardinality(X) \in Nat, Cardinality(X) >= 5
  PROVE  LET L == Leading(X, 5)
         IN  /\ L \subseteq X /\ Cardinality(L) = 5
             /\ Nth(L, 1) = Nth(X, 1) /\ Nth(L, 2) = Nth(X, 2) /\ Nth(L, 3) = Nth(X, 3)
             /\ Nth(L, 4) = Nth(X, 4) /\ Nth(L, 5) = Nth(X, 5)
<1>1. 5 \in 0..Cardinality(X)
  OBVIOUS
<1> DEFINE L == Leading(X, 5)
<1>2. L \subseteq X /\ Cardinality(L) = 5 /\ \A i \in 1..5 : Nth(L, i) = Nth(X, i)
  BY <1>1, LeadingAre
<1> HIDE DEF L
<1>3. /\ Nth(L, 1) = Nth(X, 1) /\ Nth(L, 2) = Nth(X, 2) /\ Nth(L, 3) = Nth(X, 3)
      /\ Nth(L, 4) = Nth(X, 4) /\ Nth(L, 5) = Nth(X, 5)
  BY <1>2
<1> QED
  BY <1>2, <1>3 DEF L

(* The five highest of the suit.                                           *)
LEMMA Attained5 ==
  ASSUME NEW S, Hand(S), Category(S) = 5
  PROVE  Attained(S)
<1>1. Dealt(S) /\ HasFlush(S) /\ Above5(S)
  BY ArmIs DEF Hand
<1> DEFINE f == FlushIn(S)
           X == RanksOf(f)
           L == Leading(X, 5)
           F == Filled(f, {}, L)
<1>2. /\ f \in Flushes(S) /\ Ints(X) /\ Cardinality(X) \in Nat /\ Cardinality(X) >= 5
      /\ RuleBookValue(S) = <<5, Nth(X, 1), Nth(X, 2), Nth(X, 3), Nth(X, 4), Nth(X, 5)>>
  BY <1>1, Listed5
<1> HIDE DEF f
<1>3. /\ L \subseteq X /\ Cardinality(L) = 5
      /\ Nth(L, 1) = Nth(X, 1) /\ Nth(L, 2) = Nth(X, 2) /\ Nth(L, 3) = Nth(X, 3)
      /\ Nth(L, 4) = Nth(X, 4) /\ Nth(L, 5) = Nth(X, 5)
  <2> HIDE DEF X
  <2> QED
    BY <1>2, LeadingFive
<1> HIDE DEF L
<1>4. F \in SUBSET S /\ Five(F) /\ RanksOf(F) = L /\ F \in Flushes(F)
  BY <1>1, <1>2, <1>3, FlushOfRanks
<1> HIDE DEF F, X
<1>5. Hand(F) /\ Category(F) = 5 /\ Dealt(F) /\ Cardinality(F) <= 7
  <2>1. Holds(F, 5)
    BY <1>4, HoldsIs DEF HasFlush
  <2> QED
    BY <1>4, <2>1, SameCategory
<1>6. /\ FlushIn(F) \in Flushes(F)
      /\ RuleBookValue(F)
           = <<5, Nth(RanksOf(FlushIn(F)), 1), Nth(RanksOf(FlushIn(F)), 2),
                  Nth(RanksOf(FlushIn(F)), 3), Nth(RanksOf(FlushIn(F)), 4),
                  Nth(RanksOf(FlushIn(F)), 5)>>
  BY <1>5, ArmIs, Listed5
<1>7. FlushIn(F) = F
  BY <1>4, <1>5, <1>6, OneFlush
<1>8. RuleBookValue(F) = <<5, Nth(L, 1), Nth(L, 2), Nth(L, 3), Nth(L, 4), Nth(L, 5)>>
  BY <1>4, <1>6, <1>7
<1> QED
  BY <1>2, <1>3, <1>4, <1>8 DEF Attained

(* A card of each rank of the straight.                                    *)
LEMMA Attained4 ==
  ASSUME NEW S, Hand(S), Category(S) = 4
  PROVE  Attained(S)
<1>1. Dealt(S) /\ HasStraight(S) /\ Above4(S)
  BY ArmIs DEF Hand
<1> DEFINE h == Straight(S)
<1>2. /\ RuleBookValue(S) = <<4, h>> /\ h \in Int /\ h \in Straights(RanksOf(S))
      /\ \A x \in Straights(RanksOf(S)) : x <= h
  BY <1>1, Value4, Listed4
<1> HIDE DEF h
<1>3. h \in 5..14 /\ Run(h) \in SUBSET RanksOf(S)
  BY <1>2, StraightsAre
<1>4. Cardinality(Run(h)) = 5
  BY <1>3, RunIs
<1> DEFINE F == Filled(S, {}, Run(h))
<1>5. F \in SUBSET S /\ Five(F) /\ RanksOf(F) = Run(h)
  BY <1>1, <1>3, <1>4, FiveRanks
<1> HIDE DEF F
<1>6. h \in Straights(RanksOf(F))
  BY <1>3, <1>5, StraightsAre
<1>7. Hand(F) /\ Category(F) = 4 /\ Dealt(F)
  <2>1. Holds(F, 4)
    BY <1>6, HoldsIs DEF HasStraight
  <2> QED
    BY <1>5, <2>1, SameCategory
<1>8. HasStraight(F) /\ Above4(F)
  BY <1>7, ArmIs
<1>9. /\ RuleBookValue(F) = <<4, Straight(F)>> /\ Straight(F) \in Straights(RanksOf(F))
      /\ Straight(F) \in Int /\ h <= Straight(F)
  BY <1>6, <1>7, <1>8, Value4, Listed4
<1>10. Straight(F) <= h
  BY <1>1, <1>2, <1>5, <1>9, HoldsGrow
<1>11. Straight(F) = h
  BY <1>2, <1>9, <1>10
<1> QED
  BY <1>2, <1>5, <1>9, <1>11 DEF Attained

(* The cards of a rank are a hand of one rank.                             *)
LEMMA OfIs ==
  ASSUME NEW S, Dealt(S), NEW r \in RanksOf(S)
  PROVE  /\ Of(S, r) \in SUBSET S /\ Dealt(Of(S, r)) /\ RanksOf(Of(S, r)) = {r}
         /\ Cardinality(Of(S, r)) = Count(S, r) /\ Count(Of(S, r), r) = Count(S, r)
<1> DEFINE G == Of(S, r)
<1>1. G \in SUBSET S /\ RanksOf(G) = {r} /\ Of(G, r) = G
  BY DEF Of, RanksOf
<1>2. Dealt(G)
  BY <1>1, PartDealt
<1>3. Cardinality(G) = Count(S, r)
  BY CountIs
<1> HIDE DEF G
<1>4. Count(G, r) = Count(S, r)
  BY <1>1, <1>2, <1>3, CountIs
<1> QED
  BY <1>1, <1>2, <1>3, <1>4 DEF G

(* The three and two kickers.                                              *)
LEMMA Attained3 ==
  ASSUME NEW S, Hand(S), Category(S) = 3
  PROVE  Attained(S)
<1>1. Dealt(S) /\ HasThree(S) /\ Above3(S)
  BY ArmIs DEF Hand
<1> DEFINE t == Three(S)
           X == RanksOf(S) \ {t}
           L == Leading(X, 2)
           G == Of(S, t)
           F == Filled(S, G, L)
<1>2. /\ Ints(X) /\ Cardinality(X) \in Nat /\ Cardinality(X) >= 2
      /\ RuleBookValue(S) = <<3, t, Nth(X, 1), Nth(X, 2)>>
      /\ Count(S, t) = 3 /\ t \in RanksOf(S)
  BY <1>1, Listed3, KickersOfThree
<1> HIDE DEF t
<1>3. /\ L \subseteq X /\ Cardinality(L) = 2
      /\ Nth(L, 1) = Nth(X, 1) /\ Nth(L, 2) = Nth(X, 2)
  <2> HIDE DEF X
  <2>1. 2 \in 0..Cardinality(X)
    BY <1>2
  <2>2. L \subseteq X /\ Cardinality(L) = 2 /\ \A i \in 1..2 : Nth(L, i) = Nth(X, i)
    BY <1>2, <2>1, LeadingAre
  <2> HIDE DEF L
  <2> QED
    BY <2>2
<1>4. L \in SUBSET RanksOf(S) /\ t \notin L
  <2> HIDE DEF L
  <2> QED
    BY <1>3
<1>5. /\ G \in SUBSET S /\ RanksOf(G) = {t} /\ Cardinality(G) = 3 /\ Count(G, t) = 3
  BY <1>1, <1>2, OfIs
<1> HIDE DEF L, G
<1>6. /\ F \in SUBSET S /\ Dealt(F) /\ Cardinality(F) = 3 + 2 /\ RanksOf(F) = {t} \cup L
      /\ Count(F, t) = 3
  <2>1. L \cap RanksOf(G) = {}
    BY <1>4, <1>5
  <2> QED
    BY <1>1, <1>3, <1>4, <1>5, <2>1, FilledIs
<1> HIDE DEF F
<1>7. t \in Trips(F) /\ t \in Pairs(F)
  BY <1>6 DEF Trips, Pairs, AtLeast
<1>8. Five(F) /\ Hand(F) /\ Category(F) = 3
  <2>1. Five(F) /\ Holds(F, 3)
    BY <1>6, <1>7, HoldsIs DEF Five, HasThree
  <2> QED
    BY <1>6, <2>1, SameCategory
<1> DEFINE Y == RanksOf(F) \ {Three(F)}
<1>9. Pairs(F) = {Three(F)} /\ RuleBookValue(F) = <<3, Three(F), Nth(Y, 1), Nth(Y, 2)>>
  BY <1>8, ArmIs, Listed3
<1>10. Three(F) = t
  BY <1>7, <1>9
<1>11. Y = L
  BY <1>4, <1>6, <1>10
<1> HIDE DEF Y
<1>12. RuleBookValue(F) = <<3, t, Nth(L, 1), Nth(L, 2)>>
  BY <1>9, <1>10, <1>11
<1> HIDE DEF X
<1> QED
  BY <1>2, <1>3, <1>6, <1>8, <1>12 DEF Attained

(* The two pairs and one kicker.                                           *)
LEMMA Attained2 ==
  ASSUME NEW S, Hand(S), Category(S) = 2
  PROVE  Attained(S)
<1>1. Dealt(S) /\ HasTwoPair(S) /\ Above2(S) /\ Ints(Pairs(S))
  BY ArmIs, PairsAre DEF Hand
<1> DEFINE P == Pairs(S)
           a == Nth(P, 1)
           b == Nth(P, 2)
           X == RanksOf(S) \ {a, b}
           L == Leading(X, 1)
           G == Of(S, a) \cup Of(S, b)
           F == Filled(S, G, L)
<1>2. /\ a \in Int /\ b \in Int /\ a \in P /\ b \in P /\ a > b
      /\ Ints(X) /\ Cardinality(X) \in Nat /\ Cardinality(X) >= 1
      /\ RuleBookValue(S) = <<2, a, b, Nth(X, 1)>>
  BY <1>1, Listed2
<1>3. Leading(P, 2) = {a, b} /\ 2 \in 0..Cardinality(P) /\ 2 \in 1..Cardinality(P)
  <2>1. Leading(P, 2) = {a, b}
    <3>1. 1..2 = {1, 2}
      OBVIOUS
    <3> QED
      BY <3>1 DEF Leading
  <2>2. 2 \in 1..Cardinality(P)
    BY <1>1, TopPairs
  <2> HIDE DEF P
  <2> QED
    BY <2>1, <2>2
<1>4. Nth({a, b}, 1) = a /\ Nth({a, b}, 2) = b /\ Cardinality({a, b}) = 2
  <2> HIDE DEF P
  <2>1. Cardinality(Leading(P, 2)) = 2 /\ \A i \in 1..2 : Nth(Leading(P, 2), i) = Nth(P, i)
    BY <1>1, <1>3, LeadingAre DEF P
  <2> QED
    BY <1>3, <2>1
<1> HIDE DEF a, b, P
<1>5. /\ Count(S, a) = 2 /\ Count(S, b) = 2 /\ a \in RanksOf(S) /\ b \in RanksOf(S)
      /\ a # b
  BY <1>1, <1>2, KickersOfTwoPair DEF P
<1>6. L \subseteq X /\ Cardinality(L) = 1 /\ Nth(L, 1) = Nth(X, 1)
  <2> HIDE DEF X
  <2>1. 1 \in 0..Cardinality(X)
    BY <1>2
  <2>2. L \subseteq X /\ Cardinality(L) = 1 /\ \A i \in 1..1 : Nth(L, i) = Nth(X, i)
    BY <1>2, <2>1, LeadingAre
  <2> HIDE DEF L
  <2> QED
    BY <2>2
<1>7. L \in SUBSET RanksOf(S) /\ a \notin L /\ b \notin L
  <2> HIDE DEF L
  <2> QED
    BY <1>6
<1>8. /\ G \in SUBSET S /\ RanksOf(G) = {a, b} /\ Cardinality(G) = 4
      /\ Count(G, a) = 2 /\ Count(G, b) = 2
  <2>1. /\ Of(S, a) \in SUBSET S /\ Dealt(Of(S, a)) /\ RanksOf(Of(S, a)) = {a}
        /\ Cardinality(Of(S, a)) = 2
        /\ Of(S, b) \in SUBSET S /\ Dealt(Of(S, b)) /\ RanksOf(Of(S, b)) = {b}
        /\ Cardinality(Of(S, b)) = 2
    BY <1>1, <1>5, OfIs
  <2>2. Of(S, a) \cap Of(S, b) = {}
    BY <1>5 DEF Of
  <2>3. RanksOf(G) = RanksOf(Of(S, a)) \cup RanksOf(Of(S, b))
    BY DEF RanksOf
  <2>4. Cardinality(G)
          = Cardinality(Of(S, a)) + Cardinality(Of(S, b)) - Cardinality(Of(S, a) \cap Of(S, b))
    BY <2>1, FS_Union DEF Dealt
  <2>5. Cardinality(Of(S, a) \cap Of(S, b)) = 0
    BY <2>2, FS_EmptySet
  <2>6. G \in SUBSET S /\ Of(G, a) = Of(S, a) /\ Of(G, b) = Of(S, b)
    BY <1>5 DEF Of
  <2> HIDE DEF G
  <2>7. Dealt(G)
    BY <1>1, <2>6, PartDealt
  <2>8. Count(G, a) = 2 /\ Count(G, b) = 2
    BY <2>1, <2>6, <2>7, CountIs
  <2>9. Cardinality(G) = 4
    BY <2>1, <2>4, <2>5
  <2>10. RanksOf(G) = {a, b}
    BY <2>1, <2>3
  <2> QED
    BY <2>6, <2>8, <2>9, <2>10
<1> HIDE DEF L, G
<1>9. /\ F \in SUBSET S /\ Dealt(F) /\ Cardinality(F) = 4 + 1 /\ RanksOf(F) = {a, b} \cup L
      /\ Count(F, a) = 2 /\ Count(F, b) = 2
  <2>1. L \cap RanksOf(G) = {}
    BY <1>7, <1>8
  <2> QED
    BY <1>1, <1>6, <1>7, <1>8, <2>1, FilledIs
<1> HIDE DEF F
<1>10. a \in Pairs(F) /\ b \in Pairs(F)
  BY <1>9 DEF Pairs, AtLeast
<1>11. Five(F) /\ Hand(F) /\ Category(F) = 2
  <2>1. Five(F) /\ Holds(F, 2)
    BY <1>5, <1>9, <1>10, HoldsIs DEF Five, HasTwoPair
  <2> QED
    BY <1>9, <2>1, SameCategory
<1> DEFINE c == Nth(Pairs(F), 1)
           d == Nth(Pairs(F), 2)
           Y == RanksOf(F) \ {c, d}
<1>12. RuleBookValue(F) = <<2, c, d, Nth(Y, 1)>> /\ c \in Int /\ d \in Int
  BY <1>11, ArmIs, Listed2
<1>13. c <= a /\ d <= b
  <2>1. Pairs(F) \subseteq Pairs(S)
    BY <1>1, <1>9, HoldsGrow
  <2>2. 1 \in 1..Cardinality(Pairs(F)) /\ 2 \in 1..Cardinality(Pairs(F))
    BY <1>9, <1>11, ArmIs, TopPairs
  <2> QED
    BY <1>1, <2>1, <2>2, NthGrows DEF a, b, P
<1>14. a <= c /\ b <= d
  <2>1. {a, b} \subseteq Pairs(F) /\ Ints(Pairs(F))
    BY <1>9, <1>10, PairsAre
  <2>2. 1 \in 1..Cardinality({a, b}) /\ 2 \in 1..Cardinality({a, b})
    BY <1>4
  <2>3. Nth({a, b}, 1) <= c /\ Nth({a, b}, 2) <= d
    BY <2>1, <2>2, NthGrows
  <2> HIDE DEF c, d
  <2> QED
    BY <1>4, <2>3
<1>15. c = a /\ d = b
  <2> HIDE DEF c, d
  <2> QED
    BY <1>2, <1>12, <1>13, <1>14
<1>16. Y = L
  <2> HIDE DEF c, d
  <2> QED
    BY <1>7, <1>9, <1>15
<1> HIDE DEF c, d, Y, X
<1>17. RuleBookValue(F) = <<2, a, b, Nth(L, 1)>>
  BY <1>12, <1>15, <1>16
<1> QED
  BY <1>2, <1>6, <1>9, <1>11, <1>17 DEF Attained

(* The pair and three kickers.                                             *)
LEMMA Attained1 ==
  ASSUME NEW S, Hand(S), Category(S) = 1
  PROVE  Attained(S)
<1>1. Dealt(S) /\ HasPair(S) /\ Above1(S)
  BY ArmIs DEF Hand
<1> DEFINE a == Max(Pairs(S))
           X == RanksOf(S) \ Pairs(S)
           L == Leading(X, 3)
           G == Of(S, a)
           F == Filled(S, G, L)
<1>2. /\ Pairs(S) = {a} /\ Ints(X) /\ Cardinality(X) \in Nat /\ Cardinality(X) >= 3
      /\ RuleBookValue(S) = <<1, a, Nth(X, 1), Nth(X, 2), Nth(X, 3)>>
      /\ Count(S, a) = 2 /\ a \in RanksOf(S)
  BY <1>1, Listed1, KickersOfPair
<1> HIDE DEF a
<1>3. /\ L \subseteq X /\ Cardinality(L) = 3
      /\ Nth(L, 1) = Nth(X, 1) /\ Nth(L, 2) = Nth(X, 2) /\ Nth(L, 3) = Nth(X, 3)
  <2> HIDE DEF X
  <2>1. 3 \in 0..Cardinality(X)
    BY <1>2
  <2>2. L \subseteq X /\ Cardinality(L) = 3 /\ \A i \in 1..3 : Nth(L, i) = Nth(X, i)
    BY <1>2, <2>1, LeadingAre
  <2> HIDE DEF L
  <2> QED
    BY <2>2
<1>4. L \in SUBSET RanksOf(S) /\ a \notin L
  <2> HIDE DEF L
  <2> QED
    BY <1>2, <1>3
<1>5. G \in SUBSET S /\ RanksOf(G) = {a} /\ Cardinality(G) = 2 /\ Count(G, a) = 2
  BY <1>1, <1>2, OfIs
<1> HIDE DEF L, G
<1>6. /\ F \in SUBSET S /\ Dealt(F) /\ Cardinality(F) = 2 + 3 /\ RanksOf(F) = {a} \cup L
      /\ Count(F, a) = 2
  <2>1. L \cap RanksOf(G) = {}
    BY <1>4, <1>5
  <2> QED
    BY <1>1, <1>3, <1>4, <1>5, <2>1, FilledIs
<1> HIDE DEF F
<1>7. a \in Pairs(F)
  BY <1>6 DEF Pairs, AtLeast
<1>8. Five(F) /\ Hand(F) /\ Category(F) = 1
  <2>1. Five(F) /\ Holds(F, 1)
    BY <1>6, <1>7, HoldsIs DEF Five, HasPair
  <2> QED
    BY <1>6, <2>1, SameCategory
<1> DEFINE b == Max(Pairs(F))
           Y == RanksOf(F) \ Pairs(F)
<1>9. Pairs(F) = {b} /\ RuleBookValue(F) = <<1, b, Nth(Y, 1), Nth(Y, 2), Nth(Y, 3)>>
  BY <1>8, ArmIs, Listed1
<1> HIDE DEF b
<1>10. b = a
  BY <1>7, <1>9
<1>11. Y = L
  BY <1>4, <1>6, <1>9, <1>10
<1> HIDE DEF Y
<1>12. RuleBookValue(F) = <<1, a, Nth(L, 1), Nth(L, 2), Nth(L, 3)>>
  BY <1>9, <1>10, <1>11
<1> HIDE DEF X
<1> QED
  BY <1>2, <1>3, <1>6, <1>8, <1>12 DEF Attained

(* The five highest ranks.                                                 *)
LEMMA Attained0 ==
  ASSUME NEW S, Hand(S), Category(S) = 0
  PROVE  Attained(S)
<1>1. Dealt(S) /\ Above0(S)
  BY ArmIs DEF Hand
<1> DEFINE X == RanksOf(S)
           L == Leading(X, 5)
           F == Filled(S, {}, L)
<1>2. /\ Ints(X) /\ Cardinality(X) \in Nat /\ Cardinality(X) >= 5
      /\ RuleBookValue(S) = <<0, Nth(X, 1), Nth(X, 2), Nth(X, 3), Nth(X, 4), Nth(X, 5)>>
  BY <1>1, Listed0
<1>3. /\ L \subseteq X /\ Cardinality(L) = 5
      /\ Nth(L, 1) = Nth(X, 1) /\ Nth(L, 2) = Nth(X, 2) /\ Nth(L, 3) = Nth(X, 3)
      /\ Nth(L, 4) = Nth(X, 4) /\ Nth(L, 5) = Nth(X, 5)
  <2> HIDE DEF X
  <2> QED
    BY <1>2, LeadingFive
<1> HIDE DEF L
<1>4. F \in SUBSET S /\ Five(F) /\ RanksOf(F) = L
  BY <1>1, <1>3, FiveRanks
<1> HIDE DEF F
<1>5. Hand(F) /\ Category(F) = 0
  <2>1. Holds(F, 0)
    BY HoldsIs
  <2> QED
    BY <1>4, <2>1, SameCategory
<1>6. RuleBookValue(F) = <<0, Nth(L, 1), Nth(L, 2), Nth(L, 3), Nth(L, 4), Nth(L, 5)>>
  BY <1>4, <1>5, ArmIs, Listed0
<1> HIDE DEF X
<1> QED
  BY <1>2, <1>3, <1>4, <1>6 DEF Attained

(* Some five of a hand's cards are worth what the rules give all of them.  *)
LEMMA AttainedIs ==
  ASSUME NEW S, Hand(S)
  PROVE  Attained(S)
<1> DEFINE k == Category(S)
<1>1. k \in 0..8
  BY CategoryIs
<1> HIDE DEF k
<1>2. k \in {0, 1, 2, 3, 4, 5, 6, 7, 8}
  BY <1>1
<1> QED
  BY <1>2, Attained0, Attained1, Attained2, Attained3, Attained4, Attained5, Attained6,
     Attained7, Attained8 DEF k

-----------------------------------------------------------------------------
(* The best of the fives.                                                  *)

(* A higher category wins at the first number.                             *)
LEMMA HigherWins ==
  ASSUME NEW k \in 0..8, NEW m \in 0..8, k < m, NEW l, NEW r, Listing(l, k), Listing(r, m)
  PROVE  Beats(r, l)
<1>1. 1 \in DOMAIN l \cap DOMAIN r
  BY DEF Listing, Width
<1>2. r[1] > l[1] /\ \A j \in 1..(1 - 1) : r[j] = l[j]
  BY DEF Listing
<1> QED
  BY <1>1, <1>2 DEF Beats

(* Two values that differ differ somewhere first.                          *)
LEMMA FirstDifference ==
  ASSUME NEW n \in 1..14, NEW l \in [1..n -> Int], NEW r \in [1..n -> Int], l # r
  PROVE  \E i \in 1..n : l[i] # r[i] /\ \A j \in 1..(i - 1) : l[j] = r[j]
<1> DEFINE D == {i \in 1..n : l[i] # r[i]}
           E == {n + 1 - i : i \in D}
<1>1. D # {}
  <2>1. \E i \in 1..n : l[i] # r[i]
    OBVIOUS
  <2> QED
    BY <2>1
<1>2. E \subseteq 1..14 /\ E # {}
  <2>1. \A i \in D : n + 1 - i \in 1..14
    OBVIOUS
  <2>2. \A i \in D : n + 1 - i \in E
    OBVIOUS
  <2> HIDE DEF D
  <2>3. E \subseteq 1..14
    BY <2>1
  <2> HIDE DEF E
  <2> QED
    BY <1>1, <2>2, <2>3
<1>3. Max(E) \in E /\ \A e \in E : e <= Max(E)
  <2> HIDE DEF E
  <2> QED
    BY <1>2, MaxOfRanks
<1>4. PICK i \in D : Max(E) = n + 1 - i
  BY <1>3
<1>5. ASSUME NEW j \in 1..(i - 1)
      PROVE  l[j] = r[j]
  <2>1. SUFFICES ASSUME j \in D
                 PROVE  FALSE
    OBVIOUS
  <2>2. n + 1 - j \in E
    BY <2>1
  <2>3. n + 1 - j <= Max(E)
    BY <1>3, <2>2
  <2> HIDE DEF E
  <2> QED
    BY <1>4, <2>3
<1> QED
  BY <1>4, <1>5

(* Of two values one beats the other unless they are the same.             *)
LEMMA UnbeatenIsEqual ==
  ASSUME NEW k \in 0..8, NEW m \in 0..8, NEW l, NEW r, Listing(l, k), Listing(r, m),
         ~Beats(l, r), ~Beats(r, l)
  PROVE  l = r
<1>1. k = m
  <2>1. ~(k < m) /\ ~(m < k)
    BY HigherWins
  <2> QED
    BY <2>1
<1> SUFFICES ASSUME l # r
             PROVE  FALSE
  OBVIOUS
<1> DEFINE n == Width(k)
<1>2. n \in 1..14
  BY DEF Width
<1>3. l \in [1..n -> Int] /\ r \in [1..n -> Int]
  BY <1>1 DEF Listing
<1> HIDE DEF n
<1>4. PICK i \in 1..n : l[i] # r[i] /\ \A j \in 1..(i - 1) : l[j] = r[j]
  BY <1>2, <1>3, FirstDifference
<1>5. l[i] \in Int /\ r[i] \in Int /\ i \in DOMAIN l \cap DOMAIN r
  BY <1>3
<1>6. CASE l[i] > r[i]
  BY <1>4, <1>5, <1>6 DEF Beats
<1>7. CASE r[i] > l[i]
  BY <1>4, <1>5, <1>7 DEF Beats
<1> QED
  BY <1>4, <1>5, <1>6, <1>7

(* The best of all the fives of five to seven cards is the hand the rules  *)
(* give all of them.                                                       *)
THEOREM BestOfTheFives ==
  ASSUME NEW S, Hand(S)
  PROVE  EvaluateBestHand(S) = RuleBookValue(S)
<1> DEFINE values == {EvaluateFive(five) : five \in kSubset(5, S)}
           v == RuleBookValue(S)
<1>1. ASSUME NEW F
      PROVE  F \in kSubset(5, S) <=> F \in SUBSET S /\ Five(F)
  <2>1. F \in kSubset(5, S) <=> F \in SUBSET S /\ Cardinality(F) = 5
    BY DEF kSubset
  <2>2. F \in SUBSET S => Dealt(F)
    BY PartDealt DEF Hand
  <2> QED
    BY <2>1, <2>2 DEF Five
<1>2. ASSUME NEW F \in SUBSET S, Five(F)
      PROVE  Hand(F) /\ EvaluateFive(F) = RuleBookValue(F)
  BY <1>2, FiveByTheRules DEF Hand, Five
<1>3. v \in values
  <2>1. PICK F \in SUBSET S : Five(F) /\ RuleBookValue(F) = v
    BY AttainedIs DEF Attained
  <2>2. F \in kSubset(5, S) /\ EvaluateFive(F) = v
    BY <1>1, <1>2, <2>1
  <2> QED
    BY <2>2
<1>4. ASSUME NEW w \in values
      PROVE  ~Beats(w, v) /\ \E k \in 0..8 : Listing(w, k)
  <2>1. PICK F \in SUBSET S : Five(F) /\ w = EvaluateFive(F)
    BY <1>1
  <2>2. Hand(F) /\ w = RuleBookValue(F)
    BY <1>2, <2>1
  <2> QED
    BY <2>1, <2>2, NotBetter, ValueIsListing
<1>5. \E k \in 0..8 : Listing(v, k)
  BY ValueIsListing
<1> DEFINE b == CHOOSE value \in values : \A other \in values : ~Beats(other, value)
<1>6. b \in values /\ \A other \in values : ~Beats(other, b)
  <2> HIDE DEF values, v
  <2>1. \E value \in values : \A other \in values : ~Beats(other, value)
    BY <1>3, <1>4
  <2> QED
    BY <2>1
<1>7. b = EvaluateBestHand(S)
  BY DEF EvaluateBestHand
<1> HIDE DEF b, values, v
<1>8. ~Beats(v, b) /\ ~Beats(b, v) /\ \E m \in 0..8 : Listing(b, m)
  BY <1>3, <1>4, <1>6
<1>9. b = v
  BY <1>5, <1>8, UnbeatenIsEqual
<1> QED
  BY <1>7, <1>9 DEF v

-----------------------------------------------------------------------------
(* The cards are a hand while there is one to judge, and what was found is *)
(* the best of its fives.                                                  *)
JudgedHand ==
  /\ question = "hands" => Hand(dealt)
  /\ best # NoValue => Hand(dealt) /\ best = EvaluateBestHand(dealt)

(* The cards dealt are a hand.                                             *)
LEMMA DealtHands ==
  ASSUME NEW S \in UNION {kSubset(n, Deck) : n \in 5..7}
  PROVE  Hand(S)
<1>1. PICK n \in 5..7 : S \in SUBSET Deck /\ Cardinality(S) = n
  BY DEF kSubset
<1>2. S \subseteq Cards
  BY <1>1, DeckAssumption DEF Cards
<1>3. IsFiniteSet(S)
  BY <1>2, CardsFinite, FS_Subset
<1> QED
  BY <1>1, <1>2, <1>3 DEF Hand, Dealt

(* JudgedHand holds when a hand begins,                                    *)
LEMMA JudgingStarts == HandEndInit => JudgedHand
<1> SUFFICES ASSUME HandEndInit
             PROVE  JudgedHand
  OBVIOUS
<1>1. best = NoValue
  BY DEF HandEndInit, IdleShowdown, ShowdownInit
<1>2. question = "hands" => Hand(dealt)
  <2> SUFFICES ASSUME question = "hands"
               PROVE  Hand(dealt)
    OBVIOUS
  <2>1. dealt \in UNION {kSubset(n, Deck) : n \in 5..7}
    BY DEF HandEndInit, ShowdownInit
  <2> QED
    BY <2>1, DealtHands
<1> QED
  BY <1>1, <1>2 DEF JudgedHand

(* and every step keeps it,                                                *)
LEMMA JudgingStays == JudgedHand /\ [HandEndNext]_handEndVars => JudgedHand'
<1> SUFFICES ASSUME JudgedHand, [HandEndNext]_handEndVars
             PROVE  JudgedHand'
  OBVIOUS
<1>1. CASE question = "hands" /\ Evaluate /\ UNCHANGED question
  <2>1. Hand(dealt) /\ dealt' = dealt /\ best' = EvaluateBestHand(dealt) /\ question' = question
    BY <1>1 DEF JudgedHand, Evaluate
  <2> QED
    BY <2>1 DEF JudgedHand
<1>2. CASE UNCHANGED <<dealt, best, question>>
  BY <1>2 DEF JudgedHand
<1>3. \/ question = "hands" /\ Evaluate /\ UNCHANGED question
      \/ UNCHANGED <<dealt, best, question>>
  BY DEF HandEndNext, handEndVars, showdownVars
<1> QED
  BY <1>1, <1>2, <1>3

(* and it is what the rules say.                                           *)
LEMMA JudgingByTheRules == JudgedHand => BestHandByTheRules
  BY BestOfTheFives DEF JudgedHand, BestHandByTheRules

(* BestHandByTheRules, for every deck: what evaluateBestHand finds in the  *)
(* cards a player was dealt is the hand the rules give them.               *)
THEOREM BestByTheRules == HandEndSpec => []BestHandByTheRules
BY JudgingStarts, JudgingStays, JudgingByTheRules, PTL DEF HandEndSpec, handEndVars
=============================================================================
